------------------------------ MODULE ListDemo ------------------------------
(***************************************************************************)
(* LinkedList/main.c: a demonstration of each of the four lists, one after *)
(* the other, each from an empty list on.                                  *)
(***************************************************************************)
EXTENDS LinkedLists

VARIABLE line   \* how many calls of its demonstration have returned

print == <<"print">>
Each(op, values) == [n \in DOMAIN values |-> <<op, values[n]>>]

Demo ==
  [singly |->
     Each("append", <<1, 2, 3>>) \o << <<"insert", 2, 4>>, <<"insert", 4, 5>> >>
       \o Each("push", <<0, -1>>) \o <<print, <<"sort">>, print>>
       \o Each("delete", <<2, -1>>) \o <<print, <<"freeall">>, print>>,
   doubly |->
     Each("append", <<1, 2, 3>>) \o Each("push", <<0, -1>>)
       \o << <<"insert", 2, 4>>, <<"insert", 4, 6>>, print, <<"sort">>, print>>
       \o Each("delete", <<6, 2>>) \o <<print, <<"freeall">>, print>>,
   circular |->
     Each("append", <<6, 4, 5, 7, 8>>)
       \o <<print, <<"insert", 4, 66>>, <<"insert", 7, 9>>,
                   <<"insert", 6, 10>>, <<"insert", 8, 11>>, print>>
       \o << <<"delete", 8>>, print, <<"delete", 4>>, print, <<"delete", 6>>, print>>
       \o Each("push", <<1, 0>>) \o <<print, <<"freeall">>, print>>,
   doublycircular |->
     Each("append", <<3, 5>>) \o <<print>> \o Each("push", <<4, 7>>)
       \o <<print, <<"insert", 4, 6>>, <<"insert", 3, 8>>, print>>
       \o Each("delete", <<6, 7>>) \o <<print, <<"freeall">>, print>>]

\* malloc gives some address that is free: one is as good as another.
SomeFresh == \A a \in Live' \ Live : a = CHOOSE fresh \in Fresh : TRUE

main ==
  /\ status = "ok" /\ line < Len(Demo[kind])
  /\ Next /\ call' = Demo[kind][line + 1]
  /\ SomeFresh
  /\ line' = line + 1

DemoInit == Init /\ kind \in DOMAIN Demo /\ line = 0

DemoSpec == DemoInit /\ [][main]_<<heapVars, line>>

----------------------------------------------------------------------------
(* Properties. *)

\* The lists can do what main.c demonstrates of them: the insertions of lines
\* 38 and 39 and the printing of line 40, say.  No call follows a bad pointer,
\* and each returns.
DemoRuns == status = "ok"
=============================================================================
