------------------------------ MODULE ListSpec ------------------------------
(***************************************************************************)
(* What the five linked lists promise, as a sequence of values; and the    *)
(* calls for which they keep the promise (Supported).  A call that is not  *)
(* supported breaks the list at once and for good: the program may still   *)
(* run, but on a list of which nothing is promised.                        *)
(***************************************************************************)
EXTENDS Integers, Sequences, FiniteSets

CONSTANT Value

VARIABLES kind,    \* which of the five lists
          list,    \* its values, in order
          usable,  \* nothing was called that the list does not support
          call     \* the last call, with its arguments

listVars == <<kind, list, usable, call>>

Has(w) == \E i \in DOMAIN list : list[i] = w

\* The list before and after a place.
Until(i) == SubSeq(list, 1, i)
After(i) == SubSeq(list, i + 1, Len(list))

Count(s, v) == Cardinality({i \in DOMAIN s : s[i] = v})

Supported(c) ==
  LET does(op, kinds) == c[1] = op /\ kind \in kinds
      ring == {"circular", "doublycircular"}
  IN /\ does("push", {"circular"}) => list # << >>
     /\ does("insert", {"doubly"}) => ~Has(c[2])
     /\ does("insert", ring) =>
          Has(c[2]) \/ (kind = "doublycircular" /\ list = << >>)
     /\ does("delete", ring \cup {"singly", "doubly"}) => Has(c[2])
     /\ does("delete", ring \cup {"doubly"}) => Len(list) > 1
     /\ does("freeall", {"circular"}) => list # << >>
     /\ does("freeall", {"doublycircular"}) => Len(list) = 1

\* Which of several equal values an insertion or a deletion takes is left open.
Effects(c) ==
  CASE c[1] = "append" -> list' = Append(list, c[2])
    [] c[1] = "push" -> list' = <<c[2]>> \o list
    [] c[1] = "insert" ->
         IF Has(c[2])
           THEN \E i \in DOMAIN list :
                  list[i] = c[2] /\ list' = Until(i) \o <<c[3]>> \o After(i)
           ELSE list' = IF list = << >> /\ kind = "doublycircular"
                          THEN <<c[3]>> ELSE list
    [] c[1] = "delete" ->
         IF Has(c[2])
           THEN \E i \in DOMAIN list :
                  list[i] = c[2] /\ list' = Until(i - 1) \o After(i)
           ELSE list' = list
    [] c[1] = "sort" ->
         /\ \A i, j \in DOMAIN list' : i < j => list'[i] <= list'[j]
         /\ \A v \in Value : Count(list', v) = Count(list, v)
    [] c[1] = "freeall" -> list' = << >>
    [] c[1] = "print" -> list' = list

ListInit ==
  /\ list = << >>
  /\ usable = TRUE

ListCall ==
  /\ usable' = (usable /\ Supported(call'))
  /\ IF usable' THEN Effects(call') ELSE list' = << >>
  /\ UNCHANGED kind

ListPromise == ListInit /\ [][ListCall]_listVars
=============================================================================
