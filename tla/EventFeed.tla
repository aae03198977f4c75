------------------------------ MODULE EventFeed ------------------------------
(***************************************************************************)
(* What the event log of a task promises: entries get consecutive numbers, *)
(* an entry never changes, and who reads on from the last number it has    *)
(* seen has seen every entry up to there.                                  *)
(***************************************************************************)
EXTENDS Naturals

CONSTANTS Authors, Readers

VARIABLES
  length,    \* how many entries there are
  author,    \* author[n]: who wrote entry n
  read       \* read[r]: the entries reader r has seen

Init ==
  /\ length = 0
  /\ author = [n \in {} |-> n]
  /\ read = [r \in Readers |-> {}]

Write(a) ==
  /\ length' = length + 1
  /\ author' = [n \in 1..(length + 1) |-> IF n = length + 1 THEN a ELSE author[n]]
  /\ UNCHANGED read

ReadOn(r) ==
  /\ \E n \in 0..length :
       /\ read[r] \subseteq 1..n
       /\ read' = [read EXCEPT ![r] = 1..n]
  /\ UNCHANGED <<length, author>>

Next == (\E a \in Authors : Write(a)) \/ (\E r \in Readers : ReadOn(r))

vars == <<length, author, read>>

Spec == Init /\ [][Next]_vars
=============================================================================
