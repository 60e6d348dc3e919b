-------------------------------- MODULE Ticks --------------------------------
(***************************************************************************)
(* What polling promises, without saying who asks for a tick or what a     *)
(* poll does: ticks do not overlap, a tick goes once through every row     *)
(* there is, in id order, and is cut short by nothing but the end of the   *)
(* process; rows are added while nothing runs.                             *)
(***************************************************************************)
EXTENDS Naturals

VARIABLES
  alive,   \* the poller's goroutine exists
  rows,    \* the ids of the rows to poll
  busy,    \* a tick is under way
  left     \* the rows it has yet to poll

ticksVars == <<alive, rows, busy, left>>

Init == alive \in BOOLEAN /\ rows \subseteq Nat /\ ~ busy /\ left = {}

AddRows == ~ alive /\ rows' \in SUBSET Nat /\ rows \subseteq rows' /\ UNCHANGED <<alive, busy, left>>
Revive  == ~ alive /\ alive' /\ UNCHANGED <<rows, busy, left>>
Die     == alive /\ ~ alive' /\ ~ busy' /\ left' = {} /\ UNCHANGED rows

Begin == alive /\ ~ busy /\ busy' /\ left' = rows /\ UNCHANGED <<alive, rows>>
Poll  == \E t \in left :
           /\ busy /\ \A u \in left : t <= u
           /\ left' = left \ {t}
           /\ UNCHANGED <<alive, rows, busy>>
End   == busy /\ left = {} /\ ~ busy' /\ UNCHANGED <<alive, rows, left>>

Next == AddRows \/ Revive \/ Die \/ Begin \/ Poll \/ End

Spec == Init /\ [][Next]_ticksVars
=============================================================================
