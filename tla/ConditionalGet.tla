--------------------------- MODULE ConditionalGet ---------------------------
(***************************************************************************)
(* What a conditional GET promises, without attempts: it is answered once, *)
(* as if GitHub had looked at the resource at one moment between the call  *)
(* and its return.  This is the atomic Answer of Poller: while the poller  *)
(* waits in a call nothing but GitHub moves, so the moment can be taken to *)
(* be that of the answer.                                                  *)
(***************************************************************************)
EXTENDS Integers

VARIABLES
  ver,      \* the version of the resource
  busy,     \* a call is under way
  tag,      \* the version whose ETag it sends, 0 for none
  since,    \* the version when it was made
  outcome   \* how the last call came back, and which version it tells of

getVars == <<ver, busy, tag, since, outcome>>

Pending == [status |-> "pending", version |-> 0]

Init == ver = 1 /\ ~ busy /\ tag = 0 /\ since = 1 /\ outcome = Pending

Change == ver' = ver + 1 /\ UNCHANGED <<busy, tag, since, outcome>>

Call ==
  /\ ~ busy /\ busy' /\ tag' \in 0 .. ver /\ since' = ver /\ outcome' = Pending
  /\ UNCHANGED ver

Return ==
  /\ busy /\ ~ busy'
  /\ \/ \E v \in since .. ver :
          outcome' = [status |-> IF tag = v THEN "unchanged" ELSE "ok", version |-> v]
     \/ outcome' \in [status : {"missing", "failed"}, version : {0}]
  /\ UNCHANGED <<ver, tag, since>>

Next == Change \/ Call \/ Return

Spec == Init /\ [][Next]_getVars
=============================================================================
