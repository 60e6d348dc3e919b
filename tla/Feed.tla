-------------------------------- MODULE Feed --------------------------------
(***************************************************************************)
(* What threadwatch promises of a thread's timeline, without saying how:   *)
(* it only grows, every entry on it is something GitHub posted, unaltered, *)
(* and entries appear in batches, one thread at a time.                    *)
(***************************************************************************)
CONSTANT Threads
VARIABLES posted, timeline   \* per thread, a set of entries

feedVars == <<posted, timeline>>

Init == posted = [t \in Threads |-> {}] /\ timeline = [t \in Threads |-> {}]

Post ==
  /\ \A t \in Threads : posted[t] \subseteq posted'[t]
  /\ UNCHANGED timeline

Record(t) ==
  /\ \E batch \in SUBSET posted[t] :
       timeline' = [timeline EXCEPT ![t] = @ \cup batch]
  /\ UNCHANGED posted

Next == Post \/ \E t \in Threads : Record(t)

Spec == Init /\ [][Next]_feedVars
=============================================================================
