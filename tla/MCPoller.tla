------------------------------ MODULE MCPoller ------------------------------
(***************************************************************************)
(* Instances of Poller for TLC.                                            *)
(***************************************************************************)
EXTENDS PollerInv

\* One pull request; an issue and a pull request.
OnePR  == [t \in {1} |-> "pr"]
Mixed  == [t \in {1, 2} |-> IF t = 1 THEN "issue" ELSE "pr"]

AllFaults    == FaultKinds
NoFaults     == {}
\* The failures that leave the row and the timeline in step.
InStepFaults == FaultKinds \ {"crash", "applyError"}
\* The failures that do not lose a snapshot of the issue.
StateFaults  == SafeFaults \ {"applyError"}
=============================================================================
