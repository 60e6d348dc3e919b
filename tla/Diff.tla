-------------------------------- MODULE Diff --------------------------------
(***************************************************************************)
(* Diff of internal/poller: the events to insert and the update of the     *)
(* threads row, from what is recorded (prev: state, lastEventAt, seen) and *)
(* a snapshot (snap: kind, state, updatedAt, items).  The order in which   *)
(* the events are listed reaches nothing but the autoincrement id and is   *)
(* left out: they are a set here.                                          *)
(***************************************************************************)
EXTENDS Storage, FiniteSetsExt

InterestingIssueEvents == {"labeled", "closed", "reopened", "merged"}

\* A plausible bug: the filter on the type of issue events is left out.
SurfacedAll(items) == {[kind |-> i.kind, id |-> i.id, at |-> i.at] : i \in items}

\* Every comment, review and inline comment, and the issue events of an
\* interesting type, as rows of the events table.
Surfaced(items) ==
  {[kind |-> i.kind, id |-> i.id, at |-> i.at] :
     i \in {j \in items : j.kind = "issue_event" => j.event \in InterestingIssueEvents}}

\* Plausible bugs: no event when the thread leaves a state other than open;
\* an event whenever the snapshot has a state.
ChangeFromOpen(prev, snap) ==
  IF prev.state = "open" /\ prev.state # snap.state
  THEN {[kind |-> "state_change", id |-> <<snap.state, snap.updatedAt>>, at |-> snap.updatedAt]}
  ELSE {}
StateEachPoll(prev, snap) ==
  {[kind |-> "state_change", id |-> <<snap.state, snap.updatedAt>>, at |-> snap.updatedAt]}

\* A plausible bug: the id is the state alone.
StateById(prev, snap) ==
  IF prev.state # "" /\ prev.state # snap.state
  THEN {[kind |-> "state_change", id |-> <<snap.state, 0>>, at |-> snap.updatedAt]}
  ELSE {}

\* The synthesized event; its id is the new state and updated_at.
StateChange(prev, snap) ==
  IF prev.state # "" /\ prev.state # snap.state
  THEN {[kind |-> "state_change", id |-> <<snap.state, snap.updatedAt>>, at |-> snap.updatedAt]}
  ELSE {}

NewEvents(prev, snap) ==
  {e \in Surfaced(snap.items) \cup StateChange(prev, snap) : Key(e) \notin prev.seen}

\* A plausible bug: the latest new event, whatever was recorded before.
LatestOfBatch(prev, batch) ==
  IF batch = {} THEN prev.lastEventAt ELSE Max({e.at : e \in batch})

\* The latest of the new events and of what is recorded, nil if there is
\* neither (NoTime is before every time).
LastEventAt(prev, batch) == Max({prev.lastEventAt} \cup {e.at : e \in batch})

Update(prev, snap) ==
  [kind |-> snap.kind, state |-> snap.state,
   lastEventAt |-> LastEventAt(prev, NewEvents(prev, snap))]
=============================================================================
