----------------------------- MODULE RowProofs -----------------------------
(***************************************************************************)
(* Proofs about the threads row, for every set of failures: its last event *)
(* is on the timeline, nothing it says is taken back, its state does not   *)
(* change without an event, and no change is announced twice without a     *)
(* failure between insert and update.                                      *)
(***************************************************************************)
EXTENDS PollerProofs, FiniteSetTheorems

\* RowInv with the types it relies on.
RInv == TypeInv /\ RowInv

\* Inserting keeps what is there and adds the new events, none of which has
\* the key of an old one.
LEMMA InsertAddsAll ==
  ASSUME cur \in Threads, seen = Recorded(cur), events \in [Threads -> SUBSET Event],
         events' = [events EXCEPT ![cur] = InsertEventsIfNew(events[cur], NewEvents(Existing, out))]
  PROVE  /\ events'[cur] = events[cur] \cup NewEvents(Existing, out)
         /\ \A t \in Threads : t # cur => events'[t] = events[t]
<1>1. \A e \in NewEvents(Existing, out) : \A r \in events[cur] : Key(r) # Key(e)
  BY DEF NewEvents, Existing, Recorded
<1>2. InsertEventsIfNew(events[cur], NewEvents(Existing, out)) = events[cur] \cup NewEvents(Existing, out)
  BY <1>1 DEF InsertEventsIfNew
<1> QED
  BY <1>2

\* A surfaced item is never filed as a state change.
LEMMA SurfacedKind ==
  ASSUME NEW S \in SUBSET Item, NEW e \in Surfaced(S)
  PROVE  e.kind # "state_change"
<1>1. PICK i \in S : e = [kind |-> i.kind, id |-> i.id, at |-> i.at]
  BY DEF Surfaced
<1>2. i.kind \in {SourceKind[s] : s \in ListEndpoints}
  BY DEF Item
<1> QED
  BY <1>1, <1>2 DEF SourceKind, ListEndpoints, Endpoints

LEMMA NewEventsChange ==
  ASSUME TypeInv, NEW e \in NewEvents(Existing, out), e.kind = "state_change"
  PROVE  e.at = e.id[2]
<1>1. out.items \in SUBSET Item
  BY DEF TypeInv, TypeOK, Result
<1>2. e \in StateChange(Existing, out)
  BY <1>1, SurfacedKind DEF NewEvents
<1>3. e = [kind |-> "state_change", id |-> <<out.state, out.updatedAt>>, at |-> out.updatedAt]
  BY <1>2 DEF StateChange
<1>4. e.id = <<out.state, out.updatedAt>> /\ e.at = out.updatedAt
  BY <1>3
<1> QED
  BY <1>4

LEMMA RowInvInit == Init => RowInv
<1> SUFFICES ASSUME Init PROVE RowInv
  OBVIOUS
<1> USE DEF Init
<1>1. cur \notin Threads /\ todo = {} /\ pc = "idle" /\ ~ Polling
  BY ThreadsAssumption DEF NoThread, Polling, Fetching, Endpoints
<1>2. \A t \in Threads : row[t] = NewThreadRow /\ events[t] = {}
  OBVIOUS
<1>3. NewThreadRow.kind = "unknown" /\ NewThreadRow.lastEventAt = NoTime
  BY DEF NewThreadRow, DefaultKind
<1> HIDE DEF Init
<1>4. ViewInv
  BY <1>1 DEF ViewInv, Fetching, Endpoints, Polling
<1>5. KindInv /\ StateChangeInv /\ LastEventRecorded
  BY <1>1, <1>2, <1>3 DEF KindInv, StateChangeInv, LastEventRecorded
<1> QED
  BY <1>4, <1>5 DEF RowInv

\* A step that leaves row and events alone, and whose listing and memory
\* are those of ViewInv and KindInv.
LEMMA RowUntouched ==
  ASSUME RInv, UNCHANGED <<row, events>>, ViewInv', cur' \in Threads => out'.kind \in {"", Kind[cur']}
  PROVE  RowInv'
<1> USE DEF RInv, RowInv
<1>1. KindInv' /\ StateChangeInv' /\ LastEventRecorded'
  BY DEF KindInv, StateChangeInv, LastEventRecorded
<1> QED
  BY <1>1

\* A poll that ends without having touched the row.
LEMMA PollLeft ==
  ASSUME RInv, pc' \in {"next", "idle", "boot"}, cur' = NoThread, todo' \subseteq todo,
         UNCHANGED <<row, events>>, listed' = listed \/ todo' = {}
  PROVE  RowInv'
<1>1. cur' \notin Threads /\ ~ Polling' /\ ~ Fetching' /\ pc' \notin {"save", "apply"}
  BY ThreadsAssumption DEF NoThread, Polling, Fetching, Endpoints
<1>2. NoThread \notin todo
  BY ThreadsAssumption DEF RInv, TypeInv, TypeOK, NoThread
<1>3. \A t \in Threads \cap (todo' \cup {cur'}) : listed'[t] = row'[t]
  BY <1>1 DEF RInv, RowInv, ViewInv
<1>4. ViewInv'
  BY <1>1, <1>2, <1>3 DEF ViewInv
<1> QED
  BY <1>1, <1>4, RowUntouched

LEMMA FetchRow ==
  ASSUME RInv, NEW e \in Endpoints, pc = e, IF e = "issue" THEN FetchIssue ELSE FetchList(e)
  PROVE  RowInv'
<1> USE DEF RInv, RowInv
<1>1. TypeOK /\ cur \in Threads /\ Fetching /\ out \in Result /\ etags \in [Endpoints -> Nat]
      /\ ver[cur][e] \in Nat \ {NoETag} /\ Kind[cur] \in {"issue", "pr"}
      /\ issue[cur] \in [state : States, updatedAt : Nat]
  BY KindAssumption DEF TypeInv, TypeOK, GitHubTypeOK, ControlInv, Fetching, Polling, NoThread
<1>2. Continue(e)
  BY DEF FetchIssue, FetchList
<1>3. UNCHANGED <<row, events, todo, listed, cur, seen>>
  BY <1>2 DEF Continue, dbVars
<1>4. pc' \in ListEndpoints \cup {"save"} /\ pc' # "apply"
  BY <1>2 DEF Continue, NextCall, ListEndpoints, Endpoints
<1>5. ViewInv'
  BY <1>1, <1>3, <1>4 DEF ViewInv, Polling, Fetching, Recorded, ListEndpoints
<1>6. out'.kind \in {"", Kind[cur]}
  <2>0. out.kind \in {"", Kind[cur]}
    BY <1>1 DEF KindInv
  <2>1. CASE e = "issue"
    <3>1. PICK status \in Statuses :
            out' = IssueInto(out, etags, status, ver[cur]["issue"], Kind[cur], issue[cur])
      BY <2>1 DEF FetchIssue
    <3>2. out'.kind = IF status = "ok" THEN Kind[cur] ELSE out.kind
      BY <1>1, <2>1, <3>1, IssueIntoFields
    <3> QED
      BY <2>0, <3>2
  <2>2. CASE e # "issue"
    <3>1. PICK status \in Statuses :
            out' = ListInto(out, etags, e, status, ver[cur][e], Page(items[cur][e]))
      BY <2>2 DEF FetchList
    <3>2. Page(items[cur][e]) \in SUBSET Item
      BY <1>1, <2>2, PageSubset DEF TypeOK, GitHubTypeOK, ListEndpoints
    <3>3. out'.kind = out.kind
      BY <1>1, <3>1, <3>2, ListIntoFields
    <3> QED
      BY <2>0, <3>3
  <2> QED
    BY <2>1, <2>2
<1> QED
  BY <1>3, <1>5, <1>6, RowUntouched

LEMMA InsertRow ==
  ASSUME RInv, Insert
  PROVE  RowInv'
<1> USE DEF RInv, RowInv
<1>1. TypeOK /\ cur \in Threads /\ seen = Recorded(cur)
  BY DEF Insert, TypeInv, TypeOK, ControlInv, Polling, NoThread, ViewInv
<1>2. CASE pc' = "apply"
  <2>1. /\ events' = [events EXCEPT ![cur] = InsertEventsIfNew(events[cur], NewEvents(Existing, out))]
        /\ UNCHANGED <<row, todo, listed, cur, seen, out>>
    BY <1>2 DEF Insert, Return
  <2>2. /\ events'[cur] = events[cur] \cup NewEvents(Existing, out)
        /\ \A t \in Threads : t # cur => events'[t] = events[t]
    BY <1>1, <2>1, InsertAddsAll DEF TypeOK
  <2>3. NewEvents(Existing, out)' = NewEvents(Existing, out)
    BY <2>1 DEF Existing
  <2>4. ViewInv'
    <3>1. seen' \subseteq Recorded(cur)'
      BY <1>1, <2>1, <2>2 DEF Recorded
    <3>2. cur' \notin todo' /\ \A t \in Threads \cap (todo' \cup {cur'}) : listed'[t] = row'[t]
      BY <2>1 DEF ViewInv
    <3>3. NewEvents(Existing, out)' \subseteq events'[cur']
      BY <2>1, <2>2, <2>3
    <3>4. ~ Fetching' /\ pc' # "save"
      BY <1>2 DEF Fetching, Endpoints
    <3> QED
      BY <3>1, <3>2, <3>3, <3>4 DEF ViewInv
  <2>5. KindInv'
    BY <2>1 DEF KindInv
  <2>6. \A t \in Threads : events[t] \subseteq events'[t]
    BY <2>2
  <2>7. LastEventRecorded'
    BY <2>1, <2>6 DEF LastEventRecorded
  <2>8. StateChangeInv'
    BY <2>2, NewEventsChange DEF StateChangeInv
  <2> QED
    BY <2>4, <2>5, <2>7, <2>8
<1>3. CASE pc' # "apply"
  <2>1. Return /\ UNCHANGED <<row, events>>
    BY <1>3 DEF Insert
  <2> QED
    BY <2>1, PollLeft DEF Return
<1> QED
  BY <1>2, <1>3

\* What ApplyThreadUpdate makes of the row of the poll's thread.
LEMMA AppliedRow ==
  ASSUME RInv, Apply
  PROVE  /\ cur \in Threads
         /\ \A t \in Threads : t # cur => row'[t] = row[t]
         /\ row'[cur].kind \in {"unknown", Kind[cur]}
         /\ row[cur].kind # "unknown" => row'[cur].kind = row[cur].kind
         /\ row'[cur].state = row[cur].state \/ row'[cur].state = out.state
         /\ row'[cur].state \notin {"", "unknown"} \/ row'[cur].state = row[cur].state
         /\ row[cur].lastEventAt <= row'[cur].lastEventAt
         /\ \/ row'[cur].lastEventAt = row[cur].lastEventAt
            \/ \E e \in events[cur] : e.at = row'[cur].lastEventAt
<1> USE DEF RInv, RowInv
<1>1. cur \in Threads /\ pc = "apply" /\ row \in [Threads -> Row] /\ out \in Result
  BY DEF Apply, TypeInv, TypeOK, ControlInv, Polling, NoThread
<1> DEFINE new == ApplyThreadUpdate(row[cur], Update(Existing, out))
           last == LastEventAt(Existing, NewEvents(Existing, out))
<1>2. row' = row \/ row' = [row EXCEPT ![cur] = new]
  BY DEF Apply
<1>3. /\ last \in Nat \cup {NoTime} /\ Existing.lastEventAt <= last
      /\ last = Existing.lastEventAt \/ \E e \in NewEvents(Existing, out) : e.at = last
  BY <1>1, NewEventsType
<1>4. Existing.lastEventAt = row[cur].lastEventAt /\ NewEvents(Existing, out) \subseteq events[cur]
  BY <1>1 DEF Existing, ViewInv
<1>5. row[cur] \in Row /\ row[cur].kind \in {"unknown", Kind[cur]} /\ out.kind \in {"", Kind[cur]}
  BY <1>1 DEF KindInv
<1>6. /\ new.kind = IF out.kind \in {"", "unknown"} THEN row[cur].kind ELSE out.kind
      /\ new.state = IF out.state \in {"", "unknown"} THEN row[cur].state ELSE out.state
      /\ new.lastEventAt = IF last = NoTime THEN row[cur].lastEventAt ELSE last
  BY DEF ApplyThreadUpdate, Update
<1> HIDE DEF new, last
<1>7. row[cur].lastEventAt \in Int
  <2>1. row[cur].lastEventAt \in Nat \cup {NoTime}
    BY <1>5 DEF Row
  <2> QED
    BY <2>1 DEF NoTime
<1>8. CASE row' = row
  <2>1. row[cur].lastEventAt <= row[cur].lastEventAt
    BY <1>7
  <2> QED
    BY <1>1, <1>5, <1>8, <2>1
<1>9. CASE row' = [row EXCEPT ![cur] = new]
  <2>1. row'[cur] = new /\ \A t \in Threads : t # cur => row'[t] = row[t]
    BY <1>1, <1>9
  <2>2. /\ new.kind \in {"unknown", Kind[cur]}
        /\ row[cur].kind # "unknown" => new.kind = row[cur].kind
    BY <1>5, <1>6
  <2>3. /\ new.state = row[cur].state \/ new.state = out.state
        /\ new.state \notin {"", "unknown"} \/ new.state = row[cur].state
    BY <1>6
  <2>4. row[cur].lastEventAt <= new.lastEventAt
    <3>1. row[cur].lastEventAt <= last /\ row[cur].lastEventAt <= row[cur].lastEventAt
      BY <1>3, <1>4, <1>7
    <3>2. new.lastEventAt \in {row[cur].lastEventAt, last}
      BY <1>6
    <3> QED
      BY <3>1, <3>2
  <2>5. \/ new.lastEventAt = row[cur].lastEventAt
        \/ \E e \in events[cur] : e.at = new.lastEventAt
    BY <1>3, <1>4, <1>6
  <2> QED
    BY <1>1, <2>1, <2>2, <2>3, <2>4, <2>5
<1> QED
  BY <1>2, <1>8, <1>9

LEMMA ApplyRow ==
  ASSUME RInv, Apply
  PROVE  RowInv'
<1> USE DEF RInv, RowInv
<1>1. /\ cur \in Threads /\ UNCHANGED <<events, todo, listed>> /\ cur' = NoThread /\ pc' = "next"
      /\ cur' \notin Threads
  BY AppliedRow, ThreadsAssumption DEF Apply, Return, NoThread
<1>2. ViewInv'
  <2>1. cur' \notin todo'
    BY <1>1 DEF TypeInv, TypeOK
  <2>2. \A t \in Threads \cap (todo' \cup {cur'}) : listed'[t] = row'[t]
    BY <1>1, AppliedRow DEF ViewInv
  <2> QED
    BY <1>1, <2>1, <2>2 DEF ViewInv, Polling, Fetching, Endpoints
<1>3. KindInv' /\ StateChangeInv'
  BY <1>1, AppliedRow DEF KindInv, StateChangeInv
<1>4. LastEventRecorded'
  BY <1>1, AppliedRow DEF LastEventRecorded
<1> QED
  BY <1>2, <1>3, <1>4

LEMMA RowInvNext == RInv /\ [Next]_vars => RowInv'
<1> SUFFICES ASSUME RInv, [Next]_vars PROVE RowInv'
  OBVIOUS
<1> USE DEF RInv, RowInv
<1>1. /\ cur # NoThread <=> Polling
      /\ cur \in Threads => out.kind \in {"", Kind[cur]}
      /\ ~ Polling => out = NewResult
  BY DEF TypeInv, ControlInv, KindInv
<1>2. CASE BeginTick
  <2>1. UNCHANGED <<row, events, cur, seen, out>> /\ ~ Polling
    BY <1>2 DEF BeginTick, dbVars, Polling, Fetching, Endpoints
  <2>2. cur' = NoThread /\ NoThread \notin Threads
    BY <1>1, <2>1, ThreadsAssumption DEF NoThread
  <2>3. CASE pc' = "next" /\ todo' = Threads /\ listed' = row
    <3>1. ViewInv'
      BY <2>1, <2>2, <2>3 DEF ViewInv, Polling, Fetching, Endpoints
    <3> QED
      BY <2>1, <2>2, <3>1, RowUntouched
  <2>4. CASE UNCHANGED <<pc, todo, listed>>
    BY <1>2, <2>1, <2>2, <2>4, PollLeft DEF BeginTick
  <2> QED
    BY <1>2, <2>3, <2>4 DEF BeginTick
<1>3. CASE EndTick
  <2>1. ~ Polling /\ cur' = NoThread /\ UNCHANGED <<row, events>> /\ pc' = "idle" /\ todo' = todo /\ todo = {}
    BY <1>1, <1>3 DEF EndTick, dbVars, Polling, Fetching, Endpoints
  <2> QED
    BY <2>1, PollLeft
<1>4. ASSUME NEW t \in Threads, StartPoll(t) PROVE RowInv'
  <2>1. /\ UNCHANGED <<row, events, listed, out>> /\ t \in todo /\ todo' = todo \ {t} /\ pc = "next"
        /\ ~ Polling /\ cur = NoThread
    BY <1>1, <1>4 DEF StartPoll, dbVars, Polling, Fetching, Endpoints
  <2>2. CASE pc' = "issue" /\ cur' = t /\ seen' = SeenIDs(events[t])
    <3>1. seen' = Recorded(cur)'
      BY <2>1, <2>2 DEF SeenIDs, Recorded
    <3>2. ViewInv'
      BY <2>1, <2>2, <3>1 DEF ViewInv
    <3>3. out'.kind = ""
      <4>1. out' = NewResult
        BY <1>1, <2>1
      <4>2. NewResult.kind = ""
        BY DEF NewResult
      <4> QED
        BY <4>1, <4>2
    <3> QED
      BY <2>1, <3>2, <3>3, RowUntouched
  <2>3. CASE UNCHANGED <<pc, cur, etags, seen>>
    BY <2>1, <2>3, PollLeft
  <2> QED
    BY <1>4, <2>2, <2>3 DEF StartPoll
<1>5. CASE FetchIssue
  <2>1. pc = "issue" /\ "issue" \in Endpoints
    BY <1>5 DEF FetchIssue, Endpoints
  <2> QED
    BY <1>5, <2>1, FetchRow
<1>6. ASSUME NEW e \in ListEndpoints, FetchList(e) PROVE RowInv'
  <2>1. pc = e /\ e \in Endpoints /\ e # "issue"
    BY <1>6 DEF FetchList, ListEndpoints
  <2> QED
    BY <1>6, <2>1, FetchRow
<1>7. ASSUME NEW e \in Endpoints, Save(e) PROVE RowInv'
  <2>1. UNCHANGED <<row, events, pc, todo, listed, cur, seen, out>>
    BY <1>7 DEF Save
  <2>2. ViewInv'
    BY <2>1 DEF ViewInv, Existing, Fetching, Polling, Recorded
  <2> QED
    BY <1>1, <2>1, <2>2, RowUntouched
<1>8. CASE Abort
  BY <1>8, PollLeft DEF Abort, Return, dbVars
<1>9. CASE Insert
  BY <1>9, InsertRow
<1>10. CASE Apply
  BY <1>10, ApplyRow
<1>11. CASE Boot
  <2>1. row' = row
    BY <1>11, UpsertType DEF Boot, TypeInv, TypeOK
  <2>2. ~ Polling /\ cur' = NoThread /\ pc' = "idle" /\ UNCHANGED <<events, todo, listed>>
    BY <1>1, <1>11 DEF Boot, Polling, Fetching, Endpoints
  <2> QED
    BY <2>1, <2>2, PollLeft
<1>12. CASE Crash
  BY <1>12, PollLeft DEF Crash, dbVars
<1>13. CASE Activity \/ UNCHANGED vars
  <2>1. UNCHANGED <<row, events, pc, todo, listed, cur, seen, out>>
    BY <1>13 DEF Activity, dbVars, memVars, vars
  <2>2. ViewInv'
    BY <2>1 DEF ViewInv, Existing, Fetching, Polling, Recorded
  <2> QED
    BY <1>1, <2>1, <2>2, RowUntouched
<1> QED
  BY <1>2, <1>3, <1>4, <1>5, <1>6, <1>7, <1>8, <1>9, <1>10, <1>11, <1>12, <1>13 DEF Next, PollerStep

LEMMA RInvHolds == Spec => []RInv
<1>1. Init => RInv
  BY TypeInvInit, RowInvInit DEF RInv
<1>2. RInv /\ [Next]_vars => RInv'
  BY TypeInvNext, RowInvNext DEF RInv
<1> QED
  BY <1>1, <1>2, PTL DEF Spec

\* What the poll knows of its thread stays true, whatever fails and whatever
\* happens on GitHub: the rows ListThreads gave are those of the table, the
\* ids SeenIDs gave are those of its events, and so on.
THEOREM RowInvHolds == Spec => []RowInv
<1>1. RInv => RowInv
  BY DEF RInv
<1> QED
  BY <1>1, RInvHolds, PTL

\* The time a row gives as its last activity is always that of an event on
\* the thread's timeline: a failed insert, or a crash after it, cannot leave
\* a row ahead of its timeline.
THEOREM LastEventIsRecorded == Spec => []LastEventRecorded
<1>1. RInv => LastEventRecorded
  BY DEF RInv, RowInv
<1> QED
  BY <1>1, RInvHolds, PTL

\* Only Apply changes a row.
LEMMA RowWriters ==
  ASSUME RInv, [Next]_vars, ~ Apply
  PROVE  row' = row
<1>1. CASE Boot
  BY <1>1, UpsertType DEF Boot, RInv, TypeInv, TypeOK
<1>2. CASE Activity \/ Crash \/ UNCHANGED vars
  BY <1>2 DEF Activity, Crash, dbVars, vars
<1>3. CASE BeginTick \/ EndTick \/ Abort \/ Insert
  BY <1>3 DEF BeginTick, EndTick, Abort, Insert, dbVars
<1>4. CASE FetchIssue \/ \E e \in ListEndpoints : FetchList(e)
  BY <1>4 DEF FetchIssue, FetchList, Continue, dbVars
<1>5. CASE (\E t \in Threads : StartPoll(t)) \/ \E e \in Endpoints : Save(e)
  BY <1>5 DEF StartPoll, Save, dbVars
<1> QED
  BY <1>1, <1>2, <1>3, <1>4, <1>5 DEF Next, PollerStep

\* No step of the poller, and no restart of the process, takes back the
\* kind, the state or the last activity a row shows.
THEOREM RowIsNotDowngraded == Spec => NoDowngrade
<1>1. ASSUME RInv, [Next]_vars
      PROVE  \A t \in Threads :
               /\ row[t].kind # "unknown" => row'[t].kind = row[t].kind
               /\ row[t].state # "unknown" => row'[t].state # "unknown"
               /\ row[t].lastEventAt <= row'[t].lastEventAt
  <2>1. SUFFICES ASSUME NEW t \in Threads
                 PROVE  /\ row[t].kind # "unknown" => row'[t].kind = row[t].kind
                        /\ row[t].state # "unknown" => row'[t].state # "unknown"
                        /\ row[t].lastEventAt <= row'[t].lastEventAt
    OBVIOUS
  <2>2. row[t].lastEventAt <= row[t].lastEventAt
    <3>1. row[t].lastEventAt \in Nat \cup {NoTime}
      BY <1>1 DEF RInv, TypeInv, TypeOK, Row
    <3> QED
      BY <3>1 DEF NoTime
  <2>3. CASE row'[t] = row[t]
    BY <2>2, <2>3
  <2>4. CASE Apply /\ t = cur
    BY <1>1, <2>4, AppliedRow
  <2> QED
    BY <1>1, <2>3, <2>4, RowWriters, AppliedRow
<1> QED
  BY <1>1, RInvHolds, PTL DEF Spec, NoDowngrade

\* A state is only applied to the row when its event is recorded, by this
\* poll or by an earlier one that got no further.
LEMMA ChangeIsLogged ==
  ASSUME RInv, [Next]_vars, NEW t \in Threads, row'[t].state # row[t].state
  PROVE  \E e \in StateChanges(t, row'[t].state) : e.at = out.updatedAt
<1>1. Apply /\ t = cur
  BY RowWriters, AppliedRow
<1>2. /\ row'[t].state = out.state /\ row'[t].state \notin {"", "unknown"}
      /\ cur \in Threads /\ pc = "apply"
  BY <1>1, AppliedRow DEF Apply
<1>3. Existing.state = row[t].state /\ row[t].state # ""
  BY <1>1, <1>2 DEF Existing, RInv, RowInv, ViewInv, TypeInv, TypeOK, Row, States
<1> DEFINE c == [kind |-> "state_change", id |-> <<out.state, out.updatedAt>>, at |-> out.updatedAt]
<1>4. c \in StateChange(Existing, out)
  BY <1>2, <1>3 DEF StateChange
<1>5. /\ seen \subseteq Recorded(t) /\ NewEvents(Existing, out) \subseteq events[t]
      /\ \A e \in events[t] : e.kind = "state_change" => e.at = e.id[2]
  BY <1>1, <1>2 DEF RInv, RowInv, ViewInv, Polling, StateChangeInv
<1>6. PICK e \in events[t] : Key(e) = Key(c)
  <2>1. CASE Key(c) \in Existing.seen
    BY <1>5, <2>1 DEF Existing, Recorded
  <2>2. CASE Key(c) \notin Existing.seen
    BY <1>4, <1>5, <2>2 DEF NewEvents
  <2> QED
    BY <2>1, <2>2
<1>7. e.kind = "state_change" /\ e.id = <<out.state, out.updatedAt>>
  BY <1>6 DEF Key
<1>8. e.at = out.updatedAt /\ e.id[1] = out.state
  BY <1>5, <1>7
<1> QED
  BY <1>2, <1>7, <1>8 DEF StateChanges

\* Whenever the state a row shows changes, the event that announces the new
\* state, with the time GitHub gave for it, is on the thread's timeline
\* already.
THEOREM RowChangesAreLogged == Spec => RowChangeIsLogged
<1>1. RInv /\ [Next]_vars =>
        \A t \in Threads : row'[t].state # row[t].state =>
          \E e \in StateChanges(t, row'[t].state) : e.at = out.updatedAt
  BY ChangeIsLogged
<1> QED
  BY <1>1, RInvHolds, PTL DEF Spec, RowChangeIsLogged

-----------------------------------------------------------------------------
(* The last activity covers the timeline *)

CInv == RInv /\ CoverInv

LEMMA InsertCovers ==
  ASSUME CInv, Insert
  PROVE  CoverInv'
<1> USE DEF CInv, RInv, RowInv
<1>1. /\ TypeOK /\ cur \in Threads /\ pc = "save" /\ seen = Recorded(cur) /\ row' = row
  BY DEF Insert, TypeInv, TypeOK, ControlInv, Polling, NoThread, ViewInv
<1>2. \A t \in Threads : \A e \in events[t] : e.at <= row[t].lastEventAt
  BY <1>1 DEF CoverInv
<1>3. CASE pc' = "apply"
  <2>1. /\ events' = [events EXCEPT ![cur] = InsertEventsIfNew(events[cur], NewEvents(Existing, out))]
        /\ UNCHANGED <<listed, cur, seen, out>>
    BY <1>3 DEF Insert, Return
  <2>2. /\ events'[cur] = events[cur] \cup NewEvents(Existing, out)
        /\ \A t \in Threads : t # cur => events'[t] = events[t]
    BY <1>1, <2>1, InsertAddsAll DEF TypeOK
  <2>3. Existing' = Existing
    BY <2>1 DEF Existing
  <2>4. NewEvents(Existing, out)' = NewEvents(Existing, out)
    BY <2>1, <2>3
  <2> QED
    BY <1>1, <1>2, <1>3, <2>1, <2>2, <2>4 DEF CoverInv
<1>4. CASE pc' # "apply"
  BY <1>1, <1>2, <1>4 DEF Insert, CoverInv
<1> QED
  BY <1>3, <1>4

\* The batch is applied: the time shown is not before the old one, nor
\* before any event of the batch.
LEMMA ApplyCovers ==
  ASSUME "applyError" \notin Faults, CInv, Apply
  PROVE  CoverInv'
<1> USE DEF CInv, RInv, RowInv
<1> DEFINE last == LastEventAt(Existing, NewEvents(Existing, out))
<1>1. /\ TypeOK /\ cur \in Threads /\ events' = events
      /\ row' = [row EXCEPT ![cur] = ApplyThreadUpdate(row[cur], Update(Existing, out))]
  BY DEF Apply, Fault, TypeInv, TypeOK, ControlInv, Polling, NoThread
<1>2. /\ \A t \in Threads : t # cur => row'[t] = row[t]
      /\ row'[cur].lastEventAt = IF last = NoTime THEN row[cur].lastEventAt ELSE last
  BY <1>1 DEF TypeOK, ApplyThreadUpdate, Update
<1>3. /\ last \in Nat \cup {NoTime} /\ Existing.lastEventAt <= last
      /\ \A e \in NewEvents(Existing, out) : e \in Event /\ e.at <= last
  BY <1>1, NewEventsType
<1>4. row[cur].lastEventAt \in Nat \cup {NoTime} /\ Existing.lastEventAt = row[cur].lastEventAt
  BY <1>1 DEF TypeOK, Row, Existing, ViewInv
<1>5. events[cur] \subseteq Event
  BY <1>1 DEF TypeOK
<1> HIDE DEF last
<1>6. row[cur].lastEventAt <= row'[cur].lastEventAt /\ last <= row'[cur].lastEventAt
      /\ row'[cur].lastEventAt \in Int /\ last \in Int
  BY <1>2, <1>3, <1>4 DEF NoTime
<1>7. ASSUME NEW e \in events[cur]
      PROVE  e.at <= row'[cur].lastEventAt
  <2>1. e.at \in Nat
    BY <1>5 DEF Event
  <2>2. CASE e.at <= row[cur].lastEventAt
    BY <1>4, <1>6, <2>1, <2>2 DEF NoTime
  <2>3. CASE e \in NewEvents(Existing, out)
    <3>1. e.at <= last
      BY <1>3, <2>3
    <3> QED
      BY <1>6, <2>1, <3>1
  <2>4. e.at <= row[cur].lastEventAt \/ e \in NewEvents(Existing, out)
    BY <1>1, <1>7 DEF CoverInv
  <2> QED
    BY <2>2, <2>3, <2>4
<1>8. \A t \in Threads : t # cur => \A e \in events[t] : e.at <= row[t].lastEventAt
  BY DEF CoverInv
<1> QED
  BY <1>1, <1>2, <1>7, <1>8 DEF CoverInv

LEMMA CoverNext ==
  ASSUME Faults \cap {"crash", "applyError"} = {}, CInv, [Next]_vars
  PROVE  CoverInv'
<1>1. CASE Insert \/ Apply
  BY <1>1, InsertCovers, ApplyCovers
<1>2. CASE Activity \/ UNCHANGED vars
  <2>1. UNCHANGED <<row, events, pc, cur, seen, listed, out>>
    BY <1>2 DEF Activity, dbVars, memVars, vars
  <2>2. Existing' = Existing
    BY <2>1 DEF Existing
  <2>3. NewEvents(Existing, out)' = NewEvents(Existing, out)
    BY <2>1, <2>2
  <2> QED
    BY <2>1, <2>3 DEF CInv, CoverInv
<1>3. CASE ~ Insert /\ ~ Apply /\ ~ Activity /\ ~ UNCHANGED vars
  <2>1. ~ Crash
    BY DEF Crash, Fault
  <2>2. row' = row
    BY <1>3, RowWriters DEF CInv
  <2>3. pc # "apply" /\ events' = events
    <3>1. CASE BeginTick \/ EndTick \/ Abort \/ Boot
      BY <3>1 DEF BeginTick, EndTick, Abort, Boot, dbVars
    <3>2. CASE FetchIssue
      BY <3>2 DEF FetchIssue, Continue, dbVars
    <3>3. ASSUME NEW e \in ListEndpoints, FetchList(e)
          PROVE  pc # "apply" /\ events' = events
      BY <3>3 DEF FetchList, Continue, dbVars, ListEndpoints, Endpoints
    <3>4. ASSUME NEW t \in Threads, StartPoll(t)
          PROVE  pc # "apply" /\ events' = events
      BY <3>4 DEF StartPoll, dbVars
    <3>5. ASSUME NEW e \in Endpoints, Save(e)
          PROVE  pc # "apply" /\ events' = events
      BY <3>5 DEF Save
    <3> QED
      BY <1>3, <2>1, <3>1, <3>2, <3>3, <3>4, <3>5 DEF Next, PollerStep
  <2> QED
    BY <2>2, <2>3 DEF CInv, CoverInv
<1> QED
  BY <1>1, <1>2, <1>3

\* As long as the row is updated after every insert, the last activity
\* shown is never behind the timeline, though it is computed from the new
\* events of one poll and the row as the tick began.
THEOREM LastEventCoversTimeline ==
  ASSUME Faults \cap {"crash", "applyError"} = {}
  PROVE  Spec => []LastEventCovers
<1>1. Init => CInv
  <2>1. Init => CoverInv
    BY DEF Init, CoverInv
  <2> QED
    BY <2>1, TypeInvInit, RowInvInit DEF CInv, RInv
<1>2. CInv /\ [Next]_vars => CInv'
  BY CoverNext, TypeInvNext, RowInvNext DEF CInv, RInv
<1>3. CInv => LastEventCovers
  BY DEF CInv, CoverInv, LastEventCovers
<1> QED
  BY <1>1, <1>2, <1>3, PTL DEF Spec

-----------------------------------------------------------------------------
(* The ids of what is posted *)

\* Append adds one item to its stream, under an id that is new there.
LEMMA Appended ==
  ASSUME GitHubTypeOK, ItemInv,
         NEW t \in Threads, NEW s \in ListEndpoints, NEW event, NEW at, NEW touched,
         s \in touched, Append(t, s, event, at, touched)
  PROVE  /\ ItemInv'
         /\ \E i : /\ i.event = event /\ i.at = at /\ i \notin items[t][s]
                  /\ items' = [items EXCEPT ![t][s] = items[t][s] \cup {i}]
<1> DEFINE i == [kind |-> SourceKind[s], id |-> <<"", ver[t][s]>>, at |-> at, event |-> event]
<1>1. /\ items \in [Threads -> [ListEndpoints -> SUBSET Item]]
      /\ ver \in [Threads -> [Endpoints -> Nat \ {NoETag}]]
      /\ ListEndpoints \subseteq Endpoints
  BY DEF GitHubTypeOK, ListEndpoints
<1>2. i.id[2] = ver[t][s] /\ i.event = event /\ i.at = at /\ i.kind = SourceKind[s]
  OBVIOUS
<1>3. /\ items' = [items EXCEPT ![t][s] = items[t][s] \cup {i}]
      /\ ver' = [ver EXCEPT ![t] =
                   [e \in Endpoints |-> IF e \in touched THEN ver[t][e] + 1 ELSE ver[t][e]]]
  BY DEF Append
<1> HIDE DEF i
<1>4. ASSUME NEW u \in Threads, NEW q \in ListEndpoints
      PROVE  /\ u # t \/ q # s => items'[u][q] = items[u][q]
             /\ u = t /\ q = s => items'[u][q] = items[u][q] \cup {i}
  BY <1>1, <1>3, <1>4
<1>5. ASSUME NEW u \in Threads, NEW q \in ListEndpoints
      PROVE  /\ ver[u][q] \in Nat
             /\ ver'[u][q] = ver[u][q] \/ ver'[u][q] = ver[u][q] + 1
             /\ u = t /\ q = s => ver'[u][q] = ver[u][q] + 1
  BY <1>1, <1>3, <1>5
<1>6. ASSUME NEW u \in Threads, NEW q \in ListEndpoints, NEW j \in items[u][q]
      PROVE  /\ j.kind = SourceKind[q] /\ j.id[2] \in Nat /\ j.id[2] < ver[u][q]
             /\ \A l \in items[u][q] : j.id[2] = l.id[2] => j = l
  <2>1. j \in Item
    BY <1>1, <1>6
  <2>2. j.id \in {""} \X Nat
    BY <2>1 DEF Item
  <2> QED
    BY <1>6, <2>2 DEF ItemInv
<1>7. i \notin items[t][s]
  BY <1>2, <1>5, <1>6
<1>8. ASSUME NEW u \in Threads, NEW q \in ListEndpoints, NEW j \in items'[u][q]
      PROVE  /\ j.kind = SourceKind[q] /\ j.id[2] < ver'[u][q]
             /\ \A l \in items'[u][q] : j.id[2] = l.id[2] => j = l
  <2>1. CASE u # t \/ q # s
    <3>1. j \in items[u][q] /\ items'[u][q] = items[u][q]
      BY <1>4, <1>8, <2>1
    <3> QED
      BY <1>5, <1>6, <3>1
  <2>2. CASE u = t /\ q = s
    <3>1. items'[u][q] = items[u][q] \cup {i}
      BY <1>4, <2>2
    <3>2. \A l \in items[u][q] : l.id[2] \in Nat /\ l.id[2] < ver[u][q]
      BY <1>6
    <3>3. CASE j \in items[u][q]
      <4>1. j.id[2] # i.id[2]
        BY <1>2, <1>5, <2>2, <3>2, <3>3
      <4> QED
        BY <1>5, <1>6, <3>1, <3>3, <4>1
    <3>4. CASE j = i
      <4>1. \A l \in items[u][q] : l.id[2] # j.id[2]
        BY <1>2, <1>5, <2>2, <3>2, <3>4
      <4> QED
        BY <1>2, <1>5, <2>2, <3>1, <3>4, <4>1
    <3> QED
      BY <1>8, <3>1, <3>3, <3>4
  <2> QED
    BY <2>1, <2>2
<1>9. ItemInv'
  BY <1>8 DEF ItemInv
<1> QED
  BY <1>2, <1>3, <1>7, <1>9

\* A step of GitHub posts one item, and an issue's state changes with the
\* entry that says so, of the same time, and only then.
LEMMA ActivityPosts ==
  ASSUME TypeInv, ItemInv, Activity
  PROVE  /\ ItemInv'
         /\ \E t \in Threads, s \in ListEndpoints : \E i :
              /\ i \notin items[t][s]
              /\ items' = [items EXCEPT ![t][s] = items[t][s] \cup {i}]
              /\ \A u \in Threads : u # t => issue'[u] = issue[u]
              /\ issue[t].updatedAt <= issue'[t].updatedAt
              /\ \/ /\ i.event \notin {"closed", "reopened", "merged"}
                    /\ issue'[t].state = issue[t].state
                 \/ /\ s = "issue_events" /\ i.event = Entry[issue'[t].state]
                    /\ issue'[t].state # issue[t].state /\ i.at = issue'[t].updatedAt
<1>1. GitHubTypeOK /\ issue \in [Threads -> [state : States, updatedAt : Nat]]
      /\ "issue_events" \in ListEndpoints
      /\ now \in Nat /\ \A u \in Threads : issue[u].updatedAt \in Nat /\ issue[u].updatedAt <= now
  BY DEF TypeInv, TimeInv, TypeOK, GitHubTypeOK, ListEndpoints, Endpoints
<1>2. PICK t \in Threads : (\E s \in ListEndpoints : Post(t, s)) \/ PostNoise(t) \/ ChangeState(t)
  BY DEF Activity, GitHubNext
<1>3. CASE \E s \in ListEndpoints : Post(t, s)
  <2>1. PICK s \in ListEndpoints : Post(t, s)
    BY <1>3
  <2> DEFINE event == IF s = "issue_events" THEN "labeled" ELSE ""
             touched == {s, "issue"}
  <2>2. PICK at : Append(t, s, event, at, touched)
    BY <2>1 DEF Post
  <2>3. /\ issue'[t].state = issue[t].state /\ issue[t].updatedAt <= issue'[t].updatedAt
        /\ \A u \in Threads : u # t => issue'[u] = issue[u]
    <3>1. issue' = [issue EXCEPT ![t].updatedAt = now'] /\ now' \in now .. (now + 1)
      BY <2>1 DEF Post
    <3>2. now <= now' /\ now' \in Nat
      BY <1>1, <3>1
    <3> QED
      BY <1>1, <3>1, <3>2
  <2>4. event \notin {"closed", "reopened", "merged"} /\ s \in touched
    OBVIOUS
  <2> HIDE DEF event, touched
  <2>5. /\ ItemInv'
        /\ \E i : /\ i.event = event /\ i \notin items[t][s]
                 /\ items' = [items EXCEPT ![t][s] = items[t][s] \cup {i}]
    <3>1. GitHubTypeOK /\ Append(t, s, event, at, touched) /\ s \in touched
      BY <1>1, <2>2, <2>4
    <3> QED
      BY <3>1, Appended
  <2>6. PICK i :
          /\ i.event = event /\ i \notin items[t][s]
          /\ items' = [items EXCEPT ![t][s] = items[t][s] \cup {i}]
    BY <2>5
  <2> QED
    BY <2>3, <2>4, <2>5, <2>6
<1>4. CASE PostNoise(t)
  <2>1. Append(t, "issue_events", "subscribed", now, {"issue_events"}) /\ issue' = issue
    BY <1>4 DEF PostNoise
  <2>2. /\ ItemInv'
        /\ \E i : /\ i.event = "subscribed" /\ i \notin items[t]["issue_events"]
                 /\ items' = [items EXCEPT ![t]["issue_events"] = items[t]["issue_events"] \cup {i}]
    BY <1>1, <2>1, Appended
  <2>3. PICK i :
          /\ i.event = "subscribed" /\ i \notin items[t]["issue_events"]
          /\ items' = [items EXCEPT ![t]["issue_events"] = items[t]["issue_events"] \cup {i}]
    BY <2>2
  <2>4. i.event \notin {"closed", "reopened", "merged"}
    BY <2>3
  <2>5. issue' = issue /\ issue[t].updatedAt <= issue'[t].updatedAt
    BY <1>1, <2>1
  <2> QED
    BY <1>1, <2>2, <2>3, <2>4, <2>5
<1>5. CASE ChangeState(t)
  <2>1. PICK change \in Changes :
          /\ issue' = [issue EXCEPT ![t] = [state |-> change.to, updatedAt |-> now']]
          /\ Append(t, "issue_events", change.event, now', {"issue_events", "issue"})
          /\ issue[t].state = change.from /\ now <= now' /\ now' \in Nat
    <3>1. now <= now' /\ now' \in Nat
      BY <1>1, <1>5 DEF ChangeState
    <3> QED
      BY <1>5, <3>1 DEF ChangeState
  <2>2. change.event = Entry[change.to] /\ change.from # change.to
    BY DEF Changes, Entry
  <2>3. /\ issue'[t].state = change.to /\ \A u \in Threads : u # t => issue'[u] = issue[u]
        /\ issue'[t].updatedAt = now' /\ issue[t].updatedAt <= issue'[t].updatedAt
        /\ issue'[t].state # issue[t].state
    BY <1>1, <2>1, <2>2
  <2>4. /\ ItemInv'
        /\ \E i : /\ i.event = change.event /\ i.at = now' /\ i \notin items[t]["issue_events"]
                 /\ items' = [items EXCEPT ![t]["issue_events"] = items[t]["issue_events"] \cup {i}]
    BY <1>1, <2>1, Appended
  <2>5. PICK i :
          /\ i.event = change.event /\ i.at = now' /\ i \notin items[t]["issue_events"]
          /\ items' = [items EXCEPT ![t]["issue_events"] = items[t]["issue_events"] \cup {i}]
    BY <2>4
  <2>6. i.event = Entry[issue'[t].state] /\ i.at = issue'[t].updatedAt
    BY <2>2, <2>3, <2>5
  <2> QED
    BY <1>1, <2>3, <2>4, <2>5, <2>6
<1> QED
  BY <1>2, <1>3, <1>4, <1>5

LEMMA ItemInvInit == Init => ItemInv
BY DEF Init, GitHubInit, ItemInv

LEMMA ItemInvNext == TypeInv /\ ItemInv /\ [Next]_vars => ItemInv'
<1> SUFFICES ASSUME TypeInv, ItemInv, [Next]_vars PROVE ItemInv'
  OBVIOUS
<1>1. CASE Activity
  BY <1>1, ActivityPosts
<1>2. CASE ~ Activity
  <2>1. UNCHANGED <<items, ver>>
    <3>1. CASE Boot \/ Crash \/ UNCHANGED vars
      BY <3>1 DEF Boot, Crash, ghVars, vars
    <3>2. CASE BeginTick \/ EndTick \/ Abort \/ Insert \/ Apply
      BY <3>2 DEF BeginTick, EndTick, Abort, Insert, Apply, ghVars
    <3>3. CASE FetchIssue \/ \E e \in ListEndpoints : FetchList(e)
      BY <3>3 DEF FetchIssue, FetchList, Continue, ghVars
    <3>4. CASE (\E t \in Threads : StartPoll(t)) \/ \E e \in Endpoints : Save(e)
      BY <3>4 DEF StartPoll, Save, ghVars
    <3> QED
      BY <1>2, <3>1, <3>2, <3>3, <3>4 DEF Next, PollerStep
  <2> QED
    BY <2>1 DEF ItemInv
<1> QED
  BY <1>1, <1>2

-----------------------------------------------------------------------------
(* Each change is announced once *)

AInv == RInv /\ ItemInv /\ CreditInv

LEMMA BoundsGrow ==
  \A m, n, k \in Nat : n <= k => (m <= n => m <= k) /\ (m < n => m < k)
OBVIOUS

\* The count of the failures to allow for never goes down.
RepeatsGrow == Repeats \in Nat /\ Repeats' \in Nat /\ Repeats <= Repeats'

LEMMA CreditCounts ==
  ASSUME NEW t, NEW s, Credit(t, s), Repeats \in Nat
  PROVE  /\ Cardinality(StateChanges(t, s)) \in Nat /\ Entered(t, s) \in Nat
         /\ Allowed(t, s) \in Nat /\ Allowed(t, s) = Entered(t, s) + Repeats
<1>1. Cardinality(StateChanges(t, s)) \in Nat /\ Cardinality(Entries(t, s)) \in Nat
  BY FS_CardinalityType DEF Credit
<1>2. Entered(t, s) \in Nat
  BY <1>1 DEF Entered
<1> QED
  BY <1>1, <1>2 DEF Allowed

\* What is allowed grows with the entries and with the failures.
LEMMA AllowedGrows ==
  ASSUME NEW t, NEW s, Credit(t, s), RepeatsGrow
  PROVE  /\ Entered(t, s)' = Entered(t, s) =>
              Allowed(t, s)' \in Nat /\ Allowed(t, s) <= Allowed(t, s)'
         /\ Entered(t, s)' = Entered(t, s) + 1 =>
              Allowed(t, s)' \in Nat /\ Allowed(t, s) + 1 <= Allowed(t, s)'
<1>1. Repeats \in Nat /\ Repeats' \in Nat /\ Repeats <= Repeats'
  BY DEF RepeatsGrow
<1>2. Entered(t, s) \in Nat /\ Allowed(t, s) = Entered(t, s) + Repeats
  BY <1>1, CreditCounts
<1>3. Allowed(t, s)' = Entered(t, s)' + Repeats'
  BY Zenon DEF Allowed
<1>4. \A m, n, k \in Nat : n <= k => m + k \in Nat /\ m + n <= m + k
  OBVIOUS
<1>5. \A m, n, k \in Nat : n <= k => (m + 1) + k \in Nat /\ (m + n) + 1 <= (m + 1) + k
  OBVIOUS
<1>6. Entered(t, s)' = Entered(t, s) =>
        Allowed(t, s)' \in Nat /\ Allowed(t, s) <= Allowed(t, s)'
  BY <1>1, <1>2, <1>3, <1>4, Zenon
<1>7. Entered(t, s)' = Entered(t, s) + 1 =>
        Allowed(t, s)' \in Nat /\ Allowed(t, s) + 1 <= Allowed(t, s)'
  BY <1>1, <1>2, <1>3, <1>5, Zenon
<1> QED
  BY <1>6, <1>7, Zenon

\* A step that announces nothing and enters no state; the poll may get the
\* state the issue has now.
LEMMA CreditKept ==
  ASSUME NEW t, NEW s, Credit(t, s), RepeatsGrow,
         StateChanges(t, s)' = StateChanges(t, s), Entries(t, s)' = Entries(t, s),
         issue'[t].state = issue[t].state, Announced(t)' = Announced(t),
         cur' = t /\ out'.state # ""
           => out'.state = issue[t].state \/ (cur = t /\ out'.state = out.state)
  PROVE  Credit(t, s)'
<1>1. Entered(t, s)' = Entered(t, s)
  BY Zenon DEF Entered
<1>2. Allowed(t, s)' \in Nat /\ Allowed(t, s) <= Allowed(t, s)'
  BY <1>1, AllowedGrows, Zenon
<1>3. Cardinality(StateChanges(t, s)) \in Nat /\ Allowed(t, s) \in Nat
  BY CreditCounts DEF RepeatsGrow
<1>4. Due(t, s)' => Due(t, s)
  BY Zenon DEF Due
<1> QED
  BY <1>2, <1>3, <1>4, BoundsGrow, Zenon DEF Credit

\* A step that announces nothing, but fails to bring the row up to date.
LEMMA CreditGiven ==
  ASSUME NEW t, NEW s, Credit(t, s), Repeats \in Nat, Repeats' = Repeats + 1,
         StateChanges(t, s)' = StateChanges(t, s), Entries(t, s)' = Entries(t, s)
  PROVE  Credit(t, s)'
<1>1. Entered(t, s)' = Entered(t, s)
  BY Zenon DEF Entered
<1>2. /\ Cardinality(StateChanges(t, s)) \in Nat /\ Entered(t, s) \in Nat
      /\ Allowed(t, s) = Entered(t, s) + Repeats
  BY CreditCounts
<1>3. Allowed(t, s)' = Entered(t, s) + (Repeats + 1)
  BY <1>1, Zenon DEF Allowed
<1>4. \A m, n, k \in Nat : m <= n + k => m <= n + (k + 1) /\ m < n + (k + 1)
  OBVIOUS
<1> QED
  BY <1>2, <1>3, <1>4, Zenon DEF Credit

\* The thread enters a state: the new entry pays for announcing it.
LEMMA CreditEarned ==
  ASSUME NEW t, NEW s, NEW i, Credit(t, s), RepeatsGrow,
         StateChanges(t, s)' = StateChanges(t, s), Announced(t)' = Announced(t),
         UNCHANGED <<cur, out>>,
         i \notin items[t]["issue_events"],
         items'[t]["issue_events"] = items[t]["issue_events"] \cup {i},
         issue'[t].state = s => i.event = Entry[s]
  PROVE  Credit(t, s)'
<1>1. Cardinality(StateChanges(t, s)) \in Nat /\ Entered(t, s) \in Nat /\ Allowed(t, s) \in Nat
  BY CreditCounts DEF RepeatsGrow
<1>2. IsFiniteSet(Entries(t, s)) /\ Cardinality(Entries(t, s)) \in Nat
  BY FS_CardinalityType DEF Credit
<1>3. CASE i.event = Entry[s]
  <2>1. Entries(t, s)' = Entries(t, s) \cup {i} /\ i \notin Entries(t, s)
    BY <1>3 DEF Entries
  <2>2. /\ IsFiniteSet(Entries(t, s)')
        /\ Cardinality(Entries(t, s)') = Cardinality(Entries(t, s)) + 1
    <3>1. /\ IsFiniteSet(Entries(t, s) \cup {i})
          /\ Cardinality(Entries(t, s) \cup {i}) = Cardinality(Entries(t, s)) + 1
      BY <1>2, <2>1, FS_AddElement
    <3> QED
      BY <2>1, <3>1, Zenon
  <2>3. \A n \in Nat, k \in {0, 1} : k + (n + 1) = (k + n) + 1
    OBVIOUS
  <2>4. Entered(t, s)' = Entered(t, s) + 1
    <3>1. (IF s = "open" THEN 1 ELSE 0) \in {0, 1}
      OBVIOUS
    <3> QED
      BY <1>2, <2>2, <2>3, <3>1, Zenon DEF Entered
  <2>5. Allowed(t, s)' \in Nat /\ Allowed(t, s) + 1 <= Allowed(t, s)'
    BY <2>4, AllowedGrows, Zenon
  <2>6. \A m, n, k \in Nat : m <= n /\ n + 1 <= k => m < k /\ m <= k
    OBVIOUS
  <2> QED
    BY <1>1, <2>2, <2>5, <2>6, Zenon DEF Credit
<1>4. CASE i.event # Entry[s]
  <2>1. Entries(t, s)' = Entries(t, s)
    BY <1>4 DEF Entries
  <2>2. Entered(t, s)' = Entered(t, s)
    BY <2>1, Zenon DEF Entered
  <2>3. Due(t, s)' => Due(t, s)
    BY <1>4, Zenon DEF Due
  <2>4. Allowed(t, s)' \in Nat /\ Allowed(t, s) <= Allowed(t, s)'
    BY <2>2, AllowedGrows, Zenon
  <2> QED
    BY <1>1, <2>1, <2>3, <2>4, BoundsGrow, Zenon DEF Credit
<1> QED
  BY <1>3, <1>4

LEMMA ActivityCredit ==
  ASSUME AInv, RepeatsGrow, Activity
  PROVE  CreditInv'
<1>1. TypeOK /\ ItemInv /\ UNCHANGED <<row, events, pc, cur, out>>
      /\ items \in [Threads -> [ListEndpoints -> SUBSET Item]]
      /\ "issue_events" \in ListEndpoints
  BY DEF AInv, RInv, TypeInv, TypeOK, GitHubTypeOK, Activity, dbVars, memVars, ListEndpoints, Endpoints
<1>2. PICK t \in Threads, s \in ListEndpoints : \E i :
        /\ i \notin items[t][s]
        /\ items' = [items EXCEPT ![t][s] = items[t][s] \cup {i}]
        /\ \A u \in Threads : u # t => issue'[u].state = issue[u].state
        /\ \/ /\ i.event \notin {"closed", "reopened", "merged"}
              /\ issue'[t].state = issue[t].state
           \/ s = "issue_events" /\ i.event = Entry[issue'[t].state]
  BY <1>1, ActivityPosts DEF AInv, RInv
<1>3. PICK i :
        /\ i \notin items[t][s]
        /\ items' = [items EXCEPT ![t][s] = items[t][s] \cup {i}]
        /\ \A u \in Threads : u # t => issue'[u].state = issue[u].state
        /\ \/ /\ i.event \notin {"closed", "reopened", "merged"}
              /\ issue'[t].state = issue[t].state
           \/ s = "issue_events" /\ i.event = Entry[issue'[t].state]
  BY <1>2
<1>4. ASSUME NEW u \in Threads, NEW x \in States
      PROVE  Credit(u, x)'
  <2>1. /\ Credit(u, x)
        /\ Announced(u)' = Announced(u) /\ StateChanges(u, x)' = StateChanges(u, x)
    BY <1>1 DEF AInv, CreditInv, Announced, StateChanges
  <2>2. Entry[x] \in {"closed", "reopened", "merged"}
    BY DEF Entry, States
  <2>3. CASE u = t /\ s = "issue_events"
    <3>1. items'[u]["issue_events"] = items[u]["issue_events"] \cup {i}
      BY <1>1, <1>3, <2>3
    <3>2. CASE i.event \in {"closed", "reopened", "merged"}
      <4>1. issue'[u].state = x => i.event = Entry[x]
        BY <1>3, <2>3, <3>2
      <4>2. i \notin items[u]["issue_events"] /\ UNCHANGED <<cur, out>>
        BY <1>1, <1>3, <2>3
      <4> QED
        BY <2>1, <3>1, <4>1, <4>2, CreditEarned, Zenon
    <3>3. CASE i.event \notin {"closed", "reopened", "merged"} /\ issue'[t].state = issue[t].state
      <4>1. Entries(u, x)' = Entries(u, x)
        BY <2>2, <3>1, <3>3 DEF Entries
      <4> QED
        BY <1>1, <2>1, <2>3, <3>3, <4>1, CreditKept, Zenon
    <3>4. issue'[t].state \in States
      BY TypeInvNext DEF AInv, RInv, TypeInv, TypeOK, GitHubTypeOK, Next
    <3>5. Entry[issue'[t].state] \in {"closed", "reopened", "merged"}
      BY <3>4 DEF Entry, States
    <3>6. \/ i.event \in {"closed", "reopened", "merged"}
          \/ i.event \notin {"closed", "reopened", "merged"} /\ issue'[t].state = issue[t].state
      BY <1>3, <3>5
    <3> QED
      BY <3>2, <3>3, <3>6, Zenon
  <2>4. CASE ~ (u = t /\ s = "issue_events")
    <3>1. items'[u]["issue_events"] = items[u]["issue_events"] /\ issue'[u].state = issue[u].state
      BY <1>1, <1>3, <2>4
    <3>2. Entries(u, x)' = Entries(u, x)
      BY <3>1 DEF Entries
    <3> QED
      BY <1>1, <2>1, <3>1, <3>2, CreditKept, Zenon
  <2> QED
    BY <2>3, <2>4
<1> QED
  BY <1>4 DEF CreditInv

LEMMA CreditInit == Init => CreditInv
<1> SUFFICES ASSUME Init PROVE CreditInv
  OBVIOUS
<1>1. ASSUME NEW t \in Threads
      PROVE  items[t]["issue_events"] = {} /\ events[t] = {} /\ issue[t].state = "open" /\ cur # t
  BY ThreadsAssumption DEF Init, GitHubInit, ListEndpoints, Endpoints, NoThread
<1>2. ASSUME NEW t \in Threads, NEW s \in States
      PROVE  Credit(t, s)
  <2>1. StateChanges(t, s) = {} /\ Entries(t, s) = {}
    BY <1>1 DEF StateChanges, Entries
  <2>2. IsFiniteSet({}) /\ Cardinality({}) = 0
    BY FS_EmptySet
  <2>3. IsFiniteSet(StateChanges(t, s)) /\ IsFiniteSet(Entries(t, s))
        /\ Cardinality(StateChanges(t, s)) = 0 /\ Cardinality(Entries(t, s)) = 0
    BY <2>1, <2>2, Zenon
  <2>4. Allowed(t, s) = IF s = "open" THEN 1 ELSE 0
    <3>1. Entered(t, s) = IF s = "open" THEN 1 ELSE 0
      BY <2>3 DEF Entered
    <3>2. Repeats = 0
      BY DEF Init, Repeats
    <3> QED
      BY <3>1, <3>2 DEF Allowed
  <2>5. Due(t, s) => s = "open"
    BY <1>1 DEF Due
  <2> QED
    BY <2>3, <2>4, <2>5 DEF Credit
<1> QED
  BY <1>2 DEF CreditInv

\* A step of the poller other than Insert and Apply: the last state
\* announced stays, and the poll may get the state the issue has now.
LEMMA CreditUntouched ==
  ASSUME AInv, RepeatsGrow, UNCHANGED <<events, issue, items>>,
         \A t \in Threads : Announced(t)' = Announced(t),
         cur' \in Threads /\ out'.state # ""
           => out'.state = issue[cur'].state \/ (cur = cur' /\ out'.state = out.state)
  PROVE  CreditInv'
<1>1. ASSUME NEW t \in Threads, NEW s \in States
      PROVE  Credit(t, s)'
  <2>1. StateChanges(t, s)' = StateChanges(t, s) /\ Entries(t, s)' = Entries(t, s)
    BY DEF StateChanges, Entries
  <2>2. Credit(t, s)
    BY DEF AInv, CreditInv
  <2>3. cur' = t /\ out'.state # ""
          => out'.state = issue[t].state \/ (cur = t /\ out'.state = out.state)
    OBVIOUS
  <2> QED
    BY <2>1, <2>2, <2>3, CreditKept, Zenon
<1> QED
  BY <1>1 DEF AInv, CreditInv

\* A failure gives credit for every announcement it may cause.
LEMMA FailureCredit ==
  ASSUME AInv, UNCHANGED <<events, items>>, Repeats \in Nat, Repeats' = Repeats + 1
  PROVE  CreditInv'
<1>1. ASSUME NEW t \in Threads, NEW s \in States
      PROVE  Credit(t, s)'
  <2>1. StateChanges(t, s)' = StateChanges(t, s) /\ Entries(t, s)' = Entries(t, s)
    BY DEF StateChanges, Entries
  <2>2. Credit(t, s)
    BY DEF AInv, CreditInv
  <2> QED
    BY <2>1, <2>2, CreditGiven, Zenon
<1> QED
  BY <1>1 DEF CreditInv

\* A poll announces one state at most, and only another than the row's.
LEMMA InsertCredit ==
  ASSUME AInv, RepeatsGrow, Insert
  PROVE  CreditInv'
<1>1. /\ TypeOK /\ cur \in Threads /\ pc = "save" /\ seen = Recorded(cur) /\ listed[cur] = row[cur]
      /\ UNCHANGED <<row, issue, items>>
  BY DEF Insert, AInv, RInv, TypeInv, TypeOK, ControlInv, Polling, NoThread, RowInv, ViewInv, ghVars
<1>2. \A t \in Threads : Announced(t) = row[t].state
  BY <1>1 DEF Announced
<1>3. CASE pc' # "apply"
  <2>1. events' = events /\ cur' = NoThread /\ cur' \notin Threads
    BY <1>3, ThreadsAssumption DEF Insert, Return, NoThread
  <2>2. \A t \in Threads : Announced(t)' = row[t].state
    BY <1>1, <1>3 DEF Announced
  <2> QED
    BY <1>1, <1>2, <2>1, <2>2, CreditUntouched
<1>4. CASE pc' = "apply"
  <2>1. /\ events' = [events EXCEPT ![cur] = InsertEventsIfNew(events[cur], NewEvents(Existing, out))]
        /\ UNCHANGED <<cur, out>>
    BY <1>4 DEF Insert, Return
  <2>2. /\ events'[cur] = events[cur] \cup NewEvents(Existing, out)
        /\ \A t \in Threads : t # cur => events'[t] = events[t]
    BY <1>1, <2>1, InsertAddsAll DEF TypeOK
  <2>3. ASSUME NEW t \in Threads, NEW s \in States
        PROVE  Credit(t, s)'
    <3>1. Entries(t, s)' = Entries(t, s) /\ Credit(t, s)
      BY <1>1 DEF Entries, AInv, CreditInv
    <3>2. CASE t # cur
      <4>1. StateChanges(t, s)' = StateChanges(t, s) /\ Announced(t)' = Announced(t)
        BY <1>1, <1>2, <2>1, <2>2, <3>2 DEF StateChanges, Announced
      <4> QED
        BY <1>1, <2>1, <3>1, <3>2, <4>1, CreditKept, Zenon
    <3>3. CASE t = cur
      <4> DEFINE c == [kind |-> "state_change", id |-> <<out.state, out.updatedAt>>, at |-> out.updatedAt]
      <4>1. Announced(t)' = IF out.state = "" THEN row[t].state ELSE out.state
        BY <1>1, <1>4, <2>1, <3>3 DEF Announced
      <4>2. \A e \in NewEvents(Existing, out) :
              e.kind = "state_change" => e = c /\ out.state # row[t].state
        <5>1. out.items \in SUBSET Item
          BY <1>1 DEF TypeOK, Result
        <5> QED
          BY <1>1, <3>3, <5>1, SurfacedKind DEF NewEvents, StateChange, Existing
      <4>3. c.id[1] = out.state
        OBVIOUS
      <4> HIDE DEF c
      <4>4. CASE out.state = s /\ s # row[t].state
        <5>1. Due(t, s) /\ ~ Due(t, s)'
          BY <1>1, <1>2, <2>1, <3>3, <4>1, <4>4 DEF Due, States
        <5>2. /\ IsFiniteSet(StateChanges(t, s)) /\ Cardinality(StateChanges(t, s)) \in Nat
              /\ Allowed(t, s) \in Nat /\ Cardinality(StateChanges(t, s)) < Allowed(t, s)
              /\ IsFiniteSet(Entries(t, s))
          BY <3>1, <5>1, CreditCounts DEF Credit, RepeatsGrow
        <5>3. StateChanges(t, s)' \subseteq StateChanges(t, s) \cup {c}
          BY <2>2, <3>3, <4>2 DEF StateChanges
        <5>4. /\ IsFiniteSet(StateChanges(t, s) \cup {c})
              /\ Cardinality(StateChanges(t, s) \cup {c}) \in Nat
              /\ Cardinality(StateChanges(t, s) \cup {c}) <= Allowed(t, s)
          <6>1. /\ IsFiniteSet(StateChanges(t, s) \cup {c})
                /\ Cardinality(StateChanges(t, s) \cup {c}) =
                     IF c \in StateChanges(t, s) THEN Cardinality(StateChanges(t, s))
                     ELSE Cardinality(StateChanges(t, s)) + 1
            BY <5>2, FS_AddElement, Zenon
          <6> QED
            BY <5>2, <6>1
        <5>5. ASSUME NEW S, S \subseteq StateChanges(t, s) \cup {c}
              PROVE  IsFiniteSet(S) /\ Cardinality(S) <= Allowed(t, s)
          <6>1. /\ IsFiniteSet(S) /\ Cardinality(S) \in Nat
                /\ Cardinality(S) <= Cardinality(StateChanges(t, s) \cup {c})
            BY <5>4, <5>5, FS_Subset, FS_CardinalityType
          <6> QED
            BY <5>2, <5>4, <6>1
        <5>6. Entered(t, s)' = Entered(t, s)
          BY <3>1, Zenon DEF Entered
        <5>7. Allowed(t, s)' \in Nat /\ Allowed(t, s) <= Allowed(t, s)'
          BY <3>1, <5>6, AllowedGrows, Zenon
        <5>8. ASSUME NEW S, S \subseteq StateChanges(t, s) \cup {c}
              PROVE  IsFiniteSet(S) /\ Cardinality(S) <= Allowed(t, s)'
          <6>1. IsFiniteSet(S) /\ Cardinality(S) \in Nat /\ Cardinality(S) <= Allowed(t, s)
            BY <5>5, <5>8, FS_CardinalityType
          <6>2. \A m, n, k \in Nat : m <= n /\ n <= k => m <= k
            OBVIOUS
          <6> QED
            BY <5>2, <5>7, <6>1, <6>2, Zenon
        <5> QED
          BY <3>1, <5>1, <5>2, <5>3, <5>8, Zenon DEF Credit
      <4>5. CASE ~ (out.state = s /\ s # row[t].state)
        <5>1. StateChanges(t, s)' = StateChanges(t, s)
          BY <2>2, <3>3, <4>2, <4>3, <4>5 DEF StateChanges
        <5>2. Due(t, s)' => Due(t, s)
          BY <1>1, <1>2, <2>1, <3>3, <4>1, <4>5 DEF Due, States
        <5>3. Entered(t, s)' = Entered(t, s)
          BY <3>1, Zenon DEF Entered
        <5>4. Allowed(t, s)' \in Nat /\ Allowed(t, s) <= Allowed(t, s)'
          BY <3>1, <5>3, AllowedGrows, Zenon
        <5>5. Cardinality(StateChanges(t, s)) \in Nat /\ Allowed(t, s) \in Nat
          BY <3>1, CreditCounts DEF RepeatsGrow
        <5> QED
          BY <3>1, <5>1, <5>2, <5>4, <5>5, BoundsGrow, Zenon DEF Credit
      <4> QED
        BY <4>4, <4>5
    <3> QED
      BY <3>2, <3>3
  <2> QED
    BY <1>1, <2>3 DEF AInv, CreditInv
<1> QED
  BY <1>3, <1>4

\* The row takes over the state that was announced, so nothing is due that
\* was not before; or the failure to do so is accounted for.
LEMMA ApplyCredit ==
  ASSUME AInv, RepeatsGrow, Apply
  PROVE  CreditInv'
<1>1. /\ TypeOK /\ cur \in Threads /\ pc = "apply" /\ UNCHANGED <<events, issue, items>>
      /\ cur' = NoThread /\ cur' \notin Threads /\ pc' = "next"
  BY ThreadsAssumption DEF Apply, Return, AInv, RInv, TypeInv, TypeOK, ControlInv, Polling,
                           NoThread, ghVars
<1>2. CASE row' = [row EXCEPT ![cur] = ApplyThreadUpdate(row[cur], Update(Existing, out))]
  <2>1. ApplyThreadUpdate(row[cur], Update(Existing, out)).state =
          IF out.state \in {"", "unknown"} THEN row[cur].state ELSE out.state
    BY DEF ApplyThreadUpdate, Update
  <2>2. out.state # "unknown"
    BY <1>1 DEF TypeOK, Result, States
  <2>3. \A t \in Threads : Announced(t)' = Announced(t)
    BY <1>1, <1>2, <2>1, <2>2 DEF Announced, TypeOK
  <2> QED
    BY <1>1, <2>3, CreditUntouched
<1>3. CASE Fault("applyError")
  <2>1. Repeats \in Nat /\ Repeats' = Repeats + 1
    BY <1>3 DEF Fault, Repeats, RepeatsGrow
  <2> QED
    BY <1>1, <2>1, FailureCredit
<1> QED
  BY <1>2, <1>3 DEF Apply

\* FetchThread's state is the issue's.
LEMMA FetchCredit ==
  ASSUME AInv, RepeatsGrow, NEW e \in Endpoints, IF e = "issue" THEN FetchIssue ELSE FetchList(e)
  PROVE  CreditInv'
<1>1. /\ TypeOK /\ pc = e /\ cur \in Threads /\ out \in Result /\ etags \in [Endpoints -> Nat]
      /\ Continue(e)
  BY DEF FetchIssue, FetchList, AInv, RInv, TypeInv, TypeOK, ControlInv, Fetching, Polling, NoThread
<1>2. UNCHANGED <<row, events, cur, issue, items>>
  BY <1>1 DEF Continue, dbVars, ghVars
<1>3. pc # "apply" /\ pc' # "apply"
  BY <1>1 DEF Continue, NextCall, Endpoints
<1>4. out'.state \in {out.state, issue[cur].state}
  <2>1. CASE e = "issue"
    <3>1. PICK status \in Statuses :
            out' = IssueInto(out, etags, status, ver[cur]["issue"], Kind[cur], issue[cur])
      BY <2>1 DEF FetchIssue
    <3>2. ver[cur]["issue"] \in Nat \ {NoETag} /\ Kind[cur] \in {"issue", "pr"}
          /\ issue[cur] \in [state : States, updatedAt : Nat]
      BY <1>1, <2>1, KindAssumption DEF TypeOK, GitHubTypeOK
    <3> QED
      BY <1>1, <3>1, <3>2, IssueIntoFields
  <2>2. CASE e # "issue"
    <3>1. PICK status \in Statuses :
            out' = ListInto(out, etags, e, status, ver[cur][e], Page(items[cur][e]))
      BY <2>2 DEF FetchList
    <3>2. ver[cur][e] \in Nat \ {NoETag} /\ Page(items[cur][e]) \in SUBSET Item
      BY <1>1, <2>2, PageSubset DEF TypeOK, GitHubTypeOK, ListEndpoints
    <3> QED
      BY <1>1, <3>1, <3>2, ListIntoFields
  <2> QED
    BY <2>1, <2>2
<1>5. \A t \in Threads : Announced(t)' = Announced(t)
  BY <1>2, <1>3 DEF Announced
<1> QED
  BY <1>2, <1>4, <1>5, CreditUntouched

\* The failures are counted.
LEMMA FaultsCount ==
  ASSUME TypeOK, [Next]_vars
  PROVE  RepeatsGrow
<1>1. faults \in Nat
  BY FaultsAssumption DEF TypeOK
<1>2. faults' = faults \/ faults' = faults + 1
  <2>1. CASE BeginTick \/ EndTick \/ Abort \/ Insert \/ Apply \/ Boot
    BY <2>1 DEF BeginTick, EndTick, Abort, Insert, Apply, Boot, Fault
  <2>2. CASE FetchIssue \/ \E e \in ListEndpoints : FetchList(e)
    BY <2>2 DEF FetchIssue, FetchList, Answer, Fault
  <2>3. CASE (\E t \in Threads : StartPoll(t)) \/ \E e \in Endpoints : Save(e)
    BY <2>3 DEF StartPoll, Save, Fault
  <2>4. CASE Crash \/ Activity \/ UNCHANGED vars
    BY <2>4 DEF Crash, Activity, vars, Fault
  <2> QED
    BY <2>1, <2>2, <2>3, <2>4 DEF Next, PollerStep
<1> QED
  BY <1>1, <1>2 DEF RepeatsGrow, Repeats

LEMMA CreditNext ==
  ASSUME AInv, [Next]_vars
  PROVE  CreditInv'
<1> RepeatsGrow
  BY FaultsCount DEF AInv, RInv, TypeInv
<1> USE DEF AInv
<1>0. (cur # NoThread <=> Polling) /\ NoThread \notin Threads /\ (~ Polling => out.state = "")
  <2>1. NewResult.state = ""
    BY DEF NewResult
  <2> QED
    BY <2>1, ThreadsAssumption DEF RInv, TypeInv, ControlInv, NoThread
<1>1. CASE BeginTick \/ EndTick
  <2>1. UNCHANGED <<row, events, issue, items, cur, out>> /\ pc # "apply" /\ pc' # "apply"
    BY <1>1 DEF BeginTick, EndTick, dbVars, ghVars
  <2>2. \A t \in Threads : Announced(t)' = Announced(t)
    BY <2>1 DEF Announced
  <2> QED
    BY <2>1, <2>2, CreditUntouched
<1>2. ASSUME NEW u \in Threads, StartPoll(u) PROVE CreditInv'
  <2>1. UNCHANGED <<row, events, issue, items, out>> /\ pc # "apply" /\ pc' # "apply" /\ ~ Polling
    BY <1>2 DEF StartPoll, dbVars, ghVars, Polling, Fetching, Endpoints
  <2>2. \A t \in Threads : Announced(t)' = Announced(t)
    BY <2>1 DEF Announced
  <2> QED
    BY <1>0, <2>1, <2>2, CreditUntouched
<1>3. CASE FetchIssue
  BY <1>3, FetchCredit DEF Endpoints
<1>4. ASSUME NEW e \in ListEndpoints, FetchList(e) PROVE CreditInv'
  BY <1>4, FetchCredit DEF ListEndpoints
<1>5. ASSUME NEW e \in Endpoints, Save(e) PROVE CreditInv'
  <2>1. UNCHANGED <<row, events, issue, items, cur, out, pc>>
    BY <1>5 DEF Save, ghVars
  <2>2. \A t \in Threads : Announced(t)' = Announced(t)
    BY <2>1 DEF Announced
  <2> QED
    BY <2>1, <2>2, CreditUntouched
<1>6. CASE Abort
  <2>1. UNCHANGED <<row, events, issue, items>> /\ pc # "apply" /\ pc' # "apply" /\ cur' = NoThread
    BY <1>6 DEF Abort, Return, dbVars, ghVars
  <2>2. \A t \in Threads : Announced(t)' = Announced(t)
    BY <2>1 DEF Announced
  <2> QED
    BY <1>0, <2>1, <2>2, CreditUntouched
<1>7. CASE Insert
  BY <1>7, InsertCredit
<1>8. CASE Apply
  BY <1>8, ApplyCredit
<1>9. CASE Boot
  <2>1. UNCHANGED <<row, events, issue, items, cur, out>> /\ pc # "apply" /\ pc' # "apply"
    BY <1>9, UpsertType DEF Boot, ghVars, RInv, TypeInv, TypeOK
  <2>2. \A t \in Threads : Announced(t)' = Announced(t)
    BY <2>1 DEF Announced
  <2> QED
    BY <2>1, <2>2, CreditUntouched
<1>10. CASE Activity
  BY <1>10, ActivityCredit
<1>11. CASE UNCHANGED vars
  <2>1. UNCHANGED <<row, events, issue, items, cur, out, pc>>
    BY <1>11 DEF vars, ghVars, dbVars, memVars
  <2>2. \A t \in Threads : Announced(t)' = Announced(t)
    BY <2>1 DEF Announced
  <2> QED
    BY <2>1, <2>2, CreditUntouched
<1>12. CASE Crash
  <2>1. UNCHANGED <<events, items>> /\ Fault("crash")
    BY <1>12 DEF Crash, dbVars, ghVars
  <2>2. Repeats \in Nat /\ Repeats' = Repeats + 1
    BY <2>1 DEF Fault, Repeats, RepeatsGrow
  <2> QED
    BY <2>1, <2>2, FailureCredit
<1> QED
  BY <1>1, <1>2, <1>3, <1>4, <1>5, <1>6, <1>7, <1>8, <1>9, <1>10, <1>11, <1>12 DEF Next, PollerStep

LEMMA AInvHolds == Spec => []AInv
<1>1. Init => AInv
  BY TypeInvInit, RowInvInit, ItemInvInit, CreditInit DEF AInv, RInv
<1>2. AInv /\ [Next]_vars => AInv'
  BY CreditNext, TypeInvNext, RowInvNext, ItemInvNext DEF AInv, RInv
<1> QED
  BY <1>1, <1>2, PTL DEF Spec

\* As long as the row is updated after every insert, a thread's timeline
\* announces each state no more often than the thread entered it, whatever
\* else fails, however long it is watched, and whatever happens on GitHub
\* between the calls of a poll.
THEOREM EachChangeIsAnnouncedOnce ==
  ASSUME Faults \cap {"crash", "applyError"} = {}
  PROVE  Spec => []EachChangeFiresOnce
<1>1. AInv => EachChangeFiresOnce
  <2> SUFFICES ASSUME AInv, NEW t \in Threads, NEW s \in States
               PROVE  Cardinality(StateChanges(t, s)) <= Entered(t, s)
    BY DEF EachChangeFiresOnce
  <2>1. Credit(t, s) /\ Repeats = 0
    BY DEF AInv, CreditInv, Repeats
  <2>2. Allowed(t, s) = Entered(t, s) + 0 /\ Entered(t, s) \in Nat
    BY <2>1, CreditCounts
  <2> QED
    BY <2>1, <2>2 DEF Credit
<1> QED
  BY <1>1, AInvHolds, PTL

\* Whatever fails and however often, an announcement more than the thread
\* has entries takes a failure more.
THEOREM RepeatsTakeAFailureEach == Spec => []RepeatsTakeFailures
<1>1. AInv => RepeatsTakeFailures
  <2> SUFFICES ASSUME AInv, NEW t \in Threads, NEW s \in States
               PROVE  Cardinality(StateChanges(t, s)) <= Entered(t, s) + faults
    BY DEF RepeatsTakeFailures
  <2>1. faults \in Nat
    BY FaultsAssumption DEF AInv, RInv, TypeInv, TypeOK
  <2>2. Credit(t, s) /\ Repeats \in Nat /\ Repeats <= faults
    BY <2>1 DEF AInv, CreditInv, Repeats
  <2>3. /\ Allowed(t, s) = Entered(t, s) + Repeats /\ Entered(t, s) \in Nat
        /\ Cardinality(StateChanges(t, s)) \in Nat
    BY <2>2, CreditCounts
  <2>4. Cardinality(StateChanges(t, s)) <= Allowed(t, s)
    BY <2>2 DEF Credit
  <2> QED
    BY <2>1, <2>2, <2>3, <2>4
<1> QED
  BY <1>1, AInvHolds, PTL

-----------------------------------------------------------------------------
(* A change without an event of its own *)

BInv == RInv /\ ItemInv /\ ReturnInv

LEMMA TimesAreNat ==
  ASSUME TypeOK, NEW t \in Threads
  PROVE  /\ issue[t].updatedAt \in Nat /\ issue[t].state \in States /\ out.updatedAt \in Nat
         /\ \A s \in States : \A i \in Entries(t, s) : i.at \in Nat
         /\ \A s : \A e \in StateChanges(t, s) : e.at \in Nat
<1>1. /\ issue[t] \in [state : States, updatedAt : Nat] /\ out \in Result
      /\ items[t]["issue_events"] \subseteq Item /\ events[t] \subseteq Event
  BY DEF TypeOK, GitHubTypeOK, ListEndpoints, Endpoints
<1>2. \A i \in items[t]["issue_events"] : i.at \in Nat
  BY <1>1 DEF Item
<1>3. \A e \in events[t] : e.at \in Nat
  BY <1>1 DEF Event
<1> QED
  BY <1>1, <1>2, <1>3 DEF Result, Entries, StateChanges

LEMMA NotAfterItself == \A n \in Nat : n <= n
OBVIOUS

LEMMA ReturnInit == Init => ReturnInv
<1> SUFFICES ASSUME Init, NEW t \in Threads
             PROVE  /\ \A s \in States : \A i \in Entries(t, s) : i.at <= issue[t].updatedAt
                    /\ \A s \in States : AnnouncedBefore(t, s)
                    /\ FoundOut(t)
  BY DEF ReturnInv
<1>1. items[t]["issue_events"] = {} /\ events[t] = {} /\ cur # t
  BY ThreadsAssumption DEF Init, GitHubInit, ListEndpoints, Endpoints, NoThread
<1>2. \A s : Entries(t, s) = {} /\ StateChanges(t, s) = {}
  BY <1>1 DEF Entries, StateChanges
<1> QED
  BY <1>1, <1>2 DEF AnnouncedBefore, FoundOut

\* What has left a state and come back stays so, and a longer time for it
\* is as good.
LEMMA BackStays ==
  ASSUME NEW t, \A r \in States : Entries(t, r) \subseteq Entries(t, r)'
  PROVE  \A s \in States : \A u, v :
           /\ LeftSince(t, s, u) => LeftSince(t, s, u)'
           /\ BackBetween(t, s, u, v) => BackBetween(t, s, u, v)'
<1>1. ASSUME NEW s \in States, NEW u, LeftSince(t, s, u)
      PROVE  LeftSince(t, s, u)'
  BY <1>1 DEF LeftSince
<1>2. ASSUME NEW s \in States, NEW u, NEW v, BackBetween(t, s, u, v)
      PROVE  BackBetween(t, s, u, v)'
  <2>1. PICK i \in Entries(t, s) : u <= i.at /\ i.at <= v
    BY <1>2 DEF BackBetween
  <2>2. PICK r \in States \ {s} : \E j \in Entries(t, r) : u <= j.at /\ j.at <= v
    BY <1>2 DEF BackBetween
  <2>3. PICK j \in Entries(t, r) : u <= j.at /\ j.at <= v
    BY <2>2
  <2>4. i \in Entries(t, s)' /\ j \in Entries(t, r)'
    BY <2>1, <2>2, <2>3
  <2> QED
    BY <2>1, <2>2, <2>3, <2>4, Zenon DEF BackBetween
<1> QED
  BY <1>1, <1>2

LEMMA BackByLater ==
  ASSUME TypeOK, NEW t \in Threads
  PROVE  \A s \in States : \A u, v, w \in Nat :
           v <= w /\ BackBetween(t, s, u, v) => BackBetween(t, s, u, w)
<1>1. \A s \in States : \A i \in Entries(t, s) : i.at \in Nat
  BY TimesAreNat
<1>2. \A a, v, w \in Nat : a <= v /\ v <= w => a <= w
  OBVIOUS
<1> QED
  BY <1>1, <1>2, Zenon DEF BackBetween

\* A step that announces nothing: the poll keeps the state it has found out,
\* or finds out the one the issue has, which may then be due.
LEMMA ReturnUntouched ==
  ASSUME BInv, UNCHANGED <<events, issue, items>>,
         \A t \in Threads : Announced(t)' = Announced(t),
         cur' \in Threads /\ out'.state # "" =>
           \/ /\ UNCHANGED <<row, cur, seen>>
              /\ out'.state = out.state /\ out'.updatedAt = out.updatedAt
           \/ /\ out'.state = issue[cur'].state /\ out'.updatedAt = issue[cur'].updatedAt
              /\ row'[cur'].state = Announced(cur')
  PROVE  ReturnInv'
<1> SUFFICES ASSUME NEW t \in Threads
             PROVE  /\ \A s \in States : \A i \in Entries(t, s)' : i.at <= issue'[t].updatedAt
                    /\ \A s \in States : AnnouncedBefore(t, s)'
                    /\ FoundOut(t)'
  BY DEF ReturnInv
<1>1. /\ issue'[t] = issue[t] /\ issue[t].updatedAt \in Nat /\ issue[t].state \in States
      /\ issue[t].updatedAt <= issue[t].updatedAt
  <2>1. issue'[t] = issue[t] /\ issue[t].updatedAt \in Nat /\ issue[t].state \in States
    BY TimesAreNat DEF BInv, RInv, TypeInv
  <2> QED
    BY <2>1, NotAfterItself, Zenon
<1>2. \A s : Entries(t, s)' = Entries(t, s) /\ StateChanges(t, s)' = StateChanges(t, s)
  BY DEF Entries, StateChanges
<1>3. /\ \A s \in States : \A i \in Entries(t, s) : i.at <= issue[t].updatedAt
      /\ \A s \in States : AnnouncedBefore(t, s)
      /\ FoundOut(t)
  BY DEF BInv, ReturnInv
<1>4. \A s \in States : \A u, v :
        /\ LeftSince(t, s, u) => LeftSince(t, s, u)'
        /\ BackBetween(t, s, u, v) => BackBetween(t, s, u, v)'
  BY <1>2, BackStays, Zenon
<1>5. ASSUME NEW s \in States
      PROVE  AnnouncedBefore(t, s)'
  <2>1. Due(t, s)' => Due(t, s)
    BY <1>1, Zenon DEF Due
  <2>2. SUFFICES ASSUME NEW e \in StateChanges(t, s)
                 PROVE  /\ e.at <= issue[t].updatedAt
                        /\ issue[t].state = s \/ LeftSince(t, s, e.at)'
                        /\ Due(t, s)' => BackBetween(t, s, e.at, issue[t].updatedAt)'
    BY <1>1, <1>2, Zenon DEF AnnouncedBefore
  <2> QED
    BY <1>1, <1>3, <1>4, <2>1, Zenon DEF AnnouncedBefore
<1>6. FoundOut(t)'
  <2>1. CASE cur' = t /\ out'.state # "" /\ UNCHANGED <<row, cur, seen>>
             /\ out'.state = out.state /\ out'.updatedAt = out.updatedAt
    <3>1. PICK s, u : s = out.state /\ u = out.updatedAt /\ s = out'.state /\ u = out'.updatedAt
      BY <2>1
    <3>2. s \in States
      BY <2>1, <3>1 DEF BInv, RInv, TypeInv, TypeOK, Result
    <3>3. /\ u <= issue[t].updatedAt
          /\ issue[t].state = s \/ LeftSince(t, s, u)
          /\ row[t].state # s =>
               \A e \in StateChanges(t, s) : Key(e) \in seen => BackBetween(t, s, e.at, u)
      BY <1>3, <2>1, <3>1 DEF FoundOut
    <3> QED
      BY <1>1, <1>2, <1>4, <2>1, <3>1, <3>2, <3>3 DEF FoundOut
  <2>2. CASE /\ cur' = t /\ out'.state = issue[t].state /\ out'.updatedAt = issue[t].updatedAt
             /\ row'[t].state = Announced(t)
    <3>1. PICK s, u : s = issue[t].state /\ u = issue[t].updatedAt /\ s = out'.state /\ u = out'.updatedAt
      BY <2>2
    <3>2. row'[t].state # s => Due(t, s)
      BY <2>2, <3>1 DEF Due
    <3>3. row'[t].state # s => \A e \in StateChanges(t, s) : BackBetween(t, s, e.at, u)'
      BY <1>1, <1>3, <1>4, <3>1, <3>2 DEF AnnouncedBefore
    <3>4. /\ out'.updatedAt <= issue'[t].updatedAt /\ issue'[t].state = out'.state
          /\ row'[t].state # s => \A e \in StateChanges(t, s)' : BackBetween(t, s, e.at, u)'
      BY <1>1, <1>2, <3>1, <3>3, Zenon
    <3> QED
      BY <3>1, <3>4, Zenon DEF FoundOut
  <2> QED
    BY <2>1, <2>2 DEF FoundOut
<1> QED
  BY <1>1, <1>2, <1>3, <1>5, <1>6

\* The event a poll announces is of the state and the time it found out.
LEMMA InsertReturn ==
  ASSUME BInv, Insert
  PROVE  ReturnInv'
<1>1. /\ TypeOK /\ cur \in Threads /\ pc = "save" /\ seen = Recorded(cur) /\ listed[cur] = row[cur]
      /\ UNCHANGED <<row, issue, items>>
  BY DEF Insert, BInv, RInv, TypeInv, TypeOK, ControlInv, Polling, NoThread, RowInv, ViewInv, ghVars
<1>2. \A t \in Threads : Announced(t) = row[t].state
  BY <1>1 DEF Announced
<1>3. CASE pc' # "apply"
  <2>1. events' = events /\ cur' = NoThread /\ cur' \notin Threads
    BY <1>3, ThreadsAssumption DEF Insert, Return, NoThread
  <2>2. \A t \in Threads : Announced(t)' = row[t].state
    BY <1>1, <1>3 DEF Announced
  <2> QED
    BY <1>1, <1>2, <2>1, <2>2, ReturnUntouched
<1>4. CASE pc' = "apply"
  <2>1. /\ events' = [events EXCEPT ![cur] = InsertEventsIfNew(events[cur], NewEvents(Existing, out))]
        /\ UNCHANGED <<cur, out, seen>>
    BY <1>4 DEF Insert, Return
  <2>2. /\ events'[cur] = events[cur] \cup NewEvents(Existing, out)
        /\ \A t \in Threads : t # cur => events'[t] = events[t]
    BY <1>1, <2>1, InsertAddsAll DEF TypeOK
  <2>3. SUFFICES ASSUME NEW t \in Threads
                 PROVE  /\ \A s \in States : \A i \in Entries(t, s)' : i.at <= issue'[t].updatedAt
                        /\ \A s \in States : AnnouncedBefore(t, s)'
                        /\ FoundOut(t)'
    BY DEF ReturnInv
  <2>4. /\ \A s \in States : \A i \in Entries(t, s) : i.at <= issue[t].updatedAt
        /\ \A s \in States : AnnouncedBefore(t, s)
        /\ FoundOut(t)
    BY DEF BInv, ReturnInv
  <2>5. \A s : Entries(t, s)' = Entries(t, s)
    BY <1>1 DEF Entries
  <2>6. \A s \in States : \A u, v :
          /\ LeftSince(t, s, u) => LeftSince(t, s, u)'
          /\ BackBetween(t, s, u, v) => BackBetween(t, s, u, v)'
    BY <2>5, BackStays, Zenon
  <2>7. CASE t # cur
    <3>1. \A s : StateChanges(t, s)' = StateChanges(t, s)
      BY <2>2, <2>7 DEF StateChanges
    <3>2. ASSUME NEW s \in States
          PROVE  AnnouncedBefore(t, s)'
      <4>1. Due(t, s)' => Due(t, s)
        BY <1>1, <1>2, <2>1, <2>7, Zenon DEF Due, Announced
      <4>2. issue' = issue
        BY <1>1
      <4> QED
        BY <2>4, <2>6, <3>1, <4>1, <4>2, Zenon DEF AnnouncedBefore
    <3> QED
      BY <1>1, <2>1, <2>4, <2>5, <2>7, <3>2 DEF FoundOut
  <2>8. CASE t = cur
    <3> DEFINE c == [kind |-> "state_change", id |-> <<out.state, out.updatedAt>>, at |-> out.updatedAt]
    <3>1. Announced(t)' = IF out.state = "" THEN row[t].state ELSE out.state
      BY <1>1, <1>4, <2>1, <2>8 DEF Announced
    <3>2. \A e \in NewEvents(Existing, out) :
            e.kind = "state_change" => e = c /\ Key(e) \notin seen
      <4>1. out.items \in SUBSET Item
        BY <1>1 DEF TypeOK, Result
      <4> QED
        BY <4>1, SurfacedKind DEF NewEvents, StateChange, Existing
    <3>3. c.id[1] = out.state /\ c.at = out.updatedAt
      OBVIOUS
    <3> HIDE DEF c
    <3>4. ASSUME NEW s, NEW e \in StateChanges(t, s)'
          PROVE  e \in StateChanges(t, s) \/ (s = out.state /\ e.at = out.updatedAt /\ Key(e) \notin seen)
      BY <2>2, <2>8, <3>2, <3>3 DEF StateChanges
    <3>5. issue' = issue /\ row' = row /\ out' = out /\ seen' = seen /\ cur' = cur
      BY <1>1, <2>1
    <3>6. ASSUME NEW s \in States
          PROVE  AnnouncedBefore(t, s)'
      <4>1. s # out.state => (Due(t, s)' => Due(t, s))
        BY <1>2, <2>8, <3>1, <3>5 DEF Due, States
      <4>2. ~ Due(t, out.state)' \/ out.state = ""
        BY <2>8, <3>1, <3>5 DEF Due
      <4>3. s # ""
        BY DEF States
      <4>4. s = out.state =>
              out.updatedAt <= issue[t].updatedAt /\ (issue[t].state = s \/ LeftSince(t, s, out.updatedAt))
        BY <2>4, <2>8, <4>3 DEF FoundOut
      <4>5. s = out.state => ~ Due(t, s)'
        BY <3>5, <4>2, <4>3, Zenon
      <4>6. ASSUME NEW e \in StateChanges(t, s)'
            PROVE  /\ e.at <= issue[t].updatedAt
                   /\ issue[t].state = s \/ LeftSince(t, s, e.at)'
                   /\ Due(t, s)' => BackBetween(t, s, e.at, issue[t].updatedAt)'
        <5>1. CASE e \in StateChanges(t, s)
          <6>1. /\ e.at <= issue[t].updatedAt
                /\ issue[t].state = s \/ LeftSince(t, s, e.at)
                /\ Due(t, s) => BackBetween(t, s, e.at, issue[t].updatedAt)
            BY <2>4, <5>1, Zenon DEF AnnouncedBefore
          <6>2. Due(t, s)' => Due(t, s)
            BY <4>1, <4>5, Zenon
          <6> QED
            BY <2>6, <3>5, <6>1, <6>2, Zenon
        <5>2. CASE s = out.state /\ e.at = out.updatedAt
          <6>1. issue[t].state = s \/ LeftSince(t, s, e.at)
            BY <4>4, <5>2, Zenon
          <6>2. e.at <= issue[t].updatedAt
            BY <4>4, <5>2, Zenon
          <6> QED
            BY <2>6, <4>5, <5>2, <6>1, <6>2, Zenon
        <5> QED
          BY <3>4, <5>1, <5>2, Zenon
      <4> QED
        BY <3>5, <4>6, Zenon DEF AnnouncedBefore
    <3>7. FoundOut(t)'
      <4>1. CASE out.state # ""
        <5>1. PICK s, u : s = out.state /\ u = out.updatedAt
          OBVIOUS
        <5>2. s \in States
          BY <1>1, <4>1, <5>1 DEF TypeOK, Result
        <5>3. row[t].state # s =>
                \A e \in StateChanges(t, s) : Key(e) \in seen => BackBetween(t, s, e.at, u)
          BY <2>4, <2>8, <4>1, <5>1, Zenon DEF FoundOut
        <5>4. row[t].state # s =>
                \A e \in StateChanges(t, s)' : Key(e) \in seen => BackBetween(t, s, e.at, u)'
          BY <2>6, <3>4, <5>2, <5>3, Zenon
        <5>5. u <= issue[t].updatedAt /\ (issue[t].state = s \/ LeftSince(t, s, u)')
          BY <2>4, <2>6, <2>8, <4>1, <5>1, <5>2, Zenon DEF FoundOut
        <5> QED
          BY <3>5, <5>1, <5>4, <5>5, Zenon DEF FoundOut
      <4>2. CASE out.state = ""
        BY <3>5, <4>2, Zenon DEF FoundOut
      <4> QED
        BY <4>1, <4>2
    <3> QED
      BY <2>4, <2>5, <3>5, <3>6, <3>7, Zenon
  <2> QED
    BY <2>7, <2>8
<1> QED
  BY <1>3, <1>4

LEMMA FetchReturn ==
  ASSUME BInv, NEW e \in Endpoints, IF e = "issue" THEN FetchIssue ELSE FetchList(e)
  PROVE  ReturnInv'
<1>1. /\ TypeOK /\ pc = e /\ cur \in Threads /\ out \in Result /\ etags \in [Endpoints -> Nat]
      /\ Continue(e)
  BY DEF FetchIssue, FetchList, BInv, RInv, TypeInv, TypeOK, ControlInv, Fetching, Polling, NoThread
<1>2. UNCHANGED <<row, events, cur, seen, issue, items>>
  BY <1>1 DEF Continue, dbVars, ghVars
<1>3. pc # "apply" /\ pc' # "apply"
  BY <1>1 DEF Continue, NextCall, Endpoints
<1>4. \A t \in Threads : Announced(t)' = Announced(t) /\ Announced(t) = row[t].state
  BY <1>2, <1>3 DEF Announced
<1>5. \/ out'.state = out.state /\ out'.updatedAt = out.updatedAt
      \/ out'.state = issue[cur].state /\ out'.updatedAt = issue[cur].updatedAt
  <2>1. CASE e = "issue"
    <3>1. PICK status \in Statuses :
            out' = IssueInto(out, etags, status, ver[cur]["issue"], Kind[cur], issue[cur])
      BY <2>1 DEF FetchIssue
    <3> QED
      BY <1>1, <3>1 DEF IssueInto, Carry, Result
  <2>2. CASE e # "issue"
    <3>1. PICK status \in Statuses :
            out' = ListInto(out, etags, e, status, ver[cur][e], Page(items[cur][e]))
      BY <2>2 DEF FetchList
    <3> QED
      BY <1>1, <3>1 DEF ListInto, Carry, Result
  <2> QED
    BY <2>1, <2>2
<1> QED
  BY <1>1, <1>2, <1>4, <1>5, ReturnUntouched

LEMMA ApplyReturn ==
  ASSUME "applyError" \notin Faults, BInv, Apply
  PROVE  ReturnInv'
<1>1. /\ TypeOK /\ cur \in Threads /\ pc = "apply" /\ UNCHANGED <<events, issue, items>>
      /\ cur' = NoThread /\ cur' \notin Threads /\ pc' = "next"
  BY ThreadsAssumption DEF Apply, Return, BInv, RInv, TypeInv, TypeOK, ControlInv, Polling,
                           NoThread, ghVars
<1>2. row' = [row EXCEPT ![cur] = ApplyThreadUpdate(row[cur], Update(Existing, out))]
  BY DEF Apply, Fault
<1>3. ApplyThreadUpdate(row[cur], Update(Existing, out)).state =
        IF out.state \in {"", "unknown"} THEN row[cur].state ELSE out.state
  BY DEF ApplyThreadUpdate, Update
<1>4. out.state # "unknown"
  BY <1>1 DEF TypeOK, Result, States
<1>5. \A t \in Threads : Announced(t)' = Announced(t)
  BY <1>1, <1>2, <1>3, <1>4 DEF Announced, TypeOK
<1> QED
  BY <1>1, <1>5, ReturnUntouched

\* A change leaves the state it changes and comes back to another, at the
\* time the issue then has.
LEMMA ActivityReturn ==
  ASSUME BInv, TypeOK', Activity
  PROVE  ReturnInv'
<1>1. /\ TypeOK /\ ItemInv /\ UNCHANGED <<row, events, pc, cur, seen, out>>
      /\ items \in [Threads -> [ListEndpoints -> SUBSET Item]]
      /\ "issue_events" \in ListEndpoints
  BY DEF BInv, RInv, TypeInv, TypeOK, GitHubTypeOK, Activity, dbVars, memVars, ListEndpoints, Endpoints
<1>2. PICK t \in Threads, s \in ListEndpoints : \E i :
        /\ i \notin items[t][s]
        /\ items' = [items EXCEPT ![t][s] = items[t][s] \cup {i}]
        /\ \A u \in Threads : u # t => issue'[u] = issue[u]
        /\ issue[t].updatedAt <= issue'[t].updatedAt
        /\ \/ /\ i.event \notin {"closed", "reopened", "merged"}
              /\ issue'[t].state = issue[t].state
           \/ /\ s = "issue_events" /\ i.event = Entry[issue'[t].state]
              /\ issue'[t].state # issue[t].state /\ i.at = issue'[t].updatedAt
  BY <1>1, ActivityPosts DEF BInv, RInv
<1>3. PICK i :
        /\ items' = [items EXCEPT ![t][s] = items[t][s] \cup {i}]
        /\ \A u \in Threads : u # t => issue'[u] = issue[u]
        /\ issue[t].updatedAt <= issue'[t].updatedAt
        /\ \/ /\ i.event \notin {"closed", "reopened", "merged"}
              /\ issue'[t].state = issue[t].state
           \/ /\ s = "issue_events" /\ i.event = Entry[issue'[t].state]
              /\ issue'[t].state # issue[t].state /\ i.at = issue'[t].updatedAt
  BY <1>2
<1>4. SUFFICES ASSUME NEW u \in Threads
               PROVE  /\ \A x \in States : \A j \in Entries(u, x)' : j.at <= issue'[u].updatedAt
                      /\ \A x \in States : AnnouncedBefore(u, x)'
                      /\ FoundOut(u)'
  BY DEF ReturnInv
<1>5. /\ \A x \in States : \A j \in Entries(u, x) : j.at <= issue[u].updatedAt
      /\ \A x \in States : AnnouncedBefore(u, x)
      /\ FoundOut(u)
  BY DEF BInv, ReturnInv
<1>6. \A x : StateChanges(u, x)' = StateChanges(u, x)
  BY <1>1 DEF StateChanges
<1>7. Announced(u)' = Announced(u)
  BY <1>1 DEF Announced
<1>8. /\ issue[u].updatedAt \in Nat /\ issue'[u].updatedAt \in Nat
      /\ issue[u].updatedAt <= issue'[u].updatedAt /\ issue[u].state \in States /\ issue'[u].state \in States
  <2>1. /\ issue[u].updatedAt \in Nat /\ issue'[u].updatedAt \in Nat
        /\ issue[u].state \in States /\ issue'[u].state \in States
    BY <1>1 DEF TypeOK, GitHubTypeOK
  <2>2. issue[u].updatedAt <= issue'[u].updatedAt
    BY <1>3, <2>1, NotAfterItself, Zenon
  <2> QED
    BY <2>1, <2>2
<1>9. PICK v, w \in Nat : v = issue[u].updatedAt /\ w = issue'[u].updatedAt /\ v <= w
  BY <1>8, Zenon
<1>10. \A a \in Nat : a <= v => a <= w
  BY <1>9
<1>11. /\ \A x \in States : \A j \in Entries(u, x) : j.at \in Nat
       /\ \A x : \A e \in StateChanges(u, x) : e.at \in Nat
       /\ out.updatedAt \in Nat
  BY <1>1, TimesAreNat, Zenon
<1>12. /\ \A x \in States : \A j \in Entries(u, x) : j.at <= w
       /\ \A x \in States : \A e \in StateChanges(u, x) : e.at <= w
       /\ cur = u /\ out.state # "" => out.updatedAt <= w
  BY <1>5, <1>9, <1>10, <1>11, Zenon DEF AnnouncedBefore, FoundOut
<1>13. ASSUME \A x \in States : Entries(u, x) \subseteq Entries(u, x)'
       PROVE  /\ \A x \in States : \A a, b :
                   /\ LeftSince(u, x, a) => LeftSince(u, x, a)'
                   /\ BackBetween(u, x, a, b) => BackBetween(u, x, a, b)'
              /\ \A x \in States : \A a \in Nat : BackBetween(u, x, a, v) => BackBetween(u, x, a, w)'
  <2>1. \A x \in States : \A a, b :
          /\ LeftSince(u, x, a) => LeftSince(u, x, a)'
          /\ BackBetween(u, x, a, b) => BackBetween(u, x, a, b)'
    BY <1>13, BackStays, Zenon
  <2>2. \A x \in States : \A a \in Nat : BackBetween(u, x, a, v) => BackBetween(u, x, a, w)
    BY <1>1, <1>9, BackByLater, Zenon
  <2> QED
    BY <2>1, <2>2, Zenon
<1>14. CASE issue'[u].state = issue[u].state
  <2>1. \A x \in States : Entries(u, x)' = Entries(u, x)
    <3>1. Entry["open"] = "reopened" /\ Entry["closed"] = "closed" /\ Entry["merged"] = "merged"
      BY DEF Entry
    <3>2. \/ items'[u]["issue_events"] = items[u]["issue_events"]
          \/ /\ items'[u]["issue_events"] = items[u]["issue_events"] \cup {i}
             /\ i.event \notin {"closed", "reopened", "merged"}
      BY <1>1, <1>3, <1>14
    <3> QED
      BY <3>1, <3>2 DEF Entries, States
  <2>2. /\ \A x \in States : \A a, b :
             /\ LeftSince(u, x, a) => LeftSince(u, x, a)'
             /\ BackBetween(u, x, a, b) => BackBetween(u, x, a, b)'
        /\ \A x \in States : \A a \in Nat : BackBetween(u, x, a, v) => BackBetween(u, x, a, w)'
    BY <1>13, <2>1, Zenon
  <2>3. ASSUME NEW x \in States
        PROVE  AnnouncedBefore(u, x)'
    <3>1. Due(u, x)' => Due(u, x)
      BY <1>1, <1>7, <1>14, Zenon DEF Due
    <3>2. SUFFICES ASSUME NEW e \in StateChanges(u, x)
                   PROVE  /\ e.at <= w
                          /\ issue'[u].state = x \/ LeftSince(u, x, e.at)'
                          /\ Due(u, x)' => BackBetween(u, x, e.at, w)'
      BY <1>6, <1>9, Zenon DEF AnnouncedBefore
    <3>3. /\ issue[u].state = x \/ LeftSince(u, x, e.at)
          /\ Due(u, x) => BackBetween(u, x, e.at, v)
      BY <1>5, <1>9, Zenon DEF AnnouncedBefore
    <3> QED
      BY <1>11, <1>12, <1>14, <2>2, <3>1, <3>3, Zenon
  <2>4. FoundOut(u)'
    <3>1. SUFFICES ASSUME cur = u, out.state # ""
                   PROVE  /\ issue[u].state = out.state \/ LeftSince(u, out.state, out.updatedAt)'
                          /\ row[u].state # out.state =>
                               \A e \in StateChanges(u, out.state) :
                                 Key(e) \in seen => BackBetween(u, out.state, e.at, out.updatedAt)'
      BY <1>1, <1>6, <1>9, <1>12, <1>14, Zenon DEF FoundOut
    <3>2. out.state \in States
      BY <1>1, <3>1 DEF TypeOK, Result
    <3>3. out' = out
      BY <1>1
    <3> QED
      BY <1>5, <2>2, <3>1, <3>2, <3>3, Zenon DEF FoundOut
  <2> QED
    BY <1>9, <1>12, <2>1, <2>3, <2>4, Zenon
<1>15. CASE issue'[u].state # issue[u].state
  <2>0. PICK new \in States : new = issue'[u].state
    BY <1>8
  <2>1. /\ items'[u]["issue_events"] = items[u]["issue_events"] \cup {i}
        /\ i.event = Entry[new] /\ i.at = w
    BY <1>1, <1>3, <1>9, <1>15, <2>0
  <2>2. new # issue[u].state
    BY <1>15, <2>0
  <2>3. /\ \A x \in States : Entries(u, x) \subseteq Entries(u, x)'
        /\ \A x \in States : \A j \in Entries(u, x)' : j \in Entries(u, x) \/ j = i
        /\ i \in Entries(u, new)'
    BY <2>1 DEF Entries
  <2>4. /\ \A x \in States : \A a, b :
             /\ LeftSince(u, x, a) => LeftSince(u, x, a)'
             /\ BackBetween(u, x, a, b) => BackBetween(u, x, a, b)'
        /\ \A x \in States : \A a \in Nat : BackBetween(u, x, a, v) => BackBetween(u, x, a, w)'
    BY <1>13, <2>3, Zenon
  <2>5. \A x \in States : \A a : x # new /\ a <= w => LeftSince(u, x, a)'
    BY <2>1, <2>2, <2>3, Zenon DEF LeftSince
  <2>6. w <= w
    BY <1>9, NotAfterItself, Zenon
  <2>7. \A a : a <= w /\ LeftSince(u, new, a) => BackBetween(u, new, a, w)'
    <3>1. SUFFICES ASSUME NEW a, a <= w, NEW r \in States \ {new}, NEW j \in Entries(u, r), a <= j.at
                   PROVE  BackBetween(u, new, a, w)'
      BY Zenon DEF LeftSince
    <3>2. j \in Entries(u, r)' /\ j.at <= w
      BY <1>12, <2>3
    <3> QED
      BY <2>1, <2>3, <2>6, <3>1, <3>2, Zenon DEF BackBetween
  <2>8. ASSUME NEW x \in States
        PROVE  AnnouncedBefore(u, x)'
    <3>1. x # new => (Due(u, x)' => Due(u, x))
      BY <1>1, <1>7, <2>0, Zenon DEF Due
    <3>2. SUFFICES ASSUME NEW e \in StateChanges(u, x)
                   PROVE  /\ e.at <= w
                          /\ new = x \/ LeftSince(u, x, e.at)'
                          /\ Due(u, x)' => BackBetween(u, x, e.at, w)'
      BY <1>6, <1>9, <2>0, Zenon DEF AnnouncedBefore
    <3>3. /\ issue[u].state = x \/ LeftSince(u, x, e.at)
          /\ Due(u, x) => BackBetween(u, x, e.at, v)
          /\ e.at \in Nat /\ e.at <= w
      BY <1>5, <1>9, <1>11, <1>12, Zenon DEF AnnouncedBefore
    <3>4. CASE x = new
      <4>1. LeftSince(u, new, e.at)
        BY <2>2, <3>3, <3>4, Zenon
      <4> QED
        BY <2>7, <3>3, <3>4, <4>1, Zenon
    <3>5. CASE x # new
      BY <2>4, <2>5, <3>1, <3>3, <3>5, Zenon
    <3> QED
      BY <3>4, <3>5
  <2>9. FoundOut(u)'
    <3>1. SUFFICES ASSUME cur = u, out.state # ""
                   PROVE  /\ new = out.state \/ LeftSince(u, out.state, out.updatedAt)'
                          /\ row[u].state # out.state =>
                               \A e \in StateChanges(u, out.state) :
                                 Key(e) \in seen => BackBetween(u, out.state, e.at, out.updatedAt)'
      BY <1>1, <1>6, <1>9, <1>12, <2>0, Zenon DEF FoundOut
    <3>2. out.state \in States /\ out' = out
      BY <1>1, <3>1 DEF TypeOK, Result
    <3>3. PICK a : a = out.updatedAt
      OBVIOUS
    <3>4. new = out.state \/ LeftSince(u, out.state, a)'
      BY <1>12, <2>5, <3>1, <3>2, <3>3, Zenon
    <3> QED
      BY <1>5, <2>4, <3>1, <3>2, <3>3, <3>4, Zenon DEF FoundOut
  <2>10. \A x \in States : \A j \in Entries(u, x)' : j.at <= w
    BY <1>12, <2>1, <2>3, <2>6, Zenon
  <2> QED
    BY <1>9, <2>8, <2>9, <2>10, Zenon
<1> QED
  BY <1>14, <1>15

LEMMA ReturnNext ==
  ASSUME Faults \cap {"crash", "applyError"} = {}, BInv, TypeOK', [Next]_vars
  PROVE  ReturnInv'
<1> USE DEF BInv
<1>0. (cur # NoThread <=> Polling) /\ NoThread \notin Threads /\ (~ Polling => out.state = "")
  <2>1. NewResult.state = ""
    BY DEF NewResult
  <2> QED
    BY <2>1, ThreadsAssumption DEF RInv, TypeInv, ControlInv, NoThread
<1>1. CASE BeginTick \/ EndTick
  <2>1. UNCHANGED <<row, events, issue, items, cur, seen, out>> /\ pc # "apply" /\ pc' # "apply"
    BY <1>1 DEF BeginTick, EndTick, dbVars, ghVars
  <2>2. \A t \in Threads : Announced(t)' = Announced(t)
    BY <2>1 DEF Announced
  <2> QED
    BY <2>1, <2>2, ReturnUntouched
<1>2. ASSUME NEW u \in Threads, StartPoll(u) PROVE ReturnInv'
  <2>1. UNCHANGED <<row, events, issue, items, out>> /\ pc # "apply" /\ pc' # "apply" /\ ~ Polling
    BY <1>2 DEF StartPoll, dbVars, ghVars, Polling, Fetching, Endpoints
  <2>2. \A t \in Threads : Announced(t)' = Announced(t)
    BY <2>1 DEF Announced
  <2> QED
    BY <1>0, <2>1, <2>2, ReturnUntouched
<1>3. CASE FetchIssue
  BY <1>3, FetchReturn DEF Endpoints
<1>4. ASSUME NEW e \in ListEndpoints, FetchList(e) PROVE ReturnInv'
  BY <1>4, FetchReturn DEF ListEndpoints
<1>5. ASSUME NEW e \in Endpoints, Save(e) PROVE ReturnInv'
  <2>1. UNCHANGED <<row, events, issue, items, cur, seen, out, pc>>
    BY <1>5 DEF Save, ghVars
  <2>2. \A t \in Threads : Announced(t)' = Announced(t)
    BY <2>1 DEF Announced
  <2> QED
    BY <2>1, <2>2, ReturnUntouched
<1>6. CASE Abort
  <2>1. UNCHANGED <<row, events, issue, items>> /\ pc # "apply" /\ pc' # "apply" /\ cur' = NoThread
    BY <1>6 DEF Abort, Return, dbVars, ghVars
  <2>2. \A t \in Threads : Announced(t)' = Announced(t)
    BY <2>1 DEF Announced
  <2> QED
    BY <1>0, <2>1, <2>2, ReturnUntouched
<1>7. CASE Insert
  BY <1>7, InsertReturn
<1>8. CASE Apply
  BY <1>8, ApplyReturn
<1>9. CASE Boot
  <2>1. UNCHANGED <<row, events, issue, items, cur, seen, out>> /\ pc # "apply" /\ pc' # "apply"
    BY <1>9, UpsertType DEF Boot, ghVars, RInv, TypeInv, TypeOK
  <2>2. \A t \in Threads : Announced(t)' = Announced(t)
    BY <2>1 DEF Announced
  <2> QED
    BY <2>1, <2>2, ReturnUntouched
<1>10. CASE Activity
  BY <1>10, ActivityReturn
<1>11. CASE UNCHANGED vars
  <2>1. UNCHANGED <<row, events, issue, items, cur, seen, out, pc>>
    BY <1>11 DEF vars, ghVars, dbVars, memVars
  <2>2. \A t \in Threads : Announced(t)' = Announced(t)
    BY <2>1 DEF Announced
  <2> QED
    BY <2>1, <2>2, ReturnUntouched
<1>12. ~ Crash
  BY DEF Crash, Fault
<1> QED
  BY <1>1, <1>2, <1>3, <1>4, <1>5, <1>6, <1>7, <1>8, <1>9, <1>10, <1>11, <1>12 DEF Next, PollerStep

\* A state applied to the row without an event of this poll was announced
\* before under the same id, hence at the same second.
LEMMA ChangeIsNewOrBack ==
  ASSUME BInv, [Next]_vars, NEW t \in Threads, row'[t].state # row[t].state
  PROVE  \/ \E e \in StateChanges(t, row'[t].state) : e.at = out.updatedAt /\ Key(e) \notin seen
         \/ /\ \E i \in Entries(t, row'[t].state) : i.at = out.updatedAt
            /\ \E s \in States \ {row'[t].state} : \E i \in Entries(t, s) : i.at = out.updatedAt
<1>1. Apply /\ t = cur
  BY RowWriters, AppliedRow DEF BInv
<1>2. row'[t].state = out.state /\ out.state # ""
  BY <1>1, AppliedRow DEF BInv
<1>3. out.state \in States
  BY <1>2 DEF BInv, RInv, TypeInv, TypeOK, Result
<1>4. PICK e \in StateChanges(t, out.state) : e.at = out.updatedAt
  BY <1>2, ChangeIsLogged DEF BInv
<1>5. CASE Key(e) \in seen
  <2>1. BackBetween(t, out.state, out.updatedAt, out.updatedAt)
    BY <1>1, <1>2, <1>4, <1>5 DEF BInv, ReturnInv, FoundOut
  <2>2. /\ out.updatedAt \in Nat /\ \A s \in States : \A i \in Entries(t, s) : i.at \in Nat
    BY TimesAreNat DEF BInv, RInv, TypeInv
  <2>3. \A a, b \in Nat : a <= b /\ b <= a => b = a
    OBVIOUS
  <2>4. /\ \E i \in Entries(t, out.state) : i.at = out.updatedAt
        /\ \E s \in States \ {out.state} : \E i \in Entries(t, s) : i.at = out.updatedAt
    BY <1>3, <2>1, <2>2, <2>3, Zenon DEF BackBetween
  <2> QED
    BY <1>2, <2>4, Zenon
<1> QED
  BY <1>2, <1>4, <1>5, Zenon

\* As long as the row is updated after every insert, INSERT OR IGNORE
\* swallows the event of no change but one within the second of an earlier
\* change to the same state, however often a thread changes, and whatever
\* else fails.
THEOREM OnlyASecondSwallows ==
  ASSUME Faults \cap {"crash", "applyError"} = {}
  PROVE  Spec => SwallowsOnlyWithinASecond
<1>1. Init => BInv
  BY TypeInvInit, RowInvInit, ItemInvInit, ReturnInit DEF BInv, RInv
<1>2. BInv /\ [Next]_vars => BInv'
  <2> SUFFICES ASSUME BInv, [Next]_vars PROVE BInv'
    OBVIOUS
  <2>1. TypeInv' /\ RowInv' /\ ItemInv'
    BY TypeInvNext, RowInvNext, ItemInvNext DEF BInv, RInv
  <2>2. TypeOK'
    BY <2>1 DEF TypeInv
  <2> QED
    BY <2>1, <2>2, ReturnNext DEF BInv, RInv
<1>3. BInv /\ [Next]_vars =>
        \A t \in Threads : row'[t].state # row[t].state =>
          \/ \E e \in StateChanges(t, row'[t].state) : e.at = out.updatedAt /\ Key(e) \notin seen
          \/ /\ \E i \in Entries(t, row'[t].state) : i.at = out.updatedAt
             /\ \E s \in States \ {row'[t].state} : \E i \in Entries(t, s) : i.at = out.updatedAt
  BY ChangeIsNewOrBack
<1> QED
  BY <1>1, <1>2, <1>3, PTL DEF Spec, SwallowsOnlyWithinASecond
=============================================================================
