------------------------------ MODULE PageProofs ------------------------------
(***************************************************************************)
(* Proof that the thread page is consistent, for every page limit, every   *)
(* set of threads and every failure of the poller.                         *)
(***************************************************************************)
EXTENDS ThreadPage, RowProofs, FiniteSetTheorems

\* What a row says is on a timeline.
Backed(r, timeline) ==
  /\ r.lastEventAt = NoTime \/ \E e \in timeline : e.at = r.lastEventAt
  /\ r.state = "unknown" \/ \E e \in timeline : e.kind = "state_change" /\ e.id[1] = r.state

LEMMA BackedStays ==
  ASSUME NEW r, NEW old, NEW new, old \subseteq new, Backed(r, old)
  PROVE  Backed(r, new)
BY DEF Backed

\* Every row is backed by its timeline, and so is the row a handler holds.
PageInv ==
  /\ RInv
  /\ \A t \in Threads : Backed(row[t], events[t])
  /\ view # NoView => view.thread \in Threads /\ Backed(view.row, events[view.thread])

LEMMA TimelinesGrow ==
  ASSUME RInv, [Next]_vars
  PROVE  \A t \in Threads : events[t] \subseteq events'[t]
<1>1. CASE Insert
  <2>1. /\ cur \in Threads /\ seen = Recorded(cur) /\ events \in [Threads -> SUBSET Event]
        /\ cur # NoThread
    BY <1>1, ThreadsAssumption DEF Insert, RInv, TypeInv, TypeOK, ControlInv, Polling, NoThread, RowInv, ViewInv
  <2>2. CASE events' = [events EXCEPT ![cur] = InsertEventsIfNew(events[cur], NewEvents(Existing, out))]
    BY <2>1, <2>2, InsertAddsAll
  <2> QED
    BY <1>1, <2>2 DEF Insert
<1>2. CASE Boot \/ Activity \/ Crash \/ UNCHANGED vars
  BY <1>2 DEF Boot, Activity, Crash, dbVars, vars
<1>3. CASE BeginTick \/ EndTick \/ Abort \/ Apply
  BY <1>3 DEF BeginTick, EndTick, Abort, Apply, dbVars
<1>4. CASE FetchIssue \/ \E e \in ListEndpoints : FetchList(e)
  BY <1>4 DEF FetchIssue, FetchList, Continue, dbVars
<1>5. CASE (\E t \in Threads : StartPoll(t)) \/ \E e \in Endpoints : Save(e)
  BY <1>5 DEF StartPoll, Save, dbVars
<1> QED
  BY <1>1, <1>2, <1>3, <1>4, <1>5 DEF Next, PollerStep

LEMMA RowsAreBacked ==
  ASSUME RInv, RInv', [Next]_vars, NEW t \in Threads, Backed(row[t], events[t])
  PROVE  Backed(row'[t], events'[t])
<1>1. row'[t].lastEventAt = NoTime \/ \E e \in events'[t] : e.at = row'[t].lastEventAt
  BY DEF RInv, RowInv, LastEventRecorded
<1>2. \/ row'[t].state = "unknown"
      \/ \E e \in events'[t] : e.kind = "state_change" /\ e.id[1] = row'[t].state
  <2>0. events[t] \subseteq events'[t]
    BY TimelinesGrow
  <2>1. CASE row'[t].state = row[t].state
    BY <2>0, <2>1 DEF Backed
  <2>2. CASE row'[t].state # row[t].state
    <3>1. \E e \in StateChanges(t, row'[t].state) : e.at = out.updatedAt
      BY <2>2, ChangeIsLogged
    <3>2. PICK e \in events[t] : e.kind = "state_change" /\ e.id[1] = row'[t].state
      BY <3>1 DEF StateChanges
    <3> QED
      BY <2>0, <3>2
  <2> QED
    BY <2>1, <2>2
<1> QED
  BY <1>1, <1>2 DEF Backed

LEMMA PageInvInit == PageInit => PageInv
<1> SUFFICES ASSUME PageInit PROVE PageInv
  OBVIOUS
<1>1. RInv
  BY TypeInvInit, RowInvInit DEF PageInit, RInv
<1>2. \A t \in Threads : row[t].state = "unknown" /\ row[t].lastEventAt = NoTime
  BY DEF PageInit, Init, NewThreadRow, DefaultState
<1> QED
  BY <1>1, <1>2 DEF PageInit, PageInv, Backed

LEMMA PageInvNext == PageInv /\ [PageNext]_pageVars => PageInv'
<1> SUFFICES ASSUME PageInv, [PageNext]_pageVars PROVE PageInv'
  OBVIOUS
<1>1. RInv /\ [Next]_vars
  BY DEF PageInv, PageNext, pageVars, Around, ClosePage, OpenPage
<1>2. RInv'
  BY <1>1, TypeInvNext, RowInvNext DEF RInv
<1>3. \A t \in Threads : Backed(row'[t], events'[t])
  BY <1>1, <1>2, RowsAreBacked DEF PageInv
<1>4. \A t \in Threads : events[t] \subseteq events'[t]
  BY <1>1, TimelinesGrow
<1>5. ASSUME view' # NoView
      PROVE  view'.thread \in Threads /\ Backed(view'.row, events'[view'.thread])
  <2>1. CASE view' = view
    <3>1. view.thread \in Threads /\ Backed(view.row, events[view.thread])
      BY <1>5, <2>1 DEF PageInv
    <3> QED
      BY <1>4, <2>1, <3>1, BackedStays
  <2>2. ASSUME NEW t \in Threads, OpenPage(t)
        PROVE  view'.thread \in Threads /\ Backed(view'.row, events'[view'.thread])
    <3>1. view' = [thread |-> t, row |-> row[t]]
      BY <2>2 DEF OpenPage
    <3>2. Backed(row[t], events[t])
      BY DEF PageInv
    <3> QED
      BY <1>4, <3>1, <3>2, BackedStays
  <2>3. view' = view \/ \E t \in Threads : OpenPage(t)
    BY <1>5 DEF PageNext, Around, ClosePage, pageVars
  <2> QED
    BY <2>1, <2>2, <2>3
<1> QED
  BY <1>2, <1>3, <1>5 DEF PageInv, NoView

\* A page that is cut off is full, and not empty.
LEMMA CutPageIsNotEmpty ==
  ASSUME NEW table, NEW page \in ListEvents(table, PageLimit), page # table
  PROVE  page # {}
<1>1. Cardinality(page) = PageLimit
  BY DEF ListEvents
<1> QED
  BY <1>1, PageLimitAssumption, FS_EmptySet

\* A handler reads the row before the events, and the poller writes it after
\* them: whatever it writes between the two reads, the page shows no last
\* activity and no state that its events do not bear out.
THEOREM PagesAgree == PageSpec => []PageAgrees
<1>1. PageInv => PageAgrees
  <2> SUFFICES ASSUME PageInv, view # NoView,
                      NEW page \in ListEvents(events[view.thread], PageLimit)
               PROVE  /\ ShowsLastEvent(view.row, page)
                      /\ ShowsStateChange(view.row, page, view.thread)
    BY DEF PageAgrees
  <2>1. view.thread \in Threads /\ Backed(view.row, events[view.thread])
    BY DEF PageInv
  <2>2. /\ page \subseteq events[view.thread]
        /\ \A e \in page, f \in events[view.thread] \ page : f.at <= e.at
    BY DEF ListEvents
  <2>3. ShowsLastEvent(view.row, page)
    <3> SUFFICES ASSUME view.row.lastEventAt # NoTime
                 PROVE  \E e \in page : e.at >= view.row.lastEventAt
      BY DEF ShowsLastEvent
    <3>1. PICK last \in events[view.thread] : last.at = view.row.lastEventAt
      BY <2>1 DEF Backed
    <3>2. \A e \in events[view.thread] : e.at \in Nat
      BY <2>1 DEF PageInv, RInv, TypeInv, TypeOK, Event
    <3>3. CASE last \in page
      BY <3>1, <3>2, <3>3
    <3>4. CASE last \notin page
      <4>1. PICK e \in page : TRUE
        BY <3>4, CutPageIsNotEmpty
      <4>2. last.at <= e.at /\ e.at \in Nat /\ last.at \in Nat
        BY <2>2, <3>1, <3>2, <3>4, <4>1
      <4> QED
        BY <3>1, <4>1, <4>2
    <3> QED
      BY <3>3, <3>4
  <2>4. ShowsStateChange(view.row, page, view.thread)
    BY <2>1 DEF ShowsStateChange, Backed
  <2> QED
    BY <2>3, <2>4
<1>2. PageSpec => []PageInv
  BY PageInvInit, PageInvNext, PTL DEF PageSpec
<1> QED
  BY <1>1, <1>2, PTL
=============================================================================
