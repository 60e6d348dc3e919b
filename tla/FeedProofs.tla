----------------------------- MODULE FeedProofs -----------------------------
(***************************************************************************)
(* The poller implements Feed, for every set of failures: proof of the     *)
(* refinement that FeedOf in PollerProps states; and the keys by which a   *)
(* timeline is deduplicated tell all of it apart.                          *)
(***************************************************************************)
EXTENDS RowProofs

\* PostedInv with the types it relies on.
FInv == TypeInv /\ PostedInv

\* A step of GitHub adds one item to one stream; it is noise only if it is
\* an issue event.
LEMMA ActivityAdds ==
  ASSUME Activity
  PROVE  \E t \in Threads, s \in ListEndpoints : \E i :
           /\ items' = [items EXCEPT ![t][s] = items[t][s] \cup {i}]
           /\ i.event = "subscribed" => i.kind = "issue_event"
<1>1. PICK t \in Threads :
        \/ \E s \in ListEndpoints : Post(t, s)
        \/ PostNoise(t)
        \/ ChangeState(t)
  BY DEF Activity, GitHubNext
<1>2. "issue_events" \in ListEndpoints /\ SourceKind["issue_events"] = "issue_event"
  BY DEF ListEndpoints, Endpoints, SourceKind
<1>3. ASSUME NEW s \in ListEndpoints, NEW ev, NEW at, NEW touched, Append(t, s, ev, at, touched),
             ev = "subscribed" => s = "issue_events"
      PROVE  \E i : /\ items' = [items EXCEPT ![t][s] = items[t][s] \cup {i}]
                    /\ i.event = "subscribed" => i.kind = "issue_event"
  <2> DEFINE i == [kind |-> SourceKind[s], id |-> <<"", ver[t][s]>>, at |-> at, event |-> ev]
  <2>1. items' = [items EXCEPT ![t][s] = items[t][s] \cup {i}]
    BY <1>3 DEF Append
  <2>2. i.event = "subscribed" => i.kind = "issue_event"
    BY <1>2, <1>3
  <2> HIDE DEF i
  <2> QED
    BY <2>1, <2>2
<1>4. CASE \E s \in ListEndpoints : Post(t, s)
  <2>0. PICK s \in ListEndpoints : Post(t, s)
    BY <1>4
  <2>1. PICK at : Append(t, s, IF s = "issue_events" THEN "labeled" ELSE "", at, {s, "issue"})
    BY <2>0 DEF Post
  <2>2. (IF s = "issue_events" THEN "labeled" ELSE "") # "subscribed"
    OBVIOUS
  <2>3. \E i : /\ items' = [items EXCEPT ![t][s] = items[t][s] \cup {i}]
               /\ i.event = "subscribed" => i.kind = "issue_event"
    BY <1>3, <2>1, <2>2
  <2> QED
    BY <2>3
<1>5. CASE PostNoise(t)
  BY <1>2, <1>3, <1>5 DEF PostNoise
<1>6. CASE ChangeState(t)
  <2>1. PICK change \in Changes : Append(t, "issue_events", change.event, now', {"issue_events", "issue"})
    BY <1>6 DEF ChangeState
  <2> QED
    BY <1>2, <1>3, <2>1
<1> QED
  BY <1>1, <1>4, <1>5, <1>6

\* No item ever disappears.
LEMMA ItemsGrow ==
  ASSUME TypeOK, Activity, NEW t \in Threads, NEW s \in ListEndpoints
  PROVE  items[t][s] \subseteq items'[t][s]
<1>1. PICK u \in Threads, r \in ListEndpoints : \E i :
        items' = [items EXCEPT ![u][r] = items[u][r] \cup {i}]
  BY ActivityAdds
<1>2. items \in [Threads -> [ListEndpoints -> SUBSET Item]]
  BY DEF TypeOK, GitHubTypeOK
<1> QED
  BY <1>1, <1>2

LEMMA PostedInit == Init => PostedInv
<1> SUFFICES ASSUME Init PROVE PostedInv
  OBVIOUS
<1>1. cur \notin Threads /\ \A t \in Threads : \A s \in ListEndpoints : items[t][s] = {}
  BY ThreadsAssumption DEF Init, GitHubInit, NoThread
<1> QED
  BY <1>1 DEF PostedInv

\* What the fetch steps put into the snapshot is the page they were given.
LEMMA FetchPosted ==
  ASSUME FInv, NEW e \in Endpoints, pc = e, IF e = "issue" THEN FetchIssue ELSE FetchList(e)
  PROVE  PostedInv'
<1> USE DEF FInv
<1>1. TypeOK /\ cur \in Threads /\ out \in Result /\ etags \in [Endpoints -> Nat]
      /\ ver[cur][e] \in Nat \ {NoETag} /\ Kind[cur] \in {"issue", "pr"}
      /\ issue[cur] \in [state : States, updatedAt : Nat]
      /\ out.items \subseteq UNION {items[cur][s] : s \in ListEndpoints}
  BY KindAssumption DEF TypeInv, TypeOK, GitHubTypeOK, ControlInv, Fetching, Polling, NoThread, PostedInv
<1>2. UNCHANGED <<items, cur>>
  BY DEF FetchIssue, FetchList, Continue, ghVars
<1>3. out'.items \subseteq UNION {items[cur][s] : s \in ListEndpoints}
  <2>1. CASE e = "issue"
    <3>1. PICK status \in Statuses :
            out' = IssueInto(out, etags, status, ver[cur]["issue"], Kind[cur], issue[cur])
      BY <2>1 DEF FetchIssue
    <3>2. out'.items = out.items
      BY <1>1, <2>1, <3>1, IssueIntoFields
    <3> QED
      BY <1>1, <3>2
  <2>2. CASE e # "issue"
    <3>1. PICK status \in Statuses :
            out' = ListInto(out, etags, e, status, ver[cur][e], Page(items[cur][e]))
      BY <2>2 DEF FetchList
    <3>2. e \in ListEndpoints /\ Page(items[cur][e]) \subseteq items[cur][e]
      BY <2>2, PageSubset DEF ListEndpoints
    <3>3. Page(items[cur][e]) \in SUBSET Item
      BY <1>1, <3>2 DEF TypeOK, GitHubTypeOK
    <3>4. out'.items = out.items \/ out'.items = out.items \cup Page(items[cur][e])
      BY <1>1, <3>1, <3>3, ListIntoFields
    <3> QED
      BY <1>1, <3>2, <3>4
  <2> QED
    BY <2>1, <2>2
<1> QED
  BY <1>2, <1>3 DEF PostedInv

LEMMA PostedNext == FInv /\ [Next]_vars => PostedInv'
<1> SUFFICES ASSUME FInv, [Next]_vars PROVE PostedInv'
  OBVIOUS
<1> USE DEF FInv
<1>1. CASE FetchIssue
  <2>1. pc = "issue" /\ "issue" \in Endpoints
    BY <1>1 DEF FetchIssue, Endpoints
  <2> QED
    BY <1>1, <2>1, FetchPosted
<1>2. ASSUME NEW e \in ListEndpoints, FetchList(e) PROVE PostedInv'
  <2>1. pc = e /\ e \in Endpoints /\ e # "issue"
    BY <1>2 DEF FetchList, ListEndpoints
  <2> QED
    BY <1>2, <2>1, FetchPosted
<1>3. CASE Activity
  <2>0. PICK u \in Threads, r \in ListEndpoints : \E i :
          /\ items' = [items EXCEPT ![u][r] = items[u][r] \cup {i}]
          /\ i.event = "subscribed" => i.kind = "issue_event"
    BY <1>3, ActivityAdds
  <2>1. PICK i :
          /\ items' = [items EXCEPT ![u][r] = items[u][r] \cup {i}]
          /\ i.event = "subscribed" => i.kind = "issue_event"
    BY <2>0
  <2>2. items \in [Threads -> [ListEndpoints -> SUBSET Item]] /\ UNCHANGED <<cur, out>>
    BY <1>3 DEF TypeInv, TypeOK, GitHubTypeOK, Activity, memVars
  <2>3. \A t \in Threads : \A s \in ListEndpoints : \A j \in items'[t][s] :
          j \in items[t][s] \/ j = i
    BY <2>1, <2>2
  <2>4. \A t \in Threads : \A s \in ListEndpoints : items[t][s] \subseteq items'[t][s]
    BY <1>3, ItemsGrow DEF TypeInv
  <2>5. cur \in Threads => out.items \subseteq UNION {items'[cur][s] : s \in ListEndpoints}
    <3> SUFFICES ASSUME cur \in Threads, NEW j \in out.items
                 PROVE  \E s \in ListEndpoints : j \in items'[cur][s]
      OBVIOUS
    <3>1. PICK s \in ListEndpoints : j \in items[cur][s]
      BY DEF PostedInv
    <3> QED
      BY <2>4, <3>1
  <2>6. \A t \in Threads : \A s \in ListEndpoints : \A j \in items'[t][s] :
          j.event = "subscribed" => j.kind = "issue_event"
    BY <2>1, <2>3 DEF PostedInv
  <2> QED
    BY <2>2, <2>5, <2>6 DEF PostedInv
\* Every other step keeps the snapshot or ends the poll.
<1>4. ASSUME UNCHANGED items, UNCHANGED <<cur, out>> \/ cur' = NoThread
      PROVE  PostedInv'
  <2>1. NoThread \notin Threads
    BY ThreadsAssumption DEF NoThread
  <2> QED
    BY <1>4, <2>1 DEF PostedInv
<1>5. CASE BeginTick \/ EndTick \/ Abort \/ Insert \/ Apply \/ Boot
  BY <1>4, <1>5 DEF BeginTick, EndTick, Abort, Insert, Apply, Boot, Return, ghVars
<1>6. ASSUME NEW t \in Threads, StartPoll(t) PROVE PostedInv'
  <2>1. pc = "next" /\ UNCHANGED <<items, out>>
    BY <1>6 DEF StartPoll, ghVars
  <2>2. out' = NewResult
    BY <2>1 DEF TypeInv, ControlInv, Polling, Fetching, Endpoints
  <2>3. out'.items = {}
    BY <2>2 DEF NewResult
  <2> QED
    BY <2>1, <2>3 DEF PostedInv
<1>7. ASSUME NEW e \in Endpoints, Save(e) PROVE PostedInv'
  BY <1>4, <1>7 DEF Save, ghVars
<1>8. CASE Crash \/ UNCHANGED vars
  BY <1>4, <1>8 DEF Crash, vars, ghVars, memVars
<1> QED
  BY <1>1, <1>2, <1>3, <1>5, <1>6, <1>7, <1>8 DEF Next, PollerStep

-----------------------------------------------------------------------------
\* The refinement mapping of FeedOf.
Posted   == [t \in Threads |-> PostedItems(t)]
Timeline == [t \in Threads |-> {e \in events[t] : e.kind # "state_change"}]

LEMMA RefineInit == Init => FeedOf!Init
<1> SUFFICES ASSUME Init PROVE FeedOf!Init
  OBVIOUS
<1>1. \A t \in Threads : events[t] = {} /\ \A s \in ListEndpoints : items[t][s] = {}
  BY DEF Init, GitHubInit
<1>2. \A t \in Threads : PostedItems(t) = {}
  BY <1>1 DEF PostedItems
<1> QED
  BY <1>1, <1>2 DEF FeedOf!Init

LEMMA RefineActivity ==
  ASSUME FInv, Activity
  PROVE  FeedOf!Post
<1>1. events' = events
  BY DEF Activity, dbVars
<1>2. \A t \in Threads : \A s \in ListEndpoints : items[t][s] \subseteq items'[t][s]
  BY ItemsGrow DEF FInv, TypeInv
<1>3. \A t \in Threads : PostedItems(t) \subseteq PostedItems(t)'
  BY <1>2 DEF PostedItems
<1> QED
  BY <1>1, <1>3 DEF FeedOf!Post

\* What an insert adds to a timeline, the poller's own events apart, was
\* posted on that thread.
LEMMA InsertedWasPosted ==
  ASSUME FInv, cur \in Threads,
         NEW e \in InsertEventsIfNew(events[cur], NewEvents(Existing, out)),
         e \notin events[cur], e.kind # "state_change"
  PROVE  e \in PostedItems(cur)
<1>1. e \in Surfaced(out.items) \cup StateChange(Existing, out)
  BY DEF InsertEventsIfNew, NewEvents
<1>2. e \notin StateChange(Existing, out)
  <2> SUFFICES ASSUME e \in StateChange(Existing, out) PROVE FALSE
    OBVIOUS
  <2>1. e = [kind |-> "state_change", id |-> <<out.state, out.updatedAt>>, at |-> out.updatedAt]
    BY DEF StateChange
  <2>2. e.kind = "state_change"
    BY <2>1
  <2> QED
    BY <2>2
<1>3. PICK i \in out.items :
        /\ e = [kind |-> i.kind, id |-> i.id, at |-> i.at]
        /\ i.kind = "issue_event" => i.event \in InterestingIssueEvents
  BY <1>1, <1>2 DEF Surfaced
<1>4. PICK s \in ListEndpoints : i \in items[cur][s]
  BY DEF FInv, PostedInv
<1>5. i.event # "subscribed"
  BY <1>3, <1>4 DEF FInv, PostedInv, InterestingIssueEvents
<1> QED
  BY <1>3, <1>4, <1>5 DEF PostedItems

LEMMA RefineInsert ==
  ASSUME FInv, Insert
  PROVE  FeedOf!Next \/ UNCHANGED FeedOf!feedVars
<1>1. cur \in Threads /\ items' = items /\ events \in [Threads -> SUBSET Event]
  BY DEF Insert, FInv, TypeInv, TypeOK, ControlInv, Polling, NoThread, ghVars
<1>2. CASE events' = [events EXCEPT ![cur] = InsertEventsIfNew(events[cur], NewEvents(Existing, out))]
  <2> DEFINE new == {e \in InsertEventsIfNew(events[cur], NewEvents(Existing, out)) :
                       e \notin events[cur] /\ e.kind # "state_change"}
  <2>1. new \in SUBSET PostedItems(cur)
    BY <1>1, InsertedWasPosted
  <2>2. /\ events'[cur] = InsertEventsIfNew(events[cur], NewEvents(Existing, out))
        /\ \A t \in Threads : t # cur => events'[t] = events[t]
    BY <1>1, <1>2
  <2>3. events[cur] \subseteq events'[cur]
    BY <2>2 DEF InsertEventsIfNew
  <2>4. {e \in events'[cur] : e.kind # "state_change"} =
          {e \in events[cur] : e.kind # "state_change"} \cup new
    BY <2>2, <2>3
  <2> HIDE DEF new
  <2>5. Timeline' = [Timeline EXCEPT ![cur] = Timeline[cur] \cup new]
    BY <1>1, <2>2, <2>4 DEF Timeline
  <2>6. Posted' = Posted /\ new \in SUBSET Posted[cur]
    BY <1>1, <2>1 DEF Posted, PostedItems
  <2>7. PICK t \in Threads : t = cur
    BY <1>1
  <2>8. FeedOf!Record(t)
    BY <2>5, <2>6, <2>7 DEF FeedOf!Record, Timeline, Posted
  <2> QED
    BY <2>8 DEF FeedOf!Next
<1>3. CASE events' = events
  BY <1>1, <1>3 DEF FeedOf!feedVars, PostedItems
<1> QED
  BY <1>2, <1>3 DEF Insert

\* Every other step of the poller is invisible.
LEMMA OtherKeeps ==
  ASSUME [Next]_vars, ~ Activity, ~ Insert
  PROVE  UNCHANGED <<items, events>>
<1>1. CASE Boot \/ Crash \/ UNCHANGED vars
  BY <1>1 DEF Boot, Crash, dbVars, ghVars, vars
<1>2. CASE BeginTick \/ EndTick \/ Abort \/ Apply
  BY <1>2 DEF BeginTick, EndTick, Abort, Apply, dbVars, ghVars
<1>3. CASE FetchIssue \/ \E e \in ListEndpoints : FetchList(e)
  BY <1>3 DEF FetchIssue, FetchList, Continue, dbVars, ghVars
<1>4. CASE (\E t \in Threads : StartPoll(t)) \/ \E e \in Endpoints : Save(e)
  BY <1>4 DEF StartPoll, Save, dbVars, ghVars
<1> QED
  BY <1>1, <1>2, <1>3, <1>4 DEF Next, PollerStep

LEMMA RefineOther ==
  ASSUME [Next]_vars, ~ Activity, ~ Insert
  PROVE  UNCHANGED FeedOf!feedVars
BY OtherKeeps DEF FeedOf!feedVars, PostedItems

\* For every set of threads and whatever fails, a timeline only grows, in
\* batches and one thread at a time, and holds nothing, besides the state
\* changes, that GitHub did not post on that very thread.
THEOREM PollerImplementsFeed == Spec => FeedSpec
<1>1. Init => FInv
  BY TypeInvInit, PostedInit DEF FInv
<1>2. FInv /\ [Next]_vars => FInv'
  BY TypeInvNext, PostedNext DEF FInv
<1>3. FInv /\ [Next]_vars => [FeedOf!Next]_(FeedOf!feedVars)
  <2> SUFFICES ASSUME FInv, [Next]_vars
               PROVE  FeedOf!Next \/ UNCHANGED FeedOf!feedVars
    OBVIOUS
  <2>1. CASE Activity
    BY <2>1, RefineActivity DEF FeedOf!Next
  <2>2. CASE Insert
    BY <2>2, RefineInsert
  <2> QED
    BY <2>1, <2>2, RefineOther
<1> QED
  BY <1>1, <1>2, <1>3, RefineInit, PTL DEF Spec, FeedSpec, FeedOf!Spec

-----------------------------------------------------------------------------
(* The keys of the events table *)

KInv == RInv /\ PostedInv /\ ItemInv /\ TimelineInv

\* A step of GitHub takes nothing back.
LEMMA ActivityKeepsPosts ==
  ASSUME TypeOK, Activity, NEW t \in Threads
  PROVE  PostedItems(t) \subseteq PostedItems(t)'
<1>1. \A s \in ListEndpoints : items[t][s] \subseteq items'[t][s]
  BY ItemsGrow
<1> QED
  BY <1>1 DEF PostedItems

LEMMA TimelineInit == Init => TimelineInv
BY DEF Init, TimelineInv

LEMMA TimelineNext == FInv /\ TimelineInv /\ [Next]_vars => TimelineInv'
<1> SUFFICES ASSUME FInv, TimelineInv, [Next]_vars,
                    NEW t \in Threads, NEW e \in events'[t], e.kind # "state_change"
             PROVE  e \in PostedItems(t)'
  BY DEF TimelineInv
<1>1. CASE Activity
  <2>1. TypeOK /\ events' = events
    BY <1>1 DEF FInv, TypeInv, Activity, dbVars
  <2>2. e \in PostedItems(t)
    BY <2>1 DEF TimelineInv
  <2>3. PostedItems(t) \subseteq PostedItems(t)'
    BY <1>1, <2>1, ActivityKeepsPosts
  <2> QED
    BY <2>2, <2>3
<1>2. CASE Insert
  <2>1. cur \in Threads /\ items' = items /\ events \in [Threads -> SUBSET Event]
    BY <1>2 DEF Insert, FInv, TypeInv, TypeOK, ControlInv, Polling, NoThread, ghVars
  <2>2. PostedItems(t)' = PostedItems(t)
    BY <2>1 DEF PostedItems
  <2>3. CASE e \in events[t]
    BY <2>2, <2>3 DEF TimelineInv
  <2>4. CASE e \notin events[t]
    <3>1. t = cur /\ e \in InsertEventsIfNew(events[cur], NewEvents(Existing, out))
      BY <1>2, <2>1, <2>4 DEF Insert
    <3>2. e \in PostedItems(cur)
      BY <2>1, <2>4, <3>1, InsertedWasPosted
    <3> QED
      BY <2>2, <3>1, <3>2
  <2> QED
    BY <2>3, <2>4
<1>3. CASE ~ Activity /\ ~ Insert
  <2>1. UNCHANGED <<items, events>>
    BY <1>3, OtherKeeps
  <2>2. PostedItems(t)' = PostedItems(t)
    BY <2>1 DEF PostedItems
  <2> QED
    BY <2>1, <2>2 DEF TimelineInv
<1> QED
  BY <1>1, <1>2, <1>3

\* The streams are filed under kinds of their own.
LEMMA KindsDiffer ==
  ASSUME NEW s \in ListEndpoints, NEW r \in ListEndpoints, SourceKind[s] = SourceKind[r]
  PROVE  s = r
BY DEF ListEndpoints, Endpoints, SourceKind

\* What is posted is told apart by stream and by the id within the stream.
LEMMA PostsDiffer ==
  ASSUME TypeOK, ItemInv, NEW t \in Threads,
         NEW e \in PostedItems(t), NEW f \in PostedItems(t), e.kind = f.kind, e.id = f.id
  PROVE  e = f
<1>1. PICK s \in ListEndpoints : \E i \in items[t][s] : e = [kind |-> i.kind, id |-> i.id, at |-> i.at]
  BY DEF PostedItems
<1>2. PICK i \in items[t][s] : e = [kind |-> i.kind, id |-> i.id, at |-> i.at]
  BY <1>1
<1>3. PICK r \in ListEndpoints : \E j \in items[t][r] : f = [kind |-> j.kind, id |-> j.id, at |-> j.at]
  BY DEF PostedItems
<1>4. PICK j \in items[t][r] : f = [kind |-> j.kind, id |-> j.id, at |-> j.at]
  BY <1>3
<1>5. i.kind = SourceKind[s] /\ j.kind = SourceKind[r] /\ i.kind = j.kind /\ i.id = j.id
  BY <1>2, <1>4 DEF ItemInv
<1>6. s = r
  BY <1>5, KindsDiffer
<1>7. i = j
  BY <1>5, <1>6 DEF ItemInv
<1> QED
  BY <1>2, <1>4, <1>7

\* No post is filed as a state change.
LEMMA PostKind ==
  ASSUME ItemInv, NEW t \in Threads, NEW e \in PostedItems(t)
  PROVE  e.kind # "state_change"
<1>1. PICK s \in ListEndpoints : \E i \in items[t][s] : e = [kind |-> i.kind, id |-> i.id, at |-> i.at]
  BY DEF PostedItems
<1>2. PICK i \in items[t][s] : e = [kind |-> i.kind, id |-> i.id, at |-> i.at]
  BY <1>1
<1>3. e.kind = SourceKind[s]
  BY <1>2 DEF ItemInv
<1> QED
  BY <1>3 DEF ListEndpoints, Endpoints, SourceKind

LEMMA KeysDiffer == KInv => KeysTellApart
<1> SUFFICES ASSUME KInv, NEW t \in Threads,
                    NEW e \in PostedItems(t) \cup events[t],
                    NEW f \in PostedItems(t) \cup events[t], Key(e) = Key(f)
             PROVE  e = f
  BY DEF KeysTellApart
<1>1. e.kind = f.kind /\ e.id = f.id
  BY DEF Key
<1>2. TypeOK /\ events[t] \subseteq Event
  BY DEF KInv, RInv, TypeInv, TypeOK
<1>3. \A g \in PostedItems(t) \cup events[t] : g.kind # "state_change" => g \in PostedItems(t)
  BY DEF KInv, TimelineInv
<1>4. \A g \in PostedItems(t) \cup events[t] : g.kind = "state_change" => g \in events[t] /\ g.at = g.id[2]
  BY PostKind DEF KInv, RInv, RowInv, StateChangeInv
<1>5. CASE e.kind = "state_change"
  <2>1. e \in Event /\ f \in Event /\ e.at = f.at
    BY <1>1, <1>2, <1>4, <1>5
  <2> QED
    BY <1>1, <2>1 DEF Event
<1>6. CASE e.kind # "state_change"
  <2>1. e \in PostedItems(t) /\ f \in PostedItems(t)
    BY <1>1, <1>3, <1>6
  <2> QED
    BY <1>1, <1>2, <2>1, PostsDiffer DEF KInv
<1> QED
  BY <1>5, <1>6

\* Whatever fails, INSERT OR IGNORE and the keys Diff has seen never take
\* one event for another: ids need to be unique within a stream only, and
\* an event the poller makes up is told by its state and its time.
THEOREM KeysAreUnique == Spec => []KeysTellApart
<1>1. Init => KInv
  BY TypeInvInit, RowInvInit, PostedInit, ItemInvInit, TimelineInit DEF KInv, RInv
<1>2. KInv /\ [Next]_vars => KInv'
  BY TypeInvNext, RowInvNext, PostedNext, ItemInvNext, TimelineNext DEF KInv, RInv, FInv
<1> QED
  BY <1>1, <1>2, KeysDiffer, PTL DEF Spec
=============================================================================
