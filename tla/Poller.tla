------------------------------- MODULE Poller -------------------------------
(***************************************************************************)
(* The core of threadwatch: the poller goroutine (tickOnce, pollThread),   *)
(* the database it writes and the GitHub it reads, interleaved.            *)
(*                                                                         *)
(* One action per call that reads or writes something shared: each GET     *)
(* (with its retries), each database statement or transaction.  Between    *)
(* two of them GitHub may change and the process may die.  A tick starts   *)
(* whenever the poller is idle: the ticker and the refresh endpoint        *)
(* together allow any moment.                                              *)
(***************************************************************************)
EXTENDS Fetcher, Diff

CONSTANTS
  Faults,      \* the kinds of failure that may happen
  MaxFaults    \* bound: how many failures happen in a behaviour

FaultKinds == {"issueError", "listError", "listGone", "badBody", "readError",
               "saveError", "insertError", "applyError", "crash"}

ASSUME FaultsAssumption == Faults \subseteq FaultKinds /\ MaxFaults \in Nat

VARIABLES
  row, events, polls,   \* the database: a row, a set of events and ETags per thread
  pc,                   \* what the poller does next
  todo, listed,         \* tickOnce: threads still to poll; the rows ListThreads gave
  cur,                  \* pollThread: the thread, NoThread outside
  etags, seen, out,     \* its prevETags, its seen ids, the FetchResult
  unsaved,              \* endpoints whose outcome the saving loop has yet to write
  faults                \* failures so far

dbVars  == <<row, events, polls>>
memVars == <<pc, todo, listed, cur, etags, seen, out, unsaved>>
vars    == <<ghVars, dbVars, memVars, faults>>

NoThread  == 0
NoETags   == [e \in Endpoints |-> NoETag]
NoListing == [t \in Threads |-> NewThreadRow]
Phases    == {"idle", "next", "save", "apply", "boot"} \cup Endpoints

EventKinds == {"state_change"} \cup {SourceKind[s] : s \in ListEndpoints}
EventIds   == ({""} \cup States) \X Nat

Row   == [kind : Kinds, state : {"unknown"} \cup States, lastEventAt : Nat \cup {NoTime}]
Event == [kind : EventKinds, id : EventIds, at : Nat]
Result == [answered : SUBSET Endpoints, etags : [Endpoints -> Nat], kind : SnapshotKinds,
           state : {""} \cup States, updatedAt : Nat, items : SUBSET Item, err : BOOLEAN]

TypeOK ==
  /\ GitHubTypeOK
  /\ row \in [Threads -> Row]
  /\ events \in [Threads -> SUBSET Event]
  /\ polls \in [Threads -> [Endpoints -> Nat]]
  /\ pc \in Phases
  /\ todo \subseteq Threads
  /\ listed \in [Threads -> Row]
  /\ cur \in Threads \cup {NoThread}
  /\ etags \in [Endpoints -> Nat]
  /\ seen \subseteq EventKinds \X EventIds
  /\ out \in Result
  /\ unsaved \subseteq Endpoints
  /\ faults \in 0 .. MaxFaults

Init ==
  /\ GitHubInit
  /\ row    = [t \in Threads |-> NewThreadRow]   \* main has reconciled them
  /\ events = [t \in Threads |-> {}]
  /\ polls  = [t \in Threads |-> NoETags]
  /\ pc = "idle" /\ todo = {} /\ listed = NoListing
  /\ cur = NoThread /\ etags = NoETags /\ seen = {} /\ out = NewResult /\ unsaved = {}
  /\ faults = 0

Fault(kind) == kind \in Faults /\ faults < MaxFaults /\ faults' = faults + 1

-----------------------------------------------------------------------------
\* tickOnce

\* A plausible bug: threads that are closed or merged are left out.
BeginTickOpenOnly ==
  /\ pc = "idle"
  /\ \/ /\ pc' = "next" /\ listed' = row
        /\ todo' = {t \in Threads : row[t].state \notin {"closed", "merged"}}
        /\ UNCHANGED faults
     \/ /\ Fault("readError")
        /\ UNCHANGED <<pc, todo, listed>>
  /\ UNCHANGED <<ghVars, dbVars, cur, etags, seen, out, unsaved>>

BeginTick ==
  /\ pc = "idle"
  /\ \/ /\ pc' = "next" /\ todo' = Threads /\ listed' = row
        /\ UNCHANGED faults
     \/ /\ Fault("readError")      \* ListThreads fails: the tick is over
        /\ UNCHANGED <<pc, todo, listed>>
  /\ UNCHANGED <<ghVars, dbVars, cur, etags, seen, out, unsaved>>

EndTick ==
  /\ pc = "next" /\ todo = {}
  /\ pc' = "idle" /\ listed' = NoListing
  /\ UNCHANGED <<ghVars, dbVars, todo, cur, etags, seen, out, unsaved, faults>>

-----------------------------------------------------------------------------
\* pollThread

\* A plausible bug: tickOnce returns at the first thread that fails.
StartPollGivesUp(t) ==
  /\ pc = "next" /\ t \in todo /\ \A u \in todo : t <= u
  /\ \/ /\ pc' = "issue" /\ cur' = t /\ todo' = todo \ {t}
        /\ etags' = LoadETags(polls[t]) /\ seen' = SeenIDs(events[t])
        /\ UNCHANGED <<listed, faults>>
     \/ /\ Fault("readError")
        /\ pc' = "idle" /\ todo' = {} /\ listed' = NoListing
        /\ UNCHANGED <<cur, etags, seen>>
  /\ UNCHANGED <<ghVars, dbVars, out, unsaved>>

\* A plausible bug: a thread whose read failed is tried again.
StartPollRetries(t) ==
  /\ pc = "next" /\ t \in todo /\ \A u \in todo : t <= u
  /\ \/ /\ pc' = "issue" /\ cur' = t /\ todo' = todo \ {t}
        /\ etags' = LoadETags(polls[t]) /\ seen' = SeenIDs(events[t])
        /\ UNCHANGED faults
     \/ /\ Fault("readError")
        /\ UNCHANGED <<pc, todo, cur, etags, seen>>
  /\ UNCHANGED <<ghVars, dbVars, listed, out, unsaved>>

\* The next thread in id order: LoadETags and SeenIDs, either of which may
\* fail and so skip the thread.  The poller is the only writer, so the two
\* reads are one step.
StartPoll(t) ==
  /\ pc = "next" /\ t \in todo /\ \A u \in todo : t <= u
  /\ todo' = todo \ {t}
  /\ \/ /\ pc' = "issue" /\ cur' = t
        /\ etags' = LoadETags(polls[t]) /\ seen' = SeenIDs(events[t])
        /\ UNCHANGED faults
     \/ /\ Fault("readError")
        /\ UNCHANGED <<pc, cur, etags, seen>>
  /\ UNCHANGED <<ghVars, dbVars, listed, out, unsaved>>

\* How the conditional GET on endpoint e can come back.
Answer(e, status) ==
  \/ /\ status = "unchanged" /\ etags[e] = ver[cur][e]
     /\ UNCHANGED faults
  \/ /\ status = "ok" /\ etags[e] # ver[cur][e]
     /\ UNCHANGED faults
  \/ /\ status = "garbled" /\ etags[e] # ver[cur][e]
     /\ Fault("badBody")
  \/ /\ status = "missing" /\ e \in ListEndpoints
     /\ Fault("listGone")
  \/ /\ status = "failed"
     /\ Fault(IF e = "issue" THEN "issueError" ELSE "listError")

\* FetchThread goes on to the next endpoint, or is done: then the loop that
\* saves the outcomes starts.
Continue(e) ==
  /\ pc' = NextCall(e, out')
  /\ unsaved' = IF pc' = "save" THEN out'.answered ELSE {}
  /\ UNCHANGED <<ghVars, dbVars, todo, listed, cur, etags, seen>>

FetchIssue ==
  /\ pc = "issue"
  /\ \E status \in Statuses :
       /\ Answer("issue", status)
       /\ out' = IssueInto(out, etags, status, ver[cur]["issue"], Kind[cur], issue[cur])
  /\ Continue("issue")

FetchList(e) ==
  /\ pc = e
  /\ \E status \in Statuses :
       /\ Answer(e, status)
       /\ out' = ListInto(out, etags, e, status, ver[cur][e], Page(items[cur][e]))
  /\ Continue(e)

\* One iteration of the loop over EndpointStatuses, a map: any order.  A
\* failure is logged and the loop goes on.
Save(e) ==
  /\ pc = "save" /\ e \in unsaved
  /\ unsaved' = unsaved \ {e}
  /\ \/ /\ polls' = [polls EXCEPT ![cur] = SavePollOutcome(@, e, out.etags[e])]
        /\ UNCHANGED faults
     \/ /\ Fault("saveError")
        /\ UNCHANGED polls
  /\ UNCHANGED <<ghVars, row, events, pc, todo, listed, cur, etags, seen, out>>

\* pollThread returns, from wherever it is.
Return ==
  /\ pc' = "next"
  /\ cur' = NoThread /\ etags' = NoETags /\ seen' = {} /\ out' = NewResult
  /\ UNCHANGED <<todo, listed, unsaved>>

\* FetchThread had returned an error: what it did fetch is dropped.
Abort ==
  /\ pc = "save" /\ unsaved = {} /\ out.err
  /\ Return
  /\ UNCHANGED <<ghVars, dbVars, faults>>

\* The Existing view Diff gets: the state and time as ListThreads gave them
\* when the tick began, the ids as they were when the poll began.
Existing == [state |-> listed[cur].state, lastEventAt |-> listed[cur].lastEventAt, seen |-> seen]

\* A plausible bug: the poll goes on to the threads row after a failed
\* insert.
InsertAndGoOn ==
  /\ pc = "save" /\ unsaved = {} /\ ~ out.err
  /\ \/ /\ events' = [events EXCEPT ![cur] = InsertEventsIfNew(@, NewEvents(Existing, out))]
        /\ UNCHANGED faults
     \/ /\ Fault("insertError")
        /\ UNCHANGED events
  /\ pc' = "apply"
  /\ UNCHANGED <<ghVars, row, polls, todo, listed, cur, etags, seen, out, unsaved>>

\* Diff, then one transaction with the new events; nothing is written, and
\* nothing can fail, when there are none.
Insert ==
  /\ pc = "save" /\ unsaved = {} /\ ~ out.err
  /\ \/ /\ events' = [events EXCEPT ![cur] = InsertEventsIfNew(@, NewEvents(Existing, out))]
        /\ pc' = "apply"
        /\ UNCHANGED <<todo, listed, cur, etags, seen, out, unsaved, faults>>
     \/ /\ NewEvents(Existing, out) # {}
        /\ Fault("insertError")
        /\ Return
        /\ UNCHANGED events
  /\ UNCHANGED <<ghVars, row, polls>>

\* ApplyThreadUpdate ends the poll, whether it succeeds or not.
Apply ==
  /\ pc = "apply"
  /\ \/ /\ row' = [row EXCEPT ![cur] = ApplyThreadUpdate(@, Update(Existing, out))]
        /\ UNCHANGED faults
     \/ /\ Fault("applyError")
        /\ UNCHANGED row
  /\ Return
  /\ UNCHANGED <<ghVars, events, polls>>

-----------------------------------------------------------------------------
\* The process

\* The process dies, or is told to stop: every call after the context is
\* canceled fails, so the database stays as it is and memory is lost.
Crash ==
  /\ pc # "boot"
  /\ Fault("crash")
  /\ pc' = "boot" /\ todo' = {} /\ listed' = NoListing
  /\ cur' = NoThread /\ etags' = NoETags /\ seen' = {} /\ out' = NewResult /\ unsaved' = {}
  /\ UNCHANGED <<ghVars, dbVars>>

\* The next start: main upserts every declared thread, by name only.
Boot ==
  /\ pc = "boot" /\ pc' = "idle"
  /\ row' = [t \in Threads |-> UpsertThread(row[t], "", "")]
  /\ UNCHANGED <<ghVars, events, polls, todo, listed, cur, etags, seen, out, unsaved, faults>>

-----------------------------------------------------------------------------
PollerStep ==
  \/ BeginTick \/ EndTick
  \/ \E t \in Threads : StartPoll(t)
  \/ FetchIssue
  \/ \E e \in ListEndpoints : FetchList(e)
  \/ \E e \in Endpoints : Save(e)
  \/ Abort \/ Insert \/ Apply
  \/ Boot

Activity == GitHubNext /\ UNCHANGED <<dbVars, memVars, faults>>

Next == PollerStep \/ Crash \/ Activity

Spec == Init /\ [][Next]_vars

\* The goroutine is scheduled, its ticker fires, its calls come back (they
\* carry time-outs) and a dead process is restarted.  Nothing is assumed of
\* GitHub's activity or of crashes.
FairSpec == Spec /\ WF_vars(PollerStep)
=============================================================================
