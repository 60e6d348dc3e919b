----------------------------- MODULE PollerProps -----------------------------
(***************************************************************************)
(* What the poller must get right, stated over the variables of Poller.    *)
(***************************************************************************)
EXTENDS Poller

-----------------------------------------------------------------------------
\* No event is lost

Recorded(t) == {Key(e) : e \in events[t]}
Keys(S) == {Key(e) : e \in Surfaced(S)}
Wanted(t, s) == Keys(Page(items[t][s]))

\* The poll under way has it and is going to insert it.
InFlight(t) == IF cur = t /\ pc = "save" /\ ~ out.err THEN Keys(out.items) ELSE {}

\* The next poll of t will be sent the body of s: its ETag is out of date,
\* and for a stream of pull requests so is the issue's, without whose body
\* the poller does not ask.
WillServe(t, s) ==
  /\ polls[t][s] # ver[t][s]
  /\ s \in PROnly => polls[t]["issue"] # ver[t]["issue"]

\* The failures after which the poller still gets everything: those that do
\* not discard a body whose ETag is on record.
SafeFaults == {"issueError", "readError", "saveError", "applyError"}

\* Nothing of stream s is missed: it will be served in full to the next poll,
\* or it is in the events table or about to be.
Kept(t, s) ==
  \/ WillServe(t, s)
  \/ \A k \in Wanted(t, s) : k \in Recorded(t) \cup InFlight(t)

\* A 304 is only ever answered for what is recorded, whatever can be seen on
\* GitHub.  The ETags are saved before the events and separately for each
\* endpoint, so this rests on the order of all the poll's steps.
NothingStranded == \A t \in Threads : \A s \in ListEndpoints : Kept(t, s)

\* A 404 of a stream of pull requests was squashed: nothing was fetched, and
\* no ETag of the stream's own is kept back.
Squashed(s) == s \in PROnly \cap out.answered /\ out.etags[s] = NoETag

\* With failures of every kind, a stream is missed only by the poll of its
\* own thread, at one of three steps of it: the process dies before the
\* insert, or the insert fails; an ETag is saved although FetchThread failed
\* (another GET, or a body that does not decode); or the issue's is saved
\* although the stream was answered 404.  A change on GitHub, an abort, a
\* restart, the next poll, or a poll of another thread never misses one.
OnlyFailuresStrand ==
  [][\A t \in Threads : \A s \in ListEndpoints :
       \/ Kept(t, s)' \/ ~ Kept(t, s)
       \/ /\ cur = t /\ pc = "save"
          /\ \/ pc' = "boot"
             \/ unsaved = {} /\ faults' # faults
             \/ polls' # polls /\ (out.err \/ Squashed(s))]_vars

\* With the failures of SafeFaults only, everything that is posted gets
\* into the events table, whatever happens on GitHub meanwhile.
PostedIsRecorded ==
  \A t \in Threads : \A s \in ListEndpoints : \A n \in 1 .. (MaxVersion - 1) :
    (<<SourceKind[s], <<"", n>> >> \in Wanted(t, s))
      ~> (<<SourceKind[s], <<"", n>> >> \in Recorded(t))

-----------------------------------------------------------------------------
\* The threads row

\* The row of t has GitHub's state, or is about to, or the next poll will be
\* sent the issue.
Current(t) ==
  \/ row[t].state = issue[t].state
  \/ polls[t]["issue"] # ver[t]["issue"]
  \/ /\ cur = t /\ out.state = issue[t].state
     /\ pc = "apply" \/ (pc = "save" /\ ~ out.err)

\* A state is applied to the row once; a 304 then keeps it.
StateCurrent == \A t \in Threads : Current(t)

\* With failures of every kind, a row is left with a state that the next 304
\* will confirm although GitHub has another one only by a poll of its own
\* thread that had the new state and lost it: the process dies, or the
\* insert or the update fails, or the issue's ETag is saved although
\* FetchThread failed.
OnlyFailuresStale ==
  [][\A t \in Threads :
       \/ Current(t)' \/ ~ Current(t)
       \/ /\ cur = t /\ pc \in {"save", "apply"}
          /\ \/ pc' = "boot"
             \/ unsaved = {} /\ faults' # faults
             \/ pc = "save" /\ out.err /\ polls' # polls]_vars

\* The overview page shows GitHub's state again and again, however often the
\* thread is closed and reopened.
DisplayCatchesUp == \A t \in Threads : []<>(row[t].state = issue[t].state)

\* The time shown as a thread's last activity is the time of an event on its
\* timeline, after any failure: ApplyThreadUpdate comes after the insert.
LastEventRecorded ==
  \A t \in Threads :
    row[t].lastEventAt = NoTime \/ \E e \in events[t] : e.at = row[t].lastEventAt

\* No event on the timeline is later than the time shown, except between the
\* insert and the update.  Each poll only looks at its new events and at the
\* time ListThreads gave at the start of the tick.
LastEventCovers ==
  \A t \in Threads : \A e \in events[t] :
    e.at <= row[t].lastEventAt \/ (cur = t /\ pc = "apply")

\* Neither a 304, which leaves the snapshot's fields empty, nor a restart,
\* which upserts the thread by name only, takes back what a row says: its
\* kind stays, its state does not become unknown again, and the time of its
\* last event does not go back.
NoDowngrade ==
  [][\A t \in Threads :
       /\ row[t].kind # "unknown" => row'[t].kind = row[t].kind
       /\ row[t].state # "unknown" => row'[t].state # "unknown"
       /\ row[t].lastEventAt <= row'[t].lastEventAt]_vars

-----------------------------------------------------------------------------
\* State changes

StateChanges(t, s) == {e \in events[t] : e.kind = "state_change" /\ e.id[1] = s}

\* The row's state never changes silently: the synthesized event that says
\* so, with the updated_at of the snapshot, is recorded by then.
RowChangeIsLogged ==
  [][\A t \in Threads : row'[t].state # row[t].state =>
       \E e \in StateChanges(t, row'[t].state) : e.at = out.updatedAt]_vars

\* The issue timeline's own entry for entering a state.
Entry == [open |-> "reopened", closed |-> "closed", merged |-> "merged"]

Entries(t, s) == {i \in items[t]["issue_events"] : i.event = Entry[s]}

\* The id of a state change has a resolution of one second, and INSERT OR
\* IGNORE drops a second event with the same id.  That swallows nothing but
\* a return within a second: whenever the row's state changes, its event is
\* a new one, or the thread left the new state and entered it again in the
\* very second of the snapshot's updated_at.
SwallowsOnlyWithinASecond ==
  [][\A t \in Threads : row'[t].state # row[t].state =>
       \/ \E e \in StateChanges(t, row'[t].state) : e.at = out.updatedAt /\ Key(e) \notin seen
       \/ /\ \E i \in Entries(t, row'[t].state) : i.at = out.updatedAt
          /\ \E s \in States \ {row'[t].state} : \E i \in Entries(t, s) : i.at = out.updatedAt]_vars

\* How often the thread entered state s (it was open to begin with).
Entered(t, s) == (IF s = "open" THEN 1 ELSE 0) + Cardinality(Entries(t, s))

\* A state is announced no more often than the thread entered it.
EachChangeFiresOnce ==
  \A t \in Threads : \A s \in States : Cardinality(StateChanges(t, s)) <= Entered(t, s)

\* The id of a state change is no barrier to a repetition (crash_repeats),
\* but each takes a failure of its own: one that comes between the insert
\* and the update costs one event too many, not one at every later poll.
RepeatsTakeFailures ==
  \A t \in Threads : \A s \in States :
    Cardinality(StateChanges(t, s)) <= Entered(t, s) + faults

-----------------------------------------------------------------------------
\* The abstract feed

\* Everything on GitHub but the noise, and the timeline without the events
\* the poller makes up itself.
PostedItems(t) ==
  {[kind |-> i.kind, id |-> i.id, at |-> i.at] :
     i \in {j \in UNION {items[t][s] : s \in ListEndpoints} : j.event # "subscribed"}}

\* The key of the UNIQUE constraint, (source_kind, source_id), tells apart
\* all that is posted on a thread and all that is on its timeline, ids being
\* unique within a stream only: INSERT OR IGNORE never drops an event for
\* another one, and a recorded key means that very event is recorded.
KeysTellApart ==
  \A t \in Threads : \A e, f \in PostedItems(t) \cup events[t] : Key(e) = Key(f) => e = f

FeedOf == INSTANCE Feed WITH
  posted   <- [t \in Threads |-> PostedItems(t)],
  timeline <- [t \in Threads |-> {e \in events[t] : e.kind # "state_change"}]

\* The poller implements the feed, with failures of every kind: a timeline
\* only grows and holds only what was posted on its own thread, as posted.
FeedSpec == FeedOf!Spec

-----------------------------------------------------------------------------
\* The abstract ticks

TicksOf == INSTANCE Ticks WITH
  alive <- (pc # "boot"), rows <- Threads, busy <- (pc \notin {"idle", "boot"}), left <- todo

\* The poller's ticks are those of Ticks, which the process makes as well
\* (Process!ImplementsTicks): so "a tick starts whenever the poller is idle"
\* stands for Run, its ticker and the refreshes, and nothing else does.
TicksSpec == TicksOf!Spec

\* What the poll under way has yet to do: five calls at most, an outcome of
\* each to save, then Insert and Apply; and what the tick has.
CallsLeft == [issue |-> 5, comments |-> 4, issue_events |-> 3, reviews |-> 2, review_comments |-> 1]
PollRemaining ==
  CASE pc \in Endpoints -> 8 + CallsLeft[pc]
    [] pc = "save"      -> 3 + Cardinality(unsaved)
    [] pc = "apply"     -> 2
    [] pc = "next"      -> 1
    [] OTHER            -> 0
TickRemaining == PollRemaining + 13 * Cardinality(todo)

\* A tick is over after thirteen steps of the poller for each thread and one
\* more, whatever fails and whatever happens on GitHub meanwhile: no step is
\* ever repeated, and a failure only ever shortens the tick.
TicksAreBounded ==
  [][/\ PollerStep /\ ~ BeginTick /\ ~ Boot => TickRemaining' < TickRemaining
     /\ ~ BeginTick => TickRemaining' <= TickRemaining
     /\ TickRemaining' \in 0 .. (13 * Cardinality(Threads) + 1)]_vars

-----------------------------------------------------------------------------
\* Claims of comments in the source, which the runs refute

\* fetcher.go, on a 304 of the issue: "Caller will reuse stored state
\* (kind/title/state) from the threads row."  Then no event is about a
\* thread without a state.
NoPhantomState ==
  \A t \in Threads : StateChanges(t, "") = {}

\* diff.go, on the synthesized event: "no synthesized event on first
\* observation".  Then there is none while the row's state is unknown.
FirstObservationSilent ==
  \A t \in Threads : row[t].state = "unknown" =>
    \A s \in States : StateChanges(t, s) = {}

\* diff.go, on the time Diff puts into the update: "most recent event
\* timestamp recorded".  Then the row shows the latest time on the timeline,
\* if not between the insert and the update, then again and again after it.
LastEventCatchesUp ==
  \A t \in Threads : []<>(\A e \in events[t] : e.at <= row[t].lastEventAt)

\* fetcher.go, on a 304 of a list: zero events for that endpoint "is the
\* correct behaviour".  Then a stream that will be answered with 304 is
\* recorded.
UnchangedIsRecorded ==
  \A t \in Threads : \A s \in ListEndpoints :
    polls[t][s] = ver[t][s] => Wanted(t, s) \subseteq Recorded(t) \cup InFlight(t)

\* fetcher.go: FetchThread "hits the 1-5 endpoints needed to fully describe
\* one thread".  Then what GitHub has beyond the first page gets recorded
\* too, or is still to be served.
FullyDescribed ==
  \A t \in Threads : \A s \in ListEndpoints :
    \/ Keys(items[t][s]) \subseteq Recorded(t) \cup InFlight(t)
    \/ WillServe(t, s)
=============================================================================
