# A verification project for threadwatch

threadwatch polls a list of GitHub issues and pull requests with conditional
GETs, diffs what comes back against a SQLite database and shows the events it
found.  These TLA+ modules model what must not go wrong silently in it: **what
the poller records, given everything that can happen between two of its
calls**; the HTTP client below it, with its retries; the loop, the process and
the migrations around it; and the page that reads what it wrote.  TLC checks
the models on small instances; TLAPS proves the safety properties that matter
most, and that the detailed models implement the abstract ones, for all
instances.

Source paths below are relative to the repository (`internal/...`), named the
same in `PROJECT.json`, whose `map` gives the lines behind each definition.

## 1. The system

| Part | State it keeps | Operations | Talks to |
|---|---|---|---|
| poller (`internal/poller/poller.go`) | none between ticks; in a tick the listing, in a poll the old ETags, the seen ids and the fetch result | `Run`, `Refresh`, `tickOnce`, `pollThread` | storage (reads and writes), GitHub client, metrics |
| Diff (`internal/poller/diff.go`) | none, a pure function | `Diff` | called by `pollThread` |
| fetcher (`internal/github/fetcher.go`) | none between calls | `FetchThread`, `fetchInto`, `carryETag` | HTTP client |
| HTTP client (`internal/github/client.go`) | none between calls | `get` (retries), `doGet`, `decode` | GitHub |
| storage (`internal/storage`) | the tables `threads`, `events`, `polls`, `schema_migrations` | `UpsertThread`, `ListThreads`, `GetThread`, `LoadETags`, `SavePollOutcome`, `SeenIDs`, `InsertEventsIfNew`, `ListEvents`, `ApplyThreadUpdate`, migrations | SQLite |
| process (`cmd/threadwatch/main.go`) | the context | start (migrate, reconcile the declared threads), shutdown on a signal | all of the above |
| web server (`internal/httpserver`) | none | the overview, the thread page, the refresh endpoint, health | storage (reads), `Refresh` |
| config, obs, web, charts | configuration, counters, templates | parsing, metrics, logging | - |

One goroutine, the poller, writes the database after start-up; HTTP handlers
only read it.  So the hard interleavings are not between writers.  They are:

* **GitHub against the poll.**  A poll is up to five GETs, and the thread may
  change between any two.  A snapshot mixes several moments.
* **GitHub against one GET.**  A GET is up to three attempts; each may be served
  and its answer lost, and the resource may change between them.
* **The steps of a poll against each other.**  The ETags are saved one by one
  *before* the events they vouch for are inserted, and the `threads` row is
  updated *after* that, in three different kinds of transaction.  Any call can
  fail and the process can die between any two.
* **304s.**  They keep being right only as long as everything an ETag stands for
  was recorded; and they leave the snapshot's fields empty, while the poll
  still goes through `Diff` and `ApplyThreadUpdate`.  Reviews and inline
  comments depend on *two* ETags: their own, and that of the issue, without a
  fresh copy of which `FetchThread` does not ask for them.
* **Staleness.**  `Diff` compares with the row as listed when the tick began.
* **A reader between two writes.**  The thread page is two statements, between
  which the poller may insert events or update the row.
* **Refreshes against ticks.**  A request meets a channel of capacity one and a
  loop that may be in the middle of a tick, or on its way out.
* **One start against the next.**  Migrations and reconciliation may be cut off
  anywhere; the next start may be another release with other threads.

### What makes each part correct

* poller: nothing that was posted is lost; the row follows GitHub; nothing is
  announced twice; all of it in spite of failures, as far as the code can.
* Diff: exactly the unseen, interesting items; the last event never goes back.
* fetcher: an ETag is only carried when its body was, or is, dealt with.
* storage: upserts and updates never replace what is known by what is unknown;
  an event is stored once; a batch is stored as a whole.
* client: transient failures are retried, definitive ones are not.
* process: any number of restarts changes nothing that polls have recorded.
* web server: a refresh is followed by a whole tick; pages show rows that
  existed.

`PROJECT.json` lists each hazard at its line with the properties aimed at it.

## 2. The modules

```
GitHub ----> Fetcher --\
                        Poller --> PollerProps --> PollerInv --> MCPoller ------\
Storage ---> Diff -----/             |      |            \                       MCThreadPage
                                   Feed   Ticks           \--> ThreadPage ------/
                                            |
Migrations --\                              |
              Process ----------------------+        Client --> ConditionalGet
RunLoop -----/   \--> MCProcess
```

An arrow into `Feed`, `Ticks` or `ConditionalGet` is a refinement mapping
(INSTANCE ... WITH); the others are EXTENDS.

| Module | Models | Notes |
|---|---|---|
| `GitHub` | external: per thread the issue resource and four streams, each with an ETag | an ETag is the version of the resource; two posts may share a second; inline comments may appear with an earlier time than the latest event |
| `Storage` | the statements of `internal/storage` | operators on one thread's row, events and ETags; one statement or transaction is one atomic step |
| `Fetcher` | `FetchThread` | one operator per endpoint: what each way of answering leaves in the `FetchResult`, and which call comes next |
| `Diff` | `Diff` | sets instead of sequences: the order of the batch reaches nothing but the autoincrement id |
| `Poller` | `tickOnce`, `pollThread`, start and death of the process | one action per call on something shared |
| `PollerProps`, `PollerInv` | the properties, and the inductive invariants behind them | |
| `ThreadPage` | `handleThread` beside the poller | extends `Poller`'s behaviour with one reader |
| `Client` | `get`, `doGet`, `shouldRetry`, `backoffFor` | one action per thing that can happen to an attempt |
| `RunLoop` | `Run`, `Refresh`, the ticker, `handleRefresh` | a poll is one step here |
| `Migrations` | `migrate`, `applyMigration` | a file is a number, its body creates what must not exist yet |
| `Process` | `main`'s `run` over any sequence of starts | extends `Migrations` and `RunLoop` |
| `Feed` | abstract: what a timeline promises | `PollerProps!FeedOf` |
| `Ticks` | abstract: whole, ordered ticks that do not overlap | `PollerProps!TicksOf` and `Process!TicksOf` |
| `ConditionalGet` | abstract: a GET as one look at the resource | `Client!Getting` |
| `MCPoller`, `MCThreadPage`, `MCProcess` | the instances | `Client` needs none |
| `*Proofs` | `PollerProofs` (types, lemmas about the operators), `StrandProofs`, `RowProofs`, `FeedProofs`, `TickProofs`, `PageProofs`, `ClientProofs`, `ProcessProofs` | TLAPS |

**How they fit together.**  `Poller` looks at a tick closely and at everything
around it loosely.  Two abstract specifications make that sound.

* `Poller` starts a tick whenever it is idle.  What really decides is `Run` with
  its ticker, its refresh channel and the context.  Both `Poller` and `Process`
  are shown to implement `Ticks` (`TicksSpec`, `ImplementsTicks`): ticks do not
  overlap and each goes once through all rows in id order, in the loop as in
  the poller, so the loose choice leaves out nothing the loop does.
* `Poller` answers a GET in one step (`Answer`).  `Client` has the attempts, the
  losses and the changes between them; it implements `ConditionalGet`: the call
  comes back as if GitHub had looked at the resource once, at some moment
  between the call and the return, or as an error.  While the poller waits in
  the call no other step of `Poller` but GitHub's is possible, so that moment
  can be taken to be that of `Answer`, and GitHub's later changes come after it.

### How the actions of `Poller` correspond to the code

| Action | Code | Ways it can go |
|---|---|---|
| `BeginTick`, `EndTick` | `tickOnce`, `ListThreads` | the listing fails and the tick is over |
| `StartPoll(t)` | `LoadETags`, `SeenIDs` | one of them fails and the thread is skipped |
| `FetchIssue` | GET `/issues/{n}` with retries | 200, 304, 200 with a body that does not decode, any error |
| `FetchList(e)` | `fetchInto` | the same, and 404, which is squashed |
| `Save(e)` | one iteration over `EndpointStatuses` | in any order (a Go map); a failure is logged and the loop goes on |
| `Abort` | `pollThread` returns `FetchThread`'s error | |
| `Insert` | `Diff`, `InsertEventsIfNew` | fails and the poll is over |
| `Apply` | `ApplyThreadUpdate` | fails, and the poll is over anyway |
| `Crash`, `Boot` | the process dies or its context is canceled; `main` reconciles at the next start | anywhere |
| `Activity` | - | GitHub posts, changes a state, or adds noise |

A canceled context and a crash are one action: after the cancellation every
call of the poll fails, so nothing more reaches the database.  `LoadETags` and
`SeenIDs` are one step because nothing else writes those tables meanwhile.

### The actions of `ThreadPage`

| Action | Code |
|---|---|
| `OpenPage(t)` | `GetThread`; an unknown id is a 404 and reads nothing more |
| `ClosePage` | `ListEvents(id, 200)` and the rendering; or a 500 |
| `Around` | anything of `Poller` between the two; when the process dies the handler is gone, or finishes during the shutdown |

### The actions of `Client`

| Action | Code | Ways it can go |
|---|---|---|
| `Call` | `FetchThread` and `fetchInto` call `get` | with the ETag of this or an earlier version, or none |
| `Send`, `Serve` | `HTTPClient.Do`; GitHub answers as things stand | 200 or 304, 401, 403, 404, 410, 429, 500, 503 |
| `NoResponse` | `Do` returns an error | before GitHub saw the request, after it served it, by time-out or cancellation |
| `Receive` | the switch of `doGet` | the body may break off, the rate limit may be exhausted |
| `BackoffEnds`, `BackoffCanceled` | the select of `get` | either, when both are ready |
| `Change`, `Cancel` | GitHub; the signal | at any moment |

### The actions of `Process`, `RunLoop` and `Migrations`

| Action | Code |
|---|---|
| `Start(r, doc)` | `config.Load` accepts the threads file, `Open` reads `schema_migrations`; the release and the file may be others than last time |
| `Migrate` (`ExecBody`, `RecordVersion`, `Commit`), `Opened` | `applyMigration` in its transaction, `migrate` returns |
| `Reconcile`, `Serve` | one `UpsertThread`; the two goroutines |
| `StartFails` | a statement meets the canceled context, or a body fails |
| `Cancel`, `BeginShutdown`, `FinishShutdown` | the signal, `<-ctx.Done()`, `httpSrv.Shutdown` with its ten seconds and the end of `run` |
| `Crash` | killed, at any point |
| `EnterRun`, `ListThreads`, `ListThreadsFails`, `PollThread`, `EndTick` | `tickOnce` |
| `TakeTick`, `TakeRefresh`, `ExitRun`, `TickerFires` | the select of `Run` |
| `Send(c)`, `Refresh(c)` | a request arrives; `handleRefresh` and the non-blocking send of `Refresh` |

A start may fail for a reason of its own (a disk, a port): that is `Crash`.  A
request without the token, or to a server that has none, is a 404 and touches
nothing.  `req` is a history of each client's last request: sent, accepted (the
202), covered (a tick began after that), served (and went through all rows), or
dropped (and could not list them).

### Abstractions, and what they leave out

* Texts, actors, labels, URLs and titles; the title is written by the same rule
  as kind and state.  `last_status` and `last_error` of `polls`, and the
  rate-limit figures: only metrics and operators read them.
* A time is a number of seconds.  GitHub's timestamps and both formats the
  database uses have that resolution.  0 is Go's zero time, -1 stands for NULL.
* A response that is an error carries no ETag, and an empty 200 is not modelled.
* In `RunLoop` a poll is one step, and what it writes is `Poller`'s subject: the
  rows' ids are all that `Process` has of the `threads` table.
* In `Client` all times but the delays themselves are left out.
* The ids of items grow within a stream and may coincide across streams.
* `InterestingIssueEvents` has four of the fourteen types and the model knows
  one type of noise: `Diff` treats the members of each class alike.

## 3. The runs

On `MCPoller`, `OnePR` is one pull request (all five endpoints are used) and
`Mixed` an issue and a pull request.

| Run | Module | What may happen | Shows |
|---|---|---|---|
| `all_faults` | `MCThreadPage` | one failure of any kind, crash included, and a page being read | `TypeOK`, with no empty kind or state in a row; `OnlyFailuresStrand`, `OnlyFailuresStale`: an event or a state is lost behind a 304 only by a poll that had it in hand, at the steps named below; `LastEventRecorded`: the row's last event is on the timeline; `NoDowngrade`: nothing known is taken back; `RowChangeIsLogged`: a changed state has its event; `RepeatsTakeFailures`: an announcement too many has a failure of its own; `PageAgrees`: a page's row is not ahead of its events |
| `live` | `MCPoller` | one failure that loses no snapshot (`StateFaults`); fairness | `NothingStranded`: whatever a 304 would hide is in the table or about to be; `StrandInv`, its inductive form; `StateCurrent`: the row has GitHub's state, or is about to, or the issue will be served again; `PostedIsRecorded`, `DisplayCatchesUp` |
| `in_step` | `MCPoller` | one failure of any kind but a crash and a failed update | `LastEventCovers`: no event is later than the row's last; `NoDowngrade` again, with events that are older than others on record; `EachChangeFiresOnce`: a state is announced no more often than it was entered; `SwallowsOnlyWithinASecond`: and a change goes without an event of its own only if the thread left the state and came back within a second; `KeysTellApart`: kind and id are a key of a timeline, with ids that coincide across streams |
| `feed` | `MCPoller` | one failure of any kind, two threads | `FeedSpec` and `TicksSpec`: the poller refines `Feed` and `Ticks`; `RowInv`: what a tick and a poll have read is still true when it is used; `TicksAreBounded`: every step brings the end of the tick nearer |
| `client` | `Client` | one call after another, up to nine attempts each, any answer or none, a cancellation | `ImplementsConditionalGet`; `ExhaustsRetries`: a transient failure is given up only after all attempts; `BackoffIsExponential`: the delays double to the cap, over the overflow; `CallsAreBounded`: three steps for each attempt; `EveryCallReturns` |
| `process` | `MCProcess` | two deaths at any point, two releases, three acceptable configurations, two clients | `NoBodyFails`, `MigratedBeforeUse`, `OpensInTheEnd`: the migrations; `RowsKeepTheirIds`, `DeclaredIsListed`: the reconciliation; `NothingForgotten`, `RefreshIsFollowed`, `ImplementsTicks`: the loop; `RunsAreBounded`, `StopsInTheEnd`: `main` from start to end |

**Bounds.**  `MaxVersion` bounds how often a resource changes: 3 allows two
changes, so that one can be seen and another come at the worst moment, and a
state can be left and come back; with two threads 2 has to do.  `PageSize` is 2,
no stream outgrows it, except in `pagination`.  `PageLimit` is 2 in place of 200,
so that a timeline outgrows the thread page.  `MaxFaults` is 1: the failures are
independent statements, and the counterexamples below need one.  `Active`
selects the streams in which something happens, so that each run spends its
states on the interleavings it is about: state and reviews (the stream that
depends on two ETags) for `live` and `all_faults`, and inline comments, the ones
with earlier times, with them in `in_step`, where the last event matters and
items of two streams have the same ids.  The poller asks all endpoints in
every run.  There is no bound on ticks or polls.  For the client, the time unit
and the width of a duration are scaled down (back-off 5, cap 25, 8 bits), which
with `MaxRetries` 8 makes the shift pass the cap, the sign bit and the width,
as 500 ms and 30 s do in 64 bits with 36 retries or more.  `MaxDeaths` is 2: a
death can undo what the start after another death has begun.  Two clients make
one request find the channel full; the documents have a thread twice, none, and
an entry that refuses the file.

**Fairness.**  `Poller!FairSpec` has weak fairness of `PollerStep`, the
disjunction of the poller's own steps: its goroutine is scheduled, the ticker
fires, every call returns because the HTTP client has a time-out of 30 s and
SQLite a busy time-out of 5 s, and Kubernetes restarts a dead process.  Nothing
is assumed of GitHub and nothing of failures, which are bounded by `MaxFaults`.
Weak fairness of the disjunction is enough since some poller step is always
enabled.  `Client!FairSpec` has weak fairness of `GetStep`, the client's own
steps; `Serve` is not among them, so GitHub may never answer, and what ends the
call is then the 30 s of `HTTPClient`, modelled by `NoResponse`.
`Process!FairSpec` has weak fairness of `MainStep` (the main goroutine runs; the
deadline of the shutdown is a timer; an ended process is started again, sooner
or later with a threads file that loads) and of `PollerStep`.  There is none on
the ticker, the handlers or the clients: a refresh does not need the ticker, and
the shutdown does not need the handlers.

Deadlock is checked in every run: none of the systems has a final state.

### Runs that end in a counterexample

Each checks one sentence of a comment in the source against what the code does.

| Run | The comment | What happens |
|---|---|---|
| `phantom` | fetcher.go:77 "Caller will reuse stored state (kind/title/state) from the threads row" | no caller does: after a 304 `Diff` sees a change from `open` to the empty state and makes an event `state_`, dated in year 1 |
| `first_observation` | diff.go:179 "no synthesized event on first observation" | a fresh row says `unknown`, which is not empty, and the event is synthesized |
| `list_error` | fetcher.go:131, of no events on a 304: "which is the correct behaviour" | a list fails after another answered: its ETag is stored, its body dropped, and the 304 of the next poll hides it |
| `pagination` | fetcher.go:42 "needed to fully describe one thread" | the second page is never asked for |
| `crash_repeats` | diff.go:182 "reopen-then-close sequences each fire once" | a crash between insert and update, then an update of the issue, and the change fires again |
| `crash_last_event` | diff.go:30 "most recent event timestamp recorded" | after the same crash the process starts again and polls for ever, and the row's time stays behind its events: each poll computes it from its own new events and the old time |

**What the failures cost.**  `list_error` also shows why `NothingStranded` is
stated for `SafeFaults`: with `listError`, `badBody`, `listGone`, `insertError`
or `crash` the code does lose events until the stream changes again, and with
`applyError` it loses a state.  What can be demanded with all of them is that
nothing *else* is lost, and that is what `OnlyFailuresStrand` and
`OnlyFailuresStale` say, step by step:

* an event stops being served, in hand or recorded only in the poll of its own
  thread, while outcomes are saved or the batch is inserted: the process dies;
  the insert fails; an ETag is saved although `FetchThread` failed; or the
  issue's ETag is saved although a stream of pull requests was answered 404,
  which leaves that stream without an ETag but not asked for;
* a row stops being current, about to be, or served again only if the process
  dies, the insert or the update fails, or the issue's ETag is saved although
  `FetchThread` failed.

So a failure costs the bodies of the poll it interrupts.  What another poll left
to be served, other threads, restarts, aborted polls and all that GitHub does
lose nothing.  `EachChangeFiresOnce` and `LastEventCovers` exclude failures between
insert and update because `crash_repeats` and `crash_last_event` refute them
there; `RepeatsTakeFailures` and `LastEventRecorded` are what is left of them.

### Divergences seen and not made a run

* `README.md:81` says that the poller's goroutine has its own recovery.  Only
  the HTTP handlers have (`internal/httpserver/server.go:119`); a panic in the
  poller ends the process.  Panics are not modelled.
* `internal/storage/threads.go:57` says that `ListThreads` returns all configured
  threads.  It returns all rows, and a thread that is taken out of the
  configuration keeps its own, and goes on being polled and shown.  That the row
  stays is what keeps the ids (`RowsKeepTheirIds`).
* `internal/poller/poller.go:52` says that the queued refresh covers a second
  one.  It does (`NothingForgotten`), but if the tick taken for it fails to list
  the threads both are lost, after a 202: the `dropped` of `RefreshIsFollowed`.
* `internal/github/client.go:132` tests the sign of a shifted duration for
  overflow.  For a base with low bits set and a shift that pushes the high ones
  out of 64 bits, the result can be positive and small.  The base is always
  500 ms, whose lowest set bit has passed the cap before its highest passes the
  sign.  `OverflowAssumption` says for which bases this is so and `BackoffDoubles`
  that it is enough; it holds of the code's values and of those of the run.

## 4. What is proved

For every set of threads, page size, version bound and number of failures:

* **`TypeCorrect`** (`PollerProofs`): `Spec => []TypeOK`, from the assumptions on
  the constants only and for every set of failures.  A row's kind is one of the
  three the CHECK of `0001_init.sql` admits, and its state is never empty, while a
  snapshot's may be; that the empty ones do not reach a row is the work of
  `DefaultKind`, `UpsertThread` and `ApplyThreadUpdate`.  `TypeOK` is not inductive:
  the latest of a set of times exists only if the set is bounded, so `TypeInv`
  adds that no recorded time lies in the future (`TimeInv`) and what memory holds
  in each phase (`ControlInv`: a running poll has a thread, no thread is set
  between polls).  `MaxIsLatest` is the lemma that makes `Max` usable: a
  nonempty, bounded set of integers has the element `Max` chooses.
* **`NothingIsStranded`** (`StrandProofs`): if `Faults \subseteq SafeFaults` then
  `Spec => []NothingStranded`.  The strengthening, `StrandInv` with `PollInv`, says of *every* ETag
  around, stored, remembered or just received, that it **vouches**: if GitHub
  would answer 304 to it now, then what it silences is in the table, or, for an
  ETag received in this poll, in the table and the snapshot together.  Three facts
  carry the proof.  GitHub's steps only falsify the premise, for a version never
  comes back (`ActivityGuard`).  `Save` swaps an ETag that the table vouches for
  against one that needs the snapshot, which is harmless exactly because the poll
  is past the point where it could be dropped; an aborted poll got no further than
  the issue and carried the old ETag on.  `Insert` then makes the table enough
  (`InsertRecords`).  The issue's ETag is special: it silences reviews and inline
  comments, so a fresh one vouches only once both were asked for in the same
  poll, or the thread is known not to be a pull request; `CallInv` keeps the
  order of the calls that this needs.

* **`RowInvHolds`** (`RowProofs`), for every set of failures: `RowInv` says that the
  poller's *views* are still true when they are used.  The row that `ListThreads`
  gave at the start of the tick is the row in the table for every thread still to
  be polled (`ViewInv`; a thread is polled once in a tick, and after its `Apply`
  it is no longer in `todo`), the ids `SeenIDs` gave are those in the table, and
  when `Apply` runs the whole batch has been inserted.  `KindInv` and
  `StateChangeInv` add what a recorded kind and the id of a state change tell.
  From it:
  * **`LastEventIsRecorded`**: `Spec => []LastEventRecorded`.  `Diff` takes the latest
    of the listed time and the batch; the first is the row's own and by induction
    an event's, the second is in the table because the insert came first.
  * **`RowIsNotDowngraded`**: `Spec => NoDowngrade`, an action property.  Only `Apply`
    changes a row (`RowWriters`; `Boot` leaves it alone by `UpsertType`), and it
    starts from the listed row, which `ViewInv` says is the row itself.
  * **`RowChangesAreLogged`**: `Spec => RowChangeIsLogged`.  If the event of the change
    is not in the batch, its id was seen; then an earlier poll recorded it and died
    before its `Apply`, and the id tells that it has the same time.
* **`PollerImplementsFeed`** (`FeedProofs`): `Spec => FeedSpec`, for every set of
  failures.  `Activity` maps to `Post`, a successful `Insert` to `Record(cur)`, and
  every other step to a stutter.  `PostedInv` is the invariant it needs: a
  snapshot's items are items of the poll's own thread, and noise occurs only among
  the issue events, where `Diff` drops it.

* **`ETagsVouch`** (`StrandProofs`) states `StrandInv` itself for `SafeFaults`.
* **`OnlyFailuresStrandEvents`**, **`OnlyFailuresLeaveStale`** (`StrandProofs`), for
  every set of failures.  `StrandInv` is of no use to them, since a failure breaks
  it and it stays broken.  `PollInv` speaks only of the running poll (**`PollIsSound`**):
  the stored ETags are those it sent or was given (`HeldInv`); one it was given,
  that GitHub still has and that it did not send, came with its body in the
  snapshot; while a new ETag of the issue is GitHub's, so is any of reviews and
  inline comments that came with it; and a body tells the state GitHub has, unless
  the issue has changed since (`SnapshotInv`).  For each action a lemma (`SaveHeld`,
  `InsertHeld`, ...) keeps the invariant, and another shows that the action turns no
  `Kept` and no `Current` false outside the steps the properties name.
* **`StateIsCurrent`** (`StrandProofs`), for `SafeFaults` without `applyError`: by the
  same lemmas a step that is not one of those named keeps every row `Current`, and
  with these failures none of them happens.
* **`LastEventCoversTimeline`** (`RowProofs`), without `crash` and `applyError`:
  `CoverInv` says that an event later than the row's time is one of the batch
  just inserted, and `Diff` computed the new time from that batch.
* **`EachChangeIsAnnouncedOnce`**, **`RepeatsTakeAFailureEach`** (`RowProofs`): the
  first without `crash` and `applyError`, the second for every set of failures.
  Both count, and neither bound is inductive: an announcement that is on its way
  is not in the table yet.  `CreditInv` reserves a place for it.  `Due(t, s)` says
  that an announcement of `s` may still come, because GitHub has `s` and it is not
  the state last announced, or the running poll has it in its snapshot, or GitHub
  has it since that poll asked; and then there are fewer announcements of `s` than
  are `Allowed`.  The lemmas about it are its book-keeping: `CreditEarned` (a change
  on GitHub adds an entry and makes at most one announcement due), `CreditKept` (a
  step that makes nothing due), `InsertCredit` (an announcement takes the place
  that was reserved for it) and `CreditGiven` (a lost update makes the announced
  state due again, and the failure it is pays for that).  `ItemInv`, ids grow
  within a stream, makes every entry a new one.
* **`OnlyASecondSwallows`** (`RowProofs`), without `crash` and `applyError`: the id of
  a state change is the state and the second of `updated_at`, and when it is taken
  the change gets no event.  `ReturnInv` relates the times: an announced state is
  the one the issue has, or the timeline has an entry for *another* state from
  that second or later (`LeftSince`); and if it is `Due` again it has an entry of
  its own as well (`BackBetween`).  What the running poll found out is bounded from
  above too, by its `updated_at` (`FoundOut`), so when the ids coincide both entries
  lie within that one second.
* **`KeysAreUnique`** (`FeedProofs`), for every set of failures: `ItemInv` says that
  an id is unique in its stream; `TimelineInv` that what is on a timeline is what
  was posted, kind, id and time; the kinds of two streams differ; and the id of a
  state change tells its time (`StateChangeInv`), so that one with the same key is
  the same event.
* **`PollerImplementsTicks`** (`TickProofs`): from `ControlInv` and `ViewInv`; the
  steps inside a poll leave `todo` alone, and a crash empties it.
* **`PagesAgree`** (`PageProofs`): `PageSpec => []PageAgrees`.  `PageInv` says that
  what a row tells, and what the row in a handler's hand tells, is *backed* by
  the timeline.  Timelines only grow (`TimelinesGrow`), so backing is never lost
  between the two reads; that a page of any limit has the latest event follows
  from the order of `ListEvents`.
* **`ClientImplementsConditionalGet`**, **`RetriesAreExhausted`** (`ClientProofs`):
  `WireInv` says that a response on its way tells of a version between the call
  and now, and is a 304 only if that is the version asked with; `AttemptInv` that
  `get` waits only while it has an attempt left.  The end of an attempt is then
  the end of the call or invisible, and every other step is invisible.  The
  second theorem takes `MaxRetries \in Nat`; a negative one means one attempt.
* **`BackoffDoubles`** (`ClientProofs`): `BackoffFor`, which shifts, wraps and tests
  the sign, is the exact product or the cap, for every attempt.  It rests on
  `OverflowAssumption`: the base is `m * 2^k`, and `m` times the cap is below
  `2^(Width - 1)`; 500 ms are `1953125 * 2^8` ns, the cap is `3 * 10^10` ns.  Once
  the product `m * 2^e` is out of range, `2^e` is therefore above the cap; and what
  wrapping leaves is 0 or at least `2^e` (`PowerRemainder`), hence not positive or
  above the cap.  What the proof needs of powers (`PowerDoubles`, `PowerAdds`) comes
  from counting subsets and from the least counterexample there would be
  (`HasLeastNat`), in place of an induction.
* **`CallsTakeBoundedSteps`**, **`TicksTakeBoundedSteps`**, **`RunsTakeBoundedSteps`**
  (`ClientProofs`, `TickProofs`, `ProcessProofs`): each names a number that every
  own step of a call, of a tick, of `main` decreases, that no step of anyone else
  increases, and that is bounded at the start: three steps for an attempt; thirteen
  for a thread and one more; three for a migration file, one for a declared thread
  and four more.  They are what can be proved of the liveness below: that the steps
  are taken at all is fairness, and that they lead to an end is this.  The second
  needs `Threads` to be finite; the third adds `StartInv` to `ProcessInv`: what is
  left to do is part of what the start set out to do.
* **`ProcessProofs`**, from the one invariant `ProcessInv`, for all releases,
  configurations, clients and deaths.  `FilesInv`: the record and the objects
  agree, since a file commits with its record, and what is pending is the rest
  of the release.  `ThreadsInv`: a declared thread has its row or is still to be
  upserted.  `LoopInv`: the goroutine lives only between `Serve` and the end, and
  no accepted request is forgotten.  From it **`MigrationsNeverFail`** (with
  `LeastPending`: the next file is the least, so those before it are there),
  **`SchemaIsComplete`**, **`DeclaredThreadsAreListed`**, **`RefreshesAreKept`**,
  **`IdsAreForEver`** and **`ProcessImplementsTicks`**.

The proofs use the assumptions on the constants that the modules name, and no
others but those stated above: without its assumption on `Faults` each of those
theorems is false (`list_error`, `crash_last_event`, `crash_repeats`).

Every invariant, action property and refinement that a passing run checks is
proved.  Only model-checked are the liveness properties (`PostedIsRecorded`,
`DisplayCatchesUp`, `EveryCallReturns`, `RefreshIsFollowed`, `StopsInTheEnd`,
`OpensInTheEnd`), since liveness under fairness is out of the prover's reach; and
the refutations.

## 5. What is not modelled

* `Diff`'s insertion sort: its only effect is the order of the autoincrement ids
  within a batch, which the thread page uses between events of one second, and
  which `ListEvents` leaves open.  `excerpt` and `reviewEventType` are wording.
* The overview page: one statement, so it shows rows that existed together;
  `DisplayCatchesUp` and `StateCurrent` speak of those rows.
* Parsing: environment variables and their defaults, YAML, request paths,
  migration file names, JSON.  An input that does not parse ends the start or
  the request, or is the `badBody` of `Poller`.
* Access log, panic recovery, health and readiness checks, static files,
  templates, metrics, logging, charts: nothing in the program reads them back.
* SQLite itself, its locks and its durability: a statement or transaction is
  atomic.  `synchronous(NORMAL)` may lose the last commits on a power failure, in
  order and as a whole; that is a `Crash` some steps earlier.

What a later extension could add: `Diff` on sequences with its sort against the
sets of `Diff`.
