------------------------------- MODULE Process -------------------------------
(***************************************************************************)
(* cmd/threadwatch: one start after another of the whole program.  run     *)
(* loads the configuration, migrates the database, upserts the declared    *)
(* threads, serves until its context is canceled, and shuts down.  The     *)
(* components are Migrations and RunLoop; between two starts the release   *)
(* and the configuration may change, the database stays.                   *)
(***************************************************************************)
EXTENDS Migrations, RunLoop, SequencesExt

CONSTANTS
  Keys,        \* what identifies a thread: owner, repo and number
  NoKey,       \* an entry of threads.yaml that lacks one of them
  Documents,   \* what threads.yaml may hold; <<>> when missing or blank
  MaxDeaths    \* bound: how often the process crashes or is told to stop

ASSUME DocumentsAssumption == Documents \subseteq Seq(Keys \cup {NoKey})
ASSUME DeathsAssumption    == MaxDeaths \in Nat

VARIABLES
  phase,      \* how far run has got, "down" when no process runs
  config,     \* cfg.Threads
  declared,   \* those still to be upserted
  deaths

processVars == <<fileVars, migrateVars, loopVars, threads, canceled, phase, config, declared, deaths>>

Init ==
  /\ MigrationsInit /\ LoopInit
  /\ threads = <<>>
  /\ phase = "down" /\ config = <<>> /\ declared = <<>>
  /\ deaths = 0

-----------------------------------------------------------------------------
\* Start

\* config.Load: one bad entry refuses the whole file.  Nothing forbids to
\* declare a thread twice.
Loads(doc) == \A i \in DOMAIN doc : doc[i] # NoKey

Start(r, doc) ==
  /\ phase = "down" /\ Loads(doc)
  /\ phase' = "migrate" /\ config' = doc /\ declared' = doc
  /\ ReadApplied(r)
  /\ UNCHANGED <<loopVars, threads, canceled, deaths>>

Migrate ==
  /\ phase = "migrate" /\ ~ canceled
  /\ MigrateStep
  /\ UNCHANGED <<loopVars, threads, canceled, phase, config, declared, deaths>>

Opened ==
  /\ phase = "migrate" /\ Migrated
  /\ phase' = "reconcile"
  /\ UNCHANGED <<fileVars, migrateVars, loopVars, threads, canceled, config, declared, deaths>>

\* A plausible bug of UpsertThread: INSERT OR REPLACE, which deletes the row
\* (its events go with it) and inserts another one.
UpsertReplaces(key) == Append(SelectSeq(threads, LAMBDA k : k # key), key)

\* INSERT ... ON CONFLICT DO UPDATE: the row stays, a new one gets the next
\* id of the AUTOINCREMENT.
Upserted(key) == IF Contains(threads, key) THEN threads ELSE Append(threads, key)

Reconcile ==
  /\ phase = "reconcile" /\ ~ canceled /\ declared # <<>>
  /\ threads' = Upserted(Head(declared))
  /\ declared' = Tail(declared)
  /\ UNCHANGED <<fileVars, migrateVars, loopVars, canceled, phase, config, deaths>>

\* A plausible bug: the reconciliation goes on in the background.
ServeEarly ==
  /\ phase = "reconcile"
  /\ phase' = "serve"
  /\ EnterRun
  /\ UNCHANGED <<fileVars, migrateVars, threads, canceled, config, declared, deaths>>

Serve ==
  /\ phase = "reconcile" /\ declared = <<>>
  /\ phase' = "serve"
  /\ EnterRun
  /\ UNCHANGED <<fileVars, migrateVars, threads, canceled, config, declared, deaths>>

-----------------------------------------------------------------------------
\* Stop

\* The process is gone, with all it had in memory.
Exit ==
  /\ phase' = "down" /\ config' = <<>> /\ declared' = <<>> /\ canceled' = FALSE
  /\ Rollback /\ LoopDies
  /\ UNCHANGED threads

\* A plausible bug: a database with versions the release does not know is
\* refused, so that no start after a roll-back succeeds.
StartFailsOnNewer ==
  /\ \/ phase \in {"migrate", "reconcile"} /\ canceled
     \/ phase = "migrate" /\ pending # {} /\ tx = "none" /\ BodyFails
     \/ phase = "migrate" /\ applied \ release # {}
  /\ Exit
  /\ UNCHANGED deaths

\* run returns an error from its start: a statement met the canceled
\* context, or a migration's body failed.
StartFails ==
  /\ \/ phase \in {"migrate", "reconcile"} /\ canceled
     \/ phase = "migrate" /\ pending # {} /\ tx = "none" /\ BodyFails
  /\ Exit
  /\ UNCHANGED deaths

\* SIGTERM, SIGINT, or stop() when the HTTP server could not go on.
Cancel ==
  /\ phase # "down" /\ ~ canceled /\ deaths < MaxDeaths
  /\ canceled' = TRUE /\ deaths' = deaths + 1
  /\ UNCHANGED <<fileVars, migrateVars, loopVars, threads, phase, config, declared>>

\* Killed; or a statement of the start failed on its own.
Crash ==
  /\ phase # "down" /\ deaths < MaxDeaths
  /\ Exit
  /\ deaths' = deaths + 1

BeginShutdown ==
  /\ phase = "serve" /\ canceled
  /\ phase' = "shutdown"
  /\ UNCHANGED <<fileVars, migrateVars, loopVars, threads, canceled, config, declared, deaths>>

\* A plausible bug: Shutdown is called without a deadline.
WaitForHandlers ==
  /\ phase = "shutdown" /\ \A c \in Clients : req[c] # "sent"
  /\ Exit
  /\ UNCHANGED deaths

\* httpSrv.Shutdown returns when the handlers have, or after its ten
\* seconds; then run returns.  Nobody waits for the poller.
FinishShutdown ==
  /\ phase = "shutdown"
  /\ Exit
  /\ UNCHANGED deaths

-----------------------------------------------------------------------------
MainStep ==
  \/ \E r \in Releases, doc \in Documents : Start(r, doc)
  \/ Migrate \/ Opened \/ Reconcile \/ Serve \/ StartFails
  \/ BeginShutdown \/ FinishShutdown

\* The goroutines: the poller's, and the HTTP server's, which accepts no
\* request any more once the shutdown has begun.
OnlyLoop == UNCHANGED <<fileVars, migrateVars, threads, canceled, phase, config, declared, deaths>>

PollerStep   == LoopStep /\ OnlyLoop
TickerStep   == TickerFires /\ OnlyLoop
HandlerStep(c) ==
  /\ \/ phase = "serve" /\ Send(c)
     \/ Refresh(c)
  /\ OnlyLoop

Next == MainStep \/ PollerStep \/ TickerStep \/ Cancel \/ Crash \/ \E c \in Clients : HandlerStep(c)

Spec == Init /\ [][Next]_processVars

\* The main goroutine runs, a process that has ended is started again, and
\* the poller's goroutine is scheduled, its calls ending in time.  Nothing is
\* assumed of handlers and clients, nor of the ticker.
FairSpec == Spec /\ WF_processVars(MainStep) /\ WF_processVars(PollerStep)

-----------------------------------------------------------------------------
\* Properties

\* No start fails on a migration: over any sequence of starts and deaths,
\* upgrades and downgrades, the objects of a pending file are not there yet
\* and those of the files before it are.
NoBodyFails == phase = "migrate" /\ pending # {} /\ tx = "none" => ~ BodyFails

\* No thread is upserted, polled or shown on a schema that lacks a file of
\* the release.
MigratedBeforeUse == phase \in {"reconcile", "serve", "shutdown"} => release \subseteq schema

\* The poller is never at work while a declared thread has no row: its
\* ticks, which are whole (ImplementsTicks), then poll them all.
DeclaredIsListed == loop # "off" => ToSet(config) \subseteq ToSet(threads)

\* An id, once given to a thread, is that thread's for ever: the links to
\* its page, its events and its ETags hang on it.  This is also why a thread
\* taken out of the configuration goes on being polled, and is found again
\* with its history when it is put back.
RowsKeepTheirIds == [][\A id \in Ids : id \in Ids' /\ threads'[id] = threads[id]]_processVars

\* Refresh: "if a refresh is already queued, the second call is a no-op (the
\* queued refresh covers it)".  An accepted request is in the channel, or the
\* tick for it is about to begin, or the process is on its way down and the
\* next one polls on entry.
NothingForgotten ==
  \A c \in Clients :
    req[c] = "accepted" => queue = 1 \/ loop \in {"list", "off"} \/ canceled

\* An accepted request is followed by a tick that begins after it and polls
\* every row, unless its listing fails, even if the process dies meanwhile
\* and the ticker never fires.
RefreshIsFollowed ==
  \A c \in Clients : (req[c] = "accepted") ~> (req[c] \in {"served", "dropped"})

\* A process that is told to stop does, whatever its handlers and its poller
\* are doing.
StopsInTheEnd == canceled ~> (phase = "down")

\* What main has yet to do: three steps for each pending file, one for each
\* declared thread, and Opened, Serve, BeginShutdown and FinishShutdown.
StepsOfFile == [none |-> 0, body |-> 1, recorded |-> 2]
MainRemaining ==
  CASE phase = "migrate"   -> 4 + Len(declared) + 3 * Cardinality(pending) - StepsOfFile[tx]
    [] phase = "reconcile" -> 3 + Len(declared)
    [] phase = "serve"     -> 2
    [] phase = "shutdown"  -> 1
    [] OTHER               -> 0

\* However often earlier ones died, a run of the program takes main no more
\* steps than its configuration and its files call for: nothing that others
\* do in the meantime, and no failure, sets its start or its shutdown back.
RunsAreBounded ==
  [][/\ MainStep /\ phase # "down" => MainRemaining' < MainRemaining
     /\ phase # "down" => MainRemaining' <= MainRemaining
     /\ MainRemaining' \in 0 .. (4 + Len(config') + 3 * Cardinality(release'))]_processVars

\* Whatever deaths interrupted the starts before, some start gets through.
OpensInTheEnd == <>[](phase = "serve")

\* The loop, its ticker and the refreshes together make whole ticks.
TicksOf == INSTANCE Ticks WITH
  alive <- (loop # "off"), rows <- Ids, busy <- (loop = "poll")

ImplementsTicks == TicksOf!Spec
=============================================================================
