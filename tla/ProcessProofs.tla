--------------------------- MODULE ProcessProofs ---------------------------
(***************************************************************************)
(* Proofs about Process, for every set of clients, releases and documents  *)
(* and any number of deaths.                                               *)
(***************************************************************************)
EXTENDS Process, FiniteSetTheorems, WellFoundedInduction, TLAPS

\* A pending file is the least of its set: the CHOOSE of Min has something
\* to choose.
LEMMA LeastPending ==
  ASSUME NEW S \in SUBSET Nat, S # {}
  PROVE  Min(S) \in S /\ \A v \in S : Min(S) <= v
<1> DEFINE Less == OpToRel(<, Nat)
<1>1. \A x, y \in Nat : x < y => <<x, y>> \in Less
  BY DEF OpToRel
<1>2. IsWellFoundedOn(Less, Nat)
  BY NatLessThanWellFounded
<1> HIDE DEF Less
<1>3. PICK x \in S : \A y \in S : ~ (<<y, x>> \in Less)
  BY <1>2, WFMin
<1>4. \A y \in S : ~ (y < x)
  BY <1>1, <1>3
<1>5. \A y \in S : x <= y
  BY <1>4
<1> QED
  BY <1>5 DEF Min

-----------------------------------------------------------------------------
(* The invariant.  The migrations keep the record and the objects in step  *)
(* because a file commits with its record; each phase of the start hands   *)
(* to the next what it has completed; and the poller's goroutine exists    *)
(* only between Serve and the end of the process.                          *)

Phases == {"down", "migrate", "reconcile", "serve", "shutdown"}
Requests == {"none", "sent", "accepted", "covered", "served", "dropped"}

\* The files: recorded are those that have been executed, and pending those
\* of the release that have not.
FilesInv ==
  /\ schema = applied
  /\ phase = "migrate" => release \in Releases /\ pending = release \ applied
  /\ phase \in {"reconcile", "serve", "shutdown"} => release \subseteq applied

\* The threads: each declared one has its row, or is still to be upserted.
ThreadsInv ==
  /\ threads \in Seq(Keys \cup {NoKey})
  /\ config \in Seq(Keys \cup {NoKey}) /\ declared \in Seq(Keys \cup {NoKey})
  /\ \A i \in DOMAIN config :
       \/ \E j \in DOMAIN threads : threads[j] = config[i]
       \/ \E j \in DOMAIN declared : declared[j] = config[i]
  /\ phase \in {"serve", "shutdown"} => declared = <<>>

\* The loop: it lives in two phases, and only a poll leaves rows to poll.
LoopInv ==
  /\ phase \in Phases
  /\ loop # "off" => phase \in {"serve", "shutdown"}
  /\ loop # "poll" => left = {}
  /\ req \in [Clients -> Requests]
  /\ NothingForgotten

ProcessInv == FilesInv /\ ThreadsInv /\ LoopInv

LEMMA InitInv == Init => ProcessInv
<1> SUFFICES ASSUME Init PROVE ProcessInv
  OBVIOUS
<1> USE DEF Init, MigrationsInit, LoopInit
<1>1. FilesInv
  BY DEF FilesInv
<1>2. ThreadsInv
  BY DEF ThreadsInv
<1>3. LoopInv
  BY DEF LoopInv, NothingForgotten, Phases, Requests
<1> QED
  BY <1>1, <1>2, <1>3 DEF ProcessInv

\* What the goroutines do touches neither files nor threads.
LEMMA GoroutinesInv ==
  ASSUME ProcessInv, PollerStep \/ TickerStep \/ \E c \in Clients : HandlerStep(c)
  PROVE  FilesInv' /\ ThreadsInv'
<1>1. UNCHANGED <<fileVars, migrateVars, threads, phase, config, declared>>
  BY DEF PollerStep, TickerStep, HandlerStep, OnlyLoop
<1> QED
  BY <1>1 DEF ProcessInv, FilesInv, ThreadsInv, fileVars, migrateVars

LEMMA FilesStep ==
  ASSUME ProcessInv, [Next]_processVars
  PROVE  FilesInv'
<1> USE DEF ProcessInv, FilesInv, fileVars, migrateVars
<1>1. ASSUME NEW r \in Releases, NEW doc \in Documents, Start(r, doc) PROVE FilesInv'
  BY <1>1 DEF Start, ReadApplied
<1>2. CASE Migrate
  <2>1. CASE ExecBody \/ RecordVersion
    BY <1>2, <2>1 DEF Migrate, ExecBody, RecordVersion
  <2>2. CASE Commit
    <3>1. /\ schema' = schema \cup {NextPending} /\ applied' = applied \cup {NextPending}
          /\ pending' = pending \ {NextPending}
          /\ release' = release /\ phase = "migrate" /\ phase' = phase
      BY <1>2, <2>2 DEF Migrate, Commit
    <3> QED
      BY <3>1
  <2> QED
    BY <1>2, <2>1, <2>2 DEF Migrate, MigrateStep
<1>3. CASE Opened
  BY <1>3 DEF Opened, Migrated
<1>4. CASE Reconcile \/ Serve \/ Cancel \/ BeginShutdown
  BY <1>4 DEF Reconcile, Serve, Cancel, BeginShutdown
<1>5. CASE StartFails \/ Crash \/ FinishShutdown
  BY <1>5 DEF StartFails, Crash, FinishShutdown, Exit, Rollback
<1>6. CASE UNCHANGED processVars
  BY <1>6 DEF processVars
<1> QED
  BY <1>1, <1>2, <1>3, <1>4, <1>5, <1>6, GoroutinesInv DEF Next, MainStep

\* An upsert adds its thread and moves no other.
LEMMA UpsertedAdds ==
  ASSUME threads \in Seq(Keys \cup {NoKey}), NEW key \in Keys \cup {NoKey}
  PROVE  /\ Upserted(key) \in Seq(Keys \cup {NoKey})
         /\ \A i \in DOMAIN threads : i \in DOMAIN Upserted(key) /\ Upserted(key)[i] = threads[i]
         /\ \E i \in DOMAIN Upserted(key) : Upserted(key)[i] = key
<1>1. CASE Contains(threads, key)
  BY <1>1 DEF Upserted, Contains
<1>2. CASE ~ Contains(threads, key)
  <2>1. Upserted(key) = Append(threads, key)
    BY <1>2 DEF Upserted
  <2>2. Append(threads, key) \in Seq(Keys \cup {NoKey})
    OBVIOUS
  <2>3. /\ Len(Append(threads, key)) = Len(threads) + 1
        /\ Append(threads, key)[Len(threads) + 1] = key
        /\ \A i \in 1 .. Len(threads) : Append(threads, key)[i] = threads[i]
    OBVIOUS
  <2>4. DOMAIN threads = 1 .. Len(threads) /\ Len(threads) \in Nat
    OBVIOUS
  <2>5. DOMAIN Append(threads, key) = 1 .. (Len(threads) + 1)
    BY <2>2, <2>3
  <2> QED
    BY <2>1, <2>2, <2>3, <2>4, <2>5
<1> QED
  BY <1>1, <1>2

\* The rows, as any step leaves them.
LEMMA RowsOnlyGrow ==
  ASSUME ThreadsInv, [Next]_processVars
  PROVE  \A id \in Ids : id \in Ids' /\ threads'[id] = threads[id]
<1>1. CASE Reconcile
  <2>1. Head(declared) \in Keys \cup {NoKey} /\ threads' = Upserted(Head(declared))
    BY <1>1 DEF ThreadsInv, Reconcile
  <2> QED
    BY <2>1, UpsertedAdds DEF ThreadsInv, Ids
<1>2. CASE ~ Reconcile
  <2>1. threads' = threads
    BY <1>2 DEF Next, MainStep, Start, Migrate, Opened, Serve, StartFails, BeginShutdown,
                FinishShutdown, Cancel, Crash, Exit, PollerStep, TickerStep, HandlerStep,
                OnlyLoop, processVars
  <2> QED
    BY <2>1 DEF Ids
<1> QED
  BY <1>1, <1>2

LEMMA ThreadsStep ==
  ASSUME ProcessInv, [Next]_processVars
  PROVE  ThreadsInv'
<1> USE DEF ProcessInv, ThreadsInv
<1>1. ASSUME NEW r \in Releases, NEW doc \in Documents, Start(r, doc) PROVE ThreadsInv'
  <2>1. doc \in Seq(Keys \cup {NoKey})
    BY DocumentsAssumption
  <2>2. /\ threads' = threads /\ config' = doc /\ declared' = doc
        /\ phase' = "migrate"
    BY <1>1 DEF Start
  <2> QED
    BY <2>1, <2>2
<1>2. CASE Reconcile
  <2> DEFINE key == Head(declared)
  <2>1. /\ declared # <<>> /\ threads' = Upserted(key) /\ declared' = Tail(declared)
        /\ config' = config /\ phase = "reconcile" /\ phase' = phase
    BY <1>2 DEF Reconcile
  <2>2. key \in Keys \cup {NoKey} /\ declared' \in Seq(Keys \cup {NoKey})
    BY <2>1
  <2>3. \A j \in DOMAIN declared :
          declared[j] = key \/ \E i \in DOMAIN declared' : declared'[i] = declared[j]
    <3> SUFFICES ASSUME NEW j \in DOMAIN declared, j # 1
                 PROVE  \E i \in DOMAIN declared' : declared'[i] = declared[j]
      BY <2>1
    <3>1. j - 1 \in DOMAIN declared' /\ declared'[j - 1] = declared[j]
      BY <2>1
    <3> QED
      BY <3>1
  <2>4. /\ threads' \in Seq(Keys \cup {NoKey})
        /\ \A i \in DOMAIN threads : i \in DOMAIN threads' /\ threads'[i] = threads[i]
        /\ \E i \in DOMAIN threads' : threads'[i] = key
    BY <2>1, <2>2, UpsertedAdds
  <2> HIDE DEF key
  <2>5. ASSUME NEW i \in DOMAIN config
        PROVE  \/ \E j \in DOMAIN threads' : threads'[j] = config[i]
               \/ \E j \in DOMAIN declared' : declared'[j] = config[i]
    <3>1. CASE \E j \in DOMAIN threads : threads[j] = config[i]
      BY <3>1, <2>4
    <3>2. CASE \E j \in DOMAIN declared : declared[j] = config[i]
      BY <3>2, <2>3, <2>4
    <3> QED
      BY <3>1, <3>2
  <2>6. phase' = "reconcile" /\ config' \in Seq(Keys \cup {NoKey})
    BY <2>1
  <2> QED
    BY <2>1, <2>2, <2>4, <2>5, <2>6
<1>3. CASE Migrate \/ Opened \/ Serve \/ BeginShutdown \/ Cancel
  <2>1. /\ threads' = threads /\ config' = config /\ declared' = declared
        /\ phase' \in {"serve", "shutdown"} => declared = <<>>
    BY <1>3 DEF Migrate, Opened, Serve, BeginShutdown, Cancel
  <2> QED
    BY <2>1
<1>4. CASE StartFails \/ Crash \/ FinishShutdown
  <2>1. /\ threads' = threads /\ config' = <<>> /\ declared' = <<>>
        /\ phase' = "down"
    BY <1>4 DEF StartFails, Crash, FinishShutdown, Exit
  <2> QED
    BY <2>1
<1>5. CASE UNCHANGED processVars
  BY <1>5 DEF processVars
<1> QED
  BY <1>1, <1>2, <1>3, <1>4, <1>5, GoroutinesInv DEF Next, MainStep

-----------------------------------------------------------------------------
(* The loop *)

\* A request that a tick is about to cover, or the shutdown will hand to
\* the next process, may leave the channel; no other does.
LEMMA LoopStepInv ==
  ASSUME LoopInv, LoopStep, OnlyLoop
  PROVE  LoopInv'
<1>0. phase' = phase /\ canceled' = canceled
  BY DEF OnlyLoop
<1> USE <1>0 DEF LoopInv, NothingForgotten, Requests
<1>1. CASE ListThreads
  BY <1>1 DEF ListThreads, Advance
<1>2. CASE ListThreadsFails
  BY <1>2 DEF ListThreadsFails, TickOver, Advance
<1>3. CASE PollThread
  BY <1>3 DEF PollThread
<1>4. CASE EndTick
  BY <1>4 DEF EndTick, TickOver, Advance
<1>5. CASE TakeTick
  BY <1>5 DEF TakeTick
<1>6. CASE TakeRefresh
  BY <1>6 DEF TakeRefresh
<1>7. CASE ExitRun
  BY <1>7 DEF ExitRun
<1> QED
  BY <1>1, <1>2, <1>3, <1>4, <1>5, <1>6, <1>7 DEF LoopStep

LEMMA LoopInvStep ==
  ASSUME ProcessInv, [Next]_processVars
  PROVE  LoopInv'
<1> USE DEF ProcessInv, LoopInv, NothingForgotten, Requests, Phases, loopVars
<1>1. ASSUME NEW r \in Releases, NEW doc \in Documents, Start(r, doc) PROVE LoopInv'
  BY <1>1 DEF Start
<1>2. CASE Migrate \/ Opened \/ Reconcile \/ BeginShutdown
  BY <1>2 DEF Migrate, Opened, Reconcile, BeginShutdown
<1>3. CASE Serve
  BY <1>3 DEF Serve, EnterRun
<1>4. CASE StartFails \/ Crash \/ FinishShutdown
  BY <1>4 DEF StartFails, Crash, FinishShutdown, Exit, LoopDies
<1>5. CASE Cancel
  BY <1>5 DEF Cancel
<1>6. CASE TickerStep
  BY <1>6 DEF TickerStep, TickerFires, OnlyLoop
<1>7. ASSUME NEW c \in Clients, HandlerStep(c) PROVE LoopInv'
  BY <1>7 DEF HandlerStep, Send, Refresh, OnlyLoop
<1>8. CASE PollerStep
  BY <1>8, LoopStepInv DEF PollerStep
<1>9. CASE UNCHANGED processVars
  BY <1>9 DEF processVars
<1> QED
  BY <1>1, <1>2, <1>3, <1>4, <1>5, <1>6, <1>7, <1>8, <1>9 DEF Next, MainStep

LEMMA InvStep == ProcessInv /\ [Next]_processVars => ProcessInv'
BY FilesStep, ThreadsStep, LoopInvStep DEF ProcessInv

\* The invariant, in every state of any sequence of starts and deaths.
THEOREM ProcessInvariant == Spec => []ProcessInv
BY InitInv, InvStep, PTL DEF Spec

-----------------------------------------------------------------------------
(* What the runs check *)

\* A migration never fails on the objects of another one.
THEOREM MigrationsNeverFail == Spec => []NoBodyFails
<1>1. ProcessInv => NoBodyFails
  <2> SUFFICES ASSUME ProcessInv, phase = "migrate", pending # {}
               PROVE  NextPending \notin schema /\ \A w \in release : w < NextPending => w \in schema
    BY DEF NoBodyFails, BodyFails
  <2>1. release \in SUBSET Nat /\ pending = release \ applied /\ schema = applied
    BY ReleasesAssumption DEF ProcessInv, FilesInv
  <2>2. NextPending \in pending /\ \A v \in pending : NextPending <= v
    BY <2>1, LeastPending DEF NextPending
  <2> QED
    BY <2>1, <2>2
<1> QED
  BY <1>1, ProcessInvariant, PTL

\* Every file of the release is there before the first thread is touched.
THEOREM SchemaIsComplete == Spec => []MigratedBeforeUse
<1>1. ProcessInv => MigratedBeforeUse
  BY DEF ProcessInv, FilesInv, MigratedBeforeUse
<1> QED
  BY <1>1, ProcessInvariant, PTL

\* The poller has a row for each declared thread, whatever it is doing.
THEOREM DeclaredThreadsAreListed == Spec => []DeclaredIsListed
<1>1. ProcessInv => DeclaredIsListed
  BY DEF ProcessInv, ThreadsInv, LoopInv, DeclaredIsListed, ToSet
<1> QED
  BY <1>1, ProcessInvariant, PTL

\* A refresh that was accepted is waiting, or about to be served, or the
\* process is going down and the next one polls on entry.
THEOREM RefreshesAreKept == Spec => []NothingForgotten
<1>1. ProcessInv => NothingForgotten
  BY DEF ProcessInv, LoopInv
<1> QED
  BY <1>1, ProcessInvariant, PTL

\* Ids are given once and for all.
THEOREM IdsAreForEver == Spec => RowsKeepTheirIds
<1>1. ProcessInv /\ [Next]_processVars =>
        \A id \in Ids : id \in Ids' /\ threads'[id] = threads[id]
  BY RowsOnlyGrow DEF ProcessInv
<1> QED
  BY <1>1, ProcessInvariant, PTL DEF Spec, RowsKeepTheirIds

-----------------------------------------------------------------------------
(* Whole ticks *)

Alive == loop # "off"
Ticking == loop = "poll"

\* Outside the loop rows are added, and the loop ends with its process.
LEMMA MainIsOutside ==
  ASSUME ProcessInv, MainStep \/ Crash \/ Cancel
  PROVE  TicksOf!Next \/ UNCHANGED TicksOf!ticksVars
<1> USE DEF TicksOf!ticksVars
<1>1. CASE Reconcile
  <2>1. loop = "off" /\ loop' = loop /\ left' = left
    BY <1>1 DEF Reconcile, ProcessInv, LoopInv, loopVars
  <2>2. Ids \subseteq Ids' /\ Ids' \in SUBSET Nat
    <3>1. Reconcile => [Next]_processVars
      BY DEF Next, MainStep
    <3>2. ThreadsInv /\ ThreadsInv'
      BY <1>1, <3>1, ThreadsStep DEF ProcessInv
    <3>3. Ids' = 1 .. Len(threads')
      BY <3>2 DEF ThreadsInv, Ids
    <3> QED
      BY <1>1, <3>1, <3>2, <3>3, RowsOnlyGrow
  <2> QED
    BY <2>1, <2>2 DEF TicksOf!Next, TicksOf!AddRows
<1>2. CASE Serve
  <2>1. loop = "off" /\ loop' = "list" /\ left' = left /\ Ids' = Ids
    BY <1>2 DEF Serve, EnterRun, Ids
  <2> QED
    BY <2>1 DEF TicksOf!Next, TicksOf!Revive
<1>3. CASE StartFails \/ Crash \/ FinishShutdown
  <2>1. loop' = "off" /\ left' = {} /\ Ids' = Ids /\ (loop = "off" => left = {})
    BY <1>3 DEF StartFails, Crash, FinishShutdown, Exit, LoopDies, ProcessInv, LoopInv, Ids
  <2> QED
    BY <2>1 DEF TicksOf!Next, TicksOf!Die
<1>4. CASE Migrate \/ Opened \/ BeginShutdown \/ Cancel
  BY <1>4 DEF Migrate, Opened, BeginShutdown, Cancel, loopVars, Ids
<1>5. ASSUME NEW r \in Releases, NEW doc \in Documents, Start(r, doc)
      PROVE  UNCHANGED TicksOf!ticksVars
  BY <1>5 DEF Start, loopVars, Ids
<1> QED
  BY <1>1, <1>2, <1>3, <1>4, <1>5 DEF MainStep

\* Inside, only listing, polling and ending are visible.
LEMMA LoopMakesTicks ==
  ASSUME ProcessInv, LoopStep, OnlyLoop
  PROVE  TicksOf!Next \/ UNCHANGED TicksOf!ticksVars
<1>0. Ids' = Ids /\ (loop # "poll" => left = {})
  BY DEF OnlyLoop, Ids, ProcessInv, LoopInv
<1> USE <1>0 DEF TicksOf!ticksVars
<1>1. CASE ListThreads
  BY <1>1 DEF ListThreads, TicksOf!Next, TicksOf!Begin
<1>2. CASE PollThread
  BY <1>2 DEF PollThread, TicksOf!Next, TicksOf!Poll
<1>3. CASE EndTick
  BY <1>3 DEF EndTick, TickOver, TicksOf!Next, TicksOf!End
<1>4. CASE ListThreadsFails
  BY <1>4 DEF ListThreadsFails, TickOver
<1>5. CASE TakeTick \/ TakeRefresh \/ ExitRun
  BY <1>5 DEF TakeTick, TakeRefresh, ExitRun
<1> QED
  BY <1>1, <1>2, <1>3, <1>4, <1>5 DEF LoopStep

LEMMA HandlersAreInvisible ==
  ASSUME TickerStep \/ \E c \in Clients : HandlerStep(c)
  PROVE  UNCHANGED TicksOf!ticksVars
BY DEF TickerStep, TickerFires, HandlerStep, Send, Refresh, OnlyLoop, Ids, TicksOf!ticksVars

\* However ticker, refreshes, shutdowns and crashes fall, ticks are whole
\* and one at a time.
THEOREM ProcessImplementsTicks == Spec => ImplementsTicks
<1>1. Init => TicksOf!Init
  BY DEF Init, LoopInit, Ids, TicksOf!Init
<1>2. ProcessInv /\ [Next]_processVars => [TicksOf!Next]_(TicksOf!ticksVars)
  <2>1. ASSUME UNCHANGED processVars PROVE UNCHANGED TicksOf!ticksVars
    BY <2>1 DEF processVars, loopVars, Ids, TicksOf!ticksVars
  <2> QED
    BY <2>1, MainIsOutside, LoopMakesTicks, HandlersAreInvisible DEF Next, PollerStep
<1> QED
  BY <1>1, <1>2, ProcessInvariant, PTL DEF Spec, ImplementsTicks, TicksOf!Spec

-----------------------------------------------------------------------------
(* A run takes main a bounded number of steps *)

\* What is left of the start is part of what it set out to do, and an open
\* transaction is that of a pending file.
StartInv ==
  /\ Len(declared) <= Len(config)
  /\ IsFiniteSet(release) /\ pending \subseteq release /\ pending \subseteq Nat
  /\ tx \in {"none", "body", "recorded"}
  /\ tx # "none" => phase = "migrate" /\ pending # {}

MainInv == ProcessInv /\ StartInv

\* The steps of the goroutines, and a signal, leave main where it is.
LEMMA OthersWait ==
  ASSUME \/ PollerStep \/ TickerStep \/ \E c \in Clients : HandlerStep(c)
         \/ Cancel \/ UNCHANGED processVars
  PROVE  UNCHANGED <<phase, config, declared, release, pending, tx>>
BY DEF PollerStep, TickerStep, HandlerStep, OnlyLoop, Cancel, migrateVars, processVars

\* The end of the process forgets it all.
LEMMA ExitForgets ==
  ASSUME StartFails \/ Crash \/ FinishShutdown
  PROVE  /\ phase' = "down" /\ config' = <<>> /\ declared' = <<>>
         /\ release' = {} /\ pending' = {} /\ tx' = "none"
BY DEF StartFails, Crash, FinishShutdown, Exit, Rollback

LEMMA StartInvInit == Init => StartInv
<1> SUFFICES ASSUME Init PROVE StartInv
  OBVIOUS
<1>1. IsFiniteSet({})
  BY FS_EmptySet
<1> QED
  BY <1>1 DEF Init, MigrationsInit, StartInv

LEMMA StartInvStep == MainInv /\ [Next]_processVars => StartInv'
<1> SUFFICES ASSUME MainInv, [Next]_processVars PROVE StartInv'
  OBVIOUS
<1>1. StartInv /\ ProcessInv
  BY DEF MainInv
<1>2. ASSUME NEW r \in Releases, NEW doc \in Documents, Start(r, doc) PROVE StartInv'
  <2>1. /\ config' = doc /\ declared' = doc /\ release' = r /\ pending' = r \ applied /\ tx' = "none"
    BY <1>2 DEF Start, ReadApplied
  <2>2. IsFiniteSet(r) /\ r \subseteq Nat
    BY ReleasesAssumption
  <2>3. Len(doc) \in Nat
    BY DocumentsAssumption
  <2>4. Len(declared') <= Len(config')
    BY <2>1, <2>3
  <2>5. IsFiniteSet(release') /\ pending' \subseteq release' /\ pending' \subseteq Nat
    BY <2>1, <2>2
  <2> QED
    BY <2>1, <2>4, <2>5 DEF StartInv
<1>3. CASE Migrate
  <2>1. /\ UNCHANGED <<phase, config, declared, release>> /\ phase = "migrate"
        /\ ExecBody \/ RecordVersion \/ Commit
    BY <1>3 DEF Migrate, MigrateStep, ExecBody, RecordVersion, Commit
  <2>2. CASE ExecBody
    BY <1>1, <2>1, <2>2 DEF ExecBody, StartInv
  <2>3. CASE RecordVersion
    BY <1>1, <2>1, <2>3 DEF RecordVersion, StartInv
  <2>4. CASE Commit
    BY <1>1, <2>1, <2>4 DEF Commit, StartInv
  <2> QED
    BY <2>1, <2>2, <2>3, <2>4
<1>4. CASE Opened \/ Serve \/ BeginShutdown
  <2>1. UNCHANGED <<config, declared, release, pending, tx>>
    BY <1>4 DEF Opened, Serve, BeginShutdown, migrateVars
  <2>2. tx = "none"
    BY <1>1, <1>4 DEF Opened, Migrated, Serve, BeginShutdown, StartInv
  <2> QED
    BY <1>1, <2>1, <2>2 DEF StartInv
<1>5. CASE Reconcile
  <2>1. /\ UNCHANGED <<phase, config, release, pending, tx>>
        /\ declared # <<>> /\ declared' = Tail(declared)
    BY <1>5 DEF Reconcile, migrateVars
  <2>2. declared \in Seq(Keys \cup {NoKey}) /\ config \in Seq(Keys \cup {NoKey})
    BY <1>1 DEF ProcessInv, ThreadsInv
  <2>3. Len(Tail(declared)) = Len(declared) - 1
    BY <2>1, <2>2
  <2>4. Len(declared') <= Len(config')
    BY <1>1, <2>1, <2>2, <2>3 DEF StartInv
  <2> QED
    BY <1>1, <2>1, <2>4 DEF StartInv
<1>6. CASE StartFails \/ Crash \/ FinishShutdown
  <2>1. IsFiniteSet({})
    BY FS_EmptySet
  <2> QED
    BY <1>6, <2>1, ExitForgets DEF StartInv
<1>7. CASE \/ PollerStep \/ TickerStep \/ \E c \in Clients : HandlerStep(c)
           \/ Cancel \/ UNCHANGED processVars
  BY <1>1, <1>7, OthersWait DEF StartInv
<1> QED
  BY <1>2, <1>3, <1>4, <1>5, <1>6, <1>7 DEF Next, MainStep

\* The cardinalities and lengths of MainRemaining are numbers, and bounded.
LEMMA MainCounts ==
  ASSUME MainInv
  PROVE  /\ IsFiniteSet(pending)
         /\ Cardinality(pending) \in Nat /\ Cardinality(release) \in Nat
         /\ Cardinality(pending) <= Cardinality(release)
         /\ pending # {} => Cardinality(pending) > 0
         /\ Len(declared) \in Nat /\ Len(config) \in Nat /\ Len(declared) <= Len(config)
         /\ MainRemaining \in 0 .. (4 + Len(config) + 3 * Cardinality(release))
         /\ phase # "down" => MainRemaining > 0
<1>1. IsFiniteSet(release) /\ pending \in SUBSET release
  BY DEF MainInv, StartInv
<1>2. IsFiniteSet(pending) /\ Cardinality(pending) <= Cardinality(release)
  BY <1>1, FS_Subset
<1>3. Cardinality(pending) \in Nat /\ Cardinality(release) \in Nat
  BY <1>1, <1>2, FS_CardinalityType
<1>4. pending # {} => Cardinality(pending) > 0
  BY <1>2, <1>3, FS_EmptySet
<1>5. Len(declared) \in Nat /\ Len(config) \in Nat /\ Len(declared) <= Len(config)
  BY DEF MainInv, StartInv, ProcessInv, ThreadsInv
<1>6. StepsOfFile[tx] \in 0 .. 2 /\ (StepsOfFile[tx] > 0 => pending # {})
  BY DEF MainInv, StartInv, StepsOfFile
<1>7. phase \in Phases
  BY DEF MainInv, ProcessInv, LoopInv
<1> DEFINE p == Cardinality(pending)
           r == Cardinality(release)
           d == Len(declared)
           c == Len(config)
           x == StepsOfFile[tx]
<1>8. MainRemaining = CASE phase = "migrate"   -> 4 + d + 3 * p - x
                        [] phase = "reconcile" -> 3 + d
                        [] phase = "serve"     -> 2
                        [] phase = "shutdown"  -> 1
                        [] OTHER               -> 0
  BY DEF MainRemaining
<1>9. p \in Nat /\ r \in Nat /\ p <= r /\ d \in Nat /\ c \in Nat /\ d <= c /\ x \in 0 .. 2 /\ (x > 0 => p > 0)
  BY <1>2, <1>3, <1>4, <1>5, <1>6
<1> HIDE DEF p, r, d, c, x
<1>10. MainRemaining \in 0 .. (4 + c + 3 * r) /\ (phase # "down" => MainRemaining > 0)
  BY <1>7, <1>8, <1>9 DEF Phases
<1> QED
  BY <1>2, <1>3, <1>4, <1>5, <1>10 DEF c, r

\* Every step main takes while it is up counts.
LEMMA MainStepCounts ==
  ASSUME MainInv, MainStep, phase # "down"
  PROVE  MainRemaining' < MainRemaining
<1>1. /\ Cardinality(pending) \in Nat /\ IsFiniteSet(pending) /\ Len(declared) \in Nat
      /\ MainRemaining \in Nat /\ MainRemaining > 0
  BY MainCounts
<1>2. ~ \E r \in Releases, doc \in Documents : Start(r, doc)
  BY DEF Start
<1>3. CASE Migrate
  <2>1. /\ phase = "migrate" /\ phase' = "migrate" /\ declared' = declared
        /\ ExecBody \/ RecordVersion \/ Commit
    BY <1>3 DEF Migrate, MigrateStep
  <2>2. /\ MainRemaining = 4 + Len(declared) + 3 * Cardinality(pending) - StepsOfFile[tx]
        /\ MainRemaining' = 4 + Len(declared) + 3 * Cardinality(pending') - StepsOfFile[tx']
    BY <2>1 DEF MainRemaining
  <2>3. CASE ExecBody \/ RecordVersion
    <3>1. /\ pending' = pending
          /\ \/ tx = "none" /\ tx' = "body"
             \/ tx = "body" /\ tx' = "recorded"
      BY <2>3 DEF ExecBody, RecordVersion
    <3>2. StepsOfFile[tx] \in Nat /\ StepsOfFile[tx'] = StepsOfFile[tx] + 1
      BY <3>1 DEF StepsOfFile
    <3> QED
      BY <1>1, <2>2, <3>1, <3>2
  <2>4. CASE Commit
    <3>1. tx = "recorded" /\ tx' = "none" /\ pending' = pending \ {NextPending}
      BY <2>4 DEF Commit
    <3>2. pending # {} /\ pending \in SUBSET Nat
      BY <3>1 DEF MainInv, StartInv
    <3>3. NextPending \in pending
      BY <3>2, LeastPending DEF NextPending
    <3>4. Cardinality(pending') = Cardinality(pending) - 1
      BY <1>1, <3>1, <3>3, FS_RemoveElement
    <3>5. StepsOfFile[tx] = 2 /\ StepsOfFile[tx'] = 0
      BY <3>1 DEF StepsOfFile
    <3> QED
      BY <1>1, <2>2, <3>4, <3>5
  <2> QED
    BY <2>1, <2>3, <2>4
<1>4. CASE Opened
  <2>1. phase = "migrate" /\ phase' = "reconcile" /\ declared' = declared /\ pending = {} /\ tx = "none"
    BY <1>4 DEF Opened, Migrated
  <2>2. Cardinality(pending) = 0 /\ StepsOfFile[tx] = 0
    BY <2>1, FS_EmptySet DEF StepsOfFile
  <2> QED
    BY <1>1, <2>1, <2>2 DEF MainRemaining
<1>5. CASE Reconcile
  <2>1. phase = "reconcile" /\ phase' = phase /\ declared # <<>> /\ declared' = Tail(declared)
    BY <1>5 DEF Reconcile
  <2>2. declared \in Seq(Keys \cup {NoKey})
    BY DEF MainInv, ProcessInv, ThreadsInv
  <2>3. Len(declared') = Len(declared) - 1
    BY <2>1, <2>2
  <2> QED
    BY <1>1, <2>1, <2>3 DEF MainRemaining
<1>6. CASE Serve \/ BeginShutdown
  BY <1>1, <1>6 DEF Serve, BeginShutdown, MainRemaining
<1>7. CASE StartFails \/ FinishShutdown
  <2>1. MainRemaining' = 0
    BY <1>7, ExitForgets DEF MainRemaining
  <2> QED
    BY <1>1, <2>1
<1> QED
  BY <1>2, <1>3, <1>4, <1>5, <1>6, <1>7 DEF MainStep

\* For all releases, configurations, clients and deaths, a run of the
\* program takes main a bounded number of steps: three for each file of its
\* release, one for each declared thread, and four.
THEOREM RunsTakeBoundedSteps == Spec => RunsAreBounded
<1> DEFINE Bounded == MainRemaining \in 0 .. (4 + Len(config) + 3 * Cardinality(release))
           Counted == /\ MainStep /\ phase # "down" => MainRemaining' < MainRemaining
                      /\ phase # "down" => MainRemaining' <= MainRemaining
                      /\ MainRemaining' \in 0 .. (4 + Len(config') + 3 * Cardinality(release'))
<1>1. MainInv => Bounded
  BY MainCounts
<1> HIDE DEF Bounded
<1>2. MainInv' => Bounded'
  BY <1>1, PTL
<1>3. MainInv /\ [Next]_processVars => MainInv'
  BY InvStep, StartInvStep DEF MainInv
<1>4. ASSUME MainInv, [Next]_processVars PROVE Counted
  <2>1. Bounded'
    BY <1>2, <1>3, <1>4
  <2>2. MainRemaining' \in Nat /\ MainRemaining' \in 0 .. (4 + Len(config') + 3 * Cardinality(release'))
    BY <2>1 DEF Bounded
  <2>3. MainRemaining \in Nat
    BY <1>4, MainCounts
  <2>4. MainStep /\ phase # "down" => MainRemaining' < MainRemaining
    BY <1>4, MainStepCounts
  <2>5. CASE MainStep
    BY <2>2, <2>3, <2>4, <2>5
  <2>6. CASE Crash
    <3>1. MainRemaining' = 0
      BY <2>6, ExitForgets DEF MainRemaining
    <3> QED
      BY <2>2, <2>3, <2>4, <3>1
  <2>7. CASE \/ PollerStep \/ TickerStep \/ \E c \in Clients : HandlerStep(c)
             \/ Cancel \/ UNCHANGED processVars
    <3>1. MainRemaining' = MainRemaining
      BY <2>7, OthersWait DEF MainRemaining
    <3> QED
      BY <2>2, <2>3, <2>4, <3>1
  <2> QED
    BY <1>4, <2>5, <2>6, <2>7 DEF Next
<1>5. MainInv /\ [Next]_processVars => [Counted]_processVars
  BY <1>4
<1>6. Init => MainInv
  BY InitInv, StartInvInit DEF MainInv
<1> HIDE DEF Counted
<1>7. Spec => [][Counted]_processVars
  BY <1>3, <1>5, <1>6, PTL DEF Spec
<1> QED
  BY <1>7 DEF RunsAreBounded, Counted
=============================================================================
