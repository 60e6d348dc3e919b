----------------------------- MODULE TickProofs -----------------------------
(***************************************************************************)
(* The ticks of Poller are whole and do not overlap, proof of the          *)
(* refinement that TicksOf in PollerProps states; and a tick takes a       *)
(* bounded number of steps.                                                *)
(***************************************************************************)
EXTENDS PollerProofs, FiniteSetTheorems

Alive == pc # "boot"
Ticking == pc \notin {"idle", "boot"}

LEMMA NextCallGoesOn ==
  ASSUME NEW e, NEW result
  PROVE  NextCall(e, result) \notin {"idle", "boot"}
BY DEF NextCall

LEMMA EndpointsAreBusy == \A e \in Endpoints : e \notin {"idle", "boot", "next"}
BY DEF Endpoints

\* The steps inside a poll, and those of GitHub, are invisible.
LEMMA PollIsInvisible ==
  ASSUME \/ FetchIssue \/ \E e \in ListEndpoints : FetchList(e)
         \/ \E e \in Endpoints : Save(e)
         \/ Abort \/ Insert \/ Apply \/ Activity \/ UNCHANGED vars
  PROVE  UNCHANGED TicksOf!ticksVars
<1>1. todo' = todo /\ Alive' = Alive /\ Ticking' = Ticking
  <2>1. CASE FetchIssue
    BY <2>1, NextCallGoesOn DEF FetchIssue, Continue, Alive, Ticking
  <2>2. CASE \E e \in ListEndpoints : FetchList(e)
    <3>1. PICK e \in ListEndpoints : FetchList(e)
      BY <2>2
    <3>2. pc = e /\ pc' = NextCall(e, out') /\ todo' = todo
      BY <3>1 DEF FetchList, Continue
    <3>3. e \notin {"idle", "boot"}
      BY <3>1, EndpointsAreBusy DEF ListEndpoints
    <3> QED
      BY <3>2, <3>3, NextCallGoesOn DEF Alive, Ticking
  <2>3. CASE \E e \in Endpoints : Save(e)
    BY <2>3 DEF Save, Alive, Ticking
  <2>4. CASE Abort \/ Insert \/ Apply
    BY <2>4 DEF Abort, Insert, Apply, Return, Alive, Ticking
  <2>5. CASE Activity \/ UNCHANGED vars
    BY <2>5 DEF Activity, vars, memVars, Alive, Ticking
  <2> QED
    BY <2>1, <2>2, <2>3, <2>4, <2>5
<1> QED
  BY <1>1 DEF TicksOf!ticksVars, Alive, Ticking

\* A thread whose rows cannot be read is passed over, not left behind.
LEMMA StartPollIsPoll ==
  ASSUME NEW t \in Threads, StartPoll(t)
  PROVE  TicksOf!Poll
<1>1. /\ pc = "next" /\ t \in todo /\ \A u \in todo : t <= u
      /\ todo' = todo \ {t}
      /\ pc' \in {"next", "issue"}
  BY DEF StartPoll
<1> QED
  BY <1>1 DEF TicksOf!Poll

LEMMA TickSteps == [Next]_vars => [TicksOf!Next]_(TicksOf!ticksVars)
<1> SUFFICES ASSUME [Next]_vars
             PROVE  TicksOf!Next \/ UNCHANGED TicksOf!ticksVars
  OBVIOUS
<1>1. CASE BeginTick
  BY <1>1 DEF BeginTick, TicksOf!Next, TicksOf!Begin, TicksOf!ticksVars
<1>2. CASE EndTick
  BY <1>2 DEF EndTick, TicksOf!Next, TicksOf!End
<1>3. CASE \E t \in Threads : StartPoll(t)
  BY <1>3, StartPollIsPoll DEF TicksOf!Next
<1>4. CASE Boot
  BY <1>4 DEF Boot, TicksOf!Next, TicksOf!Revive
<1>5. CASE Crash
  BY <1>5 DEF Crash, TicksOf!Next, TicksOf!Die
<1> QED
  BY <1>1, <1>2, <1>3, <1>4, <1>5, PollIsInvisible DEF Next, PollerStep

\* Whatever fails, the poller goes through all threads once in a tick, in
\* the order of their ids, and begins no tick before the last one is over.
THEOREM PollerImplementsTicks == Spec => TicksSpec
<1>1. Init => TicksOf!Init
  BY ThreadsAssumption DEF Init, TicksOf!Init
<1> QED
  BY <1>1, TickSteps, PTL DEF Spec, TicksSpec, TicksOf!Spec

-----------------------------------------------------------------------------
(* A tick takes a bounded number of steps *)

LEMMA SubsetCounts ==
  ASSUME NEW S, NEW T \in SUBSET S, IsFiniteSet(S)
  PROVE  IsFiniteSet(T) /\ Cardinality(T) \in 0 .. Cardinality(S)
<1>1. IsFiniteSet(T) /\ Cardinality(T) <= Cardinality(S)
  BY FS_Subset
<1>2. Cardinality(T) \in Nat /\ Cardinality(S) \in Nat
  BY <1>1, FS_CardinalityType
<1> QED
  BY <1>1, <1>2

LEMMA FiveEndpoints == IsFiniteSet(Endpoints) /\ Cardinality(Endpoints) = 5
<1>1. IsFiniteSet({"issue"}) /\ Cardinality({"issue"}) = 1
  BY FS_Singleton
<1>2. IsFiniteSet({"issue"} \cup {"comments"}) /\ Cardinality({"issue"} \cup {"comments"}) = 2
  BY <1>1, FS_AddElement
<1> DEFINE B == {"issue"} \cup {"comments"}
           C == B \cup {"issue_events"}
           D == C \cup {"reviews"}
           E == D \cup {"review_comments"}
<1>3. IsFiniteSet(C) /\ Cardinality(C) = 3
  BY <1>2, FS_AddElement
<1>4. IsFiniteSet(D) /\ Cardinality(D) = 4
  BY <1>3, FS_AddElement
<1>5. IsFiniteSet(E) /\ Cardinality(E) = 5
  BY <1>4, FS_AddElement
<1>6. Endpoints = E
  BY DEF Endpoints
<1> QED
  BY <1>5, <1>6

LEMMA TodoCounts ==
  ASSUME IsFiniteSet(Threads), TypeOK'
  PROVE  Cardinality(todo') \in Nat
<1>1. todo' \in SUBSET Threads
  BY DEF TypeOK
<1>2. Cardinality(todo') \in 0 .. Cardinality(Threads)
  BY <1>1, SubsetCounts
<1> QED
  BY <1>2

\* The values of PollRemaining: it depends on where the poll is, and in the
\* loop that saves the outcomes on how many of them are left.
LEMMA RemainingOf ==
  ASSUME TypeOK
  PROVE  /\ PollRemaining \in 0 .. 13
         /\ pc \in Endpoints => PollRemaining = 8 + CallsLeft[pc]
         /\ pc = "save" => PollRemaining = 3 + Cardinality(unsaved)
<1>1. Cardinality(unsaved) \in 0 .. 5
  BY SubsetCounts, FiveEndpoints DEF TypeOK
<1>2. pc \in {"idle", "next", "save", "apply", "boot"} \cup Endpoints
  BY DEF TypeOK, Phases
<1>3. \A e \in Endpoints : CallsLeft[e] \in 1 .. 5
  BY DEF Endpoints, CallsLeft
<1>4. \A e \in Endpoints : e \notin {"idle", "next", "save", "apply", "boot"}
  BY DEF Endpoints
<1> QED
  BY <1>1, <1>2, <1>3, <1>4 DEF PollRemaining

\* An answer brings the poll to a later call, or to the saving of as many
\* outcomes as there are endpoints, at most.
LEMMA AnswerCounts ==
  ASSUME TypeOK, TypeOK', NEW e \in Endpoints, pc = e, Continue(e)
  PROVE  PollRemaining' < PollRemaining
<1>1. PollRemaining = 8 + CallsLeft[e]
  BY RemainingOf
<1>2. pc' = NextCall(e, out') /\ unsaved' \in SUBSET Endpoints
  BY DEF Continue, TypeOK
<1>3. Cardinality(unsaved') \in 0 .. 5
  BY <1>2, SubsetCounts, FiveEndpoints
<1>4. CASE pc' = "save"
  <2>1. PollRemaining' = 3 + Cardinality(unsaved')
    BY <1>4 DEF PollRemaining, Endpoints
  <2>2. CallsLeft[e] \in 1 .. 5
    BY DEF Endpoints, CallsLeft
  <2> QED
    BY <1>1, <1>3, <2>1, <2>2
<1>5. CASE pc' # "save"
  <2>1. pc' \in Endpoints /\ CallsLeft[pc'] \in Nat /\ CallsLeft[e] \in Nat /\ CallsLeft[pc'] < CallsLeft[e]
    BY <1>2, <1>5 DEF NextCall, Endpoints, CallsLeft
  <2>2. pc' \notin {"save", "apply", "next"}
    BY <2>1 DEF Endpoints
  <2>3. PollRemaining' = 8 + CallsLeft[pc']
    BY <2>1, <2>2 DEF PollRemaining
  <2> QED
    BY <1>1, <2>1, <2>3
<1> QED
  BY <1>4, <1>5

LEMMA PollCounts ==
  ASSUME TypeInv, TypeOK',
         \/ FetchIssue \/ \E e \in ListEndpoints : FetchList(e)
         \/ \E e \in Endpoints : Save(e)
         \/ Abort \/ Insert \/ Apply
  PROVE  PollRemaining' < PollRemaining /\ todo' = todo
<1>1. TypeOK /\ IsFiniteSet(unsaved) /\ Cardinality(unsaved) \in Nat
  BY SubsetCounts, FiveEndpoints DEF TypeInv, TypeOK
<1>2. CASE FetchIssue
  BY <1>1, <1>2, AnswerCounts DEF FetchIssue, Continue, Endpoints
<1>3. CASE \E e \in ListEndpoints : FetchList(e)
  <2>1. PICK e \in ListEndpoints : FetchList(e)
    BY <1>3
  <2> QED
    BY <1>1, <2>1, AnswerCounts DEF FetchList, Continue, ListEndpoints
<1>4. CASE \E e \in Endpoints : Save(e)
  <2>1. PICK e \in Endpoints : Save(e)
    BY <1>4
  <2>2. pc = "save" /\ pc' = "save" /\ e \in unsaved /\ unsaved' = unsaved \ {e} /\ todo' = todo
    BY <2>1 DEF Save
  <2>3. Cardinality(unsaved') = Cardinality(unsaved) - 1
    BY <1>1, <2>2, FS_RemoveElement
  <2>4. PollRemaining = 3 + Cardinality(unsaved) /\ PollRemaining' = 3 + Cardinality(unsaved')
    BY <2>2 DEF PollRemaining, Endpoints
  <2> QED
    BY <1>1, <2>2, <2>3, <2>4
<1>5. CASE Abort \/ Insert
  <2>1. pc = "save" /\ pc' \in {"next", "apply"} /\ todo' = todo
    BY <1>5 DEF Abort, Insert, Return
  <2>2. PollRemaining = 3 + Cardinality(unsaved) /\ PollRemaining' \in 1 .. 2
    BY <2>1 DEF PollRemaining, Endpoints
  <2> QED
    BY <1>1, <2>1, <2>2
<1>6. CASE Apply
  <2>1. pc = "apply" /\ pc' = "next" /\ todo' = todo
    BY <1>6 DEF Apply, Return
  <2> QED
    BY <2>1 DEF PollRemaining, Endpoints
<1> QED
  BY <1>2, <1>3, <1>4, <1>5, <1>6

\* Every step of the poller within a tick counts.
LEMMA TickCounts ==
  ASSUME IsFiniteSet(Threads), TypeInv, TypeOK', PollerStep, ~ BeginTick, ~ Boot
  PROVE  TickRemaining' < TickRemaining
<1>1. /\ TypeOK /\ IsFiniteSet(todo) /\ Cardinality(todo) \in Nat
      /\ PollRemaining \in 0 .. 13
  <2>1. TypeOK /\ todo \in SUBSET Threads
    BY DEF TypeInv, TypeOK
  <2>2. IsFiniteSet(todo) /\ Cardinality(todo) \in 0 .. Cardinality(Threads)
    BY <2>1, SubsetCounts
  <2> QED
    BY <2>1, <2>2, RemainingOf
<1>2. Cardinality(todo') \in Nat
  BY TodoCounts
<1>3. TickRemaining = PollRemaining + 13 * Cardinality(todo)
      /\ TickRemaining' = PollRemaining' + 13 * Cardinality(todo')
  BY DEF TickRemaining
<1>4. CASE EndTick
  <2>1. pc = "next" /\ pc' = "idle" /\ todo' = todo
    BY <1>4 DEF EndTick
  <2>2. PollRemaining = 1 /\ PollRemaining' = 0
    BY <2>1 DEF PollRemaining, Endpoints
  <2> QED
    BY <1>1, <1>3, <2>1, <2>2
<1>5. CASE \E t \in Threads : StartPoll(t)
  <2>1. PICK t \in Threads : StartPoll(t)
    BY <1>5
  <2>2. pc = "next" /\ t \in todo /\ todo' = todo \ {t} /\ pc' \in {"next", "issue"}
    BY <2>1 DEF StartPoll
  <2>3. Cardinality(todo') = Cardinality(todo) - 1
    BY <1>1, <2>2, FS_RemoveElement
  <2>4. PollRemaining = 1 /\ PollRemaining' \in {1, 13}
    BY <2>2 DEF PollRemaining, Endpoints, CallsLeft
  <2> QED
    BY <1>1, <1>3, <2>3, <2>4
<1>6. CASE ~ EndTick /\ ~ \E t \in Threads : StartPoll(t)
  <2>1. PollRemaining' < PollRemaining /\ todo' = todo
    BY <1>6, PollCounts DEF PollerStep
  <2>2. PollRemaining' \in Int
    <3>1. pc' \in Phases /\ Cardinality(unsaved') \in Nat
      BY SubsetCounts, FiveEndpoints DEF TypeOK
    <3> QED
      BY <3>1 DEF PollRemaining, Phases, Endpoints, CallsLeft
  <2> QED
    BY <1>1, <1>3, <2>1, <2>2
<1> QED
  BY <1>4, <1>5, <1>6

\* The rest never adds to a tick, but for the one that begins it.
LEMMA OthersCount ==
  ASSUME IsFiniteSet(Threads), TypeInv,
         BeginTick \/ Boot \/ Crash \/ Activity \/ UNCHANGED vars
  PROVE  \/ TickRemaining' = TickRemaining
         \/ Crash /\ TickRemaining' = 0
         \/ BeginTick /\ TickRemaining' = 13 * Cardinality(Threads) + 1
<1>1. CASE BeginTick
  <2>1. pc = "idle" /\ ((pc' = "next" /\ todo' = Threads) \/ UNCHANGED <<pc, todo, unsaved>>)
    BY <1>1 DEF BeginTick
  <2>2. Cardinality(Threads) \in Nat
    BY FS_CardinalityType
  <2>3. CASE pc' = "next" /\ todo' = Threads
    <3>1. PollRemaining' = 1
      BY <2>3 DEF PollRemaining, Endpoints
    <3> QED
      BY <1>1, <2>2, <2>3, <3>1 DEF TickRemaining
  <2>4. CASE UNCHANGED <<pc, todo, unsaved>>
    BY <2>4 DEF TickRemaining, PollRemaining
  <2> QED
    BY <2>1, <2>3, <2>4
<1>2. CASE Boot
  <2>1. PollRemaining = 0 /\ PollRemaining' = 0 /\ todo' = todo
    BY <1>2 DEF Boot, PollRemaining, Endpoints
  <2> QED
    BY <2>1 DEF TickRemaining
<1>3. CASE Crash
  <2>1. PollRemaining' = 0 /\ todo' = {}
    BY <1>3 DEF Crash, PollRemaining, Endpoints
  <2>2. Cardinality({}) = 0
    BY FS_EmptySet
  <2> QED
    BY <1>3, <2>1, <2>2 DEF TickRemaining
<1>4. CASE Activity \/ UNCHANGED vars
  BY <1>4 DEF Activity, vars, memVars, TickRemaining, PollRemaining
<1> QED
  BY <1>1, <1>2, <1>3, <1>4

TickInv == TypeInv /\ TickRemaining \in 0 .. (13 * Cardinality(Threads) + 1)

\* For every finite number of threads, a tick is over after thirteen steps
\* of the poller for each of them and one more, whatever fails and whatever
\* happens on GitHub.  With the fairness of FairSpec every tick ends.
THEOREM TicksTakeBoundedSteps ==
  ASSUME IsFiniteSet(Threads)
  PROVE  Spec => TicksAreBounded
<1> DEFINE N == Cardinality(Threads)
           Counted == /\ PollerStep /\ ~ BeginTick /\ ~ Boot => TickRemaining' < TickRemaining
                      /\ ~ BeginTick => TickRemaining' <= TickRemaining
                      /\ TickRemaining' \in 0 .. (13 * N + 1)
<1>0. N \in Nat
  BY FS_CardinalityType
<1> HIDE DEF N
<1>1. Init => TickInv
  <2> SUFFICES ASSUME Init PROVE TickInv
    OBVIOUS
  <2>1. TypeInv
    BY TypeInvInit
  <2>2. PollRemaining = 0 /\ Cardinality(todo) = 0
    BY FS_EmptySet DEF Init, PollRemaining, Endpoints
  <2> QED
    BY <1>0, <2>1, <2>2 DEF TickInv, TickRemaining, N
<1>2. ASSUME TickInv, [Next]_vars PROVE TickInv' /\ Counted
  <2>1. TypeInv /\ TypeInv' /\ TypeOK'
    BY <1>2, TypeInvNext DEF TickInv, TypeInv
  <2>2. TickRemaining \in 0 .. (13 * N + 1)
    BY <1>2 DEF TickInv, N
  <2>3. TickRemaining' \in Nat
    <3>1. pc' \in Phases /\ Cardinality(unsaved') \in Nat /\ Cardinality(todo') \in Nat
      <4>1. pc' \in Phases /\ unsaved' \in SUBSET Endpoints
        BY <2>1 DEF TypeOK
      <4>2. Cardinality(unsaved') \in Nat
        BY <4>1, SubsetCounts, FiveEndpoints
      <4> QED
        BY <2>1, <4>1, <4>2, TodoCounts
    <3>2. PollRemaining' \in Nat
      BY <3>1 DEF PollRemaining, Phases, Endpoints, CallsLeft
    <3> QED
      BY <3>1, <3>2 DEF TickRemaining
  <2>4. PollerStep /\ ~ BeginTick /\ ~ Boot => TickRemaining' < TickRemaining
    BY <2>1, TickCounts
  <2>5. ~ (PollerStep /\ ~ BeginTick /\ ~ Boot) =>
          \/ TickRemaining' = TickRemaining
          \/ Crash /\ TickRemaining' = 0
          \/ BeginTick /\ TickRemaining' = 13 * N + 1
    BY <1>2, <2>1, OthersCount DEF Next, N
  <2>6. ~ BeginTick => TickRemaining' <= TickRemaining
    BY <2>2, <2>3, <2>4, <2>5, <1>0
  <2>7. TickRemaining' \in 0 .. (13 * N + 1)
    BY <2>2, <2>3, <2>4, <2>5, <1>0
  <2> QED
    BY <2>1, <2>4, <2>6, <2>7 DEF TickInv, N
<1>3. TickInv /\ [Next]_vars => [Counted]_vars
  BY <1>2
<1>4. TickInv /\ [Next]_vars => TickInv'
  BY <1>2
<1> HIDE DEF Counted
<1>5. Spec => [][Counted]_vars
  BY <1>1, <1>3, <1>4, PTL DEF Spec
<1> QED
  BY <1>5 DEF TicksAreBounded, Counted, N
=============================================================================
