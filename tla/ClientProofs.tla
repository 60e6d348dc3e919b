---------------------------- MODULE ClientProofs ----------------------------
(***************************************************************************)
(* The retries of the client, for every number of them: a call implements  *)
(* ConditionalGet, takes a bounded number of steps, and gives up only when *)
(* it has used its attempts; and the back-off, over the overflow.          *)
(***************************************************************************)
EXTENDS Client, FiniteSetTheorems, TLAPS

ClientPhases == {"idle", "send", "sent", "answered", "wait"}
Errors == {"none", "notFound", "unauthorized", "rateLimited", "readBody", "unexpected",
           "transport", "canceled"}
Reply == [status : Nat, err : Errors, version : Nat]

ClientTypes ==
  /\ ver \in Nat /\ since \in Nat /\ tag \in Nat /\ attempt \in Nat
  /\ phase \in ClientPhases
  /\ wire \in [status : Nat, version : Nat]
  /\ reply \in Reply
  /\ canceled \in BOOLEAN

\* A response on its way tells of the resource as it was during this call.
WireInv ==
  /\ since <= ver /\ 1 <= ver
  /\ phase = "answered" =>
       /\ wire.version \in since .. ver
       /\ wire.status = 304 => wire.version = tag
       /\ wire.status = 200 => wire.version # tag

\* While get waits it has an attempt left, and the last one failed for now;
\* it returns such a failure only if it has none left, or when canceled.
AttemptInv ==
  /\ phase # "idle" => attempt \in 1 .. Attempts
  /\ phase = "wait" => attempt < Attempts /\ ShouldRetry(reply)
  /\ phase = "idle" /\ ShouldRetry(reply) => attempt = Attempts \/ canceled

ClientInv == ClientTypes /\ WireInv /\ AttemptInv

LEMMA AttemptsPositive == Attempts \in Nat \ {0}
BY RetriesAssumption DEF Attempts

LEMMA ClientInit == Init => ClientInv
<1> SUFFICES ASSUME Init PROVE ClientInv
  OBVIOUS
<1>1. ClientTypes
  BY DEF Init, ClientTypes, ClientPhases, NoReply, Reply, Errors
<1>2. WireInv
  BY DEF Init, WireInv
<1>3. AttemptInv
  BY DEF Init, AttemptInv, NoReply, ShouldRetry
<1> QED
  BY <1>1, <1>2, <1>3 DEF ClientInv

\* What an attempt concludes with is a reply.
LEMMA ReceivedReply ==
  ASSUME ClientTypes, Receive
  PROVE  \E r \in Reply : /\ Conclude(r)
                          /\ r.status = wire.status /\ r.version = wire.version
                          /\ r.err = "none" => wire.status \in {200, 304}
                          /\ r.err \notin {"canceled", "transport"}
<1>1. PICK cut \in BOOLEAN, exhausted \in BOOLEAN :
        Conclude([status |-> wire.status, err |-> Classify(wire.status, cut, exhausted),
                  version |-> wire.version])
  BY DEF Receive
<1> DEFINE err == Classify(wire.status, cut, exhausted)
<1>2. /\ err \in Errors /\ err \notin {"canceled", "transport"}
      /\ err = "none" => wire.status \in {200, 304}
  <2> wire.status \in Nat
    BY DEF ClientTypes
  <2> QED
    BY DEF Classify, Errors
<1> HIDE DEF err
<1> DEFINE r == [status |-> wire.status, err |-> err, version |-> wire.version]
<1>3. r \in Reply /\ r.status = wire.status /\ r.version = wire.version /\ r.err = err
  BY <1>2 DEF ClientTypes, Reply
<1>4. Conclude(r)
  BY <1>1 DEF err
<1> HIDE DEF r
<1> QED
  BY <1>2, <1>3, <1>4

LEMMA TransportReply ==
  TransportError \in Reply /\ TransportError.status = 0 /\ TransportError.err = "transport"
BY DEF TransportError, Reply, Errors

\* The end of an attempt keeps the invariant, whatever it concludes with.
LEMMA ConcludeInv ==
  ASSUME ClientInv, phase # "idle", NEW r \in Reply, Conclude(r)
  PROVE  ClientInv'
<1> USE DEF ClientInv
<1>1. ClientTypes'
  BY DEF Conclude, ClientTypes, ClientPhases
<1>2. WireInv'
  BY DEF Conclude, WireInv
<1>3. AttemptInv'
  <2>1. attempt \in 1 .. Attempts /\ attempt' = attempt /\ reply' = r /\ Attempts \in Nat
    BY AttemptsPositive DEF Conclude, AttemptInv
  <2>2. /\ phase' = IF ShouldRetry(r) /\ attempt < Attempts THEN "wait" ELSE "idle"
        /\ ShouldRetry(reply)' <=> ShouldRetry(r)
    BY <2>1 DEF Conclude, ShouldRetry
  <2>3. Attempts' = Attempts
    BY DEF Attempts
  <2> QED
    BY <2>1, <2>2, <2>3 DEF AttemptInv
<1> QED
  BY <1>1, <1>2, <1>3

LEMMA ClientNext == ClientInv /\ [Next]_clientVars => ClientInv'
<1> SUFFICES ASSUME ClientInv, [Next]_clientVars PROVE ClientInv'
  OBVIOUS
<1> USE DEF ClientInv
<1>0. Attempts' = Attempts /\ Attempts \in Nat \ {0}
  BY AttemptsPositive DEF Attempts
<1>1. CASE Change
  <2>1. ClientTypes' /\ WireInv'
    BY <1>1 DEF Change, ClientTypes, WireInv
  <2>2. AttemptInv'
    BY <1>0, <1>1 DEF Change, AttemptInv, ShouldRetry
  <2> QED
    BY <2>1, <2>2
<1>2. CASE Serve
  <2>0. PICK status \in {IF tag = ver THEN 304 ELSE 200, 401, 403, 404, 410, 429, 500, 503} :
          wire' = [status |-> status, version |-> ver]
    BY <1>2 DEF Serve
  <2>1. ClientTypes'
    BY <1>2, <2>0 DEF Serve, ClientTypes, ClientPhases
  <2>2. WireInv'
    BY <1>2, <2>0 DEF Serve, WireInv, ClientTypes
  <2>3. AttemptInv'
    BY <1>0, <1>2 DEF Serve, AttemptInv, ShouldRetry
  <2> QED
    BY <2>1, <2>2, <2>3
<1>3. CASE Call
  <2>1. ClientTypes'
    BY <1>3 DEF Call, ClientTypes, ClientPhases, NoReply, Reply, Errors
  <2>2. WireInv'
    BY <1>3 DEF Call, WireInv, ClientTypes
  <2>3. AttemptInv'
    BY <1>0, <1>3 DEF Call, AttemptInv
  <2> QED
    BY <2>1, <2>2, <2>3
<1>4. CASE Send
  <2>1. ClientTypes' /\ WireInv'
    BY <1>4 DEF Send, ClientTypes, ClientPhases, WireInv
  <2>2. AttemptInv'
    BY <1>0, <1>4 DEF Send, AttemptInv
  <2> QED
    BY <2>1, <2>2
<1>5. CASE NoResponse
  BY <1>5, TransportReply, ConcludeInv DEF NoResponse
<1>6. CASE Receive
  <2>1. PICK r \in Reply : Conclude(r)
    BY <1>6, ReceivedReply
  <2>2. phase # "idle"
    BY <1>6 DEF Receive
  <2> QED
    BY <2>1, <2>2, ConcludeInv
<1>7. CASE BackoffEnds
  <2>1. ClientTypes' /\ WireInv'
    BY <1>7 DEF BackoffEnds, ClientTypes, ClientPhases, WireInv
  <2>2. AttemptInv'
    BY <1>0, <1>7 DEF BackoffEnds, AttemptInv, ClientTypes
  <2> QED
    BY <2>1, <2>2
<1>8. CASE BackoffCanceled
  <2>1. ClientTypes'
    BY <1>8 DEF BackoffCanceled, ClientTypes, ClientPhases, Reply, Errors
  <2>2. WireInv'
    BY <1>8 DEF BackoffCanceled, WireInv
  <2>3. AttemptInv'
    BY <1>0, <1>8 DEF BackoffCanceled, AttemptInv
  <2> QED
    BY <2>1, <2>2, <2>3
<1>9. CASE Cancel
  <2>1. ClientTypes' /\ WireInv'
    BY <1>9 DEF Cancel, ClientTypes, WireInv
  <2>2. AttemptInv'
    BY <1>0, <1>9 DEF Cancel, AttemptInv, ShouldRetry
  <2> QED
    BY <2>1, <2>2
<1>10. CASE UNCHANGED clientVars
  <2>1. ClientTypes' /\ WireInv'
    BY <1>10 DEF clientVars, ClientTypes, WireInv
  <2>2. AttemptInv'
    BY <1>0, <1>10 DEF clientVars, AttemptInv, ShouldRetry
  <2> QED
    BY <2>1, <2>2
<1> QED
  BY <1>1, <1>2, <1>3, <1>4, <1>5, <1>6, <1>7, <1>8, <1>9, <1>10 DEF Next, GetStep

\* However many retries are configured, get gives a transient failure back
\* only when it has made all its attempts, or its context is canceled.
THEOREM RetriesAreExhausted ==
  ASSUME MaxRetries \in Nat
  PROVE  Spec => []ExhaustsRetries
<1>1. ClientInv => ExhaustsRetries
  <2>1. Attempts = MaxRetries + 1
    BY DEF Attempts
  <2> QED
    BY <2>1 DEF ClientInv, AttemptInv, ExhaustsRetries
<1> QED
  BY <1>1, ClientInit, ClientNext, PTL DEF Spec

-----------------------------------------------------------------------------
\* The refinement

Busy == phase # "idle"
Shown == IF phase = "idle" THEN Outcome(reply) ELSE Outcome(NoReply)

LEMMA NothingShown ==
  /\ Outcome(NoReply) = [status |-> "pending", version |-> 0]
  /\ Outcome(NoReply)' = [status |-> "pending", version |-> 0]
BY DEF Outcome, NoReply

LEMMA RefineGetInit == Init => Getting!Init
BY NothingShown DEF Init, Getting!Init, Getting!Pending

\* The end of an attempt is the end of the call, or invisible.
LEMMA RefineConclude ==
  ASSUME ClientInv, phase # "idle", NEW r \in Reply, Conclude(r), r # NoReply,
         /\ r.err = "none" /\ r.status \in {200, 304}
            => /\ r.version \in since .. ver
               /\ r.status = 304 <=> tag = r.version,
         r.err = "none" => r.status \in {200, 304}
  PROVE  Getting!Return \/ UNCHANGED Getting!getVars
<1>1. /\ UNCHANGED <<ver, tag, since>> /\ reply' = r
      /\ phase' \in {"wait", "idle"}
  BY DEF Conclude
<1>2. CASE phase' = "wait"
  BY <1>1, <1>2 DEF Getting!getVars
<1>3. CASE phase' = "idle"
  <2>1. Shown' = Outcome(r)
    BY <1>1, <1>3 DEF Shown, Outcome
  <2>2. \/ \E v \in since .. ver :
             Outcome(r) = [status |-> IF tag = v THEN "unchanged" ELSE "ok", version |-> v]
        \/ Outcome(r) \in [status : {"missing", "failed"}, version : {0}]
    <3>1. CASE r.err = "none" /\ r.status = 200
      <4>1. Outcome(r) = [status |-> "ok", version |-> r.version]
        <5>1. r # NoReply
          OBVIOUS
        <5> QED
          BY <3>1, <5>1 DEF Outcome
      <4> QED
        BY <3>1, <4>1
    <3>2. CASE r.err = "none" /\ r.status = 304
      <4>1. Outcome(r) = [status |-> "unchanged", version |-> r.version]
        <5>1. r # NoReply /\ r.status # 200
          BY <3>2
        <5> QED
          BY <3>2, <5>1 DEF Outcome
      <4> QED
        BY <3>2, <4>1
    <3>3. CASE r.err # "none"
      BY <3>3 DEF Outcome
    <3> QED
      BY <3>1, <3>2, <3>3
  <2> QED
    BY <1>1, <1>3, <2>1, <2>2 DEF Getting!Return, Shown
<1> QED
  BY <1>1, <1>2, <1>3

LEMMA RefineGetNext ==
  ClientInv /\ [Next]_clientVars => [Getting!Next]_(Getting!getVars)
<1> SUFFICES ASSUME ClientInv, [Next]_clientVars
             PROVE  Getting!Next \/ UNCHANGED Getting!getVars
  OBVIOUS
<1>1. CASE Change
  BY <1>1 DEF Change, Getting!Next, Getting!Change, Outcome
<1>2. CASE Call
  <2>1. Getting!Call
    BY <1>2, NothingShown DEF Call, Getting!Call, Getting!Pending
  <2> QED
    BY <2>1 DEF Getting!Next
<1>3. CASE NoResponse
  <2>1. TransportError # NoReply
    BY DEF TransportError, NoReply
  <2>2. Getting!Return \/ UNCHANGED Getting!getVars
    BY <1>3, <2>1, TransportReply, RefineConclude DEF NoResponse
  <2> QED
    BY <2>2 DEF Getting!Next
<1>4. CASE Receive
  <2>1. PICK r \in Reply : /\ Conclude(r)
                           /\ r.status = wire.status /\ r.version = wire.version
                           /\ r.err = "none" => wire.status \in {200, 304}
    BY <1>4, ReceivedReply DEF ClientInv
  <2>2. phase = "answered"
    BY <1>4 DEF Receive
  <2>3. r # NoReply
    BY <2>1 DEF NoReply
  <2>4. r.err = "none" /\ r.status \in {200, 304}
        => /\ r.version \in since .. ver
           /\ r.status = 304 <=> tag = r.version
    BY <2>1, <2>2 DEF ClientInv, WireInv, ClientTypes
  <2>5. Getting!Return \/ UNCHANGED Getting!getVars
    BY <2>1, <2>2, <2>3, <2>4, RefineConclude
  <2> QED
    BY <2>5 DEF Getting!Next
<1>5. CASE BackoffCanceled
  <2>1. Shown' = [status |-> "failed", version |-> 0]
    <3>1. reply'.err = "canceled" /\ phase' = "idle"
      BY <1>5 DEF BackoffCanceled, ClientInv, ClientTypes, Reply
    <3> QED
      BY <3>1 DEF Shown, Outcome, NoReply
  <2>2. Getting!Return
    BY <1>5, <2>1 DEF BackoffCanceled, Getting!Return, Shown
  <2> QED
    BY <2>2 DEF Getting!Next
<1>6. CASE Serve \/ Send \/ BackoffEnds
  <2>1. UNCHANGED <<ver, tag, since>> /\ phase # "idle" /\ phase' # "idle"
    BY <1>6 DEF Serve, Send, BackoffEnds
  <2> QED
    BY <2>1, NothingShown DEF Getting!getVars
<1>7. CASE Cancel \/ UNCHANGED clientVars
  <2>1. UNCHANGED <<ver, phase, tag, reply, since>>
    BY <1>7 DEF Cancel, clientVars
  <2>2. Shown' = Shown
    <3>1. Outcome(reply)' = Outcome(reply)
      BY <2>1 DEF Outcome, NoReply
    <3> QED
      BY <2>1, <3>1, NothingShown DEF Shown
  <2> QED
    BY <2>1, <2>2 DEF Getting!getVars, Shown
<1> QED
  BY <1>1, <1>2, <1>3, <1>4, <1>5, <1>6, <1>7 DEF Next, GetStep

\* With any number of retries, lost requests, lost responses and a context
\* canceled at any moment, a call is one look at the resource, or an error.
THEOREM ClientImplementsConditionalGet == Spec => ImplementsConditionalGet
BY ClientInit, ClientNext, RefineGetInit, RefineGetNext, PTL
   DEF Spec, ImplementsConditionalGet, Getting!Spec

-----------------------------------------------------------------------------
(* The back-off *)

\* A power of two counts the subsets of an interval, which double with its
\* length.
LEMMA PowerDoubles ==
  ASSUME NEW n \in Nat
  PROVE  2 ^ n \in Nat \ {0} /\ 2 ^ (n + 1) = 2 * 2 ^ n /\ 2 ^ 0 = 1
<1> DEFINE A == SUBSET (1 .. n)
           B == {T \cup {n + 1} : T \in A}
           f == [T \in A |-> T \cup {n + 1}]
<1>1. \A k \in Nat : /\ IsFiniteSet(SUBSET (1 .. k)) /\ Cardinality(SUBSET (1 .. k)) = 2 ^ k
                      /\ 2 ^ k \in Nat
  <2>1. SUFFICES ASSUME NEW k \in Nat
                 PROVE  /\ IsFiniteSet(SUBSET (1 .. k)) /\ Cardinality(SUBSET (1 .. k)) = 2 ^ k
                        /\ 2 ^ k \in Nat
    OBVIOUS
  <2>2. IsFiniteSet(1 .. k) /\ Cardinality(1 .. k) = k
    BY FS_Interval
  <2>3. IsFiniteSet(SUBSET (1 .. k)) /\ Cardinality(SUBSET (1 .. k)) = 2 ^ k
    BY <2>2, FS_SUBSET, Zenon
  <2> QED
    BY <2>3, FS_CardinalityType, Zenon
<1>2. IsFiniteSet(B) /\ Cardinality(B) = 2 ^ n
  <2>1. f \in Bijection(A, B)
    <3>1. \A T \in A : n + 1 \notin T
      OBVIOUS
    <3>2. \A S, T \in A : f[S] = f[T] => S = T
      BY <3>1
    <3>3. f \in [A -> B] /\ \A U \in B : \E T \in A : f[T] = U
      OBVIOUS
    <3> QED
      BY <3>2, <3>3 DEF Bijection, Injection, Surjection, IsInjective
  <2>2. ExistsBijection(A, B)
    BY <2>1 DEF ExistsBijection
  <2> QED
    BY <1>1, <2>2, FS_Bijection
<1>3. SUBSET (1 .. (n + 1)) = A \cup B
  <2>1. ASSUME NEW U \in SUBSET (1 .. (n + 1))
        PROVE  U \in A \cup B
    <3>1. U \ {n + 1} \in A
      OBVIOUS
    <3>2. n + 1 \in U => U = (U \ {n + 1}) \cup {n + 1}
      OBVIOUS
    <3> QED
      BY <3>1, <3>2
  <2>2. A \subseteq SUBSET (1 .. (n + 1)) /\ B \subseteq SUBSET (1 .. (n + 1))
    <3>1. 1 .. n \subseteq 1 .. (n + 1) /\ n + 1 \in 1 .. (n + 1)
      OBVIOUS
    <3> QED
      BY <3>1, Zenon
  <2> QED
    BY <2>1, <2>2
<1>4. A \cap B = {}
  OBVIOUS
<1>5. Cardinality(A \cup B) = 2 ^ n + 2 ^ n
  <2>1. IsFiniteSet(A) /\ Cardinality(A) = 2 ^ n
    BY <1>1
  <2> HIDE DEF A, B
  <2>2. Cardinality(A \cup B) = Cardinality(A) + Cardinality(B) - Cardinality(A \cap B)
    BY <1>2, <2>1, FS_Union, Zenon
  <2>3. Cardinality(A \cap B) = 0
    BY <1>4, FS_EmptySet, Zenon
  <2> QED
    BY <1>1, <1>2, <2>1, <2>2, <2>3
<1>6. 2 ^ (n + 1) = 2 ^ n + 2 ^ n
  <2>1. n + 1 \in Nat
    OBVIOUS
  <2>2. Cardinality(SUBSET (1 .. (n + 1))) = 2 ^ (n + 1)
    BY <1>1, <2>1, Zenon
  <2> QED
    BY <1>3, <1>5, <2>2, Zenon
<1>7. 2 ^ n # 0
  <2>1. IsFiniteSet(A) /\ Cardinality(A) = 2 ^ n /\ A # {}
    BY <1>1
  <2> QED
    BY <2>1, FS_EmptySet, Zenon
<1>8. 2 ^ 0 = 1
  <2>1. SUBSET (1 .. 0) = {{}}
    OBVIOUS
  <2> QED
    BY <1>1, <2>1, FS_Singleton, Zenon
<1>9. \A x \in Nat : x + x = 2 * x
  OBVIOUS
<1>10. 2 ^ n \in Nat
  BY <1>1
<1> QED
  BY <1>6, <1>7, <1>8, <1>9, <1>10, Zenon

LEMMA HasLeastNat ==
  ASSUME NEW T \in SUBSET Nat, T # {}
  PROVE  \E x \in T : \A y \in T : x <= y
<1> DEFINE Less == OpToRel(<, Nat)
<1>1. IsWellFoundedOn(Less, Nat)
  BY NatLessThanWellFounded
<1>2. \A x, y \in Nat : x < y => <<x, y>> \in Less
  BY DEF OpToRel
<1> HIDE DEF Less
<1>3. PICK x \in T : \A y \in T : ~ (<<y, x>> \in Less)
  BY <1>1, WFMin
<1>4. \A y \in T : ~ (y < x)
  BY <1>2, <1>3
<1> QED
  BY <1>4

\* Exponents add up: there is no least b for which they do not.
LEMMA PowerAdds ==
  ASSUME NEW a \in Nat, NEW b \in Nat
  PROVE  2 ^ (a + b) = 2 ^ a * 2 ^ b
<1> DEFINE T == {c \in Nat : 2 ^ (a + c) # 2 ^ a * 2 ^ c}
<1>1. SUFFICES ASSUME T # {} PROVE FALSE
  OBVIOUS
<1>2. PICK c \in T : \A y \in T : c <= y
  BY <1>1, HasLeastNat
<1>3. \A n \in Nat : 2 ^ n \in Nat /\ 2 ^ (n + 1) = 2 * 2 ^ n
  BY PowerDoubles
<1>4. c # 0
  <2>1. a + 0 = a /\ \A x \in Nat : x * 1 = x
    OBVIOUS
  <2>2. 2 ^ a * 2 ^ 0 = 2 ^ (a + 0)
    BY <1>3, <2>1, PowerDoubles, Zenon
  <2> QED
    BY <1>2, <2>2
<1> DEFINE d == c - 1
<1>5. d \in Nat /\ d + 1 = c /\ a + d \in Nat /\ (a + d) + 1 = a + c /\ ~ (c <= d)
  BY <1>2, <1>4
<1>6. 2 ^ (a + d) = 2 ^ a * 2 ^ d
  BY <1>2, <1>5
<1>7. 2 ^ (a + c) = 2 * 2 ^ (a + d) /\ 2 ^ c = 2 * 2 ^ d
  BY <1>3, <1>5, Zenon
<1>8. \A x, y \in Nat : 2 * (x * y) = x * (2 * y)
  OBVIOUS
<1>9. 2 * (2 ^ a * 2 ^ d) = 2 ^ a * (2 * 2 ^ d)
  BY <1>3, <1>5, <1>8, Zenon
<1>10. 2 ^ (a + c) = 2 ^ a * 2 ^ c
  BY <1>6, <1>7, <1>9, Zenon
<1> QED
  BY <1>2, <1>10

LEMMA Division ==
  ASSUME NEW a \in Nat, NEW M \in Nat \ {0}
  PROVE  a % M \in 0 .. (M - 1) /\ \E q \in Nat : a = M * q + (a % M)
<1>1. a \div M \in Nat /\ a = M * (a \div M) + (a % M)
  OBVIOUS
<1>2. a % M \in 0 .. (M - 1)
  OBVIOUS
<1> QED
  BY <1>1, <1>2, Zenon

\* A product of a power of two, taken modulo a power of two, is 0 or at
\* least the smaller of the two.
LEMMA PowerRemainder ==
  ASSUME NEW m \in Nat, NEW e \in Nat, NEW w \in Nat
  PROVE  (m * 2 ^ e) % 2 ^ w = 0 \/ 2 ^ e <= (m * 2 ^ e) % 2 ^ w
<1> DEFINE E == 2 ^ e
           W == 2 ^ w
           r == (m * E) % W
<1>1. E \in Nat \ {0} /\ W \in Nat \ {0}
  BY PowerDoubles
<1>2. CASE e < w
  <2>1. w - e \in Nat /\ e + (w - e) = w
    BY <1>2
  <2>2. 2 ^ w = 2 ^ e * 2 ^ (w - e) /\ 2 ^ (w - e) \in Nat
    <3>1. 2 ^ (w - e) \in Nat
      BY <2>1, PowerDoubles
    <3>2. 2 ^ (e + (w - e)) = 2 ^ e * 2 ^ (w - e)
      BY <2>1, PowerAdds, Zenon
    <3> QED
      BY <2>1, <3>1, <3>2, Zenon
  <2>3. PICK R \in Nat : W = E * R
    BY <2>2
  <2> HIDE DEF E, W
  <2>4. m * E \in Nat
    BY <1>1
  <2>5. PICK q \in Nat : m * E = W * q + r
    BY <1>1, <2>4, Division
  <2>6. r \in Nat
    BY <1>1, <2>4, Division
  <2>7. r = E * (m - R * q)
    BY <1>1, <2>3, <2>5, <2>6
  <2>8. m - R * q \in Int
    OBVIOUS
  <2>9. \A x \in Int, y \in Nat \ {0} : y * x \in Nat => y * x = 0 \/ y <= y * x
    OBVIOUS
  <2>10. r = 0 \/ E <= r
    BY <1>1, <2>6, <2>7, <2>8, <2>9
  <2> QED
    BY <2>10 DEF E, W
<1>3. CASE w <= e
  <2>1. e - w \in Nat /\ w + (e - w) = e
    BY <1>3
  <2>2. 2 ^ e = 2 ^ w * 2 ^ (e - w) /\ 2 ^ (e - w) \in Nat
    <3>1. 2 ^ (e - w) \in Nat
      BY <2>1, PowerDoubles
    <3>2. 2 ^ (w + (e - w)) = 2 ^ w * 2 ^ (e - w)
      BY <2>1, PowerAdds, Zenon
    <3> QED
      BY <2>1, <3>1, <3>2, Zenon
  <2>3. PICK R \in Nat : E = W * R
    BY <2>2
  <2> HIDE DEF E, W
  <2>4. m * E \in Nat
    BY <1>1
  <2>5. PICK q \in Nat : m * E = W * q + r
    BY <1>1, <2>4, Division
  <2>6. r \in 0 .. (W - 1)
    BY <1>1, <2>4, Division
  <2>7. r = W * (m * R - q)
    <3>1. m * (W * R) = W * (m * R)
      BY <1>1
    <3>2. r = W * (m * R) - W * q
      <4>1. W * (m * R) = W * q + r
        BY <2>3, <2>5, <3>1, Zenon
      <4>2. \A x, y, z \in Int : x = y + z => z = x - y
        OBVIOUS
      <4>3. W * (m * R) \in Int /\ W * q \in Int /\ r \in Int
        BY <1>1, <2>6
      <4> HIDE DEF r
      <4> QED
        BY <4>1, <4>2, <4>3, Zenon
    <3>3. \A x, y, z \in Int : x * y - x * z = x * (y - z)
      OBVIOUS
    <3>4. W \in Int /\ m * R \in Int /\ q \in Int
      BY <1>1
    <3> HIDE DEF r
    <3> QED
      BY <3>2, <3>3, <3>4
  <2>8. m * R - q \in Int
    OBVIOUS
  <2>9. \A x \in Int, y \in Nat \ {0} : y * x \in 0 .. (y - 1) => y * x = 0
    OBVIOUS
  <2>10. r = 0
    BY <1>1, <2>6, <2>7, <2>8, <2>9
  <2> QED
    BY <2>10 DEF E, W
<1> QED
  BY <1>2, <1>3

\* Below half the range nothing is shifted out; from there on, what is left
\* is not positive, or too large because OverflowAssumption bounds it.
LEMMA BackoffIsCapped ==
  ASSUME NEW i \in Nat \ {0}
  PROVE  LET exact == RetryBackoff * 2 ^ (i - 1)
         IN  BackoffFor(i) = IF exact < MaxRetryBackoff THEN exact ELSE MaxRetryBackoff
<1> DEFINE cap   == MaxRetryBackoff
           n     == i - 1
           exact == RetryBackoff * 2 ^ n
           H     == 2 ^ (Width - 1)
           W     == 2 ^ Width
           d     == exact % W
<1>1. PICK m \in 1 .. RetryBackoff, k \in 0 .. Width :
        RetryBackoff = m * 2 ^ k /\ m * cap < H
  BY OverflowAssumption
<1>2. /\ n \in Nat /\ k \in Nat /\ m \in Nat \ {0} /\ k + n \in Nat
      /\ Width \in Nat \ {0} /\ Width - 1 \in Nat /\ (Width - 1) + 1 = Width
      /\ RetryBackoff \in Nat \ {0} /\ cap \in Nat
  BY BackoffAssumption
<1>3. H \in Nat \ {0} /\ W = 2 * H
  <2>1. H \in Nat \ {0} /\ 2 ^ ((Width - 1) + 1) = 2 * H
    BY <1>2, PowerDoubles, Zenon
  <2> QED
    BY <1>2, <2>1, Zenon
<1>4. 2 ^ n \in Nat \ {0} /\ 2 ^ k \in Nat \ {0} /\ 2 ^ (k + n) \in Nat \ {0}
  BY <1>2, PowerDoubles, Zenon
<1>5. exact = m * 2 ^ (k + n) /\ exact \in Nat \ {0}
  <2>1. 2 ^ (k + n) = 2 ^ k * 2 ^ n
    BY <1>2, PowerAdds, Zenon
  <2>2. \A x, y, z \in Nat : (x * y) * z = x * (y * z)
    OBVIOUS
  <2>3. (m * 2 ^ k) * 2 ^ n = m * (2 ^ k * 2 ^ n)
    BY <1>2, <1>4, <2>2
  <2>4. \A x, y \in Nat \ {0} : x * y \in Nat \ {0}
    OBVIOUS
  <2>5. exact \in Nat \ {0}
    BY <1>2, <1>4, <2>4, Zenon
  <2> QED
    BY <1>1, <2>1, <2>3, <2>5, Zenon
<1>6. Shifted(i) = IF d < H THEN d ELSE d - W
  BY DEF Shifted
<1>7. BackoffFor(i) = IF Shifted(i) <= 0 \/ Shifted(i) > cap THEN cap ELSE Shifted(i)
  BY DEF BackoffFor
<1>8. d = 0 \/ 2 ^ (k + n) <= d
  BY <1>2, <1>5, PowerRemainder, Zenon
<1>9. d \in 0 .. (W - 1) /\ \E q \in Nat : exact = W * q + d
  <2>1. exact \in Nat /\ W \in Nat \ {0}
    BY <1>3, <1>5
  <2> HIDE DEF exact, W
  <2> QED
    BY <2>1, Division
<1>10. exact < W => d = exact
  <2>1. PICK q \in Nat : exact = W * q + d
    BY <1>9
  <2>2. \A x \in Nat \ {0}, p \in Nat : \A y, z \in 0 .. (x - 1) : y = x * p + z => p = 0
    OBVIOUS
  <2> QED
    BY <1>3, <1>5, <1>9, <2>1, <2>2
<1> HIDE DEF n, exact, H, W, d
<1>11. CASE exact < H
  <2>1. d = exact
    BY <1>3, <1>5, <1>10, <1>11
  <2> QED
    BY <1>2, <1>3, <1>5, <1>6, <1>7, <1>11, <2>1 DEF exact, n
<1>12. CASE H <= exact
  <2>1. cap < 2 ^ (k + n)
    <3>1. m * cap < m * 2 ^ (k + n)
      BY <1>1, <1>2, <1>3, <1>4, <1>5, <1>12
    <3>2. \A x \in Nat \ {0}, y, z \in Nat : x * y < x * z => y < z
      OBVIOUS
    <3> QED
      BY <1>2, <1>4, <3>1, <3>2
  <2>2. cap <= exact
    <3>1. \A x \in Nat \ {0}, y \in Nat : y <= x * y
      OBVIOUS
    <3> QED
      BY <1>2, <1>4, <1>5, <2>1, <3>1
  <2>3. BackoffFor(i) = cap
    BY <1>2, <1>3, <1>4, <1>6, <1>7, <1>8, <1>9, <2>1
  <2> QED
    BY <1>2, <1>5, <2>2, <2>3 DEF exact, n
<1> QED
  BY <1>3, <1>5, <1>11, <1>12

\* However many retries are configured, the delays double up to the cap and
\* stay there, though base * 2^(i-1) overflows before they are used up.
THEOREM BackoffDoubles == Spec => []BackoffIsExponential
<1>1. ClientInv => BackoffIsExponential
  <2> SUFFICES ASSUME ClientInv, phase = "wait"
               PROVE  LET exact == RetryBackoff * 2 ^ (attempt - 1)
                      IN  BackoffFor(attempt) = IF exact < MaxRetryBackoff THEN exact ELSE MaxRetryBackoff
    BY DEF BackoffIsExponential
  <2>1. attempt \in Nat \ {0}
    BY AttemptsPositive DEF ClientInv, AttemptInv
  <2> QED
    BY <2>1, BackoffIsCapped, Zenon
<1> QED
  BY <1>1, ClientInit, ClientNext, PTL DEF Spec

-----------------------------------------------------------------------------
(* A call takes a bounded number of steps *)

\* What is left of a call while it runs, by where it is.
LEMMA StepsLeftOf ==
  ASSUME ClientInv
  PROVE  /\ StepsLeft \in 0 .. (3 * Attempts)
         /\ phase = "idle" => StepsLeft = 0
         /\ phase # "idle" => StepsLeft = StepsOfAttempt[phase] + 3 * (Attempts - attempt)
         /\ phase # "idle" => StepsLeft > 0
         /\ phase \in {"send", "sent", "answered"} => StepsLeft > 3 * (Attempts - attempt) + 1
<1>1. Attempts \in Nat \ {0} /\ phase \in ClientPhases
  BY AttemptsPositive DEF ClientInv, ClientTypes
<1>2. CASE phase = "idle"
  BY <1>1, <1>2 DEF StepsLeft, StepsOfAttempt
<1>3. CASE phase # "idle"
  <2>1. attempt \in 1 .. Attempts
    BY <1>3 DEF ClientInv, AttemptInv
  <2>2. /\ StepsOfAttempt[phase] \in 1 .. 3
        /\ phase \in {"send", "sent", "answered"} => StepsOfAttempt[phase] > 1
    BY <1>1, <1>3 DEF ClientPhases, StepsOfAttempt
  <2>3. StepsLeft = StepsOfAttempt[phase] + 3 * (Attempts - attempt)
    BY <1>3 DEF StepsLeft
  <2> QED
    BY <1>1, <1>3, <2>1, <2>2, <2>3
<1> QED
  BY <1>2, <1>3

LEMMA ConcludeCounts ==
  ASSUME ClientInv, phase \in {"send", "sent", "answered"}, NEW r, Conclude(r)
  PROVE  StepsLeft' < StepsLeft
<1>1. /\ Attempts \in Nat \ {0} /\ Attempts' = Attempts
      /\ attempt \in 1 .. Attempts /\ attempt' = attempt
  BY AttemptsPositive DEF Conclude, ClientInv, AttemptInv, Attempts
<1>2. phase' \in {"wait", "idle"}
  BY DEF Conclude
<1>3. StepsLeft' <= 3 * (Attempts - attempt) + 1
  BY <1>1, <1>2 DEF StepsLeft, StepsOfAttempt
<1>4. StepsLeft > 3 * (Attempts - attempt) + 1
  BY StepsLeftOf
<1>5. StepsLeft \in Int /\ StepsLeft' \in Int
  BY <1>1, <1>2, StepsLeftOf DEF StepsLeft, StepsOfAttempt
<1> QED
  BY <1>1, <1>3, <1>4, <1>5

LEMMA GetCounts ==
  ASSUME ClientInv, GetStep
  PROVE  StepsLeft' < StepsLeft
<1>1. Attempts \in Nat \ {0} /\ Attempts' = Attempts
  BY AttemptsPositive DEF Attempts
<1>2. phase # "idle" => attempt \in 1 .. Attempts
  BY DEF ClientInv, AttemptInv
<1>3. CASE Send
  BY <1>1, <1>2, <1>3 DEF Send, StepsLeft, StepsOfAttempt
<1>4. CASE NoResponse
  BY <1>4, ConcludeCounts DEF NoResponse
<1>5. CASE Receive
  <2>1. PICK r \in Reply : Conclude(r)
    BY <1>5, ReceivedReply DEF ClientInv
  <2> QED
    BY <1>5, <2>1, ConcludeCounts DEF Receive
<1>6. CASE BackoffEnds
  BY <1>1, <1>2, <1>6 DEF BackoffEnds, StepsLeft, StepsOfAttempt
<1>7. CASE BackoffCanceled
  BY <1>1, <1>2, <1>7 DEF BackoffCanceled, StepsLeft, StepsOfAttempt
<1> QED
  BY <1>3, <1>4, <1>5, <1>6, <1>7 DEF GetStep

\* The others have no say in it.
LEMMA OthersCount ==
  ASSUME ClientInv, Change \/ Serve \/ Cancel \/ UNCHANGED clientVars
  PROVE  StepsLeft' = StepsLeft
<1>1. Attempts' = Attempts
  BY DEF Attempts
<1>2. CASE Serve
  BY <1>1, <1>2 DEF Serve, StepsLeft, StepsOfAttempt
<1>3. CASE Change \/ Cancel \/ UNCHANGED clientVars
  BY <1>1, <1>3 DEF Change, Cancel, clientVars, StepsLeft
<1> QED
  BY <1>2, <1>3

\* For every number of retries, a call of get is over after three steps for
\* each attempt, whatever GitHub, the network and the caller do.  With the
\* fairness of FairSpec, which is all that is left to TLC, it returns.
THEOREM CallsTakeBoundedSteps == Spec => CallsAreBounded
<1> DEFINE Counted == /\ GetStep => StepsLeft' < StepsLeft
                      /\ ~ Call => StepsLeft' <= StepsLeft
                      /\ StepsLeft' \in 0 .. (3 * Attempts)
           Bounded == StepsLeft \in 0 .. (3 * Attempts)
<1>1. ClientInv => Bounded
  BY StepsLeftOf
<1> HIDE DEF Bounded
<1>2. ClientInv' => Bounded'
  BY <1>1, PTL
<1>3. ASSUME ClientInv, [Next]_clientVars PROVE Counted
  <2>1. StepsLeft \in Int /\ StepsLeft' \in 0 .. (3 * Attempts)
    <3>1. ClientInv' /\ StepsLeft \in Int
      BY <1>3, StepsLeftOf, ClientNext
    <3> QED
      BY <1>2, <3>1 DEF Bounded, Attempts
  <2>2. GetStep => StepsLeft' < StepsLeft
    BY <1>3, GetCounts
  <2>3. ~ Call => StepsLeft' <= StepsLeft
    BY <1>3, <2>1, <2>2, OthersCount DEF Next
  <2> QED
    BY <2>1, <2>2, <2>3
<1>4. ClientInv /\ [Next]_clientVars => [Counted]_clientVars
  BY <1>3
<1> HIDE DEF Counted
<1>5. Spec => [][Counted]_clientVars
  BY <1>4, ClientInit, ClientNext, PTL DEF Spec
<1> QED
  BY <1>5 DEF CallsAreBounded, Counted
=============================================================================
