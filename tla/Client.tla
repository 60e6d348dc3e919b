------------------------------- MODULE Client -------------------------------
(***************************************************************************)
(* The HTTP client of internal/github: get with its retries and back-off,  *)
(* doGet with its classification of responses, and the context that may be *)
(* canceled at any moment of it.  GitHub may change the resource, refuse,  *)
(* fail, or answer too late; a request or a response may be lost.          *)
(***************************************************************************)
EXTENDS Integers

CONSTANTS
  MaxRetries,        \* additional attempts; NewClient gives 2
  RetryBackoff,      \* the base delay, and
  MaxRetryBackoff,   \* its cap, in a unit of time
  Width,             \* of a time.Duration in bits, 64
  MaxVersion         \* bound: the resource does not change after this version

ASSUME RetriesAssumption == MaxRetries \in Int
ASSUME BackoffAssumption == RetryBackoff \in Nat /\ MaxRetryBackoff \in Nat /\ Width \in Nat \ {0}

\* A base delay of m * 2^k cannot wrap around into a delay below the cap,
\* for 2^k stays a divisor of it: 500 ms are 1953125 * 2^8 ns, 30 s are
\* 3 * 10^10 ns and 1953125 * 3 * 10^10 < 2^63.
ASSUME OverflowAssumption ==
  \E m \in 1 .. RetryBackoff, k \in 0 .. Width :
    RetryBackoff = m * 2 ^ k /\ m * MaxRetryBackoff < 2 ^ (Width - 1)

VARIABLES
  ver,        \* the version of the resource, which is its ETag
  phase,      \* where get is
  tag,        \* the ETag it sends, 0 for none
  attempt,    \* how many attempts it has begun
  wire,       \* the response on its way: a status and the version it tells of
  reply,      \* what the last attempt returned: status, error, version
  canceled,   \* the context is canceled
  since       \* history: the version when get was called

clientVars == <<ver, phase, tag, attempt, wire, reply, canceled, since>>

NoReply == [status |-> 0, err |-> "none", version |-> 0]

Init ==
  /\ ver = 1 /\ phase = "idle" /\ tag = 0 /\ attempt = 0 /\ since = 1
  /\ wire = [status |-> 0, version |-> 0] /\ reply = NoReply
  /\ canceled = FALSE

-----------------------------------------------------------------------------
\* The operators of client.go

\* Plausible bug: MaxRetries taken for the number of attempts.
RetriesOnly == IF MaxRetries < 1 THEN 1 ELSE MaxRetries

Attempts == IF MaxRetries + 1 < 1 THEN 1 ELSE MaxRetries + 1

\* doGet's error for a status; `cut` when the body breaks off, `exhausted`
\* when the rate-limit headers say none is left until a reset.
Classify(status, cut, exhausted) ==
  CASE status = 200 -> IF cut THEN "readBody" ELSE "none"
    [] status = 304 -> "none"
    [] status = 404 -> "notFound"
    [] status = 401 -> "unauthorized"
    [] status = 403 -> IF exhausted THEN "rateLimited" ELSE "unauthorized"
    [] status = 429 -> "rateLimited"
    [] OTHER -> "unexpected"

\* A transport error has no status.
ShouldRetry(r) == r.err # "none" /\ (r.status = 0 \/ r.status \in 500 .. 599)

\* base << (i - 1), as a signed integer of Width bits.
Shifted(i) ==
  LET d == (RetryBackoff * 2 ^ (i - 1)) % 2 ^ Width
  IN  IF d < 2 ^ (Width - 1) THEN d ELSE d - 2 ^ Width

\* Plausible bug: no test for the overflow.
CappedOnly(i) == IF Shifted(i) > MaxRetryBackoff THEN MaxRetryBackoff ELSE Shifted(i)

BackoffFor(i) ==
  IF Shifted(i) <= 0 \/ Shifted(i) > MaxRetryBackoff THEN MaxRetryBackoff ELSE Shifted(i)

-----------------------------------------------------------------------------
\* GitHub

Change ==
  /\ ver < MaxVersion /\ ver' = ver + 1
  /\ UNCHANGED <<phase, tag, attempt, wire, reply, canceled, since>>

\* It answers the request as the resource is now, or refuses, or fails.
Serve ==
  /\ phase = "sent"
  /\ \E status \in {IF tag = ver THEN 304 ELSE 200, 401, 403, 404, 410, 429, 500, 503} :
       wire' = [status |-> status, version |-> ver]
  /\ phase' = "answered"
  /\ UNCHANGED <<ver, tag, attempt, reply, canceled, since>>

-----------------------------------------------------------------------------
\* get

\* The caller has an ETag of this or an earlier version, or none.
Call ==
  /\ phase = "idle"
  /\ tag' \in 0 .. ver /\ since' = ver
  /\ phase' = "send" /\ attempt' = 1 /\ reply' = NoReply
  /\ UNCHANGED <<ver, wire, canceled>>

\* An attempt is over: get returns, or waits before the next.
Conclude(r) ==
  /\ reply' = r
  /\ wire' = [status |-> 0, version |-> 0]
  /\ phase' = IF ShouldRetry(r) /\ attempt < Attempts THEN "wait" ELSE "idle"
  /\ UNCHANGED <<ver, tag, attempt, canceled, since>>

Send ==
  /\ phase = "send" /\ ~ canceled
  /\ phase' = "sent"
  /\ UNCHANGED <<ver, tag, attempt, wire, reply, canceled, since>>

TransportError == [status |-> 0, err |-> "transport", version |-> 0]

\* Plausible bug: a client without a time-out (http.DefaultClient).
Hang == phase \in {"send", "sent", "answered"} /\ canceled /\ Conclude(TransportError)

\* No response: the connection breaks, the client's time-out strikes, or
\* the context is canceled.  GitHub may have served the request.
NoResponse == phase \in {"send", "sent", "answered"} /\ Conclude(TransportError)

Receive ==
  /\ phase = "answered"
  /\ \E cut, exhausted \in BOOLEAN :
       LET err == Classify(wire.status, cut, exhausted)
       IN  Conclude([status |-> wire.status, err |-> err, version |-> wire.version])

\* Plausible bug: the attempt is not counted.
BackoffEndsUncounted ==
  /\ phase = "wait"
  /\ phase' = "send"
  /\ UNCHANGED <<ver, tag, attempt, wire, reply, canceled, since>>

\* The timer; when the context is canceled as well, either may be chosen.
BackoffEnds ==
  /\ phase = "wait"
  /\ phase' = "send" /\ attempt' = attempt + 1
  /\ UNCHANGED <<ver, tag, wire, reply, canceled, since>>

\* Plausible bug: the error of the context is not returned.
BackoffForgetsError ==
  /\ phase = "wait" /\ canceled
  /\ phase' = "idle" /\ reply' = [reply EXCEPT !.err = "none"]
  /\ UNCHANGED <<ver, tag, attempt, wire, canceled, since>>

\* The response of the attempt before, with the error of the context.
BackoffCanceled ==
  /\ phase = "wait" /\ canceled
  /\ phase' = "idle" /\ reply' = [reply EXCEPT !.err = "canceled"]
  /\ UNCHANGED <<ver, tag, attempt, wire, canceled, since>>

Cancel ==
  /\ ~ canceled /\ canceled' = TRUE
  /\ UNCHANGED <<ver, phase, tag, attempt, wire, reply, since>>

-----------------------------------------------------------------------------
GetStep == Send \/ NoResponse \/ Receive \/ BackoffEnds \/ BackoffCanceled

Next == Change \/ Serve \/ Call \/ GetStep \/ Cancel

Spec == Init /\ [][Next]_clientVars

\* The poller's goroutine runs and time passes: a timer fires, a time-out
\* strikes.  GitHub need not answer.
FairSpec == Spec /\ WF_clientVars(GetStep)

-----------------------------------------------------------------------------
\* Properties

\* What the fetcher makes of a reply.
Outcome(r) ==
  CASE r = NoReply -> [status |-> "pending", version |-> 0]
    [] r # NoReply /\ r.err = "none" ->
         [status |-> IF r.status = 200 THEN "ok" ELSE
                     IF r.status = 304 THEN "unchanged" ELSE "taken for a success",
          version |-> r.version]
    [] r.err = "notFound" -> [status |-> "missing", version |-> 0]
    [] OTHER -> [status |-> "failed", version |-> 0]

Getting == INSTANCE ConditionalGet WITH
  busy <- (phase # "idle"),
  outcome <- IF phase = "idle" THEN Outcome(reply) ELSE Outcome(NoReply)

\* With any number of attempts, lost answers and cancellation at any moment,
\* a call comes back as one look at the resource between its start and its
\* end, or as an error: "GETs are idempotent, so a retry is always safe".
ImplementsConditionalGet == Getting!Spec

\* A transient failure is given up only after all the attempts, or when the
\* context is canceled: one 5xx or lost answer does not cost a poll.
ExhaustsRetries ==
  phase = "idle" /\ ShouldRetry(reply) /\ ~ canceled => attempt = MaxRetries + 1

\* The delays double up to the cap, however many retries are configured:
\* base * 2^(i-1) overflows before they are used up.
BackoffIsExponential ==
  phase = "wait" =>
    LET exact == RetryBackoff * 2 ^ (attempt - 1)
    IN  BackoffFor(attempt) = IF exact < MaxRetryBackoff THEN exact ELSE MaxRetryBackoff

\* An attempt takes a request, a conclusion and a wait at most.
StepsOfAttempt == [idle |-> 0, send |-> 3, sent |-> 2, answered |-> 2, wait |-> 1]
StepsLeft ==
  StepsOfAttempt[phase] + (IF phase = "idle" THEN 0 ELSE 3 * (Attempts - attempt))

\* A call is over after three steps of get for each attempt, however GitHub,
\* the network and the caller behave: no response, no retry and no
\* cancellation sets it back.
CallsAreBounded ==
  [][/\ GetStep => StepsLeft' < StepsLeft
     /\ ~ Call => StepsLeft' <= StepsLeft
     /\ StepsLeft' \in 0 .. (3 * Attempts)]_clientVars

\* Whether or not GitHub ever answers, a call returns: a poll cannot hang.
EveryCallReturns == (phase # "idle") ~> (phase = "idle")
=============================================================================
