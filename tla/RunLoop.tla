------------------------------- MODULE RunLoop -------------------------------
(***************************************************************************)
(* Run of internal/poller, its ticker and its refresh channel, and the     *)
(* refresh endpoint of internal/httpserver.  What a poll does is Poller's  *)
(* subject; here it is one step.                                           *)
(*                                                                         *)
(* A request that lacks the token, or comes when the endpoint is not       *)
(* registered, is answered 404 and touches nothing: not modelled.          *)
(***************************************************************************)
EXTENDS Integers, Sequences

CONSTANT Clients   \* whoever posts to /api/threads/refresh

VARIABLES
  threads,    \* the threads table: the keys of its rows in id order
  canceled,   \* the context is canceled
  loop,       \* where Run is
  left,       \* the rows tickOnce has yet to poll
  ticker,     \* the ticker's channel: "empty" or "full", "off" before NewTicker
  queue,      \* the refresh channel: how full, capacity 1
  req         \* per client, how far its last request has got

loopVars == <<loop, left, ticker, queue, req>>

Ids == DOMAIN threads

\* none, sent (a handler is at work), accepted (202), covered (a tick began
\* after that), served (and went through every row), dropped (or failed to
\* list the rows).
LoopInit ==
  /\ canceled = FALSE
  /\ loop = "off" /\ left = {} /\ ticker = "off" /\ queue = 0
  /\ req = [c \in Clients |-> "none"]

-----------------------------------------------------------------------------
\* The endpoint

Send(c) ==
  /\ req[c] \in {"none", "served", "dropped"}
  /\ req' = [req EXCEPT ![c] = "sent"]
  /\ UNCHANGED <<loop, left, ticker, queue>>

\* A plausible bug: the channel has no buffer, so that the send only finds
\* a receiver while Run waits in its select.
RefreshUnbuffered(c) ==
  /\ req[c] = "sent"
  /\ queue' = IF loop = "select" THEN 1 ELSE queue
  /\ req' = [req EXCEPT ![c] = "accepted"]
  /\ UNCHANGED <<loop, left, ticker>>

\* handleRefresh: the non-blocking send of Refresh, and the 202.
Refresh(c) ==
  /\ req[c] = "sent"
  /\ queue' = 1
  /\ req' = [req EXCEPT ![c] = "accepted"]
  /\ UNCHANGED <<loop, left, ticker>>

-----------------------------------------------------------------------------
\* tickOnce

Advance(from, to) == req' = [c \in Clients |-> IF req[c] = from THEN to ELSE req[c]]

\* The tick is over; Run makes its ticker after the first one.
TickOver ==
  /\ loop' = "select" /\ left' = {}
  /\ ticker' = IF ticker = "off" THEN "empty" ELSE ticker

ListThreads ==
  /\ loop = "list" /\ ~ canceled
  /\ loop' = "poll" /\ left' = Ids
  /\ Advance("accepted", "covered")
  /\ UNCHANGED <<ticker, queue>>

\* It fails: always after the context is canceled, and at times otherwise;
\* the second loses the requests it was going to serve.
ListThreadsFails ==
  /\ loop = "list"
  /\ TickOver
  /\ IF canceled THEN UNCHANGED req ELSE Advance("accepted", "dropped")
  /\ UNCHANGED queue

\* pollThread, well or badly, for the next row.
PollThread ==
  /\ loop = "poll"
  /\ \E t \in left : (\A u \in left : t <= u) /\ left' = left \ {t}
  /\ UNCHANGED <<loop, ticker, queue, req>>

\* The polls of a canceled tick have failed: nothing was served.
EndTick ==
  /\ loop = "poll" /\ left = {}
  /\ TickOver
  /\ Advance("covered", IF canceled THEN "accepted" ELSE "served")
  /\ UNCHANGED queue

-----------------------------------------------------------------------------
\* Run

\* `go p.Run(ctx)`: it polls immediately on entry.
EnterRun ==
  /\ loop = "off" /\ loop' = "list"
  /\ UNCHANGED <<left, ticker, queue, req>>

TakeTick ==
  /\ loop = "select" /\ ticker = "full"
  /\ ticker' = "empty" /\ loop' = "list"
  /\ UNCHANGED <<left, queue, req>>

\* A plausible bug: a refresh is taken between two polls and starts afresh.
TakeRefreshAnytime ==
  /\ loop \in {"select", "poll"} /\ queue = 1
  /\ queue' = 0 /\ loop' = "list" /\ left' = {}
  /\ UNCHANGED <<ticker, req>>

TakeRefresh ==
  /\ loop = "select" /\ queue = 1
  /\ queue' = 0 /\ loop' = "list"
  /\ UNCHANGED <<left, ticker, req>>

ExitRun ==
  /\ loop = "select" /\ canceled
  /\ loop' = "exited"
  /\ UNCHANGED <<left, ticker, queue, req>>

\* The ticker's channel holds one tick; more are dropped.
TickerFires ==
  /\ ticker = "empty" /\ loop # "exited"
  /\ ticker' = "full"
  /\ UNCHANGED <<loop, left, queue, req>>

\* The process ends, whatever its goroutines were doing.
LoopDies ==
  /\ loop' = "off" /\ left' = {} /\ ticker' = "off" /\ queue' = 0
  /\ req' = [c \in Clients |-> CASE req[c] = "sent" -> "none"
                                 [] req[c] = "covered" -> "accepted"
                                 [] OTHER -> req[c]]

LoopStep ==
  \/ ListThreads \/ ListThreadsFails \/ PollThread \/ EndTick
  \/ TakeTick \/ TakeRefresh \/ ExitRun
=============================================================================
