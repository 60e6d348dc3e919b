------------------------------ MODULE Storage ------------------------------
(***************************************************************************)
(* The statements of internal/storage that the poller and the startup path *)
(* run, as operators on one thread's share of the three tables:            *)
(*   row     its row of threads,  [kind, state, lastEventAt]               *)
(*   table   its rows of events, a set of [kind, id, at]                   *)
(*   tags    its rows of polls, endpoint -> ETag                           *)
(* SQLite is modelled by its contract: a statement, or a transaction, is   *)
(* one atomic step or has no effect.                                       *)
(*                                                                         *)
(* Columns no decision reads are left out (label, actor, body_excerpt,     *)
(* url, raw_json, last_status, last_error, the bookkeeping timestamps);    *)
(* title is written by the same rule as kind and is left out with it.      *)
(***************************************************************************)
EXTENDS Integers, FiniteSets

Kinds  == {"unknown", "issue", "pr"}    \* what the CHECK on threads.kind admits
NoTime == -1                            \* a NULL last_event_at, a nil *time.Time

\* A polls row that is absent and one whose etag is '' request alike.
LoadETags(tags) == tags
SavePollOutcome(tags, endpoint, etag) == [tags EXCEPT ![endpoint] = etag]

\* What main's reconciliation inserts: kind and state are not given there.
DefaultKind(k)  == IF k \in {"issue", "pr"} THEN k ELSE "unknown"
DefaultState(s) == IF s = "" THEN "unknown" ELSE s
NewThreadRow == [kind |-> DefaultKind(""), state |-> DefaultState(""), lastEventAt |-> NoTime]

\* A plausible bug of UpsertThread: the ON CONFLICT clause takes the
\* excluded row's kind and state as they are.
UpsertDowngrades(row, kind, state) ==
  [row EXCEPT !.kind = DefaultKind(kind), !.state = DefaultState(state)]

\* The conflict branch: a known kind or state is not downgraded.
UpsertThread(row, kind, state) ==
  [row EXCEPT
     !.kind  = IF DefaultKind(kind) = "unknown" THEN @ ELSE kind,
     !.state = IF DefaultState(state) = "unknown" THEN @ ELSE state]

Key(e) == <<e.kind, e.id>>

SeenIDs(table) == {Key(e) : e \in table}

\* A plausible bug of the schema: UNIQUE(thread_id, source_id).
InsertIgnoringKind(table, batch) ==
  table \cup {e \in batch : \A r \in table : r.id # e.id}

\* INSERT OR IGNORE of the whole batch, in one transaction, against
\* UNIQUE(thread_id, source_kind, source_id).
InsertEventsIfNew(table, batch) ==
  table \cup {e \in batch : \A r \in table : Key(r) # Key(e)}

\* Plausible bugs of ApplyThreadUpdate: the guards on empty values are
\* left out; they look at the column and not at the parameter; a state, once
\* known, is kept.
ApplyBlindly(row, update) == update
ApplyGuardsColumn(row, update) ==
  [update EXCEPT !.kind = IF row.kind = "unknown" THEN row.kind ELSE @,
                 !.state = IF row.state = "unknown" THEN row.state ELSE @]
ApplyFirstState(row, update) ==
  [update EXCEPT !.kind = IF @ = "" THEN row.kind ELSE @,
                 !.state = IF row.state # "unknown" \/ @ = "" THEN row.state ELSE @]

ApplyThreadUpdate(row, update) ==
  [kind  |-> IF update.kind \in {"", "unknown"} THEN row.kind ELSE update.kind,
   state |-> IF update.state \in {"", "unknown"} THEN row.state ELSE update.state,
   lastEventAt |-> IF update.lastEventAt = NoTime THEN row.lastEventAt
                   ELSE update.lastEventAt]

\* A plausible bug of ListEvents: the oldest events first.
ListEventsOldest(table, limit) ==
  {page \in SUBSET table :
     /\ Cardinality(page) <= limit
     /\ page # table => Cardinality(page) = limit
     /\ \A e \in page, f \in table \ page : e.at <= f.at}

\* ORDER BY occurred_at DESC, id DESC LIMIT limit: what it may return.  The
\* ids, which decide between events of the same second, are left open.
ListEvents(table, limit) ==
  {page \in SUBSET table :
     /\ Cardinality(page) <= limit
     /\ page # table => Cardinality(page) = limit
     /\ \A e \in page, f \in table \ page : f.at <= e.at}
=============================================================================
