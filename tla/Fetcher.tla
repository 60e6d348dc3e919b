------------------------------ MODULE Fetcher ------------------------------
(***************************************************************************)
(* FetchThread of internal/github, as operators on the FetchResult it      *)
(* builds.  Each operator is one endpoint's share of the function: what    *)
(* the result becomes when the (retried) GET comes back.                   *)
(*                                                                         *)
(*   answered  the keys of EndpointStatuses                                *)
(*   etags     the ETags map, NoETag where there is no key                 *)
(*   kind, state, updatedAt   the snapshot's issue fields                  *)
(*   items     the snapshot's four lists, merged                           *)
(*   err       whether FetchThread returns an error                        *)
(*                                                                         *)
(* `status` is how the GET comes back: "ok" and "unchanged" (200, 304),    *)
(* "garbled" (a 200 whose body does not decode), "missing" (404), "failed" *)
(* (any other error once the retries are used up).  `fresh` is the ETag of *)
(* a 200 or 304.  A 200 whose body breaks off counts as garbled for the    *)
(* issue, where the code has the ETag by then, and as failed for a list.   *)
(***************************************************************************)
EXTENDS GitHub

\* The kinds deriveKindState tells apart, and that of the zero snapshot.
SnapshotKinds == {"", "issue", "pr"}

Statuses == {"ok", "garbled", "unchanged", "missing", "failed"}

\* What the code holds when FetchThread is entered.  The zero snapshot has
\* no state, no kind, and the zero time for updated_at (0).
NewResult == [answered |-> {}, etags |-> [e \in Endpoints |-> NoETag],
              kind |-> "", state |-> "", updatedAt |-> 0, items |-> {}, err |-> FALSE]

\* carryETag and the recording of a status: the fresh ETag, or the one sent.
Carry(result, prev, e, fresh) ==
  [result EXCEPT !.answered = @ \cup {e},
                 !.etags[e] = IF fresh # NoETag THEN fresh ELSE prev[e]]

\* /issues/{n}: status and ETag are recorded before the error is looked at,
\* the issue fields only on a decoded 200.
IssueInto(result, prev, status, fresh, kind, resource) ==
  LET carried == Carry(result, prev, "issue",
                       IF status \in {"missing", "failed"} THEN NoETag ELSE fresh)
  IN  CASE status = "ok" ->
             [carried EXCEPT !.kind = kind, !.state = resource.state,
                             !.updatedAt = resource.updatedAt]
        [] status = "unchanged" -> carried
        [] OTHER -> [carried EXCEPT !.err = TRUE]

\* A plausible bug: the error of the decoder is ignored, and the page taken
\* for an empty one.
ListIntoLenient(result, prev, e, status, fresh, page) ==
  LET carried == Carry(result, prev, e, fresh)
  IN  CASE status = "ok"                     -> [carried EXCEPT !.items = @ \cup page]
        [] status \in {"unchanged", "garbled"} -> carried
        [] status = "missing"                -> [result EXCEPT !.answered = @ \cup {e}]
        [] OTHER                             -> [result EXCEPT !.err = TRUE]

\* fetchInto, a list endpoint: a 404 is squashed and leaves no ETag, any
\* other error returns before anything is recorded, and an undecodable body
\* returns after the ETag was carried.
ListInto(result, prev, e, status, fresh, page) ==
  LET carried == Carry(result, prev, e, fresh)
  IN  CASE status = "ok"        -> [carried EXCEPT !.items = @ \cup page]
        [] status = "unchanged" -> carried
        [] status = "garbled"   -> [carried EXCEPT !.err = TRUE]
        [] status = "missing"   -> [result EXCEPT !.answered = @ \cup {e}]
        [] OTHER                -> [result EXCEPT !.err = TRUE]

\* A plausible bug: the last endpoint is forgotten.
NextCallStops(e, result) ==
  IF result.err THEN "save" ELSE
  CASE e = "issue"        -> "comments"
    [] e = "comments"     -> "issue_events"
    [] e = "issue_events" -> IF result.kind = "pr" THEN "reviews" ELSE "save"
    [] OTHER              -> "save"

\* The order of the calls; reviews and inline comments only when this very
\* response said the thread is a pull request.
NextCall(e, result) ==
  IF result.err THEN "save" ELSE
  CASE e = "issue"        -> "comments"
    [] e = "comments"     -> "issue_events"
    [] e = "issue_events" -> IF result.kind = "pr" THEN "reviews" ELSE "save"
    [] e = "reviews"      -> "review_comments"
    [] OTHER              -> "save"
=============================================================================
