------------------------------ MODULE PollerInv ------------------------------
(***************************************************************************)
(* The inductive invariants behind the properties of PollerProps, proved   *)
(* in PollerProofs, StrandProofs, RowProofs and FeedProofs; TickProofs and *)
(* PageProofs rest on them too.                                            *)
(***************************************************************************)
EXTENDS PollerProps

\* No time on record is in the future.
TimeInv ==
  /\ \A t \in Threads :
       /\ issue[t].updatedAt <= now
       /\ row[t].lastEventAt <= now /\ listed[t].lastEventAt <= now
       /\ \A s \in ListEndpoints : \A i \in items[t][s] : i.at <= now
  /\ out.updatedAt <= now /\ \A i \in out.items : i.at <= now

Fetching == pc \in Endpoints
Polling  == Fetching \/ pc \in {"save", "apply"}

\* What memory holds is a function of where the poller is.
ControlInv ==
  /\ cur # NoThread <=> Polling
  /\ pc # "save" => unsaved = {}
  /\ Fetching \/ pc = "apply" => ~ out.err
  /\ unsaved \subseteq out.answered
  /\ ~ Polling => out = NewResult /\ etags = NoETags /\ seen = {}
  /\ out.err => pc = "save"

\* The type invariant made inductive: the times are bounded by the clock,
\* so that the latest of them exists, and a poll has a thread.
TypeInv == TypeOK /\ TimeInv /\ ControlInv

\* The calls that have been answered so far, in the order of FetchThread.
CallInv ==
  /\ pc = "issue" => out = NewResult
  /\ pc \in ListEndpoints \cup {"apply"} \/ (pc = "save" /\ ~ out.err) => "issue" \in out.answered
  /\ pc \in PROnly => out.kind = "pr" /\ {"comments", "issue_events"} \subseteq out.answered
  /\ pc = "issue_events" => "comments" \in out.answered
  /\ pc = "review_comments" => "reviews" \in out.answered
  /\ pc = "save" /\ ~ out.err /\ out.kind = "pr" => PROnly \subseteq out.answered
  /\ pc = "save" /\ ~ out.err => {"comments", "issue_events"} \subseteq out.answered
  /\ out.kind \in {"", "unknown"} \/ (cur \in Threads /\ out.kind = Kind[cur])

\* Reviews and inline comments exist on pull requests only.
StreamInv ==
  \A t \in Threads : \A s \in PROnly : Kind[t] = "issue" => items[t][s] = {}

\* No ETag is newer than the resource it was given for.
TagInv ==
  /\ \A t \in Threads : \A e \in Endpoints : polls[t][e] <= ver[t][e]
  /\ cur \in Threads => \A e \in Endpoints :
       etags[e] <= ver[cur][e] /\ out.etags[e] <= ver[cur][e]

\* The endpoints asked before e in a poll.
Earlier == [issue           |-> {},
            comments        |-> {"issue"},
            issue_events    |-> {"issue", "comments"},
            reviews         |-> {"issue", "comments", "issue_events"},
            review_comments |-> {"issue", "comments", "issue_events", "reviews"}]

\* What the running poll holds, whatever has failed before it.  The stored
\* ETags are those it sent, or already those it was given.  An ETag it was
\* given for a stream and that GitHub still has came with the body in the
\* snapshot, unless it is the one sent.  While a new ETag of the issue is
\* GitHub's, so is any of a stream of pull requests.
HeldInv ==
  /\ Fetching \/ pc = "save" =>
       /\ seen = Recorded(cur)
       /\ ~ out.err => \A s \in out.answered \cap ListEndpoints :
            out.etags[s] = ver[cur][s] =>
              etags[s] = ver[cur][s] \/ Wanted(cur, s) \subseteq Keys(out.items)
       /\ /\ ~ out.err /\ "issue" \in out.answered
          /\ out.etags["issue"] = ver[cur]["issue"] /\ etags["issue"] # ver[cur]["issue"]
          => /\ out.kind = Kind[cur]
             /\ \A s \in PROnly \cap out.answered : out.etags[s] \in {NoETag, ver[cur][s]}
  /\ Fetching => out.answered \subseteq Earlier[pc]
  /\ \A e \in Endpoints : e \notin out.answered => out.etags[e] = NoETag
  /\ Fetching => \A e \in Endpoints : polls[cur][e] = etags[e]
  /\ pc \in {"save", "apply"} => \A e \in Endpoints : polls[cur][e] \in {etags[e], out.etags[e]}

\* The issue as the running poll got it: a body says the state GitHub has,
\* unless the issue has changed since, and a 304 leaves the ETag as it was.
SnapshotInv ==
  /\ "issue" \in out.answered /\ ~ out.err /\ out.state = "" =>
       out.etags["issue"] = etags["issue"]
  /\ out.state # "" =>
       /\ "issue" \in out.answered
       /\ out.etags["issue"] = ver[cur]["issue"] => out.state = issue[cur].state
       /\ etags["issue"] # ver[cur]["issue"]

\* What the losses of a poll rest on; it holds whatever fails.
PollInv == ControlInv /\ CallInv /\ StreamInv /\ TagInv /\ HeldInv /\ SnapshotInv

-----------------------------------------------------------------------------
\* The streams that are not asked for, or answered empty, when endpoint e
\* answers 304.
Silenced(e) == IF e = "issue" THEN PROnly ELSE {e}

\* If endpoint e of t answers tag with 304, nothing is missed by it: every
\* event of the streams it silences is in `have`.
Vouched(t, e, tag, have) ==
  tag = ver[t][e] => \A s \in Silenced(e) : Wanted(t, s) \subseteq have

\* Every ETag the poller holds or has stored vouches for its streams: the
\* stored ones by the events table alone, except those the running poll is
\* replacing; the new ones by the table and the poll's snapshot together.
VouchInv ==
  /\ \A t \in Threads : \A e \in Endpoints :
       ~ (cur = t /\ pc = "save") => Vouched(t, e, polls[t][e], Recorded(t))
  /\ Fetching \/ pc = "save" =>
       /\ seen = Recorded(cur)
       /\ \A e \in Endpoints : Vouched(cur, e, etags[e], Recorded(cur))
       /\ \A e \in out.answered \cap ListEndpoints :
            Vouched(cur, e, out.etags[e], Recorded(cur) \cup Keys(out.items))
       /\ \A s \in PROnly :
            /\ "issue" \in out.answered
            /\ s \in out.answered \/ out.kind # "pr"
            /\ out.etags["issue"] = ver[cur]["issue"]
            => Wanted(cur, s) \subseteq Recorded(cur) \cup Keys(out.items)
  /\ Fetching => \A e \in Endpoints : polls[cur][e] = etags[e]
  /\ pc = "save" => \A e \in Endpoints :
       polls[cur][e] = etags[e] \/ (e \in out.answered /\ polls[cur][e] = out.etags[e])
  /\ out.err => /\ out.answered = {"issue"}
                /\ out.etags["issue"] = etags["issue"]

\* NothingStranded made inductive; it holds when Faults \subseteq SafeFaults.
StrandInv == ControlInv /\ CallInv /\ StreamInv /\ TagInv /\ VouchInv

-----------------------------------------------------------------------------
\* What the poll knows of the thread is still so when it is used: nobody but
\* the poll itself writes its row and its events.
ViewInv ==
  /\ cur \notin todo
  /\ \A t \in Threads \cap (todo \cup {cur}) : listed[t] = row[t]
  /\ Polling => seen \subseteq Recorded(cur)
  /\ Fetching \/ pc = "save" => seen = Recorded(cur)
  /\ pc = "apply" => NewEvents(Existing, out) \subseteq events[cur]

\* A kind, once found out, is the thread's.
KindInv ==
  /\ \A t \in Threads : row[t].kind \in {"unknown", Kind[t]}
  /\ cur \in Threads => out.kind \in {"", Kind[cur]}

\* The id of a state change tells its time.
StateChangeInv ==
  \A t \in Threads : \A e \in events[t] : e.kind = "state_change" => e.at = e.id[2]

\* LastEventRecorded made inductive, and what the action properties of the
\* row rest on; it holds whatever fails.
RowInv == ViewInv /\ KindInv /\ StateChangeInv /\ LastEventRecorded

\* LastEventCovers made inductive: what a poll has inserted and not yet
\* shown is its own batch, from which it computes the time to show.
CoverInv ==
  \A t \in Threads : \A e \in events[t] :
    e.at <= row[t].lastEventAt
      \/ (cur = t /\ pc = "apply" /\ e \in NewEvents(Existing, out))

-----------------------------------------------------------------------------
\* What is posted in a stream is new there: ids grow.
ItemInv ==
  \A t \in Threads : \A s \in ListEndpoints : \A i \in items[t][s] :
    /\ i.kind = SourceKind[s] /\ i.id[2] < ver[t][s]
    /\ \A j \in items[t][s] : i.id[2] = j.id[2] => i = j

-----------------------------------------------------------------------------
\* The state last announced for t: between the insert and the update, the
\* one the running poll has found; otherwise the one the row shows.
Announced(t) ==
  IF cur = t /\ pc = "apply" /\ out.state # "" THEN out.state ELSE row[t].state

\* An announcement of s may still come: GitHub has it, or the poll under
\* way holds it, or GitHub has it since that poll asked.
Due(t, s) ==
  \/ issue[t].state = s /\ Announced(t) # s
  \/ /\ cur = t /\ out.state # ""
     /\ \/ out.state = s /\ Announced(t) # s
        \/ issue[t].state = s /\ out.state # s

\* The failures to allow for, if any can come between insert and update.
Repeats == IF Faults \cap {"crash", "applyError"} = {} THEN 0 ELSE faults

Allowed(t, s) == Entered(t, s) + Repeats

\* EachChangeFiresOnce and RepeatsTakeFailures made inductive: the
\* announcement that is due has an entry or a failure of its own to account
\* for it, beside those made.
Credit(t, s) ==
  /\ IsFiniteSet(StateChanges(t, s)) /\ IsFiniteSet(Entries(t, s))
  /\ Cardinality(StateChanges(t, s)) <= Allowed(t, s)
  /\ Due(t, s) => Cardinality(StateChanges(t, s)) < Allowed(t, s)

CreditInv == \A t \in Threads : \A s \in States : Credit(t, s)

-----------------------------------------------------------------------------
\* The thread left state s at time u or later; and was back by time v.
LeftSince(t, s, u) == \E r \in States \ {s} : \E i \in Entries(t, r) : u <= i.at
BackBetween(t, s, u, v) ==
  \E i \in Entries(t, s) : /\ u <= i.at /\ i.at <= v
                          /\ \E r \in States \ {s} : \E j \in Entries(t, r) : u <= j.at /\ j.at <= v

\* A state announced is the one GitHub had then, and while it is not, the
\* thread has left it since; if it may be announced again, it is back.
AnnouncedBefore(t, s) ==
  \A e \in StateChanges(t, s) :
    /\ e.at <= issue[t].updatedAt
    /\ issue[t].state = s \/ LeftSince(t, s, e.at)
    /\ Due(t, s) => BackBetween(t, s, e.at, issue[t].updatedAt)

\* The same of the state the running poll of t has found out, which it may
\* be about to announce with an id that is taken.
FoundOut(t) ==
  cur = t /\ out.state # "" =>
    /\ out.updatedAt <= issue[t].updatedAt
    /\ issue[t].state = out.state \/ LeftSince(t, out.state, out.updatedAt)
    /\ row[t].state # out.state =>
         \A e \in StateChanges(t, out.state) :
           Key(e) \in seen => BackBetween(t, out.state, e.at, out.updatedAt)

\* What SwallowsOnlyWithinASecond rests on; it holds when nothing separates
\* the insert from the update.
ReturnInv ==
  \A t \in Threads :
    /\ \A s \in States : \A i \in Entries(t, s) : i.at <= issue[t].updatedAt
    /\ \A s \in States : AnnouncedBefore(t, s)
    /\ FoundOut(t)

-----------------------------------------------------------------------------
\* The snapshot of a poll holds items of its own thread, and noise is only
\* among the issue events, where Diff drops it: what the refinement of Feed
\* rests on.
PostedInv ==
  /\ \A t \in Threads : \A s \in ListEndpoints : \A i \in items[t][s] :
       i.event = "subscribed" => i.kind = "issue_event"
  /\ cur \in Threads => out.items \subseteq UNION {items[cur][s] : s \in ListEndpoints}

\* KeysTellApart made inductive, with ItemInv and RowInv: the timeline holds
\* the items themselves.
TimelineInv ==
  \A t \in Threads : \A e \in events[t] : e.kind # "state_change" => e \in PostedItems(t)
=============================================================================
