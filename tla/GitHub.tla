------------------------------- MODULE GitHub -------------------------------
(***************************************************************************)
(* The GitHub side of threadwatch, external to the repository and modelled *)
(* from how internal/github uses it: for every watched thread one issue    *)
(* resource and four activity streams, each behind an endpoint that        *)
(* answers conditional GETs.                                               *)
(*                                                                         *)
(* An ETag is modelled by the version of the resource it was issued for,   *)
(* so "If-None-Match matches" is equality of versions.  A timestamp is a   *)
(* number of seconds; two things may happen within one second.             *)
(***************************************************************************)
EXTENDS Integers, FiniteSets

CONSTANTS
  Threads,     \* ids of the rows of the threads table (AUTOINCREMENT, from 1)
  Kind,        \* Kind[t] is "issue" or "pr"
  PageSize,    \* per_page=100: a list endpoint is read for one page only
  Active,      \* the streams in which something happens
  MaxVersion   \* bound: no resource changes once its version is MaxVersion

Endpoints     == {"issue", "comments", "issue_events", "reviews", "review_comments"}
ListEndpoints == Endpoints \ {"issue"}
PROnly        == {"reviews", "review_comments"}
States        == {"open", "closed", "merged"}
NoETag        == 0

ASSUME ThreadsAssumption  == Threads \subseteq Nat \ {0}
ASSUME KindAssumption     == Kind \in [Threads -> {"issue", "pr"}]
ASSUME PageSizeAssumption == PageSize \in Nat \ {0}
ASSUME ActiveAssumption   == Active \subseteq Endpoints
ASSUME BoundAssumption    == MaxVersion \in Nat

VARIABLES
  now,     \* the clock, in seconds
  issue,   \* issue[t]: the issue resource, [state, updatedAt]
  items,   \* items[t][s]: everything posted in stream s of thread t
  ver      \* ver[t][e]: the version (ETag) endpoint e of t has now

ghVars == <<now, issue, items, ver>>

\* A plausible bug: inline comments are filed as reviews.
SourceKindShared == [comments |-> "issue_comment", issue_events |-> "issue_event",
                     reviews |-> "review", review_comments |-> "review"]

\* The source_kind under which Diff files the items of a stream.
SourceKind == [comments |-> "issue_comment", issue_events |-> "issue_event",
               reviews |-> "review", review_comments |-> "review_comment"]

\* The types of issue events, as many as are told apart; "" for other items.
EventTypes == {"", "labeled", "closed", "reopened", "merged", "subscribed"}

Item == [kind : {SourceKind[s] : s \in ListEndpoints},
         id : {""} \X Nat, at : Nat, event : EventTypes]

Streams(t) == IF Kind[t] = "pr" THEN ListEndpoints ELSE ListEndpoints \ PROnly

\* The first page of a stream: the PageSize oldest items, by id.
Page(S) == {i \in S : Cardinality({j \in S : j.id[2] < i.id[2]}) < PageSize}

GitHubTypeOK ==
  /\ now \in Nat \ {0}
  /\ issue \in [Threads -> [state : States, updatedAt : Nat]]
  /\ items \in [Threads -> [ListEndpoints -> SUBSET Item]]
  /\ ver \in [Threads -> [Endpoints -> Nat \ {NoETag}]]

GitHubInit ==
  /\ now = 1
  /\ issue = [t \in Threads |-> [state |-> "open", updatedAt |-> 1]]
  /\ items = [t \in Threads |-> [s \in ListEndpoints |-> {}]]
  /\ ver   = [t \in Threads |-> [e \in Endpoints |-> 1]]

\* Something is posted in stream s of thread t; `touched` says which
\* resources change with it.  Ids grow within a stream, not across streams:
\* the same number may be a comment and a review.
Append(t, s, event, at, touched) ==
  /\ \A e \in touched : ver[t][e] < MaxVersion
  /\ items' = [items EXCEPT ![t][s] =
       @ \cup {[kind |-> SourceKind[s], id |-> <<"", ver[t][s]>>, at |-> at, event |-> event]}]
  /\ ver' = [ver EXCEPT ![t] =
       [e \in Endpoints |-> IF e \in touched THEN ver[t][e] + 1 ELSE ver[t][e]]]

\* A comment, a review, an inline comment or a labelling.  It touches the
\* issue resource too (its updated_at and counters).  An inline comment
\* drafted earlier may carry an earlier created_at than when it appears.
Post(t, s) ==
  /\ s \in Active \cap Streams(t)
  /\ now' \in now .. (now + 1)
  /\ \E at \in (IF s = "review_comments" THEN {now, now'} ELSE {now'}) :
       Append(t, s, IF s = "issue_events" THEN "labeled" ELSE "", at, {s, "issue"})
  /\ issue' = [issue EXCEPT ![t].updatedAt = now']

\* An entry of the issue timeline that threadwatch does not surface.
PostNoise(t) ==
  /\ "issue_events" \in Active
  /\ Append(t, "issue_events", "subscribed", now, {"issue_events"})
  /\ UNCHANGED <<now, issue>>

Changes == {[from |-> "open",   to |-> "closed", event |-> "closed"],
            [from |-> "closed", to |-> "open",   event |-> "reopened"],
            [from |-> "open",   to |-> "merged", event |-> "merged"]}

\* The thread is closed, reopened or (a pull request) merged for good; the
\* issue timeline gets the matching entry.
ChangeState(t) ==
  /\ "issue" \in Active
  /\ now' \in now .. (now + 1)
  /\ \E change \in Changes :
       /\ issue[t].state = change.from
       /\ change.to = "merged" => Kind[t] = "pr"
       /\ issue' = [issue EXCEPT ![t] = [state |-> change.to, updatedAt |-> now']]
       /\ Append(t, "issue_events", change.event, now', {"issue_events", "issue"})

GitHubNext == \E t \in Threads :
  \/ \E s \in ListEndpoints : Post(t, s)
  \/ PostNoise(t)
  \/ ChangeState(t)
=============================================================================
