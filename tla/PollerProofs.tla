---------------------------- MODULE PollerProofs ----------------------------
(***************************************************************************)
(* Proofs about Poller, for every set of threads, page size and bound.     *)
(***************************************************************************)
EXTENDS PollerInv, WellFoundedInduction, TLAPS

-----------------------------------------------------------------------------
(* The latest of a bounded set of times *)

\* A nonempty set of natural numbers has a least element.
LEMMA HasLeast ==
  ASSUME NEW T \in SUBSET Nat, T # {}
  PROVE  \E x \in T : \A y \in T : x <= y
<1> DEFINE Less == OpToRel(<, Nat)
<1>1. IsWellFoundedOn(Less, Nat)
  BY NatLessThanWellFounded
<1>2. \A x, y \in Nat : x < y => <<x, y>> \in Less
  BY DEF OpToRel
<1> HIDE DEF Less
<1>3. PICK x \in T : \A y \in T : ~ (<<y, x>> \in Less)
  BY <1>1, WFMin
<1>4. \A y \in T : ~ (y < x)
  BY <1>2, <1>3
<1> QED
  BY <1>4

\* Max of a nonempty set of integers that is bounded above is its latest
\* element: the CHOOSE in its definition has something to choose.
LEMMA MaxIsLatest ==
  ASSUME NEW b \in Int, NEW S \in SUBSET Int, S # {}, \A x \in S : x <= b
  PROVE  Max(S) \in S /\ \A x \in S : x <= Max(S)
<1> DEFINE T == {b - x : x \in S}
<1>1. T \in SUBSET Nat
  <2> SUFFICES ASSUME NEW x \in S PROVE b - x \in Nat
    OBVIOUS
  <2> QED
    OBVIOUS
<1>2. T # {}
  OBVIOUS
<1>3. PICK m \in T : \A y \in T : m <= y
  BY <1>1, <1>2, HasLeast
<1>4. PICK x \in S : m = b - x
  BY <1>3
<1>5. \A y \in S : x >= y
  BY <1>3, <1>4
<1> QED
  BY <1>5 DEF Max

-----------------------------------------------------------------------------
(* The types of the operators *)

LEMMA NewThreadRowType == NewThreadRow \in Row
  BY DEF NewThreadRow, Row, DefaultKind, DefaultState, Kinds, NoTime

LEMMA UpsertType ==
  ASSUME NEW r \in Row
  PROVE  UpsertThread(r, "", "") = r
<1> QED
  BY DEF UpsertThread, Row, DefaultKind, DefaultState

LEMMA NewResultType == NewResult \in Result /\ NoETags \in [Endpoints -> Nat]
  BY DEF NewResult, Result, NoETags, NoETag, SnapshotKinds, Endpoints

LEMMA SurfacedType ==
  ASSUME NEW S \in SUBSET Item
  PROVE  Surfaced(S) \subseteq Event
<1> SUFFICES ASSUME NEW i \in Item
             PROVE  [kind |-> i.kind, id |-> i.id, at |-> i.at] \in Event
  BY DEF Surfaced
<1> QED
  BY DEF Item, Event, EventKinds, EventIds

LEMMA KeyType ==
  ASSUME NEW S \in SUBSET Event
  PROVE  SeenIDs(S) \subseteq EventKinds \X EventIds
  BY DEF SeenIDs, Key, Event

LEMMA CarryType ==
  ASSUME NEW r \in Result, NEW prev \in [Endpoints -> Nat], NEW e \in Endpoints, NEW fresh \in Nat,
         NEW c, c = Carry(r, prev, e, fresh)
  PROVE  /\ c \in Result
         /\ c.answered = r.answered \cup {e}
         /\ c.etags = [r.etags EXCEPT ![e] = IF fresh # NoETag THEN fresh ELSE prev[e]]
         /\ c.kind = r.kind /\ c.state = r.state /\ c.updatedAt = r.updatedAt
         /\ c.items = r.items /\ c.err = r.err
<1> QED
  BY DEF Carry, Result

LEMMA IssueIntoType ==
  ASSUME NEW r \in Result, NEW prev \in [Endpoints -> Nat], NEW fresh \in Nat,
         NEW status \in Statuses, NEW kind \in {"issue", "pr"},
         NEW resource \in [state : States, updatedAt : Nat]
  PROVE  IssueInto(r, prev, status, fresh, kind, resource) \in Result
<1> DEFINE f == IF status \in {"missing", "failed"} THEN NoETag ELSE fresh
           c == Carry(r, prev, "issue", f)
<1>1. c \in Result
  <2>1. f \in Nat /\ "issue" \in Endpoints
    BY DEF NoETag, Endpoints
  <2>2. c = Carry(r, prev, "issue", f)
    OBVIOUS
  <2> HIDE DEF f, c
  <2> QED
    BY <2>1, <2>2, CarryType
<1>2. [c EXCEPT !.kind = kind, !.state = resource.state, !.updatedAt = resource.updatedAt] \in Result
  BY <1>1 DEF Result, SnapshotKinds
<1>3. [c EXCEPT !.err = TRUE] \in Result
  BY <1>1 DEF Result
<1> QED
  BY <1>1, <1>2, <1>3 DEF IssueInto

LEMMA ListIntoType ==
  ASSUME NEW r \in Result, NEW prev \in [Endpoints -> Nat], NEW e \in Endpoints, NEW fresh \in Nat,
         NEW status \in Statuses, NEW page \in SUBSET Item
  PROVE  ListInto(r, prev, e, status, fresh, page) \in Result
<1> DEFINE c == Carry(r, prev, e, fresh)
<1>1. c \in Result
  BY CarryType
<1>2. [c EXCEPT !.items = c.items \cup page] \in Result
  BY <1>1 DEF Result
<1>3. [c EXCEPT !.err = TRUE] \in Result /\ [r EXCEPT !.err = TRUE] \in Result
  BY <1>1 DEF Result
<1>4. [r EXCEPT !.answered = r.answered \cup {e}] \in Result
  BY DEF Result
<1> QED
  BY <1>1, <1>2, <1>3, <1>4 DEF ListInto

\* What each answer leaves in the result, field by field.
LEMMA IssueIntoFields ==
  ASSUME NEW r \in Result, NEW prev \in [Endpoints -> Nat], NEW fresh \in Nat \ {NoETag},
         NEW status \in Statuses, NEW kind \in {"issue", "pr"},
         NEW resource \in [state : States, updatedAt : Nat],
         NEW o, o = IssueInto(r, prev, status, fresh, kind, resource)
  PROVE  /\ o.answered = r.answered \cup {"issue"}
         /\ o.items = r.items
         /\ o.err <=> status \in {"garbled", "missing", "failed"} \/ r.err
         /\ o.kind = IF status = "ok" THEN kind ELSE r.kind
         /\ o.state = IF status = "ok" THEN resource.state ELSE r.state
         /\ o.updatedAt = IF status = "ok" THEN resource.updatedAt ELSE r.updatedAt
         /\ o.etags["issue"] = IF status \in {"missing", "failed"} THEN prev["issue"] ELSE fresh
         /\ \A x \in ListEndpoints : o.etags[x] = r.etags[x]
<1> DEFINE f == IF status \in {"missing", "failed"} THEN NoETag ELSE fresh
           c == Carry(r, prev, "issue", f)
<1>1. /\ c \in Result
      /\ c.answered = r.answered \cup {"issue"}
      /\ c.etags = [r.etags EXCEPT !["issue"] = IF f # NoETag THEN f ELSE prev["issue"]]
      /\ c.kind = r.kind /\ c.state = r.state /\ c.updatedAt = r.updatedAt
      /\ c.items = r.items /\ c.err = r.err
  <2>1. f \in Nat /\ "issue" \in Endpoints
    BY DEF NoETag, Endpoints
  <2>2. c = Carry(r, prev, "issue", f)
    OBVIOUS
  <2> HIDE DEF f, c
  <2> QED
    BY <2>1, <2>2, CarryType
<1> HIDE DEF c
<1> USE DEF ListEndpoints, Endpoints
<1>tags. /\ c.etags["issue"] = IF f # NoETag THEN f ELSE prev["issue"]
      /\ \A x \in ListEndpoints : c.etags[x] = r.etags[x]
  BY <1>1 DEF Result
<1>2. CASE status = "ok"
  <2>1. o = [c EXCEPT !.kind = kind, !.state = resource.state, !.updatedAt = resource.updatedAt]
    BY <1>2 DEF IssueInto, c, f
  <2>2. /\ o.answered = c.answered /\ o.etags = c.etags /\ o.kind = kind
        /\ o.state = resource.state /\ o.updatedAt = resource.updatedAt
        /\ o.items = c.items /\ o.err = c.err
    BY <1>1, <2>1 DEF Result
  <2> QED
    BY <1>1, <1>2, <1>tags, <2>2 DEF NoETag
<1>3. CASE status = "unchanged"
  <2>1. o = c
    BY <1>3 DEF IssueInto, c, f
  <2> QED
    BY <1>1, <1>3, <1>tags, <2>1 DEF NoETag
<1>4. CASE status \in {"garbled", "missing", "failed"}
  <2>1. o = [c EXCEPT !.err = TRUE]
    BY <1>4 DEF IssueInto, c, f
  <2>2. /\ o.answered = c.answered /\ o.etags = c.etags /\ o.kind = c.kind /\ o.state = c.state
        /\ o.updatedAt = c.updatedAt /\ o.items = c.items /\ o.err = TRUE
    BY <1>1, <2>1 DEF Result
  <2>3. c.etags["issue"] = IF status \in {"missing", "failed"} THEN prev["issue"] ELSE fresh
    BY <1>tags DEF NoETag
  <2> QED
    BY <1>1, <1>4, <1>tags, <2>2, <2>3
<1> QED
  BY <1>2, <1>3, <1>4 DEF Statuses

LEMMA ListIntoFields ==
  ASSUME NEW r \in Result, NEW prev \in [Endpoints -> Nat], NEW e \in Endpoints,
         NEW fresh \in Nat \ {NoETag}, NEW status \in Statuses, NEW page \in SUBSET Item,
         NEW o, o = ListInto(r, prev, e, status, fresh, page)
  PROVE  /\ status = "failed" => o.answered = r.answered
         /\ status # "failed" => o.answered = r.answered \cup {e}
         /\ status = "ok" => o.items = r.items \cup page
         /\ status # "ok" => o.items = r.items
         /\ o.err <=> status \in {"garbled", "failed"} \/ r.err
         /\ o.kind = r.kind /\ o.state = r.state /\ o.updatedAt = r.updatedAt
         /\ o.etags[e] = IF status \in {"missing", "failed"} THEN r.etags[e] ELSE fresh
         /\ \A x \in Endpoints : x # e => o.etags[x] = r.etags[x]
<1> DEFINE c == Carry(r, prev, e, fresh)
<1>1. /\ c \in Result
      /\ c.answered = r.answered \cup {e}
      /\ c.etags = [r.etags EXCEPT ![e] = fresh]
      /\ c.kind = r.kind /\ c.state = r.state /\ c.updatedAt = r.updatedAt
      /\ c.items = r.items /\ c.err = r.err
  BY CarryType
<1> HIDE DEF c
<1>tags. c.etags[e] = fresh /\ \A x \in Endpoints : x # e => c.etags[x] = r.etags[x]
  BY <1>1 DEF Result
<1>2. CASE status = "ok"
  <2>1. o = [c EXCEPT !.items = c.items \cup page]
    BY <1>2 DEF ListInto, c
  <2>2. /\ o.answered = c.answered /\ o.etags = c.etags /\ o.kind = c.kind /\ o.state = c.state
        /\ o.updatedAt = c.updatedAt /\ o.items = c.items \cup page /\ o.err = c.err
    BY <1>1, <2>1 DEF Result
  <2> QED
    BY <1>1, <1>2, <1>tags, <2>2
<1>3. CASE status = "unchanged"
  <2>1. o = c
    BY <1>3 DEF ListInto, c
  <2> QED
    BY <1>1, <1>3, <1>tags, <2>1
<1>4. CASE status = "garbled"
  <2>1. o = [c EXCEPT !.err = TRUE]
    BY <1>4 DEF ListInto, c
  <2>2. /\ o.answered = c.answered /\ o.etags = c.etags /\ o.kind = c.kind /\ o.state = c.state
        /\ o.updatedAt = c.updatedAt /\ o.items = c.items /\ o.err = TRUE
    BY <1>1, <2>1 DEF Result
  <2> QED
    BY <1>1, <1>4, <1>tags, <2>2, ZenonT(60)
<1>5. CASE status = "missing"
  <2>1. o = [r EXCEPT !.answered = r.answered \cup {e}]
    BY <1>5 DEF ListInto, c
  <2> QED
    BY <1>5, <2>1 DEF Result
<1>6. CASE status = "failed"
  <2>1. o = [r EXCEPT !.err = TRUE]
    BY <1>6 DEF ListInto, c
  <2> QED
    BY <1>6, <2>1 DEF Result
<1> QED
  BY <1>2, <1>3, <1>4, <1>5, <1>6 DEF Statuses

-----------------------------------------------------------------------------
(* Type correctness *)

LEMMA PageSubset == ASSUME NEW S PROVE Page(S) \subseteq S
  BY DEF Page

LEMMA TypeInvInit == Init => TypeInv
<1> SUFFICES ASSUME Init PROVE TypeInv
  OBVIOUS
<1> USE DEF Init, GitHubInit
<1>1. NewThreadRow \in Row /\ NewResult \in Result /\ NoETags \in [Endpoints -> Nat]
  BY NewThreadRowType, NewResultType
<1>2. TypeOK
  BY <1>1, FaultsAssumption DEF TypeOK, GitHubTypeOK, NoListing, States, Phases, NoETag
<1>3. TimeInv
  <2>1. NewThreadRow.lastEventAt = -1 /\ NewResult.updatedAt = 0 /\ NewResult.items = {}
    BY DEF NewThreadRow, NewResult, NoTime
  <2> QED
    BY <2>1 DEF TimeInv, NoListing
<1>4. ControlInv
  BY DEF ControlInv, Fetching, Polling, Endpoints, NewResult, NoThread
<1> QED
  BY <1>2, <1>3, <1>4 DEF TypeInv

\* What a step of GitHub does: one item appears in one stream, the resources
\* it touches get a new version, and time does not go back.
LEMMA ActivityShape ==
  ASSUME TypeOK, Activity
  PROVE  /\ now' \in Nat \ {0} /\ now <= now'
         /\ \E t \in Threads, s \in ListEndpoints, touched \in SUBSET Endpoints, i \in Item :
              /\ s \in Streams(t) /\ s \in touched /\ (s \in PROnly => "issue" \in touched)
              /\ touched \subseteq {s, "issue"}
              /\ i.kind = SourceKind[s] /\ i.at <= now'
              /\ items' = [items EXCEPT ![t][s] = items[t][s] \cup {i}]
              /\ ver' = [ver EXCEPT ![t] = [e \in Endpoints |->
                           IF e \in touched THEN ver[t][e] + 1 ELSE ver[t][e]]]
              /\ \/ issue' = issue
                 \/ \E r \in [state : States, updatedAt : Nat] :
                      r.updatedAt <= now' /\ issue' = [issue EXCEPT ![t] = r]
<1>1. PICK t \in Threads :
        \/ \E s \in ListEndpoints : Post(t, s)
        \/ PostNoise(t)
        \/ ChangeState(t)
  BY DEF Activity, GitHubNext
<1>2. now \in Nat \ {0} /\ issue[t] \in [state : States, updatedAt : Nat]
  BY DEF TypeOK, GitHubTypeOK
<1>3. now' \in Nat \ {0} /\ now <= now'
  <2>1. CASE \E s \in ListEndpoints : Post(t, s)
    <3>1. now' \in now .. (now + 1)
      BY <2>1 DEF Post
    <3> QED
      BY <1>2, <3>1
  <2>2. CASE PostNoise(t)
    BY <1>2, <2>2 DEF PostNoise
  <2>3. CASE ChangeState(t)
    <3>1. now' \in now .. (now + 1)
      BY <2>3 DEF ChangeState
    <3> QED
      BY <1>2, <3>1
  <2> QED
    BY <1>1, <2>1, <2>2, <2>3
<1>4. ASSUME NEW s \in ListEndpoints, NEW at \in Nat, NEW ev \in EventTypes
      PROVE  [kind |-> SourceKind[s], id |-> <<"", ver[t][s]>>, at |-> at, event |-> ev] \in Item
  <2>1. ver[t][s] \in Nat
    BY <1>4 DEF TypeOK, GitHubTypeOK, ListEndpoints
  <2> QED
    BY <1>4, <2>1 DEF Item
<1>5. CASE \E s \in ListEndpoints : Post(t, s)
  <2>1. PICK s \in ListEndpoints : Post(t, s)
    BY <1>5
  <2>2. PICK at :
          /\ at = now \/ at = now'
          /\ Append(t, s, IF s = "issue_events" THEN "labeled" ELSE "", at, {s, "issue"})
    BY <2>1 DEF Post
  <2> DEFINE i == [kind |-> SourceKind[s], id |-> <<"", ver[t][s]>>, at |-> at,
                   event |-> IF s = "issue_events" THEN "labeled" ELSE ""]
             r == [issue[t] EXCEPT !.updatedAt = now']
  <2>3. i \in Item /\ i.kind = SourceKind[s] /\ i.at <= now'
    <3>0. at = now \/ at = now'
      BY <2>2
    <3>1. at \in Nat /\ at <= now'
      BY <1>2, <1>3, <3>0
    <3>2. (IF s = "issue_events" THEN "labeled" ELSE "") \in EventTypes
      BY DEF EventTypes
    <3>3. i \in Item
      BY <1>4, <3>1, <3>2
    <3> QED
      BY <3>1, <3>3
  <2>4. /\ items' = [items EXCEPT ![t][s] = items[t][s] \cup {i}]
        /\ ver' = [ver EXCEPT ![t] = [e \in Endpoints |->
                     IF e \in {s, "issue"} THEN ver[t][e] + 1 ELSE ver[t][e]]]
    BY <2>2 DEF Append
  <2>5. /\ s \in Streams(t) /\ {s, "issue"} \in SUBSET Endpoints
        /\ issue' = [issue EXCEPT ![t] = r]
    BY <2>1 DEF Post, ListEndpoints, Endpoints
  <2>6. r \in [state : States, updatedAt : Nat] /\ r.updatedAt <= now'
    BY <1>2, <1>3
  <2> HIDE DEF i, r
  <2> QED
    BY <1>3, <2>3, <2>4, <2>5, <2>6
<1>6. CASE PostNoise(t)
  <2> DEFINE s == "issue_events"
             i == [kind |-> SourceKind[s], id |-> <<"", ver[t][s]>>, at |-> now,
                   event |-> "subscribed"]
  <2>1. i \in Item /\ i.kind = SourceKind[s] /\ i.at <= now'
    BY <1>2, <1>3, <1>4 DEF ListEndpoints, Endpoints, EventTypes
  <2>2. /\ items' = [items EXCEPT ![t][s] = items[t][s] \cup {i}]
        /\ ver' = [ver EXCEPT ![t] = [e \in Endpoints |->
                     IF e \in {s} THEN ver[t][e] + 1 ELSE ver[t][e]]]
        /\ issue' = issue
    BY <1>6 DEF PostNoise, Append
  <2>3. s \in Streams(t) /\ s \in ListEndpoints /\ {s} \in SUBSET Endpoints /\ s \notin PROnly
    BY DEF Streams, ListEndpoints, Endpoints, PROnly
  <2> HIDE DEF i, s
  <2> QED
    BY <1>3, <2>1, <2>2, <2>3
<1>7. CASE ChangeState(t)
  <2> DEFINE s == "issue_events"
  <2>1. PICK change \in Changes :
          /\ issue' = [issue EXCEPT ![t] = [state |-> change.to, updatedAt |-> now']]
          /\ Append(t, s, change.event, now', {s, "issue"})
    BY <1>7 DEF ChangeState
  <2> DEFINE i == [kind |-> SourceKind[s], id |-> <<"", ver[t][s]>>, at |-> now',
                   event |-> change.event]
             r == [state |-> change.to, updatedAt |-> now']
  <2>2. i \in Item /\ i.kind = SourceKind[s] /\ i.at <= now'
    <3>1. \/ change.event = "closed" \/ change.event = "reopened"
          \/ change.event = "merged"
      BY <2>1 DEF Changes
    <3>2. change.event \in EventTypes
      BY <3>1 DEF EventTypes
    <3>3. s \in ListEndpoints
      BY DEF ListEndpoints, Endpoints
    <3>4. i \in Item
      BY <1>3, <1>4, <3>2, <3>3
    <3>5. i.kind = SourceKind[s] /\ i.at = now'
      OBVIOUS
    <3> HIDE DEF i, s
    <3> QED
      BY <1>3, <3>4, <3>5
  <2>3. /\ items' = [items EXCEPT ![t][s] = items[t][s] \cup {i}]
        /\ ver' = [ver EXCEPT ![t] = [e \in Endpoints |->
                     IF e \in {s, "issue"} THEN ver[t][e] + 1 ELSE ver[t][e]]]
        /\ issue' = [issue EXCEPT ![t] = r]
    BY <2>1 DEF Append
  <2>4. r \in [state : States, updatedAt : Nat] /\ r.updatedAt <= now'
    BY <1>3, <2>1 DEF Changes, States
  <2>5. s \in Streams(t) /\ s \in ListEndpoints /\ {s, "issue"} \in SUBSET Endpoints
    BY DEF Streams, ListEndpoints, Endpoints, PROnly
  <2> HIDE DEF i, r, s
  <2> QED
    BY <1>3, <2>2, <2>3, <2>4, <2>5
<1> QED
  BY <1>1, <1>3, <1>5, <1>6, <1>7

\* GitHub's own steps keep the types, and no time is in the future.
LEMMA ActivityType ==
  ASSUME TypeInv, Activity
  PROVE  TypeInv'
<1> USE DEF TypeInv
<1>1. PICK t \in Threads, s \in ListEndpoints, touched \in SUBSET Endpoints, i \in Item :
        /\ i.at <= now'
        /\ items' = [items EXCEPT ![t][s] = items[t][s] \cup {i}]
        /\ ver' = [ver EXCEPT ![t] = [e \in Endpoints |->
                     IF e \in touched THEN ver[t][e] + 1 ELSE ver[t][e]]]
        /\ \/ issue' = issue
           \/ \E r \in [state : States, updatedAt : Nat] :
                r.updatedAt <= now' /\ issue' = [issue EXCEPT ![t] = r]
  BY ActivityShape, ZenonT(60)
<1>2. now' \in Nat \ {0} /\ now \in Nat /\ now <= now'
  BY ActivityShape DEF TypeOK, GitHubTypeOK
<1>3. UNCHANGED <<dbVars, memVars, faults>>
  BY DEF Activity
<1>4. items' \in [Threads -> [ListEndpoints -> SUBSET Item]]
  BY <1>1 DEF TypeOK, GitHubTypeOK
<1>5. ver' \in [Threads -> [Endpoints -> Nat \ {NoETag}]]
  <2>1. ver \in [Threads -> [Endpoints -> Nat \ {NoETag}]]
    BY DEF TypeOK, GitHubTypeOK
  <2>2. [e \in Endpoints |-> IF e \in touched THEN ver[t][e] + 1 ELSE ver[t][e]]
          \in [Endpoints -> Nat \ {NoETag}]
    BY <2>1 DEF NoETag
  <2> QED
    BY <1>1, <2>1, <2>2
<1>6. /\ issue' \in [Threads -> [state : States, updatedAt : Nat]]
      /\ \A u \in Threads : issue'[u].updatedAt <= now'
  <2>1. issue \in [Threads -> [state : States, updatedAt : Nat]]
        /\ \A u \in Threads : issue[u].updatedAt <= now'
    BY <1>2 DEF TypeOK, GitHubTypeOK, TimeInv
  <2> QED
    BY <1>1, <2>1
<1>7. TypeOK'
  BY <1>2, <1>3, <1>4, <1>5, <1>6 DEF TypeOK, GitHubTypeOK, dbVars, memVars
<1>8. \A u \in Threads, r \in ListEndpoints : \A j \in items'[u][r] : j.at <= now'
  <2> SUFFICES ASSUME NEW u \in Threads, NEW r \in ListEndpoints, NEW j \in items'[u][r]
               PROVE  j.at <= now'
    OBVIOUS
  <2>1. j \in items[u][r] \/ j = i
    BY <1>1 DEF TypeOK, GitHubTypeOK
  <2>2. ASSUME j \in items[u][r] PROVE j.at <= now /\ j.at \in Nat
    <3>1. j \in Item
      BY <2>2 DEF TypeOK, GitHubTypeOK
    <3> QED
      BY <2>2, <3>1 DEF TimeInv, Item
  <2> QED
    BY <1>1, <1>2, <2>1, <2>2
<1>9. TimeInv'
  <2>1. \A u \in Threads : row'[u].lastEventAt <= now' /\ listed'[u].lastEventAt <= now'
    <3> SUFFICES ASSUME NEW u \in Threads
                 PROVE  row[u].lastEventAt <= now' /\ listed[u].lastEventAt <= now'
      BY <1>3 DEF dbVars, memVars
    <3>1. row[u].lastEventAt \in Int /\ listed[u].lastEventAt \in Int
      BY DEF TypeOK, Row, NoTime
    <3>2. row[u].lastEventAt <= now /\ listed[u].lastEventAt <= now
      BY DEF TimeInv
    <3> QED
      BY <1>2, <3>1, <3>2
  <2>2. out'.updatedAt <= now' /\ \A j \in out'.items : j.at <= now'
    <3>1. out' = out /\ out.updatedAt \in Nat /\ \A j \in out.items : j.at \in Nat
      BY <1>3 DEF TypeOK, Result, Item, memVars
    <3>2. out.updatedAt <= now /\ \A j \in out.items : j.at <= now
      BY DEF TimeInv
    <3> QED
      BY <1>2, <3>1, <3>2
  <2> QED
    BY <1>6, <1>8, <2>1, <2>2 DEF TimeInv
<1>10. ControlInv'
  BY <1>3 DEF ControlInv, Fetching, Polling, memVars
<1> QED
  BY <1>7, <1>9, <1>10

\* The events Diff finds have times up to now, so the latest exists.
LEMMA NewEventsType ==
  ASSUME TypeInv, cur \in Threads
  PROVE  /\ NewEvents(Existing, out) \subseteq Event
         /\ \A e \in NewEvents(Existing, out) : e.at <= now
         /\ LastEventAt(Existing, NewEvents(Existing, out)) \in Nat \cup {NoTime}
         /\ LastEventAt(Existing, NewEvents(Existing, out)) <= now
         /\ LastEventAt(Existing, NewEvents(Existing, out)) \in
              {Existing.lastEventAt} \cup {e.at : e \in NewEvents(Existing, out)}
         /\ Existing.lastEventAt <= LastEventAt(Existing, NewEvents(Existing, out))
         /\ \A e \in NewEvents(Existing, out) :
              e.at <= LastEventAt(Existing, NewEvents(Existing, out))
<1> USE DEF TypeInv
<1>1. out \in Result /\ listed[cur] \in Row /\ now \in Nat
  BY DEF TypeOK, GitHubTypeOK
<1>2. Surfaced(out.items) \subseteq Event /\ \A e \in Surfaced(out.items) : e.at <= now
  <2>1. out.items \in SUBSET Item
    BY <1>1 DEF Result
  <2>2. Surfaced(out.items) \subseteq Event
    BY <2>1, SurfacedType
  <2>3. ASSUME NEW e \in Surfaced(out.items) PROVE e.at <= now
    <3>1. PICK i \in out.items : e = [kind |-> i.kind, id |-> i.id, at |-> i.at]
      BY DEF Surfaced
    <3> QED
      BY <3>1 DEF TimeInv
  <2> QED
    BY <2>2, <2>3
<1>3. StateChange(Existing, out) \subseteq Event /\ \A e \in StateChange(Existing, out) : e.at <= now
  <2> DEFINE e == [kind |-> "state_change", id |-> <<out.state, out.updatedAt>>,
                   at |-> out.updatedAt]
  <2>1. out.state \in {""} \cup States /\ out.updatedAt \in Nat /\ out.updatedAt <= now
    BY <1>1 DEF Result, TimeInv
  <2>2. e \in Event /\ e.at <= now
    BY <2>1 DEF Event, EventKinds, EventIds
  <2>3. StateChange(Existing, out) \subseteq {e}
    BY DEF StateChange
  <2> HIDE DEF e
  <2> QED
    BY <2>2, <2>3
<1> DEFINE N == NewEvents(Existing, out)
           T == {Existing.lastEventAt} \cup {e.at : e \in N}
<1>4. N \subseteq Event /\ \A e \in N : e.at <= now
  BY <1>2, <1>3 DEF NewEvents
<1>5. Existing.lastEventAt \in Nat \cup {NoTime} /\ Existing.lastEventAt <= now
  BY <1>1 DEF Existing, Row, TimeInv
<1>6. /\ T \in SUBSET Int /\ T # {} /\ \A x \in T : x <= now
      /\ T \subseteq Nat \cup {NoTime}
  BY <1>4, <1>5 DEF Event, NoTime
<1>7. LastEventAt(Existing, N) = Max(T)
  BY DEF LastEventAt
<1> HIDE DEF T, N
<1>8. Max(T) \in T /\ \A x \in T : x <= Max(T)
  BY <1>1, <1>6, MaxIsLatest
<1>9. Max(T) \in Nat \cup {NoTime} /\ Max(T) <= now
  BY <1>6, <1>8
<1> QED
  BY <1>4, <1>7, <1>8, <1>9 DEF N, T

\* The two halves of FetchThread leave a well-typed result, whose items are
\* from the past, and go on to a call, or to the saving loop with the
\* endpoints that answered.
LEMMA FetchType ==
  ASSUME TypeInv, NEW e \in Endpoints, pc = e,
         IF e = "issue" THEN FetchIssue ELSE FetchList(e)
  PROVE  TypeInv'
<1> USE DEF TypeInv
<1>1. cur \in Threads /\ pc \in Endpoints
  BY DEF TypeOK, ControlInv, Fetching, Polling, NoThread
<1>2. /\ out \in Result /\ etags \in [Endpoints -> Nat] /\ ~ out.err
      /\ ver[cur][e] \in Nat \ {NoETag} /\ issue[cur] \in [state : States, updatedAt : Nat]
      /\ issue[cur].updatedAt <= now /\ Kind[cur] \in {"issue", "pr"}
  BY <1>1, KindAssumption DEF TypeOK, GitHubTypeOK, TimeInv, ControlInv, Fetching
<1>3. /\ out' \in Result /\ out'.updatedAt <= now /\ \A i \in out'.items : i.at <= now
      /\ Continue(e) /\ faults' \in 0 .. MaxFaults
  <2>1. CASE e = "issue"
    <3>1. PICK status \in Statuses :
            /\ Answer("issue", status)
            /\ out' = IssueInto(out, etags, status, ver[cur]["issue"], Kind[cur], issue[cur])
      BY <2>1 DEF FetchIssue
    <3>2. out' \in Result
      BY <1>2, <2>1, <3>1, IssueIntoType
    <3>3. /\ out'.items = out.items
          /\ out'.updatedAt = IF status = "ok" THEN issue[cur].updatedAt ELSE out.updatedAt
      BY <1>2, <2>1, <3>1, IssueIntoFields
    <3>4. faults' \in 0 .. MaxFaults
      BY <3>1, FaultsAssumption DEF Answer, Fault, TypeOK
    <3>5. Continue(e)
      BY <2>1 DEF FetchIssue
    <3> QED
      BY <1>2, <3>2, <3>3, <3>4, <3>5 DEF TimeInv
  <2>2. CASE e # "issue"
    <3>1. PICK status \in Statuses :
            /\ Answer(e, status)
            /\ out' = ListInto(out, etags, e, status, ver[cur][e], Page(items[cur][e]))
      BY <2>2 DEF FetchList
    <3>2. /\ Page(items[cur][e]) \in SUBSET Item
          /\ \A i \in Page(items[cur][e]) : i.at <= now
      <4>1. items[cur][e] \in SUBSET Item /\ \A i \in items[cur][e] : i.at <= now
        BY <1>1, <2>2 DEF TypeOK, GitHubTypeOK, TimeInv, ListEndpoints
      <4> QED
        BY <4>1, PageSubset
    <3>3. out' \in Result
      BY <1>2, <3>1, <3>2, ListIntoType
    <3>4. /\ status = "ok" => out'.items = out.items \cup Page(items[cur][e])
          /\ status # "ok" => out'.items = out.items
          /\ out'.updatedAt = out.updatedAt
      BY <1>2, <3>1, <3>2, ListIntoFields
    <3>5. faults' \in 0 .. MaxFaults
      BY <3>1, FaultsAssumption DEF Answer, Fault, TypeOK
    <3>6. Continue(e)
      BY <2>2 DEF FetchList
    <3> QED
      BY <3>2, <3>3, <3>4, <3>5, <3>6 DEF TimeInv
  <2> QED
    BY <2>1, <2>2
<1>4. /\ pc' \in ListEndpoints \cup {"save"} /\ (out'.err => pc' = "save")
      /\ unsaved' = IF pc' = "save" THEN out'.answered ELSE {}
      /\ UNCHANGED <<ghVars, dbVars, todo, listed, cur, etags, seen>>
  <2>1. pc' = NextCall(e, out')
    BY <1>3 DEF Continue
  <2>2. pc' \in ListEndpoints \cup {"save"} /\ (out'.err => pc' = "save")
    BY <2>1 DEF NextCall, ListEndpoints, Endpoints
  <2> QED
    BY <1>3, <2>2 DEF Continue
<1>5. TypeOK'
  BY <1>3, <1>4 DEF TypeOK, GitHubTypeOK, ghVars, dbVars, Phases, ListEndpoints, Result
<1>6. TimeInv'
  BY <1>3, <1>4 DEF TimeInv, ghVars, dbVars
<1>7. ControlInv'
  <2>1. Polling /\ Polling'
    BY <1>1, <1>4 DEF Polling, Fetching, ListEndpoints
  <2>2. pc' # "apply"
    BY <1>4 DEF ListEndpoints, Endpoints
  <2>3. Fetching' => pc' # "save"
    BY DEF Fetching, Endpoints
  <2> QED
    BY <1>1, <1>3, <1>4, <2>1, <2>2, <2>3 DEF ControlInv
<1> QED
  BY <1>5, <1>6, <1>7

LEMMA TypeInvNext == TypeInv /\ [Next]_vars => TypeInv'
<1> SUFFICES ASSUME TypeInv, [Next]_vars PROVE TypeInv'
  OBVIOUS
<1> USE DEF TypeInv
<1>1. CASE BeginTick
  <2>1. TypeOK'
    BY <1>1, FaultsAssumption
    DEF BeginTick, TypeOK, GitHubTypeOK, ghVars, dbVars, Phases, Fault
  <2>2. TimeInv'
    BY <1>1 DEF BeginTick, TimeInv, ghVars, dbVars
  <2>3. ControlInv'
    BY <1>1 DEF BeginTick, ControlInv, Polling, Fetching, Endpoints
  <2> QED
    BY <2>1, <2>2, <2>3
<1>2. CASE EndTick
  <2>1. TypeOK'
    BY <1>2, NewThreadRowType
    DEF EndTick, TypeOK, GitHubTypeOK, ghVars, dbVars, Phases, NoListing
  <2>2. TimeInv'
    <3>1. NewThreadRow.lastEventAt = -1 /\ now \in Nat
      BY DEF NewThreadRow, NoTime, TypeOK, GitHubTypeOK
    <3> QED
      BY <1>2, <3>1 DEF EndTick, TimeInv, ghVars, dbVars, NoListing
  <2>3. ControlInv'
    BY <1>2 DEF EndTick, ControlInv, Polling, Fetching, Endpoints
  <2> QED
    BY <2>1, <2>2, <2>3
<1>3. ASSUME NEW t \in Threads, StartPoll(t)
      PROVE  TypeInv'
  <2>1. SeenIDs(events[t]) \subseteq EventKinds \X EventIds /\ LoadETags(polls[t]) \in [Endpoints -> Nat]
    BY KeyType DEF TypeOK, LoadETags
  <2>2. TypeOK'
    BY <1>3, <2>1, FaultsAssumption
    DEF StartPoll, TypeOK, GitHubTypeOK, ghVars, dbVars, Phases, Fault, Endpoints
  <2>3. TimeInv'
    BY <1>3 DEF StartPoll, TimeInv, ghVars, dbVars
  <2>4. ControlInv'
    BY <1>3, ThreadsAssumption
    DEF StartPoll, ControlInv, Polling, Fetching, Endpoints, NoThread, NewResult
  <2> QED
    BY <2>2, <2>3, <2>4
<1>4. CASE FetchIssue
  BY <1>4, FetchType DEF FetchIssue, Endpoints
<1>5. ASSUME NEW e \in ListEndpoints, FetchList(e)
      PROVE  TypeInv'
  BY <1>5, FetchType DEF FetchList, ListEndpoints
<1>6. ASSUME NEW e \in Endpoints, Save(e)
      PROVE  TypeInv'
  <2>1. cur \in Threads /\ out.etags \in [Endpoints -> Nat]
    BY <1>6 DEF Save, TypeOK, ControlInv, Polling, NoThread, Result
  <2>2. TypeOK'
    <3>1. polls' = polls \/ polls' = [polls EXCEPT ![cur] = [polls[cur] EXCEPT ![e] = out.etags[e]]]
      BY <1>6 DEF Save, SavePollOutcome
    <3>2. polls' \in [Threads -> [Endpoints -> Nat]]
      BY <2>1, <3>1 DEF TypeOK
    <3>3. faults' \in 0 .. MaxFaults
      BY <1>6, FaultsAssumption DEF Save, Fault, TypeOK
    <3> QED
      BY <1>6, <3>2, <3>3 DEF Save, TypeOK, GitHubTypeOK, ghVars
  <2>3. TimeInv'
    BY <1>6 DEF Save, TimeInv, ghVars
  <2>4. ControlInv'
    BY <1>6 DEF Save, ControlInv, Polling, Fetching, Endpoints
  <2> QED
    BY <2>2, <2>3, <2>4
<1>7. ASSUME Return, unsaved = {}, UNCHANGED ghVars,
             row' \in [Threads -> Row], \A t \in Threads : row'[t].lastEventAt <= now,
             events' \in [Threads -> SUBSET Event], UNCHANGED polls, faults' \in 0 .. MaxFaults
      PROVE  TypeInv'
  <2>1. TypeOK'
    BY <1>7, NewResultType DEF Return, TypeOK, GitHubTypeOK, ghVars, Phases
  <2>2. TimeInv'
    <3>1. NewResult.updatedAt = 0 /\ NewResult.items = {} /\ now \in Nat
      BY DEF NewResult, TypeOK, GitHubTypeOK
    <3> QED
      BY <1>7, <3>1 DEF Return, TimeInv, ghVars
  <2>3. ControlInv'
    <3>1. NewResult.err = FALSE
      BY DEF NewResult
    <3> QED
      BY <1>7, <3>1 DEF Return, ControlInv, Polling, Fetching, Endpoints
  <2> QED
    BY <2>1, <2>2, <2>3
<1>8. row \in [Threads -> Row] /\ (\A t \in Threads : row[t].lastEventAt <= now)
      /\ events \in [Threads -> SUBSET Event] /\ faults \in 0 .. MaxFaults
  BY DEF TypeOK, TimeInv
<1>9. CASE Abort
  BY <1>7, <1>8, <1>9 DEF Abort, dbVars
<1>10. CASE Insert
  <2>1. cur \in Threads
    BY <1>10 DEF Insert, TypeOK, ControlInv, Polling, NoThread
  <2>2. CASE pc' = "apply"
    <3>1. events' = [events EXCEPT ![cur] = InsertEventsIfNew(events[cur], NewEvents(Existing, out))]
          /\ UNCHANGED <<ghVars, row, polls, todo, listed, cur, etags, seen, out, unsaved, faults>>
      BY <1>10, <2>2 DEF Insert, Return
    <3>2. InsertEventsIfNew(events[cur], NewEvents(Existing, out)) \subseteq Event
      BY <1>8, <2>1, NewEventsType DEF InsertEventsIfNew
    <3>3. TypeOK'
      BY <2>2, <3>1, <3>2 DEF TypeOK, GitHubTypeOK, ghVars, Phases
    <3>4. TimeInv'
      BY <3>1 DEF TimeInv, ghVars
    <3>5. ControlInv'
      BY <1>10, <2>2, <3>1 DEF Insert, ControlInv, Polling, Fetching, Endpoints
    <3> QED
      BY <3>3, <3>4, <3>5
  <2>3. CASE pc' # "apply"
    <3>1. Return /\ unsaved = {} /\ Fault("insertError") /\ UNCHANGED <<ghVars, row, polls, events>>
      BY <1>10, <2>3 DEF Insert
    <3>2. faults' \in 0 .. MaxFaults
      BY <3>1, FaultsAssumption DEF Fault, TypeOK
    <3> QED
      BY <1>7, <1>8, <3>1, <3>2
  <2> QED
    BY <2>2, <2>3
<1>11. CASE Apply
  <2>1. cur \in Threads /\ unsaved = {} /\ out \in Result
    BY <1>11 DEF Apply, TypeOK, ControlInv, Polling, NoThread
  <2> DEFINE new == ApplyThreadUpdate(row[cur], Update(Existing, out))
  <2>2. new \in Row /\ new.lastEventAt <= now
    <3>1. Update(Existing, out).lastEventAt \in Nat \cup {NoTime} /\ Update(Existing, out).lastEventAt <= now
      BY <2>1, NewEventsType DEF Update
    <3>2. Update(Existing, out).kind \in SnapshotKinds /\ Update(Existing, out).state \in {""} \cup States
      BY <2>1 DEF Update, Result
    <3>3. row[cur] \in Row /\ row[cur].lastEventAt <= now
      BY <1>8, <2>1
    <3> QED
      BY <3>1, <3>2, <3>3 DEF ApplyThreadUpdate, Row, Kinds, SnapshotKinds
  <2>3. row' \in [Threads -> Row] /\ \A t \in Threads : row'[t].lastEventAt <= now
    <3>1. row' = [row EXCEPT ![cur] = new] \/ row' = row
      BY <1>11 DEF Apply
    <3> HIDE DEF new
    <3> QED
      BY <1>8, <2>1, <2>2, <3>1
  <2>4. faults' \in 0 .. MaxFaults
    BY <1>11, FaultsAssumption DEF Apply, Fault, TypeOK
  <2> QED
    BY <1>7, <1>8, <1>11, <2>1, <2>3, <2>4 DEF Apply
<1>12. CASE Boot
  <2>1. row' = row
    BY <1>8, <1>12, UpsertType DEF Boot
  <2>2. TypeOK'
    BY <1>12, <2>1 DEF Boot, TypeOK, GitHubTypeOK, ghVars, Phases
  <2>3. TimeInv'
    BY <1>12, <2>1 DEF Boot, TimeInv, ghVars
  <2>4. ControlInv'
    BY <1>12 DEF Boot, ControlInv, Polling, Fetching, Endpoints
  <2> QED
    BY <2>2, <2>3, <2>4
<1>13. CASE Crash
  <2>1. NewResult.updatedAt = 0 /\ NewResult.items = {} /\ NewResult.err = FALSE /\ now \in Nat
        /\ NewThreadRow.lastEventAt = -1
    BY DEF NewResult, NewThreadRow, NoTime, TypeOK, GitHubTypeOK
  <2>2. faults' \in 0 .. MaxFaults
    BY <1>13, FaultsAssumption DEF Crash, Fault, TypeOK
  <2>3. TypeOK'
    BY <1>13, <2>2, NewResultType, NewThreadRowType
    DEF Crash, TypeOK, GitHubTypeOK, ghVars, dbVars, Phases, NoListing
  <2>4. TimeInv'
    BY <1>13, <2>1 DEF Crash, TimeInv, ghVars, dbVars, NoListing
  <2>5. ControlInv'
    BY <1>13, <2>1 DEF Crash, ControlInv, Polling, Fetching, Endpoints
  <2> QED
    BY <2>3, <2>4, <2>5
<1>14. CASE Activity
  BY <1>14, ActivityType
<1>15. CASE UNCHANGED vars
  BY <1>15 DEF vars, ghVars, dbVars, memVars, TypeOK, GitHubTypeOK, TimeInv, ControlInv,
               Polling, Fetching
<1> QED
  BY <1>1, <1>2, <1>3, <1>4, <1>5, <1>6, <1>9, <1>10, <1>11, <1>12, <1>13, <1>14, <1>15
  DEF Next, PollerStep

\* Every variable keeps its type, in every behaviour and for every set of
\* failures; in particular no empty state or kind ever reaches a row.
THEOREM TypeCorrect == Spec => []TypeOK
<1>1. Spec => []TypeInv
  BY TypeInvInit, TypeInvNext, PTL DEF Spec
<1>2. TypeInv => TypeOK
  BY DEF TypeInv
<1> QED
  BY <1>1, <1>2, PTL
=============================================================================
