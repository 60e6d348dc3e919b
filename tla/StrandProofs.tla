---------------------------- MODULE StrandProofs ----------------------------
(***************************************************************************)
(* Proofs about what a 304 hides.  For failures of every kind: an event,   *)
(* or GitHub's state of a thread, is lost behind a 304 only by a poll that *)
(* had it in hand, at the few steps OnlyFailuresStrand and                 *)
(* OnlyFailuresStale name.  With the failures of SafeFaults: never.        *)
(***************************************************************************)
EXTENDS PollerProofs

LEMMA KeysOfUnion ==
  ASSUME NEW S, NEW T
  PROVE  Keys(S \cup T) = Keys(S) \cup Keys(T)
<1>1. Surfaced(S \cup T) = Surfaced(S) \cup Surfaced(T)
  BY DEF Surfaced
<1> QED
  BY <1>1 DEF Keys

LEMMA KeysOfNone == Keys({}) = {}
  BY DEF Keys, Surfaced

LEMMA WantedOfNone ==
  ASSUME NEW t, NEW s, items[t][s] = {}
  PROVE  Wanted(t, s) = {}
<1>1. Page(items[t][s]) = {}
  BY PageSubset
<1> QED
  BY <1>1, KeysOfNone DEF Wanted

LEMMA SilencedStreams ==
  ASSUME NEW e \in Endpoints
  PROVE  Silenced(e) \subseteq ListEndpoints
  BY DEF Silenced, PROnly, ListEndpoints, Endpoints

\* Versions only grow, and while the one of endpoint e stays, so do the
\* streams it silences.
LEMMA ActivityGuard ==
  ASSUME TypeOK, Activity, NEW t \in Threads, NEW e \in Endpoints
  PROVE  /\ ver[t][e] <= ver'[t][e]
         /\ ver'[t][e] = ver[t][e] => \A s \in Silenced(e) :
             items'[t][s] = items[t][s] /\ ver'[t][s] = ver[t][s]
<1>1. PICK u \in Threads, r \in ListEndpoints, touched \in SUBSET Endpoints, i \in Item :
        /\ r \in touched /\ (r \in PROnly => "issue" \in touched)
        /\ touched \subseteq {r, "issue"}
        /\ items' = [items EXCEPT ![u][r] = items[u][r] \cup {i}]
        /\ ver' = [ver EXCEPT ![u] = [x \in Endpoints |->
                     IF x \in touched THEN ver[u][x] + 1 ELSE ver[u][x]]]
  BY ActivityShape
<1>2. ver[t][e] \in Nat /\ ver \in [Threads -> [Endpoints -> Nat \ {NoETag}]]
      /\ items \in [Threads -> [ListEndpoints -> SUBSET Item]]
  BY DEF TypeOK, GitHubTypeOK
<1>3. ver'[t][e] = IF t = u /\ e \in touched THEN ver[t][e] + 1 ELSE ver[t][e]
  BY <1>1, <1>2
<1>4. ver[t][e] <= ver'[t][e]
  BY <1>2, <1>3
<1>5. ASSUME ver'[t][e] = ver[t][e], NEW s \in Silenced(e)
      PROVE  items'[t][s] = items[t][s] /\ ver'[t][s] = ver[t][s]
  <2>1. s \in ListEndpoints /\ s # "issue" /\ s \in Endpoints
    BY <1>5, SilencedStreams DEF ListEndpoints
  <2>2. ~ (t = u /\ e \in touched)
    BY <1>2, <1>3, <1>5
  <2>3. ~ (t = u /\ s \in touched)
    BY <1>1, <1>5, <2>1, <2>2 DEF Silenced
  <2> QED
    BY <1>1, <1>2, <2>1, <2>3
<1> QED
  BY <1>4, <1>5

\* The state changes with the version of the issue only.
LEMMA ActivityIssue ==
  ASSUME TypeOK, Activity, NEW t \in Threads, ver'[t]["issue"] = ver[t]["issue"]
  PROVE  issue'[t].state = issue[t].state
<1>1. /\ ver \in [Threads -> [Endpoints -> Nat \ {NoETag}]] /\ "issue" \in Endpoints
      /\ issue \in [Threads -> [state : States, updatedAt : Nat]]
  BY DEF TypeOK, GitHubTypeOK, Endpoints
<1>2. PICK u \in Threads :
        \/ \E s \in ListEndpoints : Post(u, s)
        \/ PostNoise(u)
        \/ ChangeState(u)
  BY DEF Activity, GitHubNext
<1>3. CASE \E s \in ListEndpoints : Post(u, s)
  <2>1. issue' = [issue EXCEPT ![u].updatedAt = now']
    BY <1>3 DEF Post
  <2> QED
    BY <1>1, <2>1
<1>4. CASE PostNoise(u)
  BY <1>4 DEF PostNoise
<1>5. CASE ChangeState(u)
  <2>1. PICK change \in Changes :
          /\ issue' = [issue EXCEPT ![u] = [state |-> change.to, updatedAt |-> now']]
          /\ Append(u, "issue_events", change.event, now', {"issue_events", "issue"})
    BY <1>5 DEF ChangeState
  <2>2. ver' = [ver EXCEPT ![u] = [e \in Endpoints |->
                  IF e \in {"issue_events", "issue"} THEN ver[u][e] + 1 ELSE ver[u][e]]]
    BY <2>1 DEF Append
  <2>3. ver'[u]["issue"] = ver[u]["issue"] + 1 /\ ver[u]["issue"] \in Nat
    BY <1>1, <2>2
  <2>4. t # u
    BY <2>3
  <2> QED
    BY <1>1, <2>1, <2>4
<1> QED
  BY <1>2, <1>3, <1>4, <1>5

-----------------------------------------------------------------------------
(* What a poll holds, whatever fails *)

\* PollInv with the types it relies on.
PInv == TypeInv /\ PollInv

LEMMA PollInit == Init => PollInv
<1> SUFFICES ASSUME Init PROVE PollInv
  OBVIOUS
<1> USE DEF Init, GitHubInit
<1>1. TypeInv
  BY TypeInvInit
<1>2. /\ NewResult.answered = {} /\ NewResult.err = FALSE /\ NewResult.kind = "" /\ NewResult.state = ""
      /\ \A e \in Endpoints : NewResult.etags[e] = NoETag
      /\ cur \notin Threads
  BY ThreadsAssumption DEF NewResult, NoThread
<1>3. CallInv
  BY <1>2 DEF CallInv, ListEndpoints, PROnly, Endpoints
<1>4. StreamInv
  BY DEF StreamInv, PROnly, ListEndpoints, Endpoints
<1>5. \A t \in Threads, e \in Endpoints : polls[t][e] = 0 /\ ver[t][e] = 1
  BY DEF NoETags, NoETag
<1>6. pc = "idle" /\ out = NewResult
  OBVIOUS
<1> HIDE DEF Init, GitHubInit
<1>7. TagInv
  <2>1. \A t \in Threads : \A e \in Endpoints : polls[t][e] <= ver[t][e]
    BY <1>5
  <2> QED
    BY <1>2, <2>1 DEF TagInv
<1>8. HeldInv
  BY <1>2, <1>6 DEF HeldInv, Fetching, Endpoints
<1>9. SnapshotInv
  BY <1>2, <1>6 DEF SnapshotInv
<1> QED
  BY <1>1, <1>3, <1>4, <1>7, <1>8, <1>9 DEF PollInv, TypeInv

\* A step into a phase between polls leaves nothing in memory.
LEMMA BetweenPollsHeld ==
  ASSUME PInv, TypeInv', ~ Polling', UNCHANGED <<items, ver, polls>>
  PROVE  PollInv'
<1> USE DEF PInv, PollInv
<1>1. cur' \notin Threads /\ out' = NewResult /\ pc' \notin {"save", "apply"} /\ ~ Fetching'
  BY ThreadsAssumption DEF TypeInv, ControlInv, Polling, NoThread
<1>2. /\ NewResult.answered = {} /\ NewResult.err = FALSE /\ NewResult.kind = "" /\ NewResult.state = ""
      /\ \A e \in Endpoints : NewResult.etags[e] = NoETag
  BY DEF NewResult
<1>3. ControlInv' /\ StreamInv'
  BY DEF TypeInv, StreamInv
<1>4. CallInv'
  BY <1>1, <1>2 DEF CallInv, Fetching, ListEndpoints, PROnly, Endpoints
<1>5. TagInv'
  BY <1>1 DEF TagInv
<1>6. HeldInv' /\ SnapshotInv'
  BY <1>1, <1>2 DEF HeldInv, SnapshotInv
<1> QED
  BY <1>3, <1>4, <1>5, <1>6

\* A poll starts with the stored ETags and with what is recorded.
LEMMA StartPollHeld ==
  ASSUME PInv, TypeInv', NEW t \in Threads, StartPoll(t)
  PROVE  PollInv'
<1> USE DEF PInv, PollInv
<1>1. TypeOK /\ pc = "next" /\ cur = NoThread /\ out = NewResult /\ out' = out
      /\ UNCHANGED <<items, ver, issue, events, polls, unsaved>>
  BY DEF StartPoll, TypeInv, ControlInv, Polling, Fetching, Endpoints, ghVars, dbVars
<1>2. \/ pc' = "issue" /\ cur' = t /\ etags' = polls[t] /\ seen' = Recorded(t)
      \/ pc' = "next" /\ UNCHANGED <<cur, etags, seen>>
  BY <1>1 DEF StartPoll, LoadETags, SeenIDs, Recorded
<1>3. /\ NewResult.answered = {} /\ NewResult.err = FALSE /\ NewResult.kind = "" /\ NewResult.state = ""
      /\ NewResult.items = {} /\ \A e \in Endpoints : NewResult.etags[e] = 0
  BY DEF NewResult, NoETag
<1>4. CASE pc' = "next"
  <2>1. ~ Polling'
    BY <1>4 DEF Polling, Fetching, Endpoints
  <2> QED
    BY <1>1, <2>1, BetweenPollsHeld
<1>5. CASE pc' = "issue" /\ cur' = t /\ etags' = polls[t] /\ seen' = Recorded(t)
  <2>1. ControlInv' /\ StreamInv'
    BY <1>1 DEF TypeInv, StreamInv
  <2>2. CallInv'
    BY <1>1, <1>3, <1>5 DEF CallInv, ListEndpoints, PROnly, Endpoints
  <2>3. TagInv'
    <3>1. \A u \in Threads, e \in Endpoints : ver[u][e] \in Nat /\ polls[u][e] <= ver[u][e]
      BY <1>1 DEF TypeOK, GitHubTypeOK, TagInv
    <3>2. ASSUME NEW e \in Endpoints
          PROVE  etags'[e] <= ver[t][e] /\ out'.etags[e] <= ver[t][e]
      <4>1. etags'[e] = polls[t][e] /\ out'.etags[e] = 0
        BY <1>1, <1>3, <1>5
      <4> QED
        BY <3>1, <4>1
    <3> QED
      BY <1>1, <1>5, <3>1, <3>2 DEF TagInv
  <2>4. HeldInv'
    <3>1. seen' = Recorded(cur)'
      BY <1>1, <1>5 DEF Recorded
    <3>2. /\ out'.answered = {} /\ out'.err = FALSE /\ \A e \in Endpoints : out'.etags[e] = 0
          /\ \A e \in Endpoints : polls'[cur'][e] = etags'[e]
      BY <1>1, <1>3, <1>5
    <3> QED
      BY <1>5, <3>1, <3>2 DEF HeldInv, NoETag
  <2>5. SnapshotInv'
    BY <1>1, <1>3 DEF SnapshotInv
  <2> QED
    BY <2>1, <2>2, <2>3, <2>4, <2>5
<1> QED
  BY <1>2, <1>4, <1>5

LEMMA FetchIssueHeld ==
  ASSUME PInv, TypeInv', FetchIssue
  PROVE  PollInv'
<1> USE DEF PInv, PollInv
<1>1. /\ TypeOK /\ pc = "issue" /\ Fetching /\ out = NewResult /\ cur \in Threads /\ Continue("issue")
      /\ UNCHANGED <<items, ver, issue, events, polls, cur, etags, seen>>
  BY DEF FetchIssue, Continue, TypeInv, TypeOK, ControlInv, CallInv, Polling, Fetching,
       Endpoints, NoThread, ghVars, dbVars
<1>2. PICK status \in Statuses :
        /\ Answer("issue", status)
        /\ out' = IssueInto(out, etags, status, ver[cur]["issue"], Kind[cur], issue[cur])
  BY DEF FetchIssue
<1>3. /\ status = "unchanged" => etags["issue"] = ver[cur]["issue"]
      /\ status \in {"ok", "garbled"} => etags["issue"] # ver[cur]["issue"]
      /\ status # "missing"
  BY <1>2 DEF Answer, Statuses, ListEndpoints
<1>4. /\ "issue" \in Endpoints /\ out \in Result /\ etags \in [Endpoints -> Nat]
      /\ ver[cur]["issue"] \in Nat \ {NoETag} /\ issue[cur] \in [state : States, updatedAt : Nat]
      /\ issue[cur].state \in States /\ Kind[cur] \in {"issue", "pr"}
  BY <1>1, KindAssumption DEF TypeOK, GitHubTypeOK, Endpoints
<1>5. /\ out'.answered = out.answered \cup {"issue"} /\ out'.items = out.items
      /\ out'.err <=> status \in {"garbled", "missing", "failed"} \/ out.err
      /\ out'.kind = IF status = "ok" THEN Kind[cur] ELSE out.kind
      /\ out'.state = IF status = "ok" THEN issue[cur].state ELSE out.state
      /\ out'.etags["issue"] = IF status \in {"missing", "failed"} THEN etags["issue"]
                               ELSE ver[cur]["issue"]
      /\ \A x \in ListEndpoints : out'.etags[x] = out.etags[x]
  BY <1>2, <1>4, IssueIntoFields
<1>6. /\ NewResult.answered = {} /\ NewResult.err = FALSE /\ NewResult.kind = "" /\ NewResult.state = ""
      /\ \A e \in Endpoints : NewResult.etags[e] = 0
  BY DEF NewResult, NoETag
<1>7. /\ out'.answered = {"issue"} /\ (out'.err <=> status \in {"garbled", "failed"})
      /\ \A x \in ListEndpoints : out'.etags[x] = 0
  BY <1>1, <1>3, <1>5, <1>6 DEF ListEndpoints
<1>8. pc' = IF out'.err THEN "save" ELSE "comments"
  BY <1>1 DEF Continue, NextCall
<1>9. ControlInv' /\ StreamInv'
  BY <1>1 DEF TypeInv, StreamInv
<1>10. CallInv'
  BY <1>1, <1>5, <1>6, <1>7, <1>8 DEF CallInv, ListEndpoints, PROnly, Endpoints
<1>11. TagInv'
  <2>1. \A u \in Threads, e \in Endpoints : ver[u][e] \in Nat /\ polls[u][e] <= ver[u][e]
    BY <1>1 DEF TypeOK, GitHubTypeOK, TagInv
  <2>2. ASSUME NEW e \in Endpoints
        PROVE  etags[e] <= ver[cur][e] /\ out'.etags[e] <= ver[cur][e]
    <3>1. etags[e] <= ver[cur][e]
      BY <1>1 DEF TagInv
    <3>2. CASE e = "issue"
      BY <1>1, <1>5, <2>1, <3>1, <3>2
    <3>3. CASE e # "issue"
      BY <1>1, <1>7, <2>1, <3>1, <3>3 DEF ListEndpoints
    <3> QED
      BY <3>2, <3>3
  <2> QED
    BY <1>1, <2>1, <2>2 DEF TagInv
<1>12. seen' = Recorded(cur)' /\ \A e \in Endpoints : polls'[cur'][e] = etags'[e]
  BY <1>1 DEF HeldInv, Recorded
<1>13. /\ out'.answered \cap ListEndpoints = {} /\ PROnly \cap out'.answered = {}
       /\ \A e \in Endpoints : e \notin out'.answered => out'.etags[e] = NoETag
  BY <1>7 DEF ListEndpoints, PROnly, NoETag
<1>14. ~ out'.err /\ etags["issue"] # ver[cur]["issue"] => out'.kind = Kind[cur]
  BY <1>3, <1>5, <1>7 DEF Statuses
<1>15. pc' \in {"save", "comments"} /\ Earlier["comments"] = {"issue"}
  BY <1>8 DEF Earlier
<1>16. HeldInv'
  BY <1>1, <1>7, <1>12, <1>13, <1>14, <1>15 DEF HeldInv, Fetching, Endpoints
<1>17. SnapshotInv'
  <2>1. issue[cur].state # ""
    BY <1>4 DEF States
  <2> QED
    BY <1>1, <1>3, <1>5, <1>6, <1>7, <2>1 DEF SnapshotInv, Statuses
<1> QED
  BY <1>9, <1>10, <1>11, <1>16, <1>17

LEMMA FetchListHeld ==
  ASSUME PInv, TypeInv', NEW e \in ListEndpoints, FetchList(e)
  PROVE  PollInv'
<1> USE DEF PInv, PollInv
<1>1. /\ TypeOK /\ pc = e /\ Fetching /\ cur \in Threads /\ ~ out.err /\ e \in Endpoints /\ e # "issue"
      /\ "issue" \in Endpoints /\ Continue(e)
      /\ UNCHANGED <<items, ver, issue, events, polls, cur, etags, seen>>
  BY DEF FetchList, Continue, TypeInv, TypeOK, ControlInv, Polling, Fetching,
       Endpoints, ListEndpoints, NoThread, ghVars, dbVars
<1>2. PICK status \in Statuses :
        /\ Answer(e, status)
        /\ out' = ListInto(out, etags, e, status, ver[cur][e], Page(items[cur][e]))
  BY DEF FetchList
<1>3. status = "unchanged" => etags[e] = ver[cur][e]
  BY <1>2 DEF Answer
<1>4. /\ out \in Result /\ etags \in [Endpoints -> Nat] /\ ver[cur][e] \in Nat \ {NoETag}
      /\ Page(items[cur][e]) \in SUBSET Item
  BY <1>1, PageSubset DEF TypeOK, GitHubTypeOK
<1>5. /\ status = "failed" => out'.answered = out.answered
      /\ status # "failed" => out'.answered = out.answered \cup {e}
      /\ status = "ok" => out'.items = out.items \cup Page(items[cur][e])
      /\ status # "ok" => out'.items = out.items
      /\ out'.err <=> status \in {"garbled", "failed"}
      /\ out'.kind = out.kind /\ out'.state = out.state
      /\ out'.etags[e] = IF status \in {"missing", "failed"} THEN out.etags[e] ELSE ver[cur][e]
      /\ \A x \in Endpoints : x # e => out'.etags[x] = out.etags[x]
  BY <1>1, <1>2, <1>4, ListIntoFields
<1>6. /\ out.answered \subseteq Earlier[e] /\ e \notin Earlier[e]
      /\ \A x \in Endpoints : x \notin out.answered => out.etags[x] = NoETag
  BY <1>1 DEF HeldInv, Earlier, Endpoints
<1>7. /\ out.etags[e] = 0 /\ out'.etags["issue"] = out.etags["issue"]
      /\ "issue" \in out.answered /\ "issue" \in out'.answered
  BY <1>1, <1>5, <1>6 DEF NoETag, CallInv
<1>8. pc' = IF out'.err THEN "save"
            ELSE CASE e = "comments"     -> "issue_events"
                   [] e = "issue_events" -> IF out.kind = "pr" THEN "reviews" ELSE "save"
                   [] e = "reviews"      -> "review_comments"
                   [] OTHER              -> "save"
  BY <1>1, <1>5 DEF Continue, NextCall, ListEndpoints, Endpoints
<1>9. ControlInv' /\ StreamInv'
  BY <1>1 DEF TypeInv, StreamInv
<1>10. CallInv'
  BY <1>1, <1>5, <1>7, <1>8 DEF CallInv, ListEndpoints, PROnly, Endpoints
<1>11. TagInv'
  <2>1. \A u \in Threads, x \in Endpoints : ver[u][x] \in Nat /\ polls[u][x] <= ver[u][x]
    BY <1>1 DEF TypeOK, GitHubTypeOK, TagInv
  <2>2. \A x \in Endpoints : etags[x] <= ver[cur][x] /\ out'.etags[x] <= ver[cur][x]
    BY <1>1, <1>5, <2>1 DEF TagInv
  <2> QED
    BY <1>1, <2>1, <2>2 DEF TagInv
<1>12. seen' = Recorded(cur)' /\ \A x \in Endpoints : polls'[cur'][x] = etags'[x]
  BY <1>1 DEF HeldInv, Recorded
<1>13. Keys(out.items) \subseteq Keys(out'.items)
       /\ (status = "ok" => Wanted(cur, e) \subseteq Keys(out'.items))
  BY <1>5, KeysOfUnion DEF Wanted
<1>14. ASSUME ~ out'.err, NEW s \in out'.answered \cap ListEndpoints, out'.etags[s] = ver[cur][s]
       PROVE  etags[s] = ver[cur][s] \/ Wanted(cur, s) \subseteq Keys(out'.items)
  <2>1. CASE s = e
    <3>1. status \in {"ok", "unchanged"}
      BY <1>4, <1>5, <1>7, <1>14, <2>1 DEF Statuses, NoETag
    <3> QED
      BY <1>3, <1>13, <2>1, <3>1
  <2>2. CASE s # e
    <3>1. s \in out.answered \cap ListEndpoints /\ out.etags[s] = ver[cur][s]
      BY <1>5, <1>14, <2>2 DEF ListEndpoints
    <3> QED
      BY <1>1, <1>13, <3>1 DEF HeldInv
  <2> QED
    BY <2>1, <2>2
<1>15. ASSUME ~ out'.err, out'.etags["issue"] = ver[cur]["issue"], etags["issue"] # ver[cur]["issue"]
       PROVE  /\ out'.kind = Kind[cur]
              /\ \A s \in PROnly \cap out'.answered : out'.etags[s] \in {NoETag, ver[cur][s]}
  <2>1. /\ out.kind = Kind[cur]
        /\ \A s \in PROnly \cap out.answered : out.etags[s] \in {NoETag, ver[cur][s]}
    BY <1>1, <1>7, <1>15 DEF HeldInv
  <2>2. ASSUME NEW s \in PROnly \cap out'.answered
        PROVE  out'.etags[s] \in {NoETag, ver[cur][s]}
    <3>1. CASE s = e
      BY <1>5, <1>7, <3>1 DEF NoETag
    <3>2. CASE s # e
      BY <1>5, <2>1, <3>2 DEF PROnly, Endpoints
    <3> QED
      BY <3>1, <3>2
  <2> QED
    BY <1>5, <2>1, <2>2
<1>16. \A x \in Endpoints : x \notin out'.answered => out'.etags[x] = NoETag
  BY <1>5, <1>6
<1>17. pc' = "save" \/ (pc' \in Endpoints /\ out'.answered \subseteq Earlier[pc'])
  <2>1. out'.answered \subseteq Earlier[e] \cup {e}
    BY <1>5, <1>6
  <2> QED
    BY <1>8, <2>1 DEF Earlier, ListEndpoints, Endpoints
<1>18. HeldInv'
  <2>1. cur' = cur /\ ver' = ver /\ etags' = etags /\ items' = items
        /\ Wanted(cur, e)' = Wanted(cur, e) /\ Keys(out.items)' = Keys(out'.items)
    BY <1>1 DEF Wanted, Keys
  <2>2. \A s \in ListEndpoints : Wanted(cur, s)' = Wanted(cur, s)
    BY <2>1 DEF Wanted
  <2>3. ~ (pc' = "apply")
    BY <1>17 DEF Endpoints
  <2> QED
    BY <1>12, <1>14, <1>15, <1>16, <1>17, <2>1, <2>2, <2>3 DEF HeldInv, Fetching, Endpoints
<1>19. SnapshotInv'
  BY <1>1, <1>5, <1>7 DEF SnapshotInv
<1> QED
  BY <1>9, <1>10, <1>11, <1>18, <1>19

LEMMA SaveHeld ==
  ASSUME PInv, TypeInv', NEW e \in Endpoints, Save(e)
  PROVE  PollInv'
<1> USE DEF PInv, PollInv
<1>1. /\ TypeOK /\ pc = "save" /\ cur \in Threads /\ e \in out.answered
      /\ UNCHANGED <<items, ver, issue, events, pc, cur, etags, seen, out>>
      /\ polls' = polls \/ polls' = [polls EXCEPT ![cur] = [polls[cur] EXCEPT ![e] = out.etags[e]]]
  BY DEF Save, SavePollOutcome, TypeInv, TypeOK, ControlInv, Polling, Fetching, NoThread, ghVars
<1>2. ControlInv' /\ CallInv' /\ StreamInv' /\ SnapshotInv'
  BY <1>1 DEF TypeInv, StreamInv, CallInv, SnapshotInv
<1>3. polls \in [Threads -> [Endpoints -> Nat]]
  BY <1>1 DEF TypeOK
<1>4. ASSUME NEW u \in Threads, NEW x \in Endpoints
      PROVE  polls'[u][x] = polls[u][x] \/ (u = cur /\ x = e /\ polls'[u][x] = out.etags[e])
  BY <1>1, <1>3
<1>5. TagInv'
  <2>1. /\ \A u \in Threads, x \in Endpoints : polls[u][x] <= ver[u][x]
        /\ \A x \in Endpoints : etags[x] <= ver[cur][x] /\ out.etags[x] <= ver[cur][x]
    BY <1>1 DEF TagInv
  <2>2. \A u \in Threads, x \in Endpoints : polls'[u][x] <= ver[u][x]
    BY <1>4, <2>1
  <2> QED
    BY <1>1, <2>1, <2>2 DEF TagInv
<1>6. HeldInv'
  <2>1. \A x \in Endpoints : polls'[cur][x] \in {etags[x], out.etags[x]}
    BY <1>1, <1>4 DEF HeldInv
  <2>2. Recorded(cur)' = Recorded(cur) /\ ~ Fetching'
        /\ \A s \in ListEndpoints : Wanted(cur, s)' = Wanted(cur, s)
    BY <1>1 DEF Recorded, Wanted, Fetching, Endpoints
  <2>3. HeldInv
    OBVIOUS
  <2>4. Keys(out.items)' = Keys(out.items)
    BY <1>1 DEF Keys
  <2> QED
    BY <1>1, <2>1, <2>2, <2>3, <2>4 DEF HeldInv
<1> QED
  BY <1>2, <1>5, <1>6

\* The insert leaves the ETags as they are saved.
LEMMA InsertHeld ==
  ASSUME PInv, TypeInv', Insert, pc' = "apply"
  PROVE  PollInv'
<1> USE DEF PInv, PollInv
<1>1. /\ TypeOK /\ pc = "save" /\ ~ out.err /\ cur \in Threads
      /\ UNCHANGED <<items, ver, issue, polls, cur, etags, out>>
  BY DEF Insert, Return, TypeInv, TypeOK, ControlInv, Polling, Fetching, NoThread, ghVars
<1>2. ControlInv' /\ StreamInv' /\ TagInv' /\ SnapshotInv'
  BY <1>1 DEF TypeInv, StreamInv, TagInv, SnapshotInv
<1>3. CallInv'
  BY <1>1 DEF CallInv, ListEndpoints, PROnly, Endpoints
<1>4. HeldInv'
  BY <1>1 DEF HeldInv, Fetching, Endpoints
<1> QED
  BY <1>2, <1>3, <1>4

\* When a resource changes, no ETag in hand matches it any more.
LEMMA ActivityHeld ==
  ASSUME PInv, TypeInv', Activity
  PROVE  PollInv'
<1> USE DEF PInv, PollInv
<1>1. /\ TypeOK /\ TypeOK' /\ pc' = pc /\ cur' = cur /\ etags' = etags /\ seen' = seen /\ out' = out
      /\ unsaved' = unsaved /\ events' = events /\ polls' = polls /\ "issue" \in Endpoints
  BY DEF Activity, dbVars, memVars, TypeInv, Endpoints
<1>2. \A t \in Threads, e \in Endpoints :
        /\ ver[t][e] \in Nat /\ ver'[t][e] \in Nat /\ polls[t][e] \in Nat /\ ver[t][e] <= ver'[t][e]
        /\ etags[e] \in Nat /\ out.etags[e] \in Nat
  <2>1. \A t \in Threads, e \in Endpoints : ver[t][e] <= ver'[t][e]
    BY <1>1, ActivityGuard
  <2>2. \A t \in Threads, e \in Endpoints :
          ver[t][e] \in Nat /\ ver'[t][e] \in Nat /\ polls[t][e] \in Nat
    BY <1>1 DEF TypeOK, GitHubTypeOK
  <2>3. \A e \in Endpoints : etags[e] \in Nat /\ out.etags[e] \in Nat
    BY <1>1 DEF TypeOK, Result
  <2> QED
    BY <2>1, <2>2, <2>3
<1>3. ControlInv' /\ CallInv'
  BY <1>1 DEF TypeInv, CallInv
<1>4. StreamInv'
  <2>1. PICK u \in Threads, r \in ListEndpoints, i \in Item :
          /\ r \in Streams(u)
          /\ items' = [items EXCEPT ![u][r] = items[u][r] \cup {i}]
    BY <1>1, ActivityShape
  <2> SUFFICES ASSUME NEW t \in Threads, NEW s \in PROnly, Kind[t] = "issue"
               PROVE  items'[t][s] = {}
    BY DEF StreamInv
  <2>2. ~ (t = u /\ s = r)
    BY <2>1 DEF Streams
  <2>3. s \in ListEndpoints /\ items[t][s] = {}
    BY DEF StreamInv, PROnly, ListEndpoints, Endpoints
  <2> QED
    BY <1>1, <2>1, <2>2, <2>3 DEF TypeOK, GitHubTypeOK
<1>5. TagInv'
  BY <1>1, <1>2 DEF TagInv
<1>6. ASSUME cur \in Threads, NEW e \in Endpoints, out.etags[e] = ver'[cur][e]
      PROVE  /\ out.etags[e] = ver[cur][e] /\ ver'[cur][e] = ver[cur][e]
             /\ \A s \in Silenced(e) :
                  Wanted(cur, s)' = Wanted(cur, s) /\ ver'[cur][s] = ver[cur][s]
  <2>1. out.etags[e] <= ver[cur][e]
    BY <1>6 DEF TagInv
  <2>2. out.etags[e] = ver[cur][e] /\ ver'[cur][e] = ver[cur][e]
    BY <1>2, <1>6, <2>1
  <2> QED
    BY <1>1, <1>6, <2>2, ActivityGuard DEF Wanted
<1>7. ASSUME cur \in Threads, NEW e \in Endpoints, ver'[cur][e] = etags[e]
      PROVE  ver[cur][e] = etags[e]
  <2>1. etags[e] <= ver[cur][e]
    BY <1>7 DEF TagInv
  <2> QED
    BY <1>2, <1>7, <2>1
<1>8. (Fetching \/ pc = "save" => cur \in Threads)
      /\ (out.state # "" \/ "issue" \in out.answered => cur \in Threads)
  <2>1. NewResult.answered = {} /\ NewResult.state = ""
    BY DEF NewResult
  <2> QED
    BY <1>1, <2>1 DEF TypeInv, TypeOK, ControlInv, Polling, NoThread
<1>9. HeldInv'
  <2>1. (Fetching' <=> Fetching) /\ Recorded(cur)' = Recorded(cur) /\ Keys(out.items)' = Keys(out.items)
    BY <1>1 DEF Fetching, Recorded, Keys
  <2>2. ASSUME Fetching \/ pc = "save", ~ out.err, NEW s \in out.answered \cap ListEndpoints,
               out.etags[s] = ver'[cur][s]
        PROVE  etags[s] = ver'[cur][s] \/ Wanted(cur, s)' \subseteq Keys(out.items)
    <3>1. s \in Endpoints /\ s \in Silenced(s)
      BY DEF Silenced, ListEndpoints
    <3> QED
      BY <1>6, <1>8, <2>2, <3>1 DEF HeldInv
  <2>3. ASSUME Fetching \/ pc = "save", ~ out.err, "issue" \in out.answered,
               out.etags["issue"] = ver'[cur]["issue"], etags["issue"] # ver'[cur]["issue"]
        PROVE  /\ out.kind = Kind[cur]
               /\ \A s \in PROnly \cap out.answered : out.etags[s] \in {NoETag, ver'[cur][s]}
    <3>1. cur \in Threads
      BY <1>8, <2>3
    <3>2. out.etags["issue"] = ver[cur]["issue"] /\ etags["issue"] # ver[cur]["issue"]
          /\ \A s \in PROnly : ver'[cur][s] = ver[cur][s]
      BY <1>1, <1>6, <2>3, <3>1 DEF Silenced
    <3> QED
      BY <2>3, <3>2 DEF HeldInv
  <2>4. HeldInv
    OBVIOUS
  <2> QED
    BY <1>1, <2>1, <2>2, <2>3, <2>4 DEF HeldInv
<1>10. SnapshotInv'
  <2>1. ASSUME out.state # ""
        PROVE  /\ "issue" \in out.answered
               /\ out.etags["issue"] = ver'[cur]["issue"] => out.state = issue'[cur].state
               /\ etags["issue"] # ver'[cur]["issue"]
    <3>1. cur \in Threads /\ SnapshotInv
      BY <1>8, <2>1
    <3>2. ASSUME out.etags["issue"] = ver'[cur]["issue"]
          PROVE  out.state = issue'[cur].state
      <4>1. out.etags["issue"] = ver[cur]["issue"] /\ ver'[cur]["issue"] = ver[cur]["issue"]
        BY <1>1, <1>6, <3>1, <3>2
      <4>2. issue'[cur].state = issue[cur].state
        BY <1>1, <3>1, <4>1, ActivityIssue
      <4> QED
        BY <2>1, <3>1, <4>1, <4>2 DEF SnapshotInv
    <3> QED
      BY <1>1, <1>7, <2>1, <3>1, <3>2 DEF SnapshotInv
  <2> QED
    BY <1>1, <2>1 DEF SnapshotInv
<1> QED
  BY <1>3, <1>4, <1>5, <1>9, <1>10

LEMMA PollNext ==
  ASSUME PInv, [Next]_vars
  PROVE  PInv'
<1>1. TypeInv'
  BY TypeInvNext DEF PInv
<1> SUFFICES PollInv'
  BY <1>1 DEF PInv
<1>2. ASSUME pc' \in {"idle", "next", "boot"}, UNCHANGED <<items, ver, polls>>
      PROVE  PollInv'
  BY <1>1, <1>2, BetweenPollsHeld DEF Polling, Fetching, Endpoints
<1>3. CASE BeginTick \/ EndTick \/ Abort \/ Apply \/ Boot \/ Crash
  <2>1. pc' \in {"idle", "next", "boot"} /\ UNCHANGED <<items, ver, polls>>
    BY <1>3 DEF BeginTick, EndTick, Abort, Apply, Return, Boot, Crash, ghVars, dbVars
  <2> QED
    BY <1>2, <2>1
<1>4. CASE \E t \in Threads : StartPoll(t)
  BY <1>1, <1>4, StartPollHeld
<1>5. CASE FetchIssue
  BY <1>1, <1>5, FetchIssueHeld
<1>6. CASE \E e \in ListEndpoints : FetchList(e)
  BY <1>1, <1>6, FetchListHeld
<1>7. CASE \E e \in Endpoints : Save(e)
  BY <1>1, <1>7, SaveHeld
<1>8. CASE Insert
  <2>1. pc' = "apply" \/ (pc' = "next" /\ UNCHANGED <<items, ver, polls>>)
    BY <1>8 DEF Insert, Return, ghVars
  <2> QED
    BY <1>1, <1>2, <1>8, <2>1, InsertHeld
<1>9. CASE Activity
  BY <1>1, <1>9, ActivityHeld
<1>10. CASE UNCHANGED vars
  <2>1. UNCHANGED <<items, ver, issue, events, polls, pc, cur, etags, seen, out, unsaved>>
    BY <1>10 DEF vars, ghVars, dbVars, memVars
  <2>2. ControlInv' /\ CallInv' /\ StreamInv' /\ TagInv' /\ SnapshotInv'
    BY <1>1, <2>1 DEF PInv, PollInv, TypeInv, CallInv, StreamInv, TagInv, SnapshotInv
  <2>3. HeldInv'
    BY <2>1 DEF PInv, PollInv, HeldInv, Wanted, Recorded, Keys, Fetching
  <2> QED
    BY <2>2, <2>3 DEF PollInv
<1> QED
  BY <1>3, <1>4, <1>5, <1>6, <1>7, <1>8, <1>9, <1>10 DEF Next, PollerStep

\* The invariant of the poll holds with failures of every kind.
THEOREM PollIsSound == Spec => []PollInv
<1>1. Init => PInv
  BY TypeInvInit, PollInit DEF PInv
<1>2. PInv /\ [Next]_vars => PInv'
  BY PollNext
<1>3. PInv => PollInv
  BY DEF PInv
<1> QED
  BY <1>1, <1>2, <1>3, PTL DEF Spec

-----------------------------------------------------------------------------
(* What a saved ETag promises *)

\* VouchInv with what it relies on; it is StrandInv and more.
Inv == PInv /\ VouchInv

LEMMA ActivityStrand ==
  ASSUME Inv, Activity
  PROVE  VouchInv'
<1> USE DEF Inv, PInv, PollInv
<1>1. UNCHANGED <<dbVars, memVars, faults>> /\ TypeOK /\ TypeInv'
  BY ActivityType DEF Activity, TypeInv
<1>2. /\ row' = row /\ events' = events /\ polls' = polls
      /\ pc' = pc /\ cur' = cur /\ etags' = etags /\ seen' = seen /\ out' = out /\ unsaved' = unsaved
      /\ \A t \in Threads : Recorded(t)' = Recorded(t)
  BY <1>1 DEF dbVars, memVars, Recorded
<1>3. ASSUME NEW t \in Threads, NEW e \in Endpoints, NEW tag \in Nat,
             tag <= ver[t][e], tag = ver'[t][e]
      PROVE  tag = ver[t][e] /\ \A s \in Silenced(e) : Wanted(t, s)' = Wanted(t, s)
  <2>1. ver'[t][e] = ver[t][e]
    <3>1. ver[t][e] <= ver'[t][e]
      BY <1>1, ActivityGuard
    <3>2. ver[t][e] \in Nat
      BY <1>1 DEF TypeOK, GitHubTypeOK
    <3> QED
      BY <1>3, <3>1, <3>2
  <2> QED
    BY <1>1, <1>3, <2>1, ActivityGuard DEF Wanted
<1> QED
  <2>1. \A t \in Threads, e \in Endpoints : polls[t][e] \in Nat /\ etags[e] \in Nat /\ out.etags[e] \in Nat
    BY <1>1 DEF TypeOK, Result
  <2>2. ASSUME NEW t \in Threads, NEW e \in Endpoints, ~ (cur = t /\ pc = "save")
        PROVE  Vouched(t, e, polls[t][e], Recorded(t))'
    <3>1. polls[t][e] <= ver[t][e] /\ Vouched(t, e, polls[t][e], Recorded(t))
      BY <2>2 DEF TagInv, VouchInv
    <3> QED
      BY <1>2, <1>3, <2>1, <3>1 DEF Vouched
  <2>3. ASSUME Fetching \/ pc = "save"
        PROVE  /\ cur \in Threads
               /\ \A e \in Endpoints : etags[e] <= ver[cur][e] /\ out.etags[e] <= ver[cur][e]
    BY <1>1, <2>3 DEF TypeOK, ControlInv, Polling, NoThread, TagInv
  <2>4. ASSUME Fetching \/ pc = "save"
        PROVE  /\ seen = Recorded(cur)'
               /\ \A e \in Endpoints : Vouched(cur, e, etags[e], Recorded(cur))'
               /\ \A e \in out.answered \cap ListEndpoints :
                    Vouched(cur, e, out.etags[e], Recorded(cur) \cup Keys(out.items))'
    <3>1. /\ seen = Recorded(cur)
          /\ \A e \in Endpoints : Vouched(cur, e, etags[e], Recorded(cur))
          /\ \A e \in out.answered \cap ListEndpoints :
               Vouched(cur, e, out.etags[e], Recorded(cur) \cup Keys(out.items))
      BY <2>4 DEF VouchInv
    <3>2. seen = Recorded(cur)'
      BY <1>2, <2>3, <2>4, <3>1
    <3>3. ASSUME NEW e \in Endpoints
          PROVE  Vouched(cur, e, etags[e], Recorded(cur))'
      BY <1>2, <1>3, <2>1, <2>3, <2>4, <3>1 DEF Vouched
    <3>4. ASSUME NEW e \in out.answered \cap ListEndpoints
          PROVE  Vouched(cur, e, out.etags[e], Recorded(cur) \cup Keys(out.items))'
      <4>1. e \in Endpoints
        BY DEF ListEndpoints
      <4> QED
        BY <1>2, <1>3, <2>1, <2>3, <2>4, <3>1, <4>1 DEF Vouched, Keys
    <3> QED
      BY <3>2, <3>3, <3>4
  <2>5. ASSUME Fetching \/ pc = "save", NEW s \in PROnly, "issue" \in out.answered,
               s \in out.answered \/ out.kind # "pr", out.etags["issue"] = ver'[cur]["issue"]
        PROVE  Wanted(cur, s)' \subseteq Recorded(cur) \cup Keys(out.items)
    <3>1. "issue" \in Endpoints /\ s \in Silenced("issue")
      BY DEF Endpoints, Silenced
    <3>2. out.etags["issue"] = ver[cur]["issue"] /\ Wanted(cur, s)' = Wanted(cur, s)
      <4>1. out.etags["issue"] \in Nat /\ out.etags["issue"] <= ver[cur]["issue"] /\ cur \in Threads
        BY <2>1, <2>3, <2>5, <3>1
      <4> QED
        BY <1>2, <1>3, <2>5, <3>1, <4>1 DEF Wanted
    <3> QED
      BY <2>5, <3>2 DEF VouchInv
  <2>6. pc = "save" => \A e \in Endpoints :
          polls[cur][e] = etags[e] \/ (e \in out.answered /\ polls[cur][e] = out.etags[e])
    BY DEF VouchInv
  <2>10. Fetching => \A e \in Endpoints : polls[cur][e] = etags[e]
    BY DEF VouchInv
  <2>7. out.err => out.answered = {"issue"} /\ out.etags["issue"] = etags["issue"]
    BY DEF VouchInv
  <2>8. (Fetching \/ pc = "save") => cur \in Threads
    BY <2>3
  <2>9. (Fetching' <=> Fetching) /\ Keys(out.items)' = Keys(out.items)
    BY <1>2 DEF Fetching, Keys
  <2> QED
    BY <1>2, <2>2, <2>4, <2>5, <2>6, <2>7, <2>8, <2>9, <2>10 DEF VouchInv

\* A poll starts with the stored ETags and with what is recorded.
LEMMA StartPollStrand ==
  ASSUME Inv, NEW t \in Threads, StartPoll(t)
  PROVE  VouchInv'
<1> USE DEF Inv, PInv, PollInv
<1>1. TypeOK /\ TypeInv' /\ pc = "next" /\ cur = NoThread /\ out = NewResult /\ out' = out
      /\ UNCHANGED <<items, ver, issue, events, polls, unsaved>>
  BY TypeInvNext DEF StartPoll, TypeInv, ControlInv, Polling, Fetching, Endpoints, Next, PollerStep,
                     ghVars, dbVars
<1>2. \/ pc' = "issue" /\ cur' = t /\ etags' = polls[t] /\ seen' = Recorded(t)
      \/ pc' = "next" /\ UNCHANGED <<cur, etags, seen>>
  BY <1>1 DEF StartPoll, LoadETags, SeenIDs, Recorded
<1>3. /\ NewResult.answered = {} /\ NewResult.err = FALSE /\ NewResult.kind = ""
      /\ NewResult.items = {} /\ \A e \in Endpoints : NewResult.etags[e] = 0
  BY DEF NewResult, NoETag
<1>4. \A u \in Threads, e \in Endpoints : Vouched(u, e, polls[u][e], Recorded(u))
  BY <1>1 DEF VouchInv
<1>5. \A u \in Threads, e \in Endpoints : Vouched(u, e, polls[u][e], Recorded(u))'
  BY <1>1, <1>4 DEF Vouched, Wanted, Recorded
<1>6. CASE pc' = "issue" /\ cur' = t /\ etags' = polls[t] /\ seen' = Recorded(t)
  <2>1. seen' = Recorded(cur)'
    BY <1>1, <1>6 DEF Recorded
  <2>2. \A e \in Endpoints : Vouched(cur, e, etags[e], Recorded(cur))'
    BY <1>1, <1>5, <1>6 DEF Vouched, Wanted, Recorded
  <2>3. /\ out'.answered = {} /\ out'.err = FALSE
        /\ \A e \in Endpoints : polls'[cur'][e] = etags'[e]
    BY <1>1, <1>3, <1>6
  <2> QED
    BY <1>5, <1>6, <2>1, <2>2, <2>3 DEF VouchInv
<1>7. CASE pc' = "next"
  BY <1>1, <1>3, <1>5, <1>7 DEF VouchInv, Fetching, Endpoints
<1> QED
  BY <1>2, <1>6, <1>7

\* One endpoint's answer: what a 304 hides was vouched for by the ETag it
\* confirms, what a 200 brings is the stream itself, and a failure of the
\* issue carries the old ETag on.
LEMMA FetchIssueStrand ==
  ASSUME Faults \subseteq SafeFaults, Inv, FetchIssue
  PROVE  VouchInv'
<1> USE DEF Inv, PInv, PollInv
<1>1. /\ TypeOK /\ TypeInv' /\ pc = "issue" /\ out = NewResult /\ cur \in Threads
      /\ Continue("issue")
      /\ UNCHANGED <<items, ver, issue, events, polls, cur, etags, seen>>
  BY TypeInvNext DEF FetchIssue, Continue, TypeInv, TypeOK, ControlInv, CallInv, Polling, Fetching,
       Endpoints, NoThread, Next, PollerStep, ghVars, dbVars
<1>2. PICK status \in Statuses :
        /\ Answer("issue", status)
        /\ out' = IssueInto(out, etags, status, ver[cur]["issue"], Kind[cur], issue[cur])
  BY DEF FetchIssue
<1>3. status \in {"ok", "unchanged", "failed"} /\ (status = "unchanged" => etags["issue"] = ver[cur]["issue"])
  BY <1>2 DEF Answer, Statuses, Fault, SafeFaults, ListEndpoints
<1>4. /\ "issue" \in Endpoints /\ out \in Result /\ etags \in [Endpoints -> Nat]
      /\ ver[cur]["issue"] \in Nat \ {NoETag} /\ issue[cur] \in [state : States, updatedAt : Nat]
      /\ Kind[cur] \in {"issue", "pr"}
  BY <1>1, KindAssumption DEF TypeOK, GitHubTypeOK, Endpoints
<1>5. /\ out'.answered = out.answered \cup {"issue"} /\ out'.items = out.items
      /\ out'.err <=> status \in {"garbled", "missing", "failed"} \/ out.err
      /\ out'.kind = IF status = "ok" THEN Kind[cur] ELSE out.kind
      /\ out'.etags["issue"] = IF status \in {"missing", "failed"} THEN etags["issue"]
                               ELSE ver[cur]["issue"]
      /\ \A x \in ListEndpoints : out'.etags[x] = out.etags[x]
  BY <1>2, <1>4, IssueIntoFields
<1>6. /\ NewResult.answered = {} /\ NewResult.err = FALSE /\ NewResult.kind = ""
      /\ NewResult.items = {} /\ \A e \in Endpoints : NewResult.etags[e] = 0
  BY DEF NewResult, NoETag
<1>7. out'.answered = {"issue"} /\ out'.items = {} /\ (out'.err <=> status = "failed")
  BY <1>1, <1>3, <1>5, <1>6
<1>8. pc' = IF out'.err THEN "save" ELSE "comments"
  BY <1>1 DEF Continue, NextCall
<1>9. /\ \A u \in Threads, e \in Endpoints : Vouched(u, e, polls[u][e], Recorded(u))'
      /\ \A e \in Endpoints : Vouched(cur, e, etags[e], Recorded(cur))'
      /\ seen' = Recorded(cur)'
  <2>1. /\ \A u \in Threads, e \in Endpoints : Vouched(u, e, polls[u][e], Recorded(u))
        /\ \A e \in Endpoints : Vouched(cur, e, etags[e], Recorded(cur))
        /\ seen = Recorded(cur)
    BY <1>1 DEF VouchInv, Fetching, Endpoints
  <2> QED
    BY <1>1, <2>1 DEF Vouched, Wanted, Recorded
<1>10. ASSUME NEW s \in PROnly, s \in out'.answered \/ out'.kind # "pr",
              out'.etags["issue"] = ver[cur]["issue"]
       PROVE  Wanted(cur, s) \subseteq Recorded(cur)
  <2>1. out'.kind # "pr"
    BY <1>7, <1>10 DEF PROnly
  <2>2. CASE status = "ok"
    <3>1. Kind[cur] = "issue"
      BY <1>4, <1>5, <2>1, <2>2
    <3>2. items[cur][s] = {}
      BY <1>1, <1>10, <3>1 DEF StreamInv
    <3> QED
      BY <3>2, WantedOfNone
  <2>3. CASE status \in {"unchanged", "failed"}
    <3>1. etags["issue"] = ver[cur]["issue"]
      BY <1>3, <1>5, <1>10, <2>3
    <3>2. Vouched(cur, "issue", etags["issue"], Recorded(cur))
      BY <1>1, <1>4 DEF VouchInv, Fetching
    <3> QED
      BY <1>10, <3>1, <3>2 DEF Vouched, Silenced
  <2> QED
    BY <1>3, <2>2, <2>3
<1>11. \A s \in PROnly :
         /\ "issue" \in out'.answered
         /\ s \in out'.answered \/ out'.kind # "pr"
         /\ out'.etags["issue"] = ver'[cur']["issue"]
         => Wanted(cur, s)' \subseteq Recorded(cur)' \cup Keys(out.items)'
  BY <1>1, <1>10 DEF Wanted, Recorded
<1>12. out'.answered \cap ListEndpoints = {}
  BY <1>7 DEF ListEndpoints
<1>13. \A e \in Endpoints : polls'[cur'][e] = etags'[e]
  <2>1. \A e \in Endpoints : polls[cur][e] = etags[e]
    BY <1>1 DEF VouchInv, Fetching, Endpoints
  <2> QED
    BY <1>1, <2>1
<1>14. out'.err => out'.answered = {"issue"} /\ out'.etags["issue"] = etags'["issue"]
  BY <1>1, <1>5, <1>7
<1> QED
  <2>1. cur' = cur /\ Recorded(cur)' = Recorded(cur') /\ \A e \in Endpoints : etags'[e] = etags[e]
    BY <1>1 DEF Recorded
  <2> QED
    BY <1>9, <1>11, <1>12, <1>13, <1>14, <2>1 DEF VouchInv

LEMMA FetchListStrand ==
  ASSUME Faults \subseteq SafeFaults, Inv, NEW e \in ListEndpoints, FetchList(e)
  PROVE  VouchInv'
<1> USE DEF Inv, PInv, PollInv
<1>1. /\ TypeOK /\ TypeInv' /\ pc = e /\ cur \in Threads /\ ~ out.err /\ e \in Endpoints
      /\ Continue(e)
      /\ UNCHANGED <<items, ver, issue, events, polls, cur, etags, seen>>
  BY TypeInvNext DEF FetchList, Continue, TypeInv, TypeOK, ControlInv, Polling, Fetching,
       Endpoints, ListEndpoints, NoThread, Next, PollerStep, ghVars, dbVars
<1>2. PICK status \in Statuses :
        /\ Answer(e, status)
        /\ out' = ListInto(out, etags, e, status, ver[cur][e], Page(items[cur][e]))
  BY DEF FetchList
<1>3. status \in {"ok", "unchanged"} /\ (status = "unchanged" => etags[e] = ver[cur][e])
  BY <1>2 DEF Answer, Statuses, Fault, SafeFaults, ListEndpoints
<1>4. /\ out \in Result /\ etags \in [Endpoints -> Nat] /\ ver[cur][e] \in Nat \ {NoETag}
      /\ Page(items[cur][e]) \in SUBSET Item
  BY <1>1, PageSubset DEF TypeOK, GitHubTypeOK
<1>5. /\ out'.answered = out.answered \cup {e} /\ ~ out'.err /\ out'.kind = out.kind
      /\ status = "ok" => out'.items = out.items \cup Page(items[cur][e])
      /\ status = "unchanged" => out'.items = out.items
      /\ out'.etags[e] = ver[cur][e]
      /\ \A x \in Endpoints : x # e => out'.etags[x] = out.etags[x]
  BY <1>1, <1>2, <1>3, <1>4, ListIntoFields
<1>6. pc' = CASE e = "comments"     -> "issue_events"
              [] e = "issue_events" -> IF out.kind = "pr" THEN "reviews" ELSE "save"
              [] e = "reviews"      -> "review_comments"
              [] OTHER              -> "save"
  BY <1>1, <1>5 DEF Continue, NextCall, ListEndpoints, Endpoints
<1>7. /\ \A u \in Threads, x \in Endpoints : Vouched(u, x, polls[u][x], Recorded(u))
      /\ \A x \in Endpoints : Vouched(cur, x, etags[x], Recorded(cur))
      /\ seen = Recorded(cur)
      /\ \A x \in Endpoints : polls[cur][x] = etags[x]
  BY <1>1 DEF VouchInv, Fetching, ListEndpoints
<1>8. /\ \A u \in Threads, x \in Endpoints : Vouched(u, x, polls[u][x], Recorded(u))'
      /\ \A x \in Endpoints : Vouched(cur, x, etags[x], Recorded(cur))'
      /\ seen' = Recorded(cur)'
      /\ \A x \in Endpoints : polls'[cur'][x] = etags'[x]
  BY <1>1, <1>7 DEF Vouched, Wanted, Recorded
<1>9. Keys(out.items) \subseteq Keys(out'.items)
  <2>1. CASE status = "ok"
    BY <1>5, <2>1, KeysOfUnion
  <2>2. CASE status = "unchanged"
    BY <1>5, <2>2
  <2> QED
    BY <1>3, <2>1, <2>2
<1>10. Wanted(cur, e) \subseteq Recorded(cur) \cup Keys(out'.items)
  <2>1. CASE status = "ok"
    BY <1>5, <2>1, KeysOfUnion DEF Wanted
  <2>2. CASE status = "unchanged"
    <3>1. e \in Silenced(e)
      BY DEF Silenced, ListEndpoints
    <3> QED
      BY <1>1, <1>3, <1>7, <2>2, <3>1 DEF Vouched
  <2> QED
    BY <1>3, <2>1, <2>2
<1>11. ASSUME NEW x \in out'.answered \cap ListEndpoints
       PROVE  Vouched(cur, x, out'.etags[x], Recorded(cur) \cup Keys(out'.items))
  <2>1. CASE x = e
    BY <1>10, <2>1 DEF Vouched, Silenced, ListEndpoints
  <2>2. CASE x # e
    <3>1. x \in out.answered \cap ListEndpoints /\ x \in Endpoints
      BY <1>5, <2>2 DEF ListEndpoints
    <3>2. Vouched(cur, x, out.etags[x], Recorded(cur) \cup Keys(out.items))
      BY <1>1, <3>1 DEF VouchInv, Fetching
    <3> QED
      BY <1>5, <1>9, <2>2, <3>1, <3>2 DEF Vouched
  <2> QED
    BY <2>1, <2>2
<1>12. ASSUME NEW s \in PROnly, s \in out'.answered \/ out'.kind # "pr",
              out'.etags["issue"] = ver[cur]["issue"]
       PROVE  Wanted(cur, s) \subseteq Recorded(cur) \cup Keys(out'.items)
  <2>1. CASE s = e
    BY <1>10, <2>1
  <2>2. CASE s # e
    <3>1. "issue" \in out.answered /\ "issue" # e /\ "issue" \in Endpoints
      BY <1>1 DEF CallInv, ListEndpoints, Endpoints
    <3>2. out.etags["issue"] = ver[cur]["issue"] /\ (s \in out.answered \/ out.kind # "pr")
      BY <1>5, <1>12, <2>2, <3>1
    <3>3. Wanted(cur, s) \subseteq Recorded(cur) \cup Keys(out.items)
      BY <1>1, <3>1, <3>2 DEF VouchInv, Fetching
    <3> QED
      BY <1>9, <3>3
  <2> QED
    BY <2>1, <2>2
<1> QED
  <2>1. /\ cur' = cur /\ Recorded(cur)' = Recorded(cur') /\ Keys(out.items)' = Keys(out'.items)
        /\ \A x \in Endpoints : etags'[x] = etags[x] /\ ver' = ver /\ items' = items
        /\ Recorded(cur)' = Recorded(cur)
    BY <1>1 DEF Recorded, Keys
  <2>2. \A x \in out'.answered \cap ListEndpoints :
          Vouched(cur, x, out.etags[x], Recorded(cur) \cup Keys(out.items))'
    BY <1>1, <1>11, <2>1 DEF Vouched, Wanted
  <2>3. \A s \in PROnly :
         /\ "issue" \in out'.answered
         /\ s \in out'.answered \/ out'.kind # "pr"
         /\ out'.etags["issue"] = ver'[cur']["issue"]
         => Wanted(cur, s)' \subseteq Recorded(cur)' \cup Keys(out.items)'
    BY <1>1, <1>12, <2>1 DEF Wanted
  <2> QED
    BY <1>5, <1>8, <2>1, <2>2, <2>3 DEF VouchInv

\* Saving an outcome replaces an old ETag by the one the snapshot carries.
LEMMA SaveStrand ==
  ASSUME Inv, NEW e \in Endpoints, Save(e)
  PROVE  VouchInv'
<1> USE DEF Inv, PInv, PollInv
<1>1. /\ TypeOK /\ TypeInv' /\ pc = "save" /\ cur \in Threads /\ e \in out.answered
      /\ UNCHANGED <<items, ver, events, pc, cur, etags, seen, out>>
      /\ polls' = polls \/ polls' = [polls EXCEPT ![cur] = [polls[cur] EXCEPT ![e] = out.etags[e]]]
  BY TypeInvNext DEF Save, SavePollOutcome, TypeInv, TypeOK, ControlInv, Polling, Fetching, NoThread,
       Next, PollerStep, ghVars
<1>2. polls \in [Threads -> [Endpoints -> Nat]]
  BY <1>1 DEF TypeOK
<1>3. ASSUME NEW u \in Threads, NEW x \in Endpoints
      PROVE  polls'[u][x] = polls[u][x] \/ (u = cur /\ x = e /\ polls'[u][x] = out.etags[e])
  BY <1>1, <1>2
<1> QED
  <2>1. ASSUME NEW u \in Threads, NEW x \in Endpoints, u # cur
        PROVE  Vouched(u, x, polls[u][x], Recorded(u))'
    <3>1. Vouched(u, x, polls[u][x], Recorded(u)) /\ polls'[u][x] = polls[u][x]
      BY <1>3, <2>1 DEF VouchInv
    <3> QED
      BY <1>1, <3>1 DEF Vouched, Wanted, Recorded
  <2>2. /\ seen = Recorded(cur)
        /\ \A x \in Endpoints : Vouched(cur, x, etags[x], Recorded(cur))
        /\ \A x \in out.answered \cap ListEndpoints :
             Vouched(cur, x, out.etags[x], Recorded(cur) \cup Keys(out.items))
        /\ \A s \in PROnly :
             /\ "issue" \in out.answered
             /\ s \in out.answered \/ out.kind # "pr"
             /\ out.etags["issue"] = ver[cur]["issue"]
             => Wanted(cur, s) \subseteq Recorded(cur) \cup Keys(out.items)
    BY <1>1 DEF VouchInv
  <2>3. /\ seen' = Recorded(cur)'
        /\ \A x \in Endpoints : Vouched(cur, x, etags[x], Recorded(cur))'
        /\ \A x \in out'.answered \cap ListEndpoints :
             Vouched(cur, x, out.etags[x], Recorded(cur) \cup Keys(out.items))'
        /\ \A s \in PROnly :
             /\ "issue" \in out'.answered
             /\ s \in out'.answered \/ out'.kind # "pr"
             /\ out'.etags["issue"] = ver'[cur']["issue"]
             => Wanted(cur, s)' \subseteq Recorded(cur)' \cup Keys(out.items)'
    BY <1>1, <2>2 DEF Vouched, Wanted, Recorded, Keys
  <2>4. \A x \in Endpoints :
          polls'[cur][x] = etags[x] \/ (x \in out.answered /\ polls'[cur][x] = out.etags[x])
    BY <1>1, <1>3 DEF VouchInv
  <2>5. out.err => out.answered = {"issue"} /\ out.etags["issue"] = etags["issue"]
    BY DEF VouchInv
  <2>6. ~ Fetching'
    BY <1>1 DEF Fetching, Endpoints
  <2> QED
    BY <1>1, <2>1, <2>3, <2>4, <2>5, <2>6 DEF VouchInv

\* A step into a phase between polls keeps the invariant if every ETag that
\* is stored then vouches for its streams.
LEMMA BetweenPolls ==
  ASSUME Inv, TypeInv', ~ Polling', UNCHANGED <<items, ver, events, polls>>,
         \A t \in Threads, e \in Endpoints : Vouched(t, e, polls[t][e], Recorded(t))
  PROVE  VouchInv'
<1> USE DEF Inv, PInv, PollInv
<1>1. cur' \notin Threads /\ out' = NewResult /\ pc' \notin {"save", "apply"} /\ ~ Fetching'
  BY ThreadsAssumption DEF TypeInv, ControlInv, Polling, NoThread
<1>2. NewResult.answered = {} /\ NewResult.err = FALSE /\ NewResult.kind = ""
  BY DEF NewResult
<1> QED
  <2>1. \A t \in Threads, e \in Endpoints : Vouched(t, e, polls[t][e], Recorded(t))'
    BY DEF Vouched, Wanted, Recorded
  <2> QED
    BY <1>1, <1>2, <2>1 DEF VouchInv

\* An aborted poll fetched the issue only and carried its ETag on.
LEMMA AbortStrand ==
  ASSUME Inv, Abort
  PROVE  VouchInv'
<1> USE DEF Inv, PInv, PollInv
<1>1. /\ TypeInv' /\ pc = "save" /\ cur \in Threads /\ out.err /\ pc' = "next"
      /\ UNCHANGED <<items, ver, events, polls>>
  BY TypeInvNext DEF Abort, Return, TypeInv, TypeOK, ControlInv, Polling, Fetching, NoThread,
       Next, PollerStep, ghVars, dbVars
<1>2. ASSUME NEW t \in Threads, NEW e \in Endpoints
      PROVE  Vouched(t, e, polls[t][e], Recorded(t))
  <2>1. CASE t # cur
    BY <2>1 DEF VouchInv
  <2>2. CASE t = cur
    <3>1. polls[t][e] = etags[e]
      BY <1>1, <2>2 DEF VouchInv
    <3> QED
      BY <1>1, <2>2, <3>1 DEF VouchInv
  <2> QED
    BY <2>1, <2>2
<1>3. ~ Polling'
  BY <1>1 DEF Polling, Fetching, Endpoints
<1> QED
  BY <1>1, <1>2, <1>3, BetweenPolls

\* After the insert the table has what it had and the whole snapshot.
LEMMA InsertRecords ==
  ASSUME TypeOK, cur \in Threads, seen = Recorded(cur),
         events' = [events EXCEPT ![cur] = InsertEventsIfNew(events[cur], NewEvents(Existing, out))]
  PROVE  /\ Recorded(cur) \cup Keys(out.items) \subseteq SeenIDs(events'[cur])
         /\ \A t \in Threads : t # cur => events'[t] = events[t]
<1>1. events \in [Threads -> SUBSET Event]
  BY DEF TypeOK
<1>2. events'[cur] = InsertEventsIfNew(events[cur], NewEvents(Existing, out))
  BY <1>1
<1>3. events[cur] \subseteq events'[cur]
  BY <1>2 DEF InsertEventsIfNew
<1>4. ASSUME NEW x \in Surfaced(out.items)
      PROVE  Key(x) \in SeenIDs(events'[cur])
  <2>1. CASE Key(x) \in seen
    BY <1>3, <2>1 DEF Recorded, SeenIDs
  <2>2. CASE Key(x) \notin seen
    <3>1. x \in NewEvents(Existing, out)
      BY <2>2 DEF NewEvents, Existing
    <3>2. \A r \in events[cur] : Key(r) # Key(x)
      BY <2>2 DEF Recorded, SeenIDs
    <3>3. x \in events'[cur]
      BY <1>2, <3>1, <3>2 DEF InsertEventsIfNew
    <3> QED
      BY <3>3 DEF SeenIDs
  <2> QED
    BY <2>1, <2>2
<1>5. Keys(out.items) \subseteq SeenIDs(events'[cur])
  BY <1>4 DEF Keys
<1>6. Recorded(cur) \subseteq SeenIDs(events'[cur])
  BY <1>3 DEF Recorded, SeenIDs
<1> QED
  BY <1>1, <1>5, <1>6

\* The insert makes good what the saved ETags promise.
LEMMA InsertStrand ==
  ASSUME Faults \subseteq SafeFaults, Inv, Insert
  PROVE  VouchInv'
<1> USE DEF Inv, PInv, PollInv
<1>1. /\ TypeOK /\ TypeInv' /\ pc = "save" /\ ~ out.err /\ cur \in Threads /\ pc' = "apply"
      /\ events' = [events EXCEPT ![cur] = InsertEventsIfNew(events[cur], NewEvents(Existing, out))]
      /\ UNCHANGED <<items, ver, polls, cur, etags, out>>
  BY TypeInvNext DEF Insert, Fault, SafeFaults, TypeInv, TypeOK, ControlInv, Polling, Fetching,
       NoThread, Next, PollerStep, ghVars
<1>2. "issue" \in out.answered /\ (out.kind = "pr" => PROnly \subseteq out.answered)
  BY <1>1 DEF CallInv
<1>3. /\ seen = Recorded(cur)
      /\ \A e \in Endpoints : Vouched(cur, e, etags[e], Recorded(cur))
      /\ \A e \in out.answered \cap ListEndpoints :
           Vouched(cur, e, out.etags[e], Recorded(cur) \cup Keys(out.items))
      /\ \A s \in PROnly :
           /\ "issue" \in out.answered
           /\ s \in out.answered \/ out.kind # "pr"
           /\ out.etags["issue"] = ver[cur]["issue"]
           => Wanted(cur, s) \subseteq Recorded(cur) \cup Keys(out.items)
      /\ \A e \in Endpoints :
           polls[cur][e] = etags[e] \/ (e \in out.answered /\ polls[cur][e] = out.etags[e])
  BY <1>1 DEF VouchInv
<1>4. /\ Recorded(cur) \cup Keys(out.items) \subseteq SeenIDs(events'[cur])
      /\ \A t \in Threads : t # cur => events'[t] = events[t]
  BY <1>1, <1>3, InsertRecords
<1>5. ASSUME NEW e \in Endpoints
      PROVE  Vouched(cur, e, polls[cur][e], Recorded(cur) \cup Keys(out.items))
  <2>1. CASE polls[cur][e] = etags[e]
    BY <1>3, <2>1 DEF Vouched
  <2>2. CASE e \in out.answered /\ polls[cur][e] = out.etags[e] /\ e \in ListEndpoints
    BY <1>3, <2>2
  <2>3. CASE polls[cur][e] = out.etags[e] /\ e = "issue"
    BY <1>2, <1>3, <2>3 DEF Vouched, Silenced
  <2> QED
    BY <1>3, <2>1, <2>2, <2>3 DEF ListEndpoints
<1>6. ASSUME NEW t \in Threads, NEW e \in Endpoints
      PROVE  Vouched(t, e, polls[t][e], Recorded(t))'
  <2>1. CASE t # cur
    <3>1. Vouched(t, e, polls[t][e], Recorded(t))
      BY <2>1 DEF VouchInv
    <3> QED
      BY <1>1, <1>4, <2>1, <3>1 DEF Vouched, Wanted, Recorded
  <2>2. CASE t = cur
    BY <1>1, <1>4, <1>5, <2>2 DEF Vouched, Wanted, Recorded, SeenIDs
  <2> QED
    BY <2>1, <2>2
<1> QED
  BY <1>1, <1>6 DEF VouchInv, Fetching, Endpoints

-----------------------------------------------------------------------------
(* The invariant and the theorem *)

LEMMA StrandInit == Init => Inv
<1> SUFFICES ASSUME Init PROVE VouchInv
  BY TypeInvInit, PollInit DEF Inv, PInv
<1>1. \A t \in Threads, e \in Endpoints : polls[t][e] # ver[t][e]
  BY DEF Init, GitHubInit, NoETags, NoETag
<1>2. pc = "idle" /\ out.err = FALSE
  BY DEF Init, NewResult
<1> QED
  BY <1>1, <1>2 DEF VouchInv, Vouched, Fetching, Endpoints

LEMMA StrandNext ==
  ASSUME Faults \subseteq SafeFaults, Inv, [Next]_vars
  PROVE  Inv'
<1> USE DEF Inv
<1>0. PInv'
  BY PollNext
<1> SUFFICES VouchInv'
  BY <1>0
<1>1. TypeInv'
  BY <1>0 DEF PInv
<1>2. ~ (pc = "save") =>
        \A t \in Threads, e \in Endpoints : Vouched(t, e, polls[t][e], Recorded(t))
  BY DEF VouchInv
<1>3. CASE BeginTick
  <2>1. pc # "save" /\ pc' \in {"idle", "next"} /\ UNCHANGED <<items, ver, events, polls>>
    BY <1>3 DEF BeginTick, ghVars, dbVars
  <2> QED
    BY <1>1, <1>2, <2>1, BetweenPolls DEF Polling, Fetching, Endpoints
<1>4. CASE EndTick
  <2>1. pc # "save" /\ pc' = "idle" /\ UNCHANGED <<items, ver, events, polls>>
    BY <1>4 DEF EndTick, ghVars, dbVars
  <2> QED
    BY <1>1, <1>2, <2>1, BetweenPolls DEF Polling, Fetching, Endpoints
<1>5. CASE \E t \in Threads : StartPoll(t)
  BY <1>1, <1>5, StartPollStrand
<1>6. CASE FetchIssue
  BY <1>1, <1>6, FetchIssueStrand
<1>7. CASE \E e \in ListEndpoints : FetchList(e)
  BY <1>1, <1>7, FetchListStrand
<1>8. CASE \E e \in Endpoints : Save(e)
  BY <1>1, <1>8, SaveStrand
<1>9. CASE Abort
  BY <1>1, <1>9, AbortStrand
<1>10. CASE Insert
  BY <1>1, <1>10, InsertStrand
<1>11. CASE Apply
  <2>1. pc # "save" /\ pc' = "next" /\ UNCHANGED <<items, ver, events, polls>>
    BY <1>11 DEF Apply, Return, ghVars
  <2> QED
    BY <1>1, <1>2, <2>1, BetweenPolls DEF Polling, Fetching, Endpoints
<1>12. CASE Boot
  <2>1. pc # "save" /\ pc' = "idle" /\ UNCHANGED <<items, ver, events, polls>>
    BY <1>12 DEF Boot, ghVars
  <2> QED
    BY <1>1, <1>2, <2>1, BetweenPolls DEF Polling, Fetching, Endpoints
<1>13. CASE Crash
  BY <1>13 DEF Crash, Fault, SafeFaults
<1>14. CASE Activity
  BY <1>1, <1>14, ActivityStrand
<1>15. CASE UNCHANGED vars
  <2>1. UNCHANGED <<items, ver, events, polls, pc, cur, etags, seen, out, unsaved>>
    BY <1>15 DEF vars, ghVars, dbVars, memVars
  <2> QED
    BY <2>1 DEF VouchInv, Vouched, Wanted, Recorded, Keys, Fetching
<1> QED
  BY <1>3, <1>4, <1>5, <1>6, <1>7, <1>8, <1>9, <1>10, <1>11, <1>12, <1>13, <1>14, <1>15
  DEF Next, PollerStep

\* What StrandInv says of a stream: if its own ETag, or for a stream of pull
\* requests the issue's, is up to date, the stream is recorded or in flight.
LEMMA StrandInvSuffices == Inv => NothingStranded
<1> SUFFICES ASSUME Inv, NEW t \in Threads, NEW s \in ListEndpoints, ~ WillServe(t, s)
             PROVE  Wanted(t, s) \subseteq Recorded(t) \cup InFlight(t)
  BY DEF NothingStranded, Kept
<1> USE DEF Inv, PInv, PollInv
<1>1. PICK e \in Endpoints : polls[t][e] = ver[t][e] /\ s \in Silenced(e)
  <2>1. CASE polls[t][s] = ver[t][s]
    BY <2>1 DEF Silenced, ListEndpoints
  <2>2. CASE s \in PROnly /\ polls[t]["issue"] = ver[t]["issue"]
    BY <2>2 DEF Silenced, Endpoints
  <2> QED
    BY <2>1, <2>2 DEF WillServe
<1>2. CASE ~ (cur = t /\ pc = "save")
  <2>1. Vouched(t, e, polls[t][e], Recorded(t))
    BY <1>2 DEF VouchInv
  <2> QED
    BY <1>1, <2>1 DEF Vouched
<1>3. CASE cur = t /\ pc = "save" /\ out.err
  <2>1. polls[t][e] = etags[e] /\ Vouched(t, e, etags[e], Recorded(t))
    BY <1>3 DEF VouchInv
  <2> QED
    BY <1>1, <2>1 DEF Vouched
<1>4. CASE cur = t /\ pc = "save" /\ ~ out.err
  <2>1. InFlight(t) = Keys(out.items)
    BY <1>4 DEF InFlight
  <2>2. CASE polls[t][e] = etags[e]
    <3>1. Vouched(t, e, etags[e], Recorded(t))
      BY <1>4 DEF VouchInv
    <3> QED
      BY <1>1, <2>2, <3>1 DEF Vouched
  <2>3. CASE e \in out.answered /\ polls[t][e] = out.etags[e] /\ e # "issue"
    <3>1. Vouched(t, e, out.etags[e], Recorded(t) \cup Keys(out.items))
      BY <1>4, <2>3 DEF VouchInv, ListEndpoints
    <3> QED
      BY <1>1, <2>1, <2>3, <3>1 DEF Vouched
  <2>4. CASE polls[t][e] = out.etags[e] /\ e = "issue"
    <3>1. s \in PROnly /\ out.etags["issue"] = ver[t]["issue"] /\ "issue" \in out.answered
      BY <1>1, <1>4, <2>4 DEF Silenced, CallInv
    <3>2. s \in out.answered \/ out.kind # "pr"
      BY <1>4, <3>1 DEF CallInv
    <3> QED
      BY <1>4, <2>1, <3>1, <3>2 DEF VouchInv
  <2> QED
    BY <1>4, <2>2, <2>3, <2>4 DEF VouchInv
<1> QED
  BY <1>2, <1>3, <1>4

\* For any number of threads, failures and page size: as long as no failure
\* discards a body whose ETag gets saved, no 304 ever hides an event that
\* is not recorded.
THEOREM NothingIsStranded ==
  ASSUME Faults \subseteq SafeFaults
  PROVE  Spec => []NothingStranded
<1>1. Init => Inv
  BY StrandInit
<1>2. Inv /\ [Next]_vars => Inv'
  BY StrandNext
<1>3. Inv => NothingStranded
  BY StrandInvSuffices
<1> QED
  BY <1>1, <1>2, <1>3, PTL DEF Spec

\* Every ETag on record vouches for its streams, in every state.
THEOREM ETagsVouch ==
  ASSUME Faults \subseteq SafeFaults
  PROVE  Spec => []StrandInv
<1>1. Init => Inv
  BY StrandInit
<1>2. Inv /\ [Next]_vars => Inv'
  BY StrandNext
<1>3. Inv => StrandInv
  BY DEF Inv, PInv, PollInv, StrandInv
<1> QED
  BY <1>1, <1>2, <1>3, PTL DEF Spec

-----------------------------------------------------------------------------
(* What failures lose: events *)

\* Only Insert writes events, only Save writes ETags, and GitHub only
\* changes by Activity.
LEMMA OtherWriters ==
  ASSUME [Next]_vars
  PROVE  \/ Activity \/ Insert \/ \E x \in Endpoints : Save(x)
         \/ UNCHANGED <<items, ver, issue, events, polls>>
BY DEF Next, PollerStep, BeginTick, EndTick, StartPoll, FetchIssue, FetchList, Continue, Abort, Apply,
       Boot, Crash, ghVars, dbVars, vars

\* A snapshot goes out of memory by an insert, an abort or the end of the
\* process only.
LEMMA SnapshotStays ==
  ASSUME [Next]_vars, pc = "save", ~ out.err
  PROVE  \/ Insert \/ pc' = "boot"
         \/ UNCHANGED <<pc, cur, out>>
<1>1. CASE Activity \/ Crash \/ UNCHANGED vars
  BY <1>1 DEF Activity, Crash, memVars, vars
<1>2. CASE \E x \in Endpoints : Save(x)
  BY <1>2 DEF Save
<1> QED
  BY <1>1, <1>2 DEF Next, PollerStep, BeginTick, EndTick, StartPoll, FetchIssue, FetchList, Abort,
                    Apply, Boot, ListEndpoints, Endpoints

\* Activity on GitHub makes every endpoint it touches one that will serve
\* the next poll.
LEMMA ActivityKeeps ==
  ASSUME PInv, TypeInv', Activity, NEW t \in Threads, NEW s \in ListEndpoints, Kept(t, s)
  PROVE  Kept(t, s)'
<1> USE DEF PInv, PollInv
<1>1. /\ TypeOK /\ TypeOK' /\ pc' = pc /\ cur' = cur /\ out' = out
      /\ events' = events /\ polls' = polls /\ "issue" \in Endpoints /\ s \in Endpoints
  BY DEF Activity, dbVars, memVars, TypeInv, Endpoints, ListEndpoints
<1>2. Recorded(t)' = Recorded(t) /\ InFlight(t)' = InFlight(t)
  BY <1>1 DEF Recorded, InFlight, Keys
<1>3. ASSUME NEW e \in Endpoints
      PROVE  /\ ver[t][e] \in Nat /\ ver'[t][e] \in Nat /\ polls[t][e] \in Nat
             /\ polls[t][e] <= ver[t][e] /\ ver[t][e] <= ver'[t][e]
  <2>1. ver[t][e] <= ver'[t][e]
    BY <1>1, ActivityGuard
  <2> QED
    BY <1>1, <2>1 DEF TypeOK, GitHubTypeOK, TagInv
<1>4. ASSUME NEW e \in Endpoints, ver'[t][e] # ver[t][e] \/ polls[t][e] # ver[t][e]
      PROVE  polls'[t][e] # ver'[t][e]
  BY <1>1, <1>3, <1>4
<1>5. CASE ver'[t][s] = ver[t][s]
  <2>1. Wanted(t, s)' = Wanted(t, s)
    <3>1. s \in Silenced(s)
      BY DEF Silenced, ListEndpoints
    <3> QED
      BY <1>1, <1>5, <3>1, ActivityGuard DEF Wanted
  <2>2. CASE WillServe(t, s)
    BY <1>1, <1>4, <2>2 DEF WillServe, Kept
  <2>3. CASE ~ WillServe(t, s)
    BY <1>2, <2>1, <2>3 DEF Kept
  <2> QED
    BY <2>2, <2>3
<1>6. CASE ver'[t][s] # ver[t][s]
  <2>1. s \in PROnly => ver'[t]["issue"] # ver[t]["issue"]
    <3>1. s \in PROnly => s \in Silenced("issue")
      BY DEF Silenced
    <3> QED
      BY <1>1, <1>6, <3>1, ActivityGuard
  <2> QED
    BY <1>1, <1>4, <1>6, <2>1 DEF WillServe, Kept
<1> QED
  BY <1>5, <1>6

\* An ETag is saved while the body it came with waits to be inserted, unless
\* FetchThread has failed or squashed a 404.
LEMMA SaveKeeps ==
  ASSUME PInv, NEW x \in Endpoints, Save(x), NEW s \in ListEndpoints, Kept(cur, s),
         polls' # polls, ~ out.err, ~ Squashed(s)
  PROVE  Kept(cur, s)'
<1> USE DEF PInv, PollInv
<1>1. /\ TypeOK /\ pc = "save" /\ cur \in Threads /\ x \in out.answered
      /\ UNCHANGED <<items, ver, events, pc, cur, out>>
      /\ polls' = [polls EXCEPT ![cur] = [polls[cur] EXCEPT ![x] = out.etags[x]]]
  BY DEF Save, SavePollOutcome, TypeInv, TypeOK, ControlInv, Polling, NoThread, ghVars
<1>2. /\ polls'[cur][x] = out.etags[x]
      /\ \A e \in Endpoints : e # x => polls'[cur][e] = polls[cur][e]
  BY <1>1 DEF TypeOK
<1>3. /\ \A e \in Endpoints : polls[cur][e] \in {etags[e], out.etags[e]}
      /\ \A r \in out.answered \cap ListEndpoints : out.etags[r] = ver[cur][r] =>
           etags[r] = ver[cur][r] \/ Wanted(cur, r) \subseteq Keys(out.items)
  BY <1>1 DEF HeldInv
<1>4. /\ InFlight(cur)' = Keys(out.items) /\ InFlight(cur) = Keys(out.items)
      /\ Wanted(cur, s)' = Wanted(cur, s) /\ Recorded(cur)' = Recorded(cur)
      /\ s \in Endpoints /\ "issue" \in Endpoints /\ s # "issue"
  BY <1>1 DEF InFlight, Keys, Wanted, Recorded, ListEndpoints, Endpoints
<1> SUFFICES ASSUME WillServe(cur, s), ~ WillServe(cur, s)'
             PROVE  Wanted(cur, s) \subseteq Keys(out.items)
  BY <1>4 DEF Kept
<1>5. ASSUME s \in out.answered, out.etags[s] = ver[cur][s]
      PROVE  Wanted(cur, s) \subseteq Keys(out.items)
  <2>1. etags[s] # ver[cur][s]
    BY <1>3, <1>4, <1>5 DEF WillServe
  <2> QED
    BY <1>3, <1>5, <2>1
<1>6. CASE polls'[cur][s] = ver[cur][s]
  <2>1. x = s
    BY <1>2, <1>4, <1>6 DEF WillServe
  <2> QED
    BY <1>1, <1>2, <1>5, <1>6, <2>1
<1>7. CASE s \in PROnly /\ polls'[cur]["issue"] = ver[cur]["issue"]
  <2>1. x = "issue" /\ out.etags["issue"] = ver[cur]["issue"] /\ etags["issue"] # ver[cur]["issue"]
    BY <1>2, <1>3, <1>4, <1>7 DEF WillServe
  <2>2. /\ out.kind = Kind[cur]
        /\ \A r \in PROnly \cap out.answered : out.etags[r] \in {NoETag, ver[cur][r]}
    BY <1>1, <2>1 DEF HeldInv
  <2>3. CASE Kind[cur] = "issue"
    BY <1>1, <1>7, <2>3, WantedOfNone DEF StreamInv
  <2>4. CASE Kind[cur] = "pr"
    <3>1. s \in out.answered
      BY <1>1, <1>7, <2>2, <2>4 DEF CallInv
    <3> QED
      BY <1>5, <1>7, <2>2, <3>1 DEF Squashed
  <2> QED
    BY <1>1, <2>3, <2>4, KindAssumption
<1> QED
  BY <1>1, <1>6, <1>7 DEF WillServe

LEMMA InsertKeeps ==
  ASSUME PInv, Insert, NEW t \in Threads, NEW s \in ListEndpoints, Kept(t, s),
         ~ (cur = t /\ faults' # faults)
  PROVE  Kept(t, s)'
<1> USE DEF PInv, PollInv
<1>1. /\ TypeOK /\ pc = "save" /\ cur \in Threads /\ ~ out.err /\ UNCHANGED <<items, ver, polls>>
      /\ seen = Recorded(cur)
  BY DEF Insert, TypeInv, TypeOK, ControlInv, Polling, NoThread, HeldInv, ghVars
<1>2. Recorded(t) \cup InFlight(t) \subseteq Recorded(t)'
  <2>1. CASE events' = events /\ faults' # faults
    BY <1>1, <2>1 DEF Recorded, InFlight
  <2>2. CASE events' = [events EXCEPT ![cur] = InsertEventsIfNew(events[cur], NewEvents(Existing, out))]
    <3>1. /\ Recorded(cur) \cup Keys(out.items) \subseteq SeenIDs(events'[cur])
          /\ \A u \in Threads : u # cur => events'[u] = events[u]
      BY <1>1, <2>2, InsertRecords
    <3>2. CASE t = cur
      BY <1>1, <3>1, <3>2 DEF Recorded, SeenIDs, InFlight
    <3>3. CASE t # cur
      BY <3>1, <3>3 DEF Recorded, InFlight
    <3> QED
      BY <3>2, <3>3
  <2>3. faults \in Nat
    BY <1>1, FaultsAssumption DEF TypeOK
  <2> QED
    BY <2>1, <2>2, <2>3 DEF Insert, Fault
<1>3. Wanted(t, s)' = Wanted(t, s) /\ (WillServe(t, s)' <=> WillServe(t, s))
  BY <1>1 DEF Wanted, WillServe
<1> QED
  BY <1>2, <1>3 DEF Kept

LEMMA StepKeeps ==
  ASSUME PInv, [Next]_vars, NEW t \in Threads, NEW s \in ListEndpoints
  PROVE  \/ Kept(t, s)' \/ ~ Kept(t, s)
         \/ /\ cur = t /\ pc = "save"
            /\ \/ pc' = "boot"
               \/ unsaved = {} /\ faults' # faults
               \/ polls' # polls /\ (out.err \/ Squashed(s))
<1> SUFFICES ASSUME Kept(t, s)
             PROVE  \/ Kept(t, s)'
                    \/ /\ cur = t /\ pc = "save"
                       /\ \/ pc' = "boot"
                          \/ unsaved = {} /\ faults' # faults
                          \/ polls' # polls /\ (out.err \/ Squashed(s))
  OBVIOUS
<1>1. TypeInv'
  BY TypeInvNext DEF PInv
<1>2. CASE Activity
  BY <1>1, <1>2, ActivityKeeps
<1>3. CASE Insert
  <2>1. pc = "save" /\ unsaved = {}
    BY <1>3 DEF Insert
  <2> QED
    BY <1>3, <2>1, InsertKeeps
<1>4. ASSUME UNCHANGED <<items, ver, events>>, polls'[t] = polls[t],
             InFlight(t)' = InFlight(t) \/ InFlight(t) = {}
      PROVE  Kept(t, s)'
  BY <1>4 DEF Kept, WillServe, Wanted, Recorded
<1>5. CASE \E x \in Endpoints : Save(x)
  <2>1. PICK x \in Endpoints : Save(x)
    BY <1>5
  <2>2. /\ UNCHANGED <<items, ver, events, pc, cur, out>> /\ pc = "save"
        /\ polls' = polls \/ polls' = [polls EXCEPT ![cur] = [polls[cur] EXCEPT ![x] = out.etags[x]]]
    BY <2>1 DEF Save, SavePollOutcome, ghVars
  <2>3. CASE t # cur \/ polls' = polls
    <3>1. polls'[t] = polls[t] /\ InFlight(t)' = InFlight(t)
      BY <2>2, <2>3 DEF InFlight, Keys, PInv, TypeInv, TypeOK
    <3> QED
      BY <1>4, <2>2, <3>1
  <2>4. CASE t = cur /\ polls' # polls
    <3>1. CASE out.err \/ Squashed(s)
      BY <2>2, <2>4, <3>1
    <3>2. CASE ~ out.err /\ ~ Squashed(s)
      <4>1. Kept(cur, s)'
        BY <2>1, <2>4, <3>2, SaveKeeps
      <4> QED
        BY <2>2, <2>4, <4>1 DEF Kept, WillServe, Wanted, Recorded, InFlight
    <3> QED
      BY <3>1, <3>2
  <2> QED
    BY <2>3, <2>4
<1>6. CASE ~ Insert /\ UNCHANGED <<items, ver, issue, events, polls>>
  <2>1. CASE cur = t /\ pc = "save" /\ ~ out.err
    <3>1. pc' = "boot" \/ UNCHANGED <<pc, cur, out>>
      BY <1>6, <2>1, SnapshotStays
    <3>2. CASE UNCHANGED <<pc, cur, out>>
      BY <1>4, <1>6, <3>2 DEF InFlight, Keys
    <3> QED
      BY <2>1, <3>1, <3>2
  <2>2. CASE ~ (cur = t /\ pc = "save" /\ ~ out.err)
    <3>1. InFlight(t) = {}
      BY <2>2 DEF InFlight
    <3> QED
      BY <1>4, <1>6, <3>1
  <2> QED
    BY <2>1, <2>2
<1> QED
  BY <1>2, <1>3, <1>5, <1>6, OtherWriters

\* With failures of every kind, in any number, an event is missed at no other
\* step than those three at which a poll loses what it has itself fetched.
THEOREM OnlyFailuresStrandEvents == Spec => OnlyFailuresStrand
<1>1. Init => PInv
  BY TypeInvInit, PollInit DEF PInv
<1>2. PInv /\ [Next]_vars => PInv'
  BY PollNext
<1>3. PInv /\ [Next]_vars =>
        \A t \in Threads : \A s \in ListEndpoints :
          \/ Kept(t, s)' \/ ~ Kept(t, s)
          \/ /\ cur = t /\ pc = "save"
             /\ \/ pc' = "boot"
                \/ unsaved = {} /\ faults' # faults
                \/ polls' # polls /\ (out.err \/ Squashed(s))
  BY StepKeeps
<1> QED
  BY <1>1, <1>2, <1>3, PTL DEF Spec, OnlyFailuresStrand

-----------------------------------------------------------------------------
(* What failures lose: the state of a row *)

\* A thread whose poll has no state in hand stays as current as it was when
\* nothing changes that it is judged by.
LEMMA NothingInHand ==
  ASSUME NEW t \in Threads, Current(t), UNCHANGED <<ver, issue>>,
         row'[t] = row[t], polls'[t] = polls[t],
         ~ (cur = t /\ (pc = "apply" \/ (pc = "save" /\ ~ out.err)))
  PROVE  Current(t)'
BY DEF Current

\* When the issue changes, no ETag on record matches any more; when it does
\* not, its state is the same.
LEMMA ActivityCurrent ==
  ASSUME PInv, TypeInv', Activity, NEW t \in Threads, Current(t)
  PROVE  Current(t)'
<1> USE DEF PInv, PollInv
<1>1. /\ TypeOK /\ TypeOK' /\ "issue" \in Endpoints
      /\ UNCHANGED <<row, polls, pc, cur, out>>
  BY DEF Activity, dbVars, memVars, TypeInv, Endpoints
<1>2. /\ ver[t]["issue"] \in Nat /\ ver'[t]["issue"] \in Nat /\ polls[t]["issue"] \in Nat
      /\ polls[t]["issue"] <= ver[t]["issue"]
  BY <1>1 DEF TypeOK, GitHubTypeOK, TagInv
<1>3. ver[t]["issue"] <= ver'[t]["issue"]
  BY <1>1, ActivityGuard
<1>4. CASE ver'[t]["issue"] = ver[t]["issue"]
  <2>1. issue'[t].state = issue[t].state
    BY <1>1, <1>4, ActivityIssue
  <2> QED
    BY <1>1, <1>4, <2>1 DEF Current
<1>5. CASE ver'[t]["issue"] # ver[t]["issue"]
  BY <1>1, <1>2, <1>3, <1>5 DEF Current
<1> QED
  BY <1>4, <1>5

\* The ETag of a body is saved while the state it brought waits to be
\* applied.
LEMMA SaveCurrent ==
  ASSUME PInv, NEW x \in Endpoints, Save(x), NEW t \in Threads, Current(t),
         ~ (cur = t /\ out.err /\ polls' # polls)
  PROVE  Current(t)'
<1> USE DEF PInv, PollInv
<1>1. /\ TypeOK /\ pc = "save" /\ cur \in Threads /\ x \in out.answered /\ "issue" \in Endpoints
      /\ UNCHANGED <<row, ver, issue, pc, cur, out>>
      /\ polls' = polls \/ polls' = [polls EXCEPT ![cur] = [polls[cur] EXCEPT ![x] = out.etags[x]]]
  BY DEF Save, SavePollOutcome, TypeInv, TypeOK, ControlInv, Polling, NoThread, ghVars, Endpoints
<1>2. CASE polls'[t]["issue"] = polls[t]["issue"]
  BY <1>1, <1>2 DEF Current
<1>3. CASE polls'[t]["issue"] # polls[t]["issue"]
  <2>1. t = cur /\ x = "issue" /\ polls'[t]["issue"] = out.etags["issue"] /\ ~ out.err
    BY <1>1, <1>3 DEF TypeOK
  <2>2. out.etags["issue"] # etags["issue"]
    BY <1>1, <1>3, <2>1 DEF HeldInv
  <2>3. out.etags["issue"] = ver[cur]["issue"] => out.state = issue[cur].state
    BY <1>1, <2>1, <2>2 DEF SnapshotInv
  <2> QED
    BY <1>1, <2>1, <2>3 DEF Current
<1> QED
  BY <1>2, <1>3

\* An empty state in the snapshot leaves the row's.
LEMMA AppliedState ==
  ASSUME TypeOK, cur \in Threads,
         row' = [row EXCEPT ![cur] = ApplyThreadUpdate(row[cur], Update(Existing, out))]
  PROVE  /\ out.state = "" => row'[cur].state = row[cur].state
         /\ out.state # "" => row'[cur].state = out.state
<1>1. row \in [Threads -> Row] /\ out.state \in {""} \cup States
  BY DEF TypeOK, Result
<1>2. row'[cur] = ApplyThreadUpdate(row[cur], Update(Existing, out))
  BY <1>1
<1>3. out.state # "unknown"
  BY <1>1 DEF States
<1> QED
  BY <1>1, <1>2, <1>3 DEF ApplyThreadUpdate, Update

\* What is applied is GitHub's state, unless the ETag on record is out of
\* date.
LEMMA ApplyCurrent ==
  ASSUME PInv, Apply, NEW t \in Threads, Current(t), ~ (cur = t /\ faults' # faults)
  PROVE  Current(t)'
<1> USE DEF PInv, PollInv
<1>1. /\ TypeOK /\ pc = "apply" /\ cur \in Threads /\ UNCHANGED <<ver, issue, polls>> /\ faults \in Nat
      /\ "issue" \in Endpoints
  BY FaultsAssumption DEF Apply, TypeInv, TypeOK, ControlInv, Polling, NoThread, ghVars, Endpoints
<1>2. /\ row \in [Threads -> Row] /\ out.state \in {""} \cup States /\ issue[t].state \in States
  BY <1>1 DEF TypeOK, GitHubTypeOK, Result
<1>3. CASE t # cur
  <2>1. row'[t] = row[t]
    BY <1>2, <1>3 DEF Apply
  <2> QED
    BY <1>1, <1>3, <2>1, NothingInHand
<1>4. CASE t = cur
  <2>1. row' = [row EXCEPT ![cur] = ApplyThreadUpdate(row[cur], Update(Existing, out))]
    BY <1>1, <1>4 DEF Apply, Fault
  <2>2. /\ out.state = "" => row'[cur].state = row[cur].state
        /\ out.state # "" => row'[cur].state = out.state
    BY <1>1, <2>1, AppliedState
  <2>3. CASE out.state = ""
    <3>1. "" \notin States
      BY DEF States
    <3> QED
      BY <1>1, <1>2, <1>4, <2>2, <2>3, <3>1 DEF Current
  <2>4. CASE out.state # "" /\ polls[cur]["issue"] = ver[cur]["issue"]
    <3>1. out.etags["issue"] = ver[cur]["issue"]
      BY <1>1, <2>4 DEF HeldInv, SnapshotInv
    <3> QED
      BY <1>4, <1>1, <2>2, <2>4, <3>1 DEF SnapshotInv, Current
  <2>5. CASE polls[cur]["issue"] # ver[cur]["issue"]
    BY <1>1, <1>4, <2>5 DEF Current
  <2> QED
    BY <2>3, <2>4, <2>5
<1> QED
  BY <1>3, <1>4

LEMMA StepStaysCurrent ==
  ASSUME PInv, [Next]_vars, NEW t \in Threads
  PROVE  \/ Current(t)' \/ ~ Current(t)
         \/ /\ cur = t /\ pc \in {"save", "apply"}
            /\ \/ pc' = "boot"
               \/ unsaved = {} /\ faults' # faults
               \/ pc = "save" /\ out.err /\ polls' # polls
<1> SUFFICES ASSUME Current(t)
             PROVE  \/ Current(t)'
                    \/ /\ cur = t /\ pc \in {"save", "apply"}
                       /\ \/ pc' = "boot"
                          \/ unsaved = {} /\ faults' # faults
                          \/ pc = "save" /\ out.err /\ polls' # polls
  OBVIOUS
<1>1. TypeInv' /\ TypeOK /\ (pc # "save" => unsaved = {})
  BY TypeInvNext DEF PInv, TypeInv, ControlInv
<1>2. CASE Activity
  BY <1>1, <1>2, ActivityCurrent
<1>3. CASE \E x \in Endpoints : Save(x)
  <2>1. pc = "save"
    BY <1>3 DEF Save
  <2> QED
    BY <1>3, <2>1, SaveCurrent
<1>4. CASE Apply
  <2>1. pc = "apply"
    BY <1>4 DEF Apply
  <2> QED
    BY <1>1, <1>4, <2>1, ApplyCurrent
<1>5. CASE Insert
  <2>1. pc = "save" /\ unsaved = {} /\ ~ out.err /\ UNCHANGED <<row, ver, issue, polls>>
    BY <1>5 DEF Insert, ghVars
  <2>2. CASE pc' = "apply" /\ UNCHANGED <<cur, out>>
    BY <2>1, <2>2 DEF Current
  <2>3. CASE faults' = faults + 1
    <3>1. faults' # faults
      BY <1>1, <2>3, FaultsAssumption DEF TypeOK
    <3> QED
      BY <2>1, <3>1, NothingInHand
  <2> QED
    BY <1>5, <2>2, <2>3 DEF Insert, Fault
<1>6. CASE Crash
  <2>1. pc' = "boot" /\ UNCHANGED <<row, ver, issue, polls>>
    BY <1>6 DEF Crash, ghVars, dbVars
  <2> QED
    BY <2>1, NothingInHand
<1>7. CASE Boot
  <2>1. pc = "boot" /\ row' = row /\ UNCHANGED <<ver, issue, polls>>
    BY <1>1, <1>7, UpsertType DEF Boot, ghVars, TypeOK
  <2> QED
    BY <2>1, NothingInHand
<1>8. CASE BeginTick \/ EndTick \/ Abort \/ FetchIssue
           \/ (\E e \in ListEndpoints : FetchList(e)) \/ \E u \in Threads : StartPoll(u)
  <2>1. /\ UNCHANGED <<row, ver, issue, polls>>
        /\ pc \in {"idle", "next"} \cup Endpoints \/ (pc = "save" /\ out.err)
    BY <1>8 DEF BeginTick, EndTick, Abort, FetchIssue, FetchList, Continue, StartPoll,
                ghVars, dbVars, Endpoints, ListEndpoints
  <2>2. ~ (pc = "apply" \/ (pc = "save" /\ ~ out.err))
    BY <2>1 DEF Endpoints
  <2> QED
    BY <2>1, <2>2, NothingInHand
<1>9. CASE UNCHANGED vars
  BY <1>9 DEF vars, ghVars, dbVars, memVars, Current
<1> QED
  BY <1>2, <1>3, <1>4, <1>5, <1>6, <1>7, <1>8, <1>9 DEF Next, PollerStep

\* With failures of every kind, in any number, a 304 confirms an old state
\* only after a poll of the thread that had the new one in hand and lost it.
THEOREM OnlyFailuresLeaveStale == Spec => OnlyFailuresStale
<1>1. Init => PInv
  BY TypeInvInit, PollInit DEF PInv
<1>2. PInv /\ [Next]_vars => PInv'
  BY PollNext
<1>3. PInv /\ [Next]_vars =>
        \A t \in Threads :
          \/ Current(t)' \/ ~ Current(t)
          \/ /\ cur = t /\ pc \in {"save", "apply"}
             /\ \/ pc' = "boot"
                \/ unsaved = {} /\ faults' # faults
                \/ pc = "save" /\ out.err /\ polls' # polls
  BY StepStaysCurrent
<1> QED
  BY <1>1, <1>2, <1>3, PTL DEF Spec, OnlyFailuresStale

\* The three ways to lose a state take a failure that is not in SafeFaults,
\* or applyError.
LEMMA SafeStepStaysCurrent ==
  ASSUME Faults \subseteq SafeFaults \ {"applyError"}, Inv, StateCurrent, [Next]_vars
  PROVE  StateCurrent'
<1> SUFFICES ASSUME NEW t \in Threads, pc \in {"save", "apply"},
                    \/ pc' = "boot"
                    \/ unsaved = {} /\ faults' # faults
                    \/ pc = "save" /\ out.err /\ polls' # polls
             PROVE  FALSE
  BY StepStaysCurrent DEF Inv, StateCurrent
<1>1. CASE pc' = "boot" \/ (unsaved = {} /\ faults' # faults)
  BY <1>1 DEF Next, PollerStep, BeginTick, EndTick, StartPoll, FetchIssue, FetchList, Save, Abort, Insert,
              Apply, Return, Boot, Crash, Activity, memVars, vars, Fault, SafeFaults, ListEndpoints, Endpoints
<1>2. CASE pc = "save" /\ out.err /\ polls' # polls
  <2>1. PICK x \in Endpoints : Save(x)
    BY <1>2 DEF Next, PollerStep, BeginTick, EndTick, StartPoll, FetchIssue, FetchList, Continue, Abort,
                Insert, Apply, Boot, Crash, Activity, dbVars, vars
  <2>2. /\ x \in out.answered /\ polls' = [polls EXCEPT ![cur] = [polls[cur] EXCEPT ![x] = out.etags[x]]]
        /\ cur \in Threads /\ polls \in [Threads -> [Endpoints -> Nat]]
    BY <1>2, <2>1 DEF Save, SavePollOutcome, Inv, PInv, TypeInv, TypeOK, ControlInv, Polling, NoThread
  <2>3. x = "issue" /\ out.etags[x] = etags[x]
    BY <1>2, <2>2 DEF Inv, VouchInv
  <2>4. polls[cur][x] = out.etags[x]
    BY <1>2, <2>3 DEF Inv, PInv, PollInv, HeldInv
  <2> QED
    BY <1>2, <2>2, <2>4
<1> QED
  BY <1>1, <1>2

\* With the failures that lose no snapshot, a row never keeps a state that
\* the next 304 would confirm though GitHub has another one.
THEOREM StateIsCurrent ==
  ASSUME Faults \subseteq SafeFaults \ {"applyError"}
  PROVE  Spec => []StateCurrent
<1>1. Init => Inv /\ StateCurrent
  <2>1. Init => \A t \in Threads : polls[t]["issue"] = 0 /\ ver[t]["issue"] = 1
    BY DEF Init, GitHubInit, NoETags, NoETag, Endpoints
  <2>2. Init => StateCurrent
    BY <2>1 DEF StateCurrent, Current
  <2> QED
    BY <2>2, StrandInit
<1>2. Inv /\ StateCurrent /\ [Next]_vars => (Inv /\ StateCurrent)'
  BY StrandNext, SafeStepStaysCurrent DEF SafeFaults
<1> QED
  BY <1>1, <1>2, PTL DEF Spec
=============================================================================
