----------------------------- MODULE ThreadPage -----------------------------
(***************************************************************************)
(* The thread page of internal/httpserver beside the running poller.  The  *)
(* handler reads the thread's row and then its events, in two statements   *)
(* without a transaction around them; the poller may write between them.   *)
(*                                                                         *)
(* One request is enough: handlers share nothing and write nothing.        *)
(***************************************************************************)
EXTENDS PollerInv

CONSTANT PageLimit   \* the cap of the page, 200 in the code

ASSUME PageLimitAssumption == PageLimit \in Nat \ {0}

VARIABLE view   \* the row handleThread holds, NoView when no request is served

NoView == [thread |-> NoThread, row |-> NewThreadRow]

pageVars == <<vars, view>>

PageInit == Init /\ view = NoView

\* GetThread: the request is past the parsing of its id, and the row is
\* there (an unknown id is a 404 and reads nothing more).
OpenPage(t) ==
  /\ pc # "boot" /\ view = NoView
  /\ view' = [thread |-> t, row |-> row[t]]
  /\ UNCHANGED vars

\* The handler returns: the page is rendered from view.row and one of
\* ListEvents(events[view.thread], PageLimit), or the read failed (a 500).
ClosePage ==
  /\ view # NoView
  /\ view' = NoView
  /\ UNCHANGED vars

\* Whatever else happens, a handler keeps what it has read; when the process
\* dies it may be gone at once, or finish while the server shuts down.
Around ==
  /\ Next
  /\ view' \in IF pc' = "boot" THEN {view, NoView}
               ELSE IF pc = "boot" THEN {NoView} ELSE {view}

PageNext == Around \/ ClosePage \/ \E t \in Threads : OpenPage(t)

PageSpec == PageInit /\ [][PageNext]_pageVars

-----------------------------------------------------------------------------
\* What a page may look like: the row shown above the events shown.

\* The last activity is not later than the latest event on the page.
ShowsLastEvent(shownRow, page) ==
  shownRow.lastEventAt = NoTime \/ \E e \in page : e.at >= shownRow.lastEventAt

\* A state that is known is explained by its event, unless the page is cut.
ShowsStateChange(shownRow, page, t) ==
  shownRow.state = "unknown" \/ page # events[t]
    \/ \E e \in page : e.kind = "state_change" /\ e.id[1] = shownRow.state

\* However the poller's writes fall between the two reads, the page never
\* shows a row that is ahead of the events below it: the handler reads the
\* row first, and the poller writes it last.
PageAgrees ==
  view # NoView =>
    \A page \in ListEvents(events[view.thread], PageLimit) :
      /\ ShowsLastEvent(view.row, page)
      /\ ShowsStateChange(view.row, page, view.thread)
=============================================================================
