------------------------------- MODULE RunPage -------------------------------
(***************************************************************************)
(* The browser page that follows a run: the hook useRun                    *)
(* (apps/web/src/hooks/useRun.ts), the calls of api.ts it makes, and the   *)
(* buttons of App.tsx, ChangeForm.tsx and ApprovalPanel.tsx that start     *)
(* them.  The page shows what it learnt from three sources that race: the  *)
(* event stream, the answers of its calls, and GETs that reconcile it with *)
(* the durable run.                                                        *)
(*                                                                         *)
(* JavaScript runs one handler at a time: an action is one handler or one  *)
(* continuation after an await, with the effects of the state it sets.  A  *)
(* GET is answered with the run as it was at some moment between the       *)
(* request and the answer: "at" is the length of the log at the request.   *)
(***************************************************************************)
EXTENDS EventStream

CONSTANTS
  Slots,        \* bound: calls of the page that may be unanswered
  MaxReloads,   \* bound: how often the page is opened on what was saved
  Lossy         \* do connections break and GETs fail?

ASSUME SlotsAssumption == Slots \subseteq Nat /\ Slots # {}
ASSUME MaxReloadsAssumption == MaxReloads \in Nat \ {0}
ASSUME LossyAssumption == Lossy \in BOOLEAN

VARIABLES
  page,      \* the state and the refs of the hook
  calls,     \* slot -> the unanswered call of a handler, or NoCall
  session,   \* sessionStorage: the run followed last, or None
  reloads    \* how often the page was opened on what was saved

pageVars == <<page, calls, session, reloads>>
vars == <<eventVars, pageVars>>

-----------------------------------------------------------------------------
(* What the page shows of a run: a RunView, of which the page asks whether *)
(* it carries the analysis and the receipt.                                *)

AnalysedStates == {"awaiting_approval", "preparing_preview", "publishing",
                   "publication_failed", "completed"}

RecoveredActionStates == {"preparing_preview", "publishing"}
PublicationEndStates == {"completed", "publication_failed"}

RunView == [run : Runs, state : RunState, analysed : BOOLEAN,
            receipt : BOOLEAN]

View(r, s) == [run |-> r, state |-> s, analysed |-> s \in AnalysedStates,
               receipt |-> s = "completed"]

CallKind == {"create", "continue", "approve", "approved", "refresh",
             "recover"}

\* None is no run, no view of one, no state, number or kind of call.
ASSUME NoneAssumption ==
  None \notin Runs \cup RunView \cup RunState \cup Nat \cup CallKind

\* What a GET asked at "at" may answer.
Answers(r, at) == {View(r, log[r][n]) : n \in at..Len(log[r])}

NoCall == [kind |-> None]
Call == [kind : CallKind, run : Runs, at : Nat]
Ask(kind, r) == [kind |-> kind, run |-> r, at |-> Len(log[r])]

\* The page when it is opened: the saved run is fetched first.
NewPage(recovering) ==
  [run |-> None,            \* the view shown
   events |-> <<>>,         \* the timeline shown
   active |-> None,         \* activeRunId
   busy |-> recovering, error |-> FALSE,
   lastSequence |-> 0, reconnects |-> 0,
   recovering |-> recovering,
   target |-> None,         \* recoveredTargetState
   reconciling |-> None,    \* the GET of reconcile(): when it was asked
   again |-> FALSE,         \* reconcileRequested
   handling |-> None,       \* the GET of handleStreamError(), likewise
   lost |-> FALSE,          \* history: the user was told to refresh
   strayed |-> FALSE]       \* history: an answer about a run that the user had
                            \* left was shown in the place of another run

Event == [run : Runs, sequence : Nat]
Events == Seq(Event)

Page == [run : RunView \cup {None}, events : Events,
         active : Runs \cup {None}, busy : BOOLEAN, error : BOOLEAN,
         lastSequence : Nat, reconnects : 0..1, recovering : BOOLEAN,
         target : RunState \cup {None}, reconciling : Nat \cup {None},
         again : BOOLEAN, handling : Nat \cup {None}, lost : BOOLEAN,
         strayed : BOOLEAN]

TypeOK ==
  /\ EventTypeOK
  /\ page \in Page
  /\ calls \in [Slots -> Call \cup {NoCall}]
  /\ session \in Event \cup {None}
  /\ reloads \in 0..MaxReloads
  /\ page.active = None => stream = NoStream
  /\ stream # NoStream => stream.run = page.active

\* What a page that opens has asked for: the saved run, if there is one.
Opening(saved) ==
  [i \in Slots |-> IF saved # None /\ \A j \in Slots : i <= j
                   THEN Ask("recover", saved.run) ELSE NoCall]

\* The first page may find a run saved by a page that was closed: that counts
\* as a reload.
Init ==
  /\ EventInit
  /\ session \in {None} \cup
       {[run |-> r, sequence |-> Len(log[r])] : r \in {q \in Runs : Exists(q)}}
  /\ page = NewPage(session # None)
  /\ calls = Opening(session)
  /\ reloads = IF session = None THEN 0 ELSE 1

-----------------------------------------------------------------------------
(* Helpers.                                                                *)

\* Fault: the stream of the run before is not closed.
SetActiveLeaking(p, r) ==
  /\ page' = [p EXCEPT !.active = r, !.reconciling = None,
                       !.again = FALSE, !.handling = None]
  /\ IF r = page.active \/ r = None
     THEN UNCHANGED stream ELSE stream' = Opened(r, p.lastSequence)

\* The effect on activeRunId: a new value disposes of the stream and of the
\* reconciliations of the old one, and subscribes after the last sequence.
SetActive(p, r) ==
  IF r = page.active
  THEN page' = p /\ UNCHANGED stream
  ELSE /\ page' = [p EXCEPT !.active = r, !.reconciling = None,
                            !.again = FALSE, !.handling = None]
       /\ stream' = IF r = None THEN NoStream ELSE Opened(r, p.lastSequence)

\* settleIfTerminal(), for a view in an end state.
Settle(view) ==
  SetActive([page EXCEPT !.run = view, !.target = None, !.error = FALSE,
                         !.busy = FALSE], None)

\* setRun(), and the effect ends when the run has.
ShowFinal(p, view) ==
  SetActive([p EXCEPT !.run = view],
            IF view.state \in StreamEndStates THEN None ELSE page.active)

Answered(i) == calls' = [calls EXCEPT ![i] = NoCall]

Free(i) == calls[i] = NoCall /\ \A j \in Slots : j < i => calls[j] # NoCall

\* No handler asks whether the page still shows the run that its answer is about.
Strays(i) == page.run # None /\ page.run.run # calls[i].run

Taking(i) == [page EXCEPT !.strayed = @ \/ Strays(i)]

Shows(states) == page.run # None /\ page.run.state \in states

-----------------------------------------------------------------------------
(* Starting a run.                                                         *)

\* Fault: the timeline of the run before is counted on.
FreshTimelineKept(p) == [p EXCEPT !.events = <<>>, !.reconnects = 0]

FreshTimeline(p) ==
  [p EXCEPT !.events = <<>>, !.lastSequence = 0, !.reconnects = 0]

\* analyze(): the form is shown while no run is.
Analyze(i, r) ==
  /\ Free(i) /\ page.run = None /\ ~ page.busy
  /\ ~ Exists(r) /\ \A j \in Slots : calls[j] # Ask("create", r)
  /\ page' = [FreshTimeline(page) EXCEPT !.recovering = FALSE,
                !.target = None, !.busy = TRUE, !.error = FALSE]
  /\ calls' = [calls EXCEPT ![i] = Ask("create", r)]
  /\ UNCHANGED <<eventVars, session, reloads>>

\* POST /api/runs is served.
ServeCreate(i) ==
  /\ calls[i].kind = "create" /\ ~ Exists(calls[i].run)
  /\ Create(calls[i].run)
  /\ UNCHANGED <<stream, pageVars>>

CreateAnswered(i) ==
  LET r == calls[i].run IN
  /\ calls[i].kind = "create" /\ Exists(r)
  /\ SetActive([Taking(i) EXCEPT !.run = View(r, "created")], r)
  /\ session' = [run |-> r, sequence |-> 0]
  /\ Answered(i)
  /\ UNCHANGED <<log, reloads>>

\* A refusal, or an answer that is lost.
CallFails(i) ==
  /\ calls[i].kind \in {"create", "continue"}
  /\ page' = [page EXCEPT !.error = TRUE, !.busy = FALSE]
  /\ Answered(i)
  /\ UNCHANGED <<eventVars, session, reloads>>

-----------------------------------------------------------------------------
(* The buttons of a run.                                                   *)

\* approve(), and retry and resume: it subscribes before it asks.
Approve(i) ==
  /\ Free(i) /\ ~ page.busy
  /\ Shows(AnalysedStates \ {"completed"}) /\ page.run.analysed
  /\ SetActive([page EXCEPT !.target = None, !.busy = TRUE, !.error = FALSE,
                            !.reconnects = 0], page.run.run)
  /\ session' = [run |-> page.run.run, sequence |-> page.lastSequence]
  /\ calls' = [calls EXCEPT ![i] = Ask("approve", page.run.run)]
  /\ UNCHANGED <<log, reloads>>

\* The POST ends: with the receipt of a completed run, or with an error.
ApproveAnswered(i) ==
  LET r == calls[i].run IN
  /\ calls[i].kind = "approve"
  /\ \/ State(r) = "completed"
          /\ calls' = [calls EXCEPT ![i] = Ask("approved", r)]
     \/ calls' = [calls EXCEPT ![i] = Ask("refresh", r)]
  /\ UNCHANGED <<eventVars, page, session, reloads>>

\* The GET after the receipt.
ApprovedAnswered(i) ==
  /\ calls[i].kind = "approved"
  /\ \/ /\ \E view \in Answers(calls[i].run, calls[i].at) :
             ShowFinal([Taking(i) EXCEPT !.busy = FALSE], view)
        /\ Answered(i)
     \/ /\ Lossy
        /\ calls' = [calls EXCEPT ![i] = Ask("refresh", calls[i].run)]
        /\ UNCHANGED <<page, stream>>
  /\ UNCHANGED <<log, session, reloads>>

\* The GET after an error: a completed run needs no message.
RefreshAnswered(i) ==
  /\ calls[i].kind = "refresh"
  /\ \/ \E view \in Answers(calls[i].run, calls[i].at) :
          ShowFinal([Taking(i) EXCEPT !.busy = FALSE,
                                      !.error = view.state # "completed"], view)
     \/ /\ Lossy
        /\ page' = [page EXCEPT !.busy = FALSE, !.error = TRUE]
        /\ UNCHANGED stream
  /\ Answered(i)
  /\ UNCHANGED <<log, session, reloads>>

\* continueWithSnapshot().
Continue(i) ==
  /\ Free(i) /\ ~ page.busy
  /\ Shows({"context_fallback_required"}) /\ ~ page.run.analysed
  /\ page' = [page EXCEPT !.target = None, !.busy = TRUE, !.error = FALSE,
                          !.reconnects = 0]
  /\ calls' = [calls EXCEPT ![i] = Ask("continue", page.run.run)]
  /\ UNCHANGED <<eventVars, session, reloads>>

\* The run was moved to loading_context and that view is answered.
ContinueAnswered(i) ==
  LET r == calls[i].run IN
  /\ calls[i].kind = "continue"
  /\ \E n \in DOMAIN log[r] : n > calls[i].at /\ log[r][n] = "loading_context"
  /\ SetActive([Taking(i) EXCEPT !.run = View(r, "loading_context")], r)
  /\ session' = [run |-> r, sequence |-> page.lastSequence]
  /\ Answered(i)
  /\ UNCHANGED <<log, reloads>>

\* reset(): "New analysis" is offered by a receipt and by a failure.
Reset ==
  /\ Shows({"failed"}) \/ (Shows({"completed"}) /\ page.run.receipt)
  /\ SetActive([FreshTimeline(page) EXCEPT !.recovering = FALSE,
                  !.target = None, !.run = None, !.error = FALSE,
                  !.busy = FALSE, !.strayed = FALSE], None)
  /\ session' = None
  /\ UNCHANGED <<log, calls, reloads>>

-----------------------------------------------------------------------------
(* Reloading the page.                                                     *)

\* Memory and unanswered calls are gone; the saved run is asked for.
Reload ==
  /\ reloads < MaxReloads
  /\ reloads' = reloads + 1
  /\ page' = NewPage(session # None)
  /\ stream' = NoStream
  /\ calls' = Opening(session)
  /\ UNCHANGED <<log, session>>

\* The durable view is shown at once, the timeline is replayed from the start.
Recovered(i) ==
  /\ calls[i].kind = "recover" /\ page.recovering
  /\ \E view \in Answers(calls[i].run, calls[i].at) :
       SetActive([FreshTimeline(page) EXCEPT !.recovering = FALSE,
                    !.run = view, !.target = view.state,
                    !.busy = view.state \notin RecoveredActionStates],
                 calls[i].run)
  /\ Answered(i)
  /\ UNCHANGED <<log, session, reloads>>

RecoveryFails(i) ==
  /\ Lossy
  /\ calls[i].kind = "recover" /\ page.recovering
  /\ page' = [page EXCEPT !.recovering = FALSE, !.error = TRUE,
                          !.busy = FALSE]
  /\ session' = None
  /\ Answered(i)
  /\ UNCHANGED <<eventVars, reloads>>

-----------------------------------------------------------------------------
(* The stream's handlers.                                                  *)

\* reachesRecoveredTarget(): older events do not change the recovered state.
TargetReached(s) ==
  \/ page.target \in {None, s}
  \/ page.target \in RecoveredActionStates /\ s \in PublicationEndStates

\* An event of a state that ends the stream asks for the durable run.
RequestReconcile(p) ==
  IF p.reconciling = None
  THEN [p EXCEPT !.reconciling = Len(log[p.active]), !.again = FALSE]
  ELSE [p EXCEPT !.again = TRUE]

WithState(p, s) ==
  [p EXCEPT !.target = None,
            !.run = IF @ = None THEN None ELSE [@ EXCEPT !.state = s]]

\* onEvent: what was seen before is dropped.
OnEvent ==
  /\ InTransit
  /\ stream' = [stream EXCEPT !.received = @ + 1]
  /\ IF NextEvent.sequence <= page.lastSequence
     THEN UNCHANGED <<page, session>>
     ELSE LET s     == NextEvent.state
              shown == [page EXCEPT !.lastSequence = NextEvent.sequence,
                          !.events = Append(@, [run |-> page.active,
                                        sequence |-> NextEvent.sequence])]
              moved == IF TargetReached(s) THEN WithState(shown, s) ELSE shown
          IN /\ page' = IF TargetReached(s) /\ s \in StreamEndStates
                        THEN RequestReconcile(moved) ELSE moved
             /\ session' = [run |-> page.active,
                            sequence |-> NextEvent.sequence]
  /\ UNCHANGED <<log, calls, reloads>>

\* The loop of reconcile(): once more if an event asked for it.
NextRound(p) ==
  IF p.again
  THEN [p EXCEPT !.again = FALSE, !.reconciling = Len(log[p.active])]
  ELSE [p EXCEPT !.reconciling = None]

\* Fault: the reconciliation believes the event, whatever the run says.
ReconciledBelieving(view) == Settle(view)

Reconciled(view) ==
  IF view.state \in StreamEndStates
  THEN Settle(view)
  ELSE page' = NextRound([page EXCEPT !.run = view]) /\ UNCHANGED stream

ReconcileAnswered ==
  /\ page.reconciling # None
  /\ \/ \E view \in Answers(page.active, page.reconciling) : Reconciled(view)
     \/ /\ Lossy
        /\ page' = NextRound([page EXCEPT !.error = TRUE, !.busy = FALSE])
        /\ UNCHANGED stream
  /\ UNCHANGED <<log, calls, session, reloads>>

\* onError: the server has ended the stream, or the connection broke.
OnStreamError ==
  /\ stream # NoStream /\ (Lossy \/ Drained)
  /\ stream' = NoStream
  /\ page' = [page EXCEPT !.handling = Len(log[page.active])]
  /\ UNCHANGED <<log, calls, session, reloads>>

\* Fault: the second disconnection is not reported.
GiveUpSilently(p) == p

GiveUp(p) == [p EXCEPT !.error = TRUE, !.busy = FALSE, !.lost = TRUE]

\* One reconnection, then the user is told.
Reconnect(p) ==
  IF p.reconnects < 1
  THEN /\ page' = [p EXCEPT !.handling = None, !.reconnects = @ + 1]
       /\ stream' = Opened(p.active, p.lastSequence)
  ELSE /\ page' = GiveUp([p EXCEPT !.handling = None])
       /\ UNCHANGED stream

StreamErrorAnswered ==
  /\ page.handling # None
  /\ \/ \E view \in Answers(page.active, page.handling) :
          IF view.state \in StreamEndStates
          THEN Settle(view) ELSE Reconnect([page EXCEPT !.run = view])
     \/ Lossy /\ Reconnect(page)
  /\ UNCHANGED <<log, calls, session, reloads>>

-----------------------------------------------------------------------------
Environment == \E r \in Runs : Transition(r) /\ UNCHANGED pageVars
ServerPolls == Serve /\ UNCHANGED pageVars

HandlerAnswered(i) ==
  \/ CreateAnswered(i) \/ CallFails(i) \/ ApproveAnswered(i)
  \/ ApprovedAnswered(i) \/ RefreshAnswered(i) \/ ContinueAnswered(i)
  \/ Recovered(i) \/ RecoveryFails(i)

Next ==
  \/ Environment \/ ServerPolls
  \/ \E i \in Slots : (\E r \in Runs : Analyze(i, r)) \/ ServeCreate(i)
                        \/ Approve(i) \/ Continue(i) \/ HandlerAnswered(i)
  \/ Reset \/ Reload \/ OnEvent \/ ReconcileAnswered
  \/ OnStreamError \/ StreamErrorAnswered

Spec == Init /\ [][Next]_vars

\* The server polls and answers, the browser handles what has arrived.  Nothing
\* is assumed of the runs: one whose task a restart has ended never moves again.
Fairness ==
  /\ WF_vars(ServerPolls) /\ WF_vars(OnEvent)
  /\ WF_vars(ReconcileAnswered) /\ WF_vars(StreamErrorAnswered)
  /\ WF_vars(Drained /\ OnStreamError)
  /\ \A i \in Slots : WF_vars(HandlerAnswered(i))

FairSpec == Spec /\ Fairness

-----------------------------------------------------------------------------
(* Properties.                                                             *)

\* The timeline has no gap, no repetition and no event of another run: it is
\* the beginning of the log of the run that is shown, across reconnections,
\* reloads, resets and late answers.  Only an answer about a run that the user
\* has left, shown in the place of another run, may spoil it, until the next
\* reset or reload.
TimelineIsExact ==
  ~ page.strayed =>
    /\ page.lastSequence = Len(page.events)
    /\ \E r \in Runs :
         /\ page.run = None \/ page.run.run = r
         /\ \A n \in DOMAIN page.events :
              page.events[n] = [run |-> r, sequence |-> n] /\ n <= Len(log[r])

Following == stream # NoStream \/ page.handling # None \/ page.reconciling # None
Unanswered == \E i \in Slots : calls[i] # NoCall
OffersResume == Shows(RecoveredActionStates) /\ ~ page.busy

\* A page that shows a run still on its way follows it, or waits for an
\* answer, or says what went wrong, or offers to resume: it never falls
\* silent (useRun.ts, the three sources that each may end the following).
NeverSilent ==
  (page.run # None /\ page.run.state \notin StreamEndStates) =>
    Following \/ Unanswered \/ page.error \/ OffersResume \/ page.lost

\* The server has left the run that is followed on its way.
Stranded == page.active # None /\ State(page.active) \notin StreamEndStates

\* A busy page comes to rest, or has told the user to refresh, unless the run it
\* follows never reaches an end: then it is busy for ever (orchestrator.py:226,
\* 235 leave such runs), and never for any other reason.
PageSettles == page.busy ~> (~ page.busy \/ page.lost \/ []Stranded)
=============================================================================
