--------------------------- MODULE WarehouseProofs ---------------------------
(***************************************************************************)
(* Safety of Warehouse, for any number of validations and rows.            *)
(*                                                                         *)
(* The invariant follows one validation at a time: what its thread has     *)
(* done, what the warehouse has seen of it, and what was answered.  The    *)
(* validations meet only at the lock, so a step of one leaves what is      *)
(* known of the others.                                                    *)
(***************************************************************************)
EXTENDS Warehouse, TLAPS

-----------------------------------------------------------------------------
(* The invariant.                                                          *)

Coroutine == [pc : {"new", "waiting", "shielded", "draining", "ended"},
              op : Operation \cup {None}]

Fact == [sent : BOOLEAN, identity : BOOLEAN \cup {None},
         schema : BOOLEAN \cup {None},
         counts : [rows : Reported, populated : Reported, unsafe : Reported],
         leaked : BOOLEAN]

Shapes ==
  /\ lock \in Validations \cup {None}
  /\ val \in [Validations -> Coroutine]
  /\ thread \in [Validations -> Thread \cup {None}]
  /\ session \in [Validations -> {"none", "open", "closed"}]
  /\ facts \in [Validations -> Fact]
  /\ result = [v \in Validations |-> result[v]]
  /\ closed \in BOOLEAN

\* A coroutine with a thread that is not done holds the lock.
LockOK(v) ==
  /\ val[v].pc \in {"shielded", "draining"} <=> lock = v
  /\ val[v].pc \in {"new", "waiting"} => thread[v] = None
  /\ val[v].pc \in {"shielded", "draining"} => thread[v] # None
  /\ val[v].pc # "new" => val[v].op \in Operation
  /\ Working(v) => lock = v

\* What has been verified by a phase, and what is left of the session.
PhaseOK(v) ==
  LET t == thread[v]
      f == facts[v]
      passed == t.failure = None /\ t.phase \in {"closing", "done"} IN
  /\ t.phase = "connect" => session[v] = "none"
  /\ t.phase \in {"schema", "aggregate"} \/ passed => f.identity = TRUE
  /\ t.phase = "aggregate" \/ passed => f.schema = TRUE
  /\ passed => f.sent /\ f.counts = t.counts /\ t.counts \in Counts(val[v].op)
  /\ t.phase \notin {"closing", "done"} => t.failure = None
  /\ passed /\ t.phase = "closing" => session[v] = "open"
  /\ t.phase \in {"identity", "schema", "aggregate"} => session[v] = "open"
  /\ t.phase = "done" /\ session[v] = "open" => f.leaked
  /\ passed /\ t.phase = "done" => session[v] = "closed"

\* What went wrong is remembered as it was.
FailureOK(v) ==
  LET t == thread[v]
      f == facts[v] IN
  /\ ~ t.started => ~ f.sent
  /\ f.identity = FALSE \/ f.schema = FALSE =>
       /\ t.phase \in {"closing", "done"}
       /\ t.failure # None /\ t.failure.retryable = FALSE

ThreadOK(v) ==
  IF thread[v] = None THEN session[v] = "none" /\ facts[v] = NoFacts
  ELSE PhaseOK(v) /\ FailureOK(v)

\* The answer of one validation is truthful.
Truthful(v) ==
  /\ result[v].status = "passed" =>
       /\ facts[v].identity = TRUE /\ facts[v].schema = TRUE /\ facts[v].sent
       /\ facts[v].counts.populated > 0 /\ facts[v].counts.unsafe \in {0, None}
       /\ session[v] = "closed"
  /\ result[v].started = FALSE => ~ facts[v].sent
  /\ (FALSE \in {facts[v].identity, facts[v].schema}) =>
       ~ result[v].retryable \/ result[v].code = "warehouse_timeout"

\* It was given by a timeout, or nothing happens any more.
AnswerOK(v) ==
  result[v] # None =>
    \/ result[v] = Blocked(Failure("warehouse_timeout", TRUE), None)
    \/ val[v].pc = "ended" /\ Truthful(v)

ValidationOK(v) == LockOK(v) /\ ThreadOK(v) /\ AnswerOK(v)

ClosedOK ==
  closed => /\ lock = None
            /\ \A v \in Validations : val[v].pc \in {"new", "ended"}

\* The inductive invariant.
IInv == Shapes /\ ClosedOK /\ \A v \in Validations : ValidationOK(v)

-----------------------------------------------------------------------------
(* The shape of a step: one validation moves.                              *)

\* What is recorded of the others stays.
Frame(v) ==
  \A w \in Validations \ {v} :
    /\ val'[w] = val[w] /\ thread'[w] = thread[w] /\ session'[w] = session[w]
    /\ facts'[w] = facts[w] /\ result'[w] = result[w]
    /\ lock' = w <=> lock = w

\* If one validation moves, and rightly, all is well.
LEMMA OneMoves ==
  ASSUME IInv, NEW v \in Validations, Frame(v), Shapes', ClosedOK',
         ValidationOK(v)'
  PROVE  IInv'
<1>1. ASSUME NEW w \in Validations, w # v PROVE ValidationOK(w)'
  <2>1. ValidationOK(w)
    BY DEF IInv
  <2>2. /\ val'[w] = val[w] /\ thread'[w] = thread[w] /\ session'[w] = session[w]
        /\ facts'[w] = facts[w] /\ result'[w] = result[w]
        /\ lock' = w <=> lock = w
    BY <1>1 DEF Frame
  <2>3. LockOK(w)'
    BY <2>1, <2>2 DEF ValidationOK, LockOK, Working
  <2>4. ThreadOK(w)'
    BY <2>1, <2>2 DEF ValidationOK, ThreadOK, PhaseOK, FailureOK
  <2>5. AnswerOK(w)'
    BY <2>1, <2>2 DEF ValidationOK, AnswerOK, Truthful
  <2> QED
    BY <2>3, <2>4, <2>5 DEF ValidationOK
<1> QED
  BY <1>1 DEF IInv

\* A step of a thread that is not done, as far as the coroutines see it.
LEMMA ThreadMoves ==
  ASSUME IInv, NEW v \in Validations, Working(v),
         NEW t \in Thread, NEW s \in {"none", "open", "closed"}, NEW f \in Fact,
         thread'  = [thread EXCEPT ![v] = t],
         session' = [session EXCEPT ![v] = s],
         facts'   = [facts EXCEPT ![v] = f],
         UNCHANGED <<lock, val, result, closed>>,
         ThreadOK(v)'
  PROVE  IInv'
<1>1. Shapes'
  BY DEF IInv, Shapes
<1>2. lock = v /\ val[v].pc \in {"shielded", "draining"}
  BY DEF IInv, ValidationOK, LockOK
<1>3. ClosedOK'
  BY DEF IInv, ClosedOK
<1>4. Frame(v)
  BY DEF IInv, Shapes, Frame
<1>5. LockOK(v)'
  BY <1>2, NoneAssumption DEF IInv, ValidationOK, LockOK, Working
<1>6. AnswerOK(v)'
  BY <1>2 DEF IInv, ValidationOK, AnswerOK
<1> QED
  BY <1>1, <1>3, <1>4, <1>5, <1>6, OneMoves DEF ValidationOK

-----------------------------------------------------------------------------
(* The steps of the thread.                                                *)

\* The driver's errors have a name in every phase.
LEMMA FailuresAreTyped ==
  ASSUME NEW e \in DriverError,
         NEW phase \in {"connect", "identity", "schema", "aggregate"}
  PROVE  ConnectorFailure(e, phase) \in Failures
  BY DEF ConnectorFailure, DriverError, Failure, Failures, FailureCode

\* A phase fails with the thread as u says.
LEMMA PhaseFails ==
  ASSUME IInv, NEW v \in Validations, Working(v),
         NEW u \in Thread, u.phase = "closing", u.failure \in Failures,
         NEW f \in Fact, f.sent => u.started,
         f.identity = FALSE \/ f.schema = FALSE => u.failure.retryable = FALSE,
         NEW s \in {"none", "open"},
         thread'  = [thread EXCEPT ![v] = u],
         session' = [session EXCEPT ![v] = s],
         facts'   = [facts EXCEPT ![v] = f],
         UNCHANGED <<lock, val, result, closed>>
  PROVE  IInv'
<1>1. thread'[v] = u /\ session'[v] = s /\ facts'[v] = f
  BY DEF IInv, Shapes
<1>2. u.failure # None /\ u # None
  BY NoneAssumption
<1>3. PhaseOK(v)'
  BY <1>1, <1>2 DEF PhaseOK
<1>4. FailureOK(v)'
  BY <1>1, <1>2, NoneAssumption DEF FailureOK, Fact
<1>5. ThreadOK(v)'
  BY <1>1, <1>2, <1>3, <1>4 DEF ThreadOK
<1> QED
  BY <1>5, ThreadMoves

\* What is known of a thread that has not failed.
LEMMA WorkingThread ==
  ASSUME IInv, NEW v \in Validations, NEW phase, In(v, phase),
         phase \in {"connect", "identity", "schema", "aggregate"}
  PROVE  /\ Working(v) /\ thread[v] \in Thread /\ facts[v] \in Fact
         /\ thread[v].phase = phase /\ thread[v].failure = None
         /\ session[v] = IF phase = "connect" THEN "none" ELSE "open"
         /\ facts[v].identity # FALSE /\ facts[v].schema # FALSE
         /\ PhaseOK(v) /\ FailureOK(v)
         /\ val[v].op \in Operation
<1>1. thread[v] \in Thread /\ facts[v] \in Fact /\ Working(v)
  BY DEF In, Working, IInv, Shapes
<1>2. PhaseOK(v) /\ FailureOK(v) /\ LockOK(v) /\ thread[v].phase = phase
  BY DEF In, IInv, ValidationOK, ThreadOK
<1>3. val[v].op \in Operation
  BY <1>1, <1>2 DEF LockOK
<1> QED
  BY <1>1, <1>2, <1>3 DEF PhaseOK, FailureOK

\* The driver raises in a phase.
LEMMA DriverRaises ==
  ASSUME IInv, NEW v \in Validations, NEW phase, In(v, phase),
         phase \in {"connect", "identity", "schema", "aggregate"},
         NEW t \in Thread, Raises(v, t, phase),
         NEW f \in Fact, f.sent => t.started,
         f.identity # FALSE, f.schema # FALSE,
         NEW s \in {"none", "open"},
         session' = [session EXCEPT ![v] = s],
         facts'   = [facts EXCEPT ![v] = f],
         UNCHANGED <<lock, val, result, closed>>
  PROVE  IInv'
<1>1. PICK error \in DriverError :
        thread' = [thread EXCEPT ![v] = FailsWith(t, ConnectorFailure(error, phase))]
  BY DEF Raises, Moves
<1> DEFINE failure == ConnectorFailure(error, phase)
           u == FailsWith(t, failure)
<1>2. failure \in Failures
  BY FailuresAreTyped
<1> HIDE DEF failure
<1>3. u \in Thread /\ u.phase = "closing" /\ u.failure = failure
      /\ u.started = t.started
  BY <1>2 DEF FailsWith, Thread, Phase
<1>4. thread' = [thread EXCEPT ![v] = u]
  BY <1>1 DEF failure
<1>5. Working(v)
  BY WorkingThread
<1> HIDE DEF u
<1> QED
  BY <1>2, <1>3, <1>4, <1>5, PhaseFails

\* Connecting: a session is open, or the phase fails.
LEMMA ConnectSteps ==
  ASSUME IInv, NEW v \in Validations, Connect(v)
  PROVE  IInv'
<1>1. /\ Working(v) /\ thread[v] \in Thread /\ facts[v] \in Fact
      /\ thread[v].phase = "connect" /\ thread[v].failure = None
      /\ session[v] = "none" /\ PhaseOK(v) /\ FailureOK(v)
      /\ facts[v].identity # FALSE /\ facts[v].schema # FALSE
      /\ facts[v].sent => thread[v].started
  BY WorkingThread DEF Connect, FailureOK, Fact, Thread
<1>2. facts' = [facts EXCEPT ![v] = facts[v]]
  BY DEF Connect, IInv, Shapes
<1>3. session' \in {[session EXCEPT ![v] = "none"], [session EXCEPT ![v] = "open"]}
  BY <1>1 DEF Connect, IInv, Shapes
<1>4. CASE Raises(v, thread[v], "connect")
  <2>1. In(v, "connect") /\ UNCHANGED <<lock, val, result, closed>>
    BY DEF Connect
  <2>2. PICK s \in {"none", "open"} : session' = [session EXCEPT ![v] = s]
    BY <1>3
  <2> QED
    BY <1>1, <1>2, <1>4, <2>1, <2>2, DriverRaises
<1>5. CASE /\ session' = [session EXCEPT ![v] = "open"]
           /\ Moves(v, [thread[v] EXCEPT !.phase = "identity"])
  <2> DEFINE t == [thread[v] EXCEPT !.phase = "identity"]
  <2>1. t \in Thread /\ t.phase = "identity" /\ t.failure = None
        /\ t.started = thread[v].started /\ t # None
    BY <1>1, NoneAssumption DEF Thread, Phase
  <2>2. thread' = [thread EXCEPT ![v] = t]
    BY <1>5 DEF Moves
  <2> HIDE DEF t
  <2>3. thread'[v] = t /\ session'[v] = "open" /\ facts'[v] = facts[v]
    BY <1>2, <1>5, <2>2 DEF IInv, Shapes
  <2>4. PhaseOK(v)' /\ FailureOK(v)'
    BY <1>1, <2>1, <2>3 DEF PhaseOK, FailureOK
  <2>5. ThreadOK(v)'
    BY <2>1, <2>3, <2>4 DEF ThreadOK
  <2> QED
    BY <1>1, <1>2, <1>5, <2>1, <2>2, <2>5, ThreadMoves DEF Connect
<1> QED
  BY <1>4, <1>5 DEF Connect

\* A verification that fits or not, with what it showed in f.
LEMMA VerificationSteps ==
  ASSUME IInv, NEW v \in Validations, NEW phase \in {"identity", "schema"},
         In(v, phase), NEW same \in BOOLEAN,
         NEW failure \in Failures, failure.retryable = FALSE,
         NEW f \in Fact, f.sent = facts[v].sent,
         phase = "identity" =>
           f.identity = same /\ f.schema = facts[v].schema,
         phase = "schema" =>
           f.schema = same /\ f.identity = facts[v].identity,
         facts' = [facts EXCEPT ![v] = f],
         NEW next, next = IF phase = "identity" THEN "schema" ELSE "aggregate",
         Verified(v, same, next, failure),
         UNCHANGED <<lock, val, session, result, closed>>
  PROVE  IInv'
<1>1. /\ Working(v) /\ thread[v] \in Thread /\ facts[v] \in Fact
      /\ thread[v].phase = phase /\ thread[v].failure = None
      /\ session[v] = "open" /\ PhaseOK(v) /\ FailureOK(v)
      /\ facts[v].identity # FALSE /\ facts[v].schema # FALSE
      /\ facts[v].sent => thread[v].started
  BY WorkingThread DEF FailureOK, Fact, Thread
<1>2. PICK t \in Remembered(thread[v]) :
        thread' = [thread EXCEPT ![v] = IF same THEN [t EXCEPT !.phase = next]
                                        ELSE FailsWith(t, failure)]
  BY DEF Verified, Moves
<1>3. /\ t \in Thread /\ t.failure = None /\ t.started = thread[v].started
      /\ t.phase = phase
  BY <1>1 DEF Remembered, Thread
<1>4. session' = [session EXCEPT ![v] = "open"]
  BY <1>1 DEF IInv, Shapes
<1>5. CASE same
  <2> DEFINE u == [t EXCEPT !.phase = next]
  <2>1. u \in Thread /\ u.phase = next /\ u.failure = None /\ u # None
        /\ u.started = thread[v].started
    BY <1>3, NoneAssumption DEF Thread, Phase
  <2>2. thread' = [thread EXCEPT ![v] = u]
    BY <1>2, <1>5
  <2> HIDE DEF u
  <2>3. thread'[v] = u /\ session'[v] = "open" /\ facts'[v] = f
    BY <1>4, <2>2 DEF IInv, Shapes
  <2>4. PhaseOK(v)'
    BY <1>1, <1>5, <2>1, <2>3 DEF PhaseOK
  <2>5. FailureOK(v)'
    BY <1>1, <1>5, <2>1, <2>3, NoneAssumption DEF FailureOK, Fact
  <2>6. ThreadOK(v)'
    BY <2>1, <2>3, <2>4, <2>5 DEF ThreadOK
  <2> QED
    BY <1>1, <1>4, <2>1, <2>2, <2>6, ThreadMoves
<1>6. CASE ~ same
  <2> DEFINE u == FailsWith(t, failure)
  <2>1. u \in Thread /\ u.phase = "closing" /\ u.failure = failure
        /\ u.started = thread[v].started
    BY <1>3 DEF FailsWith, Thread, Phase
  <2>2. thread' = [thread EXCEPT ![v] = u]
    BY <1>2, <1>6
  <2> HIDE DEF u
  <2> QED
    BY <1>1, <1>4, <2>1, <2>2, PhaseFails
<1> QED
  BY <1>5, <1>6

\* The session is verified to be the configured one, or the phase fails.
LEMMA IdentitySteps ==
  ASSUME IInv, NEW v \in Validations, Identity(v)
  PROVE  IInv'
<1>1. /\ In(v, "identity") /\ facts[v] \in Fact /\ thread[v] \in Thread
      /\ session' = [session EXCEPT ![v] = "open"]
      /\ facts[v].identity # FALSE /\ facts[v].schema # FALSE
      /\ facts[v].sent => thread[v].started
  BY WorkingThread DEF Identity, FailureOK, Fact, Thread, IInv, Shapes
<1>2. CASE Raises(v, thread[v], "identity") /\ UNCHANGED facts
  <2>1. facts' = [facts EXCEPT ![v] = facts[v]]
    BY <1>2 DEF IInv, Shapes
  <2> QED
    BY <1>1, <1>2, <2>1, DriverRaises DEF Identity
<1>3. ASSUME NEW same \in BOOLEAN, facts' = [facts EXCEPT ![v].identity = same],
             Verified(v, same, "schema", Failure("warehouse_identity", FALSE))
      PROVE  IInv'
  <2> DEFINE f == [facts[v] EXCEPT !.identity = same]
             failure == Failure("warehouse_identity", FALSE)
  <2>1. f \in Fact /\ f.identity = same /\ f.schema = facts[v].schema
        /\ f.sent = facts[v].sent
    BY <1>1 DEF Fact
  <2>2. facts' = [facts EXCEPT ![v] = f]
    BY <1>3
  <2>3. failure \in Failures /\ failure.retryable = FALSE
    BY DEF Failure, Failures, FailureCode
  <2>4. /\ Verified(v, same, "schema", failure)
        /\ UNCHANGED <<lock, val, session, result, closed>>
    BY <1>3 DEF Identity
  <2> HIDE DEF f, failure
  <2> QED
    BY <1>1, <1>3, <2>1, <2>2, <2>3, <2>4, VerificationSteps
<1> QED
  BY <1>2, <1>3 DEF Identity

\* The column is verified to be the catalogued one, or the phase fails.
LEMMA SchemaSteps ==
  ASSUME IInv, NEW v \in Validations, Schema(v)
  PROVE  IInv'
<1>1. /\ In(v, "schema") /\ facts[v] \in Fact /\ thread[v] \in Thread
      /\ session' = [session EXCEPT ![v] = "open"]
      /\ facts[v].identity # FALSE /\ facts[v].schema # FALSE
      /\ facts[v].sent => thread[v].started
  BY WorkingThread DEF Schema, FailureOK, Fact, Thread, IInv, Shapes
<1>2. CASE Raises(v, thread[v], "schema") /\ UNCHANGED facts
  <2>1. facts' = [facts EXCEPT ![v] = facts[v]]
    BY <1>2 DEF IInv, Shapes
  <2> QED
    BY <1>1, <1>2, <2>1, DriverRaises DEF Schema
<1>3. ASSUME NEW same \in BOOLEAN, facts' = [facts EXCEPT ![v].schema = same],
             Verified(v, same, "aggregate", Failure("warehouse_schema", FALSE))
      PROVE  IInv'
  <2> DEFINE f == [facts[v] EXCEPT !.schema = same]
             failure == Failure("warehouse_schema", FALSE)
  <2>1. f \in Fact /\ f.schema = same /\ f.identity = facts[v].identity
        /\ f.sent = facts[v].sent
    BY <1>1 DEF Fact
  <2>2. facts' = [facts EXCEPT ![v] = f]
    BY <1>3
  <2>3. failure \in Failures /\ failure.retryable = FALSE
    BY DEF Failure, Failures, FailureCode
  <2>4. /\ Verified(v, same, "aggregate", failure)
        /\ UNCHANGED <<lock, val, session, result, closed>>
    BY <1>3 DEF Schema
  <2> HIDE DEF f, failure
  <2> QED
    BY <1>1, <1>3, <2>1, <2>2, <2>3, <2>4, VerificationSteps
<1> QED
  BY <1>2, <1>3 DEF Schema

\* The aggregate is sent, after it was marked as started.
LEMMA AggregateSteps ==
  ASSUME IInv, NEW v \in Validations, Aggregate(v)
  PROVE  IInv'
<1> DEFINE started == Started(thread[v])
<1>1. /\ In(v, "aggregate") /\ Working(v) /\ facts[v] \in Fact
      /\ thread[v] \in Thread /\ thread[v].phase = "aggregate"
      /\ thread[v].failure = None /\ session[v] = "open"
      /\ facts[v].identity = TRUE /\ facts[v].schema = TRUE
      /\ val[v].op \in Operation
  BY WorkingThread DEF Aggregate, PhaseOK
<1>2. /\ started \in Thread /\ started.started = TRUE
      /\ started.failure = None
  BY <1>1 DEF Started, Thread
<1>3. /\ session' = [session EXCEPT ![v] = "open"]
      /\ UNCHANGED <<lock, val, result, closed>>
  BY <1>1 DEF Aggregate, IInv, Shapes
<1>4. CASE /\ Raises(v, started, "aggregate")
           /\ \/ UNCHANGED facts
              \/ facts' = [facts EXCEPT ![v].sent = TRUE]
  <2>1. PICK f \in {facts[v], [facts[v] EXCEPT !.sent = TRUE]} :
          facts' = [facts EXCEPT ![v] = f]
    BY <1>4 DEF IInv, Shapes
  <2>2. f \in Fact /\ f.identity # FALSE /\ f.schema # FALSE
    BY <1>1 DEF Fact
  <2> HIDE DEF started
  <2> QED
    BY <1>1, <1>2, <1>3, <1>4, <2>1, <2>2, DriverRaises
<1>5. ASSUME NEW counts \in Counts(val[v].op), NEW t \in Remembered(started),
             facts' = [facts EXCEPT ![v].sent = TRUE, ![v].counts = counts],
             Moves(v, IF WellFormed(counts)
                      THEN [t EXCEPT !.counts = counts, !.phase = "closing"]
                      ELSE FailsWith(t, Failure("warehouse_response", FALSE)))
      PROVE  IInv'
  <2> DEFINE f == [facts[v] EXCEPT !.sent = TRUE, !.counts = counts]
             failure == Failure("warehouse_response", FALSE)
  <2>1. counts \in [rows : Reported, populated : Reported, unsafe : Reported]
    <3>1. \A u : u \in (IF val[v].op = "type_change" THEN 0..MaxRows ELSE {None})
                   => u \in Reported
      BY DEF Reported
    <3> QED
      BY <3>1 DEF Counts, Reported
  <2>2. /\ f \in Fact /\ f.identity = TRUE /\ f.schema = TRUE /\ f.sent = TRUE
        /\ f.counts = counts /\ facts' = [facts EXCEPT ![v] = f]
    BY <1>1, <1>5, <2>1 DEF Fact
  <2>3. /\ t \in Thread /\ t.started = TRUE /\ t.failure = None
    BY <1>1, <1>2 DEF Remembered, Thread
  <2> HIDE DEF f
  <2>4. CASE WellFormed(counts)
    <3> DEFINE u == [t EXCEPT !.counts = counts, !.phase = "closing"]
    <3>1. /\ u \in Thread /\ u.phase = "closing" /\ u.failure = None
          /\ u.started = TRUE /\ u.counts = counts /\ u # None
      BY <2>1, <2>3, NoneAssumption DEF Thread, Phase
    <3>2. thread' = [thread EXCEPT ![v] = u]
      BY <1>5, <2>4 DEF Moves
    <3> HIDE DEF u
    <3>3. thread'[v] = u /\ session'[v] = "open" /\ facts'[v] = f
      BY <1>3, <2>2, <3>2 DEF IInv, Shapes
    <3>4. val'[v].op = val[v].op
      BY <1>3
    <3>5. PhaseOK(v)'
      BY <1>5, <2>2, <3>1, <3>3, <3>4 DEF PhaseOK
    <3>6. FailureOK(v)'
      BY <2>2, <3>1, <3>3 DEF FailureOK
    <3>7. ThreadOK(v)'
      BY <3>1, <3>3, <3>5, <3>6 DEF ThreadOK
    <3> QED
      BY <1>1, <1>3, <2>2, <3>1, <3>2, <3>7, ThreadMoves
  <2>5. CASE ~ WellFormed(counts)
    <3> DEFINE u == FailsWith(t, failure)
    <3>1. failure \in Failures
      BY DEF Failure, Failures, FailureCode
    <3>2. thread' = [thread EXCEPT ![v] = u]
      BY <1>5, <2>5 DEF Moves
    <3> HIDE DEF failure
    <3>3. u \in Thread /\ u.phase = "closing" /\ u.failure = failure
          /\ u.started = TRUE
      BY <2>3, <3>1 DEF FailsWith, Thread, Phase
    <3> HIDE DEF u
    <3> QED
      BY <1>1, <1>3, <2>2, <3>1, <3>2, <3>3, PhaseFails
  <2> QED
    BY <2>4, <2>5
<1> QED
  BY <1>4, <1>5 DEF Aggregate

\* Closing keeps what went wrong before it.
LEMMA CloseResourcesSteps ==
  ASSUME IInv, NEW v \in Validations, CloseResources(v)
  PROVE  IInv'
<1>1. /\ Working(v) /\ thread[v] \in Thread /\ facts[v] \in Fact
      /\ thread[v].phase = "closing" /\ PhaseOK(v) /\ FailureOK(v)
      /\ session[v] \in {"none", "open", "closed"}
      /\ UNCHANGED <<lock, val, result, closed>>
  BY DEF CloseResources, In, Working, IInv, Shapes, ValidationOK, ThreadOK
<1>2. CASE /\ session' = [session EXCEPT ![v] = IF @ = "open" THEN "closed" ELSE @]
           /\ Moves(v, [thread[v] EXCEPT !.phase = "done"])
           /\ UNCHANGED facts
  <2> DEFINE u == [thread[v] EXCEPT !.phase = "done"]
             s == IF session[v] = "open" THEN "closed" ELSE session[v]
  <2>1. /\ u \in Thread /\ u.phase = "done" /\ u.failure = thread[v].failure
        /\ u.started = thread[v].started /\ u.counts = thread[v].counts /\ u # None
    BY <1>1, NoneAssumption DEF Thread, Phase
  <2>2. /\ thread' = [thread EXCEPT ![v] = u]
        /\ session' = [session EXCEPT ![v] = s] /\ s \in {"none", "open", "closed"}
        /\ facts' = [facts EXCEPT ![v] = facts[v]]
    BY <1>1, <1>2 DEF Moves, IInv, Shapes
  <2> HIDE DEF u
  <2>3. thread'[v] = u /\ session'[v] = s /\ facts'[v] = facts[v] /\ val'[v] = val[v]
    BY <1>1, <2>2 DEF IInv, Shapes
  <2>4. PhaseOK(v)'
    BY <1>1, <2>1, <2>3 DEF PhaseOK
  <2>5. FailureOK(v)'
    BY <1>1, <2>1, <2>3 DEF FailureOK
  <2>6. ThreadOK(v)'
    BY <2>1, <2>3, <2>4, <2>5 DEF ThreadOK
  <2> QED
    BY <1>1, <2>1, <2>2, <2>6, ThreadMoves
<1>3. CASE /\ session[v] = "open" /\ UNCHANGED session
           /\ facts' = [facts EXCEPT ![v].leaked = TRUE]
           /\ Moves(v, [thread[v] EXCEPT !.phase = "done", !.failure =
                          IF @ = None THEN Failure("warehouse_connector", FALSE)
                          ELSE @])
  <2> DEFINE failure == IF thread[v].failure = None
                        THEN Failure("warehouse_connector", FALSE)
                        ELSE thread[v].failure
             u == [thread[v] EXCEPT !.phase = "done", !.failure = failure]
             f == [facts[v] EXCEPT !.leaked = TRUE]
  <2>1. failure \in Failures /\ (thread[v].failure # None => failure = thread[v].failure)
    BY <1>1 DEF Failure, Failures, FailureCode, Thread
  <2>2. failure # None
    BY <2>1, NoneAssumption
  <2>3. /\ thread' = [thread EXCEPT ![v] = u]
        /\ session' = [session EXCEPT ![v] = "open"]
        /\ facts' = [facts EXCEPT ![v] = f]
    BY <1>3 DEF Moves, IInv, Shapes
  <2> HIDE DEF failure
  <2>4. /\ u \in Thread /\ u.phase = "done" /\ u.failure = failure
        /\ u.started = thread[v].started /\ u # None
    BY <1>1, <2>1, NoneAssumption DEF Thread, Phase
  <2>5. /\ f \in Fact /\ f.sent = facts[v].sent /\ f.identity = facts[v].identity
        /\ f.schema = facts[v].schema /\ f.leaked = TRUE
    BY <1>1 DEF Fact
  <2> HIDE DEF u, f
  <2>6. thread'[v] = u /\ session'[v] = "open" /\ facts'[v] = f
    BY <2>3 DEF IInv, Shapes
  <2>7. PhaseOK(v)'
    BY <2>2, <2>4, <2>5, <2>6 DEF PhaseOK
  <2>8. FailureOK(v)'
    BY <1>1, <2>1, <2>2, <2>4, <2>5, <2>6 DEF FailureOK
  <2>9. ThreadOK(v)'
    BY <2>4, <2>6, <2>7, <2>8 DEF ThreadOK
  <2> QED
    BY <1>1, <2>3, <2>4, <2>5, <2>9, ThreadMoves
<1> QED
  BY <1>2, <1>3 DEF CloseResources

-----------------------------------------------------------------------------
(* The steps of the coroutine.                                             *)

\* A validation is asked for; it has nothing yet.
LEMMA BeginSteps ==
  ASSUME IInv, NEW v \in Validations, Begin(v)
  PROVE  IInv'
<1>1. PICK op \in Operation : val' = [val EXCEPT ![v] = [pc |-> "waiting", op |-> op]]
  BY DEF Begin
<1>2. /\ val[v].pc = "new" /\ closed = FALSE /\ thread[v] = None
      /\ UNCHANGED <<lock, thread, session, facts, result, closed>>
      /\ lock # v /\ ThreadOK(v) /\ AnswerOK(v)
  BY DEF Begin, IInv, Shapes, ValidationOK, LockOK
<1>3. val'[v] = [pc |-> "waiting", op |-> op]
  BY <1>1 DEF IInv, Shapes
<1>4. Shapes'
  BY <1>1, <1>2 DEF IInv, Shapes, Coroutine
<1>5. ClosedOK' /\ Frame(v)
  BY <1>1, <1>2 DEF IInv, Shapes, ClosedOK, Frame
<1>6. LockOK(v)'
  BY <1>2, <1>3 DEF LockOK, Working
<1>7. ThreadOK(v)' /\ AnswerOK(v)'
  BY <1>2 DEF ThreadOK, AnswerOK
<1> QED
  BY <1>4, <1>5, <1>6, <1>7, OneMoves DEF ValidationOK

\* The holder of the lock starts its thread.
LEMMA AcquireSteps ==
  ASSUME IInv, NEW v \in Validations, Acquire(v)
  PROVE  IInv'
<1>1. /\ val[v].pc = "waiting" /\ lock = None /\ lock' = v /\ thread[v] = None
      /\ val' = [val EXCEPT ![v].pc = "shielded"]
      /\ thread' = [thread EXCEPT ![v] = NewThread]
      /\ UNCHANGED <<session, facts, result, closed>>
      /\ val[v].op \in Operation /\ session[v] = "none" /\ facts[v] = NoFacts
      /\ AnswerOK(v)
  BY DEF Acquire, To, IInv, ValidationOK, LockOK, ThreadOK
<1>2. val'[v].pc = "shielded" /\ val'[v].op = val[v].op /\ thread'[v] = NewThread
  BY <1>1 DEF IInv, Shapes, Coroutine
<1>3. NewThread \in Thread /\ NewThread # None
  <2>1. NoCounts \in [rows : Reported, populated : Reported, unsafe : Reported]
    BY DEF NoCounts, Reported
  <2>2. NewThread \in Thread
    BY <2>1 DEF NewThread, Thread, Phase
  <2> QED
    BY <2>2, NoneAssumption
<1>4. Shapes'
  BY <1>1, <1>3 DEF IInv, Shapes, Coroutine
<1>5. ClosedOK'
  BY <1>1 DEF IInv, ClosedOK
<1>6. Frame(v)
  BY <1>1, NoneAssumption DEF IInv, Shapes, Frame
<1>7. LockOK(v)'
  BY <1>1, <1>2, <1>3 DEF LockOK, Working
<1>8. ThreadOK(v)'
  <2>1. /\ NewThread.phase = "connect" /\ NewThread.failure = None
        /\ facts'[v] = NoFacts /\ session'[v] = "none"
    BY <1>1 DEF NewThread
  <2>2. ~ NoFacts.sent /\ NoFacts.identity # FALSE /\ NoFacts.schema # FALSE
    BY NoneAssumption DEF NoFacts
  <2>3. PhaseOK(v)' /\ FailureOK(v)'
    BY <1>2, <2>1, <2>2 DEF PhaseOK, FailureOK
  <2> QED
    BY <1>2, <1>3, <2>3 DEF ThreadOK
<1>9. AnswerOK(v)'
  BY <1>1 DEF AnswerOK
<1> QED
  BY <1>4, <1>5, <1>6, <1>7, <1>8, <1>9, OneMoves DEF ValidationOK

\* There is nothing to run: the answer is given, if anybody still listens.
LEMMA NoPlanSteps ==
  ASSUME IInv, NEW v \in Validations, NoPlan(v)
  PROVE  IInv'
<1>1. PICK code \in {"warehouse_relation", "warehouse_contract"} :
        Answers(v, Blocked(Failure(code, FALSE), FALSE))
  BY DEF NoPlan
<1> DEFINE answer == Blocked(Failure(code, FALSE), FALSE)
<1>2. /\ val[v].pc = "waiting" /\ lock = None /\ lock # v
      /\ val' = [val EXCEPT ![v].pc = "ended"]
      /\ UNCHANGED <<lock, thread, session, facts, closed>>
      /\ val[v].op \in Operation /\ thread[v] = None
      /\ ThreadOK(v) /\ facts[v] = NoFacts /\ AnswerOK(v)
  BY DEF NoPlan, To, IInv, ValidationOK, LockOK, ThreadOK
<1>3. val'[v].pc = "ended" /\ val'[v].op = val[v].op
  BY <1>2 DEF IInv, Shapes, Coroutine
<1>4. /\ result' = [result EXCEPT ![v] = IF @ = None THEN answer ELSE @]
      /\ result'[v] = IF result[v] = None THEN answer ELSE result[v]
  BY <1>1 DEF Answers, IInv, Shapes
<1>5. Shapes'
  BY <1>2, <1>4 DEF IInv, Shapes, Coroutine
<1>6. ClosedOK' /\ Frame(v)
  BY <1>2, <1>4 DEF IInv, Shapes, ClosedOK, Frame
<1>7. LockOK(v)'
  BY <1>2, <1>3 DEF LockOK, Working
<1>8. ThreadOK(v)'
  BY <1>2 DEF ThreadOK
<1>9. AnswerOK(v)'
  <2>1. CASE result[v] = None
    <3>1. result'[v] = answer /\ facts'[v] = NoFacts
      BY <1>2, <1>4, <2>1
    <3>2. Truthful(v)'
      BY <3>1, NoneAssumption DEF Truthful, Blocked, Failure, NoFacts
    <3> QED
      BY <1>3, <3>2 DEF AnswerOK
  <2>2. CASE result[v] # None
    BY <1>2, <1>4, <2>2 DEF AnswerOK
  <2> QED
    BY <2>1, <2>2
<1> QED
  BY <1>5, <1>6, <1>7, <1>8, <1>9, OneMoves DEF ValidationOK

\* A timeout is an answer that claims nothing.
LEMMA TimeoutSteps ==
  ASSUME IInv, NEW v \in Validations, Timeout(v)
  PROVE  IInv'
<1> DEFINE answer == Blocked(Failure("warehouse_timeout", TRUE), None)
<1>1. /\ UNCHANGED <<lock, val, thread, session, facts, closed>>
      /\ LockOK(v) /\ ThreadOK(v) /\ result[v] = None
  BY DEF Timeout, IInv, ValidationOK
<1>2. result' = [result EXCEPT ![v] = answer] /\ result'[v] = answer
  BY <1>1 DEF Timeout, Answers, IInv, Shapes
<1>3. Shapes' /\ ClosedOK' /\ Frame(v)
  BY <1>1, <1>2 DEF IInv, Shapes, ClosedOK, Frame
<1>4. LockOK(v)' /\ ThreadOK(v)'
  BY <1>1 DEF LockOK, Working, ThreadOK, PhaseOK, FailureOK
<1>5. AnswerOK(v)'
  BY <1>2 DEF AnswerOK
<1> QED
  BY <1>3, <1>4, <1>5, OneMoves DEF ValidationOK

\* A cancelled holder keeps the lock.
LEMMA CancelSteps ==
  ASSUME IInv, NEW v \in Validations, Cancel(v)
  PROVE  IInv'
<1> DEFINE pc == IF val[v].pc = "waiting" THEN "ended" ELSE "draining"
<1>1. /\ val[v].pc \in {"waiting", "shielded", "draining"}
      /\ val' = [val EXCEPT ![v].pc = pc]
      /\ UNCHANGED <<lock, thread, session, facts, result, closed>>
      /\ LockOK(v) /\ ThreadOK(v) /\ AnswerOK(v)
  BY DEF Cancel, Cancelled, To, IInv, ValidationOK
<1>2. val'[v].pc = pc /\ val'[v].op = val[v].op
  BY <1>1 DEF IInv, Shapes, Coroutine
<1>3. Shapes'
  BY <1>1 DEF IInv, Shapes, Coroutine
<1>4. ClosedOK' /\ Frame(v)
  BY <1>1 DEF IInv, Shapes, ClosedOK, Frame
<1>5. LockOK(v)'
  BY <1>1, <1>2 DEF LockOK, Working
<1>6. ThreadOK(v)'
  BY <1>1, <1>2 DEF ThreadOK, PhaseOK, FailureOK
<1>7. AnswerOK(v)'
  BY <1>1 DEF AnswerOK
<1> QED
  BY <1>3, <1>4, <1>5, <1>6, <1>7, OneMoves DEF ValidationOK

\* What a thread that is done has to say is the truth.
LEMMA OutcomeIsTruthful ==
  ASSUME IInv, NEW v \in Validations, In(v, "done"), result'[v] = Outcome(v),
         UNCHANGED <<session, facts>>
  PROVE  Truthful(v)'
<1>1. /\ thread[v] \in Thread /\ facts[v] \in Fact
      /\ PhaseOK(v) /\ FailureOK(v) /\ thread[v].phase = "done"
  BY DEF In, IInv, Shapes, ValidationOK, ThreadOK
<1>2. session'[v] = session[v] /\ facts'[v] = facts[v]
  OBVIOUS
<1>3. CASE thread[v].failure # None
  <2>1. result'[v] = Blocked(thread[v].failure, thread[v].started)
    BY <1>3 DEF Outcome
  <2>2. /\ result'[v].status # "passed"
        /\ result'[v].retryable = thread[v].failure.retryable
        /\ result'[v].started = thread[v].started
    BY <2>1 DEF Blocked
  <2>3. thread[v].started = FALSE => ~ facts[v].sent
    BY <1>1 DEF FailureOK
  <2>4. FALSE \in {facts[v].identity, facts[v].schema} =>
          thread[v].failure.retryable = FALSE
    BY <1>1 DEF FailureOK
  <2> QED
    BY <1>2, <2>2, <2>3, <2>4 DEF Truthful
<1>4. CASE thread[v].failure = None
  <2> DEFINE counts == thread[v].counts
             op == val[v].op
             check == OperationCheck(op, counts)
  <2>1. /\ facts[v].identity = TRUE /\ facts[v].schema = TRUE /\ facts[v].sent
        /\ facts[v].counts = counts /\ counts \in Counts(op)
        /\ session[v] = "closed"
    BY <1>1, <1>4 DEF PhaseOK
  <2>2. ~ (FALSE \in {facts[v].identity, facts[v].schema})
    BY <2>1
  <2>3. result'[v] = Evaluated(v, thread[v])
    BY <1>4 DEF Outcome
  <2>4. CASE check # None
    <3>1. result'[v] = Blocked(check, TRUE)
      BY <2>3, <2>4 DEF Evaluated
    <3>2. result'[v].status # "passed" /\ result'[v].started # FALSE
      BY <3>1 DEF Blocked
    <3> QED
      BY <1>2, <2>2, <3>2 DEF Truthful
  <2>5. CASE check = None /\ thread[v].ids = 0
    <3>1. result'[v] = Unexpected
      BY <2>3, <2>5 DEF Evaluated
    <3>2. None # FALSE
      BY NoneAssumption
    <3>3. result'[v].status = "blocked" /\ result'[v].started = None
      BY <3>1 DEF Unexpected, Blocked
    <3> QED
      BY <1>2, <2>2, <3>2, <3>3 DEF Truthful
  <2>6. CASE check = None /\ thread[v].ids # 0
    <3>1. result'[v] = [status |-> "passed", code |-> None, retryable |-> FALSE,
                        started |-> TRUE]
      BY <2>3, <2>6 DEF Evaluated
    <3>2. \A code \in FailureCode, r \in BOOLEAN : Failure(code, r) # None
      BY NoneAssumption DEF Failure, Failures
    <3>3. /\ counts.populated # 0
          /\ ~ (op = "type_change" /\ counts.unsafe > 0)
      BY <2>6, <3>2 DEF OperationCheck, FailureCode
    <3>4. counts.populated \in 0..MaxRows
      BY <2>1 DEF Counts
    <3>5. counts.populated > 0
      BY <3>3, <3>4, MaxRowsAssumption
    <3>6. CASE op = "type_change"
      <4>1. counts.unsafe \in 0..MaxRows
        BY <2>1, <3>6 DEF Counts
      <4>2. counts.unsafe = 0
        BY <3>3, <3>6, <4>1, MaxRowsAssumption
      <4> QED
        BY <1>2, <2>1, <3>1, <3>5, <4>2 DEF Truthful
    <3>7. CASE op # "type_change"
      <4>1. counts.unsafe = None
        BY <2>1, <3>7 DEF Counts
      <4> QED
        BY <1>2, <2>1, <3>1, <3>5, <4>1 DEF Truthful
    <3> QED
      BY <3>6, <3>7
  <2> QED
    BY <2>4, <2>5, <2>6
<1> QED
  BY <1>3, <1>4

\* The lock is given back by a thread that is done.
LEMMA FinishSteps ==
  ASSUME IInv, NEW v \in Validations, Finish(v)
  PROVE  IInv'
<1>1. /\ lock = v /\ val[v].pc \in {"shielded", "draining"} /\ lock' = None
      /\ val' = [val EXCEPT ![v].pc = "ended"]
      /\ UNCHANGED <<thread, session, facts, closed>>
      /\ thread[v].phase = "done"
      /\ LockOK(v) /\ ThreadOK(v) /\ AnswerOK(v)
  BY DEF Finish, To, IInv, ValidationOK, LockOK
<1>2. val'[v].pc = "ended" /\ val'[v].op = val[v].op
  BY <1>1 DEF IInv, Shapes, Coroutine
<1>3. \/ UNCHANGED result
      \/ result' = [result EXCEPT ![v] = IF @ = None THEN Outcome(v) ELSE @]
  BY DEF Finish, Answers
<1>4. Shapes'
  BY <1>1, <1>3 DEF IInv, Shapes, Coroutine
<1>5. ClosedOK'
  BY <1>1, NoneAssumption DEF IInv, ClosedOK
<1>6. Frame(v)
  BY <1>1, <1>3, NoneAssumption DEF IInv, Shapes, Frame
<1>7. LockOK(v)'
  BY <1>1, <1>2, NoneAssumption DEF LockOK, Working
<1>8. ThreadOK(v)'
  BY <1>1, <1>2 DEF ThreadOK, PhaseOK, FailureOK
<1>9. AnswerOK(v)'
  <2>1. CASE result'[v] = result[v]
    BY <1>1, <2>1 DEF AnswerOK
  <2>2. CASE result'[v] # result[v]
    <3>1. result'[v] = Outcome(v)
      BY <1>3, <2>2 DEF IInv, Shapes
    <3>2. In(v, "done")
      BY <1>1 DEF In, LockOK
    <3> QED
      BY <1>1, <1>2, <3>1, <3>2, OutcomeIsTruthful DEF AnswerOK
  <2> QED
    BY <2>1, <2>2
<1> QED
  BY <1>4, <1>5, <1>6, <1>7, <1>8, <1>9, OneMoves DEF ValidationOK

\* The adapter closes when nobody holds the lock.
LEMMA CloseSteps ==
  ASSUME IInv, Close
  PROVE  IInv'
<1>1. /\ closed' = TRUE /\ lock = None
      /\ \A v \in Validations : val[v].pc \in {"new", "ended"}
      /\ UNCHANGED <<lock, val, thread, session, facts, result>>
  BY DEF Close
<1>2. Shapes' /\ ClosedOK'
  BY <1>1 DEF IInv, Shapes, ClosedOK
<1>3. ASSUME NEW v \in Validations PROVE ValidationOK(v)'
  BY <1>1 DEF IInv, ValidationOK, LockOK, ThreadOK, PhaseOK, FailureOK, AnswerOK,
              Truthful, Working
<1> QED
  BY <1>2, <1>3 DEF IInv

-----------------------------------------------------------------------------
(* The theorems.                                                           *)

\* The invariant holds at first.
LEMMA InitOK ==
  ASSUME Init
  PROVE  IInv
<1>1. NoCounts \in [rows : Reported, populated : Reported, unsafe : Reported]
  BY DEF NoCounts, Reported
<1>2. NoFacts \in Fact
  BY <1>1 DEF NoFacts, Fact
<1>3. Shapes
  BY <1>2 DEF Init, Shapes, Coroutine
<1>4. ASSUME NEW v \in Validations PROVE ValidationOK(v)
  BY NoneAssumption
     DEF Init, ValidationOK, LockOK, ThreadOK, AnswerOK, Working
<1> QED
  BY <1>3, <1>4 DEF Init, IInv, ClosedOK

\* Every step preserves the invariant.
LEMMA Steps ==
  ASSUME IInv, [Next]_vars
  PROVE  IInv'
<1>1. ASSUME NEW v \in Validations,
             \/ Begin(v) \/ Acquire(v) \/ NoPlan(v) \/ Timeout(v) \/ Cancel(v)
             \/ Finish(v)
      PROVE  IInv'
  BY <1>1, BeginSteps, AcquireSteps, NoPlanSteps, TimeoutSteps, CancelSteps,
     FinishSteps
<1>2. ASSUME NEW v \in Validations,
             \/ Connect(v) \/ Identity(v) \/ Schema(v) \/ Aggregate(v)
             \/ CloseResources(v)
      PROVE  IInv'
  BY <1>2, ConnectSteps, IdentitySteps, SchemaSteps, AggregateSteps,
     CloseResourcesSteps
<1>3. CASE UNCHANGED vars
  <2>1. UNCHANGED <<lock, val, thread, session, facts, result, closed>>
    BY <1>3 DEF vars
  <2>2. Shapes' /\ ClosedOK'
    BY <2>1 DEF IInv, Shapes, ClosedOK
  <2>3. ASSUME NEW v \in Validations PROVE ValidationOK(v)'
    BY <2>1 DEF IInv, ValidationOK, LockOK, ThreadOK, PhaseOK, FailureOK, AnswerOK,
                Truthful, Working
  <2> QED
    BY <2>2, <2>3 DEF IInv
<1> QED
  BY <1>1, <1>2, <1>3, CloseSteps DEF Next

\* The invariant holds in every reachable state: the lock, the thread, the
\* session and what was answered of every validation fit together, however
\* often _validate_serialized() is cancelled.
THEOREM InductiveInvariant == Spec => []IInv
  BY InitOK, Steps, PTL DEF Spec

\* Every variable keeps its type; a session is open after its validation only
\* if closing it failed.
THEOREM TypeCorrect == Spec => []TypeOK
<1>1. ASSUME IInv PROVE TypeOK
  <2>1. ASSUME NEW v \in Validations
        PROVE  /\ val[v].pc \in {"new", "waiting", "shielded", "draining", "ended"}
               /\ val[v].op \in Operation \cup {None}
               /\ thread[v] \in Thread \cup {None}
               /\ session[v] \in {"none", "open", "closed"}
               /\ val[v].pc \in {"shielded", "draining"} <=> lock = v
               /\ (val[v].pc = "ended" /\ session[v] = "open") => facts[v].leaked
    BY <1>1 DEF IInv, Shapes, Coroutine, ValidationOK, LockOK, ThreadOK, PhaseOK,
                Working
  <2> QED
    BY <1>1, <2>1 DEF IInv, Shapes, TypeOK
<1> QED
  BY <1>1, InductiveInvariant, PTL

\* One thread at a time works on the warehouse, under the lock, and none once
\* close() has returned (_validate_serialized, close).
THEOREM OneSessionAtATime == Spec => []OneSession
<1>1. ASSUME IInv PROVE OneSession
  BY <1>1, NoneAssumption DEF IInv, ClosedOK, ValidationOK, LockOK, OneSession
<1> QED
  BY <1>1, InductiveInvariant, PTL

\* What a validation answers is what the warehouse showed
\* (_validate_serialized, _validate_warehouse).
THEOREM AnswersAreTruthful == Spec => []AnswerIsTruthful
<1>1. ASSUME IInv, NEW v \in Validations, result[v] # None PROVE Truthful(v)
  <2>1. CASE result[v] = Blocked(Failure("warehouse_timeout", TRUE), None)
    <3>1. None # FALSE
      BY NoneAssumption
    <3>2. /\ result[v].status = "blocked" /\ result[v].started = None
          /\ result[v].code = "warehouse_timeout"
      BY <2>1 DEF Blocked, Failure
    <3> QED
      BY <3>1, <3>2 DEF Truthful
  <2> QED
    BY <1>1, <2>1 DEF IInv, ValidationOK, AnswerOK
<1>2. ASSUME IInv PROVE AnswerIsTruthful
  BY <1>1, <1>2 DEF AnswerIsTruthful, Truthful
<1> QED
  BY <1>2, InductiveInvariant, PTL
=============================================================================
