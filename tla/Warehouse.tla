------------------------------ MODULE Warehouse ------------------------------
(***************************************************************************)
(* SnowflakeWarehouseValidator (warehouse/snowflake.py) and the orchestra- *)
(* tor's wait for it (_validate_warehouse).  A validation holds the        *)
(* adapter's lock while a thread opens a session, verifies who it is and   *)
(* what it sees, sends one aggregate, and closes.  The coroutine can be    *)
(* cancelled at any time and more than once; the thread cannot.  So the    *)
(* orchestrator may have its answer, "timed out", while the session is     *)
(* still open, and the lock keeps everybody else from opening another.     *)
(***************************************************************************)
EXTENDS Naturals, FiniteSets

CONSTANTS
  None,
  Validations,   \* the validations that are asked for
  MaxRows        \* bound: the largest count the warehouse reports

ASSUME MaxRowsAssumption == MaxRows \in Nat

VARIABLES
  lock,      \* the validation that holds the adapter's lock, or None
  val,       \* validation -> where its coroutine is, and its operation
  thread,    \* validation -> the thread of _execute_plan, or None
  session,   \* validation -> its connection (external)
  facts,     \* validation -> history: what the warehouse saw and showed
  result,    \* validation -> what the orchestrator was answered, or None
  closed     \* has close() returned?

vars == <<lock, val, thread, session, facts, result, closed>>

Operation == {"rename", "remove", "type_change"}
Phase == {"connect", "identity", "schema", "aggregate", "closing", "done"}

\* What a driver call may raise, by the class names the adapter looks at.
DriverError == {"forbidden", "timeout", "transport", "auth", "other"}

NoCounts == [rows |-> None, populated |-> None, unsafe |-> None]

\* Counts of an aggregate; only a type change counts unsafe rows.
Counts(op) ==
  {[rows |-> n, populated |-> p, unsafe |-> u] :
     n \in 0..MaxRows, p \in 0..MaxRows,
     u \in IF op = "type_change" THEN 0..MaxRows ELSE {None}}

\* _aggregate_counts(): the numbers have to agree with each other.
WellFormed(counts) ==
  /\ counts.populated <= counts.rows
  /\ counts.unsafe # None => counts.unsafe <= counts.populated

Failure(code, retryable) == [code |-> code, retryable |-> retryable]

\* The codes a failure may have; the transport's are worth a retry.
FailureCode ==
  {"warehouse_relation", "warehouse_contract", "warehouse_timeout",
   "warehouse_transport", "warehouse_authentication", "warehouse_identity",
   "warehouse_schema", "warehouse_response", "warehouse_connector",
   "warehouse_error", "empty_relation", "all_null_field", "unsafe_conversion"}

Failures == [code : FailureCode, retryable : BOOLEAN]

Reported == 0..MaxRows \cup {None}

Thread ==
  [phase : Phase, failure : Failures \cup {None},
   counts : [rows : Reported, populated : Reported, unsafe : Reported],
   started : BOOLEAN, ids : Nat]

\* None is no value of a column.
ASSUME NoneAssumption ==
  None \notin BOOLEAN \cup Nat \cup Operation \cup Failures \cup Thread \cup Validations

NewThread ==
  [phase |-> "connect", failure |-> None, counts |-> NoCounts,
   started |-> FALSE, ids |-> 0]

NoFacts == [sent |-> FALSE, identity |-> None, schema |-> None,
            counts |-> NoCounts, leaked |-> FALSE]

TypeOK ==
  /\ lock \in Validations \cup {None}
  /\ \A v \in Validations :
       /\ val[v].pc \in {"new", "waiting", "shielded", "draining", "ended"}
       /\ val[v].op \in Operation \cup {None}
       /\ thread[v] \in Thread \cup {None}
       /\ session[v] \in {"none", "open", "closed"}
       /\ val[v].pc \in {"shielded", "draining"} <=> lock = v
       /\ (val[v].pc = "ended" /\ session[v] = "open") => facts[v].leaked
  /\ closed \in BOOLEAN

Init ==
  /\ lock = None
  /\ val = [v \in Validations |-> [pc |-> "new", op |-> None]]
  /\ thread = [v \in Validations |-> None]
  /\ session = [v \in Validations |-> "none"]
  /\ facts = [v \in Validations |-> NoFacts]
  /\ result = [v \in Validations |-> None]
  /\ closed = FALSE

-----------------------------------------------------------------------------
(* The answers.                                                            *)

\* A blocked result: the failure, and whether an aggregate was started.
Blocked(failure, started) ==
  [status |-> "blocked", code |-> failure.code,
   retryable |-> failure.retryable, started |-> started]

\* _operation_check().
OperationCheck(op, counts) ==
  IF counts.rows = 0 THEN Failure("empty_relation", TRUE)
  ELSE IF counts.populated = 0 THEN Failure("all_null_field", TRUE)
  ELSE IF op = "type_change" /\ counts.unsafe > 0
       THEN Failure("unsafe_conversion", FALSE)
  ELSE None

Unexpected == Blocked(Failure("warehouse_error", TRUE), None)

\* The result of evidence.  The domain record refuses to say "passed"
\* without a query id; that exception reaches the orchestrator.
Evaluated(v, t) ==
  LET check == OperationCheck(val[v].op, t.counts) IN
  IF check # None THEN Blocked(check, TRUE)
  ELSE IF t.ids = 0 THEN Unexpected
  ELSE [status |-> "passed", code |-> None, retryable |-> FALSE,
        started |-> TRUE]

\* What validate() answers when its thread is done.
Outcome(v) ==
  LET t == thread[v] IN
  IF t.failure # None THEN Blocked(t.failure, t.started) ELSE Evaluated(v, t)

\* The orchestrator listens until it has an answer.
Answers(v, answer) ==
  result' = [result EXCEPT ![v] = IF @ = None THEN answer ELSE @]

-----------------------------------------------------------------------------
(* The coroutine.                                                          *)

To(v, pc) == val' = [val EXCEPT ![v].pc = pc]

Begin(v) ==
  /\ val[v].pc = "new" /\ ~ closed
  /\ \E op \in Operation : val' = [val EXCEPT ![v] = [pc |-> "waiting", op |-> op]]
  /\ UNCHANGED <<lock, thread, session, facts, result, closed>>

\* The lock is free, the plan is made, the thread starts.
Acquire(v) ==
  /\ val[v].pc = "waiting" /\ lock = None
  /\ lock' = v /\ To(v, "shielded")
  /\ thread' = [thread EXCEPT ![v] = NewThread]
  /\ UNCHANGED <<session, facts, result, closed>>

\* No relation is configured, or build_validation_plan() refuses.
NoPlan(v) ==
  /\ val[v].pc = "waiting" /\ lock = None
  /\ To(v, "ended")
  /\ \E code \in {"warehouse_relation", "warehouse_contract"} :
       Answers(v, Blocked(Failure(code, FALSE), FALSE))
  /\ UNCHANGED <<lock, thread, session, facts, closed>>

\* The orchestrator's timeout: answered at once, the coroutine is cancelled.
Timeout(v) ==
  /\ val[v].pc \in {"waiting", "shielded"} /\ result[v] = None
  /\ Answers(v, Blocked(Failure("warehouse_timeout", TRUE), None))
  /\ UNCHANGED <<lock, val, thread, session, facts, closed>>

\* Fault: a cancelled validation leaves its thread and the lock behind.
CancelledLeaving(v) ==
  /\ To(v, "ended")
  /\ lock' = IF lock = v THEN None ELSE lock

\* A cancelled validation that holds the lock first waits for its thread,
\* however often it is cancelled.
Cancelled(v) ==
  /\ To(v, IF val[v].pc = "waiting" THEN "ended" ELSE "draining")
  /\ UNCHANGED lock

\* CancelledError arrives, once or again; nobody listens any more.
Cancel(v) ==
  /\ val[v].pc \in {"waiting", "shielded", "draining"} /\ result[v] # None
  /\ Cancelled(v)
  /\ UNCHANGED <<thread, session, facts, result, closed>>

\* The thread is done: its outcome is the answer, or is dropped.
Finish(v) ==
  /\ lock = v /\ thread[v].phase = "done"
  /\ IF val[v].pc = "shielded" THEN Answers(v, Outcome(v)) ELSE UNCHANGED result
  /\ To(v, "ended") /\ lock' = None
  /\ UNCHANGED <<thread, session, facts, closed>>

\* The process stops: wait_for_idle() has seen the tracked validations end,
\* the timed-out ones too, then close() takes the lock.
Close ==
  /\ ~ closed /\ lock = None
  /\ \A v \in Validations : val[v].pc \in {"new", "ended"}
  /\ closed' = TRUE
  /\ UNCHANGED <<lock, val, thread, session, facts, result>>

-----------------------------------------------------------------------------
(* The thread: _execute_plan().                                            *)

\* _connector_failure(): what a driver error of a phase is called.  Once
\* connected, a forbidden request counts among the errors worth a retry.
ConnectorFailure(error, phase) ==
  CASE error = "timeout" -> Failure("warehouse_timeout", TRUE)
    [] error = "transport" \/ (error = "forbidden" /\ phase # "connect") ->
         Failure("warehouse_transport", TRUE)
    [] error = "auth" \/ (phase = "connect" /\ error \in {"forbidden", "other"}) ->
         Failure("warehouse_authentication", FALSE)
    [] error = "other" /\ phase = "identity" ->
         Failure("warehouse_identity", FALSE)
    [] error = "other" /\ phase \in {"schema", "aggregate"} ->
         Failure("warehouse_relation", FALSE)

In(v, phase) == thread[v] # None /\ thread[v].phase = phase

Moves(v, t) == thread' = [thread EXCEPT ![v] = t]

\* The phase fails: on to closing what was opened.
FailsWith(t, failure) == [t EXCEPT !.failure = failure, !.phase = "closing"]

\* The driver raises: before or after the statement has reached the server.
Raises(v, t, phase) ==
  \E error \in DriverError : Moves(v, FailsWith(t, ConnectorFailure(error, phase)))

\* The statement's id is remembered if it is well formed.
Remembered(t) == {t, [t EXCEPT !.ids = @ + 1]}

\* A connection is opened; asking it for a cursor may still fail.
Connect(v) ==
  /\ In(v, "connect")
  /\ \/ Raises(v, thread[v], "connect") /\ UNCHANGED session
     \/ /\ session' = [session EXCEPT ![v] = "open"]
        /\ \/ Raises(v, thread[v], "connect")
           \/ Moves(v, [thread[v] EXCEPT !.phase = "identity"])
  /\ UNCHANGED <<lock, val, facts, result, closed>>

\* The verification of a phase is passed, or says what does not fit.
Verified(v, fits, next, failure) ==
  \E t \in Remembered(thread[v]) :
    Moves(v, IF fits THEN [t EXCEPT !.phase = next] ELSE FailsWith(t, failure))

\* _verify_identity(): the session is the configured one, or another.
Identity(v) ==
  /\ In(v, "identity")
  /\ \/ Raises(v, thread[v], "identity") /\ UNCHANGED facts
     \/ \E same \in BOOLEAN :
          /\ facts' = [facts EXCEPT ![v].identity = same]
          /\ Verified(v, same, "schema", Failure("warehouse_identity", FALSE))
  /\ UNCHANGED <<lock, val, session, result, closed>>

\* _verify_schema(): the column has the catalogued type, or another.
Schema(v) ==
  /\ In(v, "schema")
  /\ \/ Raises(v, thread[v], "schema") /\ UNCHANGED facts
     \/ \E same \in BOOLEAN :
          /\ facts' = [facts EXCEPT ![v].schema = same]
          /\ Verified(v, same, "aggregate", Failure("warehouse_schema", FALSE))
  /\ UNCHANGED <<lock, val, session, result, closed>>

\* Fault: the aggregate counts as started when it has been answered.
StartedLate(t) == t

\* The flag is set before the statement is sent.
Started(t) == [t EXCEPT !.started = TRUE]

\* The aggregate is sent, or fails on its way; its answer is well formed or
\* not.
Aggregate(v) ==
  /\ In(v, "aggregate")
  /\ \/ /\ Raises(v, Started(thread[v]), "aggregate")
        /\ \/ UNCHANGED facts
           \/ facts' = [facts EXCEPT ![v].sent = TRUE]
     \/ \E counts \in Counts(val[v].op), t \in Remembered(Started(thread[v])) :
          /\ facts' = [facts EXCEPT ![v].sent = TRUE, ![v].counts = counts]
          /\ Moves(v, IF WellFormed(counts)
                      THEN [t EXCEPT !.counts = counts, !.phase = "closing"]
                      ELSE FailsWith(t, Failure("warehouse_response", FALSE)))
  /\ UNCHANGED <<lock, val, session, result, closed>>

\* _close_resources(): what was opened is closed; an error of closing counts
\* if there was no other, and may leave the session open at the server.
CloseResources(v) ==
  /\ In(v, "closing")
  /\ \/ /\ session' = [session EXCEPT ![v] = IF @ = "open" THEN "closed" ELSE @]
        /\ Moves(v, [thread[v] EXCEPT !.phase = "done"])
        /\ UNCHANGED facts
     \/ /\ session[v] = "open" /\ UNCHANGED session
        /\ facts' = [facts EXCEPT ![v].leaked = TRUE]
        /\ Moves(v, [thread[v] EXCEPT !.phase = "done", !.failure =
                       IF @ = None THEN Failure("warehouse_connector", FALSE)
                       ELSE @])
  /\ UNCHANGED <<lock, val, result, closed>>

-----------------------------------------------------------------------------
Next ==
  \/ \E v \in Validations :
       \/ Begin(v) \/ Acquire(v) \/ NoPlan(v) \/ Timeout(v) \/ Cancel(v)
       \/ Finish(v) \/ Connect(v) \/ Identity(v) \/ Schema(v) \/ Aggregate(v)
       \/ CloseResources(v)
  \/ Close

Spec == Init /\ [][Next]_vars

-----------------------------------------------------------------------------
(* Properties.                                                             *)

Working(v) == thread[v] # None /\ thread[v].phase # "done"

\* One thread at a time has anything to do with the warehouse, the lock says
\* so, and there is none once close() has returned: cancellation and the
\* orchestrator's timeout do not leave one behind (_validate_serialized).
OneSession ==
  /\ \A v \in Validations : Working(v) => lock = v
  /\ closed => \A v \in Validations : ~ Working(v)

\* An answer says no more and no less than what happened: a pass had the
\* configured identity, the catalogued type, rows that are populated and all
\* convertible, and a session that was closed; "no aggregate was started" is
\* said only if none reached the warehouse; and what the warehouse showed to
\* be wrong is not called retryable unless nobody had listened by then.
AnswerIsTruthful ==
  \A v \in Validations : result[v] # None =>
    LET answer == result[v]
        fact   == facts[v] IN
    /\ answer.status = "passed" =>
         /\ fact.identity = TRUE /\ fact.schema = TRUE /\ fact.sent
         /\ fact.counts.populated > 0 /\ fact.counts.unsafe \in {0, None}
         /\ session[v] = "closed"
    /\ answer.started = FALSE => ~ fact.sent
    /\ (FALSE \in {fact.identity, fact.schema}) =>
         ~ answer.retryable \/ answer.code = "warehouse_timeout"
=============================================================================
