----------------------------- MODULE ToolRunner -----------------------------
(***************************************************************************)
(* The thread that talks to DataHub: AgentContextToolRunner and the call   *)
(* policy of LiveDataHubContext._call (context/live.py).  Callers await    *)
(* one call each; the calls wait in the queue of one worker thread.  When  *)
(* a call times out asyncio cancels its future: a queued one is never      *)
(* started, a running one cannot be stopped, so its thread runs on with    *)
(* nobody waiting for what it returns.                                     *)
(***************************************************************************)
EXTENDS Naturals, FiniteSets, Sequences, SequencesExt

CONSTANTS
  None,
  Callers,
  RetryCount    \* datahub_retry_count

ASSUME RetryAssumption == RetryCount \in Nat
ASSUME CallersAssumption == IsFiniteSet(Callers)

VARIABLES
  pending,   \* caller -> the call it awaits, or None
  queue,     \* the callers whose call waits for the worker, in order
  running    \* the calls the worker executes

runnerVars == <<pending, queue, running>>

\* A call: the tool, its argument (an offset or a run), and the attempt it is;
\* and a call that is with the worker, which its caller may have abandoned.
Call(tool, arg) == [tool |-> tool, arg |-> arg, attempt |-> 0]
Job(c, live) == [caller |-> c, call |-> pending[c], live |-> live]

RunnerInit ==
  /\ pending = [c \in Callers |-> None]
  /\ queue = <<>>
  /\ running = {}

Awaits(c) == pending[c] # None

\* A caller's call is in exactly one place: in the queue or with the worker.
RunnerOK ==
  /\ IsInjective(queue)
  /\ \A c \in Callers :
       Awaits(c) <=> (Contains(queue, c) \/ Job(c, TRUE) \in running)
  /\ \A job \in running : job.live => ~ Contains(queue, job.caller)
  /\ \A job, other \in running : job # other => ~ (job.live /\ other.live /\
                                                 job.caller = other.caller)

-----------------------------------------------------------------------------
\* Fault: a second thread, so that slow calls do not hold up the others.
TwoWorkers == 2

\* ThreadPoolExecutor(max_workers=1).
Workers == 1

\* The worker takes the call that has waited longest.
Start ==
  /\ queue # <<>> /\ Cardinality(running) < Workers
  /\ running' = running \cup {Job(Head(queue), TRUE)}
  /\ queue' = Tail(queue)
  /\ UNCHANGED pending

\* What a caller does next: submits a call, or awaits nothing.
Submits(c, call) ==
  pending' = [pending EXCEPT ![c] = call] /\ queue' = Append(RemoveFirst(queue, c), c)

Rests(c) ==
  pending' = [pending EXCEPT ![c] = None] /\ queue' = RemoveFirst(queue, c)

\* Fault: the attempts are not counted.
RetryForEver(c) == pending[c]

Retry(c) == [pending[c] EXCEPT !.attempt = @ + 1]

MayRetry(c) == pending[c].attempt < RetryCount

\* wait_for() gives up: the call leaves the queue, or the worker keeps it.
Abandoned(c) ==
  {IF job.caller = c THEN [job EXCEPT !.live = FALSE] ELSE job : job \in running}
=============================================================================
