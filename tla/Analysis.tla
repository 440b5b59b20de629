------------------------------- MODULE Analysis -------------------------------
(***************************************************************************)
(* ChangeSafeOrchestrator (apps/api/src/changesafe/orchestrator.py): the   *)
(* background task that takes a run from "created" to a decision, the      *)
(* snapshot fallback a user has to confirm, the warehouse validation that  *)
(* may outlive its timeout, and the shutdown that waits for all of it.     *)
(*                                                                         *)
(* A task is one coroutine per run.  Each step below is what it does       *)
(* between two transitions of its run; a transition may be refused by the  *)
(* store, or be committed and then fail while the row is read back.        *)
(***************************************************************************)
EXTENDS RunStore

CONSTANTS
  Runs,         \* runs that may be created
  Configs,      \* settings a (re)started process may have
  MaxRestarts,  \* bound: crashes and restarts
  MaxFaults     \* bound: failures of the store

\* primary is the evidence the configured context port returns, fallback
\* whether there is a snapshot port beside it, warehouse whether there is a
\* warehouse port.
Config == [primary : {"live", "snapshot"}, fallback : BOOLEAN,
           warehouse : BOOLEAN, requireLive : BOOLEAN,
           requireWarehouse : BOOLEAN]

\* Only automatic mode has a second port, and there the first one is live.
ASSUME AnalysisAssumption ==
  /\ Configs \subseteq Config
  /\ \A c \in Configs : c.fallback => c.primary = "live"
  /\ MaxRestarts \in Nat /\ MaxFaults \in Nat

VARIABLES
  runs,       \* the rows of the runs table; None before the run is created
  tasks,      \* tasks[r]: the coroutine that analyses r, or None
  query,      \* query[r]: the warehouse validation of r
  config,     \* settings of the running process
  process,    \* "up", "draining" in wait_for_idle, or "closed"
  awaited,    \* what wait_for_idle is gathering
  recorded,   \* history: runs asked for in replay mode, or whose user has
              \* confirmed the snapshot: recorded evidence is no surprise
  faults,     \* history: transitions that the store failed to make or report
  restarts    \* crashes and restarts so far

system == <<config, process, awaited, recorded, restarts>>
vars   == <<runs, tasks, query, system, faults>>

-----------------------------------------------------------------------------
(* Records.                                                                *)

\* What the analysis has established.  "passed" warehouse evidence is complete,
\* bound and current; "unusable" evidence claims a pass and is not.
Finding == [context : {"live", "snapshot"}, matches : BOOLEAN,
            verified : BOOLEAN,
            warehouse : {"not_run", "passed", "unusable", "blocked"}]

BlockerCode == {"VERIFICATION_FAILED", "CONTEXT_IDENTITY_MISMATCH",
                "LIVE_EVIDENCE_REQUIRED", "WAREHOUSE_EVIDENCE_REQUIRED",
                "WAREHOUSE_VALIDATION_FAILED", "WAREHOUSE_EVIDENCE_UNUSABLE"}

\* under, the settings of the decision, is a history field.
Analysed == [finding : Finding, blockers : SUBSET BlockerCode,
             under : Configs]

ErrorCode == {"LIVE_CONTEXT_UNAVAILABLE", "CONTEXT_LOAD_FAILED",
              "ANALYSIS_FAILED", "BLOCKED"}

Row == [state : RunState, analysis : Analysed \cup {None},
        publication : {None}, error : ErrorCode \cup {None}]

\* Where a task is: the next thing it does is the transition it is named for,
\* "load" reads the context, "query" waits for the warehouse, and "abort" is
\* the handler of an unexpected exception.
Task == [pc : {"begin", "load", "offer", "unavailable", "score", "generate",
               "validate", "warehouse", "query", "decide", "abort"},
         port : {"live", "snapshot"}, offer : BOOLEAN,
         finding : Finding \cup {None}]

\* None is no value of a column or of a task.
ASSUME NoneAssumption ==
  None \notin Finding \cup Analysed \cup ErrorCode \cup Row \cup Task

TypeOK ==
  /\ runs \in [Runs -> Row \cup {None}]
  /\ tasks \in [Runs -> Task \cup {None}]
  /\ query \in [Runs -> {"none", "running", "abandoned"}]
  /\ config \in Configs
  /\ process \in {"up", "draining", "closed"}
  /\ awaited \in SUBSET ({"task", "query"} \X Runs)
  /\ recorded \in SUBSET Runs
  /\ faults \in Nat /\ restarts \in Nat

-----------------------------------------------------------------------------
(* The decision.                                                           *)

\* evaluate_approval_policy, for what tells the outcomes apart.
Blockers(f) ==
  {b \in BlockerCode :
     CASE b = "VERIFICATION_FAILED"         -> ~f.verified
       [] b = "CONTEXT_IDENTITY_MISMATCH"   -> ~f.matches
       [] b = "LIVE_EVIDENCE_REQUIRED"      ->
            config.requireLive /\ f.context # "live"
       [] b = "WAREHOUSE_EVIDENCE_REQUIRED" ->
            f.warehouse = "not_run" /\ config.requireWarehouse
       [] b = "WAREHOUSE_VALIDATION_FAILED" -> f.warehouse = "blocked"
       [] b = "WAREHOUSE_EVIDENCE_UNUSABLE" -> f.warehouse = "unusable"}

\* Fault: a validation that has timed out is as good as none.
TimedOutSkipped == "not_run"

\* What a validation that has timed out counts for.
TimedOut == "blocked"

\* Fault: a validation that raised leaves no result.
EvidenceOfRaw(result) == result

\* _validate_warehouse: an exception, and a result without execution evidence,
\* count as a failed check.
EvidenceOf(result) ==
  IF result \in {"passed", "unusable"} THEN result ELSE "blocked"

-----------------------------------------------------------------------------
(* Steps of a task.                                                        *)

At(r, pc) == tasks[r] # None /\ tasks[r].pc = pc

Becomes(r, task) == tasks' = [tasks EXCEPT ![r] = task]

To(r, pc) == [tasks[r] EXCEPT !.pc = pc]

\* Fault: what a task raises is not handled.
RaisedUnhandled(r) == None

\* An exception anywhere in the task goes to its handler.
Raised(r) == To(r, "abort")

MoveRun(r, to, given) ==
  /\ MayMove(runs[r], to)
  /\ runs' = [runs EXCEPT ![r] = Moved(runs[r], to, given)]

\* A transition made by a task.  It is done; or it is committed, but reading the
\* row back fails ("lost"); or it is "refused", by the state machine or because
\* the database fails.
Outcomes == {"done", "lost", "refused"}

Reported(r, to, given, outcome) ==
  /\ IF outcome = "refused" THEN UNCHANGED runs ELSE MoveRun(r, to, given)
  /\ IF outcome = "done" \/ ~MayMove(runs[r], to) THEN UNCHANGED faults
     ELSE faults < MaxFaults /\ faults' = faults + 1

Transit(r, to, given, outcome, next, raised) ==
  /\ Reported(r, to, given, outcome)
  /\ Becomes(r, IF outcome = "done" THEN next ELSE raised)

Failing(code) == [Nothing EXCEPT !.error = code]

\* analyze(): the first transition is not guarded by a handler.
Begin(r, outcome) ==
  /\ At(r, "begin")
  /\ Transit(r, "loading_context", Nothing, outcome, To(r, "load"), None)
  /\ UNCHANGED <<query, system>>

\* context_port.load, and the risk and impact computed from what it returns.
Load(r) ==
  /\ At(r, "load")
  /\ \/ \E matches \in BOOLEAN :
          Becomes(r, [To(r, "score") EXCEPT !.finding =
            [context |-> tasks[r].port, matches |-> matches,
             verified |-> FALSE, warehouse |-> "not_run"]])
     \/ Becomes(r, To(r, IF tasks[r].offer THEN "offer" ELSE "unavailable"))
     \/ Becomes(r, Raised(r))
  /\ UNCHANGED <<runs, query, system, faults>>

\* except ContextLoadError, with and without a snapshot to offer.
Offer(r, outcome) ==
  /\ At(r, "offer")
  /\ Transit(r, "context_fallback_required",
             Failing("LIVE_CONTEXT_UNAVAILABLE"), outcome, None, None)
  /\ UNCHANGED <<query, system>>

Unavailable(r, outcome) ==
  /\ At(r, "unavailable")
  /\ Transit(r, "failed", Failing("CONTEXT_LOAD_FAILED"), outcome, None, None)
  /\ UNCHANGED <<query, system>>

\* The computation that follows a transition may raise as well.
Score(r, outcome) ==
  /\ At(r, "score")
  /\ \E next \in {To(r, "generate"), Raised(r)} :
       Transit(r, "scoring_risk", Nothing, outcome, next, Raised(r))
  /\ UNCHANGED <<query, system>>

Generate(r, outcome) ==
  /\ At(r, "generate")
  /\ \E next \in {To(r, "validate"), Raised(r)} :
       Transit(r, "generating", Nothing, outcome, next, Raised(r))
  /\ UNCHANGED <<query, system>>

\* Verification, and whether the warehouse is asked: only about live context.
Validate(r, outcome) ==
  LET after(verified) ==
        IF verified /\ config.warehouse /\ tasks[r].finding.context = "live"
        THEN "warehouse" ELSE "decide"
  IN  /\ At(r, "validate")
      /\ \E verified \in BOOLEAN :
           \E next \in {[To(r, after(verified)) EXCEPT
                           !.finding.verified = verified], Raised(r)} :
             Transit(r, "validating", Nothing, outcome, next, Raised(r))
      /\ UNCHANGED <<query, system>>

StartQuery(r, outcome) ==
  /\ At(r, "warehouse")
  /\ Transit(r, "validating_warehouse", Nothing, outcome, To(r, "query"),
             Raised(r))
  /\ query' = IF outcome = "done" THEN [query EXCEPT ![r] = "running"]
                                  ELSE query
  /\ UNCHANGED system

QueryReturns(r) ==
  /\ At(r, "query")
  /\ \E result \in {"passed", "unusable", "blocked", "not_run", "raised"} :
       Becomes(r, [To(r, "decide") EXCEPT
                     !.finding.warehouse = EvidenceOf(result)])
  /\ query' = [query EXCEPT ![r] = "none"]
  /\ UNCHANGED <<runs, system, faults>>

\* Fault: nothing bounds the wait.
QueryTimesOutNever(r) == FALSE

\* The validation is cancelled; the connector runs on to the end of its query.
QueryTimesOut(r) ==
  /\ At(r, "query")
  /\ Becomes(r, [To(r, "decide") EXCEPT !.finding.warehouse = TimedOut])
  /\ query' = [query EXCEPT ![r] = "abandoned"]
  /\ UNCHANGED <<runs, system, faults>>

\* The policy decides; whatever it says is stored with the analysis.
Decide(r, outcome) ==
  LET f        == tasks[r].finding
      blockers == Blockers(f)
      analysis == [finding |-> f, blockers |-> blockers, under |-> config]
  IN  /\ At(r, "decide")
      /\ IF blockers # {}
         THEN Transit(r, "failed",
                      [Failing("BLOCKED") EXCEPT !.analysis = analysis],
                      outcome, None, Raised(r))
         ELSE Transit(r, "awaiting_approval",
                      [Nothing EXCEPT !.analysis = analysis],
                      outcome, None, Raised(r))
      /\ UNCHANGED <<query, system>>

\* except Exception.
Abort(r, outcome) ==
  /\ At(r, "abort")
  /\ Transit(r, "failed", Failing("ANALYSIS_FAILED"), outcome, None, None)
  /\ UNCHANGED <<query, system>>

\* Fault: the callback does not take the validation off the list.
AbandonedLingers(r) == query[r] = "abandoned" /\ UNCHANGED vars

\* A tracked validation that was cancelled has ended.
AbandonedEnds(r) ==
  /\ query[r] = "abandoned"
  /\ query' = [query EXCEPT ![r] = "none"]
  /\ UNCHANGED <<runs, tasks, system, faults>>

-----------------------------------------------------------------------------
(* Requests.                                                               *)

\* POST /api/runs: the row, and the task that analyses it.
Start(r) ==
  /\ process = "up"
  /\ runs[r] = None
  /\ runs' = [runs EXCEPT ![r] = [state |-> "created", analysis |-> None,
                                  publication |-> None, error |-> None]]
  /\ Becomes(r, [pc |-> "begin", port |-> config.primary,
                 offer |-> config.fallback, finding |-> None])
  /\ recorded' = IF config.primary = "snapshot" THEN recorded \cup {r}
                                                ELSE recorded
  /\ UNCHANGED <<query, config, process, awaited, faults, restarts>>

\* Fault: whether the run is waiting is left to the store.
WaitsForSnapshotUnchecked(r) == TRUE

\* The run is waiting for its user to confirm the snapshot.
WaitsForSnapshot(r) == runs[r].state = "context_fallback_required"

\* The task that analyses r from the snapshot.
SnapshotTask(r) ==
  [pc |-> "load", port |-> "snapshot", offer |-> FALSE, finding |-> None]

\* POST /api/runs/{run_id}/continue-with-snapshot, under the fallback lock.
ContinueWithSnapshot(r, outcome) ==
  /\ process = "up"
  /\ config.fallback
  /\ runs[r] # None
  /\ WaitsForSnapshot(r)
  /\ Reported(r, "loading_context", ClearingError(TRUE), outcome)
  /\ IF outcome = "done" THEN Becomes(r, SnapshotTask(r)) ELSE UNCHANGED tasks
  /\ recorded' = IF outcome = "refused" THEN recorded ELSE recorded \cup {r}
  /\ UNCHANGED <<query, config, process, awaited, restarts>>

\* The first transition of an approval; the module Publication has the rest.
Approve(r) ==
  /\ process = "up"
  /\ runs[r] # None /\ runs[r].state = "awaiting_approval"
  /\ \E to \in {"preparing_preview", "publishing"} : MoveRun(r, to, Nothing)
  /\ UNCHANGED <<tasks, query, system, faults>>

-----------------------------------------------------------------------------
(* Shutdown.                                                               *)

\* What is in flight: the tracked tasks, and the tracked cancelled validations.
InFlight ==
  ({"task"} \X {r \in Runs : tasks[r] # None})
    \cup ({"query"} \X {r \in Runs : query[r] = "abandoned"})

\* Fault: wait_for_idle gathers once.
LeftOnce == {}

\* What the loop of wait_for_idle still has to gather.
Left == InFlight

\* The lifespan ends: requests are over, and wait_for_idle begins.
Drain ==
  /\ process = "up"
  /\ process' = "draining"
  /\ awaited' = InFlight
  /\ UNCHANGED <<runs, tasks, query, config, recorded, faults, restarts>>

\* gather() has returned: go round again, or close the ports.
Gathered ==
  /\ process = "draining"
  /\ awaited \cap InFlight = {}
  /\ awaited' = Left
  /\ process' = IF Left = {} THEN "closed" ELSE "draining"
  /\ UNCHANGED <<runs, tasks, query, config, recorded, faults, restarts>>

\* A crash, or a start after a shutdown: only the rows survive.
Restart ==
  /\ restarts < MaxRestarts
  /\ tasks' = [r \in Runs |-> None]
  /\ query' = [r \in Runs |-> "none"]
  /\ config' \in Configs
  /\ process' = "up"
  /\ awaited' = {}
  /\ restarts' = restarts + 1
  /\ UNCHANGED <<runs, recorded, faults>>

-----------------------------------------------------------------------------

Init ==
  /\ runs = [r \in Runs |-> None]
  /\ tasks = [r \in Runs |-> None]
  /\ query = [r \in Runs |-> "none"]
  /\ config \in Configs
  /\ process = "up" /\ awaited = {}
  /\ recorded = {}
  /\ faults = 0 /\ restarts = 0

\* What the task of r does next, without counting on an answer to its query.
Proceed(r) ==
  \/ Load(r) \/ QueryTimesOut(r)
  \/ \E outcome \in Outcomes :
       \/ Begin(r, outcome) \/ Offer(r, outcome) \/ Unavailable(r, outcome)
       \/ Score(r, outcome) \/ Generate(r, outcome) \/ Validate(r, outcome)
       \/ StartQuery(r, outcome) \/ Decide(r, outcome) \/ Abort(r, outcome)

Next ==
  \/ \E r \in Runs :
       \/ Start(r) \/ Approve(r)
       \/ Proceed(r) \/ QueryReturns(r) \/ AbandonedEnds(r)
       \/ \E outcome \in Outcomes : ContinueWithSnapshot(r, outcome)
  \/ Drain \/ Gathered \/ Restart

Spec == Init /\ [][Next]_vars

\* The event loop runs every task on; the wait for the warehouse is bounded by
\* warehouse_timeout_seconds, and what it leaves behind by the connector's own
\* statement timeout.
FairSpec ==
  /\ Spec
  /\ \A r \in Runs : WF_vars(Proceed(r)) /\ WF_vars(AbandonedEnds(r))
  /\ WF_vars(Gathered)

-----------------------------------------------------------------------------
(* Safety.                                                                 *)

Decided == {"awaiting_approval", "preparing_preview", "publishing"}

\* A run is put before its owner only with an analysis that is about the asset
\* asked for, verified, and free of blockers; a warehouse that was configured for
\* live context was asked and has passed it, whatever was slow or raised on the
\* way; and recorded evidence only if its user knew (_analyze_from_loading).
AwaitingIsJustified ==
  \A r \in Runs : runs[r] # None /\ runs[r].state \in Decided =>
    LET a == runs[r].analysis
        f == a.finding
    IN  /\ a # None /\ a.blockers = {}
        /\ f.matches /\ f.verified
        /\ f.context = "snapshot" => r \in recorded /\ ~a.under.requireLive
        /\ f.context = "live" /\ a.under.warehouse => f.warehouse = "passed"
        /\ a.under.requireWarehouse => f.warehouse = "passed"

\* States in which a run waits for no one but its task.
Working ==
  {"created", "loading_context", "scoring_risk", "generating", "validating",
   "validating_warehouse"}

\* While the process lives, a run is left in the middle of its analysis only when
\* the store has failed: wherever a task may raise, the state machine lets its
\* handler record the failure.
NoRunForgotten ==
  \A r \in Runs :
    runs[r] # None /\ runs[r].state \in Working /\ tasks[r] = None
      => restarts > 0 \/ faults > 0

\* The warehouse and context ports are closed only when nothing can use them:
\* no task, and no query of a validation that timed out before or during the
\* shutdown (wait_for_idle).
ClosedOnlyIdle ==
  process = "closed" =>
    \A r \in Runs : tasks[r] = None /\ query[r] = "none"

-----------------------------------------------------------------------------
(* What no step may do.                                                    *)

\* An analysis is never changed or lost once it is stored: what an owner
\* approves is what was decided, also after a failure to report the decision.
AnalysisIsFinal ==
  [][\A r \in Runs : runs[r] # None /\ runs[r].analysis # None
       => runs'[r].analysis = runs[r].analysis]_vars

\* A task is started for r.
Starts(r) == Start(r) \/ ContinueWithSnapshot(r, "done")

\* The order in which a task passes its stages.
Stage(pc) ==
  CASE pc = "begin" -> 0
    [] pc = "load" -> 1
    [] pc \in {"offer", "unavailable", "score"} -> 2
    [] pc = "generate" -> 3
    [] pc = "validate" -> 4
    [] pc = "warehouse" -> 5
    [] pc = "query" -> 6
    [] pc = "decide" -> 7
    [] pc = "abort" -> 8

\* Task u is task t, further on.
GoesOn(t, u) ==
  u.port = t.port /\ u.offer = t.offer /\ Stage(t.pc) < Stage(u.pc)

\* Two tasks never work on one run: a confirmation, given twice or too early,
\* starts no task beside one that is at work, and none takes the place of another,
\* be it one of the same port that begins anew (continue_with_snapshot).
OneTaskPerRun ==
  [][\A r \in Runs : tasks[r] # None =>
       /\ ~ Starts(r)
       /\ tasks'[r] \in {None, tasks[r]} \/ GoesOn(tasks[r], tasks'[r])]_vars

-----------------------------------------------------------------------------
(* Liveness.                                                               *)

\* Every task ends, though the warehouse may never answer it.
TasksEnd == \A r \in Runs : tasks[r] # None ~> tasks[r] = None

\* A shutdown comes to an end, however often its loop goes round.
ShutdownEnds == process = "draining" ~> process # "draining"
=============================================================================
