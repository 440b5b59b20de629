---------------------------- MODULE AnalysisProofs ----------------------------
(***************************************************************************)
(* Safety of Analysis, for every value of the constants: type correctness, *)
(* what a run put before its owner rests on, that no run is forgotten,     *)
(* that the ports outlive what uses them, that a stored analysis is final, *)
(* and that no run has two tasks.  Last, what the analysis is told by the  *)
(* comparison of SQL types, and what it decides (Decision).                *)
(*                                                                         *)
(* The properties relate a row to its task, and nothing relates one run to *)
(* another but the shutdown.  IInv is therefore a conjunction over runs of *)
(* what holds of a row, its task and its query (Local).  It says which     *)
(* states the row may be in while the task is where it is: that is what    *)
(* makes the state machine accept the transition of every handler.         *)
(***************************************************************************)
EXTENDS Analysis, SqlTypes, TLAPS

-----------------------------------------------------------------------------
(* The invariant.                                                          *)

\* The state a row is in while its task is at pc.  The handler of an unexpected
\* exception may find the transition that raised already made, and the run
\* already approved.
Fits(state, pc) ==
  \/ pc = "begin" /\ state = "created"
  \/ pc \in {"load", "offer", "unavailable", "score"}
       /\ state = "loading_context"
  \/ pc = "generate" /\ state = "scoring_risk"
  \/ pc = "validate" /\ state = "generating"
  \/ pc = "warehouse" /\ state = "validating"
  \/ pc = "query" /\ state = "validating_warehouse"
  \/ pc = "decide" /\ state \in {"validating", "validating_warehouse"}
  \/ pc = "abort" /\ state \in (Working \ {"created"}) \cup Decided \cup {"failed"}

\* Past the context: the finding is about what the port of the task returned.
FindingStages == {"score", "generate", "validate", "warehouse", "query",
                  "decide"}

\* The warehouse has been asked whenever it had to be.
Asked(f, conf) ==
  f.verified /\ conf.warehouse /\ f.context = "live" => f.warehouse # "not_run"

\* The task and the row of a run fit together.
Coupled(r, row, task, conf, rec) ==
  /\ row # None /\ Fits(row.state, task.pc)
  /\ task.port = "snapshot" => r \in rec
  /\ task.pc \in FindingStages =>
       task.finding # None /\ task.finding.context = task.port
  /\ task.pc = "decide" => Asked(task.finding, conf)

\* The analysis a run may be put before its owner with.
Justified(r, a, rec) ==
  LET f == a.finding
  IN  /\ a # None /\ a.blockers = {}
      /\ f.matches /\ f.verified
      /\ f.context = "snapshot" => r \in rec /\ ~a.under.requireLive
      /\ f.context = "live" /\ a.under.warehouse => f.warehouse = "passed"
      /\ a.under.requireWarehouse => f.warehouse = "passed"

\* A row has no analysis before the decision, and a good one after it.
GoodRow(r, row, rec) ==
  /\ row.state \in Working \cup Decided
                     \cup {"context_fallback_required", "failed"}
  /\ row.state \in Working \cup {"context_fallback_required"}
       => row.analysis = None
  /\ row.state \in Decided => Justified(r, row.analysis, rec)

\* What holds of one run: n counts the failures of the store and the restarts.
Local(r, row, task, q, conf, rec, n) ==
  /\ task # None => Coupled(r, row, task, conf, rec)
  /\ row # None => GoodRow(r, row, rec)
  /\ row # None /\ row.state \in Working /\ task = None => n > 0
  /\ q = "running" => task # None /\ task.pc = "query"

IInv ==
  /\ TypeOK
  /\ \A r \in Runs : Local(r, runs[r], tasks[r], query[r], config, recorded,
                           faults + restarts)
  /\ ClosedOnlyIdle

-----------------------------------------------------------------------------
(* What the operators the steps are built from return.                     *)

\* The transitions of an analysis that ALLOWED_TRANSITIONS has.
LEMMA AllowedOf ==
  /\ "loading_context" \in AllowedTransitions["created"]
  /\ {"scoring_risk", "context_fallback_required", "failed"}
       \subseteq AllowedTransitions["loading_context"]
  /\ {"generating", "failed"} \subseteq AllowedTransitions["scoring_risk"]
  /\ {"validating", "failed"} \subseteq AllowedTransitions["generating"]
  /\ {"validating_warehouse", "awaiting_approval", "failed"}
       \subseteq AllowedTransitions["validating"]
  /\ {"awaiting_approval", "failed"}
       \subseteq AllowedTransitions["validating_warehouse"]
  /\ "loading_context" \in AllowedTransitions["context_fallback_required"]
  BY DEF AllowedTransitions, RunState

\* A row that has been moved.
LEMMA MovedRow ==
  ASSUME NEW row \in Row, NEW to \in RunState, NEW given,
         given.analysis \in Analysed \cup {None}, given.publication = None,
         given.error \in ErrorCode \cup {None}
  PROVE  LET new == Moved(row, to, given)
         IN  /\ new \in Row /\ new # None /\ new.state = to
             /\ new.analysis = IF given.analysis # None THEN given.analysis
                               ELSE row.analysis
<1>1. Moved(row, to, given) \in Row
  BY DEF Moved, Row
<1> QED BY <1>1, NoneAssumption DEF Moved

\* Nothing, and a failure, give no analysis.
LEMMA Givens ==
  /\ Nothing.analysis = None /\ Nothing.publication = None
  /\ Nothing.error = None
  /\ ClearingError(TRUE).analysis = None
  /\ ClearingError(TRUE).publication = None /\ ClearingError(TRUE).error = None
  /\ \A code : /\ Failing(code).analysis = None
               /\ Failing(code).publication = None
               /\ Failing(code).error = code
  BY DEF Nothing, ClearingError, Failing

\* A task that goes on keeps its port and its finding.
LEMMA GoingOn ==
  ASSUME TypeOK, NEW r \in Runs, tasks[r] # None,
         NEW pc \in {"begin", "load", "offer", "unavailable", "score",
                     "generate", "validate", "warehouse", "query", "decide",
                     "abort"}
  PROVE  /\ To(r, pc) \in Task /\ To(r, pc) # None /\ To(r, pc).pc = pc
         /\ To(r, pc).port = tasks[r].port
         /\ To(r, pc).finding = tasks[r].finding
<1>1. tasks[r] \in Task
  BY DEF TypeOK
<1>2. To(r, pc) \in Task /\ To(r, pc).pc = pc
      /\ To(r, pc).port = tasks[r].port
      /\ To(r, pc).finding = tasks[r].finding
  BY <1>1 DEF To, Task
<1> QED BY <1>2, NoneAssumption

-----------------------------------------------------------------------------
(* Steps of one run.                                                       *)

\* More evidence recorded, and more failures, do not disturb a run.
LEMMA LocalLasts ==
  ASSUME NEW r, NEW row, NEW task, NEW q, NEW conf, NEW rec, NEW more,
         NEW n \in Nat, NEW m \in Nat, rec \subseteq more, n <= m,
         Local(r, row, task, q, conf, rec, n)
  PROVE  Local(r, row, task, q, conf, more, m)
<1>1. task # None => Coupled(r, row, task, conf, more)
  BY DEF Local, Coupled
<1>2. row # None => GoodRow(r, row, more)
  BY DEF Local, GoodRow, Justified
<1> QED BY <1>1, <1>2 DEF Local

\* A step of one run keeps the invariant if it leaves that run in order.
LEMMA LocalStep ==
  ASSUME IInv, NEW r \in Runs,
         NEW row \in Row \cup {None}, NEW task \in Task \cup {None},
         NEW q \in {"none", "running", "abandoned"},
         runs' = [runs EXCEPT ![r] = row],
         tasks' = [tasks EXCEPT ![r] = task],
         query' = [query EXCEPT ![r] = q],
         UNCHANGED <<config, process, awaited, restarts>>,
         recorded' \in SUBSET Runs, recorded \subseteq recorded',
         faults' \in Nat, faults <= faults',
         Local(r, row, task, q, config, recorded', faults' + restarts),
         process = "closed" => task = None /\ q = "none"
  PROVE  IInv'
<1>t. TypeOK
  BY DEF IInv
<1>1. TypeOK'
  BY <1>t DEF TypeOK
<1>2. ASSUME NEW s \in Runs
      PROVE  Local(s, runs'[s], tasks'[s], query'[s], config, recorded',
                   faults' + restarts)
  <2>1. CASE s = r
    BY <1>t, <2>1 DEF TypeOK
  <2>2. CASE s # r
    <3>1. /\ runs'[s] = runs[s] /\ tasks'[s] = tasks[s] /\ query'[s] = query[s]
      BY <1>t, <2>2 DEF TypeOK
    <3>2. Local(s, runs[s], tasks[s], query[s], config, recorded,
                faults + restarts)
      BY DEF IInv
    <3>3. /\ faults + restarts \in Nat /\ faults' + restarts \in Nat
          /\ faults + restarts <= faults' + restarts
      <4>1. faults \in Nat /\ restarts \in Nat
        BY <1>t DEF TypeOK
      <4>2. faults' \in Nat /\ faults <= faults'
        OBVIOUS
      <4>3. \A a, b, n \in Nat : a <= b =>
              a + n \in Nat /\ b + n \in Nat /\ a + n <= b + n
        OBVIOUS
      <4> QED BY <4>1, <4>2, <4>3, Zenon
    <3> QED BY <3>1, <3>2, <3>3, LocalLasts
  <2> QED BY <2>1, <2>2
<1>3. ClosedOnlyIdle'
  BY <1>t DEF ClosedOnlyIdle, IInv, TypeOK
<1>4. config' = config /\ restarts' = restarts
  OBVIOUS
<1> QED BY <1>1, <1>2, <1>3, <1>4 DEF IInv

\* The run is in order when its transition is done and reported, when it is done
\* and not reported, and when it is refused, by the database or by the state
\* machine.
LeftInOrder(r, to, given, next, raised, q, outcome) ==
  LET new == Moved(runs[r], to, given)
      n   == faults + restarts
  IN  /\ outcome = "done" /\ MayMove(runs[r], to) =>
           Local(r, new, next, q, config, recorded, n)
      /\ outcome # "done" /\ MayMove(runs[r], to) =>
           /\ Local(r, new, raised, q, config, recorded, n + 1)
           /\ Local(r, runs[r], raised, q, config, recorded, n + 1)
      /\ ~MayMove(runs[r], to) =>
           Local(r, runs[r], raised, q, config, recorded, n)

\* A transition of a task keeps the invariant if the run is in order when it is
\* done, when it is done and not reported, and when it is refused.
LEMMA TransitStep ==
  ASSUME IInv, NEW r \in Runs, tasks[r] # None,
         NEW to \in RunState, NEW given,
         given.analysis \in Analysed \cup {None}, given.publication = None,
         given.error \in ErrorCode \cup {None},
         NEW outcome \in Outcomes,
         NEW next \in Task \cup {None}, NEW raised \in Task \cup {None},
         Transit(r, to, given, outcome, next, raised),
         NEW q \in {"none", "running", "abandoned"},
         query' = [query EXCEPT ![r] = q], UNCHANGED system,
         LeftInOrder(r, to, given, next, raised, q, outcome)
  PROVE  IInv'
<1> DEFINE new == Moved(runs[r], to, given)
<1>t. TypeOK
  BY DEF IInv
<1>0. runs[r] \in Row /\ runs[r] # None /\ process # "closed"
  BY <1>t DEF IInv, Local, Coupled, ClosedOnlyIdle, TypeOK
<1>1. new \in Row
  BY <1>0, MovedRow
<1>2. /\ UNCHANGED <<config, process, awaited, restarts, recorded>>
      /\ tasks' = [tasks EXCEPT ![r] = IF outcome = "done" THEN next ELSE raised]
  BY DEF Transit, Becomes, system
<1>3. faults \in Nat /\ restarts \in Nat /\ recorded \in SUBSET Runs
  BY <1>t DEF TypeOK
<1>4. /\ runs' = IF outcome = "refused" THEN runs
                                        ELSE [runs EXCEPT ![r] = new]
      /\ outcome # "refused" => MayMove(runs[r], to)
      /\ IF outcome = "done" \/ ~MayMove(runs[r], to)
         THEN faults' = faults ELSE faults' = faults + 1
  BY DEF Transit, Reported, MoveRun
<1>5. runs = [runs EXCEPT ![r] = runs[r]]
  BY <1>t DEF TypeOK
<1>o. /\ outcome = "done" /\ MayMove(runs[r], to) =>
           Local(r, new, next, q, config, recorded, faults + restarts)
      /\ outcome # "done" /\ MayMove(runs[r], to) =>
           /\ Local(r, new, raised, q, config, recorded,
                    (faults + restarts) + 1)
           /\ Local(r, runs[r], raised, q, config, recorded,
                    (faults + restarts) + 1)
      /\ ~MayMove(runs[r], to) =>
           Local(r, runs[r], raised, q, config, recorded, faults + restarts)
  BY DEF LeftInOrder
<1> HIDE DEF new
<1>6. CASE outcome = "done"
  <2>1. Local(r, new, next, q, config, recorded, faults' + restarts)
    BY <1>o, <1>4, <1>6
  <2>2. runs' = [runs EXCEPT ![r] = new] /\ tasks' = [tasks EXCEPT ![r] = next]
    BY <1>2, <1>4, <1>6
  <2>3. faults' \in Nat /\ faults <= faults'
    BY <1>3, <1>4, <1>6
  <2>4. /\ UNCHANGED <<config, process, awaited, restarts>>
        /\ recorded' \in SUBSET Runs /\ recorded \subseteq recorded'
    BY <1>2, <1>3
  <2>5. Local(r, new, next, q, config, recorded', faults' + restarts)
    BY <1>2, <2>1
  <2>6. new \in Row \cup {None} /\ (process = "closed" => next = None /\ q = "none")
    BY <1>0, <1>1
  <2> QED BY <2>2, <2>3, <2>4, <2>5, <2>6, LocalStep
<1>7. CASE outcome = "lost"
  <2>1. faults' = faults + 1
    BY <1>4, <1>7
  <2>2. Local(r, new, raised, q, config, recorded, faults' + restarts)
    <3>1. Local(r, new, raised, q, config, recorded, (faults + restarts) + 1)
      BY <1>o, <1>4, <1>7
    <3>2. (faults + restarts) + 1 = faults' + restarts
      BY <1>3, <2>1
    <3> QED BY <3>1, <3>2
  <2>3. runs' = [runs EXCEPT ![r] = new] /\ tasks' = [tasks EXCEPT ![r] = raised]
    BY <1>2, <1>4, <1>7
  <2>4. faults' \in Nat /\ faults <= faults'
    BY <1>3, <2>1
  <2> QED BY <1>0, <1>1, <1>2, <1>3, <2>2, <2>3, <2>4, LocalStep
<1>8. CASE outcome = "refused"
  <2>1. Local(r, runs[r], raised, q, config, recorded, faults' + restarts)
    <3>1. CASE MayMove(runs[r], to)
      <4>1. Local(r, runs[r], raised, q, config, recorded,
                  (faults + restarts) + 1)
        BY <1>o, <1>8, <3>1
      <4>2. (faults + restarts) + 1 = faults' + restarts
        BY <1>3, <1>4, <1>8, <3>1
      <4> QED BY <4>1, <4>2
    <3>2. CASE ~MayMove(runs[r], to)
      BY <1>o, <1>4, <3>2
    <3> QED BY <3>1, <3>2
  <2>2. runs' = [runs EXCEPT ![r] = runs[r]]
        /\ tasks' = [tasks EXCEPT ![r] = raised]
    BY <1>2, <1>4, <1>5, <1>8
  <2>3. faults' \in Nat /\ faults <= faults'
    BY <1>3, <1>4
  <2> QED BY <1>0, <1>2, <1>3, <2>1, <2>2, <2>3, LocalStep
<1> QED BY <1>6, <1>7, <1>8 DEF Outcomes

\* A run whose task is somewhere between the context and the decision.
LEMMA TaskFacts ==
  ASSUME IInv, NEW r \in Runs, tasks[r] # None
  PROVE  /\ tasks[r] \in Task /\ runs[r] \in Row /\ runs[r] # None
         /\ Coupled(r, runs[r], tasks[r], config, recorded)
         /\ GoodRow(r, runs[r], recorded)
         /\ faults \in Nat /\ restarts \in Nat /\ faults + restarts \in Nat
         /\ query \in [Runs -> {"none", "running", "abandoned"}]
         /\ query = [query EXCEPT ![r] = query[r]]
         /\ query[r] = "running" => tasks[r].pc = "query"
<1>1. /\ tasks[r] \in Task /\ runs[r] \in Row \cup {None}
      /\ faults \in Nat /\ restarts \in Nat
      /\ query \in [Runs -> {"none", "running", "abandoned"}]
  BY DEF IInv, TypeOK
<1>2. Local(r, runs[r], tasks[r], query[r], config, recorded,
            faults + restarts)
  BY DEF IInv
<1> QED BY <1>1, <1>2 DEF Local, Coupled

\* What a run needs when its task has gone on, when it has been sent to the
\* handler, and when it has ended.
LEMMA LocalOfTask ==
  ASSUME NEW r, NEW row, NEW task, NEW q, NEW conf, NEW rec, NEW n,
         task # None, Coupled(r, row, task, conf, rec), GoodRow(r, row, rec),
         q = "running" => task.pc = "query"
  PROVE  Local(r, row, task, q, conf, rec, n)
  BY DEF Local

\* A run whose task is over.
LEMMA LocalOfEnd ==
  ASSUME NEW r, NEW row, NEW q, NEW conf, NEW rec, NEW n,
         GoodRow(r, row, rec), q # "running", row.state \in Working => n > 0
  PROVE  Local(r, row, None, q, conf, rec, n)
  BY DEF Local

\* The steps of a task between two computations.
LEMMA AdvanceStep ==
  ASSUME IInv, NEW r \in Runs, tasks[r] # None,
         NEW from \in {"score", "generate", "validate", "warehouse"},
         tasks[r].pc = from,
         NEW to \in RunState,
         <<from, to>> \in {<<"score", "scoring_risk">>,
                           <<"generate", "generating">>,
                           <<"validate", "validating">>,
                           <<"warehouse", "validating_warehouse">>},
         NEW outcome \in Outcomes, NEW next \in Task, next # None,
         Fits(to, next.pc), next.port = tasks[r].port,
         next.pc \in FindingStages =>
           next.finding # None /\ next.finding.context = next.port,
         next.pc = "decide" => Asked(next.finding, config),
         Transit(r, to, Nothing, outcome, next, Raised(r)),
         NEW q \in {"none", "running", "abandoned"},
         query' = [query EXCEPT ![r] = q],
         q = "running" => outcome = "done" /\ next.pc = "query",
         UNCHANGED system
  PROVE  IInv'
<1> DEFINE new == Moved(runs[r], to, Nothing)
<1>0. /\ tasks[r] \in Task /\ runs[r] \in Row /\ runs[r] # None
      /\ Coupled(r, runs[r], tasks[r], config, recorded)
      /\ GoodRow(r, runs[r], recorded)
  BY TaskFacts
<1>1. /\ Raised(r) \in Task /\ Raised(r) # None /\ Raised(r).pc = "abort"
      /\ Raised(r).port = tasks[r].port
  BY GoingOn DEF IInv, Raised
<1>2. /\ new \in Row /\ new # None /\ new.state = to
      /\ new.analysis = runs[r].analysis
  BY <1>0, MovedRow, Givens
<1>3. /\ runs[r].state \in Working \ {"created"} /\ to \in Working \ {"created"}
      /\ runs[r].analysis = None
  BY <1>0 DEF Coupled, Fits, GoodRow, Working
<1> HIDE DEF new
<1>4. /\ GoodRow(r, new, recorded)
      /\ Coupled(r, new, next, config, recorded)
      /\ Coupled(r, new, Raised(r), config, recorded)
      /\ Coupled(r, runs[r], Raised(r), config, recorded)
  <2>1. GoodRow(r, new, recorded)
    BY <1>2, <1>3 DEF GoodRow, Working, Decided
  <2>2. tasks[r].port = "snapshot" => r \in recorded
    BY <1>0 DEF Coupled
  <2>3. Coupled(r, new, next, config, recorded)
    BY <1>2, <2>2 DEF Coupled
  <2>4. /\ Coupled(r, new, Raised(r), config, recorded)
        /\ Coupled(r, runs[r], Raised(r), config, recorded)
    BY <1>0, <1>1, <1>2, <1>3, <2>2 DEF Coupled, Fits, FindingStages
  <2> QED BY <2>1, <2>3, <2>4
<1>5. MayMove(runs[r], to)
  BY <1>0, AllowedOf DEF Coupled, Fits, MayMove
<1>6. \A n : /\ outcome = "done" => Local(r, new, next, q, config, recorded, n)
             /\ outcome # "done" =>
                  /\ Local(r, new, Raised(r), q, config, recorded, n)
                  /\ Local(r, runs[r], Raised(r), q, config, recorded, n)
  BY <1>0, <1>1, <1>4, LocalOfTask
<1>8. LeftInOrder(r, to, Nothing, next, Raised(r), q, outcome)
  BY <1>5, <1>6 DEF LeftInOrder, new
<1>9. /\ Nothing.analysis \in Analysed \cup {None}
      /\ Nothing.publication = None
      /\ Nothing.error \in ErrorCode \cup {None}
  BY Givens
<1> QED BY <1>1, <1>8, <1>9, TransitStep

\* The steps that end a task, reported or not.
LEMMA EndStep ==
  ASSUME IInv, NEW r \in Runs, tasks[r] # None,
         NEW to \in {"context_fallback_required", "failed"},
         NEW code \in ErrorCode, NEW outcome \in Outcomes,
         tasks[r].pc \in {"offer", "unavailable", "abort"},
         MayMove(runs[r], to) \/ tasks[r].pc = "abort",
         tasks[r].pc = "abort" => to = "failed",
         Transit(r, to, Failing(code), outcome, None, None),
         query' = [query EXCEPT ![r] = query[r]], UNCHANGED system
  PROVE  IInv'
<1> DEFINE new == Moved(runs[r], to, Failing(code))
<1>0. /\ tasks[r] \in Task /\ runs[r] \in Row /\ runs[r] # None
      /\ Coupled(r, runs[r], tasks[r], config, recorded)
      /\ GoodRow(r, runs[r], recorded)
      /\ faults + restarts \in Nat
      /\ query[r] \in {"none", "running", "abandoned"}
      /\ query[r] # "running"
  BY TaskFacts
<1>1. to \in RunState
  BY DEF RunState
<1>2. new.state = to /\ new.analysis = runs[r].analysis
  BY <1>0, <1>1, MovedRow, Givens
<1>3. /\ GoodRow(r, new, recorded) /\ new.state \notin Working
  <2>1. to = "context_fallback_required" => runs[r].analysis = None
    BY <1>0 DEF Coupled, Fits, GoodRow, Working
  <2> HIDE DEF new
  <2> QED BY <1>2, <2>1 DEF GoodRow, Working, Decided
<1>4. ~MayMove(runs[r], to) => runs[r].state \notin Working
  BY <1>0, AllowedOf DEF Coupled, Fits, MayMove, Working, Decided
<1> HIDE DEF new
<1>5. /\ \A n : Local(r, new, None, query[r], config, recorded, n)
      /\ ~MayMove(runs[r], to) =>
           \A n : Local(r, runs[r], None, query[r], config, recorded, n)
      /\ Local(r, runs[r], None, query[r], config, recorded,
               (faults + restarts) + 1)
  BY <1>0, <1>3, <1>4, LocalOfEnd
<1>6. LeftInOrder(r, to, Failing(code), None, None, query[r], outcome)
  BY <1>5 DEF LeftInOrder, new
<1>7. /\ Failing(code).analysis \in Analysed \cup {None}
      /\ Failing(code).publication = None
      /\ Failing(code).error \in ErrorCode \cup {None}
  BY Givens
<1> QED BY <1>0, <1>1, <1>6, <1>7, TransitStep

\* A step of a task that leaves the row alone.
LEMMA TaskStep ==
  ASSUME IInv, NEW r \in Runs, tasks[r] # None, NEW task \in Task, task # None,
         tasks' = [tasks EXCEPT ![r] = task],
         NEW q \in {"none", "running", "abandoned"}, q # "running",
         query' = [query EXCEPT ![r] = q],
         UNCHANGED <<runs, system, faults>>,
         Coupled(r, runs[r], task, config, recorded)
  PROVE  IInv'
<1>1. /\ runs[r] \in Row /\ GoodRow(r, runs[r], recorded)
      /\ faults \in Nat
  BY TaskFacts
<1>2. /\ UNCHANGED <<config, process, awaited, restarts>>
      /\ recorded' = recorded /\ faults' = faults
      /\ runs' = [runs EXCEPT ![r] = runs[r]]
  BY DEF system, IInv, TypeOK
<1>3. Local(r, runs[r], task, q, config, recorded', faults' + restarts)
  BY <1>1, <1>2, LocalOfTask
<1>4. recorded' \in SUBSET Runs /\ process # "closed"
  BY <1>2 DEF IInv, TypeOK, ClosedOnlyIdle
<1>5. faults' \in Nat /\ faults <= faults'
  BY <1>1, <1>2
<1>6. recorded \subseteq recorded'
  BY <1>2
<1>7. runs[r] \in Row \cup {None} /\ task \in Task \cup {None}
  BY <1>1
<1> QED BY <1>2, <1>3, <1>4, <1>5, <1>6, <1>7, LocalStep

-----------------------------------------------------------------------------
(* The steps of a task, one by one.                                        *)

\* The first transition of an analysis (Begin).
LEMMA BeginKeeps ==
  ASSUME IInv, NEW r \in Runs, NEW outcome \in Outcomes, Begin(r, outcome)
  PROVE  IInv'
<1>1. /\ tasks[r] # None /\ tasks[r].pc = "begin"
      /\ Transit(r, "loading_context", Nothing, outcome, To(r, "load"), None)
      /\ UNCHANGED system
  BY DEF Begin, At
<1>2. /\ runs[r] \in Row /\ runs[r] # None
      /\ Coupled(r, runs[r], tasks[r], config, recorded)
      /\ GoodRow(r, runs[r], recorded)
      /\ faults + restarts \in Nat
      /\ query[r] \in {"none", "running", "abandoned"}
      /\ query[r] # "running"
  BY <1>1, TaskFacts
<1>3. query' = [query EXCEPT ![r] = query[r]]
  BY <1>1, TaskFacts DEF Begin
<1>4. /\ To(r, "load") \in Task /\ To(r, "load") # None
      /\ To(r, "load").pc = "load" /\ To(r, "load").port = tasks[r].port
  BY <1>1, GoingOn DEF IInv
<1>5. runs[r].state = "created" /\ runs[r].analysis = None
  BY <1>1, <1>2 DEF Coupled, Fits, GoodRow, Working
<1>11. "loading_context" \in RunState
  BY DEF RunState
<1> DEFINE new == Moved(runs[r], "loading_context", Nothing)
<1>6. /\ new # None /\ new.state = "loading_context" /\ new.analysis = None
  BY <1>2, <1>5, <1>11, MovedRow, Givens
<1> HIDE DEF new
<1>7. GoodRow(r, new, recorded)
      /\ Coupled(r, new, To(r, "load"), config, recorded)
  BY <1>2, <1>4, <1>6 DEF GoodRow, Coupled, Fits, FindingStages, Working,
                          Decided
<1>8. /\ \A n : Local(r, new, To(r, "load"), query[r], config, recorded, n)
      /\ Local(r, new, None, query[r], config, recorded,
               (faults + restarts) + 1)
      /\ Local(r, runs[r], None, query[r], config, recorded,
               (faults + restarts) + 1)
  BY <1>2, <1>4, <1>7, LocalOfTask, LocalOfEnd
<1>9. MayMove(runs[r], "loading_context")
  BY <1>2, <1>5, AllowedOf DEF MayMove
<1>10. LeftInOrder(r, "loading_context", Nothing, To(r, "load"), None,
                   query[r], outcome)
  BY <1>8, <1>9 DEF LeftInOrder, new
<1> QED BY <1>1, <1>2, <1>3, <1>4, <1>10, <1>11, Givens, TransitStep

\* The context is loaded, or is not to be had (Load).
LEMMA LoadKeeps ==
  ASSUME IInv, NEW r \in Runs, Load(r)
  PROVE  IInv'
<1>1. tasks[r] # None /\ tasks[r].pc = "load"
      /\ UNCHANGED <<runs, system, faults>>
  BY DEF Load, At
<1>2. /\ tasks[r] \in Task /\ runs[r] # None
      /\ Coupled(r, runs[r], tasks[r], config, recorded)
      /\ query[r] \in {"none", "running", "abandoned"}
      /\ query[r] # "running"
  BY <1>1, TaskFacts
<1>3. query' = [query EXCEPT ![r] = query[r]]
  BY <1>1, TaskFacts DEF Load
<1>4. runs[r].state = "loading_context"
      /\ (tasks[r].port = "snapshot" => r \in recorded)
  BY <1>1, <1>2 DEF Coupled, Fits
<1>5. CASE \E matches \in BOOLEAN :
             Becomes(r, [To(r, "score") EXCEPT !.finding =
               [context |-> tasks[r].port, matches |-> matches,
                verified |-> FALSE, warehouse |-> "not_run"]])
  <2>1. PICK matches \in BOOLEAN :
               Becomes(r, [To(r, "score") EXCEPT !.finding =
                 [context |-> tasks[r].port, matches |-> matches,
                  verified |-> FALSE, warehouse |-> "not_run"]])
    BY <1>5
  <2> DEFINE found == [context |-> tasks[r].port, matches |-> matches,
                       verified |-> FALSE, warehouse |-> "not_run"]
             task  == [To(r, "score") EXCEPT !.finding = found]
  <2>2. found \in Finding /\ found # None
    <3>1. found \in Finding
      BY <1>2 DEF Finding, Task
    <3> QED BY <3>1, NoneAssumption
  <2>3. To(r, "score") \in Task /\ To(r, "score").pc = "score"
        /\ To(r, "score").port = tasks[r].port
    BY <1>1, GoingOn DEF IInv
  <2>4. found.context = tasks[r].port
    OBVIOUS
  <2> HIDE DEF found
  <2>5. /\ task \in Task /\ task.pc = "score" /\ task.port = tasks[r].port
        /\ task.finding = found
    BY <2>2, <2>3 DEF Task
  <2>6. tasks' = [tasks EXCEPT ![r] = task]
    BY <2>1 DEF Becomes, found
  <2> HIDE DEF task
  <2>7. task # None
    BY <2>5, NoneAssumption
  <2>8. Coupled(r, runs[r], task, config, recorded)
    BY <1>2, <1>4, <2>2, <2>4, <2>5 DEF Coupled, Fits
  <2> QED BY <1>1, <1>2, <1>3, <2>5, <2>6, <2>7, <2>8, TaskStep
<1>6. ASSUME NEW pc \in {"offer", "unavailable", "abort"},
             Becomes(r, To(r, pc))
      PROVE  IInv'
  <2>1. /\ To(r, pc) \in Task /\ To(r, pc) # None /\ To(r, pc).pc = pc
        /\ To(r, pc).port = tasks[r].port
    BY <1>1, GoingOn DEF IInv
  <2>2. Coupled(r, runs[r], To(r, pc), config, recorded)
    BY <1>2, <1>4, <2>1 DEF Coupled, Fits, FindingStages, Working
  <2>3. tasks' = [tasks EXCEPT ![r] = To(r, pc)]
    BY <1>6 DEF Becomes
  <2> QED BY <1>1, <1>2, <1>3, <2>1, <2>2, <2>3, TaskStep
<1>7. CASE Becomes(r, To(r, IF tasks[r].offer THEN "offer" ELSE "unavailable"))
  BY <1>6, <1>7
<1>8. CASE Becomes(r, Raised(r))
  BY <1>6, <1>8 DEF Raised
<1> QED BY <1>5, <1>7, <1>8 DEF Load

\* Offer, Unavailable and Abort: the run is left to its user or has failed.
LEMMA EndingsKeep ==
  ASSUME IInv, NEW r \in Runs, NEW outcome \in Outcomes,
         Offer(r, outcome) \/ Unavailable(r, outcome) \/ Abort(r, outcome)
  PROVE  IInv'
<1>1. tasks[r] # None
  BY DEF Offer, Unavailable, Abort, At
<1>2. /\ runs[r] # None /\ Coupled(r, runs[r], tasks[r], config, recorded)
  BY <1>1, TaskFacts
<1>3. query' = [query EXCEPT ![r] = query[r]]
  BY <1>1, TaskFacts DEF Offer, Unavailable, Abort
<1>4. {"LIVE_CONTEXT_UNAVAILABLE", "CONTEXT_LOAD_FAILED", "ANALYSIS_FAILED"}
        \subseteq ErrorCode
  BY DEF ErrorCode
<1>5. CASE Offer(r, outcome)
  <2>1. /\ tasks[r].pc = "offer" /\ UNCHANGED system
        /\ Transit(r, "context_fallback_required",
                   Failing("LIVE_CONTEXT_UNAVAILABLE"), outcome, None, None)
    BY <1>5 DEF Offer, At
  <2>2. MayMove(runs[r], "context_fallback_required")
    BY <1>2, <2>1, AllowedOf DEF Coupled, Fits, MayMove
  <2> QED BY <1>1, <1>3, <1>4, <2>1, <2>2, EndStep
<1>6. CASE Unavailable(r, outcome)
  <2>1. /\ tasks[r].pc = "unavailable" /\ UNCHANGED system
        /\ Transit(r, "failed", Failing("CONTEXT_LOAD_FAILED"), outcome,
                   None, None)
    BY <1>6 DEF Unavailable, At
  <2>2. MayMove(runs[r], "failed")
    BY <1>2, <2>1, AllowedOf DEF Coupled, Fits, MayMove
  <2> QED BY <1>1, <1>3, <1>4, <2>1, <2>2, EndStep
<1>7. CASE Abort(r, outcome)
  <2>1. /\ tasks[r].pc = "abort" /\ UNCHANGED system
        /\ Transit(r, "failed", Failing("ANALYSIS_FAILED"), outcome,
                   None, None)
    BY <1>7 DEF Abort, At
  <2> QED BY <1>1, <1>3, <1>4, <2>1, EndStep
<1> QED BY <1>5, <1>6, <1>7

\* The risk is scored (Score).
LEMMA ScoreKeeps ==
  ASSUME IInv, NEW r \in Runs, NEW outcome \in Outcomes, Score(r, outcome)
  PROVE  IInv'
<1>1. tasks[r] # None /\ tasks[r].pc = "score" /\ UNCHANGED system
  BY DEF Score, At
<1>2. /\ Coupled(r, runs[r], tasks[r], config, recorded)
      /\ query[r] \in {"none", "running", "abandoned"}
      /\ query[r] # "running"
  BY <1>1, TaskFacts
<1>3. query' = [query EXCEPT ![r] = query[r]]
  BY <1>1, TaskFacts DEF Score
<1>4. PICK pc \in {"generate", "abort"} :
        Transit(r, "scoring_risk", Nothing, outcome, To(r, pc), Raised(r))
  BY DEF Score, Raised
<1>5. /\ To(r, pc) \in Task /\ To(r, pc) # None /\ To(r, pc).pc = pc
      /\ To(r, pc).port = tasks[r].port
      /\ To(r, pc).finding = tasks[r].finding
  BY <1>1, GoingOn DEF IInv
<1>6. tasks[r].finding # None /\ tasks[r].finding.context = tasks[r].port
  BY <1>1, <1>2 DEF Coupled, FindingStages
<1>7. "scoring_risk" \in RunState /\ Fits("scoring_risk", pc)
  BY DEF RunState, Fits, Working
<1> QED BY <1>1, <1>2, <1>3, <1>4, <1>5, <1>6, <1>7, AdvanceStep

\* The artifacts are generated (Generate).
LEMMA GenerateKeeps ==
  ASSUME IInv, NEW r \in Runs, NEW outcome \in Outcomes, Generate(r, outcome)
  PROVE  IInv'
<1>1. tasks[r] # None /\ tasks[r].pc = "generate" /\ UNCHANGED system
  BY DEF Generate, At
<1>2. /\ Coupled(r, runs[r], tasks[r], config, recorded)
      /\ query[r] \in {"none", "running", "abandoned"}
      /\ query[r] # "running"
  BY <1>1, TaskFacts
<1>3. query' = [query EXCEPT ![r] = query[r]]
  BY <1>1, TaskFacts DEF Generate
<1>4. PICK pc \in {"validate", "abort"} :
        Transit(r, "generating", Nothing, outcome, To(r, pc), Raised(r))
  BY DEF Generate, Raised
<1>5. /\ To(r, pc) \in Task /\ To(r, pc) # None /\ To(r, pc).pc = pc
      /\ To(r, pc).port = tasks[r].port
      /\ To(r, pc).finding = tasks[r].finding
  BY <1>1, GoingOn DEF IInv
<1>6. tasks[r].finding # None /\ tasks[r].finding.context = tasks[r].port
  BY <1>1, <1>2 DEF Coupled, FindingStages
<1>7. "generating" \in RunState /\ Fits("generating", pc)
  BY DEF RunState, Fits, Working
<1> QED BY <1>1, <1>2, <1>3, <1>4, <1>5, <1>6, <1>7, AdvanceStep

\* Verified live context is not decided on before a configured warehouse is
\* asked.
LEMMA ValidateKeeps ==
  ASSUME IInv, NEW r \in Runs, NEW outcome \in Outcomes, Validate(r, outcome)
  PROVE  IInv'
<1>1. tasks[r] # None /\ tasks[r].pc = "validate" /\ UNCHANGED system
  BY DEF Validate, At
<1>2. /\ tasks[r] \in Task
      /\ Coupled(r, runs[r], tasks[r], config, recorded)
      /\ query[r] \in {"none", "running", "abandoned"}
      /\ query[r] # "running"
  BY <1>1, TaskFacts
<1>3. query' = [query EXCEPT ![r] = query[r]]
  BY <1>1, TaskFacts DEF Validate
<1>4. /\ tasks[r].finding # None /\ tasks[r].finding.context = tasks[r].port
      /\ tasks[r].finding \in Finding
  BY <1>1, <1>2 DEF Coupled, FindingStages, Task
<1>5. "validating" \in RunState /\ Fits("validating", "abort")
      /\ Fits("validating", "warehouse") /\ Fits("validating", "decide")
  BY DEF RunState, Fits, Working
<1> DEFINE after(verified) ==
             IF verified /\ config.warehouse
                /\ tasks[r].finding.context = "live"
             THEN "warehouse" ELSE "decide"
           next(verified) == [To(r, after(verified)) EXCEPT
                                !.finding.verified = verified]
<1>6. ASSUME NEW verified \in BOOLEAN,
             Transit(r, "validating", Nothing, outcome, next(verified),
                     Raised(r))
      PROVE  IInv'
  <2> DEFINE pc    == after(verified)
             found == [tasks[r].finding EXCEPT !.verified = verified]
             task  == next(verified)
  <2>1. pc \in {"warehouse", "decide"}
    OBVIOUS
  <2>2. found \in Finding /\ found.verified = verified
        /\ found.context = tasks[r].finding.context
    BY <1>4 DEF Finding
  <2>3. pc = "decide" => Asked(found, config)
    BY <2>2 DEF Asked
  <2> HIDE DEF pc, found, task
  <2>4. /\ To(r, pc) \in Task /\ To(r, pc).pc = pc
        /\ To(r, pc).port = tasks[r].port
        /\ To(r, pc).finding = tasks[r].finding
    BY <1>1, <2>1, GoingOn DEF IInv
  <2>5. task = [To(r, pc) EXCEPT !.finding = found]
    BY <2>4 DEF task, pc, found
  <2>6. /\ task \in Task /\ task.pc = pc /\ task.port = tasks[r].port
        /\ task.finding = found
    BY <2>2, <2>4, <2>5 DEF Task
  <2>7. task # None /\ found # None
    BY <2>2, <2>6, NoneAssumption
  <2>8. Transit(r, "validating", Nothing, outcome, task, Raised(r))
    BY <1>6 DEF task
  <2>9. Fits("validating", pc)
    BY <1>5, <2>1
  <2> QED BY <1>1, <1>2, <1>3, <1>4, <1>5, <2>2, <2>3, <2>6, <2>7, <2>8, <2>9,
             AdvanceStep
<1>7. CASE Transit(r, "validating", Nothing, outcome, Raised(r), Raised(r))
  <2>1. /\ Raised(r) \in Task /\ Raised(r) # None /\ Raised(r).pc = "abort"
        /\ Raised(r).port = tasks[r].port
    BY <1>1, GoingOn DEF IInv, Raised
  <2>2. Raised(r).pc \notin FindingStages /\ Raised(r).pc # "decide"
    BY <2>1 DEF FindingStages
  <2> QED BY <1>1, <1>2, <1>3, <1>5, <1>7, <2>1, <2>2, AdvanceStep
<1> HIDE DEF next, after
<1>8. \/ \E verified \in BOOLEAN :
           Transit(r, "validating", Nothing, outcome, next(verified),
                   Raised(r))
      \/ Transit(r, "validating", Nothing, outcome, Raised(r), Raised(r))
  BY DEF Validate, next, after
<1> QED BY <1>6, <1>7, <1>8

\* The warehouse is asked (StartQuery).
LEMMA StartQueryKeeps ==
  ASSUME IInv, NEW r \in Runs, NEW outcome \in Outcomes, StartQuery(r, outcome)
  PROVE  IInv'
<1>1. /\ tasks[r] # None /\ tasks[r].pc = "warehouse" /\ UNCHANGED system
      /\ Transit(r, "validating_warehouse", Nothing, outcome, To(r, "query"),
                 Raised(r))
  BY DEF StartQuery, At
<1>2. /\ Coupled(r, runs[r], tasks[r], config, recorded)
      /\ query[r] \in {"none", "running", "abandoned"}
      /\ query[r] # "running"
  BY <1>1, TaskFacts
<1>3. PICK q \in {"none", "running", "abandoned"} :
        /\ query' = [query EXCEPT ![r] = q]
        /\ q = "running" => outcome = "done"
  <2>1. CASE outcome = "done"
    BY <2>1 DEF StartQuery
  <2>2. CASE outcome # "done"
    <3>1. query' = [query EXCEPT ![r] = query[r]]
      BY <1>1, <2>2, TaskFacts DEF StartQuery
    <3> QED BY <1>2, <3>1
  <2> QED BY <2>1, <2>2
<1>4. /\ To(r, "query") \in Task /\ To(r, "query") # None
      /\ To(r, "query").pc = "query" /\ To(r, "query").port = tasks[r].port
      /\ To(r, "query").finding = tasks[r].finding
  BY <1>1, GoingOn DEF IInv
<1>5. tasks[r].finding # None /\ tasks[r].finding.context = tasks[r].port
  BY <1>1, <1>2 DEF Coupled, FindingStages
<1>6. /\ "validating_warehouse" \in RunState
      /\ Fits("validating_warehouse", "query")
  BY DEF RunState, Fits
<1> QED BY <1>1, <1>2, <1>3, <1>4, <1>5, <1>6, AdvanceStep

\* However the validation ends, the warehouse has been asked.
LEMMA QueryKeeps ==
  ASSUME IInv, NEW r \in Runs, QueryReturns(r) \/ QueryTimesOut(r)
  PROVE  IInv'
<1>1. /\ tasks[r] # None /\ tasks[r].pc = "query"
      /\ UNCHANGED <<runs, system, faults>>
  BY DEF QueryReturns, QueryTimesOut, At
<1>2. /\ tasks[r] \in Task /\ runs[r] # None
      /\ Coupled(r, runs[r], tasks[r], config, recorded)
  BY <1>1, TaskFacts
<1>3. /\ runs[r].state = "validating_warehouse"
      /\ tasks[r].port = "snapshot" => r \in recorded
      /\ tasks[r].finding # None /\ tasks[r].finding.context = tasks[r].port
      /\ tasks[r].finding \in Finding
  BY <1>1, <1>2 DEF Coupled, Fits, FindingStages, Task
<1>4. PICK evidence \in {"passed", "unusable", "blocked"} :
        Becomes(r, [To(r, "decide") EXCEPT !.finding.warehouse = evidence])
  <2>1. ASSUME NEW result
        PROVE  EvidenceOf(result) \in {"passed", "unusable", "blocked"}
    BY DEF EvidenceOf
  <2>2. CASE QueryReturns(r)
    BY <2>1, <2>2 DEF QueryReturns
  <2>3. CASE QueryTimesOut(r)
    BY <2>3 DEF QueryTimesOut, TimedOut
  <2> QED BY <2>2, <2>3
<1>5. PICK q \in {"none", "running", "abandoned"} :
        query' = [query EXCEPT ![r] = q] /\ q # "running"
  BY DEF QueryReturns, QueryTimesOut
<1> DEFINE found == [tasks[r].finding EXCEPT !.warehouse = evidence]
           task  == [To(r, "decide") EXCEPT !.finding.warehouse = evidence]
<1>6. /\ found \in Finding /\ found.warehouse = evidence
      /\ found.context = tasks[r].finding.context
  BY <1>3 DEF Finding
<1> HIDE DEF found, task
<1>7. /\ To(r, "decide") \in Task /\ To(r, "decide").pc = "decide"
      /\ To(r, "decide").port = tasks[r].port
      /\ To(r, "decide").finding = tasks[r].finding
  BY <1>1, GoingOn DEF IInv
<1>8. task = [To(r, "decide") EXCEPT !.finding = found]
  BY <1>7 DEF task, found
<1>9. /\ task \in Task /\ task.pc = "decide" /\ task.port = tasks[r].port
      /\ task.finding = found
  BY <1>6, <1>7, <1>8 DEF Task
<1>10. task # None /\ found # None
  BY <1>6, <1>9, NoneAssumption
<1>11. Coupled(r, runs[r], task, config, recorded)
  BY <1>2, <1>3, <1>6, <1>9, <1>10 DEF Coupled, Fits, Asked
<1>12. tasks' = [tasks EXCEPT ![r] = task]
  BY <1>4 DEF Becomes, task
<1> QED BY <1>1, <1>5, <1>9, <1>10, <1>11, <1>12, TaskStep

\* What it says that the policy has no blocker.
LEMMA NoBlockers ==
  ASSUME NEW f, Blockers(f) = {}
  PROVE  /\ f.verified /\ f.matches
         /\ config.requireLive => f.context = "live"
         /\ f.warehouse = "not_run" => ~config.requireWarehouse
         /\ f.warehouse # "blocked" /\ f.warehouse # "unusable"
<1>1. \A b \in BlockerCode : b \notin Blockers(f)
  OBVIOUS
<1>2. BlockerCode =
        {"VERIFICATION_FAILED", "CONTEXT_IDENTITY_MISMATCH",
         "LIVE_EVIDENCE_REQUIRED", "WAREHOUSE_EVIDENCE_REQUIRED",
         "WAREHOUSE_VALIDATION_FAILED", "WAREHOUSE_EVIDENCE_UNUSABLE"}
  BY DEF BlockerCode
<1> QED BY <1>1, <1>2 DEF Blockers

\* The analysis that is stored, and why a run may be approved with it.
LEMMA DecidedOn ==
  ASSUME IInv, NEW r \in Runs, tasks[r] # None, tasks[r].pc = "decide"
  PROVE  LET f == tasks[r].finding
             a == [finding |-> f, blockers |-> Blockers(f), under |-> config]
         IN  /\ a \in Analysed /\ a # None
             /\ Blockers(f) = {} => Justified(r, a, recorded)
<1> DEFINE f == tasks[r].finding
           a == [finding |-> f, blockers |-> Blockers(f), under |-> config]
<1>1. /\ tasks[r] \in Task /\ Coupled(r, runs[r], tasks[r], config, recorded)
  BY TaskFacts
<1>2. f \in Finding /\ f.context = tasks[r].port /\ Asked(f, config)
      /\ (tasks[r].port = "snapshot" => r \in recorded)
  BY <1>1 DEF Coupled, FindingStages, Task
<1>3. Blockers(f) \in SUBSET BlockerCode
  BY DEF Blockers
<1>4. config \in Configs
  BY DEF IInv, TypeOK
<1> DEFINE b == Blockers(f)
<1> HIDE DEF b
<1>5. [finding |-> f, blockers |-> b, under |-> config] \in Analysed
  BY <1>2, <1>3, <1>4 DEF Analysed, b
<1>6. a \in Analysed /\ a # None
  BY <1>5, NoneAssumption DEF b
<1>7. ASSUME Blockers(f) = {}
      PROVE  Justified(r, a, recorded)
  <2>1. /\ f.verified /\ f.matches
        /\ config.requireLive => f.context = "live"
        /\ f.warehouse = "not_run" => ~config.requireWarehouse
        /\ f.warehouse # "blocked" /\ f.warehouse # "unusable"
    BY <1>7, NoBlockers
  <2>2. f.warehouse # "not_run" => f.warehouse = "passed"
    BY <1>2, <2>1 DEF Finding
  <2>3. a.finding = f /\ a.blockers = {} /\ a.under = config
    BY <1>7
  <2> HIDE DEF f, a
  <2>4. f.context = "snapshot" => r \in recorded /\ ~config.requireLive
    BY <1>2, <2>1
  <2>5. f.context = "live" /\ config.warehouse => f.warehouse = "passed"
    BY <1>2, <2>1, <2>2 DEF Asked
  <2>6. config.requireWarehouse => f.warehouse = "passed"
    BY <2>1, <2>2
  <2> QED BY <1>6, <2>1, <2>3, <2>4, <2>5, <2>6 DEF Justified
<1> QED BY <1>6, <1>7

\* The decision: the only step that stores an analysis.
LEMMA DecideKeeps ==
  ASSUME IInv, NEW r \in Runs, NEW outcome \in Outcomes, Decide(r, outcome)
  PROVE  IInv'
<1> DEFINE f == tasks[r].finding
           a == [finding |-> f, blockers |-> Blockers(f), under |-> config]
<1>1. tasks[r] # None /\ tasks[r].pc = "decide" /\ UNCHANGED system
  BY DEF Decide, At
<1>2. /\ runs[r] \in Row /\ runs[r] # None
      /\ Coupled(r, runs[r], tasks[r], config, recorded)
      /\ GoodRow(r, runs[r], recorded)
      /\ faults + restarts \in Nat
      /\ query[r] \in {"none", "running", "abandoned"}
      /\ query[r] # "running"
  BY <1>1, TaskFacts
<1>3. query' = [query EXCEPT ![r] = query[r]]
  BY <1>1, TaskFacts DEF Decide
<1>4. a \in Analysed /\ a # None
      /\ (Blockers(f) = {} => Justified(r, a, recorded))
  BY <1>1, DecidedOn
<1> HIDE DEF a
<1>5. PICK to, given :
        /\ to \in {"failed", "awaiting_approval"}
        /\ to = "awaiting_approval" => Blockers(f) = {}
        /\ Transit(r, to, given, outcome, None, Raised(r))
        /\ given.analysis = a /\ given.publication = None
        /\ given.error \in {None, "BLOCKED"}
  <2> DEFINE good == [Nothing EXCEPT !.analysis = a]
             bad  == [Failing("BLOCKED") EXCEPT !.analysis = a]
  <2>1. /\ good.analysis = a /\ good.publication = None /\ good.error = None
        /\ bad.analysis = a /\ bad.publication = None
        /\ bad.error = "BLOCKED"
    BY DEF Failing, Nothing
  <2>2. \/ /\ Blockers(f) = {}
           /\ Transit(r, "awaiting_approval", good, outcome, None, Raised(r))
        \/ Transit(r, "failed", bad, outcome, None, Raised(r))
    BY DEF Decide, a
  <2> HIDE DEF good, bad
  <2> QED BY <2>1, <2>2
<1> DEFINE new == Moved(runs[r], to, given)
<1>6. given.analysis = a /\ given.publication = None
  BY <1>5
<1>7. given.error \in ErrorCode \cup {None}
  BY <1>5 DEF ErrorCode
<1>8. to \in {"failed", "awaiting_approval"} /\ to \in RunState
  BY <1>5 DEF RunState
<1>9. Transit(r, to, given, outcome, None, Raised(r))
  BY <1>5
<1>10. new # None /\ new.state = to /\ new.analysis = a
  BY <1>2, <1>4, <1>6, <1>7, <1>8, MovedRow
<1> HIDE DEF new
<1>11. /\ runs[r].state \in {"validating", "validating_warehouse"}
       /\ tasks[r].port = "snapshot" => r \in recorded
  BY <1>1, <1>2 DEF Coupled, Fits, FindingStages
<1>12. GoodRow(r, new, recorded) /\ new.state \notin Working
  BY <1>4, <1>5, <1>8, <1>10 DEF GoodRow, Working, Decided
<1>13. /\ Raised(r) \in Task /\ Raised(r) # None /\ Raised(r).pc = "abort"
       /\ Raised(r).port = tasks[r].port
  BY <1>1, GoingOn DEF IInv, Raised
<1>14. /\ Coupled(r, new, Raised(r), config, recorded)
       /\ Coupled(r, runs[r], Raised(r), config, recorded)
  BY <1>2, <1>8, <1>10, <1>11, <1>13
     DEF Coupled, Fits, FindingStages, Working, Decided
<1>15. \A n : /\ Local(r, new, None, query[r], config, recorded, n)
              /\ Local(r, new, Raised(r), query[r], config, recorded, n)
              /\ Local(r, runs[r], Raised(r), query[r], config, recorded, n)
  BY <1>2, <1>12, <1>13, <1>14, LocalOfTask, LocalOfEnd
<1>16. MayMove(runs[r], to)
  BY <1>8, <1>11, AllowedOf DEF MayMove
<1>17. LeftInOrder(r, to, given, None, Raised(r), query[r], outcome)
  BY <1>15, <1>16 DEF LeftInOrder, new
<1> QED BY <1>1, <1>2, <1>3, <1>4, <1>6, <1>7, <1>8, <1>9, <1>13, <1>17,
           TransitStep

\* Every step of a task keeps the invariant.
LEMMA ProceedKeeps ==
  ASSUME IInv, NEW r \in Runs, Proceed(r)
  PROVE  IInv'
BY LoadKeeps, QueryKeeps, BeginKeeps, EndingsKeep, ScoreKeeps, GenerateKeeps,
   ValidateKeeps, StartQueryKeeps, DecideKeeps DEF Proceed

\* A query that was given up comes to its end (AbandonedEnds).
LEMMA AbandonedKeeps ==
  ASSUME IInv, NEW r \in Runs, AbandonedEnds(r)
  PROVE  IInv'
<1>1. /\ runs' = [runs EXCEPT ![r] = runs[r]]
      /\ tasks' = [tasks EXCEPT ![r] = tasks[r]]
      /\ query' = [query EXCEPT ![r] = "none"]
      /\ UNCHANGED <<config, process, awaited, restarts, recorded, faults>>
  BY DEF AbandonedEnds, IInv, TypeOK, system
<1>2. /\ runs[r] \in Row \cup {None} /\ tasks[r] \in Task \cup {None}
      /\ faults \in Nat /\ recorded \in SUBSET Runs
      /\ process = "closed" => tasks[r] = None
  BY DEF IInv, TypeOK, ClosedOnlyIdle
<1>3. Local(r, runs[r], tasks[r], query[r], config, recorded,
            faults + restarts)
  BY DEF IInv
<1>4. Local(r, runs[r], tasks[r], "none", config, recorded',
            faults' + restarts)
  BY <1>1, <1>3 DEF Local
<1>5. /\ recorded' \in SUBSET Runs /\ recorded \subseteq recorded'
      /\ faults' \in Nat /\ faults <= faults'
  BY <1>1, <1>2
<1> QED BY <1>1, <1>2, <1>4, <1>5, LocalStep

-----------------------------------------------------------------------------
(* Requests, shutdown and restart.                                         *)

\* A run that waits for its user has no task and no query.
LEMMA NoTaskWaiting ==
  ASSUME IInv, NEW r \in Runs, runs[r] # None,
         runs[r].state = "context_fallback_required"
  PROVE  tasks[r] = None /\ query[r] # "running"
<1>1. tasks[r] = None
  <2>1. SUFFICES ASSUME tasks[r] # None PROVE FALSE
    OBVIOUS
  <2> QED BY <2>1, TaskFacts DEF Coupled, Fits, Working, Decided
<1> QED BY <1>1 DEF IInv, Local

\* A run is created, with its task (Start).
LEMMA StartKeeps ==
  ASSUME IInv, NEW r \in Runs, Start(r)
  PROVE  IInv'
<1> DEFINE row  == [state |-> "created", analysis |-> None,
                    publication |-> None, error |-> None]
           task == [pc |-> "begin", port |-> config.primary,
                    offer |-> config.fallback, finding |-> None]
<1>1. /\ runs' = [runs EXCEPT ![r] = row]
      /\ tasks' = [tasks EXCEPT ![r] = task]
      /\ recorded' = IF config.primary = "snapshot" THEN recorded \cup {r}
                                                    ELSE recorded
      /\ UNCHANGED <<query, config, process, awaited, faults, restarts>>
      /\ runs[r] = None /\ process = "up"
  BY DEF Start, Becomes
<1>2. /\ config \in Config /\ recorded \in SUBSET Runs /\ faults \in Nat
      /\ query[r] \in {"none", "running", "abandoned"}
      /\ query' = [query EXCEPT ![r] = query[r]]
  BY <1>1, AnalysisAssumption DEF IInv, TypeOK
<1>3. row \in Row /\ task \in Task
  BY <1>2 DEF Row, RunState, Task, Config
<1>4. row # None /\ task # None
  BY <1>3, NoneAssumption
<1>5. /\ row.state = "created" /\ row.analysis = None
      /\ task.pc = "begin" /\ task.port = config.primary
  OBVIOUS
<1>6. query[r] # "running"
  BY <1>1 DEF IInv, Local, Coupled
<1>7. /\ recorded' \in SUBSET Runs /\ recorded \subseteq recorded'
      /\ config.primary = "snapshot" => r \in recorded'
      /\ faults' \in Nat /\ faults <= faults'
  BY <1>1, <1>2
<1> HIDE DEF row, task
<1>8. /\ GoodRow(r, row, recorded')
      /\ Coupled(r, row, task, config, recorded')
  BY <1>4, <1>5, <1>7 DEF GoodRow, Coupled, Fits, FindingStages, Working,
                          Decided
<1>9. Local(r, row, task, query[r], config, recorded', faults' + restarts)
  BY <1>4, <1>6, <1>8, LocalOfTask
<1> QED BY <1>1, <1>2, <1>3, <1>7, <1>9, LocalStep

\* The run that is continued has no task, and recorded evidence is no surprise.
LEMMA ContinueKeeps ==
  ASSUME IInv, NEW r \in Runs, NEW outcome \in Outcomes,
         ContinueWithSnapshot(r, outcome)
  PROVE  IInv'
<1> DEFINE given == ClearingError(TRUE)
           new   == Moved(runs[r], "loading_context", given)
<1>0. given.analysis = None /\ given.publication = None /\ given.error = None
  BY Givens
<1>1. /\ process = "up" /\ runs[r] # None
      /\ runs[r].state = "context_fallback_required"
      /\ UNCHANGED <<config, process, awaited, restarts>>
  BY DEF ContinueWithSnapshot, WaitsForSnapshot
<1>2. tasks[r] = None /\ query[r] # "running"
  BY <1>1, NoTaskWaiting
<1>3. /\ runs[r] \in Row /\ GoodRow(r, runs[r], recorded)
      /\ recorded \in SUBSET Runs /\ faults \in Nat /\ restarts \in Nat
      /\ query[r] \in {"none", "running", "abandoned"}
      /\ query' = [query EXCEPT ![r] = query[r]]
      /\ runs = [runs EXCEPT ![r] = runs[r]]
      /\ tasks = [tasks EXCEPT ![r] = None]
  BY <1>1, <1>2 DEF IInv, TypeOK, Local, ContinueWithSnapshot
<1>4. "loading_context" \in RunState
  BY DEF RunState
<1> HIDE DEF given
<1>5. /\ new \in Row /\ new # None /\ new.state = "loading_context"
      /\ new.analysis = runs[r].analysis
  BY <1>0, <1>3, <1>4, MovedRow
<1>6. runs[r].analysis = None
  BY <1>1, <1>3 DEF GoodRow
<1>7. MayMove(runs[r], "loading_context")
  BY <1>1, AllowedOf DEF MayMove
<1>8. /\ runs' = IF outcome = "refused" THEN runs
                                        ELSE [runs EXCEPT ![r] = new]
      /\ faults' = IF outcome = "done" THEN faults ELSE faults + 1
      /\ tasks' = IF outcome = "done"
                  THEN [tasks EXCEPT ![r] = SnapshotTask(r)] ELSE tasks
      /\ recorded' = IF outcome = "refused" THEN recorded
                                            ELSE recorded \cup {r}
  BY <1>7 DEF ContinueWithSnapshot, Reported, MoveRun, Becomes, given
<1> HIDE DEF new
<1>9. /\ recorded' \in SUBSET Runs /\ recorded \subseteq recorded'
      /\ faults' \in Nat /\ faults <= faults'
      /\ outcome # "refused" => r \in recorded'
  BY <1>3, <1>8
<1>10. outcome # "done" => faults' + restarts > 0
  BY <1>3, <1>8
<1>11. \A rec : GoodRow(r, new, rec) /\ GoodRow(r, runs[r], rec)
  BY <1>1, <1>5, <1>6 DEF GoodRow, Working, Decided
<1>12. CASE outcome = "done"
  <2> DEFINE task == SnapshotTask(r)
  <2>1. task \in Task /\ task.pc = "load" /\ task.port = "snapshot"
    BY DEF SnapshotTask, Task
  <2> HIDE DEF task
  <2>2. task # None
    BY <2>1, NoneAssumption
  <2>3. Coupled(r, new, task, config, recorded')
    BY <1>5, <1>9, <1>12, <2>1 DEF Coupled, Fits, FindingStages
  <2>4. Local(r, new, task, query[r], config, recorded', faults' + restarts)
    BY <1>2, <1>11, <2>2, <2>3, LocalOfTask
  <2>5. runs' = [runs EXCEPT ![r] = new] /\ tasks' = [tasks EXCEPT ![r] = task]
    BY <1>8, <1>12 DEF task
  <2>6. new \in Row \cup {None} /\ task \in Task \cup {None}
    BY <1>5, <2>1
  <2> QED BY <1>1, <1>3, <1>9, <2>4, <2>5, <2>6, LocalStep
<1>13. ASSUME outcome # "done", NEW row \in {runs[r], new},
              runs' = [runs EXCEPT ![r] = row]
       PROVE  IInv'
  <2>1. Local(r, row, None, query[r], config, recorded', faults' + restarts)
    BY <1>2, <1>10, <1>11, <1>13, LocalOfEnd
  <2>2. row \in Row \cup {None} /\ None \in Task \cup {None}
    BY <1>3, <1>5
  <2>3. tasks' = [tasks EXCEPT ![r] = None]
    BY <1>3, <1>8, <1>13
  <2> QED BY <1>1, <1>3, <1>9, <1>13, <2>1, <2>2, <2>3, LocalStep
<1>14. CASE outcome # "done"
  <2>1. CASE outcome = "refused"
    BY <1>3, <1>8, <1>13, <1>14, <2>1
  <2>2. CASE outcome # "refused"
    BY <1>8, <1>13, <1>14, <2>2
  <2> QED BY <2>1, <2>2
<1> QED BY <1>12, <1>14

\* An approval may come while the task still handles a decision it could not
\* report.
LEMMA ApproveKeeps ==
  ASSUME IInv, NEW r \in Runs, Approve(r)
  PROVE  IInv'
<1>1. PICK to \in {"preparing_preview", "publishing"} :
        runs' = [runs EXCEPT ![r] = Moved(runs[r], to, Nothing)]
  BY DEF Approve, MoveRun
<1> DEFINE new == Moved(runs[r], to, Nothing)
<1>2. /\ process = "up" /\ runs[r] # None
      /\ runs[r].state = "awaiting_approval"
      /\ UNCHANGED <<config, process, awaited, restarts, recorded, faults>>
  BY DEF Approve, system
<1>3. /\ runs[r] \in Row /\ recorded \in SUBSET Runs /\ faults \in Nat
      /\ query[r] \in {"none", "running", "abandoned"}
      /\ query' = [query EXCEPT ![r] = query[r]]
      /\ tasks[r] \in Task \cup {None}
      /\ tasks' = [tasks EXCEPT ![r] = tasks[r]]
  BY <1>2 DEF Approve, IInv, TypeOK
<1>4. /\ GoodRow(r, runs[r], recorded)
      /\ tasks[r] # None => Coupled(r, runs[r], tasks[r], config, recorded)
      /\ query[r] = "running" => tasks[r] # None /\ tasks[r].pc = "query"
  BY <1>2 DEF IInv, Local
<1>5. to \in RunState
  BY DEF RunState
<1>6. /\ new \in Row /\ new # None /\ new.state = to
      /\ new.analysis = runs[r].analysis
  BY <1>3, <1>5, MovedRow, Givens
<1> HIDE DEF new
<1>7. GoodRow(r, new, recorded) /\ new.state \notin Working
  BY <1>2, <1>4, <1>6 DEF GoodRow, Working, Decided
<1>8. tasks[r] # None => Coupled(r, new, tasks[r], config, recorded)
  BY <1>2, <1>4, <1>6 DEF Coupled, Fits, Working, Decided, FindingStages
<1>9. recorded' = recorded /\ faults' = faults
  BY <1>2
<1>10. Local(r, new, tasks[r], query[r], config, recorded',
             faults' + restarts)
  BY <1>4, <1>7, <1>8, <1>9 DEF Local
<1>11. /\ recorded' \in SUBSET Runs /\ recorded \subseteq recorded'
       /\ faults' \in Nat /\ faults <= faults'
  BY <1>3, <1>9
<1>12. runs' = [runs EXCEPT ![r] = new]
  BY <1>1 DEF new
<1>13. new \in Row \cup {None}
  BY <1>6
<1> QED BY <1>2, <1>3, <1>10, <1>11, <1>12, <1>13, LocalStep

\* Drain, Gathered and Restart change no row and start no task.
LEMMA DrainKeeps ==
  ASSUME IInv, Drain
  PROVE  IInv'
<1>1. /\ UNCHANGED <<runs, tasks, query, config, recorded, faults, restarts>>
      /\ process' = "draining" /\ awaited' = InFlight
  BY DEF Drain
<1>2. InFlight \in SUBSET ({"task", "query"} \X Runs)
  BY DEF InFlight
<1>3. TypeOK'
  BY <1>1, <1>2 DEF IInv, TypeOK
<1>4. ClosedOnlyIdle'
  BY <1>1 DEF ClosedOnlyIdle
<1> QED BY <1>1, <1>3, <1>4 DEF IInv

\* The shutdown has waited for every task (Gathered).
LEMMA GatheredKeeps ==
  ASSUME IInv, Gathered
  PROVE  IInv'
<1>1. /\ UNCHANGED <<runs, tasks, query, config, recorded, faults, restarts>>
      /\ process' = (IF InFlight = {} THEN "closed" ELSE "draining")
      /\ awaited' = InFlight
  BY DEF Gathered, Left
<1>2. InFlight \in SUBSET ({"task", "query"} \X Runs)
  BY DEF InFlight
<1>3. TypeOK'
  BY <1>1, <1>2 DEF IInv, TypeOK
<1>4. ClosedOnlyIdle'
  <2>1. SUFFICES ASSUME InFlight = {}, NEW r \in Runs
                 PROVE  tasks[r] = None /\ query[r] = "none"
    BY <1>1 DEF ClosedOnlyIdle
  <2>2. <<"task", r>> \notin InFlight /\ <<"query", r>> \notin InFlight
    BY <2>1
  <2>3. tasks[r] = None /\ query[r] # "abandoned"
    BY <2>2 DEF InFlight
  <2>4. query[r] # "running"
    BY <2>3 DEF IInv, Local
  <2> QED BY <2>3, <2>4 DEF IInv, TypeOK
<1> QED BY <1>1, <1>3, <1>4 DEF IInv

\* The process restarts: tasks and queries are gone (Restart).
LEMMA RestartKeeps ==
  ASSUME IInv, Restart
  PROVE  IInv'
<1>1. /\ UNCHANGED <<runs, recorded, faults>>
      /\ tasks' = [r \in Runs |-> None] /\ query' = [r \in Runs |-> "none"]
      /\ config' \in Configs /\ process' = "up" /\ awaited' = {}
      /\ restarts' = restarts + 1
  BY DEF Restart
<1>2. faults \in Nat /\ restarts \in Nat
  BY DEF IInv, TypeOK
<1>3. restarts' \in Nat /\ faults' + restarts' > 0
  BY <1>1, <1>2
<1>4. TypeOK'
  BY <1>1, <1>3 DEF IInv, TypeOK
<1>5. ClosedOnlyIdle'
  BY <1>1 DEF ClosedOnlyIdle
<1>6. ASSUME NEW r \in Runs
      PROVE  Local(r, runs'[r], tasks'[r], query'[r], config', recorded',
                   faults' + restarts')
  <2>1. runs[r] # None => GoodRow(r, runs[r], recorded)
    BY DEF IInv, Local
  <2>2. tasks'[r] = None /\ query'[r] = "none"
    BY <1>1
  <2> QED BY <1>1, <1>3, <2>1, <2>2 DEF Local
<1> QED BY <1>4, <1>5, <1>6 DEF IInv

-----------------------------------------------------------------------------
(* The invariant.                                                          *)

\* IInv holds when the process starts with an empty table.
LEMMA IInvInit == Init => IInv
<1> SUFFICES ASSUME Init PROVE IInv
  OBVIOUS
<1>1. TypeOK
  BY DEF Init, TypeOK
<1>2. ClosedOnlyIdle
  BY DEF Init, ClosedOnlyIdle
<1>3. ASSUME NEW r \in Runs
      PROVE  runs[r] = None /\ tasks[r] = None /\ query[r] = "none"
  BY DEF Init
<1>4. ASSUME NEW r \in Runs
      PROVE  Local(r, runs[r], tasks[r], query[r], config, recorded,
                   faults + restarts)
  BY <1>3 DEF Local
<1> QED BY <1>1, <1>2, <1>4 DEF IInv

\* Every step keeps IInv.
LEMMA IInvStep == IInv /\ [Next]_vars => IInv'
<1> SUFFICES ASSUME IInv, [Next]_vars PROVE IInv'
  OBVIOUS
<1>1. ASSUME NEW r \in Runs, Start(r) \/ Approve(r) PROVE IInv'
  BY <1>1, StartKeeps, ApproveKeeps
<1>2. ASSUME NEW r \in Runs, Proceed(r) PROVE IInv'
  BY <1>2, ProceedKeeps
<1>3. ASSUME NEW r \in Runs, QueryReturns(r) PROVE IInv'
  BY <1>3, QueryKeeps
<1>4. ASSUME NEW r \in Runs, AbandonedEnds(r) PROVE IInv'
  BY <1>4, AbandonedKeeps
<1>5. ASSUME NEW r \in Runs, NEW outcome \in Outcomes,
             ContinueWithSnapshot(r, outcome)
      PROVE  IInv'
  BY <1>5, ContinueKeeps
<1>6. CASE Drain \/ Gathered \/ Restart
  BY <1>6, DrainKeeps, GatheredKeeps, RestartKeeps
<1>7. CASE UNCHANGED vars
  <2>1. UNCHANGED <<runs, tasks, query, config, process, awaited, recorded,
                    faults, restarts>>
    BY <1>7 DEF vars, system
  <2>2. TypeOK' /\ ClosedOnlyIdle'
    BY <2>1 DEF IInv, TypeOK, ClosedOnlyIdle
  <2> QED BY <2>1, <2>2 DEF IInv
<1> QED BY <1>1, <1>2, <1>3, <1>4, <1>5, <1>6, <1>7 DEF Next

\* The inductive invariant holds in every behaviour.
THEOREM Invariance == Spec => []IInv
<1> QED BY IInvInit, IInvStep, PTL DEF Spec

-----------------------------------------------------------------------------
(* The properties.                                                         *)

\* Types: every variable keeps its type (TypeOK).
THEOREM TypeCorrect == Spec => []TypeOK
<1>1. IInv => TypeOK
  BY DEF IInv
<1> QED BY <1>1, Invariance, PTL

\* A run is put before its owner, and stays there, only with an analysis that
\* is verified, about the asset asked for, free of blockers, passed by a
\* warehouse that had to be asked, and recorded only where its user knows:
\* whatever raised, timed out or was lost in the store on the way.
THEOREM AwaitingRunsAreJustified == Spec => []AwaitingIsJustified
<1>1. IInv => AwaitingIsJustified
  <2> SUFFICES ASSUME IInv, NEW r \in Runs, runs[r] # None,
                      runs[r].state \in Decided
               PROVE  Justified(r, runs[r].analysis, recorded)
    BY DEF AwaitingIsJustified, Justified
  <2> QED BY DEF IInv, Local, GoodRow
<1> QED BY <1>1, Invariance, PTL

\* A run is left in the middle of its analysis, with no task, only after a
\* failure of the store or a restart: the state machine has room for the failure
\* of every handler.
THEOREM RunsAreNotForgotten == Spec => []NoRunForgotten
<1>1. IInv => NoRunForgotten
  <2> SUFFICES ASSUME IInv, NEW r \in Runs, runs[r] # None,
                      runs[r].state \in Working, tasks[r] = None
               PROVE  restarts > 0 \/ faults > 0
    BY DEF NoRunForgotten
  <2>1. faults + restarts > 0
    BY DEF IInv, Local
  <2>2. faults \in Nat /\ restarts \in Nat
    BY DEF IInv, TypeOK
  <2> QED BY <2>1, <2>2
<1> QED BY <1>1, Invariance, PTL

\* The ports are closed only when no task and no query can use them.
THEOREM PortsCloseIdle == Spec => []ClosedOnlyIdle
<1>1. IInv => ClosedOnlyIdle
  BY DEF IInv
<1> QED BY <1>1, Invariance, PTL

-----------------------------------------------------------------------------
(* What no step may do.                                                    *)

\* A transition keeps every analysis if it gives none, or if its run has none.
LEMMA TransitionsKeepAnalyses ==
  ASSUME TypeOK, NEW r \in Runs, NEW to, NEW given, NEW outcome,
         Reported(r, to, given, outcome) \/ MoveRun(r, to, given),
         given.analysis = None \/ runs[r].analysis = None,
         NEW s \in Runs, runs[s].analysis # None
  PROVE  runs'[s].analysis = runs[s].analysis
<1>1. \/ runs' = runs
      \/ runs' = [runs EXCEPT ![r] = Moved(runs[r], to, given)]
  BY DEF Reported, MoveRun
<1>2. CASE runs' = [runs EXCEPT ![r] = Moved(runs[r], to, given)]
  <2>1. CASE s = r
    BY <1>2, <2>1 DEF TypeOK, Moved
  <2>2. CASE s # r
    BY <1>2, <2>2 DEF TypeOK
  <2> QED BY <2>1, <2>2
<1> QED BY <1>1, <1>2

\* A task that decides has a run without analysis.
LEMMA NoAnalysisYet ==
  ASSUME IInv, NEW r \in Runs, At(r, "decide")
  PROVE  runs[r].analysis = None
<1>1. tasks[r] # None /\ tasks[r].pc = "decide"
  BY DEF At
<1> QED BY <1>1, TaskFacts DEF Coupled, Fits, GoodRow, Working

\* No step of a task touches an analysis that is stored: a failure recorded
\* after a decision that was not reported keeps what was decided.
LEMMA ProceedKeepsAnalyses ==
  ASSUME IInv, NEW r \in Runs, Proceed(r), NEW s \in Runs,
         runs[s].analysis # None
  PROVE  runs'[s].analysis = runs[s].analysis
<1>1. TypeOK
  BY DEF IInv
<1>2. CASE Load(r) \/ QueryTimesOut(r)
  BY <1>2 DEF Load, QueryTimesOut
<1>3. ASSUME NEW outcome, NEW to, NEW given, NEW next, NEW raised,
             given.analysis = None,
             Transit(r, to, given, outcome, next, raised)
      PROVE  runs'[s].analysis = runs[s].analysis
  BY <1>1, <1>3, TransitionsKeepAnalyses DEF Transit
<1>4. ASSUME NEW outcome \in Outcomes, Decide(r, outcome)
      PROVE  runs'[s].analysis = runs[s].analysis
  <2>1. runs[r].analysis = None
    BY <1>4, NoAnalysisYet DEF Decide
  <2>2. PICK to, given : Reported(r, to, given, outcome)
    BY <1>4 DEF Decide, Transit
  <2> QED BY <1>1, <2>1, <2>2, TransitionsKeepAnalyses
<1>5. ASSUME NEW outcome \in Outcomes,
             Begin(r, outcome) \/ Score(r, outcome) \/ Generate(r, outcome)
               \/ Validate(r, outcome) \/ StartQuery(r, outcome)
      PROVE  runs'[s].analysis = runs[s].analysis
  <2>1. PICK to, next, raised : Transit(r, to, Nothing, outcome, next, raised)
    BY <1>5 DEF Begin, Score, Generate, Validate, StartQuery
  <2> QED BY <1>3, <2>1, Givens
<1>6. ASSUME NEW outcome \in Outcomes,
             Offer(r, outcome) \/ Unavailable(r, outcome) \/ Abort(r, outcome)
      PROVE  runs'[s].analysis = runs[s].analysis
  <2>1. PICK to, code : Transit(r, to, Failing(code), outcome, None, None)
    BY <1>6 DEF Offer, Unavailable, Abort
  <2> QED BY <1>3, <2>1, Givens
<1> QED BY <1>2, <1>4, <1>5, <1>6 DEF Proceed

\* An analysis is never changed or lost once it is stored.
THEOREM AnalysesAreFinal == Spec => AnalysisIsFinal
<1>1. ASSUME IInv, [Next]_vars, NEW s \in Runs, runs[s].analysis # None,
             runs[s] # None
      PROVE  runs'[s].analysis = runs[s].analysis
  <2>1. TypeOK
    BY <1>1 DEF IInv
  <2>2. ASSUME NEW r \in Runs, Start(r)
        PROVE  runs'[s].analysis = runs[s].analysis
    <3>1. s # r
      BY <1>1, <2>2 DEF Start
    <3> QED BY <2>1, <2>2, <3>1 DEF Start, TypeOK
  <2>3. ASSUME NEW r \in Runs, Approve(r)
        PROVE  runs'[s].analysis = runs[s].analysis
    <3>1. PICK to : MoveRun(r, to, Nothing)
      BY <2>3 DEF Approve
    <3> QED BY <1>1, <2>1, <3>1, Givens, TransitionsKeepAnalyses
  <2>4. ASSUME NEW r \in Runs, Proceed(r)
        PROVE  runs'[s].analysis = runs[s].analysis
    BY <1>1, <2>4, ProceedKeepsAnalyses
  <2>5. ASSUME NEW r \in Runs, QueryReturns(r) \/ AbandonedEnds(r)
        PROVE  runs' = runs
    BY <2>5 DEF QueryReturns, AbandonedEnds
  <2>6. ASSUME NEW r \in Runs, NEW outcome, ContinueWithSnapshot(r, outcome)
        PROVE  runs'[s].analysis = runs[s].analysis
    <3>1. Reported(r, "loading_context", ClearingError(TRUE), outcome)
      BY <2>6 DEF ContinueWithSnapshot
    <3> QED BY <1>1, <2>1, <3>1, Givens, TransitionsKeepAnalyses
  <2>7. CASE Drain \/ Gathered \/ Restart \/ UNCHANGED vars
    BY <2>7 DEF Drain, Gathered, Restart, vars
  <2> QED BY <1>1, <2>2, <2>3, <2>4, <2>5, <2>6, <2>7 DEF Next
<1>2. IInv /\ [Next]_vars =>
        [\A r \in Runs : runs[r] # None /\ runs[r].analysis # None
           => runs'[r].analysis = runs[r].analysis]_vars
  BY <1>1
<1> QED BY <1>2, Invariance, PTL DEF Spec, AnalysisIsFinal

\* The task of a run that takes a step goes on or has ended.
LEMMA ProceedKeepsTask ==
  ASSUME IInv, NEW r \in Runs, Proceed(r) \/ QueryReturns(r)
  PROVE  \E task : /\ tasks' = [tasks EXCEPT ![r] = task]
                   /\ task # None => GoesOn(tasks[r], task)
<1>1. tasks[r] # None
  BY DEF Proceed, QueryReturns, Load, QueryTimesOut, Begin, Offer, Unavailable,
         Score, Generate, Validate, StartQuery, Decide, Abort, At
<1>2. tasks[r] \in Task
  BY <1>1 DEF IInv, TypeOK
<1>3. ASSUME NEW pc, Stage(tasks[r].pc) < Stage(pc)
      PROVE  /\ GoesOn(tasks[r], To(r, pc))
             /\ \A found : GoesOn(tasks[r], [To(r, pc) EXCEPT !.finding = found])
  BY <1>2, <1>3 DEF GoesOn, To, Task
<1>4. tasks[r].pc # "abort" => Stage(tasks[r].pc) < Stage("abort")
  BY <1>2 DEF Stage, Task
<1>5. tasks[r].pc # "abort" => GoesOn(tasks[r], Raised(r))
  BY <1>3, <1>4 DEF Raised
<1>6. ASSUME NEW task, Becomes(r, task), task # None => GoesOn(tasks[r], task)
      PROVE  \E t : /\ tasks' = [tasks EXCEPT ![r] = t]
                    /\ t # None => GoesOn(tasks[r], t)
  BY <1>6 DEF Becomes
<1>7. ASSUME NEW outcome \in Outcomes, NEW to, NEW given, NEW next, NEW raised,
             Transit(r, to, given, outcome, next, raised),
             next # None => GoesOn(tasks[r], next),
             raised # None => GoesOn(tasks[r], raised)
      PROVE  \E t : /\ tasks' = [tasks EXCEPT ![r] = t]
                    /\ t # None => GoesOn(tasks[r], t)
  BY <1>6, <1>7 DEF Transit
<1>8. CASE Load(r)
  <2>1. /\ Stage(tasks[r].pc) < Stage("score")
        /\ Stage(tasks[r].pc) < Stage("offer")
        /\ Stage(tasks[r].pc) < Stage("unavailable")
        /\ tasks[r].pc # "abort"
    BY <1>8 DEF Load, At, Stage
  <2>2. PICK task : Becomes(r, task) /\ GoesOn(tasks[r], task)
    BY <1>3, <1>5, <1>8, <2>1 DEF Load
  <2> QED BY <1>6, <2>2
<1>9. CASE QueryTimesOut(r) \/ QueryReturns(r)
  <2>1. Stage(tasks[r].pc) < Stage("decide")
    BY <1>9 DEF QueryTimesOut, QueryReturns, At, Stage
  <2>2. PICK result :
          Becomes(r, [To(r, "decide") EXCEPT !.finding.warehouse = result])
    BY <1>9 DEF QueryTimesOut, QueryReturns
  <2>3. GoesOn(tasks[r], [To(r, "decide") EXCEPT !.finding.warehouse = result])
    BY <1>3, <2>1
  <2> QED BY <1>6, <2>2, <2>3
<1>10. ASSUME NEW outcome \in Outcomes, Validate(r, outcome)
       PROVE  \E t : /\ tasks' = [tasks EXCEPT ![r] = t]
                     /\ t # None => GoesOn(tasks[r], t)
  <2>1. /\ Stage(tasks[r].pc) < Stage("warehouse")
        /\ Stage(tasks[r].pc) < Stage("decide")
        /\ tasks[r].pc # "abort"
    BY <1>10 DEF Validate, At, Stage
  <2>2. PICK pc, next, finding :
               /\ pc \in {"warehouse", "decide"}
               /\ next \in {[To(r, pc) EXCEPT !.finding = finding], Raised(r)}
               /\ Transit(r, "validating", Nothing, outcome, next, Raised(r))
    BY <1>10 DEF Validate
  <2>3. GoesOn(tasks[r], next)
    BY <1>3, <1>5, <2>1, <2>2
  <2> QED BY <1>5, <1>7, <2>1, <2>2, <2>3
<1>11. ASSUME NEW outcome \in Outcomes,
              Score(r, outcome) \/ Generate(r, outcome)
                \/ StartQuery(r, outcome) \/ Begin(r, outcome)
                \/ Decide(r, outcome)
       PROVE  \E t : /\ tasks' = [tasks EXCEPT ![r] = t]
                     /\ t # None => GoesOn(tasks[r], t)
  <2>1. /\ Score(r, outcome) => Stage(tasks[r].pc) < Stage("generate")
        /\ Generate(r, outcome) => Stage(tasks[r].pc) < Stage("validate")
        /\ StartQuery(r, outcome) => Stage(tasks[r].pc) < Stage("query")
        /\ Begin(r, outcome) => Stage(tasks[r].pc) < Stage("load")
        /\ tasks[r].pc # "abort"
    <3>1. Score(r, outcome) => tasks[r].pc = "score"
      BY DEF Score, At
    <3>2. Generate(r, outcome) => tasks[r].pc = "generate"
      BY DEF Generate, At
    <3>3. StartQuery(r, outcome) => tasks[r].pc = "warehouse"
      BY DEF StartQuery, At
    <3>4. Begin(r, outcome) => tasks[r].pc = "begin"
      BY DEF Begin, At
    <3>5. Decide(r, outcome) => tasks[r].pc = "decide"
      BY DEF Decide, At
    <3>6. /\ Stage("score") < Stage("generate")
          /\ Stage("generate") < Stage("validate")
          /\ Stage("warehouse") < Stage("query")
          /\ Stage("begin") < Stage("load")
      BY DEF Stage
    <3>7. tasks[r].pc # "abort"
      BY <1>11, <3>1, <3>2, <3>3, <3>4, <3>5
    <3> QED BY <3>1, <3>2, <3>3, <3>4, <3>6, <3>7
  <2>2. PICK to, given, next, raised :
               /\ Transit(r, to, given, outcome, next, raised)
               /\ next # None => GoesOn(tasks[r], next)
               /\ raised # None => GoesOn(tasks[r], raised)
    BY <1>3, <1>5, <1>11, <2>1 DEF Score, Generate, StartQuery, Begin, Decide
  <2> QED BY <1>7, <2>2
<1>12. ASSUME NEW outcome \in Outcomes,
              Offer(r, outcome) \/ Unavailable(r, outcome) \/ Abort(r, outcome)
       PROVE  \E t : /\ tasks' = [tasks EXCEPT ![r] = t]
                     /\ t # None => GoesOn(tasks[r], t)
  <2>1. PICK to, given : Transit(r, to, given, outcome, None, None)
    BY <1>12 DEF Offer, Unavailable, Abort
  <2> QED BY <1>7, <2>1
<1> QED BY <1>8, <1>9, <1>10, <1>11, <1>12 DEF Proceed

\* No task is started for a run that has one.
LEMMA NothingStarts ==
  ASSUME IInv, NEW r \in Runs, tasks[r] # None
  PROVE  ~ Starts(r)
<1>1. ~ Start(r)
  BY DEF Start, IInv, Local, Coupled
<1>2. ~ ContinueWithSnapshot(r, "done")
  BY NoTaskWaiting DEF ContinueWithSnapshot, WaitsForSnapshot
<1> QED BY <1>1, <1>2 DEF Starts

\* A run never has two tasks: no step starts a task for a run that has one, and
\* none replaces the task of a run by another, or sends it back.
THEOREM TasksAreNotDoubled == Spec => OneTaskPerRun
<1> DEFINE Stays(s) == tasks'[s] \in {None, tasks[s]} \/ GoesOn(tasks[s], tasks'[s])
<1>1. ASSUME IInv, [Next]_vars, NEW s \in Runs, tasks[s] # None
      PROVE  ~ Starts(s) /\ Stays(s)
  <2>1. tasks \in [Runs -> Task \cup {None}]
    BY <1>1 DEF IInv, TypeOK
  <2>2. ~ Starts(s)
    BY <1>1, NothingStarts
  <2>3. ASSUME NEW r \in Runs, NEW task, tasks' = [tasks EXCEPT ![r] = task], r # s
        PROVE  Stays(s)
    BY <2>1, <2>3
  <2>4. ASSUME NEW r \in Runs, Start(r) \/ ContinueWithSnapshot(r, "done")
        PROVE  Stays(s)
    <3>1. r # s
      BY <2>2, <2>4 DEF Starts
    <3>2. PICK task : tasks' = [tasks EXCEPT ![r] = task]
      BY <2>4 DEF Start, ContinueWithSnapshot, Becomes
    <3> QED BY <2>3, <3>1, <3>2
  <2>5. ASSUME NEW r \in Runs, Proceed(r) \/ QueryReturns(r)
        PROVE  Stays(s)
    <3>1. PICK task : /\ tasks' = [tasks EXCEPT ![r] = task]
                      /\ task # None => GoesOn(tasks[r], task)
      BY <1>1, <2>5, ProceedKeepsTask
    <3>2. CASE r = s
      <4>1. tasks'[s] = task
        BY <2>1, <3>1, <3>2
      <4> QED BY <3>1, <3>2, <4>1
    <3>3. CASE r # s
      BY <2>3, <3>1, <3>3
    <3> QED BY <3>2, <3>3
  <2>6. CASE tasks' = tasks
    BY <2>2, <2>6
  <2>7. ASSUME NEW r \in Runs, Approve(r) \/ AbandonedEnds(r)
        PROVE  tasks' = tasks
    BY <2>7 DEF Approve, AbandonedEnds
  <2>8. ASSUME NEW r \in Runs, NEW outcome \in Outcomes,
               ContinueWithSnapshot(r, outcome), outcome # "done"
        PROVE  tasks' = tasks
    BY <2>8 DEF ContinueWithSnapshot
  <2>9. CASE Restart
    BY <2>1, <2>2, <2>9 DEF Restart
  <2>10. CASE Drain \/ Gathered \/ UNCHANGED vars
    BY <2>2, <2>6, <2>10 DEF Drain, Gathered, vars
  <2> QED BY <1>1, <2>2, <2>4, <2>5, <2>6, <2>7, <2>8, <2>9, <2>10 DEF Next
<1>2. IInv /\ [Next]_vars =>
        [\A r \in Runs : tasks[r] # None =>
           /\ ~ Starts(r)
           /\ tasks'[r] \in {None, tasks[r]} \/ GoesOn(tasks[r], tasks'[r])]_vars
  BY <1>1
<1> QED BY <1>2, Invariance, PTL DEF Spec, OneTaskPerRun

-----------------------------------------------------------------------------
(* The SQL types that scoring compares: what type_change_kind() promises,  *)
(* for every pair of declared types.  A change that is called widening     *)
(* loses no value, and one within a family that is not called so does.  A  *)
(* value is what there is to store of it: the length of a string, and the  *)
(* digits of a number on either side of its point.                         *)

\* A type as it is declared: any name, any parameters.
Declared == [name : STRING, params : Seq(Nat)]

Lengths == {"VARCHAR", "BINARY"}

\* The canonical forms whose parameters limit what fits.
Limited ==
  {t \in [base : Lengths \cup {"NUMBER"}, params : Seq(Nat)] :
     IF t.base = "NUMBER"
     THEN Len(t.params) = 2 /\ t.params[2] <= t.params[1] /\ t.params[1] >= 1
     ELSE Len(t.params) = 1 /\ t.params[1] >= 1}

\* Does the type store a value?  It has whole digits and digits of fraction; of a string,
\* whole is its length.
Stores(t, whole, fraction) ==
  IF t.base = "NUMBER"
  THEN whole <= t.params[1] - t.params[2] /\ fraction <= t.params[2]
  ELSE whole <= t.params[1]

\* Whatever fits the old type fits the new one.
KeepsValues(old, new) ==
  \A whole, fraction \in Nat : Stores(old, whole, fraction) => Stores(new, whole, fraction)

-----------------------------------------------------------------------------
\* A number type has a precision and a scale within it (_canonical).
LEMMA NumberIsLimited ==
  ASSUME NEW t \in Declared, Number(t) # Unsupported
  PROVE  Number(t) \in Limited /\ Number(t).base = "NUMBER"
<1> DEFINE p == Param(t, 1, 38)
           s == Param(t, 2, 0)
<1>1. Len(t.params) \in Nat /\ t.params \in Seq(Nat)
  BY DEF Declared
<1>2. p \in Nat /\ s \in Nat
  BY <1>1 DEF Param
<1>3. Number(t) = Type("NUMBER", <<p, s>>) /\ s <= p /\ 1 <= p
  BY DEF Number
<1> HIDE DEF p, s
<1>4. <<p, s>> \in Seq(Nat) /\ Len(<<p, s>>) = 2
  BY <1>2
<1> QED
  BY <1>2, <1>3, <1>4 DEF Limited, Type

\* A type with a length has one of its own kind (_canonical).
LEMMA LengthIsLimited ==
  ASSUME NEW t \in Declared, NEW base \in Lengths, NEW default \in Nat, NEW most,
         OneParam(t, base, default, 1, most) # Unsupported
  PROVE  OneParam(t, base, default, 1, most) \in Limited
<1> DEFINE n == Param(t, 1, default)
<1>1. n \in Nat
  BY DEF Param, Declared
<1>2. OneParam(t, base, default, 1, most) = Type(base, <<n>>) /\ 1 <= n
  BY DEF OneParam
<1> HIDE DEF n
<1>3. <<n>> \in Seq(Nat) /\ Len(<<n>>) = 1 /\ <<n>>[1] = n
  BY <1>1
<1> DEFINE c == Type(base, <<n>>)
<1>4. c.base = base /\ c.params = <<n>> /\ base # "NUMBER"
  BY DEF Type, Lengths
<1>5. c \in [base : Lengths \cup {"NUMBER"}, params : Seq(Nat)]
  BY <1>3 DEF Type
<1> HIDE DEF c
<1>6. c \in Limited
  BY <1>2, <1>3, <1>4, <1>5 DEF Limited
<1> QED
  BY <1>2, <1>6 DEF c

\* Within a family, widening means that something more fits and nothing less.
LEMMA WideningOfLimited ==
  ASSUME NEW old \in Limited, NEW new \in Limited, old.base = new.base, old # new
  PROVE  Widens(old, new) <=> KeepsValues(old, new)
<1>1. CASE old.base = "NUMBER"
  <2> DEFINE p == old.params[1]
             s == old.params[2]
             q == new.params[1]
             r == new.params[2]
  <2>1. /\ p \in Nat /\ s \in Nat /\ q \in Nat /\ r \in Nat
        /\ s <= p /\ r <= q
    <3>1. /\ old.params \in Seq(Nat) /\ Len(old.params) = 2
          /\ new.params \in Seq(Nat) /\ Len(new.params) = 2
          /\ s <= p /\ r <= q
      BY <1>1 DEF Limited
    <3> QED
      BY <3>1
  <2>2. Widens(old, new) <=> r >= s /\ q - r >= p - s
    BY <1>1 DEF Widens
  <2>3. KeepsValues(old, new) <=>
          \A whole, fraction \in Nat :
            whole <= p - s /\ fraction <= s => whole <= q - r /\ fraction <= r
    BY <1>1 DEF KeepsValues, Stores
  <2> HIDE DEF p, s, q, r
  <2>4. ASSUME \A whole, fraction \in Nat :
                 whole <= p - s /\ fraction <= s => whole <= q - r /\ fraction <= r
        PROVE  r >= s /\ q - r >= p - s
    <3>1. p - s \in Nat
      BY <2>1
    <3>2. p - s <= q - r /\ s <= r
      BY <2>1, <2>4, <3>1
    <3> QED
      BY <2>1, <3>2
  <2> QED
    BY <2>1, <2>2, <2>3, <2>4
<1>2. CASE old.base \in Lengths
  <2> DEFINE n == old.params[1]
             k == new.params[1]
  <2>1. n \in Nat /\ k \in Nat /\ n # k
    <3>1. Len(old.params) = 1 /\ Len(new.params) = 1
          /\ old.params \in Seq(Nat) /\ new.params \in Seq(Nat)
      BY <1>2 DEF Limited, Lengths
    <3>2. ASSUME old.params[1] = new.params[1] PROVE old.params = new.params
      BY <3>1, <3>2
    <3>3. old.params # new.params
      BY DEF Limited
    <3> QED
      BY <3>1, <3>2, <3>3
  <2>2. Widens(old, new) <=> k > n
    BY <1>2 DEF Widens, Lengths
  <2>3. KeepsValues(old, new) <=> \A whole, fraction \in Nat : whole <= n => whole <= k
    BY <1>2 DEF KeepsValues, Stores, Lengths
  <2> HIDE DEF n, k
  <2>4. (\A whole, fraction \in Nat : whole <= n => whole <= k) <=> k > n
    BY <2>1
  <2> QED
    BY <2>2, <2>3, <2>4
<1> QED
  BY <1>1, <1>2 DEF Limited

\* The canonical form of a type that limits what fits has its parameters in
\* order.
LEMMA CanonicalIsLimited ==
  ASSUME NEW t \in Declared, Supported(t),
         Canonical(t).base \in Lengths \cup {"NUMBER"}
  PROVE  Canonical(t) \in Limited
<1>1. CASE t.name \in IntegerTypes
  <2>1. Canonical(t) = Type("NUMBER", <<38, 0>>)
    BY <1>1 DEF Supported, Canonical, IntegerTypes, NumberTypes, FloatTypes, CharTypes,
                VarcharTypes, BinaryTypes, TimestampTypes, ParameterlessTypes
  <2> QED
    BY <2>1 DEF Type, Limited
<1>2. CASE t.name \in NumberTypes
  <2>1. Canonical(t) = Number(t)
    BY <1>2 DEF Canonical, IntegerTypes, NumberTypes, FloatTypes, CharTypes,
                VarcharTypes, BinaryTypes, TimestampTypes, ParameterlessTypes
  <2> QED
    BY <2>1, NumberIsLimited DEF Supported
<1>3. CASE t.name \in CharTypes
  <2>1. Canonical(t) = OneParam(t, "VARCHAR", 1, 1, VarcharMaxLength)
    BY <1>3 DEF Canonical, IntegerTypes, NumberTypes, FloatTypes, CharTypes,
                VarcharTypes, BinaryTypes, TimestampTypes, ParameterlessTypes
  <2> QED
    BY <2>1, LengthIsLimited DEF Supported, Lengths
<1>4. CASE t.name \in VarcharTypes
  <2>1. Canonical(t) = OneParam(t, "VARCHAR", VarcharDefaultLength, 1, VarcharMaxLength)
    BY <1>4 DEF Canonical, IntegerTypes, NumberTypes, FloatTypes, CharTypes,
                VarcharTypes, BinaryTypes, TimestampTypes, ParameterlessTypes
  <2>2. VarcharDefaultLength \in Nat
    BY DEF VarcharDefaultLength
  <2> QED
    BY <2>1, <2>2, LengthIsLimited DEF Supported, Lengths
<1>5. CASE t.name \in BinaryTypes
  <2>1. Canonical(t) = OneParam(t, "BINARY", BinaryDefaultLength, 1, BinaryMaxLength)
    BY <1>5 DEF Canonical, IntegerTypes, NumberTypes, FloatTypes, CharTypes,
                VarcharTypes, BinaryTypes, TimestampTypes, ParameterlessTypes
  <2>2. BinaryDefaultLength \in Nat
    BY DEF BinaryDefaultLength
  <2> QED
    BY <2>1, <2>2, LengthIsLimited DEF Supported, Lengths
<1>6. CASE t.name \in FloatTypes \cup TimestampTypes \cup ParameterlessTypes
  <2>1. \/ Canonical(t) = NoParam(t, "FLOAT")
        \/ Canonical(t) = OneParam(t, IF t.name = "DATETIME" THEN "TIMESTAMP_NTZ"
                                      ELSE t.name, 9, 0, 9) /\ t.name \in TimestampTypes
        \/ Canonical(t) = NoParam(t, t.name) /\ t.name \in ParameterlessTypes
    BY <1>6 DEF Canonical, IntegerTypes, NumberTypes, FloatTypes, CharTypes,
                VarcharTypes, BinaryTypes, TimestampTypes, ParameterlessTypes
  <2>2. Canonical(t).base \notin Lengths \cup {"NUMBER"}
    BY <2>1 DEF NoParam, OneParam, Type, Unsupported, Lengths, TimestampTypes,
                ParameterlessTypes
  <2> QED
    BY <2>2
<1>7. CASE t.name \notin IntegerTypes \cup NumberTypes \cup FloatTypes \cup CharTypes
             \cup VarcharTypes \cup BinaryTypes \cup TimestampTypes \cup ParameterlessTypes
  BY <1>7 DEF Supported, Canonical
<1> QED
  BY <1>1, <1>2, <1>3, <1>4, <1>5, <1>6, <1>7

\* type_change_kind(): a change is called widening only if every value of the
\* old type fits the new one, and a change within strings, binaries or numbers
\* is called incompatible only if one does not.
THEOREM WideningLosesNothing ==
  ASSUME NEW t \in Declared, NEW u \in Declared, Supported(t), Supported(u)
  PROVE  /\ TypeChangeKind(Canonical(t), Canonical(u)) = "widening" =>
              /\ Canonical(t).base = Canonical(u).base
              /\ KeepsValues(Canonical(t), Canonical(u))
         /\ /\ TypeChangeKind(Canonical(t), Canonical(u)) = "incompatible"
            /\ Canonical(t).base = Canonical(u).base
            /\ Canonical(t).base \in Lengths \cup {"NUMBER"}
            => ~ KeepsValues(Canonical(t), Canonical(u))
<1> DEFINE old == Canonical(t)
           new == Canonical(u)
<1>1. old.base \in Lengths \cup {"NUMBER"} => old \in Limited
  BY CanonicalIsLimited
<1>2. new.base \in Lengths \cup {"NUMBER"} => new \in Limited
  BY CanonicalIsLimited
<1> HIDE DEF old, new
<1>3. Widens(old, new) => old.base = new.base /\ old.base \in Lengths \cup {"NUMBER"}
  BY DEF Widens, Lengths
<1>4. /\ TypeChangeKind(old, new) = "widening" <=> old # new /\ Widens(old, new)
      /\ TypeChangeKind(old, new) = "incompatible" <=> old # new /\ ~ Widens(old, new)
  BY DEF TypeChangeKind
<1>5. old.base = new.base /\ old.base \in Lengths \cup {"NUMBER"} /\ old # new =>
        (Widens(old, new) <=> KeepsValues(old, new))
  BY <1>1, <1>2, WideningOfLimited
<1> QED
  BY <1>3, <1>4, <1>5 DEF old, new

-----------------------------------------------------------------------------
(* What is decided: the gates of Decision.                                 *)

CONSTANTS Requests, Edits, Bindings, MaxAge, MaxTime, Reserved, Phrased
VARIABLES
  stage, change, context, risk, impacts, bundle, edited, verified, evidence,
  settings, binding, now, approved

\* Decision has the same None, and constants and variables of its own.
D == INSTANCE Decision

\* What the gates have found so far.
GatesInv ==
  /\ now \in Nat
  /\ stage \in {"decided", "approved"} =>
       verified /\ evidence # None /\ settings \in D!Setting
  /\ evidence # None => /\ evidence.status \in {"passed", "blocked", "not_run"}
                        /\ evidence.completed \in Nat
  /\ verified => /\ stage \in {"verified", "decided", "blocked", "approved"}
                 /\ D!Verified(bundle, change, context)
  /\ stage = "failed" =>
       ~ (D!CanScore(change, context) /\ D!CanGenerate(change, context))
  /\ stage # "new" => D!WellFormedChange(change)
  /\ D!ApprovedIsReviewed

\* The assumptions about the constants of Decision, which its run evaluates.
GatesAssumed ==
  /\ \A r \in Requests : D!WellFormedChange(r[1])
  /\ MaxAge \in Nat /\ MaxTime \in Nat

\* Evidence is new when it comes, and says one of three things.
LEMMA EvidenceGiven ==
  ASSUME now \in Nat, NEW e,
         e \in D!Validated \/ e = D!Evidence("not_run", TRUE, now, FALSE)
  PROVE  e.status \in {"passed", "blocked", "not_run"} /\ e.completed = now
  BY DEF D!Validated, D!Evidence

\* No blocker, no objection.
LEMMA NothingBlocks ==
  ASSUME NEW required, D!Blockers(required) = {}
  PROVE  /\ verified
         /\ context.target = change.target /\ context.field = change.field
         /\ required.live => context.mode = "live"
         /\ required.warehouse => evidence.status # "not_run"
         /\ evidence.status # "blocked" /\ evidence.about
         /\ evidence.status = "passed" =>
              evidence.binding = binding /\ D!Current(evidence.completed)
<1>1. verified
  <2>1. [code |-> "VERIFICATION_FAILED", retryable |-> FALSE]
          \notin D!Blockers(required)
    OBVIOUS
  <2> QED BY <2>1 DEF D!Blockers, D!Blocker
<1>2. context.target = change.target /\ context.field = change.field
  <2>1. [code |-> "CONTEXT_IDENTITY_MISMATCH", retryable |-> FALSE]
          \notin D!Blockers(required)
    OBVIOUS
  <2> QED BY <2>1 DEF D!Blockers, D!Blocker
<1>3. required.live => context.mode = "live"
  <2>1. [code |-> "LIVE_EVIDENCE_REQUIRED", retryable |-> TRUE]
          \notin D!Blockers(required)
    OBVIOUS
  <2> QED BY <2>1 DEF D!Blockers, D!Blocker
<1>4. required.warehouse => evidence.status # "not_run"
  <2>1. [code |-> "WAREHOUSE_EVIDENCE_REQUIRED", retryable |-> TRUE]
          \notin D!Blockers(required)
    OBVIOUS
  <2> QED BY <2>1 DEF D!Blockers, D!Blocker
<1>5. evidence.status # "blocked"
  <2>1. [code |-> "WAREHOUSE_VALIDATION_FAILED", retryable |-> evidence.retryable]
          \notin D!Blockers(required)
    OBVIOUS
  <2> QED BY <2>1 DEF D!Blockers, D!Blocker
<1>6. evidence.about
  <2>1. [code |-> "WAREHOUSE_EVIDENCE_MISMATCH", retryable |-> FALSE]
          \notin D!Blockers(required)
    OBVIOUS
  <2> QED BY <2>1 DEF D!Blockers, D!Blocker
<1>7. evidence.status = "passed" => evidence.binding = binding
  <2>1. [code |-> "WAREHOUSE_CONFIGURATION_CHANGED", retryable |-> TRUE]
          \notin D!Blockers(required)
    OBVIOUS
  <2> QED BY <2>1 DEF D!Blockers, D!Blocker
<1>8. evidence.status = "passed" => D!Current(evidence.completed)
  <2>1. [code |-> "WAREHOUSE_EVIDENCE_STALE", retryable |-> TRUE]
          \notin D!Blockers(required)
    OBVIOUS
  <2> QED BY <2>1 DEF D!Blockers, D!Blocker
<1> QED BY <1>1, <1>2, <1>3, <1>4, <1>5, <1>6, <1>7, <1>8

\* One step of the gates.
LEMMA GatesStep == GatesAssumed /\ GatesInv /\ [D!Next]_(D!vars) => GatesInv'
<1> SUFFICES ASSUME GatesAssumed, GatesInv, [D!Next]_(D!vars) PROVE GatesInv'
  OBVIOUS
<1> USE DEF D!given, D!world, D!answers
<1>1. CASE D!Load
  <2>1. /\ stage = "new" /\ stage' = "loaded" /\ ~verified
        /\ UNCHANGED <<now, verified, evidence>>
    BY <1>1 DEF D!Load, GatesInv
  <2>2. D!WellFormedChange(change)'
    BY <1>1 DEF D!Load, GatesAssumed, D!WellFormedChange
  <2> QED BY <2>1, <2>2 DEF GatesInv, D!ApprovedIsReviewed
<1>2. CASE D!ScoreRisk
  <2>1. /\ stage = "loaded" /\ stage' \in {"scored", "failed"} /\ ~verified
        /\ UNCHANGED <<change, context, now, verified, evidence>>
    BY <1>2 DEF D!ScoreRisk, GatesInv
  <2>2. stage' = "failed" => ~ D!CanScore(change, context)
    BY <1>2 DEF D!ScoreRisk
  <2> QED BY <2>1, <2>2
          DEF GatesInv, D!ApprovedIsReviewed, D!WellFormedChange, D!CanScore,
              D!CanGenerate
<1>3. CASE D!GenerateBundle
  <2>1. /\ stage = "scored" /\ stage' \in {"generated", "failed"} /\ ~verified
        /\ UNCHANGED <<change, context, now, verified, evidence>>
    BY <1>3 DEF D!GenerateBundle, GatesInv
  <2>2. stage' = "failed" => ~ D!CanGenerate(change, context)
    BY <1>3 DEF D!GenerateBundle
  <2> QED BY <2>1, <2>2 DEF GatesInv, D!ApprovedIsReviewed
<1>4. CASE D!VerifyBundle
  <2>1. /\ stage = "generated" /\ stage' = "verified"
        /\ verified' = D!Verified(bundle, change, context)
        /\ UNCHANGED <<change, context, bundle, now, evidence>>
    BY <1>4 DEF D!VerifyBundle
  <2> QED BY <2>1 DEF GatesInv, D!ApprovedIsReviewed
<1>5. CASE D!AskWarehouse
  <2>1. /\ stage = "verified" /\ evidence = None
        /\ UNCHANGED <<stage, change, context, bundle, verified, now>>
        /\ \/ evidence' \in D!Validated
           \/ evidence' = D!Evidence("not_run", TRUE, now, FALSE)
    BY <1>5 DEF D!AskWarehouse
  <2>2. /\ evidence'.status \in {"passed", "blocked", "not_run"}
        /\ evidence'.completed = now
    BY <2>1, EvidenceGiven DEF GatesInv
  <2> QED BY <2>1, <2>2 DEF GatesInv, D!ApprovedIsReviewed
<1>6. CASE D!Decide
  <2>1. PICK required \in D!Setting :
          IF D!Blockers(required) = {}
          THEN stage' = "decided" /\ settings' = required
          ELSE stage' = "blocked" /\ UNCHANGED settings
    BY <1>6 DEF D!Decide
  <2>2. /\ stage = "verified" /\ evidence # None
        /\ UNCHANGED <<change, context, bundle, verified, evidence, now>>
    BY <1>6 DEF D!Decide
  <2>3. stage' = "decided" => verified
    BY <2>1, NothingBlocks
  <2> QED BY <2>1, <2>2, <2>3 DEF GatesInv, D!ApprovedIsReviewed, D!Setting
<1>7. CASE D!Approve
  <2>1. /\ stage = "decided" /\ stage' = "approved"
        /\ approved' = [at |-> now, binding |-> binding]
        /\ UNCHANGED <<change, context, bundle, verified, evidence, settings,
                       now>>
        /\ D!Blockers(settings) = {}
    BY <1>7 DEF D!Approve
  <2>2. /\ verified
        /\ context.target = change.target /\ context.field = change.field
        /\ settings.live => context.mode = "live"
        /\ settings.warehouse => evidence.status # "not_run"
        /\ evidence.status # "blocked" /\ evidence.about
        /\ evidence.status = "passed" =>
             evidence.binding = binding /\ D!Current(evidence.completed)
    BY <2>1, NothingBlocks
  <2>3. /\ evidence.status \in {"passed", "blocked", "not_run"}
        /\ evidence.completed \in Nat /\ now \in Nat /\ MaxAge \in Nat
    BY <2>1 DEF GatesInv, GatesAssumed
  <2>4. evidence.status = "passed" => evidence.completed \in (now - MaxAge)..now
    BY <2>2, <2>3 DEF D!Current
  <2>5. bundle = D!Generate(change, context)
    BY <2>2 DEF GatesInv, D!Verified, D!Checks, D!ManifestValid
  <2>6. D!ApprovedIsReviewed'
    BY <2>1, <2>2, <2>3, <2>4, <2>5 DEF D!ApprovedIsReviewed
  <2> QED BY <2>1, <2>6 DEF GatesInv
<1>8. CASE D!Tick
  <2>1. /\ stage \in {"verified", "decided"} /\ now' \in Nat
        /\ UNCHANGED <<stage, change, context, bundle, verified, evidence,
                       settings>>
    BY <1>8 DEF D!Tick, GatesAssumed
  <2> QED BY <2>1 DEF GatesInv, D!ApprovedIsReviewed
<1>9. CASE D!Reconfigure
  <2>1. /\ stage = "decided" /\ settings' \in D!Setting
        /\ UNCHANGED <<stage, change, context, bundle, verified, evidence, now>>
    BY <1>9 DEF D!Reconfigure
  <2> QED BY <2>1 DEF GatesInv, D!ApprovedIsReviewed, D!Setting
<1>10. CASE UNCHANGED D!vars
  BY <1>10 DEF D!vars, GatesInv, D!ApprovedIsReviewed, D!Setting,
               D!WellFormedChange
<1> QED BY <1>1, <1>2, <1>3, <1>4, <1>5, <1>6, <1>7, <1>8, <1>9, <1>10
        DEF D!Next

\* Nothing has been asked or found yet.
LEMMA GatesInit == D!Init => GatesInv
  BY DEF D!Init, GatesInv, D!ApprovedIsReviewed

\* What is approved is the generator's own bundle about the requested asset and
\* field, with no objection of the policy at that moment: whatever was edited,
\* configured or set back in between (ApprovedIsReviewed).
THEOREM ApprovalsAreReviewed ==
  GatesAssumed => (D!Spec => []D!ApprovedIsReviewed)
<1> SUFFICES ASSUME GatesAssumed PROVE D!Spec => []D!ApprovedIsReviewed
  OBVIOUS
<1>1. GatesInv => D!ApprovedIsReviewed
  BY DEF GatesInv
<1>2. GatesInv /\ [D!Next]_(D!vars) => GatesInv'
  BY GatesStep
<1> QED BY <1>1, <1>2, GatesInit, PTL DEF D!Spec

\* Scoring and generation refuse nothing that verification would let through,
\* unless the schema spells the field in another case; and what verification lets
\* through has a warehouse plan, if TRY_CAST knows its types.
THEOREM GatesAreConsistent ==
  GatesAssumed => (D!Spec => [](D!RefusalsAgree /\ D!PlansExist))
<1> SUFFICES ASSUME GatesAssumed
             PROVE  D!Spec => [](D!RefusalsAgree /\ D!PlansExist)
  OBVIOUS
<1>1. GatesInv => D!RefusalsAgree
  <2> SUFFICES ASSUME GatesInv, stage = "failed", D!Aligned(change, context),
                      NEW i \in DOMAIN context.schema,
                      context.schema[i].name = change.field
               PROVE  FALSE
    BY DEF D!RefusalsAgree
  <2>1. D!CanScore(change, context)
    BY DEF D!CanScore, D!Aligned, D!TypeChangeFits, D!SameType, D!Supported
  <2>2. D!CanGenerate(change, context)
    BY DEF D!CanGenerate, D!Aligned, D!NameFree
  <2> QED BY <2>1, <2>2 DEF GatesInv
<1>2. GatesInv => D!PlansExist
  <2> SUFFICES ASSUME GatesInv, verified PROVE D!PlanFits
    BY DEF D!PlansExist, D!CanPlan
  <2>1. D!Aligned(change, context) /\ D!WellFormedChange(change)
    BY DEF GatesInv, D!Verified, D!Checks
  <2>2. change.operation = "rename" =>
          D!Preferred(change) = change.newField /\ change.newField # None
    BY <2>1 DEF D!Preferred, D!WellFormedChange
  <2> QED BY <2>1, <2>2
          DEF D!PlanFits, D!Aligned, D!SameName, D!TypeChangeFits
<1>3. GatesInv /\ [D!Next]_(D!vars) => GatesInv'
  BY GatesStep
<1> QED BY <1>1, <1>2, <1>3, GatesInit, PTL DEF D!Spec
=============================================================================
