---------------------------- MODULE LifecycleProofs ----------------------------
(***************************************************************************)
(* The safety of Lifecycle, for any runs, keys, callers and settings.      *)
(*                                                                         *)
(* The argument follows the row of a run.  Only the decision of its task   *)
(* puts a run before its owner, and only with an analysis that justifies   *)
(* what may follow (RunsAreJustified).  An approval that has begun to work *)
(* has moved the row into states that no transition leads out of           *)
(* (Begun), before its first effect: from then on the task of the run,     *)
(* however late, cannot fail it.  What is in GitHub, in DataHub and in the *)
(* row follows from that (EffectsAreBegun).                                *)
(***************************************************************************)
EXTENDS Lifecycle, TLAPS

-----------------------------------------------------------------------------
(* The invariant.                                                          *)

\* What the owner of a run may rely on, and the effects of its approval with it.
Justifies(a) ==
  /\ a # None
  /\ a.blockers = {} /\ a.finding.matches /\ a.finding.verified
  /\ LiveKeys # {} /\ a.under.warehouse => a.finding.warehouse = "passed"

TypeInv ==
  /\ runs \in [Runs -> Row \cup {None}]
  /\ tasks \in [Runs -> A!Task \cup {None}]
  /\ settings \in AnalysisConfigs
  /\ ledger \in [Keys -> P!Entry \cup {None}]
  /\ sinks \in PublicationConfigs
  /\ ops \in [Clients -> P!Op \cup {None}]
  /\ opened \in [P!Sites -> Nat]

\* Besides a begun approval, what leaves an error in the row.
Erring == {"failed", "context_fallback_required"}

\* Before an approval begins, a row has what the analysis has put there.
RunsAreJustified ==
  \A r \in Runs : runs[r] # None =>
    /\ runs[r].state \in P!Approvable => Justifies(runs[r].analysis)
    /\ runs[r].state \notin Working =>
         runs[r].publication = None /\ runs[r].error \in A!ErrorCode \cup {None}
    /\ runs[r].state \notin Working \cup Erring => runs[r].error = None

\* A run that waits for its user has no task.
Offered(r) == runs[r] # None /\ runs[r].state = "context_fallback_required"

\* A task has found something from "score" on; where live evidence is all there
\* is, that is what it found, and a decision has heard the warehouse.
TaskIsSound(t) ==
  /\ t.pc \in {"score", "generate", "validate", "warehouse", "query", "decide"}
       => t.finding # None
  /\ LiveKeys # {} =>
       /\ t.port = "live"
       /\ t.finding # None => t.finding.context = "live"
       /\ t.pc = "decide" /\ t.finding.verified /\ settings.warehouse
            => t.finding.warehouse # "not_run"

TasksAreSound ==
  \A r \in Runs : tasks[r] # None =>
    runs[r] # None /\ ~Offered(r) /\ TaskIsSound(tasks[r])

\* An entry that is completed has its receipt; one with a destination is live.
EntryIsSound(e) ==
  /\ e.completed => e.receipt # None
  /\ e.repo # None \/ e.server # None => LiveKeys # {}

LedgerIsSound == \A k \in Keys : ledger[k] # None => EntryIsSound(ledger[k])

\* An approval works on the entry of its run's key, as its owner unless it only
\* reuses the receipt; it has begun before it calls anything.
OpIsSound(op) ==
  /\ runs[op.run] # None
  /\ ledger[KeyOf[op.run]] # None
  /\ op.entry.owner = ledger[KeyOf[op.run]].owner
  /\ EntryIsSound(op.entry)
  /\ op.stage \notin {"reuse", "finish_reuse"} => op.entry.owner = op.run
  /\ op.stage \in {"reuse", "finish_reuse", "complete"} => op.entry.completed
  /\ op.stage \notin {"reuse", "prepare", "publish"} => Begun(op.run)
  /\ op.seen \in Working => Begun(op.run)
  /\ op.stage \in {"branch", "save_branch", "pull"} =>
       sinks.github /\ LiveKeys # {}
  /\ op.stage \in {"writeback", "save_progress"} =>
       sinks.datahub /\ LiveKeys # {}

OpsAreSound == \A c \in Clients : ops[c] # None => OpIsSound(ops[c])

\* Whatever is in GitHub or in DataHub was put there by a run that has begun.
EffectsAreBegun ==
  /\ \A s \in P!Sites : s \in branches \/ opened[s] > 0 =>
       Begun(s[1]) /\ LiveKeys # {}
  /\ \A a \in applied :
       /\ a[1] \in Keys /\ ledger[a[1]] # None
       /\ ledger[a[1]].owner \in Runs /\ Begun(ledger[a[1]].owner)
       /\ LiveKeys # {}

IInv ==
  /\ TypeInv
  /\ RunsAreJustified /\ TasksAreSound
  /\ LedgerIsSound /\ OpsAreSound /\ EffectsAreBegun

-----------------------------------------------------------------------------
(* Rows: what a transition does to one, whoever makes it.                  *)

\* transition(), as either component uses it.
Moves(r, to, given) ==
  /\ to \in AllowedTransitions[runs[r].state]
  /\ runs' = [runs EXCEPT ![r] = Moved(runs[r], to, given)]

GivenOK(given) ==
  /\ given.analysis \in A!Analysed \cup {None}
  /\ given.publication \in P!Receipt \cup {None}
  /\ given.error \in A!ErrorCode \cup {"retryable", "operator", None}

\* A run stays created, and an approval that has begun stays so.
Persist ==
  \A q \in Runs : /\ runs[q] # None => runs'[q] # None
                  /\ Begun(q) => Begun(q)'

\* An approval offers no run a snapshot.
Advance == Persist /\ \A q \in Runs : ~Offered(q) => ~Offered(q)'

\* The two components share one state machine.
LEMMA SameMoves ==
  ASSUME NEW r, NEW to, NEW given
  PROVE  /\ A!MoveRun(r, to, given) <=> Moves(r, to, given)
         /\ P!MoveRun(r, to, given) <=> Moves(r, to, given)
         /\ A!MayMove(runs[r], to) <=> to \in AllowedTransitions[runs[r].state]
<1>1. /\ A!AllowedTransitions = AllowedTransitions
      /\ P!AllowedTransitions = AllowedTransitions
  BY DEF AllowedTransitions, A!AllowedTransitions, P!AllowedTransitions,
         RunState, A!RunState, P!RunState
<1>2. /\ A!Moved(runs[r], to, given) = Moved(runs[r], to, given)
      /\ P!Moved(runs[r], to, given) = Moved(runs[r], to, given)
  BY DEF Moved, A!Moved, P!Moved
<1> QED BY <1>1, <1>2
        DEF Moves, A!MoveRun, P!MoveRun, A!MayMove, P!MayMove

\* Where the state machine leads: not out of the states of a begun approval, and
\* into them only from a run that may be approved.
LEMMA WhereItLeads ==
  ASSUME NEW from \in RunState, NEW to \in AllowedTransitions[from]
  PROVE  /\ to \in RunState
         /\ from \in Working => to \in Working
         /\ to \in Working => from \in P!Approvable
  BY DEF AllowedTransitions, RunState, Working, P!Approvable

\* A transition keeps the rows in order if it puts the run before its owner only
\* with an analysis that justifies it, and gives a receipt only to a run whose
\* approval has begun.
LEMMA MoveKeeps ==
  ASSUME TypeInv, RunsAreJustified, NEW r \in Runs, runs[r] # None,
         NEW to, NEW given, GivenOK(given), Moves(r, to, given),
         given.analysis # None => to \notin Working,
         to = "awaiting_approval" => Justifies(given.analysis),
         given.publication # None => to \in Working,
         given.error # None => to \in Working \cup Erring,
         given.error \in {"retryable", "operator"} => to \in Working,
         ~Offered(r)
  PROVE  /\ runs' \in [Runs -> Row \cup {None}]
         /\ RunsAreJustified' /\ Persist
         /\ to \in Working => Begun(r)'
         /\ to # "context_fallback_required" => ~Offered(r)'
         /\ \A q \in Runs \ {r} : ~Offered(q) => ~Offered(q)'
<1> DEFINE row == runs[r]
           new == Moved(row, to, given)
<1>1. row \in Row /\ row.state \in RunState
  BY DEF TypeInv, Row
<1>2. /\ to \in RunState
      /\ row.state \in Working => to \in Working
      /\ to \in Working => row.state \in P!Approvable
  BY <1>1, WhereItLeads DEF Moves
<1>3. /\ new \in Row /\ new.state = to
      /\ new.analysis = IF given.analysis # None THEN given.analysis
                        ELSE row.analysis
      /\ new.publication = IF given.publication # None THEN given.publication
                           ELSE row.publication
      /\ new.error = IF to = "completed" \/ given.clearError THEN None
                     ELSE IF given.error # None THEN given.error ELSE row.error
  BY <1>1, <1>2 DEF Moved, Row, GivenOK
<1>4. new # None
  BY <1>3, NoneAssumption
<1>5. runs' = [runs EXCEPT ![r] = new]
  BY DEF Moves
<1>6. /\ row.state \in P!Approvable => Justifies(row.analysis)
      /\ row.state \notin Working =>
           row.publication = None /\ row.error \in A!ErrorCode \cup {None}
      /\ row.state \notin Working \cup Erring => row.error = None
  BY DEF RunsAreJustified
<1> HIDE DEF row, new
<1>7. runs' \in [Runs -> Row \cup {None}] /\ runs'[r] = new
      /\ \A q \in Runs \ {r} : runs'[q] = runs[q]
  BY <1>3, <1>5 DEF TypeInv
<1>e. /\ to \notin Working => new.error \in A!ErrorCode \cup {None}
      /\ to \notin Working \cup Erring => new.error = None
  <2>1. given.error \notin {"retryable", "operator"} =>
          given.error \in A!ErrorCode \cup {None}
    BY DEF GivenOK
  <2>2. to \notin Working \cup Erring => row.state \notin Working \cup Erring
    <3>1. row.state # "context_fallback_required"
      BY DEF Offered, row
    <3>2. row.state # "failed"
      BY DEF Moves, AllowedTransitions, RunState, row
    <3> QED BY <1>2, <3>1, <3>2 DEF Erring
  <2> QED BY <1>2, <1>3, <1>6, <2>1, <2>2
<1>8. /\ to \in P!Approvable => Justifies(new.analysis)
      /\ to \notin Working => new.publication = None
  <2>1. to \in P!Approvable => to = "awaiting_approval" \/ to \in Working
    BY DEF P!Approvable, Working
  <2>2. CASE to = "awaiting_approval"
    <3>1. given.analysis # None /\ to \notin Working
      BY <2>2 DEF Justifies, Working
    <3> QED BY <1>2, <1>3, <1>6, <2>2, <3>1
  <2>3. CASE to # "awaiting_approval"
    BY <1>2, <1>3, <1>6, <2>1, <2>3
  <2> QED BY <2>2, <2>3
<1>9. RunsAreJustified'
  <2> SUFFICES ASSUME NEW q \in Runs, runs'[q] # None
               PROVE  /\ runs'[q].state \in P!Approvable
                           => Justifies(runs'[q].analysis)
                      /\ runs'[q].state \notin Working
                           => /\ runs'[q].publication = None
                              /\ runs'[q].error \in A!ErrorCode \cup {None}
                      /\ runs'[q].state \notin Working \cup Erring
                           => runs'[q].error = None
    BY DEF RunsAreJustified, Justifies, P!Approvable, A!ErrorCode
  <2>1. CASE q = r
    BY <1>3, <1>7, <1>8, <1>e, <2>1
  <2>2. CASE q # r
    BY <1>7, <2>2 DEF RunsAreJustified
  <2> QED BY <2>1, <2>2
<1>10. Persist
  <2> SUFFICES ASSUME NEW q \in Runs
               PROVE  /\ runs[q] # None => runs'[q] # None
                      /\ Begun(q) => Begun(q)'
    BY DEF Persist
  <2>1. CASE q = r
    BY <1>2, <1>3, <1>4, <1>7, <2>1 DEF Begun, row
  <2>2. CASE q # r
    BY <1>7, <2>2 DEF Begun
  <2> QED BY <2>1, <2>2
<1>11. /\ to # "context_fallback_required" => ~Offered(r)'
       /\ \A q \in Runs \ {r} : ~Offered(q) => ~Offered(q)'
  BY <1>3, <1>7 DEF Offered
<1> QED BY <1>3, <1>4, <1>7, <1>9, <1>10, <1>11 DEF Begun

\* Rows that are left alone are in order.
LEMMA NoMoveKeeps ==
  ASSUME TypeInv, RunsAreJustified, runs' = runs
  PROVE  /\ runs' \in [Runs -> Row \cup {None}]
         /\ RunsAreJustified' /\ Persist /\ Advance
  BY DEF TypeInv, RunsAreJustified, Persist, Advance, Begun, Offered, Justifies,
         P!Approvable, A!ErrorCode

-----------------------------------------------------------------------------
(* Steps of the orchestrator.                                              *)

\* What the orchestrator does leaves GitHub, DataHub and the ledger alone, and so
\* they stay in order while rows persist.
LEMMA PublicationKeeps ==
  ASSUME TypeInv, OpsAreSound, LedgerIsSound, EffectsAreBegun, Persist,
         UNCHANGED publication
  PROVE  OpsAreSound' /\ LedgerIsSound' /\ EffectsAreBegun'
<1>1. UNCHANGED <<ledger, sinks, ops, branches, opened, applied>>
  BY DEF publication
<1>2. OpsAreSound'
  <2> SUFFICES ASSUME NEW c \in Clients, ops[c] # None
               PROVE  OpIsSound(ops[c])'
    BY <1>1 DEF OpsAreSound
  <2>1. OpIsSound(ops[c]) /\ ops[c].run \in Runs
    BY DEF OpsAreSound, TypeInv, P!Op
  <2> QED BY <1>1, <2>1 DEF OpIsSound, Persist
<1>3. LedgerIsSound'
  BY <1>1 DEF LedgerIsSound
<1>4. EffectsAreBegun'
  <2>1. \A s \in P!Sites : s[1] \in Runs
    BY DEF P!Sites
  <2> QED BY <1>1, <2>1 DEF EffectsAreBegun, Persist
<1> QED BY <1>2, <1>3, <1>4

\* A step of one task keeps the invariant if it leaves the rows in order, and a
\* sound task or none.
LEMMA TaskKeeps ==
  ASSUME IInv, NEW r \in Runs,
         runs' \in [Runs -> Row \cup {None}], RunsAreJustified', Persist,
         NEW t \in A!Task \cup {None}, A!Becomes(r, t),
         t # None => runs'[r] # None /\ ~Offered(r)' /\ TaskIsSound(t),
         \A q \in Runs \ {r} : ~Offered(q) => ~Offered(q)',
         UNCHANGED <<settings, publication>>
  PROVE  IInv'
<1>1. OpsAreSound' /\ LedgerIsSound' /\ EffectsAreBegun'
  BY PublicationKeeps DEF IInv
<1>2. /\ tasks' \in [Runs -> A!Task \cup {None}] /\ tasks'[r] = t
      /\ \A q \in Runs \ {r} : tasks'[q] = tasks[q]
  BY DEF A!Becomes, IInv, TypeInv
<1>3. TypeInv'
  BY <1>2 DEF IInv, TypeInv, publication
<1>4. TasksAreSound'
  <2> SUFFICES ASSUME NEW q \in Runs, tasks'[q] # None
               PROVE  runs'[q] # None /\ ~Offered(q)' /\ TaskIsSound(tasks'[q])
    BY DEF TasksAreSound, TaskIsSound
  <2>1. CASE q = r
    BY <1>2, <2>1
  <2>2. CASE q # r
    BY <1>2, <2>2 DEF IInv, TasksAreSound, Persist
  <2> QED BY <2>1, <2>2
<1> QED BY <1>1, <1>3, <1>4 DEF IInv

\* What a task is, and what comes of sending it on.
LEMMA SentOn ==
  ASSUME IInv, NEW r \in Runs, tasks[r] # None,
         NEW pc \in {"load", "offer", "unavailable", "score", "generate",
                     "validate", "warehouse", "query", "decide", "abort"}
  PROVE  /\ tasks[r] \in A!Task /\ TaskIsSound(tasks[r])
         /\ runs[r] # None /\ ~Offered(r)
         /\ A!To(r, pc) \in A!Task /\ A!To(r, pc).pc = pc
         /\ A!To(r, pc).port = tasks[r].port
         /\ A!To(r, pc).finding = tasks[r].finding
<1>1. /\ tasks[r] \in A!Task /\ TaskIsSound(tasks[r])
      /\ runs[r] # None /\ ~Offered(r)
  BY DEF IInv, TypeInv, TasksAreSound
<1> QED BY <1>1 DEF A!To, A!Task

\* A task that goes on to anything but the decision stays sound, provided that it
\* has found something where it needs it.
LEMMA SoundOn ==
  ASSUME IInv, NEW r \in Runs, tasks[r] # None,
         NEW pc \in {"load", "offer", "unavailable", "score", "generate",
                     "validate", "warehouse", "query", "abort"},
         pc \in {"score", "generate", "validate", "warehouse", "query"} =>
           tasks[r].finding # None
  PROVE  /\ A!To(r, pc) \in A!Task /\ TaskIsSound(A!To(r, pc))
         /\ runs[r] # None
<1>1. /\ TaskIsSound(tasks[r]) /\ runs[r] # None
      /\ A!To(r, pc) \in A!Task /\ A!To(r, pc).pc = pc
      /\ A!To(r, pc).port = tasks[r].port
      /\ A!To(r, pc).finding = tasks[r].finding
  BY SentOn
<1> QED BY <1>1 DEF TaskIsSound

\* A transition of a task keeps the invariant, whatever comes of it.
LEMMA TransitKeeps ==
  ASSUME IInv, NEW r \in Runs, tasks[r] # None,
         NEW to, NEW given, NEW outcome, GivenOK(given),
         given.publication = None,
         given.analysis # None => to \notin Working,
         to = "awaiting_approval" => Justifies(given.analysis),
         given.error # None => to \in Erring,
         given.error \notin {"retryable", "operator"},
         NEW next \in A!Task \cup {None}, next # None => TaskIsSound(next),
         NEW raised \in A!Task \cup {None}, raised # None => TaskIsSound(raised),
         to = "context_fallback_required" => next = None /\ raised = None,
         A!Transit(r, to, given, outcome, next, raised),
         UNCHANGED <<settings, publication>>
  PROVE  IInv'
<1>1. runs[r] # None /\ ~Offered(r)
  BY DEF IInv, TasksAreSound
<1>2. /\ runs' \in [Runs -> Row \cup {None}]
      /\ RunsAreJustified' /\ Persist
      /\ to # "context_fallback_required" => ~Offered(r)'
      /\ \A q \in Runs \ {r} : ~Offered(q) => ~Offered(q)'
  <2>1. CASE outcome = "refused"
    BY <1>1, <2>1, NoMoveKeeps DEF IInv, A!Transit, A!Reported, Advance
  <2>2. CASE outcome # "refused"
    <3>1. Moves(r, to, given)
      BY <2>2, SameMoves DEF A!Transit, A!Reported
    <3> QED BY <1>1, <3>1, MoveKeeps DEF IInv
  <2> QED BY <2>1, <2>2
<1> DEFINE t == IF outcome = "done" THEN next ELSE raised
<1>3. /\ t \in A!Task \cup {None}
      /\ t # None => TaskIsSound(t) /\ to # "context_fallback_required"
  OBVIOUS
<1>4. A!Becomes(r, t)
  BY DEF A!Transit
<1>5. runs'[r] # None
  BY <1>1, <1>2 DEF Persist
<1> HIDE DEF t
<1> QED BY <1>2, <1>3, <1>4, <1>5, TaskKeeps

\* What transitions are given.
LEMMA Givens ==
  /\ GivenOK(A!Nothing) /\ A!Nothing.analysis = None
  /\ A!Nothing.publication = None /\ A!Nothing.error = None
  /\ None \notin {"retryable", "operator"}
  /\ \A code \in A!ErrorCode :
       /\ GivenOK(A!Failing(code)) /\ A!Failing(code).analysis = None
       /\ A!Failing(code).publication = None
       /\ A!Failing(code).error \notin {"retryable", "operator"}
  BY NoneAssumption DEF GivenOK, A!Nothing, A!Failing, A!ErrorCode

\* The first transition, and those that end a task with a failure or an offer.
LEMMA EndsKeep ==
  ASSUME IInv, NEW r \in Runs, NEW outcome, UNCHANGED publication,
         \/ A!Begin(r, outcome) \/ A!Offer(r, outcome)
         \/ A!Unavailable(r, outcome) \/ A!Abort(r, outcome)
  PROVE  IInv'
<1>1. settings' = settings /\ tasks[r] # None
  BY DEF A!Begin, A!Offer, A!Unavailable, A!Abort, A!At, A!system
<1>2. CASE A!Begin(r, outcome)
  <2>1. A!Transit(r, "loading_context", A!Nothing, outcome, A!To(r, "load"), None)
    BY <1>2 DEF A!Begin
  <2>2. A!To(r, "load") \in A!Task /\ TaskIsSound(A!To(r, "load"))
    BY <1>1, SoundOn
  <2> QED BY <1>1, <2>1, <2>2, Givens, TransitKeeps DEF Working
<1>3. ASSUME NEW to \in {"context_fallback_required", "failed"},
             NEW code \in A!ErrorCode,
             A!Transit(r, to, A!Failing(code), outcome, None, None)
      PROVE  IInv'
  BY <1>1, <1>3, Givens, TransitKeeps DEF Working, Erring
<1>4. CASE A!Offer(r, outcome)
  BY <1>3, <1>4 DEF A!Offer, A!ErrorCode
<1>5. CASE A!Unavailable(r, outcome)
  BY <1>3, <1>5 DEF A!Unavailable, A!ErrorCode
<1>6. CASE A!Abort(r, outcome)
  BY <1>3, <1>6 DEF A!Abort, A!ErrorCode
<1> QED BY <1>2, <1>4, <1>5, <1>6

\* The context: a finding of the kind that the port of the task returns.
LEMMA LoadKeeps ==
  ASSUME IInv, NEW r \in Runs, A!Load(r), UNCHANGED publication
  PROVE  IInv'
<1>1. /\ tasks[r] # None /\ UNCHANGED <<runs, settings>>
  BY DEF A!Load, A!At, A!system
<1>2. /\ runs' \in [Runs -> Row \cup {None}]
      /\ RunsAreJustified' /\ Persist
      /\ \A q \in Runs : ~Offered(q) => ~Offered(q)'
  BY <1>1, NoMoveKeeps DEF IInv, Advance
<1>3. /\ tasks[r] \in A!Task /\ TaskIsSound(tasks[r])
      /\ runs[r] # None /\ ~Offered(r)
  BY <1>1, SentOn
<1>k. ASSUME NEW t \in A!Task, A!Becomes(r, t), TaskIsSound(t)
      PROVE  IInv'
  BY <1>1, <1>2, <1>3, <1>k, TaskKeeps
<1>4. ASSUME NEW pc \in {"offer", "unavailable", "abort"},
             A!Becomes(r, A!To(r, pc))
      PROVE  IInv'
  BY <1>1, <1>4, <1>k, SoundOn
<1>5. ASSUME NEW matches \in BOOLEAN,
             A!Becomes(r, [A!To(r, "score") EXCEPT !.finding =
               [context |-> tasks[r].port, matches |-> matches,
                verified |-> FALSE, warehouse |-> "not_run"]])
      PROVE  IInv'
  <2> DEFINE f == [context |-> tasks[r].port, matches |-> matches,
                   verified |-> FALSE, warehouse |-> "not_run"]
             t == [A!To(r, "score") EXCEPT !.finding = f]
  <2>1. f \in A!Finding /\ f.context = tasks[r].port /\ ~f.verified
    BY <1>3 DEF A!Finding, A!Task
  <2>2. /\ A!To(r, "score") \in A!Task /\ A!To(r, "score").pc = "score"
        /\ A!To(r, "score").port = tasks[r].port
    BY <1>1, SentOn
  <2>3. f # None
    BY <2>1, NoneAssumption
  <2>4. A!Becomes(r, t)
    BY <1>5
  <2> HIDE DEF f
  <2>5. /\ t \in A!Task /\ t.pc = "score" /\ t.port = tasks[r].port
        /\ t.finding = f
    BY <2>1, <2>2 DEF A!Task
  <2> HIDE DEF t
  <2>6. TaskIsSound(t)
    BY <1>3, <2>1, <2>3, <2>5 DEF TaskIsSound
  <2> QED BY <1>k, <2>4, <2>5, <2>6
<1>6. A!Raised(r) = A!To(r, "abort")
  BY DEF A!Raised
<1> QED BY <1>4, <1>5, <1>6 DEF A!Load

\* Risk and generation.
LEMMA ScoreKeeps ==
  ASSUME IInv, NEW r \in Runs, NEW outcome, UNCHANGED publication,
         A!Score(r, outcome) \/ A!Generate(r, outcome)
  PROVE  IInv'
<1>1. /\ settings' = settings /\ tasks[r] # None
      /\ tasks[r].pc \in {"score", "generate"}
  BY DEF A!Score, A!Generate, A!At, A!system
<1>2. tasks[r].finding # None
  BY <1>1, SentOn DEF TaskIsSound
<1>3. \A pc \in {"generate", "validate", "abort"} :
        A!To(r, pc) \in A!Task /\ TaskIsSound(A!To(r, pc))
  BY <1>1, <1>2, SoundOn
<1>4. ASSUME NEW to \in {"scoring_risk", "generating"},
             NEW pc \in {"generate", "validate", "abort"},
             A!Transit(r, to, A!Nothing, outcome, A!To(r, pc), A!To(r, "abort"))
      PROVE  IInv'
  BY <1>1, <1>3, <1>4, Givens, TransitKeeps DEF Working
<1>5. A!Raised(r) = A!To(r, "abort")
  BY DEF A!Raised
<1> QED BY <1>4, <1>5 DEF A!Score, A!Generate

\* Verification: where it goes to the decision at once, no warehouse is to be
\* asked.
LEMMA ValidateKeeps ==
  ASSUME IInv, NEW r \in Runs, NEW outcome, UNCHANGED publication,
         A!Validate(r, outcome)
  PROVE  IInv'
<1> DEFINE after(v) ==
      IF v /\ settings.warehouse /\ tasks[r].finding.context = "live"
      THEN "warehouse" ELSE "decide"
<1>1. /\ settings' = settings /\ tasks[r] # None /\ tasks[r].pc = "validate"
  BY DEF A!Validate, A!At, A!system
<1>2. /\ tasks[r] \in A!Task /\ TaskIsSound(tasks[r])
      /\ tasks[r].finding # None
  BY <1>1, SentOn DEF TaskIsSound
<1>3. A!To(r, "abort") \in A!Task /\ TaskIsSound(A!To(r, "abort"))
  BY <1>1, SoundOn
<1>k. ASSUME NEW t \in A!Task, TaskIsSound(t),
             A!Transit(r, "validating", A!Nothing, outcome, t, A!To(r, "abort"))
      PROVE  IInv'
  BY <1>1, <1>3, <1>k, Givens, TransitKeeps DEF Working
<1>4. ASSUME NEW v \in BOOLEAN
      PROVE  LET t == [A!To(r, after(v)) EXCEPT !.finding.verified = v]
             IN  t \in A!Task /\ TaskIsSound(t)
  <2> DEFINE pc == after(v)
             u  == A!To(r, pc)
             t  == [u EXCEPT !.finding.verified = v]
  <2>1. pc \in {"warehouse", "decide"}
    OBVIOUS
  <2>2. /\ u \in A!Task /\ u.pc = pc /\ u.port = tasks[r].port
        /\ u.finding = tasks[r].finding
    BY <1>1, <2>1, SentOn
  <2>3. u.finding \in A!Finding
    BY <1>2, <2>2 DEF A!Task
  <2>4. /\ pc = "decide" /\ v /\ settings.warehouse =>
             tasks[r].finding.context # "live"
    OBVIOUS
  <2>5. LiveKeys # {} => u.port = "live" /\ u.finding.context = "live"
    BY <1>2, <2>2 DEF TaskIsSound
  <2> HIDE DEF u, pc
  <2> DEFINE f == [u.finding EXCEPT !.verified = v]
  <2>6. f \in A!Finding /\ f.verified = v /\ f.context = u.finding.context
    BY <2>3 DEF A!Finding
  <2>7. f # None
    BY <2>6, NoneAssumption
  <2>8. t = [u EXCEPT !.finding = f]
    BY <2>2 DEF A!Task
  <2> HIDE DEF f
  <2>9. t \in A!Task /\ t.finding = f /\ t.pc = pc /\ t.port = u.port
    BY <2>2, <2>6, <2>8 DEF A!Task
  <2>10. TaskIsSound(t)
    BY <2>2, <2>4, <2>5, <2>6, <2>7, <2>9 DEF TaskIsSound
  <2> QED BY <2>9, <2>10 DEF u, pc
<1>5. PICK v \in BOOLEAN :
        \E next \in {[A!To(r, after(v)) EXCEPT !.finding.verified = v],
                     A!Raised(r)} :
          A!Transit(r, "validating", A!Nothing, outcome, next, A!Raised(r))
  BY DEF A!Validate
<1>6. A!Raised(r) = A!To(r, "abort")
  BY DEF A!Raised
<1> HIDE DEF after
<1> QED BY <1>3, <1>4, <1>5, <1>6, <1>k

\* The warehouse: however its validation ends, it counts as more than none.
LEMMA QueryKeeps ==
  ASSUME IInv, NEW r \in Runs, UNCHANGED publication,
         \/ \E outcome \in A!Outcomes : A!StartQuery(r, outcome)
         \/ A!QueryReturns(r) \/ A!QueryTimesOut(r)
  PROVE  IInv'
<1>1. /\ settings' = settings /\ tasks[r] # None
      /\ tasks[r].pc \in {"warehouse", "query"}
  BY DEF A!StartQuery, A!QueryReturns, A!QueryTimesOut, A!At, A!system
<1>2. /\ tasks[r] \in A!Task /\ TaskIsSound(tasks[r])
      /\ runs[r] # None /\ ~Offered(r) /\ tasks[r].finding # None
  BY <1>1, SentOn DEF TaskIsSound
<1>3. ASSUME NEW outcome \in A!Outcomes, A!StartQuery(r, outcome) PROVE IInv'
  <2>1. \A pc \in {"query", "abort"} :
          A!To(r, pc) \in A!Task /\ TaskIsSound(A!To(r, pc))
    BY <1>1, <1>2, SoundOn
  <2>2. A!Transit(r, "validating_warehouse", A!Nothing, outcome,
                  A!To(r, "query"), A!To(r, "abort"))
    BY <1>3 DEF A!StartQuery, A!Raised
  <2> QED BY <1>1, <2>1, <2>2, Givens, TransitKeeps DEF Working
<1>4. ASSUME NEW w \in {"passed", "unusable", "blocked"}, runs' = runs,
             A!Becomes(r, [A!To(r, "decide") EXCEPT !.finding.warehouse = w])
      PROVE  IInv'
  <2> DEFINE u == A!To(r, "decide")
             t == [u EXCEPT !.finding.warehouse = w]
  <2>1. /\ u \in A!Task /\ u.pc = "decide" /\ u.port = tasks[r].port
        /\ u.finding = tasks[r].finding
    BY <1>1, SentOn
  <2>2. u.finding \in A!Finding
    BY <1>2, <2>1 DEF A!Task
  <2>3. LiveKeys # {} => u.port = "live" /\ u.finding.context = "live"
    BY <1>2, <2>1 DEF TaskIsSound
  <2>4. A!Becomes(r, t)
    BY <1>4
  <2> HIDE DEF u
  <2> DEFINE f == [u.finding EXCEPT !.warehouse = w]
  <2>5. /\ f \in A!Finding /\ f.context = u.finding.context
        /\ f.warehouse # "not_run"
    BY <2>2 DEF A!Finding
  <2>6. f # None
    BY <2>5, NoneAssumption
  <2>7. t = [u EXCEPT !.finding = f]
    BY <2>1 DEF A!Task
  <2> HIDE DEF f
  <2>8. t \in A!Task /\ t.finding = f /\ t.port = u.port
    BY <2>1, <2>5, <2>7 DEF A!Task
  <2> HIDE DEF t
  <2>9. TaskIsSound(t)
    BY <2>3, <2>5, <2>6, <2>8 DEF TaskIsSound
  <2>10. /\ runs' \in [Runs -> Row \cup {None}]
         /\ RunsAreJustified' /\ Persist
         /\ \A q \in Runs : ~Offered(q) => ~Offered(q)'
    BY <1>4, NoMoveKeeps DEF IInv, Advance
  <2> QED BY <1>1, <1>2, <1>4, <2>4, <2>8, <2>9, <2>10, TaskKeeps
<1>5. ASSUME A!QueryReturns(r) PROVE IInv'
  <2>1. \A result : A!EvidenceOf(result) \in {"passed", "unusable", "blocked"}
    BY DEF A!EvidenceOf
  <2>2. PICK result :
          A!Becomes(r, [A!To(r, "decide") EXCEPT
                          !.finding.warehouse = A!EvidenceOf(result)])
    BY <1>5 DEF A!QueryReturns
  <2>3. runs' = runs
    BY <1>5 DEF A!QueryReturns
  <2> QED BY <1>4, <2>1, <2>2, <2>3
<1>6. ASSUME A!QueryTimesOut(r) PROVE IInv'
  BY <1>4, <1>6 DEF A!QueryTimesOut, A!TimedOut
<1> QED BY <1>3, <1>5, <1>6

\* What the policy has let pass.
LEMMA NoBlockers ==
  ASSUME NEW f, A!Blockers(f) = {}
  PROVE  /\ f.verified /\ f.matches
         /\ f.warehouse # "blocked" /\ f.warehouse # "unusable"
<1>1. \A b \in A!BlockerCode : b \notin A!Blockers(f)
  OBVIOUS
<1>2. A!BlockerCode =
        {"VERIFICATION_FAILED", "CONTEXT_IDENTITY_MISMATCH",
         "LIVE_EVIDENCE_REQUIRED", "WAREHOUSE_EVIDENCE_REQUIRED",
         "WAREHOUSE_VALIDATION_FAILED", "WAREHOUSE_EVIDENCE_UNUSABLE"}
  BY DEF A!BlockerCode
<1> QED BY <1>1, <1>2 DEF A!Blockers

\* The decision: the one step that puts a run before its owner.
LEMMA DecideKeeps ==
  ASSUME IInv, NEW r \in Runs, NEW outcome, UNCHANGED publication,
         A!Decide(r, outcome)
  PROVE  IInv'
<1> DEFINE f == tasks[r].finding
           b == A!Blockers(f)
           a == [finding |-> f, blockers |-> b, under |-> settings]
<1>1. /\ settings' = settings /\ tasks[r] # None /\ tasks[r].pc = "decide"
  BY DEF A!Decide, A!At, A!system
<1>2. /\ tasks[r] \in A!Task /\ TaskIsSound(tasks[r])
  BY <1>1, SentOn
<1>3. f \in A!Finding
  BY <1>1, <1>2 DEF TaskIsSound, A!Task
<1>4. a \in A!Analysed /\ a.finding = f /\ a.blockers = b /\ a.under = settings
  <2>1. b \in SUBSET A!BlockerCode
    BY DEF A!Blockers
  <2>2. settings \in AnalysisConfigs
    BY DEF IInv, TypeInv
  <2> HIDE DEF f, b
  <2> QED BY <1>3, <2>1, <2>2 DEF A!Analysed
<1>5. a # None
  BY <1>4, NoneAssumption
<1>6. ASSUME b = {} PROVE Justifies(a)
  <2>1. /\ f.verified /\ f.matches
        /\ f.warehouse # "blocked" /\ f.warehouse # "unusable"
    BY <1>6, NoBlockers
  <2>2. LiveKeys # {} /\ settings.warehouse => f.warehouse # "not_run"
    BY <1>1, <1>2, <2>1 DEF TaskIsSound
  <2>3. f.warehouse \in {"not_run", "passed", "unusable", "blocked"}
    BY <1>3 DEF A!Finding
  <2> HIDE DEF f, b, a
  <2> QED BY <1>4, <1>5, <1>6, <2>1, <2>2, <2>3 DEF Justifies
<1>7. A!To(r, "abort") \in A!Task /\ TaskIsSound(A!To(r, "abort"))
  BY <1>1, SoundOn
<1>8. \/ b # {} /\ A!Transit(r, "failed",
                             [A!Failing("BLOCKED") EXCEPT !.analysis = a],
                             outcome, None, A!To(r, "abort"))
      \/ b = {} /\ A!Transit(r, "awaiting_approval",
                             [A!Nothing EXCEPT !.analysis = a],
                             outcome, None, A!To(r, "abort"))
  BY DEF A!Decide, A!Raised
<1> HIDE DEF f, b, a
<1>9. ASSUME NEW given \in {[A!Failing("BLOCKED") EXCEPT !.analysis = a],
                            [A!Nothing EXCEPT !.analysis = a]}
      PROVE  /\ GivenOK(given) /\ given.analysis = a
             /\ given.publication = None
             /\ given.error \notin {"retryable", "operator"}
  BY <1>4, <1>9, NoneAssumption DEF GivenOK, A!Nothing, A!Failing, A!ErrorCode
<1>n. [A!Nothing EXCEPT !.analysis = a].error = None
  BY DEF A!Nothing
<1>10. CASE b # {}
  <2> DEFINE given == [A!Failing("BLOCKED") EXCEPT !.analysis = a]
  <2>1. /\ GivenOK(given) /\ given.analysis = a /\ given.publication = None
        /\ given.error \notin {"retryable", "operator"}
    BY <1>9
  <2>2. A!Transit(r, "failed", given, outcome, None, A!To(r, "abort"))
    BY <1>8, <1>10
  <2> HIDE DEF given
  <2> QED BY <1>1, <1>7, <2>1, <2>2, TransitKeeps DEF Working, Erring
<1>11. CASE b = {}
  <2> DEFINE given == [A!Nothing EXCEPT !.analysis = a]
  <2>1. /\ GivenOK(given) /\ given.analysis = a /\ given.publication = None
        /\ given.error = None /\ given.error \notin {"retryable", "operator"}
    BY <1>9, <1>n
  <2>2. A!Transit(r, "awaiting_approval", given, outcome, None,
                  A!To(r, "abort"))
    BY <1>8, <1>11
  <2>3. Justifies(given.analysis)
    BY <1>6, <1>11, <2>1
  <2> HIDE DEF given
  <2> QED BY <1>1, <1>7, <2>1, <2>2, <2>3, TransitKeeps DEF Working
<1> QED BY <1>10, <1>11

\* A new run, and a new task for it.
LEMMA StartKeeps ==
  ASSUME IInv, NEW r \in Runs, A!Start(r), UNCHANGED publication
  PROVE  IInv'
<1> DEFINE row == [state |-> "created", analysis |-> None,
                   publication |-> None, error |-> None]
           t == [pc |-> "begin", port |-> settings.primary,
                 offer |-> settings.fallback, finding |-> None]
<1>1. /\ settings' = settings /\ runs[r] = None
      /\ runs' = [runs EXCEPT ![r] = row] /\ A!Becomes(r, t)
  BY DEF A!Start
<1>2. /\ row \in Row /\ row # None /\ row.state = "created"
      /\ row.publication = None /\ row.error = None
  <2>1. row \in Row
    BY DEF Row, RunState
  <2> QED BY <2>1, NoneAssumption
<1>3. /\ runs' \in [Runs -> Row \cup {None}] /\ runs'[r] = row
      /\ \A q \in Runs \ {r} : runs'[q] = runs[q]
  BY <1>1, <1>2 DEF IInv, TypeInv
<1> HIDE DEF row
<1>4. RunsAreJustified'
  <2> SUFFICES ASSUME NEW q \in Runs, runs'[q] # None
               PROVE  /\ runs'[q].state \in P!Approvable
                           => Justifies(runs'[q].analysis)
                      /\ runs'[q].state \notin Working
                           => /\ runs'[q].publication = None
                              /\ runs'[q].error \in A!ErrorCode \cup {None}
                      /\ runs'[q].state \notin Working \cup Erring
                           => runs'[q].error = None
    BY DEF RunsAreJustified, Justifies, P!Approvable, A!ErrorCode
  <2>1. CASE q = r
    BY <1>2, <1>3, <2>1 DEF P!Approvable
  <2>2. CASE q # r
    BY <1>3, <2>2 DEF IInv, RunsAreJustified
  <2> QED BY <2>1, <2>2
<1>5. /\ Persist /\ ~Offered(r)'
      /\ \A q \in Runs \ {r} : ~Offered(q) => ~Offered(q)'
  BY <1>1, <1>2, <1>3 DEF Persist, Begun, Offered
<1>6. /\ settings \in A!Config
      /\ LiveKeys # {} => settings.primary = "live"
  BY LifecycleAssumption DEF IInv, TypeInv
<1>7. t \in A!Task /\ t.pc = "begin" /\ t.port = settings.primary
      /\ t.finding = None
  BY <1>6 DEF A!Task, A!Config
<1> HIDE DEF t
<1>8. TaskIsSound(t)
  BY <1>6, <1>7 DEF TaskIsSound
<1> QED BY <1>1, <1>2, <1>3, <1>4, <1>5, <1>7, <1>8, TaskKeeps

\* The orchestrator keeps the invariant.
LEMMA AnalyseKeeps ==
  ASSUME IInv, Analyse
  PROVE  IInv'
<1>1. PICK r \in Runs :
        A!Start(r) \/ A!Proceed(r) \/ A!QueryReturns(r) \/ A!AbandonedEnds(r)
  BY DEF Analyse
<1>2. UNCHANGED publication
  BY DEF Analyse
<1>3. CASE A!AbandonedEnds(r)
  <2>1. UNCHANGED <<runs, tasks, settings>>
    BY <1>3 DEF A!AbandonedEnds, A!system
  <2>2. Persist
    BY <2>1 DEF Persist, Begun
  <2>3. OpsAreSound' /\ LedgerIsSound' /\ EffectsAreBegun'
    BY <1>2, <2>2, PublicationKeeps DEF IInv
  <2>4. TypeInv' /\ RunsAreJustified' /\ TasksAreSound'
    BY <1>2, <2>1
    DEF IInv, TypeInv, RunsAreJustified, TasksAreSound, TaskIsSound, Justifies,
        Offered, P!Approvable, A!ErrorCode, publication
  <2> QED BY <2>3, <2>4 DEF IInv
<1> QED BY <1>1, <1>2, <1>3, StartKeeps, EndsKeep, LoadKeeps, ScoreKeeps,
           ValidateKeeps, QueryKeeps, DecideKeeps DEF A!Proceed

-----------------------------------------------------------------------------
(* Steps of an approval: what they are made of.                            *)

\* An entry of the ledger keeps its owner.
LedgerPersists ==
  \A k \in Keys : ledger[k] # None =>
    ledger'[k] # None /\ ledger'[k].owner = ledger[k].owner

\* An approval in progress has a run, an entry and a key.
LEMMA ApprovalFacts ==
  ASSUME IInv, NEW c \in Clients, ops[c] # None
  PROVE  /\ ops[c] \in P!Op /\ ops[c].run \in Runs
         /\ ops[c].entry \in P!Entry /\ ops[c].entry # None
         /\ KeyOf[ops[c].run] \in Keys /\ ledger[KeyOf[ops[c].run]] # None
         /\ ledger[KeyOf[ops[c].run]] \in P!Entry
         /\ OpIsSound(ops[c]) /\ runs[ops[c].run] # None
<1>1. ops[c] \in P!Op /\ OpIsSound(ops[c])
  BY DEF IInv, TypeInv, OpsAreSound
<1>2. ops[c].run \in Runs /\ ops[c].entry \in P!Entry
  BY <1>1 DEF P!Op
<1>3. KeyOf[ops[c].run] \in Keys
  BY <1>2, LifecycleAssumption
<1> QED BY <1>1, <1>2, <1>3, NoneAssumption DEF OpIsSound, IInv, TypeInv

\* A save keeps the ledger in order if the entry is, and has the owner it had.
LEMMA SaveKeeps ==
  ASSUME IInv, NEW k \in Keys, NEW e \in P!Entry, EntryIsSound(e),
         ledger[k] # None => e.owner = ledger[k].owner, P!Save(k, e)
  PROVE  /\ ledger' \in [Keys -> P!Entry \cup {None}] /\ ledger'[k] = e
         /\ LedgerIsSound' /\ LedgerPersists
<1>1. /\ ledger' \in [Keys -> P!Entry \cup {None}] /\ ledger'[k] = e
      /\ \A l \in Keys \ {k} : ledger'[l] = ledger[l]
  BY DEF P!Save, IInv, TypeInv
<1>2. e # None
  BY NoneAssumption
<1> QED BY <1>1, <1>2
        DEF LedgerIsSound, LedgerPersists, EntryIsSound, IInv

\* A ledger that is left alone is in order.
LEMMA NoSaveKeeps ==
  ASSUME IInv, ledger' = ledger
  PROVE  /\ ledger' \in [Keys -> P!Entry \cup {None}]
         /\ LedgerIsSound' /\ LedgerPersists
  BY DEF IInv, TypeInv, LedgerIsSound, LedgerPersists, EntryIsSound

\* Effects that are there stay accounted for.
LEMMA EffectsKeep ==
  ASSUME IInv, Advance, LedgerPersists, UNCHANGED <<branches, opened, applied>>
  PROVE  EffectsAreBegun' /\ opened' \in [P!Sites -> Nat]
<1>1. \A s \in P!Sites : s[1] \in Runs
  BY DEF P!Sites
<1> QED BY <1>1
        DEF EffectsAreBegun, IInv, TypeInv, Advance, Persist, LedgerPersists

\* A step of one approval keeps the invariant if it leaves the rows, the ledger,
\* the effects and the approval itself in order.
LEMMA ApprovalKeeps ==
  ASSUME IInv, NEW c \in Clients, UNCHANGED <<analysis, sinks>>,
         runs' \in [Runs -> Row \cup {None}], RunsAreJustified', Advance,
         ledger' \in [Keys -> P!Entry \cup {None}], LedgerIsSound',
         LedgerPersists,
         opened' \in [P!Sites -> Nat], EffectsAreBegun',
         ops' \in [Clients -> P!Op \cup {None}],
         \A d \in Clients \ {c} : ops'[d] = ops[d],
         ops'[c] # None => OpIsSound(ops[c])'
  PROVE  IInv'
<1>1. TypeInv'
  BY DEF IInv, TypeInv, analysis
<1>2. TasksAreSound'
  BY DEF IInv, TasksAreSound, TaskIsSound, Advance, Persist, analysis
<1>3. OpsAreSound'
  <2> SUFFICES ASSUME NEW d \in Clients, ops'[d] # None
               PROVE  OpIsSound(ops[d])'
    BY DEF OpsAreSound
  <2>1. CASE d = c
    BY <2>1
  <2>2. CASE d # c
    <3>1. ops'[d] = ops[d] /\ sinks' = sinks
      BY <2>2
    <3>2. /\ ops[d].run \in Runs /\ KeyOf[ops[d].run] \in Keys
          /\ OpIsSound(ops[d])
      BY <3>1, ApprovalFacts
    <3> QED BY <3>1, <3>2 DEF OpIsSound, Advance, Persist, LedgerPersists
  <2> QED BY <2>1, <2>2
<1> QED BY <1>1, <1>2, <1>3 DEF IInv

\* The conditions of OpIsSound on the stage an approval goes on at.
MayBeAt(stage, r, e) ==
  /\ stage \notin {"reuse", "finish_reuse"} => e.owner = r
  /\ stage \in {"reuse", "finish_reuse", "complete"} => e.completed
  /\ stage \in {"branch", "save_branch", "pull"} =>
       sinks.github /\ LiveKeys # {}
  /\ stage \in {"writeback", "save_progress"} =>
       sinks.datahub /\ LiveKeys # {}

\* An approval that goes on with another entry is in order.
LEMMA GoesOn ==
  ASSUME IInv, NEW c \in Clients, ops[c] # None, NEW r \in Runs, r = ops[c].run,
         NEW stage \in P!Stage, NEW e \in P!Entry, P!Continue(c, stage, e),
         Advance, LedgerPersists, UNCHANGED sinks,
         EntryIsSound(e), e.owner = ops[c].entry.owner,
         MayBeAt(stage, r, e), Begun(r)'
  PROVE  /\ ops' \in [Clients -> P!Op \cup {None}]
         /\ \A d \in Clients \ {c} : ops'[d] = ops[d]
         /\ OpIsSound(ops[c])'
<1> DEFINE op == [ops[c] EXCEPT !.stage = stage, !.entry = e]
<1>1. /\ ops[c] \in P!Op /\ OpIsSound(ops[c])
      /\ KeyOf[r] \in Keys /\ ledger[KeyOf[r]] # None
  BY ApprovalFacts
<1>2. /\ op \in P!Op /\ op.stage = stage /\ op.entry = e /\ op.run = r
      /\ op.seen = ops[c].seen
  BY <1>1 DEF P!Op
<1>3. ops' = [ops EXCEPT ![c] = op]
  BY DEF P!Continue
<1> HIDE DEF op
<1>4. /\ ops' \in [Clients -> P!Op \cup {None}] /\ ops'[c] = op
      /\ \A d \in Clients \ {c} : ops'[d] = ops[d]
  BY <1>2, <1>3 DEF IInv, TypeInv
<1>5. /\ ledger'[KeyOf[r]] # None
      /\ ledger'[KeyOf[r]].owner = ledger[KeyOf[r]].owner
      /\ ledger[KeyOf[r]].owner = ops[c].entry.owner
      /\ runs'[r] # None
  BY <1>1 DEF LedgerPersists, OpIsSound, Begun
<1>6. OpIsSound(ops[c])'
  BY <1>2, <1>4, <1>5 DEF OpIsSound, MayBeAt
<1> QED BY <1>4, <1>6

\* So is one that turns to the report of a failure.
LEMMA FailsOn ==
  ASSUME IInv, NEW c \in Clients, ops[c] # None, NEW r \in Runs, r = ops[c].run,
         NEW error \in {"retryable", "operator"}, P!Fail(c, error),
         Advance, LedgerPersists, UNCHANGED sinks,
         ops[c].entry.owner = r, Begun(r)'
  PROVE  /\ ops' \in [Clients -> P!Op \cup {None}]
         /\ \A d \in Clients \ {c} : ops'[d] = ops[d]
         /\ OpIsSound(ops[c])'
<1> DEFINE op == [ops[c] EXCEPT !.stage = "fail", !.error = error]
<1>1. /\ ops[c] \in P!Op /\ OpIsSound(ops[c])
      /\ KeyOf[r] \in Keys /\ ledger[KeyOf[r]] # None
  BY ApprovalFacts
<1>2. /\ op \in P!Op /\ op.stage = "fail" /\ op.entry = ops[c].entry
      /\ op.run = r /\ op.seen = ops[c].seen
  BY <1>1 DEF P!Op, P!Stage
<1>3. ops' = [ops EXCEPT ![c] = op]
  BY DEF P!Fail
<1> HIDE DEF op
<1>4. /\ ops' \in [Clients -> P!Op \cup {None}] /\ ops'[c] = op
      /\ \A d \in Clients \ {c} : ops'[d] = ops[d]
  BY <1>2, <1>3 DEF IInv, TypeInv
<1>5. /\ ledger'[KeyOf[r]] # None
      /\ ledger'[KeyOf[r]].owner = ledger[KeyOf[r]].owner
      /\ ledger[KeyOf[r]].owner = ops[c].entry.owner
      /\ EntryIsSound(ops[c].entry) /\ runs'[r] # None
  BY <1>1 DEF LedgerPersists, OpIsSound, Begun
<1>6. OpIsSound(ops[c])'
  BY <1>2, <1>4, <1>5 DEF OpIsSound
<1> QED BY <1>4, <1>6

\* One that leaves is gone.
LEMMA Leaves ==
  ASSUME IInv, NEW c \in Clients, P!Leave(c)
  PROVE  /\ ops' \in [Clients -> P!Op \cup {None}] /\ ops'[c] = None
         /\ \A d \in Clients \ {c} : ops'[d] = ops[d]
  BY DEF P!Leave, IInv, TypeInv

-----------------------------------------------------------------------------
(* Steps of an approval: the transitions of its run.                       *)

\* What transitions of an approval are given.
LEMMA PublicationGivens ==
  /\ GivenOK(P!Nothing) /\ P!Nothing.analysis = None
  /\ P!Nothing.publication = None
  /\ \A clear : /\ GivenOK(P!ClearingError(clear))
                /\ P!ClearingError(clear).analysis = None
                /\ P!ClearingError(clear).publication = None
  /\ \A receipt \in P!Receipt :
       LET given == [P!Nothing EXCEPT !.publication = receipt]
       IN  GivenOK(given) /\ given.analysis = None
  /\ \A receipt \in P!Receipt, error \in {"retryable", "operator", None} :
       LET given == [P!Nothing EXCEPT !.publication = receipt, !.error = error]
       IN  GivenOK(given) /\ given.analysis = None
  BY DEF GivenOK, P!Nothing, P!ClearingError

\* A transition of an approval: its run has begun.
LEMMA ApprovalMoves ==
  ASSUME IInv, NEW r \in Runs, runs[r] # None, NEW to \in Working,
         NEW given, GivenOK(given), given.analysis = None,
         P!MoveRun(r, to, given)
  PROVE  /\ runs' \in [Runs -> Row \cup {None}]
         /\ RunsAreJustified' /\ Advance /\ Begun(r)'
<1>1. Moves(r, to, given)
  BY SameMoves
<1>2. to # "awaiting_approval" /\ to # "context_fallback_required"
  BY DEF Working
<1>3. runs[r].state \in RunState
  BY DEF IInv, TypeInv, Row
<1>4. ~Offered(r)
  BY <1>1, <1>3, WhereItLeads DEF Moves, Offered, P!Approvable
<1> QED BY <1>1, <1>2, <1>4, MoveKeeps DEF IInv, Advance

\* A step that leaves the rows alone: those that have begun stay begun.
LEMMA StaysBegun ==
  ASSUME IInv, NEW r \in Runs, runs' = runs
  PROVE  /\ runs' \in [Runs -> Row \cup {None}]
         /\ RunsAreJustified' /\ Advance
         /\ Begun(r) => Begun(r)'
  BY NoMoveKeeps DEF IInv, Advance, Persist

\* The receipt of a completed key is taken over.
LEMMA ReuseKeeps ==
  ASSUME IInv, NEW c \in Clients, ops[c] # None, UNCHANGED analysis,
         P!ReuseTransition(c) \/ P!FinishReuse(c)
  PROVE  IInv'
<1>1. PICK r \in Runs : r = ops[c].run
  BY ApprovalFacts
<1> DEFINE op == ops[c]
<1>2. /\ op \in P!Op /\ op.entry \in P!Entry /\ OpIsSound(op)
      /\ runs[r] # None
  BY <1>1, ApprovalFacts
<1>3. /\ op.entry.completed /\ op.entry.receipt \in P!Receipt
      /\ EntryIsSound(op.entry)
  <2>1. op.entry.completed /\ EntryIsSound(op.entry)
    BY <1>2
    DEF P!ReuseTransition, P!FinishReuse, P!At, OpIsSound
  <2> QED BY <1>2, <2>1 DEF EntryIsSound, P!Entry
<1>4. /\ ledger' = ledger /\ sinks' = sinks
      /\ UNCHANGED <<branches, opened, applied>>
  BY DEF P!ReuseTransition, P!FinishReuse, P!world
<1>5. /\ ledger' \in [Keys -> P!Entry \cup {None}]
      /\ LedgerIsSound' /\ LedgerPersists
  BY <1>4, NoSaveKeeps
<1>6. CASE P!ReuseTransition(c)
  <2>1. PICK to \in {"preparing_preview", "publishing"} :
          P!MoveRun(r, to, P!Nothing)
    BY <1>1, <1>6 DEF P!ReuseTransition
  <2>2. /\ runs' \in [Runs -> Row \cup {None}]
        /\ RunsAreJustified' /\ Advance /\ Begun(r)'
    BY <1>2, <2>1, PublicationGivens, ApprovalMoves DEF Working
  <2>3. P!Continue(c, "finish_reuse", op.entry)
    BY <1>6 DEF P!ReuseTransition
  <2>4. MayBeAt("finish_reuse", r, op.entry) /\ "finish_reuse" \in P!Stage
    BY <1>3 DEF MayBeAt, P!Stage
  <2> HIDE DEF op
  <2>5. /\ ops' \in [Clients -> P!Op \cup {None}]
        /\ \A d \in Clients \ {c} : ops'[d] = ops[d]
        /\ OpIsSound(ops[c])'
    BY <1>1, <1>2, <1>3, <1>4, <1>5, <2>2, <2>3, <2>4, GoesOn DEF op
  <2>6. EffectsAreBegun' /\ opened' \in [P!Sites -> Nat]
    BY <1>4, <1>5, <2>2, EffectsKeep
  <2> QED BY <1>4, <1>5, <2>2, <2>5, <2>6, ApprovalKeeps
<1>7. CASE P!FinishReuse(c)
  <2> DEFINE receipt == [op.entry.receipt EXCEPT !.reused = TRUE]
             given == [P!Nothing EXCEPT !.publication = receipt]
  <2>1. receipt \in P!Receipt
    BY <1>3 DEF P!Receipt
  <2>2. P!MoveRun(r, "completed", given) /\ P!Leave(c)
    BY <1>1, <1>7 DEF P!FinishReuse
  <2>3. GivenOK(given) /\ given.analysis = None
    BY <2>1, PublicationGivens
  <2> HIDE DEF given
  <2>4. /\ runs' \in [Runs -> Row \cup {None}]
        /\ RunsAreJustified' /\ Advance
    BY <1>2, <2>2, <2>3, ApprovalMoves DEF Working
  <2>5. /\ ops' \in [Clients -> P!Op \cup {None}] /\ ops'[c] = None
        /\ \A d \in Clients \ {c} : ops'[d] = ops[d]
    BY <2>2, Leaves
  <2>6. EffectsAreBegun' /\ opened' \in [P!Sites -> Nat]
    BY <1>4, <1>5, <2>4, EffectsKeep
  <2> QED BY <1>4, <1>5, <2>4, <2>5, <2>6, ApprovalKeeps
<1> QED BY <1>6, <1>7

\* A preview is prepared.
LEMMA PrepareKeeps ==
  ASSUME IInv, NEW c \in Clients, ops[c] # None, UNCHANGED analysis,
         P!PreparePreview(c)
  PROVE  IInv'
<1>1. PICK r \in Runs : r = ops[c].run
  BY ApprovalFacts
<1> DEFINE op == ops[c]
<1>2. /\ op \in P!Op /\ op.entry \in P!Entry /\ OpIsSound(op)
      /\ runs[r] # None
  BY <1>1, ApprovalFacts
<1>3. /\ EntryIsSound(op.entry) /\ op.entry.owner = r
      /\ op.seen \in Working => Begun(r)
  BY <1>1, <1>2 DEF P!PreparePreview, P!At, OpIsSound
<1>4. /\ ledger' = ledger /\ sinks' = sinks
      /\ UNCHANGED <<branches, opened, applied>>
      /\ P!Continue(c, "save_preview", op.entry)
  BY DEF P!PreparePreview, P!world
<1>5. /\ ledger' \in [Keys -> P!Entry \cup {None}]
      /\ LedgerIsSound' /\ LedgerPersists
  BY <1>4, NoSaveKeeps
<1>6. /\ runs' \in [Runs -> Row \cup {None}]
      /\ RunsAreJustified' /\ Advance /\ Begun(r)'
  <2>1. CASE op.seen = "preparing_preview"
    BY <1>3, <2>1, StaysBegun DEF P!PreparePreview, Working
  <2>2. CASE op.seen # "preparing_preview"
    <3>1. P!MoveRun(r, "preparing_preview",
                    P!ClearingError(op.seen = "publication_failed"))
      BY <1>1, <2>2 DEF P!PreparePreview
    <3> QED BY <1>2, <3>1, PublicationGivens, ApprovalMoves DEF Working
  <2> QED BY <2>1, <2>2
<1>7. MayBeAt("save_preview", r, op.entry) /\ "save_preview" \in P!Stage
  BY <1>3 DEF MayBeAt, P!Stage
<1> HIDE DEF op
<1>8. /\ ops' \in [Clients -> P!Op \cup {None}]
      /\ \A d \in Clients \ {c} : ops'[d] = ops[d]
      /\ OpIsSound(ops[c])'
  BY <1>1, <1>2, <1>3, <1>4, <1>5, <1>6, <1>7, GoesOn DEF op
<1>9. EffectsAreBegun' /\ opened' \in [P!Sites -> Nat]
  BY <1>4, <1>5, <1>6, EffectsKeep
<1> QED BY <1>4, <1>5, <1>6, <1>8, <1>9, ApprovalKeeps

\* _approve_live goes to a sink only if it is configured, and there is live
\* evidence to write about.
LEMMA NextStage ==
  ASSUME NEW r, NEW e, EntryIsSound(e), e.owner = r,
         NEW s, s = P!NextLiveStage(e)
  PROVE  /\ s \in {"fail", "branch", "pull", "writeback", "seal"}
         /\ s \in P!Stage /\ MayBeAt(s, r, e)
  BY DEF P!NextLiveStage, P!Stage, MayBeAt, EntryIsSound

\* A publication starts: its run has begun before the first call.
LEMMA StartPublishingKeeps ==
  ASSUME IInv, NEW c \in Clients, ops[c] # None, UNCHANGED analysis,
         P!StartPublishing(c)
  PROVE  IInv'
<1>1. PICK r \in Runs : r = ops[c].run
  BY ApprovalFacts
<1> DEFINE op == ops[c]
           stage == IF P!DestinationMismatch(op.entry) THEN "fail"
                    ELSE P!NextLiveStage(op.entry)
<1>2. /\ op \in P!Op /\ op.entry \in P!Entry /\ OpIsSound(op)
      /\ runs[r] # None
  BY <1>1, ApprovalFacts
<1>3. /\ EntryIsSound(op.entry) /\ op.entry.owner = r
      /\ op.seen \in Working => Begun(r)
  BY <1>1, <1>2 DEF P!StartPublishing, P!At, OpIsSound
<1>4. /\ ledger' = ledger /\ sinks' = sinks
      /\ UNCHANGED <<branches, opened, applied>>
      /\ \/ IF stage = "fail" THEN P!Fail(c, "operator")
                              ELSE P!Continue(c, stage, op.entry)
         \/ P!Leave(c)
  BY DEF P!StartPublishing, P!world
<1>5. /\ ledger' \in [Keys -> P!Entry \cup {None}]
      /\ LedgerIsSound' /\ LedgerPersists
  BY <1>4, NoSaveKeeps
<1>6. /\ runs' \in [Runs -> Row \cup {None}]
      /\ RunsAreJustified' /\ Advance /\ Begun(r)'
  <2>1. CASE op.seen = "publishing"
    BY <1>3, <2>1, StaysBegun DEF P!StartPublishing, Working
  <2>2. CASE op.seen # "publishing"
    <3>1. P!MoveRun(r, "publishing",
                    P!ClearingError(op.seen = "publication_failed"))
      BY <1>1, <2>2 DEF P!StartPublishing
    <3> QED BY <1>2, <3>1, PublicationGivens, ApprovalMoves DEF Working
  <2> QED BY <2>1, <2>2
<1>7. MayBeAt(stage, r, op.entry) /\ stage \in P!Stage
  <2>1. CASE P!DestinationMismatch(op.entry)
    BY <1>3, <2>1 DEF MayBeAt, P!Stage
  <2>2. CASE ~P!DestinationMismatch(op.entry)
    BY <1>3, <2>2, NextStage
  <2> QED BY <2>1, <2>2
<1> HIDE DEF stage, op
<1>8. /\ ops' \in [Clients -> P!Op \cup {None}]
      /\ \A d \in Clients \ {c} : ops'[d] = ops[d]
      /\ ops'[c] # None => OpIsSound(ops[c])'
  <2>1. CASE P!Leave(c)
    BY <2>1, Leaves
  <2>2. CASE stage = "fail" /\ P!Fail(c, "operator")
    BY <1>1, <1>3, <1>4, <1>5, <1>6, <2>2, FailsOn DEF op
  <2>3. CASE P!Continue(c, stage, op.entry)
    BY <1>1, <1>2, <1>3, <1>4, <1>5, <1>6, <1>7, <2>3, GoesOn DEF op
  <2> QED BY <1>4, <2>1, <2>2, <2>3
<1>9. EffectsAreBegun' /\ opened' \in [P!Sites -> Nat]
  BY <1>4, <1>5, <1>6, EffectsKeep
<1> QED BY <1>4, <1>5, <1>6, <1>8, <1>9, ApprovalKeeps

\* The last transition of an approval, with its final or its partial receipt.
LEMMA FinishKeeps ==
  ASSUME IInv, NEW c \in Clients, ops[c] # None, UNCHANGED analysis,
         P!Complete(c) \/ P!FailRun(c)
  PROVE  IInv'
<1>1. PICK r \in Runs : r = ops[c].run
  BY ApprovalFacts
<1> DEFINE op == ops[c]
<1>2. /\ op \in P!Op /\ op.entry \in P!Entry /\ OpIsSound(op)
      /\ runs[r] # None
  BY <1>1, ApprovalFacts
<1>3. PICK to, given :
        /\ to \in Working /\ GivenOK(given) /\ given.analysis = None
        /\ P!MoveRun(r, to, given)
  <2>1. CASE P!Complete(c)
    <3> DEFINE given == [P!Nothing EXCEPT !.publication = op.entry.receipt]
    <3>1. op.entry.receipt \in P!Receipt
      BY <1>2, <2>1 DEF P!Complete, P!At, OpIsSound, EntryIsSound, P!Entry
    <3>2. P!MoveRun(r, "completed", given)
      BY <1>1, <2>1 DEF P!Complete
    <3>3. GivenOK(given) /\ given.analysis = None
      BY <3>1, PublicationGivens
    <3> HIDE DEF given
    <3> QED BY <3>2, <3>3 DEF Working
  <2>2. CASE P!FailRun(c)
    <3> DEFINE given == [P!Nothing EXCEPT !.publication = P!Partial(op.entry),
                                          !.error = op.error]
    <3>1. P!Partial(op.entry) \in P!Receipt
      BY <1>2 DEF P!Partial, P!Receipt, P!Entry, P!Label
    <3>2. op.error \in {"retryable", "operator", None}
      BY <1>2 DEF P!Op
    <3>3. P!MoveRun(r, "publication_failed", given)
      BY <1>1, <2>2 DEF P!FailRun
    <3>4. GivenOK(given) /\ given.analysis = None
      BY <3>1, <3>2, PublicationGivens
    <3> HIDE DEF given
    <3> QED BY <3>3, <3>4 DEF Working
  <2> QED BY <2>1, <2>2
<1>5. /\ runs' \in [Runs -> Row \cup {None}]
      /\ RunsAreJustified' /\ Advance
  BY <1>2, <1>3, ApprovalMoves
<1>6. /\ ledger' = ledger /\ sinks' = sinks
      /\ UNCHANGED <<branches, opened, applied>> /\ P!Leave(c)
  BY DEF P!Complete, P!FailRun, P!world
<1>7. /\ ledger' \in [Keys -> P!Entry \cup {None}]
      /\ LedgerIsSound' /\ LedgerPersists
  BY <1>6, NoSaveKeeps
<1>8. /\ ops' \in [Clients -> P!Op \cup {None}] /\ ops'[c] = None
      /\ \A d \in Clients \ {c} : ops'[d] = ops[d]
  BY <1>6, Leaves
<1>9. EffectsAreBegun' /\ opened' \in [P!Sites -> Nat]
  BY <1>5, <1>6, <1>7, EffectsKeep
<1> QED BY <1>5, <1>6, <1>7, <1>8, <1>9, ApprovalKeeps

-----------------------------------------------------------------------------
(* Steps of an approval: checkpoints and calls.                            *)

\* Past its first transition, an approval that is no reuse works on its own
\* entry, and its run has begun.
LEMMA AtWork ==
  ASSUME IInv, NEW c \in Clients, ops[c] # None,
         ops[c].stage \notin {"reuse", "finish_reuse", "prepare", "publish"}
  PROVE  /\ ops[c].run \in Runs /\ Begun(ops[c].run)
         /\ KeyOf[ops[c].run] \in Keys /\ ledger[KeyOf[ops[c].run]] # None
         /\ ops[c].entry \in P!Entry /\ EntryIsSound(ops[c].entry)
         /\ ops[c].entry.owner = ops[c].run
         /\ ledger[KeyOf[ops[c].run]].owner = ops[c].run
  BY ApprovalFacts DEF OpIsSound

\* An approval that saves an entry of its own and goes on keeps the invariant.
LEMMA CheckpointKeeps ==
  ASSUME IInv, NEW c \in Clients, ops[c] # None,
         ops[c].stage \notin {"reuse", "finish_reuse", "prepare", "publish"},
         UNCHANGED <<runs, analysis, sinks, branches, opened, applied>>,
         NEW e \in P!Entry, EntryIsSound(e), e.owner = ops[c].run,
         P!Save(KeyOf[ops[c].run], e),
         NEW stage \in P!Stage, MayBeAt(stage, ops[c].run, e),
         \/ P!Continue(c, stage, e)
         \/ \E error \in {"retryable", "operator"} : P!Fail(c, error)
  PROVE  IInv'
<1>1. PICK r \in Runs : r = ops[c].run
  BY AtWork
<1>2. /\ Begun(r) /\ KeyOf[r] \in Keys
      /\ ops[c].entry.owner = r /\ ledger[KeyOf[r]].owner = r
  BY <1>1, AtWork
<1>3. /\ ledger' \in [Keys -> P!Entry \cup {None}]
      /\ LedgerIsSound' /\ LedgerPersists
  BY <1>1, <1>2, SaveKeeps
<1>4. /\ runs' \in [Runs -> Row \cup {None}]
      /\ RunsAreJustified' /\ Advance /\ Begun(r)'
  BY <1>2, StaysBegun
<1>5. EffectsAreBegun' /\ opened' \in [P!Sites -> Nat]
  BY <1>3, <1>4, EffectsKeep
<1>6. /\ ops' \in [Clients -> P!Op \cup {None}]
      /\ \A d \in Clients \ {c} : ops'[d] = ops[d]
      /\ OpIsSound(ops[c])'
  <2>1. CASE P!Continue(c, stage, e)
    <3>1. e.owner = ops[c].entry.owner /\ MayBeAt(stage, r, e)
      BY <1>1, <1>2
    <3> QED BY <1>1, <1>3, <1>4, <2>1, <3>1, GoesOn
  <2>2. ASSUME NEW error \in {"retryable", "operator"}, P!Fail(c, error)
        PROVE  /\ ops' \in [Clients -> P!Op \cup {None}]
               /\ \A d \in Clients \ {c} : ops'[d] = ops[d]
               /\ OpIsSound(ops[c])'
    BY <1>1, <1>2, <1>3, <1>4, <2>2, FailsOn
  <2> QED BY <2>1, <2>2
<1> QED BY <1>3, <1>4, <1>5, <1>6, ApprovalKeeps

\* An approval that gains something and saves nothing yet keeps the invariant,
\* if what it has put into the world is put down to its run.
LEMMA CallKeeps ==
  ASSUME IInv, NEW c \in Clients, ops[c] # None,
         ops[c].stage \notin {"reuse", "finish_reuse", "prepare", "publish"},
         UNCHANGED <<runs, ledger, analysis, sinks>>,
         opened' \in [P!Sites -> Nat],
         \A s \in P!Sites : s \in branches' \/ opened'[s] > 0 =>
           \/ s \in branches \/ opened[s] > 0
           \/ s[1] = ops[c].run /\ LiveKeys # {},
         \A a \in applied' : \/ a \in applied
                             \/ a[1] = KeyOf[ops[c].run] /\ LiveKeys # {},
         NEW e \in P!Entry, EntryIsSound(e), e.owner = ops[c].run,
         NEW stage \in P!Stage, MayBeAt(stage, ops[c].run, e),
         \/ P!Continue(c, stage, e)
         \/ \E error \in {"retryable", "operator"} : P!Fail(c, error)
  PROVE  IInv'
<1>1. PICK r \in Runs : r = ops[c].run
  BY AtWork
<1>2. /\ Begun(r) /\ KeyOf[r] \in Keys /\ ledger[KeyOf[r]] # None
      /\ ops[c].entry.owner = r /\ ledger[KeyOf[r]].owner = r
  BY <1>1, AtWork
<1>3. /\ ledger' \in [Keys -> P!Entry \cup {None}]
      /\ LedgerIsSound' /\ LedgerPersists
  BY NoSaveKeeps
<1>4. /\ runs' \in [Runs -> Row \cup {None}]
      /\ RunsAreJustified' /\ Advance /\ Begun(r)'
  BY <1>2, StaysBegun
<1>5. EffectsAreBegun'
  <2>1. ASSUME NEW s \in P!Sites, s \in branches' \/ opened'[s] > 0
        PROVE  Begun(s[1])' /\ LiveKeys # {}
    BY <1>1, <1>2, <2>1 DEF IInv, EffectsAreBegun, Begun
  <2>2. ASSUME NEW a \in applied'
        PROVE  /\ a[1] \in Keys /\ ledger'[a[1]] # None
               /\ ledger'[a[1]].owner \in Runs /\ Begun(ledger[a[1]].owner)'
               /\ LiveKeys # {}
    BY <1>1, <1>2, <2>2 DEF IInv, EffectsAreBegun, Begun
  <2> QED BY <2>1, <2>2 DEF EffectsAreBegun
<1>6. /\ ops' \in [Clients -> P!Op \cup {None}]
      /\ \A d \in Clients \ {c} : ops'[d] = ops[d]
      /\ OpIsSound(ops[c])'
  <2>1. CASE P!Continue(c, stage, e)
    <3>1. e.owner = ops[c].entry.owner /\ MayBeAt(stage, r, e)
      BY <1>1, <1>2
    <3> QED BY <1>1, <1>3, <1>4, <2>1, <3>1, GoesOn
  <2>2. ASSUME NEW error \in {"retryable", "operator"}, P!Fail(c, error)
        PROVE  /\ ops' \in [Clients -> P!Op \cup {None}]
               /\ \A d \in Clients \ {c} : ops'[d] = ops[d]
               /\ OpIsSound(ops[c])'
    BY <1>1, <1>2, <1>3, <1>4, <2>2, FailsOn
  <2> QED BY <2>1, <2>2
<1> QED BY <1>3, <1>4, <1>5, <1>6, ApprovalKeeps

\* What the steps make of an entry is an entry, of the same owner and in order.
LEMMA EntriesMade ==
  ASSUME NEW e \in P!Entry, EntryIsSound(e)
  PROVE  /\ P!Sealed(e) \in P!Entry /\ EntryIsSound(P!Sealed(e))
         /\ P!Sealed(e).owner = e.owner /\ P!Sealed(e).completed
         /\ LET f == [e EXCEPT !.receipt = P!Partial(e)]
            IN  f \in P!Entry /\ EntryIsSound(f) /\ f.owner = e.owner
         /\ LET f == [e EXCEPT !.branch = TRUE]
            IN  f \in P!Entry /\ EntryIsSound(f) /\ f.owner = e.owner
         /\ \A n \in Nat :
              LET f == [e EXCEPT !.pull = n]
              IN  f \in P!Entry /\ EntryIsSound(f) /\ f.owner = e.owner
         /\ LET f == [e EXCEPT !.writeback = "written"]
            IN  f \in P!Entry /\ EntryIsSound(f) /\ f.owner = e.owner
         /\ \A m \in P!Mutations :
              LET f == P!Progress(e, m)
              IN  f \in P!Entry /\ EntryIsSound(f) /\ f.owner = e.owner
<1>1. P!Partial(e) \in P!Receipt /\ P!Partial(e) # None
  <2>1. P!Partial(e) \in P!Receipt
    BY DEF P!Partial, P!Receipt, P!Entry, P!Label
  <2> QED BY <2>1, NoneAssumption
<1>2. /\ P!Sealed(e) \in P!Entry /\ EntryIsSound(P!Sealed(e))
      /\ P!Sealed(e).owner = e.owner /\ P!Sealed(e).completed
  <2>1. P!FinalLabel(e) \in P!Label
    BY DEF P!FinalLabel, P!Entry, P!Label
  <2> DEFINE rc == [mode |-> "live", branch |-> e.branch, pull |-> e.pull,
                    writeback |-> P!FinalLabel(e), reused |-> FALSE]
  <2>2. rc \in P!Receipt
    BY <2>1 DEF P!Receipt, P!Entry
  <2>3. rc # None
    BY <2>2, NoneAssumption
  <2>4. P!Sealed(e) = [e EXCEPT !.writeback = P!FinalLabel(e), !.receipt = rc,
                                !.completed = TRUE]
    BY DEF P!Sealed
  <2> HIDE DEF rc
  <2> QED BY <2>1, <2>2, <2>3, <2>4 DEF P!Entry, EntryIsSound
<1>3. LET f == [e EXCEPT !.receipt = P!Partial(e)]
      IN  f \in P!Entry /\ EntryIsSound(f) /\ f.owner = e.owner
  BY <1>1 DEF P!Entry, EntryIsSound
<1>4. LET f == [e EXCEPT !.branch = TRUE]
      IN  f \in P!Entry /\ EntryIsSound(f) /\ f.owner = e.owner
  BY DEF P!Entry, EntryIsSound
<1>5. \A n \in Nat :
        LET f == [e EXCEPT !.pull = n]
        IN  f \in P!Entry /\ EntryIsSound(f) /\ f.owner = e.owner
  BY DEF P!Entry, EntryIsSound
<1>6. LET f == [e EXCEPT !.writeback = "written"]
      IN  f \in P!Entry /\ EntryIsSound(f) /\ f.owner = e.owner
  BY DEF P!Entry, P!Label, EntryIsSound
<1>7. \A m \in P!Mutations :
        LET f == P!Progress(e, m)
        IN  f \in P!Entry /\ EntryIsSound(f) /\ f.owner = e.owner
  BY DEF P!Progress, P!Entry, P!Label, EntryIsSound
<1> QED BY <1>2, <1>3, <1>4, <1>5, <1>6, <1>7

\* The checkpoints, the seal, and the entry of a failure.
LEMMA SavesKeep ==
  ASSUME IInv, NEW c \in Clients, ops[c] # None, UNCHANGED analysis,
         \/ P!SavePreview(c) \/ P!Checkpoint(c)
         \/ P!Seal(c) \/ P!FailEntry(c)
  PROVE  IInv'
<1> DEFINE op == ops[c]
           k  == KeyOf[op.run]
<1>1. /\ op.stage \notin {"reuse", "finish_reuse", "prepare", "publish"}
      /\ UNCHANGED <<runs, sinks, branches, opened, applied>>
  BY DEF P!SavePreview, P!Checkpoint, P!Seal, P!FailEntry, P!At, P!world
<1>2. /\ op.run \in Runs /\ op.entry \in P!Entry /\ EntryIsSound(op.entry)
      /\ op.entry.owner = op.run
  BY <1>1, AtWork
<1>3. OpIsSound(op)
  BY ApprovalFacts
<1>4. CASE P!SavePreview(c)
  <2> DEFINE rc == [mode |-> "preview", branch |-> FALSE, pull |-> 0,
                    writeback |-> "not_written", reused |-> FALSE]
             e == [op.entry EXCEPT !.writeback = "not_written",
                                   !.receipt = rc, !.completed = TRUE]
  <2>1. rc \in P!Receipt
    BY DEF P!Receipt, P!Label
  <2>2. rc # None
    BY <2>1, NoneAssumption
  <2>3. P!Save(k, e) /\ P!Continue(c, "complete", e)
    BY <1>4 DEF P!SavePreview
  <2> HIDE DEF rc
  <2>4. /\ e \in P!Entry /\ EntryIsSound(e) /\ e.owner = op.run /\ e.completed
    BY <1>2, <2>1, <2>2 DEF P!Entry, P!Label, EntryIsSound
  <2> HIDE DEF e
  <2>5. "complete" \in P!Stage /\ MayBeAt("complete", op.run, e)
    BY <2>4 DEF P!Stage, MayBeAt
  <2> QED BY <1>1, <2>3, <2>4, <2>5, CheckpointKeeps
<1>5. CASE P!Seal(c)
  <2> DEFINE e == P!Sealed(op.entry)
  <2>1. P!Save(k, e) /\ P!Continue(c, "complete", e)
    BY <1>5 DEF P!Seal
  <2>2. /\ e \in P!Entry /\ EntryIsSound(e) /\ e.owner = op.run /\ e.completed
    BY <1>2, EntriesMade
  <2> HIDE DEF e
  <2>3. "complete" \in P!Stage /\ MayBeAt("complete", op.run, e)
    BY <2>2 DEF P!Stage, MayBeAt
  <2> QED BY <1>1, <2>1, <2>2, <2>3, CheckpointKeeps
<1>6. CASE P!FailEntry(c)
  <2> DEFINE e == [op.entry EXCEPT !.receipt = P!Partial(op.entry)]
  <2>1. P!Save(k, e) /\ P!Continue(c, "fail_run", e)
    BY <1>6 DEF P!FailEntry
  <2>2. /\ e \in P!Entry /\ EntryIsSound(e) /\ e.owner = op.run
    BY <1>2, EntriesMade
  <2> HIDE DEF e
  <2>3. "fail_run" \in P!Stage /\ MayBeAt("fail_run", op.run, e)
    BY <2>2 DEF P!Stage, MayBeAt
  <2> QED BY <1>1, <2>1, <2>2, <2>3, CheckpointKeeps
<1>7. CASE P!Checkpoint(c)
  <2> DEFINE next == CASE op.stage = "save_branch"   -> "pull"
                       [] op.stage = "save_progress" -> "writeback"
                       [] OTHER -> P!NextLiveStage(op.entry)
  <2>1. /\ P!Save(k, op.entry)
        /\ IF next = "fail" THEN P!Fail(c, "operator")
                            ELSE P!Continue(c, next, op.entry)
    BY <1>7 DEF P!Checkpoint
  <2>2. next \in P!Stage /\ MayBeAt(next, op.run, op.entry)
    <3>1. CASE op.stage = "save_branch"
      BY <1>2, <1>3, <3>1 DEF OpIsSound, MayBeAt, P!Stage
    <3>2. CASE op.stage = "save_progress"
      BY <1>2, <1>3, <3>2 DEF OpIsSound, MayBeAt, P!Stage
    <3>3. CASE op.stage \notin {"save_branch", "save_progress"}
      BY <1>2, <3>3, NextStage
    <3> QED BY <3>1, <3>2, <3>3
  <2> HIDE DEF next
  <2> QED BY <1>1, <1>2, <2>1, <2>2, CheckpointKeeps
<1> QED BY <1>4, <1>5, <1>6, <1>7

\* The calls, whether their answers arrive or not, and the end of a writeback.
LEMMA CallsKeep ==
  ASSUME IInv, NEW c \in Clients, ops[c] # None, UNCHANGED analysis,
         \/ P!Call(c) \/ P!Written(c) \/ P!CallFails(c)
  PROVE  IInv'
<1> DEFINE op == ops[c]
           k  == KeyOf[op.run]
<1>1. /\ op.stage \in {"branch", "pull", "writeback"}
      /\ UNCHANGED <<runs, ledger, sinks>>
  BY DEF P!Call, P!EnsureBranch, P!EnsurePull, P!Mutate, P!Written,
         P!CallFails, P!At
<1>2. /\ op.run \in Runs /\ op.entry \in P!Entry /\ EntryIsSound(op.entry)
      /\ op.entry.owner = op.run
  BY <1>1, AtWork
<1>3. OpIsSound(op)
  BY ApprovalFacts
<1>4. /\ sinks \in P!Config /\ opened \in [P!Sites -> Nat]
      /\ sinks.github => sinks.repo # None
  BY LifecycleAssumption DEF IInv, TypeInv
<1>5. CASE P!EnsureBranch(c)
  <2> DEFINE e == [op.entry EXCEPT !.branch = TRUE]
  <2>1. /\ op.stage = "branch" /\ sinks.github /\ LiveKeys # {}
    BY <1>3, <1>5 DEF P!EnsureBranch, P!At, OpIsSound
  <2>2. /\ branches' = branches \cup {<<op.run, sinks.repo>>}
        /\ opened' = opened /\ applied' = applied
        /\ \/ P!Continue(c, "save_branch", e)
           \/ \E error \in {"retryable", "operator"} : P!Fail(c, error)
    BY <1>5 DEF P!EnsureBranch
  <2>3. e \in P!Entry /\ EntryIsSound(e) /\ e.owner = op.run
    BY <1>2, EntriesMade
  <2>4. \A s \in P!Sites : s \in branches' \/ opened'[s] > 0 =>
           \/ s \in branches \/ opened[s] > 0
           \/ s[1] = op.run /\ LiveKeys # {}
    BY <2>1, <2>2
  <2>5. "save_branch" \in P!Stage /\ MayBeAt("save_branch", op.run, e)
    BY <2>1, <2>3 DEF P!Stage, MayBeAt
  <2> HIDE DEF e
  <2> QED BY <1>1, <1>4, <2>2, <2>3, <2>4, <2>5, CallKeeps
<1>6. CASE P!EnsurePull(c)
  <2> DEFINE site == <<op.run, sinks.repo>>
             now  == P!OpenedAfter(site)
             e    == [op.entry EXCEPT !.pull = now[site]]
  <2>1. /\ op.stage = "pull" /\ sinks.github /\ LiveKeys # {}
    BY <1>3, <1>6 DEF P!EnsurePull, P!At, OpIsSound
  <2>2. site \in P!Sites
    BY <1>2, <1>4, <2>1 DEF P!Sites, P!Config
  <2>3. now \in [P!Sites -> Nat] /\ \A s \in P!Sites \ {site} : now[s] = opened[s]
    BY <1>4, <2>2 DEF P!OpenedAfter
  <2>4. now[site] \in Nat
    BY <2>2, <2>3
  <2>5. e \in P!Entry /\ EntryIsSound(e) /\ e.owner = op.run
    BY <1>2, <2>4, EntriesMade
  <2>6. /\ opened' = now /\ branches' = branches /\ applied' = applied
        /\ \/ P!Continue(c, "save_pull", e)
           \/ \E error \in {"retryable", "operator"} : P!Fail(c, error)
    BY <1>6 DEF P!EnsurePull
  <2>7. site[1] = op.run
    OBVIOUS
  <2>8. "save_pull" \in P!Stage /\ MayBeAt("save_pull", op.run, e)
    BY <2>5 DEF P!Stage, MayBeAt
  <2> HIDE DEF site, now, e
  <2>9. \A s \in P!Sites : s \in branches' \/ opened'[s] > 0 =>
           \/ s \in branches \/ opened[s] > 0
           \/ s[1] = op.run /\ LiveKeys # {}
    BY <2>1, <2>3, <2>6, <2>7
  <2> QED BY <1>1, <2>3, <2>5, <2>6, <2>8, <2>9, CallKeeps
<1>7. ASSUME NEW m \in P!Mutations, P!Mutate(c, m) PROVE IInv'
  <2> DEFINE e == P!Progress(op.entry, m)
  <2>1. /\ op.stage = "writeback" /\ sinks.datahub /\ LiveKeys # {}
    BY <1>3, <1>7 DEF P!Mutate, P!At, OpIsSound
  <2>2. /\ applied' = applied \cup {<<k, sinks.server, m>>}
        /\ opened' = opened /\ branches' = branches
        /\ \/ P!Continue(c, "save_progress", e)
           \/ \E error \in {"retryable", "operator"} : P!Fail(c, error)
    BY <1>7 DEF P!Mutate
  <2>3. e \in P!Entry /\ EntryIsSound(e) /\ e.owner = op.run
    BY <1>2, EntriesMade
  <2>4. \A a \in applied' : a \in applied \/ (a[1] = k /\ LiveKeys # {})
    BY <2>1, <2>2
  <2>5. "save_progress" \in P!Stage /\ MayBeAt("save_progress", op.run, e)
    BY <2>1, <2>3 DEF P!Stage, MayBeAt
  <2> HIDE DEF e
  <2> QED BY <1>1, <1>4, <2>2, <2>3, <2>4, <2>5, CallKeeps
<1>8. CASE P!Written(c)
  <2> DEFINE e == [op.entry EXCEPT !.writeback = "written"]
  <2>1. P!Continue(c, "save_written", e) /\ UNCHANGED <<branches, opened, applied>>
    BY <1>8 DEF P!Written, P!world
  <2>2. e \in P!Entry /\ EntryIsSound(e) /\ e.owner = op.run
    BY <1>2, EntriesMade
  <2>3. "save_written" \in P!Stage /\ MayBeAt("save_written", op.run, e)
    BY <2>2 DEF P!Stage, MayBeAt
  <2> HIDE DEF e
  <2> QED BY <1>1, <1>4, <2>1, <2>2, <2>3, CallKeeps
<1>9. CASE P!CallFails(c)
  <2>1. /\ \E error \in {"retryable", "operator"} : P!Fail(c, error)
        /\ UNCHANGED <<branches, opened, applied>>
    BY <1>9 DEF P!CallFails, P!world
  <2>2. "fail" \in P!Stage /\ MayBeAt("fail", op.run, op.entry)
    BY <1>2 DEF P!Stage, MayBeAt
  <2> QED BY <1>1, <1>2, <1>4, <2>1, <2>2, CallKeeps
<1> QED BY <1>5, <1>6, <1>7, <1>8, <1>9 DEF P!Call

\* A store that raises: the approval leaves, or reports the entry as it was saved.
LEMMA StoreErrorKeeps ==
  ASSUME IInv, NEW c \in Clients, ops[c] # None, UNCHANGED analysis,
         P!StoreError(c)
  PROVE  IInv'
<1> DEFINE op == ops[c]
           k  == KeyOf[op.run]
<1>1. UNCHANGED <<runs, ledger, sinks, branches, opened, applied>>
  BY DEF P!StoreError, P!world
<1>2. /\ op \in P!Op /\ op.run \in Runs /\ OpIsSound(op)
      /\ k \in Keys /\ ledger[k] # None /\ ledger[k] \in P!Entry
  BY ApprovalFacts
<1>3. /\ runs' \in [Runs -> Row \cup {None}]
      /\ RunsAreJustified' /\ Advance
  BY <1>1, NoMoveKeeps DEF IInv
<1>4. /\ ledger' \in [Keys -> P!Entry \cup {None}]
      /\ LedgerIsSound' /\ LedgerPersists
  BY <1>1, NoSaveKeeps
<1>5. EffectsAreBegun' /\ opened' \in [P!Sites -> Nat]
  BY <1>1, <1>3, <1>4, EffectsKeep
<1>6. /\ ops' \in [Clients -> P!Op \cup {None}]
      /\ \A d \in Clients \ {c} : ops'[d] = ops[d]
      /\ ops'[c] # None => OpIsSound(ops[c])'
  <2>1. CASE P!Leave(c)
    BY <2>1, Leaves
  <2>2. CASE ~P!Leave(c)
    <3> DEFINE new == [op EXCEPT !.stage = "fail", !.error = "retryable",
                                 !.entry = ledger[k]]
    <3>1. /\ op.stage \in {"save_branch", "save_progress", "save_written"}
          /\ ops' = [ops EXCEPT ![c] = new]
      BY <2>2 DEF P!StoreError
    <3>2. /\ new \in P!Op /\ new.stage = "fail" /\ new.entry = ledger[k]
          /\ new.run = op.run /\ new.seen = op.seen
      BY <1>2 DEF P!Op, P!Stage
    <3>3. /\ Begun(op.run) /\ ledger[k].owner = op.run
      BY <3>1, AtWork
    <3>4. EntryIsSound(ledger[k]) /\ runs[op.run] # None
      BY <1>2 DEF IInv, LedgerIsSound, OpIsSound
    <3> HIDE DEF new
    <3>5. /\ ops' \in [Clients -> P!Op \cup {None}] /\ ops'[c] = new
          /\ \A d \in Clients \ {c} : ops'[d] = ops[d]
      BY <3>1, <3>2 DEF IInv, TypeInv
    <3>6. OpIsSound(ops[c])'
      BY <1>1, <1>2, <3>2, <3>3, <3>4, <3>5 DEF OpIsSound, Begun
    <3> QED BY <3>5, <3>6
  <2> QED BY <2>1, <2>2
<1> QED BY <1>1, <1>3, <1>4, <1>5, <1>6, ApprovalKeeps

-----------------------------------------------------------------------------
(* An approval begins.                                                     *)

\* A new approval is an approval.
LEMMA BeginGives ==
  ASSUME IInv, NEW c \in Clients, NEW r \in Runs, runs[r] # None,
         NEW token \in BOOLEAN, NEW stage \in P!Stage, NEW e \in P!Entry,
         P!Begin(c, r, token, stage, e), UNCHANGED <<runs, sinks>>,
         ledger' \in [Keys -> P!Entry \cup {None}],
         ledger'[KeyOf[r]] # None, ledger'[KeyOf[r]].owner = e.owner,
         EntryIsSound(e), MayBeAt(stage, r, e),
         stage \notin {"reuse", "prepare", "publish"} => Begun(r)
  PROVE  /\ ops' \in [Clients -> P!Op \cup {None}]
         /\ \A d \in Clients \ {c} : ops'[d] = ops[d]
         /\ OpIsSound(ops[c])'
<1> DEFINE op == [run |-> r, seen |-> runs[r].state, token |-> token,
                  stage |-> stage, entry |-> e, error |-> None]
<1>1. runs[r].state \in RunState
  BY DEF IInv, TypeInv, Row
<1>2. op \in P!Op
  BY <1>1 DEF P!Op, RunState, P!RunState
<1>3. ops' = [ops EXCEPT ![c] = op]
  BY DEF P!Begin
<1>4. /\ op.run = r /\ op.seen = runs[r].state /\ op.stage = stage
      /\ op.entry = e
  OBVIOUS
<1> HIDE DEF op
<1>5. /\ ops' \in [Clients -> P!Op \cup {None}] /\ ops'[c] = op
      /\ \A d \in Clients \ {c} : ops'[d] = ops[d]
  BY <1>2, <1>3 DEF IInv, TypeInv
<1>6. OpIsSound(ops[c])'
  BY <1>4, <1>5 DEF OpIsSound, MayBeAt, Begun
<1> QED BY <1>5, <1>6

\* A new entry is an entry; it has a destination only under a live key.
LEMMA NewEntryGives ==
  ASSUME IInv, NEW r \in Runs
  PROVE  /\ P!NewEntry(r) \in P!Entry /\ EntryIsSound(P!NewEntry(r))
         /\ P!NewEntry(r).owner = r
<1>1. /\ sinks \in P!Config
      /\ KeyOf[r] \in LiveKeys => LiveKeys # {}
  BY LifecycleAssumption DEF IInv, TypeInv
<1>2. P!NewEntry(r) \in P!Entry
  BY <1>1 DEF P!NewEntry, P!ConfiguredIntent, P!Entry, P!Config
<1>3. P!NewEntry(r).owner = r /\ ~P!NewEntry(r).completed
  BY DEF P!NewEntry
<1>4. P!NewEntry(r).repo # None \/ P!NewEntry(r).server # None => LiveKeys # {}
  BY <1>1 DEF P!NewEntry, P!ConfiguredIntent
<1> QED BY <1>2, <1>3, <1>4 DEF EntryIsSound

\* A key is claimed, or its owner takes it up again.
LEMMA BeginPublicationKeeps ==
  ASSUME IInv, NEW c \in Clients, NEW r \in Runs, NEW token \in BOOLEAN,
         runs[r] # None, UNCHANGED analysis, P!BeginPublication(c, r, token)
  PROVE  IInv'
<1> DEFINE e == P!EntryFor(r)
           stage == IF e.mode = "preview" THEN "prepare" ELSE "publish"
           k == KeyOf[r]
<1>1. /\ P!Save(k, e) /\ P!Begin(c, r, token, stage, e) /\ ~e.completed
      /\ P!Accepted(r, token)
      /\ UNCHANGED <<runs, sinks, branches, opened, applied>>
  BY DEF P!BeginPublication, P!world
<1>2. k \in Keys
  BY LifecycleAssumption
<1>3. /\ e \in P!Entry /\ EntryIsSound(e) /\ e.owner = r
      /\ ledger[k] # None => e.owner = ledger[k].owner
  <2>1. CASE ledger[k] = None
    BY <2>1, NewEntryGives DEF P!EntryFor
  <2>2. CASE ledger[k] # None
    <3>1. e = ledger[k]
      BY <2>2 DEF P!EntryFor
    <3>2. ledger[k].owner = r
      BY <1>1, <2>2, <3>1 DEF P!Accepted
    <3> QED BY <1>2, <2>2, <3>1, <3>2 DEF IInv, TypeInv, LedgerIsSound
  <2> QED BY <2>1, <2>2
<1>4. stage \in P!Stage /\ stage \in {"prepare", "publish"}
  BY DEF P!Stage
<1> HIDE DEF e, stage
<1>5. MayBeAt(stage, r, e)
  BY <1>3, <1>4 DEF MayBeAt
<1>6. /\ ledger' \in [Keys -> P!Entry \cup {None}] /\ ledger'[k] = e
      /\ LedgerIsSound' /\ LedgerPersists
  BY <1>1, <1>2, <1>3, SaveKeeps
<1>7. e # None
  BY <1>3, NoneAssumption
<1>8. /\ ops' \in [Clients -> P!Op \cup {None}]
      /\ \A d \in Clients \ {c} : ops'[d] = ops[d]
      /\ OpIsSound(ops[c])'
  BY <1>1, <1>3, <1>4, <1>5, <1>6, <1>7, BeginGives
<1>9. /\ runs' \in [Runs -> Row \cup {None}]
      /\ RunsAreJustified' /\ Advance
  BY <1>1, NoMoveKeeps DEF IInv
<1>10. EffectsAreBegun' /\ opened' \in [P!Sites -> Nat]
  BY <1>1, <1>6, <1>9, EffectsKeep
<1> QED BY <1>1, <1>6, <1>8, <1>9, <1>10, ApprovalKeeps

\* A completed key is reused.
LEMMA BeginReuseKeeps ==
  ASSUME IInv, NEW c \in Clients, NEW r \in Runs, NEW token \in BOOLEAN,
         runs[r] # None, UNCHANGED analysis, P!BeginReuse(c, r, token)
  PROVE  IInv'
<1> DEFINE e == ledger[KeyOf[r]]
           stage == IF runs[r].state \in {"preparing_preview", "publishing"}
                    THEN "finish_reuse" ELSE "reuse"
<1>1. /\ e # None /\ e.completed /\ P!Begin(c, r, token, stage, e)
      /\ UNCHANGED <<runs, ledger, sinks, branches, opened, applied>>
  BY DEF P!BeginReuse, P!world
<1>2. KeyOf[r] \in Keys
  BY LifecycleAssumption
<1>3. e \in P!Entry /\ EntryIsSound(e)
  BY <1>1, <1>2 DEF IInv, TypeInv, LedgerIsSound
<1>4. /\ stage \in P!Stage /\ stage \in {"finish_reuse", "reuse"}
      /\ stage # "reuse" => Begun(r)
  BY DEF P!Stage, Begun, Working
<1>5. MayBeAt(stage, r, e)
  BY <1>1, <1>4 DEF MayBeAt
<1>6. /\ ledger' \in [Keys -> P!Entry \cup {None}]
      /\ LedgerIsSound' /\ LedgerPersists
  BY <1>1, NoSaveKeeps
<1>7. ledger'[KeyOf[r]] = e
  BY <1>1
<1> HIDE DEF e, stage
<1>8. /\ ops' \in [Clients -> P!Op \cup {None}]
      /\ \A d \in Clients \ {c} : ops'[d] = ops[d]
      /\ OpIsSound(ops[c])'
  BY <1>1, <1>3, <1>4, <1>5, <1>6, <1>7, BeginGives
<1>9. /\ runs' \in [Runs -> Row \cup {None}]
      /\ RunsAreJustified' /\ Advance
  BY <1>1, NoMoveKeeps DEF IInv
<1>10. EffectsAreBegun' /\ opened' \in [P!Sites -> Nat]
  BY <1>1, <1>6, <1>9, EffectsKeep
<1> QED BY <1>1, <1>6, <1>8, <1>9, <1>10, ApprovalKeeps

\* Only an approval in progress takes a step.
LEMMA StepIsBusy ==
  ASSUME NEW c, P!Step(c)
  PROVE  ops[c] # None
  BY DEF P!Step, P!Call, P!ReuseTransition, P!FinishReuse, P!PreparePreview,
         P!SavePreview, P!StartPublishing, P!EnsureBranch, P!EnsurePull,
         P!Mutate, P!Written, P!CallFails, P!Checkpoint, P!Seal, P!Complete,
         P!FailEntry, P!FailRun, P!StoreError, P!At

\* Approvals keep the invariant.
LEMMA PublishKeeps ==
  ASSUME IInv, Publish
  PROVE  IInv'
<1>1. UNCHANGED analysis
  BY DEF Publish
<1>2. PICK c \in Clients :
        \/ \E r \in Runs, token \in BOOLEAN :
             /\ runs[r] # None
             /\ \/ P!BeginPublication(c, r, token)
                \/ P!BeginReuse(c, r, token)
        \/ P!Step(c)
  BY DEF Publish, Analysed
<1>3. CASE P!Step(c)
  <2>1. ops[c] # None
    BY <1>3, StepIsBusy
  <2> QED BY <1>1, <1>3, <2>1, ReuseKeeps, PrepareKeeps, StartPublishingKeeps,
             FinishKeeps, SavesKeep, CallsKeep, StoreErrorKeeps DEF P!Step
<1> QED BY <1>1, <1>2, <1>3, BeginPublicationKeeps, BeginReuseKeeps

-----------------------------------------------------------------------------
(* The invariant, and what follows from it.                                *)

\* What neither moves a run nor takes part in an approval.
LEMMA OthersKeep ==
  ASSUME IInv,
         \/ Age \/ Shutdown
         \/ UNCHANGED vars
  PROVE  IInv'
<1>1. UNCHANGED <<runs, tasks, settings, ledger, sinks, ops, branches, opened,
                  applied>>
  BY DEF Age, Shutdown, P!EvidenceExpires, P!world, A!Drain, A!Gathered, vars,
         analysis, publication
<1> QED BY <1>1
        DEF IInv, TypeInv, RunsAreJustified, TasksAreSound, TaskIsSound,
            LedgerIsSound, EntryIsSound, OpsAreSound, OpIsSound,
            EffectsAreBegun, Begun, Offered, Justifies, P!Approvable,
            A!ErrorCode

\* A restart leaves the rows, the ledger and the world, and nothing half done.
LEMMA RestartKeeps ==
  ASSUME IInv, Restart
  PROVE  IInv'
<1>1. /\ UNCHANGED <<runs, ledger, branches, opened, applied>>
      /\ tasks' = [r \in Runs |-> None] /\ settings' \in AnalysisConfigs
      /\ ops' = [c \in Clients |-> None] /\ sinks' \in PublicationConfigs
  BY DEF Restart, A!Restart, P!Restart, P!world
<1>2. TypeInv'
  BY <1>1 DEF IInv, TypeInv
<1>3. TasksAreSound' /\ OpsAreSound'
  BY <1>1 DEF TasksAreSound, OpsAreSound
<1>4. RunsAreJustified' /\ LedgerIsSound' /\ EffectsAreBegun'
  BY <1>1
  DEF IInv, RunsAreJustified, LedgerIsSound, EntryIsSound, EffectsAreBegun,
      Begun, Justifies, P!Approvable, A!ErrorCode
<1> QED BY <1>2, <1>3, <1>4 DEF IInv

\* Nothing has happened yet.
LEMMA IInvInit == Init => IInv
<1> SUFFICES ASSUME Init PROVE IInv
  OBVIOUS
<1>1. /\ runs = [r \in Runs |-> None] /\ tasks = [r \in Runs |-> None]
      /\ settings \in AnalysisConfigs
      /\ ledger = [k \in Keys |-> None] /\ sinks \in PublicationConfigs
      /\ ops = [c \in Clients |-> None]
      /\ branches = {} /\ applied = {} /\ opened = [s \in P!Sites |-> 0]
  BY DEF Init, A!Init
<1>2. TypeInv
  BY <1>1 DEF TypeInv
<1>3. /\ RunsAreJustified /\ TasksAreSound /\ LedgerIsSound /\ OpsAreSound
      /\ EffectsAreBegun
  BY <1>1
  DEF RunsAreJustified, TasksAreSound, LedgerIsSound, OpsAreSound,
      EffectsAreBegun
<1> QED BY <1>2, <1>3 DEF IInv

\* Every step keeps it.
LEMMA IInvStep == IInv /\ [Next]_vars => IInv'
  BY AnalyseKeeps, PublishKeeps, OthersKeep, RestartKeeps DEF Next

\* The inductive invariant: rows, tasks, approvals, entries and effects fit
\* together, whatever the two components do to the same row in between.
THEOREM Invariance == Spec => []IInv
<1>1. Init => IInv
  BY IInvInit
<1>2. IInv /\ [Next]_vars => IInv'
  BY IInvStep
<1> QED BY <1>1, <1>2, PTL DEF Spec

\* A run that has touched anything has begun, and rests on live evidence.
LEMMA TouchedHasBegun ==
  ASSUME IInv, NEW r \in Runs, Touched(r)
  PROVE  Begun(r) /\ LiveKeys # {}
  BY DEF Touched, IInv, EffectsAreBegun

\* Nothing reaches GitHub or DataHub but by a run whose analysis justifies it:
\* about the asset asked for, verified, free of blockers and, where there is a
\* warehouse, passed by it.
THEOREM EffectsJustified == Spec => []EffectsAreJustified
<1>1. IInv => EffectsAreJustified
  <2> SUFFICES ASSUME IInv, NEW r \in Runs, Touched(r)
               PROVE  /\ Analysed(r)
                      /\ runs[r].analysis.blockers = {}
                      /\ runs[r].analysis.finding.matches
                      /\ runs[r].analysis.finding.verified
                      /\ runs[r].analysis.under.warehouse =>
                           runs[r].analysis.finding.warehouse = "passed"
    BY DEF EffectsAreJustified
  <2>1. Begun(r) /\ LiveKeys # {}
    BY TouchedHasBegun
  <2>2. Justifies(runs[r].analysis)
    BY <2>1 DEF IInv, RunsAreJustified, Begun, Working, P!Approvable
  <2> QED BY <2>1, <2>2 DEF Analysed, Begun, Justifies
<1> QED BY <1>1, Invariance, PTL

\* A run that its analysis has failed has had no effect and has no receipt: of a
\* late failure and an approval, only one gets hold of the row.
THEOREM FailedRunsClean == Spec => []FailedRunsAreClean
<1>1. IInv => FailedRunsAreClean
  <2> SUFFICES ASSUME IInv, NEW r \in Runs, runs[r] # None,
                      runs[r].state = "failed"
               PROVE  ~Touched(r) /\ runs[r].publication = None
    BY DEF FailedRunsAreClean
  <2>1. ~Begun(r) /\ runs[r].state \notin Working
    BY DEF Begun, Working
  <2> QED BY <2>1, TouchedHasBegun DEF IInv, RunsAreJustified
<1> QED BY <1>1, Invariance, PTL

-----------------------------------------------------------------------------
(* Lifecycle implements Publication, over what it sees of the rows.        *)

\* A row seen by Publication.
LEMMA Seen ==
  ASSUME NEW r \in Runs
  PROVE  PublicationView[r] =
           IF Begun(r)
           THEN [state |-> runs[r].state, analysis |-> "eligible",
                 publication |-> runs[r].publication,
                 error |-> IF runs[r].error \in {"retryable", "operator"}
                           THEN runs[r].error ELSE None]
           ELSE [state |-> "awaiting_approval", analysis |-> "eligible",
                 publication |-> None, error |-> None]
  BY DEF PublicationView

\* A transition of an approval is one of the rows that Publication sees.
LEMMA MoveIsSeen ==
  ASSUME IInv, NEW r \in Runs, runs[r] # None, NEW to \in Working,
         NEW given, GivenOK(given), given.analysis = None,
         given.error \in {"retryable", "operator", None},
         P!MoveRun(r, to, given)
  PROVE  AsPublication!MoveRun(r, to, given)
<1> DEFINE row == runs[r]
           new == Moved(row, to, given)
           seen == PublicationView[r]
<1>1. /\ runs \in [Runs -> Row \cup {None}]
      /\ row.state \in RunState /\ to \in AllowedTransitions[row.state]
      /\ runs' = [runs EXCEPT ![r] = new]
  BY SameMoves DEF Moves, IInv, TypeInv, Row
<1>2. row.state \in P!Approvable
  BY <1>1, WhereItLeads
<1>3. ~Begun(r) => row.state = "awaiting_approval" /\ row.publication = None
  BY <1>2 DEF Begun, P!Approvable, Working, IInv, RunsAreJustified
<1>4. seen = IF Begun(r)
             THEN [state |-> row.state, analysis |-> "eligible",
                   publication |-> row.publication,
                   error |-> IF row.error \in {"retryable", "operator"}
                             THEN row.error ELSE None]
             ELSE [state |-> "awaiting_approval", analysis |-> "eligible",
                   publication |-> None, error |-> None]
  BY Seen
<1>5. seen.state = row.state /\ seen.publication = row.publication
  BY <1>3, <1>4
<1>6. AsPublication!MayMove(seen, to)
  BY <1>1, <1>5
  DEF AsPublication!MayMove, AsPublication!AllowedTransitions,
      AllowedTransitions, RunState, AsPublication!RunState
<1>7. /\ runs'[r] = new /\ Begun(r)'
      /\ new.state = to
      /\ new.publication = IF given.publication # None THEN given.publication
                           ELSE row.publication
      /\ new.error = IF to = "completed" \/ given.clearError THEN None
                     ELSE IF given.error # None THEN given.error ELSE row.error
      /\ \A q \in Runs \ {r} : runs'[q] = runs[q]
  <2>1. Begun(r)'
    BY ApprovalMoves
  <2> QED BY <1>1, <2>1 DEF Moved
<1> DEFINE next == AsPublication!Moved(seen, to, given)
<1>8. PublicationView'[r] = next
  <2>1. PublicationView'[r] =
          [state |-> to, analysis |-> "eligible",
           publication |-> new.publication,
           error |-> IF new.error \in {"retryable", "operator"}
                     THEN new.error ELSE None]
    BY <1>7 DEF PublicationView
  <2>2. next = [state |-> to, analysis |-> "eligible",
                publication |-> IF given.publication # None
                                THEN given.publication ELSE row.publication,
                error |-> IF to = "completed" \/ given.clearError THEN None
                          ELSE IF given.error # None THEN given.error
                          ELSE seen.error]
    BY <1>4, <1>5 DEF AsPublication!Moved
  <2>3. (IF new.error \in {"retryable", "operator"} THEN new.error ELSE None) =
          (IF to = "completed" \/ given.clearError THEN None
           ELSE IF given.error # None THEN given.error ELSE seen.error)
    <3>1. CASE to = "completed" \/ given.clearError
      BY <1>7, <3>1, NoneAssumption
    <3>2. CASE ~(to = "completed" \/ given.clearError) /\ given.error # None
      BY <1>7, <3>2
    <3>3. CASE ~(to = "completed" \/ given.clearError) /\ given.error = None
      <4>1. new.error = row.error
        BY <1>7, <3>3
      <4>2. CASE Begun(r)
        BY <1>4, <3>3, <4>1, <4>2
      <4>3. CASE ~Begun(r)
        <5>1. row.error \notin {"retryable", "operator"}
          BY <4>3, NoneAssumption
          DEF Begun, IInv, RunsAreJustified, A!ErrorCode
        <5> QED BY <1>4, <3>3, <4>1, <4>3, <5>1
      <4> QED BY <4>2, <4>3
    <3> QED BY <3>1, <3>2, <3>3
  <2> QED BY <1>7, <2>1, <2>2, <2>3
<1>9. \A q \in Runs \ {r} : PublicationView'[q] = PublicationView[q]
  BY <1>7 DEF PublicationView, Begun
<1>10. PublicationView' = [PublicationView EXCEPT ![r] = next]
  BY <1>8, <1>9 DEF PublicationView
<1> QED BY <1>6, <1>10 DEF AsPublication!MoveRun

\* Rows left alone are seen as they were.
LEMMA StaysSeen ==
  ASSUME runs' = runs
  PROVE  PublicationView' = PublicationView
  BY DEF PublicationView, Begun

\* What an approval computes does not depend on the rows.
LEMMA SameForBoth ==
  /\ \A e : /\ AsPublication!NextLiveStage(e) = P!NextLiveStage(e)
            /\ AsPublication!DestinationMismatch(e) = P!DestinationMismatch(e)
            /\ AsPublication!Sealed(e) = P!Sealed(e)
            /\ AsPublication!Partial(e) = P!Partial(e)
  /\ \A r : /\ AsPublication!NewEntry(r) = P!NewEntry(r)
            /\ AsPublication!ConfiguredIntent(r) = P!ConfiguredIntent(r)
            /\ AsPublication!EntryFor(r) = P!EntryFor(r)
  /\ AsPublication!Nothing = P!Nothing
  /\ \A clear : AsPublication!ClearingError(clear) = P!ClearingError(clear)
<1>1. \A e : /\ AsPublication!NextLiveStage(e) = P!NextLiveStage(e)
             /\ AsPublication!DestinationMismatch(e) = P!DestinationMismatch(e)
             /\ AsPublication!Sealed(e) = P!Sealed(e)
             /\ AsPublication!Partial(e) = P!Partial(e)
  BY DEF AsPublication!NextLiveStage, P!NextLiveStage,
         AsPublication!DestinationMismatch, P!DestinationMismatch,
         AsPublication!Sealed, P!Sealed, AsPublication!FinalLabel, P!FinalLabel,
         AsPublication!Partial, P!Partial
<1>2. \A r : AsPublication!ConfiguredIntent(r) = P!ConfiguredIntent(r)
  BY DEF AsPublication!ConfiguredIntent, P!ConfiguredIntent
<1>3. \A r : AsPublication!NewEntry(r) = P!NewEntry(r)
  BY <1>2 DEF AsPublication!NewEntry, P!NewEntry
<1>4. \A r : AsPublication!EntryFor(r) = P!EntryFor(r)
  BY <1>3 DEF AsPublication!EntryFor, P!EntryFor
<1>5. /\ AsPublication!Nothing = P!Nothing
      /\ \A clear : AsPublication!ClearingError(clear) = P!ClearingError(clear)
  BY DEF AsPublication!Nothing, P!Nothing, AsPublication!ClearingError,
         P!ClearingError
<1> QED BY <1>1, <1>2, <1>3, <1>4, <1>5

\* Steps of an approval that move no row.
LEMMA CallIsSeen ==
  ASSUME NEW c \in Clients, P!Call(c) \/ P!Written(c) \/ P!CallFails(c)
  PROVE  AsPublication!Call(c) \/ AsPublication!Written(c)
           \/ AsPublication!CallFails(c)
<1>1. PublicationView' = PublicationView
  BY StaysSeen DEF P!Call, P!EnsureBranch, P!EnsurePull, P!Mutate, P!Written,
                   P!CallFails
<1>2. CASE P!EnsureBranch(c)
  BY <1>1, <1>2
  DEF P!EnsureBranch, AsPublication!EnsureBranch, AsPublication!Call, P!At,
      AsPublication!At, P!Continue, AsPublication!Continue, P!Fail,
      AsPublication!Fail
<1>3. CASE P!EnsurePull(c)
  BY <1>1, <1>3
  DEF P!EnsurePull, AsPublication!EnsurePull, AsPublication!Call, P!At,
      AsPublication!At, P!Continue, AsPublication!Continue, P!Fail,
      AsPublication!Fail, P!OpenedAfter, AsPublication!OpenedAfter
<1>4. ASSUME NEW m \in P!Mutations, P!Mutate(c, m)
      PROVE  AsPublication!Mutate(c, m) /\ m \in AsPublication!Mutations
  BY <1>1, <1>4
  DEF P!Mutate, AsPublication!Mutate, P!At, AsPublication!At, P!Continue,
      AsPublication!Continue, P!Fail, AsPublication!Fail, P!Due,
      AsPublication!Due, P!Progress, AsPublication!Progress, P!Earlier,
      AsPublication!Earlier, P!Mutations, AsPublication!Mutations
<1>5. CASE P!Written(c)
  BY <1>1, <1>5
  DEF P!Written, AsPublication!Written, P!At, AsPublication!At, P!Continue,
      AsPublication!Continue, P!Mutations, AsPublication!Mutations, P!world,
      AsPublication!world
<1>6. CASE P!CallFails(c)
  BY <1>1, <1>6
  DEF P!CallFails, AsPublication!CallFails, P!At, AsPublication!At, P!Fail,
      AsPublication!Fail, P!world, AsPublication!world
<1> QED BY <1>2, <1>3, <1>4, <1>5, <1>6 DEF P!Call, AsPublication!Call

\* Saves, and a store that fails before one.
LEMMA SaveIsSeen ==
  ASSUME NEW c \in Clients,
         \/ P!SavePreview(c) \/ P!Checkpoint(c) \/ P!Seal(c)
         \/ P!FailEntry(c) \/ P!StoreError(c)
  PROVE  \/ AsPublication!SavePreview(c) \/ AsPublication!Checkpoint(c)
         \/ AsPublication!Seal(c)
         \/ AsPublication!FailEntry(c) \/ AsPublication!StoreError(c)
<1>1. PublicationView' = PublicationView
  BY StaysSeen DEF P!SavePreview, P!Checkpoint, P!Seal, P!FailEntry,
                   P!StoreError
<1>2. CASE P!SavePreview(c)
  BY <1>1, <1>2
  DEF P!SavePreview, AsPublication!SavePreview, P!At, AsPublication!At,
      P!Continue, AsPublication!Continue, P!Save, AsPublication!Save, P!world,
      AsPublication!world
<1>3. CASE P!Checkpoint(c)
  BY <1>1, <1>3, SameForBoth
  DEF P!Checkpoint, AsPublication!Checkpoint, P!At, AsPublication!At,
      P!Continue, AsPublication!Continue, P!Save, AsPublication!Save, P!world,
      AsPublication!world, P!Fail, AsPublication!Fail
<1>4. CASE P!Seal(c)
  BY <1>1, <1>4, SameForBoth
  DEF P!Seal, AsPublication!Seal, P!At, AsPublication!At,
      P!Continue, AsPublication!Continue, P!Save, AsPublication!Save, P!world,
      AsPublication!world
<1>5. CASE P!FailEntry(c)
  BY <1>1, <1>5, SameForBoth
  DEF P!FailEntry, AsPublication!FailEntry, P!At, AsPublication!At,
      P!Continue, AsPublication!Continue, P!Save, AsPublication!Save, P!world,
      AsPublication!world
<1>6. CASE P!StoreError(c)
  BY <1>1, <1>6
  DEF P!StoreError, AsPublication!StoreError, P!Leave, AsPublication!Leave,
      P!world, AsPublication!world
<1> QED BY <1>2, <1>3, <1>4, <1>5, <1>6

\* The first transition of an approval, or of a reuse.
LEMMA WorkIsSeen ==
  ASSUME IInv, NEW c \in Clients, ops[c] # None,
         P!ReuseTransition(c) \/ P!PreparePreview(c) \/ P!StartPublishing(c)
  PROVE  \/ AsPublication!ReuseTransition(c) \/ AsPublication!PreparePreview(c)
         \/ AsPublication!StartPublishing(c)
<1>1. PICK r \in Runs : r = ops[c].run
  BY ApprovalFacts
<1>2. runs[r] # None
  BY <1>1, ApprovalFacts
<1>3. ASSUME NEW to \in Working, NEW given,
             \/ given = P!Nothing \/ \E clear : given = P!ClearingError(clear),
             P!MoveRun(ops[c].run, to, given)
      PROVE  AsPublication!MoveRun(ops[c].run, to, given)
  <2>1. GivenOK(given) /\ given.analysis = None
    BY <1>3, PublicationGivens
  <2>2. given.error = None
    BY <1>3 DEF P!Nothing, P!ClearingError
  <2> QED BY <1>1, <1>2, <1>3, <2>1, <2>2, MoveIsSeen
<1>4. CASE P!ReuseTransition(c)
  <2> DEFINE to == IF ops[c].entry.receipt.mode = "preview"
                   THEN "preparing_preview" ELSE "publishing"
  <2>1. P!MoveRun(ops[c].run, to, P!Nothing) /\ to \in Working
    BY <1>4 DEF P!ReuseTransition, Working
  <2> HIDE DEF to
  <2>2. AsPublication!MoveRun(ops[c].run, to, AsPublication!Nothing)
    BY <1>3, <2>1, SameForBoth
  <2> QED BY <1>4, <2>2
          DEF P!ReuseTransition, AsPublication!ReuseTransition, P!At,
              AsPublication!At, P!Continue, AsPublication!Continue, P!world,
              AsPublication!world, to
<1>5. CASE P!PreparePreview(c)
  <2> DEFINE given == P!ClearingError(ops[c].seen = "publication_failed")
  <2>1. IF ops[c].seen = "preparing_preview" THEN runs' = runs
        ELSE P!MoveRun(ops[c].run, "preparing_preview", given)
    BY <1>5 DEF P!PreparePreview
  <2>2. given = AsPublication!ClearingError(ops[c].seen = "publication_failed")
    BY SameForBoth
  <2>3. \E clear : given = P!ClearingError(clear)
    OBVIOUS
  <2> HIDE DEF given
  <2>4. IF ops[c].seen = "preparing_preview"
        THEN PublicationView' = PublicationView
        ELSE AsPublication!MoveRun(ops[c].run, "preparing_preview", given)
    BY <1>3, <2>1, <2>3, StaysSeen DEF Working
  <2> QED BY <1>5, <2>2, <2>4
          DEF P!PreparePreview, AsPublication!PreparePreview, P!At,
              AsPublication!At, P!Continue, AsPublication!Continue, P!world,
              AsPublication!world
<1>6. CASE P!StartPublishing(c)
  <2> DEFINE given == P!ClearingError(ops[c].seen = "publication_failed")
  <2>1. IF ops[c].seen = "publishing" THEN runs' = runs
        ELSE P!MoveRun(ops[c].run, "publishing", given)
    BY <1>6 DEF P!StartPublishing
  <2>2. given = AsPublication!ClearingError(ops[c].seen = "publication_failed")
    BY SameForBoth
  <2>3. \E clear : given = P!ClearingError(clear)
    OBVIOUS
  <2> HIDE DEF given
  <2>4. IF ops[c].seen = "publishing"
        THEN PublicationView' = PublicationView
        ELSE AsPublication!MoveRun(ops[c].run, "publishing", given)
    BY <1>3, <2>1, <2>3, StaysSeen DEF Working
  <2> QED BY <1>6, <2>2, <2>4, SameForBoth
          DEF P!StartPublishing, AsPublication!StartPublishing, P!At,
              AsPublication!At, P!Continue, AsPublication!Continue, P!Fail,
              AsPublication!Fail, P!Leave, AsPublication!Leave, P!world,
              AsPublication!world
<1> QED BY <1>4, <1>5, <1>6

\* The last one.
LEMMA EndIsSeen ==
  ASSUME IInv, NEW c \in Clients, ops[c] # None,
         P!FinishReuse(c) \/ P!Complete(c) \/ P!FailRun(c)
  PROVE  \/ AsPublication!FinishReuse(c) \/ AsPublication!Complete(c)
         \/ AsPublication!FailRun(c)
<1>1. PICK r \in Runs : r = ops[c].run
  BY ApprovalFacts
<1>2. /\ runs[r] # None /\ OpIsSound(ops[c])
      /\ ops[c] \in P!Op /\ ops[c].entry \in P!Entry
  BY <1>1, ApprovalFacts
<1>3. P!FinishReuse(c) \/ P!Complete(c) => ops[c].entry.receipt \in P!Receipt
  BY <1>2
  DEF P!FinishReuse, P!Complete, P!At, OpIsSound, EntryIsSound, P!Entry
<1>4. CASE P!FinishReuse(c)
  <2> DEFINE receipt == [ops[c].entry.receipt EXCEPT !.reused = TRUE]
             given == [P!Nothing EXCEPT !.publication = receipt]
  <2>1. receipt \in P!Receipt
    BY <1>3, <1>4 DEF P!Receipt
  <2>2. P!MoveRun(ops[c].run, "completed", given)
    BY <1>4 DEF P!FinishReuse
  <2>3. /\ GivenOK(given) /\ given.analysis = None
        /\ given.error \in {"retryable", "operator", None}
    BY <2>1, PublicationGivens DEF P!Nothing
  <2>4. given = [AsPublication!Nothing EXCEPT !.publication = receipt]
    BY SameForBoth
  <2> HIDE DEF given
  <2>5. AsPublication!MoveRun(ops[c].run, "completed", given)
    BY <1>1, <1>2, <2>2, <2>3, MoveIsSeen DEF Working
  <2> QED BY <1>4, <2>4, <2>5
          DEF P!FinishReuse, AsPublication!FinishReuse, P!At, AsPublication!At,
              P!Leave, AsPublication!Leave, P!world, AsPublication!world
<1>5. CASE P!Complete(c)
  <2> DEFINE given == [P!Nothing EXCEPT !.publication = ops[c].entry.receipt]
  <2>1. P!MoveRun(ops[c].run, "completed", given)
    BY <1>5 DEF P!Complete
  <2>2. /\ GivenOK(given) /\ given.analysis = None
        /\ given.error \in {"retryable", "operator", None}
    BY <1>3, <1>5, PublicationGivens DEF P!Nothing
  <2>3. given =
          [AsPublication!Nothing EXCEPT !.publication = ops[c].entry.receipt]
    BY SameForBoth
  <2> HIDE DEF given
  <2>4. AsPublication!MoveRun(ops[c].run, "completed", given)
    BY <1>1, <1>2, <2>1, <2>2, MoveIsSeen DEF Working
  <2> QED BY <1>5, <2>3, <2>4
          DEF P!Complete, AsPublication!Complete, P!At, AsPublication!At,
              P!Leave, AsPublication!Leave, P!world, AsPublication!world
<1>6. CASE P!FailRun(c)
  <2> DEFINE given == [P!Nothing EXCEPT !.publication = P!Partial(ops[c].entry),
                                        !.error = ops[c].error]
  <2>1. P!Partial(ops[c].entry) \in P!Receipt
    BY <1>2 DEF P!Partial, P!Receipt, P!Entry, P!Label
  <2>2. ops[c].error \in {"retryable", "operator", None}
    BY <1>2 DEF P!Op
  <2>3. P!MoveRun(ops[c].run, "publication_failed", given)
    BY <1>6 DEF P!FailRun
  <2>4. /\ GivenOK(given) /\ given.analysis = None
        /\ given.error \in {"retryable", "operator", None}
    BY <2>1, <2>2, PublicationGivens DEF P!Nothing
  <2>5. given = [AsPublication!Nothing EXCEPT
                   !.publication = AsPublication!Partial(ops[c].entry),
                   !.error = ops[c].error]
    BY SameForBoth
  <2> HIDE DEF given
  <2>6. AsPublication!MoveRun(ops[c].run, "publication_failed", given)
    BY <1>1, <1>2, <2>3, <2>4, MoveIsSeen DEF Working
  <2> QED BY <1>6, <2>5, <2>6
          DEF P!FailRun, AsPublication!FailRun, P!At, AsPublication!At,
              P!Leave, AsPublication!Leave, P!world, AsPublication!world
<1> QED BY <1>4, <1>5, <1>6

\* An approval begins: what is accepted here awaits its approval there.
LEMMA BeginIsSeen ==
  ASSUME IInv, NEW c \in Clients, NEW r \in Runs, NEW token \in BOOLEAN,
         runs[r] # None,
         P!BeginPublication(c, r, token) \/ P!BeginReuse(c, r, token)
  PROVE  \/ AsPublication!BeginPublication(c, r, token)
         \/ AsPublication!BeginReuse(c, r, token)
<1>1. P!Accepted(r, token) /\ PublicationView' = PublicationView
  BY StaysSeen DEF P!BeginPublication, P!BeginReuse
<1>2. PublicationView[r].state = runs[r].state
  <2>1. runs[r].state \in P!Approvable
    BY <1>1 DEF P!Accepted
  <2>2. ~Begun(r) => runs[r].state = "awaiting_approval"
    BY <2>1 DEF Begun, Working, P!Approvable
  <2>3. CASE Begun(r)
    BY <2>3 DEF PublicationView
  <2>4. CASE ~Begun(r)
    BY <2>2, <2>4 DEF PublicationView
  <2> QED BY <2>3, <2>4
<1>3. AsPublication!Accepted(r, token)
  BY <1>1, <1>2, SameForBoth
  DEF P!Accepted, AsPublication!Accepted, P!PolicyHolds,
      AsPublication!PolicyHolds, P!Approvable, AsPublication!Approvable,
      P!NeedsOwner, AsPublication!NeedsOwner, P!IntentOf, AsPublication!IntentOf
<1>4. CASE P!BeginPublication(c, r, token)
  BY <1>1, <1>2, <1>3, <1>4, SameForBoth
  DEF P!BeginPublication, AsPublication!BeginPublication, P!LockFree,
      AsPublication!LockFree, P!Save, AsPublication!Save, P!Begin,
      AsPublication!Begin, P!world, AsPublication!world
<1>5. CASE P!BeginReuse(c, r, token)
  BY <1>1, <1>2, <1>3, <1>5
  DEF P!BeginReuse, AsPublication!BeginReuse, P!LockFree,
      AsPublication!LockFree, P!Begin, AsPublication!Begin, P!world,
      AsPublication!world
<1> QED BY <1>4, <1>5

\* What the analysis does to a row is nothing to Publication: it moves none that
\* has begun, and begins none.
LEMMA AnalysisIsUnseen ==
  ASSUME IInv, Analyse
  PROVE  PublicationView' = PublicationView
<1>1. PICK r \in Runs :
        A!Start(r) \/ A!Proceed(r) \/ A!QueryReturns(r) \/ A!AbandonedEnds(r)
  BY DEF Analyse
<1>2. ASSUME NEW row, row # None => row.state \notin Working, ~Begun(r),
             runs' = [runs EXCEPT ![r] = row]
      PROVE  PublicationView' = PublicationView
  <2>1. runs'[r] = row /\ \A q \in Runs \ {r} : runs'[q] = runs[q]
    BY <1>2 DEF IInv, TypeInv
  <2>2. ASSUME NEW q \in Runs
        PROVE  /\ Begun(q)' <=> Begun(q)
               /\ Begun(q) => runs'[q] = runs[q]
    BY <1>2, <2>1 DEF Begun
  <2> QED BY <2>2 DEF PublicationView
<1>3. ASSUME tasks[r] # None, NEW to \in RunState \ Working, NEW given,
             NEW outcome, A!Reported(r, to, given, outcome)
      PROVE  PublicationView' = PublicationView
  <2>1. CASE outcome = "refused"
    BY <1>3, <2>1, StaysSeen DEF A!Reported
  <2>2. CASE outcome # "refused"
    <3>1. Moves(r, to, given) /\ runs[r] # None
      BY <1>3, <2>2, SameMoves DEF A!Reported, IInv, TasksAreSound
    <3>2. runs[r].state \in RunState
      BY <3>1 DEF IInv, TypeInv, Row
    <3>3. ~Begun(r)
      BY <1>3, <3>1, <3>2, WhereItLeads DEF Moves, Begun
    <3>4. Moved(runs[r], to, given).state = to
      BY DEF Moved
    <3> QED BY <1>2, <1>3, <3>1, <3>3, <3>4 DEF Moves
  <2> QED BY <2>1, <2>2
<1>4. CASE A!Start(r)
  BY <1>2, <1>4 DEF A!Start, Begun, Working
<1>5. CASE A!QueryReturns(r) \/ A!AbandonedEnds(r) \/ A!Load(r)
           \/ A!QueryTimesOut(r)
  BY <1>5, StaysSeen
  DEF A!QueryReturns, A!AbandonedEnds, A!Load, A!QueryTimesOut
<1>6. ASSUME NEW outcome,
             \/ A!Begin(r, outcome) \/ A!Offer(r, outcome)
             \/ A!Unavailable(r, outcome) \/ A!Abort(r, outcome)
             \/ A!StartQuery(r, outcome) \/ A!Score(r, outcome)
             \/ A!Generate(r, outcome) \/ A!Validate(r, outcome)
             \/ A!Decide(r, outcome)
      PROVE  PublicationView' = PublicationView
  <2>1. \E to \in RunState \ Working :
          \E given : A!Reported(r, to, given, outcome)
    BY <1>6
    DEF A!Begin, A!Offer, A!Unavailable, A!Abort, A!StartQuery, A!Score,
        A!Generate, A!Validate, A!Decide, A!Transit, RunState, Working
  <2>2. tasks[r] # None
    BY <1>6
    DEF A!Begin, A!Offer, A!Unavailable, A!Abort, A!StartQuery, A!Score,
        A!Generate, A!Validate, A!Decide, A!At
  <2> QED BY <1>3, <2>1, <2>2
<1> QED BY <1>1, <1>4, <1>5, <1>6 DEF A!Proceed

\* Every step is one of Publication's, or nothing to it.
LEMMA StepIsSeen ==
  ASSUME IInv, [Next]_vars
  PROVE  [AsPublication!Next]_(AsPublication!vars)
<1>1. CASE UNCHANGED vars
  <2>1. PublicationView' = PublicationView
    BY <1>1, StaysSeen DEF vars
  <2> QED BY <1>1, <2>1 DEF vars, publication, AsPublication!vars
<1>2. CASE Analyse
  BY <1>2, AnalysisIsUnseen DEF Analyse, publication, AsPublication!vars
<1>3. CASE Publish
  <2>1. PICK c \in Clients :
          \/ \E r \in Runs, token \in BOOLEAN :
               /\ runs[r] # None
               /\ \/ P!BeginPublication(c, r, token)
                  \/ P!BeginReuse(c, r, token)
          \/ P!Step(c)
    BY <1>3 DEF Publish, Analysed
  <2>2. CASE P!Step(c)
    <3>1. ops[c] # None
      BY <2>2, StepIsBusy
    <3>2. AsPublication!Step(c)
      BY <2>2, <3>1, CallIsSeen, SaveIsSeen, WorkIsSeen, EndIsSeen
      DEF P!Step, AsPublication!Step
    <3> QED BY <3>2 DEF AsPublication!Next
  <2>3. ASSUME NEW r \in Runs, NEW token \in BOOLEAN, runs[r] # None,
               P!BeginPublication(c, r, token) \/ P!BeginReuse(c, r, token)
        PROVE  AsPublication!Next
    BY <2>3, BeginIsSeen DEF AsPublication!Next
  <2> QED BY <2>1, <2>2, <2>3
<1>4. CASE Age
  <2>1. PICK r \in Runs : P!EvidenceExpires(r)
    BY <1>4 DEF Age
  <2>2. PublicationView' = PublicationView
    BY <2>1, StaysSeen DEF P!EvidenceExpires
  <2>3. AsPublication!EvidenceExpires(r)
    BY <2>1, <2>2 DEF P!EvidenceExpires, AsPublication!EvidenceExpires, P!world,
                      AsPublication!world
  <2> QED BY <2>3 DEF AsPublication!Next
<1>5. CASE Shutdown
  <2>1. runs' = runs /\ restarts' = restarts /\ UNCHANGED publication
    BY <1>5 DEF Shutdown, A!Drain, A!Gathered
  <2> QED BY <2>1, StaysSeen DEF publication, AsPublication!vars
<1>6. CASE Restart
  <2>1. PublicationView' = PublicationView
    BY <1>6, StaysSeen DEF Restart, P!Restart
  <2>2. AsPublication!Restart
    BY <1>6, <2>1 DEF Restart, P!Restart, AsPublication!Restart, P!world,
                      AsPublication!world
  <2> QED BY <2>2 DEF AsPublication!Next
<1> QED BY <1>1, <1>2, <1>3, <1>4, <1>5, <1>6 DEF Next

\* At the start no approval has begun.
LEMMA InitIsSeen ==
  ASSUME Init
  PROVE  AsPublication!Init
<1>1. PublicationView = [r \in Runs |->
        [state |-> "awaiting_approval", analysis |-> "eligible",
         publication |-> None, error |-> None]]
  BY DEF Init, A!Init, PublicationView, Begun
<1> QED BY <1>1
        DEF Init, A!Init, AsPublication!Init, P!Sites, AsPublication!Sites

\* A whole life of runs, seen from their approvals on, is a behaviour of the
\* publication service: analysing, failing, timing out and shutting down beside it
\* add nothing, so what is proved of Publication holds of the two together.
THEOREM PublicationIsImplemented == Spec => ImplementsPublication
<1>1. Init => AsPublication!Init
  BY InitIsSeen
<1>2. IInv /\ [Next]_vars => [AsPublication!Next]_(AsPublication!vars)
  BY StepIsSeen
<1> QED BY <1>1, <1>2, Invariance, PTL
        DEF Spec, ImplementsPublication, AsPublication!Spec

-----------------------------------------------------------------------------
(* Lifecycle implements Analysis, over what it sees of the rows.           *)

\* What a task computes does not depend on the rows.
LEMMA SameForTasks ==
  /\ \A r, pc : AsAnalysis!To(r, pc) = A!To(r, pc)
  /\ \A r : AsAnalysis!Raised(r) = A!Raised(r)
  /\ \A r, pc : AsAnalysis!At(r, pc) <=> A!At(r, pc)
  /\ \A code : AsAnalysis!Failing(code) = A!Failing(code)
  /\ AsAnalysis!Nothing = A!Nothing
  /\ AsAnalysis!Outcomes = A!Outcomes
  /\ \A f : AsAnalysis!Blockers(f) = A!Blockers(f)
  /\ \A result : AsAnalysis!EvidenceOf(result) = A!EvidenceOf(result)
  /\ AsAnalysis!TimedOut = A!TimedOut
  /\ AsAnalysis!InFlight = A!InFlight /\ AsAnalysis!Left = A!Left
  BY DEF AsAnalysis!To, A!To, AsAnalysis!Raised, A!Raised, AsAnalysis!At, A!At,
         AsAnalysis!Failing, A!Failing, AsAnalysis!Nothing, A!Nothing,
         AsAnalysis!Outcomes, A!Outcomes,
         AsAnalysis!Blockers, A!Blockers, AsAnalysis!BlockerCode, A!BlockerCode,
         AsAnalysis!EvidenceOf, A!EvidenceOf, AsAnalysis!TimedOut, A!TimedOut,
         AsAnalysis!InFlight, A!InFlight, AsAnalysis!Left, A!Left

\* Rows left alone are seen as they were.
LEMMA StaysSeenByTasks ==
  ASSUME runs' = runs
  PROVE  AnalysisView' = AnalysisView
  BY DEF AnalysisView, Begun

\* A transition that a task reports is seen by Analysis: also that it is refused
\* by a row whose approval has begun.
LEMMA ReportIsSeen ==
  ASSUME IInv, NEW r \in Runs, tasks[r] # None, NEW to \in RunState \ Working,
         NEW given, NEW outcome, A!Reported(r, to, given, outcome)
  PROVE  AsAnalysis!Reported(r, to, given, outcome)
<1> DEFINE row == runs[r]
           seen == AnalysisView[r]
<1>1. row # None /\ row.state \in RunState
  BY DEF IInv, TypeInv, TasksAreSound, Row
<1>2. AsAnalysis!AllowedTransitions = AllowedTransitions
  BY DEF AllowedTransitions, AsAnalysis!AllowedTransitions, RunState,
         AsAnalysis!RunState
<1>3. seen = IF Begun(r)
             THEN [state |-> "publishing", analysis |-> row.analysis,
                   publication |-> None, error |-> None]
             ELSE row
  BY DEF AnalysisView
<1>4. AsAnalysis!MayMove(seen, to) <=> A!MayMove(row, to)
  <2>1. A!MayMove(row, to) <=> to \in AllowedTransitions[row.state]
    BY SameMoves
  <2>2. CASE Begun(r)
    <3>1. to \notin AllowedTransitions[row.state]
      BY <1>1, <2>2, WhereItLeads DEF Begun
    <3>2. to \notin AllowedTransitions["publishing"]
      BY WhereItLeads DEF RunState, Working
    <3>3. seen.state = "publishing"
      BY <1>3, <2>2
    <3> QED BY <1>2, <2>1, <3>1, <3>2, <3>3 DEF AsAnalysis!MayMove
  <2>3. CASE ~Begun(r)
    BY <1>2, <1>3, <2>1, <2>3 DEF AsAnalysis!MayMove
  <2> QED BY <2>2, <2>3
<1>5. CASE outcome = "refused"
  BY <1>4, <1>5, StaysSeenByTasks DEF A!Reported, AsAnalysis!Reported
<1>6. CASE outcome # "refused"
  <2> DEFINE new == Moved(row, to, given)
  <2>1. /\ to \in AllowedTransitions[row.state]
        /\ runs' = [runs EXCEPT ![r] = new] /\ A!MayMove(row, to)
    BY <1>6, SameMoves DEF A!Reported, Moves
  <2>2. ~Begun(r) /\ seen = row
    BY <1>1, <1>3, <2>1, WhereItLeads DEF Begun
  <2>3. AsAnalysis!Moved(seen, to, given) = new /\ new.state = to
    BY <2>2 DEF AsAnalysis!Moved, Moved
  <2> HIDE DEF new
  <2>4. runs'[r] = new /\ \A q \in Runs \ {r} : runs'[q] = runs[q]
    BY <2>1 DEF IInv, TypeInv
  <2>5. AnalysisView'[r] = new
    BY <2>3, <2>4 DEF AnalysisView, Begun
  <2>6. \A q \in Runs \ {r} : AnalysisView'[q] = AnalysisView[q]
    BY <2>4 DEF AnalysisView, Begun
  <2>7. AnalysisView' = [AnalysisView EXCEPT ![r] = new]
    BY <2>5, <2>6 DEF AnalysisView
  <2> QED BY <1>4, <1>6, <2>1, <2>3, <2>7
          DEF A!Reported, AsAnalysis!Reported, AsAnalysis!MoveRun
<1> QED BY <1>5, <1>6

\* What follows from a transition is seen with it.
LEMMA TransitIsSeen ==
  ASSUME IInv, NEW r \in Runs, tasks[r] # None, NEW to \in RunState \ Working,
         NEW given, NEW outcome, NEW next, NEW raised,
         A!Transit(r, to, given, outcome, next, raised)
  PROVE  AsAnalysis!Transit(r, to, given, outcome, next, raised)
  BY ReportIsSeen
  DEF A!Transit, AsAnalysis!Transit, A!Becomes, AsAnalysis!Becomes

\* Steps of a task.
LEMMA ProceedIsSeen ==
  ASSUME IInv, NEW r \in Runs, A!Proceed(r)
  PROVE  AsAnalysis!Proceed(r)
<1>1. CASE A!Load(r)
  <2>1. AnalysisView' = AnalysisView
    BY <1>1, StaysSeenByTasks DEF A!Load
  <2> QED BY <1>1, <2>1, SameForTasks
          DEF A!Load, AsAnalysis!Load, A!Becomes, AsAnalysis!Becomes,
              AsAnalysis!Proceed, A!system, AsAnalysis!system
<1>2. CASE A!QueryTimesOut(r)
  <2>1. AnalysisView' = AnalysisView
    BY <1>2, StaysSeenByTasks DEF A!QueryTimesOut
  <2> QED BY <1>2, <2>1, SameForTasks
          DEF A!QueryTimesOut, AsAnalysis!QueryTimesOut, A!Becomes,
              AsAnalysis!Becomes, AsAnalysis!Proceed, A!system,
              AsAnalysis!system
<1>3. ASSUME NEW outcome \in A!Outcomes,
             \/ A!Begin(r, outcome) \/ A!Offer(r, outcome)
             \/ A!Unavailable(r, outcome) \/ A!Abort(r, outcome)
      PROVE  \/ AsAnalysis!Begin(r, outcome) \/ AsAnalysis!Offer(r, outcome)
             \/ AsAnalysis!Unavailable(r, outcome)
             \/ AsAnalysis!Abort(r, outcome)
  <2>1. tasks[r] # None
    BY <1>3 DEF A!Begin, A!Offer, A!Unavailable, A!Abort, A!At
  <2> QED BY <1>3, <2>1, TransitIsSeen, SameForTasks
          DEF A!Begin, A!Offer, A!Unavailable, A!Abort, AsAnalysis!Begin,
              AsAnalysis!Offer, AsAnalysis!Unavailable, AsAnalysis!Abort,
              RunState, Working, A!system, AsAnalysis!system
<1>4. ASSUME NEW outcome \in A!Outcomes,
             \/ A!Score(r, outcome) \/ A!Generate(r, outcome)
             \/ A!StartQuery(r, outcome)
      PROVE  \/ AsAnalysis!Score(r, outcome) \/ AsAnalysis!Generate(r, outcome)
             \/ AsAnalysis!StartQuery(r, outcome)
  <2>1. tasks[r] # None
    BY <1>4 DEF A!Score, A!Generate, A!StartQuery, A!At
  <2> QED BY <1>4, <2>1, TransitIsSeen, SameForTasks
          DEF A!Score, A!Generate, A!StartQuery, AsAnalysis!Score,
              AsAnalysis!Generate, AsAnalysis!StartQuery, RunState, Working,
              A!system, AsAnalysis!system
<1>5. ASSUME NEW outcome \in A!Outcomes, A!Validate(r, outcome)
      PROVE  AsAnalysis!Validate(r, outcome)
  <2>1. tasks[r] # None
    BY <1>5 DEF A!Validate, A!At
  <2> QED BY <1>5, <2>1, TransitIsSeen, SameForTasks
          DEF A!Validate, AsAnalysis!Validate, RunState, Working, A!system,
              AsAnalysis!system
<1>6. ASSUME NEW outcome \in A!Outcomes, A!Decide(r, outcome)
      PROVE  AsAnalysis!Decide(r, outcome)
  <2>1. tasks[r] # None
    BY <1>6 DEF A!Decide, A!At
  <2> QED BY <1>6, <2>1, TransitIsSeen, SameForTasks
          DEF A!Decide, AsAnalysis!Decide, RunState, Working, A!system,
              AsAnalysis!system
<1>7. AsAnalysis!Outcomes = A!Outcomes
  BY SameForTasks
<1> QED BY <1>1, <1>2, <1>3, <1>4, <1>5, <1>6, <1>7
        DEF A!Proceed, AsAnalysis!Proceed

\* The rest of the orchestrator.
LEMMA AnalyseIsSeen ==
  ASSUME IInv, Analyse
  PROVE  AsAnalysis!Next
<1>1. PICK r \in Runs :
        A!Start(r) \/ A!Proceed(r) \/ A!QueryReturns(r) \/ A!AbandonedEnds(r)
  BY DEF Analyse
<1>2. restarts' = restarts
  BY DEF Analyse
<1>3. CASE A!Start(r)
  <2> DEFINE row == [state |-> "created", analysis |-> None,
                     publication |-> None, error |-> None]
  <2>1. runs[r] = None /\ runs' = [runs EXCEPT ![r] = row]
    BY <1>3 DEF A!Start
  <2>2. AnalysisView[r] = None
    BY <2>1 DEF AnalysisView, Begun
  <2>3. runs'[r] = row /\ \A q \in Runs \ {r} : runs'[q] = runs[q]
    BY <2>1 DEF IInv, TypeInv
  <2>4. row.state = "created"
    OBVIOUS
  <2> HIDE DEF row
  <2>5. AnalysisView'[r] = row
    BY <2>3, <2>4 DEF AnalysisView, Begun, Working
  <2>6. \A q \in Runs \ {r} : AnalysisView'[q] = AnalysisView[q]
    BY <2>3 DEF AnalysisView, Begun
  <2>7. AnalysisView' = [AnalysisView EXCEPT ![r] = row]
    BY <2>5, <2>6 DEF AnalysisView
  <2>8. AsAnalysis!Start(r)
    BY <1>3, <2>2, <2>7
    DEF A!Start, AsAnalysis!Start, A!Becomes, AsAnalysis!Becomes, row
  <2> QED BY <2>8 DEF AsAnalysis!Next
<1>4. CASE A!Proceed(r)
  BY <1>4, ProceedIsSeen DEF AsAnalysis!Next
<1>5. CASE A!QueryReturns(r)
  <2>1. AnalysisView' = AnalysisView
    BY <1>5, StaysSeenByTasks DEF A!QueryReturns
  <2>2. AsAnalysis!QueryReturns(r)
    BY <1>5, <2>1, SameForTasks
    DEF A!QueryReturns, AsAnalysis!QueryReturns, A!Becomes, AsAnalysis!Becomes,
        A!system, AsAnalysis!system
  <2> QED BY <2>2 DEF AsAnalysis!Next
<1>6. CASE A!AbandonedEnds(r)
  <2>1. AnalysisView' = AnalysisView
    BY <1>6, StaysSeenByTasks DEF A!AbandonedEnds
  <2>2. AsAnalysis!AbandonedEnds(r)
    BY <1>6, <2>1
    DEF A!AbandonedEnds, AsAnalysis!AbandonedEnds, A!system, AsAnalysis!system
  <2> QED BY <2>2 DEF AsAnalysis!Next
<1> QED BY <1>1, <1>3, <1>4, <1>5, <1>6

\* What a step of an approval does to the rows: nothing, or one transition.
LEMMA StepMoves ==
  ASSUME IInv, NEW c \in Clients, ops[c] # None, P!Step(c)
  PROVE  \/ runs' = runs
         \/ \E to \in Working : \E given :
              /\ GivenOK(given) /\ given.analysis = None
              /\ P!MoveRun(ops[c].run, to, given)
<1>1. /\ ops[c] \in P!Op /\ ops[c].entry \in P!Entry /\ OpIsSound(ops[c])
  BY ApprovalFacts
<1>2. ops[c].stage \in {"finish_reuse", "complete"} =>
        ops[c].entry.receipt \in P!Receipt
  BY <1>1 DEF OpIsSound, EntryIsSound, P!Entry
<1>3. CASE P!FinishReuse(c)
  <2> DEFINE receipt == [ops[c].entry.receipt EXCEPT !.reused = TRUE]
             given == [P!Nothing EXCEPT !.publication = receipt]
  <2>1. receipt \in P!Receipt
    BY <1>2, <1>3 DEF P!FinishReuse, P!At, P!Receipt
  <2>2. P!MoveRun(ops[c].run, "completed", given)
    BY <1>3 DEF P!FinishReuse
  <2>3. GivenOK(given) /\ given.analysis = None
    BY <2>1, PublicationGivens
  <2> HIDE DEF given
  <2> QED BY <2>2, <2>3 DEF Working
<1>4. CASE P!Complete(c)
  <2> DEFINE given == [P!Nothing EXCEPT !.publication = ops[c].entry.receipt]
  <2>1. P!MoveRun(ops[c].run, "completed", given)
    BY <1>4 DEF P!Complete
  <2>2. GivenOK(given) /\ given.analysis = None
    BY <1>2, <1>4, PublicationGivens DEF P!Complete, P!At
  <2> HIDE DEF given
  <2> QED BY <2>1, <2>2 DEF Working
<1>5. CASE P!FailRun(c)
  <2> DEFINE given == [P!Nothing EXCEPT !.publication = P!Partial(ops[c].entry),
                                        !.error = ops[c].error]
  <2>1. P!Partial(ops[c].entry) \in P!Receipt
    BY <1>1 DEF P!Partial, P!Receipt, P!Entry, P!Label
  <2>2. ops[c].error \in {"retryable", "operator", None}
    BY <1>1 DEF P!Op
  <2>3. P!MoveRun(ops[c].run, "publication_failed", given)
    BY <1>5 DEF P!FailRun
  <2>4. GivenOK(given) /\ given.analysis = None
    BY <2>1, <2>2, PublicationGivens
  <2> HIDE DEF given
  <2> QED BY <2>3, <2>4 DEF Working
<1>6. CASE P!ReuseTransition(c)
  BY <1>6, PublicationGivens DEF P!ReuseTransition, Working
<1>7. CASE P!PreparePreview(c)
  BY <1>7, PublicationGivens DEF P!PreparePreview, Working
<1>8. CASE P!StartPublishing(c)
  BY <1>8, PublicationGivens DEF P!StartPublishing, Working
<1>9. CASE P!Call(c) \/ P!Written(c) \/ P!CallFails(c)
  BY <1>9 DEF P!Call, P!EnsureBranch, P!EnsurePull, P!Mutate, P!Written,
              P!CallFails
<1>10. CASE \/ P!SavePreview(c) \/ P!Checkpoint(c) \/ P!Seal(c)
            \/ P!FailEntry(c) \/ P!StoreError(c)
  BY <1>10 DEF P!SavePreview, P!Checkpoint, P!Seal, P!FailEntry, P!StoreError
<1> QED BY <1>3, <1>4, <1>5, <1>6, <1>7, <1>8, <1>9, <1>10 DEF P!Step

\* The first transition of an approval is Analysis' Approve; to the rest, and to
\* everything that moves no row, it is blind.
LEMMA ApprovalIsSeen ==
  ASSUME IInv, NEW r \in Runs, runs[r] # None, NEW to \in Working,
         NEW given, GivenOK(given), given.analysis = None,
         P!MoveRun(r, to, given),
         process = "up", UNCHANGED <<restarts, analysis>>
  PROVE  AsAnalysis!Approve(r) \/ UNCHANGED AsAnalysis!vars
<1> DEFINE row == runs[r]
           new == Moved(row, to, given)
           begun == [state |-> "publishing", analysis |-> row.analysis,
                     publication |-> None, error |-> None]
<1>1. /\ row.state \in RunState /\ to \in AllowedTransitions[row.state]
      /\ runs' = [runs EXCEPT ![r] = new]
  BY SameMoves DEF Moves, IInv, TypeInv, Row
<1>2. new.analysis = row.analysis
  BY DEF Moved
<1>3. Begun(r)'
  BY ApprovalMoves
<1> HIDE DEF new
<1>4. runs'[r] = new /\ \A q \in Runs \ {r} : runs'[q] = runs[q]
  BY <1>1 DEF IInv, TypeInv
<1>5. AnalysisView'[r] = begun
  BY <1>2, <1>3, <1>4 DEF AnalysisView
<1>6. \A q \in Runs \ {r} : AnalysisView'[q] = AnalysisView[q]
  BY <1>4 DEF AnalysisView, Begun
<1>7. CASE Begun(r)
  <2>1. AnalysisView[r] = begun
    BY <1>7 DEF AnalysisView
  <2>2. AnalysisView' = AnalysisView
    BY <1>5, <1>6, <2>1 DEF AnalysisView
  <2> QED BY <2>2 DEF AsAnalysis!vars, AsAnalysis!system, analysis
<1>8. CASE ~Begun(r)
  <2>1. row.state = "awaiting_approval"
    BY <1>1, <1>8, WhereItLeads DEF Begun, P!Approvable, Working
  <2>2. row.error = None /\ row.publication = None
    BY <2>1 DEF IInv, RunsAreJustified, Working, Erring
  <2>3. AnalysisView[r] = row
    BY <1>8 DEF AnalysisView
  <2>4. AsAnalysis!Moved(row, "publishing", AsAnalysis!Nothing) = begun
    BY <2>2 DEF AsAnalysis!Moved, AsAnalysis!Nothing
  <2>5. AnalysisView' = [AnalysisView EXCEPT ![r] = begun]
    BY <1>5, <1>6 DEF AnalysisView
  <2>6. AsAnalysis!MayMove(row, "publishing")
    BY <2>1 DEF AsAnalysis!MayMove, AsAnalysis!AllowedTransitions,
                AsAnalysis!RunState
  <2> HIDE DEF begun
  <2>7. AsAnalysis!MoveRun(r, "publishing", AsAnalysis!Nothing)
    BY <2>3, <2>4, <2>5, <2>6 DEF AsAnalysis!MoveRun
  <2> QED BY <2>1, <2>3, <2>7
          DEF AsAnalysis!Approve, AsAnalysis!system, analysis
<1> QED BY <1>7, <1>8

\* Every step is one of Analysis', or nothing to it.
LEMMA StepIsSeenByTasks ==
  ASSUME IInv, [Next]_vars
  PROVE  [AsAnalysis!Next]_(AsAnalysis!vars)
<1>1. ASSUME runs' = runs, UNCHANGED <<restarts, analysis>>
      PROVE  UNCHANGED AsAnalysis!vars
  BY <1>1, StaysSeenByTasks DEF analysis, AsAnalysis!vars, AsAnalysis!system
<1>2. CASE UNCHANGED vars
  BY <1>1, <1>2 DEF vars
<1>3. CASE Analyse
  BY <1>3, AnalyseIsSeen
<1>4. CASE Publish
  <2>1. process = "up" /\ UNCHANGED analysis
    BY <1>4 DEF Publish
  <2>2. PICK c \in Clients :
          \/ \E r \in Runs, token \in BOOLEAN :
               P!BeginPublication(c, r, token) \/ P!BeginReuse(c, r, token)
          \/ P!Step(c)
    BY <1>4 DEF Publish
  <2>3. CASE P!Step(c)
    <3>1. ops[c] # None
      BY <2>3, StepIsBusy
    <3>2. restarts' = restarts
      BY <2>3
      DEF P!Step, P!Call, P!ReuseTransition, P!FinishReuse, P!PreparePreview,
          P!SavePreview, P!StartPublishing, P!EnsureBranch, P!EnsurePull,
          P!Mutate, P!Written, P!CallFails, P!Checkpoint, P!Seal, P!Complete,
          P!FailEntry, P!FailRun, P!StoreError
    <3>3. CASE runs' = runs
      BY <1>1, <2>1, <3>2, <3>3
    <3>4. ASSUME NEW to \in Working, NEW given, GivenOK(given),
                 given.analysis = None, P!MoveRun(ops[c].run, to, given)
          PROVE  [AsAnalysis!Next]_(AsAnalysis!vars)
      <4>1. PICK r \in Runs : r = ops[c].run /\ runs[r] # None
        BY <3>1, ApprovalFacts
      <4>2. AsAnalysis!Approve(r) \/ UNCHANGED AsAnalysis!vars
        BY <2>1, <3>2, <3>4, <4>1, ApprovalIsSeen
      <4> QED BY <4>2 DEF AsAnalysis!Next
    <3> QED BY <2>3, <3>1, <3>3, <3>4, StepMoves
  <2>4. CASE \E r \in Runs, token \in BOOLEAN :
               P!BeginPublication(c, r, token) \/ P!BeginReuse(c, r, token)
    <3>1. runs' = runs /\ restarts' = restarts
      BY <2>4 DEF P!BeginPublication, P!BeginReuse
    <3> QED BY <1>1, <2>1, <3>1
  <2> QED BY <2>2, <2>3, <2>4
<1>5. CASE Age
  <2>1. runs' = runs /\ restarts' = restarts /\ UNCHANGED analysis
    BY <1>5 DEF Age, P!EvidenceExpires
  <2> QED BY <1>1, <2>1
<1>6. CASE Shutdown
  <2>1. AnalysisView' = AnalysisView
    BY <1>6, StaysSeenByTasks DEF Shutdown, A!Drain, A!Gathered
  <2>2. CASE A!Drain
    <3>1. AsAnalysis!Drain
      BY <2>1, <2>2, SameForTasks DEF A!Drain, AsAnalysis!Drain
    <3> QED BY <3>1 DEF AsAnalysis!Next
  <2>3. CASE A!Gathered
    <3>1. AsAnalysis!Gathered
      BY <2>1, <2>3, SameForTasks DEF A!Gathered, AsAnalysis!Gathered
    <3> QED BY <3>1 DEF AsAnalysis!Next
  <2> QED BY <1>6, <2>2, <2>3 DEF Shutdown
<1>7. CASE Restart
  <2>1. AnalysisView' = AnalysisView
    BY <1>7, StaysSeenByTasks DEF Restart, A!Restart
  <2>2. AsAnalysis!Restart
    BY <1>7, <2>1 DEF Restart, A!Restart, AsAnalysis!Restart
  <2> QED BY <2>2 DEF AsAnalysis!Next
<1> QED BY <1>2, <1>3, <1>4, <1>5, <1>6, <1>7 DEF Next

\* At the start there is no run.
LEMMA InitIsSeenByTasks ==
  ASSUME Init
  PROVE  AsAnalysis!Init
<1>1. AnalysisView = [r \in Runs |-> None]
  BY DEF Init, A!Init, AnalysisView, Begun
<1> QED BY <1>1 DEF Init, A!Init, AsAnalysis!Init

\* A whole life of runs, seen up to their approvals, is a behaviour of the
\* orchestrator: what approvals do to the rows beside its tasks is its Approve, or
\* nothing, so what is proved of Analysis holds of the two together.
THEOREM AnalysisIsImplemented == Spec => ImplementsAnalysis
<1>1. Init => AsAnalysis!Init
  BY InitIsSeenByTasks
<1>2. IInv /\ [Next]_vars => [AsAnalysis!Next]_(AsAnalysis!vars)
  BY StepIsSeenByTasks
<1> QED BY <1>1, <1>2, Invariance, PTL
        DEF Spec, ImplementsAnalysis, AsAnalysis!Spec
=============================================================================
