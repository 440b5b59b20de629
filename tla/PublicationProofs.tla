-------------------------- MODULE PublicationProofs --------------------------
(***************************************************************************)
(* Safety of Publication, for every value of the constants: types, then an *)
(* inductive invariant IInv, and what follows from it; then the effects    *)
(* outside the process (EInv), and the refinement of PublicationContract.  *)
(*                                                                         *)
(* The invariant says what makes the checkpoints safe.  Approvals exclude  *)
(* each other, so an entry in the ledger changes only under the approval   *)
(* that holds a copy of it; the copy extends the entry; and an approval    *)
(* that delivers a receipt holds exactly the completed entry of its key.   *)
(***************************************************************************)
EXTENDS Publication, TLAPS

-----------------------------------------------------------------------------
(* Types.  TypeOK is not inductive: that a pull request is opened in a     *)
(* repository, and a mutation applied to a server, needs that the sink is  *)
(* configured while an approval works with it; and that a completed run    *)
(* gets a receipt needs that a completed entry has one.  TypeInv adds this.*)

GitHubStages  == {"branch", "save_branch", "pull"}
DataHubStages == {"writeback", "save_progress"}

SettledStages == {"reuse", "finish_reuse", "complete"}

\* A completed entry holds its receipt.
Receipted(e) == e.completed => e.receipt # None

\* An approval works with the sinks that are configured, and reuses or delivers
\* what is completed.
GoodOp(op, conf) ==
  /\ op.stage \in GitHubStages  => conf.github
  /\ op.stage \in DataHubStages => conf.datahub
  /\ op.stage \in SettledStages => op.entry.completed
  /\ Receipted(op.entry)

TypeInv ==
  /\ TypeOK
  /\ \A c \in Clients : ops[c] # None =>
       GoodOp(ops[c], config) /\ ledger[KeyOf[ops[c].run]] # None
  /\ \A k \in Keys : ledger[k] # None => Receipted(ledger[k])

-----------------------------------------------------------------------------
(* What the operators the steps are built from return.                     *)

\* A new entry, and the one approve() works on, are entries.
LEMMA NewEntryType ==
  ASSUME TypeOK, NEW r \in Runs
  PROVE  NewEntry(r) \in Entry /\ EntryFor(r) \in Entry
  BY PublicationAssumption
  DEF NewEntry, EntryFor, ConfiguredIntent, Entry, TypeOK, Config, Label,
      Mutations

\* _approve_live goes to a sink only while that sink is configured.
LEMMA NextLiveStageType ==
  ASSUME NEW e, NEW s, s = NextLiveStage(e)
  PROVE  /\ s \in {"fail", "branch", "pull", "writeback", "seal"}
         /\ s \in {"branch", "pull"} => config.github
         /\ s = "writeback" => config.datahub
  BY DEF NextLiveStage

\* transition() writes a row.
LEMMA MovedType ==
  ASSUME NEW row \in Row, NEW to \in RunState, NEW given,
         given.analysis = None, given.publication \in Receipt \cup {None},
         given.error \in {"retryable", "operator", None}
  PROVE  Moved(row, to, given) \in Row
  BY DEF Moved, Row

\* A transition of one run keeps the runs table well formed.
LEMMA MoveRunType ==
  ASSUME TypeOK, NEW r \in Runs, NEW to \in RunState, NEW given,
         given.analysis = None, given.publication \in Receipt \cup {None},
         given.error \in {"retryable", "operator", None},
         MoveRun(r, to, given)
  PROVE  runs' \in [Runs -> Row]
<1>1. Moved(runs[r], to, given) \in Row
  BY MovedType DEF TypeOK
<1> QED BY <1>1 DEF MoveRun, TypeOK

\* Going on with another entry changes one approval only.
LEMMA ContinueType ==
  ASSUME TypeOK, NEW c \in Clients, ops[c] # None,
         NEW stage \in Stage, NEW e \in Entry, Continue(c, stage, e)
  PROVE  /\ ops' \in [Clients -> Op \cup {None}]
         /\ ops'[c] # None
         /\ ops'[c].stage = stage /\ ops'[c].entry = e
         /\ ops'[c].run = ops[c].run /\ ops'[c].token = ops[c].token
         /\ \A d \in Clients \ {c} : ops'[d] = ops[d]
<1> DEFINE op == [ops[c] EXCEPT !.stage = stage, !.entry = e]
<1>1. /\ op \in Op
      /\ op.stage = stage /\ op.entry = e
      /\ op.run = ops[c].run /\ op.token = ops[c].token
  BY DEF TypeOK, Op
<1>2. op # None
  BY <1>1, NoneAssumption
<1>3. ops' = [ops EXCEPT ![c] = op]
  BY DEF Continue
<1> HIDE DEF op
<1> QED BY <1>1, <1>2, <1>3 DEF TypeOK

\* So does turning to the report of a failure; the entry is kept.
LEMMA FailType ==
  ASSUME TypeOK, NEW c \in Clients, ops[c] # None,
         NEW error \in {"retryable", "operator"}, Fail(c, error)
  PROVE  /\ ops' \in [Clients -> Op \cup {None}]
         /\ ops'[c] # None
         /\ ops'[c].stage = "fail" /\ ops'[c].entry = ops[c].entry
         /\ ops'[c].run = ops[c].run /\ ops'[c].token = ops[c].token
         /\ \A d \in Clients \ {c} : ops'[d] = ops[d]
<1> DEFINE op == [ops[c] EXCEPT !.stage = "fail", !.error = error]
<1>1. /\ op \in Op
      /\ op.stage = "fail" /\ op.entry = ops[c].entry
      /\ op.run = ops[c].run /\ op.token = ops[c].token
  BY DEF TypeOK, Op, Stage
<1>2. op # None
  BY <1>1, NoneAssumption
<1>3. ops' = [ops EXCEPT ![c] = op]
  BY DEF Fail
<1> HIDE DEF op
<1> QED BY <1>1, <1>2, <1>3 DEF TypeOK

\* The partial, the final and the reused receipt are receipts.
LEMMA ReceiptTypes ==
  ASSUME NEW e \in Entry
  PROVE  /\ Partial(e) \in Receipt
         /\ Sealed(e) \in Entry
         /\ Sealed(e).receipt \in Receipt
         /\ e.receipt # None => [e.receipt EXCEPT !.reused = TRUE] \in Receipt
  BY DEF Partial, Sealed, FinalLabel, Entry, Receipt, Label

\* A new approval holds the run, the entry and the token it began with.
LEMMA BeginType ==
  ASSUME TypeOK, NEW c \in Clients, NEW r \in Runs, NEW token \in BOOLEAN,
         NEW stage \in Stage, NEW e \in Entry, Begin(c, r, token, stage, e)
  PROVE  /\ ops' \in [Clients -> Op \cup {None}]
         /\ ops'[c] # None
         /\ ops'[c].stage = stage /\ ops'[c].entry = e
         /\ ops'[c].run = r /\ ops'[c].token = token
         /\ \A d \in Clients \ {c} : ops'[d] = ops[d]
<1> DEFINE op == [run |-> r, seen |-> runs[r].state, token |-> token,
                  stage |-> stage, entry |-> e, error |-> None]
<1>1. op \in Op
  BY DEF TypeOK, Op, Row
<1>2. op # None
  BY <1>1, NoneAssumption
<1>3. ops' = [ops EXCEPT ![c] = op]
  BY DEF Begin
<1>4. op.stage = stage /\ op.entry = e /\ op.run = r /\ op.token = token
  OBVIOUS
<1> HIDE DEF op
<1> QED BY <1>1, <1>2, <1>3, <1>4 DEF TypeOK

\* An approval that leaves gives up its place and the lock.
LEMMA LeaveType ==
  ASSUME TypeOK, NEW c \in Clients, Leave(c)
  PROVE  /\ ops' \in [Clients -> Op \cup {None}]
         /\ ops'[c] = None
         /\ \A d \in Clients \ {c} : ops'[d] = ops[d]
         /\ lock' = None
  BY DEF Leave, TypeOK

\* A save changes the entry of one key.
LEMMA SaveType ==
  ASSUME TypeOK, NEW k \in Keys, NEW e \in Entry, Save(k, e)
  PROVE  /\ ledger' \in [Keys -> Entry \cup {None}]
         /\ ledger'[k] = e
         /\ \A l \in Keys \ {k} : ledger'[l] = ledger[l]
  BY DEF Save, TypeOK

\* An approval in progress has a run, an entry and a key.
LEMMA BusyType ==
  ASSUME TypeOK, NEW c \in Clients, ops[c] # None
  PROVE  /\ ops[c] \in Op /\ ops[c].run \in Runs /\ ops[c].entry \in Entry
         /\ KeyOf[ops[c].run] \in Keys
  BY PublicationAssumption DEF TypeOK, Op

-----------------------------------------------------------------------------
(* Steps.                                                                  *)

\* Only an approval in progress takes a step.
LEMMA StepIsBusy ==
  ASSUME NEW c \in Clients, Step(c)
  PROVE  ops[c] # None
  BY DEF Step, Call, ReuseTransition, FinishReuse, PreparePreview, SavePreview,
         StartPublishing, EnsureBranch, EnsurePull, Mutate, Written, CallFails,
         Checkpoint, Seal, Complete, FailEntry, FailRun, StoreError, At

\* The step of one approval leaves the others alone.
LEMMA StepIsAlone ==
  ASSUME TypeOK, NEW c \in Clients, ops[c] # None, Step(c)
  PROVE  \A d \in Clients \ {c} : ops'[d] = ops[d]
<1>1. PICK new : ops' = [ops EXCEPT ![c] = new]
  BY DEF Step, Call, ReuseTransition, FinishReuse, PreparePreview, SavePreview,
         StartPublishing, EnsureBranch, EnsurePull, Mutate, Written, CallFails,
         Checkpoint, Seal, Complete, FailEntry, FailRun, StoreError, Continue,
         Fail, Leave
<1> QED BY <1>1 DEF TypeOK

\* The invariant holds at the start,
LEMMA TypeInit == Init => TypeInv
  BY DEF Init, TypeInv, TypeOK, Row, RunState

\* An approval goes from one good stage to another, and may save its entry.
LEMMA TypeOfStep ==
  ASSUME TypeInv, NEW c \in Clients, ops[c] # None,
         runs' \in [Runs -> Row],
         UNCHANGED <<config, expired, restarts>>,
         lock' \in {lock, None},
         ops' \in [Clients -> Op \cup {None}],
         \A d \in Clients \ {c} : ops'[d] = ops[d],
         ops'[c] # None => GoodOp(ops'[c], config) /\ ops'[c].run = ops[c].run,
         \/ ledger' = ledger
         \/ Save(KeyOf[ops[c].run], ops'[c].entry) /\ ops'[c] # None,
         branches' \in SUBSET Sites, opened' \in [Sites -> Nat],
         open' \in SUBSET Sites,
         applied' \in SUBSET (Keys \X Servers \X Mutations)
  PROVE  TypeInv'
<1>1. /\ ledger' \in [Keys -> Entry \cup {None}]
      /\ \A k \in Keys : ledger'[k] # None => Receipted(ledger'[k])
      /\ \A k \in Keys : ledger[k] # None => ledger'[k] # None
  <2>1. CASE ledger' = ledger
    BY <2>1 DEF TypeInv, TypeOK
  <2>2. CASE Save(KeyOf[ops[c].run], ops'[c].entry) /\ ops'[c] # None
    <3>1. /\ ops'[c].entry \in Entry /\ Receipted(ops'[c].entry)
          /\ ops'[c].entry # None
      BY <2>2, NoneAssumption DEF GoodOp, Op
    <3> QED BY <2>2, <3>1, SaveType, BusyType DEF TypeInv
  <2> QED BY <2>1, <2>2
<1>2. \A d \in Clients : ops'[d] # None =>
        GoodOp(ops'[d], config) /\ ledger'[KeyOf[ops'[d].run]] # None
  <2> SUFFICES ASSUME NEW d \in Clients, ops'[d] # None
               PROVE  /\ GoodOp(ops'[d], config)
                      /\ ledger'[KeyOf[ops'[d].run]] # None
    OBVIOUS
  <2>1. /\ GoodOp(ops'[d], config) /\ ops[d] # None
        /\ ops'[d].run = ops[d].run
    BY DEF TypeInv
  <2>2. KeyOf[ops[d].run] \in Keys
    BY <2>1, BusyType DEF TypeInv
  <2> QED BY <1>1, <2>1, <2>2 DEF TypeInv
<1> QED BY <1>1, <1>2 DEF TypeInv, TypeOK

\* and every step keeps it.
LEMMA TypeStep == TypeInv /\ [Next]_vars => TypeInv'
<1> SUFFICES ASSUME TypeInv, [Next]_vars PROVE TypeInv'
  OBVIOUS
<1>t. TypeOK
  BY DEF TypeInv
<1>a. CASE UNCHANGED vars
  BY <1>a DEF vars, world, TypeInv, TypeOK, GoodOp
<1>1. ASSUME NEW c \in Clients, NEW r \in Runs, NEW token \in BOOLEAN,
             BeginPublication(c, r, token)
      PROVE  TypeInv'
  <2> DEFINE e == EntryFor(r)
             stage == IF e.mode = "preview" THEN "prepare" ELSE "publish"
  <2>1. e \in Entry /\ KeyOf[r] \in Keys /\ ~e.completed
    BY <1>t, <1>1, NewEntryType, PublicationAssumption DEF BeginPublication
  <2>2. /\ Save(KeyOf[r], e) /\ Begin(c, r, token, stage, e)
        /\ UNCHANGED <<runs, config, expired, world, restarts>>
    BY <1>1 DEF BeginPublication
  <2>3. stage \in Stage /\ stage \in {"prepare", "publish"}
    BY DEF Stage
  <2> HIDE DEF stage, e
  <2>4. /\ ledger' \in [Keys -> Entry \cup {None}]
        /\ \A k \in Keys : ledger'[k] # None => Receipted(ledger'[k])
        /\ ledger'[KeyOf[r]] # None
        /\ \A k \in Keys : ledger[k] # None => ledger'[k] # None
    BY <1>t, <2>1, <2>2, SaveType, NoneAssumption DEF TypeInv, Receipted
  <2>5. /\ ops' \in [Clients -> Op \cup {None}]
        /\ \A d \in Clients : ops'[d] # None =>
             GoodOp(ops'[d], config) /\ ledger'[KeyOf[ops'[d].run]] # None
    <3>1. /\ ops' \in [Clients -> Op \cup {None}]
          /\ ops'[c] # None /\ ops'[c].stage = stage /\ ops'[c].entry = e
          /\ ops'[c].run = r
          /\ \A d \in Clients \ {c} : ops'[d] = ops[d]
      BY <1>t, <2>1, <2>2, <2>3, BeginType
    <3>2. GoodOp(ops'[c], config)
      BY <2>1, <2>3, <3>1
      DEF GoodOp, Receipted, GitHubStages, DataHubStages, SettledStages
    <3>3. ASSUME NEW d \in Clients \ {c}, ops'[d] # None
          PROVE  GoodOp(ops'[d], config) /\ ledger'[KeyOf[ops'[d].run]] # None
      <4>1. ops'[d] = ops[d] /\ KeyOf[ops[d].run] \in Keys
        BY <1>t, <3>1, <3>3, BusyType
      <4> QED BY <2>2, <2>4, <3>3, <4>1 DEF TypeInv
    <3> QED BY <2>1, <2>2, <2>4, <3>1, <3>2, <3>3
  <2> QED BY <1>t, <2>2, <2>4, <2>5 DEF Begin, TypeInv, TypeOK, world
<1>2. ASSUME NEW c \in Clients, NEW r \in Runs, NEW token \in BOOLEAN,
             BeginReuse(c, r, token)
      PROVE  TypeInv'
  <2> DEFINE e == ledger[KeyOf[r]]
             stage == IF runs[r].state \in {"preparing_preview", "publishing"}
                      THEN "finish_reuse" ELSE "reuse"
  <2>1. /\ e \in Entry /\ e.completed /\ Receipted(e)
        /\ ledger[KeyOf[r]] # None
    BY <1>t, <1>2, PublicationAssumption DEF BeginReuse, TypeInv, TypeOK
  <2>2. /\ Begin(c, r, token, stage, e)
        /\ UNCHANGED <<runs, ledger, config, expired, world, restarts>>
    BY <1>2 DEF BeginReuse
  <2>3. stage \in Stage /\ stage \in {"finish_reuse", "reuse"}
    BY DEF Stage
  <2> HIDE DEF stage, e
  <2>4. /\ ops' \in [Clients -> Op \cup {None}]
        /\ \A d \in Clients : ops'[d] # None =>
             GoodOp(ops'[d], config) /\ ledger'[KeyOf[ops'[d].run]] # None
    <3>1. /\ ops' \in [Clients -> Op \cup {None}]
          /\ ops'[c] # None /\ ops'[c].stage = stage /\ ops'[c].entry = e
          /\ ops'[c].run = r
          /\ \A d \in Clients \ {c} : ops'[d] = ops[d]
      BY <1>t, <2>1, <2>2, <2>3, BeginType
    <3>2. GoodOp(ops'[c], config)
      BY <2>1, <2>3, <3>1
      DEF GoodOp, GitHubStages, DataHubStages, SettledStages
    <3>3. ASSUME NEW d \in Clients \ {c}, ops'[d] # None
          PROVE  GoodOp(ops'[d], config) /\ ledger'[KeyOf[ops'[d].run]] # None
      <4>1. ops'[d] = ops[d] /\ KeyOf[ops[d].run] \in Keys
        BY <1>t, <3>1, <3>3, BusyType
      <4> QED BY <2>2, <3>3, <4>1 DEF TypeInv
    <3> QED BY <2>1, <2>2, <3>1, <3>2, <3>3
  <2>5. TypeOK'
    BY <1>t, <2>2, <2>4 DEF Begin, TypeOK, world
  <2>6. \A k \in Keys : ledger'[k] # None => Receipted(ledger'[k])
    BY <2>2 DEF TypeInv
  <2> QED BY <2>2, <2>4, <2>5, <2>6 DEF TypeInv
<1>3. ASSUME NEW c \in Clients, Step(c) PROVE TypeInv'
  <2>0. ops[c] # None
    BY <1>3, StepIsBusy
  <2> DEFINE op == ops[c]
             k  == KeyOf[op.run]
  <2>b. /\ op \in Op /\ op.run \in Runs /\ op.entry \in Entry /\ k \in Keys
        /\ GoodOp(op, config) /\ ledger[k] # None
    BY <1>t, <2>0, BusyType DEF TypeInv
  <2>r. ops'[c] # None => ops'[c].run = op.run
    <3>1. ASSUME NEW stage, NEW e, Continue(c, stage, e)
          PROVE  ops'[c].run = op.run
      BY <1>t, <2>0, <2>b, <3>1 DEF Continue, TypeOK, Op
    <3>2. ASSUME NEW error, Fail(c, error) PROVE ops'[c].run = op.run
      BY <1>t, <2>0, <2>b, <3>2 DEF Fail, TypeOK, Op
    <3>3. CASE Leave(c)
      BY <1>t, <3>3, LeaveType
    <3>4. CASE StoreError(c)
      <4>1. CASE Leave(c)
        BY <3>3, <4>1
      <4>2. CASE /\ op.stage \in {"save_branch", "save_progress", "save_written"}
                 /\ ops' = [ops EXCEPT ![c] =
                       [@ EXCEPT !.stage = "fail", !.error = "retryable",
                                 !.entry = ledger[k]]]
        <5>1. ops'[c] = [op EXCEPT !.stage = "fail", !.error = "retryable",
                                   !.entry = ledger[k]]
          BY <1>t, <4>2 DEF TypeOK
        <5> QED BY <2>b, <5>1 DEF Op
      <4> QED BY <3>4, <4>1, <4>2 DEF StoreError
    <3> HIDE DEF op, k
    <3> QED BY <1>3, <3>1, <3>2, <3>3, <3>4
        DEF Step, Call, ReuseTransition, FinishReuse, PreparePreview,
            SavePreview, StartPublishing, EnsureBranch, EnsurePull, Mutate,
            Written, CallFails, Checkpoint, Seal, Complete, FailEntry, FailRun
  <2>1. CASE ReuseTransition(c)
    <3>1. runs' \in [Runs -> Row]
      BY <1>t, <2>b, <2>1, MoveRunType DEF ReuseTransition, Nothing, RunState
    <3>2. /\ ops' \in [Clients -> Op \cup {None}]
          /\ ops'[c].stage = "finish_reuse" /\ ops'[c].entry = op.entry
          /\ \A d \in Clients \ {c} : ops'[d] = ops[d]
      BY <1>t, <2>0, <2>b, <2>1, ContinueType DEF ReuseTransition, Stage
    <3>3. GoodOp(ops'[c], config)
      BY <2>b, <2>1, <3>2
      DEF ReuseTransition, At, GoodOp, Receipted, GitHubStages, DataHubStages,
          SettledStages
    <3> QED BY <1>t, <2>0, <2>1, <3>1, <3>2, <3>3, <2>r, TypeOfStep
            DEF ReuseTransition, TypeOK, world
  <2>2. CASE FinishReuse(c)
    <3>1. op.entry.receipt # None
      BY <2>b, <2>2 DEF FinishReuse, At, GoodOp, Receipted, SettledStages
    <3> DEFINE receipt == [op.entry.receipt EXCEPT !.reused = TRUE]
               given == [Nothing EXCEPT !.publication = receipt]
    <3>2. receipt \in Receipt
      BY <2>b, <3>1, ReceiptTypes
    <3>3. /\ given.analysis = None /\ given.error = None
          /\ given.publication = receipt
      BY DEF Nothing
    <3>4. MoveRun(op.run, "completed", given)
      BY <2>2 DEF FinishReuse
    <3> HIDE DEF receipt, given
    <3>5. runs' \in [Runs -> Row]
      BY <1>t, <2>b, <3>2, <3>3, <3>4, MoveRunType DEF RunState
    <3> QED BY <1>t, <2>0, <2>2, <3>5, LeaveType, <2>r, TypeOfStep
            DEF FinishReuse, TypeOK, world
  <2>3. CASE PreparePreview(c)
    <3>1. runs' \in [Runs -> Row]
      <4>1. CASE op.seen = "preparing_preview"
        BY <1>t, <2>3, <4>1 DEF PreparePreview, TypeOK
      <4>2. CASE op.seen # "preparing_preview"
        BY <1>t, <2>b, <2>3, <4>2, MoveRunType
        DEF PreparePreview, ClearingError, Nothing, RunState
      <4> QED BY <4>1, <4>2
    <3>2. /\ ops' \in [Clients -> Op \cup {None}]
          /\ ops'[c].stage = "save_preview" /\ ops'[c].entry = op.entry
          /\ \A d \in Clients \ {c} : ops'[d] = ops[d]
      BY <1>t, <2>0, <2>b, <2>3, ContinueType DEF PreparePreview, Stage
    <3>3. GoodOp(ops'[c], config)
      BY <2>b, <3>2 DEF GoodOp, GitHubStages, DataHubStages, SettledStages
    <3> QED BY <1>t, <2>0, <2>3, <3>1, <3>2, <3>3, <2>r, TypeOfStep
            DEF PreparePreview, TypeOK, world
  <2>4. CASE SavePreview(c)
    <3> DEFINE e == [op.entry EXCEPT
               !.writeback = "not_written",
               !.receipt = [mode |-> "preview", branch |-> FALSE, pull |-> 0,
                            writeback |-> "not_written", reused |-> FALSE],
               !.completed = TRUE]
    <3>1. e \in Entry /\ e.receipt \in Receipt
      BY <2>b DEF Entry, Receipt, Label
    <3>2. Save(k, e) /\ Continue(c, "complete", e)
      BY <2>4 DEF SavePreview
    <3>3. Receipted(e) /\ e.completed
      BY <2>b, <3>1, NoneAssumption DEF Receipted, Entry
    <3> HIDE DEF e
    <3>4. /\ ops' \in [Clients -> Op \cup {None}] /\ ops'[c] # None
          /\ ops'[c].stage = "complete" /\ ops'[c].entry = e
          /\ \A d \in Clients \ {c} : ops'[d] = ops[d]
      BY <1>t, <2>0, <3>1, <3>2, ContinueType DEF Stage
    <3>5. GoodOp(ops'[c], config)
      BY <3>3, <3>4 DEF GoodOp, GitHubStages, DataHubStages, SettledStages
    <3> QED BY <1>t, <2>0, <2>4, <3>2, <3>4, <3>5, <2>r, TypeOfStep
            DEF SavePreview, TypeOK, world
  <2>5. CASE StartPublishing(c)
    <3> DEFINE stage == IF DestinationMismatch(op.entry) THEN "fail"
                        ELSE NextLiveStage(op.entry)
    <3>1. runs' \in [Runs -> Row]
      <4>1. CASE op.seen = "publishing"
        BY <1>t, <2>5, <4>1 DEF StartPublishing, TypeOK
      <4>2. CASE op.seen # "publishing"
        BY <1>t, <2>b, <2>5, <4>2, MoveRunType
        DEF StartPublishing, ClearingError, Nothing, RunState
      <4> QED BY <4>1, <4>2
    <3>2. /\ stage \in Stage
          /\ stage \in {"fail", "branch", "pull", "writeback", "seal"}
          /\ stage \in {"branch", "pull"} => config.github
          /\ stage = "writeback" => config.datahub
      BY NextLiveStageType DEF Stage
    <3>3. \/ IF stage = "fail" THEN Fail(c, "operator")
                               ELSE Continue(c, stage, op.entry)
          \/ Leave(c)
      BY <2>5 DEF StartPublishing
    <3> HIDE DEF stage
    <3>4. CASE Leave(c)
      BY <1>t, <2>0, <2>5, <3>1, <3>4, LeaveType, <2>r, TypeOfStep
      DEF StartPublishing, TypeOK, world
    <3> SUFFICES ASSUME ~Leave(c) PROVE TypeInv'
      BY <3>4
    <3>5. /\ ops' \in [Clients -> Op \cup {None}]
          /\ ops'[c].stage = stage /\ ops'[c].entry = op.entry
          /\ \A d \in Clients \ {c} : ops'[d] = ops[d]
      BY <1>t, <2>0, <2>b, <3>2, <3>3, ContinueType, FailType
    <3>6. GoodOp(ops'[c], config)
      BY <2>b, <3>2, <3>5
      DEF GoodOp, GitHubStages, DataHubStages, SettledStages
    <3> QED BY <1>t, <2>0, <2>5, <3>1, <3>3, <3>5, <3>6, <2>r, TypeOfStep
            DEF StartPublishing, TypeOK, world
  <2>f. ASSUME NEW error \in {"retryable", "operator"}, Fail(c, error)
        PROVE  /\ ops' \in [Clients -> Op \cup {None}]
               /\ \A d \in Clients \ {c} : ops'[d] = ops[d]
               /\ ops'[c] # None /\ ops'[c].entry = op.entry
               /\ GoodOp(ops'[c], config)
    BY <1>t, <2>0, <2>b, <2>f, FailType
    DEF GoodOp, GitHubStages, DataHubStages, SettledStages
  <2>6. CASE EnsureBranch(c)
    <3> DEFINE e == [op.entry EXCEPT !.branch = TRUE]
    <3>1. config.github /\ config.repo \in Repos
      BY <1>t, <2>b, <2>6, PublicationAssumption
      DEF EnsureBranch, At, GoodOp, GitHubStages, TypeOK, Config
    <3>2. branches' \in SUBSET Sites
      BY <1>t, <2>b, <2>6, <3>1 DEF EnsureBranch, Sites, TypeOK
    <3>3. e \in Entry /\ Receipted(e)
      BY <2>b DEF Entry, GoodOp, Receipted
    <3>4. /\ ops' \in [Clients -> Op \cup {None}]
          /\ \A d \in Clients \ {c} : ops'[d] = ops[d]
          /\ GoodOp(ops'[c], config)
      <4>1. CASE Continue(c, "save_branch", e)
        <5> HIDE DEF e
        <5> QED BY <1>t, <2>0, <3>1, <3>3, <4>1, ContinueType
            DEF Stage, GoodOp, GitHubStages, DataHubStages, SettledStages
      <4> QED BY <2>6, <2>f, <4>1 DEF EnsureBranch
    <3> QED BY <1>t, <2>0, <2>6, <3>2, <3>4, <2>r, TypeOfStep
            DEF EnsureBranch, TypeOK
  <2>7. CASE EnsurePull(c)
    <3> DEFINE site == <<op.run, config.repo>>
               now  == OpenedAfter(site)
               e    == [op.entry EXCEPT !.pull = now[site]]
    <3>1. site \in Sites
      BY <1>t, <2>b, <2>7, PublicationAssumption
      DEF EnsurePull, At, GoodOp, GitHubStages, TypeOK, Config, Sites
    <3>2. now \in [Sites -> Nat] /\ open \cup {site} \in SUBSET Sites
      BY <1>t, <3>1 DEF OpenedAfter, TypeOK
    <3>3. e \in Entry /\ Receipted(e)
      BY <2>b, <3>1, <3>2 DEF Entry, GoodOp, Receipted
    <3>4. /\ opened' = now /\ open' = open \cup {site}
          /\ \/ Continue(c, "save_pull", e)
             \/ \E error \in {"retryable", "operator"} : Fail(c, error)
      BY <2>7 DEF EnsurePull
    <3> HIDE DEF now, site, e
    <3>5. /\ ops' \in [Clients -> Op \cup {None}]
          /\ \A d \in Clients \ {c} : ops'[d] = ops[d]
          /\ GoodOp(ops'[c], config)
      <4>1. CASE Continue(c, "save_pull", e)
        BY <1>t, <2>0, <3>3, <4>1, ContinueType
        DEF Stage, GoodOp, GitHubStages, DataHubStages, SettledStages
      <4> QED BY <2>f, <3>4, <4>1
    <3> QED BY <1>t, <2>0, <2>7, <3>2, <3>4, <3>5, <2>r, TypeOfStep
            DEF EnsurePull, TypeOK
  <2>8. ASSUME NEW m \in Mutations, Mutate(c, m) PROVE TypeInv'
    <3> DEFINE e == Progress(op.entry, m)
    <3>1. config.datahub /\ config.server \in Servers
      BY <1>t, <2>b, <2>8, PublicationAssumption
      DEF Mutate, At, GoodOp, DataHubStages, TypeOK, Config
    <3>2. applied' \in SUBSET (Keys \X Servers \X Mutations)
      BY <1>t, <2>b, <2>8, <3>1 DEF Mutate, TypeOK
    <3>3. e \in Entry /\ Receipted(e)
      BY <2>b DEF Progress, Entry, Label, GoodOp, Receipted
    <3>4. /\ ops' \in [Clients -> Op \cup {None}]
          /\ \A d \in Clients \ {c} : ops'[d] = ops[d]
          /\ GoodOp(ops'[c], config)
      <4>1. CASE Continue(c, "save_progress", e)
        <5> HIDE DEF e
        <5> QED BY <1>t, <2>0, <3>1, <3>3, <4>1, ContinueType
            DEF Stage, GoodOp, GitHubStages, DataHubStages, SettledStages
      <4> QED BY <2>8, <2>f, <4>1 DEF Mutate
    <3> QED BY <1>t, <2>0, <2>8, <3>2, <3>4, <2>r, TypeOfStep
            DEF Mutate, TypeOK
  <2>9. CASE Written(c)
    <3> DEFINE e == [op.entry EXCEPT !.writeback = "written"]
    <3>1. e \in Entry /\ Receipted(e)
      BY <2>b DEF Entry, Label, GoodOp, Receipted
    <3>2. Continue(c, "save_written", e)
      BY <2>9 DEF Written
    <3> HIDE DEF e
    <3>3. /\ ops' \in [Clients -> Op \cup {None}]
          /\ \A d \in Clients \ {c} : ops'[d] = ops[d]
          /\ GoodOp(ops'[c], config)
      BY <1>t, <2>0, <3>1, <3>2, ContinueType
      DEF Stage, GoodOp, GitHubStages, DataHubStages, SettledStages
    <3> QED BY <1>t, <2>0, <2>9, <3>3, <2>r, TypeOfStep
            DEF Written, TypeOK, world
  <2>10. CASE CallFails(c)
    <3>1. PICK error \in {"retryable", "operator"} : Fail(c, error)
      BY <2>10 DEF CallFails
    <3> QED BY <1>t, <2>0, <2>10, <2>f, <3>1, <2>r, TypeOfStep
            DEF CallFails, TypeOK, world
  <2>11. CASE Checkpoint(c)
    <3>1. PICK next \in Stage :
            /\ next \in {"fail", "branch", "pull", "writeback", "seal"}
            /\ next \in {"branch", "pull"} => config.github
            /\ next = "writeback" => config.datahub
            /\ IF next = "fail" THEN Fail(c, "operator")
               ELSE Continue(c, next, op.entry)
      <4>1. CASE op.stage = "save_branch"
        BY <2>b, <2>11, <4>1 DEF Checkpoint, GoodOp, GitHubStages, Stage
      <4>2. CASE op.stage = "save_progress"
        BY <2>b, <2>11, <4>2 DEF Checkpoint, GoodOp, DataHubStages, Stage
      <4>3. CASE op.stage \notin {"save_branch", "save_progress"}
        BY <2>11, <4>3, NextLiveStageType DEF Checkpoint, Stage
      <4> QED BY <4>1, <4>2, <4>3
    <3>2. /\ ops' \in [Clients -> Op \cup {None}]
          /\ \A d \in Clients \ {c} : ops'[d] = ops[d]
          /\ ops'[c] # None /\ ops'[c].entry = op.entry
          /\ GoodOp(ops'[c], config)
      <4>1. CASE next = "fail"
        BY <2>f, <3>1, <4>1
      <4>2. CASE next # "fail"
        BY <1>t, <2>0, <2>b, <3>1, <4>2, ContinueType
        DEF GoodOp, GitHubStages, DataHubStages, SettledStages
      <4> QED BY <4>1, <4>2
    <3>3. Save(k, op.entry)
      BY <2>11 DEF Checkpoint
    <3> QED BY <1>t, <2>0, <2>11, <3>2, <3>3, <2>r, TypeOfStep
            DEF Checkpoint, TypeOK, world
  <2>12. CASE Seal(c)
    <3> DEFINE e == Sealed(op.entry)
    <3>1. e \in Entry /\ e.completed /\ Receipted(e)
      BY <2>b, ReceiptTypes, NoneAssumption DEF Sealed, Receipted, Entry
    <3>2. Save(k, e) /\ Continue(c, "complete", e)
      BY <2>12 DEF Seal
    <3> HIDE DEF e
    <3>3. /\ ops' \in [Clients -> Op \cup {None}]
          /\ \A d \in Clients \ {c} : ops'[d] = ops[d]
          /\ ops'[c] # None /\ ops'[c].entry = e
          /\ GoodOp(ops'[c], config)
      BY <1>t, <2>0, <3>1, <3>2, ContinueType
      DEF Stage, GoodOp, GitHubStages, DataHubStages, SettledStages
    <3> QED BY <1>t, <2>0, <2>12, <3>2, <3>3, <2>r, TypeOfStep
            DEF Seal, TypeOK, world
  <2>13. CASE Complete(c)
    <3>1. runs' \in [Runs -> Row]
      BY <1>t, <2>b, <2>13, MoveRunType
      DEF Complete, Nothing, RunState, Entry
    <3> QED BY <1>t, <2>0, <2>13, <3>1, LeaveType, <2>r, TypeOfStep
            DEF Complete, TypeOK, world
  <2>14. CASE FailEntry(c)
    <3> DEFINE e == [op.entry EXCEPT !.receipt = Partial(op.entry)]
    <3>1. e \in Entry /\ Receipted(e)
      BY <2>b, ReceiptTypes, NoneAssumption DEF Receipted, Entry
    <3>2. Save(k, e) /\ Continue(c, "fail_run", e)
      BY <2>14 DEF FailEntry
    <3> HIDE DEF e
    <3>3. /\ ops' \in [Clients -> Op \cup {None}]
          /\ \A d \in Clients \ {c} : ops'[d] = ops[d]
          /\ ops'[c] # None /\ ops'[c].entry = e
          /\ GoodOp(ops'[c], config)
      BY <1>t, <2>0, <3>1, <3>2, ContinueType
      DEF Stage, GoodOp, GitHubStages, DataHubStages, SettledStages
    <3> QED BY <1>t, <2>0, <2>14, <3>2, <3>3, <2>r, TypeOfStep
            DEF FailEntry, TypeOK, world
  <2>15. CASE FailRun(c)
    <3> DEFINE receipt == Partial(op.entry)
               given == [Nothing EXCEPT !.publication = receipt,
                                        !.error = op.error]
    <3>1. receipt \in Receipt
      BY <2>b, ReceiptTypes
    <3>2. /\ given.analysis = None /\ given.error = op.error
          /\ given.publication = receipt
      BY DEF Nothing
    <3>3. MoveRun(op.run, "publication_failed", given)
      BY <2>15 DEF FailRun
    <3> HIDE DEF receipt, given
    <3>4. runs' \in [Runs -> Row]
      BY <1>t, <2>b, <3>1, <3>2, <3>3, MoveRunType DEF RunState, Op
    <3> QED BY <1>t, <2>0, <2>15, <3>4, LeaveType, <2>r, TypeOfStep
            DEF FailRun, TypeOK, world
  <2>16. CASE StoreError(c)
    <3>1. CASE op.stage \in {"save_branch", "save_progress", "save_written"}
      <4> DEFINE new == [op EXCEPT !.stage = "fail", !.error = "retryable",
                                   !.entry = ledger[k]]
      <4>1. ops' = [ops EXCEPT ![c] = new] /\ lock' = lock
        BY <2>16, <3>1 DEF StoreError
      <4>2. ledger[k] \in Entry /\ Receipted(ledger[k])
        BY <1>t, <2>b DEF TypeInv, TypeOK
      <4>3. /\ new \in Op /\ GoodOp(new, config)
        BY <2>b, <4>2
        DEF Op, Stage, GoodOp, GitHubStages, DataHubStages, SettledStages
      <4> HIDE DEF new
      <4> QED BY <1>t, <2>0, <2>r, <2>16, <4>1, <4>3, TypeOfStep
              DEF StoreError, TypeOK, world
    <3>2. CASE op.stage \notin {"save_branch", "save_progress", "save_written"}
      BY <1>t, <2>0, <2>16, <3>2, LeaveType, <2>r, TypeOfStep
      DEF StoreError, TypeOK, world
    <3> QED BY <3>1, <3>2
  <2> QED BY <1>3, <2>1, <2>2, <2>3, <2>4, <2>5, <2>6, <2>7, <2>8, <2>9, <2>10,
             <2>11, <2>12, <2>13, <2>14, <2>15, <2>16 DEF Step, Call
<1>4. CASE Restart
  BY <1>t, <1>4 DEF Restart, TypeInv, TypeOK, world
<1>5. ASSUME NEW r \in Runs, EvidenceExpires(r) PROVE TypeInv'
  BY <1>t, <1>5 DEF EvidenceExpires, TypeInv, TypeOK, world
<1>6. ASSUME NEW s \in Sites, ClosePull(s) PROVE TypeInv'
  BY <1>t, <1>6 DEF ClosePull, TypeInv, TypeOK
<1> QED BY <1>a, <1>1, <1>2, <1>3, <1>4, <1>5, <1>6 DEF Next

-----------------------------------------------------------------------------
\* Every column, and the local copy of every approval, has its type: what runs
\* and ledger hold, and where external effects took place.
THEOREM TypeCorrect == Spec => []TypeOK
<1>1. Init => TypeInv
  BY TypeInit
<1>2. TypeInv /\ [Next]_vars => TypeInv'
  BY TypeStep
<1>3. TypeInv => TypeOK
  BY DEF TypeInv
<1> QED BY <1>1, <1>2, <1>3, PTL DEF Spec

-----------------------------------------------------------------------------
(* The invariant.                                                          *)

PreviewStages == {"prepare", "save_preview"}

\* Approvals exclude each other.
Exclusive == \A c \in Clients : ops[c] # None => lock = c

\* What an approval knows of the entry its key holds.
Faithful(op, held) ==
  /\ Extends(op.entry, held)
  /\ op.stage \in SettledStages => held = op.entry
  /\ op.stage \notin SettledStages => ~op.entry.completed /\ ~held.completed
  /\ op.stage \in PreviewStages => op.entry.mode = "preview"
  /\ op.stage \notin PreviewStages \cup SettledStages => op.entry.mode = "live"
  /\ op.stage \in GitHubStages => op.entry.pull = 0
  /\ op.stage \in DataHubStages => op.entry.writeback # "written"

\* A receipt in the ledger is never marked as reused, and a preview that is not
\* completed has not touched DataHub.
EntryOK(e) ==
  /\ e.completed => ~e.receipt.reused
  /\ ~e.completed /\ e.mode = "preview" => e.writeback = None

IInv ==
  /\ TypeInv
  /\ Exclusive
  /\ \A c \in Clients : ops[c] # None =>
       Faithful(ops[c], ledger[KeyOf[ops[c].run]])
  /\ \A k \in Keys : ledger[k] # None => EntryOK(ledger[k])
  /\ CompletedRunHasSealedReceipt
  /\ LiveWorkIsAuthorized

\* An action: entries only gain checkpoints, and a completed one stays.
Grows ==
  \A k \in Keys : ledger[k] # None =>
    /\ ledger'[k] # None /\ Extends(ledger'[k], ledger[k])
    /\ ledger[k].completed => ledger'[k] = ledger[k]

-----------------------------------------------------------------------------
(* Steps.                                                                  *)

\* An entry extends itself.
LEMMA ExtendsIsReflexive == ASSUME NEW e PROVE Extends(e, e)
  BY DEF Extends

\* ALLOWED_TRANSITIONS has no way out of "completed".
LEMMA CompletedIsFinal ==
  ASSUME NEW r, NEW to, NEW given, MoveRun(r, to, given)
  PROVE  runs[r].state # "completed"
  BY DEF MoveRun, MayMove, AllowedTransitions, RunState

\* Whatever a step of an approval saves extends the entry the key holds.
LEMMA SavesExtend ==
  ASSUME IInv, NEW c \in Clients, ops[c] # None, Step(c)
  PROVE  \/ ledger' = ledger
         \/ \E e \in Entry :
              LET k == KeyOf[ops[c].run]
              IN  /\ Save(k, e) /\ ~ledger[k].completed
                  /\ Extends(e, ledger[k]) /\ EntryOK(e)
<1> DEFINE op == ops[c]
           k  == KeyOf[op.run]
<1>0. /\ op \in Op /\ op.entry \in Entry /\ k \in Keys
      /\ Faithful(op, ledger[k])
      /\ ledger[k] \in Entry /\ EntryOK(ledger[k])
  BY BusyType DEF IInv, TypeInv, TypeOK
<1>1. CASE SavePreview(c)
  <2> DEFINE e == [op.entry EXCEPT
               !.writeback = "not_written",
               !.receipt = [mode |-> "preview", branch |-> FALSE, pull |-> 0,
                            writeback |-> "not_written", reused |-> FALSE],
               !.completed = TRUE]
  <2>1. e \in Entry /\ EntryOK(e)
    BY <1>0 DEF Entry, Receipt, Label, EntryOK
  <2>2. Save(k, e) /\ op.stage = "save_preview"
    BY <1>1 DEF SavePreview, At
  <2>3. ~ledger[k].completed /\ Extends(e, ledger[k])
    <3>1. /\ ~ledger[k].completed /\ Extends(op.entry, ledger[k])
          /\ op.entry.mode = "preview"
      BY <1>0, <2>2 DEF Faithful, PreviewStages, SettledStages
    <3>2. ledger[k].writeback = None /\ None # "written"
      BY <1>0, <3>1, NoneAssumption DEF Extends, EntryOK, Label
    <3> QED BY <1>0, <3>1, <3>2 DEF Extends, Entry
  <2> HIDE DEF e
  <2> QED BY <2>1, <2>2, <2>3
<1>2. CASE Checkpoint(c)
  <2>1. /\ Save(k, op.entry)
        /\ op.stage \in {"save_branch", "save_pull", "save_progress", "save_written"}
    BY <1>2 DEF Checkpoint, At
  <2>2. /\ ~ledger[k].completed /\ Extends(op.entry, ledger[k])
        /\ EntryOK(op.entry)
    BY <1>0, <2>1 DEF Faithful, EntryOK, PreviewStages, SettledStages
  <2> QED BY <1>0, <2>1, <2>2
<1>3. CASE Seal(c)
  <2> DEFINE e == Sealed(op.entry)
  <2>1. Save(k, e) /\ op.stage = "seal"
    BY <1>3 DEF Seal, At
  <2>2. e \in Entry /\ EntryOK(e)
    BY <1>0, ReceiptTypes DEF Sealed, EntryOK, Entry
  <2>3. ~ledger[k].completed /\ Extends(e, ledger[k])
    BY <1>0, <2>1, NoneAssumption
    DEF Faithful, Extends, Sealed, FinalLabel, PreviewStages, SettledStages,
        Entry, Label
  <2> HIDE DEF e
  <2> QED BY <2>1, <2>2, <2>3
<1>4. CASE FailEntry(c)
  <2> DEFINE e == [op.entry EXCEPT !.receipt = Partial(op.entry)]
  <2>1. Save(k, e) /\ op.stage = "fail"
    BY <1>4 DEF FailEntry, At
  <2>2. e \in Entry
    BY <1>0, ReceiptTypes DEF Entry
  <2>3. /\ ~ledger[k].completed /\ Extends(e, ledger[k])
        /\ EntryOK(e)
    BY <1>0, <2>1
    DEF Faithful, Extends, EntryOK, PreviewStages, SettledStages, Entry
  <2> HIDE DEF e
  <2> QED BY <2>1, <2>2, <2>3
<1> QED BY <1>1, <1>2, <1>3, <1>4
    DEF Step, Call, ReuseTransition, FinishReuse, PreparePreview,
        StartPublishing, EnsureBranch, EnsurePull, Mutate,
        Written, CallFails, Complete, FailRun, StoreError

\* A step that moves its run completes it only with the receipt of the entry.
LEMMA RunsMove ==
  ASSUME IInv, NEW c \in Clients, ops[c] # None, Step(c)
  PROVE  \/ runs' = runs
         \/ \E to, given :
              /\ MoveRun(ops[c].run, to, given)
              /\ to = "completed" =>
                   /\ ops[c].stage \in SettledStages
                   /\ given.publication # None
                   /\ [given.publication EXCEPT !.reused = FALSE]
                        = ops[c].entry.receipt
<1> DEFINE op == ops[c]
<1>0. /\ op \in Op /\ op.entry \in Entry
      /\ op.stage \in SettledStages =>
           /\ op.entry.receipt \in Receipt /\ ~op.entry.receipt.reused
  <2>1. op \in Op /\ op.entry \in Entry /\ KeyOf[op.run] \in Keys
    BY BusyType DEF IInv, TypeInv
  <2>2. GoodOp(op, config) /\ ledger[KeyOf[op.run]] # None
    BY DEF IInv, TypeInv
  <2>3. Faithful(op, ledger[KeyOf[op.run]]) /\ EntryOK(ledger[KeyOf[op.run]])
    BY <2>1, <2>2 DEF IInv
  <2> QED BY <2>1, <2>2, <2>3 DEF GoodOp, Receipted, Faithful, EntryOK, Entry
<1>1. CASE FinishReuse(c)
  <2> DEFINE receipt == [op.entry.receipt EXCEPT !.reused = TRUE]
             given == [Nothing EXCEPT !.publication = receipt]
  <2>1. op.stage \in SettledStages /\ MoveRun(op.run, "completed", given)
    BY <1>1 DEF FinishReuse, At, SettledStages
  <2>2. given.publication = receipt
    BY DEF Nothing
  <2>3. receipt \in Receipt
    BY <1>0, <2>1 DEF Receipt
  <2>4. [receipt EXCEPT !.reused = FALSE] = op.entry.receipt
    BY <1>0, <2>1 DEF Receipt
  <2> HIDE DEF receipt, given
  <2> QED BY <2>1, <2>2, <2>3, <2>4, NoneAssumption
<1>2. CASE Complete(c)
  <2> DEFINE given == [Nothing EXCEPT !.publication = op.entry.receipt]
  <2>1. op.stage \in SettledStages /\ MoveRun(op.run, "completed", given)
    BY <1>2 DEF Complete, At, SettledStages
  <2>2. given.publication = op.entry.receipt
    BY DEF Nothing
  <2>3. [op.entry.receipt EXCEPT !.reused = FALSE] = op.entry.receipt
    BY <1>0, <2>1 DEF Receipt
  <2> HIDE DEF given
  <2> QED BY <1>0, <2>1, <2>2, <2>3, NoneAssumption
<1>3. CASE ReuseTransition(c)
  BY <1>3 DEF ReuseTransition
<1>4. CASE PreparePreview(c)
  BY <1>4 DEF PreparePreview
<1>5. CASE StartPublishing(c)
  BY <1>5 DEF StartPublishing
<1>6. CASE FailRun(c)
  BY <1>6 DEF FailRun
<1> QED BY <1>1, <1>2, <1>3, <1>4, <1>5, <1>6
    DEF Step, Call, SavePreview, EnsureBranch, EnsurePull, Mutate, Written,
        CallFails, Checkpoint, Seal, FailEntry, StoreError

\* What a step leaves an approval with is again faithful to the ledger.
LEMMA StaysFaithful ==
  ASSUME IInv, NEW c \in Clients, ops[c] # None, Step(c)
  PROVE  ops'[c] # None =>
           /\ Faithful(ops'[c], ledger'[KeyOf[ops[c].run]])
           /\ ops'[c].run = ops[c].run /\ ops'[c].token = ops[c].token
<1> DEFINE op   == ops[c]
           k    == KeyOf[op.run]
           goal == ops'[c] # None => /\ Faithful(ops'[c], ledger'[k])
                                     /\ ops'[c].run = op.run
                                     /\ ops'[c].token = op.token
<1>t. TypeOK
  BY DEF IInv, TypeInv
<1>0. /\ op \in Op /\ op.entry \in Entry /\ k \in Keys
      /\ Faithful(op, ledger[k]) /\ GoodOp(op, config)
      /\ ledger[k] \in Entry /\ EntryOK(ledger[k])
  BY <1>t, BusyType DEF IInv, TypeInv, TypeOK
<1>f. ASSUME NEW error \in {"retryable", "operator"}, Fail(c, error),
             op.stage \notin PreviewStages \cup SettledStages,
             \/ ledger' = ledger
             \/ Save(k, op.entry)
      PROVE  goal
  <2>1. /\ ops'[c].stage = "fail" /\ ops'[c].entry = op.entry
        /\ ops'[c].run = op.run /\ ops'[c].token = op.token
    BY <1>t, <1>f, FailType
  <2>2. ledger'[k] \in {ledger[k], op.entry}
    BY <1>t, <1>0, <1>f, SaveType
  <2>3. Extends(op.entry, ledger'[k]) /\ ~ledger'[k].completed
    BY <1>0, <1>f, <2>2, ExtendsIsReflexive DEF Faithful
  <2> QED BY <1>0, <1>f, <2>1, <2>3
          DEF Faithful, PreviewStages, SettledStages, GitHubStages,
              DataHubStages
<1>c. ASSUME NEW stage \in Stage, NEW e \in Entry, Continue(c, stage, e)
      PROVE  /\ ops'[c].stage = stage /\ ops'[c].entry = e
             /\ ops'[c].run = op.run /\ ops'[c].token = op.token
  BY <1>t, <1>c, ContinueType
<1>1. CASE ReuseTransition(c)
  <2>1. /\ Continue(c, "finish_reuse", op.entry) /\ ledger' = ledger
        /\ op.stage = "reuse"
    BY <1>1 DEF ReuseTransition, At
  <2>2. "finish_reuse" \in Stage
    BY DEF Stage
  <2> QED BY <1>0, <1>c, <2>1, <2>2
          DEF Faithful, PreviewStages, SettledStages, GitHubStages,
              DataHubStages
<1>2. CASE PreparePreview(c)
  <2>1. /\ Continue(c, "save_preview", op.entry) /\ ledger' = ledger
        /\ op.stage = "prepare"
    BY <1>2 DEF PreparePreview, At
  <2>2. "save_preview" \in Stage
    BY DEF Stage
  <2> QED BY <1>0, <1>c, <2>1, <2>2
          DEF Faithful, PreviewStages, SettledStages, GitHubStages,
              DataHubStages
<1>3. CASE SavePreview(c)
  <2> DEFINE e == [op.entry EXCEPT
               !.writeback = "not_written",
               !.receipt = [mode |-> "preview", branch |-> FALSE, pull |-> 0,
                            writeback |-> "not_written", reused |-> FALSE],
               !.completed = TRUE]
  <2>1. e \in Entry /\ "complete" \in Stage
    BY <1>0 DEF Entry, Receipt, Label, Stage
  <2>2. Save(k, e) /\ Continue(c, "complete", e)
    BY <1>3 DEF SavePreview
  <2> HIDE DEF e
  <2>3. ledger'[k] = e
    BY <1>t, <1>0, <2>1, <2>2, SaveType
  <2> QED BY <1>c, <2>1, <2>2, <2>3, ExtendsIsReflexive
          DEF Faithful, PreviewStages, SettledStages, GitHubStages,
              DataHubStages
<1>4. CASE StartPublishing(c)
  <2> DEFINE stage == IF DestinationMismatch(op.entry) THEN "fail"
                      ELSE NextLiveStage(op.entry)
  <2>1. /\ op.stage = "publish" /\ ledger' = ledger
        /\ \/ IF stage = "fail" THEN Fail(c, "operator")
                                ELSE Continue(c, stage, op.entry)
           \/ Leave(c)
    BY <1>4 DEF StartPublishing, At
  <2>2. /\ stage \in Stage
        /\ stage \in {"fail", "branch", "pull", "writeback", "seal"}
        /\ stage \in {"branch", "pull"} => op.entry.pull = 0
        /\ stage = "writeback" => op.entry.writeback # "written"
    BY DEF NextLiveStage, Stage
  <2> HIDE DEF stage
  <2>3. CASE stage = "fail" /\ Fail(c, "operator")
    BY <1>f, <2>1, <2>3 DEF PreviewStages, SettledStages
  <2>4. CASE stage # "fail" /\ Continue(c, stage, op.entry)
    BY <1>0, <1>c, <2>1, <2>2, <2>4
    DEF Faithful, PreviewStages, SettledStages, GitHubStages, DataHubStages
  <2>5. CASE Leave(c)
    BY <1>t, <2>5, LeaveType
  <2> QED BY <2>1, <2>3, <2>4, <2>5
<1>5. CASE EnsureBranch(c)
  <2> DEFINE e == [op.entry EXCEPT !.branch = TRUE]
  <2>1. /\ op.stage = "branch" /\ ledger' = ledger
        /\ \/ Continue(c, "save_branch", e)
           \/ \E error \in {"retryable", "operator"} : Fail(c, error)
    BY <1>5 DEF EnsureBranch, At
  <2>2. CASE Continue(c, "save_branch", e)
    <3>1. /\ e \in Entry /\ Extends(e, ledger[k]) /\ "save_branch" \in Stage
          /\ ~e.completed /\ e.pull = 0 /\ e.mode = "live"
          /\ ~ledger[k].completed
      BY <1>0, <2>1
      DEF Faithful, Extends, Entry, PreviewStages, SettledStages, GitHubStages,
          Stage
    <3> HIDE DEF e
    <3> QED BY <1>c, <2>1, <2>2, <3>1
            DEF Faithful, PreviewStages, SettledStages, GitHubStages,
                DataHubStages
  <2> QED BY <1>f, <2>1, <2>2 DEF PreviewStages, SettledStages
<1>6. CASE EnsurePull(c)
  <2> DEFINE site == <<op.run, config.repo>>
             e == [op.entry EXCEPT !.pull = OpenedAfter(site)[site]]
  <2>1. /\ op.stage = "pull" /\ ledger' = ledger
        /\ \/ Continue(c, "save_pull", e)
           \/ \E error \in {"retryable", "operator"} : Fail(c, error)
    BY <1>6 DEF EnsurePull, At
  <2>2. CASE Continue(c, "save_pull", e)
    <3>1. OpenedAfter(site)[site] \in Nat
      <4>1. site \in Sites
        <5>1. config.github
          BY <1>0, <2>1 DEF GoodOp, GitHubStages
        <5>2. config.repo \in Repos
          BY <1>t, <5>1, PublicationAssumption DEF TypeOK, Config
        <5> QED BY <1>0, <5>2 DEF Op, Sites
      <4> QED BY <1>t, <4>1 DEF OpenedAfter, TypeOK
    <3>2. /\ e \in Entry /\ Extends(e, ledger[k]) /\ "save_pull" \in Stage
          /\ ~e.completed /\ e.mode = "live"
          /\ ~ledger[k].completed
      BY <1>0, <2>1, <3>1
      DEF Faithful, Extends, Entry, PreviewStages, SettledStages, GitHubStages,
          Stage
    <3> HIDE DEF e
    <3> QED BY <1>c, <2>1, <2>2, <3>2
            DEF Faithful, PreviewStages, SettledStages, GitHubStages,
                DataHubStages
  <2> QED BY <1>f, <2>1, <2>2 DEF PreviewStages, SettledStages
<1>7. ASSUME NEW m \in Mutations, Mutate(c, m) PROVE goal
  <2> DEFINE e == Progress(op.entry, m)
  <2>1. /\ op.stage = "writeback" /\ ledger' = ledger
        /\ \/ Continue(c, "save_progress", e)
           \/ \E error \in {"retryable", "operator"} : Fail(c, error)
    BY <1>7 DEF Mutate, At
  <2>2. CASE Continue(c, "save_progress", e)
    <3>1. /\ e \in Entry /\ Extends(e, ledger[k]) /\ "save_progress" \in Stage
          /\ ~e.completed /\ e.mode = "live" /\ e.writeback # "written"
          /\ ~ledger[k].completed
      BY <1>0, <2>1
      DEF Progress, Faithful, Extends, Entry, Label, PreviewStages,
          SettledStages, DataHubStages, Stage
    <3> HIDE DEF e
    <3> QED BY <1>c, <2>1, <2>2, <3>1
            DEF Faithful, PreviewStages, SettledStages, GitHubStages,
                DataHubStages
  <2> QED BY <1>f, <2>1, <2>2 DEF PreviewStages, SettledStages
<1>8. CASE Written(c)
  <2> DEFINE e == [op.entry EXCEPT !.writeback = "written"]
  <2>1. op.stage = "writeback" /\ ledger' = ledger /\ Continue(c, "save_written", e)
    BY <1>8 DEF Written, At
  <2>2. /\ e \in Entry /\ Extends(e, ledger[k]) /\ "save_written" \in Stage
        /\ ~e.completed /\ e.mode = "live" /\ ~ledger[k].completed
    BY <1>0, <2>1
    DEF Faithful, Extends, Entry, Label, PreviewStages, SettledStages, Stage
  <2> HIDE DEF e
  <2> QED BY <1>c, <2>1, <2>2
          DEF Faithful, PreviewStages, SettledStages, GitHubStages,
              DataHubStages
<1>9. CASE CallFails(c)
  <2>1. /\ op.stage \in {"branch", "pull", "writeback"} /\ ledger' = ledger
        /\ \E error \in {"retryable", "operator"} : Fail(c, error)
    BY <1>9 DEF CallFails, At
  <2> QED BY <1>f, <2>1 DEF PreviewStages, SettledStages
<1>10. CASE Checkpoint(c)
  <2>1. /\ op.stage \in {"save_branch", "save_pull", "save_progress", "save_written"}
        /\ Save(k, op.entry)
    BY <1>10 DEF Checkpoint, At
  <2>2. /\ ledger'[k] = op.entry /\ Extends(op.entry, op.entry)
        /\ ~op.entry.completed /\ op.entry.mode = "live"
    BY <1>t, <1>0, <2>1, SaveType, ExtendsIsReflexive
    DEF Faithful, PreviewStages, SettledStages
  <2>3. PICK next \in Stage :
          /\ next \in {"fail", "branch", "pull", "writeback", "seal"}
          /\ next \in {"branch", "pull"} => op.entry.pull = 0
          /\ next = "writeback" => op.entry.writeback # "written"
          /\ IF next = "fail" THEN Fail(c, "operator")
             ELSE Continue(c, next, op.entry)
    <3>1. CASE op.stage = "save_branch"
      BY <1>0, <1>10, <3>1 DEF Checkpoint, Faithful, GitHubStages, Stage
    <3>2. CASE op.stage = "save_progress"
      BY <1>0, <1>10, <3>2 DEF Checkpoint, Faithful, DataHubStages, Stage
    <3>3. CASE op.stage \notin {"save_branch", "save_progress"}
      <4> DEFINE next == NextLiveStage(op.entry)
      <4>1. /\ next \in Stage
            /\ next \in {"fail", "branch", "pull", "writeback", "seal"}
            /\ next \in {"branch", "pull"} => op.entry.pull = 0
            /\ next = "writeback" => op.entry.writeback # "written"
        BY DEF NextLiveStage, Stage
      <4>2. IF next = "fail" THEN Fail(c, "operator")
                             ELSE Continue(c, next, op.entry)
        BY <1>10, <3>3 DEF Checkpoint
      <4> HIDE DEF next
      <4> QED BY <4>1, <4>2
    <3> QED BY <3>1, <3>2, <3>3
  <2>4. CASE next = "fail"
    BY <1>f, <2>1, <2>3, <2>4 DEF PreviewStages, SettledStages
  <2>5. CASE next # "fail"
    BY <1>0, <1>c, <2>2, <2>3, <2>5
    DEF Faithful, PreviewStages, SettledStages, GitHubStages, DataHubStages
  <2> QED BY <2>4, <2>5
<1>11. CASE Seal(c)
  <2> DEFINE e == Sealed(op.entry)
  <2>1. e \in Entry /\ e.completed /\ "complete" \in Stage
    BY <1>0, ReceiptTypes DEF Sealed, Entry, Stage
  <2>2. Save(k, e) /\ Continue(c, "complete", e)
    BY <1>11 DEF Seal
  <2> HIDE DEF e
  <2>3. ledger'[k] = e
    BY <1>t, <1>0, <2>1, <2>2, SaveType
  <2> QED BY <1>c, <2>1, <2>2, <2>3, ExtendsIsReflexive
          DEF Faithful, PreviewStages, SettledStages, GitHubStages,
              DataHubStages
<1>12. CASE FailEntry(c)
  <2> DEFINE e == [op.entry EXCEPT !.receipt = Partial(op.entry)]
  <2>1. Save(k, e) /\ Continue(c, "fail_run", e) /\ op.stage = "fail"
    BY <1>12 DEF FailEntry, At
  <2>2. e \in Entry /\ ~e.completed /\ e.mode = "live" /\ "fail_run" \in Stage
    BY <1>0, <2>1, ReceiptTypes
    DEF Faithful, PreviewStages, SettledStages, Entry, Stage
  <2> HIDE DEF e
  <2>3. ledger'[k] = e
    BY <1>t, <1>0, <2>1, <2>2, SaveType
  <2> QED BY <1>c, <2>1, <2>2, <2>3, ExtendsIsReflexive
          DEF Faithful, PreviewStages, SettledStages, GitHubStages,
              DataHubStages
<1>13. CASE FinishReuse(c) \/ Complete(c) \/ FailRun(c)
  BY <1>t, <1>13, LeaveType DEF FinishReuse, Complete, FailRun
<1>14. CASE StoreError(c)
  <2>1. CASE op.stage \in {"save_branch", "save_progress", "save_written"}
    <3> DEFINE new == [op EXCEPT !.stage = "fail", !.error = "retryable",
                                 !.entry = ledger[k]]
    <3>1. ops' = [ops EXCEPT ![c] = new] /\ ledger' = ledger
      BY <1>14, <2>1 DEF StoreError
    <3>2. /\ new.stage = "fail" /\ new.entry = ledger[k]
          /\ new.run = op.run /\ new.token = op.token
      BY <1>0 DEF Op
    <3>3. ~ledger[k].completed /\ ledger[k].mode = "live"
      BY <1>0, <2>1 DEF Faithful, Extends, PreviewStages, SettledStages
    <3> HIDE DEF new
    <3> QED BY <1>t, <3>1, <3>2, <3>3, ExtendsIsReflexive
        DEF Faithful, PreviewStages, SettledStages, GitHubStages,
            DataHubStages, TypeOK
  <2>2. CASE op.stage \notin {"save_branch", "save_progress", "save_written"}
    BY <1>t, <1>14, <2>2, LeaveType DEF StoreError
  <2> QED BY <2>1, <2>2
<1> QED BY <1>1, <1>2, <1>3, <1>4, <1>5, <1>6, <1>7, <1>8, <1>9, <1>10, <1>11,
           <1>12, <1>13, <1>14 DEF Step, Call

-----------------------------------------------------------------------------
\* The invariant holds at the start,
LEMMA IInvInit == Init => IInv
<1> SUFFICES ASSUME Init PROVE IInv
  OBVIOUS
<1>1. TypeInv
  BY TypeInit
<1>2. \A c \in Clients : ops[c] = None
  BY DEF Init
<1>3. \A k \in Keys : ledger[k] = None
  BY DEF Init
<1>4. \A r \in Runs : runs[r].state = "awaiting_approval"
  BY DEF Init
<1> QED BY <1>1, <1>2, <1>3, <1>4
    DEF IInv, Exclusive, CompletedRunHasSealedReceipt, LiveWorkIsAuthorized

\* The ledger only grows, and what is completed stays as it is.
LEMMA LedgerGrows == IInv /\ [Next]_vars => Grows
<1> SUFFICES ASSUME IInv, [Next]_vars PROVE Grows
  OBVIOUS
<1>t. TypeOK
  BY DEF IInv, TypeInv
<1>0. CASE ledger' = ledger
  BY <1>0, ExtendsIsReflexive DEF Grows
<1>1. ASSUME NEW c \in Clients, NEW r \in Runs, NEW token \in BOOLEAN,
             BeginPublication(c, r, token)
      PROVE  Grows
  <2>1. /\ EntryFor(r) \in Entry /\ KeyOf[r] \in Keys
        /\ Save(KeyOf[r], EntryFor(r)) /\ ~EntryFor(r).completed
    BY <1>t, <1>1, NewEntryType, PublicationAssumption DEF BeginPublication
  <2>2. ledger[KeyOf[r]] # None => EntryFor(r) = ledger[KeyOf[r]]
    BY DEF EntryFor
  <2> QED BY <1>t, <2>1, <2>2, SaveType, ExtendsIsReflexive DEF Grows
<1>2. ASSUME NEW c \in Clients, Step(c) PROVE Grows
  <2> DEFINE k == KeyOf[ops[c].run]
  <2>0. ops[c] # None
    BY <1>2, StepIsBusy
  <2>b. k \in Keys
    BY <1>t, <2>0, BusyType
  <2>1. ASSUME NEW e \in Entry, Save(k, e), ~ledger[k].completed,
               Extends(e, ledger[k])
        PROVE  Grows
    BY <1>t, <2>b, <2>1, SaveType, NoneAssumption, ExtendsIsReflexive DEF Grows
  <2> HIDE DEF k
  <2> QED BY <1>0, <1>2, <2>0, <2>1, SavesExtend DEF k
<1> QED BY <1>0, <1>1, <1>2
    DEF Next, BeginReuse, Restart, EvidenceExpires, ClosePull, vars

\* A completed run does not move, whatever step is taken.
LEMMA CompletedStays ==
  ASSUME IInv, [Next]_vars, NEW r \in Runs, runs[r].state = "completed"
  PROVE  runs'[r] = runs[r]
<1>t. TypeOK
  BY DEF IInv, TypeInv
<1>0. CASE runs' = runs
  BY <1>0
<1>1. ASSUME NEW c \in Clients, Step(c) PROVE runs'[r] = runs[r]
  <2>1. ops[c] # None
    BY <1>1, StepIsBusy
  <2>2. ASSUME NEW to, NEW given, MoveRun(ops[c].run, to, given)
        PROVE  runs'[r] = runs[r]
    <3>1. ops[c].run # r
      BY <2>2, CompletedIsFinal
    <3> QED BY <1>t, <2>2, <3>1 DEF MoveRun, TypeOK
  <2> QED BY <1>0, <1>1, <2>1, <2>2, RunsMove
<1> QED BY <1>0, <1>1
    DEF Next, BeginPublication, BeginReuse, Restart, EvidenceExpires,
        ClosePull, vars

\* a step of an approval keeps it,
LEMMA IInvOfStep ==
  ASSUME IInv, NEW c \in Clients, Step(c)
  PROVE  IInv'
<1> DEFINE op == ops[c]
           k  == KeyOf[op.run]
<1>s. [Next]_vars
  BY DEF Next
<1>t. TypeOK /\ TypeInv'
  BY <1>s, TypeStep DEF IInv, TypeInv
<1>0. op # None /\ k \in Keys /\ op.run \in Runs
  BY <1>t, StepIsBusy, BusyType
<1>1. Grows
  BY <1>s, LedgerGrows
<1>2. ops'[c] # None => /\ Faithful(ops'[c], ledger'[k])
                        /\ ops'[c].run = op.run /\ ops'[c].token = op.token
  BY <1>0, StaysFaithful
<1>3. /\ \A d \in Clients \ {c} : ops[d] = None /\ ops'[d] = None
      /\ ops'[c] # None => lock' = c
  <2>1. lock = c /\ \A d \in Clients \ {c} : ops[d] = None
    BY <1>0 DEF IInv, Exclusive
  <2>2. \A d \in Clients \ {c} : ops'[d] = ops[d]
    BY <1>t, <1>0, StepIsAlone
  <2>3. lock' = lock \/ Leave(c)
    BY DEF Step, Call, ReuseTransition, FinishReuse, PreparePreview,
           SavePreview, StartPublishing, EnsureBranch, EnsurePull, Mutate,
           Written, CallFails, Checkpoint, Seal, Complete, FailEntry, FailRun,
           StoreError
  <2> QED BY <1>t, <2>1, <2>2, <2>3, LeaveType
<1>4. Exclusive'
  BY <1>3 DEF Exclusive
<1>5. \A d \in Clients : ops'[d] # None =>
        Faithful(ops'[d], ledger'[KeyOf[ops'[d].run]])
  BY <1>2, <1>3
<1>6. \A l \in Keys : ledger'[l] # None => EntryOK(ledger'[l])
  <2>1. CASE ledger' = ledger
    BY <2>1 DEF IInv
  <2>2. ASSUME NEW e \in Entry, Save(k, e), EntryOK(e)
        PROVE  \A l \in Keys : ledger'[l] # None => EntryOK(ledger'[l])
    BY <1>t, <1>0, <2>2, SaveType DEF IInv
  <2> QED BY <1>0, <2>1, <2>2, SavesExtend
<1>7. CompletedRunHasSealedReceipt'
  <2> SUFFICES ASSUME NEW r \in Runs, runs'[r].state = "completed"
               PROVE  /\ ledger'[KeyOf[r]] # None /\ ledger'[KeyOf[r]].completed
                      /\ runs'[r].publication # None
                      /\ [runs'[r].publication EXCEPT !.reused = FALSE]
                           = ledger'[KeyOf[r]].receipt
    BY DEF CompletedRunHasSealedReceipt
  <2>k. KeyOf[r] \in Keys
    BY PublicationAssumption
  <2>1. CASE runs'[r] = runs[r]
    BY <1>1, <2>k, <2>1 DEF IInv, CompletedRunHasSealedReceipt, Grows
  <2>2. ASSUME NEW to, NEW given, MoveRun(op.run, to, given),
               r = op.run,
               to = "completed" =>
                 /\ op.stage \in SettledStages
                 /\ given.publication # None
                 /\ [given.publication EXCEPT !.reused = FALSE]
                      = op.entry.receipt
        PROVE  /\ ledger'[k] # None /\ ledger'[k].completed
               /\ runs'[r].publication # None
               /\ [runs'[r].publication EXCEPT !.reused = FALSE]
                    = ledger'[k].receipt
    <3>1. runs'[r] = Moved(runs[r], to, given)
      BY <1>t, <2>2 DEF MoveRun, TypeOK
    <3>2. to = "completed"
      BY <3>1 DEF Moved
    <3>3. runs'[r].publication = given.publication
      BY <2>2, <3>1, <3>2 DEF Moved
    <3>4. ledger[k] = op.entry /\ ledger[k].completed /\ ledger[k] # None
      BY <1>0, <2>2, <3>2 DEF IInv, TypeInv, GoodOp, Faithful
    <3>5. ledger'[k] = ledger[k]
      BY <1>0, <1>1, <3>4 DEF Grows
    <3> QED BY <2>2, <3>2, <3>3, <3>4, <3>5
  <2>3. ASSUME NEW to, NEW given, MoveRun(op.run, to, given), r # op.run
        PROVE  runs'[r] = runs[r]
    BY <1>t, <2>3 DEF MoveRun, TypeOK
  <2> HIDE DEF k
  <2> QED BY <1>0, <2>1, <2>2, <2>3, RunsMove DEF k
<1>8. LiveWorkIsAuthorized'
  <2> SUFFICES ASSUME NEW d \in Clients, ops'[d] # None,
                      ops'[d].entry.mode = "live"
               PROVE  ops'[d].token
    BY DEF LiveWorkIsAuthorized
  <2>1. d = c /\ Extends(ops'[c].entry, ledger'[k])
    BY <1>2, <1>3 DEF Faithful
  <2>2. Extends(ledger'[k], ledger[k])
    BY <1>0, <1>1 DEF IInv, TypeInv, Grows
  <2>3. Extends(op.entry, ledger[k])
    BY <1>0 DEF IInv, Faithful
  <2>4. op.entry.mode = "live"
    BY <2>1, <2>2, <2>3 DEF Extends
  <2> QED BY <1>0, <1>2, <2>1, <2>4 DEF IInv, LiveWorkIsAuthorized
<1> QED BY <1>t, <1>4, <1>5, <1>6, <1>7, <1>8 DEF IInv

\* so does the start of one,
LEMMA IInvOfBegin ==
  ASSUME IInv, NEW c \in Clients, NEW r \in Runs, NEW token \in BOOLEAN,
         BeginPublication(c, r, token) \/ BeginReuse(c, r, token)
  PROVE  IInv'
<1> DEFINE k == KeyOf[r]
<1>s. [Next]_vars
  BY DEF Next
<1>t. TypeOK /\ TypeInv' /\ k \in Keys
  BY <1>s, TypeStep, PublicationAssumption DEF IInv, TypeInv
<1>1. Grows
  BY <1>s, LedgerGrows
<1>2. PICK stage \in Stage, e \in Entry :
        /\ Begin(c, r, token, stage, e)
        /\ ledger'[k] = e /\ EntryOK(e)
        /\ e.mode = "live" => token
        /\ stage \in {"reuse", "finish_reuse"} \/ ~e.completed
        /\ stage \in {"reuse", "finish_reuse", "prepare", "publish"}
        /\ stage = "prepare" => e.mode = "preview"
        /\ stage = "publish" => e.mode = "live"
  <2>1. CASE BeginPublication(c, r, token)
    <3> DEFINE e == EntryFor(r)
               stage == IF e.mode = "preview" THEN "prepare" ELSE "publish"
    <3>1. e \in Entry /\ ~e.completed /\ Save(k, e) /\ Begin(c, r, token, stage, e)
      BY <1>t, <2>1, NewEntryType DEF BeginPublication
    <3>2. EntryOK(e)
      BY <1>t, <3>1 DEF EntryFor, NewEntry, EntryOK, IInv
    <3>3. e.mode = "live" => token
      BY <2>1 DEF BeginPublication, Accepted, NeedsOwner
    <3>4. ledger'[k] = e
      BY <1>t, <3>1, SaveType
    <3>5. /\ stage \in Stage /\ stage \in {"prepare", "publish"}
          /\ stage = "prepare" => e.mode = "preview"
          /\ stage = "publish" => e.mode = "live"
      BY <3>1 DEF Stage, Entry
    <3> HIDE DEF e, stage
    <3> QED BY <3>1, <3>2, <3>3, <3>4, <3>5
  <2>2. CASE BeginReuse(c, r, token)
    <3> DEFINE e == ledger[k]
               stage == IF runs[r].state \in {"preparing_preview", "publishing"}
                        THEN "finish_reuse" ELSE "reuse"
    <3>1. /\ e # None /\ Begin(c, r, token, stage, e) /\ ledger' = ledger
      BY <2>2 DEF BeginReuse
    <3>2. e \in Entry /\ EntryOK(e)
      BY <1>t, <3>1 DEF IInv, TypeOK
    <3>3. e.mode = "live" => token
      BY <2>2, <3>1 DEF BeginReuse, Accepted, NeedsOwner, EntryFor
    <3>4. stage \in Stage /\ stage \in {"reuse", "finish_reuse"}
      BY DEF Stage
    <3>5. ledger'[k] = e
      BY <3>1
    <3> HIDE DEF e, stage
    <3> QED BY <3>1, <3>2, <3>3, <3>4, <3>5
  <2> QED BY <2>1, <2>2
<1>3. /\ ops'[c].stage = stage /\ ops'[c].entry = e
      /\ ops'[c].run = r /\ ops'[c].token = token
      /\ \A d \in Clients \ {c} : ops'[d] = ops[d]
      /\ lock' = c
  BY <1>t, <1>2, BeginType DEF Begin
<1>4. \A d \in Clients \ {c} : ops'[d] = None
  <2>1. lock = None
    BY DEF BeginPublication, BeginReuse, LockFree
  <2> QED BY <1>3, <2>1, PublicationAssumption DEF IInv, Exclusive
<1>5. Exclusive'
  BY <1>3, <1>4 DEF Exclusive
<1>6. \A d \in Clients : ops'[d] # None =>
        Faithful(ops'[d], ledger'[KeyOf[ops'[d].run]])
  <2>1. Faithful(ops'[c], ledger'[k])
    BY <1>2, <1>3, ExtendsIsReflexive
    DEF Faithful, PreviewStages, SettledStages, GitHubStages, DataHubStages
  <2> QED BY <1>3, <1>4, <2>1
<1>7. \A l \in Keys : ledger'[l] # None => EntryOK(ledger'[l])
  <2>1. \A l \in Keys \ {k} : ledger'[l] = ledger[l]
    BY <1>t DEF BeginPublication, BeginReuse, Save, TypeOK
  <2> QED BY <1>2, <2>1 DEF IInv
<1>8. CompletedRunHasSealedReceipt'
  <2>1. runs' = runs
    BY DEF BeginPublication, BeginReuse
  <2> QED BY <1>1, <2>1, PublicationAssumption
      DEF IInv, CompletedRunHasSealedReceipt, Grows
<1>9. LiveWorkIsAuthorized'
  BY <1>2, <1>3, <1>4 DEF LiveWorkIsAuthorized
<1> QED BY <1>t, <1>5, <1>6, <1>7, <1>8, <1>9 DEF IInv

\* and so does everything else.
LEMMA IInvStep == IInv /\ [Next]_vars => IInv'
<1> SUFFICES ASSUME IInv, [Next]_vars PROVE IInv'
  OBVIOUS
<1>t. TypeInv'
  BY TypeStep DEF IInv
<1>1. CASE UNCHANGED <<runs, ledger, config, lock, ops>>
  BY <1>t, <1>1
  DEF IInv, Exclusive, CompletedRunHasSealedReceipt, LiveWorkIsAuthorized
<1>2. CASE Restart
  <2>1. /\ \A c \in Clients : ops'[c] = None
        /\ runs' = runs /\ ledger' = ledger
    BY <1>2 DEF Restart
  <2> QED BY <1>t, <2>1
          DEF IInv, Exclusive, CompletedRunHasSealedReceipt,
              LiveWorkIsAuthorized
<1> QED BY <1>1, <1>2, IInvOfStep, IInvOfBegin
    DEF Next, EvidenceExpires, ClosePull, vars

-----------------------------------------------------------------------------
(* Theorems.                                                               *)

\* Approvals exclude each other, and every copy is faithful to the ledger.
THEOREM InductiveInvariant == Spec => []IInv
<1>1. Init => IInv
  BY IInvInit
<1>2. IInv /\ [Next]_vars => IInv'
  BY IInvStep
<1> QED BY <1>1, <1>2, PTL DEF Spec

\* A completed run carries the receipt the ledger holds for its key, however it
\* got there: run through, resumed after a crash, or reused from another run.
THEOREM CompletedRunsAreSealed == Spec => []CompletedRunHasSealedReceipt
<1>1. IInv => CompletedRunHasSealedReceipt
  BY DEF IInv
<1> QED BY <1>1, InductiveInvariant, PTL

\* Whoever is in the middle of live work has proved to be the owner.
THEOREM LiveWorkAuthorized == Spec => []LiveWorkIsAuthorized
<1>1. IInv => LiveWorkIsAuthorized
  BY DEF IInv
<1> QED BY <1>1, InductiveInvariant, PTL

\* No save, failures and retries included, drops a checkpoint or rebinds an
\* entry to another owner, mode or destination.
THEOREM CheckpointsGrow == Spec => CheckpointsOnlyGrow
<1>1. IInv /\ [Next]_vars =>
        [\A k \in Keys : ledger[k] # None =>
           ledger'[k] # None /\ Extends(ledger'[k], ledger[k])]_vars
  BY LedgerGrows DEF Grows
<1> QED BY <1>1, InductiveInvariant, PTL DEF Spec, CheckpointsOnlyGrow

\* A completed entry is never rewritten, and a completed run never moves.
THEOREM SealedStays == Spec => SealedForEver
<1>1. IInv /\ [Next]_vars =>
        [/\ \A k \in Keys : ledger[k] # None /\ ledger[k].completed
                              => ledger'[k] = ledger[k]
         /\ \A r \in Runs : runs[r].state = "completed"
                              => runs'[r] = runs[r]]_vars
  BY LedgerGrows, CompletedStays DEF Grows
<1> QED BY <1>1, InductiveInvariant, PTL DEF Spec, SealedForEver

-----------------------------------------------------------------------------
(* What Publication does outside the process: the effects on GitHub and    *)
(* DataHub, what the receipts say of them, that an interrupted publication *)
(* can be taken up again, and that Publication implements                  *)
(* PublicationContract.                                                    *)
(*                                                                         *)
(* IInv speaks of the ledger and of the local copies only.  EInv adds what *)
(* relates them to the two external systems: everything an entry records   *)
(* has taken place where the entry is bound (Backed), an approval acts     *)
(* only while its settings agree with the entry, and its local copy is     *)
(* ahead of the ledger only between an effect and its checkpoint           *)
(* (Grounded).                                                             *)

\* Between an effect and its checkpoint.
SaveStages == {"save_branch", "save_pull", "save_progress", "save_written"}

\* Past the comparison of the destinations.
WorkStages == {"branch", "pull", "writeback", "seal"} \cup SaveStages

\* Whatever the entry e of the key k records has taken place: b, o and a stand
\* for branches, opened and applied.
Backed(k, e, b, o, a) ==
  /\ KeyOf[e.owner] = k
  /\ e.mode = "preview" => e.repo = None /\ e.server = None
  /\ e.repo = None => ~e.branch /\ e.pull = 0
  /\ e.branch => <<e.owner, e.repo>> \in b
  /\ e.pull > 0 => e.branch /\ e.pull <= o[<<e.owner, e.repo>>]
  /\ \A m \in e.done : <<k, e.server, m>> \in a
  /\ e.writeback = "written" => e.server # None /\ e.done = Mutations

\* Every sink the entry requires is done.
Finished(e) ==
  /\ e.repo # None => e.pull > 0
  /\ e.server # None => e.writeback = "written"

\* The final receipt of a completed entry repeats what the entry records.
SealedOK(e) ==
  e.completed =>
    /\ Finished(e)
    /\ e.receipt.mode = e.mode /\ e.receipt.branch = e.branch
    /\ e.receipt.pull = e.pull /\ e.receipt.writeback = e.writeback

\* The sinks with work left are where the entry says they are.
InPlace(e, conf) ==
  /\ e.repo # None /\ e.pull = 0 => e.repo = conf.repo
  /\ e.server # None /\ e.writeback # "written" => e.server = conf.server

\* An approval of the owner works on what the ledger holds, at the destinations
\* the entry is bound to, and in the order of _approve_live.
Grounded(op, held, conf) ==
  /\ op.stage \notin SaveStages => op.entry = held
  /\ op.stage \notin {"reuse", "finish_reuse"} => op.entry.owner = op.run
  /\ op.stage \in WorkStages => InPlace(op.entry, conf)
  /\ op.stage \in GitHubStages \cup {"save_pull"} => op.entry.repo # None
  /\ op.stage \in {"save_branch", "pull", "save_pull"} => op.entry.branch
  /\ op.stage \in DataHubStages \cup {"save_written"} => op.entry.server # None
  /\ op.stage = "seal" => Finished(op.entry)

\* A run whose key nobody has claimed has not been approved.
UnclaimedIsFresh ==
  \A r \in Runs : ledger[KeyOf[r]] = None =>
    runs[r].state = "awaiting_approval"

EInv ==
  /\ IInv
  /\ \A c \in Clients : ops[c] # None =>
       LET k == KeyOf[ops[c].run]
       IN  /\ Grounded(ops[c], ledger[k], config)
           /\ Backed(k, ops[c].entry, branches, opened, applied)
  /\ \A k \in Keys : ledger[k] # None =>
       Backed(k, ledger[k], branches, opened, applied) /\ SealedOK(ledger[k])
  /\ EffectsOnlyWhereBound
  /\ MutationsInOrder
  /\ OwnerCanResume
  /\ UnclaimedIsFresh

\* An action: nothing done outside is undone.
WorldGrows ==
  /\ branches \subseteq branches'
  /\ applied \subseteq applied'
  /\ \A s \in Sites : opened[s] <= opened'[s]

-----------------------------------------------------------------------------
(* Effects, and what is known of them.                                     *)

\* Branches, pull requests ever opened, and mutations only accumulate.
LEMMA EffectsLast == TypeInv /\ [Next]_vars => WorldGrows
<1> SUFFICES ASSUME TypeInv, [Next]_vars PROVE WorldGrows
  OBVIOUS
<1>t. TypeOK
  BY DEF TypeInv
<1>0. CASE UNCHANGED <<branches, opened, applied>>
  BY <1>t, <1>0 DEF WorldGrows, TypeOK
<1>1. ASSUME NEW c \in Clients, EnsureBranch(c) PROVE WorldGrows
  BY <1>t, <1>1 DEF EnsureBranch, WorldGrows, TypeOK
<1>2. ASSUME NEW c \in Clients, EnsurePull(c) PROVE WorldGrows
  <2> DEFINE site == <<ops[c].run, config.repo>>
  <2>1. opened' = OpenedAfter(site) /\ UNCHANGED <<branches, applied>>
    BY <1>2 DEF EnsurePull
  <2>2. \A s \in Sites : opened[s] <= opened'[s]
    BY <1>t, <2>1 DEF OpenedAfter, TypeOK
  <2> QED BY <2>1, <2>2 DEF WorldGrows
<1>3. ASSUME NEW c \in Clients, NEW m \in Mutations, Mutate(c, m)
      PROVE  WorldGrows
  BY <1>t, <1>3 DEF Mutate, WorldGrows, TypeOK
<1> QED BY <1>0, <1>1, <1>2, <1>3
    DEF Next, Step, Call, BeginPublication, BeginReuse, ReuseTransition,
        FinishReuse, PreparePreview, SavePreview, StartPublishing, Written,
        CallFails, Checkpoint, Seal, Complete, FailEntry, FailRun, StoreError,
        Restart, EvidenceExpires, ClosePull, vars, world

\* So what an entry records stays true.
LEMMA BackedLasts ==
  ASSUME WorldGrows, TypeOK, TypeOK', NEW k, NEW e \in Entry,
         Backed(k, e, branches, opened, applied)
  PROVE  Backed(k, e, branches', opened', applied')
<1>1. e.pull > 0 => <<e.owner, e.repo>> \in Sites
  BY DEF Backed, Entry, Sites
<1>2. e.pull > 0 => e.pull <= opened'[<<e.owner, e.repo>>]
  BY <1>1 DEF Backed, WorldGrows, TypeOK, Entry
<1> QED BY <1>2 DEF Backed, WorldGrows

\* The comparison of the destinations that _approve_live makes.
LEMMA NoMismatchIsInPlace ==
  ASSUME NEW e, ~DestinationMismatch(e)
  PROVE  InPlace(e, config)
  BY DEF DestinationMismatch, InPlace

\* _approve_live goes to a sink only if the entry requires it, and seals the
\* entry only if nothing it requires is missing.
LEMMA NextLiveStageFits ==
  ASSUME NEW e \in Entry, NEW s, s = NextLiveStage(e)
  PROVE  /\ s \in {"branch", "pull"} => e.repo # None
         /\ s = "pull" => e.branch
         /\ s = "writeback" => e.server # None
         /\ s = "seal" => Finished(e)
  BY DEF NextLiveStage, Finished, Entry

\* What an approval saves is its local copy as the step leaves it.
LEMMA StepSaves ==
  ASSUME TypeOK, NEW c \in Clients, ops[c] # None, Step(c)
  PROVE  \/ ledger' = ledger
         \/ Save(KeyOf[ops[c].run], ops'[c].entry) /\ ops'[c] # None
<1> DEFINE op == ops[c]
           k  == KeyOf[op.run]
<1>0. op \in Op /\ op.entry \in Entry
  BY BusyType
<1>c. ASSUME NEW stage \in Stage, NEW e \in Entry, Continue(c, stage, e)
      PROVE  ops'[c].entry = e /\ ops'[c] # None
  BY <1>c, ContinueType
<1>1. CASE SavePreview(c)
  <2> DEFINE e == [op.entry EXCEPT
               !.writeback = "not_written",
               !.receipt = [mode |-> "preview", branch |-> FALSE, pull |-> 0,
                            writeback |-> "not_written", reused |-> FALSE],
               !.completed = TRUE]
  <2>1. e \in Entry /\ "complete" \in Stage
    BY <1>0 DEF Entry, Receipt, Label, Stage
  <2>2. Save(k, e) /\ Continue(c, "complete", e)
    BY <1>1 DEF SavePreview
  <2> HIDE DEF e
  <2> QED BY <1>c, <2>1, <2>2
<1>2. CASE Checkpoint(c)
  <2>1. /\ Save(k, op.entry)
        /\ \/ Fail(c, "operator")
           \/ \E stage \in Stage : Continue(c, stage, op.entry)
    BY <1>2 DEF Checkpoint, NextLiveStage, Stage
  <2>2. CASE Fail(c, "operator")
    BY <2>1, <2>2, FailType
  <2>3. CASE \E stage \in Stage : Continue(c, stage, op.entry)
    BY <1>0, <1>c, <2>1, <2>3
  <2> QED BY <2>1, <2>2, <2>3
<1>3. CASE Seal(c)
  <2>1. Sealed(op.entry) \in Entry /\ "complete" \in Stage
    BY <1>0, ReceiptTypes DEF Stage
  <2> QED BY <1>3, <1>c, <2>1 DEF Seal
<1>4. CASE FailEntry(c)
  <2> DEFINE e == [op.entry EXCEPT !.receipt = Partial(op.entry)]
  <2>1. e \in Entry /\ "fail_run" \in Stage
    BY <1>0, ReceiptTypes DEF Entry, Stage
  <2>2. Save(k, e) /\ Continue(c, "fail_run", e)
    BY <1>4 DEF FailEntry
  <2> HIDE DEF e
  <2> QED BY <1>c, <2>1, <2>2
<1> QED BY <1>1, <1>2, <1>3, <1>4
    DEF Step, Call, ReuseTransition, FinishReuse, PreparePreview,
        StartPublishing, EnsureBranch, EnsurePull, Mutate,
        Written, CallFails, Complete, FailRun, StoreError

\* What a step leaves an approval with is grounded again, and took place.
LEMMA StaysGrounded ==
  ASSUME EInv, NEW c \in Clients, ops[c] # None, Step(c)
  PROVE  ops'[c] # None =>
           LET k == KeyOf[ops[c].run]
           IN  /\ Grounded(ops'[c], ledger'[k], config)
               /\ Backed(k, ops'[c].entry, branches', opened', applied')
               /\ SealedOK(ops'[c].entry)
<1> DEFINE op == ops[c]
           k  == KeyOf[op.run]
           Kept(e) == Backed(k, e, branches', opened', applied')
           goal == ops'[c] # None =>
                     /\ Grounded(ops'[c], ledger'[k], config)
                     /\ Kept(ops'[c].entry)
                     /\ SealedOK(ops'[c].entry)
<1>s. [Next]_vars
  BY DEF Next
<1>t. TypeInv /\ TypeOK /\ TypeOK' /\ IInv
  BY <1>s, TypeStep DEF EInv, IInv, TypeInv
<1>w. WorldGrows
  BY <1>s, <1>t, EffectsLast
<1>0. /\ op \in Op /\ op.run \in Runs /\ op.entry \in Entry /\ k \in Keys
      /\ ledger[k] \in Entry /\ ledger[k] # None
      /\ Grounded(op, ledger[k], config)
      /\ Faithful(op, ledger[k]) /\ GoodOp(op, config)
      /\ Backed(k, op.entry, branches, opened, applied)
      /\ Backed(k, ledger[k], branches, opened, applied)
      /\ SealedOK(ledger[k])
  <2>1. op \in Op /\ op.run \in Runs /\ op.entry \in Entry /\ k \in Keys
    BY <1>t, BusyType
  <2> QED BY <1>t, <2>1 DEF EInv, IInv, TypeInv, TypeOK
<1>k. Kept(op.entry) /\ Kept(ledger[k])
  BY <1>0, <1>t, <1>w, BackedLasts
<1>l. SealedOK(op.entry)
  BY <1>0 DEF Faithful, SealedOK, SettledStages
<1>c. ASSUME NEW stage \in Stage, NEW e \in Entry, Continue(c, stage, e)
      PROVE  /\ ops'[c].stage = stage /\ ops'[c].entry = e
             /\ ops'[c].run = op.run
  BY <1>t, <1>c, ContinueType
<1>f. ASSUME NEW error \in {"retryable", "operator"}, Fail(c, error),
             op.stage \notin {"reuse", "finish_reuse"},
             \/ ledger' = ledger /\ op.stage \notin SaveStages
             \/ Save(k, op.entry)
      PROVE  goal
  <2>1. /\ ops'[c].stage = "fail" /\ ops'[c].entry = op.entry
        /\ ops'[c].run = op.run
    BY <1>t, <1>f, FailType
  <2>2. ledger'[k] = op.entry
    BY <1>t, <1>0, <1>f, SaveType DEF Grounded
  <2> QED BY <1>0, <1>k, <1>l, <1>f, <2>1, <2>2
          DEF Grounded, SaveStages, WorkStages, GitHubStages, DataHubStages
<1>1. CASE ReuseTransition(c)
  <2>1. /\ Continue(c, "finish_reuse", op.entry) /\ ledger' = ledger
        /\ op.stage = "reuse" /\ "finish_reuse" \in Stage
    BY <1>1 DEF ReuseTransition, At, Stage
  <2> QED BY <1>0, <1>k, <1>l, <1>c, <2>1
          DEF Grounded, SaveStages, WorkStages, GitHubStages, DataHubStages
<1>2. CASE PreparePreview(c)
  <2>1. /\ Continue(c, "save_preview", op.entry) /\ ledger' = ledger
        /\ op.stage = "prepare" /\ "save_preview" \in Stage
    BY <1>2 DEF PreparePreview, At, Stage
  <2> QED BY <1>0, <1>k, <1>l, <1>c, <2>1
          DEF Grounded, SaveStages, WorkStages, GitHubStages, DataHubStages
<1>3. CASE SavePreview(c)
  <2> DEFINE e == [op.entry EXCEPT
               !.writeback = "not_written",
               !.receipt = [mode |-> "preview", branch |-> FALSE, pull |-> 0,
                            writeback |-> "not_written", reused |-> FALSE],
               !.completed = TRUE]
  <2>1. e \in Entry /\ "complete" \in Stage
    BY <1>0 DEF Entry, Receipt, Label, Stage
  <2>2. Save(k, e) /\ Continue(c, "complete", e) /\ op.stage = "save_preview"
    BY <1>3 DEF SavePreview, At
  <2>3. Kept(e) /\ e.owner = op.run
    BY <1>0, <1>k, <2>2 DEF Backed, Grounded, Entry
  <2>4. SealedOK(e)
    BY <1>0, <2>2
    DEF Backed, Faithful, SealedOK, Finished, Entry, PreviewStages
  <2> HIDE DEF e
  <2>5. ledger'[k] = e
    BY <1>t, <1>0, <2>1, <2>2, SaveType
  <2> QED BY <1>c, <2>1, <2>2, <2>3, <2>4, <2>5
          DEF Grounded, SaveStages, WorkStages, GitHubStages, DataHubStages
<1>4. CASE StartPublishing(c)
  <2> DEFINE stage == IF DestinationMismatch(op.entry) THEN "fail"
                      ELSE NextLiveStage(op.entry)
  <2>1. /\ op.stage = "publish" /\ ledger' = ledger
        /\ \/ IF stage = "fail" THEN Fail(c, "operator")
                                ELSE Continue(c, stage, op.entry)
           \/ Leave(c)
    BY <1>4 DEF StartPublishing, At
  <2>2. /\ stage \in Stage
        /\ stage \in {"fail", "branch", "pull", "writeback", "seal"}
    BY NextLiveStageType DEF Stage
  <2>3. stage # "fail" =>
          /\ InPlace(op.entry, config)
          /\ stage \in {"branch", "pull"} => op.entry.repo # None
          /\ stage = "pull" => op.entry.branch
          /\ stage = "writeback" => op.entry.server # None
          /\ stage = "seal" => Finished(op.entry)
    BY <1>0, NextLiveStageFits, NoMismatchIsInPlace
  <2> HIDE DEF stage
  <2>4. CASE stage = "fail" /\ Fail(c, "operator")
    BY <1>f, <2>1, <2>4 DEF SaveStages
  <2>5. CASE stage # "fail" /\ Continue(c, stage, op.entry)
    BY <1>0, <1>k, <1>l, <1>c, <2>1, <2>2, <2>3, <2>5
    DEF Grounded, SaveStages, WorkStages, GitHubStages, DataHubStages
  <2>6. CASE Leave(c)
    BY <1>t, <2>6, LeaveType
  <2> QED BY <2>1, <2>4, <2>5, <2>6
<1>5. CASE EnsureBranch(c)
  <2> DEFINE e == [op.entry EXCEPT !.branch = TRUE]
  <2>1. /\ op.stage = "branch" /\ ledger' = ledger
        /\ branches' = branches \cup {<<op.run, config.repo>>}
        /\ \/ Continue(c, "save_branch", e)
           \/ \E error \in {"retryable", "operator"} : Fail(c, error)
    BY <1>5 DEF EnsureBranch, At
  <2>2. CASE Continue(c, "save_branch", e)
    <3>1. /\ op.entry.owner = op.run /\ op.entry.pull = 0
          /\ op.entry.repo # None /\ op.entry.repo = config.repo
          /\ InPlace(op.entry, config) /\ ~op.entry.completed
      BY <1>0, <2>1
      DEF Grounded, Faithful, InPlace, GitHubStages, WorkStages, SettledStages
    <3>2. /\ e \in Entry /\ "save_branch" \in Stage /\ ~e.completed
          /\ e.owner = op.run /\ e.branch /\ e.repo # None
          /\ InPlace(e, config)
      BY <1>0, <3>1 DEF Entry, Stage, InPlace
    <3>3. Kept(e)
      BY <1>0, <1>k, <2>1, <3>1 DEF Backed, Entry
    <3> HIDE DEF e
    <3> QED BY <1>c, <2>1, <2>2, <3>2, <3>3
            DEF Grounded, SealedOK, SaveStages, WorkStages, GitHubStages,
                DataHubStages
  <2> QED BY <1>f, <2>1, <2>2 DEF SaveStages
<1>6. CASE EnsurePull(c)
  <2> DEFINE site == <<op.run, config.repo>>
             n == OpenedAfter(site)[site]
             e == [op.entry EXCEPT !.pull = n]
  <2>1. /\ op.stage = "pull" /\ ledger' = ledger
        /\ opened' = OpenedAfter(site)
        /\ \/ Continue(c, "save_pull", e)
           \/ \E error \in {"retryable", "operator"} : Fail(c, error)
    BY <1>6 DEF EnsurePull, At
  <2>2. CASE Continue(c, "save_pull", e)
    <3>1. /\ op.entry.owner = op.run /\ op.entry.pull = 0
          /\ op.entry.repo # None /\ op.entry.repo = config.repo
          /\ op.entry.branch
          /\ InPlace(op.entry, config) /\ ~op.entry.completed
      BY <1>0, <2>1
      DEF Grounded, Faithful, InPlace, GitHubStages, WorkStages, SettledStages
    <3>2. n \in Nat /\ n = opened'[site]
      <4>1. site \in Sites
        BY <1>0, <3>1 DEF Op, Sites, Entry
      <4> QED BY <1>t, <2>1, <4>1 DEF TypeOK
    <3>3. /\ e \in Entry /\ "save_pull" \in Stage /\ ~e.completed
          /\ e.owner = op.run /\ e.branch /\ e.repo # None
          /\ InPlace(e, config)
      BY <1>0, <3>1, <3>2 DEF Entry, Stage, InPlace
    <3>4. Kept(e)
      <4>1. /\ e.owner = op.entry.owner /\ e.mode = op.entry.mode
            /\ e.repo = op.entry.repo /\ e.server = op.entry.server
            /\ e.branch = op.entry.branch /\ e.pull = opened'[site]
            /\ e.done = op.entry.done /\ e.writeback = op.entry.writeback
        BY <1>0, <3>2 DEF Entry
      <4>2. site = <<e.owner, e.repo>> /\ n <= n
        BY <3>1, <3>2, <4>1
      <4> HIDE DEF e, n, site
      <4> QED BY <1>k, <3>1, <3>2, <4>1, <4>2 DEF Backed
    <3> HIDE DEF e
    <3> QED BY <1>c, <2>1, <2>2, <3>3, <3>4
            DEF Grounded, SealedOK, SaveStages, WorkStages, GitHubStages,
                DataHubStages
  <2> QED BY <1>f, <2>1, <2>2 DEF SaveStages
<1>7. ASSUME NEW m \in Mutations, Mutate(c, m) PROVE goal
  <2> DEFINE e == Progress(op.entry, m)
  <2>1. /\ op.stage = "writeback" /\ ledger' = ledger
        /\ applied' = applied \cup {<<k, config.server, m>>}
        /\ \/ Continue(c, "save_progress", e)
           \/ \E error \in {"retryable", "operator"} : Fail(c, error)
    BY <1>7 DEF Mutate, At
  <2>2. CASE Continue(c, "save_progress", e)
    <3>1. /\ op.entry.owner = op.run /\ op.entry.server # None
          /\ op.entry.server = config.server
          /\ InPlace(op.entry, config) /\ ~op.entry.completed
      BY <1>0, <2>1
      DEF Grounded, Faithful, InPlace, DataHubStages, WorkStages, SettledStages
    <3>2. /\ e \in Entry /\ "save_progress" \in Stage /\ ~e.completed
          /\ e.owner = op.run /\ e.server # None
          /\ InPlace(e, config)
      BY <1>0, <3>1 DEF Progress, Entry, Label, Stage, InPlace
    <3>3. Kept(e)
      <4>1. /\ e.owner = op.entry.owner /\ e.mode = op.entry.mode
            /\ e.repo = op.entry.repo /\ e.server = op.entry.server
            /\ e.branch = op.entry.branch /\ e.pull = op.entry.pull
            /\ e.done = op.entry.done \cup {m} /\ e.writeback = "in_progress"
        BY <1>0 DEF Progress, Entry
      <4> HIDE DEF e
      <4> QED BY <1>k, <2>1, <3>1, <4>1 DEF Backed
    <3> HIDE DEF e
    <3> QED BY <1>c, <2>1, <2>2, <3>2, <3>3
            DEF Grounded, SealedOK, SaveStages, WorkStages, GitHubStages,
                DataHubStages
  <2> QED BY <1>f, <2>1, <2>2 DEF SaveStages
<1>8. CASE Written(c)
  <2> DEFINE e == [op.entry EXCEPT !.writeback = "written"]
  <2>1. /\ op.stage = "writeback" /\ ledger' = ledger
        /\ Continue(c, "save_written", e) /\ op.entry.done = Mutations
    BY <1>8 DEF Written, At
  <2>2. /\ op.entry.owner = op.run /\ op.entry.server # None
        /\ InPlace(op.entry, config) /\ ~op.entry.completed
    BY <1>0, <2>1
    DEF Grounded, Faithful, DataHubStages, WorkStages, SettledStages
  <2>3. /\ e \in Entry /\ "save_written" \in Stage /\ ~e.completed
        /\ e.owner = op.run /\ e.server # None /\ InPlace(e, config)
    BY <1>0, <2>2 DEF Entry, Label, Stage, InPlace
  <2>4. Kept(e)
    BY <1>0, <1>k, <2>1, <2>2 DEF Backed, Entry
  <2> HIDE DEF e
  <2> QED BY <1>c, <2>1, <2>3, <2>4
          DEF Grounded, SealedOK, SaveStages, WorkStages, GitHubStages,
              DataHubStages
<1>9. CASE CallFails(c)
  <2>1. /\ op.stage \in {"branch", "pull", "writeback"} /\ ledger' = ledger
        /\ \E error \in {"retryable", "operator"} : Fail(c, error)
    BY <1>9 DEF CallFails, At
  <2> QED BY <1>f, <2>1 DEF SaveStages
<1>10. CASE Checkpoint(c)
  <2>1. op.stage \in SaveStages /\ Save(k, op.entry)
    BY <1>10 DEF Checkpoint, At, SaveStages
  <2>2. /\ ledger'[k] = op.entry
        /\ op.entry.owner = op.run /\ InPlace(op.entry, config)
    BY <1>t, <1>0, <2>1, SaveType DEF Grounded, SaveStages, WorkStages
  <2>3. PICK next \in Stage :
          /\ next \in {"fail", "branch", "pull", "writeback", "seal"}
          /\ next \in {"branch", "pull"} => op.entry.repo # None
          /\ next = "pull" => op.entry.branch
          /\ next = "writeback" => op.entry.server # None
          /\ next = "seal" => Finished(op.entry)
          /\ IF next = "fail" THEN Fail(c, "operator")
             ELSE Continue(c, next, op.entry)
    <3>1. CASE op.stage = "save_branch"
      BY <1>0, <1>10, <3>1 DEF Checkpoint, Grounded, GitHubStages, Stage
    <3>2. CASE op.stage = "save_progress"
      BY <1>0, <1>10, <3>2 DEF Checkpoint, Grounded, DataHubStages, Stage
    <3>3. CASE op.stage \notin {"save_branch", "save_progress"}
      <4> DEFINE next == NextLiveStage(op.entry)
      <4>1. IF next = "fail" THEN Fail(c, "operator")
                             ELSE Continue(c, next, op.entry)
        BY <1>10, <3>3 DEF Checkpoint
      <4>2. /\ next \in {"fail", "branch", "pull", "writeback", "seal"}
            /\ next \in Stage
        BY NextLiveStageType DEF Stage
      <4>3. /\ next \in {"branch", "pull"} => op.entry.repo # None
            /\ next = "pull" => op.entry.branch
            /\ next = "writeback" => op.entry.server # None
            /\ next = "seal" => Finished(op.entry)
        BY <1>0, NextLiveStageFits
      <4> HIDE DEF next
      <4> QED BY <4>1, <4>2, <4>3
    <3> QED BY <3>1, <3>2, <3>3
  <2>4. CASE next = "fail"
    BY <1>f, <2>1, <2>3, <2>4 DEF SaveStages
  <2>5. CASE next # "fail"
    BY <1>0, <1>c, <1>k, <1>l, <2>2, <2>3, <2>5
    DEF Grounded, SaveStages, WorkStages, GitHubStages, DataHubStages
  <2> QED BY <2>4, <2>5
<1>11. CASE Seal(c)
  <2> DEFINE e == Sealed(op.entry)
  <2>1. op.stage = "seal" /\ Save(k, e) /\ Continue(c, "complete", e)
    BY <1>11 DEF Seal, At
  <2>2. e \in Entry /\ "complete" \in Stage
    BY <1>0, ReceiptTypes DEF Stage
  <2>3. /\ op.entry.owner = op.run /\ Finished(op.entry)
        /\ op.entry.mode = "live"
    BY <1>0, <2>1
    DEF Grounded, Faithful, PreviewStages, SettledStages
  <2>4. /\ e.owner = op.entry.owner /\ e.mode = op.entry.mode
        /\ e.repo = op.entry.repo /\ e.server = op.entry.server
        /\ e.branch = op.entry.branch /\ e.pull = op.entry.pull
        /\ e.done = op.entry.done /\ e.writeback = FinalLabel(op.entry)
        /\ e.receipt = [mode |-> "live", branch |-> e.branch, pull |-> e.pull,
                        writeback |-> e.writeback, reused |-> FALSE]
    BY <1>0 DEF Sealed, Entry
  <2>5. e.writeback = "written" <=> op.entry.writeback = "written"
    BY <2>4, NoneAssumption DEF FinalLabel, Label
  <2> HIDE DEF e
  <2>6. Kept(e) /\ SealedOK(e)
    BY <1>k, <2>3, <2>4, <2>5 DEF Backed, SealedOK, Finished
  <2>7. ledger'[k] = e
    BY <1>t, <1>0, <2>1, <2>2, SaveType
  <2> QED BY <1>c, <2>1, <2>2, <2>3, <2>4, <2>6, <2>7
          DEF Grounded, SaveStages, WorkStages, GitHubStages, DataHubStages
<1>12. CASE FailEntry(c)
  <2> DEFINE e == [op.entry EXCEPT !.receipt = Partial(op.entry)]
  <2>1. Save(k, e) /\ Continue(c, "fail_run", e) /\ op.stage = "fail"
    BY <1>12 DEF FailEntry, At
  <2>2. op.entry.owner = op.run /\ ~op.entry.completed
    BY <1>0, <2>1 DEF Grounded, Faithful, SettledStages
  <2>3. /\ e \in Entry /\ "fail_run" \in Stage
        /\ e.owner = op.run /\ ~e.completed
    BY <1>0, <2>2, ReceiptTypes DEF Entry, Stage
  <2>4. Kept(e)
    BY <1>0, <1>k DEF Backed, Entry
  <2> HIDE DEF e
  <2>5. ledger'[k] = e
    BY <1>t, <1>0, <2>1, <2>3, SaveType
  <2> QED BY <1>c, <2>1, <2>3, <2>4, <2>5
          DEF Grounded, SealedOK, SaveStages, WorkStages, GitHubStages,
              DataHubStages
<1>13. CASE FinishReuse(c) \/ Complete(c) \/ FailRun(c)
  BY <1>t, <1>13, LeaveType DEF FinishReuse, Complete, FailRun
<1>14. CASE StoreError(c)
  <2>1. CASE op.stage \in {"save_branch", "save_progress", "save_written"}
    <3> DEFINE new == [op EXCEPT !.stage = "fail", !.error = "retryable",
                                 !.entry = ledger[k]]
    <3>1. ops' = [ops EXCEPT ![c] = new] /\ ledger' = ledger
      BY <1>14, <2>1 DEF StoreError
    <3>2. /\ new.stage = "fail" /\ new.entry = ledger[k] /\ new.run = op.run
      BY <1>0 DEF Op
    <3>3. ledger[k].owner = op.run
      BY <1>0, <2>1 DEF Grounded, Faithful, Extends
    <3> HIDE DEF new
    <3> QED BY <1>t, <1>0, <1>k, <3>1, <3>2, <3>3
        DEF Grounded, SaveStages, WorkStages, GitHubStages, DataHubStages,
            TypeOK
  <2>2. CASE op.stage \notin {"save_branch", "save_progress", "save_written"}
    BY <1>t, <1>14, <2>2, LeaveType DEF StoreError
  <2> QED BY <2>1, <2>2
<1> QED BY <1>1, <1>2, <1>3, <1>4, <1>5, <1>6, <1>7, <1>8, <1>9, <1>10, <1>11,
           <1>12, <1>13, <1>14 DEF Step, Call

\* Whatever a step does on GitHub or DataHub is what the ledger bound, and the
\* mutations come in their order.
LEMMA EffectsAreBound == EInv /\ [Next]_vars =>
                           EffectsOnlyWhereBound' /\ MutationsInOrder'
<1> SUFFICES ASSUME EInv, [Next]_vars
             PROVE  EffectsOnlyWhereBound' /\ MutationsInOrder'
  OBVIOUS
<1>t. TypeOK /\ TypeOK' /\ TypeInv /\ IInv
  BY TypeStep DEF EInv, IInv, TypeInv
<1>g. Grows
  BY <1>t, LedgerGrows
<1> DEFINE AtHome(s) == LET e == ledger[KeyOf[s[1]]]
                        IN  e # None /\ e.owner = s[1] /\ e.repo = s[2]
           Due2(a) == /\ ledger[a[1]] # None /\ ledger[a[1]].server = a[2]
                      /\ Earlier(a[3]) \subseteq ledger[a[1]].done
<1>b. ASSUME NEW c \in Clients, At(c, "branch") \/ At(c, "pull")
      PROVE  <<ops[c].run, config.repo>> \in Sites /\ AtHome(<<ops[c].run, config.repo>>)
  <2> DEFINE op == ops[c]
             k  == KeyOf[op.run]
  <2>1. op # None /\ op.stage \in {"branch", "pull"}
    BY <1>b DEF At
  <2>2. /\ op.run \in Runs /\ op.entry \in Entry /\ ledger[k] # None
        /\ Grounded(op, ledger[k], config) /\ Faithful(op, ledger[k])
    BY <1>t, <2>1, BusyType DEF EInv, IInv, TypeInv
  <2>3. /\ op.entry = ledger[k] /\ op.entry.owner = op.run
        /\ op.entry.repo # None /\ op.entry.repo = config.repo
    BY <2>1, <2>2
    DEF Grounded, Faithful, InPlace, SaveStages, WorkStages, GitHubStages
  <2> QED BY <2>2, <2>3 DEF Sites, Entry
<1>1. ASSUME NEW s \in Sites, s \in branches' \/ opened'[s] > 0
      PROVE  AtHome(s)
  <2>0. CASE s \in branches \/ opened[s] > 0
    BY <2>0 DEF EInv, EffectsOnlyWhereBound
  <2>1. CASE UNCHANGED <<branches, opened>>
    BY <1>1, <2>0, <2>1
  <2>2. ASSUME NEW c \in Clients, EnsureBranch(c) PROVE AtHome(s)
    <3>1. /\ At(c, "branch") /\ opened' = opened
          /\ branches' = branches \cup {<<ops[c].run, config.repo>>}
      BY <2>2 DEF EnsureBranch
    <3> QED BY <1>1, <1>b, <2>0, <3>1
  <2>3. ASSUME NEW c \in Clients, EnsurePull(c) PROVE AtHome(s)
    <3> DEFINE site == <<ops[c].run, config.repo>>
    <3>1. /\ At(c, "pull") /\ branches' = branches
          /\ opened' = OpenedAfter(site)
      BY <2>3 DEF EnsurePull
    <3>2. s # site => opened'[s] = opened[s]
      BY <1>t, <3>1 DEF OpenedAfter, TypeOK
    <3> QED BY <1>1, <1>b, <2>0, <3>1, <3>2
  <2> QED BY <2>1, <2>2, <2>3
      DEF Next, Step, Call, BeginPublication, BeginReuse, ReuseTransition,
          FinishReuse, PreparePreview, SavePreview, StartPublishing, Mutate,
          Written, CallFails, Checkpoint, Seal, Complete, FailEntry, FailRun,
          StoreError, Restart, EvidenceExpires, ClosePull, vars, world
<1>2. ASSUME NEW a \in applied' PROVE Due2(a)
  <2>0. CASE a \in applied
    BY <2>0 DEF EInv, EffectsOnlyWhereBound, MutationsInOrder
  <2>1. CASE applied' = applied
    BY <2>0, <2>1
  <2>2. ASSUME NEW c \in Clients, NEW m \in Mutations, Mutate(c, m)
        PROVE  Due2(a)
    <3> DEFINE op == ops[c]
               k  == KeyOf[op.run]
    <3>1. /\ op # None /\ op.stage = "writeback" /\ Due(op.entry, m)
          /\ applied' = applied \cup {<<k, config.server, m>>}
      BY <2>2 DEF Mutate, At
    <3>2. /\ op.run \in Runs /\ op.entry \in Entry /\ ledger[k] # None
          /\ Grounded(op, ledger[k], config) /\ Faithful(op, ledger[k])
      BY <1>t, <3>1, BusyType DEF EInv, IInv, TypeInv
    <3>3. op.entry = ledger[k] /\ op.entry.server = config.server
      BY <3>1, <3>2
      DEF Grounded, Faithful, InPlace, SaveStages, WorkStages, DataHubStages
    <3>4. Earlier(m) \subseteq ledger[k].done
      BY <3>1, <3>3 DEF Due
    <3> HIDE DEF k, op
    <3>5. Due2(<<k, config.server, m>>)
      BY <3>2, <3>3, <3>4
    <3> QED BY <2>0, <3>1, <3>5
  <2> QED BY <2>1, <2>2
      DEF Next, Step, Call, BeginPublication, BeginReuse, ReuseTransition,
          FinishReuse, PreparePreview, SavePreview, StartPublishing,
          EnsureBranch, EnsurePull, Written, CallFails, Checkpoint, Seal,
          Complete, FailEntry, FailRun, StoreError, Restart, EvidenceExpires,
          ClosePull, vars, world
<1>3. \A s \in Sites : KeyOf[s[1]] \in Keys
  BY PublicationAssumption DEF Sites
<1>4. \A a \in applied' : a[1] \in Keys
  BY <1>t DEF TypeOK
<1>5. EffectsOnlyWhereBound'
  BY <1>g, <1>1, <1>2, <1>3, <1>4 DEF EffectsOnlyWhereBound, Grows, Extends
<1>6. MutationsInOrder'
  BY <1>g, <1>2, <1>4 DEF MutationsInOrder, Grows, Extends
<1> QED BY <1>5, <1>6

-----------------------------------------------------------------------------
(* Taking a publication up again.                                          *)

Resumable(mode) ==
  IF mode = "live"
  THEN {"awaiting_approval", "publishing", "publication_failed"}
  ELSE {"awaiting_approval", "preparing_preview"}

\* Until the entry is completed, an approval moves its run only to states that
\* fit the mode of the entry.
LEMMA MovesFitTheMode ==
  ASSUME IInv, NEW c \in Clients, ops[c] # None, Step(c),
         ops[c].stage \notin SettledStages
  PROVE  \/ runs' = runs
         \/ \E to \in Resumable(ops[c].entry.mode) : \E given :
              MoveRun(ops[c].run, to, given)
<1> DEFINE op == ops[c]
<1>0. Faithful(op, ledger[KeyOf[op.run]])
  BY DEF IInv
<1>1. CASE PreparePreview(c)
  <2>1. op.entry.mode = "preview"
    BY <1>0, <1>1 DEF PreparePreview, At, Faithful, PreviewStages
  <2> QED BY <1>1, <2>1 DEF PreparePreview, Resumable
<1>2. CASE StartPublishing(c)
  <2>1. op.entry.mode = "live"
    BY <1>0, <1>2
    DEF StartPublishing, At, Faithful, PreviewStages, SettledStages
  <2> QED BY <1>2, <2>1 DEF StartPublishing, Resumable
<1>3. CASE FailRun(c)
  <2>1. op.entry.mode = "live"
    BY <1>0, <1>3 DEF FailRun, At, Faithful, PreviewStages, SettledStages
  <2> QED BY <1>3, <2>1 DEF FailRun, Resumable
<1>4. ~ReuseTransition(c) /\ ~FinishReuse(c) /\ ~Complete(c)
  BY DEF ReuseTransition, FinishReuse, Complete, At, SettledStages
<1> QED BY <1>1, <1>2, <1>3, <1>4
    DEF Step, Call, SavePreview, EnsureBranch, EnsurePull, Mutate, Written,
        CallFails, Checkpoint, Seal, FailEntry, StoreError

\* A run moves only under an approval of it, which has claimed its key.
LEMMA OnlyApprovalsMove ==
  ASSUME IInv, [Next]_vars, NEW r \in Runs, runs'[r] # runs[r]
  PROVE  \E c \in Clients : /\ ops[c] # None /\ Step(c) /\ ops[c].run = r
                            /\ ledger[KeyOf[r]] # None
<1>t. TypeOK
  BY DEF IInv, TypeInv
<1>1. PICK c \in Clients : Step(c)
  BY DEF Next, BeginPublication, BeginReuse, Restart, EvidenceExpires,
         ClosePull, vars
<1>2. ops[c] # None /\ runs' # runs
  BY <1>1, StepIsBusy
<1>3. PICK to, given : MoveRun(ops[c].run, to, given)
  BY <1>1, <1>2, RunsMove
<1>4. ops[c].run = r
  BY <1>t, <1>3 DEF MoveRun, TypeOK
<1> QED BY <1>1, <1>2, <1>4 DEF IInv, TypeInv

\* Who claims a key is a run that awaits approval, and it stays resumable.
LEMMA OwnerStaysResumable == EInv /\ [Next]_vars =>
                               OwnerCanResume' /\ UnclaimedIsFresh'
<1> SUFFICES ASSUME EInv, [Next]_vars
             PROVE  OwnerCanResume' /\ UnclaimedIsFresh'
  OBVIOUS
<1>t. TypeOK /\ IInv
  BY DEF EInv, IInv, TypeInv
<1>g. Grows
  BY <1>t, LedgerGrows
<1>1. UnclaimedIsFresh'
  <2> SUFFICES ASSUME NEW r \in Runs, ledger'[KeyOf[r]] = None
               PROVE  runs'[r].state = "awaiting_approval"
    BY DEF UnclaimedIsFresh
  <2>1. ledger[KeyOf[r]] = None
    BY <1>g, PublicationAssumption DEF Grows
  <2>2. runs'[r] = runs[r]
    BY <1>t, <2>1, OnlyApprovalsMove
  <2> QED BY <2>1, <2>2 DEF EInv, UnclaimedIsFresh
<1>2. OwnerCanResume'
  <2> SUFFICES ASSUME NEW k \in Keys, ledger'[k] # None, ~ledger'[k].completed
               PROVE  /\ KeyOf[ledger'[k].owner] = k
                      /\ runs'[ledger'[k].owner].state
                           \in Resumable(ledger'[k].mode)
    BY DEF OwnerCanResume, Resumable
  <2>1. CASE ledger[k] # None
    <3> DEFINE r == ledger[k].owner
    <3>1. /\ ~ledger[k].completed
          /\ ledger'[k].owner = r /\ ledger'[k].mode = ledger[k].mode
      BY <1>g, <2>1 DEF Grows, Extends
    <3>2. /\ KeyOf[r] = k /\ runs[r].state \in Resumable(ledger[k].mode)
          /\ r \in Runs
      BY <1>t, <2>1, <3>1 DEF EInv, OwnerCanResume, Resumable, TypeOK, Entry
    <3>3. CASE runs'[r] = runs[r]
      BY <3>1, <3>2, <3>3
    <3>4. CASE runs'[r] # runs[r]
      <4>1. PICK c \in Clients : ops[c] # None /\ Step(c) /\ ops[c].run = r
        BY <1>t, <3>2, <3>4, OnlyApprovalsMove
      <4>2. /\ ops[c].stage \notin SettledStages
            /\ ops[c].entry.mode = ledger[k].mode
        BY <1>t, <3>1, <3>2, <4>1
        DEF IInv, TypeInv, GoodOp, Faithful, Extends
      <4>3. PICK to \in Resumable(ledger[k].mode) :
                   \E given : MoveRun(r, to, given)
        BY <1>t, <3>4, <4>1, <4>2, MovesFitTheMode
      <4>4. runs'[r].state = to
        BY <1>t, <3>2, <4>3 DEF MoveRun, Moved, TypeOK
      <4> QED BY <3>1, <3>2, <4>4
    <3> QED BY <3>3, <3>4
  <2>2. CASE ledger[k] = None
    <3>1. PICK c \in Clients, r \in Runs, token \in BOOLEAN :
            BeginPublication(c, r, token) /\ KeyOf[r] = k
      <4>1. ledger' # ledger
        BY <2>2
      <4>2. ASSUME NEW c \in Clients, Step(c) PROVE FALSE
        <5>1. /\ ops[c] # None
              /\ KeyOf[ops[c].run] \in Keys /\ ledger[KeyOf[ops[c].run]] # None
          BY <1>t, <4>2, StepIsBusy, BusyType DEF IInv, TypeInv
        <5>2. PICK e : Save(KeyOf[ops[c].run], e)
          BY <1>t, <4>1, <4>2, <5>1, SavesExtend
        <5> QED BY <1>t, <2>2, <5>1, <5>2 DEF Save, TypeOK
      <4>3. PICK c \in Clients, r \in Runs, token \in BOOLEAN :
              BeginPublication(c, r, token)
        BY <4>1, <4>2
        DEF Next, BeginReuse, Restart, EvidenceExpires, ClosePull, vars
      <4>4. Save(KeyOf[r], EntryFor(r))
        BY <4>3 DEF BeginPublication
      <4> QED BY <1>t, <2>2, <4>3, <4>4 DEF Save, TypeOK
    <3>2. ledger'[k] = NewEntry(r) /\ runs' = runs
      BY <1>t, <2>2, <3>1 DEF BeginPublication, EntryFor, Save, TypeOK
    <3>3. ledger'[k].owner = r
      BY <3>2 DEF NewEntry
    <3>4. runs[r].state = "awaiting_approval"
      BY <2>2, <3>1 DEF EInv, UnclaimedIsFresh
    <3> QED BY <3>1, <3>2, <3>3, <3>4 DEF Resumable
  <2> QED BY <2>1, <2>2
<1> QED BY <1>1, <1>2

-----------------------------------------------------------------------------
(* The invariant is inductive.                                             *)

\* EInv holds at the start,
LEMMA EInvInit == Init => EInv
<1> SUFFICES ASSUME Init PROVE EInv
  OBVIOUS
<1>1. IInv
  BY IInvInit
<1>2. /\ \A c \in Clients : ops[c] = None
      /\ \A k \in Keys : ledger[k] = None
      /\ \A r \in Runs : runs[r].state = "awaiting_approval"
  BY DEF Init
<1>3. EffectsOnlyWhereBound /\ MutationsInOrder
  BY DEF Init, EffectsOnlyWhereBound, MutationsInOrder
<1> QED BY <1>1, <1>2, <1>3 DEF EInv, OwnerCanResume, UnclaimedIsFresh

\* a step of an approval keeps what the entries and the copies record,
LEMMA RecordsOfStep ==
  ASSUME EInv, NEW c \in Clients, Step(c)
  PROVE  /\ \A d \in Clients : ops'[d] # None =>
              /\ Grounded(ops'[d], ledger'[KeyOf[ops'[d].run]], config')
              /\ Backed(KeyOf[ops'[d].run], ops'[d].entry, branches', opened',
                        applied')
         /\ \A l \in Keys : ledger'[l] # None =>
              /\ Backed(l, ledger'[l], branches', opened', applied')
              /\ SealedOK(ledger'[l])
<1> DEFINE k == KeyOf[ops[c].run]
<1>s. [Next]_vars
  BY DEF Next
<1>t. TypeInv /\ TypeOK /\ TypeOK' /\ IInv
  BY <1>s, TypeStep DEF EInv, IInv, TypeInv
<1>w. WorldGrows
  BY <1>s, <1>t, EffectsLast
<1>0. ops[c] # None /\ k \in Keys
  BY <1>t, StepIsBusy, BusyType
<1>1. ops'[c] # None =>
        /\ Grounded(ops'[c], ledger'[k], config)
        /\ Backed(k, ops'[c].entry, branches', opened', applied')
        /\ SealedOK(ops'[c].entry)
        /\ ops'[c].run = ops[c].run
  BY <1>t, <1>0, StaysGrounded, StaysFaithful
<1>2. config' = config
  BY DEF Step, Call, ReuseTransition, FinishReuse, PreparePreview, SavePreview,
         StartPublishing, EnsureBranch, EnsurePull, Mutate, Written, CallFails,
         Checkpoint, Seal, Complete, FailEntry, FailRun, StoreError
<1>3. \A d \in Clients \ {c} : ops'[d] = None
  <2>1. \A d \in Clients \ {c} : ops[d] = None
    BY <1>t, <1>0 DEF IInv, Exclusive
  <2> QED BY <1>t, <1>0, <2>1, StepIsAlone
<1>4. \A l \in Keys : ledger[l] # None =>
        /\ Backed(l, ledger[l], branches', opened', applied')
        /\ SealedOK(ledger[l])
  BY <1>t, <1>w, BackedLasts DEF EInv, TypeOK
<1>5. CASE ledger' = ledger
  BY <1>1, <1>2, <1>3, <1>4, <1>5
<1>6. CASE Save(k, ops'[c].entry) /\ ops'[c] # None
  <2>1. /\ ledger'[k] = ops'[c].entry
        /\ \A l \in Keys \ {k} : ledger'[l] = ledger[l]
    BY <1>t, <1>0, <1>6 DEF Save, TypeOK
  <2> HIDE DEF k
  <2>2. ASSUME NEW l \in Keys, ledger'[l] # None
        PROVE  /\ Backed(l, ledger'[l], branches', opened', applied')
               /\ SealedOK(ledger'[l])
    BY <1>1, <1>4, <1>6, <2>1, <2>2
  <2> QED BY <1>1, <1>2, <1>3, <2>2 DEF k
<1> QED BY <1>t, <1>0, <1>5, <1>6, StepSaves

\* so does the start of one,
LEMMA RecordsOfBegin ==
  ASSUME EInv, NEW c \in Clients, NEW r \in Runs, NEW token \in BOOLEAN,
         BeginPublication(c, r, token) \/ BeginReuse(c, r, token)
  PROVE  /\ \A d \in Clients : ops'[d] # None =>
              /\ Grounded(ops'[d], ledger'[KeyOf[ops'[d].run]], config')
              /\ Backed(KeyOf[ops'[d].run], ops'[d].entry, branches', opened',
                        applied')
         /\ \A l \in Keys : ledger'[l] # None =>
              /\ Backed(l, ledger'[l], branches', opened', applied')
              /\ SealedOK(ledger'[l])
<1> DEFINE k == KeyOf[r]
<1>t. TypeOK /\ IInv /\ k \in Keys
  BY PublicationAssumption DEF EInv, IInv, TypeInv
<1>u. UNCHANGED <<config, branches, opened, applied>>
  BY DEF BeginPublication, BeginReuse, world
<1>1. PICK stage \in Stage, e \in Entry :
        /\ Begin(c, r, token, stage, e)
        /\ ledger' = [ledger EXCEPT ![k] = e]
        /\ Backed(k, e, branches, opened, applied) /\ SealedOK(e)
        /\ stage \in {"reuse", "finish_reuse", "prepare", "publish"}
        /\ stage \in {"prepare", "publish"} => e.owner = r
  <2>1. CASE BeginPublication(c, r, token)
    <3> DEFINE e == EntryFor(r)
               stage == IF e.mode = "preview" THEN "prepare" ELSE "publish"
    <3>1. e \in Entry /\ ~e.completed /\ Save(k, e) /\ Begin(c, r, token, stage, e)
      BY <1>t, <2>1, NewEntryType DEF BeginPublication
    <3>2. CASE ledger[k] = None
      <4>1. e = NewEntry(r)
        BY <3>2 DEF EntryFor
      <4>2. e.owner = r /\ Backed(k, e, branches, opened, applied)
        <5>1. /\ e.owner = r /\ e.branch = FALSE /\ e.pull = 0 /\ e.done = {}
              /\ e.writeback = None
              /\ e.mode = "preview" => e.repo = None /\ e.server = None
          BY <4>1 DEF NewEntry, ConfiguredIntent
        <5>2. None # "written"
          BY NoneAssumption DEF Label
        <5> HIDE DEF e
        <5> QED BY <5>1, <5>2 DEF Backed
      <4> QED BY <3>1, <4>2 DEF SealedOK, Save, Stage
    <3>3. CASE ledger[k] # None
      <4>1. e = ledger[k]
        BY <3>3 DEF EntryFor
      <4>2. e.owner = r
        BY <2>1, <3>1, <3>3, <4>1 DEF BeginPublication, Accepted
      <4>3. Backed(k, e, branches, opened, applied)
        BY <1>t, <3>3, <4>1 DEF EInv
      <4> QED BY <3>1, <4>2, <4>3 DEF SealedOK, Save, Stage
    <3> QED BY <3>2, <3>3
  <2>2. CASE BeginReuse(c, r, token)
    <3> DEFINE e == ledger[k]
               stage == IF runs[r].state \in {"preparing_preview", "publishing"}
                        THEN "finish_reuse" ELSE "reuse"
    <3>1. /\ e # None /\ Begin(c, r, token, stage, e) /\ ledger' = ledger
      BY <2>2 DEF BeginReuse
    <3>2. e \in Entry /\ Backed(k, e, branches, opened, applied) /\ SealedOK(e)
      BY <1>t, <3>1 DEF EInv, TypeOK
    <3>3. stage \in Stage /\ stage \in {"reuse", "finish_reuse"}
      BY DEF Stage
    <3>4. ledger' = [ledger EXCEPT ![k] = e]
      BY <1>t, <3>1 DEF TypeOK
    <3> HIDE DEF e, stage
    <3> QED BY <3>1, <3>2, <3>3, <3>4
  <2> QED BY <2>1, <2>2
<1>2. /\ ops'[c].stage = stage /\ ops'[c].entry = e /\ ops'[c].run = r
      /\ \A d \in Clients \ {c} : ops'[d] = None
  <2>1. /\ ops'[c].stage = stage /\ ops'[c].entry = e /\ ops'[c].run = r
        /\ \A d \in Clients \ {c} : ops'[d] = ops[d]
    BY <1>t, <1>1, BeginType
  <2>2. lock = None
    BY DEF BeginPublication, BeginReuse, LockFree
  <2> QED BY <1>t, <2>1, <2>2, PublicationAssumption DEF IInv, Exclusive
<1>3. ledger'[k] = e /\ \A l \in Keys \ {k} : ledger'[l] = ledger[l]
  BY <1>t, <1>1 DEF TypeOK
<1>4. Grounded(ops'[c], ledger'[k], config')
  BY <1>1, <1>2, <1>3
  DEF Grounded, SaveStages, WorkStages, GitHubStages, DataHubStages
<1>5. \A l \in Keys : ledger'[l] # None =>
        /\ Backed(l, ledger'[l], branches', opened', applied')
        /\ SealedOK(ledger'[l])
  BY <1>u, <1>1, <1>3 DEF EInv
<1> QED BY <1>u, <1>1, <1>2, <1>4, <1>5

\* and so does every step.
LEMMA EInvStep == EInv /\ [Next]_vars => EInv'
<1> SUFFICES ASSUME EInv, [Next]_vars PROVE EInv'
  OBVIOUS
<1>1. IInv'
  BY IInvStep DEF EInv
<1>2. /\ EffectsOnlyWhereBound' /\ MutationsInOrder'
      /\ OwnerCanResume' /\ UnclaimedIsFresh'
  BY EffectsAreBound, OwnerStaysResumable
<1> DEFINE Records ==
      /\ \A d \in Clients : ops'[d] # None =>
           /\ Grounded(ops'[d], ledger'[KeyOf[ops'[d].run]], config')
           /\ Backed(KeyOf[ops'[d].run], ops'[d].entry, branches', opened',
                     applied')
      /\ \A l \in Keys : ledger'[l] # None =>
           /\ Backed(l, ledger'[l], branches', opened', applied')
           /\ SealedOK(ledger'[l])
<1>3. Records
  <2>1. CASE UNCHANGED <<ledger, config, ops, branches, opened, applied>>
    BY <2>1 DEF EInv
  <2>2. CASE Restart
    <3>1. /\ \A d \in Clients : ops'[d] = None
          /\ UNCHANGED <<ledger, branches, opened, applied>>
      BY <2>2 DEF Restart, world
    <3> QED BY <3>1 DEF EInv
  <2>3. ASSUME NEW c \in Clients, Step(c) PROVE Records
    BY <2>3, RecordsOfStep
  <2>4. ASSUME NEW c \in Clients, NEW r \in Runs, NEW token \in BOOLEAN,
               BeginPublication(c, r, token) \/ BeginReuse(c, r, token)
        PROVE  Records
    BY <2>4, RecordsOfBegin
  <2> QED BY <2>1, <2>2, <2>3, <2>4
      DEF Next, EvidenceExpires, ClosePull, vars, world
<1> QED BY <1>1, <1>2, <1>3 DEF EInv

\* A final receipt repeats the entry, and what the entry records took place.
LEMMA SealedIsTruthful == EInv => ReceiptIsTruthful
<1> SUFFICES ASSUME EInv, NEW k \in Keys, ledger[k] # None, ledger[k].completed
             PROVE  LET e == ledger[k]
                    IN  /\ e.receipt # None /\ e.receipt.mode = e.mode
                        /\ e.receipt.branch = (e.repo # None)
                        /\ e.receipt.branch => <<e.owner, e.repo>> \in branches
                        /\ (e.receipt.pull > 0) = (e.repo # None)
                        /\ e.repo # None =>
                             e.receipt.pull <= opened[<<e.owner, e.repo>>]
                        /\ (e.receipt.writeback = "written")
                             = (e.server # None)
                        /\ e.server # None =>
                             \A m \in Mutations : <<k, e.server, m>> \in applied
  BY DEF ReceiptIsTruthful
<1> DEFINE e == ledger[k]
<1>1. /\ e \in Entry /\ e.receipt # None
      /\ Backed(k, e, branches, opened, applied) /\ SealedOK(e)
  BY DEF EInv, IInv, TypeInv, TypeOK, Receipted
<1>2. /\ e.receipt.mode = e.mode /\ e.receipt.branch = e.branch
      /\ e.receipt.pull = e.pull /\ e.receipt.writeback = e.writeback
      /\ Finished(e)
  BY <1>1 DEF SealedOK
<1>3. e.pull \in Nat /\ e.branch \in BOOLEAN
  BY <1>1 DEF Entry
<1> HIDE DEF e
<1>4. e.branch = (e.repo # None)
  BY <1>1, <1>2, <1>3 DEF Backed, Finished
<1>5. (e.pull > 0) = (e.repo # None)
  BY <1>1, <1>2, <1>3 DEF Backed, Finished
<1>6. (e.writeback = "written") = (e.server # None)
  BY <1>1, <1>2 DEF Backed, Finished
<1>7. /\ e.branch => <<e.owner, e.repo>> \in branches
      /\ e.repo # None => e.pull <= opened[<<e.owner, e.repo>>]
      /\ e.server # None => \A m \in Mutations : <<k, e.server, m>> \in applied
  BY <1>1, <1>2, <1>5, <1>6 DEF Backed
<1> QED BY <1>1, <1>2, <1>4, <1>5, <1>6, <1>7 DEF e

\* EnsurePull works for an entry that names no pull request, and answers with
\* an open one if there is one.
LEMMA PullsAreNotRepeated ==
  ASSUME IInv, [Next]_vars, NEW s \in Sites, opened'[s] # opened[s]
  PROVE  s \notin open /\ ledger[KeyOf[s[1]]].pull = 0
<1>t. TypeOK
  BY DEF IInv, TypeInv
<1>1. PICK c \in Clients : EnsurePull(c)
  BY DEF Next, Step, Call, BeginPublication, BeginReuse, ReuseTransition,
         FinishReuse, PreparePreview, SavePreview, StartPublishing,
         EnsureBranch, Mutate, Written, CallFails, Checkpoint, Seal, Complete,
         FailEntry, FailRun, StoreError, Restart, EvidenceExpires, ClosePull,
         vars, world
<1> DEFINE op   == ops[c]
           held == ledger[KeyOf[op.run]]
           site == <<op.run, config.repo>>
<1>2. op # None /\ op.stage = "pull" /\ opened' = OpenedAfter(site)
  BY <1>1 DEF EnsurePull, At
<1>3. s = site /\ s \notin open
  BY <1>t, <1>2 DEF OpenedAfter, TypeOK
<1>4. held \in Entry /\ Faithful(op, held)
  BY <1>t, <1>2, BusyType DEF IInv, TypeInv, TypeOK
<1>5. held.pull = 0
  <2>1. held.pull \in Nat /\ (held.pull > 0 => op.entry.pull = held.pull)
    BY <1>4 DEF Faithful, Extends, Entry
  <2>2. op.entry.pull = 0
    BY <1>2, <1>4 DEF Faithful, GitHubStages
  <2> QED BY <2>1, <2>2
<1> QED BY <1>3, <1>5

-----------------------------------------------------------------------------
(* Theorems.                                                               *)

\* What entries record took place, approvals act only at the destinations the
\* ledger bound, and their copies are ahead of the ledger by one effect at most.
THEOREM EffectsInvariant == Spec => []EInv
<1>1. Init => EInv
  BY EInvInit
<1>2. EInv /\ [Next]_vars => EInv'
  BY EInvStep
<1> QED BY <1>1, <1>2, PTL DEF Spec

\* The final receipt of a key names a branch and a pull request that exist in
\* the repository it was bound to, mutations that are in effect on the server it
\* was bound to, and every sink that was required - after any number of crashes,
\* lost answers, failures of the store and changes of the settings.
THEOREM ReceiptsAreTruthful == Spec => []ReceiptIsTruthful
<1>1. EInv => ReceiptIsTruthful
  BY SealedIsTruthful
<1> QED BY <1>1, EffectsInvariant, PTL

\* No branch, pull request or mutation ever appears anywhere but at the
\* destination the ledger bound when the key was first approved.
THEOREM EffectsStayBound == Spec => []EffectsOnlyWhereBound
<1>1. EInv => EffectsOnlyWhereBound
  BY DEF EInv
<1> QED BY <1>1, EffectsInvariant, PTL

\* The owner of an incomplete entry is in a state approve() accepts, wherever a
\* crash or a failure left the publication.
THEOREM OwnersCanResume == Spec => []OwnerCanResume
<1>1. EInv => OwnerCanResume
  BY DEF EInv
<1> QED BY <1>1, EffectsInvariant, PTL

\* A mutation is in effect on DataHub only if the ones before it are
\* checkpointed in the ledger.
THEOREM MutationsAreOrdered == Spec => []MutationsInOrder
<1>1. EInv => MutationsInOrder
  BY DEF EInv
<1> QED BY <1>1, EffectsInvariant, PTL

\* A pull request is opened only where none is open and the ledger names none.
THEOREM PullsAreUnique == Spec => NoDuplicatePull
<1>1. IInv /\ [Next]_vars =>
        [\A s \in Sites : opened'[s] # opened[s] =>
           /\ s \notin open
           /\ ledger[KeyOf[s[1]]].pull = 0]_vars
  BY PullsAreNotRepeated
<1> QED BY <1>1, InductiveInvariant, PTL DEF Spec, NoDuplicatePull

-----------------------------------------------------------------------------
(* Publication implements the contract.                                    *)

\* The refinement mapping, entry by entry and row by row.
ClaimOf(e) ==
  IF e = None THEN None
  ELSE [owner |-> e.owner, mode |-> e.mode, repo |-> e.repo,
        server |-> e.server]

SealOf(e) == IF e = None \/ ~e.completed THEN None ELSE e.receipt

DeliveryOf(row) == IF row.state = "completed" THEN row.publication ELSE None

\* An entry is seen as a claim.
LEMMA ClaimsAreClaims ==
  ASSUME NEW e \in Entry
  PROVE  ClaimOf(e) \in Contract!Claims /\ ClaimOf(e).owner = e.owner
  BY NoneAssumption DEF ClaimOf, Contract!Claims, Entry

\* What leaves claims, seals and deliveries alone is a stutter of the contract.
LEMMA StutterOfContract ==
  ASSUME \A k \in Keys : ClaimOf(ledger'[k]) = ClaimOf(ledger[k]),
         \A k \in Keys : SealOf(ledger'[k]) = SealOf(ledger[k]),
         \A r \in Runs : DeliveryOf(runs'[r]) = DeliveryOf(runs[r])
  PROVE  UNCHANGED Contract!vars
  BY DEF Contract!vars, ClaimOf, SealOf, DeliveryOf

\* A claim of one key.
LEMMA ClaimOfContract ==
  ASSUME NEW k \in Keys, NEW c \in Contract!Claims, KeyOf[c.owner] = k,
         ClaimOf(ledger[k]) = None, ClaimOf(ledger'[k]) = c,
         \A l \in Keys \ {k} : ClaimOf(ledger'[l]) = ClaimOf(ledger[l]),
         \A l \in Keys : SealOf(ledger'[l]) = SealOf(ledger[l]),
         \A r \in Runs : DeliveryOf(runs'[r]) = DeliveryOf(runs[r])
  PROVE  Contract!Next
<1> DEFINE claim == [l \in Keys |-> ClaimOf(ledger[l])]
<1>1. claim[k] = None /\ claim' = [claim EXCEPT ![k] = c]
  OBVIOUS
<1> DEFINE sealed == [l \in Keys |-> SealOf(ledger[l])]
           delivered == [r \in Runs |-> DeliveryOf(runs[r])]
<1>2. sealed' = sealed /\ delivered' = delivered
  OBVIOUS
<1>3. \E d \in Contract!Claims :
        KeyOf[d.owner] = k /\ claim' = [claim EXCEPT ![k] = d]
  BY <1>1
<1>4. Contract!Claim(k)
  BY <1>1, <1>2, <1>3 DEF Contract!Claim, ClaimOf, SealOf, DeliveryOf
<1> QED BY <1>4 DEF Contract!Next

\* The seal of one key.
LEMMA SealOfContract ==
  ASSUME NEW k \in Keys, ClaimOf(ledger[k]) # None,
         SealOf(ledger[k]) = None, SealOf(ledger'[k]) # None,
         Contract!Answers(SealOf(ledger'[k]), ClaimOf(ledger[k])),
         \A l \in Keys : ClaimOf(ledger'[l]) = ClaimOf(ledger[l]),
         \A l \in Keys \ {k} : SealOf(ledger'[l]) = SealOf(ledger[l]),
         \A r \in Runs : DeliveryOf(runs'[r]) = DeliveryOf(runs[r])
  PROVE  Contract!Next
<1>1. Contract!Seal(k)
  BY DEF Contract!Seal, Contract!Answers, ClaimOf, SealOf, DeliveryOf
<1> QED BY <1>1 DEF Contract!Next

\* The delivery to one run.
LEMMA DeliveryOfContract ==
  ASSUME NEW r \in Runs, KeyOf[r] \in Keys, NEW reused \in BOOLEAN,
         DeliveryOf(runs[r]) = None, SealOf(ledger[KeyOf[r]]) # None,
         DeliveryOf(runs'[r]) =
           [SealOf(ledger[KeyOf[r]]) EXCEPT !.reused = reused],
         \A q \in Runs \ {r} : DeliveryOf(runs'[q]) = DeliveryOf(runs[q]),
         \A l \in Keys : ClaimOf(ledger'[l]) = ClaimOf(ledger[l]),
         \A l \in Keys : SealOf(ledger'[l]) = SealOf(ledger[l])
  PROVE  Contract!Next
<1> DEFINE delivered == [q \in Runs |-> DeliveryOf(runs[q])]
           receipt == [SealOf(ledger[KeyOf[r]]) EXCEPT !.reused = reused]
<1>1. /\ delivered[r] = None
      /\ delivered' = [delivered EXCEPT ![r] = receipt]
  OBVIOUS
<1>2. Contract!Deliver(r)
  BY <1>1 DEF Contract!Deliver, ClaimOf, SealOf, DeliveryOf
<1> QED BY <1>2 DEF Contract!Next

\* A save that does not complete the entry is not seen by the contract.
LEMMA SaveIsUnseen ==
  ASSUME TypeOK, NEW k \in Keys, ledger[k] # None, ~ledger[k].completed,
         NEW e \in Entry, ~e.completed, Extends(e, ledger[k]), Save(k, e)
  PROVE  \A l \in Keys : /\ ClaimOf(ledger'[l]) = ClaimOf(ledger[l])
                         /\ SealOf(ledger'[l]) = SealOf(ledger[l])
<1>1. e # None
  BY NoneAssumption
<1>2. /\ ClaimOf(e) = ClaimOf(ledger[k])
      /\ SealOf(e) = SealOf(ledger[k])
  BY <1>1 DEF ClaimOf, SealOf, Extends
<1> QED BY <1>2, SaveType

\* A transition that does not complete the run is not seen either.
LEMMA MoveIsUnseen ==
  ASSUME TypeOK, NEW r \in Runs, NEW to, NEW given, MoveRun(r, to, given),
         to # "completed"
  PROVE  \A q \in Runs : DeliveryOf(runs'[q]) = DeliveryOf(runs[q])
<1>1. runs[r].state # "completed"
  BY CompletedIsFinal
<1>2. runs' = [runs EXCEPT ![r] = Moved(runs[r], to, given)]
  BY DEF MoveRun
<1>3. Moved(runs[r], to, given).state = to
  BY DEF Moved
<1> QED BY <1>1, <1>2, <1>3 DEF DeliveryOf, TypeOK

\* SavePreview and Seal seal the key with a receipt that answers its claim,
LEMMA SealingStep ==
  ASSUME EInv, NEW c \in Clients, SavePreview(c) \/ Seal(c)
  PROVE  Contract!Next
<1> DEFINE op == ops[c]
           k  == KeyOf[op.run]
           e  == ops'[c].entry
<1>s. Step(c) /\ [Next]_vars
  BY DEF Step, Next
<1>t. TypeOK /\ TypeOK' /\ IInv /\ TypeInv'
  BY <1>s, TypeStep DEF EInv, IInv, TypeInv
<1>0. op # None /\ k \in Keys /\ ledger[k] # None /\ ledger[k] \in Entry
  BY <1>t, <1>s, StepIsBusy, BusyType DEF IInv, TypeInv, TypeOK
<1>1. runs' = runs /\ op.stage \in {"save_preview", "seal"}
  BY DEF SavePreview, Seal, At
<1>2. ledger' # ledger
  <2>1. PICK d : Save(k, d) /\ d.completed
    <3>1. CASE Seal(c)
      <4>1. Sealed(op.entry).completed
        BY <1>t, <1>0, BusyType DEF Sealed, Entry
      <4> QED BY <3>1, <4>1 DEF Seal
    <3>2. CASE SavePreview(c)
      <4> DEFINE d == [op.entry EXCEPT
               !.writeback = "not_written",
               !.receipt = [mode |-> "preview", branch |-> FALSE, pull |-> 0,
                            writeback |-> "not_written", reused |-> FALSE],
               !.completed = TRUE]
      <4>1. d.completed
        BY <1>t, <1>0, BusyType DEF Entry
      <4>2. Save(k, d)
        BY <3>2 DEF SavePreview
      <4> QED BY <4>1, <4>2
    <3> QED BY <3>1, <3>2
  <2>2. ledger'[k].completed
    BY <1>t, <1>0, <2>1 DEF Save, TypeOK
  <2>3. ~ledger[k].completed
    BY <1>0, <1>1, <1>t DEF IInv, Faithful, SettledStages
  <2> QED BY <2>2, <2>3
<1>3. Save(k, e) /\ ops'[c] # None
  BY <1>s, <1>t, <1>0, <1>2, StepSaves
<1>4. /\ e \in Entry /\ e # None /\ ops'[c].stage = "complete"
  <2>1. e \in Entry
    BY <1>t, <1>3, TypeStep DEF TypeOK, Op
  <2>2. op.entry \in Entry /\ "complete" \in Stage
    BY <1>t, <1>0, BusyType DEF Stage
  <2>3. \E d : Continue(c, "complete", d)
    BY DEF SavePreview, Seal
  <2>4. ops'[c].stage = "complete"
    BY <1>t, <1>0, <2>3 DEF Continue, TypeOK, Op
  <2> QED BY <2>1, <2>4, NoneAssumption
<1>5. /\ ledger'[k] = e /\ \A l \in Keys \ {k} : ledger'[l] = ledger[l]
      /\ Extends(e, ledger[k])
  <2>1. /\ ledger'[k] = e /\ \A l \in Keys \ {k} : ledger'[l] = ledger[l]
    BY <1>t, <1>0, <1>3, <1>4, SaveType
  <2>2. Grows
    BY <1>s, <1>t, LedgerGrows
  <2> QED BY <1>0, <2>1, <2>2 DEF Grows
<1>6. e.completed /\ SealedOK(e) /\ e.receipt # None
  BY <1>s, <1>t, <1>0, <1>3, <1>4, StaysGrounded, StaysFaithful
  DEF TypeInv, GoodOp, Receipted, SettledStages
<1>7. ~ledger[k].completed
  BY <1>0, <1>1, <1>t DEF IInv, Faithful, SettledStages
<1>8. /\ ClaimOf(ledger[k]) # None /\ SealOf(ledger[k]) = None
      /\ SealOf(ledger'[k]) = e.receipt
      /\ ClaimOf(ledger'[k]) = ClaimOf(ledger[k])
  <2> HIDE DEF e, k
  <2>1. ClaimOf(ledger[k]) # None
    BY <1>0, ClaimsAreClaims, ClaimAssumption
  <2> QED BY <1>0, <1>4, <1>5, <1>6, <1>7, <2>1 DEF ClaimOf, SealOf, Extends
<1>9. Contract!Answers(e.receipt, ClaimOf(ledger[k]))
  BY <1>0, <1>5, <1>6
  DEF Contract!Answers, ClaimOf, SealedOK, Finished, Extends
<1> HIDE DEF e, k
<1> QED BY <1>0, <1>1, <1>5, <1>6, <1>8, <1>9, SealOfContract

\* Complete and FinishReuse deliver the receipt of the key,
LEMMA DeliveringStep ==
  ASSUME EInv, NEW c \in Clients, Complete(c) \/ FinishReuse(c)
  PROVE  Contract!Next
<1> DEFINE op == ops[c]
           k  == KeyOf[op.run]
           reused == ~Complete(c)
           receipt == [op.entry.receipt EXCEPT !.reused = reused]
<1>t. TypeOK /\ IInv /\ TypeInv
  BY DEF EInv, IInv, TypeInv
<1>1. op # None /\ op.stage \in SettledStages /\ ledger' = ledger
  BY DEF Complete, FinishReuse, At, SettledStages
<1>2. op.run \in Runs /\ k \in Keys /\ op.entry \in Entry /\ op.entry # None
  BY <1>t, <1>1, BusyType, NoneAssumption
<1>3. /\ ledger[k] = op.entry /\ op.entry.completed
      /\ op.entry.receipt # None /\ op.entry.receipt \in Receipt
      /\ ~op.entry.receipt.reused
  BY <1>t, <1>1, <1>2
  DEF IInv, TypeInv, Faithful, GoodOp, Receipted, EntryOK, Entry
<1>4. MoveRun(op.run, "completed", [Nothing EXCEPT !.publication = receipt])
  <2>1. CASE Complete(c)
    <3>1. receipt = op.entry.receipt
      BY <1>3, <2>1 DEF Receipt
    <3>2. MoveRun(op.run, "completed",
                  [Nothing EXCEPT !.publication = op.entry.receipt])
      BY <2>1 DEF Complete
    <3> QED BY <3>1, <3>2
  <2>2. CASE ~Complete(c)
    <3>1. reused = TRUE
      BY <2>2
    <3>2. MoveRun(op.run, "completed",
                  [Nothing EXCEPT !.publication =
                     [op.entry.receipt EXCEPT !.reused = TRUE]])
      BY <2>2 DEF FinishReuse
    <3> QED BY <3>1, <3>2
  <2> QED BY <2>1, <2>2
<1>5. receipt \in Receipt /\ receipt # None /\ reused \in BOOLEAN
  BY <1>3, NoneAssumption DEF Receipt
<1> HIDE DEF receipt
<1>6. /\ runs[op.run].state # "completed"
      /\ runs'[op.run].state = "completed"
      /\ runs'[op.run].publication = receipt
      /\ \A q \in Runs \ {op.run} : runs'[q] = runs[q]
  <2> DEFINE given == [Nothing EXCEPT !.publication = receipt]
  <2>1. given.publication = receipt
    BY DEF Nothing
  <2>2. runs' = [runs EXCEPT ![op.run] = Moved(runs[op.run], "completed", given)]
    BY <1>4 DEF MoveRun
  <2> HIDE DEF given
  <2> QED BY <1>t, <1>2, <1>4, <1>5, <2>1, <2>2, CompletedIsFinal
          DEF Moved, TypeOK
<1>7. /\ DeliveryOf(runs[op.run]) = None
      /\ DeliveryOf(runs'[op.run]) = receipt
      /\ \A q \in Runs \ {op.run} : DeliveryOf(runs'[q]) = DeliveryOf(runs[q])
      /\ SealOf(ledger[k]) # None
      /\ receipt = [SealOf(ledger[k]) EXCEPT !.reused = reused]
  BY <1>2, <1>3, <1>6 DEF DeliveryOf, SealOf, receipt
<1> HIDE DEF reused
<1> QED BY <1>1, <1>2, <1>5, <1>7, DeliveryOfContract

\* the first approval of a key claims it,
LEMMA ClaimingStep ==
  ASSUME EInv, NEW c \in Clients, NEW r \in Runs, NEW token \in BOOLEAN,
         BeginPublication(c, r, token)
  PROVE  [Contract!Next]_(Contract!vars)
<1> DEFINE k == KeyOf[r]
           e == EntryFor(r)
<1>t. TypeOK
  BY DEF EInv, IInv, TypeInv
<1>1. /\ e \in Entry /\ e # None /\ k \in Keys /\ ~e.completed /\ Save(k, e)
      /\ runs' = runs
  BY <1>t, NewEntryType, PublicationAssumption, NoneAssumption
  DEF BeginPublication
<1>2. ledger'[k] = e /\ \A l \in Keys \ {k} : ledger'[l] = ledger[l]
  BY <1>t, <1>1, SaveType
<1>3. CASE ledger[k] = None
  <2>1. e.owner = r
    BY <1>3 DEF EntryFor, NewEntry
  <2>2. ClaimOf(e) \in Contract!Claims /\ KeyOf[ClaimOf(e).owner] = k
    BY <1>1, <2>1, ClaimsAreClaims
  <2>3. ClaimOf(ledger[k]) = None /\ ClaimOf(ledger'[k]) = ClaimOf(e)
    BY <1>2, <1>3 DEF ClaimOf
  <2>4. \A l \in Keys : SealOf(ledger'[l]) = SealOf(ledger[l])
    BY <1>1, <1>2, <1>3 DEF SealOf
  <2> HIDE DEF e, k
  <2>5. Contract!Next
    BY <1>1, <1>2, <2>2, <2>3, <2>4, ClaimOfContract
  <2> QED BY <2>5
<1>4. CASE ledger[k] # None
  <2>1. e = ledger[k]
    BY <1>4 DEF EntryFor
  <2>2. UNCHANGED Contract!vars
    BY <1>1, <1>2, <2>1, StutterOfContract
  <2> QED BY <2>2
<1> QED BY <1>3, <1>4

\* and every other step of an approval is a stutter.
LEMMA OtherSteps ==
  ASSUME EInv, NEW c \in Clients, Step(c),
         ~SavePreview(c), ~Seal(c), ~Complete(c), ~FinishReuse(c)
  PROVE  UNCHANGED Contract!vars
<1> DEFINE op == ops[c]
           k  == KeyOf[op.run]
<1>t. TypeOK /\ IInv
  BY DEF EInv, IInv, TypeInv
<1>0. /\ op # None /\ op.run \in Runs /\ k \in Keys /\ op.entry \in Entry
      /\ ledger[k] \in Entry /\ ledger[k] # None
      /\ Faithful(op, ledger[k])
  BY <1>t, StepIsBusy, BusyType DEF IInv, TypeInv, TypeOK
<1>1. \A l \in Keys : /\ ClaimOf(ledger'[l]) = ClaimOf(ledger[l])
                      /\ SealOf(ledger'[l]) = SealOf(ledger[l])
  <2>1. CASE Checkpoint(c)
    <3>1. op.stage \notin SettledStages /\ Save(k, op.entry)
      BY <2>1 DEF Checkpoint, At, SettledStages
    <3>2. /\ ~ledger[k].completed /\ ~op.entry.completed
          /\ Extends(op.entry, ledger[k])
      BY <1>0, <3>1 DEF Faithful
    <3> QED BY <1>t, <1>0, <3>1, <3>2, SaveIsUnseen
  <2>2. CASE FailEntry(c)
    <3> DEFINE e == [op.entry EXCEPT !.receipt = Partial(op.entry)]
    <3>1. op.stage \notin SettledStages /\ Save(k, e)
      BY <2>2 DEF FailEntry, At, SettledStages
    <3>2. /\ ~ledger[k].completed /\ ~op.entry.completed
          /\ Extends(op.entry, ledger[k])
      BY <1>0, <3>1 DEF Faithful
    <3>3. e \in Entry /\ ~e.completed /\ Extends(e, ledger[k])
      BY <1>0, <3>2, ReceiptTypes DEF Entry, Extends
    <3> HIDE DEF e
    <3> QED BY <1>t, <1>0, <3>1, <3>2, <3>3, SaveIsUnseen
  <2>3. CASE ledger' = ledger
    BY <2>3
  <2> QED BY <2>1, <2>2, <2>3
      DEF Step, Call, ReuseTransition, PreparePreview, StartPublishing,
          EnsureBranch, EnsurePull, Mutate, Written, CallFails, FailRun,
          StoreError
<1>2. \A r \in Runs : DeliveryOf(runs'[r]) = DeliveryOf(runs[r])
  <2>1. \/ runs' = runs
        \/ \E to \in {"preparing_preview", "publishing", "publication_failed"} :
              \E given : MoveRun(op.run, to, given)
    BY DEF Step, Call, ReuseTransition, PreparePreview, StartPublishing,
           EnsureBranch, EnsurePull, Mutate, Written, CallFails, Checkpoint,
           FailEntry, FailRun, StoreError
  <2> QED BY <1>t, <1>0, <2>1, MoveIsUnseen
<1> QED BY <1>1, <1>2, StutterOfContract

\* The initial states map to initial states,
LEMMA ContractInit == Init => Contract!Init
  BY DEF Init, Contract!Init

\* and every step to a step of the contract or a stutter.
LEMMA ContractStep == EInv /\ [Next]_vars => [Contract!Next]_(Contract!vars)
<1> SUFFICES ASSUME EInv, [Next]_vars PROVE [Contract!Next]_(Contract!vars)
  OBVIOUS
<1>1. CASE UNCHANGED <<runs, ledger>>
  <2>1. UNCHANGED Contract!vars
    BY <1>1, StutterOfContract
  <2> QED BY <2>1
<1>2. ASSUME NEW c \in Clients, Step(c)
      PROVE  [Contract!Next]_(Contract!vars)
  BY <1>2, SealingStep, DeliveringStep, OtherSteps
<1>3. ASSUME NEW c \in Clients, NEW r \in Runs, NEW token \in BOOLEAN,
             BeginPublication(c, r, token)
      PROVE  [Contract!Next]_(Contract!vars)
  BY <1>3, ClaimingStep
<1> QED BY <1>1, <1>2, <1>3
    DEF Next, BeginReuse, Restart, EvidenceExpires, ClosePull, vars

\* Publication, with its calls, checkpoints, crashes and retries, implements the
\* contract: a key is claimed once, by one run and for fixed destinations, it is
\* sealed once, with a receipt that answers the claim, and a run is completed
\* once, with the receipt of its key.
THEOREM ContractIsImplemented == Spec => ImplementsContract
<1>1. Init => Contract!Init
  BY ContractInit
<1>2. EInv /\ [Next]_vars => [Contract!Next]_(Contract!vars)
  BY ContractStep
<1> QED BY <1>1, <1>2, EffectsInvariant, PTL
    DEF Spec, ImplementsContract, Contract!Spec
=============================================================================
