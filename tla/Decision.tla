------------------------------- MODULE Decision -------------------------------
(***************************************************************************)
(* One request on its way to an approval, through every gate: scoring,     *)
(* generation, verification, the warehouse plan, the policy when the run   *)
(* is offered for approval and the policy again when it is approved        *)
(* (orchestrator.py, policy.py, warehouse/queries.py).  Analysis has the   *)
(* runs and their failures; this module has what is decided.               *)
(*                                                                         *)
(* The gates read the same request and context and each decides for        *)
(* itself.  The bundle need not be what the generator made: the generator  *)
(* is a port.  The clock is the machine's, and may be set back.            *)
(***************************************************************************)
EXTENDS Artifacts

CONSTANTS
  Requests,            \* pairs of a request and the context it meets
  Edits,               \* what may be edited: the kinds of file
  Bindings,            \* identities of the configured warehouse and relation
  MaxAge, MaxTime      \* how old evidence may be; bound: the clock

ASSUME DecisionAssumption ==
  /\ \A r \in Requests : WellFormedChange(r[1])
  /\ MaxAge \in Nat /\ MaxTime \in Nat

VARIABLES
  stage, change, context,
  risk, impacts,      \* what scoring answered
  bundle, edited,     \* the bundle, and history: the files it was edited in
  verified,           \* did the report pass?
  evidence,           \* the warehouse result
  settings,           \* [live, warehouse]: what an approval requires
  binding, now,       \* the configured warehouse, and the clock
  approved            \* when it was approved, and the binding then, or None

given == <<change, context>>
world == <<settings, binding, now>>
answers == <<risk, impacts, bundle, edited, verified, evidence>>
vars == <<stage, given, world, answers, approved>>

Stages == {"new", "loaded", "scored", "generated", "verified", "decided",
           "blocked", "approved", "failed"}

Statuses == {"passed", "blocked", "not_run"}

\* about: is the evidence about the requested operation and field?
Evidence(status, about, at, retryable) ==
  [status |-> status, about |-> about, binding |-> binding, completed |-> at,
   retryable |-> retryable]

Setting == [live : BOOLEAN, warehouse : BOOLEAN]

TypeOK ==
  /\ stage \in Stages
  /\ stage # "new" => <<change, context>> \in Requests
  /\ stage \in {"decided", "approved"} <=> settings \in Setting
  /\ risk # None => /\ risk.score \in 0..100
                    /\ risk.score < 30 <=> risk.strategy = "direct_change_with_tests"
                    /\ risk.score >= 60 <=>
                         risk.strategy = "two_phase_compatibility_migration"
  /\ impacts # None =>
       \A category \in DOMAIN impacts :
         impacts[category].confidence = "unavailable"
           => impacts[category].severity = "informational"
  /\ edited \subseteq Edits /\ verified \in BOOLEAN
  /\ evidence # None => evidence.status \in Statuses /\ evidence.completed \in 0..MaxTime
  /\ binding \in Bindings /\ now \in 0..MaxTime
  /\ stage = "approved" <=> approved # None

Init ==
  /\ stage = "new" /\ change = None /\ context = None /\ settings = None
  /\ risk = None /\ impacts = None /\ bundle = None /\ edited = {}
  /\ verified = FALSE /\ evidence = None
  /\ binding \in Bindings /\ now = 0 /\ approved = None

-----------------------------------------------------------------------------
(* From the context to the bundle.                                         *)

Load ==
  /\ stage = "new" /\ stage' = "loaded"
  /\ \E r \in Requests : change' = r[1] /\ context' = r[2]
  /\ UNCHANGED <<world, answers, approved>>

\* Scoring raises, or answers with risk and impacts.
ScoreRisk ==
  /\ stage = "loaded"
  /\ IF CanScore(change, context)
     THEN /\ stage' = "scored"
          /\ risk' = ScoreChange(change, context)
          /\ impacts' = ClassifyImpacts(context)
     ELSE stage' = "failed" /\ UNCHANGED <<risk, impacts>>
  /\ UNCHANGED <<given, world, bundle, edited, verified, evidence, approved>>

\* The manifest of a bundle's files as they are now.
Rehashed(files) ==
  [files.manifest EXCEPT
     !.files = [k \in DOMAIN files \ {"manifest"} |-> files[k]]]

\* One file is not what was generated: a consumer's column or test is lost,
\* a promise is made, a step is left out, the score is another.
Edited(files, kind) ==
  CASE kind = "model" -> [files EXCEPT !.model.columns = Tail(@)]
    [] kind = "yaml"  -> [files EXCEPT !.yaml[1].nullable = ~ @]
    [] kind = "test"  -> [files EXCEPT !.test.beside = {"limit"}]
    [] kind = "migration" ->
         [files EXCEPT !.migration = Append(@, Line("conflict", {}))]
    [] kind = "pr" -> [files EXCEPT !.pr[2].says = "promise"]
    [] kind = "rollback" -> [files EXCEPT !.rollback = Tail(@)]
    [] kind = "manifest" -> [files EXCEPT !.manifest.risk.score = 0]

\* The generator raises, or a bundle comes back: the generator's own, or one
\* that was edited, with a manifest that fits the edited files or not.
GenerateBundle ==
  /\ stage = "scored"
  /\ \/ /\ ~ CanGenerate(change, context)
        /\ stage' = "failed" /\ UNCHANGED <<bundle, edited>>
     \/ /\ CanGenerate(change, context) /\ stage' = "generated"
        /\ LET own == Generate(change, context) IN
           \/ bundle' = own /\ edited' = {}
           \/ \E kind \in Edits, rehash \in BOOLEAN :
                LET files    == Edited(own.files, kind)
                    manifest == IF rehash THEN Rehashed(files) ELSE files.manifest
                IN  /\ bundle' = Bundle([k \in Kinds \ {"manifest"} |-> files[k]], manifest)
                    /\ edited' = {kind}
  /\ UNCHANGED <<given, world, risk, impacts, verified, evidence, approved>>

VerifyBundle ==
  /\ stage = "generated" /\ stage' = "verified"
  /\ verified' = Verified(bundle, change, context)
  /\ UNCHANGED <<given, world, risk, impacts, bundle, edited, evidence, approved>>

-----------------------------------------------------------------------------
(* The warehouse.                                                          *)

\* _render_try_cast_type(): TRY_CAST is documented for these.
Castable(t) ==
  Canonical(t).base \in
    {"BOOLEAN", "DATE", "FLOAT", "NUMBER", "TIME", "TIMESTAMP", "TIMESTAMP_LTZ",
     "TIMESTAMP_NTZ", "TIMESTAMP_TZ", "VARCHAR"}

\* _validated_context_field().
PlanFits ==
  /\ context.target = change.target /\ SameName(context.field, change.field)
  /\ Cardinality(Matches(change, context)) = 1
  /\ SameType(Changed(change, context).type, context.fieldType)
  /\ change.operation = "rename" => change.newField.stem \notin Stems(context)
  /\ change.operation = "type_change" => SameType(change.oldType, context.fieldType)

\* build_validation_plan() of a configured relation.
CanPlan ==
  /\ PlanFits
  /\ change.operation = "type_change" =>
       Castable(change.oldType) /\ Castable(change.newType)

\* The adapter passes it, blocks it, or says something of another request.
\* A plan that cannot be built blocks it for good.
Validated ==
  IF ~ CanPlan THEN {Evidence("blocked", TRUE, now, FALSE)}
  ELSE {Evidence("passed", about, now, FALSE) : about \in BOOLEAN}
         \cup {Evidence("blocked", TRUE, now, retryable) : retryable \in BOOLEAN}

\* Asked only about verified artifacts and live metadata, if configured.
AskWarehouse ==
  /\ stage = "verified" /\ evidence = None
  /\ \/ verified /\ context.mode = "live" /\ evidence' \in Validated
     \/ evidence' = Evidence("not_run", TRUE, now, FALSE)
  /\ UNCHANGED <<stage, given, world, risk, impacts, bundle, edited, verified, approved>>

-----------------------------------------------------------------------------
(* The policy.                                                             *)

\* Evidence is as old as it may be at most, and not from the future.
Current(at) == at <= now /\ now - at <= MaxAge

Blocker(code, retryable) == [code |-> code, retryable |-> retryable]

\* evaluate_approval_policy(): everything that stands against an approval now.
\* A pass whose evidence is incomplete cannot be constructed, so the blocker
\* for it is left out.
Blockers(required) ==
  LET passed == evidence.status = "passed" IN
  {b \in {Blocker("VERIFICATION_FAILED", FALSE),
          Blocker("CONTEXT_IDENTITY_MISMATCH", FALSE),
          Blocker("LIVE_EVIDENCE_REQUIRED", TRUE),
          Blocker("WAREHOUSE_EVIDENCE_REQUIRED", TRUE),
          Blocker("WAREHOUSE_VALIDATION_FAILED", evidence.retryable),
          Blocker("WAREHOUSE_EVIDENCE_MISMATCH", FALSE),
          Blocker("WAREHOUSE_CONFIGURATION_CHANGED", TRUE),
          Blocker("WAREHOUSE_EVIDENCE_STALE", TRUE)} :
     CASE b.code = "VERIFICATION_FAILED" -> ~ verified
       [] b.code = "CONTEXT_IDENTITY_MISMATCH" ->
            context.target # change.target \/ context.field # change.field
       [] b.code = "LIVE_EVIDENCE_REQUIRED" -> required.live /\ context.mode # "live"
       [] b.code = "WAREHOUSE_EVIDENCE_REQUIRED" ->
            required.warehouse /\ evidence.status = "not_run"
       [] b.code = "WAREHOUSE_VALIDATION_FAILED" -> evidence.status = "blocked"
       [] b.code = "WAREHOUSE_EVIDENCE_MISMATCH" -> ~ evidence.about
       [] b.code = "WAREHOUSE_CONFIGURATION_CHANGED" ->
            passed /\ evidence.binding # binding
       [] b.code = "WAREHOUSE_EVIDENCE_STALE" -> passed /\ ~ Current(evidence.completed)}

\* The policy decides, on what the process is configured to require: the run
\* awaits its owner, or has failed.
Decide ==
  /\ stage = "verified" /\ evidence # None
  /\ \E required \in Setting :
       IF Blockers(required) = {}
       THEN stage' = "decided" /\ settings' = required
       ELSE stage' = "blocked" /\ UNCHANGED settings
  /\ UNCHANGED <<given, binding, now, answers, approved>>

\* An approval evaluates the policy again and is refused by any blocker.
Approve ==
  /\ stage = "decided" /\ Blockers(settings) = {}
  /\ stage' = "approved" /\ approved' = [at |-> now, binding |-> binding]
  /\ UNCHANGED <<given, world, answers>>

\* Time passes, or the clock is set back.
Tick ==
  /\ stage \in {"verified", "decided"} /\ now' \in {now + 1, 0} \cap (0..MaxTime)
  /\ now' # now
  /\ UNCHANGED <<stage, given, answers, settings, binding, approved>>

\* The service is started again with other settings.  An analysis does not
\* survive that; one that waits for its owner does.
Reconfigure ==
  /\ stage = "decided"
  /\ settings' \in Setting /\ binding' \in Bindings
  /\ <<settings, binding>>' # <<settings, binding>>
  /\ UNCHANGED <<stage, given, answers, now, approved>>

-----------------------------------------------------------------------------
Next ==
  \/ Load \/ ScoreRisk \/ GenerateBundle \/ VerifyBundle
  \/ AskWarehouse \/ Decide \/ Approve
  \/ Tick \/ Reconfigure

Spec == Init /\ [][Next]_vars

-----------------------------------------------------------------------------
(* Properties.                                                             *)

\* Every name that phase one deals with can be read by SQL and YAML, none of
\* them sounds like guidance, and no two are the same.
NamesAreFine ==
  LET names == Stems(context) \cup Named(change) IN
  /\ Readable(names)
  /\ (Named(change) \cup {a.label : a \in Downstream(context)}) \cap Phrased = {}
  /\ Cardinality(Stems(context)) = Len(context.schema)

\* Every consumer of the old model finds its columns, as they were and in
\* their order, in the compatibility model.
PhaseOneKeeps(model) ==
  LET kept == SelectSeq(model.columns, LAMBDA c : c.as.stem \in Stems(context)) IN
  /\ Len(kept) = Len(context.schema)
  /\ \A i \in DOMAIN kept : kept[i] = Column(context.schema[i].name)

\* A request that scoring or generation refuses is one that verification would
\* not let through, unless the schema spells the field in another case.
RefusalsAgree ==
  stage = "failed" /\ Aligned(change, context) =>
    \A i \in DOMAIN context.schema : context.schema[i].name # change.field

\* What the generator makes passes verification, if the context is of the
\* requested asset and field and the names are fine.
GeneratedPasses ==
  stage \in {"verified", "decided"} /\ edited = {} =>
    (verified <=> /\ context.target = change.target /\ context.field = change.field
                  /\ NamesAreFine)

\* What passes verification has a warehouse plan, if TRY_CAST knows its types.
PlansExist ==
  verified =>
    (CanPlan <=> change.operation = "type_change" =>
                   Castable(change.oldType) /\ Castable(change.newType))

\* The gates agree, and let nothing through that takes a column away.
GatesAgree ==
  /\ RefusalsAgree /\ GeneratedPasses /\ PlansExist
  /\ verified => PhaseOneKeeps(bundle.files.model)

\* What is approved is what was reviewed: the generator's own files to the
\* byte; and if the warehouse had to be asked, it passed this request, the
\* configured warehouse is still the one that answered, and by the clock of the
\* approval the answer lies in the past and is not too old.
ApprovedIsReviewed ==
  stage = "approved" =>
    /\ verified /\ bundle = Generate(change, context)
    /\ context.target = change.target /\ context.field = change.field
    /\ settings.live => context.mode = "live"
    /\ settings.warehouse => evidence.status = "passed"
    /\ evidence.status # "blocked" /\ evidence.about
    /\ evidence.status = "passed" =>
         /\ approved.binding = evidence.binding
         /\ evidence.completed \in (approved.at - MaxAge)..approved.at
=============================================================================
