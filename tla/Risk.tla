--------------------------------- MODULE Risk ---------------------------------
(***************************************************************************)
(* What a change is worth worrying about: the risk score (risk.py) and the *)
(* six impact classifications (impact.py), from the request and the        *)
(* context alone.                                                          *)
(*                                                                         *)
(* A name is [stem, upper]: names that differ only in upper are the same   *)
(* name to Snowflake and to casefold().  A context is                      *)
(*   [target, field, fieldType, mode,                                      *)
(*    schema     : sequence of [name, type, nullable],                     *)
(*    downstream : sequence of assets,                                     *)
(*    domain, usage, governed, personal, authoritative, owner]             *)
(* and an asset is [urn, executive, ml, business, domain, label].          *)
(***************************************************************************)
EXTENDS SqlTypes, FiniteSetsExt, SequencesExt

CONSTANT None

\* A request is refused before anything else unless this holds
\* (ChangeRequest): the fields of its operation and only those are given, and
\* it does change something.
WellFormedChange(change) ==
  CASE change.operation = "rename" ->
         /\ change.newField # None /\ change.newField.stem # change.field.stem
         /\ change.oldType = None /\ change.newType = None
    [] change.operation = "remove" ->
         change.newField = None /\ change.oldType = None /\ change.newType = None
    [] change.operation = "type_change" ->
         /\ change.newField = None
         /\ change.oldType # None /\ change.newType # None
         /\ Supported(change.oldType) /\ Supported(change.newType)
         /\ Canonical(change.oldType) # Canonical(change.newType)

Downstream(context) == ToSet(context.downstream)

\* The domains that are represented, the target's among them.
Domains(context) ==
  ({a.domain : a \in Downstream(context)} \cup {context.domain}) \ {None}

-----------------------------------------------------------------------------
(* Risk.                                                                   *)

\* _base_factor() raises for a type change that is not about the current
\* type, changes nothing, or of a type that is not understood.
CanScore(change, context) ==
  change.operation = "type_change" =>
    /\ Supported(context.fieldType)
    /\ Canonical(change.oldType) = Canonical(context.fieldType)
    /\ TypeChangeKind(Canonical(context.fieldType), Canonical(change.newType)) # "no_op"

BasePoints(change, context) ==
  CASE change.operation = "rename" -> 25
    [] change.operation = "remove" -> 40
    [] change.operation = "type_change" ->
         IF TypeChangeKind(Canonical(context.fieldType), Canonical(change.newType))
              = "widening" THEN 15 ELSE 35

\* The factors beside the base factor, and when each applies.
Factors(context) ==
  {f \in {[code |-> "downstream", points |-> Min({5 * Len(context.downstream), 25})],
          [code |-> "executive",   points |-> 15], [code |-> "ml",       points |-> 15],
          [code |-> "governed",    points |-> 10], [code |-> "usage",    points |-> 10],
          [code |-> "cross_domain", points |-> 10], [code |-> "no_owner", points |-> 10]} :
     CASE f.code = "downstream"   -> context.downstream # <<>>
       [] f.code = "executive"    -> \E a \in Downstream(context) : a.executive
       [] f.code = "ml"           -> \E a \in Downstream(context) : a.ml
       [] f.code = "governed"     -> context.governed
       [] f.code = "usage"        -> context.usage = "high"
       [] f.code = "cross_domain" -> Cardinality(Domains(context)) > 1
       [] f.code = "no_owner"     -> context.owner # "accountable"}

Capped(points) == Min({points, 100})

Score(change, context) ==
  Capped(BasePoints(change, context)
           + MapThenSumSet(LAMBDA f : f.points, Factors(context)))

\* band_for(), and the strategy that goes with it.
Band(score) ==
  CASE score < 30 -> "low"
    [] score \in 30..59 -> "medium"
    [] score \in 60..79 -> "high"
    [] OTHER -> "critical"

Strategy(band) ==
  CASE band \in {"high", "critical"} -> "two_phase_compatibility_migration"
    [] band = "medium" -> "reviewed_migration"
    [] band = "low" -> "direct_change_with_tests"

\* score_change().
ScoreChange(change, context) ==
  LET score == Score(change, context) IN
  [score |-> score, band |-> Band(score), strategy |-> Strategy(Band(score)),
   factors |-> Factors(context)]

-----------------------------------------------------------------------------
(* Impact.                                                                 *)

Impact(severity, confidence) == [severity |-> severity, confidence |-> confidence]
Nothing == Impact("informational", "unavailable")

\* classify_impacts(): six categories, each with its severity and with how
\* directly the metadata bears it out.
ClassifyImpacts(context) ==
  LET consumers == Cardinality(Downstream(context))
      business  == \E a \in Downstream(context) : a.business
  IN
  [data_integrity |->
     Impact(IF context.authoritative \/ consumers >= 5 THEN "critical"
            ELSE IF consumers > 0 THEN "high" ELSE "medium", "direct"),
   privacy_compliance |->
     IF context.personal THEN Impact("critical", "direct") ELSE Nothing,
   operational_continuity |->
     Impact(IF context.usage = "high" \/ consumers >= 3 THEN "high"
            ELSE IF consumers > 0 THEN "medium" ELSE "informational",
            IF consumers > 0 \/ context.usage # "none" THEN "direct"
            ELSE "unavailable"),
   trust_decision_quality |->
     Impact(IF ~ business THEN "informational"
            ELSE IF context.authoritative THEN "high" ELSE "medium",
            IF business \/ context.authoritative THEN "direct" ELSE "unavailable"),
   financial_exposure |->
     IF business /\ context.usage \in {"medium", "high"}
     THEN Impact("high", "inferred") ELSE Nothing,
   organizational_impact |->
     IF context.owner = "none" THEN Nothing
     ELSE Impact(IF Cardinality(Domains(context)) >= 2 THEN "high" ELSE "medium",
                 "direct")]
=============================================================================
