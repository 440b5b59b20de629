------------------------------ MODULE Artifacts ------------------------------
(***************************************************************************)
(* The seven generated files (generation/templates.py) and the checks that *)
(* they have to pass (verification.py).                                    *)
(*                                                                         *)
(* A file is what can be told apart in it: the model's columns, the        *)
(* contract's columns, the test's comparison, the lines of the notes and   *)
(* of the pull request body, the steps of the rollback, and the manifest.  *)
(* A digest of a file stands for its content, so it is the content here.   *)
(***************************************************************************)
EXTENDS Risk

CONSTANTS
  Reserved,   \* stems that SQL or YAML reads as something else: order, null
  Phrased     \* stems and labels with a phrase of the guidance: retaining

Kinds == {"model", "yaml", "test", "migration", "rollback", "pr", "manifest"}

\* _preferred_field(): the second name of phase one.
Preferred(change) ==
  CASE change.operation = "rename" -> change.newField
    [] change.operation = "type_change" ->
         [change.field EXCEPT !.stem = Append(@, "new_type")]
    [] change.operation = "remove" -> None

SameName(n, m) == n.stem = m.stem

\* The schema's fields that are the changed one, whatever their case.
Matches(change, context) ==
  {i \in DOMAIN context.schema : SameName(context.schema[i].name, change.field)}

Stems(context) == {context.schema[i].name.stem : i \in DOMAIN context.schema}

Changed(change, context) ==
  context.schema[CHOOSE i \in Matches(change, context) : TRUE]

SameType(t, u) == Supported(t) /\ Canonical(t) = Canonical(u)

\* What the generator and the verifier both ask of request and context, each
\* with a copy of its own.
TypeChangeFits(change, context) ==
  change.operation = "type_change" =>
    /\ SameType(change.oldType, context.fieldType)
    /\ TypeChangeKind(Canonical(context.fieldType), Canonical(change.newType)) # "no_op"

-----------------------------------------------------------------------------
(* Generation.                                                             *)

\* Fault: the generator does not mind that the preferred name is taken.
NameFreeUnchecked(change, context) == TRUE

NameFree(change, context) ==
  Preferred(change) # None => Preferred(change).stem \notin Stems(context)

\* _validate_generation_context(), and _model_sql() raises unless the schema
\* spells the field as the request does.
CanGenerate(change, context) ==
  /\ Cardinality(Matches(change, context)) = 1
  /\ SameType(Changed(change, context).type, context.fieldType)
  /\ NameFree(change, context)
  /\ TypeChangeFits(change, context)
  /\ \E i \in DOMAIN context.schema : context.schema[i].name = change.field

\* A projection: the column itself, or an expression over it with a name.
Column(name) == [from |-> name, cast |-> None, as |-> name]
PreferredColumn(change) ==
  [from |-> change.field, cast |-> change.newType, as |-> Preferred(change)]

\* The schema in its order, with something after each field that is the
\* changed one.
AfterChanged(context, Item(_), Is(_), item) ==
  FlattenSeq([i \in DOMAIN context.schema |->
    IF item # None /\ Is(context.schema[i].name)
    THEN <<Item(context.schema[i]), item>> ELSE <<Item(context.schema[i])>>])

\* _model_sql(): every field as it is, the preferred one after the changed.
ModelSql(change, context) ==
  [columns |-> AfterChanged(context, LAMBDA f : Column(f.name),
                 LAMBDA n : n = change.field,
                 IF Preferred(change) = None THEN None ELSE PreferredColumn(change)),
   relation |-> "governed", beside |-> {}]

\* A column of the contract and what is said about it.
Contract(f, note) ==
  [name |-> f.name, type |-> f.type, nullable |-> f.nullable, note |-> note]

PreferredContract(change, context) ==
  LET changed == Changed(change, context) IN
  Contract([changed EXCEPT !.name = Preferred(change),
              !.type = IF change.newType = None THEN @ ELSE change.newType],
           "preferred")

Note(change, name, Is(_)) == IF Is(name) THEN "deprecated" ELSE "none"

\* _model_yaml(): the same columns with type, nullability and description.
ModelYaml(change, context) ==
  AfterChanged(context,
    LAMBDA f : Contract(f, Note(change, f.name, LAMBDA n : n = change.field)),
    LAMBDA n : SameName(n, change.field),
    IF Preferred(change) = None THEN None ELSE PreferredContract(change, context))

\* _compatibility_test(): rows where the two names differ, or, for a removal,
\* no row of a column that has to be there.
CompatibilityTest(change) ==
  [column |-> change.field, relation |-> "shim", beside |-> {},
   left  |-> IF change.operation = "remove" THEN None
             ELSE [from |-> change.field, cast |-> change.newType],
   right |-> Preferred(change)]

\* A line of text: what it says, and the names that appear in it.
Line(says, about) == [says |-> says, about |-> about]

Named(change) ==
  {change.field.stem} \cup (IF Preferred(change) = None THEN {} ELSE {Preferred(change).stem})

\* The lines that tell people what to do: whom to follow, and to which name
\* to move, or for a removal which to keep.
Guidance(change) ==
  <<Line("base", {}), Line("shim", {}),
    Line("transition", {IF Preferred(change) = None THEN change.field.stem
                        ELSE Preferred(change).stem}),
    Line("exit", {})>>

Title(change) ==
  Line("title", {change.field.stem}
         \cup (IF change.newField = None THEN {} ELSE {change.newField.stem}))

\* _migration_notes() and _pr_body(), up to the order of sections that no
\* check looks at.
MigrationNotes(change, context) ==
  <<Title(change), Line("owner", {}), Line("window", {}), Line("retains", {change.field.stem})>>
    \o [i \in DOMAIN context.downstream |->
          Line("consumer", {context.downstream[i].label})]
    \o Guidance(change)

PrBody(change) == <<Title(change), Line("prose", {})>> \o Guidance(change)

\* _rollback(): the numbered steps.
Rollback == <<"move_consumers", "confirm_field", "revert_sql", "revert_yaml",
              "remove_test", "run_dbt">>

Manifest(change, context, files) ==
  [change |-> change,
   context |-> [mode |-> context.mode, target |-> context.target,
                field |-> context.field, fieldType |-> context.fieldType],
   risk |-> ScoreChange(change, context),
   files |-> files]

Bundle(files, manifest) ==
  [files |-> files @@ ("manifest" :> manifest), manifestHash |-> manifest]

\* generate_artifacts().
Generate(change, context) ==
  LET files == [model |-> ModelSql(change, context), yaml |-> ModelYaml(change, context),
                test |-> CompatibilityTest(change),
                migration |-> MigrationNotes(change, context),
                rollback |-> Rollback, pr |-> PrBody(change)]
  IN  Bundle(files, Manifest(change, context, files))

-----------------------------------------------------------------------------
(* Verification.                                                           *)

\* _context_alignment().
Aligned(change, context) ==
  /\ context.target = change.target
  /\ context.field = change.field
  /\ Cardinality(Matches(change, context)) = 1
  /\ SameType(Changed(change, context).type, context.fieldType)
  /\ Preferred(change) # None => Preferred(change).stem \notin Stems(context)
  /\ TypeChangeFits(change, context)

SameCast(t, u) == (t = None /\ u = None) \/ (t # None /\ u # None /\ SameType(t, u))

SameColumn(c, d) ==
  /\ SameName(c.from, d.from) /\ SameName(c.as, d.as) /\ SameCast(c.cast, d.cast)

\* _model_select_contract_valid(): a plain select of exactly these columns.
ModelValid(model, change, context) ==
  LET expected == AfterChanged(context, LAMBDA f : Column(f.name),
                    LAMBDA n : SameName(n, change.field),
                    IF Preferred(change) = None THEN None ELSE PreferredColumn(change))
  IN  /\ model.beside = {}
      /\ Len(model.columns) = Len(expected)
      /\ \A i \in DOMAIN expected : SameColumn(model.columns[i], expected[i])

\* _yaml_structure_matches(): name, type, test and description of each.
YamlValid(yaml, change, context) ==
  /\ Matches(change, context) # {}
  /\ yaml = AfterChanged(context,
              LAMBDA f : Contract(f, Note(change, f.name,
                                          LAMBDA n : SameName(n, change.field))),
              LAMBDA n : SameName(n, change.field),
              IF Preferred(change) = None THEN None
              ELSE PreferredContract(change, context))

\* _compatibility_test_valid().
TestValid(test, change) ==
  /\ test.relation = "shim" /\ test.beside = {}
  /\ SameName(test.column, change.field)
  /\ IF change.operation = "remove" THEN test.left = None
     ELSE /\ test.left # None /\ test.right # None
          /\ SameName(test.left.from, change.field)
          /\ SameCast(test.left.cast, change.newType)
          /\ SameName(test.right, Preferred(change))

\* A line has one of the phrases that tell people what to do.
HasPhrase(line) ==
  line.says \in {"transition", "exit", "conflict"} \/ line.about \cap Phrased # {}

\* _transition_guidance_valid(): the guidance once each, and no other line
\* that sounds like guidance.
GuidanceValid(lines, change) ==
  LET required == ToSet(Guidance(change)) IN
  /\ \A line \in required : Cardinality({i \in DOMAIN lines : lines[i] = line}) = 1
  /\ \A line \in ToSet(lines) \ required : ~ HasPhrase(line)

MigrationValid(files, change, context) ==
  /\ {"owner", "window"} \subseteq {line.says : line \in ToSet(files.migration)}
  /\ \A a \in Downstream(context) :
       \E line \in ToSet(files.migration) : a.label \in line.about
  /\ GuidanceValid(files.migration, change)
  /\ GuidanceValid(files.pr, change)

\* Fault: the manifest is only compared with the files beside it.
ManifestValidAlone(bundle, change, context) ==
  LET files == bundle.files IN
  /\ bundle.manifestHash = files.manifest
  /\ files.manifest = Manifest(change, context, [k \in DOMAIN files \ {"manifest"} |-> files[k]])

\* _manifest_matches(): the manifest is about this request and context, has
\* the digests of the files, and everything is what the generator makes today.
ManifestValid(bundle, change, context) ==
  /\ ManifestValidAlone(bundle, change, context)
  /\ CanScore(change, context) /\ CanGenerate(change, context)
  /\ bundle = Generate(change, context)

OutputStems(columns) == {columns[i].as.stem : i \in DOMAIN columns}

\* Does SQL, or YAML, read every name as the name it is?
Readable(stems) == stems \cap Reserved = {}

\* The model and the contract have the same columns, none of them twice.
UniqueOutputNames(files) ==
  LET columns   == OutputStems(files.model.columns)
      yamlStems == {files.yaml[i].name.stem : i \in DOMAIN files.yaml} IN
  /\ Cardinality(columns) = Len(files.model.columns)
  /\ Cardinality(yamlStems) = Len(files.yaml)
  /\ columns = yamlStems

\* The model reads the governed model, and no file anything beside.
SourceRelationsValid(files) ==
  /\ files.model.relation = "governed"
  /\ files.model.beside = {} /\ files.test.beside = {}

RollbackValid(steps) == steps = Rollback

\* verify_artifacts(), of a bundle that has the seven files: check by check.
\* No check for a star is left to make of a model that is a list of columns.
Checks(bundle, change, context) ==
  LET files == bundle.files
      yamlStems == {files.yaml[i].name.stem : i \in DOMAIN files.yaml} IN
  [sql_parses |-> Readable(OutputStems(files.model.columns)),
   request_context_alignment |-> Aligned(change, context),
   phase_one_compatibility |-> ModelValid(files.model, change, context),
   yaml_contract |-> Readable(yamlStems) /\ YamlValid(files.yaml, change, context),
   unique_output_names |-> UniqueOutputNames(files),
   source_relations |-> SourceRelationsValid(files),
   compatibility_test |-> TestValid(files.test, change),
   migration_notes |-> MigrationValid(files, change, context),
   rollback_instructions |-> RollbackValid(files.rollback),
   manifest_hashes |-> ManifestValid(bundle, change, context)]

\* The report passes if the paths are the seven and every check passes.
Verified(bundle, change, context) ==
  /\ DOMAIN bundle.files = Kinds
  /\ LET checks == Checks(bundle, change, context) IN
     \A code \in DOMAIN checks : checks[code]
=============================================================================
