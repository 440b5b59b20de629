----------------------------- MODULE MCSchemaForm -----------------------------
(* A small instance of SchemaForm for TLC. *)
EXTENDS SchemaForm

CONSTANTS a, b, junk, f, g, part, blank, text, number

\* Two datasets, one of which has changed its schema, and a URN that is none.
SomeSchemas ==
  [asset \in Assets |->
     CASE asset = a -> {[x \in {f} |-> text], [x \in {f, g} |-> text]}
       [] asset = b -> {[x \in {f, g} |-> number]}
       [] OTHER     -> {}]

\* One text finds both fields and is the name of none.
SomeFits ==
  [t \in Texts |-> IF t \in {part, blank} THEN Fields ELSE {t}]

OnePreset ==
  [asset |-> a, operation |-> "rename", field |-> f, newField |-> part,
   type |-> text, newType |-> number]
=============================================================================
