------------------------------ MODULE SchemaForm ------------------------------
(***************************************************************************)
(* The form in which a change is drafted: the schema it reads for the      *)
(* dataset (useSchemaCatalog.ts), the box in which a field of that schema  *)
(* is chosen (FieldCombobox.tsx), the draft (App.tsx, changeDraft.ts) and  *)
(* what may be submitted (ChangeForm.tsx).                                 *)
(*                                                                         *)
(* Reads of a schema overlap: the dataset may change, or the read be made  *)
(* again, while an answer is on its way.  The box has a text of its own,   *)
(* beside the field that is chosen; the flag that lets a draft be          *)
(* submitted has to follow both.  React runs the effects of an event       *)
(* before the next event.                                                  *)
(***************************************************************************)
EXTENDS Naturals

CONSTANTS
  None,
  Assets, Datasets,  \* the URNs that are typed, and which of them are datasets
  Fields, Types,     \* names and types of fields
  Texts,             \* what may be typed where a name is expected
  Blank,             \* the empty text
  Fits,              \* Fits[t]: the fields whose name or type contains t
  Schemas,           \* Schemas[a]: the catalogues a read of a may return
  Preset,            \* the draft the page starts with
  MaxRequests        \* bound: reads of a schema

Source == {"active", "recorded"}
Key == Assets \X Source
Operation == {"rename", "remove", "type_change"}

\* A catalogue gives its fields their types.
Catalogue == UNION {[fields -> Types] : fields \in SUBSET Fields}

Draft == [asset : Assets, operation : Operation, field : Texts,
          newField : Texts, type : Types \cup {Blank}, newType : Types \cup {Blank}]

ASSUME SchemaAssumption ==
  /\ Datasets \subseteq Assets /\ Fields \subseteq Texts /\ Blank \in Texts \ Fields
  /\ Fits \in [Texts -> SUBSET Fields] /\ Fits[Blank] = Fields
  /\ Schemas \in [Assets -> SUBSET Catalogue]
  /\ Preset \in Draft /\ MaxRequests \in Nat \ {0}
  /\ None \notin Catalogue

VARIABLES
  draft, source,
  requests,   \* reads whose answer is on its way
  current,    \* the number of the read whose answer counts
  asked,      \* reads so far
  cache,      \* the catalogues read in this session
  result,     \* the last answer, with the key it is for
  box,        \* the combobox: has it the focus, is it open, what text is in it
  committed,  \* ChangeForm: the text of the box is settled
  picked,     \* history: the field was chosen from the list, with no edit since
  sent        \* the request that was submitted, with the catalogue shown then

reading == <<requests, current, asked, cache, result>>
vars == <<draft, source, reading, box, committed, picked, sent>>

Request == [asset : Assets, operation : Operation, field : Texts,
            newField : Texts \cup {None}, type : Types \cup {Blank, None},
            newType : Types \cup {Blank, None}]

TypeOK ==
  /\ draft \in Draft /\ source \in Source
  /\ requests \subseteq [id : 1..MaxRequests, key : Key]
  /\ current \in 0..MaxRequests /\ asked \in 0..MaxRequests
  /\ cache \in [Key -> Catalogue \cup {None}]
  /\ result \in [key : Key \cup {None}, catalog : Catalogue \cup {None}, failed : BOOLEAN]
  /\ box \in [focused : BOOLEAN, open : BOOLEAN, query : Texts]
  /\ box.open => box.focused
  /\ committed \in BOOLEAN /\ picked \in BOOLEAN
  /\ sent = None \/ sent \in [request : Request, seen : Catalogue, text : Texts]

-----------------------------------------------------------------------------
(* What the hook shows.                                                    *)

key == <<draft.asset, source>>

Cached == IF draft.asset \in Datasets THEN cache[key] ELSE None

\* The last answer counts for its own key only.
Answers == result.key = key

Catalog == IF Answers /\ result.catalog # None THEN result.catalog ELSE Cached

Failed == draft.asset \notin Datasets \/ (Answers /\ result.failed)

Loading == draft.asset \in Datasets /\ Catalog = None /\ ~ Failed

-----------------------------------------------------------------------------
(* Reading a schema.                                                       *)

\* The effect after a change of dataset, source or attempt: what is on its way
\* does not count any more, and a catalogue that is not cached is read.
Reads(asset, from) ==
  IF asset \in Datasets /\ cache[<<asset, from>>] = None
  THEN /\ asked < MaxRequests
       /\ asked' = asked + 1 /\ current' = asked + 1
       /\ requests' = requests \cup {[id |-> asked + 1, key |-> <<asset, from>>]}
  ELSE current' = 0 /\ UNCHANGED <<asked, requests>>

\* Fault: a late answer counts.
WantedAlways(request) == TRUE

\* The component is as it was when the request was made, and it is the last.
Wanted(request) == request.id = current

Answer(request) ==
  /\ requests' = requests \ {request}
  /\ IF ~ Wanted(request) THEN UNCHANGED <<cache, result, current>>
     ELSE \/ \E catalog \in Schemas[request.key[1]] :
               /\ cache' = [cache EXCEPT ![request.key] = catalog]
               /\ result' = [key |-> request.key, catalog |-> catalog, failed |-> FALSE]
               /\ current' = IF request.key = key THEN 0 ELSE current
          \/ /\ result' = [key |-> request.key, catalog |-> None, failed |-> TRUE]
             /\ UNCHANGED <<cache, current>>
  /\ UNCHANGED <<draft, source, asked, box, committed, picked, sent>>

\* What is beside the box is used when the box has not the focus.
Elsewhere == sent = None /\ ~ box.focused

Retry ==
  /\ Elsewhere /\ Failed
  /\ Reads(draft.asset, source)
  /\ UNCHANGED <<draft, source, cache, result, box, committed, picked, sent>>

\* "Use recorded fields", in automatic mode, once the active source has failed.
LoadRecorded ==
  /\ Elsewhere /\ Failed /\ source = "active"
  /\ source' = "recorded"
  /\ Reads(draft.asset, "recorded")
  /\ UNCHANGED <<draft, cache, result, box, committed, picked, sent>>

-----------------------------------------------------------------------------
(* The draft.                                                              *)

\* Fault: what was chosen for the old dataset stays.
ForAssetKeeping(asset) == [draft EXCEPT !.asset = asset]

\* Another dataset: everything that was chosen from the old schema is dropped.
ForAsset(asset) ==
  [draft EXCEPT !.asset = asset, !.field = Blank, !.newField = Blank,
                !.type = Blank, !.newType = Blank]

\* A new dataset is read from the active source.
ChangeAsset(asset) ==
  /\ Elsewhere /\ asset # draft.asset
  /\ draft' = ForAsset(asset) /\ source' = "active"
  /\ Reads(asset, "active")
  /\ picked' = FALSE
  /\ UNCHANGED <<cache, result, box, committed, sent>>

EditDraft ==
  /\ Elsewhere
  /\ \/ \E operation \in Operation : draft' = [draft EXCEPT !.operation = operation]
     \/ \E text \in Texts : draft' = [draft EXCEPT !.newField = text]
     \/ \E type \in Types : draft' = [draft EXCEPT !.newType = type]
  /\ UNCHANGED <<source, reading, box, committed, picked, sent>>

\* selectCurrentField(): a field of the catalogue, and its type there.
Selected(field) ==
  LET same == draft.field = field
  IN  [draft EXCEPT !.field = field, !.type = Catalog[field],
                    !.newField = IF same THEN @ ELSE Blank,
                    !.newType  = IF same THEN @ ELSE Blank]

-----------------------------------------------------------------------------
(* The box.                                                                *)

\* The box is there once there is a catalogue, until the request is submitted.
Mounted == sent = None /\ Catalog # None

\* What the box shows.
Text == IF box.open THEN box.query ELSE draft.field

Matches == Fits[box.query] \cap DOMAIN Catalog

Opened(text) == [focused |-> TRUE, open |-> TRUE, query |-> text]

Left == [box EXCEPT !.focused = FALSE, !.open = FALSE]

Focus ==
  /\ Mounted /\ ~ (box.focused /\ box.open)
  /\ box' = Opened(draft.field)
  /\ UNCHANGED <<draft, source, reading, committed, picked, sent>>

\* A text that is being typed is not settled.
Type(text) ==
  /\ Mounted /\ box.focused
  /\ box' = Opened(text) /\ committed' = FALSE
  /\ picked' = FALSE
  /\ UNCHANGED <<draft, source, reading, sent>>

\* The arrows open the list again, over the text that was typed last.
Arrow ==
  /\ Mounted /\ box.focused
  /\ box' = [box EXCEPT !.open = TRUE]
  /\ UNCHANGED <<draft, source, reading, committed, picked, sent>>

\* An option is taken by Enter or by a click; the box keeps the focus.
Pick(field) ==
  /\ Mounted /\ box.open /\ field \in Matches
  /\ draft' = Selected(field)
  /\ box' = [box EXCEPT !.open = FALSE]
  /\ committed' = TRUE /\ picked' = TRUE
  /\ UNCHANGED <<source, reading, sent>>

Escape ==
  /\ Mounted /\ box.focused
  /\ box' = [box EXCEPT !.open = FALSE, !.query = draft.field]
  /\ committed' = TRUE
  /\ UNCHANGED <<draft, source, reading, picked, sent>>

\* close(): the text is settled if it is the field; the text of an option that
\* was picked is still the one that was typed to find it.
Blur ==
  /\ Mounted /\ box.focused
  /\ box' = Left
  /\ committed' = (box.query = draft.field)
  /\ UNCHANGED <<draft, source, reading, picked, sent>>

-----------------------------------------------------------------------------
(* Submitting.                                                             *)

Complete ==
  CASE draft.operation = "rename"      -> draft.newField # Blank
    [] draft.operation = "type_change" -> draft.newType # Blank
    [] draft.operation = "remove"      -> TRUE

Collides == draft.operation = "rename" /\ draft.newField \in DOMAIN Catalog

CanAnalyze ==
  /\ ~ Loading /\ ~ Failed
  /\ Catalog # None /\ draft.field \in DOMAIN Catalog
  /\ committed /\ Complete /\ ~ Collides

\* draftToRequest(): only what the operation needs.
ToRequest ==
  [asset |-> draft.asset, operation |-> draft.operation, field |-> draft.field,
   newField |-> IF draft.operation = "rename" THEN draft.newField ELSE None,
   type |-> IF draft.operation = "type_change" THEN draft.type ELSE None,
   newType |-> IF draft.operation = "type_change" THEN draft.newType ELSE None]

\* The button, after the box has lost the focus; or Enter in a text, which an
\* open list with an option to take keeps for itself.
Submit ==
  /\ sent = None /\ CanAnalyze
  /\ ~ (box.open /\ Matches # {})
  /\ sent' = [request |-> ToRequest, seen |-> Catalog, text |-> Text]
  /\ box' = Left
  /\ UNCHANGED <<draft, source, reading, committed, picked>>

\* "New analysis", or a request that was refused: the draft is as it was.
Resume ==
  /\ sent # None /\ sent' = None
  /\ UNCHANGED <<draft, source, reading, box, committed, picked>>

-----------------------------------------------------------------------------

Init ==
  /\ draft = Preset /\ source = "active"
  /\ cache = [k \in Key |-> None]
  /\ result = [key |-> None, catalog |-> None, failed |-> FALSE]
  /\ asked = 1 /\ current = 1
  /\ requests = {[id |-> 1, key |-> <<Preset.asset, "active">>]}
  /\ box = [focused |-> FALSE, open |-> FALSE, query |-> Preset.field]
  /\ committed = TRUE /\ picked = FALSE /\ sent = None

Next ==
  \/ \E request \in requests : Answer(request)
  \/ Retry \/ LoadRecorded
  \/ \E asset \in Assets : ChangeAsset(asset)
  \/ EditDraft
  \/ Focus \/ Arrow \/ Escape \/ Blur
  \/ \E text \in Texts : Type(text)
  \/ \E field \in Fields : Pick(field)
  \/ Submit \/ Resume

Spec == Init /\ [][Next]_vars

-----------------------------------------------------------------------------
(* Properties.                                                             *)

\* The form never waits for nothing: while it says that it is loading, the read
\* it waits for is on its way, whichever datasets and sources were left behind
\* and whichever of their answers are late (useSchemaCatalog).
LoadingIsAsked ==
  Loading => \E request \in requests : Wanted(request) /\ request.key = key

\* What is submitted is what the form showed: a field that a schema of that very
\* dataset has, by the text in the box, and with the type it has there, though
\* the dataset, the source and the field were changed on the way.  The draft the
\* page starts with has a type nobody chose.
SentIsShown ==
  sent # None =>
    LET request == sent.request
    IN  /\ sent.seen \in Schemas[request.asset]
        /\ request.field \in DOMAIN sent.seen /\ request.field = sent.text
        /\ request.operation = "type_change" =>
             \/ request.type = sent.seen[request.field]
             \/ request.asset = Preset.asset /\ request.field = Preset.field

\* FieldCombobox.test.tsx: "commits an option through click-only activation": a
\* field that was taken from the list, with nothing typed since, is settled.
PickedIsCommitted == picked /\ Mounted => committed
=============================================================================
