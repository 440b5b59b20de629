--------------------------- MODULE SchemaFormProofs ---------------------------
(***************************************************************************)
(* Safety of SchemaForm, for every value of the constants: types, that the *)
(* form never waits for a read nobody makes, and that what is submitted is *)
(* what the form showed.                                                   *)
(*                                                                         *)
(* Both follow from one fact about the reads: the read whose answer counts *)
(* is always for the catalogue that is missing on the screen.  Hence a     *)
(* catalogue, once shown, stays until the dataset is changed, and what was *)
(* chosen from it is still in it when it is submitted.                     *)
(***************************************************************************)
EXTENDS SchemaForm, TLAPS

-----------------------------------------------------------------------------
(* The invariant.                                                          *)

\* What is kept for a dataset is a schema of that dataset.
CachedIsRead == \A k \in Key : cache[k] # None => cache[k] \in Schemas[k[1]]

\* The last answer is in the cache if it is a catalogue; if it is a failure
\* nothing is.
ResultOK ==
  /\ result.catalog # None =>
       result.key \in Key /\ cache[result.key] = result.catalog
  /\ result.failed =>
       /\ result.key \in Key
       /\ result.key[1] \in Datasets => cache[result.key] = None

\* Reads have different numbers; the one that counts is for what is missing.
RequestsOK ==
  /\ \A q \in requests : q.id <= asked
  /\ \A p, q \in requests : p.id = q.id => p = q
  /\ \A q \in requests : Wanted(q) => q.key = key /\ Catalog = None

\* The field of the draft is blank, or the one the page starts with, or it was
\* chosen from the catalogue that is shown.
ChosenOK ==
  \/ draft.field = Blank
  \/ draft.asset = Preset.asset /\ draft.field = Preset.field
  \/ draft.asset \in Datasets =>
       /\ Catalog # None /\ draft.field \in DOMAIN Catalog
       /\ draft.type = Catalog[draft.field]

\* A settled text is the field, or one that finds the field in the list.
BoxOK ==
  box.focused =>
    /\ sent = None /\ Catalog # None
    /\ committed => box.query = draft.field \/ draft.field \in Matches

IInv ==
  /\ TypeOK
  /\ CachedIsRead /\ ResultOK /\ RequestsOK /\ LoadingIsAsked
  /\ ChosenOK /\ BoxOK /\ SentIsShown

-----------------------------------------------------------------------------
(* What the form shows.                                                    *)

\* A catalogue that is shown is a schema of the dataset.
LEMMA ShownIsRead ==
  ASSUME TypeOK, CachedIsRead, ResultOK, Catalog # None
  PROVE  Catalog \in Catalogue /\ Catalog \in Schemas[draft.asset]
<1>1. key \in Key /\ key[1] = draft.asset
  BY DEF TypeOK, Draft, Key, key
<1>2. result.catalog \in Catalogue \cup {None}
      /\ \A k \in Key : cache[k] \in Catalogue \cup {None}
  BY DEF TypeOK
<1>3. CASE Answers /\ result.catalog # None
  <2>1. Catalog = cache[key]
    BY <1>3 DEF Catalog, Answers, ResultOK
  <2> QED BY <1>1, <1>2, <2>1 DEF CachedIsRead
<1>4. CASE ~ (Answers /\ result.catalog # None)
  <2>1. Catalog = cache[key]
    BY <1>4 DEF Catalog, Cached
  <2> QED BY <1>1, <1>2, <2>1 DEF CachedIsRead
<1> QED BY <1>3, <1>4

\* What is shown of a dataset is what is kept, and a failed read shows nothing.
LEMMA ShownIsCached ==
  ASSUME TypeOK, ResultOK, draft.asset \in Datasets
  PROVE  /\ Catalog = cache[key]
         /\ Failed => Catalog = None
<1>1. key \in Key /\ key[1] = draft.asset
  BY DEF TypeOK, Draft, Key, key
<1>2. Catalog = cache[key]
  BY DEF Catalog, Cached, Answers, ResultOK
<1> QED BY <1>1, <1>2 DEF Failed, Answers, ResultOK

\* The type that a field of a catalogue has.
LEMMA TypeOfField ==
  ASSUME NEW catalog \in Catalogue, NEW field \in DOMAIN catalog
  PROVE  field \in Fields /\ catalog[field] \in Types
BY DEF Catalogue

\* A step that leaves the reads and the dataset alone shows the same.
LEMMA SameScreen ==
  ASSUME UNCHANGED <<source, reading>>, draft'.asset = draft.asset
  PROVE  /\ key' = key /\ Catalog' = Catalog /\ Failed' = Failed
         /\ Loading' = Loading
         /\ requests' = requests /\ cache' = cache /\ result' = result
         /\ asked' = asked /\ current' = current
<1>1. /\ requests' = requests /\ cache' = cache /\ result' = result
      /\ asked' = asked /\ current' = current /\ source' = source
  BY DEF reading
<1>2. key' = key
  BY <1>1 DEF key
<1>3. Cached' = Cached /\ Answers' = Answers
  BY <1>1, <1>2 DEF Cached, Answers
<1>4. Catalog' = Catalog
  BY <1>1, <1>3 DEF Catalog
<1>5. Failed' = Failed
  BY <1>1, <1>3 DEF Failed
<1>6. Loading' = Loading
  BY <1>4, <1>5 DEF Loading
<1> QED BY <1>1, <1>2, <1>4, <1>5, <1>6

\* Hence what is said of the reads still holds.
LEMMA ReadsStay ==
  ASSUME IInv, UNCHANGED <<source, reading>>, draft'.asset = draft.asset
  PROVE  CachedIsRead' /\ ResultOK' /\ RequestsOK' /\ LoadingIsAsked'
<1>1. /\ key' = key /\ Catalog' = Catalog /\ Loading' = Loading
      /\ requests' = requests /\ cache' = cache /\ result' = result
      /\ asked' = asked /\ current' = current
  BY SameScreen
<1>2. CachedIsRead' /\ ResultOK'
  BY <1>1 DEF IInv, CachedIsRead, ResultOK
<1>3. RequestsOK'
  BY <1>1 DEF IInv, RequestsOK, Wanted
<1>4. LoadingIsAsked'
  BY <1>1 DEF IInv, LoadingIsAsked, Wanted
<1> QED BY <1>2, <1>3, <1>4

-----------------------------------------------------------------------------
(* Reading a schema.                                                       *)

\* The effect that reads, or does not need to: it asks for what is missing.
LEMMA ReadsKeep ==
  ASSUME IInv, NEW asset \in Assets, NEW from \in Source,
         key' = <<asset, from>>, draft'.asset = asset, source' = from,
         Reads(asset, from), UNCHANGED <<cache, result>>
  PROVE  /\ requests' \subseteq [id : 1..MaxRequests, key : Key]
         /\ current' \in 0..MaxRequests /\ asked' \in 0..MaxRequests
         /\ CachedIsRead' /\ ResultOK' /\ RequestsOK' /\ LoadingIsAsked'
<1>1. /\ requests \subseteq [id : 1..MaxRequests, key : Key]
      /\ asked \in 0..MaxRequests /\ MaxRequests \in Nat
      /\ RequestsOK
  BY SchemaAssumption DEF IInv, TypeOK
<1>2. CachedIsRead' /\ ResultOK'
  BY DEF IInv, CachedIsRead, ResultOK
<1>3. <<asset, from>> \in Key
  BY DEF Key
<1>4. Cached' = IF asset \in Datasets THEN cache[<<asset, from>>] ELSE None
  BY DEF Cached
<1>5. result.key = <<asset, from>> /\ result.catalog # None =>
        cache[<<asset, from>>] = result.catalog
  BY DEF IInv, ResultOK
<1>6. asset \in Datasets => Catalog' = cache[<<asset, from>>]
  BY <1>4, <1>5 DEF Catalog, Answers
<1>7. CASE asset \in Datasets /\ cache[<<asset, from>>] = None
  <2> DEFINE new == [id |-> asked + 1, key |-> <<asset, from>>]
  <2>1. /\ asked < MaxRequests /\ asked' = asked + 1 /\ current' = asked + 1
        /\ requests' = requests \cup {new}
    BY <1>7 DEF Reads
  <2>2. asked + 1 \in 1..MaxRequests
    BY <1>1, <2>1
  <2>3. new \in [id : 1..MaxRequests, key : Key] /\ new.id = asked + 1
        /\ new.key = key'
    BY <1>3, <2>2
  <2> HIDE DEF new
  <2>4. \A q \in requests : q.id \in Nat /\ q.id <= asked
    BY <1>1 DEF RequestsOK
  <2>5. \A q \in requests : q.id <= asked + 1 /\ q.id # asked + 1
    <3>1. \A i \in Nat : i <= asked => i <= asked + 1 /\ i # asked + 1
      BY <1>1
    <3> QED BY <2>4, <3>1, Zenon
  <2>6. \A q \in requests' : q.id <= asked'
    BY <1>1, <2>1, <2>3, <2>5
  <2>7. \A p, q \in requests' : p.id = q.id => p = q
    BY <1>1, <2>1, <2>3, <2>5 DEF RequestsOK
  <2>8. Catalog' = None
    BY <1>6, <1>7
  <2>9. \A q \in requests' : q.id = current' => q = new
    BY <2>1, <2>5
  <2>10. RequestsOK'
    BY <2>3, <2>6, <2>7, <2>8, <2>9 DEF RequestsOK, Wanted
  <2>11. LoadingIsAsked'
    BY <2>1, <2>3 DEF LoadingIsAsked, Wanted
  <2>12. /\ requests' \subseteq [id : 1..MaxRequests, key : Key]
         /\ current' \in 0..MaxRequests /\ asked' \in 0..MaxRequests
    BY <1>1, <2>1, <2>2, <2>3
  <2> QED BY <1>2, <2>10, <2>11, <2>12
<1>8. CASE ~ (asset \in Datasets /\ cache[<<asset, from>>] = None)
  <2>1. current' = 0 /\ asked' = asked /\ requests' = requests
    BY <1>8 DEF Reads
  <2>2. \A q \in requests : q.id # 0
    BY <1>1
  <2>3. RequestsOK'
    BY <1>1, <2>1, <2>2 DEF RequestsOK, Wanted
  <2>4. ~ Loading'
    BY <1>6, <1>8 DEF Loading
  <2>5. LoadingIsAsked'
    BY <2>4 DEF LoadingIsAsked
  <2>6. /\ requests' \subseteq [id : 1..MaxRequests, key : Key]
        /\ current' \in 0..MaxRequests /\ asked' \in 0..MaxRequests
    BY <1>1, <2>1
  <2> QED BY <1>2, <2>3, <2>5, <2>6
<1> QED BY <1>7, <1>8

\* What was sent is not touched by a step that does not submit.
LEMMA SentStays ==
  ASSUME SentIsShown, sent' = sent \/ sent' = None
  PROVE  SentIsShown'
BY DEF SentIsShown

\* A late answer changes nothing but that it is no longer awaited.
LEMMA LateAnswer ==
  ASSUME IInv, NEW request \in requests, Answer(request), ~ Wanted(request)
  PROVE  IInv'
<1>1. /\ requests' = requests \ {request}
      /\ UNCHANGED <<cache, result, current, draft, source, asked, box,
                     committed, picked, sent>>
  BY DEF Answer
<1>2. TypeOK'
  BY <1>1 DEF IInv, TypeOK
<1>3. key' = key
  BY <1>1 DEF key
<1>4. Catalog' = Catalog /\ Failed' = Failed
  BY <1>1, <1>3 DEF Catalog, Cached, Answers, Failed
<1>5. Loading' = Loading /\ Matches' = Matches
  BY <1>1, <1>4 DEF Loading, Matches
<1>6. CachedIsRead' /\ ResultOK'
  BY <1>1 DEF IInv, CachedIsRead, ResultOK
<1>7. RequestsOK'
  BY <1>1, <1>3, <1>4 DEF IInv, RequestsOK, Wanted
<1>8. LoadingIsAsked'
  BY <1>1, <1>3, <1>5 DEF IInv, LoadingIsAsked, Wanted
<1>9. ChosenOK' /\ BoxOK'
  BY <1>1, <1>4, <1>5 DEF IInv, ChosenOK, BoxOK
<1>10. SentIsShown'
  BY <1>1, SentStays DEF IInv
<1> QED BY <1>2, <1>6, <1>7, <1>8, <1>9, <1>10 DEF IInv

\* The answer that counts fills the empty screen, or says that it failed.
LEMMA WantedAnswer ==
  ASSUME IInv, NEW request \in requests, Answer(request), Wanted(request)
  PROVE  IInv'
<1>1. /\ requests' = requests \ {request}
      /\ UNCHANGED <<draft, source, asked, box, committed, picked, sent>>
  BY DEF Answer
<1>2. request.key = key /\ Catalog = None /\ key' = key
  BY <1>1 DEF IInv, RequestsOK, key
<1>3. key \in Key /\ key[1] = draft.asset /\ draft.asset \in Assets
  BY DEF IInv, TypeOK, Draft, Key, key
<1>4. requests' \subseteq [id : 1..MaxRequests, key : Key]
      /\ \A q \in requests' : q.id # current /\ q.id # 0
  BY <1>1 DEF IInv, TypeOK, RequestsOK, Wanted
<1>5. box'.focused = FALSE
  BY <1>1, <1>2 DEF IInv, BoxOK, TypeOK
<1>6. BoxOK' /\ SentIsShown'
  BY <1>1, <1>5, SentStays DEF BoxOK, IInv
<1>7. \/ draft.field = Blank \/ draft.asset \notin Datasets
      \/ draft.asset = Preset.asset /\ draft.field = Preset.field
  BY <1>2 DEF IInv, ChosenOK
<1>8. ChosenOK'
  BY <1>1, <1>7 DEF ChosenOK
<1>9. ASSUME NEW catalog \in Schemas[key[1]],
             cache' = [cache EXCEPT ![key] = catalog],
             result' = [key |-> key, catalog |-> catalog, failed |-> FALSE],
             current' = 0
      PROVE  IInv'
  <2>1. catalog \in Catalogue /\ catalog # None
    BY <1>3, SchemaAssumption
  <2>2. cache \in [Key -> Catalogue \cup {None}]
    BY DEF IInv, TypeOK
  <2>3. cache' \in [Key -> Catalogue \cup {None}] /\ cache'[key] = catalog
    BY <1>3, <1>9, <2>1, <2>2
  <2>4. TypeOK'
    BY <1>1, <1>3, <1>4, <1>9, <2>1, <2>3, SchemaAssumption DEF IInv, TypeOK
  <2>5. CachedIsRead'
    BY <1>3, <1>9, <2>2 DEF IInv, CachedIsRead
  <2>6. ResultOK'
    BY <1>3, <1>9, <2>3 DEF ResultOK
  <2>7. RequestsOK'
    BY <1>1, <1>4, <1>9 DEF IInv, RequestsOK, Wanted
  <2>8. Catalog' = catalog
    BY <1>2, <1>9, <2>1 DEF Catalog, Answers
  <2>9. LoadingIsAsked'
    BY <2>1, <2>8 DEF LoadingIsAsked, Loading
  <2> QED BY <1>6, <1>8, <2>4, <2>5, <2>6, <2>7, <2>9 DEF IInv
<1>10. ASSUME result' = [key |-> key, catalog |-> None, failed |-> TRUE],
              UNCHANGED <<cache, current>>
       PROVE  IInv'
  <2>1. TypeOK'
    BY <1>1, <1>3, <1>4, <1>10 DEF IInv, TypeOK
  <2>2. CachedIsRead'
    BY <1>10 DEF IInv, CachedIsRead
  <2>3. draft.asset \in Datasets => cache[key] = None
    BY <1>2, ShownIsCached DEF IInv
  <2>4. ResultOK'
    BY <1>3, <1>10, <2>3 DEF ResultOK
  <2>5. RequestsOK'
    BY <1>1, <1>4, <1>10 DEF IInv, RequestsOK, Wanted
  <2>6. Failed'
    BY <1>2, <1>10 DEF Failed, Answers
  <2>7. LoadingIsAsked'
    BY <2>6 DEF LoadingIsAsked, Loading
  <2> QED BY <1>6, <1>8, <2>1, <2>2, <2>4, <2>5, <2>7 DEF IInv
<1>11. \/ \E catalog \in Schemas[key[1]] :
            /\ cache' = [cache EXCEPT ![key] = catalog]
            /\ result' = [key |-> key, catalog |-> catalog, failed |-> FALSE]
            /\ current' = 0
       \/ /\ result' = [key |-> key, catalog |-> None, failed |-> TRUE]
          /\ UNCHANGED <<cache, current>>
  BY <1>2 DEF Answer
<1> QED BY <1>9, <1>10, <1>11

\* Read again, or read the recorded fields: only a failed read is replaced, so
\* nothing that was shown is lost.
LEMMA ReadAgain ==
  ASSUME IInv, Retry \/ LoadRecorded
  PROVE  IInv'
<1>1. /\ Elsewhere /\ Failed
      /\ UNCHANGED <<draft, cache, result, box, committed, picked, sent>>
      /\ source' \in Source /\ Reads(draft.asset, source')
  BY DEF Retry, LoadRecorded, IInv, TypeOK, Source
<1>2. draft.asset \in Assets /\ key' = <<draft.asset, source'>>
  BY <1>1 DEF IInv, TypeOK, Draft, key
<1>3. /\ requests' \subseteq [id : 1..MaxRequests, key : Key]
      /\ current' \in 0..MaxRequests /\ asked' \in 0..MaxRequests
      /\ CachedIsRead' /\ ResultOK' /\ RequestsOK' /\ LoadingIsAsked'
  BY <1>1, <1>2, ReadsKeep
<1>4. TypeOK'
  BY <1>1, <1>3 DEF IInv, TypeOK
<1>5. draft.asset \in Datasets => Catalog = None
  BY <1>1, ShownIsCached DEF IInv
<1>6. ChosenOK'
  BY <1>1, <1>5 DEF IInv, ChosenOK
<1>7. BoxOK'
  BY <1>1 DEF Elsewhere, BoxOK
<1>8. SentIsShown'
  BY <1>1, SentStays DEF IInv
<1> QED BY <1>3, <1>4, <1>6, <1>7, <1>8 DEF IInv

\* Another dataset: nothing that was chosen for the old one is left.
LEMMA AnotherAsset ==
  ASSUME IInv, NEW asset \in Assets, ChangeAsset(asset)
  PROVE  IInv'
<1>1. /\ Elsewhere /\ draft' = ForAsset(asset) /\ source' = "active"
      /\ Reads(asset, "active") /\ picked' = FALSE
      /\ UNCHANGED <<cache, result, box, committed, sent>>
  BY DEF ChangeAsset
<1>2. /\ draft' \in Draft /\ draft'.asset = asset /\ draft'.field = Blank
  BY <1>1, SchemaAssumption DEF ForAsset, IInv, TypeOK, Draft
<1>3. source' \in Source /\ key' = <<asset, source'>>
  BY <1>1, <1>2 DEF key, Source
<1>4. /\ requests' \subseteq [id : 1..MaxRequests, key : Key]
      /\ current' \in 0..MaxRequests /\ asked' \in 0..MaxRequests
      /\ CachedIsRead' /\ ResultOK' /\ RequestsOK' /\ LoadingIsAsked'
  BY <1>1, <1>2, <1>3, ReadsKeep
<1>5. TypeOK'
  BY <1>1, <1>2, <1>3, <1>4 DEF IInv, TypeOK
<1>6. ChosenOK'
  BY <1>2 DEF ChosenOK
<1>7. BoxOK'
  BY <1>1 DEF Elsewhere, BoxOK
<1>8. SentIsShown'
  BY <1>1, SentStays DEF IInv
<1> QED BY <1>4, <1>5, <1>6, <1>7, <1>8 DEF IInv

-----------------------------------------------------------------------------
(* The draft and the box.                                                  *)

\* What does not choose a field keeps the choice.
LEMMA EditKeeps ==
  ASSUME IInv, EditDraft
  PROVE  IInv'
<1>1. /\ ~ box.focused
      /\ UNCHANGED <<source, reading, box, committed, picked, sent>>
  BY DEF EditDraft, Elsewhere
<1>2. /\ draft' \in Draft /\ draft'.asset = draft.asset
      /\ draft'.field = draft.field /\ draft'.type = draft.type
  BY DEF EditDraft, IInv, TypeOK, Draft
<1>3. CachedIsRead' /\ ResultOK' /\ RequestsOK' /\ LoadingIsAsked'
      /\ Catalog' = Catalog
  BY <1>1, <1>2, ReadsStay, SameScreen
<1>4. TypeOK'
  BY <1>1, <1>2 DEF IInv, TypeOK, reading
<1>5. ChosenOK'
  BY <1>2, <1>3 DEF IInv, ChosenOK
<1>6. BoxOK'
  BY <1>1 DEF BoxOK
<1>7. SentIsShown'
  BY <1>1, SentStays DEF IInv
<1> QED BY <1>3, <1>4, <1>5, <1>6, <1>7 DEF IInv

\* What only moves the box keeps the draft, if the box stays in order.
LEMMA BoxStep ==
  ASSUME IInv, UNCHANGED <<draft, source, reading, sent>>,
         box' \in [focused : BOOLEAN, open : BOOLEAN, query : Texts],
         box'.open => box'.focused,
         committed' \in BOOLEAN, picked' \in BOOLEAN,
         Catalog' = Catalog => BoxOK'
  PROVE  IInv'
<1>1. CachedIsRead' /\ ResultOK' /\ RequestsOK' /\ LoadingIsAsked'
      /\ Catalog' = Catalog
  BY ReadsStay, SameScreen
<1>2. TypeOK'
  BY DEF IInv, TypeOK, reading
<1>3. ChosenOK'
  BY <1>1 DEF IInv, ChosenOK
<1>4. SentIsShown'
  BY SentStays DEF IInv
<1> QED BY <1>1, <1>2, <1>3, <1>4 DEF IInv

\* The box opens with the field, and what is typed is not settled.
LEMMA OpenKeeps ==
  ASSUME IInv, Focus \/ \E text \in Texts : Type(text)
  PROVE  IInv'
<1>1. draft.field \in Texts /\ committed \in BOOLEAN /\ picked \in BOOLEAN
  BY DEF IInv, TypeOK, Draft
<1>2. PICK text \in Texts :
        /\ box' = Opened(text) /\ committed' \in BOOLEAN /\ picked' \in BOOLEAN
        /\ text = draft.field \/ ~ committed'
        /\ UNCHANGED <<draft, source, reading, sent>> /\ Mounted
  BY <1>1 DEF Focus, Type
<1>3. /\ box' \in [focused : BOOLEAN, open : BOOLEAN, query : Texts]
      /\ box'.focused /\ box'.query = text
  BY <1>2 DEF Opened
<1>4. ASSUME Catalog' = Catalog PROVE BoxOK'
  BY <1>2, <1>3, <1>4 DEF BoxOK, Mounted
<1> QED BY <1>2, <1>3, <1>4, BoxStep

\* The list that is opened again over a text still has the field it found.
LEMMA ArrowKeeps ==
  ASSUME IInv, Arrow
  PROVE  IInv'
<1>1. /\ Mounted /\ box.focused /\ box' = [box EXCEPT !.open = TRUE]
      /\ UNCHANGED <<draft, source, reading, committed, picked, sent>>
  BY DEF Arrow
<1>2. /\ box' \in [focused : BOOLEAN, open : BOOLEAN, query : Texts]
      /\ box'.focused /\ box'.query = box.query
      /\ committed' \in BOOLEAN /\ picked' \in BOOLEAN
  BY <1>1 DEF IInv, TypeOK
<1>3. ASSUME Catalog' = Catalog PROVE BoxOK'
  <2>1. Matches' = Matches
    BY <1>2, <1>3 DEF Matches
  <2> QED BY <1>1, <1>2, <1>3, <2>1 DEF IInv, BoxOK
<1> QED BY <1>1, <1>2, <1>3, BoxStep

\* The box that is left, or told to forget its text, is in order.
LEMMA LeaveKeeps ==
  ASSUME IInv, Escape \/ Blur
  PROVE  IInv'
<1>1. /\ Mounted /\ draft.field \in Texts /\ picked \in BOOLEAN
      /\ UNCHANGED <<draft, source, reading, picked, sent>>
      /\ committed' \in BOOLEAN
  BY DEF Escape, Blur, IInv, TypeOK, Draft
<1>2. /\ box' \in [focused : BOOLEAN, open : BOOLEAN, query : Texts]
      /\ box'.open = FALSE
      /\ box'.focused => box'.query = draft.field
  BY <1>1 DEF Escape, Blur, Left, IInv, TypeOK
<1>3. ASSUME Catalog' = Catalog PROVE BoxOK'
  BY <1>1, <1>2, <1>3 DEF BoxOK, Mounted
<1> QED BY <1>1, <1>2, <1>3, BoxStep

\* The field that is picked, with its type, is one of the catalogue.
LEMMA PickKeeps ==
  ASSUME IInv, NEW field \in Fields, Pick(field)
  PROVE  IInv'
<1>1. /\ Mounted /\ box.open /\ field \in Matches /\ draft' = Selected(field)
      /\ box' = [box EXCEPT !.open = FALSE] /\ committed' = TRUE
      /\ picked' = TRUE /\ UNCHANGED <<source, reading, sent>>
  BY DEF Pick
<1>2. /\ field \in DOMAIN Catalog /\ Catalog # None /\ sent = None
      /\ field \in Fits[box.query]
  BY <1>1 DEF Matches, Mounted
<1>3. Catalog[field] \in Types
  BY <1>2, ShownIsRead, TypeOfField DEF IInv
<1>4. /\ draft' \in Draft /\ draft'.asset = draft.asset
      /\ draft'.field = field /\ draft'.type = Catalog[field]
  BY <1>1, <1>3, SchemaAssumption DEF Selected, IInv, TypeOK, Draft
<1>5. CachedIsRead' /\ ResultOK' /\ RequestsOK' /\ LoadingIsAsked'
      /\ Catalog' = Catalog
  BY <1>1, <1>4, ReadsStay, SameScreen
<1>6. /\ box' \in [focused : BOOLEAN, open : BOOLEAN, query : Texts]
      /\ box'.open = FALSE /\ box'.query = box.query
  BY <1>1 DEF IInv, TypeOK
<1>7. TypeOK'
  BY <1>1, <1>4, <1>6 DEF IInv, TypeOK, reading
<1>8. ChosenOK'
  BY <1>2, <1>4, <1>5 DEF ChosenOK
<1>9. BoxOK'
  BY <1>1, <1>2, <1>4, <1>5, <1>6 DEF BoxOK, Matches
<1>10. SentIsShown'
  BY <1>1, SentStays DEF IInv
<1> QED BY <1>5, <1>7, <1>8, <1>9, <1>10 DEF IInv

-----------------------------------------------------------------------------
(* Submitting.                                                             *)

\* The text in the box of a draft that may be submitted is the field.
LEMMA SubmittedText ==
  ASSUME IInv, Submit
  PROVE  Text = draft.field
<1>1. committed /\ ~ (box.open /\ Matches # {})
  BY DEF Submit, CanAnalyze
<1>2. box.open => box.query = draft.field
  BY <1>1 DEF IInv, TypeOK, BoxOK
<1> QED BY <1>2 DEF Text

\* What is submitted is what was shown.
LEMMA SubmitKeeps ==
  ASSUME IInv, Submit
  PROVE  IInv'
<1> DEFINE request == ToRequest
           record  == [request |-> request, seen |-> Catalog, text |-> Text]
<1>1. /\ sent' = record /\ box' = Left /\ ~ Failed
      /\ Catalog # None /\ draft.field \in DOMAIN Catalog
      /\ UNCHANGED <<draft, source, reading, committed, picked>>
  BY DEF Submit, CanAnalyze
<1>2. draft \in Draft /\ draft.asset \in Datasets
  BY <1>1 DEF IInv, TypeOK, Failed
<1>3. Catalog \in Catalogue /\ Catalog \in Schemas[draft.asset]
  BY <1>1, ShownIsRead DEF IInv
<1>4. Text = draft.field
  BY SubmittedText
<1>5. /\ request \in Request
      /\ request.asset = draft.asset /\ request.field = draft.field
      /\ request.operation = "type_change" => request.type = draft.type
  BY <1>2 DEF ToRequest, Request, Draft
<1>6. \/ draft.asset = Preset.asset /\ draft.field = Preset.field
      \/ draft.type = Catalog[draft.field]
  <2>1. draft.field # Blank
    <3>1. draft.field \in Fields
      BY <1>1, <1>3, TypeOfField
    <3> QED BY <3>1, SchemaAssumption
  <2> QED BY <1>2, <2>1 DEF IInv, ChosenOK
<1> HIDE DEF request
<1>7. /\ sent'.request = request /\ sent'.seen = Catalog
      /\ sent'.text = draft.field
  BY <1>1, <1>4
<1>8. SentIsShown'
  BY <1>1, <1>3, <1>5, <1>6, <1>7 DEF SentIsShown
<1>9. sent' \in [request : Request, seen : Catalogue, text : Texts]
  BY <1>1, <1>2, <1>3, <1>4, <1>5 DEF Draft
<1>10. /\ box' \in [focused : BOOLEAN, open : BOOLEAN, query : Texts]
       /\ box'.focused = FALSE /\ box'.open = FALSE
  BY <1>1 DEF Left, IInv, TypeOK
<1>11. TypeOK'
  BY <1>1, <1>9, <1>10 DEF IInv, TypeOK, reading
<1>12. CachedIsRead' /\ ResultOK' /\ RequestsOK' /\ LoadingIsAsked'
       /\ Catalog' = Catalog
  BY <1>1, ReadsStay, SameScreen
<1>13. ChosenOK'
  BY <1>1, <1>12 DEF IInv, ChosenOK
<1>14. BoxOK'
  BY <1>10 DEF BoxOK
<1> QED BY <1>8, <1>11, <1>12, <1>13, <1>14 DEF IInv

\* The form comes back as it was left, with no focus in the box.
LEMMA ResumeKeeps ==
  ASSUME IInv, Resume
  PROVE  IInv'
<1>1. /\ sent # None /\ sent' = None
      /\ UNCHANGED <<draft, source, reading, box, committed, picked>>
  BY DEF Resume
<1>2. ~ box.focused
  BY <1>1 DEF IInv, BoxOK
<1>3. TypeOK'
  BY <1>1 DEF IInv, TypeOK, reading
<1>4. CachedIsRead' /\ ResultOK' /\ RequestsOK' /\ LoadingIsAsked'
      /\ Catalog' = Catalog
  BY <1>1, ReadsStay, SameScreen
<1>5. ChosenOK'
  BY <1>1, <1>4 DEF IInv, ChosenOK
<1>6. BoxOK'
  BY <1>1, <1>2 DEF BoxOK
<1>7. SentIsShown'
  BY <1>1, SentStays DEF IInv
<1> QED BY <1>3, <1>4, <1>5, <1>6, <1>7 DEF IInv

-----------------------------------------------------------------------------
(* The theorems.                                                           *)

\* The first read is for the draft the page starts with.
LEMMA IInvInit == Init => IInv
<1> SUFFICES ASSUME Init PROVE IInv
  OBVIOUS
<1> DEFINE first == [id |-> 1, key |-> <<Preset.asset, "active">>]
<1>1. /\ draft = Preset /\ source = "active" /\ Preset \in Draft
      /\ cache = [k \in Key |-> None]
      /\ result.catalog = None /\ result.failed = FALSE
      /\ result \in [key : Key \cup {None}, catalog : Catalogue \cup {None},
                     failed : BOOLEAN]
      /\ asked = 1 /\ current = 1 /\ requests = {first}
      /\ box \in [focused : BOOLEAN, open : BOOLEAN, query : Texts]
      /\ box.focused = FALSE /\ box.open = FALSE
      /\ committed = TRUE /\ picked = FALSE /\ sent = None
  BY SchemaAssumption DEF Init, Draft
<1>2. /\ key = <<Preset.asset, "active">> /\ key \in Key
      /\ 1 \in 1..MaxRequests
  BY <1>1, SchemaAssumption DEF key, Key, Draft, Source
<1>3. first \in [id : 1..MaxRequests, key : Key] /\ first.id = 1
      /\ first.key = key
  BY <1>2
<1> HIDE DEF first
<1>4. TypeOK
  <2>1. /\ asked \in 0..MaxRequests /\ current \in 0..MaxRequests
        /\ source \in Source
    BY <1>1, SchemaAssumption DEF Source
  <2>2. requests \subseteq [id : 1..MaxRequests, key : Key]
    BY <1>1, <1>3
  <2>3. cache \in [Key -> Catalogue \cup {None}]
    BY <1>1
  <2> QED BY <1>1, <2>1, <2>2, <2>3 DEF TypeOK
<1>5. Catalog = None
  BY <1>1, <1>2 DEF Catalog, Cached
<1>6. CachedIsRead /\ ResultOK
  BY <1>1 DEF CachedIsRead, ResultOK
<1>7. RequestsOK /\ LoadingIsAsked
  BY <1>1, <1>3, <1>5 DEF RequestsOK, LoadingIsAsked, Wanted
<1>8. ChosenOK /\ BoxOK /\ SentIsShown
  BY <1>1 DEF ChosenOK, BoxOK, SentIsShown
<1> QED BY <1>4, <1>6, <1>7, <1>8 DEF IInv

\* Every event of the form keeps IInv.
LEMMA IInvStep == IInv /\ [Next]_vars => IInv'
<1> SUFFICES ASSUME IInv, [Next]_vars PROVE IInv'
  OBVIOUS
<1>1. ASSUME NEW request \in requests, Answer(request) PROVE IInv'
  BY <1>1, LateAnswer, WantedAnswer
<1>2. CASE Retry \/ LoadRecorded
  BY <1>2, ReadAgain
<1>3. ASSUME NEW asset \in Assets, ChangeAsset(asset) PROVE IInv'
  BY <1>3, AnotherAsset
<1>4. CASE EditDraft
  BY <1>4, EditKeeps
<1>5. CASE Focus \/ \E text \in Texts : Type(text)
  BY <1>5, OpenKeeps
<1>6. CASE Arrow
  BY <1>6, ArrowKeeps
<1>7. CASE Escape \/ Blur
  BY <1>7, LeaveKeeps
<1>8. ASSUME NEW field \in Fields, Pick(field) PROVE IInv'
  BY <1>8, PickKeeps
<1>9. CASE Submit
  BY <1>9, SubmitKeeps
<1>10. CASE Resume
  BY <1>10, ResumeKeeps
<1>11. CASE UNCHANGED vars
  <2>1. UNCHANGED <<draft, source, reading, box, committed, picked, sent>>
    BY <1>11 DEF vars
  <2>2. /\ box \in [focused : BOOLEAN, open : BOOLEAN, query : Texts]
        /\ box.open => box.focused /\ committed \in BOOLEAN /\ picked \in BOOLEAN
    BY DEF IInv, TypeOK
  <2>3. ASSUME Catalog' = Catalog PROVE BoxOK'
    BY <2>1, <2>3 DEF IInv, BoxOK, Matches
  <2> QED BY <2>1, <2>2, <2>3, BoxStep DEF IInv, TypeOK
<1> QED BY <1>1, <1>2, <1>3, <1>4, <1>5, <1>6, <1>7, <1>8, <1>9, <1>10, <1>11
        DEF Next

\* The inductive invariant holds in every behaviour of the form.
THEOREM Invariance == Spec => []IInv
<1> QED BY IInvInit, IInvStep, PTL DEF Spec

\* Types: every variable keeps its type (TypeOK).
THEOREM TypeCorrect == Spec => []TypeOK
<1>1. IInv => TypeOK
  BY DEF IInv
<1> QED BY <1>1, Invariance, PTL

\* The form never waits for nothing: whenever it says that it is loading, the
\* read whose answer counts is on its way for the catalogue that is missing.
THEOREM LoadingFormsAreServed == Spec => []LoadingIsAsked
<1>1. IInv => LoadingIsAsked
  BY DEF IInv
<1> QED BY <1>1, Invariance, PTL

\* What is submitted is what the form showed: a field of a schema of that very
\* dataset, by the text in the box and with the type it has there.
THEOREM SubmissionsAreShown == Spec => []SentIsShown
<1>1. IInv => SentIsShown
  BY DEF IInv
<1> QED BY <1>1, Invariance, PTL
=============================================================================
