------------------------------ MODULE MCDataHub ------------------------------
(* Small instances of DataHub for TLC. *)
EXTENDS DataHub

CONSTANTS r1, r2, publisher, reader, a, b, c, d, x, y, z

Catalogue(schema, downstreams) ==
  [l \in Lists |-> CASE l = "schema"      -> schema
                     [] l = "downstreams" -> downstreams
                     [] OTHER             -> <<>>]

\* r2 is resumed after its document was saved.
Resumed == [r \in Runs |-> IF r = r2 THEN {"save_document"} ELSE {}]

\* Two pages or more of each list; then the first field is gone, and the first
\* relationship, in whose place another has come in at the end.
First == Catalogue(<<a, b, c>>, <<x, y>>)
SomeCatalogues == {First, Catalogue(<<b, c>>, <<y, z>>)}
=============================================================================
