------------------------------ MODULE MCDecision ------------------------------
(* Small instances of Decision for TLC. *)
EXTENDS Decision

CONSTANTS w1, w2

Ty(name, params) == [name |-> name, params |-> params]
Nm(stem) == [stem |-> <<stem>>, upper |-> FALSE]

T10 == Ty("VARCHAR", <<10>>)
T20 == Ty("TEXT", <<20>>)
Num == Ty("NUMBER", <<10, 2>>)
TInt == Ty("INT", <<>>)
Bin == Ty("BINARY", <<10>>)
Odd == Ty("STRUCT", <<>>)

Rename(n, m) == [operation |-> "rename", target |-> "asset", field |-> n,
                 newField |-> m, oldType |-> None, newType |-> None]
Removal(n) == [operation |-> "remove", target |-> "asset", field |-> n,
              newField |-> None, oldType |-> None, newType |-> None]
Retype(n, t, u) == [operation |-> "type_change", target |-> "asset", field |-> n,
                    newField |-> None, oldType |-> t, newType |-> u]

SomeChanges ==
  {Rename(Nm("a"), Nm("b")), Rename(Nm("a"), Nm("c")), Rename(Nm("a"), Nm("order")),
   Rename(Nm("order"), Nm("c")), Removal(Nm("a")), Removal(Nm("retaining")),
   Retype(Nm("a"), T10, T20), Retype(Nm("a"), T20, T10), Retype(Nm("a"), Num, TInt),
   Retype(Nm("a"), T10, Bin)}

Asset(urn, executive, ml, business, domain, label) ==
  [urn |-> urn, executive |-> executive, ml |-> ml, business |-> business,
   domain |-> domain, label |-> label]
Plain(urn) == Asset(urn, FALSE, FALSE, FALSE, None, <<urn>>)

Field(name, type) == [name |-> name, type |-> type, nullable |-> FALSE]

\* A context of field a of a type, with a schema and consumers and little else.
Context(field, type, schema, downstream) ==
  [target |-> "asset", field |-> field, fieldType |-> type, mode |-> "live",
   schema |-> schema, downstream |-> downstream, domain |-> None, usage |-> "none",
   governed |-> FALSE, personal |-> FALSE, authoritative |-> FALSE,
   owner |-> "accountable"]

Upper(n) == [n EXCEPT !.upper = TRUE]
NewA == [Nm("a") EXCEPT !.stem = Append(@, "new_type")]

\* The schemas: plain, with b or with a__new_type already there, in another
\* case, ambiguous, with a double, with a reserved word, without the field.
Schemas(type) ==
  {<<Field(Nm("a"), type)>>,
   <<Field(Nm("a"), type), Field(Nm("b"), TInt)>>,
   <<Field(NewA, type), Field(Nm("a"), type)>>,
   <<Field(Upper(Nm("a")), type), Field(Nm("b"), TInt)>>,
   <<Field(Nm("a"), type), Field(Upper(Nm("a")), type)>>,
   <<Field(Nm("d"), TInt), Field(Nm("a"), type), Field(Upper(Nm("d")), TInt)>>,
   <<Field(Nm("order"), type), Field(Nm("a"), type)>>,
   <<Field(Nm("retaining"), type), Field(Nm("a"), type)>>,
   <<Field(Nm("b"), type)>>}

SchemaContexts ==
  UNION {{Context(Nm(f), t, s, <<>>) : s \in Schemas(t), f \in {"a", "order", "retaining"}} :
           t \in {T10, T20, Num, Odd}}
  \cup {Context(Upper(Nm("a")), T10, <<Field(Nm("a"), T10)>>, <<>>),
        Context(Nm("a"), T10, <<Field(Nm("a"), T20)>>, <<>>),
        [Context(Nm("a"), T10, <<Field(Nm("a"), T10)>>, <<>>) EXCEPT !.target = "other"]}

\* Of the plain schema: evidence, from none to everything.
EvidenceContexts ==
  LET base == Context(Nm("a"), T10, <<Field(Nm("a"), T10), Field(Nm("d"), TInt)>>, <<>>) IN
  {[base EXCEPT !.downstream = d, !.usage = u[1], !.owner = u[2], !.governed = g,
                !.personal = g, !.authoritative = g, !.domain = m] :
     d \in {<<>>, <<Plain("x")>>,
            <<Asset("x", TRUE, TRUE, TRUE, "sales", <<"phase two">>)>>,
            <<Asset("x", TRUE, TRUE, TRUE, "sales", <<"x">>), Plain("y"), Plain("z"),
              Plain("v"), Plain("w"), Plain("u")>>},
     u \in {<<"none", "none">>, <<"medium", "listed">>, <<"high", "accountable">>},
     g \in BOOLEAN, m \in {None, "ops"}}
  \cup {[base EXCEPT !.mode = "snapshot"]}

SomeRequests ==
  SomeChanges \X SchemaContexts
    \cup {Rename(Nm("a"), Nm("b")), Removal(Nm("a")), Retype(Nm("a"), T10, T20)}
           \X EvidenceContexts
SomeReserved == {<<"order">>}
SomePhrased == {<<"retaining">>, <<"phase two">>}
=============================================================================
