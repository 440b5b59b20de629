------------------------------- MODULE DataHub -------------------------------
(***************************************************************************)
(* LiveDataHubContext (context/live.py) at work: load(), discover_schema() *)
(* and writeback() of several callers over the one worker of ToolRunner,   *)
(* against a catalogue that changes while it is read.                      *)
(*                                                                         *)
(* A read asks for the entity, then for the schema page by page; load()    *)
(* goes on with three lineage lists, checking the root identity after each *)
(* page, and with the queries.  A writeback makes the mutations its        *)
(* progress does not have yet, in order, and records each.  A mutation is  *)
(* one request over HTTP, without a retry: the client may give it up while *)
(* it is on its way, and it then lands late or never.                      *)
(***************************************************************************)
EXTENDS ToolRunner

CONSTANTS
  Publisher,     \* the caller that writes back: approvals hold one lock
  Runs,          \* the runs whose decision about the asset is written back
  Saved,         \* run -> the mutations its receipt has from an earlier process
  Catalogues,    \* the states the catalogue may be in: list -> items
  Origin,        \* the one it is in at first
  Field,         \* the field a load() is about
  PageSize,      \* the most items a page has (200 fields, 30 relationships)
  MaxEdits,      \* bound: how often the catalogue changes
  LateRuns       \* bound: the runs of which a request may be late, one at a time

VARIABLES
  op,         \* caller -> the operation it is in
  catalogue,  \* what DataHub has now (external)
  edits,      \* how often it was changed
  lastRun,    \* the run that DataHub's structured properties name
  written,    \* the running calls whose properties are written (external)
  late,       \* the runs with a request for properties that the client
              \* has given up and that is still on its way (external)
  progress,   \* run -> the mutations its saved receipt has
  confirmed,  \* history: the run whose properties were confirmed last,
              \* None as soon as the worker starts to write others
  overtaken   \* history: a late request landed after the last call that
              \* wrote properties

readVars == <<catalogue, edits>>
writeVars == <<lastRun, written, late, progress, confirmed, overtaken>>
hubVars == <<op, readVars, writeVars>>
vars == <<runnerVars, hubVars>>

Readers == Callers \ {Publisher}
Lists == {"schema", "upstreams", "downstreams", "assets"}
Mutations == <<"save_document", "add_structured_properties", "add_tags">>

ASSUME ConstantsAssumption ==
  /\ Publisher \in Callers
  /\ PageSize \in Nat \ {0} /\ MaxEdits \in Nat
  /\ Origin \in Catalogues /\ LateRuns \subseteq Runs
  /\ \A r \in Runs : \E n \in 0..2 : Saved[r] = {Mutations[i] : i \in 1..n}
  /\ \A cat \in Catalogues :
       /\ DOMAIN cat = Lists
       /\ \A l \in Lists : cat[l] \in Seq(ToSet(cat[l]))

\* The calls of a read; None is none of them.
ReadCall == [tool : Lists \cup {"get_entities", "get_dataset_queries"},
             arg : Nat, attempt : Nat]

ASSUME NoneAssumption == None \notin ReadCall

\* An operation: what it is, the list it reads, what it has read of each,
\* the total the list's first page announced, and, as history, the states
\* the catalogue has had meanwhile.
Idle ==
  [kind |-> "idle", list |-> "schema", read |-> [l \in Lists |-> <<>>],
   total |-> 0, versions |-> {}]
Op(kind) == [Idle EXCEPT !.kind = kind, !.versions = {catalogue}]

TypeOK ==
  /\ RunnerOK
  /\ Cardinality(running) <= 1
  /\ \A c \in Callers :
       /\ op[c].kind \in {"idle", "load", "discover", "write", "accepted"}
       /\ Awaits(c) <=> op[c].kind \in {"load", "discover", "write"}
       /\ op[c].list \in Lists /\ op[c].total \in Nat
       /\ op[c].versions \subseteq Catalogues
  /\ catalogue \in Catalogues /\ edits \in 0..MaxEdits
  /\ \A r \in Runs : progress[r] \subseteq ToSet(Mutations)
  /\ {lastRun, confirmed} \subseteq Runs \cup {None}
  /\ written \subseteq {job.call : job \in running}
  /\ late \subseteq LateRuns /\ overtaken \in BOOLEAN

Init ==
  /\ RunnerInit
  /\ op = [c \in Callers |-> Idle]
  /\ catalogue = Origin /\ edits = 0
  /\ progress = [r \in Runs |-> Saved[r]]
  /\ lastRun = None /\ written = {} /\ late = {}
  /\ confirmed = None /\ overtaken = FALSE

-----------------------------------------------------------------------------
(* Starting, going on, and ending.                                         *)

\* The caller's operation becomes o and it submits a call.
Asks(c, o, tool, arg) ==
  op' = [op EXCEPT ![c] = o] /\ Submits(c, Call(tool, arg))

\* The operation ends: with what it has read, or with an exception.
Ends(c, o) == op' = [op EXCEPT ![c] = o] /\ Rests(c)

Fails(c) == Ends(c, Idle)
Accepts(c, o) == Ends(c, [o EXCEPT !.kind = "accepted"])

BeginRead(c, kind) ==
  /\ c \in Readers /\ ~ Awaits(c)
  /\ Asks(c, Op(kind), "get_entities", 0)
  /\ UNCHANGED <<running, readVars, writeVars>>

\* The mutations that progress still lacks.
Due(done) == SelectSeq(Mutations, LAMBDA m : m \notin done)

BeginWrite(r) ==
  /\ ~ Awaits(Publisher) /\ Due(progress[r]) # <<>>
  /\ Asks(Publisher, Op("write"), Head(Due(progress[r])), r)
  /\ UNCHANGED <<running, readVars, writeVars>>

-----------------------------------------------------------------------------
(* The tools: what DataHub does and answers (external).                    *)

\* Lineage is asked for page by page only until the total is known.
Limit(c, l, at) == IF l = "schema" \/ at = 0 THEN PageSize ELSE op[c].total

\* The pages a list may be answered with from an offset on: at most the
\* limit, perhaps less, with the total of this moment.
Pages(c, l, at) ==
  LET list == catalogue[l] IN
  {[items |-> SubSeq(list, at + 1, at + k), total |-> Len(list)] :
     k \in {n \in 0..Limit(c, l, at) : at + n <= Len(list)}}

\* People change the catalogue at any time.
Edit ==
  /\ edits < MaxEdits /\ edits' = edits + 1
  /\ \E cat \in Catalogues \ {catalogue} :
       /\ catalogue' = cat
       /\ op' = [c \in Callers |->
                   IF Awaits(c)
                   THEN [op[c] EXCEPT !.versions = @ \cup {cat}]
                   ELSE op[c]]
  /\ UNCHANGED <<runnerVars, writeVars>>

\* The document and the tag are written once for all; the properties name
\* the run that wrote them last.
WritesProperties(call) == call.tool = "add_structured_properties"

\* A mutation takes effect while its call runs, before it is answered.
Lands(job) ==
  /\ WritesProperties(job.call) /\ job.call \notin written
  /\ written' = written \cup {job.call}
  /\ lastRun' = job.call.arg /\ overtaken' = FALSE
  /\ UNCHANGED <<runnerVars, op, readVars, late, progress, confirmed>>

\* A request takes effect that the client gave up long ago.
LandsLate(r) ==
  /\ r \in late /\ late' = late \ {r}
  /\ lastRun' = r /\ overtaken' = TRUE
  /\ UNCHANGED <<runnerVars, op, readVars, written, progress, confirmed>>

-----------------------------------------------------------------------------
(* Reading.                                                                *)

\* The list that a read takes after this one.
NextList ==
  [l \in Lists \ {"assets"} |-> CASE l = "schema"      -> "upstreams"
                                [] l = "upstreams"   -> "downstreams"
                                [] l = "downstreams" -> "assets"]

\* _normalize_schema_fields(), and the requested field is one of them.
SchemaOK(c, o) ==
  /\ o.read["schema"] # <<>> /\ IsInjective(o.read["schema"])
  /\ o.kind = "load" => Contains(o.read["schema"], Field)

\* _normalize_lineage_assets(): no relationship of a list is there twice.
ContextOK(o) == \A l \in Lists : IsInjective(o.read[l])

\* A list is complete: on to the next, or the schema was all.
ListRead(c, o, l) ==
  IF l = "schema" /\ ~ SchemaOK(c, o) THEN Fails(c)
  ELSE IF o.kind = "discover" THEN Accepts(c, o)
  ELSE IF l = "assets" THEN Asks(c, o, "get_dataset_queries", 0)
  ELSE Asks(c, [o EXCEPT !.list = NextList[l], !.total = 0], NextList[l], 0)

\* Fault: a page that is not full is believed to be the last.
LastPageShort(o, l) == Len(o.read[l]) % PageSize # 0 \/ Len(o.read[l]) = o.total

LastPage(o, l) == Len(o.read[l]) = o.total

\* Merged as far as it goes: the list is read, or the next page is due.
Merged(c, o, l) ==
  IF LastPage(o, l) THEN ListRead(c, o, l) ELSE Asks(c, o, l, Len(o.read[l]))

\* The total of the first page binds the others.
SameTotal(o, page) == page.total = o.total

\* A page arrives.  The first may be the whole list; after it a page must
\* bring something, agree on the total and not exceed it.  A lineage page
\* is believed or refused after the root identity is checked (get_entities,
\* marked 1, or 2 for a page that will be refused).
PageArrives(c, l, at, page) ==
  LET o == [op[c] EXCEPT !.read[l] = @ \o page.items,
                         !.total = IF at = 0 THEN page.total ELSE @]
      refused == \/ at > 0 /\ ~ SameTotal(op[c], page)
                 \/ page.items = <<>> /\ page.total > at
                 \/ Len(o.read[l]) > o.total
  IN IF l = "schema" THEN IF refused THEN Fails(c) ELSE Merged(c, o, l)
     ELSE Asks(c, IF refused THEN op[c] ELSE o, "get_entities", IF refused THEN 2 ELSE 1)

\* What a read does with the answer of its call.
ReadAnswered(c, call) ==
  \/ /\ call.tool = "get_entities"
     /\ CASE call.arg = 0 -> Asks(c, op[c], "schema", 0)
          [] call.arg = 1 -> Merged(c, op[c], op[c].list)
          [] call.arg = 2 -> Fails(c)
  \/ /\ call.tool \in Lists
     /\ \E page \in Pages(c, call.tool, call.arg) :
          PageArrives(c, call.tool, call.arg, page)
  \/ /\ call.tool = "get_dataset_queries"
     /\ IF ContextOK(op[c]) THEN Accepts(c, op[c]) ELSE Fails(c)

-----------------------------------------------------------------------------
(* Writing back.                                                           *)

\* record(): the mutation is saved with the progress, the next one is due.
WriteAnswered(call) ==
  LET r == call.arg
      done == progress[r] \cup {call.tool} IN
  /\ progress' = [progress EXCEPT ![r] = done]
  /\ confirmed' = IF WritesProperties(call) THEN r ELSE confirmed
  /\ IF Due(done) = <<>> THEN Ends(Publisher, Idle)
     ELSE Asks(Publisher, op[Publisher], Head(Due(done)), r)

-----------------------------------------------------------------------------
(* The worker.                                                             *)

StartCall ==
  /\ Start
  /\ confirmed' = IF WritesProperties(pending[Head(queue)])
                  THEN None ELSE confirmed
  /\ UNCHANGED <<op, readVars, lastRun, written, late, progress, overtaken>>

Mutating(job) == job.caller = Publisher

\* The worker is free for the next call.
Leaves(job) == running' = running \ {job} /\ written' = written \ {job.call}

\* The tool has done its work and answers.
Answer(job) ==
  /\ WritesProperties(job.call) => job.call \in written
  /\ Leaves(job)
  /\ IF ~ job.live
     THEN UNCHANGED <<pending, queue, op, progress, confirmed>>
     ELSE IF Mutating(job) THEN WriteAnswered(job.call)
     ELSE /\ ReadAnswered(job.caller, job.call)
          /\ UNCHANGED <<progress, confirmed>>
  /\ UNCHANGED <<readVars, lastRun, late, overtaken>>

\* A timeout or an error of transport: once more, or the operation fails.
RetryOrFail(c) ==
  IF MayRetry(c)
  THEN Submits(c, Retry(c)) /\ UNCHANGED op
  ELSE Fails(c)

\* The request goes on though nobody waits for its answer.
GivenUp(job) ==
  /\ WritesProperties(job.call) /\ job.call \notin written
  /\ job.call.arg \in LateRuns /\ late' = late \cup {job.call.arg}

\* The tool raises: it may have done its work, and when the client has timed
\* out its request may still do it.  An authorisation error and an answer
\* that is not about the request fail the operation at once.
Raise(job) ==
  /\ Leaves(job)
  /\ GivenUp(job) \/ UNCHANGED late
  /\ IF job.live THEN RetryOrFail(job.caller) \/ Fails(job.caller)
     ELSE UNCHANGED <<pending, queue, op>>
  /\ UNCHANGED <<readVars, lastRun, progress, confirmed, overtaken>>

\* wait_for() gives up on a call, queued or running.
Timeout(c) ==
  /\ Awaits(c)
  /\ running' = Abandoned(c)
  /\ RetryOrFail(c)
  /\ UNCHANGED <<readVars, writeVars>>

Next ==
  \/ \E c \in Callers : \/ BeginRead(c, "load") \/ BeginRead(c, "discover")
                        \/ Timeout(c)
  \/ \E r \in Runs : BeginWrite(r) \/ LandsLate(r)
  \/ StartCall \/ Edit
  \/ \E job \in running : Lands(job) \/ Answer(job) \/ Raise(job)

\* A timer fires: nothing is assumed of DataHub or of the worker.
Fairness == \A c \in Callers : WF_vars(Timeout(c))

Spec == Init /\ [][Next]_vars /\ Fairness

-----------------------------------------------------------------------------
(* Properties.                                                             *)

\* discover_schema() stops after the schema: list is then the first.
ReadLists(c) == IF op[c].list = "schema" THEN {"schema"} ELSE Lists

\* The properties that were confirmed last stand until the worker writes
\* others: no call that its caller has abandoned, by an earlier attempt or for
\* an earlier run, writes after the answer (AgentContextToolRunner).  Only a
\* request that the client itself gave up may overtake them, which the code
\* cannot prevent.
ConfirmedWriteStands == confirmed # None /\ ~ overtaken => lastRun = confirmed

\* What is accepted is whole.  A list that did not change during the read is
\* read exactly; of one that did, nothing is there twice or never was there,
\* and the count is that of one moment (_load_schema_fields, _load_lineage).
AcceptedReadIsWhole ==
  \A c \in Readers : op[c].kind = "accepted" =>
    \A l \in ReadLists(c) :
      LET was == {cat[l] : cat \in op[c].versions} IN
      /\ Cardinality(was) = 1 => op[c].read[l] \in was
      /\ IsInjective(op[c].read[l])
      /\ ToSet(op[c].read[l]) \subseteq UNION {ToSet(list) : list \in was}
      /\ \E list \in was : Len(op[c].read[l]) = Len(list)

\* Every operation comes to an end, whatever the tools do (_call).
OperationsEnd == \A c \in Callers : Awaits(c) ~> ~ Awaits(c)
=============================================================================
