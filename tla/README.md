# ChangeSafe: specification, model checking and proofs

ChangeSafe analyses a proposed change to a data field, asks an accountable
owner, and publishes the approved change as a GitHub pull request and a
decision record in DataHub. This directory holds TLA+ specifications of the
service (`src/apps/api/src/changesafe/`), the TLC configurations that check them
on small instances, and TLAPS proofs for every value of the constants.
`PROJECT.json` maps each definition to the lines it stands for, and lists runs,
mutants (plausible bugs, written beside the definition they would replace, that
each property is shown to catch), hazards, findings and theorems.

## 1. Inventory

Paths are relative to `src/apps/api/src/changesafe/` unless they say otherwise.

| Component | State it keeps | Operations | Interacts with | What makes it correct |
|---|---|---|---|---|
| Run store, `store.py` | SQLite: `runs`, `run_events`, `publication_ledger`, `llm_usage` | `create`, `transition`, `events`, `get/save_publication`, `record/release` LLM usage | everybody; each call is one transaction | the state machine `ALLOWED_TRANSITIONS`; event sequence without gaps |
| Orchestrator, `orchestrator.py` | in memory: tasks, cancelled validations, fallback lock | `start`, `analyze`, `continue_with_snapshot`, `wait_for_idle` | store, context, generator, warehouse | only justified analyses reach the owner; no run is forgotten; nothing outlives shutdown |
| Publication service, `publication/service.py` | in memory: approval lock; durable: ledger entries | `approve` (preview, live, reuse, fail) | store, GitHub, DataHub | no effect twice, elsewhere or unauthorised; receipts tell the truth; every failure can be resumed |
| GitHub publisher, `publication/github.py` | none; branch and pull request on GitHub | `ensure_branch`, `ensure_pull_request` | GitHub REST | idempotent under lost answers |
| DataHub context, `context/live.py` | one worker thread with a FIFO queue | `load`, `discover_schema`, `writeback` | DataHub tools | pages merge consistently; writeback resumes where it stopped |
| Warehouse, `warehouse/*.py` | adapter lock, connection in a worker thread | `validate`, `close` | Snowflake | read only; complete evidence or a failed check |
| Policy, `policy.py` | none | `evaluate_approval_policy` | orchestrator, publication | no unsafe evidence passes, boundaries of age |
| Risk, impact, types, `risk.py`, `impact.py`, `sql_types.py` | none | pure functions | orchestrator, publication | agree with each other and with what types can hold |
| Verification, generation, `verification.py`, `generation/` | none | `generate_artifacts`, `verify_artifacts` | orchestrator | what is generated passes; what was edited and passes is still what was reviewed |
| API, `api.py` | rate limiter windows; open event streams | endpoints, lifespan | all of the above | a stream ends after the last event and only then; limits hold at window edges |
| Web client, following a run, `src/apps/web/src/hooks/useRun.ts` | run, events, busy, session storage | analyse, approve, continue, reconcile, recover | API | every race of stream, answer and reload ends in the durable state |
| Web client, drafting a change, `src/apps/web/src/` (`useSchemaCatalog.ts`, `FieldCombobox.tsx`, `ChangeForm.tsx`) | draft, schema cache, text of the box | read a schema, choose, submit | API | what is submitted is what was shown |
| Replay, redaction, scripts, presentation | none | | | not modelled |
| Settings, `config.py` | environment | `Settings` | all | may differ after every restart |

The hard behaviours are crashes and restarts between a durable step and an
external effect, answers lost after the effect, configuration changed half way
through a publication, several runs sharing a publication key, timeouts that
leave work running in a thread, and reads that span two transactions. The
hazards in `PROJECT.json` name each at its line.

One process serves everything (`docs/architecture.md`, "single service
replica"), so an `asyncio.Lock` excludes every other caller, and in-memory state
dies with the process.

## 2. Modules

| Module | Models |
|---|---|
| `RunStore` | the state machine and the row operation `transition()` |
| `PublicationContract` | what approving promises: a key is claimed once, sealed once, runs complete with its receipt |
| `Publication` | `approve()` with the ledger, GitHub, DataHub, crashes, restarts, concurrency |
| `Analysis` | the orchestrator: task, fallback, warehouse timeout, shutdown, restart |
| `Lifecycle` | `Analysis` and `Publication` composed over one table of runs in one process |
| `EventStream` | the event log and the server-sent stream that polls it |
| `RunPage` | the page that follows a run, over `EventStream` |
| `SchemaForm` | the form that drafts a change: schema reads, field box, submission |
| `ToolRunner` | the one worker thread of the DataHub tools, timeouts and retries |
| `DataHub` | `load`, `discover_schema` and `writeback` over `ToolRunner` |
| `Warehouse` | the warehouse adapter: coroutine, thread, session |
| `GitHubBranch` | the GitHub publisher, request by request |
| `SqlTypes`, `Risk`, `Artifacts` | pure operators: types; score and impacts; generation and verification |
| `Decision` | one request through every gate, over the three above |
| `*Proofs` | theorems about the module of that name; `AnalysisProofs` also has those about `SqlTypes` and `Decision` |
| `MC*` | small instances for TLC |

### RunStore

`AllowedTransitions` is the table; `MayMove` is the check under `BEGIN
IMMEDIATE`; `Moved` computes the new row from what the caller passes (a column is
overwritten only by an argument that is given, an error is dropped by
`clear_error` and by `completed`). A transaction is atomic, so a module applies
`Moved` to its row in one step. The two modules with processes extend this one.

### Publication

State: `runs` and `ledger` are durable; `lock`, `ops` (what each approval is in
the middle of, with its local copy of the entry) and `config` are the process;
`branches`, `opened`, `open`, `applied` are GitHub and DataHub as they really
are; `expired` is the set of runs whose evidence has aged.

One action per stretch between two awaits on something durable or external.
`BeginPublication` and `BeginReuse` take the lock and make every check up to
the first save; `PreparePreview`, `SavePreview` are `_approve_preview`;
`StartPublishing`, `EnsureBranch`, `EnsurePull`, `Mutate`, `Written`,
`Checkpoint`, `Seal`, `Complete` are `_approve_live` and `writeback`;
`FailEntry`, `FailRun` are `_fail`; `ReuseTransition`, `FinishReuse` are
`_reuse_completed_receipt`; `CallFails` and `StoreError` are the ways a call
fails without an effect. A call with an effect may lose its answer. `Restart`
forgets the process and picks settings again; `EvidenceExpires` and `ClosePull`
are time and people.

Abstractions. A manifest is its key (`KeyOf`): runs of one change, commit and
manifest share it. A target outside the allowlist and a missing token are both
`token = FALSE`. Apart from the age of warehouse evidence the policy is the same
after a restart. Entries of an older schema without a bound intent
(`_bind_intent` on `publication_mode = None`) are left out. The save after
`writeback()` (service.py:572) repeats the one `writeback()` made last, and is
merged with it. An approval of a run that is already completed returns its
receipt and changes nothing, so it is no step. A failed call may have had its
effect, but has it before the failure is reported.

`PublicationContract` is the promise without the steps; `ImplementsContract`
maps ledger entries to claims, completed entries to seals and completed runs to
deliveries.

### Analysis

State: `runs` (durable), `tasks` and `query` (the coroutine of each run and the
warehouse validation it started, which after a timeout is `"abandoned"` and
runs on), `config` and `process` with what `wait_for_idle` is `awaited`, and the
history variables `recorded` (runs whose user knows of recorded evidence) and
`faults`. A task is at the transition it makes next; each action is that
transition and the computation behind it, which may raise. A transition is done,
refused (by the state machine or the database), or `"lost"`: committed, after
which reading the row back fails (store.py:570). `Decide` applies the policy to
what the analysis found and stores the result with the transition.

The evidence is reduced to what tells the outcomes apart: where the context came
from, whether it is about the right asset, whether verification passed, and what
the warehouse said. Evidence that claims a pass and is incomplete, bound to
another relation, mismatched or stale is one value, `"unusable"`. `under` in a
stored analysis is a history field. `Approve` stands for the first transition of
an approval; `Publication` has the rest. The endpoints run only while the process
is up: the server ends requests before the lifespan's shutdown part begins.
A run never shares anything with another but the process, so two runs suffice.

### Lifecycle

`A` and `P` are instances of the two modules with the same `runs`; the other
variables are each one's own. A restart is a restart of both, the server ends its
requests before the orchestrator shuts down, and an approval needs an analysis in
the row. Two things are left out here and kept in the parts: the snapshot, because
recorded evidence makes another manifest and so another key, and pull requests
that people close. The run states no type invariant, the proof does (`TypeInv`).

`Lifecycle` implements both parts. Publication takes a run that exists as awaiting its
approval; `PublicationView` shows it so until an approval has begun to work on it
(`Begun`), and from then on as it is. Analysis takes a run as its business up to
the approval; `AnalysisView` shows it as it is until then, and afterwards as the
first transition of the approval has left it. `ImplementsPublication` and
`ImplementsAnalysis` say that each view is a behaviour of that part.

### EventStream and RunPage

`log[r]` is the events of a run in order; a transition appends in its own
transaction, so the run's state is the last entry and a sequence number is a
position. The stream's round is the code's: read the run, read the events after
the cursor, yield them, and if the run read first was at its end read once more
and stop (`StreamStep`, `Ended`). A run may move between any two of these reads.

`RunPage` has one action per handler of `useRun`, or per continuation after an
`await`, since JavaScript runs one at a time and React commits the state that
a handler sets before the next event. Handlers that await hold a slot (`calls`);
a GET is answered with the run as it was at some moment between request and
answer. `page` has the hook's state and its refs (`activeRun`, `connections`,
reconciliation and its round), `session` the storage that survives a reload.
The stream may be lost at any time. The page frees its buttons when a stream or a
reconciliation settles it, so a user can leave a run, and start another, while a call
about the first is unanswered. No handler asks which run is shown when its answer
arrives (useRun.ts:274, 309): the late answer brings the old run back. `strayed` is the
history of that. A first page may find a run that an earlier page saved. Heartbeats, the
public configuration and its failure are left out. `page.lost` is the message that
asks the user to refresh; after it `activeRunId` stays set, so that continuing
from the snapshot does not subscribe again, which the properties except.
A stream may also close on a run that is resumed meanwhile; the client then
uses its one reconnect.

### SchemaForm

State: `draft` and `source`; the hook's reads (`requests`, `current`, `asked`,
`cache`, `result`); the `box`, whose text is its own; `committed` of the form;
and the history variables `picked` and `sent`. Names are compared without the trimming
and case folding of the code, and the mode is automatic, where recorded fields may
be asked for. The reset of `source` in a microtask is part of the change of
dataset. The draft the page starts with has a type that nobody chose, and which
the schema need not give its field; `SentIsShown` excepts it.

### ToolRunner and DataHub

A call waits in the queue of the one worker. When it times out asyncio cancels
it: a queued call never starts, a running one goes on with nobody waiting. A retry
is queued behind it. `DataHub` runs reads and writebacks of several callers over
it, against a catalogue that is edited between pages (external). An answer is
applied to the operation only if it is awaited; its effect on DataHub happens either
way. A mutation takes effect while its call runs (`Lands`). When the HTTP client gives
the request up (live.py:155-159, 8 s and no retry) the tool raises and the worker is
free, but the request may still be on its way: it is then in `late` and lands at any time
(`LandsLate`) or never, also after another run's properties were confirmed. The code
cannot prevent that, and `overtaken` is its history. A run may be resumed with the
mutations that an earlier process saved (`Saved`). The total a page reports is taken to be honest, malformed answers are
failures, and the allowlist is checked before (`Publication`). What normalising
can still do to a whole read is refuse it: duplicates, a missing field, another
root. A read whose list lost one item and gained another between two pages, so that
the total fits, is accepted with a list that never was; `AcceptedReadIsWhole`
says how far a torn read can go. Closing the runner is left out.

### Warehouse

`val` is the coroutine, `thread` the thread it cannot stop, `session` the
connection. `Cancelled` is what cancelling does: the coroutine keeps the lock until
its thread is done, however often it is cancelled. `facts` records what the
warehouse really saw and showed, `result` what the orchestrator was told. `Close`
comes after all tracked validations, as the lifespan waits for them first
(api.py:235-243). A refusal after connecting is taken for a failure of transport.

### GitHubBranch

Objects never change, so a commit is its content; `branch`, `base` and `pull` are
the references on GitHub. The publisher's steps are `Find`, `Build`, `CreateRef`,
`Reconcile`, `Verify`, `Save`, `List`, `Open`; any of them may fail, lose its
answer, or be given up and arrive late. People move the base and touch the branch.
A branch is compared with its own parent (`ComparedWith`), which is why a base that
moves does no harm. An approval that was refused is made again by its owner, so
the faults are bounded. What the model shows and the code accepts: a branch that people
delete after it was checkpointed and before the pull request is open is never
made again, and a checkpointed branch is not verified again; `RetryConverges`
excepts both by `meddled`. `Publication` takes the two calls for one step each.

### SqlTypes, Risk, Artifacts, Decision

`Canonical` and `TypeChangeKind` take a type as its name and parameters.
`ScoreChange` and `Impact` are `score_change` and `classify_impacts`. `Generate`
gives the files as columns, contracts, tests, lines and hashes; `Checks` are the
checks of `verify_artifacts` on them. That SQL and YAML text parse to these is
left to sqlglot and PyYAML; owners' names, and lines no check reads, are left out.

`Decision` takes one request through the orchestrator's steps. The bundle may be
edited, since the generator is a port; the clock may be set back, the settings and
the warehouse binding may change. `GatesAgree` is `RefusalsAgree`, `GeneratedPasses`,
`PlansExist`, and that nothing verified takes a column away (`PhaseOneKeeps`). Its
parts name the three places where a gate is stricter than the next, each on the safe side: a
name that contains a phrase of guidance or a reserved word makes the generator's
own bundle fail verification; a schema that spells the field in another case passes
the alignment check and is refused by generation; a type that `TRY_CAST` does
not know passes verification and has no warehouse plan. The words "personal" and
"privacy" raise the privacy impact but not the score. Evidence of a pass that is
incomplete cannot be constructed, so the policy's branch for it is in
`Analysis` only. `validate_read_only_query` and the text of the queries are not
modelled.

## 3. Runs

| Run | Instance | Shows |
|---|---|---|
| `publication` | 2 runs of 1 live key, 2 callers, 5 settings, 2 restarts, at most 2 pull requests per branch, evidence of one run expires | safety, action properties, refinement of the contract, and that an owner who resumes gets through; 374,130 states |
| `publication_recovery`, `publication_resubmit` | as `publication`, without fairness | violated as expected, see Findings |
| `analysis` | 2 runs, 4 settings (automatic, automatic with all evidence required, live only, replay), 1 restart, 1 store failure | safety, action properties, tasks and shutdowns end; 364,276 states |
| `lifecycle` | 2 runs of 1 key, 1 caller, 1 setting of each part, 1 restart, 1 store failure, evidence of one run expires | effects are justified by the decision, failed runs have none; 1,580,257 states |
| `run_page` | 2 runs (one analysed before and then published, one new that is offered the snapshot and then stays under way for ever), 2 unanswered calls, 1 opening on what was saved, connections and answers that are lost | the page against the log, and liveness; 571,480 states |
| `schema_form` | 2 datasets and a URN that is none, 2 fields, 2 types, 4 texts, 4 reads | the form against what it read; 1,348,836 states |
| `schema_form_pick` | as `schema_form` | violated as expected, see Findings |
| `datahub` | a publisher and a reader, 2 runs (one resumed), requests of one may be late, 2 catalogues of 3 fields and 2 relationships in pages of 2, 1 edit, 1 retry | writes that were given up, reads that were torn; 589,673 states |
| `warehouse` | 2 validations, counts 0 and 1 | one session, truthful answers; 4,028,900 states |
| `github_branch` | 1 artifact, 1 other file, 2 edits by people, 2 faults | exact branches, and retries that converge; 2,380,468 states |
| `decision` | 10 requests of every operation, contexts that differ in each thing a gate reads, 7 ways to edit the bundle, 2 bindings, evidence at most 1 old, time 0 to 2 | gates agree, and what is approved was reviewed; 355,370 states |

Why the bounds are enough.

* Two runs of one key and two callers give every conflict over a ledger entry (a
  third behaves as the second: the lock admits one). Two restarts allow a crash, a
  resumption under other settings, and a second crash with the first settings back.
  Two pull requests per branch suffice to see one opened twice. The settings cover
  both sinks, each alone, none, and each destination moved.
* Runs share only the process in `Analysis`; a computation that raises is not a store
  failure, so one store failure also hits the handler of a failed step. `Lifecycle`
  needs one fault for its race, and two runs for a key whose owner is another.
* Two unanswered calls in `RunPage` are one about a run that the user has left beside one
  about the run that is shown; two runs are the one that was left and the new one. One
  opening on a saved run, at the start or by a reload, and a stream that may be lost any
  number of times give every order of recovery, reconnect and reconciliation. The
  runs of the instance do not fail in publication: the page treats that end as the
  other one, save for the text of its message.
* Three fields in pages of two give a first, a last and a short page, of the two
  relationships either one page or two; one edit tears any read. Two writers suffice for
  a call that is late behind another's, and one run with a late request for one that
  lands on the other's properties.
* Counts of 0 and 1 tell empty, all-null and unsafe results apart. Two validations
  suffice for one that waits for the other's lock.
* Two edits are one of the base and one of the branch, or two of either; two
  faults a lost answer and a late request.
* Age and clock: evidence of age 0, 1 (the maximum) and 2, and dated in the future.

The properties, by what they relate:

* `CompletedRunHasSealedReceipt`, `ReceiptIsTruthful`, `EffectsOnlyWhereBound`,
  `MutationsInOrder`, `NoDuplicatePull`: what is recorded against what was really
  done in the outside world.
* `CheckpointsOnlyGrow`, `SealedForEver`, `ImplementsContract`: what no save may undo.
* `OwnerCanResume`, `ResumedIsSealed`: failures and crashes leave the ledger and the
  run in a pair of states from which retrying works.
* `LiveWorkIsAuthorized`: the owner's token, against the bound intent.
* `AwaitingIsJustified`, `AnalysisIsFinal`, `EffectsAreJustified`,
  `FailedRunsAreClean`: what the owner is asked to approve, that it stays what was
  decided, and that nothing else has effects, to the end of the pull request.
* `OneTaskPerRun` (no step starts a task beside another, and a task only goes forward),
  `NoRunForgotten`, `ClosedOnlyIdle`, `TasksEnd`, `ShutdownEnds`:
  the handlers against races and retries; nothing is left behind or runs on.
* `TimelineIsExact`, `StreamClosesAfterAll`, `NeverSilent`, `PageSettles`: a page
  against the server's log, through every way of losing the stream.
* `LoadingIsAsked`, `SentIsShown`: a form against the answers it waits for and showed.
* `ConfirmedWriteStands`, `AcceptedReadIsWhole`, `OperationsEnd`: what was confirmed or
  accepted against the abandoned calls and edits it raced with. Only a request that the
  client gave up may undo what was confirmed.
* `OneSession`, `AnswerIsTruthful`: a validation's answer against what its thread,
  which nobody can stop, has seen.
* `ReturnedBranchIsExact`, `RetryConverges`: the branch against its content and the
  requests that came late.
* `GatesAgree`, `ApprovedIsReviewed`: one gate against the next, and the approval
  against the generator's bundle, the clock and the binding.

Deadlock is not checked: every run, page and process may be done. `DataHub`,
`Decision` and `SchemaForm` state a type invariant that their runs leave out in favour
of the properties above; `Lifecycle` has one in its proof. Its two refinements are
proved (section 4) and are in no run: TLC agrees with them on the instance of
`lifecycle`, in several times the time of that run.

### Fairness

* `Publication`: each approval is weakly fair: the event loop runs every coroutine on,
  and GitHub and DataHub calls have timeouts (10 s and 8 s), so a call ends in an
  answer or a failure. `RecoverySpec` adds an owner who approves again after every
  failure (strong fairness, since approvals of others may hold the lock in between);
  `ResumedIsSealed` further assumes that failures stop and the evidence holds. An
  attempt under settings that moved a destination is such a failure.
* `Analysis`: each task is weakly fair, including its timeout but not the answer
  of the warehouse; so are the end of a cancelled validation, which the
  connector's own statement timeout bounds, and the gather of `wait_for_idle`.
* `RunPage`: the server polls, answers, and the browser handles what has arrived. Nothing
  is assumed of the runs: `PageSettles` excepts the page that follows a run which never
  reaches an end, and no other. Connections may be lost for ever, and users need do
  nothing.
* `DataHub`: only that a timeout fires (`asyncio.wait_for`); no tool need ever answer.
* `GitHubBranch`: an approval goes on, and one that failed is made again.
* `Warehouse`, `Decision`, `SchemaForm`, `Lifecycle`: safety only, none assumed.

## 4. Proofs

For `Publication` TLAPS proves the following for every choice of runs, keys,
clients, destinations, settings and bounds that satisfies `PublicationAssumption`,
`NoneAssumption` (`None` is no value of a column) and `ClaimAssumption` (nor a claim
of the contract).

* `TypeCorrect` (`PublicationProofs`): `Spec => []TypeOK`. `TypeOK` is not
  inductive: what an approval writes next depends on the stage it is at. `TypeInv`
  adds that an approval works only with sinks that are configured, that the stages
  which reuse or deliver a receipt hold a completed entry, that the key of a running
  approval has a ledger entry, and that a completed entry has its receipt.
* `InductiveInvariant` (`PublicationProofs`): `IInv`, which adds to `TypeInv` the
  coupling of the lock, the local copies and the ledger. Only the holder of the lock
  is in the middle of an approval (`Exclusive`); its copy extends the ledger entry of
  its key, equals it at the stages that deliver a receipt, and before them neither is
  completed; the stage agrees with the mode and with the checkpoints the copy holds
  (`Faithful`); a stored receipt is not marked reused, and an unfinished preview has
  not reached DataHub (`EntryOK`). `CompletedRunHasSealedReceipt` and
  `LiveWorkIsAuthorized` are conjuncts. Without the coupling a save could overwrite a
  sealed entry, and neither property would be preserved by a step on its own.
* `CompletedRunsAreSealed`, `LiveWorkAuthorized`: invariants that follow from `IInv`.
* `CheckpointsGrow`, `SealedStays`: action properties; under `IInv` every save
  extends what it replaces, and no step writes a completed entry or run.

* `EffectsInvariant` (`PublicationProofs`): `EInv`, which adds to `IInv` what
  relates the copies and the ledger to GitHub and DataHub. Everything an entry
  records has taken place where the entry is bound (`Backed`). A copy is ahead of the
  ledger only between an effect and its checkpoint, an approval acts only while its
  settings agree with the entry and in the order of `_approve_live`, and it seals only
  what is finished (`Grounded`, `InPlace`, `Finished`). An unclaimed key's runs have
  not been approved (`UnclaimedIsFresh`). The properties are not inductive
  without these: that a receipt is truthful at the end depends on each checkpoint
  having been taken after its effect, perhaps before a crash and under other settings.
* `ReceiptsAreTruthful`, `EffectsStayBound`, `OwnersCanResume`, `MutationsAreOrdered`:
  invariants that follow from `EInv`; `PullsAreUnique`: an action property under it.
* `ContractIsImplemented`: the refinement. Under `EInv` every step of `Publication` is a
  step of `PublicationContract` (a claim, a seal, a completion) or leaves its variables.

For `Analysis`, for any runs and settings (`AnalysisProofs`; `None` is no value of a
row, a task or a query):

* `Invariance`: `IInv` is `TypeOK`, `ClosedOnlyIdle` and, for each run, `Local`: the states
  the row may be in while the task is where it is (`Fits`, `Coupled`), what a row
  before and after the decision holds (`GoodRow`), that a query has its task, and that a
  row in a working state without a task has met a failure of the store or a
  restart. Runs meet only at the shutdown, so a step of one keeps `Local` of the others.
* `TypeCorrect`, `AwaitingRunsAreJustified`, `RunsAreNotForgotten`, `PortsCloseIdle` follow
  from it; `AnalysesAreFinal` and `TasksAreNotDoubled` are action properties under
  it. For the last, `NothingStarts` needs that a run with a task is neither without a row
  nor waiting for the snapshot, and `ProceedKeepsTask` follows the stages. `RunsAreNotForgotten` needs `Fits` because a run is also forgotten when the state
  machine refuses the transition to `failed`, and `Fits` shows that it refuses it
  of no run in a working state.

For `SchemaForm`, for any datasets, schemas and matching (`SchemaFormProofs`):

* `Invariance`: `IInv` says that the read whose answer counts is for the catalogue that
  is missing on the screen (`RequestsOK`), that the cache has only what was read
  (`CachedIsRead`, `ResultOK`), and that the field in the draft is blank, the preset or
  one of the catalogue on the screen (`ChosenOK`, `BoxOK`).
* `TypeCorrect`, `LoadingFormsAreServed`, `SubmissionsAreShown` follow from it.

For `DataHub` over `ToolRunner`, for any callers, catalogues, page size, edits and
retries (`DataHubProofs`; catalogues are lists of sequences, and `None` is not a call):

* `Invariance`: `IInv` has three parts. The worker has one call; while it is to write
  properties none are confirmed, and once they are written DataHub names its run unless
  a late request has landed since (`WriteInv`). A reader is in the queue once, and not
  while the worker has its call (`QueueInv`). A read that is under way (`Reading`) has all
  of the lists before the present one (`Done`) and of that one a beginning (`Part`),
  where a list that changed meanwhile only bounds what can have been read; its call is
  for what comes next, and its total is that of some moment (`FitsCall`). An edit
  adds a version, so each of these is monotone in the versions.
* `ConfirmedWritesStand` and `AcceptedReadsAreWhole` follow from it. The second does not
  use that a later page repeats the first total (`SameTotal`): a read which went on after
  the total changed would still have as many items as there were at its first page. The
  check makes such a read fail at once instead of later.

For `Warehouse`, for any number of validations and any counts (`WarehouseProofs`):

* `InductiveInvariant`: `IInv` follows one validation at a time (`ValidationOK`): what
  its thread has done, what the warehouse has seen of it, and what was answered. They
  meet only at the lock, so each step of one leaves what is known of the
  others (`OneMoves`); after `close()` nothing works (`ClosedOK`).
* `TypeCorrect`, `OneSessionAtATime`, `AnswersAreTruthful` follow from it. The last
  needs the invariant because an answer is given after the facts: it has to be known
  at each phase of the thread which facts its result can claim.

For `GitHubBranch`, for any repository, artifacts, strangers, edits and faults
(`GitHubBranchProofs`; `None` is not a commit):

* `InductiveInvariant`: what the branch points at is in its past (`BranchOK`); the
  commit that an attempt has in hand is exact while it is being made, has been on the
  branch while it is being verified, and is both once it is accepted (`AttemptOK`); a late request can
  only create an exact commit (`LateOK`). The last is needed because a request that
  was given up may create the branch that a retry finds.
* `TypeCorrect`, `ReturnedBranchesAreExact` follow from it.

For `RunPage` over `EventStream`, for any runs, transitions, connections, answers and
reloads (`RunPageProofs`; `None` is no value of the page):

* `Soundness`: in `Sound`, besides the types, whatever the page follows, shows, asks for
  or has saved exists in the log, at a position the log has reached, and a stream
  belongs to the run that is followed. Types need this already: a state is read off
  the log of a run, which must exist. `TypeCorrect` follows.
* `StreamsEndComplete`: `StreamClosesAfterAll`, an action property under `Sound`; the log
  may grow between any two reads of the stream.
* `PageNeverSilent`: `NeverSilent`, from `Awake`. A run that is followed has a stream, or
  is being asked for after one that broke, or the user was told (`Watched`); a run under
  way that is shown and not followed is explained (`Explained`); and the GET after
  a receipt can only answer with a completed run (`ReceiptsStand`), since it is the
  last answer that could leave the page without any of these.
* `TimelineExact`: `TimelineIsExact`, from `Exact`. Until the page has strayed its events are
  the beginning of the log of one run, the run that it shows and follows, and its stream
  goes on where they end. Nothing is assumed of the calls: an answer about another run
  than the one shown is what makes a page stray (`Strays`), and any other keeps `Exact`.

For `Lifecycle`, for any runs, keys, callers and settings that satisfy
`LifecycleAssumption` (`LifecycleProofs`; `None` is no value of a row, a task, an approval
or an entry):

* `Invariance`: `IInv` follows the row that the two components share. Only the decision of a
  task puts a run before its owner, and only with an analysis that justifies what
  may follow (`RunsAreJustified`, `TasksAreSound`). An approval moves the row to a state of
  `Working` before its first effect (`OpsAreSound`), and no transition leads from these to
  `failed`: from then on the task of the run, however late, cannot fail it.
  `EffectsAreBegun` puts the effects in GitHub and DataHub with the runs that own them.
* `EffectsJustified`, `FailedRunsClean` follow from it.
* `PublicationIsImplemented`, `AnalysisIsImplemented`: the two refinements of section 2.
  Under `IInv` every step of one component on a row is a step of the other, or nothing
  to it: a late failure of the analysis is refused in the database, and an approval
  is refused while its run is anything but decided. So what is proved of `Publication` and of
  `Analysis` alone holds of the service that has both. That last conclusion is drawn
  here and by no theorem: tlapm cannot cite a theorem through an instance.

`LifecycleAssumption` asks that, if any key is live, every setting of the analysis
starts from live context. A publication is live only if the context of its run was
(service.py:139), and the context is part of the manifest and so of the key
(service.py:276). With `KeyOf` a constant, a key cannot be live in one analysis of its run and
recorded in another; either no key is live or no process has recorded evidence.

For `SqlTypes`, for every pair of declared types (`AnalysisProofs`): a change that is
called widening loses no value, and one within strings, binaries or numbers that is
called incompatible may lose some (`WideningLosesNothing`); the lemmas bound what
`Canonical` returns.

For `Decision`, for any requests, edits, bindings, clocks and words (`AnalysisProofs`, as
`D`). `GatesAssumed` is `DecisionAssumption`, which an instance cannot bring along:

* `ApprovalsAreReviewed`: `ApprovedIsReviewed`. `GatesInv` says that a request which is
  called verified has passed every check on the bundle it still has. The bundle is then
  the generator's because the manifest has its hashes, over the request and the context
  that the alignment check compares. At the approval the policy reads the clock
  and the binding again (`NothingBlocks`), so what was set back or changed in between
  is a blocker.
* `GatesAreConsistent`: `RefusalsAgree` and `PlansExist`, two of the parts of `GatesAgree`.

Each step lemma has one case per action, and one per conjunct an action can disturb.
Model-checked only:

* liveness, which is out of the prover's reach (`ResumedIsSealed`, `TasksEnd`,
  `ShutdownEnds`, `PageSettles`, `OperationsEnd`, `RetryConverges`);
* `GeneratedPasses` and `PhaseOneKeeps` of `GatesAgree`: whether the generator's lists of
  columns, tests and lines pass the filters and counts of the checks takes induction
  over data, as do the type invariants of `Decision` and of `DataHub` (the mutations that are
  due are a `SelectSeq`). `ToolRunner` takes a caller off its queue with
  `RemoveFirst`, about which the provers can reason: a caller is in it at most once.

## 5. Findings

* `publication_recovery`: `docs/architecture.md:157` says that transitional runs
  whose ledger already completed are recovered. `approve()` asks for the current
  policy, and of another run's receipt for the current settings, before it looks
  for the completed entry, so such a run can be stuck in `publishing` for ever.
* `publication_resubmit`: a run refused for expired evidence is told to submit a
  new analysis; if it owns an incomplete publication, the new analysis (same
  change, same day, same key) is refused because the original run must resume.
* `schema_form_pick`: a field that is found by a part of its name and picked from the
  list is reported as not settled when the box loses the focus, since `close()`
  compares the text that was typed with the field that was picked; "Analyze" is
  then disabled although a field is selected and shown.

Known from the models, and each at the line that causes it:

* A run whose analysis is cut off by a restart, or whose first transition fails,
  keeps its intermediate state for ever (`NoRunForgotten` names both exceptions).
* `awaiting_approval` is committed, reading the row back fails (store.py:570), and an
  approval reads the run and saves its ledger entry (service.py:334) before
  the analysis handler moves the run to `failed`: the approval is then refused, and the
  incomplete entry belongs to a run that can never resume it, which blocks the key.
  `FailedRunsAreClean` says that nothing has been published by then.
* The page subscribes before it sends an approval (useRun.ts:273). If the server
  opens the stream first, the run still awaits approval and the stream ends at once;
  the page then settles and does not follow the publication until the approval is
  answered. `NeverSilent` holds because the answer is still to come.
* A late answer brings back a run that the user has left. The page keeps a live stream
  after a reconciling GET failed; the user continues from the snapshot; the stream
  reports a failure before that POST is answered, which frees the buttons; the user
  resets and analyses another run; the late answer (useRun.ts:309) then shows and follows the
  first run, from the last sequence number of the second. The answers of approve()
  (useRun.ts:274-282) do the same. `TimelineIsExact` excepts such a page (`strayed`)
  and holds of every other.
* A page that follows a run which a restart or a failed first transition has left under way
  (orchestrator.py:226, 235), also after a reload, is busy for ever with an open
  stream and is never told. `PageSettles` excepts it by name (`Stranded`).
* A DataHub request that the client gave up in the attempt of one run can land after
  another run's properties were confirmed, and DataHub then names the earlier run again
  (live.py:155-159). `ConfirmedWriteStands` excepts it (`overtaken`).

## 6. Plan

Left to do, in order of importance.

1. Proofs: what is left takes induction over data or is liveness (section 4).
2. `ensure_branch` and `ensure_pull_request` of `GitHubBranch`, and `writeback` of
   `DataHub`, refined to the single steps that `Publication` takes them for.
3. `Budget` (store.py): `create_app` configures none, so a model would be of a
   configuration that is not run; and `RateLimiter` (api.py), one function over one
   list of times.

Not modelled: replay files and redaction (a recorded file is one more outcome of
`Load`), loading settings, the transport of HTTP and the layout of its errors, the
optional model-backed generator, which `create_app` does not wire in, activity and
usage queries, the presentation components, and scripts.
