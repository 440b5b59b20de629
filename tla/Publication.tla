----------------------------- MODULE Publication -----------------------------
(***************************************************************************)
(* PublicationService.approve and everything it calls                      *)
(* (apps/api/src/changesafe/publication/service.py), the publication       *)
(* ledger it checkpoints to, and the two external systems it writes to:    *)
(* GitHub (a branch, then a pull request) and DataHub (three mutations).   *)
(*                                                                         *)
(* Approvals take one global lock.  Each step below is what one approval   *)
(* does between two awaits that touch a durable store or an external       *)
(* system; the process may die between any two of them and come back with  *)
(* other settings.  The entry an approval works on is a local copy, ahead  *)
(* of the ledger by what has been done and not yet saved.                  *)
(***************************************************************************)
EXTENDS RunStore, FiniteSets

CONSTANTS
  Runs, Keys,       \* analysed runs, and the publication keys they hash to
  KeyOf,            \* [Runs -> Keys]: same change, commit and manifest, same key
  LiveKeys,         \* keys whose manifest was built from live context
  AgingRuns,        \* runs whose eligibility rests on warehouse evidence
  Clients,          \* concurrent callers of approve
  Repos, Servers,   \* GitHub destinations (repository, base), DataHub servers
  Configs,          \* settings a (re)started process may have
  MaxRestarts,      \* bound: crashes and restarts
  MaxPulls          \* bound: pull requests ever opened for one run

\* The settings publication depends on.  A sink is enabled or not apart from
\* the destination it is configured with.
Config == [github : BOOLEAN, datahub : BOOLEAN,
           repo : Repos \cup {None}, server : Servers \cup {None}]

ASSUME PublicationAssumption ==
  /\ KeyOf \in [Runs -> Keys]
  /\ LiveKeys \subseteq Keys
  /\ AgingRuns \subseteq Runs
  /\ None \notin Clients /\ None \notin Repos /\ None \notin Servers
  /\ None \notin Runs /\ None \notin {"retryable", "operator"}
  /\ Configs \subseteq Config
  /\ \A c \in Configs : /\ c.github  => c.repo # None
                        /\ c.datahub => c.server # None
  /\ MaxRestarts \in Nat /\ MaxPulls \in Nat

VARIABLES
  runs,       \* the rows of the runs table
  ledger,     \* the publication_ledger table, by idempotency key
  config,     \* settings of the running process
  lock,       \* holder of _approval_lock, or None
  ops,        \* ops[c]: the approval c is in the middle of, or None
  expired,    \* runs the current safety policy no longer accepts
  branches,   \* GitHub: <<run, repo>> whose branch exists
  opened,     \* GitHub: pull requests ever opened from a branch
  open,       \* GitHub: branches with an open pull request
  applied,    \* DataHub: <<key, server, mutation>> in effect
  restarts    \* crashes so far

world == <<branches, opened, open, applied>>
vars  == <<runs, ledger, config, lock, ops, expired, branches, opened, open,
           applied, restarts>>

-----------------------------------------------------------------------------
(* Records.                                                                *)

Mutations == {"save_document", "add_structured_properties", "add_tags"}

\* The order in which writeback() looks at its three mutations.
Earlier(m) ==
  CASE m = "save_document"             -> {}
    [] m = "add_structured_properties" -> {"save_document"}
    [] m = "add_tags"                  -> Mutations \ {"add_tags"}

Sites == Runs \X Repos

\* The label of a DataHubReceipt.
Label == {"not_written", "pending", "in_progress", "written"}

Receipt == [mode : {"live", "preview"}, branch : BOOLEAN, pull : Nat,
            writeback : Label, reused : BOOLEAN]

\* github_required and datahub_required are "repo # None" and "server # None";
\* pull = 0 stands for a null pull_request_url; writeback is None or the label
\* of the saved DataHubReceipt, done its mutations.
Entry == [owner : Runs, mode : {"live", "preview"},
          repo : Repos \cup {None}, server : Servers \cup {None},
          branch : BOOLEAN, pull : Nat,
          done : SUBSET Mutations, writeback : Label \cup {None},
          receipt : Receipt \cup {None}, completed : BOOLEAN]

Stage == {"reuse", "finish_reuse",
          "prepare", "save_preview",
          "publish", "branch", "save_branch", "pull", "save_pull",
          "writeback", "save_progress", "save_written", "seal", "complete",
          "fail", "fail_run"}

\* One approval in progress: the run, the state it was read in, the local copy
\* of the entry, whether the caller proved to be the owner, and the kind of
\* failure it is about to report.
Op == [run : Runs, seen : RunState, token : BOOLEAN, stage : Stage,
       entry : Entry, error : {"retryable", "operator", None}]

Row == [state : RunState, analysis : {"eligible"},
        publication : Receipt \cup {None},
        error : {"retryable", "operator", None}]

\* None is no value of a column.
ASSUME NoneAssumption == None \notin Receipt \cup Entry \cup Op \cup Label

TypeOK ==
  /\ runs \in [Runs -> Row]
  /\ ledger \in [Keys -> Entry \cup {None}]
  /\ config \in Configs
  /\ lock \in Clients \cup {None}
  /\ ops \in [Clients -> Op \cup {None}]
  /\ expired \in SUBSET AgingRuns
  /\ branches \in SUBSET Sites
  /\ opened \in [Sites -> Nat]
  /\ open \in SUBSET Sites
  /\ applied \in SUBSET (Keys \X Servers \X Mutations)
  /\ restarts \in Nat

-----------------------------------------------------------------------------
(* Intent, policy and destinations.                                        *)

\* _configured_intent: where a publication approved now would go.
ConfiguredIntent(r) ==
  LET live == KeyOf[r] \in LiveKeys /\ (config.github \/ config.datahub)
  IN  [mode   |-> IF live THEN "live" ELSE "preview",
       repo   |-> IF live /\ config.github  THEN config.repo   ELSE None,
       server |-> IF live /\ config.datahub THEN config.server ELSE None]

IntentOf(e) == [mode |-> e.mode, repo |-> e.repo, server |-> e.server]

NewEntry(r) ==
  LET intent == ConfiguredIntent(r)
  IN  [owner |-> r, mode |-> intent.mode,
       repo |-> intent.repo, server |-> intent.server,
       branch |-> FALSE, pull |-> 0, done |-> {}, writeback |-> None,
       receipt |-> None, completed |-> FALSE]

\* Fault: a resumed entry is bound to the settings of today.
EntryForRebound(r) ==
  LET k == KeyOf[r]
  IN  IF ledger[k] = None THEN NewEntry(r)
      ELSE [ledger[k] EXCEPT !.mode = NewEntry(r).mode,
                             !.repo = NewEntry(r).repo,
                             !.server = NewEntry(r).server]

\* The entry approve() works on: the one of the key, or a new one.
EntryFor(r) ==
  IF ledger[KeyOf[r]] = None THEN NewEntry(r) ELSE ledger[KeyOf[r]]

\* _require_current_policy: the recomputation agrees with the stored analysis
\* and nothing blocks; only the age of warehouse evidence changes with time.
PolicyHolds(r) == r \notin expired

\* Fault: a failed publication cannot be taken up again.
ApprovableOnce ==
  {"awaiting_approval", "preparing_preview", "publishing", "completed"}

Approvable ==
  {"awaiting_approval", "publication_failed", "preparing_preview",
   "publishing", "completed"}

\* Fault: whether the owner is needed is read off the settings of today.
NeedsOwnerNow(r, e) == ConfiguredIntent(r).mode = "live"

\* The owner's token is needed for what the entry e is bound to do.
NeedsOwner(r, e) == e.mode = "live"

\* Every check approve() makes before it changes anything.  A caller without
\* the owner's token, or a target outside the allowlist, has token FALSE.
Accepted(r, token) ==
  /\ PolicyHolds(r)
  /\ runs[r].state \in Approvable
  /\ LET existing == ledger[KeyOf[r]]
         entry    == EntryFor(r)
     IN  /\ existing # None /\ ~existing.completed => existing.owner = r
         /\ runs[r].state = "publishing" => entry.mode = "live"
         /\ runs[r].state = "preparing_preview" => entry.mode = "preview"
         /\ NeedsOwner(r, entry) => token
         /\ existing # None /\ existing.completed /\ existing.owner # r
              => IntentOf(existing) = ConfiguredIntent(r)

\* Fault: only the GitHub destination is compared.
DestinationMismatchGithub(e) == e.repo # None /\ e.pull = 0 /\ e.repo # config.repo

\* _destination_mismatch: a sink with work left is no longer where the entry
\* says it is.
DestinationMismatch(e) ==
  \/ e.repo # None /\ e.pull = 0 /\ e.repo # config.repo
  \/ e.server # None /\ e.writeback # "written" /\ e.server # config.server

\* Fault: a writeback that was started counts as written.
NextLiveStageStarted(e) ==
  IF e.repo # None /\ e.pull = 0
  THEN IF ~config.github THEN "fail" ELSE IF e.branch THEN "pull" ELSE "branch"
  ELSE IF e.server # None /\ e.writeback = None
  THEN IF config.datahub THEN "writeback" ELSE "fail"
  ELSE "seal"

\* Fault: a sink that has been switched off is skipped.
NextLiveStageSkipping(e) ==
  IF e.repo # None /\ e.pull = 0 /\ config.github
  THEN IF e.branch THEN "pull" ELSE "branch"
  ELSE IF e.server # None /\ e.writeback # "written" /\ config.datahub
  THEN "writeback" ELSE "seal"

\* The next thing _approve_live has to do for the entry e.
NextLiveStage(e) ==
  IF e.repo # None /\ e.pull = 0
  THEN IF ~config.github THEN "fail"
       ELSE IF e.branch  THEN "pull" ELSE "branch"
  ELSE IF e.server # None /\ e.writeback # "written"
  THEN IF config.datahub THEN "writeback" ELSE "fail"
  ELSE "seal"

-----------------------------------------------------------------------------
(* Steps of an approval.                                                   *)

At(c, stage) == ops[c] # None /\ ops[c].stage = stage

\* Fault: approvals do not exclude each other.
LockFreeAlways(c) == ops[c] = None

\* async with self._approval_lock, by a caller that is not in approve() yet.
LockFree(c) == lock = None /\ ops[c] = None

\* Go on at another stage with the entry e as the local copy.
Continue(c, stage, e) ==
  ops' = [ops EXCEPT ![c] = [@ EXCEPT !.stage = stage, !.entry = e]]

\* Leave approve(): return or raise, and release the lock.
Leave(c) ==
  /\ ops' = [ops EXCEPT ![c] = None]
  /\ lock' = None

Fail(c, error) ==
  ops' = [ops EXCEPT ![c] = [@ EXCEPT !.stage = "fail", !.error = error]]

\* transition(), given what the caller passes.
MoveRun(r, to, given) ==
  /\ MayMove(runs[r], to)
  /\ runs' = [runs EXCEPT ![r] = Moved(runs[r], to, given)]

Save(k, e) == ledger' = [ledger EXCEPT ![k] = e]

Begin(c, r, token, stage, e) ==
  /\ lock' = c
  /\ ops' = [ops EXCEPT ![c] =
       [run |-> r, seen |-> runs[r].state, token |-> token, stage |-> stage,
        entry |-> e, error |-> None]]

\* approve() on a key that is not completed: claim it, or take it up again.
BeginPublication(c, r, token) ==
  /\ LockFree(c)
  /\ Accepted(r, token)
  /\ LET e == EntryFor(r)
     IN  /\ ~e.completed
         /\ Save(KeyOf[r], e)
         /\ Begin(c, r, token,
                  IF e.mode = "preview" THEN "prepare" ELSE "publish", e)
  /\ UNCHANGED <<runs, config, expired, world, restarts>>

\* approve() on a completed key, by a run that is not completed itself: one
\* that died before its last transition, or another run of the same key.
BeginReuse(c, r, token) ==
  /\ LockFree(c)
  /\ Accepted(r, token)
  /\ LET e == ledger[KeyOf[r]]
     IN  /\ e # None
         /\ e.completed
         /\ runs[r].state # "completed"
         /\ Begin(c, r, token,
                  IF runs[r].state \in {"preparing_preview", "publishing"}
                  THEN "finish_reuse" ELSE "reuse", e)
  /\ UNCHANGED <<runs, ledger, config, expired, world, restarts>>

ReuseTransition(c) ==
  LET op == ops[c]
  IN  /\ At(c, "reuse")
      /\ MoveRun(op.run,
                 IF op.entry.receipt.mode = "preview" THEN "preparing_preview"
                                                      ELSE "publishing",
                 Nothing)
      /\ Continue(c, "finish_reuse", op.entry)
      /\ UNCHANGED <<ledger, config, lock, expired, world, restarts>>

FinishReuse(c) ==
  LET op == ops[c]
  IN  /\ At(c, "finish_reuse")
      /\ MoveRun(op.run, "completed",
                 [Nothing EXCEPT !.publication =
                    [op.entry.receipt EXCEPT !.reused = TRUE]])
      /\ Leave(c)
      /\ UNCHANGED <<ledger, config, expired, world, restarts>>

PreparePreview(c) ==
  LET op == ops[c]
  IN  /\ At(c, "prepare")
      /\ IF op.seen = "preparing_preview" THEN UNCHANGED runs
         ELSE MoveRun(op.run, "preparing_preview",
                      ClearingError(op.seen = "publication_failed"))
      /\ Continue(c, "save_preview", op.entry)
      /\ UNCHANGED <<ledger, config, lock, expired, world, restarts>>

SavePreview(c) ==
  LET op == ops[c]
      e  == [op.entry EXCEPT
               !.writeback = "not_written",
               !.receipt = [mode |-> "preview", branch |-> FALSE, pull |-> 0,
                            writeback |-> "not_written", reused |-> FALSE],
               !.completed = TRUE]
  IN  /\ At(c, "save_preview")
      /\ Save(KeyOf[op.run], e)
      /\ Continue(c, "complete", e)
      /\ UNCHANGED <<runs, config, lock, expired, world, restarts>>

\* _approve_live up to its first external call.  transition() reads the row back
\* after its commit; when that fails the run has moved and approve() raises.
StartPublishing(c) ==
  LET op == ops[c]
      stage == IF DestinationMismatch(op.entry) THEN "fail"
               ELSE NextLiveStage(op.entry)
  IN  /\ At(c, "publish")
      /\ IF op.seen = "publishing" THEN UNCHANGED runs
         ELSE MoveRun(op.run, "publishing",
                      ClearingError(op.seen = "publication_failed"))
      /\ \/ /\ IF stage = "fail" THEN Fail(c, "operator")
               ELSE Continue(c, stage, op.entry)
            /\ UNCHANGED lock
         \/ op.seen # "publishing" /\ Leave(c)
      /\ UNCHANGED <<ledger, config, expired, world, restarts>>

-----------------------------------------------------------------------------
(* External calls.  An answer may be lost after the effect took place.     *)

\* ensure_branch finds the branch of this run and key, or creates it.
EnsureBranch(c) ==
  LET op == ops[c]
  IN  /\ At(c, "branch")
      /\ branches' = branches \cup {<<op.run, config.repo>>}
      /\ \/ Continue(c, "save_branch", [op.entry EXCEPT !.branch = TRUE])
         \/ \E error \in {"retryable", "operator"} : Fail(c, error)
      /\ UNCHANGED <<runs, ledger, config, lock, expired, opened, open,
                     applied, restarts>>

\* Fault: open pull requests are not looked up.
OpenedAfterBlind(site) == [opened EXCEPT ![site] = @ + 1]

\* The pull requests of a branch after it has been ensured to have an open one.
OpenedAfter(site) ==
  IF site \in open THEN opened ELSE [opened EXCEPT ![site] = @ + 1]

\* ensure_pull_request answers with the open pull request of the branch, or
\* opens one.
EnsurePull(c) ==
  LET op   == ops[c]
      site == <<op.run, config.repo>>
      now  == OpenedAfter(site)
  IN  /\ At(c, "pull")
      /\ opened' = now
      /\ open' = open \cup {site}
      /\ \/ Continue(c, "save_pull", [op.entry EXCEPT !.pull = now[site]])
         \/ \E error \in {"retryable", "operator"} : Fail(c, error)
      /\ UNCHANGED <<runs, ledger, config, lock, expired, branches, applied,
                     restarts>>

\* Fault: the mutations do not wait for each other.
DueInAnyOrder(e, m) == m \notin e.done

\* The first mutation the progress does not list is the one to apply.
Due(e, m) == m \notin e.done /\ Earlier(m) \subseteq e.done

\* Fault: the progress lists the last mutation only.
ProgressForgets(e, m) == [e EXCEPT !.writeback = "in_progress", !.done = {m}]

\* record(): the receipt in progress after mutation m.
Progress(e, m) == [e EXCEPT !.writeback = "in_progress", !.done = @ \cup {m}]

\* writeback() applies the first mutation its progress does not list.
Mutate(c, m) ==
  LET op == ops[c]
  IN  /\ At(c, "writeback")
      /\ Due(op.entry, m)
      /\ applied' = applied \cup {<<KeyOf[op.run], config.server, m>>}
      /\ \/ Continue(c, "save_progress", Progress(op.entry, m))
         \/ \E error \in {"retryable", "operator"} : Fail(c, error)
      /\ UNCHANGED <<runs, ledger, config, lock, expired, branches, opened,
                     open, restarts>>

\* Nothing is left to apply: writeback() relabels its receipt.
Written(c) ==
  LET op == ops[c]
  IN  /\ At(c, "writeback")
      /\ op.entry.done = Mutations
      /\ Continue(c, "save_written", [op.entry EXCEPT !.writeback = "written"])
      /\ UNCHANGED <<runs, ledger, config, lock, expired, world, restarts>>

\* A call that fails before it has any effect: refused, unreachable, timed out.
CallFails(c) ==
  /\ \E stage \in {"branch", "pull", "writeback"} : At(c, stage)
  /\ \E error \in {"retryable", "operator"} : Fail(c, error)
  /\ UNCHANGED <<runs, ledger, config, lock, expired, world, restarts>>

-----------------------------------------------------------------------------
(* Checkpoints, receipts and failures.                                     *)

\* save_publication of what the local copy has gained.
Checkpoint(c) ==
  LET op == ops[c]
      \* where _approve_live goes on once the checkpoint is durable
      next == CASE op.stage = "save_branch"   -> "pull"
                [] op.stage = "save_progress" -> "writeback"
                [] OTHER                      -> NextLiveStage(op.entry)
  IN  /\ \E stage \in {"save_branch", "save_pull", "save_progress",
                       "save_written"} : At(c, stage)
      /\ Save(KeyOf[op.run], op.entry)
      /\ IF next = "fail" THEN Fail(c, "operator")
         ELSE Continue(c, next, op.entry)
      /\ UNCHANGED <<runs, config, lock, expired, world, restarts>>

\* Fault: the label of a writeback that was not required stays null.
FinalLabelOptional(e) == e.writeback

FinalLabel(e) == IF e.writeback = None THEN "not_written" ELSE e.writeback

Sealed(e) ==
  [e EXCEPT !.writeback = FinalLabel(e),
            !.receipt = [mode |-> "live", branch |-> e.branch, pull |-> e.pull,
                         writeback |-> FinalLabel(e), reused |-> FALSE],
            !.completed = TRUE]

\* Fault: the run is completed on a receipt that is not in the ledger yet.
SealUnsaved(c) ==
  /\ At(c, "seal")
  /\ Continue(c, "complete", Sealed(ops[c].entry))
  /\ UNCHANGED <<runs, ledger, config, lock, expired, world, restarts>>

\* The final receipt: the entry is completed before the run is.
Seal(c) ==
  /\ At(c, "seal")
  /\ Save(KeyOf[ops[c].run], Sealed(ops[c].entry))
  /\ Continue(c, "complete", Sealed(ops[c].entry))
  /\ UNCHANGED <<runs, config, lock, expired, world, restarts>>

Complete(c) ==
  LET op == ops[c]
  IN  /\ At(c, "complete")
      /\ MoveRun(op.run, "completed",
                 [Nothing EXCEPT !.publication = op.entry.receipt])
      /\ Leave(c)
      /\ UNCHANGED <<ledger, config, expired, world, restarts>>

\* The partial receipt _fail stores with the entry and with the run.
Partial(e) ==
  [mode |-> "live", branch |-> e.branch, pull |-> e.pull,
   writeback |-> IF e.writeback = None THEN "pending" ELSE e.writeback,
   reused |-> FALSE]

FailEntry(c) ==
  LET op == ops[c]
      e  == [op.entry EXCEPT !.receipt = Partial(op.entry)]
  IN  /\ At(c, "fail")
      /\ Save(KeyOf[op.run], e)
      /\ Continue(c, "fail_run", e)
      /\ UNCHANGED <<runs, config, lock, expired, world, restarts>>

FailRun(c) ==
  LET op == ops[c]
  IN  /\ At(c, "fail_run")
      /\ MoveRun(op.run, "publication_failed",
                 [Nothing EXCEPT !.publication = Partial(op.entry),
                                 !.error = op.error])
      /\ Leave(c)
      /\ UNCHANGED <<ledger, config, expired, world, restarts>>

\* The store raises before it commits.  Inside the handlers of the branch and
\* of the writeback this is one more failure, reported with the entry as it was
\* last saved; elsewhere the exception leaves approve().
StoreError(c) ==
  /\ ops[c] # None
  /\ ops[c].stage \notin {"branch", "pull", "writeback"}
  /\ IF ops[c].stage \in {"save_branch", "save_progress", "save_written"}
     THEN /\ ops' = [ops EXCEPT ![c] =
               [@ EXCEPT !.stage = "fail", !.error = "retryable",
                         !.entry = ledger[KeyOf[ops[c].run]]]]
          /\ UNCHANGED lock
     ELSE Leave(c)
  /\ UNCHANGED <<runs, ledger, config, expired, world, restarts>>

-----------------------------------------------------------------------------
(* The process and its surroundings.                                       *)

\* The process dies: in-memory approvals and the lock are gone; it comes back,
\* maybe with other settings.
Restart ==
  /\ restarts < MaxRestarts
  /\ restarts' = restarts + 1
  /\ lock' = None
  /\ ops' = [c \in Clients |-> None]
  /\ config' \in Configs
  /\ UNCHANGED <<runs, ledger, expired, world>>

\* Warehouse evidence outlives its maximum age.
EvidenceExpires(r) ==
  /\ r \in AgingRuns \ expired
  /\ expired' = expired \cup {r}
  /\ UNCHANGED <<runs, ledger, config, lock, ops, world, restarts>>

\* Somebody merges or closes a pull request on GitHub.
ClosePull(site) ==
  /\ site \in open
  /\ opened[site] < MaxPulls
  /\ open' = open \ {site}
  /\ UNCHANGED <<runs, ledger, config, lock, ops, expired, branches, opened,
                 applied, restarts>>

-----------------------------------------------------------------------------

Init ==
  /\ runs = [r \in Runs |-> [state |-> "awaiting_approval",
                             analysis |-> "eligible", publication |-> None,
                             error |-> None]]
  /\ ledger = [k \in Keys |-> None]
  /\ config \in Configs
  /\ lock = None
  /\ ops = [c \in Clients |-> None]
  /\ expired = {}
  /\ branches = {} /\ open = {} /\ applied = {}
  /\ opened = [s \in Sites |-> 0]
  /\ restarts = 0

Call(c) ==
  EnsureBranch(c) \/ EnsurePull(c) \/ (\E m \in Mutations : Mutate(c, m))

\* What an approval in progress does next, whatever comes of it.
Step(c) ==
  \/ ReuseTransition(c) \/ FinishReuse(c)
  \/ PreparePreview(c) \/ SavePreview(c)
  \/ StartPublishing(c) \/ Call(c) \/ Written(c) \/ CallFails(c)
  \/ Checkpoint(c) \/ Seal(c) \/ Complete(c)
  \/ FailEntry(c) \/ FailRun(c) \/ StoreError(c)

Next ==
  \/ \E c \in Clients, r \in Runs, token \in BOOLEAN :
       BeginPublication(c, r, token) \/ BeginReuse(c, r, token)
  \/ \E c \in Clients : Step(c)
  \/ Restart
  \/ \E r \in Runs : EvidenceExpires(r)
  \/ \E s \in Sites : ClosePull(s)

Spec == Init /\ [][Next]_vars

\* The event loop runs every approval on; external calls have timeouts.
FairSpec == Spec /\ \A c \in Clients : WF_vars(Step(c))

\* The owner of an incomplete publication approves again after every failure.
OwnerResumes(c) ==
  \E k \in Keys : /\ ledger[k] # None
                 /\ BeginPublication(c, ledger[k].owner, TRUE)

RecoverySpec == FairSpec /\ \A c \in Clients : SF_vars(OwnerResumes(c))
-----------------------------------------------------------------------------
(* Safety.                                                                 *)

\* A run is completed only when its key is, and with the receipt the ledger
\* holds for that key, whether the approval ran through or was picked up after
\* a crash or by another run (_reuse_completed_receipt).
CompletedRunHasSealedReceipt ==
  \A r \in Runs : runs[r].state = "completed" =>
    LET e == ledger[KeyOf[r]]
    IN  /\ e # None /\ e.completed
        /\ runs[r].publication # None
        /\ [runs[r].publication EXCEPT !.reused = FALSE] = e.receipt

\* A final receipt tells the truth: the branch and pull request it names are in
\* the repository the approval was bound to, every mutation is in effect on the
\* DataHub server it was bound to, and no sink that was required is missing.
ReceiptIsTruthful ==
  \A k \in Keys : ledger[k] # None /\ ledger[k].completed =>
    LET e == ledger[k]
    IN  /\ e.receipt # None /\ e.receipt.mode = e.mode
        /\ e.receipt.branch = (e.repo # None)
        /\ e.receipt.branch => <<e.owner, e.repo>> \in branches
        /\ (e.receipt.pull > 0) = (e.repo # None)
        /\ e.repo # None => e.receipt.pull <= opened[<<e.owner, e.repo>>]
        /\ (e.receipt.writeback = "written") = (e.server # None)
        /\ e.server # None =>
             \A m \in Mutations : <<k, e.server, m>> \in applied

\* Nothing is ever done at a destination other than the one the ledger bound
\* when the key was first approved, whatever the settings were changed to since;
\* a preview has no effect anywhere.
EffectsOnlyWhereBound ==
  /\ \A s \in Sites : s \in branches \/ opened[s] > 0 =>
       LET e == ledger[KeyOf[s[1]]]
       IN  e # None /\ e.owner = s[1] /\ e.repo = s[2]
  /\ \A a \in applied : ledger[a[1]] # None /\ ledger[a[1]].server = a[2]

\* Live work is under way only for a caller that proved to be the owner, also
\* when it resumes a publication somebody else started.
LiveWorkIsAuthorized ==
  \A c \in Clients : ops[c] # None /\ ops[c].entry.mode = "live" => ops[c].token

\* An incomplete entry always has an owner that may still be approved: a crash
\* or a failure at any step leaves the run in a state approve() accepts and
\* does not find in conflict with the mode of the entry.
OwnerCanResume ==
  \A k \in Keys : ledger[k] # None /\ ~ledger[k].completed =>
    LET r == ledger[k].owner
    IN  /\ KeyOf[r] = k
        /\ runs[r].state \in
             IF ledger[k].mode = "live"
             THEN {"awaiting_approval", "publishing", "publication_failed"}
             ELSE {"awaiting_approval", "preparing_preview"}

\* DataHub sees the decision document before the dataset points at it, and both
\* before the tag: a mutation is in effect only if those before it are
\* checkpointed, so a resumed writeback cannot leave a gap.
MutationsInOrder ==
  \A a \in applied : Earlier(a[3]) \subseteq ledger[a[1]].done

-----------------------------------------------------------------------------
(* What the documentation says and the code does not do.                   *)

\* docs/architecture.md: "Transitional runs whose ledger already completed are
\* recovered without replaying external mutations."  approve() asks for the
\* current policy, and for the current settings of a run that is not the owner,
\* before it looks for the completed receipt.
TransitionalRunRecovers ==
  \A r \in Runs :
    /\ lock = None
    /\ runs[r].state \in {"preparing_preview", "publishing"}
    /\ ledger[KeyOf[r]] # None /\ ledger[KeyOf[r]].completed
    => Accepted(r, TRUE)

\* "Run does not satisfy the current safety policy; submit a new analysis.": once
\* the owner of an incomplete publication is told so, a newer analysis of the
\* same change can be approved.  approve() wants the original run.
ResubmittedRunIsAccepted ==
  \A r \in Runs :
    LET e == ledger[KeyOf[r]]
    IN  /\ lock = None
        /\ e # None /\ ~e.completed /\ e.owner \in expired
        /\ runs[r].state = "awaiting_approval" /\ PolicyHolds(r)
        => Accepted(r, TRUE)

-----------------------------------------------------------------------------
(* What no step may do.                                                    *)

\* A sealed entry is never rewritten, and a completed run never moves or
\* changes its receipt.
SealedForEver ==
  [][/\ \A k \in Keys : ledger[k] # None /\ ledger[k].completed
                           => ledger'[k] = ledger[k]
     /\ \A r \in Runs : runs[r].state = "completed" => runs'[r] = runs[r]
    ]_vars

\* The entry new has the owner and the intent of old, and every checkpoint.
Extends(new, old) ==
  /\ new.owner = old.owner
  /\ new.mode = old.mode /\ new.repo = old.repo /\ new.server = old.server
  /\ old.branch => new.branch
  /\ old.pull > 0 => new.pull = old.pull
  /\ old.done \subseteq new.done
  /\ old.writeback = "written" => new.writeback = "written"

\* A save never drops a checkpoint or rebinds an entry, failures included.
CheckpointsOnlyGrow ==
  [][\A k \in Keys : ledger[k] # None =>
       ledger'[k] # None /\ Extends(ledger'[k], ledger[k])]_vars

\* A pull request is opened only where none is open, and never again once the
\* ledger names one: a lost answer or a crash before the checkpoint cannot
\* duplicate it.
NoDuplicatePull ==
  [][\A s \in Sites : opened'[s] # opened[s] =>
       /\ s \notin open
       /\ ledger[KeyOf[s[1]]].pull = 0]_vars

\* The promise of an approval, without its steps.
Contract == INSTANCE PublicationContract WITH
  claim     <- [k \in Keys |-> IF ledger[k] = None THEN None
                  ELSE [owner |-> ledger[k].owner, mode |-> ledger[k].mode,
                        repo |-> ledger[k].repo, server |-> ledger[k].server]],
  sealed    <- [k \in Keys |-> IF ledger[k] = None \/ ~ledger[k].completed
                               THEN None ELSE ledger[k].receipt],
  delivered <- [r \in Runs |-> IF runs[r].state = "completed"
                               THEN runs[r].publication ELSE None]

\* None is no claim: a key without an entry is told from a claimed one.
ASSUME ClaimAssumption == None \notin Contract!Claims

\* Publication implements the contract: keys are claimed once and sealed once,
\* and runs are completed with the receipt of their key only.
ImplementsContract == Contract!Spec

-----------------------------------------------------------------------------
(* Liveness.                                                               *)

Stumbles == \E c \in Clients : FailEntry(c) \/ StoreError(c)

\* Whatever failed or was interrupted on the way, an owner who keeps resuming a
\* publication gets it completed once GitHub, DataHub and the store stop failing,
\* unless its evidence expires: no checkpoint, no failure, no other approval and
\* no change of the settings leads into a dead end.
ResumedIsSealed ==
  <>[][~Stumbles]_vars =>
    \A k \in Keys : ledger[k] # None ~>
       ledger[k] # None /\ (ledger[k].completed \/ ledger[k].owner \in expired)
=============================================================================
