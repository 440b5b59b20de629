----------------------------- MODULE GitHubBranch -----------------------------
(***************************************************************************)
(* GitHubPublisher (publication/github.py) request by request: the branch  *)
(* of one run and one artifact manifest is found and verified, or built    *)
(* and created, and a pull request is found or opened.  Publication takes  *)
(* each of the two for a single step; this module looks inside.            *)
(*                                                                         *)
(* A request may be refused, its answer may be lost, and a request that    *)
(* was given up may still reach GitHub while a retry is under way.  The    *)
(* base branch moves, and people may push to the branch, delete it, or     *)
(* close the pull request.  Objects (blobs, trees, commits) never change   *)
(* once made; only references do.                                          *)
(***************************************************************************)
EXTENDS Naturals, Sequences

CONSTANTS
  None,
  ArtifactPaths,   \* the paths of the verified artifacts
  OtherPaths,      \* every other path of the repository
  Bases,           \* the trees the base branch may have
  Strangers,       \* the commits people may point the branch at
  MaxEdits,        \* bound: what people do
  MaxFaults        \* bound: requests that fail

\* The content of a path: none, somebody's, or the verified artifact's.
Content == {"absent", "theirs", "verified"}
Tree == [ArtifactPaths \cup OtherPaths -> Content]

\* A commit: its tree, those of its parents, and whether a line of its message
\* is the idempotency key of this publication.
Commit == [tree : Tree, parents : Seq(Tree), marked : BOOLEAN]

ASSUME GitHubAssumption ==
  /\ ArtifactPaths \cap OtherPaths = {}
  /\ Bases \subseteq Tree /\ Strangers \subseteq Commit
  /\ MaxEdits \in Nat /\ MaxFaults \in Nat

ASSUME NoneAssumption == None \notin Commit

VARIABLES
  base,       \* GitHub: the tree of the base branch's head
  branch,     \* GitHub: the commit the branch points at, or None
  pull,       \* GitHub: is there an open pull request from branch to base?
  late,       \* POSTs that were given up and may still arrive
  attempt,    \* the publisher: where it is, and the commit it has in hand
  saved,      \* the ledger has the branch
  past,       \* history: every commit the branch has pointed at
  meddled,    \* history: people have touched the branch or the pull request
  edits, faults

github == <<base, branch, pull, past>>
counts == <<meddled, edits, faults>>
vars == <<github, counts, late, attempt, saved>>

\* The steps, in the order of _ensure_branch(), of the verification, of
\* _ensure_pull_request(), and the ways to stop.
Building == <<"base_ref", "base_commit", "blobs", "tree", "commit", "ref">>
Verifying == {"verify_commit", "verify_trees"}
Stopped == {"idle", "retry", "refused", "done"}
Step == {"find", "reconcile", "save", "list", "open"}
          \cup {Building[i] : i \in DOMAIN Building} \cup Verifying \cup Stopped

TypeOK ==
  /\ base \in Bases /\ pull \in BOOLEAN
  /\ branch = None \/ branch \in Commit
  /\ attempt.pc \in Step
  /\ attempt.pc \in Verifying \cup {"commit", "ref", "reconcile", "save"} =>
       attempt.commit \in Commit
  /\ attempt.pc \in {"list", "open", "done"} => saved
  /\ meddled \in BOOLEAN /\ edits \in 0..MaxEdits /\ faults \in 0..MaxFaults

Init ==
  /\ base \in Bases /\ branch = None /\ pull = FALSE
  /\ late = {} /\ past = {}
  /\ attempt = [pc |-> "idle", commit |-> None]
  /\ saved = FALSE /\ meddled = FALSE /\ edits = 0 /\ faults = 0

-----------------------------------------------------------------------------
(* What the publisher makes and what it accepts.                           *)

\* The artifacts over a tree, and everything else as it was.
WithArtifacts(t) ==
  [p \in DOMAIN t |-> IF p \in ArtifactPaths THEN "verified" ELSE t[p]]

NewCommit(t) ==
  [tree |-> WithArtifacts(t), parents |-> <<t>>, marked |-> TRUE]

\* The message has the marker and there is one parent.
CommitAccepted(c) == c.marked /\ Len(c.parents) = 1

\* Fault: the commit is compared with the base branch of today.
ComparedWithBase(c) == base

\* The tree an existing commit is compared with: its own parent's.
ComparedWith(c) == Head(c.parents)

\* Fault: changes beside the artifacts are not looked for.
TreesAcceptedLoosely(c) == \A p \in ArtifactPaths : c.tree[p] = "verified"

\* _verify_artifact_tree(): every artifact is there to the byte, and nothing
\* else has changed.
TreesAccepted(c) ==
  /\ \A p \in ArtifactPaths : c.tree[p] = "verified"
  /\ \A p \in DOMAIN c.tree : c.tree[p] # ComparedWith(c)[p] => p \in ArtifactPaths

-----------------------------------------------------------------------------
(* The publisher.                                                          *)

At(pc) == attempt.pc = pc

To(pc) == attempt' = [attempt EXCEPT !.pc = pc]
ToWith(pc, c) == attempt' = [pc |-> pc, commit |-> c]

\* An error of GitHub or of the network, by its retryable flag.
Raise(retryable) == To(IF retryable THEN "retry" ELSE "refused")

\* Publication starts, or is approved again after a failure: the ledger knows
\* whether there is a branch.  The service calls this again by itself never.
Approve ==
  /\ attempt.pc \in {"idle", "retry", "refused"}
  /\ ToWith(IF saved THEN "list" ELSE "find", None)
  /\ UNCHANGED <<github, counts, late, saved>>

\* GET the branch: there is one to verify, or one has to be built.
Find ==
  /\ At("find")
  /\ IF branch = None THEN To("base_ref") ELSE ToWith("verify_commit", branch)
  /\ UNCHANGED <<github, counts, late, saved>>

\* GET the base reference; GET its commit; POST the blobs, the tree and the
\* commit.  None of it shows until a reference points at it.
Build ==
  /\ \E i \in 1..(Len(Building) - 1) :
       /\ At(Building[i])
       /\ ToWith(Building[i + 1],
                 IF Building[i] = "base_ref" THEN NewCommit(base) ELSE attempt.commit)
  /\ UNCHANGED <<github, counts, late, saved>>

\* GitHub creates a reference that does not exist yet (external).
CreatesRef(c) ==
  IF branch = None THEN branch' = c /\ past' = past \cup {c}
  ELSE UNCHANGED <<branch, past>>

\* POST the reference, and the answer: created, or 422 and reconciliation.
CreateRef ==
  /\ At("ref")
  /\ CreatesRef(attempt.commit)
  /\ To(IF branch = None THEN "save" ELSE "reconcile")
  /\ UNCHANGED <<base, pull, counts, late, saved>>

\* The branch that was in the way is verified like any existing one.
Reconciled(c) == ToWith("verify_commit", c)

\* Fault: a reference that is not there is verified all the same.
VanishedIgnored == ToWith("verify_commit", None)

\* The branch is gone again: the conflict is raised.
Vanished == Raise(TRUE)

\* GET the branch after a 422.
Reconcile ==
  /\ At("reconcile")
  /\ IF branch = None THEN Vanished ELSE Reconciled(branch)
  /\ UNCHANGED <<github, counts, late, saved>>

\* GET the commit; then GET its parent and both trees.
Verify ==
  /\ \/ /\ At("verify_commit")
        /\ IF CommitAccepted(attempt.commit) THEN To("verify_trees") ELSE Raise(FALSE)
     \/ /\ At("verify_trees")
        /\ IF TreesAccepted(attempt.commit) THEN To("save") ELSE Raise(FALSE)
  /\ UNCHANGED <<github, counts, late, saved>>

\* ensure_branch() returns; the service saves the branch and goes on.
Save ==
  /\ At("save") /\ saved' = TRUE /\ To("list")
  /\ UNCHANGED <<github, counts, late>>

\* GET the open pull requests from the branch.
List ==
  /\ At("list") /\ To(IF pull THEN "done" ELSE "open")
  /\ UNCHANGED <<github, counts, late, saved>>

\* GitHub opens a pull request if the branch exists and has none open
\* (external).
CanOpen == branch # None /\ ~ pull
OpensPull == pull' = (pull \/ CanOpen)

\* POST the pull request, and the answer: opened, or 422, which is raised.
Open ==
  /\ At("open")
  /\ OpensPull
  /\ IF CanOpen THEN To("done") ELSE Raise(TRUE)
  /\ UNCHANGED <<base, branch, past, counts, late, saved>>

-----------------------------------------------------------------------------
(* Failures: a request without effect, an answer lost, a late arrival.     *)

Calling == Step \ (Stopped \cup {"save"})

\* The request fails before GitHub acts, with an error to retry or not (401,
\* 403, another 4xx, an unreadable answer), or the process stops.
Fail ==
  /\ attempt.pc \in Calling \cup {"save"} /\ faults < MaxFaults
  /\ faults' = faults + 1
  /\ \E retryable \in BOOLEAN : Raise(retryable)
  /\ UNCHANGED <<github, meddled, edits, late, saved>>

\* GitHub acts and the answer is lost or is a 5xx.
LoseAnswer ==
  /\ faults < MaxFaults /\ faults' = faults + 1
  /\ \/ At("ref") /\ CreatesRef(attempt.commit) /\ UNCHANGED pull
     \/ At("open") /\ OpensPull /\ UNCHANGED <<branch, past>>
  /\ Raise(TRUE)
  /\ UNCHANGED <<base, meddled, edits, late, saved>>

Post(what, c) == [what |-> what, commit |-> c]

\* The client gives up on a request that is still on its way.
GiveUp ==
  /\ faults < MaxFaults /\ faults' = faults + 1
  /\ \/ At("ref")  /\ late' = late \cup {Post("ref", attempt.commit)}
     \/ At("open") /\ late' = late \cup {Post("pull", None)}
  /\ Raise(TRUE)
  /\ UNCHANGED <<github, meddled, edits, saved>>

\* A request that was given up arrives; nobody reads the answer.
ArriveLate ==
  \E request \in late :
    /\ late' = late \ {request}
    /\ \/ request.what = "pull" /\ OpensPull /\ UNCHANGED <<branch, past>>
       \/ request.what = "ref" /\ CreatesRef(request.commit) /\ UNCHANGED pull
    /\ UNCHANGED <<base, counts, attempt, saved>>

-----------------------------------------------------------------------------
(* People.                                                                 *)

\* The base branch moves on.
MoveBase ==
  /\ edits < MaxEdits /\ edits' = edits + 1
  /\ base' \in Bases \ {base}
  /\ UNCHANGED <<branch, pull, past, meddled, faults, late, attempt, saved>>

\* Somebody creates, moves or deletes the branch, or closes (merges) the pull
\* request; without its branch the pull request is closed.
Meddle ==
  /\ edits < MaxEdits /\ edits' = edits + 1 /\ meddled' = TRUE
  /\ \/ /\ branch' \in (Strangers \cup {None}) \ {branch}
        /\ past' = past \cup ({branch'} \ {None})
        /\ pull' = (pull /\ branch' # None)
     \/ pull /\ pull' = FALSE /\ UNCHANGED <<branch, past>>
  /\ UNCHANGED <<base, faults, late, attempt, saved>>

-----------------------------------------------------------------------------
\* The steps the publisher takes unless something fails.
Advance ==
  Find \/ Build \/ CreateRef \/ Reconcile \/ Verify \/ Save \/ List \/ Open

Next ==
  \/ Approve \/ Advance
  \/ Fail \/ LoseAnswer \/ GiveUp \/ ArriveLate
  \/ MoveBase \/ Meddle

\* An approval goes on, and one that failed is made again.
Fairness == WF_vars(Advance) /\ WF_vars(Approve)

Spec == Init /\ [][Next]_vars /\ Fairness

-----------------------------------------------------------------------------
(* Properties.                                                             *)

\* A commit that is the artifacts and nothing but the artifacts, made for
\* this publication.
Exact(c) == c.marked /\ \E t \in Tree : c.parents = <<t>> /\ c.tree = WithArtifacts(t)

\* The branch that ensure_branch() returns did point at an exact commit while
\* the call was made: the one it created, one that an earlier attempt created
\* before or after that attempt was given up, or one that is as good; never
\* what somebody else put in its place.
ReturnedBranchIsExact ==
  attempt.pc = "save" => attempt.commit \in past /\ Exact(attempt.commit)

\* Retrying converges: unless people touch the branch or its pull request,
\* a publication ends with the pull request, whichever requests failed, were
\* lost or arrived late, and however the base branch moved meanwhile.
RetryConverges == [](~ meddled) => <>(At("done") /\ pull)
=============================================================================
