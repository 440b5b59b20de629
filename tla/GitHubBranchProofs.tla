-------------------------- MODULE GitHubBranchProofs --------------------------
(***************************************************************************)
(* Safety of GitHubBranch, for any set of paths, bases, strangers' commits *)
(* and any number of faults and edits.                                     *)
(*                                                                         *)
(* The branch of a publication is a place where the publisher, its own     *)
(* requests of the past and people all write.  What the publisher holds is *)
(* exact either because it made it, or because it verified it; the         *)
(* invariant says which, at every step, and that no request of its own     *)
(* that is still under way would put anything else there.                  *)
(***************************************************************************)
EXTENDS GitHubBranch, SequenceTheorems, TLAPS

-----------------------------------------------------------------------------
(* The invariant.                                                          *)

\* The steps that have a commit made here in hand.
Made == {"base_commit", "blobs", "tree", "commit", "ref"}

Shapes ==
  /\ attempt = [pc |-> attempt.pc, commit |-> attempt.commit]
  /\ attempt.pc \in Step
  /\ attempt.pc \in Made \cup Verifying \cup {"reconcile", "save"} =>
       attempt.commit \in Commit
  /\ attempt.pc \in {"list", "open", "done"} => saved
  /\ base \in Bases /\ pull \in BOOLEAN /\ saved \in BOOLEAN /\ meddled \in BOOLEAN
  /\ edits \in 0..MaxEdits /\ faults \in 0..MaxFaults

\* The branch points at a commit, and every one it has had is remembered.
BranchOK ==
  /\ branch = None \/ branch \in past
  /\ past \subseteq Commit

\* What the publisher has in hand.
AttemptOK ==
  /\ attempt.pc \in Made => Exact(attempt.commit)
  /\ attempt.pc \in Verifying => attempt.commit \in past
  /\ attempt.pc = "verify_trees" => CommitAccepted(attempt.commit)
  /\ ReturnedBranchIsExact

\* What is still under way.
LateOK ==
  \A request \in late :
    request.what = "ref" => request.commit \in Commit /\ Exact(request.commit)

\* The inductive invariant.
IInv == Shapes /\ BranchOK /\ AttemptOK /\ LateOK

-----------------------------------------------------------------------------
(* Commits.                                                                *)

\* Laying the artifacts over a tree makes a tree.
LEMMA WithArtifactsIsTree ==
  ASSUME NEW t \in Tree
  PROVE  WithArtifacts(t) \in Tree
  BY DEF WithArtifacts, Tree, Content

\* The commit that is built is exact.
LEMMA NewCommitIsExact ==
  ASSUME NEW t \in Tree
  PROVE  NewCommit(t) \in Commit /\ Exact(NewCommit(t))
<1>1. <<t>> \in Seq(Tree)
  OBVIOUS
<1>2. NewCommit(t) \in Commit
  BY <1>1, WithArtifactsIsTree DEF NewCommit, Commit
<1>3. NewCommit(t).marked /\ NewCommit(t).parents = <<t>>
      /\ NewCommit(t).tree = WithArtifacts(t)
  BY DEF NewCommit
<1> QED
  BY <1>2, <1>3 DEF Exact

\* A commit that passes the verification is exact.
LEMMA VerifiedIsExact ==
  ASSUME NEW c \in Commit, CommitAccepted(c), TreesAccepted(c)
  PROVE  Exact(c)
<1> DEFINE t == Head(c.parents)
<1>1. c.parents \in Seq(Tree) /\ Len(c.parents) = 1 /\ c.marked /\ c.tree \in Tree
  BY DEF Commit, CommitAccepted
<1>2. t \in Tree /\ c.parents = <<t>>
  BY <1>1
<1>3. /\ \A p \in ArtifactPaths : c.tree[p] = "verified"
      /\ \A p \in DOMAIN c.tree : c.tree[p] # t[p] => p \in ArtifactPaths
  BY DEF TreesAccepted, ComparedWith
<1> HIDE DEF t
<1>4. c.tree = WithArtifacts(t)
  BY <1>1, <1>2, <1>3 DEF WithArtifacts, Tree
<1> QED
  BY <1>1, <1>2, <1>4 DEF Exact

-----------------------------------------------------------------------------
(* Steps.                                                                  *)

\* A step of the publisher that leaves GitHub, the people and the requests
\* under way alone.
LEMMA AttemptMoves ==
  ASSUME IInv, NEW pc \in Step, NEW c, attempt' = [pc |-> pc, commit |-> c],
         saved' \in BOOLEAN, saved => saved',
         pc \in Made \cup Verifying \cup {"reconcile", "save"} => c \in Commit,
         pc \in Made \cup {"save"} => Exact(c),
         pc \in Verifying \cup {"save"} => c \in past,
         pc = "verify_trees" => CommitAccepted(c),
         pc \in {"list", "open", "done"} => saved',
         UNCHANGED <<github, meddled, edits>>, faults' \in 0..MaxFaults,
         late' = late \/ LateOK'
  PROVE  IInv'
<1>1. attempt'.pc = pc /\ attempt'.commit = c
  OBVIOUS
<1>2. base' = base /\ branch' = branch /\ pull' = pull /\ past' = past
  BY DEF github
<1>3. Shapes'
  BY <1>1, <1>2 DEF IInv, Shapes
<1>4. BranchOK'
  BY <1>2 DEF IInv, BranchOK
<1>5. AttemptOK'
  BY <1>1, <1>2 DEF AttemptOK, ReturnedBranchIsExact
<1>6. LateOK'
  BY DEF IInv, LateOK
<1> QED
  BY <1>3, <1>4, <1>5, <1>6 DEF IInv

\* The attempt ends, or goes on to a step that holds nothing.
LEMMA ToIsRecord ==
  ASSUME IInv, NEW pc, To(pc)
  PROVE  attempt' = [pc |-> pc, commit |-> attempt.commit]
  BY DEF To, IInv, Shapes

\* A step that only reads goes on with nothing in hand or with what the branch
\* points at.
LEMMA ReadSteps ==
  ASSUME IInv, Approve \/ Find \/ Reconcile \/ List
  PROVE  IInv'
<1>1. UNCHANGED <<github, meddled, edits, faults, saved, late>>
  BY DEF Approve, Find, Reconcile, List, counts
<1>2. saved \in BOOLEAN /\ faults \in 0..MaxFaults
      /\ (branch # None => branch \in past /\ branch \in Commit)
  BY DEF IInv, Shapes, BranchOK
<1>3. CASE Approve
  <2>1. attempt' = [pc |-> IF saved THEN "list" ELSE "find", commit |-> None]
    BY <1>3 DEF Approve, ToWith
  <2>2. CASE saved
    <3>1. attempt' = [pc |-> "list", commit |-> None]
      BY <2>1, <2>2
    <3> QED
      BY <1>1, <1>2, <2>2, <3>1, AttemptMoves DEF Step, Made, Verifying
  <2>3. CASE ~ saved
    <3>1. attempt' = [pc |-> "find", commit |-> None]
      BY <2>1, <2>3
    <3> QED
      BY <1>1, <1>2, <3>1, AttemptMoves DEF Step, Made, Verifying
  <2> QED
    BY <2>2, <2>3
<1>4. CASE Find /\ branch = None
  <2>1. attempt' = [pc |-> "base_ref", commit |-> attempt.commit]
    BY <1>4, ToIsRecord DEF Find
  <2>2. "base_ref" \in Step
    BY DEF Step, Building
  <2> QED
    BY <1>1, <1>2, <2>1, <2>2, AttemptMoves DEF Made, Verifying
<1>5. CASE (Find \/ Reconcile) /\ branch # None
  <2>1. attempt' = [pc |-> "verify_commit", commit |-> branch]
    BY <1>5 DEF Find, Reconcile, Reconciled, ToWith
  <2> QED
    BY <1>1, <1>2, <1>5, <2>1, AttemptMoves DEF Step, Made, Verifying
<1>6. CASE Reconcile /\ branch = None
  <2>1. attempt' = [pc |-> "retry", commit |-> attempt.commit]
    BY <1>6, ToIsRecord DEF Reconcile, Vanished, Raise
  <2> QED
    BY <1>1, <1>2, <2>1, AttemptMoves DEF Step, Stopped, Made, Verifying
<1>7. CASE List
  <2>1. saved
    BY <1>7 DEF List, At, IInv, Shapes
  <2>2. PICK pc \in {"done", "open"} : attempt' = [pc |-> pc, commit |-> attempt.commit]
    BY <1>7, ToIsRecord DEF List
  <2> QED
    BY <1>1, <1>2, <2>1, <2>2, AttemptMoves DEF Step, Stopped, Made, Verifying
<1> QED
  BY <1>3, <1>4, <1>5, <1>6, <1>7

\* The commit in hand is made from the base that was read, and stays exact
\* until a reference points at it.
LEMMA BuildSteps ==
  ASSUME IInv, Build
  PROVE  IInv'
<1>1. PICK i \in 1..(Len(Building) - 1) :
        /\ At(Building[i])
        /\ ToWith(Building[i + 1],
                  IF Building[i] = "base_ref" THEN NewCommit(base) ELSE attempt.commit)
  BY DEF Build
<1>2. i \in 1..5
  BY DEF Building
<1>3. /\ Building[i] = "base_ref" \/ Building[i] \in Made
      /\ Building[i + 1] \in Made /\ Building[i + 1] \in Step
  BY <1>2 DEF Building, Made, Step
<1> DEFINE c == IF Building[i] = "base_ref" THEN NewCommit(base) ELSE attempt.commit
<1>4. base \in Tree
  BY GitHubAssumption DEF IInv, Shapes
<1>5. c \in Commit /\ Exact(c)
  BY <1>1, <1>3, <1>4, NewCommitIsExact DEF At, IInv, Shapes, AttemptOK
<1>6. attempt' = [pc |-> Building[i + 1], commit |-> c]
  BY <1>1 DEF ToWith
<1>7. /\ UNCHANGED <<github, meddled, edits, faults, saved, late>>
      /\ saved \in BOOLEAN /\ faults \in 0..MaxFaults
  BY DEF Build, counts, IInv, Shapes
<1> HIDE DEF c
<1> QED
  BY <1>3, <1>5, <1>6, <1>7, AttemptMoves DEF Made, Verifying

\* A commit that was found comes out of the verification exact, or not at all.
LEMMA VerifySteps ==
  ASSUME IInv, Verify
  PROVE  IInv'
<1>1. /\ UNCHANGED <<github, meddled, edits, faults, saved, late>>
      /\ saved \in BOOLEAN /\ faults \in 0..MaxFaults
  BY DEF Verify, counts, IInv, Shapes
<1>2. attempt.commit \in Commit /\ attempt.commit \in past
  BY DEF Verify, At, IInv, Shapes, AttemptOK, Verifying
<1>3. CASE At("verify_commit") /\ CommitAccepted(attempt.commit)
  <2>1. attempt' = [pc |-> "verify_trees", commit |-> attempt.commit]
    BY <1>3, ToIsRecord DEF Verify, At
  <2> QED
    BY <1>1, <1>2, <1>3, <2>1, AttemptMoves DEF Step, Made, Verifying
<1>4. CASE At("verify_trees") /\ TreesAccepted(attempt.commit)
  <2>1. attempt' = [pc |-> "save", commit |-> attempt.commit]
    BY <1>4, ToIsRecord DEF Verify, At
  <2>2. Exact(attempt.commit)
    BY <1>2, <1>4, VerifiedIsExact DEF At, IInv, AttemptOK
  <2> QED
    BY <1>1, <1>2, <2>1, <2>2, AttemptMoves DEF Step, Made, Verifying
<1>5. CASE Raise(FALSE)
  <2>1. attempt' = [pc |-> "refused", commit |-> attempt.commit]
    BY <1>5, ToIsRecord DEF Raise
  <2> QED
    BY <1>1, <2>1, AttemptMoves DEF Step, Stopped, Made, Verifying
<1> QED
  BY <1>3, <1>4, <1>5 DEF Verify

\* The ledger has the branch from here on.
LEMMA SaveSteps ==
  ASSUME IInv, Save
  PROVE  IInv'
<1>1. attempt' = [pc |-> "list", commit |-> attempt.commit]
  BY ToIsRecord DEF Save
<1>2. /\ UNCHANGED <<github, meddled, edits, faults, late>>
      /\ saved' = TRUE /\ faults \in 0..MaxFaults
  BY DEF Save, counts, IInv, Shapes
<1> QED
  BY <1>1, <1>2, AttemptMoves DEF Step, Made, Verifying

\* A request to create the branch creates it or leaves everything alone.
LEMMA RefIsCreated ==
  ASSUME IInv, NEW c \in Commit, CreatesRef(c)
  PROVE  BranchOK' /\ past \subseteq past'
  BY DEF CreatesRef, IInv, BranchOK

\* GitHub changes, and nothing else but the bounds and what is under way.
LEMMA GitHubMoves ==
  ASSUME IInv, UNCHANGED <<attempt, saved>>,
         past \subseteq past', BranchOK', LateOK',
         base' \in Bases, pull' \in BOOLEAN, meddled' \in BOOLEAN,
         edits' \in 0..MaxEdits, faults' \in 0..MaxFaults
  PROVE  IInv'
<1>1. Shapes'
  BY DEF IInv, Shapes
<1>2. AttemptOK'
  BY DEF IInv, AttemptOK, ReturnedBranchIsExact
<1> QED
  BY <1>1, <1>2 DEF IInv

\* The publisher leaves a POST behind, with or without having its answer.
LEMMA PublisherPosted ==
  ASSUME IInv, NEW pc \in Stopped \cup {"save", "reconcile"},
         attempt' = [pc |-> pc, commit |-> attempt.commit],
         UNCHANGED <<base, saved, meddled, edits>>,
         past \subseteq past', BranchOK', LateOK',
         pull' \in BOOLEAN, faults' \in 0..MaxFaults,
         pc \in {"save", "reconcile"} => attempt.commit \in Commit,
         pc = "save" => attempt.commit \in past' /\ Exact(attempt.commit),
         pc = "done" => saved
  PROVE  IInv'
<1>1. attempt'.pc = pc /\ attempt'.commit = attempt.commit
  OBVIOUS
<1>2. Shapes'
  BY <1>1 DEF IInv, Shapes, Step, Stopped, Made, Verifying
<1>3. AttemptOK'
  BY <1>1 DEF AttemptOK, ReturnedBranchIsExact, Stopped, Made, Verifying
<1> QED
  BY <1>2, <1>3 DEF IInv

\* What the publisher has in hand when it creates the branch.
LEMMA AtRef ==
  ASSUME IInv, At("ref")
  PROVE  attempt.commit \in Commit /\ Exact(attempt.commit)
  BY DEF At, IInv, Shapes, AttemptOK, Made

\* The commit that was made is the branch, or what is in the way is looked at.
LEMMA CreateRefSteps ==
  ASSUME IInv, CreateRef
  PROVE  IInv'
<1>1. attempt.commit \in Commit /\ Exact(attempt.commit)
  BY AtRef DEF CreateRef
<1>2. BranchOK' /\ past \subseteq past'
  BY <1>1, RefIsCreated DEF CreateRef
<1>3. /\ UNCHANGED <<base, pull, saved, late, meddled, edits, faults>>
      /\ pull \in BOOLEAN /\ faults \in 0..MaxFaults
  BY DEF CreateRef, counts, IInv, Shapes
<1>4. LateOK'
  BY <1>3 DEF IInv, LateOK
<1>5. CASE branch = None
  <2>1. attempt' = [pc |-> "save", commit |-> attempt.commit]
    BY <1>5, ToIsRecord DEF CreateRef
  <2>2. attempt.commit \in past'
    BY <1>5 DEF CreateRef, CreatesRef
  <2> QED
    BY <1>1, <1>2, <1>3, <1>4, <2>1, <2>2, PublisherPosted
<1>6. CASE branch # None
  <2>1. attempt' = [pc |-> "reconcile", commit |-> attempt.commit]
    BY <1>6, ToIsRecord DEF CreateRef
  <2> QED
    BY <1>1, <1>2, <1>3, <1>4, <2>1, PublisherPosted
<1> QED
  BY <1>5, <1>6

\* Opening the pull request touches no commit.
LEMMA OpenSteps ==
  ASSUME IInv, Open
  PROVE  IInv'
<1>1. /\ UNCHANGED <<base, branch, past, saved, late, meddled, edits, faults>>
      /\ pull' \in BOOLEAN /\ faults \in 0..MaxFaults /\ saved
  BY DEF Open, OpensPull, CanOpen, At, counts, IInv, Shapes
<1>2. BranchOK' /\ LateOK' /\ past \subseteq past'
  BY <1>1 DEF IInv, BranchOK, LateOK
<1>3. PICK pc \in {"done", "retry"} : attempt' = [pc |-> pc, commit |-> attempt.commit]
  BY ToIsRecord DEF Open, Raise
<1> QED
  BY <1>1, <1>2, <1>3, PublisherPosted DEF Stopped

\* A failed request leaves nothing behind.
LEMMA FailSteps ==
  ASSUME IInv, Fail
  PROVE  IInv'
<1>1. /\ UNCHANGED <<base, branch, pull, past, saved, late, meddled, edits>>
      /\ pull' \in BOOLEAN /\ faults' \in 0..MaxFaults
  BY GitHubAssumption DEF Fail, github, IInv, Shapes
<1>2. BranchOK' /\ LateOK' /\ past \subseteq past'
  BY <1>1 DEF IInv, BranchOK, LateOK
<1>3. PICK pc \in {"refused", "retry"} : attempt' = [pc |-> pc, commit |-> attempt.commit]
  BY ToIsRecord DEF Fail, Raise
<1> QED
  BY <1>1, <1>2, <1>3, PublisherPosted DEF Stopped

\* An answer is lost, or a request is given up.
LEMMA UnansweredSteps ==
  ASSUME IInv, LoseAnswer \/ GiveUp
  PROVE  IInv'
<1>1. /\ UNCHANGED <<base, saved, meddled, edits>>
      /\ faults' \in 0..MaxFaults
  <2>1. faults \in 0..MaxFaults /\ MaxFaults \in Nat
    BY GitHubAssumption DEF IInv, Shapes
  <2>2. faults < MaxFaults /\ faults' = faults + 1
    BY DEF LoseAnswer, GiveUp
  <2>3. UNCHANGED <<base, saved, meddled, edits>>
    BY DEF LoseAnswer, GiveUp, github
  <2> QED
    BY <2>1, <2>2, <2>3
<1>2. attempt' = [pc |-> "retry", commit |-> attempt.commit]
  BY ToIsRecord DEF LoseAnswer, GiveUp, Raise
<1>3. BranchOK' /\ past \subseteq past' /\ pull' \in BOOLEAN
  <2>1. CASE LoseAnswer
    BY <2>1, AtRef, RefIsCreated
       DEF LoseAnswer, OpensPull, CanOpen, IInv, Shapes, BranchOK
  <2>2. CASE GiveUp
    BY <2>2 DEF GiveUp, github, IInv, Shapes, BranchOK
  <2> QED
    BY <2>1, <2>2
<1>4. LateOK'
  <2>1. CASE LoseAnswer
    BY <2>1 DEF LoseAnswer, IInv, LateOK
  <2>2. CASE GiveUp
    <3>1. ASSUME NEW request \in late', request.what = "ref"
          PROVE  request.commit \in Commit /\ Exact(request.commit)
      <4>1. CASE request \in late
        BY <3>1, <4>1 DEF IInv, LateOK
      <4>2. CASE request \notin late
        <5>1. At("ref") /\ request = Post("ref", attempt.commit)
          BY <2>2, <3>1, <4>2 DEF GiveUp, Post
        <5> QED
          BY <5>1, AtRef DEF Post
      <4> QED
        BY <4>1, <4>2
    <3> QED
      BY <3>1 DEF LateOK, Exact
  <2> QED
    BY <2>1, <2>2
<1> QED
  BY <1>1, <1>2, <1>3, <1>4, PublisherPosted DEF Stopped

\* A request of the past creates an exact branch or changes nothing.
LEMMA ArriveLateSteps ==
  ASSUME IInv, ArriveLate
  PROVE  IInv'
<1>1. PICK request \in late :
        /\ late' = late \ {request}
        /\ \/ request.what = "pull" /\ OpensPull /\ UNCHANGED <<branch, past>>
           \/ request.what = "ref" /\ CreatesRef(request.commit) /\ UNCHANGED pull
        /\ UNCHANGED <<base, counts, attempt, saved>>
  BY DEF ArriveLate
<1>2. /\ base' \in Bases /\ meddled' \in BOOLEAN
      /\ edits' \in 0..MaxEdits /\ faults' \in 0..MaxFaults
  BY <1>1 DEF counts, IInv, Shapes
<1>3. BranchOK' /\ past \subseteq past' /\ pull' \in BOOLEAN
  <2>1. CASE request.what = "pull"
    BY <1>1, <2>1 DEF OpensPull, CanOpen, IInv, Shapes, BranchOK
  <2>2. CASE request.what = "ref"
    <3>1. request.commit \in Commit
      BY <2>2 DEF IInv, LateOK
    <3> QED
      BY <1>1, <2>2, <3>1, RefIsCreated DEF IInv, Shapes
  <2> QED
    BY <1>1, <2>1, <2>2
<1>4. LateOK'
  BY <1>1 DEF IInv, LateOK
<1> QED
  BY <1>1, <1>2, <1>3, <1>4, GitHubMoves

\* The base branch moves, or people touch the branch or the pull request.
LEMMA PeopleSteps ==
  ASSUME IInv, MoveBase \/ Meddle
  PROVE  IInv'
<1>1. /\ UNCHANGED <<faults, late, attempt, saved>>
      /\ faults' \in 0..MaxFaults
  BY DEF MoveBase, Meddle, IInv, Shapes
<1>2. /\ base' \in Bases /\ pull' \in BOOLEAN
      /\ meddled' \in BOOLEAN /\ edits' \in 0..MaxEdits
  <2>1. edits \in 0..MaxEdits /\ MaxEdits \in Nat
    BY GitHubAssumption DEF IInv, Shapes
  <2>2. edits < MaxEdits /\ edits' = edits + 1
    BY DEF MoveBase, Meddle
  <2>3. base' \in Bases /\ pull' \in BOOLEAN /\ meddled' \in BOOLEAN
    BY DEF MoveBase, Meddle, IInv, Shapes
  <2> QED
    BY <2>1, <2>2, <2>3
<1>3. BranchOK' /\ past \subseteq past'
  BY GitHubAssumption DEF MoveBase, Meddle, IInv, BranchOK
<1>4. LateOK'
  BY <1>1 DEF IInv, LateOK
<1> QED
  BY <1>1, <1>2, <1>3, <1>4, GitHubMoves

-----------------------------------------------------------------------------
(* The theorems.                                                           *)

\* At first nothing is under way.
LEMMA InitOK ==
  ASSUME Init
  PROVE  IInv
<1>1. Shapes
  <2>1. /\ attempt = [pc |-> "idle", commit |-> None]
        /\ base \in Bases /\ pull = FALSE /\ saved = FALSE /\ meddled = FALSE
        /\ edits = 0 /\ faults = 0
    BY DEF Init
  <2>2. 0 \in 0..MaxEdits /\ 0 \in 0..MaxFaults
    BY GitHubAssumption
  <2>3. attempt.pc = "idle" /\ attempt = [pc |-> attempt.pc, commit |-> attempt.commit]
    BY <2>1
  <2>4. /\ "idle" \in Step
        /\ "idle" \notin Made \cup Verifying \cup {"reconcile", "save", "list", "open", "done"}
    BY DEF Step, Stopped, Made, Verifying
  <2> QED
    BY <2>1, <2>2, <2>3, <2>4 DEF Shapes
<1>2. BranchOK /\ AttemptOK /\ LateOK
  BY DEF Init, BranchOK, AttemptOK, LateOK, ReturnedBranchIsExact, Made, Verifying
<1> QED
  BY <1>1, <1>2 DEF IInv

\* Stuttering keeps the invariant.
LEMMA StutterOK ==
  ASSUME IInv, UNCHANGED vars
  PROVE  IInv'
<1>1. BranchOK' /\ LateOK' /\ past \subseteq past'
  BY DEF IInv, BranchOK, LateOK, vars, github
<1>2. /\ UNCHANGED <<attempt, saved>>
      /\ base' \in Bases /\ pull' \in BOOLEAN /\ meddled' \in BOOLEAN
      /\ edits' \in 0..MaxEdits /\ faults' \in 0..MaxFaults
  BY DEF IInv, Shapes, vars, github, counts
<1> QED
  BY <1>1, <1>2, GitHubMoves

\* Every step keeps it.
LEMMA StepsOK ==
  ASSUME IInv, Next
  PROVE  IInv'
<1>1. CASE Approve \/ Find \/ Reconcile \/ List
  BY <1>1, ReadSteps
<1>2. CASE Build \/ Verify \/ Save
  BY <1>2, BuildSteps, VerifySteps, SaveSteps
<1>3. CASE CreateRef \/ Open
  BY <1>3, CreateRefSteps, OpenSteps
<1>4. CASE Fail \/ LoseAnswer \/ GiveUp \/ ArriveLate
  BY <1>4, FailSteps, UnansweredSteps, ArriveLateSteps
<1>5. CASE MoveBase \/ Meddle
  BY <1>5, PeopleSteps
<1> QED
  BY <1>1, <1>2, <1>3, <1>4, <1>5 DEF Next, Advance

\* What the publisher holds is exact because it made or verified it, and so is
\* whatever is still on its way to GitHub.
THEOREM InductiveInvariant == Spec => []IInv
<1>1. Init => IInv
  BY InitOK
<1>2. IInv /\ [Next]_vars => IInv'
  BY StepsOK, StutterOK
<1> QED
  BY <1>1, <1>2, PTL DEF Spec

\* TypeOK is an invariant.
THEOREM TypeCorrect == Spec => []TypeOK
<1>1. IInv => TypeOK
  <2> SUFFICES ASSUME IInv PROVE TypeOK
    OBVIOUS
  <2>1. branch = None \/ branch \in Commit
    BY DEF IInv, BranchOK
  <2> QED
    BY <2>1 DEF IInv, Shapes, TypeOK, Made
<1> QED
  BY <1>1, InductiveInvariant, PTL

\* ensure_branch() never returns what somebody else has put in the place of the
\* publication's commit, whoever pushes, deletes or moves what and when, and
\* however many of its own earlier requests are still to arrive.
THEOREM ReturnedBranchesAreExact == Spec => []ReturnedBranchIsExact
<1>1. IInv => ReturnedBranchIsExact
  BY DEF IInv, AttemptOK
<1> QED
  BY <1>1, InductiveInvariant, PTL
=============================================================================
