------------------------------- MODULE Lifecycle -------------------------------
(***************************************************************************)
(* A run from the request to the pull request: Analysis and Publication    *)
(* over one table of runs, in one process (api.py, create_app).            *)
(*                                                                         *)
(* The two meet in a row.  An approval may begin as soon as a decision is  *)
(* committed, and the task that made the decision may not have ended then: *)
(* if reading the row back fails, its handler still tries to fail the run. *)
(***************************************************************************)
EXTENDS RunStore

CONSTANTS
  Runs, MaxRestarts, MaxFaults,
  AnalysisConfigs,
  Keys, KeyOf, LiveKeys, AgingRuns, Clients, Repos, Servers,
  PublicationConfigs, MaxPulls

VARIABLES
  runs, restarts,                                        \* of both
  tasks, query, settings, process, awaited, recorded, faults,   \* of Analysis
  ledger, sinks, lock, ops, expired, branches, opened, open, applied

A == INSTANCE Analysis WITH Configs <- AnalysisConfigs, config <- settings
P == INSTANCE Publication WITH Configs <- PublicationConfigs, config <- sinks

\* Names and bounds, as the two components want them.  A run is under a live key
\* only if its manifest was built from live context; KeyOf being constant, either
\* no key is live or no process has recorded evidence.
ASSUME LifecycleAssumption ==
  /\ AnalysisConfigs \subseteq A!Config
  /\ \A c \in AnalysisConfigs : c.fallback => c.primary = "live"
  /\ KeyOf \in [Runs -> Keys] /\ LiveKeys \subseteq Keys /\ AgingRuns \subseteq Runs
  /\ PublicationConfigs \subseteq P!Config
  /\ \A c \in PublicationConfigs : /\ c.github  => c.repo # None
                                   /\ c.datahub => c.server # None
  /\ MaxRestarts \in Nat /\ MaxFaults \in Nat /\ MaxPulls \in Nat
  /\ LiveKeys # {} => \A c \in AnalysisConfigs : c.primary = "live"

\* A row as the two components fill it in.
Row == [state : RunState, analysis : A!Analysed \cup {None},
        publication : P!Receipt \cup {None},
        error : A!ErrorCode \cup {"retryable", "operator", None}]

\* None is no row, no task, no approval, and no value of a column.
ASSUME NoneAssumption ==
  /\ None \notin Row \cup A!Task \cup A!Finding \cup A!Analysed \cup A!ErrorCode
  /\ None \notin P!Op \cup P!Entry \cup P!Receipt \cup P!Label
  /\ None \notin Runs \cup Clients \cup Repos \cup Servers
  /\ None \notin {"retryable", "operator"}

analysis == <<tasks, query, settings, process, awaited, recorded, faults>>
publication == <<ledger, sinks, lock, ops, expired, branches, opened, open, applied>>
vars == <<runs, restarts, analysis, publication>>

-----------------------------------------------------------------------------

Init ==
  /\ A!Init
  /\ ledger = [k \in Keys |-> None] /\ sinks \in PublicationConfigs
  /\ lock = None /\ ops = [c \in Clients |-> None] /\ expired = {}
  /\ branches = {} /\ open = {} /\ applied = {}
  /\ opened = [s \in P!Sites |-> 0]

\* The orchestrator.  No snapshot is offered: recorded evidence makes another
\* manifest, and so another key, which a constant KeyOf cannot follow.
Analyse ==
  /\ \E r \in Runs :
       A!Start(r) \/ A!Proceed(r) \/ A!QueryReturns(r) \/ A!AbandonedEnds(r)
  /\ UNCHANGED <<restarts, publication>>

Analysed(r) == runs[r] # None /\ runs[r].analysis # None

\* An approval of a run that has an analysis, and what follows from it.
Publish ==
  /\ process = "up"
  /\ \E c \in Clients :
       \/ \E r \in Runs, token \in BOOLEAN :
            Analysed(r) /\ (P!BeginPublication(c, r, token) \/ P!BeginReuse(c, r, token))
       \/ P!Step(c)
  /\ UNCHANGED analysis

\* Evidence ages once there is some.  (Pull requests stay open here.)
Age ==
  /\ \E r \in Runs : Analysed(r) /\ P!EvidenceExpires(r)
  /\ UNCHANGED analysis

\* The server ends its requests before the lifespan shuts down.
Shutdown ==
  /\ \/ A!Drain /\ \A c \in Clients : ops[c] = None
     \/ A!Gathered
  /\ UNCHANGED publication

\* The process dies, and with it everything that both were in the middle of.
Restart == A!Restart /\ P!Restart

Next == Analyse \/ Publish \/ Age \/ Shutdown \/ Restart

Spec == Init /\ [][Next]_vars

-----------------------------------------------------------------------------
(* What each component sees of the common rows.                            *)

\* States of a run whose approval has begun to work.
Working == {"preparing_preview", "publishing", "publication_failed", "completed"}

Begun(r) == runs[r] # None /\ runs[r].state \in Working

\* To Publication, a run awaits its approval until that has begun.
PublicationView ==
  [r \in Runs |->
     IF Begun(r)
     THEN [state |-> runs[r].state, analysis |-> "eligible",
           publication |-> runs[r].publication,
           error |-> IF runs[r].error \in {"retryable", "operator"}
                     THEN runs[r].error ELSE None]
     ELSE [state |-> "awaiting_approval", analysis |-> "eligible",
           publication |-> None, error |-> None]]

\* To Analysis, a run stays as its approval has found it.
AnalysisView ==
  [r \in Runs |->
     IF Begun(r)
     THEN [state |-> "publishing", analysis |-> runs[r].analysis,
           publication |-> None, error |-> None]
     ELSE runs[r]]

AsPublication == INSTANCE Publication
  WITH runs <- PublicationView, Configs <- PublicationConfigs, config <- sinks

AsAnalysis == INSTANCE Analysis
  WITH runs <- AnalysisView, Configs <- AnalysisConfigs, config <- settings

\* Sharing the rows breaks neither component: what one does to a row is a step of
\* the other, or nothing to it.
ImplementsPublication == AsPublication!Spec
ImplementsAnalysis    == AsAnalysis!Spec

-----------------------------------------------------------------------------
(* Safety.                                                                 *)

Touched(r) ==
  \/ \E s \in P!Sites : s[1] = r /\ (s \in branches \/ opened[s] > 0)
  \/ \E a \in applied : ledger[a[1]].owner = r

\* Nothing reaches GitHub or DataHub but by a run whose analysis, as it was when
\* it was decided, is about the asset asked for, verified, free of blockers and,
\* where there is a warehouse, passed by it, however late or broken its answers
\* were and whatever was restarted in between.
EffectsAreJustified ==
  \A r \in Runs : Touched(r) =>
    /\ Analysed(r)
    /\ LET a == runs[r].analysis
       IN  /\ a.blockers = {} /\ a.finding.matches /\ a.finding.verified
           /\ a.under.warehouse => a.finding.warehouse = "passed"

\* A run that its analysis has failed has had no effect: the handler of a decision
\* that could not be read back loses against an approval that has begun to work,
\* or the approval against the handler.
FailedRunsAreClean ==
  \A r \in Runs : runs[r] # None /\ runs[r].state = "failed" =>
    ~ Touched(r) /\ runs[r].publication = None
=============================================================================
