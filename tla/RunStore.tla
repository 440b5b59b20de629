------------------------------ MODULE RunStore ------------------------------
(***************************************************************************)
(* The durable run row of ChangeSafe and the one operation that moves it:  *)
(* RunStore.transition (apps/api/src/changesafe/store.py).  A transition   *)
(* is one SQLite transaction: it checks the state read under BEGIN         *)
(* IMMEDIATE against ALLOWED_TRANSITIONS, rewrites the row, and appends an *)
(* event.  The modules that own processes (Analysis, Publication) apply    *)
(* Moved to their rows; the module EventStream is about the event log.     *)
(***************************************************************************)
EXTENDS Naturals

CONSTANT None    \* a column that is NULL, an optional field that is absent

-----------------------------------------------------------------------------
(* ALLOWED_TRANSITIONS: the state machine the store enforces.              *)

RunState ==
  {"created", "loading_context", "context_fallback_required", "scoring_risk",
   "generating", "validating", "validating_warehouse", "awaiting_approval",
   "preparing_preview", "publishing", "publication_failed", "completed",
   "failed"}

AllowedTransitions ==
  [s \in RunState |->
    CASE s = "created"                   -> {"loading_context"}
      [] s = "loading_context"           ->
           {"scoring_risk", "context_fallback_required", "failed"}
      [] s = "context_fallback_required" -> {"loading_context"}
      [] s = "scoring_risk"              -> {"generating", "failed"}
      [] s = "generating"                -> {"validating", "failed"}
      [] s = "validating"                ->
           {"validating_warehouse", "awaiting_approval", "failed"}
      [] s = "validating_warehouse"      -> {"awaiting_approval", "failed"}
      [] s = "awaiting_approval"         ->
           {"preparing_preview", "publishing", "failed"}
      [] s = "preparing_preview"         -> {"completed", "publication_failed"}
      [] s = "publishing"                -> {"completed", "publication_failed"}
      [] s = "publication_failed"        -> {"preparing_preview", "publishing"}
      [] s \in {"completed", "failed"}   -> {}]

-----------------------------------------------------------------------------
(* The row, and the arguments of transition() beside the target state.     *)

\* No analysis, publication or error given, and the old error kept.
Nothing == [analysis |-> None, publication |-> None, error |-> None,
            clearError |-> FALSE]

ClearingError(clear) == [Nothing EXCEPT !.clearError = clear]

\* Fault: what is not given is cleared.
MovedForgetting(row, to, given) ==
  [state |-> to, analysis |-> given.analysis,
   publication |-> given.publication, error |-> given.error]

\* A column is overwritten only by an argument that is given; the error is
\* dropped by clear_error and by reaching "completed".
Moved(row, to, given) ==
  [state       |-> to,
   analysis    |-> IF given.analysis # None THEN given.analysis
                                            ELSE row.analysis,
   publication |-> IF given.publication # None THEN given.publication
                                               ELSE row.publication,
   error       |-> IF to = "completed" \/ given.clearError THEN None
                   ELSE IF given.error # None THEN given.error
                   ELSE row.error]

\* Fault: only the final states are kept from moving.
MayMoveUnlessFinal(row, to) == row.state \notin {"completed", "failed"}

\* transition() raises InvalidTransition, and changes nothing, unless this.
MayMove(row, to) == to \in AllowedTransitions[row.state]
=============================================================================
