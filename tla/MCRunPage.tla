------------------------------ MODULE MCRunPage ------------------------------
(* Small instances of RunPage for TLC. *)
EXTENDS RunPage

CONSTANTS r1, r2

\* A run that was analysed before, and one that is started from this page.
AnalysedBefore ==
  [r \in Runs |->
     IF r = r1
     THEN <<"created", "loading_context", "scoring_risk", "generating",
            "validating", "awaiting_approval">>
     ELSE <<>>]

\* The first is published.  The second is offered the snapshot, and when it goes
\* on with it the server is restarted: it stays under way for ever.
PublishedAndStranded ==
  [r \in Runs |->
     IF r = r1
     THEN {"publishing", "completed"}
     ELSE {"loading_context", "context_fallback_required"}]
=============================================================================
