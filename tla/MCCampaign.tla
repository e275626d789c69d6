----------------------------- MODULE MCCampaign -----------------------------
(* Small instances of Campaign for TLC, with its refinement of the ledger.  *)
EXTENDS CampaignRefinement

CONSTANTS old, new, auto, none

\* A zero option counts as one (options.max_attempts.max(1)).
MCOptions == {[maxAttempts |-> 0, maxParallel |-> 1],
              [maxAttempts |-> 2, maxParallel |-> 2]}
=============================================================================
