------------------------- MODULE CampaignRefinement -------------------------
(* Campaign implements CampaignLedger: the ledger is what the state file    *)
(* says of every case.                                                      *)
EXTENDS Campaign

CONSTANT Budget   \* no process is started with a larger retry budget

ASSUME BudgetAssumption == /\ Budget \in Nat
                           /\ \A o \in Options : AtLeastOne(o.maxAttempts) <= Budget

LedgerEntry(c) == [status |-> c.status, attempts |-> c.attempts]

Ledger == INSTANCE CampaignLedger WITH
            Verdicts <- Terminal,
            ledger   <- [c \in Cases |-> LedgerEntry(stateFile.cases[c])]

\* The state file implements the ledger: no crash, failed write or order of
\* results makes it take a step the ledger does not allow.
ImplementsLedger == Ledger!Spec

=============================================================================
