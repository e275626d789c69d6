--------------------------- MODULE CampaignLedger ---------------------------
(***************************************************************************)
(* What campaign-state.json promises, without processes, threads, writes   *)
(* or crashes: a ledger of cases.  Cases are begun together, settled one   *)
(* at a time, and every begun case can be taken back as if it had never    *)
(* been begun.  Campaign implements it (see CampaignRefinement).   *)
(***************************************************************************)
EXTENDS Integers

CONSTANTS Cases, Verdicts, Budget

VARIABLE ledger   \* [Cases -> [status, attempts]]

Running(c) == ledger[c].status = "running"

Init == ledger = [c \in Cases |-> [status |-> "pending", attempts |-> 0]]

\* Some cases that are not settled and have budget left are begun, and no
\* other case is in progress.
Begin(batch) ==
  /\ \A c \in Cases : ~Running(c)
  /\ \A c \in batch : /\ ledger[c].status \in {"pending", "infrastructure-failure"}
                      /\ ledger[c].attempts < Budget
  /\ ledger' = [c \in Cases |->
                  IF c \in batch THEN [status |-> "running", attempts |-> ledger[c].attempts + 1]
                  ELSE ledger[c]]

\* A begun case gets its verdict, for good unless that is an infrastructure
\* failure.
Settle(c, v) ==
  /\ Running(c)
  /\ ledger' = [ledger EXCEPT ![c] = [status |-> v, attempts |-> ledger[c].attempts]]

\* All begun cases are taken back.
Reclaim ==
  ledger' = [c \in Cases |->
               IF Running(c) THEN [status |-> "pending", attempts |-> ledger[c].attempts - 1]
               ELSE ledger[c]]

Next == \/ \E batch \in SUBSET Cases : Begin(batch)
        \/ \E c \in Cases, v \in Verdicts \union {"infrastructure-failure"} : Settle(c, v)
        \/ Reclaim

Spec == Init /\ [][Next]_ledger

=============================================================================
