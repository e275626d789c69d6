---------------------------- MODULE MCCacheBudget ----------------------------
(* Small instances of CacheBudget for TLC.                                  *)
EXTENDS CacheBudget, TLC

CONSTANTS t1, t2, p1, p2, p3, f1

\* An empty cache, and one that was filled under a larger budget.
Empty    == {[p \in Paths |-> 0]}
Anything == [Paths -> {0, 1, 3}]

\* One writer and files enough to choose what to evict, and a successor.
OneWriter == [threads |-> {t1}, paths |-> Paths, sizes |-> {1, 3}, contents |-> Anything,
              maxBytes |-> 6, failing |-> FALSE, shared |-> FALSE, writes |-> 3, boots |-> 2]

\* Two writers, failures and another process, over a payload and a sidecar.
Contended == [threads |-> {t1, t2}, paths |-> {p1, f1}, sizes |-> {1, 2}, contents |-> Empty,
              maxBytes |-> 1, failing |-> TRUE, shared |-> TRUE, writes |-> 3, boots |-> 1]

\* Two writers that nothing disturbs.
Racing == [threads |-> {t1, t2}, paths |-> Payloads, sizes |-> {1}, contents |-> Empty,
           maxBytes |-> 1, failing |-> FALSE, shared |-> FALSE, writes |-> 3, boots |-> 1]

RaceSetups == {Racing}
MCSetups == {OneWriter, Contended}
=============================================================================
