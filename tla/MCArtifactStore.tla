-------------------------- MODULE MCArtifactStore ----------------------------
(* Small instances of ArtifactStore for TLC.                                *)
EXTENDS ArtifactStore, TLC

Pin(f, g) == [x \in Files |-> IF x = "f" THEN f ELSE g]

\* Everything pinned; the second file optional; the first without a hash.
MCLocks == {[order |-> <<"f", "g">>, pinned |-> Pin("a", "b"), optional |-> {}],
            [order |-> <<"f", "g">>, pinned |-> Pin(Absent, "b"), optional |-> {"g"}]}
Symmetry == Permutations(Writers)
=============================================================================
