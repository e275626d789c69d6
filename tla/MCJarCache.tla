----------------------------- MODULE MCJarCache -----------------------------
(* Small instances of JarCache for TLC.                                     *)
EXTENDS JarCache, TLC

CONSTANTS t1, t2, t3, g1, g2, g3, none, a, b, h1, h2, v1, v2, s, absent, junk

\* Two versions that sanitize_segment maps to one directory, and two that it
\* keeps apart.
Colliding == (v1 :> s) @@ (v2 :> s)
Apart     == (v1 :> v1) @@ (v2 :> v2)

\* A jar that is only ever replaced, and one that is also removed.
Present == [sha : Hashes, stamp : Stamps]
OrGone  == Present \union {absent}

\* Threads are not told apart.
ThreadSymmetry == Permutations(Threads) \union Permutations(Gates)
=============================================================================
