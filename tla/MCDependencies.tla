---------------------------- MODULE MCDependencies ----------------------------
(* Two mods, one of which may need the other, a library they may ask for, and *)
(* a third one, of an undecided descriptor or for another loader, which may   *)
(* provide the library or ask for it.                                         *)
EXTENDS Dependencies, FiniteSetsExt, TLC

\* One version nobody can compare, one range nobody can read; the probe 0.0.0
\* is low.
MCInRange(v, r) ==
  CASE r = "any"                         -> "yes"
    [] r = "opaque" \/ v = "odd"         -> "unknown"
    [] r = "low"                         -> IF v \in {"0", "1"} THEN "yes" ELSE "no"
    [] r = "high"                        -> IF v = "2" THEN "yes" ELSE "no"
    [] r = "later"                       -> "no"

MCRuntime == "minecraft" :> "1"

Package(id, version, confirmed) == [id |-> id, version |-> version, confirmed |-> confirmed]

Provider(owner, version, state, bundled) ==
  [id |-> "lib", owner |-> owner, version |-> version, state |-> state, bundled |-> bundled]

Needs(from, to, range, relation, mandatory, applies) ==
  [from |-> from, to |-> to, range |-> range, relation |-> relation,
   mandatory |-> mandatory, applies |-> applies]

\* The library as a package, or not.
Libraries == {{}} \union {{Package("lib", v, TRUE)} : v \in {"1", "2", "odd"}} \union {{Package("lib", "2", FALSE)}}

\* Aliases and bundled copies: of the mods, of a third one whose descriptor is
\* undecided, and of an archive that has none.
Provided == {Provider("a", "1", "active", FALSE), Provider("b", "2", "active", FALSE),
              Provider("b", "inherit", "active", FALSE), Provider("a", "1", "active", TRUE),
              Provider("b", "odd", "active", TRUE), Provider("c", "2", "unknown", FALSE),
              Provider("archive", "1", "unknown", TRUE), Provider("loader", "inherit", "active", TRUE)}

Binding == {<<"requires", TRUE>>, <<"breaks", FALSE>>}
Soft == {<<"requires", FALSE>>, <<"recommends", FALSE>>, <<"conflicts", FALSE>>}

\* One declaration for each pair of mods.
OnLib(from, kinds) ==
  {Needs(from, "lib", r, k[1], k[2], "active") : r \in Ranges \ {"later"}, k \in kinds}
    \union {Needs(from, "lib", "high", "requires", TRUE, s) : s \in {"off", "gated"}}
OfA == OnLib("a", Binding)
OfB == OnLib("b", Binding)
SoftOfB == {Needs("b", "lib", r, k[1], k[2], "active") : r \in {"low", "high"}, k \in Soft}
             \union {Needs("b", "lib", "high", k, FALSE, "active") : k \in PassedOver}
OnOthers == {Needs("a", "b", r, "requires", TRUE, "active") : r \in {"low", "high"}}
              \union {Needs("a", "minecraft", "high", "requires", TRUE, "active")}
OfC == {Needs("c", "lib", "high", "requires", TRUE, s) : s \in {"undecided", "foreign"}}

\* Two that exclude each other, and a third one about the same library, which
\* may be in a range that no version is in.
Triples == {{Needs("a", "lib", "low", "requires", TRUE, "active"),
             Needs("b", "lib", "high", "requires", TRUE, "active"),
             Needs("a", "lib", r, k, FALSE, "active")} : r \in Ranges, k \in {"recommends", "conflicts"}}

Declarations == Triples \union {{x, y} : x \in OfA, y \in OfB \union SoftOfB} \union {{x} : x \in OfA}
                  \union {{x, y} : x \in OfB, y \in OnOthers} \union {{x, y} : x \in OfB, y \in OfC}

Third(cs, providers) ==
  IF cs \intersect OfC # {} \/ \E p \in providers : p.owner = "c" THEN {Package("c", "1", FALSE)} ELSE {}

UpTo2(S) == UNION {kSubset(k, S) : k \in 0 .. 2}

\* A package of an id that another mod provides beside it is left to Overlapping.
Overlaps(packages, providers) ==
  \E k \in packages, p \in providers : k.confirmed /\ k.id = p.id /\ ~p.bundled /\ p.state # "inactive"

PacksOf(declarations, overlap) ==
  {[packages |-> {Package("a", "1", TRUE), Package("b", "1", TRUE)} \union x[1] \union Third(cs, x[2]),
    providers |-> x[2], constraints |-> cs, archives |-> gap[1], truncated |-> gap[2]] :
     x \in {x \in Libraries \X UpTo2(Provided) : Overlaps(x[1], x[2]) = overlap},
     cs \in declarations,
     gap \in {<<{}, FALSE>>, <<{"lib"}, FALSE>>, <<{}, TRUE>>}}

MCPacks     == PacksOf(Declarations, FALSE)
ASSUME PlainAssumption == \A pk \in MCPacks : Plain(pk)

\* Those with three declarations.
Suppressing == PacksOf(Triples, FALSE)

Overlapping == PacksOf(Declarations, TRUE)
===============================================================================
