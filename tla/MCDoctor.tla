------------------------------ MODULE MCDoctor -------------------------------
(* Small instances of DoctorEngine for TLC: five engines, each with the     *)
(* collectors and rules that one kind of hypothesis involves.               *)
EXTENDS DoctorEngine

Seen(kind, subject, about, is) == [kind |-> kind, subject |-> subject, about |-> about, is |-> is]

\* A mod with a settled descriptor, and one that only has a foreign one.
ModHere    == Seen("mod", "m1", {"fabric"}, {"confirmed"})
ModForeign == Seen("mod", "m2", {"fabric"}, {"cross-loader", "single-candidate"})
ModOff     == Seen("mod", "m2", {"fabric"}, {"inactive", "confirmed"})
Guessed    == Seen("environment", "instance", {"forge"}, {})
Declared   == Seen("environment", "instance", {"fabric"}, {"authoritative"})
Bridge     == Seen("compatibility-bridge", "bridge", {"bridge"}, {"ambiguous"})
Anchor     == Seen("crash-anchor", "event", {"event"}, {})
Signal     == Seen("log-signal", "signal", {"event"}, {})
Frame      == Seen("stack-frame", "event", {"C", "m1"}, {})
Site       == Seen("mixin-site", "C", {"C"}, {"applicable"})
Call       == Seen("call-edge", "m1", {"lib"}, {})
Owner      == Seen("package-owner", "m2", {"lib"}, {})
Diff       == Seen("semantic-diff", "pair", {"w1", "w2"}, {"writers"})
Script     == Seen("script-mutation", "script", {"p1"}, {"recipe", "current"})
Noise      == Seen("resource-ast", "p2", {"shaped"}, {})
Cut        == Seen("scan-truncated", "scan", {"scan"}, {})

MCObservations == {ModHere, ModForeign, ModOff, Guessed, Declared, Bridge, Anchor, Signal,
                   Frame, Site, Call, Owner, Diff, Script, Noise, Cut}

MCKeepKinds == {"mod", "environment", "compatibility-bridge", "crash-anchor", "log-signal",
                "stack-frame", "package-owner", "scan-truncated"}

MCGraphKinds == {"mod", "environment", "stack-frame", "mixin-site", "package-owner",
                 "compatibility-bridge"}

MCCollectors == {"metadata", "logs", "mixins", "resources", "packs"}
MCScope == [c \in MCCollectors |->
  CASE c = "metadata" ->
         [produces |-> {"mod", "environment", "compatibility-bridge"},
          emits |-> {ModForeign, ModOff, Guessed, Declared, Bridge, Cut},
          regions |-> {"metadata"}, allOrNothing |-> FALSE,
          ends |-> {"active", "failed", "disabled"}]
    [] c = "logs" ->
         [produces |-> {}, emits |-> {Anchor, Signal, Frame, Declared},
          regions |-> {"logs"}, allOrNothing |-> TRUE,
          ends |-> {"active", "incomplete", "not-applicable"}]
    [] c = "mixins" ->
         [produces |-> {"mixin-site", "call-edge", "package-owner", "mod"},
          emits |-> {Site, Call, Owner, ModHere},
          regions |-> {"metadata"}, allOrNothing |-> FALSE,
          ends |-> {"active", "complete-empty"}]
    [] c = "resources" ->
         [produces |-> {}, emits |-> {Diff, Script, Noise},
          regions |-> {"datapacks", "scripts", "mutation-logs", "mod-classpath"}, allOrNothing |-> FALSE,
          ends |-> {"active", "incomplete"}]
    [] c = "packs" ->
         [produces |-> {}, emits |-> {Diff, Noise}, regions |-> {"datapacks"}, allOrNothing |-> FALSE,
          ends |-> {"active", "incomplete"}]]

Proposal(id, payload, conclusion, sev, proof, conf, reqs, cites, components) ==
  [id |-> id, payload |-> payload, family |-> "", conclusion |-> conclusion, sev |-> sev,
   proof |-> proof, conf |-> conf, reqs |-> reqs, cites |-> cites, tags |-> {},
   components |-> components, domain |-> "none", resource |-> FALSE]

Crash(sev, reqs) == Proposal("crash", "crash", "runtime-incident", sev, "observation", 95, reqs,
                             {<<"log-signal", "signal">>}, <<"m1">>)
\* Not a proof that the rule declares.
CrashGuessed == [Crash(Fatal, {"terminal-runtime"}) EXCEPT !.proof = "heuristic"]

Mismatch == Proposal("mismatch", "mismatch", "loader-mismatch", Error, "derivation", 95,
                     {"local-artifact", "active-descriptor", "known-bridge-semantics"},
                     {<<"mod", "m2">>, <<"environment", "instance">>}, <<"m2">>)
\* The mismatch of a rule that saw a truncated scan.
MismatchCut == [Mismatch EXCEPT !.cites = @ \union {<<"scan-truncated", "scan">>}]
\* The same identifier for another mod.
MismatchToo == [Mismatch EXCEPT !.payload = "other", !.components = <<"m3">>, !.sev = Warn]

Absent == Proposal("absent", "absent", "class-absent", Error, "derivation", 92,
                   {"local-artifact"}, {<<"mixin-site", "C">>}, <<"m1">>)
\* Another rule about the same class, without a contract.
AbsentLoose == [Absent EXCEPT !.proof = "none", !.reqs = {}, !.sev = Fatal]
\* The same, with a prerequisite its rule does not declare.
AbsentBeyond == [Absent EXCEPT !.reqs = @ \union {"runtime-evidence"}]
Unused  == Proposal("unused", "unused", "dependency-unused", Note, "heuristic", 80,
                    {"local-artifact"}, {<<"package-owner", "m2">>}, <<"m1", "m2">>)
Missing == Proposal("missing", "missing", "missing-dependency", Error, "derivation", 95,
                    {"local-artifact"}, {<<"package-owner", "m2">>}, <<"m2", "m1">>)

Recipe(p) == [Proposal("recipe " \o p, p, "static-resource-state", Warn, "derivation", 90,
                       {"relevant-resources", "known-runtime-mutators"},
                       {<<"semantic-diff", "pair">>}, <<p>>)
              EXCEPT !.family = "recipe-output-override", !.tags = {"semantic-override"},
                     !.domain = "recipe", !.resource = TRUE]
\* The byte-level view of the first recipe, and a model that conflicts.
Bytes == [Recipe("p1") EXCEPT !.id = "conflict p1", !.family = "json-override",
                              !.tags = {}, !.cites = {<<"resource-ast", "p2">>}]
Model == [Recipe("p9") EXCEPT !.id = "model p9", !.family = "model-override", !.sev = Note,
                              !.domain = "model"]

\* The override of an ingredient is a note, that of a document a warning.
Ingredient(p) == [Recipe(p) EXCEPT !.id = "ingredient " \o p, !.sev = Note,
                                   !.family = "recipe-ingredient-override"]
Override(p)   == [Recipe(p) EXCEPT !.id = "override " \o p, !.conclusion = "generic",
                                   !.family = "json-override", !.tags = {}, !.reqs = {}]
Foreign(m)    == [Mismatch EXCEPT !.id = "mismatch " \o m, !.payload = m]

Book(id, proofs, coverage, batches) ==
  [id |-> id, proofs |-> proofs, coverage |-> coverage, batches |-> batches]

Incidents == [pipeline |-> <<"metadata", "logs">>, targets |-> {{"mods"}},
  rules |-> <<Book("runtime", {"observation"}, {},
                   {<<>>, <<Crash(Fatal, {"terminal-runtime"})>>, <<Crash(Fatal, {"local-artifact"})>>,
                    <<CrashGuessed>>}),
              Book("loader", {}, {}, {<<>>, <<Mismatch>>, <<MismatchCut>>, <<MismatchToo, Mismatch>>})>>]

Hypotheses == [pipeline |-> <<"mixins", "logs">>, targets |-> {{}, {"mods"}},
  rules |-> <<Book("mixin", {"derivation"}, {"local-artifact"}, {<<>>, <<Absent>>, <<AbsentBeyond>>}),
              Book("loose", {}, {}, {<<>>, <<AbsentLoose>>}),
              Book("deps", {}, {}, {<<>>, <<Unused>>, <<Missing, Unused>>})>>]

Resources == [pipeline |-> <<"resources">>, targets |-> {{"mods"}},
  rules |-> <<Book("semantics", {}, {}, {<<>>, <<Recipe("p1")>>,
                    <<Recipe("p1"), Recipe("p2"), Recipe("p3")>>}),
              Book("bytes", {}, {}, {<<>>, <<Bytes>>, <<Model>>})>>]

\* Three findings of one cause: notes, warnings, gated errors.
Batches == [pipeline |-> <<"packs">>, targets |-> {{"mods"}},
  rules |-> <<Book("recipes", {}, {}, {<<>>, <<Ingredient("p1"), Ingredient("p2"), Ingredient("p3")>>}),
              Book("documents", {}, {}, {<<>>, <<Override("p4"), Override("p5"), Override("p6")>>})>>]

Loaders == [pipeline |-> <<"metadata">>, targets |-> {{"mods"}},
  rules |-> <<Book("loader", {}, {}, {<<>>, <<Foreign("m3"), Foreign("m4"), Foreign("m5")>>}),
              Book("warned", {}, {}, {<<>>, <<[Foreign("m3") EXCEPT !.sev = Warn]>>})>>]

MCEngines == {Incidents, Hypotheses, Resources, Batches, Loaders}

\* The proposals of these engines are such as the rules of the repository make.
ASSUME ModestAssumption == \A e \in MCEngines : Modest(e)
=============================================================================
