------------------------------ MODULE MCOverlay ------------------------------
(* Small instances of Overlay for TLC.                                      *)
EXTENDS Overlay, TLC

CONSTANTS p1, p2, absent

MCNames  == <<"atlas", "en", "en.json", "en.lang", "mcmeta", "png", "recipe", "sounds", "tag">>
MCRank   == [n \in ToSet(MCNames) |-> CHOOSE i \in DOMAIN MCNames : MCNames[i] = n]
MCPaths  == ToSet(MCNames) \ {"en"}
MCDomain == ("atlas" :> "atlas") @@ ("en.json" :> "lang-json") @@ ("en.lang" :> "lang")
         @@ ("mcmeta" :> "pack-meta") @@ ("png" :> "binary") @@ ("recipe" :> "single")
         @@ ("sounds" :> "sounds") @@ ("tag" :> "tag")
MCLocale == [p \in MCPaths |-> IF p \in {"en.json", "en.lang"} THEN "en" ELSE Null]

Value(id, flag) == [id |-> id, required |-> flag]
Tag(values, remove, replace) == [values |-> values, remove |-> remove, replace |-> replace]
TagDocs == {Tag({Value("x", Null)}, {}, FALSE), Tag({Value("y", Null)}, {}, FALSE),
            Tag({Value("x", FALSE)}, {}, FALSE), Tag({}, {"x"}, FALSE),
            Tag({Value("y", Null)}, {}, TRUE), Shapeless}

LangDocs == {"k" :> "A", "k" :> "B", "m" :> "A", ("k" :> "A") @@ ("m" :> "B"), Broken}

Event(sounds, replace, subtitle, extra) ==
  [sounds |-> sounds, replace |-> replace, subtitle |-> subtitle, extra |-> extra]
SoundDocs == {"e" :> Event(<<"s">>, FALSE, Null, 0), "e" :> Event(<<"t">>, FALSE, "A", 0),
              "e" :> Event(<<>>, FALSE, "B", 0), "e" :> Event(<<"s">>, FALSE, Null, 1),
              "f" :> Event(<<"s">>, TRUE, Null, 0), "e" :> Event(<<"t">>, TRUE, Null, 0)}

Entry(path, size, doc) == [path |-> path, size |-> size, doc |-> doc]

\* One path, given its content by two archives or by three.
One(path, docs) ==
  {[j \in Jars |-> IF c[j] = absent THEN <<>> ELSE <<Entry(path, 1, c[j])>>] :
     c \in {f \in [Jars -> docs \union {absent}] : f[1] # absent /\ f[2] # absent}}

\* Two formats of one locale, and two entries of one archive for one path.
Formats == {[j \in Jars |-> IF j = 1 THEN <<Entry("en.json", 1, "k" :> "A")>> \o twice
                            ELSE IF j = 2 THEN <<Entry("en.lang", 1, "k" :> "A")>>
                            ELSE <<Entry("en.json", 1, d)>>] :
              d \in LangDocs, twice \in {<<>>, <<Entry("png", 1, "A"), Entry("png", 1, "B")>>}}

\* Paths of several sizes: what a batch may hold is PathCap.  An entry of
\* size 3 is beyond EntryCap.
Old == <<"A", "B">>
Sized == {[j \in Jars |->
            IF j = 3 THEN <<Entry("png", s[1], "C")>>
            ELSE <<Entry("atlas", s[1], Old[j]), Entry("png", s[2], Old[j]), Entry("recipe", s[3], Old[j])>>] :
              s \in [1 .. 3 -> 0 .. 3]}

\* Three archives whose entries meet PathCap exactly before the last, that is
\* empty or not.
Edge == {[j \in Jars |-> IF j = 3 THEN <<Entry("png", s, "C")>>
                         ELSE <<Entry("atlas", 1, Old[j]), Entry("png", IF j = 1 THEN 2 ELSE 1, Old[j])>>] :
           s \in 0 .. 2}

\* The contents are many and one run of one process reads them all; for a
\* few three runs of two processes share them, with an archive replaced under them.
Contents == One("tag", TagDocs) \union One("sounds", SoundDocs) \union One("en.json", LangDocs)
     \union One("en.lang", LangDocs) \union One("mcmeta", {"A", "B"}) \union Formats \union Sized \union Edge

Plain  == Tag({Value("x", Null)}, {}, FALSE)
Shares == {[j \in Jars |-> IF j = 1 THEN <<Entry("png", s, "A"), Entry("tag", 1, Plain)>>
                           ELSE IF j = 2 THEN <<Entry("png", 2, "B"), Entry("tag", 1, d)>>
                           ELSE <<Entry("recipe", 1, "A")>>] :
             s \in {1, 2}, d \in {Plain, Tag({Value("y", Null)}, {}, FALSE)}}

MCPacks       == Contents \union Shares
MCMaxRuns     == [pack \in MCPacks |-> IF pack \in Shares THEN 3 ELSE 1]
MCMaxReplaced == [pack \in MCPacks |-> IF pack \in Shares THEN 1 ELSE 0]

MCReplacements == {Unreadable, <<Entry("tag", 2, Tag({Value("z", TRUE)}, {}, FALSE)),
                                 Entry("sounds", 2, "e" :> Event(<<>>, TRUE, Null, 0))>>}

ProcessSymmetry == Permutations(Processes)
=============================================================================
