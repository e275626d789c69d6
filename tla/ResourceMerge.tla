---------------------------- MODULE ResourceMerge ----------------------------
(* What intermed-vfs does with the contents that several archives give for   *)
(* one resource path: the class of the collision, and the merge of the       *)
(* classes it calls safe.                                                    *)
(*                                                                           *)
(* A blob is the size and the document of one writer's entry; two blobs are  *)
(* the same bytes when both agree.  A document is, by the domain of its path *)
(*   tag              [values, remove, replace], an entry of values being    *)
(*                    [id, required], required among Null, TRUE and FALSE    *)
(*   lang-json, lang  a function from keys to texts                          *)
(*   sounds           a function from event names to Shapeless or to         *)
(*                    [sounds, replace, subtitle, extra]                     *)
(*   anything else    opaque                                                 *)
(* or, in every domain, Broken (it does not parse) or Shapeless (it parses   *)
(* as another kind of document).                                             *)
EXTENDS Naturals, Sequences, FiniteSets, FiniteSetsExt, SequencesExt

CONSTANTS
  Broken,     \* bytes that do not parse
  Shapeless,  \* JSON of another shape
  Null        \* no answer, no value

Unusable == {Broken, Shapeless}
Docs(blobs) == [i \in DOMAIN blobs |-> blobs[i].doc]
JsonDomains == {"tag", "lang-json", "sounds", "pack-meta", "atlas", "shader", "single", "json"}

-----------------------------------------------------------------------------
(* Tags.                                                                    *)

\* classify_tag_group: the first reason not to take the union.
TagClass(docs) ==
  IF \E i \in DOMAIN docs : docs[i] \in Unusable      THEN "tag-invalid"
  ELSE IF \E i \in DOMAIN docs : docs[i].remove # {}  THEN "tag-remove-order-dependent"
  ELSE IF \E i \in DOMAIN docs : docs[i].replace      THEN "tag-replace-order-dependent"
  ELSE IF \E i \in DOMAIN docs : \E v \in docs[i].values : v.required # Null THEN "tag-mixed-required"
  ELSE "safe-crdt-merge"

\* merge_tag_values: the ids of every writer; the flags are not kept.
MergeTags(docs) ==
  IF \E i \in DOMAIN docs : docs[i] \in Unusable \/ docs[i].replace \/ docs[i].remove # {}
  THEN Null
  ELSE [replace |-> FALSE, remove |-> {},
        values |-> {[id |-> v.id, required |-> Null] :
                      v \in UNION {docs[i].values : i \in DOMAIN docs}}]

-----------------------------------------------------------------------------
(* Languages.                                                               *)

Shared(docs, key) == {docs[i][key] : i \in {j \in DOMAIN docs : key \in DOMAIN docs[j]}}
Keys(docs)        == UNION {DOMAIN docs[i] : i \in DOMAIN docs}

\* classify_language_keys
LanguageClass(docs) ==
  IF \E key \in Keys(docs) : Cardinality(Shared(docs, key)) > 1 THEN "shared-conflicting-values"
  ELSE IF \E i, j \in DOMAIN docs : i # j /\ DOMAIN docs[i] \intersect DOMAIN docs[j] # {}
       THEN "shared-equal-values"
  ELSE "disjoint-keys"

\* merge_lang_json and merge_lang_properties: a later writer overwrites.
Definers(docs, key) == {i \in DOMAIN docs : key \in DOMAIN docs[i]}
Overwrite(docs)     == [key \in Keys(docs) |-> docs[Max(Definers(docs, key))][key]]

MergeLanguages(docs) ==
  IF \E i \in DOMAIN docs : docs[i] \in Unusable THEN Null ELSE Overwrite(docs)

-----------------------------------------------------------------------------
(* Sound definitions.                                                       *)

IsEvent(e) ==
  /\ e = [sounds |-> e.sounds, replace |-> e.replace, subtitle |-> e.subtitle, extra |-> e.extra]
  /\ e.sounds \in Seq(ToSet(e.sounds)) /\ e.replace \in BOOLEAN
IsSounds(doc) == doc \in Unusable \/ \A k \in DOMAIN doc : doc[k] = Shapeless \/ IsEvent(doc[k])

\* Two definitions of one event that cannot be appended.
Clash(previous, event) ==
  \/ previous.replace \/ event.replace
  \/ previous.subtitle # event.subtitle /\ Null \notin {previous.subtitle, event.subtitle}
  \/ previous.extra # event.extra

Append2(previous, event) ==
  [sounds   |-> previous.sounds \o event.sounds,
   replace  |-> previous.replace,
   subtitle |-> IF previous.subtitle = Null THEN event.subtitle ELSE previous.subtitle,
   extra    |-> previous.extra]

\* The loop classify_sound_group and merge_sound_definitions share; they
\* differ in the values of replace they refuse.  A definition that replaces
\* an event no other writer defines passes the first and not the second.
JoinSound(refused, seen, doc) ==
  IF \/ seen = Null \/ doc \in Unusable
     \/ \E k \in DOMAIN doc : \/ doc[k] = Shapeless \/ doc[k].replace \in refused
                              \/ k \in DOMAIN seen /\ Clash(seen[k], doc[k])
  THEN Null
  ELSE [k \in DOMAIN seen \union DOMAIN doc |->
          IF k \notin DOMAIN doc THEN seen[k]
          ELSE IF k \notin DOMAIN seen THEN doc[k]
          ELSE Append2(seen[k], doc[k])]

JoinSounds(docs, refused) ==
  FoldLeft(LAMBDA seen, doc : JoinSound(refused, seen, doc), [k \in {} |-> Null], docs)

SoundClass(docs) ==
  IF JoinSounds(docs, {}) = Null
  THEN "order-dependent-sound-def" ELSE "sound-event-merge"

MergeSounds(docs) == JoinSounds(docs, {TRUE})

-----------------------------------------------------------------------------
(* The collision of a group of blobs.                                       *)

Found(class, language) == [class |-> class, language |-> language]

\* classify_group
Classify(domain, blobs) ==
  LET docs    == Docs(blobs)
      parse   == \A i \in DOMAIN docs : docs[i] # Broken
      mapping == \A i \in DOMAIN docs : docs[i] \notin Unusable
  IN
  IF \A i \in DOMAIN blobs : blobs[i] = blobs[1] THEN Found("identical", Null)
  ELSE IF domain = "tag" THEN Found(TagClass(docs), Null)
  ELSE IF domain = "lang-json" /\ mapping THEN Found("lang-json-merge", LanguageClass(docs))
  ELSE IF domain = "lang" /\ mapping THEN Found("lang-properties-merge", LanguageClass(docs))
  ELSE IF domain = "pack-meta" THEN Found("root-metadata", Null)
  ELSE IF domain \notin JsonDomains THEN Found("binary-override", Null)
  ELSE IF ~parse THEN Found("unsafe-replace", Null)
  ELSE Found(CASE domain = "atlas"  -> "order-dependent-atlas"
               [] domain = "shader" -> "order-dependent-shader"
               [] domain = "sounds" -> SoundClass(docs)
               [] domain = "single" -> "json-override"
               [] OTHER             -> "json-merge-candidate", Null)

\* ResourceCollision::is_safe_merge
IsSafeMerge(collision) ==
  \/ collision.class \in {"identical", "safe-crdt-merge", "sound-event-merge"}
  \/ /\ collision.class \in {"lang-json-merge", "lang-properties-merge"}
     /\ collision.language \in {"disjoint-keys", "shared-equal-values"}

\* The merge overlay_bytes asks for; a collision it has none for is left to
\* the choice of a winner.
Mergeable(collision) == IsSafeMerge(collision) /\ collision.class # "identical"

Merged(collision, docs) ==
  CASE collision.class = "safe-crdt-merge"   -> MergeTags(docs)
    [] collision.class = "sound-event-merge" -> MergeSounds(docs)
    [] OTHER                                 -> MergeLanguages(docs)

-----------------------------------------------------------------------------
(* The resource stack of the game, bottom first, as the comments of          *)
(* intermed-vfs describe it: a tag appends unless it replaces or removes, a  *)
(* key of a language is its last writer's, a sound event is extended unless  *)
(* it is replaced, any other file is its last writer's.                      *)

Tagged(acc, doc) ==
  LET kept == IF doc.replace THEN {} ELSE acc
      new  == {<<v.id, IF v.required = FALSE THEN "optional" ELSE "required">> : v \in doc.values}
  IN {e \in kept \union new : e[1] \notin doc.remove}

\* The places of the sounds that the documents I give an event.
Places(docs, k, I) == UNION {{<<i, n>> : n \in DOMAIN docs[i][k].sounds} : i \in I}

\* An event: what its last replacement and the definitions above it give it.
Voiced(docs, k) ==
  LET by     == Definers(docs, k)
      from   == Max({1} \union {i \in by : docs[i][k].replace})
      spoken == {i \in by : i >= from /\ docs[i][k].subtitle # Null}
      places == Places(docs, k, {i \in by : i >= from})
      at(x)  == docs[x[1]][k].sounds[x[2]]
  IN [sounds   |-> [s \in {at(x) : x \in places} |-> Cardinality({x \in places : at(x) = s})],
      subtitle |-> IF spoken = {} THEN Null ELSE docs[Max(spoken)][k].subtitle,
      extra    |-> docs[Max(by)][k].extra]

Heard(docs) == [k \in Keys(docs) |-> Voiced(docs, k)]

Effective(domain, docs) ==
  CASE domain = "tag"                   -> FoldLeft(Tagged, {}, docs)
    [] domain \in {"lang-json", "lang"} -> Overwrite(docs)
    [] domain = "sounds"                -> Heard(docs)
    [] OTHER                            -> docs[Len(docs)]
=============================================================================
