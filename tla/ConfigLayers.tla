---------------------------- MODULE ConfigLayers ----------------------------
(***************************************************************************)
(* The configuration layers of the launch description:                     *)
(* launch/_config_layering.py.  A YAML mapping is a table of all paths     *)
(* into it: what stands there, and in which place, because a Python        *)
(* dictionary keeps the order of its keys and flattening depends on it.    *)
(* deep_merge and flatten_parameters recurse; here is what they come to.   *)
(* Dictionaries has the recursions, to compare.                            *)
(***************************************************************************)
EXTENDS Integers, Sequences

LOCAL INSTANCE FiniteSetsExt

CONSTANTS
  NoFile,     \* no file is asked for
  Broken,     \* a missing or unreadable file, or one without parameters
  Unset,      \* an argument left empty
  Malformed   \* an argument that its parser refuses

-----------------------------------------------------------------------------
(* Paths: "mavlink.baud" is one key of two names, joined by a dot, and not *)
(* the key "baud" in the mapping "mavlink".                                *)

Key(name) == [name |-> name, dotted |-> FALSE]

AfterDot(name) == [name |-> name, dotted |-> TRUE]

\* The key of a flat dictionary, and the path without dots that gives it.
FullKey(path) == [i \in 1 .. Len(path) |-> path[i].name]

PathTo(key) == [i \in 1 .. Len(key) |-> Key(key[i])]

Upto(path, n) == [i \in 1 .. n |-> path[i]]

\* A key ends with the n-th name.
Ends(path, n) == n < Len(path) => ~path[n + 1].dotted

\* Keys lead from outer on to inner; everything is inside the empty path.
Encloses(outer, inner) ==
  \E n \in 0 .. Len(inner) : outer = Upto(inner, n) /\ Ends(inner, n)

-----------------------------------------------------------------------------
(* Tables.  kind is "map", "leaf" (a scalar or a list with elements) or     *)
(* "list" (an empty one); place orders the keys.                           *)

Names == [name: STRING, dotted: BOOLEAN]

IsDocument(doc) ==
  \A path \in DOMAIN doc :
    /\ path \in Seq(Names) /\ path # <<>> /\ ~path[1].dotted
    /\ doc[path].kind \in {"map", "leaf", "list"}
    /\ DOMAIN doc[path] = {"kind", "place"}
         \cup (IF doc[path].kind = "leaf" THEN {"value"} ELSE {})
    /\ \A n \in 1 .. Len(path) - 1 :
         Ends(path, n) => /\ Upto(path, n) \in DOMAIN doc
                          /\ doc[Upto(path, n)].kind = "map"

Leaves(doc) == {path \in DOMAIN doc : doc[path].kind = "leaf"}

-----------------------------------------------------------------------------

\* Mutant: an overlay mapping replaces the base's instead of merging with it.
KeptByShallowMerge(base, overlay) ==
  {path \in DOMAIN base :
     \A outer \in DOMAIN overlay : ~Encloses(outer, path)}

\* What an overlay leaves of the base: only mappings merge.
Kept(base, overlay) ==
  {path \in DOMAIN base :
     \A outer \in DOMAIN overlay : Encloses(outer, path) =>
       base[outer].kind = "map" /\ overlay[outer].kind = "map"}

\* deep_merge: an old key keeps its place, a new one comes last.
DeepMerge(base, overlay) ==
  LET last == Max({base[path].place : path \in DOMAIN base} \cup {0})
  IN  [path \in Kept(base, overlay) \cup DOMAIN overlay |->
         IF path \notin DOMAIN overlay THEN base[path]
         ELSE [overlay[path] EXCEPT !.place =
                 IF path \in DOMAIN base THEN base[path].place ELSE last + @]]

\* The place of the key at which the way to path leaves the way to other.
Fork(doc, path, other) ==
  Min({doc[outer].place : outer \in
         {p \in DOMAIN doc : Encloses(p, path) /\ ~Encloses(p, other)}})

\* Mutant: the first one wins.
ComesBefore(doc, path, other) ==
  path # other => Fork(doc, path, other) < Fork(doc, other, path)

ComesAfter(doc, path, other) ==
  path # other => Fork(doc, path, other) > Fork(doc, other, path)

\* flatten_parameters: an empty list has no type and is left out; where two
\* paths give the same flat key, the later one's value stays.
FlattenParameters(doc) ==
  [key \in {FullKey(path) : path \in Leaves(doc)} |->
     LET path == CHOOSE p \in Leaves(doc) :
                   /\ FullKey(p) = key
                   /\ \A q \in Leaves(doc) :
                        FullKey(q) = key => ComesAfter(doc, p, q)
     IN  doc[path].value]

\* optional_cli_overrides for arguments none of which is malformed.
CliOverrides(raw) ==
  [key \in {k \in DOMAIN raw : raw[k] # Unset} |-> raw[key]]

Overlay(base, layer) ==
  IF layer = NoFile THEN base ELSE DeepMerge(base, layer)

\* build_effective_parameters for layers that can be loaded.
EffectiveParameters(base, profile, installation, raw) ==
  LET overrides == CliOverrides(raw)
      flattened ==
        FlattenParameters(Overlay(Overlay(base, profile), installation))
  IN  [key \in DOMAIN overrides \cup DOMAIN flattened |->
         IF key \in DOMAIN overrides THEN overrides[key] ELSE flattened[key]]

-----------------------------------------------------------------------------
(* What the layers mean, without merging anything: the highest layer that   *)
(* has something to say of a parameter decides.                             *)

\* What one document says of a parameter: nothing, that it is not a leaf
\* here, or the leaf.
Says(doc, key) ==
  LET path == PathTo(key)
  IN  CASE path \in Leaves(doc) -> <<"leaf", doc[path].value>>
        [] path \notin Leaves(doc)
             /\ \/ path \in DOMAIN doc
                \/ \E outer \in DOMAIN doc :
                     Encloses(outer, path) /\ doc[outer].kind # "map"
           -> <<"absent">>
        [] OTHER -> <<"silent">>

Decided(layers, raw, key) ==
  LET speaking == {i \in DOMAIN layers :
                     layers[i] # NoFile /\ Says(layers[i], key) # <<"silent">>}
      highest == CHOOSE i \in speaking : \A j \in speaking : j <= i
  IN  IF key \in DOMAIN raw /\ raw[key] # Unset THEN <<"leaf", raw[key]>>
      ELSE IF speaking = {} THEN <<"absent">>
      ELSE Says(layers[highest], key)

\* Some layer writes the parameter with a dotted key.
WrittenDotted(layers, key) ==
  \E i \in DOMAIN layers : layers[i] # NoFile /\
    \E path \in DOMAIN layers[i] : FullKey(path) = key /\ path # PathTo(key)

=============================================================================
