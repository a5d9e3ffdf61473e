-------------------------- MODULE LaunchSetupProofs -------------------------
(***************************************************************************)
(* What the launch description makes of the configuration layers, for all  *)
(* files, arguments and parameters: the last layer that says anything of a *)
(* parameter wins, and whatever comes out is a launch that Launch has.     *)
(***************************************************************************)
EXTENDS LaunchSetup, LaunchProofs

-----------------------------------------------------------------------------
(* Paths.                                                                  *)

\* The first n names of a path.
LEMMA UptoIsPath ==
  ASSUME NEW path \in Seq(Names), NEW n \in 0 .. Len(path)
  PROVE  /\ Upto(path, n) \in Seq(Names)
         /\ Len(Upto(path, n)) = n
         /\ \A i \in 1 .. n : Upto(path, n)[i] = path[i]
BY DEF Upto

LEMMA UptoUpto ==
  ASSUME NEW path \in Seq(Names), NEW n \in 0 .. Len(path), NEW m \in 0 .. n
  PROVE  Upto(Upto(path, n), m) = Upto(path, m)
BY DEF Upto

LEMMA UptoEnd ==
  ASSUME NEW path \in Seq(Names)
  PROVE  Upto(path, Len(path)) = path
BY DEF Upto

\* What is inside a mapping is inside those that this mapping is inside.
LEMMA EnclosesTransitive ==
  ASSUME NEW a, NEW b, NEW c \in Seq(Names), Encloses(a, b), Encloses(b, c)
  PROVE  Encloses(a, c)
<1>1. PICK n \in 0 .. Len(c) : b = Upto(c, n) /\ Ends(c, n)
  BY DEF Encloses
<1>2. Len(b) = n /\ \A i \in 1 .. n : b[i] = c[i]
  BY <1>1, UptoIsPath
<1>3. PICK m \in 0 .. n : a = Upto(b, m) /\ Ends(b, m)
  BY <1>2 DEF Encloses
<1>4. a = Upto(c, m)
  BY <1>1, <1>3, UptoUpto
<1>5. Ends(c, m)
  BY <1>1, <1>2, <1>3 DEF Ends
<1> QED
  BY <1>3, <1>4, <1>5 DEF Encloses

\* The path without dots is the one of its flat key.
LEMMA FullKeyOfPath ==
  ASSUME NEW S, NEW key \in Seq(S)
  PROVE  FullKey(PathTo(key)) = key
BY DEF FullKey, PathTo, Key

-----------------------------------------------------------------------------
(* Merging.                                                                *)

\* One entry of a document.
EntryOk(doc, path) ==
  /\ path \in Seq(Names) /\ path # <<>> /\ ~path[1].dotted
  /\ doc[path].kind \in {"map", "leaf", "list"}
  /\ DOMAIN doc[path] = {"kind", "place"}
       \cup (IF doc[path].kind = "leaf" THEN {"value"} ELSE {})

LEMMA EntriesOk ==
  ASSUME NEW doc, IsDocument(doc), NEW path \in DOMAIN doc
  PROVE  EntryOk(doc, path)
BY DEF IsDocument, EntryOk

\* On the way to a path of a document there are mappings only.
LEMMA MapsOnTheWay ==
  ASSUME NEW doc, IsDocument(doc), NEW path \in DOMAIN doc,
         NEW outer, Encloses(outer, path), outer # <<>>, outer # path
  PROVE  outer \in DOMAIN doc /\ doc[outer].kind = "map"
<1>1. path \in Seq(Names)
  BY DEF IsDocument
<1>2. PICK n \in 0 .. Len(path) : outer = Upto(path, n) /\ Ends(path, n)
  BY DEF Encloses
<1>3. n # Len(path)
  BY <1>1, <1>2, UptoEnd
<1>4. n # 0
  BY <1>2 DEF Upto
<1>5. n \in 1 .. Len(path) - 1
  BY <1>1, <1>2, <1>3, <1>4
<1> QED
  BY <1>2, <1>5 DEF IsDocument

\* Which paths a merge has, and what it has there.
LEMMA MergeDomain ==
  ASSUME NEW base, NEW overlay
  PROVE  /\ DOMAIN DeepMerge(base, overlay) = Kept(base, overlay) \cup DOMAIN overlay
         /\ Kept(base, overlay) \subseteq DOMAIN base
BY DEF DeepMerge, Kept

LEMMA MergeTakes ==
  ASSUME NEW base, NEW overlay, IsDocument(overlay), NEW path \in DOMAIN overlay
  PROVE  /\ DOMAIN DeepMerge(base, overlay)[path] = DOMAIN overlay[path]
         /\ DeepMerge(base, overlay)[path].kind = overlay[path].kind
         /\ overlay[path].kind = "leaf" =>
              DeepMerge(base, overlay)[path].value = overlay[path].value
<1>1. PICK place : DeepMerge(base, overlay)[path] =
                     [overlay[path] EXCEPT !.place = place]
  BY DEF DeepMerge
<1>2. /\ "kind" \in DOMAIN overlay[path]
      /\ overlay[path].kind = "leaf" => "value" \in DOMAIN overlay[path]
  BY DEF IsDocument
<1> QED
  BY <1>1, <1>2

LEMMA MergeKeeps ==
  ASSUME NEW base, NEW overlay,
         NEW path \in Kept(base, overlay), path \notin DOMAIN overlay
  PROVE  DeepMerge(base, overlay)[path] = base[path]
BY DEF DeepMerge

\* Merging documents gives a document.
LEMMA MergeIsDocument ==
  ASSUME NEW base, NEW overlay, IsDocument(base), IsDocument(overlay)
  PROVE  IsDocument(DeepMerge(base, overlay))
<1> DEFINE merged == DeepMerge(base, overlay)
<1>1. /\ DOMAIN merged = Kept(base, overlay) \cup DOMAIN overlay
      /\ Kept(base, overlay) \subseteq DOMAIN base
  BY MergeDomain
<1>2. ASSUME NEW path \in DOMAIN overlay
      PROVE  /\ DOMAIN merged[path] = DOMAIN overlay[path]
             /\ merged[path].kind = overlay[path].kind
  BY MergeTakes
<1>3. ASSUME NEW path \in Kept(base, overlay), path \notin DOMAIN overlay
      PROVE  merged[path] = base[path]
  BY <1>3, MergeKeeps
<1> HIDE DEF merged
<1>4. ASSUME NEW path \in DOMAIN merged
      PROVE  EntryOk(merged, path)
  <2>1. CASE path \in DOMAIN overlay
    <3>1. EntryOk(overlay, path)
      BY <2>1, EntriesOk
    <3> QED
      BY <1>2, <2>1, <3>1 DEF EntryOk
  <2>2. CASE path \in Kept(base, overlay) \ DOMAIN overlay
    <3>1. EntryOk(base, path)
      BY <1>1, <2>2, EntriesOk
    <3> QED
      BY <1>3, <2>2, <3>1 DEF EntryOk
  <2> QED
    BY <1>1, <1>4, <2>1, <2>2
<1>5. ASSUME NEW path \in DOMAIN overlay, NEW n \in 1 .. Len(path) - 1,
             Ends(path, n)
      PROVE  Upto(path, n) \in DOMAIN merged /\ merged[Upto(path, n)].kind = "map"
  <2>1. Upto(path, n) \in DOMAIN overlay /\ overlay[Upto(path, n)].kind = "map"
    BY <1>5 DEF IsDocument
  <2> QED
    BY <1>1, <1>2, <2>1
<1>6. ASSUME NEW path \in Kept(base, overlay), NEW n \in 1 .. Len(path) - 1,
             Ends(path, n)
      PROVE  Upto(path, n) \in DOMAIN merged /\ merged[Upto(path, n)].kind = "map"
  <2> DEFINE outer == Upto(path, n)
  <2>1. outer \in DOMAIN base /\ base[outer].kind = "map"
    BY <1>1, <1>6 DEF IsDocument
  <2>2. path \in Seq(Names)
    BY <1>1 DEF IsDocument
  <2>3. Encloses(outer, path)
    BY <1>6, <2>2 DEF Encloses
  <2> HIDE DEF outer
  <2>4. ASSUME NEW other \in DOMAIN overlay, Encloses(other, outer)
        PROVE  base[other].kind = "map" /\ overlay[other].kind = "map"
    <3>1. Encloses(other, path)
      BY <2>2, <2>3, <2>4, EnclosesTransitive
    <3> QED
      BY <3>1 DEF Kept
  <2>5. outer \in Kept(base, overlay)
    BY <2>1, <2>4 DEF Kept
  <2>6. outer \in DOMAIN overlay => overlay[outer].kind = "map"
    BY <2>3 DEF Kept
  <2>7. outer \in DOMAIN merged /\ merged[outer].kind = "map"
    BY <1>1, <1>2, <1>3, <2>1, <2>5, <2>6
  <2> QED
    BY <2>7 DEF outer
<1> QED
  <2>1. ASSUME NEW path \in DOMAIN merged, NEW n \in 1 .. Len(path) - 1,
               Ends(path, n)
        PROVE  Upto(path, n) \in DOMAIN merged /\ merged[Upto(path, n)].kind = "map"
    BY <1>1, <1>5, <1>6, <2>1
  <2>2. IsDocument(merged)
    BY <1>4, <2>1 DEF IsDocument, EntryOk
  <2> QED
    BY <2>2 DEF merged

\* What a document leaves of a parameter: its leaf, or nothing.
Tells(doc, path) ==
  IF path \in Leaves(doc) THEN <<"leaf", doc[path].value>> ELSE <<"absent">>

\* What one document says of a path: Says, of paths in place of keys.
SaysOf(doc, path) ==
  IF path \in Leaves(doc) THEN <<"leaf", doc[path].value>>
  ELSE IF path \in DOMAIN doc \/
          \E outer \in DOMAIN doc :
            Encloses(outer, path) /\ doc[outer].kind # "map"
  THEN <<"absent">> ELSE <<"silent">>

LEMMA SaysOfPath ==
  ASSUME NEW doc, NEW key
  PROVE  Says(doc, key) = SaysOf(doc, PathTo(key))
<1> DEFINE path == PathTo(key)
           other == \/ path \in DOMAIN doc
                    \/ \E outer \in DOMAIN doc :
                         Encloses(outer, path) /\ doc[outer].kind # "map"
<1>1. CASE path \in Leaves(doc)
  BY <1>1 DEF Says, SaysOf
<1>2. CASE path \notin Leaves(doc) /\ other
  BY <1>2 DEF Says, SaysOf
<1>3. CASE path \notin Leaves(doc) /\ ~other
  BY <1>3 DEF Says, SaysOf
<1> QED
  BY <1>1, <1>2, <1>3

\* A merge tells what the overlay says, and else what the base tells.
LEMMA MergeTells ==
  ASSUME NEW base, NEW overlay, IsDocument(base), IsDocument(overlay), NEW path
  PROVE  Tells(DeepMerge(base, overlay), path) =
           IF SaysOf(overlay, path) = <<"silent">> THEN Tells(base, path)
           ELSE SaysOf(overlay, path)
<1> DEFINE merged == DeepMerge(base, overlay)
<1>1. /\ DOMAIN merged = Kept(base, overlay) \cup DOMAIN overlay
      /\ Kept(base, overlay) \subseteq DOMAIN base
  BY MergeDomain
<1>2. path \in DOMAIN overlay =>
        /\ merged[path].kind = overlay[path].kind
        /\ overlay[path].kind = "leaf" => merged[path].value = overlay[path].value
  BY MergeTakes
<1>3. path \in Kept(base, overlay) \ DOMAIN overlay => merged[path] = base[path]
  BY MergeKeeps
<1> HIDE DEF merged
<1>4. SUFFICES Tells(merged, path) =
        IF SaysOf(overlay, path) = <<"silent">> THEN Tells(base, path)
        ELSE SaysOf(overlay, path)
  BY DEF merged
<1>5. CASE path \in Leaves(overlay)
  <2>1. SaysOf(overlay, path) = <<"leaf", overlay[path].value>>
    BY <1>5 DEF SaysOf
  <2>2. path \in Leaves(merged) /\ merged[path].value = overlay[path].value
    BY <1>1, <1>2, <1>5 DEF Leaves
  <2> QED
    BY <2>1, <2>2 DEF Tells
<1>6. CASE path \in DOMAIN overlay \ Leaves(overlay)
  <2>1. SaysOf(overlay, path) = <<"absent">>
    BY <1>6 DEF SaysOf
  <2>2. path \notin Leaves(merged)
    BY <1>2, <1>6 DEF Leaves
  <2> QED
    BY <2>1, <2>2 DEF Tells
<1>7. CASE path \notin DOMAIN overlay
           /\ \E outer \in DOMAIN overlay :
                Encloses(outer, path) /\ overlay[outer].kind # "map"
  <2>1. SaysOf(overlay, path) = <<"absent">>
    BY <1>7 DEF SaysOf, Leaves
  <2>2. path \notin Leaves(merged)
    BY <1>1, <1>7 DEF Leaves, Kept
  <2> QED
    BY <2>1, <2>2 DEF Tells
<1>8. CASE path \notin DOMAIN overlay
           /\ \A outer \in DOMAIN overlay :
                Encloses(outer, path) => overlay[outer].kind = "map"
  <2>1. SaysOf(overlay, path) = <<"silent">>
    BY <1>8 DEF SaysOf, Leaves
  <2>2. ASSUME path \in DOMAIN base
        PROVE  path \in Kept(base, overlay)
    <3>1. ASSUME NEW outer \in DOMAIN overlay, Encloses(outer, path)
          PROVE  base[outer].kind = "map"
      <4>1. outer # <<>> /\ outer # path
        BY <1>8, <3>1 DEF IsDocument
      <4> QED
        BY <2>2, <3>1, <4>1, MapsOnTheWay
    <3> QED
      BY <1>8, <2>2, <3>1 DEF Kept
  <2>3. path \in Leaves(merged) <=> path \in Leaves(base)
    BY <1>1, <1>3, <1>8, <2>2 DEF Leaves
  <2>4. path \in Leaves(base) => merged[path] = base[path]
    BY <1>3, <1>8, <2>2 DEF Leaves
  <2> QED
    BY <2>1, <2>3, <2>4 DEF Tells
<1> QED
  BY <1>5, <1>6, <1>7, <1>8

-----------------------------------------------------------------------------
(* Flattening.                                                             *)

\* No path of the document writes the key with a dot.
NoDots(doc, key) ==
  \A path \in DOMAIN doc : FullKey(path) = key => path = PathTo(key)

\* What the flat dictionary has for a key that nothing writes with a dot.
LEMMA FlattenTells ==
  ASSUME NEW doc, NEW S, NEW key \in Seq(S), NoDots(doc, key)
  PROVE  Tells(doc, PathTo(key)) =
           IF key \in DOMAIN FlattenParameters(doc)
           THEN <<"leaf", FlattenParameters(doc)[key]>> ELSE <<"absent">>
<1> DEFINE path == PathTo(key)
           Wins(p) == /\ FullKey(p) = key
                      /\ \A q \in Leaves(doc) :
                           FullKey(q) = key => ComesAfter(doc, p, q)
<1>1. FullKey(path) = key
  BY FullKeyOfPath
<1>2. \A p \in Leaves(doc) : FullKey(p) = key => p = path
  BY DEF NoDots, Leaves
<1>3. key \in DOMAIN FlattenParameters(doc) <=> path \in Leaves(doc)
  BY <1>1, <1>2 DEF FlattenParameters
<1>4. ASSUME path \in Leaves(doc)
      PROVE  FlattenParameters(doc)[key] = doc[path].value
  <2>1. Wins(path)
    BY <1>1, <1>2 DEF ComesAfter
  <2>2. \A p \in Leaves(doc) : Wins(p) => p = path
    BY <1>2
  <2>3. (CHOOSE p \in Leaves(doc) : Wins(p)) = path
    <3> HIDE DEF path, Wins
    <3> QED
      BY <1>4, <2>1, <2>2
  <2>4. FlattenParameters(doc)[key] =
          doc[CHOOSE p \in Leaves(doc) : Wins(p)].value
    BY <1>3, <1>4 DEF FlattenParameters
  <2> HIDE DEF path, Wins
  <2> QED
    BY <2>3, <2>4
<1> HIDE DEF path
<1>5. CASE path \in Leaves(doc)
  BY <1>3, <1>4, <1>5 DEF Tells, path
<1>6. CASE path \notin Leaves(doc)
  BY <1>3, <1>6 DEF Tells, path
<1> QED
  BY <1>5, <1>6

-----------------------------------------------------------------------------
(* Three layers.                                                           *)

\* A file that can be loaded, or none.
LayerOk(layer) == layer = NoFile \/ IsDocument(layer)

Silent(layer, key) ==
  layer = NoFile \/ SaysOf(layer, PathTo(key)) = <<"silent">>

LEMMA OverlayTells ==
  ASSUME NEW base, NEW layer, IsDocument(base), LayerOk(layer), NEW key
  PROVE  /\ IsDocument(Overlay(base, layer))
         /\ Tells(Overlay(base, layer), PathTo(key)) =
              IF Silent(layer, key) THEN Tells(base, PathTo(key))
              ELSE SaysOf(layer, PathTo(key))
<1>1. CASE layer = NoFile
  BY <1>1 DEF Overlay, Silent
<1>2. CASE layer # NoFile
  <2>1. IsDocument(layer)
    BY <1>2 DEF LayerOk
  <2>2. Overlay(base, layer) = DeepMerge(base, layer)
    BY <1>2 DEF Overlay
  <2> QED
    BY <1>2, <2>1, <2>2, MergeIsDocument, MergeTells DEF Silent
<1> QED
  BY <1>1, <1>2

\* Overlaying adds no other paths than those of the two files.
LEMMA OverlayPaths ==
  ASSUME NEW base, NEW layer, NEW path \in DOMAIN Overlay(base, layer)
  PROVE  path \in DOMAIN base \/ (layer # NoFile /\ path \in DOMAIN layer)
<1>1. CASE layer = NoFile
  BY <1>1 DEF Overlay
<1>2. CASE layer # NoFile
  <2>1. path \in DOMAIN DeepMerge(base, layer)
    BY <1>2 DEF Overlay
  <2> QED
    BY <1>2, <2>1, MergeDomain
<1> QED
  BY <1>1, <1>2

Merged(base, profile, installation) ==
  Overlay(Overlay(base, profile), installation)

LEMMA MergedIsDocument ==
  ASSUME NEW base, NEW profile, NEW installation,
         IsDocument(base), LayerOk(profile), LayerOk(installation)
  PROVE  IsDocument(Merged(base, profile, installation))
BY OverlayTells DEF Merged

\* The highest layer that is not silent tells.
LEMMA MergedTells ==
  ASSUME NEW base, NEW profile, NEW installation, NEW key,
         IsDocument(base), LayerOk(profile), LayerOk(installation)
  PROVE  Tells(Merged(base, profile, installation), PathTo(key)) =
           IF ~Silent(installation, key) THEN SaysOf(installation, PathTo(key))
           ELSE IF ~Silent(profile, key) THEN SaysOf(profile, PathTo(key))
           ELSE Tells(base, PathTo(key))
<1>1. IsDocument(Overlay(base, profile))
  BY OverlayTells
<1>2. Tells(Overlay(base, profile), PathTo(key)) =
        IF Silent(profile, key) THEN Tells(base, PathTo(key))
        ELSE SaysOf(profile, PathTo(key))
  BY OverlayTells
<1>3. Tells(Merged(base, profile, installation), PathTo(key)) =
        IF Silent(installation, key)
        THEN Tells(Overlay(base, profile), PathTo(key))
        ELSE SaysOf(installation, PathTo(key))
  BY <1>1, OverlayTells DEF Merged
<1> QED
  BY <1>2, <1>3

LEMMA MergedHasNoDots ==
  ASSUME NEW base, NEW profile, NEW installation, NEW key,
         base # NoFile, ~WrittenDotted(<<base, profile, installation>>, key)
  PROVE  NoDots(Merged(base, profile, installation), key)
<1> DEFINE layers == <<base, profile, installation>>
<1> SUFFICES ASSUME NEW path \in DOMAIN Merged(base, profile, installation),
                    FullKey(path) = key
             PROVE  path = PathTo(key)
  BY DEF NoDots
<1>1. \/ path \in DOMAIN base
      \/ profile # NoFile /\ path \in DOMAIN profile
      \/ installation # NoFile /\ path \in DOMAIN installation
  BY OverlayPaths DEF Merged
<1>2. DOMAIN layers = 1 .. 3 /\ layers[1] = base /\ layers[2] = profile
      /\ layers[3] = installation
  OBVIOUS
<1>3. PICK i \in DOMAIN layers : layers[i] # NoFile /\ path \in DOMAIN layers[i]
  <2> HIDE DEF layers
  <2> QED
    BY <1>1, <1>2
<1> QED
  BY <1>3 DEF WrittenDotted

\* The same without merging: Decided, where no argument overrides.
LEMMA DecidedByHighest ==
  ASSUME NEW base, NEW profile, NEW installation, NEW raw, NEW key,
         base # NoFile, ~(key \in DOMAIN raw /\ raw[key] # Unset)
  PROVE  Decided(<<base, profile, installation>>, raw, key) =
           IF ~Silent(installation, key) THEN SaysOf(installation, PathTo(key))
           ELSE IF ~Silent(profile, key) THEN SaysOf(profile, PathTo(key))
           ELSE Tells(base, PathTo(key))
<1> DEFINE layers == <<base, profile, installation>>
           speaking == {i \in DOMAIN layers :
                          layers[i] # NoFile /\ Says(layers[i], key) # <<"silent">>}
           highest == CHOOSE i \in speaking : \A j \in speaking : j <= i
<1>1. DOMAIN layers = 1 .. 3 /\ layers[1] = base /\ layers[2] = profile
      /\ layers[3] = installation
  OBVIOUS
<1>2. Decided(layers, raw, key) =
        IF speaking = {} THEN <<"absent">> ELSE Says(layers[highest], key)
  BY DEF Decided
<1>3. speaking = {i \in 1 .. 3 : ~Silent(layers[i], key)}
  BY <1>1, SaysOfPath DEF Silent
<1> HIDE DEF layers, speaking
<1>4. ASSUME NEW i \in speaking, \A j \in speaking : j <= i
      PROVE  Decided(layers, raw, key) = SaysOf(layers[i], PathTo(key))
  <2>1. speaking \subseteq Int
    BY <1>3
  <2>2. highest \in speaking /\ \A j \in speaking : j <= highest
    BY <1>4
  <2>3. highest = i
    <3> HIDE DEF highest
    <3> QED
      BY <1>4, <2>1, <2>2
  <2> HIDE DEF highest
  <2> QED
    BY <1>2, <2>2, <2>3, SaysOfPath
<1>5. CASE ~Silent(installation, key)
  <2>1. 3 \in speaking /\ \A j \in speaking : j <= 3
    BY <1>1, <1>3, <1>5
  <2> QED
    BY <1>1, <1>4, <1>5, <2>1 DEF layers
<1>6. CASE Silent(installation, key) /\ ~Silent(profile, key)
  <2>1. 2 \in speaking /\ \A j \in speaking : j <= 2
    BY <1>1, <1>3, <1>6
  <2> QED
    BY <1>1, <1>4, <1>6, <2>1 DEF layers
<1>7. CASE Silent(installation, key) /\ Silent(profile, key)
  <2>1. speaking \subseteq {1}
    BY <1>1, <1>3, <1>7
  <2>2. CASE Silent(base, key)
    <3>1. speaking = {}
      BY <1>1, <1>3, <2>1, <2>2
    <3>2. Tells(base, PathTo(key)) = <<"absent">>
      BY <2>2 DEF Silent, SaysOf, Tells
    <3> QED
      BY <1>2, <1>7, <3>1, <3>2 DEF layers
  <2>3. CASE ~Silent(base, key)
    <3>1. 1 \in speaking /\ \A j \in speaking : j <= 1
      BY <1>1, <1>3, <2>1, <2>3
    <3>2. Tells(base, PathTo(key)) = SaysOf(base, PathTo(key))
      BY <2>3 DEF Silent, SaysOf, Tells
    <3> QED
      BY <1>1, <1>4, <1>7, <3>1, <3>2 DEF layers
  <2> QED
    BY <2>2, <2>3
<1> QED
  BY <1>5, <1>6, <1>7

-----------------------------------------------------------------------------
(* The parameters of a launch whose files and arguments can be read.       *)

Readable(a) == ArgumentsOk(a) /\ ~CannotLoad(a) /\ ~CannotParse(a)

MergedOf(a) == Merged(a.base, ProfileOf(a), a.installation)

LEMMA LayersAreOk ==
  ASSUME NEW a, Readable(a)
  PROVE  /\ a.base # NoFile /\ IsDocument(a.base)
         /\ LayerOk(ProfileOf(a)) /\ LayerOk(a.installation)
BY DEF Readable, ArgumentsOk, CannotLoad, LayerOk, ProfileOf

LEMMA ParametersAre ==
  ASSUME NEW a, NEW key
  PROVE  /\ key \in DOMAIN ParametersOf(a) <=>
              \/ key \in DOMAIN a.cli /\ a.cli[key] # Unset
              \/ key \in DOMAIN FlattenParameters(MergedOf(a))
         /\ key \in DOMAIN a.cli /\ a.cli[key] # Unset =>
              ParametersOf(a)[key] = a.cli[key]
         /\ key \in DOMAIN FlattenParameters(MergedOf(a))
            /\ ~(key \in DOMAIN a.cli /\ a.cli[key] # Unset) =>
              ParametersOf(a)[key] = FlattenParameters(MergedOf(a))[key]
<1> DEFINE overrides == CliOverrides(a.cli)
           flattened == FlattenParameters(MergedOf(a))
<1>1. ParametersOf(a) =
        [k \in DOMAIN overrides \cup DOMAIN flattened |->
           IF k \in DOMAIN overrides THEN overrides[k] ELSE flattened[k]]
  BY DEF ParametersOf, EffectiveParameters, MergedOf, Merged
<1>2. /\ key \in DOMAIN overrides <=> key \in DOMAIN a.cli /\ a.cli[key] # Unset
      /\ key \in DOMAIN overrides => overrides[key] = a.cli[key]
  BY DEF CliOverrides
<1> HIDE DEF overrides
<1> QED
  BY <1>1, <1>2

\* The layers decide what a launch makes of its parameters.
LEMMA LayersDecide ==
  ASSUME NEW a, Readable(a), NEW key \in Seq(STRING),
         ~WrittenDotted(LayersOf(a), key)
  PROVE  Decided(LayersOf(a), a.cli, key) =
           IF key \in DOMAIN ParametersOf(a)
           THEN <<"leaf", ParametersOf(a)[key]>> ELSE <<"absent">>
<1>1. CASE key \in DOMAIN a.cli /\ a.cli[key] # Unset
  BY <1>1, ParametersAre DEF Decided
<1>2. CASE ~(key \in DOMAIN a.cli /\ a.cli[key] # Unset)
  <2>1. Decided(LayersOf(a), a.cli, key) = Tells(MergedOf(a), PathTo(key))
    BY <1>2, LayersAreOk, MergedTells, DecidedByHighest DEF LayersOf, MergedOf
  <2>2. NoDots(MergedOf(a), key)
    BY LayersAreOk, MergedHasNoDots DEF LayersOf, MergedOf
  <2>3. Tells(MergedOf(a), PathTo(key)) =
          IF key \in DOMAIN FlattenParameters(MergedOf(a))
          THEN <<"leaf", FlattenParameters(MergedOf(a))[key]>> ELSE <<"absent">>
    BY <2>2, FlattenTells
  <2> QED
    BY <1>2, <2>1, <2>3, ParametersAre
<1> QED
  BY <1>1, <1>2

\* The arguments are those of the launch until it is set up, once.
ArgumentsInv == args \in Arguments \cup {NoArguments}

LEMMA ArgumentsStay == SetupSpec => []ArgumentsInv
<1>1. SetupInit => ArgumentsInv
  BY DEF SetupInit, ArgumentsInv
<1>2. ArgumentsInv /\ [SetupNext]_setupVars => ArgumentsInv'
  BY DEF ArgumentsInv, SetupNext, setupVars, SetUpLaunch, Trouble, StartOne,
         TfArrives, SectorsArrive, Send, Settle
<1> QED
  BY <1>1, <1>2, PTL DEF SetupSpec

\* Whatever three files and a command line hold, each parameter that no file
\* spells with a dot has the value of the highest layer that says anything of
\* it (launch/_config_layering.py:75-112).
THEOREM HighestLayerDecides == SetupSpec => []LastLayerWins
<1>1. ArgumentsInv => LastLayerWins
  <2> SUFFICES ASSUME ArgumentsInv, args # NoArguments,
                      ~CannotLoad(args), ~CannotParse(args),
                      NEW key \in Parameters, ~WrittenDotted(LayersOf(args), key)
               PROVE  Decided(LayersOf(args), args.cli, key) =
                        IF key \in DOMAIN ParametersOf(args)
                        THEN <<"leaf", ParametersOf(args)[key]>> ELSE <<"absent">>
    BY DEF LastLayerWins
  <2>1. Readable(args) /\ key \in Seq(STRING)
    BY SetupAssumption DEF ArgumentsInv, Readable
  <2> QED
    BY <2>1, LayersDecide
<1> QED
  BY <1>1, ArgumentsStay, PTL

-----------------------------------------------------------------------------
(* What is launched is a launch of Launch.                                 *)

\* All scalars of a parameter are of one type.
AllIn(doc, path, type) == path \in Leaves(doc) => doc[path].value \in type

LEMMA TellsIn ==
  ASSUME NEW doc, NEW path, NEW type
  PROVE  AllIn(doc, path, type) <=>
           Tells(doc, path) = <<"absent">> \/
           \E value \in type : Tells(doc, path) = <<"leaf", value>>
<1>1. CASE path \in Leaves(doc)
  <2>1. Tells(doc, path) = <<"leaf", doc[path].value>>
    BY <1>1 DEF Tells
  <2> QED
    BY <1>1, <2>1 DEF AllIn
<1>2. CASE path \notin Leaves(doc)
  BY <1>2 DEF AllIn, Tells
<1> QED
  BY <1>1, <1>2

LEMMA OverlayIn ==
  ASSUME NEW base, NEW layer, IsDocument(base), LayerOk(layer), NEW path, NEW type,
         AllIn(base, path, type), layer # NoFile => AllIn(layer, path, type)
  PROVE  AllIn(Overlay(base, layer), path, type)
<1>1. CASE layer = NoFile
  BY <1>1 DEF Overlay
<1>2. CASE layer # NoFile
  <2>1. IsDocument(layer) /\ Overlay(base, layer) = DeepMerge(base, layer)
    BY <1>2 DEF LayerOk, Overlay
  <2>2. ASSUME path \in DOMAIN layer
        PROVE  AllIn(DeepMerge(base, layer), path, type)
    BY <1>2, <2>1, <2>2, MergeTakes DEF AllIn, Leaves
  <2>3. ASSUME path \notin DOMAIN layer
        PROVE  AllIn(DeepMerge(base, layer), path, type)
    <3>1. CASE path \in Kept(base, layer)
      <4>1. DeepMerge(base, layer)[path] = base[path] /\ path \in DOMAIN base
        BY <2>3, <3>1, MergeDomain, MergeKeeps
      <4> QED
        BY <4>1 DEF AllIn, Leaves
    <3>2. CASE path \notin Kept(base, layer)
      <4>1. path \notin DOMAIN DeepMerge(base, layer)
        <5>1. DOMAIN DeepMerge(base, layer) = Kept(base, layer) \cup DOMAIN layer
          BY MergeDomain
        <5> QED
          BY <2>3, <3>2, <5>1
      <4> QED
        BY <4>1 DEF AllIn, Leaves
    <3> QED
      BY <3>1, <3>2
  <2> QED
    BY <2>1, <2>2, <2>3
<1> QED
  BY <1>1, <1>2

LEMMA SimTimeIsKey ==
  SimTime \in Seq({"use_sim_time"}) /\ Len(SimTime) = 1 /\ SimTime[1] = "use_sim_time"
BY DEF SimTime

\* use_sim_time has no other spelling: it is a single name.
LEMMA SimTimePath ==
  ASSUME NEW doc, IsDocument(doc)
  PROVE  NoDots(doc, SimTime)
<1> SUFFICES ASSUME NEW path \in DOMAIN doc, FullKey(path) = SimTime
             PROVE  path = PathTo(SimTime)
  BY DEF NoDots
<1>1. path \in Seq(Names) /\ ~path[1].dotted
  BY EntriesOk DEF EntryOk
<1>2. Len(path) = 1 /\ path[1].name = "use_sim_time"
  <2>1. Len(FullKey(path)) = Len(path)
    BY <1>1 DEF FullKey
  <2>2. Len(path) = 1
    BY <2>1 DEF SimTime
  <2>3. FullKey(path)[1] = path[1].name
    BY <2>2 DEF FullKey
  <2> QED
    BY <2>2, <2>3 DEF SimTime
<1>3. path[1] = Key("use_sim_time")
  <2>1. path[1] \in Names
    <3>1. 1 \in 1 .. Len(path)
      BY <1>2
    <3> QED
      BY <1>1, <3>1
  <2>2. path[1] = [name |-> path[1].name, dotted |-> path[1].dotted]
    BY <2>1 DEF Names
  <2>3. path[1].dotted = FALSE
    BY <1>1, <2>1 DEF Names
  <2> QED
    BY <1>2, <2>2, <2>3 DEF Key
<1>4. PathTo(SimTime) = [i \in 1 .. 1 |-> Key("use_sim_time")]
  BY SimTimeIsKey DEF PathTo
<1>5. path = [i \in 1 .. 1 |-> Key("use_sim_time")]
  BY <1>1, <1>2, <1>3
<1> QED
  BY <1>4, <1>5

LEMMA SimTimeIsBoolean ==
  ASSUME NEW a, Readable(a)
  PROVE  Parameter(ParametersOf(a), SimTime, FALSE) \in BOOLEAN
<1> DEFINE path == PathTo(SimTime)
<1>1. SimTime \in Seq({"use_sim_time"}) /\ FullKey(path) = SimTime
  BY SimTimeIsKey, FullKeyOfPath
<1>2. /\ AllIn(a.base, path, BOOLEAN)
      /\ ProfileOf(a) # NoFile => AllIn(ProfileOf(a), path, BOOLEAN)
      /\ a.installation # NoFile => AllIn(a.installation, path, BOOLEAN)
  BY <1>1 DEF Readable, ArgumentsOk, CannotLoad, ProfileOf, AllIn
<1>3. AllIn(Overlay(a.base, ProfileOf(a)), path, BOOLEAN)
      /\ IsDocument(Overlay(a.base, ProfileOf(a)))
  BY <1>2, LayersAreOk, OverlayIn, OverlayTells
<1>4. AllIn(MergedOf(a), path, BOOLEAN)
  BY <1>2, <1>3, LayersAreOk, OverlayIn DEF MergedOf, Merged
<1>5. NoDots(MergedOf(a), SimTime)
  BY LayersAreOk, MergedIsDocument, SimTimePath DEF MergedOf
<1>6. SimTime \in DOMAIN FlattenParameters(MergedOf(a)) =>
        FlattenParameters(MergedOf(a))[SimTime] \in BOOLEAN
  <2>1. ASSUME SimTime \in DOMAIN FlattenParameters(MergedOf(a))
        PROVE  FlattenParameters(MergedOf(a))[SimTime] \in BOOLEAN
    <3>1. Tells(MergedOf(a), path) =
            <<"leaf", FlattenParameters(MergedOf(a))[SimTime]>>
      BY <1>1, <1>5, <2>1, FlattenTells
    <3> QED
      BY <1>4, <3>1, TellsIn
  <2> QED
    BY <2>1
<1>7. SimTime \in DOMAIN a.cli /\ a.cli[SimTime] # Unset =>
        a.cli[SimTime] \in BOOLEAN
  BY DEF Readable, ArgumentsOk, CannotParse
<1> QED
  BY <1>6, <1>7, ParametersAre DEF Parameter

\* A launch that is not refused is one of Configs.
LEMMA ConfigIsOne ==
  ASSUME NEW a, ArgumentsOk(a), ~LaunchRefused(a)
  PROVE  ConfigOf(a) \in Configs
<1>1. Readable(a)
  BY DEF LaunchRefused, Readable
<1>2. a.respawn \in BOOLEAN
  BY <1>1 DEF Readable, ArgumentsOk, CannotParse
<1>3. ({"cloud"} \cup (IF a.start_mavlink THEN {"sender"} ELSE {})
                \cup (IF StaticTf(a) THEN {"tf"} ELSE {})) \in SUBSET Processes
  BY DEF Processes
<1>4. CloudStarts(ParametersOf(a)) \in BOOLEAN /\ SenderStarts(ParametersOf(a)) \in BOOLEAN
  BY DEF CloudStarts, SenderStarts
<1>5. ContractHolds(ParametersOf(a)) \in BOOLEAN
  BY DEF ContractHolds
<1>6. Parameter(ParametersOf(a), SimTime, FALSE) \in BOOLEAN
  BY <1>1, SimTimeIsBoolean
<1> QED
  BY <1>2, <1>3, <1>4, <1>5, <1>6 DEF ConfigOf, Configs

\* Nothing runs before the launch is set up.
SetupInv ==
  /\ ArgumentsInv
  /\ args # NoArguments => config = NothingLaunched

LEMMA SetupInvInductive == SetupInv /\ [SetupNext]_setupVars => SetupInv'
<1> SUFFICES ASSUME SetupInv, [SetupNext]_setupVars
             PROVE  SetupInv'
  OBVIOUS
<1>1. CASE SetUpLaunch
  BY <1>1 DEF SetUpLaunch, SetupInv, ArgumentsInv
<1>2. ASSUME args' = args, config' = config
      PROVE  SetupInv'
  BY <1>2 DEF SetupInv, ArgumentsInv
<1>3. CASE Trouble \/ TfArrives \/ SectorsArrive \/ Send
  BY <1>2, <1>3 DEF Trouble, TfArrives, SectorsArrive, Send, CrashNode, LearnTf,
                    ReceiveSectors, SendDistances, ToggleClock
<1>4. CASE \E p \in Processes : StartOne(p)
  BY <1>2, <1>4 DEF StartOne, StartNode, FailStart
<1>5. CASE Settle \/ UNCHANGED setupVars
  BY <1>2, <1>5 DEF Settle, setupVars, launchVars
<1> QED
  BY <1>1, <1>3, <1>4, <1>5 DEF SetupNext

\* Every launch that the files and arguments can bring about is one that
\* Launch's theorems are about (launch/aero_halo_360.launch.py:67-199).
THEOREM SetupImplementsLaunch == SetupSpec => LaunchSpec
<1>1. SetupInit => LaunchInit /\ SetupInv
  BY DEF SetupInit, SetupInv, ArgumentsInv, LaunchInit
<1>2. SetupInv /\ [SetupNext]_setupVars => [LaunchNext]_launchVars
  <2> SUFFICES ASSUME SetupInv, [SetupNext]_setupVars
               PROVE  [LaunchNext]_launchVars
    OBVIOUS
  <2>1. CASE SetUpLaunch
    <3>1. CASE LaunchRefused(args)
      BY <2>1, <3>1 DEF SetUpLaunch
    <3>2. CASE ~LaunchRefused(args)
      <4>1. args \in Arguments /\ config = NothingLaunched
        BY <2>1 DEF SetUpLaunch, SetupInv, ArgumentsInv
      <4>2. ConfigOf(args) \in Configs
        BY <3>2, <4>1, ConfigIsOne, SetupAssumption
      <4>3. LaunchNodes(ConfigOf(args))
        BY <2>1, <3>2 DEF SetUpLaunch
      <4> QED
        BY <4>1, <4>2, <4>3 DEF LaunchNext
    <3> QED
      BY <3>1, <3>2
  <2>2. CASE Trouble
    BY <2>2 DEF Trouble, LaunchNext, NodesNext
  <2>3. CASE \E p \in Processes : StartOne(p)
    BY <2>3 DEF StartOne, LaunchNext, NodesNext
  <2>4. CASE TfArrives
    BY <2>4 DEF TfArrives, LaunchNext, NodesNext
  <2>5. CASE SectorsArrive
    BY <2>5 DEF SectorsArrive, LaunchNext, NodesNext
  <2>6. CASE Send
    <3>1. (proc["cloud"] # "up") \in BOOLEAN
      OBVIOUS
    <3> QED
      BY <2>6, <3>1 DEF Send, LaunchNext, NodesNext
  <2>7. CASE Settle \/ UNCHANGED setupVars
    BY <2>7 DEF Settle, setupVars
  <2> QED
    BY <2>1, <2>2, <2>3, <2>4, <2>5, <2>6, <2>7 DEF SetupNext
<1> QED
  BY <1>1, <1>2, SetupInvInductive, PTL DEF SetupSpec, LaunchSpec

\* The type invariant of the run's own specification.
THEOREM SetupTypeCorrect == SetupSpec => []LaunchTypeOK
BY SetupImplementsLaunch, LaunchTypeCorrect, PTL

\* Two nodes whose files disagree never put distances on the wire, whatever
\* layers they disagree by (launch/aero_halo_360.launch.py:113).
THEOREM DisagreeingFilesAreSafe == SetupSpec => []DisagreeingNodesShowWall
BY SetupImplementsLaunch, DisagreementIsSafe, PTL

=============================================================================
