---------------------------- MODULE Dictionaries ----------------------------
(***************************************************************************)
(* deep_merge and flatten_parameters of launch/_config_layering.py as they *)
(* are written, recursing over nested dictionaries: a dictionary is a      *)
(* sequence of items, and a key the sequence of its names.  What           *)
(* ConfigLayers says of tables is compared with them.                      *)
(***************************************************************************)
EXTENDS LaunchSetup, SequencesExt

Mapping(items) == [kind |-> "map", items |-> items]

Item(key, value) == [key |-> key, value |-> value]

HasKey(items, key) == \E i \in DOMAIN items : items[i].key = key

Get(items, key) ==
  items[CHOOSE i \in DOMAIN items : items[i].key = key].value

HasMapping(items, key) == HasKey(items, key) /\ Get(items, key).kind = "map"

\* Assignment to a key of a dictionary: an old key keeps its place.
Put(items, key, value) ==
  IF HasKey(items, key)
  THEN [i \in DOMAIN items |->
          IF items[i].key = key THEN Item(key, value) ELSE items[i]]
  ELSE Append(items, Item(key, value))

\* deep_merge: mappings merge key by key, everything else replaces.
RECURSIVE MergeDictionaries(_, _)
MergeDictionaries(base, overlay) ==
  LET Both(result, item) ==
        Mapping(MergeDictionaries(Get(result, item.key).items, item.value.items))
      Merged(result, item) ==
        Put(result, item.key,
            IF item.value.kind = "map" /\ HasMapping(result, item.key)
            THEN Both(result, item) ELSE item.value)
  IN  FoldLeft(Merged, base, overlay)

\* flatten_parameters: where two items give the same key, the later one stays.
RECURSIVE FlattenDictionary(_, _)
FlattenDictionary(items, prefix) ==
  LET Flat(item) ==
        CASE item.value.kind = "map"  ->
               FlattenDictionary(item.value.items, prefix \o item.key)
          [] item.value.kind = "list" -> <<>>
          [] item.value.kind = "leaf" ->
               prefix \o item.key :> item.value.value
      Update(output, item) == Flat(item) @@ output
  IN  FoldLeft(Update, <<>>, items)

-----------------------------------------------------------------------------

\* The paths of the mapping at path, without those inside other mappings.
Inside(doc, path) ==
  {p \in DOMAIN doc :
     /\ p # path /\ Encloses(path, p)
     /\ \A q \in DOMAIN doc : Encloses(q, p) => q = p \/ Encloses(q, path)}

\* The dictionary that a table stands for, from the mapping at path on.
RECURSIVE Dictionary(_, _)
Dictionary(doc, path) ==
  LET Before(p, q) == doc[p].place < doc[q].place
      paths == SetToSortSeq(Inside(doc, path), Before)
      Value(p) == IF doc[p].kind = "map" THEN Mapping(Dictionary(doc, p))
                  ELSE doc[p]
  IN  [i \in DOMAIN paths |->
         Item(FullKey(SubSeq(paths[i], Len(path) + 1, Len(paths[i]))),
              Value(paths[i]))]

OverlayDictionary(base, layer) ==
  IF layer = NoFile THEN base
  ELSE MergeDictionaries(base, Dictionary(layer, <<>>))

\* The tables come to what the recursions compute, keys with dots included,
\* whose value depends on the order of all keys (launch/_config_layering.py:
\* 75-96, 105-110).
TablesFollowRecursion ==
  args # NoArguments /\ ~CannotLoad(args) =>
    FlattenDictionary(
      OverlayDictionary(OverlayDictionary(Dictionary(args.base, <<>>),
                                          ProfileOf(args)),
                        args.installation), <<>>)
      = FlattenParameters(Overlay(Overlay(args.base, ProfileOf(args)),
                                  args.installation))

=============================================================================
