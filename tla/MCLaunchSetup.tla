--------------------------- MODULE MCLaunchSetup ----------------------------
(***************************************************************************)
(* Small YAML files for LaunchSetup: every way in which a layer can touch  *)
(* the one before, and every argument the launch description reads.        *)
(***************************************************************************)
EXTENDS Dictionaries

At(path, kind) == [path |-> path, kind |-> kind]

ScalarAt(path, value) == [path |-> path, kind |-> "leaf", value |-> value]

\* A top-level group of scalars.
Group(name, names, values) ==
  <<At(<<Key(name)>>, "map")>>
  \o [i \in DOMAIN names |-> ScalarAt(<<Key(name), Key(names[i])>>, values[i])]

Document(entries) ==
  [path \in {entries[i].path : i \in DOMAIN entries} |->
     LET place == CHOOSE i \in DOMAIN entries : entries[i].path = path
     IN  [field \in DOMAIN entries[place] \ {"path"} |-> entries[place][field]]
         @@ [place |-> place]]

Dotted(name, value) == <<ScalarAt(<<Key("mavlink"), AfterDot(name)>>, value)>>

Ranges(cloud, sender) ==
  Group("range_filter", <<"max_range_m">>, <<cloud>>)
  \o Group("mavlink", <<"max_distance_cm">>, <<sender>>)

StaticTfFile(parent) ==
  LET group == <<Key("installation"), Key("static_tf")>>
  IN  Document(<<At(<<Key("installation")>>, "map"), At(group, "map"),
                 ScalarAt(group \o <<Key("enable")>>, TRUE),
                 ScalarAt(group \o <<Key("parent_frame")>>, parent),
                 ScalarAt(group \o <<Key("child_frame")>>, "livox_frame")>>)

DefaultBase ==
  <<ScalarAt(<<Key("target_frame")>>, "base_link")>>
  \o Group("range_filter", <<"min_range_m", "max_range_m">>, <<25, 1000>>)
  \o Group("inflation", <<"max_inflate_bins">>, <<36>>)
  \o Group("watchdog", <<"cloud_warn_timeout_ms", "filtered_empty_is_clear",
                         "filtered_empty_warn_only">>, <<400, FALSE, FALSE>>)
  \o Group("mavlink", <<"max_distance_cm", "input_warn_timeout_ms">>, <<1000, 600>>)

\* deep_merge keeps the place of a key: the dotted one comes last here.
Bases ==
  {Document(DefaultBase),
   Document(DefaultBase \o Dotted("max_distance_cm", 600)),
   Document(Dotted("max_distance_cm", 600) \o DefaultBase)}

Profiles ==
  {NoFile, Broken,
   Document(Group("mavlink", <<"input_warn_timeout_ms">>, <<1000>>)),
   Document(Group("mavlink", <<"input_warn_timeout_ms", "input_fail_timeout_ms">>,
                             <<1000, 1500>>)),
   Document(Group("watchdog", <<"cloud_warn_timeout_ms">>, <<800>>)),
   Document(<<ScalarAt(<<Key("mavlink")>>, 0)>>),
   Document(<<At(<<Key("mavlink")>>, "map"),
              At(<<Key("mavlink"), Key("max_distance_cm")>>, "list")>>),
   Document(Dotted("max_distance_cm", 600)),
   Document(Ranges(600, 600))}

Installations ==
  {NoFile, Broken, Document(Ranges(1000, 600)), Document(Ranges(600, 600)),
   StaticTfFile("base_link"), StaticTfFile("livox_frame"),
   StaticTfFile("vehicle"), StaticTfFile("")}

\* One parameter of a pair that a node checks, or both nodes compare, together:
\* most files are refused over the default base and some are not, and some
\* need each other (a range of 500 is accepted with the layers up to 500).
PairProfiles ==
  {NoFile,
   Document(Group("sectorizer", <<"near_range_m", "mid_range_m">>, <<200, 500>>)),
   Document(Group("height_filter", <<"z_min_m">>, <<200>>)),
   Document(Group("voxel_filter", <<"enable", "leaf_size_m">>, <<FALSE, 0>>)),
   Document(Group("radius_outlier", <<"radius_m">>, <<0>>)),
   Document(Group("inflation", <<"max_inflate_bins">>, <<14>>)),
   Document(Group("inflation", <<"max_inflate_bins">>, <<15>>)),
   Document(Group("vehicle", <<"radius_m">>, <<20>>)
            \o Group("inflation", <<"max_inflate_bins">>, <<13>>)),
   Document(Group("inflation", <<"enable", "max_inflate_bins">>, <<FALSE, 6>>)),
   Document(Group("watchdog", <<"virtual_wall_cm">>, <<20>>)),
   Document(Group("watchdog", <<"filtered_empty_warn_only">>, <<TRUE>>)),
   Document(Group("watchdog", <<"filtered_empty_is_clear",
                               "filtered_empty_warn_only">>, <<TRUE, TRUE>>)),
   Document(Group("mavlink", <<"virtual_wall_cm">>, <<550>>)),
   Document(Group("mavlink", <<"reconnect_initial_ms">>, <<20000>>)),
   Document(Group("mavlink", <<"angle_offset_deg">>, <<45>>)),
   Document(Group("mavlink", <<"baud">>, <<Invalid>>)),
   Document(Group("temporal_filter", <<"clear_frames">>, <<Invalid>>))}

PairInstallations ==
  {NoFile, Document(Ranges(500, 500)), Document(Ranges(600, 600)),
   Document(Group("range_filter", <<"min_range_m">>, <<30>>)),
   Document(Group("mavlink", <<"min_distance_cm">>, <<90>>)),
   Document(Group("range_filter", <<"min_range_m">>, <<30>>)
            \o Group("mavlink", <<"min_distance_cm">>, <<30>>))}

\* Every small file: "mavlink" is nothing, a scalar, an empty list or a mapping
\* in which the range is nothing, a scalar or an empty list; and so is the range
\* with a dotted key, before or after.
SmallFiles(value) ==
  LET group == <<Key("mavlink")>>
      NoMap(path) == {<<At(path, "list")>>, <<ScalarAt(path, value)>>}
      Nested ==
        {<<>>, <<At(group, "map")>>} \cup NoMap(group)
        \cup {<<At(group, "map")>> \o r :
                r \in NoMap(<<Key("mavlink"), Key("max_distance_cm")>>)}
      WithDot ==
        {<<>>} \cup NoMap(<<Key("mavlink"), AfterDot("max_distance_cm")>>)
  IN  {Document(n \o d) : n \in Nested, d \in WithDot}
      \cup {Document(d \o n) : n \in Nested, d \in WithDot}

Overrides ==
  {[target_frame |-> Unset, fail |-> Unset, sim |-> Unset],
   [target_frame |-> "vehicle", fail |-> Unset, sim |-> TRUE],
   [target_frame |-> Unset, fail |-> 600, sim |-> Unset],
   [target_frame |-> Unset, fail |-> 1500, sim |-> FALSE],
   [target_frame |-> Unset, fail |-> Malformed, sim |-> Unset]}

Raw(o) ==
  <<"target_frame">> :> o.target_frame
  @@ <<"mavlink", "input_fail_timeout_ms">> :> o.fail
  @@ <<"use_sim_time">> :> o.sim

Plain ==
  [base |-> Document(DefaultBase), profile |-> NoFile, explicit |-> NoFile,
   installation |-> NoFile,
   cli |-> Raw([target_frame |-> Unset, fail |-> Unset, sim |-> Unset]),
   respawn |-> TRUE, start_mavlink |-> TRUE, static_tf |-> Unset,
   parent |-> Unset, child |-> Unset, vectors |-> Unset]

\* Every combination of layers ...
LayerArguments ==
  {[Plain EXCEPT !.base = b, !.profile = p, !.installation = i, !.cli = Raw(o)] :
     b \in Bases, p \in Profiles, i \in Installations, o \in Overrides}

\* ... of files that set one of two parameters that must fit, ...
PairArguments ==
  {[Plain EXCEPT !.profile = p, !.installation = i] :
     p \in PairProfiles, i \in PairInstallations}

\* ... every combination of three small files, ...
SmallFileArguments ==
  {[Plain EXCEPT !.base = b, !.profile = p, !.installation = i] :
     b \in SmallFiles(1), p \in SmallFiles(2), i \in SmallFiles(3)}

\* ... every combination of arguments about processes and the transform, ...
ProcessArguments ==
  {[Plain EXCEPT !.installation = i, !.respawn = r, !.start_mavlink = m,
                 !.static_tf = t] :
     i \in {NoFile, Document(Ranges(600, 1000)), StaticTfFile("base_link"),
            StaticTfFile("")},
     r \in {TRUE, FALSE, Malformed}, m \in {TRUE, FALSE, Malformed},
     t \in {Unset, TRUE, FALSE, Malformed}}

TransformArguments ==
  {[Plain EXCEPT !.static_tf = TRUE, !.parent = p, !.child = c, !.vectors = v] :
     p \in {Unset, "vehicle", "livox_frame"}, c \in {Unset, "base_link"},
     v \in {Unset, TRUE, Malformed}}

\* ... and profiles by name, by path and both, each respawned or not.
ProfileArguments ==
  {[Plain EXCEPT !.profile = p, !.explicit = e, !.respawn = r] :
     p \in Profiles, e \in Profiles, r \in BOOLEAN}

MCArguments ==
  LayerArguments \cup PairArguments \cup SmallFileArguments \cup ProcessArguments
  \cup TransformArguments \cup ProfileArguments

MCParameters ==
  {<<"target_frame">>, <<"use_sim_time">>, <<"range_filter", "max_range_m">>,
   <<"watchdog", "cloud_warn_timeout_ms">>, <<"mavlink">>,
   <<"inflation", "max_inflate_bins">>,
   <<"mavlink", "max_distance_cm">>, <<"mavlink", "input_warn_timeout_ms">>,
   <<"mavlink", "input_fail_timeout_ms">>,
   <<"installation", "static_tf", "enable">>,
   <<"installation", "static_tf", "parent_frame">>}

=============================================================================
