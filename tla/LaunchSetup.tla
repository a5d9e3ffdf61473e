---------------------------- MODULE LaunchSetup -----------------------------
(***************************************************************************)
(* launch/aero_halo_360.launch.py: _launch_setup computes the parameters   *)
(* of both nodes from the configuration layers and the arguments, decides  *)
(* which processes to start, or refuses to start any.  Composed with those *)
(* processes.  settled is the moment from which nothing more goes wrong.   *)
(***************************************************************************)
EXTENDS Launch, ConfigLayers

CONSTANTS
  Invalid,      \* a value that a node refuses whatever its other parameters are
  Arguments,    \* the launch arguments to try
  Parameters    \* the parameters to compare with the layers' meaning

\* use_sim_time is a boolean wherever it is set: the nodes' parameter has that
\* type.
SimTime == <<"use_sim_time">>

ArgumentsOk(a) ==
  /\ \A layer \in {a.base, a.profile, a.explicit, a.installation} :
       \/ layer \in {NoFile, Broken}
       \/ /\ IsDocument(layer)
          /\ \A path \in Leaves(layer) :
               FullKey(path) = SimTime => layer[path].value \in BOOLEAN
  /\ a.base # NoFile
  /\ SimTime \in DOMAIN a.cli
       => a.cli[SimTime] \in BOOLEAN \cup {Unset, Malformed}
  /\ a.respawn \in BOOLEAN \cup {Malformed}

ASSUME SetupAssumption ==
  /\ \A a \in Arguments : ArgumentsOk(a)
  /\ Parameters \subseteq Seq(STRING)

VARIABLES
  args,         \* the arguments of the launch to come
  settled       \* from now on nothing crashes, everything is in time

setupVars == <<launchVars, args, settled>>

NoArguments == [used |-> TRUE]

-----------------------------------------------------------------------------
(* The nodes' checks of their parameters, with their own defaults: lengths *)
(* in centimetres, times in milliseconds.  Invalid stands for all that a   *)
(* condition on one parameter (or on one self-mask box) refuses; here are  *)
(* the conditions that relate parameters.                                  *)

Parameter(parameters, key, default) ==
  IF key \in DOMAIN parameters THEN parameters[key] ELSE default

CloudMin(parameters) ==
  Parameter(parameters, <<"range_filter", "min_range_m">>, 25)

CloudMax(parameters) ==
  Parameter(parameters, <<"range_filter", "max_range_m">>, 1000)

SenderMin(parameters) ==
  Parameter(parameters, <<"mavlink", "min_distance_cm">>, 25)

SenderMax(parameters) ==
  Parameter(parameters, <<"mavlink", "max_distance_cm">>, 1000)

\* 0 < low < high.
Ordered(low, high) == 0 < low /\ low < high

\* A filter that is enabled needs a length.
LengthIfEnabled(parameters, group, length) ==
  Parameter(parameters, <<group, "enable">>, TRUE) =>
    Parameter(parameters, <<group, length>>, 1) > 0

\* The tangents of n times 5 degrees, in thousandths.
Tangents == <<87, 176, 268, 364, 466, 577, 700, 839, 1000, 1192, 1428, 1732,
              2145, 2747, 3732, 5671, 11430>>

\* max_inflate_bins = 0 or >= ceil(atan(width / distance) / 5 degrees): that
\* many sectors cover the width at the distance.
Covers(bins, width, distance) ==
  \/ bins = 0 \/ bins > Len(Tangents)
  \/ 1000 * width <= Tangents[bins] * distance

\* The vehicle's radius and safety margin; the parameters of vehicle come first.
VehicleWidth(parameters) ==
  Parameter(parameters, <<"vehicle", "radius_m">>,
    Parameter(parameters, <<"inflation", "vehicle_radius_m">>, 45))
  + Parameter(parameters, <<"vehicle", "safety_extra_m">>,
      Parameter(parameters, <<"inflation", "safety_extra_m">>, 25))

\* Ranges and layers of validateParameters.
CloudLengthsOk(parameters) ==
  LET min == CloudMin(parameters)
      max == CloudMax(parameters)
      near == Parameter(parameters, <<"sectorizer", "near_range_m">>, 300)
      mid == Parameter(parameters, <<"sectorizer", "mid_range_m">>, 600)
      wall == Parameter(parameters, <<"watchdog", "virtual_wall_cm">>, 80)
  IN  /\ Ordered(min, max)
      /\ Parameter(parameters, <<"height_filter", "z_min_m">>, -40)
           < Parameter(parameters, <<"height_filter", "z_max_m">>, 120)
      /\ LengthIfEnabled(parameters, "voxel_filter", "leaf_size_m")
      /\ LengthIfEnabled(parameters, "radius_outlier", "radius_m")
      /\ 0 < near /\ near <= mid /\ mid <= max
      /\ min <= wall /\ wall <= max
      /\ Parameter(parameters, <<"inflation", "enable">>, TRUE) =>
           Covers(Parameter(parameters, <<"inflation", "max_inflate_bins">>, 6),
                  VehicleWidth(parameters), min)

\* validateParameters of the cloud node.
CloudStarts(parameters) ==
  /\ \A key \in DOMAIN parameters :
       key[1] # "mavlink" => parameters[key] # Invalid
  /\ CloudLengthsOk(parameters)
  /\ Ordered(Parameter(parameters, <<"watchdog", "cloud_warn_timeout_ms">>, 400),
             Parameter(parameters, <<"watchdog", "cloud_fail_timeout_ms">>, 800))
  /\ Parameter(parameters, <<"watchdog", "filtered_empty_warn_only">>, TRUE) =>
       Parameter(parameters, <<"watchdog", "filtered_empty_is_clear">>, TRUE)

\* validate_parameters of the sender.
SenderStarts(parameters) ==
  LET min == SenderMin(parameters)
      max == SenderMax(parameters)
      wall == Parameter(parameters, <<"mavlink", "virtual_wall_cm">>, 80)
      initial == Parameter(parameters, <<"mavlink", "reconnect_initial_ms">>, 500)
  IN  /\ \A key \in DOMAIN parameters :
           key[1] = "mavlink" => parameters[key] # Invalid
      /\ Ordered(min, max)
      /\ min <= wall /\ wall <= max
      /\ Ordered(Parameter(parameters, <<"mavlink", "input_warn_timeout_ms">>, 600),
                 Parameter(parameters, <<"mavlink", "input_fail_timeout_ms">>, 1000))
      /\ 0 < initial
      /\ initial <= Parameter(parameters, <<"mavlink", "reconnect_max_ms">>, 10000)

\* validate_sector_contract compares what the cloud node states with the
\* sender's own parameters.  Each fixes its sector width to 5 degrees; the
\* cloud node states an angle offset of zero, whatever the sender's is.
ContractHolds(parameters) ==
  /\ CloudMin(parameters) = SenderMin(parameters)
  /\ CloudMax(parameters) = SenderMax(parameters)
  /\ Parameter(parameters, <<"mavlink", "angle_offset_deg">>, 0) = 0

-----------------------------------------------------------------------------
(* _launch_setup.                                                          *)

\* _resolve_profile; a named profile is given as the file it names.
ProfileOf(a) == IF a.explicit # NoFile THEN a.explicit ELSE a.profile

\* Lowest priority first.
LayersOf(a) == <<a.base, ProfileOf(a), a.installation>>

ParametersOf(a) ==
  EffectiveParameters(a.base, ProfileOf(a), a.installation, a.cli)

TfKey(name) == <<"installation", "static_tf", name>>

\* An argument of the static transform, or the layers' value, or the default.
TfSetting(a, argument, parameters, name, default) ==
  IF argument # Unset THEN argument
  ELSE Parameter(parameters, TfKey(name), default)

StaticTf(a) == TfSetting(a, a.static_tf, ParametersOf(a), "enable", FALSE)

ParentFrame(a) ==
  TfSetting(a, a.parent, ParametersOf(a), "parent_frame", "base_link")

ChildFrame(a) ==
  TfSetting(a, a.child, ParametersOf(a), "child_frame", "livox_frame")

\* xyz and rpy together: whether each is three numbers, which must be finite
\* in an argument and may be anything in a file.
VectorsOk(a) == TfSetting(a, a.vectors, ParametersOf(a), "vectors", TRUE) = TRUE

CannotLoad(a) ==
  \/ Broken \in {a.base, a.profile, a.explicit, a.installation}
  \/ a.profile # NoFile /\ a.explicit # NoFile

CannotParse(a) ==
  \/ Malformed \in {a.cli[key] : key \in DOMAIN a.cli}
  \/ Malformed \in {a.respawn, a.start_mavlink, a.static_tf}

\* One exception anywhere, and no action is returned: nothing is started.
LaunchRefused(a) ==
  \/ CannotLoad(a)
  \/ CannotParse(a)
  \/ /\ StaticTf(a)
     /\ \/ ~VectorsOk(a)
        \/ "" \in {ParentFrame(a), ChildFrame(a)}
        \/ ParentFrame(a) = ChildFrame(a)

ConfigOf(a) ==
  LET p == ParametersOf(a)
  IN  [processes   |-> {"cloud"}
                       \cup (IF a.start_mavlink THEN {"sender"} ELSE {})
                       \cup (IF StaticTf(a) THEN {"tf"} ELSE {}),
       respawn     |-> a.respawn,
       cloudOk     |-> CloudStarts(p),
       senderOk    |-> SenderStarts(p),
       agree       |-> ContractHolds(p),
       framesMatch |-> /\ ParentFrame(a) = Parameter(p, <<"target_frame">>, "base_link")
                       /\ ChildFrame(a) = "livox_frame",
       simTime     |-> Parameter(p, SimTime, FALSE)]

SetUpLaunch ==
  /\ args # NoArguments
  /\ IF LaunchRefused(args) THEN UNCHANGED launchVars
     ELSE LaunchNodes(ConfigOf(args))
  /\ args' = NoArguments
  /\ UNCHANGED settled

-----------------------------------------------------------------------------

\* What can go wrong: a crash, a bad message, a silence, a clock that stops.
Trouble ==
  /\ ~settled
  /\ \/ \E p \in Processes : CrashNode(p)
     \/ ReceiveSectors(TRUE)
     \/ SendDistances(TRUE)
     \/ config.simTime /\ ToggleClock
  /\ UNCHANGED <<args, settled>>

StartOne(p) ==
  /\ StartNode(p) \/ FailStart(p)
  /\ UNCHANGED <<args, settled>>

TfArrives ==
  /\ LearnTf
  /\ UNCHANGED <<args, settled>>

SectorsArrive ==
  /\ ReceiveSectors(FALSE)
  /\ UNCHANGED <<args, settled>>

\* With no cloud node up there is silence; otherwise its messages are in time.
Send ==
  /\ SendDistances(proc["cloud"] # "up")
  /\ UNCHANGED <<args, settled>>

Settle ==
  /\ ~settled
  /\ args = NoArguments
  /\ settled' = TRUE
  /\ UNCHANGED <<launchVars, args>>

SetupInit ==
  /\ LaunchInit
  /\ args \in Arguments
  /\ settled = FALSE

SetupNext ==
  \/ SetUpLaunch
  \/ Trouble
  \/ \E p \in Processes : StartOne(p)
  \/ TfArrives
  \/ SectorsArrive
  \/ Send
  \/ Settle

\* The launch service respawns what it is to respawn; the nodes' executors run
\* their callbacks.
SetupFairness ==
  /\ \A p \in Processes : WF_setupVars(StartOne(p))
  /\ WF_setupVars(TfArrives)
  /\ WF_setupVars(SectorsArrive)
  /\ WF_setupVars(Send)

SetupSpec == SetupInit /\ [][SetupNext]_setupVars /\ SetupFairness

-----------------------------------------------------------------------------
(* Properties.                                                             *)

\* base < profile < installation < command line (docs/quick_start.md:47,
\* launch/_config_layering.py:75-112): merging and flattening give each
\* parameter the value of the highest layer that says anything of it, where a
\* scalar in the place of a mapping says that the parameters below it are
\* absent, and so does an empty list.  It holds of parameters that no file
\* spells with a dotted key: deep_merge takes "mavlink.baud" and the baud of
\* "mavlink" for two things, and which survives depends on the order of keys.
LastLayerWins ==
  args # NoArguments /\ ~CannotLoad(args) /\ ~CannotParse(args) =>
    LET parameters == ParametersOf(args)
    IN  \A key \in Parameters : ~WrittenDotted(LayersOf(args), key) =>
          Decided(LayersOf(args), args.cli, key) =
            IF key \in DOMAIN parameters
            THEN <<"leaf", parameters[key]>> ELSE <<"absent">>

\* A process that runs, is about to, or is one that the launch respawns.
Alive(p) ==
  \/ proc[p] \in {"down", "up"}
  \/ p \in config.processes /\ config.respawn

\* The launch is one that can work: both nodes are alive, each accepts its
\* parameters, what the cloud node states is what the sender expects, the
\* transform comes, the timers run.
CanWork ==
  /\ Alive("cloud") /\ Alive("sender")
  /\ config.cloudOk /\ config.senderOk /\ config.agree
  /\ "tf" \in config.processes =>
       \/ hasTf /\ proc["cloud"] = "up"
       \/ config.framesMatch /\ Alive("tf")
  /\ TimersRun

\* Once nothing goes wrong any more, real distances reach the wire, however
\* many processes crashed and were respawned before, and although the sender
\* refuses a new cloud node until its sequence has caught up with the old
\* one's (launch/aero_halo_360.launch.py:135-192,
\* mavlink_obstacle_sender.py:480-482).
AgreeingNodesDeliver == settled /\ CanWork ~> [](wire = "data")

\* A cloud node that is gone for good (respawn_nodes:=false, or parameters it
\* does not accept) leaves no distances on the wire, if the sender's timers
\* run: they stop with /clock under use_sim_time, and then what was sent last
\* stands (mavlink_obstacle_sender.py:343-347).
GoneCloudMeansWall ==
  settled /\ proc["cloud"] = "gone" /\ TimersRun ~> [](wire # "data")

=============================================================================
