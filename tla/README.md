# AeroHalo360: verification project

AeroHalo360 turns LiDAR point clouds into 72 obstacle sectors and sends them to
an autopilot as MAVLink `OBSTACLE_DISTANCE`. Its safety case is *fail-closed*:
whenever the data is missing, malformed, old or suspicious the drone must see a
virtual wall, and only after a number of healthy frames may real distances pass
again. These modules model the code that decides this, what it makes of the
points, and the programs that configure, start and try it out, as a state machine
per component; TLC checks them on small instances and TLAPS proves the main safety
properties for every value of the constants.

All paths below are relative to `src/aero_halo_360/` unless they name another
directory of the repository.

## 1. The system

| component | code | state | operations |
| --- | --- | --- | --- |
| cloud processor node | `src/cloud_processor_node.cpp` | latest distances and their header, source sequence, start of the last processing, both guards | `onCloud` (per point cloud), `onPublishTimer` (fixed rate) |
| cloud watchdog | `src/watchdog.cpp` | arrival time, failure counters, source status, rate, latch, recovery count | `mark*`, `setProcessingRateHz`, `evaluate`, `reset` |
| source timestamp guard | `src/source_timestamp.cpp` | last accepted stamp, repetitions, sequence | `evaluate`, `reset` |
| point cloud validation | `src/pointcloud_validation.cpp` | none | `validatePointCloud2` |
| self mask, sectorizer, temporal filter, inflation | `src/self_mask.cpp`, `src/sectorizer.cpp`, `src/temporal_filter.cpp`, `src/inflation.cpp` | temporal filter: previous sectors and clear counts | `compute`, `filter`, `apply` |
| MAVLink sender | `scripts/mavlink_obstacle_sender.py` | last distances, last sequence, stale guard, port, backoff, heartbeat | `on_sector_distances`, `send_obstacle_distance`, `send_heartbeat`, `publish_diagnostics` |
| stale guard | `TwoStageStaleGuard` in the same file | last progress and sequence, latch, healthy frames | `mark_fault`, `mark_healthy_frame`, `evaluate` |
| configuration layers | `launch/_config_layering.py` | none | `deep_merge`, `flatten_parameters`, `build_effective_parameters` |
| launch description | `launch/aero_halo_360.launch.py` | which processes run, and what a new one has forgotten | `_launch_setup`; start, crash and respawn of both nodes and of the static transform |
| replay | `scripts/replay_to_mavlink.py`, `launch/replay_rosbag.launch.py` | where the controller is, the launch and the bag it started | wait for the node, play, stop the process group |
| MAVLink check | `scripts/check_mavlink.py` | deadline, count | `wait_for_heartbeat`, the loop over distances |
| deployment | `systemd/`, `nano_deploy/` | installed units | restart of a failed node, health timer |

How they interact: the LiDAR driver publishes point clouds; the cloud node
processes them and publishes `SectorDistances` (distances, source stamp and
sequence, status) on its timer; the sender checks each message, keeps the
distances and puts something on the wire on its own timer. Each node runs its
callbacks on one thread, so a callback is atomic but the order of callbacks is
arbitrary; between the nodes there is a topic. Each node has its own latch. The
launch description computes the parameters of both nodes from YAML layers and
arguments, starts them and respawns them; a replay launches it, or is launched
beside it, and plays a recorded bag; the check listens at the other end of the
sender's connection, or in the sender's place before a flight.

What is hard here: *ordering* (clouds, publications, timeouts, stamps that
repeat or go back, in any order), *staleness* (several clocks: arrival of
clouds, age of stamps, progress of sequences, heartbeat), *partial failure*
(every call on the MAVLink port can fail between two others), *recovery*
(latches that must open, but not too early), *restarts* of either node,
*disagreement* (two nodes with a parameter each for the same thing, layers that
override one of two parameters that must fit), *processes* that outlive the one that started
them, and *borders* (an obstacle that lies across sectors and bins). What
makes each component correct is listed with its module below; the hazards, each
at its line, are in `PROJECT.json`.

## 2. Modules

- `FailClosedGate` is the abstract specification both latches are to
  implement: a fault shuts the gate and voids the evidence; it opens only on
  `Need` pieces of evidence that arrived after the latest fault.
- `Watchdog` is class `Watchdog`: one operator per method, each constraining
  the variables its method assigns, so that `CloudProcessor` can conjoin them in
  a handler; and a specification of the class alone, with a client that calls
  anything in any order.
- `SourceTimestampGuard` is class `SourceTimestampGuard`, as operators only.
- `CloudProcessor` EXTENDS both and is the node. `onCloud` is split by the way
  taken through it: `RejectCloud` (malformed), `RefuseStamp`, `PassOverStamp`
  (status OK but not accepted), `FailTransform` and `ProcessCloud`. Each is the
  whole handler. `OnPublishTimer` is the verdict, and `SectorDistances` the
  message it publishes.
- `CloudFreshness` adds to the node a timer that fires in time, and `renewed`: the
  history whether a cloud was processed since the last fault.
- `SteadySensor` adds a moment from which the sensor works, for liveness.
- `StaleGuard` is class `TwoStageStaleGuard`.
- `MavlinkSender` EXTENDS it and is the sender, every call on the port failing
  or not: `RefuseSector`, `TakeSector`; `StayClosed`, `FailRead`,
  `SendOwnHeartbeat`, `TransmitDistances`, `HoldBack`; `PublishDiagnostics`,
  which can latch the guard because it evaluates it.
- `SteadyLink` adds a moment from which port, autopilot and cloud node work.
- `Bridge` EXTENDS `CloudProcessor` and `MavlinkSender` and puts a topic between
  them: `inbox`, which keeps the latest `InboxDepth` messages (the subscription's
  queue), with the explicit sequences, stamps and ages the cloud node gives
  them. `PublishSectors` and `ReceiveSectors` are the handlers of the two nodes
  with the message passed on. `CrashCloud` and `RestartCloud` are the process
  dying and systemd starting another one (`Restart=on-failure`,
  `RestartSec=2`); `RestartSender` is both for the sender, in one step, since
  nothing that arrives in between has an effect. The port always works here.
  Which clouds are degraded is `CloudProcessor`'s; what the sender makes of a
  message is `MavlinkSender`'s: `BridgeProofs` shows (`CloudSideStep`,
  `SenderSideStep`) that each node does here only what its own specification
  allows, a restart excepted.
- `BridgeSupply` EXTENDS `Bridge` by `supply`, the history of what the clouds
  brought: `interrupted` by a repeated stamp, a failed transform or data too old to
  last, `resumed` by data that lasts, `steady` again once the open guard has heard of
  progress with nothing older left in the topic. No action's guard reads it.
- `Distances` is what happens to the sectors of a processed cloud between the
  sectorizer and the publication: `Filter` (class `TemporalFilter`, with `state`
  and `clearCounts` as its members) and `Inflate` (class `Inflation`, its loop as
  a recursive function over the sectors); `ProcessSectors` is both, in the order
  of `onCloud`. `watched`, `seen` and `framesSince` are history: they follow the
  obstacles of one sector, any of them. `CloudProcessor` knows of all this only
  whether there are distances and how old they are.
- `Sectors` EXTENDS `Distances` by what comes before it: class `Sectorizer`. A
  point falls into a sector (`SectorForPoint`) and a radial bin (`BinOf`); the
  nearest bin with enough points (`Dense`) decides (`Reading`), by a percentile of
  its ranges. `SectorsNext` is a whole frame, from the filtered cloud to the
  distances that are published. `MCDistances` gives TLC the clouds and the number
  of sectors that the vehicle's radius covers at each distance.
- `ConfigLayers` is `_config_layering.py`: the merge of layers and its flattening,
  and beside them, without merging anything, what the layers are to mean
  (`Decided`). A document is a table from the paths into it to what stands there and
  in which place. On tables the two recursive functions come to one definition each:
  a path of the base survives a merge if all around it are mappings in both files
  (`Kept`), and of two paths with the same flat key that one wins whose way leaves
  the other's at the later place (`ComesAfter`).
- `Dictionaries` has `deep_merge` and `flatten_parameters` as they are written, as
  RECURSIVE operators over nested items, and compares: `TablesFollowRecursion`. Only
  TLC uses it; what is proved is about the tables.
- `Launch` is what the launch description starts: processes that are to be
  started (`down`), run (`up`) or have ended for good (`gone`), and of the nodes'
  state what a start or a respawn changes: whether the cloud node knows the
  transform, how far its sequence is behind the one the sender remembers (`lag`),
  the frames of the sender's guard, what was sent last (`wire`). Its `LaunchSpec`
  launches any configuration at all.
- `LaunchSetup` EXTENDS both: `_launch_setup`, every way in which it raises, and the
  processes it returns. `CloudStarts` and `SenderStarts` are the two nodes' checks of
  their parameters: each condition that relates several of them as it is written,
  with the nodes' own defaults, and `Invalid` for every value that a condition on one
  parameter (or on one self-mask box) refuses. `ContractHolds` is what
  `validate_sector_contract` compares of the parameters: minimum, maximum and angle
  offset. `settled` is the moment from which nothing goes wrong. `MCLaunchSetup` holds
  small YAML files and arguments.
- `Replay` EXTENDS `Launch` by the controller of a replay, in both its uses: as a
  script that launches the nodes, and under the launch file that does so beside
  it (`noLaunch`). One action per step of `main()`, every exception and signal
  included; `stop_process_group` is `NothingToStop`, `StopGroup`, `KillGroup`.
- `LinkCheck` is the check, with the sender's own test of a heartbeat
  (`HeartbeatMatches`) beside the check's; `Rehearsal` puts it at the other end of
  a replay's sender, `MCRehearsal` says what is launched and who else talks.
- `CloudProcessorProofs` (of `Watchdog` too), `FreshnessProofs` (of `CloudFreshness`),
  `MavlinkSenderProofs` (of `StaleGuard` too), `BridgeProofs`, `DistancesProofs` (of
  `Sectors` too), `LaunchProofs`, `LaunchSetupProofs` (of `ConfigLayers` too) and
  `RehearsalProofs` (of `Replay` too) hold the theorems.

Abstractions, and why they lose nothing the properties speak of:

- *Time* advances in ticks. A time point is kept as its age, which stops
  counting one tick beyond the last threshold it is compared with. The
  steady and the wall clock advance together: a step of the wall clock is not
  modelled.
- *Consecutive counters* are only compared with a limit and stop there.
- `cloud_sequence_` is only compared with `recovery_last_cloud_sequence_`:
  `unseen`. `clouds` and `newFrames` are history, counted for the properties
  only; no guard of an action reads them.
- `processing_rate_hz_` is only compared with the minimum: `lowRate`, set from
  the interval between two processed clouds (`MaxInterval` is the longest one
  that is not a low rate).
- *Points and distances* are data in the nodes' modules: what matters there is
  whether the raw and the filtered cloud were empty and how old the distances
  are. `sent` is what the latest step of the sender put on the wire. In `Sectors` a
  point is its direction, its horizontal range (both integers, in units as fine as
  one likes) and a height that only tells it from others: the arctangent and the
  hypotenuse that yield direction and range are not computed.
- A *sector message* is for the sender what its checks find: whether it meets
  the contract, how its sequence compares, the larger of its two ages, whether
  its status is a hard failure. `SenderSpec` allows every combination, so more
  than the cloud node sends.
- *Smoothing* is exact: `receding_alpha` is a fraction, and `lround` rounds
  halves up. The error of the doubles, far below half a centimetre, is ignored.
- *YAML* is a table of paths; a key with dots is one element of the dictionary but
  several names of the path (`AfterDot`). A dictionary keeps the order of its keys:
  `place`. A file that cannot be loaded, and an argument that its parser refuses,
  are each one value.
- *Parameters* are lengths in whole centimetres and times in milliseconds, so
  `metersToCentimeters` rounds nothing, and `Tangents` tabulates to a thousandth the
  tangents with which the cloud node finds how many sectors the vehicle covers at the
  minimum range.
- In `Launch` everything that can be wrong with a message or its timing (`bad`,
  `silence`) is an input, because `Bridge` has the rest. The sender is fail-closed
  and waits for no heartbeat.
- A *bag* was recorded longer ago than the sender's `max_source_age_ms`, so its
  stamps are fresh only for a sender on the bag's clock (`FreshForSender`). No
  live LiDAR publishes during a replay, and nobody else on the link has the
  sender's ids.
- *Texts, statistics, transition counters* are left out.

## 3. Runs

Every constant is the smallest value that still tells its cases apart: warning
threshold 1 and fail threshold 2 give each age a fresh, a warning and a failed
value; limits of 2 make "one is not enough" a case; recovery counts of 2 to 4
lie below, at and above the numbers they compete with. All runs check deadlock
except `launch` and `rehearsal`: a launch may be refused or end, and the programs
of a rehearsal end.

| run | module, cfg | question |
| --- | --- | --- |
| `watchdog` | `Watchdog` | Under any client: ranges; does a release take all but one of the recovery clouds after the fault? (`AnyClientNeedsClouds`; all of them is too much: a cloud from before the fault can count once.) |
| `cloud_processor` | `CloudFreshness` | With a timer that fires every `PublishPeriod`: does the node's order of calls make that the full number (`ReleaseNeedsClouds`)? Does the published sequence belong to the published distances unless a transform failure is pending (`SequenceNamesData`)? How old can the distances of a healthy message be, once a cloud was processed after the last fault (`HealthyDataIsFresh`)? |
| `steady_sensor` | `SteadySensor` | From every reachable state, does a working sensor open the latch for good (`Recovers`)? |
| `steady_link` | `SteadyLink` | Before the link is steady anything may fail: data on the wire bounded in age (`SentDataIsFresh`); the guard a gate (`GuardReleasesOnNewFrames`), including for a silence nobody evaluated; the backoff bounded (`SenderTypeOK`); `SEND_ERROR` exactly while the port is closed (`ReportTellsPort`). From every state so reached, do real distances flow again (`DataFlows`) and does every wall end (`WallEnds`)? |
| `distances` | `MCDistances`, `Distances` | Is an obstacle of enough points published in the same frame, however the borders of sectors, bins and ring divide it (`DenseObstacleIsPublished`)? Can more points hide one (`MorePointsHideNothing`)? Is an obstacle kept, in its sector and in all that the radius reaches from there, no farther than last seen, for `clear_frames` frames (`RecentObstacleIsKept`)? Does the inflation's loop, which compares with its own output, return the nearest obstacle that reaches each sector (`NearestReaches`)? Does the rounded smoothing approach the reading and never pass it (`DrawsNearer`)? |
| `bridge_supply` | `BridgeSupply` | Both nodes, a prompt topic, one crash of each, clouds that bring nothing: is the sender's guard shut only with a cause upstream or after such a cloud (`DegradesSecond`)? Does a dead cloud node mean a wall after `input_fail_timeout_ms` (`KilledCloudMeansWall`)? |
| `bridge_topic` | `Bridge` | Delayed and lost messages, early restarts, and a cloud node that may open its latch before it has transformed a cloud: do its initial all-clear distances reach the wire (`UnprocessedIsNeverSent`)? Does a published wall (`WallReachesWire`)? Is data ever replaced by older data (`DataNeverGoesBack`)? |
| `launch` | `MCLaunchSetup`, `LaunchSetup`, `Dictionaries` | Does each parameter get the value of the highest layer that says anything of it (`LastLayerWins`)? Do the tables give what the recursions of the code give, dotted keys and their order included (`TablesFollowRecursion`)? Do nodes whose parameters break the sector contract show nothing but the wall (`DisagreeingNodesShowWall`)? Do nodes that accept their parameters and keep the contract deliver distances again after any crashes and respawns (`AgreeingNodesDeliver`), and does a cloud node that is gone for good leave none on the wire (`GoneCloudMeansWall`)? |
| `rehearsal` | `MCRehearsal`, `Rehearsal` | With kills, crashes, interrupts and timeouts at every point of a replay: does any node outlive its controller (`NothingOutlivesController`)? Does exit code 0 mean that the bag was played (`ExitTellsPlayback`)? Does replayed data need simulated time (`OnlySimTimeShowsReplay`)? Does the check pass only on heartbeats the sender accepts (`CheckPassesAutopilot`)? Do both programs end (`ReplayEnds`, `CheckEnds`)? |

`distances` is a ring of four sectors of four units of direction each, so that
both directions of the widest inflation meet, with distances that reach two
sectors, one and none, and three bins, one for each required number of points;
alpha is 2/5, where one step of rounding is swallowed and a step of two is not.
Its clouds (`MCClouds`) are of three kinds: something near, something far or
nothing in each sector, in every combination; obstacles across two sectors and
two bins, with four points and with five, at the seam of the ring and elsewhere;
and clouds below the minimum range, at the ends of bins, and inside one another.
The bound of `DenseObstacleIsPublished`, four times what is too few in one cell, is
tight: with two points required, TLC finds an obstacle of four that is not
reported, a point in each cell. With the shipped `near_min_points` of 3 an obstacle
of up to eight points, two in each cell, can go unreported.

`launch` tries six groups of arguments: every combination of bases, profiles,
installations and overrides of `MCLaunchSetup` (each layer can be missing,
broken, merge into the one before, replace a mapping by a scalar or a scalar by
an empty list, or write a dotted key, which in the base may come first or last);
files that set one of two parameters that must fit (`PairProfiles`,
`PairInstallations`: each relating condition of `CloudStarts`, `SenderStarts` and
`ContractHolds` is broken by one of them, and some are mended by another layer);
every combination of three of the 28 files that say one thing or nothing of one
group, one parameter of it and its dotted spelling, in both orders
(`SmallFiles`); every combination of the switches for processes and transform;
transforms with their frames and vectors; and profiles by name, by path and both.
Every combination of nodes that start or not and agree or not occurs. A new cloud
node has at most `MaxLag` sources to catch up with, which is enough for a second
crash before it has.
`rehearsal` polls for the node at most `MaxPolls` times; one is enough for each
outcome of the wait. The check's timeout is two ticks, its count two.

The bridge runs count at most three accepted stamps (`MaxSequence`) and one
crash of each process (`MaxCrashes`): enough for a latch to open, a fault, and a
second opening, and for a restarted node to catch up with the sequence of the
first. `ArrivalAges` limits the ages of new stamps. In `bridge_supply` the
thresholds are in the order and no farther apart than they must be: the cloud
node's fail threshold and a publication (2 + 1) are within the sender's (3), which is
less than the delay of a restart (4); stamps can be repeated twice, one of two failed
transforms goes unpunished, and data of age 0 on arrival lasts while data of age 1
does not. `bridge_topic` restarts without delay, which allows more than systemd does.
The topic keeps one message in both, in `bridge_repeats` two.

`HealthyDataIsFresh` deserves a word. The watchdog times the arrival of clouds,
not of data. A cloud whose stamp repeats, or whose transform fails, renews its
clock and brings nothing. `SilentClouds = TfFailureLimit * MaxRepeated - 1` is
how many such clouds can follow a processed one before the verdict turns bad,
and `DataAgeBound` is what that costs. The bound is tight: with one tick less TLC
finds a counterexample in this instance. It holds in every configuration from the
first cloud that is processed after a fault until the next fault (`renewed`): the
run has a recovery of 2 and 3 silent clouds, as the shipped profiles have 3 (or 2)
and 5. What the property excepts is real: if no cloud was processed since the
fault, silent clouds alone can complete the recovery where it takes no more of
them than there can be (without the exception TLC finds that in the run), and then
the latch opens on data as old as the outage. `missing_tf` shows the same for a node
that has no data yet. What still stops such data is the sender's own age check
(`SentDataIsFresh`).

The three violation runs show where the code does not do what a document says;
`PROJECT.json` quotes the lines:

- `jitter_open`: one interval below the warning threshold raises the wall if it
  is longer than the minimum rate allows.
- `missing_tf`: the node can publish OK and all sectors free although no cloud
  was ever transformed. (The message has no stamp, so the sender refuses it:
  `UnprocessedIsNeverSent`, proved.)
- `bridge_repeats`: a repeated stamp keeps the cloud node content while the
  sequence and the data's age stand still, so the sender raises the wall alone.

Further observations, met while modelling, that no run states:

- Under the warn-only policy a latched node in front of a scene that stays empty
  never opens again, because a warning starts the recovery over
  (`src/watchdog.cpp:109`); `Recovers` therefore speaks of scenes without warnings.
- Clouds that repeat a stamp count for recovery (`src/watchdog.cpp:104`,
  `src/cloud_processor_node.cpp:320`).
- A base `mavlink: {baud: 1}`, a profile `"mavlink.baud": 2` and an installation
  `mavlink: {baud: 3}` give 2: the dotted key is a key of its own and comes later in
  the merged dictionary (`launch/_config_layering.py:81, 88`). `LastLayerWins`
  leaves parameters written with a dotted key out; the repository's files have none.
- `scripts/replay_to_mavlink.py` plays the bag with `--clock` but launches nodes on
  the wall clock, unless a file sets `use_sim_time`; every recorded stamp is too
  old for them, and the autopilot sees the wall throughout a replay that ends with
  code 0 (`OnlySimTimeShowsReplay`).
- Under `use_sim_time` the sender's timers stop with `/clock`, and what was sent last
  stands; `GoneCloudMeansWall` is stated for timers that run.
- A static transform that a YAML file enables with the string `"false"` is started,
  since a non-empty string is true in Python.

Fairness. `Recovers` assumes weak fairness of the publish timer (the executor
runs a due timer), of time passing and of a steady sensor's clouds; the clock is
held back only so that a steady sensor's pause is at most `MaxPause`. `DataFlows`
and `WallEnds` assume the same of the send timer, of time and of the frames. No
fairness is assumed of anything before the moment things become steady, nor of
the heartbeat timer. `SetupFairness` (of `AgreeingNodesDeliver` and
`GoneCloudMeansWall`) says that the launch service starts what it is to start, a
latched transform arrives, and the nodes' executors run the subscription and the
send timer; nothing is assumed of a timer that simulated time has stopped.
`ReplayFairness` says that a controller that does not loop goes on and that its
launch sets up the nodes; nothing is assumed of the nodes. `CheckEnds` assumes only
that time passes.

## 4. Proofs

All theorems hold for every value of the constants that satisfies the named
assumptions, which are the conditions `validateParameters`,
`validate_parameters` and `TwoStageStaleGuard.__init__` enforce, plus the model's
own caps (`DataAgeCap > MaxSensorAge`; in the bridge `DataAgeCap > MaxSourceAge`,
`RestartDelay` no longer than the timeout it is compared with). The theorems about
`BridgeSpec` also assume what its runs do: live mode, a fail-closed sender that does
not wait for heartbeats. `HealthyDataAgeIsBounded` is about live mode, and
`SenderDegradesSecond` about thresholds in the order of `SenderIsLater`, which the
shipped profiles have. Those about `LaunchSpec` are about every configuration a
launch description could return, so about more than the files can say
(`SetupImplementsLaunch`). Those about `SetupSpec` are about any files, of any depth and
order, and any arguments that satisfy `SetupAssumption`: a file that loads is a
dictionary, so that around each path there are mappings, and `use_sim_time` is a
boolean wherever it is set, since the nodes' parameter is one. Those about
`RehearsalSpec` assume what section 2 says of bags and of the ids on the link.

| theorem | says | argument |
| --- | --- | --- |
| `WatchdogTypeCorrect`, `CloudTypeCorrect`, `GuardTypeCorrect`, `SenderTypeCorrect` | types and ranges | inductive as they stand |
| `WatchdogIsGate` | `WatchdogSpec => AnyClientNeedsClouds` | `RecoveryBacked`: what is counted, and what an unseen cloud may still add, is at most the clouds since the fault plus one |
| `CloudNodeIsGate` | `CloudSpec => ReleaseNeedsClouds` | `CloudsBackRecovery`: while no cloud came since the fault the verdict stays degraded and nothing is counted; afterwards the count is backed by those clouds |
| `SequenceNamesItsData` | `CloudSpec => []SequenceNamesData` | inductive as it stands, with the types |
| `HealthyDataAgeIsBounded` | `FreshSpec => HealthyDataIsFresh` | `FreshOrStale`: while transforms fail fewer times than the limit, either the data is fresh or no cloud was processed since the last fault, and then, if a recovery takes more clouds than can be silent, the latch is shut and has counted no more than were fruitless (`StaleRecovery`). Fresh (`FreshBy(a, u)`) means: with `a` the age of the last cloud whose stamp was not refused and `u` the time from the last accepted stamp to that cloud, the data is no older than `MaxSensorAge`, what the failures so far can have cost (`Delay`), `u` and `a` together, and `u` is within `RepeatSpan` |
| `StaleGuardIsGate`, `SenderGuardIsGate` | the guard alone, and inside the sender, is a gate | `FramesBackRelease`: counted frames are new ones unless a silence voided them; the sender's steps are steps of the guard |
| `SenderDataIsFresh` | `SenderSpec => []SentDataIsFresh` | `DistancesFollowProgress`: stored distances are older than the last progress by at most `MaxSourceAge` |
| `SenderReportTellsPort` | `SenderSpec => []ReportTellsPort` | `ErrorMeansClosed`: an error text exactly while the port is closed |
| `BridgeTypeCorrect` | `BridgeSpec => []BridgeTypeOK` | inductive with `HealthyMessages`: a message that is not degraded carries data if it has a stamp |
| `BridgeDataIsFresh` | `BridgeSpec => []SentDataIsFresh` | the sender's steps in the bridge are steps of `SenderNext`, so `DistancesFollowProgress` is kept; a restart has nothing to send |
| `UnprocessedStaysOff` | `BridgeSpec => []UnprocessedIsNeverSent` | `KeptIsProcessed`, from `HealthyMessages` and the contract check |
| `WallGetsThrough` | `BridgeSpec => []WallReachesWire` | `WallIsComing`: a published wall is the last message on its way or has shut the guard |
| `KilledCloudStopsData` | `BridgeSpec => []KilledCloudMeansWall` | `SilentSinceCrash`: of a prompt topic nothing is left when time first passes after a crash, and from then on the sender's silence is as old as the crash |
| `DataOnlyGetsNewer` | `BridgeSpec => DataNeverGoesBack` | `OrderedUntilCrash`: until the cloud node crashes, the age of the stored distances, the ages of the messages on their way, in their order, and that of the node's own data never increase from the one to the next, up to the caps of the clocks; `source_timestamp_guard`'s rule that stamps increase gives the last link. A topic that drops messages keeps a suffix (`KeepIsSuffix`) |
| `SenderDegradesSecond` | `SenderIsLater` implies `SupplySpec => []DegradesSecond` | `SupplyInv`, below |
| `CloudGateOutlivesCrashes`, `SenderGateOutlivesCrashes` | `BridgeSpec => ReleaseNeedsClouds`, `BridgeSpec => GuardReleasesOnNewFrames` | a step of the bridge is a step of the node's own specification or a restart (`CloudSideStep`, `SenderSideStep`), and a restart is a fault of the gate: the new process starts shut and with nothing counted |
| `BridgeSequenceNamesData` | `BridgeSpec => []SequenceNamesData` | the same, a restart having neither data nor sequence |
| `DistancesTypeCorrect` | `DistancesSpec => []DistancesTypeOK` | inductive; a rounded mean of two distances is a distance (`RoundedMean`), so the filter's clamp never acts, and the loop only takes minima |
| `DistancesDrawNearer` | `DistancesSpec => DrawsNearer` | `RoundedMean` again: between the two, and off the old one if the step exceeds half a unit |
| `LoopReturnsNearest` | `DistancesSpec => []NearestReaches` | `LoopIsNearest`: the loop's array after k of its sectors holds, in each sector, the nearest obstacle of those k that reaches it |
| `ObstacleIsKept` | `DistancesSpec => []RecentObstacleIsKept` | `Remembered` for the filter, inductive with the types: `clear_counts_` is the number of frames since the obstacle. `Inflated` for what is published: a nearer obstacle reaches at least as far (`NearerReachesFarther`) |
| `SectorsFeedDistances` | `SectorsSpec => DistancesSpec` | rounding keeps the order, so a percentile of ranges within the limits is an obstacle distance (`ComputeType`); hence the four theorems above hold behind the sectorizer |
| `DenseObstacleIsSeen` | `SectorsSpec => []DenseObstacleIsPublished` | an obstacle lies in at most two sectors (`TwoSectors`) and two bins (`TwoBins`), so one of the four cells has enough points (`FourParts`); the nearest dense bin is no farther, and its percentile lies in it; the filter takes a nearer reading at once, and inflation moves nothing away |
| `PointsHideNothing` | `SectorsSpec => []MorePointsHideNothing` | the bin that decided before still has enough points, so the bin that decides now is no farther |
| `LaunchTypeCorrect` | `LaunchSpec => []LaunchTypeOK` | inductive as it stands |
| `DisagreementIsSafe` | `LaunchSpec => []DisagreeingNodesShowWall` | `LaunchInv`: a guard that has counted a frame means a contract that holds and a sender that accepts its parameters |
| `HighestLayerDecides` | `SetupSpec => []LastLayerWins` | `MergeTells`: of each path a merge tells what the overlay says of it, and what the base tells if the overlay is silent, because everything around a path that the base has is a mapping there (`MapsOnTheWay`) and merging keeps it so (`MergeIsDocument`). `FlattenTells`: without dots only one path gives a flat key |
| `SetupImplementsLaunch` | `SetupSpec => LaunchSpec` | `ConfigIsOne`: what is not refused is in `Configs`; the value of `use_sim_time` keeps its type through merging (`OverlayIn`), flattening and the command line. `SetupInv`: nothing runs before the launch is set up |
| `SetupTypeCorrect`, `DisagreeingFilesAreSafe` | `SetupSpec => []LaunchTypeOK`, `SetupSpec => []DisagreeingNodesShowWall` | from the two theorems about `LaunchSpec` |
| `ReplayTypeCorrect`, `CheckTypeCorrect` | the types in `RehearsalSpec` | every step of a rehearsal is one of `ReplayNext` or leaves the replay alone (`RehearsalIsReplay`) |
| `NobodyOutlives` | `RehearsalSpec => []NothingOutlivesController` | `LifeInv`: outside a running launch nobody is up, unless it was abandoned, and a controller that is done has no launch |
| `ZeroMeansPlayed` | `RehearsalSpec => []ExitTellsPlayback` | `CodeInv`: success is recorded only with the bag's end, and after that only the way out is left |
| `ReplayNeedsSimTime` | `RehearsalSpec => []OnlySimTimeShowsReplay` | `WireInv`: on the wall clock the guard never counts a frame |
| `CheckIsStrict` | `RehearsalSpec => []CheckPassesAutopilot` | `CheckInv`; the sender's own heartbeat names no autopilot, and nobody else has its ids |

The refinement theorems map every step to a step of the gate or a stutter.
`Need` differs between `WatchdogIsGate` and `CloudNodeIsGate`: the weaker promise
is all the class can keep under any client, the stronger one is due to the node.
The loop of the inflation is a recursive function over the sectors. The induction
over them is done by hand (`DistancesProofs`): if the array were wrong after some
number of sectors it would be wrong after a least number (`LeastElement`), and the
loop's step from the number before excludes that (`SpreadStep`).

`SenderDegradesSecond` says what is true of the remark in `docs/tuning_guide.md:62`
that the sender, its threshold being later, does not degrade first without a cause
upstream. As it stands the remark is false (`bridge_repeats`): a cloud whose stamp
repeats, or whose transform fails, renews the cloud node's clock and gives the sender
nothing; so, in the end, does one whose data on arrival is older than
`max_source_age_ms - cloud_fail_timeout_ms`, 200 ms in the shipped profiles, because
the node can be content with it until the sender's age check refuses it. The theorem
says that nothing else makes the sender fail first: not the publication period, the
delay of the topic, refused clouds, crashes and restarts of either node, sequences
that start anew, or the two recoveries. And the exception ends: once such data comes
and the open guard has heard of it, the next wall needs a cause again. `SenderIsLater`
asks that

- `input_fail_timeout_ms` bears `cloud_fail_timeout_ms` and a publication period. The
  shipped profiles do: 800 and 100 ms against 1000, in the demo 1200 and 100 against
  1400;
- messages arrive within a tick;
- systemd waits longer than `input_fail_timeout_ms` before it restarts a cloud node
  (it does: `RestartSec=2`), so that the sender does not take the new node's
  sequences for the old one's.

No validation enforces the first, since no program sees both nodes' parameters. Each
of the three is needed, and so is each part of `supply`: with a threshold one tick
less, a topic that may delay, a restart after exactly the fail threshold, failed
transforms that do not interrupt, data one tick older that lasts, or an exception that
ends before the guard has heard of progress, TLC finds a counterexample.

`SupplyInv` is what then holds all along. While nothing interrupts the supply, what the
cloud node would publish is the data of the very cloud it times, and the sender's last
progress on it is no older than that cloud (`SupplyIsCurrent`); sequences only grow on
their way (`SequencesGrow`); a message that is not degraded will be taken, and before
the sender falls silent (`HealthyIsInTime`); without a cause no message tells of
trouble (`NoTroubleWithoutCause`), and the guard is open and hears of progress in time
(`OpenWithoutCause`).

Model-checked only: liveness (`Recovers`, `DataFlows`, `WallEnds`,
`AgreeingNodesDeliver`, `GoneCloudMeansWall`, `ReplayEnds`, `CheckEnds`), which is
out of the prover's reach; and that tables come to what the recursions of the code
compute (`TablesFollowRecursion`), which would take an induction over nested data.
So `LastLayerWins` is proved of the tables, for all files, and that the tables stand
for the code's dictionaries is checked, for the files of `MCLaunchSetup`. Every
other safety invariant and action property of a run is a theorem.

## 5. Not modelled

- *Point cloud validation* (`src/pointcloud_validation.cpp`): a pure function of a
  message's layout; `CloudProcessor` takes its verdict as an input. Its overflow
  checks would be worth a model at a small word width.
- *Self mask and point filters*: pure predicates on doubles. `Sectors` starts from
  the filtered cloud.
- *Directions and ranges* of points, and the number of sectors the vehicle's radius
  covers at a distance: real arithmetic, taken as data.
- *The width of distances*: with `max_range_m` at its limit of 655.34 m the
  no-obstacle value is the 16-bit value for an unknown distance.
- *Steps of the wall clock*, against which ages of stamps are taken.
- *The heartbeat across a reconnect*: the model shows that its freshness survives
  one, as in the code; no property is stated, since no document ties a heartbeat
  to the connection it was heard on.
- *Benchmark, generator and plotting scripts*, `check_sector_directions.py`,
  diagnostics formatting: nothing depends on them.
- *Deployment* (`nano_deploy/`, the health timer): host checks and installation; what
  systemd's restart policy does to the nodes is in `Bridge`.
- *`mission_planner_demo.launch.py` and `debug_rviz.launch.py`*: the main description
  with other defaults, and RViz.
