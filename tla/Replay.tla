------------------------------- MODULE Replay -------------------------------
(***************************************************************************)
(* scripts/replay_to_mavlink.py, the controller of a replay: it launches   *)
(* the nodes or is launched beside them (launch/replay_rosbag.launch.py),  *)
(* waits for the cloud node, plays the bag and stops what it launched.     *)
(* A sequential program whose control states are those of controller; what *)
(* it controls is Launch.                                                  *)
(*                                                                         *)
(* No live LiDAR publishes during a replay, and no foreign node has the    *)
(* cloud node's name.  A bag was recorded longer ago than the sender's     *)
(* max_source_age_ms.                                                      *)
(***************************************************************************)
EXTENDS Launch

CONSTANTS
  MaxPolls,        \* bound: polls that fit into --ready-timeout
  LaunchConfigs    \* what the launch description may return here

ASSUME ReplayAssumption ==
  /\ MaxPolls \in Nat
  /\ LaunchConfigs \subseteq Configs

VARIABLES
  options,      \* the command line: [noLaunch, clock, loop]
  controller,   \* where main() is
  polls,        \* polls so far
  launch,       \* the launch process: none, starting, running, ended (exit
                \* code 0) or failed (any other)
  bag,          \* unplayed, playing, ended (exit code 0), failed
  outcome,      \* what the controller's exit code says
  abandoned     \* the launch or the controller was killed before it could stop
                \* the nodes

controlVars == <<options, controller, polls, launch, bag, outcome, abandoned>>
replayVars == <<launchVars, controlVars>>

Options == [noLaunch: BOOLEAN, clock: BOOLEAN, loop: BOOLEAN]

LaunchAlive == launch \in {"starting", "running"}

\* Everything in the launch's process group has ended.
GroupGone ==
  /\ proc' = [p \in Processes |-> "gone"]
  /\ wire' = "silent"
  /\ UNCHANGED <<config, hasTf, lag, frames>>

-----------------------------------------------------------------------------
(* The launch process.                                                     *)

\* The script starts the sender too and leaves use_sim_time to the files; the
\* launch file starts no sender and uses the bag's clock if it is published.
Launchable(c) ==
  IF options.noLaunch
  THEN c.processes = {"cloud"} /\ c.simTime = options.clock
  ELSE "sender" \in c.processes

SetUp(c) ==
  /\ launch = "starting"
  /\ Launchable(c)
  /\ LaunchNodes(c)
  /\ launch' = "running"
  /\ UNCHANGED <<options, controller, polls, bag, outcome, abandoned>>

\* _launch_setup raises; in a launch file the controller is not started then.
RefuseSetUp ==
  /\ launch = "starting"
  /\ ~options.noLaunch
  /\ launch' = "failed"
  /\ UNCHANGED <<launchVars, options, controller, polls, bag, outcome, abandoned>>

\* Somebody interrupts the launch, which then stops its nodes.
ShutDownLaunch ==
  /\ launch = "running"
  /\ ~options.noLaunch
  /\ GroupGone
  /\ launch' = "ended"
  /\ UNCHANGED <<simClock, options, controller, polls, bag, outcome, abandoned>>

\* It is killed, and its nodes live on with nobody to respawn them.
KillLaunch ==
  /\ LaunchAlive
  /\ ~options.noLaunch
  /\ launch' = "failed"
  /\ abandoned' = TRUE
  /\ UNCHANGED <<launchVars, options, controller, polls, bag, outcome>>

\* The launch file's event handler shuts everything down with the controller.
ShutDownWithController ==
  /\ options.noLaunch
  /\ controller = "done"
  /\ launch = "running"
  /\ GroupGone
  /\ launch' = "ended"
  /\ UNCHANGED <<simClock, options, controller, polls, bag, outcome, abandoned>>

-----------------------------------------------------------------------------
(* main().                                                                 *)

\* finally: whatever ends the try block, the process group is stopped next.
Finally(result) ==
  /\ controller' = "stopping"
  /\ outcome' = result

Exit(result) ==
  /\ controller' = "done"
  /\ outcome' = result

\* A bag that does not exist, a timeout that is no timeout.
RejectArguments ==
  /\ controller = "begin"
  /\ options.noLaunch => launch = "running"
  /\ Exit("usage")
  /\ UNCHANGED <<launchVars, options, polls, launch, bag, abandoned>>

Begin ==
  /\ controller = "begin"
  /\ options.noLaunch => launch = "running"
  /\ controller' = "polling"
  /\ launch' = IF options.noLaunch THEN launch ELSE "starting"
  /\ UNCHANGED <<launchVars, options, polls, bag, outcome, abandoned>>

\* Mutant: the launch's exit code is returned as it is.
ExitCodeOfLaunch == IF launch = "ended" THEN "ok" ELSE "launch_failed"

\* returncode or 1.
LaunchFailure == "launch_failed"

\* poll() finds that the launch has exited; a launch file's is not polled.
NoticeExit ==
  /\ controller = "polling"
  /\ polls < MaxPolls
  /\ launch \in {"ended", "failed"}
  /\ Finally(LaunchFailure)
  /\ UNCHANGED <<launchVars, options, polls, launch, bag, abandoned>>

\* Mutant: the deadline is looked at after the query.
MayPollOnceMore ==
  /\ controller = "polling"
  /\ polls <= MaxPolls
  /\ LaunchAlive

MayPoll ==
  /\ controller = "polling"
  /\ polls < MaxPolls
  /\ LaunchAlive

SeeNode ==
  /\ MayPoll
  /\ proc["cloud"] = "up"
  /\ controller' = "delaying"
  /\ UNCHANGED <<launchVars, options, polls, launch, bag, outcome, abandoned>>

\* Mutant: the deadline moves on with every poll.
MissNodeForever ==
  /\ MayPoll
  /\ UNCHANGED <<launchVars, options, controller, polls, launch, bag, outcome,
                 abandoned>>

\* The node is not up, or not yet discovered.
MissNode ==
  /\ MayPoll
  /\ polls' = polls + 1
  /\ UNCHANGED <<launchVars, options, controller, launch, bag, outcome, abandoned>>

\* `ros2 node list` takes longer than 3 s: nobody catches TimeoutExpired.
QueryTimesOut ==
  /\ MayPoll
  /\ Finally("error")
  /\ UNCHANGED <<launchVars, options, polls, launch, bag, abandoned>>

GiveUpWaiting ==
  /\ controller = "polling"
  /\ polls = MaxPolls
  /\ Finally("not_ready")
  /\ UNCHANGED <<launchVars, options, polls, launch, bag, abandoned>>

\* After start_delay; whether the nodes still run is not asked again.
PlayBag ==
  /\ controller = "delaying"
  /\ controller' = "playing"
  /\ bag' = "playing"
  /\ simClock' = options.clock
  /\ UNCHANGED <<config, nodeVars, options, polls, launch, outcome, abandoned>>

BagEnds(ok) ==
  /\ controller = "playing"
  /\ ok => ~options.loop
  /\ bag' = IF ok THEN "ended" ELSE "failed"
  /\ simClock' = FALSE
  /\ Finally(IF ok THEN "ok" ELSE "bag_failed")
  /\ UNCHANGED <<config, nodeVars, options, polls, launch, abandoned>>

\* Ctrl-C, which the player gets too, or SIGINT from the launch file's launch.
Interrupt ==
  /\ controller \in {"polling", "delaying", "playing"}
  /\ bag' = IF bag = "playing" THEN "failed" ELSE bag
  /\ simClock' = IF bag = "playing" THEN FALSE ELSE simClock
  /\ Finally("interrupted")
  /\ UNCHANGED <<config, nodeVars, options, polls, launch, abandoned>>

\* SIGTERM ends Python without finally; a second Ctrl-C ends finally itself.
Terminate ==
  /\ controller \notin {"begin", "done"}
  /\ Exit("terminated")
  /\ abandoned' = TRUE
  /\ UNCHANGED <<launchVars, options, polls, launch, bag>>

-----------------------------------------------------------------------------
(* stop_process_group.                                                     *)

NothingToStop ==
  /\ controller = "stopping"
  /\ options.noLaunch \/ ~LaunchAlive
  /\ Exit(outcome)
  /\ UNCHANGED <<launchVars, options, polls, launch, bag, abandoned>>

\* Mutant: the signal goes to the launch process only, which dies of it.
StopLeader ==
  /\ controller = "stopping"
  /\ ~options.noLaunch /\ LaunchAlive
  /\ launch' = "failed"
  /\ Exit(outcome)
  /\ UNCHANGED <<launchVars, options, polls, bag, abandoned>>

\* SIGTERM to the group, which ends within 5 s.
StopGroup ==
  /\ controller = "stopping"
  /\ ~options.noLaunch /\ LaunchAlive
  /\ GroupGone
  /\ launch' = "ended"
  /\ Exit(outcome)
  /\ UNCHANGED <<simClock, options, polls, bag, abandoned>>

\* It does not: SIGKILL.  A leader that is not reaped within 2 s raises.
KillGroup(reaped) ==
  /\ controller = "stopping"
  /\ ~options.noLaunch /\ LaunchAlive
  /\ GroupGone
  /\ launch' = "failed"
  /\ Exit(IF reaped THEN outcome ELSE "error")
  /\ UNCHANGED <<simClock, options, polls, bag, abandoned>>

-----------------------------------------------------------------------------
(* The nodes meanwhile.                                                    *)

\* Mutant: the sender does not look at the age of the stamp.
BagIsPlaying == bag = "playing"

\* The stamps are those of the recording, so too old for a sender that takes
\* the time from the wall clock; there are no others.
FreshForSender == bag = "playing" /\ config.simTime

NodesStep ==
  /\ \/ /\ launch = "running"
        /\ \E p \in Processes : StartNode(p) \/ FailStart(p)
     \/ \E p \in Processes : CrashNode(p)
     \/ LearnTf
     \/ \E bad \in BOOLEAN : (~bad => FreshForSender) /\ ReceiveSectors(bad)
     \/ \E silence \in BOOLEAN : SendDistances(silence)
  /\ UNCHANGED controlVars

Control ==
  \/ Begin \/ RejectArguments
  \/ NoticeExit \/ SeeNode \/ MissNode \/ GiveUpWaiting
  \/ PlayBag \/ \E ok \in BOOLEAN : BagEnds(ok)
  \/ NothingToStop \/ StopGroup \/ \E reaped \in BOOLEAN : KillGroup(reaped)

ReplayNext ==
  \/ Control
  \/ QueryTimesOut
  \/ Interrupt
  \/ Terminate
  \/ \E c \in LaunchConfigs : SetUp(c)
  \/ RefuseSetUp
  \/ ShutDownLaunch
  \/ KillLaunch
  \/ ShutDownWithController
  \/ NodesStep

ReplayInit ==
  /\ LaunchInit
  /\ options \in Options
  /\ controller = "begin"
  /\ polls = 0
  /\ launch = IF options.noLaunch THEN "starting" ELSE "none"
  /\ bag = "unplayed"
  /\ outcome = "none"
  /\ abandoned = FALSE

\* The controller goes on, a bag that is not played in a loop comes to its end,
\* and the launch sets up its nodes.
ReplayFairness ==
  /\ WF_replayVars(~options.loop /\ Control)
  /\ WF_replayVars(\E c \in LaunchConfigs : SetUp(c))

ReplaySpec == ReplayInit /\ [][ReplayNext]_replayVars /\ ReplayFairness

-----------------------------------------------------------------------------
(* Properties.                                                             *)

\* Every variable stays in its range.
ReplayTypeOK ==
  /\ LaunchTypeOK
  /\ options \in Options
  /\ controller \in {"begin", "polling", "delaying", "playing", "stopping", "done"}
  /\ polls \in 0 .. MaxPolls
  /\ launch \in {"none", "starting", "running", "ended", "failed"}
  /\ bag \in {"unplayed", "playing", "ended", "failed"}
  /\ outcome \in {"none", "usage", "launch_failed", "error", "not_ready", "ok",
                  "bag_failed", "interrupted", "terminated"}
  /\ abandoned \in BOOLEAN

\* When the controller is done, no node it launched goes on sending to the
\* autopilot, at whatever point of launching, respawning, waiting or playing
\* it stopped, unless the launch or the controller itself was killed: then
\* start_new_session has detached the nodes from everybody
\* (replay_to_mavlink.py:42-50, 90, 117-118).
NothingOutlivesController ==
  controller = "done" /\ ~options.noLaunch /\ ~abandoned =>
    \A p \in Processes : proc[p] # "up"

\* The exit code tells of the playback: 0 means that the bag was played to its
\* end, not that the launch ended early without an error
\* (replay_to_mavlink.py:95-97, 116).
ExitTellsPlayback == outcome = "ok" => bag = "ended"

\* Replayed distances reach the wire only if the files set use_sim_time: the
\* script plays the bag with --clock but launches nodes on the wall clock, for
\* which every recorded stamp is too old
\* (replay_to_mavlink.py:78-84, 110-112, mavlink_obstacle_sender.py:476-484).
OnlySimTimeShowsReplay == wire = "data" => config.simTime

\* A controller that plays its bag once comes to an end, even if no node ever
\* appears, the launch dies or nodes crash again and again
\* (replay_to_mavlink.py:92-118).
ReplayEnds == ~options.loop ~> controller = "done"

=============================================================================
