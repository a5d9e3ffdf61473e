-------------------------- MODULE RehearsalProofs ---------------------------
(***************************************************************************)
(* What holds of a replay and of the check beside it, for every number of  *)
(* polls, recovery frames and ticks, whatever the launch description may   *)
(* return and whoever talks on the link.                                   *)
(***************************************************************************)
EXTENDS Rehearsal, LaunchProofs

Outcomes == {"none", "usage", "launch_failed", "error", "not_ready", "ok",
             "bag_failed", "interrupted", "terminated"}

-----------------------------------------------------------------------------
(* Types.                                                                  *)

LEMMA ReplayInitialType == ReplayInit => ReplayTypeOK
<1>1. ReplayInit => LaunchTypeOK
  BY InitialType DEF ReplayInit
<1>2. ReplayInit => polls \in 0 .. MaxPolls
  BY ReplayAssumption DEF ReplayInit
<1>3. ReplayInit => options \in Options /\ abandoned \in BOOLEAN
  BY DEF ReplayInit
<1> QED
  BY <1>1, <1>2, <1>3 DEF ReplayInit, ReplayTypeOK

\* The nodes' part of the type invariant.
LEMMA ReplayKeepsLaunchType ==
  ASSUME ReplayTypeOK, [ReplayNext]_replayVars
  PROVE  LaunchTypeOK'
<1> USE DEF ReplayTypeOK
<1>1. CASE UNCHANGED launchVars
  BY <1>1 DEF launchVars, nodeVars, LaunchTypeOK
<1>2. CASE \E c \in LaunchConfigs : LaunchNodes(c)
  BY <1>2, LaunchKeepsType, ReplayAssumption
<1>3. CASE NodesStep
  <2>1. \/ \E p \in Processes : StartNode(p) \/ FailStart(p) \/ CrashNode(p)
        \/ LearnTf
        \/ \E bad \in BOOLEAN : ReceiveSectors(bad)
        \/ \E silence \in BOOLEAN : SendDistances(silence)
    BY <1>3 DEF NodesStep
  <2> QED
    BY <2>1, NodesKeepType
<1>4. CASE /\ UNCHANGED <<config, nodeVars>>
           /\ simClock' \in BOOLEAN
  BY <1>4 DEF nodeVars, LaunchTypeOK
<1>5. CASE GroupGone /\ UNCHANGED simClock
  BY <1>5 DEF GroupGone, LaunchTypeOK
<1>6. CASE PlayBag \/ (\E ok \in BOOLEAN : BagEnds(ok)) \/ Interrupt
  <2>1. simClock' \in BOOLEAN
    BY <1>6 DEF PlayBag, BagEnds, Interrupt, LaunchTypeOK, Options
  <2> QED
    BY <2>1, <1>4, <1>6 DEF PlayBag, BagEnds, Interrupt
<1>7. CASE \/ ShutDownLaunch \/ ShutDownWithController \/ StopGroup
           \/ \E reaped \in BOOLEAN : KillGroup(reaped)
  BY <1>5, <1>7 DEF ShutDownLaunch, ShutDownWithController, StopGroup, KillGroup
<1>8. CASE \E c \in LaunchConfigs : SetUp(c)
  BY <1>2, <1>8 DEF SetUp
<1>9. CASE \/ Begin \/ RejectArguments \/ NoticeExit \/ SeeNode \/ MissNode
           \/ GiveUpWaiting \/ NothingToStop \/ QueryTimesOut \/ Terminate
           \/ RefuseSetUp \/ KillLaunch \/ UNCHANGED replayVars
  BY <1>1, <1>9 DEF Begin, RejectArguments, NoticeExit, SeeNode, MissNode,
     GiveUpWaiting, NothingToStop, QueryTimesOut, Terminate, RefuseSetUp,
     KillLaunch, replayVars
<1> QED
  BY <1>3, <1>6, <1>7, <1>8, <1>9 DEF ReplayNext, Control

\* The controller's part.
LEMMA ReplayKeepsControlType ==
  ASSUME ReplayTypeOK, [ReplayNext]_replayVars
  PROVE  /\ options' = options
         /\ controller' \in {"begin", "polling", "delaying", "playing",
                             "stopping", "done"}
         /\ polls' \in 0 .. MaxPolls
         /\ launch' \in {"none", "starting", "running", "ended", "failed"}
         /\ bag' \in {"unplayed", "playing", "ended", "failed"}
         /\ outcome' \in Outcomes
         /\ abandoned' \in BOOLEAN
<1> USE ReplayAssumption DEF ReplayTypeOK, Outcomes
<1>1. CASE UNCHANGED controlVars
  BY <1>1 DEF controlVars
<1>2. CASE NodesStep \/ UNCHANGED replayVars
  BY <1>1, <1>2 DEF NodesStep, replayVars
<1>3. CASE Begin \/ RejectArguments \/ NoticeExit \/ SeeNode \/ GiveUpWaiting
  BY <1>3 DEF Begin, RejectArguments, NoticeExit, SeeNode, GiveUpWaiting,
     MayPoll, Finally, Exit, LaunchFailure
<1>4. CASE MissNode
  BY <1>4 DEF MissNode, MayPoll
<1>5. CASE PlayBag \/ (\E ok \in BOOLEAN : BagEnds(ok)) \/ Interrupt
  BY <1>5 DEF PlayBag, BagEnds, Interrupt, Finally
<1>6. CASE \/ NothingToStop \/ StopGroup
           \/ \E reaped \in BOOLEAN : KillGroup(reaped)
  BY <1>6 DEF NothingToStop, StopGroup, KillGroup, Exit
<1>7. CASE QueryTimesOut \/ Terminate \/ RefuseSetUp \/ KillLaunch
  BY <1>7 DEF QueryTimesOut, Terminate, RefuseSetUp, KillLaunch, Finally, Exit
<1>8. CASE \/ ShutDownLaunch \/ ShutDownWithController
           \/ \E c \in LaunchConfigs : SetUp(c)
  BY <1>8 DEF ShutDownLaunch, ShutDownWithController, SetUp
<1> QED
  BY <1>2, <1>3, <1>4, <1>5, <1>6, <1>7, <1>8 DEF ReplayNext, Control

LEMMA ReplayKeepsType ==
  ReplayTypeOK /\ [ReplayNext]_replayVars => ReplayTypeOK'
BY ReplayKeepsLaunchType, ReplayKeepsControlType DEF ReplayTypeOK, Outcomes

-----------------------------------------------------------------------------
(* The nodes live as long as their launch.                                 *)

NobodyUp == \A p \in Processes : proc[p] # "up"

\* Nobody runs outside a launch, unless it was abandoned, nor before it has
\* set up the nodes; and a script that is done has no launch.
LifeInv ==
  /\ ReplayTypeOK
  /\ launch \in {"none", "starting"} => NobodyUp
  /\ launch # "running" /\ ~abandoned => NobodyUp
  /\ controller = "begin" /\ ~options.noLaunch => launch = "none"
  /\ controller = "done" /\ ~options.noLaunch /\ ~abandoned => ~LaunchAlive

\* Only a launch that runs starts a node.
LEMMA NodesStepLife ==
  ASSUME LifeInv, NodesStep
  PROVE  LifeInv'
<1>1. ReplayTypeOK'
  BY ReplayKeepsType DEF LifeInv, ReplayNext
<1>2. UNCHANGED controlVars
  BY DEF NodesStep
<1>3. ASSUME launch # "running", NobodyUp
      PROVE  NobodyUp'
  <2>1. \/ \E p \in Processes : CrashNode(p)
        \/ UNCHANGED proc
    BY <1>3 DEF NodesStep, LearnTf, ReceiveSectors, SendDistances
  <2>2. ASSUME NEW p \in Processes, CrashNode(p)
        PROVE  NobodyUp'
    BY <1>3, <2>2 DEF CrashNode, Ended, NobodyUp, LifeInv, ReplayTypeOK,
                      LaunchTypeOK
  <2> QED
    BY <1>3, <2>1, <2>2 DEF NobodyUp
<1> QED
  BY <1>1, <1>2, <1>3 DEF LifeInv, controlVars, LaunchAlive

LEMMA GroupGoneEndsAll ==
  ASSUME GroupGone
  PROVE  NobodyUp'
BY DEF GroupGone, NobodyUp

LEMMA LifeInductive == LifeInv /\ [ReplayNext]_replayVars => LifeInv'
<1> SUFFICES ASSUME LifeInv, [ReplayNext]_replayVars
             PROVE  LifeInv'
  OBVIOUS
<1> USE DEF LifeInv, LaunchAlive
<1>1. ReplayTypeOK'
  BY ReplayKeepsType
<1>2. CASE NodesStep
  BY <1>2, NodesStepLife
<1>3. UNCHANGED proc => NobodyUp' = NobodyUp
  BY DEF NobodyUp
<1>4. CASE RejectArguments \/ Begin
  BY <1>1, <1>3, <1>4
     DEF RejectArguments, Begin, Exit, launchVars, nodeVars
<1>5. CASE NoticeExit \/ SeeNode \/ MissNode \/ QueryTimesOut \/ GiveUpWaiting
  BY <1>1, <1>3, <1>5 DEF NoticeExit, SeeNode, MissNode, QueryTimesOut,
     GiveUpWaiting, MayPoll, Finally, launchVars, nodeVars
<1>6. CASE PlayBag \/ (\E ok \in BOOLEAN : BagEnds(ok)) \/ Interrupt
  BY <1>1, <1>3, <1>6 DEF PlayBag, BagEnds, Interrupt, Finally, nodeVars
<1>7. CASE NothingToStop \/ Terminate
  BY <1>1, <1>3, <1>7 DEF NothingToStop, Terminate, Exit, launchVars, nodeVars
<1>8. CASE RefuseSetUp \/ KillLaunch
  BY <1>1, <1>3, <1>8 DEF RefuseSetUp, KillLaunch, launchVars, nodeVars
<1>9. CASE StopGroup \/ \E reaped \in BOOLEAN : KillGroup(reaped)
  BY <1>1, <1>9, GroupGoneEndsAll DEF StopGroup, KillGroup, Exit
<1>10. CASE ShutDownLaunch \/ ShutDownWithController
  BY <1>1, <1>10, GroupGoneEndsAll DEF ShutDownLaunch, ShutDownWithController
<1>11. CASE \E c \in LaunchConfigs : SetUp(c)
  BY <1>1, <1>11 DEF SetUp
<1>12. CASE UNCHANGED replayVars
  BY <1>1, <1>3, <1>12 DEF replayVars, controlVars, launchVars, nodeVars
<1> QED
  BY <1>2, <1>4, <1>5, <1>6, <1>7, <1>8, <1>9, <1>10, <1>11, <1>12
     DEF ReplayNext, Control

-----------------------------------------------------------------------------
(* The exit code, and what the wire shows.                                 *)

CodeInv ==
  /\ ReplayTypeOK
  /\ outcome = "ok" => bag = "ended" /\ controller \in {"stopping", "done"}

LEMMA CodeInductive == CodeInv /\ [ReplayNext]_replayVars => CodeInv'
<1> SUFFICES ASSUME CodeInv, [ReplayNext]_replayVars
             PROVE  CodeInv'
  OBVIOUS
<1> USE DEF CodeInv
<1>1. ReplayTypeOK'
  BY ReplayKeepsType
<1>2. CASE UNCHANGED <<outcome, bag, controller>>
  BY <1>1, <1>2
<1>3. CASE Begin \/ SeeNode \/ MissNode \/ PlayBag
  BY <1>1, <1>3 DEF Begin, SeeNode, MissNode, PlayBag, MayPoll
<1>4. CASE \/ RejectArguments \/ NoticeExit \/ QueryTimesOut
           \/ GiveUpWaiting \/ Interrupt \/ Terminate
  BY <1>1, <1>4 DEF RejectArguments, NoticeExit, QueryTimesOut, GiveUpWaiting,
     Interrupt, Terminate, LaunchFailure, Finally, Exit
<1>5. CASE \E ok \in BOOLEAN : BagEnds(ok)
  BY <1>1, <1>5 DEF BagEnds, Finally
<1>6. CASE \/ NothingToStop \/ StopGroup
           \/ \E reaped \in BOOLEAN : KillGroup(reaped)
  BY <1>1, <1>6 DEF NothingToStop, StopGroup, KillGroup, Exit
<1>7. CASE \/ RefuseSetUp \/ KillLaunch \/ ShutDownLaunch
           \/ ShutDownWithController \/ \E c \in LaunchConfigs : SetUp(c)
  BY <1>2, <1>7 DEF RefuseSetUp, KillLaunch, ShutDownLaunch,
     ShutDownWithController, SetUp
<1>8. CASE NodesStep \/ UNCHANGED replayVars
  BY <1>2, <1>8 DEF NodesStep, replayVars, controlVars
<1> QED
  BY <1>3, <1>4, <1>5, <1>6, <1>7, <1>8 DEF ReplayNext, Control

\* A guard that counts has accepted a stamp, and so runs on the bag's clock;
\* the configuration is not changed after that.
WireInv ==
  /\ LifeInv
  /\ launch \in {"none", "starting"} => frames = 0 /\ wire = "silent"
  /\ frames > 0 => config.simTime
  /\ OnlySimTimeShowsReplay

LEMMA NodesStepWire ==
  ASSUME WireInv, NodesStep
  PROVE  WireInv'
<1> USE LaunchAssumption
    DEF WireInv, OnlySimTimeShowsReplay, ReplayTypeOK, LaunchTypeOK
<1>1. LifeInv'
  BY NodesStepLife
<1>2. UNCHANGED <<launch, config>>
  BY DEF NodesStep, controlVars, StartNode, FailStart, CrashNode, LearnTf,
         ReceiveSectors, SendDistances
<1>3. launch \in {"none", "starting"} => UNCHANGED <<frames, wire>>
  BY DEF NodesStep, StartNode, FailStart, CrashNode, LearnTf,
         ReceiveSectors, SendDistances, LifeInv, NobodyUp, Processes
<1>4. frames' > 0 => config.simTime
  <2>1. CASE \E bad \in BOOLEAN : (~bad => FreshForSender) /\ ReceiveSectors(bad)
    BY <2>1 DEF ReceiveSectors, Refused, FreshForSender
  <2>2. CASE frames' \in {0, frames}
    BY <2>2
  <2>3. \/ \E bad \in BOOLEAN : (~bad => FreshForSender) /\ ReceiveSectors(bad)
        \/ frames' \in {0, frames}
    BY DEF NodesStep, StartNode, FailStart, CrashNode, LearnTf, SendDistances,
           LifeInv
  <2> QED
    BY <2>1, <2>2, <2>3
<1>5. wire' = "data" => config.simTime
  <2>1. CASE \E silence \in BOOLEAN : SendDistances(silence)
    <3>1. wire' = "data" => frames' >= RecoveryFrames
      BY <2>1 DEF SendDistances, LifeInv
    <3>2. frames' \in 0 .. RecoveryFrames
      BY <1>1 DEF LifeInv
    <3> QED
      BY <1>4, <3>1, <3>2
  <2>2. CASE wire' \in {"silent", wire}
    BY <2>2
  <2>3. \/ \E silence \in BOOLEAN : SendDistances(silence)
        \/ wire' \in {"silent", wire}
    BY DEF NodesStep, StartNode, FailStart, CrashNode, LearnTf, ReceiveSectors
  <2> QED
    BY <2>1, <2>2, <2>3
<1> QED
  BY <1>1, <1>2, <1>3, <1>4, <1>5

LEMMA WireInductive == WireInv /\ [ReplayNext]_replayVars => WireInv'
<1> SUFFICES ASSUME WireInv, [ReplayNext]_replayVars
             PROVE  WireInv'
  OBVIOUS
<1> USE DEF WireInv, OnlySimTimeShowsReplay
<1>1. LifeInv'
  BY LifeInductive
<1>2. CASE NodesStep
  BY <1>2, NodesStepWire
<1>3. ASSUME UNCHANGED <<config, nodeVars>>,
             launch' \in {"none", "starting"} => launch \in {"none", "starting"}
      PROVE  WireInv'
  BY <1>1, <1>3 DEF nodeVars
<1>4. CASE \/ Begin \/ RejectArguments \/ NoticeExit \/ SeeNode \/ MissNode
           \/ GiveUpWaiting \/ NothingToStop \/ QueryTimesOut \/ Terminate
           \/ RefuseSetUp \/ KillLaunch \/ UNCHANGED replayVars
  BY <1>3, <1>4 DEF Begin, RejectArguments, NoticeExit, SeeNode, MissNode,
     GiveUpWaiting, NothingToStop, QueryTimesOut, Terminate, RefuseSetUp,
     KillLaunch, replayVars, controlVars, launchVars, LifeInv
<1>5. CASE PlayBag \/ (\E ok \in BOOLEAN : BagEnds(ok)) \/ Interrupt
  BY <1>3, <1>5 DEF PlayBag, BagEnds, Interrupt
<1>6. ASSUME GroupGone, launch' = "ended" \/ launch' = "failed"
      PROVE  WireInv'
  BY <1>1, <1>6 DEF GroupGone
<1>7. CASE \/ ShutDownLaunch \/ ShutDownWithController \/ StopGroup
           \/ \E reaped \in BOOLEAN : KillGroup(reaped)
  BY <1>6, <1>7 DEF ShutDownLaunch, ShutDownWithController, StopGroup, KillGroup
<1>8. CASE \E c \in LaunchConfigs : SetUp(c)
  BY <1>1, <1>8 DEF SetUp, LaunchNodes
<1> QED
  BY <1>2, <1>4, <1>5, <1>7, <1>8 DEF ReplayNext, Control

-----------------------------------------------------------------------------
(* The rehearsal.                                                          *)

\* With the check beside it the replay does nothing it does not do alone.
LEMMA RehearsalIsReplay == [RehearsalNext]_rehearsalVars => [ReplayNext]_replayVars
<1>1. DistancesHeard => NodesStep
  BY DEF DistancesHeard, NodesStep
<1> QED
  BY <1>1 DEF RehearsalNext, ReplayStep, OwnHeartbeatHeard, TalkerHeard,
              TimePasses, rehearsalVars, ReplayNext

THEOREM ReplayTypeCorrect == RehearsalSpec => []ReplayTypeOK
<1>1. RehearsalInit => ReplayTypeOK
  BY ReplayInitialType DEF RehearsalInit
<1> QED
  BY <1>1, RehearsalIsReplay, ReplayKeepsType, PTL DEF RehearsalSpec

LEMMA WireInvInitially == ReplayInit => WireInv
BY ReplayInitialType
   DEF ReplayInit, LaunchInit, WireInv, LifeInv, NobodyUp, LaunchAlive,
       OnlySimTimeShowsReplay

\* No node outlives a controller that stopped its launch.
THEOREM NobodyOutlives == RehearsalSpec => []NothingOutlivesController
<1>1. RehearsalInit => LifeInv
  BY WireInvInitially DEF RehearsalInit, WireInv
<1>2. LifeInv => NothingOutlivesController
  BY DEF LifeInv, NothingOutlivesController, NobodyUp, LaunchAlive
<1> QED
  BY <1>1, <1>2, RehearsalIsReplay, LifeInductive, PTL DEF RehearsalSpec

\* Exit code 0 means a bag played to its end.
THEOREM ZeroMeansPlayed == RehearsalSpec => []ExitTellsPlayback
<1>1. RehearsalInit => CodeInv
  BY ReplayInitialType DEF RehearsalInit, ReplayInit, CodeInv
<1>2. CodeInv => ExitTellsPlayback
  BY DEF CodeInv, ExitTellsPlayback
<1> QED
  BY <1>1, <1>2, RehearsalIsReplay, CodeInductive, PTL DEF RehearsalSpec

\* Without use_sim_time a replay shows nothing but the wall.
THEOREM ReplayNeedsSimTime == RehearsalSpec => []OnlySimTimeShowsReplay
<1>1. RehearsalInit => WireInv
  BY WireInvInitially DEF RehearsalInit
<1>2. WireInv => OnlySimTimeShowsReplay
  BY DEF WireInv
<1> QED
  BY <1>1, <1>2, RehearsalIsReplay, WireInductive, PTL DEF RehearsalSpec

-----------------------------------------------------------------------------
(* The check.                                                              *)

LEMMA OwnHeartbeatType == OwnHeartbeat \in Heartbeats
BY LinkCheckAssumption DEF OwnHeartbeat, Heartbeats

\* What the check passed on came from somebody else, so the sender will take
\* it too; a check that listens has not counted enough.
CheckInv ==
  /\ CheckTypeOK
  /\ check = "listening" => received < CheckCount
  /\ CheckPassesAutopilot

LEMMA CheckInductive == CheckInv /\ [RehearsalNext]_rehearsalVars => CheckInv'
<1> SUFFICES ASSUME CheckInv, [RehearsalNext]_rehearsalVars
             PROVE  CheckInv'
  OBVIOUS
<1> USE LinkCheckAssumption DEF CheckInv, CheckTypeOK, CheckPassesAutopilot
<1>1. CASE UNCHANGED checkVars
  BY <1>1 DEF checkVars
<1>2. CASE DistancesHeard
  BY <1>2 DEF DistancesHeard, HearDistances, Enough
<1>3. ASSUME NEW h \in Heartbeats, HearHeartbeat(h), ~FromSource(h) \/ ~h.autopilot
      PROVE  CheckInv'
  BY <1>3 DEF HearHeartbeat, GoOn, IsTargetAutopilot, HeartbeatMatches
<1>4. CASE OwnHeartbeatHeard
  BY <1>3, <1>4, OwnHeartbeatType DEF OwnHeartbeatHeard, OwnHeartbeat
<1>5. CASE TalkerHeard
  BY <1>3, <1>5, RehearsalAssumption DEF TalkerHeard
<1>6. CASE TimePasses
  BY <1>6 DEF TimePasses, CheckTick, GiveUpListening
<1> QED
  BY <1>1, <1>2, <1>4, <1>5, <1>6
     DEF RehearsalNext, ReplayStep, rehearsalVars

LEMMA CheckInvInitially == CheckInit => CheckInv
BY OwnHeartbeatType, LinkCheckAssumption
   DEF CheckInit, CheckInv, CheckTypeOK, CheckPassesAutopilot

THEOREM CheckTypeCorrect == RehearsalSpec => []CheckTypeOK
<1>1. RehearsalInit => CheckInv
  BY CheckInvInitially DEF RehearsalInit
<1>2. CheckInv => CheckTypeOK
  BY DEF CheckInv
<1> QED
  BY <1>1, <1>2, CheckInductive, PTL DEF RehearsalSpec

\* For all ids of target and sender, the check is no more lenient than the
\* sender.
THEOREM CheckIsStrict == RehearsalSpec => []CheckPassesAutopilot
<1>1. RehearsalInit => CheckInv
  BY CheckInvInitially DEF RehearsalInit
<1>2. CheckInv => CheckPassesAutopilot
  BY DEF CheckInv
<1> QED
  BY <1>1, <1>2, CheckInductive, PTL DEF RehearsalSpec

=============================================================================
