------------------------------- MODULE Launch -------------------------------
(***************************************************************************)
(* The processes that launch/aero_halo_360.launch.py starts, and what they *)
(* are to each other once they run: the cloud node needs the transform of  *)
(* the static publisher, the sender needs cloud nodes that agree with its  *)
(* own parameters and whose sequences do not go back.  A process that ends *)
(* is started again after respawn_delay, or never.                         *)
(*                                                                         *)
(* Abstractions.  Of the sender's handlers only what a launch or a respawn *)
(* changes is kept: Bridge has the rest.  bad and silence are what can go  *)
(* wrong there, as inputs.  All is fail-closed: fail_closed is set and no  *)
(* heartbeat is waited for.                                                *)
(***************************************************************************)
EXTENDS Integers

CONSTANTS
  RecoveryFrames,   \* mavlink.recovery_healthy_frames
  MaxLag            \* bound: sources a new cloud node has to catch up with

ASSUME LaunchAssumption ==
  /\ RecoveryFrames \in Nat \ {0}
  /\ MaxLag \in Nat

VARIABLES
  config,     \* what the launch description returned
  proc,       \* the processes: absent, down (to be started), up, gone
  hasTf,      \* the cloud node knows the transform of the LiDAR
  lag,        \* how far its sequence is behind the last one the sender took
  frames,     \* healthy frames of the sender's guard; open at RecoveryFrames
  wire,       \* what its latest send timer put on the wire
  simClock    \* somebody publishes /clock

nodeVars == <<proc, hasTf, lag, frames, wire>>
launchVars == <<config, nodeVars, simClock>>

Processes == {"cloud", "sender", "tf"}

\* cloudOk and senderOk: the node's constructor accepts its parameters;
\* agree: the ranges and the angle offset that the cloud node states are the
\* ones the sender was told; framesMatch: the static transform connects the
\* LiDAR's frame with target_frame.
Configs ==
  [processes: SUBSET Processes, respawn: BOOLEAN, cloudOk: BOOLEAN,
   senderOk: BOOLEAN, agree: BOOLEAN, framesMatch: BOOLEAN, simTime: BOOLEAN]

NothingLaunched ==
  [processes |-> {}, respawn |-> FALSE, cloudOk |-> FALSE, senderOk |-> FALSE,
   agree |-> FALSE, framesMatch |-> FALSE, simTime |-> FALSE]

\* The actions that _launch_setup returns are executed.
LaunchNodes(c) ==
  /\ config' = c
  /\ proc' = [p \in Processes |-> IF p \in c.processes THEN "down" ELSE "absent"]
  /\ UNCHANGED <<hasTf, lag, frames, wire, simClock>>

-----------------------------------------------------------------------------
(* Starting, ending and respawning.                                        *)

Starts(p) ==
  CASE p = "cloud"  -> config.cloudOk
    [] p = "sender" -> config.senderOk
    [] p = "tf"     -> TRUE

\* Mutant: the launch service is not told to respawn.
EndedForGood == "gone"

Ended == IF config.respawn THEN "down" ELSE "gone"

\* A constructor that accepts its parameters: nothing is left of the last one.
StartNode(p) ==
  /\ proc[p] = "down"
  /\ Starts(p)
  /\ proc' = [proc EXCEPT ![p] = "up"]
  /\ hasTf' = (hasTf /\ p # "cloud")
  /\ lag' = IF p = "sender" THEN 0 ELSE lag
  /\ frames' = IF p = "sender" THEN 0 ELSE frames
  /\ UNCHANGED <<config, wire, simClock>>

\* One that throws ends the process at once.
FailStart(p) ==
  /\ proc[p] = "down"
  /\ ~Starts(p)
  /\ proc' = [proc EXCEPT ![p] = Ended]
  /\ UNCHANGED <<config, hasTf, lag, frames, wire, simClock>>

\* A cloud node that is started again counts its sources from one; the sender
\* remembers the sequence of the old one, which may itself be catching up.
CrashNode(p) ==
  /\ proc[p] = "up"
  /\ proc' = [proc EXCEPT ![p] = Ended]
  /\ lag' \in IF p = "cloud" THEN lag .. MaxLag ELSE {lag}
  /\ wire' = IF p = "sender" THEN "silent" ELSE wire
  /\ UNCHANGED <<config, hasTf, frames, simClock>>

-----------------------------------------------------------------------------
(* What runs.                                                              *)

\* The static publisher's message is latched: whoever is up hears it.
\* Without that process somebody else publishes the transform.
LearnTf ==
  /\ proc["cloud"] = "up"
  /\ ~hasTf
  /\ "tf" \in config.processes => proc["tf"] = "up" /\ config.framesMatch
  /\ hasTf' = TRUE
  /\ UNCHANGED <<config, proc, lag, frames, wire, simClock>>

\* Mutant: what the message states is not compared with the sender's parameters.
RefusedUnlessMismatched(bad) == bad \/ lag > 0 \/ ~hasTf

\* Refused: out of contract, going back, or a wall of the cloud node itself,
\* as long as it has no transform or for another reason (bad).
Refused(bad) == bad \/ lag > 0 \/ ~hasTf \/ ~config.agree

\* Mutant: a guard that is open goes on counting.
ReceiveSectorsCounting(bad) ==
  /\ proc["cloud"] = "up"
  /\ proc["sender"] = "up"
  /\ lag' = IF lag > 0 THEN lag - 1 ELSE lag
  /\ frames' = IF Refused(bad) THEN 0 ELSE (frames + 1) % (2 * RecoveryFrames)
  /\ UNCHANGED <<config, proc, hasTf, wire, simClock>>

\* A bad message counts for nothing, a good one for one frame, and both for
\* one source by which a new cloud node catches up.
ReceiveSectors(bad) ==
  /\ proc["cloud"] = "up"
  /\ proc["sender"] = "up"
  /\ lag' = IF lag > 0 THEN lag - 1 ELSE lag
  /\ frames' = IF Refused(bad) THEN 0
               ELSE IF frames < RecoveryFrames THEN frames + 1 ELSE frames
  /\ UNCHANGED <<config, proc, hasTf, wire, simClock>>

\* The sender's timers count the node's clock: with use_sim_time and nobody
\* publishing /clock they never fire.
TimersRun == ~config.simTime \/ simClock

\* Mutant: silence is not noticed.
SendDeafly(silence) ==
  /\ proc["sender"] = "up"
  /\ TimersRun
  /\ wire' = IF frames < RecoveryFrames THEN "wall" ELSE "data"
  /\ UNCHANGED <<config, proc, hasTf, lag, frames, simClock>>

\* silence: no progress for longer than input_fail_timeout_ms.
SendDistances(silence) ==
  /\ proc["sender"] = "up"
  /\ TimersRun
  /\ frames' = IF silence THEN 0 ELSE frames
  /\ wire' = IF frames' < RecoveryFrames THEN "wall" ELSE "data"
  /\ UNCHANGED <<config, proc, hasTf, lag, simClock>>

\* Anybody may start or stop publishing /clock.
ToggleClock ==
  /\ simClock' = ~simClock
  /\ UNCHANGED <<config, nodeVars>>

NodesNext ==
  \/ \E p \in Processes : StartNode(p) \/ FailStart(p) \/ CrashNode(p)
  \/ LearnTf
  \/ \E bad \in BOOLEAN : ReceiveSectors(bad)
  \/ \E silence \in BOOLEAN : SendDistances(silence)
  \/ ToggleClock

LaunchInit ==
  /\ config = NothingLaunched
  /\ proc = [p \in Processes |-> "absent"]
  /\ hasTf = FALSE
  /\ lag = 0
  /\ frames = 0
  /\ wire = "silent"
  /\ simClock = FALSE

\* Any configuration at all, launched once.
LaunchNext ==
  \/ /\ config = NothingLaunched
     /\ \E c \in Configs : LaunchNodes(c)
  \/ NodesNext

LaunchSpec == LaunchInit /\ [][LaunchNext]_launchVars

-----------------------------------------------------------------------------
(* Properties.                                                             *)

\* Every variable stays in its range.
LaunchTypeOK ==
  /\ config \in Configs
  /\ proc \in [Processes -> {"absent", "down", "up", "gone"}]
  /\ hasTf \in BOOLEAN
  /\ lag \in 0 .. MaxLag
  /\ frames \in 0 .. RecoveryFrames
  /\ wire \in {"silent", "wall", "data"}
  /\ simClock \in BOOLEAN

\* Two nodes that accept their parameters can still disagree: the cloud node
\* takes its ranges from range_filter, the sender takes them, and an angle
\* offset, from mavlink.  Then nothing but the wall is sent, whatever is
\* launched, crashes or is respawned (mavlink_obstacle_sender.py:238-253,
\* launch/aero_halo_360.launch.py:113).
DisagreeingNodesShowWall == wire = "data" => config.agree /\ config.senderOk

=============================================================================
