----------------------------- MODULE Rehearsal ------------------------------
(***************************************************************************)
(* A replay with a check at the other end of its sender's connection.  The *)
(* sender's heartbeats and distances may get lost on the way to it, and    *)
(* others talk on the link as well.                                        *)
(***************************************************************************)
EXTENDS Replay, LinkCheck

CONSTANT Talkers   \* heartbeats of others on the link

ASSUME RehearsalAssumption ==
  /\ Talkers \subseteq Heartbeats
  /\ \A h \in Talkers : ~FromSource(h)

rehearsalVars == <<replayVars, checkVars>>

\* The replay, its messages lost.
ReplayStep ==
  /\ ReplayNext
  /\ UNCHANGED checkVars

DistancesHeard ==
  /\ \E silence \in BOOLEAN : SendDistances(silence)
  /\ HearDistances
  /\ UNCHANGED controlVars

OwnHeartbeatHeard ==
  /\ proc["sender"] = "up"
  /\ TimersRun
  /\ HearHeartbeat(OwnHeartbeat)
  /\ UNCHANGED replayVars

TalkerHeard ==
  /\ \E h \in Talkers : HearHeartbeat(h)
  /\ UNCHANGED replayVars

TimePasses ==
  /\ CheckTick \/ GiveUpListening
  /\ UNCHANGED replayVars

RehearsalNext ==
  \/ ReplayStep
  \/ DistancesHeard
  \/ OwnHeartbeatHeard
  \/ TalkerHeard
  \/ TimePasses

RehearsalInit == ReplayInit /\ CheckInit

RehearsalSpec ==
  /\ RehearsalInit
  /\ [][RehearsalNext]_rehearsalVars
  /\ ReplayFairness
  /\ WF_rehearsalVars(TimePasses)

-----------------------------------------------------------------------------
(* Properties.                                                             *)

\* A heartbeat check passes on what the sender will accept as its autopilot,
\* and never on the sender itself, a ground station or another device: two
\* programs that state the condition separately, the check without the
\* sender's own ids (check_mavlink.py:15-27, mavlink_obstacle_sender.py:
\* 191-222).
CheckPassesAutopilot ==
  task = "heartbeat" /\ check = "passed" => HeartbeatMatches(heard)

\* A check that is to end does, whoever goes on talking, and whatever happens
\* to the replay: its deadline is not moved by heartbeats of others
\* (check_mavlink.py:30-38, 96-119).
CheckEnds == task # "watch" ~> check # "listening"

=============================================================================
