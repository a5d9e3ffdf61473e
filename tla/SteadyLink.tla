----------------------------- MODULE SteadyLink -----------------------------
(***************************************************************************)
(* The sender when, from some moment on, everything around it works: the   *)
(* port opens and takes every message, the autopilot's heartbeats are      *)
(* heard in time, and sector messages with advancing sequences come at     *)
(* most FramePause ticks apart.  Before that moment anything may happen.   *)
(***************************************************************************)
EXTENDS MavlinkSender

CONSTANT FramePause   \* the longest pause between two advancing frames

ASSUME SteadyLinkAssumption == FramePause \in Nat \ {0}

VARIABLE steady       \* everything works from now on

steadyLinkVars == <<senderVars, steady>>

\* No heartbeat need be waiting as long as the last one is not too old.
HeardInTime(heard) ==
  heard \/ (heardHeartbeat /\ heartbeatAge <= HeartbeatTimeout)

GoodFrame ==
  /\ steady
  /\ hasProgress => progressAge > 0
  /\ TakeSector("advances", 0)
  /\ UNCHANGED steady

GoodSend ==
  /\ steady
  /\ \E heard \in BOOLEAN :
       /\ HeardInTime(heard)
       /\ \/ StayClosed(TRUE)
          \/ HoldBack(TRUE, heard)
          \/ TransmitDistances(TRUE, heard, TRUE, FALSE)
  /\ UNCHANGED steady

GoodHeartbeat ==
  /\ steady
  /\ \E heard \in BOOLEAN :
       /\ HeardInTime(heard)
       /\ StayClosed(TRUE) \/ SendOwnHeartbeat(TRUE, heard, TRUE)
  /\ UNCHANGED steady

GoodTick ==
  /\ steady
  /\ progressAge < FramePause
  /\ SenderTick
  /\ UNCHANGED steady

Report ==
  /\ PublishDiagnostics
  /\ UNCHANGED steady

Trouble ==
  /\ ~steady
  /\ OnSectorDistances \/ SendHeartbeat \/ SendObstacleDistance \/ SenderTick
  /\ UNCHANGED steady

BecomeSteady ==
  /\ ~steady
  /\ steady' = TRUE
  /\ UNCHANGED senderVars

SteadyLinkNext ==
  \/ GoodFrame
  \/ GoodSend
  \/ GoodHeartbeat
  \/ GoodTick
  \/ Report
  \/ Trouble
  \/ BecomeSteady

\* The executor runs the send timer again and again, time passes, frames come.
SteadyLinkFairness ==
  /\ WF_steadyLinkVars(GoodFrame)
  /\ WF_steadyLinkVars(GoodSend)
  /\ WF_steadyLinkVars(GoodTick)

SteadyLinkInit == SenderInit /\ steady = FALSE

SteadyLinkSpec ==
  /\ SteadyLinkInit
  /\ [][SteadyLinkNext]_steadyLinkVars
  /\ SteadyLinkFairness

\* Whatever failed before, however far the backoff has gone, real distances
\* flow again (mavlink_obstacle_sender.py:434-461, 544-636).
DataFlows == steady ~> (sent = "data")

\* ... and after some time nothing but real distances is sent: no wall is
\* left over from a latch, a heartbeat or a validation error.
WallEnds == steady ~> [](sent \in {"nothing", "data"})

=============================================================================
