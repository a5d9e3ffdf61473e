---------------------------- MODULE SteadySensor ----------------------------
(***************************************************************************)
(* The cloud node in front of a sensor that, from some moment on, works:   *)
(* its clouds are well formed, carry fresh stamps, can be transformed,     *)
(* hold points, unless an empty scene counts as clear without a warning,   *)
(* and come at most MaxPause ticks apart.  Before that moment anything may *)
(* happen, so the node can be in any state it can reach.                   *)
(***************************************************************************)
EXTENDS CloudProcessor

CONSTANT MaxPause   \* the longest pause between two clouds of a steady sensor

ASSUME SteadyAssumption == MaxPause \in Nat \ {0}

VARIABLE steady  \* the sensor works from now on

steadyVars == <<cloudVars, steady>>

\* A new stamp, so not in the millisecond of the cloud before; a stamp from
\* the future that was accepted earlier can still spoil it.
HealthyCloud ==
  /\ steady
  /\ hasCloud => cloudAge > 0
  /\ \/ RefuseStamp(FALSE, 0)
     \/ PassOverStamp(0)
     \/ \E empty \in BOOLEAN :
          /\ empty => FilteredEmptyIsClear /\ ~FilteredEmptyWarnOnly
          /\ ProcessCloud(0, FALSE, empty)
  /\ UNCHANGED steady

SteadyTick ==
  /\ steady
  /\ cloudAge < MaxPause
  /\ Tick
  /\ UNCHANGED steady

SteadyPublish ==
  /\ OnPublishTimer
  /\ UNCHANGED steady

Turbulence ==
  /\ ~steady
  /\ OnCloud \/ Tick
  /\ UNCHANGED steady

Settle ==
  /\ ~steady
  /\ steady' = TRUE
  /\ UNCHANGED cloudVars

SteadyNext ==
  \/ HealthyCloud
  \/ SteadyTick
  \/ SteadyPublish
  \/ Turbulence
  \/ Settle

\* The executor runs the timer again and again, time passes, clouds come.
SteadyFairness ==
  /\ WF_steadyVars(SteadyPublish)
  /\ WF_steadyVars(SteadyTick)
  /\ WF_steadyVars(HealthyCloud)

SettlingInit == CloudInit /\ steady = FALSE

SteadyInit == CloudInit /\ steady = TRUE

\* A sensor that settles at some time.
SettlingSpec ==
  SettlingInit /\ [][SteadyNext]_steadyVars /\ SteadyFairness

\* A sensor that is steady from the start.
SteadySpec == SteadyInit /\ [][SteadyNext]_steadyVars

\* Whatever happened before, a node whose sensor works releases its latch
\* and never shuts it again, also in front of a scene that is empty now and
\* then, or for ever (watchdog.cpp:83-91, 99-119).
Recovers == steady ~> []~latched

\* "A single interval of 332 ms does not raise the virtual wall"
\* (docs/tuning_guide.md:62): a sensor whose clouds pause for less than the
\* warning threshold never makes an open node shut.
OpenStaysOpen == [][~latched => ~latched']_steadyVars

=============================================================================
