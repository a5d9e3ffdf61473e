----------------------------- MODULE LinkCheck ------------------------------
(***************************************************************************)
(* scripts/check_mavlink.py, which listens on a MAVLink connection until   *)
(* it has heard the autopilot, or obstacle distances, or nothing for too   *)
(* long.  It runs before a flight in the sender's place on the same        *)
(* connection, or during a rehearsal at the other end of the sender's; so  *)
(* a heartbeat it takes for the autopilot's should be one that the sender  *)
(* will take for it (heartbeat_matches, here too).                         *)
(*                                                                         *)
(* A heartbeat is its source and what decides about it: whether its type   *)
(* is that of a ground station, whether it names an autopilot.             *)
(***************************************************************************)
EXTENDS Integers

CONSTANTS
  TargetSystem, TargetComponent,   \* of the check and of the sender; 0: any
  SourceSystem, SourceComponent,   \* the sender's own
  CheckTimeout,                    \* --timeout, in ticks
  CheckCount                       \* --count, where it is not 0

ASSUME LinkCheckAssumption ==
  /\ {TargetSystem, TargetComponent} \subseteq 0 .. 255
  /\ {SourceSystem, SourceComponent} \subseteq 1 .. 255
  /\ CheckTimeout \in Nat \ {0}
  /\ CheckCount \in Nat \ {0}

VARIABLES
  task,       \* --heartbeat-only, --count, or neither: heartbeat, count, watch
  check,      \* listening, passed (exit code 0), no_heartbeat (3),
              \* no_distances (4)
  waited,     \* ticks since the deadline was set
  received,   \* distances counted
  heard       \* the heartbeat that was taken for the autopilot's

checkVars == <<task, check, waited, received, heard>>

Heartbeats ==
  [system: 1 .. 255, component: 1 .. 255, groundStation: BOOLEAN,
   autopilot: BOOLEAN]

\* The sender's: MAV_TYPE_ONBOARD_CONTROLLER, MAV_AUTOPILOT_INVALID.
OwnHeartbeat ==
  [system |-> SourceSystem, component |-> SourceComponent,
   groundStation |-> FALSE, autopilot |-> FALSE]

OfTarget(h) ==
  /\ TargetSystem > 0 => h.system = TargetSystem
  /\ TargetComponent > 0 => h.component = TargetComponent

FromSource(h) == h.system = SourceSystem /\ h.component = SourceComponent

\* heartbeat_matches, the sender's test.
HeartbeatMatches(h) ==
  ~FromSource(h) /\ ~h.groundStation /\ h.autopilot /\ OfTarget(h)

\* Mutant: whoever has the right ids and is no ground station is taken.
IsTargetVehicle(h) == OfTarget(h) /\ ~h.groundStation

\* is_target_autopilot, the check's.
IsTargetAutopilot(h) == OfTarget(h) /\ ~h.groundStation /\ h.autopilot

-----------------------------------------------------------------------------

\* The loop's condition is tested between two heartbeats, so one that was
\* waited for when the deadline passed is still listened to.
GoOn == check' = IF waited < CheckTimeout THEN "listening" ELSE "no_heartbeat"

\* Mutant: each heartbeat moves the deadline, as each distance does.
HearHeartbeatPatiently(h) ==
  /\ task = "heartbeat"
  /\ check = "listening"
  /\ check' = IF IsTargetAutopilot(h) THEN "passed" ELSE "listening"
  /\ heard' = IF IsTargetAutopilot(h) THEN h ELSE heard
  /\ waited' = 0
  /\ UNCHANGED <<task, received>>

\* wait_for_heartbeat.
HearHeartbeat(h) ==
  /\ task = "heartbeat"
  /\ check = "listening"
  /\ IF IsTargetAutopilot(h) THEN check' = "passed" /\ heard' = h
     ELSE GoOn /\ UNCHANGED heard
  /\ UNCHANGED <<task, waited, received>>

\* Mutant: tested before the message is counted.
EnoughBefore == task = "count" /\ received >= CheckCount

Enough == task = "count" /\ received + 1 >= CheckCount

\* Counted only where the count matters.
HearDistances ==
  /\ task # "heartbeat"
  /\ check = "listening"
  /\ received' = IF task = "count" THEN received + 1 ELSE received
  /\ waited' = 0
  /\ check' = IF Enough THEN "passed" ELSE "listening"
  /\ UNCHANGED <<task, heard>>

CheckTick ==
  /\ check = "listening"
  /\ waited < CheckTimeout
  /\ waited' = waited + 1
  /\ UNCHANGED <<task, check, received, heard>>

GiveUpListening ==
  /\ check = "listening"
  /\ waited = CheckTimeout
  /\ check' = IF task = "heartbeat" THEN "no_heartbeat" ELSE "no_distances"
  /\ UNCHANGED <<task, waited, received, heard>>

CheckInit ==
  /\ task \in {"heartbeat", "count", "watch"}
  /\ check = "listening"
  /\ waited = 0
  /\ received = 0
  /\ heard = OwnHeartbeat

CheckTypeOK ==
  /\ task \in {"heartbeat", "count", "watch"}
  /\ check \in {"listening", "passed", "no_heartbeat", "no_distances"}
  /\ waited \in 0 .. CheckTimeout
  /\ received \in 0 .. CheckCount
  /\ heard \in Heartbeats

=============================================================================
