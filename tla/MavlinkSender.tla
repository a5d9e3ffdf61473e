--------------------------- MODULE MavlinkSender ---------------------------
(***************************************************************************)
(* The node mavlink_obstacle_sender: a subscription and three timers that  *)
(* one thread runs, so each callback is one step.  A step that uses the    *)
(* MAVLink port can fail at every call it makes there.                     *)
(*                                                                         *)
(* Abstractions.  A SectorDistances message is what its checks find: the   *)
(* contract, how its sequence compares with last_source_sequence, the      *)
(* larger of its two ages and whether its status is a hard failure.  The   *)
(* distances are their age.  Texts, statistics and the identity of the     *)
(* autopilot are left out; a heartbeat is one that heartbeat_matches.  Of  *)
(* an error text it matters that there is one: no exception's is empty.    *)
(***************************************************************************)
EXTENDS StaleGuard

CONSTANTS
  MaxSourceAge,       \* max_source_age_ms, in ticks
  FailClosed,         \* fail_closed
  StartupMode,        \* startup_mode
  WaitHeartbeat,      \* wait_heartbeat_on_connect
  HeartbeatTimeout,   \* heartbeat_timeout_ms, in ticks
  ReconnectInitial,   \* reconnect_initial_ms, in ticks
  ReconnectMax        \* reconnect_max_ms, in ticks

ASSUME SenderAssumption ==
  /\ MaxSourceAge \in Nat \ {0}
  /\ FailClosed \in BOOLEAN
  /\ StartupMode \in {"virtual_wall", "unknown", "hold"}
  /\ WaitHeartbeat \in BOOLEAN
  /\ HeartbeatTimeout \in Nat \ {0}
  /\ ReconnectInitial \in Nat \ {0}
  /\ ReconnectMax \in Nat
  /\ ReconnectInitial <= ReconnectMax

VARIABLES
  hasDistances,    \* last_distances is not None
  distancesAge,    \* age of the source of last_distances
  link,            \* the port: [open: master is not None, wait: ticks until
                   \* next_connect_monotonic, delay: the backoff delay]
  sendError,       \* last_send_error is not empty
  heardHeartbeat,  \* last_autopilot_heartbeat_monotonic is not None
  heartbeatAge,    \* now - last_autopilot_heartbeat_monotonic
  sent             \* the obstacle distances the latest step put on the wire

inputVars == <<hasDistances, distancesAge>>
portVars == <<link, sendError, heardHeartbeat, heartbeatAge>>
senderVars == <<guardVars, inputVars, portVars, sent>>

\* The age beyond which data must not be on the wire: as old as a message
\* may be when it is taken, plus the silence the guard bears.
SentAgeBound == MaxSourceAge + InputFailTimeout

-----------------------------------------------------------------------------
(* The subscription: on_sector_distances.                                  *)

SectorOrders == {"backward", "same", "advances"}

\* A message that breaks the contract, goes back, is too old or reports a
\* hard upstream failure.  Nothing but the guard takes note of it.
RefuseSector(inContract, order, age, hardFailure) ==
  /\ \/ ~inContract
     \/ hasProgress /\ order = "backward"
     \/ age > MaxSourceAge
     \/ hardFailure
  /\ MarkFault
  /\ sent' = "nothing"
  /\ UNCHANGED <<inputVars, portVars>>

\* Mutant: a message is taken however old its data is.
TakeSectorOfAnyAge(order, age) ==
  /\ ~(hasProgress /\ order = "backward")
  /\ hasDistances' = TRUE
  /\ distancesAge' = age
  /\ MarkHealthyFrame(order = "advances")
  /\ sent' = "nothing"
  /\ UNCHANGED portVars

TakeSector(order, age) ==
  /\ ~(hasProgress /\ order = "backward")
  /\ age <= MaxSourceAge
  /\ hasDistances' = TRUE
  /\ distancesAge' = age
  /\ MarkHealthyFrame(order = "advances")
  /\ sent' = "nothing"
  /\ UNCHANGED portVars

OnSectorDistances ==
  \E order \in SectorOrders, age \in 0 .. MaxSourceAge + 1 :
    \/ \E inContract, hardFailure \in BOOLEAN :
         RefuseSector(inContract, order, age, hardFailure)
    \/ TakeSector(order, age)

-----------------------------------------------------------------------------
(* The port: connect_if_due, schedule_reconnect, read_autopilot_heartbeat. *)

\* Mutant: the delay doubles without end.
BackedOffForever(delay) == 2 * delay

BackedOff(delay) == IF 2 * delay < ReconnectMax THEN 2 * delay ELSE ReconnectMax

Closed(delay) ==
  [open |-> FALSE, wait |-> delay, delay |-> BackedOff(delay)]

Opened == [open |-> TRUE, wait |-> 0, delay |-> ReconnectInitial]

ConnectDue == ~link.open /\ link.wait = 0

\* connect_if_due at the start of a timer callback, the open failing or not.
AfterConnect(opens) ==
  IF ~ConnectDue THEN link ELSE IF opens THEN Opened ELSE Closed(link.delay)

\* last_send_error as connect_if_due leaves it.
ErrorAfterConnect(opens) == IF ConnectDue THEN ~opens ELSE sendError

\* Mutant: only the first heartbeat is timed.
HearHeartbeatOnce(heard) ==
  /\ heardHeartbeat' = (heardHeartbeat \/ heard)
  /\ heartbeatAge' = IF heard /\ ~heardHeartbeat THEN 0 ELSE heartbeatAge

\* read_autopilot_heartbeat on an open port, finding heartbeats or none.
HearHeartbeat(heard) ==
  /\ heardHeartbeat' = (heardHeartbeat \/ heard)
  /\ heartbeatAge' = IF heard THEN 0 ELSE heartbeatAge

\* Mutant: the error is not kept.
ScheduleReconnectSilently(port) ==
  /\ link' = Closed(port.delay)
  /\ UNCHANGED sendError

\* schedule_reconnect for the port as connect_if_due left it.
ScheduleReconnect(port) ==
  /\ link' = Closed(port.delay)
  /\ sendError' = TRUE

\* Both sending callbacks return early if the port is not open.
StayClosed(opens) ==
  /\ ~AfterConnect(opens).open
  /\ link' = AfterConnect(opens)
  /\ sendError' = ErrorAfterConnect(opens)
  /\ sent' = "nothing"
  /\ UNCHANGED <<guardVars, inputVars, heardHeartbeat, heartbeatAge>>

\* The read throws, perhaps after it found heartbeats.
FailRead(opens, heard) ==
  /\ AfterConnect(opens).open
  /\ HearHeartbeat(heard)
  /\ ScheduleReconnect(AfterConnect(opens))
  /\ sent' = "nothing"
  /\ UNCHANGED <<guardVars, inputVars>>

-----------------------------------------------------------------------------
(* The heartbeat timer: send_heartbeat.                                    *)

SendOwnHeartbeat(opens, heard, ok) ==
  /\ AfterConnect(opens).open
  /\ HearHeartbeat(heard)
  /\ IF ok THEN /\ link' = AfterConnect(opens)
                /\ sendError' = ErrorAfterConnect(opens)
           ELSE ScheduleReconnect(AfterConnect(opens))
  /\ sent' = "nothing"
  /\ UNCHANGED <<guardVars, inputVars>>

SendHeartbeat ==
  \E opens, heard \in BOOLEAN :
    \/ StayClosed(opens)
    \/ FailRead(opens, heard)
    \/ \E ok \in BOOLEAN : SendOwnHeartbeat(opens, heard, ok)

-----------------------------------------------------------------------------
(* The send timer: send_obstacle_distance.                                 *)

HeartbeatFresh(heard, age) ==
  ~WaitHeartbeat \/ (heard /\ age <= HeartbeatTimeout)

Stored == IF hasDistances THEN "data" ELSE "nothing"

\* current_distances_and_status: what to send, "nothing" for None.
CurrentDistances(heard, age) ==
  CASE HardFailure /\ ~FailClosed -> Stored
    [] HardFailure /\ FailClosed  ->
         IF hasDistances \/ StartupMode = "virtual_wall" THEN "wall"
         ELSE IF StartupMode = "unknown" THEN "unknown" ELSE "nothing"
    [] OTHER -> IF HeartbeatFresh(heard, age) THEN Stored ELSE "wall"

\* The third component of its result; only then may a STATUSTEXT follow.
CurrentlyDegraded(heard, age) ==
  GuardState # "OK" \/ ~HeartbeatFresh(heard, age)

\* delivered: obstacle_distance_send returns; fails: it throws or, after it
\* returned, the status text does.
TransmitDistances(opens, heard, delivered, fails) ==
  LET current == CurrentDistances(heardHeartbeat', heartbeatAge')
  IN  /\ AfterConnect(opens).open
      /\ HearHeartbeat(heard)
      /\ EvaluateGuard
      /\ current # "nothing"
      /\ ~delivered => fails
      /\ delivered /\ fails => CurrentlyDegraded(heardHeartbeat', heartbeatAge')
      /\ sent' = IF delivered THEN current ELSE "nothing"
      /\ IF fails THEN ScheduleReconnect(AfterConnect(opens))
                  ELSE /\ link' = AfterConnect(opens)
                       /\ sendError' = FALSE
      /\ UNCHANGED inputVars

\* Held back: no distances yet and startup_mode or fail_open says to wait.
HoldBack(opens, heard) ==
  /\ AfterConnect(opens).open
  /\ HearHeartbeat(heard)
  /\ EvaluateGuard
  /\ CurrentDistances(heardHeartbeat', heartbeatAge') = "nothing"
  /\ link' = AfterConnect(opens)
  /\ sendError' = ErrorAfterConnect(opens)
  /\ sent' = "nothing"
  /\ UNCHANGED inputVars

SendObstacleDistance ==
  \E opens, heard \in BOOLEAN :
    \/ StayClosed(opens)
    \/ FailRead(opens, heard)
    \/ HoldBack(opens, heard)
    \/ \E delivered, fails \in BOOLEAN :
         TransmitDistances(opens, heard, delivered, fails)

-----------------------------------------------------------------------------
(* The diagnostics timer: publish_diagnostics reports, but evaluating the  *)
(* guard for the report can latch it.                                      *)

PublishDiagnostics ==
  /\ EvaluateGuard
  /\ sent' = "nothing"
  /\ UNCHANGED <<inputVars, portVars>>

\* mavlink_state, the connection state in the report.
MavlinkState ==
  CASE sendError                                      -> "SEND_ERROR"
    [] ~sendError /\ ~link.open                       -> "DISCONNECTED"
    [] ~sendError /\ link.open /\ ~WaitHeartbeat      -> "PORT_OPEN"
    [] OTHER -> IF HeartbeatFresh(heardHeartbeat, heartbeatAge)
                THEN "AUTOPILOT_CONNECTED" ELSE "HEARTBEAT_WAITING"

-----------------------------------------------------------------------------

SenderTick ==
  /\ GuardAging
  /\ distancesAge' = IF hasDistances /\ distancesAge <= SentAgeBound
                     THEN distancesAge + 1 ELSE distancesAge
  /\ link' = IF link.wait > 0 THEN [link EXCEPT !.wait = @ - 1] ELSE link
  /\ heartbeatAge' = IF heardHeartbeat /\ heartbeatAge <= HeartbeatTimeout
                     THEN heartbeatAge + 1 ELSE heartbeatAge
  /\ sent' = "nothing"
  /\ UNCHANGED <<hasDistances, sendError, heardHeartbeat>>

\* The constructor ends with a first attempt to open the port.
SenderInit ==
  /\ GuardInit
  /\ hasDistances = FALSE
  /\ distancesAge = 0
  /\ \/ link = Opened /\ sendError = FALSE
     \/ link = Closed(ReconnectInitial) /\ sendError = TRUE
  /\ heardHeartbeat = FALSE
  /\ heartbeatAge = 0
  /\ sent = "nothing"

SenderNext ==
  \/ OnSectorDistances
  \/ SendHeartbeat
  \/ SendObstacleDistance
  \/ PublishDiagnostics
  \/ SenderTick

SenderSpec == SenderInit /\ [][SenderNext]_senderVars

-----------------------------------------------------------------------------
(* Properties.                                                             *)

Links ==
  [open: BOOLEAN, wait: 0 .. ReconnectMax, delay: 1 .. ReconnectMax]

\* Every variable stays in its range; in particular no backoff delay and no
\* wait for the next attempt exceeds reconnect_max_ms
\* (mavlink_obstacle_sender.py:423-461).
SenderTypeOK ==
  /\ GuardTypeOK
  /\ hasDistances \in BOOLEAN
  /\ distancesAge \in 0 .. SentAgeBound + 1
  /\ link \in Links
  /\ sendError \in BOOLEAN
  /\ heardHeartbeat \in BOOLEAN
  /\ heartbeatAge \in 0 .. HeartbeatTimeout + 1
  /\ sent \in {"nothing", "wall", "unknown", "data"}

\* The report says SEND_ERROR if and only if the port is closed, so neither a
\* broken link is reported as anything milder nor a working one as broken,
\* whatever mixture of failed opens, reads and sends led there
\* (mavlink_obstacle_sender.py:423-461, 611-647).  DISCONNECTED is never
\* reported: whatever closes the port leaves an error text.
ReportTellsPort == MavlinkState = "SEND_ERROR" <=> ~link.open

\* A fail-closed sender never puts data older than SentAgeBound on the wire.
\* The guard times the progress of sequences, the age check is made when a
\* message is taken, and frames that repeat a sequence replace the distances
\* without progress: only together do they bound the age
\* (mavlink_obstacle_sender.py:463-506, 544-566, 588-636).
SentDataIsFresh ==
  FailClosed /\ sent = "data" => distancesAge <= SentAgeBound

=============================================================================
