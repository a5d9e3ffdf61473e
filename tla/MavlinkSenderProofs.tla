------------------------ MODULE MavlinkSenderProofs ------------------------
(***************************************************************************)
(* Proofs about the MAVLink sender, for every configuration: its types,    *)
(* the gate its guard forms, and the age of the data it sends.             *)
(***************************************************************************)
EXTENDS MavlinkSender, TLAPS

-----------------------------------------------------------------------------
(* The guard on its own.                                                   *)

LEMMA GuardInitType == GuardInit => GuardTypeOK
<1>1. /\ 0 \in 0 .. InputRecoveryFrames - 1
      /\ 0 \in 0 .. InputFailTimeout + 1
      /\ 0 \in 0 .. InputRecoveryFrames
  BY StaleGuardAssumption
<1> QED
  BY <1>1 DEF GuardInit, GuardTypeOK

\* A frame leaves a shut guard with too few frames counted.
LEMMA FrameKeepsType ==
  ASSUME GuardTypeOK, NEW advances \in BOOLEAN, MarkHealthyFrame(advances)
  PROVE  GuardTypeOK'
<1> USE StaleGuardAssumption DEF GuardTypeOK
<1> DEFINE progress == ~hasProgress \/ advances
           enough   == progress /\ CountedOnArrival + 1 >= InputRecoveryFrames
<1>1. CountedOnArrival \in 0 .. InputRecoveryFrames - 1
  BY DEF CountedOnArrival
<1>2. healthyFrames' \in 0 .. InputRecoveryFrames - 1
  BY <1>1 DEF MarkHealthyFrame
<1>3. newFrames' \in 0 .. InputRecoveryFrames
  BY DEF MarkHealthyFrame, CountFrame
<1>4. progressAge' \in 0 .. InputFailTimeout + 1
  BY DEF MarkHealthyFrame
<1>5. guardLatched' \in BOOLEAN /\ hasProgress' \in BOOLEAN
  <2>1. guardLatched' = (ShutOnArrival /\ ~enough) /\ hasProgress' = TRUE
    BY DEF MarkHealthyFrame
  <2>2. (ShutOnArrival /\ ~enough) \in BOOLEAN
    BY Zenon
  <2> QED
    BY <2>1, <2>2, Zenon
<1> QED
  BY <1>2, <1>3, <1>4, <1>5

\* Any call in any order preserves the type invariant.
LEMMA GuardStepType ==
  GuardTypeOK /\ [GuardNext]_guardVars => GuardTypeOK'
<1> SUFFICES ASSUME GuardTypeOK, [GuardNext]_guardVars
             PROVE  GuardTypeOK'
  OBVIOUS
<1> USE StaleGuardAssumption
<1>1. CASE MarkFault
  BY <1>1 DEF MarkFault, GuardTypeOK
<1>2. ASSUME NEW advances \in BOOLEAN, MarkHealthyFrame(advances)
      PROVE  GuardTypeOK'
  BY <1>2, FrameKeepsType
<1>3. CASE EvaluateGuard
  <2>1. guardLatched' = guardLatched \/ guardLatched' = TRUE
    BY <1>3, Zenon DEF EvaluateGuard, Silent, GuardTypeOK
  <2>2. healthyFrames' = 0 \/ healthyFrames' = healthyFrames
    BY <1>3 DEF EvaluateGuard
  <2> QED
    BY <1>3, <2>1, <2>2 DEF EvaluateGuard, GuardTypeOK
<1>4. CASE GuardAging
  BY <1>4 DEF GuardAging, Silent, GuardTypeOK
<1>5. CASE UNCHANGED guardVars
  BY <1>5 DEF guardVars, GuardTypeOK
<1> QED
  BY <1>1, <1>2, <1>3, <1>4, <1>5 DEF GuardNext

\* The type invariant holds whatever the client calls.
THEOREM GuardTypeCorrect == GuardSpec => []GuardTypeOK
<1>1. QED
  BY GuardInitType, GuardStepType, PTL DEF GuardSpec

-----------------------------------------------------------------------------
(* The gate.                                                               *)

\* The inductive core: the guard starts shut; the frames it has counted are
\* new ones, unless a silence, noticed or not, has voided all of them.
FramesBackRelease ==
  /\ ~hasProgress => guardLatched
  /\ Silent => newFrames = 0
  /\ ~Silent /\ guardLatched => healthyFrames <= newFrames

LEMMA FramesBackReleaseInit == GuardInit => FramesBackRelease
BY DEF GuardInit, FramesBackRelease, Silent

\* What a frame does, in the terms of the gate.
LEMMA FrameIsGateStep ==
  ASSUME GuardTypeOK, FramesBackRelease,
         NEW advances \in BOOLEAN, MarkHealthyFrame(advances)
  PROVE  /\ FramesBackRelease'
         /\ StaleGate!GateStep(FALSE, ~hasProgress \/ advances)
<1> USE StaleGuardAssumption DEF GuardTypeOK
<1> DEFINE progress == ~hasProgress \/ advances
           enough   == progress /\ CountedOnArrival + 1 >= InputRecoveryFrames
<1>1. hasProgress' /\ (progress => ~Silent')
  BY DEF MarkHealthyFrame, Silent
<1>2. CountedOnArrival \in Nat
  BY DEF CountedOnArrival
<1>3. CASE progress
  <2>1. newFrames' = CountFrame(newFrames)
    BY <1>3 DEF MarkHealthyFrame
  <2>2. ShutOnArrival => CountedOnArrival <= newFrames
    BY DEF ShutOnArrival, CountedOnArrival, FramesBackRelease
  <2>3. guardLatched' => ShutOnArrival /\ healthyFrames' = CountedOnArrival + 1
    BY <1>3 DEF MarkHealthyFrame
  <2>4. guardLatched' => healthyFrames' <= newFrames'
    BY <1>2, <2>1, <2>2, <2>3 DEF CountFrame, MarkHealthyFrame
  <2>5. FramesBackRelease'
    BY <1>1, <1>3, <2>4 DEF FramesBackRelease
  <2>6. ~guardLatched' => ~ShutOnArrival \/ newFrames' >= InputRecoveryFrames
    <3>1. ~guardLatched' => ~ShutOnArrival \/ enough
      BY Zenon DEF MarkHealthyFrame
    <3>2. ShutOnArrival /\ enough => newFrames' >= InputRecoveryFrames
      BY <1>2, <2>1, <2>2 DEF CountFrame
    <3> QED
      BY <3>1, <3>2
  <2>7. ~ShutOnArrival => ~guardLatched /\ hasProgress /\ ~Silent
    BY DEF ShutOnArrival, FramesBackRelease
  <2>8. (~guardLatched' /\ hasProgress' /\ ~Silent') \in BOOLEAN
    BY Zenon
  <2>9. newFrames' = StaleGate!CountUpTo(newFrames, InputRecoveryFrames)
    BY <2>1 DEF CountFrame, StaleGate!CountUpTo
  <2>10. StaleGate!GateStep(FALSE, TRUE)
    BY <2>6, <2>7, <2>8, <2>9 DEF StaleGate!GateStep
  <2> QED
    BY <1>3, <2>5, <2>10
<1>4. CASE ~progress
  <2>1. /\ hasProgress
        /\ progressAge' = progressAge
        /\ newFrames' = newFrames
        /\ healthyFrames' = CountedOnArrival
        /\ guardLatched' <=> ShutOnArrival
    BY <1>4 DEF MarkHealthyFrame
  <2>2. Silent' <=> Silent
    BY <1>1, <2>1 DEF Silent
  <2>3. FramesBackRelease'
    BY <1>1, <2>1, <2>2
       DEF FramesBackRelease, CountedOnArrival, ShutOnArrival
  <2>4. ~guardLatched' => ~guardLatched
    BY <2>1 DEF ShutOnArrival
  <2>5. (~guardLatched' /\ hasProgress' /\ ~Silent') \in BOOLEAN
    BY Zenon
  <2>6. StaleGate!GateStep(FALSE, FALSE)
    BY <2>1, <2>2, <2>4, <2>5 DEF StaleGate!GateStep
  <2> QED
    BY <1>4, <2>3, <2>6
<1> QED
  BY <1>3, <1>4

\* Any call in any order preserves the inductive core.
LEMMA FramesBackReleaseStep ==
  GuardTypeOK /\ FramesBackRelease /\ [GuardNext]_guardVars
    => FramesBackRelease'
<1> SUFFICES ASSUME GuardTypeOK, FramesBackRelease, [GuardNext]_guardVars
             PROVE  FramesBackRelease'
  OBVIOUS
<1> USE StaleGuardAssumption
<1>1. CASE MarkFault
  BY <1>1 DEF MarkFault, FramesBackRelease, Silent
<1>2. ASSUME NEW advances \in BOOLEAN, MarkHealthyFrame(advances)
      PROVE  FramesBackRelease'
  BY <1>2, FrameIsGateStep
<1>3. CASE EvaluateGuard
  BY <1>3 DEF EvaluateGuard, FramesBackRelease, Silent
<1>4. CASE GuardAging
  BY <1>4 DEF GuardAging, FramesBackRelease, Silent, GuardTypeOK
<1>5. CASE UNCHANGED guardVars
  BY <1>5 DEF guardVars, FramesBackRelease, Silent
<1> QED
  BY <1>1, <1>2, <1>3, <1>4, <1>5 DEF GuardNext

\* Every call is a step of the gate or leaves it alone.
LEMMA GuardStepRefines ==
  GuardTypeOK /\ FramesBackRelease /\ [GuardNext]_guardVars
    => [StaleGate!GateNext]_(StaleGate!gateVars)
<1> SUFFICES ASSUME GuardTypeOK, FramesBackRelease, [GuardNext]_guardVars
             PROVE  [StaleGate!GateNext]_(StaleGate!gateVars)
  OBVIOUS
<1> USE StaleGuardAssumption
<1> DEFINE open == ~guardLatched /\ hasProgress /\ ~Silent
<1>0. open' \in BOOLEAN
  BY Zenon
<1>1. CASE MarkFault
  <2>1. StaleGate!GateStep(TRUE, FALSE)
    BY <1>0, <1>1 DEF MarkFault, StaleGate!GateStep
  <2> QED
    BY <2>1 DEF StaleGate!GateNext
<1>2. ASSUME NEW advances \in BOOLEAN, MarkHealthyFrame(advances)
      PROVE  [StaleGate!GateNext]_(StaleGate!gateVars)
  <2>1. StaleGate!GateStep(FALSE, ~hasProgress \/ advances)
    BY <1>2, FrameIsGateStep
  <2>2. (~hasProgress \/ advances) \in BOOLEAN
    BY Zenon
  <2> QED
    BY <2>1, <2>2 DEF StaleGate!GateNext
<1>3. CASE EvaluateGuard
  <2>1. newFrames' = newFrames /\ (open' <=> open)
    BY <1>3 DEF EvaluateGuard, Silent
  <2>2. StaleGate!GateStep(FALSE, FALSE)
    BY <1>0, <2>1 DEF StaleGate!GateStep
  <2> QED
    BY <2>2 DEF StaleGate!GateNext
<1>4. CASE GuardAging
  <2>1. CASE Silent'
    <3>1. newFrames' = 0 /\ ~open'
      BY <1>4, <2>1 DEF GuardAging, Silent
    <3>2. StaleGate!GateStep(TRUE, FALSE)
      BY <1>0, <3>1 DEF StaleGate!GateStep
    <3> QED
      BY <3>2 DEF StaleGate!GateNext
  <2>2. CASE ~Silent'
    <3>1. newFrames' = newFrames /\ (open' => open)
      BY <1>4, <2>2 DEF GuardAging, Silent, GuardTypeOK
    <3>2. StaleGate!GateStep(FALSE, FALSE)
      BY <1>0, <3>1 DEF StaleGate!GateStep
    <3> QED
      BY <3>2 DEF StaleGate!GateNext
  <2> QED
    BY <2>1, <2>2
<1>5. CASE UNCHANGED guardVars
  BY <1>5 DEF guardVars, Silent, StaleGate!gateVars
<1> QED
  BY <1>1, <1>2, <1>3, <1>4, <1>5 DEF GuardNext

LEMMA GuardInitRefines == GuardInit => StaleGate!GateInit
BY Zenon DEF GuardInit, StaleGate!GateInit

\* For every configuration and every order of calls the stale guard is a
\* fail-closed gate, although it notices a silence late.
THEOREM StaleGuardIsGate == GuardSpec => GuardReleasesOnNewFrames
<1>1. GuardSpec => []FramesBackRelease
  BY FramesBackReleaseInit, FramesBackReleaseStep, GuardTypeCorrect, PTL
     DEF GuardSpec
<1> QED
  BY <1>1, GuardInitRefines, GuardStepRefines, GuardTypeCorrect, PTL
     DEF GuardSpec, GuardReleasesOnNewFrames, StaleGate!GateSpec

-----------------------------------------------------------------------------
(* The guard inside the sender.                                            *)

\* What any callback, and any tick, does to the guard is a step of the guard.
LEMMA SenderStepsGuard == [SenderNext]_senderVars => [GuardNext]_guardVars
<1> SUFFICES ASSUME [SenderNext]_senderVars PROVE [GuardNext]_guardVars
  OBVIOUS
<1>1. CASE OnSectorDistances
  <2>1. ASSUME NEW order \in SectorOrders, TRUE
        PROVE  (order = "advances") \in BOOLEAN
    OBVIOUS
  <2> QED
    BY <1>1, <2>1 DEF OnSectorDistances, RefuseSector, TakeSector, GuardNext
<1>2. CASE SendHeartbeat
  BY <1>2 DEF SendHeartbeat, StayClosed, FailRead, SendOwnHeartbeat
<1>3. CASE SendObstacleDistance
  BY <1>3 DEF SendObstacleDistance, StayClosed, FailRead, HoldBack,
              TransmitDistances, GuardNext
<1>4. CASE PublishDiagnostics
  BY <1>4 DEF PublishDiagnostics, GuardNext
<1>5. CASE SenderTick
  BY <1>5 DEF SenderTick, GuardNext
<1>6. CASE UNCHANGED senderVars
  BY <1>6 DEF senderVars
<1> QED
  BY <1>1, <1>2, <1>3, <1>4, <1>5, <1>6 DEF SenderNext

\* The sender uses its guard only through the guard's methods.
LEMMA SenderUsesGuard == SenderSpec => GuardSpec
BY SenderStepsGuard, PTL DEF SenderSpec, SenderInit, GuardSpec

\* The guard of the sender is a fail-closed gate, for every configuration.
THEOREM SenderGuardIsGate == SenderSpec => GuardReleasesOnNewFrames
<1>1. QED
  BY SenderUsesGuard, StaleGuardIsGate, PTL

-----------------------------------------------------------------------------
(* Types.                                                                  *)

\* Backing off stays within reconnect_max_ms.
LEMMA BackedOffRange ==
  ASSUME NEW delay \in 1 .. ReconnectMax
  PROVE  BackedOff(delay) \in 1 .. ReconnectMax
BY SenderAssumption DEF BackedOff

LEMMA ClosedIsLink ==
  ASSUME NEW delay \in 1 .. ReconnectMax
  PROVE  Closed(delay) \in Links
<1>1. delay \in 0 .. ReconnectMax
  BY SenderAssumption
<1> QED
  BY <1>1, BackedOffRange DEF Closed, Links

LEMMA OpenedIsLink == Opened \in Links
<1>1. 0 \in 0 .. ReconnectMax /\ ReconnectInitial \in 1 .. ReconnectMax
  BY SenderAssumption
<1> QED
  BY <1>1 DEF Opened, Links

\* The port after connect_if_due and after a reconnect was scheduled.
LEMMA AfterConnectIsLink ==
  ASSUME link \in Links, NEW opens \in BOOLEAN
  PROVE  /\ AfterConnect(opens) \in Links
         /\ Closed(AfterConnect(opens).delay) \in Links
<1>1. link.delay \in 1 .. ReconnectMax
  BY DEF Links
<1>2. AfterConnect(opens) \in Links
  BY <1>1, ClosedIsLink, OpenedIsLink DEF AfterConnect
<1>3. AfterConnect(opens).delay \in 1 .. ReconnectMax
  BY <1>2 DEF Links
<1> QED
  BY <1>2, <1>3, ClosedIsLink

\* The variables of the port.
PortTypeOK ==
  /\ link \in Links
  /\ sendError \in BOOLEAN
  /\ heardHeartbeat \in BOOLEAN
  /\ heartbeatAge \in 0 .. HeartbeatTimeout + 1

LEMMA HearKeepsType ==
  ASSUME SenderTypeOK, NEW heard \in BOOLEAN, HearHeartbeat(heard)
  PROVE  /\ heardHeartbeat' \in BOOLEAN
         /\ heartbeatAge' \in 0 .. HeartbeatTimeout + 1
<1>1. (heardHeartbeat \/ heard) \in BOOLEAN
  BY Zenon
<1> QED
  BY <1>1, SenderAssumption DEF HearHeartbeat, SenderTypeOK

LEMMA ErrorIsBoolean ==
  ASSUME SenderTypeOK, NEW opens \in BOOLEAN
  PROVE  ErrorAfterConnect(opens) \in BOOLEAN
<1>1. (~opens) \in BOOLEAN
  BY Zenon
<1> QED
  BY <1>1 DEF ErrorAfterConnect, SenderTypeOK

\* A sending callback, whichever way it takes, leaves the port well typed.
LEMMA SendKeepsPortType ==
  ASSUME SenderTypeOK, SendHeartbeat \/ SendObstacleDistance
  PROVE  PortTypeOK'
<1>1. PICK opens \in BOOLEAN, heard \in BOOLEAN :
        /\ \/ link' = AfterConnect(opens)
           \/ link' = Closed(AfterConnect(opens).delay)
        /\ sendError' \in {TRUE, FALSE, ErrorAfterConnect(opens)}
        /\ \/ HearHeartbeat(heard)
           \/ UNCHANGED <<heardHeartbeat, heartbeatAge>>
  BY DEF SendHeartbeat, SendObstacleDistance, StayClosed, FailRead, HoldBack,
         SendOwnHeartbeat, TransmitDistances, ScheduleReconnect
<1>2. link' \in Links
  BY <1>1, AfterConnectIsLink DEF SenderTypeOK
<1>3. sendError' \in BOOLEAN
  BY <1>1, ErrorIsBoolean
<1>4. /\ heardHeartbeat' \in BOOLEAN
      /\ heartbeatAge' \in 0 .. HeartbeatTimeout + 1
  BY <1>1, HearKeepsType DEF SenderTypeOK
<1> QED
  BY <1>2, <1>3, <1>4 DEF PortTypeOK

\* What is sent is one of the four things there are to send.
LEMMA CurrentDistancesType ==
  ASSUME NEW heard, NEW age
  PROVE  CurrentDistances(heard, age) \in {"nothing", "wall", "unknown", "data"}
BY DEF CurrentDistances, Stored

LEMMA SenderInitType == SenderInit => SenderTypeOK
<1> SUFFICES ASSUME SenderInit PROVE SenderTypeOK
  OBVIOUS
<1>1. GuardTypeOK
  BY GuardInitType DEF SenderInit
<1>2. /\ ReconnectInitial \in 1 .. ReconnectMax
      /\ 0 \in 0 .. SentAgeBound + 1
      /\ 0 \in 0 .. HeartbeatTimeout + 1
  BY SenderAssumption, StaleGuardAssumption DEF SentAgeBound
<1>3. link \in Links
  BY <1>2, ClosedIsLink, OpenedIsLink DEF SenderInit
<1> QED
  BY <1>1, <1>2, <1>3 DEF SenderInit, SenderTypeOK

\* Every callback and every tick preserves the type invariant.
LEMMA SenderStepType ==
  SenderTypeOK /\ [SenderNext]_senderVars => SenderTypeOK'
<1> SUFFICES ASSUME SenderTypeOK, [SenderNext]_senderVars
             PROVE  SenderTypeOK'
  OBVIOUS
<1>1. GuardTypeOK'
  BY SenderStepsGuard, GuardStepType DEF SenderTypeOK
<1>2. SentAgeBound \in Nat /\ MaxSourceAge \in Nat /\ InputFailTimeout \in Nat
  BY SenderAssumption, StaleGuardAssumption DEF SentAgeBound
<1>3. CASE OnSectorDistances
  <2>1. PICK order \in SectorOrders, age \in 0 .. MaxSourceAge + 1 :
          \/ UNCHANGED inputVars
          \/ hasDistances' = TRUE /\ distancesAge' = age /\ age <= MaxSourceAge
    BY <1>3 DEF OnSectorDistances, RefuseSector, TakeSector
  <2>2. /\ hasDistances' \in BOOLEAN
        /\ distancesAge' \in 0 .. SentAgeBound + 1
    <3>1. CASE UNCHANGED inputVars
      BY <3>1 DEF inputVars, SenderTypeOK
    <3>2. CASE hasDistances' = TRUE /\ distancesAge' = age /\ age <= MaxSourceAge
      BY <1>2, <3>2 DEF SentAgeBound
    <3> QED
      BY <2>1, <3>1, <3>2
  <2> QED
    BY <1>1, <1>3, <2>2
       DEF OnSectorDistances, RefuseSector, TakeSector, portVars, SenderTypeOK
<1>4. CASE SendHeartbeat
  BY <1>1, <1>4, SendKeepsPortType
     DEF SendHeartbeat, StayClosed, FailRead, SendOwnHeartbeat, inputVars,
         PortTypeOK, SenderTypeOK
<1>5. CASE SendObstacleDistance
  <2>1. sent' \in {"nothing", "wall", "unknown", "data"}
    BY <1>5, CurrentDistancesType
       DEF SendObstacleDistance, StayClosed, FailRead, HoldBack,
           TransmitDistances
  <2>2. UNCHANGED inputVars
    BY <1>5 DEF SendObstacleDistance, StayClosed, FailRead, HoldBack,
                TransmitDistances
  <2> QED
    BY <1>1, <1>5, <2>1, <2>2, SendKeepsPortType
       DEF inputVars, PortTypeOK, SenderTypeOK
<1>6. CASE PublishDiagnostics
  BY <1>1, <1>6 DEF PublishDiagnostics, inputVars, portVars, SenderTypeOK
<1>7. CASE SenderTick
  <2>1. link' \in Links
    <3>1. \/ link' = link
          \/ link.wait > 0 /\ link' = [link EXCEPT !.wait = link.wait - 1]
      BY <1>7 DEF SenderTick
    <3>2. link \in Links
      BY DEF SenderTypeOK
    <3>3. link.wait > 0 => link.wait - 1 \in 0 .. ReconnectMax
      BY <3>2, SenderAssumption DEF Links
    <3> QED
      BY <3>1, <3>2, <3>3 DEF Links
  <2>2. /\ distancesAge' \in 0 .. SentAgeBound + 1
        /\ heartbeatAge' \in 0 .. HeartbeatTimeout + 1
    BY <1>2, <1>7, SenderAssumption DEF SenderTick, SenderTypeOK
  <2> QED
    BY <1>1, <1>7, <2>1, <2>2 DEF SenderTick, SenderTypeOK
<1>8. CASE UNCHANGED senderVars
  BY <1>1, <1>8 DEF senderVars, inputVars, portVars, SenderTypeOK
<1> QED
  BY <1>3, <1>4, <1>5, <1>6, <1>7, <1>8 DEF SenderNext

\* The type invariant of the sender, for every configuration; in particular
\* the backoff never exceeds reconnect_max_ms.
THEOREM SenderTypeCorrect == SenderSpec => []SenderTypeOK
<1>1. QED
  BY SenderInitType, SenderStepType, PTL DEF SenderSpec

-----------------------------------------------------------------------------
(* The age of the data on the wire.                                        *)

\* The inductive core: the stored distances are older than the last progress
\* by no more than a message may be old when it is taken, and what was sent
\* was sent while the guard was not silent.
DistancesFollowProgress ==
  /\ hasDistances => hasProgress
  /\ hasDistances /\ ~Silent => distancesAge <= MaxSourceAge + progressAge
  /\ FailClosed /\ sent = "data" => hasDistances /\ ~Silent

LEMMA DistancesFollowProgressInit == SenderInit => DistancesFollowProgress
BY DEF SenderInit, DistancesFollowProgress

\* A fail-closed sender finds distances to send only while progress is made.
LEMMA DataNeedsProgress ==
  ASSUME FailClosed, NEW heard, NEW age, CurrentDistances(heard, age) = "data"
  PROVE  hasDistances /\ ~Silent
<1>1. ~HardFailure
  BY DEF CurrentDistances
<1>2. ~Silent
  BY <1>1 DEF HardFailure, GuardState, Silent
<1>3. hasDistances
  BY <1>1 DEF CurrentDistances, Stored
<1> QED
  BY <1>2, <1>3

LEMMA SlackIsHarmless ==
  ASSUME NEW n \in Nat, NEW bound \in Nat, NEW slack \in Nat, n <= bound
  PROVE  n <= bound + slack
OBVIOUS

\* Every callback and every tick preserves the inductive core.
LEMMA DistancesFollowProgressStep ==
  SenderTypeOK /\ DistancesFollowProgress /\ [SenderNext]_senderVars
    => DistancesFollowProgress'
<1> SUFFICES ASSUME SenderTypeOK, DistancesFollowProgress,
                    [SenderNext]_senderVars
             PROVE  DistancesFollowProgress'
  OBVIOUS
<1> USE SenderAssumption, StaleGuardAssumption
<1>1. CASE OnSectorDistances
  <2>1. PICK order \in SectorOrders, age \in 0 .. MaxSourceAge + 1 :
          \/ UNCHANGED inputVars /\ MarkFault /\ sent' = "nothing"
          \/ TakeSector(order, age)
    BY <1>1 DEF OnSectorDistances, RefuseSector
  <2>2. CASE UNCHANGED inputVars /\ MarkFault /\ sent' = "nothing"
    BY <2>2 DEF inputVars, MarkFault, DistancesFollowProgress, Silent
  <2>3. CASE TakeSector(order, age)
    <3>1. progressAge' \in Nat
      BY <2>3 DEF TakeSector, MarkHealthyFrame, SenderTypeOK, GuardTypeOK
    <3>2. hasProgress' /\ sent' = "nothing" /\ distancesAge' <= MaxSourceAge
      BY <2>3 DEF TakeSector, MarkHealthyFrame
    <3>3. distancesAge' \in Nat
      BY <2>3 DEF TakeSector
    <3>4. distancesAge' <= MaxSourceAge + progressAge'
      <4>1. MaxSourceAge \in Nat
        OBVIOUS
      <4> QED
        BY <3>1, <3>2, <3>3, <4>1, SlackIsHarmless
    <3> QED
      BY <3>2, <3>4 DEF DistancesFollowProgress
  <2> QED
    BY <2>1, <2>2, <2>3
<1>2. CASE SendHeartbeat
  BY <1>2 DEF SendHeartbeat, StayClosed, FailRead, SendOwnHeartbeat,
              guardVars, inputVars, DistancesFollowProgress, Silent
<1>3. CASE SendObstacleDistance \/ PublishDiagnostics
  <2>1. UNCHANGED <<hasDistances, distancesAge, hasProgress, progressAge>>
    BY <1>3 DEF SendObstacleDistance, PublishDiagnostics, StayClosed, FailRead,
                HoldBack, TransmitDistances, EvaluateGuard, guardVars,
                inputVars
  <2>2. FailClosed /\ sent' = "data" => hasDistances /\ ~Silent
    <3>1. CASE SendObstacleDistance
      BY <3>1, DataNeedsProgress
         DEF SendObstacleDistance, StayClosed, FailRead, HoldBack,
             TransmitDistances
    <3>2. CASE PublishDiagnostics
      BY <3>2 DEF PublishDiagnostics
    <3> QED
      BY <1>3, <3>1, <3>2
  <2> QED
    BY <2>1, <2>2 DEF DistancesFollowProgress, Silent
<1>4. CASE SenderTick
  <2>1. /\ hasDistances' = hasDistances /\ hasProgress' = hasProgress
        /\ sent' = "nothing"
    BY <1>4 DEF SenderTick, GuardAging
  <2>2. hasDistances' /\ ~Silent'
          => distancesAge' <= MaxSourceAge + progressAge'
    BY <1>4, <2>1 DEF SenderTick, GuardAging, Silent, SenderTypeOK,
                      GuardTypeOK, DistancesFollowProgress, SentAgeBound
  <2> QED
    BY <2>1, <2>2 DEF DistancesFollowProgress
<1>5. CASE UNCHANGED senderVars
  BY <1>5 DEF senderVars, guardVars, inputVars, DistancesFollowProgress,
              Silent
<1> QED
  BY <1>1, <1>2, <1>3, <1>4, <1>5 DEF SenderNext

\* A fail-closed sender never sends data older than max_source_age_ms plus
\* the fail threshold, for every configuration.
THEOREM SenderDataIsFresh == SenderSpec => []SentDataIsFresh
<1>1. SenderSpec => []DistancesFollowProgress
  BY DistancesFollowProgressInit, DistancesFollowProgressStep,
     SenderTypeCorrect, PTL DEF SenderSpec
<1>2. SenderTypeOK /\ DistancesFollowProgress => SentDataIsFresh
  BY StaleGuardAssumption, SenderAssumption
     DEF SenderTypeOK, GuardTypeOK, DistancesFollowProgress, SentDataIsFresh,
         SentAgeBound, Silent
<1> QED
  BY <1>1, <1>2, SenderTypeCorrect, PTL

-----------------------------------------------------------------------------
(* The report.                                                             *)

\* There is an error text exactly while the port is closed.
ErrorMeansClosed == sendError <=> ~link.open

LEMMA ErrorMeansClosedInit == SenderInit => ErrorMeansClosed
BY DEF SenderInit, Opened, Closed, ErrorMeansClosed

\* After connect_if_due the error text still fits the port.
LEMMA ErrorFitsPort ==
  ASSUME ErrorMeansClosed, NEW opens \in BOOLEAN
  PROVE  ErrorAfterConnect(opens) <=> ~AfterConnect(opens).open
<1>1. Opened.open = TRUE /\ Closed(link.delay).open = FALSE
  BY DEF Opened, Closed
<1>2. CASE ConnectDue
  BY <1>1, <1>2 DEF ErrorAfterConnect, AfterConnect
<1>3. CASE ~ConnectDue
  BY <1>3 DEF ErrorAfterConnect, AfterConnect, ErrorMeansClosed
<1> QED
  BY <1>2, <1>3

\* A scheduled reconnect leaves a closed port and an error text.
LEMMA ReconnectLeavesError ==
  ASSUME NEW port, ScheduleReconnect(port)
  PROVE  ErrorMeansClosed'
BY DEF ScheduleReconnect, Closed, ErrorMeansClosed

\* Every callback and every tick preserves the agreement.
LEMMA ErrorMeansClosedStep ==
  ErrorMeansClosed /\ [SenderNext]_senderVars => ErrorMeansClosed'
<1> SUFFICES ASSUME ErrorMeansClosed, [SenderNext]_senderVars
             PROVE  ErrorMeansClosed'
  OBVIOUS
<1>1. CASE OnSectorDistances \/ PublishDiagnostics
  BY <1>1 DEF OnSectorDistances, RefuseSector, TakeSector, PublishDiagnostics,
              portVars, ErrorMeansClosed
<1>2. ASSUME NEW opens \in BOOLEAN,
             \/ StayClosed(opens)
             \/ \E heard \in BOOLEAN :
                  \/ FailRead(opens, heard)
                  \/ HoldBack(opens, heard)
                  \/ \E ok \in BOOLEAN : SendOwnHeartbeat(opens, heard, ok)
                  \/ \E delivered, fails \in BOOLEAN :
                       TransmitDistances(opens, heard, delivered, fails)
      PROVE  ErrorMeansClosed'
  <2>1. CASE /\ link' = AfterConnect(opens)
             /\ sendError' = ErrorAfterConnect(opens)
    BY <2>1, ErrorFitsPort DEF ErrorMeansClosed
  <2>2. CASE ScheduleReconnect(AfterConnect(opens))
    BY <2>2, ReconnectLeavesError
  <2>3. CASE /\ AfterConnect(opens).open
             /\ link' = AfterConnect(opens)
             /\ sendError' = FALSE
    BY <2>3 DEF ErrorMeansClosed
  <2> QED
    BY <1>2, <2>1, <2>2, <2>3
       DEF StayClosed, FailRead, HoldBack, SendOwnHeartbeat,
           TransmitDistances
<1>3. CASE SendHeartbeat
  BY <1>2, <1>3 DEF SendHeartbeat
<1>4. CASE SendObstacleDistance
  BY <1>2, <1>4 DEF SendObstacleDistance
<1>5. CASE SenderTick
  <2>1. link'.open = link.open /\ sendError' = sendError
    BY <1>5 DEF SenderTick
  <2> QED
    BY <2>1 DEF ErrorMeansClosed
<1>6. CASE UNCHANGED senderVars
  BY <1>6 DEF senderVars, portVars, ErrorMeansClosed
<1> QED
  BY <1>1, <1>3, <1>4, <1>5, <1>6 DEF SenderNext

\* The report says SEND_ERROR exactly while the port is closed, for every
\* configuration and every sequence of failures.
THEOREM SenderReportTellsPort == SenderSpec => []ReportTellsPort
<1>1. SenderSpec => []ErrorMeansClosed
  BY ErrorMeansClosedInit, ErrorMeansClosedStep, PTL DEF SenderSpec
<1>2. ErrorMeansClosed => ReportTellsPort
  <2>1. CASE sendError
    BY <2>1 DEF ErrorMeansClosed, ReportTellsPort, MavlinkState
  <2>2. CASE ~sendError
    BY <2>2 DEF ErrorMeansClosed, ReportTellsPort, MavlinkState
  <2> QED
    BY <2>1, <2>2
<1> QED
  BY <1>1, <1>2, PTL

=============================================================================
