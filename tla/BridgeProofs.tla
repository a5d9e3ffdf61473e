---------------------------- MODULE BridgeProofs ----------------------------
(***************************************************************************)
(* Proofs about both nodes together, for every configuration: each node    *)
(* does in the bridge only what its own specification allows, a crash      *)
(* excepted; the types; and what may reach the wire.                       *)
(***************************************************************************)
EXTENDS BridgeSupply, CloudProcessorProofs, MavlinkSenderProofs

-----------------------------------------------------------------------------
(* The parts of a step.                                                    *)

\* What a step of the bridge does to the cloud node.
LEMMA CloudSideStep ==
  [BridgeNext]_bridgeVars => [CloudNext]_cloudVars \/ CloudInit'
<1> SUFFICES ASSUME [BridgeNext]_bridgeVars
             PROVE  [CloudNext]_cloudVars \/ CloudInit'
  OBVIOUS
<1>1. CASE CloudArrives
  <2>1. ArrivalAges \subseteq StampAges
    BY BridgeAssumption
  <2>2. OnCloud
    BY <1>1, <2>1
       DEF CloudArrives, RefuseCloud, RepeatCloud, LoseTransform, BringData,
           OnCloud, LoseCloud, FinishCloud
  <2> QED
    BY <2>2 DEF CloudNext
<1>2. CASE PublishSectors
  BY <1>2 DEF PublishSectors, CloudNext
<1>3. CASE ReceiveSectors
  BY <1>3 DEF ReceiveSectors
<1>4. CASE SendOrReport
  BY <1>4 DEF SendOrReport
<1>5. CASE CrashCloud
  BY <1>5 DEF CrashCloud
<1>6. CASE RestartCloud
  BY <1>6 DEF RestartCloud, Reset, CloudInit, WatchdogInit, StampInit
<1>7. CASE RestartSender
  BY <1>7 DEF RestartSender
<1>8. CASE BridgeTick
  BY <1>8 DEF BridgeTick, CloudNext
<1>9. CASE UNCHANGED bridgeVars
  BY <1>9 DEF bridgeVars
<1> QED
  BY <1>1, <1>2, <1>3, <1>4, <1>5, <1>6, <1>7, <1>8, <1>9 DEF BridgeNext

LEMMA CloudRestartType == CloudInit' => CloudTypeOK'
BY CloudInitType, PTL

LEMMA CloudSideType ==
  CloudTypeOK /\ [BridgeNext]_bridgeVars => CloudTypeOK'
BY CloudSideStep, CloudStepType, CloudRestartType

\* The first message of the topic.
LEMMA HeadIsMessage ==
  ASSUME inbox \in Seq(Messages), inbox # <<>>
  PROVE  /\ Head(inbox) \in Messages
         /\ Tail(inbox) \in Seq(Messages)
         /\ Len(inbox) \in Nat \ {0}
         /\ Len(Tail(inbox)) = Len(inbox) - 1
         /\ \A i \in 1 .. Len(inbox) - 1 : Tail(inbox)[i] = inbox[i + 1]
         /\ Head(inbox) = inbox[1]
OBVIOUS

\* A message of the cloud node is one of those SenderSpec allows.
LEMMA MessageIsAllowed ==
  ASSUME NEW msg \in Messages
  PROVE  /\ Order(msg) \in SectorOrders
         /\ AgeOnArrival(msg) \in 0 .. MaxSourceAge + 1
         /\ InContract(msg) \in BOOLEAN
         /\ msg.hard \in BOOLEAN
<1>1. msg.age \in Int /\ msg.stamped \in BOOLEAN /\ msg.hard \in BOOLEAN
  BY SourceTimestampAssumption, CloudAssumption DEF Messages
<1>2. Order(msg) \in SectorOrders
  BY DEF Order, SectorOrders
<1>3. AgeOnArrival(msg) \in 0 .. MaxSourceAge + 1
  BY <1>1, SenderAssumption DEF AgeOnArrival
<1> QED
  BY <1>1, <1>2, <1>3 DEF InContract

\* A restart of the sender forgets all but the port.
SenderReborn ==
  /\ GuardInit'
  /\ (hasDistances = FALSE /\ distancesAge = 0 /\ sent = "nothing")'
  /\ UNCHANGED portVars

\* What a step of the bridge does to the sender.
LEMMA SenderSideStep ==
  inbox \in Seq(Messages) /\ [BridgeNext]_bridgeVars =>
    [SenderNext]_senderVars \/ SenderReborn
<1> SUFFICES ASSUME inbox \in Seq(Messages), [BridgeNext]_bridgeVars
             PROVE  [SenderNext]_senderVars \/ SenderReborn
  OBVIOUS
<1>1. CASE ReceiveSectors
  <2>1. Head(inbox) \in Messages
    BY <1>1, HeadIsMessage DEF ReceiveSectors
  <2>2. OnSectorDistances
    BY <1>1, <2>1, MessageIsAllowed
       DEF ReceiveSectors, Refuse, Take, OnSectorDistances
  <2> QED
    BY <2>2 DEF SenderNext
<1>2. CASE SendOrReport
  BY <1>2 DEF SendOrReport, SendObstacleDistance, SenderNext
<1>3. CASE RestartSender
  BY <1>3 DEF RestartSender, SenderReborn, GuardInit
<1>4. CASE BridgeTick
  BY <1>4 DEF BridgeTick, SenderNext
<1>5. CASE CloudArrives
  BY <1>5 DEF CloudArrives, CloudRuns
<1>6. CASE PublishSectors
  BY <1>6 DEF PublishSectors
<1>7. CASE CrashCloud
  BY <1>7 DEF CrashCloud
<1>8. CASE RestartCloud
  BY <1>8 DEF RestartCloud
<1>9. CASE UNCHANGED bridgeVars
  BY <1>9 DEF bridgeVars
<1> QED
  BY <1>1, <1>2, <1>3, <1>4, <1>5, <1>6, <1>7, <1>8, <1>9 DEF BridgeNext

LEMMA GuardRestartType == GuardInit' => GuardTypeOK'
BY GuardInitType, PTL

LEMMA SenderRestartType == SenderTypeOK /\ SenderReborn => SenderTypeOK'
<1> SUFFICES ASSUME SenderTypeOK, SenderReborn PROVE SenderTypeOK'
  OBVIOUS
<1>1. GuardTypeOK'
  BY GuardRestartType DEF SenderReborn
<1>2. 0 \in 0 .. SentAgeBound + 1
  BY StaleGuardAssumption, SenderAssumption DEF SentAgeBound
<1> QED
  BY <1>1, <1>2 DEF SenderTypeOK, SenderReborn, portVars

LEMMA SenderSideType ==
  SenderTypeOK /\ inbox \in Seq(Messages) /\ [BridgeNext]_bridgeVars =>
    SenderTypeOK'
BY SenderSideStep, SenderStepType, SenderRestartType

-----------------------------------------------------------------------------
(* The topic.                                                              *)

\* What a message that is not degraded carries: the latest data, if it has a
\* stamp, and otherwise what the node started with.
HealthyMessage(msg) ==
  ~msg.hard =>
    msg.distances = IF msg.stamped THEN "data" ELSE "max_plus_one"

AllHealthy(messages) ==
  \A i \in 1 .. Len(messages) : HealthyMessage(messages[i])

HealthyMessages == AllHealthy(inbox)

\* The topic keeps the end of what it was given, in order.
LEMMA KeepIsSuffix ==
  ASSUME NEW q \in Seq(Messages), Len(q) <= InboxDepth, NEW m \in Messages,
         NEW kept, kept = Keep(q, m)
  PROVE  /\ Len(q) \in Nat /\ Len(kept) \in Nat
         /\ \E dropped \in {0, 1} :
              /\ Len(kept) = Len(q) + 1 - dropped
              /\ \A i \in 1 .. Len(kept) :
                   \/ i = Len(kept) /\ kept[i] = m
                   \/ i < Len(kept) /\ i + dropped \in 1 .. Len(q)
                        /\ kept[i] = q[i + dropped]
<1> DEFINE long == Append(q, m)
<1>1. /\ long \in Seq(Messages)
      /\ Len(long) = Len(q) + 1
      /\ long[Len(q) + 1] = m
      /\ \A i \in 1 .. Len(q) : long[i] = q[i]
      /\ Len(q) \in Nat
  OBVIOUS
<1>a. InboxDepth \in Nat
  BY BridgeAssumption
<1>2. CASE Len(long) <= InboxDepth
  <2>1. kept = long
    BY <1>1, <1>a, <1>2 DEF Keep
  <2> HIDE DEF long
  <2>2. /\ Len(kept) = Len(q) + 1 - 0
        /\ \A i \in 1 .. Len(kept) :
             \/ i = Len(kept) /\ kept[i] = m
             \/ i < Len(kept) /\ i + 0 \in 1 .. Len(q) /\ kept[i] = q[i + 0]
    BY <1>1, <2>1
  <2> QED
    BY <1>1, <2>2
<1>3. CASE ~(Len(long) <= InboxDepth)
  <2>1. kept = Tail(long)
    BY <1>1, <1>a, <1>3 DEF Keep
  <2>2. /\ Len(Tail(long)) = Len(q)
        /\ \A i \in 1 .. Len(q) : Tail(long)[i] = long[i + 1]
    BY <1>1
  <2> HIDE DEF long
  <2>3. /\ Len(kept) = Len(q) + 1 - 1
        /\ \A i \in 1 .. Len(kept) :
             \/ i = Len(kept) /\ kept[i] = m
             \/ i < Len(kept) /\ i + 1 \in 1 .. Len(q) /\ kept[i] = q[i + 1]
    BY <1>1, <2>1, <2>2
  <2> QED
    BY <1>1, <2>3
<1> QED
  BY <1>2, <1>3

\* What is kept has the new message last; dropping another makes no message
\* unhealthy.
LEMMA KeepKeepsLast ==
  ASSUME NEW q \in Seq(Messages), Len(q) <= InboxDepth, NEW m \in Messages,
         NEW kept, kept = Keep(q, m)
  PROVE  /\ kept \in Seq(Messages)
         /\ kept # <<>>
         /\ Len(kept) <= InboxDepth
         /\ kept[Len(kept)] = m
         /\ AllHealthy(q) /\ HealthyMessage(m) => AllHealthy(kept)
<1> DEFINE long == Append(q, m)
<1>1. InboxDepth \in Nat \ {0} /\ Len(q) \in Nat
  BY BridgeAssumption
<1>2. /\ long \in Seq(Messages) /\ Tail(long) \in Seq(Messages)
      /\ Len(long) = Len(q) + 1 /\ Len(Tail(long)) = Len(q)
  OBVIOUS
<1>3. kept = IF Len(long) > InboxDepth THEN Tail(long) ELSE long
  BY DEF Keep
<1> HIDE DEF long
<1>4. kept \in Seq(Messages) /\ Len(kept) <= InboxDepth /\ Len(kept) # 0
  BY <1>1, <1>2, <1>3
<1>5. kept # <<>>
  BY <1>4
<1>6. PICK dropped \in {0, 1} :
        \A i \in 1 .. Len(kept) :
          \/ i = Len(kept) /\ kept[i] = m
          \/ i < Len(kept) /\ i + dropped \in 1 .. Len(q)
               /\ kept[i] = q[i + dropped]
  BY KeepIsSuffix
<1>7. kept[Len(kept)] = m
  <2>1. Len(kept) \in 1 .. Len(kept)
    BY <1>4
  <2> QED
    BY <1>6, <2>1
<1>8. AllHealthy(q) /\ HealthyMessage(m) => AllHealthy(kept)
  BY <1>6 DEF AllHealthy
<1> QED
  BY <1>4, <1>5, <1>7, <1>8

BridgeInv == BridgeTypeOK /\ HealthyMessages

\* The messages the cloud node publishes.
LEMMA PublishedMessage ==
  ASSUME CloudTypeOK, sequence \in 0 .. MaxSequence, NEW status
  PROVE  /\ Message(status) \in Messages
         /\ Message(status).hard = IsDegraded(status)
         /\ HealthyMessage(Message(status))
<1>1. hasData \in BOOLEAN /\ dataAge \in -(FutureTolerance + 1) .. DataAgeCap
  BY DEF CloudTypeOK
<1>2. IsDegraded(status) \in BOOLEAN
  BY DEF IsDegraded
<1>3. SectorDistances(status).distances \in Distances
  BY <1>1, CloudAssumption DEF SectorDistances, Distances
<1>4. SectorDistances(status).stamped = hasData
  BY DEF SectorDistances
<1>5. ~IsDegraded(status) =>
        SectorDistances(status).distances =
          IF hasData THEN "data" ELSE "max_plus_one"
  BY <1>1 DEF SectorDistances
<1> HIDE DEF SectorDistances
<1> QED
  BY <1>1, <1>2, <1>3, <1>4, <1>5 DEF Message, Messages, HealthyMessage

\* A message grows older without leaving its type.
LEMMA OlderIsMessage ==
  ASSUME NEW msg \in Messages
  PROVE  /\ Older(msg) \in Messages
         /\ Older(msg).hard = msg.hard
         /\ Older(msg).stamped = msg.stamped
         /\ Older(msg).distances = msg.distances
<1>1. DataAgeCap \in Nat /\ MaxSourceAge \in Nat /\ DataAgeCap > MaxSourceAge
      /\ FutureTolerance \in Nat
  BY BridgeAssumption, SenderAssumption, CloudAssumption,
     SourceTimestampAssumption
<1>2. msg.age \in -(FutureTolerance + 1) .. DataAgeCap
  BY DEF Messages
<1>3. (IF msg.age <= MaxSourceAge THEN msg.age + 1 ELSE msg.age)
        \in -(FutureTolerance + 1) .. DataAgeCap
  BY <1>1, <1>2
<1> QED
  BY <1>3 DEF Messages, Older

-----------------------------------------------------------------------------
(* Types.                                                                  *)

\* The part of the type invariant that belongs to neither node.
TopicTypeOK ==
  /\ up \in BOOLEAN
  /\ downAge \in 0 .. InputFailTimeout + 1
  /\ crashes \in [cloud: 0 .. MaxCrashes, sender: 0 .. MaxCrashes]
  /\ sincePublish \in 0 .. PublishPeriod
  /\ sequence \in 0 .. MaxSequence
  /\ inbox \in Seq(Messages)
  /\ Len(inbox) <= InboxDepth
  /\ wallPublished \in BOOLEAN
  /\ lastSequence \in 0 .. MaxSequence
  /\ stored \in {"nothing", "data", "max_plus_one"}
  /\ cause \in BOOLEAN

LEMMA BridgeInitInv == BridgeInit => BridgeInv
<1> SUFFICES ASSUME BridgeInit PROVE BridgeInv
  OBVIOUS
<1>1. CloudTypeOK /\ SenderTypeOK
  BY CloudInitType, SenderInitType DEF BridgeInit
<1>2. /\ 0 \in 0 .. InputFailTimeout + 1
      /\ 0 \in 0 .. MaxCrashes
      /\ 0 \in 0 .. PublishPeriod
      /\ 0 \in 0 .. MaxSequence
      /\ 0 <= InboxDepth
  BY BridgeAssumption, StaleGuardAssumption
<1>3. inbox = <<>> /\ inbox \in Seq(Messages) /\ Len(inbox) = 0
  BY DEF BridgeInit
<1>4. TopicTypeOK
  BY <1>2, <1>3 DEF BridgeInit, TopicTypeOK
<1> QED
  BY <1>1, <1>3, <1>4 DEF BridgeInv, BridgeTypeOK, TopicTypeOK, HealthyMessages,
                          AllHealthy

\* A step of either node, of the topic or of systemd keeps the types and what
\* healthy messages carry.
LEMMA TopicStepInv ==
  BridgeInv /\ [BridgeNext]_bridgeVars => TopicTypeOK' /\ HealthyMessages'
<1> SUFFICES ASSUME BridgeInv, [BridgeNext]_bridgeVars
             PROVE  TopicTypeOK' /\ HealthyMessages'
  OBVIOUS
<1>0. TopicTypeOK /\ HealthyMessages /\ CloudTypeOK /\ SenderTypeOK
  BY DEF BridgeInv, BridgeTypeOK, TopicTypeOK
<1>a. /\ MaxSequence \in Nat /\ MaxCrashes \in Nat /\ PublishPeriod \in Nat
      /\ InboxDepth \in Nat \ {0} /\ InputFailTimeout \in Nat
  BY BridgeAssumption, StaleGuardAssumption
<1>1. CASE CloudArrives
  <2>1. \/ sequence' = sequence
        \/ sequence < MaxSequence /\ sequence' = sequence + 1
    BY <1>1 DEF CloudArrives, RefuseCloud, RepeatCloud, LoseTransform,
                BringData, AdvanceSequence
  <2>2. sequence' \in 0 .. MaxSequence
    BY <1>0, <1>a, <2>1 DEF TopicTypeOK
  <2> QED
    BY <1>0, <1>1, <2>2
       DEF CloudArrives, CloudRuns, processVars, receiverVars, TopicTypeOK,
           HealthyMessages
<1>2. CASE PublishSectors
  <2> DEFINE m == Message(lastStatus')
  <2>1. m \in Messages /\ HealthyMessage(m)
    BY <1>0, PublishedMessage DEF TopicTypeOK
  <2>2. inbox' = Keep(inbox, m)
    BY <1>2 DEF PublishSectors
  <2> HIDE DEF m
  <2>3. inbox \in Seq(Messages) /\ Len(inbox) <= InboxDepth
    BY <1>0 DEF TopicTypeOK
  <2>4. /\ inbox' \in Seq(Messages)
        /\ Len(inbox') <= InboxDepth
        /\ HealthyMessages'
    BY <1>0, <2>1, <2>2, <2>3, KeepKeepsLast DEF HealthyMessages
  <2>5. wallPublished' \in BOOLEAN /\ cause' \in BOOLEAN
    BY <1>2 DEF PublishSectors, IsDegraded
  <2>6. sincePublish' \in 0 .. PublishPeriod
    BY <1>2, <1>a DEF PublishSectors
  <2> QED
    BY <1>0, <1>2, <2>4, <2>5, <2>6
       DEF PublishSectors, processVars, receiverVars, TopicTypeOK
<1>3. CASE ReceiveSectors
  <2> DEFINE m == Head(inbox)
  <2>1. inbox \in Seq(Messages) /\ inbox # <<>> /\ inbox' = Tail(inbox)
    BY <1>0, <1>3 DEF ReceiveSectors, TopicTypeOK
  <2>2. /\ m \in Messages
        /\ inbox' \in Seq(Messages)
        /\ Len(inbox) \in Nat \ {0}
        /\ Len(inbox') = Len(inbox) - 1
        /\ \A i \in 1 .. Len(inbox) - 1 : inbox'[i] = inbox[i + 1]
        /\ m = inbox[1]
    BY <2>1, HeadIsMessage
  <2>3. HealthyMessages'
    <3>1. \A i \in 1 .. Len(inbox') :
            i \in 1 .. Len(inbox) - 1 /\ i + 1 \in 1 .. Len(inbox)
      BY <2>2
    <3> QED
      BY <1>0, <2>2, <3>1 DEF HealthyMessages, AllHealthy
  <2>4. ~m.hard => m.distances \in {"data", "max_plus_one"}
    <3>1. 1 \in 1 .. Len(inbox)
      BY <2>2
    <3> QED
      BY <1>0, <2>2, <3>1 DEF HealthyMessages, AllHealthy, HealthyMessage
  <2>5. Len(inbox') <= InboxDepth
    BY <1>0, <1>a, <2>2 DEF TopicTypeOK
  <2>6. m.sequence \in 0 .. MaxSequence
    BY <2>2 DEF Messages
  <2>7. lastSequence' \in 0 .. MaxSequence
        /\ stored' \in {"nothing", "data", "max_plus_one"}
    <3>1. CASE Refuse(m)
      BY <1>0, <3>1 DEF Refuse, receiverVars, TopicTypeOK
    <3>2. CASE Take(m)
      BY <1>0, <2>4, <2>6, <3>2 DEF Take, TopicTypeOK
    <3> QED
      BY <1>3, <3>1, <3>2 DEF ReceiveSectors
  <2>8. cause' \in BOOLEAN
    BY <1>3 DEF ReceiveSectors
  <2> QED
    BY <1>0, <1>3, <2>2, <2>3, <2>5, <2>7, <2>8
       DEF ReceiveSectors, processVars, TopicTypeOK
<1>4. CASE SendOrReport
  BY <1>0, <1>4
     DEF SendOrReport, processVars, topicVars, receiverVars, TopicTypeOK,
         HealthyMessages
<1>5. CASE CrashCloud
  <2>1. crashes' \in [cloud: 0 .. MaxCrashes, sender: 0 .. MaxCrashes]
    BY <1>0, <1>5, <1>a DEF CrashCloud, TopicTypeOK
  <2>2. up' = FALSE /\ downAge' = 0 /\ cause' = TRUE
        /\ UNCHANGED <<topicVars, receiverVars>>
    BY <1>5 DEF CrashCloud
  <2>3. downAge' \in 0 .. InputFailTimeout + 1
    BY <1>a, <2>2
  <2> QED
    BY <1>0, <2>1, <2>2, <2>3
       DEF topicVars, receiverVars, TopicTypeOK, HealthyMessages
<1>6. CASE RestartCloud
  <2>1. /\ up' = TRUE /\ downAge' = 0 /\ sincePublish' = 0 /\ sequence' = 0
        /\ UNCHANGED <<crashes, inbox, wallPublished, receiverVars, cause>>
    BY <1>6 DEF RestartCloud
  <2>2. /\ downAge' \in 0 .. InputFailTimeout + 1
        /\ sincePublish' \in 0 .. PublishPeriod
        /\ sequence' \in 0 .. MaxSequence
    BY <1>a, <2>1
  <2> QED
    BY <1>0, <2>1, <2>2 DEF receiverVars, TopicTypeOK, HealthyMessages
<1>7. CASE RestartSender
  <2>1. inbox' \in Seq(Messages) /\ Len(inbox') = 0
    BY <1>7 DEF RestartSender
  <2>2. crashes' \in [cloud: 0 .. MaxCrashes, sender: 0 .. MaxCrashes]
    BY <1>0, <1>7, <1>a DEF RestartSender, TopicTypeOK
  <2>3. HealthyMessages' /\ Len(inbox') <= InboxDepth
    BY <1>a, <2>1 DEF HealthyMessages, AllHealthy
  <2>4. /\ UNCHANGED <<up, downAge, sincePublish, sequence, wallPublished>>
        /\ lastSequence' = 0 /\ stored' = "nothing" /\ cause' = TRUE
    BY <1>7 DEF RestartSender
  <2>5. cause' \in BOOLEAN /\ lastSequence' \in 0 .. MaxSequence
    BY <1>a, <2>4
  <2> QED
    BY <1>0, <2>1, <2>2, <2>3, <2>4, <2>5 DEF TopicTypeOK
<1>8. CASE BridgeTick
  <2>1. /\ inbox' \in Seq(Messages)
        /\ Len(inbox') = Len(inbox)
        /\ \A i \in 1 .. Len(inbox) :
             inbox'[i] = Older(inbox[i]) /\ inbox[i] \in Messages
    <3>1. DOMAIN inbox = 1 .. Len(inbox)
          /\ \A i \in DOMAIN inbox : inbox[i] \in Messages
      BY <1>0 DEF TopicTypeOK
    <3>2. \A i \in 1 .. Len(inbox) : Older(inbox[i]) \in Messages
      BY <3>1, OlderIsMessage
    <3>3. inbox' = [i \in 1 .. Len(inbox) |-> Older(inbox[i])]
      BY <1>8, <3>1 DEF BridgeTick
    <3>4. Len(inbox) \in Nat
      BY <1>0 DEF TopicTypeOK
    <3> HIDE DEF Older
    <3> QED
      BY <3>1, <3>2, <3>3, <3>4
  <2>2. HealthyMessages'
    BY <1>0, <2>1, OlderIsMessage
       DEF HealthyMessages, AllHealthy, HealthyMessage
  <2>3. sincePublish' \in 0 .. PublishPeriod
        /\ downAge' \in 0 .. InputFailTimeout + 1
    BY <1>0, <1>8, <1>a DEF BridgeTick, CountTo, TopicTypeOK
  <2> QED
    BY <1>0, <1>8, <2>1, <2>2, <2>3 DEF BridgeTick, receiverVars, TopicTypeOK
<1>9. CASE UNCHANGED bridgeVars
  BY <1>0, <1>9
     DEF bridgeVars, processVars, topicVars, receiverVars, TopicTypeOK,
         HealthyMessages
<1> QED
  BY <1>1, <1>2, <1>3, <1>4, <1>5, <1>6, <1>7, <1>8, <1>9 DEF BridgeNext

LEMMA BridgeStepInv == BridgeInv /\ [BridgeNext]_bridgeVars => BridgeInv'
<1> SUFFICES ASSUME BridgeInv, [BridgeNext]_bridgeVars PROVE BridgeInv'
  OBVIOUS
<1>1. CloudTypeOK /\ SenderTypeOK /\ inbox \in Seq(Messages)
  BY DEF BridgeInv, BridgeTypeOK
<1>2. CloudTypeOK' /\ SenderTypeOK'
  BY <1>1, CloudSideType, SenderSideType
<1>3. TopicTypeOK' /\ HealthyMessages'
  BY TopicStepInv
<1> QED
  BY <1>2, <1>3 DEF BridgeInv, BridgeTypeOK, TopicTypeOK

LEMMA BridgeInvHolds == BridgeSpec => []BridgeInv
BY BridgeInitInv, BridgeStepInv, PTL DEF BridgeSpec

\* The types of both nodes and of the topic between them, through crashes and
\* restarts of either.
THEOREM BridgeTypeCorrect == BridgeSpec => []BridgeTypeOK
<1>1. BridgeInv => BridgeTypeOK
  BY DEF BridgeInv
<1> QED
  BY <1>1, BridgeInvHolds, PTL

-----------------------------------------------------------------------------
(* What reaches the wire.                                                  *)

\* The bound on the age of the data on the wire survives crashes of either
\* node: a restarted sender has nothing to send.
LEMMA BridgeFreshStep ==
  BridgeInv /\ DistancesFollowProgress /\ [BridgeNext]_bridgeVars
    => DistancesFollowProgress'
<1> SUFFICES ASSUME BridgeInv, DistancesFollowProgress,
                    [BridgeNext]_bridgeVars
             PROVE  DistancesFollowProgress'
  OBVIOUS
<1>1. SenderTypeOK /\ inbox \in Seq(Messages)
  BY DEF BridgeInv, BridgeTypeOK
<1>2. CASE [SenderNext]_senderVars
  BY <1>1, <1>2, DistancesFollowProgressStep
<1>3. CASE SenderReborn
  BY <1>3 DEF SenderReborn, DistancesFollowProgress
<1> QED
  BY <1>1, <1>2, <1>3, SenderSideStep

\* A fail-closed sender fed by the cloud node sends no data older than
\* max_source_age_ms plus the fail threshold, through delays, losses, crashes
\* and restarts (mavlink_obstacle_sender.py:463-506, 544-566).
THEOREM BridgeDataIsFresh == BridgeSpec => []SentDataIsFresh
<1>1. BridgeInit => DistancesFollowProgress
  BY DistancesFollowProgressInit DEF BridgeInit
<1>2. BridgeInv /\ DistancesFollowProgress => SentDataIsFresh
  <2> SUFFICES ASSUME BridgeInv, DistancesFollowProgress,
                      FailClosed, sent = "data"
               PROVE  distancesAge <= SentAgeBound
    BY DEF SentDataIsFresh
  <2>1. SenderTypeOK
    BY DEF BridgeInv, BridgeTypeOK
  <2>2. /\ hasProgress /\ ~Silent
        /\ distancesAge <= MaxSourceAge + progressAge
    BY DEF DistancesFollowProgress
  <2>3. /\ progressAge \in Int /\ distancesAge \in Int
        /\ MaxSourceAge \in Nat /\ InputFailTimeout \in Nat
    BY <2>1, SenderAssumption, StaleGuardAssumption
       DEF SenderTypeOK, GuardTypeOK, SentAgeBound
  <2>4. progressAge <= InputFailTimeout
    BY <2>2, <2>3 DEF Silent
  <2> QED
    BY <2>2, <2>3, <2>4 DEF SentAgeBound
<1> QED
  BY <1>1, <1>2, BridgeFreshStep, BridgeInvHolds, PTL DEF BridgeSpec

\* What the sender keeps was processed: messages that are not degraded carry
\* data if they are in contract, and no others are kept.
KeptIsProcessed ==
  /\ hasDistances => stored = "data"
  /\ sent = "data" => hasDistances

\* The sender finds data to send only when its guard is open.
LEMMA DataNeedsOpenGuard ==
  ASSUME NEW heard, NEW age, CurrentDistances(heard, age) = "data"
  PROVE  hasDistances /\ ~guardLatched /\ ~Silent
<1>1. FailClosed
  BY BridgeAssumption
<1>2. ~HardFailure
  BY <1>1 DEF CurrentDistances
<1>3. ~Silent /\ hasProgress
  BY <1>2 DEF HardFailure, GuardState, Silent
<1>4. ~guardLatched
  BY <1>2, <1>3 DEF HardFailure, GuardState
<1> QED
  BY <1>1, <1>3, <1>4, DataNeedsProgress

\* What the timers of the sender leave on the wire.
LEMMA SendingStep ==
  ASSUME SendOrReport
  PROVE  /\ UNCHANGED <<hasDistances, stored, inbox, wallPublished>>
         /\ sent' = "data" => hasDistances /\ ~guardLatched'
         /\ guardLatched => guardLatched'
<1>1. CASE TransmitDistances(TRUE, FALSE, TRUE, FALSE)
  <2>1. sent' = CurrentDistances(heardHeartbeat', heartbeatAge')
        /\ guardLatched' = (guardLatched \/ Silent)
        /\ UNCHANGED inputVars
    BY <1>1 DEF TransmitDistances, EvaluateGuard
  <2>2. sent' = "data" => hasDistances /\ ~guardLatched /\ ~Silent
    BY <2>1, DataNeedsOpenGuard
  <2> QED
    BY <2>1, <2>2 DEF SendOrReport, inputVars, topicVars, receiverVars
<1>2. CASE HoldBack(TRUE, FALSE) \/ PublishDiagnostics
  BY <1>2 DEF SendOrReport, HoldBack, PublishDiagnostics, EvaluateGuard,
              inputVars, topicVars, receiverVars
<1> QED
  BY <1>1, <1>2 DEF SendOrReport

LEMMA KeptIsProcessedStep ==
  BridgeInv /\ KeptIsProcessed /\ [BridgeNext]_bridgeVars => KeptIsProcessed'
<1> SUFFICES ASSUME BridgeInv, KeptIsProcessed, [BridgeNext]_bridgeVars
             PROVE  KeptIsProcessed'
  OBVIOUS
<1>1. CASE ReceiveSectors
  <2> DEFINE m == Head(inbox)
  <2>1. inbox \in Seq(Messages) /\ HealthyMessages /\ inbox # <<>>
    BY <1>1 DEF ReceiveSectors, BridgeInv, BridgeTypeOK
  <2>2. HealthyMessage(m)
    BY <2>1, HeadIsMessage DEF HealthyMessages, AllHealthy
  <2>3. CASE Refuse(m)
    BY <2>3 DEF Refuse, RefuseSector, inputVars, receiverVars, KeptIsProcessed
  <2>4. CASE Take(m)
    BY <2>2, <2>4
       DEF Take, InContract, HealthyMessage, TakeSector, KeptIsProcessed
  <2> QED
    BY <1>1, <2>3, <2>4 DEF ReceiveSectors
<1>2. CASE SendOrReport
  BY <1>2, SendingStep DEF KeptIsProcessed
<1>3. CASE RestartSender
  BY <1>3 DEF RestartSender, KeptIsProcessed
<1>4. CASE BridgeTick
  BY <1>4 DEF BridgeTick, SenderTick, receiverVars, KeptIsProcessed
<1>5. CASE CloudArrives \/ PublishSectors \/ CrashCloud \/ RestartCloud
  BY <1>5
     DEF CloudArrives, CloudRuns, PublishSectors, CrashCloud, RestartCloud,
         senderVars, inputVars, receiverVars, KeptIsProcessed
<1>6. CASE UNCHANGED bridgeVars
  BY <1>6 DEF bridgeVars, senderVars, inputVars, receiverVars, KeptIsProcessed
<1> QED
  BY <1>1, <1>2, <1>3, <1>4, <1>5, <1>6 DEF BridgeNext

\* The all-clear distances of a cloud node that has processed no cloud never
\* reach the wire, for every configuration of both nodes
\* (cloud_processor_node.cpp:119, 682-699; mavlink_obstacle_sender.py:225-256).
THEOREM UnprocessedStaysOff == BridgeSpec => []UnprocessedIsNeverSent
<1>1. BridgeInit => KeptIsProcessed
  BY DEF BridgeInit, SenderInit, KeptIsProcessed
<1>2. KeptIsProcessed => UnprocessedIsNeverSent
  BY DEF KeptIsProcessed, UnprocessedIsNeverSent
<1> QED
  BY <1>1, <1>2, KeptIsProcessedStep, BridgeInvHolds, PTL DEF BridgeSpec

\* A published wall is either still the last message on its way or has shut
\* the guard; data on the wire was sent with the guard open.
WallIsComing ==
  /\ wallPublished => IF inbox = <<>> THEN guardLatched
                     ELSE inbox[Len(inbox)].hard
  /\ sent = "data" => ~guardLatched

LEMMA WallIsComingStep ==
  BridgeInv /\ WallIsComing /\ [BridgeNext]_bridgeVars => WallIsComing'
<1> SUFFICES ASSUME BridgeInv, WallIsComing, [BridgeNext]_bridgeVars
             PROVE  WallIsComing'
  OBVIOUS
<1>0. /\ inbox \in Seq(Messages) /\ Len(inbox) <= InboxDepth
      /\ CloudTypeOK /\ sequence \in 0 .. MaxSequence
  BY DEF BridgeInv, BridgeTypeOK
<1>1. CASE PublishSectors
  <2> DEFINE m == Message(lastStatus')
  <2>1. m \in Messages /\ m.hard = IsDegraded(lastStatus')
    BY <1>0, PublishedMessage
  <2>2. /\ inbox' = Keep(inbox, m)
        /\ wallPublished' = IsDegraded(lastStatus')
        /\ UNCHANGED senderVars
    BY <1>1 DEF PublishSectors
  <2> HIDE DEF m
  <2>3. inbox' # <<>> /\ inbox'[Len(inbox')] = m
    BY <1>0, <2>1, <2>2, KeepKeepsLast
  <2> QED
    BY <2>1, <2>2, <2>3 DEF senderVars, guardVars, WallIsComing
<1>2. CASE ReceiveSectors
  <2> DEFINE m == Head(inbox)
  <2>1. /\ inbox # <<>> /\ inbox' = Tail(inbox)
        /\ UNCHANGED wallPublished
    BY <1>2 DEF ReceiveSectors
  <2>2. /\ m = inbox[1]
        /\ Len(inbox) \in Nat \ {0}
        /\ Len(inbox') = Len(inbox) - 1
        /\ inbox' \in Seq(Messages)
        /\ \A i \in 1 .. Len(inbox) - 1 : inbox'[i] = inbox[i + 1]
    BY <1>0, <2>1, HeadIsMessage
  <2>3. sent' = "nothing"
    BY <1>2 DEF ReceiveSectors, Refuse, Take, RefuseSector, TakeSector
  <2>4. CASE wallPublished /\ inbox' = <<>>
    <3>1. Len(inbox) = 1
      BY <2>2, <2>4
    <3>2. m.hard
      BY <2>1, <2>2, <2>4, <3>1 DEF WallIsComing
    <3>3. guardLatched'
      BY <1>2, <3>2 DEF ReceiveSectors, Refuse, Take, RefuseSector, MarkFault
    <3> QED
      BY <2>3, <2>4, <3>3 DEF WallIsComing
  <2>5. CASE wallPublished /\ inbox' # <<>>
    <3>1. Len(inbox') \in Nat \ {0}
      BY <2>2, <2>5
    <3>2. inbox'[Len(inbox')] = inbox[Len(inbox)]
      BY <2>2, <3>1
    <3> QED
      BY <2>1, <2>3, <2>5, <3>2 DEF WallIsComing
  <2>6. CASE ~wallPublished
    BY <2>1, <2>3, <2>6 DEF WallIsComing
  <2> QED
    BY <2>4, <2>5, <2>6
<1>3. CASE SendOrReport
  BY <1>3, SendingStep DEF WallIsComing
<1>4. CASE RestartSender
  BY <1>4 DEF RestartSender, WallIsComing
<1>5. CASE BridgeTick
  <2>1. /\ inbox' = [i \in DOMAIN inbox |-> Older(inbox[i])]
        /\ UNCHANGED <<guardLatched, wallPublished>>
        /\ sent' = "nothing"
    BY <1>5 DEF BridgeTick, SenderTick, GuardAging
  <2>2. /\ Len(inbox') = Len(inbox)
        /\ inbox = <<>> <=> inbox' = <<>>
        /\ \A i \in 1 .. Len(inbox) :
             inbox'[i] = Older(inbox[i]) /\ inbox[i] \in Messages
    BY <1>0, <2>1
  <2>3. inbox # <<>> => Len(inbox) \in 1 .. Len(inbox)
    BY <1>0
  <2>4. inbox # <<>> => inbox'[Len(inbox')].hard = inbox[Len(inbox)].hard
    BY <2>2, <2>3, OlderIsMessage
  <2> QED
    BY <2>1, <2>2, <2>4 DEF WallIsComing
<1>6. CASE CloudArrives \/ CrashCloud \/ RestartCloud
  BY <1>6
     DEF CloudArrives, CloudRuns, CrashCloud, RestartCloud, senderVars, guardVars,
         topicVars, WallIsComing
<1>7. CASE UNCHANGED bridgeVars
  BY <1>7 DEF bridgeVars, senderVars, guardVars, topicVars, WallIsComing
<1> QED
  BY <1>1, <1>2, <1>3, <1>4, <1>5, <1>6, <1>7 DEF BridgeNext

\* The wall of the cloud node reaches the wire: with no message on its way
\* and the latest one degraded no data is sent, for every depth of the topic
\* and any number of crashes (mavlink_obstacle_sender.py:491-498, 544-566).
THEOREM WallGetsThrough == BridgeSpec => []WallReachesWire
<1>1. BridgeInit => WallIsComing
  BY DEF BridgeInit, SenderInit, WallIsComing
<1>2. WallIsComing => WallReachesWire
  BY DEF WallIsComing, WallReachesWire
<1> QED
  BY <1>1, <1>2, WallIsComingStep, BridgeInvHolds, PTL DEF BridgeSpec

\* Of a prompt topic nothing is left when the clocks first advance after a
\* crash of the cloud node; from then on the sender's silence is as old as the
\* crash.
SilentSinceCrash ==
  Prompt /\ ~up =>
    /\ downAge > 0 => inbox = <<>>
    /\ hasProgress => downAge <= progressAge

LEMMA SilentSinceCrashStep ==
  BridgeInv /\ SilentSinceCrash /\ [BridgeNext]_bridgeVars => SilentSinceCrash'
<1> SUFFICES ASSUME BridgeInv, SilentSinceCrash, [BridgeNext]_bridgeVars,
                    Prompt, ~up'
             PROVE  /\ downAge' > 0 => inbox' = <<>>
                    /\ hasProgress' => downAge' <= progressAge'
  BY DEF SilentSinceCrash
<1>0. /\ InputFailTimeout \in Nat
      /\ downAge \in 0 .. InputFailTimeout + 1
      /\ progressAge \in 0 .. InputFailTimeout + 1
      /\ progressAge' \in 0 .. InputFailTimeout + 1
  <2>1. BridgeInv'
    BY BridgeStepInv
  <2> QED
    BY <2>1, StaleGuardAssumption
       DEF BridgeInv, BridgeTypeOK, SenderTypeOK, GuardTypeOK
<1>1. CASE ReceiveSectors
  <2>1. inbox # <<>> /\ UNCHANGED <<up, downAge>>
    BY <1>1 DEF ReceiveSectors, processVars
  <2>2. downAge' = 0
    BY <1>0, <2>1 DEF SilentSinceCrash
  <2> QED
    BY <1>0, <2>2
<1>2. CASE SendOrReport
  <2>1. UNCHANGED <<up, downAge, inbox>>
    BY <1>2 DEF SendOrReport, processVars, topicVars
  <2>2. UNCHANGED <<hasProgress, progressAge>>
    BY <1>2 DEF SendOrReport, TransmitDistances, HoldBack, PublishDiagnostics,
                EvaluateGuard
  <2> QED
    BY <2>1, <2>2 DEF SilentSinceCrash
<1>3. CASE CrashCloud
  BY <1>0, <1>3 DEF CrashCloud
<1>4. CASE RestartSender
  BY <1>4 DEF RestartSender
<1>5. CASE BridgeTick
  <2>1. inbox = <<>> /\ inbox' = <<>>
    BY <1>5 DEF BridgeTick
  <2>2. ~up /\ downAge' = CountTo(downAge, InputFailTimeout + 1)
    BY <1>5 DEF BridgeTick
  <2>3. /\ hasProgress' = hasProgress
        /\ progressAge' = IF hasProgress /\ ~(progressAge > InputFailTimeout)
                          THEN progressAge + 1 ELSE progressAge
    BY <1>5 DEF BridgeTick, SenderTick, GuardAging, Silent
  <2> QED
    BY <1>0, <2>1, <2>2, <2>3 DEF CountTo, SilentSinceCrash
<1>6. CASE CloudArrives \/ PublishSectors
  <2>1. up'
    BY <1>6 DEF CloudArrives, CloudRuns, PublishSectors, processVars
  <2> QED
    BY <2>1
<1>7. CASE RestartCloud
  BY <1>7 DEF RestartCloud
<1>8. CASE UNCHANGED bridgeVars
  BY <1>8 DEF bridgeVars, processVars, topicVars, senderVars, guardVars,
              SilentSinceCrash
<1> QED
  BY <1>1, <1>2, <1>3, <1>4, <1>5, <1>6, <1>7, <1>8 DEF BridgeNext

\* With a prompt topic the sender sends no data by the time the cloud node has
\* been dead for longer than the fail threshold, for every threshold, whatever
\* was on its way at the crash and whoever crashed before
\* (mavlink_obstacle_sender.py:129-150, 544-566).
THEOREM KilledCloudStopsData == BridgeSpec => []KilledCloudMeansWall
<1>1. BridgeInit => DistancesFollowProgress /\ SilentSinceCrash
  BY DistancesFollowProgressInit DEF BridgeInit, SilentSinceCrash
<1>2. BridgeInv /\ DistancesFollowProgress /\ SilentSinceCrash
        => KilledCloudMeansWall
  <2> SUFFICES ASSUME BridgeInv, DistancesFollowProgress, SilentSinceCrash,
                      Prompt, ~up, downAge > InputFailTimeout, sent = "data"
               PROVE  FALSE
    BY DEF KilledCloudMeansWall
  <2>1. hasProgress /\ ~Silent
    BY BridgeAssumption DEF DistancesFollowProgress
  <2>2. /\ downAge \in Int /\ progressAge \in Int /\ InputFailTimeout \in Nat
    BY StaleGuardAssumption
       DEF BridgeInv, BridgeTypeOK, SenderTypeOK, GuardTypeOK
  <2> QED
    BY <2>1, <2>2 DEF Silent, SilentSinceCrash
<1> QED
  BY <1>1, <1>2, BridgeFreshStep, SilentSinceCrashStep, BridgeInvHolds, PTL
     DEF BridgeSpec

-----------------------------------------------------------------------------
(* The order of the data.                                                  *)

\* Ages beyond the limit of the sender are alike.
Cap(age) == IF age > MaxSourceAge THEN MaxSourceAge + 1 ELSE age

\* Whatever follows the stored distances, on the topic or in the cloud node,
\* is no older than what it follows.
StampsInOrder ==
  /\ hasData => hasStamp /\ stampAge <= dataAge
  /\ \A i \in 1 .. Len(inbox) :
       inbox[i].stamped => hasData /\ Cap(dataAge) <= Cap(inbox[i].age)
  /\ \A i, j \in 1 .. Len(inbox) :
       i < j /\ inbox[i].stamped /\ inbox[j].stamped
         => Cap(inbox[j].age) <= Cap(inbox[i].age)
  /\ hasDistances =>
       /\ hasData /\ Cap(dataAge) <= distancesAge
       /\ \A i \in 1 .. Len(inbox) :
            inbox[i].stamped => Cap(inbox[i].age) <= distancesAge

OrderedUntilCrash == crashes.cloud = 0 => up /\ StampsInOrder

\* The numbers of both nodes.
LEMMA BridgeNumbers ==
  ASSUME BridgeTypeOK
  PROVE  /\ inbox \in Seq(Messages) /\ Len(inbox) \in Nat
         /\ Len(inbox) <= InboxDepth
         /\ \A i \in 1 .. Len(inbox) :
              /\ inbox[i] \in Messages /\ inbox[i].age \in Int
              /\ inbox[i].sequence \in Nat
              /\ inbox[i].stamped \in BOOLEAN /\ inbox[i].hard \in BOOLEAN
         /\ distancesAge \in Nat /\ distancesAge <= SentAgeBound + 1
         /\ MaxSourceAge \in Nat /\ SentAgeBound \in Nat
         /\ SentAgeBound >= MaxSourceAge
         /\ DataAgeCap \in Nat /\ DataAgeCap > MaxSourceAge
         /\ DataAgeCap > MaxSensorAge /\ MaxSensorAge \in Nat
         /\ dataAge \in Int /\ dataAge <= DataAgeCap
         /\ stampAge \in Int /\ stampAge <= MaxSensorAge + 1
         /\ hasDistances \in BOOLEAN /\ hasData \in BOOLEAN
         /\ hasStamp \in BOOLEAN
<1>1. /\ CloudTypeOK /\ SenderTypeOK /\ inbox \in Seq(Messages)
      /\ Len(inbox) <= InboxDepth
  BY DEF BridgeTypeOK
<1>2. /\ MaxSourceAge \in Nat /\ InputFailTimeout \in Nat /\ DataAgeCap \in Nat
      /\ DataAgeCap > MaxSourceAge /\ DataAgeCap > MaxSensorAge
      /\ MaxSensorAge \in Nat /\ FutureTolerance \in Nat /\ MaxSequence \in Nat
  BY BridgeAssumption, SenderAssumption, StaleGuardAssumption, CloudNumbers
<1>3. /\ SentAgeBound \in Nat /\ SentAgeBound >= MaxSourceAge
      /\ distancesAge \in 0 .. SentAgeBound + 1
  BY <1>1, <1>2 DEF SentAgeBound, SenderTypeOK
<1>4. dataAge \in Int /\ dataAge <= DataAgeCap
  BY <1>1, <1>2 DEF CloudTypeOK
<1>5. \A m \in Messages : /\ m.age \in Int /\ m.sequence \in Nat
                          /\ m.stamped \in BOOLEAN /\ m.hard \in BOOLEAN
  BY <1>2 DEF Messages
<1>6. \A i \in 1 .. Len(inbox) : inbox[i] \in Messages
  BY <1>1
<1>7. Len(inbox) \in Nat
  BY <1>1
<1> QED
  BY <1>1, <1>2, <1>3, <1>4, <1>5, <1>6, <1>7, CloudTypes DEF SenderTypeOK

\* A cloud brings data no older than the latest, or none.
LEMMA CloudBringsNewer ==
  ASSUME BridgeTypeOK, CloudArrives, hasData => hasStamp /\ stampAge <= dataAge
  PROVE  /\ hasData => hasData' /\ dataAge' <= dataAge
         /\ hasData' => hasStamp' /\ stampAge' <= dataAge'
<1>0. /\ dataAge \in Int /\ stampAge \in Int
      /\ hasData \in BOOLEAN /\ hasStamp \in BOOLEAN
  BY BridgeNumbers
<1>1. Live /\ ArrivalAges \subseteq StampAges /\ StampAges \subseteq Int
  BY BridgeAssumption, CloudNumbers DEF StampAges
<1>2. CASE RefuseCloud \/ RepeatCloud
  <2>1. UNCHANGED <<hasData, dataAge, hasStamp, stampAge>>
    BY <1>2 DEF RefuseCloud, RepeatCloud, RejectCloud, RefuseStamp,
                PassOverStamp, NoteStamp, stampVars, nodeVars
  <2> QED
    BY <1>0, <2>1
<1>3. CASE LoseTransform \/ BringData(ArrivalAges)
  <2>1. PICK age \in ArrivalAges :
          FailTransform(age) \/ ProcessCloud(age, FALSE, FALSE)
    BY <1>3 DEF LoseTransform, BringData
  <2>2. /\ StampVerdict(FALSE, age) = "ACCEPTED"
        /\ hasStamp' = TRUE /\ stampAge' = age
    BY <2>1 DEF FailTransform, ProcessCloud, AcceptCloud, AcceptStamp
  <2>3. hasStamp => age < stampAge
    <3>1. Live /\ ~(hasStamp /\ age > stampAge) /\ ~(hasStamp /\ age = stampAge)
      BY <1>1, <2>2 DEF StampVerdict
    <3> QED
      BY <1>0, <1>1, <3>1
  <2>4. \/ UNCHANGED <<hasData, dataAge>>
        \/ hasData' = TRUE /\ dataAge' = age
    BY <2>1 DEF FailTransform, ProcessCloud
  <2> QED
    BY <1>0, <1>1, <2>2, <2>3, <2>4
<1> QED
  BY <1>2, <1>3 DEF CloudArrives

LEMMA CapGrows ==
  ASSUME NEW a \in Int, NEW b \in Int, MaxSourceAge \in Nat
  PROVE  /\ Cap(a) \in Int /\ Cap(a) <= MaxSourceAge + 1
         /\ a <= b => Cap(a) <= Cap(b)
         /\ Cap(a) <= a
BY DEF Cap

LEMMA CloudKeepsOrder ==
  ASSUME BridgeTypeOK, StampsInOrder, CloudArrives
  PROVE  StampsInOrder'
<1>1. /\ UNCHANGED <<inbox, hasDistances, distancesAge>>
  BY DEF CloudArrives, CloudRuns, senderVars, inputVars
<1>2. /\ hasData => hasData' /\ dataAge' <= dataAge
      /\ hasData' => hasStamp' /\ stampAge' <= dataAge'
  BY CloudBringsNewer DEF StampsInOrder
<1>3. dataAge' \in Int
  <2>1. CloudTypeOK'
    BY CloudSideType DEF BridgeNext, BridgeTypeOK
  <2> QED
    BY <2>1, CloudNumbers DEF CloudTypeOK
<1>4. /\ \A i \in 1 .. Len(inbox) : Cap(inbox[i].age) \in Int
      /\ Cap(dataAge) \in Int /\ Cap(dataAge') \in Int
      /\ hasData => Cap(dataAge') <= Cap(dataAge)
      /\ distancesAge \in Int
  <2>1. MaxSourceAge \in Nat /\ dataAge \in Int /\ distancesAge \in Int
        /\ \A i \in 1 .. Len(inbox) : inbox[i].age \in Int
    BY BridgeNumbers
  <2>2. \A a \in Int :
          Cap(a) \in Int /\ \A b \in Int : a <= b => Cap(a) <= Cap(b)
    BY <2>1, CapGrows
  <2> QED
    BY <1>2, <1>3, <2>1, <2>2
<1> QED
  BY <1>1, <1>2, <1>4 DEF StampsInOrder

LEMMA PublishKeepsOrder ==
  ASSUME BridgeTypeOK, StampsInOrder, PublishSectors
  PROVE  StampsInOrder'
<1> DEFINE m == Message(lastStatus')
<1>1. m \in Messages /\ m.age = dataAge /\ (m.stamped => hasData)
  BY PublishedMessage DEF BridgeTypeOK, Message, SectorDistances
<1>2. /\ UNCHANGED <<hasStamp, stampAge, hasData, dataAge, hasDistances,
                     distancesAge>>
      /\ inbox' = Keep(inbox, m)
  BY DEF PublishSectors, OnPublishTimer, stampVars, nodeVars, senderVars,
         inputVars
<1>3. /\ inbox \in Seq(Messages) /\ Len(inbox) <= InboxDepth
      /\ \A i \in 1 .. Len(inbox) : Cap(inbox[i].age) \in Int
      /\ Cap(dataAge) \in Int
  BY BridgeNumbers, CapGrows
<1> HIDE DEF m
<1>4. PICK dropped \in {0, 1} :
        \A i \in 1 .. Len(inbox') :
          \/ i = Len(inbox') /\ inbox'[i] = m
          \/ i < Len(inbox') /\ i + dropped \in 1 .. Len(inbox)
               /\ inbox'[i] = inbox[i + dropped]
  BY <1>1, <1>2, <1>3, KeepIsSuffix
<1>5. Len(inbox') \in Nat /\ Len(inbox) \in Nat
  BY <1>1, <1>2, <1>3, KeepIsSuffix
<1>6. \A i \in 1 .. Len(inbox') : inbox'[i].stamped =>
        hasData /\ Cap(dataAge) <= Cap(inbox'[i].age)
  BY <1>1, <1>3, <1>4 DEF StampsInOrder
<1>7. \A i, j \in 1 .. Len(inbox') :
        i < j /\ inbox'[i].stamped /\ inbox'[j].stamped
          => Cap(inbox'[j].age) <= Cap(inbox'[i].age)
  <2> SUFFICES ASSUME NEW i \in 1 .. Len(inbox'), NEW j \in 1 .. Len(inbox'),
                      i < j, inbox'[i].stamped, inbox'[j].stamped
               PROVE  Cap(inbox'[j].age) <= Cap(inbox'[i].age)
    OBVIOUS
  <2>1. CASE j = Len(inbox') /\ inbox'[j] = m
    BY <1>1, <1>6, <2>1
  <2>2. CASE j < Len(inbox') /\ j + dropped \in 1 .. Len(inbox)
               /\ inbox'[j] = inbox[j + dropped]
    <3>1. i + dropped \in 1 .. Len(inbox) /\ inbox'[i] = inbox[i + dropped]
          /\ i + dropped < j + dropped
      BY <1>4, <1>5, <2>2
    <3> QED
      BY <2>2, <3>1 DEF StampsInOrder
  <2> QED
    BY <1>4, <2>1, <2>2
<1>8. hasDistances => \A i \in 1 .. Len(inbox') :
        inbox'[i].stamped => Cap(inbox'[i].age) <= distancesAge
  BY <1>1, <1>4 DEF StampsInOrder
<1> QED
  BY <1>2, <1>6, <1>7, <1>8 DEF StampsInOrder

\* What the sender takes has the lesser of the two ages.
LEMMA TakenAge ==
  ASSUME BridgeTypeOK, inbox # <<>>, Take(Head(inbox))
  PROVE  /\ 1 \in 1 .. Len(inbox) /\ inbox[1].stamped
         /\ hasDistances' = TRUE /\ distancesAge' \in Nat
         /\ Cap(inbox[1].age) <= distancesAge'
         /\ \A n \in Nat : Cap(inbox[1].age) <= n => distancesAge' <= n
<1>1. /\ 1 \in 1 .. Len(inbox) /\ Head(inbox) = inbox[1]
  BY HeadIsMessage DEF BridgeTypeOK
<1>2. inbox[1].age \in Int /\ MaxSourceAge \in Nat
  BY <1>1, BridgeNumbers
<1>3. /\ inbox[1].stamped /\ hasDistances' = TRUE
      /\ distancesAge' = AgeOnArrival(inbox[1])
      /\ AgeOnArrival(inbox[1]) <= MaxSourceAge
  BY <1>1 DEF Take, InContract, TakeSector
<1> QED
  BY <1>1, <1>2, <1>3 DEF AgeOnArrival, Cap

LEMMA ReceiveKeepsOrder ==
  ASSUME BridgeTypeOK, StampsInOrder, ReceiveSectors
  PROVE  /\ StampsInOrder'
         /\ hasDistances => distancesAge' <= distancesAge
<1>1. /\ inbox \in Seq(Messages) /\ inbox # <<>> /\ inbox' = Tail(inbox)
      /\ UNCHANGED <<hasStamp, stampAge, hasData, dataAge>>
      /\ Refuse(Head(inbox)) \/ Take(Head(inbox))
  BY BridgeNumbers DEF ReceiveSectors, cloudVars, stampVars, nodeVars
<1>2. /\ Len(inbox) \in Nat \ {0} /\ Len(inbox') = Len(inbox) - 1
      /\ \A i \in 1 .. Len(inbox) - 1 : inbox'[i] = inbox[i + 1]
  BY <1>1, HeadIsMessage
<1>3. /\ \A i \in 1 .. Len(inbox') : inbox'[i].stamped =>
           hasData /\ Cap(dataAge) <= Cap(inbox'[i].age)
      /\ \A i, j \in 1 .. Len(inbox') :
           i < j /\ inbox'[i].stamped /\ inbox'[j].stamped
             => Cap(inbox'[j].age) <= Cap(inbox'[i].age)
  <2>1. \A i \in 1 .. Len(inbox') :
          i + 1 \in 1 .. Len(inbox) /\ inbox'[i] = inbox[i + 1]
    BY <1>2
  <2>2. \A i, j \in 1 .. Len(inbox') : i < j => i + 1 < j + 1
    BY <1>2
  <2> QED
    BY <2>1, <2>2 DEF StampsInOrder
<1>4. CASE Refuse(Head(inbox))
  <2>1. UNCHANGED <<hasDistances, distancesAge>>
    BY <1>4 DEF Refuse, RefuseSector, inputVars
  <2>2. hasDistances => \A i \in 1 .. Len(inbox') :
          inbox'[i].stamped => Cap(inbox'[i].age) <= distancesAge
    BY <1>2 DEF StampsInOrder
  <2>3. distancesAge <= distancesAge
    BY BridgeNumbers
  <2> QED
    BY <1>1, <1>3, <2>1, <2>2, <2>3 DEF StampsInOrder
<1>5. CASE Take(Head(inbox))
  <2>1. /\ 1 \in 1 .. Len(inbox) /\ inbox[1].stamped
        /\ hasDistances' = TRUE /\ distancesAge' \in Nat
        /\ Cap(inbox[1].age) <= distancesAge'
        /\ \A n \in Nat : Cap(inbox[1].age) <= n => distancesAge' <= n
    BY <1>1, <1>5, TakenAge
  <2>2. hasDistances => distancesAge' <= distancesAge
    BY <2>1, BridgeNumbers DEF StampsInOrder
  <2>3. /\ \A i \in 1 .. Len(inbox) : Cap(inbox[i].age) \in Int
        /\ Cap(dataAge) \in Int
    BY BridgeNumbers, CapGrows
  <2>4. hasData /\ Cap(dataAge) <= distancesAge'
    BY <2>1, <2>3 DEF StampsInOrder
  <2>5. \A i \in 1 .. Len(inbox') :
          inbox'[i].stamped => Cap(inbox'[i].age) <= distancesAge'
    <3> SUFFICES ASSUME NEW i \in 1 .. Len(inbox'), inbox'[i].stamped
                 PROVE  Cap(inbox'[i].age) <= distancesAge'
      OBVIOUS
    <3>1. i + 1 \in 1 .. Len(inbox) /\ inbox'[i] = inbox[i + 1] /\ 1 < i + 1
      BY <1>2
    <3>2. Cap(inbox[i + 1].age) <= Cap(inbox[1].age)
      BY <2>1, <3>1 DEF StampsInOrder
    <3> QED
      BY <2>1, <2>3, <3>1, <3>2
  <2> QED
    BY <1>1, <1>3, <2>1, <2>2, <2>4, <2>5 DEF StampsInOrder
<1> QED
  BY <1>1, <1>4, <1>5

\* Time passes alike for all.
LEMMA TickKeepsOrder ==
  ASSUME BridgeTypeOK, StampsInOrder, BridgeTick, up
  PROVE  StampsInOrder'
<1>1. /\ UNCHANGED <<hasDistances, hasData, hasStamp>>
      /\ inbox' = [i \in DOMAIN inbox |-> Older(inbox[i])]
      /\ hasDistances => distancesAge' =
           IF distancesAge <= SentAgeBound THEN distancesAge + 1
           ELSE distancesAge
      /\ hasData => dataAge' =
           IF dataAge < DataAgeCap THEN dataAge + 1 ELSE dataAge
      /\ hasStamp => stampAge' =
           IF stampAge <= MaxSensorAge THEN stampAge + 1 ELSE stampAge
  BY DEF BridgeTick, Tick, StampAging, SenderTick
<1>2. /\ Len(inbox') = Len(inbox)
      /\ \A i \in 1 .. Len(inbox) :
           /\ inbox'[i].stamped = inbox[i].stamped
           /\ inbox'[i].age = IF inbox[i].age <= MaxSourceAge
                              THEN inbox[i].age + 1 ELSE inbox[i].age
  <2>1. \A i \in 1 .. Len(inbox) :
          inbox'[i] = Older(inbox[i]) /\ inbox[i] \in Messages
    BY <1>1, BridgeNumbers
  <2>2. Len(inbox') = Len(inbox)
    BY <1>1, BridgeNumbers
  <2>3. \A msg \in Messages :
          /\ Older(msg).stamped = msg.stamped
          /\ Older(msg).age = IF msg.age <= MaxSourceAge THEN msg.age + 1
                              ELSE msg.age
    BY DEF Older, Messages
  <2> QED
    BY <2>1, <2>2, <2>3
<1>3. hasData' => hasStamp' /\ stampAge' <= dataAge'
  BY <1>1, BridgeNumbers DEF StampsInOrder
<1> DEFINE Next(c) == IF c <= MaxSourceAge THEN c + 1 ELSE MaxSourceAge + 1
<1>4. /\ \A i \in 1 .. Len(inbox) :
           /\ Cap(inbox[i].age) \in Int
           /\ Cap(inbox'[i].age) = Next(Cap(inbox[i].age))
      /\ Cap(dataAge) \in Int
      /\ hasData => Cap(dataAge') = Next(Cap(dataAge))
  <2>1. MaxSourceAge \in Nat /\ DataAgeCap > MaxSourceAge /\ DataAgeCap \in Nat
        /\ dataAge \in Int /\ \A i \in 1 .. Len(inbox) : inbox[i].age \in Int
    BY BridgeNumbers
  <2>2. \A a \in Int :
          /\ Cap(a) \in Int
          /\ Cap(IF a <= MaxSourceAge THEN a + 1 ELSE a) = Next(Cap(a))
          /\ Cap(IF a < DataAgeCap THEN a + 1 ELSE a) = Next(Cap(a))
    BY <2>1 DEF Cap
  <2> HIDE DEF Next
  <2> QED
    BY <1>1, <1>2, <2>1, <2>2
<1>5. \A c, d \in Int : c <= d => Next(c) <= Next(d)
  BY BridgeNumbers
<1>6. hasDistances =>
        \A c \in Int : c <= distancesAge => Next(c) <= distancesAge'
  BY <1>1, BridgeNumbers
<1> HIDE DEF Next
<1>7. \A i \in 1 .. Len(inbox') : inbox'[i].stamped =>
        hasData' /\ Cap(dataAge') <= Cap(inbox'[i].age)
  BY <1>1, <1>2, <1>4, <1>5 DEF StampsInOrder
<1>8. \A i, j \in 1 .. Len(inbox') :
        i < j /\ inbox'[i].stamped /\ inbox'[j].stamped
          => Cap(inbox'[j].age) <= Cap(inbox'[i].age)
  BY <1>2, <1>4, <1>5 DEF StampsInOrder
<1>9. hasDistances' =>
        /\ hasData' /\ Cap(dataAge') <= distancesAge'
        /\ \A i \in 1 .. Len(inbox') :
             inbox'[i].stamped => Cap(inbox'[i].age) <= distancesAge'
  BY <1>1, <1>2, <1>4, <1>6 DEF StampsInOrder
<1> QED
  BY <1>3, <1>7, <1>8, <1>9 DEF StampsInOrder

\* Every step keeps the order, as long as the cloud node has not crashed.
LEMMA OrderedUntilCrashStep ==
  BridgeInv /\ OrderedUntilCrash /\ [BridgeNext]_bridgeVars
    => OrderedUntilCrash'
<1> SUFFICES ASSUME BridgeInv, OrderedUntilCrash, [BridgeNext]_bridgeVars,
                    crashes'.cloud = 0
             PROVE  up' /\ StampsInOrder'
  BY DEF OrderedUntilCrash
<1>0. /\ BridgeTypeOK
      /\ crashes \in [cloud: 0 .. MaxCrashes, sender: 0 .. MaxCrashes]
  BY DEF BridgeInv, BridgeTypeOK
<1>1. CASE CrashCloud
  <2>1. crashes'.cloud = crashes.cloud + 1 /\ crashes.cloud \in Nat
    BY <1>0, <1>1, BridgeAssumption DEF CrashCloud
  <2> QED
    BY <2>1
<1>2. CASE ~CrashCloud
  <2>1. crashes'.cloud = crashes.cloud
    BY <1>0, <1>2
       DEF BridgeNext, CloudArrives, CloudRuns, PublishSectors, ReceiveSectors,
           SendOrReport, RestartCloud, RestartSender, BridgeTick, processVars,
           bridgeVars
  <2>2. up /\ StampsInOrder
    BY <2>1 DEF OrderedUntilCrash
  <2>3. CASE CloudArrives
    BY <1>0, <2>2, <2>3, CloudKeepsOrder DEF CloudArrives, CloudRuns, processVars
  <2>4. CASE PublishSectors
    BY <1>0, <2>2, <2>4, PublishKeepsOrder DEF PublishSectors, processVars
  <2>5. CASE ReceiveSectors
    BY <1>0, <2>2, <2>5, ReceiveKeepsOrder DEF ReceiveSectors, processVars
  <2>6. CASE SendOrReport
    <3>1. UNCHANGED <<up, cloudVars, inbox, inputVars>>
      BY <2>6 DEF SendOrReport, TransmitDistances, HoldBack,
                  PublishDiagnostics, processVars, topicVars
    <3> QED
      BY <2>2, <3>1 DEF cloudVars, stampVars, nodeVars, inputVars, StampsInOrder
  <2>7. CASE RestartCloud
    BY <2>2, <2>7 DEF RestartCloud
  <2>8. CASE RestartSender
    <3>1. /\ UNCHANGED <<up, cloudVars>>
          /\ hasDistances' = FALSE /\ Len(inbox') = 0
      BY <2>8 DEF RestartSender
    <3> QED
      BY <2>2, <3>1 DEF cloudVars, stampVars, nodeVars, StampsInOrder
  <2>9. CASE BridgeTick
    BY <1>0, <2>2, <2>9, TickKeepsOrder DEF BridgeTick
  <2>10. CASE UNCHANGED bridgeVars
    BY <2>2, <2>10
       DEF bridgeVars, processVars, topicVars, cloudVars, stampVars, nodeVars,
           senderVars, inputVars, StampsInOrder
  <2> QED
    BY <1>2, <2>3, <2>4, <2>5, <2>6, <2>7, <2>8, <2>9, <2>10 DEF BridgeNext
<1> QED
  BY <1>1, <1>2

\* The stored distances are never replaced by older ones while the cloud node
\* does not crash, for every depth of the topic, every delay of its messages
\* and any number of sender restarts (source_timestamp.cpp:34-40;
\* mavlink_obstacle_sender.py:480-506).
THEOREM DataOnlyGetsNewer == BridgeSpec => DataNeverGoesBack
<1>1. BridgeInit => OrderedUntilCrash
  BY DEF BridgeInit, CloudInit, SenderInit, OrderedUntilCrash, StampsInOrder
<1>2. BridgeInv /\ OrderedUntilCrash /\ [BridgeNext]_bridgeVars =>
        [ReceiveSectors /\ hasDistances /\ crashes.cloud = 0 =>
           distancesAge' <= distancesAge]_bridgeVars
  BY ReceiveKeepsOrder DEF BridgeInv, OrderedUntilCrash
<1> QED
  BY <1>1, <1>2, OrderedUntilCrashStep, BridgeInvHolds, PTL
     DEF BridgeSpec, DataNeverGoesBack

-----------------------------------------------------------------------------
(* The gates across crashes.                                               *)

LEMMA CloudRestartBacks == CloudInit' => CloudsBackRecovery'
BY CloudsBackRecoveryInit, PTL

LEMMA CloudSideBacks ==
  BridgeInv /\ CloudsBackRecovery /\ [BridgeNext]_bridgeVars
    => CloudsBackRecovery'
BY CloudSideStep, CloudsBackRecoveryStep, CloudRestartBacks
   DEF BridgeInv, BridgeTypeOK

\* A crash is a fault of the gate: the new process starts shut.
LEMMA CloudSideRefines ==
  BridgeInv /\ CloudsBackRecovery /\ [BridgeNext]_bridgeVars
    => [CloudGate!GateNext]_(CloudGate!gateVars)
<1> SUFFICES ASSUME BridgeInv, CloudsBackRecovery, [BridgeNext]_bridgeVars
             PROVE  [CloudGate!GateNext]_(CloudGate!gateVars)
  OBVIOUS
<1>1. CASE [CloudNext]_cloudVars
  BY <1>1, CloudStepRefines DEF BridgeInv, BridgeTypeOK
<1>2. CASE CloudInit'
  <2>1. clouds' = 0 /\ latched' = TRUE
    BY <1>2 DEF CloudInit, WatchdogInit
  <2>2. CloudGate!GateStep(TRUE, FALSE)
    BY <2>1 DEF CloudGate!GateStep
  <2> QED
    BY <2>2 DEF CloudGate!GateNext
<1> QED
  BY <1>1, <1>2, CloudSideStep

\* The gate of the cloud node outlives its process: whatever crashes, is lost
\* or is delayed, the latch opens only on the full number of clouds that
\* arrived after the last fault or restart (watchdog.cpp:100-119;
\* cloud_processor_node.cpp:300-365).
THEOREM CloudGateOutlivesCrashes == BridgeSpec => ReleaseNeedsClouds
<1>1. BridgeInit => CloudsBackRecovery /\ CloudGate!GateInit
  BY CloudsBackRecoveryInit, CloudInitRefines DEF BridgeInit
<1> QED
  BY <1>1, CloudSideBacks, CloudSideRefines, BridgeInvHolds, PTL
     DEF BridgeSpec, ReleaseNeedsClouds, CloudGate!GateSpec

LEMMA GuardRestartBacks == GuardInit' => FramesBackRelease'
BY FramesBackReleaseInit, PTL

LEMMA SenderSideBacks ==
  BridgeInv /\ FramesBackRelease /\ [BridgeNext]_bridgeVars
    => FramesBackRelease'
<1> SUFFICES ASSUME BridgeInv, FramesBackRelease, [BridgeNext]_bridgeVars
             PROVE  FramesBackRelease'
  OBVIOUS
<1>1. SenderTypeOK /\ GuardTypeOK /\ inbox \in Seq(Messages)
  BY DEF BridgeInv, BridgeTypeOK, SenderTypeOK
<1>2. CASE [SenderNext]_senderVars
  BY <1>1, <1>2, SenderStepsGuard, FramesBackReleaseStep
<1>3. CASE SenderReborn
  BY <1>3, GuardRestartBacks DEF SenderReborn
<1> QED
  BY <1>1, <1>2, <1>3, SenderSideStep

\* The same of the sender.
LEMMA SenderSideRefines ==
  BridgeInv /\ FramesBackRelease /\ [BridgeNext]_bridgeVars
    => [StaleGate!GateNext]_(StaleGate!gateVars)
<1> SUFFICES ASSUME BridgeInv, FramesBackRelease, [BridgeNext]_bridgeVars
             PROVE  [StaleGate!GateNext]_(StaleGate!gateVars)
  OBVIOUS
<1>1. SenderTypeOK /\ GuardTypeOK /\ inbox \in Seq(Messages)
  BY DEF BridgeInv, BridgeTypeOK, SenderTypeOK
<1>2. CASE [SenderNext]_senderVars
  BY <1>1, <1>2, SenderStepsGuard, GuardStepRefines
<1>3. CASE SenderReborn
  <2>1. newFrames' = 0 /\ guardLatched' = TRUE
    BY <1>3 DEF SenderReborn, GuardInit
  <2>2. StaleGate!GateStep(TRUE, FALSE)
    BY <2>1 DEF StaleGate!GateStep
  <2> QED
    BY <2>2 DEF StaleGate!GateNext
<1> QED
  BY <1>1, <1>2, <1>3, SenderSideStep

\* The gate of the sender outlives its process too
\* (mavlink_obstacle_sender.py:106-120, 129-150).
THEOREM SenderGateOutlivesCrashes == BridgeSpec => GuardReleasesOnNewFrames
<1>1. BridgeInit => FramesBackRelease /\ StaleGate!GateInit
  BY GuardInitRefines, FramesBackReleaseInit DEF BridgeInit, SenderInit
<1> QED
  BY <1>1, SenderSideBacks, SenderSideRefines, BridgeInvHolds, PTL
     DEF BridgeSpec, GuardReleasesOnNewFrames, StaleGate!GateSpec

LEMMA CloudRestartNames == CloudInit' => SequenceNamesData'
BY SequenceNamesDataInit, PTL

\* The published source sequence names its data through restarts as well:
\* with no transform failure pending the distances are those of the latest
\* accepted stamp of the running process (cloud_processor_node.cpp:321-339).
THEOREM BridgeSequenceNamesData == BridgeSpec => []SequenceNamesData
<1>1. BridgeInit => SequenceNamesData
  BY SequenceNamesDataInit DEF BridgeInit
<1>2. BridgeInv /\ SequenceNamesData /\ [BridgeNext]_bridgeVars
        => SequenceNamesData'
  BY CloudSideStep, SequenceNamesDataStep, CloudRestartNames
     DEF BridgeInv, BridgeTypeOK
<1> QED
  BY <1>1, <1>2, BridgeInvHolds, PTL DEF BridgeSpec

-----------------------------------------------------------------------------
(* Who degrades first.                                                     *)

\* The sender's thresholds are later than the cloud node's: its fail
\* threshold bears a publication more, and systemd waits longer than the
\* sender before it restarts a cloud node.
SenderIsLater ==
  /\ Prompt
  /\ RestartDelay > InputFailTimeout
  /\ CloudFailTimeout + PublishPeriod <= InputFailTimeout

\* As long as no cloud interrupts the supply, what the cloud node would
\* publish is the data of the cloud it times, not older than the sender bears,
\* and the sender's last progress, if it is that data's, is no older than the
\* cloud.
SupplyIsCurrent ==
  up /\ supply # "interrupted" =>
    (hasCloud /\ sourceStatus = "OK" /\ cloudAge <= CloudFailTimeout =>
       /\ hasData
       /\ dataAge + CloudFailTimeout <= MaxSourceAge + cloudAge
       /\ hasProgress /\ ~Silent /\ lastSequence = sequence
            => progressAge <= cloudAge)

\* Sequences only grow on their way to the sender.
SequencesGrow ==
  /\ \A i \in 1 .. Len(inbox) : inbox[i].sequence <= sequence
  /\ \A i, j \in 1 .. Len(inbox) :
       i < j => inbox[i].sequence <= inbox[j].sequence
  /\ hasProgress /\ ~Silent =>
       /\ lastSequence <= sequence
       /\ \A i \in 1 .. Len(inbox) : lastSequence <= inbox[i].sequence

\* A healthy message will be taken, and in time.
IsInTime(msg) ==
  ~msg.hard =>
    /\ msg.stamped
    /\ msg.age <= MaxSourceAge
    /\ hasProgress /\ ~Silent /\ msg.sequence = lastSequence
         => progressAge <= CloudFailTimeout

HealthyIsInTime ==
  supply = "steady" => \A i \in 1 .. Len(inbox) : IsInTime(inbox[i])

\* Without a cause no message tells of trouble, nor will the next one unless
\* the verdict changes.
NoTroubleWithoutCause ==
  ~cause => /\ up /\ ~IsDegraded(lastStatus)
            /\ \A i \in 1 .. Len(inbox) : ~inbox[i].hard

\* If besides the supply is steady, the guard is open and hears of progress
\* soon.
OpenWithoutCause ==
  ~cause /\ supply = "steady" =>
    /\ hasProgress /\ ~guardLatched
    /\ progressAge <= CloudFailTimeout
                        + (IF inbox = <<>> THEN sincePublish
                           ELSE PublishPeriod)

SupplyInv ==
  /\ SupplyIsCurrent
  /\ SequencesGrow
  /\ HealthyIsInTime
  /\ NoTroubleWithoutCause
  /\ OpenWithoutCause

LEMMA SupplyNumbers ==
  ASSUME BridgeTypeOK
  PROVE  /\ CloudFailTimeout \in Nat /\ PublishPeriod \in Nat
         /\ InputFailTimeout \in Nat /\ MaxSourceAge \in Nat
         /\ sincePublish \in Nat /\ sincePublish <= PublishPeriod
         /\ sequence \in Nat /\ lastSequence \in Nat /\ progressAge \in Nat
         /\ dataAge \in Int /\ cloudAge \in 0 .. CloudFailTimeout + 1
         /\ ArrivalAges \subseteq StampAges /\ StampAges \subseteq Int
         /\ Live /\ FailClosed
         /\ CloudTypeOK /\ SenderTypeOK
<1>1. /\ CloudFailTimeout \in Nat /\ PublishPeriod \in Nat
      /\ InputFailTimeout \in Nat /\ MaxSourceAge \in Nat /\ MaxSequence \in Nat
  BY CloudNumbers, BridgeAssumption, SenderAssumption, StaleGuardAssumption
<1>2. ArrivalAges \subseteq StampAges /\ StampAges \subseteq Int
  BY BridgeAssumption, CloudNumbers DEF StampAges
<1>3. CloudTypeOK /\ SenderTypeOK /\ progressAge \in Nat
  BY <1>1 DEF BridgeTypeOK, SenderTypeOK, GuardTypeOK
<1>4. /\ sincePublish \in Nat /\ sincePublish <= PublishPeriod
      /\ sequence \in Nat /\ lastSequence \in Nat
  BY <1>1 DEF BridgeTypeOK
<1>5. dataAge \in Int /\ cloudAge \in 0 .. CloudFailTimeout + 1
  BY <1>3, CloudTypes
<1> QED
  BY <1>1, <1>2, <1>3, <1>4, <1>5, BridgeAssumption

-----------------------------------------------------------------------------

\* What a cloud leaves alone, and how many sequences it brings.
LEMMA CloudLeaves ==
  ASSUME CloudArrives
  PROVE  /\ up /\ up' /\ lastStatus' = lastStatus
         /\ UNCHANGED <<guardLatched, hasProgress, progressAge, lastSequence,
                        inbox, cause, sincePublish>>
         /\ Silent' = Silent
         /\ sequence' = sequence \/ sequence' = sequence + 1
BY DEF CloudArrives, CloudRuns, RefuseCloud, RepeatCloud, LoseTransform,
       BringData, AdvanceSequence, RejectCloud, RefuseStamp, PassOverStamp,
       FailTransform, ProcessCloud, AcceptCloud, senderVars, guardVars,
       processVars, receiverVars, Silent

\* The ways the history tells apart are those of the bridge.
LEMMA SupplyCloudArrives ==
  InterruptSupply \/ ResumeSupply \/ RefuseSupply => CloudArrives
<1>1. CASE InterruptSupply
  BY <1>1 DEF InterruptSupply, CloudArrives, BringData
<1>2. CASE ResumeSupply
  BY <1>2 DEF ResumeSupply, CloudArrives, BringData
<1>3. CASE RefuseSupply
  BY <1>3 DEF RefuseSupply, CloudArrives
<1> QED
  BY <1>1, <1>2, <1>3

LEMMA SupplyStepIsBridgeStep ==
  /\ SupplyNext => BridgeNext
  /\ UNCHANGED supplyVars => UNCHANGED bridgeVars
BY SupplyCloudArrives
   DEF SupplyNext, BridgeNext, ReceiveSupply, KeepSupply, supplyVars

\* A cloud with lasting data is what the cloud node times from now on, and
\* its sequence is new to the sender.
LEMMA ResumedIsCurrent ==
  ASSUME BridgeTypeOK, SequencesGrow, ResumeSupply
  PROVE  SupplyIsCurrent'
<1>1. PICK age \in ArrivalAges \cap LastingAges :
        ProcessCloud(age, FALSE, FALSE)
  BY DEF ResumeSupply, BringData
<1>2. cloudAge' = 0 /\ hasData' = TRUE /\ dataAge' = age
  BY <1>1 DEF ProcessCloud, AcceptCloud, MarkCloud
<1>3. age \in Int /\ age + CloudFailTimeout <= MaxSourceAge
  BY SupplyNumbers DEF LastingAges
<1>4. sequence' = sequence + 1 /\ sequence \in Nat /\ lastSequence \in Nat
      /\ MaxSourceAge \in Nat
  BY SupplyNumbers DEF ResumeSupply, BringData, AdvanceSequence
<1>5. UNCHANGED <<hasProgress, progressAge, lastSequence>> /\ Silent' = Silent
  BY SupplyCloudArrives, CloudLeaves
<1>6. ~(hasProgress /\ ~Silent /\ lastSequence = sequence')
  BY <1>4 DEF SequencesGrow
<1> QED
  BY <1>2, <1>3, <1>4, <1>5, <1>6 DEF SupplyIsCurrent

LEMMA CloudKeepsSupply ==
  ASSUME BridgeTypeOK, SupplyInv,
         InterruptSupply \/ ResumeSupply \/ RefuseSupply
  PROVE  SupplyInv'
<1>1. CloudArrives
  BY SupplyCloudArrives
<1>2. \/ supply' = supply \/ supply' = "interrupted"
      \/ supply = "interrupted" /\ supply' = "resumed"
  BY DEF InterruptSupply, ResumeSupply, RefuseSupply
<1>3. SupplyIsCurrent'
  <2>1. CASE InterruptSupply
    BY <2>1 DEF InterruptSupply, SupplyIsCurrent
  <2>2. CASE ResumeSupply
    BY <2>2, ResumedIsCurrent DEF SupplyInv
  <2>3. CASE RefuseSupply
    <3>1. \E age \in StampAges : RefuseStamp(FALSE, age) \/ RejectCloud
      <4>1. 0 \in StampAges
        BY CloudNumbers DEF StampAges
      <4> QED
        BY <2>3, <4>1 DEF RefuseSupply, RefuseCloud
    <3>2. sourceStatus' # "OK"
      BY <3>1, SupplyNumbers, CloudIsRefused
    <3> QED
      BY <3>2 DEF SupplyIsCurrent
  <2> QED
    BY <2>1, <2>2, <2>3
<1>4. SequencesGrow'
  <2>1. /\ sequence \in Nat /\ lastSequence \in Nat
        /\ \A i \in 1 .. Len(inbox) : inbox[i].sequence \in Nat
    BY SupplyNumbers, BridgeNumbers
  <2> QED
    BY <1>1, <2>1, CloudLeaves DEF SequencesGrow, SupplyInv
<1>5. HealthyIsInTime'
  BY <1>1, <1>2, CloudLeaves DEF HealthyIsInTime, IsInTime, SupplyInv
<1>6. NoTroubleWithoutCause' /\ OpenWithoutCause'
  BY <1>1, <1>2, CloudLeaves
     DEF NoTroubleWithoutCause, OpenWithoutCause, IsDegraded, SupplyInv
<1> QED
  BY <1>3, <1>4, <1>5, <1>6 DEF SupplyInv

-----------------------------------------------------------------------------

\* What a publication leaves alone.
LEMMA PublishLeaves ==
  ASSUME PublishSectors
  PROVE  /\ up /\ up'
         /\ UNCHANGED <<guardLatched, hasProgress, progressAge, lastSequence,
                        sequence, hasCloud, cloudAge, sourceStatus, hasData,
                        dataAge>>
         /\ Silent' = Silent
         /\ sincePublish' = 0
         /\ inbox' = Keep(inbox, Message(lastStatus'))
         /\ cause' = (cause \/ IsDegraded(lastStatus'))
         /\ ~IsDegraded(lastStatus') => ~IsDegraded(RawStatus)
BY DEF PublishSectors, OnPublishTimer, Evaluate, EvaluateFault, EvaluateOpen,
       EvaluateRecovery, stampVars, nodeVars, senderVars, guardVars,
       processVars, receiverVars, Silent

\* A message that is not degraded, of a steady supply, is in time.
LEMMA PublishedIsInTime ==
  ASSUME BridgeInv, SupplyInv, supply = "steady", PublishSectors
  PROVE  IsInTime(Message(lastStatus'))
<1> DEFINE m == Message(lastStatus')
<1>0. BridgeTypeOK
  BY DEF BridgeInv
<1>1. /\ m.hard = IsDegraded(lastStatus')
      /\ m.sequence = sequence /\ m.age = dataAge /\ m.stamped = hasData
  BY DEF Message, SectorDistances
<1> SUFFICES ASSUME ~IsDegraded(lastStatus') PROVE IsInTime(m)
  BY <1>1 DEF IsInTime
<1>2. up /\ ~IsDegraded(RawStatus)
  BY PublishLeaves
<1>3. hasCloud /\ sourceStatus = "OK" /\ cloudAge <= CloudFailTimeout
  BY <1>0, <1>2, SupplyNumbers, HealthyVerdict
<1>4. /\ hasData
      /\ dataAge + CloudFailTimeout <= MaxSourceAge + cloudAge
      /\ hasProgress /\ ~Silent /\ lastSequence = sequence
           => progressAge <= cloudAge
  BY <1>2, <1>3 DEF SupplyInv, SupplyIsCurrent
<1>5. /\ dataAge \in Int /\ cloudAge \in Nat /\ CloudFailTimeout \in Nat
      /\ MaxSourceAge \in Nat /\ progressAge \in Nat
  BY <1>0, SupplyNumbers
<1>6. dataAge <= MaxSourceAge
  BY <1>3, <1>4, <1>5
<1>7. hasProgress /\ ~Silent /\ lastSequence = sequence
        => progressAge <= CloudFailTimeout
  BY <1>3, <1>4, <1>5
<1> HIDE DEF m
<1> QED
  BY <1>1, <1>4, <1>6, <1>7 DEF IsInTime

LEMMA PublishKeepsSupply ==
  ASSUME SenderIsLater, BridgeInv, SupplyInv, PublishSectors,
         UNCHANGED supply
  PROVE  SupplyInv'
<1> DEFINE m == Message(lastStatus')
<1>0. BridgeTypeOK /\ inbox \in Seq(Messages) /\ Len(inbox) <= InboxDepth
  BY BridgeNumbers DEF BridgeInv
<1>1. /\ m \in Messages /\ m.hard = IsDegraded(lastStatus')
      /\ m.sequence = sequence
  <2>1. m \in Messages /\ m.hard = IsDegraded(lastStatus')
    BY <1>0, PublishedMessage DEF BridgeTypeOK
  <2>2. m.sequence = sequence
    BY DEF Message
  <2> QED
    BY <2>1, <2>2
<1>2. supply = "steady" => IsInTime(m)
  BY PublishedIsInTime
<1>3. /\ inbox' = Keep(inbox, m) /\ UNCHANGED <<lastSequence, sequence>>
      /\ hasProgress' = hasProgress /\ Silent' = Silent
      /\ progressAge' = progressAge
  BY PublishLeaves
<1> HIDE DEF m
<1>4. PICK dropped \in {0, 1} :
        \A i \in 1 .. Len(inbox') :
          \/ i = Len(inbox') /\ inbox'[i] = m
          \/ i < Len(inbox') /\ i + dropped \in 1 .. Len(inbox)
               /\ inbox'[i] = inbox[i + dropped]
  BY <1>0, <1>1, <1>3, KeepIsSuffix
<1>5. Len(inbox') \in Nat /\ Len(inbox) \in Nat /\ inbox' # <<>>
  BY <1>0, <1>1, <1>3, KeepIsSuffix, KeepKeepsLast
<1>6. SequencesGrow'
  <2>1. /\ sequence \in Nat
        /\ \A i \in 1 .. Len(inbox) : inbox[i].sequence <= sequence
    BY <1>0, SupplyNumbers DEF SupplyInv, SequencesGrow
  <2>2. \A i \in 1 .. Len(inbox') : inbox'[i].sequence <= sequence
    BY <1>1, <1>4, <2>1
  <2>3. \A i, j \in 1 .. Len(inbox') :
          i < j => inbox'[i].sequence <= inbox'[j].sequence
    <3> SUFFICES ASSUME NEW i \in 1 .. Len(inbox'),
                        NEW j \in 1 .. Len(inbox'), i < j
                 PROVE  inbox'[i].sequence <= inbox'[j].sequence
      OBVIOUS
    <3>1. CASE j = Len(inbox') /\ inbox'[j] = m
      BY <1>1, <2>2, <3>1
    <3>2. CASE j < Len(inbox') /\ j + dropped \in 1 .. Len(inbox)
               /\ inbox'[j] = inbox[j + dropped]
      <4>1. i + dropped \in 1 .. Len(inbox) /\ inbox'[i] = inbox[i + dropped]
            /\ i + dropped < j + dropped
        BY <1>4, <1>5, <3>2
      <4> QED
        BY <3>2, <4>1 DEF SequencesGrow, SupplyInv
    <3> QED
      BY <1>4, <3>1, <3>2
  <2>4. hasProgress /\ ~Silent =>
          /\ lastSequence <= sequence
          /\ \A i \in 1 .. Len(inbox') : lastSequence <= inbox'[i].sequence
    BY <1>1, <1>4 DEF SequencesGrow, SupplyInv
  <2> QED
    BY <1>3, <2>2, <2>3, <2>4 DEF SequencesGrow
<1>7. HealthyIsInTime'
  <2>1. supply = "steady" =>
          \A i \in 1 .. Len(inbox') : IsInTime(inbox'[i])
    BY <1>2, <1>4 DEF SupplyInv, HealthyIsInTime
  <2> QED
    BY <1>3, <2>1 DEF HealthyIsInTime, IsInTime
<1>8. NoTroubleWithoutCause'
  <2> SUFFICES ASSUME ~cause' PROVE NoTroubleWithoutCause'
    BY DEF NoTroubleWithoutCause
  <2>1. ~cause /\ ~IsDegraded(lastStatus') /\ up'
    BY PublishLeaves
  <2>2. \A i \in 1 .. Len(inbox) : ~inbox[i].hard
    BY <2>1 DEF SupplyInv, NoTroubleWithoutCause
  <2>3. \A i \in 1 .. Len(inbox') : ~inbox'[i].hard
    BY <1>1, <1>4, <2>1, <2>2
  <2> QED
    BY <2>1, <2>3 DEF NoTroubleWithoutCause, IsDegraded
<1>9. OpenWithoutCause'
  <2> SUFFICES ASSUME ~cause', supply = "steady" PROVE OpenWithoutCause'
    BY DEF OpenWithoutCause
  <2>1. ~cause
    BY PublishLeaves
  <2>2. /\ hasProgress /\ ~guardLatched
        /\ progressAge <= CloudFailTimeout
                            + (IF inbox = <<>> THEN sincePublish
                               ELSE PublishPeriod)
    BY <2>1 DEF SupplyInv, OpenWithoutCause
  <2>3. progressAge <= CloudFailTimeout + PublishPeriod
    BY <1>0, <2>2, SupplyNumbers
  <2>4. guardLatched' = guardLatched
    BY PublishLeaves
  <2> QED
    BY <1>3, <1>5, <2>2, <2>3, <2>4 DEF OpenWithoutCause
<1>10. SupplyIsCurrent'
  BY PublishLeaves DEF SupplyIsCurrent, SupplyInv
<1> QED
  BY <1>6, <1>7, <1>8, <1>9, <1>10 DEF SupplyInv

-----------------------------------------------------------------------------

\* With a steady supply and without a cause the guard is not silent.
LEMMA HeardInTime ==
  ASSUME SenderIsLater, BridgeTypeOK, SupplyInv, ~cause, supply = "steady"
  PROVE  ~Silent
<1>1. progressAge <= CloudFailTimeout
                       + (IF inbox = <<>> THEN sincePublish
                          ELSE PublishPeriod)
  BY DEF SupplyInv, OpenWithoutCause
<1>2. progressAge <= CloudFailTimeout + PublishPeriod
  BY <1>1, SupplyNumbers
<1> QED
  BY <1>2, SupplyNumbers DEF Silent, SenderIsLater

\* What the sender leaves alone, and what the first message is.
LEMMA ReceiveLeaves ==
  ASSUME BridgeTypeOK, ReceiveSectors
  PROVE  /\ UNCHANGED <<up, lastStatus, sequence, hasCloud, cloudAge,
                        sourceStatus, hasData, dataAge, sincePublish>>
         /\ inbox[1] \in Messages /\ 1 \in 1 .. Len(inbox)
         /\ Refuse(inbox[1]) \/ Take(inbox[1])
         /\ Len(inbox) \in Nat /\ Len(inbox') = Len(inbox) - 1
         /\ \A i \in 1 .. Len(inbox') :
              /\ i + 1 \in 1 .. Len(inbox) /\ 1 < i + 1
              /\ inbox'[i] = inbox[i + 1]
<1>1. /\ inbox \in Seq(Messages) /\ inbox # <<>> /\ inbox' = Tail(inbox)
      /\ Refuse(Head(inbox)) \/ Take(Head(inbox))
  BY BridgeNumbers DEF ReceiveSectors
<1>2. /\ Len(inbox) \in Nat \ {0} /\ Len(inbox') = Len(inbox) - 1
      /\ \A i \in 1 .. Len(inbox) - 1 : inbox'[i] = inbox[i + 1]
      /\ Head(inbox) = inbox[1] /\ Head(inbox) \in Messages
  BY <1>1, HeadIsMessage
<1>3. \A i \in 1 .. Len(inbox') :
        /\ i + 1 \in 1 .. Len(inbox) /\ 1 < i + 1
        /\ inbox'[i] = inbox[i + 1]
  BY <1>2
<1>4. UNCHANGED <<cloudVars, up, sequence, sincePublish>>
  BY DEF ReceiveSectors, processVars
<1>5. UNCHANGED <<lastStatus, hasCloud, cloudAge, sourceStatus, hasData,
                  dataAge>>
  BY <1>4 DEF cloudVars, watchdogVars, nodeVars
<1> QED
  BY <1>1, <1>2, <1>3, <1>4, <1>5

\* What a message does to the guard's view of progress.
LEMMA GuardHears ==
  ASSUME BridgeTypeOK, ReceiveSectors
  PROVE  \/ /\ Refuse(inbox[1]) /\ guardLatched'
            /\ UNCHANGED <<hasProgress, progressAge, lastSequence>>
            /\ Silent' = Silent
         \/ /\ Take(inbox[1]) /\ hasProgress' = TRUE /\ progressAge' = 0
            /\ lastSequence' = inbox[1].sequence /\ ~Silent'
            /\ guardLatched \/ Silent \/ ~guardLatched'
         \/ /\ Take(inbox[1]) /\ hasProgress /\ hasProgress' = TRUE
            /\ UNCHANGED <<progressAge, lastSequence>>
            /\ inbox[1].sequence = lastSequence /\ Silent' = Silent
            /\ guardLatched' = (guardLatched \/ Silent)
<1>1. /\ Refuse(inbox[1]) \/ Take(inbox[1])
      /\ hasProgress \in BOOLEAN /\ InputFailTimeout \in Nat
      /\ inbox[1].sequence \in Nat /\ lastSequence \in Nat
  <2>1. hasProgress \in BOOLEAN
    BY DEF BridgeTypeOK, SenderTypeOK, GuardTypeOK
  <2> QED
    BY <2>1, ReceiveLeaves, SupplyNumbers, BridgeNumbers
<1>2. CASE Refuse(inbox[1])
  BY <1>2 DEF Refuse, RefuseSector, MarkFault, receiverVars, Silent
<1>3. CASE Take(inbox[1])
  <2> DEFINE order == Order(inbox[1])
  <2>1. /\ MarkHealthyFrame(order = "advances")
        /\ ~(hasProgress /\ order = "backward")
        /\ lastSequence' = IF hasProgress /\ order = "same" THEN lastSequence
                           ELSE inbox[1].sequence
    BY <1>3 DEF Take, TakeSector
  <2>2. /\ order \in {"backward", "same", "advances"}
        /\ order = "same" => inbox[1].sequence = lastSequence
    BY <1>1 DEF Order
  <2> HIDE DEF order
  <2>3. CASE ~hasProgress \/ order = "advances"
    <3>1. hasProgress' = TRUE /\ progressAge' = 0
      BY <2>1, <2>3 DEF MarkHealthyFrame
    <3>2. lastSequence' = inbox[1].sequence
      BY <2>1, <2>3
    <3>3. guardLatched \/ Silent \/ ~guardLatched'
      BY <2>1, Zenon DEF MarkHealthyFrame, ShutOnArrival
    <3>4. ~Silent'
      BY <1>1, <3>1 DEF Silent
    <3> QED
      BY <1>3, <3>1, <3>2, <3>3, <3>4
  <2>4. CASE hasProgress /\ order = "same"
    <3>1. hasProgress' = TRUE /\ progressAge' = progressAge
      BY <2>1, <2>4 DEF MarkHealthyFrame
    <3>2. lastSequence' = lastSequence /\ inbox[1].sequence = lastSequence
      BY <2>1, <2>2, <2>4
    <3>3. guardLatched' = (guardLatched \/ Silent)
      BY <2>1, <2>4 DEF MarkHealthyFrame, ShutOnArrival
    <3>4. Silent' = Silent
      BY <2>4, <3>1 DEF Silent
    <3> QED
      BY <1>3, <2>4, <3>1, <3>2, <3>3, <3>4
  <2> QED
    BY <1>1, <2>1, <2>2, <2>3, <2>4
<1> QED
  BY <1>1, <1>2, <1>3

\* With a steady supply and without a cause no message is refused.
LEMMA NothingIsRefused ==
  ASSUME SenderIsLater, BridgeTypeOK, SupplyInv, ~cause, supply = "steady",
         ReceiveSectors
  PROVE  ~Refuse(inbox[1])
<1> DEFINE m == inbox[1]
<1>1. 1 \in 1 .. Len(inbox) /\ m \in Messages
  BY ReceiveLeaves
<1>2. hasProgress /\ ~Silent /\ ~m.hard
  BY <1>1, HeardInTime DEF SupplyInv, NoTroubleWithoutCause, OpenWithoutCause
<1>3. m.stamped /\ m.age <= MaxSourceAge
  BY <1>1, <1>2 DEF SupplyInv, HealthyIsInTime, IsInTime
<1>4. lastSequence <= m.sequence
  BY <1>1, <1>2 DEF SupplyInv, SequencesGrow
<1>5. /\ m.age \in Int /\ m.sequence \in Nat /\ lastSequence \in Nat
      /\ MaxSourceAge \in Nat
  BY <1>1, BridgeNumbers, SupplyNumbers
<1> HIDE DEF m
<1>6. Order(m) # "backward"
  BY <1>4, <1>5 DEF Order
<1>7. ~(AgeOnArrival(m) > MaxSourceAge)
  BY <1>3, <1>5 DEF AgeOnArrival
<1>8. InContract(m)
  BY <1>3 DEF InContract
<1>9. ~Refuse(m)
  BY <1>2, <1>6, <1>7, <1>8 DEF Refuse, RefuseSector
<1> QED
  BY <1>9 DEF m

\* The history after a message.
LEMMA SupplyHears ==
  ASSUME ReceiveSupply
  PROVE  /\ ReceiveSectors
         /\ \/ supply' = supply
            \/ /\ supply = "resumed" /\ supply' = "steady"
               /\ ~guardLatched' /\ hasProgress' /\ progressAge' = 0
               /\ inbox' = <<>>
BY DEF ReceiveSupply, CaughtUp

\* A message that lifts the last cause, or leaves none, is taken by a guard
\* that is open after it.
LEMMA ReceiveOpens ==
  ASSUME SenderIsLater, BridgeTypeOK, SupplyInv, supply = "steady",
         ReceiveSectors, ~cause'
  PROVE  ~guardLatched' /\ Take(inbox[1])
<1>1. CASE cause
  <2>1. ~guardLatched'
    BY <1>1 DEF ReceiveSectors
  <2> QED
    BY <2>1, GuardHears
<1>2. CASE ~cause
  <2>1. ~guardLatched /\ ~Silent
    BY <1>2, HeardInTime DEF SupplyInv, OpenWithoutCause
  <2>2. Take(inbox[1]) /\ ~Refuse(inbox[1])
    BY <1>2, NothingIsRefused, ReceiveLeaves
  <2>3. ~guardLatched'
    BY <2>1, <2>2, GuardHears
  <2> QED
    BY <2>2, <2>3
<1> QED
  BY <1>1, <1>2

\* A message of the current sequence does not make the last progress older.
LEMMA ReceiveKeepsCurrent ==
  ASSUME BridgeTypeOK, SupplyIsCurrent, ReceiveSupply
  PROVE  SupplyIsCurrent'
<1> SUFFICES ASSUME up, supply # "interrupted",
                    hasCloud, sourceStatus = "OK",
                    cloudAge <= CloudFailTimeout
             PROVE  /\ hasData
                    /\ dataAge + CloudFailTimeout <= MaxSourceAge + cloudAge
                    /\ hasProgress' /\ ~Silent' /\ lastSequence' = sequence
                         => progressAge' <= cloudAge
  BY SupplyHears, ReceiveLeaves DEF SupplyIsCurrent
<1>1. /\ hasData
      /\ dataAge + CloudFailTimeout <= MaxSourceAge + cloudAge
      /\ hasProgress /\ ~Silent /\ lastSequence = sequence
           => progressAge <= cloudAge
  BY DEF SupplyIsCurrent
<1>2. cloudAge >= 0
  BY SupplyNumbers
<1>3. CASE progressAge' = 0
  BY <1>1, <1>2, <1>3
<1>4. CASE UNCHANGED <<hasProgress, progressAge, lastSequence>>
           /\ Silent' = Silent
  BY <1>1, <1>4
<1>5. CASE hasProgress /\ UNCHANGED <<progressAge, lastSequence>>
           /\ Silent' = Silent
  BY <1>1, <1>5
<1> QED
  BY <1>3, <1>4, <1>5, SupplyHears, GuardHears

LEMMA ReceiveKeepsSupply ==
  ASSUME SenderIsLater, BridgeInv, SupplyInv, ReceiveSupply
  PROVE  SupplyInv'
<1>0. BridgeTypeOK /\ ReceiveSectors
  BY SupplyHears DEF BridgeInv
<1>1. 1 \in 1 .. Len(inbox)
  BY <1>0, ReceiveLeaves
<1>2. \A i \in 1 .. Len(inbox') :
        /\ i + 1 \in 1 .. Len(inbox) /\ 1 < i + 1
        /\ inbox'[i] = inbox[i + 1]
  BY <1>0, ReceiveLeaves
<1>3. CloudFailTimeout \in Nat /\ progressAge \in Nat /\ sincePublish \in Nat
      /\ PublishPeriod \in Nat /\ sequence \in Nat
  BY <1>0, SupplyNumbers
<1>4. SupplyIsCurrent'
  BY <1>0, ReceiveKeepsCurrent DEF SupplyInv
<1>5. ASSUME supply' = "steady", supply # "steady"
      PROVE  HealthyIsInTime' /\ OpenWithoutCause'
  <2>1. inbox' = <<>> /\ Len(inbox') = 0 /\ ~guardLatched' /\ hasProgress'
        /\ progressAge' = 0
    BY <1>5, SupplyHears
  <2>2. sincePublish' = sincePublish
    BY <1>0, ReceiveLeaves
  <2> QED
    BY <1>3, <2>1, <2>2 DEF HealthyIsInTime, OpenWithoutCause
<1>6. SequencesGrow'
  <2>1. \A i \in 1 .. Len(inbox') : inbox'[i].sequence <= sequence'
    BY <1>0, <1>2, ReceiveLeaves DEF SupplyInv, SequencesGrow
  <2>2. \A i, j \in 1 .. Len(inbox') :
          i < j => inbox'[i].sequence <= inbox'[j].sequence
    <3>1. \A i, j \in 1 .. Len(inbox') : i < j => i + 1 < j + 1
      OBVIOUS
    <3> QED
      BY <1>2, <3>1 DEF SupplyInv, SequencesGrow
  <2>3. hasProgress' /\ ~Silent' =>
          /\ lastSequence' <= sequence'
          /\ \A i \in 1 .. Len(inbox') : lastSequence' <= inbox'[i].sequence
    <3>1. CASE UNCHANGED <<lastSequence, hasProgress>> /\ Silent' = Silent
      BY <1>0, <1>2, <3>1, ReceiveLeaves DEF SupplyInv, SequencesGrow
    <3>2. CASE lastSequence' = inbox[1].sequence
      BY <1>0, <1>1, <1>2, <3>2, ReceiveLeaves DEF SupplyInv, SequencesGrow
    <3> QED
      BY <1>0, <3>1, <3>2, GuardHears
  <2> QED
    BY <2>1, <2>2, <2>3 DEF SequencesGrow
<1>7. ASSUME supply = "steady" PROVE HealthyIsInTime'
  <2> SUFFICES ASSUME NEW i \in 1 .. Len(inbox')
               PROVE  ~inbox'[i].hard =>
                        /\ inbox'[i].stamped /\ inbox'[i].age <= MaxSourceAge
                        /\ hasProgress' /\ ~Silent'
                             /\ inbox'[i].sequence = lastSequence'
                             => progressAge' <= CloudFailTimeout
    BY DEF HealthyIsInTime, IsInTime
  <2> DEFINE msg == inbox[i + 1]
  <2>1. IsInTime(msg) /\ inbox'[i] = msg
    BY <1>2, <1>7 DEF SupplyInv, HealthyIsInTime
  <2> HIDE DEF msg
  <2>2. ~msg.hard =>
          /\ msg.stamped /\ msg.age <= MaxSourceAge
          /\ hasProgress /\ ~Silent /\ msg.sequence = lastSequence
               => progressAge <= CloudFailTimeout
    BY <2>1 DEF IsInTime
  <2>3. ~msg.hard /\ hasProgress' /\ ~Silent' /\ msg.sequence = lastSequence'
          => progressAge' <= CloudFailTimeout
    <3>1. CASE progressAge' = 0
      BY <1>3, <3>1
    <3>2. CASE /\ UNCHANGED <<hasProgress, progressAge, lastSequence>>
               /\ Silent' = Silent
      BY <2>2, <3>2
    <3>3. CASE /\ hasProgress /\ UNCHANGED <<progressAge, lastSequence>>
               /\ Silent' = Silent
      BY <2>2, <3>3
    <3> QED
      BY <1>0, <3>1, <3>2, <3>3, GuardHears
  <2> QED
    BY <2>1, <2>2, <2>3
<1>8. NoTroubleWithoutCause'
  <2> SUFFICES ASSUME ~cause' PROVE NoTroubleWithoutCause'
    BY DEF NoTroubleWithoutCause
  <2>1. /\ up /\ ~IsDegraded(lastStatus)
        /\ \A i \in 1 .. Len(inbox') : ~inbox'[i].hard
    <3>1. CASE cause
      <4>1. ~TroubleAhead(inbox')
        BY <1>0, <3>1 DEF ReceiveSectors
      <4>2. inbox' = Tail(inbox) /\ inbox \in Seq(Messages) /\ inbox # <<>>
        BY <1>0, BridgeNumbers DEF ReceiveSectors
      <4>3. DOMAIN inbox' = 1 .. Len(inbox')
        BY <4>2
      <4>4. /\ up /\ ~IsDegraded(lastStatus)
            /\ ~\E i \in DOMAIN inbox' : inbox'[i].hard
        BY <4>1 DEF TroubleAhead
      <4> QED
        BY <4>3, <4>4
    <3>2. CASE ~cause
      BY <1>2, <3>2 DEF SupplyInv, NoTroubleWithoutCause
    <3> QED
      BY <3>1, <3>2
  <2>2. UNCHANGED <<up, lastStatus>>
    BY <1>0, ReceiveLeaves
  <2> QED
    BY <2>1, <2>2 DEF NoTroubleWithoutCause, IsDegraded
<1>9. ASSUME supply = "steady" PROVE OpenWithoutCause'
  <2> SUFFICES ASSUME ~cause' PROVE OpenWithoutCause'
    BY DEF OpenWithoutCause
  <2>1. ~guardLatched' /\ Take(inbox[1])
    BY <1>0, <1>9, ReceiveOpens
  <2>2. hasProgress' /\ progressAge' <= CloudFailTimeout
    <3>1. CASE progressAge' = 0 /\ hasProgress'
      BY <1>3, <3>1
    <3>2. CASE /\ hasProgress /\ hasProgress' /\ progressAge' = progressAge
               /\ inbox[1].sequence = lastSequence
               /\ guardLatched' = (guardLatched \/ Silent)
      <4>1. ~inbox[1].hard
        BY <2>1 DEF Take
      <4>2. IsInTime(inbox[1])
        BY <1>1, <1>9 DEF SupplyInv, HealthyIsInTime
      <4> QED
        BY <2>1, <3>2, <4>1, <4>2 DEF IsInTime
    <3>3. ~(Refuse(inbox[1]) /\ guardLatched')
      BY <2>1
    <3> QED
      BY <1>0, <3>1, <3>2, <3>3, GuardHears
  <2>3. sincePublish' = sincePublish
    BY <1>0, ReceiveLeaves
  <2>4. progressAge' <= CloudFailTimeout
                          + (IF inbox' = <<>> THEN sincePublish
                             ELSE PublishPeriod)
    <3>1. progressAge' \in Int
      <4>1. BridgeInv'
        BY <1>0, BridgeStepInv DEF BridgeNext
      <4> QED
        BY <4>1, StaleGuardAssumption
           DEF BridgeInv, BridgeTypeOK, SenderTypeOK, GuardTypeOK
    <3> QED
      BY <1>3, <2>2, <3>1
  <2> QED
    BY <2>1, <2>2, <2>3, <2>4 DEF OpenWithoutCause
<1>10. supply' # "steady" => HealthyIsInTime' /\ OpenWithoutCause'
  BY DEF HealthyIsInTime, OpenWithoutCause
<1> QED
  BY <1>4, <1>5, <1>6, <1>7, <1>8, <1>9, <1>10 DEF SupplyInv

-----------------------------------------------------------------------------

LEMMA ReportKeepsSupply ==
  ASSUME SenderIsLater, BridgeTypeOK, SupplyInv, SendOrReport,
         UNCHANGED supply
  PROVE  SupplyInv'
<1>1. /\ UNCHANGED <<cloudVars, processVars, topicVars, receiverVars, cause>>
      /\ EvaluateGuard
      /\ UNCHANGED <<hasProgress, progressAge>>
  BY DEF SendOrReport, TransmitDistances, HoldBack, PublishDiagnostics,
         EvaluateGuard
<1>2. UNCHANGED <<up, lastStatus, sequence, hasCloud, cloudAge, sourceStatus,
                  hasData, dataAge, sincePublish, inbox, lastSequence, cause>>
  BY <1>1 DEF cloudVars, watchdogVars, nodeVars, processVars, topicVars,
              receiverVars
<1>3. Silent' = Silent
  BY <1>1 DEF Silent
<1>4. SupplyIsCurrent' /\ SequencesGrow' /\ NoTroubleWithoutCause'
  BY <1>1, <1>2, <1>3 DEF SupplyInv, SupplyIsCurrent, SequencesGrow,
                          NoTroubleWithoutCause, IsDegraded
<1>5. HealthyIsInTime'
  BY <1>1, <1>2, <1>3 DEF SupplyInv, HealthyIsInTime, IsInTime
<1>6. OpenWithoutCause'
  <2> SUFFICES ASSUME ~cause, supply = "steady" PROVE OpenWithoutCause'
    BY <1>2 DEF OpenWithoutCause
  <2>1. ~guardLatched /\ ~Silent
    BY HeardInTime DEF SupplyInv, OpenWithoutCause
  <2>2. ~guardLatched'
    BY <1>1, <2>1 DEF EvaluateGuard
  <2> QED
    BY <1>1, <1>2, <2>2 DEF SupplyInv, OpenWithoutCause
<1> QED
  BY <1>4, <1>5, <1>6 DEF SupplyInv

LEMMA TickKeepsCurrent ==
  ASSUME BridgeTypeOK, SupplyIsCurrent, BridgeTick, UNCHANGED supply
  PROVE  SupplyIsCurrent'
<1> SUFFICES ASSUME up, supply # "interrupted",
                    hasCloud', sourceStatus' = "OK",
                    cloudAge' <= CloudFailTimeout
             PROVE  /\ hasData'
                    /\ dataAge' + CloudFailTimeout <= MaxSourceAge + cloudAge'
                    /\ hasProgress' /\ ~Silent' /\ lastSequence' = sequence'
                         => progressAge' <= cloudAge'
  BY DEF SupplyIsCurrent, BridgeTick
<1>1. Tick
  BY DEF BridgeTick
<1>2. /\ UNCHANGED <<hasCloud, sourceStatus, hasData, sequence, lastSequence,
                     hasProgress>>
      /\ cloudAge' = CountTo(cloudAge, CloudFailTimeout + 1)
      /\ dataAge' = dataAge \/ dataAge' = dataAge + 1
      /\ progressAge' = IF hasProgress /\ ~Silent THEN progressAge + 1
                        ELSE progressAge
  BY <1>1 DEF BridgeTick, SenderTick, GuardAging, receiverVars, Tick,
              CloudAges, StampAging
<1>3. /\ CloudFailTimeout \in Nat /\ MaxSourceAge \in Nat
      /\ InputFailTimeout \in Nat /\ progressAge \in Nat /\ dataAge \in Int
      /\ cloudAge \in 0 .. CloudFailTimeout + 1
  BY SupplyNumbers
<1>4. cloudAge' = cloudAge + 1 /\ cloudAge <= CloudFailTimeout
  BY <1>2, <1>3 DEF CountTo
<1>5. /\ hasData
      /\ dataAge + CloudFailTimeout <= MaxSourceAge + cloudAge
      /\ hasProgress /\ ~Silent /\ lastSequence = sequence
           => progressAge <= cloudAge
  BY <1>2, <1>4 DEF SupplyIsCurrent
<1>6. hasProgress' /\ ~Silent' => hasProgress /\ ~Silent
  BY <1>2, <1>3 DEF Silent
<1>7. hasProgress' /\ ~Silent' /\ lastSequence' = sequence'
        => progressAge' <= cloudAge'
  BY <1>2, <1>3, <1>4, <1>5, <1>6
<1>8. dataAge' + CloudFailTimeout <= MaxSourceAge + cloudAge'
  BY <1>2, <1>3, <1>4, <1>5
<1> QED
  BY <1>2, <1>5, <1>7, <1>8

LEMMA TickKeepsSupply ==
  ASSUME SenderIsLater, BridgeTypeOK, SupplyInv, BridgeTick, UNCHANGED supply
  PROVE  SupplyInv'
<1>1. /\ inbox = <<>> /\ inbox' = <<>> /\ Len(inbox') = 0
      /\ UNCHANGED <<up, sequence, lastSequence, cause>>
      /\ UNCHANGED <<guardLatched, hasProgress>>
      /\ progressAge' = IF hasProgress /\ ~Silent THEN progressAge + 1
                        ELSE progressAge
  <2>1. inbox = <<>>
    BY DEF BridgeTick, SenderIsLater
  <2>2. inbox' = <<>>
    BY <2>1 DEF BridgeTick
  <2> QED
    BY <2>1, <2>2 DEF BridgeTick, receiverVars, SenderTick, GuardAging
<1>2. /\ progressAge \in Nat /\ sincePublish \in Nat
      /\ InputFailTimeout \in Nat /\ PublishPeriod \in Nat
      /\ CloudFailTimeout \in Nat
  BY SupplyNumbers
<1>3. /\ progressAge' \in Nat /\ progressAge' <= progressAge + 1
      /\ hasProgress' /\ ~Silent' => hasProgress /\ ~Silent
  BY <1>1, <1>2 DEF Silent
<1>4. lastStatus' = lastStatus
  BY DEF BridgeTick, cloudVars, watchdogVars, Tick, CloudAges
<1>5. SupplyIsCurrent'
  BY TickKeepsCurrent DEF SupplyInv
<1>6. SequencesGrow'
  BY <1>1, <1>3 DEF SupplyInv, SequencesGrow
<1>7. HealthyIsInTime'
  BY <1>1 DEF HealthyIsInTime
<1>8. NoTroubleWithoutCause'
  BY <1>1, <1>4 DEF SupplyInv, NoTroubleWithoutCause, IsDegraded
<1>9. OpenWithoutCause'
  <2> SUFFICES ASSUME ~cause, supply = "steady" PROVE OpenWithoutCause'
    BY <1>1 DEF OpenWithoutCause
  <2>1. /\ up /\ hasProgress /\ ~guardLatched
        /\ progressAge <= CloudFailTimeout + sincePublish
    BY <1>1 DEF SupplyInv, NoTroubleWithoutCause, OpenWithoutCause
  <2>2. sincePublish' = sincePublish + 1
    BY <2>1 DEF BridgeTick
  <2>3. progressAge' <= CloudFailTimeout + sincePublish'
    BY <1>2, <1>3, <2>1, <2>2
  <2> QED
    BY <1>1, <2>1, <2>3 DEF OpenWithoutCause
<1> QED
  BY <1>5, <1>6, <1>7, <1>8, <1>9 DEF SupplyInv

\* A cloud node that crashes is a cause.
LEMMA CrashKeepsSupply ==
  ASSUME SupplyInv, CrashCloud, UNCHANGED supply
  PROVE  SupplyInv'
<1>1. /\ ~up' /\ cause'
      /\ UNCHANGED <<sequence, lastSequence, inbox, hasProgress, progressAge>>
      /\ Silent' = Silent
  BY DEF CrashCloud, senderVars, guardVars, topicVars, receiverVars, Silent
<1> QED
  BY <1>1 DEF SupplyInv, SupplyIsCurrent, SequencesGrow, HealthyIsInTime,
              IsInTime, NoTroubleWithoutCause, OpenWithoutCause

\* By the time a cloud node restarts, the sender is silent and has taken all
\* messages of the one before.
LEMMA RestartKeepsSupply ==
  ASSUME SenderIsLater, BridgeTypeOK, SilentSinceCrash, SupplyInv,
         RestartCloud, UNCHANGED supply
  PROVE  SupplyInv'
<1>1. /\ ~up /\ downAge >= RestartDelay
      /\ UNCHANGED <<inbox, hasProgress, progressAge, cause>>
      /\ ~hasCloud'
  BY DEF RestartCloud, Reset, senderVars, guardVars
<1>2. downAge > InputFailTimeout /\ downAge > 0
  <2>1. /\ RestartDelay > InputFailTimeout /\ InputFailTimeout \in Nat
        /\ RestartDelay \in Int /\ downAge \in Int
    BY BridgeAssumption, StaleGuardAssumption
       DEF SenderIsLater, BridgeTypeOK
  <2> QED
    BY <1>1, <2>1
<1>3. /\ inbox = <<>> /\ Len(inbox') = 0
      /\ hasProgress => downAge <= progressAge
  <2>1. inbox = <<>> /\ (hasProgress => downAge <= progressAge)
    BY <1>1, <1>2 DEF SilentSinceCrash, SenderIsLater
  <2> QED
    BY <1>1, <2>1
<1>4. ~(hasProgress' /\ ~Silent')
  <2>1. progressAge \in Nat /\ InputFailTimeout \in Nat /\ downAge \in Int
    BY SupplyNumbers DEF BridgeTypeOK
  <2> QED
    BY <1>1, <1>2, <1>3, <2>1 DEF Silent
<1>5. cause'
  BY <1>1 DEF SupplyInv, NoTroubleWithoutCause
<1> QED
  BY <1>1, <1>3, <1>4, <1>5
     DEF SupplyInv, SupplyIsCurrent, SequencesGrow, HealthyIsInTime,
         NoTroubleWithoutCause, OpenWithoutCause

LEMMA SenderRestartKeepsSupply ==
  ASSUME SupplyInv, RestartSender, UNCHANGED supply
  PROVE  SupplyInv'
<1>1. /\ ~hasProgress' /\ cause' /\ inbox' = <<>> /\ Len(inbox') = 0
      /\ UNCHANGED <<up, hasCloud, cloudAge, sourceStatus, hasData, dataAge>>
  BY DEF RestartSender, cloudVars, watchdogVars, nodeVars
<1> QED
  BY <1>1 DEF SupplyInv, SupplyIsCurrent, SequencesGrow, HealthyIsInTime,
              NoTroubleWithoutCause, OpenWithoutCause

LEMMA SupplyStutter ==
  ASSUME SupplyInv, UNCHANGED supplyVars
  PROVE  SupplyInv'
<1>1. UNCHANGED <<guardLatched, hasProgress, progressAge, up, sincePublish,
                  sequence, inbox, lastSequence, cause, hasCloud, cloudAge,
                  sourceStatus, hasData, dataAge, lastStatus, supply>>
  BY DEF supplyVars, bridgeVars, cloudVars, watchdogVars, nodeVars,
         senderVars, guardVars, processVars, topicVars, receiverVars
<1> QED
  BY <1>1 DEF SupplyInv, SupplyIsCurrent, SequencesGrow, HealthyIsInTime,
              IsInTime, NoTroubleWithoutCause, OpenWithoutCause, Silent,
              IsDegraded

LEMMA SupplyInvStep ==
  ASSUME SenderIsLater
  PROVE  BridgeInv /\ SilentSinceCrash /\ SupplyInv
           /\ [SupplyNext]_supplyVars => SupplyInv'
<1> SUFFICES ASSUME BridgeInv, SilentSinceCrash, SupplyInv,
                    [SupplyNext]_supplyVars
             PROVE  SupplyInv'
  OBVIOUS
<1>1. BridgeTypeOK
  BY DEF BridgeInv
<1>2. CASE KeepSupply
  BY <1>1, <1>2, PublishKeepsSupply, ReportKeepsSupply, CrashKeepsSupply,
     RestartKeepsSupply, SenderRestartKeepsSupply, TickKeepsSupply
     DEF KeepSupply
<1>3. CASE ReceiveSupply
  BY <1>3, ReceiveKeepsSupply
<1>4. CASE InterruptSupply \/ ResumeSupply \/ RefuseSupply
  BY <1>1, <1>4, CloudKeepsSupply
<1>5. CASE UNCHANGED supplyVars
  BY <1>5, SupplyStutter
<1> QED
  BY <1>2, <1>3, <1>4, <1>5 DEF SupplyNext

LEMMA SupplyInvInit == SupplyInit => SupplyInv
<1> SUFFICES ASSUME SupplyInit PROVE SupplyInv
  OBVIOUS
<1>1. ~hasProgress /\ cause /\ inbox = <<>> /\ Len(inbox) = 0 /\ ~hasCloud
  BY DEF SupplyInit, BridgeInit, CloudInit, WatchdogInit, SenderInit,
         GuardInit
<1> QED
  BY <1>1 DEF SupplyInv, SupplyIsCurrent, SequencesGrow, HealthyIsInTime,
              NoTroubleWithoutCause, OpenWithoutCause

\* Where the sender's thresholds are later than the cloud node's, as in every
\* shipped profile, its guard is never shut or silent without a cause
\* upstream, unless a cloud that brought nothing lasting interrupted the
\* supply (docs/tuning_guide.md:62; watchdog.cpp:165-200;
\* source_timestamp.cpp:24-58; mavlink_obstacle_sender.py:129-198, 461-515).
THEOREM SenderDegradesSecond ==
  ASSUME SenderIsLater
  PROVE  SupplySpec => []DegradesSecond
<1>1. SupplyInit => BridgeInv /\ SilentSinceCrash /\ SupplyInv
  BY BridgeInitInv, SupplyInvInit
     DEF SupplyInit, BridgeInit, SilentSinceCrash
<1>2. BridgeInv /\ SupplyInv => DegradesSecond
  BY HeardInTime DEF BridgeInv, SupplyInv, OpenWithoutCause, DegradesSecond
<1>3. [SupplyNext]_supplyVars => [BridgeNext]_bridgeVars
  BY SupplyStepIsBridgeStep
<1>4. BridgeInv /\ SilentSinceCrash /\ SupplyInv /\ [SupplyNext]_supplyVars
        => BridgeInv' /\ SilentSinceCrash' /\ SupplyInv'
  BY <1>3, SupplyInvStep, BridgeStepInv, SilentSinceCrashStep
<1> QED
  BY <1>1, <1>2, <1>4, PTL DEF SupplySpec

=============================================================================
