------------------------------- MODULE Bridge -------------------------------
(***************************************************************************)
(* The cloud node and the sender together: SectorDistances messages travel *)
(* on a topic that keeps the last few, and systemd restarts either process *)
(* after a crash, with nothing of its state left.                          *)
(*                                                                         *)
(* Abstractions.  The MAVLink port works: its failures are the matter of   *)
(* MavlinkSender.  Empty clouds are the matter of CloudProcessor.  A crash *)
(* of the sender and its restart are one step: what arrives in between has *)
(* no effect.  source_sequence_ and last_sequence are numbers here, since  *)
(* a restarted node counts from the start again.                           *)
(***************************************************************************)
EXTENDS CloudProcessor, MavlinkSender, Sequences

CONSTANTS
  ArrivalAges,     \* ages that new stamps have on arrival
  PublishPeriod,   \* ticks between two publications, at most
  InboxDepth,      \* messages the topic keeps
  Prompt,          \* messages arrive within the tick of their publication
  RestartDelay,    \* RestartSec of the cloud node's unit, in ticks
  MaxSequence,     \* bound of the model: accepted stamps of one process
  MaxCrashes       \* bound of the model: crashes of each process

ASSUME BridgeAssumption ==
  /\ Live
  /\ FailClosed
  /\ ~WaitHeartbeat
  /\ ArrivalAges \subseteq StampAges
  /\ PublishPeriod \in Nat \ {0}
  /\ InboxDepth \in Nat \ {0}
  /\ Prompt \in BOOLEAN
  /\ RestartDelay \in 0 .. InputFailTimeout + 1
  /\ MaxSequence \in Nat
  /\ MaxCrashes \in Nat
  /\ DataAgeCap > MaxSourceAge

VARIABLES
  up,             \* the cloud node's process runs
  downAge,        \* ticks since it crashed
  crashes,        \* crashes so far: [cloud, sender]
  sincePublish,   \* ticks since the latest publication
  sequence,       \* source_sequence_ of the cloud node
  inbox,          \* published messages that the sender has yet to take
  wallPublished,  \* the latest published message was degraded
  lastSequence,   \* last_sequence of the sender's guard
  stored,         \* what last_distances are: "nothing", "data" or, from a
                  \* node that has processed no cloud, "max_plus_one"
  cause           \* upstream trouble: the cloud node crashed or published a
                  \* degraded message, and the guard has not opened since it
                  \* was told

processVars == <<up, downAge, crashes>>
topicVars == <<sincePublish, sequence, inbox, wallPublished>>
receiverVars == <<lastSequence, stored>>
bridgeVars ==
  <<cloudVars, senderVars, processVars, topicVars, receiverVars, cause>>

-----------------------------------------------------------------------------
(* The cloud node.                                                         *)

\* The source sequence counts the stamps that are accepted.
AdvanceSequence ==
  /\ sequence < MaxSequence
  /\ sequence' = sequence + 1

RefuseCloud ==
  /\ RejectCloud \/ \E age \in StampAges : RefuseStamp(FALSE, age)
  /\ UNCHANGED sequence

RepeatCloud ==
  /\ \E age \in StampAges : PassOverStamp(age)
  /\ UNCHANGED sequence

\* The sequence advances before the transform, which may fail.
LoseTransform ==
  /\ \E age \in ArrivalAges : FailTransform(age)
  /\ AdvanceSequence

BringData(ages) ==
  /\ \E age \in ages : ProcessCloud(age, FALSE, FALSE)
  /\ AdvanceSequence

\* The callback of the cloud node leaves everybody else alone.
CloudRuns ==
  /\ up
  /\ UNCHANGED <<senderVars, processVars, receiverVars, cause>>
  /\ UNCHANGED <<sincePublish, inbox, wallPublished>>

CloudArrives ==
  /\ CloudRuns
  /\ RefuseCloud \/ RepeatCloud \/ LoseTransform \/ BringData(ArrivalAges)

\* The message as the sender will see it; its age grows on the way.
Message(status) ==
  LET sectors == SectorDistances(status)
  IN  [sequence  |-> sequence,
       stamped   |-> sectors.stamped,
       age       |-> dataAge,
       hard      |-> IsDegraded(status),
       distances |-> sectors.distances]

\* The topic keeps the latest messages.
Keep(messages, msg) ==
  LET all == Append(messages, msg)
  IN  IF Len(all) > InboxDepth THEN Tail(all) ELSE all

PublishSectors ==
  /\ up
  /\ OnPublishTimer
  /\ inbox' = Keep(inbox, Message(lastStatus'))
  /\ wallPublished' = IsDegraded(lastStatus')
  /\ sincePublish' = 0
  /\ cause' = (cause \/ wallPublished')
  /\ UNCHANGED <<senderVars, processVars, sequence, receiverVars>>

-----------------------------------------------------------------------------
(* The sender.                                                             *)

\* Mutant: a message without a stamp is in contract.
InContractUnstamped(msg) == TRUE

\* validate_sector_contract: of what the cloud node publishes only the stamp
\* can be wrong, the header of a node that has processed no cloud.
InContract(msg) == msg.stamped

\* Mutant: a repeated sequence counts as going back.
OrderStrict(msg) ==
  IF msg.sequence <= lastSequence THEN "backward" ELSE "advances"

Order(msg) ==
  CASE msg.sequence < lastSequence -> "backward"
    [] msg.sequence = lastSequence -> "same"
    [] OTHER                       -> "advances"

\* No age is negative; those beyond max_source_age_ms are alike.
AgeOnArrival(msg) ==
  CASE msg.age < 0            -> 0
    [] msg.age > MaxSourceAge -> MaxSourceAge + 1
    [] OTHER                  -> msg.age

\* on_sector_distances for a message of the cloud node.
Refuse(msg) ==
  /\ RefuseSector(InContract(msg), Order(msg), AgeOnArrival(msg), msg.hard)
  /\ UNCHANGED receiverVars

\* Mutant: a hard upstream failure is noticed after the distances are kept.
TakeDegraded(msg) ==
  /\ InContract(msg)
  /\ TakeSector(Order(msg), AgeOnArrival(msg))
  /\ lastSequence' = IF hasProgress /\ Order(msg) = "same" THEN lastSequence
                     ELSE msg.sequence
  /\ stored' = msg.distances

Take(msg) ==
  /\ InContract(msg)
  /\ ~msg.hard
  /\ TakeSector(Order(msg), AgeOnArrival(msg))
  /\ lastSequence' = IF hasProgress /\ Order(msg) = "same" THEN lastSequence
                     ELSE msg.sequence
  /\ stored' = msg.distances

\* Trouble upstream that the sender can still be told of.
TroubleAhead(messages) ==
  \/ ~up
  \/ IsDegraded(lastStatus)
  \/ \E i \in DOMAIN messages : messages[i].hard

ReceiveSectors ==
  /\ inbox # <<>>
  /\ Refuse(Head(inbox)) \/ Take(Head(inbox))
  /\ inbox' = Tail(inbox)
  /\ cause' = (cause /\ (guardLatched' \/ TroubleAhead(inbox')))
  /\ UNCHANGED <<cloudVars, processVars, sincePublish, sequence, wallPublished>>

\* The send and the diagnostics timer, on a port that works.
SendOrReport ==
  /\ \/ TransmitDistances(TRUE, FALSE, TRUE, FALSE)
     \/ HoldBack(TRUE, FALSE)
     \/ PublishDiagnostics
  /\ UNCHANGED <<cloudVars, processVars, topicVars, receiverVars, cause>>

-----------------------------------------------------------------------------
(* Crashes and restarts.                                                   *)

CrashCloud ==
  /\ up
  /\ crashes.cloud < MaxCrashes
  /\ up' = FALSE
  /\ crashes' = [crashes EXCEPT !.cloud = @ + 1]
  /\ downAge' = 0
  /\ cause' = TRUE
  /\ UNCHANGED <<cloudVars, senderVars, topicVars, receiverVars>>

\* A new process: both guards, the latest data and the sequence start anew.
RestartCloud ==
  /\ ~up
  /\ downAge >= RestartDelay
  /\ up' = TRUE
  /\ Reset
  /\ hasStamp' = FALSE /\ stampAge' = 0 /\ repeated' = 0
  /\ hasData' = FALSE /\ dataAge' = 0 /\ startAge' = 0
  /\ sequence' = 0
  /\ sincePublish' = 0
  /\ downAge' = 0
  /\ UNCHANGED <<senderVars, crashes, inbox, wallPublished, receiverVars,
                 cause>>

\* The new sender's subscription starts empty.
RestartSender ==
  /\ crashes.sender < MaxCrashes
  /\ crashes' = [crashes EXCEPT !.sender = @ + 1]
  /\ guardLatched' = TRUE /\ healthyFrames' = 0 /\ newFrames' = 0
  /\ hasProgress' = FALSE /\ progressAge' = 0
  /\ hasDistances' = FALSE /\ distancesAge' = 0
  /\ sent' = "nothing"
  /\ inbox' = <<>>
  /\ lastSequence' = 0
  /\ stored' = "nothing"
  /\ cause' = TRUE
  /\ UNCHANGED <<cloudVars, portVars, up, downAge>>
  /\ UNCHANGED <<sincePublish, sequence, wallPublished>>

-----------------------------------------------------------------------------

Older(msg) ==
  [msg EXCEPT !.age = IF @ <= MaxSourceAge THEN @ + 1 ELSE @]

\* All clocks advance, those of a dead process excepted.
BridgeTick ==
  /\ Prompt => inbox = <<>>
  /\ SenderTick
  /\ inbox' = [i \in DOMAIN inbox |-> Older(inbox[i])]
  /\ \/ /\ up
        /\ sincePublish < PublishPeriod
        /\ sincePublish' = sincePublish + 1
        /\ Tick
        /\ UNCHANGED downAge
     \/ /\ ~up
        /\ downAge' = CountTo(downAge, InputFailTimeout + 1)
        /\ UNCHANGED <<sincePublish, cloudVars>>
  /\ UNCHANGED <<up, crashes, sequence, wallPublished, receiverVars, cause>>

BridgeInit ==
  /\ CloudInit
  /\ SenderInit
  /\ link = Opened
  /\ up = TRUE
  /\ downAge = 0
  /\ crashes = [cloud |-> 0, sender |-> 0]
  /\ sincePublish = 0
  /\ sequence = 0
  /\ inbox = <<>>
  /\ wallPublished = FALSE
  /\ lastSequence = 0
  /\ stored = "nothing"
  /\ cause = TRUE

BridgeNext ==
  \/ CloudArrives
  \/ PublishSectors
  \/ ReceiveSectors
  \/ SendOrReport
  \/ CrashCloud
  \/ RestartCloud
  \/ RestartSender
  \/ BridgeTick

BridgeSpec == BridgeInit /\ [][BridgeNext]_bridgeVars

-----------------------------------------------------------------------------
(* Properties.                                                             *)

Distances == {"data", "max_plus_one", "virtual_wall", "unknown"}

Messages ==
  [sequence: 0 .. MaxSequence, stamped: BOOLEAN, hard: BOOLEAN,
   age: -(FutureTolerance + 1) .. DataAgeCap, distances: Distances]

\* Every variable of both nodes and of the topic stays in its range, and what
\* the sender keeps is never a wall or the unknown value of the cloud node: a
\* degraded message is not kept (mavlink_obstacle_sender.py:491-503).
BridgeTypeOK ==
  /\ CloudTypeOK
  /\ SenderTypeOK
  /\ up \in BOOLEAN
  /\ downAge \in 0 .. InputFailTimeout + 1
  /\ crashes \in [cloud: 0 .. MaxCrashes, sender: 0 .. MaxCrashes]
  /\ sincePublish \in 0 .. PublishPeriod
  /\ sequence \in 0 .. MaxSequence
  /\ inbox \in Seq(Messages)
  /\ Len(inbox) <= InboxDepth
  /\ wallPublished \in BOOLEAN
  /\ lastSequence \in 0 .. MaxSequence
  /\ stored \in {"nothing", "data", "max_plus_one"}
  /\ cause \in BOOLEAN

\* The all-clear distances a cloud node starts with never reach the wire,
\* although it can publish them as OK: what stops them is that the header of
\* such a message has no stamp (cloud_processor_node.cpp:119, 682-699;
\* mavlink_obstacle_sender.py:225-256).
UnprocessedIsNeverSent == sent = "data" => stored = "data"

\* Once the sender has taken all messages, it puts data on the wire only if
\* the latest of them was not degraded, whatever was lost before it and
\* whoever crashed (mavlink_obstacle_sender.py:491-498, 544-566).
WallReachesWire == sent = "data" /\ inbox = <<>> => ~wallPublished

\* "Kill cloud: the sender shows the virtual wall after its timeout"
\* (docs/fault_matrix.md:8): with a prompt topic no data is sent by the time
\* the cloud node has been dead for longer than input_fail_timeout_ms.
KilledCloudMeansWall ==
  Prompt /\ ~up /\ downAge > InputFailTimeout => sent # "data"

\* "The sender's fail threshold is later than the cloud's, so that it does
\* not degrade first without an upstream cause" (docs/tuning_guide.md:62):
\* the guard is shut, or silent, only if the cloud node crashed, published a
\* degraded message or would publish one now.
DegradesWithCause == guardLatched \/ Silent => cause \/ IsDegraded(RawStatus)

\* Data is never replaced by older data, as long as the cloud node did not
\* crash: its stamps increase, and the topic and the sequence check keep
\* their order (source_timestamp.cpp:34-40; mavlink_obstacle_sender.py:480-506).
DataNeverGoesBack ==
  [][ReceiveSectors /\ hasDistances /\ crashes.cloud = 0 =>
       distancesAge' <= distancesAge]_bridgeVars

=============================================================================
