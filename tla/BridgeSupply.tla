---------------------------- MODULE BridgeSupply ----------------------------
(***************************************************************************)
(* Which of the two nodes degrades first?  The sender's fail threshold is  *)
(* later than the cloud node's, "so that it does not degrade first without *)
(* an upstream cause" (docs/tuning_guide.md:62).  But the cloud node times *)
(* clouds and the sender times data, and a cloud may bring none.  This     *)
(* module adds to the bridge the history of what the clouds brought; the   *)
(* behaviours are those of Bridge.                                         *)
(***************************************************************************)
EXTENDS Bridge

VARIABLE
  supply   \* history: "interrupted" by a cloud that brought nothing that
           \* lasts, "resumed" by one that did, and "steady" again when the
           \* open guard has heard of progress since

supplyVars == <<bridgeVars, supply>>

\* Data of these ages stays young enough for the sender for as long as the
\* cloud node can be content with the cloud that brought it.
LastingAges == {age \in StampAges : age + CloudFailTimeout <= MaxSourceAge}

\* A repeated stamp and a failed transform renew the cloud node's clock and
\* bring no data; data may be old on arrival.
InterruptSupply ==
  /\ CloudRuns
  /\ RepeatCloud \/ LoseTransform \/ BringData(ArrivalAges \ LastingAges)
  /\ supply' = "interrupted"

ResumeSupply ==
  /\ CloudRuns
  /\ BringData(ArrivalAges \cap LastingAges)
  /\ supply' = IF supply = "interrupted" THEN "resumed" ELSE supply

\* A refused cloud shows in the verdict at once.
RefuseSupply ==
  /\ CloudRuns
  /\ RefuseCloud
  /\ UNCHANGED supply

\* The guard is open, has heard of progress just now, and nothing that was
\* published before is left to take.
CaughtUp ==
  ~guardLatched /\ hasProgress /\ progressAge = 0 /\ inbox = <<>>

ReceiveSupply ==
  /\ ReceiveSectors
  /\ supply' = IF supply = "resumed" /\ CaughtUp' THEN "steady" ELSE supply

KeepSupply ==
  /\ \/ PublishSectors
     \/ SendOrReport
     \/ CrashCloud
     \/ RestartCloud
     \/ RestartSender
     \/ BridgeTick
  /\ UNCHANGED supply

SupplyInit == BridgeInit /\ supply = "steady"

SupplyNext ==
  \/ InterruptSupply
  \/ ResumeSupply
  \/ RefuseSupply
  \/ ReceiveSupply
  \/ KeepSupply

SupplySpec == SupplyInit /\ [][SupplyNext]_supplyVars

-----------------------------------------------------------------------------
(* Properties.                                                             *)

\* The sender does not degrade first without an upstream cause
\* (docs/tuning_guide.md:62), clouds that bring nothing lasting excepted: its
\* guard is shut, or silent, only if since it last opened the cloud node
\* crashed, published a degraded message or is about to, or since it last
\* heard of progress a cloud repeated its stamp, failed its transform or
\* brought old data (mavlink_obstacle_sender.py:106-150, 461-515;
\* watchdog.cpp:165-200; cloud_processor_node.cpp:300-365).
DegradesSecond ==
  guardLatched \/ Silent =>
    cause \/ IsDegraded(RawStatus) \/ supply # "steady"

=============================================================================
