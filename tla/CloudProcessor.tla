--------------------------- MODULE CloudProcessor ---------------------------
(***************************************************************************)
(* The node cloud_processor_node: onCloud runs for every point cloud,      *)
(* onPublishTimer publishes SectorDistances at a fixed rate.  One thread   *)
(* runs both, so each callback is one step; their order is arbitrary.      *)
(*                                                                         *)
(* The point pipeline (filters, sectors, smoothing, inflation) is data:    *)
(* what it leaves here is whose cloud the distances come from and whether  *)
(* the raw and the filtered cloud were empty.                              *)
(***************************************************************************)
EXTENDS Watchdog, SourceTimestampGuard

CONSTANTS
  MaxInterval,   \* the longest processing interval that is not a low rate:
                 \* 1000 / min_processing_rate_hz milliseconds, in ticks
  DegradedMode,  \* degraded_mode: what a degraded message carries
  DataAgeCap     \* bound of the model: data this old only gets older

ASSUME CloudAssumption ==
  /\ MaxInterval \in Nat \ {0}
  /\ DegradedMode \in {"virtual_wall", "unknown", "max_plus_one"}
  /\ DataAgeCap \in Nat
  /\ DataAgeCap > MaxSensorAge

VARIABLES
  hasData,       \* a cloud was processed: latest_header_.stamp is not zero
  dataAge,       \* now - latest_header_.stamp
  startAge       \* steady now - last_process_start_

nodeVars == <<hasData, dataAge, startAge>>
cloudVars == <<watchdogVars, stampVars, nodeVars>>

-----------------------------------------------------------------------------
(* onCloud, one action per way through it.                                 *)

\* validatePointCloud2 refuses the message: the cloud is not even marked.
RejectCloud ==
  /\ MarkSourceInvalid("DEGRADED_POINTCLOUD_INVALID")
  /\ UNCHANGED <<hasCloud, cloudAge, unseen, clouds, tfFailures, rawEmpty,
                 filteredEmpty, lowRate, latched, recovery, lastStatus>>
  /\ UNCHANGED <<stampVars, nodeVars>>

\* The stamp is refused; its status becomes the source status.
RefuseStamp(zero, age) ==
  LET verdict == StampVerdict(zero, age)
  IN  /\ verdict \in SourceFaults
      /\ MarkCloud
      /\ NoteStamp(verdict)
      /\ MarkSourceInvalid(verdict)
      /\ UNCHANGED <<tfFailures, rawEmpty, filteredEmpty, lowRate, latched,
                     recovery, lastStatus, nodeVars>>

\* The stamp repeats the last one and is passed over.
PassOverStamp(age) ==
  /\ StampVerdict(FALSE, age) = "PASSED_OVER"
  /\ MarkCloud
  /\ NoteStamp("PASSED_OVER")
  /\ UNCHANGED <<tfFailures, rawEmpty, filteredEmpty, lowRate, sourceStatus,
                 latched, recovery, lastStatus, nodeVars>>

AcceptCloud(age) ==
  /\ StampVerdict(FALSE, age) = "ACCEPTED"
  /\ MarkCloud
  /\ AcceptStamp(age)
  /\ MarkSourceValid
  /\ UNCHANGED <<latched, recovery, lastStatus>>

\* The stamp is accepted, but reading or transforming the cloud throws.
FailTransform(age) ==
  /\ AcceptCloud(age)
  /\ MarkTfFailure
  /\ UNCHANGED <<rawEmpty, filteredEmpty, lowRate, hasData, dataAge, startAge>>

\* updateProcessingRate: no rate from the first cloud, nor from two clouds
\* in the same millisecond.
UpdateProcessingRate ==
  /\ startAge' = 0
  /\ IF hasData /\ startAge > 0 THEN SetProcessingRate(startAge > MaxInterval)
                                ELSE UNCHANGED lowRate

\* The cloud is processed to the end and its distances are kept.
ProcessCloud(age, emptyRaw, emptyFiltered) ==
  /\ AcceptCloud(age)
  /\ emptyRaw => emptyFiltered
  /\ MarkRawCloudSize(emptyRaw)
  /\ MarkTfSuccess
  /\ MarkFilteredCloudSize(emptyFiltered)
  /\ hasData' = TRUE
  /\ dataAge' = age
  /\ UpdateProcessingRate

\* The ways that leave the distances as they are, and the one that does not.
LoseCloud ==
  \/ RejectCloud
  \/ \E zero \in BOOLEAN, age \in StampAges : RefuseStamp(zero, age)
  \/ \E age \in StampAges : PassOverStamp(age)
  \/ \E age \in StampAges : FailTransform(age)

FinishCloud ==
  \E age \in StampAges, raw, filtered \in BOOLEAN :
    ProcessCloud(age, raw, filtered)

OnCloud == LoseCloud \/ FinishCloud

-----------------------------------------------------------------------------
(* onPublishTimer.                                                         *)

OnPublishTimer ==
  /\ Evaluate
  /\ UNCHANGED <<stampVars, nodeVars>>

\* The age the message claims: max_sensor_age_ms without data.
SourceAge ==
  CASE ~hasData          -> MaxSensorAge
    [] hasData /\ ~Live -> 0
    [] hasData /\ Live  -> IF dataAge < 0 THEN 0 ELSE dataAge

\* The message of a publication whose verdict is status.  Its header is that
\* of the last processed cloud whatever the verdict; before the first one
\* the header is empty and the distances are the constructor's all-clear.
SectorDistances(status) ==
  [status    |-> status,
   stamped   |-> hasData,
   sourceAge |-> SourceAge,
   distances |-> IF IsDegraded(status) THEN DegradedMode
                 ELSE IF hasData THEN "data" ELSE "max_plus_one"]

-----------------------------------------------------------------------------

\* Both clocks advance.
Tick ==
  /\ CloudAges
  /\ StampAging
  /\ dataAge' = IF hasData /\ dataAge < DataAgeCap THEN dataAge + 1
                ELSE dataAge
  /\ startAge' = IF hasData THEN CountTo(startAge, MaxInterval + 1)
                 ELSE startAge
  /\ UNCHANGED hasData

CloudInit ==
  /\ WatchdogInit
  /\ StampInit
  /\ hasData = FALSE
  /\ dataAge = 0
  /\ startAge = 0

CloudNext == OnCloud \/ OnPublishTimer \/ Tick

CloudSpec == CloudInit /\ [][CloudNext]_cloudVars

-----------------------------------------------------------------------------
(* Properties.                                                             *)

\* Every variable of the node and of its two guards stays in its range.
CloudTypeOK ==
  /\ WatchdogTypeOK
  /\ StampTypeOK
  /\ hasData \in BOOLEAN
  /\ dataAge \in -(FutureTolerance + 1) .. DataAgeCap
  /\ startAge \in 0 .. MaxInterval + 1

\* The node's order of calls makes the watchdog's promise whole: no fault
\* can clear without a further cloud, so a release takes the full number of
\* clouds after the last fault (cloud_processor_node.cpp:300-365,
\* watchdog.cpp:99-119).
CloudGate == INSTANCE FailClosedGate WITH
  Need <- CloudRecoveryFrames, open <- ~latched, evidence <- clouds

ReleaseNeedsClouds == CloudGate!GateSpec

\* Clouds that bring no data and yet leave the verdict healthy: fewer than
\* TfFailureLimit transforms fail, and a stamp is passed over at most
\* MaxRepeated - 1 times after the processed cloud and after each failure.
SilentClouds == TfFailureLimit * MaxRepeated - 1

\* While source_sequence_ was published with distances of an earlier cloud,
\* the failure counter is not zero: with no failure pending, the distances
\* are those of the latest accepted stamp (cloud_processor_node.cpp:321-339,
\* 677-708).
SequenceNamesData ==
  Live /\ hasStamp /\ tfFailures = 0 =>
    /\ hasData
    /\ stampAge = IF dataAge <= MaxSensorAge THEN dataAge ELSE MaxSensorAge + 1

\* "A missing TF must stay fail-closed" (docs/tuning_guide.md:26): as long
\* as no cloud was transformed, no message shows all sectors free.
MissingTfKeepsWall ==
  [][OnPublishTimer =>
       SectorDistances(lastStatus').distances # "max_plus_one"]_cloudVars

=============================================================================
