------------------------------ MODULE Watchdog ------------------------------
(***************************************************************************)
(* The cloud watchdog: class Watchdog of src/watchdog.cpp.  The node tells *)
(* it what it sees (the mark operators) and, once per publication, asks    *)
(* for a verdict (Evaluate).  The verdict is a health status; a degraded   *)
(* one replaces all distances by a constant, and after it the latch keeps  *)
(* the output degraded until enough clouds were seen healthy.              *)
(*                                                                         *)
(* Each mark operator constrains only the variables its method assigns, so *)
(* that a client can conjoin several of them in one handler.               *)
(*                                                                         *)
(* Abstractions.  Time points become ages, which stop counting one tick    *)
(* beyond the last threshold they are compared with; consecutive counters  *)
(* stop at their limit.  cloud_sequence_ is read only to compare it with   *)
(* recovery_last_cloud_sequence_ (unseen) and, by the properties, to count *)
(* the clouds that arrived since the last fault (clouds).  The processing  *)
(* rate is kept as the outcome of its one comparison.  Transition counters *)
(* and texts are diagnostics and left out.                                 *)
(***************************************************************************)
EXTENDS Integers

CONSTANTS
  CloudWarnTimeout,      \* cloud_warn_timeout_ms, in ticks
  CloudFailTimeout,      \* cloud_fail_timeout_ms, in ticks
  CloudRecoveryFrames,   \* recovery_healthy_frames
  TfFailureLimit,        \* tf_failure_limit
  RawEmptyLimit,         \* raw_cloud_empty_limit
  FilteredEmptyLimit,    \* empty_cloud_limit
  FilteredEmptyIsClear,  \* filtered_empty_is_clear
  FilteredEmptyWarnOnly  \* filtered_empty_warn_only

ASSUME WatchdogAssumption ==
  /\ CloudWarnTimeout \in Nat \ {0}
  /\ CloudFailTimeout \in Nat
  /\ CloudWarnTimeout < CloudFailTimeout
  /\ CloudRecoveryFrames \in Nat \ {0}
  /\ TfFailureLimit \in Nat \ {0}
  /\ RawEmptyLimit \in Nat \ {0}
  /\ FilteredEmptyLimit \in Nat \ {0}
  /\ FilteredEmptyIsClear \in BOOLEAN
  /\ FilteredEmptyWarnOnly \in BOOLEAN
  /\ FilteredEmptyWarnOnly => FilteredEmptyIsClear

VARIABLES
  hasCloud,       \* has_cloud_
  cloudAge,       \* now - last_cloud_time_
  unseen,         \* cloud_sequence_ # recovery_last_cloud_sequence_
  clouds,         \* clouds counted in cloud_sequence_ since the last fault
  tfFailures,     \* consecutive_tf_failures_
  rawEmpty,       \* consecutive_raw_empty_clouds_
  filteredEmpty,  \* consecutive_empty_clouds_
  lowRate,        \* 0 < processing_rate_hz_ < min_processing_rate_hz
  sourceStatus,   \* source_status_
  latched,        \* fail_closed_latched_
  recovery,       \* recovery_healthy_frames_
  lastStatus      \* last_status_, the status of the latest verdict

watchdogVars == <<hasCloud, cloudAge, unseen, clouds, tfFailures, rawEmpty,
                  filteredEmpty, lowRate, sourceStatus, latched, recovery,
                  lastStatus>>

SourceFaults ==
  {"DEGRADED_SOURCE_STAMP_ZERO", "DEGRADED_SOURCE_STAMP_OLD",
   "DEGRADED_SOURCE_STAMP_REPEATED", "DEGRADED_SOURCE_STAMP_BACKWARD",
   "DEGRADED_SOURCE_STAMP_FUTURE", "DEGRADED_POINTCLOUD_INVALID"}

Warnings == {"WARN_FILTERED_CLOUD_EMPTY", "WARN_CLOUD_STALE"}

Degradations ==
  SourceFaults \cup
  {"DEGRADED_CLOUD_TIMEOUT", "DEGRADED_TF_FAILED", "DEGRADED_EMPTY_CLOUD",
   "DEGRADED_LOW_RATE", "DEGRADED_RAW_CLOUD_EMPTY"}

HealthStatus == {"OK"} \cup Warnings \cup Degradations

IsDegraded(status) == status \in Degradations

CountTo(n, limit) == IF n < limit THEN n + 1 ELSE limit

-----------------------------------------------------------------------------
(* What the node reports.                                                  *)

MarkCloud ==
  /\ hasCloud' = TRUE
  /\ cloudAge' = 0
  /\ unseen' = TRUE
  /\ clouds' = CountTo(clouds, CloudRecoveryFrames)

MarkRawCloudSize(empty) ==
  rawEmpty' = IF empty THEN CountTo(rawEmpty, RawEmptyLimit) ELSE 0

\* Mutant: the failures are never forgotten, consecutive or not.
MarkTfSuccessForgotten == UNCHANGED tfFailures

MarkTfSuccess == tfFailures' = 0

\* Mutant: a failed transform is not counted.
MarkTfFailureForgotten == UNCHANGED tfFailures

MarkTfFailure == tfFailures' = CountTo(tfFailures, TfFailureLimit)

MarkFilteredCloudSize(empty) ==
  filteredEmpty' =
    IF empty THEN CountTo(filteredEmpty, FilteredEmptyLimit) ELSE 0

MarkSourceInvalid(status) == sourceStatus' = status

MarkSourceValid == sourceStatus' = "OK"

SetProcessingRate(low) == lowRate' = low

\* The steady clock advances one tick.
CloudAges ==
  /\ cloudAge' = IF hasCloud THEN CountTo(cloudAge, CloudFailTimeout + 1)
                 ELSE cloudAge
  /\ UNCHANGED <<hasCloud, unseen, clouds, tfFailures, rawEmpty,
                 filteredEmpty, lowRate, sourceStatus, latched, recovery,
                 lastStatus>>

-----------------------------------------------------------------------------
(* The verdict.                                                            *)

\* The status before the latch has its say; the order of the tests matters.
RawStatus ==
  IF ~hasCloud \/ cloudAge > CloudFailTimeout
    THEN "DEGRADED_CLOUD_TIMEOUT"
  ELSE IF sourceStatus # "OK" THEN sourceStatus
  ELSE IF tfFailures >= TfFailureLimit THEN "DEGRADED_TF_FAILED"
  ELSE IF rawEmpty >= RawEmptyLimit THEN "DEGRADED_RAW_CLOUD_EMPTY"
  ELSE IF filteredEmpty >= FilteredEmptyLimit
    THEN CASE ~FilteredEmptyIsClear -> "DEGRADED_EMPTY_CLOUD"
           [] FilteredEmptyWarnOnly -> "WARN_FILTERED_CLOUD_EMPTY"
           [] OTHER                 -> "OK"
  ELSE IF lowRate THEN "DEGRADED_LOW_RATE"
  ELSE IF cloudAge > CloudWarnTimeout THEN "WARN_CLOUD_STALE"
  ELSE "OK"

\* Mutant: a fault leaves the healthy frames counted before it.
EvaluateFaultKeepsCount ==
  /\ IsDegraded(RawStatus)
  /\ latched' = TRUE
  /\ clouds' = 0
  /\ lastStatus' = RawStatus
  /\ UNCHANGED <<recovery, unseen>>

EvaluateFault ==
  /\ IsDegraded(RawStatus)
  /\ latched' = TRUE
  /\ recovery' = 0
  /\ clouds' = 0
  /\ lastStatus' = RawStatus
  /\ UNCHANGED unseen

EvaluateOpen ==
  /\ ~IsDegraded(RawStatus)
  /\ ~latched
  /\ lastStatus' = RawStatus
  /\ UNCHANGED <<latched, recovery, unseen, clouds>>

\* Mutant: one cloud, evaluated again and again, counts every time.
CountsRepeatedly == RawStatus = "OK"

CountsForRecovery == RawStatus = "OK" /\ unseen

\* The healthy frames counted by this verdict; a warning starts over.
Progress ==
  CASE CountsForRecovery -> recovery + 1
    [] RawStatus # "OK"  -> 0
    [] OTHER             -> recovery

\* Mutant: one healthy frame too many.
ReleasesLate == Progress > CloudRecoveryFrames

Releases == Progress >= CloudRecoveryFrames

\* Latched, and no hard failure.
EvaluateRecovery ==
  /\ ~IsDegraded(RawStatus)
  /\ latched
  /\ unseen' = (unseen /\ ~CountsForRecovery)
  /\ latched' = ~Releases
  /\ recovery' = IF Releases THEN 0 ELSE Progress
  /\ lastStatus' = IF Releases THEN RawStatus ELSE "DEGRADED_CLOUD_TIMEOUT"
  /\ UNCHANGED clouds

Evaluate ==
  /\ EvaluateFault \/ EvaluateOpen \/ EvaluateRecovery
  /\ UNCHANGED <<hasCloud, cloudAge, tfFailures, rawEmpty, filteredEmpty,
                 lowRate, sourceStatus>>

Reset ==
  /\ hasCloud' = FALSE
  /\ cloudAge' = 0
  /\ unseen' = FALSE
  /\ clouds' = 0
  /\ tfFailures' = 0
  /\ rawEmpty' = 0
  /\ filteredEmpty' = 0
  /\ lowRate' = FALSE
  /\ sourceStatus' = "OK"
  /\ latched' = TRUE
  /\ recovery' = 0
  /\ lastStatus' = "DEGRADED_CLOUD_TIMEOUT"

-----------------------------------------------------------------------------
(* The class on its own: a client that calls the methods in any order.     *)

WatchdogInit ==
  /\ hasCloud = FALSE
  /\ cloudAge = 0
  /\ unseen = FALSE
  /\ clouds = 0
  /\ tfFailures = 0
  /\ rawEmpty = 0
  /\ filteredEmpty = 0
  /\ lowRate = FALSE
  /\ sourceStatus = "OK"
  /\ latched = TRUE
  /\ recovery = 0
  /\ lastStatus = "DEGRADED_CLOUD_TIMEOUT"

CallMarkCloud ==
  /\ MarkCloud
  /\ UNCHANGED <<tfFailures, rawEmpty, filteredEmpty, lowRate, sourceStatus,
                 latched, recovery, lastStatus>>

CallMarkRawCloudSize ==
  /\ \E empty \in BOOLEAN : MarkRawCloudSize(empty)
  /\ UNCHANGED <<hasCloud, cloudAge, unseen, clouds, tfFailures,
                 filteredEmpty, lowRate, sourceStatus, latched, recovery,
                 lastStatus>>

CallMarkTf ==
  /\ MarkTfSuccess \/ MarkTfFailure
  /\ UNCHANGED <<hasCloud, cloudAge, unseen, clouds, rawEmpty, filteredEmpty,
                 lowRate, sourceStatus, latched, recovery, lastStatus>>

CallMarkFilteredCloudSize ==
  /\ \E empty \in BOOLEAN : MarkFilteredCloudSize(empty)
  /\ UNCHANGED <<hasCloud, cloudAge, unseen, clouds, tfFailures, rawEmpty,
                 lowRate, sourceStatus, latched, recovery, lastStatus>>

CallMarkSource ==
  /\ MarkSourceValid \/ \E s \in SourceFaults : MarkSourceInvalid(s)
  /\ UNCHANGED <<hasCloud, cloudAge, unseen, clouds, tfFailures, rawEmpty,
                 filteredEmpty, lowRate, latched, recovery, lastStatus>>

CallSetProcessingRate ==
  /\ \E low \in BOOLEAN : SetProcessingRate(low)
  /\ UNCHANGED <<hasCloud, cloudAge, unseen, clouds, tfFailures, rawEmpty,
                 filteredEmpty, sourceStatus, latched, recovery, lastStatus>>

WatchdogNext ==
  \/ CallMarkCloud
  \/ CallMarkRawCloudSize
  \/ CallMarkTf
  \/ CallMarkFilteredCloudSize
  \/ CallMarkSource
  \/ CallSetProcessingRate
  \/ CloudAges
  \/ Evaluate
  \/ Reset

WatchdogSpec == WatchdogInit /\ [][WatchdogNext]_watchdogVars

-----------------------------------------------------------------------------
(* Properties.                                                             *)

\* Every variable stays in its range: the counters between 0 and their
\* limits, the ages below their caps, and while the latch is shut fewer
\* healthy frames counted than a release takes (watchdog.cpp:100-118).
WatchdogTypeOK ==
  /\ hasCloud \in BOOLEAN
  /\ cloudAge \in 0 .. CloudFailTimeout + 1
  /\ unseen \in BOOLEAN
  /\ clouds \in 0 .. CloudRecoveryFrames
  /\ tfFailures \in 0 .. TfFailureLimit
  /\ rawEmpty \in 0 .. RawEmptyLimit
  /\ filteredEmpty \in 0 .. FilteredEmptyLimit
  /\ lowRate \in BOOLEAN
  /\ sourceStatus \in SourceFaults \cup {"OK"}
  /\ latched \in BOOLEAN
  /\ recovery \in 0 .. CloudRecoveryFrames - 1
  /\ lastStatus \in HealthStatus

\* Whatever the client does, a release of the latch takes all but one of the
\* clouds the configuration asks for to arrive after the last fault: a cloud
\* that arrived before the fault can be counted once, because a fault does
\* not consume cloud_sequence_ (watchdog.cpp:100-108).
AnyClientGate ==
  INSTANCE FailClosedGate WITH
    Need <- CloudRecoveryFrames - 1,
    open <- ~latched,
    evidence <- IF clouds < CloudRecoveryFrames - 1 THEN clouds
                ELSE CloudRecoveryFrames - 1

AnyClientNeedsClouds == AnyClientGate!GateSpec

=============================================================================
