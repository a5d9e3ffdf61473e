------------------------ MODULE CloudProcessorProofs ------------------------
(***************************************************************************)
(* Proofs about the cloud node, for every configuration that its           *)
(* validateParameters accepts: first about the watchdog on its own, under  *)
(* any order of calls, then the node's type invariant, the gate it         *)
(* promises, and the agreement between the source sequence and the         *)
(* distances it publishes.                                                 *)
(***************************************************************************)
EXTENDS CloudProcessor, TLAPS

-----------------------------------------------------------------------------
(* The watchdog.                                                           *)

\* A counter that stops at its limit stays between 0 and the limit.
LEMMA CountToRange ==
  ASSUME NEW limit \in Nat, NEW n \in 0 .. limit
  PROVE  /\ CountTo(n, limit) \in 0 .. limit
         /\ n <= CountTo(n, limit)
         /\ CountTo(n, limit) <= n + 1
BY DEF CountTo

\* A verdict before the latch is one of the health statuses.
LEMMA RawStatusIsHealthStatus ==
  ASSUME WatchdogTypeOK
  PROVE  RawStatus \in HealthStatus
BY DEF WatchdogTypeOK, RawStatus, HealthStatus, Degradations, Warnings,
       SourceFaults

\* The status of a node without clouds.
LEMMA TimeoutIsHealthStatus == "DEGRADED_CLOUD_TIMEOUT" \in HealthStatus
BY DEF HealthStatus, Degradations

\* The verdict preserves the type invariant; in particular, whatever an
\* evaluation counts, a latch that stays shut counted too few frames.
LEMMA EvaluateKeepsType ==
  ASSUME WatchdogTypeOK, Evaluate
  PROVE  WatchdogTypeOK'
<1> USE WatchdogAssumption
<1>1. RawStatus \in HealthStatus
  BY RawStatusIsHealthStatus
<1>2. /\ hasCloud' \in BOOLEAN
      /\ cloudAge' \in 0 .. CloudFailTimeout + 1
      /\ tfFailures' \in 0 .. TfFailureLimit
      /\ rawEmpty' \in 0 .. RawEmptyLimit
      /\ filteredEmpty' \in 0 .. FilteredEmptyLimit
      /\ lowRate' \in BOOLEAN
      /\ sourceStatus' \in SourceFaults \cup {"OK"}
  BY DEF WatchdogTypeOK, Evaluate
<1>3. CASE EvaluateFault
  BY <1>1, <1>2, <1>3 DEF WatchdogTypeOK, EvaluateFault
<1>4. CASE EvaluateOpen
  BY <1>1, <1>2, <1>4 DEF WatchdogTypeOK, EvaluateOpen
<1>5. CASE EvaluateRecovery
  <2>1. Progress \in Nat
    BY DEF WatchdogTypeOK, Progress
  <2>2. recovery' \in 0 .. CloudRecoveryFrames - 1
    BY <1>5, <2>1 DEF EvaluateRecovery, Releases
  <2>3. lastStatus' \in HealthStatus
    BY <1>1, <1>5, TimeoutIsHealthStatus DEF EvaluateRecovery
  <2>4. unseen' \in BOOLEAN /\ latched' \in BOOLEAN /\ clouds' = clouds
    BY <1>5 DEF EvaluateRecovery
  <2> QED
    BY <1>2, <2>2, <2>3, <2>4 DEF WatchdogTypeOK
<1> QED
  BY <1>3, <1>4, <1>5 DEF Evaluate

LEMMA WatchdogInitType == WatchdogInit => WatchdogTypeOK
<1> SUFFICES ASSUME WatchdogInit PROVE WatchdogTypeOK
  OBVIOUS
<1>1. /\ cloudAge \in 0 .. CloudFailTimeout + 1
      /\ clouds \in 0 .. CloudRecoveryFrames
      /\ tfFailures \in 0 .. TfFailureLimit
      /\ rawEmpty \in 0 .. RawEmptyLimit
      /\ filteredEmpty \in 0 .. FilteredEmptyLimit
      /\ recovery \in 0 .. CloudRecoveryFrames - 1
  BY WatchdogAssumption DEF WatchdogInit
<1> QED
  BY <1>1, TimeoutIsHealthStatus DEF WatchdogInit, WatchdogTypeOK

\* Any call in any order preserves the type invariant.
LEMMA WatchdogStepType ==
  WatchdogTypeOK /\ [WatchdogNext]_watchdogVars => WatchdogTypeOK'
<1> SUFFICES ASSUME WatchdogTypeOK, [WatchdogNext]_watchdogVars
             PROVE  WatchdogTypeOK'
  OBVIOUS
<1> USE WatchdogAssumption
<1>1. CASE CallMarkCloud
  BY <1>1, CountToRange DEF CallMarkCloud, MarkCloud, WatchdogTypeOK
<1>2. CASE CallMarkRawCloudSize
  BY <1>2, CountToRange
     DEF CallMarkRawCloudSize, MarkRawCloudSize, WatchdogTypeOK
<1>3. CASE CallMarkTf
  BY <1>3, CountToRange
     DEF CallMarkTf, MarkTfSuccess, MarkTfFailure, WatchdogTypeOK
<1>4. CASE CallMarkFilteredCloudSize
  BY <1>4, CountToRange
     DEF CallMarkFilteredCloudSize, MarkFilteredCloudSize, WatchdogTypeOK
<1>5. CASE CallMarkSource
  BY <1>5
     DEF CallMarkSource, MarkSourceValid, MarkSourceInvalid, WatchdogTypeOK
<1>6. CASE CallSetProcessingRate
  BY <1>6 DEF CallSetProcessingRate, SetProcessingRate, WatchdogTypeOK
<1>7. CASE CloudAges
  BY <1>7, CountToRange DEF CloudAges, WatchdogTypeOK
<1>8. CASE Evaluate
  BY <1>8, EvaluateKeepsType
<1>9. CASE Reset
  <2>1. /\ cloudAge' \in 0 .. CloudFailTimeout + 1
        /\ clouds' \in 0 .. CloudRecoveryFrames
        /\ tfFailures' \in 0 .. TfFailureLimit
        /\ rawEmpty' \in 0 .. RawEmptyLimit
        /\ filteredEmpty' \in 0 .. FilteredEmptyLimit
        /\ recovery' \in 0 .. CloudRecoveryFrames - 1
    BY <1>9 DEF Reset
  <2> QED
    BY <1>9, <2>1, TimeoutIsHealthStatus DEF Reset, WatchdogTypeOK
<1>10. CASE UNCHANGED watchdogVars
  BY <1>10 DEF watchdogVars, WatchdogTypeOK
<1> QED
  BY <1>1, <1>2, <1>3, <1>4, <1>5, <1>6, <1>7, <1>8, <1>9, <1>10
     DEF WatchdogNext

\* The type invariant holds whatever the client calls.
THEOREM WatchdogTypeCorrect == WatchdogSpec => []WatchdogTypeOK
<1>1. QED
  BY WatchdogInitType, WatchdogStepType, PTL DEF WatchdogSpec

-----------------------------------------------------------------------------
(* The release of the latch, for any client.                               *)

\* The inductive core: the healthy frames counted so far, and the one that
\* an unseen cloud may still add, are backed by the clouds that arrived
\* since the last fault and one cloud that may have arrived before it.
RecoveryBacked ==
  latched => recovery + (IF unseen THEN 1 ELSE 0) <= clouds + 1

LEMMA RecoveryBackedInit == WatchdogInit => RecoveryBacked
BY DEF WatchdogInit, RecoveryBacked

\* A verdict that recovers never raises what is counted and may be counted.
LEMMA EvaluateRecoveryCounts ==
  ASSUME WatchdogTypeOK, EvaluateRecovery
  PROVE  /\ clouds' = clouds
         /\ Releases => Progress <= recovery + (IF unseen THEN 1 ELSE 0)
         /\ latched' => /\ recovery' \in Nat
                        /\ recovery' + (IF unseen' THEN 1 ELSE 0)
                             <= recovery + (IF unseen THEN 1 ELSE 0)
<1> USE WatchdogAssumption
<1>1. recovery \in Nat /\ unseen \in BOOLEAN /\ CloudRecoveryFrames \in Nat \ {0}
  BY DEF WatchdogTypeOK
<1>2. clouds' = clouds
  BY DEF EvaluateRecovery
<1>3. latched' => /\ recovery' = Progress
                  /\ unseen' = (unseen /\ ~CountsForRecovery)
  BY DEF EvaluateRecovery
<1>4. CASE CountsForRecovery
  <2>1. unseen /\ Progress = recovery + 1
    BY <1>4 DEF CountsForRecovery, Progress
  <2>2. latched' => ~unseen'
    BY <1>3, <1>4
  <2> QED
    BY <1>1, <1>2, <1>3, <2>1, <2>2
<1>5. CASE ~CountsForRecovery
  <2>1. Progress = 0 \/ Progress = recovery
    BY <1>5 DEF Progress
  <2>2. latched' => unseen' = unseen
    BY <1>1, <1>3, <1>5
  <2> QED
    BY <1>1, <1>2, <1>3, <2>1, <2>2
<1> QED
  BY <1>4, <1>5

\* Any call in any order preserves the inductive core.
LEMMA RecoveryBackedStep ==
  WatchdogTypeOK /\ RecoveryBacked /\ [WatchdogNext]_watchdogVars
    => RecoveryBacked'
<1> SUFFICES ASSUME WatchdogTypeOK, RecoveryBacked, [WatchdogNext]_watchdogVars
             PROVE  RecoveryBacked'
  OBVIOUS
<1> USE WatchdogAssumption DEF RecoveryBacked, WatchdogTypeOK
<1>1. CASE CallMarkCloud
  BY <1>1 DEF CallMarkCloud, MarkCloud, CountTo
<1>2. CASE Evaluate
  <2>1. CASE EvaluateFault
    BY <2>1 DEF EvaluateFault
  <2>2. CASE EvaluateOpen
    BY <2>2 DEF EvaluateOpen
  <2>3. CASE EvaluateRecovery
    <3>1. latched
      BY <2>3 DEF EvaluateRecovery
    <3> QED
      BY <2>3, <3>1, EvaluateRecoveryCounts
  <2> QED
    BY <1>2, <2>1, <2>2, <2>3 DEF Evaluate
<1>3. CASE Reset
  BY <1>3 DEF Reset
<1>4. CASE UNCHANGED <<latched, recovery, unseen, clouds>>
  BY <1>4
<1> QED
  BY <1>1, <1>2, <1>3, <1>4
     DEF WatchdogNext, CallMarkRawCloudSize, CallMarkTf,
         CallMarkFilteredCloudSize, CallMarkSource, CallSetProcessingRate,
         CloudAges, watchdogVars

\* Every call is a step of the gate or leaves it alone.
LEMMA WatchdogStepRefines ==
  WatchdogTypeOK /\ RecoveryBacked /\ [WatchdogNext]_watchdogVars
    => [AnyClientGate!GateNext]_(AnyClientGate!gateVars)
<1> SUFFICES ASSUME WatchdogTypeOK, RecoveryBacked, [WatchdogNext]_watchdogVars
             PROVE  \/ AnyClientGate!GateNext
                    \/ UNCHANGED <<latched, clouds>>
  BY DEF AnyClientGate!gateVars
<1> USE WatchdogAssumption
<1>1. CASE CallMarkCloud
  <2>1. AnyClientGate!GateStep(FALSE, TRUE)
    BY <1>1 DEF CallMarkCloud, MarkCloud, CountTo, WatchdogTypeOK,
                AnyClientGate!GateStep, AnyClientGate!CountUpTo
  <2> QED
    BY <2>1 DEF AnyClientGate!GateNext
<1>2. CASE Evaluate
  <2>1. CASE EvaluateFault
    <3>1. AnyClientGate!GateStep(TRUE, FALSE)
      BY <2>1 DEF EvaluateFault, AnyClientGate!GateStep
    <3> QED
      BY <3>1 DEF AnyClientGate!GateNext
  <2>2. CASE EvaluateOpen
    BY <2>2 DEF EvaluateOpen
  <2>3. CASE EvaluateRecovery
    <3>1. Releases => clouds >= CloudRecoveryFrames - 1
      <4>1. latched
        BY <2>3 DEF EvaluateRecovery
      <4>2. Releases => Progress <= recovery + (IF unseen THEN 1 ELSE 0)
        BY <2>3, EvaluateRecoveryCounts
      <4>3. Progress \in Nat
        BY DEF WatchdogTypeOK, Progress
      <4> QED
        BY <4>1, <4>2, <4>3 DEF WatchdogTypeOK, RecoveryBacked, Releases
    <3>2. ~latched' => Releases
      BY <2>3 DEF EvaluateRecovery
    <3>3. clouds' = clouds /\ latched' \in BOOLEAN /\ clouds \in Nat
      BY <2>3 DEF EvaluateRecovery, WatchdogTypeOK
    <3>4. (~latched') \in BOOLEAN
      OBVIOUS
    <3>5. AnyClientGate!GateStep(FALSE, FALSE)
      BY <3>1, <3>2, <3>3, <3>4 DEF AnyClientGate!GateStep
    <3> QED
      BY <3>5 DEF AnyClientGate!GateNext
  <2> QED
    BY <1>2, <2>1, <2>2, <2>3 DEF Evaluate
<1>3. CASE Reset
  <2>1. AnyClientGate!GateStep(TRUE, FALSE)
    BY <1>3 DEF Reset, AnyClientGate!GateStep
  <2> QED
    BY <2>1 DEF AnyClientGate!GateNext
<1>4. CASE UNCHANGED <<latched, clouds>>
  BY <1>4
<1> QED
  BY <1>1, <1>2, <1>3, <1>4
     DEF WatchdogNext, CallMarkRawCloudSize, CallMarkTf,
         CallMarkFilteredCloudSize, CallMarkSource, CallSetProcessingRate,
         CloudAges, watchdogVars

LEMMA WatchdogInitRefines == WatchdogInit => AnyClientGate!GateInit
BY WatchdogAssumption DEF WatchdogInit, AnyClientGate!GateInit

\* For every configuration and every order of calls the watchdog is a
\* fail-closed gate that opens on all but one of the recovery frames.
THEOREM WatchdogIsGate == WatchdogSpec => AnyClientNeedsClouds
<1>1. WatchdogSpec => []RecoveryBacked
  BY RecoveryBackedInit, RecoveryBackedStep, WatchdogTypeCorrect, PTL
     DEF WatchdogSpec
<1> QED
  BY <1>1, WatchdogInitRefines, WatchdogStepRefines, WatchdogTypeCorrect, PTL
     DEF WatchdogSpec, AnyClientNeedsClouds, AnyClientGate!GateSpec

-----------------------------------------------------------------------------
(* The node's types.                                                       *)

\* The part of the type invariant the node adds to its watchdog's.
NodeTypeOK ==
  /\ StampTypeOK
  /\ hasData \in BOOLEAN
  /\ dataAge \in -(FutureTolerance + 1) .. DataAgeCap
  /\ startAge \in 0 .. MaxInterval + 1

\* An accepted cloud leaves the guard's and the node's counters in range.
LEMMA AcceptKeepsType ==
  ASSUME CloudTypeOK, NEW age \in StampAges, AcceptCloud(age)
  PROVE  /\ hasCloud' \in BOOLEAN
         /\ cloudAge' \in 0 .. CloudFailTimeout + 1
         /\ unseen' \in BOOLEAN
         /\ clouds' \in 0 .. CloudRecoveryFrames
         /\ sourceStatus' \in SourceFaults \cup {"OK"}
         /\ latched' \in BOOLEAN
         /\ recovery' \in 0 .. CloudRecoveryFrames - 1
         /\ lastStatus' \in HealthStatus
         /\ StampTypeOK'
<1> USE WatchdogAssumption, SourceTimestampAssumption
<1>1. clouds' \in 0 .. CloudRecoveryFrames
  BY CountToRange DEF AcceptCloud, MarkCloud, CloudTypeOK, WatchdogTypeOK
<1>2. StampTypeOK'
  BY DEF AcceptCloud, AcceptStamp, StampTypeOK
<1>3. cloudAge' \in 0 .. CloudFailTimeout + 1
  BY DEF AcceptCloud, MarkCloud
<1> QED
  BY <1>1, <1>2, <1>3
     DEF AcceptCloud, MarkCloud, MarkSourceValid, CloudTypeOK, WatchdogTypeOK

\* A cloud whose stamp is refused or passed over.
LEMMA NoteKeepsType ==
  ASSUME CloudTypeOK, NEW verdict, NoteStamp(verdict)
  PROVE  StampTypeOK'
BY SourceTimestampAssumption DEF NoteStamp, CloudTypeOK, StampTypeOK

LEMMA CloudInitType == CloudInit => CloudTypeOK
<1> SUFFICES ASSUME CloudInit PROVE CloudTypeOK
  OBVIOUS
<1>1. WatchdogTypeOK
  BY WatchdogInitType DEF CloudInit
<1>2. /\ 0 \in StampAges
      /\ 0 \in 0 .. MaxRepeated
      /\ 0 \in -(FutureTolerance + 1) .. DataAgeCap
      /\ 0 \in 0 .. MaxInterval + 1
      /\ 0 \in 0 .. CloudRecoveryFrames
  <2>1. /\ FutureTolerance \in Nat /\ MaxSensorAge \in Nat
        /\ MaxRepeated \in Nat /\ DataAgeCap \in Nat
        /\ MaxInterval \in Nat /\ CloudRecoveryFrames \in Nat
    BY CloudAssumption, SourceTimestampAssumption, WatchdogAssumption
  <2> QED
    BY <2>1 DEF StampAges
<1>3. NodeTypeOK
  BY <1>2 DEF CloudInit, StampInit, StampTypeOK, NodeTypeOK
<1> QED
  BY <1>1, <1>3 DEF NodeTypeOK, CloudTypeOK

\* Every callback and every tick preserves the type invariant.
LEMMA CloudStepType ==
  CloudTypeOK /\ [CloudNext]_cloudVars => CloudTypeOK'
<1> SUFFICES ASSUME CloudTypeOK, [CloudNext]_cloudVars
             PROVE  CloudTypeOK'
  OBVIOUS
<1> USE WatchdogAssumption, SourceTimestampAssumption, CloudAssumption
<1>1. CASE RejectCloud
  BY <1>1 DEF RejectCloud, MarkSourceInvalid, SourceFaults, stampVars,
              nodeVars, CloudTypeOK, WatchdogTypeOK, StampTypeOK
<1>2. ASSUME NEW zero \in BOOLEAN, NEW age \in StampAges,
             RefuseStamp(zero, age)
      PROVE  CloudTypeOK'
  <2>1. StampTypeOK'
    BY <1>2, NoteKeepsType DEF RefuseStamp
  <2>2. clouds' \in 0 .. CloudRecoveryFrames /\ cloudAge' = 0
    BY <1>2, CountToRange
       DEF RefuseStamp, MarkCloud, CloudTypeOK, WatchdogTypeOK
  <2> QED
    BY <1>2, <2>1, <2>2
       DEF RefuseStamp, MarkCloud, MarkSourceInvalid, nodeVars, CloudTypeOK,
           WatchdogTypeOK
<1>3. ASSUME NEW age \in StampAges, PassOverStamp(age)
      PROVE  CloudTypeOK'
  <2>1. StampTypeOK'
    BY <1>3, NoteKeepsType DEF PassOverStamp
  <2>2. clouds' \in 0 .. CloudRecoveryFrames /\ cloudAge' = 0
    BY <1>3, CountToRange
       DEF PassOverStamp, MarkCloud, CloudTypeOK, WatchdogTypeOK
  <2> QED
    BY <1>3, <2>1, <2>2
       DEF PassOverStamp, MarkCloud, nodeVars, CloudTypeOK, WatchdogTypeOK
<1>4. ASSUME NEW age \in StampAges, FailTransform(age)
      PROVE  CloudTypeOK'
  <2>1. AcceptCloud(age)
    BY <1>4 DEF FailTransform
  <2>2. tfFailures' \in 0 .. TfFailureLimit
    BY <1>4, CountToRange
       DEF FailTransform, MarkTfFailure, CloudTypeOK, WatchdogTypeOK
  <2> QED
    BY <1>4, <2>1, <2>2, AcceptKeepsType
       DEF FailTransform, CloudTypeOK, WatchdogTypeOK
<1>5. ASSUME NEW age \in StampAges, NEW raw \in BOOLEAN,
             NEW filtered \in BOOLEAN, ProcessCloud(age, raw, filtered)
      PROVE  CloudTypeOK'
  <2>1. AcceptCloud(age)
    BY <1>5 DEF ProcessCloud
  <2>2. /\ rawEmpty' \in 0 .. RawEmptyLimit
        /\ filteredEmpty' \in 0 .. FilteredEmptyLimit
        /\ tfFailures' \in 0 .. TfFailureLimit
    BY <1>5, CountToRange
       DEF ProcessCloud, MarkRawCloudSize, MarkFilteredCloudSize,
           MarkTfSuccess, CloudTypeOK, WatchdogTypeOK
  <2>3. hasData' \in BOOLEAN /\ dataAge' \in -(FutureTolerance + 1) .. DataAgeCap
    BY <1>5 DEF ProcessCloud, StampAges
  <2>4. startAge' \in 0 .. MaxInterval + 1
    BY <1>5 DEF ProcessCloud, UpdateProcessingRate
  <2>5. lowRate' \in BOOLEAN
    <3>1. lowRate' = (startAge > MaxInterval) \/ lowRate' = lowRate
      BY <1>5, Zenon DEF ProcessCloud, UpdateProcessingRate, SetProcessingRate
    <3>2. (startAge > MaxInterval) \in BOOLEAN /\ lowRate \in BOOLEAN
      BY DEF CloudTypeOK, WatchdogTypeOK
    <3> QED
      BY <3>1, <3>2, Zenon
  <2> QED
    BY <2>1, <2>2, <2>3, <2>4, <2>5, AcceptKeepsType
       DEF CloudTypeOK, WatchdogTypeOK
<1>6. CASE OnPublishTimer
  <2>1. WatchdogTypeOK'
    BY <1>6, EvaluateKeepsType DEF OnPublishTimer, CloudTypeOK
  <2> QED
    BY <1>6, <2>1 DEF OnPublishTimer, stampVars, nodeVars, CloudTypeOK,
                      StampTypeOK
<1>7. CASE Tick
  <2>1. WatchdogTypeOK'
    BY <1>7, WatchdogStepType DEF Tick, WatchdogNext, CloudTypeOK
  <2>2. StampTypeOK'
    BY <1>7 DEF Tick, StampAging, CloudTypeOK, StampTypeOK, StampAges
  <2>3. /\ hasData' \in BOOLEAN
        /\ dataAge' \in -(FutureTolerance + 1) .. DataAgeCap
    BY <1>7 DEF Tick, CloudTypeOK
  <2>4. startAge' \in 0 .. MaxInterval + 1
    BY <1>7 DEF Tick, CountTo, CloudTypeOK
  <2> QED
    BY <2>1, <2>2, <2>3, <2>4 DEF CloudTypeOK
<1>8. CASE UNCHANGED cloudVars
  BY <1>8 DEF cloudVars, watchdogVars, stampVars, nodeVars, CloudTypeOK,
              WatchdogTypeOK, StampTypeOK
<1> QED
  BY <1>1, <1>2, <1>3, <1>4, <1>5, <1>6, <1>7, <1>8 DEF CloudNext, OnCloud, LoseCloud, FinishCloud

\* The type invariant of the node, for every configuration.
THEOREM CloudTypeCorrect == CloudSpec => []CloudTypeOK
<1>1. QED
  BY CloudInitType, CloudStepType, PTL DEF CloudSpec

-----------------------------------------------------------------------------
(* The gate.                                                               *)

\* The inductive core: after a fault and before the next cloud the verdict
\* stays degraded, so nothing is counted; from then on every counted frame,
\* and the one an unseen cloud may add, is a cloud after the fault.
CloudsBackRecovery ==
  latched =>
    IF clouds = 0 THEN recovery = 0 /\ IsDegraded(RawStatus)
                  ELSE recovery + (IF unseen THEN 1 ELSE 0) <= clouds

LEMMA CloudsBackRecoveryInit == CloudInit => CloudsBackRecovery
BY DEF CloudInit, WatchdogInit, CloudsBackRecovery, RawStatus, IsDegraded,
       Degradations

\* A cloud backs the frame it may add.
LEMMA MarkCloudBacks ==
  ASSUME CloudTypeOK, CloudsBackRecovery, MarkCloud, UNCHANGED <<latched, recovery>>
  PROVE  CloudsBackRecovery'
<1>1. clouds' # 0 /\ unseen' = TRUE
  BY WatchdogAssumption
     DEF MarkCloud, CountTo, CloudTypeOK, WatchdogTypeOK
<1>2. latched => recovery + 1 <= clouds'
  BY WatchdogAssumption
     DEF MarkCloud, CountTo, CloudTypeOK, WatchdogTypeOK, CloudsBackRecovery
<1> QED
  BY <1>1, <1>2 DEF CloudsBackRecovery

\* A malformed cloud and the passing of time leave a degraded verdict so.
LEMMA DegradedStays ==
  ASSUME CloudTypeOK, IsDegraded(RawStatus), RejectCloud \/ Tick
  PROVE  IsDegraded(RawStatus')
<1> USE DEF IsDegraded
<1>1. CASE RejectCloud
  BY <1>1 DEF RejectCloud, MarkSourceInvalid, RawStatus, Degradations,
              SourceFaults
<1>2. CASE Tick
  <2>1. /\ hasCloud' = hasCloud /\ tfFailures' = tfFailures
        /\ rawEmpty' = rawEmpty /\ filteredEmpty' = filteredEmpty
        /\ lowRate' = lowRate /\ sourceStatus' = sourceStatus
    BY <1>2 DEF Tick, CloudAges
  <2>2. CASE ~hasCloud' \/ cloudAge' > CloudFailTimeout
    BY <2>2 DEF RawStatus, Degradations
  <2>3. CASE ~(~hasCloud' \/ cloudAge' > CloudFailTimeout)
    <3>1. ~(~hasCloud \/ cloudAge > CloudFailTimeout)
      BY <1>2, <2>1, <2>3, WatchdogAssumption
         DEF Tick, CloudAges, CountTo, CloudTypeOK, WatchdogTypeOK
    <3>2. RawStatus \notin {"OK", "WARN_CLOUD_STALE"}
      BY DEF Degradations, SourceFaults
    <3>3. RawStatus' = RawStatus
      BY <2>1, <2>3, <3>1, <3>2 DEF RawStatus
    <3> QED
      BY <3>3
  <2> QED
    BY <2>2, <2>3
<1> QED
  BY <1>1, <1>2

\* Every callback and every tick preserves the inductive core.
LEMMA CloudsBackRecoveryStep ==
  CloudTypeOK /\ CloudsBackRecovery /\ [CloudNext]_cloudVars
    => CloudsBackRecovery'
<1> SUFFICES ASSUME CloudTypeOK, CloudsBackRecovery, [CloudNext]_cloudVars
             PROVE  CloudsBackRecovery'
  OBVIOUS
<1>1. CASE RejectCloud \/ Tick
  <2>1. /\ latched' = latched /\ clouds' = clouds
        /\ recovery' = recovery /\ unseen' = unseen
    BY <1>1 DEF RejectCloud, Tick, CloudAges
  <2>2. IsDegraded(RawStatus) => IsDegraded(RawStatus')
    BY <1>1, DegradedStays
  <2> QED
    BY <2>1, <2>2 DEF CloudsBackRecovery, IsDegraded
<1>2. CASE OnCloud /\ ~RejectCloud
  <2>1. MarkCloud /\ UNCHANGED <<latched, recovery>>
    BY <1>2 DEF OnCloud, LoseCloud, FinishCloud, RefuseStamp, PassOverStamp,
           FailTransform, ProcessCloud, AcceptCloud
  <2> QED
    BY <2>1, MarkCloudBacks
<1>3. CASE OnPublishTimer
  <2>1. CASE EvaluateFault
    <3>1. clouds' = 0 /\ recovery' = 0
      BY <2>1 DEF EvaluateFault
    <3>2. IsDegraded(RawStatus')
      BY <1>3, <2>1 DEF OnPublishTimer, Evaluate, EvaluateFault, RawStatus
    <3> QED
      BY <3>1, <3>2 DEF CloudsBackRecovery, IsDegraded
  <2>2. CASE EvaluateOpen
    BY <2>2 DEF EvaluateOpen, CloudsBackRecovery
  <2>3. CASE EvaluateRecovery
    <3>1. latched /\ clouds # 0
      BY <2>3 DEF EvaluateRecovery, CloudsBackRecovery
    <3>2. WatchdogTypeOK
      BY DEF CloudTypeOK
    <3>3. latched' => recovery' + (IF unseen' THEN 1 ELSE 0) <= clouds'
      BY <2>3, <3>1, <3>2, EvaluateRecoveryCounts
         DEF CloudsBackRecovery, WatchdogTypeOK
    <3>4. clouds' # 0
      BY <2>3, <3>1 DEF EvaluateRecovery
    <3> QED
      BY <3>3, <3>4 DEF CloudsBackRecovery
  <2> QED
    BY <1>3, <2>1, <2>2, <2>3 DEF OnPublishTimer, Evaluate
<1>4. CASE UNCHANGED cloudVars
  BY <1>4 DEF cloudVars, watchdogVars, CloudsBackRecovery, RawStatus,
              IsDegraded
<1> QED
  BY <1>1, <1>2, <1>3, <1>4 DEF CloudNext, OnCloud, LoseCloud, FinishCloud

\* Every callback and every tick is a step of the gate or leaves it alone.
LEMMA CloudStepRefines ==
  CloudTypeOK /\ CloudsBackRecovery /\ [CloudNext]_cloudVars
    => [CloudGate!GateNext]_(CloudGate!gateVars)
<1> SUFFICES ASSUME CloudTypeOK, CloudsBackRecovery, [CloudNext]_cloudVars
             PROVE  \/ CloudGate!GateNext
                    \/ UNCHANGED <<latched, clouds>>
  BY DEF CloudGate!gateVars
<1>1. CASE OnCloud /\ ~RejectCloud
  <2>1. MarkCloud /\ latched' = latched
    BY <1>1 DEF OnCloud, LoseCloud, FinishCloud, RefuseStamp, PassOverStamp,
           FailTransform, ProcessCloud, AcceptCloud
  <2>2. CloudGate!GateStep(FALSE, TRUE)
    BY <2>1 DEF MarkCloud, CountTo, CloudTypeOK, WatchdogTypeOK,
                CloudGate!GateStep, CloudGate!CountUpTo
  <2> QED
    BY <2>2 DEF CloudGate!GateNext
<1>2. CASE OnPublishTimer
  <2>1. CASE EvaluateFault
    <3>1. CloudGate!GateStep(TRUE, FALSE)
      BY <2>1 DEF EvaluateFault, CloudGate!GateStep
    <3> QED
      BY <3>1 DEF CloudGate!GateNext
  <2>2. CASE EvaluateOpen
    BY <2>2 DEF EvaluateOpen
  <2>3. CASE EvaluateRecovery
    <3>1. /\ clouds' = clouds
          /\ latched
          /\ clouds # 0
          /\ ~latched' => Releases
      BY <2>3, EvaluateRecoveryCounts
         DEF EvaluateRecovery, CloudsBackRecovery, CloudTypeOK
    <3>2. Releases => clouds >= CloudRecoveryFrames
      <4>1. Releases => Progress <= recovery + (IF unseen THEN 1 ELSE 0)
        BY <2>3, EvaluateRecoveryCounts DEF CloudTypeOK
      <4>2. Progress \in Nat
        BY DEF CloudTypeOK, WatchdogTypeOK, Progress
      <4> QED
        BY <3>1, <4>1, <4>2, WatchdogAssumption
           DEF CloudTypeOK, WatchdogTypeOK, CloudsBackRecovery, Releases
    <3>3. CloudGate!GateStep(FALSE, FALSE)
      BY <3>1, <3>2 DEF CloudGate!GateStep
    <3> QED
      BY <3>3 DEF CloudGate!GateNext
  <2> QED
    BY <1>2, <2>1, <2>2, <2>3 DEF OnPublishTimer, Evaluate
<1>3. CASE UNCHANGED <<latched, clouds>>
  BY <1>3
<1> QED
  BY <1>1, <1>2, <1>3
     DEF CloudNext, OnCloud, LoseCloud, FinishCloud, RejectCloud, Tick, CloudAges, cloudVars,
         watchdogVars

LEMMA CloudInitRefines == CloudInit => CloudGate!GateInit
BY DEF CloudInit, WatchdogInit, CloudGate!GateInit

\* The node is a fail-closed gate that opens on the full number of recovery
\* clouds, whatever the configuration and the order of the callbacks.
THEOREM CloudNodeIsGate == CloudSpec => ReleaseNeedsClouds
<1>1. CloudSpec => []CloudsBackRecovery
  BY CloudsBackRecoveryInit, CloudsBackRecoveryStep, CloudTypeCorrect, PTL
     DEF CloudSpec
<1> QED
  BY <1>1, CloudInitRefines, CloudStepRefines, CloudTypeCorrect, PTL
     DEF CloudSpec, ReleaseNeedsClouds, CloudGate!GateSpec

-----------------------------------------------------------------------------
(* The source sequence and the distances.                                  *)

LEMMA SequenceNamesDataInit == CloudInit => SequenceNamesData
BY DEF CloudInit, StampInit, SequenceNamesData

\* SequenceNamesData is inductive.
LEMMA SequenceNamesDataStep ==
  CloudTypeOK /\ SequenceNamesData /\ [CloudNext]_cloudVars
    => SequenceNamesData'
<1> SUFFICES ASSUME CloudTypeOK, SequenceNamesData, [CloudNext]_cloudVars
             PROVE  SequenceNamesData'
  OBVIOUS
<1>1. CASE UNCHANGED <<hasStamp, stampAge, tfFailures, hasData, dataAge>>
  BY <1>1 DEF SequenceNamesData
<1>2. ASSUME NEW age \in StampAges, FailTransform(age)
      PROVE  SequenceNamesData'
  BY <1>2, WatchdogAssumption
     DEF FailTransform, MarkTfFailure, CountTo, CloudTypeOK, WatchdogTypeOK,
         SequenceNamesData
<1>3. ASSUME NEW age \in StampAges, NEW raw \in BOOLEAN,
             NEW filtered \in BOOLEAN, ProcessCloud(age, raw, filtered)
      PROVE  SequenceNamesData'
  <2>1. StampVerdict(FALSE, age) = "ACCEPTED" /\ stampAge' = age /\ dataAge' = age
    BY <1>3 DEF ProcessCloud, AcceptCloud, AcceptStamp
  <2>2. Live => age <= MaxSensorAge
    BY <2>1, SourceTimestampAssumption DEF StampVerdict, StampAges
  <2>3. hasData' = TRUE
    BY <1>3 DEF ProcessCloud
  <2> QED
    BY <2>1, <2>2, <2>3 DEF SequenceNamesData
<1>4. CASE Tick
  <2>1. /\ hasStamp' = hasStamp /\ tfFailures' = tfFailures
        /\ hasData' = hasData
    BY <1>4 DEF Tick, StampAging, CloudAges
  <2>2. CASE Live /\ hasStamp /\ tfFailures = 0
    <3>1. /\ hasData
          /\ stampAge = IF dataAge <= MaxSensorAge THEN dataAge
                        ELSE MaxSensorAge + 1
      BY <2>2 DEF SequenceNamesData
    <3>2. stampAge' = IF stampAge <= MaxSensorAge THEN stampAge + 1
                      ELSE stampAge
      BY <1>4, <2>2 DEF Tick, StampAging
    <3>3. dataAge' = IF dataAge < DataAgeCap THEN dataAge + 1 ELSE dataAge
      BY <1>4, <3>1 DEF Tick
    <3> QED
      BY <2>1, <3>1, <3>2, <3>3, CloudAssumption, SourceTimestampAssumption
         DEF SequenceNamesData, CloudTypeOK
  <2> QED
    BY <2>1, <2>2 DEF SequenceNamesData
<1> QED
  BY <1>1, <1>2, <1>3, <1>4
     DEF CloudNext, OnCloud, LoseCloud, FinishCloud, RejectCloud, RefuseStamp, PassOverStamp,
         NoteStamp, OnPublishTimer, Evaluate, stampVars, nodeVars, cloudVars,
         watchdogVars

\* With no transform failure pending the published source sequence belongs
\* to the distances published with it, for every configuration.
THEOREM SequenceNamesItsData == CloudSpec => []SequenceNamesData
<1>1. QED
  BY SequenceNamesDataInit, SequenceNamesDataStep, CloudTypeCorrect, PTL
     DEF CloudSpec

-----------------------------------------------------------------------------
(* Clouds that bring no data.                                              *)

LEMMA CloudNumbers ==
  /\ CloudFailTimeout \in Nat \ {0}
  /\ TfFailureLimit \in Nat \ {0} /\ MaxRepeated \in Nat \ {0}
  /\ CloudRecoveryFrames \in Nat \ {0}
  /\ MaxSensorAge \in Nat \ {0} /\ FutureTolerance \in Nat
  /\ DataAgeCap \in Nat /\ DataAgeCap > MaxSensorAge
BY WatchdogAssumption, SourceTimestampAssumption, CloudAssumption

\* The clouds that brought no data since the last that did.
Fruitless ==
  tfFailures * MaxRepeated
    + (IF repeated < MaxRepeated THEN repeated ELSE MaxRepeated - 1)

\* Every cloud counted for the recovery, and one that will be, was fruitless.
FruitlessRecovery ==
  /\ latched
  /\ clouds # 0 =>
       /\ recovery <= Fruitless
       /\ sourceStatus = "OK" =>
            recovery + (IF unseen THEN 1 ELSE 0) <= Fruitless

\* What the node's type invariant says, written out.
LEMMA CloudTypes ==
  ASSUME CloudTypeOK
  PROVE  /\ hasCloud \in BOOLEAN /\ cloudAge \in 0 .. CloudFailTimeout + 1
         /\ unseen \in BOOLEAN /\ clouds \in 0 .. CloudRecoveryFrames
         /\ tfFailures \in 0 .. TfFailureLimit /\ tfFailures \in Nat
         /\ sourceStatus \in SourceFaults \cup {"OK"}
         /\ latched \in BOOLEAN /\ recovery \in 0 .. CloudRecoveryFrames - 1
         /\ hasStamp \in BOOLEAN /\ stampAge \in Int /\ stampAge >= -(FutureTolerance + 1)
         /\ stampAge <= MaxSensorAge + 1
         /\ repeated \in 0 .. MaxRepeated /\ repeated \in Nat
         /\ hasData \in BOOLEAN /\ dataAge \in Int
BY CloudNumbers DEF CloudTypeOK, WatchdogTypeOK, StampTypeOK, StampAges

\* How the count of fruitless clouds grows.
LEMMA FruitlessGrows ==
  ASSUME NEW n \in Nat, NEW r \in 0 .. MaxRepeated
  PROVE  LET count(m, s) == m * MaxRepeated
                            + (IF s < MaxRepeated THEN s ELSE MaxRepeated - 1)
         IN  /\ count(n, r) \in Nat
             /\ count(n + 1, 0) >= count(n, r) + 1
             /\ r + 1 < MaxRepeated => count(n, r + 1) = count(n, r) + 1
             /\ r < MaxRepeated => count(n, r + 1) >= count(n, r)
<1>1. n * MaxRepeated \in Nat
      /\ (n + 1) * MaxRepeated = n * MaxRepeated + MaxRepeated
  BY CloudNumbers, SMT
<1> QED
  BY <1>1, CloudNumbers

LEMMA FruitlessIsSilent ==
  ASSUME CloudTypeOK, tfFailures < TfFailureLimit
  PROVE  Fruitless \in Nat /\ Fruitless <= SilentClouds
<1> DEFINE L == TfFailureLimit
           R == MaxRepeated
           n == tfFailures
<1>1. L \in Nat /\ R \in Nat \ {0} /\ n \in Nat /\ n <= L - 1
      /\ repeated \in Nat
  BY CloudNumbers, CloudTypes
<1>2. n * R \in Nat /\ L * R \in Nat
  BY <1>1, SMT
<1>3. n * R + R <= L * R
  <2>1. (L - 1 - n) * R >= 0
    <3>1. L - 1 - n \in Nat
      BY <1>1
    <3> HIDE DEF L, n, R
    <3> QED
      BY <1>1, <3>1, SMT
  <2>2. (L - 1 - n) * R = L * R - R - n * R
    BY <1>1, SMT
  <2> QED
    BY <1>1, <1>2, <2>1, <2>2
<1> QED
  BY <1>1, <1>2, <1>3 DEF Fruitless, SilentClouds

\* A verdict that is not degraded finds a recent cloud and no fault.
LEMMA HealthyVerdict ==
  ASSUME CloudTypeOK, ~IsDegraded(RawStatus)
  PROVE  /\ hasCloud /\ cloudAge <= CloudFailTimeout
         /\ sourceStatus = "OK" /\ tfFailures < TfFailureLimit
<1>1. /\ "DEGRADED_CLOUD_TIMEOUT" \in Degradations
      /\ "DEGRADED_TF_FAILED" \in Degradations
      /\ SourceFaults \subseteq Degradations
  BY DEF Degradations
<1>2. hasCloud /\ ~(cloudAge > CloudFailTimeout)
  BY <1>1 DEF RawStatus, IsDegraded
<1>3. sourceStatus = "OK"
  BY <1>1, <1>2, CloudTypes DEF RawStatus, IsDegraded
<1>4. ~(tfFailures >= TfFailureLimit)
  BY <1>1, <1>2, <1>3 DEF RawStatus, IsDegraded
<1> QED
  BY <1>2, <1>3, <1>4, CloudTypes, CloudNumbers

\* A malformed cloud, or one whose stamp is refused.
LEMMA CloudIsRefused ==
  ASSUME CloudTypeOK, NEW zero \in BOOLEAN, NEW age \in StampAges,
         RefuseStamp(zero, age) \/ RejectCloud
  PROVE  /\ UNCHANGED <<tfFailures, latched, recovery, hasStamp, stampAge,
                        hasData, dataAge>>
         /\ hasCloud => hasCloud'
         /\ sourceStatus' # "OK"
         /\ \/ repeated' = repeated
            \/ repeated < MaxRepeated /\ repeated' = repeated + 1
         /\ Fruitless \in Nat /\ Fruitless' \in Nat /\ Fruitless' >= Fruitless
         /\ CloudsBackRecovery /\ FruitlessRecovery => FruitlessRecovery'
<1>1. /\ UNCHANGED <<tfFailures, latched, recovery, hasStamp, stampAge,
                     hasData, dataAge>>
      /\ hasCloud => hasCloud'
      /\ sourceStatus' # "OK"
      /\ repeated' = repeated \/ (repeated < MaxRepeated /\ repeated' = repeated + 1)
  BY DEF RefuseStamp, RejectCloud, MarkCloud, MarkSourceInvalid, NoteStamp,
         nodeVars, stampVars, SourceFaults
<1>2. tfFailures * MaxRepeated \in Nat
  BY CloudTypes, CloudNumbers, SMT
<1>3. Fruitless \in Nat /\ Fruitless' \in Nat /\ Fruitless' >= Fruitless
  <2>1. Fruitless' = tfFailures * MaxRepeated
          + (IF repeated' < MaxRepeated THEN repeated' ELSE MaxRepeated - 1)
    BY <1>1 DEF Fruitless
  <2> QED
    BY <1>1, <1>2, <2>1, CloudTypes, CloudNumbers DEF Fruitless
<1>4. CloudsBackRecovery /\ FruitlessRecovery => FruitlessRecovery'
  <2> SUFFICES ASSUME CloudsBackRecovery, FruitlessRecovery
               PROVE  FruitlessRecovery'
    OBVIOUS
  <2>1. recovery <= Fruitless
    BY <1>3 DEF CloudsBackRecovery, FruitlessRecovery
  <2> QED
    BY <1>1, <1>3, <2>1, CloudTypes, CloudNumbers DEF FruitlessRecovery
<1> QED
  BY <1>1, <1>3, <1>4

\* A recovery that was fruitless so far stays so with one more cloud that
\* brings no data.
LEMMA FruitlessGoesOn ==
  ASSUME CloudTypeOK, CloudsBackRecovery, FruitlessRecovery,
         UNCHANGED <<latched, recovery>>, unseen' \in BOOLEAN,
         Fruitless \in Nat, Fruitless' \in Nat, Fruitless' >= Fruitless + 1
  PROVE  FruitlessRecovery'
<1>1. recovery <= Fruitless
  BY DEF CloudsBackRecovery, FruitlessRecovery
<1> QED
  BY <1>1, CloudTypes, CloudNumbers DEF FruitlessRecovery

\* A cloud whose stamp repeats the last one.
LEMMA CloudIsPassedOver ==
  ASSUME Live, CloudTypeOK, NEW age \in StampAges, PassOverStamp(age)
  PROVE  /\ UNCHANGED <<tfFailures, sourceStatus, hasStamp, stampAge, hasData,
                        dataAge>>
         /\ hasCloud' = TRUE /\ cloudAge' = 0
         /\ repeated' = repeated + 1 /\ repeated + 1 < MaxRepeated
         /\ hasStamp /\ stampAge <= MaxSensorAge
         /\ Fruitless \in Nat /\ Fruitless' = Fruitless + 1
         /\ CloudsBackRecovery /\ FruitlessRecovery => FruitlessRecovery'
<1>1. /\ age <= MaxSensorAge /\ hasStamp /\ age = stampAge
      /\ repeated + 1 < MaxRepeated
  <2>1. StampVerdict(FALSE, age) = "PASSED_OVER"
    BY Zenon DEF PassOverStamp
  <2>2. age \in Int
    BY CloudNumbers DEF StampAges
  <2>3. /\ ~(age > MaxSensorAge) /\ hasStamp /\ age = stampAge
        /\ ~(repeated + 1 >= MaxRepeated)
    BY <2>1, <2>2 DEF StampVerdict
  <2> QED
    BY <2>2, <2>3, CloudNumbers, CloudTypes
<1>2. repeated' = repeated + 1
  BY <1>1, CloudTypes, CloudNumbers DEF PassOverStamp, NoteStamp, Repeats
<1>3. /\ UNCHANGED <<tfFailures, sourceStatus, latched, recovery, hasStamp,
                     stampAge, hasData, dataAge>>
      /\ hasCloud' = TRUE /\ cloudAge' = 0 /\ unseen' = TRUE
  BY DEF PassOverStamp, MarkCloud, NoteStamp, nodeVars
<1>4. Fruitless \in Nat /\ Fruitless' = Fruitless + 1
  BY <1>1, <1>2, <1>3, CloudTypes, FruitlessGrows DEF Fruitless
<1> QED
  BY <1>1, <1>2, <1>3, <1>4, FruitlessGoesOn

\* A cloud whose stamp is accepted and whose transform fails.
LEMMA CloudIsLost ==
  ASSUME Live, CloudTypeOK, NEW age \in StampAges, FailTransform(age),
         tfFailures' < TfFailureLimit
  PROVE  /\ UNCHANGED <<hasData, dataAge>>
         /\ hasCloud' = TRUE /\ cloudAge' = 0
         /\ sourceStatus' = "OK" /\ hasStamp' = TRUE /\ stampAge' = age
         /\ repeated' = 0 /\ tfFailures' = tfFailures + 1
         /\ tfFailures < TfFailureLimit
         /\ age >= -FutureTolerance /\ age \in Int
         /\ Fruitless \in Nat /\ Fruitless' \in Nat
         /\ Fruitless' >= Fruitless + 1
         /\ CloudsBackRecovery /\ FruitlessRecovery => FruitlessRecovery'
<1>1. age >= -FutureTolerance /\ age \in Int
  BY CloudNumbers DEF FailTransform, AcceptCloud, StampVerdict, StampAges
<1>2. tfFailures' = tfFailures + 1 /\ tfFailures < TfFailureLimit
  BY CloudTypes, CloudNumbers DEF FailTransform, MarkTfFailure, CountTo
<1>3. /\ UNCHANGED <<latched, recovery, hasData, dataAge>>
      /\ hasCloud' = TRUE /\ cloudAge' = 0 /\ unseen' = TRUE
      /\ sourceStatus' = "OK" /\ hasStamp' = TRUE /\ stampAge' = age
      /\ repeated' = 0
  BY DEF FailTransform, AcceptCloud, AcceptStamp, MarkCloud, MarkSourceValid
<1>4. Fruitless \in Nat /\ Fruitless' \in Nat /\ Fruitless' >= Fruitless + 1
  <2>1. 0 \in 0 .. MaxRepeated /\ tfFailures + 1 \in Nat
    BY CloudTypes, CloudNumbers
  <2> QED
    BY <1>2, <1>3, <2>1, CloudTypes, CloudNumbers, FruitlessGrows DEF Fruitless
<1> QED
  BY <1>1, <1>2, <1>3, <1>4, FruitlessGoesOn

\* A degraded verdict shuts the latch and starts the count over; a recovery
\* whose clouds were all fruitless does not end, if it takes more clouds than
\* can be silent.
LEMMA FruitlessStaysShut ==
  ASSUME CloudRecoveryFrames > SilentClouds, CloudTypeOK, CloudsBackRecovery,
         IsDegraded(RawStatus) \/ FruitlessRecovery, OnPublishTimer
  PROVE  FruitlessRecovery' /\ IsDegraded(lastStatus')
<1>1. /\ UNCHANGED <<tfFailures, sourceStatus, repeated>>
      /\ Fruitless' = Fruitless
  BY DEF OnPublishTimer, Evaluate, stampVars, nodeVars, Fruitless
<1>2. CASE EvaluateFault
  <2>1. latched' /\ clouds' = 0 /\ lastStatus' = RawStatus /\ IsDegraded(RawStatus)
    BY <1>2 DEF EvaluateFault
  <2>2. FruitlessRecovery'
    BY <2>1 DEF FruitlessRecovery
  <2>3. IsDegraded(lastStatus')
    BY <2>1 DEF IsDegraded
  <2> QED
    BY <2>2, <2>3
<1>3. CASE EvaluateOpen
  BY <1>3 DEF EvaluateOpen, FruitlessRecovery
<1>4. CASE EvaluateRecovery
  <2>1. /\ latched /\ ~IsDegraded(RawStatus) /\ clouds' = clouds
        /\ unseen' = (unseen /\ ~CountsForRecovery)
        /\ latched' = ~Releases
        /\ recovery' = IF Releases THEN 0 ELSE Progress
        /\ lastStatus' = IF Releases THEN RawStatus ELSE "DEGRADED_CLOUD_TIMEOUT"
    BY <1>4 DEF EvaluateRecovery
  <2>2. clouds # 0 /\ sourceStatus = "OK" /\ tfFailures < TfFailureLimit
    BY <2>1, HealthyVerdict DEF CloudsBackRecovery
  <2>3. IsDegraded("DEGRADED_CLOUD_TIMEOUT")
    BY DEF IsDegraded, Degradations
  <2> SUFFICES ASSUME FruitlessRecovery
               PROVE  FruitlessRecovery' /\ IsDegraded(lastStatus')
    BY <2>1
  <2>4. /\ Fruitless \in Nat /\ Fruitless < CloudRecoveryFrames
    <3>1. Fruitless \in Nat /\ Fruitless <= SilentClouds
      BY <2>2, FruitlessIsSilent
    <3>2. SilentClouds \in Int
      BY CloudNumbers, SMT DEF SilentClouds
    <3> QED
      BY <3>1, <3>2, CloudNumbers
  <2>5. recovery + (IF unseen THEN 1 ELSE 0) <= Fruitless
    BY <2>2 DEF FruitlessRecovery
  <2>6. /\ Progress \in Nat
        /\ Progress + (IF unseen' THEN 1 ELSE 0) <= Fruitless
    <3>1. CASE CountsForRecovery
      <4>1. unseen
        BY <3>1, Zenon DEF CountsForRecovery
      <4>2. ~unseen'
        BY <2>1, <3>1, Zenon
      <4>3. Progress = recovery + 1 \/ Progress = 0
        BY <3>1 DEF Progress
      <4>4. recovery + 1 <= Fruitless
        BY <2>5, <4>1
      <4> QED
        BY <2>4, <4>2, <4>3, <4>4, CloudTypes, CloudNumbers
    <3>2. CASE ~CountsForRecovery
      <4>1. Progress = 0 \/ Progress = recovery
        BY <3>2 DEF Progress
      <4>2. unseen' = unseen
        BY <2>1, <3>2, CloudTypes
      <4> QED
        BY <2>4, <2>5, <4>1, <4>2, CloudTypes, CloudNumbers
    <3> QED
      BY <3>1, <3>2
  <2>7. ~Releases
    BY <2>4, <2>6, CloudNumbers, CloudTypes DEF Releases
  <2>8. latched' /\ recovery' = Progress
    BY <2>1, <2>7
  <2>9. FruitlessRecovery'
    BY <1>1, <2>4, <2>6, <2>8 DEF FruitlessRecovery
  <2>10. IsDegraded(lastStatus')
    BY <2>1, <2>3, <2>7
  <2> QED
    BY <2>9, <2>10
<1> QED
  BY <1>2, <1>3, <1>4 DEF OnPublishTimer, Evaluate

=============================================================================
