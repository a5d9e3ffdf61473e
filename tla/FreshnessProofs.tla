-------------------------- MODULE FreshnessProofs ---------------------------
(***************************************************************************)
(* How old the distances of a healthy message can be, for every pair of    *)
(* thresholds, every limit of failures and repetitions and every period.   *)
(***************************************************************************)
EXTENDS CloudFreshness, CloudProcessorProofs

LOCAL INSTANCE FiniteSetsExt

-----------------------------------------------------------------------------
(* Arithmetic.                                                             *)

LEMMA FreshNumbers ==
  /\ CloudFailTimeout \in Nat \ {0} /\ PublishPeriod \in Nat \ {0}
  /\ TfFailureLimit \in Nat \ {0} /\ MaxRepeated \in Nat \ {0}
  /\ CloudRecoveryFrames \in Nat \ {0}
  /\ MaxSensorAge \in Nat \ {0} /\ FutureTolerance \in Nat
  /\ DataAgeCap \in Nat /\ DataAgeCap > MaxSensorAge
  /\ LongestGap \in Nat /\ LongestGap = CloudFailTimeout + PublishPeriod
BY WatchdogAssumption, SourceTimestampAssumption, CloudAssumption,
   FreshnessAssumption DEF LongestGap

\* The lesser of the two bounds.
LEMMA RepeatSpanIsLesser ==
  /\ RepeatSpan \in Nat
  /\ RepeatSpan <= (MaxRepeated - 1) * LongestGap
  /\ RepeatSpan <= FutureTolerance + MaxSensorAge
  /\ \A x \in Int : x <= (MaxRepeated - 1) * LongestGap
                    /\ x <= FutureTolerance + MaxSensorAge => x <= RepeatSpan
<1> DEFINE a == (MaxRepeated - 1) * LongestGap
           b == FutureTolerance + MaxSensorAge
<1>1. a \in Nat /\ b \in Nat
  <2>1. MaxRepeated - 1 \in Nat /\ LongestGap \in Nat
    BY FreshNumbers
  <2> QED
    BY <2>1, FreshNumbers, SMT
<1>2. RepeatSpan = Min({a, b})
  BY DEF RepeatSpan
<1> HIDE DEF a, b
<1>3. Min({a, b}) = IF a <= b THEN a ELSE b
  BY <1>1 DEF Min
<1>4. /\ RepeatSpan \in Nat /\ RepeatSpan <= a /\ RepeatSpan <= b
      /\ \A x \in Int : x <= a /\ x <= b => x <= RepeatSpan
  BY <1>1, <1>2, <1>3
<1> QED
  BY <1>4 DEF a, b

\* What n failures can add to the age of the data: a gap each, and between
\* them the repetitions.
Delay(n) ==
  IF n = 0 THEN 0 ELSE n * LongestGap + (n - 1) * RepeatSpan

LEMMA DelayGrows ==
  ASSUME NEW n \in Nat
  PROVE  /\ Delay(n) \in Nat
         /\ n = 0 => Delay(n + 1) = LongestGap
         /\ n # 0 => Delay(n + 1) = Delay(n) + LongestGap + RepeatSpan
<1>1. LongestGap \in Nat /\ RepeatSpan \in Nat
  BY FreshNumbers, RepeatSpanIsLesser
<1>2. n * LongestGap \in Nat /\ (n + 1) * LongestGap = n * LongestGap + LongestGap
  BY <1>1, SMT
<1>3. n # 0 => /\ (n - 1) * RepeatSpan \in Nat
               /\ n * RepeatSpan = (n - 1) * RepeatSpan + RepeatSpan
  <2>1. n # 0 => n - 1 \in Nat
    OBVIOUS
  <2> QED
    BY <1>1, <2>1, SMT
<1>4. n # 0 => Delay(n) \in Nat /\ Delay(n + 1) = Delay(n) + LongestGap + RepeatSpan
  <2> SUFFICES ASSUME n # 0
               PROVE  Delay(n) \in Nat /\ Delay(n + 1) = Delay(n) + LongestGap + RepeatSpan
    OBVIOUS
  <2>1. /\ Delay(n) = n * LongestGap + (n - 1) * RepeatSpan
        /\ Delay(n + 1) = (n + 1) * LongestGap + n * RepeatSpan
    BY DEF Delay
  <2> HIDE DEF Delay
  <2> QED
    BY <1>1, <1>2, <1>3, <2>1
<1>5. n = 0 => Delay(n) = 0 /\ Delay(n + 1) = LongestGap
  BY <1>1 DEF Delay
<1> QED
  BY <1>4, <1>5

\* Fewer failures than the limit, and repetitions of the last stamp, add at
\* most what DataAgeBound says.
LEMMA DelayBound ==
  ASSUME NEW n \in Nat, n < TfFailureLimit
  PROVE  /\ (TfFailureLimit - 1) * (LongestGap + RepeatSpan) \in Nat
         /\ n = 0 => Delay(n) = 0
         /\ n # 0 => Delay(n) + RepeatSpan
                       <= (TfFailureLimit - 1) * (LongestGap + RepeatSpan)
<1> DEFINE d == LongestGap + RepeatSpan
           k == TfFailureLimit - 1
<1>1. d \in Nat /\ k \in Nat /\ n <= k /\ k - n \in Nat
      /\ LongestGap \in Nat /\ RepeatSpan \in Nat
  BY FreshNumbers, RepeatSpanIsLesser
<1>2. k * d \in Nat /\ n * d \in Nat
  <2> HIDE DEF d, k
  <2> QED
    BY <1>1, SMT
<1>3. n * d <= k * d
  <2> HIDE DEF d, k
  <2>1. (k - n) * d >= 0
    BY <1>1, SMT
  <2>2. (k - n) * d = k * d - n * d
    BY <1>1, SMT
  <2> QED
    BY <1>2, <2>1, <2>2
<1>4. n # 0 => Delay(n) + RepeatSpan = n * d
  <2>1. n * d = n * LongestGap + n * RepeatSpan
    BY <1>1, SMT
  <2>2. n # 0 => n * RepeatSpan = (n - 1) * RepeatSpan + RepeatSpan
    BY <1>1, SMT
  <2>3. n * LongestGap \in Int /\ (n - 1) * RepeatSpan \in Int
    BY <1>1, SMT
  <2> QED
    BY <1>1, <2>1, <2>2, <2>3 DEF Delay
<1>5. n = 0 => Delay(n) = 0
  BY DEF Delay
<1> QED
  BY <1>2, <1>3, <1>4, <1>5

-----------------------------------------------------------------------------
(* The inductive core.                                                     *)

\* The data is no older than the failures since allow: a is the age of the
\* last cloud whose stamp was not refused, u the time between the last
\* accepted cloud and that one.
FreshBy(a, u) ==
  /\ a \in Nat /\ u \in Nat
  /\ a <= CloudFailTimeout + sincePublish
  /\ sourceStatus = "OK" /\ cloudAge <= CloudFailTimeout => a <= cloudAge
  /\ u <= repeated * LongestGap
  /\ u <= RepeatSpan
  /\ stampAge <= MaxSensorAge => u + a <= stampAge + FutureTolerance
  /\ tfFailures = 0 => dataAge <= MaxSensorAge + a
  /\ tfFailures # 0 => dataAge <= MaxSensorAge + Delay(tfFailures) + u + a

FreshData == hasCloud /\ hasStamp /\ hasData /\ \E a, u : FreshBy(a, u)

\* No cloud was processed since the last fault.  If a recovery takes more clouds
\* than can be silent, the latch is shut and its count does not go beyond the
\* fruitless clouds.
StaleRecovery ==
  /\ ~renewed
  /\ CloudRecoveryFrames > SilentClouds => FruitlessRecovery

\* With the limit of failures not reached, the data is fresh unless the node
\* is still to recover.
FreshOrStale ==
  /\ sincePublish \in 0 .. PublishPeriod
  /\ renewed \in BOOLEAN
  /\ tfFailures < TfFailureLimit => FreshData \/ StaleRecovery

-----------------------------------------------------------------------------
(* A cloud.                                                                *)

\* The stamp repeats the last one.
LEMMA FreshPassOver ==
  ASSUME Live, CloudTypeOK, CloudsBackRecovery, SequenceNamesData, FreshOrStale,
         NEW age \in StampAges, PassOverStamp(age),
         UNCHANGED <<sincePublish, renewed>>
  PROVE  FreshOrStale'
<1> SUFFICES ASSUME tfFailures' < TfFailureLimit
             PROVE  FreshData' \/ StaleRecovery'
  BY DEF FreshOrStale
<1>1. /\ UNCHANGED <<tfFailures, sourceStatus, hasStamp, stampAge, hasData,
                     dataAge>>
      /\ hasCloud' = TRUE /\ cloudAge' = 0
      /\ repeated' = repeated + 1 /\ repeated + 1 < MaxRepeated
      /\ hasStamp /\ stampAge <= MaxSensorAge
  BY CloudIsPassedOver
<1>2. CASE FreshData
  <2>1. PICK a, u : FreshBy(a, u)
    BY <1>2 DEF FreshData
  <2>2. /\ a \in Nat /\ u \in Nat /\ u <= repeated * LongestGap
        /\ a <= LongestGap /\ u + a <= stampAge + FutureTolerance
    BY <1>1, <2>1, FreshNumbers DEF FreshBy, FreshOrStale
  <2>3. u + a <= repeated' * LongestGap
    <3>1. /\ (repeated + 1) * LongestGap = repeated * LongestGap + LongestGap
          /\ repeated * LongestGap \in Int
      BY CloudTypes, FreshNumbers, SMT
    <3> QED
      BY <1>1, <2>2, <3>1, FreshNumbers
  <2>4. u + a <= RepeatSpan
    <3>1. /\ (repeated + 1) * LongestGap <= (MaxRepeated - 1) * LongestGap
          /\ (MaxRepeated - 1) * LongestGap \in Int
          /\ (repeated + 1) * LongestGap \in Int
      <4>1. MaxRepeated - 1 - (repeated + 1) \in Nat
        BY <1>1, CloudTypes, FreshNumbers
      <4>2. (MaxRepeated - 1 - (repeated + 1)) * LongestGap >= 0
        BY <4>1, FreshNumbers, SMT
      <4>3. (MaxRepeated - 1 - (repeated + 1)) * LongestGap
              = (MaxRepeated - 1) * LongestGap - (repeated + 1) * LongestGap
        BY CloudTypes, FreshNumbers, SMT
      <4>4. (MaxRepeated - 1) * LongestGap \in Int
            /\ (repeated + 1) * LongestGap \in Int
        BY CloudTypes, FreshNumbers, SMT
      <4> QED
        BY <4>2, <4>3, <4>4
    <3>2. u + a <= (MaxRepeated - 1) * LongestGap
      BY <1>1, <2>2, <2>3, <3>1
    <3>3. u + a <= FutureTolerance + MaxSensorAge
      BY <1>1, <2>2, CloudTypes, FreshNumbers
    <3> QED
      BY <2>2, <3>2, <3>3, RepeatSpanIsLesser
  <2>5. CASE tfFailures = 0
    <3>1. dataAge <= MaxSensorAge
      BY <1>1, <2>5, CloudTypes, FreshNumbers DEF SequenceNamesData
    <3>2. FreshBy(0, 0)'
      <4>1. repeated' * LongestGap >= 0
        BY <1>1, CloudTypes, FreshNumbers, SMT
      <4>2. sincePublish' \in Nat
        BY DEF FreshOrStale
      <4>3. stampAge' + FutureTolerance >= 0
        BY <1>1, <2>2, CloudTypes, FreshNumbers
      <4> QED
        BY <1>1, <2>5, <3>1, <4>1, <4>2, <4>3, FreshNumbers, RepeatSpanIsLesser
           DEF FreshBy
    <3> QED
      BY <1>1, <1>2, <3>2 DEF FreshData
  <2>6. CASE tfFailures # 0
    <3>1. dataAge <= MaxSensorAge + Delay(tfFailures) + u + a
      BY <2>1, <2>6 DEF FreshBy
    <3>2. Delay(tfFailures) \in Nat /\ Delay(tfFailures') = Delay(tfFailures)
      BY <1>1, CloudTypes, DelayGrows
    <3>3. sincePublish' \in Nat
      BY DEF FreshOrStale
    <3>4. FreshBy(0, u + a)'
      BY <1>1, <2>2, <2>3, <2>4, <2>6, <3>1, <3>2, <3>3, FreshNumbers, CloudTypes
         DEF FreshBy
    <3> QED
      BY <1>1, <1>2, <3>4 DEF FreshData
  <2> QED
    BY <2>5, <2>6
<1>3. CASE StaleRecovery
  BY <1>3, CloudIsPassedOver DEF StaleRecovery
<1> QED
  BY <1>1, <1>2, <1>3 DEF FreshOrStale

\* The stamp is refused, or the message is malformed.
LEMMA FreshRefuse ==
  ASSUME CloudTypeOK, CloudsBackRecovery, FreshOrStale,
         NEW zero \in BOOLEAN, NEW age \in StampAges,
         RefuseStamp(zero, age) \/ RejectCloud,
         UNCHANGED <<sincePublish, renewed>>
  PROVE  FreshOrStale'
<1> SUFFICES ASSUME tfFailures' < TfFailureLimit
             PROVE  FreshData' \/ StaleRecovery'
  BY DEF FreshOrStale
<1>1. /\ UNCHANGED <<tfFailures, hasStamp, stampAge, hasData, dataAge>>
      /\ hasCloud => hasCloud'
      /\ sourceStatus' # "OK"
      /\ repeated' = repeated \/ (repeated < MaxRepeated /\ repeated' = repeated + 1)
  BY CloudIsRefused
<1>2. CASE FreshData
  <2>1. PICK a, u : FreshBy(a, u)
    BY <1>2 DEF FreshData
  <2>2. u <= repeated' * LongestGap
    <3>1. /\ (repeated + 1) * LongestGap = repeated * LongestGap + LongestGap
          /\ repeated * LongestGap \in Int
      BY CloudTypes, FreshNumbers, SMT
    <3>2. u \in Nat /\ u <= repeated * LongestGap
      BY <2>1 DEF FreshBy
    <3>3. CASE repeated' = repeated
      BY <3>2, <3>3
    <3>4. CASE repeated' = repeated + 1
      BY <3>1, <3>2, <3>4, FreshNumbers
    <3> QED
      BY <1>1, <3>3, <3>4
  <2>3. FreshBy(a, u)'
    BY <1>1, <2>1, <2>2 DEF FreshBy, Delay
  <2> QED
    BY <1>1, <1>2, <2>3 DEF FreshData
<1>3. CASE StaleRecovery
  BY <1>3, CloudIsRefused DEF StaleRecovery
<1> QED
  BY <1>1, <1>2, <1>3 DEF FreshOrStale

\* The stamp is accepted and the transform fails.
LEMMA FreshFail ==
  ASSUME Live, CloudTypeOK, CloudsBackRecovery, FreshOrStale,
         NEW age \in StampAges, FailTransform(age),
         UNCHANGED <<sincePublish, renewed>>
  PROVE  FreshOrStale'
<1> SUFFICES ASSUME tfFailures' < TfFailureLimit
             PROVE  FreshData' \/ StaleRecovery'
  BY DEF FreshOrStale
<1>1. /\ UNCHANGED <<hasData, dataAge>>
      /\ hasCloud' = TRUE /\ cloudAge' = 0
      /\ sourceStatus' = "OK" /\ hasStamp' = TRUE /\ stampAge' = age
      /\ repeated' = 0 /\ tfFailures' = tfFailures + 1
      /\ tfFailures < TfFailureLimit
      /\ age >= -FutureTolerance /\ age \in Int
  BY CloudIsLost
<1>2. CASE FreshData
  <2>1. PICK a, u : FreshBy(a, u)
    BY <1>2 DEF FreshData
  <2>2. /\ a \in Nat /\ u \in Nat /\ a <= LongestGap /\ u <= RepeatSpan
    BY <2>1, FreshNumbers DEF FreshBy, FreshOrStale
  <2>3. dataAge <= MaxSensorAge + Delay(tfFailures + 1)
    <3>1. tfFailures = 0 => dataAge <= MaxSensorAge + a
      BY <2>1 DEF FreshBy
    <3>2. tfFailures # 0 => dataAge <= MaxSensorAge + Delay(tfFailures) + u + a
      BY <2>1 DEF FreshBy
    <3>3. /\ Delay(tfFailures) \in Nat
          /\ tfFailures = 0 => Delay(tfFailures + 1) = LongestGap
          /\ tfFailures # 0 => Delay(tfFailures + 1)
                                 = Delay(tfFailures) + LongestGap + RepeatSpan
      BY CloudTypes, DelayGrows
    <3> HIDE DEF Delay
    <3>4. CASE tfFailures = 0
      BY <2>2, <3>1, <3>3, <3>4, FreshNumbers, CloudTypes
    <3>5. CASE tfFailures # 0
      BY <2>2, <3>2, <3>3, <3>5, FreshNumbers, CloudTypes, RepeatSpanIsLesser
    <3> QED
      BY <3>4, <3>5
  <2>4. Delay(tfFailures') = Delay(tfFailures + 1)
    BY <1>1
  <2>5. FreshBy(0, 0)'
    <3>1. sincePublish' \in Nat /\ 0 * LongestGap = 0
      BY FreshNumbers DEF FreshOrStale
    <3>2. Delay(tfFailures') \in Int
      <4>1. tfFailures + 1 \in Nat
        BY CloudTypes
      <4>2. Delay(tfFailures + 1) \in Nat
        BY <4>1, DelayGrows
      <4> QED
        BY <2>4, <4>2
    <3>3. tfFailures' # 0
      BY <1>1, CloudTypes
    <3> HIDE DEF Delay
    <3> QED
      BY <1>1, <2>3, <2>4, <3>1, <3>2, <3>3, FreshNumbers, RepeatSpanIsLesser
         DEF FreshBy
  <2> QED
    BY <1>1, <1>2, <2>5 DEF FreshData
<1>3. CASE StaleRecovery
  BY <1>3, CloudIsLost DEF StaleRecovery
<1> QED
  BY <1>1, <1>2, <1>3 DEF FreshOrStale

\* The cloud is processed: the data is as old as its stamp.
LEMMA FreshProcess ==
  ASSUME Live, CloudTypeOK, FreshOrStale,
         NEW age \in StampAges, NEW raw \in BOOLEAN, NEW filtered \in BOOLEAN,
         ProcessCloud(age, raw, filtered), UNCHANGED sincePublish, renewed' = TRUE
  PROVE  FreshOrStale'
<1>1. /\ hasCloud' = TRUE /\ cloudAge' = 0 /\ hasStamp' = TRUE
      /\ stampAge' = age /\ repeated' = 0 /\ tfFailures' = 0
      /\ hasData' = TRUE /\ dataAge' = age
  BY DEF ProcessCloud, AcceptCloud, AcceptStamp, MarkCloud, MarkTfSuccess
<1>2. age >= -FutureTolerance /\ age <= MaxSensorAge /\ age \in Int
  BY FreshNumbers DEF ProcessCloud, AcceptCloud, StampVerdict, StampAges
<1>3. sincePublish' \in Nat /\ 0 * LongestGap = 0
  BY FreshNumbers DEF FreshOrStale
<1>4. FreshBy(0, 0)'
  BY <1>1, <1>2, <1>3, FreshNumbers, RepeatSpanIsLesser DEF FreshBy
<1> QED
  BY <1>1, <1>4 DEF FreshData, FreshOrStale

-----------------------------------------------------------------------------
(* Time and the timer.                                                     *)

LEMMA FreshTickStep ==
  ASSUME CloudTypeOK, FreshOrStale, FreshTick
  PROVE  FreshOrStale'
<1>1. /\ UNCHANGED <<tfFailures, sourceStatus, latched, recovery, clouds,
                     unseen, hasCloud, hasStamp, hasData, repeated, renewed>>
      /\ cloudAge' = IF hasCloud THEN CountTo(cloudAge, CloudFailTimeout + 1)
                     ELSE cloudAge
      /\ stampAge' = IF hasStamp /\ stampAge <= MaxSensorAge THEN stampAge + 1
                     ELSE stampAge
      /\ dataAge' = IF hasData /\ dataAge < DataAgeCap THEN dataAge + 1
                    ELSE dataAge
  BY DEF FreshTick, Tick, CloudAges, StampAging
<1>2. /\ sincePublish' = sincePublish + 1 /\ sincePublish \in Nat
      /\ sincePublish' \in 0 .. PublishPeriod
  BY FreshNumbers DEF FreshTick, FreshOrStale
<1>3. CASE FreshData
  <2>1. PICK a, u : FreshBy(a, u)
    BY <1>3 DEF FreshData
  <2>2. a \in Nat /\ u \in Nat
    BY <2>1 DEF FreshBy
  <2>3. Delay(tfFailures') = Delay(tfFailures) /\ Delay(tfFailures) \in Nat
    BY <1>1, CloudTypes, DelayGrows
  <2>4. cloudAge' <= CloudFailTimeout => cloudAge <= CloudFailTimeout
                                         /\ cloudAge' = cloudAge + 1
    BY <1>1, <1>3, CloudTypes, FreshNumbers DEF FreshData, CountTo
  <2>5. stampAge' <= MaxSensorAge => stampAge <= MaxSensorAge
                                     /\ stampAge' = stampAge + 1
    BY <1>1, <1>3, CloudTypes, FreshNumbers DEF FreshData
  <2>6. dataAge' <= dataAge + 1 /\ dataAge' \in Int
    BY <1>1, CloudTypes
  <2>7. u <= repeated' * LongestGap
    BY <1>1, <2>1 DEF FreshBy
  <2>8. FreshBy(a + 1, u)'
    BY <1>1, <1>2, <2>1, <2>2, <2>3, <2>4, <2>5, <2>6, <2>7, CloudTypes,
       FreshNumbers DEF FreshBy
  <2> QED
    BY <1>1, <1>2, <1>3, <2>8 DEF FreshData, FreshOrStale
<1>4. CASE StaleRecovery
  BY <1>1, <1>2, <1>4 DEF StaleRecovery, FruitlessRecovery, Fruitless, FreshOrStale
<1>5. CASE ~(tfFailures < TfFailureLimit)
  BY <1>1, <1>2, <1>5 DEF FreshOrStale
<1> QED
  BY <1>3, <1>4, <1>5 DEF FreshOrStale

\* A message that is not degraded means no fault, and fresh data unless the
\* recovery was one in which no cloud was processed.
LEMMA FreshVerdict ==
  ASSUME CloudTypeOK, CloudsBackRecovery, FreshOrStale, OnPublishTimer,
         ~IsDegraded(lastStatus'), renewed \/ CloudRecoveryFrames > SilentClouds
  PROVE  FreshData /\ ~IsDegraded(RawStatus)
<1>1. ~IsDegraded(RawStatus)
  <2>1. ~EvaluateFault
    BY DEF EvaluateFault
  <2> QED
    BY <2>1 DEF OnPublishTimer, Evaluate, EvaluateOpen, EvaluateRecovery
<1>2. tfFailures < TfFailureLimit
  BY <1>1, HealthyVerdict
<1>3. ~StaleRecovery
  BY FruitlessStaysShut DEF StaleRecovery
<1> QED
  BY <1>1, <1>2, <1>3 DEF FreshOrStale

\* A publication leaves fresh data fresh, or finds a fault that begins a recovery.
LEMMA FreshPublishStep ==
  ASSUME CloudTypeOK, CloudsBackRecovery, FreshOrStale, FreshPublish
  PROVE  FreshOrStale'
<1>1. /\ UNCHANGED <<hasCloud, cloudAge, tfFailures, sourceStatus, hasStamp,
                     stampAge, repeated, hasData, dataAge>>
      /\ sincePublish' = 0 /\ 0 \in 0 .. PublishPeriod
  BY FreshNumbers DEF FreshPublish, OnPublishTimer, Evaluate, stampVars, nodeVars
<1>2. ASSUME FreshData, ~IsDegraded(RawStatus)
      PROVE  FreshData'
  <2>1. PICK a, u : FreshBy(a, u)
    BY <1>2 DEF FreshData
  <2>2. a <= CloudFailTimeout + sincePublish'
    BY <1>1, <1>2, <2>1, HealthyVerdict, CloudTypes, FreshNumbers DEF FreshBy
  <2>3. FreshBy(a, u)'
    BY <1>1, <2>1, <2>2 DEF FreshBy, Delay
  <2> QED
    BY <1>1, <1>2, <2>3 DEF FreshData
<1>3. ASSUME IsDegraded(RawStatus) \/ StaleRecovery
      PROVE  StaleRecovery'
  BY <1>3, FruitlessStaysShut DEF FreshPublish, StaleRecovery, FreshOrStale
<1>4. renewed' \in BOOLEAN
  BY DEF FreshPublish
<1> QED
  BY <1>1, <1>2, <1>3, <1>4 DEF FreshOrStale

\* What is fresh when the timer finds no fault is within the bound.
LEMMA FreshIsBounded ==
  ASSUME CloudTypeOK, FreshData, ~IsDegraded(RawStatus)
  PROVE  dataAge <= DataAgeBound /\ DataAgeBound \in Nat
<1>1. PICK a, u : FreshBy(a, u)
  BY DEF FreshData
<1>2. /\ a \in Nat /\ u \in Nat /\ u <= RepeatSpan /\ a <= CloudFailTimeout
      /\ tfFailures < TfFailureLimit
  BY <1>1, HealthyVerdict, CloudTypes, FreshNumbers DEF FreshBy
<1> DEFINE most == (TfFailureLimit - 1) * (LongestGap + RepeatSpan)
<1>3. /\ most \in Nat
      /\ tfFailures # 0 => Delay(tfFailures) + RepeatSpan <= most
      /\ Delay(tfFailures) \in Nat
  BY <1>2, CloudTypes, DelayBound, DelayGrows
<1>4. DataAgeBound = MaxSensorAge + most + CloudFailTimeout
  BY DEF DataAgeBound
<1>5. /\ tfFailures = 0 => dataAge <= MaxSensorAge + a
      /\ tfFailures # 0 => dataAge <= MaxSensorAge + Delay(tfFailures) + u + a
  BY <1>1 DEF FreshBy
<1> HIDE DEF most, Delay
<1> QED
  BY <1>2, <1>3, <1>4, <1>5, FreshNumbers, CloudTypes, RepeatSpanIsLesser

-----------------------------------------------------------------------------
(* The theorem.                                                            *)

FreshInv ==
  /\ CloudTypeOK
  /\ CloudsBackRecovery
  /\ SequenceNamesData
  /\ FreshOrStale

LEMMA FreshInitInv == FreshInit => FreshInv
<1> SUFFICES ASSUME FreshInit
             PROVE  FreshInv
  OBVIOUS
<1>1. CloudTypeOK /\ CloudsBackRecovery /\ SequenceNamesData
  BY CloudInitType, CloudsBackRecoveryInit, SequenceNamesDataInit DEF FreshInit
<1>2. latched /\ clouds = 0 /\ sincePublish \in 0 .. PublishPeriod
  BY FreshNumbers DEF FreshInit, CloudInit, WatchdogInit
<1>3. ~renewed /\ renewed \in BOOLEAN
  BY Zenon DEF FreshInit
<1> QED
  BY <1>1, <1>2, <1>3 DEF FreshInv, FreshOrStale, StaleRecovery,
                           FruitlessRecovery

LEMMA FreshStepInv ==
  ASSUME Live
  PROVE  FreshInv /\ [FreshNext]_freshVars => FreshInv'
<1> SUFFICES ASSUME FreshInv, [FreshNext]_freshVars
             PROVE  FreshInv'
  OBVIOUS
<1>1. [CloudNext]_cloudVars
  BY DEF FreshNext, FreshCloud, FreshPublish, FreshTick, CloudNext, OnCloud, freshVars
<1>2. CloudTypeOK' /\ CloudsBackRecovery' /\ SequenceNamesData'
  BY <1>1, CloudStepType, CloudsBackRecoveryStep, SequenceNamesDataStep DEF FreshInv
<1> SUFFICES FreshOrStale'
  BY <1>2 DEF FreshInv
<1>3. CASE UNCHANGED sincePublish /\ LoseCloud /\ UNCHANGED renewed
  <2>1. CASE RejectCloud
    <3>1. TRUE \in BOOLEAN /\ 0 \in StampAges
      BY FreshNumbers DEF StampAges
    <3> QED
      BY <1>3, <2>1, <3>1, FreshRefuse DEF FreshInv
  <2>2. ASSUME NEW zero \in BOOLEAN, NEW age \in StampAges, RefuseStamp(zero, age)
        PROVE  FreshOrStale'
    BY <1>3, <2>2, FreshRefuse DEF FreshInv
  <2>3. ASSUME NEW age \in StampAges, PassOverStamp(age)
        PROVE  FreshOrStale'
    BY <1>3, <2>3, FreshPassOver DEF FreshInv
  <2>4. ASSUME NEW age \in StampAges, FailTransform(age)
        PROVE  FreshOrStale'
    BY <1>3, <2>4, FreshFail DEF FreshInv
  <2> QED
    BY <1>3, <2>1, <2>2, <2>3, <2>4 DEF LoseCloud
<1>7. CASE UNCHANGED sincePublish /\ FinishCloud /\ renewed' = TRUE
  <2>1. ASSUME NEW age \in StampAges, NEW raw \in BOOLEAN,
               NEW filtered \in BOOLEAN, ProcessCloud(age, raw, filtered)
        PROVE  FreshOrStale'
    BY <1>7, <2>1, FreshProcess DEF FreshInv
  <2> QED
    BY <1>7, <2>1 DEF FinishCloud
<1>4. CASE FreshPublish
  BY <1>4, FreshPublishStep DEF FreshInv
<1>5. CASE FreshTick
  BY <1>5, FreshTickStep DEF FreshInv
<1>6. CASE UNCHANGED freshVars
  BY <1>6 DEF freshVars, cloudVars, watchdogVars, stampVars, nodeVars, FreshInv,
              FreshOrStale, FreshData, FreshBy, Delay, StaleRecovery,
              FruitlessRecovery, Fruitless
<1> QED
  BY <1>3, <1>4, <1>5, <1>6, <1>7 DEF FreshNext, FreshCloud

\* The bound is one.
LEMMA BoundIsNatural == DataAgeBound \in Nat
<1> DEFINE most == (TfFailureLimit - 1) * (LongestGap + RepeatSpan)
<1>1. most \in Nat
  BY FreshNumbers, DelayBound
<1>2. DataAgeBound = MaxSensorAge + most + CloudFailTimeout
  BY DEF DataAgeBound
<1> HIDE DEF most
<1> QED
  BY <1>1, <1>2, FreshNumbers

\* A message that is not degraded is sent only with fresh data.
LEMMA HealthyMessageIsFresh ==
  ASSUME FreshInv, OnPublishTimer, renewed \/ CloudRecoveryFrames > SilentClouds,
         SectorDistances(lastStatus').distances = "data"
  PROVE  SectorDistances(lastStatus').sourceAge <= DataAgeBound
<1>1. ~IsDegraded(lastStatus')
  BY CloudAssumption DEF SectorDistances
<1>2. FreshData /\ ~IsDegraded(RawStatus)
  BY <1>1, FreshVerdict DEF FreshInv
<1>3. dataAge <= DataAgeBound /\ DataAgeBound \in Nat /\ dataAge \in Int
  BY <1>2, FreshIsBounded, CloudTypes DEF FreshInv
<1>4. SectorDistances(lastStatus').sourceAge
        \in {0, IF dataAge < 0 THEN 0 ELSE dataAge}
  <2>1. SectorDistances(lastStatus').sourceAge = SourceAge
    BY DEF SectorDistances
  <2> QED
    BY <1>2, <2>1 DEF SourceAge, FreshData
<1> QED
  BY <1>3, <1>4

\* Out of live mode the message claims an age of zero.
LEMMA ReplayedMessageIsFresh ==
  ASSUME ~Live, SectorDistances(lastStatus').distances = "data"
  PROVE  SectorDistances(lastStatus').sourceAge <= DataAgeBound
<1>1. hasData
  BY CloudAssumption DEF SectorDistances
<1>2. SectorDistances(lastStatus').sourceAge = 0
  BY <1>1 DEF SectorDistances, SourceAge
<1> QED
  BY <1>2, BoundIsNatural

\* Once a cloud was processed since the last fault, and in any case if a
\* recovery takes more clouds than can be silent, a healthy message carries
\* data no older than DataAgeBound: for all thresholds, limits and periods that
\* validateParameters accepts (cloud_processor_node.cpp:300-365, 661-708;
\* watchdog.cpp:51-119; source_timestamp.cpp:14-47).
THEOREM HealthyDataAgeIsBounded == FreshSpec => HealthyDataIsFresh
<1> DEFINE Fresh ==
      OnPublishTimer /\ (renewed \/ CloudRecoveryFrames > SilentClouds) =>
        LET message == SectorDistances(lastStatus')
        IN  message.distances = "data" => message.sourceAge <= DataAgeBound
<1>1. CASE Live
  <2>1. FreshSpec => []FreshInv
    BY <1>1, FreshInitInv, FreshStepInv, PTL DEF FreshSpec
  <2>2. FreshInv /\ [FreshNext]_freshVars => [Fresh]_freshVars
    BY HealthyMessageIsFresh
  <2> QED
    BY <2>1, <2>2, PTL DEF FreshSpec, HealthyDataIsFresh
<1>2. CASE ~Live
  <2>1. [FreshNext]_freshVars => [Fresh]_freshVars
    BY <1>2, ReplayedMessageIsFresh
  <2> QED
    BY <2>1, PTL DEF FreshSpec, HealthyDataIsFresh
<1> QED
  BY <1>1, <1>2

=============================================================================
