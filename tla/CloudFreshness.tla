--------------------------- MODULE CloudFreshness ---------------------------
(***************************************************************************)
(* How old can the distances of a healthy message be?  The watchdog times  *)
(* the arrival of clouds, not of data: a cloud whose stamp repeats or      *)
(* whose transform fails renews its clock and brings nothing.  The answer  *)
(* needs a timer that fires in time, which this module adds to the node.   *)
(***************************************************************************)
EXTENDS CloudProcessor

LOCAL INSTANCE FiniteSetsExt

CONSTANT PublishPeriod   \* ticks between publications, at most

ASSUME FreshnessAssumption == PublishPeriod \in Nat \ {0}

VARIABLES
  sincePublish,   \* ticks since the last publication
  renewed         \* history: a cloud was processed, and no publication has
                  \* found a fault since

freshVars == <<cloudVars, sincePublish, renewed>>

\* The longest interval between two clouds that no publication notices.
LongestGap == CloudFailTimeout + PublishPeriod

\* How long one stamp can be repeated: it must not grow too old either.
RepeatSpan ==
  Min({(MaxRepeated - 1) * LongestGap, FutureTolerance + MaxSensorAge})

\* The processed stamp is repeated up to MaxSensorAge, every failed transform
\* adds a gap and its own repetitions, and the last cloud may be old.
DataAgeBound ==
  MaxSensorAge + (TfFailureLimit - 1) * (LongestGap + RepeatSpan)
    + CloudFailTimeout

FreshInit == CloudInit /\ sincePublish = 0 /\ renewed = FALSE

FreshCloud ==
  /\ \/ LoseCloud /\ UNCHANGED renewed
     \/ FinishCloud /\ renewed' = TRUE
  /\ UNCHANGED sincePublish

FreshPublish ==
  /\ OnPublishTimer
  /\ sincePublish' = 0
  /\ renewed' = (renewed /\ ~IsDegraded(RawStatus))

FreshTick ==
  /\ sincePublish < PublishPeriod
  /\ Tick
  /\ sincePublish' = sincePublish + 1
  /\ UNCHANGED renewed

FreshNext ==
  \/ FreshCloud
  \/ FreshPublish
  \/ FreshTick

FreshSpec == FreshInit /\ [][FreshNext]_freshVars

\* A healthy message carries no data older than DataAgeBound, however many
\* stamps repeat and transforms fail.  This is what "never goes on sending old
\* data" (docs/architecture.md:49) comes to for the cloud node
\* (cloud_processor_node.cpp:300-365, watchdog.cpp:51-119).  The exception is a
\* recovery from a fault during which no cloud was processed: it can be all
\* silent clouds, unless it takes more of them than there can be.
HealthyDataIsFresh ==
  [][OnPublishTimer /\ (renewed \/ CloudRecoveryFrames > SilentClouds) =>
       LET message == SectorDistances(lastStatus')
       IN  message.distances = "data" => message.sourceAge <= DataAgeBound]_freshVars

=============================================================================
