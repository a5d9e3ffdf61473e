------------------------ MODULE SourceTimestampGuard ------------------------
(***************************************************************************)
(* The source timestamp guard: class SourceTimestampGuard of               *)
(* src/source_timestamp.cpp.  It accepts a cloud only if its stamp is      *)
(* nonzero and, in live mode, recent, not too far in the future and newer  *)
(* than the last accepted stamp.  A repeated stamp is passed over in       *)
(* silence until it was repeated too often.                                *)
(*                                                                         *)
(* A stamp is given by its age, the receiver's clock minus the stamp, so a *)
(* stamp from the future has a negative age and an earlier stamp a larger  *)
(* one.  sequence_ counts the accepted stamps; its client counts them.     *)
(***************************************************************************)
EXTENDS Integers

CONSTANTS
  Live,             \* mode: live, as opposed to replay or sim
  MaxSensorAge,     \* max_sensor_age_ms, in ticks
  FutureTolerance,  \* future_tolerance_ms, in ticks
  MaxRepeated       \* max_repeated_frames

ASSUME SourceTimestampAssumption ==
  /\ Live \in BOOLEAN
  /\ MaxSensorAge \in Nat \ {0}
  /\ FutureTolerance \in Nat
  /\ MaxRepeated \in Nat \ {0}

VARIABLES
  hasStamp,         \* has_stamp_
  stampAge,         \* now - last_stamp_ns_
  repeated          \* consecutive_repeated_

stampVars == <<hasStamp, stampAge, repeated>>

\* The ages a stamp can have, those beyond the two thresholds merged.
StampAges == -(FutureTolerance + 1) .. MaxSensorAge + 1

\* The outcome of evaluate: accepted, passed over (status OK, not accepted),
\* or refused with a status.
StampVerdict(zero, age) ==
  IF zero THEN "DEGRADED_SOURCE_STAMP_ZERO"
  ELSE IF ~Live THEN "ACCEPTED"
  ELSE IF age > MaxSensorAge THEN "DEGRADED_SOURCE_STAMP_OLD"
  ELSE IF age < -FutureTolerance THEN "DEGRADED_SOURCE_STAMP_FUTURE"
  ELSE IF hasStamp /\ age > stampAge THEN "DEGRADED_SOURCE_STAMP_BACKWARD"
  ELSE IF hasStamp /\ age = stampAge
    THEN IF repeated + 1 >= MaxRepeated THEN "DEGRADED_SOURCE_STAMP_REPEATED"
         ELSE "PASSED_OVER"
  ELSE "ACCEPTED"

Repeats(verdict) ==
  verdict \in {"PASSED_OVER", "DEGRADED_SOURCE_STAMP_REPEATED"}

\* Mutant: has_stamp_ is never set.
AcceptStampUnremembered(age) ==
  /\ stampAge' = age
  /\ repeated' = 0
  /\ UNCHANGED hasStamp

AcceptStamp(age) ==
  /\ hasStamp' = TRUE
  /\ stampAge' = age
  /\ repeated' = 0

\* A stamp that is not accepted leaves a trace only if it is a repetition.
NoteStamp(verdict) ==
  /\ repeated' = IF Repeats(verdict) /\ repeated < MaxRepeated
                 THEN repeated + 1 ELSE repeated
  /\ UNCHANGED <<hasStamp, stampAge>>

\* The wall clock advances one tick; ages beyond MaxSensorAge are alike.
StampAging ==
  /\ stampAge' = IF hasStamp /\ stampAge <= MaxSensorAge THEN stampAge + 1
                 ELSE stampAge
  /\ UNCHANGED <<hasStamp, repeated>>

StampInit ==
  /\ hasStamp = FALSE
  /\ stampAge = 0
  /\ repeated = 0

StampTypeOK ==
  /\ hasStamp \in BOOLEAN
  /\ stampAge \in StampAges
  /\ repeated \in 0 .. MaxRepeated

=============================================================================
