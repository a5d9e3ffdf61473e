----------------------------- MODULE StaleGuard -----------------------------
(***************************************************************************)
(* The stale guard of the MAVLink sender: class TwoStageStaleGuard of      *)
(* scripts/mavlink_obstacle_sender.py.  It latches on every fault it is    *)
(* told of and on silence, that is, on source sequences that do not        *)
(* advance, and needs InputRecoveryFrames frames with advancing sequences  *)
(* to release.                                                             *)
(*                                                                         *)
(* A frame matters to the guard only by whether its sequence is beyond the *)
(* last one.  Ages stop counting beyond the fail threshold.  Transition    *)
(* texts and interval statistics are diagnostics and left out.             *)
(***************************************************************************)
EXTENDS Integers

CONSTANTS
  InputWarnTimeout,     \* warn_timeout_s, in ticks
  InputFailTimeout,     \* fail_timeout_s, in ticks
  InputRecoveryFrames   \* recovery_frames

ASSUME StaleGuardAssumption ==
  /\ InputWarnTimeout \in Nat \ {0}
  /\ InputFailTimeout \in Nat
  /\ InputWarnTimeout < InputFailTimeout
  /\ InputRecoveryFrames \in Nat \ {0}

VARIABLES
  guardLatched,   \* latched
  healthyFrames,  \* healthy_frames
  hasProgress,    \* last_progress (and last_sequence) is not None
  progressAge,    \* now - last_progress
  newFrames       \* frames with advancing sequence since the last fault or,
                  \* if later, since the end of the last silence

guardVars ==
  <<guardLatched, healthyFrames, hasProgress, progressAge, newFrames>>

Silent == hasProgress /\ progressAge > InputFailTimeout

CountFrame(n) == IF n < InputRecoveryFrames THEN n + 1 ELSE n

\* Mutant: a fault voids the count and leaves the guard open.
MarkFaultWithoutLatch ==
  /\ healthyFrames' = 0
  /\ newFrames' = 0
  /\ UNCHANGED <<guardLatched, hasProgress, progressAge>>

MarkFault ==
  /\ guardLatched' = TRUE
  /\ healthyFrames' = 0
  /\ newFrames' = 0
  /\ UNCHANGED <<hasProgress, progressAge>>

\* Mutant: a late frame does not latch, only an evaluation in time would.
ShutOnArrivalUnlessLate == guardLatched

\* A frame that ends a silence finds the guard shut and its count void.
ShutOnArrival == guardLatched \/ Silent

\* Mutant: every frame voids the count.
CountedOnArrivalNever == 0

CountedOnArrival == IF Silent THEN 0 ELSE healthyFrames

\* advances: the frame's sequence is beyond last_sequence.
MarkHealthyFrame(advances) ==
  LET progress == ~hasProgress \/ advances
      enough   == progress /\ CountedOnArrival + 1 >= InputRecoveryFrames
  IN  /\ guardLatched' = (ShutOnArrival /\ ~enough)
      /\ healthyFrames' = CASE ~(ShutOnArrival /\ progress) -> CountedOnArrival
                            [] ShutOnArrival /\ enough      -> 0
                            [] OTHER -> CountedOnArrival + 1
      /\ hasProgress' = TRUE
      /\ progressAge' = IF progress THEN 0 ELSE progressAge
      /\ newFrames' = IF progress THEN CountFrame(newFrames) ELSE newFrames

\* What evaluate answers ...
GuardState ==
  CASE ~hasProgress                              -> "DEGRADED_NO_SECTOR"
    [] Silent                                    -> "DEGRADED_SECTOR_TIMEOUT"
    [] hasProgress /\ ~Silent /\ guardLatched    -> "DEGRADED_SECTOR_RECOVERY"
    [] OTHER -> IF progressAge > InputWarnTimeout THEN "WARN_SECTOR_STALE"
                                                  ELSE "OK"

\* Mutant: silence is only a warning.
HardFailureUnlessSilent ==
  GuardState \notin {"WARN_SECTOR_STALE", "OK", "DEGRADED_SECTOR_TIMEOUT"}

HardFailure == GuardState \notin {"WARN_SECTOR_STALE", "OK"}

\* ... and what it does on the way: silence latches the guard.
EvaluateGuard ==
  /\ guardLatched' = (guardLatched \/ Silent)
  /\ healthyFrames' = IF Silent THEN 0 ELSE healthyFrames
  /\ UNCHANGED <<hasProgress, progressAge, newFrames>>

\* One tick of the monotonic clock.  The silence begins when the threshold
\* is passed, whether or not anybody looks.
GuardAging ==
  /\ progressAge' = IF hasProgress /\ ~Silent THEN progressAge + 1
                    ELSE progressAge
  /\ newFrames' = IF hasProgress /\ progressAge' > InputFailTimeout THEN 0
                  ELSE newFrames
  /\ UNCHANGED <<guardLatched, healthyFrames, hasProgress>>

GuardInit ==
  /\ guardLatched = TRUE
  /\ healthyFrames = 0
  /\ hasProgress = FALSE
  /\ progressAge = 0
  /\ newFrames = 0

GuardNext ==
  \/ MarkFault
  \/ \E advances \in BOOLEAN : MarkHealthyFrame(advances)
  \/ EvaluateGuard
  \/ GuardAging

GuardSpec == GuardInit /\ [][GuardNext]_guardVars

-----------------------------------------------------------------------------
(* Properties.                                                             *)

\* Every variable stays in its range; a shut guard has counted fewer frames
\* than a release takes (mavlink_obstacle_sender.py:101-150).
GuardTypeOK ==
  /\ guardLatched \in BOOLEAN
  /\ healthyFrames \in 0 .. InputRecoveryFrames - 1
  /\ hasProgress \in BOOLEAN
  /\ progressAge \in 0 .. InputFailTimeout + 1
  /\ newFrames \in 0 .. InputRecoveryFrames

\* The guard is a fail-closed gate: after a fault, and after a silence that
\* nobody evaluated (the sender does not evaluate while its port is closed),
\* it opens only on frames that arrived later and whose sequences advanced
\* (mavlink_obstacle_sender.py:106-120, 129-150).
StaleGate == INSTANCE FailClosedGate WITH
  Need <- InputRecoveryFrames,
  open <- ~guardLatched /\ hasProgress /\ ~Silent,
  evidence <- newFrames

GuardReleasesOnNewFrames == StaleGate!GateSpec

=============================================================================
