--------------------------- MODULE FailClosedGate ---------------------------
(***************************************************************************)
(* What both fail-closed latches of AeroHalo360 promise: the watchdog of   *)
(* the cloud processor and the stale guard of the MAVLink sender.  Real    *)
(* obstacle distances pass while the gate is open.  A fault shuts it, and  *)
(* it opens again only after Need pieces of evidence (clouds, source       *)
(* frames) that all arrived after the most recent fault.  The first        *)
(* opening is no exception: the gate starts shut and without evidence.     *)
(***************************************************************************)
EXTENDS Integers

CONSTANT Need      \* pieces of evidence a recovery takes, a natural number

VARIABLES
  open,            \* real data may pass
  evidence         \* arrivals since the last fault, no more than Need counted

gateVars == <<open, evidence>>

CountUpTo(n, limit) == IF n < limit THEN n + 1 ELSE limit

GateInit ==
  /\ open = FALSE
  /\ evidence = 0

\* One step of the gate: a fault is noticed or not, evidence arrives or not.
\* A fault voids the evidence before it; evidence of the same step counts.
GateStep(fault, arrival) ==
  LET kept == IF fault THEN 0 ELSE evidence
  IN  /\ evidence' = IF arrival THEN CountUpTo(kept, Need) ELSE kept
      /\ open' \in BOOLEAN
      /\ open' => \/ open /\ ~fault
                  \/ evidence' >= Need

GateNext == \E fault, arrival \in BOOLEAN : GateStep(fault, arrival)

GateSpec == GateInit /\ [][GateNext]_gateVars

=============================================================================
