---------------------------- MODULE LaunchProofs ----------------------------
(***************************************************************************)
(* What holds of the launched processes for every configuration, every     *)
(* number of recovery frames and every lag.  The lemmas are on the single  *)
(* steps of the nodes, so that Replay's proofs can use them too.           *)
(***************************************************************************)
EXTENDS Launch, TLAPS

-----------------------------------------------------------------------------
(* Types.                                                                  *)

\* What one step of the nodes may change keeps its range.
LEMMA NodesKeepType ==
  ASSUME LaunchTypeOK,
         \/ \E p \in Processes : StartNode(p) \/ FailStart(p) \/ CrashNode(p)
         \/ LearnTf
         \/ \E bad \in BOOLEAN : ReceiveSectors(bad)
         \/ \E silence \in BOOLEAN : SendDistances(silence)
  PROVE  LaunchTypeOK'
<1> USE LaunchAssumption
<1>1. CASE \E p \in Processes : StartNode(p)
  BY <1>1 DEF StartNode, LaunchTypeOK
<1>2. CASE \E p \in Processes : FailStart(p)
  BY <1>2 DEF FailStart, Ended, LaunchTypeOK
<1>3. CASE \E p \in Processes : CrashNode(p)
  <2>1. PICK p \in Processes : CrashNode(p)
    BY <1>3
  <2>2. lag' \in 0 .. MaxLag
    BY <2>1 DEF CrashNode, LaunchTypeOK
  <2> QED
    BY <2>1, <2>2 DEF CrashNode, Ended, LaunchTypeOK
<1>4. CASE LearnTf
  BY <1>4 DEF LearnTf, LaunchTypeOK
<1>5. CASE \E bad \in BOOLEAN : ReceiveSectors(bad)
  <2>1. PICK bad \in BOOLEAN : ReceiveSectors(bad)
    BY <1>5
  <2>2. /\ lag' \in 0 .. MaxLag
        /\ frames' \in 0 .. RecoveryFrames
    BY <2>1 DEF ReceiveSectors, LaunchTypeOK
  <2> QED
    BY <2>1, <2>2 DEF ReceiveSectors, LaunchTypeOK
<1>6. CASE \E silence \in BOOLEAN : SendDistances(silence)
  BY <1>6 DEF SendDistances, LaunchTypeOK
<1> QED
  BY <1>1, <1>2, <1>3, <1>4, <1>5, <1>6

\* Setting up the processes keeps the ranges as well.
LEMMA LaunchKeepsType ==
  ASSUME LaunchTypeOK, NEW c \in Configs, LaunchNodes(c)
  PROVE  LaunchTypeOK'
BY DEF LaunchNodes, LaunchTypeOK

LEMMA InitialType == LaunchInit => LaunchTypeOK
<1>1. NothingLaunched \in Configs
  <2>1. {} \in SUBSET Processes
    OBVIOUS
  <2> QED
    BY <2>1 DEF NothingLaunched, Configs
<1>2. LaunchInit => proc \in [Processes -> {"absent", "down", "up", "gone"}]
  BY DEF LaunchInit
<1>3. LaunchInit => lag \in 0 .. MaxLag /\ frames \in 0 .. RecoveryFrames
  BY LaunchAssumption DEF LaunchInit
<1>4. LaunchInit => hasTf \in BOOLEAN /\ simClock \in BOOLEAN
  BY DEF LaunchInit
<1>5. LaunchInit => config \in Configs
  BY <1>1 DEF LaunchInit
<1> QED
  BY <1>2, <1>3, <1>4, <1>5 DEF LaunchInit, LaunchTypeOK

\* The type invariant of the launched processes.
THEOREM LaunchTypeCorrect == LaunchSpec => []LaunchTypeOK
<1>1. LaunchTypeOK /\ [LaunchNext]_launchVars => LaunchTypeOK'
  <2> SUFFICES ASSUME LaunchTypeOK, [LaunchNext]_launchVars
               PROVE  LaunchTypeOK'
    OBVIOUS
  <2>1. CASE \E c \in Configs : LaunchNodes(c)
    BY <2>1, LaunchKeepsType
  <2>2. CASE ToggleClock
    BY <2>2 DEF ToggleClock, nodeVars, LaunchTypeOK
  <2>3. CASE NodesNext /\ ~ToggleClock
    BY <2>3, NodesKeepType DEF NodesNext
  <2>4. CASE UNCHANGED launchVars
    BY <2>4 DEF launchVars, nodeVars, LaunchTypeOK
  <2> QED
    BY <2>1, <2>2, <2>3, <2>4 DEF LaunchNext
<1> QED
  BY InitialType, <1>1, PTL DEF LaunchSpec

-----------------------------------------------------------------------------
(* Nodes that disagree.                                                    *)

Compatible == config.agree /\ config.senderOk

\* A guard that counts, or data on the wire, needs a sender that runs, and a
\* cloud node that agrees with it.
LaunchInv ==
  /\ LaunchTypeOK
  /\ proc["sender"] = "up" => config.senderOk
  /\ frames > 0 => Compatible
  /\ DisagreeingNodesShowWall

LEMMA LaunchInvInductive == LaunchInv /\ [LaunchNext]_launchVars => LaunchInv'
<1> SUFFICES ASSUME LaunchInv, [LaunchNext]_launchVars
             PROVE  LaunchInv'
  OBVIOUS
<1> USE LaunchAssumption DEF DisagreeingNodesShowWall, Compatible
<1>1. CASE config = NothingLaunched /\ \E c \in Configs : LaunchNodes(c)
  <2>1. PICK c \in Configs : LaunchNodes(c)
    BY <1>1
  <2>2. frames = 0 /\ wire # "data"
    BY <1>1 DEF LaunchInv, LaunchTypeOK, NothingLaunched
  <2>3. proc'["sender"] # "up"
    BY <2>1 DEF LaunchNodes, Processes
  <2>4. LaunchTypeOK'
    BY <2>1, LaunchKeepsType DEF LaunchInv
  <2> QED
    BY <2>1, <2>2, <2>3, <2>4 DEF LaunchNodes, LaunchInv
<1>2. CASE \E p \in Processes : StartNode(p) \/ FailStart(p) \/ CrashNode(p)
  <2>1. LaunchTypeOK'
    BY <1>2, NodesKeepType DEF LaunchInv
  <2>2. PICK p \in Processes : StartNode(p) \/ FailStart(p) \/ CrashNode(p)
    BY <1>2
  <2>3. /\ config' = config
        /\ frames' \in {0, frames}
        /\ wire' \in {"silent", wire}
    BY <2>2 DEF StartNode, FailStart, CrashNode, LaunchInv, LaunchTypeOK
  <2>4. proc'["sender"] = "up" => config.senderOk
    BY <2>2 DEF StartNode, FailStart, CrashNode, Starts, Ended, Processes,
                LaunchInv, LaunchTypeOK
  <2> QED
    BY <2>1, <2>3, <2>4 DEF LaunchInv, LaunchTypeOK
<1>3. CASE LearnTf \/ ToggleClock \/ UNCHANGED launchVars
  BY <1>3 DEF LearnTf, ToggleClock, launchVars, nodeVars, LaunchInv, LaunchTypeOK
<1>4. CASE \E bad \in BOOLEAN : ReceiveSectors(bad)
  <2>1. LaunchTypeOK'
    BY <1>4, NodesKeepType DEF LaunchInv
  <2>2. PICK bad \in BOOLEAN : ReceiveSectors(bad)
    BY <1>4
  <2>3. frames' > 0 => Compatible
    BY <2>2 DEF ReceiveSectors, Refused, LaunchInv
  <2> QED
    BY <2>1, <2>2, <2>3 DEF ReceiveSectors, LaunchInv
<1>5. CASE \E silence \in BOOLEAN : SendDistances(silence)
  <2>1. LaunchTypeOK'
    BY <1>5, NodesKeepType DEF LaunchInv
  <2>2. PICK silence \in BOOLEAN : SendDistances(silence)
    BY <1>5
  <2>3. frames' > 0 => Compatible
    BY <2>2 DEF SendDistances, LaunchInv, LaunchTypeOK
  <2>4. wire' = "data" => frames' > 0
    BY <2>1, <2>2 DEF SendDistances, LaunchTypeOK
  <2> QED
    BY <2>1, <2>2, <2>3, <2>4 DEF SendDistances, LaunchInv
<1> QED
  BY <1>1, <1>2, <1>3, <1>4, <1>5 DEF LaunchNext, NodesNext

\* Whatever two nodes are launched, and however often they crash and start
\* again, distances reach the autopilot only if the ranges of both and the angle
\* offset agree and the sender accepts its parameters.
THEOREM DisagreementIsSafe == LaunchSpec => []DisagreeingNodesShowWall
<1>1. LaunchInit => LaunchInv
  BY InitialType, LaunchAssumption
     DEF LaunchInit, LaunchInv, DisagreeingNodesShowWall, Processes
<1>2. LaunchInv => DisagreeingNodesShowWall
  BY DEF LaunchInv
<1> QED
  BY <1>1, <1>2, LaunchInvInductive, PTL DEF LaunchSpec

=============================================================================
