---------------------------- MODULE MCRehearsal -----------------------------
(***************************************************************************)
(* What a replay may launch, and who talks on its link.                    *)
(***************************************************************************)
EXTENDS Rehearsal

\* The script's launch with or without use_sim_time in a file, and the launch
\* file's; the nodes are respawned, or a cloud node that refuses its
\* parameters is not.
MCLaunchConfigs ==
  {[processes |-> ps, respawn |-> ok, cloudOk |-> ok, senderOk |-> TRUE,
    agree |-> TRUE, framesMatch |-> TRUE, simTime |-> sim] :
     ps \in {{"cloud"}, {"cloud", "sender"}}, ok \in BOOLEAN, sim \in BOOLEAN}

Talker(system, component, groundStation, autopilot) ==
  [system |-> system, component |-> component,
   groundStation |-> groundStation, autopilot |-> autopilot]

\* The autopilot, that of another vehicle, a ground station, a gimbal.
MCTalkers ==
  {Talker(1, 1, FALSE, TRUE), Talker(2, 1, FALSE, TRUE),
   Talker(255, 190, TRUE, FALSE), Talker(1, 154, FALSE, FALSE)}

=============================================================================
