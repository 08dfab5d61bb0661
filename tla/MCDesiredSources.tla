-------------------------- MODULE MCDesiredSources --------------------------
(* Instances of DesiredSources for TLC.                                    *)
EXTENDS DesiredSources

CONSTANTS v1, v2, cli, service

(* Skill 1 has one team source and a direct subscription, skill 2 two team *)
(* sources that may disagree.                                              *)
MCTeam == [r \in Resources |-> IF r = 1 THEN {v1} ELSE {v1, v2}]
MCPack == [r \in Resources |-> IF r = 1 THEN {} ELSE {v1}]
MCDirect == [r \in Resources |-> IF r = 1 THEN {v2} ELSE {}]
(* A direct subscription to a skill whose team sources may disagree.       *)
MCDirectAll == [r \in Resources |-> {v2}]
MCNoDirect == [r \in Resources |-> {}]
=============================================================================
