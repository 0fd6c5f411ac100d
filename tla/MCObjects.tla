------------------------------ MODULE MCObjects ------------------------------
(***************************************************************************)
(* Objects for TLC.  The wall shares nothing with the other two but the    *)
(* frames, so that a behaviour draws either power-ups and obstacles or     *)
(* walls; the power-up the game starts with is there in both.  A bullet    *)
(* hits one block of the wall or its flag.                                 *)
(***************************************************************************)
EXTENDS Objects

VARIABLE drawn  \* the kinds this behaviour draws

TwoRoofs == {2, 5}
BlockAndFlag == {5, 14}
AllKinds == {2, 4, 6}

MCInit == Init /\ drawn \in {Kinds \ {6}, {6}}

MCNext == (Hit \/ Detected \/ SpawnOf(drawn) \/ Move) /\ UNCHANGED drawn

MCSpec == MCInit /\ [][MCNext]_<<vars, drawn>> /\ WF_<<vars, drawn>>(MCNext)
=============================================================================
