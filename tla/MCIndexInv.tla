----------------------------- MODULE MCIndexInv ----------------------------
(* The instances of MCIndex in which the code keeps its promises: TLC checks *)
(* that they meet the hypothesis of the theorems.                           *)
EXTENDS MCIndex, IndexInv

ASSUME Environment
=============================================================================
