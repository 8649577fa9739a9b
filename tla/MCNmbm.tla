------------------------------- MODULE MCNmbm -------------------------------
(* Nmbm on small chips: geometry, faults and bounds are in the .cfg files. *)
EXTENDS Nmbm
=============================================================================
