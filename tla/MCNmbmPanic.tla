---------------------------- MODULE MCNmbmPanic ----------------------------
(* A panic write in the middle of every operation; the bounds are in the   *)
(* .cfg file.                                                              *)
EXTENDS NmbmPanic
=============================================================================
