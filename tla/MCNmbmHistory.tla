---------------------------- MODULE MCNmbmHistory ---------------------------
(* NmbmHistory on a chip whose blocks run out; the bounds are in the .cfg  *)
(* file.                                                                   *)
EXTENDS NmbmHistory
=============================================================================
