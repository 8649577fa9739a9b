---------------------------- MODULE MCDualImage ----------------------------
(* DualImage with the bounds of the .cfg files.                            *)
EXTENDS DualImage
=============================================================================
