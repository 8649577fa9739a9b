----------------------------- MODULE MCMtkBoot -----------------------------
(* Two versions, the second with a shorter root file system, in partitions *)
(* of four blocks: the first version fills its partition.                  *)
EXTENDS MtkBoot

MCKernel == [v \in Versions |-> 1]
MCRootfs == [v \in Versions |-> IF v = FirstVersion THEN 3 ELSE 2]
=============================================================================
