------------------------------ MODULE MCNmbmIo ------------------------------
(* Two clients of the device and the task that runs the reboot notifier;   *)
(* two pages of two data and two OOB bytes.                                *)
EXTENDS NmbmIo

CONSTANTS c1, c2, r

C(op, from, len, ooblen, ooboffs) ==
  [op |-> op, from |-> from, len |-> len, ooblen |-> ooblen, ooboffs |-> ooboffs]

MCCalls == {
  C("write", 1, 3, 0, 0),        \* from the middle of a page to the end of the next
  C("write", 0, 1, 0, 0),        \* the start of a page
  C("read", 1, 2, 0, 0),         \* across two pages
  C("write_oob", 1, 2, 3, 1),    \* data and OOB, both in parts on two pages
  C("write_oob", 0, 2, 4, 0),    \* OOB of more pages than data
  C("write_oob", 2, 0, 1, 1),    \* OOB only
  C("read_oob", 1, 3, 3, 1),
  C("read_oob", 0, 1, 4, 0),
  C("read_oob", 2, 2, 2, 1),     \* beyond the last OOB area: refused
  C("erase", 0, 0, 0, 0)
}
=============================================================================
