----------------------------- MODULE NmbmAtomic -----------------------------
(***************************************************************************)
(* What the two info tables of NMBM are for: to the rest of the system the *)
(* chip holds one image (block states and mapping) that is replaced        *)
(* atomically.  A power cut loses what is in RAM and nothing else;         *)
(* powering up restores the mapping of the durable image; a commit         *)
(* replaces the image by the one prepared in RAM.  Once there is an image, *)
(* there always is one, and it never goes back to an earlier one.          *)
(***************************************************************************)
EXTENDS Integers

CONSTANTS Logic, NoBlock,
          NoImage       \* stands for a chip without a valid table

VARIABLES
  durable,    \* the image the next attach loads
  up,         \* the chip is attached
  mapping,    \* logic to physical blocks, in RAM
  pending     \* the image being saved

Unmapped == [lb \in Logic |-> NoBlock]

Init == durable = NoImage /\ ~up /\ mapping = Unmapped

\* With an image, attaching restores its mapping; without one it may format.
PowerUp ==
  /\ ~up /\ up'
  /\ durable # NoImage => mapping' = durable.map
  /\ UNCHANGED durable

PowerDown ==
  /\ up /\ ~up'
  /\ mapping' = Unmapped
  /\ UNCHANGED durable

\* One logic block gets another physical block, or none.
Remap ==
  /\ up /\ up'
  /\ \E lb \in Logic : \A other \in Logic \ {lb} : mapping'[other] = mapping[other]
  /\ UNCHANGED <<durable, pending>>

\* Take a new image of what is in RAM.
Prepare ==
  /\ up /\ up'
  /\ pending'.map = mapping
  /\ UNCHANGED <<durable, mapping>>

Commit ==
  /\ up /\ up'
  /\ durable' = pending
  /\ UNCHANGED <<mapping, pending>>

Next == PowerUp \/ PowerDown \/ Remap \/ Prepare \/ Commit

Spec == Init /\ [][Next]_<<durable, up, mapping, pending>>
=============================================================================
