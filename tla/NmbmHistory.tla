---------------------------- MODULE NmbmHistory -----------------------------
(***************************************************************************)
(* Nmbm with two history variables.  They record the two events after      *)
(* which nmbm-core.c no longer keeps what it promises about the mapping    *)
(* and the client's data, so that the promises can be stated, checked and  *)
(* proved up to the first of them on every chip.  They do not influence    *)
(* the steps of Nmbm.                                                      *)
(***************************************************************************)
EXTENDS Nmbm

VARIABLES
  skipped,   \* nmbm_map_block has passed over a bad spare block
  unsaved    \* power has gone while an acknowledged mapping was not on the chip

historyVars == <<skipped, unsaved>>

\* nmbm_map_block: the walk down from mapping_blocks_top_ba has passed over
\* bad blocks.  The top is lowered by one all the same, to a block that is not
\* below the one taken.
Skips ==
  /\ pc # "off" /\ pc' # "off"
  /\ \E lb \in Logic :
       /\ ni'.block_mapping[lb] \notin {ni.block_mapping[lb], NoBlock}
       /\ ni'.block_mapping[lb] < ni.mapping_blocks_top_ba

\* What the client was told about a logic block concerns the physical block
\* that the table on the chip names.
AckSaved ==
  \A lb \in Logic : view[lb] # "unknown" =>
    Persisted # NoTable /\ Persisted.map[lb] = ni.block_mapping[lb]

PowerGoes == pc # "off" /\ pc' = "off"

Record ==
  /\ skipped' = (skipped \/ Skips)
  /\ unsaved' = (unsaved \/ (PowerGoes /\ ~AckSaved))

HistInit == Init /\ skipped = FALSE /\ unsaved = FALSE

HistNext == Next /\ Record

HistSpec == HistInit /\ [][HistNext]_<<vars, historyVars>>

\* The fairness of Nmbm.
HistFairSpec == HistSpec /\ ([]<>(~Running) \/ []<><<Step>>_vars)

-----------------------------------------------------------------------------
\* nmbm_map_block takes an unused block: until its walk passes over a bad
\* spare block for the first time, no physical block serves two logic blocks,
\* through all remaps, table saves, power cuts and attaches.
MappingKept == skipped \/ MappingInjective

\* Up to the same event, on every path that gives up a table for lack of
\* room: main table, backup table and the unmapped spare blocks follow each
\* other between the start of the management area and the signature, as
\* nmbm_update_info_table_once and the rescue routines rely on.
LayoutKept == skipped \/ TableLayout

\* Isolation of the logic blocks, up to the same event: the content of a block
\* that nmbm_map_block or the initial mapping has given to a logic block
\* changes only in nmbm_erase_logic_block, nmbm_write_logic_page or
\* nmbm_mark_bad_block called for that logic block.  No table or signature
\* write, rescue, rebuild or erased range reaches it, and no operation on
\* another logic block.
OwnDataKept == [][skipped \/ OwnDataStep]_<<vars, historyVars>>

\* Acknowledged data on a chip that runs out of blocks: what the client was
\* told about a logic block stays true, unless nmbm_map_block has passed over
\* a bad spare block or power has gone while the mapping of an acknowledged
\* block was not the one on the chip.
DataKept == skipped \/ unsaved \/ ClientData

CutStep == PowerGoes => skipped \/ unsaved \/ Persisted = NoTable \/ AckSaved

\* When that may be: nmbm_erase_logic_block and nmbm_write_logic_page have
\* acknowledged nothing that is not saved, whatever routine the power cut
\* falls into, so a cut separates the client from its data only while the chip
\* holds no table at all (LostOnlyInPlace says when).
CutKeepsAcknowledged == [][CutStep]_<<vars, historyVars>>
=============================================================================
