-------------------------------- MODULE Nmbm --------------------------------
(***************************************************************************)
(* NMBM as a state machine (drivers/mtd/nmbm/nmbm-core.c, the same file in *)
(* U-Boot and in the Linux tree).  One step is one erase or one program of *)
(* a physical block, or the memory-only code between two of them, so that  *)
(* a power cut (Crash) can fall between any two flash operations.          *)
(*                                                                         *)
(* Every flash operation may fail; what the code does about it (mark the   *)
(* block bad, go on, rescue a table, remap a logic block) is the subject.  *)
(*                                                                         *)
(* `ni' is struct nmbm_instance; `dirty' stands for                        *)
(* block_state_changed || block_mapping_changed, which the code only tests *)
(* and clears together.  `io' is the frame of the innermost routine that   *)
(* touches management blocks (nmbm_write_mgmt_range, nmbm_erase_range,     *)
(* nmbm_write_signature), `io.k' the call it returns to; `call' is the     *)
(* frame of the public operation under way.                                *)
(***************************************************************************)
EXTENDS NmbmOps

CONSTANTS
  FactoryBad,     \* blocks marked bad before NMBM first sees the chip
  FCreate,        \* lower.flags & NMBM_F_CREATE
  Ops,            \* the public operations the client uses
  MarkMayFail,    \* mark_bad_block of the lower device may fail
  ReadMayFail,    \* reading a management block during attach may fail
  MaxFail,        \* bound: flash operations that fail, over the whole run
  MaxCrash,       \* bound: power cuts
  MaxCount        \* bound: write count up to which the client keeps detaching

ASSUME ModelAssumption ==
  /\ FactoryBad \subseteq Blocks
  /\ FCreate \in BOOLEAN /\ MarkMayFail \in BOOLEAN /\ ReadMayFail \in BOOLEAN
  /\ Ops \subseteq {"erase", "read", "write", "markbad", "detach"}
  /\ MaxFail \in Nat /\ MaxCrash \in Nat /\ MaxCount \in Nat

VARIABLES
  flash,     \* content of every physical block
  physBad,   \* blocks whose bad mark (OOB) is set
  ni,        \* struct nmbm_instance, in RAM
  pc, io, call,
  view,      \* what the client was told about each logic block
  fails, crashes

vars == <<flash, physBad, ni, pc, io, call, view, fails, crashes>>

-----------------------------------------------------------------------------
\* The instance after nmbm_init_structure: all blocks good, nothing mapped.
EmptyTable == [wc |-> 0, st |-> AllGood, map |-> [lb \in Logic |-> NoBlock]]

NewInstance ==
  [block_state |-> AllGood,
   block_mapping |-> [lb \in Logic |-> NoBlock],
   dirty |-> FALSE, write_count |-> 0, cache |-> EmptyTable,
   main_table_ba |-> 0, backup_table_ba |-> 0,
   mapping_blocks_ba |-> 0, mapping_blocks_top_ba |-> 0,
   data_block_count |-> 0, protected |-> FALSE, signature_ba |-> 0]

NoIO   == [k |-> "none", ba |-> 0, limit |-> 0, left |-> 0, start |-> 0, saved |-> 0]
NoCall == [lb |-> 0, pb |-> 0, by |-> "none", then |-> "none"]

Init ==
  /\ flash = [b \in Blocks |-> Blank]
  /\ physBad = FactoryBad
  /\ ni = NewInstance
  /\ pc = "off" /\ io = NoIO /\ call = NoCall
  /\ view = [lb \in Logic |-> "unknown"]
  /\ fails = 0 /\ crashes = 0

-----------------------------------------------------------------------------
(* In-memory helpers on an instance n.                                     *)

\* Mutant: a new block state that is not scheduled for saving.
SetStateUnsaved(n, b, s) == [n EXCEPT !.block_state[b] = s]

\* nmbm_set_block_state
SetState(n, b, s) ==
  [n EXCEPT !.block_state[b] = s, !.dirty = @ \/ n.block_state[b] # s]

\* nmbm_mark_tables_clean
Clean(n) == [n EXCEPT !.dirty = FALSE]

\* nmbm_generate_info_table_cache
GenerateCache(n) ==
  LET wc == IF n.dirty THEN n.write_count + 1 ELSE n.write_count
  IN  [n EXCEPT !.write_count = wc,
                !.cache = [wc |-> wc, st |-> n.block_state, map |-> n.block_mapping]]

\* nmbm_map_block: the block it would take, and its effect on n.
SpareFor(n) ==
  WalkDesc(n.block_state, n.mapping_blocks_top_ba, 0, n.mapping_blocks_ba)

NoUnmapped(n) == n.mapping_blocks_ba = n.mapping_blocks_top_ba

\* Mutant: the spare block taken stays in the pool.
MapToKeepTop(n, lb, pb) == [n EXCEPT !.block_mapping[lb] = pb, !.dirty = TRUE]

MapTo(n, lb, pb) ==
  [n EXCEPT !.block_mapping[lb] = pb, !.mapping_blocks_top_ba = @ - 1, !.dirty = TRUE]

\* An operation on b fails and nmbm_mark_phys_bad_block follows.  Marking
\* destroys the content; if it fails too, which no caller checks, one of
\* `leftovers' stays behind.
BlockFails(b, leftovers) ==
  /\ fails < MaxFail
  /\ fails' = fails + 1
  /\ \/ /\ physBad' = physBad \cup {b}
        /\ flash' = [flash EXCEPT ![b] = Blank]
     \/ /\ MarkMayFail
        /\ \E c \in leftovers : flash' = [flash EXCEPT ![b] = c]
        /\ UNCHANGED physBad

\* nmbm_erase_phys_block.  The lower MTD driver (nand_erase_nand) refuses to
\* erase a block whose bad mark is set.
ErasePhys(b) ==
  /\ b \notin physBad
  /\ flash' = [flash EXCEPT ![b] = Blank]
  /\ UNCHANGED <<physBad, fails>>

ErasePhysFails(b) ==
  \/ b \in physBad /\ UNCHANGED <<flash, physBad, fails>>
  \/ b \notin physBad /\ BlockFails(b, {flash[b], Blank})

-----------------------------------------------------------------------------
(* Frames of the flash routines.                                           *)

\* nmbm_write_info_table(ni, ba, limit) called from k
WriteTable(k, ba, limit, saved) ==
  /\ io' = [k |-> k, ba |-> ba, limit |-> limit, left |-> TableBlocks,
            start |-> 0, saved |-> saved]
  /\ pc' = "wErase"

\* nmbm_erase_range(ni, ba, limit) called from k
EraseRange(k, ba, limit, saved) ==
  /\ io' = [io EXCEPT !.k = k, !.ba = ba, !.limit = limit, !.saved = saved]
  /\ pc' = "range"

\* A routine that writes tables returns ok to its caller.
TableReturn(n, ok) ==
  /\ io' = NoIO
  /\ \/ /\ call.by = "load"        \* nmbm_load_info_table, end
        /\ ni' = [n EXCEPT !.protected = @ \/ NoUnmapped(n) \/ ~ok]
        /\ pc' = "idle"
     \/ /\ call.by = "create"      \* nmbm_create_info_table
        /\ ni' = n
        /\ pc' = IF ok THEN "createMap" ELSE "dead"
     \/ /\ call.by = "update"      \* nmbm_update_info_table, loop
        /\ ni' = n
        /\ pc' = IF ok THEN "update"
                 ELSE IF call.then = "attached" THEN "dead" ELSE call.then
  /\ UNCHANGED call

\* Call nmbm_update_info_table, then continue at `then'.
UpdateInfoTable(n, lb, pb, then) ==
  /\ ni' = n
  /\ call' = [lb |-> lb, pb |-> pb, by |-> "update", then |-> then]
  /\ io' = NoIO
  /\ pc' = "update"

-----------------------------------------------------------------------------
(* nmbm_write_mgmt_range: erase, program and verify block after block.     *)

Here == NextGood(ni.block_state, io.ba, io.limit)

WriteErase ==
  /\ pc = "wErase" /\ Here < io.limit
  /\ \/ /\ ErasePhys(Here)
        /\ pc' = "wProgram" /\ io' = [io EXCEPT !.ba = Here]
        /\ UNCHANGED ni
     \/ /\ ErasePhysFails(Here)
        /\ ni' = SetState(ni, Here, BAD)
        /\ io' = [io EXCEPT !.ba = Here + 1]
        /\ UNCHANGED pc
  /\ UNCHANGED <<call, view, crashes>>

\* Mutant: the loop runs once more after the last chunk.
WriteProgramOneMore ==
  /\ pc = "wProgram"
  /\ \/ /\ flash' = [flash EXCEPT ![io.ba] = Chunk(ni.cache, TableBlocks - io.left)]
        /\ io' = [io EXCEPT !.ba = @ + 1, !.left = @ - 1,
                            !.start = IF io.left = TableBlocks THEN io.ba ELSE @]
        /\ pc' = IF io.left = 0 THEN "ret" ELSE "wErase"
        /\ UNCHANGED <<physBad, ni, fails>>
     \/ /\ BlockFails(io.ba, {Blank, Chunk(ni.cache, TableBlocks - io.left)})
        /\ ni' = SetState(ni, io.ba, BAD)
        /\ io' = [io EXCEPT !.ba = @ + 1]
        /\ pc' = "wErase"
  /\ UNCHANGED <<call, view, crashes>>

WriteProgram ==
  /\ pc = "wProgram"
  /\ \/ /\ flash' = [flash EXCEPT ![io.ba] = Chunk(ni.cache, TableBlocks - io.left)]
        /\ io' = [io EXCEPT !.ba = @ + 1, !.left = @ - 1,
                            !.start = IF io.left = TableBlocks THEN io.ba ELSE @]
        /\ pc' = IF io.left = 1 THEN "ret" ELSE "wErase"
        /\ UNCHANGED <<physBad, ni, fails>>
     \/ /\ BlockFails(io.ba, {Blank, Chunk(ni.cache, TableBlocks - io.left)})
        /\ ni' = SetState(ni, io.ba, BAD)
        /\ io' = [io EXCEPT !.ba = @ + 1]
        /\ pc' = "wErase"
  /\ UNCHANGED <<call, view, crashes>>

WriteOutOfRange ==
  /\ pc = "wErase" /\ Here >= io.limit
  /\ pc' = "ret"
  /\ UNCHANGED <<flash, physBad, ni, io, call, view, fails, crashes>>

\* nmbm_write_info_table has returned to k with success = ok
Returned(k, ok) == pc = "ret" /\ io.k = k /\ (io.left = 0) = ok

\* nmbm_erase_range
RangeErase ==
  /\ pc = "range" /\ Here < io.limit
  /\ io' = [io EXCEPT !.ba = Here + 1]
  /\ \/ ErasePhys(Here) /\ UNCHANGED ni
     \/ /\ ErasePhysFails(Here)
        /\ ni' = SetState(ni, Here, BAD)
  /\ UNCHANGED <<pc, call, view, crashes>>

RangeErased(k) == pc = "range" /\ Here >= io.limit /\ io.k = k

-----------------------------------------------------------------------------
(* nmbm_rebuild_info_table                                                 *)

\* Mutant: the main table may not skip a bad block.
RebuildNoSkip(n) ==
  /\ ni' = [n EXCEPT !.main_table_ba = 0, !.backup_table_ba = 0,
                     !.mapping_blocks_ba = n.mapping_blocks_top_ba]
  /\ WriteTable("rebuildMain", MgmtStart, MgmtStart + TableBlocks, 0)

Rebuild(n) ==
  /\ ni' = [n EXCEPT !.main_table_ba = 0, !.backup_table_ba = 0,
                     !.mapping_blocks_ba = n.mapping_blocks_top_ba]
  /\ WriteTable("rebuildMain", MgmtStart, n.mapping_blocks_top_ba, 0)

RebuildMain ==
  /\ \/ /\ Returned("rebuildMain", TRUE)
        /\ LET n == Clean([ni EXCEPT !.main_table_ba = io.start, !.mapping_blocks_ba = io.ba])
               next == TryReserve(n.block_state, io.ba, n.mapping_blocks_top_ba - TableBlocks)
           IN  IF next = NoBlock
               THEN TableReturn(n, TRUE)
               ELSE /\ ni' = n
                    /\ WriteTable("rebuildBackup", next, n.mapping_blocks_top_ba, io.ba)
                    /\ UNCHANGED call
     \/ /\ Returned("rebuildMain", FALSE)
        /\ TableReturn([ni EXCEPT !.protected = TRUE], FALSE)
  /\ UNCHANGED <<flash, physBad, view, fails, crashes>>

RebuildBackup ==
  /\ \/ /\ Returned("rebuildBackup", TRUE)
        /\ ni' = [ni EXCEPT !.backup_table_ba = io.start, !.mapping_blocks_ba = io.ba]
        /\ EraseRange("rebuildErase", io.saved, io.start, 0)
        /\ UNCHANGED call
     \/ /\ Returned("rebuildBackup", FALSE)
        /\ TableReturn(ni, TRUE)
  /\ UNCHANGED <<flash, physBad, view, fails, crashes>>

RebuildErased ==
  /\ RangeErased("rebuildErase")
  /\ TableReturn(ni, TRUE)
  /\ UNCHANGED <<flash, physBad, view, fails, crashes>>

-----------------------------------------------------------------------------
(* nmbm_rescue_single_info_table: first in front of the table, then behind *)

\* Mutant: the search for room starts at the data area.
RescueSingleFromZero(n) ==
  /\ ni' = n
  /\ WriteTable("rescueFront", 0, n.main_table_ba, 0)

RescueSingle(n) ==
  /\ ni' = n
  /\ WriteTable("rescueFront", MgmtStart, n.main_table_ba, 0)

\* What `ni->mapping_blocks_top_ba - size2blk(...)' leaves for a reservation
ReserveBehind(n) ==
  TryReserve(n.block_state, n.mapping_blocks_ba, n.mapping_blocks_top_ba - TableBlocks)

RescueFront ==
  /\ \/ /\ Returned("rescueFront", TRUE)
        /\ ni' = Clean([ni EXCEPT !.backup_table_ba = ni.main_table_ba,
                                  !.main_table_ba = io.start])
        /\ EraseRange("rescueFrontErase", io.ba, ni.main_table_ba, 0)
        /\ UNCHANGED call
     \/ /\ Returned("rescueFront", FALSE)
        /\ LET write_ba == ReserveBehind(ni)
           IN  IF write_ba = NoBlock
               THEN TableReturn(ni, FALSE)
               ELSE /\ WriteTable("rescueBehind", write_ba, ni.mapping_blocks_top_ba, write_ba)
                    /\ UNCHANGED <<ni, call>>
  /\ UNCHANGED <<flash, physBad, view, fails, crashes>>

RescueFrontErased ==
  /\ RangeErased("rescueFrontErase")
  /\ TableReturn(ni, TRUE)
  /\ UNCHANGED <<flash, physBad, view, fails, crashes>>

RescueBehind ==
  /\ \/ /\ Returned("rescueBehind", TRUE)
        /\ EraseRange("rescueBehindErase", ni.mapping_blocks_ba, io.start, io.ba)
        /\ UNCHANGED <<ni, call>>
     \/ /\ Returned("rescueBehind", FALSE)
        /\ IF io.saved - 1 >= ni.mapping_blocks_ba
           THEN /\ WriteTable("rescueBehind", io.saved - 1, ni.mapping_blocks_top_ba, io.saved - 1)
                /\ UNCHANGED <<ni, call>>
           ELSE TableReturn(ni, FALSE)
  /\ UNCHANGED <<flash, physBad, view, fails, crashes>>

RescueBehindErased ==
  /\ RangeErased("rescueBehindErase")
  /\ TableReturn(Clean([ni EXCEPT !.backup_table_ba = io.start,
                                  !.mapping_blocks_ba = io.saved]), TRUE)
  /\ UNCHANGED <<flash, physBad, view, fails, crashes>>

-----------------------------------------------------------------------------
(* nmbm_update_single_info_table, called while loading                     *)

\* Mutant: the table with the higher write count is rewritten.
UpdateSingleNewer(n, main) ==
  /\ ni' = n
  /\ IF main
     THEN WriteTable("singleBackup", n.backup_table_ba, n.mapping_blocks_top_ba, 0)
     ELSE WriteTable("singleMain", n.main_table_ba, n.backup_table_ba, 0)

UpdateSingle(n, main) ==
  /\ ni' = n
  /\ IF main
     THEN WriteTable("singleMain", n.main_table_ba, n.backup_table_ba, 0)
     ELSE WriteTable("singleBackup", n.backup_table_ba, n.mapping_blocks_top_ba, 0)

SingleMain ==
  /\ \/ /\ Returned("singleMain", TRUE)
        /\ TableReturn(Clean([ni EXCEPT !.main_table_ba = io.start]), TRUE)
     \/ /\ Returned("singleMain", FALSE)
        /\ RescueSingle([ni EXCEPT !.main_table_ba = ni.backup_table_ba, !.backup_table_ba = 0])
        /\ UNCHANGED call
  /\ UNCHANGED <<flash, physBad, view, fails, crashes>>

SingleBackup ==
  /\ \/ /\ Returned("singleBackup", TRUE)
        /\ TableReturn(Clean([ni EXCEPT !.backup_table_ba = io.start,
                                        !.mapping_blocks_ba = io.ba]), TRUE)
     \/ /\ Returned("singleBackup", FALSE)
        /\ TableReturn([ni EXCEPT !.mapping_blocks_ba = ni.backup_table_ba,
                                  !.backup_table_ba = 0], FALSE)
  /\ UNCHANGED <<flash, physBad, view, fails, crashes>>

-----------------------------------------------------------------------------
(* nmbm_rescue_main_info_table.  The code after `main_table_end_ba <=      *)
(* tmp_table_start_ba' cannot run: tmp_table_start_ba was the write limit. *)

BackupBecomesMain(n) ==
  TableReturn([n EXCEPT !.main_table_ba = n.backup_table_ba, !.backup_table_ba = 0], TRUE)

RescueMain(n) ==
  LET write_ba == ReserveBehind(n)
  IN  IF write_ba = NoBlock
      THEN BackupBecomesMain(n)
      ELSE /\ ni' = n
           /\ WriteTable("rescueTemp", write_ba, n.mapping_blocks_top_ba, write_ba)
           /\ UNCHANGED call

RescueMainTemp ==
  /\ \/ /\ Returned("rescueTemp", TRUE)
        /\ ni' = [ni EXCEPT !.mapping_blocks_ba = io.ba]
        /\ WriteTable("rescueMain", MgmtStart, io.start, 0)
        /\ UNCHANGED call
     \/ /\ Returned("rescueTemp", FALSE)
        /\ IF io.saved - 1 >= ni.mapping_blocks_ba
           THEN /\ WriteTable("rescueTemp", io.saved - 1, ni.mapping_blocks_top_ba, io.saved - 1)
                /\ UNCHANGED <<ni, call>>
           ELSE BackupBecomesMain(ni)
  /\ UNCHANGED <<flash, physBad, view, fails, crashes>>

RescueMainMain ==
  /\ \/ /\ Returned("rescueMain", TRUE)
        /\ TableReturn(Clean([ni EXCEPT !.main_table_ba = io.start,
                                        !.backup_table_ba = io.limit]), TRUE)
     \/ /\ Returned("rescueMain", FALSE)
        /\ TableReturn(Clean([ni EXCEPT !.main_table_ba = io.limit,
                                        !.backup_table_ba = 0]), TRUE)
  /\ UNCHANGED <<flash, physBad, view, fails, crashes>>

-----------------------------------------------------------------------------
(* nmbm_update_info_table and nmbm_update_info_table_once                  *)

\* label write_main_table
WriteMain(n, limit) ==
  IF n.main_table_ba = 0
  THEN Rebuild(n)
  ELSE /\ ni' = n
       /\ WriteTable("onceMain", n.main_table_ba, limit, 0)

\* Mutant: the backup table may be written up to the signature.
UpdateOnceToSignature ==
  /\ pc = "update" /\ ~ni.protected /\ ni.dirty
  /\ LET n == GenerateCache(ni)
     IN  IF n.backup_table_ba = 0
         THEN WriteMain(n, n.signature_ba)
         ELSE /\ ni' = n
              /\ WriteTable("onceBackup", n.backup_table_ba, n.signature_ba, 0)
  /\ UNCHANGED <<flash, physBad, call, view, fails, crashes>>

UpdateOnce ==
  /\ pc = "update" /\ ~ni.protected /\ ni.dirty
  /\ LET n == GenerateCache(ni)
     IN  IF n.backup_table_ba = 0
         THEN WriteMain(n, n.mapping_blocks_top_ba)
         ELSE /\ ni' = n
              /\ WriteTable("onceBackup", n.backup_table_ba, n.mapping_blocks_top_ba, 0)
  /\ UNCHANGED <<flash, physBad, call, view, fails, crashes>>

UpdateReturn ==
  /\ pc = "update" /\ (ni.protected \/ ~ni.dirty)
  /\ pc' = IF call.then = "attached" THEN "idle" ELSE call.then
  /\ UNCHANGED <<flash, physBad, ni, io, call, view, fails, crashes>>

\* Mutant: mapping_blocks_ba is not adjusted to the backup table's new end.
OnceBackupStaleEnd ==
  /\ \/ /\ Returned("onceBackup", TRUE)
        /\ LET n == Clean([ni EXCEPT !.backup_table_ba = io.start])
           IN  WriteMain(n, n.backup_table_ba)
     \/ /\ Returned("onceBackup", FALSE)
        /\ LET n == [ni EXCEPT !.mapping_blocks_ba = ni.backup_table_ba, !.backup_table_ba = 0]
           IN  WriteMain(n, n.mapping_blocks_top_ba)
  /\ UNCHANGED <<flash, physBad, call, view, fails, crashes>>

\* Mutant: the tables are marked clean whether or not the write succeeded.
OnceBackupCleanFirst ==
  /\ \/ /\ Returned("onceBackup", TRUE)
        /\ LET n == Clean([ni EXCEPT !.backup_table_ba = io.start, !.mapping_blocks_ba = io.ba])
           IN  WriteMain(n, n.backup_table_ba)
     \/ /\ Returned("onceBackup", FALSE)
        /\ LET n == Clean([ni EXCEPT !.mapping_blocks_ba = ni.backup_table_ba, !.backup_table_ba = 0])
           IN  WriteMain(n, n.mapping_blocks_top_ba)
  /\ UNCHANGED <<flash, physBad, call, view, fails, crashes>>

\* Mutant: the main table may grow over the backup table.
OnceBackupNoLimit ==
  /\ \/ /\ Returned("onceBackup", TRUE)
        /\ LET n == Clean([ni EXCEPT !.backup_table_ba = io.start, !.mapping_blocks_ba = io.ba])
           IN  WriteMain(n, n.mapping_blocks_top_ba)
     \/ /\ Returned("onceBackup", FALSE)
        /\ LET n == [ni EXCEPT !.mapping_blocks_ba = ni.backup_table_ba, !.backup_table_ba = 0]
           IN  WriteMain(n, n.mapping_blocks_top_ba)
  /\ UNCHANGED <<flash, physBad, call, view, fails, crashes>>

OnceBackup ==
  /\ \/ /\ Returned("onceBackup", TRUE)
        /\ LET n == Clean([ni EXCEPT !.backup_table_ba = io.start, !.mapping_blocks_ba = io.ba])
           IN  WriteMain(n, n.backup_table_ba)
     \/ /\ Returned("onceBackup", FALSE)
        /\ LET n == [ni EXCEPT !.mapping_blocks_ba = ni.backup_table_ba, !.backup_table_ba = 0]
           IN  WriteMain(n, n.mapping_blocks_top_ba)
  /\ UNCHANGED <<flash, physBad, call, view, fails, crashes>>

OnceMain ==
  /\ \/ /\ Returned("onceMain", TRUE)
        /\ TableReturn(Clean([ni EXCEPT !.main_table_ba = io.start,
                                        !.mapping_blocks_ba =
                                          IF ni.backup_table_ba = 0 THEN io.ba ELSE @]), TRUE)
     \/ /\ Returned("onceMain", FALSE)
        /\ IF ni.backup_table_ba = 0
           THEN Rebuild(ni) /\ UNCHANGED call
           ELSE RescueMain(ni)
  /\ UNCHANGED <<flash, physBad, view, fails, crashes>>

-----------------------------------------------------------------------------
(* nmbm_attach                                                             *)

\* The blocks whose read fails during an attach: a failing operation (the
\* block is marked bad in memory) or an uncorrectable ECC error (it is not).
ReadErrors == {{}} \cup (IF ReadMayFail /\ fails < MaxFail
                         THEN {{b} : b \in {x \in MgmtBlocks : flash[x] # Sig}} ELSE {})

\* nmbm_create_info_table, up to its call of nmbm_rebuild_info_table
CreateInfoTable(n, sig) ==
  LET top == WalkDesc(n.block_state, sig, 1, MgmtStart)
  IN  IF top = NoBlock
      THEN ni' = n /\ pc' = "dead" /\ UNCHANGED io
      ELSE Rebuild(GenerateCache([n EXCEPT !.mapping_blocks_top_ba = top]))

\* nmbm_scan_badblocks; nmbm_build_mapping_table
ScanAndBuild(n) ==
  LET st == ScanBad(n.block_state, physBad)
  IN  [n EXCEPT !.block_state = st,
                !.dirty = @ \/ st # n.block_state,
                !.block_mapping = BuildMapping(st),
                !.data_block_count = Cardinality(UsableData(st))]

\* nmbm_create_new: a chip without signature
AttachNew ==
  /\ pc = "off" /\ FindSignature(flash, physBad) = NoBlock
  /\ IF FCreate
     THEN /\ ni' = ScanAndBuild(NewInstance)
          /\ io' = [NoIO EXCEPT !.k = "signature", !.ba = BlockCount - 1]
          /\ pc' = "sErase"
     ELSE pc' = "dead" /\ UNCHANGED <<ni, io>>
  /\ call' = [NoCall EXCEPT !.by = "create"]
  /\ UNCHANGED <<flash, physBad, view, fails, crashes>>

\* nmbm_write_signature: from the last block down to the management area.
SignatureBlock ==
  LET s == {b \in MgmtStart + 1 .. io.ba : ni.block_state[b] = GOOD}
  IN  IF s = {} THEN NoBlock ELSE Max(s)

SignatureErase ==
  /\ pc = "sErase"
  /\ LET b == SignatureBlock
     IN  \/ /\ b # NoBlock
            /\ ErasePhys(b)
            /\ pc' = "sProgram" /\ io' = [io EXCEPT !.ba = b]
            /\ UNCHANGED ni
         \/ /\ b # NoBlock
            /\ ErasePhysFails(b)
            /\ ni' = SetState(ni, b, BAD)
            /\ io' = [io EXCEPT !.ba = b - 1]
            /\ UNCHANGED pc
         \/ /\ b = NoBlock
            /\ pc' = "dead"
            /\ UNCHANGED <<flash, physBad, ni, io, fails>>
  /\ UNCHANGED <<call, view, crashes>>

SignatureProgram ==
  /\ pc = "sProgram"
  /\ \/ /\ flash' = [flash EXCEPT ![io.ba] = Sig]
        /\ CreateInfoTable([ni EXCEPT !.signature_ba = io.ba], io.ba)
        /\ UNCHANGED <<physBad, fails>>
     \/ /\ BlockFails(io.ba, {Blank, Sig})
        /\ ni' = SetState(ni, io.ba, BAD)
        /\ io' = [io EXCEPT !.ba = @ - 1]
        /\ pc' = "sErase"
  /\ UNCHANGED <<call, view, crashes>>

\* nmbm_search_info_table tries every address below signature_ba -
\* TableBlocks and marks the unusable ones bad in memory.  (A try of a
\* table of several blocks may also mark one of the TableBlocks - 1 blocks
\* behind the last address; the model leaves those to be found in use.)

\* nmbm_load_existing without a valid table: start over, or refuse.
AttachNoTable ==
  /\ pc = "off"
  /\ \E err \in ReadErrors, ecc \in BOOLEAN :
       LET failed == IF ecc THEN {} ELSE err
           sig == FindSignature(flash, physBad \cup err)
           n   == [NewInstance EXCEPT !.signature_ba = sig,
                     !.dirty = \E b \in MgmtStart .. sig - TableBlocks - 1 : b \in physBad \cup failed,
                     !.block_state =
                       [b \in Blocks |-> IF b \in MgmtStart .. sig - TableBlocks - 1
                                            /\ b \in physBad \cup failed
                                         THEN BAD ELSE GOOD]]
       IN  /\ sig # NoBlock
           /\ FirstTable(flash, physBad \cup err, sig) = NoBlock
           /\ IF FCreate
              THEN CreateInfoTable(ScanAndBuild(n), sig)
              ELSE ni' = n /\ pc' = "dead" /\ UNCHANGED io
           /\ fails' = fails + Cardinality(err)
  /\ call' = [NoCall EXCEPT !.by = "create"]
  /\ UNCHANGED <<flash, physBad, view, crashes>>

\* nmbm_load_info_table: the instance built from the tables b1 and b2
\* (NoBlock if there is no second one).  Blocks found unusable during the
\* second search are marked in memory, on top of the first table's states.
LoadedInstance(sig, unusable, b1, b2) ==
  LET t1   == flash[b1].table
      end1 == b1 + TableBlocks
      t2   == flash[b2].table
      newer2 == b2 # NoBlock /\ t2.wc > t1.wc
      scanned == end1 .. (IF b2 = NoBlock THEN sig - TableBlocks ELSE b2) - 1
      found1 == {b \in MgmtStart .. b1 - 1 : b \in unusable}
      found2 == {b \in scanned : b \in unusable /\ t1.st[b] = GOOD}
      map  == IF newer2 THEN t2.map ELSE t1.map
      mapped == {lb \in Logic : map[lb] # NoBlock}
  IN  GenerateCache(
        [NewInstance EXCEPT
           !.signature_ba = sig,
           !.main_table_ba = b1,
           !.backup_table_ba = IF b2 = NoBlock THEN 0 ELSE b2,
           !.block_state = IF newer2 THEN t2.st
                           ELSE [b \in Blocks |-> IF b \in found2 THEN BAD ELSE t1.st[b]],
           !.block_mapping = map,
           !.write_count = IF newer2 THEN t2.wc ELSE t1.wc,
           !.dirty = found1 \cup found2 # {},
           !.mapping_blocks_top_ba = IF newer2
                                     THEN MappingTop(t2, b2 + TableBlocks, sig)
                                     ELSE MappingTop(t1, end1, sig),
           !.mapping_blocks_ba = (IF b2 = NoBlock THEN b1 ELSE b2) + TableBlocks,
           !.data_block_count = IF mapped = {} THEN MgmtStart ELSE Max(mapped) + 1])

AttachExisting ==
  /\ pc = "off"
  /\ \E err \in ReadErrors, ecc \in BOOLEAN :
       LET failed == IF ecc THEN {} ELSE err
           sig == FindSignature(flash, physBad \cup err)
           b1  == FirstTable(flash, physBad \cup err, sig)
           b2  == SecondTable(flash, physBad \cup err, sig, b1)
           n   == LoadedInstance(sig, physBad \cup failed, b1, b2)
           wc1 == flash[b1].table.wc
           wc2 == flash[b2].table.wc
       IN  /\ sig # NoBlock /\ b1 # NoBlock
           /\ IF b2 = NoBlock
              THEN RescueSingle(n)
              ELSE IF wc1 # wc2
              THEN UpdateSingle([n EXCEPT !.dirty = TRUE], wc1 < wc2)
              ELSE /\ ni' = [n EXCEPT !.protected = NoUnmapped(n)]
                   /\ pc' = "idle" /\ UNCHANGED io
           /\ fails' = fails + Cardinality(err)
  /\ call' = [NoCall EXCEPT !.by = "load"]
  /\ UNCHANGED <<flash, physBad, view, crashes>>

\* nmbm_create_info_table: remap the bad blocks at the end of the data area
CreateMap ==
  /\ pc = "createMap"
  /\ LET lb == ni.data_block_count
         pb == SpareFor(ni)
     IN  IF lb >= MgmtStart \/ NoUnmapped(ni)
         THEN UpdateInfoTable(ni, 0, 0, "attached")
         ELSE IF pb = NoBlock
         THEN UpdateInfoTable(ni, 0, 0, "createMapFail")
         ELSE /\ ni' = [MapTo(ni, lb, pb) EXCEPT !.data_block_count = lb + 1]
              /\ UNCHANGED <<pc, io, call>>
  /\ UNCHANGED <<flash, physBad, view, fails, crashes>>

CreateMapFail ==
  /\ pc = "createMapFail"
  /\ UpdateInfoTable([ni EXCEPT !.mapping_blocks_top_ba = ni.mapping_blocks_ba], 0, 0, "attached")
  /\ UNCHANGED <<flash, physBad, view, fails, crashes>>

-----------------------------------------------------------------------------
(* Operations of the client, on logic block lb.  A range operation is one  *)
(* call after the other, stopping at the first error.  With protected set  *)
(* they return -EROFS and change nothing; nmbm_mark_bad_block alone has no *)
(* such check.                                                             *)

Forget(lb) == view' = [view EXCEPT ![lb] = "unknown"]

Request(op, lb) == pc = "idle" /\ op \in Ops /\ lb < ni.data_block_count

\* nmbm_erase_block_range up to nmbm_erase_logic_block
Erase(lb) ==
  /\ Request("erase", lb) /\ ~ni.protected
  /\ pc' = "eraseTry"
  /\ call' = [NoCall EXCEPT !.lb = lb]
  /\ Forget(lb)
  /\ UNCHANGED <<flash, physBad, ni, io, fails, crashes>>

\* `if state != BLOCK_ST_NEED_REMAP, set BLOCK_ST_BAD'
Retire(n, pb) == IF n.block_state[pb] = NEED_REMAP THEN n ELSE SetState(n, pb, BAD)

\* Failure exit of nmbm_erase_logic_block: the logic block becomes unusable.
EraseUnusable(n, lb, pb) ==
  UpdateInfoTable(Retire([n EXCEPT !.block_mapping[lb] = NoBlock], pb), lb, pb, "idle")

\* Mutant: the new block is erased before the table is updated.
RemapUnsaved(n, lb, pb) ==
  LET spare == SpareFor(n)
  IN  IF NoUnmapped(n) \/ spare = NoBlock
      THEN EraseUnusable(n, lb, pb)
      ELSE /\ ni' = Clean(Retire(MapTo(n, lb, spare), pb))
           /\ call' = [NoCall EXCEPT !.lb = lb]
           /\ pc' = "eraseTry"
           /\ UNCHANGED io

\* Mutant: without a spare block the erase is tried again.
RemapForever(n, lb, pb) ==
  LET spare == SpareFor(n)
  IN  UpdateInfoTable(IF NoUnmapped(n) \/ spare = NoBlock
                      THEN Retire(n, pb)
                      ELSE Retire(MapTo(n, lb, spare), pb), lb, pb, "eraseTry")

\* label remap_logic_block
RemapLogicBlock(n, lb, pb) ==
  LET spare == SpareFor(n)
  IN  IF NoUnmapped(n)
      THEN EraseUnusable(n, lb, pb)
      ELSE IF spare = NoBlock
      THEN UpdateInfoTable(n, lb, pb, "eraseMapFail")
      ELSE UpdateInfoTable(Retire(MapTo(n, lb, spare), pb), lb, pb, "eraseTry")

\* label retry of nmbm_erase_logic_block
EraseTry ==
  /\ pc = "eraseTry"
  /\ LET lb == call.lb
         pb == ni.block_mapping[lb]
     IN  \/ /\ pb = NoBlock
            /\ pc' = "idle"
            /\ UNCHANGED <<flash, physBad, ni, io, call, view, fails>>
         \/ /\ pb # NoBlock /\ ni.block_state[pb] \in {BAD, NEED_REMAP}
            /\ RemapLogicBlock(ni, lb, pb)
            /\ UNCHANGED <<flash, physBad, view, fails>>
         \/ /\ pb # NoBlock /\ ni.block_state[pb] = GOOD
            /\ ErasePhys(pb)
            /\ view' = [view EXCEPT ![lb] = "erased"]
            /\ pc' = "idle"
            /\ UNCHANGED <<ni, io, call>>
         \/ /\ pb # NoBlock /\ ni.block_state[pb] = GOOD
            /\ ErasePhysFails(pb)
            /\ RemapLogicBlock(SetState(ni, pb, BAD), lb, pb)
            /\ UNCHANGED view
  /\ UNCHANGED crashes

EraseMapFail ==
  /\ pc = "eraseMapFail"
  /\ EraseUnusable([ni EXCEPT !.mapping_blocks_top_ba = ni.mapping_blocks_ba],
                   call.lb, call.pb)
  /\ UNCHANGED <<flash, physBad, view, fails, crashes>>

Accessible(lb) ==
  /\ ni.block_mapping[lb] # NoBlock
  /\ ni.block_state[ni.block_mapping[lb]] # BAD

\* nmbm_read_logic_page: only a failing read changes anything.
ReadFails(lb) ==
  /\ Request("read", lb) /\ ~ni.protected /\ Accessible(lb)
  /\ fails < MaxFail /\ fails' = fails + 1
  /\ LET pb == ni.block_mapping[lb]
     IN  UpdateInfoTable(SetState(ni, pb, NEED_REMAP), lb, pb, "idle")
  /\ Forget(lb)
  /\ UNCHANGED <<flash, physBad, crashes>>

\* nmbm_write_logic_page.  The client programs a block it has erased.
Write(lb) ==
  /\ Request("write", lb) /\ ~ni.protected /\ Accessible(lb)
  /\ view[lb] = "erased"
  /\ LET pb == ni.block_mapping[lb]
     IN  \/ /\ flash' = [flash EXCEPT ![pb] = IF @ = Blank THEN Data(lb) ELSE Garbage]
            /\ view' = [view EXCEPT ![lb] = "written"]
            /\ UNCHANGED <<physBad, ni, pc, io, call, fails>>
         \/ /\ fails < MaxFail /\ fails' = fails + 1
            /\ flash' = [flash EXCEPT ![pb] = Garbage]
            /\ UpdateInfoTable(SetState(ni, pb, NEED_REMAP), lb, pb, "idle")
            /\ Forget(lb)
            /\ UNCHANGED physBad
  /\ UNCHANGED crashes

\* nmbm_mark_bad_block.  Whether the mark could be written is not looked at.
MarkBad(lb) ==
  /\ Request("markbad", lb) /\ ni.block_mapping[lb] # NoBlock
  /\ LET pb == ni.block_mapping[lb]
     IN  /\ \/ /\ physBad' = physBad \cup {pb}
               /\ flash' = [flash EXCEPT ![pb] = Blank]
               /\ UNCHANGED fails
            \/ /\ MarkMayFail /\ fails < MaxFail
               /\ fails' = fails + 1
               /\ UNCHANGED <<flash, physBad>>
         /\ UpdateInfoTable(SetState([ni EXCEPT !.block_mapping[lb] = NoBlock], pb, BAD),
                            lb, pb, "idle")
  /\ Forget(lb)
  /\ UNCHANGED crashes

\* nmbm_detach
Detach ==
  /\ pc = "idle" /\ "detach" \in Ops /\ ni.write_count < MaxCount
  /\ UpdateInfoTable(ni, 0, 0, "detached")
  /\ UNCHANGED <<flash, physBad, view, fails, crashes>>

PowerOff ==
  /\ ni' = NewInstance /\ io' = NoIO /\ call' = NoCall /\ pc' = "off"
  /\ UNCHANGED <<flash, physBad, view, fails>>

Detached == pc = "detached" /\ PowerOff /\ UNCHANGED crashes

\* Power cut: everything in RAM is gone, the next thing is an attach.
Crash ==
  /\ pc # "off" /\ crashes < MaxCrash
  /\ crashes' = crashes + 1
  /\ PowerOff

-----------------------------------------------------------------------------
Attach == AttachNew \/ AttachNoTable \/ AttachExisting

TableStep ==
  \/ WriteErase \/ WriteProgram \/ WriteOutOfRange \/ RangeErase
  \/ SignatureErase \/ SignatureProgram
  \/ RebuildMain \/ RebuildBackup \/ RebuildErased
  \/ RescueFront \/ RescueFrontErased \/ RescueBehind \/ RescueBehindErased
  \/ SingleMain \/ SingleBackup
  \/ RescueMainTemp \/ RescueMainMain
  \/ UpdateOnce \/ UpdateReturn \/ OnceBackup \/ OnceMain
  \/ CreateMap \/ CreateMapFail

Step == Attach \/ TableStep \/ EraseTry \/ EraseMapFail \/ Detached

ClientStep ==
  \/ \E lb \in Logic : Erase(lb) \/ ReadFails(lb) \/ Write(lb) \/ MarkBad(lb)
  \/ Detach

Next == Step \/ ClientStep \/ Crash

\* The code runs: a routine under way goes on, a powered chip is attached.
\* Nothing is assumed of the client or of power cuts.
Spec == Init /\ [][Next]_vars
\* Weak fairness of Step, with ENABLED Step spelled out: Step has a step
\* exactly while a routine is under way or the chip waits to be attached.
Running == pc \notin {"idle", "dead"}
FairSpec == Spec /\ ([]<>(~Running) \/ []<><<Step>>_vars)

-----------------------------------------------------------------------------
Addresses == 0 .. BlockCount
Labels == {"off", "dead", "idle", "wErase", "wProgram", "ret", "range", "sErase",
           "sProgram", "update", "createMap", "createMapFail", "eraseTry",
           "eraseMapFail", "detached"}

InstanceType ==
  [block_state : StateTables, block_mapping : MappingTables, dirty : BOOLEAN,
   write_count : Nat, cache : Tables, main_table_ba : Addresses,
   backup_table_ba : Addresses, mapping_blocks_ba : Addresses,
   mapping_blocks_top_ba : Addresses, data_block_count : 0 .. MgmtStart,
   protected : BOOLEAN, signature_ba : Blocks]

Callers == {"none", "signature", "rebuildMain", "rebuildBackup", "rebuildErase",
            "rescueFront", "rescueFrontErase", "rescueBehind", "rescueBehindErase",
            "singleMain", "singleBackup", "rescueTemp", "rescueMain", "onceBackup",
            "onceMain"}

FrameType ==
  [k : Callers, ba : Addresses, limit : Addresses, left : 0 .. TableBlocks,
   start : Addresses, saved : Addresses]

CallType ==
  [lb : Logic, pb : Blocks, by : {"none", "load", "create", "update"},
   then : {"none", "attached", "idle", "createMapFail", "eraseTry", "eraseMapFail", "detached"}]

\* Every variable has its type.
TypeOK ==
  /\ flash \in [Blocks -> Contents]
  /\ physBad \subseteq Blocks
  /\ ni \in InstanceType
  /\ pc \in Labels
  /\ io \in FrameType
  /\ call \in CallType
  /\ view \in [Logic -> {"unknown", "erased", "written"}]
  /\ fails \in Nat /\ crashes \in Nat

-----------------------------------------------------------------------------
(* Properties                                                              *)

\* The table the next nmbm_attach would load if the power failed now.
Persisted ==
  CHOOSE t \in {IF sig = NoBlock THEN NoTable ELSE SelectedTable(flash, physBad, sig) :
                   sig \in {FindSignature(flash, physBad)}} : TRUE

\* The info tables of nmbm-core.c implement one atomically replaced image:
\* whatever block of whatever table is being erased or rewritten, rescued or
\* rebuilt when the power fails, the next attach finds the image committed
\* last, and restores exactly its mapping.  The image is where each logic
\* block lives and which of them wait for a remap; the other thing a table
\* records, bad blocks, also has a mark on the chip.
ImageOf(table) ==
  CHOOSE i \in {IF t = NoTable THEN NoTable
                ELSE [map   |-> t.map,
                      remap |-> {lb \in Logic : t.map[lb] # NoBlock
                                                /\ t.st[t.map[lb]] = NEED_REMAP}] :
                  t \in {table}} : TRUE

Atomic == INSTANCE NmbmAtomic WITH
            NoImage <- NoTable, durable <- ImageOf(Persisted), up <- pc # "off",
            mapping <- ni.block_mapping, pending <- ImageOf(ni.cache)
AtomicTables == Atomic!Spec

\* The layout nmbm_update_info_table_once and the rescue routines rely on:
\* the main table, the backup table and the unmapped spare blocks follow
\* each other between the start of the management area and the signature.
Attached == pc \notin {"off", "dead", "sErase", "sProgram"}

TableLayout ==
  Attached =>
    /\ MgmtStart <= ni.mapping_blocks_ba
    /\ ni.mapping_blocks_ba <= ni.mapping_blocks_top_ba
    /\ ni.mapping_blocks_top_ba < ni.signature_ba
    /\ ni.main_table_ba # 0 =>
         /\ MgmtStart <= ni.main_table_ba
         /\ ni.main_table_ba + TableBlocks <= ni.mapping_blocks_ba
    /\ ni.backup_table_ba # 0 =>
         /\ ni.main_table_ba # 0
         /\ ni.main_table_ba + TableBlocks <= ni.backup_table_ba
         /\ ni.backup_table_ba + TableBlocks <= ni.mapping_blocks_ba

Changes(b) == pc \in {"wErase", "wProgram", "range"} /\ flash'[b] # flash[b]

ConfinedStep ==
  \A b \in Blocks : Changes(b) => MgmtStart <= b /\ b < ni.signature_ba

\* Writing, rescuing or rebuilding a table (nmbm_write_mgmt_range,
\* nmbm_erase_range), however often it has to move on past failing blocks,
\* erases and programs blocks of the management area only: never the data
\* area, never the signature or what lies behind it.
TableWritesConfined == [][ConfinedStep]_vars

\* The content of a mapped block changes only in an operation on the logic
\* block it serves.
OwnDataStep ==
  \A lb \in Logic :
    LET pb == ni.block_mapping[lb]
    IN  pc # "off" /\ pb # NoBlock /\ flash'[pb] # flash[pb] =>
          (pc = "eraseTry" /\ call.lb = lb) \/ Write(lb) \/ MarkBad(lb)

\* Acknowledged data stays where the mapping says, through remaps, table
\* rescues, power cuts and re-attaches: a logic block reported written reads
\* back its own data, one reported erased is blank.
ClientData ==
  pc = "idle" =>
    \A lb \in Logic :
      /\ view[lb] = "written" => ni.block_mapping[lb] # NoBlock
                                 /\ flash[ni.block_mapping[lb]] = Data(lb)
      /\ view[lb] = "erased" => ni.block_mapping[lb] # NoBlock
                                /\ flash[ni.block_mapping[lb]] = Blank

InPlace == pc = "wErase" /\ io.k = "onceMain" /\ ni.backup_table_ba = 0

LossStep ==
  ~InPlace /\ <<flash, physBad>>' # <<flash, physBad>> =>
    (Persisted # NoTable => Persisted' # NoTable)

\* However small the pool has become, the chip is left without a loadable
\* table in one place only: nmbm_update_info_table_once rewriting in place
\* the single table that nmbm_rebuild_info_table and the rescue routines
\* found no second place for.
LostOnlyInPlace == [][LossStep]_vars

\* nmbm_map_block takes an unused block: no physical block serves two logic
\* blocks.
MappingInjective ==
  \A l1, l2 \in Logic :
    l1 # l2 /\ ni.block_mapping[l1] # NoBlock => ni.block_mapping[l1] # ni.block_mapping[l2]

\* An attach succeeds as long as failures leave room for a table.
AttachSucceeds == pc # "dead"

Saved ==
  /\ Persisted # NoTable
  /\ \A lb \in Logic : /\ Persisted.st[lb] = ni.block_state[lb]
                       /\ ni.block_mapping[lb] # NoBlock =>
                            Persisted.map[lb] = ni.block_mapping[lb]
NothingToSave == pc = "idle" /\ ~ni.protected /\ ~ni.dirty

\* When an operation has returned and the instance claims nothing is left to
\* save, the table on the chip has every live mapping and every data block's
\* state.
CleanIsPersisted == NothingToSave => Saved

\* Chunk i of a table with the instance's mapping and its data blocks' states
\* is in a usable management block.
OnChip(i) ==
  \E b \in MgmtBlocks \ physBad :
    /\ ni.block_state[b] = GOOD /\ IsTable(flash[b]) /\ flash[b].chunk = i
    /\ flash[b].table.wc = ni.write_count /\ flash[b].table.map = ni.block_mapping
    /\ \A pb \in Logic : flash[b].table.st[pb] = ni.block_state[pb]

CleanStep ==
  ni.dirty /\ ~ni'.dirty /\ pc' # "off" => \A i \in 0 .. TableBlocks - 1 : OnChip(i)

\* nmbm_mark_tables_clean is called only when all of a table is on the chip
\* that says what the instance says, whichever of the routines wrote it, after
\* however many failures, and whatever was erased since.
CleanIsWritten == [][CleanStep]_vars

Stale == {b \in Blocks \ physBad : /\ flash[b].kind = "table"
                                  /\ flash[b].table.wc # ni.write_count}

\* Old tables survive in blocks whose erase failed and whose bad mark could
\* not be written.  nmbm_load_info_table meets such a table like any other
\* and stops at the second table: one stale table never hides the live ones.
\* (Two in front of them do.)
StaleLoses == NothingToSave /\ Cardinality(Stale) <= 1 => Saved

\* The two tables the next nmbm_load_info_table would find, the second one not
\* newer: it takes the mapping and mapping_blocks_top_ba from the first table
\* and mapping_blocks_ba from the end of the second.  A second table, live or
\* left over, never stands where the first one has mapped blocks, so the spare
\* blocks between the two addresses are free.
SecondFits ==
  pc = "off" =>
    \A err \in ReadErrors :
      LET sig == FindSignature(flash, physBad \cup err)
          b1  == FirstTable(flash, physBad \cup err, sig)
          b2  == SecondTable(flash, physBad \cup err, sig, b1)
      IN  /\ sig # NoBlock /\ b1 # NoBlock /\ b2 # NoBlock
          /\ flash[b2].table.wc <= flash[b1].table.wc
          => \A lb \in Logic :
               flash[b1].table.map[lb] \notin b1 + TableBlocks .. b2 + TableBlocks

(* What the comments of nmbm-core.c claim, and the code does not do.       *)

\* Comment in nmbm_erase_logic_block: `Mark logic block unusable, and update
\* info table'.
UnusableIsSaved ==
  pc = "idle" /\ ~ni.protected /\ ~ni.dirty =>
    \A lb \in Logic : ni.block_mapping[lb] = NoBlock => Persisted.map[lb] = NoBlock

\* Comment in nmbm_rebuild_info_table: `Backup table is successfully
\* written, record its offset', so that nmbm_try_load_info_table finds it.
BackupIsLoadable ==
  pc = "idle" /\ ni.backup_table_ba # 0 =>
    LoadableAt(flash, ni.block_state, physBad, ni.signature_ba, ni.backup_table_ba)

-----------------------------------------------------------------------------
\* Every operation returns: the retry loop of nmbm_erase_logic_block, the
\* repeat loop of nmbm_update_info_table and the rescue loops all end.
OperationsReturn == (pc # "idle") ~> (pc \in {"idle", "dead"})
=============================================================================
