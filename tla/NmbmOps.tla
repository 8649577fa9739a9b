------------------------------- MODULE NmbmOps -------------------------------
(***************************************************************************)
(* The data of NMBM (NAND Mapped Bad-block Management,                     *)
(* drivers/mtd/nmbm/nmbm-core.c) and the helpers its routines are built    *)
(* from: block states, the walks that skip bad blocks, what makes an info  *)
(* table on the chip valid, and which table an attach would pick up.       *)
(*                                                                         *)
(* Abstractions:                                                           *)
(*  - a physical block holds one value: Blank (erased or torn), Sig,       *)
(*    Data(lb) (user data of logic block lb), Garbage (programmed twice),  *)
(*    or one erase block's worth ("chunk") of an info table.  A torn or    *)
(*    partly written chunk fails the CRC, hence is Blank to every reader;  *)
(*  - an info table is what it stores: write count, state table, mapping   *)
(*    table.  All chunks of a valid table come from the same table (CRC);  *)
(*  - the mapping table is kept for logic blocks below MgmtStart only; the *)
(*    code fills the rest with -1 and never maps it.                       *)
(***************************************************************************)
EXTENDS Integers, FiniteSets, FiniteSetsExt

CONSTANTS
  BlockCount,     \* ni->block_count
  MgmtStart,      \* ni->mgmt_start_ba, first block of the management area
  TableBlocks     \* size2blk(ni, ni->info_table_size)

ASSUME GeometryAssumption ==
  /\ BlockCount \in Nat /\ MgmtStart \in Nat /\ TableBlocks \in Nat
  /\ 1 <= MgmtStart /\ 1 <= TableBlocks
  /\ TableBlocks <= MgmtStart
  /\ MgmtStart + TableBlocks + 1 < BlockCount

Blocks     == 0 .. BlockCount - 1
Logic      == 0 .. MgmtStart - 1
MgmtBlocks == MgmtStart .. BlockCount - 1
NoBlock    == -1

\* enum nmbm block states: BLOCK_ST_BAD, BLOCK_ST_NEED_REMAP, BLOCK_ST_GOOD
BAD        == 0
NEED_REMAP == 2
GOOD       == 3
States     == {BAD, NEED_REMAP, GOOD}

StateTables   == [Blocks -> States]
MappingTables == [Logic -> Blocks \cup {NoBlock}]
Tables        == [wc : Nat, st : StateTables, map : MappingTables]

Blank    == [kind |-> "blank"]
Garbage  == [kind |-> "garbage"]
Sig      == [kind |-> "sig"]
Data(lb) == [kind |-> "data", lb |-> lb]
Chunk(t, i) == [kind |-> "table", chunk |-> i, table |-> t]

Contents == {Blank, Garbage, Sig}
            \cup [kind : {"data"}, lb : Logic]
            \cup [kind : {"table"}, chunk : 0 .. TableBlocks - 1, table : Tables]

IsTable(c) == c.kind = "table"

-----------------------------------------------------------------------------
\* nmbm_get_spare_block_count: half of the table's blocks, at least two.
\* NMBM_SPARE_BLOCK_DIV = 2, NMBM_SPARE_BLOCK_MULTI = 1, NMBM_SPARE_BLOCK_MIN = 2
SpareBlocks ==
  LET val == ((TableBlocks + 2 \div 2) \div 2) * 1
  IN  IF val < 2 THEN 2 ELSE val

\* The least element of S, or d when S is empty: a loop that stops at the
\* first hit or runs into its limit.
FirstOr(S, d) == IF S = {} THEN d ELSE Min(S)

\* First usable block the write loop reaches from ba, or limit.
NextGood(st, ba, limit) == FirstOr({b \in ba .. limit - 1 : st[b] = GOOD}, limit)

\* nmbm_block_walk_asc / nmbm_block_walk_desc: skip count good blocks and
\* return the good block that follows, NoBlock when limit is reached first.
ClampLimit(limit) == IF limit >= BlockCount THEN BlockCount - 1 ELSE limit

GoodBetween(st, a, b) == Cardinality({x \in a .. b : st[x] = GOOD})

WalkAsc(st, ba, count, limit) ==
  FirstOr({b \in ba .. ClampLimit(limit) - 1 : GoodBetween(st, ba, b) > count}, NoBlock)

WalkDesc(st, ba, count, limit) ==
  LET hit == {b \in ClampLimit(limit) + 1 .. ba : GoodBetween(st, b, ba) > count}
  IN  IF hit = {} THEN NoBlock ELSE Max(hit)

\* nmbm_try_reserve_blocks with min_count = 0: leave as many of the spare
\* blocks as the range allows.
TryReserve(st, ba, limit) ==
  LET fits == {n \in 0 .. SpareBlocks : WalkAsc(st, ba, n, limit) # NoBlock}
  IN  IF fits = {} THEN NoBlock ELSE WalkAsc(st, ba, Max(fits), limit)

\* nmbm_scan_badblocks on top of the states already known
ScanBad(st, bad) == [b \in Blocks |-> IF b \in bad THEN BAD ELSE st[b]]

\* nmbm_build_mapping_table: logic blocks map to the good blocks of the data
\* area in order; data_block_count is how many there are.
UsableData(st) == {pb \in Logic : st[pb] # BAD}

BuildMapping(st) ==
  [lb \in Logic |->
     LET rank(pb) == Cardinality({x \in UsableData(st) : x < pb})
     IN  FirstOr({pb \in UsableData(st) : rank(pb) = lb}, NoBlock)]

-----------------------------------------------------------------------------
\* nmbm_check_info_table: no logic block maps into the management blocks up
\* to the end of this table or onto the signature, and the table does not
\* call its own blocks bad.
CheckInfoTable(t, start, end, sig) ==
  /\ \A lb \in Logic : ~ (t.map[lb] \in MgmtStart .. end - 1) /\ t.map[lb] # sig
  /\ \A b \in start .. end - 1 : t.st[b] = GOOD

\* ... and its result mapping_blocks_top_ba.
MappingTop(t, end, sig) ==
  Min({sig} \cup {t.map[lb] : lb \in {l \in Logic : t.map[l] \in end .. sig - 1}}) - 1

\* nmbm_try_load_info_table at ba, with block states st and unreadable
\* blocks bad: the blocks ba .. ba + TableBlocks - 1 are usable and hold the
\* chunks of one table, in order.
LoadableAt(flash, st, bad, sig, ba) ==
  /\ IsTable(flash[ba])
  /\ LET t == flash[ba].table
     IN  /\ \A i \in 0 .. TableBlocks - 1 :
              /\ st[ba + i] = GOOD /\ ba + i \notin bad
              /\ flash[ba + i] = Chunk(t, i)
         /\ CheckInfoTable(t, ba, ba + TableBlocks, sig)

\* nmbm_search_info_table: address of the first loadable table from ba on.
SearchTable(flash, st, bad, sig, ba) ==
  FirstOr({b \in ba .. sig - TableBlocks - 1 : LoadableAt(flash, st, bad, sig, b)}, NoBlock)

\* nmbm_load_info_table looks for the first table, then for a second one
\* behind it with the first one's block states, and keeps the one with the
\* higher write count (the first if equal).
AllGood == [b \in Blocks |-> GOOD]

FirstTable(flash, bad, sig) == SearchTable(flash, AllGood, bad, sig, MgmtStart)

SecondTable(flash, bad, sig, b1) ==
  SearchTable(flash, flash[b1].table.st, bad, sig, b1 + TableBlocks)

\* Mutant: the first table found wins, whatever its write count.
NewerFirst(flash, b1, b2) == b1

Newer(flash, b1, b2) ==
  IF b2 # NoBlock /\ flash[b2].table.wc > flash[b1].table.wc THEN b2 ELSE b1

NoTable == [wc |-> 0]

SelectedTable(flash, bad, sig) ==
  CHOOSE t \in {IF b1 = NoBlock THEN NoTable
                ELSE flash[Newer(flash, b1, SecondTable(flash, bad, sig, b1))].table :
                  b1 \in {FirstTable(flash, bad, sig)}} : TRUE

\* nmbm_find_signature: highest readable block that holds a signature.
FindSignature(flash, unusable) ==
  LET s == {b \in Blocks : flash[b] = Sig /\ b \notin unusable}
  IN  IF s = {} THEN NoBlock ELSE Max(s)
=============================================================================
