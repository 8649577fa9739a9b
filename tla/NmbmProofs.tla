----------------------------- MODULE NmbmProofs -----------------------------
(* Theorems about Nmbm for chips of any size, any number of failing flash  *)
(* operations, power cuts and client requests.                             *)
EXTENDS Nmbm, FiniteSetTheorems, WellFoundedInduction, TLAPS

-----------------------------------------------------------------------------
(* The inductive invariant.                                                *)

\* The blocks the tables and the spare blocks of instance n may use.
Area(n) == MgmtStart .. n.signature_ba - 1

\* The addresses an attached instance keeps; 0 stands for `no table'.
AreaOK(n) ==
  /\ n.mapping_blocks_ba \in Area(n)
  /\ n.mapping_blocks_top_ba \in Area(n)
  /\ n.main_table_ba \in Area(n) \cup {0}
  /\ n.backup_table_ba \in Area(n) \cup {0}

\* The frame f of nmbm_write_mgmt_range or nmbm_erase_range.
FrameOK(f, n) ==
  /\ f.ba \in Area(n)
  /\ f.limit \in Area(n) \cup {0}
  /\ f.start \in Area(n) \cup {0}
  /\ f.saved \in Area(n) \cup {0}
  /\ f.k \in {"rebuildBackup", "rescueBehindErase"} => f.saved \in Area(n)
  /\ f.k \in {"singleBackup", "onceBackup"} => n.backup_table_ba \in Area(n)

TableCode  == {"wErase", "wProgram", "ret", "range"}
ClientCode == {"idle", "update", "createMap", "createMapFail", "eraseTry", "eraseMapFail",
               "detached"}

Chip ==
  /\ flash \in [Blocks -> Contents]
  /\ physBad \subseteq Blocks
  /\ view \in [Logic -> {"unknown", "erased", "written"}]
  /\ fails \in Nat /\ crashes \in Nat

\* The routine that updates the tables knows where to go on.
CallOK == call \in CallType /\ (call.by = "update" => call.then # "none")

Control ==
  /\ pc \in Labels
  /\ pc \in TableCode \cup ClientCode => AreaOK(ni)
  /\ pc \in TableCode => FrameOK(io, ni)
  /\ pc \in TableCode \cup {"sErase", "sProgram"} => call.by # "none"
  /\ pc \in {"wErase", "wProgram"} => io.left # 0
  /\ pc = "wProgram" => io.ba < io.limit
  /\ pc = "update" => call.by = "update"
  /\ pc = "sErase" => io.ba \in Blocks
  /\ pc = "sProgram" => io.ba \in MgmtStart + 1 .. BlockCount - 1

IInv == Chip /\ ni \in InstanceType /\ io \in FrameType /\ CallOK /\ Control

-----------------------------------------------------------------------------
(* Least and greatest elements.                                            *)

LEMMA LeastNatural ==
  ASSUME NEW S \in SUBSET Nat, S # {}
  PROVE  \E x \in S : \A y \in S : x <= y
  <1> DEFINE R == OpToRel(<, Nat)
  <1>1. PICK x \in S : \A y \in S : ~ (<<y, x>> \in R)
    <2>1. IsWellFoundedOn(R, Nat)
      BY NatLessThanWellFounded
    <2> HIDE DEF R
    <2> QED BY <2>1, WFMin
  <1>2. \A y \in S : ~ (y < x)
    BY <1>1 DEF OpToRel
  <1> QED BY <1>2

\* Min and Max of sets of block addresses are what their names say.
LEMMA MinNat ==
  ASSUME NEW S \in SUBSET Nat, S # {}
  PROVE  Min(S) \in S /\ \A y \in S : Min(S) <= y
  <1>1. \E x \in S : \A y \in S : x =< y
    BY LeastNatural
  <1> QED BY <1>1, Zenon DEF Min

LEMMA MaxNat ==
  ASSUME NEW S \in SUBSET Nat, NEW n \in Nat, S # {}, \A x \in S : x <= n
  PROVE  Max(S) \in S /\ \A y \in S : Max(S) >= y
  <1> DEFINE T == {n - x : x \in S}
  <1>1. T \in SUBSET Nat /\ T # {}
    <2>1. \A x \in S : n - x \in Nat
      OBVIOUS
    <2> QED BY <2>1, Zenon
  <1>2. PICK m \in T : \A y \in T : m <= y
    <2> HIDE DEF T
    <2> QED BY <1>1, LeastNatural
  <1>3. PICK x \in S : m = n - x
    BY <1>2
  <1>4. ASSUME NEW y \in S PROVE x >= y
    <2>1. m <= n - y
      BY <1>2
    <2>2. x \in Nat /\ y \in Nat
      OBVIOUS
    <2> QED BY <1>3, <2>1, <2>2
  <1> QED BY <1>4, Zenon DEF Max

LEMMA FirstOrType ==
  ASSUME NEW S \in SUBSET Nat, NEW d
  PROVE  (S # {} /\ FirstOr(S, d) \in S /\ \A y \in S : FirstOr(S, d) <= y)
         \/ (S = {} /\ FirstOr(S, d) = d)
  BY MinNat DEF FirstOr

-----------------------------------------------------------------------------
(* The walks of NmbmOps stay in their ranges.                              *)

\* nmbm_write_mgmt_range and nmbm_erase_range find a good block in front of
\* the limit or stop at it.
LEMMA NextGoodType ==
  ASSUME NEW st, NEW ba \in Nat, NEW limit \in Nat
  PROVE  LET here == NextGood(st, ba, limit)
         IN  here = limit \/ (here \in ba .. limit - 1 /\ st[here] = GOOD)
  <1> DEFINE S == {b \in ba .. limit - 1 : st[b] = GOOD}
  <1>1. S \in SUBSET Nat
    OBVIOUS
  <1> QED BY <1>1, FirstOrType DEF NextGood

\* nmbm_block_walk_asc returns a block of its range or nothing.
LEMMA WalkAscType ==
  ASSUME NEW st, NEW ba \in Nat, NEW count, NEW limit \in Int
  PROVE  LET b == WalkAsc(st, ba, count, limit)
         IN  b = NoBlock \/ (b \in ba .. limit - 1 /\ b \in Blocks)
  <1> DEFINE S == {b \in ba .. ClampLimit(limit) - 1 : GoodBetween(st, ba, b) > count}
  <1>1. ClampLimit(limit) \in Int /\ ClampLimit(limit) <= limit /\ ClampLimit(limit) < BlockCount
    BY GeometryAssumption DEF ClampLimit
  <1>2. S \in SUBSET Nat
    OBVIOUS
  <1>3. WalkAsc(st, ba, count, limit) = FirstOr(S, NoBlock)
    BY DEF WalkAsc
  <1>4. \A b \in S : b \in ba .. limit - 1 /\ b \in Blocks
    BY <1>1, GeometryAssumption DEF Blocks
  <1>5. FirstOr(S, NoBlock) \in S \/ FirstOr(S, NoBlock) = NoBlock
    <2> HIDE DEF S
    <2> QED BY <1>2, FirstOrType
  <1> QED BY <1>3, <1>4, <1>5, Zenon

\* nmbm_block_walk_desc likewise.
LEMMA WalkDescType ==
  ASSUME NEW st, NEW ba \in Blocks, NEW count, NEW limit \in Nat
  PROVE  LET b == WalkDesc(st, ba, count, limit)
         IN  b = NoBlock \/ b \in limit + 1 .. ba \/ limit >= BlockCount
  <1> DEFINE S == {b \in ClampLimit(limit) + 1 .. ba : GoodBetween(st, b, ba) > count}
  <1>1. ClampLimit(limit) \in Nat /\ (limit < BlockCount => ClampLimit(limit) = limit)
    BY GeometryAssumption DEF ClampLimit
  <1>2. S \in SUBSET Nat /\ (\A x \in S : x <= ba) /\ ba \in Nat
    BY <1>1, GeometryAssumption DEF Blocks
  <1>3. WalkDesc(st, ba, count, limit) = IF S = {} THEN NoBlock ELSE Max(S)
    BY DEF WalkDesc
  <1>4. S # {} => Max(S) \in S
    <2> HIDE DEF S
    <2> QED BY <1>2, MaxNat
  <1>5. limit < BlockCount => \A b \in S : b \in limit + 1 .. ba
    BY <1>1
  <1> QED BY <1>3, <1>4, <1>5, GeometryAssumption

\* nmbm_try_reserve_blocks likewise.
LEMMA TryReserveType ==
  ASSUME NEW st, NEW ba \in Nat, NEW limit \in Int
  PROVE  LET b == TryReserve(st, ba, limit)
         IN  b = NoBlock \/ (b \in ba .. limit - 1 /\ b \in Blocks)
  BY WalkAscType DEF TryReserve

-----------------------------------------------------------------------------
(* The in-memory helpers return instances.                                 *)

LEMMA SetStateType ==
  ASSUME NEW n \in InstanceType, NEW b \in Blocks, NEW s \in States
  PROVE  SetState(n, b, s) \in InstanceType
  BY DEF SetState, InstanceType, StateTables

LEMMA CleanType == ASSUME NEW n \in InstanceType PROVE Clean(n) \in InstanceType
  BY DEF Clean, InstanceType

LEMMA GenerateCacheType ==
  ASSUME NEW n \in InstanceType PROVE GenerateCache(n) \in InstanceType
  <1> DEFINE wc == IF n.dirty THEN n.write_count + 1 ELSE n.write_count
             t  == [wc |-> wc, st |-> n.block_state, map |-> n.block_mapping]
  <1>1. wc \in Nat
    BY DEF InstanceType
  <1>2. t \in Tables
    BY <1>1 DEF InstanceType, Tables
  <1>3. GenerateCache(n) = [n EXCEPT !.write_count = wc, !.cache = t]
    BY DEF GenerateCache
  <1> HIDE DEF wc, t
  <1> QED BY <1>1, <1>2, <1>3 DEF InstanceType

LEMMA MapToType ==
  ASSUME NEW n \in InstanceType, NEW lb \in Logic, NEW pb \in Blocks, n.mapping_blocks_top_ba # 0
  PROVE  MapTo(n, lb, pb) \in InstanceType
  <1>1. n.mapping_blocks_top_ba - 1 \in Addresses
    BY GeometryAssumption DEF InstanceType, Addresses
  <1>2. [n.block_mapping EXCEPT ![lb] = pb] \in MappingTables
    BY DEF InstanceType, MappingTables
  <1>3. MapTo(n, lb, pb) = [n EXCEPT !.block_mapping = [n.block_mapping EXCEPT ![lb] = pb],
                                     !.mapping_blocks_top_ba = n.mapping_blocks_top_ba - 1,
                                     !.dirty = TRUE]
    BY DEF MapTo, InstanceType
  <1> QED BY <1>1, <1>2, <1>3 DEF InstanceType

-----------------------------------------------------------------------------
(* What calls and returns establish.                                       *)

LEMMA AreaBlocks ==
  ASSUME NEW n \in InstanceType
  PROVE  /\ Area(n) \subseteq Blocks
         /\ Area(n) \cup {0} \subseteq Addresses
         /\ Blocks \subseteq Addresses
  BY GeometryAssumption DEF Area, InstanceType, Blocks, Addresses

LEMMA WriteTableInv ==
  ASSUME Chip', CallOK', call'.by # "none", ni' \in InstanceType, AreaOK(ni'),
         NEW k \in Callers, NEW ba \in Area(ni'), NEW limit \in Area(ni') \cup {0},
         NEW saved \in Area(ni') \cup {0},
         k \in {"rebuildBackup", "rescueBehindErase"} => saved \in Area(ni'),
         k \in {"singleBackup", "onceBackup"} => ni'.backup_table_ba \in Area(ni'),
         WriteTable(k, ba, limit, saved)
  PROVE  IInv'
  <1>1. io' \in FrameType
    BY AreaBlocks, GeometryAssumption DEF WriteTable, FrameType, Addresses
  <1>2. FrameOK(io', ni') /\ pc' = "wErase" /\ io'.left # 0
    BY GeometryAssumption DEF WriteTable, FrameOK
  <1> QED BY <1>1, <1>2 DEF IInv, Control, Labels, TableCode, ClientCode

LEMMA EraseRangeInv ==
  ASSUME Chip', CallOK', call'.by # "none", ni' \in InstanceType, AreaOK(ni'),
         io \in FrameType, io.start \in Area(ni') \cup {0},
         NEW k \in Callers, NEW ba \in Area(ni'), NEW limit \in Area(ni') \cup {0},
         NEW saved \in Area(ni') \cup {0},
         k \in {"rebuildBackup", "rescueBehindErase"} => saved \in Area(ni'),
         k \notin {"singleBackup", "onceBackup"},
         EraseRange(k, ba, limit, saved)
  PROVE  IInv'
  <1>1. io' \in FrameType
    BY AreaBlocks DEF EraseRange, FrameType
  <1>2. FrameOK(io', ni') /\ pc' = "range"
    BY DEF EraseRange, FrameOK, FrameType
  <1> QED BY <1>1, <1>2 DEF IInv, Control, Labels, TableCode, ClientCode

LEMMA NoIOType == NoIO \in FrameType
  <1>1. 0 \in Addresses /\ 0 \in 0 .. TableBlocks
    BY GeometryAssumption DEF Addresses
  <1> QED BY <1>1 DEF NoIO, FrameType, Callers

LEMMA TableReturnInv ==
  ASSUME CallOK, Chip', NEW n \in InstanceType, AreaOK(n), NEW ok \in BOOLEAN, TableReturn(n, ok)
  PROVE  IInv'
  <1>1. ni' \in InstanceType /\ AreaOK(ni')
    BY DEF TableReturn, InstanceType, AreaOK, Area
  <1>2. io' \in FrameType /\ CallOK'
    BY NoIOType DEF TableReturn, CallOK
  <1>3. pc' \in ClientCode \cup {"dead"} /\ (pc' = "update" => call'.by = "update")
    BY DEF TableReturn, ClientCode, CallOK, CallType
  <1> QED BY <1>1, <1>2, <1>3 DEF IInv, Control, Labels, TableCode, ClientCode

LEMMA UpdateInfoTableInv ==
  ASSUME Chip', NEW n \in InstanceType, AreaOK(n), NEW lb \in Logic, NEW pb \in Blocks,
         NEW then \in {"attached", "idle", "createMapFail", "eraseTry", "eraseMapFail", "detached"},
          UpdateInfoTable(n, lb, pb, then)
  PROVE  IInv'
  <1>1. call' \in CallType /\ call'.by = "update" /\ call'.then # "none" /\ pc' = "update"
    BY DEF UpdateInfoTable, CallType, ClientCode, Labels
  <1> QED
    BY <1>1, NoIOType DEF UpdateInfoTable, IInv, CallOK, Control, TableCode, ClientCode, Labels

-----------------------------------------------------------------------------
(* Flash operations.                                                       *)

LEMMA ContentsType ==
  /\ Blank \in Contents /\ Sig \in Contents /\ Garbage \in Contents
  /\ \A lb \in Logic : Data(lb) \in Contents
  /\ \A t \in Tables, i \in 0 .. TableBlocks - 1 : Chunk(t, i) \in Contents
  BY DEF Contents, Data, Chunk

LEMMA BlockFailsChip ==
  ASSUME Chip, NEW b \in Blocks, NEW leftovers \in SUBSET Contents, BlockFails(b, leftovers),
         UNCHANGED <<view, crashes>>
  PROVE  Chip' /\ \A x \in Blocks : flash'[x] # flash[x] => x = b
  BY ContentsType DEF Chip, BlockFails

LEMMA EraseChip ==
  ASSUME Chip, NEW b \in Blocks, ErasePhys(b) \/ ErasePhysFails(b), UNCHANGED <<view, crashes>>
  PROVE  Chip' /\ \A x \in Blocks : flash'[x] # flash[x] => x = b
  <1>1. CASE ErasePhys(b) \/ (b \in physBad /\ UNCHANGED <<flash, physBad, fails>>)
    BY <1>1, ContentsType DEF Chip, ErasePhys
  <1>2. CASE BlockFails(b, {flash[b], Blank})
    BY <1>2, BlockFailsChip, ContentsType DEF Chip
  <1> QED BY <1>1, <1>2 DEF ErasePhysFails

\* The block the loops of the table routines stand on.
LEMMA HereArea ==
  ASSUME IInv, pc \in TableCode, Here < io.limit
  PROVE  Here \in Area(ni) /\ Here \in Blocks /\ Here + 1 \in Area(ni) /\ Here \in io.ba .. io.limit - 1
  <1>1. FrameOK(io, ni) /\ io.ba \in Nat /\ io.limit \in Nat /\ ni.signature_ba \in Nat
    BY GeometryAssumption DEF IInv, Control, FrameType, Addresses, InstanceType, Blocks
  <1>2. Here \in io.ba .. io.limit - 1
    <2>1. Here = io.limit \/ Here \in io.ba .. io.limit - 1
      BY <1>1, NextGoodType, Zenon DEF Here
    <2> QED BY <1>1, <2>1
  <1>3. Here \in Area(ni) /\ Here + 1 \in Area(ni)
    BY <1>1, <1>2, GeometryAssumption DEF FrameOK, Area
  <1> QED BY <1>2, <1>3, AreaBlocks DEF IInv

\* Only the addresses matter to AreaOK and FrameOK.
LEMMA SetStateArea ==
  ASSUME NEW n \in InstanceType, AreaOK(n), NEW b, NEW s
  PROVE  /\ AreaOK(SetState(n, b, s)) /\ Area(SetState(n, b, s)) = Area(n)
         /\ SetState(n, b, s).backup_table_ba = n.backup_table_ba
  BY DEF SetState, AreaOK, Area, InstanceType

\* nmbm_write_mgmt_range.
LEMMA WriteEraseInv ==
  ASSUME IInv, WriteErase
  PROVE  IInv' /\ \A b \in Blocks : flash'[b] # flash[b] => b \in Area(ni)
  <1>1. /\ Here \in Area(ni) /\ Here \in Blocks /\ Here + 1 \in Area(ni) /\ Here < io.limit
        /\ io \in FrameType /\ FrameOK(io, ni) /\ AreaOK(ni) /\ ni \in InstanceType
        /\ CallOK /\ call.by # "none" /\ io.left # 0
    BY HereArea DEF WriteErase, IInv, Control, TableCode
  <1>2. Chip' /\ \A b \in Blocks : flash'[b] # flash[b] => b = Here
    BY <1>1, EraseChip DEF WriteErase, IInv
  <1>3. CallOK' /\ call'.by # "none"
    BY <1>1 DEF WriteErase, CallOK
  <1>4. CASE pc' = "wProgram" /\ io' = [io EXCEPT !.ba = Here] /\ UNCHANGED ni
    <2>1. io' \in FrameType /\ FrameOK(io', ni') /\ io'.left # 0 /\ io'.ba < io'.limit
      BY <1>1, <1>4, AreaBlocks DEF FrameType, FrameOK, Area
    <2> QED
      BY <1>1, <1>2, <1>3, <1>4, <2>1 DEF IInv, Control, Labels, TableCode, ClientCode
  <1>5. CASE ni' = SetState(ni, Here, BAD) /\ io' = [io EXCEPT !.ba = Here + 1] /\ UNCHANGED pc
    <2>1. ni' \in InstanceType /\ AreaOK(ni') /\ Area(ni') = Area(ni) /\ ni'.backup_table_ba = ni.backup_table_ba
      BY <1>1, <1>5, SetStateType, SetStateArea DEF States
    <2>2. io' \in FrameType /\ FrameOK(io', ni') /\ io'.left # 0
      BY <1>1, <1>5, <2>1, AreaBlocks DEF FrameType, FrameOK
    <2> QED
      BY <1>1, <1>2, <1>3, <1>5, <2>1, <2>2
      DEF IInv, Control, Labels, TableCode, ClientCode, WriteErase
  <1> QED BY <1>1, <1>2, <1>4, <1>5 DEF WriteErase

LEMMA WriteProgramInv ==
  ASSUME IInv, WriteProgram
  PROVE  IInv' /\ \A b \in Blocks : flash'[b] # flash[b] => b \in Area(ni)
  <1>1. /\ io \in FrameType /\ FrameOK(io, ni) /\ AreaOK(ni) /\ ni \in InstanceType
        /\ CallOK /\ call.by # "none" /\ io.left # 0 /\ io.ba < io.limit /\ pc = "wProgram"
    BY DEF WriteProgram, IInv, Control, TableCode
  <1>2. io.ba \in Blocks /\ io.ba \in Area(ni) /\ io.ba + 1 \in Area(ni) /\ io.left \in 1 .. TableBlocks
    BY <1>1, AreaBlocks, GeometryAssumption DEF FrameOK, Area, FrameType, InstanceType, Blocks
  <1>3. CallOK' /\ call'.by # "none"
    BY <1>1 DEF WriteProgram, CallOK
  <1>4. CASE /\ flash' = [flash EXCEPT ![io.ba] = Chunk(ni.cache, TableBlocks - io.left)]
             /\ io' = [io EXCEPT !.ba = @ + 1, !.left = @ - 1,
                                 !.start = IF io.left = TableBlocks THEN io.ba ELSE @]
             /\ pc' = IF io.left = 1 THEN "ret" ELSE "wErase"
             /\ UNCHANGED <<physBad, ni, fails>>
    <2>1. Chunk(ni.cache, TableBlocks - io.left) \in Contents
      BY <1>1, <1>2, ContentsType, GeometryAssumption DEF InstanceType
    <2>2. Chip' /\ \A b \in Blocks : flash'[b] # flash[b] => b = io.ba
      BY <1>2, <1>4, <2>1 DEF Chip, IInv, WriteProgram
    <2> DEFINE start == IF io.left = TableBlocks THEN io.ba ELSE io.start
    <2>5. start \in Area(ni) \cup {0} /\ io.left - 1 \in 0 .. TableBlocks
      BY <1>1, <1>2, GeometryAssumption DEF FrameOK
    <2>6. io' = [io EXCEPT !.ba = io.ba + 1, !.left = io.left - 1, !.start = start]
      BY <1>4
    <2> HIDE DEF start
    <2>3. io' \in FrameType
      BY <1>1, <1>2, <2>5, <2>6, AreaBlocks DEF FrameType
    <2>4. FrameOK(io', ni') /\ (io'.left = 0 => pc' = "ret")
      BY <1>1, <1>2, <1>4, <2>5, <2>6 DEF FrameType, FrameOK
    <2> QED
      BY <1>1, <1>2, <1>3, <1>4, <2>2, <2>3, <2>4 DEF IInv, Control, Labels, TableCode, ClientCode
  <1>5. CASE /\ BlockFails(io.ba, {Blank, Chunk(ni.cache, TableBlocks - io.left)})
             /\ ni' = SetState(ni, io.ba, BAD)
             /\ io' = [io EXCEPT !.ba = @ + 1]
             /\ pc' = "wErase"
    <2>1. ni' \in InstanceType /\ AreaOK(ni') /\ Area(ni') = Area(ni) /\ ni'.backup_table_ba = ni.backup_table_ba
      BY <1>1, <1>2, <1>5, SetStateType, SetStateArea DEF States
    <2>4. Chunk(ni.cache, TableBlocks - io.left) \in Contents
      BY <1>1, <1>2, ContentsType, GeometryAssumption DEF InstanceType
    <2>5. {Blank, Chunk(ni.cache, TableBlocks - io.left)} \in SUBSET Contents
      BY <2>4, ContentsType
    <2>2. Chip' /\ \A b \in Blocks : flash'[b] # flash[b] => b = io.ba
      BY <1>2, <1>5, <2>5, BlockFailsChip DEF IInv, WriteProgram
    <2>3. io' \in FrameType /\ FrameOK(io', ni') /\ io'.left # 0
      BY <1>1, <1>2, <1>5, <2>1, AreaBlocks DEF FrameType, FrameOK
    <2> QED
      BY <1>2, <1>3, <1>5, <2>1, <2>2, <2>3 DEF IInv, Control, Labels, TableCode, ClientCode
  <1> QED BY <1>4, <1>5 DEF WriteProgram

LEMMA WriteOutOfRangeInv == ASSUME IInv, WriteOutOfRange PROVE IInv'
  BY DEF WriteOutOfRange, IInv, Chip, CallOK, Control, Labels, TableCode, ClientCode

\* nmbm_erase_range.
LEMMA RangeEraseInv ==
  ASSUME IInv, RangeErase
  PROVE  IInv' /\ \A b \in Blocks : flash'[b] # flash[b] => b \in Area(ni)
  <1>1. /\ Here \in Area(ni) /\ Here \in Blocks /\ Here + 1 \in Area(ni)
        /\ io \in FrameType /\ FrameOK(io, ni) /\ AreaOK(ni) /\ ni \in InstanceType
        /\ CallOK /\ call.by # "none" /\ pc = "range"
    BY HereArea DEF RangeErase, IInv, Control, TableCode
  <1>2. Chip' /\ \A b \in Blocks : flash'[b] # flash[b] => b = Here
    BY <1>1, EraseChip DEF RangeErase, IInv
  <1>3. ni' \in InstanceType /\ AreaOK(ni') /\ Area(ni') = Area(ni) /\ ni'.backup_table_ba = ni.backup_table_ba
    BY <1>1, SetStateType, SetStateArea DEF RangeErase, States
  <1>4. io' \in FrameType /\ FrameOK(io', ni')
    BY <1>1, <1>3, AreaBlocks DEF RangeErase, FrameType, FrameOK
  <1> QED
    BY <1>1, <1>2, <1>3, <1>4
    DEF RangeErase, IInv, CallOK, Control, Labels, TableCode, ClientCode

-----------------------------------------------------------------------------
(* The routines that write tables, from one call to the next.              *)

ChipUnchanged == UNCHANGED <<flash, physBad, view, fails, crashes>>

LEMMA AreaStart ==
  ASSUME NEW n \in InstanceType, NEW x \in Area(n) PROVE MgmtStart \in Area(n)
  BY GeometryAssumption DEF Area, InstanceType, Blocks

\* What every return handler may rely on.
LEMMA Entry ==
  ASSUME IInv, pc \in TableCode, ChipUnchanged
  PROVE  /\ Chip' /\ CallOK /\ call.by # "none"
         /\ ni \in InstanceType /\ AreaOK(ni) /\ io \in FrameType /\ FrameOK(io, ni)
         /\ MgmtStart \in Area(ni)
  <1>1. AreaOK(ni) => MgmtStart \in Area(ni)
    BY AreaStart DEF AreaOK, IInv
  <1> QED BY <1>1 DEF ChipUnchanged, IInv, Control, Chip

LEMMA CallKept == ASSUME CallOK, call.by # "none", UNCHANGED call PROVE CallOK' /\ call'.by # "none"
  BY DEF CallOK

\* What is reserved in front of mapping_blocks_top_ba is in the area.
LEMMA ReserveArea ==
  ASSUME NEW n \in InstanceType, AreaOK(n), NEW st, NEW ba \in Area(n)
  PROVE  LET next == TryReserve(st, ba, n.mapping_blocks_top_ba - TableBlocks)
         IN  next = NoBlock \/ next \in Area(n)
  <1> DEFINE next == TryReserve(st, ba, n.mapping_blocks_top_ba - TableBlocks)
  <1>1. /\ ba \in Nat /\ n.mapping_blocks_top_ba - TableBlocks \in Int
        /\ n.mapping_blocks_top_ba \in Nat /\ n.signature_ba \in Nat
    BY GeometryAssumption DEF AreaOK, Area, Addresses, InstanceType, Blocks
  <1>2. next = NoBlock \/ next \in ba .. n.mapping_blocks_top_ba - TableBlocks - 1
    BY <1>1, TryReserveType, Zenon
  <1> HIDE DEF next
  <1>3. next = NoBlock \/ next \in Area(n)
    BY <1>1, <1>2, GeometryAssumption DEF AreaOK, Area
  <1> QED BY <1>3 DEF next

\* nmbm_rebuild_info_table.
LEMMA RebuildInv ==
  ASSUME Chip', CallOK', call'.by # "none", NEW n \in InstanceType,
         n.mapping_blocks_top_ba \in Area(n), Rebuild(n)
  PROVE  IInv'
  <1>1. 0 \in Addresses /\ MgmtStart \in Area(n)
    BY AreaStart, GeometryAssumption DEF Addresses
  <1>2. ni' \in InstanceType /\ AreaOK(ni') /\ Area(ni') = Area(n)
    <2>1. ni' = [n EXCEPT !.main_table_ba = 0, !.backup_table_ba = 0,
                          !.mapping_blocks_ba = n.mapping_blocks_top_ba]
      BY DEF Rebuild
    <2>2. ni' \in InstanceType
      BY <1>1, <2>1 DEF InstanceType
    <2> QED BY <2>1, <2>2 DEF InstanceType, AreaOK, Area
  <1> QED BY <1>1, <1>2, WriteTableInv DEF Rebuild, Callers

LEMMA RebuildMainInv == ASSUME IInv, RebuildMain PROVE IInv'
  <1>1. pc = "ret" /\ ChipUnchanged
    BY Zenon DEF RebuildMain, Returned, ChipUnchanged
  <1> USE Entry, <1>1 DEF TableCode
  <1>2. CASE Returned("rebuildMain", TRUE)
    <2> DEFINE n == Clean([ni EXCEPT !.main_table_ba = io.start, !.mapping_blocks_ba = io.ba])
               next == TryReserve(n.block_state, io.ba, n.mapping_blocks_top_ba - TableBlocks)
    <2>1. n \in InstanceType /\ AreaOK(n) /\ Area(n) = Area(ni)
          /\ n.mapping_blocks_top_ba = ni.mapping_blocks_top_ba
      BY AreaBlocks DEF InstanceType, AreaOK, Area, FrameOK, Clean
    <2>2. next = NoBlock \/ next \in Area(n)
      BY <2>1, ReserveArea, Zenon DEF FrameOK
    <2>3. CASE TableReturn(n, TRUE)
      BY <2>1, <2>3, TableReturnInv
    <2>4. CASE /\ next # NoBlock /\ ni' = n /\ UNCHANGED call
               /\ WriteTable("rebuildBackup", next, n.mapping_blocks_top_ba, io.ba)
      BY <2>1, <2>2, <2>4, WriteTableInv, CallKept DEF Callers, AreaOK, FrameOK
    <2>5. io.left = 0
      BY <1>2 DEF Returned
    <2> HIDE DEF n, next
    <2> QED BY <1>2, <2>3, <2>4, <2>5 DEF RebuildMain, Returned, n, next
  <1>3. CASE Returned("rebuildMain", FALSE)
    <2>1. [ni EXCEPT !.protected = TRUE] \in InstanceType /\ AreaOK([ni EXCEPT !.protected = TRUE])
      BY DEF InstanceType, AreaOK, Area
    <2> QED BY <1>2, <1>3, <2>1, TableReturnInv DEF RebuildMain, Returned
  <1> QED BY <1>2, <1>3 DEF RebuildMain

LEMMA RebuildBackupInv == ASSUME IInv, RebuildBackup PROVE IInv'
  <1>1. pc = "ret" /\ ChipUnchanged
    BY DEF RebuildBackup, Returned, ChipUnchanged
  <1> USE Entry, <1>1 DEF TableCode
  <1>2. CASE TableReturn(ni, TRUE)
    BY <1>2, TableReturnInv
  <1>3. CASE /\ ni' = [ni EXCEPT !.backup_table_ba = io.start, !.mapping_blocks_ba = io.ba]
             /\ EraseRange("rebuildErase", io.saved, io.start, 0)
             /\ io.k = "rebuildBackup" /\ UNCHANGED call
    <2>1. ni' \in InstanceType /\ AreaOK(ni') /\ Area(ni') = Area(ni)
      BY <1>3, AreaBlocks DEF InstanceType, AreaOK, Area, FrameOK
    <2> QED BY <1>3, <2>1, EraseRangeInv, CallKept DEF Callers, FrameOK
  <1> QED BY <1>2, <1>3 DEF RebuildBackup, Returned

LEMMA RebuildErasedInv == ASSUME IInv, RebuildErased PROVE IInv'
  BY Entry, TableReturnInv DEF RebuildErased, RangeErased, ChipUnchanged, TableCode

\* nmbm_rescue_single_info_table.
LEMMA RescueSingleInv ==
  ASSUME Chip', CallOK', call'.by # "none", NEW n \in InstanceType, AreaOK(n), RescueSingle(n)
  PROVE  IInv'
  BY AreaStart, WriteTableInv DEF RescueSingle, AreaOK, Callers

LEMMA RescueFrontInv == ASSUME IInv, RescueFront PROVE IInv'
  <1>1. pc = "ret" /\ ChipUnchanged
    BY Zenon DEF RescueFront, Returned, ChipUnchanged
  <1> USE Entry, <1>1 DEF TableCode
  <1>2. CASE /\ ni' = Clean([ni EXCEPT !.backup_table_ba = ni.main_table_ba,
                                       !.main_table_ba = io.start])
             /\ EraseRange("rescueFrontErase", io.ba, ni.main_table_ba, 0)
             /\ UNCHANGED call
    <2>1. ni' \in InstanceType /\ AreaOK(ni') /\ Area(ni') = Area(ni)
      BY <1>2, AreaBlocks DEF InstanceType, AreaOK, Area, FrameOK, Clean
    <2> QED BY <1>2, <2>1, EraseRangeInv, CallKept DEF Callers, FrameOK, AreaOK
  <1>3. CASE TableReturn(ni, FALSE)
    BY <1>3, TableReturnInv
  <1>4. CASE /\ ReserveBehind(ni) # NoBlock /\ UNCHANGED <<ni, call>>
             /\ WriteTable("rescueBehind", ReserveBehind(ni), ni.mapping_blocks_top_ba,
                           ReserveBehind(ni))
    <2>1. ReserveBehind(ni) \in Area(ni)
      BY <1>4, ReserveArea, Zenon DEF ReserveBehind, AreaOK
    <2> QED BY <1>4, <2>1, WriteTableInv, CallKept DEF Callers, AreaOK
  <1> QED BY <1>2, <1>3, <1>4 DEF RescueFront

LEMMA RescueFrontErasedInv == ASSUME IInv, RescueFrontErased PROVE IInv'
  BY Entry, TableReturnInv DEF RescueFrontErased, RangeErased, ChipUnchanged, TableCode

\* One block less is reserved and the table tried again: the next start.
LEMMA OneLess ==
  ASSUME NEW n \in InstanceType, AreaOK(n), NEW saved \in Area(n) \cup {0},
         saved - 1 >= n.mapping_blocks_ba
  PROVE  saved - 1 \in Area(n)
  BY GeometryAssumption DEF AreaOK, Area, InstanceType, Blocks

LEMMA RescueBehindInv == ASSUME IInv, RescueBehind PROVE IInv'
  <1>1. pc = "ret" /\ ChipUnchanged
    BY Zenon DEF RescueBehind, Returned, ChipUnchanged
  <1> USE Entry, <1>1 DEF TableCode
  <1>2. CASE EraseRange("rescueBehindErase", ni.mapping_blocks_ba, io.start, io.ba)
             /\ UNCHANGED <<ni, call>>
    BY <1>2, EraseRangeInv, CallKept DEF Callers, FrameOK, AreaOK
  <1>3. CASE TableReturn(ni, FALSE)
    BY <1>3, TableReturnInv
  <1>4. CASE /\ io.saved - 1 >= ni.mapping_blocks_ba /\ UNCHANGED <<ni, call>>
             /\ WriteTable("rescueBehind", io.saved - 1, ni.mapping_blocks_top_ba, io.saved - 1)
    <2>1. io.saved - 1 \in Area(ni)
      BY <1>4, OneLess DEF FrameOK
    <2> QED BY <1>4, <2>1, WriteTableInv, CallKept DEF Callers, AreaOK
  <1> QED BY <1>2, <1>3, <1>4 DEF RescueBehind

LEMMA RescueBehindErasedInv == ASSUME IInv, RescueBehindErased PROVE IInv'
  <1>1. pc = "range" /\ io.k = "rescueBehindErase" /\ ChipUnchanged
    BY Zenon DEF RescueBehindErased, RangeErased, ChipUnchanged
  <1> USE Entry, <1>1 DEF TableCode
  <1> DEFINE n == Clean([ni EXCEPT !.backup_table_ba = io.start, !.mapping_blocks_ba = io.saved])
  <1>2. n \in InstanceType /\ AreaOK(n)
    BY AreaBlocks DEF InstanceType, AreaOK, Area, FrameOK, Clean
  <1> QED BY <1>2, TableReturnInv DEF RescueBehindErased

\* nmbm_update_single_info_table.
LEMMA SingleMainInv == ASSUME IInv, SingleMain PROVE IInv'
  <1>1. pc = "ret" /\ ChipUnchanged
    BY Zenon DEF SingleMain, Returned, ChipUnchanged
  <1> USE Entry, <1>1 DEF TableCode
  <1> DEFINE n == Clean([ni EXCEPT !.main_table_ba = io.start])
             m == [ni EXCEPT !.main_table_ba = ni.backup_table_ba, !.backup_table_ba = 0]
  <1>2. n \in InstanceType /\ AreaOK(n)
    BY AreaBlocks DEF InstanceType, AreaOK, Area, FrameOK, Clean
  <1>3. m \in InstanceType /\ AreaOK(m)
    BY AreaBlocks DEF InstanceType, AreaOK, Area
  <1> HIDE DEF n, m
  <1>4. CASE TableReturn(n, TRUE)
    BY <1>2, <1>4, TableReturnInv
  <1>5. CASE RescueSingle(m) /\ UNCHANGED call
    BY <1>3, <1>5, RescueSingleInv, CallKept
  <1> QED BY <1>4, <1>5 DEF SingleMain, n, m

LEMMA SingleBackupInv == ASSUME IInv, SingleBackup PROVE IInv'
  <1>1. pc = "ret" /\ ChipUnchanged
    BY Zenon DEF SingleBackup, Returned, ChipUnchanged
  <1> USE Entry, <1>1 DEF TableCode
  <1> DEFINE n == Clean([ni EXCEPT !.backup_table_ba = io.start, !.mapping_blocks_ba = io.ba])
             m == [ni EXCEPT !.mapping_blocks_ba = ni.backup_table_ba, !.backup_table_ba = 0]
  <1>2. n \in InstanceType /\ AreaOK(n)
    BY AreaBlocks DEF InstanceType, AreaOK, Area, FrameOK, Clean
  <1>3. io.k = "singleBackup" => m \in InstanceType /\ AreaOK(m)
    BY AreaBlocks, GeometryAssumption DEF InstanceType, AreaOK, Area, FrameOK, Addresses
  <1> HIDE DEF n, m
  <1>4. CASE TableReturn(n, TRUE)
    BY <1>2, <1>4, TableReturnInv
  <1>5. CASE io.k = "singleBackup" /\ TableReturn(m, FALSE)
    BY <1>3, <1>5, TableReturnInv
  <1> QED BY <1>4, <1>5 DEF SingleBackup, Returned, n, m

\* nmbm_rescue_main_info_table.
LEMMA BackupBecomesMainInv ==
  ASSUME CallOK, Chip', NEW n \in InstanceType, AreaOK(n), BackupBecomesMain(n)
  PROVE  IInv'
  <1> DEFINE m == [n EXCEPT !.main_table_ba = n.backup_table_ba, !.backup_table_ba = 0]
  <1>1. m \in InstanceType /\ AreaOK(m)
    BY AreaBlocks DEF InstanceType, AreaOK, Area
  <1> QED BY <1>1, TableReturnInv DEF BackupBecomesMain

LEMMA RescueMainInv ==
  ASSUME CallOK, call.by # "none", Chip', ni \in InstanceType, AreaOK(ni), RescueMain(ni)
  PROVE  IInv'
  <1>1. CASE BackupBecomesMain(ni)
    BY <1>1, BackupBecomesMainInv
  <1>2. CASE /\ ReserveBehind(ni) # NoBlock /\ ni' = ni /\ UNCHANGED call
             /\ WriteTable("rescueTemp", ReserveBehind(ni), ni.mapping_blocks_top_ba,
                           ReserveBehind(ni))
    <2>1. ReserveBehind(ni) \in Area(ni)
      BY <1>2, ReserveArea, Zenon DEF ReserveBehind, AreaOK
    <2> QED BY <1>2, <2>1, WriteTableInv, CallKept DEF Callers, AreaOK
  <1> QED BY <1>1, <1>2 DEF RescueMain

LEMMA RescueMainTempInv == ASSUME IInv, RescueMainTemp PROVE IInv'
  <1>1. pc = "ret" /\ ChipUnchanged
    BY Zenon DEF RescueMainTemp, Returned, ChipUnchanged
  <1> USE Entry, <1>1 DEF TableCode
  <1>2. CASE /\ ni' = [ni EXCEPT !.mapping_blocks_ba = io.ba] /\ UNCHANGED call
             /\ WriteTable("rescueMain", MgmtStart, io.start, 0)
    <2>1. ni' \in InstanceType /\ AreaOK(ni') /\ Area(ni') = Area(ni)
      BY <1>2, AreaBlocks DEF InstanceType, AreaOK, Area, FrameOK
    <2> QED BY <1>2, <2>1, WriteTableInv, CallKept DEF Callers, FrameOK
  <1>3. CASE BackupBecomesMain(ni)
    BY <1>3, BackupBecomesMainInv
  <1>4. CASE /\ io.saved - 1 >= ni.mapping_blocks_ba /\ UNCHANGED <<ni, call>>
             /\ WriteTable("rescueTemp", io.saved - 1, ni.mapping_blocks_top_ba, io.saved - 1)
    <2>1. io.saved - 1 \in Area(ni)
      BY <1>4, OneLess DEF FrameOK
    <2> QED BY <1>4, <2>1, WriteTableInv, CallKept DEF Callers, AreaOK
  <1> QED BY <1>2, <1>3, <1>4 DEF RescueMainTemp

LEMMA RescueMainMainInv == ASSUME IInv, RescueMainMain PROVE IInv'
  <1>1. pc = "ret" /\ ChipUnchanged
    BY Zenon DEF RescueMainMain, Returned, ChipUnchanged
  <1> USE Entry, <1>1 DEF TableCode
  <1> DEFINE n == Clean([ni EXCEPT !.main_table_ba = io.start, !.backup_table_ba = io.limit])
             m == Clean([ni EXCEPT !.main_table_ba = io.limit, !.backup_table_ba = 0])
  <1>2. n \in InstanceType /\ AreaOK(n) /\ m \in InstanceType /\ AreaOK(m)
    BY AreaBlocks DEF InstanceType, AreaOK, Area, FrameOK, Clean
  <1> HIDE DEF n, m
  <1> QED BY <1>2, TableReturnInv DEF RescueMainMain, n, m

\* nmbm_update_info_table_once.
LEMMA WriteMainInv ==
  ASSUME Chip', CallOK', call'.by # "none", NEW n \in InstanceType, AreaOK(n),
         NEW limit \in Area(n) \cup {0}, WriteMain(n, limit)
  PROVE  IInv'
  <1>1. CASE Rebuild(n)
    BY <1>1, RebuildInv DEF AreaOK
  <1>2. CASE n.main_table_ba # 0 /\ ni' = n /\ WriteTable("onceMain", n.main_table_ba, limit, 0)
    BY <1>2, WriteTableInv DEF Callers, AreaOK
  <1> QED BY <1>1, <1>2 DEF WriteMain

LEMMA GenerateCacheArea ==
  ASSUME NEW n \in InstanceType, AreaOK(n)
  PROVE  /\ AreaOK(GenerateCache(n)) /\ Area(GenerateCache(n)) = Area(n)
         /\ GenerateCache(n).backup_table_ba = n.backup_table_ba
         /\ GenerateCache(n).mapping_blocks_top_ba = n.mapping_blocks_top_ba
  BY DEF GenerateCache, AreaOK, Area, InstanceType

\* What code outside the table routines may rely on.
LEMMA ClientEntry ==
  ASSUME IInv, pc \in ClientCode, ChipUnchanged
  PROVE  Chip' /\ CallOK /\ ni \in InstanceType /\ AreaOK(ni) /\ io \in FrameType
  BY DEF ChipUnchanged, IInv, Control, Chip

LEMMA UpdateOnceInv == ASSUME IInv, UpdateOnce PROVE IInv'
  <1>1. pc = "update" /\ ChipUnchanged /\ UNCHANGED call
    BY Zenon DEF UpdateOnce, ChipUnchanged
  <1>2. CallOK' /\ call'.by # "none" /\ Chip' /\ ni \in InstanceType /\ AreaOK(ni)
    BY <1>1, ClientEntry DEF IInv, Control, CallOK, ClientCode
  <1> DEFINE n == GenerateCache(ni)
  <1>3. n \in InstanceType /\ AreaOK(n)
    BY <1>2, GenerateCacheType, GenerateCacheArea
  <1> HIDE DEF n
  <1>4. CASE WriteMain(n, n.mapping_blocks_top_ba)
    BY <1>2, <1>3, <1>4, WriteMainInv DEF AreaOK
  <1>5. CASE /\ n.backup_table_ba # 0 /\ ni' = n
             /\ WriteTable("onceBackup", n.backup_table_ba, n.mapping_blocks_top_ba, 0)
    BY <1>2, <1>3, <1>5, WriteTableInv DEF Callers, AreaOK
  <1> QED BY <1>4, <1>5 DEF UpdateOnce, n

LEMMA UpdateReturnInv == ASSUME IInv, UpdateReturn PROVE IInv'
  <1>1. pc = "update" /\ ChipUnchanged /\ UNCHANGED <<ni, io, call>>
    BY Zenon DEF UpdateReturn, ChipUnchanged
  <1>2. pc' \in ClientCode \ {"update"}
    BY <1>1 DEF UpdateReturn, IInv, Control, CallOK, CallType, ClientCode
  <1> QED
    BY <1>1, <1>2, ClientEntry DEF IInv, CallOK, Control, ClientCode, TableCode, Labels

LEMMA OnceBackupInv == ASSUME IInv, OnceBackup PROVE IInv'
  <1>1. pc = "ret" /\ ChipUnchanged /\ UNCHANGED call /\ io.k = "onceBackup"
    BY Zenon DEF OnceBackup, Returned, ChipUnchanged
  <1> USE Entry, <1>1, CallKept DEF TableCode
  <1> DEFINE n == Clean([ni EXCEPT !.backup_table_ba = io.start, !.mapping_blocks_ba = io.ba])
             m == [ni EXCEPT !.mapping_blocks_ba = ni.backup_table_ba, !.backup_table_ba = 0]
  <1>2. n \in InstanceType /\ AreaOK(n)
    BY AreaBlocks DEF InstanceType, AreaOK, Area, FrameOK, Clean
  <1>3. m \in InstanceType /\ AreaOK(m)
    BY AreaBlocks, GeometryAssumption DEF InstanceType, AreaOK, Area, FrameOK, Addresses
  <1> HIDE DEF n, m
  <1>4. CASE WriteMain(n, n.backup_table_ba)
    BY <1>2, <1>4, WriteMainInv DEF AreaOK
  <1>5. CASE WriteMain(m, m.mapping_blocks_top_ba)
    BY <1>3, <1>5, WriteMainInv DEF AreaOK
  <1> QED BY <1>4, <1>5 DEF OnceBackup, n, m

LEMMA OnceMainInv == ASSUME IInv, OnceMain PROVE IInv'
  <1>1. pc = "ret" /\ ChipUnchanged
    BY Zenon DEF OnceMain, Returned, ChipUnchanged
  <1> USE Entry, <1>1 DEF TableCode
  <1> DEFINE mb == IF ni.backup_table_ba = 0 THEN io.ba ELSE ni.mapping_blocks_ba
             n  == Clean([ni EXCEPT !.main_table_ba = io.start, !.mapping_blocks_ba = mb])
  <1>2. mb \in Area(ni)
    BY DEF FrameOK, AreaOK
  <1>3. n \in InstanceType /\ AreaOK(n)
    <2> HIDE DEF mb
    <2> QED BY <1>2, AreaBlocks DEF InstanceType, AreaOK, Area, FrameOK, Clean
  <1> HIDE DEF n
  <1>4. CASE TableReturn(n, TRUE)
    BY <1>3, <1>4, TableReturnInv
  <1>5. CASE Rebuild(ni) /\ UNCHANGED call
    BY <1>5, RebuildInv, CallKept DEF AreaOK
  <1>6. CASE RescueMain(ni)
    BY <1>6, RescueMainInv
  <1> QED BY <1>4, <1>5, <1>6 DEF OnceMain, n, mb

-----------------------------------------------------------------------------
(* nmbm_attach on a chip without tables.                                   *)

LEMMA NewInstanceType == NewInstance \in InstanceType /\ NewInstance.signature_ba = 0
  <1>1. AllGood \in StateTables
    BY DEF AllGood, StateTables, States
  <1>2. [lb \in Logic |-> NoBlock] \in MappingTables
    BY DEF MappingTables
  <1>3. EmptyTable \in Tables
    BY <1>1, <1>2 DEF EmptyTable, Tables
  <1>4. 0 \in Addresses /\ 0 \in Blocks /\ 0 \in 0 .. MgmtStart
    BY GeometryAssumption DEF Addresses, Blocks
  <1> QED BY <1>1, <1>2, <1>3, <1>4 DEF NewInstance, InstanceType

\* The mapping built for a new chip, and how many logic blocks it has.
LEMMA BuildMappingType ==
  ASSUME NEW st PROVE BuildMapping(st) \in MappingTables
  <1>1. ASSUME NEW S \in SUBSET Logic PROVE FirstOr(S, NoBlock) \in Blocks \cup {NoBlock}
    <2>1. Logic \subseteq Nat /\ Logic \subseteq Blocks
      BY GeometryAssumption DEF Logic, Blocks
    <2>2. FirstOr(S, NoBlock) \in S \/ FirstOr(S, NoBlock) = NoBlock
      BY <2>1, FirstOrType
    <2> QED BY <2>1, <2>2
  <1>2. ASSUME NEW lb \in Logic
        PROVE  FirstOr({pb \in UsableData(st) :
                          Cardinality({x \in UsableData(st) : x < pb}) = lb}, NoBlock)
               \in Blocks \cup {NoBlock}
    BY <1>1 DEF UsableData
  <1> QED BY <1>2 DEF BuildMapping, MappingTables

LEMMA UsableDataCount == ASSUME NEW st PROVE Cardinality(UsableData(st)) \in 0 .. MgmtStart
  <1>1. IsFiniteSet(Logic) /\ Cardinality(Logic) = MgmtStart
    BY FS_Interval, GeometryAssumption DEF Logic
  <1>2. UsableData(st) \in SUBSET Logic
    BY DEF UsableData
  <1> QED BY <1>1, <1>2, FS_Subset, FS_CardinalityType, GeometryAssumption

LEMMA ScanAndBuildType ==
  ASSUME NEW n \in InstanceType
  PROVE  ScanAndBuild(n) \in InstanceType /\ ScanAndBuild(n).signature_ba = n.signature_ba
  <1> DEFINE st == ScanBad(n.block_state, physBad)
             d  == n.dirty \/ st # n.block_state
             c  == Cardinality(UsableData(st))
  <1>1. st \in StateTables
    BY DEF ScanBad, StateTables, States, InstanceType
  <1>2. d \in BOOLEAN /\ c \in 0 .. MgmtStart /\ BuildMapping(st) \in MappingTables
    <2>1. d \in BOOLEAN
      BY Zenon
    <2> QED BY <2>1, UsableDataCount, BuildMappingType
  <1>3. ScanAndBuild(n) = [n EXCEPT !.block_state = st, !.dirty = d,
                                    !.block_mapping = BuildMapping(st), !.data_block_count = c]
    BY DEF ScanAndBuild
  <1> HIDE DEF st, d, c
  <1> QED BY <1>1, <1>2, <1>3 DEF InstanceType

\* Walking down past one good block ends below the start.
LEMMA WalkDescPast ==
  ASSUME NEW st, NEW ba \in Blocks
  PROVE  LET b == WalkDesc(st, ba, 1, MgmtStart)
         IN  b = NoBlock \/ b \in MgmtStart + 1 .. ba - 1
  <1> DEFINE S == {b \in MgmtStart + 1 .. ba : GoodBetween(st, b, ba) > 1}
  <1>1. WalkDesc(st, ba, 1, MgmtStart) = IF S = {} THEN NoBlock ELSE Max(S)
    BY GeometryAssumption DEF WalkDesc, ClampLimit
  <1>2. S \in SUBSET Nat /\ (\A x \in S : x <= ba) /\ ba \in Nat
    BY GeometryAssumption DEF Blocks
  <1>3. ba \notin S
    <2> DEFINE G == {x \in ba .. ba : st[x] = GOOD}
    <2>1. IsFiniteSet(ba .. ba) /\ Cardinality(ba .. ba) = 1
      <3>1. ba \in Int
        BY <1>2
      <3>2. IsFiniteSet(ba .. ba) /\ Cardinality(ba .. ba) = IF ba > ba THEN 0 ELSE ba - ba + 1
        BY <3>1, FS_Interval, Zenon
      <3> QED BY <3>1, <3>2
    <2>2. Cardinality(G) <= 1
      BY <2>1, FS_Subset
    <2>3. Cardinality(G) \in Nat
      BY <2>1, FS_Subset, FS_CardinalityType
    <2>4. ~ (GoodBetween(st, ba, ba) > 1)
      <3> HIDE DEF G
      <3>1. ~ (Cardinality(G) > 1)
        BY <2>2, <2>3
      <3> QED BY <3>1 DEF G, GoodBetween
    <2> QED BY <2>4
  <1>4. S # {} => Max(S) \in S
    <2> HIDE DEF S
    <2> QED BY <1>2, MaxNat
  <1>5. \A b \in S : b \in MgmtStart + 1 .. ba - 1
    BY <1>2, <1>3, GeometryAssumption
  <1> QED BY <1>1, <1>4, <1>5, Zenon

\* nmbm_create_info_table.
LEMMA CreateInfoTableInv ==
  ASSUME Chip', CallOK', call'.by # "none", io \in FrameType, NEW n \in InstanceType,
         CreateInfoTable(n, n.signature_ba)
  PROVE  IInv'
  <1> DEFINE top == WalkDesc(n.block_state, n.signature_ba, 1, MgmtStart)
             m == [n EXCEPT !.mapping_blocks_top_ba = top]
  <1>1. CASE ni' = n /\ pc' = "dead" /\ UNCHANGED io
    BY <1>1 DEF IInv, Control, Labels, TableCode, ClientCode
  <1>2. CASE top # NoBlock /\ Rebuild(GenerateCache(m))
    <2>1. top \in MgmtStart + 1 .. n.signature_ba - 1 /\ n.signature_ba \in Blocks
      <3>1. n.signature_ba \in Blocks
        BY DEF InstanceType
      <3> QED BY <1>2, <3>1, WalkDescPast, Zenon
    <2> HIDE DEF top
    <2>2. top \in Area(n)
      BY <2>1, GeometryAssumption DEF Area, Blocks
    <2>3. m \in InstanceType /\ Area(m) = Area(n) /\ m.mapping_blocks_top_ba = top
      BY <2>2, AreaBlocks DEF InstanceType, Area
    <2> HIDE DEF m
    <2>4. /\ GenerateCache(m) \in InstanceType /\ Area(GenerateCache(m)) = Area(m)
          /\ GenerateCache(m).mapping_blocks_top_ba = m.mapping_blocks_top_ba
      BY <2>3, GenerateCacheType DEF GenerateCache, Area, InstanceType
    <2> QED BY <1>2, <2>2, <2>3, <2>4, RebuildInv
  <1> QED BY <1>1, <1>2 DEF CreateInfoTable

\* The call record of an attach.
LEMMA AttachCall ==
  ASSUME NEW by \in {"load", "create"}, call' = [NoCall EXCEPT !.by = by]
  PROVE  CallOK' /\ call'.by # "none"
  <1>1. 0 \in Logic /\ 0 \in Blocks
    BY GeometryAssumption DEF Logic, Blocks
  <1> QED BY <1>1 DEF CallOK, CallType, NoCall

LEMMA AttachNewInv == ASSUME IInv, AttachNew PROVE IInv'
  <1>1. Chip' /\ CallOK' /\ call'.by # "none" /\ ni \in InstanceType /\ io \in FrameType
    BY AttachCall DEF AttachNew, IInv, Chip
  <1>2. CASE ni' = ScanAndBuild(NewInstance) /\ pc' = "sErase"
             /\ io' = [NoIO EXCEPT !.k = "signature", !.ba = BlockCount - 1]
    <2>1. ni' \in InstanceType
      BY <1>2, ScanAndBuildType, NewInstanceType
    <2>2. BlockCount - 1 \in Blocks /\ BlockCount - 1 \in Addresses
      BY GeometryAssumption DEF Blocks, Addresses
    <2>3. io' \in FrameType /\ io'.ba = BlockCount - 1
      BY <1>2, <2>2, NoIOType DEF FrameType, Callers
    <2> QED
      BY <1>1, <1>2, <2>1, <2>2, <2>3 DEF IInv, Control, Labels, TableCode, ClientCode
  <1>3. CASE pc' = "dead" /\ UNCHANGED <<ni, io>>
    BY <1>1, <1>3 DEF IInv, Control, Labels, TableCode, ClientCode
  <1> QED BY <1>2, <1>3 DEF AttachNew

\* nmbm_write_signature.
LEMMA SignatureBlockType ==
  ASSUME io.ba \in Blocks
  PROVE  SignatureBlock = NoBlock \/ SignatureBlock \in MgmtStart + 1 .. BlockCount - 1
  <1> DEFINE S == {b \in MgmtStart + 1 .. io.ba : ni.block_state[b] = GOOD}
  <1>1. S \in SUBSET Nat /\ (\A x \in S : x <= io.ba) /\ io.ba \in Nat
    BY GeometryAssumption DEF Blocks
  <1>2. S # {} => Max(S) \in S
    <2> HIDE DEF S
    <2> QED BY <1>1, MaxNat
  <1>3. \A x \in S : x \in MgmtStart + 1 .. BlockCount - 1
    BY GeometryAssumption DEF Blocks
  <1>4. SignatureBlock = IF S = {} THEN NoBlock ELSE Max(S)
    BY DEF SignatureBlock
  <1> QED BY <1>2, <1>3, <1>4, Zenon

LEMMA SignatureEraseInv == ASSUME IInv, SignatureErase PROVE IInv'
  <1> DEFINE b == SignatureBlock
  <1>1. /\ Chip /\ CallOK' /\ call'.by # "none"
        /\ ni \in InstanceType /\ io \in FrameType /\ pc = "sErase"
        /\ UNCHANGED <<view, crashes>> /\ io.ba \in Blocks
    BY DEF SignatureErase, IInv, Control, CallOK
  <1>2. b # NoBlock =>
          /\ b \in MgmtStart + 1 .. BlockCount - 1
          /\ b \in Blocks /\ b - 1 \in Blocks
          /\ b \in Addresses /\ b - 1 \in Addresses
    <2>1. b # NoBlock => b \in MgmtStart + 1 .. BlockCount - 1
      BY <1>1, SignatureBlockType
    <2> HIDE DEF b
    <2> QED BY <2>1, GeometryAssumption DEF Blocks, Addresses
  <1> HIDE DEF b
  <1>3. CASE /\ b # NoBlock /\ ErasePhys(b) /\ pc' = "sProgram"
             /\ io' = [io EXCEPT !.ba = b] /\ UNCHANGED ni
    <2>1. io' \in FrameType /\ io'.ba = b
      BY <1>1, <1>2, <1>3 DEF FrameType
    <2>2. Chip'
      BY <1>1, <1>2, <1>3, EraseChip
    <2> QED
      BY <1>1, <1>2, <1>3, <2>1, <2>2 DEF IInv, Control, Labels, TableCode, ClientCode
  <1>4. CASE /\ b # NoBlock /\ ErasePhysFails(b) /\ ni' = SetState(ni, b, BAD)
             /\ io' = [io EXCEPT !.ba = b - 1] /\ UNCHANGED pc
    <2>1. io' \in FrameType /\ io'.ba = b - 1
      BY <1>1, <1>2, <1>4 DEF FrameType
    <2>2. Chip'
      BY <1>1, <1>2, <1>4, EraseChip
    <2>3. ni' \in InstanceType
      BY <1>1, <1>2, <1>4, SetStateType DEF States
    <2> QED
      BY <1>1, <1>2, <1>4, <2>1, <2>2, <2>3 DEF IInv, Control, Labels, TableCode, ClientCode
  <1>5. CASE pc' = "dead" /\ UNCHANGED <<flash, physBad, ni, io, fails>>
    BY <1>1, <1>5 DEF IInv, Chip, Control, Labels, TableCode, ClientCode
  <1> QED BY <1>3, <1>4, <1>5, Zenon DEF SignatureErase, b

LEMMA SignatureProgramInv == ASSUME IInv, SignatureProgram PROVE IInv'
  <1>1. /\ Chip /\ CallOK' /\ ni \in InstanceType /\ io \in FrameType /\ pc = "sProgram"
        /\ UNCHANGED <<call, view, crashes>> /\ io.ba \in MgmtStart + 1 .. BlockCount - 1
    BY DEF SignatureProgram, IInv, Control, CallOK
  <1>2. io.ba \in Blocks /\ io.ba - 1 \in Blocks /\ io.ba - 1 \in Addresses
    BY <1>1, GeometryAssumption DEF Blocks, Addresses
  <1>3. CASE /\ flash' = [flash EXCEPT ![io.ba] = Sig]
             /\ CreateInfoTable([ni EXCEPT !.signature_ba = io.ba], io.ba)
             /\ UNCHANGED <<physBad, fails>>
    <2> DEFINE n == [ni EXCEPT !.signature_ba = io.ba]
    <2>1. n \in InstanceType /\ n.signature_ba = io.ba
      BY <1>1, <1>2 DEF InstanceType
    <2>2. Chip'
      BY <1>1, <1>2, <1>3, ContentsType DEF Chip
    <2> HIDE DEF n
    <2>3. CreateInfoTable(n, n.signature_ba)
      BY <1>3, <2>1 DEF n
    <2>4. call'.by # "none"
      BY <1>1 DEF IInv, Control
    <2> QED BY <1>1, <2>1, <2>2, <2>3, <2>4, CreateInfoTableInv
  <1>4. CASE /\ BlockFails(io.ba, {Blank, Sig}) /\ ni' = SetState(ni, io.ba, BAD)
             /\ io' = [io EXCEPT !.ba = @ - 1] /\ pc' = "sErase"
    <2>1. io' \in FrameType /\ io'.ba = io.ba - 1
      BY <1>1, <1>2, <1>4 DEF FrameType
    <2>2. Chip'
      BY <1>1, <1>2, <1>4, BlockFailsChip, ContentsType
    <2>3. ni' \in InstanceType
      BY <1>1, <1>2, <1>4, SetStateType DEF States
    <2> QED
      BY <1>1, <1>2, <1>4, <2>1, <2>2, <2>3 DEF IInv, Control, Labels, TableCode, ClientCode
  <1> QED BY <1>3, <1>4, Zenon DEF SignatureProgram

\* nmbm_find_signature.
LEMMA FindSignatureType ==
  ASSUME NEW unusable
  PROVE  FindSignature(flash, unusable) \in Blocks \cup {NoBlock}
  <1> DEFINE S == {b \in Blocks : flash[b] = Sig /\ b \notin unusable}
  <1>1. S \in SUBSET Nat /\ (\A x \in S : x <= BlockCount) /\ S \subseteq Blocks
    BY GeometryAssumption DEF Blocks
  <1>2. S # {} => Max(S) \in S
    <2> HIDE DEF S
    <2> QED BY <1>1, MaxNat, GeometryAssumption
  <1>3. FindSignature(flash, unusable) = IF S = {} THEN NoBlock ELSE Max(S)
    BY DEF FindSignature
  <1> QED BY <1>1, <1>2, <1>3, Zenon

\* At most one block fails to be read.
LEMMA ReadErrorCount == ASSUME NEW err \in ReadErrors PROVE Cardinality(err) \in Nat
  <1>1. err = {} \/ \E b : err = {b}
    BY Zenon DEF ReadErrors
  <1>2. Cardinality({}) = 0 /\ \A b : Cardinality({b}) = 1
    BY FS_EmptySet, FS_Singleton, Zenon
  <1>3. Cardinality(err) = 0 \/ Cardinality(err) = 1
    BY <1>1, <1>2, Zenon
  <1> QED BY <1>3

LEMMA AttachNoTableInv == ASSUME IInv, AttachNoTable PROVE IInv'
  <1>1. PICK err \in ReadErrors, ecc \in BOOLEAN :
          LET failed == IF ecc THEN {} ELSE err
              sig == FindSignature(flash, physBad \cup err)
              n   == [NewInstance EXCEPT !.signature_ba = sig,
                     !.dirty = \E b \in MgmtStart .. sig - TableBlocks - 1 : b \in physBad \cup failed,
                     !.block_state =
                       [b \in Blocks |-> IF b \in MgmtStart .. sig - TableBlocks - 1
                                            /\ b \in physBad \cup failed
                                         THEN BAD ELSE GOOD]]
          IN  /\ sig # NoBlock
              /\ IF FCreate
                 THEN CreateInfoTable(ScanAndBuild(n), sig)
                 ELSE ni' = n /\ pc' = "dead" /\ UNCHANGED io
              /\ fails' = fails + Cardinality(err)
    BY Zenon DEF AttachNoTable
  <1> DEFINE failed == IF ecc THEN {} ELSE err
             sig == FindSignature(flash, physBad \cup err)
             d   == \E b \in MgmtStart .. sig - TableBlocks - 1 : b \in physBad \cup failed
             st  == [b \in Blocks |-> IF b \in MgmtStart .. sig - TableBlocks - 1
                                         /\ b \in physBad \cup failed
                                      THEN BAD ELSE GOOD]
             n   == [NewInstance EXCEPT !.signature_ba = sig, !.dirty = d, !.block_state = st]
  <1>2. sig \in Blocks /\ fails' = fails + Cardinality(err)
    BY <1>1, FindSignatureType, Zenon
  <1>3. \/ CreateInfoTable(ScanAndBuild(n), sig)
        \/ ni' = n /\ pc' = "dead" /\ UNCHANGED io
    BY <1>1, Zenon
  <1>4. d \in BOOLEAN
    BY Zenon
  <1>5. st \in StateTables
    BY DEF StateTables, States
  <1> HIDE DEF sig, d, st
  <1>6. n \in InstanceType /\ n.signature_ba = sig
    BY <1>2, <1>4, <1>5, NewInstanceType DEF InstanceType
  <1> HIDE DEF n
  <1>7. Chip'
    BY <1>2, ReadErrorCount DEF AttachNoTable, IInv, Chip
  <1>8. CallOK' /\ call'.by # "none" /\ io \in FrameType
    BY AttachCall DEF AttachNoTable, IInv
  <1>9. CASE CreateInfoTable(ScanAndBuild(n), sig)
    BY <1>6, <1>7, <1>8, <1>9, ScanAndBuildType, CreateInfoTableInv
  <1>10. CASE ni' = n /\ pc' = "dead" /\ UNCHANGED io
    BY <1>6, <1>7, <1>8, <1>10 DEF IInv, Control, Labels, TableCode, ClientCode
  <1> QED BY <1>3, <1>9, <1>10

-----------------------------------------------------------------------------
(* nmbm_attach on a chip with tables.                                      *)

\* nmbm_search_info_table returns a table of its range or nothing.
LEMMA SearchTableType ==
  ASSUME Chip, NEW st, NEW bad, NEW sig \in Blocks, NEW ba \in Nat, MgmtStart <= ba,
         SearchTable(flash, st, bad, sig, ba) # NoBlock
  PROVE  LET b == SearchTable(flash, st, bad, sig, ba)
         IN  /\ b \in ba .. sig - TableBlocks - 1
             /\ flash[b].table \in Tables
  <1> DEFINE S == {b \in ba .. sig - TableBlocks - 1 : LoadableAt(flash, st, bad, sig, b)}
             b == SearchTable(flash, st, bad, sig, ba)
  <1>1. S \in SUBSET Nat
    BY GeometryAssumption
  <1>2. b = FirstOr(S, NoBlock)
    BY DEF SearchTable
  <1>3. b \in S
    <2> HIDE DEF S, b
    <2> QED BY <1>1, <1>2, FirstOrType DEF b
  <1> HIDE DEF b
  <1>4. b \in ba .. sig - TableBlocks - 1 /\ flash[b].kind = "table" /\ b \in Blocks
    BY <1>3, GeometryAssumption DEF LoadableAt, IsTable, Blocks
  <1>5. flash[b].table \in Tables
    <2>1. flash[b] \in Contents
      BY <1>4 DEF Chip
    <2> QED BY <1>4, <2>1 DEF Contents, Blank, Garbage, Sig
  <1> QED BY <1>4, <1>5 DEF b

\* mapping_blocks_top_ba as nmbm_check_info_table computes it.
LEMMA MappingTopType ==
  ASSUME NEW t \in Tables, NEW sig \in Blocks, NEW end \in MgmtStart + 1 .. sig
  PROVE  MappingTop(t, end, sig) \in MgmtStart .. sig - 1
  <1> DEFINE S == {sig} \cup {t.map[lb] : lb \in {l \in Logic : t.map[l] \in end .. sig - 1}}
  <1>1. \A x \in S : x \in end .. sig
    BY GeometryAssumption DEF Blocks
  <1>2. MappingTop(t, end, sig) = Min(S) - 1 /\ sig \in S
    BY DEF MappingTop
  <1> HIDE DEF S
  <1>3. S \in SUBSET Nat /\ S # {}
    BY <1>1, <1>2, GeometryAssumption DEF Blocks
  <1>4. Min(S) \in end .. sig
    BY <1>1, <1>3, MinNat
  <1> QED BY <1>2, <1>4, GeometryAssumption DEF Blocks

\* data_block_count of a loaded table: one more than the last logic block
\* that is mapped.
LEMMA MappedCount ==
  ASSUME NEW map
  PROVE  LET mapped == {lb \in Logic : map[lb] # NoBlock}
         IN  (IF mapped = {} THEN MgmtStart ELSE Max(mapped) + 1) \in 0 .. MgmtStart
  <1> DEFINE mapped == {lb \in Logic : map[lb] # NoBlock}
  <1>1. mapped \in SUBSET Nat /\ (\A x \in mapped : x <= MgmtStart) /\ mapped \subseteq Logic
    BY GeometryAssumption DEF Logic
  <1> HIDE DEF mapped
  <1>2. mapped # {} => Max(mapped) \in Logic
    BY <1>1, MaxNat, GeometryAssumption
  <1>3. mapped # {} => Max(mapped) + 1 \in 0 .. MgmtStart
    BY <1>2, GeometryAssumption DEF Logic
  <1>4. MgmtStart \in 0 .. MgmtStart
    BY GeometryAssumption
  <1> QED BY <1>3, <1>4, Zenon DEF mapped

\* The instance built from one or two tables.
LEMMA LoadedInstanceType ==
  ASSUME NEW sig \in Blocks, NEW unusable,
         NEW b1 \in MgmtStart .. sig - TableBlocks - 1, flash[b1].table \in Tables,
         NEW b2, b2 = NoBlock \/ (b2 \in MgmtStart .. sig - TableBlocks - 1
                                   /\ flash[b2].table \in Tables)
  PROVE  LET n == LoadedInstance(sig, unusable, b1, b2)
         IN  /\ n \in InstanceType /\ AreaOK(n)
             /\ n.main_table_ba = b1
             /\ b2 # NoBlock => n.backup_table_ba = b2 /\ b2 \in Area(n)
  <1> DEFINE t1   == flash[b1].table
             end1 == b1 + TableBlocks
             t2   == flash[b2].table
             newer2 == b2 # NoBlock /\ t2.wc > t1.wc
             scanned == end1 .. (IF b2 = NoBlock THEN sig - TableBlocks ELSE b2) - 1
             found1 == {b \in MgmtStart .. b1 - 1 : b \in unusable}
             found2 == {b \in scanned : b \in unusable /\ t1.st[b] = GOOD}
             map  == IF newer2 THEN t2.map ELSE t1.map
             mapped == {lb \in Logic : map[lb] # NoBlock}
             backup == IF b2 = NoBlock THEN 0 ELSE b2
             st == IF newer2 THEN t2.st
                   ELSE [b \in Blocks |-> IF b \in found2 THEN BAD ELSE t1.st[b]]
             wc == IF newer2 THEN t2.wc ELSE t1.wc
             d  == found1 \cup found2 # {}
             top == IF newer2 THEN MappingTop(t2, b2 + TableBlocks, sig)
                    ELSE MappingTop(t1, end1, sig)
             mb == (IF b2 = NoBlock THEN b1 ELSE b2) + TableBlocks
             count == IF mapped = {} THEN MgmtStart ELSE Max(mapped) + 1
             m == [NewInstance EXCEPT
                     !.signature_ba = sig, !.main_table_ba = b1, !.backup_table_ba = backup,
                     !.block_state = st, !.block_mapping = map, !.write_count = wc, !.dirty = d,
                     !.mapping_blocks_top_ba = top, !.mapping_blocks_ba = mb,
                     !.data_block_count = count]
  <1>1. LoadedInstance(sig, unusable, b1, b2) = GenerateCache(m)
    BY Zenon DEF LoadedInstance
  <1>2. st \in StateTables
    BY DEF StateTables, States, Tables
  <1>3. map \in MappingTables /\ wc \in Nat
    BY DEF Tables
  <1>4. d \in BOOLEAN
    BY Zenon
  <1>5. count \in 0 .. MgmtStart
    BY MappedCount, Zenon
  <1>6. top \in MgmtStart .. sig - 1
    <2>1. /\ b1 + TableBlocks \in MgmtStart + 1 .. sig
          /\ b2 # NoBlock => b2 + TableBlocks \in MgmtStart + 1 .. sig
      BY GeometryAssumption DEF Blocks
    <2>2. MappingTop(t1, end1, sig) \in MgmtStart .. sig - 1
      BY <2>1, MappingTopType
    <2>3. newer2 => MappingTop(t2, b2 + TableBlocks, sig) \in MgmtStart .. sig - 1
      BY <2>1, MappingTopType
    <2> QED BY <2>2, <2>3, Zenon
  <1>7. /\ mb \in MgmtStart .. sig - 1 /\ b1 \in MgmtStart .. sig - 1
        /\ backup \in (MgmtStart .. sig - 1) \cup {0}
        /\ b2 # NoBlock => backup = b2 /\ b2 \in MgmtStart .. sig - 1
    BY GeometryAssumption DEF Blocks
  <1> HIDE DEF st, map, wc, d, count, top, mb, backup
  <1>8. (MgmtStart .. sig - 1) \cup {0} \subseteq Addresses
    BY GeometryAssumption DEF Addresses, Blocks
  <1>9. m \in InstanceType
    BY <1>2, <1>3, <1>4, <1>5, <1>6, <1>7, <1>8, NewInstanceType DEF InstanceType
  <1>10. /\ m.signature_ba = sig /\ m.main_table_ba = b1 /\ m.backup_table_ba = backup
         /\ m.mapping_blocks_top_ba = top /\ m.mapping_blocks_ba = mb
    BY NewInstanceType DEF InstanceType
  <1> HIDE DEF m
  <1>11. AreaOK(m) /\ Area(m) = MgmtStart .. sig - 1
    BY <1>6, <1>7, <1>10 DEF AreaOK, Area
  <1>12. GenerateCache(m).main_table_ba = m.main_table_ba
    BY <1>9 DEF GenerateCache, InstanceType
  <1> QED BY <1>1, <1>7, <1>9, <1>10, <1>11, <1>12, GenerateCacheType, GenerateCacheArea

LEMMA AttachExistingInv == ASSUME IInv, AttachExisting PROVE IInv'
  <1> USE DEF IInv
  <1>1. PICK err \in ReadErrors, ecc \in BOOLEAN :
          LET failed == IF ecc THEN {} ELSE err
              sig == FindSignature(flash, physBad \cup err)
              b1  == FirstTable(flash, physBad \cup err, sig)
              b2  == SecondTable(flash, physBad \cup err, sig, b1)
              n   == LoadedInstance(sig, physBad \cup failed, b1, b2)
              wc1 == flash[b1].table.wc
              wc2 == flash[b2].table.wc
          IN  /\ sig # NoBlock /\ b1 # NoBlock
              /\ IF b2 = NoBlock
                 THEN RescueSingle(n)
                 ELSE IF wc1 # wc2
                 THEN UpdateSingle([n EXCEPT !.dirty = TRUE], wc1 < wc2)
                 ELSE /\ ni' = [n EXCEPT !.protected = NoUnmapped(n)]
                      /\ pc' = "idle" /\ UNCHANGED io
              /\ fails' = fails + Cardinality(err)
    BY Zenon DEF AttachExisting
  <1> DEFINE failed == IF ecc THEN {} ELSE err
             sig == FindSignature(flash, physBad \cup err)
             b1  == FirstTable(flash, physBad \cup err, sig)
             b2  == SecondTable(flash, physBad \cup err, sig, b1)
             n   == LoadedInstance(sig, physBad \cup failed, b1, b2)
             m   == [n EXCEPT !.dirty = TRUE]
             p   == [n EXCEPT !.protected = NoUnmapped(n)]
  <1>2. sig \in Blocks /\ fails' = fails + Cardinality(err) /\ b1 # NoBlock
    BY <1>1, FindSignatureType, Zenon
  <1>3. \/ RescueSingle(n)
        \/ b2 # NoBlock /\ UpdateSingle(m, flash[b1].table.wc < flash[b2].table.wc)
        \/ ni' = p /\ pc' = "idle" /\ UNCHANGED io
    BY <1>1, Zenon
  <1> HIDE DEF sig
  <1>4. b1 \in MgmtStart .. sig - TableBlocks - 1 /\ flash[b1].table \in Tables
    BY <1>2, SearchTableType, GeometryAssumption DEF FirstTable
  <1> HIDE DEF b1
  <1>5. b2 = NoBlock \/ (b2 \in MgmtStart .. sig - TableBlocks - 1 /\ flash[b2].table \in Tables)
    <2>1. b1 + TableBlocks \in Nat /\ MgmtStart <= b1 + TableBlocks
      BY <1>4, GeometryAssumption
    <2>2. b2 # NoBlock => /\ b2 \in b1 + TableBlocks .. sig - TableBlocks - 1
                          /\ flash[b2].table \in Tables
      BY <1>2, <2>1, SearchTableType, Zenon DEF SecondTable
    <2> HIDE DEF b2
    <2> QED BY <1>4, <2>1, <2>2, GeometryAssumption
  <1> HIDE DEF b2
  <1>6. /\ n \in InstanceType /\ AreaOK(n) /\ n.main_table_ba = b1
        /\ b2 # NoBlock => n.backup_table_ba = b2 /\ b2 \in Area(n)
    <2> HIDE DEF IInv
    <2> QED BY <1>2, <1>4, <1>5, LoadedInstanceType
  <1> HIDE DEF n
  <1>7. /\ m \in InstanceType /\ AreaOK(m) /\ Area(m) = Area(n)
        /\ m.main_table_ba = b1 /\ m.backup_table_ba = n.backup_table_ba
    BY <1>6 DEF InstanceType, AreaOK, Area
  <1>8. NoUnmapped(n) \in BOOLEAN
    BY Zenon DEF NoUnmapped
  <1>9. p \in InstanceType /\ AreaOK(p)
    BY <1>6, <1>8 DEF InstanceType, AreaOK, Area
  <1>10. Chip'
    BY <1>2, ReadErrorCount DEF AttachExisting, Chip
  <1>11. CallOK' /\ call'.by = "load" /\ io \in FrameType
    BY AttachCall DEF AttachExisting, NoCall
  <1> HIDE DEF m, p, IInv
  <1>12. CASE RescueSingle(n)
    BY <1>6, <1>10, <1>11, <1>12, RescueSingleInv
  <1>13. CASE b2 # NoBlock /\ UpdateSingle(m, flash[b1].table.wc < flash[b2].table.wc)
    <2>1. b1 \in Area(m) /\ b2 \in Area(m) /\ m.backup_table_ba = b2 /\ ni' = m
      <3>1. b1 # 0
        BY <1>4, GeometryAssumption
      <3> QED BY <1>6, <1>7, <1>13, <3>1 DEF AreaOK, UpdateSingle
    <2>2. \/ WriteTable("singleMain", m.main_table_ba, m.backup_table_ba, 0)
          \/ WriteTable("singleBackup", m.backup_table_ba, m.mapping_blocks_top_ba, 0)
      BY <1>13, Zenon DEF UpdateSingle
    <2> QED BY <1>7, <1>10, <1>11, <2>1, <2>2, WriteTableInv DEF Callers, AreaOK
  <1>14. CASE ni' = p /\ pc' = "idle" /\ UNCHANGED io
    BY <1>9, <1>10, <1>11, <1>14 DEF IInv, Control, Labels, TableCode, ClientCode
  <1> QED BY <1>3, <1>12, <1>13, <1>14

\* nmbm_create_info_table, mapping the end of the data area.
LEMMA SpareForArea ==
  ASSUME NEW n \in InstanceType, AreaOK(n), SpareFor(n) # NoBlock
  PROVE  /\ SpareFor(n) \in Area(n)
         /\ n.mapping_blocks_top_ba - 1 \in Area(n)
  <1>1. /\ n.mapping_blocks_top_ba \in Blocks /\ n.mapping_blocks_ba \in Nat
        /\ n.mapping_blocks_ba < BlockCount /\ n.signature_ba \in Nat
    BY AreaBlocks, GeometryAssumption DEF AreaOK, Blocks, InstanceType
  <1>2. SpareFor(n) \in n.mapping_blocks_ba + 1 .. n.mapping_blocks_top_ba
        \/ n.mapping_blocks_ba >= BlockCount
    BY <1>1, WalkDescType, Zenon DEF SpareFor
  <1> QED BY <1>1, <1>2, GeometryAssumption DEF AreaOK, Area, Blocks

LEMMA MapToArea ==
  ASSUME NEW n \in InstanceType, AreaOK(n), NEW lb \in Logic, SpareFor(n) # NoBlock
  PROVE  MapTo(n, lb, SpareFor(n)) \in InstanceType /\ AreaOK(MapTo(n, lb, SpareFor(n)))
  <1>1. SpareFor(n) \in Blocks /\ n.mapping_blocks_top_ba # 0
    BY SpareForArea, AreaBlocks, GeometryAssumption DEF AreaOK, Area
  <1>2. MapTo(n, lb, SpareFor(n)) \in InstanceType
    BY <1>1, MapToType
  <1>3. AreaOK(MapTo(n, lb, SpareFor(n)))
    <2> DEFINE m == MapTo(n, lb, SpareFor(n))
    <2>1. /\ m.mapping_blocks_top_ba = n.mapping_blocks_top_ba - 1
          /\ m.mapping_blocks_ba = n.mapping_blocks_ba /\ m.main_table_ba = n.main_table_ba
          /\ m.backup_table_ba = n.backup_table_ba /\ m.signature_ba = n.signature_ba
      BY DEF MapTo, InstanceType
    <2> HIDE DEF m
    <2>2. AreaOK(m)
      BY <2>1, SpareForArea DEF AreaOK, Area
    <2> QED BY <2>2 DEF m
  <1> QED BY <1>2, <1>3

LEMMA Zeroes == 0 \in Logic /\ 0 \in Blocks
  BY GeometryAssumption DEF Logic, Blocks

LEMMA CreateMapInv == ASSUME IInv, CreateMap PROVE IInv'
  <1>1. pc = "createMap" /\ ChipUnchanged
    BY Zenon DEF CreateMap, ChipUnchanged
  <1>2. Chip' /\ CallOK /\ ni \in InstanceType /\ AreaOK(ni) /\ io \in FrameType
    BY <1>1, ClientEntry DEF ClientCode
  <1>3. CASE UpdateInfoTable(ni, 0, 0, "attached") \/ UpdateInfoTable(ni, 0, 0, "createMapFail")
    BY <1>2, <1>3, UpdateInfoTableInv, Zeroes
  <1> DEFINE lb == ni.data_block_count
             m  == MapTo(ni, lb, SpareFor(ni))
  <1>4. CASE /\ ~ (lb >= MgmtStart) /\ SpareFor(ni) # NoBlock /\ UNCHANGED <<pc, io, call>>
             /\ ni' = [m EXCEPT !.data_block_count = lb + 1]
    <2>1. lb \in Logic /\ lb + 1 \in 0 .. MgmtStart
      BY <1>2, <1>4, GeometryAssumption DEF InstanceType, Logic
    <2>2. m \in InstanceType /\ AreaOK(m)
      BY <1>2, <1>4, <2>1, MapToArea
    <2> HIDE DEF m
    <2>3. ni' \in InstanceType /\ AreaOK(ni')
      BY <1>4, <2>1, <2>2 DEF InstanceType, AreaOK, Area
    <2> QED
      BY <1>1, <1>2, <1>4, <2>3 DEF IInv, CallOK, Control, Labels, TableCode, ClientCode
  <1> QED BY <1>3, <1>4, Zenon DEF CreateMap

\* The spare pool is declared empty after a failed map.
LEMMA EmptyPool ==
  ASSUME NEW n \in InstanceType, AreaOK(n)
  PROVE  LET m == [n EXCEPT !.mapping_blocks_top_ba = n.mapping_blocks_ba]
         IN  m \in InstanceType /\ AreaOK(m)
  BY DEF InstanceType, AreaOK, Area

LEMMA CreateMapFailInv == ASSUME IInv, CreateMapFail PROVE IInv'
  <1>1. pc = "createMapFail" /\ ChipUnchanged
    BY Zenon DEF CreateMapFail, ChipUnchanged
  <1>2. Chip' /\ ni \in InstanceType /\ AreaOK(ni)
    BY <1>1, ClientEntry DEF ClientCode
  <1> DEFINE m == [ni EXCEPT !.mapping_blocks_top_ba = ni.mapping_blocks_ba]
  <1>3. m \in InstanceType /\ AreaOK(m)
    BY <1>2, EmptyPool
  <1> HIDE DEF m
  <1>4. UpdateInfoTable(m, 0, 0, "attached")
    BY Zenon DEF CreateMapFail, m
  <1> QED BY <1>2, <1>3, <1>4, UpdateInfoTableInv, Zeroes

-----------------------------------------------------------------------------
(* Operations of the client.                                               *)

\* The physical block of a logic block.
LEMMA MappingBlocks ==
  ASSUME NEW n \in InstanceType, NEW lb \in Logic, n.block_mapping[lb] # NoBlock
  PROVE  n.block_mapping[lb] \in Blocks
  BY DEF InstanceType, MappingTables

LEMMA UnmapType ==
  ASSUME NEW n \in InstanceType, AreaOK(n), NEW lb \in Logic
  PROVE  LET m == [n EXCEPT !.block_mapping[lb] = NoBlock]
         IN  m \in InstanceType /\ AreaOK(m)
  BY DEF InstanceType, MappingTables, AreaOK, Area

LEMMA RetireType ==
  ASSUME NEW n \in InstanceType, AreaOK(n), NEW pb \in Blocks
  PROVE  Retire(n, pb) \in InstanceType /\ AreaOK(Retire(n, pb))
  BY SetStateType, SetStateArea DEF Retire, States

LEMMA EraseUnusableInv ==
  ASSUME Chip', NEW n \in InstanceType, AreaOK(n), NEW lb \in Logic, NEW pb \in Blocks,
         EraseUnusable(n, lb, pb)
  PROVE  IInv'
  <1> DEFINE m == [n EXCEPT !.block_mapping[lb] = NoBlock]
  <1>1. m \in InstanceType /\ AreaOK(m)
    BY UnmapType
  <1> HIDE DEF m
  <1>2. UpdateInfoTable(Retire(m, pb), lb, pb, "idle")
    BY Zenon DEF EraseUnusable, m
  <1> QED BY <1>1, <1>2, RetireType, UpdateInfoTableInv

LEMMA RemapLogicBlockInv ==
  ASSUME Chip', NEW n \in InstanceType, AreaOK(n), NEW lb \in Logic, NEW pb \in Blocks,
         RemapLogicBlock(n, lb, pb)
  PROVE  IInv'
  <1>1. CASE EraseUnusable(n, lb, pb)
    BY <1>1, EraseUnusableInv
  <1>2. CASE UpdateInfoTable(n, lb, pb, "eraseMapFail")
    BY <1>2, UpdateInfoTableInv
  <1>3. CASE SpareFor(n) # NoBlock
             /\ UpdateInfoTable(Retire(MapTo(n, lb, SpareFor(n)), pb), lb, pb, "eraseTry")
    BY <1>3, MapToArea, RetireType, UpdateInfoTableInv
  <1> QED BY <1>1, <1>2, <1>3, Zenon DEF RemapLogicBlock

\* What a client operation may rely on, before it touches the chip.
LEMMA ClientState ==
  ASSUME IInv, pc \in ClientCode
  PROVE  Chip /\ CallOK /\ ni \in InstanceType /\ AreaOK(ni) /\ io \in FrameType
  BY DEF IInv, Control

\* Steps of client code that leave the instance and the frame alone.
LEMMA ClientKeeps ==
  ASSUME IInv, pc \in ClientCode, Chip', CallOK', UNCHANGED <<ni, io>>,
         pc' \in ClientCode \ {"update"}
  PROVE  IInv'
  BY ClientState DEF IInv, Control, Labels, TableCode, ClientCode

LEMMA EraseInv == ASSUME IInv, NEW lb \in Logic, Erase(lb) PROVE IInv'
  <1>1. pc = "idle" /\ UNCHANGED <<flash, physBad, ni, io, fails, crashes>> /\ pc' = "eraseTry"
    BY DEF Erase, Request
  <1>2. Chip'
    BY <1>1 DEF IInv, Chip, Erase, Forget
  <1>3. CallOK'
    BY Zeroes DEF Erase, CallOK, CallType, NoCall
  <1> QED BY <1>1, <1>2, <1>3, ClientKeeps DEF ClientCode

LEMMA EraseTryInv == ASSUME IInv, EraseTry PROVE IInv'
  <1> DEFINE lb == call.lb
             pb == ni.block_mapping[lb]
  <1>1. pc = "eraseTry" /\ UNCHANGED crashes
    BY Zenon DEF EraseTry
  <1>2. Chip /\ CallOK /\ ni \in InstanceType /\ AreaOK(ni) /\ lb \in Logic
    BY <1>1, ClientState DEF ClientCode, CallOK, CallType
  <1>3. pb # NoBlock => pb \in Blocks
    BY <1>2, MappingBlocks
  <1> HIDE DEF lb, pb
  <1>4. CASE pc' = "idle" /\ UNCHANGED <<flash, physBad, ni, io, call, view, fails>>
    <2>1. Chip' /\ CallOK'
      BY <1>1, <1>2, <1>4 DEF Chip, CallOK
    <2> QED BY <1>1, <1>4, <2>1, ClientKeeps DEF ClientCode
  <1>5. CASE pb # NoBlock /\ RemapLogicBlock(ni, lb, pb) /\ UNCHANGED <<flash, physBad, view, fails>>
    <2>1. Chip'
      BY <1>1, <1>2, <1>5 DEF Chip
    <2> QED BY <1>2, <1>3, <1>5, <2>1, RemapLogicBlockInv
  <1>6. CASE /\ pb # NoBlock /\ ErasePhys(pb) /\ view' = [view EXCEPT ![lb] = "erased"]
             /\ pc' = "idle" /\ UNCHANGED <<ni, io, call>>
    <2>1. Chip' /\ CallOK'
      BY <1>1, <1>2, <1>3, <1>6, ContentsType DEF Chip, CallOK, ErasePhys
    <2> QED BY <1>1, <1>6, <2>1, ClientKeeps DEF ClientCode
  <1>7. CASE /\ pb # NoBlock /\ ErasePhysFails(pb) /\ UNCHANGED view
             /\ RemapLogicBlock(SetState(ni, pb, BAD), lb, pb)
    <2>1. Chip'
      BY <1>1, <1>2, <1>3, <1>7, EraseChip
    <2>2. SetState(ni, pb, BAD) \in InstanceType /\ AreaOK(SetState(ni, pb, BAD))
      BY <1>2, <1>3, <1>7, SetStateType, SetStateArea DEF States
    <2> QED BY <1>2, <1>3, <1>7, <2>1, <2>2, RemapLogicBlockInv
  <1> QED BY <1>4, <1>5, <1>6, <1>7, Zenon DEF EraseTry, lb, pb

LEMMA EraseMapFailInv == ASSUME IInv, EraseMapFail PROVE IInv'
  <1>1. pc = "eraseMapFail" /\ ChipUnchanged
    BY Zenon DEF EraseMapFail, ChipUnchanged
  <1>2. Chip' /\ ni \in InstanceType /\ AreaOK(ni) /\ call.lb \in Logic /\ call.pb \in Blocks
    BY <1>1, ClientEntry DEF ClientCode, CallOK, CallType
  <1> DEFINE m == [ni EXCEPT !.mapping_blocks_top_ba = ni.mapping_blocks_ba]
  <1>3. m \in InstanceType /\ AreaOK(m)
    BY <1>2, EmptyPool
  <1> HIDE DEF m
  <1>4. EraseUnusable(m, call.lb, call.pb)
    BY Zenon DEF EraseMapFail, m
  <1> QED BY <1>2, <1>3, <1>4, EraseUnusableInv

LEMMA ReadFailsInv == ASSUME IInv, NEW lb \in Logic, ReadFails(lb) PROVE IInv'
  <1> DEFINE pb == ni.block_mapping[lb]
  <1>1. pc = "idle" /\ pb # NoBlock
    BY DEF ReadFails, Request, Accessible
  <1>2. ni \in InstanceType /\ AreaOK(ni) /\ pb \in Blocks
    BY <1>1, ClientState, MappingBlocks DEF ClientCode
  <1>3. Chip'
    BY DEF ReadFails, IInv, Chip, Forget
  <1> HIDE DEF pb
  <1>4. SetState(ni, pb, NEED_REMAP) \in InstanceType /\ AreaOK(SetState(ni, pb, NEED_REMAP))
    BY <1>2, SetStateType, SetStateArea DEF States
  <1>5. UpdateInfoTable(SetState(ni, pb, NEED_REMAP), lb, pb, "idle")
    BY Zenon DEF ReadFails, pb
  <1> QED BY <1>2, <1>3, <1>4, <1>5, UpdateInfoTableInv

LEMMA WriteInv == ASSUME IInv, NEW lb \in Logic, Write(lb) PROVE IInv'
  <1> DEFINE pb == ni.block_mapping[lb]
  <1>1. pc = "idle" /\ pb # NoBlock /\ UNCHANGED crashes
    BY Zenon DEF Write, Request, Accessible
  <1>2. Chip /\ CallOK /\ ni \in InstanceType /\ AreaOK(ni) /\ pb \in Blocks
    BY <1>1, ClientState, MappingBlocks DEF ClientCode
  <1> HIDE DEF pb
  <1>3. CASE /\ flash' = [flash EXCEPT ![pb] = IF @ = Blank THEN Data(lb) ELSE Garbage]
             /\ view' = [view EXCEPT ![lb] = "written"]
             /\ UNCHANGED <<physBad, ni, pc, io, call, fails>>
    <2>1. Chip' /\ CallOK'
      BY <1>1, <1>2, <1>3, ContentsType DEF Chip, CallOK
    <2> QED BY <1>1, <1>3, <2>1, ClientKeeps DEF ClientCode
  <1>4. CASE /\ fails' = fails + 1
             /\ flash' = [flash EXCEPT ![pb] = Garbage]
             /\ UpdateInfoTable(SetState(ni, pb, NEED_REMAP), lb, pb, "idle")
             /\ Forget(lb)
             /\ UNCHANGED physBad
    <2>1. Chip'
      BY <1>1, <1>2, <1>4, ContentsType DEF Chip, Forget
    <2>2. SetState(ni, pb, NEED_REMAP) \in InstanceType /\ AreaOK(SetState(ni, pb, NEED_REMAP))
      BY <1>2, SetStateType, SetStateArea DEF States
    <2> QED BY <1>2, <1>4, <2>1, <2>2, UpdateInfoTableInv
  <1> QED BY <1>3, <1>4, Zenon DEF Write, pb

LEMMA MarkBadInv == ASSUME IInv, NEW lb \in Logic, MarkBad(lb) PROVE IInv'
  <1> DEFINE pb == ni.block_mapping[lb]
             m  == [ni EXCEPT !.block_mapping[lb] = NoBlock]
  <1>1. pc = "idle" /\ pb # NoBlock
    BY Zenon DEF MarkBad, Request
  <1>2. Chip /\ ni \in InstanceType /\ AreaOK(ni) /\ pb \in Blocks
    BY <1>1, ClientState, MappingBlocks DEF ClientCode
  <1>3. m \in InstanceType /\ AreaOK(m)
    BY <1>2, UnmapType
  <1> HIDE DEF pb, m
  <1>4. /\ \/ physBad' = physBad \cup {pb} /\ flash' = [flash EXCEPT ![pb] = Blank] /\ fails' = fails
           \/ physBad' = physBad /\ flash' = flash /\ fails' = fails + 1
        /\ UpdateInfoTable(SetState(m, pb, BAD), lb, pb, "idle")
        /\ Forget(lb) /\ crashes' = crashes
    BY Zenon DEF MarkBad, pb, m
  <1>5. Chip'
    BY <1>2, <1>4, ContentsType DEF Chip, Forget
  <1>6. SetState(m, pb, BAD) \in InstanceType /\ AreaOK(SetState(m, pb, BAD))
    BY <1>2, <1>3, SetStateType, SetStateArea DEF States
  <1> QED BY <1>2, <1>4, <1>5, <1>6, UpdateInfoTableInv

LEMMA DetachInv == ASSUME IInv, Detach PROVE IInv'
  <1>1. pc = "idle" /\ ChipUnchanged /\ UpdateInfoTable(ni, 0, 0, "detached")
    BY Zenon DEF Detach, ChipUnchanged
  <1> QED BY <1>1, ClientEntry, UpdateInfoTableInv, Zeroes DEF ClientCode

LEMMA PowerOffInv == ASSUME IInv, PowerOff, crashes' \in Nat PROVE IInv'
  <1>1. Chip' /\ CallOK'
    BY Zeroes DEF PowerOff, IInv, Chip, CallOK, CallType, NoCall
  <1> QED
    BY <1>1, NewInstanceType, NoIOType DEF PowerOff, IInv, Control, Labels, TableCode, ClientCode,
       NoCall

-----------------------------------------------------------------------------
LEMMA InitIInv == Init => IInv
  <1> SUFFICES ASSUME Init PROVE IInv
    OBVIOUS
  <1>1. Chip
    BY ContentsType, ModelAssumption DEF Init, Chip
  <1>2. CallOK
    BY Zeroes DEF Init, CallOK, CallType, NoCall
  <1> QED
    BY <1>1, <1>2, NewInstanceType, NoIOType DEF Init, IInv, Control, Labels, TableCode, ClientCode,
       NoCall

LEMMA TableStepInv == ASSUME IInv, TableStep PROVE IInv'
  BY WriteEraseInv, WriteProgramInv, WriteOutOfRangeInv, RangeEraseInv, SignatureEraseInv,
     SignatureProgramInv, RebuildMainInv, RebuildBackupInv, RebuildErasedInv, RescueFrontInv,
     RescueFrontErasedInv, RescueBehindInv, RescueBehindErasedInv, SingleMainInv,
     SingleBackupInv, RescueMainTempInv, RescueMainMainInv, UpdateOnceInv, UpdateReturnInv,
     OnceBackupInv, OnceMainInv, CreateMapInv, CreateMapFailInv
  DEF TableStep

LEMMA NextInv == IInv /\ [Next]_vars => IInv'
  <1> SUFFICES ASSUME IInv, [Next]_vars PROVE IInv'
    OBVIOUS
  <1>1. CASE Attach
    BY <1>1, AttachNewInv, AttachNoTableInv, AttachExistingInv DEF Attach
  <1>2. CASE TableStep
    BY <1>2, TableStepInv
  <1>3. CASE EraseTry \/ EraseMapFail
    BY <1>3, EraseTryInv, EraseMapFailInv
  <1>4. CASE ClientStep
    BY <1>4, EraseInv, ReadFailsInv, WriteInv, MarkBadInv, DetachInv DEF ClientStep
  <1>5. CASE Detached \/ Crash
    <2>1. PowerOff /\ crashes' \in Nat
      BY <1>5 DEF Detached, Crash, IInv, Chip
    <2> QED BY <2>1, PowerOffInv
  <1>6. CASE UNCHANGED vars
    BY <1>6 DEF vars, IInv, Chip, CallOK, Control
  <1> QED BY <1>1, <1>2, <1>3, <1>4, <1>5, <1>6 DEF Next, Step

\* Only three steps of the table routines change the chip, and only in the
\* area between the start of the management blocks and the signature.
LEMMA TableCodeChanges ==
  ASSUME IInv, Next, pc \in {"wErase", "wProgram", "range"}, NEW b \in Blocks,
         flash'[b] # flash[b]
  PROVE  b \in Area(ni)
  <1>1. CASE WriteErase \/ WriteProgram \/ RangeErase
    BY <1>1, WriteEraseInv, WriteProgramInv, RangeEraseInv
  <1>2. CASE Detached \/ Crash \/ WriteOutOfRange \/ RebuildErased \/ RescueFrontErased
             \/ RescueBehindErased
    <2>1. UNCHANGED flash
      BY <1>2, Zenon DEF Detached, Crash, PowerOff, WriteOutOfRange, RebuildErased,
         RescueFrontErased, RescueBehindErased
    <2> QED BY <2>1
  <1>3. CASE Attach
    <2>1. pc = "off"
      BY <1>3, Zenon DEF Attach, AttachNew, AttachNoTable, AttachExisting
    <2> QED BY <2>1
  <1>4. CASE EraseTry \/ EraseMapFail \/ ClientStep
    <2>1. pc \in {"eraseTry", "eraseMapFail", "idle"}
      BY <1>4, Zenon DEF EraseTry, EraseMapFail, ClientStep, Erase, ReadFails, Write, MarkBad,
         Detach, Request
    <2> QED BY <2>1
  <1>5. CASE SignatureErase \/ SignatureProgram \/ UpdateOnce \/ UpdateReturn \/ CreateMap
             \/ CreateMapFail
    <2>1. pc \in {"sErase", "sProgram", "update", "createMap", "createMapFail"}
      BY <1>5, Zenon DEF SignatureErase, SignatureProgram, UpdateOnce, UpdateReturn, CreateMap,
         CreateMapFail
    <2> QED BY <2>1
  <1>6. CASE RebuildMain \/ RebuildBackup \/ RescueFront \/ RescueBehind \/ SingleMain
             \/ SingleBackup \/ RescueMainTemp \/ RescueMainMain \/ OnceBackup \/ OnceMain
    <2>1. pc = "ret"
      BY <1>6, Zenon DEF RebuildMain, RebuildBackup, RescueFront, RescueBehind, SingleMain,
         SingleBackup, RescueMainTemp, RescueMainMain, OnceBackup, OnceMain, Returned
    <2> QED BY <2>1
  <1> QED BY <1>1, <1>2, <1>3, <1>4, <1>5, <1>6 DEF Next, Step, TableStep

\* The inductive invariant holds in every reachable state.
THEOREM NmbmInductive == Spec => []IInv
  BY InitIInv, NextInv, PTL DEF Spec

\* Every variable of nmbm-core.c's instance, frames and chip keeps its type,
\* whatever fails, whenever the power is cut: no address leaves the chip, no
\* chunk index the table, and every routine returns to a place that exists.
THEOREM NmbmTypeCorrect == Spec => []TypeOK
  <1>1. IInv => TypeOK
    BY DEF IInv, Chip, CallOK, Control, TypeOK
  <1> QED BY <1>1, NmbmInductive, PTL

\* Writing, rescuing and rebuilding tables (nmbm_write_mgmt_range,
\* nmbm_erase_range) touch the management area only: never the data area,
\* never the signature.
THEOREM NmbmTableWritesConfined == Spec => TableWritesConfined
  <1>1. ASSUME IInv, [Next]_vars PROVE [ConfinedStep]_vars
    <2>1. ASSUME Next, pc \in {"wErase", "wProgram", "range"}, NEW b \in Blocks,
                 flash'[b] # flash[b]
          PROVE  MgmtStart <= b /\ b < ni.signature_ba
      <3>1. b \in Area(ni)
        BY <1>1, <2>1, TableCodeChanges
      <3>2. ni.signature_ba \in Nat
        BY <1>1, GeometryAssumption DEF IInv, InstanceType, Blocks
      <3> QED BY <3>1, <3>2, GeometryAssumption DEF Area
    <2>2. CASE Next
      BY <2>1, <2>2 DEF ConfinedStep, Changes
    <2> QED BY <1>1, <2>2
  <1> QED BY <1>1, NmbmInductive, PTL DEF Spec, TableWritesConfined
=============================================================================
