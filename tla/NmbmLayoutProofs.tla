-------------------------- MODULE NmbmLayoutProofs --------------------------
(* Where the tables, the spare blocks and the mapped blocks lie, and what  *)
(* follows for the mapping, the image on the chip and the client's data:   *)
(* theorems about Nmbm on top of the invariants of NmbmProofs and          *)
(* NmbmSaveProofs.  They hold up to the events the history variables of    *)
(* NmbmHistory record.  One hypothesis is left, SecondFits, a property of  *)
(* Nmbm that TLC checks.                                                   *)
EXTENDS NmbmSaveProofs, NmbmHistory

\* The tables the next attach finds leave room: mapping_blocks_ba, the end of
\* the last table, is not above the mapping_blocks_top_ba computed from the
\* mapping of the table that is used.
LoadsFit ==
  pc = "off" =>
    \A err \in ReadErrors :
      LET sig == FindSignature(flash, physBad \cup err)
          b1  == FirstTable(flash, physBad \cup err, sig)
          b2  == SecondTable(flash, physBad \cup err, sig, b1)
          n   == LoadedInstance(sig, physBad \cup err, b1, b2)
      IN  sig # NoBlock /\ b1 # NoBlock => n.mapping_blocks_ba <= n.mapping_blocks_top_ba

-----------------------------------------------------------------------------
(* The first inductive invariant: the order of the addresses, and the room *)
(* of the table being written.  f is the frame io, n the instance.         *)

Layout(n) ==
  /\ n.mapping_blocks_ba <= n.mapping_blocks_top_ba
  /\ n.main_table_ba # 0 => n.main_table_ba + TableBlocks <= n.mapping_blocks_ba
  /\ n.backup_table_ba # 0 =>
       /\ n.main_table_ba # 0
       /\ n.main_table_ba + TableBlocks <= n.backup_table_ba
       /\ n.backup_table_ba + TableBlocks <= n.mapping_blocks_ba

\* The first address the writer called from k may use ...
Low(k, n) ==
  IF k \in {"rebuildBackup", "rescueBehind", "rescueTemp"} THEN n.mapping_blocks_ba
  ELSE IF k \in {"singleBackup", "onceBackup"} THEN n.backup_table_ba
  ELSE MgmtStart

\* ... and its limit.
High(k, n) ==
  IF k = "rescueFront" THEN n.main_table_ba
  ELSE IF k = "singleMain" \/ (k = "onceMain" /\ n.backup_table_ba # 0) THEN n.backup_table_ba
  ELSE n.mapping_blocks_top_ba

\* Which tables the instance has while the writer runs.
TablesOf(k, n) ==
  /\ k \in {"rebuildMain", "rebuildBackup", "rescueFront", "rescueBehind", "singleMain",
           "singleBackup", "onceMain", "onceBackup", "rescueTemp", "rescueMain"}
  /\ k = "rebuildMain" <=> n.main_table_ba = 0
  /\ k \in {"rebuildMain", "rebuildBackup", "rescueFront", "rescueBehind"} =>
       n.backup_table_ba = 0
  /\ k \in {"singleMain", "singleBackup", "onceBackup", "rescueTemp", "rescueMain"} =>
       n.backup_table_ba # 0

WriteRoom(f, n) ==
  /\ Low(f.k, n) <= f.ba /\ f.ba <= f.limit
  /\ f.left < TableBlocks =>
       Low(f.k, n) <= f.start /\ f.start + (TableBlocks - f.left) <= f.ba
  /\ IF f.k = "rescueMain" THEN f.limit + TableBlocks <= n.mapping_blocks_ba
     ELSE f.limit = High(f.k, n)
  /\ f.k \in {"rebuildBackup", "rescueBehind", "rescueTemp"} =>
       n.mapping_blocks_ba <= f.saved /\ f.saved <= n.mapping_blocks_top_ba
  /\ TablesOf(f.k, n)

RangeRoom(f, n) ==
  /\ f.limit <= n.mapping_blocks_top_ba
  /\ f.k \in {"rebuildErase", "rescueFrontErase", "rescueBehindErase"} /\ n.main_table_ba # 0
  /\ f.k # "rescueBehindErase" =>
       n.main_table_ba + TableBlocks <= f.ba /\ f.limit = n.backup_table_ba
  /\ f.k = "rescueBehindErase" =>
       /\ n.main_table_ba # 0 /\ n.backup_table_ba = 0
       /\ n.mapping_blocks_ba <= f.start
       /\ n.mapping_blocks_ba <= f.ba /\ f.limit = f.start
       /\ f.start + TableBlocks <= f.saved /\ f.saved <= n.mapping_blocks_top_ba

LayOK(p, f, n) ==
  /\ p \in TableCode \cup ClientCode => Layout(n)
  /\ p \in WriteCode => WriteRoom(f, n)
  /\ p = "range" => RangeRoom(f, n)

LayInv == LayOK(pc, io, ni)

-----------------------------------------------------------------------------
(* Addresses.                                                              *)

LEMMA AddressNat ==
  ASSUME NEW n \in InstanceType
  PROVE  /\ n.mapping_blocks_ba \in Nat /\ n.mapping_blocks_top_ba \in Nat
         /\ n.main_table_ba \in Nat /\ n.backup_table_ba \in Nat /\ n.signature_ba \in Nat
         /\ TableBlocks \in Nat /\ MgmtStart \in Nat /\ 1 <= TableBlocks /\ 1 <= MgmtStart
  BY GeometryAssumption DEF InstanceType, Addresses, Blocks

LEMMA ZeroAddress == 0 \in Addresses
  BY GeometryAssumption DEF Addresses

LEMMA FrameNat ==
  ASSUME NEW f \in FrameType
  PROVE  /\ f.ba \in Nat /\ f.limit \in Nat /\ f.start \in Nat /\ f.saved \in Nat
         /\ f.left \in Nat /\ f.left <= TableBlocks
  BY GeometryAssumption DEF FrameType, Addresses

\* Instances that agree on the addresses.
SameAddresses(m, n) ==
  /\ m.mapping_blocks_ba = n.mapping_blocks_ba
  /\ m.mapping_blocks_top_ba = n.mapping_blocks_top_ba
  /\ m.main_table_ba = n.main_table_ba /\ m.backup_table_ba = n.backup_table_ba

LEMMA SameLayout ==
  ASSUME NEW m, NEW n, SameAddresses(m, n), Layout(n)
  PROVE  Layout(m) /\ \A f : RangeRoom(f, n) => RangeRoom(f, m)
  BY DEF SameAddresses, Layout, RangeRoom

LEMMA SetStateAddresses ==
  ASSUME NEW n \in InstanceType, NEW b, NEW s
  PROVE  SameAddresses(SetState(n, b, s), n)
  BY DEF SetState, SameAddresses, InstanceType

\* No writer goes beyond the spare blocks that are not mapped.
LEMMA LimitTop ==
  ASSUME NEW n \in InstanceType, Layout(n), NEW f \in FrameType, WriteRoom(f, n)
  PROVE  f.limit <= n.mapping_blocks_top_ba
  <1> USE AddressNat, FrameNat
  <1>1. CASE f.k = "rescueMain"
    BY <1>1 DEF WriteRoom, Layout
  <1>2. CASE f.k = "rescueFront"
    BY <1>2 DEF WriteRoom, Layout, High, TablesOf
  <1>3. CASE f.k = "singleMain" \/ (f.k = "onceMain" /\ n.backup_table_ba # 0)
    BY <1>3 DEF WriteRoom, Layout, High, TablesOf
  <1>4. CASE /\ f.k # "rescueMain" /\ f.k # "rescueFront"
             /\ ~ (f.k = "singleMain" \/ (f.k = "onceMain" /\ n.backup_table_ba # 0))
    BY <1>4 DEF WriteRoom, High
  <1> QED BY <1>1, <1>2, <1>3, <1>4

\* The write position moves up to the limit.
LEMMA Advance ==
  ASSUME NEW n, NEW m, SameAddresses(m, n), NEW f \in FrameType, WriteRoom(f, n),
         NEW b \in Nat, f.ba <= b, b <= f.limit, Low(f.k, n) \in Nat
  PROVE  WriteRoom([f EXCEPT !.ba = b], m)
  <1> DEFINE g == [f EXCEPT !.ba = b]
  <1>1. /\ g.ba = b /\ g.k = f.k /\ g.limit = f.limit /\ g.left = f.left /\ g.start = f.start
        /\ g.saved = f.saved
    BY DEF FrameType
  <1>2. Low(f.k, m) = Low(f.k, n) /\ High(f.k, m) = High(f.k, n)
    BY DEF SameAddresses, Low, High
  <1>3. TablesOf(f.k, m)
    BY DEF SameAddresses, WriteRoom, TablesOf
  <1> HIDE DEF g
  <1>4. WriteRoom(g, m)
    BY <1>1, <1>2, <1>3, FrameNat, GeometryAssumption DEF WriteRoom, SameAddresses
  <1> QED BY <1>4 DEF g

LEMMA LowNat == ASSUME NEW n \in InstanceType, NEW k PROVE Low(k, n) \in Nat
  BY AddressNat DEF Low

-----------------------------------------------------------------------------
(* What calls and returns establish.                                       *)

LEMMA ReturnLay ==
  ASSUME CallOK, NEW n \in InstanceType, Layout(n), NEW ok \in BOOLEAN, TableReturn(n, ok)
  PROVE  LayInv'
  <1>1. SameAddresses(ni', n)
    BY DEF TableReturn, SameAddresses, InstanceType
  <1>2. pc' \notin TableCode
    BY DEF TableReturn, TableCode, CallOK, CallType
  <1>3. pc' \notin WriteCode /\ pc' # "range"
    BY <1>2 DEF TableCode, WriteCode
  <1> QED BY <1>1, <1>3, SameLayout DEF LayInv, LayOK

LEMMA WriteLay ==
  ASSUME pc' = "wErase", Layout(ni'), WriteRoom(io', ni')
  PROVE  LayInv'
  BY DEF LayInv, LayOK

LEMMA UpdateLay ==
  ASSUME NEW n, Layout(n), NEW lb, NEW pb, NEW then, UpdateInfoTable(n, lb, pb, then)
  PROVE  LayInv'
  BY DEF UpdateInfoTable, LayInv, LayOK, WriteCode

\* What every return handler may rely on.
LEMMA LayEntry ==
  ASSUME IInv, LayInv, pc \in TableCode
  PROVE  /\ Layout(ni) /\ ni \in InstanceType /\ io \in FrameType /\ CallOK
         /\ pc \in WriteCode => WriteRoom(io, ni)
         /\ pc = "range" => RangeRoom(io, ni)
  BY DEF IInv, LayInv, LayOK

\* A table has been written: it starts and ends where the caller allowed.
LEMMA WrittenRoom ==
  ASSUME IInv, LayInv, pc = "ret", io.left = 0
  PROVE  Low(io.k, ni) <= io.start /\ io.start + TableBlocks <= io.ba /\ io.ba <= io.limit
  <1>1. WriteRoom(io, ni) /\ io \in FrameType
    BY LayEntry DEF WriteCode, TableCode
  <1> QED BY <1>1, GeometryAssumption DEF WriteRoom

-----------------------------------------------------------------------------
(* nmbm_write_mgmt_range and nmbm_erase_range.                             *)

LEMMA HereBounds ==
  ASSUME IInv, pc \in TableCode, Here < io.limit
  PROVE  Here \in Nat /\ Here + 1 \in Nat /\ io.ba <= Here /\ Here + 1 <= io.limit /\ Here <= io.limit
  <1>1. Here \in io.ba .. io.limit - 1 /\ io.ba \in Nat /\ io.limit \in Nat
    BY HereArea, FrameNat DEF IInv
  <1> QED BY <1>1

LEMMA WriteEraseLay == ASSUME IInv, LayInv, WriteErase PROVE LayInv'
  <1>1. pc = "wErase" /\ Here < io.limit
    BY DEF WriteErase
  <1>2. Layout(ni) /\ ni \in InstanceType /\ io \in FrameType /\ WriteRoom(io, ni)
    BY <1>1, LayEntry DEF TableCode, WriteCode
  <1>3. /\ Here \in Nat /\ Here + 1 \in Nat /\ io.ba <= Here /\ io.ba <= Here + 1
        /\ Here + 1 <= io.limit /\ Here <= io.limit
    BY <1>1, <1>2, HereBounds, FrameNat DEF TableCode
  <1>4. SameAddresses(ni, ni) /\ SameAddresses(SetState(ni, Here, BAD), ni) /\ Low(io.k, ni) \in Nat
    BY <1>2, SetStateAddresses, LowNat DEF SameAddresses
  <1>5. CASE pc' = "wProgram" /\ io' = [io EXCEPT !.ba = Here] /\ UNCHANGED ni
    <2>1. WriteRoom(io', ni')
      BY <1>2, <1>3, <1>4, <1>5, Advance
    <2> QED BY <1>2, <1>5, <2>1 DEF LayInv, LayOK
  <1>6. CASE ni' = SetState(ni, Here, BAD) /\ io' = [io EXCEPT !.ba = Here + 1] /\ UNCHANGED pc
    <2>1. WriteRoom(io', ni')
      BY <1>2, <1>3, <1>4, <1>6, Advance
    <2> QED BY <1>1, <1>2, <1>4, <1>6, <2>1, SameLayout, WriteLay
  <1> QED BY <1>5, <1>6, Zenon DEF WriteErase

LEMMA WriteProgramLay == ASSUME IInv, LayInv, WriteProgram PROVE LayInv'
  <1>1. pc = "wProgram" /\ io.left # 0 /\ io.ba < io.limit
    BY DEF WriteProgram, IInv, Control
  <1>2. Layout(ni) /\ ni \in InstanceType /\ io \in FrameType /\ WriteRoom(io, ni)
    BY <1>1, LayEntry DEF TableCode, WriteCode
  <1>3. io.ba + 1 \in Nat /\ io.ba <= io.ba + 1 /\ io.ba + 1 <= io.limit /\ Low(io.k, ni) \in Nat
    BY <1>1, <1>2, FrameNat, LowNat
  <1>4. CASE /\ io' = [io EXCEPT !.ba = @ + 1, !.left = @ - 1,
                                 !.start = IF io.left = TableBlocks THEN io.ba ELSE @]
             /\ pc' = IF io.left = 1 THEN "ret" ELSE "wErase"
             /\ UNCHANGED ni
    <2> DEFINE s == IF io.left = TableBlocks THEN io.ba ELSE io.start
    <2>1. /\ io'.ba = io.ba + 1 /\ io'.left = io.left - 1 /\ io'.start = s
          /\ io'.k = io.k /\ io'.limit = io.limit /\ io'.saved = io.saved
      BY <1>2, <1>4 DEF FrameType
    <2>2. Low(io.k, ni) <= s /\ s + (TableBlocks - (io.left - 1)) <= io.ba + 1
      BY <1>1, <1>2, <1>3, FrameNat, AddressNat DEF WriteRoom
    <2> HIDE DEF s
    <2>3. WriteRoom(io', ni')
      BY <1>2, <1>3, <1>4, <2>1, <2>2, FrameNat DEF WriteRoom
    <2>4. pc' \in WriteCode /\ pc' # "range"
      BY <1>4 DEF WriteCode
    <2> QED BY <1>2, <1>4, <2>3, <2>4 DEF LayInv, LayOK
  <1>5. CASE ni' = SetState(ni, io.ba, BAD) /\ io' = [io EXCEPT !.ba = @ + 1] /\ pc' = "wErase"
    <2>1. SameAddresses(ni', ni)
      BY <1>2, <1>5, SetStateAddresses
    <2>2. WriteRoom(io', ni')
      BY <1>2, <1>3, <1>5, <2>1, Advance
    <2> QED BY <1>2, <1>5, <2>1, <2>2, SameLayout, WriteLay
  <1> QED BY <1>4, <1>5, Zenon DEF WriteProgram

LEMMA WriteOutOfRangeLay == ASSUME IInv, LayInv, WriteOutOfRange PROVE LayInv'
  BY DEF WriteOutOfRange, LayInv, LayOK, WriteCode, TableCode

LEMMA RangeEraseLay == ASSUME IInv, LayInv, RangeErase PROVE LayInv'
  <1>1. pc = "range" /\ UNCHANGED pc /\ io' = [io EXCEPT !.ba = Here + 1]
    BY Zenon DEF RangeErase
  <1>2. Layout(ni) /\ ni \in InstanceType /\ io \in FrameType /\ RangeRoom(io, ni)
    BY <1>1, LayEntry DEF TableCode
  <1>3. ni' = ni \/ ni' = SetState(ni, Here, BAD)
    BY Zenon DEF RangeErase
  <1>4. SameAddresses(ni', ni)
    BY <1>2, <1>3, SetStateAddresses DEF SameAddresses
  <1>5. RangeRoom(io', ni)
    <2>1. Here < io.limit
      BY DEF RangeErase
    <2>2. io.ba <= Here /\ Here + 1 \in Nat /\ Here \in Nat
      BY <1>1, <2>1, HereBounds DEF TableCode
    <2>3. /\ io'.ba = Here + 1 /\ io'.k = io.k /\ io'.limit = io.limit
          /\ io'.start = io.start /\ io'.saved = io.saved
      BY <1>1, <1>2 DEF FrameType
    <2> QED BY <1>2, <2>2, <2>3, AddressNat, FrameNat DEF RangeRoom
  <1> QED BY <1>1, <1>2, <1>4, <1>5, SameLayout DEF LayInv, LayOK, WriteCode

-----------------------------------------------------------------------------
(* The routines that write tables, from one call to the next.              *)

\* nmbm_rebuild_info_table.
LEMMA RebuildLay ==
  ASSUME NEW n \in InstanceType, MgmtStart <= n.mapping_blocks_top_ba, Rebuild(n)
  PROVE  LayInv'
  <1>1. /\ ni'.main_table_ba = 0 /\ ni'.backup_table_ba = 0
        /\ ni'.mapping_blocks_ba = n.mapping_blocks_top_ba
        /\ ni'.mapping_blocks_top_ba = n.mapping_blocks_top_ba
    BY DEF Rebuild, InstanceType
  <1>2. /\ io'.k = "rebuildMain" /\ io'.ba = MgmtStart /\ io'.limit = n.mapping_blocks_top_ba
        /\ io'.left = TableBlocks /\ pc' = "wErase"
    BY DEF Rebuild, WriteTable
  <1>3. Layout(ni')
    BY <1>1, AddressNat DEF Layout
  <1>4. WriteRoom(io', ni')
    BY <1>1, <1>2, AddressNat DEF WriteRoom, Low, High, TablesOf
  <1> QED BY <1>2, <1>3, <1>4, WriteLay

\* The top of the spare blocks is in the management area.
LEMMA TopArea ==
  ASSUME NEW n \in InstanceType, AreaOK(n)
  PROVE  MgmtStart <= n.mapping_blocks_top_ba /\ MgmtStart <= n.mapping_blocks_ba
         /\ (n.main_table_ba # 0 => MgmtStart <= n.main_table_ba)
         /\ n.mapping_blocks_top_ba < n.signature_ba
  BY AddressNat DEF AreaOK, Area

\* What is reserved starts at or behind ba and leaves room for a table.
LEMMA ReserveBounds ==
  ASSUME NEW st, NEW ba \in Nat, NEW top \in Nat, TryReserve(st, ba, top - TableBlocks) # NoBlock
  PROVE  LET next == TryReserve(st, ba, top - TableBlocks)
         IN  next \in Nat /\ ba <= next /\ next <= top
  <1> DEFINE next == TryReserve(st, ba, top - TableBlocks)
  <1>1. top - TableBlocks \in Int
    BY GeometryAssumption
  <1>2. next \in ba .. (top - TableBlocks) - 1
    BY <1>1, TryReserveType, Zenon
  <1> HIDE DEF next
  <1>3. next \in Nat /\ ba <= next /\ next <= top
    BY <1>2, GeometryAssumption
  <1> QED BY <1>3 DEF next

LEMMA RebuildMainLay == ASSUME IInv, LayInv, RebuildMain PROVE LayInv'
  <1>1. pc = "ret" /\ io.k = "rebuildMain"
    BY Zenon DEF RebuildMain, Returned
  <1>2. Layout(ni) /\ ni \in InstanceType /\ io \in FrameType /\ CallOK /\ WriteRoom(io, ni)
    BY <1>1, LayEntry DEF TableCode, WriteCode
  <1>3. CASE Returned("rebuildMain", TRUE)
    <2> DEFINE n == Clean([ni EXCEPT !.main_table_ba = io.start, !.mapping_blocks_ba = io.ba])
               next == TryReserve(n.block_state, io.ba, n.mapping_blocks_top_ba - TableBlocks)
    <2>1. n \in InstanceType
      BY <1>2 DEF InstanceType, Clean, FrameType
    <2>2. /\ n.main_table_ba = io.start /\ n.mapping_blocks_ba = io.ba
          /\ n.mapping_blocks_top_ba = ni.mapping_blocks_top_ba /\ n.backup_table_ba = 0
      BY <1>1, <1>2 DEF InstanceType, Clean, WriteRoom, TablesOf
    <2>3. io.left = 0
      BY <1>3 DEF Returned
    <2>4. MgmtStart <= io.start /\ io.start + TableBlocks <= io.ba /\ io.ba <= n.mapping_blocks_top_ba
      BY <1>1, <1>2, <2>2, <2>3, WrittenRoom DEF Low, High, WriteRoom
    <2>5. \/ TableReturn(n, TRUE)
          \/ /\ ni' = n /\ next # NoBlock
             /\ WriteTable("rebuildBackup", next, n.mapping_blocks_top_ba, io.ba)
      BY <1>3, <2>3, Zenon DEF RebuildMain, Returned
    <2> HIDE DEF n
    <2>6. Layout(n)
      BY <2>1, <2>2, <2>4, AddressNat DEF Layout
    <2>7. CASE TableReturn(n, TRUE)
      BY <1>2, <2>1, <2>6, <2>7, ReturnLay
    <2>8. CASE /\ ni' = n /\ next # NoBlock
               /\ WriteTable("rebuildBackup", next, n.mapping_blocks_top_ba, io.ba)
      <3>1. next \in Nat /\ io.ba <= next /\ next <= n.mapping_blocks_top_ba
        BY <1>2, <2>1, <2>8, AddressNat, FrameNat, ReserveBounds
      <3> HIDE DEF next
      <3>2. WriteRoom(io', n) /\ pc' = "wErase"
        BY <1>2, <2>1, <2>2, <2>4, <2>8, <3>1, AddressNat, FrameNat
        DEF WriteTable, WriteRoom, Low, High, TablesOf
      <3> QED BY <2>6, <2>8, <3>2, WriteLay
    <2> QED BY <2>5, <2>7, <2>8
  <1>4. CASE Returned("rebuildMain", FALSE)
    <2>1. TableReturn([ni EXCEPT !.protected = TRUE], FALSE)
      BY <1>4 DEF RebuildMain, Returned
    <2>2. [ni EXCEPT !.protected = TRUE] \in InstanceType /\ Layout([ni EXCEPT !.protected = TRUE])
      BY <1>2 DEF InstanceType, Layout
    <2> QED BY <1>2, <2>1, <2>2, ReturnLay
  <1> QED BY <1>3, <1>4 DEF RebuildMain

LEMMA RebuildBackupLay == ASSUME IInv, LayInv, RebuildBackup PROVE LayInv'
  <1>1. pc = "ret" /\ io.k = "rebuildBackup"
    BY Zenon DEF RebuildBackup, Returned
  <1>2. Layout(ni) /\ ni \in InstanceType /\ io \in FrameType /\ CallOK /\ WriteRoom(io, ni)
    BY <1>1, LayEntry DEF TableCode, WriteCode
  <1>3. CASE TableReturn(ni, TRUE)
    BY <1>2, <1>3, ReturnLay
  <1>4. CASE /\ Returned("rebuildBackup", TRUE)
             /\ ni' = [ni EXCEPT !.backup_table_ba = io.start, !.mapping_blocks_ba = io.ba]
             /\ EraseRange("rebuildErase", io.saved, io.start, 0)
    <2>1. /\ ni'.main_table_ba = ni.main_table_ba /\ ni'.backup_table_ba = io.start
          /\ ni'.mapping_blocks_ba = io.ba /\ ni'.mapping_blocks_top_ba = ni.mapping_blocks_top_ba
      BY <1>2, <1>4 DEF InstanceType
    <2>2. /\ ni.mapping_blocks_ba <= io.start /\ io.start + TableBlocks <= io.ba
          /\ io.ba <= ni.mapping_blocks_top_ba
      BY <1>1, <1>2, <1>4, WrittenRoom DEF Low, High, WriteRoom, Returned
    <2>3. pc' = "range" /\ io'.limit = io.start /\ io'.k = "rebuildErase" /\ io'.ba = io.saved
      BY <1>2, <1>4 DEF EraseRange, FrameType
    <2>4. Layout(ni')
      BY <1>1, <1>2, <2>1, <2>2, AddressNat, FrameNat DEF Layout, WriteRoom, TablesOf
    <2>5. ni.main_table_ba # 0 /\ ni.mapping_blocks_ba <= io.saved
      BY <1>1, <1>2 DEF WriteRoom, TablesOf
    <2>6. RangeRoom(io', ni')
      BY <1>2, <2>1, <2>2, <2>3, <2>5, AddressNat, FrameNat DEF RangeRoom, Layout
    <2> QED BY <2>3, <2>4, <2>6 DEF LayInv, LayOK, WriteCode
  <1> QED BY <1>3, <1>4 DEF RebuildBackup

LEMMA ErasedLay ==
  ASSUME IInv, LayInv, RebuildErased \/ RescueFrontErased PROVE LayInv'
  <1>1. pc = "range" /\ TableReturn(ni, TRUE)
    BY DEF RebuildErased, RescueFrontErased, RangeErased
  <1> QED BY <1>1, LayEntry, ReturnLay DEF TableCode

\* nmbm_rescue_single_info_table.
LEMMA RescueSingleLay ==
  ASSUME NEW n \in InstanceType, AreaOK(n), Layout(n), n.main_table_ba # 0,
         n.backup_table_ba = 0, RescueSingle(n)
  PROVE  LayInv'
  <1>1. /\ io'.k = "rescueFront" /\ io'.ba = MgmtStart /\ io'.limit = n.main_table_ba
        /\ io'.left = TableBlocks /\ pc' = "wErase" /\ ni' = n
    BY DEF RescueSingle, WriteTable
  <1>2. WriteRoom(io', ni')
    BY <1>1, AddressNat, TopArea DEF WriteRoom, Low, High, TablesOf
  <1> QED BY <1>1, <1>2, WriteLay

\* A temporary or second table is tried behind the tables.
LEMMA BehindLay ==
  ASSUME NEW n \in InstanceType, Layout(n), n.main_table_ba # 0, ni' = n,
         NEW k \in {"rescueBehind", "rescueTemp"}, n.backup_table_ba = 0 <=> k = "rescueBehind",
         NEW ba \in Nat, n.mapping_blocks_ba <= ba, ba <= n.mapping_blocks_top_ba,
         WriteTable(k, ba, n.mapping_blocks_top_ba, ba)
  PROVE  LayInv'
  <1>1. /\ io'.k = k /\ io'.ba = ba /\ io'.limit = n.mapping_blocks_top_ba
        /\ io'.left = TableBlocks /\ io'.saved = ba /\ pc' = "wErase"
    BY DEF WriteTable
  <1>2. WriteRoom(io', ni')
    BY <1>1, AddressNat DEF WriteRoom, Low, High, TablesOf
  <1> QED BY <1>1, <1>2, WriteLay

LEMMA BehindBounds ==
  ASSUME NEW n \in InstanceType, ReserveBehind(n) # NoBlock
  PROVE  /\ ReserveBehind(n) \in Nat /\ n.mapping_blocks_ba <= ReserveBehind(n)
         /\ ReserveBehind(n) <= n.mapping_blocks_top_ba
  BY AddressNat, ReserveBounds DEF ReserveBehind

LEMMA RescueFrontLay == ASSUME IInv, LayInv, RescueFront PROVE LayInv'
  <1>1. pc = "ret" /\ io.k = "rescueFront"
    BY Zenon DEF RescueFront, Returned
  <1>2. Layout(ni) /\ ni \in InstanceType /\ io \in FrameType /\ CallOK /\ WriteRoom(io, ni)
    BY <1>1, LayEntry DEF TableCode, WriteCode
  <1>3. ni.main_table_ba # 0 /\ ni.backup_table_ba = 0 /\ io.limit = ni.main_table_ba
    BY <1>1, <1>2 DEF WriteRoom, TablesOf, High
  <1>4. CASE /\ Returned("rescueFront", TRUE)
             /\ ni' = Clean([ni EXCEPT !.backup_table_ba = ni.main_table_ba,
                                       !.main_table_ba = io.start])
             /\ EraseRange("rescueFrontErase", io.ba, ni.main_table_ba, 0)
    <2>1. /\ ni'.main_table_ba = io.start /\ ni'.backup_table_ba = ni.main_table_ba
          /\ ni'.mapping_blocks_ba = ni.mapping_blocks_ba
          /\ ni'.mapping_blocks_top_ba = ni.mapping_blocks_top_ba
      BY <1>2, <1>4 DEF InstanceType, Clean
    <2>2. MgmtStart <= io.start /\ io.start + TableBlocks <= io.ba /\ io.ba <= ni.main_table_ba
      BY <1>1, <1>3, <1>4, WrittenRoom DEF Low, Returned
    <2>3. /\ pc' = "range" /\ io'.limit = ni.main_table_ba /\ io'.k = "rescueFrontErase"
          /\ io'.ba = io.ba
      BY <1>2, <1>4 DEF EraseRange, FrameType
    <2>4. Layout(ni')
      BY <1>2, <1>3, <2>1, <2>2, AddressNat, FrameNat DEF Layout
    <2>5. RangeRoom(io', ni')
      BY <1>2, <1>3, <2>1, <2>2, <2>3, AddressNat, FrameNat DEF RangeRoom, Layout
    <2> QED BY <2>3, <2>4, <2>5 DEF LayInv, LayOK, WriteCode
  <1>5. CASE TableReturn(ni, FALSE)
    BY <1>2, <1>5, ReturnLay
  <1>6. CASE /\ ReserveBehind(ni) # NoBlock /\ UNCHANGED ni
             /\ WriteTable("rescueBehind", ReserveBehind(ni), ni.mapping_blocks_top_ba,
                           ReserveBehind(ni))
    BY <1>2, <1>3, <1>6, BehindLay, BehindBounds
  <1> QED BY <1>4, <1>5, <1>6 DEF RescueFront

\* One block less is reserved and the table tried again.
LEMMA OneLessBounds ==
  ASSUME NEW n \in InstanceType, NEW f \in FrameType, WriteRoom(f, n),
         f.k \in {"rescueBehind", "rescueTemp"}, f.saved - 1 >= n.mapping_blocks_ba
  PROVE  /\ f.saved - 1 \in Nat /\ n.mapping_blocks_ba <= f.saved - 1
         /\ f.saved - 1 <= n.mapping_blocks_top_ba
  BY AddressNat, FrameNat DEF WriteRoom

LEMMA RescueBehindLay == ASSUME IInv, LayInv, RescueBehind PROVE LayInv'
  <1>1. pc = "ret" /\ io.k = "rescueBehind"
    BY Zenon DEF RescueBehind, Returned
  <1>2. Layout(ni) /\ ni \in InstanceType /\ io \in FrameType /\ CallOK /\ WriteRoom(io, ni)
    BY <1>1, LayEntry DEF TableCode, WriteCode
  <1>3. ni.main_table_ba # 0 /\ ni.backup_table_ba = 0 /\ io.limit = ni.mapping_blocks_top_ba
    BY <1>1, <1>2 DEF WriteRoom, TablesOf, High
  <1>4. CASE /\ Returned("rescueBehind", TRUE) /\ UNCHANGED ni
             /\ EraseRange("rescueBehindErase", ni.mapping_blocks_ba, io.start, io.ba)
    <2>1. /\ ni.mapping_blocks_ba <= io.start /\ io.start + TableBlocks <= io.ba
          /\ io.ba <= ni.mapping_blocks_top_ba
      BY <1>1, <1>3, <1>4, WrittenRoom DEF Low, Returned
    <2>2. /\ pc' = "range" /\ io'.limit = io.start /\ io'.start = io.start /\ io'.saved = io.ba
          /\ io'.k = "rescueBehindErase" /\ io'.ba = ni.mapping_blocks_ba
      BY <1>2, <1>4 DEF EraseRange, FrameType
    <2>3. RangeRoom(io', ni')
      BY <1>2, <1>3, <1>4, <2>1, <2>2, AddressNat, FrameNat DEF RangeRoom
    <2> QED BY <1>2, <1>4, <2>2, <2>3 DEF LayInv, LayOK, WriteCode
  <1>5. CASE TableReturn(ni, FALSE)
    BY <1>2, <1>5, ReturnLay
  <1>6. CASE /\ io.saved - 1 >= ni.mapping_blocks_ba /\ UNCHANGED ni
             /\ WriteTable("rescueBehind", io.saved - 1, ni.mapping_blocks_top_ba, io.saved - 1)
    BY <1>1, <1>2, <1>3, <1>6, BehindLay, OneLessBounds
  <1> QED BY <1>4, <1>5, <1>6 DEF RescueBehind

LEMMA RescueBehindErasedLay == ASSUME IInv, LayInv, RescueBehindErased PROVE LayInv'
  <1>1. pc = "range" /\ io.k = "rescueBehindErase"
    BY Zenon DEF RescueBehindErased, RangeErased
  <1>2. Layout(ni) /\ ni \in InstanceType /\ io \in FrameType /\ CallOK /\ RangeRoom(io, ni)
    BY <1>1, LayEntry DEF TableCode
  <1> DEFINE n == Clean([ni EXCEPT !.backup_table_ba = io.start, !.mapping_blocks_ba = io.saved])
  <1>3. n \in InstanceType
    BY <1>2 DEF InstanceType, FrameType, Clean
  <1>4. Layout(n)
    <2>1. /\ n.main_table_ba = ni.main_table_ba /\ n.backup_table_ba = io.start
          /\ n.mapping_blocks_ba = io.saved /\ n.mapping_blocks_top_ba = ni.mapping_blocks_top_ba
      BY <1>2 DEF InstanceType, Clean
    <2> HIDE DEF n
    <2> QED BY <1>1, <1>2, <2>1, AddressNat, FrameNat DEF Layout, RangeRoom
  <1> QED BY <1>2, <1>3, <1>4, ReturnLay DEF RescueBehindErased

\* nmbm_update_single_info_table.
LEMMA SingleMainLay == ASSUME IInv, LayInv, SingleMain PROVE LayInv'
  <1>1. pc = "ret" /\ io.k = "singleMain"
    BY Zenon DEF SingleMain, Returned
  <1>2. Layout(ni) /\ ni \in InstanceType /\ io \in FrameType /\ CallOK /\ WriteRoom(io, ni) /\ AreaOK(ni)
    BY <1>1, LayEntry DEF TableCode, WriteCode, IInv, Control
  <1>3. ni.backup_table_ba # 0 /\ io.limit = ni.backup_table_ba
    BY <1>1, <1>2 DEF WriteRoom, TablesOf, High
  <1> DEFINE n == Clean([ni EXCEPT !.main_table_ba = io.start])
             m == [ni EXCEPT !.main_table_ba = ni.backup_table_ba, !.backup_table_ba = 0]
  <1>4. CASE Returned("singleMain", TRUE) /\ TableReturn(n, TRUE)
    <2>1. n \in InstanceType
      BY <1>2 DEF InstanceType, FrameType, Clean
    <2>2. /\ n.main_table_ba = io.start /\ n.backup_table_ba = ni.backup_table_ba
          /\ n.mapping_blocks_ba = ni.mapping_blocks_ba
          /\ n.mapping_blocks_top_ba = ni.mapping_blocks_top_ba
      BY <1>2 DEF InstanceType, Clean
    <2>3. MgmtStart <= io.start /\ io.start + TableBlocks <= io.ba /\ io.ba <= ni.backup_table_ba
      BY <1>1, <1>3, <1>4, WrittenRoom DEF Low, Returned
    <2> HIDE DEF n
    <2>4. Layout(n)
      BY <1>2, <1>3, <2>2, <2>3, AddressNat, FrameNat DEF Layout
    <2> QED BY <1>2, <1>4, <2>1, <2>4, ReturnLay
  <1>5. CASE RescueSingle(m)
    <2>1. m \in InstanceType /\ AreaOK(m)
      BY <1>2, ZeroAddress DEF InstanceType, AreaOK, Area
    <2>2. /\ m.main_table_ba = ni.backup_table_ba /\ m.backup_table_ba = 0
          /\ m.mapping_blocks_ba = ni.mapping_blocks_ba
          /\ m.mapping_blocks_top_ba = ni.mapping_blocks_top_ba
      BY <1>2 DEF InstanceType
    <2> HIDE DEF m
    <2>3. Layout(m)
      BY <1>2, <1>3, <2>2 DEF Layout
    <2> QED BY <1>3, <1>5, <2>1, <2>2, <2>3, RescueSingleLay
  <1> QED BY <1>4, <1>5 DEF SingleMain

\* The backup table is given up: its place is spare again.
BackupLost(n) == [n EXCEPT !.mapping_blocks_ba = n.backup_table_ba, !.backup_table_ba = 0]

LEMMA BackupLostLay ==
  ASSUME NEW n \in InstanceType, Layout(n), AreaOK(n), n.backup_table_ba # 0
  PROVE  /\ BackupLost(n) \in InstanceType /\ Layout(BackupLost(n)) /\ AreaOK(BackupLost(n))
         /\ BackupLost(n).backup_table_ba = 0 /\ BackupLost(n).main_table_ba # 0
         /\ BackupLost(n).mapping_blocks_top_ba = n.mapping_blocks_top_ba
  <1> DEFINE m == BackupLost(n)
  <1>1. m \in InstanceType /\ AreaOK(m)
    BY ZeroAddress DEF BackupLost, InstanceType, AreaOK, Area
  <1>2. /\ m.main_table_ba = n.main_table_ba /\ m.backup_table_ba = 0
        /\ m.mapping_blocks_ba = n.backup_table_ba
        /\ m.mapping_blocks_top_ba = n.mapping_blocks_top_ba
    BY DEF BackupLost, InstanceType
  <1> HIDE DEF m
  <1>3. Layout(m) /\ m.main_table_ba # 0
    BY <1>2, AddressNat DEF Layout
  <1> QED BY <1>1, <1>2, <1>3 DEF m

\* The backup table has a new place.
BackupMoved(n, f) == Clean([n EXCEPT !.backup_table_ba = f.start, !.mapping_blocks_ba = f.ba])

LEMMA BackupMovedLay ==
  ASSUME IInv, LayInv, pc = "ret", io.k \in {"singleBackup", "onceBackup"}, io.left = 0
  PROVE  /\ BackupMoved(ni, io) \in InstanceType /\ Layout(BackupMoved(ni, io))
         /\ AreaOK(BackupMoved(ni, io))
         /\ BackupMoved(ni, io).backup_table_ba # 0
  <1>1. Layout(ni) /\ ni \in InstanceType /\ io \in FrameType /\ WriteRoom(io, ni)
        /\ AreaOK(ni) /\ FrameOK(io, ni)
    BY LayEntry DEF TableCode, WriteCode, IInv, Control
  <1>2. ni.backup_table_ba # 0 /\ io.limit = ni.mapping_blocks_top_ba
    BY <1>1 DEF WriteRoom, TablesOf, High
  <1>3. /\ ni.backup_table_ba <= io.start /\ io.start + TableBlocks <= io.ba
        /\ io.ba <= ni.mapping_blocks_top_ba
    BY <1>2, WrittenRoom DEF Low
  <1> DEFINE m == BackupMoved(ni, io)
  <1>4. m \in InstanceType /\ AreaOK(m)
    BY <1>1 DEF BackupMoved, InstanceType, FrameType, AreaOK, Area, FrameOK, Clean
  <1>5. /\ m.main_table_ba = ni.main_table_ba /\ m.backup_table_ba = io.start
        /\ m.mapping_blocks_ba = io.ba /\ m.mapping_blocks_top_ba = ni.mapping_blocks_top_ba
    BY <1>1 DEF BackupMoved, InstanceType, Clean
  <1> HIDE DEF m
  <1>6. Layout(m) /\ m.backup_table_ba # 0
    BY <1>1, <1>2, <1>3, <1>5, AddressNat, FrameNat DEF Layout
  <1> QED BY <1>4, <1>6 DEF m

LEMMA SingleBackupLay == ASSUME IInv, LayInv, SingleBackup PROVE LayInv'
  <1>1. pc = "ret" /\ io.k = "singleBackup"
    BY Zenon DEF SingleBackup, Returned
  <1>2. Layout(ni) /\ ni \in InstanceType /\ CallOK /\ WriteRoom(io, ni) /\ AreaOK(ni)
    BY <1>1, LayEntry DEF TableCode, WriteCode, IInv, Control
  <1>3. ni.backup_table_ba # 0
    BY <1>1, <1>2 DEF WriteRoom, TablesOf
  <1>4. CASE io.left = 0 /\ TableReturn(BackupMoved(ni, io), TRUE)
    BY <1>1, <1>2, <1>4, BackupMovedLay, ReturnLay
  <1>5. CASE TableReturn(BackupLost(ni), FALSE)
    BY <1>2, <1>3, <1>5, BackupLostLay, ReturnLay
  <1> QED BY <1>4, <1>5 DEF SingleBackup, Returned, BackupMoved, BackupLost

\* nmbm_rescue_main_info_table.
LEMMA BackupBecomesMainLay ==
  ASSUME CallOK, NEW n \in InstanceType, Layout(n), n.backup_table_ba # 0, BackupBecomesMain(n)
  PROVE  LayInv'
  <1> DEFINE m == [n EXCEPT !.main_table_ba = n.backup_table_ba, !.backup_table_ba = 0]
  <1>1. m \in InstanceType
    BY ZeroAddress DEF InstanceType
  <1>2. Layout(m)
    <2>1. /\ m.main_table_ba = n.backup_table_ba /\ m.backup_table_ba = 0
          /\ m.mapping_blocks_ba = n.mapping_blocks_ba
          /\ m.mapping_blocks_top_ba = n.mapping_blocks_top_ba
      BY DEF InstanceType
    <2> HIDE DEF m
    <2> QED BY <2>1 DEF Layout
  <1> QED BY <1>1, <1>2, ReturnLay DEF BackupBecomesMain

LEMMA RescueMainTempLay == ASSUME IInv, LayInv, RescueMainTemp PROVE LayInv'
  <1>1. pc = "ret" /\ io.k = "rescueTemp"
    BY Zenon DEF RescueMainTemp, Returned
  <1>2. Layout(ni) /\ ni \in InstanceType /\ io \in FrameType /\ CallOK /\ WriteRoom(io, ni) /\ AreaOK(ni)
    BY <1>1, LayEntry DEF TableCode, WriteCode, IInv, Control
  <1>3. ni.main_table_ba # 0 /\ ni.backup_table_ba # 0 /\ io.limit = ni.mapping_blocks_top_ba
    BY <1>1, <1>2 DEF WriteRoom, TablesOf, High
  <1>4. CASE /\ Returned("rescueTemp", TRUE) /\ ni' = [ni EXCEPT !.mapping_blocks_ba = io.ba]
             /\ WriteTable("rescueMain", MgmtStart, io.start, 0)
    <2>1. /\ ni'.main_table_ba = ni.main_table_ba /\ ni'.backup_table_ba = ni.backup_table_ba
          /\ ni'.mapping_blocks_ba = io.ba /\ ni'.mapping_blocks_top_ba = ni.mapping_blocks_top_ba
      BY <1>2, <1>4 DEF InstanceType
    <2>2. /\ ni.mapping_blocks_ba <= io.start /\ io.start + TableBlocks <= io.ba
          /\ io.ba <= ni.mapping_blocks_top_ba
      BY <1>1, <1>3, <1>4, WrittenRoom DEF Low, Returned
    <2>3. /\ pc' = "wErase" /\ io'.limit = io.start /\ io'.k = "rescueMain" /\ io'.ba = MgmtStart
          /\ io'.left = TableBlocks
      BY <1>4 DEF WriteTable
    <2>4. Layout(ni')
      BY <1>2, <1>3, <2>1, <2>2, AddressNat, FrameNat DEF Layout
    <2>5. WriteRoom(io', ni')
      BY <1>2, <1>3, <2>1, <2>2, <2>3, AddressNat, FrameNat, TopArea
      DEF WriteRoom, Low, High, TablesOf
    <2> QED BY <2>3, <2>4, <2>5, WriteLay
  <1>5. CASE BackupBecomesMain(ni)
    BY <1>2, <1>3, <1>5, BackupBecomesMainLay
  <1>6. CASE /\ io.saved - 1 >= ni.mapping_blocks_ba /\ UNCHANGED ni
             /\ WriteTable("rescueTemp", io.saved - 1, ni.mapping_blocks_top_ba, io.saved - 1)
    BY <1>1, <1>2, <1>3, <1>6, BehindLay, OneLessBounds
  <1> QED BY <1>4, <1>5, <1>6 DEF RescueMainTemp

LEMMA RescueMainMainLay == ASSUME IInv, LayInv, RescueMainMain PROVE LayInv'
  <1>1. pc = "ret" /\ io.k = "rescueMain"
    BY Zenon DEF RescueMainMain, Returned
  <1>2. Layout(ni) /\ ni \in InstanceType /\ io \in FrameType /\ CallOK /\ WriteRoom(io, ni)
    BY <1>1, LayEntry DEF TableCode, WriteCode
  <1>3. io.limit + TableBlocks <= ni.mapping_blocks_ba
    BY <1>1, <1>2 DEF WriteRoom
  <1> DEFINE n == Clean([ni EXCEPT !.main_table_ba = io.start, !.backup_table_ba = io.limit])
             m == Clean([ni EXCEPT !.main_table_ba = io.limit, !.backup_table_ba = 0])
  <1>4. n \in InstanceType /\ m \in InstanceType
    BY <1>2, ZeroAddress DEF InstanceType, FrameType, Clean
  <1>5. /\ n.main_table_ba = io.start /\ n.backup_table_ba = io.limit
        /\ n.mapping_blocks_ba = ni.mapping_blocks_ba
        /\ n.mapping_blocks_top_ba = ni.mapping_blocks_top_ba
        /\ m.main_table_ba = io.limit /\ m.backup_table_ba = 0
        /\ m.mapping_blocks_ba = ni.mapping_blocks_ba
        /\ m.mapping_blocks_top_ba = ni.mapping_blocks_top_ba
    BY <1>2 DEF InstanceType, Clean
  <1> HIDE DEF n, m
  <1>6. CASE io.left = 0 /\ TableReturn(n, TRUE)
    <2>1. MgmtStart <= io.start /\ io.start + TableBlocks <= io.ba /\ io.ba <= io.limit
      BY <1>1, <1>6, WrittenRoom DEF Low
    <2>2. Layout(n)
      BY <1>2, <1>3, <1>5, <2>1, AddressNat, FrameNat DEF Layout
    <2> QED BY <1>2, <1>4, <1>6, <2>2, ReturnLay
  <1>7. CASE TableReturn(m, TRUE)
    <2>1. Layout(m)
      BY <1>2, <1>3, <1>5, AddressNat, FrameNat DEF Layout
    <2> QED BY <1>2, <1>4, <1>7, <2>1, ReturnLay
  <1> QED BY <1>6, <1>7 DEF RescueMainMain, Returned, n, m

\* nmbm_update_info_table_once.
LEMMA WriteMainLay ==
  ASSUME NEW n \in InstanceType, AreaOK(n), Layout(n), NEW limit,
         limit = (IF n.backup_table_ba = 0 THEN n.mapping_blocks_top_ba ELSE n.backup_table_ba),
         WriteMain(n, limit)
  PROVE  LayInv'
  <1>1. CASE Rebuild(n)
    BY <1>1, TopArea, RebuildLay
  <1>2. CASE n.main_table_ba # 0 /\ ni' = n /\ WriteTable("onceMain", n.main_table_ba, limit, 0)
    <2>1. /\ io'.k = "onceMain" /\ io'.ba = n.main_table_ba /\ io'.limit = limit
          /\ io'.left = TableBlocks /\ pc' = "wErase"
      BY <1>2 DEF WriteTable
    <2>2. n.main_table_ba <= limit /\ MgmtStart <= n.main_table_ba
      BY <1>2, AddressNat, TopArea DEF Layout
    <2>3. WriteRoom(io', ni')
      BY <1>2, <2>1, <2>2, AddressNat DEF WriteRoom, Low, High, TablesOf
    <2> QED BY <1>2, <2>1, <2>3, WriteLay
  <1> QED BY <1>1, <1>2 DEF WriteMain

LEMMA UpdateOnceLay == ASSUME IInv, LayInv, UpdateOnce PROVE LayInv'
  <1> DEFINE n == GenerateCache(ni)
  <1>1. ni \in InstanceType /\ AreaOK(ni) /\ Layout(ni)
    BY DEF UpdateOnce, IInv, Control, LayInv, LayOK, ClientCode
  <1>2. n \in InstanceType /\ AreaOK(n)
    BY <1>1, GenerateCacheType, GenerateCacheArea
  <1>3. Layout(n)
    BY <1>1 DEF GenerateCache, InstanceType, Layout
  <1> HIDE DEF n
  <1>4. CASE n.backup_table_ba = 0 /\ WriteMain(n, n.mapping_blocks_top_ba)
    BY <1>2, <1>3, <1>4, WriteMainLay
  <1>5. CASE /\ n.backup_table_ba # 0 /\ ni' = n
             /\ WriteTable("onceBackup", n.backup_table_ba, n.mapping_blocks_top_ba, 0)
    <2>1. /\ io'.k = "onceBackup" /\ io'.ba = n.backup_table_ba
          /\ io'.limit = n.mapping_blocks_top_ba /\ io'.left = TableBlocks /\ pc' = "wErase"
      BY <1>5 DEF WriteTable
    <2>2. WriteRoom(io', ni')
      BY <1>2, <1>3, <1>5, <2>1, AddressNat DEF WriteRoom, Low, High, TablesOf, Layout
    <2> QED BY <1>3, <1>5, <2>1, <2>2, WriteLay
  <1> QED BY <1>4, <1>5 DEF UpdateOnce, n

LEMMA OnceBackupLay == ASSUME IInv, LayInv, OnceBackup PROVE LayInv'
  <1>1. pc = "ret" /\ io.k = "onceBackup"
    BY Zenon DEF OnceBackup, Returned
  <1>2. Layout(ni) /\ ni \in InstanceType /\ WriteRoom(io, ni) /\ AreaOK(ni)
    BY <1>1, LayEntry DEF TableCode, WriteCode, IInv, Control
  <1>3. ni.backup_table_ba # 0
    BY <1>1, <1>2 DEF WriteRoom, TablesOf
  <1> DEFINE n == BackupMoved(ni, io)
             m == BackupLost(ni)
  <1>4. CASE io.left = 0 /\ WriteMain(n, n.backup_table_ba)
    <2>1. n \in InstanceType /\ Layout(n) /\ AreaOK(n) /\ n.backup_table_ba # 0
      BY <1>1, <1>4, BackupMovedLay
    <2> HIDE DEF n
    <2> QED BY <1>4, <2>1, WriteMainLay
  <1>5. CASE WriteMain(m, m.mapping_blocks_top_ba)
    <2>1. m \in InstanceType /\ Layout(m) /\ AreaOK(m) /\ m.backup_table_ba = 0
      BY <1>2, <1>3, BackupLostLay
    <2> HIDE DEF m
    <2> QED BY <1>5, <2>1, WriteMainLay
  <1> QED BY <1>4, <1>5 DEF OnceBackup, Returned, BackupMoved, BackupLost

LEMMA OnceMainLay == ASSUME IInv, LayInv, OnceMain PROVE LayInv'
  <1>1. pc = "ret" /\ io.k = "onceMain"
    BY Zenon DEF OnceMain, Returned
  <1>2. Layout(ni) /\ ni \in InstanceType /\ io \in FrameType /\ CallOK /\ WriteRoom(io, ni) /\ AreaOK(ni)
    BY <1>1, LayEntry DEF TableCode, WriteCode, IInv, Control
  <1>3. ni.main_table_ba # 0
    BY <1>1, <1>2 DEF WriteRoom, TablesOf
  <1> DEFINE mb == IF ni.backup_table_ba = 0 THEN io.ba ELSE ni.mapping_blocks_ba
             n  == Clean([ni EXCEPT !.main_table_ba = io.start, !.mapping_blocks_ba = mb])
  <1>4. CASE io.left = 0 /\ TableReturn(n, TRUE)
    <2>1. MgmtStart <= io.start /\ io.start + TableBlocks <= io.ba /\ io.ba <= High("onceMain", ni)
      BY <1>1, <1>2, <1>4, WrittenRoom DEF Low, WriteRoom
    <2>2. mb \in Addresses
      BY <1>2 DEF InstanceType, FrameType
    <2>3. /\ io.start + TableBlocks <= mb /\ mb <= ni.mapping_blocks_top_ba
          /\ ni.backup_table_ba # 0 => /\ io.start + TableBlocks <= ni.backup_table_ba
                                       /\ mb = ni.mapping_blocks_ba
      BY <1>2, <2>1, AddressNat, FrameNat DEF High, Layout
    <2> HIDE DEF mb
    <2>4. n \in InstanceType
      BY <1>2, <2>2 DEF InstanceType, FrameType, Clean
    <2>5. /\ n.main_table_ba = io.start /\ n.backup_table_ba = ni.backup_table_ba
          /\ n.mapping_blocks_ba = mb /\ n.mapping_blocks_top_ba = ni.mapping_blocks_top_ba
      BY <1>2 DEF InstanceType, Clean
    <2> HIDE DEF n
    <2>6. Layout(n)
      BY <1>2, <2>1, <2>3, <2>4, <2>5, AddressNat, FrameNat DEF Layout
    <2> QED BY <1>2, <1>4, <2>4, <2>6, ReturnLay
  <1>5. CASE Rebuild(ni)
    BY <1>2, <1>5, TopArea, RebuildLay
  <1>6. CASE ni.backup_table_ba # 0 /\ RescueMain(ni)
    <2>1. CASE BackupBecomesMain(ni)
      BY <1>2, <1>6, <2>1, BackupBecomesMainLay
    <2>2. CASE /\ ReserveBehind(ni) # NoBlock /\ ni' = ni
               /\ WriteTable("rescueTemp", ReserveBehind(ni), ni.mapping_blocks_top_ba,
                             ReserveBehind(ni))
      BY <1>2, <1>3, <1>6, <2>2, BehindLay, BehindBounds
    <2> QED BY <1>6, <2>1, <2>2 DEF RescueMain
  <1> QED BY <1>4, <1>5, <1>6 DEF OnceMain, Returned

-----------------------------------------------------------------------------
(* nmbm_attach.                                                            *)

\* nmbm_create_info_table.
LEMMA CreateInfoTableLay ==
  ASSUME NEW n \in InstanceType, CreateInfoTable(n, n.signature_ba)
  PROVE  LayInv'
  <1> DEFINE top == WalkDesc(n.block_state, n.signature_ba, 1, MgmtStart)
             m == [n EXCEPT !.mapping_blocks_top_ba = top]
  <1>1. CASE pc' = "dead"
    BY <1>1 DEF LayInv, LayOK, TableCode, ClientCode, WriteCode
  <1>2. CASE top # NoBlock /\ Rebuild(GenerateCache(m))
    <2>1. n.signature_ba \in Blocks
      BY DEF InstanceType
    <2>2. top \in MgmtStart + 1 .. n.signature_ba - 1
      BY <1>2, <2>1, WalkDescPast, Zenon
    <2> HIDE DEF top
    <2>3. top \in Addresses /\ MgmtStart <= top
      BY <2>1, <2>2, GeometryAssumption DEF Addresses, Blocks
    <2>4. m \in InstanceType /\ m.mapping_blocks_top_ba = top
      BY <2>3 DEF InstanceType
    <2> HIDE DEF m
    <2>5. GenerateCache(m) \in InstanceType /\ GenerateCache(m).mapping_blocks_top_ba = top
      BY <2>4, GenerateCacheType DEF GenerateCache, InstanceType
    <2> QED BY <1>2, <2>3, <2>5, RebuildLay
  <1> QED BY <1>1, <1>2 DEF CreateInfoTable

LEMMA SignatureLay ==
  ASSUME IInv, LayInv, SignatureErase \/ SignatureProgram \/ AttachNew
  PROVE  LayInv'
  <1>1. CASE pc' \in {"sErase", "sProgram", "dead"}
    BY <1>1 DEF LayInv, LayOK, TableCode, ClientCode, WriteCode
  <1>2. CASE pc = "sProgram" /\ CreateInfoTable([ni EXCEPT !.signature_ba = io.ba], io.ba)
    <2> DEFINE n == [ni EXCEPT !.signature_ba = io.ba]
    <2>1. io.ba \in Blocks
      BY <1>2, GeometryAssumption DEF IInv, Control, Blocks
    <2>2. n \in InstanceType /\ n.signature_ba = io.ba
      BY <2>1 DEF IInv, InstanceType
    <2> HIDE DEF n
    <2>3. CreateInfoTable(n, n.signature_ba)
      BY <1>2, <2>2 DEF n
    <2> QED BY <2>2, <2>3, CreateInfoTableLay
  <1>3. SignatureErase => pc' \in {"sErase", "sProgram", "dead"}
    BY Zenon DEF SignatureErase
  <1>4. AttachNew => pc' \in {"sErase", "dead"}
    BY Zenon DEF AttachNew
  <1>5. SignatureProgram =>
          \/ pc' = "sErase"
          \/ pc = "sProgram" /\ CreateInfoTable([ni EXCEPT !.signature_ba = io.ba], io.ba)
    BY Zenon DEF SignatureProgram
  <1> QED BY <1>1, <1>2, <1>3, <1>4, <1>5

\* nmbm_load_existing without tables: what the new instance is built from.
LEMMA NoTableInstance ==
  ASSUME IInv, AttachNoTable
  PROVE  \E n \in InstanceType :
           \/ CreateInfoTable(ScanAndBuild(n), n.signature_ba)
           \/ /\ ni' = n /\ pc' = "dead"
              /\ n.block_mapping = [lb \in Logic |-> NoBlock]
  <1>1. PICK err \in ReadErrors, ecc \in BOOLEAN :
          LET failed == IF ecc THEN {} ELSE err
              sig == FindSignature(flash, physBad \cup err)
              n   == [NewInstance EXCEPT !.signature_ba = sig,
                     !.dirty = \E b \in MgmtStart .. sig - TableBlocks - 1 : b \in physBad \cup failed,
                     !.block_state =
                       [b \in Blocks |-> IF b \in MgmtStart .. sig - TableBlocks - 1
                                            /\ b \in physBad \cup failed
                                         THEN BAD ELSE GOOD]]
          IN  /\ sig # NoBlock
              /\ IF FCreate
                 THEN CreateInfoTable(ScanAndBuild(n), sig)
                 ELSE ni' = n /\ pc' = "dead" /\ UNCHANGED io
              /\ fails' = fails + Cardinality(err)
    BY Zenon DEF AttachNoTable
  <1> DEFINE failed == IF ecc THEN {} ELSE err
             sig == FindSignature(flash, physBad \cup err)
             d   == \E b \in MgmtStart .. sig - TableBlocks - 1 : b \in physBad \cup failed
             st  == [b \in Blocks |-> IF b \in MgmtStart .. sig - TableBlocks - 1
                                         /\ b \in physBad \cup failed
                                      THEN BAD ELSE GOOD]
             n   == [NewInstance EXCEPT !.signature_ba = sig, !.dirty = d, !.block_state = st]
  <1>2. sig \in Blocks
    BY <1>1, FindSignatureType, Zenon
  <1>3. CreateInfoTable(ScanAndBuild(n), sig) \/ (ni' = n /\ pc' = "dead")
    BY <1>1, Zenon
  <1>4. d \in BOOLEAN
    BY Zenon
  <1>5. st \in StateTables
    BY DEF StateTables, States
  <1> HIDE DEF sig, d, st
  <1>6. n \in InstanceType /\ n.signature_ba = sig
    BY <1>2, <1>4, <1>5, NewInstanceType DEF InstanceType
  <1>7. n.block_mapping = [lb \in Logic |-> NoBlock]
    BY DEF NewInstance
  <1> HIDE DEF n
  <1> QED BY <1>3, <1>6, <1>7

LEMMA AttachNoTableLay == ASSUME IInv, AttachNoTable PROVE LayInv'
  <1>1. PICK n \in InstanceType :
          CreateInfoTable(ScanAndBuild(n), n.signature_ba) \/ pc' = "dead"
    BY NoTableInstance
  <1>2. CASE CreateInfoTable(ScanAndBuild(n), n.signature_ba)
    BY <1>2, ScanAndBuildType, CreateInfoTableLay DEF IInv
  <1>3. CASE pc' = "dead"
    BY <1>3 DEF LayInv, LayOK, TableCode, ClientCode, WriteCode
  <1> QED BY <1>1, <1>2, <1>3

\* nmbm_load_info_table: where the addresses and the mapping come from.
LEMMA LoadedFields ==
  ASSUME NEW sig, NEW unusable, NEW b1, NEW b2
  PROVE  LET n  == LoadedInstance(sig, unusable, b1, b2)
             t1 == flash[b1].table
             t2 == flash[b2].table
             newer2 == b2 # NoBlock /\ t2.wc > t1.wc
         IN  /\ n.main_table_ba = b1
             /\ n.backup_table_ba = IF b2 = NoBlock THEN 0 ELSE b2
             /\ n.mapping_blocks_ba = (IF b2 = NoBlock THEN b1 ELSE b2) + TableBlocks
             /\ n.mapping_blocks_top_ba = IF newer2 THEN MappingTop(t2, b2 + TableBlocks, sig)
                                          ELSE MappingTop(t1, b1 + TableBlocks, sig)
             /\ n.block_mapping = IF newer2 THEN t2.map ELSE t1.map
  <1> DEFINE t1   == flash[b1].table
             end1 == b1 + TableBlocks
             t2   == flash[b2].table
             newer2 == b2 # NoBlock /\ t2.wc > t1.wc
             scanned == end1 .. (IF b2 = NoBlock THEN sig - TableBlocks ELSE b2) - 1
             found1 == {b \in MgmtStart .. b1 - 1 : b \in unusable}
             found2 == {b \in scanned : b \in unusable /\ t1.st[b] = GOOD}
             map  == IF newer2 THEN t2.map ELSE t1.map
             mapped == {lb \in Logic : map[lb] # NoBlock}
             backup == IF b2 = NoBlock THEN 0 ELSE b2
             st == IF newer2 THEN t2.st
                   ELSE [b \in Blocks |-> IF b \in found2 THEN BAD ELSE t1.st[b]]
             wc == IF newer2 THEN t2.wc ELSE t1.wc
             d  == found1 \cup found2 # {}
             top == IF newer2 THEN MappingTop(t2, b2 + TableBlocks, sig)
                    ELSE MappingTop(t1, end1, sig)
             mb == (IF b2 = NoBlock THEN b1 ELSE b2) + TableBlocks
             count == IF mapped = {} THEN MgmtStart ELSE Max(mapped) + 1
             m == [NewInstance EXCEPT
                     !.signature_ba = sig, !.main_table_ba = b1, !.backup_table_ba = backup,
                     !.block_state = st, !.block_mapping = map, !.write_count = wc, !.dirty = d,
                     !.mapping_blocks_top_ba = top, !.mapping_blocks_ba = mb,
                     !.data_block_count = count]
             n == LoadedInstance(sig, unusable, b1, b2)
  <1>1. n = GenerateCache(m)
    BY Zenon DEF LoadedInstance
  <1> HIDE DEF n, st, map, wc, d, count, top, mb, backup
  <1>2. /\ n.main_table_ba = b1 /\ n.backup_table_ba = backup /\ n.mapping_blocks_ba = mb
        /\ n.mapping_blocks_top_ba = top /\ n.block_mapping = map
    BY <1>1 DEF GenerateCache, NewInstance
  <1> QED BY <1>2, Zenon DEF n, map, top, mb, backup

\* The tables an attach finds, and the instance it starts from.
Found(err, sig, b1, b2, n) ==
  /\ sig = FindSignature(flash, physBad \cup err) /\ sig \in Blocks
  /\ b1 = FirstTable(flash, physBad \cup err, sig) /\ b1 # NoBlock
  /\ b1 \in MgmtStart .. (sig - TableBlocks) - 1 /\ flash[b1].table \in Tables
  /\ b2 = SecondTable(flash, physBad \cup err, sig, b1)
  /\ b2 # NoBlock => /\ b2 \in b1 + TableBlocks .. (sig - TableBlocks) - 1
                     /\ flash[b2].table \in Tables
  /\ \E marked : n = LoadedInstance(sig, marked, b1, b2)
  /\ n \in InstanceType /\ AreaOK(n)

LoadStep(b1, b2, n) ==
  \/ b2 = NoBlock /\ RescueSingle(n)
  \/ /\ b2 # NoBlock
     /\ UpdateSingle([n EXCEPT !.dirty = TRUE], flash[b1].table.wc < flash[b2].table.wc)
  \/ b2 # NoBlock /\ ni' = [n EXCEPT !.protected = NoUnmapped(n)] /\ pc' = "idle"

LEMMA FoundAt ==
  ASSUME IInv, NEW err, NEW sig, sig = FindSignature(flash, physBad \cup err), sig # NoBlock,
         NEW b1, b1 = FirstTable(flash, physBad \cup err, sig), b1 # NoBlock,
         NEW b2, b2 = SecondTable(flash, physBad \cup err, sig, b1),
         NEW n, NEW marked, n = LoadedInstance(sig, marked, b1, b2)
  PROVE  Found(err, sig, b1, b2, n)
  <1>1. sig \in Blocks
    BY FindSignatureType, Zenon
  <1>2. b1 \in MgmtStart .. (sig - TableBlocks) - 1 /\ flash[b1].table \in Tables
    BY <1>1, SearchTableType, GeometryAssumption DEF FirstTable, IInv
  <1>3. b2 # NoBlock => /\ b2 \in b1 + TableBlocks .. (sig - TableBlocks) - 1
                        /\ flash[b2].table \in Tables
    <2>1. b1 + TableBlocks \in Nat /\ MgmtStart <= b1 + TableBlocks
      BY <1>2, GeometryAssumption
    <2>2. Chip
      BY DEF IInv
    <2> QED BY <1>1, <2>1, <2>2, SearchTableType, Zenon DEF SecondTable
  <1>4. n \in InstanceType /\ AreaOK(n)
    <2>1. b2 = NoBlock \/ (b2 \in MgmtStart .. (sig - TableBlocks) - 1 /\ flash[b2].table \in Tables)
      BY <1>2, <1>3, GeometryAssumption
    <2> QED BY <1>1, <1>2, <2>1, LoadedInstanceType
  <1> QED BY <1>1, <1>2, <1>3, <1>4, Zenon DEF Found

LEMMA AttachFinds ==
  ASSUME IInv, AttachExisting
  PROVE  \E err \in ReadErrors : \E sig, b1, b2, n :
           Found(err, sig, b1, b2, n) /\ LoadStep(b1, b2, n)
  <1>1. PICK err \in ReadErrors, ecc \in BOOLEAN :
          LET failed == IF ecc THEN {} ELSE err
              sig == FindSignature(flash, physBad \cup err)
              b1  == FirstTable(flash, physBad \cup err, sig)
              b2  == SecondTable(flash, physBad \cup err, sig, b1)
              n   == LoadedInstance(sig, physBad \cup failed, b1, b2)
              wc1 == flash[b1].table.wc
              wc2 == flash[b2].table.wc
          IN  /\ sig # NoBlock /\ b1 # NoBlock
              /\ IF b2 = NoBlock
                 THEN RescueSingle(n)
                 ELSE IF wc1 # wc2
                 THEN UpdateSingle([n EXCEPT !.dirty = TRUE], wc1 < wc2)
                 ELSE /\ ni' = [n EXCEPT !.protected = NoUnmapped(n)]
                      /\ pc' = "idle" /\ UNCHANGED io
              /\ fails' = fails + Cardinality(err)
    BY Zenon DEF AttachExisting
  <1> DEFINE failed == IF ecc THEN {} ELSE err
             sig == FindSignature(flash, physBad \cup err)
             b1  == FirstTable(flash, physBad \cup err, sig)
             b2  == SecondTable(flash, physBad \cup err, sig, b1)
             n   == LoadedInstance(sig, physBad \cup failed, b1, b2)
  <1>2. sig # NoBlock /\ b1 # NoBlock
    BY <1>1, Zenon
  <1>3. \/ b2 = NoBlock /\ RescueSingle(n)
        \/ b2 # NoBlock /\ UpdateSingle([n EXCEPT !.dirty = TRUE],
                                        flash[b1].table.wc < flash[b2].table.wc)
        \/ b2 # NoBlock /\ ni' = [n EXCEPT !.protected = NoUnmapped(n)] /\ pc' = "idle"
    BY <1>1, Zenon
  <1>4. Found(err, sig, b1, b2, n)
    BY <1>2, FoundAt, Zenon
  <1> HIDE DEF sig, b1, b2, n
  <1> WITNESS err \in ReadErrors
  <1>5. LoadStep(b1, b2, n)
    BY <1>3, Zenon DEF LoadStep
  <1> QED BY <1>4, <1>5, Zenon

LEMMA LoadedLay ==
  ASSUME NEW err, NEW sig, NEW b1, NEW b2, NEW n, Found(err, sig, b1, b2, n),
         n.mapping_blocks_ba <= n.mapping_blocks_top_ba
  PROVE  Layout(n) /\ n.main_table_ba # 0 /\ (n.backup_table_ba = 0 <=> b2 = NoBlock)
  <1>1. /\ n.main_table_ba = b1 /\ n.backup_table_ba = IF b2 = NoBlock THEN 0 ELSE b2
        /\ n.mapping_blocks_ba = (IF b2 = NoBlock THEN b1 ELSE b2) + TableBlocks
    BY LoadedFields DEF Found
  <1>2. /\ b1 \in Nat /\ 1 <= b1 /\ sig \in Nat
        /\ b2 # NoBlock => b2 \in Nat /\ b1 + TableBlocks <= b2
    BY GeometryAssumption DEF Found, Blocks
  <1> QED BY <1>1, <1>2, GeometryAssumption DEF Layout

\* The steps of an attach from a well laid out instance.
LEMMA LoadStepLay ==
  ASSUME NEW n \in InstanceType, AreaOK(n), Layout(n), n.main_table_ba # 0, NEW b2,
         n.backup_table_ba = 0 <=> b2 = NoBlock, NEW b1, LoadStep(b1, b2, n)
  PROVE  LayInv'
  <1> DEFINE main == flash[b1].table.wc < flash[b2].table.wc
  <1>0. \/ b2 = NoBlock /\ RescueSingle(n)
        \/ b2 # NoBlock /\ UpdateSingle([n EXCEPT !.dirty = TRUE], main)
        \/ b2 # NoBlock /\ ni' = [n EXCEPT !.protected = NoUnmapped(n)] /\ pc' = "idle"
    BY Zenon DEF LoadStep
  <1> HIDE DEF main
  <1>1. CASE b2 = NoBlock /\ RescueSingle(n)
    BY <1>1, RescueSingleLay
  <1>2. CASE b2 # NoBlock /\ UpdateSingle([n EXCEPT !.dirty = TRUE], main)
    <2> DEFINE m == [n EXCEPT !.dirty = TRUE]
    <2>1. SameAddresses(m, n) /\ ni' = m
      BY <1>2 DEF SameAddresses, InstanceType, UpdateSingle
    <2>2. \/ WriteTable("singleMain", m.main_table_ba, m.backup_table_ba, 0)
          \/ WriteTable("singleBackup", m.backup_table_ba, m.mapping_blocks_top_ba, 0)
      BY <1>2, Zenon DEF UpdateSingle
    <2> HIDE DEF m
    <2>3. Layout(ni')
      BY <2>1, SameLayout
    <2>4. \/ WriteTable("singleMain", n.main_table_ba, n.backup_table_ba, 0)
          \/ WriteTable("singleBackup", n.backup_table_ba, n.mapping_blocks_top_ba, 0)
      BY <2>1, <2>2 DEF SameAddresses
    <2>5. /\ MgmtStart <= n.main_table_ba /\ n.main_table_ba <= n.backup_table_ba
          /\ n.backup_table_ba <= n.mapping_blocks_top_ba /\ n.backup_table_ba # 0
      BY <1>2, TopArea, AddressNat DEF Layout
    <2>6. WriteRoom(io', ni') /\ pc' = "wErase"
      BY <2>1, <2>4, <2>5, AddressNat
      DEF WriteTable, WriteRoom, Low, High, TablesOf, SameAddresses
    <2> QED BY <2>3, <2>6, WriteLay
  <1>3. CASE ni' = [n EXCEPT !.protected = NoUnmapped(n)] /\ pc' = "idle"
    <2>1. Layout(ni')
      BY <1>3 DEF Layout, InstanceType
    <2> QED BY <1>3, <2>1 DEF LayInv, LayOK, WriteCode
  <1> QED BY <1>0, <1>1, <1>2, <1>3

LEMMA AttachExistingLay == ASSUME IInv, LoadsFit, AttachExisting PROVE LayInv'
  <1>0. PICK err \in ReadErrors : \E sig, b1, b2, n :
           Found(err, sig, b1, b2, n) /\ LoadStep(b1, b2, n)
    BY AttachFinds
  <1>1. PICK sig, b1, b2, n :
           Found(err, sig, b1, b2, n) /\ LoadStep(b1, b2, n)
    BY <1>0
  <1>2. sig # NoBlock
    BY <1>1, GeometryAssumption DEF Found, Blocks, NoBlock
  <1>3. pc = "off"
    BY Zenon DEF AttachExisting
  <1>4. n.mapping_blocks_ba <= n.mapping_blocks_top_ba
    <2> DEFINE m == LoadedInstance(sig, physBad \cup err, b1, b2)
    <2>1. m.mapping_blocks_ba <= m.mapping_blocks_top_ba
      BY <1>1, <1>2, <1>3, Zenon DEF LoadsFit, Found
    <2>2. PICK marked : n = LoadedInstance(sig, marked, b1, b2)
      BY <1>1, Zenon DEF Found
    <2> DEFINE q == LoadedInstance(sig, marked, b1, b2)
               newer2 == b2 # NoBlock /\ flash[b2].table.wc > flash[b1].table.wc
               mb == (IF b2 = NoBlock THEN b1 ELSE b2) + TableBlocks
               top == IF newer2 THEN MappingTop(flash[b2].table, b2 + TableBlocks, sig)
                      ELSE MappingTop(flash[b1].table, b1 + TableBlocks, sig)
    <2>3. m.mapping_blocks_ba = mb /\ m.mapping_blocks_top_ba = top
      BY LoadedFields
    <2>4. q.mapping_blocks_ba = mb /\ q.mapping_blocks_top_ba = top
      BY LoadedFields
    <2> HIDE DEF m, q, mb, top
    <2>5. n = q
      BY <2>2 DEF q
    <2> QED BY <2>1, <2>3, <2>4, <2>5, Zenon
  <1>5. n \in InstanceType /\ AreaOK(n)
    BY <1>1 DEF Found
  <1>6. Layout(n) /\ n.main_table_ba # 0 /\ (n.backup_table_ba = 0 <=> b2 = NoBlock)
    BY <1>1, <1>4, LoadedLay
  <1> QED BY <1>1, <1>5, <1>6, LoadStepLay

-----------------------------------------------------------------------------
(* nmbm_map_block and the operations of the client.                        *)

\* The spare block nmbm_map_block takes.
LEMMA SpareForBounds ==
  ASSUME NEW n \in InstanceType, AreaOK(n), SpareFor(n) # NoBlock
  PROVE  SpareFor(n) \in n.mapping_blocks_ba + 1 .. n.mapping_blocks_top_ba
  <1>1. /\ n.mapping_blocks_top_ba \in Blocks /\ n.mapping_blocks_ba \in Nat
        /\ n.mapping_blocks_ba < BlockCount
    BY AreaBlocks, GeometryAssumption DEF AreaOK, Blocks, InstanceType
  <1>2. SpareFor(n) \in n.mapping_blocks_ba + 1 .. n.mapping_blocks_top_ba
        \/ n.mapping_blocks_ba >= BlockCount
    BY <1>1, WalkDescType, Zenon DEF SpareFor
  <1> QED BY <1>1, <1>2, GeometryAssumption

\* What the code outside the table routines does to an instance: it leaves the
\* tables where they are, and it empties the pool, unmaps a logic block or maps
\* one to a spare block.
Pooled(m, n) ==
  /\ m.mapping_blocks_top_ba = n.mapping_blocks_top_ba
     \/ m.mapping_blocks_top_ba = n.mapping_blocks_ba
  /\ m.block_mapping = n.block_mapping
     \/ \E lb \in Logic : m.block_mapping = [n.block_mapping EXCEPT ![lb] = NoBlock]

Mapped(m, n, lb, pb) ==
  /\ m.mapping_blocks_top_ba = n.mapping_blocks_top_ba - 1
  /\ m.block_mapping = [n.block_mapping EXCEPT ![lb] = pb]
  /\ pb \in n.mapping_blocks_ba + 1 .. n.mapping_blocks_top_ba

Adjusted(m, n) ==
  /\ m.mapping_blocks_ba = n.mapping_blocks_ba
  /\ m.main_table_ba = n.main_table_ba /\ m.backup_table_ba = n.backup_table_ba
  /\ \/ Pooled(m, n)
     \/ \E lb \in Logic, pb \in Blocks : Mapped(m, n, lb, pb)

LEMMA AdjustedSame ==
  ASSUME NEW m, NEW n, SameAddresses(m, n), m.block_mapping = n.block_mapping
  PROVE  Adjusted(m, n)
  BY DEF SameAddresses, Adjusted, Pooled

LEMMA AdjustedUnmap ==
  ASSUME NEW m, NEW n, NEW k, SameAddresses(k, n) \/ k = [n EXCEPT !.mapping_blocks_top_ba = n.mapping_blocks_ba],
         n \in InstanceType, k \in InstanceType, k.block_mapping = n.block_mapping,
         NEW lb \in Logic, NEW pb,
         m = Retire([k EXCEPT !.block_mapping[lb] = NoBlock], pb)
  PROVE  Adjusted(m, n)
  <1>1. /\ m.mapping_blocks_ba = k.mapping_blocks_ba
        /\ m.mapping_blocks_top_ba = k.mapping_blocks_top_ba
        /\ m.main_table_ba = k.main_table_ba /\ m.backup_table_ba = k.backup_table_ba
        /\ m.block_mapping = [n.block_mapping EXCEPT ![lb] = NoBlock]
    BY DEF Retire, SetState, InstanceType
  <1>2. /\ k.mapping_blocks_ba = n.mapping_blocks_ba
        /\ k.mapping_blocks_top_ba = n.mapping_blocks_top_ba
           \/ k.mapping_blocks_top_ba = n.mapping_blocks_ba
        /\ k.main_table_ba = n.main_table_ba /\ k.backup_table_ba = n.backup_table_ba
    BY DEF SameAddresses, InstanceType
  <1>3. Pooled(m, n)
    BY <1>1, <1>2 DEF Pooled
  <1> QED BY <1>1, <1>2, <1>3 DEF Adjusted

LEMMA AdjustedMap ==
  ASSUME NEW n \in InstanceType, AreaOK(n), NEW lb \in Logic, NEW k \in InstanceType,
         k = n \/ k = SetState(n, n.block_mapping[lb], BAD), SpareFor(k) # NoBlock, NEW m,
         /\ m.mapping_blocks_ba = k.mapping_blocks_ba
         /\ m.mapping_blocks_top_ba = k.mapping_blocks_top_ba - 1
         /\ m.main_table_ba = k.main_table_ba /\ m.backup_table_ba = k.backup_table_ba
         /\ m.block_mapping = [k.block_mapping EXCEPT ![lb] = SpareFor(k)]
  PROVE  Adjusted(m, n)
  <1> DEFINE pb == SpareFor(k)
  <1>1. SameAddresses(k, n) /\ k.block_mapping = n.block_mapping /\ AreaOK(k)
    <2>1. SameAddresses(k, n) /\ k.signature_ba = n.signature_ba
      BY DEF SameAddresses, SetState, InstanceType
    <2>2. k.block_mapping = n.block_mapping
      BY DEF SetState, InstanceType
    <2> QED BY <2>1, <2>2 DEF SameAddresses, AreaOK, Area
  <1>2. pb \in n.mapping_blocks_ba + 1 .. n.mapping_blocks_top_ba
    BY <1>1, SpareForBounds DEF SameAddresses
  <1>3. n.mapping_blocks_ba < n.mapping_blocks_top_ba /\ pb \in Blocks
        /\ n.mapping_blocks_top_ba \in Blocks
    BY <1>2, AddressNat, AreaBlocks, GeometryAssumption DEF AreaOK, Area, InstanceType, Blocks
  <1> HIDE DEF pb
  <1>5. m.block_mapping = [n.block_mapping EXCEPT ![lb] = pb]
    BY <1>1 DEF pb
  <1>6. Mapped(m, n, lb, pb)
    BY <1>1, <1>2, <1>5 DEF Mapped, SameAddresses
  <1> QED BY <1>1, <1>3, <1>6 DEF Adjusted, SameAddresses

ClientMove ==
  /\ pc \in ClientCode /\ pc' \in ClientCode
  /\ Adjusted(ni', ni)
  /\ pc \in {"createMap", "eraseTry"} \/ Pooled(ni', ni)

LEMMA MoveSame ==
  ASSUME pc \in ClientCode, pc' \in ClientCode, SameAddresses(ni', ni),
         ni'.block_mapping = ni.block_mapping
  PROVE  ClientMove
  BY AdjustedSame DEF ClientMove, Pooled, SameAddresses

LEMMA CreateMapMove == ASSUME IInv, CreateMap PROVE ClientMove
  <1> DEFINE lb == ni.data_block_count
             pb == SpareFor(ni)
             m  == [MapTo(ni, lb, pb) EXCEPT !.data_block_count = lb + 1]
  <1>1. pc = "createMap" /\ ni \in InstanceType /\ AreaOK(ni)
    BY ClientState DEF CreateMap, ClientCode
  <1>2. \/ ni' = ni /\ pc' = "update"
        \/ lb < MgmtStart /\ pb # NoBlock /\ ni' = m /\ pc' = pc
    <2>1. lb \in Nat /\ MgmtStart \in Nat
      BY <1>1, GeometryAssumption DEF InstanceType
    <2>2. \/ ni' = ni /\ pc' = "update"
          \/ ~ (lb >= MgmtStart) /\ pb # NoBlock /\ ni' = m /\ pc' = pc
      BY Zenon DEF CreateMap, UpdateInfoTable
    <2> QED BY <2>1, <2>2
  <1>3. CASE ni' = ni /\ pc' = "update"
    BY <1>1, <1>3, MoveSame DEF ClientCode, SameAddresses
  <1>4. CASE lb < MgmtStart /\ pb # NoBlock /\ ni' = m /\ pc' = pc
    <2>1. lb \in Logic
      BY <1>1, <1>4, GeometryAssumption DEF InstanceType, Logic
    <2>2. /\ m.mapping_blocks_ba = ni.mapping_blocks_ba
          /\ m.mapping_blocks_top_ba = ni.mapping_blocks_top_ba - 1
          /\ m.main_table_ba = ni.main_table_ba /\ m.backup_table_ba = ni.backup_table_ba
          /\ m.block_mapping = [ni.block_mapping EXCEPT ![lb] = pb]
      BY <1>1 DEF MapTo, InstanceType
    <2> HIDE DEF m, lb
    <2>3. Adjusted(m, ni)
      BY <1>1, <1>4, <2>1, <2>2, AdjustedMap
    <2> QED BY <1>1, <1>4, <2>3 DEF ClientMove, ClientCode
  <1> QED BY <1>2, <1>3, <1>4

LEMMA RemapMove ==
  ASSUME IInv, pc = "eraseTry", NEW lb \in Logic, NEW pb \in Blocks, pb = ni.block_mapping[lb],
         NEW k \in InstanceType, k = ni \/ k = SetState(ni, pb, BAD), RemapLogicBlock(k, lb, pb)
  PROVE  ClientMove
  <1>1. ni \in InstanceType /\ AreaOK(ni)
    BY ClientState DEF ClientCode
  <1>2. SameAddresses(k, ni) /\ k.block_mapping = ni.block_mapping
    BY <1>1 DEF SameAddresses, SetState, InstanceType
  <1> DEFINE u == Retire([k EXCEPT !.block_mapping[lb] = NoBlock], pb)
             m == Retire(MapTo(k, lb, SpareFor(k)), pb)
  <1>3. /\ pc' = "update"
        /\ \/ ni' = u
           \/ ni' = k
           \/ SpareFor(k) # NoBlock /\ ni' = m
    BY Zenon DEF RemapLogicBlock, EraseUnusable, UpdateInfoTable
  <1>4. CASE ni' = u
    <2>1. Adjusted(u, ni)
      BY <1>1, <1>2, AdjustedUnmap
    <2> QED BY <1>3, <1>4, <2>1 DEF ClientMove, ClientCode
  <1>5. CASE ni' = k
    BY <1>2, <1>3, <1>5, MoveSame DEF ClientCode
  <1>6. CASE SpareFor(k) # NoBlock /\ ni' = m
    <2>1. /\ m.mapping_blocks_ba = k.mapping_blocks_ba
          /\ m.mapping_blocks_top_ba = k.mapping_blocks_top_ba - 1
          /\ m.main_table_ba = k.main_table_ba /\ m.backup_table_ba = k.backup_table_ba
          /\ m.block_mapping = [k.block_mapping EXCEPT ![lb] = SpareFor(k)]
      BY DEF Retire, SetState, MapTo, InstanceType
    <2> HIDE DEF m
    <2>2. Adjusted(m, ni)
      BY <1>1, <1>6, <2>1, AdjustedMap
    <2> QED BY <1>3, <1>6, <2>2 DEF ClientMove, ClientCode
  <1> QED BY <1>3, <1>4, <1>5, <1>6

LEMMA EraseTryMove == ASSUME IInv, EraseTry PROVE ClientMove
  <1> DEFINE pb == ni.block_mapping[call.lb]
  <1>1. pc = "eraseTry" /\ ni \in InstanceType /\ call.lb \in Logic
    BY DEF IInv, CallOK, CallType, EraseTry
  <1>2. pb # NoBlock => pb \in Blocks
    BY <1>1 DEF InstanceType, MappingTables
  <1>3. \/ pc' = "idle" /\ UNCHANGED ni
        \/ pb # NoBlock /\ RemapLogicBlock(ni, call.lb, pb)
        \/ pb # NoBlock /\ RemapLogicBlock(SetState(ni, pb, BAD), call.lb, pb)
    BY Zenon DEF EraseTry
  <1>4. pb # NoBlock => SetState(ni, pb, BAD) \in InstanceType
    BY <1>1, <1>2, SetStateType DEF States
  <1> HIDE DEF pb
  <1>5. CASE pc' = "idle" /\ UNCHANGED ni
    BY <1>1, <1>5, MoveSame DEF ClientCode, SameAddresses
  <1>6. CASE pb # NoBlock /\ RemapLogicBlock(ni, call.lb, pb)
    BY <1>1, <1>2, <1>6, RemapMove DEF pb
  <1>7. CASE pb # NoBlock /\ RemapLogicBlock(SetState(ni, pb, BAD), call.lb, pb)
    BY <1>1, <1>2, <1>4, <1>7, RemapMove DEF pb
  <1> QED BY <1>3, <1>5, <1>6, <1>7

LEMMA PoolMove ==
  ASSUME IInv, CreateMapFail \/ EraseMapFail \/ Detach \/ UpdateReturn
  PROVE  ClientMove
  <1>1. ni \in InstanceType /\ CallOK
    BY DEF IInv
  <1> DEFINE n == [ni EXCEPT !.mapping_blocks_top_ba = ni.mapping_blocks_ba]
  <1>2. /\ n.mapping_blocks_ba = ni.mapping_blocks_ba /\ n \in InstanceType
        /\ n.mapping_blocks_top_ba = ni.mapping_blocks_ba
        /\ n.main_table_ba = ni.main_table_ba /\ n.backup_table_ba = ni.backup_table_ba
        /\ n.block_mapping = ni.block_mapping
    BY <1>1 DEF InstanceType
  <1>3. CASE CreateMapFail
    <2>1. pc = "createMapFail" /\ pc' = "update" /\ ni' = n
      BY <1>3, Zenon DEF CreateMapFail, UpdateInfoTable
    <2> HIDE DEF n
    <2> QED BY <1>2, <2>1 DEF ClientMove, ClientCode, Adjusted, Pooled
  <1>4. CASE EraseMapFail
    <2> DEFINE m == Retire([n EXCEPT !.block_mapping[call.lb] = NoBlock], call.pb)
    <2>1. pc = "eraseMapFail" /\ pc' = "update" /\ ni' = m
      BY <1>4, Zenon DEF EraseMapFail, EraseUnusable, UpdateInfoTable
    <2>2. call.lb \in Logic
      BY <1>1 DEF CallOK, CallType
    <2>3. Adjusted(m, ni)
      BY <1>1, <1>2, <2>2, AdjustedUnmap
    <2>4. Pooled(m, ni)
      BY <1>2, <2>2 DEF Pooled, Retire, SetState, InstanceType
    <2> HIDE DEF m
    <2> QED BY <2>1, <2>3, <2>4 DEF ClientMove, ClientCode
  <1>5. CASE Detach
    <2>1. pc = "idle" /\ pc' = "update" /\ ni' = ni
      BY <1>5, Zenon DEF Detach, UpdateInfoTable
    <2> QED BY <2>1, MoveSame DEF ClientCode, SameAddresses
  <1>6. CASE UpdateReturn
    <2>1. pc = "update" /\ ni' = ni /\ pc' = IF call.then = "attached" THEN "idle" ELSE call.then
      BY <1>6, Zenon DEF UpdateReturn
    <2>2. call.then # "none" /\ call \in CallType
      BY <2>1 DEF IInv, Control, CallOK
    <2>3. pc' \in ClientCode
      BY <2>1, <2>2 DEF CallType, ClientCode
    <2> QED BY <2>1, <2>3, MoveSame DEF ClientCode, SameAddresses
  <1> QED BY <1>3, <1>4, <1>5, <1>6

LEMMA RequestMove ==
  ASSUME IInv, NEW lb \in Logic, Erase(lb) \/ ReadFails(lb) \/ Write(lb) \/ MarkBad(lb)
  PROVE  ClientMove
  <1> DEFINE pb == ni.block_mapping[lb]
             u  == [ni EXCEPT !.block_mapping[lb] = NoBlock]
             m  == SetState(u, pb, BAD)
             r  == SetState(ni, pb, NEED_REMAP)
  <1>1. ni \in InstanceType /\ pc = "idle"
    BY DEF IInv, Erase, ReadFails, Write, MarkBad, Request
  <1>2. /\ pc' \in {"idle", "eraseTry", "update"}
        /\ ni' = ni \/ ni' = r \/ ni' = m
    <2>1. CASE Erase(lb)
      BY <2>1, Zenon DEF Erase
    <2>2. CASE ReadFails(lb)
      BY <2>2, Zenon DEF ReadFails, UpdateInfoTable
    <2>3. CASE Write(lb)
      <3>1. \/ UNCHANGED <<ni, pc>>
            \/ UpdateInfoTable(r, lb, pb, "idle")
        BY <2>3, Zenon DEF Write
      <3> QED BY <1>1, <3>1, Zenon DEF UpdateInfoTable
    <2>4. CASE MarkBad(lb)
      BY <2>4, Zenon DEF MarkBad, UpdateInfoTable
    <2> QED BY <2>1, <2>2, <2>3, <2>4
  <1>3. SameAddresses(r, ni) /\ r.block_mapping = ni.block_mapping
    BY <1>1 DEF SameAddresses, SetState, InstanceType
  <1>4. SameAddresses(m, ni) /\ m.block_mapping = [ni.block_mapping EXCEPT ![lb] = NoBlock]
    BY <1>1 DEF SameAddresses, SetState, InstanceType
  <1> HIDE DEF m, r
  <1>5. CASE ni' = ni
    BY <1>1, <1>2, <1>5, MoveSame DEF ClientCode, SameAddresses
  <1>6. CASE ni' = r
    BY <1>1, <1>2, <1>3, <1>6, MoveSame DEF ClientCode
  <1>7. CASE ni' = m
    <2>1. Pooled(m, ni)
      BY <1>4 DEF Pooled, SameAddresses
    <2>2. Adjusted(m, ni)
      BY <1>4, <2>1 DEF Adjusted, SameAddresses
    <2> QED BY <1>1, <1>2, <1>7, <2>1, <2>2 DEF ClientMove, ClientCode
  <1> QED BY <1>2, <1>5, <1>6, <1>7

\* The order of the addresses survives all of it.
LEMMA MoveLay == ASSUME IInv, LayInv, ClientMove PROVE LayInv'
  <1>1. ni \in InstanceType /\ Layout(ni)
    BY DEF IInv, LayInv, LayOK, ClientMove
  <1>2. /\ ni'.mapping_blocks_ba = ni.mapping_blocks_ba
        /\ ni'.main_table_ba = ni.main_table_ba /\ ni'.backup_table_ba = ni.backup_table_ba
    BY DEF ClientMove, Adjusted
  <1>3. ni'.mapping_blocks_ba <= ni'.mapping_blocks_top_ba
    <2>1. CASE Pooled(ni', ni)
      BY <1>1, <1>2, <2>1, AddressNat DEF Pooled, Layout
    <2>2. ASSUME NEW lb \in Logic, NEW pb \in Blocks, Mapped(ni', ni, lb, pb)
          PROVE  ni'.mapping_blocks_ba <= ni'.mapping_blocks_top_ba
      BY <1>1, <1>2, <2>2, AddressNat DEF Mapped
    <2> QED BY <2>1, <2>2 DEF ClientMove, Adjusted
  <1>4. Layout(ni')
    BY <1>1, <1>2, <1>3 DEF Layout
  <1> QED BY <1>4 DEF LayInv, LayOK, ClientMove, ClientCode, WriteCode

LEMMA PowerOffLay == ASSUME PowerOff PROVE LayInv'
  BY DEF PowerOff, LayInv, LayOK, TableCode, ClientCode, WriteCode

LEMMA InitLay == Init => LayInv
  BY DEF Init, LayInv, LayOK, TableCode, ClientCode, WriteCode

LEMMA TableStepLay == ASSUME IInv, LayInv, TableStep PROVE LayInv'
  <1>1. CASE \/ WriteErase \/ WriteProgram \/ WriteOutOfRange \/ RangeErase
             \/ SignatureErase \/ SignatureProgram
    BY <1>1, WriteEraseLay, WriteProgramLay, WriteOutOfRangeLay, RangeEraseLay, SignatureLay
  <1>2. CASE \/ RebuildMain \/ RebuildBackup \/ RebuildErased \/ RescueFront \/ RescueFrontErased
             \/ RescueBehind \/ RescueBehindErased \/ SingleMain \/ SingleBackup
    BY <1>2, RebuildMainLay, RebuildBackupLay, ErasedLay, RescueFrontLay, RescueBehindLay,
       RescueBehindErasedLay, SingleMainLay, SingleBackupLay
  <1>3. CASE RescueMainTemp \/ RescueMainMain \/ UpdateOnce \/ OnceBackup \/ OnceMain
    BY <1>3, RescueMainTempLay, RescueMainMainLay, UpdateOnceLay, OnceBackupLay, OnceMainLay
  <1>4. CASE UpdateReturn \/ CreateMap \/ CreateMapFail
    BY <1>4, PoolMove, CreateMapMove, MoveLay
  <1> QED BY <1>1, <1>2, <1>3, <1>4 DEF TableStep

LEMMA NextLay == IInv /\ LayInv /\ LoadsFit /\ [Next]_vars => LayInv'
  <1> SUFFICES ASSUME IInv, LayInv, LoadsFit, [Next]_vars PROVE LayInv'
    OBVIOUS
  <1>1. CASE Attach
    BY <1>1, SignatureLay, AttachNoTableLay, AttachExistingLay DEF Attach
  <1>2. CASE TableStep
    BY <1>2, TableStepLay
  <1>3. CASE EraseTry \/ EraseMapFail
    BY <1>3, EraseTryMove, PoolMove, MoveLay
  <1>4. CASE ClientStep
    BY <1>4, RequestMove, PoolMove, MoveLay DEF ClientStep
  <1>5. CASE Detached \/ Crash
    BY <1>5, PowerOffLay DEF Detached, Crash
  <1>6. CASE UNCHANGED vars
    BY <1>6 DEF vars, LayInv
  <1> QED BY <1>1, <1>2, <1>3, <1>4, <1>5, <1>6 DEF Next, Step

LEMMA LayTables == IInv /\ LayInv => TableLayout
  <1> SUFFICES ASSUME IInv, LayInv, Attached PROVE TableLayout
    BY DEF TableLayout
  <1>1. pc \in TableCode \cup ClientCode /\ ni \in InstanceType
    BY DEF IInv, Control, Attached, Labels, TableCode, ClientCode
  <1>2. AreaOK(ni) /\ Layout(ni)
    BY <1>1 DEF IInv, Control, LayInv, LayOK
  <1> QED BY <1>1, <1>2, AddressNat DEF TableLayout, AreaOK, Area, Layout

-----------------------------------------------------------------------------
(* The second inductive invariant: the mapping, in the instance and in     *)
(* every table chunk on the chip.                                          *)

Inj(map) ==
  \A l1, l2 \in Logic : l1 # l2 /\ map[l1] # NoBlock => map[l1] # map[l2]

\* The management blocks of a mapping lie above address a.
Above(map, a) == \A lb \in Logic : map[lb] \in MgmtBlocks => map[lb] > a

DataOnly(map) == \A lb \in Logic : map[lb] \notin MgmtBlocks

MapOK(p, n) ==
  /\ Inj(n.block_mapping)
  /\ p \in TableCode \cup ClientCode => Above(n.block_mapping, n.mapping_blocks_top_ba)
  /\ p \in {"sErase", "sProgram"} => DataOnly(n.block_mapping)

\* A table stands below the blocks it maps, with one block to spare.
TablesOK(fl) ==
  \A b \in Blocks :
    IsTable(fl[b]) => Inj(fl[b].table.map) /\ Above(fl[b].table.map, b + 1)

MapInv == MapOK(pc, ni) /\ TablesOK(flash)

\* What is shown of every action.
MapStep == (~Skips => MapInv') /\ OwnDataStep

-----------------------------------------------------------------------------
(* Contents of blocks.                                                     *)

\* No step but a program of nmbm_write_mgmt_range makes a table chunk.
LEMMA NoNewTables ==
  ASSUME TablesOK(flash), \A b \in Blocks : flash'[b] = flash[b] \/ ~IsTable(flash'[b])
  PROVE  TablesOK(flash)'
  BY Zenon DEF TablesOK

LEMMA NotTables == ~IsTable(Blank) /\ ~IsTable(Garbage) /\ ~IsTable(Sig) /\ \A lb : ~IsTable(Data(lb))
  BY DEF IsTable, Blank, Garbage, Sig, Data

LEMMA EraseTables ==
  ASSUME Chip, NEW c \in Blocks, ErasePhys(c) \/ ErasePhysFails(c)
  PROVE  \A b \in Blocks : flash'[b] = flash[b] \/ ~IsTable(flash'[b])
  <1>1. \A b \in Blocks : flash'[b] = flash[b] \/ flash'[b] = Blank
    BY DEF Chip, ErasePhys, ErasePhysFails, BlockFails
  <1> QED BY <1>1, NotTables

LEMMA FailTables ==
  ASSUME Chip, NEW c \in Blocks, BlockFails(c, {Blank, Sig})
  PROVE  \A b \in Blocks : /\ flash'[b] = flash[b] \/ ~IsTable(flash'[b])
                           /\ flash'[b] # flash[b] => b = c
  <1>1. \A b \in Blocks : flash'[b] = flash[b] \/ (b = c /\ flash'[b] \in {Blank, Sig})
    BY DEF Chip, BlockFails
  <1> QED BY <1>1, NotTables

\* A change of a block that no logic block is mapped to.
LEMMA UnmappedChange ==
  ASSUME NEW c, \A b \in Blocks : flash'[b] # flash[b] => b = c, ni \in InstanceType,
         \A lb \in Logic : ni.block_mapping[lb] # c
  PROVE  OwnDataStep
  <1>1. \A lb \in Logic : ni.block_mapping[lb] # NoBlock => ni.block_mapping[lb] \in Blocks
    BY DEF InstanceType, MappingTables
  <1> QED BY <1>1, Zenon DEF OwnDataStep

LEMMA NoChange == ASSUME UNCHANGED flash PROVE OwnDataStep
  BY Zenon DEF OwnDataStep

-----------------------------------------------------------------------------
(* The routines that write tables leave the mapping and its top alone.     *)

KeptBy(m, n) ==
  m.block_mapping = n.block_mapping /\ m.mapping_blocks_top_ba = n.mapping_blocks_top_ba

Routine ==
  /\ KeptBy(ni', ni) /\ pc \in TableCode \cup ClientCode /\ pc' \notin {"sErase", "sProgram"}

LEMMA RoutineMap == ASSUME MapInv, Routine PROVE MapOK(pc, ni)'
  BY DEF MapInv, MapOK, Routine, KeptBy

LEMMA RoutineQuiet == ASSUME MapInv, Routine, UNCHANGED flash PROVE MapStep
  BY RoutineMap, NoChange DEF MapStep, MapInv, TablesOK

TableRoutine ==
  \/ WriteOutOfRange \/ RebuildMain \/ RebuildBackup
  \/ RebuildErased \/ RescueFrontErased \/ RescueBehindErased
  \/ RescueFront \/ RescueBehind \/ SingleMain \/ SingleBackup
  \/ RescueMainTemp \/ RescueMainMain \/ UpdateOnce \/ OnceBackup \/ OnceMain

LEMMA RoutineSteps == ASSUME IInv, TableRoutine PROVE Routine /\ UNCHANGED flash
  <1> USE DEF IInv, KeptBy, Routine, TableCode, ClientCode, InstanceType, CallOK, CallType
  <1>1. CASE RebuildMain
    BY <1>1 DEF RebuildMain, Returned, TableReturn, WriteTable, Clean
  <1>2. CASE RebuildBackup
    BY <1>2 DEF RebuildBackup, Returned, TableReturn, EraseRange
  <1>3. CASE RebuildErased \/ RescueFrontErased \/ RescueBehindErased
    BY <1>3 DEF RebuildErased, RescueFrontErased, RescueBehindErased, RangeErased,
       TableReturn, Clean
  <1>4. CASE RescueFront
    BY <1>4 DEF RescueFront, Returned, WriteTable, TableReturn, EraseRange, Clean
  <1>5. CASE RescueBehind
    BY <1>5 DEF RescueBehind, Returned, WriteTable, TableReturn, EraseRange
  <1>6. CASE SingleMain
    BY <1>6 DEF SingleMain, Returned, WriteTable, TableReturn, RescueSingle, Clean
  <1>7. CASE SingleBackup
    BY <1>7 DEF SingleBackup, Returned, TableReturn, Clean
  <1>8. CASE RescueMainTemp
    BY <1>8 DEF RescueMainTemp, Returned, WriteTable, TableReturn, BackupBecomesMain
  <1>9. CASE RescueMainMain
    BY <1>9 DEF RescueMainMain, Returned, TableReturn, Clean
  <1>10. CASE UpdateOnce
    BY <1>10 DEF UpdateOnce, WriteMain, Rebuild, WriteTable, GenerateCache
  <1>11. CASE OnceBackup
    BY <1>11 DEF OnceBackup, Returned, WriteMain, Rebuild, WriteTable, Clean
  <1>12. CASE OnceMain
    BY <1>12 DEF OnceMain, Returned, RescueMain, BackupBecomesMain, TableReturn, Rebuild,
       WriteTable, Clean
  <1>13. CASE WriteOutOfRange
    BY <1>13 DEF WriteOutOfRange
  <1> QED
    BY <1>1, <1>2, <1>3, <1>4, <1>5, <1>6, <1>7, <1>8, <1>9, <1>10, <1>11, <1>12, <1>13 DEF
       TableRoutine

LEMMA WriterSteps ==
  ASSUME IInv, WriteErase \/ WriteProgram \/ RangeErase PROVE Routine
  BY DEF IInv, WriteErase, WriteProgram, RangeErase, SetState, KeptBy, Routine, TableCode,
     InstanceType

LEMMA RoutineStep == ASSUME IInv, MapInv, TableRoutine PROVE MapStep
  BY RoutineSteps, RoutineQuiet

\* No logic block lives in a management block up to the top.
LEMMA BelowTop ==
  ASSUME MapInv, pc \in TableCode \cup ClientCode, ni \in InstanceType, NEW b \in Nat,
         b \in MgmtBlocks, b <= ni.mapping_blocks_top_ba
  PROVE  \A lb \in Logic : ni.block_mapping[lb] # b
  BY AddressNat DEF MapInv, MapOK, Above

LEMMA WriteEraseMap ==
  ASSUME IInv, LayInv, MapInv, WriteErase \/ RangeErase PROVE MapStep
  <1>1. pc \in {"wErase", "range"} /\ Here < io.limit
    BY DEF WriteErase, RangeErase
  <1>2. /\ ni \in InstanceType /\ Layout(ni) /\ io \in FrameType /\ Chip
        /\ io.limit <= ni.mapping_blocks_top_ba
    <2>1. ni \in InstanceType /\ Layout(ni) /\ io \in FrameType /\ Chip
      BY <1>1, LayEntry DEF TableCode, IInv
    <2>2. pc = "wErase" => WriteRoom(io, ni)
      BY <1>1, LayEntry DEF TableCode, WriteCode
    <2>3. pc = "range" => RangeRoom(io, ni)
      BY <1>1, LayEntry DEF TableCode, WriteCode
    <2>4. io.limit <= ni.mapping_blocks_top_ba
      BY <1>1, <2>1, <2>2, <2>3, LimitTop DEF RangeRoom
    <2> QED BY <2>1, <2>4
  <1>3. Here \in Blocks /\ Here \in MgmtBlocks /\ Here \in Nat /\ Here <= ni.mapping_blocks_top_ba
    <2>1. Here \in Area(ni) /\ Here \in Blocks
      BY <1>1, HereGood DEF TableCode
    <2>2. Here \in MgmtBlocks
      BY <1>2, <2>1, AreaMgmt
    <2>3. Here \in Nat /\ Here + 1 <= io.limit
      BY <1>1, HereBounds DEF TableCode
    <2> QED BY <1>2, <2>1, <2>2, <2>3, AddressNat, FrameNat
  <1>4. \A lb \in Logic : ni.block_mapping[lb] # Here
    BY <1>1, <1>2, <1>3, BelowTop DEF TableCode
  <1>5. ErasePhys(Here) \/ ErasePhysFails(Here)
    BY Zenon DEF WriteErase, RangeErase
  <1>6. UNCHANGED <<view, crashes>>
    BY Zenon DEF WriteErase, RangeErase
  <1>7. \A b \in Blocks : flash'[b] # flash[b] => b = Here
    BY <1>2, <1>3, <1>5, <1>6, EraseChip
  <1>8. OwnDataStep
    BY <1>2, <1>4, <1>7, UnmappedChange
  <1>9. TablesOK(flash)'
    BY <1>2, <1>3, <1>5, EraseTables, NoNewTables DEF MapInv
  <1>10. MapOK(pc, ni)'
    BY WriterSteps, RoutineMap
  <1> QED BY <1>8, <1>9, <1>10 DEF MapStep, MapInv

LEMMA WriteProgramMap ==
  ASSUME IInv, SaveInv, LayInv, MapInv, WriteProgram PROVE MapStep
  <1>1. pc = "wProgram"
    BY DEF WriteProgram
  <1>2. /\ ni \in InstanceType /\ Layout(ni) /\ io \in FrameType /\ Chip
        /\ io.limit <= ni.mapping_blocks_top_ba /\ CacheOK(ni)
    <2>1. ni \in InstanceType /\ Layout(ni) /\ io \in FrameType /\ Chip /\ WriteRoom(io, ni)
      BY <1>1, LayEntry DEF TableCode, WriteCode, IInv
    <2>2. CacheOK(ni)
      BY <1>1 DEF SaveInv, SaveOK, TableCode
    <2> QED BY <2>1, <2>2, LimitTop
  <1>3. /\ io.ba \in Blocks /\ io.ba \in MgmtBlocks /\ io.ba \in Nat
        /\ io.ba + 1 <= ni.mapping_blocks_top_ba
    <2>1. io.ba \in Area(ni) /\ io.ba < io.limit
      BY <1>1 DEF IInv, Control, FrameOK, TableCode
    <2> QED BY <1>2, <2>1, AreaMgmt, AddressNat, FrameNat
  <1>4. \A lb \in Logic : ni.block_mapping[lb] # io.ba
    BY <1>1, <1>2, <1>3, BelowTop, AddressNat DEF TableCode
  <1>5. MapOK(pc, ni)'
    BY WriterSteps, RoutineMap
  <1> DEFINE c == Chunk(ni.cache, TableBlocks - io.left)
  <1>6. \/ flash' = [flash EXCEPT ![io.ba] = c]
        \/ BlockFails(io.ba, {Blank, c})
    BY Zenon DEF WriteProgram
  <1>7. c.table.map = ni.block_mapping
    BY <1>2 DEF Chunk, CacheOK
  <1>8. Inj(c.table.map) /\ Above(c.table.map, io.ba + 1)
    BY <1>1, <1>2, <1>3, <1>7, AddressNat, GeometryAssumption
    DEF MapInv, MapOK, Above, TableCode, MgmtBlocks
  <1> HIDE DEF c
  <1>9. /\ flash'[io.ba] \in {flash[io.ba], c, Blank}
        /\ \A b \in Blocks : b # io.ba => flash'[b] = flash[b]
    BY <1>2, <1>3, <1>6 DEF Chip, BlockFails
  <1>10. \A b \in Blocks : flash'[b] = flash[b] \/ ~IsTable(flash'[b]) \/ (b = io.ba /\ flash'[b] = c)
    BY <1>9, NotTables
  <1>11. TablesOK(flash)'
    BY <1>8, <1>10, Zenon DEF TablesOK, MapInv
  <1>12. \A b \in Blocks : flash'[b] # flash[b] => b = io.ba
    BY <1>9
  <1>13. OwnDataStep
    BY <1>2, <1>4, <1>12, UnmappedChange
  <1> QED BY <1>5, <1>11, <1>13 DEF MapStep, MapInv

-----------------------------------------------------------------------------
(* The operations of the client.                                           *)

\* Remaps keep the mapping injective and above the pool, when nmbm_map_block
\* takes the block on top of it.
LEMMA MoveMap == ASSUME IInv, LayInv, MapInv, ~Skips, ClientMove PROVE MapOK(pc, ni)'
  <1>1. /\ ni \in InstanceType /\ Layout(ni) /\ AreaOK(ni)
        /\ pc \in ClientCode /\ pc' \in ClientCode
    BY ClientState DEF IInv, LayInv, LayOK, ClientMove
  <1> DEFINE map == ni.block_mapping
             top == ni.mapping_blocks_top_ba
  <1>2. /\ Inj(map) /\ Above(map, top) /\ map \in MappingTables
        /\ top \in Nat /\ ni.mapping_blocks_ba \in Nat /\ ni.mapping_blocks_ba <= top
    BY <1>1, AddressNat DEF MapInv, MapOK, Layout, InstanceType
  <1>3. top \in MgmtBlocks
    BY <1>1, AreaMgmt DEF AreaOK
  <1>4. /\ \A x \in MgmtBlocks : x \in Nat
        /\ NoBlock \notin MgmtBlocks
    BY GeometryAssumption DEF MgmtBlocks, NoBlock
  <1>5. Inj(ni'.block_mapping) /\ Above(ni'.block_mapping, ni'.mapping_blocks_top_ba)
    <2>1. CASE Pooled(ni', ni)
      <3>1. ni'.mapping_blocks_top_ba \in Nat /\ ni'.mapping_blocks_top_ba <= top
        BY <1>2, <2>1 DEF Pooled
      <3>2. Inj(ni'.block_mapping) /\ Above(ni'.block_mapping, top)
        <4>1. CASE ni'.block_mapping = map
          BY <1>2, <4>1
        <4>2. ASSUME NEW lb \in Logic, ni'.block_mapping = [map EXCEPT ![lb] = NoBlock]
              PROVE  Inj(ni'.block_mapping) /\ Above(ni'.block_mapping, top)
          <5>1. \A l \in Logic : ni'.block_mapping[l] = IF l = lb THEN NoBlock ELSE map[l]
            BY <1>2, <4>2 DEF MappingTables
          <5> QED BY <1>2, <1>4, <5>1 DEF Inj, Above
        <4> QED BY <2>1, <4>1, <4>2 DEF Pooled
      <3> QED BY <1>2, <1>4, <3>1, <3>2 DEF Above
    <2>2. ASSUME NEW lb \in Logic, NEW pb \in Blocks, Mapped(ni', ni, lb, pb),
                 pc \in {"createMap", "eraseTry"}
          PROVE  Inj(ni'.block_mapping) /\ Above(ni'.block_mapping, ni'.mapping_blocks_top_ba)
      <3>1. ni.mapping_blocks_ba < top
        BY <1>2, <2>2 DEF Mapped
      <3>2. pb \in MgmtBlocks /\ pb <= top /\ pb \in Nat
        <4>1. pb \in ni.mapping_blocks_ba + 1 .. top
          BY <2>2, Zenon DEF Mapped
        <4>2. ni.mapping_blocks_ba \in MgmtBlocks
          BY <1>1, AreaMgmt DEF AreaOK
        <4> QED BY <1>2, <1>3, <4>1, <4>2, GeometryAssumption DEF MgmtBlocks
      <3>3. \A l \in Logic : map[l] # top /\ map[l] # pb
        BY <1>2, <1>3, <1>4, <3>2 DEF Above
      <3>9. ni'.block_mapping[lb] = pb
        BY <1>2, <2>2 DEF Mapped, MappingTables
      <3>10. pc # "off" /\ pc' # "off"
        BY <1>1 DEF ClientCode
      <3>11. ~ (pb < top)
        BY <1>4, <3>2, <3>3, <3>9, <3>10 DEF Skips
      <3>4. pb = top
        BY <1>2, <3>2, <3>11
      <3>5. ni'.mapping_blocks_top_ba = top - 1 /\ ni'.block_mapping = [map EXCEPT ![lb] = top]
        BY <2>2, <3>4 DEF Mapped
      <3>6. \A l \in Logic : ni'.block_mapping[l] = IF l = lb THEN top ELSE map[l]
        BY <1>2, <3>5 DEF MappingTables
      <3>7. Inj(ni'.block_mapping)
        BY <1>2, <3>3, <3>6 DEF Inj
      <3>8. Above(ni'.block_mapping, top - 1)
        BY <1>2, <1>4, <3>6 DEF Above
      <3> QED BY <3>5, <3>7, <3>8
    <2> QED BY <2>1, <2>2 DEF ClientMove, Adjusted
  <1> QED BY <1>1, <1>5 DEF MapOK, ClientCode

LEMMA PoolMap ==
  ASSUME IInv, LayInv, MapInv,
         CreateMap \/ CreateMapFail \/ EraseMapFail \/ Detach \/ UpdateReturn
  PROVE  MapStep
  <1>1. UNCHANGED flash
    BY Zenon DEF CreateMap, CreateMapFail, EraseMapFail, Detach, UpdateReturn
  <1>2. ~Skips => MapOK(pc, ni)'
    BY CreateMapMove, PoolMove, MoveMap
  <1> QED BY <1>1, <1>2, NoChange DEF MapStep, MapInv, TablesOK

\* The block of one logic block changes, in a step for that logic block.
LEMMA OwnChange ==
  ASSUME IInv, MapInv, NEW lb \in Logic, ni.block_mapping[lb] # NoBlock,
         \A b \in Blocks : flash'[b] # flash[b] => b = ni.block_mapping[lb],
         (pc = "eraseTry" /\ call.lb = lb) \/ Write(lb) \/ MarkBad(lb)
  PROVE  OwnDataStep
  <1>1. Inj(ni.block_mapping)
    BY DEF MapInv, MapOK
  <1>2. \A l \in Logic : ni.block_mapping[l] # NoBlock => ni.block_mapping[l] \in Blocks
    BY DEF IInv, InstanceType, MappingTables
  <1>3. \A l \in Logic : ni.block_mapping[l] # NoBlock
                         /\ flash'[ni.block_mapping[l]] # flash[ni.block_mapping[l]] => l = lb
    BY <1>1, <1>2, Zenon DEF Inj
  <1> QED BY <1>3, Zenon DEF OwnDataStep

LEMMA EraseTryMap == ASSUME IInv, LayInv, MapInv, EraseTry PROVE MapStep
  <1> DEFINE pb == ni.block_mapping[call.lb]
  <1>1. pc = "eraseTry" /\ Chip /\ call.lb \in Logic
    BY DEF IInv, CallOK, CallType, EraseTry
  <1>2. pb # NoBlock => pb \in Blocks
    BY <1>1 DEF IInv, InstanceType, MappingTables
  <1>3. UNCHANGED flash \/ (pb # NoBlock /\ (ErasePhys(pb) \/ ErasePhysFails(pb)))
    BY Zenon DEF EraseTry
  <1>4. ~Skips => MapOK(pc, ni)'
    BY EraseTryMove, MoveMap
  <1>5. CASE UNCHANGED flash
    BY <1>4, <1>5, NoChange DEF MapStep, MapInv, TablesOK
  <1>6. CASE pb # NoBlock /\ (ErasePhys(pb) \/ ErasePhysFails(pb))
    <2>1. TablesOK(flash)'
      BY <1>1, <1>2, <1>6, EraseTables, NoNewTables DEF MapInv
    <2>2. \A b \in Blocks : flash'[b] # flash[b] => b = pb
      BY <1>1, <1>2, <1>6, EraseOther, Zenon
    <2>3. OwnDataStep
      BY <1>1, <1>6, <2>2, OwnChange
    <2> QED BY <1>4, <2>1, <2>3 DEF MapStep, MapInv
  <1> QED BY <1>3, <1>5, <1>6

LEMMA RequestMap ==
  ASSUME IInv, LayInv, MapInv, NEW lb \in Logic,
         Erase(lb) \/ ReadFails(lb) \/ Write(lb) \/ MarkBad(lb)
  PROVE  MapStep
  <1> DEFINE pb == ni.block_mapping[lb]
  <1>1. (~Skips => MapOK(pc, ni)') /\ Chip
    BY RequestMove, MoveMap DEF IInv
  <1>2. CASE UNCHANGED flash
    BY <1>1, <1>2, NoChange DEF MapStep, MapInv, TablesOK
  <1>3. CASE (Write(lb) \/ MarkBad(lb)) /\ flash' # flash
    <2>1. pb # NoBlock
      BY <1>3, Zenon DEF Write, MarkBad, Accessible
    <2>2. \E c \in {Data(lb), Garbage, Blank} : flash' = [flash EXCEPT ![pb] = c]
      <3>1. CASE Write(lb)
        BY <3>1 DEF Write
      <3>2. CASE MarkBad(lb)
        BY <1>3, <3>2, Zenon DEF MarkBad
      <3> QED BY <1>3, <3>1, <3>2
    <2>3. PICK c \in {Data(lb), Garbage, Blank} : flash' = [flash EXCEPT ![pb] = c]
      BY <2>2
    <2>4. \A b \in Blocks : flash'[b] = flash[b] \/ (b = pb /\ flash'[b] = c)
      BY <1>1, <2>3 DEF Chip
    <2>5. ~IsTable(c)
      BY NotTables
    <2>6. TablesOK(flash)'
      BY <2>4, <2>5, NoNewTables DEF MapInv
    <2>7. \A b \in Blocks : flash'[b] # flash[b] => b = pb
      BY <2>4
    <2>8. OwnDataStep
      BY <1>3, <2>1, <2>7, OwnChange
    <2> QED BY <1>1, <2>6, <2>8 DEF MapStep, MapInv
  <1>4. Erase(lb) \/ ReadFails(lb) => UNCHANGED flash
    BY Zenon DEF Erase, ReadFails
  <1> QED BY <1>2, <1>3, <1>4

-----------------------------------------------------------------------------
(* nmbm_attach: the mapping of a new chip.                                 *)

LEMMA BuildMappingMap == ASSUME NEW st PROVE Inj(BuildMapping(st)) /\ DataOnly(BuildMapping(st))
  <1> DEFINE rank(pb) == Cardinality({x \in UsableData(st) : x < pb})
             S(lb) == {pb \in UsableData(st) : rank(pb) = lb}
             map == BuildMapping(st)
  <1>1. \A lb \in Logic : map[lb] = FirstOr(S(lb), NoBlock)
    BY DEF BuildMapping
  <1>2. ASSUME NEW lb \in Logic PROVE S(lb) \in SUBSET Nat /\ S(lb) \subseteq Logic
    BY GeometryAssumption DEF UsableData, Logic
  <1>3. ASSUME NEW lb \in Logic
        PROVE  map[lb] = NoBlock \/ (map[lb] \in Logic /\ rank(map[lb]) = lb)
    <2>1. map[lb] \in S(lb) \/ map[lb] = NoBlock
      <3> HIDE DEF S, map
      <3> QED BY <1>1, <1>2, FirstOrType
    <2>2. \A pb \in S(lb) : pb \in Logic /\ rank(pb) = lb
      BY Zenon DEF UsableData
    <2> QED BY <2>1, <2>2, Zenon
  <1> HIDE DEF rank, map
  <1>4. Inj(map)
    BY <1>3, Zenon DEF Inj
  <1>5. DataOnly(map)
    <2>1. \A b \in MgmtBlocks : b \notin Logic /\ b # NoBlock
      BY GeometryAssumption DEF MgmtBlocks, Logic, NoBlock
    <2> QED BY <1>3, <2>1, Zenon DEF DataOnly
  <1> QED BY <1>4, <1>5 DEF map

LEMMA ScanAndBuildMap ==
  ASSUME NEW n \in InstanceType
  PROVE  Inj(ScanAndBuild(n).block_mapping) /\ DataOnly(ScanAndBuild(n).block_mapping)
  <1> DEFINE st == ScanBad(n.block_state, physBad)
  <1>1. ScanAndBuild(n).block_mapping = BuildMapping(st)
    BY DEF ScanAndBuild, InstanceType
  <1> QED BY <1>1, BuildMappingMap

LEMMA EmptyMap == LET map == [lb \in Logic |-> NoBlock] IN Inj(map) /\ DataOnly(map)
  BY GeometryAssumption DEF Inj, DataOnly, MgmtBlocks, NoBlock

LEMMA DataAbove == ASSUME NEW map, DataOnly(map), NEW a PROVE Above(map, a)
  BY DEF DataOnly, Above

LEMMA CreateInfoTableMap ==
  ASSUME NEW n \in InstanceType, NEW sig, CreateInfoTable(n, sig),
         Inj(n.block_mapping), DataOnly(n.block_mapping)
  PROVE  MapOK(pc, ni)'
  <1> DEFINE top == WalkDesc(n.block_state, sig, 1, MgmtStart)
             m == GenerateCache([n EXCEPT !.mapping_blocks_top_ba = top])
  <1>1. CASE ni' = n /\ pc' = "dead"
    BY <1>1 DEF MapOK, TableCode, ClientCode
  <1>2. CASE Rebuild(m)
    <2> HIDE DEF top
    <2>1. ni'.block_mapping = n.block_mapping /\ pc' = "wErase"
      BY <1>2 DEF Rebuild, GenerateCache, WriteTable, InstanceType
    <2> QED BY <2>1, DataAbove DEF MapOK
  <1> QED BY <1>1, <1>2, Zenon DEF CreateInfoTable

LEMMA AttachNewMap == ASSUME IInv, MapInv, AttachNew PROVE MapStep
  <1>1. \/ ni' = ScanAndBuild(NewInstance) /\ pc' = "sErase"
        \/ ni' = ni /\ pc' = "dead"
    BY Zenon DEF AttachNew
  <1>2. MapOK(pc, ni)'
    <2>1. CASE ni' = ScanAndBuild(NewInstance) /\ pc' = "sErase"
      BY <2>1, NewInstanceType, ScanAndBuildMap DEF MapOK, TableCode, ClientCode
    <2>2. CASE ni' = ni /\ pc' = "dead"
      BY <2>2 DEF MapInv, MapOK, TableCode, ClientCode
    <2> QED BY <1>1, <2>1, <2>2
  <1>3. UNCHANGED flash
    BY Zenon DEF AttachNew
  <1> QED BY <1>2, <1>3, NoChange DEF MapStep, MapInv, TablesOK

LEMMA AttachNoTableMap == ASSUME IInv, MapInv, AttachNoTable PROVE MapStep
  <1>1. PICK n \in InstanceType :
           \/ CreateInfoTable(ScanAndBuild(n), n.signature_ba)
           \/ /\ ni' = n /\ pc' = "dead"
              /\ n.block_mapping = [lb \in Logic |-> NoBlock]
    BY NoTableInstance
  <1>2. MapOK(pc, ni)'
    <2>1. CASE CreateInfoTable(ScanAndBuild(n), n.signature_ba)
      BY <2>1, ScanAndBuildType, ScanAndBuildMap, CreateInfoTableMap
    <2>2. CASE ni' = n /\ pc' = "dead" /\ n.block_mapping = [lb \in Logic |-> NoBlock]
      BY <2>2, EmptyMap DEF MapOK, TableCode, ClientCode
    <2> QED BY <1>1, <2>1, <2>2
  <1>3. UNCHANGED flash
    BY Zenon DEF AttachNoTable
  <1> QED BY <1>2, <1>3, NoChange DEF MapStep, MapInv, TablesOK

LEMMA SignatureMap ==
  ASSUME IInv, MapInv, SignatureErase \/ SignatureProgram PROVE MapStep
  <1>1. ni \in InstanceType /\ Chip /\ pc \in {"sErase", "sProgram"}
    BY DEF IInv, SignatureErase, SignatureProgram
  <1>2. Inj(ni.block_mapping) /\ DataOnly(ni.block_mapping)
    BY <1>1 DEF MapInv, MapOK
  <1>3. ASSUME NEW b \in Blocks, b \in MgmtBlocks, \A x \in Blocks : flash'[x] # flash[x] => x = b
        PROVE  OwnDataStep
    <2>1. \A lb \in Logic : ni.block_mapping[lb] # b
      BY <1>2, <1>3 DEF DataOnly
    <2> QED BY <1>1, <1>3, <2>1, UnmappedChange
  <1>4. CASE SignatureErase
    <2> DEFINE b == SignatureBlock
    <2>1. /\ pc' \in {"sErase", "sProgram", "dead"}
          /\ ni' = ni \/ ni' = SetState(ni, b, BAD)
          /\ UNCHANGED flash \/ (b # NoBlock /\ (ErasePhys(b) \/ ErasePhysFails(b)))
      BY <1>4, Zenon DEF SignatureErase
    <2>2. b # NoBlock => b \in Blocks /\ b \in MgmtBlocks
      <3>1. io.ba \in Blocks
        BY <1>4 DEF SignatureErase, IInv, Control
      <3>2. b = NoBlock \/ b \in MgmtStart + 1 .. BlockCount - 1
        BY <3>1, SignatureBlockType, Zenon
      <3> HIDE DEF b
      <3> QED BY <3>2, GeometryAssumption DEF Blocks, MgmtBlocks
    <2> HIDE DEF b
    <2>3. ni'.block_mapping = ni.block_mapping
      BY <1>1, <2>1 DEF SetState, InstanceType
    <2>4. MapOK(pc, ni)'
      BY <1>2, <2>1, <2>3 DEF MapOK, TableCode, ClientCode
    <2>5. CASE UNCHANGED flash
      BY <2>4, <2>5, NoChange DEF MapStep, MapInv, TablesOK
    <2>6. CASE b # NoBlock /\ (ErasePhys(b) \/ ErasePhysFails(b))
      <3>1. TablesOK(flash)'
        BY <1>1, <2>2, <2>6, EraseTables, NoNewTables DEF MapInv
      <3>2. \A x \in Blocks : flash'[x] # flash[x] => x = b
        BY <1>1, <2>2, <2>6, EraseOther, Zenon
      <3> QED BY <1>3, <2>2, <2>4, <2>6, <3>1, <3>2 DEF MapStep, MapInv
    <2> QED BY <2>1, <2>5, <2>6
  <1>5. CASE SignatureProgram
    <2>1. io.ba \in Blocks /\ io.ba \in MgmtBlocks
      BY <1>5, GeometryAssumption DEF SignatureProgram, IInv, Control, Blocks, MgmtBlocks
    <2>2. CASE /\ flash' = [flash EXCEPT ![io.ba] = Sig]
               /\ CreateInfoTable([ni EXCEPT !.signature_ba = io.ba], io.ba)
      <3> DEFINE n == [ni EXCEPT !.signature_ba = io.ba]
      <3>1. n \in InstanceType /\ n.block_mapping = ni.block_mapping
        BY <1>1, <2>1 DEF InstanceType
      <3> HIDE DEF n
      <3>2. CreateInfoTable(n, io.ba)
        BY <2>2 DEF n
      <3>3. MapOK(pc, ni)'
        BY <1>2, <3>1, <3>2, CreateInfoTableMap
      <3>4. \A b \in Blocks : flash'[b] = flash[b] \/ (b = io.ba /\ flash'[b] = Sig)
        BY <1>1, <2>2 DEF Chip
      <3>5. TablesOK(flash)'
        BY <3>4, NotTables, NoNewTables DEF MapInv
      <3>6. OwnDataStep
        BY <1>3, <2>1, <3>4
      <3> QED BY <3>3, <3>5, <3>6 DEF MapStep, MapInv
    <2>3. CASE /\ BlockFails(io.ba, {Blank, Sig})
               /\ ni' = SetState(ni, io.ba, BAD) /\ pc' = "sErase"
      <3>1. ni'.block_mapping = ni.block_mapping
        BY <1>1, <2>3 DEF SetState, InstanceType
      <3>2. MapOK(pc, ni)'
        BY <1>2, <2>3, <3>1 DEF MapOK, TableCode, ClientCode
      <3>3. TablesOK(flash)'
        BY <1>1, <2>1, <2>3, FailTables, NoNewTables DEF MapInv
      <3>4. OwnDataStep
        BY <1>1, <1>3, <2>1, <2>3, FailTables
      <3> QED BY <3>2, <3>3, <3>4 DEF MapStep, MapInv
    <2> QED BY <1>5, <2>2, <2>3, Zenon DEF SignatureProgram
  <1> QED BY <1>4, <1>5

-----------------------------------------------------------------------------
(* nmbm_attach: the mapping of a loaded table.                             *)

LEMMA SearchTableLoads ==
  ASSUME NEW st, NEW bad, NEW sig, NEW ba \in Nat, SearchTable(flash, st, bad, sig, ba) # NoBlock
  PROVE  LoadableAt(flash, st, bad, sig, SearchTable(flash, st, bad, sig, ba))
  <1> DEFINE S == {b \in ba .. sig - TableBlocks - 1 : LoadableAt(flash, st, bad, sig, b)}
             b == SearchTable(flash, st, bad, sig, ba)
  <1>1. S \in SUBSET Nat
    OBVIOUS
  <1>2. b = FirstOr(S, NoBlock)
    BY DEF SearchTable
  <1>3. b \in S
    <2> HIDE DEF S, b
    <2> QED BY <1>1, <1>2, FirstOrType DEF b
  <1> QED BY <1>3, Zenon

\* A loadable table maps nothing up to one block behind its end.
LEMMA LoadedAbove ==
  ASSUME TablesOK(flash), NEW st, NEW bad, NEW sig \in Blocks,
         NEW b \in MgmtStart .. (sig - TableBlocks) - 1, LoadableAt(flash, st, bad, sig, b)
  PROVE  Inj(flash[b].table.map) /\ Above(flash[b].table.map, b + TableBlocks)
  <1> DEFINE t == flash[b].table
             e == b + (TableBlocks - 1)
  <1>1. TableBlocks - 1 \in 0 .. TableBlocks - 1 /\ e \in Blocks /\ e + 1 = b + TableBlocks
    BY GeometryAssumption DEF Blocks
  <1>2. flash[e] = Chunk(t, TableBlocks - 1)
    BY <1>1, Zenon DEF LoadableAt
  <1> HIDE DEF e, t
  <1>3. IsTable(flash[e]) /\ flash[e].table = t
    BY <1>2 DEF Chunk, IsTable
  <1>4. Inj(t.map) /\ Above(t.map, e + 1)
    BY <1>1, <1>3, Zenon DEF TablesOK
  <1> QED BY <1>1, <1>4 DEF t

\* The top computed from a table is below the blocks the table maps, and not
\* below an address up to which the table maps nothing.
LEMMA MappingTopBounds ==
  ASSUME NEW t \in Tables, NEW sig \in Blocks, NEW end \in MgmtStart + 1 .. sig,
         Above(t.map, end)
  PROVE  /\ Above(t.map, MappingTop(t, end, sig))
         /\ \A e \in end .. sig - 1 :
              (\A lb \in Logic : t.map[lb] \notin end .. e) => e <= MappingTop(t, end, sig)
  <1> DEFINE S == {sig} \cup {t.map[lb] : lb \in {l \in Logic : t.map[l] \in end .. sig - 1}}
  <1>0. sig \in Nat /\ end \in Nat /\ MgmtStart \in Nat
    BY GeometryAssumption DEF Blocks
  <1>1. \A x \in S : x \in end .. sig
    BY <1>0
  <1>2. MappingTop(t, end, sig) = Min(S) - 1 /\ sig \in S
    BY DEF MappingTop
  <1>3. \A lb \in Logic : t.map[lb] \in end .. sig - 1 => t.map[lb] \in S
    OBVIOUS
  <1>4. \A x \in S : x = sig \/ (\E lb \in Logic : x = t.map[lb] /\ t.map[lb] \in end .. sig - 1)
    OBVIOUS
  <1> HIDE DEF S
  <1>5. S \in SUBSET Nat /\ S # {}
    BY <1>0, <1>1, <1>2
  <1>6. Min(S) \in S /\ (\A x \in S : Min(S) <= x) /\ Min(S) \in Nat
    BY <1>5, MinNat
  <1>7. Above(t.map, MappingTop(t, end, sig))
    <2> SUFFICES ASSUME NEW lb \in Logic, t.map[lb] \in MgmtBlocks
                 PROVE  t.map[lb] > MappingTop(t, end, sig)
      BY DEF Above
    <2>1. t.map[lb] \in Nat /\ t.map[lb] > end
      BY GeometryAssumption DEF MgmtBlocks, Above
    <2>2. CASE t.map[lb] < sig
      <3>1. t.map[lb] \in S
        BY <1>0, <1>3, <2>1, <2>2
      <3> QED BY <1>2, <1>6, <2>1, <3>1
    <2>3. CASE t.map[lb] >= sig
      BY <1>0, <1>2, <1>6, <2>1, <2>3
    <2> QED BY <1>0, <2>1, <2>2, <2>3
  <1>8. ASSUME NEW e \in end .. sig - 1, \A lb \in Logic : t.map[lb] \notin end .. e
        PROVE  e <= MappingTop(t, end, sig)
    <2>1. \A x \in S : x > e
      <3> SUFFICES ASSUME NEW x \in S PROVE x > e
        OBVIOUS
      <3>1. CASE x = sig
        BY <1>0, <3>1
      <3>2. ASSUME NEW lb \in Logic, x = t.map[lb], t.map[lb] \in end .. sig - 1 PROVE x > e
        BY <1>0, <1>8, <3>2
      <3> QED BY <1>4, <3>1, <3>2
    <2>2. Min(S) > e
      BY <1>6, <2>1
    <2> QED BY <1>0, <1>2, <1>6, <2>2
  <1> QED BY <1>7, <1>8

LEMMA FoundLoads ==
  ASSUME IInv, MapInv, NEW err, NEW sig, NEW b1, NEW b2, NEW n, Found(err, sig, b1, b2, n)
  PROVE  /\ Inj(flash[b1].table.map) /\ Above(flash[b1].table.map, b1 + TableBlocks)
         /\ b2 # NoBlock => /\ Inj(flash[b2].table.map)
                            /\ Above(flash[b2].table.map, b2 + TableBlocks)
  <1>1. /\ sig \in Blocks /\ b1 \in MgmtStart .. (sig - TableBlocks) - 1 /\ b1 # NoBlock
        /\ b1 = FirstTable(flash, physBad \cup err, sig)
        /\ b2 = SecondTable(flash, physBad \cup err, sig, b1)
        /\ b2 # NoBlock => b2 \in b1 + TableBlocks .. (sig - TableBlocks) - 1
    BY DEF Found
  <1>2. TablesOK(flash) /\ MgmtStart \in Nat /\ b1 + TableBlocks \in Nat
    BY <1>1, GeometryAssumption DEF MapInv
  <1>3. LoadableAt(flash, AllGood, physBad \cup err, sig, b1)
    BY <1>1, <1>2, SearchTableLoads, Zenon DEF FirstTable
  <1>4. b2 # NoBlock => LoadableAt(flash, flash[b1].table.st, physBad \cup err, sig, b2)
    BY <1>1, <1>2, SearchTableLoads, Zenon DEF SecondTable
  <1>5. b2 # NoBlock => b2 \in MgmtStart .. (sig - TableBlocks) - 1
    BY <1>1, GeometryAssumption
  <1>6. Inj(flash[b1].table.map) /\ Above(flash[b1].table.map, b1 + TableBlocks)
    BY <1>1, <1>2, <1>3, LoadedAbove
  <1>7. CASE b2 # NoBlock
    <2>1. Inj(flash[b2].table.map) /\ Above(flash[b2].table.map, b2 + TableBlocks)
      BY <1>1, <1>2, <1>4, <1>5, <1>7, LoadedAbove
    <2> QED BY <1>6, <2>1
  <1> QED BY <1>6, <1>7

\* nmbm_load_info_table restores a mapping that is injective and above the top
\* it computes, and with SecondFits there is room for the tables.
LEMMA LoadedMap ==
  ASSUME IInv, MapInv, SecondFits, pc = "off", NEW err \in ReadErrors, NEW sig, NEW b1, NEW b2,
         NEW n, Found(err, sig, b1, b2, n)
  PROVE  /\ Inj(n.block_mapping) /\ Above(n.block_mapping, n.mapping_blocks_top_ba)
         /\ n.mapping_blocks_ba <= n.mapping_blocks_top_ba
  <1> DEFINE t1 == flash[b1].table
             t2 == flash[b2].table
             e1 == b1 + TableBlocks
             e2 == b2 + TableBlocks
             newer2 == b2 # NoBlock /\ t2.wc > t1.wc
  <1>1. /\ sig \in Blocks /\ b1 \in MgmtStart .. (sig - TableBlocks) - 1 /\ t1 \in Tables
        /\ b2 # NoBlock => b2 \in b1 + TableBlocks .. (sig - TableBlocks) - 1 /\ t2 \in Tables
    BY DEF Found
  <1>2. /\ n.mapping_blocks_ba = IF b2 = NoBlock THEN e1 ELSE e2
        /\ n.mapping_blocks_top_ba = IF newer2 THEN MappingTop(t2, e2, sig)
                                     ELSE MappingTop(t1, e1, sig)
        /\ n.block_mapping = IF newer2 THEN t2.map ELSE t1.map
    BY LoadedFields DEF Found
  <1>3. /\ Inj(t1.map) /\ Above(t1.map, e1)
        /\ b2 # NoBlock => Inj(t2.map) /\ Above(t2.map, e2)
    BY FoundLoads
  <1>4. /\ e1 \in MgmtStart + 1 .. sig /\ e1 \in e1 .. sig - 1
        /\ b2 # NoBlock => e2 \in MgmtStart + 1 .. sig /\ e2 \in e2 .. sig - 1 /\ e2 \in e1 .. sig - 1
    BY <1>1, GeometryAssumption DEF Blocks
  <1>5. \A x \in MgmtBlocks : x \in Nat
    BY GeometryAssumption DEF MgmtBlocks
  <1>6. /\ \A lb \in Logic : t1.map[lb] \notin e1 .. e1
        /\ b2 # NoBlock => \A lb \in Logic : t2.map[lb] \notin e2 .. e2
    <2>1. e1 \in MgmtBlocks /\ (b2 # NoBlock => e2 \in MgmtBlocks)
      BY <1>1, <1>4, GeometryAssumption DEF MgmtBlocks, Blocks
    <2>2. \A lb \in Logic : t1.map[lb] # e1 /\ (b2 # NoBlock => t2.map[lb] # e2)
      BY <1>3, <1>5, <2>1 DEF Above
    <2>3. \A x \in e1 .. e1 : x = e1
      BY <1>4
    <2>4. b2 # NoBlock => \A x \in e2 .. e2 : x = e2
      BY <1>4
    <2> QED BY <2>2, <2>3, <2>4, Zenon
  <1> HIDE DEF t1, t2, e1, e2
  <1>7. CASE newer2
    <2>1. /\ Above(t2.map, MappingTop(t2, e2, sig)) /\ e2 <= MappingTop(t2, e2, sig)
      BY <1>1, <1>3, <1>4, <1>6, <1>7, MappingTopBounds
    <2> QED BY <1>2, <1>3, <1>7, <2>1
  <1>8. CASE ~newer2 /\ b2 = NoBlock
    <2>1. /\ Above(t1.map, MappingTop(t1, e1, sig)) /\ e1 <= MappingTop(t1, e1, sig)
      BY <1>1, <1>3, <1>4, <1>6, MappingTopBounds
    <2> QED BY <1>2, <1>3, <1>8, <2>1
  <1>9. CASE ~newer2 /\ b2 # NoBlock
    <2>1. t2.wc <= t1.wc
      BY <1>1, <1>9 DEF Tables
    <2>2. \A lb \in Logic : t1.map[lb] \notin e1 .. e2
      <3>1. sig # NoBlock /\ b1 # NoBlock
        BY <1>1, GeometryAssumption DEF Blocks, NoBlock
      <3>2. /\ sig = FindSignature(flash, physBad \cup err)
            /\ b1 = FirstTable(flash, physBad \cup err, sig)
            /\ b2 = SecondTable(flash, physBad \cup err, sig, b1)
        BY DEF Found
      <3> QED BY <1>9, <2>1, <3>1, <3>2, Zenon DEF SecondFits, t1, t2, e1, e2
    <2>3. /\ Above(t1.map, MappingTop(t1, e1, sig)) /\ e2 <= MappingTop(t1, e1, sig)
      BY <1>1, <1>3, <1>4, <1>9, <2>2, MappingTopBounds
    <2> QED BY <1>2, <1>3, <1>9, <2>3
  <1> QED BY <1>7, <1>8, <1>9

\* So LoadsFit is not an assumption of its own.
LEMMA MapLoadsFit == IInv /\ MapInv /\ SecondFits => LoadsFit
  <1> SUFFICES ASSUME IInv, MapInv, SecondFits, pc = "off", NEW err \in ReadErrors,
                      NEW sig, sig = FindSignature(flash, physBad \cup err), sig # NoBlock,
                      NEW b1, b1 = FirstTable(flash, physBad \cup err, sig), b1 # NoBlock,
                      NEW b2, b2 = SecondTable(flash, physBad \cup err, sig, b1),
                      NEW n, n = LoadedInstance(sig, physBad \cup err, b1, b2)
               PROVE  n.mapping_blocks_ba <= n.mapping_blocks_top_ba
    BY Zenon DEF LoadsFit
  <1>1. Found(err, sig, b1, b2, n)
    BY FoundAt
  <1> QED BY <1>1, LoadedMap

LEMMA AttachExistingMap == ASSUME IInv, MapInv, SecondFits, AttachExisting PROVE MapStep
  <1>0. PICK err \in ReadErrors : \E sig, b1, b2, n :
           Found(err, sig, b1, b2, n) /\ LoadStep(b1, b2, n)
    BY AttachFinds
  <1>1. PICK sig, b1, b2, n : Found(err, sig, b1, b2, n) /\ LoadStep(b1, b2, n)
    BY <1>0
  <1>2. pc = "off" /\ UNCHANGED flash
    BY Zenon DEF AttachExisting
  <1>3. Inj(n.block_mapping) /\ Above(n.block_mapping, n.mapping_blocks_top_ba) /\ n \in InstanceType
    BY <1>1, <1>2, LoadedMap DEF Found
  <1>4. KeptBy(ni', n) /\ pc' \in {"wErase", "idle"}
    BY <1>1, <1>3 DEF LoadStep, RescueSingle, UpdateSingle, WriteTable, KeptBy, InstanceType
  <1>5. MapOK(pc, ni)'
    BY <1>3, <1>4 DEF MapOK, KeptBy
  <1> QED BY <1>2, <1>5, NoChange DEF MapStep, MapInv, TablesOK

-----------------------------------------------------------------------------
LEMMA InitMap == Init => MapInv
  <1>1. ~IsTable(Blank) /\ Inj(NewInstance.block_mapping)
    BY NotTables, EmptyMap DEF NewInstance
  <1> QED BY <1>1 DEF Init, MapInv, MapOK, TablesOK, TableCode, ClientCode

LEMMA PowerOffMap == ASSUME MapInv, PowerOff PROVE MapStep
  <1>1. Inj(NewInstance.block_mapping)
    BY EmptyMap DEF NewInstance
  <1>2. ni' = NewInstance /\ pc' = "off" /\ UNCHANGED flash
    BY Zenon DEF PowerOff
  <1>3. MapOK(pc, ni)'
    BY <1>1, <1>2 DEF MapOK, TableCode, ClientCode
  <1> QED BY <1>2, <1>3, NoChange DEF MapStep, MapInv, TablesOK

LEMMA TableStepMap ==
  ASSUME IInv, SaveInv, LayInv, MapInv, TableStep PROVE MapStep
  <1>1. CASE WriteErase \/ WriteProgram \/ RangeErase \/ SignatureErase \/ SignatureProgram
    BY <1>1, WriteEraseMap, WriteProgramMap, SignatureMap
  <1>2. CASE TableRoutine
    BY <1>2, RoutineStep
  <1>3. CASE UpdateReturn \/ CreateMap \/ CreateMapFail
    BY <1>3, PoolMap
  <1> QED BY <1>1, <1>2, <1>3 DEF TableStep, TableRoutine

LEMMA NextMap ==
  IInv /\ SaveInv /\ LayInv /\ MapInv /\ SecondFits /\ [Next]_vars =>
    (~Skips => MapInv') /\ [OwnDataStep]_vars
  <1> SUFFICES ASSUME IInv, SaveInv, LayInv, MapInv, SecondFits, [Next]_vars
               PROVE  (~Skips => MapInv') /\ [OwnDataStep]_vars
    OBVIOUS
  <1>1. CASE Attach
    BY <1>1, AttachNewMap, AttachNoTableMap, AttachExistingMap DEF Attach, MapStep
  <1>2. CASE TableStep
    BY <1>2, TableStepMap DEF MapStep
  <1>3. CASE EraseTry \/ EraseMapFail
    BY <1>3, EraseTryMap, PoolMap DEF MapStep
  <1>4. CASE ClientStep
    BY <1>4, RequestMap, PoolMap DEF ClientStep, MapStep
  <1>5. CASE Detached \/ Crash
    <2>1. PowerOff
      BY <1>5 DEF Detached, Crash
    <2> QED BY <2>1, PowerOffMap DEF MapStep
  <1>6. CASE UNCHANGED vars
    BY <1>6 DEF vars, MapInv, TablesOK
  <1> QED BY <1>1, <1>2, <1>3, <1>4, <1>5, <1>6 DEF Next, Step

\* A behaviour with the history variables is one of Nmbm, and the event the
\* first of them records is a step in which nmbm_map_block skips.
LEMMA HistStep ==
  [HistNext]_<<vars, historyVars>> => [Next]_vars /\ (~skipped' => ~skipped /\ (Next => ~Skips))
  <1>1. CASE HistNext
    BY <1>1, Zenon DEF HistNext, Record
  <1>2. CASE UNCHANGED <<vars, historyVars>>
    <2>1. vars' = vars /\ skipped' = skipped
      BY <1>2 DEF historyVars
    <2>2. ~Skips
      BY <2>1, Zenon DEF vars, Skips
    <2> QED BY <2>1, <2>2
  <1> QED BY <1>1, <1>2

LEMMA HistImplements == HistSpec => Spec
  BY HistStep, PTL DEF HistSpec, HistInit, Spec

AllInv == IInv /\ SaveInv /\ LayInv /\ MapInv

LEMMA NextAll ==
  AllInv /\ SecondFits /\ [Next]_vars /\ (Next => ~Skips) => LayInv' /\ MapInv'
  <1> SUFFICES ASSUME AllInv, SecondFits, [Next]_vars, Next => ~Skips PROVE LayInv' /\ MapInv'
    OBVIOUS
  <1>1. LayInv'
    BY MapLoadsFit, NextLay DEF AllInv
  <1>2. CASE Next
    BY <1>1, <1>2, NextMap DEF AllInv
  <1>3. CASE UNCHANGED vars
    BY <1>1, <1>3 DEF vars, AllInv, MapInv, TablesOK
  <1> QED BY <1>2, <1>3

\* The mapping of nmbm-core.c stays a mapping: until nmbm_map_block passes over
\* a bad spare block for the first time, and as long as no second table stands
\* among the blocks the first one maps (SecondFits), no two logic blocks share
\* a physical block, in memory and in every table on the chip, and the mapped
\* management blocks lie above the spare blocks.
THEOREM NmbmMapInductive ==
  HistSpec /\ [](skipped \/ SecondFits) => [](skipped \/ AllInv)
  <1>1. HistSpec => [](IInv /\ SaveInv)
    BY HistImplements, NmbmSaveInductive, PTL
  <1>2. /\ skipped \/ AllInv
        /\ skipped \/ SecondFits
        /\ (IInv /\ SaveInv)'
        /\ [HistNext]_<<vars, historyVars>>
        => (skipped \/ AllInv)'
    <2> SUFFICES ASSUME skipped \/ AllInv, skipped \/ SecondFits, (IInv /\ SaveInv)',
                        [HistNext]_<<vars, historyVars>>, ~skipped'
                 PROVE  AllInv'
      OBVIOUS
    <2>1. [Next]_vars /\ ~skipped /\ (Next => ~Skips)
      BY HistStep
    <2>2. LayInv' /\ MapInv'
      BY <2>1, NextAll
    <2> QED BY <2>2 DEF AllInv
  <1>3. HistInit /\ IInv /\ SaveInv => AllInv
    BY InitLay, InitMap DEF HistInit, AllInv
  <1> QED BY <1>1, <1>2, <1>3, PTL DEF HistSpec

\* No physical block serves two logic blocks, on a chip of any size, after any
\* number of failures, remaps, rescues and power cuts, until nmbm_map_block
\* passes over a bad spare block for the first time (nmbm_map_twice shows what
\* may happen then).
THEOREM NmbmMappingKept == HistSpec /\ [](skipped \/ SecondFits) => []MappingKept
  <1>1. skipped \/ AllInv => MappingKept
    BY DEF AllInv, MapInv, MapOK, Inj, MappingInjective, MappingKept
  <1> QED BY <1>1, NmbmMapInductive, PTL

\* The tables of nmbm-core.c and the spare blocks stay in order through every
\* update, rescue, rebuild and remap, up to the same event.
THEOREM NmbmLayoutKept == HistSpec /\ [](skipped \/ SecondFits) => []LayoutKept
  <1>1. skipped \/ AllInv => LayoutKept
    BY LayTables DEF AllInv, LayoutKept
  <1> QED BY <1>1, NmbmMapInductive, PTL

\* Isolation of the logic blocks, up to the same event: the content of a mapped
\* block changes only in an erase, a write or a mark-bad of the logic block it
\* serves.
THEOREM NmbmOwnDataKept == HistSpec /\ [](skipped \/ SecondFits) => OwnDataKept
  <1>1. (skipped \/ AllInv) /\ (skipped \/ SecondFits) /\ [HistNext]_<<vars, historyVars>>
          => [skipped \/ OwnDataStep]_<<vars, historyVars>>
    <2> SUFFICES ASSUME skipped \/ AllInv, skipped \/ SecondFits, ~skipped,
                        HistNext
                 PROVE  OwnDataStep
      OBVIOUS
    <2>1. [OwnDataStep]_vars
      BY NextMap DEF AllInv, HistNext
    <2>2. UNCHANGED vars => OwnDataStep
      BY NoChange DEF vars
    <2> QED BY <2>1, <2>2
  <1> QED BY <1>1, NmbmMapInductive, PTL DEF HistSpec, OwnDataKept

-----------------------------------------------------------------------------
(* The tables as one atomically replaced image: every step but the erase   *)
(* or program of a management block is a step of NmbmAtomic.               *)

MgmtKept ==
  /\ physBad' \cap MgmtBlocks = physBad \cap MgmtBlocks
  /\ \A b \in MgmtBlocks : flash'[b] = flash[b]

\* A signature is written in the management area only.
SigInv == \A b \in Logic : flash[b] # Sig

LEMMA ImageOfIs ==
  ASSUME NEW t
  PROVE  ImageOf(t) = IF t = NoTable THEN NoTable
                      ELSE [map   |-> t.map,
                            remap |-> {lb \in Logic : t.map[lb] # NoBlock
                                                      /\ t.st[t.map[lb]] = NEED_REMAP}]
  <1> DEFINE f(x) == IF x = NoTable THEN NoTable
                     ELSE [map   |-> x.map,
                           remap |-> {lb \in Logic : x.map[lb] # NoBlock
                                                     /\ x.st[x.map[lb]] = NEED_REMAP}]
  <1>1. ImageOf(t) = CHOOSE i \in {f(x) : x \in {t}} : TRUE
    BY Zenon DEF ImageOf
  <1> HIDE DEF f
  <1>2. (CHOOSE i \in {f(x) : x \in {t}} : TRUE) = f(t)
    BY Zenon
  <1> QED BY <1>1, <1>2 DEF f

\* What nmbm_attach would load, without the CHOOSE.
LoadedFrom(fl, bad) ==
  LET sig == FindSignature(fl, bad)
  IN  IF sig = NoBlock THEN NoTable ELSE SelectedTable(fl, bad, sig)

LEMMA LoadedChosen ==
  ASSUME NEW fl, NEW bad
  PROVE  (CHOOSE t \in {IF sig = NoBlock THEN NoTable ELSE SelectedTable(fl, bad, sig) :
                          sig \in {FindSignature(fl, bad)}} : TRUE) = LoadedFrom(fl, bad)
  <1> DEFINE f(x) == IF x = NoBlock THEN NoTable ELSE SelectedTable(fl, bad, x)
             sig == FindSignature(fl, bad)
  <1>1. (CHOOSE t \in {f(x) : x \in {sig}} : TRUE) = f(sig)
    <2> HIDE DEF f
    <2> QED BY Zenon
  <1> QED BY <1>1, Zenon DEF LoadedFrom

LEMMA PersistedIs == Persisted = LoadedFrom(flash, physBad)
  BY LoadedChosen, Zenon DEF Persisted

LEMMA PersistedNext == Persisted' = LoadedFrom(flash', physBad')
  BY LoadedChosen, Zenon DEF Persisted

LEMMA SelectedIs ==
  ASSUME NEW fl, NEW bad, NEW sig
  PROVE  LET b1 == FirstTable(fl, bad, sig)
         IN  SelectedTable(fl, bad, sig) =
               IF b1 = NoBlock THEN NoTable
               ELSE fl[Newer(fl, b1, SecondTable(fl, bad, sig, b1))].table
  <1> DEFINE f(x) == IF x = NoBlock THEN NoTable
                     ELSE fl[Newer(fl, x, SecondTable(fl, bad, sig, x))].table
             b1 == FirstTable(fl, bad, sig)
  <1>1. SelectedTable(fl, bad, sig) = CHOOSE t \in {f(x) : x \in {b1}} : TRUE
    BY Zenon DEF SelectedTable
  <1> HIDE DEF f
  <1>2. (CHOOSE t \in {f(x) : x \in {b1}} : TRUE) = f(b1)
    BY Zenon
  <1> QED BY <1>1, <1>2 DEF f

-----------------------------------------------------------------------------
(* What an attach would load depends on the management blocks only.        *)

LEMMA SameSignature ==
  ASSUME NEW fl, NEW bad, NEW fl2, NEW bad2,
         \A b \in Logic : fl[b] # Sig /\ fl2[b] # Sig,
         \A b \in MgmtBlocks : fl2[b] = fl[b] /\ (b \in bad2 <=> b \in bad)
  PROVE  FindSignature(fl2, bad2) = FindSignature(fl, bad)
  <1> DEFINE S == {b \in Blocks : fl[b] = Sig /\ b \notin bad}
             S2 == {b \in Blocks : fl2[b] = Sig /\ b \notin bad2}
  <1>1. \A b \in Blocks : b \in Logic \/ b \in MgmtBlocks
    BY GeometryAssumption DEF Blocks, Logic, MgmtBlocks
  <1>2. S2 = S
    BY <1>1, Zenon
  <1> QED BY <1>2, Zenon DEF FindSignature

LEMMA SameLoadable ==
  ASSUME NEW fl, NEW bad, NEW fl2, NEW bad2, NEW st, NEW sig \in Blocks,
         \A b \in MgmtBlocks : fl2[b] = fl[b] /\ (b \in bad2 <=> b \in bad),
         NEW b \in MgmtStart .. (sig - TableBlocks) - 1
  PROVE  LoadableAt(fl2, st, bad2, sig, b) <=> LoadableAt(fl, st, bad, sig, b)
  <1>1. \A i \in 0 .. TableBlocks - 1 : b + i \in MgmtBlocks
    BY GeometryAssumption DEF MgmtBlocks, Blocks
  <1>2. b \in MgmtBlocks
    BY GeometryAssumption DEF MgmtBlocks, Blocks
  <1> QED BY <1>1, <1>2, Zenon DEF LoadableAt

LEMMA SameSearch ==
  ASSUME NEW fl, NEW bad, NEW fl2, NEW bad2, NEW st, NEW sig \in Blocks,
         \A b \in MgmtBlocks : fl2[b] = fl[b] /\ (b \in bad2 <=> b \in bad),
         NEW ba \in Nat, MgmtStart <= ba
  PROVE  SearchTable(fl2, st, bad2, sig, ba) = SearchTable(fl, st, bad, sig, ba)
  <1> DEFINE R == ba .. sig - TableBlocks - 1
             S == {b \in R : LoadableAt(fl, st, bad, sig, b)}
             S2 == {b \in R : LoadableAt(fl2, st, bad2, sig, b)}
  <1>1. \A b \in R : b \in MgmtStart .. (sig - TableBlocks) - 1
    BY GeometryAssumption DEF Blocks
  <1>2. \A b \in R : LoadableAt(fl2, st, bad2, sig, b) <=> LoadableAt(fl, st, bad, sig, b)
    BY <1>1, SameLoadable
  <1> HIDE DEF R
  <1>3. S2 = S
    BY <1>2, Zenon
  <1> QED BY <1>3, Zenon DEF SearchTable, R

\* Where a table search ends.
LEMMA SearchMgmt ==
  ASSUME NEW fl, NEW bad, NEW st, NEW sig \in Blocks, NEW ba \in Nat, MgmtStart <= ba,
         SearchTable(fl, st, bad, sig, ba) # NoBlock
  PROVE  SearchTable(fl, st, bad, sig, ba) \in ba .. (sig - TableBlocks) - 1
         /\ SearchTable(fl, st, bad, sig, ba) \in MgmtBlocks
  <1> DEFINE S == {b \in ba .. sig - TableBlocks - 1 : LoadableAt(fl, st, bad, sig, b)}
             b == SearchTable(fl, st, bad, sig, ba)
  <1>1. S \in SUBSET Nat /\ \A x \in S : x \in ba .. (sig - TableBlocks) - 1 /\ x \in MgmtBlocks
    BY GeometryAssumption DEF Blocks, MgmtBlocks
  <1>2. b = FirstOr(S, NoBlock)
    BY DEF SearchTable
  <1>3. b \in S
    <2> HIDE DEF S, b
    <2> QED BY <1>1, <1>2, FirstOrType DEF b
  <1> QED BY <1>1, <1>3

LEMMA SameSelected ==
  ASSUME NEW fl, NEW bad, NEW fl2, NEW bad2, NEW sig \in Blocks,
         \A b \in MgmtBlocks : fl2[b] = fl[b] /\ (b \in bad2 <=> b \in bad)
  PROVE  SelectedTable(fl2, bad2, sig) = SelectedTable(fl, bad, sig)
  <1> DEFINE b1 == FirstTable(fl, bad, sig)
             b2 == SecondTable(fl, bad, sig, b1)
  <1>0. MgmtStart \in Nat /\ MgmtStart <= MgmtStart
    BY GeometryAssumption
  <1>1. FirstTable(fl2, bad2, sig) = b1
    BY <1>0, SameSearch DEF FirstTable
  <1>2. CASE b1 = NoBlock
    BY <1>1, <1>2, SelectedIs, Zenon
  <1>3. CASE b1 # NoBlock
    <2>1. b1 \in MgmtStart .. (sig - TableBlocks) - 1 /\ b1 \in MgmtBlocks
      BY <1>0, <1>3, SearchMgmt DEF FirstTable
    <2> HIDE DEF b1
    <2>2. b1 + TableBlocks \in Nat /\ MgmtStart <= b1 + TableBlocks
      BY <2>1, GeometryAssumption
    <2>3. SecondTable(fl2, bad2, sig, b1) = b2
      BY <2>1, <2>2, SameSearch DEF SecondTable
    <2>4. b2 # NoBlock => b2 \in MgmtBlocks
      BY <2>2, SearchMgmt, Zenon DEF SecondTable
    <2> HIDE DEF b2
    <2>5. Newer(fl2, b1, b2) = Newer(fl, b1, b2) /\ Newer(fl, b1, b2) \in MgmtBlocks
      BY <2>1, <2>4, Zenon DEF Newer
    <2>6. SelectedTable(fl2, bad2, sig) = fl2[Newer(fl2, b1, b2)].table
      BY <1>1, <1>3, <2>3, SelectedIs, Zenon
    <2>7. SelectedTable(fl, bad, sig) = fl[Newer(fl, b1, b2)].table
      BY <1>3, SelectedIs, Zenon DEF b1, b2
    <2> QED BY <2>5, <2>6, <2>7, Zenon
  <1> QED BY <1>2, <1>3

LEMMA SameLoaded ==
  ASSUME NEW fl, NEW bad, NEW fl2, NEW bad2, FindSignature(fl, bad) \in Blocks \cup {NoBlock},
         \A b \in Logic : fl[b] # Sig /\ fl2[b] # Sig,
         \A b \in MgmtBlocks : fl2[b] = fl[b] /\ (b \in bad2 <=> b \in bad)
  PROVE  LoadedFrom(fl2, bad2) = LoadedFrom(fl, bad)
  <1> DEFINE sig == FindSignature(fl, bad)
  <1>1. FindSignature(fl2, bad2) = sig
    BY SameSignature
  <1>2. sig # NoBlock => SelectedTable(fl2, bad2, sig) = SelectedTable(fl, bad, sig)
    BY SameSelected
  <1> QED BY <1>1, <1>2, Zenon DEF LoadedFrom

LEMMA SamePersisted == ASSUME SigInv, SigInv', MgmtKept PROVE Persisted' = Persisted
  <1>1. \A b \in MgmtBlocks : flash'[b] = flash[b] /\ (b \in physBad' <=> b \in physBad)
    BY Zenon DEF MgmtKept
  <1>2. \A b \in Logic : flash[b] # Sig /\ flash'[b] # Sig
    BY Zenon DEF SigInv
  <1>3. FindSignature(flash, physBad) \in Blocks \cup {NoBlock}
    BY FindSignatureType
  <1>4. LoadedFrom(flash', physBad') = LoadedFrom(flash, physBad)
    BY <1>1, <1>2, <1>3, SameLoaded
  <1> QED BY <1>4, PersistedIs, PersistedNext, Zenon

-----------------------------------------------------------------------------
(* The steps that touch the chip.                                          *)

ChipStep ==
  \/ WriteErase \/ WriteProgram \/ RangeErase \/ SignatureErase \/ SignatureProgram \/ EraseTry
  \/ \E lb \in Logic : Write(lb) \/ MarkBad(lb)

LEMMA ChipSteps == ASSUME Next PROVE ChipStep \/ UNCHANGED <<flash, physBad>>
  <1>1. CASE Attach
    BY <1>1, Zenon DEF Attach, AttachNew, AttachNoTable, AttachExisting
  <1>2. CASE TableStep
    <2>1. CASE TableRoutine
      <3>1. UNCHANGED <<flash, physBad>>
        BY <2>1, Zenon
        DEF TableRoutine, WriteOutOfRange, RebuildMain, RebuildBackup, RebuildErased,
            RescueFrontErased, RescueBehindErased, RescueFront, RescueBehind, SingleMain,
            SingleBackup, RescueMainTemp, RescueMainMain, UpdateOnce, OnceBackup, OnceMain
      <3> QED BY <3>1
    <2>2. CASE UpdateReturn \/ CreateMap \/ CreateMapFail
      BY <2>2, Zenon DEF UpdateReturn, CreateMap, CreateMapFail
    <2> QED BY <1>2, <2>1, <2>2 DEF TableStep, TableRoutine, ChipStep
  <1>3. CASE EraseTry \/ EraseMapFail
    BY <1>3, Zenon DEF ChipStep, EraseMapFail
  <1>4. CASE Detached \/ Crash
    BY <1>4, Zenon DEF Detached, Crash, PowerOff
  <1>5. CASE ClientStep
    BY <1>5, Zenon DEF ChipStep, ClientStep, Erase, ReadFails, Detach
  <1> QED BY <1>1, <1>2, <1>3, <1>4, <1>5 DEF Next, Step

LEMMA NotSig ==
  /\ Blank # Sig /\ Garbage # Sig /\ (\A lb : Data(lb) # Sig) /\ \A t, i : Chunk(t, i) # Sig
  <1>1. Sig.kind = "sig" /\ Blank.kind = "blank" /\ Garbage.kind = "garbage"
    BY DEF Sig, Blank, Garbage
  <1>2. (\A lb : Data(lb).kind = "data") /\ \A t, i : Chunk(t, i).kind = "table"
    BY DEF Data, Chunk
  <1>3. "sig" # "blank" /\ "sig" # "garbage" /\ "sig" # "data" /\ "sig" # "table"
    OBVIOUS
  <1> QED BY <1>1, <1>2, <1>3, Zenon

LEMMA EraseSig ==
  ASSUME IInv, NEW c \in Blocks, ErasePhys(c) \/ ErasePhysFails(c), SigInv PROVE SigInv'
  <1>1. \A b \in Blocks : flash'[b] = flash[b] \/ flash'[b] = Blank
    BY DEF IInv, Chip, ErasePhys, ErasePhysFails, BlockFails
  <1>2. Logic \subseteq Blocks
    BY GeometryAssumption DEF Logic, Blocks
  <1> QED BY <1>1, <1>2, NotSig, Zenon DEF SigInv

LEMMA ChipStepSig == ASSUME IInv, SigInv, ChipStep PROVE SigInv'
  <1>0. ni \in InstanceType /\ Chip /\ Logic \subseteq Blocks
    BY GeometryAssumption DEF IInv, Logic, Blocks
  <1>1. CASE WriteErase \/ RangeErase
    <2>1. Here \in Blocks /\ (ErasePhys(Here) \/ ErasePhysFails(Here))
      BY <1>1, HereGood DEF WriteErase, RangeErase, TableCode
    <2> QED BY <2>1, EraseSig
  <1>2. CASE WriteProgram
    <2>1. \/ flash' = [flash EXCEPT ![io.ba] = Chunk(ni.cache, TableBlocks - io.left)]
          \/ BlockFails(io.ba, {Blank, Chunk(ni.cache, TableBlocks - io.left)})
      BY <1>2, Zenon DEF WriteProgram
    <2>2. \A b \in Blocks : flash'[b] \in {flash[b], Chunk(ni.cache, TableBlocks - io.left), Blank}
      BY <1>0, <2>1 DEF Chip, BlockFails
    <2> QED BY <1>0, <2>2, NotSig DEF SigInv
  <1>3. CASE SignatureErase
    <2>1. \/ UNCHANGED flash
          \/ /\ SignatureBlock # NoBlock
             /\ ErasePhys(SignatureBlock) \/ ErasePhysFails(SignatureBlock)
      BY <1>3, Zenon DEF SignatureErase
    <2>2. io.ba \in Blocks
      BY <1>3 DEF SignatureErase, IInv, Control
    <2>3. SignatureBlock = NoBlock \/ SignatureBlock \in MgmtStart + 1 .. BlockCount - 1
      BY <2>2, SignatureBlockType
    <2>4. SignatureBlock # NoBlock => SignatureBlock \in Blocks
      BY <2>3, GeometryAssumption DEF Blocks
    <2> QED BY <2>1, <2>4, EraseSig DEF SigInv
  <1>4. CASE SignatureProgram
    <2>1. io.ba \in MgmtStart + 1 .. BlockCount - 1
      BY <1>4 DEF SignatureProgram, IInv, Control
    <2>2. io.ba \notin Logic
      BY <2>1, GeometryAssumption DEF Logic
    <2>3. flash' = [flash EXCEPT ![io.ba] = Sig] \/ BlockFails(io.ba, {Blank, Sig})
      BY <1>4, Zenon DEF SignatureProgram
    <2>4. \A b \in Blocks : b # io.ba => flash'[b] = flash[b]
      BY <1>0, <2>3 DEF Chip, BlockFails
    <2> QED BY <1>0, <2>2, <2>4, Zenon DEF SigInv
  <1>5. CASE EraseTry
    <2> DEFINE pb == ni.block_mapping[call.lb]
    <2>1. UNCHANGED flash \/ (pb # NoBlock /\ (ErasePhys(pb) \/ ErasePhysFails(pb)))
      BY <1>5, Zenon DEF EraseTry
    <2>2. pb # NoBlock => pb \in Blocks
      BY <1>0 DEF IInv, CallOK, CallType, InstanceType, MappingTables
    <2> HIDE DEF pb
    <2> QED BY <2>1, <2>2, EraseSig DEF SigInv
  <1>6. ASSUME NEW lb \in Logic, Write(lb) \/ MarkBad(lb) PROVE SigInv'
    <2> DEFINE pb == ni.block_mapping[lb]
    <2>1. \/ UNCHANGED flash
          \/ \E c \in {Data(lb), Garbage, Blank} : flash' = [flash EXCEPT ![pb] = c]
      <3>1. CASE Write(lb)
        BY <3>1 DEF Write
      <3>2. CASE MarkBad(lb)
        BY <3>2, Zenon DEF MarkBad
      <3> QED BY <1>6, <3>1, <3>2
    <2>2. CASE UNCHANGED flash
      BY <2>2 DEF SigInv
    <2>3. ASSUME NEW c \in {Data(lb), Garbage, Blank}, flash' = [flash EXCEPT ![pb] = c]
          PROVE  SigInv'
      <3>1. \A b \in Blocks : flash'[b] = flash[b] \/ flash'[b] = c
        BY <1>0, <2>3 DEF Chip
      <3>2. c # Sig
        BY NotSig
      <3> QED BY <1>0, <3>1, <3>2, Zenon DEF SigInv
    <2> QED BY <2>1, <2>2, <2>3
  <1> QED BY <1>1, <1>2, <1>3, <1>4, <1>5, <1>6 DEF ChipStep

LEMMA InitSig == Init => SigInv
  BY NotSig, GeometryAssumption DEF Init, SigInv, Logic, Blocks

LEMMA NextSig == IInv /\ SigInv /\ [Next]_vars => SigInv'
  <1>1. ASSUME IInv, SigInv, Next PROVE SigInv'
    BY <1>1, ChipSteps, ChipStepSig DEF SigInv
  <1>2. ASSUME SigInv, UNCHANGED vars PROVE SigInv'
    BY <1>2 DEF SigInv, vars
  <1> QED BY <1>1, <1>2

-----------------------------------------------------------------------------
(* What a step does to the mapping and the table cache in RAM.             *)

SameRam == ni'.block_mapping = ni.block_mapping /\ ni'.cache = ni.cache

RemapRam ==
  /\ ni'.cache = ni.cache
  /\ \E lb \in Logic : \A other \in Logic \ {lb} :
       ni'.block_mapping[other] = ni.block_mapping[other]

PrepareRam ==
  /\ ni'.block_mapping = ni.block_mapping
  /\ ni'.cache \in Tables /\ ni'.cache.map = ni.block_mapping

RamStep ==
  /\ pc # "off" /\ pc' # "off"
  /\ SameRam \/ (pc \notin TableCode /\ (RemapRam \/ PrepareRam))

\* A table routine goes on, or returns to the operation that called for it.
RoutineFrame ==
  /\ pc \in {"wErase", "wProgram", "ret", "range", "update", "sErase", "sProgram"}
  /\ pc' # "off" /\ call' = call /\ view' = view
  /\ pc' \in {"eraseTry", "eraseMapFail"} => call.then = pc'
  /\ pc' = "createMap" => call.by = "create"

LEMMA RoutineCache ==
  ASSUME IInv, TableRoutine, ~UpdateOnce PROVE ni'.cache = ni.cache /\ RoutineFrame
  <1> USE DEF IInv, InstanceType, CallOK, CallType, RoutineFrame
  <1>1. CASE RebuildMain
    BY <1>1 DEF RebuildMain, Returned, TableReturn, WriteTable, Clean
  <1>2. CASE RebuildBackup
    BY <1>2 DEF RebuildBackup, Returned, TableReturn, EraseRange
  <1>3. CASE RebuildErased \/ RescueFrontErased \/ RescueBehindErased
    BY <1>3 DEF RebuildErased, RescueFrontErased, RescueBehindErased, RangeErased,
       TableReturn, Clean
  <1>4. CASE RescueFront
    BY <1>4 DEF RescueFront, Returned, WriteTable, TableReturn, EraseRange, Clean
  <1>5. CASE RescueBehind
    BY <1>5 DEF RescueBehind, Returned, WriteTable, TableReturn, EraseRange
  <1>6. CASE SingleMain
    BY <1>6 DEF SingleMain, Returned, WriteTable, TableReturn, RescueSingle, Clean
  <1>7. CASE SingleBackup
    BY <1>7 DEF SingleBackup, Returned, TableReturn, Clean
  <1>8. CASE RescueMainTemp
    BY <1>8 DEF RescueMainTemp, Returned, WriteTable, TableReturn, BackupBecomesMain
  <1>9. CASE RescueMainMain
    BY <1>9 DEF RescueMainMain, Returned, TableReturn, Clean
  <1>10. CASE OnceBackup
    BY <1>10 DEF OnceBackup, Returned, WriteMain, Rebuild, WriteTable, Clean
  <1>11. CASE OnceMain
    BY <1>11 DEF OnceMain, Returned, RescueMain, BackupBecomesMain, TableReturn, Rebuild,
       WriteTable, Clean
  <1>12. CASE WriteOutOfRange
    BY <1>12 DEF WriteOutOfRange
  <1> QED
    BY <1>1, <1>2, <1>3, <1>4, <1>5, <1>6, <1>7, <1>8, <1>9, <1>10, <1>11, <1>12 DEF
       TableRoutine

LEMMA CachedMap ==
  ASSUME NEW n \in InstanceType
  PROVE  LET g == GenerateCache(n)
         IN  /\ g.block_mapping = n.block_mapping /\ g.cache.map = n.block_mapping
             /\ g.cache \in Tables /\ g \in InstanceType
  <1>1. GenerateCache(n) \in InstanceType
    BY GenerateCacheType
  <1>2. GenerateCache(n).block_mapping = n.block_mapping
    BY DEF GenerateCache, InstanceType
  <1>3. GenerateCache(n).cache.map = n.block_mapping
    BY DEF GenerateCache, InstanceType
  <1>4. GenerateCache(n).cache \in Tables
    BY <1>1 DEF InstanceType
  <1> QED BY <1>1, <1>2, <1>3, <1>4

\* nmbm_generate_info_table_cache, called from nmbm_update_info_table_once.
LEMMA UpdateOnceRam == ASSUME IInv, UpdateOnce PROVE RamStep
  <1> DEFINE g == GenerateCache(ni)
  <1>1. pc = "update" /\ pc' = "wErase" /\ ni \in InstanceType
    BY DEF UpdateOnce, WriteMain, Rebuild, WriteTable, IInv
  <1>2. ni' = g \/ ni' = [g EXCEPT !.main_table_ba = 0, !.backup_table_ba = 0,
                                   !.mapping_blocks_ba = g.mapping_blocks_top_ba]
    BY Zenon DEF UpdateOnce, WriteMain, Rebuild
  <1>3. /\ g.block_mapping = ni.block_mapping /\ g.cache.map = ni.block_mapping
        /\ g.cache \in Tables /\ g \in InstanceType
    BY <1>1, CachedMap
  <1> HIDE DEF g
  <1>4. PrepareRam
    BY <1>2, <1>3 DEF PrepareRam, InstanceType
  <1> QED BY <1>1, <1>4 DEF RamStep, TableCode

LEMMA RoutineRam ==
  ASSUME IInv, TableRoutine \/ WriteErase \/ WriteProgram \/ RangeErase PROVE RamStep
  <1>1. CASE UpdateOnce
    BY <1>1, UpdateOnceRam
  <1>2. CASE TableRoutine /\ ~UpdateOnce
    <2>1. ni'.block_mapping = ni.block_mapping /\ pc # "off"
      BY <1>2, RoutineSteps DEF Routine, KeptBy, TableCode, ClientCode
    <2> QED BY <1>2, <2>1, RoutineCache DEF RamStep, SameRam, RoutineFrame
  <1>3. CASE WriteErase \/ WriteProgram \/ RangeErase
    BY <1>3 DEF IInv, WriteErase, WriteProgram, RangeErase, SetState, RamStep, SameRam,
       InstanceType
  <1> QED BY <1>1, <1>2, <1>3

\* A move of the client side changes one entry of the mapping at most.
LEMMA MoveOne ==
  ASSUME ni \in InstanceType, ClientMove
  PROVE  \E lb \in Logic : \A other \in Logic \ {lb} :
           ni'.block_mapping[other] = ni.block_mapping[other]
  <1>0. ni.block_mapping \in [Logic -> Blocks \cup {NoBlock}] /\ 0 \in Logic
    BY GeometryAssumption DEF InstanceType, MappingTables, Logic
  <1>1. \/ ni'.block_mapping = ni.block_mapping
        \/ \E lb \in Logic : ni'.block_mapping = [ni.block_mapping EXCEPT ![lb] = NoBlock]
        \/ \E lb \in Logic, pb \in Blocks : ni'.block_mapping = [ni.block_mapping EXCEPT ![lb] = pb]
    BY Zenon DEF ClientMove, Adjusted, Pooled, Mapped
  <1>2. CASE ni'.block_mapping = ni.block_mapping
    BY <1>0, <1>2, Zenon
  <1>3. ASSUME NEW lb \in Logic, NEW pb \in Blocks \cup {NoBlock},
               ni'.block_mapping = [ni.block_mapping EXCEPT ![lb] = pb]
        PROVE  \A other \in Logic \ {lb} : ni'.block_mapping[other] = ni.block_mapping[other]
    BY <1>0, <1>3
  <1> QED BY <1>1, <1>2, <1>3, Zenon

LEMMA RemapCache ==
  ASSUME NEW n \in InstanceType, NEW lb, NEW pb, RemapLogicBlock(n, lb, pb)
  PROVE  ni'.cache = n.cache
  <1>1. \/ ni' = Retire([n EXCEPT !.block_mapping[lb] = NoBlock], pb)
        \/ ni' = n
        \/ ni' = Retire(MapTo(n, lb, SpareFor(n)), pb)
    BY Zenon DEF RemapLogicBlock, EraseUnusable, UpdateInfoTable
  <1> QED BY <1>1 DEF Retire, SetState, MapTo, InstanceType

ClientAction ==
  \/ CreateMap \/ CreateMapFail \/ EraseTry \/ EraseMapFail \/ UpdateReturn \/ ClientStep

LEMMA ClientMoves == ASSUME IInv, ClientAction PROVE ClientMove
  BY CreateMapMove, EraseTryMove, PoolMove, RequestMove DEF ClientAction, ClientStep

LEMMA ClientCache == ASSUME IInv, ClientAction PROVE ni'.cache = ni.cache
  <1>0. ni \in InstanceType /\ call \in CallType
    BY DEF IInv, CallOK
  <1>1. CASE CreateMap
    <2>1. ni' = ni \/ ni' = [MapTo(ni, ni.data_block_count, SpareFor(ni)) EXCEPT
                               !.data_block_count = ni.data_block_count + 1]
      BY <1>1, Zenon DEF CreateMap, UpdateInfoTable
    <2> QED BY <1>0, <2>1 DEF MapTo, InstanceType
  <1>2. CASE CreateMapFail \/ EraseMapFail
    <2> DEFINE n == [ni EXCEPT !.mapping_blocks_top_ba = ni.mapping_blocks_ba]
    <2>1. ni' = n \/ ni' = Retire([n EXCEPT !.block_mapping[call.lb] = NoBlock], call.pb)
      BY <1>2, Zenon DEF CreateMapFail, EraseMapFail, EraseUnusable, UpdateInfoTable
    <2>2. n \in InstanceType /\ n.cache = ni.cache
      BY <1>0 DEF InstanceType
    <2> HIDE DEF n
    <2> QED BY <2>1, <2>2 DEF Retire, SetState, InstanceType
  <1>3. CASE EraseTry
    <2> DEFINE pb == ni.block_mapping[call.lb]
               k  == SetState(ni, pb, BAD)
    <2>1. \/ UNCHANGED ni
          \/ pb # NoBlock /\ RemapLogicBlock(ni, call.lb, pb)
          \/ pb # NoBlock /\ RemapLogicBlock(k, call.lb, pb)
      BY <1>3, Zenon DEF EraseTry
    <2>2. pb # NoBlock => pb \in Blocks
      BY <1>0 DEF InstanceType, MappingTables, CallType
    <2>3. pb # NoBlock => k \in InstanceType
      BY <1>0, <2>2, SetStateType DEF States
    <2>4. k.cache = ni.cache
      BY <1>0 DEF SetState, InstanceType
    <2> HIDE DEF k, pb
    <2> QED BY <1>0, <2>1, <2>3, <2>4, RemapCache, Zenon
  <1>4. CASE UpdateReturn \/ Detach
    BY <1>4, Zenon DEF UpdateReturn, Detach, UpdateInfoTable
  <1>5. ASSUME NEW lb \in Logic, Erase(lb) \/ ReadFails(lb) \/ Write(lb) \/ MarkBad(lb)
        PROVE  ni'.cache = ni.cache
    <2> DEFINE pb == ni.block_mapping[lb]
    <2>1. \/ ni' = ni \/ ni' = SetState(ni, pb, NEED_REMAP)
          \/ ni' = SetState([ni EXCEPT !.block_mapping[lb] = NoBlock], pb, BAD)
      <3>1. CASE Erase(lb) \/ ReadFails(lb) \/ MarkBad(lb)
        BY <3>1, Zenon DEF Erase, ReadFails, MarkBad, UpdateInfoTable
      <3>2. CASE Write(lb)
        <4>1. UNCHANGED ni \/ UpdateInfoTable(SetState(ni, pb, NEED_REMAP), lb, pb, "idle")
          BY <3>2, Zenon DEF Write
        <4> QED BY <4>1, Zenon DEF UpdateInfoTable
      <3> QED BY <1>5, <3>1, <3>2
    <2> QED BY <1>0, <2>1 DEF SetState, InstanceType
  <1> QED BY <1>1, <1>2, <1>3, <1>4, <1>5 DEF ClientAction, ClientStep

LEMMA ClientRam == ASSUME IInv, ClientAction PROVE RamStep
  <1>1. ni \in InstanceType
    BY DEF IInv
  <1>2. RemapRam
    BY <1>1, ClientMoves, ClientCache, MoveOne DEF RemapRam
  <1> QED BY <1>2, ClientMoves DEF RamStep, ClientMove, ClientCode, TableCode

\* nmbm_write_signature, and nmbm_create_info_table after it.
LEMMA SignatureRam ==
  ASSUME IInv, SignatureErase \/ SignatureProgram PROVE RamStep /\ (SameRam \/ PrepareRam)
  <1>0. ni \in InstanceType
    BY DEF IInv
  <1>1. CASE SignatureErase
    BY <1>0, <1>1 DEF SignatureErase, SetState, RamStep, SameRam, InstanceType
  <1>2. CASE SignatureProgram
    <2> DEFINE n == [ni EXCEPT !.signature_ba = io.ba]
               top == WalkDesc(n.block_state, io.ba, 1, MgmtStart)
               m == [n EXCEPT !.mapping_blocks_top_ba = top]
               g == GenerateCache(m)
               r == [g EXCEPT !.main_table_ba = 0, !.backup_table_ba = 0,
                              !.mapping_blocks_ba = g.mapping_blocks_top_ba]
    <2>1. \/ ni' = n /\ pc' = "dead"
          \/ top # NoBlock /\ ni' = r /\ pc' = "wErase"
          \/ ni' = SetState(ni, io.ba, BAD) /\ pc' = "sErase"
      BY <1>2, Zenon DEF SignatureProgram, CreateInfoTable, Rebuild, WriteTable
    <2>2. pc = "sProgram"
      BY <1>2 DEF SignatureProgram
    <2>3. CASE ni' = n /\ pc' = "dead"
      BY <1>0, <2>2, <2>3 DEF RamStep, SameRam, InstanceType
    <2>4. CASE ni' = SetState(ni, io.ba, BAD) /\ pc' = "sErase"
      BY <1>0, <2>2, <2>4 DEF RamStep, SameRam, InstanceType, SetState
    <2>5. CASE top # NoBlock /\ ni' = r /\ pc' = "wErase"
      <3>1. m.block_mapping = ni.block_mapping
        BY <1>0 DEF InstanceType
      <3>2. io.ba \in Blocks /\ n \in InstanceType
        <4>1. io.ba \in MgmtStart + 1 .. BlockCount - 1
          BY <1>2 DEF SignatureProgram, IInv, Control
        <4>2. io.ba \in Blocks
          BY <4>1, GeometryAssumption DEF Blocks
        <4> QED BY <1>0, <4>2 DEF InstanceType
      <3>3. top \in Addresses
        <4>1. top \in MgmtStart + 1 .. io.ba - 1
          BY <2>5, <3>2, WalkDescPast
        <4> QED BY <3>2, <4>1, GeometryAssumption DEF Addresses, Blocks
      <3> HIDE DEF top
      <3>4. m \in InstanceType
        BY <3>2, <3>3 DEF InstanceType
      <3> HIDE DEF m
      <3>5. /\ g.block_mapping = m.block_mapping /\ g.cache.map = m.block_mapping
            /\ g.cache \in Tables /\ g \in InstanceType
        BY <3>4, CachedMap
      <3> HIDE DEF g
      <3>6. PrepareRam
        BY <2>5, <3>1, <3>5 DEF PrepareRam, InstanceType
      <3> QED BY <2>2, <2>5, <3>6 DEF RamStep, TableCode
    <2> QED BY <2>1, <2>3, <2>4, <2>5
  <1> QED BY <1>1, <1>2

-----------------------------------------------------------------------------
(* nmbm_attach restores the mapping of the table it selects.               *)

LEMMA NoReadErrors == ASSUME ~ReadMayFail, NEW err \in ReadErrors PROVE physBad \cup err = physBad
  BY DEF ReadErrors

LEMMA AttachedMap ==
  ASSUME IInv, ~ReadMayFail, AttachExisting
  PROVE  ni'.block_mapping = Persisted.map
  <1>1. PICK err \in ReadErrors : \E sig, b1, b2, n :
          Found(err, sig, b1, b2, n) /\ LoadStep(b1, b2, n)
    BY AttachFinds
  <1>2. PICK sig, b1, b2, n : Found(err, sig, b1, b2, n) /\ LoadStep(b1, b2, n)
    BY <1>1
  <1>3. physBad \cup err = physBad
    BY NoReadErrors
  <1>4. /\ sig = FindSignature(flash, physBad) /\ sig \in Blocks
        /\ b1 = FirstTable(flash, physBad, sig) /\ b1 # NoBlock
        /\ b2 = SecondTable(flash, physBad, sig, b1)
        /\ (\E marked : n = LoadedInstance(sig, marked, b1, b2)) /\ n \in InstanceType
    BY <1>2, <1>3, Zenon DEF Found
  <1>5. sig # NoBlock
    BY <1>4, GeometryAssumption DEF Blocks, NoBlock
  <1>6. Persisted = flash[Newer(flash, b1, b2)].table
    <2>1. Persisted = SelectedTable(flash, physBad, sig)
      BY <1>4, <1>5, PersistedIs, Zenon DEF LoadedFrom
    <2>2. SelectedTable(flash, physBad, sig) =
            IF b1 = NoBlock THEN NoTable ELSE flash[Newer(flash, b1, b2)].table
      BY <1>4, SelectedIs, Zenon
    <2> QED BY <1>4, <2>1, <2>2, Zenon
  <1>7. n.block_mapping = Persisted.map
    <2>1. n.block_mapping = IF b2 # NoBlock /\ flash[b2].table.wc > flash[b1].table.wc
                            THEN flash[b2].table.map ELSE flash[b1].table.map
      BY <1>4, LoadedFields
    <2>2. CASE b2 # NoBlock /\ flash[b2].table.wc > flash[b1].table.wc
      BY <1>6, <2>1, <2>2, Zenon DEF Newer
    <2>3. CASE ~ (b2 # NoBlock /\ flash[b2].table.wc > flash[b1].table.wc)
      BY <1>6, <2>1, <2>3, Zenon DEF Newer
    <2> QED BY <2>2, <2>3
  <1>8. ni'.block_mapping = n.block_mapping
    <2>1. ni' = n \/ ni' = [n EXCEPT !.dirty = TRUE] \/ ni' = [n EXCEPT !.protected = NoUnmapped(n)]
      BY <1>2, Zenon DEF LoadStep, RescueSingle, UpdateSingle
    <2> QED BY <1>4, <2>1 DEF InstanceType
  <1> QED BY <1>7, <1>8

\* Where an attach goes on.
LEMMA AttachNoTableLabel == ASSUME IInv, AttachNoTable PROVE pc' \in {"dead", "wErase"}
  <1>1. \A n, sig : CreateInfoTable(n, sig) => pc' = "dead" \/ pc' = "wErase"
    BY Zenon DEF CreateInfoTable, Rebuild, WriteTable
  <1> QED BY <1>1, NoTableInstance

LEMMA AttachExistingLabel == ASSUME AttachExisting PROVE pc' \in {"wErase", "idle"}
  <1>1. \A n : RescueSingle(n) => pc' = "wErase"
    BY Zenon DEF RescueSingle, WriteTable
  <1>2. \A n, main : UpdateSingle(n, main) => pc' = "wErase"
    BY Zenon DEF UpdateSingle, WriteTable
  <1>3. pc' = "wErase" \/ pc' = "idle"
    BY <1>1, <1>2, Zenon DEF AttachExisting
  <1> QED BY <1>3

LEMMA AttachRestores ==
  ASSUME IInv, ~ReadMayFail, Attach
  PROVE  /\ pc = "off" /\ pc' # "off"
         /\ Persisted # NoTable => ni'.block_mapping = Persisted.map
         /\ AttachExisting \/ Persisted = NoTable
  <1>1. CASE AttachNew
    <2>1. Persisted = NoTable
      BY <1>1, PersistedIs, Zenon DEF AttachNew, LoadedFrom
    <2>2. pc = "off" /\ (pc' = "sErase" \/ pc' = "dead")
      BY <1>1, Zenon DEF AttachNew
    <2> QED BY <2>1, <2>2
  <1>2. CASE AttachNoTable
    <2>1. PICK err \in ReadErrors :
            /\ FindSignature(flash, physBad \cup err) # NoBlock
            /\ FirstTable(flash, physBad \cup err, FindSignature(flash, physBad \cup err)) = NoBlock
      BY <1>2, Zenon DEF AttachNoTable
    <2>2. physBad \cup err = physBad
      BY NoReadErrors
    <2>3. Persisted = NoTable
      BY <2>1, <2>2, PersistedIs, SelectedIs, Zenon DEF LoadedFrom
    <2>4. pc = "off"
      BY <1>2 DEF AttachNoTable
    <2> QED BY <1>2, <2>3, <2>4, AttachNoTableLabel
  <1>3. CASE AttachExisting
    <2>1. pc = "off"
      BY <1>3, Zenon DEF AttachExisting
    <2> QED BY <1>3, <2>1, AttachExistingLabel, AttachedMap
  <1> QED BY <1>1, <1>2, <1>3 DEF Attach

-----------------------------------------------------------------------------
(* The refinement.                                                         *)

LEMMA TableIsNot == ASSUME NEW t \in Tables PROVE t # NoTable
  <1>1. DOMAIN t = {"wc", "st", "map"} /\ DOMAIN NoTable = {"wc"}
    BY DEF Tables, NoTable
  <1>2. "st" # "wc"
    OBVIOUS
  <1> QED BY <1>1, <1>2

LEMMA ImageMap ==
  ASSUME NEW t, t # NoTable
  PROVE  ImageOf(t) # NoTable /\ ImageOf(t).map = t.map
  <1> DEFINE R == {lb \in Logic : t.map[lb] # NoBlock /\ t.st[t.map[lb]] = NEED_REMAP}
             i == [map |-> t.map, remap |-> R]
  <1>1. ImageOf(t) = i
    BY ImageOfIs, Zenon
  <1> HIDE DEF R
  <1>2. i.map = t.map /\ DOMAIN i = {"map", "remap"} /\ DOMAIN NoTable = {"wc"}
    BY DEF NoTable
  <1>3. "map" # "wc"
    OBVIOUS
  <1> HIDE DEF i
  <1> QED BY <1>1, <1>2, <1>3

LEMMA NoImage == ImageOf(NoTable) = NoTable
  BY ImageOfIs, Zenon

LEMMA ImageNext ==
  /\ ImageOf(Persisted)' = ImageOf(Persisted')
  /\ ImageOf(ni.cache)' = ImageOf(ni'.cache)
  BY Zenon DEF ImageOf

LEMMA SameDurable ==
  ASSUME SigInv, SigInv', MgmtKept PROVE ImageOf(Persisted)' = ImageOf(Persisted)
  BY SamePersisted, ImageNext, Zenon

AtomicVars == <<ImageOf(Persisted), pc # "off", ni.block_mapping, ImageOf(ni.cache)>>

LEMMA InitAtomic == Init => Atomic!Init
  <1> SUFFICES ASSUME Init PROVE Atomic!Init
    OBVIOUS
  <1>1. FindSignature(flash, physBad) = NoBlock
    <2>1. \A b \in Blocks : flash[b] # Sig
      BY NotSig DEF Init
    <2>2. {b \in Blocks : flash[b] = Sig /\ b \notin physBad} = {}
      BY <2>1, Zenon
    <2> QED BY <2>2, Zenon DEF FindSignature
  <1>2. ImageOf(Persisted) = NoTable
    BY <1>1, PersistedIs, NoImage, Zenon DEF LoadedFrom
  <1>3. pc = "off" /\ ni.block_mapping = [lb \in Logic |-> NoBlock]
    BY DEF Init, NewInstance
  <1> QED BY <1>2, <1>3, Zenon DEF Atomic!Init, Atomic!Unmapped

\* A step in RAM that leaves the management area alone is a remap or the
\* preparation of an image.
LEMMA RamAtomic ==
  ASSUME RamStep, ImageOf(Persisted)' = ImageOf(Persisted)
  PROVE  Atomic!Next \/ UNCHANGED AtomicVars
  <1>1. pc # "off" /\ pc' # "off"
    BY DEF RamStep
  <1>2. CASE SameRam
    <2>1. ImageOf(ni.cache)' = ImageOf(ni.cache) /\ ni'.block_mapping = ni.block_mapping
      BY <1>2, ImageNext, Zenon DEF SameRam
    <2> QED BY <1>1, <2>1, Zenon DEF AtomicVars
  <1>3. CASE pc \notin TableCode /\ RemapRam
    <2>1. ImageOf(ni.cache)' = ImageOf(ni.cache)
      BY <1>3, ImageNext, Zenon DEF RemapRam
    <2> QED BY <1>1, <1>3, <2>1, Zenon DEF RemapRam, Atomic!Next, Atomic!Remap
  <1>4. CASE pc \notin TableCode /\ PrepareRam
    <2>1. ImageOf(ni'.cache).map = ni.block_mapping
      BY <1>4, TableIsNot, ImageMap, Zenon DEF PrepareRam
    <2>2. ImageOf(ni.cache)'.map = ni.block_mapping
      BY <2>1, ImageNext, Zenon
    <2> QED BY <1>1, <1>4, <2>2, Zenon DEF PrepareRam, Atomic!Next, Atomic!Prepare
  <1> QED BY <1>2, <1>3, <1>4 DEF RamStep

LEMMA AttachAtomic ==
  ASSUME IInv, ~ReadMayFail, Attach, ImageOf(Persisted)' = ImageOf(Persisted)
  PROVE  Atomic!Next
  <1>1. ImageOf(Persisted) # NoTable => ni'.block_mapping = ImageOf(Persisted).map
    <2>1. ImageOf(Persisted) # NoTable => Persisted # NoTable
      BY NoImage, Zenon
    <2>2. Persisted # NoTable => ImageOf(Persisted).map = Persisted.map
      BY ImageMap, Zenon
    <2> QED BY <2>1, <2>2, AttachRestores, Zenon
  <1> QED BY <1>1, AttachRestores, Zenon DEF Atomic!Next, Atomic!PowerUp

LEMMA PowerOffAtomic ==
  ASSUME pc # "off", PowerOff, ImageOf(Persisted)' = ImageOf(Persisted)
  PROVE  Atomic!Next
  <1>1. pc' = "off" /\ ni'.block_mapping = [lb \in Logic |-> NoBlock]
    BY DEF PowerOff, NewInstance
  <1> QED BY <1>1, Zenon DEF Atomic!Next, Atomic!PowerDown, Atomic!Unmapped

\* Without an erase or program in the management area the image is neither lost
\* nor replaced; with one, only the image itself may change.
ImageStep ==
  /\ MgmtKept => Atomic!Next \/ UNCHANGED AtomicVars
  /\ ~MgmtKept => RamStep

LEMMA NextAtomic ==
  ASSUME IInv, SigInv, SigInv', ~ReadMayFail, [Next]_vars PROVE [ImageStep]_vars
  <1>1. CASE Attach
    <2>1. MgmtKept
      BY <1>1, Zenon DEF Attach, AttachNew, AttachNoTable, AttachExisting, MgmtKept
    <2> QED BY <1>1, <2>1, SameDurable, AttachAtomic DEF ImageStep
  <1>2. CASE Detached \/ Crash
    <2>1. PowerOff /\ pc # "off"
      BY <1>2 DEF Detached, Crash
    <2>2. MgmtKept
      BY <2>1, Zenon DEF PowerOff, MgmtKept
    <2> QED BY <2>1, <2>2, SameDurable, PowerOffAtomic DEF ImageStep
  <1>3. CASE TableStep \/ EraseTry \/ EraseMapFail \/ ClientStep
    <2>1. RamStep
      BY <1>3, RoutineRam, SignatureRam, ClientRam DEF TableStep, TableRoutine, ClientAction
    <2> QED BY <2>1, SameDurable, RamAtomic DEF ImageStep
  <1> QED BY <1>1, <1>2, <1>3 DEF Next, Step

\* What stands between nmbm-core.c and one atomically replaced image.  With
\* read errors of an attach left out, every step that erases or programs no
\* management block is a step of NmbmAtomic other than a commit, or none: the
\* image that the next attach loads stays, a power cut loses nothing else, and
\* an attach restores its mapping exactly.  A step that does erase or program
\* one is taken with the power on, and in memory it changes no mapping but that
\* of a single logic block, and no prepared image.
THEOREM NmbmImageSteps ==
  ASSUME ~ReadMayFail PROVE Spec => Atomic!Init /\ [][ImageStep]_vars
  <1>1. Init => SigInv
    BY InitSig
  <1>2. IInv /\ SigInv /\ [Next]_vars => SigInv'
    BY NextSig
  <1>3. Spec => []IInv
    BY NmbmSaveInductive, PTL
  <1>4. IInv /\ SigInv /\ SigInv' /\ [Next]_vars => [ImageStep]_vars
    BY NextAtomic
  <1>5. Init => Atomic!Init
    BY InitAtomic
  <1> QED BY <1>1, <1>2, <1>3, <1>4, <1>5, PTL DEF Spec

-----------------------------------------------------------------------------
(* Acknowledged data.                                                      *)

\* The blocks of mapping map hold what view says.
DataAt(map, fl, v) ==
  \A lb \in Logic :
    /\ v[lb] = "written" => map[lb] # NoBlock /\ fl[map[lb]] = Data(lb)
    /\ v[lb] = "erased" => map[lb] # NoBlock /\ fl[map[lb]] = Blank

NothingSaid == \A lb \in Logic : view[lb] = "unknown"

DataInv ==
  /\ pc # "off" => DataAt(ni.block_mapping, flash, view)
  /\ pc = "off" => /\ DataAt(Persisted.map, flash, view)
                   /\ Persisted = NoTable => NothingSaid

\* nmbm_erase_logic_block has withdrawn what was said about its block.
Erasing ==
  \/ pc \in {"eraseTry", "eraseMapFail"}
  \/ /\ pc \notin {"idle", "off", "dead"}
     /\ call.then \in {"eraseTry", "eraseMapFail"}

Withdrawn == Erasing => view[call.lb] = "unknown"

\* nmbm_create_new, or nmbm_load_existing without a table, is under way.
Creating ==
  \/ pc = "createMap"
  \/ /\ pc \in {"wErase", "wProgram", "ret", "range", "update", "sErase", "sProgram"}
     /\ call.by = "create"

Fresh == Creating => NothingSaid

LEMMA FrameErase == ASSUME Withdrawn, RoutineFrame PROVE Withdrawn'
  BY DEF Withdrawn, Erasing, RoutineFrame

LEMMA TableFrames ==
  ASSUME IInv, TableStep, ~CreateMap, ~CreateMapFail PROVE RoutineFrame
  <1>1. CASE TableRoutine /\ ~UpdateOnce
    BY <1>1, RoutineCache
  <1>2. CASE UpdateOnce
    BY <1>2 DEF UpdateOnce, WriteMain, Rebuild, WriteTable, RoutineFrame
  <1>3. CASE UpdateReturn
    BY <1>3, PoolMove DEF UpdateReturn, RoutineFrame, ClientMove, ClientCode, IInv, CallOK, CallType
  <1>4. CASE WriteErase \/ WriteProgram \/ RangeErase
    BY <1>4 DEF WriteErase, WriteProgram, RangeErase, RoutineFrame
  <1>5. CASE SignatureErase
    BY <1>5 DEF SignatureErase, RoutineFrame
  <1>6. CASE SignatureProgram
    BY <1>6 DEF SignatureProgram, CreateInfoTable, Rebuild, WriteTable, RoutineFrame
  <1> QED BY <1>1, <1>2, <1>3, <1>4, <1>5, <1>6 DEF TableStep, TableRoutine

LEMMA EraseTryErase == ASSUME IInv, Withdrawn, EraseTry \/ EraseMapFail PROVE Withdrawn'
  <1>1. pc \in {"eraseTry", "eraseMapFail"}
    BY DEF EraseTry, EraseMapFail
  <1>2. view[call.lb] = "unknown"
    BY <1>1 DEF Withdrawn, Erasing
  <1>3. pc' = "idle" \/ (view' = view /\ call'.lb = call.lb)
    BY DEF EraseTry, EraseMapFail, RemapLogicBlock, EraseUnusable, UpdateInfoTable
  <1> QED BY <1>2, <1>3 DEF Withdrawn, Erasing

LEMMA NextErase == IInv /\ Withdrawn /\ [Next]_vars => Withdrawn'
  <1> SUFFICES ASSUME IInv, Withdrawn, [Next]_vars PROVE Withdrawn'
    OBVIOUS
  <1>1. CASE Attach
    <2>1. call' = [NoCall EXCEPT !.by = "create"] \/ call' = [NoCall EXCEPT !.by = "load"]
      BY <1>1, Zenon DEF Attach, AttachNew, AttachNoTable, AttachExisting
    <2>2. call'.then = "none"
      BY <2>1 DEF NoCall
    <2>3. pc' \in {"sErase", "dead", "wErase", "idle"}
      <3>1. CASE AttachNew
        BY <3>1, Zenon DEF AttachNew
      <3>2. CASE AttachNoTable
        BY <3>2, AttachNoTableLabel
      <3>3. CASE AttachExisting
        BY <3>3, AttachExistingLabel
      <3> QED BY <1>1, <3>1, <3>2, <3>3 DEF Attach
    <2> QED BY <2>2, <2>3 DEF Withdrawn, Erasing
  <1>2. CASE TableStep /\ ~CreateMap /\ ~CreateMapFail
    BY <1>2, TableFrames, FrameErase
  <1>3. CASE CreateMap \/ CreateMapFail
    BY <1>3 DEF CreateMap, CreateMapFail, UpdateInfoTable, Withdrawn, Erasing
  <1>4. CASE EraseTry \/ EraseMapFail
    BY <1>4, EraseTryErase
  <1>5. CASE Detached \/ Crash
    BY <1>5 DEF Detached, Crash, PowerOff, Withdrawn, Erasing
  <1>6. CASE ClientStep
    <2>1. ASSUME NEW lb \in Logic, Erase(lb) PROVE Withdrawn'
      <3>1. view'[lb] = "unknown" /\ call'.lb = lb
        BY <2>1 DEF Erase, Forget, NoCall, IInv, Chip
      <3> QED BY <3>1 DEF Withdrawn
    <2>2. ASSUME NEW lb \in Logic, ReadFails(lb) \/ Write(lb) \/ MarkBad(lb) PROVE Withdrawn'
      <3>1. pc' = "idle" \/ (pc' = "update" /\ call'.then = "idle")
        BY <2>2 DEF ReadFails, Write, MarkBad, Request, UpdateInfoTable
      <3> QED BY <3>1 DEF Withdrawn, Erasing
    <2>3. CASE Detach
      BY <2>3 DEF Detach, UpdateInfoTable, Withdrawn, Erasing
    <2> QED BY <1>6, <2>1, <2>2, <2>3 DEF ClientStep
  <1>7. CASE UNCHANGED vars
    BY <1>7 DEF vars, Withdrawn, Erasing
  <1> QED BY <1>1, <1>2, <1>3, <1>4, <1>5, <1>6, <1>7 DEF Next, Step

LEMMA KeptData ==
  ASSUME NEW map, NEW fl, NEW v, NEW map2, NEW fl2, NEW v2, DataAt(map, fl, v),
         \A lb \in Logic : v2[lb] # "unknown" =>
           /\ v2[lb] = v[lb] /\ map2[lb] = map[lb]
           /\ map[lb] # NoBlock => fl2[map[lb]] = fl[map[lb]]
  PROVE  DataAt(map2, fl2, v2)
  BY DEF DataAt

\* Steps of the table routines, and of remaps that leave the chip alone.
LEMMA QuietData ==
  ASSUME DataInv, OwnDataStep, pc \notin {"off", "idle", "eraseTry"}, pc' # "off", view' = view,
         \A lb \in Logic : view[lb] # "unknown" => ni'.block_mapping[lb] = ni.block_mapping[lb]
  PROVE  DataInv'
  <1>1. ASSUME NEW lb \in Logic, ni.block_mapping[lb] # NoBlock
        PROVE  flash'[ni.block_mapping[lb]] = flash[ni.block_mapping[lb]]
    <2>1. ~Write(lb) /\ ~MarkBad(lb)
      BY DEF Write, MarkBad, Request
    <2> QED BY <1>1, <2>1 DEF OwnDataStep
  <1>2. DataAt(ni.block_mapping, flash, view)
    BY DEF DataInv
  <1>3. DataAt(ni'.block_mapping, flash', view')
    BY <1>1, <1>2, KeptData
  <1> QED BY <1>3 DEF DataInv

LEMMA UntouchedData ==
  ASSUME DataInv, UNCHANGED flash, pc # "off", pc' # "off",
         \A lb \in Logic : view'[lb] # "unknown" =>
           view'[lb] = view[lb] /\ ni'.block_mapping[lb] = ni.block_mapping[lb]
  PROVE  DataInv'
  <1>1. DataAt(ni.block_mapping, flash, view)
    BY DEF DataInv
  <1>2. DataAt(ni'.block_mapping, flash', view')
    BY <1>1, KeptData
  <1> QED BY <1>2 DEF DataInv

LEMMA TableStepData ==
  ASSUME IInv, DataInv, Fresh, OwnDataStep, TableStep PROVE DataInv'
  <1>1. CASE CreateMap
    <2>1. UNCHANGED flash /\ view' = view /\ pc = "createMap"
      BY <1>1 DEF CreateMap
    <2>2. pc' # "off"
      BY <1>1, ClientMoves DEF ClientAction, ClientMove, ClientCode
    <2>3. \A lb \in Logic : view'[lb] = "unknown"
      BY <2>1 DEF Fresh, Creating, NothingSaid
    <2> QED BY <2>1, <2>2, <2>3, UntouchedData
  <1>2. CASE CreateMapFail \/ UpdateReturn
    <2>1. UNCHANGED flash /\ view' = view /\ pc # "off"
      BY <1>2 DEF CreateMapFail, UpdateReturn
    <2>2. pc' # "off"
      BY <1>2, ClientMoves DEF ClientAction, ClientMove, ClientCode
    <2>3. ni'.block_mapping = ni.block_mapping
      BY <1>2 DEF CreateMapFail, UpdateReturn, UpdateInfoTable, IInv, InstanceType
    <2> QED BY <2>1, <2>2, <2>3, UntouchedData
  <1>3. CASE ~CreateMap /\ ~CreateMapFail /\ ~UpdateReturn
    <2>1. RoutineFrame
      BY <1>3, TableFrames
    <2>2. ni'.block_mapping = ni.block_mapping
      <3>1. CASE TableRoutine
        BY <3>1, RoutineSteps DEF Routine, KeptBy
      <3>2. CASE WriteErase \/ WriteProgram \/ RangeErase
        BY <3>2, WriterSteps DEF Routine, KeptBy
      <3>3. CASE SignatureErase \/ SignatureProgram
        BY <3>3, SignatureRam DEF SameRam, PrepareRam
      <3> QED BY <1>3, <3>1, <3>2, <3>3 DEF TableStep, TableRoutine
    <2> QED BY <2>1, <2>2, QuietData DEF RoutineFrame
  <1> QED BY <1>1, <1>2, <1>3

\* nmbm_erase_logic_block touches no block but its own.
LEMMA RemapOther ==
  ASSUME NEW n \in InstanceType, NEW lb \in Logic, NEW pb, RemapLogicBlock(n, lb, pb),
         NEW other \in Logic, other # lb
  PROVE  ni'.block_mapping[other] = n.block_mapping[other]
  <1>1. \/ ni' = Retire([n EXCEPT !.block_mapping[lb] = NoBlock], pb)
        \/ ni' = n
        \/ ni' = Retire(MapTo(n, lb, SpareFor(n)), pb)
    BY Zenon DEF RemapLogicBlock, EraseUnusable, UpdateInfoTable
  <1>2. n.block_mapping \in [Logic -> Blocks \cup {NoBlock}]
    BY DEF InstanceType, MappingTables
  <1>3. \/ ni'.block_mapping = [n.block_mapping EXCEPT ![lb] = NoBlock]
        \/ ni'.block_mapping = n.block_mapping
        \/ ni'.block_mapping = [n.block_mapping EXCEPT ![lb] = SpareFor(n)]
    <2>1. CASE ni' = Retire(MapTo(n, lb, SpareFor(n)), pb)
      <3> DEFINE spare == SpareFor(n)
      <3> HIDE DEF spare
      <3>1. ni' = Retire(MapTo(n, lb, spare), pb)
        BY <2>1 DEF spare
      <3>2. ni'.block_mapping = [n.block_mapping EXCEPT ![lb] = spare]
        BY <3>1 DEF Retire, SetState, MapTo, InstanceType
      <3> QED BY <3>2 DEF spare
    <2>2. CASE ni' = Retire([n EXCEPT !.block_mapping[lb] = NoBlock], pb)
      BY <2>2 DEF Retire, SetState, InstanceType
    <2> QED BY <1>1, <2>1, <2>2
  <1> QED BY <1>2, <1>3

\* One mapped block changes, the others stay.
LEMMA OtherBlocks ==
  ASSUME IInv, MapInv, NEW lb \in Logic, NEW pb, pb = ni.block_mapping[lb], pb # NoBlock,
         \A b \in Blocks : b # pb => flash'[b] = flash[b]
  PROVE  \A other \in Logic : other # lb /\ ni.block_mapping[other] # NoBlock =>
           flash'[ni.block_mapping[other]] = flash[ni.block_mapping[other]]
  <1>1. \A other \in Logic : ni.block_mapping[other] # NoBlock => ni.block_mapping[other] \in Blocks
    BY DEF IInv, InstanceType, MappingTables
  <1>2. \A other \in Logic : other # lb => ni.block_mapping[other] # pb
    BY Zenon DEF MapInv, MapOK, Inj
  <1> QED BY <1>1, <1>2, Zenon

LEMMA ErasedOnly ==
  ASSUME IInv, NEW pb \in Blocks, ErasePhys(pb) \/ ErasePhysFails(pb)
  PROVE  /\ \A b \in Blocks : b # pb => flash'[b] = flash[b]
         /\ ErasePhys(pb) => flash'[pb] = Blank
  BY DEF IInv, Chip, ErasePhys, ErasePhysFails, BlockFails

LEMMA EraseTryData ==
  ASSUME IInv, MapInv, Withdrawn, DataInv, EraseTry PROVE DataInv'
  <1> DEFINE lb == call.lb
             pb == ni.block_mapping[lb]
  <1>0. ni \in InstanceType /\ lb \in Logic /\ pc = "eraseTry" /\ view \in [Logic -> {"unknown", "erased", "written"}]
    BY DEF IInv, CallOK, CallType, EraseTry, Chip
  <1>1. pc' # "off"
    BY EraseTryMove DEF ClientMove, ClientCode
  <1>2. DataAt(ni.block_mapping, flash, view) /\ view[lb] = "unknown"
    BY <1>0 DEF DataInv, Withdrawn, Erasing
  <1>3. pb # NoBlock => pb \in Blocks
    BY <1>0 DEF InstanceType, MappingTables
  <1>4. \/ /\ UNCHANGED <<flash, physBad>> /\ view' = view
           /\ ni' = ni \/ RemapLogicBlock(ni, lb, pb)
        \/ pb # NoBlock /\ ErasePhys(pb) /\ view' = [view EXCEPT ![lb] = "erased"] /\ ni' = ni
        \/ /\ pb # NoBlock /\ ErasePhysFails(pb) /\ view' = view
           /\ RemapLogicBlock(SetState(ni, pb, BAD), lb, pb)
    BY Zenon DEF EraseTry
  <1> HIDE DEF pb, lb
  <1>5. CASE /\ UNCHANGED <<flash, physBad>> /\ view' = view
             /\ ni' = ni \/ RemapLogicBlock(ni, lb, pb)
    <2>1. \A other \in Logic : other # lb => ni'.block_mapping[other] = ni.block_mapping[other]
      BY <1>0, <1>5, RemapOther
    <2> QED BY <1>0, <1>1, <1>2, <1>5, <2>1, UntouchedData
  <1>6. CASE pb # NoBlock /\ ErasePhys(pb) /\ view' = [view EXCEPT ![lb] = "erased"] /\ ni' = ni
    <2>1. /\ \A other \in Logic : other # lb /\ ni.block_mapping[other] # NoBlock =>
               flash'[ni.block_mapping[other]] = flash[ni.block_mapping[other]]
          /\ flash'[pb] = Blank
      BY <1>0, <1>3, <1>6, ErasedOnly, OtherBlocks DEF pb
    <2>2. /\ view'[lb] = "erased" /\ \A other \in Logic : other # lb => view'[other] = view[other]
      BY <1>0, <1>6
    <2>3. DataAt(ni.block_mapping, flash', view')
      BY <1>0, <1>2, <1>6, <2>1, <2>2 DEF DataAt, pb
    <2> QED BY <1>1, <1>6, <2>3 DEF DataInv
  <1>7. CASE /\ pb # NoBlock /\ ErasePhysFails(pb) /\ view' = view
             /\ RemapLogicBlock(SetState(ni, pb, BAD), lb, pb)
    <2>1. \A other \in Logic : other # lb /\ ni.block_mapping[other] # NoBlock =>
            flash'[ni.block_mapping[other]] = flash[ni.block_mapping[other]]
      BY <1>0, <1>3, <1>7, ErasedOnly, OtherBlocks DEF pb
    <2>2. SetState(ni, pb, BAD) \in InstanceType
      BY <1>0, <1>3, <1>7, SetStateType DEF States
    <2>3. SetState(ni, pb, BAD).block_mapping = ni.block_mapping
      BY <1>0 DEF SetState, InstanceType
    <2>4. \A other \in Logic : other # lb => ni'.block_mapping[other] = ni.block_mapping[other]
      BY <1>0, <1>7, <2>2, <2>3, RemapOther
    <2>5. DataAt(ni'.block_mapping, flash', view')
      BY <1>0, <1>2, <1>7, <2>1, <2>4 DEF DataAt
    <2> QED BY <1>1, <2>5 DEF DataInv
  <1> QED BY <1>4, <1>5, <1>6, <1>7

LEMMA RequestData ==
  ASSUME IInv, MapInv, DataInv, NEW lb \in Logic,
         Erase(lb) \/ ReadFails(lb) \/ Write(lb) \/ MarkBad(lb)
  PROVE  DataInv'
  <1> DEFINE pb == ni.block_mapping[lb]
             V  == {"unknown", "erased", "written"}
  <1>0. ni \in InstanceType /\ pc = "idle" /\ view \in [Logic -> V] /\ flash \in [Blocks -> Contents]
    BY DEF IInv, Chip, Erase, ReadFails, Write, MarkBad, Request
  <1>1. pc' # "off"
    BY RequestMove DEF ClientMove, ClientCode
  <1>2. DataAt(ni.block_mapping, flash, view)
    BY <1>0 DEF DataInv
  <1>3. pb # NoBlock => pb \in Blocks
    BY <1>0 DEF InstanceType, MappingTables
  <1>4. \A other \in Logic : other # lb => ni'.block_mapping[other] = ni.block_mapping[other]
    <2>1. \/ ni' = ni \/ ni' = SetState(ni, pb, NEED_REMAP)
          \/ ni' = SetState([ni EXCEPT !.block_mapping[lb] = NoBlock], pb, BAD)
      <3>1. CASE Erase(lb) \/ ReadFails(lb) \/ MarkBad(lb)
        BY <3>1, Zenon DEF Erase, ReadFails, MarkBad, UpdateInfoTable
      <3>2. CASE Write(lb)
        <4>1. UNCHANGED ni \/ UpdateInfoTable(SetState(ni, pb, NEED_REMAP), lb, pb, "idle")
          BY <3>2, Zenon DEF Write
        <4> QED BY <4>1, Zenon DEF UpdateInfoTable
      <3> QED BY <3>1, <3>2
    <2> HIDE DEF pb
    <2>2. \/ ni'.block_mapping = ni.block_mapping
          \/ ni'.block_mapping = [ni.block_mapping EXCEPT ![lb] = NoBlock]
      BY <1>0, <2>1 DEF SetState, InstanceType
    <2>3. ni.block_mapping \in [Logic -> Blocks \cup {NoBlock}]
      BY <1>0 DEF InstanceType, MappingTables
    <2> QED BY <2>2, <2>3
  <1>5. \/ UNCHANGED flash
        \/ pb # NoBlock /\ \E c : flash' = [flash EXCEPT ![pb] = c]
    <2>1. CASE Erase(lb) \/ ReadFails(lb)
      BY <2>1 DEF Erase, ReadFails
    <2>2. CASE Write(lb)
      BY <2>2, Zenon DEF Write, Accessible
    <2>3. CASE MarkBad(lb)
      BY <2>3, Zenon DEF MarkBad
    <2> QED BY <2>1, <2>2, <2>3
  <1>6. \A other \in Logic : other # lb /\ ni.block_mapping[other] # NoBlock =>
          flash'[ni.block_mapping[other]] = flash[ni.block_mapping[other]]
    <2>1. CASE UNCHANGED flash
      BY <2>1
    <2>2. CASE pb # NoBlock /\ \A b \in Blocks : b # pb => flash'[b] = flash[b]
      BY <2>2, OtherBlocks
    <2> QED BY <1>0, <1>5, <2>1, <2>2
  <1>7. \A other \in Logic : other # lb => view'[other] = view[other]
    BY <1>0 DEF Erase, ReadFails, Write, MarkBad, Forget
  <1>8. \/ view'[lb] = "unknown"
        \/ view'[lb] = "written" /\ ni'.block_mapping[lb] = pb /\ pb # NoBlock /\ flash'[pb] = Data(lb)
    <2>1. CASE Forget(lb)
      BY <1>0, <2>1 DEF Forget
    <2>2. CASE ~Forget(lb)
      <3>1. /\ view[lb] = "erased" /\ view' = [view EXCEPT ![lb] = "written"] /\ ni' = ni
            /\ flash' = [flash EXCEPT ![pb] = IF flash[pb] = Blank THEN Data(lb) ELSE Garbage]
        BY <2>2, Zenon DEF Erase, ReadFails, Write, MarkBad
      <3>2. pb # NoBlock /\ flash[pb] = Blank
        BY <1>2, <3>1 DEF DataAt
      <3> QED BY <1>0, <1>3, <3>1, <3>2
    <2> QED BY <2>1, <2>2
  <1> HIDE DEF pb
  <1>9. DataAt(ni'.block_mapping, flash', view')
    BY <1>2, <1>4, <1>6, <1>7, <1>8 DEF DataAt
  <1> QED BY <1>1, <1>9 DEF DataInv

LEMMA PowerOffData ==
  ASSUME DataInv, AckSaved, pc # "off", PowerOff PROVE DataInv'
  <1>1. pc' = "off" /\ flash' = flash /\ view' = view /\ UNCHANGED <<flash, physBad>>
    BY DEF PowerOff
  <1>2. Persisted' = Persisted
    BY <1>1, PersistedIs, PersistedNext, Zenon
  <1>3. DataAt(ni.block_mapping, flash, view)
    BY DEF DataInv
  <1>4. \A lb \in Logic : view[lb] # "unknown" => Persisted.map[lb] = ni.block_mapping[lb]
    BY DEF AckSaved
  <1>5. DataAt(Persisted.map, flash, view)
    BY <1>3, <1>4, KeptData
  <1>6. Persisted = NoTable => NothingSaid
    BY DEF AckSaved, NothingSaid
  <1>7. DataAt(Persisted'.map, flash', view')
    BY <1>1, <1>2, <1>5
  <1>8. Persisted' = NoTable => NothingSaid'
    BY <1>1, <1>2, <1>6 DEF NothingSaid
  <1> QED BY <1>1, <1>7, <1>8 DEF DataInv

LEMMA AttachData ==
  ASSUME IInv, ~ReadMayFail, DataInv, Attach PROVE DataInv' /\ Fresh'
  <1>1. /\ pc = "off" /\ pc' # "off"
        /\ Persisted # NoTable => ni'.block_mapping = Persisted.map
        /\ AttachExisting \/ Persisted = NoTable
    BY AttachRestores
  <1>2. flash' = flash /\ view' = view
    BY Zenon DEF Attach, AttachNew, AttachNoTable, AttachExisting
  <1>3. DataAt(Persisted.map, flash, view) /\ (Persisted = NoTable => NothingSaid)
    BY <1>1 DEF DataInv
  <1>4. DataAt(ni'.block_mapping, flash, view)
    <2>1. CASE Persisted = NoTable
      BY <1>3, <2>1 DEF NothingSaid, DataAt
    <2>2. CASE Persisted # NoTable
      BY <1>1, <1>3, <2>2
    <2> QED BY <2>1, <2>2
  <1>5. Fresh'
    <2>1. CASE Persisted = NoTable
      BY <1>2, <1>3, <2>1 DEF Fresh, NothingSaid
    <2>2. CASE AttachExisting
      <3>1. call' = [NoCall EXCEPT !.by = "load"]
        BY <2>2, Zenon DEF AttachExisting
      <3>2. call'.by = "load"
        BY <3>1 DEF NoCall
      <3>3. pc' = "wErase" \/ pc' = "idle"
        BY <2>2, Zenon DEF AttachExisting, RescueSingle, UpdateSingle, WriteTable
      <3> QED BY <3>2, <3>3 DEF Fresh, Creating
    <2> QED BY <1>1, <2>1, <2>2
  <1> QED BY <1>1, <1>2, <1>4, <1>5 DEF DataInv

LEMMA InitData == Init => DataInv /\ Withdrawn /\ Fresh
  BY DEF Init, DataInv, DataAt, NothingSaid, Withdrawn, Erasing, Fresh, Creating

\* Nothing is acknowledged before the tables of a new chip are written.
LEMMA NextFresh ==
  ASSUME ~ReadMayFail, IInv, DataInv, Fresh, [Next]_vars PROVE Fresh'
  <1>1. CASE Attach
    BY <1>1, AttachData
  <1>2. CASE TableStep /\ ~CreateMap /\ ~CreateMapFail
    <2>1. RoutineFrame
      BY <1>2, TableFrames
    <2>2. Creating' => Creating
      BY <2>1 DEF RoutineFrame, Creating
    <2> QED BY <2>1, <2>2 DEF RoutineFrame, Fresh, NothingSaid
  <1>3. CASE CreateMap
    <2>1. pc = "createMap" /\ view' = view
      BY <1>3 DEF CreateMap
    <2> QED BY <2>1 DEF Fresh, Creating, NothingSaid
  <1>4. CASE CreateMapFail \/ EraseMapFail \/ Detach
    <2>1. pc' = "update" /\ call'.by = "update"
      BY <1>4 DEF CreateMapFail, EraseMapFail, Detach, EraseUnusable, UpdateInfoTable
    <2> QED BY <2>1 DEF Fresh, Creating
  <1>5. CASE EraseTry
    <2>1. pc' = "idle" \/ (pc' = "update" /\ call'.by = "update")
      BY <1>5 DEF EraseTry, RemapLogicBlock, EraseUnusable, UpdateInfoTable
    <2> QED BY <2>1 DEF Fresh, Creating
  <1>6. ASSUME NEW lb \in Logic, Erase(lb) \/ ReadFails(lb) \/ Write(lb) \/ MarkBad(lb)
        PROVE  Fresh'
    <2>1. pc' \in {"idle", "eraseTry"} \/ (pc' = "update" /\ call'.by = "update")
      BY <1>6 DEF Erase, ReadFails, Write, MarkBad, Request, UpdateInfoTable
    <2> QED BY <2>1 DEF Fresh, Creating
  <1>7. CASE Detached \/ Crash
    BY <1>7 DEF Detached, Crash, PowerOff, Fresh, Creating
  <1>8. CASE UNCHANGED vars
    BY <1>8 DEF vars, Fresh, Creating, NothingSaid
  <1> QED BY <1>1, <1>2, <1>3, <1>4, <1>5, <1>6, <1>7, <1>8 DEF Next, Step, ClientStep

LEMMA EraseMapFailData ==
  ASSUME IInv, Withdrawn, DataInv, EraseMapFail PROVE DataInv'
  <1> DEFINE n == [ni EXCEPT !.mapping_blocks_top_ba = ni.mapping_blocks_ba]
  <1>1. UNCHANGED flash /\ view' = view /\ pc = "eraseMapFail" /\ pc' = "update"
    BY DEF EraseMapFail, EraseUnusable, UpdateInfoTable
  <1>2. view[call.lb] = "unknown"
    BY <1>1 DEF Withdrawn, Erasing
  <1>3. ni' = Retire([n EXCEPT !.block_mapping[call.lb] = NoBlock], call.pb)
    BY Zenon DEF EraseMapFail, EraseUnusable, UpdateInfoTable
  <1>4. n \in InstanceType /\ n.block_mapping = ni.block_mapping
    BY DEF IInv, InstanceType
  <1> HIDE DEF n
  <1>5. ni'.block_mapping = [ni.block_mapping EXCEPT ![call.lb] = NoBlock]
    BY <1>3, <1>4 DEF Retire, SetState, InstanceType
  <1>6. ni.block_mapping \in [Logic -> Blocks \cup {NoBlock}]
    BY DEF IInv, InstanceType, MappingTables
  <1>7. \A lb \in Logic : lb # call.lb => ni'.block_mapping[lb] = ni.block_mapping[lb]
    BY <1>5, <1>6
  <1> QED BY <1>1, <1>2, <1>7, UntouchedData

LEMMA NextData ==
  ASSUME ~ReadMayFail, IInv, MapInv, Withdrawn, DataInv, Fresh, PowerGoes => AckSaved,
         [OwnDataStep]_vars, [Next]_vars
  PROVE  DataInv'
  <1>1. CASE UNCHANGED vars
    <2>1. pc' = pc /\ ni' = ni /\ flash' = flash /\ physBad' = physBad /\ view' = view
      BY <1>1 DEF vars
    <2>2. Persisted' = Persisted
      BY <2>1, PersistedIs, PersistedNext, Zenon
    <2> QED BY <2>1, <2>2 DEF DataInv, NothingSaid
  <1>2. CASE Attach
    BY <1>2, AttachData
  <1>3. CASE TableStep
    BY <1>1, <1>3, TableStepData
  <1>4. CASE EraseTry
    BY <1>4, EraseTryData
  <1>5. CASE EraseMapFail
    BY <1>5, EraseMapFailData
  <1>6. CASE Detach
    <2>1. UNCHANGED flash /\ view' = view /\ pc # "off" /\ pc' # "off" /\ ni' = ni
      BY <1>6 DEF Detach, UpdateInfoTable
    <2> QED BY <2>1, UntouchedData
  <1>7. CASE Detached \/ Crash
    <2>1. PowerOff /\ pc # "off"
      BY <1>7 DEF Detached, Crash
    <2>2. PowerGoes
      BY <2>1 DEF PowerOff, PowerGoes
    <2> QED BY <2>1, <2>2, PowerOffData
  <1>8. ASSUME NEW lb \in Logic, Erase(lb) \/ ReadFails(lb) \/ Write(lb) \/ MarkBad(lb)
        PROVE  DataInv'
    BY <1>8, RequestData
  <1> QED BY <1>1, <1>2, <1>3, <1>4, <1>5, <1>6, <1>7, <1>8 DEF Next, Step, ClientStep

\* Acknowledged data of nmbm-core.c, on a chip of any size that runs out of
\* blocks: with read errors of an attach left out, no remap, table rescue,
\* power cut or attach, and no operation on another logic block, changes or
\* moves what the client was told about, until nmbm_map_block passes over a bad
\* spare block, or power goes while an acknowledged mapping is not on the chip.
THEOREM NmbmDataKept ==
  ASSUME ~ReadMayFail
  PROVE  HistSpec /\ [](skipped \/ SecondFits) => []DataKept
  <1> DEFINE Kept == skipped \/ unsaved \/ (DataInv /\ Fresh)
  <1>1. HistSpec /\ [](skipped \/ SecondFits) => [](skipped \/ AllInv)
    BY NmbmMapInductive
  <1>2. HistSpec => []IInv
    BY HistImplements, NmbmSaveInductive, PTL
  <1>3. HistInit => Kept /\ Withdrawn
    BY InitData DEF HistInit
  <1>4. IInv /\ Withdrawn /\ [HistNext]_<<vars, historyVars>> => Withdrawn'
    BY HistStep, NextErase
  <1>5. /\ skipped \/ AllInv
        /\ skipped \/ SecondFits
        /\ IInv /\ Withdrawn /\ Kept
        /\ [HistNext]_<<vars, historyVars>>
        => Kept'
    <2> SUFFICES ASSUME skipped \/ AllInv, skipped \/ SecondFits, IInv, Withdrawn, Kept,
                        [HistNext]_<<vars, historyVars>>, ~skipped', ~unsaved'
                 PROVE  DataInv' /\ Fresh'
      OBVIOUS
    <2>1. [Next]_vars /\ ~skipped
      BY HistStep
    <2>2. ~unsaved /\ (PowerGoes => AckSaved)
      <3>1. CASE HistNext
        BY <3>1 DEF HistNext, Record
      <3>2. CASE UNCHANGED <<vars, historyVars>>
        BY <3>2 DEF vars, historyVars, PowerGoes
      <3> QED BY <3>1, <3>2
    <2>3. DataInv /\ Fresh /\ AllInv /\ SecondFits
      BY <2>1, <2>2
    <2>4. [OwnDataStep]_vars
      BY <2>1, <2>3, NextMap DEF AllInv
    <2> QED BY <2>1, <2>2, <2>3, <2>4, NextData, NextFresh DEF AllInv
  <1>6. Kept => DataKept
    BY DEF DataInv, DataAt, ClientData, DataKept
  <1> HIDE DEF Kept
  <1> QED BY <1>1, <1>2, <1>3, <1>4, <1>5, <1>6, PTL DEF HistSpec

-----------------------------------------------------------------------------
(* Two tables: while one is written or blocks are erased, another one      *)
(* stands.                                                                 *)

\* Where complete tables stand while the routine in io.k runs: the recorded
\* ones but for the one it rewrites, the temporary one of
\* nmbm_rescue_main_info_table, and the new one of
\* nmbm_rescue_single_info_table before it is recorded.
Standing ==
  {t \in {ni.main_table_ba} : t # 0 /\ io.k \notin {"singleMain", "onceMain", "rescueMain"}}
  \cup {t \in {ni.backup_table_ba} :
          t # 0 /\ io.k \notin {"singleBackup", "onceBackup", "rescueMain"}}
  \cup {t \in {io.limit} : io.k = "rescueMain"}
  \cup {t \in {io.start} : io.k = "rescueBehindErase"}

StandingKept ==
  \A t \in Standing, b \in Blocks : t <= b /\ b < t + TableBlocks => flash'[b] = flash[b]

StandbyStep ==
  pc \in TableCode /\ flash' # flash =>
    /\ StandingKept
    /\ Standing = {} =>
         io.k = "rebuildMain" \/ (io.k = "onceMain" /\ ni.backup_table_ba = 0)

\* Each place of a standing table is apart from the block b being changed.
LEMMA WriterApart ==
  ASSUME NEW t \in Standing, NEW b \in Nat, ni \in InstanceType, io \in FrameType, Layout(ni),
         WriteRoom(io, ni), io.ba <= b, b < io.limit
  PROVE  t \in Nat /\ (b < t \/ t + TableBlocks <= b)
  <1> USE AddressNat, FrameNat
  <1>0. TablesOf(io.k, ni) /\ Low(io.k, ni) <= io.ba
    BY DEF WriteRoom
  <1>1. CASE t = ni.main_table_ba /\ t # 0 /\ io.k \notin {"singleMain", "onceMain", "rescueMain"}
    <2>1. CASE io.k = "rescueFront"
      BY <1>1, <2>1 DEF WriteRoom, High
    <2>2. CASE io.k \in {"singleBackup", "onceBackup"}
      BY <1>0, <1>1, <2>2 DEF Low, TablesOf, Layout
    <2>3. CASE io.k \in {"rebuildBackup", "rescueBehind", "rescueTemp"}
      BY <1>0, <1>1, <2>3 DEF Low, Layout
    <2> QED BY <1>0, <1>1, <2>1, <2>2, <2>3 DEF TablesOf
  <1>2. CASE /\ t = ni.backup_table_ba /\ t # 0
             /\ io.k \notin {"singleBackup", "onceBackup", "rescueMain"}
    <2>1. CASE io.k \in {"singleMain", "onceMain"}
      BY <1>2, <2>1 DEF WriteRoom, High
    <2>2. CASE io.k = "rescueTemp"
      BY <1>0, <1>2, <2>2 DEF Low, Layout
    <2> QED BY <1>0, <1>2, <2>1, <2>2 DEF TablesOf, Layout
  <1>3. CASE t = io.limit /\ io.k = "rescueMain"
    BY <1>3
  <1>4. io.k # "rescueBehindErase"
    BY <1>0 DEF TablesOf
  <1> QED BY <1>1, <1>2, <1>3, <1>4 DEF Standing

LEMMA EraserApart ==
  ASSUME NEW t \in Standing, NEW b \in Nat, ni \in InstanceType, io \in FrameType, Layout(ni),
         RangeRoom(io, ni), io.ba <= b, b < io.limit
  PROVE  t \in Nat /\ (b < t \/ t + TableBlocks <= b)
  <1> USE AddressNat, FrameNat
  <1>1. t = ni.main_table_ba \/ t = ni.backup_table_ba \/ t = io.start
    BY DEF Standing, RangeRoom
  <1>2. CASE io.k = "rescueBehindErase"
    <2>1. t = ni.main_table_ba \/ t = io.start
      BY <1>2 DEF Standing, RangeRoom
    <2> QED BY <1>2, <2>1 DEF RangeRoom, Layout
  <1>3. CASE io.k \in {"rebuildErase", "rescueFrontErase"}
    <2>1. t = ni.main_table_ba \/ t = ni.backup_table_ba
      BY <1>3 DEF Standing
    <2> QED BY <1>3, <2>1 DEF RangeRoom
  <1> QED BY <1>2, <1>3 DEF RangeRoom

\* Only a rebuild and the rewrite of a single table go without.
LEMMA OneStands ==
  ASSUME pc \in TableCode, ni \in InstanceType, LayInv, Standing = {}, pc = "range" \/ pc \in WriteCode
  PROVE  io.k = "rebuildMain" \/ (io.k = "onceMain" /\ ni.backup_table_ba = 0)
  <1>1. /\ ni.main_table_ba = 0 \/ io.k \in {"singleMain", "onceMain", "rescueMain"}
        /\ ni.backup_table_ba = 0 \/ io.k \in {"singleBackup", "onceBackup", "rescueMain"}
        /\ io.k # "rescueMain" /\ io.k # "rescueBehindErase"
    BY DEF Standing
  <1>2. CASE pc = "range"
    BY <1>1, <1>2 DEF LayInv, LayOK, RangeRoom
  <1>3. CASE pc \in WriteCode
    BY <1>1, <1>3 DEF LayInv, LayOK, WriteRoom, TablesOf
  <1> QED BY <1>2, <1>3

\* The steps of the table routines that change the chip.
LEMMA TableWriters ==
  ASSUME Next, pc \in TableCode, flash' # flash
  PROVE  /\ WriteErase \/ WriteProgram \/ RangeErase
         /\ pc = "range" \/ pc \in WriteCode
  <1>1. ChipStep
    BY ChipSteps
  <1>2. CASE SignatureErase \/ SignatureProgram \/ EraseTry
             \/ \E lb \in Logic : Write(lb) \/ MarkBad(lb)
    <2>1. pc \in {"sErase", "sProgram", "eraseTry", "idle"}
      BY <1>2, Zenon DEF SignatureErase, SignatureProgram, EraseTry, Write, MarkBad, Request
    <2> QED BY <2>1 DEF TableCode
  <1>3. pc = "range" \/ pc \in WriteCode
    BY DEF TableCode, WriteCode
  <1> QED BY <1>1, <1>2, <1>3 DEF ChipStep

LEMMA NextStandby ==
  ASSUME IInv, LayInv, Next PROVE StandbyStep
  <1> SUFFICES ASSUME pc \in TableCode, flash' # flash
               PROVE  /\ StandingKept
                      /\ Standing = {} =>
                           io.k = "rebuildMain" \/ (io.k = "onceMain" /\ ni.backup_table_ba = 0)
    BY DEF StandbyStep
  <1>0. /\ ni \in InstanceType /\ io \in FrameType /\ Layout(ni)
        /\ pc \in WriteCode => WriteRoom(io, ni)
        /\ pc = "range" => RangeRoom(io, ni)
        /\ flash \in [Blocks -> Contents]
    BY LayEntry DEF IInv, Chip
  <1>1. WriteErase \/ WriteProgram \/ RangeErase
    BY TableWriters
  <1>2. PICK c \in Nat : /\ io.ba <= c /\ c < io.limit
                         /\ \A b \in Blocks : b # c => flash'[b] = flash[b]
    <2>1. CASE WriteErase \/ RangeErase
      <3>1. Here < io.limit /\ (ErasePhys(Here) \/ ErasePhysFails(Here))
        BY <2>1 DEF WriteErase, RangeErase
      <3>2. Here \in Nat /\ io.ba <= Here
        BY <3>1, HereBounds
      <3>3. \A b \in Blocks : b # Here => flash'[b] = flash[b]
        BY <1>0, <3>1 DEF ErasePhys, ErasePhysFails, BlockFails
      <3> HIDE DEF Here
      <3> QED BY <3>1, <3>2, <3>3
    <2>2. CASE WriteProgram
      <3>1. io.ba < io.limit /\ io.ba \in Nat /\ io.ba <= io.ba
        BY <1>0, <2>2, FrameNat DEF WriteProgram, IInv, Control
      <3>2. \A b \in Blocks : b # io.ba => flash'[b] = flash[b]
        BY <1>0, <2>2 DEF WriteProgram, BlockFails
      <3> QED BY <3>1, <3>2
    <2> QED BY <1>1, <2>1, <2>2
  <1>3. \A t \in Standing : t \in Nat /\ (c < t \/ t + TableBlocks <= c)
    <2>1. pc \in WriteCode \/ pc = "range"
      BY DEF TableCode, WriteCode
    <2> QED BY <1>0, <1>2, <2>1, WriterApart, EraserApart
  <1>4. StandingKept
    BY <1>2, <1>3, GeometryAssumption DEF StandingKept, Blocks
  <1>5. pc = "range" \/ pc \in WriteCode
    BY DEF TableCode, WriteCode
  <1> QED BY <1>0, <1>4, <1>5, OneStands

\* Why nmbm-core.c keeps two tables: while nmbm_write_mgmt_range or
\* nmbm_erase_range runs, for whichever of the update, rescue and rebuild
\* routines and after however many failures, another table is left alone,
\* block for block; only nmbm_rebuild_info_table and the rewrite of a table
\* that has no second one go without.  This up to the moment nmbm_map_block
\* passes over a bad spare block.
THEOREM NmbmStandbyKept ==
  HistSpec /\ [](skipped \/ SecondFits) => [][skipped \/ StandbyStep]_<<vars, historyVars>>
  <1>1. (skipped \/ AllInv) /\ [HistNext]_<<vars, historyVars>>
          => [skipped \/ StandbyStep]_<<vars, historyVars>>
    BY NextStandby DEF AllInv, HistNext
  <1> QED BY <1>1, NmbmMapInductive, PTL DEF HistSpec

=============================================================================
