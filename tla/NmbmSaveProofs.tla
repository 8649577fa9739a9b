--------------------------- MODULE NmbmSaveProofs ---------------------------
(* nmbm_mark_tables_clean is called only with a complete table on the chip: *)
(* a theorem about Nmbm, on top of the invariant of NmbmProofs.             *)
EXTENDS NmbmProofs

-----------------------------------------------------------------------------
(* The inductive invariant.  Its parts are operators of the values they    *)
(* speak about: p is pc, f the frame io, fl the flash, bad the marked      *)
(* blocks, n the instance.                                                 *)

WriteCode == {"wErase", "wProgram", "ret"}

\* The table cache says what the instance says of mapping and data blocks.
CacheOK(n) ==
  /\ n.cache.wc = n.write_count /\ n.cache.map = n.block_mapping
  /\ \A pb \in Logic : n.cache.st[pb] = n.block_state[pb]

\* Block b holds chunk i of the cache and can be used.
At(fl, bad, n, b, i) ==
  b \in MgmtBlocks /\ b \notin bad /\ n.block_state[b] = GOOD /\ fl[b] = Chunk(n.cache, i)

\* nmbm_write_mgmt_range: the chunks counted as written are behind it.
Written(f, fl, bad, n) ==
  \A i \in 0 .. (TableBlocks - f.left) - 1 : \E b \in f.start .. f.ba - 1 : At(fl, bad, n, b, i)

\* A complete table is out of reach of the loop that runs up to f.limit.
Behind(f, fl, bad, n) ==
  \A i \in 0 .. TableBlocks - 1 : \E b \in f.limit .. BlockCount - 1 : At(fl, bad, n, b, i)

\* The two places where the table that counts was written by an earlier call.
Keeps(p, f) ==
  (p = "range" /\ f.k = "rescueBehindErase") \/ (p \in WriteCode /\ f.k = "rescueMain")

SaveOK(p, f, fl, bad, n) ==
  /\ p = "off" => ~n.dirty
  /\ p \in TableCode => CacheOK(n)
  /\ p \in WriteCode => Written(f, fl, bad, n)
  /\ p = "wProgram" => f.ba \notin bad /\ n.block_state[f.ba] = GOOD
  /\ Keeps(p, f) => Behind(f, fl, bad, n)

SaveInv == SaveOK(pc, io, flash, physBad, ni)

AllOnChip == \A i \in 0 .. TableBlocks - 1 : OnChip(i)

\* What is shown of every action.
SaveStep == SaveInv' /\ CleanStep

-----------------------------------------------------------------------------
(* Steps that leave the table routines, and steps that start one.          *)

LEMMA Quiet ==
  ASSUME pc' \notin TableCode, pc' # "off", ni'.dirty \/ ~ni.dirty \/ AllOnChip
  PROVE  SaveStep
  BY DEF SaveStep, SaveInv, SaveOK, TableCode, WriteCode, Keeps, CleanStep, AllOnChip

LEMMA ReturnQuiet ==
  ASSUME CallOK, NEW n \in InstanceType, NEW ok \in BOOLEAN, TableReturn(n, ok),
         n.dirty \/ ~ni.dirty \/ AllOnChip
  PROVE  SaveStep
  <1>1. ni'.dirty = n.dirty
    BY DEF TableReturn, InstanceType
  <1>2. pc' \in ClientCode \cup {"dead", "none", "attached"}
    BY DEF TableReturn, ClientCode, CallOK, CallType
  <1>3. pc' \notin TableCode /\ pc' # "off"
    BY <1>2 DEF ClientCode, TableCode
  <1> QED BY <1>1, <1>3, Quiet

LEMMA StartWrite ==
  ASSUME NEW k, k # "rescueMain", NEW ba, NEW limit, NEW saved, WriteTable(k, ba, limit, saved),
         CacheOK(ni'), ni'.dirty \/ ~ni.dirty \/ AllOnChip
  PROVE  SaveStep
  <1>1. pc' = "wErase" /\ io'.left = TableBlocks /\ io'.k = k
    BY DEF WriteTable
  <1>2. (TableBlocks - io'.left) - 1 = -1
    BY <1>1, GeometryAssumption
  <1>3. Written(io', flash', physBad', ni')
    BY <1>2 DEF Written
  <1>4. ~Keeps(pc', io')
    BY <1>1 DEF Keeps
  <1> QED BY <1>1, <1>3, <1>4 DEF SaveStep, SaveInv, SaveOK, CleanStep, AllOnChip

LEMMA StartRange ==
  ASSUME NEW k, k # "rescueBehindErase", NEW ba, NEW limit, NEW saved, io \in FrameType,
         EraseRange(k, ba, limit, saved),
         CacheOK(ni'), ni'.dirty \/ ~ni.dirty \/ AllOnChip
  PROVE  SaveStep
  <1>1. pc' = "range" /\ io'.k = k
    BY DEF EraseRange, FrameType
  <1>4. ~Keeps(pc', io')
    BY <1>1 DEF Keeps, WriteCode
  <1> QED BY <1>1, <1>4 DEF SaveStep, SaveInv, SaveOK, WriteCode, CleanStep, AllOnChip

\* Instances that agree on what a table stores.
Same(n, m) ==
  /\ n.cache = m.cache /\ n.write_count = m.write_count
  /\ n.block_mapping = m.block_mapping /\ n.block_state = m.block_state

LEMMA SameCache ==
  ASSUME NEW n, NEW m, Same(n, m), CacheOK(m) PROVE CacheOK(n)
  BY DEF Same, CacheOK

LEMMA FreshCache ==
  ASSUME NEW n \in InstanceType PROVE CacheOK(GenerateCache(n)) /\ GenerateCache(n).dirty = n.dirty
  BY DEF CacheOK, GenerateCache, InstanceType

-----------------------------------------------------------------------------
(* Chunks on the chip.                                                     *)

\* A chunk of the cache is what OnChip looks for.
LEMMA AtOnChip ==
  ASSUME CacheOK(ni), NEW b, NEW i, At(flash, physBad, ni, b, i)
  PROVE  OnChip(i)
  <1>1. b \in MgmtBlocks \ physBad /\ ni.block_state[b] = GOOD
    BY DEF At
  <1>2. IsTable(flash[b]) /\ flash[b].chunk = i /\ flash[b].table = ni.cache
    BY DEF At, Chunk, IsTable
  <1> QED BY <1>1, <1>2 DEF OnChip, CacheOK

\* nmbm_write_info_table has returned success: the table is on the chip.
LEMMA ReturnedOnChip ==
  ASSUME SaveInv, pc = "ret", io.left = 0
  PROVE  AllOnChip
  <1>1. CacheOK(ni) /\ Written(io, flash, physBad, ni)
    BY DEF SaveInv, SaveOK, TableCode, WriteCode
  <1>2. ASSUME NEW i \in 0 .. TableBlocks - 1 PROVE OnChip(i)
    <2>1. i \in 0 .. (TableBlocks - io.left) - 1
      BY GeometryAssumption
    <2>2. PICK b \in io.start .. io.ba - 1 : At(flash, physBad, ni, b, i)
      BY <1>1, <2>1 DEF Written
    <2> QED BY <1>1, <2>2, AtOnChip
  <1> QED BY <1>2 DEF AllOnChip

\* So does the table the routine keeps behind its limit.
LEMMA BehindOnChip ==
  ASSUME SaveInv, pc \in TableCode, Keeps(pc, io)
  PROVE  AllOnChip
  <1>1. CacheOK(ni) /\ Behind(io, flash, physBad, ni)
    BY DEF SaveInv, SaveOK
  <1>2. ASSUME NEW i \in 0 .. TableBlocks - 1 PROVE OnChip(i)
    <2>2. PICK b \in io.limit .. BlockCount - 1 : At(flash, physBad, ni, b, i)
      BY <1>1 DEF Behind
    <2> QED BY <1>1, <2>2, AtOnChip
  <1> QED BY <1>2 DEF AllOnChip

\* What a step does to one block c leaves the chunks of the others alone.
LEMMA AtOther ==
  ASSUME NEW c, NEW b, b # c, NEW i, At(flash, physBad, ni, b, i),
         \A x \in Blocks : x # c => flash'[x] = flash[x] /\ (x \in physBad' => x \in physBad),
         \A x \in Blocks : x # c => ni'.block_state[x] = ni.block_state[x],
         ni'.cache = ni.cache
  PROVE  At(flash', physBad', ni', b, i)
  <1>1. b \in Blocks
    BY GeometryAssumption DEF At, MgmtBlocks, Blocks
  <1> QED BY <1>1 DEF At

LEMMA EraseOther ==
  ASSUME Chip, NEW c \in Blocks, ErasePhys(c) \/ ErasePhysFails(c)
  PROVE  \A x \in Blocks : x # c => flash'[x] = flash[x] /\ (x \in physBad' => x \in physBad)
  BY DEF Chip, ErasePhys, ErasePhysFails, BlockFails

LEMMA SetStateOther ==
  ASSUME NEW n \in InstanceType, NEW c \in Blocks, NEW s \in States, CacheOK(n), c \notin Logic
  PROVE  LET m == SetState(n, c, s)
         IN  /\ \A x \in Blocks : x # c => m.block_state[x] = n.block_state[x]
             /\ m.cache = n.cache /\ CacheOK(m) /\ (m.dirty \/ ~n.dirty)
  <1> DEFINE m == SetState(n, c, s)
  <1>1. \A x \in Blocks : x # c => m.block_state[x] = n.block_state[x]
    BY DEF SetState, InstanceType, StateTables
  <1>2. /\ m.cache = n.cache /\ m.write_count = n.write_count
        /\ m.block_mapping = n.block_mapping /\ (m.dirty \/ ~n.dirty)
    BY DEF SetState, InstanceType
  <1>3. CacheOK(m)
    <2>1. Logic \subseteq Blocks
      BY GeometryAssumption DEF Logic, Blocks
    <2> HIDE DEF m
    <2> QED BY <1>1, <1>2, <2>1 DEF CacheOK
  <1> QED BY <1>1, <1>2, <1>3

\* The chunks written so far outlive what happens to block c in front of which
\* the loop stood, and the table behind the limit too.
LEMMA KeptChunks ==
  ASSUME NEW c \in Int,
         \A x \in Blocks : x # c => flash'[x] = flash[x] /\ (x \in physBad' => x \in physBad),
         \A x \in Blocks : x # c => ni'.block_state[x] = ni.block_state[x],
         ni'.cache = ni.cache, io \in FrameType
  PROVE  /\ Written(io, flash, physBad, ni) /\ io.ba <= c
            => \A ba \in Nat : io.ba <= ba =>
                 Written([io EXCEPT !.ba = ba], flash', physBad', ni')
         /\ Behind(io, flash, physBad, ni) /\ c < io.limit
            => Behind(io, flash', physBad', ni')
  <1>0. io.ba \in Nat /\ io.start \in Nat /\ io.limit \in Nat /\ io.left \in Nat /\ BlockCount \in Nat
    BY GeometryAssumption DEF FrameType, Addresses
  <1>1. ASSUME Written(io, flash, physBad, ni), io.ba <= c, NEW ba \in Nat, io.ba <= ba
        PROVE  Written([io EXCEPT !.ba = ba], flash', physBad', ni')
    <2> DEFINE f == [io EXCEPT !.ba = ba]
    <2>1. f.ba = ba /\ f.start = io.start /\ f.left = io.left
      BY DEF FrameType
    <2> HIDE DEF f
    <2>2. ASSUME NEW i \in 0 .. (TableBlocks - f.left) - 1
          PROVE  \E b \in f.start .. f.ba - 1 : At(flash', physBad', ni', b, i)
      <3>1. PICK b \in io.start .. io.ba - 1 : At(flash, physBad, ni, b, i)
        BY <1>1, <2>1 DEF Written
      <3>2. b # c /\ b \in f.start .. f.ba - 1
        BY <1>0, <1>1, <2>1
      <3>3. At(flash', physBad', ni', b, i)
        BY <3>1, <3>2, AtOther
      <3> QED BY <3>2, <3>3
    <2>3. Written(f, flash', physBad', ni')
      BY <2>2 DEF Written
    <2> QED BY <2>3 DEF f
  <1>2. ASSUME Behind(io, flash, physBad, ni), c < io.limit PROVE Behind(io, flash', physBad', ni')
    <2>2. ASSUME NEW i \in 0 .. TableBlocks - 1
          PROVE  \E b \in io.limit .. BlockCount - 1 : At(flash', physBad', ni', b, i)
      <3>1. PICK b \in io.limit .. BlockCount - 1 : At(flash, physBad, ni, b, i)
        BY <1>2 DEF Behind
      <3>2. b # c
        BY <1>0, <1>2
      <3>3. At(flash', physBad', ni', b, i)
        BY <3>1, <3>2, AtOther
      <3> QED BY <3>3
    <2> QED BY <2>2 DEF Behind
  <1> QED BY <1>1, <1>2

-----------------------------------------------------------------------------
(* nmbm_write_mgmt_range and nmbm_erase_range.                             *)

\* A block of the area is a management block, and no data block.
LEMMA AreaMgmt ==
  ASSUME NEW n \in InstanceType, NEW b \in Area(n)
  PROVE  b \in MgmtBlocks /\ b \in Blocks /\ b \notin Logic /\ b \in Int
  BY GeometryAssumption DEF Area, InstanceType, Blocks, MgmtBlocks, Logic

\* The block the loops stand on.
LEMMA HereGood ==
  ASSUME IInv, pc \in TableCode, Here < io.limit
  PROVE  /\ Here \in Area(ni) /\ Here \in Int /\ Here \in Blocks /\ Here \notin Logic
         /\ io.ba <= Here /\ ni.block_state[Here] = GOOD
  <1>1. io.ba \in Nat /\ io.limit \in Nat /\ ni \in InstanceType
    BY GeometryAssumption DEF IInv, FrameType, Addresses
  <1>2. Here \in Area(ni) /\ Here \in io.ba .. io.limit - 1
    BY HereArea
  <1>3. Here = io.limit \/ ni.block_state[Here] = GOOD
    BY <1>1, NextGoodType, Zenon DEF Here
  <1>4. Here \in Int /\ Here \in Blocks /\ Here \notin Logic
    BY <1>1, <1>2, AreaMgmt
  <1>5. io.ba <= Here /\ Here # io.limit
    BY <1>1, <1>2
  <1> QED BY <1>2, <1>3, <1>4, <1>5

LEMMA WriteEraseSave == ASSUME IInv, SaveInv, WriteErase PROVE SaveStep
  <1>1. pc = "wErase" /\ Here < io.limit /\ ni \in InstanceType /\ io \in FrameType /\ Chip
    BY DEF WriteErase, IInv
  <1>2. /\ CacheOK(ni) /\ Written(io, flash, physBad, ni)
        /\ io.k = "rescueMain" => Behind(io, flash, physBad, ni)
    BY <1>1 DEF SaveInv, SaveOK, TableCode, WriteCode, Keeps
  <1>3. /\ Here \in Area(ni) /\ Here \in Int /\ Here \in Blocks /\ Here \notin Logic
        /\ io.ba <= Here /\ ni.block_state[Here] = GOOD
    BY <1>1, HereGood DEF TableCode
  <1>4. \A x \in Blocks : x # Here => flash'[x] = flash[x] /\ (x \in physBad' => x \in physBad)
    <2>1. ErasePhys(Here) \/ ErasePhysFails(Here)
      BY Zenon DEF WriteErase
    <2> QED BY <1>1, <1>3, <2>1, EraseOther
  <1> DEFINE h == Here
  <1>5. /\ h \in Int /\ h \in Nat /\ io.ba <= h /\ h < io.limit /\ io.ba \in Nat
        /\ h + 1 \in Nat /\ io.ba <= h + 1
    BY <1>1, <1>3 DEF FrameType, Addresses
  <1>6. CASE ErasePhys(Here) /\ pc' = "wProgram" /\ io' = [io EXCEPT !.ba = Here] /\ UNCHANGED ni
    <2>1. \A x \in Blocks : x # h => ni'.block_state[x] = ni.block_state[x]
      BY <1>6
    <2>2. /\ Written([io EXCEPT !.ba = h], flash', physBad', ni')
          /\ io.k = "rescueMain" => Behind(io, flash', physBad', ni')
      BY <1>1, <1>2, <1>4, <1>5, <1>6, <2>1, KeptChunks
    <2>3. io'.k = io.k /\ io'.limit = io.limit /\ io'.ba = h
      BY <1>1, <1>6 DEF FrameType
    <2>4. Written(io', flash', physBad', ni')
      BY <1>6, <2>2, Zenon
    <2>5. Keeps(pc', io') => Behind(io', flash', physBad', ni')
      BY <1>6, <2>2, <2>3 DEF Keeps, Behind
    <2>6. io'.ba \notin physBad' /\ ni'.block_state[io'.ba] = GOOD
      BY <1>3, <1>6, <2>3 DEF ErasePhys
    <2>7. CacheOK(ni') /\ CleanStep
      BY <1>2, <1>6 DEF CleanStep
    <2> QED BY <1>6, <2>4, <2>5, <2>6, <2>7 DEF SaveStep, SaveInv, SaveOK
  <1>7. CASE /\ ErasePhysFails(Here) /\ ni' = SetState(ni, Here, BAD)
             /\ io' = [io EXCEPT !.ba = Here + 1] /\ UNCHANGED pc
    <2>1. /\ \A x \in Blocks : x # h => ni'.block_state[x] = ni.block_state[x]
          /\ ni'.cache = ni.cache /\ CacheOK(ni') /\ (ni'.dirty \/ ~ni.dirty)
      BY <1>1, <1>2, <1>3, <1>7, SetStateOther DEF States
    <2>2. /\ Written([io EXCEPT !.ba = h + 1], flash', physBad', ni')
          /\ io.k = "rescueMain" => Behind(io, flash', physBad', ni')
      BY <1>1, <1>2, <1>4, <1>5, <2>1, KeptChunks
    <2>3. io'.k = io.k /\ io'.limit = io.limit
      BY <1>1, <1>7 DEF FrameType
    <2>4. Written(io', flash', physBad', ni')
      BY <1>7, <2>2, Zenon
    <2>5. Keeps(pc', io') => Behind(io', flash', physBad', ni')
      BY <1>1, <1>7, <2>2, <2>3 DEF Keeps, Behind
    <2> QED BY <1>1, <1>7, <2>1, <2>4, <2>5 DEF SaveStep, SaveInv, SaveOK, CleanStep
  <1> QED BY <1>6, <1>7 DEF WriteErase

LEMMA WriteProgramSave == ASSUME IInv, SaveInv, WriteProgram PROVE SaveStep
  <1>1. /\ pc = "wProgram" /\ ni \in InstanceType /\ io \in FrameType /\ Chip
        /\ io.ba < io.limit /\ io.left # 0 /\ FrameOK(io, ni)
    BY DEF WriteProgram, IInv, Control, TableCode
  <1>2. /\ CacheOK(ni) /\ Written(io, flash, physBad, ni)
        /\ io.ba \notin physBad /\ ni.block_state[io.ba] = GOOD
        /\ io.k = "rescueMain" => Behind(io, flash, physBad, ni)
    BY <1>1 DEF SaveInv, SaveOK, TableCode, WriteCode, Keeps
  <1> DEFINE h == io.ba
  <1>3. h \in Int /\ h \in Blocks /\ h \notin Logic /\ h \in MgmtBlocks
    BY <1>1, AreaMgmt DEF FrameOK
  <1>4. h \in Nat /\ h + 1 \in Nat /\ h <= h + 1 /\ h <= h /\ io.left \in 1 .. TableBlocks
    BY <1>1, GeometryAssumption DEF FrameType, Addresses
  <1>6. CASE /\ flash' = [flash EXCEPT ![io.ba] = Chunk(ni.cache, TableBlocks - io.left)]
             /\ io' = [io EXCEPT !.ba = @ + 1, !.left = @ - 1,
                                 !.start = IF io.left = TableBlocks THEN io.ba ELSE @]
             /\ pc' = IF io.left = 1 THEN "ret" ELSE "wErase"
             /\ UNCHANGED <<physBad, ni, fails>>
    <2>1. /\ \A x \in Blocks : x # h => flash'[x] = flash[x] /\ (x \in physBad' => x \in physBad)
          /\ \A x \in Blocks : x # h => ni'.block_state[x] = ni.block_state[x]
          /\ ni'.cache = ni.cache
      BY <1>1, <1>6 DEF Chip
    <2>2. /\ Written([io EXCEPT !.ba = h + 1], flash', physBad', ni')
          /\ io.k = "rescueMain" => Behind(io, flash', physBad', ni')
      BY <1>1, <1>2, <1>3, <1>4, <2>1, KeptChunks
    <2>3. /\ io'.k = io.k /\ io'.limit = io.limit /\ io'.ba = h + 1 /\ io'.left = io.left - 1
          /\ io'.start = IF io.left = TableBlocks THEN h ELSE io.start
      BY <1>1, <1>6 DEF FrameType
    <2>4. At(flash', physBad', ni', h, TableBlocks - io.left)
      <3>1. flash'[h] = Chunk(ni.cache, TableBlocks - io.left)
        BY <1>1, <1>3, <1>6 DEF Chip
      <3> QED BY <1>2, <1>3, <1>6, <3>1 DEF At
    <2>5. Written(io', flash', physBad', ni')
      <3> SUFFICES ASSUME NEW i \in 0 .. (TableBlocks - io'.left) - 1
                   PROVE  \E b \in io'.start .. io'.ba - 1 : At(flash', physBad', ni', b, i)
        BY DEF Written
      <3>0. /\ io.start \in Nat /\ (io.left = TableBlocks \/ io.left \in 1 .. TableBlocks - 1)
            /\ io'.start \in Nat /\ io'.left = io.left - 1 /\ TableBlocks \in Nat
        BY <1>1, <1>4, <2>3, GeometryAssumption DEF FrameType, Addresses
      <3>1. CASE i = TableBlocks - io.left
        <4>1. io'.start <= h
          <5>1. CASE io.left = TableBlocks
            BY <5>1, <1>4, <2>3
          <5>2. CASE io.left # TableBlocks
            <6>1. 0 \in 0 .. (TableBlocks - io.left) - 1
              BY <5>2, <1>4, GeometryAssumption
            <6>2. PICK b \in io.start .. io.ba - 1 : At(flash, physBad, ni, b, 0)
              BY <1>2, <6>1 DEF Written
            <6> QED BY <5>2, <6>2, <3>0, <1>4, <2>3
          <5> QED BY <5>1, <5>2
        <4>2. h \in io'.start .. io'.ba - 1
          BY <4>1, <3>0, <1>4, <2>3
        <4> QED BY <3>1, <4>2, <2>4
      <3>2. CASE i # TableBlocks - io.left
        <4>1. i \in 0 .. (TableBlocks - io.left) - 1 /\ io.left # TableBlocks
          BY <3>0, <3>2, <1>4
        <4>2. io'.start = io.start
          BY <4>1, <2>3
        <4> DEFINE f == [io EXCEPT !.ba = h + 1]
        <4>3. f.ba = h + 1 /\ f.start = io.start /\ f.left = io.left
          BY <1>1 DEF FrameType
        <4>4. Written(f, flash', physBad', ni')
          BY <2>2
        <4> HIDE DEF f
        <4>5. i \in 0 .. (TableBlocks - f.left) - 1
          BY <4>1, <4>3
        <4>6. PICK b \in f.start .. f.ba - 1 : At(flash', physBad', ni', b, i)
          BY <4>4, <4>5 DEF Written
        <4> QED BY <4>2, <4>3, <4>6, <2>3
      <3> QED BY <3>1, <3>2
    <2>6. Keeps(pc', io') => Behind(io', flash', physBad', ni')
      BY <1>6, <2>2, <2>3 DEF Keeps, Behind
    <2>7. CacheOK(ni') /\ CleanStep /\ pc' \notin {"off", "wProgram"}
      BY <1>2, <1>6 DEF CleanStep
    <2> QED BY <2>5, <2>6, <2>7 DEF SaveStep, SaveInv, SaveOK
  <1>7. CASE /\ BlockFails(io.ba, {Blank, Chunk(ni.cache, TableBlocks - io.left)})
             /\ ni' = SetState(ni, io.ba, BAD)
             /\ io' = [io EXCEPT !.ba = @ + 1]
             /\ pc' = "wErase"
    <2>1. /\ \A x \in Blocks : x # h => ni'.block_state[x] = ni.block_state[x]
          /\ ni'.cache = ni.cache /\ CacheOK(ni') /\ (ni'.dirty \/ ~ni.dirty)
      BY <1>1, <1>2, <1>3, <1>7, SetStateOther DEF States
    <2>0. \A x \in Blocks : x # h => flash'[x] = flash[x] /\ (x \in physBad' => x \in physBad)
      BY <1>1, <1>3, <1>7 DEF Chip, BlockFails
    <2>2. /\ Written([io EXCEPT !.ba = h + 1], flash', physBad', ni')
          /\ io.k = "rescueMain" => Behind(io, flash', physBad', ni')
      BY <1>1, <1>2, <1>3, <1>4, <2>0, <2>1, KeptChunks
    <2>3. io'.k = io.k /\ io'.limit = io.limit
      BY <1>1, <1>7 DEF FrameType
    <2>4. Written(io', flash', physBad', ni')
      BY <1>7, <2>2, Zenon
    <2>5. Keeps(pc', io') => Behind(io', flash', physBad', ni')
      BY <1>1, <1>7, <2>2, <2>3 DEF Keeps, Behind
    <2> QED BY <1>1, <1>7, <2>1, <2>4, <2>5 DEF SaveStep, SaveInv, SaveOK, CleanStep
  <1> QED BY <1>6, <1>7 DEF WriteProgram

LEMMA WriteOutOfRangeSave == ASSUME SaveInv, WriteOutOfRange PROVE SaveStep
  BY DEF WriteOutOfRange, SaveStep, SaveInv, SaveOK, CleanStep, TableCode, WriteCode, Keeps

LEMMA RangeEraseSave == ASSUME IInv, SaveInv, RangeErase PROVE SaveStep
  <1>1. pc = "range" /\ Here < io.limit /\ ni \in InstanceType /\ io \in FrameType /\ Chip
    BY DEF RangeErase, IInv
  <1>2. CacheOK(ni) /\ (io.k = "rescueBehindErase" => Behind(io, flash, physBad, ni))
    BY <1>1 DEF SaveInv, SaveOK, TableCode, WriteCode, Keeps
  <1> DEFINE h == Here
  <1>3. h \in Area(ni) /\ h \in Int /\ h \in Blocks /\ h \notin Logic
    BY <1>1, HereGood DEF TableCode
  <1>4. \A x \in Blocks : x # h => flash'[x] = flash[x] /\ (x \in physBad' => x \in physBad)
    <2>1. ErasePhys(Here) \/ ErasePhysFails(Here)
      BY Zenon DEF RangeErase
    <2> QED BY <1>1, <1>3, <2>1, EraseOther
  <1>5. /\ \A x \in Blocks : x # h => ni'.block_state[x] = ni.block_state[x]
        /\ ni'.cache = ni.cache /\ CacheOK(ni') /\ (ni'.dirty \/ ~ni.dirty)
    <2>1. CASE UNCHANGED ni
      BY <2>1, <1>2 DEF InstanceType
    <2>2. CASE ni' = SetState(ni, Here, BAD)
      BY <2>2, <1>1, <1>2, <1>3, SetStateOther DEF States
    <2> QED BY <2>1, <2>2 DEF RangeErase
  <1>6. io'.k = io.k /\ io'.limit = io.limit /\ pc' = "range"
    BY <1>1 DEF RangeErase, FrameType
  <1>7. io.k = "rescueBehindErase" => Behind(io, flash', physBad', ni')
    BY <1>1, <1>2, <1>3, <1>4, <1>5, KeptChunks
  <1>8. Keeps(pc', io') => Behind(io', flash', physBad', ni')
    BY <1>6, <1>7 DEF Keeps, WriteCode, Behind
  <1> QED BY <1>5, <1>6, <1>8 DEF SaveStep, SaveInv, SaveOK, CleanStep, WriteCode

-----------------------------------------------------------------------------
(* The routines that write tables, from one call to the next.              *)

\* What every return handler may rely on.
LEMMA SaveEntry ==
  ASSUME IInv, SaveInv, pc \in {"ret", "range"}
  PROVE  /\ CallOK /\ ni \in InstanceType /\ io \in FrameType /\ CacheOK(ni)
         /\ pc = "ret" /\ io.left = 0 => AllOnChip
         /\ Keeps(pc, io) => AllOnChip
  BY ReturnedOnChip, BehindOnChip DEF IInv, SaveInv, SaveOK, TableCode

\* Rebuild and WriteMain of an instance whose dirty flag is ni's, or was
\* cleared with the table on the chip.
LEMMA RebuildSave ==
  ASSUME NEW n \in InstanceType, Rebuild(n), CacheOK(n), n.dirty \/ ~ni.dirty \/ AllOnChip
  PROVE  SaveStep
  <1>1. ni'.dirty = n.dirty /\ Same(ni', n)
    BY DEF Rebuild, InstanceType, Same
  <1>2. CacheOK(ni')
    BY <1>1, SameCache
  <1> QED BY <1>1, <1>2, StartWrite DEF Rebuild

LEMMA WriteMainSave ==
  ASSUME NEW n \in InstanceType, NEW limit, WriteMain(n, limit), CacheOK(n),
         n.dirty \/ ~ni.dirty \/ AllOnChip
  PROVE  SaveStep
  <1>1. CASE Rebuild(n)
    BY <1>1, RebuildSave
  <1>2. CASE ni' = n /\ WriteTable("onceMain", n.main_table_ba, limit, 0)
    BY <1>2, StartWrite
  <1> QED BY <1>1, <1>2 DEF WriteMain

LEMMA RebuildMainSave == ASSUME IInv, SaveInv, RebuildMain PROVE SaveStep
  <1>1. pc = "ret"
    BY Zenon DEF RebuildMain, Returned
  <1>2. /\ CallOK /\ ni \in InstanceType /\ io \in FrameType /\ CacheOK(ni)
        /\ io.left = 0 => AllOnChip
    BY <1>1, SaveEntry
  <1>3. CASE Returned("rebuildMain", FALSE)
    <2>1. TableReturn([ni EXCEPT !.protected = TRUE], FALSE)
      BY <1>3 DEF RebuildMain, Returned
    <2>2. [ni EXCEPT !.protected = TRUE] \in InstanceType /\ [ni EXCEPT !.protected = TRUE].dirty = ni.dirty
      BY <1>2 DEF InstanceType
    <2> QED BY <1>2, <2>1, <2>2, ReturnQuiet DEF InstanceType
  <1>4. CASE Returned("rebuildMain", TRUE)
    <2> DEFINE n == Clean([ni EXCEPT !.main_table_ba = io.start, !.mapping_blocks_ba = io.ba])
               next == TryReserve(n.block_state, io.ba, n.mapping_blocks_top_ba - TableBlocks)
    <2>1. n \in InstanceType /\ Same(n, ni)
      BY <1>2 DEF Clean, InstanceType, FrameType, Same
    <2>2. CacheOK(n) /\ AllOnChip
      BY <1>2, <1>4, <2>1, SameCache DEF Returned
    <2>3. \/ TableReturn(n, TRUE)
          \/ ni' = n /\ WriteTable("rebuildBackup", next, n.mapping_blocks_top_ba, io.ba)
      BY <1>4 DEF RebuildMain, Returned
    <2> HIDE DEF n, next
    <2> QED BY <1>2, <2>1, <2>2, <2>3, ReturnQuiet, StartWrite
  <1> QED BY <1>3, <1>4 DEF RebuildMain

LEMMA RebuildBackupSave == ASSUME IInv, SaveInv, RebuildBackup PROVE SaveStep
  <1>1. pc = "ret"
    BY Zenon DEF RebuildBackup, Returned
  <1>2. CallOK /\ ni \in InstanceType /\ io \in FrameType /\ CacheOK(ni)
    BY <1>1, SaveEntry
  <1>3. CASE TableReturn(ni, TRUE)
    BY <1>2, <1>3, ReturnQuiet DEF InstanceType
  <1>4. CASE /\ ni' = [ni EXCEPT !.backup_table_ba = io.start, !.mapping_blocks_ba = io.ba]
             /\ EraseRange("rebuildErase", io.saved, io.start, 0)
    <2>1. Same(ni', ni) /\ ni'.dirty = ni.dirty
      BY <1>2, <1>4 DEF Same, InstanceType
    <2>2. CacheOK(ni') /\ (ni'.dirty \/ ~ni.dirty)
      BY <1>2, <2>1, SameCache DEF InstanceType
    <2> QED BY <1>2, <1>4, <2>2, StartRange
  <1> QED BY <1>3, <1>4 DEF RebuildBackup

LEMMA ErasedSave ==
  ASSUME IInv, SaveInv, RebuildErased \/ RescueFrontErased
  PROVE  SaveStep
  <1>1. pc = "range" /\ TableReturn(ni, TRUE)
    BY DEF RebuildErased, RescueFrontErased, RangeErased
  <1> QED BY <1>1, SaveEntry, ReturnQuiet DEF InstanceType

LEMMA RescueSingleSave ==
  ASSUME NEW n, RescueSingle(n), CacheOK(n), n.dirty \/ ~ni.dirty
  PROVE  SaveStep
  BY StartWrite DEF RescueSingle

LEMMA RescueFrontSave == ASSUME IInv, SaveInv, RescueFront PROVE SaveStep
  <1>1. pc = "ret"
    BY Zenon DEF RescueFront, Returned
  <1>2. /\ CallOK /\ ni \in InstanceType /\ io \in FrameType /\ CacheOK(ni)
        /\ io.left = 0 => AllOnChip
    BY <1>1, SaveEntry
  <1>3. CASE Returned("rescueFront", TRUE)
    <2>1. Same(ni', ni)
      BY <1>2, <1>3 DEF RescueFront, Returned, Same, Clean, InstanceType
    <2>2. CacheOK(ni') /\ AllOnChip
      BY <1>2, <1>3, <2>1, SameCache DEF Returned
    <2>3. EraseRange("rescueFrontErase", io.ba, ni.main_table_ba, 0)
      BY <1>3 DEF RescueFront, Returned
    <2> QED BY <1>2, <2>2, <2>3, StartRange
  <1>4. CASE TableReturn(ni, FALSE)
    BY <1>2, <1>4, ReturnQuiet DEF InstanceType
  <1>5. CASE /\ WriteTable("rescueBehind", ReserveBehind(ni), ni.mapping_blocks_top_ba, ReserveBehind(ni))
             /\ UNCHANGED ni
    BY <1>2, <1>5, StartWrite DEF InstanceType
  <1> QED BY <1>3, <1>4, <1>5 DEF RescueFront

\* The table is behind the range that is erased in front of it.
LEMMA RescueBehindSave == ASSUME IInv, SaveInv, RescueBehind PROVE SaveStep
  <1>1. pc = "ret"
    BY Zenon DEF RescueBehind, Returned
  <1>2. CallOK /\ ni \in InstanceType /\ io \in FrameType /\ CacheOK(ni)
    BY <1>1, SaveEntry
  <1>3. CASE Returned("rescueBehind", TRUE)
    <2>1. /\ EraseRange("rescueBehindErase", ni.mapping_blocks_ba, io.start, io.ba) /\ UNCHANGED ni
          /\ UNCHANGED <<flash, physBad>>
      BY <1>3 DEF RescueBehind, Returned
    <2>2. io.left = 0 /\ Written(io, flash, physBad, ni)
      BY <1>1, <1>3 DEF Returned, SaveInv, SaveOK, WriteCode
    <2>3. pc' = "range" /\ io'.limit = io.start /\ io'.k = "rescueBehindErase"
      BY <1>2, <2>1 DEF EraseRange, FrameType
    <2>4. Behind(io', flash', physBad', ni')
      <3> SUFFICES ASSUME NEW i \in 0 .. TableBlocks - 1
                   PROVE  \E b \in io'.limit .. BlockCount - 1 : At(flash', physBad', ni', b, i)
        BY DEF Behind
      <3>1. i \in 0 .. (TableBlocks - io.left) - 1
        BY <2>2, GeometryAssumption
      <3>2. PICK b \in io.start .. io.ba - 1 : At(flash, physBad, ni, b, i)
        BY <2>2, <3>1 DEF Written
      <3>3. b \in io'.limit .. BlockCount - 1
        BY <1>2, <2>3, <3>2, GeometryAssumption DEF FrameType, Addresses
      <3> QED BY <2>1, <3>2, <3>3
    <2> QED BY <1>2, <2>1, <2>3, <2>4 DEF SaveStep, SaveInv, SaveOK, CleanStep, WriteCode
  <1>4. CASE TableReturn(ni, FALSE)
    BY <1>2, <1>4, ReturnQuiet DEF InstanceType
  <1>5. CASE /\ WriteTable("rescueBehind", io.saved - 1, ni.mapping_blocks_top_ba, io.saved - 1)
             /\ UNCHANGED ni
    BY <1>2, <1>5, StartWrite DEF InstanceType
  <1> QED BY <1>3, <1>4, <1>5 DEF RescueBehind

LEMMA RescueBehindErasedSave == ASSUME IInv, SaveInv, RescueBehindErased PROVE SaveStep
  <1> DEFINE n == Clean([ni EXCEPT !.backup_table_ba = io.start, !.mapping_blocks_ba = io.saved])
  <1>1. pc = "range" /\ io.k = "rescueBehindErase" /\ TableReturn(n, TRUE)
    BY DEF RescueBehindErased, RangeErased
  <1>2. CallOK /\ ni \in InstanceType /\ io \in FrameType /\ AllOnChip
    BY <1>1, SaveEntry DEF Keeps
  <1>3. n \in InstanceType
    BY <1>2 DEF Clean, InstanceType, FrameType
  <1> QED BY <1>1, <1>2, <1>3, ReturnQuiet

LEMMA SingleMainSave == ASSUME IInv, SaveInv, SingleMain PROVE SaveStep
  <1> DEFINE n == Clean([ni EXCEPT !.main_table_ba = io.start])
             m == [ni EXCEPT !.main_table_ba = ni.backup_table_ba, !.backup_table_ba = 0]
  <1>1. pc = "ret"
    BY Zenon DEF SingleMain, Returned
  <1>2. /\ CallOK /\ ni \in InstanceType /\ io \in FrameType /\ CacheOK(ni)
        /\ io.left = 0 => AllOnChip
    BY <1>1, SaveEntry
  <1>3. n \in InstanceType /\ Same(m, ni) /\ m.dirty = ni.dirty
    BY <1>2 DEF Clean, InstanceType, FrameType, Same
  <1>4. CacheOK(m) /\ (m.dirty \/ ~ni.dirty)
    BY <1>2, <1>3, SameCache DEF InstanceType
  <1>5. (io.left = 0 /\ TableReturn(n, TRUE)) \/ RescueSingle(m)
    BY DEF SingleMain, Returned
  <1> HIDE DEF n, m
  <1> QED BY <1>2, <1>3, <1>4, <1>5, ReturnQuiet, RescueSingleSave

LEMMA SingleBackupSave == ASSUME IInv, SaveInv, SingleBackup PROVE SaveStep
  <1> DEFINE n == Clean([ni EXCEPT !.backup_table_ba = io.start, !.mapping_blocks_ba = io.ba])
             m == [ni EXCEPT !.mapping_blocks_ba = ni.backup_table_ba, !.backup_table_ba = 0]
  <1>1. pc = "ret"
    BY Zenon DEF SingleBackup, Returned
  <1>2. /\ CallOK /\ ni \in InstanceType /\ io \in FrameType /\ (io.left = 0 => AllOnChip)
    BY <1>1, SaveEntry
  <1>0. 0 \in Addresses
    BY GeometryAssumption DEF Addresses
  <1>3. n \in InstanceType /\ m \in InstanceType /\ (m.dirty \/ ~ni.dirty)
    BY <1>0, <1>2 DEF Clean, InstanceType, FrameType
  <1>5. (io.left = 0 /\ TableReturn(n, TRUE)) \/ TableReturn(m, FALSE)
    BY DEF SingleBackup, Returned
  <1> HIDE DEF n, m
  <1> QED BY <1>2, <1>3, <1>5, ReturnQuiet

LEMMA BackupBecomesMainSave ==
  ASSUME CallOK, ni \in InstanceType, BackupBecomesMain(ni) PROVE SaveStep
  <1> DEFINE m == [ni EXCEPT !.main_table_ba = ni.backup_table_ba, !.backup_table_ba = 0]
  <1>0. 0 \in Addresses
    BY GeometryAssumption DEF Addresses
  <1>1. m \in InstanceType /\ (m.dirty \/ ~ni.dirty)
    BY <1>0 DEF InstanceType
  <1>2. TableReturn(m, TRUE)
    BY DEF BackupBecomesMain
  <1> HIDE DEF m
  <1> QED BY <1>1, <1>2, ReturnQuiet

\* nmbm_rescue_main_info_table: the temporary table is behind the limit up to
\* which the main table is written.
LEMMA RescueMainTempSave == ASSUME IInv, SaveInv, RescueMainTemp PROVE SaveStep
  <1>1. pc = "ret"
    BY Zenon DEF RescueMainTemp, Returned
  <1>2. CallOK /\ ni \in InstanceType /\ io \in FrameType /\ CacheOK(ni)
    BY <1>1, SaveEntry
  <1>3. CASE Returned("rescueTemp", TRUE)
    <2>1. /\ ni' = [ni EXCEPT !.mapping_blocks_ba = io.ba]
          /\ WriteTable("rescueMain", MgmtStart, io.start, 0) /\ UNCHANGED <<flash, physBad>>
      BY <1>3 DEF RescueMainTemp, Returned
    <2>2. io.left = 0 /\ Written(io, flash, physBad, ni)
      BY <1>1, <1>3 DEF Returned, SaveInv, SaveOK, WriteCode
    <2>3. pc' = "wErase" /\ io'.limit = io.start /\ io'.left = TableBlocks
      BY <2>1 DEF WriteTable
    <2>4. Same(ni', ni) /\ ni'.dirty = ni.dirty
      BY <1>2, <2>1 DEF Same, InstanceType
    <2>5. CacheOK(ni')
      BY <1>2, <2>4, SameCache
    <2>6. Behind(io', flash', physBad', ni')
      <3> SUFFICES ASSUME NEW i \in 0 .. TableBlocks - 1
                   PROVE  \E b \in io'.limit .. BlockCount - 1 : At(flash', physBad', ni', b, i)
        BY DEF Behind
      <3>1. i \in 0 .. (TableBlocks - io.left) - 1
        BY <2>2, GeometryAssumption
      <3>2. PICK b \in io.start .. io.ba - 1 : At(flash, physBad, ni, b, i)
        BY <2>2, <3>1 DEF Written
      <3>3. b \in io'.limit .. BlockCount - 1
        BY <1>2, <2>3, <3>2, GeometryAssumption DEF FrameType, Addresses
      <3>4. At(flash', physBad', ni', b, i)
        BY <2>1, <2>4, <3>2 DEF At, Same
      <3> QED BY <3>3, <3>4
    <2>7. Written(io', flash', physBad', ni')
      <3>1. (TableBlocks - io'.left) - 1 = -1
        BY <2>3, GeometryAssumption
      <3> QED BY <3>1 DEF Written
    <2> QED BY <2>3, <2>4, <2>5, <2>6, <2>7 DEF SaveStep, SaveInv, SaveOK, CleanStep
  <1>4. CASE BackupBecomesMain(ni)
    BY <1>2, <1>4, BackupBecomesMainSave
  <1>5. CASE /\ WriteTable("rescueTemp", io.saved - 1, ni.mapping_blocks_top_ba, io.saved - 1)
             /\ UNCHANGED ni
    BY <1>2, <1>5, StartWrite DEF InstanceType
  <1> QED BY <1>3, <1>4, <1>5 DEF RescueMainTemp

LEMMA RescueMainMainSave == ASSUME IInv, SaveInv, RescueMainMain PROVE SaveStep
  <1> DEFINE n == Clean([ni EXCEPT !.main_table_ba = io.start, !.backup_table_ba = io.limit])
             m == Clean([ni EXCEPT !.main_table_ba = io.limit, !.backup_table_ba = 0])
  <1>1. pc = "ret" /\ io.k = "rescueMain"
    BY Zenon DEF RescueMainMain, Returned
  <1>2. CallOK /\ ni \in InstanceType /\ io \in FrameType /\ AllOnChip
    BY <1>1, SaveEntry DEF Keeps, WriteCode
  <1>0. 0 \in Addresses
    BY GeometryAssumption DEF Addresses
  <1>3. n \in InstanceType /\ m \in InstanceType
    BY <1>0, <1>2 DEF Clean, InstanceType, FrameType
  <1>4. TableReturn(n, TRUE) \/ TableReturn(m, TRUE)
    BY DEF RescueMainMain
  <1> HIDE DEF n, m
  <1> QED BY <1>2, <1>3, <1>4, ReturnQuiet

-----------------------------------------------------------------------------
(* nmbm_update_info_table.                                                 *)

LEMMA UpdateOnceSave == ASSUME IInv, SaveInv, UpdateOnce PROVE SaveStep
  <1> DEFINE n == GenerateCache(ni)
  <1>1. ni \in InstanceType
    BY DEF IInv
  <1>2. n \in InstanceType /\ CacheOK(n) /\ (n.dirty \/ ~ni.dirty)
    BY <1>1, GenerateCacheType, FreshCache DEF InstanceType
  <1>3. \/ WriteMain(n, n.mapping_blocks_top_ba)
        \/ ni' = n /\ WriteTable("onceBackup", n.backup_table_ba, n.mapping_blocks_top_ba, 0)
    BY DEF UpdateOnce
  <1> HIDE DEF n
  <1> QED BY <1>2, <1>3, WriteMainSave, StartWrite

LEMMA OnceBackupSave == ASSUME IInv, SaveInv, OnceBackup PROVE SaveStep
  <1> DEFINE n == Clean([ni EXCEPT !.backup_table_ba = io.start, !.mapping_blocks_ba = io.ba])
             m == [ni EXCEPT !.mapping_blocks_ba = ni.backup_table_ba, !.backup_table_ba = 0]
  <1>1. pc = "ret"
    BY Zenon DEF OnceBackup, Returned
  <1>2. /\ CallOK /\ ni \in InstanceType /\ io \in FrameType /\ CacheOK(ni)
        /\ io.left = 0 => AllOnChip
    BY <1>1, SaveEntry
  <1>0. 0 \in Addresses
    BY GeometryAssumption DEF Addresses
  <1>3. n \in InstanceType /\ m \in InstanceType /\ (m.dirty \/ ~ni.dirty)
    BY <1>0, <1>2 DEF Clean, InstanceType, FrameType
  <1>4. Same(n, ni) /\ Same(m, ni)
    BY <1>2 DEF Same, Clean, InstanceType
  <1>5. \/ io.left = 0 /\ WriteMain(n, n.backup_table_ba)
        \/ WriteMain(m, m.mapping_blocks_top_ba)
    BY DEF OnceBackup, Returned
  <1> HIDE DEF n, m
  <1>6. CacheOK(n) /\ CacheOK(m)
    BY <1>2, <1>4, SameCache
  <1> QED BY <1>2, <1>3, <1>5, <1>6, WriteMainSave

LEMMA OnceMainSave == ASSUME IInv, SaveInv, OnceMain PROVE SaveStep
  <1> DEFINE mb == IF ni.backup_table_ba = 0 THEN io.ba ELSE ni.mapping_blocks_ba
             n  == Clean([ni EXCEPT !.main_table_ba = io.start, !.mapping_blocks_ba = mb])
  <1>1. pc = "ret"
    BY Zenon DEF OnceMain, Returned
  <1>2. /\ CallOK /\ ni \in InstanceType /\ io \in FrameType /\ CacheOK(ni)
        /\ io.left = 0 => AllOnChip
    BY <1>1, SaveEntry
  <1>3. CASE Returned("onceMain", TRUE)
    <2>1. TableReturn(n, TRUE)
      BY <1>3 DEF OnceMain, Returned
    <2>2. mb \in Addresses
      BY <1>2 DEF InstanceType, FrameType
    <2> HIDE DEF mb
    <2>3. n \in InstanceType
      BY <1>2, <2>2 DEF Clean, InstanceType, FrameType
    <2> HIDE DEF n
    <2> QED BY <1>2, <1>3, <2>1, <2>3, ReturnQuiet DEF Returned
  <1>4. CASE Rebuild(ni)
    BY <1>2, <1>4, RebuildSave DEF InstanceType
  <1>5. CASE RescueMain(ni)
    <2>1. CASE BackupBecomesMain(ni)
      BY <1>2, <2>1, BackupBecomesMainSave
    <2>2. CASE /\ ni' = ni
               /\ WriteTable("rescueTemp", ReserveBehind(ni), ni.mapping_blocks_top_ba, ReserveBehind(ni))
      BY <1>2, <2>2, StartWrite DEF InstanceType
    <2> QED BY <1>5, <2>1, <2>2 DEF RescueMain
  <1> QED BY <1>3, <1>4, <1>5 DEF OnceMain

-----------------------------------------------------------------------------
(* nmbm_attach.  Nothing is dirty before it.                               *)

LEMMA CreateInfoTableSave ==
  ASSUME NEW n \in InstanceType, NEW sig, CreateInfoTable(n, sig), n.dirty \/ ~ni.dirty,
         WalkDesc(n.block_state, sig, 1, MgmtStart) \in Addresses \cup {NoBlock}
  PROVE  SaveStep
  <1> DEFINE top == WalkDesc(n.block_state, sig, 1, MgmtStart)
             m   == [n EXCEPT !.mapping_blocks_top_ba = top]
  <1>1. CASE top = NoBlock
    <2>1. ni' = n /\ pc' = "dead"
      BY <1>1 DEF CreateInfoTable
    <2> QED BY <2>1, Quiet DEF TableCode
  <1>2. CASE top # NoBlock
    <2>1. m \in InstanceType /\ m.dirty = n.dirty
      BY <1>2 DEF InstanceType
    <2>2. Rebuild(GenerateCache(m))
      BY <1>2 DEF CreateInfoTable
    <2> HIDE DEF m
    <2>3. GenerateCache(m) \in InstanceType /\ CacheOK(GenerateCache(m)) /\ GenerateCache(m).dirty = m.dirty
      BY <2>1, GenerateCacheType, FreshCache
    <2> QED BY <2>1, <2>2, <2>3, RebuildSave
  <1> QED BY <1>1, <1>2

LEMMA TopType ==
  ASSUME NEW st, NEW sig \in Blocks
  PROVE  WalkDesc(st, sig, 1, MgmtStart) \in Addresses \cup {NoBlock}
  <1>1. /\ MgmtStart \in Nat /\ ~(MgmtStart >= BlockCount)
        /\ MgmtStart + 1 .. sig \subseteq Addresses
    BY GeometryAssumption DEF Blocks, Addresses
  <1>2. \/ WalkDesc(st, sig, 1, MgmtStart) = NoBlock
        \/ WalkDesc(st, sig, 1, MgmtStart) \in MgmtStart + 1 .. sig
    BY <1>1, WalkDescType, Zenon
  <1> QED BY <1>1, <1>2, Zenon

LEMMA SignatureProgramSave == ASSUME IInv, SaveInv, SignatureProgram PROVE SaveStep
  <1>1. /\ ni \in InstanceType /\ pc = "sProgram" /\ io.ba \in MgmtStart + 1 .. BlockCount - 1
    BY DEF SignatureProgram, IInv, Control
  <1>2. io.ba \in Blocks
    BY <1>1, GeometryAssumption DEF Blocks
  <1>3. CASE CreateInfoTable([ni EXCEPT !.signature_ba = io.ba], io.ba)
    <2> DEFINE n == [ni EXCEPT !.signature_ba = io.ba]
    <2>1. n \in InstanceType /\ (n.dirty \/ ~ni.dirty)
      BY <1>1, <1>2 DEF InstanceType
    <2> HIDE DEF n
    <2> QED BY <1>2, <1>3, <2>1, TopType, CreateInfoTableSave DEF n
  <1>4. CASE ni' = SetState(ni, io.ba, BAD) /\ pc' = "sErase"
    <2>1. ni'.dirty \/ ~ni.dirty
      BY <1>1, <1>4 DEF SetState, InstanceType
    <2> QED BY <1>4, <2>1, Quiet DEF TableCode
  <1> QED BY <1>3, <1>4, Zenon DEF SignatureProgram

LEMMA AttachNoTableSave == ASSUME IInv, SaveInv, AttachNoTable PROVE SaveStep
  <1>1. PICK err \in ReadErrors, ecc \in BOOLEAN :
          LET failed == IF ecc THEN {} ELSE err
              sig == FindSignature(flash, physBad \cup err)
              n   == [NewInstance EXCEPT !.signature_ba = sig,
                     !.dirty = \E b \in MgmtStart .. sig - TableBlocks - 1 : b \in physBad \cup failed,
                     !.block_state =
                       [b \in Blocks |-> IF b \in MgmtStart .. sig - TableBlocks - 1
                                            /\ b \in physBad \cup failed
                                         THEN BAD ELSE GOOD]]
          IN  /\ sig # NoBlock
              /\ IF FCreate
                 THEN CreateInfoTable(ScanAndBuild(n), sig)
                 ELSE ni' = n /\ pc' = "dead" /\ UNCHANGED io
              /\ fails' = fails + Cardinality(err)
    BY Zenon DEF AttachNoTable
  <1> DEFINE failed == IF ecc THEN {} ELSE err
             sig == FindSignature(flash, physBad \cup err)
             d   == \E b \in MgmtStart .. sig - TableBlocks - 1 : b \in physBad \cup failed
             st  == [b \in Blocks |-> IF b \in MgmtStart .. sig - TableBlocks - 1
                                         /\ b \in physBad \cup failed
                                      THEN BAD ELSE GOOD]
             n   == [NewInstance EXCEPT !.signature_ba = sig, !.dirty = d, !.block_state = st]
  <1>2. sig \in Blocks
    BY <1>1, FindSignatureType, Zenon
  <1>3. CreateInfoTable(ScanAndBuild(n), sig) \/ pc' = "dead"
    BY <1>1, Zenon
  <1>4. d \in BOOLEAN
    BY Zenon
  <1>5. st \in StateTables
    BY DEF StateTables, States
  <1> HIDE DEF sig, d, st
  <1>6. n \in InstanceType
    BY <1>2, <1>4, <1>5, NewInstanceType DEF InstanceType
  <1> HIDE DEF n
  <1>7. ~ni.dirty
    BY DEF SaveInv, SaveOK, AttachNoTable
  <1>8. ScanAndBuild(n) \in InstanceType
    BY <1>6, ScanAndBuildType DEF IInv
  <1>9. CASE CreateInfoTable(ScanAndBuild(n), sig)
    BY <1>2, <1>7, <1>8, <1>9, TopType, CreateInfoTableSave
  <1>10. CASE pc' = "dead"
    BY <1>7, <1>10, Quiet DEF TableCode
  <1> QED BY <1>3, <1>9, <1>10

LEMMA LoadedCache ==
  ASSUME NEW sig, NEW unusable, NEW b1, NEW b2
  PROVE  /\ CacheOK(LoadedInstance(sig, unusable, b1, b2))
         /\ CacheOK([LoadedInstance(sig, unusable, b1, b2) EXCEPT !.dirty = TRUE])
  <1> DEFINE t1   == flash[b1].table
             end1 == b1 + TableBlocks
             t2   == flash[b2].table
             newer2 == b2 # NoBlock /\ t2.wc > t1.wc
             scanned == end1 .. (IF b2 = NoBlock THEN sig - TableBlocks ELSE b2) - 1
             found1 == {b \in MgmtStart .. b1 - 1 : b \in unusable}
             found2 == {b \in scanned : b \in unusable /\ t1.st[b] = GOOD}
             map  == IF newer2 THEN t2.map ELSE t1.map
             mapped == {lb \in Logic : map[lb] # NoBlock}
             backup == IF b2 = NoBlock THEN 0 ELSE b2
             st == IF newer2 THEN t2.st
                   ELSE [b \in Blocks |-> IF b \in found2 THEN BAD ELSE t1.st[b]]
             wc == IF newer2 THEN t2.wc ELSE t1.wc
             d  == found1 \cup found2 # {}
             top == IF newer2 THEN MappingTop(t2, b2 + TableBlocks, sig)
                    ELSE MappingTop(t1, end1, sig)
             mb == (IF b2 = NoBlock THEN b1 ELSE b2) + TableBlocks
             count == IF mapped = {} THEN MgmtStart ELSE Max(mapped) + 1
             m == [NewInstance EXCEPT
                     !.signature_ba = sig, !.main_table_ba = b1, !.backup_table_ba = backup,
                     !.block_state = st, !.block_mapping = map, !.write_count = wc, !.dirty = d,
                     !.mapping_blocks_top_ba = top, !.mapping_blocks_ba = mb,
                     !.data_block_count = count]
  <1>2. LoadedInstance(sig, unusable, b1, b2) = GenerateCache(m)
    BY Zenon DEF LoadedInstance
  <1> HIDE DEF st, map, wc, d, count, top, mb, backup
  <1>3. CacheOK(GenerateCache(m)) /\ CacheOK([GenerateCache(m) EXCEPT !.dirty = TRUE])
    BY DEF CacheOK, GenerateCache, NewInstance
  <1> HIDE DEF m
  <1> QED BY <1>2, <1>3

LEMMA AttachExistingSave == ASSUME IInv, SaveInv, AttachExisting PROVE SaveStep
  <1>1. ~ni.dirty
    BY DEF SaveInv, SaveOK, AttachExisting
  <1>2. PICK n, m, main :
          /\ CacheOK(n) /\ CacheOK(m)
          /\ RescueSingle(n) \/ UpdateSingle(m, main) \/ pc' = "idle"
    BY LoadedCache, Zenon DEF AttachExisting
  <1>3. CASE RescueSingle(n)
    BY <1>1, <1>2, <1>3, RescueSingleSave
  <1>4. CASE UpdateSingle(m, main)
    BY <1>1, <1>2, <1>4, StartWrite DEF UpdateSingle
  <1>5. CASE pc' = "idle"
    BY <1>1, <1>5, Quiet DEF TableCode
  <1> QED BY <1>2, <1>3, <1>4, <1>5

-----------------------------------------------------------------------------
(* The rest of nmbm-core.c leaves the table routines alone and never       *)
(* clears the dirty flag.                                                  *)

LEMMA UpdateQuiet ==
  ASSUME NEW n, NEW lb, NEW pb, NEW then, UpdateInfoTable(n, lb, pb, then), n.dirty \/ ~ni.dirty
  PROVE  SaveStep
  BY Quiet DEF UpdateInfoTable, TableCode

\* Setting a state or a mapping never clears the flag.
LEMMA DirtyKept ==
  ASSUME NEW n \in InstanceType, NEW b, NEW s, NEW lb, NEW top, NEW c
  PROVE  /\ SetState(n, b, s).dirty \/ ~n.dirty
         /\ MapTo(n, lb, b).dirty
         /\ [MapTo(n, lb, b) EXCEPT !.data_block_count = c].dirty
         /\ [n EXCEPT !.mapping_blocks_top_ba = top].dirty = n.dirty
         /\ Retire(MapTo(n, lb, b), c).dirty
         /\ Retire([n EXCEPT !.block_mapping[lb] = b], c).dirty \/ ~n.dirty
         /\ SetState([n EXCEPT !.block_mapping[lb] = b], c, s).dirty \/ ~n.dirty
  BY DEF SetState, MapTo, Retire, InstanceType

LEMMA ClientSave ==
  ASSUME IInv, SaveInv, CreateMap \/ CreateMapFail \/ EraseMapFail \/ Detach \/ UpdateReturn
  PROVE  SaveStep
  <1>1. ni \in InstanceType /\ (ni.dirty \/ ~ni.dirty) /\ CallOK
    BY DEF IInv, InstanceType
  <1>2. CASE CreateMap
    <2>1. \/ \E then : UpdateInfoTable(ni, 0, 0, then)
          \/ /\ pc' = "createMap"
             /\ ni' = [MapTo(ni, ni.data_block_count, SpareFor(ni))
                         EXCEPT !.data_block_count = ni.data_block_count + 1]
      BY <1>2 DEF CreateMap
    <2>2. CASE \E then : UpdateInfoTable(ni, 0, 0, then)
      BY <1>1, <2>2, UpdateQuiet
    <2>3. CASE /\ pc' = "createMap"
               /\ ni' = [MapTo(ni, ni.data_block_count, SpareFor(ni))
                           EXCEPT !.data_block_count = ni.data_block_count + 1]
      <3>1. ni'.dirty
        BY <1>1, <2>3, DirtyKept, Zenon
      <3> QED BY <2>3, <3>1, Quiet DEF TableCode
    <2> QED BY <2>1, <2>2, <2>3
  <1>3. CASE CreateMapFail
    BY <1>1, <1>3, UpdateQuiet, DirtyKept DEF CreateMapFail
  <1>4. CASE EraseMapFail
    <2> DEFINE n == [ni EXCEPT !.mapping_blocks_top_ba = ni.mapping_blocks_ba]
    <2>1. n \in InstanceType /\ n.dirty = ni.dirty
      BY <1>1 DEF InstanceType
    <2>2. UpdateInfoTable(Retire([n EXCEPT !.block_mapping[call.lb] = NoBlock], call.pb),
                          call.lb, call.pb, "idle")
      BY <1>4 DEF EraseMapFail, EraseUnusable
    <2> HIDE DEF n
    <2> QED BY <2>1, <2>2, UpdateQuiet, DirtyKept
  <1>5. CASE Detach
    BY <1>1, <1>5, UpdateQuiet DEF Detach
  <1>6. CASE UpdateReturn
    <2>1. pc' \notin TableCode /\ pc' # "off" /\ UNCHANGED ni
      BY <1>1, <1>6 DEF UpdateReturn, CallOK, CallType, TableCode
    <2> QED BY <1>1, <2>1, Quiet
  <1> QED BY <1>2, <1>3, <1>4, <1>5, <1>6

\* nmbm_erase_logic_block.
LEMMA RemapSave ==
  ASSUME NEW n \in InstanceType, n.dirty \/ ~ni.dirty, NEW lb, NEW pb, RemapLogicBlock(n, lb, pb)
  PROVE  SaveStep
  <1>1. \/ UpdateInfoTable(Retire([n EXCEPT !.block_mapping[lb] = NoBlock], pb), lb, pb, "idle")
        \/ UpdateInfoTable(n, lb, pb, "eraseMapFail")
        \/ UpdateInfoTable(Retire(MapTo(n, lb, SpareFor(n)), pb), lb, pb, "eraseTry")
    BY Zenon DEF RemapLogicBlock, EraseUnusable
  <1> QED BY <1>1, UpdateQuiet, DirtyKept

LEMMA EraseTrySave == ASSUME IInv, SaveInv, EraseTry PROVE SaveStep
  <1> DEFINE pb == ni.block_mapping[call.lb]
  <1>1. ni \in InstanceType /\ (ni.dirty \/ ~ni.dirty) /\ call.lb \in Logic
    BY DEF IInv, InstanceType, CallOK, CallType
  <1>2. pb # NoBlock => pb \in Blocks
    BY <1>1 DEF InstanceType, MappingTables
  <1>3. \/ pc' = "idle" /\ UNCHANGED ni
        \/ RemapLogicBlock(ni, call.lb, pb)
        \/ pb # NoBlock /\ RemapLogicBlock(SetState(ni, pb, BAD), call.lb, pb)
    BY Zenon DEF EraseTry
  <1> HIDE DEF pb
  <1>4. CASE pc' = "idle" /\ UNCHANGED ni
    BY <1>1, <1>4, Quiet DEF TableCode
  <1>5. CASE RemapLogicBlock(ni, call.lb, pb)
    BY <1>1, <1>5, RemapSave
  <1>6. CASE pb # NoBlock /\ RemapLogicBlock(SetState(ni, pb, BAD), call.lb, pb)
    <2>1. SetState(ni, pb, BAD) \in InstanceType /\ (SetState(ni, pb, BAD).dirty \/ ~ni.dirty)
      BY <1>1, <1>2, <1>6, SetStateType, DirtyKept DEF States
    <2> QED BY <1>6, <2>1, RemapSave
  <1> QED BY <1>3, <1>4, <1>5, <1>6

LEMMA RequestSave ==
  ASSUME IInv, SaveInv, NEW lb \in Logic, Erase(lb) \/ ReadFails(lb) \/ Write(lb) \/ MarkBad(lb)
  PROVE  SaveStep
  <1> DEFINE pb == ni.block_mapping[lb]
             m  == [ni EXCEPT !.block_mapping[lb] = NoBlock]
  <1>1. ni \in InstanceType /\ (ni.dirty \/ ~ni.dirty)
    BY DEF IInv, InstanceType
  <1>2. \/ pc' \in {"idle", "eraseTry"} /\ UNCHANGED ni
        \/ UpdateInfoTable(SetState(ni, pb, NEED_REMAP), lb, pb, "idle")
        \/ UpdateInfoTable(SetState(m, pb, BAD), lb, pb, "idle")
    <2>1. CASE Erase(lb)
      BY <2>1, Zenon DEF Erase
    <2>2. CASE ReadFails(lb)
      BY <2>2, Zenon DEF ReadFails
    <2>3. CASE Write(lb)
      <3>1. \/ UNCHANGED <<ni, pc>>
            \/ UpdateInfoTable(SetState(ni, pb, NEED_REMAP), lb, pb, "idle")
        BY <2>3, Zenon DEF Write
      <3>2. pc = "idle"
        BY <2>3, Zenon DEF Write, Request
      <3> QED BY <3>1, <3>2, Zenon
    <2>4. CASE MarkBad(lb)
      BY <2>4, Zenon DEF MarkBad
    <2> QED BY <2>1, <2>2, <2>3, <2>4
  <1>3. SetState(m, pb, BAD).dirty \/ ~ni.dirty
    BY <1>1, DirtyKept
  <1> HIDE DEF pb, m
  <1> QED BY <1>1, <1>2, <1>3, UpdateQuiet, DirtyKept, Quiet DEF TableCode

LEMMA SignatureEraseSave == ASSUME IInv, SaveInv, SignatureErase PROVE SaveStep
  <1>1. ni \in InstanceType
    BY DEF IInv
  <1>2. pc' \in {"sErase", "sProgram", "dead"}
    BY Zenon DEF SignatureErase
  <1>3. ni' = ni \/ ni' = SetState(ni, SignatureBlock, BAD)
    BY Zenon DEF SignatureErase
  <1>4. ni'.dirty \/ ~ni.dirty
    <2>1. CASE ni' = ni
      BY <2>1
    <2>2. CASE ni' = SetState(ni, SignatureBlock, BAD)
      BY <1>1, <2>2, DirtyKept, Zenon
    <2> QED BY <1>3, <2>1, <2>2
  <1> QED BY <1>2, <1>4, Quiet DEF TableCode

LEMMA PowerOffSave == ASSUME PowerOff PROVE SaveStep
  BY DEF PowerOff, NewInstance, SaveStep, SaveInv, SaveOK, TableCode, WriteCode, Keeps, CleanStep

LEMMA AttachNewSave == ASSUME SaveInv, AttachNew PROVE SaveStep
  <1>1. ~ni.dirty
    BY DEF AttachNew, SaveInv, SaveOK
  <1>2. pc' \in {"sErase", "dead"}
    BY Zenon DEF AttachNew
  <1> QED BY <1>1, <1>2, Quiet DEF TableCode

-----------------------------------------------------------------------------
LEMMA InitSave == Init => SaveInv
  BY DEF Init, NewInstance, SaveInv, SaveOK, TableCode, WriteCode, Keeps

LEMMA TableStepSave == ASSUME IInv, SaveInv, TableStep PROVE SaveStep
  BY WriteEraseSave, WriteProgramSave, WriteOutOfRangeSave, RangeEraseSave, SignatureEraseSave,
     SignatureProgramSave, RebuildMainSave, RebuildBackupSave, ErasedSave, RescueFrontSave,
     RescueBehindSave, RescueBehindErasedSave, SingleMainSave, SingleBackupSave,
     RescueMainTempSave, RescueMainMainSave, UpdateOnceSave, OnceBackupSave, OnceMainSave,
     ClientSave
  DEF TableStep

LEMMA NextSave == IInv /\ SaveInv /\ [Next]_vars => SaveInv' /\ [CleanStep]_vars
  <1> SUFFICES ASSUME IInv, SaveInv, [Next]_vars PROVE SaveInv' /\ [CleanStep]_vars
    OBVIOUS
  <1>1. CASE Attach
    BY <1>1, AttachNewSave, AttachNoTableSave, AttachExistingSave DEF Attach, SaveStep
  <1>2. CASE TableStep
    BY <1>2, TableStepSave DEF SaveStep
  <1>3. CASE EraseTry \/ EraseMapFail
    BY <1>3, EraseTrySave, ClientSave DEF SaveStep
  <1>4. CASE ClientStep
    BY <1>4, RequestSave, ClientSave DEF ClientStep, SaveStep
  <1>5. CASE Detached \/ Crash
    <2>1. PowerOff
      BY <1>5 DEF Detached, Crash
    <2> QED BY <2>1, PowerOffSave DEF SaveStep
  <1>6. CASE UNCHANGED vars
    BY <1>6 DEF vars, SaveInv
  <1> QED BY <1>1, <1>2, <1>3, <1>4, <1>5, <1>6 DEF Next, Step

\* The invariant holds in every reachable state: while a table is written the
\* cache is what the instance says, and the chunks counted as written are on
\* usable blocks behind the write position.
THEOREM NmbmSaveInductive == Spec => [](IInv /\ SaveInv)
  <1>1. Spec => []IInv
    BY NmbmInductive
  <1> QED BY <1>1, InitSave, NextSave, PTL DEF Spec

\* The flags block_state_changed and block_mapping_changed are cleared only
\* when a complete table with the instance's mapping, write count and data
\* block states is on usable blocks, for every chip, number of failing
\* operations and power cuts, and on every path through the rescue and rebuild
\* routines.
THEOREM NmbmCleanIsWritten == Spec => CleanIsWritten
  BY NmbmSaveInductive, NextSave, PTL DEF Spec, CleanIsWritten
=============================================================================
