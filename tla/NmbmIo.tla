------------------------------- MODULE NmbmIo -------------------------------
(***************************************************************************)
(* The data path of the Linux MTD driver (openwrt/.../drivers/mtd/nmbm/    *)
(* nmbm-mtd.c) and of the core's range functions under it, run by the      *)
(* tasks that hold the device (NmbmMtd).  A request names any byte range   *)
(* and any range of the pages' OOB areas; the chip reads and programs      *)
(* whole pages.  What lies between goes through two page caches that all   *)
(* requests share: nm->page_cache of the driver and ni->page_cache of the  *)
(* core.                                                                   *)
(*                                                                         *)
(* A step inside the device is one page.  Bytes are tokens that name the   *)
(* buffer they come from.  Programming a byte that is already programmed   *)
(* leaves a mixture.                                                       *)
(***************************************************************************)
EXTENDS NmbmMtd, Sequences

CONSTANTS
  PageCount,     \* pages of the upper device, one erase block
  WriteSize,     \* bytes of a page: lower->writesize
  OobAvail,      \* usable OOB bytes of a page: mtd_oobavail
  Calls,         \* the requests that are made
  MaxIo,         \* bound: requests over the whole run
  MaxFault       \* bound: page operations that fail

ASSUME IoAssumption ==
  /\ {PageCount, WriteSize, OobAvail} \subseteq Nat \ {0}
  /\ {MaxIo, MaxFault} \subseteq Nat
  /\ Calls \subseteq [op : {"read", "write", "read_oob", "write_oob", "erase"},
                      from : Nat, len : Nat, ooblen : Nat, ooboffs : Nat]
  /\ \A c \in Calls : c.op \in {"read", "write", "erase"} => c.ooblen = 0

Size  == PageCount * WriteSize
Pages == 0 .. PageCount - 1
Cols  == 0 .. WriteSize - 1
Oobs  == 0 .. OobAvail - 1

FF  == <<"ff">>
Mix == <<"mix">>
Blank == [dat |-> [i \in Cols |-> FF], oob |-> [i \in Oobs |-> FF]]

VARIABLES
  flash,      \* the pages behind the core's mapping
  ncache,     \* nm->page_cache: data and OOB
  icache,     \* ni->page_cache
  frame,      \* each task's request under way
  before,     \* history: the flash when the device was granted
  ios, faults

io == <<flash, ncache, icache, frame, before, ios, faults>>
ioVars == <<vars, io>>

\* locals of the read and write routines at their entry
Frame(c) ==
  [op |-> c.op, call |-> c, page |-> c.from \div WriteSize, col |-> c.from % WriteSize,
   ooboffs |-> c.ooboffs, len |-> c.len, ooblen |-> c.ooblen,
   dat |-> <<>>, oob |-> <<>>, retlen |-> 0, ret |-> "ok"]

NoCall  == [op |-> "none", from |-> 0, len |-> 0, ooblen |-> 0, ooboffs |-> 0]
NoFrame == Frame(NoCall)

IoInit ==
  /\ Init
  /\ flash = [p \in Pages |-> Blank] /\ before = flash
  /\ ncache = Blank /\ icache = Blank.dat
  /\ frame = [t \in Tasks |-> NoFrame]
  /\ ios = 0 /\ faults = 0

Dat(t, k) == <<t, "dat", k>>
Oob(t, k) == <<t, "oob", k>>

Min2(a, b) == IF a < b THEN a ELSE b

-----------------------------------------------------------------------------
(* Requests                                                                *)

\* Mutant: the offset in the first OOB area is left out of the bound.
AcceptedNoOffset(c) ==
  /\ c.from + c.len <= Size
  /\ c.ooblen > 0 =>
       /\ c.ooboffs < OobAvail /\ c.from < Size
       /\ c.ooblen <= (PageCount - c.from \div WriteSize) * OobAvail

\* The early returns of nmbm_mtd_read, nmbm_mtd_write, nmbm_mtd_read_oob and
\* nmbm_mtd_write_oob.  ooblen = 0 stands for a request without oobbuf, len = 0
\* for one without datbuf.
Accepted(c) ==
  /\ c.from + c.len <= Size
  /\ c.ooblen > 0 =>
       /\ c.ooboffs < OobAvail /\ c.from < Size
       /\ c.ooboffs + c.ooblen <= (PageCount - c.from \div WriteSize) * OobAvail

NewState(c) == CASE c.op \in {"read", "read_oob"} -> FL_READING
                 [] c.op = "erase" -> FL_ERASING
                 [] OTHER -> FL_WRITING

IoCall(t, c) ==
  /\ t # Rebooter /\ ios < MaxIo /\ Accepted(c)
  /\ Call(t, NewState(c))
  /\ frame' = [frame EXCEPT ![t] = Frame(c)]
  /\ ios' = ios + 1
  /\ UNCHANGED <<flash, ncache, icache, before, faults>>

Busy(t, ops) == pc[t] = "core" /\ frame[t].op \in ops /\ frame[t].ret = "ok"
Left(t)      == frame[t].len > 0 \/ frame[t].ooblen > 0

\* nmbm_read_oob and nmbm_write_oob without oobbuf use the range functions.
Ranged(t)  == frame[t].call.op \in {"read", "write"} \/ frame[t].call.ooblen = 0
DataLen(t) == Min2(WriteSize - frame[t].col, frame[t].len)
OobLen(t)  == Min2(OobAvail - frame[t].ooboffs, frame[t].ooblen)

\* The frame after one page of d data bytes and o OOB bytes
Moved(f, d, o) ==
  [f EXCEPT !.page = @ + 1,
            !.len = @ - d, !.retlen = @ + d, !.col = IF d > 0 THEN 0 ELSE @,
            !.ooblen = @ - o, !.ooboffs = IF o > 0 THEN 0 ELSE @]

-----------------------------------------------------------------------------
(* The chip                                                                *)

ProgramByte(old, new) == IF new = FF THEN old ELSE IF old = FF THEN new ELSE Mix
ProgramPage(pg, dat, oob) ==
  [dat |-> [i \in Cols |-> ProgramByte(pg.dat[i], dat[i])],
   oob |-> [i \in Oobs |-> ProgramByte(pg.oob[i], oob[i])]]

\* One page is programmed; a failed program may or may not have changed it.
Program(t, dat, oob, good, bad) ==
  LET p == frame[t].page
      programmed == [flash EXCEPT ![p] = ProgramPage(@, dat, oob)]
  IN  \/ /\ flash' = programmed
         /\ frame' = [frame EXCEPT ![t] = good]
         /\ UNCHANGED faults
      \/ /\ faults < MaxFault /\ faults' = faults + 1
         /\ flash' \in {flash, programmed}
         /\ frame' = [frame EXCEPT ![t] = [bad EXCEPT !.ret = "EIO"]]

\* One page is read; a failure is an I/O error or an ECC error.
Fault(t) ==
  /\ faults < MaxFault /\ faults' = faults + 1
  /\ \E e \in {"EIO", "ECC"} : frame' = [frame EXCEPT ![t].ret = e]

-----------------------------------------------------------------------------
(* nmbm_read_range, nmbm_write_range: one page                             *)

ReadRange(t) ==
  /\ Busy(t, {"read", "read_oob"}) /\ Ranged(t) /\ Left(t)
  /\ LET f == frame[t]
         d == DataLen(t)
         pg == flash[f.page].dat
     IN  \/ /\ icache' = IF d = WriteSize THEN icache ELSE pg
            /\ frame' = [frame EXCEPT ![t] =
                 [Moved(f, d, 0) EXCEPT !.dat = @ \o [i \in 1 .. d |-> pg[f.col + i - 1]]]]
            /\ UNCHANGED faults
         \/ Fault(t) /\ UNCHANGED icache
  /\ UNCHANGED <<vars, flash, ncache, before, ios>>

\* The page of a chunk: the core fills what lies before it with 0xff, and
\* leaves what lies behind it as the cache has it.
RangePage(t) ==
  [i \in Cols |-> CASE i < frame[t].col -> FF
                    [] i >= frame[t].col + DataLen(t) -> icache[i]
                    [] OTHER -> Dat(t, frame[t].retlen + i - frame[t].col)]

\* Mutant: the chunk is counted as written before the write is tried.
WriteRangeCountsFirst(t) ==
  /\ Busy(t, {"write", "write_oob"}) /\ Ranged(t) /\ Left(t)
  /\ icache' = IF DataLen(t) = WriteSize THEN icache ELSE RangePage(t)
  /\ Program(t, RangePage(t), Blank.oob, Moved(frame[t], DataLen(t), 0),
             Moved(frame[t], DataLen(t), 0))
  /\ UNCHANGED <<vars, ncache, before, ios>>

WriteRange(t) ==
  /\ Busy(t, {"write", "write_oob"}) /\ Ranged(t) /\ Left(t)
  /\ icache' = IF DataLen(t) = WriteSize THEN icache ELSE RangePage(t)
  /\ Program(t, RangePage(t), Blank.oob, Moved(frame[t], DataLen(t), 0), frame[t])
  /\ UNCHANGED <<vars, ncache, before, ios>>

-----------------------------------------------------------------------------
(* nmbm_mtd_read_data, nmbm_mtd_write_data: one page.  Whether data and    *)
(* OOB take part is decided by the request, not by what is left of it.     *)

\* Mutant: the offset in the first OOB area is counted but not used.
ReadDataNoOffset(t) ==
  /\ Busy(t, {"read_oob"}) /\ ~Ranged(t) /\ Left(t)
  /\ LET f == frame[t]
         d == DataLen(t)
         o == OobLen(t)
         pg == flash[f.page]
     IN  \/ /\ ncache' = [dat |-> IF f.call.len > 0 THEN pg.dat ELSE ncache.dat, oob |-> pg.oob]
            /\ frame' = [frame EXCEPT ![t] =
                 [Moved(f, d, o) EXCEPT
                    !.dat = @ \o [i \in 1 .. d |-> ncache'.dat[f.col + i - 1]],
                    !.oob = @ \o [i \in 1 .. o |-> ncache'.oob[i - 1]]]]
            /\ UNCHANGED faults
         \/ Fault(t) /\ UNCHANGED ncache
  /\ UNCHANGED <<vars, flash, icache, before, ios>>

ReadData(t) ==
  /\ Busy(t, {"read_oob"}) /\ ~Ranged(t) /\ Left(t)
  /\ LET f == frame[t]
         d == DataLen(t)
         o == OobLen(t)
         pg == flash[f.page]
     IN  \/ /\ ncache' = [dat |-> IF f.call.len > 0 THEN pg.dat ELSE ncache.dat, oob |-> pg.oob]
            /\ frame' = [frame EXCEPT ![t] =
                 [Moved(f, d, o) EXCEPT
                    !.dat = @ \o [i \in 1 .. d |-> ncache'.dat[f.col + i - 1]],
                    !.oob = @ \o [i \in 1 .. o |-> ncache'.oob[f.ooboffs + i - 1]]]]
            /\ UNCHANGED faults
         \/ Fault(t) /\ UNCHANGED ncache
  /\ UNCHANGED <<vars, flash, icache, before, ios>>

\* Mutant: nothing is filled with 0xff.
FilledNoFill(t) ==
  LET f == frame[t]
      at(i, first, n) == i >= first /\ i < first + n
  IN  [dat |-> [i \in Cols |-> IF at(i, f.col, DataLen(t)) THEN Dat(t, f.retlen + i - f.col)
                               ELSE ncache.dat[i]],
       oob |-> [i \in Oobs |-> IF at(i, f.ooboffs, OobLen(t))
                               THEN Oob(t, f.call.ooblen - f.ooblen + i - f.ooboffs)
                               ELSE ncache.oob[i]]]

\* The cache with what is left of the request moved in, 0xff around it; a
\* part that is used up keeps the bytes of the page before.
Filled(t) ==
  LET f == frame[t]
      at(i, first, n) == i >= first /\ i < first + n
  IN  [dat |-> [i \in Cols |-> IF f.len = 0 THEN ncache.dat[i]
                               ELSE IF at(i, f.col, DataLen(t)) THEN Dat(t, f.retlen + i - f.col)
                               ELSE FF],
       oob |-> [i \in Oobs |-> IF f.ooblen = 0 THEN ncache.oob[i]
                               ELSE IF at(i, f.ooboffs, OobLen(t))
                               THEN Oob(t, f.call.ooblen - f.ooblen + i - f.ooboffs)
                               ELSE FF]]

WriteData(t) ==
  /\ Busy(t, {"write_oob"}) /\ ~Ranged(t) /\ Left(t)
  /\ ncache' = Filled(t)
  /\ LET moved == Moved(frame[t], DataLen(t), OobLen(t))
     IN  Program(t, IF frame[t].call.len > 0 THEN ncache'.dat ELSE Blank.dat, ncache'.oob,
                 moved, moved)
  /\ UNCHANGED <<vars, icache, before, ios>>

\* nmbm_mtd_erase; what the core does to the mapping is Nmbm.tla
Erase(t) ==
  /\ Busy(t, {"erase"})
  /\ \/ /\ flash' = [p \in Pages |-> Blank]
        /\ frame' = [frame EXCEPT ![t].op = "none"]
        /\ UNCHANGED faults
     \/ /\ faults < MaxFault /\ faults' = faults + 1
        /\ flash' \in {flash, [p \in Pages |-> Blank]}
        /\ frame' = [frame EXCEPT ![t].ret = "EIO"]
  /\ UNCHANGED <<vars, ncache, icache, before, ios>>

-----------------------------------------------------------------------------
(* The lock of NmbmMtd around it                                           *)

Grant(t) ==
  /\ GetGranted(t)
  /\ before' = flash
  /\ UNCHANGED <<flash, ncache, icache, frame, ios, faults>>

Finished(t) ==
  frame[t].op = "none" \/ frame[t].ret # "ok" \/ (frame[t].op # "erase" /\ ~Left(t))

Release(t) ==
  /\ Finished(t) /\ ReleaseLock(t)
  /\ frame' = [frame EXCEPT ![t] = NoFrame]
  /\ before' = flash
  /\ UNCHANGED <<flash, ncache, icache, ios, faults>>

LockStep(t) ==
  /\ \/ t = Rebooter /\ Call(t, FL_READING)   \* block_isbad, over and over
     \/ Shutdown(t)
     \/ GetLock(t) \/ GetSleep(t) \/ GetEnqueue(t) \/ GetUnlock(t) \/ GetRetry(t)
     \/ ReleaseReady(t) \/ ReleaseWake(t) \/ ReleaseUnlock(t)
  /\ UNCHANGED io

PageStep(t) == ReadRange(t) \/ WriteRange(t) \/ ReadData(t) \/ WriteData(t) \/ Erase(t)

IoNext ==
  \E t \in Tasks :
    \/ \E c \in Calls : IoCall(t, c)
    \/ LockStep(t) \/ Grant(t) \/ PageStep(t) \/ Release(t)

IoRun(t) == Run(t) /\ (Grant(t) \/ Release(t) \/ LockStep(t))

IoSpec ==
  IoInit /\ [][IoNext]_ioVars /\ \A t \in Tasks : WF_ioVars(IoRun(t)) /\ WF_ioVars(PageStep(t))

-----------------------------------------------------------------------------
Releases(t) == frame[t] # NoFrame /\ frame'[t] = NoFrame

\* The bytes of a request, as mtd_oob_ops describes them: byte k of the data
\* goes to from + k, byte k of the OOB data to the OOB areas one after the
\* other from ooboffs on.  Written(t, c, n) is the flash with the first n data
\* bytes and all OOB bytes in place, and nothing else changed.
Written(t, c, n) ==
  LET first == c.from \div WriteSize
      dk(p, i) == p * WriteSize + i - c.from
      ok(p, i) == (p - first) * OobAvail + i - c.ooboffs
      in(k, m) == k >= 0 /\ k < m
  IN  [p \in Pages |->
        [dat |-> [i \in Cols |-> IF in(dk(p, i), n)
                                 THEN ProgramByte(before[p].dat[i], Dat(t, dk(p, i)))
                                 ELSE before[p].dat[i]],
         oob |-> [i \in Oobs |-> IF in(ok(p, i), c.ooblen)
                                 THEN ProgramByte(before[p].oob[i], Oob(t, ok(p, i)))
                                 ELSE before[p].oob[i]]]]

PagesOf(first, n, per) == (first + n + per - 1) \div per

\* Where the two caches leak: the last page of a range write is not written
\* to its end, or data and OOB of a request end on different pages.
Leaks(c) ==
  IF c.op = "write" \/ c.ooblen = 0 THEN (c.from + c.len) % WriteSize # 0
  ELSE c.len > 0 /\ PagesOf(c.from % WriteSize, c.len, WriteSize)
                      # PagesOf(c.ooboffs, c.ooblen, OobAvail)

\* A write that returns success has put the bytes of its request into their
\* places and touched nothing else, whatever earlier requests of other tasks
\* left in the shared caches.
WriteStep ==
  \A t \in Tasks :
    (/\ Releases(t) /\ frame[t].op \in {"write", "write_oob"}
     /\ frame[t].ret = "ok" /\ ~Leaks(frame[t].call))
      => flash = Written(t, frame[t].call, frame[t].call.len)
WriteExact == [][WriteStep]_ioVars

\* A read that returns success delivers the bytes that lie in the named
\* places, data and OOB, on however many pages.
ReadStep ==
  \A t \in Tasks : Releases(t) /\ frame[t].op \in {"read", "read_oob"} =>
    LET f == frame[t]
        c == f.call
        q(k) == c.ooboffs + k - 1
    IN  f.ret = "ok" =>
          /\ f.dat = [k \in 1 .. c.len |->
                        flash[(c.from + k - 1) \div WriteSize].dat[(c.from + k - 1) % WriteSize]]
          /\ f.oob = [k \in 1 .. c.ooblen |->
                        flash[c.from \div WriteSize + q(k) \div OobAvail].oob[q(k) % OobAvail]]
ReadExact == [][ReadStep]_ioVars

\* The loops over the pages never leave the device, although they run until
\* data and OOB are both used up.
InDevice ==
  \A t \in Tasks : pc[t] = "core" /\ ~Finished(t) /\ frame[t].op # "erase"
                     => frame[t].page \in Pages

\* The bytes a range write reports as written are on the flash, also when a
\* later page fails.  (nmbm_mtd_write_data counts a page before it writes it.)
RetlenStep ==
  \A t \in Tasks :
    (Releases(t) /\ frame[t].op \in {"write", "write_oob"} /\ Ranged(t)) =>
      \A k \in 0 .. frame[t].retlen - 1 :
        LET a == frame[t].call.from + k
        IN  flash[a \div WriteSize].dat[a % WriteSize]
              = Written(t, frame[t].call, k + 1)[a \div WriteSize].dat[a % WriteSize]
RetlenHonest == [][RetlenStep]_ioVars
=============================================================================
