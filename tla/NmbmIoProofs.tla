---------------------------- MODULE NmbmIoProofs ----------------------------
(***************************************************************************)
(* The data path of the MTD driver, for every geometry, every set of       *)
(* requests and every number of tasks.                                     *)
(*                                                                         *)
(* The invariant has layers: the lock (IInv of NmbmMtdProofs, which        *)
(* carries over because IoSpec implements Spec), types, where the cursors  *)
(* of the loops stand, what a read has gathered, what a range write has    *)
(* programmed and what a write that leaks nothing has programmed.  Each    *)
(* layer is inductive relative to the ones before it.                      *)
(***************************************************************************)
EXTENDS NmbmIo, NmbmMtdProofs, SequenceTheorems

-----------------------------------------------------------------------------
(* Products and remainders, the arithmetic of page addresses               *)

LEMMA TimesNext ==
  ASSUME NEW p \in Int, NEW w \in Nat
  PROVE  (p + 1) * w = p * w + w
  OBVIOUS

LEMMA TimesMono ==
  ASSUME NEW p \in Int, NEW q \in Int, NEW w \in Nat, p <= q
  PROVE  p * w <= q * w
  OBVIOUS

LEMMA TimesBelow ==
  ASSUME NEW p \in Int, NEW q \in Int, NEW w \in Nat, NEW x \in Nat, p * w + x < q * w
  PROVE  p < q
  <1>1. p * w \in Int /\ q * w \in Int
    OBVIOUS
  <1>2. ~(q * w <= p * w)
    BY <1>1
  <1> QED BY <1>2, TimesMono

LEMMA TimesTurn ==
  ASSUME NEW p \in Int, NEW w \in Nat, NEW x \in Nat, NEW d \in Nat, NEW a \in Int,
         p * w + x = a, x + d = w
  PROVE  (p + 1) * w + 0 = a + d
  <1>1. PICK m \in Int : m = p * w
    OBVIOUS
  <1>2. (p + 1) * w = m + w
    BY <1>1, TimesNext
  <1> QED BY <1>1, <1>2

LEMMA DivMod ==
  ASSUME NEW a \in Nat, NEW w \in Nat \ {0}
  PROVE  /\ a \div w \in Nat /\ a % w \in 0 .. w - 1
         /\ a = (a \div w) * w + (a % w)
  OBVIOUS

LEMMA DivUnique ==
  ASSUME NEW w \in Nat \ {0}, NEW p \in Nat, NEW i \in 0 .. w - 1
  PROVE  (p * w + i) \div w = p /\ (p * w + i) % w = i
  OBVIOUS

-----------------------------------------------------------------------------
(* The inductive invariant                                                 *)

Bytes    == {FF, Mix} \cup (Tasks \X {"dat", "oob"} \X Nat)
PageSet  == [dat : [Cols -> Bytes], oob : [Oobs -> Bytes]]
Requests == Calls \cup {NoCall}
Frames   ==
  [op : {"read", "write", "read_oob", "write_oob", "erase", "none"}, call : Requests,
   page : Nat, col : Nat, ooboffs : Nat, len : Nat, ooblen : Nat,
   dat : Seq(Bytes), oob : Seq(Bytes), retlen : Nat, ret : {"ok", "EIO", "ECC"}]

IoTypeOK ==
  /\ flash \in [Pages -> PageSet] /\ before \in [Pages -> PageSet]
  /\ ncache \in PageSet /\ icache \in [Cols -> Bytes]
  /\ frame \in [Tasks -> Frames]
  /\ ios \in Nat /\ faults \in Nat

OobDone(f) == f.call.ooblen - f.ooblen

\* Where the loops stand: the next byte of the data is the one at page and
\* col, the next one of the OOB data the one at page and ooboffs.
CursorOK(f) ==
  /\ f.call = NoCall => f = NoFrame
  /\ f.op # "none" => f.op = f.call.op
  /\ Accepted(f.call)
  /\ f.retlen + f.len = f.call.len /\ f.ooblen <= f.call.ooblen
  /\ f.col < WriteSize /\ (f.call.ooblen > 0 => f.ooboffs < OobAvail)
  /\ f.len > 0 => f.page * WriteSize + f.col = f.call.from + f.retlen
  /\ f.ooblen > 0 =>
       (f.page - (f.call.from \div WriteSize)) * OobAvail + f.ooboffs
         = f.call.ooboffs + OobDone(f)
Cursors == \A t \in Tasks : CursorOK(frame[t])

\* A task that has not got the device is at the start of its request.
Started == \A t \in Tasks : pc[t] # "core" => frame[t] = Frame(frame[t].call)

\* A read has what lies in the places it went over.
DatAt(c, k) == flash[(c.from + k - 1) \div WriteSize].dat[(c.from + k - 1) % WriteSize]
OobAt(c, k) == flash[c.from \div WriteSize + (c.ooboffs + k - 1) \div OobAvail]
                 .oob[(c.ooboffs + k - 1) % OobAvail]
ReadSoFar(f) ==
  /\ f.dat = [k \in 1 .. f.retlen |-> DatAt(f.call, k)]
  /\ f.oob = [k \in 1 .. OobDone(f) |-> OobAt(f.call, k)]
Reads ==
  \A t \in Tasks :
    pc[t] = "core" /\ frame[t].op \in {"read", "read_oob"} => ReadSoFar(frame[t])

\* The number of the byte that belongs to a place
DatNo(c, p, i) == p * WriteSize + i - c.from
OobNo(c, p, i) == (p - c.from \div WriteSize) * OobAvail + i - c.ooboffs

\* A range write has programmed the bytes it counted, and on what is still to
\* be written the flash is as it was.
RangeSoFar(t, f) ==
  \A p \in Pages, i \in Cols :
    /\ DatNo(f.call, p, i) \in 0 .. f.retlen - 1 =>
         flash[p].dat[i] = ProgramByte(before[p].dat[i], Dat(t, DatNo(f.call, p, i)))
    /\ f.ret = "ok" /\ f.len > 0 /\ DatNo(f.call, p, i) >= f.retlen =>
         flash[p].dat[i] = before[p].dat[i]
Writing(t) == pc[t] = "core" /\ frame[t].op \in {"write", "write_oob"}
Ranges == \A t \in Tasks : Writing(t) /\ Ranged(t) => RangeSoFar(t, frame[t])

\* A write that leaks nothing has programmed the bytes it went over, and
\* nothing else.
DatSoFar(t, c, n) ==
  \A p \in Pages, i \in Cols :
    flash[p].dat[i] = IF DatNo(c, p, i) \in 0 .. n - 1
                      THEN ProgramByte(before[p].dat[i], Dat(t, DatNo(c, p, i)))
                      ELSE before[p].dat[i]
OobSoFar(t, c, n) ==
  \A p \in Pages, i \in Oobs :
    flash[p].oob[i] = IF OobNo(c, p, i) \in 0 .. n - 1
                      THEN ProgramByte(before[p].oob[i], Oob(t, OobNo(c, p, i)))
                      ELSE before[p].oob[i]

\* ... and its data and its OOB data end on the same page.
Together(f) ==
  f.call.len > 0 =>
    /\ f.len = 0 => f.col = 0
    /\ f.ooblen = 0 => f.ooboffs = 0
    /\ PagesOf(f.col, f.len, WriteSize) = PagesOf(f.ooboffs, f.ooblen, OobAvail)

Writes ==
  \A t \in Tasks :
    Writing(t) /\ frame[t].ret = "ok" /\ ~Leaks(frame[t].call) =>
      /\ DatSoFar(t, frame[t].call, frame[t].retlen)
      /\ OobSoFar(t, frame[t].call, OobDone(frame[t]))
      /\ ~Ranged(t) => Together(frame[t])

BaseInv == IInv /\ IoTypeOK /\ Cursors /\ Started
IoInv   == BaseInv /\ Reads /\ Ranges /\ Writes

-----------------------------------------------------------------------------
(* The numbers of a request                                                *)

LEMMA Geometry ==
  /\ PageCount \in Nat \ {0} /\ WriteSize \in Nat \ {0} /\ OobAvail \in Nat \ {0}
  /\ Size \in Nat /\ MaxIo \in Nat /\ MaxFault \in Nat
  BY IoAssumption DEF Size

LEMMA CallTypes ==
  ASSUME NEW c \in Requests
  PROVE  /\ c.op \in {"read", "write", "read_oob", "write_oob", "erase", "none"}
         /\ c.from \in Nat /\ c.len \in Nat /\ c.ooblen \in Nat /\ c.ooboffs \in Nat
         /\ c.op = "none" <=> c = NoCall
         /\ c.op \in {"read", "write", "erase", "none"} => c.ooblen = 0
         /\ c.from \div WriteSize \in Nat /\ c.from % WriteSize \in Cols
         /\ c.from = (c.from \div WriteSize) * WriteSize + (c.from % WriteSize)
  <1>1. CASE c = NoCall
    BY <1>1, Geometry, DivMod DEF NoCall, Cols
  <1>2. CASE c \in Calls
    <2>1. /\ c.op \in {"read", "write", "read_oob", "write_oob", "erase"}
          /\ c.from \in Nat /\ c.len \in Nat /\ c.ooblen \in Nat /\ c.ooboffs \in Nat
          /\ c.op \in {"read", "write", "erase"} => c.ooblen = 0
      BY <1>2, IoAssumption
    <2>2. c # NoCall
      BY <2>1 DEF NoCall
    <2> QED BY <2>1, <2>2, Geometry, DivMod DEF Cols
  <1> QED BY <1>1, <1>2 DEF Requests

LEMMA FrameTypes ==
  ASSUME IoTypeOK, NEW t \in Tasks
  PROVE  /\ frame[t] \in Frames /\ frame[t].call \in Requests
         /\ frame[t].page \in Nat /\ frame[t].col \in Nat /\ frame[t].ooboffs \in Nat
         /\ frame[t].len \in Nat /\ frame[t].ooblen \in Nat /\ frame[t].retlen \in Nat
         /\ frame[t].dat \in Seq(Bytes) /\ frame[t].oob \in Seq(Bytes)
  BY DEF IoTypeOK, Frames

\* A loop that has something left is in the device.
LEMMA InPages ==
  ASSUME NEW f \in Frames, CursorOK(f), f.len > 0 \/ f.ooblen > 0
  PROVE  f.page \in Pages
  <1>1. /\ f.page \in Nat /\ f.col \in Nat /\ f.ooboffs \in Nat /\ f.call \in Requests
        /\ f.len \in Nat /\ f.ooblen \in Nat /\ f.retlen \in Nat
    BY DEF Frames
  <1>2. PICK c \in Requests : c = f.call
    BY <1>1
  <1> USE Geometry
  <1>5. c.len \in Nat /\ c.ooblen \in Nat /\ c.from \in Nat /\ c.ooboffs \in Nat
        /\ c.from \div WriteSize \in Nat
    BY CallTypes
  <1>3. CASE f.len > 0
    <2>1. f.page * WriteSize + f.col < PageCount * WriteSize
      BY <1>1, <1>2, <1>3, <1>5 DEF CursorOK, Accepted, Size
    <2>2. f.page < PageCount
      <3>1. f.page \in Int /\ PageCount \in Int
        BY <1>1
      <3> QED BY <2>1, <3>1, <1>1, TimesBelow
    <2> QED BY <2>2, <1>1 DEF Pages
  <1>4. CASE f.ooblen > 0
    <2>1. PICK b \in Nat : b = c.from \div WriteSize
      BY <1>5
    <2>2. (f.page - b) * OobAvail + f.ooboffs < (PageCount - b) * OobAvail
      BY <1>1, <1>2, <1>4, <1>5, <2>1 DEF CursorOK, Accepted, OobDone
    <2>3. f.page - b < PageCount - b
      <3>1. f.page - b \in Int /\ PageCount - b \in Int
        BY <1>1
      <3> QED BY <2>2, <3>1, <1>1, TimesBelow
    <2> QED BY <2>3, <1>1 DEF Pages
  <1> QED BY <1>3, <1>4, <1>1

\* g is f after one page of d data and o OOB bytes.
MovedTo(f, g, d, o) ==
  /\ g.op = f.op /\ g.call = f.call /\ g.page = f.page + 1
  /\ g.len = f.len - d /\ g.retlen = f.retlen + d
  /\ g.col = (IF d > 0 THEN 0 ELSE f.col)
  /\ g.ooblen = f.ooblen - o
  /\ g.ooboffs = (IF o > 0 THEN 0 ELSE f.ooboffs)

\* The bytes of a page that belong to the request
DatBytes(f, d) == d = Min2(WriteSize - f.col, f.len)
OobBytes(f, o) == IF f.ooblen = 0 THEN o = 0 ELSE o = Min2(OobAvail - f.ooboffs, f.ooblen)

LEMMA PageBytes ==
  ASSUME NEW f \in Frames, CursorOK(f), NEW d, NEW o, DatBytes(f, d), OobBytes(f, o)
  PROVE  /\ d \in Nat /\ d <= f.len /\ f.col + d <= WriteSize
         /\ f.len > 0 => d > 0
         /\ d < f.len => f.col + d = WriteSize
         /\ o \in Nat /\ o <= f.ooblen
         /\ f.ooblen > 0 => o > 0 /\ f.ooboffs + o <= OobAvail
         /\ o < f.ooblen => f.ooboffs + o = OobAvail
  <1>1. /\ f.col \in Nat /\ f.ooboffs \in Nat /\ f.len \in Nat /\ f.ooblen \in Nat
        /\ f.call \in Requests /\ f.col < WriteSize /\ f.ooblen <= f.call.ooblen
        /\ f.call.ooblen > 0 => f.ooboffs < OobAvail
    BY DEF Frames, CursorOK
  <1>2. f.ooblen > 0 => f.ooboffs < OobAvail
    BY <1>1, CallTypes
  <1>3. /\ d \in Nat /\ d <= f.len /\ f.col + d <= WriteSize
        /\ f.len > 0 => d > 0
        /\ d < f.len => f.col + d = WriteSize
    BY <1>1, Geometry DEF DatBytes, Min2
  <1>4. /\ o \in Nat /\ o <= f.ooblen
        /\ f.ooblen > 0 => o > 0 /\ f.ooboffs + o <= OobAvail
        /\ o < f.ooblen => f.ooboffs + o = OobAvail
    BY <1>1, <1>2, Geometry DEF OobBytes, Min2
  <1> QED BY <1>3, <1>4

LEMMA Advance ==
  ASSUME NEW f \in Frames, CursorOK(f), f.call # NoCall, NEW g \in Frames, NEW d, NEW o,
         DatBytes(f, d), OobBytes(f, o), MovedTo(f, g, d, o)
  PROVE  CursorOK(g)
  <1>1. /\ f.page \in Nat /\ f.col \in Nat /\ f.ooboffs \in Nat /\ f.call \in Requests
        /\ f.len \in Nat /\ f.ooblen \in Nat /\ f.retlen \in Nat
    BY DEF Frames
  <1>2. PICK c \in Requests : c = f.call /\ c = g.call
    BY <1>1 DEF MovedTo
  <1> USE Geometry
  <1>3. /\ g.call # NoCall /\ Accepted(g.call)
        /\ g.op # "none" => g.op = g.call.op
    BY DEF MovedTo, CursorOK
  <1>4. /\ d \in Nat /\ d <= f.len /\ f.col + d <= WriteSize /\ (f.len > 0 => d > 0)
        /\ d < f.len => f.col + d = WriteSize
        /\ o \in Nat /\ o <= f.ooblen
        /\ f.ooblen > 0 => o > 0 /\ f.ooboffs + o <= OobAvail
        /\ o < f.ooblen => f.ooboffs + o = OobAvail
    BY PageBytes
  <1>5. c.len \in Nat /\ c.ooblen \in Nat /\ c.from \in Nat /\ c.ooboffs \in Nat
    BY CallTypes
  <1>6. g.retlen + g.len = g.call.len /\ g.ooblen <= g.call.ooblen
    BY <1>1, <1>2, <1>4, <1>5 DEF MovedTo, CursorOK
  <1>7. g.col < WriteSize /\ (g.call.ooblen > 0 => g.ooboffs < OobAvail)
    BY <1>1, <1>2, <1>4, <1>5 DEF MovedTo, CursorOK
  <1>8. ASSUME g.len > 0
        PROVE  g.page * WriteSize + g.col = g.call.from + g.retlen
    <2>1. f.len > 0 /\ d > 0 /\ f.col + d = WriteSize /\ g.col = 0
      BY <1>1, <1>4, <1>8 DEF MovedTo
    <2>2. f.page * WriteSize + f.col = c.from + f.retlen
      BY <2>1, <1>2 DEF CursorOK
    <2>3. (f.page + 1) * WriteSize + 0 = (c.from + f.retlen) + d
      BY <2>1, <2>2, <1>1, <1>4, <1>5, TimesTurn
    <2>4. g.page = f.page + 1 /\ g.retlen = f.retlen + d
      BY DEF MovedTo
    <2>5. (c.from + f.retlen) + d = c.from + (f.retlen + d)
      BY <1>1, <1>4, <1>5
    <2> QED BY <2>1, <2>3, <2>4, <2>5, <1>2
  <1>9. ASSUME g.ooblen > 0
        PROVE  (g.page - (g.call.from \div WriteSize)) * OobAvail + g.ooboffs
                 = g.call.ooboffs + OobDone(g)
    <2>1. f.ooblen > 0 /\ o > 0 /\ f.ooboffs + o = OobAvail /\ g.ooboffs = 0
      BY <1>1, <1>4, <1>9 DEF MovedTo
    <2>2. PICK b \in Nat : b = c.from \div WriteSize
      BY CallTypes
    <2>3. (f.page - b) * OobAvail + f.ooboffs = c.ooboffs + (c.ooblen - f.ooblen)
      BY <2>1, <2>2, <1>2 DEF CursorOK, OobDone
    <2>4. ((f.page - b) + 1) * OobAvail + 0 = (c.ooboffs + (c.ooblen - f.ooblen)) + o
      <3>1. f.page - b \in Int /\ c.ooboffs + (c.ooblen - f.ooblen) \in Int
        BY <1>1, <1>5
      <3> QED BY <3>1, <2>1, <2>3, <1>1, <1>4, TimesTurn
    <2>5. g.page - b = (f.page - b) + 1
      BY <1>1 DEF MovedTo
    <2>6. (c.ooboffs + (c.ooblen - f.ooblen)) + o = c.ooboffs + OobDone(g)
      BY <1>1, <1>2, <1>4, <1>5 DEF MovedTo, OobDone
    <2> QED BY <2>1, <2>2, <2>4, <2>5, <2>6, <1>2
  <1> QED BY <1>3, <1>6, <1>7, <1>8, <1>9 DEF CursorOK

-----------------------------------------------------------------------------
(* What one page makes of the frame                                        *)

\* A page that failed moves nothing.
Stays(f, g) == g.ret # "ok" /\ g = [f EXCEPT !.ret = g.ret]

LEMMA ActiveCall ==
  ASSUME IoTypeOK, Cursors, NEW t \in Tasks, frame[t].op # "none"
  PROVE  /\ frame[t].call # NoCall /\ frame[t].call \in Calls
         /\ frame[t].op = frame[t].call.op
  <1>1. CursorOK(frame[t]) /\ frame[t].call \in Requests
    BY FrameTypes DEF Cursors
  <1>2. frame[t] # NoFrame
    BY DEF NoFrame, Frame, NoCall
  <1> QED BY <1>1, <1>2 DEF CursorOK, Requests

LEMMA StaysFrame ==
  ASSUME NEW f \in Frames, NEW e \in {"EIO", "ECC"}
  PROVE  [f EXCEPT !.ret = e] \in Frames /\ Stays(f, [f EXCEPT !.ret = e])
  BY DEF Frames, Stays

LEMMA StaysFields ==
  ASSUME NEW f \in Frames, NEW g, Stays(f, g)
  PROVE  /\ g.op = f.op /\ g.call = f.call /\ g.page = f.page /\ g.col = f.col
         /\ g.ooboffs = f.ooboffs /\ g.len = f.len /\ g.ooblen = f.ooblen
         /\ g.dat = f.dat /\ g.oob = f.oob /\ g.retlen = f.retlen /\ g.ret # "ok"
  BY DEF Frames, Stays

LEMMA StaysCursor ==
  ASSUME NEW f \in Frames, CursorOK(f), f.call # NoCall, NEW g, Stays(f, g)
  PROVE  CursorOK(g)
  BY StaysFields DEF CursorOK, OobDone

LEMMA MovedFrame ==
  ASSUME NEW f \in Frames, NEW d \in Nat, NEW o \in Nat, d <= f.len, o <= f.ooblen
  PROVE  /\ Moved(f, d, o) \in Frames /\ MovedTo(f, Moved(f, d, o), d, o)
         /\ Moved(f, d, o).dat = f.dat /\ Moved(f, d, o).oob = f.oob
         /\ Moved(f, d, o).ret = f.ret
  <1>1. /\ f.page \in Nat /\ f.col \in Nat /\ f.ooboffs \in Nat
        /\ f.len \in Nat /\ f.ooblen \in Nat /\ f.retlen \in Nat
    BY DEF Frames
  <1>2. /\ f.page + 1 \in Nat /\ f.len - d \in Nat /\ f.ooblen - o \in Nat /\ f.retlen + d \in Nat
        /\ (IF d > 0 THEN 0 ELSE f.col) \in Nat /\ (IF o > 0 THEN 0 ELSE f.ooboffs) \in Nat
    BY <1>1
  <1>3. Moved(f, d, o) \in Frames
    BY <1>2 DEF Frames, Moved
  <1> QED BY <1>3 DEF Frames, Moved, MovedTo

\* The bytes of a page from col on
Chunk(bytes, first, n) == [i \in 1 .. n |-> bytes[first + i - 1]]

LEMMA ChunkType ==
  ASSUME NEW w \in Nat, NEW first \in Nat, NEW n \in Nat, first + n <= w,
         NEW bytes \in [0 .. w - 1 -> Bytes]
  PROVE  Chunk(bytes, first, n) \in [1 .. n -> Bytes] /\ Chunk(bytes, first, n) \in Seq(Bytes)
  <1>1. \A i \in 1 .. n : first + i - 1 \in 0 .. w - 1
    OBVIOUS
  <1>2. Chunk(bytes, first, n) \in [1 .. n -> Bytes]
    BY <1>1 DEF Chunk
  <1> QED BY <1>2

LEMMA PageTypes ==
  ASSUME IoTypeOK, NEW p \in Pages
  PROVE  /\ flash[p] \in PageSet
         /\ flash[p].dat \in [0 .. WriteSize - 1 -> Bytes]
         /\ flash[p].oob \in [0 .. OobAvail - 1 -> Bytes]
  BY DEF IoTypeOK, PageSet, Cols, Oobs

\* The acting task's page, and how much of it belongs to the request.
LEMMA AtPage ==
  ASSUME IoTypeOK, Cursors, NEW t \in Tasks, NEW ops, "none" \notin ops, Busy(t, ops), Left(t)
  PROVE  /\ pc[t] = "core" /\ frame[t].op \in ops /\ frame[t].ret = "ok"
         /\ frame[t] \in Frames /\ CursorOK(frame[t])
         /\ frame[t].page \in Pages /\ frame[t].call \in Calls /\ frame[t].call # NoCall
         /\ frame[t].op = frame[t].call.op
         /\ DatBytes(frame[t], DataLen(t))
         /\ Ranged(t) => frame[t].ooblen = 0 /\ OobBytes(frame[t], 0)
         /\ ~Ranged(t) => OobBytes(frame[t], OobLen(t)) /\ frame[t].call.ooblen > 0
  <1>1. /\ pc[t] = "core" /\ frame[t].op \in ops /\ frame[t].op # "none" /\ frame[t].ret = "ok"
    BY DEF Busy
  <1>2. frame[t] \in Frames /\ CursorOK(frame[t])
    BY FrameTypes DEF Cursors
  <1>3. /\ frame[t].call \in Calls /\ frame[t].call # NoCall
        /\ frame[t].op = frame[t].call.op
    BY <1>1, ActiveCall
  <1>4. frame[t].page \in Pages
    BY <1>2, InPages DEF Left
  <1>5. DatBytes(frame[t], DataLen(t))
    BY DEF DatBytes, DataLen
  <1>6. PICK c \in Requests : c = frame[t].call
    BY <1>3 DEF Requests
  <1>7. c.ooblen \in Nat /\ (c.op \in {"read", "write"} => c.ooblen = 0)
    BY CallTypes
  <1>8. frame[t].ooblen \in Nat /\ frame[t].ooboffs \in Nat /\ frame[t].ooblen <= c.ooblen
        /\ (c.ooblen > 0 => frame[t].ooboffs < OobAvail)
    BY <1>2, <1>6, FrameTypes DEF CursorOK
  <1>9. Ranged(t) => frame[t].ooblen = 0 /\ OobBytes(frame[t], 0)
    BY <1>6, <1>7, <1>8 DEF Ranged, OobBytes
  <1>10. ~Ranged(t) => OobBytes(frame[t], OobLen(t)) /\ frame[t].call.ooblen > 0
    <2> SUFFICES ASSUME ~Ranged(t) PROVE OobBytes(frame[t], OobLen(t)) /\ c.ooblen > 0
      BY <1>6
    <2>1. c.ooblen > 0
      BY <1>6, <1>7 DEF Ranged
    <2> QED BY <2>1, <1>8, Geometry DEF OobBytes, OobLen, Min2
  <1> QED BY <1>1, <1>2, <1>3, <1>4, <1>5, <1>9, <1>10

OobPart(t) == IF Ranged(t) THEN 0 ELSE OobLen(t)

\* What a task at a page may rely on
LEMMA AtPart ==
  ASSUME IoTypeOK, Cursors, NEW t \in Tasks, NEW ops, "none" \notin ops, Busy(t, ops), Left(t)
  PROVE  /\ OobBytes(frame[t], OobPart(t))
         /\ DataLen(t) \in Nat /\ DataLen(t) <= frame[t].len
         /\ frame[t].col + DataLen(t) <= WriteSize
         /\ OobPart(t) \in Nat /\ OobPart(t) <= frame[t].ooblen
         /\ ~Ranged(t) => frame[t].ooboffs + OobPart(t) <= OobAvail
  <1>1. OobBytes(frame[t], OobPart(t))
    BY AtPage DEF OobPart
  <1>2. CursorOK(frame[t]) /\ frame[t] \in Frames /\ DatBytes(frame[t], DataLen(t))
    BY AtPage
  <1>3. /\ DataLen(t) \in Nat /\ DataLen(t) <= frame[t].len
        /\ frame[t].col + DataLen(t) <= WriteSize
        /\ OobPart(t) \in Nat /\ OobPart(t) <= frame[t].ooblen
        /\ frame[t].ooblen > 0 => frame[t].ooboffs + OobPart(t) <= OobAvail
    BY <1>1, <1>2, PageBytes
  <1>4. ASSUME ~Ranged(t) PROVE frame[t].ooboffs + OobPart(t) <= OobAvail
    <2>1. frame[t].call \in Requests /\ frame[t].call.ooblen > 0
      BY <1>4, AtPage DEF Requests
    <2>2. frame[t].ooboffs < OobAvail
      BY <2>1, <1>2 DEF CursorOK
    <2> QED BY <2>2, <1>1, <1>3, FrameTypes, Geometry DEF OobBytes
  <1> QED BY <1>1, <1>3, <1>4

\* A page that was read
ReadPage(t, g) ==
  LET f == frame[t]
  IN  /\ MovedTo(f, g, DataLen(t), OobPart(t)) /\ g.ret = "ok"
      /\ g.dat = f.dat \o Chunk(flash[f.page].dat, f.col, DataLen(t))
      /\ g.oob = IF Ranged(t) THEN f.oob
                 ELSE f.oob \o Chunk(flash[f.page].oob, f.ooboffs, OobPart(t))

LEMMA FaultShape ==
  ASSUME IoTypeOK, NEW t \in Tasks, Fault(t)
  PROVE  \E g \in Frames : frame' = [frame EXCEPT ![t] = g] /\ Stays(frame[t], g)
  <1>1. PICK e \in {"EIO", "ECC"} : frame' = [frame EXCEPT ![t].ret = e]
    BY DEF Fault
  <1>2. frame' = [frame EXCEPT ![t] = [frame[t] EXCEPT !.ret = e]]
    BY <1>1
  <1>3. [frame[t] EXCEPT !.ret = e] \in Frames /\ Stays(frame[t], [frame[t] EXCEPT !.ret = e])
    BY StaysFrame, FrameTypes
  <1> QED BY <1>2, <1>3

LEMMA ReadRangeShape ==
  ASSUME IoTypeOK, Cursors, NEW t \in Tasks, ReadRange(t)
  PROVE  \E g \in Frames : /\ frame' = [frame EXCEPT ![t] = g]
                           /\ ReadPage(t, g) \/ Stays(frame[t], g)
  <1> DEFINE f == frame[t]
             d == DataLen(t)
             x == f.dat \o Chunk(flash[f.page].dat, f.col, d)
             m == Moved(f, d, 0)
             g == [m EXCEPT !.dat = x]
  <1>1. CASE frame' = [frame EXCEPT ![t] =
                 [Moved(f, d, 0) EXCEPT !.dat = @ \o [i \in 1 .. d |-> flash[f.page].dat[f.col + i - 1]]]]
    <2>1. Busy(t, {"read", "read_oob"}) /\ Ranged(t) /\ Left(t)
      BY DEF ReadRange
    <2>2. /\ f \in Frames /\ f.page \in Pages /\ f.ret = "ok" /\ f.ooblen = 0
      BY <2>1, AtPage
    <2>3. d \in Nat /\ d <= f.len /\ f.col + d <= WriteSize
      BY <2>1, AtPart
    <2>4. x \in Seq(Bytes)
      <3>1. Chunk(flash[f.page].dat, f.col, d) \in Seq(Bytes)
        BY <2>2, <2>3, PageTypes, FrameTypes, Geometry, ChunkType
      <3> QED BY <3>1, FrameTypes, ConcatProperties
    <2>5. m \in Frames /\ MovedTo(f, m, d, 0) /\ m.dat = f.dat /\ m.oob = f.oob /\ m.ret = f.ret
      BY <2>2, <2>3, MovedFrame
    <2>6. /\ g \in Frames /\ g.dat = x /\ g.oob = m.oob /\ g.ret = m.ret
          /\ g.op = m.op /\ g.call = m.call /\ g.page = m.page /\ g.len = m.len
          /\ g.retlen = m.retlen /\ g.col = m.col /\ g.ooblen = m.ooblen /\ g.ooboffs = m.ooboffs
      <3> HIDE DEF m, x
      <3> QED BY <2>4, <2>5 DEF Frames
    <2>7. MovedTo(f, g, d, 0)
      <3> HIDE DEF g, m, d, f
      <3> QED BY <2>5, <2>6 DEF MovedTo
    <2>8. frame' = [frame EXCEPT ![t] = g]
      <3>1. frame' = [frame EXCEPT ![t] = [m EXCEPT !.dat = m.dat \o Chunk(flash[f.page].dat, f.col, d)]]
        BY <1>1 DEF Chunk
      <3> QED BY <3>1, <2>5
    <2>9. ReadPage(t, g)
      <3>1. OobPart(t) = 0 /\ Ranged(t)
        BY <2>1 DEF OobPart
      <3> HIDE DEF g, m, x
      <3>2. g.dat = f.dat \o Chunk(flash[f.page].dat, f.col, DataLen(t))
        BY <2>6 DEF x
      <3> QED BY <3>1, <3>2, <2>2, <2>5, <2>6, <2>7 DEF ReadPage
    <2> HIDE DEF g
    <2> QED BY <2>6, <2>8, <2>9
  <1>2. CASE Fault(t)
    BY <1>2, FaultShape
  <1> QED BY <1>1, <1>2 DEF ReadRange

LEMMA ReadDataShape ==
  ASSUME IoTypeOK, Cursors, NEW t \in Tasks, ReadData(t)
  PROVE  \E g \in Frames : /\ frame' = [frame EXCEPT ![t] = g]
                           /\ ReadPage(t, g) \/ Stays(frame[t], g)
  <1> DEFINE f == frame[t]
             d == DataLen(t)
             o == OobLen(t)
             x == f.dat \o Chunk(flash[f.page].dat, f.col, d)
             y == f.oob \o Chunk(flash[f.page].oob, f.ooboffs, o)
             m == Moved(f, d, o)
             g == [m EXCEPT !.dat = x, !.oob = y]
  <1>1. CASE /\ ncache' = [dat |-> IF f.call.len > 0 THEN flash[f.page].dat ELSE ncache.dat,
                           oob |-> flash[f.page].oob]
             /\ frame' = [frame EXCEPT ![t] =
                 [Moved(f, d, o) EXCEPT
                    !.dat = @ \o [i \in 1 .. d |-> ncache'.dat[f.col + i - 1]],
                    !.oob = @ \o [i \in 1 .. o |-> ncache'.oob[f.ooboffs + i - 1]]]]
    <2>1. Busy(t, {"read_oob"}) /\ ~Ranged(t) /\ Left(t)
      BY DEF ReadData
    <2>2. /\ f \in Frames /\ f.page \in Pages /\ f.ret = "ok" /\ CursorOK(f) /\ OobPart(t) = o
      BY <2>1, AtPage DEF OobPart
    <2>3. /\ d \in Nat /\ d <= f.len /\ f.col + d <= WriteSize
          /\ o \in Nat /\ o <= f.ooblen /\ f.ooboffs + o <= OobAvail
      BY <2>1, <2>2, AtPart
    <2>4. x \in Seq(Bytes)
      <3>1. Chunk(flash[f.page].dat, f.col, d) \in Seq(Bytes)
        BY <2>2, <2>3, PageTypes, FrameTypes, Geometry, ChunkType
      <3> QED BY <3>1, FrameTypes, ConcatProperties
    <2>5. y \in Seq(Bytes)
      <3>1. Chunk(flash[f.page].oob, f.ooboffs, o) \in Seq(Bytes)
        BY <2>2, <2>3, PageTypes, FrameTypes, Geometry, ChunkType
      <3> QED BY <3>1, FrameTypes, ConcatProperties
    <2>6. m \in Frames /\ MovedTo(f, m, d, o) /\ m.dat = f.dat /\ m.oob = f.oob /\ m.ret = f.ret
      BY <2>2, <2>3, MovedFrame
    <2>7. /\ g \in Frames /\ g.dat = x /\ g.oob = y /\ g.ret = m.ret
          /\ g.op = m.op /\ g.call = m.call /\ g.page = m.page /\ g.len = m.len
          /\ g.retlen = m.retlen /\ g.col = m.col /\ g.ooblen = m.ooblen /\ g.ooboffs = m.ooboffs
      <3> HIDE DEF m, x, y
      <3> QED BY <2>4, <2>5, <2>6 DEF Frames
    <2>8. MovedTo(f, g, d, o)
      <3> HIDE DEF g, m, d, f, o
      <3> QED BY <2>6, <2>7 DEF MovedTo
    <2>9. Chunk(ncache'.dat, f.col, d) = Chunk(flash[f.page].dat, f.col, d)
      <3>1. CASE f.call.len > 0
        BY <3>1, <1>1
      <3>2. CASE ~(f.call.len > 0)
        <4>1. d = 0
          <5>1. f.call \in Requests /\ f.retlen + f.len = f.call.len
            BY <2>2, FrameTypes DEF CursorOK
          <5>2. f.call.len \in Nat
            BY <5>1, CallTypes
          <5> QED BY <5>1, <5>2, <3>2, <2>3, FrameTypes
        <4> HIDE DEF d
        <4> QED BY <4>1 DEF Chunk
      <3> QED BY <3>1, <3>2
    <2>10. ncache'.oob = flash[f.page].oob
      BY <1>1
    <2>11. frame' = [frame EXCEPT ![t] = g]
      <3>1. frame' = [frame EXCEPT ![t] =
              [m EXCEPT !.dat = m.dat \o Chunk(ncache'.dat, f.col, d),
                        !.oob = m.oob \o Chunk(ncache'.oob, f.ooboffs, o)]]
        <4> HIDE DEF f, d, o
        <4>1. [m EXCEPT !.dat = @ \o [i \in 1 .. d |-> ncache'.dat[f.col + i - 1]],
                        !.oob = @ \o [i \in 1 .. o |-> ncache'.oob[f.ooboffs + i - 1]]]
              = [m EXCEPT !.dat = m.dat \o Chunk(ncache'.dat, f.col, d),
                          !.oob = m.oob \o Chunk(ncache'.oob, f.ooboffs, o)]
          <5> HIDE DEF m
          <5> QED BY Zenon, <2>6 DEF Chunk
        <4> QED BY <1>1, <4>1
      <3> QED BY <3>1, <2>6, <2>9, <2>10
    <2>12. ReadPage(t, g)
      <3> HIDE DEF g, m, x, y
      <3>1. g.dat = f.dat \o Chunk(flash[f.page].dat, f.col, DataLen(t))
        BY <2>7 DEF x
      <3>2. g.oob = f.oob \o Chunk(flash[f.page].oob, f.ooboffs, OobPart(t))
        BY <2>2, <2>7 DEF y
      <3> QED BY <2>1, <3>1, <3>2, <2>2, <2>6, <2>7, <2>8 DEF ReadPage
    <2> HIDE DEF g
    <2> QED BY <2>7, <2>11, <2>12
  <1>2. CASE Fault(t)
    BY <1>2, FaultShape
  <1> QED BY <1>1, <1>2 DEF ReadData

\* A page that was programmed, and the flash with it
Programmed(t, dat, oob) == [flash EXCEPT ![frame[t].page] = ProgramPage(@, dat, oob)]

LEMMA ProgramShape ==
  ASSUME NEW t \in Tasks, NEW dat, NEW oob, NEW good, NEW bad,
         Program(t, dat, oob, good, bad)
  PROVE  \/ /\ flash' = Programmed(t, dat, oob)
            /\ frame' = [frame EXCEPT ![t] = good]
            /\ faults' = faults
         \/ /\ flash' \in {flash, Programmed(t, dat, oob)}
            /\ frame' = [frame EXCEPT ![t] = [bad EXCEPT !.ret = "EIO"]]
            /\ faults' = faults + 1
  BY DEF Program, Programmed

LEMMA ByteTypes ==
  /\ FF \in Bytes /\ Mix \in Bytes
  /\ \A t \in Tasks, k \in Nat : Dat(t, k) \in Bytes /\ Oob(t, k) \in Bytes
  /\ \A x \in Bytes, y \in Bytes : ProgramByte(x, y) \in Bytes
  /\ \A x : ProgramByte(x, FF) = x
  BY DEF Bytes, Dat, Oob, ProgramByte

LEMMA BlankType == Blank \in PageSet
  BY ByteTypes DEF Blank, PageSet

LEMMA ProgrammedType ==
  ASSUME IoTypeOK, NEW t \in Tasks, frame[t].page \in Pages,
         NEW dat \in [Cols -> Bytes], NEW oob \in [Oobs -> Bytes]
  PROVE  Programmed(t, dat, oob) \in [Pages -> PageSet]
  <1>1. flash \in [Pages -> PageSet]
    BY DEF IoTypeOK
  <1>2. ASSUME NEW pg \in PageSet PROVE ProgramPage(pg, dat, oob) \in PageSet
    <2>1. pg.dat \in [Cols -> Bytes] /\ pg.oob \in [Oobs -> Bytes]
      BY DEF PageSet
    <2>2. /\ [i \in Cols |-> ProgramByte(pg.dat[i], dat[i])] \in [Cols -> Bytes]
          /\ [i \in Oobs |-> ProgramByte(pg.oob[i], oob[i])] \in [Oobs -> Bytes]
      BY <2>1, ByteTypes
    <2> QED BY <2>2 DEF PageSet, ProgramPage
  <1> QED BY <1>1, <1>2 DEF Programmed

LEMMA RangePageType ==
  ASSUME IoTypeOK, Cursors, NEW t \in Tasks, Busy(t, {"write", "write_oob"}), Left(t)
  PROVE  RangePage(t) \in [Cols -> Bytes]
  <1>1. \A i \in Cols : RangePage(t)[i] \in Bytes
    <2> TAKE i \in Cols
    <2>1. CASE i < frame[t].col
      <3>1. ~(i >= frame[t].col + DataLen(t)) /\ i \in Int
        BY <2>1, AtPart, FrameTypes, Geometry DEF Cols
      <3> QED BY <3>1, <2>1, ByteTypes DEF RangePage
    <2>2. CASE i >= frame[t].col + DataLen(t) /\ ~(i < frame[t].col)
      <3>1. icache[i] \in Bytes
        BY DEF IoTypeOK
      <3> QED BY <3>1, <2>2 DEF RangePage
    <2>3. CASE ~(i >= frame[t].col + DataLen(t)) /\ ~(i < frame[t].col)
      <3>1. frame[t].retlen + i - frame[t].col \in Nat
        BY <2>3, FrameTypes, Geometry DEF Cols
      <3>2. Dat(t, frame[t].retlen + i - frame[t].col) \in Bytes
        BY <3>1, ByteTypes
      <3> QED BY <3>2, <2>3 DEF RangePage
    <2> QED BY <2>1, <2>2, <2>3
  <1> QED BY <1>1 DEF RangePage

LEMMA FilledType ==
  ASSUME IoTypeOK, Cursors, NEW t \in Tasks
  PROVE  Filled(t) \in PageSet
  <1>1. ncache.dat \in [Cols -> Bytes] /\ ncache.oob \in [Oobs -> Bytes]
    BY DEF IoTypeOK, PageSet
  <1>2. frame[t] \in Frames /\ CursorOK(frame[t]) /\ frame[t].call \in Requests
    BY FrameTypes DEF Cursors
  <1>3. frame[t].call.ooblen \in Nat /\ frame[t].ooblen <= frame[t].call.ooblen
    BY <1>2, CallTypes DEF CursorOK
  <1>4. \A i \in Cols : Filled(t).dat[i] \in Bytes
    <2> TAKE i \in Cols
    <2>1. CASE i >= frame[t].col
      <3>1. frame[t].retlen + i - frame[t].col \in Nat
        BY <2>1, FrameTypes, Geometry DEF Cols
      <3>2. Dat(t, frame[t].retlen + i - frame[t].col) \in Bytes
        BY <3>1, ByteTypes
      <3> QED BY <3>2, <1>1, ByteTypes DEF Filled
    <2>2. CASE ~(i >= frame[t].col)
      BY <2>2, <1>1, ByteTypes DEF Filled
    <2> QED BY <2>1, <2>2
  <1>5. \A i \in Oobs : Filled(t).oob[i] \in Bytes
    <2> TAKE i \in Oobs
    <2>1. CASE i >= frame[t].ooboffs
      <3>1. frame[t].call.ooblen - frame[t].ooblen + i - frame[t].ooboffs \in Nat
        <4>1. /\ frame[t].ooblen \in Nat /\ frame[t].ooboffs \in Nat /\ i \in Nat
          BY FrameTypes, Geometry DEF Oobs
        <4> QED BY <4>1, <2>1, <1>3
      <3>2. Oob(t, frame[t].call.ooblen - frame[t].ooblen + i - frame[t].ooboffs) \in Bytes
        BY <3>1, ByteTypes
      <3> QED BY <3>2, <1>1, ByteTypes DEF Filled
    <2>2. CASE ~(i >= frame[t].ooboffs)
      BY <2>2, <1>1, ByteTypes DEF Filled
    <2> QED BY <2>1, <2>2
  <1> QED BY <1>4, <1>5 DEF Filled, PageSet

LEMMA WriteRangeShape ==
  ASSUME IoTypeOK, Cursors, NEW t \in Tasks, WriteRange(t)
  PROVE  \E g \in Frames :
           /\ frame' = [frame EXCEPT ![t] = g]
           /\ \/ /\ MovedTo(frame[t], g, DataLen(t), OobPart(t)) /\ g.ret = "ok"
                 /\ flash' = Programmed(t, RangePage(t), Blank.oob)
                 /\ faults' = faults
              \/ /\ Stays(frame[t], g)
                 /\ flash' \in {flash, Programmed(t, RangePage(t), Blank.oob)}
                 /\ faults' = faults + 1
  <1>1. Busy(t, {"write", "write_oob"}) /\ Ranged(t) /\ Left(t)
    BY DEF WriteRange
  <1>2. frame[t] \in Frames /\ frame[t].ret = "ok" /\ OobPart(t) = 0
    BY <1>1, AtPage DEF OobPart
  <1>3. DataLen(t) \in Nat /\ DataLen(t) <= frame[t].len /\ 0 <= frame[t].ooblen
    BY <1>1, <1>2, AtPart, FrameTypes
  <1>4. PICK m : m = Moved(frame[t], DataLen(t), 0)
    OBVIOUS
  <1>5. m \in Frames /\ MovedTo(frame[t], m, DataLen(t), 0) /\ m.ret = "ok"
    BY <1>2, <1>3, <1>4, MovedFrame
  <1>6. PICK s : s = [frame[t] EXCEPT !.ret = "EIO"]
    OBVIOUS
  <1>7. s \in Frames /\ Stays(frame[t], s)
    BY <1>2, <1>6, StaysFrame
  <1>8. Program(t, RangePage(t), Blank.oob, m, frame[t])
    BY <1>4 DEF WriteRange
  <1>9. \/ /\ flash' = Programmed(t, RangePage(t), Blank.oob)
           /\ frame' = [frame EXCEPT ![t] = m] /\ faults' = faults
        \/ /\ flash' \in {flash, Programmed(t, RangePage(t), Blank.oob)}
           /\ frame' = [frame EXCEPT ![t] = s] /\ faults' = faults + 1
    BY <1>8, <1>6, ProgramShape
  <1> QED BY <1>2, <1>5, <1>7, <1>9

DataPage(t) == IF frame[t].call.len > 0 THEN Filled(t).dat ELSE Blank.dat

LEMMA WriteDataShape ==
  ASSUME IoTypeOK, Cursors, NEW t \in Tasks, WriteData(t)
  PROVE  \E g \in Frames :
           /\ frame' = [frame EXCEPT ![t] = g]
           /\ MovedTo(frame[t], g, DataLen(t), OobPart(t))
           /\ flash' \in {flash, Programmed(t, DataPage(t), Filled(t).oob)}
           /\ g.ret = "ok" => flash' = Programmed(t, DataPage(t), Filled(t).oob)
           /\ faults' \in {faults, faults + 1}
  <1>1. Busy(t, {"write_oob"}) /\ ~Ranged(t) /\ Left(t)
    BY DEF WriteData
  <1>2. frame[t] \in Frames /\ frame[t].ret = "ok" /\ OobPart(t) = OobLen(t)
    BY <1>1, AtPage DEF OobPart
  <1>3. /\ DataLen(t) \in Nat /\ DataLen(t) <= frame[t].len
        /\ OobPart(t) \in Nat /\ OobPart(t) <= frame[t].ooblen
    BY <1>1, AtPart
  <1>4. PICK m : m = Moved(frame[t], DataLen(t), OobPart(t))
    OBVIOUS
  <1>5. m \in Frames /\ MovedTo(frame[t], m, DataLen(t), OobPart(t)) /\ m.ret = "ok"
    BY <1>2, <1>3, <1>4, MovedFrame
  <1>6. PICK s : s = [m EXCEPT !.ret = "EIO"]
    OBVIOUS
  <1>7. s \in Frames /\ Stays(m, s) /\ s.ret = "EIO"
    BY <1>5, <1>6, StaysFrame DEF Frames
  <1>8. MovedTo(frame[t], s, DataLen(t), OobPart(t))
    BY <1>5, <1>7, StaysFields DEF MovedTo
  <1>9. ncache' = Filled(t)
    BY DEF WriteData
  <1>10. Program(t, DataPage(t), Filled(t).oob, m, m)
    BY <1>2, <1>4, <1>9 DEF WriteData, DataPage
  <1>11. \/ /\ flash' = Programmed(t, DataPage(t), Filled(t).oob)
            /\ frame' = [frame EXCEPT ![t] = m] /\ faults' = faults
         \/ /\ flash' \in {flash, Programmed(t, DataPage(t), Filled(t).oob)}
            /\ frame' = [frame EXCEPT ![t] = s] /\ faults' = faults + 1
    BY <1>10, <1>6, ProgramShape
  <1> QED BY <1>5, <1>7, <1>8, <1>11

LEMMA EraseShape ==
  ASSUME IoTypeOK, Cursors, NEW t \in Tasks, Erase(t)
  PROVE  \E g \in Frames :
           /\ frame' = [frame EXCEPT ![t] = g]
           /\ \/ g = [frame[t] EXCEPT !.op = "none"] /\ g.op = "none"
              \/ Stays(frame[t], g)
           /\ flash' \in {flash, [p \in Pages |-> Blank]}
           /\ faults' \in {faults, faults + 1}
  <1>1. frame[t] \in Frames
    BY FrameTypes
  <1>2. PICK m : m = [frame[t] EXCEPT !.op = "none"]
    OBVIOUS
  <1>3. m \in Frames /\ m.op = "none"
    BY <1>1, <1>2 DEF Frames
  <1>4. PICK s : s = [frame[t] EXCEPT !.ret = "EIO"]
    OBVIOUS
  <1>5. s \in Frames /\ Stays(frame[t], s)
    BY <1>1, <1>4, StaysFrame
  <1>6. \/ frame' = [frame EXCEPT ![t] = m] \/ frame' = [frame EXCEPT ![t] = s]
    BY <1>2, <1>4 DEF Erase
  <1>7. flash' \in {flash, [p \in Pages |-> Blank]} /\ faults' \in {faults, faults + 1}
    BY DEF Erase
  <1> QED BY <1>2, <1>3, <1>5, <1>6, <1>7

\* Each step on a page keeps the types and the places of the loops.
LEMMA PageStepCursors ==
  ASSUME IoTypeOK, Cursors, NEW t \in Tasks, PageStep(t)
  PROVE  /\ IoTypeOK' /\ Cursors' /\ pc[t] = "core" /\ UNCHANGED <<vars, before>>
         /\ \A u \in Tasks \ {t} : frame'[u] = frame[u]
  <1>1. frame \in [Tasks -> Frames] /\ faults \in Nat /\ \A u \in Tasks : CursorOK(frame[u])
    BY DEF IoTypeOK, Cursors
  \* The frames, once the acting task's next one is known
  <1>2. ASSUME NEW g \in Frames, frame' = [frame EXCEPT ![t] = g], CursorOK(g)
        PROVE  /\ frame' \in [Tasks -> Frames] /\ Cursors'
               /\ \A u \in Tasks \ {t} : frame'[u] = frame[u]
    <2>1. frame' \in [Tasks -> Frames] /\ \A u \in Tasks \ {t} : frame'[u] = frame[u]
      BY <1>1, <1>2
    <2>2. \A u \in Tasks : CursorOK(frame'[u])
      BY <1>1, <1>2
    <2>3. (\A u \in Tasks : CursorOK(frame[u]))'
      BY <2>2 DEF CursorOK, Accepted, OobDone, NoFrame, Frame, NoCall
    <2> QED BY <2>1, <2>3 DEF Cursors
  <1>3. ASSUME NEW ops, "none" \notin ops, Busy(t, ops), Left(t), NEW g \in Frames,
               MovedTo(frame[t], g, DataLen(t), OobPart(t)) \/ Stays(frame[t], g)
        PROVE  CursorOK(g)
    <2>1. /\ frame[t] \in Frames /\ CursorOK(frame[t]) /\ frame[t].call # NoCall
          /\ DatBytes(frame[t], DataLen(t)) /\ OobBytes(frame[t], OobPart(t))
      BY <1>3, AtPage, AtPart
    <2> QED BY <1>3, <2>1, Advance, StaysCursor
  <1>4. CASE ReadRange(t)
    <2>1. Busy(t, {"read", "read_oob"}) /\ Left(t)
      BY <1>4 DEF ReadRange
    <2>2. PICK g \in Frames : /\ frame' = [frame EXCEPT ![t] = g]
                              /\ ReadPage(t, g) \/ Stays(frame[t], g)
      BY <1>4, ReadRangeShape
    <2>3. CursorOK(g)
      BY <2>1, <2>2, <1>3 DEF ReadPage
    <2>4. icache' \in [Cols -> Bytes]
      <3>1. frame[t].page \in Pages
        BY <2>1, AtPage
      <3>2. flash[frame[t].page].dat \in [Cols -> Bytes] /\ icache \in [Cols -> Bytes]
        BY <3>1, PageTypes DEF Cols, IoTypeOK
      <3> QED BY <3>2, <1>4 DEF ReadRange
    <2>5. /\ faults' \in Nat /\ pc[t] = "core" /\ flash' = flash /\ ncache' = ncache
          /\ before' = before /\ ios' = ios /\ vars' = vars
      BY <1>4, <1>1 DEF ReadRange, Fault, Busy
    <2> QED BY <2>2, <2>3, <2>4, <2>5, <1>2 DEF IoTypeOK
  <1>5. CASE WriteRange(t)
    <2>1. Busy(t, {"write", "write_oob"}) /\ Left(t)
      BY <1>5 DEF WriteRange
    <2>2. PICK g \in Frames :
           /\ frame' = [frame EXCEPT ![t] = g]
           /\ MovedTo(frame[t], g, DataLen(t), OobPart(t)) \/ Stays(frame[t], g)
           /\ flash' \in {flash, Programmed(t, RangePage(t), Blank.oob)}
           /\ faults' \in {faults, faults + 1}
      BY <1>5, WriteRangeShape
    <2>3. CursorOK(g)
      BY <2>1, <2>2, <1>3
    <2>4. RangePage(t) \in [Cols -> Bytes]
      BY <2>1, RangePageType
    <2>5. flash' \in [Pages -> PageSet]
      <3>1. frame[t].page \in Pages /\ Blank.oob \in [Oobs -> Bytes]
        BY <2>1, AtPage, BlankType DEF PageSet
      <3>2. flash \in [Pages -> PageSet]
        BY DEF IoTypeOK
      <3> QED BY <2>2, <2>4, <3>1, <3>2, ProgrammedType
    <2>6. icache' \in [Cols -> Bytes]
      BY <2>4, <1>5 DEF WriteRange, IoTypeOK
    <2>7. /\ faults' \in Nat /\ pc[t] = "core" /\ ncache' = ncache
          /\ before' = before /\ ios' = ios /\ vars' = vars
      BY <1>5, <2>2, <1>1 DEF WriteRange, Busy
    <2> QED BY <2>2, <2>3, <2>5, <2>6, <2>7, <1>2 DEF IoTypeOK
  <1>6. CASE ReadData(t)
    <2>1. Busy(t, {"read_oob"}) /\ Left(t)
      BY <1>6 DEF ReadData
    <2>2. PICK g \in Frames : /\ frame' = [frame EXCEPT ![t] = g]
                              /\ ReadPage(t, g) \/ Stays(frame[t], g)
      BY <1>6, ReadDataShape
    <2>3. CursorOK(g)
      BY <2>1, <2>2, <1>3 DEF ReadPage
    <2>4. ncache' \in PageSet
      <3>1. frame[t].page \in Pages
        BY <2>1, AtPage
      <3>2. /\ flash[frame[t].page].dat \in [Cols -> Bytes] /\ ncache.dat \in [Cols -> Bytes]
            /\ flash[frame[t].page].oob \in [Oobs -> Bytes] /\ ncache \in PageSet
        BY <3>1, PageTypes DEF Cols, Oobs, IoTypeOK, PageSet
      <3> QED BY <3>2, <1>6 DEF ReadData, PageSet
    <2>5. /\ faults' \in Nat /\ pc[t] = "core" /\ flash' = flash /\ icache' = icache
          /\ before' = before /\ ios' = ios /\ vars' = vars
      BY <1>6, <1>1 DEF ReadData, Fault, Busy
    <2> QED BY <2>2, <2>3, <2>4, <2>5, <1>2 DEF IoTypeOK
  <1>7. CASE WriteData(t)
    <2>1. Busy(t, {"write_oob"}) /\ Left(t)
      BY <1>7 DEF WriteData
    <2>2. PICK g \in Frames :
           /\ frame' = [frame EXCEPT ![t] = g]
           /\ MovedTo(frame[t], g, DataLen(t), OobPart(t))
           /\ flash' \in {flash, Programmed(t, DataPage(t), Filled(t).oob)}
           /\ faults' \in {faults, faults + 1}
      BY <1>7, WriteDataShape
    <2>3. CursorOK(g)
      BY <2>1, <2>2, <1>3
    <2>4. Filled(t) \in PageSet /\ Blank \in PageSet
      BY FilledType, BlankType
    <2>5. flash' \in [Pages -> PageSet]
      <3>1. frame[t].page \in Pages
        BY <2>1, AtPage
      <3>2. DataPage(t) \in [Cols -> Bytes] /\ Filled(t).oob \in [Oobs -> Bytes]
        BY <2>4 DEF PageSet, DataPage
      <3>3. flash \in [Pages -> PageSet]
        BY DEF IoTypeOK
      <3> QED BY <2>2, <3>1, <3>2, <3>3, ProgrammedType
    <2>6. /\ faults' \in Nat /\ pc[t] = "core" /\ ncache' = Filled(t) /\ icache' = icache
          /\ before' = before /\ ios' = ios /\ vars' = vars
      BY <1>7, <2>2, <1>1 DEF WriteData, Busy
    <2> QED BY <2>2, <2>3, <2>4, <2>5, <2>6, <1>2 DEF IoTypeOK
  <1>8. CASE Erase(t)
    <2>1. Busy(t, {"erase"})
      BY <1>8 DEF Erase
    <2>2. PICK g \in Frames :
           /\ frame' = [frame EXCEPT ![t] = g]
           /\ \/ g = [frame[t] EXCEPT !.op = "none"] /\ g.op = "none"
              \/ Stays(frame[t], g)
           /\ flash' \in {flash, [p \in Pages |-> Blank]}
           /\ faults' \in {faults, faults + 1}
      BY <1>8, EraseShape
    <2>3. frame[t] \in Frames /\ CursorOK(frame[t]) /\ frame[t].call # NoCall
      BY <2>1, <1>1, ActiveCall DEF Busy
    <2>4. CursorOK(g)
      <3>1. CASE g = [frame[t] EXCEPT !.op = "none"] /\ g.op = "none"
        <4>1. /\ g.call = frame[t].call /\ g.page = frame[t].page /\ g.col = frame[t].col
              /\ g.ooboffs = frame[t].ooboffs /\ g.len = frame[t].len
              /\ g.ooblen = frame[t].ooblen /\ g.retlen = frame[t].retlen
          BY <3>1, <2>3 DEF Frames
        <4> QED BY <4>1, <3>1, <2>3 DEF CursorOK, OobDone
      <3> QED BY <3>1, <2>2, <2>3, StaysCursor
    <2>5. flash' \in [Pages -> PageSet]
      BY <2>2, BlankType DEF IoTypeOK
    <2>6. /\ faults' \in Nat /\ pc[t] = "core" /\ ncache' = ncache /\ icache' = icache
          /\ before' = before /\ ios' = ios /\ vars' = vars
      BY <1>8, <2>2, <1>1 DEF Erase, Busy
    <2> QED BY <2>2, <2>4, <2>5, <2>6, <1>2 DEF IoTypeOK
  <1> QED BY <1>4, <1>5, <1>6, <1>7, <1>8 DEF PageStep

-----------------------------------------------------------------------------
(* The other steps                                                         *)

LEMMA FrameStart ==
  ASSUME NEW c \in Requests, Accepted(c)
  PROVE  /\ Frame(c) \in Frames /\ CursorOK(Frame(c)) /\ Frame(c).call = c
         /\ Frame(c).op = c.op
  <1>1. /\ c.op \in {"read", "write", "read_oob", "write_oob", "erase", "none"}
        /\ c.from \in Nat /\ c.len \in Nat /\ c.ooblen \in Nat /\ c.ooboffs \in Nat
        /\ c.from \div WriteSize \in Nat /\ c.from % WriteSize \in Cols
        /\ c.from = (c.from \div WriteSize) * WriteSize + (c.from % WriteSize)
    BY CallTypes
  <1>2. PICK q \in Nat, r \in Nat : q = c.from \div WriteSize /\ r = c.from % WriteSize
    BY <1>1, Geometry DEF Cols
  <1>3. r < WriteSize /\ c.from = q * WriteSize + r
    BY <1>1, <1>2, Geometry DEF Cols
  <1>4. PICK f : f = Frame(c)
    OBVIOUS
  <1>5. f = [op |-> c.op, call |-> c, page |-> q, col |-> r, ooboffs |-> c.ooboffs,
             len |-> c.len, ooblen |-> c.ooblen, dat |-> <<>>, oob |-> <<>>,
             retlen |-> 0, ret |-> "ok"]
    BY <1>2, <1>4 DEF Frame
  <1>6. f \in Frames
    BY <1>1, <1>5 DEF Frames
  <1>7. /\ f.op = c.op /\ f.call = c /\ f.page = q /\ f.col = r /\ f.ooboffs = c.ooboffs
        /\ f.len = c.len /\ f.ooblen = c.ooblen /\ f.retlen = 0
    BY <1>5
  <1>8. f.call = NoCall => f = NoFrame
    BY <1>4, <1>7 DEF NoFrame
  <1>9. f.call.ooblen > 0 => f.ooboffs < OobAvail
    BY <1>7 DEF Accepted
  <1>10. f.page * WriteSize + f.col = f.call.from + f.retlen
    BY <1>1, <1>3, <1>7
  <1>11. (f.page - (f.call.from \div WriteSize)) * OobAvail + f.ooboffs
            = f.call.ooboffs + OobDone(f)
    BY <1>1, <1>2, <1>7, Geometry DEF OobDone
  <1>12. /\ f.retlen + f.len = f.call.len /\ f.ooblen <= f.call.ooblen /\ f.col < WriteSize
    BY <1>1, <1>3, <1>7
  <1>13. CursorOK(f)
    BY <1>7, <1>8, <1>9, <1>10, <1>11, <1>12 DEF CursorOK
  <1> QED BY <1>4, <1>6, <1>7, <1>13

LEMMA NoFrameStart ==
  /\ NoFrame \in Frames /\ CursorOK(NoFrame) /\ NoFrame.call = NoCall /\ NoFrame.op = "none"
  /\ NoFrame = Frame(NoFrame.call)
  <1>1. NoCall \in Requests /\ NoCall.op = "none" /\ Accepted(NoCall)
    BY Geometry DEF Requests, NoCall, Accepted
  <1> QED BY <1>1, FrameStart DEF NoFrame

\* The data path takes and releases the device as NmbmMtd says.
LEMMA MtdStep ==
  ASSUME [IoNext]_ioVars
  PROVE  [Next]_vars
  <1>1. CASE UNCHANGED ioVars
    BY <1>1 DEF ioVars
  <1>2. CASE IoNext
    <2>1. PICK t \in Tasks :
            \/ \E c \in Calls : IoCall(t, c)
            \/ LockStep(t) \/ Grant(t) \/ PageStep(t) \/ Release(t)
      BY <1>2 DEF IoNext
    <2>2. ASSUME NEW c \in Calls, IoCall(t, c) PROVE Next
      <3>1. NewState(c) \in NewStates /\ Call(t, NewState(c))
        BY <2>2 DEF IoCall, NewState, NewStates
      <3> QED BY <3>1 DEF Next, Request
    <2>3. CASE LockStep(t)
      <3>1. FL_READING \in NewStates
        BY DEF NewStates
      <3> QED BY <2>3, <3>1 DEF LockStep, Next, Request, Run, GetDevice, ReleaseDevice
    <2>4. CASE Grant(t)
      BY <2>4 DEF Grant, Next, Run, GetDevice
    <2>5. CASE Release(t)
      BY <2>5 DEF Release, Next, Run, ReleaseDevice
    <2>6. CASE PageStep(t)
      BY <2>6 DEF PageStep, ReadRange, WriteRange, ReadData, WriteData, Erase
    <2> QED BY <2>1, <2>2, <2>3, <2>4, <2>5, <2>6
  <1> QED BY <1>1, <1>2

\* The data path implements the locking of NmbmMtd: what is proved of every
\* user of the device holds of the read and write routines of nmbm-mtd.c.
THEOREM IoImplementsMtd == IoSpec => Spec
  <1>1. IoInit => Init
    BY DEF IoInit
  <1> QED BY <1>1, MtdStep, PTL DEF IoSpec, Spec

LEMMA IoInitBase == IoInit => IoTypeOK /\ Cursors /\ Started
  <1> SUFFICES ASSUME IoInit PROVE IoTypeOK /\ Cursors /\ Started
    OBVIOUS
  <1>1. frame \in [Tasks -> Frames] /\ \A t \in Tasks : frame[t] = NoFrame
    BY NoFrameStart DEF IoInit
  <1>2. flash \in [Pages -> PageSet] /\ before = flash /\ ncache \in PageSet
    BY BlankType DEF IoInit
  <1>3. icache \in [Cols -> Bytes]
    BY BlankType DEF IoInit, PageSet
  <1>4. ios \in Nat /\ faults \in Nat
    BY DEF IoInit
  <1> QED BY <1>1, <1>2, <1>3, <1>4, NoFrameStart DEF IoTypeOK, Cursors, Started

\* A request that starts, and one that is over: the only steps outside the
\* pages that change a frame.
LEMMA FrameSet ==
  ASSUME IoTypeOK, Cursors, NEW t \in Tasks, NEW c \in Requests, Accepted(c),
         frame' = [frame EXCEPT ![t] = Frame(c)]
  PROVE  frame' \in [Tasks -> Frames] /\ Cursors' /\ frame'[t] = Frame(c)
  <1>1. frame \in [Tasks -> Frames] /\ \A u \in Tasks : CursorOK(frame[u])
    BY DEF IoTypeOK, Cursors
  <1>2. frame' \in [Tasks -> Frames] /\ frame'[t] = Frame(c)
        /\ \A u \in Tasks \ {t} : frame'[u] = frame[u]
    BY <1>1, FrameStart
  <1>3. \A u \in Tasks : CursorOK(frame'[u])
    BY <1>1, <1>2, FrameStart
  <1>4. (\A u \in Tasks : CursorOK(frame[u]))'
    BY <1>3 DEF CursorOK, Accepted, OobDone, NoFrame, Frame, NoCall
  <1> QED BY <1>2, <1>4 DEF Cursors

LEMMA BaseStep ==
  ASSUME IInv, IoTypeOK, Cursors, Started, [IoNext]_ioVars
  PROVE  IoTypeOK' /\ Cursors' /\ Started'
  <1> USE DEF Goto
  <1>0. pc \in [Tasks -> Labels]
    BY DEF IInv, TypeOK
  <1>1. CASE UNCHANGED ioVars
    BY <1>1 DEF ioVars, vars, io, IoTypeOK, Cursors, Started, CursorOK, Accepted, OobDone,
                NoFrame, Frame, NoCall
  <1>2. CASE IoNext
    <2>1. PICK t \in Tasks :
            \/ \E c \in Calls : IoCall(t, c)
            \/ LockStep(t) \/ Grant(t) \/ PageStep(t) \/ Release(t)
      BY <1>2 DEF IoNext
    <2>2. ASSUME NEW c \in Calls, IoCall(t, c) PROVE IoTypeOK' /\ Cursors' /\ Started'
      <3>1. /\ Accepted(c) /\ frame' = [frame EXCEPT ![t] = Frame(c)] /\ ios' = ios + 1
            /\ UNCHANGED <<flash, ncache, icache, before, faults>>
            /\ pc' = [pc EXCEPT ![t] = "get"]
        BY <2>2 DEF IoCall, Call
      <3>2. c \in Requests
        BY DEF Requests
      <3>3. frame' \in [Tasks -> Frames] /\ Cursors' /\ frame'[t] = Frame(c)
        BY <3>1, <3>2, FrameSet
      <3>4. IoTypeOK'
        BY <3>1, <3>3 DEF IoTypeOK
      <3>5. \A u \in Tasks : pc'[u] # "core" => frame'[u] = Frame(frame'[u].call)
        <4> SUFFICES ASSUME NEW u \in Tasks, pc'[u] # "core"
                     PROVE  frame'[u] = Frame(frame'[u].call)
          OBVIOUS
        <4>1. CASE u = t
          BY <4>1, <3>1, <3>2, <3>3, FrameStart
        <4>2. CASE u # t
          BY <4>2, <3>1, <1>0 DEF Started, IoTypeOK
        <4> QED BY <4>1, <4>2
      <3> QED BY <3>3, <3>4, <3>5 DEF Started, Frame
    <2>3. CASE LockStep(t)
      <3>1. UNCHANGED io
        BY <2>3 DEF LockStep
      <3>2. \A u \in Tasks : pc'[u] # "core" => pc[u] # "core"
        BY <2>3, <1>0 DEF LockStep, Call, Shutdown, GetLock, GetSleep, GetEnqueue, GetUnlock,
                          GetRetry, ReleaseReady, ReleaseWake, ReleaseUnlock
      <3> QED BY <3>1, <3>2 DEF io, IoTypeOK, Cursors, Started, CursorOK, Accepted, OobDone,
                                NoFrame, Frame, NoCall
    <2>4. CASE Grant(t)
      <3>1. /\ UNCHANGED <<flash, ncache, icache, frame, ios, faults>> /\ before' = flash
            /\ \A u \in Tasks : pc'[u] # "core" => pc[u] # "core"
        BY <2>4, <1>0 DEF Grant, GetGranted
      <3> QED BY <3>1 DEF IoTypeOK, Cursors, Started, CursorOK, Accepted, OobDone,
                          NoFrame, Frame, NoCall
    <2>5. CASE Release(t)
      <3>1. /\ UNCHANGED <<flash, ncache, icache, ios, faults>> /\ before' = flash
            /\ frame' = [frame EXCEPT ![t] = NoFrame] /\ pc' = [pc EXCEPT ![t] = "ready"]
        BY <2>5 DEF Release, ReleaseLock
      <3>2. NoCall \in Requests /\ Accepted(NoCall) /\ NoFrame = Frame(NoCall)
        BY Geometry DEF Requests, NoCall, Accepted, NoFrame
      <3>3. frame' \in [Tasks -> Frames] /\ Cursors' /\ frame'[t] = NoFrame
        BY <3>1, <3>2, FrameSet
      <3>4. IoTypeOK'
        BY <3>1, <3>3 DEF IoTypeOK
      <3>5. \A u \in Tasks : pc'[u] # "core" => frame'[u] = Frame(frame'[u].call)
        <4> SUFFICES ASSUME NEW u \in Tasks, pc'[u] # "core"
                     PROVE  frame'[u] = Frame(frame'[u].call)
          OBVIOUS
        <4>1. CASE u = t
          BY <4>1, <3>3, NoFrameStart
        <4>2. CASE u # t
          BY <4>2, <3>1, <1>0 DEF Started, IoTypeOK
        <4> QED BY <4>1, <4>2
      <3> QED BY <3>3, <3>4, <3>5 DEF Started, Frame
    <2>6. CASE PageStep(t)
      <3>1. /\ IoTypeOK' /\ Cursors' /\ pc[t] = "core" /\ UNCHANGED vars
            /\ \A u \in Tasks \ {t} : frame'[u] = frame[u]
        BY <2>6, PageStepCursors
      <3>2. pc' = pc
        BY <3>1 DEF vars
      <3>3. \A u \in Tasks : pc'[u] # "core" => frame'[u] = Frame(frame'[u].call)
        BY <3>1, <3>2 DEF Started
      <3> QED BY <3>1, <3>3 DEF Started, Frame
    <2> QED BY <2>1, <2>2, <2>3, <2>4, <2>5, <2>6
  <1> QED BY <1>1, <1>2

LEMMA IoIInv == IoSpec => []IInv
  BY IoImplementsMtd, SpecIInv, PTL

LEMMA IoBase == IoSpec => []BaseInv
  <1>1. IInv /\ IInv' /\ BaseInv /\ [IoNext]_ioVars => BaseInv'
    BY BaseStep DEF BaseInv
  <1>2. IInv /\ IoInit => BaseInv
    BY IoInitBase DEF BaseInv
  <1> QED BY <1>1, <1>2, IoIInv, PTL DEF IoSpec

\* The loops of nmbm_read_range, nmbm_write_range, nmbm_mtd_read_data and
\* nmbm_mtd_write_data stay within the device, for every geometry, every
\* request the entry checks accept and every number of tasks.
THEOREM IoInDevice == IoSpec => []InDevice
  <1>1. BaseInv => InDevice
    <2> SUFFICES ASSUME BaseInv, NEW t \in Tasks, ~Finished(t), frame[t].op # "erase"
                 PROVE  frame[t].page \in Pages
      BY DEF InDevice
    <2>1. frame[t] \in Frames /\ CursorOK(frame[t])
      BY FrameTypes DEF BaseInv, Cursors
    <2>2. frame[t].len > 0 \/ frame[t].ooblen > 0
      BY DEF Finished, Left
    <2> QED BY <2>1, <2>2, InPages
  <1> QED BY IoBase, <1>1, PTL

-----------------------------------------------------------------------------
(* Reads deliver what is there                                             *)

\* The places of the next bytes: data byte retlen + k lies at col + k of the
\* page, OOB byte OobDone + k at ooboffs + k.
LEMMA DatPlace ==
  ASSUME NEW f \in Frames, CursorOK(f), f.len > 0, NEW k \in Nat, f.col + k < WriteSize
  PROVE  /\ (f.call.from + f.retlen + k) \div WriteSize = f.page
         /\ (f.call.from + f.retlen + k) % WriteSize = f.col + k
  <1>1. f.page \in Nat /\ f.col \in Nat /\ f.retlen \in Nat /\ f.call \in Requests
    BY DEF Frames
  <1>2. f.call.from \in Nat
    BY <1>1, CallTypes
  <1>3. f.page * WriteSize + f.col = f.call.from + f.retlen
    BY DEF CursorOK
  <1>4. f.col + k \in 0 .. WriteSize - 1
    BY <1>1, Geometry
  <1>5. PICK m \in Nat : m = f.page * WriteSize
    BY <1>1, Geometry
  <1>6. f.call.from + f.retlen + k = f.page * WriteSize + (f.col + k)
    BY <1>1, <1>2, <1>3, <1>5
  <1>7. /\ (f.page * WriteSize + (f.col + k)) \div WriteSize = f.page
        /\ (f.page * WriteSize + (f.col + k)) % WriteSize = f.col + k
    BY <1>1, <1>4, Geometry, DivUnique
  <1> QED BY <1>6, <1>7, Zenon

LEMMA OobPlace ==
  ASSUME NEW f \in Frames, CursorOK(f), f.ooblen > 0, NEW k \in Nat, f.ooboffs + k < OobAvail
  PROVE  /\ (f.call.ooboffs + OobDone(f) + k) \div OobAvail
              = f.page - (f.call.from \div WriteSize)
         /\ (f.call.ooboffs + OobDone(f) + k) % OobAvail = f.ooboffs + k
         /\ f.page - (f.call.from \div WriteSize) \in Nat
  <1>1. /\ f.page \in Nat /\ f.ooboffs \in Nat /\ f.ooblen \in Nat /\ f.call \in Requests
        /\ f.ooblen <= f.call.ooblen
    BY DEF Frames, CursorOK
  <1>2. /\ f.call.ooboffs \in Nat /\ f.call.ooblen \in Nat
        /\ f.call.from \div WriteSize \in Nat
    BY <1>1, CallTypes
  <1>3. PICK q \in Int : q = f.page - (f.call.from \div WriteSize)
    BY <1>1, <1>2
  <1>4. q * OobAvail + f.ooboffs = f.call.ooboffs + OobDone(f)
    BY <1>3 DEF CursorOK
  <1>5. OobDone(f) \in Nat
    BY <1>1, <1>2 DEF OobDone
  <1>6. PICK m \in Int : m = q * OobAvail
    BY Geometry
  <1>7. q \in Nat
    <2>1. (-1) * OobAvail + 0 < q * OobAvail
      BY <1>1, <1>2, <1>4, <1>5, <1>6, Geometry
    <2>2. -1 < q
      BY <2>1, Geometry, TimesBelow
    <2> QED BY <2>2
  <1>8. f.ooboffs + k \in 0 .. OobAvail - 1
    BY <1>1, Geometry
  <1>9. f.call.ooboffs + OobDone(f) + k = q * OobAvail + (f.ooboffs + k)
    BY <1>1, <1>2, <1>4, <1>5, <1>6
  <1>10. /\ (q * OobAvail + (f.ooboffs + k)) \div OobAvail = q
         /\ (q * OobAvail + (f.ooboffs + k)) % OobAvail = f.ooboffs + k
    BY <1>7, <1>8, Geometry, DivUnique
  <1> QED BY <1>3, <1>7, <1>9, <1>10, Zenon

LEMMA ChunkIndex ==
  ASSUME NEW d \in Nat, NEW k \in 1 .. d, NEW l \in Nat, NEW first \in Nat, NEW w \in Nat,
         NEW r \in Nat, d <= l, first + d <= w
  PROVE  k - 1 \in Nat /\ l > 0 /\ first + (k - 1) < w /\ r + k \in 1 .. r + d
  OBVIOUS

\* The sequence g is s, of length m, and u, of length n, behind it.
GoesOn(m, n, s, u, g) ==
  /\ m \in Nat /\ n \in Nat /\ s \in Seq(Bytes) /\ u \in [1 .. n -> Bytes]
  /\ g = [k \in 1 .. m + n |-> g[k]]
  /\ DOMAIN s = 1 .. m
  /\ \A k \in 1 .. m : g[k] = s[k]
  /\ \A k \in 1 .. n : g[m + k] = u[k]

LEMMA ConcatIs ==
  ASSUME NEW m, NEW n, NEW s, NEW u, NEW g, GoesOn(m, n, s, u, g)
  PROVE  s \o u = g
  <1> USE DEF GoesOn
  <1>1. m \in Nat /\ n \in Nat /\ s \in Seq(Bytes) /\ u \in Seq(Bytes) /\ Len(u) = n
    OBVIOUS
  <1>2. Len(s) = m
    <2>1. DOMAIN s = 1 .. Len(s) /\ Len(s) \in Nat
      OBVIOUS
    <2> QED BY <2>1
  <1> HIDE DEF GoesOn
  <1>3. /\ s \o u \in Seq(Bytes)
        /\ Len(s \o u) = Len(s) + Len(u)
        /\ \A i \in 1 .. Len(s) + Len(u) : (s \o u)[i] =
              IF i <= Len(s) THEN s[i] ELSE u[i - Len(s)]
    BY <1>1, ConcatProperties
  <1>4. \A k \in 1 .. m + n : (s \o u)[k] = g[k]
    <2> TAKE k \in 1 .. m + n
    <2>0. (s \o u)[k] = IF k <= m THEN s[k] ELSE u[k - m]
      BY <1>1, <1>2, <1>3
    <2>1. CASE k <= m
      <3>1. k \in 1 .. m
        BY <2>1, <1>1
      <3> QED BY <3>1, <2>0, <2>1 DEF GoesOn
    <2>2. CASE k > m
      <3>1. k - m \in 1 .. n /\ m + (k - m) = k /\ ~(k <= m)
        BY <2>2, <1>1
      <3>2. g[m + (k - m)] = u[k - m]
        BY <3>1 DEF GoesOn
      <3> QED BY <3>1, <3>2, <2>0
    <2>3. m \in Int /\ k \in Int
      BY <1>1
    <2>4. k <= m \/ k > m
      BY <2>3
    <2> QED BY <2>1, <2>2, <2>4
  <1>5. \A k \in 1 .. m + n : g[k] \in Bytes
    <2>1. \A k \in 1 .. Len(s \o u) : (s \o u)[k] \in Bytes
      BY <1>3, ElementOfSeq
    <2> QED BY <2>1, <1>1, <1>2, <1>3, <1>4
  <1>6. g \in Seq(Bytes) /\ Len(g) = m + n
    <2>1. g \in [1 .. m + n -> Bytes]
      BY <1>5 DEF GoesOn
    <2> QED BY <2>1, <1>1
  <1>7. \A k \in 1 .. Len(s \o u) : (s \o u)[k] = g[k]
    BY <1>1, <1>2, <1>3, <1>4
  <1> QED BY <1>1, <1>2, <1>3, <1>6, <1>7, SeqEqual

LEMMA ReadAdvance ==
  ASSUME BaseInv, NEW t \in Tasks, NEW ops, "none" \notin ops, Busy(t, ops), Left(t),
         ReadSoFar(frame[t]), NEW g \in Frames, ReadPage(t, g)
  PROVE  ReadSoFar(g)
  <1> DEFINE d == DataLen(t)
             o == OobPart(t)
  <1>1. PICK f \in Frames : f = frame[t]
    BY FrameTypes DEF BaseInv
  <1>2. CursorOK(f) /\ f.page \in Pages /\ f.call \in Requests
    BY <1>1, AtPage DEF BaseInv, Requests
  <1>3. /\ f.page \in Nat /\ f.col \in Nat /\ f.ooboffs \in Nat /\ f.len \in Nat
        /\ f.ooblen \in Nat /\ f.retlen \in Nat /\ f.dat \in Seq(Bytes) /\ f.oob \in Seq(Bytes)
    BY DEF Frames
  <1>4. /\ d \in Nat /\ d <= f.len /\ f.col + d <= WriteSize /\ o \in Nat /\ o <= f.ooblen
        /\ (~Ranged(t) => f.ooboffs + o <= OobAvail) /\ (Ranged(t) => o = 0)
    BY <1>1, AtPart DEF BaseInv, OobPart
  <1>5. MovedTo(f, g, d, o)
    BY <1>1 DEF ReadPage
  <1>6. PICK c \in Requests : c = f.call /\ c = g.call
    BY <1>2, <1>5 DEF MovedTo
  <1>7. /\ c.from \in Nat /\ c.ooboffs \in Nat /\ c.ooblen \in Nat
        /\ c.from \div WriteSize \in Nat
    BY CallTypes
  <1>8. OobDone(f) \in Nat /\ OobDone(g) = OobDone(f) + o
    <2>1. f.ooblen <= c.ooblen /\ g.ooblen = f.ooblen - o
      BY <1>2, <1>5, <1>6 DEF CursorOK, MovedTo
    <2>2. OobDone(f) = c.ooblen - f.ooblen /\ OobDone(g) = c.ooblen - g.ooblen
      BY <1>6 DEF OobDone
    <2>3. PICK x \in Nat, y \in Nat, z \in Nat : x = c.ooblen /\ y = f.ooblen /\ z = o
      BY <1>3, <1>4, <1>7
    <2>4. y <= x /\ OobDone(f) = x - y /\ OobDone(g) = x - (y - z)
      BY <2>1, <2>2, <2>3
    <2>5. x - y \in Nat /\ x - (y - z) = (x - y) + z
      BY <2>4
    <2> QED BY <2>3, <2>4, <2>5
  <1>9. g.retlen = f.retlen + d
    BY <1>5 DEF MovedTo
  <1>10. flash[f.page].dat \in [0 .. WriteSize - 1 -> Bytes]
         /\ flash[f.page].oob \in [0 .. OobAvail - 1 -> Bytes]
    BY <1>2, PageTypes DEF BaseInv
  <1>11. f.dat = [k \in 1 .. f.retlen |-> DatAt(c, k)]
         /\ f.oob = [k \in 1 .. OobDone(f) |-> OobAt(c, k)]
    BY <1>1, <1>6 DEF ReadSoFar
  <1> HIDE DEF d, o
  <1>12. g.dat = [k \in 1 .. g.retlen |-> DatAt(c, k)]
    <2>1. PICK u : u = Chunk(flash[f.page].dat, f.col, d)
      OBVIOUS
    <2>2. u \in [1 .. d -> Bytes]
      BY <2>1, <1>3, <1>4, <1>10, Geometry, ChunkType
    <2>3. g.dat = f.dat \o u
      BY <2>1, <1>1 DEF ReadPage, d
    <2>4. PICK x : x = [k \in 1 .. f.retlen + d |-> DatAt(c, k)]
      OBVIOUS
    <2>5. \A k \in 1 .. d : x[f.retlen + k] = u[k]
      <3> TAKE k \in 1 .. d
      <3>1. k - 1 \in Nat /\ f.len > 0 /\ f.col + (k - 1) < WriteSize
            /\ f.retlen + k \in 1 .. f.retlen + d
        BY <1>3, <1>4, Geometry, ChunkIndex
      <3>2. /\ (c.from + f.retlen + (k - 1)) \div WriteSize = f.page
            /\ (c.from + f.retlen + (k - 1)) % WriteSize = f.col + (k - 1)
        BY <3>1, <1>2, <1>6, DatPlace
      <3>3. c.from + (f.retlen + k) - 1 = c.from + f.retlen + (k - 1)
            /\ f.col + k - 1 = f.col + (k - 1)
        BY <1>3, <1>7
      <3>4. DatAt(c, f.retlen + k) = flash[f.page].dat[f.col + k - 1]
        BY <3>2, <3>3 DEF DatAt
      <3> QED BY <3>1, <3>4, <2>1, <2>4 DEF Chunk
    <2>6. DOMAIN f.dat = 1 .. f.retlen /\ \A k \in 1 .. f.retlen : f.dat[k] = x[k]
      <3>1. \A k \in 1 .. f.retlen : x[k] = DatAt(c, k)
        BY <2>4, <1>3, <1>4
      <3> QED BY <3>1, <1>11
    <2>7. GoesOn(f.retlen, d, f.dat, u, x)
      BY <2>2, <2>4, <2>5, <2>6, <1>3, <1>4 DEF GoesOn
    <2>8. f.dat \o u = x
      BY <2>7, ConcatIs
    <2> QED BY <2>3, <2>4, <2>8, <1>9
  <1>13. g.oob = [k \in 1 .. OobDone(g) |-> OobAt(c, k)]
    <2>1. CASE Ranged(t)
      <3>1. g.oob = f.oob /\ OobDone(g) = OobDone(f)
        BY <2>1, <1>1, <1>4, <1>8 DEF ReadPage
      <3> QED BY <3>1, <1>11
    <2>2. CASE ~Ranged(t)
      <3>1. PICK u : u = Chunk(flash[f.page].oob, f.ooboffs, o)
        OBVIOUS
      <3>2. u \in [1 .. o -> Bytes]
        BY <3>1, <2>2, <1>3, <1>4, <1>10, Geometry, ChunkType
      <3>3. g.oob = f.oob \o u
        BY <3>1, <2>2, <1>1 DEF ReadPage, o
      <3>4. PICK x : x = [k \in 1 .. OobDone(f) + o |-> OobAt(c, k)]
        OBVIOUS
      <3>5. \A k \in 1 .. o : x[OobDone(f) + k] = u[k]
        <4> TAKE k \in 1 .. o
        <4>1. k - 1 \in Nat /\ f.ooblen > 0 /\ f.ooboffs + (k - 1) < OobAvail
              /\ OobDone(f) + k \in 1 .. OobDone(f) + o
          BY <2>2, <1>3, <1>4, <1>8, Geometry, ChunkIndex
        <4>2. PICK b \in Nat : b = c.from \div WriteSize
          BY <1>7
        <4>3. /\ (c.ooboffs + OobDone(f) + (k - 1)) \div OobAvail = f.page - b
              /\ (c.ooboffs + OobDone(f) + (k - 1)) % OobAvail = f.ooboffs + (k - 1)
          BY <4>1, <4>2, <1>2, <1>6, OobPlace
        <4>4. /\ c.ooboffs + (OobDone(f) + k) - 1 = c.ooboffs + OobDone(f) + (k - 1)
              /\ f.ooboffs + k - 1 = f.ooboffs + (k - 1)
              /\ b + (f.page - b) = f.page
          BY <1>3, <1>7, <1>8
        <4>5. OobAt(c, OobDone(f) + k) = flash[f.page].oob[f.ooboffs + k - 1]
          BY <4>2, <4>3, <4>4 DEF OobAt
        <4> QED BY <4>1, <4>5, <3>1, <3>4 DEF Chunk
      <3>6. DOMAIN f.oob = 1 .. OobDone(f) /\ \A k \in 1 .. OobDone(f) : f.oob[k] = x[k]
        <4>1. \A k \in 1 .. OobDone(f) : x[k] = OobAt(c, k)
          BY <3>4, <1>8, <1>4
        <4> QED BY <4>1, <1>11
      <3>7. GoesOn(OobDone(f), o, f.oob, u, x)
        BY <3>2, <3>4, <3>5, <3>6, <1>3, <1>4, <1>8 DEF GoesOn
      <3>8. f.oob \o u = x
        BY <3>7, ConcatIs
      <3> QED BY <3>3, <3>4, <3>8, <1>8
    <2> QED BY <2>1, <2>2
  <1> QED BY <1>6, <1>12, <1>13 DEF ReadSoFar

\* One task at a time is in the core.
LEMMA OnlyOne ==
  ASSUME BaseInv, NEW t \in Tasks, NEW u \in Tasks, pc[t] = "core", pc[u] = "core"
  PROVE  u = t
  BY DEF BaseInv, IInv, OneOwner, Owns

\* Outside the pages the flash stays, and a task in the core is where it was
\* or has just been let in.
LEMMA QuietStep ==
  ASSUME BaseInv, NEW t \in Tasks,
         (\E c \in Calls : IoCall(t, c)) \/ LockStep(t) \/ Grant(t) \/ Release(t)
  PROVE  /\ flash' = flash
         /\ \A u \in Tasks : pc'[u] = "core" =>
              /\ frame'[u] = frame[u]
              /\ \/ pc[u] = "core" /\ before' = before
                 \/ frame[u] = Frame(frame[u].call) /\ before' = flash
  <1> USE DEF Goto
  <1>0. pc \in [Tasks -> Labels] /\ frame \in [Tasks -> Frames]
    BY DEF BaseInv, IInv, TypeOK, IoTypeOK
  <1>1. ASSUME NEW c \in Calls, IoCall(t, c)
        PROVE  /\ flash' = flash /\ before' = before
               /\ \A u \in Tasks : pc'[u] = "core" => frame'[u] = frame[u] /\ pc[u] = "core"
    <2>1. /\ pc' = [pc EXCEPT ![t] = "get"] /\ frame' = [frame EXCEPT ![t] = Frame(c)]
          /\ flash' = flash /\ before' = before
      BY <1>1 DEF IoCall, Call
    <2> QED BY <2>1, <1>0
  <1>2. CASE LockStep(t)
    <2>1. flash' = flash /\ before' = before /\ frame' = frame
      BY <1>2 DEF LockStep, io
    <2>2. \A u \in Tasks : pc'[u] = "core" => pc[u] = "core"
      BY <1>2, <1>0 DEF LockStep, Call, Shutdown, GetLock, GetSleep, GetEnqueue, GetUnlock,
                        GetRetry, ReleaseReady, ReleaseWake, ReleaseUnlock
    <2> QED BY <2>1, <2>2
  <1>3. CASE Grant(t)
    <2>1. flash' = flash /\ before' = flash /\ frame' = frame /\ GetGranted(t) /\ pc[t] = "test"
      BY <1>3 DEF Grant, GetGranted
    <2>2. \A u \in Tasks \ {t} : pc[u] # "core"
      BY <2>1 DEF GetGranted, BaseInv, IInv, TypeOK, OneOwner, Owns, NewStates, FL_READY,
                  FL_READING, FL_WRITING, FL_ERASING, FL_PM_SUSPENDED
    <2>3. \A u \in Tasks \ {t} : pc'[u] = pc[u]
      BY <2>1, <1>0 DEF GetGranted
    <2>4. frame[t] = Frame(frame[t].call)
      BY <2>1 DEF BaseInv, Started
    <2> QED BY <2>1, <2>2, <2>3, <2>4
  <1>4. CASE Release(t)
    <2>1. flash' = flash /\ pc' = [pc EXCEPT ![t] = "ready"] /\ pc[t] = "core"
      BY <1>4 DEF Release, ReleaseLock
    <2>2. \A u \in Tasks : pc'[u] # "core"
      BY <2>1, <1>0, OnlyOne
    <2> QED BY <2>1, <2>2
  <1> QED BY <1>1, <1>2, <1>3, <1>4

\* A page leaves the request what it is.
LEMMA PageKeeps ==
  ASSUME BaseInv, NEW t \in Tasks, PageStep(t)
  PROVE  /\ frame'[t].call = frame[t].call /\ frame'[t].op \in {frame[t].op, "none"}
         /\ frame[t].op # "none" /\ frame[t].call # NoCall
         /\ pc[t] = "core" /\ pc' = pc /\ before' = before
         /\ \A u \in Tasks : pc'[u] = "core" => u = t
  <1>1. frame \in [Tasks -> Frames] /\ frame[t] \in Frames
    BY FrameTypes DEF BaseInv, IoTypeOK
  <1>2. pc[t] = "core" /\ pc' = pc /\ before' = before
    BY PageStepCursors DEF BaseInv, vars
  <1>3. \A u \in Tasks : pc'[u] = "core" => u = t
    BY <1>2, OnlyOne
  <1>4. frame[t].op # "none"
    BY DEF PageStep, ReadRange, WriteRange, ReadData, WriteData, Erase, Busy
  <1>5. frame[t].call # NoCall
    BY <1>4, ActiveCall DEF BaseInv
  <1>6. PICK g \in Frames : /\ frame' = [frame EXCEPT ![t] = g]
                            /\ g.call = frame[t].call /\ g.op \in {frame[t].op, "none"}
    <2>1. CASE ReadRange(t) \/ ReadData(t)
      <3>1. PICK g \in Frames : /\ frame' = [frame EXCEPT ![t] = g]
                                /\ ReadPage(t, g) \/ Stays(frame[t], g)
        BY <2>1, ReadRangeShape, ReadDataShape DEF BaseInv
      <3>2. g.call = frame[t].call /\ g.op = frame[t].op
        BY <3>1, <1>1, StaysFields DEF ReadPage, MovedTo
      <3> QED BY <3>1, <3>2
    <2>2. CASE WriteRange(t)
      <3>1. PICK g \in Frames : /\ frame' = [frame EXCEPT ![t] = g]
                                /\ \/ MovedTo(frame[t], g, DataLen(t), OobPart(t))
                                   \/ Stays(frame[t], g)
        BY <2>2, WriteRangeShape DEF BaseInv
      <3>2. g.call = frame[t].call /\ g.op = frame[t].op
        BY <3>1, <1>1, StaysFields DEF MovedTo
      <3> QED BY <3>1, <3>2
    <2>3. CASE WriteData(t)
      <3>1. PICK g \in Frames : /\ frame' = [frame EXCEPT ![t] = g]
                                /\ MovedTo(frame[t], g, DataLen(t), OobPart(t))
        BY <2>3, WriteDataShape DEF BaseInv
      <3>2. g.call = frame[t].call /\ g.op = frame[t].op
        BY <3>1 DEF MovedTo
      <3> QED BY <3>1, <3>2
    <2>4. CASE Erase(t)
      <3>1. PICK g \in Frames : /\ frame' = [frame EXCEPT ![t] = g]
                                /\ \/ g = [frame[t] EXCEPT !.op = "none"] /\ g.op = "none"
                                   \/ Stays(frame[t], g)
        BY <2>4, EraseShape DEF BaseInv
      <3>2. g.call = frame[t].call /\ g.op \in {frame[t].op, "none"}
        BY <3>1, <1>1, StaysFields DEF Frames
      <3> QED BY <3>1, <3>2
    <2> QED BY <2>1, <2>2, <2>3, <2>4 DEF PageStep
  <1> QED BY <1>1, <1>2, <1>3, <1>4, <1>5, <1>6

LEMMA StartFields ==
  ASSUME NEW f, f = Frame(f.call), f.call \in Requests
  PROVE  /\ f.retlen = 0 /\ f.dat = <<>> /\ f.oob = <<>> /\ f.ooblen = f.call.ooblen
         /\ f.len = f.call.len /\ f.ooboffs = f.call.ooboffs
         /\ f.col = f.call.from % WriteSize /\ OobDone(f) = 0 /\ f.ret = "ok"
  <1>1. f.call.ooblen \in Nat
    BY CallTypes
  <1> QED BY <1>1 DEF Frame, OobDone

LEMMA ReadsStep ==
  ASSUME BaseInv, Reads, [IoNext]_ioVars
  PROVE  Reads'
  <1>1. CASE UNCHANGED ioVars
    BY <1>1 DEF ioVars, vars, io, Reads, ReadSoFar, DatAt, OobAt, OobDone
  <1>2. ASSUME flash' = flash,
               \A u \in Tasks : pc'[u] = "core" /\ frame'[u].op \in {"read", "read_oob"}
                 => ReadSoFar(frame'[u])
        PROVE  Reads'
    BY <1>2 DEF Reads, ReadSoFar, DatAt, OobAt, OobDone
  <1>3. ASSUME NEW t \in Tasks,
               (\E c \in Calls : IoCall(t, c)) \/ LockStep(t) \/ Grant(t) \/ Release(t)
        PROVE  Reads'
    <2> SUFFICES ASSUME NEW u \in Tasks, pc'[u] = "core", frame'[u].op \in {"read", "read_oob"}
                 PROVE  flash' = flash /\ ReadSoFar(frame'[u])
      BY <1>2, <1>3, QuietStep
    <2>1. /\ flash' = flash /\ frame'[u] = frame[u]
          /\ pc[u] = "core" \/ frame[u] = Frame(frame[u].call)
      BY <1>3, QuietStep
    <2>2. CASE pc[u] = "core"
      BY <2>1, <2>2 DEF Reads
    <2>3. CASE frame[u] = Frame(frame[u].call)
      <3>1. frame[u].call \in Requests
        BY FrameTypes DEF BaseInv
      <3>2. /\ frame[u].retlen = 0 /\ frame[u].dat = <<>> /\ frame[u].oob = <<>>
            /\ OobDone(frame[u]) = 0
        BY <2>3, <3>1, StartFields
      <3> QED BY <2>1, <3>2 DEF ReadSoFar
    <2> QED BY <2>1, <2>2, <2>3
  <1>4. ASSUME NEW t \in Tasks, PageStep(t)
        PROVE  Reads'
    <2>1. pc[t] = "core" /\ pc' = pc
      BY <1>4, PageKeeps
    <2>2. \A u \in Tasks : pc'[u] = "core" => u = t
      BY <1>4, PageKeeps
    <2>3. frame \in [Tasks -> Frames] /\ frame[t] \in Frames
      BY FrameTypes DEF BaseInv, IoTypeOK
    <2>4. CASE ReadRange(t) \/ ReadData(t)
      <3>1. flash' = flash
        BY <2>4 DEF ReadRange, ReadData
      <3>2. PICK ops : ops \subseteq {"read", "read_oob"} /\ Busy(t, ops) /\ Left(t)
        BY <2>4 DEF ReadRange, ReadData
      <3>3. "none" \notin ops
        BY <3>2
      <3>4. PICK g \in Frames : /\ frame' = [frame EXCEPT ![t] = g]
                                /\ ReadPage(t, g) \/ Stays(frame[t], g)
        BY <2>4, ReadRangeShape, ReadDataShape DEF BaseInv
      <3>5. ReadSoFar(frame[t])
        BY <3>2, <2>1 DEF Reads, Busy
      <3>6. ReadSoFar(g)
        <4>1. CASE ReadPage(t, g)
          BY <4>1, <3>2, <3>3, <3>5, ReadAdvance
        <4>2. CASE Stays(frame[t], g)
          <5>1. /\ g.dat = frame[t].dat /\ g.oob = frame[t].oob /\ g.call = frame[t].call
                /\ g.retlen = frame[t].retlen /\ OobDone(g) = OobDone(frame[t])
            BY <4>2, <2>3, StaysFields DEF OobDone
          <5> QED BY <5>1, <3>5 DEF ReadSoFar
        <4> QED BY <4>1, <4>2, <3>4
      <3>7. frame'[t] = g
        BY <3>4, <2>3
      <3> QED BY <1>2, <3>1, <3>6, <3>7, <2>2
    <2>5. CASE WriteRange(t) \/ WriteData(t) \/ Erase(t)
      <3>1. frame'[t].op \notin {"read", "read_oob"}
        BY <1>4, <2>5, PageKeeps DEF WriteRange, WriteData, Erase, Busy
      <3> QED BY <3>1, <2>2 DEF Reads
    <2> QED BY <1>4, <2>4, <2>5 DEF PageStep
  <1> QED BY <1>1, <1>3, <1>4 DEF IoNext

\* The release of a request is the end of a finished one.
LEMMA ReleaseIs ==
  ASSUME BaseInv, [IoNext]_ioVars, NEW t \in Tasks, Releases(t)
  PROVE  Release(t) /\ pc[t] = "core" /\ Finished(t)
  <1>1. IoNext
    BY DEF Releases, ioVars, io
  <1>2. PICK u \in Tasks :
          \/ \E c \in Calls : IoCall(u, c)
          \/ LockStep(u) \/ Grant(u) \/ PageStep(u) \/ Release(u)
    BY <1>1 DEF IoNext
  <1>3. frame \in [Tasks -> Frames] /\ frame[t] \in Frames /\ CursorOK(frame[t])
    BY FrameTypes DEF BaseInv, IoTypeOK, Cursors
  <1>4. frame[t] # NoFrame /\ frame'[t] = NoFrame
    BY DEF Releases
  <1>5. ASSUME NEW c \in Calls, IoCall(u, c) PROVE FALSE
    <2>1. frame' = [frame EXCEPT ![u] = Frame(c)]
      BY <1>5 DEF IoCall
    <2>2. u = t /\ Frame(c) = NoFrame
      BY <2>1, <1>3, <1>4
    <2>3. Frame(c).op = c.op /\ c.op # "none"
      BY IoAssumption DEF Frame
    <2> QED BY <2>2, <2>3, NoFrameStart
  <1>6. ~LockStep(u) /\ ~Grant(u)
    BY <1>4 DEF LockStep, Grant, io
  <1>7. ASSUME PageStep(u) PROVE FALSE
    <2>1. \A v \in Tasks \ {u} : frame'[v] = frame[v]
      BY <1>7, PageStepCursors DEF BaseInv
    <2>2. u = t
      BY <2>1, <1>4
    <2> QED BY <1>4, <1>7, <2>2, PageKeeps, NoFrameStart
  <1>8. Release(u)
    BY <1>2, <1>5, <1>6, <1>7
  <1>9. u = t
    BY <1>8, <1>3, <1>4 DEF Release
  <1> QED BY <1>8, <1>9 DEF Release, ReleaseLock

\* A read that returns success delivers the bytes that lie in the named
\* places, data and OOB, for every geometry, request and number of tasks.
THEOREM IoReadExact == IoSpec => ReadExact
  <1>1. IoInit => Reads
    BY DEF IoInit, Init, Reads
  <1>2. BaseInv /\ Reads /\ [IoNext]_ioVars => Reads'
    BY ReadsStep
  <1>3. BaseInv /\ Reads /\ [IoNext]_ioVars => [ReadStep]_ioVars
    <2> SUFFICES ASSUME BaseInv, Reads, [IoNext]_ioVars PROVE ReadStep
      OBVIOUS
    <2> SUFFICES ASSUME NEW t \in Tasks, Releases(t), frame[t].op \in {"read", "read_oob"},
                        frame[t].ret = "ok"
                 PROVE  /\ frame[t].dat = [k \in 1 .. frame[t].call.len |-> DatAt(frame[t].call, k)]
                        /\ frame[t].oob = [k \in 1 .. frame[t].call.ooblen |-> OobAt(frame[t].call, k)]
      BY DEF ReadStep, DatAt, OobAt
    <2>1. pc[t] = "core" /\ Finished(t)
      BY ReleaseIs
    <2>2. ReadSoFar(frame[t]) /\ ~Left(t)
      BY <2>1 DEF Reads, Finished
    <2>3. /\ CursorOK(frame[t]) /\ frame[t].call \in Requests /\ frame[t].len \in Nat
          /\ frame[t].ooblen \in Nat /\ frame[t].retlen \in Nat
      BY FrameTypes DEF BaseInv, Cursors
    <2>4. frame[t].call.len \in Nat /\ frame[t].call.ooblen \in Nat
      BY <2>3, CallTypes
    <2>5. frame[t].len = 0 /\ frame[t].ooblen = 0
      BY <2>2, <2>3 DEF Left
    <2>6. frame[t].retlen = frame[t].call.len /\ OobDone(frame[t]) = frame[t].call.ooblen
      BY <2>3, <2>4, <2>5 DEF CursorOK, OobDone
    <2> QED BY <2>2, <2>6 DEF ReadSoFar
  <1> QED BY <1>1, <1>2, <1>3, IoBase, PTL DEF IoSpec, ReadExact

-----------------------------------------------------------------------------
(* Writes put the bytes where they belong                                  *)

LEMMA SamePage ==
  ASSUME NEW w \in Nat, NEW q \in Int, NEW r \in Int, NEW i \in 0 .. w - 1, NEW x \in 0 .. w - 1,
         q * w + i = r * w + x
  PROVE  q = r
  <1>1. PICK a \in Int, b \in Int : a = q * w /\ b = r * w
    OBVIOUS
  <1>2. (q + 1) * w = a + w /\ (r + 1) * w = b + w
    BY <1>1, TimesNext
  <1>3. q * w + 0 < (r + 1) * w /\ r * w + 0 < (q + 1) * w
    BY <1>1, <1>2
  <1>4. q < r + 1 /\ r < q + 1
    BY <1>3, TimesBelow
  <1> QED BY <1>4

\* Row q, place i holds byte n when the first byte lies s places from the
\* start of row 0; byte done is the next, at place x of row r, with d more
\* places behind it.
Placed(w, q, r, x, d, i, done, s, n) ==
  /\ w \in Nat /\ q \in Int /\ r \in Int /\ x \in Nat /\ d \in Nat
  /\ i \in Nat /\ done \in Nat /\ s \in Nat
  /\ x < w /\ x + d <= w /\ i < w /\ r * w + x = s + done
  /\ n = q * w + i - s

\* The next d bytes are exactly those from x on in row r.
LEMMA Placement ==
  ASSUME NEW w, NEW q, NEW r, NEW x, NEW d, NEW i, NEW done, NEW s, NEW n,
         Placed(w, q, r, x, d, i, done, s, n)
  PROVE  /\ n \in Int
         /\ q = r => n = done + i - x
         /\ n \in 0 .. (done + d) - 1 <=> (n \in 0 .. done - 1 \/ (q = r /\ i >= x /\ i < x + d))
  <1> USE DEF Placed
  <1>1. PICK a \in Int, b \in Int : a = q * w /\ b = r * w
    OBVIOUS
  <1>2. n \in Int /\ n = a + i - s /\ b + x = s + done
    BY <1>1
  <1>3. q = r => n = done + i - x
    BY <1>1, <1>2
  <1>4. ASSUME n >= done, n < done + d
        PROVE  q = r
    <2>1. a + i = b + (x + (n - done)) /\ x + (n - done) \in 0 .. w - 1 /\ i \in 0 .. w - 1
      BY <1>2, <1>4
    <2> QED BY <2>1, <1>1, SamePage
  <1>5. n \in 0 .. (done + d) - 1 => (n \in 0 .. done - 1 \/ (q = r /\ i >= x /\ i < x + d))
    <2> SUFFICES ASSUME n \in 0 .. (done + d) - 1, n >= done
                 PROVE  q = r /\ i >= x /\ i < x + d
      BY <1>2
    <2>1. q = r
      BY <1>2, <1>4
    <2> QED BY <2>1, <1>2, <1>3
  <1>6. (n \in 0 .. done - 1 \/ (q = r /\ i >= x /\ i < x + d)) => n \in 0 .. (done + d) - 1
    BY <1>2, <1>3
  <1> QED BY <1>2, <1>3, <1>5, <1>6

LEMMA DatPlacement ==
  ASSUME NEW f \in Frames, CursorOK(f), f.len > 0, NEW d \in Nat, f.col + d <= WriteSize,
         NEW p \in Pages, NEW i \in Cols, NEW n, n = DatNo(f.call, p, i)
  PROVE  /\ n \in Int
         /\ p = f.page => n = f.retlen + i - f.col
         /\ n \in 0 .. (f.retlen + d) - 1
              <=> (n \in 0 .. f.retlen - 1 \/ (p = f.page /\ i >= f.col /\ i < f.col + d))
  <1>1. /\ f.page \in Int /\ f.col \in Nat /\ f.retlen \in Nat /\ f.call \in Requests
        /\ f.col < WriteSize /\ f.page * WriteSize + f.col = f.call.from + f.retlen
    BY DEF Frames, CursorOK
  <1>2. f.call.from \in Nat
    BY <1>1, CallTypes
  <1>3. WriteSize \in Nat /\ p \in Int /\ i \in Nat /\ i < WriteSize
    BY Geometry DEF Pages, Cols
  <1>4. n = p * WriteSize + i - f.call.from
    BY DEF DatNo
  <1>5. Placed(WriteSize, p, f.page, f.col, d, i, f.retlen, f.call.from, n)
    BY <1>1, <1>2, <1>3, <1>4 DEF Placed
  <1> QED BY <1>5, Placement

LEMMA OobPlacement ==
  ASSUME NEW f \in Frames, CursorOK(f), f.ooblen > 0, NEW o \in Nat, f.ooboffs + o <= OobAvail,
         NEW p \in Pages, NEW i \in Oobs, NEW n, n = OobNo(f.call, p, i)
  PROVE  /\ n \in Int
         /\ p = f.page => n = OobDone(f) + i - f.ooboffs
         /\ n \in 0 .. (OobDone(f) + o) - 1
              <=> (n \in 0 .. OobDone(f) - 1
                     \/ (p = f.page /\ i >= f.ooboffs /\ i < f.ooboffs + o))
  <1>1. /\ f.page \in Int /\ f.ooboffs \in Nat /\ f.ooblen \in Nat /\ f.call \in Requests
        /\ f.ooblen <= f.call.ooblen /\ (f.call.ooblen > 0 => f.ooboffs < OobAvail)
    BY DEF Frames, CursorOK
  <1>2. f.call.ooboffs \in Nat /\ f.call.ooblen \in Nat /\ f.call.from \div WriteSize \in Nat
    BY <1>1, CallTypes
  <1>3. OobAvail \in Nat /\ p \in Int /\ i \in Nat /\ i < OobAvail
    BY Geometry DEF Pages, Oobs
  <1>4. OobDone(f) \in Nat /\ f.ooboffs < OobAvail
    BY <1>1, <1>2 DEF OobDone
  <1>5. PICK b \in Nat : b = f.call.from \div WriteSize
    BY <1>2
  <1>6. PICK q \in Int, r \in Int : q = p - b /\ r = f.page - b
    BY <1>1, <1>3
  <1>7. n = q * OobAvail + i - f.call.ooboffs /\ r * OobAvail + f.ooboffs = f.call.ooboffs + OobDone(f)
    BY <1>5, <1>6 DEF OobNo, CursorOK
  <1>8. p = f.page <=> q = r
    BY <1>1, <1>3, <1>6
  <1>9. /\ n \in Int
        /\ q = r => n = OobDone(f) + i - f.ooboffs
        /\ n \in 0 .. (OobDone(f) + o) - 1
             <=> (n \in 0 .. OobDone(f) - 1 \/ (q = r /\ i >= f.ooboffs /\ i < f.ooboffs + o))
    <2>1. Placed(OobAvail, q, r, f.ooboffs, o, i, OobDone(f), f.call.ooboffs, n)
      BY <1>1, <1>2, <1>3, <1>4, <1>7 DEF Placed
    <2> QED BY <2>1, Placement
  <1> QED BY <1>8, <1>9, Zenon

LEMMA ProgrammedAt ==
  ASSUME BaseInv, NEW t \in Tasks, frame[t].page \in Pages, NEW dat, NEW oob, NEW p \in Pages
  PROVE  /\ \A i \in Cols : Programmed(t, dat, oob)[p].dat[i]
              = IF p = frame[t].page THEN ProgramByte(flash[p].dat[i], dat[i]) ELSE flash[p].dat[i]
         /\ \A i \in Oobs : Programmed(t, dat, oob)[p].oob[i]
              = IF p = frame[t].page THEN ProgramByte(flash[p].oob[i], oob[i]) ELSE flash[p].oob[i]
  <1>1. flash \in [Pages -> PageSet]
    BY DEF BaseInv, IoTypeOK
  <1>2. CASE p # frame[t].page
    BY <1>1, <1>2 DEF Programmed
  <1>3. CASE p = frame[t].page
    <2>1. Programmed(t, dat, oob)[p] = ProgramPage(flash[p], dat, oob)
      BY <1>1, <1>3 DEF Programmed
    <2> QED BY <2>1, <1>3 DEF ProgramPage
  <1> QED BY <1>2, <1>3

LEMMA RangePageAt ==
  ASSUME BaseInv, NEW t \in Tasks, Busy(t, {"write", "write_oob"}), Left(t), NEW i \in Cols
  PROVE  /\ i < frame[t].col => RangePage(t)[i] = FF
         /\ i >= frame[t].col /\ i < frame[t].col + DataLen(t) =>
              RangePage(t)[i] = Dat(t, frame[t].retlen + i - frame[t].col)
  <1>1. i \in Int /\ frame[t].col \in Nat /\ DataLen(t) \in Nat
    BY AtPart, FrameTypes, Geometry DEF Cols, BaseInv
  <1>2. CASE i < frame[t].col
    <2>1. ~(i >= frame[t].col + DataLen(t)) /\ ~(i >= frame[t].col)
      BY <1>1, <1>2
    <2> QED BY <1>2, <2>1 DEF RangePage
  <1>3. CASE i >= frame[t].col /\ i < frame[t].col + DataLen(t)
    <2>1. ~(i >= frame[t].col + DataLen(t)) /\ ~(i < frame[t].col)
      BY <1>1, <1>3
    <2> QED BY <1>3, <2>1 DEF RangePage
  <1> QED BY <1>2, <1>3

\* One page of a range write
LEMMA RangeAdvance ==
  ASSUME BaseInv, NEW t \in Tasks, WriteRange(t), RangeSoFar(t, frame[t])
  PROVE  RangeSoFar(t, frame[t])'
  <1>1. Busy(t, {"write", "write_oob"}) /\ Ranged(t) /\ Left(t)
    BY DEF WriteRange
  <1>2. PICK f \in Frames : f = frame[t]
    BY FrameTypes DEF BaseInv
  <1>3. /\ CursorOK(f) /\ f.page \in Pages /\ f.ret = "ok" /\ f.ooblen = 0
        /\ f.call \in Requests /\ DatBytes(f, DataLen(t)) /\ OobBytes(f, 0)
    BY <1>1, <1>2, AtPage DEF BaseInv, Requests
  <1>4. f.len > 0 /\ f.len \in Nat /\ f.retlen \in Nat /\ f.col \in Nat
    BY <1>1, <1>2, <1>3, FrameTypes DEF Left, BaseInv
  <1>5. PICK d : d = DataLen(t)
    OBVIOUS
  <1>6. d \in Nat /\ d <= f.len /\ f.col + d <= WriteSize /\ (d < f.len => f.col + d = WriteSize)
    BY <1>3, <1>5, PageBytes
  <1>7. PICK x : x = Programmed(t, RangePage(t), Blank.oob)
    OBVIOUS
  <1>8. PICK g \in Frames :
          /\ frame' = [frame EXCEPT ![t] = g]
          /\ \/ MovedTo(f, g, d, OobPart(t)) /\ g.ret = "ok" /\ flash' = x
             \/ Stays(f, g) /\ flash' \in {flash, x}
    BY <1>2, <1>5, <1>7, WriteRangeShape DEF BaseInv
  <1>9. frame'[t] = g /\ g.call = f.call /\ before' = before
    <2>1. g.call = f.call
      BY <1>8, StaysFields DEF MovedTo
    <2> QED BY <1>8, <2>1 DEF BaseInv, IoTypeOK, WriteRange
  <1>10. ASSUME NEW p \in Pages, NEW i \in Cols, NEW n, n = DatNo(f.call, p, i)
         PROVE  /\ n \in 0 .. g.retlen - 1 =>
                     flash'[p].dat[i] = ProgramByte(before[p].dat[i], Dat(t, n))
                /\ g.ret = "ok" /\ g.len > 0 /\ n >= g.retlen =>
                     flash'[p].dat[i] = before[p].dat[i]
    <2>1. /\ n \in Int
          /\ p = f.page => n = f.retlen + i - f.col
          /\ n \in 0 .. (f.retlen + d) - 1
               <=> (n \in 0 .. f.retlen - 1 \/ (p = f.page /\ i >= f.col /\ i < f.col + d))
      BY <1>3, <1>4, <1>6, <1>10, DatPlacement
    <2>2. i \in Int /\ i < WriteSize
      BY Geometry DEF Cols
    <2>3. x[p].dat[i] = IF p = f.page THEN ProgramByte(flash[p].dat[i], RangePage(t)[i])
                        ELSE flash[p].dat[i]
      BY <1>2, <1>3, <1>7, ProgrammedAt
    <2>4. /\ i < f.col => RangePage(t)[i] = FF
          /\ i >= f.col /\ i < f.col + d => RangePage(t)[i] = Dat(t, f.retlen + i - f.col)
      BY <1>1, <1>2, <1>5, RangePageAt
    <2>5. /\ n \in 0 .. f.retlen - 1 =>
               flash[p].dat[i] = ProgramByte(before[p].dat[i], Dat(t, n))
          /\ n >= f.retlen => flash[p].dat[i] = before[p].dat[i]
      BY <1>2, <1>3, <1>4, <1>10 DEF RangeSoFar
    \* What is already there stays.
    <2>6. ASSUME n \in 0 .. f.retlen - 1 PROVE x[p].dat[i] = flash[p].dat[i]
      <3>1. CASE p = f.page
        <4>1. i < f.col
          BY <2>1, <2>2, <2>6, <3>1, <1>4
        <4> QED BY <4>1, <2>3, <2>4, <3>1, ByteTypes
      <3>2. CASE p # f.page
        BY <3>2, <2>3
      <3> QED BY <3>1, <3>2
    <2>7. CASE Stays(f, g)
      <3>1. g.retlen = f.retlen /\ g.ret # "ok" /\ flash' \in {flash, x}
        BY <2>7, <1>8, StaysFields
      <3> QED BY <3>1, <2>5, <2>6
    <2>8. CASE MovedTo(f, g, d, OobPart(t)) /\ flash' = x
      <3>1. g.retlen = f.retlen + d /\ g.len = f.len - d
        BY <2>8 DEF MovedTo
      <3>2. ASSUME n \in 0 .. g.retlen - 1, ~(n \in 0 .. f.retlen - 1)
            PROVE  x[p].dat[i] = ProgramByte(before[p].dat[i], Dat(t, n))
        <4>1. p = f.page /\ i >= f.col /\ i < f.col + d
          <5>1. n \in 0 .. (f.retlen + d) - 1
            BY <3>1, <3>2, <1>4, <1>6
          <5>2. n \in 0 .. f.retlen - 1 \/ (p = f.page /\ i >= f.col /\ i < f.col + d)
            BY <2>1, <5>1, Zenon
          <5> QED BY <3>2, <5>2, Zenon
        <4>2. n = f.retlen + i - f.col /\ n >= f.retlen
          BY <4>1, <2>1, <2>2, <1>4
        <4> QED BY <4>1, <4>2, <2>3, <2>4, <2>5
      <3>3. ASSUME g.len > 0, n >= g.retlen
            PROVE  x[p].dat[i] = before[p].dat[i]
        <4>1. f.col + d = WriteSize
          <5>1. d < f.len
            BY <3>1, <3>3, <1>4, <1>6
          <5> QED BY <5>1, <1>6
        <4>2. p # f.page
          BY <4>1, <3>1, <3>3, <2>1, <2>2, <1>4, <1>6
        <4>3. n >= f.retlen
          BY <3>1, <3>3, <2>1, <1>4, <1>6
        <4> QED BY <4>2, <4>3, <2>3, <2>5
      <3> QED BY <3>2, <3>3, <2>5, <2>6, <2>8
    <2> QED BY <2>7, <2>8, <1>8
  <1>11. \A p \in Pages, i \in Cols :
           /\ DatNo(g.call, p, i) \in 0 .. g.retlen - 1 =>
                flash'[p].dat[i] = ProgramByte(before[p].dat[i], Dat(t, DatNo(g.call, p, i)))
           /\ g.ret = "ok" /\ g.len > 0 /\ DatNo(g.call, p, i) >= g.retlen =>
                flash'[p].dat[i] = before[p].dat[i]
    BY <1>9, <1>10
  <1> QED BY <1>9, <1>11 DEF RangeSoFar, DatNo

\* One page of a write that covers the places from col on, and nothing else
LEMMA DatAdvance ==
  ASSUME BaseInv, NEW t \in Tasks, NEW f \in Frames, f = frame[t], CursorOK(f), f.page \in Pages,
         f.len > 0, NEW d \in Nat, f.col + d <= WriteSize,
         DatSoFar(t, f.call, f.retlen), NEW dat, NEW oob,
         \A i \in Cols : dat[i] = IF i >= f.col /\ i < f.col + d
                                  THEN Dat(t, f.retlen + i - f.col) ELSE FF
  PROVE  \A p \in Pages, i \in Cols :
           Programmed(t, dat, oob)[p].dat[i]
             = IF DatNo(f.call, p, i) \in 0 .. (f.retlen + d) - 1
               THEN ProgramByte(before[p].dat[i], Dat(t, DatNo(f.call, p, i)))
               ELSE before[p].dat[i]
  <1> TAKE p \in Pages, i \in Cols
  <1>1. PICK n : n = DatNo(f.call, p, i)
    OBVIOUS
  <1>2. /\ n \in Int
        /\ p = f.page => n = f.retlen + i - f.col
        /\ n \in 0 .. (f.retlen + d) - 1
             <=> (n \in 0 .. f.retlen - 1 \/ (p = f.page /\ i >= f.col /\ i < f.col + d))
    BY <1>1, DatPlacement
  <1>3. Programmed(t, dat, oob)[p].dat[i]
          = IF p = f.page THEN ProgramByte(flash[p].dat[i], dat[i]) ELSE flash[p].dat[i]
    BY ProgrammedAt
  <1>4. flash[p].dat[i] = IF n \in 0 .. f.retlen - 1
                          THEN ProgramByte(before[p].dat[i], Dat(t, n)) ELSE before[p].dat[i]
    BY <1>1 DEF DatSoFar
  <1>5. CASE p = f.page /\ i >= f.col /\ i < f.col + d
    <2>1. f.retlen \in Nat /\ f.col \in Nat /\ i \in Int
      BY Geometry DEF Frames, Cols
    <2>2. n = f.retlen + i - f.col /\ ~(n \in 0 .. f.retlen - 1)
      BY <1>2, <1>5, <2>1
    <2>3. flash[p].dat[i] = before[p].dat[i] /\ dat[i] = Dat(t, n)
      BY <1>4, <1>5, <2>2
    <2> QED BY <1>1, <1>2, <1>3, <1>5, <2>3
  <1>6. CASE ~(p = f.page /\ i >= f.col /\ i < f.col + d)
    <2>1. p = f.page => dat[i] = FF
      BY <1>6
    <2>2. Programmed(t, dat, oob)[p].dat[i] = flash[p].dat[i]
      BY <1>3, <2>1, ByteTypes
    <2>3. n \in 0 .. (f.retlen + d) - 1 <=> n \in 0 .. f.retlen - 1
      BY <1>2, <1>6
    <2> QED BY <1>1, <1>4, <2>2, <2>3
  <1> QED BY <1>5, <1>6

LEMMA OobAdvance ==
  ASSUME BaseInv, NEW t \in Tasks, NEW f \in Frames, f = frame[t], CursorOK(f), f.page \in Pages,
         f.ooblen > 0, NEW o \in Nat, f.ooboffs + o <= OobAvail,
         OobSoFar(t, f.call, OobDone(f)), NEW dat, NEW oob,
         \A i \in Oobs : oob[i] = IF i >= f.ooboffs /\ i < f.ooboffs + o
                                  THEN Oob(t, OobDone(f) + i - f.ooboffs) ELSE FF
  PROVE  \A p \in Pages, i \in Oobs :
           Programmed(t, dat, oob)[p].oob[i]
             = IF OobNo(f.call, p, i) \in 0 .. (OobDone(f) + o) - 1
               THEN ProgramByte(before[p].oob[i], Oob(t, OobNo(f.call, p, i)))
               ELSE before[p].oob[i]
  <1> TAKE p \in Pages, i \in Oobs
  <1>1. PICK n : n = OobNo(f.call, p, i)
    OBVIOUS
  <1>2. /\ n \in Int
        /\ p = f.page => n = OobDone(f) + i - f.ooboffs
        /\ n \in 0 .. (OobDone(f) + o) - 1
             <=> (n \in 0 .. OobDone(f) - 1
                    \/ (p = f.page /\ i >= f.ooboffs /\ i < f.ooboffs + o))
    BY <1>1, OobPlacement
  <1>3. Programmed(t, dat, oob)[p].oob[i]
          = IF p = f.page THEN ProgramByte(flash[p].oob[i], oob[i]) ELSE flash[p].oob[i]
    BY ProgrammedAt
  <1>4. flash[p].oob[i] = IF n \in 0 .. OobDone(f) - 1
                          THEN ProgramByte(before[p].oob[i], Oob(t, n)) ELSE before[p].oob[i]
    BY <1>1 DEF OobSoFar
  <1>5. CASE p = f.page /\ i >= f.ooboffs /\ i < f.ooboffs + o
    <2>1. f.ooboffs \in Nat /\ i \in Int /\ f.call \in Requests /\ f.ooblen \in Nat
      BY Geometry DEF Frames, Oobs
    <2>2. OobDone(f) \in Int
      BY <2>1, CallTypes DEF OobDone
    <2>3. n = OobDone(f) + i - f.ooboffs /\ ~(n \in 0 .. OobDone(f) - 1)
      BY <1>2, <1>5, <2>1, <2>2
    <2>4. flash[p].oob[i] = before[p].oob[i] /\ oob[i] = Oob(t, n)
      BY <1>4, <1>5, <2>3
    <2> QED BY <1>1, <1>2, <1>3, <1>5, <2>4
  <1>6. CASE ~(p = f.page /\ i >= f.ooboffs /\ i < f.ooboffs + o)
    <2>1. p = f.page => oob[i] = FF
      BY <1>6
    <2>2. Programmed(t, dat, oob)[p].oob[i] = flash[p].oob[i]
      BY <1>3, <2>1, ByteTypes
    <2>3. n \in 0 .. (OobDone(f) + o) - 1 <=> n \in 0 .. OobDone(f) - 1
      BY <1>2, <1>6
    <2> QED BY <1>1, <1>4, <2>2, <2>3
  <1> QED BY <1>5, <1>6

LEMMA RangesStep ==
  ASSUME BaseInv, Ranges, [IoNext]_ioVars
  PROVE  Ranges'
  <1> USE DEF Writing, Ranged
  <1>1. CASE UNCHANGED ioVars
    BY <1>1 DEF ioVars, vars, io, Ranges, RangeSoFar, DatNo
  <1>2. ASSUME NEW t \in Tasks,
               (\E c \in Calls : IoCall(t, c)) \/ LockStep(t) \/ Grant(t) \/ Release(t)
        PROVE  Ranges'
    <2> SUFFICES ASSUME NEW u \in Tasks, Writing(u)', Ranged(u)'
                 PROVE  RangeSoFar(u, frame[u])'
      BY DEF Ranges
    <2>1. /\ flash' = flash /\ frame'[u] = frame[u]
          /\ \/ pc[u] = "core" /\ before' = before
             \/ frame[u] = Frame(frame[u].call) /\ before' = flash
      BY <1>2, QuietStep
    <2>2. CASE pc[u] = "core" /\ before' = before
      <3>1. RangeSoFar(u, frame[u])
        BY <2>1, <2>2 DEF Ranges
      <3> QED BY <3>1, <2>1, <2>2 DEF RangeSoFar, DatNo
    <2>3. CASE frame[u] = Frame(frame[u].call) /\ before' = flash
      <3>1. frame[u].call \in Requests
        BY FrameTypes DEF BaseInv
      <3>2. frame'[u].retlen = 0
        BY <2>1, <2>3, <3>1, StartFields
      <3> QED BY <3>2, <2>1, <2>3 DEF RangeSoFar
    <2> QED BY <2>1, <2>2, <2>3
  <1>3. ASSUME NEW t \in Tasks, PageStep(t)
        PROVE  Ranges'
    <2>1. /\ frame'[t].call = frame[t].call /\ frame'[t].op \in {frame[t].op, "none"}
          /\ pc[t] = "core" /\ \A u \in Tasks : pc'[u] = "core" => u = t
      BY <1>3, PageKeeps
    <2>2. CASE WriteRange(t)
      <3>1. RangeSoFar(t, frame[t])
        BY <2>1, <2>2 DEF Ranges, WriteRange, Busy
      <3>2. RangeSoFar(t, frame[t])'
        BY <2>2, <3>1, RangeAdvance
      <3> QED BY <3>2, <2>1 DEF Ranges
    <2>3. CASE ReadRange(t) \/ ReadData(t) \/ Erase(t)
      <3>1. frame'[t].op \notin {"write", "write_oob"}
        BY <2>1, <2>3 DEF ReadRange, ReadData, Erase, Busy
      <3> QED BY <3>1, <2>1 DEF Ranges
    <2>4. CASE WriteData(t)
      <3>1. frame[t].op \in {"write_oob"} /\ ~Ranged(t)
        BY <2>4 DEF WriteData, Busy
      <3> QED BY <3>1, <2>1 DEF Ranges
    <2> QED BY <1>3, <2>2, <2>3, <2>4 DEF PageStep
  <1> QED BY <1>1, <1>2, <1>3 DEF IoNext

\* The bytes nmbm_write_range reports as written are on the flash, also when
\* a later page of the request failed.
THEOREM IoRetlenHonest == IoSpec => RetlenHonest
  <1>1. IoInit => Ranges
    BY DEF IoInit, Init, Ranges, Writing
  <1>2. BaseInv /\ Ranges /\ [IoNext]_ioVars => Ranges'
    BY RangesStep
  <1>3. BaseInv /\ Ranges /\ [IoNext]_ioVars => [RetlenStep]_ioVars
    <2> SUFFICES ASSUME BaseInv, Ranges, [IoNext]_ioVars PROVE RetlenStep
      OBVIOUS
    <2> SUFFICES ASSUME NEW t \in Tasks, Releases(t), frame[t].op \in {"write", "write_oob"},
                        Ranged(t), NEW k \in 0 .. frame[t].retlen - 1,
                        NEW a, a = frame[t].call.from + k
                 PROVE  flash[a \div WriteSize].dat[a % WriteSize]
                          = Written(t, frame[t].call, k + 1)[a \div WriteSize].dat[a % WriteSize]
      BY DEF RetlenStep
    <2>1. RangeSoFar(t, frame[t])
      BY ReleaseIs DEF Ranges, Writing
    <2>2. /\ CursorOK(frame[t]) /\ frame[t].call \in Requests /\ frame[t].len \in Nat
          /\ frame[t].retlen \in Nat
      BY FrameTypes DEF BaseInv, Cursors
    <2>3. PICK c \in Requests : c = frame[t].call
      BY <2>2
    <2>4. c.from \in Nat /\ c.len \in Nat /\ c.from + c.len <= Size /\ frame[t].retlen <= c.len
      <3>1. c.from \in Nat /\ c.len \in Nat
        BY CallTypes
      <3>2. c.from + c.len <= Size /\ frame[t].retlen + frame[t].len = c.len
        BY <2>2, <2>3 DEF CursorOK, Accepted
      <3>3. frame[t].retlen <= c.len
        BY <2>2, <3>1, <3>2
      <3> QED BY <3>1, <3>2, <3>3
    <2>5. a \in Nat /\ a < Size /\ k \in Nat
      BY <2>2, <2>3, <2>4, Geometry
    <2>6. PICK p \in Nat, i \in Nat : p = a \div WriteSize /\ i = a % WriteSize
      <3>1. a \div WriteSize \in Nat /\ a % WriteSize \in 0 .. WriteSize - 1
        BY <2>5, DivMod, Geometry
      <3>2. a % WriteSize \in Nat
        BY <3>1, Geometry
      <3> QED BY <3>1, <3>2
    <2>7. a = p * WriteSize + i /\ i \in Cols
      BY <2>5, <2>6, DivMod, Geometry DEF Cols
    <2>8. p \in Pages
      <3>1. p * WriteSize + i < PageCount * WriteSize
        BY <2>5, <2>7 DEF Size
      <3>2. p \in Int /\ PageCount \in Int /\ WriteSize \in Nat
        BY Geometry
      <3>3. p < PageCount
        BY <3>1, <3>2, TimesBelow
      <3> QED BY <3>3, Geometry DEF Pages
    <2>9. p * WriteSize + i - c.from = k
      <3>1. a - c.from = k
        BY <2>3, <2>4, <2>5
      <3>2. PICK m \in Nat : m = p * WriteSize
        BY Geometry
      <3> QED BY <3>1, <3>2, <2>4, <2>5, <2>7
    <2>10. flash[p].dat[i] = ProgramByte(before[p].dat[i], Dat(t, k))
      <3>1. DatNo(c, p, i) = k
        BY <2>9 DEF DatNo
      <3> QED BY <3>1, <2>1, <2>3, <2>7, <2>8 DEF RangeSoFar
    <2>11. Written(t, c, k + 1)[p].dat[i] = ProgramByte(before[p].dat[i], Dat(t, k))
      <3>1. k >= 0 /\ k < k + 1
        BY <2>5
      <3> QED BY <3>1, <2>7, <2>8, <2>9 DEF Written
    <2> QED BY <2>3, <2>6, <2>10, <2>11
  <1> QED BY <1>1, <1>2, <1>3, IoBase, PTL DEF IoSpec, RetlenHonest

LEMMA PagesZero ==
  ASSUME NEW per \in Nat \ {0}
  PROVE  PagesOf(0, 0, per) = 0
  <1>1. per - 1 \in 0 .. per - 1 /\ 0 + 0 + per - 1 = 0 * per + (per - 1)
    OBVIOUS
  <1>2. (0 * per + (per - 1)) \div per = 0
    BY <1>1, DivUnique
  <1> QED BY <1>1, <1>2 DEF PagesOf

LEMMA PagesNext ==
  ASSUME NEW per \in Nat \ {0}, NEW first \in Nat, first < per, NEW n \in Nat, n > 0,
         NEW d, d = Min2(per - first, n)
  PROVE  PagesOf(first, n, per) = PagesOf(0, n - d, per) + 1 /\ PagesOf(0, n - d, per) \in Nat
  <1>1. CASE d = per - first /\ n >= d
    <2>1. PICK y \in Nat : y = first + n - 1
      OBVIOUS
    <2>2. PICK q \in Nat, r \in Nat : q = y \div per /\ r = y % per
      <3>1. y \div per \in Nat /\ y % per \in 0 .. per - 1
        BY DivMod
      <3>2. y % per \in Nat
        BY <3>1
      <3> QED BY <3>1, <3>2
    <2>3. r \in 0 .. per - 1 /\ y = q * per + r
      BY <2>2, DivMod
    <2>4. PICK m \in Nat : m = q * per
      OBVIOUS
    <2>5. (q + 1) * per = m + per
      BY <2>4, TimesNext
    <2>6. first + n + per - 1 = (q + 1) * per + r
      BY <2>1, <2>3, <2>4, <2>5
    <2>7. ((q + 1) * per + r) \div per = q + 1
      <3>1. q + 1 \in Nat
        OBVIOUS
      <3> QED BY <3>1, <2>3, DivUnique
    <2>8. 0 + (n - d) + per - 1 = y
      <3>1. d \in Int /\ d = per - first
        BY <1>1
      <3> QED BY <3>1, <2>1
    <2>9. PagesOf(first, n, per) = q + 1
      <3>1. (first + n + per - 1) \div per = q + 1
        BY <2>6, <2>7, Zenon
      <3> QED BY <3>1 DEF PagesOf
    <2>10. PagesOf(0, n - d, per) = q
      <3>1. (0 + (n - d) + per - 1) \div per = q
        BY <2>2, <2>8, Zenon
      <3> QED BY <3>1 DEF PagesOf
    <2> QED BY <2>9, <2>10
  <1>2. CASE d = n /\ n < per - first
    <2>1. first + n - 1 \in 0 .. per - 1 /\ first + n + per - 1 = 1 * per + (first + n - 1)
      BY <1>2
    <2>2. (1 * per + (first + n - 1)) \div per = 1
      BY <2>1, DivUnique
    <2>3. PagesOf(first, n, per) = 1
      BY <2>1, <2>2 DEF PagesOf
    <2>4. PagesOf(0, n - d, per) = 0
      <3>1. n - d = 0
        BY <1>2
      <3> QED BY <3>1, PagesZero
    <2> QED BY <2>3, <2>4
  <1> QED BY <1>1, <1>2 DEF Min2

\* Data and OOB data that end on the same page go there together.
LEMMA TogetherNext ==
  ASSUME NEW f \in Frames, CursorOK(f), f.call.ooblen > 0, f.call.len > 0, Together(f),
         f.len > 0 \/ f.ooblen > 0
  PROVE  f.len > 0 /\ f.ooblen > 0
  <1>1. /\ f.col \in Nat /\ f.ooboffs \in Nat /\ f.len \in Nat /\ f.ooblen \in Nat
        /\ f.col < WriteSize /\ f.ooboffs < OobAvail
    BY DEF Frames, CursorOK
  <1>2. /\ f.len = 0 => f.col = 0
        /\ f.ooblen = 0 => f.ooboffs = 0
        /\ PagesOf(f.col, f.len, WriteSize) = PagesOf(f.ooboffs, f.ooblen, OobAvail)
    BY DEF Together
  <1>3. ASSUME f.len = 0, f.ooblen > 0 PROVE FALSE
    <2>1. PagesOf(f.col, f.len, WriteSize) = 0
      BY <1>2, <1>3, PagesZero, Geometry
    <2>2. PICK m \in Nat : PagesOf(f.ooboffs, f.ooblen, OobAvail) = m + 1
      BY <1>1, <1>3, PagesNext, Geometry
    <2> QED BY <2>1, <2>2, <1>2
  <1>4. ASSUME f.ooblen = 0, f.len > 0 PROVE FALSE
    <2>1. PagesOf(f.ooboffs, f.ooblen, OobAvail) = 0
      BY <1>2, <1>4, PagesZero, Geometry
    <2>2. PICK m \in Nat : PagesOf(f.col, f.len, WriteSize) = m + 1
      BY <1>1, <1>4, PagesNext, Geometry
    <2> QED BY <2>1, <2>2, <1>2
  <1> QED BY <1>1, <1>3, <1>4

LEMMA TogetherMoves ==
  ASSUME NEW f \in Frames, CursorOK(f), f.call.ooblen > 0, Together(f),
         f.len > 0 \/ f.ooblen > 0, NEW d, NEW o, DatBytes(f, d), OobBytes(f, o),
         NEW g, MovedTo(f, g, d, o)
  PROVE  Together(g)
  <1> SUFFICES ASSUME f.call.len > 0
               PROVE  /\ g.col = 0 /\ g.ooboffs = 0
                      /\ PagesOf(g.col, g.len, WriteSize) = PagesOf(g.ooboffs, g.ooblen, OobAvail)
    BY DEF Together, MovedTo
  <1>1. f.len > 0 /\ f.ooblen > 0
    BY TogetherNext
  <1>2. /\ f.col \in Nat /\ f.ooboffs \in Nat /\ f.len \in Nat /\ f.ooblen \in Nat
        /\ f.col < WriteSize /\ f.ooboffs < OobAvail
    BY DEF Frames, CursorOK
  <1>3. d \in Nat /\ d > 0 /\ o \in Nat /\ o > 0
    BY <1>1, PageBytes
  <1>4. g.col = 0 /\ g.ooboffs = 0 /\ g.len = f.len - d /\ g.ooblen = f.ooblen - o
    BY <1>3 DEF MovedTo
  <1>5. PICK m \in Nat : m = PagesOf(0, f.len - d, WriteSize) /\ PagesOf(f.col, f.len, WriteSize) = m + 1
    BY <1>1, <1>2, PagesNext, Geometry DEF DatBytes
  <1>6. PICK n \in Nat : n = PagesOf(0, f.ooblen - o, OobAvail) /\ PagesOf(f.ooboffs, f.ooblen, OobAvail) = n + 1
    <2>1. o = Min2(OobAvail - f.ooboffs, f.ooblen)
      BY <1>1, <1>2 DEF OobBytes
    <2> QED BY <2>1, <1>1, <1>2, PagesNext, Geometry
  <1>7. m + 1 = n + 1
    BY <1>5, <1>6 DEF Together
  <1> QED BY <1>4, <1>5, <1>6, <1>7

\* The last page of a range write that leaks nothing is written to its end.
LEMMA WholeTail ==
  ASSUME NEW f \in Frames, CursorOK(f), f.len > 0, (f.call.from + f.call.len) % WriteSize = 0,
         NEW d, d = Min2(WriteSize - f.col, f.len)
  PROVE  f.col + d = WriteSize
  <1>1. /\ f.page \in Nat /\ f.col \in Nat /\ f.len \in Nat /\ f.retlen \in Nat
        /\ f.col < WriteSize /\ f.call \in Requests
        /\ f.page * WriteSize + f.col = f.call.from + f.retlen
        /\ f.retlen + f.len = f.call.len
    BY DEF Frames, CursorOK
  <1>2. f.call.from \in Nat /\ f.call.len \in Nat
    BY <1>1, CallTypes
  <1>3. SUFFICES ASSUME f.len < WriteSize - f.col PROVE FALSE
    BY <1>1, Geometry DEF Min2
  <1>4. PICK m \in Nat : m = f.page * WriteSize
    BY <1>1, Geometry
  <1>5. f.call.from + f.call.len = f.page * WriteSize + (f.col + f.len)
    BY <1>1, <1>2, <1>4
  <1>6. f.col + f.len \in 0 .. WriteSize - 1
    BY <1>1, <1>3, Geometry
  <1>7. (f.page * WriteSize + (f.col + f.len)) % WriteSize = f.col + f.len
    BY <1>1, <1>6, Geometry, DivUnique
  <1>8. f.col + f.len = 0
    BY <1>5, <1>7, Zenon
  <1> QED BY <1>1, <1>8

WriteSoFar(t) ==
  /\ DatSoFar(t, frame[t].call, frame[t].retlen)
  /\ OobSoFar(t, frame[t].call, OobDone(frame[t]))
  /\ ~Ranged(t) => Together(frame[t])

LEMMA WriteRangeExact ==
  ASSUME BaseInv, NEW t \in Tasks, WriteRange(t), frame'[t].ret = "ok",
         ~Leaks(frame[t].call), WriteSoFar(t)
  PROVE  WriteSoFar(t)'
  <1>1. Busy(t, {"write", "write_oob"}) /\ Ranged(t) /\ Left(t) /\ before' = before
    BY DEF WriteRange
  <1>2. PICK f \in Frames : f = frame[t]
    BY FrameTypes DEF BaseInv
  <1>3. /\ CursorOK(f) /\ f.page \in Pages /\ f.ooblen = 0 /\ f.op = f.call.op
        /\ f.op \in {"write", "write_oob"} /\ f.call \in Requests /\ DatBytes(f, DataLen(t))
        /\ OobPart(t) = 0
    BY <1>1, <1>2, AtPage DEF BaseInv, Requests, OobPart
  <1>4. f.len > 0 /\ f.len \in Nat /\ f.retlen \in Nat /\ f.col \in Nat
    BY <1>1, <1>2, <1>3, FrameTypes DEF Left, BaseInv
  <1>5. PICK d : d = DataLen(t)
    OBVIOUS
  <1>6. d \in Nat /\ f.col + d <= WriteSize
    BY <1>1, <1>2, <1>5, AtPart DEF BaseInv
  <1>7. f.col + d = WriteSize
    <2>1. f.call.op = "write" \/ f.call.ooblen = 0
      BY <1>1, <1>2, <1>3 DEF Ranged
    <2>2. (f.call.from + f.call.len) % WriteSize = 0
      BY <2>1, <1>2 DEF Leaks
    <2> QED BY <2>2, <1>3, <1>4, <1>5, WholeTail DEF DatBytes
  <1>8. PICK g \in Frames :
          /\ frame' = [frame EXCEPT ![t] = g]
          /\ \/ MovedTo(f, g, d, 0) /\ flash' = Programmed(t, RangePage(t), Blank.oob)
             \/ Stays(f, g)
    BY <1>2, <1>3, <1>5, WriteRangeShape DEF BaseInv
  <1>9. frame'[t] = g
    BY <1>8 DEF BaseInv, IoTypeOK
  <1>10. /\ flash' = Programmed(t, RangePage(t), Blank.oob)
         /\ g.call = f.call /\ g.retlen = f.retlen + d /\ g.ooblen = f.ooblen - 0
    <2>1. ~Stays(f, g)
      BY <1>9 DEF Stays
    <2> QED BY <2>1, <1>8 DEF MovedTo
  <1>11. \A p \in Pages, i \in Cols :
           flash'[p].dat[i]
             = IF DatNo(f.call, p, i) \in 0 .. (f.retlen + d) - 1
               THEN ProgramByte(before[p].dat[i], Dat(t, DatNo(f.call, p, i)))
               ELSE before[p].dat[i]
    <2>1. \A i \in Cols : RangePage(t)[i] = IF i >= f.col /\ i < f.col + d
                                  THEN Dat(t, f.retlen + i - f.col) ELSE FF
      <3> TAKE i \in Cols
      <3>1. /\ i < f.col => RangePage(t)[i] = FF
            /\ i >= f.col /\ i < f.col + d => RangePage(t)[i] = Dat(t, f.retlen + i - f.col)
        BY <1>1, <1>2, <1>5, RangePageAt
      <3>2. i \in Int /\ i < f.col + d
        BY <1>7, Geometry DEF Cols
      <3>3. i < f.col \/ i >= f.col
        BY <3>2, <1>4
      <3> QED BY <3>1, <3>2, <3>3
    <2>2. DatSoFar(t, f.call, f.retlen)
      BY <1>2 DEF WriteSoFar
    <2> QED BY <2>1, <2>2, <1>2, <1>3, <1>4, <1>6, <1>10, DatAdvance
  <1>12. \A p \in Pages, i \in Oobs : flash'[p].oob[i] = flash[p].oob[i]
    BY <1>2, <1>3, <1>10, ProgrammedAt, ByteTypes DEF Blank
  <1>13. OobDone(g) = OobDone(f)
    BY <1>3, <1>10 DEF OobDone
  <1>14. OobSoFar(t, f.call, OobDone(f))
    BY <1>2 DEF WriteSoFar
  <1>15. Ranged(t)'
    BY <1>1, <1>2, <1>9, <1>10 DEF Ranged
  <1>16. DatSoFar(t, frame[t].call, frame[t].retlen)'
    <2>1. frame'[t].call = f.call /\ frame'[t].retlen = f.retlen + d
      BY <1>9, <1>10
    <2> QED BY <2>1, <1>1, <1>11 DEF DatSoFar
  <1>17. OobSoFar(t, frame[t].call, OobDone(frame[t]))'
    <2>1. OobDone(frame[t])' = OobDone(f)
      BY <1>9, <1>13 DEF OobDone
    <2> QED BY <2>1, <1>1, <1>9, <1>10, <1>12, <1>14 DEF OobSoFar, OobNo
  <1> QED BY <1>15, <1>16, <1>17 DEF WriteSoFar

LEMMA WriteDataExact ==
  ASSUME BaseInv, NEW t \in Tasks, WriteData(t), frame'[t].ret = "ok", WriteSoFar(t)
  PROVE  WriteSoFar(t)'
  <1>1. Busy(t, {"write_oob"}) /\ ~Ranged(t) /\ Left(t) /\ before' = before
    BY DEF WriteData
  <1>2. PICK f \in Frames : f = frame[t]
    BY FrameTypes DEF BaseInv
  <1>3. /\ CursorOK(f) /\ f.page \in Pages /\ f.call \in Requests
        /\ DatBytes(f, DataLen(t)) /\ OobBytes(f, OobLen(t)) /\ f.call.ooblen > 0
        /\ OobPart(t) = OobLen(t) /\ Together(f)
    BY <1>1, <1>2, AtPage DEF BaseInv, Requests, OobPart, WriteSoFar
  <1>4. /\ f.len \in Nat /\ f.retlen \in Nat /\ f.col \in Nat /\ f.ooblen \in Nat
        /\ f.ooboffs \in Nat /\ f.retlen + f.len = f.call.len
    BY <1>3 DEF Frames, CursorOK
  <1>5. f.call.len \in Nat /\ f.call.ooblen \in Nat
    BY <1>3, CallTypes
  <1>6. f.len > 0 \/ f.ooblen > 0
    BY <1>1, <1>2 DEF Left
  <1>7. f.ooblen > 0 /\ (f.call.len > 0 => f.len > 0)
    <2>1. CASE f.call.len > 0
      BY <2>1, <1>3, <1>6, TogetherNext
    <2>2. CASE f.call.len = 0
      BY <2>2, <1>4, <1>6
    <2> QED BY <2>1, <2>2, <1>5
  <1>8. PICK d, o : d = DataLen(t) /\ o = OobLen(t)
    OBVIOUS
  <1>9. /\ d \in Nat /\ f.col + d <= WriteSize /\ d <= f.len
        /\ o \in Nat /\ f.ooboffs + o <= OobAvail
    BY <1>3, <1>7, <1>8, PageBytes
  <1>10. PICK g \in Frames :
          /\ frame' = [frame EXCEPT ![t] = g]
          /\ MovedTo(f, g, d, o)
          /\ g.ret = "ok" => flash' = Programmed(t, DataPage(t), Filled(t).oob)
    BY <1>2, <1>3, <1>8, WriteDataShape DEF BaseInv
  <1>11. frame'[t] = g
    BY <1>10 DEF BaseInv, IoTypeOK
  <1>12. /\ flash' = Programmed(t, DataPage(t), Filled(t).oob)
         /\ g.call = f.call /\ g.retlen = f.retlen + d /\ g.ooblen = f.ooblen - o
    BY <1>10, <1>11 DEF MovedTo
  <1>13. DatSoFar(t, f.call, f.retlen) /\ OobSoFar(t, f.call, OobDone(f))
    BY <1>2 DEF WriteSoFar
  <1>14. \A p \in Pages, i \in Cols :
           flash'[p].dat[i]
             = IF DatNo(f.call, p, i) \in 0 .. (f.retlen + d) - 1
               THEN ProgramByte(before[p].dat[i], Dat(t, DatNo(f.call, p, i)))
               ELSE before[p].dat[i]
    <2>1. CASE f.call.len > 0
      <3>1. f.len > 0 /\ f.len # 0
        BY <2>1, <1>7, <1>4
      <3>2. \A i \in Cols : DataPage(t)[i] = IF i >= f.col /\ i < f.col + d
                                    THEN Dat(t, f.retlen + i - f.col) ELSE FF
        BY <2>1, <3>1, <1>2, <1>8 DEF DataPage, Filled
      <3> QED BY <3>1, <3>2, <1>2, <1>3, <1>9, <1>12, <1>13, DatAdvance
    <2>2. CASE f.call.len = 0
      <3>1. d = 0 /\ f.retlen = 0
        BY <2>2, <1>4, <1>9
      <3>2. DataPage(t) = Blank.dat
        BY <2>2, <1>2 DEF DataPage
      <3>3. \A p \in Pages, i \in Cols : flash'[p].dat[i] = flash[p].dat[i]
        BY <3>2, <1>2, <1>3, <1>12, ProgrammedAt, ByteTypes DEF Blank
      <3>4. f.retlen + d = f.retlen
        BY <3>1
      <3>5. DatSoFar(t, f.call, f.retlen + d)
        BY <3>4, <1>13
      <3> QED BY <3>3, <3>5 DEF DatSoFar
    <2> QED BY <2>1, <2>2, <1>5
  <1>15. \A p \in Pages, i \in Oobs :
           flash'[p].oob[i]
             = IF OobNo(f.call, p, i) \in 0 .. (OobDone(f) + o) - 1
               THEN ProgramByte(before[p].oob[i], Oob(t, OobNo(f.call, p, i)))
               ELSE before[p].oob[i]
    <2>1. f.ooblen # 0
      BY <1>4, <1>7
    <2>2. \A i \in Oobs : Filled(t).oob[i] = IF i >= f.ooboffs /\ i < f.ooboffs + o
                                  THEN Oob(t, OobDone(f) + i - f.ooboffs) ELSE FF
      BY <2>1, <1>2, <1>8 DEF Filled, OobDone
    <2> QED BY <2>2, <1>2, <1>3, <1>7, <1>9, <1>12, <1>13, OobAdvance
  <1>16. OobDone(g) = OobDone(f) + o
    BY <1>4, <1>5, <1>9, <1>12 DEF OobDone
  <1>17. Together(g)
    BY <1>3, <1>6, <1>8, <1>10, TogetherMoves
  <1>18. DatSoFar(t, frame[t].call, frame[t].retlen)'
    <2>1. frame'[t].call = f.call /\ frame'[t].retlen = f.retlen + d
      BY <1>11, <1>12
    <2> QED BY <2>1, <1>1, <1>14 DEF DatSoFar
  <1>19. OobSoFar(t, frame[t].call, OobDone(frame[t]))'
    <2>1. OobDone(frame[t])' = OobDone(f) + o
      BY <1>11, <1>16 DEF OobDone
    <2>2. frame'[t].call = f.call
      BY <1>11, <1>12
    <2> QED BY <2>1, <2>2, <1>1, <1>15 DEF OobSoFar
  <1>20. Together(frame[t])'
    BY <1>11, <1>17 DEF Together, PagesOf
  <1> QED BY <1>18, <1>19, <1>20 DEF WriteSoFar

LEMMA WritesStep ==
  ASSUME BaseInv, Writes, [IoNext]_ioVars
  PROVE  Writes'
  <1> USE DEF Writing
  <1>0. Writes <=> \A t \in Tasks :
          Writing(t) /\ frame[t].ret = "ok" /\ ~Leaks(frame[t].call) => WriteSoFar(t)
    BY DEF Writes, WriteSoFar
  <1>1. CASE UNCHANGED ioVars
    BY <1>1 DEF ioVars, vars, io, Writes, DatSoFar, OobSoFar, DatNo, OobNo, OobDone, Leaks,
                Together, PagesOf, Ranged
  <1>2. ASSUME NEW t \in Tasks,
               (\E c \in Calls : IoCall(t, c)) \/ LockStep(t) \/ Grant(t) \/ Release(t)
        PROVE  Writes'
    <2> SUFFICES ASSUME NEW u \in Tasks, Writing(u)', frame'[u].ret = "ok",
                        ~Leaks(frame'[u].call)
                 PROVE  WriteSoFar(u)'
      BY DEF Writes, WriteSoFar, Leaks, PagesOf
    <2>1. /\ flash' = flash /\ frame'[u] = frame[u]
          /\ \/ pc[u] = "core" /\ before' = before
             \/ frame[u] = Frame(frame[u].call) /\ before' = flash
      BY <1>2, QuietStep
    <2>2. CASE pc[u] = "core" /\ before' = before
      <3>1. WriteSoFar(u)
        BY <2>1, <2>2, <1>0
      <3> QED BY <3>1, <2>1, <2>2 DEF WriteSoFar, DatSoFar, OobSoFar, DatNo, OobNo, OobDone,
                                      Together, PagesOf, Ranged
    <2>3. CASE frame[u] = Frame(frame[u].call) /\ before' = flash
      <3>1. PICK f \in Frames : f = frame[u]
        BY FrameTypes DEF BaseInv
      <3>2. f.call \in Requests /\ f = Frame(f.call) /\ frame'[u] = f
        BY <2>1, <2>3, <3>1 DEF Frames
      <3>3. /\ f.retlen = 0 /\ OobDone(f) = 0 /\ f.len = f.call.len /\ f.ooblen = f.call.ooblen
            /\ f.ooboffs = f.call.ooboffs /\ f.col = f.call.from % WriteSize
        BY <3>2, StartFields
      <3>4. OobDone(frame[u])' = 0
        BY <3>2, <3>3 DEF OobDone
      <3>5. DatSoFar(u, frame[u].call, frame[u].retlen)'
        BY <3>2, <3>3, <2>1, <2>3 DEF DatSoFar
      <3>6. OobSoFar(u, frame[u].call, OobDone(frame[u]))'
        BY <3>4, <2>1, <2>3 DEF OobSoFar
      <3>7. ~Ranged(u)' => Together(frame[u])'
        <4> SUFFICES ASSUME ~Ranged(u)', f.call.len > 0 PROVE Together(frame[u])'
          BY <3>2 DEF Together
        <4>1. f.call.op # "write" /\ f.call.ooblen # 0
          BY <3>2 DEF Ranged
        <4>2. PagesOf(f.col, f.len, WriteSize) = PagesOf(f.ooboffs, f.ooblen, OobAvail)
          BY <4>1, <3>2, <3>3 DEF Leaks
        <4>3. f.len # 0 /\ f.ooblen # 0
          BY <4>1, <3>2, <3>3, CallTypes
        <4> QED BY <4>2, <4>3, <3>2 DEF Together, PagesOf
      <3> QED BY <3>5, <3>6, <3>7 DEF WriteSoFar
    <2> QED BY <2>1, <2>2, <2>3
  <1>3. ASSUME NEW t \in Tasks, PageStep(t)
        PROVE  Writes'
    <2>1. /\ frame'[t].call = frame[t].call /\ frame'[t].op \in {frame[t].op, "none"}
          /\ pc[t] = "core" /\ \A u \in Tasks : pc'[u] = "core" => u = t
      BY <1>3, PageKeeps
    <2>2. SUFFICES ASSUME Writing(t)', frame'[t].ret = "ok", ~Leaks(frame'[t].call)
                   PROVE  WriteSoFar(t)'
      BY <2>1 DEF Writes, WriteSoFar, Leaks, PagesOf
    <2>3. frame[t].op \in {"write", "write_oob"} /\ frame[t].ret = "ok"
      BY <2>1, <2>2, <1>3 DEF PageStep, ReadRange, WriteRange, ReadData, WriteData, Erase, Busy
    <2>4. WriteSoFar(t) /\ ~Leaks(frame[t].call)
      BY <2>1, <2>2, <2>3, <1>0
    <2>5. CASE WriteRange(t)
      BY <2>2, <2>4, <2>5, WriteRangeExact
    <2>6. CASE WriteData(t)
      BY <2>2, <2>4, <2>6, WriteDataExact
    <2>7. CASE ReadRange(t) \/ ReadData(t) \/ Erase(t)
      BY <2>3, <2>7 DEF ReadRange, ReadData, Erase, Busy
    <2> QED BY <1>3, <2>5, <2>6, <2>7 DEF PageStep
  <1> QED BY <1>1, <1>2, <1>3 DEF IoNext

\* A write that returns success, and whose last pages are filled, has put the
\* bytes of its request into their places and touched nothing else, whatever
\* earlier requests left in the two caches, for every geometry and request.
THEOREM IoWriteExact == IoSpec => WriteExact
  <1>1. IoInit => Writes
    BY DEF IoInit, Init, Writes, Writing
  <1>2. BaseInv /\ Writes /\ [IoNext]_ioVars => Writes'
    BY WritesStep
  <1>3. BaseInv /\ Writes /\ [IoNext]_ioVars => [WriteStep]_ioVars
    <2> SUFFICES ASSUME BaseInv, Writes, [IoNext]_ioVars PROVE WriteStep
      OBVIOUS
    <2> SUFFICES ASSUME NEW t \in Tasks, Releases(t), frame[t].op \in {"write", "write_oob"},
                        frame[t].ret = "ok", ~Leaks(frame[t].call)
                 PROVE  flash = Written(t, frame[t].call, frame[t].call.len)
      BY DEF WriteStep
    <2>1. pc[t] = "core" /\ Finished(t)
      BY ReleaseIs
    <2>2. ~Left(t)
      BY <2>1 DEF Finished
    <2>3. /\ CursorOK(frame[t]) /\ frame[t].call \in Requests /\ frame[t].len \in Nat
          /\ frame[t].ooblen \in Nat /\ frame[t].retlen \in Nat
      BY FrameTypes DEF BaseInv, Cursors
    <2>4. PICK c \in Requests : c = frame[t].call
      BY <2>3
    <2>5. /\ c.len \in Nat /\ c.ooblen \in Nat /\ c.from \in Nat /\ c.ooboffs \in Nat
          /\ c.from \div WriteSize \in Nat
      BY CallTypes
    <2>6. frame[t].retlen = c.len /\ OobDone(frame[t]) = c.ooblen
      BY <2>2, <2>3, <2>4, <2>5 DEF CursorOK, OobDone, Left
    <2>7. DatSoFar(t, c, c.len) /\ OobSoFar(t, c, c.ooblen)
      BY <2>1, <2>4, <2>6 DEF Writes, Writing
    <2>8. flash \in [Pages -> PageSet]
      BY DEF BaseInv, IoTypeOK
    <2>9. \A p \in Pages : flash[p] = Written(t, c, c.len)[p]
      <3> TAKE p \in Pages
      <3>1. PICK w : w = Written(t, c, c.len)[p]
        OBVIOUS
      <3>2. w = [dat |-> w.dat, oob |-> w.oob] /\ w.dat = [i \in Cols |-> w.dat[i]]
            /\ w.oob = [i \in Oobs |-> w.oob[i]]
        BY <3>1 DEF Written
      <3>3. /\ flash[p] = [dat |-> flash[p].dat, oob |-> flash[p].oob]
            /\ flash[p].dat = [i \in Cols |-> flash[p].dat[i]]
            /\ flash[p].oob = [i \in Oobs |-> flash[p].oob[i]]
        BY <2>8 DEF PageSet
      <3>4. \A i \in Cols : flash[p].dat[i] = w.dat[i]
        <4> TAKE i \in Cols
        <4>1. p \in Int /\ i \in Int
          BY Geometry DEF Pages, Cols
        <4>2. PICK n \in Int : n = p * WriteSize + i - c.from
          BY <4>1, <2>5, Geometry
        <4>3. n \in 0 .. c.len - 1 <=> (n >= 0 /\ n < c.len)
          BY <2>5
        <4>4. flash[p].dat[i] = IF n >= 0 /\ n < c.len THEN ProgramByte(before[p].dat[i], Dat(t, n))
                                ELSE before[p].dat[i]
          BY <4>2, <4>3, <2>7 DEF DatSoFar, DatNo
        <4>5. w.dat[i] = IF n >= 0 /\ n < c.len THEN ProgramByte(before[p].dat[i], Dat(t, n))
                         ELSE before[p].dat[i]
          BY <4>2, <3>1 DEF Written
        <4> QED BY <4>4, <4>5
      <3>5. \A i \in Oobs : flash[p].oob[i] = w.oob[i]
        <4> TAKE i \in Oobs
        <4>1. p \in Int /\ i \in Int
          BY Geometry DEF Pages, Oobs
        <4>2. PICK n \in Int : n = (p - c.from \div WriteSize) * OobAvail + i - c.ooboffs
          BY <4>1, <2>5, Geometry
        <4>3. n \in 0 .. c.ooblen - 1 <=> (n >= 0 /\ n < c.ooblen)
          BY <2>5
        <4>4. flash[p].oob[i] = IF n >= 0 /\ n < c.ooblen THEN ProgramByte(before[p].oob[i], Oob(t, n))
                                ELSE before[p].oob[i]
          BY <4>2, <4>3, <2>7 DEF OobSoFar, OobNo
        <4>5. w.oob[i] = IF n >= 0 /\ n < c.ooblen THEN ProgramByte(before[p].oob[i], Oob(t, n))
                         ELSE before[p].oob[i]
          BY <4>2, <3>1 DEF Written
        <4> QED BY <4>4, <4>5
      <3>6. flash[p].dat = w.dat /\ flash[p].oob = w.oob
        BY <3>2, <3>3, <3>4, <3>5
      <3> QED BY <3>1, <3>2, <3>3, <3>6
    <2>10. Written(t, c, c.len) = [p \in Pages |-> Written(t, c, c.len)[p]]
      BY DEF Written
    <2> QED BY <2>4, <2>8, <2>9, <2>10
  <1> QED BY <1>1, <1>2, <1>3, IoBase, PTL DEF IoSpec, WriteExact

\* The whole inductive invariant: at every moment the cursors of nm's read and
\* write loops stand where the bytes gone over end, the reader's buffers hold
\* exactly these bytes, and the flash differs from what it was by them.
THEOREM IoInductive == IoSpec => []IoInv
  <1>1. IoInit => Reads /\ Ranges /\ Writes
    BY DEF IoInit, Init, Reads, Ranges, Writes, Writing
  <1>2. IoInv /\ [IoNext]_ioVars => Reads' /\ Ranges' /\ Writes'
    BY ReadsStep, RangesStep, WritesStep DEF IoInv
  <1>3. IoInv <=> BaseInv /\ Reads /\ Ranges /\ Writes
    BY DEF IoInv
  <1> QED BY <1>1, <1>2, <1>3, IoBase, PTL DEF IoSpec
=============================================================================
