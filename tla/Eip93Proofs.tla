---------------------------- MODULE Eip93Proofs ----------------------------
(* The EIP-93 driver's rings and counts, for any ring size, any queue      *)
(* length and requests of any number of descriptors.                       *)
EXTENDS Eip93, FiniteSetTheorems, TLAPS

-----------------------------------------------------------------------------
(* The inductive invariant, in layers.                                     *)

\* The slots from p up to i, going round the ring.
Ahead(p, i) == IF i >= p THEN i - p ELSE i - p + RingSize

Occupied    == Ahead(cdr.read, cdr.write)
InRing(i)   == i \in Slots /\ Ahead(cdr.read, i) < Occupied
\* A descriptor in the ring that the engine has, or has not, finished.
Finished(i) == InRing(i) /\ Ahead(cdr.read, i) < Ahead(cdr.read, hw.pos)
Pending(i)  == InRing(i) /\ Ahead(cdr.read, i) >= Ahead(cdr.read, hw.pos)

Sending  == worker.pc \in {"send", "oops"}
Queued(r) == \E k \in DOMAIN queue : queue[k] = r

\* The frames of worker and thread between their critical sections.
WorkerFrame ==
  /\ ~Sending => worker.ndesc = 0
  /\ worker.pc = "idle" => worker.cdesc = 0
  /\ Sending => worker.req \in Reqs /\ worker.left >= 1

ThreadFrame ==
  /\ thread.pc # "result" => thread.ndesc = 0 /\ ~thread.complete /\ thread.ret = "ok"
  /\ thread.pc = "idle" => thread.handled = 0 /\ thread.tot = 0
  /\ thread.pc = "left" => thread.tot = 0
  /\ thread.pc \in {"get", "result"} => thread.left >= 1
  /\ thread.pc = "result" => thread.req \in Reqs

\* The engine's counters against the ring, as long as the driver has not lost
\* count: what is not finished is not yet kicked or still to do, and what is
\* finished and not consumed will be acknowledged.
Counts ==
  /\ Occupied = hw.cd + worker.cdesc + worker.ndesc + Ahead(cdr.read, hw.pos)
  /\ Ahead(cdr.read, hw.pos) = hw.rd - thread.tot - thread.ndesc
  /\ thread.tot <= thread.handled /\ thread.ndesc <= 1
  /\ thread.pc \in {"get", "result"} => thread.tot + thread.left <= hw.rd
  /\ thread.pc = "result" => thread.limit >= 1
  /\ busy <=> requests # 0

\* Every request is in one place: queue, worker, ring or thread.
Places ==
  /\ \A k \in DOMAIN queue : state[queue[k]] # "idle"
  /\ \A k, l \in DOMAIN queue : queue[k] = queue[l] => k = l
  /\ Sending => state[worker.req] = "queued" /\ ~Queued(worker.req)
  /\ \A i \in Slots : InRing(i) =>
       buf[i].req \in Reqs /\ state[buf[i].req] = "queued" /\ ~Queued(buf[i].req)
  /\ thread.pc = "result" => state[thread.req] = "queued" /\ ~Queued(thread.req)

\* The descriptor with the `last' flag is the last one of its request.
LastIsLast ==
  /\ \A i \in Slots : InRing(i) /\ buf[i].last /\ Sending => buf[i].req # worker.req
  /\ \A i, j \in Slots : InRing(i) /\ InRing(j) /\ buf[i].last
                          /\ Ahead(cdr.read, i) < Ahead(cdr.read, j)
                          => buf[i].req # buf[j].req
  /\ thread.pc = "result" /\ thread.ndesc = 0 =>
       buf[cdr.read].req = thread.req /\ ~thread.complete
  /\ thread.pc = "result" /\ thread.complete =>
       /\ thread.ndesc = 1
       /\ Sending => worker.req # thread.req
       /\ \A i \in Slots : InRing(i) => buf[i].req # thread.req

\* Who still waits behind the queue's limit.
Backlog ==
  /\ \A k \in DOMAIN queue : state[queue[k]] = "backlog" =>
       k > QueueLen \/ (Sending /\ queue[k] = worker.backlog)
  /\ Sending /\ worker.backlog # NoReq =>
       Len(queue) >= QueueLen /\ queue[QueueLen] = worker.backlog

PendingOf(r) == {i \in Slots : Pending(i) /\ buf[i].req = r}

\* Every descriptor of a request is done, in the ring or still to be written.
Descriptors ==
  \A r \in Reqs :
    IF state[r] = "idle"
    THEN done[r] = 0
    ELSE need[r] = done[r] + Cardinality(PendingOf(r))
                   + (IF Sending /\ worker.req = r THEN worker.left ELSE 0)
                   + (IF Queued(r) THEN need[r] ELSE 0)

\* What is known of a failure: nothing before the first descriptor is done,
\* then the result descriptor of a request of one descriptor.
Errors ==
  /\ \A r \in Reqs : done[r] = 0 => ~failed[r]
  /\ \A i \in Slots : Finished(i) =>
       /\ done[buf[i].req] >= 1
       /\ need[buf[i].req] = 1 => (result[i] = "err" <=> failed[buf[i].req])
  /\ thread.pc = "result" /\ thread.ndesc = 0 => thread.ret = "ok"
  /\ thread.pc = "result" /\ thread.complete /\ need[thread.req] = 1 =>
       (thread.ret = "err" <=> failed[thread.req])

Contents == Places /\ LastIsLast /\ Backlog /\ Descriptors /\ Errors

\* Accounting, without the remainder.
Balance == rdr = cdr /\ requests + Uncommitted - Unsubtracted = Occupied

Base == TypeOK /\ Balance /\ WorkerFrame /\ ThreadFrame
IInv == Base /\ (~merged => Counts /\ Contents)

-----------------------------------------------------------------------------
(* The ring's arithmetic.                                                  *)

LEMMA Next1Is ==
  ASSUME NEW i \in Slots
  PROVE  Next1(i) \in Slots /\ Next1(i) = IF i = RingSize - 1 THEN 0 ELSE i + 1
  BY Eip93Assumption DEF Next1, Slots

LEMMA AheadIs ==
  ASSUME NEW p \in Slots, NEW i \in Slots
  PROVE  (i - p) % RingSize = Ahead(p, i) /\ Ahead(p, i) \in Slots
  BY Eip93Assumption DEF Ahead, Slots

\* A step of the write pointer makes room for one descriptor more.
LEMMA PushIs ==
  ASSUME NEW c \in Pointers
  PROVE  /\ Push(c) \in Pointers /\ Push(c).read = c.read /\ Push(c).write = Next1(c.write)
         /\ ~RingFull(c) => Ahead(c.read, Next1(c.write)) = Ahead(c.read, c.write) + 1
  <1>1. Push(c) \in Pointers /\ Push(c).read = c.read /\ Push(c).write = Next1(c.write)
    BY Next1Is DEF Push, Pointers
  <1>2. ~RingFull(c) => Ahead(c.read, Next1(c.write)) = Ahead(c.read, c.write) + 1
    BY Next1Is, Eip93Assumption DEF Pointers, RingFull, Ahead, Slots
  <1> QED BY <1>1, <1>2

\* A step of the read pointer gives one up.
LEMMA PopIs ==
  ASSUME NEW c \in Pointers
  PROVE  /\ Pop(c) \in Pointers /\ Pop(c).write = c.write /\ Pop(c).read = Next1(c.read)
         /\ ~RingEmpty(c) => Ahead(Next1(c.read), c.write) = Ahead(c.read, c.write) - 1
  <1>1. Pop(c) \in Pointers /\ Pop(c).write = c.write /\ Pop(c).read = Next1(c.read)
    BY Next1Is DEF Pop, Pointers
  <1>2. ~RingEmpty(c) => Ahead(Next1(c.read), c.write) = Ahead(c.read, c.write) - 1
    BY Next1Is, Eip93Assumption DEF Pointers, RingEmpty, Ahead, Slots
  <1> QED BY <1>1, <1>2

-----------------------------------------------------------------------------
(* Types, frames and the accounting.                                       *)

USE DEF ring, client, bounds

LEMMA AccountingIs == Base => Accounting /\ Occupied \in Slots
  <1> SUFFICES ASSUME Base PROVE Accounting /\ Occupied \in Slots
    OBVIOUS
  <1>1. cdr.read \in Slots /\ cdr.write \in Slots
    BY DEF Base, TypeOK, Pointers
  <1> QED BY <1>1, AheadIs DEF Base, Balance, Accounting, Occupied

LEMMA Types ==
  Base => /\ worker \in WorkerFrames /\ thread \in ThreadFrames /\ hw \in Engines
          /\ cdr \in Pointers /\ rdr = cdr /\ requests \in Int
          /\ Occupied \in Nat
  BY AccountingIs DEF Base, TypeOK, Balance, Slots

LEMMA FrameTypes ==
  NoWorker \in WorkerFrames /\ NoThread \in ThreadFrames
  BY DEF NoWorker, WorkerFrames, NoThread, ThreadFrames

LEMMA InitBase == Init => Base
  <1> SUFFICES ASSUME Init PROVE Base
    OBVIOUS
  <1>1. hw \in Engines /\ cdr \in Pointers /\ rdr \in Pointers
    BY Eip93Assumption DEF Init, Engines, Pointers, Slots
  <1>2. TypeOK
    <2>1. /\ result \in [Slots -> {"none", "ok", "err"}]
          /\ buf \in [Slots -> [req : Reqs \cup {NoReq}, last : BOOLEAN]]
          /\ queue \in Seq(Reqs)
      BY DEF Init
    <2>2. /\ state \in [Reqs -> {"idle", "queued", "backlog"}]
          /\ need \in [Reqs -> 1 .. MaxDesc]
          /\ done \in [Reqs -> Nat] /\ failed \in [Reqs -> BOOLEAN]
      BY Eip93Assumption DEF Init
    <2>3. pending \in BOOLEAN /\ busy \in BOOLEAN /\ merged \in BOOLEAN
      BY DEF Init
    <2>4. requests \in Int /\ submits \in Nat /\ errs \in Nat
      BY DEF Init
    <2>5. worker \in WorkerFrames /\ thread \in ThreadFrames
      BY FrameTypes DEF Init
    <2> QED BY <1>1, <2>1, <2>2, <2>3, <2>4, <2>5 DEF TypeOK
  <1>3. Balance
    BY Eip93Assumption DEF Init, Balance, Occupied, Ahead, Uncommitted, Unsubtracted,
                           NoWorker, NoThread
  <1>4. WorkerFrame /\ ThreadFrame
    BY DEF Init, WorkerFrame, ThreadFrame, Sending, NoWorker, NoThread
  <1> QED BY <1>2, <1>3, <1>4 DEF Base

LEMMA SubmitBase ==
  ASSUME Base, NEW r \in Reqs, Submit(r)
  PROVE  Base'
  <1>1. TypeOK'
    <2>1. queue' \in Seq(Reqs)
      <3>1. queue' = queue \/ queue' = Append(queue, r)
        BY DEF Submit
      <3>2. queue \in Seq(Reqs)
        BY DEF Base, TypeOK
      <3> QED BY <3>1, <3>2
    <2>2. state' \in [Reqs -> {"idle", "queued", "backlog"}]
          /\ need' \in [Reqs -> 1 .. MaxDesc] /\ done' = done /\ failed' = failed
      BY DEF Base, TypeOK, Submit
    <2> QED BY <2>1, <2>2 DEF Base, TypeOK, Submit
  <1>2. Balance'
    BY DEF Base, Balance, Occupied, Uncommitted, Unsubtracted, Submit
  <1>3. WorkerFrame' /\ ThreadFrame'
    BY DEF Base, WorkerFrame, ThreadFrame, Sending, Submit
  <1> QED BY <1>1, <1>2, <1>3 DEF Base

LEMMA WorkStartBase ==
  ASSUME Base, WorkStart
  PROVE  Base'
  <1>1. worker' \in WorkerFrames
    BY DEF WorkStart, NoWorker, WorkerFrames
  <1>2. TypeOK'
    BY <1>1 DEF Base, TypeOK, WorkStart
  <1>3. Balance'
    BY DEF Base, TypeOK, WorkerFrames, Balance, Occupied, Uncommitted, Unsubtracted, WorkStart, NoWorker
  <1>4. WorkerFrame' /\ ThreadFrame'
    BY DEF Base, WorkerFrame, ThreadFrame, Sending, WorkStart, NoWorker
  <1> QED BY <1>2, <1>3, <1>4 DEF Base

LEMMA DequeueBase ==
  ASSUME Base, Dequeue
  PROVE  Base'
  <1>1. CASE queue = <<>>
    <2>1. worker' \in WorkerFrames
      BY <1>1 DEF Base, TypeOK, Dequeue, WorkerFrames
    <2>2. TypeOK'
      BY <1>1, <2>1 DEF Base, TypeOK, Dequeue
    <2>3. Balance'
      BY <1>1 DEF Base, TypeOK, WorkerFrames, Balance, Occupied, Uncommitted, Unsubtracted, Dequeue
    <2>4. WorkerFrame' /\ ThreadFrame'
      BY <1>1 DEF Base, TypeOK, WorkerFrames, WorkerFrame, ThreadFrame, Sending, Dequeue
    <2> QED BY <2>2, <2>3, <2>4 DEF Base
  <1>2. CASE queue # <<>>
    <2> DEFINE b == IF Len(queue) > QueueLen THEN queue[QueueLen + 1] ELSE NoReq
    <2>1. /\ Head(queue) \in Reqs /\ Tail(queue) \in Seq(Reqs)
          /\ b \in Reqs \cup {NoReq}
          /\ need[Head(queue)] \in Nat \ {0}
      BY <1>2, Eip93Assumption DEF Base, TypeOK
    <2>2. worker' = [worker EXCEPT !.pc = "send", !.req = Head(queue),
                       !.left = need[Head(queue)], !.backlog = b]
      BY <1>2 DEF Dequeue
    <2> HIDE DEF b
    <2>3. worker' \in WorkerFrames
      BY <2>1, <2>2 DEF Base, TypeOK, WorkerFrames
    <2>4. TypeOK'
      BY <1>2, <2>1, <2>3 DEF Base, TypeOK, Dequeue
    <2>5. Balance'
      BY <1>2, <2>2 DEF Base, TypeOK, WorkerFrames, Balance, Occupied, Uncommitted, Unsubtracted, Dequeue
    <2>6. WorkerFrame'
      BY <2>1, <2>2 DEF Base, TypeOK, WorkerFrames, WorkerFrame, Sending
    <2>7. ThreadFrame'
      BY DEF Base, ThreadFrame, Dequeue
    <2> QED BY <2>4, <2>5, <2>6, <2>7 DEF Base
  <1> QED BY <1>1, <1>2

LEMMA AddDescBase ==
  ASSUME Base, AddDesc
  PROVE  Base'
  <1> USE DEF Base
  <1>0. cdr \in Pointers /\ rdr = cdr
    BY DEF TypeOK, Balance
  <1>1. CASE RingFull(cdr)
    <2>1. worker' \in WorkerFrames
      BY <1>1 DEF TypeOK, AddDesc, WorkerFrames
    <2>2. TypeOK'
      BY <1>1, <2>1 DEF TypeOK, AddDesc
    <2>3. Balance'
      BY <1>1 DEF TypeOK, WorkerFrames, Balance, Occupied, Uncommitted, Unsubtracted, AddDesc
    <2>4. WorkerFrame'
      BY <1>1 DEF TypeOK, WorkerFrames, WorkerFrame, Sending, AddDesc
    <2>5. ThreadFrame'
      BY DEF ThreadFrame, AddDesc
    <2> QED BY <2>2, <2>3, <2>4, <2>5
  <1>2. CASE ~RingFull(cdr)
    <2>1. cdr' \in Pointers /\ rdr' = cdr' /\ cdr'.read = cdr.read
          /\ Occupied' = Occupied + 1 /\ Occupied \in Nat
      BY <1>0, <1>2, PushIs, AheadIs DEF AddDesc, Pointers, Occupied, Slots
    <2>2. worker' = IF worker.left > 1
                    THEN [worker EXCEPT !.left = @ - 1, !.ndesc = @ + 1]
                    ELSE [NoWorker EXCEPT !.pc = "get",
                                          !.cdesc = worker.cdesc + worker.ndesc + 1]
      BY <1>2 DEF AddDesc
    <2>3. worker' \in WorkerFrames
      <3>0. worker \in WorkerFrames
        BY Types
      <3>1. CASE worker.left > 1
        <4>1. worker' = [worker EXCEPT !.left = worker.left - 1, !.ndesc = worker.ndesc + 1]
          BY <2>2, <3>1
        <4>2. worker.left - 1 \in Nat /\ worker.ndesc + 1 \in Nat
          BY <3>0, <3>1 DEF WorkerFrames
        <4> QED BY <3>0, <4>1, <4>2 DEF WorkerFrames
      <3>2. CASE ~(worker.left > 1)
        <4>1. worker.cdesc + worker.ndesc + 1 \in Nat
          BY <3>0 DEF WorkerFrames
        <4> QED BY <2>2, <3>2, <4>1 DEF NoWorker, WorkerFrames
      <3> QED BY <3>1, <3>2
    <2>4. TypeOK'
      <3>1. buf' \in [Slots -> [req : Reqs \cup {NoReq}, last : BOOLEAN]]
        <4>1. [req |-> worker.req, last |-> worker.left = 1]
                \in [req : Reqs \cup {NoReq}, last : BOOLEAN]
          BY DEF TypeOK, WorkerFrames
        <4> QED BY <1>2, <4>1 DEF TypeOK, AddDesc
      <3>2. result' \in [Slots -> {"none", "ok", "err"}]
        BY <1>2 DEF TypeOK, AddDesc
      <3>3. state' \in [Reqs -> {"idle", "queued", "backlog"}]
        BY <1>2 DEF TypeOK, AddDesc
      <3> QED BY <2>1, <2>3, <3>1, <3>2, <3>3 DEF TypeOK, AddDesc
    <2>5. Balance'
      <3>1. Uncommitted' = Uncommitted + 1 /\ Uncommitted \in Nat
        BY <2>2, Types DEF WorkerFrames, Uncommitted, AddDesc, NoWorker
      <3>2. Unsubtracted' = Unsubtracted /\ Unsubtracted \in Nat /\ requests' = requests
        BY Types DEF ThreadFrames, Unsubtracted, AddDesc
      <3> QED BY <2>1, <3>1, <3>2, Types DEF Balance
    <2>6. WorkerFrame'
      BY <2>2 DEF TypeOK, WorkerFrames, WorkerFrame, Sending, AddDesc, NoWorker
    <2>7. ThreadFrame'
      BY DEF ThreadFrame, AddDesc
    <2> QED BY <2>4, <2>5, <2>6, <2>7
  <1> QED BY <1>1, <1>2

LEMMA PushRequestIs ==
  ASSUME hw \in Engines, NEW n \in Int, PushRequest(n)
  PROVE  /\ hw' \in Engines /\ hw'.cd = hw.cd /\ hw'.rd = hw.rd /\ hw'.pos = hw.pos
         /\ hw'.irq = hw.irq
  BY DEF PushRequest, Engines

LEMMA FinalizeBase ==
  ASSUME Base, Finalize
  PROVE  Base'
  <1> USE DEF Base
  <1>1. worker' \in WorkerFrames /\ requests' \in Int
    BY DEF TypeOK, WorkerFrames, Finalize, NoWorker
  <1>2. hw' \in Engines
    BY <1>1, PushRequestIs DEF TypeOK, Finalize
  <1>3. busy' \in BOOLEAN
    BY DEF TypeOK, Finalize
  <1>4. TypeOK'
    BY <1>1, <1>2, <1>3 DEF TypeOK, Finalize
  <1>5. Balance'
    <2>1. Occupied' = Occupied /\ Unsubtracted' = Unsubtracted /\ Unsubtracted \in Nat
          /\ cdr' = cdr /\ rdr' = rdr
      BY Types DEF Occupied, Unsubtracted, Finalize, ThreadFrames
    <2>2. requests' + Uncommitted' = requests + Uncommitted
      BY Types DEF WorkerFrames, Uncommitted, WorkerFrame, Sending, Finalize, NoWorker
    <2>3. Uncommitted \in Nat /\ Uncommitted' \in Nat
      BY <1>1, Types DEF WorkerFrames, Uncommitted
    <2> QED BY <1>1, <2>1, <2>2, <2>3, Types DEF Balance
  <1>6. WorkerFrame'
    BY DEF TypeOK, WorkerFrames, WorkerFrame, Sending, Finalize, NoWorker
  <1>7. ThreadFrame'
    BY DEF ThreadFrame, Finalize
  <1> QED BY <1>4, <1>5, <1>6, <1>7

LEMMA KickBase ==
  ASSUME Base, Kick
  PROVE  Base'
  <1>1. hw' \in Engines
    BY Types DEF Engines, WorkerFrames, Kick
  <1>2. TypeOK'
    BY <1>1, FrameTypes DEF Base, TypeOK, Kick
  <1>3. Balance'
    BY DEF Base, TypeOK, WorkerFrames, Balance, Occupied, Uncommitted, Unsubtracted, Kick, NoWorker
  <1>4. WorkerFrame' /\ ThreadFrame'
    BY DEF Base, WorkerFrame, ThreadFrame, Sending, Kick, NoWorker
  <1> QED BY <1>2, <1>3, <1>4 DEF Base

LEMMA EngineBase ==
  ASSUME Base, Engine
  PROVE  Base'
  <1>1. hw' \in Engines
    <2>1. hw.cd > 0 /\ hw' = [hw EXCEPT !.cd = hw.cd - 1, !.rd = hw.rd + 1, !.pos = Next1(hw.pos)]
      BY DEF Engine
    <2>2. hw.cd - 1 \in Nat /\ hw.rd + 1 \in Nat /\ Next1(hw.pos) \in Slots
      BY <2>1, Types, Next1Is DEF Engines
    <2> QED BY <2>1, <2>2, Types DEF Engines
  <1>2. /\ result' \in [Slots -> {"none", "ok", "err"}] /\ errs' \in Nat
        /\ done' \in [Reqs -> Nat]
    <2>1. done \in [Reqs -> Nat] /\ result \in [Slots -> {"none", "ok", "err"}] /\ errs \in Nat
      BY DEF Base, TypeOK
    <2>2. done' = [done EXCEPT ![buf[hw.pos].req] = done[buf[hw.pos].req] + 1]
      BY DEF Engine
    <2>3. done' \in [Reqs -> Nat]
      <3>1. CASE buf[hw.pos].req \in Reqs
        <4>1. done[buf[hw.pos].req] + 1 \in Nat
          BY <2>1, <3>1
        <4> QED BY <2>1, <2>2, <4>1
      <3>2. CASE buf[hw.pos].req \notin Reqs
        BY <2>1, <2>2, <3>2
      <3> QED BY <3>1, <3>2
    <2>4. errs' \in Nat /\ \E x \in {"ok", "err"} : result' = [result EXCEPT ![hw.pos] = x]
      BY <2>1 DEF Engine
    <2> QED BY <2>1, <2>3, <2>4
  <1>3. failed' \in [Reqs -> BOOLEAN]
    BY DEF Base, TypeOK, Engine
  <1>4. TypeOK'
    BY <1>1, <1>2, <1>3 DEF Base, TypeOK, Engine
  <1>5. Balance'
    BY DEF Base, Balance, Occupied, Uncommitted, Unsubtracted, Engine
  <1>6. WorkerFrame' /\ ThreadFrame'
    BY DEF Base, WorkerFrame, ThreadFrame, Sending, Engine
  <1> QED BY <1>4, <1>5, <1>6 DEF Base

LEMMA RaiseIrqBase ==
  ASSUME Base, RaiseIrq
  PROVE  Base'
  <1>1. hw' \in Engines
    BY DEF Base, TypeOK, Engines, RaiseIrq
  <1>2. TypeOK'
    BY <1>1 DEF Base, TypeOK, RaiseIrq
  <1>3. Balance'
    BY DEF Base, Balance, Occupied, Uncommitted, Unsubtracted, RaiseIrq
  <1>4. WorkerFrame' /\ ThreadFrame'
    BY DEF Base, WorkerFrame, ThreadFrame, Sending, RaiseIrq
  <1> QED BY <1>2, <1>3, <1>4 DEF Base

LEMMA HandleResultsIs ==
  ASSUME NEW t \in ThreadFrames, NEW n \in Nat
  PROVE  /\ HandleResults(t, n) \in ThreadFrames
         /\ HandleResults(t, n).pc = IF n = 0 THEN "left" ELSE "get"
         /\ HandleResults(t, n).left = n /\ HandleResults(t, n).tot = 0
         /\ HandleResults(t, n).handled = t.handled /\ HandleResults(t, n).ndesc = t.ndesc
         /\ HandleResults(t, n).complete = t.complete /\ HandleResults(t, n).ret = t.ret
  BY DEF HandleResults, ThreadFrames

LEMMA IrqBase ==
  ASSUME Base, Irq
  PROVE  Base'
  <1>1. hw' \in Engines /\ hw.rd \in Nat
    BY Types DEF Engines, Irq
  <1>2. /\ thread' \in ThreadFrames /\ thread'.pc = IF hw.rd = 0 THEN "left" ELSE "get"
        /\ thread'.left = hw.rd /\ thread'.tot = 0 /\ thread'.handled = 0 /\ thread'.ndesc = 0
        /\ ~thread'.complete /\ thread'.ret = "ok"
    BY <1>1, HandleResultsIs, FrameTypes DEF Irq, NoThread
  <1>3. TypeOK'
    BY <1>1, <1>2 DEF Base, TypeOK, Irq
  <1>4. Unsubtracted' = Unsubtracted
    BY <1>2 DEF Base, ThreadFrame, Unsubtracted, Irq
  <1>5. Balance'
    BY <1>4 DEF Base, Balance, Occupied, Uncommitted, Irq
  <1>6. WorkerFrame'
    BY DEF Base, WorkerFrame, Sending, Irq
  <1>7. ThreadFrame'
    BY <1>1, <1>2 DEF ThreadFrame
  <1> QED BY <1>3, <1>5, <1>6, <1>7 DEF Base

LEMMA GetReqBase ==
  ASSUME Base, GetReq
  PROVE  Base'
  <1>0. hw.rd \in Nat /\ rdr.read \in Slots /\ thread \in ThreadFrames
    BY Types DEF Engines, Pointers
  <1>1. buf[rdr.read].req \in Reqs \cup {NoReq}
    BY <1>0 DEF Base, TypeOK
  <1>2. thread' \in ThreadFrames /\ thread'.ndesc = thread.ndesc
        /\ thread'.handled = thread.handled
    BY <1>0, <1>1 DEF GetReq, ThreadFrames
  <1>3. TypeOK'
    BY <1>2 DEF Base, TypeOK, GetReq
  <1>4. Balance'
    BY <1>2 DEF Base, Balance, Occupied, Uncommitted, Unsubtracted, GetReq
  <1>5. WorkerFrame'
    BY DEF Base, WorkerFrame, Sending, GetReq
  <1>6. ThreadFrame'
    BY <1>0, <1>1 DEF Base, ThreadFrame, GetReq, ThreadFrames
  <1> QED BY <1>3, <1>4, <1>5, <1>6 DEF Base

LEMMA ConsumeBase ==
  ASSUME Base, Consume
  PROVE  Base'
  <1>0. thread \in ThreadFrames /\ cdr \in Pointers /\ rdr = cdr /\ Occupied \in Nat
    BY Types
  <1>1. CASE RingEmpty(rdr)
    <2>1. thread' = [thread EXCEPT !.ret = "err", !.limit = thread.ndesc]
          /\ cdr' = cdr /\ rdr' = rdr
      BY <1>1 DEF Consume
    <2>2. thread' \in ThreadFrames /\ thread'.ndesc = thread.ndesc
          /\ thread'.handled = thread.handled
      BY <1>0, <2>1 DEF ThreadFrames
    <2>3. merged' \in BOOLEAN
      BY DEF Base, TypeOK, Consume
    <2>4. TypeOK'
      BY <2>1, <2>2, <2>3 DEF Base, TypeOK, Consume
    <2>5. Balance'
      BY <2>1, <2>2 DEF Base, Balance, Occupied, Uncommitted, Unsubtracted, Consume
    <2>6. WorkerFrame'
      BY DEF Base, WorkerFrame, Sending, Consume
    <2>7. ThreadFrame'
      BY <1>0, <2>1 DEF Base, ThreadFrame, Consume, Consuming, ThreadFrames
    <2> QED BY <2>4, <2>5, <2>6, <2>7 DEF Base
  <1>2. CASE ~RingEmpty(rdr)
    <2>1. /\ cdr' \in Pointers /\ rdr' = cdr' /\ Occupied' = Occupied - 1
      BY <1>0, <1>2, PopIs, AheadIs DEF Consume, Pointers, Occupied, Slots
    <2>2. PICK c \in BOOLEAN, x \in {"ok", "err"} :
            thread' = [thread EXCEPT !.ndesc = thread.ndesc + 1, !.complete = c, !.ret = x]
      <3>1. buf[cdr.read].last \in BOOLEAN
        BY <1>0 DEF Base, TypeOK, Pointers
      <3>2. (IF result[rdr.read] = "err" THEN "err" ELSE thread.ret) \in {"ok", "err"}
        BY <1>0 DEF ThreadFrames
      <3> QED BY <1>2, <3>1, <3>2 DEF Consume
    <2>3. /\ thread' \in ThreadFrames /\ thread'.ndesc = thread.ndesc + 1
          /\ thread'.handled = thread.handled /\ thread.ndesc \in Nat
          /\ thread.handled \in Nat /\ thread'.left = thread.left
          /\ thread'.pc = thread.pc /\ thread'.req = thread.req
      <3>1. thread.ndesc + 1 \in Nat
        BY <1>0 DEF ThreadFrames
      <3> QED BY <1>0, <2>2, <3>1 DEF ThreadFrames
    <2>4. merged' \in BOOLEAN
      BY DEF Base, TypeOK, Consume
    <2>5. TypeOK'
      BY <2>1, <2>3, <2>4 DEF Base, TypeOK, Consume
    <2>6. Balance'
      <3>1. Uncommitted' = Uncommitted /\ requests' = requests
        BY DEF Uncommitted, Consume
      <3>2. Uncommitted \in Nat /\ requests \in Int
        BY Types DEF Uncommitted, WorkerFrames
      <3> QED BY <1>0, <2>1, <2>3, <3>1, <3>2 DEF Base, Balance, Unsubtracted
    <2>7. WorkerFrame'
      BY DEF Base, WorkerFrame, Sending, Consume
    <2>8. ThreadFrame'
      BY <2>3 DEF Base, ThreadFrame, Consume, Consuming
    <2> QED BY <2>5, <2>6, <2>7, <2>8 DEF Base
  <1> QED BY <1>1, <1>2

LEMMA CompleteBase ==
  ASSUME Base, Complete
  PROVE  Base'
  <1>0. thread \in ThreadFrames /\ thread.pc = "result" /\ thread.req \in Reqs /\ thread.left >= 1
    BY Types DEF Base, ThreadFrame, Complete
  <1>1. /\ thread.left - 1 \in Nat /\ thread.tot + thread.ndesc \in Nat
        /\ thread.handled + thread.ndesc \in Nat
        /\ thread.left # 1 => thread.left - 1 >= 1
    BY <1>0 DEF ThreadFrames
  <1>2. thread' = [NoThread EXCEPT !.pc = IF thread.left = 1 THEN "ack" ELSE "get",
                                !.left = thread.left - 1,
                                !.tot = thread.tot + thread.ndesc,
                                !.handled = thread.handled + thread.ndesc]
    BY DEF Complete
  <1>3. thread' \in ThreadFrames /\ thread'.handled = thread.handled + thread.ndesc
        /\ thread'.ndesc = 0
    BY <1>1, <1>2, FrameTypes DEF ThreadFrames, NoThread
  <1>4. TypeOK'
    <2>1. state' \in [Reqs -> {"idle", "queued", "backlog"}]
          /\ need' \in [Reqs -> 1 .. MaxDesc] /\ done' \in [Reqs -> Nat]
      <3>1. /\ state \in [Reqs -> {"idle", "queued", "backlog"}]
            /\ need \in [Reqs -> 1 .. MaxDesc] /\ done \in [Reqs -> Nat] /\ 1 \in 1 .. MaxDesc
        BY Eip93Assumption DEF Base, TypeOK
      <3> QED BY <3>1 DEF Complete
    <2>2. failed' \in [Reqs -> BOOLEAN]
      BY DEF Base, TypeOK, Complete
    <2> QED BY <1>3, <2>1, <2>2 DEF Base, TypeOK, Complete
  <1>5. Unsubtracted' = Unsubtracted
    BY <1>0, <1>3 DEF Unsubtracted, ThreadFrames
  <1>6. Balance'
    BY <1>5 DEF Base, Balance, Occupied, Uncommitted, Complete
  <1>7. WorkerFrame'
    BY DEF Base, WorkerFrame, Sending, Complete
  <1>8. ThreadFrame'
    BY <1>1, <1>2 DEF ThreadFrame, NoThread
  <1> QED BY <1>4, <1>6, <1>7, <1>8 DEF Base

LEMMA AcknowledgeBase ==
  ASSUME Base, Acknowledge
  PROVE  Base'
  <1>0. hw \in Engines /\ thread \in ThreadFrames /\ thread.pc = "ack"
    BY Types DEF Acknowledge
  <1>1. (IF hw.rd < thread.tot THEN 0 ELSE hw.rd - thread.tot) \in Nat
    BY <1>0 DEF Engines, ThreadFrames
  <1>2. hw' \in Engines
    BY <1>0, <1>1 DEF Acknowledge, Engines
  <1>3. /\ thread' \in ThreadFrames /\ thread'.pc = IF hw'.rd = 0 THEN "left" ELSE "get"
        /\ thread'.left = hw'.rd /\ thread'.tot = 0 /\ thread'.handled = thread.handled
        /\ thread'.ndesc = thread.ndesc /\ thread'.complete = thread.complete
        /\ thread'.ret = thread.ret /\ hw'.rd \in Nat
    <2>1. hw'.rd \in Nat /\ thread' = HandleResults(thread, hw'.rd)
      BY <1>2 DEF Acknowledge, Engines
    <2> QED BY <1>0, <2>1, HandleResultsIs
  <1>4. TypeOK'
    BY <1>2, <1>3 DEF Base, TypeOK, Acknowledge
  <1>5. Unsubtracted' = Unsubtracted
    BY <1>3 DEF Unsubtracted
  <1>6. Balance'
    BY <1>5 DEF Base, Balance, Occupied, Uncommitted, Acknowledge
  <1>7. WorkerFrame'
    BY DEF Base, WorkerFrame, Sending, Acknowledge
  <1>8. ThreadFrame'
    BY <1>0, <1>3 DEF Base, ThreadFrame
  <1> QED BY <1>4, <1>6, <1>7, <1>8 DEF Base

LEMMA RequestsLeftBase ==
  ASSUME Base, RequestsLeft
  PROVE  Base'
  <1>0. /\ thread \in ThreadFrames /\ thread.pc = "left" /\ requests \in Int
        /\ Occupied \in Nat /\ hw \in Engines
    BY Types DEF RequestsLeft
  <1>1. requests' = requests - thread.handled /\ requests' \in Int /\ thread.handled \in Nat
    BY <1>0 DEF RequestsLeft, ThreadFrames
  <1>2. hw' \in Engines
    BY <1>0, <1>1, PushRequestIs DEF RequestsLeft
  <1>3. busy' \in BOOLEAN /\ pending' \in BOOLEAN
    BY DEF RequestsLeft
  <1>4. TypeOK'
    BY <1>1, <1>2, <1>3, FrameTypes DEF Base, TypeOK, RequestsLeft
  <1>5. Unsubtracted' = 0 /\ Unsubtracted = thread.handled
    BY <1>0, <1>1 DEF Unsubtracted, RequestsLeft, NoThread, Base, ThreadFrame
  <1>6. Balance'
    <2>1. Uncommitted' = Uncommitted /\ Occupied' = Occupied /\ cdr' = cdr /\ rdr' = rdr
      BY DEF Uncommitted, Occupied, RequestsLeft
    <2>2. Uncommitted \in Nat
      BY Types DEF Uncommitted, WorkerFrames
    <2> QED BY <1>0, <1>1, <1>5, <2>1, <2>2 DEF Base, Balance
  <1>7. WorkerFrame'
    BY DEF Base, WorkerFrame, Sending, RequestsLeft
  <1>8. ThreadFrame'
    BY DEF ThreadFrame, RequestsLeft, NoThread
  <1> QED BY <1>4, <1>6, <1>7, <1>8 DEF Base

LEMMA StutterBase ==
  ASSUME Base, UNCHANGED vars
  PROVE  Base'
  <1>1. TypeOK'
    BY DEF Base, TypeOK, vars
  <1>2. Balance'
    BY DEF Base, Balance, Occupied, Uncommitted, Unsubtracted, vars
  <1>3. WorkerFrame' /\ ThreadFrame'
    BY DEF Base, WorkerFrame, ThreadFrame, Sending, vars
  <1> QED BY <1>1, <1>2, <1>3 DEF Base

LEMMA StepBase == Base /\ [Next]_vars => Base'
  BY SubmitBase, WorkStartBase, DequeueBase, AddDescBase, FinalizeBase, KickBase, EngineBase,
     RaiseIrqBase, IrqBase, GetReqBase, ConsumeBase, CompleteBase, AcknowledgeBase,
     RequestsLeftBase, StutterBase
  DEF Next, Worker, Thread

\* Every variable of the driver keeps its type: no ring pointer leaves the
\* ring and no count of worker, engine or thread drops below zero, for any ring
\* and queue size.  (`requests' may: see EngineCounted.)
THEOREM Eip93TypeCorrect == Spec => []TypeOK
  <1>1. Base => TypeOK
    BY DEF Base
  <1> QED BY InitBase, StepBase, <1>1, PTL DEF Spec

\* `requests', counted by worker and thread under the lock, is the number of
\* descriptors in the unlocked rings but for what the two have moved and not
\* yet counted, also after the driver has lost count of the results.
THEOREM Eip93Accounting == Spec => []Accounting
  BY InitBase, StepBase, AccountingIs, PTL DEF Spec

-----------------------------------------------------------------------------
(* The engine's counters, as long as the driver has not lost count.        *)

\* The fields the counts are made of.
LEMMA Numbers ==
  Base => /\ worker.left \in Nat /\ worker.ndesc \in Nat /\ worker.cdesc \in Nat
          /\ thread.left \in Nat /\ thread.limit \in Nat /\ thread.ndesc \in Nat
          /\ thread.tot \in Nat /\ thread.handled \in Nat
          /\ hw.cd \in Nat /\ hw.rd \in Nat /\ hw.pos \in Slots
          /\ cdr.read \in Slots /\ cdr.write \in Slots /\ rdr = cdr
          /\ requests \in Int /\ Occupied \in Slots
          /\ Ahead(cdr.read, hw.pos) \in Slots /\ Slots \subseteq Nat
  <1> SUFFICES ASSUME Base
      PROVE  /\ worker.left \in Nat /\ worker.ndesc \in Nat /\ worker.cdesc \in Nat
             /\ thread.left \in Nat /\ thread.limit \in Nat /\ thread.ndesc \in Nat
             /\ thread.tot \in Nat /\ thread.handled \in Nat
             /\ hw.cd \in Nat /\ hw.rd \in Nat /\ hw.pos \in Slots
             /\ cdr.read \in Slots /\ cdr.write \in Slots /\ rdr = cdr
             /\ requests \in Int /\ Occupied \in Slots
             /\ Ahead(cdr.read, hw.pos) \in Slots /\ Slots \subseteq Nat
    OBVIOUS
  <1>1. worker.left \in Nat /\ worker.ndesc \in Nat /\ worker.cdesc \in Nat
    BY Types DEF WorkerFrames
  <1>2. /\ thread.left \in Nat /\ thread.limit \in Nat /\ thread.ndesc \in Nat
        /\ thread.tot \in Nat /\ thread.handled \in Nat
    BY Types DEF ThreadFrames
  <1>3. hw.cd \in Nat /\ hw.rd \in Nat /\ hw.pos \in Slots
    BY Types DEF Engines
  <1>4. cdr.read \in Slots /\ cdr.write \in Slots /\ rdr = cdr /\ requests \in Int
    BY Types DEF Pointers
  <1>5. Ahead(cdr.read, hw.pos) \in Slots /\ Slots \subseteq Nat
    <2>1. Slots \subseteq Nat
      BY DEF Slots
    <2> QED BY <1>3, <1>4, <2>1, AheadIs
  <1> QED BY <1>1, <1>2, <1>3, <1>4, <1>5, AccountingIs

LEMMA Sums ==
  ASSUME /\ hw.cd \in Nat /\ hw.rd \in Nat /\ thread.handled \in Nat /\ thread.tot \in Nat
         /\ thread.ndesc \in Nat /\ requests \in Int /\ Uncommitted \in Nat
         /\ worker.cdesc \in Nat /\ worker.ndesc \in Nat,
         Occupied \in Nat, NEW k \in Nat,
         requests + Uncommitted - (thread.handled + thread.ndesc) = Occupied,
         Occupied = hw.cd + worker.cdesc + worker.ndesc + hw.rd - thread.tot - thread.ndesc,
         Uncommitted + k = worker.cdesc + worker.ndesc
  PROVE  requests = hw.cd + k + hw.rd + thread.handled - thread.tot
  OBVIOUS

\* What `requests' is made of while worker and thread are at work; it is the
\* sum of naturals, so it reaches zero only when nothing is left.
LEMMA RequestsIs ==
  ASSUME Base, Counts
  PROVE  requests = hw.cd + (IF worker.pc = "kick" THEN worker.cdesc ELSE 0) + hw.rd
                    + thread.handled - thread.tot
  <1>1. Uncommitted + (IF worker.pc = "kick" THEN worker.cdesc ELSE 0)
          = worker.cdesc + worker.ndesc /\ Uncommitted \in Nat
    <2>1. worker.pc \in {"idle", "get", "send", "final", "kick", "oops"}
      BY Types DEF WorkerFrames
    <2> QED BY <2>1, Numbers DEF Uncommitted, Base, WorkerFrame, Sending
  <1>2. requests + Uncommitted - (thread.handled + thread.ndesc) = Occupied
    BY DEF Base, Balance, Unsubtracted
  <1>3. Occupied = hw.cd + worker.cdesc + worker.ndesc + hw.rd - thread.tot - thread.ndesc
    BY Numbers DEF Counts
  <1>5. PICK k \in Nat : /\ k = IF worker.pc = "kick" THEN worker.cdesc ELSE 0
                         /\ Uncommitted + k = worker.cdesc + worker.ndesc
    BY <1>1, Numbers
  <1>6. requests = hw.cd + k + hw.rd + thread.handled - thread.tot
    <2>1. /\ hw.cd \in Nat /\ hw.rd \in Nat /\ thread.handled \in Nat /\ thread.tot \in Nat
          /\ thread.ndesc \in Nat /\ requests \in Int /\ Uncommitted \in Nat
          /\ worker.cdesc \in Nat /\ worker.ndesc \in Nat
      BY <1>1, Numbers
    <2>2. Uncommitted + k = worker.cdesc + worker.ndesc
      BY <1>5
    <2>3. Occupied \in Nat
      BY Numbers
    <2> QED BY <1>2, <1>3, <2>1, <2>2, <2>3, Sums
  <1> QED BY <1>5, <1>6

LEMMA SubmitCounts ==
  ASSUME Base, Counts, NEW r \in Reqs, Submit(r)
  PROVE  Counts'
  BY DEF Counts, Occupied, Submit

LEMMA WorkStartCounts ==
  ASSUME Base, Counts, WorkStart
  PROVE  Counts'
  <1>1. worker'.cdesc = 0 /\ worker'.ndesc = 0 /\ worker.cdesc = 0 /\ worker.ndesc = 0
    BY DEF WorkStart, NoWorker, Base, WorkerFrame, Sending
  <1> QED BY <1>1 DEF Counts, Occupied, WorkStart

LEMMA DequeueCounts ==
  ASSUME Base, Counts, Dequeue
  PROVE  Counts'
  <1>1. worker'.cdesc = worker.cdesc /\ worker'.ndesc = worker.ndesc
    BY Types DEF Dequeue, WorkerFrames
  <1> QED BY <1>1 DEF Counts, Occupied, Dequeue

LEMMA FinalizeCounts ==
  ASSUME Base, Counts, Finalize
  PROVE  Counts'
  <1>1. worker'.cdesc = worker.cdesc /\ worker'.ndesc = worker.ndesc
    BY Types DEF Finalize, NoWorker, WorkerFrames, Base, WorkerFrame, Sending
  <1>2. hw'.cd = hw.cd /\ hw'.rd = hw.rd /\ hw'.pos = hw.pos
    BY Types, PushRequestIs, StepBase DEF Finalize, WorkerFrames
  <1>3. busy' <=> requests' # 0
    <2>1. requests >= 0
      BY RequestsIs, Numbers DEF Counts
    <2> QED BY <2>1, Numbers DEF Finalize, Counts
  <1> QED BY <1>1, <1>2, <1>3 DEF Counts, Occupied, Finalize

LEMMA KickCounts ==
  ASSUME Base, Counts, Kick
  PROVE  Counts'
  <1>1. /\ worker'.cdesc = 0 /\ worker'.ndesc = 0 /\ worker.ndesc = 0
        /\ hw'.cd = hw.cd + worker.cdesc /\ hw'.rd = hw.rd /\ hw'.pos = hw.pos
    BY Types DEF Kick, NoWorker, Engines, Base, WorkerFrame, Sending
  <1> QED BY <1>1, Numbers DEF Counts, Occupied, Kick

LEMMA AddDescCounts ==
  ASSUME Base, Counts, AddDesc
  PROVE  Counts'
  <1>1. CASE RingFull(cdr)
    <2>1. worker'.cdesc = worker.cdesc /\ worker'.ndesc = worker.ndesc /\ cdr' = cdr
      BY <1>1, Types DEF AddDesc, WorkerFrames
    <2> QED BY <2>1 DEF Counts, Occupied, AddDesc
  <1>2. CASE ~RingFull(cdr)
    <2>1. cdr'.read = cdr.read /\ Occupied' = Occupied + 1
      BY <1>2, Types, Numbers, PushIs DEF AddDesc, Occupied
    <2>2. worker'.cdesc + worker'.ndesc = worker.cdesc + worker.ndesc + 1
          /\ worker'.cdesc \in Nat /\ worker'.ndesc \in Nat
      <3>1. CASE worker.left > 1
        <4>1. worker' = [worker EXCEPT !.left = worker.left - 1, !.ndesc = worker.ndesc + 1]
          BY <1>2, <3>1 DEF AddDesc
        <4>2. worker'.cdesc = worker.cdesc /\ worker'.ndesc = worker.ndesc + 1
          BY <4>1, Types DEF WorkerFrames
        <4> QED BY <4>2, Numbers
      <3>2. CASE ~(worker.left > 1)
        <4>1. worker'.cdesc = worker.cdesc + worker.ndesc + 1 /\ worker'.ndesc = 0
          BY <1>2, <3>2 DEF AddDesc, NoWorker
        <4> QED BY <4>1, Numbers
      <3> QED BY <3>1, <3>2
    <2>3. Occupied' = hw.cd + worker'.cdesc + worker'.ndesc + Ahead(cdr.read, hw.pos)
      BY <2>1, <2>2, Numbers DEF Counts
    <2> QED BY <2>1, <2>3 DEF Counts, AddDesc
  <1> QED BY <1>1, <1>2

\* The engine's position moves away from the read position.
LEMMA AheadNext ==
  ASSUME NEW p \in Slots, NEW q \in Slots, NEW w \in Slots, Ahead(p, q) < Ahead(p, w)
  PROVE  Ahead(p, Next1(q)) = Ahead(p, q) + 1
  BY Next1Is, Eip93Assumption DEF Ahead, Slots

\* The read position moves towards what is ahead of it.
LEMMA AheadPop ==
  ASSUME NEW p \in Slots, NEW i \in Slots, i # p
  PROVE  Ahead(Next1(p), i) = Ahead(p, i) - 1
  BY Next1Is, Eip93Assumption DEF Ahead, Slots

LEMMA EngineCounts ==
  ASSUME Base, Counts, Engine
  PROVE  Counts'
  <1>1. /\ hw.cd > 0 /\ hw'.cd = hw.cd - 1 /\ hw'.rd = hw.rd + 1 /\ hw'.pos = Next1(hw.pos)
    BY Types DEF Engine, Engines
  <1>2. Ahead(cdr.read, hw.pos) < Occupied
    BY <1>1, Numbers DEF Counts
  <1>3. Ahead(cdr.read, Next1(hw.pos)) = Ahead(cdr.read, hw.pos) + 1
    BY <1>2, Numbers, AheadNext DEF Occupied
  <1>4. /\ Occupied = hw'.cd + worker.cdesc + worker.ndesc + Ahead(cdr.read, hw'.pos)
        /\ Ahead(cdr.read, hw'.pos) = hw'.rd - thread.tot - thread.ndesc
        /\ thread.pc \in {"get", "result"} => thread.tot + thread.left <= hw'.rd
    BY <1>1, <1>3, Numbers DEF Counts
  <1> QED BY <1>4 DEF Counts, Occupied, Engine

LEMMA RaiseIrqCounts ==
  ASSUME Base, Counts, RaiseIrq
  PROVE  Counts'
  <1>1. hw'.cd = hw.cd /\ hw'.rd = hw.rd /\ hw'.pos = hw.pos
    BY Types DEF RaiseIrq, Engines
  <1> QED BY <1>1 DEF Counts, Occupied, RaiseIrq

LEMMA IrqCounts ==
  ASSUME Base, Counts, Irq
  PROVE  Counts'
  <1>1. hw'.cd = hw.cd /\ hw'.rd = hw.rd /\ hw'.pos = hw.pos
    BY Types DEF Irq, Engines
  <1>2. /\ thread'.pc \in {"left", "get"} /\ thread'.left = hw.rd /\ thread'.tot = 0
        /\ thread'.handled = 0 /\ thread'.ndesc = 0
    <2>1. thread' = HandleResults(NoThread, hw.rd) /\ hw.rd \in Nat
      BY Numbers DEF Irq
    <2> QED BY <2>1, HandleResultsIs, FrameTypes DEF NoThread
  <1>3. thread.tot = 0 /\ thread.ndesc = 0
    BY DEF Irq, Base, ThreadFrame
  <1> QED BY <1>1, <1>2, <1>3, Numbers DEF Counts, Occupied, Irq

LEMMA GetReqCounts ==
  ASSUME Base, Counts, GetReq
  PROVE  Counts'
  <1>1. /\ thread'.pc \in {"ack", "result"} /\ thread'.left = thread.left /\ thread'.tot = thread.tot
        /\ thread'.handled = thread.handled /\ thread'.ndesc = thread.ndesc
        /\ thread'.pc = "result" => thread'.limit = hw.rd
    BY Types DEF GetReq, ThreadFrames
  <1>2. thread.pc = "get" /\ hw.rd >= 1
    BY Numbers DEF GetReq, Counts, Base, ThreadFrame
  <1> QED BY <1>1, <1>2 DEF Counts, Occupied, GetReq

LEMMA AcknowledgeCounts ==
  ASSUME Base, Counts, Acknowledge
  PROVE  Counts'
  <1>1. thread.pc = "ack" /\ thread.ndesc = 0 /\ thread.tot <= hw.rd
    BY Numbers DEF Acknowledge, Base, ThreadFrame, Counts
  <1>2. hw'.cd = hw.cd /\ hw'.rd = hw.rd - thread.tot /\ hw'.pos = hw.pos /\ hw'.rd \in Nat
    BY <1>1, Types, Numbers DEF Acknowledge, Engines
  <1>3. /\ thread'.pc \in {"left", "get"} /\ thread'.left = hw'.rd /\ thread'.tot = 0
        /\ thread'.handled = thread.handled /\ thread'.ndesc = 0
    BY <1>1, <1>2, Types, HandleResultsIs DEF Acknowledge
  <1> QED BY <1>1, <1>2, <1>3, Numbers DEF Counts, Occupied, Acknowledge

LEMMA RequestsLeftCounts ==
  ASSUME Base, Counts, RequestsLeft
  PROVE  Counts'
  <1>1. thread.pc = "left" /\ thread.ndesc = 0 /\ thread.tot = 0
    BY DEF RequestsLeft, Base, ThreadFrame
  <1>2. /\ requests' = requests - thread.handled /\ requests' >= 0
        /\ requests' # 0 => requests # 0
    <2>1. PICK n \in Nat : requests = n + thread.handled
      <3>1. (IF worker.pc = "kick" THEN worker.cdesc ELSE 0) \in Nat
        BY Numbers
      <3>2. PICK k \in Nat : requests = hw.cd + k + hw.rd + thread.handled
        BY <1>1, <3>1, RequestsIs, Numbers
      <3>3. hw.cd + k + hw.rd \in Nat
        BY Numbers
      <3> QED BY <3>2, <3>3
    <2>2. requests' = requests - thread.handled /\ thread.handled \in Nat
      BY Numbers DEF RequestsLeft
    <2>3. requests' = n
      BY <2>1, <2>2
    <2>4. n # 0 => requests # 0
      BY <2>1, <2>2
    <2> QED BY <2>2, <2>3, <2>4
  <1>3. hw'.cd = hw.cd /\ hw'.rd = hw.rd /\ hw'.pos = hw.pos
    BY <1>2, Types, Numbers, PushRequestIs DEF RequestsLeft
  <1>4. busy' <=> requests' # 0
    <2>1. busy' = (busy /\ requests' # 0)
      BY DEF RequestsLeft
    <2>2. busy <=> requests # 0
      BY DEF Counts
    <2>3. requests' # 0 => requests # 0
      BY <1>2
    <2> QED BY <2>1, <2>2, <2>3
  <1>5. thread'.pc = "idle" /\ thread'.tot = 0 /\ thread'.ndesc = 0 /\ thread'.handled = 0
    BY DEF RequestsLeft, NoThread
  <1> QED BY <1>1, <1>3, <1>4, <1>5, Numbers DEF Counts, Occupied, RequestsLeft

LEMMA ConsumeCounts ==
  ASSUME Base, Counts, Consume, ~merged'
  PROVE  Counts'
  <1>0. thread.pc = "result" /\ thread.ndesc < thread.limit /\ ~thread.complete
    BY DEF Consume, Consuming
  <1>1. CASE RingEmpty(rdr)
    <2>1. thread'.ndesc >= 1
      \* Something finished is there for the first descriptor of a pass.
      <3>1. Occupied = 0
        BY <1>1, Numbers, Eip93Assumption DEF RingEmpty, Occupied, Ahead, Slots
      <3>2. Ahead(cdr.read, hw.pos) = 0
        BY <3>1, Numbers DEF Counts
      <3>3. thread.tot + thread.left <= hw.rd /\ thread.left >= 1
        BY <1>0 DEF Counts, Base, ThreadFrame
      <3>4. thread.ndesc >= 1
        BY <3>2, <3>3, Numbers DEF Counts
      <3> QED BY <1>1, <3>4, Types DEF Consume, ThreadFrames
    <2>2. /\ thread'.pc = thread.pc /\ thread'.left = thread.left /\ thread'.tot = thread.tot
          /\ thread'.handled = thread.handled /\ thread'.ndesc = thread.ndesc
          /\ thread'.limit = thread.ndesc /\ cdr' = cdr
      BY <1>1, Types DEF Consume, ThreadFrames
    <2> QED BY <2>1, <2>2 DEF Counts, Occupied, Consume
  <1>2. CASE ~RingEmpty(rdr)
    <2>1. /\ thread'.pc = thread.pc /\ thread'.left = thread.left /\ thread'.tot = thread.tot
          /\ thread'.handled = thread.handled /\ thread'.ndesc = thread.ndesc + 1
          /\ thread'.limit = thread.limit
      BY <1>2, Types DEF Consume, ThreadFrames
    <2>2. thread.ndesc = 0 /\ thread'.ndesc = 1
      <3>1. ~(thread'.ndesc > 1)
        BY DEF Consume
      <3>2. thread'.ndesc = thread.ndesc + 1 /\ thread.ndesc \in Nat
        BY <2>1, Numbers
      <3> QED BY <3>1, <3>2
    <2>3. cdr'.read = Next1(cdr.read) /\ cdr'.write = cdr.write
      BY <1>2, Types, PopIs DEF Consume
    <2>4. Occupied' = Occupied - 1
      BY <1>2, <2>3, Types, PopIs DEF Occupied
    <2>5. Ahead(cdr.read, hw.pos) >= 1
      <3>1. thread.tot + thread.left <= hw.rd /\ thread.left >= 1
        BY <1>0 DEF Counts, Base, ThreadFrame
      <3> QED BY <2>2, <3>1, Numbers DEF Counts
    <2>6. Ahead(Next1(cdr.read), hw.pos) = Ahead(cdr.read, hw.pos) - 1
      <3>1. hw.pos # cdr.read
        BY <2>5, Numbers DEF Ahead, Slots
      <3> QED BY <3>1, Numbers, AheadPop
    <2>7. /\ Occupied' = hw.cd + worker.cdesc + worker.ndesc + Ahead(Next1(cdr.read), hw.pos)
          /\ Ahead(Next1(cdr.read), hw.pos) = hw.rd - thread.tot - thread'.ndesc
      <3>1. /\ Occupied \in Nat /\ hw.cd \in Nat /\ worker.cdesc \in Nat /\ worker.ndesc \in Nat
            /\ hw.rd \in Nat /\ thread.tot \in Nat /\ Ahead(cdr.read, hw.pos) \in Nat
        BY Numbers
      <3> QED BY <2>2, <2>4, <2>6, <3>1 DEF Counts
    <2> QED BY <2>1, <2>2, <2>3, <2>7 DEF Counts, Consume
  <1> QED BY <1>1, <1>2

LEMMA CompleteCounts ==
  ASSUME Base, Counts, Complete
  PROVE  Counts'
  <1>0. thread.pc = "result"
    BY DEF Complete
  <1>1. /\ thread'.pc = IF thread.left = 1 THEN "ack" ELSE "get"
        /\ thread'.left = thread.left - 1 /\ thread'.tot = thread.tot + thread.ndesc
        /\ thread'.handled = thread.handled + thread.ndesc /\ thread'.ndesc = 0
    BY DEF Complete, NoThread
  <1>2. /\ hw.rd - thread.tot - thread.ndesc = hw.rd - thread'.tot - thread'.ndesc
        /\ thread'.tot <= thread'.handled /\ thread'.tot + thread'.left <= hw.rd
    BY <1>0, <1>1, Numbers DEF Counts
  <1> QED BY <1>1, <1>2 DEF Counts, Occupied, Complete

-----------------------------------------------------------------------------
(* What is in the queue, the ring and the frames.                          *)

\* A step that moves no request and no descriptor.
Same ==
  /\ queue' = queue /\ buf' = buf /\ cdr' = cdr /\ hw'.pos = hw.pos /\ result' = result
  /\ state' = state /\ need' = need /\ done' = done /\ failed' = failed
  /\ Sending' <=> Sending
  /\ Sending => /\ worker'.req = worker.req /\ worker'.left = worker.left
                /\ worker'.backlog = worker.backlog
  /\ \/ thread' = thread
     \/ thread'.pc # "result"
     \/ /\ thread'.pc = thread.pc /\ thread'.req = thread.req
        /\ thread'.ndesc = thread.ndesc /\ thread.ndesc # 0
        /\ ~thread.complete /\ ~thread'.complete

LEMMA SameContents ==
  ASSUME Contents, Same
  PROVE  Contents'
  <1>1. \A i \in Slots : /\ InRing(i)' <=> InRing(i)
                         /\ Finished(i)' <=> Finished(i)
                         /\ Pending(i)' <=> Pending(i)
    BY DEF Same, InRing, Finished, Pending, Occupied
  <1>2. \A r : Queued(r)' <=> Queued(r)
    BY DEF Same, Queued
  <1>3. \A r : PendingOf(r)' = PendingOf(r)
    BY <1>1 DEF Same, PendingOf
  <1>4. Places'
    BY <1>1, <1>2 DEF Contents, Places, Same
  <1>5. LastIsLast'
    BY <1>1 DEF Contents, LastIsLast, Same
  <1>6. Backlog'
    BY DEF Contents, Backlog, Same
  <1>7. Descriptors'
    BY <1>2, <1>3 DEF Contents, Descriptors, Same
  <1>8. Errors'
    BY <1>1 DEF Contents, Errors, Same
  <1> QED BY <1>4, <1>5, <1>6, <1>7, <1>8 DEF Contents

LEMMA WorkerSame ==
  ASSUME Base, WorkStart \/ Finalize \/ Kick
  PROVE  Same
  <1>1. ~Sending /\ ~Sending'
    BY Types DEF Sending, WorkStart, Finalize, Kick, NoWorker, WorkerFrames
  <1>2. hw'.pos = hw.pos
    <2>1. CASE Finalize
      BY <2>1, Types, PushRequestIs DEF Finalize, WorkerFrames
    <2>2. CASE Kick
      BY <2>2, Types DEF Kick, Engines
    <2> QED BY <2>1, <2>2 DEF WorkStart
  <1> QED BY <1>1, <1>2 DEF Same, WorkStart, Finalize, Kick

LEMMA ThreadSame ==
  ASSUME Base, RaiseIrq \/ Irq \/ Acknowledge \/ RequestsLeft
  PROVE  Same
  <1>1. hw'.pos = hw.pos
    <2>1. CASE RaiseIrq \/ Irq \/ Acknowledge
      BY <2>1, Types DEF RaiseIrq, Irq, Acknowledge, Engines
    <2>2. CASE RequestsLeft
      BY <2>2, Types, Numbers, PushRequestIs DEF RequestsLeft
    <2> QED BY <2>1, <2>2
  <1>2. thread' = thread \/ thread'.pc # "result"
    <2>1. CASE RaiseIrq
      BY <2>1 DEF RaiseIrq
    <2>2. CASE Irq
      BY <2>2, Numbers, FrameTypes, HandleResultsIs DEF Irq
    <2>3. CASE Acknowledge
      <3>1. hw'.rd \in Nat
        BY <2>3, AcknowledgeBase, Numbers, Types DEF Base, TypeOK, Engines
      <3> QED BY <2>3, <3>1, Types, HandleResultsIs DEF Acknowledge
    <2>4. CASE RequestsLeft
      BY <2>4 DEF RequestsLeft, NoThread
    <2> QED BY <2>1, <2>2, <2>3, <2>4
  <1>3. worker' = worker
    BY DEF RaiseIrq, Irq, Acknowledge, RequestsLeft
  <1> QED BY <1>1, <1>2, <1>3 DEF Same, Sending, RaiseIrq, Irq, Acknowledge, RequestsLeft

\* What TypeOK says of the callers' side.
LEMMA ClientTypes ==
  Base => /\ queue \in Seq(Reqs) /\ state \in [Reqs -> {"idle", "queued", "backlog"}]
          /\ need \in [Reqs -> 1 .. MaxDesc] /\ done \in [Reqs -> Nat]
  BY DEF Base, TypeOK

LEMMA PendingFinite ==
  ASSUME NEW r
  PROVE  IsFiniteSet(PendingOf(r)) /\ Cardinality(PendingOf(r)) \in Nat
  <1>1. IsFiniteSet(Slots)
    BY FS_Interval, Eip93Assumption DEF Slots
  <1>2. PendingOf(r) \subseteq Slots
    BY DEF PendingOf
  <1> QED BY <1>1, <1>2, FS_Subset, FS_CardinalityType

\* A thread that has not consumed anything in this pass finds a finished
\* descriptor.
LEMMA ReadFinished ==
  ASSUME Base, Counts, thread.pc \in {"get", "result"}, thread.ndesc = 0
  PROVE  Finished(cdr.read)
  <1>1. thread.tot + thread.left <= hw.rd /\ thread.left >= 1
    BY DEF Counts, Base, ThreadFrame
  <1>2. Ahead(cdr.read, hw.pos) >= 1
    BY <1>1, Numbers DEF Counts
  <1>3. Occupied >= Ahead(cdr.read, hw.pos)
    BY Numbers DEF Counts
  <1>4. Ahead(cdr.read, cdr.read) = 0
    BY Numbers DEF Ahead
  <1> QED BY <1>2, <1>3, <1>4, Numbers DEF InRing, Finished

LEMMA SubmitContents ==
  ASSUME Base, Counts, Contents, NEW r \in Reqs, Submit(r)
  PROVE  Contents'
  <1>1. CASE UNCHANGED <<queue, client>>
    <2>1. Same
      BY <1>1 DEF Same, Sending, Submit
    <2> QED BY <2>1, SameContents
  <1>2. CASE ~UNCHANGED <<queue, client>>
    <2>1. /\ state[r] = "idle" /\ queue' = Append(queue, r)
          /\ state' = [state EXCEPT ![r] = IF Len(queue) < QueueLen THEN "queued" ELSE "backlog"]
          /\ done' = done /\ failed' = failed
          /\ worker' = worker /\ cdr' = cdr /\ buf' = buf /\ result' = result
          /\ hw' = hw /\ thread' = thread
      BY <1>2 DEF Submit
    <2>2. need' \in [Reqs -> 1 .. MaxDesc] /\ \A q \in Reqs \ {r} : need'[q] = need[q]
      BY <1>2, ClientTypes DEF Submit
    <2>3. /\ DOMAIN queue' = 1 .. Len(queue) + 1 /\ Len(queue) \in Nat
          /\ DOMAIN queue = 1 .. Len(queue) /\ Len(queue') = Len(queue) + 1
          /\ \A k \in DOMAIN queue : queue'[k] = queue[k] /\ queue[k] \in Reqs
          /\ queue'[Len(queue) + 1] = r
      BY <2>1, ClientTypes
    <2>4. /\ state' \in [Reqs -> {"idle", "queued", "backlog"}]
          /\ state'[r] \in {"queued", "backlog"} /\ \A q \in Reqs \ {r} : state'[q] = state[q]
      BY <2>1, ClientTypes
    <2>5. /\ ~Queued(r) /\ (Sending => worker.req # r)
          /\ \A i \in Slots : InRing(i) => buf[i].req # r
          /\ thread.pc = "result" => thread.req # r
      BY <2>1 DEF Contents, Places, Queued
    <2>6. \A i \in Slots : /\ InRing(i)' <=> InRing(i)
                           /\ Finished(i)' <=> Finished(i)
                           /\ Pending(i)' <=> Pending(i)
      BY <2>1 DEF InRing, Finished, Pending, Occupied
    <2>7. Queued(r)' /\ \A q : q # r => (Queued(q)' <=> Queued(q))
      BY <2>3 DEF Queued
    <2>8. \A q : PendingOf(q)' = PendingOf(q)
      BY <2>1, <2>6 DEF PendingOf
    <2>9. Sending' <=> Sending
      BY <2>1 DEF Sending
    <2>10. Places'
      <3>1. \A k \in DOMAIN queue' : state'[queue'[k]] # "idle"
        BY <2>3, <2>4 DEF Contents, Places
      <3>2. \A k, l \in DOMAIN queue' : queue'[k] = queue'[l] => k = l
        BY <2>3, <2>5 DEF Contents, Places, Queued
      <3>3. Sending' => state'[worker'.req] = "queued" /\ ~Queued(worker.req)'
        BY <2>1, <2>4, <2>5, <2>7, <2>9 DEF Contents, Places, Base, WorkerFrame
      <3>4. \A i \in Slots : InRing(i)' =>
              buf'[i].req \in Reqs /\ state'[buf'[i].req] = "queued" /\ ~Queued(buf[i].req)'
        BY <2>1, <2>4, <2>5, <2>6, <2>7 DEF Contents, Places
      <3>5. thread'.pc = "result" => state'[thread'.req] = "queued" /\ ~Queued(thread.req)'
        BY <2>1, <2>4, <2>5, <2>7 DEF Contents, Places, Base, ThreadFrame
      <3> QED BY <3>1, <3>2, <3>3, <3>4, <3>5 DEF Places
    <2>11. LastIsLast'
      BY <2>1, <2>6, <2>9 DEF Contents, LastIsLast
    <2>12. Backlog'
      <3>1. state'[r] = "backlog" => Len(queue) + 1 > QueueLen
        BY <2>1, <2>3, ClientTypes, Eip93Assumption
      <3>2. \A k \in DOMAIN queue : state'[queue'[k]] = state[queue[k]]
        BY <2>3, <2>4, <2>5 DEF Queued
      <3>3. \A k \in DOMAIN queue' : state'[queue'[k]] = "backlog" =>
               k > QueueLen \/ (Sending' /\ queue'[k] = worker'.backlog)
        BY <2>1, <2>3, <2>9, <3>1, <3>2 DEF Contents, Backlog
      <3>4. Sending' /\ worker'.backlog # NoReq =>
              Len(queue') >= QueueLen /\ queue'[QueueLen] = worker'.backlog
        BY <2>1, <2>3, <2>9, Eip93Assumption DEF Contents, Backlog
      <3> QED BY <3>3, <3>4 DEF Backlog
    <2>13. Descriptors'
      <3> SUFFICES ASSUME NEW q \in Reqs
                   PROVE  IF state'[q] = "idle" THEN done'[q] = 0
                          ELSE need'[q] = done'[q] + Cardinality(PendingOf(q)')
                                 + (IF Sending' /\ worker'.req = q THEN worker'.left ELSE 0)
                                 + (IF Queued(q)' THEN need'[q] ELSE 0)
        BY DEF Descriptors
      <3>1. CASE q = r
        <4>1. PendingOf(r)' = {} /\ Cardinality({}) = 0
          BY <2>5, <2>8, FS_EmptySet DEF PendingOf, Pending
        <4>2. done[r] = 0
          BY <2>1 DEF Contents, Descriptors
        <4>3. need'[r] \in Nat
          BY <2>2
        <4> QED BY <2>1, <2>4, <2>5, <2>7, <2>9, <3>1, <4>1, <4>2, <4>3
      <3>2. CASE q # r
        BY <2>1, <2>2, <2>4, <2>7, <2>8, <2>9, <3>2 DEF Contents, Descriptors
      <3> QED BY <3>1, <3>2
    <2>14. Errors'
      <3>1. \A i \in Slots : Finished(i) => buf[i].req # r /\ buf[i].req \in Reqs
        BY <2>5 DEF Finished, Contents, Places
      <3>2. thread.pc = "result" => need'[thread.req] = need[thread.req]
        BY <2>2, <2>5 DEF Base, ThreadFrame
      <3>3. \A i \in Slots : Finished(i) => need'[buf[i].req] = need[buf[i].req]
        BY <2>2, <3>1
      <3> QED BY <2>1, <2>6, <3>2, <3>3 DEF Contents, Errors
    <2> QED BY <2>10, <2>11, <2>12, <2>13, <2>14 DEF Contents
  <1> QED BY <1>1, <1>2

LEMMA DequeueContents ==
  ASSUME Base, Counts, Contents, Dequeue
  PROVE  Contents'
  <1>1. CASE queue = <<>>
    <2>1. Same
      BY <1>1, Types DEF Same, Sending, Dequeue, WorkerFrames
    <2> QED BY <2>1, SameContents
  <1>2. CASE queue # <<>>
    <2> DEFINE b == IF Len(queue) > QueueLen THEN queue[QueueLen + 1] ELSE NoReq
    <2>1. /\ queue' = Tail(queue) /\ worker.pc = "get"
          /\ state' = state /\ need' = need /\ done' = done /\ failed' = failed
          /\ cdr' = cdr /\ buf' = buf /\ result' = result /\ hw' = hw /\ thread' = thread
      BY <1>2 DEF Dequeue
    <2>2. /\ worker'.pc = "send" /\ worker'.req = queue[1] /\ worker'.left = need[queue[1]]
          /\ worker'.backlog = b
      <3>1. worker' = [worker EXCEPT !.pc = "send", !.req = Head(queue),
                         !.left = need[Head(queue)], !.backlog = b]
        BY <1>2 DEF Dequeue
      <3>2. Head(queue) = queue[1]
        BY <1>2, ClientTypes
      <3> HIDE DEF b
      <3> QED BY <3>1, <3>2, Types DEF WorkerFrames
    <2>3. /\ Len(queue) \in Nat /\ Len(queue) >= 1 /\ DOMAIN queue = 1 .. Len(queue)
          /\ Len(queue') = Len(queue) - 1 /\ DOMAIN queue' = 1 .. Len(queue) - 1
          /\ \A k \in DOMAIN queue' : queue'[k] = queue[k + 1]
          /\ \A k \in DOMAIN queue : queue[k] \in Reqs
      BY <1>2, <2>1, ClientTypes
    <2>4. ~Sending /\ Sending' /\ queue[1] \in Reqs /\ Queued(queue[1])
      BY <2>1, <2>2, <2>3 DEF Sending, Queued
    <2>5. \A q : Queued(q)' <=> Queued(q) /\ q # queue[1]
      <3>1. \A k \in DOMAIN queue : k # 1 => k - 1 \in DOMAIN queue' /\ queue'[k - 1] = queue[k]
        BY <2>3
      <3>2. \A k \in DOMAIN queue' : queue'[k] # queue[1] /\ k + 1 \in DOMAIN queue
        BY <2>3 DEF Contents, Places
      <3> QED BY <2>3, <3>1, <3>2 DEF Queued
    <2>6. \A i \in Slots : /\ InRing(i)' <=> InRing(i)
                           /\ Finished(i)' <=> Finished(i)
                           /\ Pending(i)' <=> Pending(i)
      BY <2>1 DEF InRing, Finished, Pending, Occupied
    <2>7. \A q : PendingOf(q)' = PendingOf(q)
      BY <2>1, <2>6 DEF PendingOf
    <2>8. state[queue[1]] = "queued"
      <3>1. state[queue[1]] # "idle" /\ state[queue[1]] # "backlog"
        BY <2>3, <2>4, Eip93Assumption DEF Contents, Places, Backlog
      <3> QED BY <2>4, <3>1, ClientTypes
    <2>9. Places'
      <3>1. \A k \in DOMAIN queue' : state'[queue'[k]] # "idle"
        BY <2>1, <2>3 DEF Contents, Places
      <3>2. \A k, l \in DOMAIN queue' : queue'[k] = queue'[l] => k = l
        BY <2>3 DEF Contents, Places
      <3>3. Sending' => state'[worker'.req] = "queued" /\ ~Queued(worker.req)'
        BY <2>1, <2>2, <2>5, <2>8
      <3>4. \A i \in Slots : InRing(i)' =>
              buf'[i].req \in Reqs /\ state'[buf'[i].req] = "queued" /\ ~Queued(buf[i].req)'
        BY <2>1, <2>5, <2>6 DEF Contents, Places
      <3>5. thread'.pc = "result" => state'[thread'.req] = "queued" /\ ~Queued(thread.req)'
        BY <2>1, <2>5 DEF Contents, Places
      <3> QED BY <3>1, <3>2, <3>3, <3>4, <3>5 DEF Places
    <2>10. LastIsLast'
      <3>1. \A i \in Slots : InRing(i) => buf[i].req # queue[1]
        BY <2>4 DEF Contents, Places
      <3>2. thread.pc = "result" => thread.req # queue[1]
        BY <2>4 DEF Contents, Places
      <3> QED BY <2>1, <2>2, <2>6, <3>1, <3>2 DEF Contents, LastIsLast
    <2>11. Backlog'
      <3>1. ASSUME NEW k \in DOMAIN queue', state[queue'[k]] = "backlog"
            PROVE  k > QueueLen \/ queue'[k] = b
        <4>1. k + 1 \in DOMAIN queue /\ k + 1 > QueueLen /\ queue'[k] = queue[k + 1] /\ k \in Nat
          BY <2>3, <2>4, <3>1 DEF Contents, Backlog
        <4>2. CASE k = QueueLen
          BY <2>3, <4>1, <4>2
        <4> QED BY <4>1, <4>2, Eip93Assumption
      <3>2. b # NoReq => Len(queue') >= QueueLen /\ queue'[QueueLen] = b
        BY <2>3, Eip93Assumption
      <3> QED BY <2>1, <2>2, <2>4, <3>1, <3>2 DEF Backlog
    <2>12. Descriptors'
      <3> SUFFICES ASSUME NEW q \in Reqs
                   PROVE  IF state[q] = "idle" THEN done[q] = 0
                          ELSE need[q] = done[q] + Cardinality(PendingOf(q))
                                 + (IF worker'.req = q THEN worker'.left ELSE 0)
                                 + (IF Queued(q)' THEN need[q] ELSE 0)
        BY <2>1, <2>4, <2>7 DEF Descriptors
      <3>1. CASE q = queue[1]
        <4>1. need[q] = done[q] + Cardinality(PendingOf(q)) + 0 + need[q]
          BY <2>4, <2>8, <3>1 DEF Contents, Descriptors
        <4>2. need[q] \in Nat /\ done[q] \in Nat /\ Cardinality(PendingOf(q)) \in Nat
          BY PendingFinite, ClientTypes
        <4>3. need[q] = done[q] + Cardinality(PendingOf(q)) + need[q] + 0
          BY <4>1, <4>2
        <4> QED BY <2>2, <2>5, <2>8, <3>1, <4>3
      <3>2. CASE q # queue[1]
        BY <2>2, <2>4, <2>5, <3>2 DEF Contents, Descriptors
      <3> QED BY <3>1, <3>2
    <2>13. Errors'
      BY <2>1, <2>6 DEF Contents, Errors
    <2> QED BY <2>9, <2>10, <2>11, <2>12, <2>13 DEF Contents
  <1> QED BY <1>1, <1>2

LEMMA GetReqContents ==
  ASSUME Base, Counts, Contents, GetReq
  PROVE  Contents'
  <1>1. CASE buf[rdr.read].req = NoReq
    <2>1. Same
      BY <1>1, Types DEF Same, Sending, GetReq, ThreadFrames
    <2> QED BY <2>1, SameContents
  <1>2. CASE buf[rdr.read].req # NoReq
    <2>1. /\ queue' = queue /\ worker' = worker
          /\ state' = state /\ need' = need /\ done' = done /\ failed' = failed
          /\ cdr' = cdr /\ buf' = buf /\ result' = result /\ hw' = hw
      BY DEF GetReq
    <2>2. /\ thread.pc = "get" /\ thread'.pc = "result" /\ thread'.req = buf[cdr.read].req
          /\ thread'.ndesc = 0 /\ ~thread'.complete /\ thread'.ret = "ok"
      BY <1>2, Types DEF GetReq, ThreadFrames, Base, ThreadFrame
    <2>3. InRing(cdr.read)
      BY <2>2, ReadFinished DEF Base, ThreadFrame, Finished
    <2>4. \A i \in Slots : /\ InRing(i)' <=> InRing(i)
                           /\ Finished(i)' <=> Finished(i)
                           /\ Pending(i)' <=> Pending(i)
      BY <2>1 DEF InRing, Finished, Pending, Occupied
    <2>5. \A q : PendingOf(q)' = PendingOf(q) /\ (Queued(q)' <=> Queued(q))
      BY <2>1, <2>4 DEF PendingOf, Queued
    <2>6. Sending' <=> Sending
      BY <2>1 DEF Sending
    <2>7. Places'
      BY <2>1, <2>2, <2>3, <2>4, <2>5, <2>6, Numbers DEF Contents, Places
    <2>8. LastIsLast'
      BY <2>1, <2>2, <2>4, <2>6 DEF Contents, LastIsLast
    <2>9. Backlog'
      BY <2>1, <2>6 DEF Contents, Backlog
    <2>10. Descriptors'
      BY <2>1, <2>5, <2>6 DEF Contents, Descriptors
    <2>11. Errors'
      BY <2>1, <2>2, <2>4 DEF Contents, Errors
    <2> QED BY <2>7, <2>8, <2>9, <2>10, <2>11 DEF Contents
  <1> QED BY <1>1, <1>2

LEMMA AheadInjective ==
  ASSUME NEW p \in Slots, NEW i \in Slots, NEW j \in Slots
  PROVE  Ahead(p, i) = Ahead(p, j) => i = j
  BY Eip93Assumption DEF Ahead, Slots

\* One more slot is in the ring, and pending.
LEMMA RingAfterPush ==
  ASSUME Base, Counts, ~RingFull(cdr), cdr' = Push(cdr), hw' = hw
  PROVE  /\ cdr'.read = cdr.read /\ ~InRing(cdr.write) /\ cdr.write \in Slots
         /\ \A i \in Slots : /\ InRing(i)' <=> InRing(i) \/ i = cdr.write
                             /\ Finished(i)' <=> Finished(i)
                             /\ Pending(i)' <=> Pending(i) \/ i = cdr.write
                             /\ InRing(i) => Ahead(cdr.read, i) < Ahead(cdr.read, cdr.write)
  <1>1. cdr'.read = cdr.read /\ Occupied' = Occupied + 1
    BY Types, PushIs DEF Occupied
  <1>2. Occupied = Ahead(cdr.read, cdr.write) /\ Ahead(cdr.read, hw.pos) <= Occupied
    BY Numbers DEF Occupied, Counts
  <1>3. \A i \in Slots : /\ Ahead(cdr.read, i) \in Nat
                         /\ Ahead(cdr.read, i) = Occupied => i = cdr.write
    BY <1>2, Numbers, AheadIs, AheadInjective
  <1>4. \A i \in Slots : InRing(i)' <=> InRing(i) \/ i = cdr.write
    BY <1>1, <1>2, <1>3, Numbers DEF InRing
  <1>5. ~InRing(cdr.write) /\ cdr.write \in Slots
    BY <1>2, Numbers DEF InRing
  <1>6. \A i \in Slots : InRing(i) => Ahead(cdr.read, i) < Ahead(cdr.read, cdr.write)
    BY <1>2 DEF InRing
  <1>7. \A i \in Slots : Finished(i)' <=> Finished(i)
    <2>1. ~(Ahead(cdr.read, cdr.write) < Ahead(cdr.read, hw.pos))
      BY <1>2, Numbers
    <2> QED BY <1>1, <1>4, <2>1 DEF Finished
  <1>8. \A i \in Slots : Pending(i)' <=> Pending(i) \/ i = cdr.write
    <2>1. Ahead(cdr.read, cdr.write) >= Ahead(cdr.read, hw.pos)
      BY <1>2, Numbers
    <2> QED BY <1>1, <1>4, <2>1 DEF Pending
  <1> QED BY <1>1, <1>4, <1>5, <1>6, <1>7, <1>8

LEMMA AddDescContents ==
  ASSUME Base, Counts, Contents, AddDesc
  PROVE  Contents'
  <1>1. CASE RingFull(cdr)
    <2>1. Same
      BY <1>1, Types DEF Same, Sending, AddDesc, WorkerFrames
    <2> QED BY <2>1, SameContents
  <1>2. CASE ~RingFull(cdr)
    <2> DEFINE w == cdr.write
               r == worker.req
    <2>1. /\ queue' = queue /\ need' = need /\ done' = done /\ failed' = failed
          /\ cdr' = Push(cdr) /\ hw' = hw /\ thread' = thread
          /\ buf' = [buf EXCEPT ![w] = [req |-> r, last |-> worker.left = 1]]
          /\ result' = [result EXCEPT ![w] = "none"] /\ worker.pc = "send"
      BY <1>2, Types DEF AddDesc
    <2>2. /\ cdr'.read = cdr.read /\ ~InRing(w) /\ w \in Slots
          /\ \A i \in Slots : /\ InRing(i)' <=> InRing(i) \/ i = w
                              /\ Finished(i)' <=> Finished(i)
                              /\ Pending(i)' <=> Pending(i) \/ i = w
                              /\ InRing(i) => Ahead(cdr.read, i) < Ahead(cdr.read, w)
      BY <1>2, <2>1, RingAfterPush
    <2>3. Sending /\ r \in Reqs /\ worker.left >= 1 /\ worker.left \in Nat
      BY <2>1, Numbers DEF Sending, Base, WorkerFrame
    <2>4. /\ Sending' <=> worker.left > 1
          /\ Sending' => /\ worker'.req = r /\ worker'.left = worker.left - 1
                         /\ worker'.backlog = worker.backlog
          /\ \A q \in Reqs : state'[q] = IF ~Sending' /\ q = worker.backlog THEN "queued"
                                         ELSE state[q]
      <3>1. CASE worker.left > 1
        BY <1>2, <2>1, <3>1, Types DEF AddDesc, WorkerFrames, Sending
      <3>2. CASE ~(worker.left > 1)
        BY <1>2, <2>1, <3>2 DEF AddDesc, NoWorker, Sending
      <3> QED BY <3>1, <3>2
    <2>5. \A q \in Reqs : /\ state'[q] = "idle" <=> state[q] = "idle"
                          /\ state[q] = "queued" => state'[q] = "queued"
                          /\ state'[q] = "backlog" => state[q] = "backlog"
      <3>1. worker.backlog \in Reqs => state[worker.backlog] # "idle"
        <4>1. worker.backlog \in Reqs => /\ QueueLen \in DOMAIN queue
                                         /\ queue[QueueLen] = worker.backlog
          BY <2>3, ClientTypes, Eip93Assumption DEF Contents, Backlog
        <4> QED BY <4>1 DEF Contents, Places
      <3> QED BY <2>4, <3>1, ClientTypes
    <2>6. /\ buf'[w].req = r /\ (buf'[w].last <=> worker.left = 1)
          /\ \A i \in Slots : i # w => buf'[i] = buf[i] /\ result'[i] = result[i]
      BY <2>1, <2>2 DEF Base, TypeOK
    <2>7. \A q : Queued(q)' <=> Queued(q)
      BY <2>1 DEF Queued
    <2>8. Places'
      <3>1. \A k \in DOMAIN queue' : state'[queue'[k]] # "idle"
        BY <2>1, <2>5, ClientTypes DEF Contents, Places
      <3>2. \A k, l \in DOMAIN queue' : queue'[k] = queue'[l] => k = l
        BY <2>1 DEF Contents, Places
      <3>3. Sending' => state'[worker'.req] = "queued" /\ ~Queued(worker.req)'
        BY <2>3, <2>4, <2>5, <2>7 DEF Contents, Places
      <3>4. \A i \in Slots : InRing(i)' =>
              buf'[i].req \in Reqs /\ state'[buf'[i].req] = "queued" /\ ~Queued(buf[i].req)'
        BY <2>2, <2>3, <2>5, <2>6, <2>7 DEF Contents, Places
      <3>5. thread'.pc = "result" => state'[thread'.req] = "queued" /\ ~Queued(thread.req)'
        BY <2>1, <2>5, <2>7 DEF Contents, Places, Base, ThreadFrame
      <3> QED BY <3>1, <3>2, <3>3, <3>4, <3>5 DEF Places
    <2>9. LastIsLast'
      <3>1. \A i \in Slots : InRing(i)' /\ buf'[i].last /\ Sending' => buf'[i].req # worker'.req
        BY <2>2, <2>3, <2>4, <2>6 DEF Contents, LastIsLast
      <3>2. \A i, j \in Slots : /\ InRing(i)' /\ InRing(j)' /\ buf'[i].last
                                /\ Ahead(cdr'.read, i) < Ahead(cdr'.read, j)
                                => buf'[i].req # buf'[j].req
        <4> SUFFICES ASSUME NEW i \in Slots, NEW j \in Slots, InRing(i)', InRing(j)',
                            buf'[i].last, Ahead(cdr.read, i) < Ahead(cdr.read, j)
                     PROVE  buf'[i].req # buf'[j].req
          BY <2>2
        <4>1. i # w
          <5>1. InRing(j) \/ j = w
            BY <2>2
          <5>2. Ahead(cdr.read, i) \in Nat /\ Ahead(cdr.read, j) \in Nat
                /\ Ahead(cdr.read, w) \in Nat
            BY Numbers, AheadIs
          <5> QED BY <2>2, <5>1, <5>2
        <4> QED BY <2>2, <2>3, <2>6, <4>1 DEF Contents, LastIsLast
      <3>3. thread'.pc = "result" /\ thread'.ndesc = 0 =>
              buf'[cdr'.read].req = thread'.req /\ ~thread'.complete
        <4>1. thread.pc = "result" /\ thread.ndesc = 0 => cdr.read # w
          BY <2>2, ReadFinished DEF Finished
        <4> QED BY <2>1, <2>2, <2>6, <4>1, Numbers DEF Contents, LastIsLast
      <3>4. thread'.pc = "result" /\ thread'.complete =>
              /\ thread'.ndesc = 1
              /\ Sending' => worker'.req # thread'.req
              /\ \A i \in Slots : InRing(i)' => buf'[i].req # thread'.req
        BY <2>1, <2>2, <2>3, <2>4, <2>6 DEF Contents, LastIsLast
      <3> QED BY <3>1, <3>2, <3>3, <3>4 DEF LastIsLast
    <2>10. Backlog'
      <3>1. \A k \in DOMAIN queue : queue[k] \in Reqs
        BY ClientTypes
      <3> QED BY <2>1, <2>3, <2>4, <3>1 DEF Contents, Backlog
    <2>11. Descriptors'
      <3> SUFFICES ASSUME NEW q \in Reqs
                   PROVE  IF state'[q] = "idle" THEN done[q] = 0
                          ELSE need[q] = done[q] + Cardinality(PendingOf(q)')
                                 + (IF Sending' /\ worker'.req = q THEN worker'.left ELSE 0)
                                 + (IF Queued(q) THEN need[q] ELSE 0)
        BY <2>1, <2>7 DEF Descriptors
      <3>1. CASE q = r
        <4>1. PendingOf(q)' = PendingOf(q) \cup {w} /\ w \notin PendingOf(q)
          BY <2>2, <2>6, <3>1 DEF PendingOf, Pending
        <4>2. Cardinality(PendingOf(q)') = Cardinality(PendingOf(q)) + 1
          BY <4>1, PendingFinite, FS_AddElement
        <4>3. state[q] = "queued" /\ ~Queued(q)
          BY <2>3, <3>1 DEF Contents, Places
        <4>4. need[q] = done[q] + Cardinality(PendingOf(q)) + worker.left + 0
          BY <2>3, <3>1, <4>3 DEF Contents, Descriptors
        <4>5. (IF Sending' /\ worker'.req = q THEN worker'.left ELSE 0) = worker.left - 1
          BY <2>3, <2>4, <3>1
        <4>6. need[q] \in Nat /\ done[q] \in Nat /\ Cardinality(PendingOf(q)) \in Nat
          BY <2>3, PendingFinite, ClientTypes
        <4>7. need[q] = done[q] + Cardinality(PendingOf(q)') + (worker.left - 1) + 0
          BY <2>3, <4>2, <4>4, <4>6
        <4> QED BY <2>3, <2>5, <3>1, <4>3, <4>5, <4>7
      <3>2. CASE q # r
        <4>1. PendingOf(q)' = PendingOf(q)
          BY <2>2, <2>6, <3>2 DEF PendingOf, Pending
        <4> QED BY <2>3, <2>4, <2>5, <3>2, <4>1 DEF Contents, Descriptors
      <3> QED BY <3>1, <3>2
    <2>12. Errors'
      <3>1. \A i \in Slots : Finished(i) => i # w
        BY <2>2 DEF Finished
      <3> QED BY <2>1, <2>2, <2>6, <3>1 DEF Contents, Errors
    <2> QED BY <2>8, <2>9, <2>10, <2>11, <2>12 DEF Contents
  <1> QED BY <1>1, <1>2

LEMMA EngineContents ==
  ASSUME Base, Counts, Contents, Engine
  PROVE  Contents'
  <1>1. /\ queue' = queue /\ worker' = worker /\ state' = state /\ need' = need
        /\ cdr' = cdr /\ buf' = buf /\ thread' = thread
        /\ hw.cd > 0 /\ hw'.pos = Next1(hw.pos)
    BY Types DEF Engine, Engines
  <1>2. PICK p \in Slots : p = hw.pos
    BY Numbers
  <1>3. PICK r : r = buf[p].req
    OBVIOUS
  <1>4. PICK x \in {"ok", "err"} :
          /\ result' = [result EXCEPT ![p] = x]
          /\ failed' = IF x = "err" THEN [failed EXCEPT ![r] = TRUE] ELSE failed
          /\ done' = [done EXCEPT ![r] = done[r] + 1]
    BY <1>2, <1>3 DEF Engine
  <1>5. Ahead(cdr.read, p) < Occupied /\ Ahead(cdr.read, hw'.pos) = Ahead(cdr.read, p) + 1
    <2>1. Ahead(cdr.read, p) < Occupied
      BY <1>1, <1>2, Numbers DEF Counts
    <2> QED BY <1>1, <1>2, <2>1, Numbers, AheadNext DEF Occupied
  <1>6. Pending(p) /\ InRing(p)
    BY <1>2, <1>5, Numbers DEF InRing, Pending
  <1>7. \A i \in Slots : InRing(i)' <=> InRing(i)
    BY <1>1 DEF InRing, Occupied
  <1>8. \A i \in Slots : /\ Finished(i)' <=> Finished(i) \/ i = p
                         /\ Pending(i)' <=> Pending(i) /\ i # p
    <2>1. \A i \in Slots : /\ Ahead(cdr.read, i) \in Nat
                           /\ Ahead(cdr.read, i) = Ahead(cdr.read, p) => i = p
      BY Numbers, AheadIs, AheadInjective
    <2>2. \A i \in Slots : /\ Finished(i) <=> InRing(i) /\ Ahead(cdr.read, i) < Ahead(cdr.read, p)
                           /\ Pending(i) <=> InRing(i) /\ Ahead(cdr.read, i) >= Ahead(cdr.read, p)
      BY <1>2 DEF Finished, Pending
    <2>3. \A i \in Slots :
            /\ Finished(i)' <=> InRing(i) /\ Ahead(cdr.read, i) < Ahead(cdr.read, p) + 1
            /\ Pending(i)' <=> InRing(i) /\ Ahead(cdr.read, i) >= Ahead(cdr.read, p) + 1
      BY <1>1, <1>5, <1>7 DEF Finished, Pending
    <2> QED BY <1>6, <2>1, <2>2, <2>3
  <1>9. r \in Reqs /\ state[r] = "queued" /\ ~Queued(r)
    BY <1>3, <1>6 DEF Contents, Places
  <1>10. /\ done'[r] = done[r] + 1 /\ done[r] \in Nat /\ need[r] \in Nat
         /\ \A q \in Reqs : q # r => done'[q] = done[q] /\ failed'[q] = failed[q]
         /\ failed'[r] <=> x = "err" \/ failed[r]
         /\ \A i \in Slots : i # p => result'[i] = result[i]
         /\ result'[p] = x
    <2>1. /\ done \in [Reqs -> Nat] /\ need \in [Reqs -> 1 .. MaxDesc]
          /\ result \in [Slots -> {"none", "ok", "err"}]
      BY DEF Base, TypeOK
    <2>2. failed \in [Reqs -> BOOLEAN]
      BY DEF Base, TypeOK
    <2>3. done'[r] = done[r] + 1 /\ \A q \in Reqs : q # r => done'[q] = done[q]
      BY <1>4, <1>9, <2>1
    <2>4. /\ \A q \in Reqs : q # r => failed'[q] = failed[q]
          /\ failed'[r] <=> x = "err" \/ failed[r]
      BY <1>4, <1>9, <2>2
    <2>5. result'[p] = x /\ \A i \in Slots : i # p => result'[i] = result[i]
      BY <1>4, <2>1
    <2>6. done[r] \in Nat /\ need[r] \in Nat
      BY <1>9, <2>1
    <2> QED BY <2>3, <2>4, <2>5, <2>6
  <1>11. Sending' <=> Sending
    BY <1>1 DEF Sending
  <1>12. \A q : Queued(q)' <=> Queued(q)
    BY <1>1 DEF Queued
  <1>13. Places'
    BY <1>1, <1>7, <1>11, <1>12 DEF Contents, Places
  <1>14. LastIsLast'
    BY <1>1, <1>7, <1>11 DEF Contents, LastIsLast
  <1>15. Backlog'
    BY <1>1, <1>11 DEF Contents, Backlog
  <1>16. PendingOf(r)' = PendingOf(r) \ {p} /\ p \in PendingOf(r)
    BY <1>1, <1>3, <1>6, <1>8 DEF PendingOf
  <1>17. /\ Cardinality(PendingOf(r)') = Cardinality(PendingOf(r)) - 1
         /\ Cardinality(PendingOf(r)) \in Nat \ {0}
    <2>1. /\ Cardinality(PendingOf(r)') = Cardinality(PendingOf(r)) - 1
          /\ Cardinality(PendingOf(r)) \in Nat
      BY <1>16, PendingFinite, FS_RemoveElement
    <2>2. Cardinality(PendingOf(r)) # 0
      BY <1>16, PendingFinite, FS_EmptySet
    <2> QED BY <2>1, <2>2
  <1>18. need[r] = done[r] + Cardinality(PendingOf(r))
                   + (IF Sending /\ worker.req = r THEN worker.left ELSE 0) + 0
    BY <1>9 DEF Contents, Descriptors
  <1>19. Descriptors'
    <2> SUFFICES ASSUME NEW q \in Reqs
                 PROVE  IF state[q] = "idle" THEN done'[q] = 0
                        ELSE need[q] = done'[q] + Cardinality(PendingOf(q)')
                               + (IF Sending /\ worker.req = q THEN worker.left ELSE 0)
                               + (IF Queued(q) THEN need[q] ELSE 0)
      BY <1>1, <1>11, <1>12 DEF Descriptors
    <2>1. CASE q = r
      <3>1. PICK s \in Nat : s = IF Sending /\ worker.req = r THEN worker.left ELSE 0
        BY Numbers
      <3>2. need[r] = done[r] + Cardinality(PendingOf(r)) + s + 0
        BY <1>18, <3>1
      <3>3. need[r] = done'[r] + Cardinality(PendingOf(r)') + s + 0
        BY <1>10, <1>17, <3>2
      <3> QED BY <1>9, <2>1, <3>1, <3>3
    <2>2. CASE q # r
      <3>1. PendingOf(q)' = PendingOf(q)
        BY <1>1, <1>3, <1>8, <2>2 DEF PendingOf
      <3> QED BY <1>10, <2>2, <3>1 DEF Contents, Descriptors
    <2> QED BY <2>1, <2>2
  <1>20. need[r] = 1 => done[r] = 0 /\ ~failed[r]
    <2>1. PICK s \in Nat : s = IF Sending /\ worker.req = r THEN worker.left ELSE 0
      BY Numbers
    <2>2. need[r] = done[r] + Cardinality(PendingOf(r)) + s + 0
      BY <1>18, <2>1
    <2>3. need[r] = 1 => done[r] = 0
      BY <1>10, <1>17, <2>2
    <2> QED BY <1>9, <2>3 DEF Contents, Errors
  <1>21. Errors'
    <2>1. \A q \in Reqs : done'[q] = 0 => ~failed'[q]
      BY <1>10 DEF Contents, Errors
    <2>2. ASSUME NEW i \in Slots, Finished(i)'
          PROVE  /\ done'[buf[i].req] >= 1
                 /\ need[buf[i].req] = 1 => (result'[i] = "err" <=> failed'[buf[i].req])
      <3>1. CASE i = p
        BY <1>3, <1>10, <1>20, <3>1
      <3>2. CASE i # p
        <4>1. Finished(i) /\ buf[i].req \in Reqs
          BY <1>8, <2>2, <3>2 DEF Contents, Places, Finished
        <4>2. /\ done[buf[i].req] >= 1
              /\ need[buf[i].req] = 1 => (result[i] = "err" <=> failed[buf[i].req])
          BY <4>1 DEF Contents, Errors
        <4>3. CASE buf[i].req = r
          BY <1>10, <1>20, <4>2, <4>3
        <4>4. CASE buf[i].req # r
          BY <1>10, <3>2, <4>1, <4>2, <4>4
        <4> QED BY <4>3, <4>4
      <3> QED BY <3>1, <3>2
    <2>3. thread.pc = "result" /\ thread.complete => thread.req \in Reqs \ {r}
      BY <1>3, <1>6 DEF Contents, LastIsLast, Base, ThreadFrame
    <2> QED BY <1>1, <1>10, <2>1, <2>2, <2>3 DEF Contents, Errors
  <1> QED BY <1>13, <1>14, <1>15, <1>19, <1>21 DEF Contents

LEMMA ConsumeContents ==
  ASSUME Base, Counts, Contents, Consume, ~merged'
  PROVE  Contents'
  <1>0. /\ queue' = queue /\ worker' = worker /\ state' = state /\ need' = need /\ done' = done
        /\ failed' = failed /\ buf' = buf /\ result' = result /\ hw' = hw
        /\ thread.pc = "result" /\ ~thread.complete
    BY DEF Consume, Consuming
  <1>1. CASE thread.ndesc # 0
    <2>1. RingEmpty(rdr)
      <3>1. ~RingEmpty(rdr) => thread'.ndesc = thread.ndesc + 1
        BY Types DEF Consume, ThreadFrames
      <3>2. ~(thread'.ndesc > 1)
        BY DEF Consume
      <3>3. thread.ndesc \in Nat
        BY Numbers
      <3> QED BY <1>1, <3>1, <3>2, <3>3
    <2>2. /\ cdr' = cdr /\ thread'.pc = thread.pc /\ thread'.req = thread.req
          /\ thread'.ndesc = thread.ndesc /\ thread'.complete = thread.complete
      BY <2>1, Types DEF Consume, ThreadFrames
    <2>3. Same
      BY <1>0, <1>1, <2>2 DEF Same, Sending
    <2> QED BY <2>3, SameContents
  <1>2. CASE thread.ndesc = 0
    <2>1. PICK x \in Slots : x = cdr.read
      BY Numbers
    <2>2. Finished(x) /\ InRing(x) /\ rdr = cdr
      BY <1>0, <1>2, <2>1, ReadFinished, Types DEF Finished
    <2>3. Ahead(cdr.read, x) = 0 /\ Occupied >= 1 /\ ~RingEmpty(rdr)
      <3>1. Ahead(cdr.read, x) = 0
        BY <2>1 DEF Ahead, Slots
      <3>2. Occupied >= 1
        BY <2>2, <3>1, Numbers DEF InRing
      <3>3. RingEmpty(rdr) => Occupied = 0
        BY <2>2, Numbers DEF RingEmpty, Occupied, Ahead, Slots
      <3> QED BY <3>1, <3>2, <3>3
    <2>4. /\ thread'.pc = "result" /\ thread'.req = thread.req /\ thread'.ndesc = 1
          /\ thread'.complete = buf[x].last
          /\ thread'.ret = IF result[x] = "err" THEN "err" ELSE thread.ret
      <3>1. thread' = [thread EXCEPT !.ndesc = thread.ndesc + 1, !.complete = buf[cdr.read].last,
                         !.ret = IF result[rdr.read] = "err" THEN "err" ELSE thread.ret]
        BY <2>3 DEF Consume
      <3>2. thread.ndesc + 1 = 1
        BY <1>2
      <3> QED BY <1>0, <2>1, <2>2, <3>1, <3>2, Types DEF ThreadFrames
    <2>5. cdr'.read = Next1(x) /\ Occupied' = Occupied - 1
      BY <2>1, <2>2, <2>3, Types, PopIs DEF Consume, Occupied
    <2>6. \A i \in Slots : /\ Ahead(cdr.read, i) \in Nat
                           /\ i # x => /\ Ahead(Next1(x), i) = Ahead(cdr.read, i) - 1
                                       /\ Ahead(cdr.read, i) >= 1
      BY <2>1, AheadPop, AheadIs, Numbers, Eip93Assumption DEF Ahead, Slots
    <2>7. \A i \in Slots : InRing(i)' <=> InRing(i) /\ i # x
      <3>1. Ahead(Next1(x), x) = RingSize - 1
        BY <2>1, Next1Is, Eip93Assumption DEF Ahead, Slots
      <3>2. ~(RingSize - 1 < Occupied - 1)
        BY Numbers, Eip93Assumption DEF Slots
      <3>3. \A i \in Slots : InRing(i)' <=> Ahead(Next1(x), i) < Occupied - 1
        BY <2>5 DEF InRing
      <3>4. Occupied \in Nat
        BY Numbers
      <3> QED BY <2>6, <3>1, <3>2, <3>3, <3>4 DEF InRing
    <2>8. /\ \A i \in Slots : Finished(i)' <=> Finished(i) /\ i # x
          /\ \A i \in Slots : Pending(i)' <=> Pending(i)
      <3>1. hw.pos # x
        BY <2>2, <2>3 DEF Finished
      <3>2. Ahead(cdr'.read, hw'.pos) = Ahead(cdr.read, hw.pos) - 1
        BY <1>0, <2>5, <2>6, <3>1, Numbers
      <3>3. Ahead(cdr.read, hw.pos) \in Nat /\ Ahead(cdr.read, hw.pos) >= 1
        BY <2>6, <3>1, Numbers
      <3>4. \A i \in Slots : i # x => Ahead(cdr'.read, i) = Ahead(cdr.read, i) - 1
        BY <2>5, <2>6
      <3>5. ~Pending(x)
        BY <2>3, <3>3 DEF Pending
      <3> QED BY <2>6, <2>7, <3>2, <3>3, <3>4, <3>5 DEF Finished, Pending
    <2>9. buf[x].req = thread.req
      BY <1>0, <1>2, <2>1 DEF Contents, LastIsLast
    <2>10. Sending' <=> Sending
      BY <1>0 DEF Sending
    <2>11. \A q : Queued(q)' <=> Queued(q)
      BY <1>0 DEF Queued
    <2>12. Places'
      BY <1>0, <2>4, <2>7, <2>10, <2>11 DEF Contents, Places
    <2>13. LastIsLast'
      <3>1. \A i \in Slots : InRing(i)' /\ buf'[i].last /\ Sending' => buf'[i].req # worker'.req
        BY <1>0, <2>7, <2>10 DEF Contents, LastIsLast
      <3>2. \A i, j \in Slots : /\ InRing(i)' /\ InRing(j)' /\ buf'[i].last
                                /\ Ahead(cdr'.read, i) < Ahead(cdr'.read, j)
                                => buf'[i].req # buf'[j].req
        <4> SUFFICES ASSUME NEW i \in Slots, NEW j \in Slots, InRing(i)', InRing(j)',
                            buf'[i].last, Ahead(cdr'.read, i) < Ahead(cdr'.read, j)
                     PROVE  buf'[i].req # buf'[j].req
          OBVIOUS
        <4>1. InRing(i) /\ InRing(j) /\ i # x /\ j # x
          BY <2>7
        <4>2. Ahead(cdr.read, i) < Ahead(cdr.read, j)
          BY <2>5, <2>6, <4>1
        <4> QED BY <1>0, <4>1, <4>2 DEF Contents, LastIsLast
      <3>3. buf[x].last =>
              /\ Sending => worker.req # thread.req
              /\ \A i \in Slots : InRing(i) /\ i # x => buf[i].req # thread.req
        <4>1. \A i \in Slots : i # x => Ahead(cdr.read, x) < Ahead(cdr.read, i)
          BY <2>3, <2>6
        <4> QED BY <2>2, <2>9, <4>1 DEF Contents, LastIsLast
      <3> QED BY <1>0, <2>4, <2>7, <2>10, <3>1, <3>2, <3>3 DEF LastIsLast
    <2>14. Backlog'
      BY <1>0, <2>10 DEF Contents, Backlog
    <2>15. Descriptors'
      <3>1. \A q : PendingOf(q)' = PendingOf(q)
        BY <1>0, <2>8 DEF PendingOf
      <3> QED BY <1>0, <2>10, <2>11, <3>1 DEF Contents, Descriptors
    <2>16. Errors'
      <3>1. thread.ret = "ok"
        BY <1>0, <1>2 DEF Contents, Errors
      <3>2. need[thread.req] = 1 => (result[x] = "err" <=> failed[thread.req])
        BY <2>2, <2>9 DEF Contents, Errors
      <3> QED BY <1>0, <2>4, <2>8, <3>1, <3>2 DEF Contents, Errors
    <2> QED BY <2>12, <2>13, <2>14, <2>15, <2>16 DEF Contents
  <1> QED BY <1>1, <1>2

LEMMA CompleteContents ==
  ASSUME Base, Counts, Contents, Complete
  PROVE  Contents'
  <1>1. /\ queue' = queue /\ worker' = worker /\ cdr' = cdr /\ buf' = buf /\ result' = result
        /\ hw' = hw /\ thread.pc = "result" /\ thread'.pc # "result" /\ thread.req \in Reqs
    BY DEF Complete, NoThread, Base, ThreadFrame
  <1>2. CASE ~thread.complete
    <2>1. Same
      BY <1>1, <1>2 DEF Same, Sending, Complete
    <2> QED BY <2>1, SameContents
  <1>3. CASE thread.complete
    <2>1. PICK r \in Reqs : r = thread.req
      BY <1>1
    <2>2. /\ ~Queued(r) /\ (Sending => worker.req # r)
          /\ \A i \in Slots : InRing(i) => buf[i].req # r
      BY <1>1, <1>3, <2>1 DEF Contents, Places, LastIsLast
    <2>3. /\ state'[r] = "idle" /\ done'[r] = 0
          /\ \A q \in Reqs : q # r => state'[q] = state[q] /\ need'[q] = need[q] /\ done'[q] = done[q]
      BY <1>3, <2>1, ClientTypes DEF Complete
    <2>4. ~failed'[r] /\ \A q \in Reqs : q # r => failed'[q] = failed[q]
      <3>1. failed \in [Reqs -> BOOLEAN]
        BY DEF Base, TypeOK
      <3> QED BY <1>3, <2>1, <3>1 DEF Complete
    <2>5. \A i \in Slots : /\ InRing(i)' <=> InRing(i)
                           /\ Finished(i)' <=> Finished(i)
                           /\ Pending(i)' <=> Pending(i)
      BY <1>1 DEF InRing, Finished, Pending, Occupied
    <2>6. \A q : /\ Queued(q)' <=> Queued(q)
                 /\ PendingOf(q)' = PendingOf(q)
      BY <1>1, <2>5 DEF Queued, PendingOf
    <2>7. Sending' <=> Sending
      BY <1>1 DEF Sending
    <2>8. \A k \in DOMAIN queue : queue[k] \in Reqs /\ queue[k] # r
      BY <2>2, ClientTypes DEF Queued
    <2>9. Places'
      <3>1. \A k \in DOMAIN queue' : state'[queue'[k]] # "idle"
        BY <1>1, <2>3, <2>8 DEF Contents, Places
      <3>2. \A k, l \in DOMAIN queue' : queue'[k] = queue'[l] => k = l
        BY <1>1 DEF Contents, Places
      <3>3. Sending' => state'[worker'.req] = "queued" /\ ~Queued(worker.req)'
        BY <1>1, <2>2, <2>3, <2>6, <2>7 DEF Contents, Places, Base, WorkerFrame
      <3>4. \A i \in Slots : InRing(i)' =>
              buf'[i].req \in Reqs /\ state'[buf'[i].req] = "queued" /\ ~Queued(buf[i].req)'
        BY <1>1, <2>2, <2>3, <2>5, <2>6 DEF Contents, Places
      <3> QED BY <1>1, <3>1, <3>2, <3>3, <3>4 DEF Places
    <2>10. LastIsLast'
      BY <1>1, <2>5, <2>7 DEF Contents, LastIsLast
    <2>11. Backlog'
      BY <1>1, <2>3, <2>7, <2>8 DEF Contents, Backlog
    <2>12. Descriptors'
      <3> SUFFICES ASSUME NEW q \in Reqs
                   PROVE  IF state'[q] = "idle" THEN done'[q] = 0
                          ELSE need'[q] = done'[q] + Cardinality(PendingOf(q))
                                 + (IF Sending /\ worker.req = q THEN worker.left ELSE 0)
                                 + (IF Queued(q) THEN need'[q] ELSE 0)
        BY <1>1, <2>6, <2>7 DEF Descriptors
      <3>1. CASE q = r
        BY <2>3, <3>1
      <3>2. CASE q # r
        BY <2>3, <3>2 DEF Contents, Descriptors
      <3> QED BY <3>1, <3>2
    <2>13. Errors'
      <3>1. \A q \in Reqs : done'[q] = 0 => ~failed'[q]
        BY <2>3, <2>4 DEF Contents, Errors
      <3>2. \A i \in Slots : Finished(i) => buf[i].req \in Reqs \ {r}
        BY <2>2 DEF Finished, Contents, Places
      <3> QED BY <1>1, <2>3, <2>4, <2>5, <3>1, <3>2 DEF Contents, Errors
    <2> QED BY <2>9, <2>10, <2>11, <2>12, <2>13 DEF Contents
  <1> QED BY <1>2, <1>3

-----------------------------------------------------------------------------
(* The theorems.                                                           *)

LEMMA InitIInv == Init => IInv
  <1> SUFFICES ASSUME Init PROVE IInv
    OBVIOUS
  <1>1. Base
    BY InitBase
  <1>2. /\ Occupied = 0 /\ Ahead(cdr.read, hw.pos) = 0
        /\ \A i \in Slots : ~InRing(i) /\ ~Finished(i) /\ ~Pending(i)
    <2>1. Occupied = 0 /\ Ahead(cdr.read, hw.pos) = 0
      BY Eip93Assumption DEF Init, Occupied, Ahead
    <2>2. \A i \in Slots : Ahead(cdr.read, i) \in Nat
      BY <1>1, Numbers, AheadIs
    <2> QED BY <2>1, <2>2 DEF InRing, Finished, Pending
  <1>3. Counts
    BY <1>2 DEF Init, Counts, NoWorker, NoThread
  <1>4. ~Sending /\ thread.pc = "idle" /\ \A k \in DOMAIN queue : FALSE
    BY DEF Init, Sending, NoWorker, NoThread
  <1>5. Places /\ LastIsLast /\ Backlog
    BY <1>2, <1>4 DEF Places, LastIsLast, Backlog
  <1>6. Descriptors /\ Errors
    BY <1>2, <1>4 DEF Init, Descriptors, Errors
  <1> QED BY <1>1, <1>3, <1>5, <1>6 DEF IInv, Contents

\* A driver that has lost count does not find it again.
LEMMA MergedStays ==
  ASSUME Base, [Next]_vars
  PROVE  merged => merged'
  BY DEF Base, TypeOK, Next, Worker, Thread, Submit, WorkStart, Dequeue, AddDesc, Finalize,
         Kick, Engine, RaiseIrq, Irq, GetReq, Consume, Complete, Acknowledge, RequestsLeft, vars

LEMMA StepIInv == IInv /\ [Next]_vars => IInv'
  <1> SUFFICES ASSUME IInv, [Next]_vars PROVE IInv'
    OBVIOUS
  <1>1. Base /\ Base'
    BY StepBase DEF IInv
  <1> SUFFICES ASSUME ~merged' PROVE Counts' /\ Contents'
    BY <1>1 DEF IInv
  <1>2. Counts /\ Contents
    BY <1>1, MergedStays DEF IInv
  <1>3. CASE \E r \in Reqs : Submit(r)
    BY <1>1, <1>2, <1>3, SubmitCounts, SubmitContents
  <1>4. CASE WorkStart \/ Finalize \/ Kick
    BY <1>1, <1>2, <1>4, WorkStartCounts, FinalizeCounts, KickCounts, WorkerSame, SameContents
  <1>5. CASE Dequeue \/ AddDesc
    BY <1>1, <1>2, <1>5, DequeueCounts, DequeueContents, AddDescCounts, AddDescContents
  <1>6. CASE Engine
    BY <1>1, <1>2, <1>6, EngineCounts, EngineContents
  <1>7. CASE RaiseIrq \/ Irq \/ Acknowledge \/ RequestsLeft
    BY <1>1, <1>2, <1>7, RaiseIrqCounts, IrqCounts, AcknowledgeCounts, RequestsLeftCounts,
       ThreadSame, SameContents
  <1>8. CASE GetReq \/ Consume \/ Complete
    BY <1>1, <1>2, <1>8, GetReqCounts, GetReqContents, ConsumeCounts, ConsumeContents,
       CompleteCounts, CompleteContents
  <1>9. CASE UNCHANGED vars
    <2>1. Same
      BY <1>9 DEF Same, Sending, vars
    <2>2. Counts'
      BY <1>2, <1>9 DEF Counts, Occupied, vars
    <2> QED BY <1>2, <2>1, <2>2, SameContents
  <1> QED BY <1>3, <1>4, <1>5, <1>6, <1>7, <1>8, <1>9 DEF Next, Worker, Thread

LEMMA SpecIInv == Spec => []IInv
  BY InitIInv, StepIInv, PTL DEF Spec

\* The interrupt thread works on a request whose caller still waits for it,
\* until one pass of mtk_req_result has consumed several descriptors.
THEOREM Eip93NoUseAfterComplete == Spec => []NoUseAfterComplete
  <1>1. IInv => NoUseAfterComplete
    BY DEF IInv, Contents, Places, NoUseAfterComplete
  <1> QED BY SpecIInv, <1>1, PTL

\* Only req->complete ends a request, and of the request the thread is at.
LEMMA CompletionIs ==
  ASSUME Base, [Next]_vars, NEW r \in Reqs, Completion(r), ~merged',
         Counts, Contents
  PROVE  /\ thread.pc = "result" /\ thread.complete /\ thread.req = r
  <1>1. Complete
    <2>1. state' # state
      BY DEF Completion
    <2>2. ~(\E q \in Reqs : Submit(q))
      <3> SUFFICES ASSUME NEW q \in Reqs, Submit(q) PROVE FALSE
        OBVIOUS
      <3>1. state'[q] # "idle" /\ state[q] = "idle" /\ \A p \in Reqs : p # q => state'[p] = state[p]
        BY <2>1, ClientTypes DEF Submit
      <3> QED BY <3>1 DEF Completion
    <2>3. ~AddDesc
      <3> SUFFICES ASSUME AddDesc PROVE FALSE
        OBVIOUS
      <3>1. \A p \in Reqs : state'[p] = "queued" \/ state'[p] = state[p]
        BY <2>1 DEF AddDesc
      <3> QED BY <3>1 DEF Completion
    <2> QED BY <2>1, <2>2, <2>3
      DEF Next, Worker, Thread, WorkStart, Dequeue, Finalize, Kick, Engine, RaiseIrq, Irq, GetReq,
          Consume, Acknowledge, RequestsLeft, vars
  <1> QED BY <1>1, ClientTypes DEF Complete, Completion

\* A request is completed when the engine has finished every one of its
\* descriptors, for requests of any number of descriptors that are consumed
\* one by one, until one pass has consumed several.
THEOREM Eip93CompletedIsDone == Spec => CompletedIsDone
  <1>1. IInv /\ [Next]_vars
          => [\A r \in Reqs : Completion(r) => merged' \/ done[r] = need[r]]_vars
    <2> SUFFICES ASSUME IInv, [Next]_vars, NEW r \in Reqs, Completion(r), ~merged'
                 PROVE  done[r] = need[r]
      OBVIOUS
    <2>1. Base /\ Counts /\ Contents
      BY MergedStays DEF IInv
    <2>2. thread.pc = "result" /\ thread.complete /\ thread.req = r
      BY <2>1, CompletionIs
    <2>3. /\ state[r] = "queued" /\ ~Queued(r) /\ ~(Sending /\ worker.req = r)
          /\ \A i \in Slots : InRing(i) => buf[i].req # r
      BY <2>1, <2>2 DEF Contents, Places, LastIsLast
    <2>4. Cardinality(PendingOf(r)) = 0
      <3>1. PendingOf(r) = {}
        BY <2>3 DEF PendingOf, Pending
      <3> QED BY <3>1, FS_EmptySet
    <2>5. need[r] = done[r] + 0 + 0 + 0
      BY <2>1, <2>3, <2>4 DEF Contents, Descriptors
    <2> QED BY <2>1, <2>5, ClientTypes
  <1> QED BY SpecIInv, <1>1, PTL DEF Spec, CompletedIsDone

\* The caller of a request of one descriptor is told of an error if and only
\* if the engine has failed it, until one pass has consumed several descriptors.
THEOREM Eip93ErrorsReported == Spec => ErrorsReported
  <1>1. IInv /\ [Next]_vars
          => [\A r \in Reqs : Completion(r) /\ need[r] = 1 /\ ~merged'
                              => (thread.ret = "err") = failed[r]]_vars
    <2> SUFFICES ASSUME IInv, [Next]_vars, NEW r \in Reqs, Completion(r), need[r] = 1, ~merged'
                 PROVE  (thread.ret = "err") = failed[r]
      OBVIOUS
    <2>1. Base /\ Counts /\ Contents
      BY MergedStays DEF IInv
    <2>2. thread.pc = "result" /\ thread.complete /\ thread.req = r
      BY <2>1, CompletionIs
    <2>3. thread.ret = "err" <=> failed[r]
      BY <2>1, <2>2 DEF Contents, Errors
    <2>4. failed[r] \in BOOLEAN
      BY <2>1 DEF Base, TypeOK
    <2> QED BY <2>3, <2>4
  <1> QED BY SpecIInv, <1>1, PTL DEF Spec, ErrorsReported

\* A caller in the backlog hears that its request was taken before it hears
\* that it is done, until one pass has consumed several descriptors.
THEOREM Eip93BacklogToldFirst == Spec => BacklogToldFirst
  <1>1. IInv /\ [Next]_vars
          => [\A r \in Reqs : Completion(r) => merged' \/ state[r] = "queued"]_vars
    <2> SUFFICES ASSUME IInv, [Next]_vars, NEW r \in Reqs, Completion(r), ~merged'
                 PROVE  state[r] = "queued"
      OBVIOUS
    <2>1. Base /\ Counts /\ Contents
      BY MergedStays DEF IInv
    <2>2. thread.pc = "result" /\ thread.complete /\ thread.req = r
      BY <2>1, CompletionIs
    <2> QED BY <2>1, <2>2 DEF Contents, Places
  <1> QED BY SpecIInv, <1>1, PTL DEF Spec, BacklogToldFirst

-----------------------------------------------------------------------------
(* Requests of one descriptor: no pass consumes several, and what the      *)
(* theorems above say up to that point holds without exception.            *)

\* Every descriptor ever written is the last of its request.
Single ==
  /\ ~merged
  /\ worker.pc = "send" => worker.left = 1
  /\ \A i \in Slots : buf[i].req = NoReq \/ buf[i].last
  /\ thread.pc = "result" /\ thread.ndesc >= 1 => thread.complete

LEMMA SingleInit == Init => Single
  BY DEF Init, Single, NoWorker, NoThread

\* A pass over the first descriptor is the last one.
LEMMA SingleConsume ==
  ASSUME Base, Counts, Contents, Single, Consume
  PROVE  ~merged' /\ thread'.complete
  <1>0. thread.pc = "result" /\ thread.ndesc < thread.limit /\ ~thread.complete
    BY DEF Consume, Consuming
  <1>1. thread.ndesc = 0
    <2>1. ~(thread.ndesc >= 1)
      BY <1>0 DEF Single
    <2> QED BY <2>1, Numbers
  <1>2. ~RingEmpty(rdr)
    <2> SUFFICES ASSUME RingEmpty(rdr) PROVE FALSE
      OBVIOUS
    <2>1. Occupied = 0
      BY Types, Numbers, Eip93Assumption DEF RingEmpty, Occupied, Ahead, Slots
    <2>2. Ahead(cdr.read, hw.pos) = 0
      BY <2>1, Numbers DEF Counts
    <2>3. thread.tot + thread.left <= hw.rd /\ thread.left >= 1
      BY <1>0 DEF Counts, Base, ThreadFrame
    <2> QED BY <1>1, <2>2, <2>3, Numbers DEF Counts
  <1>3. buf[cdr.read].last
    <2>1. buf[cdr.read].req = thread.req /\ thread.req \in Reqs /\ cdr.read \in Slots
      BY <1>0, <1>1, Types DEF Contents, LastIsLast, Base, ThreadFrame, Pointers
    <2>2. buf[cdr.read].req # NoReq
      BY <2>1, Eip93Assumption
    <2> QED BY <2>1, <2>2 DEF Single
  <1>4. thread'.ndesc = 1 /\ thread'.complete
    <2>1. thread' = [thread EXCEPT !.ndesc = @ + 1, !.complete = buf[cdr.read].last,
                                   !.ret = IF result[rdr.read] = "err" THEN "err" ELSE @]
      BY <1>2 DEF Consume
    <2>2. thread'.ndesc = thread.ndesc + 1 /\ thread'.complete = buf[cdr.read].last
      BY <2>1, Types DEF ThreadFrames
    <2> QED BY <1>1, <1>3, <2>2
  <1>5. ~merged'
    <2>1. ~(thread'.ndesc > 1)
      BY <1>4
    <2>2. merged' = (merged \/ thread'.ndesc > 1) /\ ~merged
      BY DEF Consume, Single
    <2> QED BY <2>1, <2>2
  <1> QED BY <1>4, <1>5

LEMMA SingleStep ==
  ASSUME MaxDesc = 1, IInv, Single, [Next]_vars
  PROVE  Single'
  <1>1. Base /\ Counts /\ Contents
    BY DEF IInv, Single
  <1>2. CASE Dequeue
    <2>1. need \in [Reqs -> 1 .. 1] /\ queue \in Seq(Reqs)
      BY <1>1 DEF Base, TypeOK
    <2>2. worker'.pc = "send" => worker'.left = 1
      <3>1. CASE queue = <<>>
        BY <1>1, <1>2, <3>1, Types DEF Dequeue, WorkerFrames
      <3>2. CASE queue # <<>>
        <4>1. Head(queue) \in Reqs
          BY <2>1, <3>2
        <4>2. need[Head(queue)] = 1
          BY <2>1, <4>1
        <4>3. worker'.left = need[Head(queue)]
          BY <1>1, <1>2, <3>2, Types DEF Dequeue, WorkerFrames
        <4> QED BY <4>2, <4>3
      <3> QED BY <3>1, <3>2
    <2> QED BY <1>2, <2>2 DEF Single, Dequeue
  <1>3. CASE AddDesc
    <2>1. CASE RingFull(cdr)
      <3>1. worker'.pc = "oops"
        BY <1>1, <1>3, <2>1, Types DEF AddDesc, WorkerFrames
      <3> QED BY <1>3, <2>1, <3>1 DEF AddDesc, Single
    <2>2. CASE ~RingFull(cdr)
      <3>1. worker.left = 1
        BY <1>3 DEF AddDesc, Single
      <3>2. worker'.pc = "get"
        <4>1. ~(worker.left > 1)
          BY <3>1
        <4>2. worker' = [NoWorker EXCEPT !.pc = "get",
                                         !.cdesc = worker.cdesc + worker.ndesc + 1]
          BY <1>3, <2>2, <4>1 DEF AddDesc
        <4> QED BY <4>2, FrameTypes DEF WorkerFrames
      <3>3. \A i \in Slots : buf'[i].req = NoReq \/ buf'[i].last
        <4>1. buf' = [buf EXCEPT ![cdr.write] = [req |-> worker.req, last |-> TRUE]]
          BY <1>3, <2>2, <3>1 DEF AddDesc
        <4>2. buf \in [Slots -> [req : Reqs \cup {NoReq}, last : BOOLEAN]]
          BY <1>1 DEF Base, TypeOK
        <4> QED BY <4>1, <4>2 DEF Single
      <3> QED BY <1>3, <3>2, <3>3 DEF AddDesc, Single
    <2> QED BY <2>1, <2>2
  <1>4. CASE Consume
    <2>1. ~merged' /\ thread'.complete
      BY <1>1, <1>4, SingleConsume
    <2> QED BY <1>4, <2>1 DEF Consume, Single
  <1>5. CASE GetReq
    <2>1. thread'.ndesc = 0
      BY <1>1, <1>5, Types DEF GetReq, Base, ThreadFrame, ThreadFrames
    <2> QED BY <1>5, <2>1 DEF GetReq, Single
  <1>6. CASE Irq \/ Complete \/ Acknowledge \/ RequestsLeft
    <2>1. thread'.pc # "result"
      <3>1. Irq \/ Acknowledge => thread'.pc # "result"
        BY <1>1, Types, FrameTypes DEF Irq, Acknowledge, HandleResults, ThreadFrames
      <3>2. Complete \/ RequestsLeft => thread'.pc # "result"
        BY FrameTypes DEF Complete, RequestsLeft, NoThread, ThreadFrames
      <3> QED BY <1>6, <3>1, <3>2
    <2> QED BY <1>6, <2>1 DEF Irq, Complete, Acknowledge, RequestsLeft, Single
  <1>7. CASE WorkStart \/ Finalize \/ Kick
    <2>1. worker'.pc # "send"
      BY <1>1, <1>7, Types DEF WorkStart, Finalize, Kick, NoWorker, WorkerFrames
    <2> QED BY <1>7, <2>1 DEF WorkStart, Finalize, Kick, Single
  <1>8. CASE (\E r \in Reqs : Submit(r)) \/ Engine \/ RaiseIrq \/ UNCHANGED vars
    BY <1>8 DEF Submit, Engine, RaiseIrq, Single, vars
  <1> QED BY <1>2, <1>3, <1>4, <1>5, <1>6, <1>7, <1>8 DEF Next, Worker, Thread

\* With requests of one descriptor the thread never works on a request that
\* it has completed, and completes none that the engine has not finished,
\* whatever the interleaving of worker, engine, interrupt and thread.
THEOREM Eip93SingleDescriptor ==
  ASSUME MaxDesc = 1
  PROVE  Spec => /\ [](thread.pc = "result" => state[thread.req] # "idle")
                 /\ [][\A r \in Reqs : Completion(r) => done[r] = need[r]]_vars
  <1>1. Init => IInv /\ Single
    BY InitIInv, SingleInit
  <1>2. IInv /\ Single /\ [Next]_vars => IInv' /\ Single'
    BY StepIInv, SingleStep
  <1>3. Spec => []Single
    BY <1>1, <1>2, PTL DEF Spec
  <1>4. Single /\ NoUseAfterComplete => (thread.pc = "result" => state[thread.req] # "idle")
    BY DEF Single, NoUseAfterComplete
  <1>5. Single' /\ [\A r \in Reqs : Completion(r) => merged' \/ done[r] = need[r]]_vars
          => [\A r \in Reqs : Completion(r) => done[r] = need[r]]_vars
    BY DEF Single
  <1> QED BY <1>3, <1>4, <1>5, Eip93NoUseAfterComplete, Eip93CompletedIsDone, PTL
          DEF CompletedIsDone
=============================================================================
