------------------------------- MODULE Eip93 -------------------------------
(***************************************************************************)
(* The driver of the EIP-93 crypto engine (openwrt/package/kernel/         *)
(* crypto-hw-eip93/src).  Callers put requests into a crypto queue and     *)
(* queue a work item; the worker (mtk_dequeue) turns every queued request  *)
(* into one or more descriptors of the command ring, counts them and       *)
(* starts the engine; the engine works through the ring and raises an      *)
(* interrupt; the interrupt thread (mtk_handle_result_descriptor) consumes *)
(* the result ring and completes the requests.  Worker and thread run at   *)
(* the same time and share the rings without a lock; only `requests' and   *)
(* `busy' are under one.                                                   *)
(*                                                                         *)
(* A step is one descriptor, one pass of a loop or one critical section.   *)
(* Keys, buffers and DMA mappings are left out: a request is its number of *)
(* descriptors and the outcome of each.                                    *)
(***************************************************************************)
EXTENDS Integers, Sequences, FiniteSets

CONSTANTS
  Reqs, NoReq,
  RingSize,     \* MTK_RING_SIZE
  QueueLen,     \* MTK_QUEUE_LENGTH
  MaxDesc,      \* bound: descriptors of one request
  MaxSubmit,    \* bound: requests submitted over the whole run
  MaxErr        \* bound: descriptors the engine fails

ASSUME Eip93Assumption ==
  /\ NoReq \notin Reqs
  /\ RingSize \in Nat \ {0, 1} /\ QueueLen \in Nat \ {0}
  /\ MaxDesc \in Nat \ {0} /\ MaxSubmit \in Nat /\ MaxErr \in Nat

VARIABLES
  queue,      \* crypto_queue: what lies behind the first QueueLen is backlog
  pending,    \* the work item is queued
  worker,     \* frame of mtk_dequeue
  cdr, rdr,   \* command and result ring: read and write position
  result,     \* result descriptors: what the engine has written
  buf,        \* dma_buf: request and `last' flag of a descriptor
  requests, busy,
  hw,         \* the engine: counters, position, interrupt
  thread,     \* frame of mtk_handle_result_descriptor
  state,      \* what the caller of a request knows
  need,       \* descriptors of a request
  done,       \* history: descriptors of a request the engine has finished
  failed,     \* history: the engine has failed one of them
  submits, errs,
  merged      \* history: one pass has consumed several descriptors

ring   == <<cdr, rdr, result, buf>>
client == <<state, need, done, failed>>
bounds == <<submits, errs, merged>>
vars   == <<queue, pending, worker, ring, requests, busy, hw, thread, client, bounds>>

Slots == 0 .. RingSize - 1
Next1(i) == (i + 1) % RingSize

NoWorker == [pc |-> "idle", req |-> NoReq, backlog |-> NoReq, left |-> 0, ndesc |-> 0,
             cdesc |-> 0]
NoThread == [pc |-> "idle", req |-> NoReq, left |-> 0, limit |-> 0, ndesc |-> 0,
             complete |-> FALSE, ret |-> "ok", tot |-> 0, handled |-> 0]

\* mtk_crypto_probe, mtk_desc_init and mtk_initialize
Init ==
  /\ queue = <<>> /\ pending = FALSE /\ worker = NoWorker
  /\ cdr = [read |-> 0, write |-> 0] /\ rdr = [read |-> 0, write |-> 0]
  /\ result = [i \in Slots |-> "none"]
  /\ buf = [i \in Slots |-> [req |-> NoReq, last |-> FALSE]]
  /\ requests = 0 /\ busy = FALSE
  /\ hw = [cd |-> 0, rd |-> 0, pos |-> 0, armed |-> FALSE, irq |-> FALSE]
  /\ thread = NoThread
  /\ state = [r \in Reqs |-> "idle"] /\ need = [r \in Reqs |-> 1]
  /\ done = [r \in Reqs |-> 0] /\ failed = [r \in Reqs |-> FALSE]
  /\ submits = 0 /\ errs = 0 /\ merged = FALSE

-----------------------------------------------------------------------------
(* Ring pointers (eip93-ring.c).  One slot stays free.                     *)

\* Mutant: the check forgets the ring's wrap.
RingFullNoWrap(r) == r.write = r.read - 1

\* mtk_ring_next_wptr fails with -ENOMEM
RingFull(r) ==
  \/ r.write = r.read - 1
  \/ r.read = 0 /\ r.write = RingSize - 1

\* mtk_ring_next_rptr fails with -ENOENT
RingEmpty(r) == r.write = r.read

\* Mutant: the pointer runs past the end of the ring.
PushNoWrap(r) == [r EXCEPT !.write = @ + 1]

Push(r) == [r EXCEPT !.write = Next1(@)]
Pop(r)  == [r EXCEPT !.read = Next1(@)]

-----------------------------------------------------------------------------
(* Callers: mtk_skcipher_encrypt and the like, mtk_queue_req.              *)

\* crypto_enqueue_request takes a request beyond the limit only as backlog.
Submit(r) ==
  /\ state[r] = "idle" /\ submits < MaxSubmit
  /\ submits' = submits + 1
  /\ pending' = TRUE
  /\ \/ /\ state' = [state EXCEPT ![r] = IF Len(queue) < QueueLen THEN "queued" ELSE "backlog"]
        /\ queue' = Append(queue, r)
        /\ \E n \in 1 .. MaxDesc : need' = [need EXCEPT ![r] = n]
        /\ UNCHANGED <<done, failed>>
     \/ /\ Len(queue) >= QueueLen
        /\ UNCHANGED <<queue, client>>
  /\ UNCHANGED <<worker, ring, requests, busy, hw, thread, errs, merged>>

-----------------------------------------------------------------------------
(* The worker: mtk_dequeue_work, mtk_dequeue.  ring[0].req, the store for  *)
(* a request that found no room, stays NULL: the send routines return 0.   *)

WorkStart ==
  /\ worker.pc = "idle" /\ pending
  /\ pending' = FALSE
  /\ worker' = [NoWorker EXCEPT !.pc = "get"]
  /\ UNCHANGED <<queue, ring, requests, busy, hw, thread, client, bounds>>

\* Mutant: the backlog is looked up after the head has left.
DequeueThenBacklog ==
  /\ worker.pc = "get"
  /\ IF queue = <<>>
     THEN worker' = [worker EXCEPT !.pc = "final"] /\ UNCHANGED queue
     ELSE /\ queue' = Tail(queue)
          /\ worker' = [worker EXCEPT !.pc = "send", !.req = Head(queue),
                          !.left = need[Head(queue)],
                          !.backlog = IF Len(queue') > QueueLen THEN queue'[QueueLen + 1]
                                      ELSE NoReq]
  /\ UNCHANGED <<pending, ring, requests, busy, hw, thread, client, bounds>>

Dequeue ==
  /\ worker.pc = "get"
  /\ IF queue = <<>>
     THEN worker' = [worker EXCEPT !.pc = "final"] /\ UNCHANGED queue
     ELSE /\ queue' = Tail(queue)
          /\ worker' = [worker EXCEPT !.pc = "send", !.req = Head(queue),
                          !.left = need[Head(queue)],
                          !.backlog = IF Len(queue) > QueueLen THEN queue[QueueLen + 1]
                                      ELSE NoReq]
  /\ UNCHANGED <<pending, requests, busy, ring, hw, thread, client, bounds>>

\* mtk_scatter_combine, one descriptor: mtk_add_cdesc, mtk_add_rdesc and the
\* dma_buf entry.  On a full ring both return an error pointer that nobody
\* checks, and the index computed from it is a wild one: the kernel oopses.
\* The last descriptor gets the `last' flag, the send routine returns, and
\* mtk_dequeue tells the first backlogged caller that it has moved up.
AddDesc ==
  /\ worker.pc = "send"
  /\ IF RingFull(cdr)
     THEN worker' = [worker EXCEPT !.pc = "oops"] /\ UNCHANGED <<ring, state>>
     ELSE /\ cdr' = Push(cdr) /\ rdr' = Push(rdr)
          /\ buf' = [buf EXCEPT ![cdr.write] = [req |-> worker.req, last |-> worker.left = 1]]
          /\ result' = [result EXCEPT ![rdr.write] = "none"]
          /\ IF worker.left > 1
             THEN /\ worker' = [worker EXCEPT !.left = @ - 1, !.ndesc = @ + 1]
                  /\ UNCHANGED state
             ELSE /\ worker' = [NoWorker EXCEPT !.pc = "get",
                                               !.cdesc = worker.cdesc + worker.ndesc + 1]
                  /\ state' = [r \in Reqs |-> IF r = worker.backlog THEN "queued" ELSE state[r]]
  /\ UNCHANGED <<queue, pending, requests, busy, hw, thread, need, done, failed, bounds>>

\* mtk_push_request: a threshold and a timeout for the interrupt
PushRequest(n) == hw' = [hw EXCEPT !.armed = @ \/ n # 0]

\* label finalize, under ring[0].lock
Finalize ==
  /\ worker.pc = "final"
  /\ IF worker.cdesc = 0
     THEN worker' = NoWorker /\ UNCHANGED <<requests, busy, hw>>
     ELSE /\ requests' = requests + worker.cdesc
          /\ IF busy THEN UNCHANGED hw ELSE PushRequest(requests')
          /\ busy' = TRUE
          /\ worker' = [worker EXCEPT !.pc = "kick"]
  /\ UNCHANGED <<queue, pending, ring, thread, client, bounds>>

\* the write to EIP93_REG_PE_CD_COUNT
Kick ==
  /\ worker.pc = "kick"
  /\ hw' = [hw EXCEPT !.cd = @ + worker.cdesc]
  /\ worker' = NoWorker
  /\ UNCHANGED <<queue, pending, ring, requests, busy, thread, client, bounds>>

-----------------------------------------------------------------------------
(* The engine, as the driver uses it.                                      *)

Engine ==
  /\ hw.cd > 0
  /\ hw' = [hw EXCEPT !.cd = @ - 1, !.rd = @ + 1, !.pos = Next1(@)]
  /\ LET r == buf[hw.pos].req
     IN  /\ done' = [done EXCEPT ![r] = @ + 1]
         /\ \/ /\ result' = [result EXCEPT ![hw.pos] = "ok"]
               /\ UNCHANGED <<failed, errs>>
            \/ /\ errs < MaxErr /\ errs' = errs + 1
               /\ result' = [result EXCEPT ![hw.pos] = "err"]
               /\ failed' = [failed EXCEPT ![r] = TRUE]
  /\ UNCHANGED <<queue, pending, worker, cdr, rdr, buf, requests, busy, thread,
                 state, need, submits, merged>>

\* Threshold reached, or the timeout: the interrupt status is set.
RaiseIrq ==
  /\ hw.armed /\ hw.rd > 0 /\ ~hw.irq
  /\ hw' = [hw EXCEPT !.irq = TRUE]
  /\ UNCHANGED <<queue, pending, worker, ring, requests, busy, thread, client, bounds>>

-----------------------------------------------------------------------------
(* mtk_irq_handler and mtk_irq_thread; IRQF_ONESHOT keeps the line masked  *)
(* until the thread has returned.                                          *)

\* label handle_results: the frame after a read of EIP93_REG_PE_RD_COUNT
HandleResults(t, n) == [t EXCEPT !.pc = IF n = 0 THEN "left" ELSE "get", !.left = n, !.tot = 0]

Irq ==
  /\ hw.irq /\ thread.pc = "idle"
  /\ hw' = [hw EXCEPT !.irq = FALSE]
  /\ thread' = HandleResults(NoThread, hw.rd)
  /\ UNCHANGED <<queue, pending, worker, ring, requests, busy, client, bounds>>

\* mtk_rdr_req_get, and mtk_req_result reading the count anew
GetReq ==
  /\ thread.pc = "get"
  /\ LET r == buf[rdr.read].req
     IN  thread' = IF r = NoReq
                   THEN [thread EXCEPT !.pc = "ack"]
                   ELSE [thread EXCEPT !.pc = "result", !.req = r, !.limit = hw.rd]
  /\ UNCHANGED <<queue, pending, worker, ring, requests, busy, hw, client, bounds>>

Consuming == thread.pc = "result" /\ thread.ndesc < thread.limit /\ ~thread.complete

\* Mutant: the first descriptor of a request completes it.
ConsumeNoLast ==
  /\ Consuming
  /\ IF RingEmpty(rdr)
     THEN /\ thread' = [thread EXCEPT !.ret = "err", !.limit = thread.ndesc]
          /\ UNCHANGED <<cdr, rdr>>
     ELSE /\ thread' = [thread EXCEPT !.ndesc = @ + 1, !.complete = TRUE,
                                      !.ret = IF result[rdr.read] = "err" THEN "err" ELSE @]
          /\ cdr' = Pop(cdr) /\ rdr' = Pop(rdr)
  /\ merged' = (merged \/ thread'.ndesc > 1)
  /\ UNCHANGED <<queue, pending, worker, result, buf, requests, busy, hw, client,
                 submits, errs>>

\* Mutant: the error of a descriptor is not looked at.
ConsumeNoError ==
  /\ Consuming
  /\ IF RingEmpty(rdr)
     THEN /\ thread' = [thread EXCEPT !.ret = "err", !.limit = thread.ndesc]
          /\ UNCHANGED <<cdr, rdr>>
     ELSE /\ thread' = [thread EXCEPT !.ndesc = @ + 1, !.complete = buf[cdr.read].last]
          /\ cdr' = Pop(cdr) /\ rdr' = Pop(rdr)
  /\ merged' = (merged \/ thread'.ndesc > 1)
  /\ UNCHANGED <<queue, pending, worker, result, buf, requests, busy, hw, client,
                 submits, errs>>

\* mtk_req_result, the loop: one descriptor of each ring, until the last
\* one of the request or as many as were counted.  The count is read anew
\* for every request and acknowledged only after the last pass: once a pass
\* has taken several descriptors, results already consumed are counted again,
\* by the loop around this one and by the next pass, and the driver takes
\* descriptors from the ring that the engine has yet to work on.  `merged'
\* records that it may have come to this.
Consume ==
  /\ Consuming
  /\ IF RingEmpty(rdr)
     THEN /\ thread' = [thread EXCEPT !.ret = "err", !.limit = thread.ndesc]
          /\ UNCHANGED <<cdr, rdr>>
     ELSE /\ thread' = [thread EXCEPT !.ndesc = @ + 1, !.complete = buf[cdr.read].last,
                                      !.ret = IF result[rdr.read] = "err" THEN "err" ELSE @]
          /\ cdr' = Pop(cdr) /\ rdr' = Pop(rdr)
  /\ merged' = (merged \/ thread'.ndesc > 1)
  /\ UNCHANGED <<queue, pending, worker, result, buf, requests, busy, hw, client,
                 submits, errs>>

\* handle_result has returned: req->complete, and the counts
Complete ==
  /\ thread.pc = "result" /\ ~Consuming
  /\ IF thread.complete
     THEN /\ state' = [state EXCEPT ![thread.req] = "idle"]
          /\ need' = [need EXCEPT ![thread.req] = 1]
          /\ done' = [done EXCEPT ![thread.req] = 0]
          /\ failed' = [failed EXCEPT ![thread.req] = FALSE]
     ELSE UNCHANGED client
  /\ thread' = [NoThread EXCEPT !.pc = IF thread.left = 1 THEN "ack" ELSE "get",
                                !.left = thread.left - 1,
                                !.tot = thread.tot + thread.ndesc,
                                !.handled = thread.handled + thread.ndesc]
  /\ UNCHANGED <<queue, pending, worker, ring, requests, busy, hw, bounds>>

\* Mutant: every descriptor counted is acknowledged, handled or not.
AcknowledgeAll ==
  /\ thread.pc = "ack"
  /\ hw' = [hw EXCEPT !.rd = 0]
  /\ thread' = HandleResults(thread, hw'.rd)
  /\ UNCHANGED <<queue, pending, worker, ring, requests, busy, client, bounds>>

\* Mutant: one descriptor too few is acknowledged.
AcknowledgeLess ==
  /\ thread.pc = "ack"
  /\ hw' = [hw EXCEPT !.rd = IF @ < thread.tot THEN 0 ELSE @ - thread.tot + 1]
  /\ thread' = HandleResults(thread, hw'.rd)
  /\ UNCHANGED <<queue, pending, worker, ring, requests, busy, client, bounds>>

\* label acknowledge.  What the engine makes of an acknowledgement of more
\* than it has finished is unknown; here the count stops at zero.
Acknowledge ==
  /\ thread.pc = "ack"
  /\ hw' = [hw EXCEPT !.rd = IF @ < thread.tot THEN 0 ELSE @ - thread.tot]
  /\ thread' = HandleResults(thread, hw'.rd)
  /\ UNCHANGED <<queue, pending, worker, ring, requests, busy, client, bounds>>

\* label requests_left, under ring[0].lock; the thread queues the work item
RequestsLeft ==
  /\ thread.pc = "left"
  /\ requests' = requests - thread.handled
  /\ PushRequest(requests')
  /\ busy' = (busy /\ requests' # 0)
  /\ pending' = TRUE
  /\ thread' = NoThread
  /\ UNCHANGED <<queue, worker, ring, client, bounds>>

-----------------------------------------------------------------------------
Alive == worker.pc # "oops"

Worker == WorkStart \/ Dequeue \/ AddDesc \/ Finalize \/ Kick
Thread == Irq \/ GetReq \/ Consume \/ Complete \/ Acknowledge \/ RequestsLeft

Next ==
  Alive /\ (\/ \E r \in Reqs : Submit(r)
            \/ Worker \/ Engine \/ RaiseIrq \/ Thread)

\* The kernel runs the work item and the interrupt thread, the engine works,
\* and a result that waits raises the interrupt at the timeout at the latest.
Fairness ==
  /\ WF_vars(Alive /\ Worker) /\ WF_vars(Alive /\ Engine)
  /\ WF_vars(Alive /\ RaiseIrq) /\ WF_vars(Alive /\ Thread)

Spec == Init /\ [][Next]_vars /\ Fairness

-----------------------------------------------------------------------------
Pointers == [read : Slots, write : Slots]
WorkerFrames ==
  [pc : {"idle", "get", "send", "final", "kick", "oops"}, req : Reqs \cup {NoReq},
   backlog : Reqs \cup {NoReq}, left : Nat, ndesc : Nat, cdesc : Nat]
ThreadFrames ==
  [pc : {"idle", "get", "result", "ack", "left"}, req : Reqs \cup {NoReq}, left : Nat,
   limit : Nat, ndesc : Nat, complete : BOOLEAN, ret : {"ok", "err"}, tot : Nat, handled : Nat]
Engines == [cd : Nat, rd : Nat, pos : Slots, armed : BOOLEAN, irq : BOOLEAN]

TypeOK ==
  /\ queue \in Seq(Reqs) /\ pending \in BOOLEAN
  /\ worker \in WorkerFrames
  /\ cdr \in Pointers /\ rdr \in Pointers
  /\ result \in [Slots -> {"none", "ok", "err"}]
  /\ buf \in [Slots -> [req : Reqs \cup {NoReq}, last : BOOLEAN]]
  /\ requests \in Int /\ busy \in BOOLEAN
  /\ hw \in Engines
  /\ thread \in ThreadFrames
  /\ state \in [Reqs -> {"idle", "queued", "backlog"}] /\ need \in [Reqs -> 1 .. MaxDesc]
  /\ done \in [Reqs -> Nat] /\ failed \in [Reqs -> BOOLEAN]
  /\ submits \in Nat /\ errs \in Nat /\ merged \in BOOLEAN

\* What the worker has put into the ring and not yet added to `requests'.
Uncommitted ==
  IF worker.pc \in {"get", "send", "final", "oops"}
  THEN worker.cdesc + worker.ndesc
  ELSE 0

\* What the thread has taken from the ring and not yet subtracted.
Unsubtracted == thread.handled + thread.ndesc

\* `requests', which worker and thread update under the lock long after they
\* have moved the unlocked ring pointers, is the number of descriptors in the
\* ring: none is ever overwritten, counted twice or forgotten, for requests of
\* any number of descriptors and also once the results are counted twice.
Accounting ==
  requests + Uncommitted - Unsubtracted = (cdr.write - cdr.read) % RingSize

\* "Number of request in the engine" (eip93-core.h): what the engine still has
\* to do is counted in `requests', so that mtk_push_request arms the interrupt
\* for it.  It is not: a thread that counts results twice subtracts
\* descriptors the engine has not yet worked on.
EngineCounted == hw.cd <= requests

\* The thread works on requests whose callers still wait for them, as long as
\* every pass has consumed one descriptor.  After a pass over several
\* (mtk_req_result reads the count anew before it is acknowledged) the code
\* does not keep this: the next pass takes the request that the slot behind
\* the last descriptor belonged to, completed or not.
NoUseAfterComplete == (thread.pc = "result" /\ ~merged) => state[thread.req] # "idle"

Completion(r) == state[r] # "idle" /\ state'[r] = "idle"

\* A request is completed when the engine has finished all its descriptors,
\* however they are spread over interrupts and counts, as long as every pass
\* has consumed one of them.  After a pass over several the code completes
\* requests that the engine has not finished (EngineCounted shows how).
CompletedIsDone == [][\A r \in Reqs : Completion(r) => merged' \/ done[r] = need[r]]_vars

\* A caller is told of an error if and only if the engine has failed the
\* request, until one pass has consumed several descriptors.  Only for a
\* request of one descriptor: mtk_req_result resets the status in every pass
\* and loses the error of an earlier descriptor.
ErrorsReported ==
  [][\A r \in Reqs : Completion(r) /\ need[r] = 1 /\ ~merged'
                      => (thread.ret = "err") = failed[r]]_vars

\* A caller whose request went to the backlog hears that it has moved up
\* (-EINPROGRESS) before it hears that it is done.  A thread that has lost
\* count may complete a request that still waits in the backlog: it reads the
\* owner of a free slot, and consumes what the worker puts there afterwards.
BacklogToldFirst ==
  [][\A r \in Reqs : Completion(r) => merged' \/ state[r] = "queued"]_vars

\* Every request is completed, unless the driver has died of a full ring or
\* has once lost count of the results.
RequestsComplete ==
  \A r \in Reqs : state[r] # "idle" ~> (state[r] = "idle" \/ ~Alive \/ merged)
=============================================================================
