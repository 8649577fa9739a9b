------------------------------- MODULE NmbmMtd -------------------------------
(***************************************************************************)
(* The locking of the Linux MTD driver on top of the NMBM core             *)
(* (openwrt/.../drivers/mtd/nmbm/nmbm-mtd.c).  Every MTD operation runs    *)
(* the core between nmbm_get_device and nmbm_release_device; nm->lock is a *)
(* spinlock around nm->state, and tasks that find the device taken sleep   *)
(* on nm->wq.  The core itself has no lock: its instance and page caches   *)
(* belong to whoever holds the device.                                     *)
(*                                                                         *)
(* One step is one statement on nm->lock, nm->state, the task state or the *)
(* wait queue.  What an operation does inside the core is Nmbm.tla.        *)
(***************************************************************************)
EXTENDS Integers, FiniteSets

CONSTANTS
  Tasks,         \* the tasks that call the MTD operations
  Rebooter,      \* the task that runs the reboot notifier
  NoTask         \* the owner of a free spinlock

ASSUME TaskAssumption == Rebooter \in Tasks /\ NoTask \notin Tasks

FL_READY        == "FL_READY"
FL_READING      == "FL_READING"
FL_WRITING      == "FL_WRITING"
FL_ERASING      == "FL_ERASING"
FL_PM_SUSPENDED == "FL_PM_SUSPENDED"
NewStates == {FL_READING, FL_WRITING, FL_ERASING, FL_PM_SUSPENDED}

VARIABLES
  state,      \* nm->state
  lock,       \* the task that holds nm->lock, or NoTask
  wq,         \* the tasks queued on nm->wq
  asleep,     \* the tasks in TASK_UNINTERRUPTIBLE
  want,       \* new_state of each task's nmbm_get_device
  pc

vars == <<state, lock, wq, asleep, want, pc>>

Init ==
  /\ state = FL_READY
  /\ lock = NoTask
  /\ wq = {} /\ asleep = {}
  /\ want = [t \in Tasks |-> FL_READING]
  /\ pc = [t \in Tasks |-> "out"]

Goto(t, label) == pc' = [pc EXCEPT ![t] = label]

-----------------------------------------------------------------------------
\* nmbm_mtd_read, nmbm_mtd_write, nmbm_mtd_erase, nmbm_mtd_read_oob,
\* nmbm_mtd_write_oob, nmbm_mtd_block_isbad, nmbm_mtd_block_markbad
Call(t, new_state) ==
  /\ pc[t] = "out" /\ new_state # FL_PM_SUSPENDED
  /\ want' = [want EXCEPT ![t] = new_state]
  /\ Goto(t, "get")
  /\ UNCHANGED <<state, lock, wq, asleep>>

\* nmbm_mtd_shutdown takes the device and returns without releasing it.
Shutdown(t) ==
  /\ t = Rebooter /\ pc[t] = "out"
  /\ want' = [want EXCEPT ![t] = FL_PM_SUSPENDED]
  /\ Goto(t, "get")
  /\ UNCHANGED <<state, lock, wq, asleep>>

\* nmbm_mtd_panic_write enters the core without taking the device.
PanicWrite(t) ==
  /\ pc[t] = "out"
  /\ Goto(t, "panic")
  /\ UNCHANGED <<state, lock, wq, asleep, want>>

PanicDone(t) ==
  /\ pc[t] = "panic"
  /\ Goto(t, "out")
  /\ UNCHANGED <<state, lock, wq, asleep, want>>

\* nmbm_get_device: spin_lock
GetLock(t) ==
  /\ pc[t] = "get" /\ lock = NoTask
  /\ lock' = t
  /\ Goto(t, "test")
  /\ UNCHANGED <<state, wq, asleep, want>>

\* Mutant: the shutdown does not wait for the operation under way.
GetGrantedAtOnce(t) ==
  /\ pc[t] = "test"
  /\ state = FL_READY \/ want[t] = FL_PM_SUSPENDED
  /\ state' = want[t]
  /\ lock' = NoTask
  /\ Goto(t, IF want[t] = FL_PM_SUSPENDED THEN "out" ELSE "core")
  /\ UNCHANGED <<wq, asleep, want>>

\* ... the device is free, or the caller suspends a suspended device
GetGranted(t) ==
  /\ pc[t] = "test"
  /\ state = FL_READY \/ (want[t] = FL_PM_SUSPENDED /\ state = FL_PM_SUSPENDED)
  /\ state' = want[t]
  /\ lock' = NoTask
  /\ Goto(t, IF want[t] = FL_PM_SUSPENDED THEN "out" ELSE "core")
  /\ UNCHANGED <<wq, asleep, want>>

\* ... set_current_state(TASK_UNINTERRUPTIBLE)
GetSleep(t) ==
  /\ pc[t] = "test"
  /\ state # FL_READY /\ ~(want[t] = FL_PM_SUSPENDED /\ state = FL_PM_SUSPENDED)
  /\ asleep' = asleep \cup {t}
  /\ Goto(t, "enqueue")
  /\ UNCHANGED <<state, lock, wq, want>>

\* ... add_wait_queue
GetEnqueue(t) ==
  /\ pc[t] = "enqueue"
  /\ wq' = wq \cup {t}
  /\ Goto(t, "unlock")
  /\ UNCHANGED <<state, lock, asleep, want>>

\* ... spin_unlock
GetUnlock(t) ==
  /\ pc[t] = "unlock"
  /\ lock' = NoTask
  /\ Goto(t, "schedule")
  /\ UNCHANGED <<state, wq, asleep, want>>

\* ... schedule() returns once somebody woke the task; remove_wait_queue;
\* goto retry
GetRetry(t) ==
  /\ pc[t] = "schedule" /\ t \notin asleep
  /\ wq' = wq \ {t}
  /\ Goto(t, "get")
  /\ UNCHANGED <<state, lock, asleep, want>>

\* The core's operation is over: nmbm_release_device, spin_lock
ReleaseLock(t) ==
  /\ pc[t] = "core" /\ lock = NoTask
  /\ lock' = t
  /\ Goto(t, "ready")
  /\ UNCHANGED <<state, wq, asleep, want>>

\* ... nm->state = FL_READY
ReleaseReady(t) ==
  /\ pc[t] = "ready"
  /\ state' = FL_READY
  /\ Goto(t, "wake")
  /\ UNCHANGED <<lock, wq, asleep, want>>

\* Mutant: only one of the waiters wakes.
ReleaseWakeOne(t) ==
  /\ pc[t] = "wake"
  /\ \/ wq = {} /\ UNCHANGED asleep
     \/ \E u \in wq : asleep' = asleep \ {u}
  /\ Goto(t, "leave")
  /\ UNCHANGED <<state, lock, wq, want>>

\* Mutant: nobody is woken.
ReleaseNoWake(t) ==
  /\ pc[t] = "wake"
  /\ Goto(t, "leave")
  /\ UNCHANGED <<state, lock, wq, asleep, want>>

\* ... wake_up: the waiters are not exclusive, all of them wake
ReleaseWake(t) ==
  /\ pc[t] = "wake"
  /\ asleep' = asleep \ wq
  /\ Goto(t, "leave")
  /\ UNCHANGED <<state, lock, wq, want>>

\* ... spin_unlock
ReleaseUnlock(t) ==
  /\ pc[t] = "leave"
  /\ lock' = NoTask
  /\ Goto(t, "out")
  /\ UNCHANGED <<state, wq, asleep, want>>

-----------------------------------------------------------------------------
GetDevice(t) ==
  \/ GetLock(t) \/ GetGranted(t) \/ GetSleep(t) \/ GetEnqueue(t)
  \/ GetUnlock(t) \/ GetRetry(t)

ReleaseDevice(t) ==
  ReleaseLock(t) \/ ReleaseReady(t) \/ ReleaseWake(t) \/ ReleaseUnlock(t)

Request(t) ==
  \/ \E new_state \in NewStates : Call(t, new_state)
  \/ Shutdown(t) \/ PanicWrite(t)

Run(t) == GetDevice(t) \/ ReleaseDevice(t) \/ PanicDone(t)

Next == \E t \in Tasks : Request(t) \/ Run(t)

Spec == Init /\ [][Next]_vars

\* The kernel runs every task that can run, and every operation of the core
\* ends (Nmbm's OperationsReturn); a spinlock makes no promise to a
\* particular task.
FairSpec == Spec /\ \A t \in Tasks : WF_vars(Run(t))

-----------------------------------------------------------------------------
Labels == {"out", "panic", "get", "test", "enqueue", "unlock", "schedule",
           "core", "ready", "wake", "leave"}

\* Every variable has its type.
TypeOK ==
  /\ state \in NewStates \cup {FL_READY}
  /\ lock \in Tasks \cup {NoTask}
  /\ wq \subseteq Tasks /\ asleep \subseteq Tasks
  /\ want \in [Tasks -> NewStates]
  /\ pc \in [Tasks -> Labels]

\* The task owns the NMBM instance from the grant to the store of FL_READY.
Owns(t) == pc[t] \in {"core", "ready"}

\* Two tasks never run the core at the same time, and none runs it once the
\* reboot notifier has suspended the device (panic writes excepted, which
\* nmbm_mtd_panic_write lets in without asking).
OneOwner ==
  \A t \in Tasks : Owns(t) =>
    /\ state = want[t] /\ state # FL_PM_SUSPENDED
    /\ \A u \in Tasks : Owns(u) => u = t

\* No wake-up is lost between the test of nm->state and schedule(): when the
\* device is free and nobody is about to change it, nobody sleeps on it.
NoLostWakeup == state = FL_READY /\ lock = NoTask => asleep = {}

\* A task that wants the device gets it or sees another one get it, over
\* and over, until the device is suspended for the reboot.
Waiting(t) == pc[t] \in {"get", "test", "enqueue", "unlock", "schedule"}
DeviceGranted ==
  \A t \in Tasks : Waiting(t) ~> (state = FL_PM_SUSPENDED \/ \E u \in Tasks : Owns(u))
=============================================================================
