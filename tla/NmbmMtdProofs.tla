--------------------------- MODULE NmbmMtdProofs ---------------------------
(* Mutual exclusion and the absence of lost wake-ups of NmbmMtd, for any   *)
(* set of tasks.                                                           *)
EXTENDS NmbmMtd, TLAPS

\* nm->lock is held by the one task between spin_lock and spin_unlock.
LockHeld ==
  \A t \in Tasks :
    pc[t] \in {"test", "enqueue", "unlock", "ready", "wake", "leave"} <=> lock = t

\* Where a task may sleep, and that it is queued once it left the lock.
Sleepers ==
  \A t \in asleep : /\ pc[t] \in {"enqueue", "unlock", "schedule"}
                    /\ pc[t] \in {"unlock", "schedule"} => t \in wq

\* Sleepers outlive FL_READY only until the releasing task's wake_up.
Wakeup ==
  state = FL_READY /\ asleep # {} => \E u \in Tasks : lock = u /\ pc[u] = "wake"

IInv == TypeOK /\ LockHeld /\ Sleepers /\ Wakeup /\ OneOwner

LEMMA InitIInv == Init => IInv
  BY TaskAssumption
  DEF Init, IInv, TypeOK, LockHeld, Sleepers, Wakeup, OneOwner, Owns, Labels,
      NewStates, FL_READY, FL_READING, FL_WRITING, FL_ERASING, FL_PM_SUSPENDED

USE DEF FL_READY, FL_READING, FL_WRITING, FL_ERASING, FL_PM_SUSPENDED, NewStates

\* A step outside nmbm_get_device and nmbm_release_device.
LEMMA OutsideIInv ==
  ASSUME IInv, NEW t \in Tasks, Request(t) \/ PanicDone(t)
  PROVE  IInv'
  <1>1. TypeOK'
    BY DEF IInv, TypeOK, Request, Call, Shutdown, PanicWrite, PanicDone, Goto, Labels
  <1>2. LockHeld' /\ Sleepers' /\ Wakeup'
    BY DEF IInv, TypeOK, LockHeld, Sleepers, Wakeup, Request, Call, Shutdown,
           PanicWrite, PanicDone, Goto
  <1>3. OneOwner'
    BY DEF IInv, TypeOK, OneOwner, Owns, Request, Call, Shutdown,
           PanicWrite, PanicDone, Goto
  <1> QED BY <1>1, <1>2, <1>3 DEF IInv

LEMMA GetDeviceIInv ==
  ASSUME IInv, NEW t \in Tasks, GetDevice(t)
  PROVE  IInv'
  <1> USE TaskAssumption DEF Goto
  <1>1. CASE GetLock(t)
    BY <1>1 DEF IInv, TypeOK, LockHeld, Sleepers, Wakeup, OneOwner, Owns, GetLock, Labels
  <1>2. CASE GetGranted(t)
    <2>1. TypeOK' /\ LockHeld'
      BY <1>2 DEF IInv, TypeOK, LockHeld, GetGranted, Labels
    <2>2. Sleepers'
      BY <1>2 DEF IInv, TypeOK, LockHeld, Sleepers, GetGranted
    <2>3. Wakeup'
      BY <1>2 DEF IInv, TypeOK, LockHeld, Wakeup, GetGranted
    <2>4. OneOwner'
      BY <1>2 DEF IInv, TypeOK, OneOwner, Owns, GetGranted
    <2> QED BY <2>1, <2>2, <2>3, <2>4 DEF IInv
  <1>3. CASE GetSleep(t)
    BY <1>3 DEF IInv, TypeOK, LockHeld, Sleepers, Wakeup, OneOwner, Owns, GetSleep, Labels
  <1>4. CASE GetEnqueue(t)
    BY <1>4 DEF IInv, TypeOK, LockHeld, Sleepers, Wakeup, OneOwner, Owns, GetEnqueue, Labels
  <1>5. CASE GetUnlock(t)
    BY <1>5 DEF IInv, TypeOK, LockHeld, Sleepers, Wakeup, OneOwner, Owns, GetUnlock, Labels
  <1>6. CASE GetRetry(t)
    BY <1>6 DEF IInv, TypeOK, LockHeld, Sleepers, Wakeup, OneOwner, Owns, GetRetry, Labels
  <1> QED BY <1>1, <1>2, <1>3, <1>4, <1>5, <1>6 DEF GetDevice

LEMMA ReleaseDeviceIInv ==
  ASSUME IInv, NEW t \in Tasks, ReleaseDevice(t)
  PROVE  IInv'
  <1> USE TaskAssumption DEF Goto
  <1>1. CASE ReleaseLock(t)
    BY <1>1 DEF IInv, TypeOK, LockHeld, Sleepers, Wakeup, OneOwner, Owns, ReleaseLock, Labels
  <1>2. CASE ReleaseReady(t)
    <2>1. TypeOK' /\ LockHeld' /\ Sleepers'
      BY <1>2 DEF IInv, TypeOK, LockHeld, Sleepers, ReleaseReady, Labels
    <2>2. Wakeup'
      BY <1>2 DEF IInv, TypeOK, LockHeld, Wakeup, ReleaseReady
    <2>3. OneOwner'
      BY <1>2 DEF IInv, TypeOK, OneOwner, Owns, ReleaseReady
    <2> QED BY <2>1, <2>2, <2>3 DEF IInv
  <1>3. CASE ReleaseWake(t)
    <2>1. asleep' = {}
      \* The other sleepers are out of the lock, hence queued.
      BY <1>3 DEF IInv, TypeOK, LockHeld, Sleepers, ReleaseWake
    <2>2. TypeOK' /\ LockHeld' /\ OneOwner'
      BY <1>3 DEF IInv, TypeOK, LockHeld, OneOwner, Owns, ReleaseWake, Labels
    <2> QED BY <2>1, <2>2 DEF IInv, Sleepers, Wakeup
  <1>4. CASE ReleaseUnlock(t)
    BY <1>4 DEF IInv, TypeOK, LockHeld, Sleepers, Wakeup, OneOwner, Owns, ReleaseUnlock, Labels
  <1> QED BY <1>1, <1>2, <1>3, <1>4 DEF ReleaseDevice

LEMMA SpecIInv == Spec => []IInv
  <1>1. IInv /\ [Next]_vars => IInv'
    <2> SUFFICES ASSUME IInv, [Next]_vars PROVE IInv'
      OBVIOUS
    <2>1. CASE Next
      BY <2>1, OutsideIInv, GetDeviceIInv, ReleaseDeviceIInv DEF Next, Run
    <2>2. CASE UNCHANGED vars
      BY <2>2 DEF IInv, TypeOK, LockHeld, Sleepers, Wakeup, OneOwner, Owns, vars
    <2> QED BY <2>1, <2>2
  <1> QED BY InitIInv, <1>1, PTL DEF Spec

\* Every variable of the driver model keeps its type.
THEOREM MtdTypeCorrect == Spec => []TypeOK
  BY SpecIInv, PTL DEF IInv

\* Between nmbm_get_device and nmbm_release_device a task has the NMBM core
\* to itself, whatever the number of tasks.
THEOREM MtdOneOwner == Spec => []OneOwner
  BY SpecIInv, PTL DEF IInv

\* nmbm_get_device's sleep and nmbm_release_device's wake_up never miss each
\* other: nobody sleeps on a free device.
THEOREM MtdNoLostWakeup == Spec => []NoLostWakeup
  <1>1. IInv => NoLostWakeup
    BY TaskAssumption DEF IInv, Wakeup, NoLostWakeup
  <1> QED BY SpecIInv, <1>1, PTL
=============================================================================
