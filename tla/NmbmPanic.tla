----------------------------- MODULE NmbmPanic -----------------------------
(***************************************************************************)
(* nmbm_mtd_panic_write (Linux, drivers/mtd/nmbm/nmbm-mtd.c): the kernel   *)
(* is about to stop and writes its last messages.  The write takes neither *)
(* the device nor a lock, so it enters the core while another task's       *)
(* operation lies abandoned between two flash operations, its instance     *)
(* half updated and a table perhaps erased and not yet programmed.         *)
(* Nothing but a restart follows.                                          *)
(***************************************************************************)
EXTENDS Nmbm

CONSTANT PanicMayFail   \* the page program of the panic write may fail

ASSUME PanicAssumption == PanicMayFail \in BOOLEAN

VARIABLES
  panicked,   \* the kernel has called panic_write and runs nothing else
  overlaid    \* history: the panic write has started to update the tables
              \* where the abandoned update had left only one up to date

panicVars == <<flash, physBad, ni, pc, io, call, view, fails, crashes,
               panicked, overlaid>>

PanicInit == Init /\ panicked = FALSE /\ overlaid = FALSE

\* nmbm_probe has registered the device and nmbm_remove not begun.
Registered ==
  \/ pc = "idle"
  \/ /\ pc \notin {"off", "dead"}
     /\ call.by \notin {"load", "create"}
     /\ call.then \notin {"attached", "createMapFail", "detached"}

\* The abandoned update has the newest image in one table only: past the
\* backup table of nmbm_update_info_table_once, or inside a rescue.
OneTableLeft ==
  \/ pc = "ret"
  \/ pc \in {"wErase", "wProgram"} /\ io.k # "onceBackup"

\* nmbm_write_range, nmbm_write_logic_page on physical block pb; the frames
\* of the abandoned operation are never returned to.
PanicTo(lb, pb) ==
  \/ /\ ni.protected \/ ~Accessible(lb)
     /\ pc' = "idle" /\ io' = NoIO /\ call' = NoCall
     /\ UNCHANGED <<flash, ni, view, overlaid>>
  \/ /\ ~ni.protected /\ Accessible(lb)
     /\ flash' = [flash EXCEPT ![pb] = IF @ = Blank THEN Data(lb) ELSE Garbage]
     /\ view' = [view EXCEPT ![lb] = "written"]
     /\ pc' = "idle" /\ io' = NoIO /\ call' = NoCall
     /\ UNCHANGED <<ni, overlaid>>
  \/ /\ ~ni.protected /\ Accessible(lb) /\ PanicMayFail
     /\ flash' = [flash EXCEPT ![pb] = Garbage]
     /\ UpdateInfoTable(SetState(ni, pb, NEED_REMAP), lb, pb, "idle")
     /\ overlaid' = (overlaid \/ OneTableLeft)
     /\ Forget(lb)

\* A block the client has erased in advance receives the messages.
MayPanic(lb) ==
  /\ Registered /\ ~panicked /\ view[lb] = "erased" /\ lb < ni.data_block_count
  /\ panicked' = TRUE
  /\ UNCHANGED <<physBad, fails, crashes>>

\* Mutant: the address is taken for a physical one.
PanicWriteUnmapped(lb) == MayPanic(lb) /\ PanicTo(lb, lb)

\* nmbm_mtd_panic_write
PanicWrite(lb) == MayPanic(lb) /\ PanicTo(lb, ni.block_mapping[lb])

Restart == Crash /\ panicked' = FALSE /\ UNCHANGED overlaid

PanicNext ==
  \/ ~panicked /\ (Step \/ ClientStep) /\ UNCHANGED <<panicked, overlaid>>
  \/ panicked /\ TableStep /\ UNCHANGED <<panicked, overlaid>>
  \/ \E lb \in Logic : PanicWrite(lb)
  \/ Restart

PanicSpec == PanicInit /\ [][PanicNext]_panicVars

-----------------------------------------------------------------------------
ImageStep == Atomic!Next \/ UNCHANGED <<ImageOf(Persisted), pc # "off", ni.block_mapping>>

\* nmbm_mtd_panic_write breaking into any operation, and a power cut or
\* watchdog reset at any moment of it, still leaves one image that is
\* replaced atomically and never goes back, unless its own update of the
\* tables starts on an abandoned update that had one table left to write.
PanicKeepsImage == [][overlaid' \/ ImageStep]_panicVars

\* ... and no acknowledged data of any block is lost to it: what the client
\* was told before the panic holds after the restart.
PanicKeepsData == overlaid \/ ClientData
=============================================================================
