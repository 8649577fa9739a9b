------------------------------- MODULE MtkBoot -------------------------------
(***************************************************************************)
(* MediaTek's dual image support of the boot loader (u-boot-mips-mt7621/   *)
(* board/ralink): dual_image_check before every boot, the boot itself and  *)
(* the firmware upgrade of the boot menu and of the web failsafe page.     *)
(* The main image is the one that boots; the check copies a good image     *)
(* over a broken one, the upgrade writes the main image and invalidates    *)
(* the backup so that the next check copies it.                            *)
(*                                                                         *)
(* An image is a kernel under a checksum and a root file system of which   *)
(* only the first and the last byte range are looked at.  One step erases  *)
(* or writes one block; the power can be cut in the middle of it.          *)
(***************************************************************************)
EXTENDS Integers, FiniteSets

CONSTANTS
  Versions,      \* the firmware images there are
  FirstVersion,  \* the one both partitions hold at the start
  PartBlocks,    \* blocks of a partition
  Kernel,        \* blocks of each version's kernel
  Rootfs,        \* blocks of each version's root file system
  MaxUpgrade,    \* bound: upgrades started
  MaxCut,        \* bound: power cuts
  MaxFault,      \* bound: failing flash operations
  MaxRot         \* bound: blocks that become unreadable by themselves

\* The images fit into the partition.  The checks are in bytes: an image may
\* end in the last block.
ASSUME MtkBootAssumption ==
  /\ FirstVersion \in Versions
  /\ Kernel \in [Versions -> Nat \ {0}] /\ Rootfs \in [Versions -> Nat \ {0}]
  /\ \A v \in Versions : Kernel[v] + Rootfs[v] <= PartBlocks
  /\ {PartBlocks, MaxUpgrade, MaxCut, MaxFault, MaxRot} \subseteq Nat

Parts  == {"main", "backup"}
Areas  == Parts \cup {"data"}
Blocks == 0 .. PartBlocks - 1
Size(v) == Kernel[v] + Rootfs[v]

\* What a block holds: a block of an image, the first part of one, nothing,
\* the end-of-filesystem marker, bytes of no image, or nothing readable.
Image(v, i)  == <<"img", v, i>>
Torn(b)      == IF b[1] = "img" THEN <<"torn", b[2], b[3]>> ELSE <<"erased">>
Erased       == <<"erased">>
Marker       == <<"marker">>
Foreign      == <<"foreign">>
Junk         == <<"junk">>

VARIABLES
  part,      \* the blocks of the two partitions and of the one behind them
  pc, job,   \* what the boot loader does, and how far it is
  upgrades, cuts, faults, rots,
  wanted,    \* history: the version of the last upgrade that was completed
  half,      \* history: a restore ended before its last block
  stale      \* history: an upgrade left the old backup valid

bounds == <<upgrades, cuts, faults, rots>>
hist   == <<wanted, half, stale>>
vars   == <<part, pc, job, bounds, hist>>

NoJob == [src |-> "main", dst |-> "main", file |-> "foreign", n |-> 0, i |-> 0]

Init ==
  /\ part = [p \in Areas |-> [i \in Blocks |->
               CASE p = "data" -> Foreign
                 [] p # "data" /\ i < Size(FirstVersion) -> Image(FirstVersion, i)
                 [] OTHER -> Erased]]
  /\ pc = "menu" /\ job = NoJob
  /\ upgrades = 0 /\ cuts = 0 /\ faults = 0 /\ rots = 0
  /\ wanted = FirstVersion /\ half = FALSE /\ stale = FALSE

-----------------------------------------------------------------------------
(* The flash: the backup follows the main partition (mtdparts), rootfs_data *)
(* the backup, and nothing keeps an address from running out of one.       *)

Area(p, i) == IF i < PartBlocks THEN p ELSE IF p = "main" THEN "backup" ELSE "data"
Put(p, i, b) == part' = [part EXCEPT ![Area(p, i)][i % PartBlocks] = b]

-----------------------------------------------------------------------------
(* verify_image, verify_squashfs, verify_rootfs                            *)

\* The kernel's checksum is right: its version, or none
KernelOf(p) ==
  {v \in Versions : \A i \in 0 .. Kernel[v] - 1 : part[p][i] = Image(v, i)}

\* A squashfs super block lies behind the kernel of v: the length it names
SquashfsAt(p, v) ==
  {Rootfs[w] : w \in {w \in Versions :
     part[p][Kernel[v]] \in {Image(w, Kernel[w]), Torn(Image(w, Kernel[w]))}}}

\* Kernel and length of the root file system found in p, at most one pair
Found(p) ==
  {x \in KernelOf(p) \X (1 .. PartBlocks) :
     x[2] \in SquashfsAt(p, x[1]) /\ Kernel[x[1]] + x[2] <= PartBlocks}

\* The size such an image is good with when its last byte cannot be read: the
\* root file system counts nothing.
Unread(p) == {Kernel[x[1]] : x \in Found(p)}

\* The size an image in p is found good with, at most one: the last byte has
\* to be programmed, or unreadable.
Verified(p) ==
  LET tail(x) == part[p][Kernel[x[1]] + x[2] - 1]
  IN  {Kernel[x[1]] : x \in {y \in Found(p) : tail(y) = Junk}}
        \cup {Kernel[x[1]] + x[2] : x \in {y \in Found(p) : tail(y)[1] \in {"img", "foreign"}}}

-----------------------------------------------------------------------------
(* dual_image_check                                                        *)

\* do_mtkboardboot: the menu's default
Startup ==
  /\ pc = "menu"
  /\ pc' = "check" /\ job' = NoJob
  /\ UNCHANGED <<part, bounds, hist>>

\* Mutant: the broken image is copied over the good one.
CheckSwapped ==
  /\ pc = "check"
  /\ IF (Verified("main") = {}) = (Verified("backup") = {})
     THEN pc' = "boot" /\ UNCHANGED job
     ELSE LET src == IF Verified("main") = {} THEN "backup" ELSE "main"
          IN  /\ pc' = "copy_erase"
              /\ job' = [NoJob EXCEPT !.src = CHOOSE p \in Parts : p # src, !.dst = src,
                                      !.n = CHOOSE n \in Verified(src) : TRUE]
  /\ UNCHANGED <<part, bounds, hist>>

\* Mutant: nothing is restored.
CheckOnly ==
  /\ pc = "check"
  /\ pc' = "boot" /\ UNCHANGED job
  /\ UNCHANGED <<part, bounds, hist>>

\* Two good or two broken images: nothing to do.  (Both partitions are of one
\* size: each can hold what the other holds.)
Restore(sizes) ==
  LET good == {p \in Parts : sizes[p] # {}}
  IN  IF good \in {{}, Parts}
      THEN pc' = "boot" /\ UNCHANGED job
      ELSE \E src \in good :
             /\ pc' = "copy_erase"
             /\ job' = [NoJob EXCEPT !.src = src, !.dst = CHOOSE p \in Parts : p # src,
                                     !.n = CHOOSE n \in sizes[src] : TRUE]

Check ==
  /\ pc = "check"
  /\ Restore([p \in Parts |-> Verified(p)])
  /\ UNCHANGED <<part, bounds, hist>>

\* A root file system that cannot be read once counts as a broken one; one
\* whose last byte cannot be read once is good, programmed or not, and is not
\* copied.
CheckMisread ==
  /\ pc = "check" /\ faults < MaxFault
  /\ faults' = faults + 1
  /\ \E p \in Parts : \E size \in {{}, Unread(p)} :
       Restore([q \in Parts |-> IF q = p THEN size ELSE Verified(q)])
  /\ UNCHANGED <<part, upgrades, cuts, rots, hist>>

\* A kernel cannot be read: the check is bypassed.
CheckBypassed ==
  /\ pc = "check" /\ faults < MaxFault
  /\ faults' = faults + 1
  /\ pc' = "boot"
  /\ UNCHANGED <<part, job, upgrades, cuts, rots, hist>>

\* copy_firmware: read a block and erase its destination; the marker's block
\* behind the image is erased too, in the partition or not
CopyErase ==
  /\ pc = "copy_erase"
  /\ job.i < job.n => part[job.src][job.i] # Junk
  /\ Put(job.dst, job.i, Erased)
  /\ pc' = "copy_write"
  /\ UNCHANGED <<job, bounds, hist>>

\* ... write it and compare; the marker comes last
CopyWrite ==
  /\ pc = "copy_write"
  /\ Put(job.dst, job.i, IF job.i < job.n THEN part[job.src][job.i] ELSE Marker)
  /\ IF job.i < job.n
     THEN job' = [job EXCEPT !.i = @ + 1] /\ pc' = "copy_erase"
     ELSE job' = NoJob /\ pc' = "boot"
  /\ UNCHANGED <<bounds, hist>>

\* A block that cannot be read, erased or written ends the copy; the boot
\* goes on, nobody looks at the result.
CopyFails ==
  /\ \/ /\ pc \in {"copy_erase", "copy_write"}
        /\ faults < MaxFault /\ faults' = faults + 1
     \/ /\ pc = "copy_erase" /\ job.i < job.n /\ part[job.src][job.i] = Junk
        /\ UNCHANGED faults
  /\ pc' = "boot" /\ job' = NoJob
  /\ half' = TRUE
  /\ UNCHANGED <<part, upgrades, cuts, rots, wanted, stale>>

\* nboot, nmbm boot: bootm checks the kernel; without one the web page waits.
\* (The second boot command names the main partition's address.)
Boot ==
  /\ pc = "boot"
  /\ pc' = IF KernelOf("main") # {} THEN "run" ELSE "menu"
  /\ job' = NoJob
  /\ UNCHANGED <<part, bounds, hist>>

-----------------------------------------------------------------------------
(* _write_firmware, from the menu or from the web page: nobody checks what *)
(* file it is.                                                             *)

FileBlocks(f) == IF f \in Versions THEN Size(f) ELSE 1
FileBlock(f, i) == IF f \in Versions THEN Image(f, i) ELSE Foreign

Upgrade(f) ==
  /\ pc = "menu" /\ upgrades < MaxUpgrade
  /\ upgrades' = upgrades + 1
  /\ job' = [NoJob EXCEPT !.file = f, !.n = FileBlocks(f)]
  /\ pc' = "up_erase"
  /\ UNCHANGED <<part, cuts, faults, rots, hist>>

\* Mutant: every block is written as soon as it is erased.
UpgradeEraseEach ==
  /\ pc = "up_erase"
  /\ part' = [part EXCEPT !["main"][job.i] = FileBlock(job.file, job.i)]
  /\ IF job.i + 1 < job.n
     THEN job' = [job EXCEPT !.i = @ + 1] /\ UNCHANGED pc
     ELSE job' = [job EXCEPT !.i = 0] /\ pc' = "up_write"
  /\ UNCHANGED <<bounds, hist>>

\* All blocks of the new image are erased ...
UpgradeErase ==
  /\ pc = "up_erase"
  /\ part' = [part EXCEPT !["main"][job.i] = Erased]
  /\ IF job.i + 1 < job.n
     THEN job' = [job EXCEPT !.i = @ + 1] /\ UNCHANGED pc
     ELSE job' = [job EXCEPT !.i = 0] /\ pc' = "up_write"
  /\ UNCHANGED <<bounds, hist>>

\* ... and then written.
UpgradeWrite ==
  /\ pc = "up_write"
  /\ part' = [part EXCEPT !["main"][job.i] = FileBlock(job.file, job.i)]
  /\ IF job.i + 1 < job.n
     THEN job' = [job EXCEPT !.i = @ + 1] /\ UNCHANGED <<pc, wanted>>
     ELSE job' = [job EXCEPT !.i = 0] /\ pc' = "up_backup" /\ wanted' = job.file
  /\ UNCHANGED <<bounds, half, stale>>

UpgradeFails ==
  /\ pc \in {"up_erase", "up_write"} /\ faults < MaxFault
  /\ faults' = faults + 1
  /\ pc' = "menu" /\ job' = NoJob
  /\ UNCHANGED <<part, upgrades, cuts, rots, hist>>

\* Mutant: the old backup stays.
UpgradeBackupKept ==
  /\ pc = "up_backup"
  /\ pc' \in {"menu", "check"} /\ job' = NoJob
  /\ UNCHANGED <<part, bounds, hist>>

\* "Force backup image to be upgraded on next bootup": its first block is
\* erased, and the firmware is run if the operator wanted it.
UpgradeBackup ==
  /\ pc = "up_backup"
  /\ \/ /\ part' = [part EXCEPT !["backup"][0] = Erased]
        /\ UNCHANGED <<faults, stale>>
     \/ /\ faults < MaxFault /\ faults' = faults + 1
        /\ stale' = TRUE
        /\ UNCHANGED part
  /\ pc' \in {"menu", "check"} /\ job' = NoJob
  /\ UNCHANGED <<upgrades, cuts, rots, wanted, half>>

-----------------------------------------------------------------------------
(* The power fails, and in the middle of an operation: an erase leaves the *)
(* block as it was, or unreadable; a write leaves nothing, or a part.      *)

Cut(p, i, contents) == \E b \in contents : Put(p, i, b)

PowerCut ==
  /\ pc # "menu" /\ cuts < MaxCut
  /\ cuts' = cuts + 1
  /\ CASE pc = "copy_erase" -> Cut(job.dst, job.i,
            {part[Area(job.dst, job.i)][job.i % PartBlocks], Junk})
       [] pc = "copy_write" -> Cut(job.dst, job.i, {Erased} \cup
            (IF job.i < job.n THEN {Torn(part[job.src][job.i])} ELSE {}))
       [] pc = "up_erase" -> Cut("main", job.i, {part["main"][job.i], Junk})
       [] pc = "up_write" -> Cut("main", job.i, {Erased, Torn(FileBlock(job.file, job.i))})
       [] pc = "up_backup" -> Cut("backup", 0, {part["backup"][0], Junk})
       [] OTHER -> UNCHANGED part
  /\ pc' = "menu" /\ job' = NoJob
  /\ half' = (half \/ pc \in {"copy_erase", "copy_write"})
  /\ stale' = (stale \/ (pc = "up_backup" /\ part' = part))
  /\ UNCHANGED <<upgrades, faults, rots, wanted>>

\* The firmware runs and is rebooted.
Reboot ==
  /\ pc = "run"
  /\ pc' = "menu"
  /\ UNCHANGED <<part, job, bounds, hist>>

\* A block in use becomes unreadable.
Rot(p, i) ==
  /\ pc = "run" /\ rots < MaxRot /\ part[p][i] # Junk
  /\ rots' = rots + 1
  /\ part' = [part EXCEPT ![p][i] = Junk]
  /\ UNCHANGED <<pc, job, upgrades, cuts, faults, hist>>

-----------------------------------------------------------------------------
Step ==
  \/ Startup \/ Check \/ CopyErase \/ CopyWrite \/ CopyFails \/ Boot
  \/ UpgradeErase \/ UpgradeWrite \/ UpgradeBackup

Next ==
  \/ Step \/ CheckMisread \/ CheckBypassed \/ UpgradeFails \/ PowerCut \/ Reboot
  \/ \E f \in Versions \cup {"foreign"} : Upgrade(f)
  \/ \E p \in Parts, i \in Blocks : Rot(p, i)

\* The boot loader runs: its menu starts the system after a delay.  A kernel
\* that finds no root file system panics and restarts.
Spec ==
  /\ Init /\ [][Next]_vars
  /\ WF_vars(Step) /\ WF_vars(Verified("main") = {} /\ Reboot)

-----------------------------------------------------------------------------
Intact(p) == \E v \in Versions : \A i \in 0 .. Size(v) - 1 : part[p][i] = Image(v, i)
Version(p) == CHOOSE v \in Versions : part[p][0] = Image(v, 0)

TypeOK ==
  /\ \A p \in Areas : DOMAIN part[p] = Blocks
  /\ pc \in {"menu", "check", "copy_erase", "copy_write", "boot", "run",
             "up_erase", "up_write", "up_backup"}
  /\ job.src \in Parts /\ job.dst \in Parts /\ job.n \in 0 .. PartBlocks /\ job.i \in 0 .. job.n
  /\ wanted \in Versions \cup {"foreign"} /\ {half, stale} \subseteq BOOLEAN

Boots == pc = "boot" /\ pc' = "run"

\* A main image the check calls good is complete when it boots, kernel and
\* root file system of one version, although so little of the latter is looked
\* at: an upgrade that was cut leaves an erased tail.  A restore that was cut
\* does not (it erases block by block and old blocks follow the new ones), and
\* a block that went bad in the middle is not seen.
BootStep == Boots /\ Verified("main") # {} => Intact("main") \/ half \/ rots > 0
BootsIntact == [][BootStep]_vars

\* As long as some partition holds a complete image one does, through checks,
\* upgrades, failures and power cuts.  It may be lost when a block goes bad,
\* when the check copies an image that is none (it has seen a kernel and the
\* start of a root file system there), when an upgrade starts while the backup
\* is not complete, and when it invalidates the backup of such a main image.
SomeIntact == \E p \in Parts : Intact(p)
KeepStep ==
  SomeIntact => \/ SomeIntact'
                \/ rots' # rots
                \/ pc = "copy_erase" /\ ~Intact(job.src) /\ Found(job.src) # {}
                \/ pc = "up_erase" /\ ~Intact("backup")
                \/ pc = "up_backup" /\ ~Intact("main")
ImageKept == [][KeepStep]_vars

\* The system that boots is the one of the last upgrade that was completed:
\* neither the check nor an upgrade that failed brings an older one back,
\* unless that upgrade could not invalidate the backup.
NewestStep ==
  Boots /\ Intact("main") /\ wanted \in Versions =>
    Version("main") = wanted \/ stale \/ half \/ rots > 0
UpgradeSticks == [][NewestStep]_vars

\* With a complete image on the chip a complete system runs in the end.
Recovers ==
  SomeIntact ~> \/ pc = "run" /\ Intact("main")
                \/ ~SomeIntact \/ half \/ rots > 0
=============================================================================
