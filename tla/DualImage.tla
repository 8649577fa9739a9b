------------------------------ MODULE DualImage ------------------------------
(***************************************************************************)
(* The two firmware images of the NWA50AX and the bootconfig block that    *)
(* says which one to boot: U-Boot's zyxel_util.c and the atgo command, and *)
(* the upgrade script platform.sh.  Linux changes bootconfig through       *)
(* zyDualImageKit, whose source is not in the repository: it is modelled   *)
(* from its uses (external).                                               *)
(*                                                                         *)
(* bootconfig is one flash block, rewritten by an erase and a write, so    *)
(* that a power cut or a failing write can lose it.  `lost' remembers that *)
(* this happened: the guarantees below are stated for a chip where it did  *)
(* not.                                                                    *)
(*                                                                         *)
(* platform_check_image accepts every file, and flash_section skips the    *)
(* sections it does not know, so that an upgrade with a file without       *)
(* firmware marks an image new it has not flashed; `hollow' remembers      *)
(* which.                                                                  *)
(***************************************************************************)
EXTENDS Integers, FiniteSets

CONSTANTS
  MaxCrash,      \* bound: power cuts and failing writes of bootconfig
  MaxUpgrade,    \* bound: upgrades
  MaxOperator    \* bound: boots chosen by an operator (atgo 0, atgo 1)

ASSUME BoundAssumption ==
  MaxCrash \in Nat /\ MaxUpgrade \in Nat /\ MaxOperator \in Nat

NUMOFIMAGE == 2
Images     == 0 .. NUMOFIMAGE - 1

MaxTries   == 2     \* bound: `tries' counts no further

\* enum ImageState
NONE          == 0
NEW_IMAGE     == 1
SUCCESS_IMAGE == 2
FAIL_IMAGE    == 3

DualImageInfo == [state : [Images -> NONE .. FAIL_IMAGE], bootImage : Images]

VARIABLES
  cfg,         \* bootconfig: "valid", "erased" or "torn", and what is stored
  dualIMAGE,   \* the copy in RAM
  fw,          \* what the firmware partitions hold
  pc,
  run,         \* the image that boots or runs
  then,        \* where the code goes on after bootconfig is written
  chosen,      \* the boot under way was chosen by an operator
  confirmed,   \* the images that came up since they were flashed
  tries,       \* unattended boots of each image before it first came up
  hollow,      \* the images marked new by an upgrade that flashed nothing
  lost, crashes, upgrades, choices

vars == <<cfg, dualIMAGE, fw, pc, run, then, chosen, confirmed, tries,
          hollow, lost, crashes, upgrades, choices>>

ghosts == <<confirmed, tries, hollow, lost, crashes, upgrades, choices>>

Shipped == [state |-> [i \in Images |-> IF i = 0 THEN SUCCESS_IMAGE ELSE NONE],
            bootImage |-> 0]

Init ==
  /\ cfg = [as |-> "valid", info |-> Shipped]
  /\ dualIMAGE = Shipped
  /\ fw = [i \in Images |-> IF i = 0 THEN "good" ELSE "torn"]
  /\ pc = "off" /\ run = 0 /\ then = "boot" /\ chosen = FALSE
  /\ confirmed = {0} /\ tries = [i \in Images |-> 0] /\ hollow = {}
  /\ lost = FALSE /\ crashes = 0 /\ upgrades = 0 /\ choices = 0

-----------------------------------------------------------------------------
\* What dumpDualImageInfoFromBootconfig makes of the block.  Erased flash
\* reads 0xff: two failed images, boot image 1.  Nobody checks that the read
\* worked: from a torn block come the bytes that were in memory before.
Decode(c) ==
  CASE c.as = "valid"  -> {c.info}
    [] c.as = "erased" -> {[state |-> [i \in Images |-> FAIL_IMAGE], bootImage |-> 1]}
    [] c.as = "torn"   -> DualImageInfo

\* upgradeImage
UpgradeImage(info) == (info.bootImage + 1) % NUMOFIMAGE

\* zy_init at power on
PowerOn ==
  /\ pc = "off"
  /\ dualIMAGE' \in Decode(cfg)
  /\ pc' = "uboot"
  /\ UNCHANGED <<cfg, fw, run, then, chosen, ghosts>>

\* writeDualImageInfoToBootconfig, called with the value in RAM
WriteBootconfig(next) == pc' = "cfgErase" /\ then' = next

CfgErase ==
  /\ pc = "cfgErase"
  /\ cfg' = [cfg EXCEPT !.as = "erased"]
  /\ pc' = "cfgWrite"
  /\ UNCHANGED <<dualIMAGE, fw, run, then, chosen, ghosts>>

CfgWrite ==
  /\ pc = "cfgWrite"
  /\ cfg' = [as |-> "valid", info |-> dualIMAGE]
  /\ pc' = then
  /\ UNCHANGED <<dualIMAGE, fw, run, then, chosen, ghosts>>

\* Nobody looks at what the erase and the write return either: after a
\* failure the block is unreadable and the code goes on.
CfgWriteFails ==
  /\ pc = "cfgWrite" /\ crashes < MaxCrash
  /\ crashes' = crashes + 1
  /\ cfg' = [cfg EXCEPT !.as = "torn"]
  /\ lost' = TRUE
  /\ pc' = then
  /\ UNCHANGED <<dualIMAGE, fw, run, then, chosen, confirmed, tries, hollow, upgrades, choices>>

\* Mutant: a new image is started without being marked failed first.
CheckHaveNewTrusting(i) == WriteBootconfig("boot") /\ UNCHANGED dualIMAGE

\* checkHaveNewImage, branch taken for the first new image i
CheckHaveNew(i) ==
  /\ dualIMAGE' = [dualIMAGE EXCEPT !.state[i] = FAIL_IMAGE]
  /\ WriteBootconfig("boot")

\* do_atgo without argument
NewImages == {i \in Images : dualIMAGE.state[i] = NEW_IMAGE}

AtGo ==
  /\ pc = "uboot"
  /\ chosen' = FALSE
  /\ \/ /\ NewImages = {}
        /\ run' = dualIMAGE.bootImage
        /\ pc' = "boot"
        /\ UNCHANGED <<dualIMAGE, then>>
     \/ \E i \in NewImages :
          /\ \A j \in NewImages : i <= j
          /\ run' = i
          /\ CheckHaveNew(i)
  /\ UNCHANGED <<cfg, fw, ghosts>>

\* do_atgo with argument i, at the U-Boot prompt
AtGoImage(i) ==
  /\ pc \in {"uboot", "prompt"} /\ choices < MaxOperator
  /\ choices' = choices + 1
  /\ run' = i /\ chosen' = TRUE
  /\ pc' = "boot"
  /\ UNCHANGED <<cfg, dualIMAGE, fw, then, confirmed, tries, hollow, lost, crashes, upgrades>>

\* do_atgo without argument, typed at the prompt: as at power on, with the
\* copy in RAM
AtGoPrompt ==
  /\ pc = "prompt" /\ choices < MaxOperator
  /\ choices' = choices + 1
  /\ pc' = "uboot"
  /\ UNCHANGED <<cfg, dualIMAGE, fw, run, then, chosen, confirmed, tries, hollow,
                 lost, crashes, upgrades>>

\* `nmbm nmbm0 boot firmware[_1]': an incomplete image does not start and
\* the command returns to the prompt.
Boot ==
  /\ pc = "boot"
  /\ pc' = IF fw[run] = "torn" THEN "prompt" ELSE "kernel"
  /\ tries' = IF chosen \/ run \in confirmed \/ tries[run] = MaxTries
              THEN tries ELSE [tries EXCEPT ![run] = @ + 1]
  /\ UNCHANGED <<cfg, dualIMAGE, fw, run, then, chosen, confirmed, hollow, lost, crashes,
                 upgrades, choices>>

\* A bad image dies before the integrity check of ZLDconfig (external).
KernelDies ==
  /\ pc = "kernel" /\ fw[run] = "bad"
  /\ pc' = "off"
  /\ UNCHANGED <<cfg, dualIMAGE, fw, run, then, chosen, ghosts>>

\* `zyDualImageKit detect' (external): the running image is the one to boot.
Detect ==
  /\ pc = "kernel" /\ fw[run] = "good"
  /\ \E info \in Decode(cfg) :
       dualIMAGE' = [info EXCEPT !.state[run] = SUCCESS_IMAGE, !.bootImage = run]
  /\ WriteBootconfig("linux")
  /\ confirmed' = confirmed \cup {run}
  /\ UNCHANGED <<cfg, fw, run, chosen, tries, hollow, lost, crashes, upgrades, choices>>

\* The running system is restarted (external).
Reboot ==
  /\ pc = "linux"
  /\ pc' = "off"
  /\ UNCHANGED <<cfg, dualIMAGE, fw, run, then, chosen, ghosts>>

-----------------------------------------------------------------------------
(* platform_do_upgrade.  dualIMAGE is zyDualImageKit's copy (external).    *)

Target == UpgradeImage(dualIMAGE)

\* Mutant: the image is marked new before it is flashed.
UpgradeStartNew ==
  /\ pc = "linux" /\ upgrades < MaxUpgrade
  /\ upgrades' = upgrades + 1
  /\ dualIMAGE' = [dualIMAGE EXCEPT !.state[Target] = NEW_IMAGE]
  /\ WriteBootconfig("demux")
  /\ UNCHANGED <<cfg, fw, run, chosen, confirmed, tries, hollow, lost, crashes, choices>>

\* setImageState Image${upgradeImg} fail
UpgradeStart ==
  /\ pc = "linux" /\ upgrades < MaxUpgrade
  /\ upgrades' = upgrades + 1
  /\ dualIMAGE' = [dualIMAGE EXCEPT !.state[Target] = FAIL_IMAGE]
  /\ WriteBootconfig("demux")
  /\ UNCHANGED <<cfg, fw, run, chosen, confirmed, tries, hollow, lost, crashes, choices>>

\* upgrade_fail, and the end of do_upgrade: the device reboots, or the system
\* goes on running (MULTIBOOT, or an answer other than yes).
Over == {"off", "linux"}

\* image_demux and the check for missing sections: abort, or go on flashing.
\* (The check calls `reboot' and does not exit: until the reboot comes, a
\* Crash here, the script goes on like any other.)
UpgradeDemux ==
  /\ pc = "demux"
  /\ pc' \in {"flash"} \cup Over
  /\ UNCHANGED <<cfg, dualIMAGE, fw, run, then, chosen, ghosts>>

\* Mutant: the running image is the one overwritten.
UpgradeEraseRunning ==
  /\ pc = "flash"
  /\ fw' = [fw EXCEPT ![run] = "torn"]
  /\ confirmed' = confirmed \ {run}
  /\ tries' = [tries EXCEPT ![run] = 0]
  /\ hollow' = hollow \ {run}
  /\ pc' = "nandwrite"
  /\ UNCHANGED <<cfg, dualIMAGE, run, then, chosen, lost, crashes, upgrades, choices>>

\* do_flash_dual_partition: flash_eraseall ...
UpgradeErase ==
  /\ pc = "flash"
  /\ fw' = [fw EXCEPT ![Target] = "torn"]
  /\ confirmed' = confirmed \ {Target}
  /\ tries' = [tries EXCEPT ![Target] = 0]
  /\ hollow' = hollow \ {Target}
  /\ pc' = "nandwrite"
  /\ UNCHANGED <<cfg, dualIMAGE, run, then, chosen, lost, crashes, upgrades, choices>>

\* ... && nandwrite; a failure ends the script (set -e) in upgrade_fail.
UpgradeWrite ==
  /\ pc = "nandwrite"
  /\ \/ /\ fw' \in {[fw EXCEPT ![Target] = c] : c \in {"good", "bad"}}
        /\ pc' = "setNew"
     \/ pc' \in Over /\ UNCHANGED fw
  /\ UNCHANGED <<cfg, dualIMAGE, run, then, chosen, ghosts>>

\* flash_section finds no firmware section, or no section at all, and the
\* script goes on.
UpgradeNothing ==
  /\ pc = "flash"
  /\ pc' = "setNew"
  /\ hollow' = hollow \cup {Target}
  /\ UNCHANGED <<cfg, dualIMAGE, fw, run, then, chosen, confirmed, tries, lost, crashes,
                 upgrades, choices>>

\* setImageState Image${upgradeImg} new
UpgradeDone ==
  /\ pc = "setNew"
  /\ dualIMAGE' = [dualIMAGE EXCEPT !.state[Target] = NEW_IMAGE]
  /\ \E next \in Over : WriteBootconfig(next)
  /\ UNCHANGED <<cfg, fw, run, chosen, ghosts>>

\* A power cut.  During the write of bootconfig the block may be torn.
Crash ==
  /\ pc # "off" /\ crashes < MaxCrash
  /\ crashes' = crashes + 1
  /\ pc' = "off"
  /\ IF pc = "cfgWrite"
     THEN lost' = TRUE /\ cfg' \in {cfg, [cfg EXCEPT !.as = "torn"]}
     ELSE UNCHANGED <<lost, cfg>>
  /\ UNCHANGED <<dualIMAGE, fw, run, then, chosen, confirmed, tries, hollow, upgrades, choices>>

-----------------------------------------------------------------------------
Step ==
  \/ PowerOn \/ AtGo \/ CfgErase \/ CfgWrite \/ Boot \/ KernelDies \/ Detect
  \/ UpgradeDemux \/ UpgradeErase \/ UpgradeNothing \/ UpgradeWrite \/ UpgradeDone

Next ==
  \/ Step \/ CfgWriteFails \/ Reboot \/ UpgradeStart \/ Crash \/ AtGoPrompt
  \/ \E i \in Images : AtGoImage(i)

Spec == Init /\ [][Next]_vars

\* The boot loader, the kernel and the upgrade script keep running.  Nothing
\* is assumed of power cuts, operators or the start of upgrades.
FairSpec == Spec /\ WF_vars(Step)

-----------------------------------------------------------------------------
DataType ==
  /\ cfg \in [as : {"valid", "erased", "torn"}, info : DualImageInfo]
  /\ dualIMAGE \in DualImageInfo
  /\ fw \in [Images -> {"good", "bad", "torn"}]
  /\ pc \in {"off", "uboot", "prompt", "cfgErase", "cfgWrite", "boot", "kernel",
             "linux", "demux", "flash", "nandwrite", "setNew"}
  /\ run \in Images
  /\ then \in {"boot", "linux", "demux", "off"}
  /\ confirmed \subseteq Images /\ hollow \subseteq Images
  /\ tries \in [Images -> 0 .. MaxTries]
  /\ crashes \in Nat /\ upgrades \in Nat /\ choices \in Nat

\* Every variable has its type.
TypeOK == DataType /\ chosen \in BOOLEAN /\ lost \in BOOLEAN

\* Unless bootconfig was lost, an unattended boot (checkHaveNewImage) never
\* picks a partition that an upgrade left half written, except one that a
\* later upgrade marked new without flashing it.
BootsComplete ==
  ~lost /\ pc = "boot" /\ ~chosen /\ run \notin hollow => fw[run] # "torn"

\* Unless bootconfig was lost, an image that never came up is started
\* unattended once at most: checkHaveNewImage marks it failed on the chip
\* before it boots.  An upgrade that marks it new unflashed grants it another
\* try.
TriedOnce == ~lost => \A i \in Images \ (confirmed \cup hollow) : tries[i] <= 1

\* Unless bootconfig was lost, the image to fall back to is one that came up
\* and that no upgrade has touched since; nor does an upgrade without a
\* firmware in it change that.
FallbackKept == ~lost /\ cfg.as = "valid" => cfg.info.bootImage \in confirmed

\* Unless bootconfig was lost, the device comes up again after every power
\* cut, bad image and aborted upgrade, or stops at the prompt with an image
\* the operator chose or an upgrade did not flash.
Recovers ==
  (pc = "off") ~> (pc = "linux" \/ lost \/ (pc = "prompt" /\ (chosen \/ run \in hollow)))
=============================================================================
