-------------------------- MODULE DualImageProofs --------------------------
(* The guarantees of DualImage for any number of power cuts, upgrades and  *)
(* operator interventions.                                                 *)
EXTENDS DualImage, TLAPS

Writing == pc \in {"cfgErase", "cfgWrite"}

\* bootconfig is intact except between its erase and its write, and RAM and
\* flash agree except while a change is on its way.
Bootconfig ==
  /\ cfg.as = (IF pc = "cfgWrite" THEN "erased" ELSE "valid")
  /\ pc # "off" /\ ~Writing => cfg.info = dualIMAGE

\* The image to fall back to works, on flash and in RAM.
Fallback ==
  /\ \A i \in confirmed : fw[i] = "good"
  /\ cfg.info.bootImage \in confirmed
  /\ pc # "off" => dualIMAGE.bootImage \in confirmed

\* A new image was not flashed at all, or is complete and was never started.
Fresh(info) ==
  \A i \in Images : info.state[i] = NEW_IMAGE =>
    i \in hollow \/ (fw[i] # "torn" /\ (i \notin confirmed => tries[i] = 0))

NewComplete == Fresh(cfg.info) /\ (pc # "off" => Fresh(dualIMAGE))

\* The image being flashed is marked failed.
Flashing ==
  /\ pc \in {"demux", "flash", "nandwrite", "setNew"} \/ (Writing /\ then = "demux")
       => dualIMAGE.state[Target] = FAIL_IMAGE
  /\ pc = "nandwrite" => tries[Target] = 0 /\ Target \notin confirmed
  /\ pc = "setNew" => Target \in hollow \/ (fw[Target] # "torn" /\ tries[Target] = 0)

\* The image about to boot unattended is marked failed if it never came up;
\* unless it was not flashed it is complete and starts for the first time.
Starting ==
  (pc = "boot" /\ ~chosen) \/ (Writing /\ then = "boot") =>
    /\ run \in hollow \/ fw[run] # "torn"
    /\ run \notin confirmed => /\ dualIMAGE.state[run] # NEW_IMAGE
                               /\ run \in hollow \/ tries[run] = 0

Safe == Bootconfig /\ Fallback /\ NewComplete /\ Flashing /\ Starting /\ TriedOnce

IInv == TypeOK /\ (~lost => Safe)

-----------------------------------------------------------------------------
\* There are two images.
LEMMA TwoImages == Images = {0, 1}
  BY DEF Images, NUMOFIMAGE

\* upgradeImage is the other image.
LEMMA OtherImage ==
  ASSUME NEW info \in DualImageInfo
  PROVE  UpgradeImage(info) \in Images /\ UpgradeImage(info) # info.bootImage
  BY TwoImages DEF UpgradeImage, NUMOFIMAGE, DualImageInfo

\* setImageState: one state changes and nothing else.
LEMMA SetImageState ==
  ASSUME NEW info \in DualImageInfo, NEW i \in Images, NEW s \in NONE .. FAIL_IMAGE
  PROVE  /\ [info EXCEPT !.state[i] = s] \in DualImageInfo
         /\ [info EXCEPT !.state[i] = s].bootImage = info.bootImage
         /\ [info EXCEPT !.state[i] = s].state[i] = s
         /\ \A j \in Images : j # i => [info EXCEPT !.state[i] = s].state[j] = info.state[j]
  BY DEF DualImageInfo

\* The four values of enum ImageState.
LEMMA ImageStates ==
  {NONE, NEW_IMAGE, SUCCESS_IMAGE, FAIL_IMAGE} \subseteq NONE .. FAIL_IMAGE
  /\ NEW_IMAGE # FAIL_IMAGE /\ NEW_IMAGE # SUCCESS_IMAGE /\ NEW_IMAGE # NONE
  BY DEF NONE, NEW_IMAGE, SUCCESS_IMAGE, FAIL_IMAGE

LEMMA ShippedType == Shipped \in DualImageInfo
  BY TwoImages, ImageStates DEF Shipped, DualImageInfo

LEMMA DecodeType == ASSUME DataType PROVE Decode(cfg) \subseteq DualImageInfo
  BY TwoImages, ImageStates DEF DataType, Decode, DualImageInfo

\* From an intact block the stored value is read.
LEMMA DecodeValid == ASSUME cfg.as = "valid" PROVE Decode(cfg) = {cfg.info}
  <1> ("valid" # "erased") /\ ("valid" # "torn")
    OBVIOUS
  <1> QED BY Zenon DEF Decode

LEMMA InitIInv == Init => IInv
  <1> SUFFICES ASSUME Init PROVE IInv
    OBVIOUS
  <1>1. TypeOK
    <2>1. DataType
      BY TwoImages, ShippedType DEF Init, DataType, MaxTries
    <2>2. chosen \in BOOLEAN /\ lost \in BOOLEAN
      BY Zenon DEF Init
    <2> QED BY <2>1, <2>2 DEF TypeOK
  <1>2. Fallback /\ Bootconfig
    BY TwoImages DEF Init, Shipped, Fallback, Bootconfig, Writing
  <1>3. NewComplete
    BY TwoImages, ImageStates DEF Init, Shipped, NewComplete, Fresh
  <1>4. Flashing /\ Starting /\ TriedOnce
    BY DEF Init, Flashing, Starting, TriedOnce, Writing
  <1> QED BY <1>1, <1>2, <1>3, <1>4 DEF IInv, Safe

-----------------------------------------------------------------------------
\* The type invariant is inductive by itself.
LEMMA DataStep == DataType /\ [Next]_vars => DataType'
  <1> SUFFICES ASSUME DataType, [Next]_vars PROVE DataType'
    OBVIOUS
  <1> USE TwoImages, ImageStates DEF DataType, ghosts, WriteBootconfig
  <1>1. CASE PowerOn
    BY <1>1, DecodeType DEF PowerOn
  <1>2. CASE AtGo
    BY <1>2, SetImageState DEF AtGo, NewImages, CheckHaveNew, DualImageInfo
  <1>3. CASE CfgErase \/ CfgWrite
    BY <1>3 DEF CfgErase, CfgWrite
  <1>4. CASE Boot
    BY <1>4 DEF MaxTries, Boot
  <1>5. CASE Detect
    <2>1. PICK info \in DualImageInfo :
            dualIMAGE' = [info EXCEPT !.state[run] = SUCCESS_IMAGE, !.bootImage = run]
      BY <1>5, DecodeType DEF Detect
    <2>2. dualIMAGE' \in DualImageInfo
      BY <2>1 DEF DualImageInfo
    <2> QED BY <1>5, <2>2 DEF Detect
  <1>6. CASE UpgradeStart \/ UpgradeDemux \/ UpgradeDone
    BY <1>6, SetImageState, OtherImage DEF UpgradeStart, UpgradeDemux, UpgradeDone, Over, Target
  <1>7. CASE UpgradeErase
    <2>1. Target \in Images
      BY OtherImage DEF Target
    <2>2. fw' \in [Images -> {"good", "bad", "torn"}]
      BY <1>7, <2>1 DEF UpgradeErase
    <2>3. tries' \in [Images -> 0 .. MaxTries]
      BY <1>7, <2>1 DEF UpgradeErase, MaxTries
    <2> QED BY <1>7, <2>2, <2>3 DEF UpgradeErase
  <1>8. CASE UpgradeWrite
    BY <1>8, OtherImage DEF UpgradeWrite, Over, Target
  <1>15. CASE UpgradeNothing
    BY <1>15, OtherImage DEF UpgradeNothing, Target
  <1>9. CASE Crash
    BY <1>9 DEF Crash
  <1>10. CASE KernelDies \/ Reboot
    BY <1>10 DEF KernelDies, Reboot
  <1>13. CASE AtGoPrompt
    BY <1>13 DEF AtGoPrompt
  <1>12. ASSUME NEW i \in Images, AtGoImage(i) PROVE DataType'
    BY <1>12 DEF AtGoImage
  <1>14. CASE CfgWriteFails
    BY <1>14 DEF CfgWriteFails
  <1>11. CASE UNCHANGED vars
    BY <1>11 DEF vars
  <1> QED
    BY <1>1, <1>2, <1>3, <1>4, <1>5, <1>6, <1>7, <1>8, <1>9, <1>10, <1>11, <1>12, <1>13,
       <1>14, <1>15
    DEF Next, Step

LEMMA TypeStep == TypeOK /\ [Next]_vars => TypeOK'
  <1> SUFFICES ASSUME TypeOK, [Next]_vars PROVE (chosen \in BOOLEAN /\ lost \in BOOLEAN)'
    BY DataStep DEF TypeOK
  <1> QED
    BY Zenon DEF TypeOK, Next, Step, PowerOn, AtGo, CfgErase, CfgWrite, Boot, KernelDies, Detect,
       UpgradeDemux, UpgradeErase, UpgradeNothing, UpgradeWrite, UpgradeDone, Reboot, UpgradeStart, Crash,
       AtGoImage, AtGoPrompt, CfgWriteFails, ghosts, vars

-----------------------------------------------------------------------------
\* A lost bootconfig stays lost.
LEMMA LostForever == ASSUME [Next]_vars, ~lost' PROVE ~lost
  BY Zenon DEF Next, Step, PowerOn, AtGo, CfgErase, CfgWrite, Boot, KernelDies, Detect,
     UpgradeDemux, UpgradeErase, UpgradeNothing, UpgradeWrite, UpgradeDone, Reboot, UpgradeStart, Crash,
     AtGoImage, AtGoPrompt, CfgWriteFails, ghosts, vars

\* U-Boot reads bootconfig and picks the image to boot.
LEMMA PowerOnSafe == ASSUME TypeOK, Safe, PowerOn PROVE Safe'
  <1> USE DEF Safe, PowerOn, ghosts
  <1>1. dualIMAGE' = cfg.info
    BY DecodeValid DEF Bootconfig
  <1> QED
    BY <1>1 DEF Bootconfig, Fallback, NewComplete, Fresh, Flashing, Starting, TriedOnce, Writing

LEMMA AtGoSafe == ASSUME TypeOK, Safe, AtGo PROVE Safe'
  <1> USE DEF Safe, AtGo, ghosts
  <1>1. CASE NewImages = {}
    <2>1. run' = dualIMAGE.bootImage /\ pc' = "boot" /\ UNCHANGED <<dualIMAGE, then>>
      BY <1>1
    <2>2. run' \in confirmed /\ fw[run'] # "torn"
      BY <2>1 DEF Fallback
    <2> QED
      BY <2>1, <2>2 DEF Bootconfig, Fallback, NewComplete, Fresh, Flashing, Starting,
         TriedOnce, Writing
  <1>2. ASSUME NEW i \in NewImages, run' = i, CheckHaveNew(i) PROVE Safe'
    <2>1. i \in Images /\ dualIMAGE \in DualImageInfo /\ dualIMAGE.state[i] = NEW_IMAGE
      BY DEF NewImages, TypeOK, DataType
    <2>2. /\ dualIMAGE'.bootImage = dualIMAGE.bootImage
          /\ dualIMAGE'.state[i] = FAIL_IMAGE
          /\ \A j \in Images : j # i => dualIMAGE'.state[j] = dualIMAGE.state[j]
      BY <1>2, <2>1, SetImageState, ImageStates DEF CheckHaveNew
    <2>3. pc' = "cfgErase" /\ then' = "boot"
      BY <1>2 DEF CheckHaveNew, WriteBootconfig
    <2>4. Bootconfig' /\ Fallback' /\ Flashing' /\ TriedOnce'
      BY <2>2, <2>3 DEF Bootconfig, Fallback, Flashing, TriedOnce, Writing
    <2>5. NewComplete'
      BY <2>1, <2>2, <2>3, ImageStates DEF NewComplete, Fresh
    <2>6. Starting'
      BY <1>2, <2>1, <2>2, ImageStates DEF Starting, NewComplete, Fresh
    <2> QED BY <2>4, <2>5, <2>6
  <1> QED BY <1>1, <1>2

\* bootconfig is rewritten: its two steps.
LEMMA CfgSafe == ASSUME TypeOK, Safe, CfgErase \/ CfgWrite PROVE Safe'
  <1> USE DEF Safe, ghosts
  <1>1. CASE CfgErase
    <2>1. cfg'.info = cfg.info /\ cfg'.as = "erased"
      BY <1>1 DEF CfgErase, TypeOK, DataType
    <2> QED
      BY <1>1, <2>1 DEF CfgErase, Bootconfig, Fallback, NewComplete, Fresh, Flashing, Starting,
         TriedOnce, Writing, Target, UpgradeImage
  <1>2. CASE CfgWrite
    BY <1>2 DEF CfgWrite, Bootconfig, Fallback, NewComplete, Fresh, Flashing, Starting,
       TriedOnce, Writing, Target, UpgradeImage, TypeOK, DataType
  <1> QED BY <1>1, <1>2

\* An image is started.  The only count that grows is that of an image whose
\* unattended start was found fresh.
LEMMA BootSafe == ASSUME TypeOK, Safe, Boot PROVE Safe'
  <1> USE DEF Safe, Boot
  <1>1. pc = "boot" /\ pc' \in {"prompt", "kernel"} /\ tries \in [Images -> 0 .. MaxTries]
    BY DEF TypeOK, DataType
  <1>2. CASE tries' = tries
    BY <1>1, <1>2 DEF Bootconfig, Fallback, NewComplete, Fresh, Flashing, Starting, TriedOnce,
       Writing
  <1>3. CASE tries' # tries
    <2>1. ~chosen /\ run \notin confirmed /\ tries' = [tries EXCEPT ![run] = @ + 1]
      BY <1>3, Zenon
    <2>2. /\ run \in hollow \/ tries[run] = 0
          /\ dualIMAGE.state[run] # NEW_IMAGE /\ run \in Images
      BY <1>1, <2>1 DEF Starting, TypeOK, DataType
    <2>3. /\ run \in hollow \/ tries'[run] = 1
          /\ \A j \in Images : j # run => tries'[j] = tries[j]
      BY <1>1, <2>1, <2>2
    <2>4. cfg.info = dualIMAGE
      BY <1>1 DEF Bootconfig, Writing
    <2>5. TriedOnce'
      BY <2>3 DEF TriedOnce
    <2>6. NewComplete'
      BY <1>1, <2>2, <2>3, <2>4 DEF NewComplete, Fresh
    <2>7. Bootconfig' /\ Fallback' /\ Flashing' /\ Starting'
      BY <1>1 DEF Bootconfig, Fallback, Flashing, Starting, Writing
    <2> QED BY <2>5, <2>6, <2>7
  <1> QED BY <1>2, <1>3

\* The image that runs came up.
LEMMA DetectSafe == ASSUME TypeOK, Safe, Detect PROVE Safe'
  <1> USE DEF Safe, Detect
  <1>1. /\ cfg.as = "valid" /\ cfg.info = dualIMAGE
        /\ pc' = "cfgErase" /\ then' = "linux" /\ confirmed' = confirmed \cup {run}
        /\ fw[run] = "good" /\ run \in Images /\ dualIMAGE \in DualImageInfo
    BY DEF Bootconfig, Writing, WriteBootconfig, TypeOK, DataType
  <1>2. dualIMAGE' = [cfg.info EXCEPT !.state[run] = SUCCESS_IMAGE, !.bootImage = run]
    BY <1>1, DecodeValid
  <1>3. /\ dualIMAGE'.bootImage = run
        /\ dualIMAGE'.state[run] = SUCCESS_IMAGE
        /\ \A j \in Images : j # run => dualIMAGE'.state[j] = dualIMAGE.state[j]
    BY <1>1, <1>2 DEF DualImageInfo
  <1>4. NewComplete'
    BY <1>1, <1>3, ImageStates DEF NewComplete, Fresh
  <1>5. Bootconfig' /\ Fallback' /\ Flashing' /\ Starting' /\ TriedOnce'
    BY <1>1, <1>3 DEF Bootconfig, Fallback, Flashing, Starting, TriedOnce, Writing
  <1> QED BY <1>4, <1>5

\* The other image is marked failed, then flashed, then marked new.
LEMMA UpgradeStartSafe == ASSUME TypeOK, Safe, UpgradeStart PROVE Safe'
  <1> USE DEF Safe, UpgradeStart
  <1>1. /\ Target \in Images /\ dualIMAGE \in DualImageInfo /\ cfg.info = dualIMAGE
        /\ pc' = "cfgErase" /\ then' = "demux"
    BY OtherImage DEF Bootconfig, Writing, WriteBootconfig, TypeOK, DataType, Target
  <1>2. /\ dualIMAGE'.bootImage = dualIMAGE.bootImage
        /\ dualIMAGE'.state[Target] = FAIL_IMAGE
        /\ \A j \in Images : j # Target => dualIMAGE'.state[j] = dualIMAGE.state[j]
    BY <1>1, SetImageState, ImageStates
  <1>3. Target' = Target
    BY <1>2 DEF Target, UpgradeImage
  <1>4. NewComplete'
    BY <1>1, <1>2, ImageStates DEF NewComplete, Fresh
  <1>5. Bootconfig' /\ Fallback' /\ Flashing' /\ Starting' /\ TriedOnce'
    BY <1>1, <1>2, <1>3 DEF Bootconfig, Fallback, Flashing, Starting, TriedOnce, Writing
  <1> QED BY <1>4, <1>5

LEMMA UpgradeEraseSafe == ASSUME TypeOK, Safe, UpgradeErase PROVE Safe'
  <1> USE DEF Safe, UpgradeErase
  <1>1. /\ Target \in Images /\ Target # dualIMAGE.bootImage /\ dualIMAGE \in DualImageInfo
        /\ cfg.info = dualIMAGE /\ Target' = Target
        /\ dualIMAGE.state[Target] = FAIL_IMAGE
        /\ fw \in [Images -> {"good", "bad", "torn"}] /\ confirmed \subseteq Images
        /\ tries \in [Images -> 0 .. MaxTries]
    BY OtherImage DEF Bootconfig, Flashing, Writing, TypeOK, DataType, Target, UpgradeImage
  <1>2. /\ \A j \in Images : j # Target => fw'[j] = fw[j] /\ tries'[j] = tries[j]
        /\ tries'[Target] = 0 /\ confirmed' = confirmed \ {Target}
    BY <1>1
  <1>3. Bootconfig' /\ Starting'
    BY DEF Bootconfig, Starting, Writing
  <1>4. Fallback'
    BY <1>1, <1>2 DEF Fallback
  <1>5. NewComplete'
    BY <1>1, <1>2, ImageStates DEF NewComplete, Fresh
  <1>6. Flashing' /\ TriedOnce'
    BY <1>1, <1>2 DEF Flashing, TriedOnce
  <1> QED BY <1>3, <1>4, <1>5, <1>6

\* An upgrade without firmware touches no image.
LEMMA UpgradeNothingSafe == ASSUME TypeOK, Safe, UpgradeNothing PROVE Safe'
  <1> USE DEF Safe, UpgradeNothing
  <1>1. Target' = Target /\ hollow' = hollow \cup {Target}
    BY DEF Target, UpgradeImage
  <1>2. Bootconfig' /\ Fallback' /\ Starting' /\ TriedOnce'
    BY <1>1 DEF Bootconfig, Fallback, Starting, TriedOnce, Writing
  <1>3. NewComplete' /\ Flashing'
    BY <1>1 DEF NewComplete, Fresh, Flashing, Writing
  <1> QED BY <1>2, <1>3

LEMMA UpgradeWriteSafe == ASSUME TypeOK, Safe, UpgradeWrite PROVE Safe'
  <1> USE DEF Safe, UpgradeWrite, ghosts
  <1>1. /\ Target \in Images /\ dualIMAGE \in DualImageInfo
        /\ cfg.info = dualIMAGE /\ Target' = Target /\ Target \notin confirmed
        /\ dualIMAGE.state[Target] = FAIL_IMAGE /\ tries[Target] = 0
        /\ fw \in [Images -> {"good", "bad", "torn"}] /\ confirmed \subseteq Images
    BY OtherImage DEF Bootconfig, Flashing, Writing, TypeOK, DataType, Target, UpgradeImage
  <1>2. CASE pc' \in Over /\ UNCHANGED fw
    BY <1>1, <1>2 DEF Over, Bootconfig, Fallback, NewComplete, Fresh, Flashing, Starting, TriedOnce,
       Writing
  <1>3. ASSUME NEW c \in {"good", "bad"}, fw' = [fw EXCEPT ![Target] = c], pc' = "setNew"
        PROVE  Safe'
    <2>1. fw'[Target] # "torn" /\ \A j \in Images : j # Target => fw'[j] = fw[j]
      BY <1>1, <1>3
    <2>2. Bootconfig' /\ Starting' /\ Flashing' /\ TriedOnce'
      BY <1>1, <1>3, <2>1 DEF Bootconfig, Starting, Flashing, TriedOnce, Writing
    <2>3. Fallback'
      BY <1>1, <1>3, <2>1 DEF Fallback
    <2>4. NewComplete'
      BY <1>1, <1>3, <2>1, ImageStates DEF NewComplete, Fresh
    <2> QED BY <2>2, <2>3, <2>4
  <1> QED BY <1>2, <1>3

LEMMA UpgradeDoneSafe == ASSUME TypeOK, Safe, UpgradeDone PROVE Safe'
  <1> USE DEF Safe, UpgradeDone, ghosts
  <1>1. /\ Target \in Images /\ dualIMAGE \in DualImageInfo /\ cfg.info = dualIMAGE
        /\ Target \in hollow \/ (fw[Target] # "torn" /\ tries[Target] = 0)
        /\ pc' = "cfgErase" /\ then' \in {"off", "linux"}
    BY OtherImage DEF Over, Bootconfig, Flashing, Writing, WriteBootconfig, TypeOK, DataType, Target
  <1>2. /\ dualIMAGE'.bootImage = dualIMAGE.bootImage
        /\ \A j \in Images : j # Target => dualIMAGE'.state[j] = dualIMAGE.state[j]
    BY <1>1, SetImageState, ImageStates
  <1>3. NewComplete'
    BY <1>1, <1>2 DEF NewComplete, Fresh
  <1>4. Bootconfig' /\ Fallback' /\ Flashing' /\ Starting' /\ TriedOnce'
    BY <1>1, <1>2 DEF Bootconfig, Fallback, Flashing, Starting, TriedOnce, Writing
  <1> QED BY <1>3, <1>4

\* A power cut outside the write of bootconfig loses nothing.
LEMMA CrashSafe == ASSUME TypeOK, Safe, Crash, ~lost' PROVE Safe'
  <1>1. pc # "cfgWrite" /\ UNCHANGED cfg
    BY Zenon DEF Crash
  <1> QED
    BY <1>1 DEF Crash, Safe, Bootconfig, Fallback, NewComplete, Fresh, Flashing, Starting,
       TriedOnce, Writing

\* The other steps move control only.
LEMMA OtherSafe ==
  ASSUME TypeOK, Safe,
         KernelDies \/ Reboot \/ UpgradeDemux \/ AtGoPrompt \/ (\E i \in Images : AtGoImage(i))
  PROVE  Safe'
  <1> USE DEF Safe, Bootconfig, Fallback, NewComplete, Fresh, Flashing, Starting, TriedOnce,
          Writing, ghosts
  <1>1. CASE KernelDies
    BY <1>1 DEF KernelDies
  <1>2. CASE Reboot
    BY <1>2 DEF Reboot
  <1>3. CASE UpgradeDemux
    BY <1>3 DEF UpgradeDemux, Over, Target, UpgradeImage
  <1>4. CASE AtGoPrompt
    BY <1>4 DEF AtGoPrompt
  <1>5. ASSUME NEW i \in Images, AtGoImage(i) PROVE Safe'
    <2>1. chosen'
      BY <1>5, Zenon DEF AtGoImage
    <2> QED BY <1>5, <2>1 DEF AtGoImage
  <1> QED BY <1>1, <1>2, <1>3, <1>4, <1>5

LEMMA IInvStep == IInv /\ [Next]_vars => IInv'
  <1> SUFFICES ASSUME IInv, [Next]_vars, ~lost' PROVE Safe'
    BY TypeStep DEF IInv
  <1>1. TypeOK /\ Safe
    BY LostForever DEF IInv
  <1>2. CASE UNCHANGED vars
    BY <1>1, <1>2 DEF vars, Safe, Bootconfig, Fallback, NewComplete, Fresh, Flashing, Starting,
       TriedOnce, Writing, Target, UpgradeImage
  <1>3. CASE Next
    <2>1. ~CfgWriteFails
      BY Zenon DEF CfgWriteFails
    <2> QED
      BY <1>1, <1>3, <2>1, PowerOnSafe, AtGoSafe, CfgSafe, BootSafe, DetectSafe, UpgradeStartSafe,
         UpgradeEraseSafe, UpgradeNothingSafe, UpgradeWriteSafe, UpgradeDoneSafe, CrashSafe, OtherSafe DEF Next, Step
  <1> QED BY <1>2, <1>3

-----------------------------------------------------------------------------
\* The inductive invariant holds in every reachable state.
THEOREM DualInductive == Spec => []IInv
  BY InitIInv, IInvStep, PTL DEF Spec

\* Every variable of the boot loader, the bootconfig block and the upgrade
\* script keeps its type.
THEOREM DualTypeCorrect == Spec => []TypeOK
  <1>1. IInv => TypeOK
    BY DEF IInv
  <1> QED BY <1>1, DualInductive, PTL

\* However often power is cut, upgrades abort and operators interfere, an
\* unattended boot (checkHaveNewImage) never picks a half-written partition,
\* as long as no power cut or failure hit the write of bootconfig and no
\* upgrade marked that partition new without flashing it.
THEOREM DualBootsComplete == Spec => []BootsComplete
  <1>1. IInv => BootsComplete
    BY DEF IInv, Safe, Starting, BootsComplete
  <1> QED BY <1>1, DualInductive, PTL

\* Under the same condition an image that never came up is started
\* unattended once at most (checkHaveNewImage).
THEOREM DualTriedOnce == Spec => []TriedOnce
  <1>1. IInv => TriedOnce
    BY DEF IInv, Safe, TriedOnce
  <1> QED BY <1>1, DualInductive, PTL

\* Under the same condition bootImage names an image that came up and that
\* no upgrade (platform_do_upgrade) has touched since.
THEOREM DualFallbackKept == Spec => []FallbackKept
  <1>1. IInv => FallbackKept
    BY DEF IInv, Safe, Fallback, FallbackKept
  <1> QED BY <1>1, DualInductive, PTL
=============================================================================
