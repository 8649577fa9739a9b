---------------------------- MODULE MtkBootProofs ----------------------------
(***************************************************************************)
(* MediaTek's dual image support, for every number of blocks and versions, *)
(* every length of their kernels and root file systems, and any number of  *)
(* upgrades, failures, power cuts and decaying blocks.                     *)
(*                                                                         *)
(* What the check concludes depends on the contents of one partition only, *)
(* so the operators of MtkBoot are restated over contents.                 *)
(***************************************************************************)
EXTENDS MtkBoot, TLAPS

Files    == Versions \cup {"foreign"}
Contents ==
  {Erased, Marker, Foreign, Junk}
    \cup {Image(v, i) : v \in Versions, i \in Nat}
    \cup {Torn(Image(v, i)) : v \in Versions, i \in Nat}
Disk     == [Blocks -> Contents]
Jobs     == [src : Parts, dst : Parts, file : Files, n : 0 .. PartBlocks, i : 0 .. PartBlocks]

\* The contents b hold the complete image of v.
Holds(b, v) == \A i \in 0 .. Size(v) - 1 : b[i] = Image(v, i)

\* Found, Unread and Verified, of contents, and the sizes a check may conclude
FoundIn(b) ==
  LET kernel == {v \in Versions : \A i \in 0 .. Kernel[v] - 1 : b[i] = Image(v, i)}
      squashfs(v) == {Rootfs[w] : w \in {w \in Versions :
                        b[Kernel[v]] \in {Image(w, Kernel[w]), Torn(Image(w, Kernel[w]))}}}
  IN  {x \in kernel \X (1 .. PartBlocks) :
         x[2] \in squashfs(x[1]) /\ Kernel[x[1]] + x[2] <= PartBlocks}

UnreadIn(b) == {Kernel[x[1]] : x \in FoundIn(b)}

VerifiedIn(b) ==
  LET tail(x) == b[Kernel[x[1]] + x[2] - 1]
  IN  {Kernel[x[1]] : x \in {y \in FoundIn(b) : tail(y) = Junk}}
        \cup {Kernel[x[1]] + x[2] : x \in {y \in FoundIn(b) : tail(y)[1] \in {"img", "foreign"}}}

SizesIn(b) == VerifiedIn(b) \cup UnreadIn(b)

-----------------------------------------------------------------------------
(* The inductive invariant                                                 *)

MtkTypeOK ==
  /\ part \in [Areas -> Disk]
  /\ pc \in {"menu", "check", "copy_erase", "copy_write", "boot", "run",
             "up_erase", "up_write", "up_backup"}
  /\ job \in Jobs
  /\ rots \in Nat
  /\ wanted \in Files /\ half \in BOOLEAN /\ stale \in BOOLEAN

Copying == pc \in {"copy_erase", "copy_write"}

\* The marker goes behind the destination: into the source, perhaps.
Behind == pc = "copy_write" /\ job.i = PartBlocks

\* copy_firmware copies an image the check called good to the other partition;
\* what it has gone over is copied.
Copies ==
  /\ Copying => job.src # job.dst /\ job.n \in 1 .. PartBlocks /\ job.i <= job.n
  /\ Copying /\ ~Behind =>
       /\ job.n \in SizesIn(part[job.src])
       /\ \A k \in Blocks : k < job.i => part[job.dst][k] = part[job.src][k]
  /\ pc = "copy_write" => part[Area(job.dst, job.i)][job.i % PartBlocks] = Erased

\* _write_firmware erases all blocks of the file before it writes the first.
Upgrades ==
  /\ pc \in {"up_erase", "up_write"} => job.n = FileBlocks(job.file) /\ job.i < job.n
  /\ pc = "up_erase" => \A k \in Blocks : k < job.i => part["main"][k] = Erased
  /\ pc = "up_write" =>
       \A k \in Blocks : k < job.n =>
         part["main"][k] = IF k < job.i THEN FileBlock(job.file, k) ELSE Erased

\* An image that begins is complete, or its last block is missing, or it is a
\* kernel copied alone.
SoundIn(b) ==
  \A v \in Versions : b[0] = Image(v, 0) =>
    \/ b[Kernel[v]] = Marker
    \/ /\ \A i \in 0 .. Size(v) - 1 : b[i] \in {Image(v, i), Torn(Image(v, i)), Erased}
       /\ b[Size(v) - 1] = Image(v, Size(v) - 1) => Holds(b, v)

\* The partition p is being overwritten by a copy.
Target(p) == Copying /\ ~Behind /\ p = job.dst

Undisturbed == ~half /\ rots = 0
Sound ==
  Undisturbed => \A p \in Parts : Target(p) \/ SoundIn(part[p])

\* Complete images are the one of the last upgrade; the backup is too, but
\* for the moment before an upgrade invalidates it.
Newest ==
  Undisturbed /\ ~stale =>
    \A p \in Parts, v \in Versions :
      Holds(part[p], v) => \/ v = wanted
                           \/ Target(p)
                           \/ pc = "up_backup" /\ p = "backup"

\* A job is never past its end.
Within == job.i <= job.n

MtkInv == MtkTypeOK /\ Within /\ Copies /\ Upgrades /\ Sound /\ Newest

-----------------------------------------------------------------------------
(* Contents                                                                *)

LEMMA Numbers ==
  /\ PartBlocks \in Nat /\ 1 < PartBlocks /\ 0 \in Blocks
  /\ \A v \in Versions : /\ Kernel[v] \in Nat /\ Kernel[v] > 0 /\ Rootfs[v] \in Nat /\ Rootfs[v] > 0
                         /\ Size(v) \in Nat /\ Size(v) = Kernel[v] + Rootfs[v]
                         /\ Size(v) > 1 /\ Size(v) <= PartBlocks
                         /\ Kernel[v] < PartBlocks
  <1>1. PartBlocks \in Nat
    BY MtkBootAssumption
  <1>2. \A v \in Versions : /\ Kernel[v] \in Nat /\ Kernel[v] > 0 /\ Rootfs[v] \in Nat /\ Rootfs[v] > 0
                            /\ Kernel[v] + Rootfs[v] <= PartBlocks
    BY MtkBootAssumption
  <1>3. \A v \in Versions : /\ Size(v) \in Nat /\ Size(v) = Kernel[v] + Rootfs[v]
                            /\ Size(v) > 1 /\ Size(v) <= PartBlocks
                            /\ Kernel[v] < PartBlocks
    BY <1>1, <1>2 DEF Size
  <1>4. 1 < PartBlocks
    BY <1>1, <1>2, <1>3, MtkBootAssumption
  <1> QED BY <1>1, <1>2, <1>3, <1>4 DEF Blocks

LEMMA Tags ==
  ASSUME NEW v, NEW i
  PROVE  /\ Image(v, i)[1] = "img" /\ Torn(Image(v, i))[1] = "torn"
         /\ Erased[1] = "erased" /\ Marker[1] = "marker" /\ Foreign[1] = "foreign" /\ Junk[1] = "junk"
  BY DEF Image, Torn, Erased, Marker, Foreign, Junk

LEMMA Distinct ==
  ASSUME NEW v, NEW i
  PROVE  /\ Image(v, i) \notin {Erased, Marker, Foreign, Junk}
         /\ Torn(Image(v, i)) \notin {Erased, Marker, Foreign, Junk}
         /\ Erased \notin {Marker, Foreign, Junk}
         /\ \A w, j : Torn(Image(w, j)) # Image(v, i)
         /\ \A w, j : Image(w, j) = Image(v, i) => w = v /\ j = i
         /\ \A w, j : Torn(Image(w, j)) = Torn(Image(v, i)) => w = v /\ j = i
  <1>1. \A w, j : Image(w, j) = Image(v, i) => w = v /\ j = i
    BY DEF Image
  <1>2. \A w, j : Torn(Image(w, j)) = <<"torn", w, j>>
    BY DEF Torn, Image
  <1>3. \A w, j : Torn(Image(w, j)) = Torn(Image(v, i)) => w = v /\ j = i
    BY <1>2
  <1>4. Image(v, i)[1] = "img" /\ \A w, j : Torn(Image(w, j))[1] = "torn"
    BY Tags
  <1>5. /\ Erased[1] = "erased" /\ Marker[1] = "marker" /\ Foreign[1] = "foreign" /\ Junk[1] = "junk"
    BY Tags
  <1>6. /\ Image(v, i) \notin {Erased, Marker, Foreign, Junk}
        /\ Torn(Image(v, i)) \notin {Erased, Marker, Foreign, Junk}
        /\ Erased \notin {Marker, Foreign, Junk}
    BY <1>4, <1>5
  <1>7. \A w, j : Torn(Image(w, j)) # Image(v, i)
    BY <1>4
  <1> QED BY <1>1, <1>3, <1>6, <1>7

LEMMA ContentTypes ==
  /\ {Erased, Marker, Foreign, Junk} \subseteq Contents
  /\ \A v \in Versions, i \in Nat : Image(v, i) \in Contents
  /\ \A b \in Contents : Torn(b) \in Contents
  /\ \A f \in Files, i \in Nat : FileBlock(f, i) \in Contents
  <1>1. /\ {Erased, Marker, Foreign, Junk} \subseteq Contents
        /\ \A v \in Versions, i \in Nat : Image(v, i) \in Contents
    BY DEF Contents
  <1>2. ASSUME NEW b \in Contents PROVE Torn(b) \in Contents
    <2>1. CASE b \in {Erased, Marker, Foreign, Junk}
      <3>1. b[1] # "img"
        BY <2>1, Tags
      <3>2. Torn(b) = Erased
        BY <3>1 DEF Torn, Erased
      <3> QED BY <3>2, <1>1
    <2>2. CASE \E v \in Versions, i \in Nat : b = Image(v, i)
      BY <2>2 DEF Contents
    <2>3. CASE \E v \in Versions, i \in Nat : b = Torn(Image(v, i))
      <3>1. b[1] = "torn"
        BY <2>3, Tags
      <3>2. Torn(b) = Erased
        BY <3>1 DEF Torn, Erased
      <3> QED BY <3>2, <1>1
    <2> QED BY <2>1, <2>2, <2>3 DEF Contents
  <1>3. \A f \in Files, i \in Nat : FileBlock(f, i) \in Contents
    BY <1>1 DEF FileBlock, Files
  <1> QED BY <1>1, <1>2, <1>3

LEMMA FoundIs ==
  ASSUME NEW p
  PROVE  Found(p) = FoundIn(part[p])
  BY DEF Found, FoundIn, KernelOf, SquashfsAt

LEMMA VerifiedIs ==
  ASSUME NEW p
  PROVE  Verified(p) = VerifiedIn(part[p]) /\ Unread(p) = UnreadIn(part[p])
  BY FoundIs DEF Verified, VerifiedIn, Unread, UnreadIn

\* What the check has seen of contents it calls good
LEMMA FoundFacts ==
  ASSUME NEW b, NEW x \in FoundIn(b)
  PROVE  \E w \in Versions :
           /\ x[1] \in Versions /\ x[2] = Rootfs[w]
           /\ \A i \in 0 .. Kernel[x[1]] - 1 : b[i] = Image(x[1], i)
           /\ b[Kernel[x[1]]] \in {Image(w, Kernel[w]), Torn(Image(w, Kernel[w]))}
           /\ Kernel[x[1]] + Rootfs[w] <= PartBlocks
  BY DEF FoundIn

LEMMA VerifiedFacts ==
  ASSUME NEW b, NEW n \in VerifiedIn(b)
  PROVE  \E v \in Versions, w \in Versions :
           /\ \A i \in 0 .. Kernel[v] - 1 : b[i] = Image(v, i)
           /\ b[Kernel[v]] \in {Image(w, Kernel[w]), Torn(Image(w, Kernel[w]))}
           /\ Kernel[v] + Rootfs[w] <= PartBlocks
           /\ \/ n = Kernel[v] /\ b[Kernel[v] + Rootfs[w] - 1] = Junk
              \/ n = Kernel[v] + Rootfs[w] /\ b[Kernel[v] + Rootfs[w] - 1][1] \in {"img", "foreign"}
  <1>1. PICK x \in FoundIn(b) :
          \/ n = Kernel[x[1]] /\ b[Kernel[x[1]] + x[2] - 1] = Junk
          \/ n = Kernel[x[1]] + x[2] /\ b[Kernel[x[1]] + x[2] - 1][1] \in {"img", "foreign"}
    BY DEF VerifiedIn
  <1> QED BY <1>1, FoundFacts

LEMMA UnreadFacts ==
  ASSUME NEW b, NEW n \in UnreadIn(b)
  PROVE  \E v \in Versions : n = Kernel[v] /\ \A i \in 0 .. Kernel[v] - 1 : b[i] = Image(v, i)
  BY FoundFacts DEF UnreadIn

LEMMA SizesRange ==
  ASSUME NEW b, NEW n \in SizesIn(b)
  PROVE  n \in Nat /\ n \in 1 .. PartBlocks
  <1>1. CASE n \in VerifiedIn(b)
    <2>1. PICK v \in Versions, w \in Versions :
             /\ Kernel[v] + Rootfs[w] <= PartBlocks
             /\ n = Kernel[v] \/ n = Kernel[v] + Rootfs[w]
      BY <1>1, VerifiedFacts
    <2> QED BY <2>1, Numbers
  <1>2. CASE n \in UnreadIn(b)
    BY <1>2, UnreadFacts, Numbers
  <1> QED BY <1>1, <1>2 DEF SizesIn

\* Sound contents the check calls good are a complete image, of the size it
\* found.
LEMMA SoundVerified ==
  ASSUME NEW b, SoundIn(b), NEW n \in VerifiedIn(b)
  PROVE  \E v \in Versions : n = Size(v) /\ Holds(b, v)
  <1>1. PICK v \in Versions, w \in Versions :
           /\ \A i \in 0 .. Kernel[v] - 1 : b[i] = Image(v, i)
           /\ b[Kernel[v]] \in {Image(w, Kernel[w]), Torn(Image(w, Kernel[w]))}
           /\ \/ n = Kernel[v] /\ b[Kernel[v] + Rootfs[w] - 1] = Junk
              \/ n = Kernel[v] + Rootfs[w] /\ b[Kernel[v] + Rootfs[w] - 1][1] \in {"img", "foreign"}
    BY VerifiedFacts
  <1>2. /\ Kernel[v] \in Nat /\ Kernel[v] > 0 /\ Rootfs[v] \in Nat /\ Rootfs[v] > 0
        /\ Size(v) = Kernel[v] + Rootfs[v]
    BY Numbers
  <1>3. 0 \in 0 .. Kernel[v] - 1
    BY <1>2
  <1>4. b[0] = Image(v, 0)
    BY <1>1, <1>3
  <1>5. /\ \A i \in 0 .. Size(v) - 1 : b[i] \in {Image(v, i), Torn(Image(v, i)), Erased}
        /\ b[Size(v) - 1] = Image(v, Size(v) - 1) => Holds(b, v)
    <2>1. b[Kernel[v]] # Marker
      BY <1>1, Distinct
    <2> QED BY <1>4, <2>1 DEF SoundIn
  <1>6. Kernel[v] \in 0 .. Size(v) - 1 /\ Size(v) - 1 \in 0 .. Size(v) - 1
    BY <1>2
  <1>7. w = v
    <2>1. b[Kernel[v]] \in {Image(v, Kernel[v]), Torn(Image(v, Kernel[v])), Erased}
      BY <1>5, <1>6
    <2> QED BY <2>1, <1>1, Distinct
  <1>8. Kernel[v] + Rootfs[w] - 1 = Size(v) - 1
    BY <1>2, <1>7
  <1>9. b[Size(v) - 1] \in {Image(v, Size(v) - 1), Torn(Image(v, Size(v) - 1)), Erased}
    BY <1>5, <1>6
  <1>10. b[Size(v) - 1] # Junk
    BY <1>9, Distinct
  <1>11. n = Size(v) /\ b[Size(v) - 1][1] \in {"img", "foreign"}
    BY <1>1, <1>2, <1>7, <1>8, <1>10
  <1>12. b[Size(v) - 1] = Image(v, Size(v) - 1)
    BY <1>9, <1>11, Tags
  <1> QED BY <1>5, <1>11, <1>12

-----------------------------------------------------------------------------
(* Steps                                                                   *)

Puts(p, i, b) == part' = [part EXCEPT ![p][i] = b]

LEMMA PutsType ==
  ASSUME MtkTypeOK, NEW p \in Areas, NEW i \in Blocks, NEW b \in Contents, Puts(p, i, b)
  PROVE  /\ part' \in [Areas -> Disk]
         /\ part'[p][i] = b
         /\ \A k \in Blocks : k # i => part'[p][k] = part[p][k]
         /\ \A q \in Areas : q # p => part'[q] = part[q]
  <1>1. part \in [Areas -> [Blocks -> Contents]]
    BY DEF MtkTypeOK, Disk
  <1> QED BY <1>1 DEF Puts, Disk

\* An address is one of the partition, or the first one behind it.
LEMMA PutIs ==
  ASSUME NEW p \in Parts, NEW i \in 0 .. PartBlocks
  PROVE  /\ Area(p, i) \in Areas /\ i % PartBlocks \in Blocks
         /\ i < PartBlocks => Area(p, i) = p /\ i % PartBlocks = i
         /\ i = PartBlocks => Area(p, i) # p /\ i % PartBlocks = 0
         /\ \A b : Put(p, i, b) <=> Puts(Area(p, i), i % PartBlocks, b)
  <1>1. /\ i % PartBlocks \in Blocks /\ (i < PartBlocks => i % PartBlocks = i)
        /\ (i = PartBlocks => i % PartBlocks = 0)
    BY Numbers DEF Blocks
  <1>2. /\ Area(p, i) \in Areas /\ (i < PartBlocks => Area(p, i) = p)
        /\ (i = PartBlocks => Area(p, i) # p)
    BY Numbers DEF Area, Areas, Parts
  <1>3. \A b : Put(p, i, b) <=> Puts(Area(p, i), i % PartBlocks, b)
    BY DEF Put, Puts
  <1> QED BY <1>1, <1>2, <1>3

LEMMA AreaTypes ==
  Parts \subseteq Areas /\ "main" \in Areas /\ "backup" \in Areas /\ "main" # "backup"
  /\ "main" \in Parts /\ "backup" \in Parts
  BY DEF Areas, Parts

LEMMA CutErase ==
  ASSUME MtkTypeOK, NEW p \in Areas, NEW i \in Blocks, NEW b \in {part[p][i], Junk}, Puts(p, i, b)
  PROVE  part' = part \/ Puts(p, i, Junk)
  <1>1. CASE b = part[p][i]
    <2>1. part \in [Areas -> [Blocks -> Contents]]
      BY DEF MtkTypeOK, Disk
    <2>2. [part[p] EXCEPT ![i] = part[p][i]] = part[p]
      BY <2>1
    <2>3. [part EXCEPT ![p] = part[p]] = part
      BY <2>1
    <2>4. part' = [part EXCEPT ![p] = [part[p] EXCEPT ![i] = part[p][i]]]
      BY <1>1 DEF Puts
    <2> QED BY <2>2, <2>3, <2>4
  <1>2. CASE b = Junk
    BY <1>2
  <1> QED BY <1>1, <1>2

\* An upgrade stays within the partition.
LEMMA UpgradeIndex ==
  ASSUME MtkTypeOK, Upgrades, pc \in {"up_erase", "up_write"}
  PROVE  job.i \in Blocks
  <1>1. job.i \in 0 .. PartBlocks /\ job.n \in 0 .. PartBlocks /\ job.i < job.n
    BY DEF MtkTypeOK, Jobs, Upgrades
  <1> QED BY <1>1, Numbers DEF Blocks

\* What a power cut leaves of the block under way
LEMMA CutPuts ==
  ASSUME MtkTypeOK, Upgrades, Copies, PowerCut
  PROVE  \/ part' = part /\ (Copying => pc = "copy_erase")
         \/ pc = "copy_erase" /\ Puts(Area(job.dst, job.i), job.i % PartBlocks, Junk)
         \/ /\ pc = "copy_write"
            /\ \E b \in Contents : Puts(Area(job.dst, job.i), job.i % PartBlocks, b)
         \/ pc = "up_erase" /\ Puts("main", job.i, Junk)
         \/ /\ pc = "up_write"
            /\ \E b \in {Erased, Torn(FileBlock(job.file, job.i))} : Puts("main", job.i, b)
         \/ pc = "up_backup" /\ Puts("backup", 0, Junk)
  <1>1. /\ part \in [Areas -> [Blocks -> Contents]] /\ job.src \in Parts /\ job.dst \in Parts
        /\ job.i \in 0 .. PartBlocks /\ job.n \in 0 .. PartBlocks
    BY DEF MtkTypeOK, Disk, Jobs
  <1>3. 0 \in Blocks /\ 0 \in 0 .. PartBlocks /\ 0 < PartBlocks
    BY Numbers
  <1>4. CASE pc = "copy_erase"
    <2>1. Cut(job.dst, job.i, {part[Area(job.dst, job.i)][job.i % PartBlocks], Junk})
      BY <1>4 DEF PowerCut
    <2>2. PICK b \in {part[Area(job.dst, job.i)][job.i % PartBlocks], Junk} :
            Puts(Area(job.dst, job.i), job.i % PartBlocks, b)
      BY <2>1, <1>1, PutIs DEF Cut
    <2>3. part' = part \/ Puts(Area(job.dst, job.i), job.i % PartBlocks, Junk)
      BY <2>2, <1>1, PutIs, CutErase
    <2> QED BY <2>3, <1>4
  <1>5. CASE pc = "copy_write"
    <2>1. Cut(job.dst, job.i, {Erased} \cup
            (IF job.i < job.n THEN {Torn(part[job.src][job.i])} ELSE {}))
      BY <1>5 DEF PowerCut
    <2>2. Erased \in Contents /\ (job.i < job.n => Torn(part[job.src][job.i]) \in Contents)
      <3>1. job.i < job.n => job.i \in Blocks
        BY <1>1, Numbers DEF Blocks
      <3> QED BY <1>1, <3>1, ContentTypes, AreaTypes
    <2>3. \E b \in Contents : Put(job.dst, job.i, b)
      BY <2>1, <2>2 DEF Cut
    <2> QED BY <2>3, <1>1, <1>5, PutIs
  <1>6. CASE pc = "up_erase"
    <2>1. Cut("main", job.i, {part["main"][job.i], Junk})
      BY <1>6 DEF PowerCut
    <2>2. job.i \in Blocks /\ job.i < PartBlocks
      BY <1>6, UpgradeIndex, Numbers DEF Blocks
    <2>3. PICK b \in {part["main"][job.i], Junk} : Puts("main", job.i, b)
      BY <2>1, <2>2, <1>1, PutIs, AreaTypes DEF Cut
    <2>4. part' = part \/ Puts("main", job.i, Junk)
      BY <2>2, <2>3, AreaTypes, CutErase
    <2> QED BY <2>4, <1>6 DEF Copying
  <1>7. CASE pc = "up_write"
    <2>1. Cut("main", job.i, {Erased, Torn(FileBlock(job.file, job.i))})
      BY <1>7 DEF PowerCut
    <2>2. job.i \in Blocks /\ job.i < PartBlocks
      BY <1>7, UpgradeIndex, Numbers DEF Blocks
    <2> QED BY <2>1, <2>2, <1>1, <1>7, PutIs, AreaTypes DEF Cut
  <1>8. CASE pc = "up_backup"
    <2>1. Cut("backup", 0, {part["backup"][0], Junk})
      BY <1>8 DEF PowerCut
    <2>2. PICK b \in {part["backup"][0], Junk} : Puts("backup", 0, b)
      BY <2>1, <1>3, PutIs, AreaTypes DEF Cut
    <2>3. part' = part \/ Puts("backup", 0, Junk)
      BY <2>2, <1>3, AreaTypes, CutErase
    <2> QED BY <2>3, <1>8 DEF Copying
  <1>9. CASE pc \notin {"copy_erase", "copy_write", "up_erase", "up_write", "up_backup"}
    BY <1>9 DEF PowerCut, Copying
  <1> QED BY <1>4, <1>5, <1>6, <1>7, <1>8, <1>9

LEMMA NoJobType == NoJob \in Jobs /\ NoJob.i = 0 /\ NoJob.n = 0
  BY Numbers DEF NoJob, Jobs, Parts, Files

\* The job Restore starts: the other partition is overwritten.
LEMMA RestoreJob ==
  ASSUME MtkTypeOK, NEW sizes, \A p \in Parts : sizes[p] \subseteq SizesIn(part[p]), Restore(sizes)
  PROVE  \/ pc' = "boot" /\ job' = job
         \/ /\ pc' = "copy_erase" /\ job' \in Jobs /\ job'.i = 0
            /\ job'.src # job'.dst /\ job'.n \in SizesIn(part[job'.src])
  <1> DEFINE good == {p \in Parts : sizes[p] # {}}
  <1>1. CASE good \in {{}, Parts}
    BY <1>1 DEF Restore
  <1>2. CASE good \notin {{}, Parts}
    <2>1. PICK src \in good :
             /\ pc' = "copy_erase"
             /\ job' = [NoJob EXCEPT !.src = src, !.dst = CHOOSE p \in Parts : p # src,
                                     !.n = CHOOSE n \in sizes[src] : TRUE]
      BY <1>2 DEF Restore
    <2>2. src \in Parts /\ sizes[src] # {}
      OBVIOUS
    <2>3. PICK dst : dst = CHOOSE p \in Parts : p # src
      OBVIOUS
    <2>4. dst \in Parts /\ dst # src
      <3>1. \E p \in Parts : p # src
        BY DEF Parts
      <3> QED BY <2>3, <3>1
    <2>5. PICK n : n = CHOOSE m \in sizes[src] : TRUE
      OBVIOUS
    <2>6. n \in SizesIn(part[src])
      <3>1. n \in sizes[src]
        BY <2>2, <2>5
      <3> QED BY <2>2, <3>1
    <2>7. job' = [NoJob EXCEPT !.src = src, !.dst = dst, !.n = n]
      BY <2>1, <2>3, <2>5
    <2>8. n \in 0 .. PartBlocks
      BY <2>6, SizesRange, Numbers
    <2>9. /\ job' \in Jobs /\ job'.i = 0 /\ job'.src = src /\ job'.dst = dst /\ job'.n = n
      BY <2>2, <2>4, <2>7, <2>8, NoJobType DEF Jobs, NoJob
    <2> QED BY <2>1, <2>4, <2>6, <2>9
  <1> QED BY <1>1, <1>2

\* A misread size is one the check may conclude, too.
LEMMA CheckJob ==
  ASSUME MtkTypeOK, Check \/ CheckMisread
  PROVE  \/ pc' = "boot" /\ job' = job
         \/ /\ pc' = "copy_erase" /\ job' \in Jobs /\ job'.i = 0
            /\ job'.src # job'.dst /\ job'.n \in SizesIn(part[job'.src])
  <1>0. \A p \in Parts : Verified(p) \subseteq SizesIn(part[p]) /\ Unread(p) \subseteq SizesIn(part[p])
    BY VerifiedIs DEF SizesIn
  <1>1. CASE Check
    <2> DEFINE sizes == [p \in Parts |-> Verified(p)]
    <2>1. Restore(sizes)
      BY <1>1 DEF Check
    <2>2. \A p \in Parts : sizes[p] \subseteq SizesIn(part[p])
      BY <1>0
    <2> HIDE DEF sizes
    <2> QED BY <2>1, <2>2, RestoreJob
  <1>2. CASE CheckMisread
    <2>0. PICK p \in Parts : \E size \in {{}, Unread(p)} :
            Restore([q \in Parts |-> IF q = p THEN size ELSE Verified(q)])
      BY <1>2 DEF CheckMisread
    <2>1. PICK size \in {{}, Unread(p)} :
            Restore([q \in Parts |-> IF q = p THEN size ELSE Verified(q)])
      BY <2>0
    <2> DEFINE sizes == [q \in Parts |-> IF q = p THEN size ELSE Verified(q)]
    <2>2. \A q \in Parts : sizes[q] \subseteq SizesIn(part[q])
      BY <1>0, <2>1
    <2>3. Restore(sizes)
      BY <2>1
    <2> HIDE DEF sizes
    <2> QED BY <2>2, <2>3, RestoreJob
  <1> QED BY <1>1, <1>2

LEMMA JobTypes ==
  ASSUME MtkTypeOK
  PROVE  /\ job.src \in Parts /\ job.dst \in Parts /\ job.file \in Files
         /\ job.n \in Nat /\ job.n <= PartBlocks /\ job.n \in 0 .. PartBlocks
         /\ job.i \in Nat /\ job.i <= PartBlocks /\ job.i \in 0 .. PartBlocks
         /\ \A p \in Areas, k \in Blocks : part[p][k] \in Contents
         /\ Parts \subseteq Areas
  BY Numbers DEF MtkTypeOK, Jobs, Disk, Areas

LEMMA FileNumbers ==
  \A f \in Files : FileBlocks(f) \in Nat /\ FileBlocks(f) > 0 /\ FileBlocks(f) <= PartBlocks
  BY Numbers DEF FileBlocks

LEMMA MtkInitInv == Init => MtkInv
  <1> SUFFICES ASSUME Init PROVE MtkInv
    OBVIOUS
  <1>1. part = [p \in Areas |-> [i \in Blocks |->
                  CASE p = "data" -> Foreign
                    [] p # "data" /\ i < Size(FirstVersion) -> Image(FirstVersion, i)
                    [] OTHER -> Erased]]
    BY DEF Init
  <1>2. FirstVersion \in Versions /\ Size(FirstVersion) \in Nat /\ Size(FirstVersion) <= PartBlocks
    BY Numbers, MtkBootAssumption
  <1>3. \A i \in Blocks : i \in Nat
    BY DEF Blocks
  <1>4. MtkTypeOK
    <2>1. part \in [Areas -> Disk]
      BY <1>1, <1>2, <1>3, ContentTypes DEF Disk
    <2> QED BY <2>1, <1>2, NoJobType DEF Init, MtkTypeOK, Files
  <1>5. Copies /\ Upgrades
    BY DEF Init, Copies, Upgrades, Copying
  <1>6. \A p \in Parts : Holds(part[p], FirstVersion) /\ part[p][0] = Image(FirstVersion, 0)
    <2> SUFFICES ASSUME NEW p \in Parts, NEW i \in 0 .. Size(FirstVersion) - 1
                 PROVE  part[p][i] = Image(FirstVersion, i)
      BY <1>2, Numbers DEF Holds
    <2>1. p \in Areas /\ p # "data" /\ i \in Blocks /\ i < Size(FirstVersion)
      BY <1>2, Numbers DEF Areas, Parts, Blocks
    <2> QED BY <1>1, <2>1
  <1>7. \A p \in Parts, v \in Versions : part[p][0] = Image(v, 0) => v = FirstVersion
    BY <1>6, Distinct
  <1>8. \A p \in Parts : SoundIn(part[p])
    BY <1>6, <1>7 DEF SoundIn, Holds
  <1>9. \A p \in Parts, v \in Versions : Holds(part[p], v) => v = FirstVersion
    BY <1>7, Numbers DEF Holds
  <1>10. Sound /\ Newest
    BY <1>8, <1>9 DEF Sound, Newest, Init
  <1>11. Within
    BY NoJobType DEF Init, Within
  <1> QED BY <1>4, <1>5, <1>10, <1>11 DEF MtkInv

LEMMA MtkTypeStep ==
  ASSUME MtkTypeOK, Copies, Upgrades, [Next]_vars
  PROVE  MtkTypeOK'
  <1> USE JobTypes
  <1>1. CASE UNCHANGED vars
    BY <1>1 DEF vars, bounds, hist, MtkTypeOK
  <1>2. CASE Startup
    BY <1>2, NoJobType DEF Startup, bounds, hist, MtkTypeOK
  <1>3. CASE Check
    <2>1. UNCHANGED <<part, bounds, hist>>
      BY <1>3 DEF Check
    <2>2. job' \in Jobs /\ pc' \in {"boot", "copy_erase"}
      BY <1>3, CheckJob DEF MtkTypeOK
    <2> QED BY <2>1, <2>2 DEF bounds, hist, MtkTypeOK
  <1>4. CASE CheckMisread
    <2>1. UNCHANGED <<part, rots, hist>>
      BY <1>4 DEF CheckMisread
    <2>2. job' \in Jobs /\ pc' \in {"boot", "copy_erase"}
      BY <1>4, CheckJob DEF MtkTypeOK
    <2> QED BY <2>1, <2>2 DEF hist, MtkTypeOK
  <1>5. CASE CheckBypassed
    BY <1>5 DEF CheckBypassed, hist, MtkTypeOK
  <1>6. CASE CopyErase
    <2>1. /\ Puts(Area(job.dst, job.i), job.i % PartBlocks, Erased)
          /\ pc' = "copy_write" /\ UNCHANGED <<job, bounds, hist>>
      BY <1>6, PutIs DEF CopyErase
    <2>2. part' \in [Areas -> Disk]
      BY <2>1, PutIs, PutsType, ContentTypes
    <2> QED BY <2>1, <2>2 DEF bounds, hist, MtkTypeOK
  <1>7. CASE CopyWrite
    <2>1. PICK b : b = IF job.i < job.n THEN part[job.src][job.i] ELSE Marker
      OBVIOUS
    <2>2. b \in Contents
      <3>1. job.i < job.n => job.i \in Blocks
        BY Numbers DEF Blocks
      <3> QED BY <2>1, <3>1, ContentTypes
    <2>3. Puts(Area(job.dst, job.i), job.i % PartBlocks, b) /\ UNCHANGED <<bounds, hist>>
      BY <1>7, <2>1, PutIs DEF CopyWrite
    <2>4. part' \in [Areas -> Disk]
      BY <2>2, <2>3, PutIs, PutsType
    <2>5. CASE job.i < job.n
      <3>2. job.i + 1 \in 0 .. PartBlocks
        BY <2>5, Numbers
      <3>3. job' = [job EXCEPT !.i = job.i + 1] /\ pc' = "copy_erase"
        BY <2>5, <1>7 DEF CopyWrite
      <3>4. job' \in Jobs
        BY <3>2, <3>3 DEF MtkTypeOK, Jobs
      <3> QED BY <3>3, <3>4, <2>3, <2>4 DEF bounds, hist, MtkTypeOK
    <2>6. CASE ~(job.i < job.n)
      <3>1. job' = NoJob /\ pc' = "boot"
        BY <2>6, <1>7 DEF CopyWrite
      <3> QED BY <3>1, <2>3, <2>4, NoJobType DEF bounds, hist, MtkTypeOK
    <2> QED BY <2>5, <2>6
  <1>8. CASE CopyFails
    BY <1>8, NoJobType DEF CopyFails, MtkTypeOK
  <1>9. CASE Boot
    BY <1>9, NoJobType DEF Boot, bounds, hist, MtkTypeOK
  <1>10. CASE \E f \in Versions \cup {"foreign"} : Upgrade(f)
    <2>1. PICK f \in Files : Upgrade(f)
      BY <1>10 DEF Files
    <2>2. job' = [NoJob EXCEPT !.file = f, !.n = FileBlocks(f)]
      BY <2>1 DEF Upgrade
    <2>3. job' \in Jobs
      <3>1. FileBlocks(f) \in 0 .. PartBlocks
        BY FileNumbers, Numbers
      <3> QED BY <2>2, <3>1, NoJobType DEF Jobs
    <2> QED BY <2>1, <2>3 DEF Upgrade, hist, MtkTypeOK
  <1>11. CASE UpgradeErase
    <2>1. Puts("main", job.i, Erased) /\ UNCHANGED <<bounds, hist>>
      BY <1>11 DEF UpgradeErase, Puts
    <2>2. part' \in [Areas -> Disk]
      <3>1. job.i \in Blocks
        BY <1>11, UpgradeIndex DEF UpgradeErase
      <3> QED BY <2>1, <3>1, PutsType, ContentTypes, AreaTypes
    <2>4. job' \in Jobs /\ pc' \in {"up_erase", "up_write"}
      <3>1. CASE job.i + 1 < job.n
        <4>1. job.i + 1 \in 0 .. PartBlocks
          BY <3>1, Numbers
        <4>2. job' = [job EXCEPT !.i = job.i + 1] /\ pc' = pc
          BY <3>1, <1>11 DEF UpgradeErase
        <4> QED BY <4>1, <4>2, <1>11 DEF MtkTypeOK, Jobs, UpgradeErase
      <3>2. CASE ~(job.i + 1 < job.n)
        <4>1. job' = [job EXCEPT !.i = 0] /\ pc' = "up_write"
          BY <3>2, <1>11 DEF UpgradeErase
        <4> QED BY <4>1, Numbers DEF MtkTypeOK, Jobs
      <3> QED BY <3>1, <3>2
    <2> QED BY <2>1, <2>2, <2>4 DEF bounds, hist, MtkTypeOK
  <1>12. CASE UpgradeWrite
    <2>1. Puts("main", job.i, FileBlock(job.file, job.i)) /\ UNCHANGED <<bounds, half, stale>>
      BY <1>12 DEF UpgradeWrite, Puts
    <2>2. part' \in [Areas -> Disk]
      <3>1. job.i \in Blocks
        BY <1>12, UpgradeIndex DEF UpgradeWrite
      <3> QED BY <2>1, <3>1, PutsType, ContentTypes, AreaTypes
    <2>4. job' \in Jobs /\ pc' \in {"up_write", "up_backup"} /\ wanted' \in {wanted, job.file}
      <3>1. CASE job.i + 1 < job.n
        <4>1. job.i + 1 \in 0 .. PartBlocks
          BY <3>1, Numbers
        <4>2. job' = [job EXCEPT !.i = job.i + 1] /\ pc' = pc /\ wanted' = wanted
          BY <3>1, <1>12 DEF UpgradeWrite
        <4> QED BY <4>1, <4>2, <1>12 DEF MtkTypeOK, Jobs, UpgradeWrite
      <3>2. CASE ~(job.i + 1 < job.n)
        <4>1. job' = [job EXCEPT !.i = 0] /\ pc' = "up_backup" /\ wanted' = job.file
          BY <3>2, <1>12 DEF UpgradeWrite
        <4> QED BY <4>1, Numbers DEF MtkTypeOK, Jobs
      <3> QED BY <3>1, <3>2
    <2> QED BY <2>1, <2>2, <2>4 DEF bounds, MtkTypeOK
  <1>13. CASE UpgradeFails
    BY <1>13, NoJobType DEF UpgradeFails, hist, MtkTypeOK
  <1>14. CASE UpgradeBackup
    <2>1. part' \in [Areas -> Disk]
      <3>1. part' = part \/ Puts("backup", 0, Erased)
        BY <1>14 DEF UpgradeBackup, Puts
      <3>2. "backup" \in Areas /\ 0 \in Blocks
        BY Numbers, AreaTypes
      <3> QED BY <3>1, <3>2, PutsType, ContentTypes DEF MtkTypeOK
    <2>2. stale' \in BOOLEAN /\ UNCHANGED <<rots, wanted, half>>
      BY <1>14 DEF UpgradeBackup, MtkTypeOK
    <2>3. pc' \in {"menu", "check"} /\ job' = NoJob
      BY <1>14 DEF UpgradeBackup
    <2> QED BY <2>1, <2>2, <2>3, NoJobType DEF MtkTypeOK
  <1>15. CASE PowerCut
    <2>1. part' \in [Areas -> Disk]
      <3>1. part' = part \/ \E p \in Areas, i \in Blocks, b \in Contents : Puts(p, i, b)
        <4>1. Junk \in Contents /\ Erased \in Contents /\ Torn(FileBlock(job.file, job.i)) \in Contents
          BY ContentTypes
        <4>2. /\ "main" \in Areas /\ "backup" \in Areas /\ 0 \in Blocks
              /\ Area(job.dst, job.i) \in Areas /\ job.i % PartBlocks \in Blocks
              /\ pc \in {"up_erase", "up_write"} => job.i \in Blocks
          BY Numbers, AreaTypes, PutIs, UpgradeIndex
        <4> QED BY <4>1, <4>2, <1>15, CutPuts
      <3> QED BY <3>1, PutsType DEF MtkTypeOK
    <2>2. pc' = "menu" /\ job' = NoJob /\ UNCHANGED <<rots, wanted>>
      BY <1>15 DEF PowerCut
    <2>3. half' \in BOOLEAN /\ stale' \in BOOLEAN
      BY <1>15 DEF PowerCut, MtkTypeOK
    <2> QED BY <2>1, <2>2, <2>3, NoJobType DEF MtkTypeOK
  <1>16. CASE Reboot
    BY <1>16 DEF Reboot, bounds, hist, MtkTypeOK
  <1>17. CASE \E p \in Parts, i \in Blocks : Rot(p, i)
    <2>1. PICK p \in Parts, i \in Blocks : Rot(p, i)
      BY <1>17
    <2>2. Puts(p, i, Junk)
      BY <2>1 DEF Rot, Puts
    <2>3. part' \in [Areas -> Disk]
      BY <2>2, PutsType, ContentTypes
    <2> QED BY <2>1, <2>3 DEF Rot, hist, MtkTypeOK
  <1> QED BY <1>1, <1>2, <1>3, <1>4, <1>5, <1>6, <1>7, <1>8, <1>9, <1>10, <1>11, <1>12, <1>13,
             <1>14, <1>15, <1>16, <1>17 DEF Next, Step

\* Which steps lead into a copy, and which into an upgrade
LEMMA CopyingNext ==
  ASSUME [Next]_vars, Copying'
  PROVE  UNCHANGED vars \/ Check \/ CheckMisread \/ CopyErase \/ (CopyWrite /\ job.i < job.n)
  BY DEF Copying, Next, Step, Startup, CheckBypassed, CopyWrite, CopyFails, Boot, Upgrade,
         UpgradeErase, UpgradeWrite, UpgradeFails, UpgradeBackup, PowerCut, Reboot, Rot

LEMMA UpgradingNext ==
  ASSUME [Next]_vars, pc' \in {"up_erase", "up_write", "up_backup"}
  PROVE  \/ UNCHANGED vars \/ UpgradeErase \/ UpgradeWrite
         \/ \E f \in Files : Upgrade(f)
  BY DEF Files, Next, Step, Startup, Check, CheckMisread, Restore, CheckBypassed, CopyErase,
         CopyWrite, CopyFails, Boot, UpgradeFails, UpgradeBackup, PowerCut, Reboot, Rot

LEMMA WithinStep ==
  ASSUME MtkTypeOK, Within, [Next]_vars
  PROVE  Within'
  <1> USE JobTypes
  <1>1. CASE job' = job
    BY <1>1 DEF Within
  <1>2. CASE job' = NoJob
    BY <1>2, NoJobType DEF Within
  <1>3. CASE Check \/ CheckMisread
    <2>1. CASE job' = job
      BY <2>1 DEF Within
    <2>2. CASE job'.i = 0 /\ job'.n \in SizesIn(part[job'.src])
      BY <2>2, SizesRange DEF Within
    <2> QED BY <1>3, <2>1, <2>2, CheckJob
  <1>4. CASE CopyWrite /\ job.i < job.n
    <2>1. job' = [job EXCEPT !.i = job.i + 1]
      BY <1>4 DEF CopyWrite
    <2>2. job'.n = job.n /\ job'.i = job.i + 1
      BY <2>1 DEF MtkTypeOK, Jobs
    <2> QED BY <2>2, <1>4 DEF Within
  <1>5. CASE UpgradeErase \/ UpgradeWrite
    <2>1. \/ job' = [job EXCEPT !.i = job.i + 1] /\ job.i + 1 < job.n
          \/ job' = [job EXCEPT !.i = 0]
      BY <1>5 DEF UpgradeErase, UpgradeWrite
    <2>2. \/ job'.n = job.n /\ job'.i = job.i + 1 /\ job.i + 1 < job.n
          \/ job'.n = job.n /\ job'.i = 0
      BY <2>1 DEF MtkTypeOK, Jobs
    <2> QED BY <2>2 DEF Within
  <1>6. CASE \E f \in Versions \cup {"foreign"} : Upgrade(f)
    <2>1. PICK f \in Files : Upgrade(f)
      BY <1>6 DEF Files
    <2>2. job' = [NoJob EXCEPT !.file = f, !.n = FileBlocks(f)]
      BY <2>1 DEF Upgrade
    <2>3. job'.n = FileBlocks(f) /\ job'.i = 0
      BY <2>2 DEF NoJob
    <2> QED BY <2>3, FileNumbers DEF Within
  <1> QED BY <1>1, <1>2, <1>3, <1>4, <1>5, <1>6
          DEF Next, Step, vars, Startup, CheckBypassed, CopyErase, CopyWrite, CopyFails, Boot,
              UpgradeFails, UpgradeBackup, PowerCut, Reboot, Rot

\* The block a copy is at, within the destination
LEMMA CopyIndex ==
  ASSUME MtkTypeOK, Copies, Copying, job.i < PartBlocks
  PROVE  /\ job.i \in Blocks /\ job.src # job.dst /\ ~Behind
         /\ Area(job.dst, job.i) = job.dst /\ job.i % PartBlocks = job.i
         /\ job.src \in Areas /\ job.dst \in Areas
         /\ \A b : Put(job.dst, job.i, b) <=> Puts(job.dst, job.i, b)
  <1> USE JobTypes
  <1>1. job.i \in Blocks /\ ~Behind
    BY Numbers DEF Blocks, Behind
  <1>2. job.src # job.dst
    BY DEF Copies
  <1> QED BY <1>1, <1>2, PutIs

\* ... and behind it
LEMMA CopyBehind ==
  ASSUME MtkTypeOK, Copies, Copying, ~(job.i < PartBlocks)
  PROVE  /\ job.i = PartBlocks /\ job.n = PartBlocks /\ job.src # job.dst
         /\ Area(job.dst, job.i) \in Areas /\ Area(job.dst, job.i) # job.dst
         /\ job.i % PartBlocks = 0 /\ 0 \in Blocks
         /\ \A b : Put(job.dst, job.i, b) <=> Puts(Area(job.dst, job.i), 0, b)
  <1> USE JobTypes
  <1>1. job.i = PartBlocks
    BY Numbers
  <1>2. job.n = PartBlocks /\ job.src # job.dst
    BY <1>1, Numbers DEF Copies
  <1> QED BY <1>1, <1>2, Numbers, PutIs

LEMMA CopiesStep ==
  ASSUME MtkTypeOK, Copies, [Next]_vars
  PROVE  Copies'
  <1> USE JobTypes
  <1>1. CASE ~Copying'
    BY <1>1 DEF Copies, Copying
  <1>2. CASE UNCHANGED vars
    <2>1. part' = part /\ pc' = pc /\ job' = job
      BY <1>2 DEF vars
    <2> QED BY <2>1 DEF Copies, Copying, Behind
  <1>3. CASE Check \/ CheckMisread
    <2>1. CASE pc' = "boot"
      BY <2>1 DEF Copies, Copying
    <2>2. CASE pc' = "copy_erase"
      <3>0. part' = part
        BY <1>3 DEF Check, CheckMisread
      <3>1. job'.i = 0 /\ job'.src # job'.dst /\ job'.n \in SizesIn(part[job'.src])
        BY <1>3, <2>2, CheckJob
      <3>2. job'.n \in Nat /\ job'.n \in 1 .. PartBlocks
        BY <3>1, SizesRange
      <3>3. 0 <= job'.n /\ \A k \in Blocks : ~(k < 0)
        BY <3>2 DEF Blocks
      <3>4. pc' # "copy_write"
        BY <2>2
      <3> QED BY <3>0, <3>1, <3>2, <3>3, <3>4 DEF Copies
    <2> QED BY <1>3, <2>1, <2>2, CheckJob
  <1>6. CASE CopyErase
    <2>1. /\ Puts(Area(job.dst, job.i), job.i % PartBlocks, Erased)
          /\ pc' = "copy_write" /\ job' = job /\ Copying /\ Copying'
      BY <1>6, PutIs DEF CopyErase, Copying
    <2>2. part'[Area(job.dst, job.i)][job.i % PartBlocks] = Erased
      BY <2>1, PutIs, PutsType, ContentTypes
    <2>3. job.src # job.dst /\ job.n \in 1 .. PartBlocks /\ job.i <= job.n
      BY <2>1 DEF Copies
    <2>4. CASE job.i < PartBlocks
      <3>1. Puts(job.dst, job.i, Erased) /\ job.i \in Blocks /\ ~Behind
        BY <2>1, <2>4, CopyIndex
      <3>2. /\ \A k \in Blocks : k # job.i => part'[job.dst][k] = part[job.dst][k]
            /\ \A q \in Areas : q # job.dst => part'[q] = part[q]
        BY <3>1, PutsType, ContentTypes
      <3>3. part'[job.src] = part[job.src]
        BY <2>3, <3>2
      <3>4. /\ job.n \in SizesIn(part[job.src])
            /\ \A k \in Blocks : k < job.i => part[job.dst][k] = part[job.src][k]
        BY <2>1, <3>1 DEF Copies
      <3>5. \A k \in Blocks : k < job.i => part'[job.dst][k] = part'[job.src][k]
        BY <3>2, <3>3, <3>4 DEF Blocks
      <3> QED BY <2>1, <2>2, <2>3, <3>3, <3>4, <3>5 DEF Copies
    <2>5. CASE ~(job.i < PartBlocks)
      <3>1. Behind'
        BY <2>1, <2>5, CopyBehind DEF Behind
      <3> QED BY <2>1, <2>2, <2>3, <3>1 DEF Copies
    <2> QED BY <2>4, <2>5
  <1>7. CASE CopyWrite /\ job.i < job.n
    <2>0. Copying /\ job.i < PartBlocks
      BY <1>7, Numbers DEF CopyWrite, Copying
    <2>1. /\ Puts(job.dst, job.i, part[job.src][job.i]) /\ pc' = "copy_erase"
          /\ job' = [job EXCEPT !.i = job.i + 1]
      BY <1>7, <2>0, CopyIndex DEF CopyWrite
    <2>2. /\ part'[job.dst][job.i] = part[job.src][job.i]
          /\ \A k \in Blocks : k # job.i => part'[job.dst][k] = part[job.dst][k]
          /\ \A q \in Areas : q # job.dst => part'[q] = part[q]
      <3>1. job.i \in Blocks /\ part[job.src][job.i] \in Contents
        BY <2>0, CopyIndex
      <3> QED BY <2>1, <3>1, PutsType
    <2>3. part'[job.src] = part[job.src]
      BY <2>0, <2>2, CopyIndex
    <2>4. job'.src = job.src /\ job'.dst = job.dst /\ job'.n = job.n /\ job'.i = job.i + 1
      BY <2>1 DEF MtkTypeOK, Jobs
    <2>5. /\ job.n \in SizesIn(part[job.src]) /\ job.n \in 1 .. PartBlocks
          /\ \A k \in Blocks : k < job.i => part[job.dst][k] = part[job.src][k]
      BY <2>0, CopyIndex DEF Copies
    <2>6. \A k \in Blocks : k < job.i + 1 => part'[job.dst][k] = part'[job.src][k]
      <3> SUFFICES ASSUME NEW k \in Blocks, k < job.i + 1
                   PROVE  part'[job.dst][k] = part'[job.src][k]
        OBVIOUS
      <3>1. CASE k = job.i
        BY <3>1, <2>2, <2>3
      <3>2. CASE k < job.i
        BY <3>2, <2>2, <2>3, <2>5
      <3> QED BY <3>1, <3>2 DEF Blocks
    <2>7. job.i + 1 <= job.n /\ job.src # job.dst /\ pc' # "copy_write"
      BY <1>7, <2>0, <2>1, CopyIndex
    <2> QED BY <2>3, <2>4, <2>5, <2>6, <2>7 DEF Copies
  <1> QED BY <1>1, <1>2, <1>3, <1>6, <1>7, CopyingNext

LEMMA UpgradesStep ==
  ASSUME MtkTypeOK, Upgrades, [Next]_vars
  PROVE  Upgrades'
  <1> USE JobTypes
  <1>1. CASE pc' \notin {"up_erase", "up_write", "up_backup"}
    BY <1>1 DEF Upgrades
  <1>2. CASE UNCHANGED vars
    BY <1>2 DEF vars, Upgrades
  <1>3. CASE \E f \in Files : Upgrade(f)
    <2>1. PICK f \in Files : Upgrade(f)
      BY <1>3
    <2>2. job' = [NoJob EXCEPT !.file = f, !.n = FileBlocks(f)] /\ pc' = "up_erase"
      BY <2>1 DEF Upgrade
    <2>3. job'.n = FileBlocks(f) /\ job'.i = 0 /\ job'.file = f
      BY <2>2 DEF NoJob
    <2>4. 0 < FileBlocks(f) /\ \A k \in Blocks : ~(k < 0)
      BY FileNumbers DEF Blocks
    <2> QED BY <2>2, <2>3, <2>4 DEF Upgrades
  <1>4. CASE UpgradeErase
    <2>1. Puts("main", job.i, Erased) /\ pc = "up_erase"
      BY <1>4 DEF UpgradeErase, Puts
    <2>2. /\ part'["main"][job.i] = Erased
          /\ \A k \in Blocks : k # job.i => part'["main"][k] = part["main"][k]
      BY <2>1, UpgradeIndex, PutsType, ContentTypes, AreaTypes
    <2>3. \A k \in Blocks : k < job.i + 1 => part'["main"][k] = Erased
      BY <2>1, <2>2 DEF Upgrades, Blocks
    <2>4. CASE job.i + 1 < job.n
      <3>1. job' = [job EXCEPT !.i = job.i + 1] /\ pc' = "up_erase"
        BY <2>1, <2>4, <1>4 DEF UpgradeErase
      <3>2. job'.n = job.n /\ job'.i = job.i + 1 /\ job'.file = job.file
        BY <3>1 DEF MtkTypeOK, Jobs
      <3> QED BY <2>1, <2>3, <2>4, <3>1, <3>2 DEF Upgrades
    <2>5. CASE ~(job.i + 1 < job.n)
      <3>1. job' = [job EXCEPT !.i = 0] /\ pc' = "up_write"
        BY <2>5, <1>4 DEF UpgradeErase
      <3>2. job'.n = job.n /\ job'.i = 0 /\ job'.file = job.file
        BY <3>1 DEF MtkTypeOK, Jobs
      <3>3. job.n = FileBlocks(job.file) /\ 0 < job.n
        BY <2>1, FileNumbers DEF Upgrades
      <3>4. \A k \in Blocks : k < job.n => part'["main"][k] = Erased /\ ~(k < 0)
        BY <2>3, <2>5 DEF Blocks
      <3> QED BY <3>1, <3>2, <3>3, <3>4 DEF Upgrades
    <2> QED BY <2>4, <2>5
  <1>5. CASE UpgradeWrite
    <2>1. Puts("main", job.i, FileBlock(job.file, job.i)) /\ pc = "up_write"
      BY <1>5 DEF UpgradeWrite, Puts
    <2>2. CASE job.i + 1 < job.n
      <3>1. job' = [job EXCEPT !.i = job.i + 1] /\ pc' = "up_write"
        BY <2>1, <2>2, <1>5 DEF UpgradeWrite
      <3>2. job'.n = job.n /\ job'.i = job.i + 1 /\ job'.file = job.file
        BY <3>1 DEF MtkTypeOK, Jobs
      <3>3. /\ part'["main"][job.i] = FileBlock(job.file, job.i)
            /\ \A k \in Blocks : k # job.i => part'["main"][k] = part["main"][k]
        BY <2>1, UpgradeIndex, PutsType, ContentTypes, AreaTypes
      <3>4. \A k \in Blocks : k < job.n =>
              part'["main"][k] = IF k < job.i + 1 THEN FileBlock(job.file, k) ELSE Erased
        BY <2>1, <3>3 DEF Upgrades, Blocks
      <3> QED BY <2>1, <2>2, <3>1, <3>2, <3>4 DEF Upgrades
    <2>3. CASE ~(job.i + 1 < job.n)
      <3>1. pc' = "up_backup"
        BY <2>3, <1>5 DEF UpgradeWrite
      <3> QED BY <3>1 DEF Upgrades
    <2> QED BY <2>2, <2>3
  <1> QED BY <1>1, <1>2, <1>3, <1>4, <1>5, UpgradingNext

-----------------------------------------------------------------------------
(* Complete and broken images                                              *)

LEMMA HoldsEnds ==
  ASSUME NEW v \in Versions, NEW b, Holds(b, v)
  PROVE  b[0] = Image(v, 0) /\ b[Size(v) - 1] = Image(v, Size(v) - 1)
  BY Numbers DEF Holds

LEMMA HoldsSound ==
  ASSUME NEW v \in Versions, NEW b, Holds(b, v)
  PROVE  SoundIn(b)
  <1>1. \A w \in Versions : b[0] = Image(w, 0) => w = v
    BY HoldsEnds, Distinct
  <1> QED BY <1>1 DEF SoundIn, Holds

LEMMA NoBeginning ==
  ASSUME NEW b, b[0] \in {Erased, Marker, Foreign, Junk}
  PROVE  SoundIn(b) /\ \A v \in Versions : ~Holds(b, v)
  <1>1. \A v \in Versions : b[0] # Image(v, 0)
    BY Distinct
  <1> QED BY <1>1, HoldsEnds DEF SoundIn

\* An image of which j blocks are written, the next one perhaps in part and
\* the others not
LEMMA BeginningSound ==
  ASSUME NEW v \in Versions, NEW b, NEW j \in 0 .. Size(v) - 1,
         \A k \in 0 .. Size(v) - 1 : k < j => b[k] = Image(v, k),
         b[j] \in {Image(v, j), Torn(Image(v, j)), Erased},
         \A k \in 0 .. Size(v) - 1 : k > j => b[k] = Erased
  PROVE  SoundIn(b)
  <1>1. Size(v) \in Nat /\ Size(v) > 1 /\ j \in Nat
    BY Numbers
  <1>2. \A k \in 0 .. Size(v) - 1 : b[k] \in {Image(v, k), Torn(Image(v, k)), Erased}
    BY <1>1
  <1>3. \A w \in Versions : b[0] = Image(w, 0) => w = v
    <2>1. b[0] \in {Image(v, 0), Torn(Image(v, 0)), Erased}
      BY <1>1, <1>2
    <2> QED BY <2>1, Distinct
  <1>4. b[Size(v) - 1] = Image(v, Size(v) - 1) => Holds(b, v)
    <2> SUFFICES ASSUME b[Size(v) - 1] = Image(v, Size(v) - 1), NEW k \in 0 .. Size(v) - 1
                 PROVE  b[k] = Image(v, k)
      BY DEF Holds
    <2>1. b[Size(v) - 1] # Erased
      BY Distinct
    <2>2. ~(Size(v) - 1 > j)
      BY <1>1, <2>1
    <2>3. k < j \/ k = Size(v) - 1
      BY <1>1, <2>2
    <2> QED BY <2>3
  <1> QED BY <1>2, <1>3, <1>4 DEF SoundIn

LEMMA HoldsKept ==
  ASSUME MtkTypeOK, NEW p \in Areas, NEW i \in Blocks, NEW b \in Contents, Puts(p, i, b),
         NEW q \in Areas, NEW v \in Versions, Holds(part[q], v),
         q # p \/ part[p][i] = Erased
  PROVE  Holds(part'[q], v)
  <1>1. CASE q # p
    BY <1>1, PutsType
  <1>2. CASE q = p /\ part[p][i] = Erased
    <2>1. Size(v) \in Nat /\ Size(v) <= PartBlocks /\ i \in Nat
      BY Numbers DEF Blocks
    <2>2. \A k \in 0 .. Size(v) - 1 : k \in Blocks /\ part[p][k] = Image(v, k)
      BY <1>2, <2>1, Numbers DEF Holds, Blocks
    <2>3. i \notin 0 .. Size(v) - 1
      BY <1>2, <2>2, Distinct
    <2>4. \A k \in 0 .. Size(v) - 1 : part'[p][k] = part[p][k]
      BY <2>2, <2>3, PutsType
    <2> QED BY <1>2, <2>2, <2>4 DEF Holds
  <1> QED BY <1>1, <1>2

\* Going behind the destination, a copy has made it what the source is.
LEMMA CopiedAll ==
  ASSUME MtkTypeOK, Copies, pc = "copy_erase", ~(job.i < PartBlocks)
  PROVE  /\ \A k \in Blocks : part[job.dst][k] = part[job.src][k]
         /\ \A v \in Versions : Holds(part[job.src], v) => Holds(part[job.dst], v)
  <1> USE JobTypes
  <1>1. Copying /\ ~Behind
    BY DEF Copying, Behind
  <1>2. \A k \in Blocks : part[job.dst][k] = part[job.src][k]
    <2>1. \A k \in Blocks : k < job.i
      BY Numbers DEF Blocks
    <2> QED BY <1>1, <2>1 DEF Copies
  <1>3. ASSUME NEW v \in Versions, Holds(part[job.src], v)
        PROVE  Holds(part[job.dst], v)
    <2>1. \A k \in 0 .. Size(v) - 1 : k \in Blocks
      BY Numbers DEF Blocks
    <2> QED BY <1>2, <1>3, <2>1 DEF Holds
  <1> QED BY <1>2, <1>3

LEMMA KeepLemma ==
  ASSUME MtkTypeOK, Copies, Upgrades, [Next]_vars
  PROVE  KeepStep
  <1> USE JobTypes
  <1> SUFFICES ASSUME NEW q \in Parts, NEW v \in Versions, Holds(part[q], v),
                      ~SomeIntact', rots' = rots,
                      ~(pc = "copy_erase" /\ ~Intact(job.src) /\ Found(job.src) # {}),
                      ~(pc = "up_erase" /\ ~Intact("backup")),
                      ~(pc = "up_backup" /\ ~Intact("main"))
               PROVE  FALSE
    BY DEF KeepStep, SomeIntact, Intact, Holds
  <1>1. \A p \in Parts, w \in Versions : ~Holds(part'[p], w)
    BY DEF SomeIntact, Intact, Holds
  <1>2. part' # part
    BY <1>1
  <1>3. "main" \in Areas /\ "backup" \in Areas /\ "main" # "backup" /\ 0 \in Blocks
        /\ "main" \in Parts /\ "backup" \in Parts
    BY Numbers, AreaTypes
  <1>4. ASSUME NEW p \in Areas, NEW i \in Blocks, NEW b \in Contents, Puts(p, i, b)
        PROVE  /\ part[p][i] # Erased
               /\ \A r \in Parts, w \in Versions : r # p => ~Holds(part[r], w)
    <2>1. part[p][i] # Erased
      BY <1>1, <1>4, HoldsKept
    <2>2. \A r \in Parts, w \in Versions : r # p => ~Holds(part[r], w)
      BY <1>1, <1>4, HoldsKept
    <2> QED BY <2>1, <2>2
  <1>5. pc = "copy_erase" =>
          ~\E b \in Contents : Puts(Area(job.dst, job.i), job.i % PartBlocks, b)
    <2> SUFFICES ASSUME pc = "copy_erase", NEW b \in Contents,
                        Puts(Area(job.dst, job.i), job.i % PartBlocks, b)
                 PROVE  FALSE
      OBVIOUS
    <2>2. Copying
      BY DEF Copying
    <2>0. Found(job.src) # {}
      <3>1. job.n \in SizesIn(part[job.src])
        BY <2>2 DEF Copies, Behind
      <3> QED BY <3>1, FoundIs DEF SizesIn, VerifiedIn, UnreadIn
    <2>1. PICK w \in Versions : Holds(part[job.src], w)
      BY <2>0 DEF Intact, Holds
    <2>3. CASE job.i < PartBlocks
      <3>1. Puts(job.dst, job.i, b) /\ job.i \in Blocks /\ job.src # job.dst
        BY <2>2, <2>3, CopyIndex
      <3> QED BY <2>1, <3>1, <1>4
    <2>4. CASE ~(job.i < PartBlocks)
      <3>1. /\ Puts(Area(job.dst, job.i), 0, b) /\ Area(job.dst, job.i) \in Areas
            /\ Area(job.dst, job.i) # job.dst
        BY <2>2, <2>4, CopyBehind
      <3>2. Holds(part[job.dst], w)
        BY <2>1, <2>4, CopiedAll
      <3> QED BY <1>3, <1>4, <3>1, <3>2
    <2> QED BY <2>3, <2>4
  <1>6. pc = "copy_write" =>
          ~\E b \in Contents : Puts(Area(job.dst, job.i), job.i % PartBlocks, b)
    <2>1. pc = "copy_write" => part[Area(job.dst, job.i)][job.i % PartBlocks] = Erased
      BY DEF Copies
    <2> QED BY <2>1, <1>4, PutIs
  <1>7. pc = "up_erase" => ~\E b \in Contents : Puts("main", job.i, b)
    <2> SUFFICES ASSUME pc = "up_erase", NEW b \in Contents, Puts("main", job.i, b)
                 PROVE  FALSE
      OBVIOUS
    <2>1. PICK w \in Versions : Holds(part["backup"], w)
      BY DEF Intact, Holds
    <2> QED BY <2>1, <1>3, <1>4, UpgradeIndex
  <1>8. pc = "up_write" => ~\E b \in Contents : Puts("main", job.i, b)
    <2> SUFFICES ASSUME pc = "up_write", NEW b \in Contents, Puts("main", job.i, b)
                 PROVE  FALSE
      OBVIOUS
    <2>1. job.i \in Blocks
      BY UpgradeIndex
    <2>2. part["main"][job.i] = Erased
      BY <2>1 DEF Upgrades
    <2> QED BY <2>1, <2>2, <1>3, <1>4
  <1>9. pc = "up_backup" => ~\E b \in Contents : Puts("backup", 0, b)
    <2> SUFFICES ASSUME pc = "up_backup", NEW b \in Contents, Puts("backup", 0, b)
                 PROVE  FALSE
      OBVIOUS
    <2>1. PICK w \in Versions : Holds(part["main"], w)
      BY DEF Intact, Holds
    <2> QED BY <2>1, <1>3, <1>4
  <1>10. Junk \in Contents /\ Erased \in Contents /\ Marker \in Contents
         /\ FileBlock(job.file, job.i) \in Contents /\ Torn(FileBlock(job.file, job.i)) \in Contents
    BY ContentTypes
  <1>11. ~CopyErase
    BY <1>5, <1>10, PutIs DEF CopyErase
  <1>12. ~CopyWrite
    <2>1. job.i < job.n => part[job.src][job.i] \in Contents
      BY Numbers DEF Blocks
    <2> QED BY <1>6, <1>10, <2>1, PutIs DEF CopyWrite
  <1>13. ~UpgradeErase
    BY <1>7, <1>10 DEF UpgradeErase, Puts
  <1>14. ~UpgradeWrite
    BY <1>8, <1>10 DEF UpgradeWrite, Puts
  <1>15. ~UpgradeBackup
    BY <1>2, <1>9, <1>10 DEF UpgradeBackup, Puts
  <1>16. ~PowerCut
    BY <1>2, <1>5, <1>6, <1>7, <1>8, <1>9, <1>10, CutPuts
  <1>17. ~\E p \in Parts, i \in Blocks : Rot(p, i)
    BY DEF Rot, MtkTypeOK
  <1> QED BY <1>2, <1>11, <1>12, <1>13, <1>14, <1>15, <1>16, <1>17
          DEF Next, Step, vars, Startup, Check, CheckMisread, CheckBypassed, CopyFails, Boot,
              Upgrade, UpgradeFails, Reboot

-----------------------------------------------------------------------------
(* Images are sound, and the newest                                        *)

\* The source of a copy is complete, or its kernel is all that is copied.
LEMMA CopySource ==
  ASSUME MtkTypeOK, Copies, Sound, Undisturbed, Copying, ~Behind
  PROVE  /\ SoundIn(part[job.src])
         /\ \E v \in Versions : \/ job.n = Size(v) /\ Holds(part[job.src], v)
                                \/ /\ job.n = Kernel[v]
                                   /\ \A k \in 0 .. Kernel[v] - 1 : part[job.src][k] = Image(v, k)
  <1>1. /\ job.src \in Parts /\ job.src # job.dst /\ job.n \in SizesIn(part[job.src])
    BY JobTypes DEF Copies
  <1>2. SoundIn(part[job.src])
    BY <1>1 DEF Sound, Target
  <1>3. CASE job.n \in VerifiedIn(part[job.src])
    BY <1>2, <1>3, SoundVerified
  <1>4. CASE job.n \in UnreadIn(part[job.src])
    BY <1>2, <1>4, UnreadFacts
  <1> QED BY <1>1, <1>3, <1>4 DEF SizesIn

\* What a power cut in the middle of an upgrade leaves of the main image
LEMMA CutUpgrade ==
  ASSUME MtkTypeOK, Upgrades, pc \in {"up_erase", "up_write"}, NEW b \in Contents,
         Puts("main", job.i, b), pc = "up_erase" => b = Junk,
         pc = "up_write" => b \in {Erased, Torn(FileBlock(job.file, job.i))}
  PROVE  SoundIn(part'["main"]) /\ \A v \in Versions : ~Holds(part'["main"], v)
  <1> USE JobTypes
  <1> DEFINE m == part'["main"]
  <1>1. m[job.i] = b /\ \A k \in Blocks : k # job.i => m[k] = part["main"][k]
    BY PutsType, UpgradeIndex, AreaTypes
  <1>2. 0 \in Blocks
    BY Numbers
  <1>3. CASE pc = "up_erase"
    <2>1. m[0] \in {Junk, Erased}
      BY <1>1, <1>2, <1>3 DEF Upgrades, Blocks
    <2> QED BY <2>1, NoBeginning
  <1>4. CASE pc = "up_write"
    <2>1. /\ job.n = FileBlocks(job.file) /\ job.i < job.n
          /\ \A k \in Blocks : k < job.n =>
               part["main"][k] = IF k < job.i THEN FileBlock(job.file, k) ELSE Erased
      BY <1>4 DEF Upgrades
    <2>2. CASE job.file \notin Versions
      <3>1. job.i = 0
        BY <2>1, <2>2 DEF FileBlocks
      <3>2. Torn(FileBlock(job.file, job.i)) = Erased
        <4>1. FileBlock(job.file, job.i) = Foreign
          BY <2>2 DEF FileBlock
        <4> QED BY <4>1 DEF Torn, Foreign, Erased
      <3> QED BY <1>1, <1>4, <3>1, <3>2, NoBeginning
    <2>3. CASE job.file \in Versions
      <3>1. PICK v \in Versions : v = job.file
        BY <2>3
      <3>2. /\ job.n = Size(v) /\ Size(v) \in Nat /\ Size(v) > 1 /\ Size(v) <= PartBlocks
            /\ \A k : FileBlock(job.file, k) = Image(v, k)
        BY <2>1, <3>1, Numbers DEF FileBlocks, FileBlock
      <3>3. job.i \in 0 .. Size(v) - 1 /\ \A k \in 0 .. Size(v) - 1 : k \in Blocks /\ k < job.n
        BY <2>1, <3>2, Numbers DEF Blocks
      <3>4. m[job.i] \in {Torn(Image(v, job.i)), Erased}
        BY <1>1, <1>4, <3>2
      <3>5. /\ \A k \in 0 .. Size(v) - 1 : k < job.i => m[k] = Image(v, k)
            /\ \A k \in 0 .. Size(v) - 1 : k > job.i => m[k] = Erased
        BY <1>1, <2>1, <3>2, <3>3
      <3>6. SoundIn(m)
        BY <3>3, <3>4, <3>5, BeginningSound
      <3>7. ASSUME NEW w \in Versions, Holds(m, w) PROVE FALSE
        <4>1. m[0] = Image(w, 0)
          BY <3>7, HoldsEnds
        <4>2. 0 \in 0 .. Size(v) - 1
          BY <3>2
        <4>3. m[0] \in {Image(v, 0), Torn(Image(v, 0)), Erased}
          <5>1. CASE job.i = 0
            BY <5>1, <3>4
          <5>2. CASE 0 < job.i
            BY <5>2, <4>2, <3>5
          <5> QED BY <5>1, <5>2
        <4>4. w = v
          BY <4>1, <4>3, Distinct
        <4>5. m[job.i] = Image(v, job.i)
          BY <4>4, <3>3, <3>7 DEF Holds
        <4> QED BY <4>5, <3>4, Distinct
      <3> QED BY <3>6, <3>7
    <2> QED BY <2>2, <2>3
  <1> QED BY <1>3, <1>4

\* What a written block makes of the main image
LEMMA WriteUpgrade ==
  ASSUME MtkTypeOK, Upgrades, UpgradeWrite
  PROVE  /\ SoundIn(part'["main"])
         /\ \A v \in Versions : Holds(part'["main"], v) => v = wanted' /\ pc' = "up_backup"
  <1> USE JobTypes
  <1> DEFINE m == part'["main"]
  <1>1. Puts("main", job.i, FileBlock(job.file, job.i)) /\ pc = "up_write"
    BY DEF UpgradeWrite, Puts
  <1>2. m[job.i] = FileBlock(job.file, job.i) /\ \A k \in Blocks : k # job.i => m[k] = part["main"][k]
    BY <1>1, UpgradeIndex, PutsType, ContentTypes, AreaTypes
  <1>3. /\ job.n = FileBlocks(job.file) /\ job.i < job.n
        /\ \A k \in Blocks : k < job.n =>
             part["main"][k] = IF k < job.i THEN FileBlock(job.file, k) ELSE Erased
    BY <1>1 DEF Upgrades
  <1>4. CASE job.file \notin Versions
    <2>1. job.i = 0 /\ FileBlock(job.file, job.i) = Foreign
      BY <1>3, <1>4 DEF FileBlocks, FileBlock
    <2> QED BY <1>2, <2>1, NoBeginning
  <1>5. CASE job.file \in Versions
    <2>1. PICK v \in Versions : v = job.file
      BY <1>5
    <2>2. /\ job.n = Size(v) /\ Size(v) \in Nat /\ Size(v) > 1 /\ Size(v) <= PartBlocks
          /\ \A k : FileBlock(job.file, k) = Image(v, k)
      BY <1>3, <2>1, Numbers DEF FileBlocks, FileBlock
    <2>3. job.i \in 0 .. Size(v) - 1 /\ \A k \in 0 .. Size(v) - 1 : k \in Blocks /\ k < job.n
      BY <1>3, <2>2, Numbers DEF Blocks
    <2>4. m[job.i] = Image(v, job.i)
      BY <1>2, <2>2
    <2>5. /\ \A k \in 0 .. Size(v) - 1 : k < job.i => m[k] = Image(v, k)
          /\ \A k \in 0 .. Size(v) - 1 : k > job.i => m[k] = Erased
      BY <1>2, <1>3, <2>2, <2>3
    <2>6. SoundIn(m)
      BY <2>3, <2>4, <2>5, BeginningSound
    <2>7. ASSUME NEW w \in Versions, Holds(m, w) PROVE w = wanted' /\ pc' = "up_backup"
      <3>1. m[0] = Image(v, 0)
        <4>1. 0 \in 0 .. Size(v) - 1
          BY <2>2
        <4>2. CASE job.i = 0
          BY <4>2, <2>4
        <4>3. CASE 0 < job.i
          BY <4>1, <4>3, <2>5
        <4> QED BY <4>2, <4>3
      <3>2. w = v
        BY <2>7, <3>1, HoldsEnds, Distinct
      <3>3. m[Size(v) - 1] # Erased
        BY <2>7, <3>2, HoldsEnds, Distinct
      <3>4. ~(Size(v) - 1 > job.i)
        BY <2>2, <2>5, <3>3
      <3>5. ~(job.i + 1 < job.n)
        BY <2>2, <3>4
      <3>6. pc' = "up_backup" /\ wanted' = job.file
        BY <3>5 DEF UpgradeWrite
      <3> QED BY <2>1, <3>2, <3>6
    <2> QED BY <2>6, <2>7
  <1> QED BY <1>4, <1>5

\* What the marker makes of a copy: the image is complete, or a kernel with
\* the marker behind it
LEMMA CopyDone ==
  ASSUME MtkTypeOK, Copies, Sound, Undisturbed, CopyWrite, ~(job.i < job.n), job.i < PartBlocks
  PROVE  /\ SoundIn(part'[job.dst]) /\ \A q \in Areas : q # job.dst => part'[q] = part[q]
         /\ \A v \in Versions : Holds(part'[job.dst], v) => Holds(part[job.src], v)
  <1> USE JobTypes
  <1> DEFINE d == part'[job.dst]
  <1>0. Copying
    BY DEF CopyWrite, Copying
  <1>1. /\ Puts(job.dst, job.i, Marker) /\ job.i \in Blocks /\ job.src # job.dst /\ ~Behind
        /\ job.dst \in Areas
    BY <1>0, CopyIndex DEF CopyWrite
  <1>2. PICK v \in Versions : \/ job.n = Size(v) /\ Holds(part[job.src], v)
                              \/ /\ job.n = Kernel[v]
                                 /\ \A k \in 0 .. Kernel[v] - 1 : part[job.src][k] = Image(v, k)
    BY <1>0, <1>1, CopySource
  <1>3. job.i = job.n /\ \A k \in Blocks : k < job.i => part[job.dst][k] = part[job.src][k]
    BY <1>0, <1>1 DEF Copies
  <1>4. /\ d[job.i] = Marker /\ \A k \in Blocks : k # job.i => d[k] = part[job.dst][k]
        /\ \A q \in Areas : q # job.dst => part'[q] = part[q]
    BY <1>1, PutsType, ContentTypes
  <1>5. \A k \in Blocks : k < job.n => d[k] = part[job.src][k]
    BY <1>3, <1>4 DEF Blocks
  <1>6. CASE job.n = Size(v) /\ Holds(part[job.src], v)
    <2>1. \A k \in 0 .. Size(v) - 1 : k \in Blocks /\ k < job.n
      BY <1>6, Numbers DEF Blocks
    <2>2. Holds(d, v)
      BY <1>5, <1>6, <2>1 DEF Holds
    <2>3. \A w \in Versions : Holds(d, w) => w = v
      BY <2>2, HoldsEnds, Distinct
    <2> QED BY <1>4, <1>6, <2>2, <2>3, HoldsSound
  <1>7. CASE /\ job.n = Kernel[v]
             /\ \A k \in 0 .. Kernel[v] - 1 : part[job.src][k] = Image(v, k)
    <2>1. /\ Kernel[v] \in Nat /\ Kernel[v] > 0 /\ 0 \in Blocks /\ 0 \in 0 .. Kernel[v] - 1
          /\ Kernel[v] \in 0 .. Size(v) - 1
      BY Numbers
    <2>2. d[0] = Image(v, 0)
      BY <1>5, <1>7, <2>1
    <2>3. d[Kernel[v]] = Marker
      BY <1>3, <1>4, <1>7
    <2>4. \A w \in Versions : d[0] = Image(w, 0) => w = v
      BY <2>2, Distinct
    <2>5. SoundIn(d)
      BY <2>3, <2>4 DEF SoundIn
    <2>6. ASSUME NEW w \in Versions, Holds(d, w) PROVE FALSE
      <3>1. w = v
        BY <2>4, <2>6, HoldsEnds
      <3>2. d[Kernel[v]] = Image(v, Kernel[v])
        BY <2>1, <2>6, <3>1 DEF Holds
      <3> QED BY <2>3, <3>2, Distinct
    <2> QED BY <1>4, <2>5, <2>6
  <1> QED BY <1>2, <1>6, <1>7

\* What the step behind the destination does: it takes the beginning of what
\* lies there, perhaps the source.
LEMMA BehindStep ==
  ASSUME MtkTypeOK, Copies, Copying, ~(job.i < PartBlocks), CopyErase \/ CopyWrite
  PROVE  /\ part'[job.dst] = part[job.dst]
         /\ \A q \in Parts : \/ part'[q] = part[q]
                             \/ SoundIn(part'[q]) /\ \A v \in Versions : ~Holds(part'[q], v)
  <1> USE JobTypes
  <1> DEFINE a == Area(job.dst, job.i)
  <1>1. job.i = PartBlocks /\ job.n = PartBlocks /\ a \in Areas /\ a # job.dst /\ 0 \in Blocks
    BY CopyBehind
  <1>2. PICK b \in {Erased, Marker} : Put(job.dst, job.i, b)
    BY <1>1 DEF CopyErase, CopyWrite
  <1>3. Puts(a, 0, b)
    BY <1>2, CopyBehind
  <1> HIDE DEF a
  <1>4. part'[a][0] = b /\ \A q \in Areas : q # a => part'[q] = part[q]
    BY <1>1, <1>2, <1>3, PutsType, ContentTypes
  <1>5. SoundIn(part'[a]) /\ \A v \in Versions : ~Holds(part'[a], v)
    BY <1>2, <1>4, NoBeginning
  <1> QED BY <1>1, <1>4, <1>5

\* Contents that agree on all blocks are sound, or complete, together.
LEMMA SameContents ==
  ASSUME NEW a, NEW b, \A k \in Blocks : a[k] = b[k], SoundIn(b)
  PROVE  SoundIn(a) /\ \A v \in Versions : Holds(a, v) => Holds(b, v)
  <1>1. \A v \in Versions : /\ \A k \in 0 .. Size(v) - 1 : k \in Blocks
                            /\ Kernel[v] \in Blocks /\ Size(v) - 1 \in Blocks
    BY Numbers DEF Blocks
  <1>2. 0 \in Blocks
    BY Numbers
  <1>3. \A v \in Versions : Holds(a, v) <=> Holds(b, v)
    BY <1>1 DEF Holds
  <1>4. ASSUME NEW v \in Versions, a[0] = Image(v, 0)
        PROVE  \/ a[Kernel[v]] = Marker
               \/ /\ \A i \in 0 .. Size(v) - 1 : a[i] \in {Image(v, i), Torn(Image(v, i)), Erased}
                  /\ a[Size(v) - 1] = Image(v, Size(v) - 1) => Holds(a, v)
    <2>1. \/ b[Kernel[v]] = Marker
          \/ /\ \A i \in 0 .. Size(v) - 1 : b[i] \in {Image(v, i), Torn(Image(v, i)), Erased}
             /\ b[Size(v) - 1] = Image(v, Size(v) - 1) => Holds(b, v)
      BY <1>2, <1>4 DEF SoundIn
    <2> QED BY <1>1, <1>3, <2>1
  <1> QED BY <1>3, <1>4 DEF SoundIn

\* A disturbance stays, and these steps are none.
LEMMA UndisturbedNext ==
  ASSUME MtkTypeOK, [Next]_vars, Undisturbed'
  PROVE  /\ Undisturbed /\ ~CopyFails /\ (PowerCut => ~Copying)
         /\ ~\E p \in Parts, i \in Blocks : Rot(p, i)
  <1>1. rots \in Nat /\ half \in BOOLEAN
    BY DEF MtkTypeOK
  <1>2. rots' = 0 /\ half' = FALSE
    BY DEF Undisturbed, MtkTypeOK
  <1>3. ~CopyFails /\ (PowerCut => ~Copying) /\ ~\E p \in Parts, i \in Blocks : Rot(p, i)
    <2>1. ~CopyFails
      BY <1>2 DEF CopyFails
    <2>2. PowerCut => ~Copying
      BY <1>2 DEF PowerCut, Copying
    <2>3. ~\E p \in Parts, i \in Blocks : Rot(p, i)
      BY <1>1, <1>2 DEF Rot
    <2> QED BY <2>1, <2>2, <2>3
  <1>4. rots' = rots
    BY <1>3 DEF Next, Step, vars, bounds, Startup, Check, CheckMisread, CheckBypassed, CopyErase,
                CopyWrite, CopyFails, Boot, Upgrade, UpgradeErase, UpgradeWrite, UpgradeFails,
                UpgradeBackup, PowerCut, Reboot
  <1>5. half => half'
    BY <1>3 DEF Next, Step, vars, hist, Startup, Check, CheckMisread, CheckBypassed, CopyErase,
                CopyWrite, CopyFails, Boot, Upgrade, UpgradeErase, UpgradeWrite, UpgradeFails,
                UpgradeBackup, PowerCut, Reboot
  <1> QED BY <1>2, <1>3, <1>4, <1>5 DEF Undisturbed

\* The steps that change no partition
LEMMA Quiet ==
  ASSUME [Next]_vars, ~CopyErase, ~CopyWrite, ~UpgradeErase, ~UpgradeWrite, ~UpgradeBackup,
         ~PowerCut, ~CopyFails, ~\E p \in Parts, i \in Blocks : Rot(p, i)
  PROVE  part' = part /\ wanted' = wanted /\ (UNCHANGED vars \/ (~Copying /\ pc # "up_backup"))
  BY DEF Next, Step, vars, hist, Startup, Check, CheckMisread, CheckBypassed, Boot, Upgrade,
         UpgradeFails, Reboot, Copying

\* What the other steps of an upgrade make of the partitions
LEMMA EraseUpgrade ==
  ASSUME MtkTypeOK, Upgrades, UpgradeErase
  PROVE  part'["main"][0] = Erased /\ part'["backup"] = part["backup"]
  <1> USE JobTypes
  <1>1. Puts("main", job.i, Erased) /\ pc = "up_erase"
    BY DEF UpgradeErase, Puts
  <1>2. /\ part'["main"][job.i] = Erased
        /\ \A k \in Blocks : k # job.i => part'["main"][k] = part["main"][k]
        /\ \A q \in Areas : q # "main" => part'[q] = part[q]
    BY <1>1, UpgradeIndex, PutsType, ContentTypes, AreaTypes
  <1>3. CASE job.i = 0
    BY <1>2, <1>3, AreaTypes
  <1>4. CASE 0 < job.i
    <2>1. 0 \in Blocks /\ 0 # job.i
      BY <1>4, Numbers
    <2>2. part["main"][0] = Erased
      BY <2>1, <1>1, <1>4 DEF Upgrades
    <2> QED BY <2>1, <2>2, <1>2, AreaTypes
  <1> QED BY <1>3, <1>4

LEMMA BackupUpgrade ==
  ASSUME MtkTypeOK, NEW b \in {Erased, Junk}, Puts("backup", 0, b)
  PROVE  part'["backup"][0] = b /\ part'["main"] = part["main"]
  <1>1. /\ "backup" \in Areas /\ "main" \in Areas /\ "main" # "backup" /\ 0 \in Blocks
        /\ b \in Contents
    BY Numbers, ContentTypes, AreaTypes
  <1> QED BY <1>1, PutsType

\* A power cut that is not in the middle of a copy
LEMMA CutOther ==
  ASSUME MtkTypeOK, Copies, Upgrades, PowerCut, ~Copying
  PROVE  \/ part' = part
         \/ /\ SoundIn(part'["main"]) /\ \A v \in Versions : ~Holds(part'["main"], v)
            /\ part'["backup"] = part["backup"] /\ pc # "up_backup"
         \/ part'["backup"][0] = Junk /\ part'["main"] = part["main"]
  <1> USE JobTypes
  <1>1. CASE part' = part
    BY <1>1
  <1>2. ASSUME pc \in {"up_erase", "up_write"}, NEW b \in Contents, Puts("main", job.i, b),
               pc = "up_erase" => b = Junk,
               pc = "up_write" => b \in {Erased, Torn(FileBlock(job.file, job.i))}
        PROVE  /\ SoundIn(part'["main"]) /\ \A v \in Versions : ~Holds(part'["main"], v)
               /\ part'["backup"] = part["backup"] /\ pc # "up_backup"
    <2>1. "main" \in Areas /\ "backup" \in Areas /\ "main" # "backup"
      BY AreaTypes
    <2>2. part'["backup"] = part["backup"]
      BY <1>2, <2>1, UpgradeIndex, PutsType
    <2>3. SoundIn(part'["main"]) /\ \A v \in Versions : ~Holds(part'["main"], v)
      BY <1>2, CutUpgrade
    <2> QED BY <1>2, <2>2, <2>3
  <1>3. CASE pc = "up_erase" /\ Puts("main", job.i, Junk)
    <2>1. Junk \in Contents
      BY ContentTypes
    <2> QED BY <1>2, <1>3, <2>1
  <1>4. CASE /\ pc = "up_write"
             /\ \E b \in {Erased, Torn(FileBlock(job.file, job.i))} : Puts("main", job.i, b)
    <2>1. Erased \in Contents /\ Torn(FileBlock(job.file, job.i)) \in Contents
      BY ContentTypes
    <2> QED BY <1>2, <1>4, <2>1
  <1>5. CASE pc = "up_backup" /\ Puts("backup", 0, Junk)
    BY <1>5, BackupUpgrade
  <1> QED BY <1>1, <1>3, <1>4, <1>5, CutPuts DEF Copying

LEMMA SoundStep ==
  ASSUME MtkTypeOK, Copies, Upgrades, Sound, [Next]_vars
  PROVE  Sound'
  <1> USE JobTypes
  <1> SUFFICES ASSUME Undisturbed', NEW p \in Parts, ~Target(p)'
               PROVE  SoundIn(part'[p])
    BY DEF Sound
  <1>1. /\ Undisturbed /\ ~CopyFails /\ (PowerCut => ~Copying)
        /\ ~\E q \in Parts, i \in Blocks : Rot(q, i)
    BY UndisturbedNext
  <1>2. \A q \in Parts : Target(q) \/ SoundIn(part[q])
    BY <1>1 DEF Sound
  <1>0. \A q : Target(q) => Copying /\ ~Behind /\ q = job.dst
    BY DEF Target
  <1>3. p = "main" \/ p = "backup"
    BY DEF Parts
  <1>4. CASE CopyErase
    <2>0. pc = "copy_erase" /\ pc' = "copy_write" /\ job' = job /\ Copying /\ Copying' /\ ~Behind
      BY <1>4 DEF CopyErase, Copying, Behind
    <2>1. CASE job.i < PartBlocks
      <3>1. Puts(job.dst, job.i, Erased) /\ job.i \in Blocks /\ job.dst \in Areas
        BY <1>4, <2>0, <2>1, CopyIndex DEF CopyErase
      <3>2. ~Behind'
        BY <2>0, <2>1 DEF Behind
      <3>3. p # job.dst
        BY <2>0, <3>2 DEF Target
      <3>4. part'[p] = part[p]
        BY <3>1, <3>3, PutsType, ContentTypes
      <3> QED BY <3>3, <3>4, <1>0, <1>2
    <2>2. CASE ~(job.i < PartBlocks)
      <3>1. /\ part'[job.dst] = part[job.dst]
            /\ part'[p] = part[p] \/ SoundIn(part'[p])
        BY <1>4, <2>0, <2>2, BehindStep
      <3>2. CASE p = job.dst
        <4>1. \A k \in Blocks : part[job.dst][k] = part[job.src][k]
          BY <2>0, <2>2, CopiedAll
        <4>2. SoundIn(part[job.src])
          BY <1>1, <2>0, CopySource
        <4> QED BY <3>1, <3>2, <4>1, <4>2, SameContents
      <3>3. CASE p # job.dst
        BY <3>1, <3>3, <1>0, <1>2
      <3> QED BY <3>2, <3>3
    <2> QED BY <2>1, <2>2
  <1>5. CASE CopyWrite
    <2>0. pc = "copy_write" /\ Copying
      BY <1>5 DEF CopyWrite, Copying
    <2>1. CASE job.i < job.n
      <3>1. job.i < PartBlocks
        BY <2>1, Numbers
      <3>2. /\ Puts(job.dst, job.i, part[job.src][job.i]) /\ job.i \in Blocks /\ job.dst \in Areas
            /\ part[job.src][job.i] \in Contents
        BY <1>5, <2>0, <2>1, <3>1, CopyIndex DEF CopyWrite
      <3>3. pc' = "copy_erase" /\ job' = [job EXCEPT !.i = job.i + 1]
        BY <1>5, <2>1 DEF CopyWrite
      <3>4. job'.dst = job.dst
        BY <3>3 DEF MtkTypeOK, Jobs
      <3>5. p # job.dst
        BY <3>3, <3>4 DEF Target, Copying, Behind
      <3>6. part'[p] = part[p]
        BY <3>2, <3>5, PutsType
      <3> QED BY <3>5, <3>6, <1>0, <1>2
    <2>2. CASE ~(job.i < job.n) /\ job.i < PartBlocks
      <3>1. SoundIn(part'[job.dst]) /\ (p # job.dst => part'[p] = part[p])
        BY <1>1, <1>5, <2>2, CopyDone
      <3> QED BY <3>1, <1>0, <1>2
    <2>3. CASE ~(job.i < PartBlocks)
      <3>1. part'[p] = part[p] \/ SoundIn(part'[p])
        BY <1>5, <2>0, <2>3, BehindStep
      <3>2. Behind
        BY <2>0, <2>3, CopyBehind DEF Behind
      <3> QED BY <3>1, <3>2, <1>0, <1>2
    <2> QED BY <2>1, <2>2, <2>3
  <1>6. CASE UpgradeErase
    <2>1. ~Copying
      BY <1>6 DEF UpgradeErase, Copying
    <2> QED BY <2>1, <1>0, <1>2, <1>3, <1>6, EraseUpgrade, NoBeginning
  <1>7. CASE UpgradeWrite
    <2>1. ~Copying
      BY <1>7 DEF UpgradeWrite, Copying
    <2>2. part'["backup"] = part["backup"]
      <3>1. Puts("main", job.i, FileBlock(job.file, job.i))
        BY <1>7 DEF UpgradeWrite, Puts
      <3>2. /\ "main" \in Areas /\ "backup" \in Areas /\ "main" # "backup" /\ job.i \in Blocks
        BY <1>7, AreaTypes, UpgradeIndex DEF UpgradeWrite
      <3> QED BY <3>1, <3>2, PutsType, ContentTypes
    <2> QED BY <2>1, <2>2, <1>0, <1>2, <1>3, <1>7, WriteUpgrade
  <1>8. CASE UpgradeBackup
    <2>1. ~Copying
      BY <1>8 DEF UpgradeBackup, Copying
    <2>2. part' = part \/ Puts("backup", 0, Erased)
      BY <1>8 DEF UpgradeBackup, Puts
    <2> QED BY <2>1, <2>2, <1>0, <1>2, <1>3, BackupUpgrade, NoBeginning
  <1>9. CASE PowerCut
    <2>1. ~Copying
      BY <1>1, <1>9
    <2> QED BY <2>1, <1>0, <1>2, <1>3, <1>9, CutOther, NoBeginning
  <1>10. CASE part' = part /\ (UNCHANGED vars \/ ~Copying)
    <2>1. CASE ~Copying
      BY <2>1, <1>0, <1>2, <1>10
    <2>2. CASE UNCHANGED vars
      <3>1. Target(p)' <=> Target(p)
        BY <2>2 DEF vars, Copying, Target, Behind
      <3> QED BY <3>1, <1>2, <1>10
    <2> QED BY <1>10, <2>1, <2>2
  <1> QED BY <1>1, <1>4, <1>5, <1>6, <1>7, <1>8, <1>9, <1>10, Quiet

LEMMA NewestIsKept ==
  ASSUME MtkTypeOK, Copies, Upgrades, Sound, Newest, [Next]_vars
  PROVE  Newest'
  <1> USE JobTypes
  <1> SUFFICES ASSUME Undisturbed', ~stale', NEW p \in Parts, NEW v \in Versions,
                      Holds(part'[p], v), ~Target(p)'
               PROVE  v = wanted' \/ (pc' = "up_backup" /\ p = "backup")
    BY DEF Newest
  <1>1. /\ Undisturbed /\ ~CopyFails /\ (PowerCut => ~Copying)
        /\ ~\E q \in Parts, i \in Blocks : Rot(q, i)
    BY UndisturbedNext
  <1>2. ~stale
    BY <1>1 DEF Next, Step, vars, hist, Startup, Check, CheckMisread, CheckBypassed, CopyErase,
                CopyWrite, CopyFails, Boot, Upgrade, UpgradeErase, UpgradeWrite, UpgradeFails,
                UpgradeBackup, PowerCut, Reboot
  <1>3. \A q \in Parts, w \in Versions :
          Holds(part[q], w) => w = wanted \/ Target(q) \/ (pc = "up_backup" /\ q = "backup")
    BY <1>1, <1>2 DEF Newest
  <1>0. \A q : Target(q) => Copying /\ ~Behind /\ q = job.dst
    BY DEF Target
  <1>4. p = "main" \/ p = "backup"
    BY DEF Parts
  <1>5. part'[p][0] = Image(v, 0)
    BY HoldsEnds
  <1>6. ASSUME Copying, NEW q \in Parts, ~Target(q), Holds(part[q], v) PROVE v = wanted
    BY <1>3, <1>6 DEF Copying
  <1>7. CASE CopyErase
    <2>0. /\ pc = "copy_erase" /\ pc' = "copy_write" /\ job' = job /\ wanted' = wanted
          /\ Copying /\ Copying' /\ ~Behind
      BY <1>7 DEF CopyErase, Copying, Behind, hist
    <2>1. CASE job.i < PartBlocks
      <3>1. Puts(job.dst, job.i, Erased) /\ job.i \in Blocks /\ job.dst \in Areas
        BY <1>7, <2>0, <2>1, CopyIndex DEF CopyErase
      <3>2. ~Behind'
        BY <2>0, <2>1 DEF Behind
      <3>3. p # job.dst
        BY <2>0, <3>2 DEF Target
      <3>4. part'[p] = part[p]
        BY <3>1, <3>3, PutsType, ContentTypes
      <3> QED BY <2>0, <3>3, <3>4, <1>0, <1>6
    <2>2. CASE ~(job.i < PartBlocks)
      <3>1. part'[job.dst] = part[job.dst] /\ part'[p] = part[p]
        BY <1>7, <2>0, <2>2, BehindStep
      <3>2. CASE p = job.dst
        <4>1. \A k \in Blocks : part[job.dst][k] = part[job.src][k]
          BY <2>0, <2>2, CopiedAll
        <4>2. SoundIn(part[job.src])
          BY <1>1, <2>0, CopySource
        <4>3. Holds(part[job.src], v)
          BY <3>1, <3>2, <4>1, <4>2, SameContents
        <4>4. job.src # job.dst
          BY <2>0 DEF Copies
        <4> QED BY <2>0, <4>3, <4>4, <1>0, <1>6
      <3>3. CASE p # job.dst
        BY <2>0, <3>1, <3>3, <1>0, <1>6
      <3> QED BY <3>2, <3>3
    <2> QED BY <2>1, <2>2
  <1>8. CASE CopyWrite
    <2>0. pc = "copy_write" /\ Copying /\ wanted' = wanted
      BY <1>8 DEF CopyWrite, Copying, hist
    <2>1. CASE job.i < job.n
      <3>1. job.i < PartBlocks
        BY <2>1, Numbers
      <3>2. /\ Puts(job.dst, job.i, part[job.src][job.i]) /\ job.i \in Blocks /\ job.dst \in Areas
            /\ part[job.src][job.i] \in Contents
        BY <1>8, <2>0, <2>1, <3>1, CopyIndex DEF CopyWrite
      <3>3. pc' = "copy_erase" /\ job' = [job EXCEPT !.i = job.i + 1]
        BY <1>8, <2>1 DEF CopyWrite
      <3>4. job'.dst = job.dst
        BY <3>3 DEF MtkTypeOK, Jobs
      <3>5. p # job.dst
        BY <3>3, <3>4 DEF Target, Copying, Behind
      <3>6. part'[p] = part[p]
        BY <3>2, <3>5, PutsType
      <3> QED BY <2>0, <3>5, <3>6, <1>0, <1>6
    <2>2. CASE ~(job.i < job.n) /\ job.i < PartBlocks
      <3>1. /\ p = job.dst => Holds(part[job.src], v)
            /\ p # job.dst => part'[p] = part[p]
        BY <1>1, <1>8, <2>2, CopyDone
      <3>2. job.src # job.dst
        BY <2>0 DEF Copies
      <3> QED BY <2>0, <3>1, <3>2, <1>0, <1>6
    <2>3. CASE ~(job.i < PartBlocks)
      <3>1. part'[p] = part[p]
        BY <1>8, <2>0, <2>3, BehindStep
      <3>2. Behind
        BY <2>0, <2>3, CopyBehind DEF Behind
      <3> QED BY <2>0, <3>1, <3>2, <1>0, <1>6
    <2> QED BY <2>1, <2>2, <2>3
  <1>9. CASE UpgradeErase
    <2>1. pc = "up_erase" /\ wanted' = wanted /\ ~Copying
      BY <1>9 DEF UpgradeErase, hist, Copying
    <2> QED BY <2>1, <1>0, <1>3, <1>4, <1>9, EraseUpgrade, NoBeginning
  <1>10. CASE UpgradeWrite
    <2>1. pc = "up_write" /\ ~Copying
      BY <1>10 DEF UpgradeWrite, Copying
    <2>2. CASE p = "main"
      BY <2>2, <1>10, WriteUpgrade
    <2>3. CASE p = "backup"
      <3>1. Puts("main", job.i, FileBlock(job.file, job.i))
        BY <1>10 DEF UpgradeWrite, Puts
      <3>2. part'[p] = part[p]
        <4>1. "main" \in Areas /\ p # "main" /\ job.i \in Blocks
          BY <2>1, <2>3, AreaTypes, UpgradeIndex
        <4> QED BY <3>1, <4>1, PutsType, ContentTypes
      <3>3. pc' = "up_backup" \/ wanted' = wanted
        BY <1>10 DEF UpgradeWrite
      <3> QED BY <2>1, <2>3, <3>2, <3>3, <1>0, <1>3
    <2> QED BY <1>4, <2>2, <2>3
  <1>11. CASE UpgradeBackup
    <2>1. Puts("backup", 0, Erased) /\ wanted' = wanted /\ ~Copying
      BY <1>11 DEF UpgradeBackup, Puts, Copying
    <2>2. CASE p = "backup"
      BY <2>1, <2>2, BackupUpgrade, NoBeginning
    <2>3. CASE p = "main"
      BY <2>1, <2>3, <1>0, <1>3, BackupUpgrade
    <2> QED BY <1>4, <2>2, <2>3
  <1>12. CASE PowerCut
    <2>1. wanted' = wanted /\ ~Copying /\ ~(pc = "up_backup" /\ part' = part)
      BY <1>1, <1>12 DEF PowerCut
    <2>2. CASE part' = part
      BY <2>1, <2>2, <1>0, <1>3
    <2>3. CASE /\ SoundIn(part'["main"]) /\ \A w \in Versions : ~Holds(part'["main"], w)
               /\ part'["backup"] = part["backup"] /\ pc # "up_backup"
      BY <2>1, <2>3, <1>0, <1>3, <1>4
    <2>4. CASE part'["backup"][0] = Junk /\ part'["main"] = part["main"]
      <3>1. p = "main"
        BY <2>4, <1>4, NoBeginning
      <3> QED BY <2>1, <2>4, <3>1, <1>0, <1>3
    <2> QED BY <2>1, <2>2, <2>3, <2>4, <1>12, CutOther
  <1>13. CASE part' = part /\ wanted' = wanted /\ (UNCHANGED vars \/ (~Copying /\ pc # "up_backup"))
    <2>1. pc' = "up_backup" \/ pc # "up_backup"
      BY <1>13 DEF vars
    <2>2. ~Target(p)
      <3>1. CASE UNCHANGED vars
        BY <3>1 DEF vars, Copying, Target, Behind
      <3>2. CASE ~Copying
        BY <3>2, <1>0
      <3> QED BY <3>1, <3>2, <1>13
    <2> QED BY <2>1, <2>2, <1>3, <1>13
  <1> QED BY <1>1, <1>7, <1>8, <1>9, <1>10, <1>11, <1>12, <1>13, Quiet

-----------------------------------------------------------------------------
(* Theorems                                                                *)

\* The invariant holds in every state: copies and upgrades know how far they
\* are, images are sound, and complete ones are the newest.
THEOREM MtkInductive == Spec => []MtkInv
  <1>1. MtkInv /\ [Next]_vars => MtkInv'
    BY MtkTypeStep, WithinStep, CopiesStep, UpgradesStep, SoundStep, NewestIsKept DEF MtkInv
  <1> QED BY <1>1, MtkInitInv, PTL DEF Spec

\* What copy_firmware and _write_firmware have to go over is no more than a
\* partition, whatever sizes the check computed from what it found there, and
\* they do not go on beyond it.  (Its end is not the partition's: the marker of
\* an image that fills the partition goes behind it, see MtkConfined.)
THEOREM MtkTypeCorrect == Spec => []TypeOK
  <1>1. MtkInv => TypeOK
    <2> SUFFICES ASSUME MtkInv PROVE TypeOK
      OBVIOUS
    <2>1. MtkTypeOK /\ Within
      BY DEF MtkInv
    <2>2. \A p \in Areas : DOMAIN part[p] = Blocks
      BY <2>1 DEF MtkTypeOK, Disk
    <2>3. {half, stale} \subseteq BOOLEAN
      BY <2>1 DEF MtkTypeOK
    <2>4. job.i \in 0 .. job.n
      BY <2>1, JobTypes DEF Within
    <2> QED BY <2>1, <2>2, <2>3, <2>4, JobTypes DEF TypeOK, MtkTypeOK, Files
  <1> QED BY <1>1, MtkInductive, PTL

\* What a step may change: an upgrade the main partition and, at its end, the
\* backup; a copy its destination, and the area behind it only when the image
\* fills the partition: the backup, or the first block of rootfs_data.
ConfinedStep ==
  rots' = rots => \A p \in Areas : part'[p] # part[p] =>
    \/ pc \in {"up_erase", "up_write"} /\ p = "main"
    \/ pc = "up_backup" /\ p = "backup"
    \/ Copying /\ p = job.dst
    \/ Copying /\ job.i = PartBlocks /\ job.n = PartBlocks /\ p = Area(job.dst, PartBlocks)

LEMMA ConfinedLemma ==
  ASSUME MtkTypeOK, Copies, Upgrades, [Next]_vars
  PROVE  ConfinedStep
  <1> USE JobTypes
  <1> SUFFICES ASSUME rots' = rots, NEW p \in Areas, part'[p] # part[p]
               PROVE  \/ pc \in {"up_erase", "up_write"} /\ p = "main"
                      \/ pc = "up_backup" /\ p = "backup"
                      \/ Copying /\ p = job.dst
                      \/ Copying /\ job.i = PartBlocks /\ job.n = PartBlocks /\ p = Area(job.dst, PartBlocks)
    BY DEF ConfinedStep
  <1>1. ASSUME NEW q \in Areas, NEW i \in Blocks, NEW b \in Contents, Puts(q, i, b)
        PROVE  p = q
    BY <1>1, PutsType
  <1>2. ASSUME Copying, NEW b \in Contents, Puts(Area(job.dst, job.i), job.i % PartBlocks, b)
        PROVE  \/ p = job.dst
               \/ job.i = PartBlocks /\ job.n = PartBlocks /\ p = Area(job.dst, PartBlocks)
    <2>1. p = Area(job.dst, job.i)
      BY <1>1, <1>2, PutIs
    <2> QED BY <1>2, <2>1, CopyIndex, CopyBehind
  <1>3. "main" \in Areas /\ "backup" \in Areas /\ 0 \in Blocks
    BY Numbers, AreaTypes
  <1>4. Junk \in Contents /\ Erased \in Contents /\ Marker \in Contents
        /\ FileBlock(job.file, job.i) \in Contents /\ Torn(FileBlock(job.file, job.i)) \in Contents
    BY ContentTypes
  <1>5. CASE CopyErase
    BY <1>2, <1>4, <1>5, PutIs DEF CopyErase, Copying
  <1>6. CASE CopyWrite
    <2>1. job.i < job.n => part[job.src][job.i] \in Contents
      BY Numbers DEF Blocks
    <2>2. \E b \in Contents : Puts(Area(job.dst, job.i), job.i % PartBlocks, b)
      BY <1>4, <1>6, <2>1, PutIs DEF CopyWrite
    <2> QED BY <1>2, <1>6, <2>2 DEF CopyWrite, Copying
  <1>7. CASE UpgradeErase
    BY <1>1, <1>3, <1>4, <1>7, UpgradeIndex DEF UpgradeErase, Puts
  <1>8. CASE UpgradeWrite
    BY <1>1, <1>3, <1>4, <1>8, UpgradeIndex DEF UpgradeWrite, Puts
  <1>9. CASE UpgradeBackup
    BY <1>1, <1>3, <1>4, <1>9 DEF UpgradeBackup, Puts
  <1>10. CASE PowerCut
    <2>1. CASE pc \in {"copy_erase", "copy_write"}
      BY <1>2, <1>4, <1>10, <2>1, CutPuts DEF Copying
    <2>2. CASE pc \in {"up_erase", "up_write"}
      BY <1>1, <1>3, <1>4, <1>10, <2>2, CutPuts, UpgradeIndex
    <2>3. CASE pc \notin {"copy_erase", "copy_write", "up_erase", "up_write"}
      BY <1>1, <1>3, <1>4, <1>10, <2>3, CutPuts
    <2> QED BY <2>1, <2>2, <2>3
  <1>11. ~\E q \in Parts, i \in Blocks : Rot(q, i)
    BY DEF Rot, MtkTypeOK
  <1> QED BY <1>5, <1>6, <1>7, <1>8, <1>9, <1>10, <1>11
          DEF Next, Step, vars, Startup, Check, CheckMisread, CheckBypassed, CopyFails, Boot,
              Upgrade, UpgradeFails, Reboot

\* Nothing outside a restore's destination is touched unless the image fills
\* the partition (copy_firmware does not look at the destination's end), and an
\* upgrade touches nothing but the main image and, at its end, the backup.
THEOREM MtkConfined == Spec => [][ConfinedStep]_vars
  <1>1. MtkInv /\ [Next]_vars => [ConfinedStep]_vars
    BY ConfinedLemma DEF MtkInv
  <1> QED BY <1>1, MtkInductive, PTL DEF Spec

\* An image dual_image_check calls good and that boots is complete, for all
\* sizes of kernels and root file systems, as long as every restore has run to
\* its end and no block has decayed.
THEOREM MtkBootsIntact == Spec => BootsIntact
  <1>1. MtkInv /\ [Next]_vars => [BootStep]_vars
    <2> SUFFICES ASSUME MtkInv, Boots, Verified("main") # {}, ~half, ~(rots > 0)
                 PROVE  Intact("main")
      BY DEF BootStep
    <2>1. Undisturbed /\ ~Copying /\ "main" \in Parts
      BY DEF Undisturbed, Boots, Copying, MtkInv, MtkTypeOK, Parts
    <2>2. SoundIn(part["main"])
      BY <2>1 DEF MtkInv, Sound, Target
    <2>3. PICK n : n \in VerifiedIn(part["main"])
      BY VerifiedIs
    <2> QED BY <2>2, <2>3, SoundVerified DEF Intact, Holds
  <1> QED BY <1>1, MtkInductive, PTL DEF Spec, BootsIntact

\* The last complete image is lost in no other way than the ones ImageKept
\* names.
THEOREM MtkImageKept == Spec => ImageKept
  <1>1. MtkInv /\ [Next]_vars => [KeepStep]_vars
    BY KeepLemma DEF MtkInv
  <1> QED BY <1>1, MtkInductive, PTL DEF Spec, ImageKept

\* No check and no failed upgrade brings an older version back, as long as every
\* restore has run to its end, every completed upgrade has invalidated the
\* backup and no block has decayed.
THEOREM MtkUpgradeSticks == Spec => UpgradeSticks
  <1>1. MtkInv /\ [Next]_vars => [NewestStep]_vars
    <2> SUFFICES ASSUME MtkInv, Boots, Intact("main"), ~stale, ~half, ~(rots > 0)
                 PROVE  Version("main") = wanted
      BY DEF NewestStep
    <2>1. Undisturbed /\ "main" \in Parts /\ pc # "up_backup" /\ ~Copying
      BY DEF Undisturbed, Boots, MtkInv, MtkTypeOK, Parts, Copying
    <2>2. PICK v \in Versions : Holds(part["main"], v)
      BY DEF Intact, Holds
    <2>3. v = wanted
      BY <2>1, <2>2 DEF MtkInv, Newest, Target
    <2>4. part["main"][0] = Image(v, 0) /\ \A w \in Versions : part["main"][0] = Image(w, 0) => w = v
      BY <2>2, HoldsEnds, Distinct
    <2>5. Version("main") = v
      BY <2>4 DEF Version
    <2> QED BY <2>3, <2>5
  <1> QED BY <1>1, MtkInductive, PTL DEF Spec, UpgradeSticks
=============================================================================
