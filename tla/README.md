# Verification of the NWA50AX flash, boot and crypto code

The repository is the GPL release of the Zyxel NWA50AX access point: U-Boot
and OpenWrt trees with vendor code placed in them.  The vendor code whose
correctness is not local is small, and these are the parts this project models,
checks and proves about:

* **NMBM** (NAND Mapped Bad-block Management), the layer between raw NAND and
  everything else, `u-boot-mips-mt7621/drivers/mtd/nmbm/nmbm-core.c` (the same
  file is in the Linux tree);
* the **Linux MTD driver** on top of it,
  `openwrt/target/linux/generic/files/drivers/mtd/nmbm/nmbm-mtd.c`: its lock,
  its splitting of requests into pages, its panic write;
* Zyxel's **dual image** scheme: `zyxel_util.c` and `cmd_at.c` in U-Boot and
  `lib/upgrade/platform.sh` in the root file system;
* MediaTek's **dual image** scheme, the other one the same boot loader can be
  built with: `dual_image.c`, `cmd_mtkboardboot.c`, `cmd_mtkupgrade.c`;
* the driver of the **EIP-93** crypto engine,
  `openwrt/package/kernel/crypto-hw-eip93/src`.

## 1. Inventory

| Component | State | Operations | Hard because |
|---|---|---|---|
| NMBM core | on the chip: signature, main and backup info table (write count, block states, mapping), data, bad marks; in RAM: `struct nmbm_instance` | `nmbm_attach` (find, load, create), `nmbm_detach`, erase, read, write, mark bad; inside: table update, rescue, rebuild, remap | every flash operation may fail and every failure changes the tables that are being written; power may be cut between any two operations; retry loops nest |
| MTD driver (Linux) | `nm->lock`, `nm->state`, `nm->wq`, task states; two page caches shared by all requests | `nmbm_get_device`, `nmbm_release_device`, read, write and erase with OOB, shutdown, panic write | tasks interleave; hand-made sleep and wake-up; a shutdown that never releases; requests that start and end inside pages; a panic write that asks nobody |
| Dual image, U-Boot | `dualIMAGE` in RAM, the bootconfig block, two firmware partitions | `zy_init`, `checkHaveNewImage`, `atgo` | bootconfig is erased and rewritten in place; nobody checks results; a bad image must not boot for ever |
| Dual image, Linux | the same, through `zyDualImageKit` | `platform_do_upgrade` | aborts and power cuts between the steps of an upgrade; any file is accepted |
| MediaTek dual image | two partitions, told apart by what can be verified in them | `dual_image_check`, `mtkboardboot`, upgrade from menu or web page | no state but the images: what to boot and what to overwrite is inferred from a kernel checksum and two byte ranges of the root file system |
| EIP-93 driver | crypto queue with backlog, command and result ring, `requests`, `busy`, the engine's counters | submit, `mtk_dequeue` (work item), engine, interrupt thread | worker and interrupt thread share the rings without a lock |

Interactions: the MTD driver calls the NMBM core while it owns the device, and
that ownership is the core's only protection; bootconfig and the firmware
partitions are read and written through NMBM; boot loader and upgrade script
communicate through bootconfig only.

What makes each correct:

* NMBM: the two tables act as one atomically replaced image; acknowledged data
  survives; tables never overwrite data, signature or remapped blocks; no
  physical block serves two logic blocks; every operation ends.
* MTD driver: one user of the core at a time and none after a shutdown, no lost
  wake-up.  Each request moves its own bytes only.
* Dual image: an unattended boot starts complete images only, tries an unproven
  one once, and there is always a proven image to fall back to.
* MediaTek dual image: what the check calls good is complete, the last complete
  image is not destroyed, an upgrade is not undone.
* EIP-93: no descriptor is overwritten or forgotten, every request is completed
  once, when it is done, with its own result.

## 2. Modules

| Module | Models | Rests on |
|---|---|---|
| `NmbmOps` | data of NMBM, walks over block states, which table an attach picks | – |
| `Nmbm` | the core as a state machine, its properties | `NmbmOps`, `NmbmAtomic` |
| `NmbmHistory` | `Nmbm` with two history variables, the properties that hold up to them | `Nmbm` |
| `NmbmAtomic` | what the tables promise: one image, replaced atomically | – |
| `NmbmProofs` | theorems about `Nmbm`: types and addresses | `Nmbm` |
| `NmbmSaveProofs` | theorems about `Nmbm`: when the tables count as saved | `NmbmProofs` |
| `NmbmLayoutProofs` | theorems about `NmbmHistory`: layout, mapping, isolation, client data; the steps that implement `NmbmAtomic` | `NmbmSaveProofs`, `NmbmHistory` |
| `NmbmPanic` | the panic write entering the core in the middle of an operation | `Nmbm` |
| `NmbmMtd`, `NmbmMtdProofs` | the lock of the Linux driver, theorems | – |
| `NmbmIo` | the requests that are served under that lock, page by page | `NmbmMtd` |
| `NmbmIoProofs` | theorems about `NmbmIo` | `NmbmIo`, `NmbmMtdProofs` |
| `DualImage`, `DualImageProofs` | bootconfig, boot and upgrade, theorems | – |
| `MtkBoot`, `MtkBootProofs` | MediaTek's check, restore, boot and upgrade, theorems | – |
| `Eip93`, `Eip93Proofs` | crypto queue, rings, worker, engine, interrupt thread, theorems | – |
| `MCNmbm`, `MCNmbmHistory`, `MCNmbmPanic`, `MCNmbmIo`, `MCDualImage`, `MCMtkBoot`, `MCEip93` | what TLC runs, with the `.cfg` files | |

### Nmbm

One step is one erase or one program of a physical block, or the memory-only
code between two of them.  `ni` is `struct nmbm_instance`; its field `dirty` is
`block_state_changed || block_mapping_changed`, which the code tests and clears
together only.  `io` is the frame of the innermost routine that writes
management blocks and `io.k` the place it returns to; `call` is the frame of the
public operation; `pc` is the label of the code.  Each of the table routines
(`nmbm_rebuild_info_table`, `nmbm_rescue_single_info_table`,
`nmbm_update_single_info_table`, `nmbm_rescue_main_info_table`,
`nmbm_update_info_table_once`) is one action per call of
`nmbm_write_info_table` or `nmbm_erase_range`, run when that call returns.

Failures: an erase or program may fail, after which the code marks the block bad
(which destroys its content); with `MarkMayFail` the mark may fail too, which no
caller checks; with `ReadMayFail` a management block may be unreadable during an
attach.  A failing program leaves the block blank, or holding what was written:
the read that verifies it may be what failed.  A read of an attach fails with an
error, after which the block counts as bad in memory, or with more bitflips than
ECC corrects, after which it does not.  `MarkBad` is the client's
`nmbm_mark_bad_block`, whose mark on the chip may fail like any other.  A block
with a bad mark cannot be erased: the lower MTD driver refuses
(external).  `Crash` loses everything in RAM.

Abstractions: a block holds one value, because pages are written in order and a
table has a checksum, so a partly written table reads as none; the mapping table
is kept for logic blocks of the data area; the client erases before it writes; a
range operation is a sequence of single ones.  The page retry
(`NMBM_TRY_COUNT`) is part of an operation that succeeds or fails.  When a
table has several blocks, the search of an attach may mark one of the last
`TableBlocks - 1` blocks under the signature bad in memory; the model does not.

`view` is what the client was told of each logic block; it is not part of the
code and exists for `ClientData`.

`NmbmHistory` adds two history variables for the two events after which the code
does not keep its promises.  `skipped`: the walk of `nmbm_map_block` has passed
over a bad spare block, so that `mapping_blocks_top_ba` is lowered to a block that
may be the one just taken (`nmbm_map_twice` is what follows from it).  `unsaved`:
power has gone while the mapping of a block the client was told about was not the
one in the table on the chip.  `MappingKept`, `LayoutKept`, `OwnDataKept` and
`DataKept` are stated up to these events, so they can be checked and proved on
every chip, exhausted ones too, instead of on chips on which the events do not
happen.

### NmbmPanic

The composition of the core with `nmbm_mtd_panic_write`.  `PanicWrite` is
possible wherever the device is registered, also between two flash operations of
another task; it abandons that task's frames, programs a page through the
half-updated `ni`, and if the program fails runs the table update on top of
whatever the abandoned one left.  After it only that update and a restart
happen.  `overlaid` records the one case in which the code promises nothing.

### NmbmMtd and NmbmIo

In `NmbmMtd` one step is one statement on the spinlock, `nm->state`, the task
state or the wait queue.  `Call` stands for every MTD operation that takes the
device; `Shutdown` returns without releasing it.  The lock alone is what the
theorems are about; its `PanicWrite` only says that a panic asks nobody, and what
it does to the core is `NmbmPanic`.

`NmbmIo` extends it with what a task does while it owns the device: a step is one
page of `nmbm_read_range`, `nmbm_write_range`, `nmbm_mtd_read_data` or
`nmbm_mtd_write_data`.  `frame` holds each task's locals, `ncache` and `icache`
the two shared page caches, bytes are tokens naming the buffer they come from,
and a byte programmed twice is a mixture.  The chip is the one behind the core's
mapping; that the mapping keeps the data is `Nmbm`.

### DualImage

`cfg` is the bootconfig block (valid, erased or torn), `dualIMAGE` the copy in
RAM (of U-Boot, then of `zyDualImageKit`), `fw` the content of the firmware
partitions, `run` the image under way.  `zyDualImageKit` and the running kernel
are not in the repository; `Detect` and the two image-state calls are modelled
from their uses and marked external.  `confirmed`, `tries` and `lost` are
history variables: the images that came up since they were flashed, the
unattended starts of images that did not, and whether a power cut or a failure
hit the write of bootconfig.  The code keeps one copy of bootconfig and ignores
the results of its flash commands, so nothing can be promised once `lost` is
true; `Decode` says what the code makes of such a block.  `hollow` holds the
images marked new by an upgrade that flashed nothing (`UpgradeNothing`:
`platform_check_image` accepts any file and a section of another name, or none,
is skipped with success).  After an upgrade, failed or not, the device reboots
or, with `MULTIBOOT`, keeps running the old system (`Over`).

### MtkBoot

`part` is the content of the two partitions block by block, and of the partition
behind them (`rootfs_data`), `pc` and `job` the routine under way.  `Verified(p)`
is what `verify_image` and `verify_squashfs` conclude from a partition: a kernel
under its checksum, and of the root file system the header and the last byte.  An
image whose last byte cannot be read is good with a root file system of no length,
so that its kernel is copied alone (`Unread`).  The size checks are in bytes, so an
image may end in the last block of its partition; `copy_firmware` then erases and
writes the marker behind it, in the first block of the backup or of `rootfs_data`
(`Area`, `Put`).  A step erases or
writes one block, a power cut leaves the block half done.  `half` (a restore
ended early), `stale` (an upgrade did not invalidate the backup) and `rots`
(blocks that decayed) are the circumstances in which the code's short look at
the root file system is not enough.  `CONFIG_MTK_DUAL_IMAGE_SUPPORT` is not set
in the defconfigs of the repository.  The Kconfig text speaks of checking for
0xff behind the root file system; the code compares no such byte, and the model
follows the code.  `do_mtkboardboot` has a second boot command, for a fixed
address; that is the main partition's, so it can do nothing the first could not.

### Eip93

`worker` and `thread` are the frames of `mtk_dequeue` and
`mtk_handle_result_descriptor`, `hw` the engine (external: what its registers
count, as the driver uses them).  A step is one descriptor, one pass of a loop or
one section under a lock.  A request is its number of descriptors.  A full ring
ends the driver (`worker.pc = "oops"`): `mtk_scatter_combine` dereferences the
error pointer.  `merged` is set when one pass has consumed several descriptors,
after which results not yet acknowledged are counted again: the driver then works
on requests it has completed and completes requests the engine has not finished
(`eip93_lost_count`).  The command and the result ring are moved in one step, by
worker and by thread: each has one mover at a time and nobody reads one pointer
between the two moves, so the model says nothing about the two rings drifting
apart.  `Irq` is the interrupt the driver arms; see section 5 for any other.

## 3. Runs

| Run | Instance | Shows | Distinct states |
|---|---|---|---|
| `nmbm_power` | 14 blocks (2 data), one factory-bad block in each area, 3 failures, 1 power cut | `AtomicTables` (refinement of `NmbmAtomic`), `ClientData`, `AttachSucceeds`, `CleanIsPersisted` | 872,756 |
| `nmbm_exhaust` | 11 blocks, 7 failures, 1 power cut, fairness | `LayoutKept`, `MappingKept`, `OwnDataKept`, `DataKept`, up to the events of `NmbmHistory`, which happen here; `TypeOK`, `TableWritesConfined`, `OperationsReturn` while the management area runs out; `LostOnlyInPlace`: only the in-place rewrite of a single table can leave none; `CutKeepsAcknowledged`: `unsaved` takes a chip without any table; `CleanIsWritten`: the dirty flags are cleared only with a complete table on the chip | 1,329,921 |
| `nmbm_marks` | 12 blocks, both data blocks and one spare block factory bad, 3 failures with bad marks and reads that fail, no power cut | `StaleLoses`: one stale table does not take over; `SecondFits`: the second table an attach finds never stands among the blocks the first one maps | 3,607,847 |
| `nmbm_panic` | tables of 2 blocks, panic writes that succeed or fail, 2 restarts | `PanicKeepsImage`, `PanicKeepsData` | 1,638,374 |
| `mtd_io` | 2 clients and the rebooting task, 10 kinds of requests, 2 of them made, 1 failing page | `OneOwner`, `NoLostWakeup`, `DeviceGranted`, `InDevice`, `WriteExact`, `ReadExact`, `RetlenHonest` | 200,630 |
| `dual_image` | 2 power cuts or failing bootconfig writes, 2 upgrades, 1 operator | `BootsComplete`, `TriedOnce`, `FallbackKept`, `Recovers` | 381,528 |
| `mtk_boot` | 4 blocks per partition, 2 versions, the first of which fills it, 2 upgrades, 2 power cuts, 1 failing operation, 1 decayed block | `BootsIntact`, `ImageKept`, `UpgradeSticks`, `Recovers` | 903,897 |
| `eip93` | 2 requests of 1 or 2 descriptors, 3 submissions, ring of 3, queue of 1, 1 failing descriptor | `Accounting` and `TypeOK`; until `merged`, `NoUseAfterComplete`, `CompletedIsDone`, `ErrorsReported`, `BacklogToldFirst`, `RequestsComplete` | 1,414,513 |

Four runs show where the code does not do what its comments say; each checks one
property and TLC finds it violated (the counterexample of `eip93_lost_count` needs
no failure, just one request of two descriptors followed by another):

| Run | Property | What happens |
|---|---|---|
| `nmbm_map_twice` | `MappingInjective` | `nmbm_map_block` skips bad spare blocks but lowers the top by one, and hands out the same block again |
| `nmbm_unusable` | `UnusableIsSaved` | a logic block given up sets no changed flag and stays mapped on the chip |
| `nmbm_split_table` | `BackupIsLoadable` | a table of two blocks written around a bad one is recorded but cannot be loaded |
| `eip93_lost_count` | `EngineCounted` | results are counted again before they are acknowledged: after a request of two descriptors the thread completes one the engine was not told of yet, and `requests` falls below what the engine has to do |

**Bounds.**  Two data blocks suffice for one logic block to interfere with
another.  Fourteen blocks, two of them bad from the start, leave a main table,
its two spare blocks (`SpareBlocks`), a backup table, its spare blocks and
unmapped blocks; three failures use up the whole range of the main table, which
is what it takes to enter `nmbm_rescue_main_info_table`.  On eleven blocks that
routine finds room for its temporary table, with four and five failures it also
fails to write the new main table, six leave no room for a backup and then for any
table, and seven let `nmbm_map_block` pass over bad spare blocks and map two logic
blocks to one (`MappingInjective` itself fails there).  In `nmbm_marks` the data
area is remapped when the tables are created; if the signature cannot be written
at the end of the chip, too few spare blocks are left for that.  `MaxCount`
bounds how often the client keeps detaching.
`MaxFail` counts failures over the whole run, which separates `nmbm_power`, where
room remains, from `nmbm_exhaust`, where it does not.  Two restarts let a panic
break into the attach after a panic.

Pages of two data and two OOB bytes are the least on which a request can start
and end inside a page; the ten requests cover data only, OOB only, both ending on
the same and on different pages, and one beyond the end.  To keep the state
space small only the rebooting task takes and releases the device without moving
data.  Two upgrades and two power cuts let each image be the fallback and the
target once, with a cut in the upgrade and one in the boot after it.  In
`mtk_boot` the first version fills its partition, so that its marker goes behind
it, and the second is shorter, so that a marker and old blocks remain behind it.
The source has `MTK_RING_SIZE` 512 and `MTK_QUEUE_LENGTH` 32: with 3 and 1 both limits are reached and the ring wraps.

**Where properties end.**  Properties are stated as strongly as the code allows;
what they leave out is where the code makes no promise:

* `AtomicTables` is checked while there is room for two tables.  On an exhausted
  chip the code keeps one table and rewrites it in place, and a power cut leaves
  none: the next attach then formats.  `LostOnlyInPlace` says that no other step
  does this.
* `StaleLoses` is about one stale table, in a block whose erase and bad mark both
  failed.  An attach stops at the second table it meets, so two stale ones in
  front of the live ones take over; and if the power is cut while a table cannot
  be read, the attach goes on from the older one.  `nmbm_marks` has no power cuts.
  It also has room for two tables after its three failures: on twelve blocks of
  which 1, 3 and 9 are bad from the factory one failure leaves a single table, an
  attach that cannot read it formats the chip, and a leftover table with the same
  write count as the new ones may then be picked.
* `MappingKept`, `LayoutKept` and `OwnDataKept` end when `nmbm_map_block` passes
  over a bad spare block (`skipped`), `DataKept` and `CutKeepsAcknowledged` there
  and when power goes with an acknowledged mapping unsaved (`unsaved`).  What then
  happens is `nmbm_map_twice` for the first; for the second, the next attach builds
  a fresh mapping over live data.  `nmbm_panic` has no factory-bad blocks so that
  the first does not happen there.
* `CleanIsPersisted` and `CleanIsWritten` are about the mapping and the states of
  data blocks.  A management block found bad while a table is written sets
  `block_state_changed`, and `nmbm_mark_tables_clean` at the end of the same write
  clears it (`nmbm-core.c:1467`): it is in neither table until something else
  changes, although the comment at `nmbm-core.c:1483` says that the update is
  repeated until no new bad block is found.
* `PanicKeepsImage` and `PanicKeepsData` exclude a panic write that itself fails
  on top of an update with one table left to write (`overlaid`).
* `WriteExact` excludes `Leaks`: `nmbm_write_range` does not fill the cache behind
  a partial last page, and `nmbm_mtd_write_data` programs the rest of its cache
  again once data or OOB are used up.  `RetlenHonest` is about range writes;
  `nmbm_mtd_write_data` counts a page before it writes it.  `nmbm_mtd_read`
  returns the core's positive ECC value, which the MTD layer takes for success;
  `ReadExact` is about reads that return 0.
* `BootsComplete`, `TriedOnce` and `Recovers` of `DualImage` promise nothing once
  the only copy of bootconfig was hit (`lost`), nor of `hollow` images, which may
  stop the device at the prompt once; `FallbackKept` holds for those too.
* `BootsIntact`, `UpgradeSticks` and `Recovers` of `MtkBoot` exclude a restore
  that was cut (`half`) and decayed blocks, which its check cannot see.
  `ImageKept` names the steps that may destroy the last image: a restore from an
  image that only looks complete, an upgrade started without a complete backup, and
  the invalidation of the backup behind a file that is no image.
* `ErrorsReported` is about requests of one descriptor, because the status is
  reset in every pass and the error of an earlier descriptor lost.
* After `merged` the driver has lost count: `NoUseAfterComplete`,
  `CompletedIsDone`, `ErrorsReported`, `BacklogToldFirst` and `RequestsComplete`
  promise nothing; without that exception TLC finds each of them violated
  (`BacklogToldFirst` only with three requests under way).  `Accounting` and
  `TypeOK` go on.
  A request of two descriptors whose results are ready together is all it takes.
  `eip93_lost_count` is the run for it, and `Eip93SingleDescriptor` (section 4)
  shows that requests of one descriptor are safe.

**Deadlock** is not checked: a client may stop asking, an attach may fail for
good (`pc = "dead"`), after a shutdown every task may sleep, U-Boot waits at
its prompt, callers of the crypto driver stop, and every model has bounds.

**Fairness.**  `Nmbm!FairSpec` says that a routine under way goes on and a
powered chip is attached (weak fairness of `Step`; its ENABLED condition is
spelled out as `Running`, which TLC evaluates much faster), and
`NmbmHistory!HistFairSpec` assumes the same; nothing is assumed
of clients, failures or power cuts.  `NmbmMtd!FairSpec` says that the kernel
runs every task that can run, and that the core returns, which is
`OperationsReturn`; a spinlock promises nothing to a particular task, so
`DeviceGranted` is about the device: one waiter may starve.
`DualImage!FairSpec` says that boot loader, kernel and script keep running;
nothing is assumed of power cuts, operators or upgrades.  `NmbmIo!IoSpec` adds
that a page operation ends.  `MtkBoot!Spec` says that the boot loader goes on (its
menu times out) and that a kernel without a root file system restarts.
`Eip93!Spec` says that the kernel runs work items and interrupt threads, that the
engine works, and that a waiting result raises the interrupt, which the timeout
the driver programs guarantees.

## 4. Theorems

Proved by TLAPS for every value of the constants:

* `NmbmProofs`, for every geometry allowed by `GeometryAssumption` and any number
  of failures, power cuts and requests:
  `NmbmTypeCorrect` (`TypeOK`) and `NmbmTableWritesConfined`
  (`TableWritesConfined`).  Neither is inductive: where `nmbm_write_mgmt_range`
  writes depends on the frame its caller built from `main_table_ba`,
  `backup_table_ba`, `mapping_blocks_ba` and `mapping_blocks_top_ba`, which in
  turn come from where earlier writes ended or from a table found on the chip.
  `IInv` says that all these addresses, and the frame, lie between the start of
  the management area and the signature (`AreaOK`, `FrameOK`), and which of them
  must not be 0 at which label (`Control`).  `NmbmInductive` proves it action by
  action, from lemmas on the walks (`WalkAscType`, `WalkDescType`,
  `TryReserveType`), on the in-memory helpers and on the frames (`WriteTableInv`,
  `EraseRangeInv`, `TableReturnInv`).  Minima and maxima of sets of block
  addresses rest on the well-foundedness of the natural numbers.
* `NmbmSaveProofs`, on top of `IInv` and for the same chips:
  `NmbmCleanIsWritten` (`CleanIsWritten`).  Between the first chunk written and
  the moment the flags are cleared, blocks are found bad and others erased.
  `SaveInv` says that the cache agrees with the instance on mapping and
  data blocks as long as a table routine runs, that the chunks
  `nmbm_write_mgmt_range` counts as written are on usable blocks between the start
  of the table and the write position (`Written`), that the block about to be
  programmed is usable, and that in the two places where an earlier call wrote the
  table that counts (`nmbm_erase_range` at the end of
  `nmbm_rescue_single_info_table`, the second write of
  `nmbm_rescue_main_info_table`) this table is behind the limit of the loop that
  runs (`Behind`).  One lemma per action shows the invariant and the property
  together (`SaveStep`); `KeptChunks` is the core of it.
* `NmbmLayoutProofs`, on top of both, for the same chips and for the behaviours of
  `NmbmHistory`.  The theorems do not assume that the events of `NmbmHistory` do
  not happen: they are proved up to the first one, on every chip, and the run that
  checks the same formulas (`nmbm_exhaust`) reaches both events.  One hypothesis
  remains, on the states of the behaviour: `SecondFits`, the second table an attach
  finds does not stand among the blocks the first one maps.  It is the property of
  `nmbm_marks`; TLC finds no violation of it on the chip of `nmbm_power` either,
  nor on that of `nmbm_exhaust` before `skipped`.

  `NmbmMapInductive` is the invariant: `LayInv` has, beside the order of the
  addresses, the room of the table being written (how far the loop may still go in
  front of the table or pool behind it, for each caller), and `MapInv` says that
  the mapping in RAM and in every table chunk on the chip is injective, and that
  the management blocks it uses are above `mapping_blocks_top_ba` (in a table:
  above the table).  That the topmost spare block is good when `nmbm_map_block` has
  taken it is what `~skipped` gives; that the tables an attach finds leave room
  below the mapped blocks is derived from `MapInv` and `SecondFits`.
  `NmbmMappingKept`, `NmbmLayoutKept` and `NmbmOwnDataKept` follow: a table is
  written below the top, an erase or write reaches the one block its logic block
  has.  `NmbmStandbyKept` shows why there are two tables: whenever a table is being
  written or a range erased, another table (a recorded one, the temporary one of
  `nmbm_rescue_main_info_table`, or the new one of
  `nmbm_rescue_single_info_table`) is left alone block for block; only
  `nmbm_rebuild_info_table`, and the rewrite of a table that has no second one, go
  without.  It is about places, not about what the other table holds.

  `NmbmImageSteps` is the part of the refinement of `NmbmAtomic` that is proved,
  without read errors during an attach (`~ReadMayFail`) and with no other
  hypothesis: every step that leaves the management blocks alone is a step of
  `NmbmAtomic` or a stutter.  What an attach loads depends on the management area
  alone (`SameLoaded`, with `SigInv`: no signature is in the data area), every
  routine, remap and client operation changes mapping and cache as `Remap` and
  `Prepare` allow (`RamStep`), a power cut or detach loses RAM only, and an attach
  restores the mapping of the table that the selection picks (`AttachRestores`).
  Of a step that erases or programs a management block it says what happens in
  memory only; that such a step leaves the image or replaces it whole is
  `AtomicTables`, model-checked.  `NmbmDataKept` (`DataKept`) combines the two
  strands: acknowledged data stays, because no step touches a foreign block, an
  erase under way has withdrawn what was said of its block (`Withdrawn`), and an
  attach finds the mapping the power cut interrupted unless `unsaved` was recorded.
* `NmbmMtdProofs`, for any number of tasks: `MtdTypeCorrect`, `MtdOneOwner`,
  `MtdNoLostWakeup`.  The invariant relates each task's label to the lock, the
  state word and the wait queue.
* `NmbmIoProofs`, for every page and OOB size, every set of requests and any number
  of tasks and failing pages: `IoImplementsMtd` (the data path is a refinement of
  the lock, so the theorems above hold of it), `IoInDevice`, `IoReadExact`,
  `IoWriteExact`, `IoRetlenHonest`.  The invariant has layers, each inductive
  relative to those before: the lock, which says that one task at a time is inside;
  types; `Cursors`, which ties page, column and OOB offset to the number of bytes
  moved; `Started`; then what a reader has gathered (`Reads`), what a range write
  has programmed and left alone (`Ranges`), and what a write without leaks has
  programmed (`Writes`), with `Together` for the loop that runs until data and OOB
  are both used up.  The page addresses are products, which the solver does not do
  by itself: lemmas on products and remainders come first.
* `DualImageProofs`, for any number of power cuts, upgrades and operator boots:
  `DualBootsComplete`, `DualTriedOnce`, `DualFallbackKept`.  The invariant says
  that RAM and flash agree outside a rewrite (`Bootconfig`), that the fallback
  works (`Fallback`), that a new image is complete and was never started
  (`NewComplete`), that the image being flashed is marked failed (`Flashing`)
  and what is known of the image about to start (`Starting`).  `hollow` images
  are excepted where the properties except them, and never the fallback.
* `MtkBootProofs`, for every number of blocks and versions, every length of
  kernels and root file systems and any number of upgrades, failures, power cuts
  and decayed blocks: `MtkTypeCorrect`, `MtkConfined`, `MtkBootsIntact`,
  `MtkImageKept`, `MtkUpgradeSticks`.  `MtkTypeCorrect` bounds what a copy goes
  over by a partition; `MtkConfined` says which blocks it changes: nothing outside
  the destination unless the image fills it, and then only the area behind.  The
  invariant says how far a copy or an upgrade has come and that what lies behind it
  is done (`Copies`, `Upgrades`), that a partition whose first block is an image's
  holds all of it or misses its last block (`Sound`, the reason why the short check
  of the root file system is enough; also when a kernel alone was copied or a marker
  went into the first block of the other partition), and that complete images are
  the one asked for last (`Newest`).
* `Eip93Proofs`, for every ring of at least two slots, every queue length and
  requests of any number of descriptors: `Eip93TypeCorrect` and
  `Eip93Accounting`; up to `merged`, `Eip93NoUseAfterComplete`,
  `Eip93CompletedIsDone`, `Eip93ErrorsReported`, `Eip93BacklogToldFirst`; and for
  requests of one descriptor `Eip93SingleDescriptor`, which has no exception: with
  `MaxDesc = 1` the thread works on no completed request and completes none the
  engine has not finished.  `Base` (types, frames, the
  balance of `requests` and ring pointers) holds always; until `merged`, `Counts`
  relates the engine's counters to the pointers, `Places` says that each request is
  in the queue, with the worker, in the ring or with the thread, `LastIsLast` that
  nothing of a request is behind its last descriptor, `Backlog` who waits behind
  the queue's limit, `Descriptors` that each descriptor is done, in the ring or
  still to be written, and `Errors` where a failure is recorded.

Only model-checked:

* all liveness (`OperationsReturn`, `DeviceGranted`, `Recovers` twice,
  `RequestsComplete`): the prover has no ENABLED;
* `AtomicTables` and `ClientData` (on the chip of `nmbm_power`),
  `CutKeepsAcknowledged`, `AttachSucceeds`, `CleanIsPersisted`, `LostOnlyInPlace`
  and the two properties of `NmbmPanic`.  They are about the table an attach would
  choose, hence about the contents of all blocks; the runs that show where they end
  are listed above;
* `StaleLoses` and `SecondFits`, the hypothesis of `NmbmLayoutProofs`.  They are
  about tables left over in blocks that could be neither erased nor marked; with
  enough failures such tables take over, and no state of the program records how
  many there are.

## 5. Not modelled

* U-Boot's own NMBM MTD driver and `nmbm` command: single-threaded callers of the
  same core with no state of their own; the environment in NMBM: one erase and
  one write in place, which is what `DualImage` shows for bootconfig.
* Probe errors and removal of drivers.  Reading them shows two faults:
  `nmbm_remove` (`nmbm-mtd.c:803`) adds the device to its list again instead of
  removing it; `mtk_crypto_remove` (`eip93-core.c:517`) holds a lock while it
  waits for a work item that takes it.
* Upgrading the boot loader in place; the loaders (TFTP, serial, HTTP) and
  menus; manufacturer data; `do_flash_ubi`, which nothing calls.
* In `MtkBoot`, the two `can't hold` returns of `dual_image_check`
  (`dual_image.c:392`, `408`): both partitions are of one size.
* An EIP-93 interrupt other than the one the driver arms
  (`eip93-core.c:267-271`): the handler then masks all interrupts, which only
  the probe enables, so requests under way wait for ever.  `RequestsComplete`
  assumes that there is no such interrupt.
* In `Eip93`, keys, SA records, scatter lists and DMA mappings, which are data.
* The third-party trees (U-Boot, Linux and OpenWrt with their packages), which
  are nearly all of the repository's lines.  The map covers the vendor code named
  above and therefore a small share of the whole.

## 6. Plan

Done, in this order: `NmbmOps`, `Nmbm` with its runs, `NmbmAtomic`, `NmbmMtd`,
`DualImage`, and their proof modules; then `NmbmPanic`, `NmbmIo`, `Eip93` and
`MtkBoot`, and upgrades without firmware in `DualImage`; then `Eip93Proofs`,
`NmbmIoProofs`, `MtkBootProofs` and `NmbmSaveProofs`; then `NmbmLayoutProofs`.

Next, most important first:

1. The other half of `AtomicTables` for every chip with room for two tables: that
   each erase or program in `nmbm_update_info_table_once` leaves the image or
   completes the one being saved.  `Written` and `Behind` are the start of that
   invariant and `NmbmStandbyKept` keeps the other table in place while one is
   rewritten; what is missing is that it is complete, and that its write count is
   the higher one.
2. `CutKeepsAcknowledged` from it.
