# Verification of samd5-boot

TLA+ models of the A/B bootloader in this repository, the TLC runs that check
them on small instances, and TLAPS proofs of what matters most for every
instance. Source paths below are relative to the repository; the file
`PROJECT.json` maps each definition to the lines it models and lists the runs,
the hazards and the findings.

## 1. The system

A SAM D5x/E5x part has two flash banks, one of which is mapped at the base of
flash (`FIRSTB`). An identical BOOT sits at the head of both; the rest of each
bank is an application slot. `BKSWRST` swaps the banks and resets the part in
one step, and is the only commit point there is.

| Component | State it keeps | Operations | Talks to |
|---|---|---|---|
| Boot state machine (`src/boot.rs`) | none beyond a reset: it reads the record and `FIRSTB` every time | `disposition`, `boot_or_enter_download`, `install` (condemn, download, verify, record, swap), `revert`, `fall_back`, `boot_trial`, `boot_active` | the record through a store, flash, the watchdog |
| Boot record (`src/persist.rs`) | state of each bank, trial count, revert reason; mailbox flags; a CRC | `read`, `write`, setters | both images, one at a time |
| Stores (`src/persist.rs`) | SmartEEPROM words behind a journal; backup RAM words; `Fallback` over the two | `read_raw`, `write_raw` | the NVM controller |
| Application client (`src/client.rs`) | none | `confirm`, `reject`, `request_update` | the record, the watchdog |
| Geometry (`src/consts.rs`) | none | `boot_size_valid`, `boot_region_mask`, `bootprot_value` | `Boot::new`, `lock_boot_regions`, the bench tools |
| Flash writer, manifest, CRC (`src/flash_writer.rs`, `manifest.rs`, `crc32.rs`) | flash words, the cache bits | `write`; `check_slot`, `stamp` | `install`, `verify` |
| Rig BOOT (`examples/update-rig/boot`) | progress of a stream | `listen`, `install`, `handover` | the host over a link |
| Rig application (`examples/update-rig/app`) | none | answers frames, resets | the host, the record |
| RTT link (`demo-rtt`, `demo-rig`) | two rings in the RAM of the image that runs; a published address | `write_all`, `try_read_byte`, `flush_rx` | the probe |
| RS485 link (`demo-serial`) | SERCOM FIFO, a ring, a loss flag | interrupt handler; `try_read_byte`, `write_all`, `flush_rx`, `quiesce`, `arm` | the wire |
| Host (`xtask`) | the attached block, progress | `resync`, `ping`, `begin_update`, `write_raw`, `install_result` | the part through the link |
| Bench tools (`samd5-boot-tools`) | a backup file, a debug session | `provision`, `flash`, `request_update` | user page, bank heads |

### What is hard, and what makes it right

- *Everything is interrupted.* A reset or a power cut may fall between any two
  steps: between recording a trial and the swap, inside a record write, halfway
  through a download. Correct means: no swap to a bank that holds no whole
  image, no condemned image run, no confirmation or rejection credited to an
  image that did not make it, the attempt budget kept.
- *The record is one for two images.* A flag left by one image is read by the
  other. Correct means: each flag is acted on for its own image.
- *Boots that call for boots.* Revert, rollback and resume each swap and reset.
  Correct means: it settles.
- *Stores that lie.* SmartEEPROM takes a word, reads it back from a buffer and
  commits it later, or not at all. Correct means: a write that returned sticks.
- *A report kept in RAM that the next image clears,* and a protocol in which
  silence is success. Correct means: the host is never told a success that was
  none.
- *An interrupt handler against a foreground* that masks it while driving the
  bus. Correct means: bytes in order, and no loss that is not reported.
- *Lengths, ranges and masks* computed from flash and from fuses, in front of
  hardware that erases whole blocks. Correct means: what is accepted is an image
  somebody stamped, what was stamped is accepted, and no byte outside the slot
  is touched.
- *A debugger against firmware* that swaps banks under it, and fuses that are
  erased before they are written. Correct means: what is reported done is done,
  and what was erased can be put back.

`PROJECT.json` "hazards" lists these at their lines with the properties that
cover them.

## 2. The modules

    BootRecord            the record, its words, sealing, torn writes
      Bootloader          boot.rs and the rig's download loop
        Device            + application, watchdog, resets, wear, a debugger
          MCDevice        instances for TLC
          Device_proofs   types, soundness  (with BootRecord_proofs)
            DevicePromises_proofs   trials, flags, what may run
      RecordStore         what BootStorage promises      (abstract)
      SmartEeprom         one word at a time             (implements RecordStore)
        FallbackStore     SmartEEPROM with backup RAM behind it
          FallbackStore_proofs    the refinement, what sticks
    Geometry              consts.rs and the checks of Boot::new
      Slot                flash writer, manifest, check_slot, word by word
        MCSlot            a small part
        Slot_proofs       ranges, locks, cache, what is accepted, for every geometry
    UpdateLink            host, BOOT and application over RTT and RS485
      UpdateLink_proofs   bodies and verdicts, for every body and ring
    RxRing                the RS485 receive path
      RxRing_proofs       order and losses, for every ring
    Bench                 provision and flash against a part
      Bench_proofs        what the tools may report, for every page

**BootRecord.** A record is `[state, mail]`; a store holds three words, `state`,
`mail` and `sum`, each power-atomic and unordered. The checksum word is the set
of records it matches: the one that was sealed, or none. `Mixes` is what a cut
write leaves, `Prefixes` what a failed one leaves (`SmartEepromStore` writes in
order and stops). `ReadRecord` is `BootStorage::read`: words that do not check
out are a fresh chip.

**Bootloader.** BOOT is sequential, so everything between two effects that
outlive a reset is one action. `BootOrEnterDownload` has one operator per arm of
the match; a store write is a phase of its own (`commit`) with two endings,
`WriteLands` and `WriteFails`, and `goal` names the call that asked for it:
`AfterWrite` and `AfterError` say where each caller goes on. `BeginInstall`
condemns before the first erase, `BurnBlock` writes a block with the image's
content or with something else, `EndStream` reads the slot back (only when
something was delivered), and `SwapReboot` is `BKSWRST`. An image is a model
value and a slot verifies when it holds the whole of one image (`Whole`).

**Device** adds `BootClient`'s calls, the trial watchdog, resets from outside,
power cuts (backup RAM is lost), a store that wears out, blocks that rot, and
`provision::request_update`: a debugger that stops the core anywhere, amends the
record it finds or writes a fresh one, word by word, and resets the part or
fails on the way. `vouched`, `disowned`, `served` and `decayed` are history that
no action reads, and so is `blind`: a core went on with a record that was not the
stored one, because the store could not be read (`BootUnreadable`, which takes the
default record) or was amended under it. Five properties are about the record as
written by boots that could see it and say `\/ blind`; without it they are false,
for a boot that reads the default record runs the outgoing image under the record
of an install, and its confirmation or rejection then counts for the new one.

**Geometry / Slot.** Geometry is the arithmetic of `consts.rs` with the
family-wide sizes as constants and a part as a record of its flash, BOOT size and
fuses; `Boots` is what `Boot::new` refuses. Slot is one slot of such a part, word
by word: `Chunked` is `words`, `PageOf` is `pages`, `WritePage` is the erase-ahead
and the program, `WriterDrops` restores the cache bits, `StampAs` is
`manifest::stamp` and `ReadManifest` and `RunCrc` are `check_slot` (the DSU is the
second, with the length it is given); `DsuFails` is a DSU that errs inside the bank,
which ends in a refusal of its own ("DsuFault") and is the one way a whole image is
not accepted. A CRC is the words it was taken over; a
word of an image may arrive wrong, and the length field may then read as any of
`WrongLens`. Words are records, whose fields say what kind of word they are.
`ImageAssumption` says what the acceptance of a slot rests on: an unstamped image
holds no word that is a CRC, and both CRCs lie in the first erase block (0x400
against 8 KiB). It is the detail under Bootloader's `Burn` and `Whole`:
`VerdictIsContent` is what Bootloader assumes of a verify, that it says ok exactly
when the slot holds the whole of one image, unless the DSU failed.

**RecordStore / SmartEeprom / FallbackStore.** `RecordStore` is the abstract
contract: a write takes, is refused, or is cut, and nothing else changes the
words. `SmartEeprom` is `write_raw` in five steps a word (compare, arm SEEWRC,
put, wait, read back) against a controller that journals later or, while locked,
never. `FallbackStore` is `Fallback::write_raw`: clear the spare, try the
primary, else write the spare, whose words land in any order. The contract is
checked with SmartEeprom substituted through a refinement mapping
(`Contract == INSTANCE RecordStore WITH ...`): the words a caller can rely on
are the committed ones when no write is running.

**UpdateLink.** The two transports of the rig under one exchange. Over RTT: the
rings of whichever image is live and the publication slot; each image that comes
up wipes the other's, and a writer waits for room. Over RS485: a line on which a
reset goes unnoticed, and that drops what finds no room (`Put`, `ComeUpWith`).
`tool` is the self-test or an operator's `reboot` and `update`, which take
different messages for an answer. `BootResets` cuts a BOOT short at any point.
Both ends: `task`/`step` are the host's exchange and the part of it, `dev` is
where the core is. A frame is two bytes, so that a reader can hold half of one.
`flush` is the gap between a reply, or the application's coming up, and the
`flush_rx` behind it. What the record decides is abstract (`request`, `promote`,
`running`). With `StoreFaults` any write of the record may be refused (`Refused`):
the condemning write ends the update, the clearing of the request is not looked at
(`boot.rs:596`) and leaves it in the record, a promotion that cannot be written
leaves BOOT listening. `WriteFails` is the host's write to a block that is no
longer there. `early` is history that no action reads: a flash command failed with
bytes of the body still to come (`FailsAt` says where it may).

`BackInService` is stated for a BOOT whose record holds neither a request nor a
promotion when it gets to `handover`. It is false without that: after a clearing
write that was refused the failed install ends in a boot that finds the request
again and listens, with an image to run and no deadline. No sentence of the
documentation promises the contrary; the hazard at `boot.rs:596` records it.
`ReportHeld` is an action property over the steps of the device alone: taking the
report is the host's step and is not what it is about.

**RxRing.** Handler steps are taken between any two foreground steps and are not
interrupted by the foreground; the wire goes on regardless. Bytes from the host
are numbered, so order and gaps can be stated. CTRLA.IBON is left 0, so an overflow
is told in its place in the stream: `Mark` stands in the FIFO behind the bytes that
were there, sets STATUS.BUFOVF when it comes to the front (`MarkSurfaces`) and reads
as a zero. A loss goes from `overrun` (the mark not come to) to `due` (in STATUS) to
`gap` (in the flag). `heard` keeps a second byte from arriving during one run of the
handler: at 115200 baud a byte takes 87 us and the handler a few.

The handler looks at STATUS once, before it drains, so it drains past a mark and
learns of it at its next run only. `NoSilentGap` says how far that goes: until then
the foreground is ahead of the loss by one byte at most, the one that arrived during
that run (and by the mark's zero, a byte nobody sent). A loss in the last bytes of a
transmission is therefore told with the first byte of the next one.

**Bench.** A tool is the sequence of steps it has left. `core`, `catch` and
`booting` say whether the part's own BOOT gets to run; `BootActs` is that BOOT
swapping out of a bank recorded Invalid. The user page is its first quad word
(BOOTPROT, SBLK and locks, which is where they all are) and the others.

`provision` is the steps `ProvisionSteps`: save the page, erase it, write its quad
words, compare it, reset, compare it again, compare what was latched. Each can fail
on its own, the reset in three ways: it is not seen to halt, it does not reach
NVMCTRL, or a quad word that was programmed weakly is lost across it. So at the last
comparison the page and the latched fuses may differ from the plan, and
`VerifiedIsLatched` says what "provisioned and verified" can be relied on for: the
page, BOOTPROT, and the locks where they were asked for. `LatchedAsAsked` compares
no more than that; SBLK and the locks a `--restore` brings back are in force only if
nothing failed in the run (`since`).

`save_backup` is `exists()` and then a write straight to the file, so the file is
`none`, `whole` or `torn`. A torn one is kept as "the existing backup" by every later
run, whose erase then goes on, and the message of a failed run
(`provision.rs:222-228`) calls it the previous contents; `--restore` refuses it by
its length. `FusesRecoverable` holds but for that file, and says so: what the page
held is on the part, in the backup, or the backup's own write was cut short.

## 3. The runs

| Run | Instance | Shows |
|---|---|---|
| `device_safety` | 2 images, 2 blocks, budget 2, backup RAM, reads that may fail, a debugger, 1 fault | `RecordSound`, `PromotedWasVouched`, `AtMostOneNew`, `TrialBudget`, `TrialIsWatched`, `RejectedByItself`, `CondemnedNeverRuns`, `RequestKept` |
| `device_liveness` | 2 images, one too long, SmartEEPROM, 1 fault | every boot settles; an unconfirmed trial ends |
| `store_fallback` | 3 writes, 3 faults | `WriteSticks`, `SpareIsNewer`, SmartEeprom implements RecordStore |
| `slot` | 7 parts, 4 images, 2 downloads | `AcceptedIsStamped`, `SoundIsAccepted`, `InsideRegion`, `CrcCoversImage`, `CacheRight`, `LocksCoverBoot`, `VerdictIsContent` |
| `link_update` | both transports and tools, body 4, down ring 3, 1 reset of BOOT, a flash that fails on the last byte or two before it, record writes that may be refused | `BodyMeetsStream`, `VerdictRight`, `BackInService` |
| `serial_ring` | ring 5, FIFO 2, 6 bytes | `InOrder`, `NoSilentGap`, `EchoNeverRead` |
| `bench` | 3 quad words, 3 faults of any kind | `BothHeads`, `FlashGoesThrough`, `ActiveKept`, `FusesRecoverable`, `VerifiedIsLatched` |

Five runs are expected to end in a violation; each checks one sentence of the
documentation against what the code does.

| Run | The sentence | What happens |
|---|---|---|
| `device_stranded` | "No single failure leaves the device unbootable" (`lib.rs`) | a reset between a revert's record write and its swap, with the factory image still recorded None: download mode, and nothing falls back to it |
| `device_demoted` | "A trial image that never confirms is reverted" (`client.rs`) | an image on trial asks for an update; the next one is reverted into it, and it now boots as a steady image |
| `store_authority` | the spare "is then the authority until a primary write lands again" (`persist.rs`) | the next write clears the spare first; a reset there leaves an older record |
| `link_report_lost` | BOOT "holds the link open ... so the report cannot be wiped before it is read" (rig README) | the flash fails mid-stream, the next byte of the body counts as the host's answer, and the application that boots wipes the report the host has still to read |
| `bench_unlatched` | `provision` "reports whether they actually latched rather than assuming it" (rig README) | a run that died between the quad word of the fuses and its reset is repeated, finds nothing to write, and succeeds over the old fuses |

### Bounds, and why they are enough

- *Images and blocks.* Two images and two blocks: the smallest slot that can be
  half written, and the smallest set in which one image can be taken for
  another. Images are symmetric in `device_safety`.
- *Budget 2, `U8Max` 3.* A budget that is reached after more than one boot and
  lies below the saturation of the counter. At a budget equal to `U8Max` (255 in
  the build) `TrialBudget` is false: the counter saturates at the budget and
  `attempt > max_boot_attempts` never holds, so the trial never ends.
- *Slot.* Words of 2 bytes, pages of 2 words, blocks of 3 pages; flashes of 8 and
  16 blocks with 8 lock regions, BOOTs of one granule and two, and reserves that
  leave a region of three blocks, of one, or none. Images that end in their
  manifest, on a block, inside a block, and one too short to stamp; streams cut
  at every byte; lengths at every edge that `check_slot` tests, and one near the
  end of a `usize`. Two downloads, so that the second finds what the first left.
- *Flash failures of the link.* With every byte in (the host waits for silence)
  and with two still to come (it is writing): the two sides of the report's race.
- *Faults.* One fault of any kind at any point, on top of everything that is not
  a fault (watchdog bites, application resets, wire errors, refused images, a
  host that sends nothing). The proofs hold for any number of faults, blocks and
  images; TLC has also been run with two faults and a budget of one.
- *Rings.* A down ring of 3 is smaller than the body and as small as a frame
  allows, so it fills; a receive ring of 5 wraps and fills within 6 bytes, and has
  room for what the FIFO held and more behind it (a ring of 3 is full before a
  loss at the FIFO can have anything behind it, and would hide one). A FIFO of 2
  is the part's own.
- *Writes.* Three writes: one to settle, one to fail over, one on top.
- *Quad words.* A first, a middle and a last.

### Fairness

`device_liveness` asks for weak fairness of BOOT's own steps, of the stream
(its source ends it by a byte timeout at the latest) and of the watchdog (it
runs from its own clock). No host and no application is assumed to act.
`link_update` asks it of the device's steps and of the host's, both of which are
loops that poll; timeouts are steps among them.

Three timeouts in UpdateLink are guarded by what the *other* side is doing, for
their lengths are set so: the host's result timeout does not fire while BOOT is
condemning, streaming or about to flush (it is tens of seconds, BOOT's steps are
milliseconds); the byte timeout does not fire while the host has bytes to write;
the handover timeout fires only when the host waits for something BOOT will not
send, or has gone. The link runs' instances really stop (`CHECK_DEADLOCK
FALSE`): the host is done and BOOT listens without a deadline. So do the store
runs: their writes and faults are used up.

## 4. What is proved

From the named assumptions on the constants (`U8MaxAssumption`,
`BootloaderAssumption`, `GeometryAssumption`, `SlotAssumption`, `ImageAssumption`,
`LinkAssumption`, `RingAssumption`, `BenchAssumption` and those of the stores) and
nothing else, except where a theorem says so:

| Theorem | States | From |
|---|---|---|
| `TypeCorrect` | `Spec => []TypeOK` | itself |
| `BootableIsWhole` | `Spec => []RecordSound` | `SoundInv` |
| `NeverTwoTrials` | `Spec => []AtMostOneNew` | `SoundInv` |
| `TrialsAreCounted` | `MaxAttempts < U8Max` gives `Spec => []TrialBudget` | `BudgetInv` |
| `PromotionIsEarned` | `Spec => []PromotedWasVouched` | `FlagsInv` |
| `RejectionIsOwn` | `Spec => []RejectedByItself` | `FlagsInv` |
| `CondemnedStaysDown` | `Spec => []CondemnedNeverRuns` | `RunsInv` |
| `TrialsAreWatched` | `Spec => []TrialIsWatched` | `RunsInv` |
| `RequestsAreKept` | `Spec => RequestKept` | `KeptInv` |
| `PrimaryImplementsContract` | `Spec => PrimaryKeepsContract` | `SeeInv` |
| `WritesStick`, `SpareIsTheNewer` | `Spec => []WriteSticks`, `[]SpareIsNewer` | `FallInv` |
| `SlotTypeCorrect`, `DownloadsStayInside`, `CacheIsRight`, `CrcsCover`, `LocksAreBoots` | `Spec => []` of `Slot!TypeOK`, `InsideRegion`, `CacheRight`, `CrcCoversImage`, `LocksCoverBoot` | `SlotInv` |
| `AcceptedAreStamped`, `SoundAreAccepted` | `Spec => []AcceptedIsStamped`, `[]SoundIsAccepted` | `AcceptInv` |
| `VerdictsAreContent` | `Spec => VerdictIsContent` (an action property; DSU faults excepted) | `AcceptInv` |
| `LinkTypeCorrect`, `BodiesMeetStreams`, `VerdictsAreRight` | `Spec => []` of `UpdateLink!TypeOK`, `BodyMeetsStream`, `VerdictRight` | `LinkInv` |
| `RingTypeCorrect`, `BytesInOrder`, `NoGapIsSilent`, `EchoIsNeverRead` | `Spec => []` of `RxRing!TypeOK`, `InOrder`, `NoSilentGap`, `EchoNeverRead` | `RingInv` |
| `BenchTypeCorrect`, `FlashedIsBoth`, `OnlyLocksStopFlash`, `NothingUnnamedIsLost` | `Spec => []` of `Bench!TypeOK`, `BothHeads`, `FlashGoesThrough`, `FusesRecoverable` | `BenchInv` |
| `SwapsCancel`, `ProvisionedIsLatched` | `Spec => ActiveKept`, `VerifiedIsLatched` | `BenchInv` |

None of the device's is inductive as it stands, and for one reason: a cut write can
bring back the record that the checksum word still belongs to, however old, and
the record in RAM is not in the store yet. So the invariants speak of every
record *held* (`Held`): the one the checksum word matches and the one in RAM.

`SoundInv`: each held record is sound (calls no bank Valid or New that is neither
whole nor rotten) and calls at most one bank New. `CondemnedFirst` is the
strengthening that a download needs: while blocks are burnt the store holds
exactly the record in RAM, and that record calls the inactive bank Invalid. It is
what the condemning write before the first erase buys; without it a block burnt
under an older record breaks soundness, as the mutant that drops it shows.

`BudgetInv`: each held record that calls a bank New counts at least the boots the
bank was given (`Counted`), and a count on its way to the store is already above
them and within the budget (`Paid`). The second is why the order of counting and
jumping matters, and where `MaxAttempts < U8Max` is used: a saturated count is
not above the one before it.

`FlagsInv` (with `SoundInv`): no held record carries a flag into a bank that is
about to become active. `Flagged` says it of a record, per bank and flag;
`FlagPhases` says that every record that may be read after a pending swap is
`Outgoing`, and that no flag is set while one is pending. The second fails after
a blind boot, hence the qualifier.

`RunsInv`: while an application runs the stored record does not condemn its bank
and, on trial, the watchdog is on; the record a call of the application writes
differs from the stored one in its mailbox only.

`KeptInv`: when the stored record holds a request, so does the record in RAM, on
every way to a write but the one that clears it; a mixture of the two then holds
it too.

`SeeInv` and `FallInv`. A word that was put is in flight until the controller
journals it; the wait before the next put sees to it that at most one is, and
that the completion it waits for cannot be an earlier word's (`OneInFlight`).
Words before the index are the new ones and words behind it the old (`Halfway`),
which is what a cut leaves in the contract. For the two stores together: a
checksum in the spare is of a record newer than any the primary holds
(`SpareNewer`), for the spare is cleared before a newer one can land in front.

`SlotInv`: `InsideRegion` is inductive because the end of a region falls on a
block on every geometry that builds (products and quotients of the sizes: the
lemmas before the invariant), so a block that is erased ahead of a page inside
the region lies inside it; `LenChecked` keeps the length the CRC is taken over
the one that was checked.

`AcceptInv` (with `SlotInv`): in each step of a download the pages before the next
one are as the stream brought them and the rest of their erase block is erased
(`Writing`: `Written`, `Ahead`), so when the source runs dry all of it has landed
(`Landed`). That is soundness' half: a sealed image that came whole is in the slot
word for word, and what `StampAs` wrote is what `check_slot` computes. The other
half cannot assume a download that ended well, for `verify` reads what any number
of interrupted ones left. It needs `FirstBlock`: whatever happened, every word of
the first erase block is erased or one single source's, because every download
erases that block before it programs any of it. Both CRCs lie there; so a slot
whose CRCs agree has them from one stamped image (`CrcSource`), and they fix the
length, the vectors and the body (`CrcsAgree`). With the two CRCs in different
erase blocks the theorem would be false: a download cut between the blocks would
leave the vectors of one sealed image with the body of another. The two halves
together are `VerdictIsContent`: `check_slot` says ok exactly when the slot holds
a sealed image that fits, whoever left it there (`SealedReads` for what it reads
of such a slot, `CrcAccepts` for what agreeing CRCs prove).

`LinkInv`: a behaviour has one BeginUpdate, and the invariant goes by what has
become of it: not sent yet (`Quiet`), on its way or half decoded (`Pending`), in
BOOT's hands (`InHand`), or answered (`Outcome`). While it is pending or being
acted on the host waits and no Ready is about (`Announced`), so a Ready is only
ever the answer to it and is said once (`Readies`), and nothing but its delimiter
can be behind it in the line (`Alone`), which is why the flush behind the Ready
costs no frame. A host whose write fails has given up before the end of the body
(`sent < BodyLen`), so what it concludes is right as well. A BOOT that streams
finds only the body on its way, and what it has taken and what is on its way is no
more than was sent (`Streaming`). `Smooth` is what holds of an exchange that
nothing disturbed: whoever waits for the outcome of a body that is not installed
has a BOOT in front of it that still streams, or one that holds the link open with
the report unread; so silence means installed. The proof has a lemma per branch of
each action.

`RingInv`: the ring and the FIFO are one queue in ascending order, ahead of the
byte that was read (`Ordered`); there is one mark in the FIFO at most, behind a
FIFO that was full, and behind it only what came during the handler's run
(`Marks`); a loss whose mark is in the FIFO came after all that is in front of the
mark, one the handler knows of is in the flag (`Losses`); one in STATUS has been
overtaken by one byte at most (`Late`); an echo is in the FIFO only until the
interrupt that unmasking raises has drained it (`Echoes`).

`BenchInv`: at each step a tool has left, what holds of the part (`Place`): which
heads are written relative to the active bank, and that the core is halted from
the first write to the release, so no firmware comes in between. A run that is
cut short leaves a whole page in the backup, which is kept before the erase, or the
torn file of a save that was cut itself (`Survives`). From the reset of a provision
on, what is latched is what the page held at that reset, unless something has failed
since the run began; the three comparisons turn that into `VerifiedIsLatched`.

Each step lemma (`SoundStep`, `BudgetStep`, `FlagsStep`, `RunsStep`, and the
steps of the other modules) has one case per action; the cases of the device
that write use the lemmas on torn and failed writes in `BootRecord_proofs`
(`TornTypes`, `ReadIsSealed`, `SealReads`) and `PrefixRead`; `SumStep` says that
no step leaves a checksum of a record nobody held, and `DispositionMeans` what
each disposition says of the record.

Only model-checked: the liveness properties (`Settles`, `TrialEnds`,
`BackInService`), for liveness under fairness and `ENABLED` are out of the prover's
reach. So is induction over data, which no theorem needs: a stream lands page by
page, by the induction over steps that an invariant is. The five runs that end in
a violation state what is false.

## 5. Assumptions and what is left out

- A CRC never matches a record or an image it was not computed for.
- The spin bound of `wait_write_complete` is long enough that running out means
  no write is on its way. BUSY is left out: it may read clear in that window.
- A quad word, a record word and `BKSWRST` are atomic under power loss; a quad word
  may still be too weak to survive the next reset (Bench).
- In Bootloader and Device `Boot::new` passes: the fuses are what the build
  expects (Slot parks the part whose fuses it refuses, Bench writes the fuses).
- A debugger that fails to reset lets the core run on only outside a store write.
- UpdateLink: a reset of BOOT makes silence ambiguous, and so does a flash that
  fails while the host is still writing (the rest of the body ends the hold of the
  link and the report is wiped: `link_report_lost`). The promises about silence and
  about where a body goes are stated for exchanges without either (`Undisturbed`);
  the version that answers and a refusal are right in all of them.
- UpdateLink: a write over RTT fails when the block it goes to has vanished; a ring
  that stays full for 30 s, and a probe error in the middle of an exchange, are left
  out. A host that stalls in mid-body is too: the byte timeout is guarded. A store
  that cannot be read, and an unconfirmed trial that an update is put on top of, are
  Device's.
- RxRing: at most one byte arrives during one run of the handler (87 us a byte at
  115200 baud against some tens of instructions at 48 MHz). A handler held up for
  two byte times, by a stall of the flash it is fetched from for instance, is not
  covered: it puts more than one byte from behind a gap into the ring before its
  next run reports the loss. Parity is off in the build; framing errors (noise on the
  line) are left out. IBON = 0 is modelled as the part's data sheet describes it.
- Bench: nothing in the workspace sets STATUS.BPDIS, which would send `flash` the
  direct way (`flash.rs:67`).
- Handler and foreground share one core. A publication is one step; a RAM scan
  may find nothing or the live block.
- probe-rs halts the core for a flash download and verifies what it wrote.
- Not modelled: the rollback word (nothing writes it), `NoStore`, GetBanks,
  Reset and Reject as messages, the log channel, COBS and postcard byte by byte,
  the version field of a manifest, `build.rs` and `boot_info` (linker scripts and
  strings), command lines, ELF conversion, dry runs and reports, pin and clock
  setup: none of these changes state another part reads.

Observations that no sentence of the documentation contradicts: a torn `reject`
or `confirm` reads as a fresh record, under which the image on trial is steady;
a pending promotion outranks a pending update request and costs the request one
boot; provisioning a blank page without `--sblk` keeps the reserved SBLK 15,
with which BOOT parks; a `BKSWRST` that is refused goes unnoticed by `swap`, and
`flash` then ends with the other bank active, or fails its read-back; a `flash`
that fails between its first swap and `release` leaves the core halted.

## 6. Plan

Written, in this order: the record and the device (the core), the stores, the
update link over both transports, the receive path, the bench tools, the slot,
and the proofs about each. Every safety property that a passing run checks is
stated by a theorem. What is left:

1. **Composition**: UpdateLink's abstract BOOT replaced by Bootloader's, so that
   a verdict is about the record and the flash and not about `running`; Slot as
   the implementation of Bootloader's `Burn` (`Whole` is `VerdictIsContent`), a
   refinement whose step lemmas `PageLands` and `FirstBlockLands` would carry.
2. **Liveness**: what the safety proofs give of it without fairness, such as a
   bound on the swaps between two boots that serve something.
