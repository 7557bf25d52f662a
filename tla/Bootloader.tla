------------------------------ MODULE Bootloader ------------------------------
(***************************************************************************)
(* The bootloader state machine of src/src/boot.rs on a dual-bank part,    *)
(* driven by the download loop of the update rig's BOOT binary             *)
(* (src/examples/update-rig/boot/src/main.rs).                             *)
(*                                                                         *)
(* BOOT is sequential, and everything between two of its steps that        *)
(* outlive a reset (a store write, a block burnt, the bank swap) is one    *)
(* action here, so that a reset or a power cut can fall between any two of *)
(* them.  A store write is an action of its own, `commit': the code that   *)
(* asked for it is named by `goal', which says where control goes when the *)
(* write lands and when it fails.                                          *)
(***************************************************************************)
EXTENDS BootRecord

CONSTANTS
    Images,        \* stamped application images a host may send
    Blank,         \* content of a block that belongs to no stamped image
    NBlocks,       \* erase blocks of the app region (bound; 120 on a J20A)
    ImageLen,      \* [Images -> length in blocks]
    MaxAttempts,   \* BootConfig::max_boot_attempts
    Retained,      \* TRUE: SmartEEPROM.  FALSE: backup RAM, lost with power
    ReadFaults,    \* TRUE: a store whose read can fail (neither in-tree one)
    Debugged,      \* TRUE: a bench may set the update request by debugger
    MaxFaults      \* bound on the faults of a behaviour

ASSUME BootloaderAssumption ==
    /\ NBlocks \in Nat \ {0}
    /\ ImageLen \in [Images -> Nat \ {0}]
    /\ Blank \notin Images
    /\ MaxAttempts \in 0 .. U8Max
    /\ Retained \in BOOLEAN
    /\ ReadFaults \in BOOLEAN /\ Debugged \in BOOLEAN
    /\ MaxFaults \in Nat

VARIABLES
    (* survive a reset *)
    firstBank,     \* the bank mapped at the base of flash: the active one
    flash,         \* flash[b][k]: whose k-th block bank b holds
    store,         \* the words of the boot record's store
    (* lost by a reset *)
    pc,            \* where the core is
    goal,          \* what the pending store write is for
    work,          \* the record in RAM that is being amended and written
    incoming,      \* the image being streamed in and its next block
    trialWdt,      \* the trial watchdog is running
    (* the environment *)
    worn,          \* the store no longer takes writes
    faults,        \* faults so far
    (* history, read by no action *)
    vouched,       \* vouched[b]: the image in b called confirm
    disowned,      \* disowned[b]: the image in b called reject
    served,        \* served[b]: trial boots of the image in b
    decayed,       \* banks whose content rotted since they were written
    blind          \* the core has gone by a record other than the stored one

device  == <<firstBank, flash, store>>
core    == <<pc, goal, work, incoming, trialWdt>>
history == <<vouched, disowned, served, decayed, blind>>
vars    == <<device, core, worn, faults, history>>

Phases  == {"boot", "commit", "listen", "receive", "swap", "app"}
AppGoals  == {"confirm", "reject", "request"}
BootGoals == {"clearRequest", "condemn", "recordTrial", "revert", "promote", "countTrial"}
Goals   == AppGoals \cup BootGoals \cup {"none"}

Inactive  == Other(firstBank)
Blocks    == 1 .. NBlocks
Nothing   == [img |-> Blank, next |-> 1]

\* A power cut, an unexpected reset, a failed command, a rotten block.
Fault == faults < MaxFaults /\ faults' = faults + 1

-----------------------------------------------------------------------------
(* What the bootloader reads and decides. *)

\* check_slot: the magic, length and CRCs of the manifest agree with what the
\* slot holds, which they do when it holds the whole of some stamped image.
Whole(b) == \E i \in Images : ImageLen[i] <= NBlocks /\ \A k \in 1 .. ImageLen[i] : flash[b][k] = i

VerifyPasses(b) == Whole(b) /\ UNCHANGED faults

\* The image is not whole, or the DSU could not run the CRC.
VerifyFails(b) == IF Whole(b) THEN Fault ELSE UNCHANGED faults

Disposition(r) ==
    LET active   == r.state.bank[firstBank]
        inactive == r.state.bank[Inactive]
    IN  IF inactive = "New"                             THEN "ResumeInstall"
        ELSE IF r.mail.rejected                         THEN "Reject"
        ELSE IF active = "New" /\ r.mail.confirmed      THEN "Promote"
        ELSE IF r.mail.request                          THEN "UpdateRequested"
        ELSE IF active = "New"
             THEN IF SaturatingInc(r.state.count) > MaxAttempts
                  THEN "TrialExhausted" ELSE "Trial"
        ELSE IF active # "Invalid"                      THEN "SteadyBoot"
        ELSE IF inactive = "Valid"                      THEN "Rollback"
        ELSE "NoImage"

-----------------------------------------------------------------------------
(* Moves of the core that every handler is made of. *)

\* Volatile state as a reset leaves it.
Reset ==
    /\ pc' = "boot" /\ goal' = "none" /\ work' = DefaultRecord
    /\ incoming' = Nothing /\ trialWdt' = FALSE

Goto(phase) ==
    /\ pc' = phase /\ goal' = "none" /\ work' = DefaultRecord
    /\ incoming' = Nothing /\ UNCHANGED <<trialWdt, device>>

\* Ask the store to write r; WriteLands and WriteFails finish the call.
Commit(g, r) ==
    /\ pc' = "commit" /\ goal' = g /\ work' = r
    /\ UNCHANGED <<incoming, trialWdt, device>>

Revert(r, why) == Commit("revert", SetReason(SetBank(r, firstBank, "Invalid"), why))

FallBack(r, why) ==
    IF r.state.bank[Inactive] = "Valid" THEN Revert(r, why) ELSE Goto("listen")

Jump == Goto("app")

-----------------------------------------------------------------------------
(* boot_or_enter_download: one action per arm.  r is the record it read. *)

UpdateRequested(r) ==
    /\ Disposition(r) = "UpdateRequested"
    /\ Commit("clearRequest", SetRequest(r, FALSE)) /\ UNCHANGED faults

ResumeOrRollback(r) ==
    /\ Disposition(r) \in {"ResumeInstall", "Rollback"}
    /\ Goto("swap") /\ UNCHANGED faults

\* Mutant of NoImage: with nothing to roll back to, boot what is there.
NoImageBootsAnyway(r) ==
    /\ Disposition(r) = "NoImage"
    /\ Goto("app") /\ UNCHANGED faults

NoImage(r) ==
    /\ Disposition(r) = "NoImage"
    /\ Goto("listen") /\ UNCHANGED faults

\* Mutant of Reject: the flag goes with the record into the other bank.
RejectKeepingFlag(r) ==
    /\ Disposition(r) = "Reject"
    /\ Revert(r, "AppRejected") /\ UNCHANGED faults

Reject(r) ==
    /\ Disposition(r) = "Reject"
    /\ Revert(SetRejected(r, FALSE), "AppRejected") /\ UNCHANGED faults

\* Mutant of Promoted: the whole mailbox is cleared, not the confirmation alone.
PromotedWithEmptyMail(r) ==
    [SetReason(SetCount(SetBank(r, firstBank, "Valid"), 0), "None")
        EXCEPT !.mail = DefaultRecord.mail]

Promoted(r) ==
    SetConfirmed(SetReason(SetCount(SetBank(r, firstBank, "Valid"), 0), "None"), FALSE)

Promote(r) ==
    /\ Disposition(r) = "Promote"
    /\ \/ VerifyPasses(firstBank) /\ Commit("promote", Promoted(r))
       \/ VerifyFails(firstBank) /\ FallBack(r, "VerifyFailed")

SteadyBoot(r) ==
    /\ Disposition(r) = "SteadyBoot"
    /\ \/ VerifyPasses(firstBank) /\ Jump
       \/ VerifyFails(firstBank) /\ FallBack(r, "VerifyFailed")

TrialExhausted(r) ==
    /\ Disposition(r) = "TrialExhausted"
    /\ Revert(r, "AttemptsExhausted") /\ UNCHANGED faults

\* Mutant of Trial: the boot is not counted.
TrialUncounted(r) ==
    /\ Disposition(r) = "Trial"
    /\ \/ VerifyPasses(firstBank) /\ Commit("countTrial", r)
       \/ VerifyFails(firstBank) /\ Revert(r, "VerifyFailed")

Trial(r) ==
    /\ Disposition(r) = "Trial"
    /\ \/ VerifyPasses(firstBank) /\ Commit("countTrial", SetCount(r, SaturatingInc(r.state.count)))
       \/ VerifyFails(firstBank) /\ Revert(r, "VerifyFailed")

BootOrEnterDownload ==
    LET r == ReadRecord(store)
    IN  /\ pc = "boot"
        /\ \/ UpdateRequested(r) \/ ResumeOrRollback(r) \/ NoImage(r) \/ Reject(r)
           \/ Promote(r) \/ SteadyBoot(r) \/ TrialExhausted(r) \/ Trial(r)
        /\ UNCHANGED <<worn, history>>

\* The store cannot be read: boot as if the record were the fresh default.
BootUnreadable ==
    /\ pc = "boot" /\ ReadFaults
    /\ Fault
    /\ IF Whole(firstBank) THEN Jump ELSE Goto("listen")
    /\ blind' = TRUE
    /\ UNCHANGED <<worn, vouched, disowned, served, decayed>>

-----------------------------------------------------------------------------
(* Download mode: the rig's listen loop and Boot::install. *)

\* Mutant of BeginInstall: the bank is not condemned before it is erased.
BeginUncondemned(i) ==
    /\ pc = "listen" /\ ImageLen[i] <= NBlocks
    /\ pc' = "commit" /\ goal' = "condemn"
    /\ work' = ReadRecord(store) /\ UNCHANGED faults
    /\ incoming' = [img |-> i, next |-> 1]
    /\ UNCHANGED <<trialWdt, device, worn, history>>

\* Condemn the inactive bank before the host is told to stream.
BeginInstall(i) ==
    /\ pc = "listen" /\ ImageLen[i] <= NBlocks
    /\ pc' = "commit" /\ goal' = "condemn"
    /\ \/ /\ work' = SetBank(ReadRecord(store), Inactive, "Invalid")
          /\ UNCHANGED <<faults, blind>>
       \/ /\ ReadFaults /\ Fault     \* read().unwrap_or_default()
          /\ work' = SetBank(DefaultRecord, Inactive, "Invalid")
          /\ blind' = TRUE
    /\ incoming' = [img |-> i, next |-> 1]
    /\ UNCHANGED <<trialWdt, device, worn, vouched, disowned, served, decayed>>

\* An image that cannot fit is refused before anything is condemned or erased.
RefuseTooLarge(i) ==
    /\ pc = "listen" /\ ImageLen[i] > NBlocks
    /\ Goto("boot")
    /\ UNCHANGED <<worn, faults, history>>

\* Block `next' of the inactive bank now holds c: whatever was said of the
\* image that was there is history.
Burn(c) ==
    /\ flash' = [flash EXCEPT ![Inactive][incoming.next] = c]
    /\ vouched' = [vouched EXCEPT ![Inactive] = FALSE]
    /\ disowned' = [disowned EXCEPT ![Inactive] = FALSE]
    /\ decayed' = decayed \ {Inactive}
    /\ UNCHANGED <<firstBank, store, trialWdt, worn, served, blind>>

\* A block of the stream is due, inside the region FlashWriter was given.
BlockDue == pc = "receive" /\ incoming.next \in Blocks /\ incoming.next <= ImageLen[incoming.img]

\* One block of the stream: erased ahead, then burnt with what arrived, which
\* is the image's block or, after a wire error or a short tail, no image's.
BurnBlock(c) ==
    /\ BlockDue
    /\ Burn(c)
    /\ incoming' = [incoming EXCEPT !.next = @ + 1]
    /\ UNCHANGED <<pc, goal, work, faults>>

\* An erase or program command fails, before or after the block is lost.
FlashFails ==
    /\ BlockDue
    /\ Fault
    /\ \E c \in {flash[Inactive][incoming.next], Blank} : Burn(c)
    /\ pc' = "boot" /\ goal' = "none" /\ work' = DefaultRecord /\ incoming' = Nothing

\* The stream is complete or was cut short (ImageStream's byte timeout).  The
\* slot is read back, but only when something was delivered: a stream that
\* delivered nothing leaves in the bank the image that was there before.
Delivered == incoming.next > 1

\* Mutant of TrialRecord: the outgoing image's confirmation is kept.
TrialRecordKeepingFlags(r) == SetCount(MarkNew(r, Inactive), 0)

TrialRecord(r) ==
    SetRejected(SetConfirmed(SetCount(MarkNew(r, Inactive), 0), FALSE), FALSE)

EndStream ==
    /\ pc = "receive"
    /\ \/ /\ Delivered /\ VerifyPasses(Inactive)
          /\ Commit("recordTrial", TrialRecord(work))
          /\ served' = [served EXCEPT ![Inactive] = 0]
       \/ /\ \/ ~Delivered /\ UNCHANGED faults
             \/ Delivered /\ VerifyFails(Inactive)
          /\ Goto("boot") /\ UNCHANGED served
    /\ UNCHANGED <<worn, vouched, disowned, decayed, blind>>

\* BKSWRST: one commit point, and a reset.
SwapReboot ==
    /\ pc = "swap"
    /\ firstBank' = Inactive
    /\ Reset
    /\ UNCHANGED <<flash, store, worn, faults, history>>

-----------------------------------------------------------------------------
(* The two ways a store write ends. *)

AfterWrite(g) ==
    IF g \in {"revert", "recordTrial"} THEN "swap"
    ELSE IF g = "condemn" THEN "receive"
    ELSE IF g = "clearRequest" THEN "listen"
    ELSE "app"

\* Mutant of AfterError: BOOT starts over, to try the revert again.
RetryAfterError(g) ==
    IF g \in AppGoals THEN "app" ELSE IF g \in {"condemn", "recordTrial", "revert"} THEN "boot"
    ELSE "listen"

AfterError(g) ==
    IF g \in {"condemn", "recordTrial"} THEN "boot"
    ELSE IF g \in AppGoals THEN "app"
    ELSE "listen"

\* Mutant of WdtAfterWrite: the trial watchdog is never started.
WdtNeverStarted(g) == IF g = "confirm" THEN FALSE ELSE trialWdt

\* boot_trial starts the watchdog once the count is stored; confirm hands it
\* over once the flag is stored.
WdtAfterWrite(g) ==
    IF g = "countTrial" THEN TRUE ELSE IF g = "confirm" THEN FALSE ELSE trialWdt

\* A worn store still reports success for a record it already holds, whose
\* words it skips.
WriteLands ==
    /\ pc = "commit"
    /\ worn => store = Seal(work)
    /\ store' = Seal(work)
    /\ pc' = AfterWrite(goal)
    /\ goal' = "none"
    /\ trialWdt' = WdtAfterWrite(goal)
    /\ IF goal = "condemn" THEN UNCHANGED <<work, incoming>>
       ELSE work' = DefaultRecord /\ incoming' = Nothing
    /\ served' = IF goal = "countTrial" THEN [served EXCEPT ![firstBank] = @ + 1] ELSE served
    /\ UNCHANGED <<firstBank, flash, worn, faults, vouched, disowned, decayed, blind>>

\* A word reads back wrong: the words before it have changed already.
WriteFails ==
    /\ pc = "commit" /\ store # Seal(work)
    /\ IF worn THEN UNCHANGED faults ELSE Fault
    /\ store' \in Prefixes(store, Seal(work))
    /\ pc' = AfterError(goal) /\ goal' = "none"
    /\ work' = DefaultRecord /\ incoming' = Nothing
    /\ UNCHANGED <<firstBank, flash, trialWdt, worn, history>>

BootStep == BootOrEnterDownload \/ WriteLands \/ WriteFails \/ SwapReboot

ReceiveStep ==
    \/ \E c \in {incoming.img, Blank} : BurnBlock(c)
    \/ EndStream
    \/ FlashFails

HostStep == \E i \in Images : BeginInstall(i) \/ RefuseTooLarge(i)

=============================================================================
