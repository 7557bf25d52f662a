-------------------------------- MODULE Bench --------------------------------
(***************************************************************************)
(* The bench tools of src/samd5-boot-tools/: `provision' rewrites the user *)
(* page (provision.rs) and `flash' places BOOT at the head of both banks   *)
(* (flash.rs), through a debug session (probe.rs) on a part whose own      *)
(* bootloader runs whenever the core is let go.                            *)
(*                                                                         *)
(* A tool is the sequence of steps it has left (todo); its first one is    *)
(* what it does next, and any of them may fail.  The fuses sit in the      *)
(* first quad word of the user page; other quad words hold what the tools  *)
(* do not name.  Dry runs and reports are left out.                        *)
(***************************************************************************)
EXTENDS Integers, Sequences, FiniteSets

CONSTANTS
    NQuads,        \* quad words of the user page (bound; 32)
    MaxFaults      \* bound on what goes wrong in a behaviour

ASSUME BenchAssumption ==
    /\ NQuads \in Nat \ {0}
    /\ MaxFaults \in Nat

VARIABLES
    (* the part *)
    user,          \* the user page
    latch,         \* the fuses NVMCTRL latched at the last reset
    head,          \* head[b]: what is at the head of bank b
    active,        \* the bank mapped at the base of flash
    invalid,       \* the bank the boot record calls Invalid
    core,          \* the core runs or is halted
    booting,       \* BOOT has not run since the last reset
    catch,         \* the reset vector catch is armed
    (* the bench *)
    todo,          \* the steps the running tool has left
    quad,          \* the quad word write_page is at
    want,          \* the page provision writes
    lockBoot,      \* its fuses were asked to lock BOOT
    file,          \* userpage-<chip>.bak: none, whole, or written in part
    backup,        \* the page in it, when it is whole
    result,        \* what the last tool reported
    (* history *)
    from,          \* the bank that was active at flash's first write
    since,         \* the faults there had been when provision began
    faults         \* faults so far

part  == <<user, latch, head, active, invalid, core, booting, catch>>
run   == <<quad, want, lockBoot, since, result, from>>
tool  == <<todo, run>>
kept  == <<file, backup>>
vars  == <<part, tool, kept, faults>>

Banks == {"A", "B"}
Other(b) == IF b = "A" THEN "B" ELSE "A"

Fuses == [prot : BOOLEAN, lock : BOOLEAN, sblk : {"none", "some", "reserved"}]
Rest  == [1 .. NQuads - 1 -> {"data", "erased"}]
Page  == [fuses : Fuses, rest : Rest]

ErasedPage ==
    [fuses |-> [prot |-> FALSE, lock |-> FALSE, sblk |-> "reserved"],
     rest  |-> [q \in 1 .. NQuads - 1 |-> "erased"]]

FactoryPage ==
    [fuses |-> [prot |-> FALSE, lock |-> FALSE, sblk |-> "none"],
     rest  |-> [q \in 1 .. NQuads - 1 |-> "data"]]

Fault == faults < MaxFaults /\ faults' = faults + 1

Running(step) == todo # <<>> /\ Head(todo) = step

\* The tool is through, and says so.
Finish(outcome) ==
    /\ todo' = <<>> /\ result' = outcome
    /\ quad' = 0 /\ want' = ErasedPage /\ lockBoot' = FALSE /\ since' = 0 /\ from' = "none"

Advance == todo' = Tail(todo) /\ UNCHANGED run

-----------------------------------------------------------------------------
(* Provision. *)

\* Mutant of Plan: a block count that was not given is written all the same.
PlanEveryField(page, lock, sblk) ==
    [page EXCEPT !.fuses = [prot |-> TRUE, lock |-> lock, sblk |-> sblk]]

\* What the fuses asked for make of the page that is there.
Plan(page, lock, sblk) ==
    [page EXCEPT !.fuses = [prot |-> TRUE, lock |-> lock,
                            sblk |-> IF sblk = "keep" THEN page.fuses.sblk ELSE sblk]]

ProvisionSteps == <<"save", "erase", "quads", "compare", "reset", "reread", "latched">>

\* A page that is there already is left alone.
Provision(page, lock) ==
    /\ todo = <<>>
    /\ IF page = user
       THEN Finish("unchanged") /\ core' = "run"
       ELSE /\ todo' = ProvisionSteps /\ core' = "halted"
            /\ want' = page /\ lockBoot' = lock /\ since' = faults
            /\ quad' = 0 /\ result' = "none" /\ from' = "none"
    /\ UNCHANGED <<user, latch, head, active, invalid, booting, catch, kept, faults>>

ProvisionFuses ==
    \E lock \in BOOLEAN, sblk \in {"keep", "some"} : Provision(Plan(user, lock, sblk), lock)

\* A file that does not have the length of a page is refused.
Restore ==
    \/ file = "whole" /\ Provision(backup, FALSE)
    \/ /\ file = "torn" /\ todo = <<>>
       /\ Finish("error") /\ core' = "run"
       /\ UNCHANGED <<user, latch, head, active, invalid, booting, catch, kept, faults>>

\* Mutant of Saves: every run keeps the page it finds.
SavesEveryPage == user # ErasedPage

\* Kept once: neither a blank page nor a later one takes its place, and any
\* file of that name counts as kept.
Saves == file = "none" /\ user # ErasedPage

SaveBackup ==
    /\ Running("save") /\ Advance
    /\ IF Saves THEN file' = "whole" /\ backup' = user ELSE UNCHANGED kept
    /\ UNCHANGED <<part, faults>>

\* The write of the file fails part way, or the tool is killed in it.
BackupFails ==
    /\ Running("save") /\ Saves
    /\ Fault
    /\ file' = "torn" /\ Finish("error") /\ core' \in {core, "run"}
    /\ UNCHANGED <<user, latch, head, active, invalid, booting, catch, backup>>

Erase ==
    /\ Running("erase") /\ Advance
    /\ user' = ErasedPage
    /\ UNCHANGED <<latch, head, active, invalid, core, booting, catch, kept, faults>>

Put(page, q, source) ==
    IF q = 0 THEN [page EXCEPT !.fuses = source.fuses]
    ELSE [page EXCEPT !.rest[q] = source.rest[q]]

\* An erased quad word is in its final state and is skipped, which comes to
\* the same.  A page buffer that dropped the words commits what it held.
WriteQuad ==
    /\ Running("quads")
    /\ \/ user' = Put(user, quad, want) /\ UNCHANGED faults
       \/ user' = user /\ Fault
    /\ IF quad + 1 < NQuads
       THEN quad' = quad + 1 /\ UNCHANGED <<todo, want, lockBoot, since, result, from>>
       ELSE Advance
    /\ UNCHANGED <<latch, head, active, invalid, core, booting, catch, kept>>

\* The page is read back before the reset, and again after it.
ComparePage(step) ==
    /\ Running(step)
    /\ IF user = want THEN Advance /\ UNCHANGED core ELSE Finish("error") /\ core' = "run"
    /\ UNCHANGED <<user, latch, head, active, invalid, booting, catch, kept, faults>>

\* The part latches its fuses and halts.  A quad word that was programmed too
\* weakly may be lost across the reset, or the reset not reach NVMCTRL.
Reset ==
    /\ Running("reset") /\ Advance
    /\ core' = "halted" /\ catch' = FALSE
    /\ \/ UNCHANGED <<user, faults>> /\ latch' = user.fuses /\ booting' = TRUE
       \/ /\ Fault
          /\ \E q \in 0 .. NQuads - 1 : user' = Put(user, q, ErasedPage)
          /\ latch' = user'.fuses /\ booting' = TRUE
       \/ Fault /\ UNCHANGED <<user, latch, booting>>
    /\ UNCHANGED <<head, active, invalid, kept>>

\* The reset takes, but the core is not seen to halt in time.
ResetFails ==
    /\ Running("reset")
    /\ Fault
    /\ latch' = user.fuses /\ booting' = TRUE /\ catch' = TRUE
    /\ Finish("error") /\ core' = "run"
    /\ UNCHANGED <<user, head, active, invalid, kept>>

\* Mutant of LatchedAsAsked: RUNLOCK is not looked at.
LatchedProtAlone == latch.prot = want.fuses.prot

\* STATUS.BOOTPROT, and RUNLOCK when BOOT was to be locked; nothing else.
LatchedAsAsked == latch.prot = want.fuses.prot /\ (lockBoot => latch.lock)

CompareLatched ==
    /\ Running("latched")
    /\ Finish(IF LatchedAsAsked THEN "provisioned" ELSE "error") /\ core' = "run"
    /\ UNCHANGED <<user, latch, head, active, invalid, booting, catch, kept, faults>>

-----------------------------------------------------------------------------
(* Flash. *)

\* Mutant of Dance: one swap, and no way back.
DanceOneWay == <<"inactive", "swap", "rehalt", "inactive", "verify", "verify", "release">>

\* Round by the swap: BOOTPROT protects the head of the active bank.
Dance ==
    <<"inactive", "swap", "rehalt", "inactive", "swap", "rehalt", "verify", "verify", "release">>

Direct == <<"active", "inactive", "verify", "verify", "release">>

\* STATUS is read from a halted core, which then runs on until the first write.
\* Nothing in the workspace sets BPDIS, which would send it the direct way.
Flash ==
    /\ todo = <<>>
    /\ todo' = IF latch.prot THEN Dance ELSE Direct
    /\ result' = "none" /\ core' = "run"
    /\ UNCHANGED <<user, latch, head, active, invalid, booting, catch, quad, want, lockBoot, since, from, kept, faults>>

\* Region locks cover both heads, BOOTPROT the active one.
Protected(step) == latch.lock \/ (step = "active" /\ latch.prot)

HeadOf(step) == IF step = "active" THEN active ELSE Other(active)

\* download: probe-rs halts the core and verifies what it wrote.
Download(step) ==
    /\ Running(step)
    /\ core' = "halted"
    /\ IF Protected(step)
       THEN Finish("error") /\ UNCHANGED head
       ELSE /\ todo' = Tail(todo)
            /\ from' = IF from = "none" THEN active ELSE from
            /\ head' = [head EXCEPT ![HeadOf(step)] = "new"]
            /\ UNCHANGED <<quad, want, lockBoot, since, result>>
    /\ UNCHANGED <<user, latch, active, invalid, booting, catch, kept, faults>>

\* A write that fails part way leaves a torn head.
DownloadFails(step) ==
    /\ Running(step) /\ ~Protected(step)
    /\ Fault
    /\ core' = "halted" /\ Finish("error")
    /\ head' = [head EXCEPT ![HeadOf(step)] = "torn"]
    /\ UNCHANGED <<user, latch, active, invalid, booting, catch, kept>>

\* Mutant of CatchReset: the part runs from the reset.
CatchNothing == catch' = FALSE

CatchReset == catch' = TRUE

\* BKSWRST swaps and resets; when it is refused nobody is told (.ok()).
Swap ==
    /\ Running("swap") /\ Advance
    /\ CatchReset
    /\ \/ /\ active' = Other(active) /\ latch' = user.fuses /\ booting' = TRUE
          /\ core' = IF catch' THEN "halted" ELSE "run"
          /\ UNCHANGED faults
       \/ /\ Fault
          /\ core' = "halted" /\ UNCHANGED <<active, latch, booting>>
    /\ UNCHANGED <<user, head, invalid, kept>>

Rehalt ==
    /\ Running("rehalt") /\ Advance
    /\ core' = "halted" /\ catch' = FALSE
    /\ UNCHANGED <<user, latch, head, active, invalid, booting, kept, faults>>

\* Mutant of HeadMatches: the read-back is served by a stale cache.
HeadMatchesStale(b) == head[b] # "torn"

HeadMatches(b) == head[b] = "new"

\* The active head is read back first, then the inactive one.
Verify ==
    /\ Running("verify")
    /\ core' = "halted"
    /\ IF HeadMatches(IF Tail(todo) = <<"release">> THEN Other(active) ELSE active)
       THEN Advance ELSE Finish("error")
    /\ UNCHANGED <<user, latch, head, active, invalid, booting, catch, kept, faults>>

Release ==
    /\ Running("release")
    /\ catch' = FALSE /\ core' = "run" /\ Finish("flashed")
    /\ UNCHANGED <<user, latch, head, active, invalid, booting, kept, faults>>

-----------------------------------------------------------------------------
(* What goes wrong, and the part itself. *)

\* Steps during which a dropped Nvm does not let the core go, or holds none.
HoldsHalted == {"active", "inactive", "rehalt", "verify"}

\* A probe access fails, or the tool is killed.
ToolFails ==
    /\ todo # <<>>
    /\ Fault
    /\ Finish("error")
    /\ core' \in IF Head(todo) \in HoldsHalted THEN {core} ELSE {core, "run"}
    /\ UNCHANGED <<user, latch, head, active, invalid, booting, catch, kept>>

\* Power fails, and with it what the tool was doing.
PowerCut ==
    /\ Fault
    /\ latch' = user.fuses /\ core' = "run" /\ booting' = TRUE /\ catch' = FALSE
    /\ IF todo = <<>> THEN UNCHANGED tool ELSE Finish("error")
    /\ UNCHANGED <<user, head, active, invalid, kept>>

\* The firmware resets the part.
SelfReset ==
    /\ core = "run"
    /\ latch' = user.fuses /\ booting' = TRUE
    /\ core' = IF catch THEN "halted" ELSE "run"
    /\ UNCHANGED <<user, head, active, invalid, catch, tool, kept, faults>>

\* Boot::new parks on fuses it was not built for: it reads BOOTPROT in the user
\* page and the block count in SEESTAT.
BootRuns == user.fuses.prot /\ latch.sblk # "reserved" /\ head[active] # "torn"

\* BOOT runs from a reset, and swaps out of a bank recorded Invalid.
BootActs ==
    /\ core = "run" /\ booting /\ BootRuns
    /\ booting' = (active = invalid)
    /\ IF active = invalid
       THEN /\ active' = Other(active) /\ latch' = user.fuses
            /\ core' = IF catch THEN "halted" ELSE "run"
       ELSE UNCHANGED <<active, latch, core>>
    /\ UNCHANGED <<user, head, invalid, catch, tool, kept, faults>>

-----------------------------------------------------------------------------

Init ==
    /\ user \in {FactoryPage, Plan(FactoryPage, FALSE, "keep")} /\ latch = user.fuses
    /\ head \in [Banks -> {"old", "new"}]
    /\ active = "A" /\ invalid \in Banks \cup {"none"}
    /\ core = "run" /\ booting = FALSE /\ catch = FALSE
    /\ todo = <<>> /\ quad = 0 /\ want = ErasedPage
    /\ lockBoot = FALSE /\ since = 0 /\ result = "none" /\ from = "none"
    /\ file = "none" /\ backup = ErasedPage /\ faults = 0

ToolStep ==
    \/ ProvisionFuses \/ Restore \/ SaveBackup \/ Erase \/ WriteQuad
    \/ \E step \in {"compare", "reread"} : ComparePage(step)
    \/ Reset \/ CompareLatched
    \/ Flash
    \/ \E step \in {"active", "inactive"} : Download(step) \/ DownloadFails(step)
    \/ Swap \/ Rehalt \/ Verify \/ Release

Next == ToolStep \/ BackupFails \/ ResetFails \/ ToolFails \/ PowerCut \/ SelfReset \/ BootActs

Spec == Init /\ [][Next]_vars

-----------------------------------------------------------------------------

\* Every variable has its type.
TypeOK ==
    /\ user \in Page /\ latch \in Fuses /\ want \in Page
    /\ file \in {"none", "torn", "whole"} /\ backup \in Page
    /\ head \in [Banks -> {"old", "new", "torn"}]
    /\ active \in Banks /\ invalid \in Banks \cup {"none"} /\ from \in Banks \cup {"none"}
    /\ core \in {"run", "halted"} /\ booting \in BOOLEAN /\ catch \in BOOLEAN
    /\ \E n \in 0 .. Len(Dance) : todo \in
          {SubSeq(steps, n + 1, Len(steps)) : steps \in {ProvisionSteps, Dance, Direct}}
    /\ quad \in 0 .. NQuads /\ faults \in 0 .. MaxFaults
    /\ lockBoot \in BOOLEAN /\ since \in 0 .. faults
    /\ result \in {"none", "provisioned", "unchanged", "flashed", "error"}

\* flash reports success only with its BOOT at both heads (flash.rs, run), on
\* whichever of the two ways round it went.
BothHeads == result = "flashed" => \A b \in Banks : head[b] = "new"

\* Two swaps leave the same bank active as before (flash.rs): no firmware got
\* to swap between the first write and the release.  (A refused BKSWRST, which
\* swap does not notice, is a fault.)
ActiveKept ==
    [][result # "flashed" /\ result' = "flashed" /\ faults = 0 => active' = from]_vars

\* A flash of a part whose regions are not locked does not fail unless
\* something failed: the firmware of a bank recorded Invalid, which a swap lets
\* run, cannot undo it (flash.rs).
FlashGoesThrough == (result = "error" /\ todo = <<>> /\ faults = 0) => latch.lock

Complete(page) == page.fuses.sblk # "reserved" /\ page.rest = FactoryPage.rest

\* However often provisioning is cut short and tried again, what the tools do
\* not name is on the part or in the backup (provision.rs, the erase window),
\* unless the write of the backup itself was cut short: save_backup takes the
\* partial file for a backup ever after (provision.rs:354), and the erase goes on.
FusesRecoverable == Complete(user) \/ Complete(backup) \/ file = "torn"

\* provision reports "provisioned and verified" only over the page it planned,
\* with its BOOTPROT in force and, where BOOT was to be locked, its locks,
\* whether or not the reset took (provision.rs, verify and run).  The other
\* fuses it never compares: they are in force if nothing failed in that run.
VerifiedIsLatched ==
    [][result # "provisioned" /\ result' = "provisioned" =>
          /\ user' = want
          /\ latch'.prot = want.fuses.prot /\ (lockBoot => latch'.lock)
          /\ faults = since => latch' = want.fuses]_vars

-----------------------------------------------------------------------------
(* What the documentation says and the code does not do. *)

\* provision "resets and reads the fuses back, so it reports whether they
\* actually latched rather than assuming it" (README of the rig).
SuccessIsLatched ==
    [][result' = "unchanged" /\ result # "unchanged" => latch' = user'.fuses]_vars

=============================================================================
