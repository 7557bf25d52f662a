-------------------------------- MODULE Device --------------------------------
(***************************************************************************)
(* A whole part in the field: the bootloader, the application that runs    *)
(* from the active bank and talks to it through the boot record            *)
(* (src/src/client.rs), and everything that interrupts them.               *)
(***************************************************************************)
EXTENDS Bootloader

-----------------------------------------------------------------------------
(* BootClient.  Every call is a read-modify-write of the record. *)

\* Mutant of Call: confirm hands the watchdog over before the flag is stored.
CallHandingOverFirst(g, r) ==
    /\ pc = "app"
    /\ pc' = "commit" /\ goal' = g /\ work' = r
    /\ trialWdt' = (trialWdt /\ g # "confirm")
    /\ UNCHANGED <<incoming, device, worn, faults, served, decayed, blind>>

Call(g, r) ==
    /\ pc = "app"
    /\ Commit(g, r)
    /\ UNCHANGED <<worn, faults, served, decayed, blind>>

Confirm ==
    /\ Call("confirm", SetConfirmed(ReadRecord(store), TRUE))
    /\ vouched' = [vouched EXCEPT ![firstBank] = TRUE]
    /\ UNCHANGED disowned

RejectImage ==
    /\ Call("reject", SetRejected(ReadRecord(store), TRUE))
    /\ disowned' = [disowned EXCEPT ![firstBank] = TRUE]
    /\ UNCHANGED vouched

RequestUpdate ==
    /\ Call("request", SetRequest(ReadRecord(store), TRUE))
    /\ UNCHANGED <<vouched, disowned>>

\* The application resets the part (SCB::sys_reset) between two calls.
AppReset ==
    /\ pc = "app"
    /\ Reset
    /\ UNCHANGED <<device, worn, faults, history>>

-----------------------------------------------------------------------------
(* What interrupts a running core. *)

AppRunning == pc = "app" \/ (pc = "commit" /\ goal \in AppGoals)

\* A reset finds a store write anywhere between its first and its last word.
StoreAfterReset ==
    IF pc = "commit" THEN store' \in Mixes(store, Seal(work)) ELSE store' = store

\* The trial watchdog runs out on an application that did not confirm.
WatchdogBites ==
    /\ AppRunning /\ trialWdt
    /\ StoreAfterReset
    /\ Reset
    /\ UNCHANGED <<firstBank, flash, worn, faults, history>>

\* A reset from outside, at any point.
ExternalReset ==
    /\ Fault
    /\ StoreAfterReset
    /\ Reset
    /\ UNCHANGED <<firstBank, flash, worn, history>>

\* Power is lost, at any point: backup RAM goes with it.
PowerCut ==
    /\ Fault
    /\ IF Retained THEN StoreAfterReset ELSE store' = BlankStore
    /\ Reset
    /\ UNCHANGED <<firstBank, flash, worn, history>>

\* The store stops taking writes for good.
Wear ==
    /\ Fault
    /\ ~worn /\ worn' = TRUE
    /\ UNCHANGED <<device, core, history>>

\* A block of a bank rots.
Decay(b) ==
    /\ Fault
    /\ \E k \in Blocks : flash' = [flash EXCEPT ![b][k] = Blank]
    /\ decayed' = decayed \cup {b}
    /\ UNCHANGED <<firstBank, store, core, worn, vouched, disowned, served, blind>>

\* What a core that is stopped here leaves of the store.
StoreNow == IF pc = "commit" THEN Mixes(store, Seal(work)) ELSE {store}

\* provision::request_update: a bench halts the core wherever it is, reads the
\* record, sets the request in it, or in a fresh one, and writes it back word
\* by word.  Then it resets the part, or it fails and lets the core run on.
\* (A core that runs on in the middle of its own store write is left out.)
DebuggerRequest ==
    /\ Debugged /\ Fault
    /\ \E found \in StoreNow :
          LET amended == Seal(SetRequest(ReadRecord(found), TRUE))
          IN  store' \in IF worn THEN {found} ELSE {amended} \cup Prefixes(found, amended)
    /\ \/ Reset /\ UNCHANGED blind
       \/ pc # "commit" /\ UNCHANGED core /\ blind' = TRUE
    /\ UNCHANGED <<firstBank, flash, worn, vouched, disowned, served, decayed>>

-----------------------------------------------------------------------------

\* A provisioned part: BOOT in both banks, a factory image in bank A that was
\* placed there by the bench, nothing in bank B and no record.
Init ==
    /\ firstBank = "A"
    /\ \E i \in Images : /\ ImageLen[i] <= NBlocks
                         /\ flash = [b \in Banks |-> [k \in Blocks |->
                                IF b = "A" /\ k <= ImageLen[i] THEN i ELSE Blank]]
    /\ store = BlankStore
    /\ pc = "boot" /\ goal = "none" /\ work = DefaultRecord
    /\ incoming = Nothing /\ trialWdt = FALSE
    /\ worn = FALSE /\ faults = 0
    /\ vouched = [b \in Banks |-> FALSE] /\ disowned = [b \in Banks |-> FALSE]
    /\ served = [b \in Banks |-> 0] /\ decayed = {} /\ blind = FALSE

AppStep   == Confirm \/ RejectImage \/ RequestUpdate \/ AppReset
FaultStep == ExternalReset \/ PowerCut \/ Wear \/ DebuggerRequest \/ \E b \in Banks : Decay(b)

Next ==
    \/ BootStep \/ BootUnreadable
    \/ HostStep \/ ReceiveStep
    \/ AppStep \/ WatchdogBites
    \/ FaultStep

Spec == Init /\ [][Next]_vars

\* BOOT runs to its next wait, a stream ends or its byte timeout ends it, and
\* a watchdog nobody feeds bites.  Nothing makes a host or an application act.
FairSpec == Spec /\ WF_vars(BootStep) /\ WF_vars(ReceiveStep) /\ WF_vars(WatchdogBites)

-----------------------------------------------------------------------------
(* Types. *)

CoreTypes ==
    /\ pc \in Phases /\ goal \in Goals /\ work \in Record
    /\ incoming \in [img : Images \cup {Blank}, next : Nat \ {0}]
    /\ trialWdt \in BOOLEAN

\* Every variable has its type.
TypeOK ==
    /\ firstBank \in Banks
    /\ flash \in [Banks -> [Blocks -> Images \cup {Blank}]]
    /\ store \in Words
    /\ CoreTypes
    /\ worn \in BOOLEAN /\ faults \in 0 .. MaxFaults
    /\ vouched \in [Banks -> BOOLEAN] /\ disowned \in [Banks -> BOOLEAN]
    /\ served \in [Banks -> Nat] /\ decayed \in SUBSET Banks
    /\ blind \in BOOLEAN

-----------------------------------------------------------------------------
(* Safety. *)

Rec == ReadRecord(store)

\* The active bank holds an image on trial that has not confirmed.
OnTrial == Rec.state.bank[firstBank] = "New" /\ ~Rec.mail.confirmed

\* A bank the stored record calls Valid or New holds a whole image, unless it
\* rotted: fall_back, Rollback and ResumeInstall swap to such a bank without
\* verifying it.  It takes Condemned to keep this across a cut in a download.
RecordSound ==
    \A b \in Banks : Rec.state.bank[b] \in {"Valid", "New"} => Whole(b) \/ b \in decayed

\* A bank is recorded Valid only when the image now in it called confirm
\* itself: no confirmation outlives its image in the mailbox, across swaps,
\* failed writes and torn records (install clears the flag for this).  A boot
\* that could not read the record may run the outgoing image under the record
\* of an install, and its confirmation is then the new image's.
PromotedWasVouched == \A b \in Banks : Rec.state.bank[b] = "Valid" => vouched[b] \/ blind

\* At most one bank is ever New (persist.rs, mark_new): two of them would swap
\* forever, each reading as the other's interrupted install.
AtMostOneNew == \E b \in Banks : Rec.state.bank[b] # "New"

\* No image is given more trial boots than the attempt budget, whatever
\* resets, cuts and failed writes fall between counting and jumping.
TrialBudget == \A b \in Banks : served[b] <= MaxAttempts

\* An application on trial that has not confirmed runs under the watchdog,
\* through every step of confirm's changeover.
TrialIsWatched == (pc = "app" /\ OnTrial) => trialWdt \/ blind

\* A bank is condemned as rejected only if its own image called reject: the
\* flag is not carried into the bank a revert or an install swaps to.
RejectedByItself ==
    (pc = "commit" /\ goal = "revert" /\ work.state.reason = "AppRejected")
        => disowned[firstBank] \/ blind

\* The bootloader never boots an image the record condemns (persist.rs,
\* BankState::Invalid), also after a record was torn or a write failed: only a
\* core that could not read the record may.
CondemnedNeverRuns == pc = "app" => Rec.state.bank[firstBank] # "Invalid" \/ blind

\* An update request the record holds leaves it only when BOOT has chosen
\* download mode for it: a promotion, a revert, an install and a swap on the
\* way there all carry it along.  A torn or lost record is no record.
RequestKept ==
    [][(Rec.mail.request /\ ~Rec.mail.request' /\ Validated(store'))
            => (pc = "commit" /\ goal = "clearRequest") \/ blind]_vars

-----------------------------------------------------------------------------
(* Liveness. *)

\* However often a boot swaps, falls back or fails a write, it comes to rest
\* in an application or in download mode: two banks never swap to each other
\* for ever.
Settles == (pc \notin {"app", "listen"}) ~> (pc \in {"app", "listen"})

\* A trial whose image never confirms does not last: the watchdog and the
\* attempt budget take it out of service, or download mode does.
TrialEnds == (pc = "app" /\ OnTrial) ~> (pc = "listen" \/ ~OnTrial)

-----------------------------------------------------------------------------
(* What the documentation says and the code does not do. *)

\* "No single failure leaves the device unbootable" (lib.rs): download mode for
\* want of an image is reached only when every whole image is condemned.
NotStranded ==
    (pc = "listen" /\ Disposition(Rec) = "NoImage") =>
        \A b \in Banks : Rec.state.bank[b] = "Invalid" \/ ~Whole(b)

\* "A trial image that never confirms is reverted once the attempt budget or
\* the watchdog runs out" (client.rs): an image that was on trial and has not
\* confirmed since never runs without the trial watchdog.
TrialStaysTrial ==
    (pc = "app" /\ served[firstBank] > 0 /\ ~vouched[firstBank]) => trialWdt

=============================================================================
