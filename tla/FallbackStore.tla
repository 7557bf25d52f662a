---------------------------- MODULE FallbackStore -----------------------------
(***************************************************************************)
(* Fallback<SmartEepromStore, BkupRamStore> of src/src/persist.rs: a store *)
(* that writes to backup RAM what its primary refuses, and reads backup    *)
(* RAM first.                                                              *)
(*                                                                         *)
(* The records written here carry the number of the write in boot_count,   *)
(* so that older and newer can be told apart.                              *)
(***************************************************************************)
EXTENDS SmartEeprom

CONSTANTS
    MaxWrites,     \* bound on the writes of a behaviour
    MaxFaults      \* bound on its resets, power cuts and lock changes

ASSUME FallbackAssumption ==
    /\ MaxWrites \in 0 .. U8Max
    /\ MaxFaults \in Nat

VARIABLES
    spare,         \* the words in backup RAM
    spareTarget,   \* the words write_volatile is storing there
    spareLeft,     \* the words it has yet to store, in whatever order
    call,          \* where Fallback::write_raw is
    want,          \* the record it was given
    version,       \* the number of writes so far
    faults,        \* faults so far
    (* history *)
    settled,       \* the last write returned, and nothing was lost since
    floor          \* the last write that returned since power came on

backup   == <<spare, spareTarget, spareLeft>>
progress == <<version, faults, settled, floor>>
vars     == <<see, backup, call, want, progress>>

WordNames == {"state", "mail", "sum"}

Init ==
    /\ SeeInit
    /\ spare = BlankStore /\ spareTarget = BlankStore /\ spareLeft = {}
    /\ call = "idle" /\ want = DefaultRecord
    /\ version = 0 /\ faults = 0 /\ settled = FALSE /\ floor = 0

Fault == faults < MaxFaults /\ faults' = faults + 1

-----------------------------------------------------------------------------
(* read_raw and write_raw. *)

\* The record a reader gets: the spare's when it is sealed, else the primary's.
Read == IF Validated(spare) THEN Spelled(spare) ELSE ReadRecord(cells)

PutSpare(w) == spareTarget' = w /\ spareLeft' = WordNames /\ UNCHANGED spare

\* Mutant of Begin: the spare is left as it is.
BeginKeepingSpare(r) ==
    /\ call = "idle" /\ version < MaxWrites
    /\ call' = "clear" /\ want' = r /\ version' = version + 1
    /\ settled' = FALSE
    /\ UNCHANGED <<see, backup, faults, floor>>

\* The spare is cleared first, with a record that is not sealed.
Begin(r) ==
    /\ call = "idle" /\ version < MaxWrites
    /\ call' = "clear" /\ want' = r /\ version' = version + 1
    /\ settled' = FALSE
    /\ PutSpare(BlankStore)
    /\ UNCHANGED <<see, faults, floor>>

SpareWord(n) ==
    /\ n \in spareLeft
    /\ spare' = [spare EXCEPT ![n] = spareTarget[n]]
    /\ spareLeft' = spareLeft \ {n}
    /\ UNCHANGED <<see, spareTarget, call, want, progress>>

TryPrimary ==
    /\ call = "clear" /\ spareLeft = {}
    /\ Call(Seal(want))
    /\ call' = "primary"
    /\ UNCHANGED <<backup, want, progress>>

PrimaryStep ==
    /\ SeeWriteStep
    /\ UNCHANGED <<backup, call, want, progress>>

Done ==
    /\ call' = "idle" /\ settled' = TRUE /\ floor' = version
    /\ UNCHANGED <<want, version, faults>>

PrimaryLands ==
    /\ AllWritten
    /\ Done
    /\ UNCHANGED backup

\* Mutant of PrimaryRefuses: the failure is returned, not covered for.
PrimaryRefusalDropped ==
    /\ ReadBackDiffers
    /\ Done
    /\ UNCHANGED backup

PrimaryRefuses ==
    /\ ReadBackDiffers
    /\ call' = "spare" /\ PutSpare(Seal(want))
    /\ UNCHANGED <<want, progress>>

SpareLands ==
    /\ call = "spare" /\ spareLeft = {}
    /\ Done
    /\ UNCHANGED <<see, backup>>

-----------------------------------------------------------------------------
(* The rest of the part. *)

Controller ==
    /\ Journal
    /\ UNCHANGED <<backup, call, want, progress>>

Wear ==
    /\ Fault
    /\ ToggleLock
    /\ UNCHANGED <<backup, call, want, version, settled, floor>>

\* Backup RAM keeps what it holds.
ResetPart ==
    /\ Fault
    /\ SeeReset
    /\ call' = "idle" /\ spareLeft' = {}
    /\ UNCHANGED <<spare, spareTarget, want, version, settled, floor>>

\* Backup RAM is lost, and with it every write the primary refused.
PowerCut ==
    /\ Fault
    /\ SeeReset
    /\ call' = "idle" /\ spareLeft' = {} /\ spare' = BlankStore
    /\ settled' = (settled /\ ~Validated(spare))
    /\ floor' = 0
    /\ UNCHANGED <<spareTarget, want, version>>

\* Records that differ from one write to the next, in the mailbox or not.
Next ==
    \/ \E on \in BOOLEAN : Begin(SetRequest(SetCount(DefaultRecord, version + 1), on))
    \/ \E n \in WordNames : SpareWord(n)
    \/ TryPrimary \/ PrimaryStep \/ PrimaryLands \/ PrimaryRefuses \/ SpareLands
    \/ Controller \/ Wear \/ ResetPart \/ PowerCut

Spec == Init /\ [][Next]_vars

-----------------------------------------------------------------------------

\* SmartEepromStore keeps the contract the bootloader builds on: a write that
\* returns Ok is in the journal to its last word, one that is refused or cut
\* short leaves old words and new ones, and no other words ever appear.
PrimaryKeepsContract == Contract!Spec

\* A write that returned is what a reader finds, whichever store took it and
\* whatever reset follows, short of a power cut that takes the spare.
WriteSticks == settled => Read = want

\* A sealed spare is newer than a sealed primary: it is cleared before the
\* primary is written, so that no reset finds it older and believes it.
SpareIsNewer ==
    (Validated(spare) /\ Validated(cells)) =>
        spare.state.count > cells.state.count

\* "One that fails goes to `spare` instead, which is then the authority until a
\* primary write lands again or the spare itself is lost" (persist.rs,
\* Fallback): a reader never finds a record older than the last write that
\* returned.
SpareIsAuthority ==
    call = "idle" => Read = DefaultRecord \/ Read.state.count >= floor

=============================================================================
