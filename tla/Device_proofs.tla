---------------------------- MODULE Device_proofs ----------------------------
(***************************************************************************)
(* What holds of Device for every set of images, every length of the app   *)
(* region, every attempt budget and every number of faults.                *)
(***************************************************************************)
EXTENDS Device, BootRecord_proofs

-----------------------------------------------------------------------------
(* Types. *)

LEMMA InactiveType ==
    firstBank \in Banks => Inactive \in Banks /\ Inactive # firstBank /\ Other(Inactive) = firstBank
BY OtherBank DEF Inactive

LEMMA AmendedTypes ==
    ASSUME NEW r \in Record, firstBank \in Banks
    PROVE  /\ Promoted(r) \in Record
           /\ TrialRecord(r) \in Record
           /\ \A why \in Reasons :
                SetReason(SetBank(r, firstBank, "Invalid"), why) \in Record
<1>1. Inactive \in Banks
  BY InactiveType
<1>2. Promoted(r) \in Record
  <2>1. SetBank(r, firstBank, "Valid") \in Record
    BY SetBankType DEF BankStates
  <2>2. SetCount(SetBank(r, firstBank, "Valid"), 0) \in Record
    BY <2>1, SetFieldTypes, U8MaxAssumption
  <2>3. SetReason(SetCount(SetBank(r, firstBank, "Valid"), 0), "None") \in Record
    BY <2>2, SetFieldTypes DEF Reasons
  <2>4. QED
    BY <2>3, SetFieldTypes DEF Promoted
<1>3. TrialRecord(r) \in Record
  <2>1. MarkNew(r, Inactive) \in Record
    BY <1>1, MarkNewType
  <2>2. SetCount(MarkNew(r, Inactive), 0) \in Record
    BY <2>1, SetFieldTypes, U8MaxAssumption
  <2>3. SetConfirmed(SetCount(MarkNew(r, Inactive), 0), FALSE) \in Record
    BY <2>2, SetFieldTypes
  <2>4. QED
    BY <2>3, SetFieldTypes DEF TrialRecord
<1>4. \A why \in Reasons : SetReason(SetBank(r, firstBank, "Invalid"), why) \in Record
  BY SetBankType, SetFieldTypes DEF BankStates
<1>5. QED
  BY <1>2, <1>3, <1>4

LEMMA NothingType == Nothing \in [img : Images \cup {Blank}, next : Nat \ {0}]
BY DEF Nothing

\* What a reset, a change of phase and the start of a store write leave.
LEMMA MoveTypes ==
    ASSUME TypeOK
    PROVE  /\ Reset => CoreTypes'
           /\ \A p \in Phases : Goto(p) => CoreTypes' /\ UNCHANGED device
           /\ \A g \in Goals, r \in Record : Commit(g, r) => CoreTypes' /\ UNCHANGED device
<1>1. "none" \in Goals /\ "commit" \in Phases /\ "boot" \in Phases
  BY DEF Goals, Phases
<1>2. Reset => CoreTypes'
  BY <1>1, NothingType, DefaultRecordType DEF Reset, CoreTypes
<1>3. \A p \in Phases : Goto(p) => CoreTypes' /\ UNCHANGED device
  BY <1>1, NothingType, DefaultRecordType DEF TypeOK, CoreTypes, Goto, device
<1>4. \A g \in Goals, r \in Record : Commit(g, r) => CoreTypes' /\ UNCHANGED device
  BY <1>1 DEF TypeOK, CoreTypes, Commit, device
<1>5. QED
  BY <1>2, <1>3, <1>4

LEMMA FaultType == TypeOK /\ (Fault \/ UNCHANGED faults) => faults' \in 0 .. MaxFaults
BY BootloaderAssumption DEF Fault, TypeOK

\* What an arm of boot_or_enter_download may do, and on which disposition.
BootMove ==
    \/ Goto("swap") /\ Disposition(Rec) \in {"ResumeInstall", "Rollback"}
    \/ Goto("listen")
    \/ Goto("app") /\ Disposition(Rec) = "SteadyBoot"
    \/ Commit("clearRequest", SetRequest(Rec, FALSE)) /\ Disposition(Rec) = "UpdateRequested"
    \/ Commit("promote", Promoted(Rec)) /\ Disposition(Rec) = "Promote"
    \/ /\ Commit("countTrial", SetCount(Rec, SaturatingInc(Rec.state.count)))
       /\ Disposition(Rec) = "Trial"
    \/ Revert(SetRejected(Rec, FALSE), "AppRejected") /\ Disposition(Rec) = "Reject"
    \/ /\ \E why \in Reasons \ {"AppRejected"} : Revert(Rec, why)
       /\ Disposition(Rec) \in {"Promote", "SteadyBoot", "TrialExhausted", "Trial"}

LEMMA BootMoves ==
    BootOrEnterDownload =>
        pc = "boot" /\ BootMove /\ (Fault \/ UNCHANGED faults) /\ UNCHANGED <<worn, history>>
<1> SUFFICES ASSUME BootOrEnterDownload
             PROVE  BootMove /\ (Fault \/ UNCHANGED faults)
  BY DEF BootOrEnterDownload
<1> USE DEF BootMove
<1>1. /\ FallBack(Rec, "VerifyFailed")
      /\ Disposition(Rec) \in {"Promote", "SteadyBoot", "TrialExhausted", "Trial"}
      => BootMove
  BY DEF FallBack, Reasons
<1>2. {"VerifyFailed", "AttemptsExhausted"} \subseteq Reasons \ {"AppRejected"}
  BY DEF Reasons
<1>3. \A b : (VerifyPasses(b) \/ VerifyFails(b)) => (Fault \/ UNCHANGED faults)
  BY DEF VerifyPasses, VerifyFails
<1>4. CASE UpdateRequested(Rec)
  BY <1>4 DEF UpdateRequested
<1>5. CASE ResumeOrRollback(Rec)
  BY <1>5 DEF ResumeOrRollback
<1>6. CASE NoImage(Rec)
  BY <1>6 DEF NoImage
<1>7. CASE Reject(Rec)
  BY <1>7, <1>2 DEF Reject
<1>8. CASE Promote(Rec)
  BY <1>8, <1>1, <1>2, <1>3 DEF Promote
<1>9. CASE SteadyBoot(Rec)
  BY <1>9, <1>1, <1>2, <1>3 DEF SteadyBoot, Jump
<1>10. CASE TrialExhausted(Rec)
  BY <1>10, <1>2 DEF TrialExhausted
<1>11. CASE Trial(Rec)
  BY <1>11, <1>2, <1>3 DEF Trial
<1>12. QED
  BY <1>4, <1>5, <1>6, <1>7, <1>8, <1>9, <1>10, <1>11 DEF BootOrEnterDownload, Rec

LEMMA RecType == TypeOK => Rec \in Record /\ Rec \in store.sum \cup {DefaultRecord}
BY WordsTypes, ReadIsSealed DEF TypeOK, Rec

LEMMA BootTypes == TypeOK /\ BootMove => CoreTypes' /\ UNCHANGED device
<1> SUFFICES ASSUME TypeOK, BootMove
             PROVE  CoreTypes' /\ UNCHANGED device
  OBVIOUS
<1>1. Rec \in Record /\ firstBank \in Banks
  BY RecType DEF TypeOK
<1>2. \A g \in BootGoals, r \in Record : Commit(g, r) => CoreTypes' /\ UNCHANGED device
  BY MoveTypes DEF Goals
<1>3. \A p \in {"swap", "listen", "app"} : Goto(p) => CoreTypes' /\ UNCHANGED device
  BY MoveTypes DEF Phases
<1>4. SetRequest(Rec, FALSE) \in Record /\ SetRejected(Rec, FALSE) \in Record
  BY <1>1, SetFieldTypes
<1>5. SetCount(Rec, SaturatingInc(Rec.state.count)) \in Record
  BY <1>1, SetFieldTypes, SaturatingIncType DEF Record, StateWord
<1>6. \A r \in Record, why \in Reasons : Revert(r, why) => CoreTypes' /\ UNCHANGED device
  BY <1>1, <1>2, AmendedTypes DEF Revert, BootGoals
<1>7. Promoted(Rec) \in Record
  BY <1>1, AmendedTypes
<1>8. {"clearRequest", "promote", "countTrial"} \subseteq BootGoals
  BY DEF BootGoals
<1>9. QED
  BY <1>1, <1>2, <1>3, <1>4, <1>5, <1>6, <1>7, <1>8 DEF BootMove, Reasons

LEMMA InitTypes == Init => TypeOK
<1> SUFFICES ASSUME Init
             PROVE  TypeOK
  OBVIOUS
<1>1. CoreTypes
  BY NothingType, DefaultRecordType DEF Init, CoreTypes, Phases, Goals
<1>2. store \in Words
  BY WordsTypes DEF Init
<1>3. flash \in [Banks -> [Blocks -> Images \cup {Blank}]]
  BY DEF Init
<1>4. 0 \in 0 .. MaxFaults /\ "A" \in Banks
  BY BootloaderAssumption DEF Banks
<1>5. vouched \in [Banks -> BOOLEAN] /\ disowned \in [Banks -> BOOLEAN] /\ served \in [Banks -> Nat]
  BY DEF Init
<1>6. QED
  BY <1>1, <1>2, <1>3, <1>4, <1>5 DEF Init, TypeOK

\* Whatever a reset finds of a store write is words, and the checksum word is
\* the old one, the one of the record being written, or none.
LEMMA StoreResetTypes ==
    TypeOK /\ (StoreAfterReset \/ store' = BlankStore) =>
        store' \in Words /\ store'.sum \subseteq store.sum \cup {work}
<1> SUFFICES ASSUME TypeOK, StoreAfterReset \/ store' = BlankStore
             PROVE  store' \in Words /\ store'.sum \subseteq store.sum \cup {work}
  OBVIOUS
<1>1. store \in Words /\ work \in Record
  BY DEF TypeOK, CoreTypes
<1>2. CASE store' = BlankStore
  BY <1>2, WordsTypes DEF BlankStore
<1>3. CASE StoreAfterReset
  BY <1>1, <1>3, TornTypes DEF StoreAfterReset
<1>4. QED
  BY <1>2, <1>3

LEMMA BurnTypes ==
    ASSUME TypeOK, NEW c \in Images \cup {Blank}, Burn(c)
    PROVE  /\ flash' \in [Banks -> [Blocks -> Images \cup {Blank}]]
           /\ vouched' \in [Banks -> BOOLEAN] /\ disowned' \in [Banks -> BOOLEAN]
           /\ decayed' \in SUBSET Banks
           /\ UNCHANGED <<firstBank, store, trialWdt, worn, served, blind>>
BY InactiveType DEF TypeOK, Burn

\* A debugger leaves the words it found, or a record it found or none with the
\* request set in it, or a mix of the two.
Held      == store.sum \cup {work}
Requested == {SetRequest(r, TRUE) : r \in Held \cup {DefaultRecord}}

LEMMA DebuggerTypes ==
    TypeOK /\ DebuggerRequest =>
        /\ store' \in Words /\ store'.sum \subseteq Held \cup Requested
        /\ CoreTypes' /\ blind' \in BOOLEAN
        /\ UNCHANGED <<firstBank, flash, worn, vouched, disowned, served, decayed>>
        /\ Fault
        /\ Reset \/ (pc # "commit" /\ UNCHANGED core)
<1> SUFFICES ASSUME TypeOK, DebuggerRequest
             PROVE  /\ store' \in Words /\ store'.sum \subseteq Held \cup Requested
                    /\ CoreTypes' /\ blind' \in BOOLEAN
  BY DEF DebuggerRequest
<1>1. PICK found \in StoreNow :
          store' \in {found, Seal(SetRequest(ReadRecord(found), TRUE))}
                        \cup Prefixes(found, Seal(SetRequest(ReadRecord(found), TRUE)))
  BY DEF DebuggerRequest
<1>2. found \in Words /\ found.sum \subseteq Held
  <2>1. store \in Words /\ work \in Record
    BY DEF TypeOK, CoreTypes
  <2>2. \A m \in Mixes(store, Seal(work)) : m \in Words /\ m.sum \in {store.sum, {work}}
    BY <2>1, TornTypes
  <2>3. QED
    BY <1>1, <2>1, <2>2 DEF StoreNow, Held
<1> DEFINE old == ReadRecord(found)
           new == SetRequest(old, TRUE)
<1>3. old \in Record /\ old \in Held \cup {DefaultRecord}
  BY <1>2, WordsTypes, ReadIsSealed
<1>4. new \in Record /\ new \in Requested
  BY <1>3, SetFieldTypes DEF Requested
<1>5. store' \in {found, Seal(new)} \cup Prefixes(found, Seal(new))
  BY <1>1
<1> HIDE DEF old, new
<1>6. Seal(new) \in Words /\ Seal(new).sum = {new}
  BY <1>4, WordsTypes DEF Seal
<1>7. store' \in Words /\ store'.sum \in {found.sum, {new}}
  BY <1>2, <1>4, <1>5, <1>6, TornTypes
<1>8. CoreTypes' /\ blind' \in BOOLEAN
  <2>1. (Reset /\ UNCHANGED blind) \/ (UNCHANGED core /\ blind' = TRUE)
    BY DEF DebuggerRequest
  <2>2. QED
    BY <2>1, MoveTypes DEF TypeOK, CoreTypes, core
<1>9. QED
  BY <1>2, <1>4, <1>7, <1>8

\* Every step of the bootloader, the application, the host and the world
\* preserves the types.
LEMMA TypeStep == TypeOK /\ [Next]_vars => TypeOK'
<1> SUFFICES ASSUME TypeOK, [Next]_vars
             PROVE  TypeOK'
  OBVIOUS
<1>1. Rec \in Record /\ firstBank \in Banks /\ Inactive \in Banks /\ work \in Record
  BY RecType, InactiveType DEF TypeOK, CoreTypes
<1>2. CASE BootOrEnterDownload
  BY <1>2, BootMoves, BootTypes, FaultType DEF TypeOK, device, history
<1>3. CASE WriteLands
  <2>1. CoreTypes'
    <3>1. pc' \in Phases /\ goal' \in Goals /\ trialWdt' \in BOOLEAN
      BY <1>3 DEF WriteLands, AfterWrite, WdtAfterWrite, Phases, Goals, TypeOK, CoreTypes
    <3>2. work' \in Record /\ incoming' \in [img : Images \cup {Blank}, next : Nat \ {0}]
      BY <1>3, NothingType, DefaultRecordType DEF WriteLands, TypeOK, CoreTypes
    <3>3. QED
      BY <3>1, <3>2 DEF CoreTypes
  <2>2. store' \in Words
    BY <1>1, <1>3, WordsTypes DEF WriteLands
  <2>3. served' \in [Banks -> Nat]
    BY <1>1, <1>3 DEF WriteLands, TypeOK
  <2>4. QED
    BY <1>3, <2>1, <2>2, <2>3 DEF WriteLands, TypeOK
<1>4. CASE WriteFails
  <2>1. CoreTypes'
    BY <1>4, NothingType, DefaultRecordType
    DEF WriteFails, AfterError, Phases, Goals, TypeOK, CoreTypes
  <2>2. store' \in Words
    BY <1>1, <1>4, TornTypes DEF WriteFails, TypeOK
  <2>3. QED
    BY <1>4, <2>1, <2>2, FaultType DEF WriteFails, TypeOK, history
<1>5. CASE SwapReboot
  BY <1>1, <1>5, MoveTypes DEF SwapReboot, TypeOK, history
<1>6. CASE BootUnreadable
  <2>1. CoreTypes' /\ UNCHANGED device
    BY <1>6, MoveTypes DEF BootUnreadable, Jump, Phases
  <2>2. QED
    BY <1>6, <2>1, FaultType DEF BootUnreadable, TypeOK, device, history
<1>7. CASE HostStep
  <2>1. PICK i \in Images : BeginInstall(i) \/ RefuseTooLarge(i)
    BY <1>7 DEF HostStep
  <2>2. CASE BeginInstall(i)
    <3>1. work' \in {SetBank(Rec, Inactive, "Invalid"), SetBank(DefaultRecord, Inactive, "Invalid")}
      BY <2>2 DEF BeginInstall, Rec
    <3>2. work' \in Record
      BY <1>1, <3>1, SetBankType, DefaultRecordType DEF BankStates
    <3>3. CoreTypes'
      BY <2>2, <3>2 DEF BeginInstall, CoreTypes, TypeOK, Phases, Goals, BootGoals
    <3>4. QED
      BY <2>2, <3>3, FaultType DEF BeginInstall, TypeOK, device, history
  <2>3. CASE RefuseTooLarge(i)
    <3>1. CoreTypes' /\ UNCHANGED device
      BY <2>3, MoveTypes DEF RefuseTooLarge, Phases
    <3>2. QED
      BY <2>3, <3>1 DEF RefuseTooLarge, TypeOK, device, history
  <2>4. QED
    BY <2>1, <2>2, <2>3
<1>8. CASE ReceiveStep
  <2>1. ASSUME NEW c \in {incoming.img, Blank}, BurnBlock(c)
        PROVE  TypeOK'
    <3>1. c \in Images \cup {Blank}
      BY DEF TypeOK, CoreTypes
    <3>2. CoreTypes'
      BY <2>1 DEF BurnBlock, Burn, TypeOK, CoreTypes
    <3>3. QED
      BY <2>1, <3>1, <3>2, BurnTypes DEF BurnBlock, TypeOK
  <2>2. CASE EndStream
    <3>1. (Fault \/ UNCHANGED faults) /\ UNCHANGED <<worn, vouched, disowned, decayed, blind>>
      BY <2>2 DEF EndStream, VerifyPasses, VerifyFails
    <3>2. TrialRecord(work) \in Record /\ "recordTrial" \in Goals /\ "boot" \in Phases
      BY <1>1, AmendedTypes DEF Goals, BootGoals, Phases
    <3>3. CoreTypes' /\ UNCHANGED device
      BY <2>2, <3>2, MoveTypes DEF EndStream
    <3>4. served' \in [Banks -> Nat]
      BY <1>1, <2>2 DEF EndStream, TypeOK
    <3>5. QED
      BY <3>1, <3>3, <3>4, FaultType DEF TypeOK, device
  <2>3. CASE FlashFails
    <3>1. PICK c \in Images \cup {Blank} : Burn(c)
      BY <1>1, <2>3 DEF FlashFails, BlockDue, TypeOK
    <3>2. CoreTypes'
      BY <2>3, <3>1, NothingType, DefaultRecordType
      DEF FlashFails, Burn, TypeOK, CoreTypes, Phases, Goals
    <3>3. QED
      BY <2>3, <3>1, <3>2, BurnTypes, FaultType DEF FlashFails, TypeOK
  <2>4. QED
    BY <1>8, <2>1, <2>2, <2>3 DEF ReceiveStep
<1>9. CASE AppStep
  <2>1. \A g \in AppGoals, r \in Record : Call(g, r) =>
            CoreTypes' /\ UNCHANGED <<firstBank, flash, store, worn, faults, served, decayed, blind>>
    BY MoveTypes DEF Call, Goals, device
  <2>2. {"confirm", "reject", "request"} \subseteq AppGoals
    BY DEF AppGoals
  <2>3. CASE Confirm
    BY <1>1, <2>1, <2>2, <2>3, SetFieldTypes DEF Confirm, TypeOK, Rec
  <2>4. CASE RejectImage
    BY <1>1, <2>1, <2>2, <2>4, SetFieldTypes DEF RejectImage, TypeOK, Rec
  <2>5. CASE RequestUpdate
    BY <1>1, <2>1, <2>2, <2>5, SetFieldTypes DEF RequestUpdate, TypeOK, Rec
  <2>6. CASE AppReset
    BY <2>6, MoveTypes DEF AppReset, TypeOK, device, history
  <2>7. QED
    BY <1>9, <2>3, <2>4, <2>5, <2>6 DEF AppStep
<1>10. CASE WatchdogBites
  BY <1>10, MoveTypes, StoreResetTypes DEF WatchdogBites, TypeOK, history
<1>11. CASE FaultStep
  <2>1. CASE ExternalReset
    BY <2>1, MoveTypes, StoreResetTypes, FaultType DEF ExternalReset, TypeOK, history
  <2>2. CASE PowerCut
    BY <2>2, MoveTypes, StoreResetTypes, FaultType DEF PowerCut, TypeOK, history
  <2>3. CASE Wear
    BY <2>3, FaultType DEF Wear, TypeOK, CoreTypes, device, core, history
  <2>4. ASSUME NEW b \in Banks, Decay(b)
        PROVE  TypeOK'
    <3>1. flash' \in [Banks -> [Blocks -> Images \cup {Blank}]]
      BY <2>4 DEF Decay, TypeOK
    <3>2. QED
      BY <2>4, <3>1, FaultType DEF Decay, TypeOK, CoreTypes, core
  <2>5. CASE DebuggerRequest
    BY <2>5, DebuggerTypes, FaultType DEF TypeOK
  <2>6. QED
    BY <1>11, <2>1, <2>2, <2>3, <2>4, <2>5 DEF FaultStep
<1>12. CASE UNCHANGED vars
  BY <1>12 DEF vars, device, core, history, TypeOK, CoreTypes
<1>13. QED
  BY <1>2, <1>3, <1>4, <1>5, <1>6, <1>7, <1>8, <1>9, <1>10, <1>11, <1>12
  DEF Next, BootStep

\* Type correctness, for every set of images, slot size and attempt budget.
THEOREM TypeCorrect == Spec => []TypeOK
<1>1. TypeOK /\ [Next]_vars => TypeOK'
  BY TypeStep
<1>2. QED
  BY InitTypes, <1>1, PTL DEF Spec

-----------------------------------------------------------------------------
(* What the record says of the banks.                                       *)
(*                                                                          *)
(* An invariant of the record that is READ is not inductive: a cut write    *)
(* can bring back the record the checksum word still belongs to, however    *)
(* old.  So the invariants below speak of every record that may yet be      *)
(* read, the one the checksum word belongs to and the one in RAM: Held.     *)

LEMMA BanksAre == firstBank \in Banks => Banks = {firstBank, Inactive}
BY DEF Banks, Inactive, Other

LEMMA RecHeld == TypeOK => Rec \in Held \cup {DefaultRecord}
BY RecType DEF Held

\* No step leaves a checksum of a record nobody held: the checksum word is the
\* one that was there, the one of the record in RAM, none, or a debugger's.
LEMMA SumStep == TypeOK /\ [Next]_vars => store'.sum \subseteq Held \cup Requested
<1> SUFFICES ASSUME TypeOK, [Next]_vars
             PROVE  store'.sum \subseteq Held \cup Requested
  OBVIOUS
<1> USE DEF Held
<1>1. CASE UNCHANGED store
  BY <1>1
<1>2. CASE StoreAfterReset \/ store' = BlankStore
  BY <1>2, StoreResetTypes
<1>3. CASE WriteLands
  BY <1>3 DEF WriteLands, Seal
<1>4. CASE WriteFails
  BY <1>4, TornTypes DEF WriteFails, TypeOK, CoreTypes
<1>5. CASE BootOrEnterDownload
  BY <1>1, <1>5, BootMoves, BootTypes DEF device
<1>6. CASE SwapReboot \/ BootUnreadable \/ HostStep
  BY <1>1, <1>6 DEF SwapReboot, BootUnreadable, HostStep, BeginInstall, RefuseTooLarge, Jump, Goto, device
<1>7. CASE ReceiveStep
  BY <1>1, <1>7 DEF ReceiveStep, BurnBlock, FlashFails, Burn, EndStream, Commit, Goto, device
<1>8. CASE AppStep
  BY <1>1, <1>8 DEF AppStep, Confirm, RejectImage, RequestUpdate, Call, Commit, AppReset, device
<1>9. CASE WatchdogBites \/ FaultStep
  BY <1>1, <1>2, <1>9, DebuggerTypes
  DEF WatchdogBites, FaultStep, ExternalReset, PowerCut, Wear, Decay, device
<1>10. CASE UNCHANGED vars
  BY <1>1, <1>10 DEF vars, device
<1>11. QED
  BY <1>3, <1>4, <1>5, <1>6, <1>7, <1>8, <1>9, <1>10 DEF Next, BootStep

\* A record that may be read calls a bank bootable only if it is, and at most
\* one bank New.
Sound(r)  == \A b \in Banks : r.state.bank[b] \in {"Valid", "New"} => Whole(b) \/ b \in decayed
OneNew(r) == \E b \in Banks : r.state.bank[b] # "New"

\* While a bank is written over, every record that may be read condemns it.
CondemnedFirst ==
    /\ (pc = "commit" /\ goal = "condemn") => work.state.bank[Inactive] = "Invalid"
    /\ pc = "receive" => \A r \in Held : r.state.bank[Inactive] \notin {"Valid", "New"}

SoundInv ==
    /\ TypeOK
    /\ \A r \in Held : Sound(r) /\ OneNew(r)
    /\ CondemnedFirst

LEMMA DefaultSound == Sound(DefaultRecord) /\ OneNew(DefaultRecord)
BY DEF Sound, OneNew, DefaultRecord, Banks

\* Soundness of a record depends on its marks alone, and losing marks keeps it.
LEMMA SoundMarks ==
    ASSUME NEW r, NEW s, Sound(r), OneNew(r),
           \A b \in Banks : s.state.bank[b] \in {r.state.bank[b], "None", "Invalid"}
    PROVE  Sound(s) /\ OneNew(s)
BY DEF Sound, OneNew

\* What a debugger amends keeps all but the request.
LEMMA RequestedMarks ==
    TypeOK => \A r \in Requested : \E s \in Held \cup {DefaultRecord} :
                  /\ r.state = s.state
                  /\ r.mail.confirmed = s.mail.confirmed /\ r.mail.rejected = s.mail.rejected
<1> SUFFICES ASSUME TypeOK, NEW s \in Held \cup {DefaultRecord}
             PROVE  LET r == SetRequest(s, TRUE)
                    IN  /\ r.state = s.state
                        /\ r.mail.confirmed = s.mail.confirmed /\ r.mail.rejected = s.mail.rejected
  BY DEF Requested
<1>1. s \in Record
  BY DefaultRecordType DEF TypeOK, CoreTypes, Held, Words, Sums
<1>2. QED
  BY <1>1, AmendFrames

\* Every amendment BOOT makes to a sound record keeps it sound.
LEMMA AmendedSound ==
    ASSUME TypeOK, NEW r \in Record, Sound(r), OneNew(r)
    PROVE  /\ \A n : Sound(SetCount(r, n)) /\ OneNew(SetCount(r, n))
           /\ \A why : Sound(SetReason(r, why)) /\ OneNew(SetReason(r, why))
           /\ \A on : /\ Sound(SetRequest(r, on)) /\ OneNew(SetRequest(r, on))
                      /\ Sound(SetConfirmed(r, on)) /\ OneNew(SetConfirmed(r, on))
                      /\ Sound(SetRejected(r, on)) /\ OneNew(SetRejected(r, on))
           /\ \A b \in Banks : Sound(SetBank(r, b, "Invalid")) /\ OneNew(SetBank(r, b, "Invalid"))
<1>1. \A s : s.state.bank = r.state.bank => Sound(s) /\ OneNew(s)
  BY SoundMarks
<1>2. \A b \in Banks : Sound(SetBank(r, b, "Invalid")) /\ OneNew(SetBank(r, b, "Invalid"))
  <2>1. TAKE b \in Banks
  <2>2. \A c \in Banks : c = b \/ c = Other(b)
    BY DEF Banks, Other
  <2>3. QED
    BY <2>2, SetBankEffect, SoundMarks DEF BankStates
<1>3. QED
  BY <1>1, <1>2, AmendFrames

\* The record an arm of boot_or_enter_download goes on to write is sound:
\* Promote marks Valid what was New.
LEMMA BootWorkSound ==
    ASSUME SoundInv, BootMove
    PROVE  /\ UNCHANGED device
           /\ \E r \in Record : r = work' /\ Sound(r) /\ OneNew(r)
           /\ pc' \notin {"receive"} /\ goal' # "condemn"
<1>1. TypeOK /\ Rec \in Record /\ firstBank \in Banks /\ Inactive \in Banks /\ Inactive # firstBank
  BY RecType, InactiveType DEF SoundInv, TypeOK
<1>2. Sound(Rec) /\ OneNew(Rec)
  BY <1>1, RecHeld, DefaultSound DEF SoundInv
<1>3. CASE \E p \in {"swap", "listen", "app"} : Goto(p)
  BY <1>1, <1>3, BootTypes, DefaultSound, DefaultRecordType DEF Goto, TypeOK, CoreTypes, device
<1>4. CASE Commit("clearRequest", SetRequest(Rec, FALSE))
  BY <1>1, <1>2, <1>4, AmendedSound, SetFieldTypes DEF Commit, device
<1>5. CASE Commit("promote", Promoted(Rec)) /\ Disposition(Rec) = "Promote"
  <2>1. Rec.state.bank[firstBank] = "New" /\ Rec.state.bank[Inactive] # "New"
    BY <1>5, <1>1 DEF Disposition, Record, StateWord
  <2>2. LET v == SetBank(Rec, firstBank, "Valid") IN v \in Record /\ Sound(v) /\ OneNew(v)
    <3> DEFINE v == SetBank(Rec, firstBank, "Valid")
    <3>1. v \in Record /\ v.state.bank[firstBank] = "Valid" /\ v.state.bank[Inactive] = Rec.state.bank[Inactive]
      BY <1>1, SetBankType, SetBankEffect DEF BankStates, Inactive
    <3>2. OneNew(v)
      BY <1>1, <3>1 DEF OneNew
    <3>3. Sound(v)
      BY <1>1, <1>2, <2>1, <3>1, BanksAre DEF Sound
    <3>4. QED
      BY <3>1, <3>2, <3>3
  <2>3. Promoted(Rec) \in Record /\ Sound(Promoted(Rec)) /\ OneNew(Promoted(Rec))
    <3> DEFINE v == SetBank(Rec, firstBank, "Valid")
               c == SetCount(v, 0)
               w == SetReason(c, "None")
    <3>1. c \in Record /\ Sound(c) /\ OneNew(c)
      BY <1>1, <2>2, AmendedSound, SetFieldTypes, U8MaxAssumption
    <3>2. w \in Record /\ Sound(w) /\ OneNew(w)
      BY <1>1, <3>1, AmendedSound, SetFieldTypes DEF Reasons
    <3>3. QED
      BY <1>1, <3>2, AmendedSound, SetFieldTypes DEF Promoted
  <2>4. QED
    BY <1>5, <2>3 DEF Commit, device
<1>6. CASE Commit("countTrial", SetCount(Rec, SaturatingInc(Rec.state.count)))
  <2>1. SetCount(Rec, SaturatingInc(Rec.state.count)) \in Record
    BY <1>1, SetFieldTypes, SaturatingIncType DEF Record, StateWord
  <2>2. QED
    BY <1>1, <1>2, <1>6, <2>1, AmendedSound DEF Commit, device
<1>7. CASE \E r \in {Rec, SetRejected(Rec, FALSE)}, why \in Reasons : Revert(r, why)
  <2>1. PICK r \in {Rec, SetRejected(Rec, FALSE)}, why \in Reasons : Revert(r, why)
    BY <1>7
  <2>2. r \in Record /\ Sound(r) /\ OneNew(r)
    BY <1>1, <1>2, AmendedSound, SetFieldTypes
  <2>3. LET v == SetBank(r, firstBank, "Invalid") IN v \in Record /\ Sound(v) /\ OneNew(v)
    BY <1>1, <2>2, AmendedSound, SetBankType DEF BankStates
  <2>4. LET v == SetReason(SetBank(r, firstBank, "Invalid"), why) IN v \in Record /\ Sound(v) /\ OneNew(v)
    BY <1>1, <2>3, AmendedSound, SetFieldTypes
  <2>5. QED
    BY <2>1, <2>4 DEF Revert, Commit, device
<1>8. QED
  BY <1>3, <1>4, <1>5, <1>6, <1>7 DEF BootMove, Reasons

LEMMA SoundStep == SoundInv /\ [Next]_vars => SoundInv'
<1> SUFFICES ASSUME SoundInv, [Next]_vars
             PROVE  SoundInv'
  OBVIOUS
<1>1. /\ TypeOK /\ TypeOK' /\ Rec \in Record /\ work \in Record
      /\ firstBank \in Banks /\ Inactive \in Banks /\ Inactive # firstBank
  BY TypeStep, RecType, InactiveType DEF SoundInv, TypeOK, CoreTypes
<1>2. Sound(Rec) /\ OneNew(Rec) /\ Sound(work) /\ OneNew(work)
  BY <1>1, RecHeld, DefaultSound DEF SoundInv, Held
<1>3. store'.sum \subseteq Held \cup Requested
  BY <1>1, SumStep
\* It is enough that the banks' content does not change under a record that
\* may be read, and that the record in RAM is sound.
<1>4. ASSUME \A r \in Held \cup {DefaultRecord} : Sound(r)',
             work' \in Held \cup {DefaultRecord} \/ (Sound(work)' /\ OneNew(work)'),
             CondemnedFirst'
      PROVE  SoundInv'
  <2>1. \A r \in Held \cup {DefaultRecord} : OneNew(r)
    BY DefaultSound DEF SoundInv
  <2>2. \A r \in Requested : Sound(r)' /\ OneNew(r)
    BY <1>1, <1>4, <2>1, RequestedMarks DEF Sound, OneNew
  <2>3. \A r \in Held' : Sound(r)' /\ OneNew(r)'
    BY <1>3, <1>4, <2>1, <2>2 DEF Held, OneNew
  <2>4. QED
    BY <1>1, <1>4, <2>3 DEF SoundInv
<1>5. ASSUME UNCHANGED <<flash, decayed>>
      PROVE  \A r : (Sound(r)' <=> Sound(r)) /\ (OneNew(r)' <=> OneNew(r))
  BY <1>5 DEF Sound, OneNew, Whole
<1>6. \A r \in Held \cup {DefaultRecord} : Sound(r)
  BY DefaultSound DEF SoundInv
<1>7. Reset => work' = DefaultRecord /\ CondemnedFirst'
  BY DEF Reset, CondemnedFirst
<1>8. CASE BootOrEnterDownload
  <2>1. BootMove /\ UNCHANGED history
    BY <1>8, BootMoves
  <2>2. Sound(work') /\ OneNew(work') /\ UNCHANGED <<flash, decayed>> /\ CondemnedFirst'
    BY <2>1, BootWorkSound DEF device, history, CondemnedFirst
  <2>3. QED
    BY <2>2, <1>4, <1>5, <1>6
<1>9. CASE WriteLands
  <2>1. UNCHANGED <<flash, decayed>> /\ work' \in {work, DefaultRecord}
    BY <1>9 DEF WriteLands
  <2>2. pc' = "receive" => goal = "condemn" /\ Held' = {work} /\ UNCHANGED firstBank
    BY <1>9 DEF WriteLands, AfterWrite, Held, Seal
  <2>3. pc' # "commit"
    BY <1>9 DEF WriteLands, AfterWrite
  <2>4. CondemnedFirst'
    BY <1>9, <2>2, <2>3 DEF SoundInv, CondemnedFirst, WriteLands, Inactive
  <2>5. QED
    BY <2>1, <2>4, <1>4, <1>5, <1>6 DEF Held
<1>10. CASE WriteFails
  BY <1>10, <1>4, <1>5, <1>6 DEF WriteFails, AfterError, CondemnedFirst, history
<1>11. CASE SwapReboot
  BY <1>11, <1>4, <1>5, <1>6, <1>7 DEF SwapReboot, history
<1>12. CASE BootUnreadable
  BY <1>12, <1>4, <1>5, <1>6 DEF BootUnreadable, Jump, Goto, CondemnedFirst, history, device
<1>13. CASE HostStep
  <2>1. PICK i \in Images : BeginInstall(i) \/ RefuseTooLarge(i)
    BY <1>13 DEF HostStep
  <2>2. CASE BeginInstall(i)
    <3>1. /\ work' \in {SetBank(Rec, Inactive, "Invalid"), SetBank(DefaultRecord, Inactive, "Invalid")}
          /\ UNCHANGED <<flash, decayed, firstBank>>
      BY <2>2 DEF BeginInstall, Rec, device, history
    <3>2. Sound(work') /\ OneNew(work') /\ work'.state.bank[Inactive] = "Invalid"
      BY <1>1, <1>2, <3>1, DefaultSound, DefaultRecordType, AmendedSound, SetBankEffect DEF BankStates
    <3>3. CondemnedFirst'
      BY <2>2, <3>1, <3>2 DEF BeginInstall, CondemnedFirst, Inactive
    <3>4. QED
      BY <3>1, <3>2, <3>3, <1>4, <1>5, <1>6
  <2>3. CASE RefuseTooLarge(i)
    BY <2>3, <1>4, <1>5, <1>6 DEF RefuseTooLarge, Goto, CondemnedFirst, history, device
  <2>4. QED
    BY <2>1, <2>2, <2>3
<1>14. CASE ReceiveStep
  <2>1. pc = "receive" /\ \A r \in Held : r.state.bank[Inactive] \notin {"Valid", "New"}
    BY <1>14 DEF ReceiveStep, BurnBlock, BlockDue, FlashFails, EndStream, SoundInv, CondemnedFirst
  \* What is burnt is burnt into the bank every record condemns.
  <2>2. ASSUME NEW c, Burn(c)
        PROVE  \A r \in Held \cup {DefaultRecord} : Sound(r)'
    <3>1. \A r \in Held \cup {DefaultRecord} : r.state.bank[Inactive] \notin {"Valid", "New"}
      BY <1>1, <2>1 DEF Held, DefaultRecord
    <3>2. flash'[firstBank] = flash[firstBank] /\ decayed' = decayed \ {Inactive}
      BY <1>1, <2>2 DEF Burn, TypeOK
    <3>3. Whole(firstBank)' <=> Whole(firstBank)
      <4>1. UNCHANGED firstBank
        BY <2>2 DEF Burn
      <4>2. QED
        BY <3>2, <4>1 DEF Whole
    <3>4. QED
      BY <1>1, <1>6, <2>2, <3>1, <3>2, <3>3, BanksAre DEF Sound, Burn
  <2>3. CASE \E c \in {incoming.img, Blank} : BurnBlock(c)
    <3>1. PICK c : BurnBlock(c)
      BY <2>3
    <3>2. work' = work /\ CondemnedFirst'
      BY <2>1, <3>1 DEF BurnBlock, Burn, CondemnedFirst, Inactive, Held
    <3>3. QED
      BY <2>2, <3>1, <3>2, <1>4 DEF BurnBlock, Held
  <2>4. CASE FlashFails
    <3>1. PICK c : Burn(c)
      BY <2>4 DEF FlashFails
    <3>2. work' = DefaultRecord /\ CondemnedFirst'
      BY <2>4 DEF FlashFails, CondemnedFirst
    <3>3. QED
      BY <2>2, <3>1, <3>2, <1>4
  <2>5. CASE EndStream
    <3>1. UNCHANGED <<flash, decayed>> /\ CondemnedFirst'
      BY <2>5 DEF EndStream, Commit, Goto, CondemnedFirst, device
    <3>2. CASE work' = DefaultRecord
      BY <3>1, <3>2, <1>4, <1>5, <1>6
    <3>3. CASE Whole(Inactive) /\ work' = TrialRecord(work)
      <4> DEFINE m == MarkNew(work, Inactive)
      <4>1. m \in Record /\ Sound(m) /\ OneNew(m)
        <5>1. /\ m \in Record /\ m.state.bank[firstBank] # "New"
              /\ m.state.bank[firstBank] \in {work.state.bank[firstBank], "None"}
          BY <1>1, InactiveType, MarkNewType, MarkNewEffect
        <5>2. QED
          BY <1>1, <1>2, <3>3, <5>1, BanksAre DEF Sound, OneNew
      <4> DEFINE k == SetCount(m, 0)
                 n == SetConfirmed(k, FALSE)
      <4> HIDE DEF m
      <4>2. k \in Record /\ Sound(k) /\ OneNew(k)
        BY <1>1, <4>1, AmendedSound, SetFieldTypes, U8MaxAssumption
      <4> HIDE DEF k
      <4>3. n \in Record /\ Sound(n) /\ OneNew(n)
        BY <1>1, <4>2, AmendedSound, SetFieldTypes
      <4> HIDE DEF n
      <4>4. Sound(SetRejected(n, FALSE)) /\ OneNew(SetRejected(n, FALSE))
        BY <1>1, <4>3, AmendedSound
      <4>5. Sound(TrialRecord(work)) /\ OneNew(TrialRecord(work))
        BY <4>4 DEF TrialRecord, m, k, n
      <4>6. QED
        BY <3>1, <3>3, <4>5, <1>4, <1>5, <1>6
    <3>4. QED
      BY <2>5, <3>2, <3>3 DEF EndStream, Goto, Commit, VerifyPasses
  <2>6. QED
    BY <1>14, <2>3, <2>4, <2>5 DEF ReceiveStep
<1>15. CASE AppStep
  <2>1. CASE AppReset
    BY <2>1, <1>4, <1>5, <1>6, <1>7 DEF AppReset, device, history
  <2>2. CASE Confirm \/ RejectImage \/ RequestUpdate
    <3>1. Sound(work') /\ OneNew(work')
      BY <1>1, <1>2, <2>2, AmendedSound DEF Confirm, RejectImage, RequestUpdate, Call, Commit, Rec
    <3>2. UNCHANGED <<flash, decayed>> /\ CondemnedFirst'
      BY <2>2 DEF Confirm, RejectImage, RequestUpdate, Call, Commit, CondemnedFirst, device
    <3>3. QED
      BY <3>1, <3>2, <1>4, <1>5, <1>6
  <2>3. QED
    BY <1>15, <2>1, <2>2 DEF AppStep
<1>16. CASE WatchdogBites
  BY <1>16, <1>4, <1>5, <1>6, <1>7 DEF WatchdogBites, history
<1>17. CASE FaultStep
  <2>1. CASE ExternalReset \/ PowerCut
    BY <2>1, <1>4, <1>5, <1>6, <1>7 DEF ExternalReset, PowerCut, history
  <2>2. CASE Wear
    BY <2>2, <1>4, <1>5, <1>6 DEF Wear, device, core, history, Held, SoundInv, CondemnedFirst, Inactive
  <2>3. ASSUME NEW b \in Banks, Decay(b)
        PROVE  SoundInv'
    <3>1. \A c \in Banks \ {b} : Whole(c)' <=> Whole(c)
      BY <1>1, <2>3 DEF Decay, Whole, TypeOK
    <3>2. \A r \in Held \cup {DefaultRecord} : Sound(r)'
      BY <2>3, <3>1, <1>6 DEF Decay, Sound
    <3>3. work' = work /\ CondemnedFirst'
      BY <2>3 DEF Decay, SoundInv, CondemnedFirst, Inactive, core, Held
    <3>4. QED
      BY <3>2, <3>3, <1>4 DEF Held
  <2>4. CASE DebuggerRequest
    <3>1. /\ Reset \/ (pc # "commit" /\ UNCHANGED core)
          /\ UNCHANGED <<flash, decayed, firstBank>>
      BY <1>1, <2>4, DebuggerTypes
    <3>2. CASE Reset
      BY <3>1, <3>2, <1>4, <1>5, <1>6, <1>7
    <3>3. CASE pc # "commit" /\ UNCHANGED core
      <4>1. \A r \in Held' : r \in Held \/ r \in Requested
        BY <1>3, <3>3 DEF Held, core
      <4>2. DefaultRecord.state.bank[Inactive] = "None"
        BY <1>1 DEF DefaultRecord
      <4>3. CondemnedFirst'
        <5>1. CASE pc = "receive"
          <6>1. \A r \in Held \cup {DefaultRecord} : r.state.bank[Inactive] \notin {"Valid", "New"}
            BY <4>2, <5>1 DEF SoundInv, CondemnedFirst
          <6>2. \A r \in Held' : r.state.bank[Inactive] \notin {"Valid", "New"}
            BY <1>1, <4>1, <6>1, RequestedMarks
          <6>3. QED
            BY <3>1, <3>3, <5>1, <6>2 DEF CondemnedFirst, Inactive, core
        <5>2. CASE pc # "receive"
          BY <3>3, <5>2 DEF CondemnedFirst, core
        <5>3. QED
          BY <5>1, <5>2
      <4>4. work' \in Held
        BY <3>3 DEF Held, core
      <4>5. QED
        BY <3>1, <4>3, <4>4, <1>4, <1>5, <1>6
    <3>4. QED
      BY <3>1, <3>2, <3>3
  <2>5. QED
    BY <1>17, <2>1, <2>2, <2>3, <2>4 DEF FaultStep
<1>18. CASE UNCHANGED vars
  BY <1>18, <1>4, <1>5, <1>6 DEF vars, device, core, history, Held, SoundInv, CondemnedFirst, Inactive
<1>19. QED
  BY <1>8, <1>9, <1>10, <1>11, <1>12, <1>13, <1>14, <1>15, <1>16, <1>17, <1>18
  DEF Next, BootStep

LEMMA SoundInit == Init => SoundInv
<1> SUFFICES ASSUME Init
             PROVE  SoundInv
  OBVIOUS
<1>1. Held = {DefaultRecord}
  BY DEF Init, Held, BlankStore
<1>2. QED
  BY <1>1, InitTypes, DefaultSound DEF Init, SoundInv, CondemnedFirst

LEMMA SoundAlways == Spec => []SoundInv
<1>1. SoundInv /\ [Next]_vars => SoundInv'
  BY SoundStep
<1>2. QED
  BY SoundInit, <1>1, PTL DEF Spec

LEMMA SoundGives == SoundInv => RecordSound /\ AtMostOneNew
<1> SUFFICES ASSUME SoundInv
             PROVE  RecordSound /\ AtMostOneNew
  OBVIOUS
<1>1. Sound(Rec) /\ OneNew(Rec)
  BY RecHeld, DefaultSound DEF SoundInv
<1>2. QED
  BY <1>1 DEF Sound, OneNew, RecordSound, AtMostOneNew

\* Whatever is cut, reset, worn or misread, a bank recorded bootable holds a
\* whole image unless it rotted there: the two swaps BOOT makes without
\* verifying (fall_back, and the ResumeInstall and Rollback arms) are safe.
THEOREM BootableIsWhole == Spec => []RecordSound
<1>1. SoundInv => RecordSound
  BY SoundGives
<1>2. QED
  BY SoundAlways, <1>1, PTL

\* Two banks are never both New, so no two installs resume into each other.
THEOREM NeverTwoTrials == Spec => []AtMostOneNew
<1>1. SoundInv => AtMostOneNew
  BY SoundGives
<1>2. QED
  BY SoundAlways, <1>1, PTL

=============================================================================
