------------------------ MODULE FallbackStore_proofs -------------------------
(***************************************************************************)
(* The stores of FallbackStore, proved for every number of writes and of   *)
(* faults: SmartEepromStore implements RecordStore, the contract that the  *)
(* bootloader builds on, and Fallback keeps what it returned and believes  *)
(* the newer of its two stores.                                            *)
(***************************************************************************)
EXTENDS FallbackStore, BootRecord_proofs

-----------------------------------------------------------------------------
(* Words of a record, by their place in the write.                          *)

LEMMA WordAtIs == WordAt[1] = "state" /\ WordAt[2] = "mail" /\ WordAt[3] = "sum"
BY DEF WordAt

LEMMA Places == \A k \in 1 .. 3 : k = 1 \/ k = 2 \/ k = 3
OBVIOUS

LEMMA SameWords ==
    ASSUME NEW w \in Words, NEW x \in Words, \A k \in 1 .. 3 : w[WordAt[k]] = x[WordAt[k]]
    PROVE  w = x
<1>1. w.state = x.state /\ w.mail = x.mail /\ w.sum = x.sum
  BY WordAtIs
<1>2. QED
  BY <1>1 DEF Words

LEMMA StoreWord ==
    ASSUME NEW w \in Words, NEW x \in Words, NEW i \in 1 .. 3
    PROVE  LET s == Store(w, i, x[WordAt[i]])
           IN  /\ s \in Words /\ s[WordAt[i]] = x[WordAt[i]]
               /\ \A k \in 1 .. 3 : k # i => s[WordAt[k]] = w[WordAt[k]]
<1>1. CASE i = 1
  BY <1>1, WordAtIs DEF Store, Words
<1>2. CASE i = 2
  BY <1>2, WordAtIs DEF Store, Words
<1>3. CASE i = 3
  BY <1>3, WordAtIs DEF Store, Words
<1>4. QED
  BY <1>1, <1>2, <1>3, Places

\* A word of which each field is one of two writes' is a mixture of them.
LEMMA MixOfWords ==
    ASSUME NEW a \in Words, NEW b \in Words, NEW w \in Words,
           \A k \in 1 .. 3 : w[WordAt[k]] \in {a[WordAt[k]], b[WordAt[k]]}
    PROVE  w \in Mixes(a, b)
<1>1. w.state \in {a.state, b.state} /\ w.mail \in {a.mail, b.mail} /\ w.sum \in {a.sum, b.sum}
  BY WordAtIs
<1>2. QED
  BY <1>1 DEF Mixes, Words

-----------------------------------------------------------------------------
(* SmartEepromStore.                                                        *)

SeeTypes ==
    /\ cells \in Words /\ before \in Words /\ target \in Words
    /\ step \in {"idle", "compare", "armed", "wait", "readback"}
    /\ index \in 1 .. 4

\* The one word that may be on its way is the one write_raw waits for, and the
\* completion it waits for cannot be an earlier word's.
OneInFlight ==
    /\ step \in {"armed", "wait", "readback"} => index \in 1 .. 3
    /\ step = "armed" => ~seewrc
    /\ inflight = {} \/ (inflight = {index} /\ step = "wait" /\ ~seewrc)

\* The words before the one at hand are the new ones, those behind it the old.
Halfway ==
    step # "idle" =>
        \A k \in 1 .. 3 :
            /\ k < index => cells[WordAt[k]] = target[WordAt[k]]
            /\ k > index => cells[WordAt[k]] = before[WordAt[k]]
            /\ cells[WordAt[k]] \in {before[WordAt[k]], target[WordAt[k]]}

SeeInv == SeeTypes /\ OneInFlight /\ Halfway

SeeMove ==
    \/ SeeWriteStep \/ AllWritten \/ ReadBackDiffers
    \/ Journal \/ ToggleLock \/ SeeReset
    \/ UNCHANGED see

LEMMA SeeStart == SeeInit => SeeInv
BY WordsTypes DEF SeeInit, SeeInv, SeeTypes, OneInFlight, Halfway

LEMMA CommittedIs ==
    ASSUME SeeInv
    PROVE  /\ inflight = {} => Committed = cells
           /\ inflight # {} => /\ Committed = Store(cells, index, target[WordAt[index]])
                               /\ index \in 1 .. 3 /\ step = "wait"
BY DEF SeeInv, OneInFlight, Committed

\* What is committed, when a word is on its way: that word is new, no other.
LEMMA CommittedWords ==
    ASSUME SeeInv, step # "idle"
    PROVE  /\ Committed \in Words
           /\ \A k \in 1 .. 3 :
                /\ k < index => Committed[WordAt[k]] = target[WordAt[k]]
                /\ k > index => Committed[WordAt[k]] = before[WordAt[k]]
                /\ Committed[WordAt[k]] \in {before[WordAt[k]], target[WordAt[k]]}
<1>1. CASE inflight = {}
  BY <1>1, CommittedIs DEF SeeInv, SeeTypes, Halfway
<1>2. CASE inflight # {}
  <2>1. Committed = Store(cells, index, target[WordAt[index]]) /\ index \in 1 .. 3
    BY <1>2, CommittedIs
  <2>2. /\ Committed \in Words /\ Committed[WordAt[index]] = target[WordAt[index]]
        /\ \A k \in 1 .. 3 : k # index => Committed[WordAt[k]] = cells[WordAt[k]]
    <3>1. cells \in Words /\ target \in Words
      BY DEF SeeInv, SeeTypes
    <3>2. LET s == Store(cells, index, target[WordAt[index]])
          IN  /\ s \in Words /\ s[WordAt[index]] = target[WordAt[index]]
              /\ \A k \in 1 .. 3 : k # index => s[WordAt[k]] = cells[WordAt[k]]
      BY <2>1, <3>1, StoreWord
    <3>3. QED
      BY <2>1, <3>2
  <2>3. QED
    BY <2>1, <2>2 DEF SeeInv, Halfway
<1>3. QED
  BY <1>1, <1>2

LEMMA CallStep ==
    ASSUME SeeInv, NEW w \in Words, Call(w)
    PROVE  SeeInv'
BY DEF SeeInv, SeeTypes, OneInFlight, Halfway, Call

LEMMA SeeStep == SeeInv /\ SeeMove => SeeInv'
<1> SUFFICES ASSUME SeeInv, SeeMove
             PROVE  SeeInv'
  OBVIOUS
<1> USE DEF SeeInv
<1>1. CASE SkipWord
  <2>1. step = "compare" /\ inflight = {} /\ cells[WordAt[index]] = target[WordAt[index]]
    BY <1>1, CommittedIs DEF SkipWord, OneInFlight
  <2>2. SeeTypes' /\ OneInFlight'
    BY <1>1, <2>1 DEF SkipWord, SeeTypes, OneInFlight, Here
  <2>3. Halfway'
    BY <1>1, <2>1 DEF SkipWord, SeeTypes, Halfway, Here
  <2>4. QED
    BY <2>2, <2>3
<1>2. CASE ArmWriteComplete \/ PutWord \/ WaitWriteComplete
  <2>1. SeeTypes' /\ OneInFlight'
    <3>1. ArmWriteComplete => ~seewrc' /\ UNCHANGED inflight /\ step = "compare" /\ step' = "armed"
      BY DEF ArmWriteComplete
    <3>2. CASE ArmWriteComplete
      BY <3>1, <3>2 DEF ArmWriteComplete, SeeTypes, OneInFlight, Here
    <3>3. CASE PutWord \/ WaitWriteComplete
      BY <3>3 DEF PutWord, WaitWriteComplete, SeeTypes, OneInFlight
    <3>4. QED
      BY <1>2, <3>2, <3>3
  <2>2. Halfway'
    BY <1>2 DEF ArmWriteComplete, PutWord, WaitWriteComplete, Halfway
  <2>3. QED
    BY <2>1, <2>2
<1>3. CASE ReadBackMatches
  <2>1. /\ step = "readback" /\ inflight = {} /\ index \in 1 .. 3
        /\ cells[WordAt[index]] = target[WordAt[index]]
    BY <1>3, CommittedIs DEF ReadBackMatches, OneInFlight
  <2>2. SeeTypes' /\ OneInFlight'
    BY <1>3, <2>1 DEF ReadBackMatches, SeeTypes, OneInFlight
  <2>3. Halfway'
    BY <1>3, <2>1 DEF ReadBackMatches, SeeTypes, Halfway
  <2>4. QED
    BY <2>2, <2>3
<1>4. CASE AllWritten \/ ReadBackDiffers
  BY <1>4 DEF AllWritten, ReadBackDiffers, WriteReturns, SeeTypes, OneInFlight, Halfway
<1>5. CASE Journal
  <2>1. step = "wait" /\ index \in 1 .. 3
    BY <1>5, CommittedIs DEF Journal
  <2>2. cells' = Committed /\ inflight' = {} /\ UNCHANGED <<step, index, target, before>>
    BY <1>5 DEF Journal
  <2>3. cells' \in Words
    BY <2>1, <2>2, CommittedWords
  <2>4. SeeTypes' /\ OneInFlight'
    BY <2>1, <2>2, <2>3 DEF SeeTypes, OneInFlight
  <2>5. Halfway'
    BY <2>1, <2>2, CommittedWords DEF Halfway
  <2>6. QED
    BY <2>4, <2>5
<1>6. CASE SeeReset
  <2>1. cells' \in Words
    BY <1>6, CommittedIs, CommittedWords DEF SeeReset, SeeTypes
  <2>2. /\ inflight' = {} /\ step' = "idle" /\ index' = 1
        /\ UNCHANGED <<target, before>>
    BY <1>6 DEF SeeReset
  <2>3. SeeTypes'
    BY <2>1, <2>2 DEF SeeTypes
  <2>4. OneInFlight' /\ Halfway'
    BY <2>2 DEF OneInFlight, Halfway
  <2>5. QED
    BY <2>3, <2>4
<1>7. CASE ToggleLock \/ UNCHANGED see
  BY <1>7 DEF ToggleLock, see, SeeTypes, OneInFlight, Halfway
<1>8. QED
  BY <1>1, <1>2, <1>3, <1>4, <1>5, <1>6, <1>7 DEF SeeMove, SeeWriteStep

\* A write that is called is begun; its steps inside are no steps of the
\* contract; it lands, is refused or is cut as RecordStore has it.
LEMMA CallBegins ==
    ASSUME SeeInv, NEW r \in Record, Call(Seal(r))
    PROVE  Contract!Next
<1>1. Contract!Begin
  <2>1. {Seal(r)} \in Contract!SealedWrites
    BY DEF Contract!SealedWrites, Contract!Seal, Contract!Record, Contract!StateWord,
           Contract!MailWord, Contract!Banks, Contract!BankStates, Contract!Reasons,
           Seal, Record, StateWord, MailWord, Banks, BankStates, Reasons
  <2>2. step = "idle" /\ step' = "compare" /\ target' = Seal(r) /\ before' = cells
    BY DEF Call
  <2>3. QED
    BY <2>1, <2>2 DEF Contract!Begin
<1>2. QED
  BY <1>1 DEF Contract!Next

LEMMA LandedIsTarget ==
    ASSUME SeeInv, AllWritten
    PROVE  cells = target
<1>1. step = "compare" /\ index \notin 1 .. 3
  BY DEF AllWritten, Here
<1>2. \A k \in 1 .. 3 : cells[WordAt[k]] = target[WordAt[k]]
  BY <1>1 DEF SeeInv, SeeTypes, Halfway
<1>3. QED
  BY <1>2, SameWords DEF SeeInv, SeeTypes

LEMMA RefusedIsPrefix ==
    ASSUME SeeInv, ReadBackDiffers
    PROVE  cells \in Prefixes(before, target)
<1>1. /\ step = "readback" /\ index \in 1 .. 3
      /\ cells[WordAt[index]] # target[WordAt[index]]
  BY CommittedIs DEF ReadBackDiffers, SeeInv, OneInFlight
<1>2. cells[WordAt[index]] = before[WordAt[index]] /\ cells # target
  BY <1>1 DEF SeeInv, Halfway
<1>3. \A k \in 1 .. 3 : /\ k < index => cells[WordAt[k]] = target[WordAt[k]]
                        /\ k >= index => cells[WordAt[k]] = before[WordAt[k]]
  BY <1>1, <1>2 DEF SeeInv, SeeTypes, Halfway
<1>4. cells \in Words /\ before \in Words /\ target \in Words
  BY DEF SeeInv, SeeTypes
<1>5. CASE index = 1
  <2>1. cells = before
    BY <1>3, <1>4, <1>5, SameWords
  <2>2. QED
    BY <1>2, <2>1 DEF Prefixes
<1>6. CASE index = 2
  <2>1. cells.state = target.state /\ cells.mail = before.mail /\ cells.sum = before.sum
    BY <1>3, <1>6, WordAtIs
  <2>2. cells = [before EXCEPT !.state = target.state]
    BY <1>4, <2>1 DEF Words
  <2>3. QED
    BY <1>2, <2>2 DEF Prefixes
<1>7. CASE index = 3
  <2>1. cells.state = target.state /\ cells.mail = target.mail /\ cells.sum = before.sum
    BY <1>3, <1>7, WordAtIs
  <2>2. cells = [target EXCEPT !.sum = before.sum]
    BY <1>4, <2>1 DEF Words
  <2>3. QED
    BY <1>2, <2>2 DEF Prefixes
<1>8. QED
  BY <1>1, <1>5, <1>6, <1>7, Places

LEMMA SeeImplements ==
    ASSUME SeeInv, SeeMove
    PROVE  [Contract!Next]_(Contract!contract)
<1>1. CASE SeeWriteStep \/ Journal \/ ToggleLock \/ UNCHANGED see
  <2>1. /\ UNCHANGED before /\ UNCHANGED target
        /\ step = "idle" <=> step' = "idle"
        /\ step = "idle" => UNCHANGED cells
    BY <1>1, CommittedIs
    DEF SeeWriteStep, SkipWord, ArmWriteComplete, PutWord, WaitWriteComplete, ReadBackMatches,
        Journal, ToggleLock, see
  <2>2. QED
    BY <2>1 DEF Contract!contract
<1>2. CASE AllWritten
  <2>1. step # "idle" /\ step' = "idle" /\ cells' = target
    BY <1>2, LandedIsTarget DEF AllWritten, WriteReturns
  <2>2. Contract!Land
    BY <2>1 DEF Contract!Land
  <2>3. QED
    BY <2>2 DEF Contract!Next
<1>3. CASE ReadBackDiffers
  <2>1. step # "idle" /\ step' = "idle" /\ cells' \in Prefixes(before, target)
    BY <1>3, RefusedIsPrefix DEF ReadBackDiffers, WriteReturns
  <2>2. Contract!Refuse
    BY <2>1 DEF Contract!Refuse, Contract!Prefixes, Prefixes
  <2>3. QED
    BY <2>2 DEF Contract!Next
<1>4. CASE SeeReset /\ step = "idle"
  <2>1. UNCHANGED cells /\ step' = "idle"
    BY <1>4, CommittedIs DEF SeeReset
  <2>2. QED
    BY <1>4, <2>1 DEF Contract!contract
<1>5. CASE SeeReset /\ step # "idle"
  <2>1. step' = "idle" /\ cells' \in {cells, Committed}
    BY <1>5 DEF SeeReset
  <2>2. cells' \in Words /\ before \in Words /\ target \in Words
    BY <1>5, <2>1, CommittedWords DEF SeeInv, SeeTypes
  <2>3. \A k \in 1 .. 3 : cells'[WordAt[k]] \in {before[WordAt[k]], target[WordAt[k]]}
    BY <1>5, <2>1, CommittedWords DEF SeeInv, Halfway
  <2>4. cells' \in Mixes(before, target)
    BY <2>2, <2>3, MixOfWords
  <2>5. Contract!Cut
    BY <1>5, <2>1, <2>4 DEF Contract!Cut, Contract!Mixes, Mixes
  <2>6. QED
    BY <2>5 DEF Contract!Next
<1>6. QED
  BY <1>1, <1>2, <1>3, <1>4, <1>5 DEF SeeMove

-----------------------------------------------------------------------------
(* Fallback over the two.                                                   *)

FallTypes ==
    /\ spare \in Words /\ spareTarget \in Words /\ spareLeft \subseteq WordNames
    /\ call \in {"idle", "clear", "primary", "spare"}
    /\ want \in Record
    /\ version \in 0 .. MaxWrites

\* Which store the call at hand writes, and what: the spare is cleared before
\* the primary is touched, and takes the record when the primary has refused.
Calls ==
    /\ call = "primary" <=> step # "idle"
    /\ call = "primary" => target = Seal(want) /\ spare = BlankStore /\ spareLeft = {}
    /\ call = "clear" => spareTarget = BlankStore
    /\ call = "spare" => spareTarget = Seal(want) /\ cells # Seal(want)
    /\ call = "idle" => spareLeft = {}
    /\ call \in {"clear", "spare"} => \A n \in WordNames \ spareLeft : spare[n] = spareTarget[n]

\* Checksums in the primary, committed or on their way, are of records no newer
\* than the one at hand.
NoNewer(w) == \A r \in w.sum : /\ r.state.count <= version
                               /\ r.state.count = version => r = want

\* The checksum in the spare is of a record newer than any the primary holds.
SpareNewer == Validated(cells) => \A r \in spare.sum : r.state.count > cells.state.count

FallInv ==
    /\ SeeInv /\ FallTypes /\ Calls
    /\ call # "idle" => want.state.count = version
    /\ NoNewer(cells) /\ (step # "idle" => NoNewer(before))
    /\ SpareNewer
    /\ settled => call = "idle" /\ Read = want

LEMMA FallStart == Init => FallInv
<1> SUFFICES ASSUME Init
             PROVE  FallInv
  OBVIOUS
<1>1. SeeInv
  BY SeeStart DEF Init
<1>2. FallTypes /\ Calls
  BY WordsTypes, DefaultRecordType, FallbackAssumption
  DEF Init, SeeInit, FallTypes, Calls
<1>3. NoNewer(cells) /\ SpareNewer /\ step = "idle" /\ call = "idle" /\ ~settled
  BY DEF Init, SeeInit, NoNewer, SpareNewer, BlankStore
<1>4. QED
  BY <1>1, <1>2, <1>3 DEF FallInv

LEMMA BlankReads == ~Validated(BlankStore) /\ BlankStore.sum = {}
BY DEF Validated, BlankStore

\* A record's count, wherever the record is named by a checksum.
LEMMA CountsAre ==
    ASSUME NEW w \in Words
    PROVE  \A r \in w.sum : r \in Record /\ r.state.count \in Nat
BY U8MaxAssumption DEF Words, Sums, Record, StateWord

LEMMA ValidatedIs ==
    ASSUME NEW w \in Words, Validated(w)
    PROVE  \E r \in Record : w = Seal(r) /\ w.sum = {r}
<1>1. PICK r \in Record : w.sum = {r} /\ Spelled(w) = r
  BY DEF Validated, Words, Sums
<1>2. w.state = r.state /\ w.mail = r.mail
  BY <1>1 DEF Spelled
<1>3. QED
  BY <1>1, <1>2 DEF Seal, Words

\* The spare, once every word of it has been stored.
LEMMA SpareStored ==
    ASSUME FallInv, call \in {"clear", "spare"}, spareLeft = {}
    PROVE  spare = spareTarget
<1>1. spare.state = spareTarget.state /\ spare.mail = spareTarget.mail /\ spare.sum = spareTarget.sum
  BY DEF FallInv, Calls, WordNames
<1>2. QED
  BY <1>1 DEF FallInv, FallTypes, Words

\* What a step of the primary leaves there.
LEMMA CommittedIsNoNewer ==
    ASSUME FallInv, cells' \in {cells, Committed}
    PROVE  /\ NoNewer(cells')
           /\ call # "primary" => UNCHANGED cells
<1>1. CASE step = "idle"
  <2>1. cells' = cells
    BY <1>1, CommittedIs DEF FallInv
  <2>2. QED
    BY <2>1 DEF FallInv
<1>2. CASE step # "idle"
  <2>1. call = "primary" /\ target = Seal(want) /\ want.state.count = version
    BY <1>2 DEF FallInv, Calls
  <2>2. NoNewer(target) /\ NoNewer(before) /\ NoNewer(cells)
    <3>1. target.sum = {want} /\ version \in Nat
      BY <2>1, FallbackAssumption, U8MaxAssumption DEF Seal, FallInv, FallTypes
    <3>2. NoNewer(target)
      BY <2>1, <3>1 DEF NoNewer
    <3>3. QED
      BY <1>2, <3>2 DEF FallInv
  <2>3. Committed.sum \in {before.sum, target.sum}
    BY <1>2, CommittedWords, WordAtIs DEF FallInv
  <2>4. NoNewer(Committed)
    BY <2>2, <2>3 DEF NoNewer
  <2>5. QED
    BY <2>1, <2>2, <2>4
<1>3. QED
  BY <1>1, <1>2

\* A record the primary has refused is newer than what the primary still holds.
LEMMA RefusedIsNewer ==
    ASSUME FallInv, call = "spare", Validated(cells)
    PROVE  want.state.count > cells.state.count
<1>1. PICK r \in Record : cells = Seal(r) /\ cells.sum = {r}
  BY ValidatedIs DEF FallInv, SeeInv, SeeTypes
<1>2. r # want /\ want.state.count = version
  BY <1>1 DEF FallInv, Calls
<1>3. r.state.count <= version /\ r.state.count # version
  BY <1>1, <1>2 DEF FallInv, NoNewer
<1>4. r.state.count \in Nat /\ version \in Nat /\ cells.state = r.state
  BY <1>1, FallbackAssumption, U8MaxAssumption DEF FallInv, FallTypes, Record, StateWord, Seal
<1>5. QED
  BY <1>2, <1>3, <1>4

\* What each action does to the primary, as SmartEeprom has it.
LEMMA FallMoves ==
    ASSUME [Next]_vars
    PROVE  TryPrimary \/ SeeMove
<1>1. PrimaryStep \/ PrimaryLands \/ PrimaryRefuses \/ Controller \/ Wear \/ ResetPart \/ PowerCut
        => SeeMove
  BY DEF PrimaryStep, PrimaryLands, PrimaryRefuses, Controller, Wear, ResetPart, PowerCut, SeeMove
<1>2. SpareLands \/ (\E r : Begin(r)) \/ (\E n : SpareWord(n)) \/ UNCHANGED vars => SeeMove
  BY DEF SpareLands, Begin, SpareWord, vars, SeeMove
<1>3. QED
  BY <1>1, <1>2 DEF Next

LEMMA SealIsWords == \A r \in Record : Seal(r) \in Words /\ Validated(Seal(r)) /\ Spelled(Seal(r)) = r
<1>1. \A r \in Record : Seal(r) \in Words
  BY WordsTypes
<1>2. \A r \in Record : Spelled(Seal(r)) = r
  BY DEF Spelled, Seal, Record
<1>3. QED
  BY <1>1, <1>2 DEF Validated, Seal

LEMMA FallSeeStep == FallInv /\ [Next]_vars => SeeInv'
<1> SUFFICES ASSUME FallInv, [Next]_vars
             PROVE  SeeInv'
  OBVIOUS
<1>1. CASE TryPrimary
  <2>1. Seal(want) \in Words
    BY SealIsWords DEF FallInv, FallTypes
  <2>2. QED
    BY <1>1, <2>1, CallStep DEF TryPrimary, FallInv
<1>2. QED
  BY <1>1, FallMoves, SeeStep DEF FallInv

\* What the primary's own steps leave alone.
LEMMA InsideWrite ==
    ASSUME SeeInv, SeeWriteStep
    PROVE  step # "idle" /\ step' # "idle" /\ UNCHANGED <<cells, before, target>>
BY DEF SeeWriteStep, SkipWord, ArmWriteComplete, PutWord, WaitWriteComplete, ReadBackMatches

LEMMA FallStep == FallInv /\ [Next]_vars => FallInv'
<1> SUFFICES ASSUME FallInv, [Next]_vars
             PROVE  FallInv'
  OBVIOUS
<1>1. SeeInv'
  BY FallSeeStep
<1>2. /\ SeeInv /\ FallTypes /\ Calls /\ SpareNewer /\ NoNewer(cells)
      /\ version \in Nat /\ cells \in Words /\ want \in Record
      /\ call # "idle" => want.state.count = version
      /\ step # "idle" => NoNewer(before)
      /\ settled => call = "idle" /\ Read = want
  BY FallbackAssumption, U8MaxAssumption DEF FallInv, FallTypes, SeeInv, SeeTypes
<1>3. BlankStore \in Words /\ Seal(want) \in Words
  BY <1>2, WordsTypes
<1>4. ASSUME NEW on \in BOOLEAN, Begin(SetRequest(SetCount(DefaultRecord, version + 1), on))
      PROVE  FallInv'
  <2> DEFINE c == SetCount(DefaultRecord, version + 1)
             r == SetRequest(c, on)
  <2>1. version + 1 \in 0 .. U8Max /\ version < MaxWrites /\ version + 1 \in 0 .. MaxWrites
    BY <1>2, <1>4, FallbackAssumption, U8MaxAssumption DEF Begin, FallTypes
  <2>2. c \in Record /\ c.state.count = version + 1
    BY <2>1, DefaultRecordType, SetFieldTypes, AmendFrames
  <2> HIDE DEF c
  <2>3. r \in Record /\ r.state = c.state
    <3>1. r \in Record
      BY <2>2, SetFieldTypes
    <3>2. r.state = c.state
      BY <2>2, AmendFrames
    <3>3. QED
      BY <3>1, <3>2
  <2>4. Begin(r)
    BY <1>4 DEF c
  <2> HIDE DEF r
  <2>5. /\ call = "idle" /\ call' = "clear" /\ want' = r /\ version' = version + 1
        /\ spareTarget' = BlankStore /\ spareLeft' = WordNames
        /\ UNCHANGED <<spare, cells, inflight, seewrc, locked, step, index, target, before>>
        /\ ~settled'
    BY <2>4 DEF Begin, PutSpare, see
  <2>6. FallTypes' /\ Calls'
    BY <1>2, <1>3, <2>1, <2>3, <2>5 DEF FallTypes, Calls
  <2>7. NoNewer(cells)'
    BY <1>2, <2>5, CountsAre DEF NoNewer
  <2>8. SpareNewer' /\ step' = "idle"
    BY <1>2, <2>5 DEF SpareNewer, Calls
  <2>9. QED
    BY <1>1, <2>2, <2>3, <2>5, <2>6, <2>7, <2>8 DEF FallInv
<1>5. ASSUME NEW n \in WordNames, SpareWord(n)
      PROVE  FallInv'
  <2>1. /\ n \in spareLeft /\ spare' = [spare EXCEPT ![n] = spareTarget[n]]
        /\ spareLeft' = spareLeft \ {n}
        /\ UNCHANGED <<spareTarget, call, want, version, settled>>
        /\ UNCHANGED <<cells, step, target, before>>
    BY <1>5 DEF SpareWord, see, progress
  <2>2. call \in {"clear", "spare"} /\ step = "idle"
    BY <1>2, <2>1 DEF Calls, FallTypes
  <2>3. /\ spare' \in Words /\ spare'[n] = spareTarget[n]
        /\ \A k \in WordNames : k # n => spare'[k] = spare[k]
    <3>1. CASE n = "state"
      BY <1>2, <2>1, <3>1 DEF FallTypes, Words, WordNames
    <3>2. CASE n = "mail"
      BY <1>2, <2>1, <3>2 DEF FallTypes, Words, WordNames
    <3>3. CASE n = "sum"
      BY <1>2, <2>1, <3>3 DEF FallTypes, Words, WordNames
    <3>4. QED
      BY <1>5, <3>1, <3>2, <3>3 DEF WordNames
  <2>4. FallTypes'
    BY <1>2, <2>1, <2>3 DEF FallTypes
  <2>5. Calls'
    BY <1>2, <2>1, <2>2, <2>3 DEF Calls
  <2>6. SpareNewer'
    <3>1. spare'.sum = spare.sum \/ spare'.sum = spareTarget.sum
      BY <1>5, <2>3 DEF WordNames
    <3>2. CASE spare'.sum = spare.sum
      BY <1>2, <2>1, <3>2 DEF SpareNewer
    <3>3. CASE spare'.sum = spareTarget.sum /\ call = "clear"
      BY <1>2, <2>1, <3>3, BlankReads DEF SpareNewer, Calls
    <3>4. CASE spare'.sum = spareTarget.sum /\ call = "spare"
      <4>1. spare'.sum = {want}
        BY <1>2, <3>4 DEF Calls, Seal
      <4>2. QED
        BY <2>1, <3>4, <4>1, RefusedIsNewer DEF SpareNewer
    <3>5. QED
      BY <2>2, <3>1, <3>2, <3>3, <3>4
  <2>7. ~settled'
    BY <1>2, <2>1, <2>2
  <2>8. QED
    BY <1>1, <1>2, <2>1, <2>2, <2>4, <2>5, <2>6, <2>7 DEF FallInv, NoNewer
<1>6. CASE TryPrimary
  <2>1. /\ call = "clear" /\ spareLeft = {} /\ call' = "primary"
        /\ step' = "compare" /\ target' = Seal(want) /\ before' = cells
        /\ UNCHANGED <<cells, spare, spareTarget, spareLeft, want, version, settled>>
    BY <1>6 DEF TryPrimary, Call, backup, progress
  <2>2. spare = BlankStore
    BY <1>2, <2>1, SpareStored DEF Calls
  <2>3. FallTypes' /\ Calls'
    BY <1>2, <2>1, <2>2 DEF FallTypes, Calls
  <2>4. SpareNewer' /\ ~settled'
    BY <1>2, <2>1 DEF SpareNewer
  <2>5. NoNewer(cells)' /\ NoNewer(before)'
    BY <1>2, <2>1 DEF NoNewer
  <2>6. QED
    BY <1>1, <1>2, <2>1, <2>3, <2>4, <2>5 DEF FallInv
<1>7. CASE PrimaryStep
  <2>1. /\ step # "idle" /\ step' # "idle" /\ UNCHANGED <<cells, before, target>>
        /\ UNCHANGED <<spare, spareTarget, spareLeft, call, want, version, settled>>
    BY <1>2, <1>7, InsideWrite DEF PrimaryStep, backup, progress
  <2>2. FallTypes' /\ Calls' /\ SpareNewer' /\ NoNewer(cells)' /\ NoNewer(before)'
    BY <1>2, <2>1 DEF FallTypes, Calls, SpareNewer, NoNewer
  <2>3. ~settled'
    BY <1>2, <2>1 DEF Calls
  <2>4. QED
    BY <1>1, <1>2, <2>1, <2>2, <2>3 DEF FallInv
<1>8. CASE PrimaryLands
  <2>1. /\ step = "compare" /\ step' = "idle" /\ call' = "idle" /\ cells = target
        /\ UNCHANGED <<cells, before, target, spare, spareTarget, spareLeft, want, version>>
    BY <1>2, <1>8, LandedIsTarget DEF PrimaryLands, AllWritten, WriteReturns, Done, backup
  <2>2. call = "primary" /\ target = Seal(want) /\ spare = BlankStore /\ spareLeft = {}
    BY <1>2, <2>1 DEF Calls
  <2>3. FallTypes' /\ Calls'
    BY <1>2, <2>1, <2>2 DEF FallTypes, Calls
  <2>4. SpareNewer' /\ NoNewer(cells)'
    BY <1>2, <2>1 DEF SpareNewer, NoNewer
  <2>5. Read' = want'
    BY <1>2, <2>1, <2>2, BlankReads, SealReads DEF Read
  <2>6. QED
    BY <1>1, <2>1, <2>3, <2>4, <2>5 DEF FallInv
<1>9. CASE PrimaryRefuses
  <2>1. /\ step = "readback" /\ step' = "idle" /\ call' = "spare" /\ cells # target
        /\ spareTarget' = Seal(want) /\ spareLeft' = WordNames
        /\ UNCHANGED <<cells, before, target, spare, want, version, settled>>
    BY <1>2, <1>9, RefusedIsPrefix
    DEF PrimaryRefuses, ReadBackDiffers, WriteReturns, PutSpare, Prefixes, progress
  <2>2. call = "primary" /\ target = Seal(want)
    BY <1>2, <2>1 DEF Calls
  <2>3. FallTypes' /\ Calls'
    BY <1>2, <1>3, <2>1, <2>2 DEF FallTypes, Calls
  <2>4. SpareNewer' /\ NoNewer(cells)' /\ ~settled'
    BY <1>2, <2>1, <2>2 DEF SpareNewer, NoNewer
  <2>5. QED
    BY <1>1, <1>2, <2>1, <2>2, <2>3, <2>4 DEF FallInv
<1>10. CASE SpareLands
  <2>1. /\ call = "spare" /\ spareLeft = {} /\ call' = "idle"
        /\ UNCHANGED <<cells, step, before, target, spare, spareTarget, spareLeft, want, version>>
    BY <1>10 DEF SpareLands, Done, see, backup
  <2>2. spare = Seal(want) /\ step = "idle"
    BY <1>2, <2>1, SpareStored DEF Calls
  <2>3. FallTypes' /\ Calls'
    BY <1>2, <2>1, <2>2 DEF FallTypes, Calls
  <2>4. SpareNewer' /\ NoNewer(cells)'
    BY <1>2, <2>1 DEF SpareNewer, NoNewer
  <2>5. Read' = want'
    BY <1>2, <2>1, <2>2, SealIsWords DEF Read
  <2>6. QED
    BY <1>1, <2>1, <2>2, <2>3, <2>4, <2>5 DEF FallInv
<1>11. CASE Controller
  <2>1. /\ cells' = Committed /\ UNCHANGED <<step, before, target>>
        /\ UNCHANGED <<spare, spareTarget, spareLeft, call, want, version, settled>>
        /\ step = "wait"
    BY <1>2, <1>11, CommittedIs DEF Controller, Journal, backup, progress
  <2>2. call = "primary" /\ spare = BlankStore
    BY <1>2, <2>1 DEF Calls
  <2>3. FallTypes' /\ Calls'
    BY <1>2, <2>1, <2>2 DEF FallTypes, Calls
  <2>4. SpareNewer'
    BY <2>1, <2>2, BlankReads DEF SpareNewer
  <2>5. NoNewer(cells)' /\ NoNewer(before)'
    <3>1. NoNewer(cells')
      BY <2>1, CommittedIsNoNewer
    <3>2. QED
      BY <1>2, <2>1, <3>1 DEF NoNewer
  <2>6. ~settled'
    BY <1>2, <2>1, <2>2
  <2>7. QED
    BY <1>1, <1>2, <2>1, <2>3, <2>4, <2>5, <2>6 DEF FallInv
<1>12. CASE Wear \/ UNCHANGED vars
  <2>1. /\ UNCHANGED <<cells, step, before, target>>
        /\ UNCHANGED <<spare, spareTarget, spareLeft, call, want, version, settled>>
    BY <1>12 DEF Wear, ToggleLock, vars, see, backup, progress
  <2>2. FallTypes' /\ Calls' /\ SpareNewer' /\ NoNewer(cells)' /\ UNCHANGED Read
    BY <1>2, <2>1 DEF FallTypes, Calls, SpareNewer, NoNewer, Read
  <2>3. (step # "idle" => NoNewer(before))'
    BY <1>2, <2>1 DEF NoNewer
  <2>4. QED
    BY <1>1, <1>2, <2>1, <2>2, <2>3 DEF FallInv
<1>13. ASSUME ResetPart \/ PowerCut
       PROVE  /\ step' = "idle" /\ call' = "idle" /\ cells' \in {cells, Committed}
              /\ spareLeft' = {} /\ UNCHANGED <<spareTarget, want, version>>
              /\ NoNewer(cells)' /\ (call # "primary" => UNCHANGED cells)
  <2>1. /\ step' = "idle" /\ call' = "idle" /\ cells' \in {cells, Committed}
        /\ spareLeft' = {} /\ UNCHANGED <<spareTarget, want, version>>
    BY <1>13 DEF ResetPart, PowerCut, SeeReset
  <2>2. NoNewer(cells') /\ (call # "primary" => UNCHANGED cells)
    BY <2>1, CommittedIsNoNewer
  <2>3. QED
    BY <2>1, <2>2 DEF NoNewer
<1>14. CASE ResetPart
  <2>1. UNCHANGED <<spare, settled>>
    BY <1>14 DEF ResetPart
  <2>2. FallTypes' /\ Calls'
    BY <1>2, <1>13, <1>14, <2>1 DEF FallTypes, Calls
  <2>3. SpareNewer'
    <3>1. call = "primary" => spare'.sum = {}
      BY <1>2, <2>1, BlankReads DEF Calls
    <3>2. QED
      BY <1>2, <1>13, <1>14, <2>1, <3>1 DEF SpareNewer
  <2>4. settled' => Read' = want'
    BY <1>2, <1>13, <1>14, <2>1 DEF Read
  <2>5. QED
    BY <1>1, <1>13, <1>14, <2>2, <2>3, <2>4 DEF FallInv
<1>15. CASE PowerCut
  <2>1. spare' = BlankStore
    BY <1>15 DEF PowerCut
  <2>2. settled' => settled /\ ~Validated(spare)
    BY <1>15 DEF PowerCut
  <2>3. FallTypes' /\ Calls'
    BY <1>2, <1>3, <1>13, <1>15, <2>1 DEF FallTypes, Calls
  <2>4. SpareNewer'
    BY <2>1, BlankReads DEF SpareNewer
  <2>5. settled' => Read' = want'
    BY <1>2, <1>13, <1>15, <2>1, <2>2, BlankReads DEF Read
  <2>6. QED
    BY <1>1, <1>13, <1>15, <2>3, <2>4, <2>5 DEF FallInv
<1>16. QED
  BY <1>4, <1>5, <1>6, <1>7, <1>8, <1>9, <1>10, <1>11, <1>12, <1>14, <1>15 DEF Next

LEMMA FallAlways == Spec => []FallInv
BY FallStart, FallStep, PTL DEF Spec

\* SmartEepromStore, against a controller that commits late, refuses silently
\* and loses what it has not committed, implements the contract of BootStorage:
\* a write that returns is in the journal to its last word, and one that is
\* refused or cut leaves old words and new ones.
THEOREM PrimaryImplementsContract == Spec => PrimaryKeepsContract
<1>1. ASSUME Init
      PROVE  /\ (IF step = "idle" THEN cells ELSE before) = Contract!BlankStore
             /\ (IF step = "idle" THEN {} ELSE {target}) = {}
  <2>1. Contract!BlankStore = BlankStore
    BY DEF Contract!BlankStore, BlankStore, Contract!DefaultRecord, DefaultRecord,
           Contract!Banks, Banks
  <2>2. QED
    BY <1>1, <2>1 DEF Init, SeeInit
<1>2. FallInv /\ [Next]_vars => [Contract!Next]_(Contract!contract)
  <2>1. ASSUME FallInv, TryPrimary
        PROVE  Contract!Next
    BY <2>1, CallBegins DEF FallInv, FallTypes, TryPrimary
  <2>2. QED
    BY <2>1, FallMoves, SeeImplements DEF FallInv
<1>3. QED
  BY FallAlways, <1>1, <1>2, PTL DEF Spec, PrimaryKeepsContract, Contract!Spec

\* A write that returned is what a reader finds, whichever store took it and
\* whatever reset follows.
THEOREM WritesStick == Spec => []WriteSticks
<1>1. FallInv => WriteSticks
  BY DEF FallInv, WriteSticks
<1>2. QED
  BY FallAlways, <1>1, PTL

\* A sealed spare, which readers believe first, is never older than a sealed
\* primary.
THEOREM SpareIsTheNewer == Spec => []SpareIsNewer
<1>1. FallInv => SpareIsNewer
  <2> SUFFICES ASSUME FallInv, Validated(spare), Validated(cells)
               PROVE  spare.state.count > cells.state.count
    BY DEF SpareIsNewer
  <2>1. PICK r \in Record : spare = Seal(r) /\ spare.sum = {r}
    BY ValidatedIs DEF FallInv, FallTypes
  <2>2. QED
    BY <2>1 DEF FallInv, SpareNewer, Seal
<1>2. QED
  BY FallAlways, <1>1, PTL

=============================================================================
