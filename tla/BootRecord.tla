------------------------------ MODULE BootRecord ------------------------------
(***************************************************************************)
(* The boot record of src/src/persist.rs: what the bootloader remembers    *)
(* from one reset to the next, and the words it is stored as.              *)
(*                                                                         *)
(* A record is what the code calls BootStore without its checksum.  The    *)
(* store holds WORDS: the boot state word, the mailbox word and the        *)
(* checksum word, each of which changes power-atomically and none of which *)
(* is ordered with the others.  The rollback word is left out, because     *)
(* nothing writes it.  The checksum word is the set of records it matches: *)
(* one record when it was sealed, none when it was not (a CRC collision    *)
(* between two records is not modelled).                                   *)
(***************************************************************************)
EXTENDS Integers

CONSTANTS
    U8Max          \* the largest value of boot_count, a u8: 255 in the build

ASSUME U8MaxAssumption == U8Max \in Nat \ {0}

Banks      == {"A", "B"}
BankStates == {"None", "Valid", "New", "Invalid"}
Reasons    == {"None", "AttemptsExhausted", "VerifyFailed", "AppRejected"}

Other(b) == IF b = "A" THEN "B" ELSE "A"

-----------------------------------------------------------------------------

StateWord == [bank : [Banks -> BankStates], count : 0 .. U8Max, reason : Reasons]
MailWord  == [request : BOOLEAN, confirmed : BOOLEAN, rejected : BOOLEAN]
Record    == [state : StateWord, mail : MailWord]

\* BootStore::default(): a fresh chip.
DefaultRecord ==
    [state |-> [bank |-> [b \in Banks |-> "None"], count |-> 0, reason |-> "None"],
     mail  |-> [request |-> FALSE, confirmed |-> FALSE, rejected |-> FALSE]]

SetBank(r, b, s) == [r EXCEPT !.state.bank[b] = s]

\* Mutant of MarkNew: the other bank's New is not demoted.
MarkNewAlone(r, b) == SetBank(r, b, "New")

\* Marking a bank New demotes a New on the other bank to None.
MarkNew(r, b) ==
    SetBank(IF r.state.bank[Other(b)] = "New" THEN SetBank(r, Other(b), "None") ELSE r,
            b, "New")

SetCount(r, n)     == [r EXCEPT !.state.count = n]
SetReason(r, why)  == [r EXCEPT !.state.reason = why]
SetRequest(r, on)  == [r EXCEPT !.mail.request = on]
SetConfirmed(r, on) == [r EXCEPT !.mail.confirmed = on]
SetRejected(r, on) == [r EXCEPT !.mail.rejected = on]

\* Mutant of SaturatingInc: a budget counted down, past zero.
CountDown(n) == n - 1

SaturatingInc(n) == IF n < U8Max THEN n + 1 ELSE n

-----------------------------------------------------------------------------

Sums  == {{}} \cup {{r} : r \in Record}
Words == [state : StateWord, mail : MailWord, sum : Sums]

\* The record as it goes to the store, checksum stamped.
Seal(r) == [state |-> r.state, mail |-> r.mail, sum |-> {r}]

\* The record the stored words spell, whether or not the checksum agrees.
Spelled(w) == [state |-> w.state, mail |-> w.mail]

Validated(w) == Spelled(w) \in w.sum

\* BootStorage::read: words that do not check out read as a fresh chip.
ReadRecord(w) == IF Validated(w) THEN Spelled(w) ELSE DefaultRecord

\* A store that was never written, or that lost its power: no checksum matches.
BlankStore == [state |-> DefaultRecord.state, mail |-> DefaultRecord.mail, sum |-> {}]

\* What a write of `new' over `old' can leave behind when it is cut short:
\* every word is the old one or the new one.
Mixes(old, new) ==
    [state : {old.state, new.state}, mail : {old.mail, new.mail}, sum : {old.sum, new.sum}]

\* What a SmartEEPROM write leaves when a word reads back wrong: the words are
\* written in order and the write stops at the first that does not take.
Prefixes(old, new) ==
    {old, [old EXCEPT !.state = new.state], [new EXCEPT !.sum = old.sum]} \ {new}

=============================================================================
