-------------------------- MODULE BootRecord_proofs --------------------------
(***************************************************************************)
(* Lemmas about the operators of BootRecord: what an amended record is,    *)
(* and what a torn write can be read as.                                   *)
(***************************************************************************)
EXTENDS BootRecord, TLAPS

\* Every amendment of a record is a record.
LEMMA SetBankType ==
    ASSUME NEW r \in Record, NEW b \in Banks, NEW s \in BankStates
    PROVE  SetBank(r, b, s) \in Record
BY DEF SetBank, Record, StateWord

LEMMA OtherBank == \A b \in Banks : Other(b) \in Banks /\ Other(b) # b /\ Other(Other(b)) = b
BY DEF Other, Banks

LEMMA SaturatingIncType == \A n \in 0 .. U8Max : SaturatingInc(n) \in 0 .. U8Max
BY U8MaxAssumption DEF SaturatingInc

LEMMA MarkNewType ==
    ASSUME NEW r \in Record, NEW b \in Banks
    PROVE  MarkNew(r, b) \in Record
BY SetBankType, OtherBank DEF MarkNew, BankStates

LEMMA SetFieldTypes ==
    ASSUME NEW r \in Record
    PROVE  /\ \A n \in 0 .. U8Max : SetCount(r, n) \in Record
           /\ \A why \in Reasons : SetReason(r, why) \in Record
           /\ \A on \in BOOLEAN : /\ SetRequest(r, on) \in Record
                                  /\ SetConfirmed(r, on) \in Record
                                  /\ SetRejected(r, on) \in Record
<1>1. \A n \in 0 .. U8Max : SetCount(r, n) \in Record
  BY DEF SetCount, Record, StateWord
<1>2. \A why \in Reasons : SetReason(r, why) \in Record
  BY DEF SetReason, Record, StateWord
<1>3. \A on \in BOOLEAN : SetRequest(r, on) \in Record
  BY DEF SetRequest, Record, MailWord
<1>4. \A on \in BOOLEAN : SetConfirmed(r, on) \in Record
  BY DEF SetConfirmed, Record, MailWord
<1>5. \A on \in BOOLEAN : SetRejected(r, on) \in Record
  BY DEF SetRejected, Record, MailWord
<1>6. QED
  BY <1>1, <1>2, <1>3, <1>4, <1>5

\* Which fields an amendment leaves alone.
LEMMA AmendFrames ==
    ASSUME NEW r \in Record
    PROVE  /\ \A n : SetCount(r, n).state.bank = r.state.bank /\ SetCount(r, n).mail = r.mail
                     /\ SetCount(r, n).state.count = n
           /\ \A why : SetReason(r, why).state.bank = r.state.bank /\ SetReason(r, why).mail = r.mail
                       /\ SetReason(r, why).state.count = r.state.count
           /\ \A on : /\ SetRequest(r, on).state = r.state
                      /\ SetRequest(r, on).mail.confirmed = r.mail.confirmed
                      /\ SetRequest(r, on).mail.rejected = r.mail.rejected
                      /\ SetConfirmed(r, on).state = r.state
                      /\ SetConfirmed(r, on).mail.request = r.mail.request
                      /\ SetConfirmed(r, on).mail.rejected = r.mail.rejected
                      /\ SetRejected(r, on).state = r.state
                      /\ SetRejected(r, on).mail.request = r.mail.request
                      /\ SetRejected(r, on).mail.confirmed = r.mail.confirmed
<1>1. \A n : SetCount(r, n).state.bank = r.state.bank /\ SetCount(r, n).mail = r.mail
             /\ SetCount(r, n).state.count = n
  BY DEF SetCount, Record, StateWord
<1>2. \A why : SetReason(r, why).state.bank = r.state.bank /\ SetReason(r, why).mail = r.mail
               /\ SetReason(r, why).state.count = r.state.count
  BY DEF SetReason, Record, StateWord
<1>3. \A on : /\ SetRequest(r, on).state = r.state
              /\ SetRequest(r, on).mail.confirmed = r.mail.confirmed
              /\ SetRequest(r, on).mail.rejected = r.mail.rejected
  BY DEF SetRequest, Record, MailWord
<1>4. \A on : /\ SetConfirmed(r, on).state = r.state
              /\ SetConfirmed(r, on).mail.request = r.mail.request
              /\ SetConfirmed(r, on).mail.rejected = r.mail.rejected
  BY DEF SetConfirmed, Record, MailWord
<1>5. \A on : /\ SetRejected(r, on).state = r.state
              /\ SetRejected(r, on).mail.request = r.mail.request
              /\ SetRejected(r, on).mail.confirmed = r.mail.confirmed
  BY DEF SetRejected, Record, MailWord
<1>6. QED
  BY <1>1, <1>2, <1>3, <1>4, <1>5

\* What a set flag says.
LEMMA FlagEffect ==
    ASSUME NEW r \in Record
    PROVE  /\ SetRequest(r, TRUE).mail.request /\ ~SetRequest(r, FALSE).mail.request
           /\ SetConfirmed(r, TRUE).mail.confirmed /\ ~SetConfirmed(r, FALSE).mail.confirmed
           /\ SetRejected(r, TRUE).mail.rejected /\ ~SetRejected(r, FALSE).mail.rejected
BY DEF SetRequest, SetConfirmed, SetRejected, Record, MailWord

\* What marking a bank does to both banks.
LEMMA SetBankEffect ==
    ASSUME NEW r \in Record, NEW b \in Banks, NEW s \in BankStates
    PROVE  /\ SetBank(r, b, s).state.bank[b] = s
           /\ SetBank(r, b, s).state.bank[Other(b)] = r.state.bank[Other(b)]
           /\ SetBank(r, b, s).state.count = r.state.count
           /\ SetBank(r, b, s).mail = r.mail
BY OtherBank DEF SetBank, Record, StateWord

\* mark_new keeps at most one bank New and changes no other mark than a New.
LEMMA MarkNewEffect ==
    ASSUME NEW r \in Record, NEW b \in Banks
    PROVE  /\ MarkNew(r, b).state.bank[b] = "New"
           /\ MarkNew(r, b).state.bank[Other(b)] # "New"
           /\ MarkNew(r, b).state.bank[Other(b)] \in {r.state.bank[Other(b)], "None"}
           /\ MarkNew(r, b).mail = r.mail
<1>1. /\ SetBank(r, Other(b), "None") \in Record
      /\ SetBank(r, Other(b), "None").state.bank[Other(b)] = "None"
      /\ SetBank(r, Other(b), "None").mail = r.mail
  BY OtherBank, SetBankType, SetBankEffect DEF BankStates
<1>2. CASE r.state.bank[Other(b)] = "New"
  BY <1>1, <1>2, SetBankEffect DEF MarkNew, BankStates
<1>3. CASE r.state.bank[Other(b)] # "New"
  BY <1>3, SetBankEffect DEF MarkNew, BankStates
<1>4. QED
  BY <1>2, <1>3

LEMMA DefaultRecordType == DefaultRecord \in Record
BY U8MaxAssumption DEF DefaultRecord, Record, StateWord, MailWord, Banks, BankStates, Reasons

-----------------------------------------------------------------------------

LEMMA WordsTypes ==
    /\ BlankStore \in Words
    /\ \A r \in Record : Seal(r) \in Words
    /\ \A w \in Words : ReadRecord(w) \in Record
<1>1. BlankStore \in Words
  BY DefaultRecordType DEF BlankStore, Words, Sums, Record
<1>2. \A r \in Record : Seal(r) \in Words
  BY DEF Seal, Words, Sums, Record
<1>3. \A w \in Words : ReadRecord(w) \in Record
  BY DefaultRecordType DEF ReadRecord, Spelled, Words, Record
<1>4. QED
  BY <1>1, <1>2, <1>3

\* A write that was cut short or failed leaves words, and the checksum word is
\* the one that was there or the one of the record being written.
LEMMA TornTypes ==
    ASSUME NEW w \in Words, NEW r \in Record
    PROVE  /\ \A m \in Mixes(w, Seal(r)) : m \in Words /\ m.sum \in {w.sum, {r}}
           /\ Prefixes(w, Seal(r)) \subseteq Mixes(w, Seal(r))
<1>1. Seal(r) \in Words
  BY WordsTypes
<1>2. \A m \in Mixes(w, Seal(r)) : m \in Words /\ m.sum \in {w.sum, {r}}
  BY <1>1 DEF Mixes, Words, Seal
<1>3. Prefixes(w, Seal(r)) \subseteq Mixes(w, Seal(r))
  BY <1>1 DEF Mixes, Prefixes, Words, Seal
<1>4. QED
  BY <1>2, <1>3

\* What is read back is a record some write sealed, or the fresh default.
LEMMA ReadIsSealed ==
    \A w \in Words : ReadRecord(w) \in w.sum \cup {DefaultRecord}
BY DEF ReadRecord, Validated, Words

\* A sealed record reads back as itself.
LEMMA SealReads == \A r \in Record : ReadRecord(Seal(r)) = r
BY DEF ReadRecord, Validated, Spelled, Seal, Record

=============================================================================
