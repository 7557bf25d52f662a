------------------------ MODULE DevicePromises_proofs ------------------------
(***************************************************************************)
(* The promises the record keeps from one boot to the next, proved for     *)
(* every set of images, every length of the app region, every attempt      *)
(* budget and every number of faults: trials are counted, confirmations    *)
(* and rejections stay with the image that made them, a condemned image    *)
(* does not run, a trial is watched and a request is not lost.             *)
(***************************************************************************)
EXTENDS Device_proofs

-----------------------------------------------------------------------------
(* What the arms of boot_or_enter_download know and what they write.        *)

New(r, b) == r.state.bank[b] = "New"

LEMMA DispositionMeans ==
    ASSUME NEW r \in Record, firstBank \in Banks, NEW d, d = Disposition(r)
    PROVE  /\ d = "ResumeInstall" => New(r, Inactive)
           /\ d # "ResumeInstall" => ~New(r, Inactive)
           /\ d = "Reject" => r.mail.rejected
           /\ d \notin {"ResumeInstall", "Reject"} => ~r.mail.rejected
           /\ d = "Promote" => New(r, firstBank) /\ r.mail.confirmed
           /\ d = "Trial" => New(r, firstBank) /\ SaturatingInc(r.state.count) <= MaxAttempts
           /\ d = "SteadyBoot" => r.state.bank[firstBank] \notin {"New", "Invalid"}
           /\ d = "Rollback" => ~New(r, firstBank)
<1>1. d = "Trial" => SaturatingInc(r.state.count) <= MaxAttempts
  <2>1. SaturatingInc(r.state.count) \in Nat /\ MaxAttempts \in Nat
    BY SaturatingIncType, BootloaderAssumption, U8MaxAssumption DEF Record, StateWord
  <2>2. QED
    BY <2>1 DEF Disposition
<1>2. QED
  BY <1>1 DEF Disposition, New

LEMMA DefaultIsSteady ==
    firstBank \in Banks => Disposition(DefaultRecord) = "SteadyBoot"
BY InactiveType DEF Disposition, DefaultRecord

LEMMA HeldTypes == TypeOK => Held \cup {DefaultRecord} \subseteq Record
BY DefaultRecordType DEF TypeOK, CoreTypes, Held, Words, Sums

LEMMA HeldStep == TypeOK /\ [Next]_vars => Held' \subseteq Held \cup Requested \cup {work'}
BY SumStep DEF Held

\* What each record that BOOT writes keeps of the one it read.
LEMMA Keeps ==
    ASSUME NEW r \in Record, firstBank \in Banks
    PROVE  /\ LET p == Promoted(r)
              IN  /\ p.state.bank[firstBank] = "Valid"
                  /\ p.state.bank[Inactive] = r.state.bank[Inactive]
                  /\ ~p.mail.confirmed /\ p.mail.rejected = r.mail.rejected
                  /\ p.mail.request = r.mail.request
           /\ LET t == TrialRecord(r)
              IN  /\ New(t, Inactive)
                  /\ t.state.bank[firstBank] # "New"
                  /\ t.state.bank[firstBank] \in {r.state.bank[firstBank], "None"}
                  /\ ~t.mail.confirmed /\ ~t.mail.rejected
                  /\ t.mail.request = r.mail.request
           /\ \A why :
                LET v == SetReason(SetBank(r, firstBank, "Invalid"), why)
                IN  /\ v.state.bank[firstBank] = "Invalid"
                    /\ v.state.bank[Inactive] = r.state.bank[Inactive]
                    /\ v.state.count = r.state.count /\ v.mail = r.mail
           /\ LET c == SetBank(r, Inactive, "Invalid")
              IN  /\ c.state.bank[Inactive] = "Invalid"
                  /\ c.state.bank[firstBank] = r.state.bank[firstBank]
                  /\ c.state.count = r.state.count /\ c.mail = r.mail
<1>1. Inactive \in Banks /\ Inactive = Other(firstBank) /\ Other(Inactive) = firstBank
  BY InactiveType DEF Inactive
<1>2. LET p == Promoted(r)
      IN  /\ p.state.bank[firstBank] = "Valid"
          /\ p.state.bank[Inactive] = r.state.bank[Inactive]
          /\ ~p.mail.confirmed /\ p.mail.rejected = r.mail.rejected
          /\ p.mail.request = r.mail.request
  <2> DEFINE v == SetBank(r, firstBank, "Valid")
             c == SetCount(v, 0)
             w == SetReason(c, "None")
  <2>1. v \in Record /\ v.mail = r.mail /\ v.state.bank[firstBank] = "Valid"
        /\ v.state.bank[Inactive] = r.state.bank[Inactive]
    <3>1. v \in Record
      BY SetBankType DEF BankStates
    <3>2. QED
      BY <1>1, <3>1, SetBankEffect DEF BankStates
  <2> HIDE DEF v
  <2>2. c \in Record /\ c.mail = v.mail /\ c.state.bank = v.state.bank
    BY <2>1, SetFieldTypes, AmendFrames, U8MaxAssumption
  <2> HIDE DEF c
  <2>3. w \in Record /\ w.mail = c.mail /\ w.state.bank = c.state.bank
    BY <2>2, SetFieldTypes, AmendFrames DEF Reasons
  <2>4. Promoted(r) = SetConfirmed(w, FALSE)
    BY DEF Promoted, v, c, w
  <2> HIDE DEF w
  <2>5. w \in Record
    BY <2>3
  <2>6. ~SetConfirmed(w, FALSE).mail.confirmed
    BY <2>5, FlagEffect
  <2>7. /\ SetConfirmed(w, FALSE).state = w.state
        /\ SetConfirmed(w, FALSE).mail.request = w.mail.request
        /\ SetConfirmed(w, FALSE).mail.rejected = w.mail.rejected
    BY <2>5, AmendFrames
  <2>8. QED
    BY <2>1, <2>2, <2>3, <2>4, <2>6, <2>7
<1>3. LET t == TrialRecord(r)
      IN  /\ New(t, Inactive)
          /\ t.state.bank[firstBank] # "New"
          /\ t.state.bank[firstBank] \in {r.state.bank[firstBank], "None"}
          /\ ~t.mail.confirmed /\ ~t.mail.rejected
          /\ t.mail.request = r.mail.request
  <2> DEFINE m == MarkNew(r, Inactive)
             c == SetCount(m, 0)
             n == SetConfirmed(c, FALSE)
  <2>1. m \in Record /\ m.mail = r.mail /\ New(m, Inactive) /\ ~New(m, firstBank)
        /\ m.state.bank[firstBank] \in {r.state.bank[firstBank], "None"}
    BY <1>1, MarkNewType, MarkNewEffect DEF New
  <2> HIDE DEF m
  <2>2. c \in Record /\ c.mail = m.mail /\ c.state.bank = m.state.bank
    BY <2>1, SetFieldTypes, AmendFrames, U8MaxAssumption
  <2> HIDE DEF c
  <2>3. n \in Record /\ n.state = c.state /\ ~n.mail.confirmed /\ n.mail.request = c.mail.request
    <3>1. n \in Record
      BY <2>2, SetFieldTypes
    <3>2. n.state = c.state /\ n.mail.request = c.mail.request
      BY <2>2, AmendFrames
    <3>3. ~n.mail.confirmed
      BY <2>2, FlagEffect
    <3>4. QED
      BY <3>1, <3>2, <3>3
  <2>4. TrialRecord(r) = SetRejected(n, FALSE)
    BY DEF TrialRecord, m, c, n
  <2> HIDE DEF n
  <2>5. n \in Record
    BY <2>3
  <2>6. ~SetRejected(n, FALSE).mail.rejected
    BY <2>5, FlagEffect
  <2>7. /\ SetRejected(n, FALSE).state = n.state
        /\ SetRejected(n, FALSE).mail.request = n.mail.request
        /\ SetRejected(n, FALSE).mail.confirmed = n.mail.confirmed
    BY <2>5, AmendFrames
  <2>8. QED
    BY <2>1, <2>2, <2>3, <2>4, <2>6, <2>7 DEF New
<1>4. ASSUME NEW why
      PROVE  LET v == SetReason(SetBank(r, firstBank, "Invalid"), why)
             IN  /\ v.state.bank[firstBank] = "Invalid"
                 /\ v.state.bank[Inactive] = r.state.bank[Inactive]
                 /\ v.state.count = r.state.count /\ v.mail = r.mail
  <2> DEFINE s == SetBank(r, firstBank, "Invalid")
  <2>1. s \in Record /\ s.state.bank[firstBank] = "Invalid" /\ s.mail = r.mail
        /\ s.state.bank[Inactive] = r.state.bank[Inactive] /\ s.state.count = r.state.count
    <3>1. s \in Record
      BY SetBankType DEF BankStates
    <3>2. QED
      BY <1>1, <3>1, SetBankEffect DEF BankStates
  <2> HIDE DEF s
  <2>2. QED
    BY <2>1, AmendFrames DEF s
<1>5. LET c == SetBank(r, Inactive, "Invalid")
      IN  /\ c.state.bank[Inactive] = "Invalid"
          /\ c.state.bank[firstBank] = r.state.bank[firstBank]
          /\ c.state.count = r.state.count /\ c.mail = r.mail
  BY <1>1, SetBankEffect DEF BankStates
<1>6. QED
  BY <1>2, <1>3, <1>4, <1>5

\* What a call of the application asks the store to write.
LEMMA CallsAmend ==
    ASSUME Rec \in Record
    PROVE  /\ Confirm => /\ goal' = "confirm" /\ work' = SetConfirmed(Rec, TRUE)
                         /\ work'.mail.confirmed /\ work'.mail.rejected = Rec.mail.rejected
           /\ RejectImage => /\ goal' = "reject" /\ work' = SetRejected(Rec, TRUE)
                             /\ work'.mail.confirmed = Rec.mail.confirmed
           /\ RequestUpdate => /\ goal' = "request" /\ work' = SetRequest(Rec, TRUE)
                               /\ work'.mail.confirmed = Rec.mail.confirmed
                               /\ work'.mail.rejected = Rec.mail.rejected
           /\ Confirm \/ RejectImage \/ RequestUpdate =>
                /\ work'.state = Rec.state
                /\ pc = "app" /\ pc' = "commit"
                /\ UNCHANGED <<firstBank, flash, store, trialWdt, served, decayed, blind>>
<1>1. Confirm => goal' = "confirm" /\ work' = SetConfirmed(Rec, TRUE)
  BY DEF Confirm, Call, Commit, Rec
<1>2. RejectImage => goal' = "reject" /\ work' = SetRejected(Rec, TRUE)
  BY DEF RejectImage, Call, Commit, Rec
<1>3. RequestUpdate => goal' = "request" /\ work' = SetRequest(Rec, TRUE)
  BY DEF RequestUpdate, Call, Commit, Rec
<1>4. Confirm \/ RejectImage \/ RequestUpdate =>
        /\ pc = "app" /\ pc' = "commit"
        /\ UNCHANGED <<firstBank, flash, store, trialWdt, served, decayed, blind>>
  BY DEF Confirm, RejectImage, RequestUpdate, Call, Commit, device
<1>5. SetConfirmed(Rec, TRUE).mail.confirmed
  BY FlagEffect
<1>6. /\ SetConfirmed(Rec, TRUE).state = Rec.state
      /\ SetConfirmed(Rec, TRUE).mail.rejected = Rec.mail.rejected
  BY AmendFrames
<1>7. /\ SetRejected(Rec, TRUE).state = Rec.state
      /\ SetRejected(Rec, TRUE).mail.confirmed = Rec.mail.confirmed
  BY AmendFrames
<1>8. /\ SetRequest(Rec, TRUE).state = Rec.state
      /\ SetRequest(Rec, TRUE).mail.confirmed = Rec.mail.confirmed
      /\ SetRequest(Rec, TRUE).mail.rejected = Rec.mail.rejected
  BY AmendFrames
<1>9. QED
  BY <1>1, <1>2, <1>3, <1>4, <1>5, <1>6, <1>7, <1>8

-----------------------------------------------------------------------------
(* Trials are counted.                                                      *)
(*                                                                          *)
(* The count that limits trials is a field of the record, and the record    *)
(* that is read may be an old one: every record that may yet be read and    *)
(* calls a bank New must count the boots already given to that bank.        *)

Counted(r) == \A b \in Banks : New(r, b) => served[b] <= r.state.count

\* A trial that is being counted is paid for by the count being written.
Paid == (pc = "commit" /\ goal = "countTrial") =>
            served[firstBank] < work.state.count /\ work.state.count <= MaxAttempts

BudgetInv ==
    /\ TypeOK
    /\ \A b \in Banks : served[b] <= MaxAttempts
    /\ \A r \in Held : Counted(r)
    /\ Paid

LEMMA DefaultCounted == Counted(DefaultRecord)
BY DEF Counted, New, DefaultRecord

\* Losing a New or counting further keeps a record counted.
LEMMA CountedMarks ==
    ASSUME TypeOK, NEW r \in Record, NEW s \in Record, Counted(r),
           \A b \in Banks : New(s, b) => New(r, b),
           r.state.count <= s.state.count
    PROVE  Counted(s)
BY DEF Counted, New, TypeOK, Record, StateWord

LEMMA BudgetBoot ==
    ASSUME BudgetInv, BootMove, UNCHANGED served, MaxAttempts < U8Max
    PROVE  Counted(work') /\ Paid'
<1>1. Rec \in Record /\ firstBank \in Banks /\ Inactive \in Banks /\ Inactive # firstBank
  BY RecType, InactiveType DEF BudgetInv, TypeOK
<1>2. Counted(Rec)
  BY RecHeld, DefaultCounted DEF BudgetInv
<1>3. Rec.state.count \in 0 .. U8Max /\ MaxAttempts \in Nat /\ U8Max \in Nat
  BY <1>1, BootloaderAssumption, U8MaxAssumption DEF Record, StateWord
<1>4. CASE \E p \in {"swap", "listen", "app"} : Goto(p)
  BY <1>4, DefaultCounted DEF Goto, Paid
<1>5. CASE Commit("clearRequest", SetRequest(Rec, FALSE))
  <2>1. SetRequest(Rec, FALSE) \in Record /\ SetRequest(Rec, FALSE).state = Rec.state
    BY <1>1, SetFieldTypes, AmendFrames
  <2>2. Counted(SetRequest(Rec, FALSE))
    BY <1>2, <2>1 DEF Counted, New
  <2>3. QED
    BY <1>5, <2>2 DEF Commit, Paid
<1>6. CASE Commit("promote", Promoted(Rec)) /\ Disposition(Rec) = "Promote"
  <2>1. \A b \in Banks : ~New(Promoted(Rec), b)
    BY <1>1, <1>6, Keeps, DispositionMeans, BanksAre DEF New
  <2>2. QED
    BY <1>6, <2>1 DEF Commit, Paid, Counted
<1>7. CASE /\ Commit("countTrial", SetCount(Rec, SaturatingInc(Rec.state.count)))
           /\ Disposition(Rec) = "Trial"
  <2> DEFINE n == SaturatingInc(Rec.state.count)
             c == SetCount(Rec, n)
  <2>1. New(Rec, firstBank) /\ n <= MaxAttempts
    BY <1>1, <1>7, DispositionMeans
  <2>2. n = Rec.state.count + 1 /\ n \in 0 .. U8Max
    BY <1>3, <2>1 DEF SaturatingInc
  <2>3. c \in Record /\ c.state.bank = Rec.state.bank /\ c.state.count = n
    BY <1>1, <2>2, SetFieldTypes, AmendFrames
  <2> HIDE DEF n, c
  <2>4. Counted(c)
    <3>1. Rec.state.count <= n
      BY <1>3, <2>2
    <3>2. \A b \in Banks : New(c, b) => New(Rec, b)
      BY <2>3 DEF New
    <3>3. QED
      BY <1>1, <1>2, <2>3, <3>1, <3>2, CountedMarks DEF BudgetInv
  <2>5. served[firstBank] < c.state.count
    <3>1. served[firstBank] \in Nat /\ served[firstBank] <= Rec.state.count
      BY <1>1, <1>2, <2>1 DEF Counted, BudgetInv, TypeOK
    <3>2. QED
      BY <1>3, <2>2, <2>3, <3>1
  <2>6. work' = c /\ UNCHANGED firstBank
    BY <1>7 DEF Commit, device, c, n
  <2>7. QED
    BY <2>1, <2>3, <2>4, <2>5, <2>6 DEF Paid
<1>8. CASE \E r \in {Rec, SetRejected(Rec, FALSE)}, why \in Reasons : Revert(r, why)
  <2>1. PICK r \in {Rec, SetRejected(Rec, FALSE)}, why \in Reasons : Revert(r, why)
    BY <1>8
  <2>2. r \in Record /\ r.state = Rec.state
    <3>1. SetRejected(Rec, FALSE) \in Record
      BY <1>1, SetFieldTypes
    <3>2. SetRejected(Rec, FALSE).state = Rec.state
      BY <1>1, AmendFrames
    <3>3. QED
      BY <1>1, <3>1, <3>2
  <2> DEFINE v == SetReason(SetBank(r, firstBank, "Invalid"), why)
  <2>3. v \in Record
    BY <1>1, <2>2, AmendedTypes
  <2>4. v.state.bank[firstBank] = "Invalid" /\ v.state.bank[Inactive] = r.state.bank[Inactive]
        /\ v.state.count = r.state.count
    BY <1>1, <2>2, Keeps
  <2> HIDE DEF v
  <2>5. Counted(v)
    BY <1>1, <1>2, <2>2, <2>3, <2>4, BanksAre DEF Counted, New
  <2>6. QED
    BY <2>1, <2>5 DEF Revert, Commit, Paid, v
<1>9. QED
  BY <1>4, <1>5, <1>6, <1>7, <1>8 DEF BootMove, Reasons


LEMMA BudgetStep ==
    ASSUME MaxAttempts < U8Max, BudgetInv, [Next]_vars
    PROVE  BudgetInv'
<1>1. /\ TypeOK /\ TypeOK' /\ Rec \in Record /\ work \in Record /\ work' \in Record
      /\ firstBank \in Banks /\ Inactive \in Banks /\ Inactive # firstBank
  BY TypeStep, RecType, InactiveType DEF BudgetInv, TypeOK, CoreTypes
<1>2. Held' \subseteq Held \cup Requested \cup {work'}
  BY <1>1, HeldStep
<1>3. \A r \in Held \cup {DefaultRecord} \cup Requested : Counted(r)
  BY <1>1, RequestedMarks, DefaultCounted DEF BudgetInv, Counted, New
<1>4. Counted(Rec)
  BY <1>1, <1>3, RecHeld
\* It is enough that no trial is given and the record in RAM counts the old ones.
<1>5. ASSUME UNCHANGED served,
             work' \in Held \cup {DefaultRecord} \/ Counted(work'),
             Paid'
      PROVE  BudgetInv'
  <2>1. \A r : Counted(r)' <=> Counted(r)
    BY <1>5 DEF Counted, New
  <2>2. \A r \in Held' : Counted(r)
    BY <1>2, <1>3, <1>5
  <2>3. QED
    BY <1>1, <1>5, <2>1, <2>2 DEF BudgetInv
<1>6. CASE BootOrEnterDownload
  BY <1>5, <1>6, BootMoves, BudgetBoot DEF history
<1>7. CASE WriteLands
  <2>1. pc = "commit" /\ pc' # "commit" /\ work' \in {work, DefaultRecord} /\ store'.sum = {work}
    BY <1>7 DEF WriteLands, AfterWrite, Seal
  <2>2. CASE goal # "countTrial"
    BY <1>5, <1>7, <2>1, <2>2 DEF WriteLands, Paid, Held
  <2>3. CASE goal = "countTrial"
    <3>1. served' = [served EXCEPT ![firstBank] = @ + 1]
      BY <1>7, <2>3 DEF WriteLands
    <3>2. served[firstBank] < work.state.count /\ work.state.count <= MaxAttempts
      BY <2>1, <2>3 DEF BudgetInv, Paid
    <3>3. \A b \in Banks : served[b] \in Nat
      BY <1>1 DEF TypeOK
    <3>4. served'[firstBank] = served[firstBank] + 1 /\ \A b \in Banks \ {firstBank} : served'[b] = served[b]
      BY <1>1, <3>1 DEF TypeOK
    <3>5. work.state.count \in Nat /\ MaxAttempts \in Nat
      BY <1>1, BootloaderAssumption, U8MaxAssumption DEF Record, StateWord
    <3>6. served'[firstBank] <= work.state.count /\ served'[firstBank] <= MaxAttempts
      BY <1>1, <3>2, <3>3, <3>4, <3>5
    <3>7. \A b \in Banks : served'[b] <= MaxAttempts
      BY <3>4, <3>6 DEF BudgetInv
    <3>8. Counted(work)'
      <4>1. Counted(work)
        BY <1>3 DEF Held
      <4>2. \A b \in Banks : New(work, b) => served'[b] <= work.state.count
        BY <3>4, <3>6, <4>1 DEF Counted
      <4>3. CASE work' = work
        BY <4>2, <4>3 DEF Counted, New
      <4>4. CASE work' = DefaultRecord
        BY <4>4 DEF Counted, New, DefaultRecord
      <4>5. QED
        BY <2>1, <4>3, <4>4
    <3>9. \A r \in Held' : Counted(r)'
      <4>1. Counted(work)' /\ \A b \in Banks : New(work, b) => served'[b] <= work.state.count
        BY <1>3, <3>4, <3>6, <3>8 DEF Counted, Held
      <4>2. QED
        BY <2>1, <4>1 DEF Held, Counted, New
    <3>10. QED
      BY <1>1, <2>1, <3>7, <3>9 DEF BudgetInv, Paid
  <2>4. QED
    BY <2>2, <2>3
<1>8. CASE WriteFails
  BY <1>5, <1>8 DEF WriteFails, AfterError, Paid, history
<1>9. CASE SwapReboot
  BY <1>5, <1>9 DEF SwapReboot, Reset, Paid, history
<1>10. CASE BootUnreadable
  BY <1>5, <1>10 DEF BootUnreadable, Jump, Goto, Paid
<1>11. CASE HostStep
  <2>1. PICK i \in Images : BeginInstall(i) \/ RefuseTooLarge(i)
    BY <1>11 DEF HostStep
  <2>2. CASE BeginInstall(i)
    <3>1. \E r \in {Rec, DefaultRecord} : work' = SetBank(r, Inactive, "Invalid")
      BY <2>2 DEF BeginInstall, Rec
    <3>2. PICK r \in {Rec, DefaultRecord} : work' = SetBank(r, Inactive, "Invalid")
      BY <3>1
    <3>3. r \in Record /\ Counted(r)
      BY <1>1, <1>3, <1>4, DefaultRecordType
    <3>4. /\ work'.state.bank[Inactive] = "Invalid" /\ work'.state.count = r.state.count
          /\ work'.state.bank[firstBank] = r.state.bank[firstBank]
      BY <1>1, <3>2, <3>3, Keeps
    <3>5. Counted(work')
      BY <1>1, <3>3, <3>4, BanksAre DEF Counted, New
    <3>6. QED
      BY <1>5, <2>2, <3>5 DEF BeginInstall, Paid
  <2>3. CASE RefuseTooLarge(i)
    BY <1>5, <2>3 DEF RefuseTooLarge, Goto, Paid, history
  <2>4. QED
    BY <2>1, <2>2, <2>3
<1>12. CASE ReceiveStep
  <2>1. CASE \E c \in {incoming.img, Blank} : BurnBlock(c)
    BY <1>5, <2>1 DEF BurnBlock, BlockDue, Burn, Paid, Held
  <2>2. CASE FlashFails
    BY <1>5, <2>2 DEF FlashFails, Burn, Paid
  <2>3. CASE EndStream
    <3>1. pc' # "commit" \/ goal' = "recordTrial"
      BY <2>3 DEF EndStream, Commit, Goto
    <3>2. CASE UNCHANGED served /\ work' = DefaultRecord
      BY <1>5, <3>1, <3>2 DEF Paid
    <3>3. CASE work' = TrialRecord(work) /\ served' = [served EXCEPT ![Inactive] = 0]
      <4>1. served'[Inactive] = 0 /\ served'[firstBank] = served[firstBank]
        BY <1>1, <3>3 DEF TypeOK
      <4>2. ~New(work', firstBank)
        BY <1>1, <3>3, Keeps DEF New
      <4>3. \A r \in Record : r.state.count \in Nat /\ 0 <= r.state.count
        BY U8MaxAssumption DEF Record, StateWord
      <4>4. \A r \in Held \cup Requested : r \in Record
        BY <1>1, HeldTypes, SetFieldTypes DEF Requested
      <4>5. \A r \in Held' : \A b \in Banks : New(r, b) => served'[b] <= r.state.count
        BY <1>1, <1>2, <1>3, <4>1, <4>2, <4>3, <4>4, BanksAre DEF Counted
      <4>6. \A b \in Banks : served'[b] <= MaxAttempts
        BY <1>1, <4>1, BootloaderAssumption, BanksAre DEF BudgetInv
      <4>7. QED
        BY <1>1, <3>1, <4>5, <4>6 DEF BudgetInv, Counted, New, Paid
    <3>4. QED
      BY <2>3, <3>2, <3>3 DEF EndStream, Commit, Goto
  <2>4. QED
    BY <1>12, <2>1, <2>2, <2>3 DEF ReceiveStep
<1>13. CASE AppStep
  <2>1. CASE AppReset
    BY <1>5, <2>1 DEF AppReset, Reset, Paid, history
  <2>2. CASE Confirm \/ RejectImage \/ RequestUpdate
    <3>1. work'.state = Rec.state
      BY <1>1, <2>2, CallsAmend
    <3>2. UNCHANGED served /\ goal' # "countTrial"
      BY <2>2 DEF Confirm, RejectImage, RequestUpdate, Call, Commit
    <3>3. QED
      BY <1>4, <1>5, <3>1, <3>2 DEF Counted, New, Paid
  <2>3. QED
    BY <1>13, <2>1, <2>2 DEF AppStep
<1>14. CASE WatchdogBites
  BY <1>5, <1>14 DEF WatchdogBites, Reset, Paid, history
<1>15. CASE FaultStep
  <2>1. CASE ExternalReset \/ PowerCut
    BY <1>5, <2>1 DEF ExternalReset, PowerCut, Reset, Paid, history
  <2>2. CASE Wear \/ \E b \in Banks : Decay(b)
    BY <1>5, <2>2 DEF Wear, Decay, core, device, history, Held, BudgetInv, Paid
  <2>3. CASE DebuggerRequest
    <3>1. UNCHANGED <<served, firstBank>> /\ (Reset \/ (pc # "commit" /\ UNCHANGED core))
      BY <1>1, <2>3, DebuggerTypes
    <3>2. QED
      BY <1>5, <3>1 DEF Reset, core, Held, Paid
  <2>4. QED
    BY <1>15, <2>1, <2>2, <2>3 DEF FaultStep
<1>16. CASE UNCHANGED vars
  BY <1>5, <1>16 DEF vars, device, core, history, Held, BudgetInv, Paid
<1>17. QED
  BY <1>6, <1>7, <1>8, <1>9, <1>10, <1>11, <1>12, <1>13, <1>14, <1>15, <1>16 DEF Next, BootStep

LEMMA BudgetInit == Init => BudgetInv
<1> SUFFICES ASSUME Init
             PROVE  BudgetInv
  OBVIOUS
<1>1. Held = {DefaultRecord}
  BY DEF Init, Held, BlankStore
<1>2. \A b \in Banks : served[b] <= MaxAttempts
  BY BootloaderAssumption DEF Init
<1>3. QED
  BY <1>1, <1>2, InitTypes, DefaultCounted DEF Init, BudgetInv, Paid

\* Below the largest count, no image is given more trial boots than the budget,
\* whatever is cut, torn, worn, misread or amended by a debugger.  With the
\* budget at the largest count the count saturates and a trial never ends.
THEOREM TrialsAreCounted == ASSUME MaxAttempts < U8Max PROVE Spec => []TrialBudget
<1>1. BudgetInv /\ [Next]_vars => BudgetInv'
  BY BudgetStep
<1>2. BudgetInv => TrialBudget
  BY DEF BudgetInv, TrialBudget
<1>3. QED
  BY BudgetInit, <1>1, <1>2, PTL DEF Spec

-----------------------------------------------------------------------------
(* Confirmations and rejections stay with the image that made them.         *)
(*                                                                          *)
(* The flags live in one mailbox and the banks swap under it.  So a record  *)
(* that may yet be read must carry no flag into a bank that is to become    *)
(* active, and none must be set while such a swap is pending.  A boot that  *)
(* could not read the record breaks the second: hence ~blind.               *)

Flagged(r) ==
    /\ \A b \in Banks : r.state.bank[b] = "Valid" => vouched[b]
    /\ New(r, firstBank) /\ r.mail.confirmed => vouched[firstBank]
    /\ New(r, Inactive) => ~r.mail.confirmed /\ ~r.mail.rejected
    /\ r.mail.rejected => disowned[firstBank]

\* A record that leads to a swap marks the outgoing bank and holds no rejection.
Outgoing(r) == ~New(r, firstBank) /\ ~r.mail.rejected

FlagPhases ==
    /\ pc = "commit" => goal # "none"
    /\ pc = "swap" => \A r \in Held : Outgoing(r)
    /\ (pc = "commit" /\ goal \in {"revert", "recordTrial"}) => Outgoing(work)
    /\ (pc = "commit" /\ goal \in AppGoals \cup {"promote", "countTrial"}) => ~New(work, Inactive)
    /\ AppRunning => ~New(Rec, Inactive)
    /\ (pc = "commit" /\ goal = "revert" /\ work.state.reason = "AppRejected") => disowned[firstBank]

Flags == (\A r \in Held : Flagged(r)) /\ FlagPhases

FlagsInv == SoundInv /\ (~blind => Flags)

LEMMA DefaultFlagged == TypeOK => Flagged(DefaultRecord) /\ Outgoing(DefaultRecord)
BY InactiveType DEF TypeOK, Flagged, Outgoing, New, DefaultRecord

LEMMA Unblind ==
    ASSUME TypeOK, [Next]_vars, ~blind'
    PROVE  /\ ~blind /\ ~BootUnreadable /\ (DebuggerRequest => Reset)
           /\ \A i \in Images : BeginInstall(i) => work' = SetBank(Rec, Inactive, "Invalid")
<1>1. ~BootUnreadable
  BY DEF BootUnreadable
<1>2. DebuggerRequest => Reset /\ UNCHANGED blind
  BY DEF DebuggerRequest
<1>3. \A i \in Images : BeginInstall(i) =>
          work' = SetBank(Rec, Inactive, "Invalid") /\ UNCHANGED blind
  BY DEF BeginInstall, Rec
<1>4. BootStep => UNCHANGED blind
  BY BootMoves DEF BootStep, WriteLands, WriteFails, SwapReboot, history
<1>5. \A i \in Images : RefuseTooLarge(i) => UNCHANGED blind
  BY DEF RefuseTooLarge, history
<1>6. ReceiveStep => UNCHANGED blind
  BY DEF ReceiveStep, BurnBlock, Burn, EndStream, FlashFails
<1>7. AppStep \/ WatchdogBites => UNCHANGED blind
  BY DEF AppStep, Confirm, RejectImage, RequestUpdate, Call, AppReset, WatchdogBites, history
<1>8. FaultStep => UNCHANGED blind \/ DebuggerRequest
  BY DEF FaultStep, ExternalReset, PowerCut, Wear, Decay, history
<1>9. UNCHANGED vars => UNCHANGED blind
  BY DEF vars, history
<1>10. QED
  BY <1>1, <1>2, <1>3, <1>4, <1>5, <1>6, <1>7, <1>8, <1>9 DEF Next, HostStep

\* A record other than the default that is read is the one the checksum is of.
LEMMA RecIsStored == TypeOK /\ Rec # DefaultRecord => store.sum = {Rec}
BY DEF TypeOK, Rec, ReadRecord, Validated, Words, Sums

\* What a store write that failed can be read as.
LEMMA PrefixRead ==
    ASSUME NEW w \in Words, NEW r \in Record, NEW m \in Prefixes(w, Seal(r))
    PROVE  \/ ReadRecord(m) \in {ReadRecord(w), DefaultRecord, r}
           \/ /\ ReadRecord(m).state = r.state
              /\ ReadRecord(w) = DefaultRecord \/ ReadRecord(m).mail = ReadRecord(w).mail
<1>1. CASE m = w
  BY <1>1
<1>2. CASE m = [w EXCEPT !.state = r.state]
  BY <1>2 DEF ReadRecord, Validated, Spelled, Words
<1>3. CASE m = [Seal(r) EXCEPT !.sum = w.sum]
  BY <1>3 DEF Seal, ReadRecord, Spelled, Record
<1>4. QED
  BY <1>1, <1>2, <1>3 DEF Prefixes, Seal

LEMMA FlagsBoot ==
    ASSUME SoundInv, Flags, BootMove, UNCHANGED <<vouched, disowned>>
    PROVE  Flagged(work)' /\ FlagPhases'
<1>1. /\ TypeOK /\ Rec \in Record /\ firstBank \in Banks /\ Inactive \in Banks
      /\ Inactive # firstBank
  BY RecType, InactiveType DEF SoundInv, TypeOK
<1>2. Flagged(Rec) /\ OneNew(Rec)
  BY <1>1, RecHeld, DefaultFlagged, DefaultSound DEF Flags, SoundInv
<1>3. UNCHANGED device
  BY <1>1, BootTypes
<1>4. \A r : Flagged(r)' <=> Flagged(r)
  BY <1>3 DEF Flagged, New, Inactive, device
<1>5. UNCHANGED Rec /\ UNCHANGED Inactive /\ UNCHANGED firstBank
  BY <1>3 DEF device, Rec, Inactive
<1>6. Flagged(DefaultRecord)'
  BY <1>1, <1>4, DefaultFlagged
<1>7. CASE Goto("swap") /\ Disposition(Rec) \in {"ResumeInstall", "Rollback"}
  <2>1. store.sum = {Rec}
    BY <1>1, <1>7, DefaultIsSteady, RecIsStored
  <2>2. Outgoing(Rec)
    <3>1. Disposition(Rec) = "ResumeInstall" => New(Rec, Inactive) /\ ~New(Rec, firstBank)
      BY <1>1, <1>2, DispositionMeans, BanksAre DEF OneNew, New
    <3>2. QED
      BY <1>1, <1>2, <1>7, <3>1, DispositionMeans DEF Outgoing, Flagged
  <2>3. \A r \in Held' : Outgoing(r)'
    BY <1>1, <1>5, <1>7, <2>1, <2>2, DefaultFlagged DEF Goto, Held, Outgoing, New, device
  <2>4. QED
    BY <1>6, <1>7, <2>3 DEF Goto, FlagPhases, AppRunning
<1>8. CASE Goto("listen")
  BY <1>6, <1>8 DEF Goto, FlagPhases, AppRunning
<1>9. CASE Goto("app") /\ Disposition(Rec) = "SteadyBoot"
  BY <1>1, <1>5, <1>6, <1>9, DispositionMeans DEF Goto, FlagPhases, AppRunning, New
<1>10. CASE Commit("clearRequest", SetRequest(Rec, FALSE))
  <2> DEFINE c == SetRequest(Rec, FALSE)
  <2>1. /\ c.state = Rec.state /\ c.mail.confirmed = Rec.mail.confirmed
        /\ c.mail.rejected = Rec.mail.rejected
    BY <1>1, AmendFrames
  <2> HIDE DEF c
  <2>2. Flagged(c)
    BY <1>2, <2>1 DEF Flagged, New
  <2>3. work' = c /\ pc' = "commit" /\ goal' = "clearRequest"
    BY <1>10 DEF Commit, c
  <2>4. QED
    BY <1>4, <2>2, <2>3 DEF FlagPhases, AppRunning, AppGoals, Flagged, New
<1>11. CASE Commit("promote", Promoted(Rec)) /\ Disposition(Rec) = "Promote"
  <2> DEFINE p == Promoted(Rec)
  <2>1. /\ p.state.bank[firstBank] = "Valid" /\ p.state.bank[Inactive] = Rec.state.bank[Inactive]
        /\ ~p.mail.confirmed /\ p.mail.rejected = Rec.mail.rejected
    BY <1>1, Keeps
  <2> HIDE DEF p
  <2>2. New(Rec, firstBank) /\ Rec.mail.confirmed /\ ~New(Rec, Inactive) /\ ~Rec.mail.rejected
    BY <1>1, <1>11, DispositionMeans
  <2>3. Flagged(p) /\ ~New(p, Inactive)
    BY <1>1, <1>2, <2>1, <2>2, BanksAre DEF Flagged, New
  <2>4. work' = p /\ pc' = "commit" /\ goal' = "promote"
    BY <1>11 DEF Commit, p
  <2>5. QED
    BY <1>4, <1>5, <2>3, <2>4 DEF FlagPhases, AppRunning, AppGoals, Flagged, New
<1>12. CASE /\ Commit("countTrial", SetCount(Rec, SaturatingInc(Rec.state.count)))
            /\ Disposition(Rec) = "Trial"
  <2> DEFINE c == SetCount(Rec, SaturatingInc(Rec.state.count))
  <2>1. c.state.bank = Rec.state.bank /\ c.mail = Rec.mail
    BY <1>1, AmendFrames
  <2>2. work' = c /\ pc' = "commit" /\ goal' = "countTrial"
    BY <1>12 DEF Commit
  <2> HIDE DEF c
  <2>3. Flagged(c) /\ ~New(c, Inactive)
    BY <1>1, <1>2, <1>12, <2>1, DispositionMeans DEF Flagged, New
  <2>4. QED
    BY <1>4, <1>5, <2>2, <2>3 DEF FlagPhases, AppRunning, AppGoals, Flagged, New
<1>13. ASSUME NEW r \in Record, NEW why \in Reasons, Revert(r, why),
              r.state = Rec.state, r.mail.confirmed = Rec.mail.confirmed, ~r.mail.rejected,
              why = "AppRejected" => disowned[firstBank]
       PROVE  Flagged(work)' /\ FlagPhases'
  <2> DEFINE v == SetReason(SetBank(r, firstBank, "Invalid"), why)
  <2>1. /\ v.state.bank[firstBank] = "Invalid" /\ v.state.bank[Inactive] = r.state.bank[Inactive]
        /\ v.mail = r.mail
    BY <1>1, <1>13, Keeps
  <2>2. v.state.reason = why
    <3>1. SetBank(r, firstBank, "Invalid") \in Record
      BY <1>1, SetBankType DEF BankStates
    <3>2. QED
      BY <3>1 DEF SetReason, Record, StateWord
  <2>3. work' = v /\ pc' = "commit" /\ goal' = "revert"
    BY <1>13 DEF Commit, Revert
  <2> HIDE DEF v
  <2>4. Flagged(v) /\ Outgoing(v)
    BY <1>1, <1>2, <1>13, <2>1, BanksAre DEF Flagged, New, Outgoing
  <2>5. QED
    BY <1>4, <1>5, <1>13, <2>2, <2>3, <2>4
    DEF FlagPhases, AppRunning, AppGoals, Flagged, New, Outgoing
<1>14. CASE Revert(SetRejected(Rec, FALSE), "AppRejected") /\ Disposition(Rec) = "Reject"
  <2>1. SetRejected(Rec, FALSE) \in Record
    BY <1>1, SetFieldTypes
  <2>2. /\ SetRejected(Rec, FALSE).state = Rec.state
        /\ SetRejected(Rec, FALSE).mail.confirmed = Rec.mail.confirmed
    BY <1>1, AmendFrames
  <2>3. ~SetRejected(Rec, FALSE).mail.rejected
    BY <1>1, FlagEffect
  <2>4. disowned[firstBank]
    BY <1>1, <1>2, <1>14, DispositionMeans DEF Flagged
  <2>5. QED
    BY <1>13, <1>14, <2>1, <2>2, <2>3, <2>4 DEF Reasons
<1>15. CASE /\ \E why \in Reasons \ {"AppRejected"} : Revert(Rec, why)
            /\ Disposition(Rec) \in {"Promote", "SteadyBoot", "TrialExhausted", "Trial"}
  <2>1. ~Rec.mail.rejected
    BY <1>1, <1>15, DispositionMeans
  <2>2. QED
    BY <1>1, <1>13, <1>15, <2>1
<1>16. QED
  BY <1>7, <1>8, <1>9, <1>10, <1>11, <1>12, <1>14, <1>15 DEF BootMove


LEMMA FlagsStep == FlagsInv /\ [Next]_vars => FlagsInv'
<1> SUFFICES ASSUME FlagsInv, [Next]_vars, ~blind'
             PROVE  Flags'
  BY SoundStep DEF FlagsInv
<1>1. /\ SoundInv /\ TypeOK /\ TypeOK' /\ Rec \in Record /\ work \in Record /\ store \in Words
      /\ firstBank \in Banks /\ Inactive \in Banks /\ Inactive # firstBank
  BY TypeStep, RecType, InactiveType DEF FlagsInv, SoundInv, TypeOK, CoreTypes
<1>2. Flags /\ ~BootUnreadable /\ (DebuggerRequest => Reset)
      /\ \A i \in Images : BeginInstall(i) => work' = SetBank(Rec, Inactive, "Invalid")
  BY <1>1, Unblind DEF FlagsInv
<1>3. Held' \subseteq Held \cup Requested \cup {work'}
  BY <1>1, HeldStep
<1>4. \A r \in Held \cup {DefaultRecord} \cup Requested : Flagged(r)
  BY <1>1, <1>2, RequestedMarks, DefaultFlagged DEF Flags, Flagged, New
<1>5. Flagged(Rec) /\ Flagged(DefaultRecord) /\ Flagged(work)
  BY <1>1, <1>4, RecHeld DEF Held
<1>6. ASSUME UNCHANGED <<firstBank, vouched, disowned>>
      PROVE  \A r : Flagged(r)' <=> Flagged(r)
  BY <1>6 DEF Flagged, New, Inactive
\* It is enough that the images and their banks stay and the record in RAM is flagged.
<1>7. ASSUME \A r \in Held \cup {DefaultRecord} \cup Requested : Flagged(r)',
             work' \in {work, DefaultRecord} \/ Flagged(work)',
             FlagPhases'
      PROVE  Flags'
  BY <1>3, <1>7 DEF Flags, Held
<1>8. Reset => work' = DefaultRecord /\ FlagPhases'
  BY DEF Reset, FlagPhases, AppRunning
<1>9. CASE BootOrEnterDownload
  <2>1. Flagged(work)' /\ FlagPhases' /\ UNCHANGED <<vouched, disowned, firstBank>>
    BY <1>1, <1>2, <1>9, BootMoves, BootTypes, FlagsBoot DEF history, device
  <2>2. QED
    BY <1>4, <1>6, <1>7, <2>1
<1>10. CASE WriteLands
  <2>1. /\ UNCHANGED <<firstBank, vouched, disowned>> /\ work' \in {work, DefaultRecord}
        /\ store' = Seal(work) /\ pc = "commit" /\ pc' = AfterWrite(goal)
    BY <1>10 DEF WriteLands
  <2>2. Rec' = work /\ Inactive' = Inactive
    BY <1>1, <2>1, SealReads DEF Rec, Inactive
  <2>3. goal \in Goals
    BY <1>1 DEF TypeOK, CoreTypes
  <2>4. pc' = "app" => ~New(work, Inactive)
    BY <1>2, <2>1, <2>3 DEF AfterWrite, Goals, BootGoals, AppGoals, Flags, FlagPhases
  <2>5. pc' = "swap" => Outgoing(work)
    BY <1>2, <2>1, <2>3 DEF AfterWrite, Goals, BootGoals, AppGoals, Flags, FlagPhases
  <2>6. \A r \in Held' : r \in {work, DefaultRecord}
    BY <2>1 DEF Held, Seal
  <2>7. pc' # "commit"
    BY <2>1 DEF AfterWrite
  <2>8. FlagPhases'
    BY <1>1, <2>1, <2>2, <2>4, <2>5, <2>6, <2>7, DefaultFlagged
    DEF FlagPhases, AppRunning, Outgoing, New
  <2>9. QED
    BY <1>4, <1>6, <1>7, <2>1, <2>8
<1>11. CASE WriteFails
  <2>1. /\ UNCHANGED <<firstBank, vouched, disowned>> /\ work' = DefaultRecord
        /\ store' \in Prefixes(store, Seal(work)) /\ pc = "commit"
    BY <1>11 DEF WriteFails, history
  <2>2. pc' = "app" => goal \in AppGoals
    BY <1>11 DEF WriteFails, AfterError, AppGoals
  <2>3. pc' \in {"boot", "app", "listen"}
    BY <1>11 DEF WriteFails, AfterError
  <2>4. Rec' \in {Rec, DefaultRecord} \/ Rec'.state = work.state
    BY <1>1, <2>1, PrefixRead DEF Rec
  <2>5. goal \in AppGoals => ~New(Rec, Inactive) /\ ~New(work, Inactive)
    BY <1>2, <2>1 DEF Flags, FlagPhases, AppRunning
  <2>6. pc' = "app" => ~New(Rec, Inactive)'
    BY <1>1, <2>1, <2>2, <2>4, <2>5 DEF New, Inactive, DefaultRecord
  <2>7. FlagPhases'
    BY <2>3, <2>6 DEF FlagPhases, AppRunning
  <2>8. QED
    BY <1>4, <1>6, <1>7, <2>1, <2>7
<1>12. CASE SwapReboot
  <2>1. /\ pc = "swap" /\ firstBank' = Inactive /\ Inactive' = firstBank /\ Reset
        /\ UNCHANGED <<store, vouched, disowned>>
    BY <1>1, <1>12, InactiveType DEF SwapReboot, history, Inactive
  <2>2. \A r \in Held : Outgoing(r)
    BY <1>2, <2>1 DEF Flags, FlagPhases
  <2>3. \A r : Flagged(r) /\ Outgoing(r) => Flagged(r)'
    BY <1>1, <2>1 DEF Flagged, Outgoing, New
  <2>4. \A r \in Held' : r \in Held \cup {DefaultRecord}
    BY <1>8, <2>1 DEF Held
  <2>5. QED
    BY <1>1, <1>4, <1>8, <2>1, <2>2, <2>3, <2>4, DefaultFlagged DEF Flags
<1>13. CASE HostStep
  <2>1. PICK i \in Images : BeginInstall(i) \/ RefuseTooLarge(i)
    BY <1>13 DEF HostStep
  <2>2. CASE BeginInstall(i)
    <3>1. work' = SetBank(Rec, Inactive, "Invalid")
      BY <1>2, <2>2
    <3>2. /\ work'.state.bank[Inactive] = "Invalid" /\ work'.mail = Rec.mail
          /\ work'.state.bank[firstBank] = Rec.state.bank[firstBank]
      BY <1>1, <3>1, Keeps
    <3>3. /\ UNCHANGED <<firstBank, vouched, disowned>>
          /\ pc' = "commit" /\ goal' = "condemn"
      BY <2>2 DEF BeginInstall, device
    <3>4. Flagged(work')
      BY <1>1, <1>5, <3>2, BanksAre DEF Flagged, New
    <3>5. QED
      BY <1>4, <1>6, <1>7, <3>3, <3>4 DEF FlagPhases, AppRunning, AppGoals, Flagged, New
  <2>3. CASE RefuseTooLarge(i)
    BY <1>4, <1>6, <1>7, <2>3 DEF RefuseTooLarge, Goto, FlagPhases, AppRunning, history, device
  <2>4. QED
    BY <2>1, <2>2, <2>3
<1>14. CASE ReceiveStep
  <2>1. pc = "receive"
    BY <1>14 DEF ReceiveStep, BurnBlock, BlockDue, FlashFails, EndStream
  <2>2. \A r \in Held \cup {DefaultRecord} \cup Requested : r.state.bank[Inactive] \notin {"Valid", "New"}
    <3>1. \A r \in Held \cup {DefaultRecord} : r.state.bank[Inactive] \notin {"Valid", "New"}
      BY <1>1, <2>1 DEF SoundInv, CondemnedFirst, DefaultRecord
    <3>2. QED
      BY <1>1, <3>1, RequestedMarks
  <2>3. ASSUME NEW c, Burn(c)
        PROVE  \A r \in Held \cup {DefaultRecord} \cup Requested : Flagged(r)'
    <3>1. /\ vouched'[firstBank] = vouched[firstBank] /\ disowned'[firstBank] = disowned[firstBank]
          /\ UNCHANGED firstBank
      BY <1>1, <2>3 DEF Burn, TypeOK
    <3>2. QED
      BY <1>1, <1>4, <2>2, <3>1, BanksAre DEF Flagged, New, Inactive
  <2>4. CASE \E c \in {incoming.img, Blank} : BurnBlock(c)
    <3>1. PICK c : BurnBlock(c)
      BY <2>4
    <3>2. UNCHANGED <<pc, work>>
      BY <3>1 DEF BurnBlock
    <3>3. QED
      BY <1>7, <2>1, <2>3, <3>1, <3>2 DEF BurnBlock, FlagPhases, AppRunning
  <2>5. CASE FlashFails
    <3>1. PICK c : Burn(c)
      BY <2>5 DEF FlashFails
    <3>2. pc' = "boot" /\ work' = DefaultRecord
      BY <2>5 DEF FlashFails
    <3>3. QED
      BY <1>7, <2>3, <3>1, <3>2 DEF FlagPhases, AppRunning
  <2>6. CASE EndStream
    <3>1. UNCHANGED <<firstBank, vouched, disowned>>
      BY <2>6 DEF EndStream, Commit, Goto, device
    <3>2. CASE pc' = "boot" /\ work' = DefaultRecord
      BY <1>4, <1>6, <1>7, <3>1, <3>2 DEF FlagPhases, AppRunning
    <3>3. CASE pc' = "commit" /\ goal' = "recordTrial" /\ work' = TrialRecord(work)
      <4> DEFINE t == TrialRecord(work)
      <4>1. /\ New(t, Inactive) /\ ~New(t, firstBank)
            /\ t.state.bank[firstBank] \in {work.state.bank[firstBank], "None"}
            /\ ~t.mail.confirmed /\ ~t.mail.rejected
        BY <1>1, Keeps DEF New
      <4>2. work' = t
        BY <3>3
      <4> HIDE DEF t
      <4>3. Flagged(t) /\ Outgoing(t)
        BY <1>1, <1>5, <4>1, BanksAre DEF Flagged, Outgoing, New
      <4>4. FlagPhases'
        BY <3>1, <3>3, <4>2, <4>3 DEF FlagPhases, AppRunning, AppGoals, Outgoing, New
      <4>5. Flagged(work)'
        BY <1>6, <3>1, <4>2, <4>3 DEF Flagged, New
      <4>6. QED
        BY <1>4, <1>6, <1>7, <3>1, <4>4, <4>5
    <3>4. QED
      BY <2>6, <3>2, <3>3 DEF EndStream, Commit, Goto
  <2>7. QED
    BY <1>14, <2>4, <2>5, <2>6 DEF ReceiveStep
<1>15. CASE AppStep
  <2>1. CASE AppReset
    BY <1>4, <1>6, <1>7, <1>8, <2>1 DEF AppReset, device, history
  <2>2. CASE Confirm \/ RejectImage \/ RequestUpdate
    <3>1. /\ pc = "app" /\ pc' = "commit" /\ UNCHANGED <<firstBank, store>>
          /\ work'.state = Rec.state /\ goal' \in AppGoals
      BY <1>1, <2>2, CallsAmend DEF AppGoals
    <3>2. ~New(Rec, Inactive)
      BY <1>2, <3>1 DEF Flags, FlagPhases, AppRunning
    <3>3. ~New(work', Inactive) /\ UNCHANGED <<Rec, Inactive>>
      BY <3>1, <3>2 DEF New, Rec, Inactive
    <3>4. FlagPhases'
      BY <3>1, <3>2, <3>3 DEF FlagPhases, AppRunning, AppGoals, New
    <3>5. \A b \in Banks : (vouched[b] => vouched'[b]) /\ (disowned[b] => disowned'[b])
      BY <1>1, <2>2 DEF Confirm, RejectImage, RequestUpdate, TypeOK
    <3>6. \A r \in Held \cup {DefaultRecord} \cup Requested : Flagged(r)'
      BY <1>1, <1>4, <3>1, <3>3, <3>5 DEF Flagged, New
    <3>7. Flagged(work)'
      <4>1. CASE Confirm
        <5>1. vouched'[firstBank] /\ work'.mail.rejected = Rec.mail.rejected
          BY <1>1, <4>1, CallsAmend DEF Confirm, TypeOK
        <5>2. QED
          BY <1>1, <1>5, <3>1, <3>3, <3>5, <5>1 DEF Flagged, New
      <4>2. CASE RejectImage
        <5>1. disowned'[firstBank] /\ work'.mail.confirmed = Rec.mail.confirmed
          BY <1>1, <4>2, CallsAmend DEF RejectImage, TypeOK
        <5>2. QED
          BY <1>1, <1>5, <3>1, <3>3, <3>5, <5>1 DEF Flagged, New
      <4>3. CASE RequestUpdate
        <5>1. work'.mail.confirmed = Rec.mail.confirmed /\ work'.mail.rejected = Rec.mail.rejected
          BY <1>1, <4>3, CallsAmend
        <5>2. QED
          BY <1>1, <1>5, <3>1, <3>3, <3>5, <5>1 DEF Flagged, New
      <4>4. QED
        BY <2>2, <4>1, <4>2, <4>3
    <3>8. QED
      BY <1>7, <3>4, <3>6, <3>7
  <2>3. QED
    BY <1>15, <2>1, <2>2 DEF AppStep
<1>16. CASE WatchdogBites
  BY <1>4, <1>6, <1>7, <1>8, <1>16 DEF WatchdogBites, history
<1>17. CASE FaultStep
  <2>1. CASE ExternalReset \/ PowerCut
    BY <1>4, <1>6, <1>7, <1>8, <2>1 DEF ExternalReset, PowerCut, history
  <2>2. CASE Wear \/ \E b \in Banks : Decay(b)
    <3>1. UNCHANGED <<firstBank, store, core, vouched, disowned>>
      BY <2>2 DEF Wear, Decay, device, history
    <3>2. FlagPhases'
      BY <1>2, <3>1 DEF Flags, FlagPhases, core, Held, Outgoing, New, Inactive, AppRunning, Rec
    <3>3. QED
      BY <1>4, <1>6, <1>7, <3>1, <3>2 DEF core
  <2>3. CASE DebuggerRequest
    BY <1>1, <1>2, <1>4, <1>6, <1>7, <1>8, <2>3, DebuggerTypes
  <2>4. QED
    BY <1>17, <2>1, <2>2, <2>3 DEF FaultStep
<1>18. CASE UNCHANGED vars
  <2>1. FlagPhases'
    BY <1>2, <1>18
    DEF vars, device, core, Flags, FlagPhases, Held, Outgoing, New, Inactive, AppRunning, Rec, history
  <2>2. QED
    BY <1>4, <1>6, <1>7, <1>18, <2>1 DEF vars, device, core, history
<1>19. QED
  BY <1>2, <1>9, <1>10, <1>11, <1>12, <1>13, <1>14, <1>15, <1>16, <1>17, <1>18 DEF Next, BootStep

LEMMA FlagsInit == Init => FlagsInv
<1> SUFFICES ASSUME Init
             PROVE  FlagsInv
  OBVIOUS
<1>1. Held = {DefaultRecord}
  BY DEF Init, Held, BlankStore
<1>2. FlagPhases
  BY DEF Init, FlagPhases, AppRunning
<1>3. QED
  BY <1>1, <1>2, InitTypes, SoundInit, DefaultFlagged DEF FlagsInv, Flags

\* A bank is recorded Valid only when its own image called confirm.
THEOREM PromotionIsEarned == Spec => []PromotedWasVouched
<1>1. FlagsInv => PromotedWasVouched
  <2> SUFFICES ASSUME FlagsInv, ~blind
               PROVE  \A b \in Banks : Rec.state.bank[b] = "Valid" => vouched[b]
    BY DEF PromotedWasVouched
  <2>1. TypeOK /\ Flagged(Rec)
    BY RecHeld, DefaultFlagged DEF FlagsInv, SoundInv, Flags
  <2>2. QED
    BY <2>1 DEF Flagged
<1>2. QED
  BY FlagsInit, FlagsStep, <1>1, PTL DEF Spec

\* A bank is condemned as rejected only when its own image called reject.
THEOREM RejectionIsOwn == Spec => []RejectedByItself
<1>1. FlagsInv => RejectedByItself
  BY DEF FlagsInv, Flags, FlagPhases, RejectedByItself
<1>2. QED
  BY FlagsInit, FlagsStep, <1>1, PTL DEF Spec

-----------------------------------------------------------------------------
(* What runs, and under which watch.                                        *)

RunPhases ==
    /\ pc = "commit" => goal # "none"
    /\ AppRunning => Rec.state.bank[firstBank] # "Invalid" /\ (OnTrial => trialWdt)
    /\ (pc = "commit" /\ goal \in AppGoals) =>
           /\ work.state = Rec.state
           /\ Rec.mail.confirmed => work.mail.confirmed
           /\ goal = "confirm" => work.mail.confirmed
    /\ (pc = "commit" /\ goal = "promote") => work.state.bank[firstBank] = "Valid"
    /\ (pc = "commit" /\ goal = "countTrial") => work.state.bank[firstBank] # "Invalid"

RunsInv == TypeOK /\ (~blind => RunPhases)

LEMMA RunsBoot ==
    ASSUME TypeOK, BootMove
    PROVE  RunPhases'
<1>1. Rec \in Record /\ firstBank \in Banks /\ UNCHANGED <<device, Rec>>
  BY RecType, BootTypes DEF TypeOK, device, Rec
<1>2. CASE Goto("app") /\ Disposition(Rec) = "SteadyBoot"
  BY <1>1, <1>2, DispositionMeans DEF Goto, RunPhases, AppRunning, OnTrial, device
<1>3. CASE Commit("promote", Promoted(Rec))
  BY <1>1, <1>3, Keeps DEF Commit, RunPhases, AppRunning, AppGoals, device
<1>4. CASE /\ Commit("countTrial", SetCount(Rec, SaturatingInc(Rec.state.count)))
           /\ Disposition(Rec) = "Trial"
  <2>1. SetCount(Rec, SaturatingInc(Rec.state.count)).state.bank = Rec.state.bank
    BY <1>1, AmendFrames
  <2>2. Rec.state.bank[firstBank] = "New"
    BY <1>1, <1>4, DispositionMeans DEF New
  <2>3. QED
    BY <1>1, <1>4, <2>1, <2>2 DEF Commit, RunPhases, AppRunning, AppGoals, device
<1>5. CASE \/ Goto("swap") \/ Goto("listen")
           \/ Commit("clearRequest", SetRequest(Rec, FALSE))
           \/ \E r \in {Rec, SetRejected(Rec, FALSE)}, why \in Reasons : Revert(r, why)
  BY <1>5 DEF Goto, Commit, Revert, RunPhases, AppRunning, AppGoals
<1>6. QED
  BY <1>2, <1>3, <1>4, <1>5 DEF BootMove, Reasons

LEMMA RunsStep == RunsInv /\ [Next]_vars => RunsInv'
<1> SUFFICES ASSUME RunsInv, [Next]_vars, ~blind'
             PROVE  RunPhases'
  BY TypeStep DEF RunsInv
<1>1. /\ TypeOK /\ Rec \in Record /\ work \in Record /\ store \in Words /\ firstBank \in Banks
      /\ goal \in Goals
  BY RecType DEF RunsInv, TypeOK, CoreTypes
<1>2. RunPhases /\ ~BootUnreadable /\ (DebuggerRequest => Reset)
  BY <1>1, Unblind DEF RunsInv
\* Only a core in the application, or on its way there, has anything to keep.
<1>3. ASSUME pc' \notin {"app", "commit"} \/ (pc' = "commit" /\ goal' \in {"condemn", "recordTrial"})
      PROVE  RunPhases'
  BY <1>3 DEF RunPhases, AppRunning, AppGoals
<1>4. Reset => RunPhases'
  BY <1>3 DEF Reset
<1>5. CASE BootOrEnterDownload
  BY <1>1, <1>5, BootMoves, RunsBoot
<1>6. CASE WriteLands
  <2>1. /\ pc = "commit" /\ store' = Seal(work) /\ pc' = AfterWrite(goal)
        /\ trialWdt' = WdtAfterWrite(goal) /\ UNCHANGED firstBank
    BY <1>6 DEF WriteLands
  <2>2. Rec' = work
    BY <1>1, <2>1, SealReads DEF Rec
  <2>3. CASE goal \in AppGoals
    BY <1>2, <2>1, <2>2, <2>3
    DEF AfterWrite, WdtAfterWrite, AppGoals, RunPhases, AppRunning, OnTrial
  <2>4. CASE goal \in {"promote", "countTrial"}
    BY <1>2, <2>1, <2>2, <2>4
    DEF AfterWrite, WdtAfterWrite, RunPhases, AppRunning, OnTrial
  <2>5. CASE goal \notin AppGoals \cup {"promote", "countTrial"}
    <3>1. pc' \notin {"app", "commit"}
      BY <1>1, <1>2, <2>1, <2>5 DEF AfterWrite, Goals, BootGoals, RunPhases
    <3>2. QED
      BY <1>3, <3>1
  <2>6. QED
    BY <2>3, <2>4, <2>5
<1>7. CASE WriteFails
  <2>1. /\ pc = "commit" /\ store' \in Prefixes(store, Seal(work)) /\ pc' = AfterError(goal)
        /\ UNCHANGED <<firstBank, trialWdt>>
    BY <1>7 DEF WriteFails
  <2>2. CASE goal \in AppGoals
    <3>1. \/ Rec' \in {Rec, DefaultRecord, work}
          \/ Rec'.state = work.state /\ (Rec = DefaultRecord \/ Rec'.mail = Rec.mail)
      BY <1>1, <2>1, PrefixRead DEF Rec
    <3>2. pc' = "app"
      BY <2>1, <2>2 DEF AfterError, AppGoals
    <3>3. work.state = Rec.state /\ (Rec.mail.confirmed => work.mail.confirmed)
      BY <1>2, <2>1, <2>2 DEF RunPhases
    <3>4. Rec.state.bank[firstBank] # "Invalid" /\ (OnTrial => trialWdt)
      BY <1>2, <2>1, <2>2 DEF RunPhases, AppRunning
    <3>5. DefaultRecord.state.bank[firstBank] = "None"
      BY <1>1 DEF DefaultRecord
    <3>6. Rec'.state.bank[firstBank] # "Invalid"
      BY <3>1, <3>3, <3>4, <3>5
    <3>7. OnTrial' => trialWdt
      BY <2>1, <3>1, <3>3, <3>4, <3>5 DEF OnTrial
    <3>8. QED
      BY <2>1, <3>2, <3>6, <3>7 DEF RunPhases
  <2>3. CASE goal \notin AppGoals
    BY <1>3, <2>1, <2>3 DEF AfterError
  <2>4. QED
    BY <2>2, <2>3
<1>8. CASE SwapReboot \/ AppReset \/ WatchdogBites \/ ExternalReset \/ PowerCut \/ DebuggerRequest
  BY <1>2, <1>4, <1>8 DEF SwapReboot, AppReset, WatchdogBites, ExternalReset, PowerCut
<1>9. CASE HostStep
  BY <1>3, <1>9 DEF HostStep, BeginInstall, RefuseTooLarge, Goto
<1>10. CASE ReceiveStep
  BY <1>3, <1>10 DEF ReceiveStep, BurnBlock, BlockDue, FlashFails, EndStream, Commit, Goto
<1>11. CASE Confirm \/ RejectImage \/ RequestUpdate
  <2>1. /\ pc = "app" /\ pc' = "commit" /\ work'.state = Rec.state
        /\ UNCHANGED <<firstBank, store, trialWdt>>
    BY <1>1, <1>11, CallsAmend
  <2>2. /\ Rec.mail.confirmed => work'.mail.confirmed
        /\ goal' = "confirm" => work'.mail.confirmed
        /\ goal' \in AppGoals
    BY <1>1, <1>11, CallsAmend DEF AppGoals
  <2>3. UNCHANGED Rec
    BY <2>1 DEF Rec
  <2>4. QED
    BY <1>2, <2>1, <2>2, <2>3 DEF RunPhases, AppRunning, OnTrial, AppGoals
<1>12. CASE Wear \/ (\E b \in Banks : Decay(b)) \/ UNCHANGED vars
  <2>1. UNCHANGED <<firstBank, store, core>>
    BY <1>12 DEF Wear, Decay, vars, device
  <2>2. QED
    BY <1>2, <2>1 DEF core, RunPhases, AppRunning, OnTrial, Rec
<1>13. QED
  BY <1>2, <1>5, <1>6, <1>7, <1>8, <1>9, <1>10, <1>11, <1>12
  DEF Next, BootStep, AppStep, FaultStep

LEMMA RunsInit == Init => RunsInv
BY InitTypes DEF Init, RunsInv, RunPhases, AppRunning

LEMMA RunsAlways == Spec => []RunsInv
BY RunsInit, RunsStep, PTL DEF Spec

\* A condemned image never runs, unless the core could not read the record.
THEOREM CondemnedStaysDown == Spec => []CondemnedNeverRuns
<1>1. RunsInv => CondemnedNeverRuns
  BY DEF RunsInv, RunPhases, CondemnedNeverRuns, AppRunning
<1>2. QED
  BY RunsAlways, <1>1, PTL

\* An unconfirmed trial never runs without its watchdog, through every way
\* confirm's changeover can be cut or refused.
THEOREM TrialsAreWatched == Spec => []TrialIsWatched
<1>1. RunsInv => TrialIsWatched
  BY DEF RunsInv, RunPhases, TrialIsWatched, AppRunning
<1>2. QED
  BY RunsAlways, <1>1, PTL

-----------------------------------------------------------------------------
(* Requests are carried along.                                              *)
(*                                                                          *)
(* Every write but the one that clears the request goes on from the stored  *)
(* record: when that holds a request the record in RAM holds it too, and so *)
(* does every mixture of the two.                                           *)

Carries ==
    (pc = "receive" \/ (pc = "commit" /\ goal # "clearRequest"))
        => (Rec.mail.request => work.mail.request)

KeptInv == TypeOK /\ (~blind => Carries)

\* The mail word of a torn write is the old one or the new one.
LEMMA MailOfMix ==
    \A w, r : \A m \in Mixes(w, Seal(r)) : m.mail = w.mail \/ m.mail = r.mail
BY DEF Mixes, Seal

LEMMA CarriesBoot ==
    ASSUME TypeOK, BootMove
    PROVE  Carries'
<1>1. Rec \in Record /\ firstBank \in Banks /\ UNCHANGED Rec
  BY RecType, BootTypes DEF TypeOK, device, Rec
<1>2. CASE Goto("swap") \/ Goto("listen") \/ Goto("app")
  BY <1>2 DEF Goto, Carries
<1>3. CASE Commit("clearRequest", SetRequest(Rec, FALSE))
  BY <1>3 DEF Commit, Carries
<1>4. CASE Commit("promote", Promoted(Rec))
  <2>1. Promoted(Rec).mail.request = Rec.mail.request
    BY <1>1, Keeps
  <2>2. work'.mail.request = Rec.mail.request
    BY <1>4, <2>1 DEF Commit
  <2>3. QED
    BY <1>1, <2>2 DEF Carries
<1>5. CASE Commit("countTrial", SetCount(Rec, SaturatingInc(Rec.state.count)))
  <2>1. SetCount(Rec, SaturatingInc(Rec.state.count)).mail = Rec.mail
    BY <1>1, AmendFrames
  <2>2. work'.mail.request = Rec.mail.request
    BY <1>5, <2>1 DEF Commit
  <2>3. QED
    BY <1>1, <2>2 DEF Carries
<1>6. ASSUME NEW r \in {Rec, SetRejected(Rec, FALSE)}, NEW why, Revert(r, why)
      PROVE  Carries'
  <2>1. r \in Record /\ r.mail.request = Rec.mail.request
    <3>1. SetRejected(Rec, FALSE) \in Record
      BY <1>1, SetFieldTypes
    <3>2. SetRejected(Rec, FALSE).mail.request = Rec.mail.request
      BY <1>1, AmendFrames
    <3>3. QED
      BY <1>1, <3>1, <3>2
  <2>2. SetReason(SetBank(r, firstBank, "Invalid"), why).mail = r.mail
    BY <1>1, <2>1, Keeps
  <2>3. work'.mail.request = Rec.mail.request
    BY <1>6, <2>1, <2>2 DEF Revert, Commit
  <2>4. QED
    BY <1>1, <2>3 DEF Carries
<1>7. QED
  BY <1>2, <1>3, <1>4, <1>5, <1>6 DEF BootMove

LEMMA KeptStep == KeptInv /\ [Next]_vars => KeptInv'
<1> SUFFICES ASSUME KeptInv, [Next]_vars, ~blind'
             PROVE  Carries'
  BY TypeStep DEF KeptInv
<1>1. /\ TypeOK /\ Rec \in Record /\ work \in Record /\ firstBank \in Banks
      /\ Inactive \in Banks
  BY RecType, InactiveType DEF KeptInv, TypeOK, CoreTypes
<1>2. /\ Carries /\ ~BootUnreadable /\ (DebuggerRequest => Reset)
      /\ \A i \in Images : BeginInstall(i) => work' = SetBank(Rec, Inactive, "Invalid")
  BY <1>1, Unblind DEF KeptInv
<1>3. ASSUME pc' \notin {"receive", "commit"}
      PROVE  Carries'
  BY <1>3 DEF Carries
<1>4. CASE BootOrEnterDownload
  BY <1>1, <1>4, BootMoves, CarriesBoot
<1>5. CASE WriteLands
  <2>1. store' = Seal(work) /\ pc' = AfterWrite(goal) /\ (goal = "condemn" => work' = work)
    BY <1>5 DEF WriteLands
  <2>2. CASE goal = "condemn"
    <3>1. Rec' = work'
      BY <1>1, <2>1, <2>2, SealReads DEF Rec
    <3>2. QED
      BY <3>1 DEF Carries
  <2>3. CASE goal # "condemn"
    BY <1>3, <2>1, <2>3 DEF AfterWrite
  <2>4. QED
    BY <2>2, <2>3
<1>6. CASE WriteFails
  BY <1>3, <1>6 DEF WriteFails, AfterError
<1>7. CASE SwapReboot \/ AppReset \/ WatchdogBites \/ ExternalReset \/ PowerCut \/ DebuggerRequest
  BY <1>2, <1>3, <1>7 DEF SwapReboot, AppReset, WatchdogBites, ExternalReset, PowerCut, Reset
<1>8. CASE HostStep
  <2>1. ASSUME NEW i \in Images, BeginInstall(i)
        PROVE  Carries'
    <3>1. SetBank(Rec, Inactive, "Invalid").mail = Rec.mail
      BY <1>1, Keeps
    <3>2. work' = SetBank(Rec, Inactive, "Invalid") /\ UNCHANGED Rec
      BY <1>2, <2>1 DEF BeginInstall, device, Rec
    <3>3. work'.mail.request = Rec.mail.request
      BY <3>1, <3>2
    <3>4. QED
      BY <3>2, <3>3 DEF Carries
  <2>2. ASSUME NEW i \in Images, RefuseTooLarge(i)
        PROVE  Carries'
    BY <1>3, <2>2 DEF RefuseTooLarge, Goto
  <2>3. QED
    BY <1>8, <2>1, <2>2 DEF HostStep
<1>9. CASE ReceiveStep
  <2>1. ASSUME NEW c, BurnBlock(c)
        PROVE  Carries'
    BY <1>2, <2>1 DEF BurnBlock, BlockDue, Burn, Carries, Rec
  <2>2. CASE FlashFails
    BY <1>3, <2>2 DEF FlashFails
  <2>3. CASE EndStream /\ Goto("boot")
    BY <1>3, <2>3 DEF Goto
  <2>4. CASE EndStream /\ Commit("recordTrial", TrialRecord(work))
    <3>1. TrialRecord(work).mail.request = work.mail.request
      BY <1>1, Keeps
    <3>2. work'.mail.request = work.mail.request /\ UNCHANGED Rec
      BY <2>4, <3>1 DEF Commit, device, Rec
    <3>3. Rec.mail.request => work.mail.request
      BY <1>2, <2>4 DEF EndStream, Carries
    <3>4. QED
      BY <3>2, <3>3 DEF Carries
  <2>5. QED
    BY <1>9, <2>1, <2>2, <2>3, <2>4 DEF ReceiveStep, EndStream
<1>10. CASE Confirm \/ RejectImage \/ RequestUpdate
  <2>1. UNCHANGED Rec
    BY <1>10 DEF Confirm, RejectImage, RequestUpdate, Call, Commit, device, Rec
  <2>2. CASE Confirm
    <3>1. SetConfirmed(Rec, TRUE).mail.request = Rec.mail.request
      BY <1>1, AmendFrames
    <3>2. work'.mail.request = Rec.mail.request
      BY <2>2, <3>1 DEF Confirm, Call, Commit, Rec
    <3>3. QED
      BY <2>1, <3>2 DEF Carries
  <2>3. CASE RejectImage
    <3>1. SetRejected(Rec, TRUE).mail.request = Rec.mail.request
      BY <1>1, AmendFrames
    <3>2. work'.mail.request = Rec.mail.request
      BY <2>3, <3>1 DEF RejectImage, Call, Commit, Rec
    <3>3. QED
      BY <2>1, <3>2 DEF Carries
  <2>4. CASE RequestUpdate
    <3>1. SetRequest(Rec, TRUE).mail.request
      BY <1>1, FlagEffect
    <3>2. work'.mail.request
      BY <2>4, <3>1 DEF RequestUpdate, Call, Commit, Rec
    <3>3. QED
      BY <3>2 DEF Carries
  <2>5. QED
    BY <1>10, <2>2, <2>3, <2>4
<1>11. CASE Wear \/ (\E b \in Banks : Decay(b)) \/ UNCHANGED vars
  <2>1. UNCHANGED <<store, core>>
    BY <1>11 DEF Wear, Decay, vars, device
  <2>2. QED
    BY <1>2, <2>1 DEF core, Carries, Rec
<1>12. QED
  BY <1>2, <1>4, <1>5, <1>6, <1>7, <1>8, <1>9, <1>10, <1>11
  DEF Next, BootStep, AppStep, FaultStep

LEMMA KeptInit == Init => KeptInv
BY InitTypes DEF Init, KeptInv, Carries

\* A step that leaves a record that reads, and no request in it, where there
\* was one is BOOT clearing it.
LEMMA KeptAction ==
    ASSUME KeptInv, [Next]_vars, ~blind, Rec.mail.request, Validated(store'),
           ~(pc = "commit" /\ goal = "clearRequest")
    PROVE  Rec'.mail.request
<1>1. TypeOK /\ Carries /\ store.mail.request /\ Rec' = Spelled(store')
  BY DEF KeptInv, Rec, ReadRecord, Spelled, DefaultRecord
<1>2. SUFFICES store'.mail.request
  BY <1>1 DEF Spelled
<1>3. pc = "commit" => work.mail.request
  BY <1>1 DEF Carries
<1>4. ASSUME pc = "commit", store' \in Mixes(store, Seal(work))
      PROVE  store'.mail.request
  BY <1>1, <1>3, <1>4, MailOfMix
<1>5. CASE StoreAfterReset
  BY <1>1, <1>4, <1>5 DEF StoreAfterReset
<1>6. CASE UNCHANGED store
  BY <1>1, <1>6
<1>7. CASE BootOrEnterDownload
  BY <1>1, <1>6, <1>7, BootMoves, BootTypes DEF device
<1>8. CASE WriteLands
  <2>1. pc = "commit" /\ store'.mail = work.mail
    BY <1>8 DEF WriteLands, Seal
  <2>2. QED
    BY <1>3, <2>1
<1>9. CASE WriteFails
  <2>1. pc = "commit" /\ store' \in Prefixes(store, Seal(work)) /\ work \in Record /\ store \in Words
    BY <1>1, <1>9 DEF WriteFails, TypeOK, CoreTypes
  <2>2. store' \in Mixes(store, Seal(work))
    BY <2>1, TornTypes
  <2>3. QED
    BY <1>4, <2>1, <2>2
<1>10. CASE PowerCut
  <2>1. ~Retained => FALSE
    BY <1>10 DEF PowerCut, BlankStore, Validated
  <2>2. QED
    BY <1>5, <1>10, <2>1 DEF PowerCut
<1>11. CASE DebuggerRequest
  <2>1. PICK found \in StoreNow :
          \/ store' = found
          \/ store' = Seal(SetRequest(ReadRecord(found), TRUE))
          \/ store' \in Prefixes(found, Seal(SetRequest(ReadRecord(found), TRUE)))
    BY <1>11 DEF DebuggerRequest
  <2>2. found \in Words /\ found.mail.request
    <3>1. CASE pc = "commit"
      <4>1. found \in Mixes(store, Seal(work)) /\ work \in Record /\ store \in Words
        BY <1>1, <3>1 DEF StoreNow, TypeOK, CoreTypes
      <4>2. found \in Words
        BY <4>1, TornTypes
      <4>3. found.mail = store.mail \/ found.mail = work.mail
        BY <4>1, MailOfMix
      <4>4. QED
        BY <1>1, <1>3, <3>1, <4>2, <4>3
    <3>2. CASE pc # "commit"
      BY <1>1, <3>2 DEF StoreNow, TypeOK
    <3>3. QED
      BY <3>1, <3>2
  <2> DEFINE amended == SetRequest(ReadRecord(found), TRUE)
  <2>3. ReadRecord(found) \in Record
    BY <2>2, WordsTypes
  <2>4. amended \in Record
    BY <2>3, SetFieldTypes
  <2>5. SetRequest(ReadRecord(found), TRUE).mail.request
    BY <2>3, FlagEffect
  <2>6. amended.mail.request
    BY <2>5
  <2> HIDE DEF amended
  <2>7. CASE store' = found
    BY <2>2, <2>7
  <2>8. CASE store' = Seal(amended)
    <3>1. store'.mail = amended.mail
      BY <2>8 DEF Seal
    <3>2. QED
      BY <2>6, <3>1
  <2>9. CASE store' \in Prefixes(found, Seal(amended))
    <3>1. store' \in Mixes(found, Seal(amended))
      BY <2>2, <2>4, <2>9, TornTypes
    <3>2. store'.mail = found.mail \/ store'.mail = amended.mail
      BY <3>1, MailOfMix
    <3>3. QED
      BY <2>2, <2>6, <3>2
  <2>10. QED
    BY <2>1, <2>7, <2>8, <2>9 DEF amended
<1>12. CASE SwapReboot \/ HostStep \/ ReceiveStep \/ Confirm \/ RejectImage \/ RequestUpdate
            \/ AppReset \/ Wear \/ (\E b \in Banks : Decay(b)) \/ UNCHANGED vars
            \/ BootUnreadable
  <2>1. UNCHANGED store
    BY <1>12
    DEF SwapReboot, HostStep, BeginInstall, RefuseTooLarge, ReceiveStep, BurnBlock, Burn,
        EndStream, FlashFails, Confirm, RejectImage, RequestUpdate, Call, Commit, Goto,
        AppReset, Wear, Decay, BootUnreadable, Jump, vars, device
  <2>2. QED
    BY <1>6, <2>1
<1>13. CASE WatchdogBites \/ ExternalReset
  BY <1>5, <1>13 DEF WatchdogBites, ExternalReset
<1>14. QED
  BY <1>7, <1>8, <1>9, <1>10, <1>11, <1>12, <1>13 DEF Next, BootStep, AppStep, FaultStep

\* An update request leaves the record only when BOOT has chosen download mode
\* for it: every other write, torn, failed or whole, carries it along.
THEOREM RequestsAreKept == Spec => RequestKept
<1>1. KeptInv /\ [Next]_vars =>
        [(Rec.mail.request /\ ~Rec.mail.request' /\ Validated(store'))
            => (pc = "commit" /\ goal = "clearRequest") \/ blind]_vars
  BY KeptAction
<1>2. QED
  BY KeptInit, KeptStep, <1>1, PTL DEF Spec, RequestKept

=============================================================================
