----------------------------- MODULE SmartEeprom ------------------------------
(***************************************************************************)
(* SmartEepromStore of src/src/persist.rs, word by word: the writes go to  *)
(* a controller that takes a word at once and commits it to its journal    *)
(* later, that latches SEEWRC when it has, and that discards writes        *)
(* silently while it is locked.  A word it has taken and not committed     *)
(* reads back as written, and a reset may lose it.                         *)
(*                                                                         *)
(* BUSY is left out: it can read clear in that very window, so the code    *)
(* cannot learn from it what it has to know.                               *)
(***************************************************************************)
EXTENDS BootRecord

VARIABLES
    cells,         \* the committed words
    inflight,      \* the index of the word taken and not committed: {} or one
    seewrc,        \* INTFLAG.SEEWRC
    locked,        \* SEESTAT.LOCK, or a block that no longer takes writes
    step,          \* where write_raw is
    index,         \* the word it is at
    target,        \* the words it writes
    before         \* history: the words when it was called

see == <<cells, inflight, seewrc, locked, step, index, target, before>>

\* boot_state, mailbox, checksum: the order of the record's fields.
WordAt == [i \in 1 .. 3 |-> IF i = 1 THEN "state" ELSE IF i = 2 THEN "mail" ELSE "sum"]

\* The checksum word's value is a set of records; the others hold the word.
Store(w, i, v) == [w EXCEPT ![WordAt[i]] = v]

\* The words as they are once what the controller has taken is committed.
Committed ==
    IF inflight = {} THEN cells
    ELSE LET i == CHOOSE k \in inflight : TRUE IN Store(cells, i, target[WordAt[i]])

SeeInit ==
    /\ cells = BlankStore /\ before = BlankStore /\ target = BlankStore
    /\ inflight = {} /\ seewrc \in BOOLEAN /\ locked = FALSE
    /\ step = "idle" /\ index = 1

-----------------------------------------------------------------------------
(* write_raw. *)

Call(w) ==
    /\ step = "idle"
    /\ step' = "compare" /\ index' = 1 /\ target' = w /\ before' = cells
    /\ UNCHANGED <<cells, inflight, seewrc, locked>>

Here == index \in 1 .. 3

\* A word that is already there is not written again.
SkipWord ==
    /\ step = "compare" /\ Here
    /\ Committed[WordAt[index]] = target[WordAt[index]]
    /\ index' = index + 1
    /\ UNCHANGED <<cells, inflight, seewrc, locked, step, target, before>>

\* Mutant of ArmWriteComplete: the flag an earlier write left is not cleared.
ArmNothing ==
    /\ step = "compare" /\ Here
    /\ Committed[WordAt[index]] # target[WordAt[index]]
    /\ step' = "armed"
    /\ UNCHANGED <<cells, inflight, seewrc, locked, index, target, before>>

ArmWriteComplete ==
    /\ step = "compare" /\ Here
    /\ Committed[WordAt[index]] # target[WordAt[index]]
    /\ step' = "armed" /\ seewrc' = FALSE
    /\ UNCHANGED <<cells, inflight, locked, index, target, before>>

PutWord ==
    /\ step = "armed"
    /\ step' = "wait"
    /\ inflight' = IF locked THEN {} ELSE {index}
    /\ UNCHANGED <<cells, seewrc, locked, index, target, before>>

\* The flag is up, or the spin is spent, which is sized to mean that no write
\* is on its way.
WaitWriteComplete ==
    /\ step = "wait"
    /\ seewrc \/ inflight = {}
    /\ step' = "readback"
    /\ UNCHANGED <<cells, inflight, seewrc, locked, index, target, before>>

ReadBackMatches ==
    /\ step = "readback"
    /\ Committed[WordAt[index]] = target[WordAt[index]]
    /\ step' = "compare" /\ index' = index + 1
    /\ UNCHANGED <<cells, inflight, seewrc, locked, target, before>>

WriteReturns ==
    /\ step' = "idle" /\ index' = 1
    /\ UNCHANGED <<cells, inflight, seewrc, locked, target, before>>

\* SeeWriteFailed.
ReadBackDiffers ==
    /\ step = "readback"
    /\ Committed[WordAt[index]] # target[WordAt[index]]
    /\ WriteReturns

AllWritten ==
    /\ step = "compare" /\ ~Here
    /\ WriteReturns

SeeWriteStep == SkipWord \/ ArmWriteComplete \/ PutWord \/ WaitWriteComplete \/ ReadBackMatches

-----------------------------------------------------------------------------
(* The controller, and what interrupts it. *)

Journal ==
    /\ inflight # {}
    /\ cells' = Committed /\ inflight' = {} /\ seewrc' = TRUE
    /\ UNCHANGED <<locked, step, index, target, before>>

ToggleLock ==
    /\ locked' = ~locked
    /\ UNCHANGED <<cells, inflight, seewrc, step, index, target, before>>

\* A reset or a power cut: the word in flight is journaled or lost.
SeeReset ==
    /\ cells' \in {cells, Committed} /\ inflight' = {} /\ seewrc' = FALSE
    /\ step' = "idle" /\ index' = 1
    /\ UNCHANGED <<locked, target, before>>

-----------------------------------------------------------------------------

\* As a store: a write takes effect when it returns.
Contract == INSTANCE RecordStore WITH
    words   <- IF step = "idle" THEN cells ELSE before,
    writing <- IF step = "idle" THEN {} ELSE {target}

=============================================================================
