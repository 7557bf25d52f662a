----------------------------- MODULE RecordStore ------------------------------
(***************************************************************************)
(* What the bootloader asks of whatever stores its record: the contract of *)
(* src/src/persist.rs's BootStorage.  A write either takes or is refused;  *)
(* one that is cut short by a reset leaves each word old or new; and       *)
(* nothing changes the words but a write.  The Device specification uses   *)
(* its store exactly so.                                                   *)
(***************************************************************************)
EXTENDS BootRecord

VARIABLES
    words,         \* the stored words
    writing        \* the write in progress: {} or the set of its words

contract == <<words, writing>>

SealedWrites == {{Seal(r)} : r \in Record}

Begin ==
    /\ writing = {}
    /\ writing' \in SealedWrites
    /\ UNCHANGED words

Land ==
    /\ writing # {}
    /\ words' \in writing
    /\ writing' = {}

Refuse ==
    /\ \E w \in writing : words' \in Prefixes(words, w)
    /\ writing' = {}

Cut ==
    /\ \E w \in writing : words' \in Mixes(words, w)
    /\ writing' = {}

Next == Begin \/ Land \/ Refuse \/ Cut

Spec == words = BlankStore /\ writing = {} /\ [][Next]_contract

=============================================================================
