------------------------------- MODULE MCSlot -------------------------------
(***************************************************************************)
(* Slot on a small part: words of 2 bytes, pages of 2 words, blocks of 3   *)
(* pages, a flash of 8 blocks or of 16.                                    *)
(***************************************************************************)
EXTENDS Slot

CONSTANTS zero, p, q   \* contents of words of code

Word(c) == [code |-> c]
Zero == Word(zero)
P    == Word(p)
Q    == Word(q)

MCErased  == [code |-> "erased"]
MCBad     == [code |-> "bad"]
MCForeign == [code |-> "foreign"]

\* A linked image: two vector words' worth of code, a placeholder manifest,
\* then the tail.
Image(vec, tail) ==
    [i \in 0 .. 4 + Len(tail) |->
        IF i = 0 THEN vec
        ELSE IF i < 3 THEN Zero
        ELSE IF i = MagicAt THEN [fmt |-> FmtVer]
        ELSE IF i = LenAt THEN [len |-> 0]
        ELSE tail[i - LenAt]]

Part(flash, boot, sblk, bootprot) ==
    [flash |-> flash, boot |-> boot, sblk |-> sblk, bootprot |-> bootprot]

\* Regions of three blocks and of one; a reserve that leaves none; a reserved
\* encoding; a wrong fuse; a denser part with a larger BOOT and two blocks,
\* or none.
MCParts ==
    {Part(96, 12, 0, 14), Part(96, 12, 1, 14), Part(96, 12, 2, 14), Part(96, 12, 11, 14),
     Part(96, 12, 0, 13), Part(192, 24, 2, 13), Part(192, 24, 3, 13)}

\* Too short for a manifest; exactly its size; one block; a block and a part
\* of the next, the last word of which looks erased.
MCLinked ==
    {[i \in 0 .. 3 |-> P],
     Image(P, <<>>), Image(Q, <<P>>), Image(P, <<P, Q, Erased>>)}
=============================================================================
