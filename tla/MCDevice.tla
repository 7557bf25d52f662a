------------------------------- MODULE MCDevice -------------------------------
(* Small instances of Device for TLC. *)
EXTENDS Device, TLC

\* Every image fills the app region.
SameLen == [i \in Images |-> NBlocks]

\* One image fills the app region, any other cannot fit it.
SecondTooLong ==
    LET fits == CHOOSE i \in Images : TRUE
    IN  [i \in Images |-> IF i = fits THEN NBlocks ELSE NBlocks + 1]

Symmetry == Permutations(Images)

\* The behaviours of Device in which the application only ever resets.
QuietNext == BootStep \/ HostStep \/ ReceiveStep \/ AppReset \/ RequestUpdate

QuietSpec == Init /\ [][QuietNext]_vars
===============================================================================
