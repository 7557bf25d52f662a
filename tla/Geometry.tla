------------------------------- MODULE Geometry -------------------------------
(***************************************************************************)
(* The flash geometry of src/src/consts.rs and the checks that             *)
(* Boot::new (src/src/boot.rs) makes of it before anything is written.     *)
(*                                                                         *)
(* Sizes are in bytes.  The constants are the family-wide ones; a part is  *)
(* the sizes and fuses that differ from one part to the next:              *)
(* its flash, its BOOT region, its BOOTPROT fuse and its live SBLK.        *)
(***************************************************************************)
EXTENDS Integers

CONSTANTS
    PageSize,       \* PAGE_SIZE, 512 in the build
    PagesPerBlock,  \* PAGES_PER_BLOCK, 16
    LockRegions,    \* LOCK_REGION_COUNT, 32
    Granule,        \* BOOTPROT_GRANULE, 8 KiB
    SeeBlock        \* bytes of one SmartEEPROM block, 8 KiB

EraseBlock == PageSize * PagesPerBlock

ASSUME GeometryAssumption ==
    /\ PageSize \in Nat \ {0} /\ PagesPerBlock \in Nat \ {0}
    /\ LockRegions \in Nat \ {0} /\ LockRegions % 2 = 0
    /\ Granule \in Nat \ {0} /\ Granule % EraseBlock = 0
    /\ SeeBlock \in Nat \ {0} /\ SeeBlock % EraseBlock = 0

BootprotMax == 15 * Granule

-----------------------------------------------------------------------------
(* mod geometry. *)

BankSize(flash) == flash \div 2

LockRegionSize(flash) == flash \div LockRegions

\* The fuse counts down: BOOTPROT protects (15 - value) granules.
BootprotValue(boot) == 15 - boot \div Granule

\* What the hardware makes of the fuse.
Protected(value) == (15 - value) * Granule

\* Mutant of BootRegionMask: the mirror of BOOT in the other bank is left out.
ActiveRegionsOnly(flash, boot) ==
    {r \in 0 .. LockRegions - 1 : r < boot \div LockRegionSize(flash)}

\* The set bits of the mask: the first regions of each bank.
BootRegionMask(flash, boot) ==
    LET perBoot       == boot \div LockRegionSize(flash)
        inactiveFirst == BankSize(flash) \div LockRegionSize(flash)
    IN  {r \in 0 .. LockRegions - 1 :
            r < perBoot \/ (inactiveFirst <= r /\ r < inactiveFirst + perBoot)}

BootSizeValid(flash, boot) ==
    /\ boot > 0
    /\ boot <= BootprotMax
    /\ boot < BankSize(flash)
    /\ boot % LockRegionSize(flash) = 0
    /\ boot % Granule = 0

\* A density: a flash of two banks, each a whole number of lock regions and
\* of erase blocks.
Density(flash) ==
    /\ flash \in Nat \ {0}
    /\ flash % LockRegions = 0
    /\ BankSize(flash) % EraseBlock = 0

-----------------------------------------------------------------------------
(* What a running BOOT makes of its part. *)

\* The SmartEEPROM keeps 2 * SBLK blocks clear at the top of each bank.
SeeReserve(part) == 2 * part.sblk * SeeBlock

AppRegionLen(part) == BankSize(part.flash) - part.boot - SeeReserve(part)

\* Mutant of Boots: the reserve is not weighed against the bank.
BootsOnAnyReserve(part) == part.bootprot = BootprotValue(part.boot) /\ part.sblk <= 10

\* Boot::new refuses a part whose live fuses do not leave a swap-safe layout.
Boots(part) ==
    /\ part.bootprot = BootprotValue(part.boot)
    /\ part.sblk <= 10
    /\ part.boot + SeeReserve(part) < BankSize(part.flash)

\* A part a build for this density and BOOT size may find itself on.
Buildable(part) ==
    /\ Density(part.flash) /\ part.boot \in Nat /\ BootSizeValid(part.flash, part.boot)
    /\ part.sblk \in 0 .. 15 /\ part.bootprot \in 0 .. 15

\* The lock regions that hold some byte of [first, first + len).
RegionsOf(flash, first, len) ==
    {r \in 0 .. LockRegions - 1 :
        /\ r * LockRegionSize(flash) < first + len
        /\ first < (r + 1) * LockRegionSize(flash)}

=============================================================================
