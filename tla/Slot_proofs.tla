----------------------------- MODULE Slot_proofs ------------------------------
(***************************************************************************)
(* The slot, proved for every geometry, every part that a build may find   *)
(* itself on, every set of images and any number of downloads: the types,  *)
(* what a download may touch, what the two CRCs cover, the cache bits, and *)
(* which regions are locked.                                               *)
(***************************************************************************)
EXTENDS Slot, FiniteSetTheorems, TLAPS

-----------------------------------------------------------------------------
(* Arithmetic. *)

LEMMA Divides ==
    ASSUME NEW d \in Nat \ {0}, NEW x \in Nat, x % d = 0
    PROVE  \E q \in Nat : x = q * d
<1>1. x = (x \div d) * d + (x % d) /\ x \div d \in Int
  OBVIOUS
<1>2. x \div d >= 0
  OBVIOUS
<1>3. QED
  BY <1>1, <1>2

LEMMA Quotient ==
    ASSUME NEW d \in Nat \ {0}, NEW q \in Int, NEW r \in 0 .. d - 1
    PROVE  (q * d + r) \div d = q /\ (q * d) \div d = q /\ (q * d) % d = 0
OBVIOUS

LEMMA Bracket ==
    ASSUME NEW d \in Nat \ {0}, NEW q \in Int, NEW x \in Int, x \div d = q
    PROVE  q * d <= x /\ x < (q + 1) * d
OBVIOUS

LEMMA Scale ==
    ASSUME NEW d \in Nat \ {0}, NEW a \in Int, NEW b \in Int
    PROVE  (a < b <=> a * d < b * d) /\ (a <= b <=> a * d <= b * d)
OBVIOUS

LEMMA Distribute ==
    ASSUME NEW a \in Int, NEW b \in Int, NEW d \in Int
    PROVE  a * d + b * d = (a + b) * d /\ a * d - b * d = (a - b) * d
OBVIOUS

LEMMA Associate ==
    ASSUME NEW a \in Int, NEW b \in Int, NEW d \in Int
    PROVE  a * (b * d) = (a * b) * d /\ a * b \in Int
OBVIOUS

-----------------------------------------------------------------------------
(* The layout of a part that boots, in erase blocks and in words.           *)

LEMMA Sizes ==
    /\ EraseBlock \in Nat \ {0} /\ EraseBlock = PagesPerBlock * PageSize
    /\ PageWords \in Nat \ {0} /\ PageSize = PageWords * WordSize
    /\ PageSize \in Nat \ {0} /\ PagesPerBlock \in Nat \ {0} /\ WordSize \in Nat \ {0}
<1>1. PageSize \in Nat \ {0} /\ PagesPerBlock \in Nat \ {0} /\ WordSize \in Nat \ {0}
  BY GeometryAssumption, SlotAssumption
<1>2. EraseBlock \in Nat \ {0} /\ EraseBlock = PagesPerBlock * PageSize
  BY <1>1 DEF EraseBlock
<1>3. PICK q \in Nat : PageSize = q * WordSize
  BY <1>1, Divides, SlotAssumption
<1>4. PageWords = q
  BY <1>1, <1>3, Quotient DEF PageWords, Words
<1>5. q # 0
  BY <1>1, <1>3
<1>6. QED
  BY <1>1, <1>2, <1>3, <1>4, <1>5

Laid(p, b, e, f) ==
    /\ p.boot = b * EraseBlock
    /\ p.boot + AppRegionLen(p) = e * EraseBlock
    /\ BankSize(p.flash) = f * EraseBlock
    /\ 0 < b /\ b < e /\ e <= f

LEMMA Layout ==
    ASSUME NEW p \in Parts, Boots(p)
    PROVE  \E b, e, f \in Nat : Laid(p, b, e, f)
<1>1. /\ p.boot \in Nat /\ p.sblk \in Nat /\ p.flash \in Nat
      /\ p.boot > 0 /\ p.boot % Granule = 0
      /\ BankSize(p.flash) % EraseBlock = 0
  BY SlotAssumption DEF Buildable, Density, BootSizeValid
<1>2. /\ Granule \in Nat \ {0} /\ Granule % EraseBlock = 0
      /\ SeeBlock \in Nat \ {0} /\ SeeBlock % EraseBlock = 0
  BY GeometryAssumption
<1>3. BankSize(p.flash) \in Nat
  BY <1>1 DEF BankSize
<1>4. PICK g \in Nat : Granule = g * EraseBlock
  BY <1>2, Sizes, Divides
<1>5. PICK s \in Nat : SeeBlock = s * EraseBlock
  BY <1>2, Sizes, Divides
<1>6. PICK f \in Nat : BankSize(p.flash) = f * EraseBlock
  BY <1>1, <1>3, Sizes, Divides
<1>7. PICK n \in Nat : p.boot = n * Granule
  BY <1>1, <1>2, Divides
<1> DEFINE b == n * g
           r == 2 * p.sblk * s
<1>8. b \in Nat /\ p.boot = b * EraseBlock
  BY <1>4, <1>7, Sizes, Associate
<1>9. r \in Nat /\ SeeReserve(p) = r * EraseBlock
  BY <1>1, <1>5, Sizes, Associate DEF SeeReserve
<1> HIDE DEF b, r
<1>10. p.boot + AppRegionLen(p) = f * EraseBlock - r * EraseBlock
  <2>1. AppRegionLen(p) = BankSize(p.flash) - p.boot - SeeReserve(p)
    BY DEF AppRegionLen
  <2>2. BankSize(p.flash) \in Int /\ SeeReserve(p) \in Int
    BY <1>3, <1>9, Sizes
  <2>3. QED
    BY <1>1, <1>6, <1>9, <2>1, <2>2
<1>11. p.boot + AppRegionLen(p) = (f - r) * EraseBlock
  BY <1>9, <1>10, Sizes, Distribute
<1>12. b * EraseBlock + r * EraseBlock < f * EraseBlock
  BY <1>6, <1>8, <1>9 DEF Boots
<1>13. b + r < f
  <2>1. (b + r) * EraseBlock < f * EraseBlock
    BY <1>8, <1>9, <1>12, Sizes, Distribute
  <2>2. QED
    BY <1>8, <1>9, <2>1, Sizes, Scale
<1>14. 0 < b
  BY <1>1, <1>8, Sizes
<1>15. f - r \in Nat /\ b < f - r /\ f - r <= f
  BY <1>8, <1>9, <1>13
<1>16. QED
  BY <1>6, <1>8, <1>11, <1>14, <1>15 DEF Laid

\* The ends of the region fall on words, and the region is not empty.
LEMMA Region ==
    ASSUME part \in Parts, Boots(part)
    PROVE  /\ Begin \in Nat /\ End \in Nat /\ AppRegionLen(part) \in Nat \ {0}
           /\ Words(Begin) \in Nat /\ Begin = Words(Begin) * WordSize
           /\ Words(End) \in Nat /\ End = Words(End) * WordSize
           /\ End <= BankSize(part.flash) /\ BankSize(part.flash) \in Nat
           /\ BankSize(part.flash) = Words(BankSize(part.flash)) * WordSize
<1>1. PICK b, e, f \in Nat : Laid(part, b, e, f)
  BY Layout
<1> DEFINE w == PagesPerBlock * PageWords
<1>2. w \in Nat /\ EraseBlock = w * WordSize
  BY Sizes, Associate
<1> HIDE DEF w
<1>3. /\ Begin = b * EraseBlock /\ End = e * EraseBlock
      /\ BankSize(part.flash) = f * EraseBlock
  BY <1>1 DEF Laid, Begin, End
<1>4. ASSUME NEW q \in Nat
      PROVE  /\ q * EraseBlock \in Nat /\ Words(q * EraseBlock) \in Nat
             /\ q * EraseBlock = Words(q * EraseBlock) * WordSize
  <2>1. q * EraseBlock = (q * w) * WordSize /\ q * w \in Nat
    BY <1>2, Sizes, Associate
  <2>2. QED
    BY <2>1, Sizes, Quotient DEF Words
<1>5. b * EraseBlock < e * EraseBlock /\ e * EraseBlock <= f * EraseBlock
  BY <1>1, Sizes, Scale DEF Laid
<1>6. AppRegionLen(part) = End - Begin
  <2>1. AppRegionLen(part) \in Int
    <3>1. /\ BankSize(part.flash) \in Nat /\ part.boot \in Nat
      BY <1>3, <1>4 DEF Begin
    <3>2. part.sblk \in Nat /\ SeeBlock \in Nat
      BY SlotAssumption, GeometryAssumption DEF Buildable
    <3>3. SeeReserve(part) \in Int
      BY <3>2 DEF SeeReserve
    <3>4. QED
      BY <3>1, <3>3 DEF AppRegionLen
  <2>2. QED
    BY <1>3, <1>4, <2>1 DEF End
<1>7. QED
  BY <1>3, <1>4, <1>5, <1>6

\* A word of a page that does not run past the end is a word of the region.
LEMMA PageInside ==
    ASSUME part \in Parts, Boots(part), NEW k \in Nat, ~PastEnd(k),
           NEW a \in Int, a - Words(Addr(k)) \in 0 .. PageWords - 1
    PROVE  Words(Begin) <= a /\ a < Words(End)
<1>1. /\ Words(Begin) \in Nat /\ Begin = Words(Begin) * WordSize
      /\ Words(End) \in Nat /\ End = Words(End) * WordSize
  BY Region
<1> DEFINE kw == k * PageWords
<1>2. kw \in Nat /\ k * PageSize = kw * WordSize
  BY Sizes, Associate
<1> HIDE DEF kw
<1>3. PICK b \in Nat : b = Words(Begin)
  BY <1>1
<1>4. Addr(k) = (b + kw) * WordSize
  <2>1. Begin = b * WordSize
    BY <1>1, <1>3
  <2>2. Addr(k) = b * WordSize + kw * WordSize
    BY <1>2, <2>1 DEF Addr
  <2>3. QED
    BY <1>2, <2>2, Sizes, Distribute
<1>5. Words(Addr(k)) = b + kw
  <2>1. b + kw \in Int
    BY <1>2
  <2>2. QED
    BY <1>4, <2>1, Sizes, Quotient DEF Words
<1>6. Addr(k) + PageSize = (b + kw + PageWords) * WordSize
  <2>1. Addr(k) + PageSize = (b + kw) * WordSize + PageWords * WordSize
    BY <1>4, Sizes
  <2>2. QED
    BY <1>2, <2>1, Sizes, Distribute
<1>7. Addr(k) + PageSize <= End
  <2>1. Addr(k) + PageSize \in Int /\ End \in Int
    BY <1>1, <1>2, <1>6, Sizes
  <2>2. QED
    BY <2>1 DEF PastEnd
<1>8. b + kw + PageWords <= Words(End)
  BY <1>1, <1>2, <1>6, <1>7, Sizes, Scale
<1>9. QED
  BY <1>1, <1>2, <1>3, <1>5, <1>8, Sizes

\* So is a word of the erase block that such a page is the first of: the end
\* of the region falls on a block.
LEMMA BlockInside ==
    ASSUME part \in Parts, Boots(part), NEW k \in Nat, ~PastEnd(k), FirstOfBlock(k),
           NEW a \in Int, InBlock(a, Addr(k))
    PROVE  Words(Begin) <= a /\ a < Words(End)
<1>1. /\ Words(Begin) \in Nat /\ Begin = Words(Begin) * WordSize
      /\ Words(End) \in Nat /\ End = Words(End) * WordSize
  BY Region
<1>2. PICK b, e, f \in Nat : Laid(part, b, e, f)
  BY Layout
<1>3. Begin = b * EraseBlock /\ End = e * EraseBlock
  BY <1>2 DEF Laid, Begin, End
<1>4. PICK j \in Nat : k = j * PagesPerBlock
  BY Sizes, Divides DEF FirstOfBlock
<1>5. k * PageSize = j * EraseBlock
  BY <1>4, Sizes, Associate
<1>6. Addr(k) = (b + j) * EraseBlock
  BY <1>3, <1>5, Sizes, Distribute DEF Addr
<1>7. Addr(k) \div EraseBlock = b + j
  BY <1>6, Sizes, Quotient
<1>8. (b + j) * EraseBlock <= a * WordSize /\ a * WordSize < (b + j + 1) * EraseBlock
  <2>1. (a * WordSize) \div EraseBlock = b + j /\ a * WordSize \in Int
    BY <1>7, Sizes DEF InBlock
  <2>2. QED
    BY <2>1, Sizes, Bracket
<1>9. b + j + 1 <= e
  <2>1. (b + j) * EraseBlock < e * EraseBlock
    <3>1. (b + j) * EraseBlock \in Int /\ e * EraseBlock \in Int
      BY Sizes
    <3>2. QED
      BY <1>3, <1>6, <3>1, Sizes DEF PastEnd
  <2>2. QED
    BY <2>1, Sizes, Scale
<1>10. b * EraseBlock <= (b + j) * EraseBlock /\ (b + j + 1) * EraseBlock <= e * EraseBlock
  BY <1>9, Sizes, Scale
<1>11. Words(Begin) * WordSize <= a * WordSize /\ a * WordSize < Words(End) * WordSize
  <2>1. /\ b * EraseBlock \in Int /\ (b + j) * EraseBlock \in Int
        /\ (b + j + 1) * EraseBlock \in Int /\ e * EraseBlock \in Int /\ a * WordSize \in Int
    BY Sizes
  <2>2. QED
    BY <1>1, <1>3, <1>8, <1>10, <2>1
<1>12. QED
  BY <1>1, <1>11, Sizes, Scale
-----------------------------------------------------------------------------
(* The invariant. *)

SlotTypes ==
    /\ part \in Parts
    /\ DOMAIN bank = 0 .. Words(BankSize(part.flash)) - 1
    /\ pc \in {"parked", "idle", "write", "manifest", "crc"}
    /\ pc # "parked" => Boots(part)
    /\ stream.bytes \in Nat /\ page \in Nat
    /\ cachedis \in BOOLEAN /\ saved \in BOOLEAN
    /\ result \in {"none", "ok", "ImageTooLarge", "Nvm", "DsuFault"} \cup VerifyErrors
    /\ downloads \in 0 .. MaxDownloads

\* TypeOK speaks of the length of the region and not of what makes it positive,
\* and CrcCoversImage of a length that ReadManifest has checked.
LenChecked == pc = "crc" => LenAccepted(LenIn)

SlotInv == SlotTypes /\ InsideRegion /\ CacheRight /\ LenChecked

\* An image that was stamped has the words of the one that was linked.
LEMMA Lengths ==
    ASSUME NEW im \in Offered
    PROVE  LenOfImage(im) \in Nat
<1>1. IsFiniteSet(DOMAIN im)
  <2>1. CASE im \in Linked
    BY <2>1, ImageAssumption
  <2>2. ASSUME NEW fmt, im \in StampedAs(fmt)
        PROVE  IsFiniteSet(DOMAIN im)
    <3>1. PICK l \in Linked : im = StampAs(l, fmt)
      BY <2>2 DEF StampedAs
    <3>2. DOMAIN im = DOMAIN l
      BY <3>1 DEF StampAs
    <3>3. QED
      BY <3>2, ImageAssumption
  <2>3. QED
    BY <2>1, <2>2 DEF Offered, Sealed
<1>2. Cardinality(DOMAIN im) \in Nat
  BY <1>1, FS_CardinalityType
<1>3. QED
  BY <1>2, Sizes DEF LenOfImage

LEMMA Sources ==
    ASSUME NEW s \in Streams
    PROVE  s.bytes \in Nat
<1>1. PICK im \in Offered : s.bytes = LenOfImage(im) \/ s.bytes \in 0 .. LenOfImage(im) - 1
  <2>1. StampedAs(FmtVer) \subseteq Offered
    BY DEF Offered, Sealed
  <2>2. CASE s \in {Stream(im, LenOfImage(im)) : im \in Offered}
    BY <2>2 DEF Stream
  <2>3. CASE s \in UNION {{Stream(im, n) : n \in 0 .. LenOfImage(im) - 1} : im \in StampedAs(FmtVer)}
    <3>1. PICK im \in StampedAs(FmtVer) : s \in {Stream(im, n) : n \in 0 .. LenOfImage(im) - 1}
      BY <2>3
    <3>2. QED
      BY <2>1, <3>1 DEF Stream
  <2>4. CASE s \in UNION {UNION {{Stream([im EXCEPT ![at] = w], LenOfImage(im)) : w \in Wrong(at)} :
                             at \in {0, CrcVecAt, CrcImgAt, MagicAt, LenAt}} : im \in StampedAs(FmtVer)}
    <3>1. PICK im \in StampedAs(FmtVer) :
              s \in UNION {{Stream([im EXCEPT ![at] = w], LenOfImage(im)) : w \in Wrong(at)} :
                           at \in {0, CrcVecAt, CrcImgAt, MagicAt, LenAt}}
      BY <2>4
    <3>2. PICK at \in {0, CrcVecAt, CrcImgAt, MagicAt, LenAt} :
              s \in {Stream([im EXCEPT ![at] = w], LenOfImage(im)) : w \in Wrong(at)}
      BY <3>1
    <3>3. QED
      BY <2>1, <3>1, <3>2 DEF Stream
  <2>5. QED
    BY <2>2, <2>3, <2>4 DEF Streams
<1>2. QED
  BY <1>1, Lengths

\* What any step of the writer makes of the bank.
LEMMA Burnt ==
    ASSUME SlotInv, pc = "write", ~PastEnd(page),
           NEW b \in {bank, ErasedAhead(page), Programmed(page)}
    PROVE  /\ DOMAIN b = DOMAIN bank
           /\ \A a \in DOMAIN bank : (a < Words(Begin) \/ a >= Words(End)) => b[a] = Foreign
<1>1. part \in Parts /\ Boots(part) /\ page \in Nat
  BY DEF SlotInv, SlotTypes
<1>2. \A a \in DOMAIN bank : a \in Int
  BY DEF SlotInv, SlotTypes
<1> DEFINE Kept(c) == /\ DOMAIN c = DOMAIN bank
                      /\ \A a \in DOMAIN bank :
                            (a < Words(Begin) \/ a >= Words(End)) => c[a] = Foreign
<1>3. Kept(bank)
  BY DEF SlotInv, InsideRegion
<1>4. Kept(ErasedAhead(page))
  <2>1. CASE ~FirstOfBlock(page)
    BY <1>3, <2>1 DEF ErasedAhead
  <2>2. CASE FirstOfBlock(page)
    <3>1. ASSUME NEW a \in DOMAIN bank, a < Words(Begin) \/ a >= Words(End)
          PROVE  ~InBlock(a, Addr(page))
      BY <1>1, <1>2, <2>2, <3>1, BlockInside, Region
    <3>2. QED
      BY <1>3, <2>2, <3>1 DEF ErasedAhead
  <2>3. QED
    BY <2>1, <2>2
<1>5. Kept(Programmed(page))
  <2>1. ASSUME NEW a \in DOMAIN bank, a < Words(Begin) \/ a >= Words(End)
        PROVE  a - Words(Addr(page)) \notin DOMAIN PageOf(stream, page)
    <3>1. DOMAIN PageOf(stream, page) = 0 .. PageWords - 1
      BY DEF PageOf
    <3>2. QED
      BY <1>1, <1>2, <2>1, <3>1, PageInside, Region
  <2>2. QED
    BY <1>4, <2>1 DEF Programmed
<1>6. QED
  BY <1>3, <1>4, <1>5

LEMMA Begins == Init => SlotInv
<1> SUFFICES ASSUME Init PROVE SlotInv
  OBVIOUS
<1>1. SlotTypes
  <2>1. stream.bytes \in Nat
    BY DEF Init, NoStream, Stream
  <2>2. downloads \in 0 .. MaxDownloads
    BY SlotAssumption DEF Init
  <2>3. cachedis \in BOOLEAN /\ saved \in BOOLEAN
    BY DEF Init
  <2>4. pc \in {"parked", "idle"} /\ (pc # "parked" => Boots(part))
    BY DEF Init
  <2>5. DOMAIN bank = 0 .. Words(BankSize(part.flash)) - 1
    BY DEF Init
  <2>6. QED
    BY <2>1, <2>2, <2>3, <2>4, <2>5 DEF Init, SlotTypes
<1>2. InsideRegion
  BY DEF Init, InsideRegion, Begin, End
<1>3. pc \in {"idle", "parked"}
  BY DEF Init
<1>4. QED
  BY <1>1, <1>2, <1>3 DEF SlotInv, CacheRight, LenChecked

\* A step that leaves the part and the bank alone keeps what is said of them.
LEMMA Untouched ==
    ASSUME SlotInv, UNCHANGED <<part, bank>>
    PROVE  InsideRegion' /\ (LenAccepted(LenIn) => LenAccepted(LenIn)')
<1>1. InsideRegion'
  BY DEF SlotInv, InsideRegion, Begin, End, AppRegionLen
<1>2. LenIn' = LenIn
  BY DEF LenIn, At, Begin
<1>3. LenAccepted(LenIn) => LenAccepted(LenIn)'
  BY <1>2 DEF LenAccepted, AppRegionLen
<1>4. QED
  BY <1>1, <1>3

LEMMA Step == SlotInv /\ [Next]_vars => SlotInv'
<1> SUFFICES ASSUME SlotInv, [Next]_vars PROVE SlotInv'
  OBVIOUS
<1>0. SlotTypes /\ InsideRegion /\ CacheRight /\ LenChecked
  BY DEF SlotInv
<1>1. ASSUME NEW s \in Streams, Download(s) PROVE SlotInv'
  <2>1. s.bytes \in Nat /\ MaxDownloads \in Nat
    BY Sources, SlotAssumption
  <2>2. SlotTypes'
    BY <1>0, <1>1, <2>1 DEF Download, SlotTypes
  <2>3. InsideRegion'
    BY <1>1, Untouched DEF Download
  <2>4. CacheRight' /\ LenChecked'
    BY <1>1 DEF Download, CacheRight, LenChecked
  <2>5. QED
    BY <2>2, <2>3, <2>4 DEF SlotInv
<1>2. CASE WritePage
  <2>1. bank' \in {bank, ErasedAhead(page), Programmed(page)} /\ pc = "write" /\ ~PastEnd(page)
    BY <1>2 DEF WritePage
  <2>2. SlotTypes'
    BY <1>0, <1>2, <2>1, Burnt DEF WritePage, SlotTypes
  <2>3. InsideRegion'
    BY <1>2, <2>1, Burnt DEF WritePage, InsideRegion, Begin, End, AppRegionLen
  <2>4. CacheRight' /\ LenChecked'
    BY <1>0, <1>2 DEF WritePage, CacheRight, LenChecked
  <2>5. QED
    BY <2>2, <2>3, <2>4 DEF SlotInv
<1>3. CASE PageTooLarge
  <2>1. SlotTypes'
    BY <1>0, <1>3 DEF PageTooLarge, WriterDrops, Fail, SlotTypes
  <2>2. InsideRegion'
    BY <1>3, Untouched DEF PageTooLarge
  <2>3. CacheRight' /\ LenChecked'
    BY <1>3 DEF PageTooLarge, Fail, CacheRight, LenChecked
  <2>4. QED
    BY <2>1, <2>2, <2>3 DEF SlotInv
<1>4. CASE NvmFails
  <2>1. bank' \in {bank, ErasedAhead(page), Programmed(page)} /\ pc = "write" /\ ~PastEnd(page)
    BY <1>4 DEF NvmFails
  <2>2. SlotTypes'
    BY <1>0, <1>4, <2>1, Burnt DEF NvmFails, WriterDrops, Fail, SlotTypes
  <2>3. InsideRegion'
    BY <1>4, <2>1, Burnt DEF NvmFails, InsideRegion, Begin, End, AppRegionLen
  <2>4. CacheRight' /\ LenChecked'
    BY <1>4 DEF NvmFails, Fail, CacheRight, LenChecked
  <2>5. QED
    BY <2>2, <2>3, <2>4 DEF SlotInv
<1>5. CASE WriteEnds
  <2>1. pc' \in {"manifest", "idle"} /\ result' \in {result, "BadLen"} /\ pc = "write"
    BY <1>5 DEF WriteEnds, Fail
  <2>2. SlotTypes'
    BY <1>0, <1>5, <2>1 DEF WriteEnds, WriterDrops, VerifyErrors, SlotTypes
  <2>3. InsideRegion'
    BY <1>5, Untouched DEF WriteEnds
  <2>4. CacheRight' /\ LenChecked'
    BY <2>1 DEF CacheRight, LenChecked
  <2>5. QED
    BY <2>2, <2>3, <2>4 DEF SlotInv
<1>6. CASE ReadManifest
  <2>1. /\ pc = "manifest" /\ UNCHANGED <<part, bank, stream, page, saved, downloads>>
        /\ \/ LenAccepted(LenIn) /\ pc' = "crc" /\ cachedis' = FALSE /\ result' = result
           \/ pc' = "idle" /\ cachedis' = cachedis /\ result' \in VerifyErrors
    BY <1>6 DEF ReadManifest, Fail, VerifyErrors
  <2>2. SlotTypes'
    BY <1>0, <2>1 DEF SlotTypes
  <2>3. InsideRegion' /\ LenChecked'
    BY <2>1, Untouched DEF LenChecked
  <2>4. CacheRight'
    BY <2>1 DEF CacheRight
  <2>5. QED
    BY <2>2, <2>3, <2>4 DEF SlotInv
<1>7. CASE RunCrc
  <2>1. /\ pc = "crc" /\ UNCHANGED <<part, bank, stream, page, cachedis, saved, downloads>>
        /\ pc' = "idle" /\ result' \in {"ok"} \cup VerifyErrors
    BY <1>7 DEF RunCrc, Fail, VerifyErrors
  <2>2. SlotTypes'
    BY <1>0, <2>1 DEF SlotTypes
  <2>3. InsideRegion'
    BY <2>1, Untouched
  <2>4. CacheRight' /\ LenChecked'
    BY <2>1 DEF CacheRight, LenChecked
  <2>5. QED
    BY <2>2, <2>3, <2>4 DEF SlotInv
<1>8. CASE DsuFails
  <2>1. /\ pc = "crc" /\ UNCHANGED <<part, bank, stream, page, cachedis, saved, downloads>>
        /\ pc' = "idle" /\ result' = "DsuFault"
    BY <1>8 DEF DsuFails, Fail
  <2>2. SlotTypes'
    BY <1>0, <2>1 DEF SlotTypes
  <2>3. InsideRegion'
    BY <2>1, Untouched
  <2>4. CacheRight' /\ LenChecked'
    BY <2>1 DEF CacheRight, LenChecked
  <2>5. QED
    BY <2>2, <2>3, <2>4 DEF SlotInv
<1>9. CASE Verify
  <2>1. stream'.bytes \in Nat
    BY <1>9 DEF Verify, NoStream, Stream
  <2>2. SlotTypes'
    BY <1>0, <1>9, <2>1 DEF Verify, SlotTypes
  <2>3. InsideRegion'
    BY <1>9, Untouched DEF Verify
  <2>4. CacheRight' /\ LenChecked'
    BY <1>9 DEF Verify, CacheRight, LenChecked
  <2>5. QED
    BY <2>2, <2>3, <2>4 DEF SlotInv
<1>10. CASE ResetPart
  <2>1. \/ bank' = bank
        \/ /\ bank' \in {bank, ErasedAhead(page), Programmed(page)}
           /\ pc = "write" /\ ~PastEnd(page)
    BY <1>10 DEF ResetPart
  <2>2. DOMAIN bank' = DOMAIN bank
    BY <2>1, Burnt
  <2>3. stream'.bytes \in Nat
    BY <1>10 DEF ResetPart, NoStream, Stream
  <2>4. SlotTypes'
    BY <1>0, <1>10, <2>2, <2>3 DEF ResetPart, SlotTypes
  <2>5. InsideRegion'
    <3>1. CASE bank' = bank
      BY <1>10, <3>1, Untouched DEF ResetPart
    <3>2. CASE /\ bank' \in {bank, ErasedAhead(page), Programmed(page)}
               /\ pc = "write" /\ ~PastEnd(page)
      BY <1>10, <3>2, Burnt DEF ResetPart, InsideRegion, Begin, End, AppRegionLen
    <3>3. QED
      BY <2>1, <3>1, <3>2
  <2>6. CacheRight' /\ LenChecked'
    BY <1>10 DEF ResetPart, CacheRight, LenChecked
  <2>7. QED
    BY <2>4, <2>5, <2>6 DEF SlotInv
<1>11. CASE UNCHANGED vars
  <2>1. SlotTypes'
    BY <1>0, <1>11 DEF vars, SlotTypes
  <2>2. InsideRegion' /\ LenChecked'
    BY <1>0, <1>11, Untouched DEF vars, LenChecked
  <2>3. CacheRight'
    BY <1>0, <1>11 DEF vars, CacheRight
  <2>4. QED
    BY <2>1, <2>2, <2>3 DEF SlotInv
<1>12. QED
  BY <1>1, <1>2, <1>3, <1>4, <1>5, <1>6, <1>7, <1>8, <1>9, <1>10, <1>11 DEF Next

LEMMA Invariant == Spec => []SlotInv
BY Begins, Step, PTL DEF Spec

-----------------------------------------------------------------------------
(* What the invariant says of the types, the bank and the cache. *)

\* Every variable has its type, and a BOOT that runs has an app region
\* (Boot::new refuses a part whose fuses leave none).
THEOREM SlotTypeCorrect == Spec => []TypeOK
<1>1. SlotInv => TypeOK
  <2> SUFFICES ASSUME SlotInv PROVE TypeOK
    OBVIOUS
  <2>1. SlotTypes
    BY DEF SlotInv
  <2>2. pc # "parked" => AppRegionLen(part) > 0
    BY <2>1, Region DEF SlotTypes
  <2>3. QED
    BY <2>1, <2>2 DEF SlotTypes, TypeOK
<1>2. QED
  BY <1>1, Invariant, PTL

\* No download touches BOOT's mirror or the SmartEEPROM's reserve, though the
\* erase-ahead of FlashWriter::write_page is not bounded by the region's end.
THEOREM DownloadsStayInside == Spec => []InsideRegion
<1>1. SlotInv => InsideRegion
  BY DEF SlotInv
<1>2. QED
  BY <1>1, Invariant, PTL

\* The cache is off while pages are written and on while the DSU runs.
THEOREM CacheIsRight == Spec => []CacheRight
<1>1. SlotInv => CacheRight
  BY DEF SlotInv
<1>2. QED
  BY <1>1, Invariant, PTL

-----------------------------------------------------------------------------
(* The ranges of the CRCs. *)

\* The words whose addresses lie in a range that falls on words.
LEMMA WordsOfRange ==
    ASSUME NEW r, NEW m \in Nat, NEW n \in Nat,
           r.from = m * WordSize, r.len = n * WordSize, (m + n) * WordSize <= Wide
    PROVE  RangeWords(r) = m .. m + n - 1
<1>1. r.from + r.len = (m + n) * WordSize
  BY Sizes, Distribute
<1>2. m + n <= Wide
  <2>1. m + n <= (m + n) * WordSize
    BY Sizes
  <2>2. QED
    BY <2>1, Sizes, SlotAssumption
<1>3. ASSUME NEW w \in Int
      PROVE  (r.from <= w * WordSize /\ w * WordSize < r.from + r.len) <=> (m <= w /\ w < m + n)
  BY <1>1, Sizes, Scale
<1>4. QED
  BY <1>2, <1>3, SlotAssumption DEF RangeWords

\* Whatever length check_slot has accepted, the vector range and the image
\* range cover the image but for its two CRCs, once, and nothing else.
LEMMA RangesCover == SlotInv => CrcCoversImage
<1> SUFFICES ASSUME SlotInv, pc = "crc"
             PROVE  LET words(i) == RangeWords(Ranges(LenIn)[i])
                        image    == Words(Begin) .. Words(Begin + LenIn) - 1
                    IN  /\ words(1) \cap words(2) = {}
                        /\ words(1) \cup words(2)
                               = image \ {Words(Begin) + CrcVecAt, Words(Begin) + CrcImgAt}
                        /\ image \subseteq Words(Begin) .. Words(End) - 1
  BY DEF CrcCoversImage
<1> DEFINE r1 == Ranges(LenIn)[1]
           r2 == Ranges(LenIn)[2]
<1>1. part \in Parts /\ Boots(part) /\ LenAccepted(LenIn)
  BY DEF SlotInv, SlotTypes, LenChecked
<1>2. VecWords \in Nat \ {0} /\ Wide \in Nat /\ BankSize(part.flash) < Wide
  BY <1>1, SlotAssumption
<1>3. LenIn \in Nat
  <2>1. CASE At(LenAt) \in [len : 0 .. Wide - 1]
    BY <1>2, <2>1 DEF LenIn
  <2>2. CASE At(LenAt) \notin [len : 0 .. Wide - 1]
    <3>1. Wide - 1 \in Nat
      BY <1>1, <1>2, Region
    <3>2. QED
      BY <2>2, <3>1 DEF LenIn
  <2>3. QED
    BY <2>1, <2>2
<1>4. PICK l \in Nat : LenIn = l * WordSize
  BY <1>1, <1>3, Sizes, Divides DEF LenAccepted
<1>5. PICK b \in Nat : b = Words(Begin) /\ Begin = b * WordSize
  BY <1>1, Region
<1>6. PICK e \in Nat : e = Words(End) /\ End = e * WordSize
  BY <1>1, Region
<1>7. VecWords + 4 <= l
  BY <1>1, <1>2, <1>4, Sizes, Scale DEF LenAccepted, MinImageLen
<1>8. b + l <= e
  <2>1. Begin + LenIn <= End
    BY <1>1, <1>3, Region DEF LenAccepted, End
  <2>2. Begin + LenIn = (b + l) * WordSize
    BY <1>4, <1>5, Sizes, Distribute
  <2>3. QED
    BY <1>6, <2>1, <2>2, Sizes, Scale
<1>9. e * WordSize < Wide
  BY <1>1, <1>2, <1>6, Region
<1>10. ASSUME NEW n \in Nat, n <= e
       PROVE  n * WordSize <= Wide
  <2>1. n * WordSize <= e * WordSize /\ n * WordSize \in Nat /\ e * WordSize \in Nat
    BY <1>10, Sizes, Scale
  <2>2. QED
    BY <1>2, <1>9, <2>1
<1>11. RangeWords(r1) = b .. b + VecWords - 1
  <2>1. r1.from = b * WordSize /\ r1.len = VecWords * WordSize
    BY <1>5 DEF Ranges
  <2>2. (b + VecWords) * WordSize <= Wide
    BY <1>2, <1>7, <1>8, <1>10
  <2>3. QED
    BY <1>2, <2>1, <2>2, WordsOfRange
<1>12. RangeWords(r2) = b + VecWords + 2 .. b + l - 1
  <2>1. r2.from = (b + VecWords + 2) * WordSize
    <3>1. r2.from = b * WordSize + (VecWords + 2) * WordSize
      BY <1>5 DEF Ranges, BodyAt
    <3>2. QED
      BY <1>2, <3>1, Sizes, Distribute
  <2>2. r2.len = (l - VecWords - 2) * WordSize
    <3>1. r2.len = (l * WordSize - (VecWords + 2) * WordSize) % Wide
      BY <1>4 DEF Ranges, BodyAt
    <3>2. l * WordSize - (VecWords + 2) * WordSize = (l - VecWords - 2) * WordSize
      BY <1>2, Sizes, Distribute
    <3>3. (l - VecWords - 2) * WordSize \in 0 .. Wide - 1
      <4>1. l - VecWords - 2 \in Nat /\ l - VecWords - 2 <= e
        BY <1>2, <1>7, <1>8
      <4>2. (l - VecWords - 2) * WordSize <= e * WordSize /\ (l - VecWords - 2) * WordSize \in Nat
        BY <4>1, Sizes, Scale
      <4>3. QED
        BY <1>2, <1>9, <4>2, Sizes
    <3>4. QED
      BY <1>2, <3>1, <3>2, <3>3
  <2>3. b + VecWords + 2 \in Nat /\ l - VecWords - 2 \in Nat
    BY <1>2, <1>7
  <2>4. ((b + VecWords + 2) + (l - VecWords - 2)) * WordSize <= Wide
    <3>1. (b + VecWords + 2) + (l - VecWords - 2) = b + l
      BY <1>2
    <3>2. QED
      BY <1>8, <1>10, <3>1
  <2>5. RangeWords(r2) = b + VecWords + 2 .. (b + VecWords + 2) + (l - VecWords - 2) - 1
    BY <2>1, <2>2, <2>3, <2>4, WordsOfRange
  <2>6. QED
    BY <1>2, <2>5
<1>13. Words(Begin + LenIn) = b + l
  <2>1. Begin + LenIn = (b + l) * WordSize
    BY <1>4, <1>5, Sizes, Distribute
  <2>2. QED
    BY <2>1, Sizes, Quotient DEF Words
<1> HIDE DEF r1, r2
<1>14. /\ RangeWords(r1) \cap RangeWords(r2) = {}
       /\ RangeWords(r1) \cup RangeWords(r2) = (b .. b + l - 1) \ {b + VecWords, b + VecWords + 1}
       /\ b .. b + l - 1 \subseteq b .. e - 1
  BY <1>2, <1>7, <1>8, <1>11, <1>12
<1>15. /\ RangeWords(r1) \cap RangeWords(r2) = {}
       /\ RangeWords(r1) \cup RangeWords(r2)
              = (Words(Begin) .. Words(Begin + LenIn) - 1)
                    \ {Words(Begin) + CrcVecAt, Words(Begin) + CrcImgAt}
       /\ Words(Begin) .. Words(Begin + LenIn) - 1 \subseteq Words(Begin) .. Words(End) - 1
  <2>1. Words(Begin) + CrcVecAt = b + VecWords /\ Words(Begin) + CrcImgAt = b + VecWords + 1
    BY <1>2, <1>5 DEF CrcVecAt, CrcImgAt
  <2>2. /\ Words(Begin) .. Words(Begin + LenIn) - 1 = b .. b + l - 1
        /\ Words(Begin) .. Words(End) - 1 = b .. e - 1
    BY <1>5, <1>6, <1>13
  <2>3. QED
    BY <1>14, <2>1, <2>2
<1>16. QED
  BY <1>15 DEF r1, r2

THEOREM CrcsCover == Spec => []CrcCoversImage
BY RangesCover, Invariant, PTL

-----------------------------------------------------------------------------
(* The locks and the fuse. *)

LEMMA Locks == SlotTypes => LocksCoverBoot
<1> SUFFICES ASSUME SlotTypes PROVE LocksCoverBoot
  OBVIOUS
<1>1. /\ part.flash \in Nat \ {0} /\ part.flash % LockRegions = 0
      /\ part.boot \in Nat /\ part.boot < BankSize(part.flash)
      /\ part.boot % LockRegionSize(part.flash) = 0 /\ part.boot % Granule = 0
  BY SlotAssumption DEF SlotTypes, Buildable, Density, BootSizeValid
<1>2. LockRegions \in Nat \ {0} /\ LockRegions % 2 = 0 /\ Granule \in Nat \ {0}
  BY GeometryAssumption
<1>3. PICK h \in Nat : LockRegions = h * 2
  BY <1>2, Divides
<1>4. PICK s \in Nat : part.flash = s * LockRegions
  BY <1>1, <1>2, Divides
<1>5. LockRegionSize(part.flash) = s /\ s \in Nat \ {0}
  BY <1>1, <1>2, <1>4, Quotient DEF LockRegionSize
<1>6. BankSize(part.flash) = h * s
  <2>1. part.flash = (h * s) * 2 /\ h * s \in Int
    BY <1>3, <1>4, <1>5
  <2>2. QED
    BY <2>1, Quotient DEF BankSize
<1>7. PICK p \in Nat : part.boot = p * s
  BY <1>1, <1>5, Divides
<1>8. part.boot \div s = p /\ BankSize(part.flash) \div s = h
  BY <1>5, <1>6, <1>7, Quotient
<1>9. p < h
  BY <1>1, <1>5, <1>6, <1>7, Scale
<1>10. BootRegionMask(part.flash, part.boot)
           = {r \in 0 .. LockRegions - 1 : r < p \/ (h <= r /\ r < h + p)}
  BY <1>5, <1>8 DEF BootRegionMask
<1>11. ASSUME NEW r \in 0 .. LockRegions - 1, NEW n \in Nat
       PROVE  /\ (r * s < n * s + p * s <=> r < n + p)
              /\ (n * s < (r + 1) * s <=> n <= r)
  <2>1. n * s + p * s = (n + p) * s
    BY <1>5, Distribute
  <2>2. r \in Int /\ r + 1 \in Int /\ n + p \in Int
    BY <1>2
  <2>3. r * s < (n + p) * s <=> r < n + p
    BY <1>5, <2>2, Scale
  <2>4. n * s < (r + 1) * s <=> n < r + 1
    BY <1>5, <2>2, Scale
  <2>5. QED
    BY <2>1, <2>2, <2>3, <2>4
<1>12. RegionsOf(part.flash, BankSize(part.flash), part.boot)
           = {r \in 0 .. LockRegions - 1 : r < h + p /\ h <= r}
  BY <1>5, <1>6, <1>7, <1>11 DEF RegionsOf
<1>13. RegionsOf(part.flash, 0, part.boot) = {r \in 0 .. LockRegions - 1 : r < p}
  <2>1. ASSUME NEW r \in 0 .. LockRegions - 1
        PROVE  (r * s < 0 + p * s /\ 0 < (r + 1) * s) <=> r < p
    <3>1. 0 * s = 0
      BY <1>5
    <3>2. (r * s < 0 * s + p * s <=> r < 0 + p) /\ (0 * s < (r + 1) * s <=> 0 <= r)
      BY <1>11
    <3>3. QED
      BY <1>2, <3>1, <3>2
  <2>2. QED
    BY <1>5, <1>7, <2>1 DEF RegionsOf
<1>14. Protected(BootprotValue(part.boot)) = part.boot
  <2>1. PICK g \in Nat : part.boot = g * Granule
    BY <1>1, <1>2, Divides
  <2>2. part.boot \div Granule = g
    BY <1>2, <2>1, Quotient
  <2>3. 15 - (15 - g) = g
    OBVIOUS
  <2>4. QED
    BY <2>1, <2>2, <2>3 DEF Protected, BootprotValue
<1>15. QED
  BY <1>10, <1>12, <1>13, <1>14 DEF LocksCoverBoot

\* The mask of lock_boot_regions is BOOT's regions in both banks and no other,
\* and the fuse protects BOOT exactly, on every geometry that builds.
THEOREM LocksAreBoots == Spec => []LocksCoverBoot
<1>1. SlotInv => LocksCoverBoot
  BY Locks DEF SlotInv
<1>2. QED
  BY <1>1, Invariant, PTL

-----------------------------------------------------------------------------
(* What check_slot accepts.  The bank, in words from the base of the slot:   *)
(* what of it a download has brought so far, and where the first erase       *)
(* block, which holds both CRCs, came from.                                  *)

BlockWords == PagesPerBlock * PageWords

RegionWords == Words(End) - Words(Begin)

\* A word of a source as its pages carry it.
Carried(s, i) == IF i \in DOMAIN Chunked(s) THEN Chunked(s)[i] ELSE Erased

Sourced == stream \in Streams \cup {NoStream}

Undecided == pc \in {"write", "manifest", "crc"} => result = "none"

\* Every download erases the first block first, whatever becomes of it then.
FirstBlock ==
    pc # "parked" => \E s \in Streams \cup {NoStream} :
                        \A i \in 0 .. BlockWords - 1 : At(i) \in {Erased, Carried(s, i)}

Written(k) == \A i \in 0 .. k * PageWords - 1 : At(i) = Carried(stream, i)

\* The rest of the block of the page before is erased.
Ahead(k) == \E j \in 0 .. k :
    /\ j * PagesPerBlock < k /\ k <= (j + 1) * PagesPerBlock
    /\ \A i \in k * PageWords .. (j + 1) * BlockWords - 1 : At(i) = Erased

Writing ==
    pc = "write" => /\ page * PageSize <= AppRegionLen(part)
                    /\ Written(page) /\ (page > 0 => Ahead(page))

Landed ==
    (pc \in {"manifest", "crc"} \/ (pc = "idle" /\ result = "ok")) /\ stream # NoStream =>
        /\ stream.bytes >= MinImageLen
        /\ \A i \in DOMAIN Chunked(stream) : At(i) = Chunked(stream)[i]

Checked == pc = "crc" => At(MagicAt) \in Formats /\ At(MagicAt).fmt >= FmtVer

AcceptInv ==
    /\ SlotInv /\ Sourced /\ Undecided /\ FirstBlock /\ Writing /\ Landed /\ Checked
    /\ AcceptedIsStamped /\ SoundIsAccepted

-----------------------------------------------------------------------------
(* Words and bytes. *)

LEMMA Ceiling ==
    ASSUME NEW d \in Nat \ {0}, NEW m \in Nat, NEW i \in Int
    PROVE  /\ i < Ceil(m, d) <=> i * d < m
           /\ Ceil(m, d) \in Nat
<1>1. i < (m + d - 1) \div d <=> i * d < m
  OBVIOUS
<1>2. (m + d - 1) \div d \in Nat
  OBVIOUS
<1>3. QED
  BY <1>1, <1>2 DEF Ceil

LEMMA Within ==
    ASSUME NEW d \in Nat \ {0}, NEW x \in Int, NEW q \in Int
    PROVE  x \div d = q <=> (q * d <= x /\ x < (q + 1) * d)
OBVIOUS

\* The region is a whole number of blocks, each a whole number of words.
LEMMA RegionInWords ==
    ASSUME SlotTypes, Boots(part)
    PROVE  /\ BlockWords \in Nat \ {0} /\ EraseBlock = BlockWords * WordSize
           /\ RegionWords \in Nat /\ AppRegionLen(part) = RegionWords * WordSize
           /\ Words(Begin) \in Nat
           /\ \E m \in Nat \ {0} : RegionWords = m * BlockWords
           /\ \E b \in Nat : Words(Begin) = b * BlockWords /\ Begin = b * EraseBlock
           /\ \A i \in 0 .. RegionWords - 1 : Words(Begin) + i \in DOMAIN bank
<1>1. PICK b, e, f \in Nat : Laid(part, b, e, f)
  BY Layout DEF SlotTypes
<1>2. BlockWords \in Nat \ {0} /\ EraseBlock = BlockWords * WordSize
  <2>1. BlockWords \in Nat /\ EraseBlock = BlockWords * WordSize
    BY Sizes, Associate DEF BlockWords
  <2>2. BlockWords # 0
    BY <2>1, Sizes
  <2>3. QED
    BY <2>1, <2>2
<1>3. Begin = b * EraseBlock /\ End = e * EraseBlock /\ BankSize(part.flash) = f * EraseBlock
  BY <1>1 DEF Laid, Begin, End
<1>4. ASSUME NEW n \in Nat
      PROVE  Words(n * EraseBlock) = n * BlockWords /\ n * EraseBlock = (n * BlockWords) * WordSize
  <2>1. n * EraseBlock = (n * BlockWords) * WordSize /\ n * BlockWords \in Int
    BY <1>2, Sizes, Associate
  <2>2. QED
    BY <2>1, Sizes, Quotient DEF Words
<1>5. Words(Begin) = b * BlockWords /\ Words(End) = e * BlockWords
      /\ Words(BankSize(part.flash)) = f * BlockWords
  BY <1>3, <1>4
<1>6. RegionWords = (e - b) * BlockWords /\ e - b \in Nat \ {0}
  <2>1. e - b \in Nat \ {0}
    BY <1>1 DEF Laid
  <2>2. RegionWords = (e - b) * BlockWords
    BY <1>2, <1>5, Distribute DEF RegionWords
  <2>3. QED
    BY <2>1, <2>2
<1>7. AppRegionLen(part) = RegionWords * WordSize
  <2>1. AppRegionLen(part) = e * EraseBlock - b * EraseBlock
    <3>1. AppRegionLen(part) \in Int /\ part.boot \in Int
      BY <1>1, Region, SlotAssumption DEF SlotTypes, Buildable, BootSizeValid, Begin
    <3>2. part.boot = b * EraseBlock /\ part.boot + AppRegionLen(part) = e * EraseBlock
      BY <1>1 DEF Laid
    <3>3. QED
      BY <3>1, <3>2, Sizes
  <2>2. e * EraseBlock - b * EraseBlock = (e - b) * EraseBlock
    BY Sizes, Distribute
  <2>3. (e - b) * EraseBlock = ((e - b) * BlockWords) * WordSize
    BY <1>4, <1>6
  <2>4. QED
    BY <1>6, <2>1, <2>2, <2>3
<1>8. ASSUME NEW i \in 0 .. RegionWords - 1
      PROVE  Words(Begin) + i \in DOMAIN bank
  <2>1. b * BlockWords \in Nat /\ e * BlockWords \in Nat /\ f * BlockWords \in Nat
    BY <1>2
  <2>2. e * BlockWords <= f * BlockWords
    BY <1>1, <1>2, Scale DEF Laid
  <2>3. RegionWords = e * BlockWords - b * BlockWords
    BY <1>5 DEF RegionWords
  <2>4. QED
    BY <1>5, <2>1, <2>2, <2>3 DEF SlotTypes
<1>9. RegionWords \in Nat /\ Words(Begin) \in Nat
  BY <1>2, <1>5, <1>6
<1>10. QED
  BY <1>2, <1>3, <1>5, <1>6, <1>7, <1>8, <1>9

\* What the writer makes of a word of the region.
LEMMA Burns ==
    ASSUME SlotTypes, Boots(part), NEW i \in 0 .. RegionWords - 1
    PROVE  /\ ~FirstOfBlock(page) => ErasedAhead(page)[Words(Begin) + i] = At(i)
           /\ \A j \in Nat : page = j * PagesPerBlock =>
                 ErasedAhead(page)[Words(Begin) + i]
                     = IF j * BlockWords <= i /\ i < (j + 1) * BlockWords THEN Erased ELSE At(i)
           /\ Programmed(page)[Words(Begin) + i]
                  = IF page * PageWords <= i /\ i < (page + 1) * PageWords
                    THEN Program(ErasedAhead(page)[Words(Begin) + i], Carried(stream, i))
                    ELSE ErasedAhead(page)[Words(Begin) + i]
<1>1. PICK b \in Nat : Words(Begin) = b * BlockWords /\ Begin = b * EraseBlock
  BY RegionInWords
<1>2. /\ BlockWords \in Nat \ {0} /\ EraseBlock = BlockWords * WordSize
      /\ Words(Begin) \in Nat /\ Words(Begin) + i \in DOMAIN bank /\ i \in Nat
  BY RegionInWords
<1>3. page \in Nat
  BY DEF SlotTypes
<1>4. ~FirstOfBlock(page) => ErasedAhead(page)[Words(Begin) + i] = At(i)
  BY DEF ErasedAhead, At
<1>5. ASSUME NEW j \in Nat, page = j * PagesPerBlock
      PROVE  ErasedAhead(page)[Words(Begin) + i]
                 = IF j * BlockWords <= i /\ i < (j + 1) * BlockWords THEN Erased ELSE At(i)
  <2>1. FirstOfBlock(page)
    BY <1>5, Sizes, Quotient DEF FirstOfBlock
  <2>2. Addr(page) \div EraseBlock = b + j
    <3>1. page * PageSize = j * EraseBlock
      BY <1>5, Sizes, Associate
    <3>2. Addr(page) = (b + j) * EraseBlock
      BY <1>1, <3>1, Sizes, Distribute DEF Addr
    <3>3. QED
      BY <3>2, Sizes, Quotient
  <2>3. InBlock(Words(Begin) + i, Addr(page)) <=> j * BlockWords <= i /\ i < (j + 1) * BlockWords
    <3> DEFINE x == (b * BlockWords + i) * WordSize
    <3>1. x \div EraseBlock = b + j <=> ((b + j) * EraseBlock <= x /\ x < (b + j + 1) * EraseBlock)
      <4>1. x \in Int /\ b + j \in Int /\ EraseBlock \in Nat \ {0}
        BY <1>2, Sizes
      <4> HIDE DEF x
      <4>2. QED
        BY <4>1, Within
    <3>2. /\ (b + j) * EraseBlock = ((b + j) * BlockWords) * WordSize
          /\ (b + j + 1) * EraseBlock = ((b + j + 1) * BlockWords) * WordSize
      BY <1>2, Sizes, Associate
    <3>3. /\ (b + j) * EraseBlock <= x <=> (b + j) * BlockWords <= b * BlockWords + i
          /\ x < (b + j + 1) * EraseBlock <=> b * BlockWords + i < (b + j + 1) * BlockWords
      BY <1>2, <3>2, Sizes, Scale
    <3>4. /\ (b + j) * BlockWords = b * BlockWords + j * BlockWords
          /\ (b + j + 1) * BlockWords = b * BlockWords + (j + 1) * BlockWords
      BY <1>2, Distribute
    <3>5. /\ (b + j) * BlockWords <= b * BlockWords + i <=> j * BlockWords <= i
          /\ b * BlockWords + i < (b + j + 1) * BlockWords <=> i < (j + 1) * BlockWords
      BY <1>2, <3>4
    <3>6. QED
      BY <1>1, <2>2, <3>1, <3>3, <3>5 DEF InBlock
  <2>4. QED
    BY <1>2, <2>1, <2>3 DEF ErasedAhead, At
<1>6. Programmed(page)[Words(Begin) + i]
          = IF page * PageWords <= i /\ i < (page + 1) * PageWords
            THEN Program(ErasedAhead(page)[Words(Begin) + i], Carried(stream, i))
            ELSE ErasedAhead(page)[Words(Begin) + i]
  <2> DEFINE d == page * PageWords
  <2>1. d \in Nat /\ (page + 1) * PageWords = d + PageWords /\ PageWords \in Nat
    BY <1>3, Sizes, Distribute
  <2>2. Words(Addr(page)) = Words(Begin) + d
    <3>1. Addr(page) = (Words(Begin) + d) * WordSize
      <4>1. Begin = Words(Begin) * WordSize
        BY Region DEF SlotTypes
      <4>2. page * PageSize = d * WordSize
        BY <1>3, Sizes, Associate
      <4>3. QED
        BY <1>2, <2>1, <4>1, <4>2, Sizes, Distribute DEF Addr
    <3>2. QED
      BY <1>2, <2>1, <3>1, Sizes, Quotient DEF Words
  <2>3. DOMAIN PageOf(stream, page) = 0 .. PageWords - 1
    BY DEF PageOf
  <2> HIDE DEF d
  <2>4. ASSUME NEW n \in 0 .. PageWords - 1
        PROVE  PageOf(stream, page)[n] = Carried(stream, d + n)
    BY DEF PageOf, Carried, d
  <2>5. (Words(Begin) + i) - Words(Addr(page)) = i - d
    BY <1>2, <2>1, <2>2
  <2>6. i - d \in DOMAIN PageOf(stream, page) <=> d <= i /\ i < d + PageWords
    BY <1>2, <2>1, <2>3
  <2>7. Programmed(page)[Words(Begin) + i]
            = IF i - d \in DOMAIN PageOf(stream, page)
              THEN Program(ErasedAhead(page)[Words(Begin) + i], PageOf(stream, page)[i - d])
              ELSE ErasedAhead(page)[Words(Begin) + i]
    BY <1>2, <2>5 DEF Programmed
  <2>8. i - d \in DOMAIN PageOf(stream, page) => PageOf(stream, page)[i - d] = Carried(stream, i)
    <3>1. SUFFICES ASSUME i - d \in 0 .. PageWords - 1
                   PROVE  PageOf(stream, page)[i - d] = Carried(stream, i)
      BY <2>3
    <3>2. d + (i - d) = i
      BY <1>2, <2>1
    <3>3. QED
      BY <2>4, <3>1, <3>2
  <2>9. QED
    BY <2>1, <2>6, <2>7, <2>8 DEF d
<1>7. QED
  BY <1>4, <1>5, <1>6

\* A page that was programmed: it and those before it are as they came, and the
\* rest of its block is erased, for the erase-ahead went over all of it.
LEMMA PageLands ==
    ASSUME SlotTypes, Boots(part), pc = "write", Writing, ~PastEnd(page)
    PROVE  /\ (page + 1) * PageSize <= AppRegionLen(part)
           /\ (page + 1) * PageWords <= RegionWords
           /\ \A i \in 0 .. (page + 1) * PageWords - 1 :
                  Programmed(page)[Words(Begin) + i] = Carried(stream, i)
           /\ \E j \in 0 .. page :
                  /\ j * PagesPerBlock < page + 1 /\ page + 1 <= (j + 1) * PagesPerBlock
                  /\ \A i \in (page + 1) * PageWords .. (j + 1) * BlockWords - 1 :
                        Programmed(page)[Words(Begin) + i] = Erased
<1>1. /\ page \in Nat /\ Written(page) /\ (page > 0 => Ahead(page))
      /\ BlockWords \in Nat \ {0} /\ RegionWords \in Nat /\ PageWords \in Nat \ {0}
      /\ PagesPerBlock \in Nat \ {0}
  BY RegionInWords, Sizes DEF Writing, SlotTypes
<1> DEFINE d == page * PageWords
<1>2. /\ d \in Nat /\ (page + 1) * PageWords = d + PageWords
  BY <1>1, Distribute
<1>3. (page + 1) * PageSize <= AppRegionLen(part) /\ (page + 1) * PageWords <= RegionWords
  <2>1. (page + 1) * PageSize = page * PageSize + PageSize
    BY <1>1, Sizes, Distribute
  <2>2. Addr(page) + PageSize <= End
    <3>1. Addr(page) + PageSize \in Int /\ End \in Int
      BY <1>1, Region, Sizes DEF SlotTypes, Addr
    <3>2. QED
      BY <3>1 DEF PastEnd
  <2>3. (page + 1) * PageSize <= AppRegionLen(part)
    <3>1. Begin \in Int /\ AppRegionLen(part) \in Int /\ page * PageSize \in Int /\ PageSize \in Int
      BY <1>1, Region, Sizes DEF SlotTypes
    <3>2. QED
      BY <2>1, <2>2, <3>1 DEF Addr, End
  <2>4. (page + 1) * PageSize = ((page + 1) * PageWords) * WordSize
    BY <1>1, Sizes, Associate
  <2>5. ((page + 1) * PageWords) * WordSize <= RegionWords * WordSize
    BY <2>3, <2>4, RegionInWords
  <2>6. QED
    BY <1>1, <2>3, <2>5, Sizes, Scale
<1>4. PICK j \in 0 .. page :
          /\ j * PagesPerBlock < page + 1 /\ page + 1 <= (j + 1) * PagesPerBlock
          /\ j * BlockWords <= d /\ d + PageWords <= (j + 1) * BlockWords
          /\ \/ page = j * PagesPerBlock /\ d = j * BlockWords
             \/ /\ ~FirstOfBlock(page)
                /\ \A i \in d .. (j + 1) * BlockWords - 1 : At(i) = Erased
  <2>1. ASSUME NEW j \in Nat, j * PagesPerBlock <= page, page + 1 <= (j + 1) * PagesPerBlock
        PROVE  j * BlockWords <= d /\ d + PageWords <= (j + 1) * BlockWords
    <3>1. /\ j * BlockWords = (j * PagesPerBlock) * PageWords
          /\ (j + 1) * BlockWords = ((j + 1) * PagesPerBlock) * PageWords
      BY <1>1, Associate DEF BlockWords
    <3>2. /\ (j * PagesPerBlock) * PageWords <= page * PageWords
          /\ (page + 1) * PageWords <= ((j + 1) * PagesPerBlock) * PageWords
      BY <1>1, <2>1, Scale
    <3>3. QED
      BY <1>2, <3>1, <3>2
  <2>2. CASE FirstOfBlock(page)
    <3>1. PICK j \in Nat : page = j * PagesPerBlock
      BY <1>1, <2>2, Divides DEF FirstOfBlock
    <3>2. j <= page
      BY <1>1, <3>1
    <3>3. (j + 1) * PagesPerBlock = page + PagesPerBlock
      BY <1>1, <3>1, Distribute
    <3>4. /\ j * PagesPerBlock <= page /\ page + 1 <= (j + 1) * PagesPerBlock
          /\ j * PagesPerBlock < page + 1
      BY <1>1, <3>1, <3>3
    <3>5. j * BlockWords <= d /\ d + PageWords <= (j + 1) * BlockWords
      BY <2>1, <3>4
    <3>6. d = j * BlockWords
      BY <1>1, <3>1, Associate DEF BlockWords
    <3>7. QED
      BY <3>1, <3>2, <3>4, <3>5, <3>6
  <2>3. CASE ~FirstOfBlock(page)
    <3>1. page > 0
      <4>1. 0 % PagesPerBlock = 0
        BY <1>1
      <4>2. QED
        BY <1>1, <2>3, <4>1 DEF FirstOfBlock
    <3>2. PICK j \in 0 .. page :
              /\ j * PagesPerBlock < page /\ page <= (j + 1) * PagesPerBlock
              /\ \A i \in page * PageWords .. (j + 1) * BlockWords - 1 : At(i) = Erased
      BY <1>1, <3>1 DEF Ahead
    <3>3. page # (j + 1) * PagesPerBlock
      <4>1. ((j + 1) * PagesPerBlock) % PagesPerBlock = 0
        BY <1>1, Quotient
      <4>2. QED
        BY <2>3, <4>1 DEF FirstOfBlock
    <3>4. /\ j * PagesPerBlock <= page /\ page + 1 <= (j + 1) * PagesPerBlock
          /\ j * PagesPerBlock < page + 1
      BY <1>1, <3>2, <3>3
    <3>5. j * BlockWords <= d /\ d + PageWords <= (j + 1) * BlockWords
      BY <2>1, <3>4
    <3>6. QED
      BY <2>3, <3>2, <3>4, <3>5
  <2>4. QED
    BY <2>2, <2>3
<1>5. (j + 1) * BlockWords <= RegionWords
  <2>1. PICK m \in Nat \ {0} : RegionWords = m * BlockWords
    BY RegionInWords
  <2>2. j * BlockWords < m * BlockWords
    <3>1. j * BlockWords \in Int /\ m * BlockWords \in Int
      BY <1>1
    <3>2. QED
      BY <1>1, <1>2, <1>3, <1>4, <2>1, <3>1
  <2>3. j + 1 <= m
    BY <1>1, <2>2, Scale
  <2>4. QED
    BY <1>1, <2>1, <2>3, Scale
<1> DEFINE first == j * BlockWords
           next  == (j + 1) * BlockWords
           old(i) == ErasedAhead(page)[Words(Begin) + i]
<1>6. first \in Int /\ next \in Int
  BY <1>1
<1>7. ASSUME NEW i \in 0 .. RegionWords - 1
      PROVE  /\ ~FirstOfBlock(page) => old(i) = At(i)
             /\ page = j * PagesPerBlock => old(i) = IF first <= i /\ i < next THEN Erased ELSE At(i)
             /\ Programmed(page)[Words(Begin) + i]
                    = IF d <= i /\ i < d + PageWords THEN Program(old(i), Carried(stream, i)) ELSE old(i)
  <2>1. j \in Nat
    BY <1>1
  <2>2. QED
    BY <1>2, <2>1, Burns
<1>8. /\ first <= d /\ d + PageWords <= next /\ next <= RegionWords
      /\ \/ page = j * PagesPerBlock /\ d = first
         \/ ~FirstOfBlock(page) /\ \A i \in d .. next - 1 : At(i) = Erased
  BY <1>4, <1>5
<1> HIDE DEF d, first, next, old
<1>9. ASSUME NEW i \in 0 .. (d + PageWords) - 1
      PROVE  Programmed(page)[Words(Begin) + i] = Carried(stream, i)
  <2>1. i \in 0 .. RegionWords - 1
    BY <1>1, <1>2, <1>3
  <2>2. CASE i < d
    <3>1. At(i) = Carried(stream, i)
      BY <1>1, <1>2, <2>2 DEF Written, d
    <3>2. old(i) = At(i)
      BY <1>2, <1>6, <1>7, <1>8, <2>1, <2>2
    <3>3. Programmed(page)[Words(Begin) + i] = old(i)
      BY <1>2, <1>7, <2>1, <2>2
    <3>4. QED
      BY <3>1, <3>2, <3>3
  <2>3. CASE d <= i
    <3>1. i \in d .. next - 1 /\ first <= i /\ i < next
      BY <1>1, <1>2, <1>6, <1>8, <2>3
    <3>2. old(i) = Erased
      BY <1>7, <1>8, <2>1, <3>1
    <3>3. Programmed(page)[Words(Begin) + i] = Program(old(i), Carried(stream, i))
      BY <1>1, <1>2, <1>7, <2>1, <2>3
    <3>4. QED
      BY <3>2, <3>3 DEF Program
  <2>4. QED
    BY <1>2, <2>2, <2>3
<1>10. ASSUME NEW i \in (d + PageWords) .. next - 1
       PROVE  Programmed(page)[Words(Begin) + i] = Erased
  <2>1. /\ i \in 0 .. RegionWords - 1 /\ i \in d .. next - 1
        /\ first <= i /\ i < next /\ ~(i < d + PageWords)
    BY <1>1, <1>2, <1>6, <1>8
  <2>2. old(i) = Erased
    BY <1>7, <1>8, <2>1
  <2>3. QED
    BY <1>7, <2>1, <2>2
<1>11. QED
  BY <1>2, <1>3, <1>4, <1>9, <1>10 DEF next

\* Wherever the writer stops, the first block holds words of one download at
\* most, and the rest of it is erased.
LEMMA FirstBlockLands ==
    ASSUME SlotTypes, Boots(part), pc = "write", Writing, ~PastEnd(page), FirstBlock, Sourced,
           NEW c \in {bank, ErasedAhead(page), Programmed(page)}
    PROVE  \E s \in Streams \cup {NoStream} :
              \A i \in 0 .. BlockWords - 1 : c[Words(Begin) + i] \in {Erased, Carried(s, i)}
<1>1. /\ page \in Nat /\ BlockWords \in Nat \ {0} /\ PageWords \in Nat \ {0}
      /\ PagesPerBlock \in Nat \ {0} /\ RegionWords \in Nat
  BY RegionInWords, Sizes DEF SlotTypes
<1>2. \A i \in 0 .. BlockWords - 1 : i \in 0 .. RegionWords - 1
  <2>1. PICK m \in Nat \ {0} : RegionWords = m * BlockWords
    BY RegionInWords
  <2>2. 1 * BlockWords <= m * BlockWords
    BY <1>1, Scale
  <2>3. QED
    BY <1>1, <2>1, <2>2
<1>3. PICK s \in Streams \cup {NoStream} :
          \A i \in 0 .. BlockWords - 1 : At(i) \in {Erased, Carried(s, i)}
  BY DEF FirstBlock
<1>4. CASE c = bank
  BY <1>3, <1>4 DEF At
<1>5. CASE c = ErasedAhead(page)
  <2>1. ASSUME NEW i \in 0 .. BlockWords - 1
        PROVE  c[Words(Begin) + i] \in {Erased, At(i)}
    <3>1. CASE ~FirstOfBlock(page)
      BY <1>2, <1>5, <3>1, Burns
    <3>2. CASE FirstOfBlock(page)
      <4>1. PICK j \in Nat : page = j * PagesPerBlock
        BY <1>1, <3>2, Divides DEF FirstOfBlock
      <4>2. ErasedAhead(page)[Words(Begin) + i] \in {Erased, At(i)}
        BY <1>2, <4>1, Burns
      <4>3. QED
        BY <1>5, <4>2
    <3>3. QED
      BY <3>1, <3>2
  <2>2. QED
    BY <1>3, <2>1
<1>6. CASE c = Programmed(page)
  <2>1. PICK j \in 0 .. page :
            /\ j * PagesPerBlock < page + 1
            /\ \A i \in (page + 1) * PageWords .. (j + 1) * BlockWords - 1 : c[Words(Begin) + i] = Erased
    BY <1>6, PageLands
  <2>2. \A i \in 0 .. (page + 1) * PageWords - 1 : c[Words(Begin) + i] = Carried(stream, i)
    BY <1>6, PageLands
  <2>3. \A i \in 0 .. BlockWords - 1 : i < (page + 1) * PageWords \/ i <= (j + 1) * BlockWords - 1
    <3>1. BlockWords <= (j + 1) * BlockWords
      <4>1. 1 * BlockWords <= (j + 1) * BlockWords
        BY <1>1, Scale
      <4>2. QED
        BY <1>1, <4>1
    <3>2. (j + 1) * BlockWords \in Int
      BY <1>1
    <3>3. QED
      BY <1>1, <3>1, <3>2
  <2>4. ASSUME NEW i \in 0 .. BlockWords - 1
        PROVE  c[Words(Begin) + i] \in {Erased, Carried(stream, i)}
    <3>1. (page + 1) * PageWords \in Int /\ (j + 1) * BlockWords \in Int
      BY <1>1
    <3>2. CASE i < (page + 1) * PageWords
      <4>1. i \in 0 .. (page + 1) * PageWords - 1
        BY <3>1, <3>2
      <4>2. QED
        BY <2>2, <4>1
    <3>3. CASE ~(i < (page + 1) * PageWords)
      <4>1. i \in (page + 1) * PageWords .. (j + 1) * BlockWords - 1
        BY <2>3, <3>1, <3>3
      <4>2. QED
        BY <2>1, <4>1
    <3>4. QED
      BY <3>2, <3>3
  <2>5. QED
    BY <2>4 DEF Sourced
<1>7. QED
  BY <1>4, <1>5, <1>6

\* A source that ran dry has landed, to its last word.
LEMMA StreamLands ==
    ASSUME SlotTypes, pc = "write", Writing, ~PageExists(stream, page)
    PROVE  \A i \in DOMAIN Chunked(stream) : At(i) = Chunked(stream)[i]
<1> SUFFICES ASSUME NEW i \in DOMAIN Chunked(stream) PROVE At(i) = Chunked(stream)[i]
  OBVIOUS
<1>1. page \in Nat /\ stream.bytes \in Nat /\ WordSize \in Nat \ {0} /\ PageWords \in Nat
  BY Sizes DEF SlotTypes
<1>2. i \in Nat /\ i < Ceil(stream.bytes, WordSize)
  <2>1. i \in 0 .. Ceil(stream.bytes, WordSize) - 1 /\ Ceil(stream.bytes, WordSize) \in Nat
    BY <1>1, Ceiling DEF Chunked
  <2>2. QED
    BY <2>1
<1>3. i * WordSize < stream.bytes
  BY <1>1, <1>2, Ceiling
<1>4. page * PageSize = (page * PageWords) * WordSize
  BY <1>1, Sizes, Associate
<1>5. stream.bytes <= page * PageSize
  <2>1. page * PageSize \in Int
    BY <1>1, Sizes
  <2>2. QED
    BY <1>1, <2>1 DEF PageExists
<1>6. i * WordSize < (page * PageWords) * WordSize
  <2>1. i * WordSize \in Int /\ page * PageWords \in Int /\ (page * PageWords) * WordSize \in Int
    BY <1>1, <1>2
  <2>2. QED
    BY <1>1, <1>3, <1>4, <1>5, <2>1
<1>7. i < page * PageWords
  BY <1>1, <1>2, <1>6, Scale
<1>8. i \in 0 .. page * PageWords - 1
  BY <1>1, <1>2, <1>7
<1>9. QED
  BY <1>8 DEF Writing, Written, Carried

-----------------------------------------------------------------------------
(* Images, and what stamping makes of them. *)

LEMMA Positions ==
    /\ VecWords \in Nat \ {0} /\ CrcVecAt = VecWords /\ CrcImgAt = VecWords + 1
    /\ BodyAt = VecWords + 2 /\ MagicAt = VecWords + 2 /\ LenAt = VecWords + 3
    /\ MinImageLen = (VecWords + 4) * WordSize /\ MinImageLen \in Nat
    /\ BodyAt * WordSize \in Nat
<1>1. VecWords \in Nat \ {0}
  BY SlotAssumption
<1>2. (VecWords + 4) * WordSize \in Nat /\ (VecWords + 2) * WordSize \in Nat
  BY <1>1, Sizes
<1>3. QED
  BY <1>1, <1>2 DEF CrcVecAt, CrcImgAt, BodyAt, MagicAt, LenAt, MinImageLen

LEMMA Images ==
    ASSUME NEW l \in Linked
    PROVE  /\ \E n \in Nat : DOMAIN l = 0 .. n - 1 /\ Cardinality(DOMAIN l) = n
           /\ \A i \in DOMAIN l : DOMAIN l[i] # {"crc"}
<1>1. IsFiniteSet(DOMAIN l) /\ DOMAIN l = 0 .. Cardinality(DOMAIN l) - 1
  BY ImageAssumption
<1>2. Cardinality(DOMAIN l) \in Nat
  BY <1>1, FS_CardinalityType
<1>3. QED
  BY <1>1, <1>2, ImageAssumption

\* An image of n words that stamp made, as format fmt.
Sound(im, n, fmt) ==
    /\ n \in Nat /\ n >= VecWords + 4
    /\ DOMAIN im = 0 .. n - 1 /\ LenOfImage(im) = n * WordSize
    /\ im[MagicAt] = [fmt |-> fmt] /\ im[LenAt] = [len |-> n * WordSize]
    /\ im[CrcVecAt] = Crc(im, 0, VecWords) /\ im[CrcImgAt] = Crc(im, BodyAt, n - BodyAt)

\* stamp fills the CRCs in last, over what is there by then.
LEMMA Stamped ==
    ASSUME NEW fmt, NEW im \in StampedAs(fmt)
    PROVE  \E n \in Nat : Sound(im, n, fmt)
<1>1. PICK l \in Linked : Stampable(l) /\ im = StampAs(l, fmt)
  BY DEF StampedAs
<1>2. PICK n \in Nat : DOMAIN l = 0 .. n - 1 /\ Cardinality(DOMAIN l) = n
  BY Images
<1>3. LenOfImage(l) = n * WordSize /\ n >= VecWords + 4
  <2>1. LenOfImage(l) = n * WordSize
    BY <1>2 DEF LenOfImage
  <2>2. (VecWords + 4) * WordSize <= n * WordSize
    <3>1. n * WordSize \in Nat
      BY Sizes
    <3>2. QED
      BY <1>1, <2>1, <3>1, Positions DEF Stampable
  <2>3. QED
    BY <2>1, <2>2, Positions, Sizes, Scale
<1> DEFINE body == [l EXCEPT ![MagicAt] = [fmt |-> fmt], ![LenAt] = [len |-> LenOfImage(l)]]
           vec == Crc(body, 0, VecWords)
           img == Crc(body, BodyAt, Words(LenOfImage(l)) - BodyAt)
<1>4. im = [body EXCEPT ![CrcVecAt] = vec, ![CrcImgAt] = img]
  BY <1>1 DEF StampAs
<1>5. DOMAIN body = 0 .. n - 1 /\ DOMAIN im = 0 .. n - 1
  BY <1>2, <1>4
<1>6. body[MagicAt] = [fmt |-> fmt] /\ body[LenAt] = [len |-> n * WordSize]
  BY <1>2, <1>3, Positions
<1> HIDE DEF body
<1>7. /\ \A i \in 0 .. n - 1 : i \notin {VecWords, VecWords + 1} => im[i] = body[i]
      /\ im[VecWords] = vec /\ im[VecWords + 1] = img
  <2> HIDE DEF vec, img
  <2>1. QED
    BY <1>3, <1>4, <1>5, Positions
<1>8. vec = Crc(im, 0, VecWords)
  <2>1. \A i \in 0 .. VecWords - 1 : body[0 + i] = im[0 + i]
    BY <1>3, <1>7, Positions
  <2>2. QED
    BY <2>1 DEF Crc
<1>9. img = Crc(im, BodyAt, n - BodyAt)
  <2>1. Words(LenOfImage(l)) = n
    BY <1>3, Sizes, Quotient DEF Words
  <2>2. \A i \in 0 .. (n - BodyAt) - 1 : body[BodyAt + i] = im[BodyAt + i]
    BY <1>3, <1>7, Positions
  <2>3. QED
    BY <2>1, <2>2 DEF Crc
<1> HIDE DEF vec, img
<1>10. im[MagicAt] = [fmt |-> fmt] /\ im[LenAt] = [len |-> n * WordSize]
  BY <1>3, <1>6, <1>7, Positions
<1>11. LenOfImage(im) = n * WordSize
  BY <1>2, <1>5 DEF LenOfImage
<1>12. QED
  BY <1>3, <1>5, <1>7, <1>8, <1>9, <1>10, <1>11, Positions DEF Sound

IsCrc(w) == DOMAIN w = {"crc"}

LEMMA Records ==
    ASSUME NEW x, NEW y
    PROVE  /\ IsCrc([crc |-> x]) /\ ~IsCrc([cut |-> x, kept |-> y])
           /\ ~IsCrc([fmt |-> x]) /\ ~IsCrc([len |-> x]) /\ ~IsCrc(Erased) /\ ~IsCrc(Bad)
           /\ [crc |-> x] = [crc |-> y] => x = y
           /\ Erased # [len |-> x] /\ [cut |-> x, kept |-> y] # [len |-> x]
<1>1. /\ DOMAIN [crc |-> x] = {"crc"} /\ DOMAIN [fmt |-> x] = {"fmt"} /\ DOMAIN [len |-> x] = {"len"}
      /\ DOMAIN [cut |-> x, kept |-> y] = {"cut", "kept"}
  OBVIOUS
<1>2. {"cut", "kept"} # {"crc"} /\ {"fmt"} # {"crc"} /\ {"len"} # {"crc"} /\ {"cut", "kept"} # {"len"}
  OBVIOUS
<1>3. [crc |-> x] = [crc |-> y] => x = y
  OBVIOUS
<1>4. QED
  BY <1>1, <1>2, <1>3, ImageAssumption DEF IsCrc

\* A source that brings CRCs in both their places is of an image that was
\* stamped, and brings its CRCs.
LEMMA CrcSource ==
    ASSUME NEW s \in Streams \cup {NoStream},
           IsCrc(Carried(s, CrcVecAt)), IsCrc(Carried(s, CrcImgAt))
    PROVE  \E fmt \in {FmtVer - 1, FmtVer, FmtVer + 1} : \E im \in StampedAs(fmt) :
              Carried(s, CrcVecAt) = im[CrcVecAt] /\ Carried(s, CrcImgAt) = im[CrcImgAt]
<1>1. ASSUME NEW i, IsCrc(Carried(s, i))
      PROVE  Carried(s, i) = s.words[i] /\ IsCrc(s.words[i]) /\ i \in Nat /\ i < Ceil(s.bytes, WordSize)
             /\ i * WordSize < s.bytes
  <2>1. i \in DOMAIN Chunked(s) /\ IsCrc(Chunked(s)[i])
    BY <1>1, Records DEF Carried
  <2>2. s.bytes \in Nat
    BY Sources DEF NoStream, Stream
  <2>3. i \in 0 .. Ceil(s.bytes, WordSize) - 1
    BY <2>1 DEF Chunked
  <2>4. i \in Nat /\ i < Ceil(s.bytes, WordSize)
    BY <2>2, <2>3, Sizes, Ceiling
  <2>5. Chunked(s)[i] \in {s.words[i], Erased, [cut |-> s.words[i], kept |-> s.bytes - i * WordSize]}
    BY <2>3 DEF Chunked, Cut
  <2>6. Chunked(s)[i] = s.words[i]
    BY <2>1, <2>5, Records
  <2>7. QED
    BY <2>1, <2>2, <2>4, <2>6, Sizes, Ceiling DEF Carried
<1>2. s # NoStream
  <2>1. s.bytes \in Nat /\ CrcVecAt \in Nat /\ CrcVecAt * WordSize < s.bytes
    BY <1>1, Sources DEF NoStream, Stream
  <2>2. CrcVecAt * WordSize \in Nat
    BY <2>1, Sizes
  <2>3. s.bytes # 0
    BY <2>1, <2>2
  <2>4. QED
    BY <2>3 DEF NoStream, Stream
<1>3. PICK im \in Offered : /\ s.bytes <= LenOfImage(im)
                            /\ \A i \in {CrcVecAt, CrcImgAt} : s.words[i] = im[i] \/ s.words[i] = Bad
                                  \/ i \notin DOMAIN im
  <2>1. StampedAs(FmtVer) \subseteq Offered /\ \A im \in Offered : LenOfImage(im) \in Nat
    BY Lengths DEF Offered, Sealed
  <2>2. CASE s \in {Stream(im, LenOfImage(im)) : im \in Offered}
    BY <2>1, <2>2 DEF Stream
  <2>3. CASE s \in UNION {{Stream(im, n) : n \in 0 .. LenOfImage(im) - 1} : im \in StampedAs(FmtVer)}
    <3>1. PICK im \in StampedAs(FmtVer) : s \in {Stream(im, n) : n \in 0 .. LenOfImage(im) - 1}
      BY <2>3
    <3>2. PICK n \in 0 .. LenOfImage(im) - 1 : s = Stream(im, n)
      BY <3>1
    <3>3. s.words = im /\ s.bytes = n
      BY <3>2 DEF Stream
    <3>4. im \in Offered /\ LenOfImage(im) \in Nat
      BY <2>1
    <3>5. s.bytes <= LenOfImage(im)
      BY <3>3, <3>4
    <3>6. QED
      BY <3>3, <3>4, <3>5
  <2>4. CASE s \in UNION {UNION {{Stream([im EXCEPT ![at] = w], LenOfImage(im)) : w \in Wrong(at)} :
                             at \in {0, CrcVecAt, CrcImgAt, MagicAt, LenAt}} : im \in StampedAs(FmtVer)}
    <3>1. PICK im \in StampedAs(FmtVer) :
              s \in UNION {{Stream([im EXCEPT ![at] = w], LenOfImage(im)) : w \in Wrong(at)} :
                           at \in {0, CrcVecAt, CrcImgAt, MagicAt, LenAt}}
      BY <2>4
    <3>2. PICK at \in {0, CrcVecAt, CrcImgAt, MagicAt, LenAt} :
              s \in {Stream([im EXCEPT ![at] = w], LenOfImage(im)) : w \in Wrong(at)}
      BY <3>1
    <3>3. PICK w \in Wrong(at) : s = Stream([im EXCEPT ![at] = w], LenOfImage(im))
      BY <3>2
    <3>4. s.words = [im EXCEPT ![at] = w] /\ s.bytes = LenOfImage(im)
      BY <3>3 DEF Stream
    <3>5. at \in {CrcVecAt, CrcImgAt} => w = Bad
      BY <3>3, Positions DEF Wrong
    <3>6. ASSUME NEW i \in {CrcVecAt, CrcImgAt}, i \in DOMAIN im
          PROVE  s.words[i] \in {im[i], Bad}
      BY <3>4, <3>5, <3>6
    <3>7. im \in Offered /\ LenOfImage(im) \in Nat
      BY <2>1
    <3>8. s.bytes <= LenOfImage(im)
      BY <3>4, <3>7
    <3>9. QED
      BY <3>6, <3>7, <3>8
  <2>5. QED
    BY <1>2, <2>2, <2>3, <2>4 DEF Streams
<1>4. PICK n \in Nat : DOMAIN im = 0 .. n - 1 /\ LenOfImage(im) = n * WordSize
  <2>1. CASE im \in Linked
    BY <2>1, Images DEF LenOfImage
  <2>2. CASE \E fmt : im \in StampedAs(fmt)
    BY <2>2, Stamped DEF Sound
  <2>3. QED
    BY <2>1, <2>2 DEF Offered, Sealed
<1>5. ASSUME NEW i \in {CrcVecAt, CrcImgAt}
      PROVE  Carried(s, i) = im[i] /\ IsCrc(im[i]) /\ i \in DOMAIN im
  <2>1. /\ Carried(s, i) = s.words[i] /\ IsCrc(s.words[i]) /\ i \in Nat
        /\ i * WordSize < s.bytes
    BY <1>1
  <2>2. i \in DOMAIN im
    <3>1. i * WordSize < n * WordSize
      <4>1. s.bytes \in Nat /\ i * WordSize \in Nat /\ n * WordSize \in Nat
        BY <2>1, Sizes, Sources DEF NoStream, Stream
      <4>2. QED
        BY <1>3, <1>4, <2>1, <4>1
    <3>2. i < n
      BY <2>1, <3>1, Sizes, Scale
    <3>3. QED
      BY <1>4, <2>1, <3>2
  <2>3. s.words[i] = im[i]
    BY <1>3, <2>1, <2>2, Records
  <2>4. QED
    BY <2>1, <2>2, <2>3
<1>6. im \notin Linked
  <2>1. IsCrc(im[CrcVecAt]) /\ CrcVecAt \in DOMAIN im
    BY <1>5
  <2>2. QED
    BY <2>1, Images DEF IsCrc
<1>7. QED
  BY <1>5, <1>6 DEF Offered, Sealed

-----------------------------------------------------------------------------
(* The verdict of the DSU. *)

\* Two CRCs agree when what they were taken over does.
LEMMA CrcsAgree ==
    ASSUME NEW m1, NEW a1, NEW m2, NEW a2, NEW k1 \in Nat, NEW k2 \in Nat,
           Crc(m1, a1, k1) = Crc(m2, a2, k2)
    PROVE  k1 = k2 /\ \A i \in 0 .. k1 - 1 : m1[a1 + i] = m2[a2 + i]
<1> DEFINE f1 == [i \in 0 .. k1 - 1 |-> m1[a1 + i]]
           f2 == [i \in 0 .. k2 - 1 |-> m2[a2 + i]]
<1>1. [crc |-> f1] = [crc |-> f2]
  BY DEF Crc
<1>2. f1 = f2
  <2> HIDE DEF f1, f2
  <2>1. QED
    BY <1>1, Records
<1>3. 0 .. k1 - 1 = 0 .. k2 - 1
  BY <1>2
<1>4. k1 = k2
  <2>1. ASSUME k1 < k2 PROVE FALSE
    <3>1. k1 \in 0 .. k2 - 1 /\ k1 \notin 0 .. k1 - 1
      BY <2>1
    <3>2. QED
      BY <1>3, <3>1
  <2>2. ASSUME k2 < k1 PROVE FALSE
    <3>1. k2 \in 0 .. k1 - 1 /\ k2 \notin 0 .. k2 - 1
      BY <2>2
    <3>2. QED
      BY <1>3, <3>1
  <2>3. QED
    BY <2>1, <2>2
<1>5. ASSUME NEW i \in 0 .. k1 - 1 PROVE m1[a1 + i] = m2[a2 + i]
  <2>1. f1[i] = f2[i] /\ f1[i] = m1[a1 + i] /\ f2[i] = m2[a2 + i]
    BY <1>2, <1>3
  <2>2. QED
    BY <2>1
<1>6. QED
  BY <1>4, <1>5

\* A length that was checked is a number of words that fits the region.
LEMMA LenInWords ==
    ASSUME SlotInv, pc = "crc"
    PROVE  \E l \in Nat : LenIn = l * WordSize /\ VecWords + 4 <= l /\ l <= RegionWords
<1>1. part \in Parts /\ Boots(part) /\ LenAccepted(LenIn) /\ SlotTypes
  BY DEF SlotInv, SlotTypes, LenChecked
<1>2. LenIn \in Nat
  <2>1. Wide \in Nat /\ BankSize(part.flash) < Wide /\ BankSize(part.flash) \in Nat
    BY <1>1, SlotAssumption, Region
  <2>2. CASE At(LenAt) \in [len : 0 .. Wide - 1]
    BY <2>1, <2>2 DEF LenIn
  <2>3. CASE At(LenAt) \notin [len : 0 .. Wide - 1]
    BY <2>1, <2>3 DEF LenIn
  <2>4. QED
    BY <2>2, <2>3
<1>3. PICK l \in Nat : LenIn = l * WordSize
  BY <1>1, <1>2, Sizes, Divides DEF LenAccepted
<1>4. VecWords + 4 <= l
  BY <1>1, <1>3, Sizes, Scale, Positions DEF LenAccepted
<1>5. l <= RegionWords
  BY <1>1, <1>3, RegionInWords, Sizes, Scale DEF LenAccepted
<1>6. QED
  BY <1>3, <1>4, <1>5

\* The DSU is never pointed outside the bank, so the CRCs alone decide.
LEMMA CrcDecides ==
    ASSUME SlotInv, RunCrc, NEW l \in Nat,
           LenIn = l * WordSize, VecWords + 4 <= l, l <= RegionWords
    PROVE  result' = IF /\ Crc(bank, Words(Begin), VecWords) = At(CrcVecAt)
                        /\ Crc(bank, Words(Begin) + BodyAt, l - BodyAt) = At(CrcImgAt)
                     THEN "ok" ELSE "BadCrc"
<1>1. SlotTypes /\ part \in Parts /\ Boots(part) /\ Wide \in Nat /\ BankSize(part.flash) < Wide
  BY SlotAssumption DEF SlotInv, SlotTypes, RunCrc
<1>2. PICK b \in Nat : b = Words(Begin) /\ Begin = b * WordSize
  BY <1>1, Region
<1>3. PICK v \in Nat : v = VecWords /\ BodyAt = v + 2
  BY Positions
<1>4. RegionWords \in Nat /\ Begin + RegionWords * WordSize <= BankSize(part.flash)
      /\ BankSize(part.flash) \in Nat
  BY <1>1, RegionInWords, Region DEF End
<1> DEFINE r1 == Ranges(LenIn)[1]
           r2 == Ranges(LenIn)[2]
<1>5. r1.from = b * WordSize /\ r1.len = v * WordSize /\ r1.expected = At(CrcVecAt)
  BY <1>2, <1>3 DEF Ranges
<1>6. r2.from = (b + BodyAt) * WordSize /\ r2.expected = At(CrcImgAt)
  <2>1. r2.from = b * WordSize + BodyAt * WordSize /\ r2.expected = At(CrcImgAt)
    BY <1>2 DEF Ranges
  <2>2. QED
    BY <1>3, <2>1, Sizes, Distribute
<1>7. ASSUME NEW n \in Nat, n <= RegionWords
      PROVE  n * WordSize \in Nat /\ Begin + n * WordSize <= BankSize(part.flash)
  <2>1. n * WordSize <= RegionWords * WordSize
    BY <1>4, <1>7, Sizes, Scale
  <2>2. n * WordSize \in Nat /\ RegionWords * WordSize \in Nat /\ Begin \in Nat
    BY <1>1, <1>4, Region, Sizes
  <2>3. QED
    BY <1>4, <2>1, <2>2
<1>8. r2.len = (l - BodyAt) * WordSize
  <2>1. r2.len = (l * WordSize - BodyAt * WordSize) % Wide
    BY DEF Ranges
  <2>2. l * WordSize - BodyAt * WordSize = (l - BodyAt) * WordSize
    BY <1>3, Sizes, Distribute
  <2>3. (l - BodyAt) * WordSize \in 0 .. Wide - 1
    <3>1. l - BodyAt \in Nat /\ l - BodyAt <= RegionWords
      BY <1>3, <1>4
    <3>2. (l - BodyAt) * WordSize \in Nat /\ Begin + (l - BodyAt) * WordSize <= BankSize(part.flash)
      BY <1>7, <3>1
    <3>3. Begin \in Nat
      BY <1>1, Region
    <3>4. QED
      BY <1>1, <1>4, <3>2, <3>3
  <2>4. QED
    BY <1>1, <2>1, <2>2, <2>3
<1> HIDE DEF r1, r2
<1>9. InBank(r1) /\ InBank(r2)
  <2>1. InBank(r1)
    <3>1. Begin + v * WordSize <= BankSize(part.flash)
      BY <1>3, <1>4, <1>7
    <3>2. QED
      BY <1>2, <1>5, <3>1 DEF InBank
  <2>2. InBank(r2)
    <3>1. Begin + l * WordSize <= BankSize(part.flash)
      BY <1>7
    <3>2. (b + BodyAt) * WordSize + (l - BodyAt) * WordSize = b * WordSize + l * WordSize
      <4>1. (b + BodyAt) * WordSize + (l - BodyAt) * WordSize = (b + l) * WordSize
        <5>1. (b + BodyAt) + (l - BodyAt) = b + l
          BY <1>3
        <5>2. QED
          BY <1>3, <5>1, Sizes, Distribute
      <4>2. QED
        BY <4>1, Sizes, Distribute
    <3>3. QED
      BY <1>2, <1>6, <1>8, <3>1, <3>2 DEF InBank
  <2>3. QED
    BY <2>1, <2>2
<1>10. /\ Words(r1.from) = b /\ Words(r1.len) = v
       /\ Words(r2.from) = b + BodyAt /\ Words(r2.len) = l - BodyAt
  BY <1>3, <1>5, <1>6, <1>8, Sizes, Quotient DEF Words
<1>11. /\ Agrees(r1) <=> Crc(bank, Words(Begin), VecWords) = At(CrcVecAt)
       /\ Agrees(r2) <=> Crc(bank, Words(Begin) + BodyAt, l - BodyAt) = At(CrcImgAt)
  BY <1>2, <1>3, <1>5, <1>6, <1>10 DEF Agrees
<1>12. result' = IF Agrees(r1) /\ Agrees(r2) THEN "ok" ELSE "BadCrc"
  BY <1>9 DEF RunCrc, Fail, r1, r2
<1>13. QED
  BY <1>11, <1>12

\* What passes is a sealed image: the first block has both its CRCs from one
\* source, and they say what the vectors and the body are.
LEMMA CrcAccepts ==
    ASSUME SlotInv, FirstBlock, Checked, Landed, Sourced, RunCrc, result' = "ok"
    PROVE  \E im \in Sealed :
              Holds(im) /\ Fits(im) /\ (stream # NoStream => Brought(im))
<1>1. SlotTypes /\ Boots(part) /\ pc = "crc"
  BY DEF SlotInv, SlotTypes, RunCrc
<1>2. PICK l \in Nat : LenIn = l * WordSize /\ VecWords + 4 <= l /\ l <= RegionWords
  BY <1>1, LenInWords
<1>3. /\ At(CrcVecAt) = Crc(bank, Words(Begin), VecWords)
      /\ At(CrcImgAt) = Crc(bank, Words(Begin) + BodyAt, l - BodyAt)
  BY <1>2, CrcDecides
<1>4. PICK s \in Streams \cup {NoStream} :
          \A i \in 0 .. BlockWords - 1 : At(i) \in {Erased, Carried(s, i)}
  BY <1>1 DEF FirstBlock
<1>5. CrcVecAt \in 0 .. BlockWords - 1 /\ CrcImgAt \in 0 .. BlockWords - 1
  <2>1. BlockWords \in Nat /\ EraseBlock = BlockWords * WordSize
    BY <1>1, RegionInWords
  <2>2. BodyAt <= BlockWords
    BY <2>1, ImageAssumption, Positions, Sizes, Scale
  <2>3. QED
    BY <2>1, <2>2, Positions
<1>6. IsCrc(At(CrcVecAt)) /\ IsCrc(At(CrcImgAt))
  BY <1>3, Records DEF Crc
<1>7. At(CrcVecAt) = Carried(s, CrcVecAt) /\ At(CrcImgAt) = Carried(s, CrcImgAt)
  BY <1>4, <1>5, <1>6, Records
<1>8. PICK fmt \in {FmtVer - 1, FmtVer, FmtVer + 1} : \E im \in StampedAs(fmt) :
          At(CrcVecAt) = im[CrcVecAt] /\ At(CrcImgAt) = im[CrcImgAt]
  BY <1>6, <1>7, CrcSource
<1>9. PICK im \in StampedAs(fmt) : At(CrcVecAt) = im[CrcVecAt] /\ At(CrcImgAt) = im[CrcImgAt]
  BY <1>8
<1>10. PICK n \in Nat : Sound(im, n, fmt)
  BY Stamped
<1>11. \A i \in 0 .. VecWords - 1 : bank[Words(Begin) + i] = im[0 + i]
  <2>1. Crc(bank, Words(Begin), VecWords) = Crc(im, 0, VecWords)
    BY <1>3, <1>9, <1>10 DEF Sound
  <2>2. QED
    BY <2>1, CrcsAgree, Positions
<1>12. l = n /\ \A i \in 0 .. l - BodyAt - 1 : bank[Words(Begin) + BodyAt + i] = im[BodyAt + i]
  <2>1. Crc(bank, Words(Begin) + BodyAt, l - BodyAt) = Crc(im, BodyAt, n - BodyAt)
    BY <1>3, <1>9, <1>10 DEF Sound
  <2>2. l - BodyAt \in Nat /\ n - BodyAt \in Nat
    BY <1>2, <1>10, Positions DEF Sound
  <2>3. /\ l - BodyAt = n - BodyAt
        /\ \A i \in 0 .. l - BodyAt - 1 : bank[Words(Begin) + BodyAt + i] = im[BodyAt + i]
    BY <2>1, <2>2, CrcsAgree
  <2>4. QED
    BY <2>3, Positions
<1>13. Holds(im)
  <2> SUFFICES ASSUME NEW i \in 0 .. n - 1 PROVE At(i) = im[i]
    BY <1>10 DEF Holds, Sound
  <2>1. Words(Begin) \in Nat
    BY <1>1, RegionInWords
  <2>2. CASE i \in 0 .. VecWords - 1
    BY <1>11, <2>2 DEF At
  <2>3. CASE i = CrcVecAt \/ i = CrcImgAt
    BY <1>9, <2>3
  <2>4. CASE i >= BodyAt
    <3>1. i - BodyAt \in 0 .. l - BodyAt - 1
      BY <1>12, <2>4, Positions
    <3>2. bank[Words(Begin) + BodyAt + (i - BodyAt)] = im[BodyAt + (i - BodyAt)]
      BY <1>12, <3>1
    <3>3. Words(Begin) + BodyAt + (i - BodyAt) = Words(Begin) + i /\ BodyAt + (i - BodyAt) = i
      BY <2>1, Positions
    <3>4. QED
      BY <3>2, <3>3 DEF At
  <2>5. QED
    BY <2>2, <2>3, <2>4, Positions
<1>14. im \in Sealed
  <2>1. MagicAt \in DOMAIN im
    BY <1>10, Positions DEF Sound
  <2>2. At(MagicAt) = [fmt |-> fmt]
    BY <1>10, <1>13, <2>1 DEF Holds, Sound
  <2>3. fmt >= FmtVer
    BY <1>1, <2>2 DEF Checked
  <2>4. fmt # FmtVer - 1
    BY <2>3, SlotAssumption
  <2>5. QED
    BY <2>4 DEF Sealed
<1>15. stream # NoStream => Brought(im)
  <2> SUFFICES ASSUME stream # NoStream, NEW i \in 0 .. Words(MinImageLen) - 1
               PROVE  i \in DOMAIN Chunked(stream) /\ Chunked(stream)[i] = im[i]
    BY DEF Brought
  <2>1. stream.bytes \in Nat /\ stream.bytes >= MinImageLen
    BY <1>1 DEF Landed, SlotTypes
  <2>2. Words(MinImageLen) = VecWords + 4
    BY Positions, Sizes, Quotient DEF Words
  <2>3. i \in Nat /\ i < VecWords + 4
    BY <2>2, Positions
  <2>4. i * WordSize < stream.bytes
    <3>1. i * WordSize < (VecWords + 4) * WordSize
      BY <2>3, Positions, Sizes, Scale
    <3>2. i * WordSize \in Nat
      BY <2>3, Sizes
    <3>3. QED
      BY <2>1, <3>1, <3>2, Positions
  <2>5. i \in DOMAIN Chunked(stream)
    <3>1. i < Ceil(stream.bytes, WordSize) /\ Ceil(stream.bytes, WordSize) \in Nat
      BY <2>1, <2>3, <2>4, Sizes, Ceiling
    <3>2. QED
      BY <2>3, <3>1 DEF Chunked
  <2>6. i \in DOMAIN im
    BY <1>10, <2>3, Positions DEF Sound
  <2>7. QED
    BY <1>1, <1>13, <2>5, <2>6 DEF Landed, Holds
<1>16. Fits(im)
  <2>1. LenOfImage(im) = l * WordSize /\ AppRegionLen(part) = RegionWords * WordSize
        /\ RegionWords \in Nat
    BY <1>1, <1>10, <1>12, RegionInWords DEF Sound
  <2>2. QED
    BY <1>2, <2>1, Sizes, Scale DEF Fits
<1>17. QED
  BY <1>13, <1>14, <1>15, <1>16

-----------------------------------------------------------------------------
(* A sealed image that comes whole and fits. *)

\* A source that brings a sealed image brings all of it: the length field is no
\* word that the source stops in the middle of.
LEMMA SoundFits ==
    ASSUME SlotTypes, Boots(part), NEW im \in Sealed,
           Chunked(stream) = im, Fits(im)
    PROVE  \E n \in Nat : \E fmt \in {FmtVer, FmtVer + 1} :
              /\ Sound(im, n, fmt) /\ n <= RegionWords
              /\ stream.bytes <= n * WordSize /\ stream.bytes >= MinImageLen
<1>1. PICK fmt \in {FmtVer, FmtVer + 1} : im \in StampedAs(fmt)
  BY DEF Sealed
<1>2. PICK n \in Nat : Sound(im, n, fmt)
  BY <1>1, Stamped
<1>3. n <= RegionWords
  <2>1. n * WordSize <= RegionWords * WordSize /\ RegionWords \in Nat
    BY <1>2, RegionInWords DEF Sound, Fits
  <2>2. QED
    BY <1>2, <2>1, Sizes, Scale
<1>4. stream.bytes \in Nat /\ WordSize \in Nat \ {0} /\ n * WordSize \in Nat
  BY Sizes DEF SlotTypes
<1>5. PICK c \in Nat : c = Ceil(stream.bytes, WordSize)
  BY <1>4, Ceiling
<1>6. c = n
  <2>1. 0 .. c - 1 = 0 .. n - 1
    BY <1>2, <1>5 DEF Chunked, Sound
  <2>2. n \in Nat /\ n >= 1
    BY <1>2, Positions DEF Sound
  <2>3. n - 1 \in 0 .. c - 1 /\ n \notin 0 .. c - 1
    BY <2>1, <2>2
  <2>4. QED
    BY <2>2, <2>3
<1>7. stream.bytes <= n * WordSize
  <2>1. ~(n < Ceil(stream.bytes, WordSize))
    BY <1>5, <1>6
  <2>2. ~(n * WordSize < stream.bytes)
    BY <1>4, <2>1, Ceiling
  <2>3. QED
    BY <1>4, <2>2
<1>8. stream.bytes >= MinImageLen
  <2>1. LenAt \in 0 .. Ceil(stream.bytes, WordSize) - 1
    BY <1>2, <1>5, <1>6, Positions DEF Sound
  <2>2. Chunked(stream)[LenAt] = [len |-> n * WordSize]
    BY <1>2 DEF Sound
  <2>3. Cut(stream.words[LenAt], stream.bytes - LenAt * WordSize) # [len |-> n * WordSize]
    BY Records DEF Cut
  <2>4. (LenAt + 1) * WordSize <= stream.bytes
    BY <2>1, <2>2, <2>3 DEF Chunked
  <2>5. (LenAt + 1) * WordSize = MinImageLen
    <3>1. LenAt + 1 = VecWords + 4
      BY Positions
    <3>2. QED
      BY <3>1, Positions
  <2>6. QED
    BY <1>4, <2>4, <2>5, Positions
<1>9. QED
  BY <1>2, <1>3, <1>7, <1>8

\* None of its pages runs past the end of the region, a whole number of pages.
LEMMA SoundPages ==
    ASSUME SlotTypes, Boots(part), PageExists(stream, page), NEW n \in Nat,
           n <= RegionWords, stream.bytes <= n * WordSize
    PROVE  ~PastEnd(page)
<1>1. PICK m \in Nat : AppRegionLen(part) = m * PageSize /\ RegionWords * WordSize = m * PageSize
  <2>1. PICK q \in Nat \ {0} : RegionWords = q * BlockWords
    BY RegionInWords
  <2>2. RegionWords = (q * PagesPerBlock) * PageWords /\ q * PagesPerBlock \in Nat
    BY <2>1, Sizes, Associate DEF BlockWords
  <2>3. RegionWords * WordSize = (q * PagesPerBlock) * PageSize
    BY <2>2, Sizes, Associate
  <2>4. QED
    BY <2>2, <2>3, RegionInWords
<1>2. page \in Nat /\ stream.bytes \in Nat /\ page * PageSize \in Nat /\ n * WordSize \in Nat
      /\ m * PageSize \in Nat
  BY Sizes DEF SlotTypes
<1>3. n * WordSize <= m * PageSize
  BY <1>1, RegionInWords, Sizes, Scale
<1>4. page * PageSize < m * PageSize
  BY <1>2, <1>3 DEF PageExists
<1>5. (page + 1) * PageSize <= m * PageSize
  <2>1. page < m
    BY <1>2, <1>4, Sizes, Scale
  <2>2. page + 1 <= m
    BY <1>2, <2>1
  <2>3. QED
    BY <1>2, <2>2, Sizes, Scale
<1>6. (page + 1) * PageSize = page * PageSize + PageSize
  BY <1>2, Sizes, Distribute
<1>7. QED
  BY <1>1, <1>2, <1>5, <1>6, Region, Sizes DEF SlotTypes, PastEnd, Addr, End

\* In the slot, its manifest reads as stamp wrote it and its CRCs agree.
LEMMA SoundReads ==
    ASSUME SlotTypes, Boots(part), NEW im, NEW n \in Nat, NEW fmt \in {FmtVer, FmtVer + 1},
           Sound(im, n, fmt), n <= RegionWords, Holds(im)
    PROVE  /\ At(MagicAt) \in Formats /\ At(MagicAt).fmt = fmt
           /\ LenIn = n * WordSize /\ LenAccepted(LenIn) /\ VecWords + 4 <= n
           /\ Crc(bank, Words(Begin), VecWords) = At(CrcVecAt)
           /\ Crc(bank, Words(Begin) + BodyAt, n - BodyAt) = At(CrcImgAt)
<1>1. \A i \in 0 .. n - 1 : At(i) = im[i]
  BY DEF Sound, Holds
<1>2. VecWords + 4 <= n /\ Words(Begin) \in Nat
  BY RegionInWords, Positions DEF Sound
<1>3. /\ At(MagicAt) = [fmt |-> fmt] /\ At(LenAt) = [len |-> n * WordSize]
      /\ At(CrcVecAt) = Crc(im, 0, VecWords) /\ At(CrcImgAt) = Crc(im, BodyAt, n - BodyAt)
  <2>1. /\ MagicAt \in 0 .. n - 1 /\ LenAt \in 0 .. n - 1
        /\ CrcVecAt \in 0 .. n - 1 /\ CrcImgAt \in 0 .. n - 1
    BY <1>2, Positions
  <2>2. QED
    BY <1>1, <2>1 DEF Sound
<1>4. At(MagicAt) \in Formats /\ At(MagicAt).fmt = fmt
  <2>1. fmt \in 0 .. FmtVer + 1
    BY SlotAssumption
  <2>2. QED
    BY <1>3, <2>1 DEF Formats
<1>5. n * WordSize \in Nat /\ n * WordSize <= AppRegionLen(part)
      /\ AppRegionLen(part) < Wide /\ AppRegionLen(part) \in Nat /\ Wide \in Nat
  <2>1. n * WordSize <= RegionWords * WordSize
    BY RegionInWords, Sizes, Scale
  <2>2. /\ BankSize(part.flash) < Wide /\ Wide \in Nat /\ End <= BankSize(part.flash)
        /\ Begin \in Nat /\ End \in Nat /\ BankSize(part.flash) \in Nat /\ AppRegionLen(part) \in Nat
    BY SlotAssumption, Region DEF SlotTypes
  <2>3. AppRegionLen(part) < Wide
    BY <2>2 DEF End
  <2>4. QED
    BY <2>1, <2>2, <2>3, RegionInWords, Sizes
<1>6. LenIn = n * WordSize
  <2>1. n * WordSize \in 0 .. Wide - 1
    BY <1>5
  <2>2. QED
    BY <1>3, <2>1 DEF LenIn
<1>7. LenAccepted(LenIn)
  <2>1. (VecWords + 4) * WordSize <= n * WordSize
    BY <1>2, Positions, Sizes, Scale
  <2>2. (n * WordSize) % WordSize = 0
    BY Sizes, Quotient
  <2>3. QED
    BY <1>5, <1>6, <2>1, <2>2, Positions DEF LenAccepted
<1>8. Crc(bank, Words(Begin), VecWords) = Crc(im, 0, VecWords)
  <2>1. \A i \in 0 .. VecWords - 1 : bank[Words(Begin) + i] = im[0 + i]
    BY <1>1, <1>2, Positions DEF At
  <2>2. QED
    BY <2>1 DEF Crc
<1>9. Crc(bank, Words(Begin) + BodyAt, n - BodyAt) = Crc(im, BodyAt, n - BodyAt)
  <2>1. ASSUME NEW i \in 0 .. (n - BodyAt) - 1
        PROVE  bank[(Words(Begin) + BodyAt) + i] = im[BodyAt + i]
    <3>1. BodyAt + i \in 0 .. n - 1 /\ (Words(Begin) + BodyAt) + i = Words(Begin) + (BodyAt + i)
      BY <1>2, Positions
    <3>2. QED
      BY <1>1, <3>1 DEF At
  <2>2. QED
    BY <2>1 DEF Crc
<1>10. QED
  BY <1>2, <1>3, <1>4, <1>6, <1>7, <1>8, <1>9

\* So whatever slot holds a sealed image that fits has one verdict.
LEMMA SealedReads ==
    ASSUME SlotTypes, Boots(part), NEW im \in Sealed,
           Fits(im), Holds(im)
    PROVE  /\ At(MagicAt) \in Formats /\ At(MagicAt).fmt \in {FmtVer, FmtVer + 1}
           /\ LenAccepted(LenIn)
           /\ \E n \in Nat : /\ n <= RegionWords /\ VecWords + 4 <= n /\ LenIn = n * WordSize
                             /\ Crc(bank, Words(Begin), VecWords) = At(CrcVecAt)
                             /\ Crc(bank, Words(Begin) + BodyAt, n - BodyAt) = At(CrcImgAt)
<1>1. PICK fmt \in {FmtVer, FmtVer + 1} : im \in StampedAs(fmt)
  BY DEF Sealed
<1>2. PICK n \in Nat : Sound(im, n, fmt)
  BY <1>1, Stamped
<1>3. n <= RegionWords
  <2>1. n * WordSize <= RegionWords * WordSize /\ RegionWords \in Nat
    BY <1>2, RegionInWords DEF Sound, Fits
  <2>2. QED
    BY <1>2, <2>1, Sizes, Scale
<1>4. QED
  BY <1>2, <1>3, SoundReads

-----------------------------------------------------------------------------
(* The steps. *)

LEMMA Steady ==
    ASSUME part' = part
    PROVE  /\ Streams' = Streams /\ RegionWords' = RegionWords
           /\ AppRegionLen(part)' = AppRegionLen(part) /\ Words(Begin)' = Words(Begin)
           /\ \A im : Fits(im)' <=> Fits(im)
<1>1. Begin' = Begin /\ End' = End /\ WrongLens' = WrongLens
  BY DEF Begin, End, WrongLens
<1>2. ASSUME NEW at PROVE Wrong(at)' = Wrong(at)
  BY <1>1 DEF Wrong
<1>3. Streams' = Streams
  <2> DEFINE Alterations(im, at) == {Stream([im EXCEPT ![at] = w], LenOfImage(im)) : w \in Wrong(at)}
             Altered(im) == UNION {Alterations(im, at) : at \in {0, CrcVecAt, CrcImgAt, MagicAt, LenAt}}
             AllAltered == UNION {Altered(im) : im \in StampedAs(FmtVer)}
  <2>1. ASSUME NEW im, NEW at PROVE Alterations(im, at)' = Alterations(im, at)
    BY <1>2
  <2>2. ASSUME NEW im PROVE Altered(im)' = Altered(im)
    <3> HIDE DEF Alterations
    <3>1. QED
      BY <2>1
  <2>3. AllAltered' = AllAltered
    <3> HIDE DEF Altered
    <3>1. QED
      BY <2>2
  <2>4. QED
    BY <2>3 DEF Streams
<1>4. QED
  BY <1>1, <1>3 DEF RegionWords, Fits

\* The words of the slot after a step, where that is what the bank becomes.
LEMMA SlotAfter ==
    ASSUME part' = part, NEW c, bank' = c
    PROVE  \A i : At(i)' = c[Words(Begin) + i]
BY Steady DEF At

\* The first block, after a step that leaves the bank or burns some of it.
LEMMA FirstBlockKept ==
    ASSUME AcceptInv, part' = part, pc' # "parked" => pc # "parked",
           \/ bank' = bank
           \/ /\ pc = "write" /\ ~PastEnd(page)
              /\ bank' \in {bank, ErasedAhead(page), Programmed(page)}
    PROVE  FirstBlock'
<1>1. SlotTypes /\ (pc # "parked" => Boots(part)) /\ FirstBlock /\ Writing /\ Sourced
  BY DEF AcceptInv, SlotInv, SlotTypes
<1>2. SUFFICES ASSUME pc' # "parked", pc # "parked"
               PROVE  \E s \in Streams \cup {NoStream} :
                         \A i \in 0 .. BlockWords - 1 : bank'[Words(Begin) + i] \in {Erased, Carried(s, i)}
  BY Steady DEF FirstBlock, At
<1>3. CASE bank' = bank
  BY <1>1, <1>2, <1>3 DEF FirstBlock, At
<1>4. CASE /\ pc = "write" /\ ~PastEnd(page)
           /\ bank' \in {bank, ErasedAhead(page), Programmed(page)}
  BY <1>1, <1>2, <1>4, FirstBlockLands
<1>5. QED
  BY <1>3, <1>4

\* A step that ends what the slot was busy with, and accepts nothing.
LEMMA Rests ==
    ASSUME pc' = "idle", result' # "ok"
    PROVE  Undecided' /\ Writing' /\ Landed' /\ Checked' /\ AcceptedIsStamped'
BY DEF Undecided, Writing, Landed, Checked, AcceptedIsStamped

LEMMA Unjudged ==
    ASSUME result' \in {"none", "Nvm", "DsuFault"}
    PROVE  AcceptedIsStamped' /\ SoundIsAccepted'
BY DEF AcceptedIsStamped, SoundIsAccepted, VerifyErrors

LEMMA AcceptBegins == Init => AcceptInv
<1> SUFFICES ASSUME Init PROVE AcceptInv
  OBVIOUS
<1>1. SlotInv
  BY Begins
<1>2. Sourced /\ Undecided /\ Writing /\ Landed /\ Checked
  BY DEF Init, Sourced, Undecided, Writing, Landed, Checked
<1>3. AcceptedIsStamped /\ SoundIsAccepted
  BY DEF Init, AcceptedIsStamped, SoundIsAccepted, VerifyErrors
<1>4. FirstBlock
  <2> SUFFICES ASSUME pc # "parked", NEW i \in 0 .. BlockWords - 1
               PROVE  At(i) = Erased
    BY DEF FirstBlock
  <2>1. SlotTypes /\ Boots(part) /\ part \in Parts
    BY <1>1 DEF SlotInv, SlotTypes
  <2>2. /\ BlockWords \in Nat \ {0} /\ RegionWords \in Nat /\ Words(Begin) \in Nat
        /\ Words(End) \in Nat
    BY <2>1, RegionInWords, Region
  <2>3. BlockWords <= RegionWords
    <3>1. PICK m \in Nat \ {0} : RegionWords = m * BlockWords
      BY <2>1, RegionInWords
    <3>2. 1 * BlockWords <= m * BlockWords
      BY <2>2, Scale
    <3>3. QED
      BY <2>2, <3>1, <3>2
  <2>4. i \in 0 .. RegionWords - 1
    BY <2>2, <2>3
  <2>5. Words(Begin) + i \in 0 .. Words(BankSize(part.flash)) - 1
    BY <2>1, <2>4, RegionInWords DEF SlotTypes
  <2>6. ~(Words(Begin) + i < Words(Begin)) /\ ~(Words(Begin) + i >= Words(End))
    BY <2>2, <2>4 DEF RegionWords
  <2>7. QED
    BY <2>5, <2>6 DEF Init, At
<1>5. QED
  BY <1>1, <1>2, <1>3, <1>4 DEF AcceptInv

LEMMA DownloadAccepts ==
    ASSUME AcceptInv, NEW s \in Streams, Download(s)
    PROVE  AcceptInv'
<1>1. part' = part /\ bank' = bank /\ pc = "idle" /\ pc' = "write" /\ result' = "none"
      /\ stream' = s /\ page' = 0
  BY DEF Download
<1>2. SlotInv'
  BY Step DEF AcceptInv, Next
<1>3. Sourced' /\ Undecided' /\ Landed' /\ Checked'
  BY <1>1, Steady DEF Sourced, Undecided, Landed, Checked
<1>4. FirstBlock'
  BY <1>1, FirstBlockKept
<1>5. Writing'
  <2>1. 0 * PageSize = 0 /\ 0 * PageWords = 0
    BY Sizes
  <2>2. AppRegionLen(part)' \in Nat
    <3>1. part \in Parts /\ Boots(part)
      BY <1>1 DEF AcceptInv, SlotInv, SlotTypes
    <3>2. QED
      BY <1>1, <3>1, Region, Steady
  <2>3. Written(page)'
    BY <1>1, <2>1 DEF Written
  <2>4. QED
    BY <1>1, <2>1, <2>2, <2>3 DEF Writing
<1>6. QED
  BY <1>1, <1>2, <1>3, <1>4, <1>5, Unjudged DEF AcceptInv

LEMMA WritePageAccepts ==
    ASSUME AcceptInv, WritePage
    PROVE  AcceptInv'
<1>1. /\ pc = "write" /\ ~PastEnd(page) /\ bank' = Programmed(page) /\ page' = page + 1
      /\ UNCHANGED <<part, pc, stream, result>>
  BY DEF WritePage
<1>2. /\ SlotTypes /\ Boots(part) /\ Sourced /\ Writing /\ page \in Nat
      /\ pc = "write" /\ result = "none"
  BY <1>1 DEF AcceptInv, SlotInv, SlotTypes, Undecided
<1>3. SlotInv'
  BY Step DEF AcceptInv, Next
<1>4. Sourced' /\ Undecided' /\ Landed' /\ Checked'
  BY <1>1, <1>2, Steady DEF Sourced, Undecided, Landed, Checked
<1>5. FirstBlock'
  BY <1>1, FirstBlockKept
<1>6. Writing'
  <2>1. \A i : At(i)' = Programmed(page)[Words(Begin) + i]
    BY <1>1, SlotAfter
  <2>2. (page * PageSize <= AppRegionLen(part))'
    BY <1>1, <1>2, PageLands, Steady
  <2>3. Written(page)'
    BY <1>1, <1>2, <2>1, PageLands DEF Written
  <2>4. Ahead(page)'
    <3>1. PICK j \in 0 .. page :
              /\ j * PagesPerBlock < page + 1 /\ page + 1 <= (j + 1) * PagesPerBlock
              /\ \A i \in (page + 1) * PageWords .. (j + 1) * BlockWords - 1 :
                    Programmed(page)[Words(Begin) + i] = Erased
      BY <1>1, <1>2, PageLands
    <3>2. j \in 0 .. page + 1
      BY <1>2
    <3>3. QED
      BY <1>1, <2>1, <3>1, <3>2 DEF Ahead
  <2>5. QED
    BY <2>2, <2>3, <2>4 DEF Writing
<1>7. QED
  BY <1>1, <1>2, <1>3, <1>4, <1>5, <1>6, Unjudged DEF AcceptInv

\* A sealed image that fits has no page that is too large.
LEMMA PageTooLargeAccepts ==
    ASSUME AcceptInv, PageTooLarge
    PROVE  AcceptInv'
<1>1. /\ pc = "write" /\ PageExists(stream, page) /\ PastEnd(page)
      /\ pc' = "idle" /\ result' = "ImageTooLarge" /\ UNCHANGED <<part, bank, stream>>
  BY DEF PageTooLarge, Fail
<1>2. SlotTypes /\ Boots(part) /\ Sourced
  BY <1>1 DEF AcceptInv, SlotInv, SlotTypes
<1>3. SlotInv'
  BY Step DEF AcceptInv, Next
<1>4. Sourced' /\ FirstBlock'
  BY <1>1, <1>2, Steady, FirstBlockKept DEF Sourced
<1>5. SoundIsAccepted'
  <2>1. ASSUME NEW im \in Sealed, Chunked(stream) = im, Fits(im)
        PROVE  FALSE
    BY <1>1, <1>2, <2>1, SoundFits, SoundPages
  <2>2. QED
    BY <1>1, <2>1, Steady DEF SoundIsAccepted
<1>6. QED
  BY <1>1, <1>3, <1>4, <1>5, Rests DEF AcceptInv

LEMMA NvmFailsAccepts ==
    ASSUME AcceptInv, NvmFails
    PROVE  AcceptInv'
<1>1. /\ pc = "write" /\ ~PastEnd(page) /\ bank' \in {bank, ErasedAhead(page), Programmed(page)}
      /\ pc' = "idle" /\ result' = "Nvm" /\ UNCHANGED <<part, stream>>
  BY DEF NvmFails, Fail
<1>2. SlotInv'
  BY Step DEF AcceptInv, Next
<1>3. Sourced' /\ FirstBlock'
  BY <1>1, Steady, FirstBlockKept DEF AcceptInv, Sourced
<1>4. QED
  BY <1>1, <1>2, <1>3, Rests, Unjudged DEF AcceptInv

\* A source that has run dry is in the slot; a sealed image did not run dry
\* before its manifest.
LEMMA WriteEndsAccepts ==
    ASSUME AcceptInv, WriteEnds
    PROVE  AcceptInv'
<1>1. /\ pc = "write" /\ ~PageExists(stream, page) /\ UNCHANGED <<part, bank, stream>>
      /\ \/ stream.bytes >= MinImageLen /\ pc' = "manifest" /\ result' = result
         \/ ~(stream.bytes >= MinImageLen) /\ pc' = "idle" /\ result' = "BadLen"
  BY DEF WriteEnds, Fail, Delivered
<1>2. SlotTypes /\ Boots(part) /\ Sourced /\ Writing /\ pc = "write" /\ result = "none"
  BY <1>1 DEF AcceptInv, SlotInv, SlotTypes, Undecided
<1>3. SlotInv'
  BY Step DEF AcceptInv, Next
<1>4. Sourced' /\ FirstBlock'
  BY <1>1, <1>2, Steady, FirstBlockKept DEF Sourced
<1>5. CASE stream.bytes >= MinImageLen /\ pc' = "manifest" /\ result' = result
  <2>1. \A i : At(i)' = At(i)
    BY <1>1, SlotAfter DEF At
  <2>2. \A i \in DOMAIN Chunked(stream) : At(i) = Chunked(stream)[i]
    BY <1>1, <1>2, StreamLands
  <2>3. Landed'
    BY <1>1, <1>5, <2>1, <2>2 DEF Landed
  <2>4. Undecided' /\ Writing' /\ Checked'
    BY <1>2, <1>5 DEF Undecided, Writing, Checked
  <2>5. QED
    BY <1>2, <1>3, <1>4, <1>5, <2>3, <2>4, Unjudged DEF AcceptInv
<1>6. CASE ~(stream.bytes >= MinImageLen) /\ pc' = "idle" /\ result' = "BadLen"
  <2>1. ASSUME NEW im \in Sealed, Chunked(stream) = im, Fits(im)
        PROVE  FALSE
    BY <1>2, <1>6, <2>1, SoundFits
  <2>2. SoundIsAccepted'
    BY <1>1, <2>1, Steady DEF SoundIsAccepted
  <2>3. QED
    BY <1>3, <1>4, <1>6, <2>2, Rests DEF AcceptInv
<1>7. QED
  BY <1>1, <1>5, <1>6

\* A sealed image that came whole is held, once it is to be verified.
LEMMA SoundInSlot ==
    ASSUME AcceptInv, pc \in {"manifest", "crc"}, stream # NoStream, NEW im \in Sealed,
           Chunked(stream) = im, Fits(im)
    PROVE  SlotTypes /\ Boots(part) /\ Holds(im)
BY DEF AcceptInv, SlotInv, SlotTypes, Landed, Holds

LEMMA ReadManifestAccepts ==
    ASSUME AcceptInv, ReadManifest
    PROVE  AcceptInv'
<1>1. /\ pc = "manifest" /\ UNCHANGED <<part, bank, stream>>
      /\ \/ /\ At(MagicAt) \in Formats /\ ~(At(MagicAt).fmt < FmtVer)
            /\ pc' = "crc" /\ result' = result
         \/ /\ At(MagicAt) \notin Formats \/ At(MagicAt).fmt < FmtVer \/ ~LenAccepted(LenIn)
            /\ pc' = "idle" /\ result' \in VerifyErrors
  BY DEF ReadManifest, Fail, VerifyErrors
<1>2. Sourced /\ Landed /\ result = "none"
  BY <1>1 DEF AcceptInv, Undecided
<1>3. SlotInv'
  BY Step DEF AcceptInv, Next
<1>4. Sourced' /\ FirstBlock'
  BY <1>1, <1>2, Steady, FirstBlockKept DEF Sourced
<1>5. CASE /\ At(MagicAt) \in Formats /\ ~(At(MagicAt).fmt < FmtVer)
           /\ pc' = "crc" /\ result' = result
  <2>1. \A i : At(i)' = At(i)
    BY <1>1, SlotAfter DEF At
  <2>2. Landed'
    BY <1>1, <1>2, <1>5, <2>1 DEF Landed
  <2>3. Checked'
    <3>1. \A w \in Formats : w.fmt \in Int
      BY DEF Formats
    <3>2. QED
      BY <1>5, <2>1, <3>1, SlotAssumption DEF Checked, Formats
  <2>4. Undecided' /\ Writing'
    BY <1>2, <1>5 DEF Undecided, Writing
  <2>5. QED
    BY <1>2, <1>3, <1>4, <1>5, <2>2, <2>3, <2>4, Unjudged DEF AcceptInv
<1>6. CASE /\ At(MagicAt) \notin Formats \/ At(MagicAt).fmt < FmtVer \/ ~LenAccepted(LenIn)
           /\ pc' = "idle" /\ result' \in VerifyErrors
  <2>1. ASSUME stream # NoStream, NEW im \in Sealed, Chunked(stream) = im,
               Fits(im)
        PROVE  FALSE
    <3>1. /\ At(MagicAt) \in Formats /\ At(MagicAt).fmt \in {FmtVer, FmtVer + 1}
          /\ LenAccepted(LenIn)
      BY <1>1, <2>1, SoundInSlot, SealedReads
    <3>2. QED
      BY <1>6, <3>1, SlotAssumption
  <2>2. SoundIsAccepted'
    BY <1>1, <2>1, Steady DEF SoundIsAccepted
  <2>3. QED
    BY <1>3, <1>4, <1>6, <2>2, Rests DEF AcceptInv, VerifyErrors
<1>7. QED
  BY <1>1, <1>5, <1>6

LEMMA RunCrcAccepts ==
    ASSUME AcceptInv, RunCrc
    PROVE  AcceptInv'
<1>1. pc = "crc" /\ pc' = "idle" /\ UNCHANGED <<part, bank, stream>>
  BY DEF RunCrc, Fail
<1>2. SlotInv /\ FirstBlock /\ Checked /\ Landed /\ Sourced
  BY DEF AcceptInv
<1>3. SlotInv'
  BY <1>2, Step DEF Next
<1>4. Sourced' /\ FirstBlock'
  BY <1>1, <1>2, Steady, FirstBlockKept DEF Sourced
<1>5. \A i : At(i)' = At(i)
  BY <1>1, SlotAfter DEF At
<1>6. Undecided' /\ Writing' /\ Landed' /\ Checked'
  BY <1>1, <1>2, <1>5 DEF Undecided, Writing, Landed, Checked
<1>7. AcceptedIsStamped'
  <2>1. SUFFICES ASSUME result' = "ok"
                 PROVE  \E im \in Sealed : Holds(im)' /\ (stream # NoStream => Brought(im))'
    BY DEF AcceptedIsStamped
  <2>2. PICK im \in Sealed : Holds(im) /\ Fits(im) /\ (stream # NoStream => Brought(im))
    BY <1>2, <2>1, CrcAccepts
  <2>3. Holds(im)'
    BY <1>5, <2>2 DEF Holds
  <2>4. (stream # NoStream => Brought(im))'
    BY <1>1, <2>2 DEF Brought
  <2>5. QED
    BY <2>3, <2>4
<1>8. SoundIsAccepted'
  <2>1. ASSUME stream # NoStream, NEW im \in Sealed, Chunked(stream) = im,
               Fits(im)
        PROVE  result' = "ok"
    <3>1. PICK n \in Nat : /\ n <= RegionWords /\ VecWords + 4 <= n /\ LenIn = n * WordSize
                           /\ Crc(bank, Words(Begin), VecWords) = At(CrcVecAt)
                           /\ Crc(bank, Words(Begin) + BodyAt, n - BodyAt) = At(CrcImgAt)
      BY <1>1, <2>1, SoundInSlot, SealedReads
    <3>2. QED
      BY <1>2, <3>1, CrcDecides
  <2>2. QED
    BY <1>1, <2>1, Steady DEF SoundIsAccepted, VerifyErrors
<1>9. QED
  BY <1>3, <1>4, <1>6, <1>7, <1>8 DEF AcceptInv

LEMMA DsuFailsAccepts ==
    ASSUME AcceptInv, DsuFails
    PROVE  AcceptInv'
<1>1. pc = "crc" /\ pc' = "idle" /\ result' = "DsuFault" /\ UNCHANGED <<part, bank, stream>>
  BY DEF DsuFails, Fail
<1>2. SlotInv'
  BY Step DEF AcceptInv, Next
<1>3. Sourced' /\ FirstBlock'
  BY <1>1, Steady, FirstBlockKept DEF AcceptInv, Sourced
<1>4. QED
  BY <1>1, <1>2, <1>3, Rests, Unjudged DEF AcceptInv

LEMMA VerifyAccepts ==
    ASSUME AcceptInv, Verify
    PROVE  AcceptInv'
<1>1. pc = "idle" /\ pc' = "manifest" /\ result' = "none" /\ stream' = NoStream
      /\ part' = part /\ bank' = bank
  BY DEF Verify
<1>2. SlotInv'
  BY Step DEF AcceptInv, Next
<1>3. Sourced' /\ Undecided' /\ Writing' /\ Landed' /\ Checked'
  BY <1>1 DEF Sourced, Undecided, Writing, Landed, Checked
<1>4. FirstBlock'
  BY <1>1, FirstBlockKept
<1>5. QED
  BY <1>1, <1>2, <1>3, <1>4, Unjudged DEF AcceptInv

LEMMA ResetPartAccepts ==
    ASSUME AcceptInv, ResetPart
    PROVE  AcceptInv'
<1>1. /\ pc \notin {"parked", "idle"} /\ pc' = "idle" /\ result' = "none" /\ stream' = NoStream
      /\ part' = part
      /\ \/ bank' = bank
         \/ /\ pc = "write" /\ ~PastEnd(page)
            /\ bank' \in {bank, ErasedAhead(page), Programmed(page)}
  BY DEF ResetPart
<1>2. SlotInv'
  BY Step DEF AcceptInv, Next
<1>3. Sourced' /\ FirstBlock'
  BY <1>1, FirstBlockKept DEF Sourced
<1>4. QED
  BY <1>1, <1>2, <1>3, Rests, Unjudged DEF AcceptInv

LEMMA StutterAccepts ==
    ASSUME AcceptInv, UNCHANGED vars
    PROVE  AcceptInv'
<1>1. UNCHANGED <<part, bank, pc, stream, page, result>>
  BY DEF vars
<1>2. SlotInv'
  BY Step DEF AcceptInv
<1>3. Sourced' /\ FirstBlock'
  BY <1>1, Steady, FirstBlockKept DEF AcceptInv, Sourced
<1>4. \A i : At(i)' = At(i)
  BY <1>1, SlotAfter DEF At
<1>5. Undecided' /\ Writing' /\ Landed' /\ Checked'
  BY <1>1, <1>4, Steady DEF AcceptInv, Undecided, Writing, Written, Ahead, Landed, Checked
<1>6. AcceptedIsStamped' /\ SoundIsAccepted'
  BY <1>1, <1>4, Steady DEF AcceptInv, AcceptedIsStamped, SoundIsAccepted, Holds, Brought
<1>7. QED
  BY <1>2, <1>3, <1>5, <1>6 DEF AcceptInv

LEMMA AcceptStep == AcceptInv /\ [Next]_vars => AcceptInv'
BY DownloadAccepts, WritePageAccepts, PageTooLargeAccepts, NvmFailsAccepts, WriteEndsAccepts,
   ReadManifestAccepts, RunCrcAccepts, DsuFailsAccepts, VerifyAccepts, ResetPartAccepts,
   StutterAccepts DEF Next

LEMMA AcceptInvariant == Spec => []AcceptInv
BY AcceptBegins, AcceptStep, PTL DEF Spec

\* What check_slot accepts is a whole image that stamp made, whatever downloads,
\* failures and resets went over the slot before; and after a download, an image
\* whose manifest came in that download.
THEOREM AcceptedAreStamped == Spec => []AcceptedIsStamped
<1>1. AcceptInv => AcceptedIsStamped
  BY DEF AcceptInv
<1>2. QED
  BY <1>1, AcceptInvariant, PTL

\* No download refuses a sealed image that fits the region and came whole, but
\* for a command of the NVM controller that fails.
THEOREM SoundAreAccepted == Spec => []SoundIsAccepted
<1>1. AcceptInv => SoundIsAccepted
  BY DEF AcceptInv
<1>2. QED
  BY <1>1, AcceptInvariant, PTL

\* The verdict is about the content of the slot alone, so a slot that was found
\* good is found good on every later boot that has not touched it, and a slot
\* that holds a whole image is never lost to what was in it before: Bootloader's
\* Whole, for every geometry and every set of images.
THEOREM VerdictsAreContent == Spec => VerdictIsContent
<1> DEFINE Whole == \E im \in Sealed : Fits(im) /\ Holds(im)
<1>1. ASSUME AcceptInv, [Next]_vars, pc \in {"manifest", "crc"}, result' \in VerifyErrors \cup {"ok"}
      PROVE  result' = "ok" <=> Whole
  <2>1. SlotTypes /\ Boots(part) /\ result = "none"
    BY <1>1 DEF AcceptInv, SlotInv, SlotTypes, Undecided
  <2>2. ReadManifest \/ RunCrc
    BY <1>1, <2>1 DEF Next, vars, VerifyErrors, Download, WritePage, PageTooLarge, NvmFails, WriteEnds,
                      DsuFails, Fail, Verify, ResetPart
  <2>3. CASE ReadManifest
    <3>1. /\ At(MagicAt) \notin Formats \/ At(MagicAt).fmt < FmtVer \/ ~LenAccepted(LenIn)
          /\ result' # "ok"
      BY <1>1, <2>1, <2>3 DEF ReadManifest, Fail, VerifyErrors
    <3>2. ~Whole
      <4>1. ASSUME NEW im \in Sealed, Fits(im), Holds(im)
            PROVE  FALSE
        <5>1. /\ At(MagicAt) \in Formats /\ At(MagicAt).fmt \in {FmtVer, FmtVer + 1}
              /\ LenAccepted(LenIn)
          BY <2>1, <4>1, SealedReads
        <5>2. QED
          BY <3>1, <5>1, SlotAssumption
      <4>2. QED
        BY <4>1
    <3>3. QED
      BY <3>1, <3>2
  <2>4. CASE RunCrc
    <3>1. ASSUME result' = "ok" PROVE Whole
      <4>1. SlotInv /\ FirstBlock /\ Checked /\ Landed /\ Sourced
        BY <1>1 DEF AcceptInv
      <4>2. QED
        BY <2>4, <3>1, <4>1, CrcAccepts
    <3>2. ASSUME NEW im \in Sealed, Fits(im), Holds(im)
          PROVE  result' = "ok"
      <4>1. PICK n \in Nat : /\ n <= RegionWords /\ VecWords + 4 <= n /\ LenIn = n * WordSize
                             /\ Crc(bank, Words(Begin), VecWords) = At(CrcVecAt)
                             /\ Crc(bank, Words(Begin) + BodyAt, n - BodyAt) = At(CrcImgAt)
        BY <2>1, <3>2, SealedReads
      <4>2. QED
        BY <1>1, <2>4, <4>1, CrcDecides DEF AcceptInv
    <3>3. QED
      BY <3>1, <3>2
  <2>5. QED
    BY <2>2, <2>3, <2>4
<1>2. AcceptInv /\ [Next]_vars =>
          [(pc \in {"manifest", "crc"} /\ result' \in VerifyErrors \cup {"ok"}) =>
              (result' = "ok" <=> \E im \in Sealed : Fits(im) /\ Holds(im))]_vars
  BY <1>1
<1>3. QED
  BY <1>2, AcceptInvariant, PTL DEF Spec, VerdictIsContent

=============================================================================
