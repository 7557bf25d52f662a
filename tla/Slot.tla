--------------------------------- MODULE Slot ---------------------------------
(***************************************************************************)
(* One application slot under Boot::download: how a byte stream becomes    *)
(* pages of flash (src/src/flash_writer.rs), what a manifest says and how  *)
(* it is stamped (src/src/manifest.rs), and what check_slot                *)
(* (src/src/boot.rs) makes of the slot afterwards.                         *)
(*                                                                         *)
(* This is the detail under Bootloader's Burn and Whole.  Flash is         *)
(* addressed in words from the base of the inactive bank: BOOT's mirror,   *)
(* the app region, the SmartEEPROM's reserve.  A word's content is         *)
(* abstract; a CRC is the words it was taken over (no two contents         *)
(* collide).  Of the manifest's fields those that check_slot reads are     *)
(* kept: the two CRCs, magic and format in one word, the image length.     *)
(***************************************************************************)
EXTENDS Geometry, FiniteSets, Sequences

CONSTANTS
    Parts,         \* the parts a build may find itself on
    WordSize,      \* bytes in a word (bound; 4 in the build)
    VecWords,      \* words below the manifest: MANIFEST_OFFSET (bound)
    FmtVer,        \* FMT_VER
    Wide,          \* 2^w of the target's usize (bound)
    Linked,        \* linked, unstamped images: functions from word offsets
    Erased, Bad,   \* the erased word; a word nothing wrote on purpose (records,
                   \* as every word is: their fields say what kind of word)
    Foreign,       \* the words of BOOT and of the SmartEEPROM
    MaxDownloads   \* bound on the downloads of a behaviour

ASSUME SlotAssumption ==
    /\ \A part \in Parts : Buildable(part)
    /\ WordSize \in Nat \ {0} /\ PageSize % WordSize = 0
    /\ VecWords \in Nat \ {0} /\ FmtVer \in Nat \ {0}
    /\ Wide \in Nat /\ \A part \in Parts : BankSize(part.flash) < Wide
    /\ MaxDownloads \in Nat

VARIABLES
    part,          \* the part BOOT runs on
    bank,          \* the inactive bank, word by word
    pc,            \* "parked", "idle", "write", "manifest" or "crc"
    stream,        \* the source of the download: its words, how many bytes come
    page,          \* index of the page that is next
    cachedis,      \* CTRLA.CACHEDIS0/1
    saved,         \* FlashWriter::saved_cachedis
    result,        \* what the last download or verification came to
    downloads      \* downloads so far

vars == <<part, bank, pc, stream, page, cachedis, saved, result, downloads>>

Words(bytes) == bytes \div WordSize
Ceil(m, n)   == (m + n - 1) \div n
PageWords    == Words(PageSize)

-----------------------------------------------------------------------------
(* The manifest. *)

CrcVecAt == VecWords
CrcImgAt == VecWords + 1
BodyAt   == VecWords + 2
MagicAt  == VecWords + 2
LenAt    == VecWords + 3
MinImageLen == (VecWords + 4) * WordSize

LenOfImage(im) == Cardinality(DOMAIN im) * WordSize

\* A linked image has its words one after the other, and no word is a CRC until
\* it is stamped; an erased word is no CRC and no length, a wrong one no CRC.
\* MANIFEST_OFFSET puts both CRCs into the first erase block: a slot whose two
\* CRCs came from different downloads could hold parts of two sealed images.
ASSUME ImageAssumption ==
    /\ \A im \in Linked : /\ IsFiniteSet(DOMAIN im)
                          /\ DOMAIN im = 0 .. Cardinality(DOMAIN im) - 1
                          /\ \A i \in DOMAIN im : DOMAIN im[i] # {"crc"}
    /\ DOMAIN Erased \notin {{"crc"}, {"len"}} /\ DOMAIN Bad # {"crc"}
    /\ BodyAt * WordSize <= EraseBlock

\* The CRC-32 of n words of mem, from one address on.
Crc(mem, from, n) == [crc |-> [i \in 0 .. n - 1 |-> mem[from + i]]]

\* Mutant of StampAs: the CRC is taken before the length is filled in.
StampCrcFirst(im, fmt) ==
    LET crcs == [im EXCEPT ![MagicAt] = [fmt |-> fmt],
                           ![CrcVecAt] = Crc(im, 0, VecWords),
                           ![CrcImgAt] = Crc(im, BodyAt, Words(LenOfImage(im)) - BodyAt)]
    IN  [crcs EXCEPT ![LenAt] = [len |-> LenOfImage(im)]]

\* manifest::stamp as a build of format fmt has it: the body first, the CRCs
\* over it last, for nothing may change underneath them.
StampAs(im, fmt) ==
    LET body == [im EXCEPT ![MagicAt] = [fmt |-> fmt], ![LenAt] = [len |-> LenOfImage(im)]]
    IN  [body EXCEPT ![CrcVecAt] = Crc(body, 0, VecWords),
                     ![CrcImgAt] = Crc(body, BodyAt, Words(LenOfImage(im)) - BodyAt)]

\* An image too short for its manifest is not stamped.
Stampable(im) == LenOfImage(im) >= MinImageLen

StampedAs(fmt) == {StampAs(im, fmt) : im \in {l \in Linked : Stampable(l)}}

\* Images stamped by this build or a later one.
Sealed == StampedAs(FmtVer) \cup StampedAs(FmtVer + 1)

-----------------------------------------------------------------------------
(* Streams, words, pages. *)

\* The linked image unstamped, stamped by an older build, sealed.
Offered == Linked \cup Sealed \cup StampedAs(FmtVer - 1)

\* Lengths a wrong word may read as: none, one that ends inside the manifest,
\* one byte and one word too long, the bank's, one near the end of a usize.
WrongLens == {0, BodyAt * WordSize, MinImageLen - WordSize, MinImageLen + 1,
              MinImageLen + WordSize, BankSize(part.flash), Wide - WordSize}

\* What the word of an image at an offset may arrive as, or be inverted into
\* (corrupt_body): a length is then some other length, a format some other.
Wrong(at) == {Bad} \cup (IF at = LenAt THEN [len : WrongLens] ELSE {})
                   \cup (IF at = MagicAt THEN [fmt : 0 .. FmtVer + 1] ELSE {})

Stream(im, bytes) == [words |-> im, bytes |-> bytes]
NoStream == Stream(<<>>, 0)

\* Every image whole; one this build stamped stopping short, at any byte, or
\* with a word wrong.
Streams ==
    {Stream(im, LenOfImage(im)) : im \in Offered}
    \cup (UNION {{Stream(im, n) : n \in 0 .. LenOfImage(im) - 1} : im \in StampedAs(FmtVer)})
    \cup (UNION {UNION {{Stream([im EXCEPT ![at] = w], LenOfImage(im)) : w \in Wrong(at)} :
                            at \in {0, CrcVecAt, CrcImgAt, MagicAt, LenAt}} : im \in StampedAs(FmtVer)})

Cut(w, kept) == IF w = Erased THEN Erased ELSE [cut |-> w, kept |-> kept]

\* flash_writer::words: a short tail is padded with 0xFF.
Chunked(s) ==
    [i \in 0 .. Ceil(s.bytes, WordSize) - 1 |->
        IF (i + 1) * WordSize <= s.bytes THEN s.words[i]
        ELSE Cut(s.words[i], s.bytes - i * WordSize)]

\* flash_writer::pages: a page exists once it holds a real word.
PageExists(s, k) == k * PageSize < s.bytes

PageOf(s, k) ==
    LET chunked == Chunked(s)
    IN  [i \in 0 .. PageWords - 1 |->
            IF k * PageWords + i \in DOMAIN chunked THEN chunked[k * PageWords + i] ELSE Erased]

-----------------------------------------------------------------------------
(* FlashWriter. *)

Begin == part.boot
End   == Begin + AppRegionLen(part)
Addr(k) == Begin + k * PageSize

\* Mutant of PastEnd: the page that begins at the end is let through.
PastEndByOne(k) == Addr(k) > End

PastEnd(k) == Addr(k) + PageSize > End

\* The first page of each block erases it ahead.
FirstOfBlock(k) == k % PagesPerBlock = 0

InBlock(a, addr) == (a * WordSize) \div EraseBlock = addr \div EraseBlock

ErasedAhead(k) ==
    IF FirstOfBlock(k) THEN [a \in DOMAIN bank |-> IF InBlock(a, Addr(k)) THEN Erased ELSE bank[a]]
    ELSE bank

\* Programming only clears bits.
Program(old, new) == IF old = Erased THEN new ELSE IF new = Erased THEN old ELSE Bad

Programmed(k) ==
    LET first  == Words(Addr(k))
        before == ErasedAhead(k)
        new    == PageOf(stream, k)
    IN  [a \in DOMAIN bank |->
            IF a - first \in DOMAIN new THEN Program(before[a], new[a - first]) ELSE before[a]]

\* FlashWriter::new holds the cache disabled while it writes.
Download(s) ==
    /\ pc = "idle" /\ downloads < MaxDownloads
    /\ downloads' = downloads + 1
    /\ stream' = s /\ page' = 0
    /\ saved' = cachedis /\ cachedis' = TRUE
    /\ pc' = "write" /\ result' = "none"
    /\ UNCHANGED <<part, bank>>

\* Drop restores the cache bits, on every way out.
WriterDrops == cachedis' = saved /\ saved' = FALSE /\ page' = 0

WritePage ==
    /\ pc = "write" /\ PageExists(stream, page) /\ ~PastEnd(page)
    /\ bank' = Programmed(page) /\ page' = page + 1
    /\ UNCHANGED <<part, pc, stream, cachedis, saved, result, downloads>>

Fail(why) == pc' = "idle" /\ result' = why

PageTooLarge ==
    /\ pc = "write" /\ PageExists(stream, page) /\ PastEnd(page)
    /\ WriterDrops /\ Fail("ImageTooLarge")
    /\ UNCHANGED <<part, bank, stream, downloads>>

\* An erase or program command fails, before or after it has done its work.
NvmFails ==
    /\ pc = "write" /\ PageExists(stream, page) /\ ~PastEnd(page)
    /\ bank' \in {bank, ErasedAhead(page), Programmed(page)}
    /\ WriterDrops /\ Fail("Nvm")
    /\ UNCHANGED <<part, stream, downloads>>

\* Mutant of Delivered: the source is not counted.
DeliveredAnything == stream.bytes >= 0

\* check_slot reads the slot and not the source: a source that ran dry before
\* the manifest is refused first.
Delivered == stream.bytes >= MinImageLen

WriteEnds ==
    /\ pc = "write" /\ ~PageExists(stream, page)
    /\ WriterDrops
    /\ IF Delivered THEN pc' = "manifest" /\ UNCHANGED result ELSE Fail("BadLen")
    /\ UNCHANGED <<part, bank, stream, downloads>>

-----------------------------------------------------------------------------
(* check_slot. *)

At(offset) == bank[Words(Begin) + offset]

Formats == [fmt : 0 .. FmtVer + 1]

\* The length field as a usize: a word that holds no length reads as a huge one.
LenIn == IF At(LenAt) \in [len : 0 .. Wide - 1] THEN At(LenAt).len ELSE Wide - 1

\* Mutant of LenAccepted: no floor under the length.
LenAcceptedAnyFloor(len) == len <= AppRegionLen(part) /\ len % WordSize = 0

\* Mutant of LenAccepted: an image that fills the region is refused.
LenAcceptedShort(len) ==
    /\ MinImageLen <= len /\ len < AppRegionLen(part)
    /\ len % WordSize = 0

LenAccepted(len) ==
    /\ MinImageLen <= len /\ len <= AppRegionLen(part)
    /\ len % WordSize = 0

\* The two ranges, split around the CRC fields: address, length, expected.
Ranges(len) ==
    <<[from |-> Begin, len |-> VecWords * WordSize, expected |-> At(CrcVecAt)],
      [from |-> Begin + BodyAt * WordSize, len |-> (len - BodyAt * WordSize) % Wide,
       expected |-> At(CrcImgAt)]>>

\* Mutant of ReadManifest: the cache is left as the writer's drop restored it.
ReadManifestCacheAsFound ==
    /\ pc = "manifest"
    /\ LET why == IF At(MagicAt) \notin Formats THEN "BadMagic"
                  ELSE IF At(MagicAt).fmt < FmtVer THEN "VersionMismatch"
                  ELSE IF ~LenAccepted(LenIn) THEN "BadLen" ELSE "none"
       IN  IF why = "none" THEN pc' = "crc" /\ UNCHANGED result ELSE Fail(why)
    /\ UNCHANGED <<part, bank, stream, page, cachedis, saved, downloads>>

\* The cheap checks, and the cache forced on: the DSU never finishes without it.
ReadManifest ==
    /\ pc = "manifest"
    /\ LET why == IF At(MagicAt) \notin Formats THEN "BadMagic"
                  ELSE IF At(MagicAt).fmt < FmtVer THEN "VersionMismatch"
                  ELSE IF ~LenAccepted(LenIn) THEN "BadLen" ELSE "none"
       IN  IF why = "none" THEN pc' = "crc" /\ cachedis' = FALSE /\ UNCHANGED result
           ELSE Fail(why) /\ UNCHANGED cachedis
    /\ UNCHANGED <<part, bank, stream, page, saved, downloads>>

InBank(r) == r.from + r.len <= BankSize(part.flash)

Agrees(r) == Crc(bank, Words(r.from), Words(r.len)) = r.expected

RunCrc ==
    /\ pc = "crc"
    /\ LET ranges == Ranges(LenIn)
           verdict(i) == IF ~InBank(ranges[i]) THEN "Dsu"
                         ELSE IF ~Agrees(ranges[i]) THEN "BadCrc" ELSE "ok"
       IN  Fail(IF verdict(1) = "ok" THEN verdict(2) ELSE verdict(1))
    /\ UNCHANGED <<part, bank, stream, page, cachedis, saved, downloads>>

\* The DSU may also end with an error of its own, over either range: that is
\* not a verdict on the slot.
DsuFails ==
    /\ pc = "crc" /\ Fail("DsuFault")
    /\ UNCHANGED <<part, bank, stream, page, cachedis, saved, downloads>>

\* Boot::verify, on a later boot that has this bank mapped active.
Verify ==
    /\ pc = "idle"
    /\ pc' = "manifest" /\ result' = "none" /\ stream' = NoStream
    /\ UNCHANGED <<part, bank, page, cachedis, saved, downloads>>

\* A reset or a power cut, which may fall in the middle of a page.
ResetPart ==
    /\ pc \notin {"parked", "idle"}
    /\ bank' \in IF pc = "write" /\ PageExists(stream, page) /\ ~PastEnd(page)
                 THEN {bank, ErasedAhead(page), Programmed(page)} ELSE {bank}
    /\ pc' = "idle" /\ cachedis' = FALSE /\ saved' = FALSE /\ page' = 0
    /\ result' = "none" /\ stream' = NoStream
    /\ UNCHANGED <<part, downloads>>

-----------------------------------------------------------------------------

\* BOOT and the SmartEEPROM around a region the bench left erased.  The code
\* before BOOT may have left the cache either way.
Init ==
    /\ part \in Parts
    /\ bank = [a \in 0 .. Words(BankSize(part.flash)) - 1 |->
                  IF a < Words(Begin) \/ a >= Words(End) THEN Foreign ELSE Erased]
    /\ pc = IF Boots(part) THEN "idle" ELSE "parked"
    /\ stream = NoStream /\ page = 0
    /\ cachedis \in BOOLEAN /\ saved = FALSE
    /\ result = "none" /\ downloads = 0

Next ==
    \/ \E s \in Streams : Download(s)
    \/ WritePage \/ PageTooLarge \/ NvmFails \/ WriteEnds
    \/ ReadManifest \/ RunCrc \/ DsuFails
    \/ Verify \/ ResetPart

Spec == Init /\ [][Next]_vars

-----------------------------------------------------------------------------

VerifyErrors == {"BadMagic", "VersionMismatch", "BadLen", "BadCrc", "Dsu"}

\* Every variable has its type, and a BOOT that runs has an app region: its
\* length is a usize, and the subtraction it comes from never wraps.
TypeOK ==
    /\ part \in Parts
    /\ DOMAIN bank = 0 .. Words(BankSize(part.flash)) - 1
    /\ pc \in {"parked", "idle", "write", "manifest", "crc"}
    /\ pc # "parked" => AppRegionLen(part) > 0
    /\ stream.bytes \in Nat /\ page \in Nat
    /\ cachedis \in BOOLEAN /\ saved \in BOOLEAN
    /\ result \in {"none", "ok", "ImageTooLarge", "Nvm", "DsuFault"} \cup VerifyErrors
    /\ downloads \in 0 .. MaxDownloads

\* The slot holds all of im, from its base on.
Holds(im) == \A i \in DOMAIN im : At(i) = im[i]

Fits(im) == LenOfImage(im) <= AppRegionLen(part)

\* The stream brought im's manifest and all before it.
Brought(im) == \A i \in 0 .. Words(MinImageLen) - 1 :
                   i \in DOMAIN Chunked(stream) /\ Chunked(stream)[i] = im[i]

\* What check_slot accepts is a whole image somebody stamped, whatever was in
\* the slot before, was cut short or arrived wrong; and what a download has
\* accepted is an image whose manifest came in that download, never the one
\* that was there before it.
AcceptedIsStamped ==
    result = "ok" => \E im \in Sealed : Holds(im) /\ (stream # NoStream => Brought(im))

\* A sealed image that fits and came whole is never refused for what it is:
\* what stamp writes, words and pages carry and check_slot recomputes agree.
SoundIsAccepted ==
    (stream # NoStream /\ result \in VerifyErrors \cup {"ImageTooLarge"}) =>
        ~\E im \in Sealed : Chunked(stream) = im /\ Fits(im)

\* check_slot speaks of what the slot holds and of nothing else: it accepts
\* exactly when a sealed image that fits lies whole in it, whether that came a
\* moment ago or is verified on a later boot, over whatever was there before,
\* was cut short or went wrong, unless the DSU itself failed.  Bootloader's
\* Whole takes this for granted.
VerdictIsContent ==
    [][(pc \in {"manifest", "crc"} /\ result' \in VerifyErrors \cup {"ok"}) =>
          (result' = "ok" <=> \E im \in Sealed : Fits(im) /\ Holds(im))]_vars

\* No download erases or programs BOOT's mirror or the SmartEEPROM's reserve:
\* the erase-ahead is not bounded by the end of the region, so this takes an
\* end that falls on a block.
InsideRegion ==
    \A a \in DOMAIN bank : (a < Words(Begin) \/ a >= Words(End)) => bank[a] = Foreign

RangeWords(r) == {w \in 0 .. Wide : r.from <= w * WordSize /\ w * WordSize < r.from + r.len}

\* Whatever length the DSU is started with, the two ranges cover each word of
\* the image but the two CRCs once, and nothing outside the slot.
CrcCoversImage ==
    pc = "crc" =>
        LET words(i) == RangeWords(Ranges(LenIn)[i])
            image    == Words(Begin) .. Words(Begin + LenIn) - 1
        IN  /\ words(1) \cap words(2) = {}
            /\ words(1) \cup words(2) = image \ {Words(Begin) + CrcVecAt, Words(Begin) + CrcImgAt}
            /\ image \subseteq Words(Begin) .. Words(End) - 1

\* The DSU never runs with the cache disabled, where it would not finish, and
\* no page is written with it enabled, where reads corrupt (both errata).
CacheRight == (pc = "crc" => ~cachedis) /\ (pc = "write" => cachedis)

\* The regions lock_boot_regions locks are those that hold BOOT, in both banks,
\* and no byte of an application; and the fuse protects BOOT exactly.
LocksCoverBoot ==
    /\ BootRegionMask(part.flash, part.boot) =
           RegionsOf(part.flash, 0, part.boot)
               \cup RegionsOf(part.flash, BankSize(part.flash), part.boot)
    /\ Protected(BootprotValue(part.boot)) = part.boot

=============================================================================
