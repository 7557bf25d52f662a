----------------------------- MODULE Bench_proofs -----------------------------
(***************************************************************************)
(* The bench tools, proved for every size of the user page and any number  *)
(* of faults: what `flash' and `provision' may report, and what of the     *)
(* fuses a run that is cut short leaves to be recovered.                   *)
(***************************************************************************)
EXTENDS Bench, TLAPS

-----------------------------------------------------------------------------
(* The invariant: what holds of the part at each step of a tool. *)

BothNew == \A b \in Banks : head[b] = "new"

\* What the tools do not name survives in one place or the other, and a file
\* that was written to its end holds a whole page.
Survives ==
    \/ file = "none" /\ Complete(user)
    \/ file = "torn" /\ faults # 0
    \/ file = "whole" /\ Complete(backup)

Latched == faults = 0 => latch = user.fuses

Idle ==
    /\ Latched /\ from = "none"
    /\ result = "flashed" => BothNew
    /\ result = "error" /\ faults = 0 => latch.lock

\* A core that is held halted keeps its firmware out of what follows.
Provisioning ==
    /\ result = "none" /\ core = "halted"
    /\ lockBoot => want.fuses.lock

\* The quad words that write_page is past.
Written ==
    /\ quad > 0 => user.fuses = want.fuses
    /\ \A q \in 1 .. quad - 1 : user.rest[q] = want.rest[q]

Flashing == Latched /\ result = "none"

\* Halted by the first write, and until the release.
Holding == Flashing /\ core = "halted"

\* The page is erased only when a file of that name exists.
ProvisionPlace ==
    \/ todo = <<"save", "erase", "quads", "compare", "reset", "reread", "latched">> /\ quad = 0
    \/ /\ file # "none"
       /\ \/ todo = <<"erase", "quads", "compare", "reset", "reread", "latched">> /\ quad = 0
          \/ /\ todo = <<"quads", "compare", "reset", "reread", "latched">> /\ quad < NQuads
             /\ faults = 0 => Written
          \/ todo = <<"compare", "reset", "reread", "latched">> /\ (faults = 0 => user = want)
          \/ todo = <<"reset", "reread", "latched">> /\ user = want
          \/ /\ todo = <<"reread", "latched">>
             /\ faults = since => user = want /\ latch = want.fuses
          \/ /\ todo = <<"latched">> /\ user = want
             /\ faults = since => latch = want.fuses

StartPlace ==
    /\ from = "none"
    /\ \/ todo = Dance
       \/ todo = Direct /\ (faults = 0 => ~latch.prot)

\* Half way round: one head written, at first the one that is not active.
HalfPlace ==
    \/ /\ todo = <<"swap", "rehalt", "inactive", "swap", "rehalt", "verify", "verify", "release">>
       /\ faults = 0 => head[Other(active)] = "new" /\ from = active
    \/ /\ \/ todo = <<"rehalt", "inactive", "swap", "rehalt", "verify", "verify", "release">>
          \/ todo = <<"inactive", "swap", "rehalt", "verify", "verify", "release">>
       /\ faults = 0 => head[active] = "new" /\ from = Other(active)
    \/ /\ todo = <<"inactive", "verify", "verify", "release">>
       /\ faults = 0 => head[active] = "new" /\ from = active

\* Both heads written; the second swap has still to undo the first.
WholePlace ==
    \/ /\ todo = <<"swap", "rehalt", "verify", "verify", "release">>
       /\ faults = 0 => BothNew /\ from = Other(active)
    \/ /\ \/ todo = <<"rehalt", "verify", "verify", "release">>
          \/ todo = <<"verify", "verify", "release">>
       /\ faults = 0 => BothNew /\ from = active
    \/ /\ todo = <<"verify", "release">> /\ head[active] = "new"
       /\ faults = 0 => BothNew /\ from = active
    \/ /\ todo = <<"release">> /\ BothNew
       /\ faults = 0 => from = active

Place ==
    \/ todo = <<>> /\ Idle
    \/ ProvisionPlace /\ Provisioning
    \/ StartPlace /\ Flashing
    \/ (HalfPlace \/ WholePlace) /\ Holding

\* TypeOK but for todo, which Place has exactly.
Types ==
    /\ user \in Page /\ latch \in Fuses /\ want \in Page
    /\ file \in {"none", "torn", "whole"} /\ backup \in Page
    /\ head \in [Banks -> {"old", "new", "torn"}]
    /\ active \in Banks /\ invalid \in Banks \cup {"none"} /\ from \in Banks \cup {"none"}
    /\ core \in {"run", "halted"} /\ booting \in BOOLEAN /\ catch \in BOOLEAN
    /\ quad \in 0 .. NQuads /\ faults \in 0 .. MaxFaults
    /\ lockBoot \in BOOLEAN /\ since \in 0 .. faults
    /\ result \in {"none", "provisioned", "unchanged", "flashed", "error"}

BenchInv == Types /\ Survives /\ Place

-----------------------------------------------------------------------------
(* The pages. *)

LEMMA Counts == NQuads \in Nat \ {0} /\ MaxFaults \in Nat
BY BenchAssumption

LEMMA Pages ==
    /\ ErasedPage \in Page /\ FactoryPage \in Page
    /\ Complete(FactoryPage) /\ ~Complete(ErasedPage)
BY DEF ErasedPage, FactoryPage, Page, Fuses, Rest, Complete

\* What is planned differs from what is there in the fuses that were asked for.
LEMMA Planned ==
    ASSUME NEW page \in Page, NEW lock \in BOOLEAN, NEW sblk \in {"keep", "some"}
    PROVE  /\ Plan(page, lock, sblk) \in Page
           /\ Complete(page) => Complete(Plan(page, lock, sblk))
           /\ Plan(page, lock, sblk).fuses.lock = lock
BY DEF Plan, Page, Fuses, Complete

\* A quad word put in a page makes a page.
LEMMA PutPage ==
    ASSUME NEW page \in Page, NEW source \in Page, NEW q \in 0 .. NQuads - 1
    PROVE  /\ Put(page, q, source) \in Page
           /\ q = 0 => /\ Put(page, q, source).fuses = source.fuses
                       /\ Put(page, q, source).rest = page.rest
           /\ q # 0 => /\ Put(page, q, source).fuses = page.fuses
                       /\ Put(page, q, source).rest = [page.rest EXCEPT ![q] = source.rest[q]]
<1>1. /\ page \in [fuses : Fuses, rest : Rest] /\ source \in [fuses : Fuses, rest : Rest]
      /\ NQuads \in Nat \ {0} /\ q \in Nat
  BY Counts DEF Page
<1>2. page.rest \in [1 .. NQuads - 1 -> {"data", "erased"}]
      /\ source.rest \in [1 .. NQuads - 1 -> {"data", "erased"}]
  BY <1>1 DEF Rest
<1>3. CASE q = 0
  <2>1. Put(page, q, source) = [page EXCEPT !.fuses = source.fuses]
    BY <1>3 DEF Put
  <2>2. Put(page, q, source) = [fuses |-> source.fuses, rest |-> page.rest]
    BY <1>1, <2>1
  <2>3. QED
    BY <1>1, <1>3, <2>2 DEF Page
<1>4. CASE q # 0
  <2>1. Put(page, q, source) = [page EXCEPT !.rest[q] = source.rest[q]]
    BY <1>4 DEF Put
  <2>2. Put(page, q, source) = [fuses |-> page.fuses,
                                rest |-> [page.rest EXCEPT ![q] = source.rest[q]]]
    BY <1>1, <2>1
  <2>3. q \in 1 .. NQuads - 1
    BY <1>1, <1>4
  <2>4. [page.rest EXCEPT ![q] = source.rest[q]] \in Rest
    BY <1>2, <2>3 DEF Rest
  <2>5. QED
    BY <1>1, <1>4, <2>2, <2>4 DEF Page
<1>5. QED
  BY <1>3, <1>4

\* The quad word put is the wanted one; the others are as they were.
LEMMA Putting ==
    ASSUME Types, quad < NQuads
    PROVE  /\ Put(user, quad, want) \in Page
           /\ Written => LET w == Put(user, quad, want) IN
                 /\ w.fuses = want.fuses
                 /\ \A q \in 1 .. quad : w.rest[q] = want.rest[q]
<1>1. /\ user \in Page /\ want \in Page
      /\ quad \in Nat /\ quad < NQuads /\ NQuads \in Nat \ {0} /\ quad \in 0 .. NQuads - 1
  BY Counts DEF Types
<1>2. user.rest \in [1 .. NQuads - 1 -> {"data", "erased"}]
  BY <1>1 DEF Page, Rest
<1> DEFINE w == Put(user, quad, want)
<1>3. /\ w \in Page
      /\ quad = 0 => w.fuses = want.fuses /\ w.rest = user.rest
      /\ quad # 0 => w.fuses = user.fuses /\ w.rest = [user.rest EXCEPT ![quad] = want.rest[quad]]
  BY <1>1, PutPage
<1> HIDE DEF w
<1>4. CASE quad = 0
  BY <1>1, <1>3, <1>4 DEF w
<1>5. CASE quad # 0
  <2>1. ASSUME Written, NEW q \in 1 .. quad
        PROVE  w.rest[q] = want.rest[q]
    BY <1>1, <1>2, <1>3, <1>5, <2>1 DEF Written
  <2>2. Written => w.fuses = want.fuses
    BY <1>1, <1>3, <1>5 DEF Written
  <2>3. QED
    BY <1>3, <2>1, <2>2 DEF w
<1>6. QED
  BY <1>4, <1>5

\* A page written to the end is the page that was wanted.
LEMMA WrittenOut ==
    ASSUME NEW p \in Page, NEW w \in Page, p.fuses = w.fuses,
           \A q \in 1 .. NQuads - 1 : p.rest[q] = w.rest[q]
    PROVE  p = w
<1>1. /\ p.rest \in [1 .. NQuads - 1 -> {"data", "erased"}]
      /\ w.rest \in [1 .. NQuads - 1 -> {"data", "erased"}]
  BY DEF Page, Rest
<1> DEFINE D == 1 .. NQuads - 1
<1> DEFINE f == p.rest
<1> DEFINE g == w.rest
<1>2. f = g
  <2>1. f \in [D -> {"data", "erased"}] /\ g \in [D -> {"data", "erased"}]
    BY <1>1
  <2>2. \A d \in D : f[d] = g[d]
    OBVIOUS
  <2> HIDE DEF D, f, g
  <2>3. QED
    BY ONLY <2>1, <2>2
<1>3. p = [fuses |-> p.fuses, rest |-> p.rest] /\ w = [fuses |-> w.fuses, rest |-> w.rest]
  BY DEF Page
<1>4. QED
  BY <1>2, <1>3

-----------------------------------------------------------------------------
(* The steps. *)

LEMMA Begins == Init => BenchInv
<1> SUFFICES ASSUME Init PROVE BenchInv
  OBVIOUS
<1>1. user \in Page /\ Complete(user)
  BY Pages, Planned DEF Init
<1>2. Types
  <2>1. latch \in Fuses
    BY <1>1 DEF Init, Page
  <2>2. /\ quad \in 0 .. NQuads /\ faults \in 0 .. MaxFaults
    BY Counts DEF Init
  <2>3. booting \in BOOLEAN /\ catch \in BOOLEAN
    BY DEF Init
  <2>4. /\ want \in Page /\ backup \in Page /\ file \in {"none", "torn", "whole"}
        /\ since \in 0 .. faults
    BY Pages DEF Init
  <2>7. lockBoot \in BOOLEAN
    BY DEF Init
  <2>5. head \in [Banks -> {"old", "new", "torn"}]
    BY DEF Init
  <2>6. /\ active \in Banks /\ invalid \in Banks \cup {"none"} /\ from \in Banks \cup {"none"}
        /\ core \in {"run", "halted"}
        /\ result \in {"none", "provisioned", "unchanged", "flashed", "error"}
    BY DEF Init, Banks
  <2>8. QED
    BY <1>1, <2>1, <2>2, <2>3, <2>4, <2>5, <2>6, <2>7 DEF Types
<1>3. Survives
  BY <1>1 DEF Init, Survives
<1>4. Place
  BY DEF Init, Place, Idle, Latched
<1>5. QED
  BY <1>2, <1>3, <1>4 DEF BenchInv

\* What Finish leaves of a run.
Ended == quad' = 0 /\ want' = ErasedPage /\ lockBoot' = FALSE /\ since' = 0 /\ from' = "none"

\* A tool that ends leaves the place of an idle bench.
LEMMA Ends ==
    ASSUME NEW outcome, Finish(outcome),
           faults' = 0 => latch' = user'.fuses,
           outcome = "flashed" => BothNew',
           outcome = "error" /\ faults' = 0 => latch'.lock
    PROVE  Place' /\ Ended
<1>1. todo' = <<>> /\ result' = outcome /\ Ended
  BY DEF Finish, Ended
<1>2. QED
  BY <1>1 DEF Place, Idle, Latched, Ended

\* What a tool that ends leaves behind has its type.
LEMMA EndTypes ==
    ASSUME BenchInv,
           NEW outcome \in {"none", "provisioned", "unchanged", "flashed", "error"}, Finish(outcome),
           user' \in Page, latch' \in Fuses, file' \in {"none", "torn", "whole"}, backup' \in Page,
           head' \in [Banks -> {"old", "new", "torn"}], active' \in Banks, invalid' = invalid,
           core' \in {"run", "halted"}, booting' \in BOOLEAN, catch' \in BOOLEAN,
           faults' \in 0 .. MaxFaults
    PROVE  Types'
<1>1. want' \in Page /\ quad' \in 0 .. NQuads /\ since' \in 0 .. faults'
  BY Pages, Counts DEF Finish
<1>2. lockBoot' \in BOOLEAN
  BY DEF Finish
<1>3. result' \in {"none", "provisioned", "unchanged", "flashed", "error"} /\ from' \in Banks \cup {"none"}
  BY DEF Finish
<1>4. invalid' \in Banks \cup {"none"}
  BY DEF BenchInv, Types
<1>5. QED
  BY <1>1, <1>2, <1>3, <1>4 DEF Types

\* The same when nothing else changes but the core and the vector catch.
LEMMA EndsOnly ==
    ASSUME BenchInv,
           NEW outcome \in {"none", "provisioned", "unchanged", "flashed", "error"}, Finish(outcome),
           UNCHANGED <<user, latch, head, active, invalid, booting, kept, faults>>,
           core' \in {"run", "halted"}, catch' \in BOOLEAN
    PROVE  Types'
<1>1. /\ user' \in Page /\ latch' \in Fuses /\ file' \in {"none", "torn", "whole"} /\ backup' \in Page
      /\ head' \in [Banks -> {"old", "new", "torn"}] /\ active' \in Banks /\ invalid' = invalid
      /\ faults' \in 0 .. MaxFaults
  BY DEF BenchInv, Types, kept
<1>2. booting' \in BOOLEAN
  BY DEF BenchInv, Types
<1>3. QED
  BY <1>1, <1>2, EndTypes

\* Where a tool is that has something left to do.
LEMMA Left ==
    ASSUME BenchInv, NEW step, Running(step)
    PROVE  \/ ProvisionPlace /\ Provisioning
           \/ StartPlace /\ Flashing
           \/ (HalfPlace \/ WholePlace) /\ Holding
BY DEF BenchInv, Place, Running

\* A step that leaves the page alone, and the backup.
LEMMA Kept ==
    ASSUME BenchInv, UNCHANGED <<user, kept>>, faults' = faults \/ Fault
    PROVE  Survives'
BY DEF BenchInv, Types, Survives, Fault, kept, Complete

\* The steps that are left of provision are in none of flash's places.
LEMMA ProvisionLeft ==
    ASSUME BenchInv, NEW step, Running(step),
           step \in {"save", "erase", "quads", "compare", "reset", "reread", "latched"}
    PROVE  ProvisionPlace /\ Provisioning
BY Left DEF Running, StartPlace, HalfPlace, WholePlace, Dance, Direct

LEMMA ProvisionStep ==
    ASSUME BenchInv, NEW page \in Page, NEW lock \in BOOLEAN, Provision(page, lock),
           lock => page.fuses.lock
    PROVE  BenchInv'
<1>0. Types /\ Survives /\ Place /\ NQuads \in Nat \ {0} /\ faults \in Nat
  BY Counts DEF BenchInv, Types
<1>1. /\ todo = <<>>
      /\ UNCHANGED <<user, latch, head, active, invalid, booting, catch, kept, faults>>
  BY DEF Provision
<1>2. Idle
  <2>1. ~ProvisionPlace /\ ~StartPlace /\ ~HalfPlace /\ ~WholePlace
    BY <1>1 DEF ProvisionPlace, StartPlace, HalfPlace, WholePlace, Dance, Direct
  <2>2. QED
    BY <1>0, <2>1 DEF Place
<1>3. Survives'
  BY <1>1, Kept
<1>4. CASE page = user
  <2>1. Finish("unchanged") /\ core' = "run"
    BY <1>4 DEF Provision
  <2>2. Place' /\ Ended
    BY <1>1, <1>2, <2>1, Ends DEF Idle, Latched
  <2>3. Types'
    BY <1>0, <1>1, <2>1, <2>2, EndsOnly DEF BenchInv, Types
  <2>4. QED
    BY <1>3, <2>2, <2>3 DEF BenchInv
<1>5. CASE page # user
  <2>1. /\ todo' = ProvisionSteps /\ core' = "halted"
        /\ want' = page /\ lockBoot' = lock /\ since' = faults
        /\ quad' = 0 /\ result' = "none" /\ from' = "none"
    BY <1>5 DEF Provision
  <2>2. Types'
    BY <1>0, <1>1, <2>1 DEF Types, kept
  <2>3. Place'
    BY <2>1 DEF Place, ProvisionPlace, Provisioning, ProvisionSteps
  <2>4. QED
    BY <1>3, <2>2, <2>3 DEF BenchInv
<1>6. QED
  BY <1>4, <1>5

LEMMA RestoreStep ==
    ASSUME BenchInv, Restore
    PROVE  BenchInv'
<1>0. Types /\ Survives /\ faults \in Nat
  BY DEF BenchInv, Types
<1>1. CASE Provision(backup, FALSE)
  BY <1>0, <1>1, ProvisionStep DEF Types
<1>2. CASE /\ file = "torn" /\ todo = <<>>
           /\ Finish("error") /\ core' = "run"
           /\ UNCHANGED <<user, latch, head, active, invalid, booting, catch, kept, faults>>
  <2>1. faults' # 0
    BY <1>0, <1>2 DEF Survives
  <2>2. Place' /\ Ended
    BY <1>2, <2>1, Ends
  <2>3. Types'
    BY <1>0, <1>2, <2>2, EndsOnly DEF BenchInv, Types
  <2>4. QED
    BY <1>2, <2>2, <2>3, Kept DEF BenchInv
<1>3. QED
  BY <1>1, <1>2 DEF Restore

LEMMA SaveStep ==
    ASSUME BenchInv, SaveBackup
    PROVE  BenchInv'
<1>0. Types /\ Survives
  BY DEF BenchInv
<1>1. /\ todo = <<"save", "erase", "quads", "compare", "reset", "reread", "latched">> /\ quad = 0
      /\ Provisioning
  BY ProvisionLeft DEF SaveBackup, Running, ProvisionPlace
<1>2. /\ todo' = <<"erase", "quads", "compare", "reset", "reread", "latched">>
      /\ UNCHANGED <<part, run, faults>>
  BY <1>1 DEF SaveBackup, Advance
<1>3. /\ file' \in {"none", "torn", "whole"} /\ backup' \in Page
      /\ file' # "none" /\ Survives'
  <2>1. CASE Saves
    <3>1. file' = "whole" /\ backup' = user /\ Complete(user)
      BY <1>0, <2>1 DEF SaveBackup, Saves, Survives
    <3>2. QED
      BY <1>0, <3>1 DEF Types, Survives, Complete
  <2>2. CASE ~Saves
    <3>1. UNCHANGED kept
      BY <2>2 DEF SaveBackup
    <3>2. file # "none"
      BY <1>0, <2>2, Pages DEF Saves, Survives
    <3>3. QED
      BY <1>0, <1>2, <3>1, <3>2 DEF Types, Survives, kept, part, Complete
  <2>3. QED
    BY <2>1, <2>2
<1>4. Types'
  BY <1>0, <1>2, <1>3 DEF Types, part, run
<1>5. ProvisionPlace' /\ Provisioning'
  BY <1>1, <1>2, <1>3 DEF ProvisionPlace, Provisioning, part, run
<1>6. QED
  BY <1>3, <1>4, <1>5 DEF BenchInv, Place

LEMMA BackupFailsStep ==
    ASSUME BenchInv, BackupFails
    PROVE  BenchInv'
<1>0. Types
  BY DEF BenchInv
<1>1. /\ Fault /\ Finish("error") /\ file' = "torn" /\ core' \in {core, "run"}
      /\ UNCHANGED <<user, latch, head, active, invalid, booting, catch, backup>>
  BY DEF BackupFails
<1>2. faults' \in 0 .. MaxFaults /\ faults' # 0
  BY <1>0, <1>1, Counts DEF Types, Fault
<1>3. Place' /\ Ended
  BY <1>1, <1>2, Ends
<1>4. Types'
  BY <1>0, <1>1, <1>2, EndTypes DEF Types
<1>5. Survives'
  BY <1>1, <1>2 DEF Survives
<1>6. QED
  BY <1>3, <1>4, <1>5 DEF BenchInv

\* With a file there, the page of the part may be rewritten.
LEMMA Rewritten ==
    ASSUME BenchInv, file # "none", UNCHANGED kept, faults' = faults \/ Fault
    PROVE  Survives'
BY DEF BenchInv, Types, Survives, Fault, kept, Complete

LEMMA EraseStep ==
    ASSUME BenchInv, Erase
    PROVE  BenchInv'
<1>0. Types
  BY DEF BenchInv
<1>1. /\ todo = <<"erase", "quads", "compare", "reset", "reread", "latched">> /\ quad = 0
      /\ file # "none" /\ Provisioning
  BY ProvisionLeft DEF Erase, Running, ProvisionPlace
<1>2. /\ todo' = <<"quads", "compare", "reset", "reread", "latched">> /\ user' = ErasedPage
      /\ UNCHANGED <<latch, head, active, invalid, core, booting, catch, kept, faults>>
      /\ UNCHANGED run
  BY <1>1 DEF Erase, Advance
<1>3. Types'
  BY <1>0, <1>2, Pages DEF Types, run, kept
<1>4. Survives' /\ Provisioning'
  BY <1>1, <1>2, Rewritten DEF Provisioning, run
<1>5. quad' < NQuads /\ Written'
  BY <1>1, <1>2, Counts DEF Written, run
<1>6. QED
  BY <1>1, <1>2, <1>3, <1>4, <1>5 DEF BenchInv, Place, ProvisionPlace, kept

LEMMA QuadStep ==
    ASSUME BenchInv, WriteQuad
    PROVE  BenchInv'
<1>0. Types /\ NQuads \in Nat \ {0} /\ quad \in Nat /\ faults \in Nat
  BY Counts DEF BenchInv, Types
<1>1. /\ todo = <<"quads", "compare", "reset", "reread", "latched">> /\ quad < NQuads
      /\ faults = 0 => Written
      /\ file # "none" /\ Provisioning
  BY ProvisionLeft DEF WriteQuad, Running, ProvisionPlace
<1>2. UNCHANGED <<latch, head, active, invalid, core, booting, catch, kept>>
  BY DEF WriteQuad
<1>3. \/ user' = Put(user, quad, want) /\ faults' = faults
      \/ user' = user /\ faults' = faults + 1 /\ faults < MaxFaults
  BY DEF WriteQuad, Fault
<1>4. /\ UNCHANGED <<want, lockBoot, since, result, from>>
      /\ \/ quad + 1 < NQuads /\ quad' = quad + 1 /\ todo' = todo
         \/ ~(quad + 1 < NQuads) /\ quad' = quad /\ todo' = <<"compare", "reset", "reread", "latched">>
  BY <1>1 DEF WriteQuad, Advance, run
<1>5. Types'
  <2>1. user' \in Page
    BY <1>0, <1>1, <1>3, Putting DEF Types
  <2>2. faults' \in 0 .. MaxFaults /\ quad' \in 0 .. NQuads /\ since' \in 0 .. faults'
    BY <1>0, <1>1, <1>3, <1>4, Counts DEF Types
  <2>3. QED
    BY <1>0, <1>2, <1>4, <2>1, <2>2 DEF Types, kept
<1>6. Survives' /\ Provisioning'
  <2>1. faults' = faults \/ Fault
    BY DEF WriteQuad
  <2>2. QED
    BY <1>1, <1>2, <1>4, <2>1, Rewritten DEF Provisioning
<1>7. faults' = 0 => /\ user'.fuses = want.fuses
                     /\ \A q \in 1 .. quad : user'.rest[q] = want.rest[q]
  BY <1>0, <1>1, <1>3, Putting
<1>8. ProvisionPlace'
  <2>0. file' # "none"
    BY <1>1, <1>2 DEF kept
  <2>1. CASE quad + 1 < NQuads
    <3>1. faults' = 0 => Written'
      BY <1>0, <1>4, <1>7, <2>1 DEF Written
    <3>2. quad' < NQuads /\ todo' = <<"quads", "compare", "reset", "reread", "latched">>
      BY <1>1, <1>4, <2>1
    <3>3. QED
      BY <2>0, <3>1, <3>2 DEF ProvisionPlace
  <2>2. CASE ~(quad + 1 < NQuads)
    <3>1. quad = NQuads - 1 /\ todo' = <<"compare", "reset", "reread", "latched">>
      BY <1>0, <1>1, <1>4, <2>2
    <3>2. faults' = 0 => user' = want'
      BY <1>4, <1>5, <1>7, <3>1, WrittenOut DEF Types
    <3>3. QED
      BY <2>0, <3>1, <3>2 DEF ProvisionPlace
  <2>3. QED
    BY <2>1, <2>2
<1>9. QED
  BY <1>5, <1>6, <1>8 DEF BenchInv, Place

LEMMA CompareStep ==
    ASSUME BenchInv, NEW step \in {"compare", "reread"}, ComparePage(step)
    PROVE  BenchInv'
<1>0. Types /\ faults \in Nat /\ since \in 0 .. faults
  BY DEF BenchInv, Types
<1>1. /\ file # "none" /\ Provisioning
      /\ \/ todo = <<"compare", "reset", "reread", "latched">> /\ (faults = 0 => user = want)
         \/ /\ todo = <<"reread", "latched">>
            /\ faults = since => user = want /\ latch = want.fuses
  BY ProvisionLeft DEF ComparePage, Running, ProvisionPlace
<1>2. UNCHANGED <<user, latch, head, active, invalid, booting, catch, kept, faults>>
  BY DEF ComparePage
<1>3. Survives'
  BY <1>2, Kept
<1>4. CASE user = want
  <2>1. /\ \/ todo = <<"compare", "reset", "reread", "latched">> /\ todo' = <<"reset", "reread", "latched">>
           \/ todo = <<"reread", "latched">> /\ todo' = <<"latched">>
        /\ UNCHANGED <<run, core>>
    <3>1. todo' = Tail(todo) /\ UNCHANGED <<run, core>>
      BY <1>4 DEF ComparePage, Advance
    <3>2. CASE todo = <<"compare", "reset", "reread", "latched">>
      <4>1. todo' = <<"reset", "reread", "latched">>
        BY <3>1, <3>2
      <4>2. QED
        BY <3>1, <3>2, <4>1
    <3>3. CASE todo = <<"reread", "latched">>
      <4>1. todo' = <<"latched">>
        BY <3>1, <3>3
      <4>2. QED
        BY <3>1, <3>3, <4>1
    <3>4. QED
      BY <1>1, <3>2, <3>3
  <2>2. Types'
    BY <1>0, <1>2, <2>1 DEF Types, run, kept
  <2>3. Provisioning'
    BY <1>1, <2>1 DEF Provisioning, run
  <2>4. user' = want' /\ file' # "none"
    BY <1>1, <1>2, <1>4, <2>1 DEF run, kept
  <2>5. ProvisionPlace'
    <3>1. CASE todo' = <<"reset", "reread", "latched">>
      BY <2>4, <3>1 DEF ProvisionPlace
    <3>2. CASE todo = <<"reread", "latched">> /\ todo' = <<"latched">>
      <4>1. faults = since => latch = want.fuses
        BY <1>1, <3>2
      <4>2. faults' = since' => latch' = want'.fuses
        BY <1>2, <2>1, <4>1 DEF run
      <4>3. QED
        BY <2>4, <3>2, <4>2 DEF ProvisionPlace
    <3>3. QED
      BY <2>1, <3>1, <3>2
  <2>6. QED
    BY <1>3, <2>2, <2>3, <2>5 DEF BenchInv, Place
<1>5. CASE user # want
  <2>1. Finish("error") /\ core' = "run"
    BY <1>5 DEF ComparePage
  <2>2. faults' # 0
    BY <1>0, <1>1, <1>2, <1>5
  <2>3. Place' /\ Ended
    BY <2>1, <2>2, Ends
  <2>4. Types'
    BY <1>0, <1>2, <2>1, <2>3, EndsOnly DEF BenchInv, Types
  <2>5. QED
    BY <1>3, <2>3, <2>4 DEF BenchInv
<1>6. QED
  BY <1>4, <1>5

LEMMA ResetStep ==
    ASSUME BenchInv, Reset
    PROVE  BenchInv'
<1>0. Types /\ faults \in Nat /\ since \in 0 .. faults
  BY DEF BenchInv, Types
<1>1. todo = <<"reset", "reread", "latched">> /\ user = want /\ file # "none" /\ Provisioning
  BY ProvisionLeft DEF Reset, Running, ProvisionPlace
<1>2. /\ todo' = <<"reread", "latched">> /\ UNCHANGED <<run, head, active, invalid, kept>>
      /\ core' = "halted" /\ catch' = FALSE
  BY <1>1 DEF Reset, Advance
<1>3. \/ /\ faults' = faults /\ user' = user /\ latch' = user.fuses /\ booting' = TRUE
      \/ /\ Fault /\ latch' = user'.fuses /\ booting' = TRUE
         /\ \E q \in 0 .. NQuads - 1 : user' = Put(user, q, ErasedPage)
      \/ Fault /\ UNCHANGED <<user, latch, booting>>
  BY DEF Reset
<1>4. faults' = faults \/ (Fault /\ faults' > faults /\ faults' \in 0 .. MaxFaults)
  BY <1>0, <1>3, Counts DEF Fault
<1>5. Types'
  <2>1. user' \in Page
    <3>1. ASSUME NEW q \in 0 .. NQuads - 1 PROVE Put(user, q, ErasedPage) \in Page
      BY <1>0, Pages, PutPage DEF Types
    <3>2. user \in Page
      BY <1>0 DEF Types
    <3>3. QED
      BY <1>3, <3>1, <3>2
  <2>2. latch' \in Fuses /\ booting' \in BOOLEAN
    BY <1>0, <1>3, <2>1 DEF Types, Page
  <2>3. faults' \in 0 .. MaxFaults /\ since' \in 0 .. faults'
    BY <1>0, <1>2, <1>4 DEF Types, run
  <2>4. catch' \in BOOLEAN /\ core' \in {"run", "halted"}
    BY <1>2
  <2>5. QED
    BY <1>0, <1>2, <2>1, <2>2, <2>3, <2>4 DEF Types, run, kept
<1>6. Survives' /\ Provisioning'
  BY <1>1, <1>2, <1>4, Rewritten DEF Provisioning, run
<1>7. faults' = since' => user' = want' /\ latch' = want'.fuses
  <2>1. faults' = since' => faults' = faults /\ ~Fault
    BY <1>0, <1>2, <1>4 DEF run, Fault
  <2>2. QED
    BY <1>1, <1>2, <1>3, <2>1 DEF run
<1>8. ProvisionPlace'
  BY <1>1, <1>2, <1>7 DEF ProvisionPlace, kept
<1>9. QED
  BY <1>5, <1>6, <1>8 DEF BenchInv, Place

LEMMA LatchedStep ==
    ASSUME BenchInv, CompareLatched
    PROVE  BenchInv'
<1>0. Types /\ faults \in Nat /\ since \in 0 .. faults
  BY DEF BenchInv, Types
<1>1. /\ user = want /\ (faults = since => latch = want.fuses) /\ Provisioning
  BY ProvisionLeft DEF CompareLatched, Running, ProvisionPlace
<1>2. /\ UNCHANGED <<user, latch, head, active, invalid, booting, catch, kept, faults>>
      /\ core' = "run" /\ Finish(IF LatchedAsAsked THEN "provisioned" ELSE "error")
  BY DEF CompareLatched
<1>3. faults = 0 => LatchedAsAsked /\ latch = user.fuses
  BY <1>0, <1>1 DEF LatchedAsAsked, Provisioning
<1>4. Place' /\ Ended
  BY <1>2, <1>3, Ends
<1>5. Types'
  BY <1>0, <1>2, <1>4, EndsOnly DEF BenchInv, Types
<1>6. QED
  BY <1>2, <1>4, <1>5, Kept DEF BenchInv

LEMMA FlashStep ==
    ASSUME BenchInv, Flash
    PROVE  BenchInv'
<1>0. Types
  BY DEF BenchInv
<1>1. /\ todo = <<>> /\ result' = "none" /\ core' = "run"
      /\ todo' = (IF latch.prot THEN Dance ELSE Direct)
      /\ UNCHANGED <<user, latch, head, active, invalid, booting, catch, quad, want, lockBoot, since, from, kept, faults>>
  BY DEF Flash
<1>2. Idle
  <2>1. ~ProvisionPlace /\ ~StartPlace /\ ~HalfPlace /\ ~WholePlace
    BY <1>1 DEF ProvisionPlace, StartPlace, HalfPlace, WholePlace, Dance, Direct
  <2>2. QED
    BY <2>1 DEF BenchInv, Place
<1>3. Types'
  BY <1>0, <1>1 DEF Types, run, kept
<1>4. Flashing' /\ StartPlace'
  BY <1>1, <1>2 DEF Idle, Flashing, Latched, StartPlace
<1>5. QED
  BY <1>1, <1>3, <1>4, Kept DEF BenchInv, Place

\* Where a download is, and where it leads.
LEMMA DownloadPlaces ==
    ASSUME BenchInv, NEW step \in {"active", "inactive"}, Running(step)
    PROVE  /\ Flashing
           /\ \/ /\ step = "inactive" /\ from = "none"
                 /\ Tail(todo) = <<"swap", "rehalt", "inactive", "swap", "rehalt", "verify", "verify", "release">>
              \/ /\ step = "inactive" /\ Tail(todo) = <<"swap", "rehalt", "verify", "verify", "release">>
                 /\ faults = 0 => head[active] = "new" /\ from = Other(active)
                 /\ from # "none" \/ faults # 0
              \/ /\ step = "active" /\ from = "none" /\ Tail(todo) = <<"inactive", "verify", "verify", "release">>
                 /\ faults = 0 => ~latch.prot
              \/ /\ step = "inactive" /\ Tail(todo) = <<"verify", "verify", "release">>
                 /\ faults = 0 => head[active] = "new" /\ from = active
                 /\ from # "none" \/ faults # 0
<1>1. active \in Banks /\ from \in Banks \cup {"none"} /\ active # "none" /\ Other(active) # "none"
  BY DEF BenchInv, Types, Banks, Other
<1>2. (StartPlace /\ Flashing) \/ ((HalfPlace \/ WholePlace) /\ Holding)
  <2>1. ~ProvisionPlace
    BY DEF Running, ProvisionPlace
  <2>2. QED
    BY <2>1, Left
<1>3. CASE StartPlace /\ Flashing
  <2>1. CASE todo = Dance
    <3>1. Head(todo) = "inactive"
          /\ Tail(todo) = <<"swap", "rehalt", "inactive", "swap", "rehalt", "verify", "verify", "release">>
      BY <2>1 DEF Dance
    <3>2. QED
      BY <1>3, <3>1 DEF Running, StartPlace
  <2>2. CASE todo = Direct /\ (faults = 0 => ~latch.prot)
    <3>1. Head(todo) = "active" /\ Tail(todo) = <<"inactive", "verify", "verify", "release">>
      BY <2>2 DEF Direct
    <3>2. QED
      BY <1>3, <2>2, <3>1 DEF Running, StartPlace
  <2>3. todo = Dance \/ (todo = Direct /\ (faults = 0 => ~latch.prot))
    BY <1>3 DEF StartPlace
  <2>4. QED
    BY <2>1, <2>2, <2>3
<1>4. CASE HalfPlace /\ Holding
  <2>1. \/ /\ todo = <<"inactive", "swap", "rehalt", "verify", "verify", "release">>
           /\ faults = 0 => head[active] = "new" /\ from = Other(active)
        \/ /\ todo = <<"inactive", "verify", "verify", "release">>
           /\ faults = 0 => head[active] = "new" /\ from = active
    BY <1>4 DEF Running, HalfPlace
  <2>2. Flashing
    BY <1>4 DEF Holding
  <2>3. CASE /\ todo = <<"inactive", "swap", "rehalt", "verify", "verify", "release">>
             /\ faults = 0 => head[active] = "new" /\ from = Other(active)
    <3>1. /\ Head(todo) = "inactive"
          /\ Tail(todo) = <<"swap", "rehalt", "verify", "verify", "release">>
      BY <2>3
    <3>2. QED
      BY <1>1, <2>2, <2>3, <3>1 DEF Running
  <2>4. CASE /\ todo = <<"inactive", "verify", "verify", "release">>
             /\ faults = 0 => head[active] = "new" /\ from = active
    <3>1. Head(todo) = "inactive" /\ Tail(todo) = <<"verify", "verify", "release">>
      BY <2>4
    <3>2. QED
      BY <1>1, <2>2, <2>4, <3>1 DEF Running
  <2>5. QED
    BY <2>1, <2>3, <2>4
<1>5. ~WholePlace
  BY DEF Running, WholePlace
<1>6. QED
  BY <1>2, <1>3, <1>4, <1>5

LEMMA DownloadStep ==
    ASSUME BenchInv, NEW step \in {"active", "inactive"}, Download(step)
    PROVE  BenchInv'
<1>0. Types
  BY DEF BenchInv
<1>1. /\ Running(step) /\ core' = "halted"
      /\ UNCHANGED <<user, latch, active, invalid, booting, catch, kept, faults>>
  BY DEF Download
<1>2. Survives' /\ Latched'
  BY <1>1, Kept, DownloadPlaces DEF Flashing, Latched
<1>3. CASE Protected(step)
  <2>1. Finish("error") /\ head' = head
    BY <1>3 DEF Download
  <2>2. faults' = 0 => latch'.lock
    BY <1>1, <1>3, DownloadPlaces DEF Protected
  <2>3. Place' /\ Ended
    BY <1>2, <2>1, <2>2, Ends DEF Latched
  <2>4. Types'
    BY <1>0, <1>1, <2>1, <2>3, EndsOnly DEF BenchInv, Types
  <2>5. QED
    BY <1>2, <2>3, <2>4 DEF BenchInv
<1>4. CASE ~Protected(step)
  <2>1. /\ todo' = Tail(todo) /\ from' = (IF from = "none" THEN active ELSE from)
        /\ head' = [head EXCEPT ![HeadOf(step)] = "new"]
        /\ UNCHANGED <<quad, want, lockBoot, since, result>>
    BY <1>4 DEF Download
  <2>2. /\ HeadOf(step) \in Banks /\ head'[HeadOf(step)] = "new"
        /\ \A b \in Banks : head[b] = "new" => head'[b] = "new"
    BY <1>0, <2>1 DEF Types, HeadOf, Other, Banks
  <2>3. Types'
    BY <1>0, <1>1, <2>1, <2>2 DEF Types, run, kept
  <2>4. Holding'
    BY <1>1, <1>2, <2>1, DownloadPlaces DEF Holding, Flashing
  <2>5. /\ active' = active /\ active \in Banks
        /\ \A b \in Banks : b = active \/ b = Other(active)
    BY <1>0, <1>1 DEF Types, Banks, Other
  <2>6. HalfPlace' \/ WholePlace'
    <3>1. CASE /\ step = "inactive" /\ from = "none"
               /\ Tail(todo) = <<"swap", "rehalt", "inactive", "swap", "rehalt", "verify", "verify", "release">>
      BY <1>1, <2>1, <2>2, <2>5, <3>1 DEF HalfPlace, HeadOf
    <3>2. CASE /\ step = "inactive" /\ Tail(todo) = <<"swap", "rehalt", "verify", "verify", "release">>
               /\ faults = 0 => head[active] = "new" /\ from = Other(active)
               /\ from # "none" \/ faults # 0
      <4>1. faults' = 0 => BothNew' /\ from' = Other(active')
        BY <1>1, <2>1, <2>2, <2>5, <3>2 DEF BothNew, HeadOf
      <4>2. QED
        BY <2>1, <3>2, <4>1 DEF WholePlace
    <3>3. CASE /\ step = "active" /\ from = "none" /\ Tail(todo) = <<"inactive", "verify", "verify", "release">>
      BY <1>1, <2>1, <2>2, <2>5, <3>3 DEF HalfPlace, HeadOf
    <3>4. CASE /\ step = "inactive" /\ Tail(todo) = <<"verify", "verify", "release">>
               /\ faults = 0 => head[active] = "new" /\ from = active
               /\ from # "none" \/ faults # 0
      <4>1. faults' = 0 => BothNew' /\ from' = active'
        BY <1>1, <2>1, <2>2, <2>5, <3>4 DEF BothNew, HeadOf
      <4>2. QED
        BY <2>1, <3>4, <4>1 DEF WholePlace
    <3>5. QED
      BY <1>1, <3>1, <3>2, <3>3, <3>4, DownloadPlaces
  <2>7. QED
    BY <1>2, <2>3, <2>4, <2>6 DEF BenchInv, Place
<1>5. QED
  BY <1>3, <1>4

\* A step that is cut short by a fault promises nothing but what survives.
LEMMA Faulty ==
    ASSUME BenchInv, Fault, Finish("error"), UNCHANGED <<user, invalid, kept>>,
           head' \in [Banks -> {"old", "new", "torn"}], active' \in Banks, latch' \in Fuses,
           core' \in {"run", "halted"}, booting' \in BOOLEAN, catch' \in BOOLEAN
    PROVE  BenchInv'
<1>1. faults' \in 0 .. MaxFaults /\ faults' # 0
  BY Counts DEF BenchInv, Types, Fault
<1>2. Place' /\ Ended
  BY <1>1, Ends
<1>3. Types'
  BY <1>1, EndTypes DEF BenchInv, Types, kept
<1>4. QED
  BY <1>2, <1>3, Kept DEF BenchInv

LEMMA ResetFailsStep ==
    ASSUME BenchInv, ResetFails
    PROVE  BenchInv'
<1>1. /\ Fault /\ Finish("error") /\ latch' = user.fuses /\ core' = "run"
      /\ booting' = TRUE /\ catch' = TRUE
      /\ UNCHANGED <<user, head, active, invalid, kept>>
  BY DEF ResetFails
<1>2. /\ latch' \in Fuses /\ head' \in [Banks -> {"old", "new", "torn"}] /\ active' \in Banks
      /\ core' \in {"run", "halted"}
  BY <1>1 DEF BenchInv, Types, Page
<1>3. booting' \in BOOLEAN /\ catch' \in BOOLEAN
  BY <1>1
<1>4. QED
  BY <1>1, <1>2, <1>3, Faulty

LEMMA DownloadFailsStep ==
    ASSUME BenchInv, NEW step \in {"active", "inactive"}, DownloadFails(step)
    PROVE  BenchInv'
<1>1. /\ Fault /\ Finish("error") /\ core' = "halted"
      /\ head' = [head EXCEPT ![HeadOf(step)] = "torn"]
      /\ UNCHANGED <<user, latch, active, invalid, booting, catch, kept>>
  BY DEF DownloadFails
<1>2. head' \in [Banks -> {"old", "new", "torn"}]
  BY <1>1 DEF BenchInv, Types, HeadOf, Other, Banks
<1>3. active' \in Banks /\ latch' \in Fuses /\ booting' \in BOOLEAN /\ catch' \in BOOLEAN
  BY <1>1 DEF BenchInv, Types
<1>4. QED
  BY <1>1, <1>2, <1>3, Faulty

LEMMA SwapStep ==
    ASSUME BenchInv, Swap
    PROVE  BenchInv'
<1>0. Types /\ faults \in Nat
  BY Counts DEF BenchInv, Types
<1>1. /\ Holding
      /\ \/ /\ todo = <<"swap", "rehalt", "inactive", "swap", "rehalt", "verify", "verify", "release">>
            /\ faults = 0 => head[Other(active)] = "new" /\ from = active
         \/ /\ todo = <<"swap", "rehalt", "verify", "verify", "release">>
            /\ faults = 0 => BothNew /\ from = Other(active)
  BY Left DEF Swap, Running, ProvisionPlace, StartPlace, HalfPlace, WholePlace, Dance, Direct
<1>2. /\ todo' = Tail(todo) /\ catch' = TRUE
      /\ UNCHANGED <<quad, want, lockBoot, since, result, from, user, head, invalid, kept>>
  BY DEF Swap, Advance, CatchReset, run
<1>3. \/ /\ active' = Other(active) /\ latch' = user.fuses /\ booting' = TRUE
         /\ core' = "halted" /\ faults' = faults
      \/ /\ faults < MaxFaults /\ faults' = faults + 1 /\ core' = "halted"
         /\ UNCHANGED <<active, latch, booting>>
  BY <1>2 DEF Swap, Fault
<1>4. Types'
  <2>1. active' \in Banks
    BY <1>0, <1>3 DEF Types, Banks, Other
  <2>2. latch' \in Fuses /\ booting' \in BOOLEAN /\ catch' \in BOOLEAN
    BY <1>0, <1>2, <1>3 DEF Types, Page
  <2>3. faults' \in 0 .. MaxFaults /\ since' \in 0 .. faults' /\ core' \in {"run", "halted"}
    BY <1>0, <1>2, <1>3, Counts DEF Types
  <2>4. QED
    BY <1>0, <1>2, <2>1, <2>2, <2>3 DEF Types, kept
<1>5. Holding'
  BY <1>0, <1>1, <1>2, <1>3 DEF Holding, Flashing, Latched
<1>6. faults' = 0 => faults = 0 /\ active' = Other(active) /\ Other(active') = active
  BY <1>0, <1>3 DEF Types, Banks, Other
<1>7. HalfPlace' \/ WholePlace'
  <2>1. CASE /\ todo = <<"swap", "rehalt", "inactive", "swap", "rehalt", "verify", "verify", "release">>
             /\ faults = 0 => head[Other(active)] = "new" /\ from = active
    BY <1>2, <1>6, <2>1 DEF HalfPlace
  <2>2. CASE /\ todo = <<"swap", "rehalt", "verify", "verify", "release">>
             /\ faults = 0 => BothNew /\ from = Other(active)
    BY <1>2, <1>6, <2>2 DEF WholePlace, BothNew
  <2>3. QED
    BY <1>1, <2>1, <2>2
<1>8. QED
  BY <1>2, <1>4, <1>5, <1>7, Kept DEF BenchInv, Place, Swap

LEMMA RehaltStep ==
    ASSUME BenchInv, Rehalt
    PROVE  BenchInv'
<1>1. /\ Holding
      /\ \/ /\ todo = <<"rehalt", "inactive", "swap", "rehalt", "verify", "verify", "release">>
            /\ faults = 0 => head[active] = "new" /\ from = Other(active)
         \/ /\ todo = <<"rehalt", "verify", "verify", "release">>
            /\ faults = 0 => BothNew /\ from = active
  BY Left DEF Rehalt, Running, ProvisionPlace, StartPlace, HalfPlace, WholePlace, Dance, Direct
<1>2. /\ todo' = Tail(todo) /\ core' = "halted" /\ catch' = FALSE
      /\ UNCHANGED <<quad, want, lockBoot, since, result, from>>
      /\ UNCHANGED <<user, latch, head, active, invalid, booting, kept, faults>>
  BY DEF Rehalt, Advance, run
<1>3. Types'
  <2>1. catch' \in BOOLEAN
    BY <1>2
  <2>2. QED
    BY <1>2, <2>1 DEF BenchInv, Types, kept
<1>4. Holding'
  BY <1>1, <1>2 DEF Holding, Flashing, Latched
<1>5. HalfPlace' \/ WholePlace'
  <2>1. CASE todo = <<"rehalt", "inactive", "swap", "rehalt", "verify", "verify", "release">>
             /\ (faults = 0 => head[active] = "new" /\ from = Other(active))
    <3>1. todo' = <<"inactive", "swap", "rehalt", "verify", "verify", "release">>
      BY <1>2, <2>1
    <3>2. QED
      BY <1>2, <2>1, <3>1 DEF HalfPlace
  <2>2. CASE todo = <<"rehalt", "verify", "verify", "release">>
             /\ (faults = 0 => BothNew /\ from = active)
    <3>1. todo' = <<"verify", "verify", "release">>
      BY <1>2, <2>2
    <3>2. QED
      BY <1>2, <2>2, <3>1 DEF WholePlace, BothNew
  <2>3. QED
    BY <1>1, <2>1, <2>2
<1>6. QED
  BY <1>2, <1>3, <1>4, <1>5, Kept DEF BenchInv, Place

LEMMA VerifyStep ==
    ASSUME BenchInv, Verify
    PROVE  BenchInv'
<1>0. Types
  BY DEF BenchInv
<1>1. /\ Holding /\ (faults = 0 => BothNew /\ from = active)
      /\ \/ todo = <<"verify", "verify", "release">>
         \/ todo = <<"verify", "release">> /\ head[active] = "new"
  BY Left DEF Verify, Running, ProvisionPlace, StartPlace, HalfPlace, WholePlace, Dance, Direct
<1>2. core' = "halted" /\ UNCHANGED <<user, latch, head, active, invalid, booting, catch, kept, faults>>
  BY DEF Verify
<1>3. active \in Banks /\ Other(active) \in Banks /\ (\A b \in Banks : b = active \/ b = Other(active))
  BY <1>0 DEF Types, Banks, Other
<1> DEFINE read == IF Tail(todo) = <<"release">> THEN Other(active) ELSE active
<1>4. CASE head[read] = "new"
  <2>1. /\ todo' = Tail(todo) /\ UNCHANGED <<quad, want, lockBoot, since, result, from>>
    BY <1>4 DEF Verify, HeadMatches, Advance, run
  <2>2. Types'
    BY <1>0, <1>2, <2>1 DEF Types, run, kept
  <2>3. Holding'
    BY <1>1, <1>2, <2>1 DEF Holding, Flashing, Latched
  <2>4. WholePlace'
    <3>1. CASE todo = <<"verify", "verify", "release">>
      <4>1. Tail(todo) = <<"verify", "release">> /\ Tail(todo) # <<"release">>
        BY <3>1
      <4>2. QED
        BY <1>1, <1>2, <1>4, <2>1, <4>1 DEF WholePlace, BothNew
    <3>2. CASE todo = <<"verify", "release">> /\ head[active] = "new"
      <4>1. Tail(todo) = <<"release">>
        BY <3>2
      <4>2. BothNew'
        BY <1>2, <1>3, <1>4, <3>2, <4>1 DEF BothNew
      <4>3. QED
        BY <1>1, <1>2, <2>1, <4>1, <4>2 DEF WholePlace
    <3>3. QED
      BY <1>1, <3>1, <3>2
  <2>5. QED
    BY <1>2, <2>2, <2>3, <2>4, Kept DEF BenchInv, Place
<1>5. CASE head[read] # "new"
  <2>1. Finish("error")
    BY <1>5 DEF Verify, HeadMatches
  <2>2. faults' # 0
    BY <1>1, <1>2, <1>3, <1>5 DEF BothNew
  <2>3. Place' /\ Ended
    BY <2>1, <2>2, Ends
  <2>4. Types'
    BY <1>0, <1>2, <2>1, <2>3, EndsOnly DEF BenchInv, Types
  <2>5. QED
    BY <1>2, <2>3, <2>4, Kept DEF BenchInv
<1>6. QED
  BY <1>4, <1>5

LEMMA ReleasePlace ==
    ASSUME BenchInv, Release
    PROVE  todo = <<"release">> /\ Holding /\ BothNew /\ (faults = 0 => from = active)
BY Left DEF Release, Running, ProvisionPlace, StartPlace, HalfPlace, WholePlace, Dance, Direct

LEMMA ReleaseStep ==
    ASSUME BenchInv, Release
    PROVE  BenchInv'
<1>1. /\ catch' = FALSE /\ core' = "run" /\ Finish("flashed")
      /\ UNCHANGED <<user, latch, head, active, invalid, booting, kept, faults>>
  BY DEF Release
<1>2. BothNew' /\ Latched'
  BY <1>1, ReleasePlace DEF BothNew, Holding, Flashing, Latched
<1>3. Place' /\ Ended
  BY <1>1, <1>2, Ends DEF Latched
<1>4. Types'
  <2>1. catch' \in BOOLEAN
    BY <1>1
  <2>2. QED
    BY <1>1, <2>1, EndsOnly
<1>5. QED
  BY <1>1, <1>3, <1>4, Kept DEF BenchInv

LEMMA ToolFailsStep ==
    ASSUME BenchInv, ToolFails
    PROVE  BenchInv'
<1>1. /\ Fault /\ Finish("error")
      /\ core' \in IF Head(todo) \in HoldsHalted THEN {core} ELSE {core, "run"}
      /\ UNCHANGED <<user, latch, head, active, invalid, booting, catch, kept>>
  BY DEF ToolFails
<1>2. /\ head' \in [Banks -> {"old", "new", "torn"}] /\ active' \in Banks /\ latch' \in Fuses
      /\ booting' \in BOOLEAN /\ catch' \in BOOLEAN /\ core' \in {"run", "halted"}
  BY <1>1 DEF BenchInv, Types
<1>3. QED
  BY <1>1, <1>2, Faulty

\* With the bench idle, a step of the part alone promises what it did before.
LEMMA IdleStays ==
    ASSUME todo = <<>>, BenchInv, UNCHANGED <<todo, head, from, result>>, latch' = user'.fuses,
           faults' = 0 => faults = 0 /\ user' = user
    PROVE  Place'
<1>1. Idle
  <2>1. ~ProvisionPlace /\ ~StartPlace /\ ~HalfPlace /\ ~WholePlace
    BY DEF ProvisionPlace, StartPlace, HalfPlace, WholePlace, Dance, Direct
  <2>2. QED
    BY <2>1 DEF BenchInv, Place
<1>2. result' = "error" /\ faults' = 0 => latch'.lock
  BY <1>1 DEF Idle, Latched
<1>3. result' = "flashed" => BothNew'
  BY <1>1 DEF Idle, BothNew
<1>4. QED
  BY <1>1, <1>2, <1>3 DEF Place, Idle, Latched

LEMMA PowerCutStep ==
    ASSUME BenchInv, PowerCut
    PROVE  BenchInv'
<1>0. Types
  BY DEF BenchInv
<1>1. /\ Fault /\ latch' = user.fuses /\ core' = "run" /\ booting' = TRUE /\ catch' = FALSE
      /\ UNCHANGED <<user, head, active, invalid, kept>>
  BY DEF PowerCut
<1>2. /\ head' \in [Banks -> {"old", "new", "torn"}] /\ active' \in Banks /\ latch' \in Fuses
      /\ booting' \in BOOLEAN /\ catch' \in BOOLEAN /\ core' \in {"run", "halted"}
  <2>1. latch' \in Fuses
    BY <1>0, <1>1 DEF Types, Page
  <2>2. booting' \in BOOLEAN /\ catch' \in BOOLEAN
    BY <1>1
  <2>3. QED
    BY <1>0, <1>1, <2>1, <2>2 DEF Types
<1>3. CASE todo # <<>>
  BY <1>1, <1>2, <1>3, Faulty DEF PowerCut
<1>4. CASE todo = <<>>
  <2>1. UNCHANGED tool
    BY <1>4 DEF PowerCut
  <2>2. faults' \in 0 .. MaxFaults /\ faults' # 0
    BY <1>0, <1>1, Counts DEF Types, Fault
  <2>3. Place'
    BY <1>1, <1>4, <2>1, <2>2, IdleStays DEF tool, run
  <2>4. since' \in 0 .. faults'
    BY <1>0, <1>1, <2>1, <2>2 DEF Types, Fault, tool, run
  <2>5. lockBoot' \in BOOLEAN
    BY <1>0, <2>1 DEF Types, tool, run
  <2>6. Types'
    BY <1>0, <1>1, <1>2, <2>1, <2>2, <2>4, <2>5 DEF Types, tool, run, kept
  <2>7. QED
    BY <1>1, <2>3, <2>6, Kept DEF BenchInv
<1>5. QED
  BY <1>3, <1>4

\* The firmware acts only on an idle bench, or before a flash's first write.
LEMMA Unheld ==
    ASSUME BenchInv, core = "run"
    PROVE  todo = <<>> \/ (StartPlace /\ Flashing)
BY DEF BenchInv, Place, Provisioning, Holding

LEMMA SelfResetStep ==
    ASSUME BenchInv, SelfReset
    PROVE  BenchInv'
<1>0. Types
  BY DEF BenchInv
<1>1. /\ core = "run" /\ latch' = user.fuses /\ booting' = TRUE
      /\ core' = (IF catch THEN "halted" ELSE "run")
      /\ UNCHANGED <<user, head, active, invalid, catch, tool, kept, faults>>
  BY DEF SelfReset
<1>2. Types'
  <2>1. latch' \in Fuses
    BY <1>0, <1>1 DEF Types, Page
  <2>2. booting' \in BOOLEAN /\ core' \in {"run", "halted"}
    BY <1>1
  <2>3. QED
    BY <1>0, <1>1, <2>1, <2>2 DEF Types, tool, run, kept
<1>3. Place'
  <2>1. CASE todo = <<>>
    BY <1>1, <2>1, IdleStays DEF tool, run
  <2>2. CASE StartPlace /\ Flashing
    <3>1. Flashing'
      BY <1>1, <2>2 DEF Flashing, Latched, tool, run
    <3>2. faults = 0 => latch' = latch
      BY <1>1, <2>2 DEF Flashing, Latched
    <3>3. StartPlace'
      BY <1>1, <2>2, <3>2 DEF StartPlace, tool, run
    <3>4. QED
      BY <3>1, <3>3 DEF Place
  <2>3. QED
    BY <1>1, <2>1, <2>2, Unheld
<1>4. QED
  BY <1>1, <1>2, <1>3, Kept DEF BenchInv

LEMMA BootActsStep ==
    ASSUME BenchInv, BootActs
    PROVE  BenchInv'
<1>0. Types
  BY DEF BenchInv
<1>1. /\ core = "run"
      /\ booting' = (active = invalid)
      /\ \/ /\ active' = Other(active) /\ latch' = user.fuses
            /\ core' = (IF catch THEN "halted" ELSE "run")
         \/ UNCHANGED <<active, latch, core>>
      /\ UNCHANGED <<user, head, invalid, catch, tool, kept, faults>>
  BY DEF BootActs
<1>2. Types'
  <2>1. latch' \in Fuses
    BY <1>0, <1>1 DEF Types, Page
  <2>2. booting' \in BOOLEAN /\ core' \in {"run", "halted"}
    BY <1>1
  <2>3. active' \in Banks
    BY <1>0, <1>1 DEF Types, Banks, Other
  <2>4. QED
    BY <1>0, <1>1, <2>1, <2>2, <2>3 DEF Types, tool, run, kept
<1>3. faults = 0 /\ Latched => latch' = latch
  BY <1>1 DEF Latched
<1>4. Place'
  <2>1. CASE todo = <<>>
    <3>1. Idle
      <4>1. ~ProvisionPlace /\ ~StartPlace /\ ~HalfPlace /\ ~WholePlace
        BY <2>1 DEF ProvisionPlace, StartPlace, HalfPlace, WholePlace, Dance, Direct
      <4>2. QED
        BY <4>1 DEF BenchInv, Place
    <3>2. Idle'
      BY <1>1, <1>3, <3>1 DEF Idle, Latched, BothNew, tool, run
    <3>3. QED
      BY <1>1, <2>1, <3>2 DEF Place, tool, run
  <2>2. CASE StartPlace /\ Flashing
    <3>1. Flashing'
      BY <1>1, <1>3, <2>2 DEF Flashing, Latched, tool, run
    <3>2. StartPlace'
      BY <1>1, <1>3, <2>2 DEF StartPlace, Flashing, tool, run
    <3>3. QED
      BY <3>1, <3>2 DEF Place
  <2>3. QED
    BY <1>1, <2>1, <2>2, Unheld
<1>5. QED
  BY <1>1, <1>2, <1>4, Kept DEF BenchInv

LEMMA Stutter ==
    ASSUME BenchInv, UNCHANGED vars
    PROVE  BenchInv'
BY DEF vars, part, tool, run, kept, BenchInv, Types, Survives, Place, ProvisionPlace, Provisioning, Written,
       StartPlace, Flashing, Latched, HalfPlace, WholePlace, Holding, Idle, BothNew

LEMMA Step == BenchInv /\ [Next]_vars => BenchInv'
<1> SUFFICES ASSUME BenchInv, [Next]_vars PROVE BenchInv'
  OBVIOUS
<1>1. CASE ProvisionFuses
  <2>1. PICK lock \in BOOLEAN, sblk \in {"keep", "some"} : Provision(Plan(user, lock, sblk), lock)
    BY <1>1 DEF ProvisionFuses
  <2>2. user \in Page
    BY DEF BenchInv, Types
  <2>3. QED
    BY <2>1, <2>2, Planned, ProvisionStep
<1>2. CASE Restore
  BY <1>2, RestoreStep
<1>3. CASE Erase
  BY <1>3, EraseStep
<1>4. CASE WriteQuad
  BY <1>4, QuadStep
<1>5. CASE SaveBackup
  BY <1>5, SaveStep
<1>6. CASE Flash
  BY <1>6, FlashStep
<1>7. ASSUME NEW step \in {"active", "inactive"}, Download(step) PROVE BenchInv'
  BY <1>7, DownloadStep
<1>8. ASSUME NEW step \in {"active", "inactive"}, DownloadFails(step) PROVE BenchInv'
  BY <1>8, DownloadFailsStep
<1>9. CASE Swap
  BY <1>9, SwapStep
<1>10. CASE Rehalt
  BY <1>10, RehaltStep
<1>11. CASE Verify
  BY <1>11, VerifyStep
<1>12. CASE Release
  BY <1>12, ReleaseStep
<1>13. CASE ToolFails
  BY <1>13, ToolFailsStep
<1>14. CASE PowerCut
  BY <1>14, PowerCutStep
<1>15. CASE SelfReset
  BY <1>15, SelfResetStep
<1>16. CASE BootActs
  BY <1>16, BootActsStep
<1>17. CASE UNCHANGED vars
  BY <1>17, Stutter
<1>18. CASE BackupFails
  BY <1>18, BackupFailsStep
<1>19. ASSUME NEW step \in {"compare", "reread"}, ComparePage(step) PROVE BenchInv'
  BY <1>19, CompareStep
<1>20. CASE Reset
  BY <1>20, ResetStep
<1>21. CASE ResetFails
  BY <1>21, ResetFailsStep
<1>22. CASE CompareLatched
  BY <1>22, LatchedStep
<1>23. QED
  BY <1>1, <1>2, <1>3, <1>4, <1>5, <1>6, <1>7, <1>8, <1>9, <1>10, <1>11, <1>12, <1>13, <1>14,
     <1>15, <1>16, <1>17, <1>18, <1>19, <1>20, <1>21, <1>22 DEF Next, ToolStep

LEMMA Invariant == Spec => []BenchInv
BY Begins, Step, PTL DEF Spec

-----------------------------------------------------------------------------
(* What follows from it. *)

\* What a tool has left is the end of what it set out to do.
LEMMA Suffixes ==
    ASSUME Place
    PROVE  \E n \in 0 .. Len(Dance) : todo \in
              {SubSeq(steps, n + 1, Len(steps)) : steps \in {ProvisionSteps, Dance, Direct}}
<1>1. Len(Dance) = 9 /\ Len(Direct) = 5 /\ Len(ProvisionSteps) = 7
  BY DEF Dance, Direct, ProvisionSteps
<1>2. SUFFICES \E n \in 0 .. 9, steps \in {ProvisionSteps, Dance, Direct} :
                  todo = SubSeq(steps, n + 1, Len(steps))
  BY <1>1
<1>3. CASE todo = <<>>
  <2>1. todo = SubSeq(Dance, 9 + 1, Len(Dance))
    BY <1>1, <1>3 DEF Dance
  <2>2. QED
    BY <2>1
<1>4. CASE ProvisionPlace
  <2>1. CASE todo = <<"save", "erase", "quads", "compare", "reset", "reread", "latched">>
    <3>1. todo = SubSeq(ProvisionSteps, 0 + 1, Len(ProvisionSteps))
      BY <1>1, <2>1 DEF ProvisionSteps
    <3>2. QED
      BY <3>1
  <2>2. CASE todo = <<"erase", "quads", "compare", "reset", "reread", "latched">>
    <3>1. todo = SubSeq(ProvisionSteps, 1 + 1, Len(ProvisionSteps))
      BY <1>1, <2>2 DEF ProvisionSteps
    <3>2. QED
      BY <3>1
  <2>3. CASE todo = <<"quads", "compare", "reset", "reread", "latched">>
    <3>1. todo = SubSeq(ProvisionSteps, 2 + 1, Len(ProvisionSteps))
      BY <1>1, <2>3 DEF ProvisionSteps
    <3>2. QED
      BY <3>1
  <2>4. CASE todo = <<"compare", "reset", "reread", "latched">>
    <3>1. todo = SubSeq(ProvisionSteps, 3 + 1, Len(ProvisionSteps))
      BY <1>1, <2>4 DEF ProvisionSteps
    <3>2. QED
      BY <3>1
  <2>5. CASE todo = <<"reset", "reread", "latched">>
    <3>1. todo = SubSeq(ProvisionSteps, 4 + 1, Len(ProvisionSteps))
      BY <1>1, <2>5 DEF ProvisionSteps
    <3>2. QED
      BY <3>1
  <2>6. CASE todo = <<"reread", "latched">>
    <3>1. todo = SubSeq(ProvisionSteps, 5 + 1, Len(ProvisionSteps))
      BY <1>1, <2>6 DEF ProvisionSteps
    <3>2. QED
      BY <3>1
  <2>7. CASE todo = <<"latched">>
    <3>1. todo = SubSeq(ProvisionSteps, 6 + 1, Len(ProvisionSteps))
      BY <1>1, <2>7 DEF ProvisionSteps
    <3>2. QED
      BY <3>1
  <2>8. QED
    BY <1>4, <2>1, <2>2, <2>3, <2>4, <2>5, <2>6, <2>7 DEF ProvisionPlace
<1>5. CASE StartPlace
  <2>1. CASE todo = <<"inactive", "swap", "rehalt", "inactive", "swap", "rehalt", "verify", "verify", "release">>
    <3>1. todo = SubSeq(Dance, 0 + 1, Len(Dance))
      BY <1>1, <2>1 DEF Dance
    <3>2. QED
      BY <3>1
  <2>2. CASE todo = <<"active", "inactive", "verify", "verify", "release">>
    <3>1. todo = SubSeq(Direct, 0 + 1, Len(Direct))
      BY <1>1, <2>2 DEF Direct
    <3>2. QED
      BY <3>1
  <2>3. QED
    BY <1>5, <2>1, <2>2 DEF StartPlace, Dance, Direct
<1>6. CASE HalfPlace
  <2>1. CASE todo = <<"swap", "rehalt", "inactive", "swap", "rehalt", "verify", "verify", "release">>
    <3>1. todo = SubSeq(Dance, 1 + 1, Len(Dance))
      BY <1>1, <2>1 DEF Dance
    <3>2. QED
      BY <3>1
  <2>2. CASE todo = <<"rehalt", "inactive", "swap", "rehalt", "verify", "verify", "release">>
    <3>1. todo = SubSeq(Dance, 2 + 1, Len(Dance))
      BY <1>1, <2>2 DEF Dance
    <3>2. QED
      BY <3>1
  <2>3. CASE todo = <<"inactive", "swap", "rehalt", "verify", "verify", "release">>
    <3>1. todo = SubSeq(Dance, 3 + 1, Len(Dance))
      BY <1>1, <2>3 DEF Dance
    <3>2. QED
      BY <3>1
  <2>4. CASE todo = <<"inactive", "verify", "verify", "release">>
    <3>1. todo = SubSeq(Direct, 1 + 1, Len(Direct))
      BY <1>1, <2>4 DEF Direct
    <3>2. QED
      BY <3>1
  <2>5. QED
    BY <1>6, <2>1, <2>2, <2>3, <2>4 DEF HalfPlace
<1>7. CASE WholePlace
  <2>1. CASE todo = <<"swap", "rehalt", "verify", "verify", "release">>
    <3>1. todo = SubSeq(Dance, 4 + 1, Len(Dance))
      BY <1>1, <2>1 DEF Dance
    <3>2. QED
      BY <3>1
  <2>2. CASE todo = <<"rehalt", "verify", "verify", "release">>
    <3>1. todo = SubSeq(Dance, 5 + 1, Len(Dance))
      BY <1>1, <2>2 DEF Dance
    <3>2. QED
      BY <3>1
  <2>3. CASE todo = <<"verify", "verify", "release">>
    <3>1. todo = SubSeq(Dance, 6 + 1, Len(Dance))
      BY <1>1, <2>3 DEF Dance
    <3>2. QED
      BY <3>1
  <2>4. CASE todo = <<"verify", "release">>
    <3>1. todo = SubSeq(Dance, 7 + 1, Len(Dance))
      BY <1>1, <2>4 DEF Dance
    <3>2. QED
      BY <3>1
  <2>5. CASE todo = <<"release">>
    <3>1. todo = SubSeq(Dance, 8 + 1, Len(Dance))
      BY <1>1, <2>5 DEF Dance
    <3>2. QED
      BY <3>1
  <2>6. QED
    BY <1>7, <2>1, <2>2, <2>3, <2>4, <2>5 DEF WholePlace
<1>8. QED
  BY <1>3, <1>4, <1>5, <1>6, <1>7 DEF Place

\* The state of the part and of the bench has its type: the steps a tool has
\* left are always the end of one of its sequences, however it is cut short.
THEOREM BenchTypeCorrect == Spec => []TypeOK
<1>1. BenchInv => TypeOK
  BY Suffixes DEF BenchInv, Types, TypeOK
<1>2. QED
  BY <1>1, Invariant, PTL

\* flash (flash.rs, run) says "flashed" only with its BOOT at both heads: on
\* either way round, with any faults before, and for as long as it is the last
\* thing that was said.
THEOREM FlashedIsBoth == Spec => []BothHeads
<1>1. BenchInv => BothHeads
  BY DEF BenchInv, Place, Provisioning, Flashing, Holding, Idle, BothNew, BothHeads
<1>2. QED
  BY <1>1, Invariant, PTL

\* Unless something failed, a flash fails only on region locks (flash.rs).
THEOREM OnlyLocksStopFlash == Spec => []FlashGoesThrough
<1>1. BenchInv => FlashGoesThrough
  <2> SUFFICES ASSUME BenchInv, result = "error", todo = <<>>, faults = 0 PROVE latch.lock
    BY DEF FlashGoesThrough
  <2>1. ~ProvisionPlace /\ ~StartPlace /\ ~HalfPlace /\ ~WholePlace
    BY DEF ProvisionPlace, StartPlace, HalfPlace, WholePlace, Dance, Direct
  <2>2. QED
    BY <2>1 DEF BenchInv, Place, Idle
<1>2. QED
  BY <1>1, Invariant, PTL

\* What provision does not name is on the part or in the backup, however often
\* a run is cut short and tried again, unless the write of the backup was itself
\* cut short (provision.rs, save_backup and write_page).
THEOREM NothingUnnamedIsLost == Spec => []FusesRecoverable
<1>1. BenchInv => FusesRecoverable
  BY DEF BenchInv, Survives, FusesRecoverable
<1>2. QED
  BY <1>1, Invariant, PTL

\* Only the release reports a flash.
LEMMA OnlyRelease ==
    ASSUME BenchInv, [Next]_vars, result # "flashed", result' = "flashed"
    PROVE  Release
BY DEF Next, ToolStep, ProvisionFuses, Restore, Provision, SaveBackup, BackupFails, Erase, WriteQuad,
       ComparePage, Reset, ResetFails, CompareLatched, Flash, Download, DownloadFails, Swap, Rehalt, Verify, ToolFails, PowerCut, SelfReset, BootActs, Finish, Advance,
       vars, tool, run

\* Two swaps leave the bank active that was (flash.rs): no firmware runs from
\* the first write to the release.
THEOREM SwapsCancel == Spec => ActiveKept
<1>1. ASSUME BenchInv, [Next]_vars
      PROVE  result # "flashed" /\ result' = "flashed" /\ faults = 0 => active' = from
  <2> SUFFICES ASSUME result # "flashed", result' = "flashed", faults = 0 PROVE active' = from
    OBVIOUS
  <2>1. Release
    BY <1>1, OnlyRelease
  <2>2. from = active /\ active' = active
    BY <1>1, <2>1, ReleasePlace DEF Release
  <2>3. QED
    BY <2>2
<1>2. QED
  BY <1>1, Invariant, PTL DEF Spec, ActiveKept

\* Only the last comparison reports a provisioned part.
LEMMA OnlyLatched ==
    ASSUME BenchInv, [Next]_vars, result # "provisioned", result' = "provisioned"
    PROVE  CompareLatched
BY DEF Next, ToolStep, ProvisionFuses, Restore, Provision, SaveBackup, BackupFails, Erase, WriteQuad,
       ComparePage, Reset, ResetFails, Flash, Download, DownloadFails, Swap, Rehalt, Verify, Release,
       ToolFails, PowerCut, SelfReset, BootActs, Finish, Advance, vars, tool, run, part

\* "Provisioned" means that the page is the one planned, that the BOOTPROT and
\* the locks that were asked for are in force although the reset may have gone
\* wrong, and that all the fuses are if nothing failed (provision.rs, verify and
\* run).
THEOREM ProvisionedIsLatched == Spec => VerifiedIsLatched
<1>1. ASSUME BenchInv, [Next]_vars
      PROVE  result # "provisioned" /\ result' = "provisioned" =>
                /\ user' = want
                /\ latch'.prot = want.fuses.prot /\ (lockBoot => latch'.lock)
                /\ faults = since => latch' = want.fuses
  <2> SUFFICES ASSUME result # "provisioned", result' = "provisioned"
               PROVE  /\ user' = want
                      /\ latch'.prot = want.fuses.prot /\ (lockBoot => latch'.lock)
                      /\ faults = since => latch' = want.fuses
    OBVIOUS
  <2>1. CompareLatched
    BY <1>1, OnlyLatched
  <2>2. user = want /\ (faults = since => latch = want.fuses)
    BY <1>1, <2>1, ProvisionLeft DEF CompareLatched, Running, ProvisionPlace
  <2>3. user' = user /\ latch' = latch /\ LatchedAsAsked
    BY <2>1 DEF CompareLatched, Finish
  <2>4. QED
    BY <2>2, <2>3 DEF LatchedAsAsked
<1>2. QED
  BY <1>1, Invariant, PTL DEF Spec, VerifiedIsLatched

=============================================================================
