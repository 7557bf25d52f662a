---------------------------- MODULE RxRing_proofs -----------------------------
(***************************************************************************)
(* The receive ring, proved for every ring, FIFO and number of bytes: the  *)
(* order of what is read, the report of what is lost, and the fate of the  *)
(* echo, at whatever step of the foreground the handler comes in.          *)
(***************************************************************************)
EXTENDS RxRing, SequenceTheorems, TLAPS

USE DEF Mark, Echo

-----------------------------------------------------------------------------
(* The ring as a queue. *)

\* No index ever goes round twice.
LEMMA Wrap ==
    ASSUME NEW x \in Int, 0 <= x, x < 2 * RingSize
    PROVE  x % RingSize = IF x < RingSize THEN x ELSE x - RingSize
<1>1. RingSize \in Nat \ {0}
  BY RingAssumption
<1>2. CASE x < RingSize
  BY <1>1, <1>2
<1>3. CASE x >= RingSize
  <2>1. x = 1 * RingSize + (x - RingSize) /\ 0 <= x - RingSize /\ x - RingSize < RingSize
    BY <1>1, <1>3
  <2>2. QED
    BY <1>1, <1>3, <2>1
<1>4. QED
  BY <1>1, <1>2, <1>3

\* How far the producer is ahead.
Depth == (head - tail + RingSize) % RingSize

LEMMA Depths ==
    ASSUME head \in Slots, tail \in Slots
    PROVE  /\ RingSize \in Nat \ {0, 1}
           /\ Depth = IF tail <= head THEN head - tail ELSE head - tail + RingSize
           /\ Depth \in Slots
           /\ Succ(head) = IF head + 1 = RingSize THEN 0 ELSE head + 1
           /\ Succ(tail) = IF tail + 1 = RingSize THEN 0 ELSE tail + 1
<1>1. RingSize \in Nat \ {0, 1}
  BY RingAssumption
<1>2. head - tail + RingSize \in Int /\ 0 <= head - tail + RingSize
      /\ head - tail + RingSize < 2 * RingSize
  BY <1>1 DEF Slots
<1>3. Depth = IF tail <= head THEN head - tail ELSE head - tail + RingSize
  BY <1>1, <1>2, Wrap DEF Depth, Slots
<1>4. Succ(head) = IF head + 1 = RingSize THEN 0 ELSE head + 1
  BY <1>1, Wrap DEF Succ, Slots
<1>5. Succ(tail) = IF tail + 1 = RingSize THEN 0 ELSE tail + 1
  BY <1>1, Wrap DEF Succ, Slots
<1>6. QED
  BY <1>1, <1>3, <1>4, <1>5 DEF Slots

\* The slot of the i-th byte that waits.
LEMMA Places ==
    ASSUME head \in Slots, tail \in Slots, buf \in [Slots -> Mark .. NBytes]
    PROVE  /\ Queued \in Seq(Mark .. NBytes) /\ Len(Queued) = Depth
           /\ \A i \in 1 .. Depth :
                 /\ (tail + i - 1) % RingSize
                        = IF tail + i - 1 < RingSize THEN tail + i - 1 ELSE tail + i - 1 - RingSize
                 /\ (tail + i - 1) % RingSize \in Slots
                 /\ Queued[i] = buf[(tail + i - 1) % RingSize]
<1>1. Queued = [i \in 1 .. Depth |-> buf[(tail + i - 1) % RingSize]]
  BY DEF Queued, Depth
<1>2. ASSUME NEW i \in 1 .. Depth
      PROVE  /\ (tail + i - 1) % RingSize
                    = IF tail + i - 1 < RingSize THEN tail + i - 1 ELSE tail + i - 1 - RingSize
             /\ (tail + i - 1) % RingSize \in Slots
  <2>1. /\ tail \in Int /\ i \in Int /\ RingSize \in Nat \ {0, 1}
        /\ 0 <= tail + i - 1 /\ tail + i - 1 < 2 * RingSize
    BY Depths DEF Slots
  <2>2. (tail + i - 1) % RingSize
            = IF tail + i - 1 < RingSize THEN tail + i - 1 ELSE tail + i - 1 - RingSize
    BY <2>1, Wrap
  <2>3. QED
    BY <2>1, <2>2, Depths DEF Slots
<1>3. Depth \in Nat
  BY Depths DEF Slots
<1>4. \A i \in 1 .. Depth : Queued[i] \in Mark .. NBytes
  BY <1>1, <1>2
<1>5. Queued \in Seq(Mark .. NBytes) /\ Len(Queued) = Depth
  <2>1. Queued \in [1 .. Depth -> Mark .. NBytes]
    BY <1>1, <1>4
  <2>2. Queued \in Seq(Mark .. NBytes)
    BY <1>3, <2>1, SeqDef
  <2>3. Len(Queued) = Depth
    BY <1>1, <1>3, <2>2, LenProperties
  <2>4. QED
    BY <2>2, <2>3
<1>6. QED
  BY <1>1, <1>2, <1>5

\* A byte put at the head of a ring that is not full waits behind the others.
LEMMA Put ==
    ASSUME head \in Slots, tail \in Slots, buf \in [Slots -> Mark .. NBytes], ~Full,
           NEW b \in Mark .. NBytes,
           buf' = [buf EXCEPT ![head] = b], head' = Succ(head), tail' = tail
    PROVE  /\ head' \in Slots /\ head' # tail' /\ buf' \in [Slots -> Mark .. NBytes]
           /\ tail # head => buf'[tail] = buf[tail]
           /\ Len(Queued') = Len(Queued) + 1
           /\ \A i \in 1 .. Len(Queued) : Queued'[i] = Queued[i]
           /\ Queued'[Len(Queued) + 1] = b
<1>1. head' \in Slots /\ tail' \in Slots /\ head' # tail' /\ buf' \in [Slots -> Mark .. NBytes]
  BY Depths DEF Full, Slots
<1>2. Depth' = Depth + 1
  <2>1. Depth' = IF tail' <= head' THEN head' - tail' ELSE head' - tail' + RingSize
    <3>1. /\ head' \in Int /\ tail' \in Int /\ RingSize \in Nat \ {0, 1}
          /\ 0 <= head' - tail' + RingSize
          /\ head' - tail' + RingSize < 2 * RingSize
      BY <1>1, Depths DEF Slots
    <3>2. (head' - tail' + RingSize) % RingSize
              = IF head' - tail' + RingSize < RingSize THEN head' - tail' + RingSize
                ELSE head' - tail' + RingSize - RingSize
      BY <3>1, Wrap
    <3>3. QED
      BY <3>1, <3>2 DEF Depth
  <2>2. QED
    BY <1>1, <2>1, Depths DEF Full, Slots
<1>3. Queued' = [i \in 1 .. Depth + 1 |-> buf'[(tail + i - 1) % RingSize]]
  BY <1>2 DEF Queued, Depth
<1>4. Len(Queued) = Depth /\ Depth \in Nat /\ Len(Queued') = Depth + 1
  BY <1>3, Places, Depths DEF Slots
<1>5. ASSUME NEW i \in 1 .. Depth
      PROVE  Queued'[i] = Queued[i]
  <2>1. (tail + i - 1) % RingSize # head
    <3>1. (tail + i - 1) % RingSize
              = IF tail + i - 1 < RingSize THEN tail + i - 1 ELSE tail + i - 1 - RingSize
      BY Places
    <3>2. QED
      BY <3>1, Depths, SMTT(60) DEF Slots
  <2>2. QED
    BY <1>3, <1>4, <2>1, Places
<1>6. Queued'[Depth + 1] = b
  <2>1. /\ tail \in Int /\ Depth \in Int /\ RingSize \in Nat \ {0, 1}
        /\ 0 <= tail + Depth /\ tail + Depth < 2 * RingSize
    BY Depths DEF Slots
  <2>2. (tail + Depth) % RingSize = head
    <3>1. (tail + Depth) % RingSize
              = IF tail + Depth < RingSize THEN tail + Depth ELSE tail + Depth - RingSize
      BY <2>1, Wrap
    <3>2. QED
      BY <3>1, Depths, SMTT(60) DEF Slots
  <2>3. Queued'[Depth + 1] = buf'[(tail + (Depth + 1) - 1) % RingSize]
    BY <1>3, <1>4
  <2>4. tail + (Depth + 1) - 1 = tail + Depth
    BY <1>4 DEF Slots
  <2>5. QED
    BY <2>2, <2>3, <2>4
<1>7. tail # head => buf'[tail] = buf[tail]
  OBVIOUS
<1>8. QED
  BY <1>1, <1>4, <1>5, <1>6, <1>7

\* What the consumer takes is what waits longest.
LEMMA Take ==
    ASSUME head \in Slots, tail \in Slots, buf \in [Slots -> Mark .. NBytes], tail # head,
           buf' = buf, head' = head, tail' = Succ(tail)
    PROVE  /\ tail' \in Slots
           /\ Len(Queued) \in Nat \ {0} /\ Queued[1] = buf[tail]
           /\ Len(Queued') = Len(Queued) - 1
           /\ \A i \in 1 .. Len(Queued') : Queued'[i] = Queued[i + 1]
<1>1. tail' \in Slots
  BY Depths DEF Slots
<1>2. Depth \in Nat \ {0} /\ Depth' = Depth - 1
  <2>1. Depth' = IF tail' <= head THEN head - tail' ELSE head - tail' + RingSize
    <3>1. /\ head \in Int /\ tail' \in Int /\ RingSize \in Nat \ {0, 1}
          /\ 0 <= head - tail' + RingSize
          /\ head - tail' + RingSize < 2 * RingSize
      BY <1>1, Depths DEF Slots
    <3>2. (head - tail' + RingSize) % RingSize
              = IF head - tail' + RingSize < RingSize THEN head - tail' + RingSize
                ELSE head - tail' + RingSize - RingSize
      BY <3>1, Wrap
    <3>3. QED
      BY <3>1, <3>2 DEF Depth
  <2>2. QED
    BY <1>1, <2>1, Depths DEF Slots
<1>3. Queued' = [i \in 1 .. Depth - 1 |-> buf[(tail' + i - 1) % RingSize]]
  BY <1>2 DEF Queued, Depth
<1>4. Len(Queued) = Depth /\ Len(Queued') = Depth - 1
  BY <1>2, <1>3, Places
<1>5. Queued[1] = buf[tail]
  <2>1. 1 \in 1 .. Depth /\ (tail + 1 - 1) % RingSize = tail
    BY <1>2, Places, Depths DEF Slots
  <2>2. QED
    BY <2>1, Places
<1>6. ASSUME NEW i \in 1 .. Depth - 1
      PROVE  Queued'[i] = Queued[i + 1]
  <2>1. i + 1 \in 1 .. Depth
    BY <1>2
  <2>2. (tail' + i - 1) % RingSize = (tail + (i + 1) - 1) % RingSize
    <3>1. /\ tail' \in Int /\ i \in Int /\ RingSize \in Nat \ {0, 1}
          /\ 0 <= tail' + i - 1 /\ tail' + i - 1 < 2 * RingSize
      BY <1>1, <1>2, Depths DEF Slots
    <3>2. (tail + (i + 1) - 1) % RingSize
              = IF tail + (i + 1) - 1 < RingSize THEN tail + (i + 1) - 1
                ELSE tail + (i + 1) - 1 - RingSize
      BY <2>1, Places
    <3>3. (tail' + i - 1) % RingSize
              = IF tail' + i - 1 < RingSize THEN tail' + i - 1 ELSE tail' + i - 1 - RingSize
      BY <3>1, Wrap
    <3>4. QED
      BY <1>2, <3>2, <3>3, Depths DEF Slots
  <2>3. QED
    BY <1>3, <2>1, <2>2, Places
<1>7. QED
  BY <1>1, <1>2, <1>4, <1>5, <1>6

LEMMA Same ==
    ASSUME UNCHANGED <<buf, head, tail>>
    PROVE  Queued' = Queued
BY DEF Queued
-----------------------------------------------------------------------------
(* The invariant. *)

\* Where the foreground is says what is masked, who drives and what it holds.
Phases ==
    /\ driving <=> fg = "driving"
    /\ rxc <=> fg # "quiet"
    /\ nvic <=> fg \notin {"driving", "quiet"}
    /\ flushing => fg \in {"idle", "read", "store"}
    /\ isr = "drain" => nvic
    /\ fg \in {"read", "store"} => tail # head
    /\ fg = "store" => byte = buf[tail]

\* The bytes in the ring, then those in the FIFO, are in the order they were
\* sent; all are newer than the last one read and older than the next to come.
Ordered ==
    /\ \A i \in 1 .. Len(Queued) : Queued[i] > 0 => out < Queued[i] /\ Queued[i] < next
    /\ \A i \in 1 .. Len(fifo) : fifo[i] > 0 => out < fifo[i] /\ fifo[i] < next
    /\ \A i, j \in 1 .. Len(Queued) :
          i < j /\ Queued[i] > 0 /\ Queued[j] > 0 => Queued[i] < Queued[j]
    /\ \A i, j \in 1 .. Len(fifo) :
          i < j /\ fifo[i] > 0 /\ fifo[j] > 0 => fifo[i] < fifo[j]
    /\ \A i \in 1 .. Len(Queued), j \in 1 .. Len(fifo) :
          Queued[i] > 0 /\ fifo[j] > 0 => Queued[i] < fifo[j]
    /\ out < next

\* One mark at most, behind a FIFO that was full; behind the mark only what
\* has arrived while the handler runs.
Marks ==
    /\ Len(fifo) <= FifoDepth \/ Marked
    /\ \A i, j \in 1 .. Len(fifo) : fifo[i] = Mark /\ fifo[j] = Mark => i = j
    /\ \A i \in 1 .. Len(fifo) : fifo[i] = Mark =>
          /\ isr = "off" => Len(fifo) = FifoDepth + 1
          /\ ~heard => Len(fifo) = i
          /\ Len(fifo) <= i + 1
    /\ isr = "off" => ~heard

\* A loss the handler knows of is latched. One whose mark is in the FIFO came
\* after all that is in front of the mark.
Losses ==
    /\ gap # {} => lost
    /\ due # {} => status
    /\ overrun # {} => \E i \in 2 .. Len(fifo) : fifo[i] = Mark
    /\ \A g \in overrun :
          /\ g < next /\ out < g
          /\ \A i \in 1 .. Len(Queued) : Queued[i] < g
          /\ \A i, m \in 1 .. Len(fifo) : fifo[m] = Mark /\ i < m => fifo[i] < g

\* One whose mark was come to is still in STATUS, and one newer byte at most
\* has left the FIFO.
Late ==
    \A g \in due :
       /\ \A i, j \in 1 .. Len(Queued) : Queued[i] > g /\ Queued[j] > g => i = j
       /\ out > g => \A i \in 1 .. Len(Queued) : Queued[i] <= g
       /\ isr = "drain" =>
             /\ out < g /\ Len(fifo) <= 2
             /\ fifo # <<>> \/ ~heard => \A i \in 1 .. Len(Queued) : Queued[i] <= g
             /\ Len(fifo) = 2 \/ (Len(fifo) = 1 /\ ~heard) => fifo[1] = Mark

\* An echo is in the FIFO only until the interrupt that is pending at the
\* unmasking, and in the ring only until flush_rx has emptied it.
Echoes ==
    /\ \A i \in 1 .. Len(fifo) : fifo[i] = Echo => fg \in {"driving", "unmasked"}
    /\ \A i \in 1 .. Len(Queued) :
          Queued[i] = Echo => fg \in {"driving", "unmasked"} \/ flushing
    /\ ~echoed

RingInv == TypeOK /\ Phases /\ Ordered /\ Marks /\ Losses /\ Late /\ Echoes

\* What a byte that arrives makes of the FIFO.
LEMMA FifoPut ==
    ASSUME fifo \in Seq(Mark .. NBytes), NEW b \in Mark .. NBytes, fifo' = Append(fifo, b)
    PROVE  /\ fifo' \in Seq(Mark .. NBytes) /\ Len(fifo) \in Nat /\ Len(fifo') = Len(fifo) + 1
           /\ \A i \in 1 .. Len(fifo) : fifo'[i] = fifo[i]
           /\ fifo'[Len(fifo) + 1] = b
OBVIOUS

LEMMA First ==
    ASSUME NEW S, NEW s \in Seq(S), s # <<>>
    PROVE  Head(s) = s[1]
OBVIOUS

\* And reading DATA.
LEMMA FifoTake ==
    ASSUME fifo \in Seq(Mark .. NBytes), fifo # <<>>, fifo' = Tail(fifo)
    PROVE  /\ fifo' \in Seq(Mark .. NBytes) /\ Len(fifo) \in Nat \ {0}
           /\ Len(fifo') = Len(fifo) - 1
           /\ \A i \in 1 .. Len(fifo') : fifo'[i] = fifo[i + 1]
           /\ Head(fifo) = fifo[1] /\ fifo[1] \in Mark .. NBytes
<1>1. Len(fifo) \in Nat \ {0}
  BY EmptySeq
<1>2. /\ fifo' \in Seq(Mark .. NBytes) /\ Len(fifo') = Len(fifo) - 1
      /\ \A i \in 1 .. Len(fifo') : fifo'[i] = fifo[i + 1]
  BY HeadTailProperties
<1>3. Head(fifo) = fifo[1]
  BY First
<1>4. fifo[1] \in Mark .. NBytes
  <2>1. 1 \in 1 .. Len(fifo)
    BY <1>1
  <2>2. QED
    BY <2>1, ElementOfSeq
<1>5. QED
  BY <1>1, <1>2, <1>3, <1>4

LEMMA Begins == Init => RingInv
<1> SUFFICES ASSUME Init PROVE RingInv
  OBVIOUS
<1>1. RingSize \in Nat /\ RingSize > 1 /\ FifoDepth \in Nat \ {0} /\ NBytes \in Nat
  BY RingAssumption
<1>2. head = 0 /\ tail = 0 /\ fifo = <<>> /\ head \in Slots /\ tail \in Slots
  BY <1>1 DEF Init, Slots
<1>3. buf \in [Slots -> Mark .. NBytes]
  BY <1>1 DEF Init
<1>4. Len(Queued) = 0 /\ Len(fifo) = 0
  BY <1>2, <1>3, Places, Depths
<1>5. TypeOK
  <2>1. fifo \in Seq(Mark .. NBytes) /\ Len(fifo) <= FifoDepth + 1
    BY <1>1, <1>2, <1>4
  <2>2. /\ byte \in Mark .. NBytes /\ next \in 1 .. NBytes + 1 /\ out \in 0 .. NBytes
        /\ overrun \subseteq 1 .. NBytes /\ due \subseteq 1 .. NBytes /\ gap \subseteq 1 .. NBytes
    BY <1>1 DEF Init
  <2>3. /\ status \in BOOLEAN /\ rxc \in BOOLEAN /\ nvic \in BOOLEAN /\ driving \in BOOLEAN
        /\ heard \in BOOLEAN /\ lost \in BOOLEAN /\ flushing \in BOOLEAN /\ echoed \in BOOLEAN
    BY DEF Init
  <2>4. QED
    BY <1>2, <1>3, <2>1, <2>2, <2>3 DEF Init, TypeOK
<1>6. Phases
  BY DEF Init, Phases
<1>7. Ordered
  <2>1. out < next
    BY DEF Init
  <2>2. QED
    BY <1>4, <2>1 DEF Ordered
<1>8. Marks /\ Losses /\ Late
  BY <1>1, <1>4 DEF Init, Marks, Losses, Late
<1>9. Echoes
  <2>1. ~echoed
    BY DEF Init
  <2>2. QED
    BY <1>4, <2>1 DEF Echoes
<1>10. QED
  BY <1>5, <1>6, <1>7, <1>8, <1>9 DEF RingInv

\* A step that moves no byte keeps their order ...
LEMMA Unmoved ==
    ASSUME RingInv, UNCHANGED <<fifo, buf, head, tail, next, out>>
    PROVE  Queued' = Queued /\ Ordered'
<1>1. Queued' = Queued
  BY Same
<1>2. QED
  BY <1>1 DEF RingInv, Ordered

\* ... and one of the foreground that takes none, what is known of the losses.
LEMMA Kept ==
    ASSUME RingInv, UNCHANGED <<wire, ring, isr, out>>
    PROVE  Queued' = Queued /\ Ordered' /\ Marks' /\ Losses' /\ Late'
<1>1. UNCHANGED <<fifo, status, heard, next, overrun, due, gap, buf, head, tail, lost, isr, out>>
  BY DEF wire, ring
<1>2. Queued' = Queued /\ Ordered'
  BY <1>1, Unmoved
<1>3. Marks'
  BY <1>1 DEF RingInv, Marks, Marked
<1>4. Losses'
  BY <1>1, <1>2 DEF RingInv, Losses
<1>5. Late'
  BY <1>1, <1>2 DEF RingInv, Late
<1>6. QED
  BY <1>2, <1>3, <1>4, <1>5

LEMMA Few == \A n \in Nat : n <= 2 => n = 0 \/ n = 1 \/ n = 2
OBVIOUS

\* What the arrival of a byte keeps, one of the host's or an echo.
LEMMA Arrives ==
    ASSUME RingInv, FifoDepth \in Nat \ {0}, NEW b \in 0 .. NBytes, Receive(b), ~heard,
           \/ b = next /\ next \in 1 .. NBytes /\ next' = next + 1
           \/ b = Echo /\ next' = next,
           heard' <=> isr = "drain",
           UNCHANGED <<status, due, gap, ring, isr, out>>
    PROVE  /\ Queued' = Queued /\ Ordered' /\ Marks' /\ Losses' /\ Late'
           /\ fifo' \in Seq(Mark .. NBytes) /\ Len(fifo') <= FifoDepth + 1
           /\ overrun' \subseteq 1 .. NBytes
           /\ \A i \in 1 .. Len(fifo') :
                 (i \in 1 .. Len(fifo) /\ fifo'[i] = fifo[i]) \/ fifo'[i] = b \/ fifo'[i] = Mark
<1>0. /\ TypeOK /\ Ordered /\ Marks /\ Losses /\ Late
      /\ UNCHANGED <<status, due, gap, buf, head, tail, lost, isr, out>>
  BY DEF RingInv, ring
<1>1. Queued' = Queued
  BY <1>0, Same
<1>2. /\ NBytes \in Nat /\ fifo \in Seq(Mark .. NBytes) /\ Len(fifo) \in Nat
      /\ Len(Queued) \in Nat /\ out \in 0 .. NBytes
      /\ next \in 1 .. NBytes + 1 /\ next' \in Nat /\ next <= next' /\ (b > 0 => b < next')
      /\ isr \in {"off", "drain"}
  <2>1. Queued \in Seq(Mark .. NBytes)
    BY <1>0, Places DEF TypeOK
  <2>2. QED
    BY <1>0, <2>1, LenProperties, RingAssumption DEF TypeOK
<1>a. Len(fifo) \in Nat
  BY <1>2
<1>3. /\ \A i \in 1 .. Len(fifo) : fifo[i] \in Mark .. NBytes
      /\ \A i \in 1 .. Len(Queued) : Queued[i] \in Mark .. NBytes
  <2>1. Queued \in Seq(Mark .. NBytes)
    BY <1>0, Places DEF TypeOK
  <2>2. QED
    BY <1>2, <2>1, ElementOfSeq
<1>4. b > 0 => /\ b = next /\ out < b
               /\ \A i \in 1 .. Len(fifo) : fifo[i] < b
               /\ \A i \in 1 .. Len(Queued) : Queued[i] < b
  BY <1>0, <1>2, <1>3 DEF Ordered
<1>5. Held = Len(fifo) - (IF Marked THEN 1 ELSE 0)
  BY DEF Held
\* Whatever is appended, the order is kept if it is no byte of the host or the newest.
<1>6. ASSUME NEW c \in {b, Mark}, fifo' = Append(fifo, c)
      PROVE  /\ fifo' \in Seq(Mark .. NBytes) /\ Len(fifo') = Len(fifo) + 1
             /\ \A i \in 1 .. Len(fifo) : fifo'[i] = fifo[i]
             /\ fifo'[Len(fifo) + 1] = c
             /\ \A i \in 1 .. Len(fifo') :
                   \/ i \in 1 .. Len(fifo) /\ fifo'[i] = fifo[i]
                   \/ i = Len(fifo) + 1 /\ fifo'[i] = c
             /\ Ordered'
  <2>1. c \in Mark .. NBytes
    BY <1>2
  <2>2. /\ fifo' \in Seq(Mark .. NBytes) /\ Len(fifo') = Len(fifo) + 1
        /\ \A i \in 1 .. Len(fifo) : fifo'[i] = fifo[i]
        /\ fifo'[Len(fifo) + 1] = c
    BY <1>2, <1>6, <2>1, FifoPut
  <2>3. \A i \in 1 .. Len(fifo') :
           \/ i \in 1 .. Len(fifo) /\ fifo'[i] = fifo[i]
           \/ i = Len(fifo) + 1 /\ fifo'[i] = c
    BY <1>2, <2>2
  <2>4. c > 0 => c = b
    OBVIOUS
  <2>5. /\ \A i \in 1 .. Len(Queued') : Queued'[i] > 0 => out' < Queued'[i] /\ Queued'[i] < next'
        /\ out' < next'
    BY <1>0, <1>1, <1>2, <1>3 DEF Ordered
  <2>6. \A i \in 1 .. Len(fifo') : fifo'[i] > 0 => out' < fifo'[i] /\ fifo'[i] < next'
    <3>1. \A i \in 1 .. Len(fifo) : fifo[i] > 0 => out' < fifo[i] /\ fifo[i] < next'
      BY <1>0, <1>2, <1>3 DEF Ordered
    <3>2. c > 0 => out' < c /\ c < next'
      BY <1>0, <1>2, <1>4, <2>4
    <3>3. QED
      BY <2>3, <3>1, <3>2
  <2>7. ASSUME NEW i \in 1 .. Len(fifo'), NEW j \in 1 .. Len(fifo'), i < j,
               fifo'[i] > 0, fifo'[j] > 0
        PROVE  fifo'[i] < fifo'[j]
    <3>1. i \in 1 .. Len(fifo) /\ fifo'[i] = fifo[i]
      BY <1>2, <2>2, <2>7
    <3>2. CASE j \in 1 .. Len(fifo)
      BY <1>0, <2>2, <2>7, <3>1, <3>2 DEF Ordered
    <3>3. CASE fifo'[j] = c
      BY <1>4, <2>4, <2>7, <3>1, <3>3
    <3>4. QED
      BY <2>3, <3>2, <3>3
  <2>8. ASSUME NEW i \in 1 .. Len(Queued'), NEW j \in 1 .. Len(fifo'), Queued'[i] > 0, fifo'[j] > 0
        PROVE  Queued'[i] < fifo'[j]
    <3>1. CASE j \in 1 .. Len(fifo)
      BY <1>0, <1>1, <2>2, <2>8, <3>1 DEF Ordered
    <3>2. CASE fifo'[j] = c
      BY <1>1, <1>4, <2>4, <2>8, <3>2
    <3>3. QED
      BY <2>3, <3>1, <3>2
  <2>9. \A i, j \in 1 .. Len(Queued') :
           i < j /\ Queued'[i] > 0 /\ Queued'[j] > 0 => Queued'[i] < Queued'[j]
    BY <1>0, <1>1 DEF Ordered
  <2>10. Ordered'
    BY <2>5, <2>6, <2>7, <2>8, <2>9 DEF Ordered
  <2>11. QED
    BY <2>2, <2>3, <2>10
<1>7. CASE Held < FifoDepth
  <2>1. fifo' = Append(fifo, b) /\ overrun' = overrun
    BY <1>7 DEF Receive
  <2>2. /\ fifo' \in Seq(Mark .. NBytes) /\ Len(fifo') = Len(fifo) + 1
        /\ \A i \in 1 .. Len(fifo) : fifo'[i] = fifo[i]
        /\ fifo'[Len(fifo) + 1] = b
        /\ \A i \in 1 .. Len(fifo') :
              \/ i \in 1 .. Len(fifo) /\ fifo'[i] = fifo[i]
              \/ i = Len(fifo) + 1 /\ fifo'[i] = b
        /\ Ordered'
    BY <1>6, <2>1
  <2>3. Len(fifo') <= FifoDepth + 1 /\ (~Marked => Len(fifo') <= FifoDepth)
    BY <1>2, <1>5, <1>7, <2>2
  <2>4. isr = "off" => ~Marked
    BY <1>0, <1>2, <1>5, <1>7 DEF Marks, Marked
  <2>5. \A i \in 1 .. Len(fifo') : fifo'[i] = Mark => i \in 1 .. Len(fifo) /\ fifo[i] = Mark
    BY <2>2
  <2>6. Marks'
    <3>1. Len(fifo') <= FifoDepth \/ Marked'
      BY <1>2, <2>2, <2>3 DEF Marked
    <3>2. \A i, j \in 1 .. Len(fifo') : fifo'[i] = Mark /\ fifo'[j] = Mark => i = j
      BY <1>0, <2>5 DEF Marks
    <3>3. ASSUME NEW i \in 1 .. Len(fifo'), fifo'[i] = Mark
          PROVE  isr = "drain" /\ Len(fifo') <= i + 1
      BY <1>0, <1>2, <2>2, <2>4, <2>5, <3>3 DEF Marks, Marked
    <3>4. isr' = isr
      BY <1>0
    <3>5. QED
      BY <3>1, <3>2, <3>3, <3>4 DEF Marks
  <2>7. Losses'
    <3>1. overrun' # {} => \E i \in 2 .. Len(fifo') : fifo'[i] = Mark
      <4>1. SUFFICES ASSUME overrun # {} PROVE \E i \in 2 .. Len(fifo') : fifo'[i] = Mark
        BY <2>1
      <4>2. PICK m \in 2 .. Len(fifo) : fifo[m] = Mark
        BY <1>0, <4>1 DEF Losses
      <4>3. m \in 2 .. Len(fifo') /\ fifo'[m] = Mark
        BY <1>2, <2>2, <4>2
      <4>4. QED
        BY <4>3
    <3>2. ASSUME NEW g \in overrun, NEW i \in 1 .. Len(fifo'), NEW m \in 1 .. Len(fifo'),
                 fifo'[m] = Mark, i < m
          PROVE  fifo'[i] < g
      <4>1. /\ m \in 1 .. Len(fifo) /\ fifo[m] = Mark /\ i \in 1 .. Len(fifo)
            /\ fifo'[i] = fifo[i]
        <5>1. m \in 1 .. Len(fifo) /\ fifo[m] = Mark
          BY <2>5, <3>2
        <5>2. i \in 1 .. Len(fifo)
          BY <1>2, <2>2, <3>2, <5>1
        <5>3. QED
          BY <2>2, <5>1, <5>2
      <4>2. QED
        BY <1>0, <3>2, <4>1 DEF Losses
    <3>3. \A g \in overrun : g < next'
      BY <1>0, <1>2 DEF Losses, TypeOK
    <3>4. QED
      BY <1>0, <1>1, <2>1, <3>1, <3>2, <3>3 DEF Losses
  <2>8. Late'
    <3>1. ASSUME NEW g \in due, isr = "drain"
          PROVE  /\ Len(fifo') <= 2 /\ \A i \in 1 .. Len(Queued) : Queued[i] <= g
                 /\ Len(fifo') = 2 => fifo'[1] = Mark
      <4>1. Len(fifo) = 0 \/ Len(fifo) = 1 \/ Len(fifo) = 2
        <5>1. Len(fifo) <= 2
          BY <1>0, <3>1 DEF Late
        <5>2. QED
          BY <1>a, <5>1, Few
      <4>2. Len(fifo) # 2
        <5>1. SUFFICES ASSUME Len(fifo) = 2 PROVE FALSE
          OBVIOUS
        <5>2. fifo[1] = Mark /\ 1 \in 1 .. Len(fifo)
          BY <1>0, <3>1, <5>1 DEF Late
        <5>3. QED
          BY <1>0, <5>1, <5>2 DEF Marks
      <4>3. \A i \in 1 .. Len(Queued) : Queued[i] <= g
        BY <1>0, <3>1 DEF Late
      <4>4. CASE Len(fifo) = 0
        <5>1. Len(fifo') = 1
          BY <2>2, <4>4
        <5>2. QED
          BY <4>3, <5>1
      <4>5. CASE Len(fifo) = 1
        <5>1. Len(fifo') = 2 /\ fifo'[1] = fifo[1]
          BY <2>2, <4>5
        <5>2. fifo[1] = Mark
          BY <1>0, <3>1, <4>5 DEF Late
        <5>3. QED
          BY <4>3, <5>1, <5>2
      <4>6. QED
        BY <4>1, <4>2, <4>4, <4>5
    <3>2. QED
      BY <1>0, <1>1, <3>1 DEF Late
  <2>9. QED
    BY <1>0, <1>1, <2>1, <2>2, <2>3, <2>6, <2>7, <2>8 DEF TypeOK
<1>8. CASE ~(Held < FifoDepth)
  <2>1. /\ fifo' = IF Marked THEN fifo ELSE Append(fifo, Mark)
        /\ overrun' = overrun \cup ({b} \ {Echo})
    BY <1>8 DEF Receive
  <2>2. /\ overrun' \subseteq 1 .. NBytes
        /\ \A g \in overrun' : g \in overrun \/ (g = b /\ b > 0)
    BY <1>0, <1>2, <2>1 DEF TypeOK
  <2>3. due # {} => isr = "off"
    <3>1. ASSUME NEW g \in due, isr = "drain" PROVE FALSE
      <4>1. Len(fifo) <= 2
        BY <1>0, <3>1 DEF Late
      <4>2. Len(fifo) # 0
        BY <1>2, <1>5, <1>8
      <4>3. Len(fifo) = 1 \/ Len(fifo) = 2
        BY <1>a, <4>1, <4>2, Few
      <4>4. fifo[1] = Mark /\ 1 \in 1 .. Len(fifo)
        BY <1>0, <3>1, <4>3 DEF Late
      <4>5. Len(fifo) = 1 /\ Marked
        BY <1>0, <4>3, <4>4 DEF Marks, Marked
      <4>6. QED
        BY <1>5, <1>8, <4>5
    <3>2. QED
      BY <1>2, <3>1
  <2>4. \E m \in 2 .. Len(fifo') :
           /\ m = Len(fifo') /\ fifo'[m] = Mark /\ m = FifoDepth + 1
           /\ fifo' \in Seq(Mark .. NBytes) /\ Ordered'
           /\ \A i \in 1 .. Len(fifo') : i # m => i \in 1 .. Len(fifo) /\ fifo'[i] = fifo[i] /\ fifo[i] # Mark
           /\ Marked => fifo' = fifo
           /\ ~Marked => overrun = {}
    <3>1. CASE Marked
      <4>1. PICK m \in 1 .. Len(fifo) : fifo[m] = Mark
        BY <3>1 DEF Marked
      <4>2. m = Len(fifo) /\ fifo' = fifo
        BY <1>0, <2>1, <3>1, <4>1 DEF Marks
      <4>3. m = FifoDepth + 1 /\ m \in 2 .. Len(fifo)
        BY <1>0, <1>2, <1>5, <1>8, <3>1, <4>2 DEF TypeOK
      <4>4. Ordered'
        <5>1. \A i \in 1 .. Len(fifo) : fifo[i] > 0 => out < fifo[i] /\ fifo[i] < next'
          BY <1>0, <1>2, <1>3 DEF Ordered
        <5>2. /\ \A i \in 1 .. Len(Queued) : Queued[i] > 0 => out < Queued[i] /\ Queued[i] < next'
              /\ out < next'
          BY <1>0, <1>2, <1>3 DEF Ordered
        <5>3. QED
          BY <1>0, <1>1, <4>2, <5>1, <5>2 DEF Ordered
      <4>5. \A i \in 1 .. Len(fifo) : i # m => fifo[i] # Mark
        BY <1>0, <4>1 DEF Marks
      <4>6. QED
        BY <1>2, <3>1, <4>1, <4>2, <4>3, <4>4, <4>5
    <3>2. CASE ~Marked
      <4>1. fifo' = Append(fifo, Mark)
        BY <2>1, <3>2
      <4>2. /\ fifo' \in Seq(Mark .. NBytes) /\ Len(fifo') = Len(fifo) + 1
            /\ fifo'[Len(fifo) + 1] = Mark
            /\ \A i \in 1 .. Len(fifo') :
                  \/ i \in 1 .. Len(fifo) /\ fifo'[i] = fifo[i]
                  \/ i = Len(fifo) + 1 /\ fifo'[i] = Mark
            /\ Ordered'
        BY <1>6, <4>1
      <4>3. Len(fifo) = FifoDepth
        BY <1>0, <1>2, <1>5, <1>8, <3>2 DEF Marks
      <4>4. overrun = {}
        <5>1. overrun # {} => \E i \in 1 .. Len(fifo) : fifo[i] = Mark
          BY <1>0 DEF Losses
        <5>2. QED
          BY <3>2, <5>1 DEF Marked
      <4>5. \A i \in 1 .. Len(fifo) : fifo[i] # Mark
        BY <3>2 DEF Marked
      <4>6. Len(fifo) + 1 \in 2 .. Len(fifo')
        BY <1>2, <4>2, <4>3
      <4>7. QED
        BY <3>2, <4>2, <4>3, <4>4, <4>5, <4>6
    <3>3. QED
      BY <3>1, <3>2
  <2>5. PICK m \in 2 .. Len(fifo') :
           /\ m = Len(fifo') /\ fifo'[m] = Mark /\ m = FifoDepth + 1
           /\ fifo' \in Seq(Mark .. NBytes) /\ Ordered'
           /\ \A i \in 1 .. Len(fifo') : i # m => i \in 1 .. Len(fifo) /\ fifo'[i] = fifo[i] /\ fifo[i] # Mark
           /\ Marked => fifo' = fifo
           /\ ~Marked => overrun = {}
    BY <2>4
  <2>6. m \in 1 .. Len(fifo') /\ m \in Nat
    BY <2>5
  <2>7. Marks'
    <3>1. Marked'
      BY <2>5, <2>6 DEF Marked
    <3>2. \A i \in 1 .. Len(fifo') : fifo'[i] = Mark => i = m
      BY <2>5
    <3>3. isr' = "off" => ~heard'
      BY <1>0
    <3>4. QED
      BY <2>5, <2>6, <3>1, <3>2, <3>3 DEF Marks
  <2>8. Losses'
    <3>1. \A g \in overrun' : g < next' /\ out < g /\ \A i \in 1 .. Len(Queued) : Queued[i] < g
      <4>1. \A g \in overrun : g < next'
        BY <1>0, <1>2 DEF Losses, TypeOK
      <4>2. QED
        BY <1>0, <1>2, <1>4, <2>2, <4>1 DEF Losses
    <3>2. ASSUME NEW g \in overrun', NEW i \in 1 .. Len(fifo'), NEW k \in 1 .. Len(fifo'),
                 fifo'[k] = Mark, i < k
          PROVE  fifo'[i] < g
      <4>1. k = m /\ i # m
        BY <2>5, <3>2
      <4>2. i \in 1 .. Len(fifo) /\ fifo'[i] = fifo[i]
        BY <2>5, <4>1
      <4>3. CASE g \in overrun
        <5>1. fifo' = fifo
          BY <2>5, <4>3
        <5>2. QED
          BY <1>0, <3>2, <4>3, <5>1 DEF Losses
      <4>4. CASE g = b /\ b > 0
        BY <1>4, <4>2, <4>4
      <4>5. QED
        BY <2>2, <4>3, <4>4
    <3>3. QED
      BY <1>0, <1>1, <2>5, <3>1, <3>2 DEF Losses
  <2>9. Late'
    BY <1>0, <1>1, <2>3 DEF Late
  <2>10. Len(fifo') <= FifoDepth + 1
    BY <2>5
  <2>11. \A i \in 1 .. Len(fifo') :
            (i \in 1 .. Len(fifo) /\ fifo'[i] = fifo[i]) \/ fifo'[i] = b \/ fifo'[i] = Mark
    BY <2>5
  <2>12. QED
    BY <1>1, <2>2, <2>5, <2>7, <2>8, <2>9, <2>10, <2>11
<1>9. QED
  BY <1>7, <1>8

LEMMA Step == RingInv /\ [Next]_vars => RingInv'
<1> SUFFICES ASSUME RingInv, [Next]_vars PROVE RingInv'
  OBVIOUS
<1>0. TypeOK /\ Phases /\ Ordered /\ Marks /\ Losses /\ Late /\ Echoes
  BY DEF RingInv
<1>a. /\ RingSize \in Nat /\ FifoDepth \in Nat \ {0} /\ NBytes \in Nat
      /\ fifo \in Seq(Mark .. NBytes) /\ Len(fifo) \in Nat
      /\ Queued \in Seq(Mark .. NBytes) /\ Len(Queued) \in Nat
      /\ next \in 1 .. NBytes + 1 /\ out \in 0 .. NBytes
  <2>1. Queued \in Seq(Mark .. NBytes)
    BY <1>0, Places DEF TypeOK
  <2>2. QED
    BY <1>0, <2>1, LenProperties, RingAssumption DEF TypeOK
<1>b. /\ \A i \in 1 .. Len(fifo) : fifo[i] \in Mark .. NBytes
      /\ \A i \in 1 .. Len(Queued) : Queued[i] \in Mark .. NBytes
  BY <1>a, ElementOfSeq
<1>1. CASE HostByte
  <2>1. /\ next \in 1 .. NBytes /\ next' = next + 1 /\ ~heard /\ ~driving
        /\ Receive(next) /\ heard' = (isr = "drain")
        /\ UNCHANGED <<status, due, gap, rxc, nvic, driving, ring, isr, fg, byte, flushing, out, echoed>>
    BY <1>1, <1>a DEF HostByte
  <2>2. /\ Queued' = Queued /\ Ordered' /\ Marks' /\ Losses' /\ Late'
        /\ fifo' \in Seq(Mark .. NBytes) /\ Len(fifo') <= FifoDepth + 1
        /\ overrun' \subseteq 1 .. NBytes
        /\ \A i \in 1 .. Len(fifo') :
              (i \in 1 .. Len(fifo) /\ fifo'[i] = fifo[i]) \/ fifo'[i] = next \/ fifo'[i] = Mark
    <3>1. next \in 0 .. NBytes
      BY <1>a, <2>1
    <3>2. heard' <=> isr = "drain"
      BY <2>1
    <3>3. QED
      BY <1>a, <2>1, <3>1, <3>2, Arrives
  <2>3. TypeOK'
    <3>1. next' \in 1 .. NBytes + 1 /\ heard' \in BOOLEAN
      BY <1>a, <2>1
    <3>2. QED
      BY <1>0, <2>1, <2>2, <3>1 DEF TypeOK, ring
  <2>4. Phases'
    BY <1>0, <2>1 DEF Phases, ring
  <2>5. Echoes'
    BY <1>0, <2>1, <2>2 DEF Echoes
  <2>6. QED
    BY <2>2, <2>3, <2>4, <2>5 DEF RingInv
<1>2. CASE HearEcho
  <2>1. /\ driving /\ fg = "driving" /\ isr = "off" /\ ~heard /\ Receive(Echo)
        /\ UNCHANGED <<status, heard, next, due, gap, rxc, nvic, driving, ring, isr, fg, byte, flushing, out, echoed>>
    BY <1>0, <1>2 DEF HearEcho, Phases, Marks, TypeOK
  <2>2. /\ Queued' = Queued /\ Ordered' /\ Marks' /\ Losses' /\ Late'
        /\ fifo' \in Seq(Mark .. NBytes) /\ Len(fifo') <= FifoDepth + 1
        /\ overrun' \subseteq 1 .. NBytes
    BY <1>a, <2>1, Arrives
  <2>3. TypeOK'
    BY <1>0, <2>1, <2>2 DEF TypeOK, ring
  <2>4. Phases' /\ Echoes'
    BY <1>0, <2>1, <2>2 DEF Phases, Echoes, ring
  <2>5. QED
    BY <2>2, <2>3, <2>4 DEF RingInv
<1>3. CASE EnterHandler
  <2>1. /\ nvic /\ isr = "off" /\ isr' = "drain" /\ due' = {} /\ gap' = gap \cup due
        /\ lost' = (lost \/ status) /\ status' = FALSE
        /\ UNCHANGED <<fifo, heard, next, overrun, rxc, nvic, driving, buf, head, tail, fg, byte, flushing, out, echoed>>
    BY <1>3 DEF EnterHandler, Interrupt
  <2>2. Queued' = Queued /\ Ordered'
    BY <2>1, Unmoved
  <2>3. TypeOK'
    <3>1. lost' \in BOOLEAN /\ status' \in BOOLEAN
      BY <1>0, <2>1 DEF TypeOK
    <3>2. gap' \subseteq 1 .. NBytes
      BY <1>0, <2>1 DEF TypeOK
    <3>3. QED
      BY <1>0, <2>1, <3>1, <3>2 DEF TypeOK
  <2>4. Phases' /\ Echoes'
    BY <1>0, <2>1, <2>2 DEF Phases, Echoes
  <2>5. Marks'
    BY <1>0, <2>1 DEF Marks, Marked
  <2>6. Losses'
    <3>1. gap' # {} => lost'
      BY <1>0, <2>1 DEF Losses
    <3>2. QED
      BY <1>0, <2>1, <2>2, <3>1 DEF Losses
  <2>7. Late'
    BY <2>1 DEF Late
  <2>8. QED
    BY <2>2, <2>3, <2>4, <2>5, <2>6, <2>7 DEF RingInv
<1>4. CASE DrainByte
  <2>1. /\ isr = "drain" /\ fifo # <<>> /\ fifo' = Tail(fifo)
        /\ status' = (status \/ MarkSurfaces)
        /\ MarkSurfaces => due' = due \cup overrun /\ overrun' = {}
        /\ ~MarkSurfaces => UNCHANGED <<due, overrun>>
        /\ UNCHANGED <<heard, next, rxc, nvic, driving, tail, isr, fg, byte, flushing, out, echoed>>
    BY <1>4 DEF DrainByte
  <2>2. /\ fifo' \in Seq(Mark .. NBytes) /\ Len(fifo) \in Nat \ {0}
        /\ Len(fifo') = Len(fifo) - 1
        /\ \A i \in 1 .. Len(fifo') : fifo'[i] = fifo[i + 1]
        /\ Head(fifo) = fifo[1] /\ fifo[1] \in Mark .. NBytes
    BY <1>a, <2>1, FifoTake
  <2>3. Len(fifo') <= FifoDepth
    BY <1>0, <1>a, <2>2 DEF TypeOK
  <2>4. 1 \in 1 .. Len(fifo) /\ \A i \in 1 .. Len(fifo') : i + 1 \in 1 .. Len(fifo) /\ i \in Int
    BY <2>2
  <2>5. /\ Len(Queued') \in {Len(Queued), Len(Queued) + 1}
        /\ \A i \in 1 .. Len(Queued) : Queued'[i] = Queued[i]
        /\ Len(Queued') = Len(Queued) + 1 => Queued'[Len(Queued) + 1] = fifo[1]
        /\ buf' \in [Slots -> Mark .. NBytes] /\ head' \in Slots
        /\ tail # head => tail' # head' /\ buf'[tail] = buf[tail]
        /\ lost' \in BOOLEAN /\ gap' \subseteq 1 .. NBytes /\ (gap' # {} => lost')
    <3>1. CASE Full
      <4>1. lost' = TRUE /\ UNCHANGED <<buf, head>> /\ gap' = gap \cup ({fifo[1]} \ {Echo, Mark})
        BY <1>4, <2>2, <3>1 DEF DrainByte
      <4>2. Queued' = Queued
        BY <2>1, <4>1, Same
      <4>3. gap' \subseteq 1 .. NBytes
        <5>1. {fifo[1]} \ {Echo, Mark} \subseteq 1 .. NBytes
          BY <1>a, <2>2
        <5>2. QED
          BY <1>0, <4>1, <5>1 DEF TypeOK
      <4>4. QED
        BY <1>0, <1>a, <2>1, <4>1, <4>2, <4>3 DEF TypeOK
    <3>2. CASE ~Full
      <4>1. buf' = [buf EXCEPT ![head] = fifo[1]] /\ head' = Succ(head) /\ UNCHANGED <<lost, gap>>
        BY <1>4, <2>2, <3>2 DEF DrainByte
      <4>2. /\ head' \in Slots /\ head' # tail' /\ buf' \in [Slots -> Mark .. NBytes]
            /\ tail # head => buf'[tail] = buf[tail]
            /\ Len(Queued') = Len(Queued) + 1
            /\ \A i \in 1 .. Len(Queued) : Queued'[i] = Queued[i]
            /\ Queued'[Len(Queued) + 1] = fifo[1]
        BY <1>0, <2>1, <2>2, <3>2, <4>1, Put DEF TypeOK
      <4>3. QED
        BY <1>0, <4>1, <4>2 DEF TypeOK, Losses
    <3>3. QED
      BY <3>1, <3>2
  <2>6. \A i \in 1 .. Len(Queued') :
           \/ i \in 1 .. Len(Queued) /\ Queued'[i] = Queued[i]
           \/ i = Len(Queued) + 1 /\ Queued'[i] = fifo[1]
    BY <1>a, <2>5
  <2>7. TypeOK'
    <3>1. /\ status' \in BOOLEAN /\ overrun' \subseteq 1 .. NBytes /\ due' \subseteq 1 .. NBytes
      <4>1. status' \in BOOLEAN
        BY <1>0, <2>1 DEF TypeOK, MarkSurfaces
      <4>2. CASE MarkSurfaces
        BY <1>0, <2>1, <4>1, <4>2 DEF TypeOK
      <4>3. CASE ~MarkSurfaces
        BY <1>0, <2>1, <4>1, <4>3 DEF TypeOK
      <4>4. QED
        BY <4>2, <4>3
    <3>2. Len(fifo') <= FifoDepth + 1
      BY <1>a, <2>2, <2>3
    <3>3. QED
      BY <1>0, <2>1, <2>2, <2>5, <3>1, <3>2 DEF TypeOK
  <2>8. Phases'
    BY <1>0, <2>1, <2>5 DEF Phases
  <2>9. Ordered'
    <3>1. \A i \in 1 .. Len(Queued') : Queued'[i] > 0 => out' < Queued'[i] /\ Queued'[i] < next'
      BY <1>0, <2>1, <2>4, <2>6 DEF Ordered
    <3>2. /\ \A i \in 1 .. Len(fifo') : fifo'[i] > 0 => out' < fifo'[i] /\ fifo'[i] < next'
          /\ out' < next'
      BY <1>0, <2>1, <2>2, <2>4 DEF Ordered
    <3>3. ASSUME NEW i \in 1 .. Len(Queued'), NEW j \in 1 .. Len(Queued'), i < j,
                 Queued'[i] > 0, Queued'[j] > 0
          PROVE  Queued'[i] < Queued'[j]
      <4>1. i \in 1 .. Len(Queued) /\ Queued'[i] = Queued[i]
        BY <1>a, <2>5, <3>3
      <4>2. CASE j \in 1 .. Len(Queued)
        BY <1>0, <2>5, <3>3, <4>1, <4>2 DEF Ordered
      <4>3. CASE Queued'[j] = fifo[1]
        BY <1>0, <2>4, <3>3, <4>1, <4>3 DEF Ordered
      <4>4. QED
        BY <2>6, <4>2, <4>3
    <3>4. ASSUME NEW i \in 1 .. Len(fifo'), NEW j \in 1 .. Len(fifo'), i < j,
                 fifo'[i] > 0, fifo'[j] > 0
          PROVE  fifo'[i] < fifo'[j]
      <4>1. /\ i + 1 \in 1 .. Len(fifo) /\ j + 1 \in 1 .. Len(fifo) /\ i + 1 < j + 1
            /\ fifo'[i] = fifo[i + 1] /\ fifo'[j] = fifo[j + 1]
        BY <2>2, <2>4, <3>4
      <4>2. QED
        BY <1>0, <3>4, <4>1 DEF Ordered
    <3>5. ASSUME NEW i \in 1 .. Len(Queued'), NEW j \in 1 .. Len(fifo'),
                 Queued'[i] > 0, fifo'[j] > 0
          PROVE  Queued'[i] < fifo'[j]
      <4>1. j + 1 \in 1 .. Len(fifo) /\ 1 < j + 1 /\ fifo'[j] = fifo[j + 1]
        BY <2>2, <2>4
      <4>2. CASE i \in 1 .. Len(Queued)
        BY <1>0, <2>5, <3>5, <4>1, <4>2 DEF Ordered
      <4>3. CASE Queued'[i] = fifo[1]
        BY <1>0, <2>4, <3>5, <4>1, <4>3 DEF Ordered
      <4>4. QED
        BY <2>6, <4>2, <4>3
    <3>6. QED
      BY <3>1, <3>2, <3>3, <3>4, <3>5 DEF Ordered
  <2>10. Marks'
    <3>1. \A i, j \in 1 .. Len(fifo') : fifo'[i] = Mark /\ fifo'[j] = Mark => i = j
      BY <1>0, <2>2, <2>4 DEF Marks
    <3>2. ASSUME NEW i \in 1 .. Len(fifo'), fifo'[i] = Mark
          PROVE  (~heard' => Len(fifo') = i) /\ Len(fifo') <= i + 1
      <4>1. i + 1 \in 1 .. Len(fifo) /\ fifo[i + 1] = Mark /\ i \in Int
        BY <2>2, <2>4, <3>2
      <4>2. (~heard => Len(fifo) = i + 1) /\ Len(fifo) <= (i + 1) + 1
        BY <1>0, <4>1 DEF Marks
      <4>3. heard' = heard /\ Len(fifo') = Len(fifo) - 1 /\ Len(fifo) \in Nat
        BY <2>1, <2>2
      <4>4. QED
        BY <4>1, <4>2, <4>3
    <3>3. QED
      BY <2>1, <2>3, <3>1, <3>2 DEF Marks
  <2>11. Losses' /\ Late'
    <3>1. MarkSurfaces => due = {}
      <4>1. ASSUME MarkSurfaces, NEW g \in due PROVE FALSE
        <5>1. Len(fifo) = 2 /\ fifo[1] = Mark /\ 2 \in 1 .. Len(fifo) /\ fifo[2] = Mark
          BY <1>0, <2>1, <2>2, <4>1 DEF Late, MarkSurfaces
        <5>2. QED
          BY <1>0, <2>4, <5>1 DEF Marks
      <4>2. QED
        BY <4>1
    <3>2. \A g \in overrun : out < g /\ \A i \in 1 .. Len(Queued') : Queued'[i] < g
      <4>1. ASSUME NEW g \in overrun PROVE fifo[1] < g
        <5>1. PICK m \in 2 .. Len(fifo) : fifo[m] = Mark
          BY <1>0, <4>1 DEF Losses
        <5>2. m \in 1 .. Len(fifo) /\ 1 < m
          BY <2>2, <5>1
        <5>3. QED
          BY <1>0, <2>4, <4>1, <5>1, <5>2 DEF Losses
      <4>2. QED
        BY <1>0, <2>6, <4>1 DEF Losses
    <3>3. CASE MarkSurfaces
      <4>1. due' = overrun /\ overrun' = {} /\ status'
        BY <2>1, <3>1, <3>3
      <4>2. 1 \in 1 .. Len(fifo') /\ fifo'[1] = Mark /\ Len(fifo') <= 2 /\ (~heard => Len(fifo') = 1)
        <5>1. 2 \in 1 .. Len(fifo) /\ fifo[2] = Mark
          BY <2>2, <3>3 DEF MarkSurfaces
        <5>2. QED
          BY <1>0, <2>2, <5>1 DEF Marks
      <4>3. \A g \in due', i \in 1 .. Len(Queued') : g \in Int /\ Queued'[i] \in Int /\ Queued'[i] < g
        BY <1>0, <1>b, <2>2, <2>6, <3>2, <4>1 DEF TypeOK
      <4>4. Losses'
        BY <2>5, <4>1 DEF Losses
      <4>5. Late'
        BY <2>1, <3>2, <4>1, <4>2, <4>3 DEF Late
      <4>6. QED
        BY <4>4, <4>5
    <3>4. CASE ~MarkSurfaces
      <4>1. UNCHANGED <<due, overrun>> /\ status' = status
        BY <1>0, <2>1, <3>4 DEF TypeOK
      <4>2. Losses'
        <5>1. ASSUME overrun # {} PROVE \E i \in 2 .. Len(fifo') : fifo'[i] = Mark
          <6>1. PICK m \in 2 .. Len(fifo) : fifo[m] = Mark
            BY <1>0, <5>1 DEF Losses
          <6>2. m # 2
            BY <2>2, <3>4, <6>1 DEF MarkSurfaces
          <6>3. m - 1 \in 2 .. Len(fifo') /\ m - 1 \in 1 .. Len(fifo') /\ (m - 1) + 1 = m
            BY <2>2, <6>1, <6>2
          <6>4. fifo'[m - 1] = Mark
            BY <2>2, <6>1, <6>3
          <6>5. QED
            BY <6>3, <6>4
        <5>2. ASSUME NEW g \in overrun, NEW i \in 1 .. Len(fifo'), NEW m \in 1 .. Len(fifo'),
                     fifo'[m] = Mark, i < m
              PROVE  fifo'[i] < g
          <6>1. /\ i + 1 \in 1 .. Len(fifo) /\ m + 1 \in 1 .. Len(fifo) /\ i + 1 < m + 1
                /\ fifo'[i] = fifo[i + 1] /\ fifo[m + 1] = Mark
            BY <2>2, <2>4, <5>2
          <6>2. QED
            BY <1>0, <5>2, <6>1 DEF Losses
        <5>3. due # {} => status
          BY <1>0 DEF Losses
        <5>4. \A g \in overrun : g < next
          BY <1>0 DEF Losses
        <5>5. QED
          BY <2>1, <2>5, <3>2, <4>1, <5>1, <5>2, <5>3, <5>4 DEF Losses
      <4>3. ASSUME NEW g \in due
            PROVE  /\ \A i, j \in 1 .. Len(Queued') : Queued'[i] > g /\ Queued'[j] > g => i = j
                   /\ out' < g /\ Len(fifo') <= 2
                   /\ fifo' # <<>> \/ ~heard' => \A i \in 1 .. Len(Queued') : Queued'[i] <= g
                   /\ Len(fifo') # 2 /\ (Len(fifo') = 1 => heard')
        <5>1. /\ out < g /\ Len(fifo) \in {1, 2} /\ \A i \in 1 .. Len(Queued) : Queued[i] <= g
              /\ Len(fifo) = 2 \/ ~heard => fifo[1] = Mark
              /\ g \in 1 .. NBytes
          BY <1>0, <2>1, <2>2, <4>3 DEF Late, TypeOK
        <5>2. Len(fifo) = 2 => heard
          BY <1>0, <2>2, <2>4, <5>1 DEF Marks
        <5>3. \A i, j \in 1 .. Len(Queued') : Queued'[i] > g /\ Queued'[j] > g => i = j
          <6>1. \A i \in 1 .. Len(Queued') : Queued'[i] > g => i = Len(Queued) + 1
            BY <1>b, <2>6, <5>1
          <6>2. QED
            BY <6>1
        <5>4. /\ Len(fifo') <= 2 /\ Len(fifo') # 2 /\ Len(fifo') \in {0, 1}
              /\ Len(fifo') = 1 => Len(fifo) = 2
          BY <2>2, <5>1
        <5>5. fifo' # <<>> => Len(fifo') = 1
          <6>1. fifo' # <<>> => Len(fifo') # 0
            BY <2>2, EmptySeq
          <6>2. QED
            BY <5>4, <6>1
        <5>6. fifo[1] = Mark => \A i \in 1 .. Len(Queued') : Queued'[i] <= g
          BY <2>6, <5>1
        <5>7. fifo' # <<>> \/ ~heard' => fifo[1] = Mark
          BY <2>1, <5>1, <5>4, <5>5
        <5>8. out' < g /\ Len(fifo') <= 2 /\ Len(fifo') # 2 /\ (Len(fifo') = 1 => heard')
          <6>1. out' = out /\ heard' = heard
            BY <2>1
          <6>2. out' < g
            BY <5>1, <6>1
          <6>3. Len(fifo') <= 2 /\ Len(fifo') # 2
            BY <5>4
          <6>4. Len(fifo') = 1 => heard'
            BY <5>2, <5>4, <6>1
          <6>5. QED
            BY <6>2, <6>3, <6>4
        <5>9. QED
          BY <5>3, <5>6, <5>7, <5>8
      <4>4. Late'
        <5>1. \A g \in due' : out' > g => \A i \in 1 .. Len(Queued') : Queued'[i] <= g
          BY <1>0, <2>1, <4>1, <4>3 DEF TypeOK
        <5>2. QED
          BY <2>1, <4>1, <4>3, <5>1 DEF Late
      <4>5. QED
        BY <4>2, <4>4
    <3>5. QED
      BY <3>3, <3>4
  <2>12. Echoes'
    BY <1>0, <2>1, <2>2, <2>4, <2>6 DEF Echoes
  <2>13. QED
    BY <2>7, <2>8, <2>9, <2>10, <2>11, <2>12 DEF RingInv
<1>5. CASE LeaveHandler
  <2>1. /\ Queued' = Queued /\ Ordered' /\ isr' = "off" /\ heard' = FALSE
        /\ fifo = <<>> /\ isr = "drain"
        /\ UNCHANGED <<fifo, status, next, overrun, due, gap, rxc, nvic, driving, ring, fg, byte, flushing, out, echoed>>
    BY <1>5, Unmoved DEF LeaveHandler, ring
  <2>2. TypeOK'
    <3>1. heard' \in BOOLEAN
      BY <2>1
    <3>2. QED
      BY <1>0, <2>1, <3>1 DEF TypeOK, ring
  <2>3. Phases' /\ Losses' /\ Echoes'
    BY <1>0, <2>1 DEF Phases, Losses, Echoes, ring
  <2>4. Marks'
    <3>1. Len(fifo') = 0 /\ ~heard'
      BY <2>1
    <3>2. QED
      BY <1>a, <3>1 DEF Marks
  <2>5. Late'
    BY <1>0, <2>1 DEF Late, ring
  <2>6. QED
    BY <2>1, <2>2, <2>3, <2>4, <2>5 DEF RingInv
<1>6. CASE TryReadByte
  <2>1. /\ Queued' = Queued /\ Ordered' /\ Marks' /\ Losses' /\ Late' /\ isr = "off" /\ fg = "idle"
        /\ UNCHANGED <<wire, rxc, nvic, driving, ring, isr, byte, out, echoed>>
    BY <1>6, Kept DEF TryReadByte, At, ring, wire
  <2>2. \/ tail # head /\ fg' = "read" /\ flushing' = flushing
        \/ tail = head /\ fg' = "idle" /\ flushing' = FALSE
    BY <1>6, <2>1 DEF TryReadByte
  <2>3. TypeOK'
    <3>1. flushing' \in BOOLEAN
      BY <1>0, <2>2 DEF TypeOK
    <3>2. QED
      BY <1>0, <2>1, <2>2, <3>1 DEF TypeOK, ring, wire
  <2>4. Phases'
    BY <1>0, <2>1, <2>2 DEF Phases, ring, wire
  <2>6. Echoes'
    <3>1. ASSUME NEW i \in 1 .. Len(fifo) PROVE fifo[i] # Echo
      BY <1>0, <2>1 DEF Echoes
    <3>2. ASSUME NEW i \in 1 .. Len(Queued), Queued[i] = Echo PROVE flushing'
      <4>1. flushing
        BY <1>0, <2>1, <3>2 DEF Echoes
      <4>2. CASE tail = head
        <5>1. Len(Queued) = 0
          BY <1>0, <4>2, Places, Depths DEF TypeOK, Slots
        <5>2. QED
          BY <5>1
      <4>3. QED
        BY <2>2, <4>1, <4>2
    <3>3. QED
      BY <1>0, <2>1, <3>1, <3>2 DEF Echoes, wire
  <2>7. QED
    BY <2>1, <2>3, <2>4, <2>6 DEF RingInv
<1>7. CASE ReadSlot
  <2>1. /\ Queued' = Queued /\ Ordered' /\ Marks' /\ Losses' /\ Late' /\ fg = "read" /\ fg' = "store" /\ byte' = buf[tail]
        /\ UNCHANGED <<wire, rxc, nvic, driving, ring, isr, flushing, out, echoed>>
    BY <1>7, Kept DEF ReadSlot, At, ring, wire
  <2>2. TypeOK'
    BY <1>0, <2>1 DEF TypeOK, ring, wire
  <2>3. Phases' /\ Echoes'
    BY <1>0, <2>1 DEF Phases, Echoes, ring, wire
  <2>4. QED
    BY <2>1, <2>2, <2>3 DEF RingInv
<1>8. CASE StoreTail
  <2>1. /\ isr = "off" /\ fg = "store" /\ fg' = "idle" /\ tail' = Succ(tail)
        /\ UNCHANGED <<wire, rxc, nvic, driving, buf, head, lost, isr, byte, flushing>>
        /\ byte = buf[tail] /\ tail # head
    BY <1>0, <1>8 DEF StoreTail, At, Phases
  <2>2. /\ tail' \in Slots
        /\ Len(Queued) \in Nat \ {0} /\ Queued[1] = byte
        /\ Len(Queued') = Len(Queued) - 1
        /\ \A i \in 1 .. Len(Queued') : Queued'[i] = Queued[i + 1]
    BY <1>0, <2>1, Take DEF TypeOK
  <2>3. /\ \A i \in 1 .. Len(Queued') : i + 1 \in 1 .. Len(Queued) /\ i \in Int /\ 1 < i + 1
        /\ 1 \in 1 .. Len(Queued)
    BY <2>2
  <2>4. out' = (IF byte > 0 THEN byte ELSE out) /\ out' \in 0 .. NBytes
    BY <1>0, <1>a, <1>8 DEF StoreTail, TypeOK
  <2>5. ~echoed'
    <3>1. byte = Echo => flushing
      BY <1>0, <2>1, <2>2, <2>3 DEF Echoes
    <3>2. echoed' <=> (echoed \/ (byte = Echo /\ ~flushing))
      BY <1>8 DEF StoreTail
    <3>3. QED
      BY <1>0, <3>1, <3>2 DEF Echoes
  <2>6. TypeOK'
    <3>1. echoed' \in BOOLEAN
      BY <1>8 DEF StoreTail
    <3>2. QED
      BY <1>0, <2>1, <2>2, <2>4, <3>1 DEF TypeOK, wire
  <2>7. Phases'
    BY <1>0, <2>1 DEF Phases, wire
  <2>8. Ordered'
    <3>1. byte \in Mark .. NBytes /\ (byte > 0 => out < byte /\ byte < next)
      BY <1>0, <1>a, <1>b, <2>2, <2>3 DEF Ordered, TypeOK
    <3>2. /\ \A i \in 1 .. Len(Queued') : Queued'[i] > 0 => out' < Queued'[i] /\ Queued'[i] < next
          /\ \A j \in 1 .. Len(fifo) : fifo[j] > 0 => out' < fifo[j] /\ fifo[j] < next
      BY <1>0, <1>a, <1>b, <2>2, <2>3, <2>4, <3>1 DEF Ordered
    <3>3. out' < next
      BY <1>0, <2>4, <3>1 DEF Ordered
    <3>4. ASSUME NEW i \in 1 .. Len(Queued'), NEW j \in 1 .. Len(Queued'), i < j,
                 Queued'[i] > 0, Queued'[j] > 0
          PROVE  Queued'[i] < Queued'[j]
      <4>1. /\ i + 1 \in 1 .. Len(Queued) /\ j + 1 \in 1 .. Len(Queued) /\ i + 1 < j + 1
            /\ Queued'[i] = Queued[i + 1] /\ Queued'[j] = Queued[j + 1]
        BY <2>2, <2>3, <3>4
      <4>2. QED
        BY <1>0, <3>4, <4>1 DEF Ordered
    <3>5. QED
      BY <1>0, <2>1, <2>2, <2>3, <3>2, <3>3, <3>4 DEF Ordered, wire
  <2>9. Marks' /\ Losses' /\ Late'
    <3>1. UNCHANGED <<fifo, status, heard, next, overrun, due, gap, lost, isr>>
      BY <2>1 DEF wire
    <3>2. Marks'
      BY <1>0, <3>1 DEF Marks, Marked
    <3>3. \A g \in overrun : out' < g
      BY <1>0, <2>2, <2>3, <2>4 DEF Losses
    <3>4. Losses'
      BY <1>0, <2>2, <2>3, <3>1, <3>3 DEF Losses
    <3>5. ASSUME NEW g \in due
          PROVE  /\ \A i, j \in 1 .. Len(Queued') : Queued'[i] > g /\ Queued'[j] > g => i = j
                 /\ out' > g => \A i \in 1 .. Len(Queued') : Queued'[i] <= g
      <4>1. /\ \A i, j \in 1 .. Len(Queued) : Queued[i] > g /\ Queued[j] > g => i = j
            /\ out > g => \A i \in 1 .. Len(Queued) : Queued[i] <= g
            /\ g \in Int /\ byte \in Int
        BY <1>0, <3>5 DEF Late, TypeOK
      <4>2. \A i, j \in 1 .. Len(Queued') : Queued'[i] > g /\ Queued'[j] > g => i = j
        BY <2>2, <2>3, <4>1
      <4>3. ASSUME out' > g, NEW i \in 1 .. Len(Queued') PROVE Queued'[i] <= g
        <5>1. i + 1 \in 1 .. Len(Queued) /\ 1 < i + 1 /\ Queued'[i] = Queued[i + 1] /\ Queued[i + 1] \in Int
          BY <1>b, <2>2, <2>3
        <5>2. CASE byte > 0
          <6>1. Queued[1] > g /\ 1 \in 1 .. Len(Queued)
            BY <2>2, <2>3, <2>4, <4>3, <5>2
          <6>2. ~(Queued[i + 1] > g)
            BY <4>1, <5>1, <6>1
          <6>3. QED
            BY <4>1, <5>1, <6>2
        <5>3. CASE ~(byte > 0)
          BY <2>4, <4>1, <4>3, <5>1, <5>3
        <5>4. QED
          BY <5>2, <5>3
      <4>4. QED
        BY <4>2, <4>3
    <3>6. Late'
      BY <2>1, <3>1, <3>5 DEF Late
    <3>7. QED
      BY <3>2, <3>4, <3>6
  <2>10. Echoes'
    BY <1>0, <2>1, <2>2, <2>3, <2>5 DEF Echoes, wire
  <2>11. QED
    BY <2>6, <2>7, <2>8, <2>9, <2>10 DEF RingInv
<1>9. CASE TakeRxError
  <2>1. /\ Queued' = Queued /\ Ordered'
        /\ UNCHANGED <<fifo, status, heard, next, overrun, due, rxc, nvic, driving, buf, head, tail, isr, fg, byte, flushing, out, echoed>>
    BY <1>9, Unmoved DEF TakeRxError
  <2>2. lost' = FALSE /\ gap' = {}
    BY <1>0, <1>9 DEF TakeRxError, Losses
  <2>3. TypeOK'
    <3>1. lost' \in BOOLEAN
      BY <2>2
    <3>2. QED
      BY <1>0, <2>1, <2>2, <3>1 DEF TypeOK
  <2>4. Phases' /\ Echoes'
    BY <1>0, <2>1 DEF Phases, Echoes
  <2>5. Losses'
    BY <1>0, <2>1, <2>2 DEF Losses
  <2>6. Marks' /\ Late'
    BY <1>0, <2>1 DEF Marks, Marked, Late
  <2>7. QED
    BY <2>1, <2>3, <2>4, <2>5, <2>6 DEF RingInv
<1>10. CASE WriteAll
  <2>1. /\ Queued' = Queued /\ Ordered' /\ Marks' /\ Losses' /\ Late' /\ isr = "off" /\ fg' = "driving" /\ ~flushing
        /\ nvic' = FALSE /\ driving' = TRUE
        /\ UNCHANGED <<wire, rxc, ring, isr, byte, flushing, out, echoed>>
        /\ fg = "idle"
    BY <1>10, Kept DEF WriteAll, At, ring, wire
  <2>2. TypeOK'
    <3>1. nvic' \in BOOLEAN /\ driving' \in BOOLEAN
      BY <2>1
    <3>2. QED
      BY <1>0, <2>1, <3>1 DEF TypeOK, ring, wire
  <2>3. Phases'
    <3>1. ~nvic' /\ driving'
      BY <2>1
    <3>2. QED
      BY <1>0, <2>1, <3>1 DEF Phases, ring, wire
  <2>4. Echoes'
    BY <1>0, <2>1 DEF Echoes, ring, wire
  <2>5. QED
    BY <2>1, <2>2, <2>3, <2>4 DEF RingInv
<1>11. CASE Release
  <2>1. /\ Queued' = Queued /\ Ordered' /\ Marks' /\ Losses' /\ Late' /\ isr = "off" /\ fg = "driving" /\ fg' = "unmasked"
        /\ nvic' = TRUE /\ driving' = FALSE
        /\ UNCHANGED <<wire, rxc, ring, isr, byte, flushing, out, echoed>>
    BY <1>11, Kept DEF Release, BurstEnds, At, ring, wire
  <2>2. TypeOK'
    <3>1. nvic' \in BOOLEAN /\ driving' \in BOOLEAN
      BY <2>1
    <3>2. QED
      BY <1>0, <2>1, <3>1 DEF TypeOK, ring, wire
  <2>3. Phases'
    <3>1. nvic' /\ ~driving'
      BY <2>1
    <3>2. QED
      BY <1>0, <2>1, <3>1 DEF Phases, ring, wire
  <2>4. Echoes'
    BY <1>0, <2>1 DEF Echoes, ring, wire
  <2>5. QED
    BY <2>1, <2>2, <2>3, <2>4 DEF RingInv
<1>12. CASE FlushRx
  <2>1. /\ Queued' = Queued /\ Ordered' /\ Marks' /\ Losses' /\ Late' /\ isr = "off" /\ fg = "unmasked" /\ fg' = "idle"
        /\ flushing' = TRUE
        /\ UNCHANGED <<wire, rxc, nvic, driving, ring, isr, byte, out, echoed>>
    BY <1>12, Kept DEF FlushRx, At, ring, wire
  <2>2. Len(fifo) = 0
    <3>1. fifo = <<>>
      BY <1>0, <1>12, <2>1 DEF FlushRx, Phases
    <3>2. QED
      BY <3>1
  <2>3. flushing' /\ flushing' \in BOOLEAN
    BY <2>1
  <2>4. TypeOK'
    BY <1>0, <2>1, <2>3 DEF TypeOK, ring, wire
  <2>5. Phases'
    BY <1>0, <2>1, <2>3 DEF Phases, ring, wire
  <2>7. Echoes'
    BY <1>0, <2>1, <2>2, <2>3 DEF Echoes, wire
  <2>8. QED
    BY <2>1, <2>4, <2>5, <2>7 DEF RingInv
<1>13. CASE Quiesce
  <2>1. /\ Queued' = Queued /\ Ordered' /\ Marks' /\ Losses' /\ Late' /\ isr = "off" /\ fg = "idle" /\ fg' = "quiet" /\ ~flushing
        /\ nvic' = FALSE /\ rxc' = FALSE
        /\ UNCHANGED <<wire, driving, ring, isr, byte, flushing, out, echoed>>
    BY <1>13, Kept DEF Quiesce, At, ring, wire
  <2>2. TypeOK'
    <3>1. nvic' \in BOOLEAN /\ rxc' \in BOOLEAN
      BY <2>1
    <3>2. QED
      BY <1>0, <2>1, <3>1 DEF TypeOK, ring, wire
  <2>3. Phases'
    <3>1. ~nvic' /\ ~rxc'
      BY <2>1
    <3>2. QED
      BY <1>0, <2>1, <3>1 DEF Phases, ring, wire
  <2>4. Echoes'
    BY <1>0, <2>1 DEF Echoes, ring, wire
  <2>5. QED
    BY <2>1, <2>2, <2>3, <2>4 DEF RingInv
<1>14. CASE Arm
  <2>1. /\ Queued' = Queued /\ Ordered' /\ Marks' /\ Losses' /\ Late' /\ isr = "off" /\ fg = "quiet" /\ fg' = "idle"
        /\ nvic' = TRUE /\ rxc' = TRUE
        /\ UNCHANGED <<wire, driving, ring, isr, byte, flushing, out, echoed>>
    BY <1>14, Kept DEF Arm, At, ring, wire
  <2>2. TypeOK'
    <3>1. nvic' \in BOOLEAN /\ rxc' \in BOOLEAN
      BY <2>1
    <3>2. QED
      BY <1>0, <2>1, <3>1 DEF TypeOK, ring, wire
  <2>3. Phases'
    <3>1. nvic' /\ rxc'
      BY <2>1
    <3>2. QED
      BY <1>0, <2>1, <3>1 DEF Phases, ring, wire
  <2>4. Echoes'
    BY <1>0, <2>1 DEF Echoes, ring, wire
  <2>5. QED
    BY <2>1, <2>2, <2>3, <2>4 DEF RingInv
<1>15. CASE UNCHANGED vars
  <2>1. Queued' = Queued /\ Ordered' /\ Marks' /\ Losses' /\ Late' /\ UNCHANGED vars
    BY <1>15, Kept DEF vars, ring, wire
  <2>2. TypeOK' /\ Phases'
    BY <1>0, <2>1 DEF TypeOK, Phases, vars, ring, wire
  <2>3. Echoes'
    BY <1>0, <2>1 DEF Echoes, vars, ring, wire
  <2>4. QED
    BY <2>1, <2>2, <2>3 DEF RingInv
<1>16. QED
  BY <1>1, <1>2, <1>3, <1>4, <1>5, <1>6, <1>7, <1>8, <1>9, <1>10, <1>11, <1>12, <1>13, <1>14, <1>15
  DEF Next, Handler, Foreground

LEMMA Invariant == Spec => []RingInv
BY Begins, Step, PTL DEF Spec

-----------------------------------------------------------------------------

\* Every variable has its type; the indices never leave the ring.
THEOREM RingTypeCorrect == Spec => []TypeOK
<1>1. RingInv => TypeOK
  BY DEF RingInv
<1>2. QED
  BY <1>1, Invariant, PTL

\* What try_read_byte returns is what the host sent, in order and none twice,
\* wherever the handler comes in between the two indices and the slot.
THEOREM BytesInOrder == Spec => []InOrder
<1>1. RingInv => InOrder
  <2> SUFFICES ASSUME RingInv PROVE InOrder
    OBVIOUS
  <2>0. TypeOK /\ Phases /\ Ordered
    BY DEF RingInv
  <2> DEFINE all == Queued \o fifo
  <2>1. Queued \in Seq(Mark .. NBytes) /\ fifo \in Seq(Mark .. NBytes)
    BY <2>0, Places DEF TypeOK
  <2>2. /\ Len(Queued) \in Nat /\ Len(fifo) \in Nat /\ Len(all) = Len(Queued) + Len(fifo)
        /\ \A i \in 1 .. Len(all) :
              all[i] = IF i <= Len(Queued) THEN Queued[i] ELSE fifo[i - Len(Queued)]
    BY <2>1, LenProperties, ConcatProperties
  <2> HIDE DEF all
  <2>3. \A i \in 1 .. Len(all) :
           \/ i \in 1 .. Len(Queued) /\ all[i] = Queued[i]
           \/ i - Len(Queued) \in 1 .. Len(fifo) /\ all[i] = fifo[i - Len(Queued)]
    BY <2>2
  <2>4. \A i \in 1 .. Len(all) : all[i] > 0 => out < all[i]
    BY <2>0, <2>3 DEF Ordered
  <2>5. ASSUME NEW i \in 1 .. Len(all), NEW j \in 1 .. Len(all), i < j,
               all[i] > 0, all[j] > 0
        PROVE  all[i] < all[j]
    <3>1. CASE i \in 1 .. Len(Queued) /\ j \in 1 .. Len(Queued)
      BY <2>0, <2>2, <2>5, <3>1 DEF Ordered
    <3>2. CASE i \in 1 .. Len(Queued) /\ j - Len(Queued) \in 1 .. Len(fifo)
      BY <2>0, <2>2, <2>5, <3>2 DEF Ordered
    <3>3. CASE i - Len(Queued) \in 1 .. Len(fifo)
      <4>1. j - Len(Queued) \in 1 .. Len(fifo) /\ i - Len(Queued) < j - Len(Queued)
        BY <2>2, <2>5, <3>3
      <4>2. all[i] = fifo[i - Len(Queued)] /\ all[j] = fifo[j - Len(Queued)]
        BY <2>2, <3>3, <4>1
      <4>3. QED
        BY <2>0, <2>5, <3>3, <4>1, <4>2 DEF Ordered
    <3>4. QED
      BY <2>3, <3>1, <3>2, <3>3
  <2>6. At("store") => byte = buf[tail]
    BY <2>0 DEF At, Phases
  <2>7. QED
    BY <2>4, <2>5, <2>6 DEF InOrder, all
<1>2. QED
  BY <1>1, Invariant, PTL

\* take_rx_error is told of a loss before a byte from behind it is on offer,
\* whether the ring was full or the FIFO ran over: of a loss it cannot know of
\* yet, one byte from behind at most has been handed on.
THEOREM NoGapIsSilent == Spec => []NoSilentGap
<1>1. RingInv => NoSilentGap
  <2> SUFFICES ASSUME RingInv PROVE NoSilentGap
    OBVIOUS
  <2>1. TypeOK /\ Losses /\ Late
    BY DEF RingInv
  <2>2. \A i \in 1 .. Len(Queued) : Queued[i] \in Int
    <3>1. Queued \in Seq(Mark .. NBytes)
      BY <2>1, Places DEF TypeOK
    <3>2. \A i \in 1 .. Len(Queued) : Queued[i] \in Mark .. NBytes
      BY <3>1, ElementOfSeq
    <3>3. QED
      BY <3>2
  <2>3. \A g \in gap : (\E i \in 1 .. Len(Queued) : Queued[i] > g) => lost
    BY <2>1 DEF Losses
  <2>4. ASSUME NEW g \in overrun \cup due,
               NEW a \in {out} \cup {Queued[i] : i \in 1 .. Len(Queued)}, a > g,
               NEW b \in {out} \cup {Queued[i] : i \in 1 .. Len(Queued)}, b > g
        PROVE  a = b
    <3>1. g \in Int /\ out \in Int
      BY <2>1 DEF TypeOK
    <3>2. CASE g \in overrun
      BY <2>1, <2>2, <2>4, <3>1, <3>2 DEF Losses
    <3>3. CASE g \in due
      BY <2>1, <2>2, <2>4, <3>1, <3>3 DEF Late
    <3>4. QED
      BY <3>2, <3>3
  <2>5. QED
    BY <2>3, <2>4 DEF NoSilentGap
<1>2. QED
  BY <1>1, Invariant, PTL

\* Nothing that this node heard of its own burst is handed to a caller.
THEOREM EchoIsNeverRead == Spec => []EchoNeverRead
<1>1. RingInv => EchoNeverRead
  BY DEF RingInv, Echoes, EchoNeverRead
<1>2. QED
  BY <1>1, Invariant, PTL

=============================================================================
