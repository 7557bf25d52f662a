------------------------------- MODULE RxRing -------------------------------
(***************************************************************************)
(* The interrupt-fed receive path of the rig's RS485 link                  *)
(* (src/examples/update-rig/demo-serial/src/lib.rs): the SERCOM's FIFO, the *)
(* SERCOM5_2 handler that empties it into a ring, and the foreground that  *)
(* reads the ring, drives the bus and silences the link around a boot.     *)
(*                                                                         *)
(* One core: the handler interrupts the foreground between any two of its  *)
(* steps and is interrupted by nothing, but the wire goes on under it: at  *)
(* 115200 baud a byte takes 87 us, the handler a few, so that one byte at  *)
(* most arrives while it runs.                                             *)
(* Bytes from the host are numbered in the order they were sent; an echo   *)
(* is a byte this node hears of its own burst.                             *)
(*                                                                         *)
(* CTRLA.IBON stays 0, so an overflow is told in its place in the stream:  *)
(* when the bytes before it have been read STATUS.BUFOVF is set, and DATA  *)
(* gives a zero of its own. The build has no parity, and framing errors    *)
(* (noise on the line) are left out: they set the same flag and keep their *)
(* byte.                                                                   *)
(***************************************************************************)
EXTENDS Integers, Sequences

CONSTANTS
    RingSize,      \* RX_RING: 8192 in the build
    FifoDepth,     \* the SERCOM's receive FIFO: two bytes
    NBytes         \* bytes the host sends in a behaviour (bound)

ASSUME RingAssumption ==
    /\ RingSize \in Nat /\ RingSize > 1
    /\ FifoDepth \in Nat \ {0}
    /\ NBytes \in Nat

VARIABLES
    (* the peripheral *)
    fifo,          \* what DATA is still to give, the mark of an overflow included
    status,        \* STATUS.BUFOVF is set
    rxc,           \* INTENSET.RXC
    nvic,          \* SERCOM5_2 is unmasked
    driving,       \* TE is high: this node drives the pair
    heard,         \* a byte has arrived while the handler runs
    (* shared by the handler and the foreground *)
    buf, head, tail, lost,
    (* the two contexts *)
    isr,           \* "off", or where the handler is
    fg,            \* where the foreground is
    byte,          \* what try_read_byte read
    flushing,      \* the reads belong to flush_rx
    (* history *)
    next,          \* the host's next byte
    out,           \* the last of the host's bytes the foreground had or flushed
    overrun,       \* the host's bytes lost at the FIFO, the mark not yet come to
    due,           \* the mark come to, the handler not yet told
    gap,           \* the handler told, or the ring full; the foreground not yet told
    echoed         \* the foreground was handed an echo

wire == <<fifo, status, heard, next, overrun, due, gap>>
ring == <<buf, head, tail, lost>>
vars == <<wire, rxc, nvic, driving, ring, isr, fg, byte, flushing, out, echoed>>

Echo  == 0
Mark  == -1        \* of an overflow; DATA gives a zero for it
Slots == 0 .. RingSize - 1

\* Mutant of Succ: the index does not wrap.
SuccUnwrapped(i) == i + 1

Succ(i) == (i + 1) % RingSize

\* The bytes the consumer has still to come to, in order.
Queued == [i \in 1 .. (head - tail + RingSize) % RingSize |-> buf[(tail + i - 1) % RingSize]]

-----------------------------------------------------------------------------
(* The wire. *)

Marked == \E i \in 1 .. Len(fifo) : fifo[i] = Mark

\* The bytes in the FIFO; the mark takes no place.
Held == Len(fifo) - (IF Marked THEN 1 ELSE 0)

\* A byte reaches the FIFO, or finds it full and leaves a mark behind its bytes.
Receive(b) ==
    IF Held < FifoDepth
    THEN fifo' = Append(fifo, b) /\ UNCHANGED overrun
    ELSE /\ fifo' = IF Marked THEN fifo ELSE Append(fifo, Mark)
         /\ overrun' = overrun \cup ({b} \ {Echo})

\* The host sends, which it does only while this node does not.
HostByte ==
    /\ ~driving /\ ~heard /\ next <= NBytes
    /\ Receive(next)
    /\ next' = next + 1 /\ heard' = (isr = "drain")
    /\ UNCHANGED <<status, due, gap, rxc, nvic, driving, ring, isr, fg, byte, flushing, out, echoed>>

-----------------------------------------------------------------------------
(* SERCOM5_2. *)

\* Mutant of Interrupt: a receive error is acknowledged and not latched.
InterruptUnlatched ==
    /\ isr = "off" /\ nvic /\ rxc /\ fifo # <<>>
    /\ isr' = "drain"
    /\ status' = FALSE /\ UNCHANGED lost

Interrupt ==
    /\ isr = "off" /\ nvic /\ rxc /\ fifo # <<>>
    /\ isr' = "drain"
    /\ lost' = (lost \/ status)
    /\ status' = FALSE

EnterHandler ==
    /\ Interrupt
    /\ gap' = gap \cup due /\ due' = {}
    /\ UNCHANGED <<fifo, heard, next, overrun, rxc, nvic, driving, buf, head, tail, fg, byte, flushing, out, echoed>>

\* Mutant of Full: the handler does not look where TAIL is.
NeverFull == FALSE

Full == Succ(head) = tail

\* The read that brings the mark to the front sets STATUS, which this run of
\* the handler has looked at; the mark's zero goes into the ring with the rest.
MarkSurfaces == Len(fifo) > 1 /\ fifo[2] = Mark

DrainByte ==
    /\ isr = "drain" /\ fifo # <<>>
    /\ fifo' = Tail(fifo)
    /\ status' = (status \/ MarkSurfaces)
    /\ IF MarkSurfaces THEN due' = due \cup overrun /\ overrun' = {} ELSE UNCHANGED <<due, overrun>>
    /\ IF Full
       THEN /\ lost' = TRUE /\ UNCHANGED <<buf, head>>
            /\ gap' = gap \cup ({Head(fifo)} \ {Echo, Mark})
       ELSE /\ buf' = [buf EXCEPT ![head] = Head(fifo)] /\ head' = Succ(head)
            /\ UNCHANGED <<lost, gap>>
    /\ UNCHANGED <<heard, next, rxc, nvic, driving, tail, isr, fg, byte, flushing, out, echoed>>

LeaveHandler ==
    /\ isr = "drain" /\ fifo = <<>>
    /\ isr' = "off" /\ heard' = FALSE
    /\ UNCHANGED <<fifo, status, next, overrun, due, gap, rxc, nvic, driving, ring, fg, byte, flushing, out, echoed>>

-----------------------------------------------------------------------------
(* The foreground: one call at a time, each step between two interrupts. *)

At(phase) == isr = "off" /\ fg = phase

\* try_read_byte, first part: the indices.
TryReadByte ==
    /\ At("idle")
    /\ IF tail # head THEN fg' = "read" /\ UNCHANGED flushing
       ELSE flushing' = FALSE /\ UNCHANGED fg
    /\ UNCHANGED <<wire, rxc, nvic, driving, ring, isr, byte, out, echoed>>

ReadSlot ==
    /\ At("read") /\ byte' = buf[tail] /\ fg' = "store"
    /\ UNCHANGED <<wire, rxc, nvic, driving, ring, isr, flushing, out, echoed>>

\* The slot is given back, and the byte is the caller's unless it is flushed.
StoreTail ==
    /\ At("store") /\ tail' = Succ(tail) /\ fg' = "idle"
    /\ out' = IF byte > 0 THEN byte ELSE out
    /\ echoed' = (echoed \/ (byte = Echo /\ ~flushing))
    /\ UNCHANGED <<wire, rxc, nvic, driving, buf, head, lost, isr, byte, flushing>>

TakeRxError ==
    /\ At("idle") /\ ~flushing
    /\ lost' = FALSE
    /\ gap' = IF lost THEN {} ELSE gap
    /\ UNCHANGED <<fifo, status, heard, next, overrun, due, rxc, nvic, driving, buf, head, tail, isr, fg, byte, flushing, out, echoed>>

\* send: write_all masks the line and drives the bus ...
WriteAll ==
    /\ At("idle") /\ ~flushing
    /\ nvic' = FALSE /\ driving' = TRUE /\ fg' = "driving"
    /\ UNCHANGED <<wire, rxc, ring, isr, byte, flushing, out, echoed>>

\* ... a board whose receiver stays enabled hears the burst ...
HearEcho ==
    /\ driving /\ Receive(Echo)
    /\ UNCHANGED <<status, heard, next, due, gap, rxc, nvic, driving, ring, isr, fg, byte, flushing, out, echoed>>

\* Mutant of BurstEnds: the burst is not followed by flush_rx.
BurstEndsUnflushed ==
    /\ At("driving")
    /\ driving' = FALSE /\ nvic' = TRUE /\ fg' = "idle" /\ UNCHANGED flushing

BurstEnds ==
    /\ At("driving")
    /\ driving' = FALSE /\ nvic' = TRUE /\ fg' = "unmasked" /\ UNCHANGED flushing

\* ... TXC releases the driver and the line is unmasked.
Release ==
    /\ BurstEnds
    /\ UNCHANGED <<wire, rxc, ring, isr, byte, out, echoed>>

\* A pending interrupt is taken at the unmasking, before flush_rx begins.
FlushRx ==
    /\ At("unmasked") /\ ~(nvic /\ rxc /\ fifo # <<>>)
    /\ flushing' = TRUE /\ fg' = "idle"
    /\ UNCHANGED <<wire, rxc, nvic, driving, ring, isr, byte, out, echoed>>

\* The link is silent while BOOT decides, and armed when BOOT stays.
Quiesce ==
    /\ At("idle") /\ ~flushing
    /\ nvic' = FALSE /\ rxc' = FALSE /\ fg' = "quiet"
    /\ UNCHANGED <<wire, driving, ring, isr, byte, flushing, out, echoed>>

Arm ==
    /\ At("quiet")
    /\ nvic' = TRUE /\ rxc' = TRUE /\ fg' = "idle"
    /\ UNCHANGED <<wire, driving, ring, isr, byte, flushing, out, echoed>>

-----------------------------------------------------------------------------

Init ==
    /\ fifo = <<>> /\ status = FALSE /\ rxc = TRUE /\ nvic = TRUE /\ driving = FALSE /\ heard = FALSE
    /\ buf = [i \in Slots |-> Echo] /\ head = 0 /\ tail = 0 /\ lost = FALSE
    /\ isr = "off" /\ fg = "idle" /\ byte = Echo /\ flushing = FALSE
    /\ next = 1 /\ out = 0 /\ overrun = {} /\ due = {} /\ gap = {} /\ echoed = FALSE

Handler    == EnterHandler \/ DrainByte \/ LeaveHandler
Foreground ==
    \/ TryReadByte \/ ReadSlot \/ StoreTail \/ TakeRxError
    \/ WriteAll \/ Release \/ FlushRx \/ Quiesce \/ Arm

Next == HostByte \/ HearEcho \/ Handler \/ Foreground

Spec == Init /\ [][Next]_vars

-----------------------------------------------------------------------------

\* Every variable has its type.
TypeOK ==
    /\ fifo \in Seq(Mark .. NBytes) /\ Len(fifo) <= FifoDepth + 1
    /\ status \in BOOLEAN /\ rxc \in BOOLEAN /\ nvic \in BOOLEAN /\ driving \in BOOLEAN
    /\ heard \in BOOLEAN
    /\ buf \in [Slots -> Mark .. NBytes] /\ head \in Slots /\ tail \in Slots /\ lost \in BOOLEAN
    /\ isr \in {"off", "drain"}
    /\ fg \in {"idle", "read", "store", "driving", "unmasked", "quiet"}
    /\ byte \in Mark .. NBytes /\ flushing \in BOOLEAN
    /\ next \in 1 .. NBytes + 1 /\ out \in 0 .. NBytes
    /\ overrun \subseteq 1 .. NBytes /\ due \subseteq 1 .. NBytes /\ gap \subseteq 1 .. NBytes
    /\ echoed \in BOOLEAN

\* The host's bytes leave the ring in the order they were sent, none twice:
\* handler and reader never work on the same slot, at whatever step of a read
\* the handler comes in and however often the ring wraps.
InOrder ==
    LET all  == Queued \o fifo
        Host == {i \in 1 .. Len(all) : all[i] > 0}
    IN  /\ \A i, j \in Host : i < j => all[i] < all[j]
        /\ \A i \in Host : out < all[i]
        /\ At("store") => byte = buf[tail]

\* A hole is never read over unnoticed, whether the ring was full or the FIFO
\* ran over while the line was masked: no byte from behind a loss the handler
\* knows of is on offer unless the loss is latched for take_rx_error, and of a
\* loss it has still to see in STATUS the foreground is ahead by one byte at
\* most, the one that arrived while the mark was being read.
NoSilentGap ==
    /\ \A g \in gap : (\E i \in 1 .. Len(Queued) : Queued[i] > g) => lost
    /\ \A g \in overrun \cup due :
          LET Behind == {b \in {out} \cup {Queued[i] : i \in 1 .. Len(Queued)} : b > g}
          IN  \A a, b \in Behind : a = b

\* What this node hears of its own burst is never handed to a caller, which
\* would take it for a frame or for the first bytes of an image.
EchoNeverRead == ~echoed

=============================================================================
