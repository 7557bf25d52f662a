----------------------------- MODULE UpdateLink -----------------------------
(***************************************************************************)
(* One update over the rig's link: the host tool (src/xtask/src/link/,     *)
(* src/xtask/src/selftest.rs, src/xtask/src/main.rs) asks the application  *)
(* to step aside, finds BOOT, announces an image, streams it and reads the *)
(* outcome off the device's silence; BOOT (src/examples/update-rig/boot/)  *)
(* condemns, streams, reports and hands over; the application              *)
(* (src/examples/update-rig/app/) answers and resets.                      *)
(*                                                                         *)
(* Over RTT each image that comes up builds its own control block, which   *)
(* wipes the other's, and publishes its address; a writer waits for room.  *)
(* Over RS485 a reset goes unnoticed and nothing holds the writer back.    *)
(* A control frame is two bytes, its first and its delimiter, so that a    *)
(* reader can take half of one.  What a boot decides and what a bank holds *)
(* are abstract here: Bootloader and Device have them.                     *)
(***************************************************************************)
EXTENDS Integers, Sequences

CONSTANTS
    BodyLen,       \* bytes of the image body (bound)
    DownRing,      \* bytes the down channel holds (bound; RX_RING, 4096)
    Transports,    \* those the rig is built for: "rtt", "rs485"
    Resets,        \* bound on the resets and power cuts of a BOOT
    FailsAt,       \* bytes still to come when an erase or program may fail
    StoreFaults    \* TRUE: a write of the record may fail

ASSUME LinkAssumption ==
    /\ BodyLen \in Nat \ {0}
    /\ DownRing \in Nat /\ DownRing > 2
    /\ Transports \subseteq {"rtt", "rs485"} /\ Resets \in Nat
    /\ FailsAt \subseteq 0 .. BodyLen - 1
    /\ StoreFaults \in BOOLEAN

VARIABLES
    (* the device *)
    dev,           \* where the core is
    flush,         \* flush_rx has still to run: a frame went out, or the
                   \* application came up
    left,          \* ImageStream::left
    intact,        \* every byte streamed so far was the image's
    acc,           \* Decoder: "clean", "junk", or the message half received
    request,       \* the record's update request
    promote,       \* the record's pending promotion, which outranks it
    running,       \* the image of the active bank
    resets,        \* how often BOOT was cut short
    early,         \* history: a flash failed with bytes of the body to come
    (* shared through the probe or the wire *)
    transport,     \* which of the two
    down, up,      \* the rings of the live control block, or the line with
                   \* the buffers at its ends
    slot,          \* the published address and its magic
    (* the host *)
    tool,          \* "selftest", or the operator's "reboot" and "update"
    task, step,    \* what the host is doing, and which part of it
    block,         \* the image whose control block the host holds
    seen,          \* the address read from the slot and not yet consumed
    sent,          \* bytes of the body written
    image,         \* the image on offer: fits the region, is sound
    verdict        \* what the host concluded

device == <<dev, flush, left, intact, acc, request, promote, running, resets, early, transport>>
hostVars == <<tool, task, step, block, seen, sent, image, verdict>>
vars   == <<device, down, up, slot, hostVars>>

ToDevice == {"Update", "Ping", "GetState", "BeginUpdate"}
ToHost   == {"Pong", "StateOld", "StateNew", "Ready", "UpdateResult"}
States   == {"StateOld", "StateNew"}
Bytes    == {"body", "end"} \cup ToDevice

Frame(msg) == <<msg, "end">>

Live     == IF dev = "app" THEN "APP" ELSE "BOOT"
Attached == transport = "rs485" \/ block = Live

-----------------------------------------------------------------------------
(* The device. *)

\* An image comes up with a new decoder.  Over RTT .bss and both rings are new
\* and the block is published; over RS485 what was received and not read is
\* lost, and what is still on the line is not, either way.  The application
\* then throws away what the line said while it came up.
ComeUpWith(img, phase, said) ==
    /\ dev' = phase /\ flush' = (img = "APP") /\ acc' = "clean"
    /\ IF transport = "rtt"
       THEN down' = <<>> /\ up' = <<>> /\ slot' = [magic |-> TRUE, addr |-> img]
       ELSE /\ down' \in {SubSeq(down, i, Len(down)) : i \in 1 .. Len(down) + 1}
            /\ up' = said /\ UNCHANGED slot

ComeUp(img, phase) == ComeUpWith(img, phase, up)

\* The state message carries the version of the image that sends it.
StateMessage == IF running = "new" THEN "StateNew" ELSE "StateOld"

\* Link::write_all; the flush_rx that follows it is a step of its own.
Reply(msg) == up' = Append(up, msg) /\ flush' = TRUE

Flush ==
    /\ flush
    /\ flush' = FALSE /\ down' = <<>>
    /\ UNCHANGED <<dev, left, intact, acc, request, promote, running, resets, early, transport, up, slot, hostVars>>

Take == ~flush /\ down # <<>> /\ down' = Tail(down)

\* Decoder::feed, one byte at a time.  A body byte is junk to it, or happens
\* to be a delimiter.
Feed ==
    LET b == Head(down) IN
        IF b = "end" THEN acc' = "clean"
        ELSE IF b = "body" THEN acc' \in {"clean", "junk"}
        ELSE acc' = IF acc = "clean" THEN b ELSE "junk"

Decoded(msg) == Head(down) = "end" /\ acc = msg

\* A write of the record that is refused leaves it as it was, or torn, which
\* reads as a fresh one.
Refused ==
    /\ StoreFaults
    /\ \/ UNCHANGED <<request, promote>>
       \/ request' = FALSE /\ promote' = FALSE

\* Nobody looks at whether the request was cleared; a promotion or a trial that
\* cannot be written down keeps BOOT in download mode.
BootDecides ==
    /\ dev = "boot" /\ ~flush
    /\ \/ /\ ~promote /\ (request \/ running = "none")
          /\ dev' = "listen" /\ UNCHANGED <<flush, acc, down, up, slot>>
          /\ \/ request' = FALSE /\ UNCHANGED promote
             \/ request /\ Refused
       \/ /\ promote \/ (~request /\ running # "none")
          /\ ComeUp("APP", "app") /\ promote' = FALSE /\ UNCHANGED request
       \/ /\ promote \/ (~request /\ running = "new")
          /\ Refused
          /\ dev' = "listen" /\ UNCHANGED <<flush, acc, down, up, slot>>
    /\ UNCHANGED <<left, intact, running, resets, early, transport, hostVars>>

\* Mutant of Begin: the host is told to stream before the bank is condemned.
BeginReadyFirst ==
    /\ Reply("Ready") /\ dev' = "condemn"

\* A length past the app region is refused there and then.
Begin ==
    IF image.fits THEN dev' = "condemn" /\ UNCHANGED <<up, flush>>
    ELSE Reply("UpdateResult") /\ dev' = "handover"

Listen ==
    /\ dev = "listen" /\ Take /\ Feed
    /\ \/ Decoded("Ping") /\ Reply("Pong") /\ UNCHANGED dev
       \/ Decoded("BeginUpdate") /\ Begin
       \/ /\ ~Decoded("Ping") /\ ~Decoded("BeginUpdate")
          /\ UNCHANGED <<dev, up, flush>>
    /\ UNCHANGED <<left, intact, request, promote, running, resets, early, transport, slot, hostVars>>

\* Mutant of Report: BOOT goes back to the boot decision without holding on.
ReportAndBoot == Reply("UpdateResult") /\ dev' = "boot"

Report == Reply("UpdateResult") /\ dev' = "handover"

\* Boot::condemn writes the record, then the source closure sends Ready.
Condemn ==
    /\ dev = "condemn" /\ ~flush
    /\ \/ /\ Reply("Ready") /\ dev' = "stream"
          /\ left' = BodyLen /\ intact' = TRUE /\ UNCHANGED <<request, promote>>
       \/ Refused /\ Report /\ UNCHANGED <<left, intact>>
    /\ UNCHANGED <<acc, running, resets, early, transport, down, slot, hostVars>>

StreamByte ==
    /\ dev = "stream" /\ left > 0 /\ Take /\ left' = left - 1
    /\ intact' = (intact /\ Head(down) = "body")
    /\ UNCHANGED <<dev, flush, acc, request, promote, running, resets, early, transport, up, slot, hostVars>>

\* A host that has bytes to send is not silent for BYTE_TIMEOUT_MS.
HostWillStream ==
    Attached /\ (task = "body" \/ (task = "begin" /\ \E i \in 1 .. Len(up) : up[i] = "Ready"))

ByteTimeout ==
    /\ dev = "stream" /\ left > 0 /\ ~flush /\ down = <<>> /\ ~HostWillStream
    /\ left' = 0 /\ intact' = FALSE
    /\ UNCHANGED <<dev, flush, acc, request, promote, running, resets, early, transport, down, up, slot, hostVars>>

Accepted == intact /\ image.sound

\* The stream is over: read back, record the new image, which drops a promotion
\* of the old one, and swap into it; or report.
Install ==
    /\ dev = "stream" /\ left = 0 /\ ~flush
    /\ \/ /\ Accepted
          /\ running' = "new" /\ promote' = FALSE /\ UNCHANGED request
          /\ ComeUp("BOOT", "boot")
       \/ /\ IF Accepted THEN Refused ELSE UNCHANGED <<request, promote>>
          /\ Report /\ UNCHANGED <<running, acc, down, slot>>
    /\ UNCHANGED <<left, intact, resets, early, transport, hostVars>>

\* The writer's first command comes with the first word of the body.
FlashFails ==
    /\ dev = "stream" /\ left \in FailsAt /\ ~flush
    /\ Report /\ left' = 0 /\ early' = (early \/ left > 0)
    /\ UNCHANGED <<intact, acc, request, promote, running, resets, transport, down, slot, hostVars>>

\* Any byte will do.
Acknowledged ==
    /\ dev = "handover" /\ Take
    /\ dev' = "boot"
    /\ UNCHANGED <<flush, left, intact, acc, request, promote, running, resets, early, transport, up, slot, hostVars>>

\* Mutant of HandoverTimeout: BOOT waits for the byte and nothing else.
HandoverOnByteOnly == Acknowledged

\* The host said nothing for HANDOVER_TIMEOUT_MS: it waits for a Ready that
\* does not come, or it has gone.
HandoverTimeout ==
    /\ dev = "handover" /\ ~flush /\ down = <<>>
    /\ ~HostWillStream /\ (task \in {"begin", "done"} \/ ~Attached)
    /\ dev' = "boot"
    /\ UNCHANGED <<flush, left, intact, acc, request, promote, running, resets, early, transport, down, up, slot, hostVars>>

App ==
    /\ dev = "app" /\ Take /\ Feed
    /\ \/ Decoded("Ping") /\ Reply("Pong")
       \/ Decoded("GetState") /\ Reply(StateMessage)
       \/ ~Decoded("Ping") /\ ~Decoded("GetState") /\ ~Decoded("Update") /\ UNCHANGED <<up, flush>>
    /\ UNCHANGED <<dev, left, intact, request, promote, running, resets, early, transport, slot, hostVars>>

\* Whether the request was written down is not looked at.
AppUpdate ==
    /\ dev = "app" /\ ~flush /\ down # <<>> /\ Decoded("Update")
    /\ (request' = TRUE /\ UNCHANGED promote) \/ Refused
    /\ ComeUp("BOOT", "boot")
    /\ UNCHANGED <<left, intact, running, resets, early, transport, hostVars>>

\* The watchdog the application re-armed or never took over, and never feeds.
AppWatchdog ==
    /\ dev = "app" /\ ComeUp("BOOT", "boot")
    /\ UNCHANGED <<left, intact, request, promote, running, resets, early, transport, hostVars>>

\* A BOOT that talks to the host is reset or loses power; a reply that is
\* going out may be cut.
BootResets ==
    /\ dev \in {"listen", "condemn", "stream", "handover"} /\ resets < Resets
    /\ resets' = resets + 1
    /\ \E said \in {up, IF flush /\ up # <<>> THEN SubSeq(up, 1, Len(up) - 1) ELSE up} :
           ComeUpWith("BOOT", "boot", said)
    /\ left' = 0 /\ intact' = FALSE
    /\ UNCHANGED <<request, promote, running, early, transport, hostVars>>

DeviceStep ==
    \/ Flush \/ BootDecides \/ Listen \/ Condemn \/ StreamByte \/ ByteTimeout
    \/ Install \/ FlashFails \/ Acknowledged \/ HandoverTimeout
    \/ App \/ AppUpdate

-----------------------------------------------------------------------------
(* The host. *)

GoTo(t, s) == task' = t /\ step' = s

\* Link::resync, first part.  A publication names the live block; otherwise
\* the block in hand is kept if it is live, and RAM is scanned if it is not,
\* which may come to nothing.  A serial port has nothing to do.
Reconnect ==
    /\ step = "resync"
    /\ IF transport = "rtt" /\ slot.magic
       THEN seen' = slot.addr /\ GoTo(task, "consume") /\ UNCHANGED block
       ELSE block' \in {block, Live} /\ GoTo(task, "clear") /\ UNCHANGED seen
    /\ UNCHANGED <<device, down, up, slot, tool, sent, image, verdict>>

\* consume_published, once the attach at that address has worked.
Consume ==
    /\ step = "consume"
    /\ slot' = [slot EXCEPT !.magic = FALSE]
    /\ block' = seen
    /\ GoTo(task, "clear")
    /\ UNCHANGED <<device, tool, down, up, seen, sent, image, verdict>>

\* Link::flush_input.
ClearInput ==
    /\ step = "clear"
    /\ up' = IF Attached THEN <<>> ELSE up
    /\ GoTo(task, "send")
    /\ UNCHANGED <<device, tool, down, slot, block, seen, sent, image, verdict>>

\* Mutant of Put: a full ring is written over.
PutUnchecked(bytes) == IF Attached THEN down' = down \o bytes ELSE UNCHANGED down

\* What of a byte sequence there is room for.
Room(bytes) == SubSeq(bytes, 1, IF Len(bytes) < DownRing THEN Len(bytes) ELSE DownRing)

\* What is written to a block that is no longer live is lost; so is what a full
\* receive path has no room for, on a line without flow control.
Put(bytes) ==
    IF ~Attached THEN UNCHANGED down
    ELSE /\ transport = "rtt" => Len(down) + Len(bytes) <= DownRing
         /\ down' = Room(down \o bytes)

Message(t) ==
    CASE t = "reboot" -> "Update"
      [] t = "ping"   -> "Ping"
      [] t = "begin"  -> "BeginUpdate"
      [] OTHER        -> "GetState"

Send ==
    /\ step = "send" /\ task # "body"
    /\ Put(Frame(Message(task)))
    /\ IF task # "reboot" THEN GoTo(task, "recv")
       ELSE GoTo(IF tool = "selftest" THEN "ping" ELSE "begin", "resync")
    /\ UNCHANGED <<device, tool, up, slot, block, seen, sent, image, verdict>>

\* Link::write_raw, byte by byte.
WriteBody ==
    /\ task = "body"
    /\ Put(<<"body">>)
    /\ sent' = sent + 1
    /\ IF sent' = BodyLen THEN GoTo("result", "recv") ELSE UNCHANGED <<task, step>>
    /\ UNCHANGED <<device, tool, up, slot, block, seen, image, verdict>>

\* A write to a block that is no longer there may fail instead of being lost:
\* a poll is tried again, anything else ends the attempt.  A ring that fills to
\* its last byte, or is not drained for 30 s, is left out.
WriteFails ==
    /\ transport = "rtt" /\ ~Attached /\ step = "send"
    /\ IF task \in {"ping", "state", "app"}
       THEN GoTo(IF task = "app" THEN "app" ELSE "ping", "resync") /\ UNCHANGED verdict
       ELSE GoTo("done", "recv") /\ verdict' = "gaveup"
    /\ UNCHANGED <<device, tool, down, up, slot, block, seen, sent, image>>

\* What a task makes of a message; it drops those it does not wait for, but
\* the operator's update takes the first message after the body for an answer.
Received(t, msg) ==
    CASE t = "ping"   /\ msg = "Pong"                      -> <<"state", "send">>
      [] t = "state"  /\ msg \in States                    -> <<"ping", "resync">>
      [] t = "begin"  /\ msg = "Ready"                     -> <<"body", "send">>
      [] t = "result" /\ tool = "update"                   -> <<"done", "recv">>
      [] t = "result" /\ tool # "update" /\ msg = "UpdateResult" -> <<"app", "resync">>
      [] t = "app"    /\ msg \in States                    -> <<"done", "recv">>
      [] OTHER                                             -> <<t, "recv">>

\* What it concludes from the message it was waiting for: the version in a
\* State tells which image answered.
Concluded(t, msg) ==
    IF t = "result" THEN IF msg = "UpdateResult" THEN "rejected" ELSE "unexpected"
    ELSE IF t = "app" /\ verdict = "silent"
         THEN IF msg = "StateNew" THEN "installed" ELSE "failed"
    ELSE verdict

Recv ==
    /\ step = "recv" /\ task # "done" /\ Attached /\ up # <<>>
    /\ up' = Tail(up)
    /\ LET next == Received(task, Head(up)) IN GoTo(next[1], next[2])
    /\ verdict' = IF task' # task THEN Concluded(task, Head(up)) ELSE verdict
    /\ UNCHANGED <<device, tool, down, slot, block, seen, sent, image>>

Silence == step = "recv" /\ ~(Attached /\ up # <<>>)

\* A poll that is not answered in time is tried again; a BOOT that does not
\* ask for the body, or a device nothing answers for, ends the attempt.
PollTimeout ==
    /\ Silence
    /\ \/ task \in {"ping", "app"} /\ GoTo(task, "resync") /\ UNCHANGED verdict
       \/ task = "state" /\ GoTo("begin", "clear") /\ UNCHANGED verdict
       \/ task \in {"ping", "begin"} /\ GoTo("done", "recv") /\ verdict' = "gaveup"
       \/ /\ task = "app" /\ GoTo("done", "recv")
          /\ verdict' = IF verdict = "silent" THEN "failed" ELSE verdict
    /\ UNCHANGED <<device, tool, down, up, slot, block, seen, sent, image>>

\* Silence for the whole of INSTALL_TIMEOUT, far longer than BOOT takes to
\* program, verify and report: the success case.  The self-test goes on to ask
\* the application.
ResultTimeout ==
    /\ Silence /\ task = "result"
    /\ dev \notin {"condemn", "stream"} /\ ~flush
    /\ IF tool = "selftest" THEN GoTo("app", "resync") ELSE GoTo("done", "recv")
    /\ verdict' = "silent"
    /\ UNCHANGED <<device, tool, down, up, slot, block, seen, sent, image>>

HostStep ==
    \/ Reconnect \/ Consume \/ ClearInput \/ Send \/ WriteBody \/ WriteFails
    \/ Recv \/ PollTimeout \/ ResultTimeout

-----------------------------------------------------------------------------

\* The host has just attached to a part that runs an application, or to a
\* BOOT that has none to run.
Init ==
    /\ running \in {"none", "old"} /\ request = FALSE
    /\ promote \in (IF running = "old" THEN BOOLEAN ELSE {FALSE})
    /\ dev = IF running = "none" THEN "listen" ELSE "app"
    /\ flush = FALSE /\ left = 0 /\ intact = FALSE /\ acc = "clean"
    /\ resets = 0 /\ early = FALSE /\ transport \in Transports /\ tool \in {"selftest", "update"}
    /\ down = <<>> /\ up = <<>>
    /\ slot = [magic |-> FALSE, addr |-> Live] /\ block = Live /\ seen = Live
    /\ task = "reboot" /\ step = "resync" /\ sent = 0 /\ verdict = "none"
    /\ image \in [fits : BOOLEAN, sound : BOOLEAN]

Next == DeviceStep \/ AppWatchdog \/ BootResets \/ HostStep

Spec == Init /\ [][Next]_vars

\* BOOT and the application never stop stepping, and neither does the tool.
FairSpec == Spec /\ WF_vars(DeviceStep) /\ WF_vars(HostStep)

-----------------------------------------------------------------------------

\* Every variable has its type.
TypeOK ==
    /\ dev \in {"boot", "listen", "condemn", "stream", "handover", "app"}
    /\ flush \in BOOLEAN /\ left \in 0 .. BodyLen /\ intact \in BOOLEAN
    /\ acc \in {"clean", "junk"} \cup ToDevice
    /\ request \in BOOLEAN /\ promote \in BOOLEAN /\ running \in {"none", "old", "new"}
    /\ down \in Seq(Bytes) /\ Len(down) <= DownRing /\ up \in Seq(ToHost)
    /\ slot \in [magic : BOOLEAN, addr : {"APP", "BOOT"}]
    /\ task \in {"reboot", "ping", "state", "begin", "body", "result", "app", "done"}
    /\ step \in {"resync", "consume", "clear", "send", "recv"}
    /\ block \in {"APP", "BOOT"} /\ seen \in {"APP", "BOOT"}
    /\ sent \in 0 .. BodyLen /\ image \in [fits : BOOLEAN, sound : BOOLEAN]
    /\ verdict \in {"none", "silent", "installed", "failed", "rejected", "unexpected", "gaveup"}
    /\ resets \in 0 .. Resets /\ early \in BOOLEAN /\ transport \in Transports /\ tool \in {"selftest", "update"}

\* BOOT was not reset, and did not end a stream the host was still sending.
Undisturbed == resets = 0 /\ ~early

\* No byte of a body meets a BOOT that is still writing its record or decoding
\* frames, or an application, unless BOOT was reset or its flash failed under
\* it: the Ready handshake, whatever was retried, dropped or left over before.
BodyMeetsStream ==
    (Undisturbed /\ \E i \in 1 .. Len(down) : down[i] = "body") => dev = "stream"

\* What the host concludes is so.  Silence after the body is success as long as
\* nothing reset BOOT (a part that lost the image is silent too) or had it give
\* up in mid-stream (the rest of the body wipes the report); what the
\* self-test concludes from the version that answers, and a refusal, are right
\* whatever was cut short; and nothing but the outcome ever follows a body.
VerdictRight ==
    /\ verdict = "silent" /\ Undisturbed => running = "new"
    /\ verdict = "installed" => running = "new"
    /\ verdict \in {"rejected", "gaveup"} => running # "new"
    /\ verdict # "unexpected"

\* A part whose update failed goes back into service, also when the host has
\* gone away without taking the report.  The exception is the code's: BOOT does
\* not look at whether its clearing of the request was written (boot.rs:596),
\* nor can it boot past a promotion it cannot write, so with one of the two
\* still in the record it may wait for a host again, and that has no deadline.
BackInService ==
    (dev = "handover" /\ ~request /\ ~promote) ~> (dev = "app" \/ running = "none")

-----------------------------------------------------------------------------
(* What the documentation says and the code does not do. *)

\* BOOT "holds the link open after reporting a failed install until the host
\* says something, so the report cannot be wiped before it is read" (README of
\* the rig): no step of the device takes a report from a host that is attached
\* and has still to read it.
ReportHeld ==
    [][(\E i \in 1 .. Len(up) : up[i] = "UpdateResult")
            /\ task \in {"body", "result"} /\ Attached /\ UNCHANGED hostVars
         => \E i \in 1 .. Len(up') : up'[i] = "UpdateResult"]_vars

=============================================================================
