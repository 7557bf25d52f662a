-------------------------- MODULE UpdateLink_proofs --------------------------
(***************************************************************************)
(* The update link, proved for every body, ring and place where the flash  *)
(* may fail, over either transport and with either tool: where the bytes   *)
(* of a body go, and what the host may conclude.                           *)
(***************************************************************************)
EXTENDS UpdateLink, SequenceTheorems, TLAPS

-----------------------------------------------------------------------------
(* The invariant.  A behaviour has one BeginUpdate, and it comes in four     *)
(* parts: before it is sent; while it waits for a BOOT to decode it; while   *)
(* BOOT acts on it (InHand); and after BOOT has said what came of it.        *)

In(m, s) == \E i \in 1 .. Len(s) : s[i] = m

\* Before the BeginUpdate: the host has polled and asked at most.
Before == task \in {"reboot", "ping", "state"} \/ (task = "begin" /\ step # "recv")

\* A BeginUpdate on its way, or the half of it that the decoder has.
Pending == acc = "BeginUpdate" \/ In("BeginUpdate", down)

InHand == dev \in {"condemn", "stream"}

\* The host has sent its BeginUpdate and hears nothing, or has given up.
Waits == (task = "begin" /\ step = "recv") \/ task = "done"

\* Nothing was announced and nothing has come of it.
Quiet ==
    /\ ~Pending /\ ~InHand /\ dev # "handover" /\ running # "new"
    /\ ~In("Ready", up) /\ ~In("UpdateResult", up) /\ ~In("body", down)
    /\ sent = 0 /\ verdict = "none"

\* How far the host has come.
Progress ==
    /\ Before => Quiet
    /\ task = "begin" => sent = 0 /\ verdict = "none"
    /\ task = "body" => sent < BodyLen /\ step = "send" /\ verdict = "none"
    /\ task = "result" => sent = BodyLen /\ step = "recv" /\ verdict = "none"
    /\ task = "app" => sent = BodyLen
    /\ task = "done" => step = "recv"
    /\ verdict = "gaveup" => sent < BodyLen /\ task = "done"
    /\ In("body", down) => sent > 0

\* Nothing but its delimiter follows a BeginUpdate.
Closing(s) ==
    \A i \in 1 .. Len(s) : s[i] = "BeginUpdate" => \A j \in i + 1 .. Len(s) : j = i + 1 /\ s[j] = "end"

JustEnd(s) == \A i \in 1 .. Len(s) : i = 1 /\ s[i] = "end"

Alone ==
    /\ Closing(down)
    /\ acc = "BeginUpdate" => JustEnd(down)
    /\ dev = "condemn" => down = <<>> /\ acc = "clean"

\* A BeginUpdate that is pending or in hand has the host's attention, and no
\* outcome yet.
Announced ==
    /\ Pending => ~InHand /\ dev # "handover"
    /\ Pending \/ dev = "condemn" => sent = 0 /\ ~In("Ready", up) /\ Waits
    /\ dev = "stream" => Waits \/ task \in {"body", "result"}
    /\ Pending \/ InHand => Attached /\ running # "new" /\ ~In("UpdateResult", up)

\* The stream takes nothing but the body.
Streaming ==
    dev = "stream" =>
        /\ \A b \in Bytes : In(b, down) => b = "body"
        /\ intact => BodyLen - left + Len(down) <= sent

\* A Ready is said once, to a host that waits for it or has gone.
OneReady(s) == \A i, j \in 1 .. Len(s) : s[i] = "Ready" /\ s[j] = "Ready" => i = j

Readies == OneReady(up) /\ (In("Ready", up) => sent = 0 /\ Waits)

\* What came of the update is said of the part as it is.
Outcome ==
    /\ running = "new" => sent = BodyLen
    /\ In("UpdateResult", up) \/ verdict = "rejected" => ~Pending /\ ~InHand /\ running # "new"
    /\ In("StateNew", up) \/ verdict = "installed" => running = "new"
    /\ verdict # "unexpected"

\* The operator's tool asks nothing that the application answers.
Operator ==
    tool = "update" =>
        /\ task \notin {"ping", "state", "app"}
        /\ ~In("Ping", down) /\ ~In("GetState", down) /\ acc \notin {"Ping", "GetState"}
        /\ ~In("Pong", up) /\ ~In("StateOld", up) /\ ~In("StateNew", up)

\* Undisturbed, BOOT streams from its Ready on to the last byte, and its report
\* stands until it has been read.
Smooth ==
    Undisturbed =>
        /\ dev = "stream" /\ task = "begin" => In("Ready", up)
        /\ task = "begin" /\ In("Ready", up) =>
              dev = "stream" /\ intact /\ left = BodyLen /\ (flush \/ down = <<>>)
        /\ task = "body" => dev = "stream" /\ intact
        /\ dev = "stream" /\ ~intact => task \in {"result", "done"} /\ down = <<>>
        /\ task = "result" /\ running # "new" =>
              /\ Attached
              /\ \/ dev = "stream"
                 \/ dev = "handover" /\ In("UpdateResult", up) /\ (flush \/ down = <<>>)
        /\ verdict = "silent" => running = "new"
        /\ dev # "stream" => ~In("body", down)

LinkInv ==
    /\ TypeOK /\ Progress /\ Alone /\ Announced /\ Streaming /\ Readies /\ Outcome /\ Operator
    /\ Smooth

-----------------------------------------------------------------------------
(* The types, by who holds the variable. *)

DeviceTypes ==
    /\ dev \in {"boot", "listen", "condemn", "stream", "handover", "app"}
    /\ flush \in BOOLEAN /\ left \in 0 .. BodyLen /\ intact \in BOOLEAN
    /\ acc \in {"clean", "junk"} \cup ToDevice
    /\ request \in BOOLEAN /\ promote \in BOOLEAN /\ running \in {"none", "old", "new"}
    /\ resets \in 0 .. Resets /\ early \in BOOLEAN /\ transport \in Transports

ChannelTypes ==
    /\ down \in Seq(Bytes) /\ Len(down) <= DownRing /\ up \in Seq(ToHost)
    /\ slot \in [magic : BOOLEAN, addr : {"APP", "BOOT"}]

HostTypes ==
    /\ task \in {"reboot", "ping", "state", "begin", "body", "result", "app", "done"}
    /\ step \in {"resync", "consume", "clear", "send", "recv"}
    /\ block \in {"APP", "BOOT"} /\ seen \in {"APP", "BOOT"}
    /\ sent \in 0 .. BodyLen /\ image \in [fits : BOOLEAN, sound : BOOLEAN]
    /\ verdict \in {"none", "silent", "installed", "failed", "rejected", "unexpected", "gaveup"}
    /\ tool \in {"selftest", "update"}

\* The half of the state that a step does not touch keeps its types.
LEMMA HostKept ==
    ASSUME TypeOK, UNCHANGED hostVars
    PROVE  HostTypes'
BY DEF TypeOK, HostTypes, hostVars

LEMMA DeviceKept ==
    ASSUME TypeOK, UNCHANGED device
    PROVE  DeviceTypes'
BY DEF TypeOK, DeviceTypes, device

LEMMA Numbers ==
    ASSUME TypeOK
    PROVE  /\ left \in Nat /\ left <= BodyLen /\ sent \in Nat /\ sent <= BodyLen
           /\ BodyLen \in Nat /\ BodyLen > 0 /\ Len(down) \in Nat
           /\ DownRing \in Nat /\ DownRing > 2 /\ Resets \in Nat
<1>1. /\ left \in 0 .. BodyLen /\ sent \in 0 .. BodyLen
      /\ down \in Seq(Bytes) /\ BodyLen \in Nat \ {0}
      /\ DownRing \in Nat /\ DownRing > 2 /\ Resets \in Nat
  BY LinkAssumption DEF TypeOK
<1>2. Len(down) \in Nat
  BY <1>1, LenProperties
<1>3. QED
  BY <1>1, <1>2

-----------------------------------------------------------------------------
(* What the two ends do to a channel. *)

\* Nothing: what an empty channel holds.
LEMMA Nothing ==
    /\ \A m : ~In(m, <<>>)
    /\ Closing(<<>>) /\ JustEnd(<<>>) /\ OneReady(<<>>)
BY DEF In, Closing, JustEnd, OneReady

\* Appended: a message more.
LEMMA Appended ==
    ASSUME NEW T, NEW s \in Seq(T), NEW x \in T
    PROVE  /\ Append(s, x) \in Seq(T) /\ Append(s, x) # <<>>
           /\ \A m : In(m, Append(s, x)) <=> (In(m, s) \/ m = x)
           /\ OneReady(s) /\ (x = "Ready" => ~In("Ready", s)) => OneReady(Append(s, x))
<1>1. /\ Append(s, x) \in Seq(T) /\ Len(Append(s, x)) = Len(s) + 1 /\ Len(s) \in Nat
      /\ \A i \in 1 .. Len(s) : Append(s, x)[i] = s[i]
      /\ Append(s, x)[Len(s) + 1] = x
  OBVIOUS
<1>2. \A m : In(m, Append(s, x)) <=> (In(m, s) \/ m = x)
  <2>1. ASSUME NEW m, In(m, s) PROVE In(m, Append(s, x))
    BY <1>1, <2>1 DEF In
  <2>2. In(x, Append(s, x))
    BY <1>1 DEF In
  <2>3. ASSUME NEW m, In(m, Append(s, x)), m # x PROVE In(m, s)
    <3>1. PICK i \in 1 .. Len(s) + 1 : Append(s, x)[i] = m
      BY <1>1, <2>3 DEF In
    <3>2. i \in 1 .. Len(s)
      BY <1>1, <2>3, <3>1
    <3>3. QED
      BY <1>1, <3>1, <3>2 DEF In
  <2>4. QED
    BY <2>1, <2>2, <2>3
<1>3. ASSUME OneReady(s), x = "Ready" => ~In("Ready", s) PROVE OneReady(Append(s, x))
  <2> SUFFICES ASSUME NEW i \in 1 .. Len(s) + 1, NEW j \in 1 .. Len(s) + 1,
                      Append(s, x)[i] = "Ready", Append(s, x)[j] = "Ready"
               PROVE  i = j
    BY <1>1 DEF OneReady
  <2>1. CASE x = "Ready"
    <3>1. \A k \in 1 .. Len(s) : s[k] # "Ready"
      BY <1>3, <2>1 DEF In
    <3>2. i = Len(s) + 1 /\ j = Len(s) + 1
      BY <1>1, <3>1
    <3>3. QED
      BY <3>2
  <2>2. CASE x # "Ready"
    <3>1. i \in 1 .. Len(s) /\ j \in 1 .. Len(s)
      BY <1>1, <2>2
    <3>2. QED
      BY <1>1, <1>3, <3>1 DEF OneReady
  <2>3. QED
    BY <2>1, <2>2
<1>4. QED
  BY <1>1, <1>2, <1>3

\* Taken: the first one less.
LEMMA Taken ==
    ASSUME NEW T, NEW s \in Seq(T), s # <<>>
    PROVE  /\ Head(s) \in T /\ Tail(s) \in Seq(T) /\ Len(Tail(s)) = Len(s) - 1 /\ Len(s) \in Nat
           /\ \A m : In(m, s) <=> (m = Head(s) \/ In(m, Tail(s)))
           /\ Closing(s) => Closing(Tail(s))
           /\ Closing(s) /\ Head(s) = "BeginUpdate" => JustEnd(Tail(s))
           /\ JustEnd(s) => Tail(s) = <<>> /\ Head(s) = "end"
           /\ OneReady(s) => OneReady(Tail(s))
           /\ OneReady(s) /\ Head(s) = "Ready" => ~In("Ready", Tail(s))
<1>1. /\ Head(s) = s[1] /\ Head(s) \in T /\ Tail(s) \in Seq(T)
      /\ Len(Tail(s)) = Len(s) - 1 /\ Len(s) \in Nat /\ Len(s) > 0
      /\ \A i \in 1 .. Len(s) - 1 : Tail(s)[i] = s[i + 1]
  OBVIOUS
<1>2. \A m : In(m, s) <=> (m = Head(s) \/ In(m, Tail(s)))
  <2>1. ASSUME NEW m, In(m, Tail(s)) PROVE In(m, s)
    <3>1. PICK i \in 1 .. Len(s) - 1 : Tail(s)[i] = m
      BY <1>1, <2>1 DEF In
    <3>2. i + 1 \in 1 .. Len(s) /\ s[i + 1] = m
      BY <1>1, <3>1
    <3>3. QED
      BY <3>2 DEF In
  <2>2. In(Head(s), s)
    BY <1>1 DEF In
  <2>3. ASSUME NEW m, In(m, s), m # Head(s) PROVE In(m, Tail(s))
    <3>1. PICK i \in 1 .. Len(s) : s[i] = m
      BY <2>3 DEF In
    <3>2. i - 1 \in 1 .. Len(s) - 1 /\ Tail(s)[i - 1] = m
      BY <1>1, <2>3, <3>1
    <3>3. QED
      BY <1>1, <3>2 DEF In
  <2>4. QED
    BY <2>1, <2>2, <2>3
<1>3. ASSUME Closing(s) PROVE Closing(Tail(s))
  <2> SUFFICES ASSUME NEW i \in 1 .. Len(s) - 1, Tail(s)[i] = "BeginUpdate",
                      NEW j \in i + 1 .. Len(s) - 1
               PROVE  j = i + 1 /\ Tail(s)[j] = "end"
    BY <1>1 DEF Closing
  <2>1. i + 1 \in 1 .. Len(s) /\ s[i + 1] = "BeginUpdate" /\ j + 1 \in (i + 1) + 1 .. Len(s)
    BY <1>1
  <2>2. j + 1 = (i + 1) + 1 /\ s[j + 1] = "end"
    BY <1>3, <2>1 DEF Closing
  <2>3. QED
    BY <1>1, <2>2
<1>4. ASSUME Closing(s), Head(s) = "BeginUpdate" PROVE JustEnd(Tail(s))
  <2> SUFFICES ASSUME NEW i \in 1 .. Len(s) - 1 PROVE i = 1 /\ Tail(s)[i] = "end"
    BY <1>1 DEF JustEnd
  <2>1. 1 \in 1 .. Len(s) /\ s[1] = "BeginUpdate" /\ i + 1 \in 1 + 1 .. Len(s)
    BY <1>1, <1>4
  <2>2. i + 1 = 1 + 1 /\ s[i + 1] = "end"
    BY <1>4, <2>1 DEF Closing
  <2>3. QED
    BY <1>1, <2>2
<1>5. ASSUME JustEnd(s) PROVE Tail(s) = <<>> /\ Head(s) = "end"
  <2>1. Len(s) = 1
    BY <1>1, <1>5 DEF JustEnd
  <2>2. Tail(s) = <<>>
    <3>1. \A t \in Seq(T) : Len(t) = 0 => t = <<>>
      BY EmptySeq
    <3> DEFINE t == Tail(s)
    <3>2. t \in Seq(T) /\ Len(t) = 0
      BY <1>1, <2>1
    <3> HIDE DEF t
    <3>3. t = <<>>
      BY <3>1, <3>2
    <3>4. QED
      BY <3>3 DEF t
  <2>3. s[1] = "end"
    BY <1>5, <2>1 DEF JustEnd
  <2>4. QED
    BY <1>1, <2>2, <2>3
<1>6. ASSUME OneReady(s) PROVE OneReady(Tail(s))
  <2> SUFFICES ASSUME NEW i \in 1 .. Len(s) - 1, NEW j \in 1 .. Len(s) - 1,
                      Tail(s)[i] = "Ready", Tail(s)[j] = "Ready"
               PROVE  i = j
    BY <1>1 DEF OneReady
  <2>1. /\ i + 1 \in 1 .. Len(s) /\ j + 1 \in 1 .. Len(s)
        /\ s[i + 1] = "Ready" /\ s[j + 1] = "Ready"
    BY <1>1
  <2>2. i + 1 = j + 1
    BY <1>6, <2>1 DEF OneReady
  <2>3. QED
    BY <2>2
<1>7. ASSUME OneReady(s), Head(s) = "Ready", In("Ready", Tail(s)) PROVE FALSE
  <2>1. PICK i \in 1 .. Len(s) - 1 : Tail(s)[i] = "Ready"
    BY <1>1, <1>7 DEF In
  <2>2. 1 \in 1 .. Len(s) /\ i + 1 \in 1 .. Len(s) /\ s[1] = "Ready" /\ s[i + 1] = "Ready"
    BY <1>1, <1>7, <2>1
  <2>3. QED
    BY <1>7, <2>2 DEF OneReady
<1>8. QED
  BY <1>1, <1>2, <1>3, <1>4, <1>5, <1>6, <1>7

\* Cut short by an image that comes up: an end of it is left.
LEMMA Cut ==
    ASSUME NEW T, NEW s \in Seq(T), NEW k \in 1 .. Len(s) + 1
    PROVE  LET c == SubSeq(s, k, Len(s)) IN
              /\ c \in Seq(T) /\ Len(c) <= Len(s)
              /\ \A m : In(m, c) => In(m, s)
              /\ Closing(s) => Closing(c)
<1> DEFINE c == SubSeq(s, k, Len(s))
<1>1. /\ c \in Seq(T) /\ Len(c) = Len(s) - k + 1 /\ Len(s) \in Nat
      /\ \A i \in 1 .. Len(c) : c[i] = s[k + i - 1]
  OBVIOUS
<1> HIDE DEF c
<1>2. ASSUME NEW m, In(m, c) PROVE In(m, s)
  <2>1. PICK i \in 1 .. Len(c) : c[i] = m
    BY <1>2 DEF In
  <2>2. k + i - 1 \in 1 .. Len(s) /\ s[k + i - 1] = m
    BY <1>1, <2>1
  <2>3. QED
    BY <2>2 DEF In
<1>3. ASSUME Closing(s) PROVE Closing(c)
  <2> SUFFICES ASSUME NEW i \in 1 .. Len(c), c[i] = "BeginUpdate", NEW j \in i + 1 .. Len(c)
               PROVE  j = i + 1 /\ c[j] = "end"
    BY DEF Closing
  <2>1. /\ k + i - 1 \in 1 .. Len(s) /\ s[k + i - 1] = "BeginUpdate"
        /\ k + j - 1 \in (k + i - 1) + 1 .. Len(s)
    BY <1>1
  <2>2. k + j - 1 = (k + i - 1) + 1 /\ s[k + j - 1] = "end"
    BY <1>3, <2>1 DEF Closing
  <2>3. QED
    BY <1>1, <2>2
<1>4. QED
  BY <1>1, <1>2, <1>3 DEF c

\* The last message of a reply that was cut is lost.
LEMMA Front ==
    ASSUME NEW T, NEW s \in Seq(T), s # <<>>
    PROVE  LET c == SubSeq(s, 1, Len(s) - 1) IN
              /\ c \in Seq(T)
              /\ \A m : In(m, c) => In(m, s)
              /\ OneReady(s) => OneReady(c)
<1> DEFINE c == SubSeq(s, 1, Len(s) - 1)
<1>1. /\ c \in Seq(T) /\ Len(c) = Len(s) - 1 /\ Len(s) \in Nat
      /\ \A i \in 1 .. Len(c) : c[i] = s[i]
  <2>1. PICK n \in Nat : Len(s) = n + 1
    <3>1. Len(s) \in Nat \ {0}
      BY EmptySeq
    <3>2. Len(s) - 1 \in Nat /\ Len(s) = (Len(s) - 1) + 1
      BY <3>1
    <3>3. QED
      BY <3>2
  <2>2. /\ SubSeq(s, 1, n) \in Seq(T) /\ Len(SubSeq(s, 1, n)) = n
        /\ \A i \in 1 .. n : SubSeq(s, 1, n)[i] = s[i]
    BY <2>1
  <2>3. n = Len(s) - 1
    BY <2>1
  <2>4. QED
    BY <2>1, <2>2, <2>3
<1> HIDE DEF c
<1>2. \A m : In(m, c) => In(m, s)
  BY <1>1 DEF In
<1>3. OneReady(s) => OneReady(c)
  BY <1>1 DEF OneReady
<1>4. QED
  BY <1>1, <1>2, <1>3 DEF c

\* Put: what there was and what there is room for of the rest.
LEMMA Putting ==
    ASSUME NEW s \in Seq(Bytes), Len(s) <= DownRing, NEW t \in Seq(Bytes)
    PROVE  LET c == Room(s \o t) IN
              /\ c \in Seq(Bytes) /\ Len(c) <= DownRing /\ Len(c) <= Len(s) + Len(t)
              /\ \A m : In(m, c) => In(m, s) \/ In(m, t)
              /\ Closing(s) /\ ~In("BeginUpdate", s) /\ Closing(t) => Closing(c)
<1> DEFINE c == Room(s \o t)
<1>1. /\ c \in Seq(Bytes) /\ Len(c) <= DownRing /\ Len(c) <= Len(s) + Len(t)
      /\ Len(s) \in Nat /\ Len(t) \in Nat
      /\ \A i \in 1 .. Len(c) : c[i] = IF i <= Len(s) THEN s[i] ELSE t[i - Len(s)]
  <2>1. /\ s \o t \in Seq(Bytes) /\ Len(s \o t) = Len(s) + Len(t)
        /\ Len(s) \in Nat /\ Len(t) \in Nat
        /\ \A i \in 1 .. Len(s) + Len(t) : (s \o t)[i] = IF i <= Len(s) THEN s[i] ELSE t[i - Len(s)]
    OBVIOUS
  <2> DEFINE u == s \o t
  <2> HIDE DEF u
  <2>2. DownRing \in Nat
    BY LinkAssumption
  <2>3. PICK n \in Nat : n <= DownRing /\ n <= Len(u) /\ Room(u) = SubSeq(u, 1, n)
    BY <2>1, <2>2 DEF Room, u
  <2>4. /\ SubSeq(u, 1, n) \in Seq(Bytes) /\ Len(SubSeq(u, 1, n)) = n
        /\ \A i \in 1 .. n : SubSeq(u, 1, n)[i] = u[i]
    BY <2>1, <2>3 DEF u
  <2>5. QED
    BY <2>1, <2>3, <2>4 DEF u
<1> HIDE DEF c
<1>2. ASSUME NEW m, In(m, c) PROVE In(m, s) \/ In(m, t)
  <2>1. PICK i \in 1 .. Len(c) : c[i] = m
    BY <1>2 DEF In
  <2>2. CASE i <= Len(s)
    BY <1>1, <2>1, <2>2 DEF In
  <2>3. CASE i > Len(s)
    <3>1. i - Len(s) \in 1 .. Len(t) /\ t[i - Len(s)] = m
      BY <1>1, <2>1, <2>3
    <3>2. QED
      BY <3>1 DEF In
  <2>4. QED
    BY <1>1, <2>2, <2>3
<1>3. ASSUME ~In("BeginUpdate", s), Closing(t) PROVE Closing(c)
  <2> SUFFICES ASSUME NEW i \in 1 .. Len(c), c[i] = "BeginUpdate", NEW j \in i + 1 .. Len(c)
               PROVE  j = i + 1 /\ c[j] = "end"
    BY DEF Closing
  <2>1. i > Len(s)
    BY <1>1, <1>3 DEF In
  <2>2. /\ i - Len(s) \in 1 .. Len(t) /\ t[i - Len(s)] = "BeginUpdate"
        /\ j - Len(s) \in (i - Len(s)) + 1 .. Len(t)
    BY <1>1, <2>1
  <2>3. j - Len(s) = (i - Len(s)) + 1 /\ t[j - Len(s)] = "end"
    BY <1>3, <2>2 DEF Closing
  <2>4. QED
    BY <1>1, <2>1, <2>3
<1>4. QED
  BY <1>1, <1>2, <1>3 DEF c

-----------------------------------------------------------------------------
(* The device. *)

\* A byte is taken off the down channel.
LEMMA Takes ==
    ASSUME LinkInv, Take
    PROVE  /\ ~flush /\ down # <<>> /\ down' = Tail(down) /\ Head(down) \in Bytes
           /\ down' \in Seq(Bytes) /\ Len(down') = Len(down) - 1 /\ Len(down) \in Nat
           /\ \A m : In(m, down) <=> (m = Head(down) \/ In(m, down'))
           /\ Closing(down')
           /\ Head(down) = "BeginUpdate" => JustEnd(down')
           /\ acc = "BeginUpdate" => down' = <<>> /\ Head(down) = "end"
BY Taken DEF LinkInv, TypeOK, Alone, Take

\* The decoder comes to hold no message that was not on its way.
LEMMA Feeds ==
    ASSUME LinkInv, Take, Feed
    PROVE  /\ acc' \in {"clean", "junk"} \cup ToDevice
           /\ acc' \in ToDevice => acc' = Head(down)
           /\ Pending' => Pending
           /\ acc' = "BeginUpdate" => JustEnd(down')
           /\ acc = "BeginUpdate" => ~Pending'
<1>1. Head(down) \in Bytes
  BY Takes
<1>2. /\ acc' \in {"clean", "junk"} \cup ToDevice
      /\ acc' \in ToDevice => acc' = Head(down)
      /\ Head(down) = "end" => acc' = "clean"
  BY <1>1 DEF Feed, Bytes, ToDevice
<1>3. acc' = "BeginUpdate" => Head(down) = "BeginUpdate"
  BY <1>2 DEF ToDevice
<1>4. Pending' => Pending
  BY <1>3, Takes DEF Pending
<1>5. acc = "BeginUpdate" => ~Pending'
  BY <1>2, Takes, Nothing DEF Pending
<1>6. QED
  BY <1>2, <1>3, <1>4, <1>5, Takes

\* An image that comes up finds an end of what was on the line, if anything.
LEMMA ComesUp ==
    ASSUME LinkInv, NEW img \in {"APP", "BOOT"}, NEW phase, NEW said \in Seq(ToHost),
           ComeUpWith(img, phase, said)
    PROVE  /\ dev' = phase /\ acc' = "clean"
           /\ (img = "APP" => flush' = TRUE) /\ (img = "BOOT" => flush' = FALSE)
           /\ down' \in Seq(Bytes) /\ Len(down') <= Len(down) /\ Len(down') \in Nat
           /\ \A m : In(m, down') => In(m, down)
           /\ Closing(down') /\ (Pending' => Pending /\ transport = "rs485")
           /\ up' \in {<<>>, said} /\ up' \in Seq(ToHost)
           /\ slot' \in [magic : BOOLEAN, addr : {"APP", "BOOT"}]
<1>1. down \in Seq(Bytes) /\ Len(down) \in Nat /\ Closing(down)
      /\ slot \in [magic : BOOLEAN, addr : {"APP", "BOOT"}]
  BY DEF LinkInv, TypeOK, Alone
<1>2. /\ dev' = phase /\ acc' = "clean"
      /\ (img = "APP" => flush' = TRUE) /\ (img = "BOOT" => flush' = FALSE)
  BY DEF ComeUpWith
<1>3. CASE transport = "rtt"
  <2>1. down' = <<>> /\ up' = <<>> /\ slot' = [magic |-> TRUE, addr |-> img]
    BY <1>3 DEF ComeUpWith
  <2>2. /\ down' \in Seq(Bytes) /\ Len(down') = 0 /\ ~Pending' /\ up' \in Seq(ToHost)
        /\ slot' \in [magic : BOOLEAN, addr : {"APP", "BOOT"}]
    BY <1>2, <2>1, Nothing DEF Pending
  <2>3. QED
    BY <1>1, <1>2, <2>1, <2>2, Nothing
<1>4. CASE transport # "rtt"
  <2>1. up' = said /\ slot' = slot
    BY <1>4 DEF ComeUpWith
  <2>2. PICK k \in 1 .. Len(down) + 1 : down' = SubSeq(down, k, Len(down))
    BY <1>4 DEF ComeUpWith
  <2>3. /\ down' \in Seq(Bytes) /\ Len(down') <= Len(down) /\ Closing(down')
        /\ \A m : In(m, down') => In(m, down)
    BY <1>1, <2>2, Cut
  <2>4. transport = "rs485"
    BY <1>4, LinkAssumption DEF LinkInv, TypeOK
  <2>5. Len(down') \in Nat
    BY <2>3, LenProperties
  <2>6. Pending' => Pending
    BY <1>2, <2>3 DEF Pending
  <2>7. QED
    BY <1>1, <1>2, <2>1, <2>3, <2>4, <2>5, <2>6
<1>5. QED
  BY <1>3, <1>4

\* FlushStep: BOOT empties its receive ring after a reply.
LEMMA FlushStep ==
    ASSUME LinkInv, Flush
    PROVE  LinkInv'
<1>0. /\ TypeOK /\ Progress /\ Alone /\ Announced /\ Streaming
      /\ Readies /\ Outcome /\ Operator /\ Smooth
  BY DEF LinkInv
<1>1. UNCHANGED hostVars
  BY DEF Flush
<1>2. /\ flush /\ flush' = FALSE /\ down' = <<>>
      /\ UNCHANGED <<dev, left, intact, acc, request, promote, running, resets, early, transport>>
      /\ UNCHANGED <<up, slot>>
      /\ UNCHANGED <<tool, task, step, block, seen, sent, image, verdict>>
  BY DEF Flush, hostVars
<1>3. /\ down' \in Seq(Bytes) /\ Len(down') = 0
      /\ (\A m : ~In(m, down')) /\ Closing(down') /\ JustEnd(down')
  BY <1>2, Nothing
<1>4. (Pending' => Pending) /\ (Before' => Before) /\ (InHand' <=> InHand)
      /\ (Waits' <=> Waits) /\ (Attached' <=> Attached)
  BY <1>2, <1>3 DEF Pending, Before, InHand, Waits, Attached, Live
<1>5. TypeOK'
  <2>1. DeviceTypes'
    BY <1>0, <1>2 DEF TypeOK, DeviceTypes
  <2>2. ChannelTypes'
    BY <1>0, <1>2, Numbers DEF TypeOK, ChannelTypes
  <2>3. HostTypes'
    BY <1>0, <1>1, HostKept
  <2>4. QED
    BY <2>1, <2>2, <2>3 DEF TypeOK, DeviceTypes, ChannelTypes, HostTypes
<1>6. Progress'
  BY <1>0, <1>2, <1>3 DEF Progress, Quiet, Before, Pending, InHand
<1>7. Alone'
  BY <1>0, <1>2, <1>3 DEF Alone
<1>8. Announced'
  BY <1>0, <1>2, <1>4 DEF Announced, Pending, InHand, Waits, Attached, Live
<1>9. Streaming'
  BY <1>0, <1>2, <1>3, Numbers DEF Streaming
<1>10. Readies'
  BY <1>0, <1>2 DEF Readies, Waits
<1>11. Outcome'
  BY <1>0, <1>2, <1>4 DEF Outcome, Pending, InHand
<1>12. Operator'
  BY <1>0, <1>2, <1>3 DEF Operator
<1>13. Smooth'
  BY <1>0, <1>2, <1>3 DEF Smooth, Undisturbed, Attached, Live
<1>14. QED
  BY <1>5, <1>6, <1>7, <1>8, <1>9, <1>10, <1>11, <1>12, <1>13 DEF LinkInv

\* BOOT finds a request or nothing to run, or cannot write its record, and listens.
LEMMA BootListens ==
    ASSUME LinkInv, BootDecides, dev' = "listen"
    PROVE  LinkInv'
<1>0. /\ TypeOK /\ Progress /\ Alone /\ Announced /\ Streaming
      /\ Readies /\ Outcome /\ Operator /\ Smooth
  BY DEF LinkInv
<1>1. UNCHANGED hostVars
  BY DEF BootDecides
<1>2. /\ dev = "boot"
      /\ dev' = "listen"
      /\ request' \in BOOLEAN /\ promote' \in BOOLEAN
      /\ UNCHANGED <<flush, left, intact, acc, running, resets, early, transport>>
      /\ UNCHANGED <<down, up, slot>>
      /\ UNCHANGED <<tool, task, step, block, seen, sent, image, verdict>>
  BY <1>0 DEF BootDecides, Refused, ComeUp, ComeUpWith, hostVars, TypeOK
<1>3. TypeOK'
  <2>1. DeviceTypes'
    BY <1>0, <1>2 DEF TypeOK, DeviceTypes
  <2>2. ChannelTypes'
    BY <1>0, <1>2 DEF TypeOK, ChannelTypes
  <2>3. HostTypes'
    BY <1>0, <1>1, HostKept
  <2>4. QED
    BY <2>1, <2>2, <2>3 DEF TypeOK, DeviceTypes, ChannelTypes, HostTypes
<1>4. Progress'
  BY <1>0, <1>2 DEF Progress, Quiet, Before, Pending, InHand
<1>5. Alone'
  BY <1>0, <1>2 DEF Alone
<1>6. Announced'
  BY <1>0, <1>2 DEF Announced, Pending, InHand, Waits, Attached, Live
<1>7. Streaming'
  BY <1>0, <1>2 DEF Streaming
<1>8. Readies'
  BY <1>0, <1>2 DEF Readies, Waits
<1>9. Outcome'
  BY <1>0, <1>2 DEF Outcome, Pending, InHand
<1>10. Operator'
  BY <1>0, <1>2 DEF Operator
<1>11. Smooth'
  BY <1>0, <1>2 DEF Smooth, Undisturbed, Attached, Live
<1>12. QED
  BY <1>3, <1>4, <1>5, <1>6, <1>7, <1>8, <1>9, <1>10, <1>11 DEF LinkInv

\* BOOT finds an image to run, and runs it.
LEMMA BootBoots ==
    ASSUME LinkInv, BootDecides, dev' # "listen"
    PROVE  LinkInv'
<1>0. /\ TypeOK /\ Progress /\ Alone /\ Announced /\ Streaming
      /\ Readies /\ Outcome /\ Operator /\ Smooth
  BY DEF LinkInv
<1>1. UNCHANGED hostVars
  BY DEF BootDecides
<1>2. /\ ComeUpWith("APP", "app", up)
      /\ UNCHANGED <<left, intact, request, running, resets, early, transport>>
      /\ UNCHANGED <<tool, task, step, block, seen, sent, image, verdict>>
      /\ dev = "boot"
      /\ promote' = FALSE
  BY DEF BootDecides, ComeUp, hostVars
<1>3. /\ dev' = "app"
      /\ flush' = TRUE
      /\ acc' = "clean"
      /\ Closing(down')
      /\ Pending' => Pending /\ transport = "rs485"
      /\ \A m : In(m, down') => In(m, down)
      /\ \A m : In(m, up') => In(m, up)
      /\ OneReady(up')
      /\ down' \in Seq(Bytes) /\ Len(down') <= Len(down) /\ Len(down') \in Nat
      /\ up' \in Seq(ToHost)
      /\ slot' \in [magic : BOOLEAN, addr : {"APP", "BOOT"}]
  BY <1>0, <1>2, ComesUp, Nothing DEF TypeOK, Readies
<1>4. ChannelTypes'
  BY <1>0, <1>3, Numbers DEF TypeOK, ChannelTypes
<1>5. TypeOK'
  <2>1. DeviceTypes'
    BY <1>0, <1>2, <1>3 DEF TypeOK, DeviceTypes
  <2>2. ChannelTypes'
    BY <1>4
  <2>3. HostTypes'
    BY <1>0, <1>1, HostKept
  <2>4. QED
    BY <2>1, <2>2, <2>3 DEF TypeOK, DeviceTypes, ChannelTypes, HostTypes
<1>6. Progress'
  BY <1>0, <1>2, <1>3 DEF Progress, Quiet, Before, Pending, InHand
<1>7. Alone'
  BY <1>0, <1>3 DEF Alone
<1>8. Announced'
  BY <1>0, <1>2, <1>3 DEF Announced, Pending, InHand, Waits, Attached, Live
<1>9. Streaming'
  BY <1>0, <1>3 DEF Streaming
<1>10. Readies'
  BY <1>0, <1>2, <1>3 DEF Readies, Waits
<1>11. Outcome'
  BY <1>0, <1>2, <1>3 DEF Outcome, Pending, InHand
<1>12. Operator'
  BY <1>0, <1>2, <1>3 DEF Operator
<1>13. Smooth'
  BY <1>0, <1>2, <1>3 DEF Smooth, Undisturbed, Attached, Live
<1>14. QED
  BY <1>5, <1>6, <1>7, <1>8, <1>9, <1>10, <1>11, <1>12, <1>13 DEF LinkInv

\* Listening, BOOT answers a poll.
LEMMA ListenPing ==
    ASSUME LinkInv, Listen, Decoded("Ping")
    PROVE  LinkInv'
<1>0. /\ TypeOK /\ Progress /\ Alone /\ Announced /\ Streaming
      /\ Readies /\ Outcome /\ Operator /\ Smooth
  BY DEF LinkInv
<1>1. UNCHANGED hostVars
  BY DEF Listen
<1>2. /\ Take /\ Feed
      /\ UNCHANGED <<dev, left, intact, request, promote, running, resets, early, transport>>
      /\ UNCHANGED <<tool, task, step, block, seen, sent, image, verdict>>
      /\ UNCHANGED slot
      /\ dev = "listen"
      /\ acc = "Ping"
      /\ up' = Append(up, "Pong")
      /\ flush' = TRUE
  BY <1>0 DEF Listen, hostVars, Reply, Decoded
<1>3. /\ down' \in Seq(Bytes)
      /\ Len(down') = Len(down) - 1
      /\ Closing(down')
      /\ down # <<>>
      /\ ~flush
      /\ Head(down) \in Bytes
      /\ \A m : In(m, down) <=> (m = Head(down) \/ In(m, down'))
      /\ acc = "BeginUpdate" => down' = <<>> /\ Head(down) = "end"
  BY <1>2, Takes
<1>4. /\ acc' \in {"clean", "junk"} \cup ToDevice
      /\ acc' \in ToDevice => acc' = Head(down)
      /\ Pending' => Pending
      /\ acc' = "BeginUpdate" => JustEnd(down')
      /\ acc = "BeginUpdate" => ~Pending'
  BY <1>2, Feeds
<1>5. /\ up' \in Seq(ToHost)
      /\ \A m : In(m, up') <=> (In(m, up) \/ m = "Pong")
      /\ OneReady(up')
  BY <1>0, <1>2, Appended DEF TypeOK, Readies, ToHost, StateMessage
<1>6. ChannelTypes'
  BY <1>0, <1>2, <1>3, <1>5, Numbers DEF TypeOK, ChannelTypes
<1>7. TypeOK'
  <2>1. DeviceTypes'
    BY <1>0, <1>2, <1>4 DEF TypeOK, DeviceTypes
  <2>2. ChannelTypes'
    BY <1>6
  <2>3. HostTypes'
    BY <1>0, <1>1, HostKept
  <2>4. QED
    BY <2>1, <2>2, <2>3 DEF TypeOK, DeviceTypes, ChannelTypes, HostTypes
<1>8. Progress'
  BY <1>0, <1>2, <1>3, <1>4, <1>5 DEF Progress, Quiet, Before, Pending, InHand
<1>9. Alone'
  BY <1>0, <1>2, <1>3, <1>4 DEF Alone
<1>10. Announced'
  BY <1>0, <1>2, <1>4, <1>5 DEF Announced, Pending, InHand, Waits, Attached, Live
<1>11. Streaming'
  BY <1>0, <1>2 DEF Streaming
<1>12. Readies'
  BY <1>0, <1>2, <1>5 DEF Readies, Waits
<1>13. Outcome'
  BY <1>0, <1>2, <1>4, <1>5 DEF Outcome, Pending, InHand
<1>14. Operator'
  BY <1>0, <1>2 DEF Operator, ToDevice, Bytes
<1>15. Smooth'
  BY <1>0, <1>2, <1>3, <1>5 DEF Smooth, Undisturbed, Attached, Live
<1>16. QED
  BY <1>7, <1>8, <1>9, <1>10, <1>11, <1>12, <1>13, <1>14, <1>15 DEF LinkInv

\* The BeginUpdate, which was alone on the channel, is taken.
LEMMA ListenBegin ==
    ASSUME LinkInv, Listen, Decoded("BeginUpdate"), image.fits
    PROVE  LinkInv'
<1>0. /\ TypeOK /\ Progress /\ Alone /\ Announced /\ Streaming
      /\ Readies /\ Outcome /\ Operator /\ Smooth
  BY DEF LinkInv
<1>1. UNCHANGED hostVars
  BY DEF Listen
<1>2. /\ Take /\ Feed
      /\ UNCHANGED <<flush, left, intact, request, promote, running, resets, early, transport>>
      /\ UNCHANGED <<tool, task, step, block, seen, sent, image, verdict>>
      /\ UNCHANGED slot
      /\ dev = "listen"
      /\ acc = "BeginUpdate"
      /\ dev' = "condemn"
      /\ Head(down) = "end"
      /\ UNCHANGED up
  BY <1>0 DEF Listen, hostVars, Begin, Decoded
<1>3. /\ down' \in Seq(Bytes)
      /\ Len(down') = Len(down) - 1
      /\ Closing(down')
      /\ down # <<>>
      /\ ~flush
      /\ Head(down) \in Bytes
      /\ \A m : In(m, down) <=> (m = Head(down) \/ In(m, down'))
      /\ acc = "BeginUpdate" => down' = <<>> /\ Head(down) = "end"
  BY <1>2, Takes
<1>4. /\ acc' \in {"clean", "junk"} \cup ToDevice
      /\ acc' \in ToDevice => acc' = Head(down)
      /\ Pending' => Pending
      /\ acc' = "BeginUpdate" => JustEnd(down')
      /\ acc = "BeginUpdate" => ~Pending'
  BY <1>2, Feeds
<1>5. ChannelTypes'
  BY <1>0, <1>2, <1>3, Numbers DEF TypeOK, ChannelTypes
<1>6. Pending /\ acc' = "clean" /\ down' = <<>> /\ ~Pending'
  BY <1>2, <1>3, <1>4 DEF Pending, Feed
<1>7. TypeOK'
  <2>1. DeviceTypes'
    BY <1>0, <1>2, <1>6 DEF TypeOK, DeviceTypes
  <2>2. ChannelTypes'
    BY <1>5
  <2>3. HostTypes'
    BY <1>0, <1>1, HostKept
  <2>4. QED
    BY <2>1, <2>2, <2>3 DEF TypeOK, DeviceTypes, ChannelTypes, HostTypes
<1>8. Progress'
  BY <1>0, <1>2, <1>3 DEF Progress, Quiet, Before, Pending, InHand
<1>9. Alone'
  BY <1>0, <1>3, <1>6 DEF Alone
<1>10. Announced'
  BY <1>0, <1>2, <1>6 DEF Announced, Pending, InHand, Waits, Attached, Live
<1>11. Streaming'
  BY <1>0, <1>2 DEF Streaming
<1>12. Readies'
  BY <1>0, <1>2 DEF Readies, Waits
<1>13. Outcome'
  BY <1>0, <1>2 DEF Outcome, Pending, InHand
<1>14. Operator'
  BY <1>0, <1>2, <1>3, <1>6 DEF Operator, ToDevice, Bytes
<1>15. Smooth'
  BY <1>0, <1>2, <1>3 DEF Smooth, Undisturbed, Attached, Live
<1>16. QED
  BY <1>7, <1>8, <1>9, <1>10, <1>11, <1>12, <1>13, <1>14, <1>15 DEF LinkInv

\* Or refused.
LEMMA ListenRefuse ==
    ASSUME LinkInv, Listen, Decoded("BeginUpdate"), ~image.fits
    PROVE  LinkInv'
<1>0. /\ TypeOK /\ Progress /\ Alone /\ Announced /\ Streaming
      /\ Readies /\ Outcome /\ Operator /\ Smooth
  BY DEF LinkInv
<1>1. UNCHANGED hostVars
  BY DEF Listen
<1>2. /\ Take /\ Feed
      /\ UNCHANGED <<left, intact, request, promote, running, resets, early, transport>>
      /\ UNCHANGED <<tool, task, step, block, seen, sent, image, verdict>>
      /\ UNCHANGED slot
      /\ dev = "listen"
      /\ acc = "BeginUpdate"
      /\ dev' = "handover"
      /\ up' = Append(up, "UpdateResult")
      /\ flush' = TRUE
  BY <1>0 DEF Listen, hostVars, Begin, Reply, Decoded
<1>3. /\ down' \in Seq(Bytes)
      /\ Len(down') = Len(down) - 1
      /\ Closing(down')
      /\ down # <<>>
      /\ ~flush
      /\ Head(down) \in Bytes
      /\ \A m : In(m, down) <=> (m = Head(down) \/ In(m, down'))
      /\ acc = "BeginUpdate" => down' = <<>> /\ Head(down) = "end"
  BY <1>2, Takes
<1>4. /\ acc' \in {"clean", "junk"} \cup ToDevice
      /\ acc' \in ToDevice => acc' = Head(down)
      /\ Pending' => Pending
      /\ acc' = "BeginUpdate" => JustEnd(down')
      /\ acc = "BeginUpdate" => ~Pending'
  BY <1>2, Feeds
<1>5. /\ up' \in Seq(ToHost)
      /\ \A m : In(m, up') <=> (In(m, up) \/ m = "UpdateResult")
      /\ OneReady(up')
  BY <1>0, <1>2, Appended DEF TypeOK, Readies, ToHost, StateMessage
<1>6. ChannelTypes'
  BY <1>0, <1>2, <1>3, <1>5, Numbers DEF TypeOK, ChannelTypes
<1>7. Pending /\ ~Pending' /\ ~InHand'
  BY <1>2, <1>4 DEF Pending, InHand
<1>8. TypeOK'
  <2>1. DeviceTypes'
    BY <1>0, <1>2, <1>4 DEF TypeOK, DeviceTypes
  <2>2. ChannelTypes'
    BY <1>6
  <2>3. HostTypes'
    BY <1>0, <1>1, HostKept
  <2>4. QED
    BY <2>1, <2>2, <2>3 DEF TypeOK, DeviceTypes, ChannelTypes, HostTypes
<1>9. Progress'
  BY <1>0, <1>2, <1>3 DEF Progress, Quiet, Before, Pending, InHand
<1>10. Alone'
  BY <1>0, <1>2, <1>3, <1>4 DEF Alone
<1>11. Announced'
  BY <1>0, <1>7 DEF Announced, Pending, InHand, Waits, Attached, Live
<1>12. Streaming'
  BY <1>0, <1>2 DEF Streaming
<1>13. Readies'
  BY <1>0, <1>2, <1>5 DEF Readies, Waits
<1>14. Outcome'
  BY <1>0, <1>2, <1>5, <1>7 DEF Outcome, Pending, InHand, Announced
<1>15. Operator'
  BY <1>0, <1>2, <1>3, <1>4, <1>5 DEF Operator, ToDevice, Bytes
<1>16. Smooth'
  BY <1>0, <1>2, <1>3, <1>5 DEF Smooth, Undisturbed, Attached, Live
<1>17. QED
  BY <1>8, <1>9, <1>10, <1>11, <1>12, <1>13, <1>14, <1>15, <1>16 DEF LinkInv

\* Anything else is dropped.
LEMMA ListenDrops ==
    ASSUME LinkInv, Listen, ~Decoded("Ping"), ~Decoded("BeginUpdate")
    PROVE  LinkInv'
<1>0. /\ TypeOK /\ Progress /\ Alone /\ Announced /\ Streaming
      /\ Readies /\ Outcome /\ Operator /\ Smooth
  BY DEF LinkInv
<1>1. UNCHANGED hostVars
  BY DEF Listen
<1>2. /\ Take /\ Feed
      /\ UNCHANGED <<dev, flush, left, intact, request, promote, running, resets, early, transport>>
      /\ UNCHANGED <<tool, task, step, block, seen, sent, image, verdict>>
      /\ UNCHANGED slot
      /\ dev = "listen"
      /\ UNCHANGED up
  BY <1>0 DEF Listen, hostVars
<1>3. /\ down' \in Seq(Bytes)
      /\ Len(down') = Len(down) - 1
      /\ Closing(down')
      /\ down # <<>>
      /\ ~flush
      /\ Head(down) \in Bytes
      /\ \A m : In(m, down) <=> (m = Head(down) \/ In(m, down'))
      /\ acc = "BeginUpdate" => down' = <<>> /\ Head(down) = "end"
  BY <1>2, Takes
<1>4. /\ acc' \in {"clean", "junk"} \cup ToDevice
      /\ acc' \in ToDevice => acc' = Head(down)
      /\ Pending' => Pending
      /\ acc' = "BeginUpdate" => JustEnd(down')
      /\ acc = "BeginUpdate" => ~Pending'
  BY <1>2, Feeds
<1>5. ChannelTypes'
  BY <1>0, <1>2, <1>3, Numbers DEF TypeOK, ChannelTypes
<1>6. TypeOK'
  <2>1. DeviceTypes'
    BY <1>0, <1>2, <1>4 DEF TypeOK, DeviceTypes
  <2>2. ChannelTypes'
    BY <1>5
  <2>3. HostTypes'
    BY <1>0, <1>1, HostKept
  <2>4. QED
    BY <2>1, <2>2, <2>3 DEF TypeOK, DeviceTypes, ChannelTypes, HostTypes
<1>7. Progress'
  BY <1>0, <1>2, <1>3, <1>4 DEF Progress, Quiet, Before, Pending, InHand
<1>8. Alone'
  BY <1>0, <1>2, <1>3, <1>4 DEF Alone
<1>9. Announced'
  BY <1>0, <1>2, <1>4 DEF Announced, Pending, InHand, Waits, Attached, Live
<1>10. Streaming'
  BY <1>0, <1>2 DEF Streaming
<1>11. Readies'
  BY <1>0, <1>2 DEF Readies, Waits
<1>12. Outcome'
  BY <1>0, <1>2, <1>4 DEF Outcome, Pending, InHand
<1>13. Operator'
  BY <1>0, <1>2, <1>3, <1>4 DEF Operator, ToDevice, Bytes
<1>14. Smooth'
  BY <1>0, <1>2, <1>3 DEF Smooth, Undisturbed, Attached, Live
<1>15. QED
  BY <1>6, <1>7, <1>8, <1>9, <1>10, <1>11, <1>12, <1>13, <1>14 DEF LinkInv

\* The application answers a poll.
LEMMA AppPing ==
    ASSUME LinkInv, App, Decoded("Ping")
    PROVE  LinkInv'
<1>0. /\ TypeOK /\ Progress /\ Alone /\ Announced /\ Streaming
      /\ Readies /\ Outcome /\ Operator /\ Smooth
  BY DEF LinkInv
<1>1. UNCHANGED hostVars
  BY DEF App
<1>2. /\ Take /\ Feed
      /\ UNCHANGED <<dev, left, intact, request, promote, running, resets, early, transport>>
      /\ UNCHANGED <<tool, task, step, block, seen, sent, image, verdict>>
      /\ UNCHANGED slot
      /\ dev = "app"
      /\ acc = "Ping"
      /\ up' = Append(up, "Pong")
      /\ flush' = TRUE
  BY <1>0 DEF App, hostVars, Reply, Decoded
<1>3. /\ down' \in Seq(Bytes)
      /\ Len(down') = Len(down) - 1
      /\ Closing(down')
      /\ down # <<>>
      /\ ~flush
      /\ Head(down) \in Bytes
      /\ \A m : In(m, down) <=> (m = Head(down) \/ In(m, down'))
      /\ acc = "BeginUpdate" => down' = <<>> /\ Head(down) = "end"
  BY <1>2, Takes
<1>4. /\ acc' \in {"clean", "junk"} \cup ToDevice
      /\ acc' \in ToDevice => acc' = Head(down)
      /\ Pending' => Pending
      /\ acc' = "BeginUpdate" => JustEnd(down')
      /\ acc = "BeginUpdate" => ~Pending'
  BY <1>2, Feeds
<1>5. /\ up' \in Seq(ToHost)
      /\ \A m : In(m, up') <=> (In(m, up) \/ m = "Pong")
      /\ OneReady(up')
  BY <1>0, <1>2, Appended DEF TypeOK, Readies, ToHost, StateMessage
<1>6. ChannelTypes'
  BY <1>0, <1>2, <1>3, <1>5, Numbers DEF TypeOK, ChannelTypes
<1>7. TypeOK'
  <2>1. DeviceTypes'
    BY <1>0, <1>2, <1>4 DEF TypeOK, DeviceTypes
  <2>2. ChannelTypes'
    BY <1>6
  <2>3. HostTypes'
    BY <1>0, <1>1, HostKept
  <2>4. QED
    BY <2>1, <2>2, <2>3 DEF TypeOK, DeviceTypes, ChannelTypes, HostTypes
<1>8. Progress'
  BY <1>0, <1>2, <1>3, <1>4, <1>5 DEF Progress, Quiet, Before, Pending, InHand
<1>9. Alone'
  BY <1>0, <1>2, <1>3, <1>4 DEF Alone
<1>10. Announced'
  BY <1>0, <1>2, <1>4, <1>5 DEF Announced, Pending, InHand, Waits, Attached, Live
<1>11. Streaming'
  BY <1>0, <1>2 DEF Streaming
<1>12. Readies'
  BY <1>0, <1>2, <1>5 DEF Readies, Waits
<1>13. Outcome'
  BY <1>0, <1>2, <1>4, <1>5 DEF Outcome, Pending, InHand
<1>14. Operator'
  BY <1>0, <1>2 DEF Operator, ToDevice, Bytes
<1>15. Smooth'
  BY <1>0, <1>2, <1>3, <1>5 DEF Smooth, Undisturbed, Attached, Live
<1>16. QED
  BY <1>7, <1>8, <1>9, <1>10, <1>11, <1>12, <1>13, <1>14, <1>15 DEF LinkInv

\* The application says its version.
LEMMA AppState ==
    ASSUME LinkInv, App, Decoded("GetState")
    PROVE  LinkInv'
<1>0. /\ TypeOK /\ Progress /\ Alone /\ Announced /\ Streaming
      /\ Readies /\ Outcome /\ Operator /\ Smooth
  BY DEF LinkInv
<1>1. UNCHANGED hostVars
  BY DEF App
<1>2. /\ Take /\ Feed
      /\ UNCHANGED <<dev, left, intact, request, promote, running, resets, early, transport>>
      /\ UNCHANGED <<tool, task, step, block, seen, sent, image, verdict>>
      /\ UNCHANGED slot
      /\ dev = "app"
      /\ acc = "GetState"
      /\ up' = Append(up, StateMessage)
      /\ flush' = TRUE
  BY <1>0 DEF App, hostVars, Reply, Decoded
<1>3. /\ down' \in Seq(Bytes)
      /\ Len(down') = Len(down) - 1
      /\ Closing(down')
      /\ down # <<>>
      /\ ~flush
      /\ Head(down) \in Bytes
      /\ \A m : In(m, down) <=> (m = Head(down) \/ In(m, down'))
      /\ acc = "BeginUpdate" => down' = <<>> /\ Head(down) = "end"
  BY <1>2, Takes
<1>4. /\ acc' \in {"clean", "junk"} \cup ToDevice
      /\ acc' \in ToDevice => acc' = Head(down)
      /\ Pending' => Pending
      /\ acc' = "BeginUpdate" => JustEnd(down')
      /\ acc = "BeginUpdate" => ~Pending'
  BY <1>2, Feeds
<1>5. /\ up' \in Seq(ToHost)
      /\ \A m : In(m, up') <=> (In(m, up) \/ m = StateMessage)
      /\ OneReady(up')
  BY <1>0, <1>2, Appended DEF TypeOK, Readies, ToHost, StateMessage
<1>6. ChannelTypes'
  BY <1>0, <1>2, <1>3, <1>5, Numbers DEF TypeOK, ChannelTypes
<1>7. StateMessage \in {"StateOld", "StateNew"} /\ (StateMessage = "StateNew" => running = "new")
  BY DEF StateMessage
<1>8. TypeOK'
  <2>1. DeviceTypes'
    BY <1>0, <1>2, <1>4 DEF TypeOK, DeviceTypes
  <2>2. ChannelTypes'
    BY <1>6
  <2>3. HostTypes'
    BY <1>0, <1>1, HostKept
  <2>4. QED
    BY <2>1, <2>2, <2>3 DEF TypeOK, DeviceTypes, ChannelTypes, HostTypes
<1>9. Progress'
  BY <1>0, <1>2, <1>3, <1>4, <1>5, <1>7 DEF Progress, Quiet, Before, Pending, InHand
<1>10. Alone'
  BY <1>0, <1>2, <1>3, <1>4 DEF Alone
<1>11. Announced'
  BY <1>0, <1>2, <1>4, <1>5, <1>7 DEF Announced, Pending, InHand, Waits, Attached, Live
<1>12. Streaming'
  BY <1>0, <1>2 DEF Streaming
<1>13. Readies'
  BY <1>0, <1>2, <1>5, <1>7 DEF Readies, Waits
<1>14. Outcome'
  BY <1>0, <1>2, <1>4, <1>5, <1>7 DEF Outcome, Pending, InHand
<1>15. Operator'
  BY <1>0, <1>2 DEF Operator, ToDevice, Bytes
<1>16. Smooth'
  BY <1>0, <1>2, <1>3, <1>5, <1>7 DEF Smooth, Undisturbed, Attached, Live
<1>17. QED
  BY <1>8, <1>9, <1>10, <1>11, <1>12, <1>13, <1>14, <1>15, <1>16 DEF LinkInv

\* Anything else is dropped.
LEMMA AppDrops ==
    ASSUME LinkInv, App, ~Decoded("Ping"), ~Decoded("GetState")
    PROVE  LinkInv'
<1>0. /\ TypeOK /\ Progress /\ Alone /\ Announced /\ Streaming
      /\ Readies /\ Outcome /\ Operator /\ Smooth
  BY DEF LinkInv
<1>1. UNCHANGED hostVars
  BY DEF App
<1>2. /\ Take /\ Feed
      /\ UNCHANGED <<dev, flush, left, intact, request, promote, running, resets, early, transport>>
      /\ UNCHANGED <<tool, task, step, block, seen, sent, image, verdict>>
      /\ UNCHANGED slot
      /\ dev = "app"
      /\ UNCHANGED up
  BY <1>0 DEF App, hostVars
<1>3. /\ down' \in Seq(Bytes)
      /\ Len(down') = Len(down) - 1
      /\ Closing(down')
      /\ down # <<>>
      /\ ~flush
      /\ Head(down) \in Bytes
      /\ \A m : In(m, down) <=> (m = Head(down) \/ In(m, down'))
      /\ acc = "BeginUpdate" => down' = <<>> /\ Head(down) = "end"
  BY <1>2, Takes
<1>4. /\ acc' \in {"clean", "junk"} \cup ToDevice
      /\ acc' \in ToDevice => acc' = Head(down)
      /\ Pending' => Pending
      /\ acc' = "BeginUpdate" => JustEnd(down')
      /\ acc = "BeginUpdate" => ~Pending'
  BY <1>2, Feeds
<1>5. ChannelTypes'
  BY <1>0, <1>2, <1>3, Numbers DEF TypeOK, ChannelTypes
<1>6. TypeOK'
  <2>1. DeviceTypes'
    BY <1>0, <1>2, <1>4 DEF TypeOK, DeviceTypes
  <2>2. ChannelTypes'
    BY <1>5
  <2>3. HostTypes'
    BY <1>0, <1>1, HostKept
  <2>4. QED
    BY <2>1, <2>2, <2>3 DEF TypeOK, DeviceTypes, ChannelTypes, HostTypes
<1>7. Progress'
  BY <1>0, <1>2, <1>3, <1>4 DEF Progress, Quiet, Before, Pending, InHand
<1>8. Alone'
  BY <1>0, <1>2, <1>3, <1>4 DEF Alone
<1>9. Announced'
  BY <1>0, <1>2, <1>4 DEF Announced, Pending, InHand, Waits, Attached, Live
<1>10. Streaming'
  BY <1>0, <1>2 DEF Streaming
<1>11. Readies'
  BY <1>0, <1>2 DEF Readies, Waits
<1>12. Outcome'
  BY <1>0, <1>2, <1>4 DEF Outcome, Pending, InHand
<1>13. Operator'
  BY <1>0, <1>2, <1>3, <1>4 DEF Operator, ToDevice, Bytes
<1>14. Smooth'
  BY <1>0, <1>2, <1>3 DEF Smooth, Undisturbed, Attached, Live
<1>15. QED
  BY <1>6, <1>7, <1>8, <1>9, <1>10, <1>11, <1>12, <1>13, <1>14 DEF LinkInv

\* A byte of the body is streamed.
LEMMA StreamByteStep ==
    ASSUME LinkInv, StreamByte
    PROVE  LinkInv'
<1>0. /\ TypeOK /\ Progress /\ Alone /\ Announced /\ Streaming
      /\ Readies /\ Outcome /\ Operator /\ Smooth
  BY DEF LinkInv
<1>1. UNCHANGED hostVars
  BY DEF StreamByte
<1>2. /\ Take
      /\ UNCHANGED <<dev, flush, acc, request, promote, running, resets, early, transport>>
      /\ UNCHANGED <<tool, task, step, block, seen, sent, image, verdict>>
      /\ UNCHANGED slot
      /\ dev = "stream"
      /\ left > 0
      /\ left' = left - 1
      /\ intact' = (intact /\ Head(down) = "body")
      /\ UNCHANGED up
  BY <1>0 DEF StreamByte, hostVars
<1>3. /\ down' \in Seq(Bytes)
      /\ Len(down') = Len(down) - 1
      /\ Closing(down')
      /\ down # <<>>
      /\ ~flush
      /\ Head(down) \in Bytes
      /\ \A m : In(m, down) <=> (m = Head(down) \/ In(m, down'))
      /\ acc = "BeginUpdate" => down' = <<>> /\ Head(down) = "end"
  BY <1>2, Takes
<1>4. Pending' => Pending
  BY <1>2, <1>3 DEF Pending
<1>5. ChannelTypes'
  BY <1>0, <1>2, <1>3, Numbers DEF TypeOK, ChannelTypes
<1>6. Head(down) = "body" /\ intact' = intact
  BY <1>0, <1>2, <1>3 DEF Streaming, TypeOK
<1>7. TypeOK'
  <2>1. DeviceTypes'
    BY <1>0, <1>2, Numbers DEF TypeOK, DeviceTypes
  <2>2. ChannelTypes'
    BY <1>5
  <2>3. HostTypes'
    BY <1>0, <1>1, HostKept
  <2>4. QED
    BY <2>1, <2>2, <2>3 DEF TypeOK, DeviceTypes, ChannelTypes, HostTypes
<1>8. Progress'
  BY <1>0, <1>2, <1>3 DEF Progress, Quiet, Before, Pending, InHand
<1>9. Alone'
  BY <1>0, <1>2, <1>3, <1>6 DEF Alone
<1>10. Announced'
  BY <1>0, <1>2, <1>4 DEF Announced, Pending, InHand, Waits, Attached, Live
<1>11. Streaming'
  BY <1>0, <1>2, <1>3, <1>6, Numbers DEF Streaming
<1>12. Readies'
  BY <1>0, <1>2 DEF Readies, Waits
<1>13. Outcome'
  BY <1>0, <1>2 DEF Outcome, Pending, InHand
<1>14. Operator'
  BY <1>0, <1>2, <1>3 DEF Operator
<1>15. Smooth'
  BY <1>0, <1>2, <1>3, <1>6 DEF Smooth, Undisturbed, Attached, Live
<1>16. QED
  BY <1>7, <1>8, <1>9, <1>10, <1>11, <1>12, <1>13, <1>14, <1>15 DEF LinkInv

\* The host has read the report.
LEMMA AcknowledgedStep ==
    ASSUME LinkInv, Acknowledged
    PROVE  LinkInv'
<1>0. /\ TypeOK /\ Progress /\ Alone /\ Announced /\ Streaming
      /\ Readies /\ Outcome /\ Operator /\ Smooth
  BY DEF LinkInv
<1>1. UNCHANGED hostVars
  BY DEF Acknowledged
<1>2. /\ Take
      /\ UNCHANGED <<flush, left, intact, acc, request, promote, running, resets, early, transport>>
      /\ UNCHANGED <<tool, task, step, block, seen, sent, image, verdict>>
      /\ UNCHANGED slot
      /\ dev = "handover"
      /\ dev' = "boot"
      /\ UNCHANGED up
  BY <1>0 DEF Acknowledged, hostVars
<1>3. /\ down' \in Seq(Bytes)
      /\ Len(down') = Len(down) - 1
      /\ Closing(down')
      /\ down # <<>>
      /\ ~flush
      /\ Head(down) \in Bytes
      /\ \A m : In(m, down) <=> (m = Head(down) \/ In(m, down'))
      /\ acc = "BeginUpdate" => down' = <<>> /\ Head(down) = "end"
  BY <1>2, Takes
<1>4. Pending' => Pending
  BY <1>2, <1>3 DEF Pending
<1>5. ChannelTypes'
  BY <1>0, <1>2, <1>3, Numbers DEF TypeOK, ChannelTypes
<1>6. TypeOK'
  <2>1. DeviceTypes'
    BY <1>0, <1>2 DEF TypeOK, DeviceTypes
  <2>2. ChannelTypes'
    BY <1>5
  <2>3. HostTypes'
    BY <1>0, <1>1, HostKept
  <2>4. QED
    BY <2>1, <2>2, <2>3 DEF TypeOK, DeviceTypes, ChannelTypes, HostTypes
<1>7. Progress'
  BY <1>0, <1>2, <1>3 DEF Progress, Quiet, Before, Pending, InHand
<1>8. Alone'
  BY <1>0, <1>2, <1>3, Nothing DEF Alone
<1>9. Announced'
  BY <1>0, <1>2, <1>4 DEF Announced, Pending, InHand, Waits, Attached, Live
<1>10. Streaming'
  BY <1>0, <1>2 DEF Streaming
<1>11. Readies'
  BY <1>0, <1>2 DEF Readies, Waits
<1>12. Outcome'
  BY <1>0, <1>2, <1>4 DEF Outcome, Pending, InHand
<1>13. Operator'
  BY <1>0, <1>2, <1>3 DEF Operator
<1>14. Smooth'
  BY <1>0, <1>2, <1>3 DEF Smooth, Undisturbed, Attached, Live
<1>15. QED
  BY <1>6, <1>7, <1>8, <1>9, <1>10, <1>11, <1>12, <1>13, <1>14 DEF LinkInv

\* The bank condemned, BOOT asks for the body.
LEMMA CondemnReady ==
    ASSUME LinkInv, Condemn, dev' = "stream"
    PROVE  LinkInv'
<1>0. /\ TypeOK /\ Progress /\ Alone /\ Announced /\ Streaming
      /\ Readies /\ Outcome /\ Operator /\ Smooth
  BY DEF LinkInv
<1>1. UNCHANGED hostVars
  BY DEF Condemn
<1>2. /\ up' = Append(up, "Ready")
      /\ flush' = TRUE
      /\ UNCHANGED <<acc, request, promote, running, resets, early, transport>>
      /\ UNCHANGED <<down, slot>>
      /\ UNCHANGED <<tool, task, step, block, seen, sent, image, verdict>>
      /\ dev = "condemn"
      /\ ~flush
      /\ dev' = "stream"
      /\ left' = BodyLen
      /\ intact' = TRUE
  BY DEF Condemn, Reply, hostVars, Report
<1>3. /\ up' \in Seq(ToHost)
      /\ \A m : In(m, up') <=> (In(m, up) \/ m = "Ready")
      /\ ~In("Ready", up) => OneReady(up')
  BY <1>0, <1>2, Appended DEF TypeOK, Readies, ToHost
<1>4. /\ ~Pending /\ Waits /\ InHand /\ down = <<>>
      /\ acc = "clean" /\ Len(down) = 0 /\ (\A m : ~In(m, down))
  BY <1>0, <1>2, Nothing DEF Pending, InHand, Alone, Announced
<1>5. TypeOK'
  <2>1. DeviceTypes'
    BY <1>0, <1>2, Numbers DEF TypeOK, DeviceTypes
  <2>2. ChannelTypes'
    BY <1>0, <1>2, <1>3 DEF TypeOK, ChannelTypes
  <2>3. HostTypes'
    BY <1>0, <1>1, HostKept
  <2>4. QED
    BY <2>1, <2>2, <2>3 DEF TypeOK, DeviceTypes, ChannelTypes, HostTypes
<1>6. Progress'
  BY <1>0, <1>2 DEF Progress, Quiet, Before, Pending, InHand
<1>7. Alone'
  BY <1>0, <1>2 DEF Alone
<1>8. Announced'
  BY <1>0, <1>2, <1>3 DEF Announced, Pending, InHand, Waits, Attached, Live
<1>9. Streaming'
  BY <1>0, <1>2, <1>4, Numbers DEF Streaming
<1>10. Readies'
  BY <1>0, <1>2, <1>3 DEF Readies, Waits, Announced
<1>11. Outcome'
  BY <1>0, <1>2, <1>3 DEF Outcome, Pending, InHand
<1>12. Operator'
  BY <1>0, <1>2, <1>3 DEF Operator
<1>13. Smooth'
  BY <1>0, <1>2, <1>3 DEF Smooth, Undisturbed, Attached, Live
<1>14. QED
  BY <1>5, <1>6, <1>7, <1>8, <1>9, <1>10, <1>11, <1>12, <1>13 DEF LinkInv

\* The bank could not be condemned.
LEMMA CondemnFails ==
    ASSUME LinkInv, Condemn, dev' # "stream"
    PROVE  LinkInv'
<1>0. /\ TypeOK /\ Progress /\ Alone /\ Announced /\ Streaming
      /\ Readies /\ Outcome /\ Operator /\ Smooth
  BY DEF LinkInv
<1>1. UNCHANGED hostVars
  BY DEF Condemn
<1>2. /\ up' = Append(up, "UpdateResult")
      /\ flush' = TRUE
      /\ UNCHANGED <<left, intact, acc, running, resets, early, transport>>
      /\ UNCHANGED <<down, slot>>
      /\ UNCHANGED <<tool, task, step, block, seen, sent, image, verdict>>
      /\ dev = "condemn"
      /\ ~flush
      /\ dev' = "handover"
      /\ request' \in BOOLEAN /\ promote' \in BOOLEAN
  BY <1>0 DEF Condemn, Refused, Reply, hostVars, Report, TypeOK
<1>3. /\ up' \in Seq(ToHost)
      /\ \A m : In(m, up') <=> (In(m, up) \/ m = "UpdateResult")
      /\ OneReady(up')
  BY <1>0, <1>2, Appended DEF TypeOK, Readies, ToHost
<1>4. (Before' <=> Before) /\ (Waits' <=> Waits) /\ (Attached' <=> Attached) /\ (Pending' <=> Pending)
  BY <1>2 DEF Before, Waits, Attached, Live, Pending
<1>5. ~Pending /\ Waits /\ InHand /\ ~InHand' /\ down = <<>> /\ acc = "clean" /\ (\A m : ~In(m, down))
  BY <1>0, <1>2, Nothing DEF Pending, InHand, Alone, Announced
<1>6. TypeOK'
  <2>1. DeviceTypes'
    BY <1>0, <1>2 DEF TypeOK, DeviceTypes
  <2>2. ChannelTypes'
    BY <1>0, <1>2, <1>3 DEF TypeOK, ChannelTypes
  <2>3. HostTypes'
    BY <1>0, <1>1, HostKept
  <2>4. QED
    BY <2>1, <2>2, <2>3 DEF TypeOK, DeviceTypes, ChannelTypes, HostTypes
<1>7. Progress'
  BY <1>0, <1>2 DEF Progress, Quiet, Before, Pending, InHand
<1>8. Alone'
  BY <1>0, <1>2 DEF Alone
<1>9. Announced'
  BY <1>0, <1>4, <1>5 DEF Announced, Pending, InHand, Waits, Attached, Live
<1>10. Streaming'
  BY <1>0 DEF Streaming
<1>11. Readies'
  BY <1>0, <1>2, <1>3 DEF Readies, Waits
<1>12. Outcome'
  BY <1>0, <1>2, <1>3 DEF Outcome, Pending, InHand, Announced
<1>13. Operator'
  BY <1>0, <1>2, <1>3 DEF Operator
<1>14. Smooth'
  BY <1>0, <1>2, <1>3 DEF Smooth, Undisturbed, Attached, Live
<1>15. QED
  BY <1>6, <1>7, <1>8, <1>9, <1>10, <1>11, <1>12, <1>13, <1>14 DEF LinkInv

\* The host, gone silent in mid-stream, has nothing more to send.
LEMMA ByteTimeoutStep ==
    ASSUME LinkInv, ByteTimeout
    PROVE  LinkInv'
<1>0. /\ TypeOK /\ Progress /\ Alone /\ Announced /\ Streaming
      /\ Readies /\ Outcome /\ Operator /\ Smooth
  BY DEF LinkInv
<1>1. UNCHANGED hostVars
  BY DEF ByteTimeout
<1>2. /\ dev = "stream"
      /\ down = <<>>
      /\ ~flush
      /\ left' = 0
      /\ intact' = FALSE
      /\ UNCHANGED <<dev, flush, acc, request, promote, running, resets, early, transport>>
      /\ UNCHANGED <<down, up, slot>>
      /\ UNCHANGED <<tool, task, step, block, seen, sent, image, verdict>>
  BY DEF ByteTimeout, hostVars
<1>3. /\ (Before' <=> Before) /\ (Waits' <=> Waits) /\ (Attached' <=> Attached)
      /\ (Pending' <=> Pending) /\ (InHand' <=> InHand) /\ InHand
  BY <1>2 DEF Pending, Before, Waits, InHand, Attached, Live
<1>4. Attached /\ task # "body" /\ (task = "begin" => ~In("Ready", up)) /\ (Waits \/ task = "result")
  BY <1>0, <1>3 DEF Announced, ByteTimeout, HostWillStream, In
<1>5. left' \in 0 .. BodyLen
  BY <1>0, <1>2, Numbers
<1>6. TypeOK'
  <2>1. DeviceTypes'
    BY <1>0, <1>2, <1>5 DEF TypeOK, DeviceTypes
  <2>2. ChannelTypes'
    BY <1>0, <1>2 DEF TypeOK, ChannelTypes
  <2>3. HostTypes'
    BY <1>0, <1>1, HostKept
  <2>4. QED
    BY <2>1, <2>2, <2>3 DEF TypeOK, DeviceTypes, ChannelTypes, HostTypes
<1>7. Progress'
  BY <1>0, <1>2 DEF Progress, Quiet, Before, Pending, InHand
<1>8. Alone'
  BY <1>0, <1>2 DEF Alone
<1>9. Announced'
  BY <1>0, <1>2 DEF Announced, Pending, InHand, Waits, Attached, Live
<1>10. Streaming'
  BY <1>0, <1>2 DEF Streaming
<1>11. Readies'
  BY <1>0, <1>2 DEF Readies, Waits
<1>12. Outcome'
  BY <1>0, <1>2 DEF Outcome, Pending, InHand
<1>13. Operator'
  BY <1>0, <1>2 DEF Operator
<1>14. Smooth'
  BY <1>0, <1>2, <1>4 DEF Smooth, Undisturbed, Attached, Live, Waits
<1>15. QED
  BY <1>6, <1>7, <1>8, <1>9, <1>10, <1>11, <1>12, <1>13, <1>14 DEF LinkInv

\* The whole image came, and is sound.
LEMMA InstallGood ==
    ASSUME LinkInv, Install, dev' = "boot"
    PROVE  LinkInv'
<1>0. /\ TypeOK /\ Progress /\ Alone /\ Announced /\ Streaming
      /\ Readies /\ Outcome /\ Operator /\ Smooth
  BY DEF LinkInv
<1>1. UNCHANGED hostVars
  BY DEF Install
<1>2. /\ ComeUpWith("BOOT", "boot", up)
      /\ UNCHANGED <<left, intact, request, resets, early, transport>>
      /\ UNCHANGED <<tool, task, step, block, seen, sent, image, verdict>>
      /\ dev = "stream"
      /\ running' = "new" /\ promote' = FALSE
      /\ intact
      /\ left = 0
  BY DEF Install, Accepted, Report, ComeUp, hostVars
<1>3. /\ dev' = "boot"
      /\ flush' = FALSE
      /\ acc' = "clean"
      /\ Closing(down')
      /\ Pending' => Pending /\ transport = "rs485"
      /\ \A m : In(m, down') => In(m, down)
      /\ \A m : In(m, up') => In(m, up)
      /\ OneReady(up')
      /\ down' \in Seq(Bytes) /\ Len(down') <= Len(down) /\ Len(down') \in Nat
      /\ up' \in Seq(ToHost)
      /\ slot' \in [magic : BOOLEAN, addr : {"APP", "BOOT"}]
  BY <1>0, <1>2, ComesUp, Nothing DEF TypeOK, Readies
<1>4. ChannelTypes'
  BY <1>0, <1>3, Numbers DEF TypeOK, ChannelTypes
<1>5. (Before' <=> Before) /\ (Waits' <=> Waits) /\ ~InHand'
  BY <1>2, <1>3 DEF Before, Waits, InHand
<1>6. /\ ~Pending /\ ~In("UpdateResult", up) /\ running # "new"
      /\ verdict # "rejected" /\ Attached /\ (Waits \/ task \in {"body", "result"})
  BY <1>0, <1>2 DEF InHand, Announced, Outcome
<1>7. intact /\ left = 0 => sent = BodyLen /\ down = <<>> /\ BodyLen > 0
  BY <1>0, <1>2, Numbers DEF TypeOK, Streaming
<1>8. sent # 0 /\ (\A m : ~In(m, down)) /\ ~In("Ready", up) /\ ~Pending'
  BY <1>0, <1>2, <1>3, <1>6, <1>7, Nothing DEF Readies
<1>9. task # "body"
  BY <1>0, <1>2, <1>7, Numbers DEF Progress
<1>10. TypeOK'
  <2>1. DeviceTypes'
    BY <1>0, <1>2, <1>3 DEF TypeOK, DeviceTypes
  <2>2. ChannelTypes'
    BY <1>4
  <2>3. HostTypes'
    BY <1>0, <1>1, HostKept
  <2>4. QED
    BY <2>1, <2>2, <2>3 DEF TypeOK, DeviceTypes, ChannelTypes, HostTypes
<1>11. Progress'
  BY <1>0, <1>2, <1>7 DEF Progress, Quiet, Before, Pending, InHand
<1>12. Alone'
  BY <1>0, <1>3 DEF Alone
<1>13. Announced'
  BY <1>0, <1>5, <1>8 DEF Announced, Pending, InHand, Waits, Attached, Live
<1>14. Streaming'
  BY <1>0, <1>3 DEF Streaming
<1>15. Readies'
  BY <1>0, <1>3, <1>8 DEF Readies, Waits
<1>16. Outcome'
  BY <1>0, <1>2, <1>3, <1>7 DEF Outcome, Pending, InHand
<1>17. Operator'
  BY <1>0, <1>2, <1>3 DEF Operator
<1>18. Smooth'
  BY <1>0, <1>2, <1>3, <1>8, <1>9 DEF Smooth, Undisturbed, Attached, Live
<1>19. QED
  BY <1>10, <1>11, <1>12, <1>13, <1>14, <1>15, <1>16, <1>17, <1>18 DEF LinkInv

\* It did not come whole, is not sound, or could not be recorded.
LEMMA InstallBad ==
    ASSUME LinkInv, Install, dev' # "boot"
    PROVE  LinkInv'
<1>0. /\ TypeOK /\ Progress /\ Alone /\ Announced /\ Streaming
      /\ Readies /\ Outcome /\ Operator /\ Smooth
  BY DEF LinkInv
<1>1. UNCHANGED hostVars
  BY DEF Install
<1>2. /\ up' = Append(up, "UpdateResult")
      /\ flush' = TRUE
      /\ UNCHANGED <<left, intact, acc, running, resets, early, transport>>
      /\ UNCHANGED <<down, slot>>
      /\ UNCHANGED <<tool, task, step, block, seen, sent, image, verdict>>
      /\ dev = "stream"
      /\ ~flush
      /\ dev' = "handover"
      /\ left = 0
      /\ request' \in BOOLEAN /\ promote' \in BOOLEAN
  BY <1>0 DEF Install, Refused, ComeUp, ComeUpWith, Reply, hostVars, Report, TypeOK
<1>3. /\ up' \in Seq(ToHost)
      /\ \A m : In(m, up') <=> (In(m, up) \/ m = "UpdateResult")
      /\ OneReady(up')
  BY <1>0, <1>2, Appended DEF TypeOK, Readies, ToHost
<1>4. (Before' <=> Before) /\ (Waits' <=> Waits) /\ (Attached' <=> Attached) /\ (Pending' <=> Pending)
  BY <1>2 DEF Before, Waits, Attached, Live, Pending
<1>5. /\ ~Pending /\ ~In("UpdateResult", up) /\ running # "new"
      /\ verdict # "rejected" /\ Attached /\ (Waits \/ task \in {"body", "result"})
  BY <1>0, <1>2 DEF InHand, Announced, Outcome
<1>6. intact /\ left = 0 => sent = BodyLen /\ down = <<>> /\ BodyLen > 0
  BY <1>0, <1>2, Numbers DEF TypeOK, Streaming
<1>7. Undisturbed => /\ down = <<>> /\ (\A m : ~In(m, down))
                     /\ task # "body" /\ (task = "begin" => ~In("Ready", up)) /\ verdict # "silent"
  BY <1>0, <1>2, <1>5, <1>6, Numbers, Nothing DEF Smooth, Progress
<1>8. ~InHand'
  BY <1>2 DEF InHand
<1>9. TypeOK'
  <2>1. DeviceTypes'
    BY <1>0, <1>2 DEF TypeOK, DeviceTypes
  <2>2. ChannelTypes'
    BY <1>0, <1>2, <1>3 DEF TypeOK, ChannelTypes
  <2>3. HostTypes'
    BY <1>0, <1>1, HostKept
  <2>4. QED
    BY <2>1, <2>2, <2>3 DEF TypeOK, DeviceTypes, ChannelTypes, HostTypes
<1>10. Progress'
  BY <1>0, <1>2 DEF Progress, Quiet, Before, Pending, InHand
<1>11. Alone'
  BY <1>0, <1>2 DEF Alone
<1>12. Announced'
  BY <1>0, <1>4, <1>5, <1>8 DEF Announced, Pending, InHand, Waits, Attached, Live
<1>13. Streaming'
  BY <1>0, <1>2 DEF Streaming
<1>14. Readies'
  BY <1>0, <1>2, <1>3 DEF Readies, Waits
<1>15. Outcome'
  BY <1>0, <1>2, <1>3, <1>5 DEF Outcome, Pending, InHand
<1>16. Operator'
  BY <1>0, <1>2, <1>3 DEF Operator
<1>17. Smooth'
  BY <1>0, <1>2, <1>3, <1>7 DEF Smooth, Undisturbed, Attached, Live
<1>18. QED
  BY <1>9, <1>10, <1>11, <1>12, <1>13, <1>14, <1>15, <1>16, <1>17 DEF LinkInv

\* The flash fails, in mid-stream or with the last word.
LEMMA FlashFailsStep ==
    ASSUME LinkInv, FlashFails
    PROVE  LinkInv'
<1>0. /\ TypeOK /\ Progress /\ Alone /\ Announced /\ Streaming
      /\ Readies /\ Outcome /\ Operator /\ Smooth
  BY DEF LinkInv
<1>1. UNCHANGED hostVars
  BY DEF FlashFails
<1>2. /\ up' = Append(up, "UpdateResult")
      /\ flush' = TRUE
      /\ UNCHANGED <<intact, acc, request, promote, running, resets, transport>>
      /\ UNCHANGED <<down, slot>>
      /\ UNCHANGED <<tool, task, step, block, seen, sent, image, verdict>>
      /\ dev = "stream"
      /\ ~flush
      /\ dev' = "handover"
      /\ left' = 0
      /\ early' = (early \/ left > 0)
  BY DEF FlashFails, Reply, hostVars, Report
<1>3. /\ up' \in Seq(ToHost)
      /\ \A m : In(m, up') <=> (In(m, up) \/ m = "UpdateResult")
      /\ OneReady(up')
  BY <1>0, <1>2, Appended DEF TypeOK, Readies, ToHost
<1>4. (Before' <=> Before) /\ (Waits' <=> Waits) /\ (Attached' <=> Attached) /\ (Pending' <=> Pending)
  BY <1>2 DEF Before, Waits, Attached, Live, Pending
<1>5. /\ ~Pending /\ ~In("UpdateResult", up) /\ running # "new"
      /\ verdict # "rejected" /\ Attached /\ (Waits \/ task \in {"body", "result"})
  BY <1>0, <1>2 DEF InHand, Announced, Outcome
<1>6. intact /\ left = 0 => sent = BodyLen /\ down = <<>> /\ BodyLen > 0
  BY <1>0, <1>2, Numbers DEF TypeOK, Streaming
<1>7. Undisturbed' => Undisturbed /\ left = 0
  <2>1. ~(left > 0) => left = 0
    BY <1>0, Numbers
  <2>2. QED
    BY ONLY <1>2, <2>1 DEF Undisturbed
<1>8. Undisturbed' => /\ down = <<>> /\ (\A m : ~In(m, down))
                      /\ task # "body" /\ (task = "begin" => ~In("Ready", up)) /\ verdict # "silent"
  BY <1>0, <1>2, <1>5, <1>6, <1>7, Numbers, Nothing DEF Smooth, Progress
<1>9. ~InHand'
  BY <1>2 DEF InHand
<1>10. TypeOK'
  <2>1. DeviceTypes'
    BY <1>0, <1>2, Numbers DEF TypeOK, DeviceTypes
  <2>2. ChannelTypes'
    BY <1>0, <1>2, <1>3 DEF TypeOK, ChannelTypes
  <2>3. HostTypes'
    BY <1>0, <1>1, HostKept
  <2>4. QED
    BY <2>1, <2>2, <2>3 DEF TypeOK, DeviceTypes, ChannelTypes, HostTypes
<1>11. Progress'
  BY <1>0, <1>2 DEF Progress, Quiet, Before, Pending, InHand
<1>12. Alone'
  BY <1>0, <1>2 DEF Alone
<1>13. Announced'
  BY <1>0, <1>4, <1>5, <1>9 DEF Announced, Pending, InHand, Waits, Attached, Live
<1>14. Streaming'
  BY <1>0, <1>2 DEF Streaming
<1>15. Readies'
  BY <1>0, <1>2, <1>3 DEF Readies, Waits
<1>16. Outcome'
  BY <1>0, <1>2, <1>3, <1>5 DEF Outcome, Pending, InHand
<1>17. Operator'
  BY <1>0, <1>2, <1>3 DEF Operator
<1>18. Smooth'
  BY <1>0, <1>2, <1>3, <1>8 DEF Smooth, Undisturbed, Attached, Live
<1>19. QED
  BY <1>10, <1>11, <1>12, <1>13, <1>14, <1>15, <1>16, <1>17, <1>18 DEF LinkInv

\* The host took no notice of the report, or is not there.
LEMMA HandoverTimeoutStep ==
    ASSUME LinkInv, HandoverTimeout
    PROVE  LinkInv'
<1>0. /\ TypeOK /\ Progress /\ Alone /\ Announced /\ Streaming
      /\ Readies /\ Outcome /\ Operator /\ Smooth
  BY DEF LinkInv
<1>1. UNCHANGED hostVars
  BY DEF HandoverTimeout
<1>2. /\ dev = "handover"
      /\ dev' = "boot"
      /\ down = <<>>
      /\ task \in {"begin", "done"} \/ ~Attached
      /\ UNCHANGED <<flush, left, intact, acc, request, promote, running, resets, early, transport>>
      /\ UNCHANGED <<down, up, slot>>
      /\ UNCHANGED <<tool, task, step, block, seen, sent, image, verdict>>
  BY DEF HandoverTimeout, hostVars
<1>3. TypeOK'
  <2>1. DeviceTypes'
    BY <1>0, <1>2 DEF TypeOK, DeviceTypes
  <2>2. ChannelTypes'
    BY <1>0, <1>2 DEF TypeOK, ChannelTypes
  <2>3. HostTypes'
    BY <1>0, <1>1, HostKept
  <2>4. QED
    BY <2>1, <2>2, <2>3 DEF TypeOK, DeviceTypes, ChannelTypes, HostTypes
<1>4. Progress'
  BY <1>0, <1>2 DEF Progress, Quiet, Before, Pending, InHand
<1>5. Alone'
  BY <1>0, <1>2 DEF Alone
<1>6. Announced'
  BY <1>0, <1>2 DEF Announced, Pending, InHand, Waits, Attached, Live
<1>7. Streaming'
  BY <1>0, <1>2 DEF Streaming
<1>8. Readies'
  BY <1>0, <1>2 DEF Readies, Waits
<1>9. Outcome'
  BY <1>0, <1>2 DEF Outcome, Pending, InHand
<1>10. Operator'
  BY <1>0, <1>2 DEF Operator
<1>11. Smooth'
  BY <1>0, <1>2 DEF Smooth, Undisturbed, Attached, Live
<1>12. QED
  BY <1>3, <1>4, <1>5, <1>6, <1>7, <1>8, <1>9, <1>10, <1>11 DEF LinkInv

\* The application is told to step aside.
LEMMA AppUpdateStep ==
    ASSUME LinkInv, AppUpdate
    PROVE  LinkInv'
<1>0. /\ TypeOK /\ Progress /\ Alone /\ Announced /\ Streaming
      /\ Readies /\ Outcome /\ Operator /\ Smooth
  BY DEF LinkInv
<1>1. UNCHANGED hostVars
  BY DEF AppUpdate
<1>2. /\ ComeUpWith("BOOT", "boot", up)
      /\ UNCHANGED <<left, intact, running, resets, early, transport>>
      /\ UNCHANGED <<tool, task, step, block, seen, sent, image, verdict>>
      /\ dev = "app"
      /\ request' \in BOOLEAN /\ promote' \in BOOLEAN
  BY <1>0 DEF AppUpdate, Refused, ComeUp, hostVars, TypeOK
<1>3. /\ dev' = "boot"
      /\ flush' = FALSE
      /\ acc' = "clean"
      /\ Closing(down')
      /\ Pending' => Pending /\ transport = "rs485"
      /\ \A m : In(m, down') => In(m, down)
      /\ \A m : In(m, up') => In(m, up)
      /\ OneReady(up')
      /\ down' \in Seq(Bytes) /\ Len(down') <= Len(down) /\ Len(down') \in Nat
      /\ up' \in Seq(ToHost)
      /\ slot' \in [magic : BOOLEAN, addr : {"APP", "BOOT"}]
  BY <1>0, <1>2, ComesUp, Nothing DEF TypeOK, Readies
<1>4. ChannelTypes'
  BY <1>0, <1>3, Numbers DEF TypeOK, ChannelTypes
<1>5. TypeOK'
  <2>1. DeviceTypes'
    BY <1>0, <1>2, <1>3 DEF TypeOK, DeviceTypes
  <2>2. ChannelTypes'
    BY <1>4
  <2>3. HostTypes'
    BY <1>0, <1>1, HostKept
  <2>4. QED
    BY <2>1, <2>2, <2>3 DEF TypeOK, DeviceTypes, ChannelTypes, HostTypes
<1>6. Progress'
  BY <1>0, <1>2, <1>3 DEF Progress, Quiet, Before, Pending, InHand
<1>7. Alone'
  BY <1>0, <1>3 DEF Alone
<1>8. Announced'
  BY <1>0, <1>2, <1>3 DEF Announced, Pending, InHand, Waits, Attached, Live
<1>9. Streaming'
  BY <1>0, <1>3 DEF Streaming
<1>10. Readies'
  BY <1>0, <1>2, <1>3 DEF Readies, Waits
<1>11. Outcome'
  BY <1>0, <1>2, <1>3 DEF Outcome, Pending, InHand
<1>12. Operator'
  BY <1>0, <1>2, <1>3 DEF Operator
<1>13. Smooth'
  BY <1>0, <1>2, <1>3 DEF Smooth, Undisturbed, Attached, Live
<1>14. QED
  BY <1>5, <1>6, <1>7, <1>8, <1>9, <1>10, <1>11, <1>12, <1>13 DEF LinkInv

\* The watchdog bites.
LEMMA AppWatchdogStep ==
    ASSUME LinkInv, AppWatchdog
    PROVE  LinkInv'
<1>0. /\ TypeOK /\ Progress /\ Alone /\ Announced /\ Streaming
      /\ Readies /\ Outcome /\ Operator /\ Smooth
  BY DEF LinkInv
<1>1. UNCHANGED hostVars
  BY DEF AppWatchdog
<1>2. /\ ComeUpWith("BOOT", "boot", up)
      /\ UNCHANGED <<left, intact, request, promote, running, resets, early, transport>>
      /\ UNCHANGED <<tool, task, step, block, seen, sent, image, verdict>>
      /\ dev = "app"
  BY DEF AppWatchdog, ComeUp, hostVars
<1>3. /\ dev' = "boot"
      /\ flush' = FALSE
      /\ acc' = "clean"
      /\ Closing(down')
      /\ Pending' => Pending /\ transport = "rs485"
      /\ \A m : In(m, down') => In(m, down)
      /\ \A m : In(m, up') => In(m, up)
      /\ OneReady(up')
      /\ down' \in Seq(Bytes) /\ Len(down') <= Len(down) /\ Len(down') \in Nat
      /\ up' \in Seq(ToHost)
      /\ slot' \in [magic : BOOLEAN, addr : {"APP", "BOOT"}]
  BY <1>0, <1>2, ComesUp, Nothing DEF TypeOK, Readies
<1>4. ChannelTypes'
  BY <1>0, <1>3, Numbers DEF TypeOK, ChannelTypes
<1>5. TypeOK'
  <2>1. DeviceTypes'
    BY <1>0, <1>2, <1>3 DEF TypeOK, DeviceTypes
  <2>2. ChannelTypes'
    BY <1>4
  <2>3. HostTypes'
    BY <1>0, <1>1, HostKept
  <2>4. QED
    BY <2>1, <2>2, <2>3 DEF TypeOK, DeviceTypes, ChannelTypes, HostTypes
<1>6. Progress'
  BY <1>0, <1>2, <1>3 DEF Progress, Quiet, Before, Pending, InHand
<1>7. Alone'
  BY <1>0, <1>3 DEF Alone
<1>8. Announced'
  BY <1>0, <1>2, <1>3 DEF Announced, Pending, InHand, Waits, Attached, Live
<1>9. Streaming'
  BY <1>0, <1>3 DEF Streaming
<1>10. Readies'
  BY <1>0, <1>2, <1>3 DEF Readies, Waits
<1>11. Outcome'
  BY <1>0, <1>2, <1>3 DEF Outcome, Pending, InHand
<1>12. Operator'
  BY <1>0, <1>2, <1>3 DEF Operator
<1>13. Smooth'
  BY <1>0, <1>2, <1>3 DEF Smooth, Undisturbed, Attached, Live
<1>14. QED
  BY <1>5, <1>6, <1>7, <1>8, <1>9, <1>10, <1>11, <1>12, <1>13 DEF LinkInv

\* BOOT is cut short.
LEMMA BootResetsStep ==
    ASSUME LinkInv, BootResets
    PROVE  LinkInv'
<1>0. /\ TypeOK /\ Progress /\ Alone /\ Announced /\ Streaming
      /\ Readies /\ Outcome /\ Operator /\ Smooth
  BY DEF LinkInv
<1>1. UNCHANGED hostVars
  BY DEF BootResets
<1>2. /\ dev \in {"listen", "condemn", "stream", "handover"}
      /\ resets < Resets
      /\ resets' = resets + 1
      /\ left' = 0
      /\ intact' = FALSE
      /\ UNCHANGED <<request, promote, running, early, transport>>
      /\ UNCHANGED <<tool, task, step, block, seen, sent, image, verdict>>
  BY DEF BootResets, hostVars
<1>3. PICK said \in {up, IF flush /\ up # <<>> THEN SubSeq(up, 1, Len(up) - 1) ELSE up} :
         ComeUpWith("BOOT", "boot", said)
  BY DEF BootResets
<1>4. said \in Seq(ToHost) /\ (\A m : In(m, said) => In(m, up)) /\ OneReady(said)
  <2>1. up \in Seq(ToHost) /\ OneReady(up)
    BY <1>0 DEF TypeOK, Readies
  <2>2. CASE said = up
    BY <2>1, <2>2
  <2>3. CASE up # <<>> /\ said = SubSeq(up, 1, Len(up) - 1)
    BY <2>1, <2>3, Front
  <2>4. QED
    BY <2>2, <2>3
<1>5. /\ dev' = "boot"
      /\ flush' = FALSE
      /\ acc' = "clean"
      /\ Closing(down')
      /\ Pending' => Pending /\ transport = "rs485"
      /\ \A m : In(m, down') => In(m, down)
      /\ \A m : In(m, up') => In(m, up)
      /\ OneReady(up')
      /\ down' \in Seq(Bytes) /\ Len(down') <= Len(down) /\ Len(down') \in Nat
      /\ up' \in Seq(ToHost)
      /\ slot' \in [magic : BOOLEAN, addr : {"APP", "BOOT"}]
  BY <1>3, <1>4, ComesUp, Nothing
<1>6. (Before' <=> Before) /\ (Waits' <=> Waits) /\ ~InHand' /\ ~Undisturbed'
  BY <1>0, <1>2, <1>5 DEF Before, Waits, InHand, Undisturbed, TypeOK
<1>7. left' \in 0 .. BodyLen /\ resets' \in 0 .. Resets
  BY <1>0, <1>2, Numbers DEF TypeOK
<1>8. TypeOK'
  <2>1. DeviceTypes'
    BY <1>0, <1>2, <1>5, <1>7 DEF TypeOK, DeviceTypes
  <2>2. ChannelTypes'
    BY <1>0, <1>5, Numbers DEF TypeOK, ChannelTypes
  <2>3. HostTypes'
    BY <1>0, <1>1, HostKept
  <2>4. QED
    BY <2>1, <2>2, <2>3 DEF TypeOK, DeviceTypes, ChannelTypes, HostTypes
<1>9. Progress'
  BY <1>0, <1>2, <1>5 DEF Progress, Quiet, Before, Pending, InHand
<1>10. Alone'
  BY <1>0, <1>5 DEF Alone
<1>11. Announced'
  BY <1>0, <1>2, <1>5 DEF Announced, Pending, InHand, Waits, Attached, Live
<1>12. Streaming'
  BY <1>0, <1>5 DEF Streaming
<1>13. Readies'
  BY <1>0, <1>2, <1>5 DEF Readies, Waits
<1>14. Outcome'
  BY <1>0, <1>2, <1>5 DEF Outcome, Pending, InHand
<1>15. Operator'
  BY <1>0, <1>2, <1>5 DEF Operator
<1>16. Smooth'
  BY <1>0, <1>6 DEF Smooth, Undisturbed, Attached, Live
<1>17. QED
  BY <1>8, <1>9, <1>10, <1>11, <1>12, <1>13, <1>14, <1>15, <1>16 DEF LinkInv

-----------------------------------------------------------------------------
(* The host. *)

\* What it sends is a message and its delimiter, in what room there is.
LEMMA Sends ==
    ASSUME TypeOK, NEW msg \in ToDevice, Put(Frame(msg))
    PROVE  /\ down' \in Seq(Bytes) /\ Len(down') <= DownRing
           /\ \A m : In(m, down') => In(m, down) \/ (Attached /\ m \in {msg, "end"})
           /\ Closing(down) /\ ~In("BeginUpdate", down) => Closing(down')
<1>1. /\ Frame(msg) \in Seq(Bytes) /\ Len(Frame(msg)) = 2
      /\ Frame(msg)[1] = msg /\ Frame(msg)[2] = "end"
  BY DEF Frame, Bytes
<1>2. (\A m : In(m, Frame(msg)) => m \in {msg, "end"}) /\ Closing(Frame(msg))
  <2>1. \A m : In(m, Frame(msg)) => m \in {msg, "end"}
    BY <1>1 DEF In
  <2> HIDE DEF Frame
  <2>2. Closing(Frame(msg))
    BY <1>1 DEF Closing
  <2>3. QED
    BY <2>1, <2>2
<1>3. CASE ~Attached
  BY <1>3 DEF Put, TypeOK
<1>4. CASE Attached
  <2>1. down' = Room(down \o Frame(msg))
    BY <1>4 DEF Put
  <2>2. QED
    BY <1>1, <1>2, <1>4, <2>1, Putting DEF TypeOK
<1>5. QED
  BY <1>3, <1>4

\* The host looks for the live block: nothing of the update is in hand.
LEMMA ReconnectStep ==
    ASSUME LinkInv, Reconnect
    PROVE  LinkInv'
<1>0. /\ TypeOK /\ Progress /\ Alone /\ Announced /\ Streaming
      /\ Readies /\ Outcome /\ Operator /\ Smooth
  BY DEF LinkInv
<1>1. UNCHANGED device
  BY DEF Reconnect
<1>2. /\ step = "resync"
      /\ task' = task
      /\ step' \in {"consume", "clear"}
      /\ block' \in {block, Live}
      /\ seen' \in {seen, slot.addr}
      /\ UNCHANGED <<tool, sent, image, verdict>>
      /\ UNCHANGED <<down, up, slot>>
      /\ UNCHANGED <<dev, flush, left, intact, acc, request, promote,
                     running, resets, early, transport>>
  BY DEF Reconnect, device, GoTo
<1>3. /\ ~Waits /\ ~Waits' /\ ~InHand /\ ~Pending
      /\ dev # "condemn" /\ task \notin {"body", "result", "done"} /\ ~In("Ready", up)
  BY <1>0, <1>2 DEF Waits, Progress, Announced, InHand, Readies
<1>4. (Before' <=> Before) /\ ~Pending' /\ ~InHand'
  BY <1>2, <1>3 DEF Before, Pending, InHand
<1>5. TypeOK'
  <2>1. DeviceTypes'
    BY <1>0, <1>1, DeviceKept
  <2>2. ChannelTypes'
    BY <1>0, <1>2 DEF TypeOK, ChannelTypes
  <2>3. HostTypes'
    BY <1>0, <1>2 DEF TypeOK, HostTypes, Live
  <2>4. QED
    BY <2>1, <2>2, <2>3 DEF TypeOK, DeviceTypes, ChannelTypes, HostTypes
<1>6. Progress'
  BY <1>0, <1>2 DEF Progress, Quiet, Before, Pending, InHand
<1>7. Alone'
  BY <1>0, <1>2 DEF Alone, InHand, Pending
<1>8. Announced'
  BY <1>0, <1>4 DEF Announced, Pending, InHand, Waits, Attached, Live
<1>9. Streaming'
  BY <1>0, <1>4 DEF Streaming, InHand, Pending
<1>10. Readies'
  BY <1>0, <1>2 DEF Readies, Waits
<1>11. Outcome'
  BY <1>0, <1>2 DEF Outcome, Pending, InHand
<1>12. Operator'
  BY <1>0, <1>2 DEF Operator
<1>13. Smooth'
  BY <1>0, <1>2 DEF Smooth, Undisturbed, Attached, Live, InHand, Pending
<1>14. QED
  BY <1>5, <1>6, <1>7, <1>8, <1>9, <1>10, <1>11, <1>12, <1>13 DEF LinkInv

\* It may take a block that is live no more.
LEMMA ConsumeStep ==
    ASSUME LinkInv, Consume
    PROVE  LinkInv'
<1>0. /\ TypeOK /\ Progress /\ Alone /\ Announced /\ Streaming
      /\ Readies /\ Outcome /\ Operator /\ Smooth
  BY DEF LinkInv
<1>1. UNCHANGED device
  BY DEF Consume
<1>2. /\ step = "consume"
      /\ task' = task
      /\ step' = "clear"
      /\ block' = seen
      /\ slot' = [slot EXCEPT !.magic = FALSE]
      /\ UNCHANGED <<tool, seen, sent, image, verdict>>
      /\ UNCHANGED <<down, up>>
      /\ UNCHANGED <<dev, flush, left, intact, acc, request, promote,
                     running, resets, early, transport>>
  BY DEF Consume, device, GoTo
<1>3. /\ ~Waits /\ ~Waits' /\ ~InHand /\ ~Pending
      /\ dev # "condemn" /\ task \notin {"body", "result", "done"} /\ ~In("Ready", up)
  BY <1>0, <1>2 DEF Waits, Progress, Announced, InHand, Readies
<1>4. (Before' <=> Before) /\ ~Pending' /\ ~InHand'
  BY <1>2, <1>3 DEF Before, Pending, InHand
<1>5. TypeOK'
  <2>1. DeviceTypes'
    BY <1>0, <1>1, DeviceKept
  <2>2. ChannelTypes'
    BY <1>0, <1>2 DEF TypeOK, ChannelTypes
  <2>3. HostTypes'
    BY <1>0, <1>2 DEF TypeOK, HostTypes
  <2>4. QED
    BY <2>1, <2>2, <2>3 DEF TypeOK, DeviceTypes, ChannelTypes, HostTypes
<1>6. Progress'
  BY <1>0, <1>2 DEF Progress, Quiet, Before, Pending, InHand
<1>7. Alone'
  BY <1>0, <1>2 DEF Alone, InHand, Pending
<1>8. Announced'
  BY <1>0, <1>4 DEF Announced, Pending, InHand, Waits, Attached, Live
<1>9. Streaming'
  BY <1>0, <1>4 DEF Streaming, InHand, Pending
<1>10. Readies'
  BY <1>0, <1>2 DEF Readies, Waits
<1>11. Outcome'
  BY <1>0, <1>2 DEF Outcome, Pending, InHand
<1>12. Operator'
  BY <1>0, <1>2 DEF Operator
<1>13. Smooth'
  BY <1>0, <1>2, <1>3 DEF Smooth, Undisturbed, Attached, Live, InHand, Pending
<1>14. QED
  BY <1>5, <1>6, <1>7, <1>8, <1>9, <1>10, <1>11, <1>12, <1>13 DEF LinkInv

\* What came before is dropped.
LEMMA ClearInputStep ==
    ASSUME LinkInv, ClearInput
    PROVE  LinkInv'
<1>0. /\ TypeOK /\ Progress /\ Alone /\ Announced /\ Streaming
      /\ Readies /\ Outcome /\ Operator /\ Smooth
  BY DEF LinkInv
<1>1. UNCHANGED device
  BY DEF ClearInput
<1>2. /\ step = "clear"
      /\ task' = task
      /\ step' = "send"
      /\ up' = <<>> \/ up' = up
      /\ UNCHANGED <<tool, block, seen, sent, image, verdict>>
      /\ UNCHANGED <<down, slot>>
      /\ UNCHANGED <<dev, flush, left, intact, acc, request, promote,
                     running, resets, early, transport>>
  BY DEF ClearInput, device, GoTo
<1>3. /\ ~Waits /\ ~Waits' /\ ~InHand /\ ~Pending
      /\ dev # "condemn" /\ task \notin {"body", "result", "done"} /\ ~In("Ready", up)
  BY <1>0, <1>2 DEF Waits, Progress, Announced, InHand, Readies
<1>4. (Before' <=> Before) /\ ~Pending' /\ ~InHand'
  BY <1>2, <1>3 DEF Before, Pending, InHand
<1>5. (\A m : In(m, up') => In(m, up)) /\ OneReady(up') /\ up' \in Seq(ToHost)
  <2>1. CASE up' = <<>>
    BY <2>1, Nothing
  <2>2. CASE up' = up
    BY <1>0, <2>2 DEF Readies, TypeOK
  <2>3. QED
    BY <1>2, <2>1, <2>2
<1>6. TypeOK'
  <2>1. DeviceTypes'
    BY <1>0, <1>1, DeviceKept
  <2>2. ChannelTypes'
    BY <1>0, <1>2, <1>5 DEF TypeOK, ChannelTypes
  <2>3. HostTypes'
    BY <1>0, <1>2 DEF TypeOK, HostTypes
  <2>4. QED
    BY <2>1, <2>2, <2>3 DEF TypeOK, DeviceTypes, ChannelTypes, HostTypes
<1>7. Progress'
  BY <1>0, <1>2, <1>5 DEF Progress, Quiet, Before, Pending, InHand
<1>8. Alone'
  BY <1>0, <1>2 DEF Alone, InHand, Pending
<1>9. Announced'
  BY <1>0, <1>4 DEF Announced, Pending, InHand, Waits, Attached, Live
<1>10. Streaming'
  BY <1>0, <1>4 DEF Streaming, InHand, Pending
<1>11. Readies'
  BY <1>0, <1>3, <1>5 DEF Readies, Waits
<1>12. Outcome'
  BY <1>0, <1>2, <1>5 DEF Outcome, Pending, InHand
<1>13. Operator'
  BY <1>0, <1>2, <1>5 DEF Operator
<1>14. Smooth'
  BY <1>0, <1>2, <1>3, <1>5 DEF Smooth, Undisturbed, Attached, Live, InHand, Pending
<1>15. QED
  BY <1>6, <1>7, <1>8, <1>9, <1>10, <1>11, <1>12, <1>13, <1>14 DEF LinkInv

\* The one BeginUpdate.  Nothing came of the polls before it.
LEMMA SendBegin ==
    ASSUME LinkInv, Send, task = "begin"
    PROVE  LinkInv'
<1>0. /\ TypeOK /\ Progress /\ Alone /\ Announced /\ Streaming
      /\ Readies /\ Outcome /\ Operator /\ Smooth
  BY DEF LinkInv
<1>1. UNCHANGED device
  BY DEF Send
<1>2. /\ step = "send"
      /\ task = "begin"
      /\ task' = "begin"
      /\ step' = "recv"
      /\ Put(Frame("BeginUpdate"))
      /\ UNCHANGED <<tool, block, seen, sent, image, verdict>>
      /\ UNCHANGED <<up, slot>>
      /\ UNCHANGED <<dev, flush, left, intact, acc, request, promote,
                     running, resets, early, transport>>
  BY DEF Send, device, GoTo, Message
<1>3. Before /\ ~Before' /\ Waits' /\ (Attached' <=> Attached)
  BY <1>2 DEF Before, Waits, Attached, Live
<1>4. Quiet
  BY <1>0, <1>3 DEF Progress
<1>5. /\ down' \in Seq(Bytes) /\ Len(down') <= DownRing
      /\ \A m : In(m, down') => In(m, down) \/ (Attached /\ m \in {"BeginUpdate", "end"})
      /\ Closing(down')
  BY <1>0, <1>2, <1>4, Sends DEF ToDevice, Quiet, Pending, Alone
<1>6. (Pending' => Attached) /\ ~InHand' /\ acc # "BeginUpdate" /\ ~In("body", down')
  BY <1>2, <1>4, <1>5 DEF Pending, Quiet, InHand
<1>7. TypeOK'
  <2>1. DeviceTypes'
    BY <1>0, <1>1, DeviceKept
  <2>2. ChannelTypes'
    BY <1>0, <1>2, <1>5 DEF TypeOK, ChannelTypes
  <2>3. HostTypes'
    BY <1>0, <1>2 DEF TypeOK, HostTypes
  <2>4. QED
    BY <2>1, <2>2, <2>3 DEF TypeOK, DeviceTypes, ChannelTypes, HostTypes
<1>8. Progress'
  BY <1>0, <1>2, <1>6 DEF Progress, Quiet, Before, Pending, InHand
<1>9. Alone'
  BY <1>0, <1>2, <1>5, <1>6 DEF Alone, Quiet, InHand, Pending
<1>10. Announced'
  BY <1>0, <1>2, <1>4, <1>6 DEF Announced, Pending, InHand, Waits, Attached, Live, Quiet
<1>11. Streaming'
  BY <1>0, <1>6 DEF Streaming, Quiet, InHand, Pending
<1>12. Readies'
  BY <1>0, <1>2 DEF Readies, Waits, Quiet
<1>13. Outcome'
  BY <1>0, <1>2, <1>4 DEF Outcome, Pending, InHand, Quiet
<1>14. Operator'
  BY <1>0, <1>2, <1>5 DEF Operator, Quiet
<1>15. Smooth'
  BY <1>0, <1>2, <1>6 DEF Smooth, Undisturbed, Attached, Live, Quiet, InHand, Pending
<1>16. QED
  BY <1>7, <1>8, <1>9, <1>10, <1>11, <1>12, <1>13, <1>14, <1>15 DEF LinkInv

\* Any other message.
LEMMA SendOther ==
    ASSUME LinkInv, Send, task # "begin"
    PROVE  LinkInv'
<1>0. /\ TypeOK /\ Progress /\ Alone /\ Announced /\ Streaming
      /\ Readies /\ Outcome /\ Operator /\ Smooth
  BY DEF LinkInv
<1>1. UNCHANGED device
  BY DEF Send
<1>2. /\ step = "send"
      /\ task \notin {"begin", "body"}
      /\ \/ /\ task = "reboot" /\ step' = "resync"
            /\ task' \in {"ping", "begin"} /\ (tool = "update" => task' = "begin")
         \/ task # "reboot" /\ task' = task /\ step' = "recv"
      /\ Put(Frame(Message(task)))
      /\ UNCHANGED <<tool, block, seen, sent, image, verdict>>
      /\ UNCHANGED <<up, slot>>
      /\ UNCHANGED <<dev, flush, left, intact, acc, request, promote,
                     running, resets, early, transport>>
  BY DEF Send, device, GoTo
<1>3. task \in {"reboot", "ping", "state", "app"} /\ task' \in {"ping", "begin", "state", "app"}
  BY <1>0, <1>2 DEF TypeOK, Progress
<1>4. /\ ~Waits /\ ~Waits' /\ ~InHand /\ ~Pending /\ ~In("Ready", up)
      /\ (Before' <=> Before) /\ (Attached' <=> Attached)
  BY <1>0, <1>2, <1>3 DEF Waits, Announced, Readies, InHand, Before, Attached, Live
<1>5. Message(task) \in ToDevice \ {"BeginUpdate"} /\ (tool = "update" => Message(task) = "Update")
  BY <1>0, <1>3 DEF Message, ToDevice, Operator
<1>6. /\ down' \in Seq(Bytes) /\ Len(down') <= DownRing
      /\ \A m : In(m, down') => In(m, down) \/ m \in {Message(task), "end"}
      /\ Closing(down')
  BY <1>0, <1>2, <1>4, <1>5, Sends DEF Pending, Alone
<1>7. /\ ~Pending' /\ ~InHand'
      /\ In("body", down') => In("body", down)
  BY <1>2, <1>4, <1>5, <1>6 DEF Pending, InHand, ToDevice
<1>8. TypeOK'
  <2>1. DeviceTypes'
    BY <1>0, <1>1, DeviceKept
  <2>2. ChannelTypes'
    BY <1>0, <1>2, <1>6 DEF TypeOK, ChannelTypes
  <2>3. HostTypes'
    BY <1>0, <1>2 DEF TypeOK, HostTypes
  <2>4. QED
    BY <2>1, <2>2, <2>3 DEF TypeOK, DeviceTypes, ChannelTypes, HostTypes
<1>9. Progress'
  BY <1>0, <1>2, <1>7 DEF Progress, Quiet, Before, Pending, InHand
<1>10. Alone'
  BY <1>0, <1>6, <1>7 DEF Alone, InHand, Pending
<1>11. Announced'
  BY <1>0, <1>7 DEF Announced, Pending, InHand, Waits, Attached, Live
<1>12. Streaming'
  BY <1>0, <1>7 DEF Streaming, InHand, Pending
<1>13. Readies'
  BY <1>0, <1>2 DEF Readies, Waits
<1>14. Outcome'
  BY <1>0, <1>2, <1>7 DEF Outcome, Pending, InHand
<1>15. Operator'
  BY <1>0, <1>2, <1>5, <1>6 DEF Operator
<1>16. Smooth'
  BY <1>0, <1>2, <1>3, <1>4, <1>7 DEF Smooth, Undisturbed, Attached, Live, InHand, Pending
<1>17. QED
  BY <1>8, <1>9, <1>10, <1>11, <1>12, <1>13, <1>14, <1>15, <1>16 DEF LinkInv

\* A byte of the body.
LEMMA WriteBodyStep ==
    ASSUME LinkInv, WriteBody
    PROVE  LinkInv'
<1>0. /\ TypeOK /\ Progress /\ Alone /\ Announced /\ Streaming
      /\ Readies /\ Outcome /\ Operator /\ Smooth
  BY DEF LinkInv
<1>1. UNCHANGED device
  BY DEF WriteBody
<1>2. /\ task = "body"
      /\ Put(<<"body">>)
      /\ sent' = sent + 1
      /\ \/ sent + 1 = BodyLen /\ task' = "result" /\ step' = "recv"
         \/ sent + 1 # BodyLen /\ UNCHANGED <<task, step>>
      /\ UNCHANGED <<tool, block, seen, image, verdict>>
      /\ UNCHANGED <<up, slot>>
      /\ UNCHANGED <<dev, flush, left, intact, acc, request, promote,
                     running, resets, early, transport>>
  BY DEF WriteBody, device, GoTo
<1>3. /\ step = "send" /\ verdict = "none" /\ sent + 1 \in 0 .. BodyLen /\ sent + 1 > 0
      /\ sent # BodyLen
  BY <1>0, <1>2, Numbers DEF Progress
<1>4. /\ ~Waits /\ ~Waits' /\ ~Pending /\ dev # "condemn" /\ running # "new" /\ ~In("Ready", up)
      /\ ~Before' /\ (Attached' <=> Attached)
      /\ Undisturbed => dev = "stream" /\ intact /\ Attached
  BY <1>0, <1>2, <1>3 DEF Waits, Announced, InHand, Readies, Outcome, Before, Smooth, Attached, Live
<1>5. /\ down' \in Seq(Bytes) /\ Len(down') <= DownRing
      /\ Len(down') <= Len(down) + 1 /\ Len(down') \in Nat
      /\ \A m : In(m, down') => In(m, down) \/ m = "body"
      /\ Closing(down')
  <2> DEFINE t == <<"body">>
  <2>1. /\ t \in Seq(Bytes) /\ Len(t) = 1 /\ t[1] = "body"
        /\ down \in Seq(Bytes) /\ Len(down) <= DownRing /\ Len(down) \in Nat
    BY <1>0 DEF Bytes, TypeOK
  <2>2. Put(t)
    BY <1>2
  <2> HIDE DEF t
  <2>3. (\A m : In(m, t) => m = "body") /\ Closing(t)
    BY <2>1 DEF In, Closing
  <2>4. ~In("BeginUpdate", down) /\ Closing(down)
    BY <1>0, <1>4 DEF Alone, Pending
  <2>5. CASE ~Attached
    <3>1. down' = down
      BY <2>2, <2>5 DEF Put
    <3>2. QED
      BY <2>1, <2>4, <3>1
  <2>6. CASE Attached
    <3>1. down' = Room(down \o t)
      BY <2>2, <2>6 DEF Put
    <3> DEFINE c == Room(down \o t)
    <3>2. /\ c \in Seq(Bytes) /\ Len(c) <= DownRing /\ Len(c) <= Len(down) + Len(t)
          /\ \A m : In(m, c) => In(m, down) \/ In(m, t)
          /\ Closing(c)
      BY <2>1, <2>3, <2>4, Putting
    <3> HIDE DEF c
    <3>3. down' = c
      BY <3>1 DEF c
    <3>4. QED
      BY <2>1, <2>3, <3>2, <3>3
  <2>7. QED
    BY <2>5, <2>6
<1>6. ~Pending' /\ (InHand' <=> InHand)
  BY <1>2, <1>4, <1>5 DEF Pending, InHand
<1>7. TypeOK'
  <2>1. DeviceTypes'
    BY <1>0, <1>1, DeviceKept
  <2>2. ChannelTypes'
    BY <1>0, <1>2, <1>5 DEF TypeOK, ChannelTypes
  <2>3. HostTypes'
    BY <1>0, <1>2, <1>3 DEF TypeOK, HostTypes
  <2>4. QED
    BY <2>1, <2>2, <2>3 DEF TypeOK, DeviceTypes, ChannelTypes, HostTypes
<1>8. Progress'
  BY <1>0, <1>2, Numbers DEF Progress, Quiet, Before, Pending, InHand
<1>9. Alone'
  BY <1>0, <1>2, <1>4, <1>5 DEF Alone, InHand, Pending
<1>10. Announced'
  BY <1>0, <1>2, <1>6 DEF Announced, Pending, InHand, Waits, Attached, Live
<1>11. Streaming'
  BY <1>0, <1>2, <1>5, Numbers DEF Streaming, InHand, Pending
<1>12. Readies'
  BY <1>0, <1>2 DEF Readies, Waits
<1>13. Outcome'
  BY <1>0, <1>2, <1>4, <1>6 DEF Outcome, Pending, InHand
<1>14. Operator'
  BY <1>0, <1>2, <1>5 DEF Operator
<1>15. Smooth'
  BY <1>0, <1>2, <1>4 DEF Smooth, Undisturbed, Attached, Live, InHand, Pending
<1>16. QED
  BY <1>7, <1>8, <1>9, <1>10, <1>11, <1>12, <1>13, <1>14, <1>15 DEF LinkInv

\* A poll is answered.
LEMMA RecvPoll ==
    ASSUME LinkInv, Recv,
           (task = "ping" /\ Head(up) = "Pong") \/ (task = "state" /\ Head(up) \in States)
    PROVE  LinkInv'
<1>0. /\ TypeOK /\ Progress /\ Alone /\ Announced /\ Streaming
      /\ Readies /\ Outcome /\ Operator /\ Smooth
  BY DEF LinkInv
<1>1. UNCHANGED device
  BY DEF Recv
<1>2. /\ step = "recv"
      /\ task # "done"
      /\ Attached
      /\ up # <<>>
      /\ up' = Tail(up)
      /\ task \in {"ping", "state"}
      /\ \/ task' = "state" /\ step' = "send" /\ task = "ping"
         \/ task' = "ping" /\ step' = "resync" /\ task = "state"
      /\ verdict' = verdict
      /\ UNCHANGED <<tool, block, seen, sent, image>>
      /\ UNCHANGED <<down, slot>>
      /\ UNCHANGED <<dev, flush, left, intact, acc, request, promote,
                     running, resets, early, transport>>
  BY DEF Recv, device, GoTo, Received, Concluded
<1>3. /\ Head(up) \in ToHost /\ up' \in Seq(ToHost)
      /\ \A m : In(m, up) <=> (m = Head(up) \/ In(m, up'))
      /\ OneReady(up')
      /\ Head(up) = "Ready" => ~In("Ready", up')
  BY <1>0, <1>2, Taken DEF TypeOK, Readies
<1>4. (Pending' <=> Pending) /\ (InHand' <=> InHand) /\ (Attached' <=> Attached)
  BY <1>2 DEF Pending, InHand, Attached, Live
<1>5. TypeOK'
  <2>1. DeviceTypes'
    BY <1>0, <1>1, DeviceKept
  <2>2. ChannelTypes'
    BY <1>0, <1>2 DEF TypeOK, ChannelTypes
  <2>3. HostTypes'
    BY <1>0, <1>2 DEF TypeOK, HostTypes
  <2>4. QED
    BY <2>1, <2>2, <2>3 DEF TypeOK, DeviceTypes, ChannelTypes, HostTypes
<1>6. Progress'
  BY <1>0, <1>2, <1>3 DEF Progress, Quiet, Before, Pending, InHand
<1>7. Alone'
  BY <1>0, <1>2 DEF Alone, InHand, Pending
<1>8. Announced'
  BY <1>0, <1>4 DEF Announced, Pending, InHand, Waits, Attached, Live
<1>9. Streaming'
  BY <1>0, <1>2 DEF Streaming, InHand, Pending
<1>10. Readies'
  BY <1>0, <1>3 DEF Readies, Waits
<1>11. Outcome'
  BY <1>0, <1>2, <1>3 DEF Outcome, Pending, InHand
<1>12. Operator'
  BY <1>0, <1>2 DEF Operator
<1>13. Smooth'
  BY <1>0, <1>2 DEF Smooth, Undisturbed, Attached, Live, InHand, Pending
<1>14. QED
  BY <1>5, <1>6, <1>7, <1>8, <1>9, <1>10, <1>11, <1>12, <1>13 DEF LinkInv

\* BOOT asks for the body.
LEMMA RecvReady ==
    ASSUME LinkInv, Recv, task = "begin", Head(up) = "Ready"
    PROVE  LinkInv'
<1>0. /\ TypeOK /\ Progress /\ Alone /\ Announced /\ Streaming
      /\ Readies /\ Outcome /\ Operator /\ Smooth
  BY DEF LinkInv
<1>1. UNCHANGED device
  BY DEF Recv
<1>2. /\ step = "recv"
      /\ task # "done"
      /\ Attached
      /\ up # <<>>
      /\ up' = Tail(up)
      /\ task = "begin"
      /\ Head(up) = "Ready"
      /\ task' = "body"
      /\ step' = "send"
      /\ verdict' = verdict
      /\ UNCHANGED <<tool, block, seen, sent, image>>
      /\ UNCHANGED <<down, slot>>
      /\ UNCHANGED <<dev, flush, left, intact, acc, request, promote,
                     running, resets, early, transport>>
  BY DEF Recv, device, GoTo, Received, Concluded
<1>3. /\ Head(up) \in ToHost /\ up' \in Seq(ToHost)
      /\ \A m : In(m, up) <=> (m = Head(up) \/ In(m, up'))
      /\ OneReady(up')
      /\ Head(up) = "Ready" => ~In("Ready", up')
  BY <1>0, <1>2, Taken DEF TypeOK, Readies
<1>4. sent = 0 /\ sent < BodyLen /\ verdict = "none" /\ In("Ready", up)
  BY <1>0, <1>3, Numbers DEF Progress
<1>5. TypeOK'
  <2>1. DeviceTypes'
    BY <1>0, <1>1, DeviceKept
  <2>2. ChannelTypes'
    BY <1>0, <1>2 DEF TypeOK, ChannelTypes
  <2>3. HostTypes'
    BY <1>0, <1>2 DEF TypeOK, HostTypes
  <2>4. QED
    BY <2>1, <2>2, <2>3 DEF TypeOK, DeviceTypes, ChannelTypes, HostTypes
<1>6. Progress'
  BY <1>0, <1>2, <1>4 DEF Progress, Quiet, Before, Pending, InHand
<1>7. Alone'
  BY <1>0, <1>2 DEF Alone, InHand, Pending
<1>8. Announced'
  BY <1>0, <1>2, <1>3 DEF Announced, Pending, InHand, Waits, Attached, Live
<1>9. Streaming'
  BY <1>0, <1>2 DEF Streaming, InHand, Pending
<1>10. Readies'
  BY <1>0, <1>3 DEF Readies, Waits
<1>11. Outcome'
  BY <1>0, <1>2, <1>3 DEF Outcome, Pending, InHand
<1>12. Operator'
  BY <1>0, <1>2, <1>3 DEF Operator
<1>13. Smooth'
  BY <1>0, <1>2, <1>4 DEF Smooth, Undisturbed, Attached, Live, InHand, Pending
<1>14. QED
  BY <1>5, <1>6, <1>7, <1>8, <1>9, <1>10, <1>11, <1>12, <1>13 DEF LinkInv

\* The outcome: nothing else can follow a body.
LEMMA RecvResult ==
    ASSUME LinkInv, Recv, task = "result", tool = "update" \/ Head(up) = "UpdateResult"
    PROVE  LinkInv'
<1>0. /\ TypeOK /\ Progress /\ Alone /\ Announced /\ Streaming
      /\ Readies /\ Outcome /\ Operator /\ Smooth
  BY DEF LinkInv
<1>1. UNCHANGED device
  BY DEF Recv
<1>2. /\ step = "recv"
      /\ task # "done"
      /\ Attached
      /\ up # <<>>
      /\ up' = Tail(up)
      /\ task = "result"
      /\ tool = "update" \/ Head(up) = "UpdateResult"
      /\ \/ task' = "done" /\ step' = "recv" /\ tool = "update"
         \/ task' = "app" /\ step' = "resync" /\ tool # "update"
      /\ verdict' = IF Head(up) = "UpdateResult" THEN "rejected" ELSE "unexpected"
      /\ UNCHANGED <<tool, block, seen, sent, image>>
      /\ UNCHANGED <<down, slot>>
      /\ UNCHANGED <<dev, flush, left, intact, acc, request, promote,
                     running, resets, early, transport>>
  BY DEF Recv, device, GoTo, Received, Concluded
<1>3. /\ Head(up) \in ToHost /\ up' \in Seq(ToHost)
      /\ \A m : In(m, up) <=> (m = Head(up) \/ In(m, up'))
      /\ OneReady(up')
      /\ Head(up) = "Ready" => ~In("Ready", up')
  BY <1>0, <1>2, Taken DEF TypeOK, Readies
<1>4. (Pending' <=> Pending) /\ (InHand' <=> InHand) /\ (Attached' <=> Attached)
  BY <1>2 DEF Pending, InHand, Attached, Live
<1>5. ~Waits /\ ~Before' /\ sent = BodyLen
  BY <1>0, <1>2 DEF Waits, Before, Progress
<1>6. Head(up) = "UpdateResult" /\ In("UpdateResult", up) /\ verdict' = "rejected"
  BY <1>0, <1>2, <1>3, <1>5 DEF Operator, Readies, ToHost
<1>7. ~Pending /\ ~InHand /\ running # "new"
  BY <1>0, <1>6 DEF Outcome
<1>8. TypeOK'
  <2>1. DeviceTypes'
    BY <1>0, <1>1, DeviceKept
  <2>2. ChannelTypes'
    BY <1>0, <1>2 DEF TypeOK, ChannelTypes
  <2>3. HostTypes'
    BY <1>0, <1>2 DEF TypeOK, HostTypes
  <2>4. QED
    BY <2>1, <2>2, <2>3 DEF TypeOK, DeviceTypes, ChannelTypes, HostTypes
<1>9. Progress'
  BY <1>0, <1>2 DEF Progress, Quiet, Before, Pending, InHand
<1>10. Alone'
  BY <1>0, <1>2 DEF Alone, InHand, Pending
<1>11. Announced'
  BY <1>0, <1>4, <1>7 DEF Announced, Pending, InHand, Waits, Attached, Live
<1>12. Streaming'
  BY <1>0, <1>4, <1>7 DEF Streaming, InHand, Pending
<1>13. Readies'
  BY <1>0, <1>3 DEF Readies, Waits
<1>14. Outcome'
  BY <1>0, <1>2, <1>3, <1>6 DEF Outcome, Pending, InHand
<1>15. Operator'
  BY <1>0, <1>2, <1>3 DEF Operator
<1>16. Smooth'
  BY <1>0, <1>2, <1>7 DEF Smooth, Undisturbed, Attached, Live, InHand, Pending
<1>17. QED
  BY <1>8, <1>9, <1>10, <1>11, <1>12, <1>13, <1>14, <1>15, <1>16 DEF LinkInv

\* The application that answers tells by its version.
LEMMA RecvState ==
    ASSUME LinkInv, Recv, task = "app", Head(up) \in States
    PROVE  LinkInv'
<1>0. /\ TypeOK /\ Progress /\ Alone /\ Announced /\ Streaming
      /\ Readies /\ Outcome /\ Operator /\ Smooth
  BY DEF LinkInv
<1>1. UNCHANGED device
  BY DEF Recv
<1>2. /\ step = "recv"
      /\ task # "done"
      /\ Attached
      /\ up # <<>>
      /\ up' = Tail(up)
      /\ task = "app"
      /\ Head(up) \in States
      /\ task' = "done"
      /\ step' = "recv"
      /\ verdict' \in {verdict, "installed", "failed"} /\ verdict' # "silent"
      /\ verdict' = "installed" => Head(up) = "StateNew" \/ verdict = "installed"
      /\ UNCHANGED <<tool, block, seen, sent, image>>
      /\ UNCHANGED <<down, slot>>
      /\ UNCHANGED <<dev, flush, left, intact, acc, request, promote,
                     running, resets, early, transport>>
  BY DEF Recv, device, GoTo, Received, Concluded
<1>3. /\ Head(up) \in ToHost /\ up' \in Seq(ToHost)
      /\ \A m : In(m, up) <=> (m = Head(up) \/ In(m, up'))
      /\ OneReady(up')
      /\ Head(up) = "Ready" => ~In("Ready", up')
  BY <1>0, <1>2, Taken DEF TypeOK, Readies
<1>4. (Pending' <=> Pending) /\ (InHand' <=> InHand) /\ (Attached' <=> Attached)
  BY <1>2 DEF Pending, InHand, Attached, Live
<1>5. TypeOK'
  <2>1. DeviceTypes'
    BY <1>0, <1>1, DeviceKept
  <2>2. ChannelTypes'
    BY <1>0, <1>2 DEF TypeOK, ChannelTypes
  <2>3. HostTypes'
    BY <1>0, <1>2 DEF TypeOK, HostTypes
  <2>4. QED
    BY <2>1, <2>2, <2>3 DEF TypeOK, DeviceTypes, ChannelTypes, HostTypes
<1>6. Progress'
  BY <1>0, <1>2 DEF Progress, Quiet, Before, Pending, InHand
<1>7. Alone'
  BY <1>0, <1>2 DEF Alone, InHand, Pending
<1>8. Announced'
  BY <1>0, <1>4 DEF Announced, Pending, InHand, Waits, Attached, Live
<1>9. Streaming'
  BY <1>0, <1>2 DEF Streaming, InHand, Pending
<1>10. Readies'
  BY <1>0, <1>3 DEF Readies, Waits
<1>11. Outcome'
  BY <1>0, <1>2, <1>3 DEF Outcome, Pending, InHand
<1>12. Operator'
  BY <1>0, <1>2 DEF Operator
<1>13. Smooth'
  BY <1>0, <1>2 DEF Smooth, Undisturbed, Attached, Live, InHand, Pending
<1>14. QED
  BY <1>5, <1>6, <1>7, <1>8, <1>9, <1>10, <1>11, <1>12, <1>13 DEF LinkInv

\* Anything else is dropped.
LEMMA RecvDrops ==
    ASSUME LinkInv, Recv,
           ~(task = "ping" /\ Head(up) = "Pong"), ~(task = "state" /\ Head(up) \in States),
           ~(task = "begin" /\ Head(up) = "Ready"),
           ~(task = "result" /\ (tool = "update" \/ Head(up) = "UpdateResult")),
           ~(task = "app" /\ Head(up) \in States)
    PROVE  LinkInv'
<1>0. /\ TypeOK /\ Progress /\ Alone /\ Announced /\ Streaming
      /\ Readies /\ Outcome /\ Operator /\ Smooth
  BY DEF LinkInv
<1>1. UNCHANGED device
  BY DEF Recv
<1>2. /\ step = "recv"
      /\ task # "done"
      /\ Attached
      /\ up # <<>>
      /\ up' = Tail(up)
      /\ task' = task
      /\ step' = "recv"
      /\ verdict' = verdict
      /\ ~(task = "begin" /\ Head(up) = "Ready")
      /\ ~(task = "result" /\ Head(up) = "UpdateResult")
      /\ UNCHANGED <<tool, block, seen, sent, image>>
      /\ UNCHANGED <<down, slot>>
      /\ UNCHANGED <<dev, flush, left, intact, acc, request, promote,
                     running, resets, early, transport>>
  BY DEF Recv, device, GoTo, Received
<1>3. /\ Head(up) \in ToHost /\ up' \in Seq(ToHost)
      /\ \A m : In(m, up) <=> (m = Head(up) \/ In(m, up'))
      /\ OneReady(up')
      /\ Head(up) = "Ready" => ~In("Ready", up')
  BY <1>0, <1>2, Taken DEF TypeOK, Readies
<1>4. TypeOK'
  <2>1. DeviceTypes'
    BY <1>0, <1>1, DeviceKept
  <2>2. ChannelTypes'
    BY <1>0, <1>2 DEF TypeOK, ChannelTypes
  <2>3. HostTypes'
    BY <1>0, <1>2 DEF TypeOK, HostTypes
  <2>4. QED
    BY <2>1, <2>2, <2>3 DEF TypeOK, DeviceTypes, ChannelTypes, HostTypes
<1>5. Progress'
  BY <1>0, <1>2, <1>3 DEF Progress, Quiet, Before, Pending, InHand
<1>6. Alone'
  BY <1>0, <1>2 DEF Alone, InHand, Pending
<1>7. Announced'
  BY <1>0, <1>2, <1>3 DEF Announced, Pending, InHand, Waits, Attached, Live
<1>8. Streaming'
  BY <1>0, <1>2 DEF Streaming, InHand, Pending
<1>9. Readies'
  BY <1>0, <1>2, <1>3 DEF Readies, Waits
<1>10. Outcome'
  BY <1>0, <1>2, <1>3 DEF Outcome, Pending, InHand
<1>11. Operator'
  BY <1>0, <1>2, <1>3 DEF Operator
<1>12. Smooth'
  BY <1>0, <1>2, <1>3 DEF Smooth, Undisturbed, Attached, Live, InHand, Pending
<1>13. QED
  BY <1>4, <1>5, <1>6, <1>7, <1>8, <1>9, <1>10, <1>11, <1>12 DEF LinkInv

\* A poll that goes unanswered is repeated.
LEMMA PollAgain ==
    ASSUME LinkInv, PollTimeout, step' # "recv"
    PROVE  LinkInv'
<1>0. /\ TypeOK /\ Progress /\ Alone /\ Announced /\ Streaming
      /\ Readies /\ Outcome /\ Operator /\ Smooth
  BY DEF LinkInv
<1>1. UNCHANGED device
  BY DEF PollTimeout
<1>2. /\ step = "recv"
      /\ \/ task \in {"ping", "app"} /\ task' = task /\ step' = "resync"
         \/ task = "state" /\ task' = "begin" /\ step' = "clear"
      /\ UNCHANGED verdict
      /\ UNCHANGED <<tool, block, seen, sent, image>>
      /\ UNCHANGED <<down, up, slot>>
      /\ UNCHANGED <<dev, flush, left, intact, acc, request, promote,
                     running, resets, early, transport>>
  BY DEF PollTimeout, device, GoTo, Silence
<1>3. ~Waits /\ ~Waits' /\ (Before' <=> Before) /\ ~Pending /\ ~InHand /\ ~In("Ready", up)
  BY <1>0, <1>2 DEF Waits, Before, Announced, InHand, Readies
<1>4. (Pending' <=> Pending) /\ (InHand' <=> InHand) /\ (Attached' <=> Attached)
  BY <1>2 DEF Pending, InHand, Attached, Live
<1>5. TypeOK'
  <2>1. DeviceTypes'
    BY <1>0, <1>1, DeviceKept
  <2>2. ChannelTypes'
    BY <1>0, <1>2 DEF TypeOK, ChannelTypes
  <2>3. HostTypes'
    BY <1>0, <1>2 DEF TypeOK, HostTypes
  <2>4. QED
    BY <2>1, <2>2, <2>3 DEF TypeOK, DeviceTypes, ChannelTypes, HostTypes
<1>6. Progress'
  BY <1>0, <1>2 DEF Progress, Quiet, Before, Pending, InHand
<1>7. Alone'
  BY <1>0, <1>2 DEF Alone, InHand, Pending
<1>8. Announced'
  BY <1>0, <1>3, <1>4 DEF Announced, Pending, InHand, Waits, Attached, Live
<1>9. Streaming'
  BY <1>0, <1>3, <1>4 DEF Streaming, InHand, Pending
<1>10. Readies'
  BY <1>0, <1>2 DEF Readies, Waits
<1>11. Outcome'
  BY <1>0, <1>2 DEF Outcome, Pending, InHand
<1>12. Operator'
  BY <1>0, <1>2 DEF Operator
<1>13. Smooth'
  BY <1>0, <1>2, <1>3 DEF Smooth, Undisturbed, Attached, Live, InHand, Pending
<1>14. QED
  BY <1>5, <1>6, <1>7, <1>8, <1>9, <1>10, <1>11, <1>12, <1>13 DEF LinkInv

\* Or the host gives up; a BOOT that takes its BeginUpdate finds no one.
LEMMA GivesUp ==
    ASSUME LinkInv, PollTimeout, task # "app", step' = "recv"
    PROVE  LinkInv'
<1>0. /\ TypeOK /\ Progress /\ Alone /\ Announced /\ Streaming
      /\ Readies /\ Outcome /\ Operator /\ Smooth
  BY DEF LinkInv
<1>1. UNCHANGED device
  BY DEF PollTimeout
<1>2. /\ step = "recv"
      /\ task \in {"ping", "begin"} /\ task' = "done" /\ step' = "recv"
      /\ verdict' = "gaveup"
      /\ UNCHANGED <<tool, block, seen, sent, image>>
      /\ UNCHANGED <<down, up, slot>>
      /\ UNCHANGED <<dev, flush, left, intact, acc, request, promote,
                     running, resets, early, transport>>
  BY DEF PollTimeout, device, GoTo, Silence
<1>3. TypeOK'
  <2>1. DeviceTypes'
    BY <1>0, <1>1, DeviceKept
  <2>2. ChannelTypes'
    BY <1>0, <1>2 DEF TypeOK, ChannelTypes
  <2>3. HostTypes'
    BY <1>0, <1>2 DEF TypeOK, HostTypes
  <2>4. QED
    BY <2>1, <2>2, <2>3 DEF TypeOK, DeviceTypes, ChannelTypes, HostTypes
<1>4. Progress'
  BY <1>0, <1>2, Numbers DEF Progress, Quiet, Before, Pending, InHand
<1>5. Alone'
  BY <1>0, <1>2 DEF Alone, InHand, Pending
<1>6. Announced'
  BY <1>0, <1>2 DEF Announced, Pending, InHand, Waits, Attached, Live
<1>7. Streaming'
  BY <1>0, <1>2 DEF Streaming, InHand, Pending
<1>8. Readies'
  BY <1>0, <1>2 DEF Readies, Waits
<1>9. Outcome'
  BY <1>0, <1>2 DEF Outcome, Pending, InHand
<1>10. Operator'
  BY <1>0, <1>2 DEF Operator
<1>11. Smooth'
  BY <1>0, <1>2 DEF Smooth, Undisturbed, Attached, Live, Announced, Waits, InHand, Pending
<1>12. QED
  BY <1>3, <1>4, <1>5, <1>6, <1>7, <1>8, <1>9, <1>10, <1>11 DEF LinkInv

\* No application answers.
LEMMA AppSilent ==
    ASSUME LinkInv, PollTimeout, task = "app", step' = "recv"
    PROVE  LinkInv'
<1>0. /\ TypeOK /\ Progress /\ Alone /\ Announced /\ Streaming
      /\ Readies /\ Outcome /\ Operator /\ Smooth
  BY DEF LinkInv
<1>1. UNCHANGED device
  BY DEF PollTimeout
<1>2. /\ step = "recv"
      /\ task = "app" /\ task' = "done" /\ step' = "recv"
      /\ verdict' = IF verdict = "silent" THEN "failed" ELSE verdict
      /\ UNCHANGED <<tool, block, seen, sent, image>>
      /\ UNCHANGED <<down, up, slot>>
      /\ UNCHANGED <<dev, flush, left, intact, acc, request, promote,
                     running, resets, early, transport>>
  BY DEF PollTimeout, device, GoTo, Silence
<1>3. sent = BodyLen /\ ~Waits /\ Waits' /\ ~Before' /\ ~Pending /\ ~InHand /\ verdict # "gaveup"
  BY <1>0, <1>2 DEF Progress, Before, Waits, Announced, InHand
<1>4. (Pending' <=> Pending) /\ (InHand' <=> InHand) /\ (Attached' <=> Attached)
  BY <1>2 DEF Pending, InHand, Attached, Live
<1>5. TypeOK'
  <2>1. DeviceTypes'
    BY <1>0, <1>1, DeviceKept
  <2>2. ChannelTypes'
    BY <1>0, <1>2 DEF TypeOK, ChannelTypes
  <2>3. HostTypes'
    BY <1>0, <1>2 DEF TypeOK, HostTypes
  <2>4. QED
    BY <2>1, <2>2, <2>3 DEF TypeOK, DeviceTypes, ChannelTypes, HostTypes
<1>6. Progress'
  BY <1>0, <1>2 DEF Progress, Quiet, Before, Pending, InHand
<1>7. Alone'
  BY <1>0, <1>2 DEF Alone, InHand, Pending
<1>8. Announced'
  BY <1>0, <1>4 DEF Announced, Pending, InHand, Waits, Attached, Live
<1>9. Streaming'
  BY <1>0, <1>3, <1>4 DEF Streaming, InHand, Pending
<1>10. Readies'
  BY <1>0, <1>2 DEF Readies, Waits
<1>11. Outcome'
  BY <1>0, <1>2 DEF Outcome, Pending, InHand
<1>12. Operator'
  BY <1>0, <1>2 DEF Operator
<1>13. Smooth'
  BY <1>0, <1>2 DEF Smooth, Undisturbed, Attached, Live, InHand, Pending
<1>14. QED
  BY <1>5, <1>6, <1>7, <1>8, <1>9, <1>10, <1>11, <1>12, <1>13 DEF LinkInv

\* A poll that could not be written is tried again.
LEMMA WriteAgain ==
    ASSUME LinkInv, WriteFails, step' = "resync"
    PROVE  LinkInv'
<1>0. /\ TypeOK /\ Progress /\ Alone /\ Announced /\ Streaming
      /\ Readies /\ Outcome /\ Operator /\ Smooth
  BY DEF LinkInv
<1>1. UNCHANGED device
  BY DEF WriteFails
<1>2. /\ step = "send" /\ step' = "resync"
      /\ task \in {"ping", "state", "app"}
      /\ task' = (IF task = "app" THEN "app" ELSE "ping")
      /\ UNCHANGED verdict
      /\ UNCHANGED <<tool, block, seen, sent, image>>
      /\ UNCHANGED <<down, up, slot>>
      /\ UNCHANGED <<dev, flush, left, intact, acc, request, promote,
                     running, resets, early, transport>>
  BY DEF WriteFails, device, GoTo
<1>3. ~Waits /\ ~Waits' /\ (Before' <=> Before) /\ ~Pending /\ ~InHand /\ ~In("Ready", up)
  BY <1>0, <1>2 DEF Waits, Before, Announced, InHand, Readies
<1>4. (Pending' <=> Pending) /\ (InHand' <=> InHand) /\ (Attached' <=> Attached)
  BY <1>2 DEF Pending, InHand, Attached, Live
<1>5. TypeOK'
  <2>1. DeviceTypes'
    BY <1>0, <1>1, DeviceKept
  <2>2. ChannelTypes'
    BY <1>0, <1>2 DEF TypeOK, ChannelTypes
  <2>3. HostTypes'
    BY <1>0, <1>2 DEF TypeOK, HostTypes
  <2>4. QED
    BY <2>1, <2>2, <2>3 DEF TypeOK, DeviceTypes, ChannelTypes, HostTypes
<1>6. Progress'
  BY <1>0, <1>2 DEF Progress, Quiet, Before, Pending, InHand
<1>7. Alone'
  BY <1>0, <1>2 DEF Alone, InHand, Pending
<1>8. Announced'
  BY <1>0, <1>3, <1>4 DEF Announced, Pending, InHand, Waits, Attached, Live
<1>9. Streaming'
  BY <1>0, <1>3, <1>4 DEF Streaming, InHand, Pending
<1>10. Readies'
  BY <1>0, <1>2 DEF Readies, Waits
<1>11. Outcome'
  BY <1>0, <1>2 DEF Outcome, Pending, InHand
<1>12. Operator'
  BY <1>0, <1>2 DEF Operator
<1>13. Smooth'
  BY <1>0, <1>2, <1>3 DEF Smooth, Undisturbed, Attached, Live, InHand, Pending
<1>14. QED
  BY <1>5, <1>6, <1>7, <1>8, <1>9, <1>10, <1>11, <1>12, <1>13 DEF LinkInv

\* Anything else that could not be written ends the attempt.
LEMMA WriteGivesUp ==
    ASSUME LinkInv, WriteFails, step' # "resync"
    PROVE  LinkInv'
<1>0. /\ TypeOK /\ Progress /\ Alone /\ Announced /\ Streaming
      /\ Readies /\ Outcome /\ Operator /\ Smooth
  BY DEF LinkInv
<1>1. UNCHANGED device
  BY DEF WriteFails
<1>2. /\ step = "send" /\ ~Attached
      /\ task \notin {"ping", "state", "app"} /\ task' = "done" /\ step' = "recv"
      /\ verdict' = "gaveup"
      /\ UNCHANGED <<tool, block, seen, sent, image>>
      /\ UNCHANGED <<down, up, slot>>
      /\ UNCHANGED <<dev, flush, left, intact, acc, request, promote,
                     running, resets, early, transport>>
  BY DEF WriteFails, device, GoTo
<1>3. TypeOK'
  <2>1. DeviceTypes'
    BY <1>0, <1>1, DeviceKept
  <2>2. ChannelTypes'
    BY <1>0, <1>2 DEF TypeOK, ChannelTypes
  <2>3. HostTypes'
    BY <1>0, <1>2 DEF TypeOK, HostTypes
  <2>4. QED
    BY <2>1, <2>2, <2>3 DEF TypeOK, DeviceTypes, ChannelTypes, HostTypes
<1>4. Progress'
  <2>1. task \in {"reboot", "begin", "body"}
    BY <1>0, <1>2 DEF TypeOK, Progress
  <2>2. sent < BodyLen
    BY <1>0, <2>1, Numbers DEF Progress, Quiet, Before
  <2>3. QED
    BY <1>0, <1>2, <2>2 DEF Progress, Before
<1>5. Alone'
  BY <1>0, <1>2 DEF Alone, InHand, Pending
<1>6. Announced'
  BY <1>0, <1>2 DEF Announced, Pending, InHand, Waits, Attached, Live
<1>7. Streaming'
  BY <1>0, <1>2 DEF Streaming, InHand, Pending
<1>8. Readies'
  BY <1>0, <1>2 DEF Readies, Waits
<1>9. Outcome'
  BY <1>0, <1>2 DEF Outcome, Pending, InHand
<1>10. Operator'
  BY <1>0, <1>2 DEF Operator
<1>11. Smooth'
  BY <1>0, <1>2 DEF Smooth, Undisturbed, Attached, Live, Announced, Waits, InHand, Pending
<1>12. QED
  BY <1>3, <1>4, <1>5, <1>6, <1>7, <1>8, <1>9, <1>10, <1>11 DEF LinkInv

\* Silence after the body: an install, when nothing disturbed BOOT.
LEMMA ResultTimeoutStep ==
    ASSUME LinkInv, ResultTimeout
    PROVE  LinkInv'
<1>0. /\ TypeOK /\ Progress /\ Alone /\ Announced /\ Streaming
      /\ Readies /\ Outcome /\ Operator /\ Smooth
  BY DEF LinkInv
<1>1. UNCHANGED device
  BY DEF ResultTimeout
<1>2. /\ step = "recv"
      /\ task = "result"
      /\ dev \notin {"condemn", "stream"}
      /\ ~(Attached /\ up # <<>>)
      /\ \/ task' = "app" /\ step' = "resync" /\ tool = "selftest"
         \/ task' = "done" /\ step' = "recv"
      /\ verdict' = "silent"
      /\ UNCHANGED <<tool, block, seen, sent, image>>
      /\ UNCHANGED <<down, up, slot>>
      /\ UNCHANGED <<dev, flush, left, intact, acc, request, promote,
                     running, resets, early, transport>>
  BY DEF ResultTimeout, device, GoTo, Silence
<1>3. sent = BodyLen /\ ~Waits /\ ~Before' /\ ~Pending /\ ~InHand
  BY <1>0, <1>2 DEF Progress, Before, Waits, Announced, InHand
<1>4. (Pending' <=> Pending) /\ (InHand' <=> InHand) /\ (Attached' <=> Attached)
  BY <1>2 DEF Pending, InHand, Attached, Live
<1>5. Undisturbed => running = "new"
  BY <1>0, <1>2, Nothing DEF Smooth
<1>6. TypeOK'
  <2>1. DeviceTypes'
    BY <1>0, <1>1, DeviceKept
  <2>2. ChannelTypes'
    BY <1>0, <1>2 DEF TypeOK, ChannelTypes
  <2>3. HostTypes'
    BY <1>0, <1>2 DEF TypeOK, HostTypes
  <2>4. QED
    BY <2>1, <2>2, <2>3 DEF TypeOK, DeviceTypes, ChannelTypes, HostTypes
<1>7. Progress'
  BY <1>0, <1>2 DEF Progress, Quiet, Before, Pending, InHand
<1>8. Alone'
  BY <1>0, <1>2 DEF Alone, InHand, Pending
<1>9. Announced'
  BY <1>0, <1>3, <1>4 DEF Announced, Pending, InHand, Waits, Attached, Live
<1>10. Streaming'
  BY <1>0, <1>3, <1>4 DEF Streaming, InHand, Pending
<1>11. Readies'
  BY <1>0, <1>2 DEF Readies, Waits
<1>12. Outcome'
  BY <1>0, <1>2 DEF Outcome, Pending, InHand
<1>13. Operator'
  BY <1>0, <1>2 DEF Operator
<1>14. Smooth'
  BY <1>0, <1>2, <1>5 DEF Smooth, Undisturbed, Attached, Live, InHand, Pending
<1>15. QED
  BY <1>6, <1>7, <1>8, <1>9, <1>10, <1>11, <1>12, <1>13, <1>14 DEF LinkInv

-----------------------------------------------------------------------------
(* The invariant holds, and the properties with it. *)

\* Start: the part is up, nothing is on the link and the host begins.
LEMMA Start ==
    ASSUME Init
    PROVE  LinkInv
<1>1. /\ down = <<>> /\ up = <<>> /\ acc = "clean" /\ dev \in {"listen", "app"}
      /\ running \in {"none", "old"} /\ task = "reboot" /\ step = "resync"
      /\ sent = 0 /\ verdict = "none" /\ tool \in {"selftest", "update"}
      /\ left = 0 /\ intact = FALSE /\ flush = FALSE
  BY DEF Init
<1>2. /\ \A m : ~In(m, down) /\ ~In(m, up)
      /\ Closing(down) /\ OneReady(up) /\ ~Pending
      /\ down \in Seq(Bytes) /\ Len(down) = 0 /\ up \in Seq(ToHost)
  BY <1>1, Nothing DEF Pending
<1>3. TypeOK
  <2>1. DeviceTypes
    <3>1. 0 \in 0 .. BodyLen /\ 0 \in 0 .. Resets
      BY LinkAssumption
    <3>2. QED
      BY <3>1 DEF Init, DeviceTypes
  <2>2. ChannelTypes
    BY <1>2, LinkAssumption DEF Init, Live, ChannelTypes
  <2>3. HostTypes
    <3>1. 0 \in 0 .. BodyLen
      BY LinkAssumption
    <3>2. QED
      BY <3>1 DEF Init, Live, HostTypes
  <2>4. QED
    BY <2>1, <2>2, <2>3 DEF TypeOK, DeviceTypes, ChannelTypes, HostTypes
<1>4. Progress
  BY <1>1, <1>2 DEF Progress, Quiet, Before, InHand
<1>5. Alone /\ Announced /\ Streaming /\ Readies
  BY <1>1, <1>2 DEF Alone, Announced, InHand, Streaming, Readies
<1>6. Outcome /\ Operator /\ Smooth
  BY <1>1, <1>2 DEF Outcome, Operator, Smooth
<1>7. QED
  BY <1>3, <1>4, <1>5, <1>6 DEF LinkInv

\* Stutter: the invariant speaks of no more than the state.
LEMMA Stutter ==
    ASSUME LinkInv, UNCHANGED vars
    PROVE  LinkInv'
BY DEF LinkInv, vars, device, hostVars, TypeOK, Progress, Quiet, Before, Pending, InHand, Waits,
       Alone, Announced, Attached, Live, Streaming, Readies, Outcome, Operator, Smooth, Undisturbed

\* One case for each action, and under it one for each of its branches.
LEMMA Step ==
    ASSUME LinkInv, [Next]_vars
    PROVE  LinkInv'
<1>1. CASE Flush
  BY <1>1, FlushStep
<1>2. CASE BootDecides
  BY <1>2, BootListens, BootBoots
<1>3. CASE Listen
  <2>1. CASE Decoded("Ping")
    BY <1>3, <2>1, ListenPing
  <2>2. CASE Decoded("BeginUpdate")
    BY <1>3, <2>2, ListenBegin, ListenRefuse
  <2>3. CASE ~Decoded("Ping") /\ ~Decoded("BeginUpdate")
    BY <1>3, <2>3, ListenDrops
  <2>4. QED
    BY <2>1, <2>2, <2>3
<1>4. CASE Condemn
  BY <1>4, CondemnReady, CondemnFails
<1>5. CASE StreamByte
  BY <1>5, StreamByteStep
<1>6. CASE ByteTimeout
  BY <1>6, ByteTimeoutStep
<1>7. CASE Install
  BY <1>7, InstallGood, InstallBad
<1>8. CASE FlashFails
  BY <1>8, FlashFailsStep
<1>9. CASE Acknowledged
  BY <1>9, AcknowledgedStep
<1>10. CASE HandoverTimeout
  BY <1>10, HandoverTimeoutStep
<1>11. CASE App
  <2>1. CASE Decoded("Ping")
    BY <1>11, <2>1, AppPing
  <2>2. CASE Decoded("GetState")
    BY <1>11, <2>2, AppState
  <2>3. CASE ~Decoded("Ping") /\ ~Decoded("GetState")
    BY <1>11, <2>3, AppDrops
  <2>4. QED
    BY <2>1, <2>2, <2>3
<1>12. CASE AppUpdate
  BY <1>12, AppUpdateStep
<1>13. CASE AppWatchdog
  BY <1>13, AppWatchdogStep
<1>14. CASE BootResets
  BY <1>14, BootResetsStep
<1>15. CASE Reconnect
  BY <1>15, ReconnectStep
<1>16. CASE Consume
  BY <1>16, ConsumeStep
<1>17. CASE ClearInput
  BY <1>17, ClearInputStep
<1>18. CASE Send
  BY <1>18, SendBegin, SendOther
<1>19. CASE WriteBody
  BY <1>19, WriteBodyStep
<1>20. CASE Recv
  <2>1. CASE (task = "ping" /\ Head(up) = "Pong") \/ (task = "state" /\ Head(up) \in States)
    BY <1>20, <2>1, RecvPoll
  <2>2. CASE task = "begin" /\ Head(up) = "Ready"
    BY <1>20, <2>2, RecvReady
  <2>3. CASE task = "result" /\ (tool = "update" \/ Head(up) = "UpdateResult")
    BY <1>20, <2>3, RecvResult
  <2>4. CASE task = "app" /\ Head(up) \in States
    BY <1>20, <2>4, RecvState
  <2>5. CASE /\ ~(task = "ping" /\ Head(up) = "Pong") /\ ~(task = "state" /\ Head(up) \in States)
             /\ ~(task = "begin" /\ Head(up) = "Ready")
             /\ ~(task = "result" /\ (tool = "update" \/ Head(up) = "UpdateResult"))
             /\ ~(task = "app" /\ Head(up) \in States)
    BY <1>20, <2>5, RecvDrops
  <2>6. QED
    BY <2>1, <2>2, <2>3, <2>4, <2>5
<1>21. CASE PollTimeout
  <2>1. CASE step' # "recv"
    BY <1>21, <2>1, PollAgain
  <2>2. CASE step' = "recv"
    BY <1>21, <2>2, GivesUp, AppSilent
  <2>3. QED
    BY <2>1, <2>2
<1>22. CASE ResultTimeout
  BY <1>22, ResultTimeoutStep
<1>23. CASE WriteFails
  <2>1. CASE step' = "resync"
    BY <1>23, <2>1, WriteAgain
  <2>2. CASE step' # "resync"
    BY <1>23, <2>2, WriteGivesUp
  <2>3. QED
    BY <2>1, <2>2
<1>24. CASE UNCHANGED vars
  BY <1>24, Stutter
<1>25. QED
  BY <1>1, <1>2, <1>3, <1>4, <1>5, <1>6, <1>7, <1>8, <1>9, <1>10, <1>11, <1>12, <1>13, <1>14,
     <1>15, <1>16, <1>17, <1>18, <1>19, <1>20, <1>21, <1>22, <1>23, <1>24
     DEF Next, DeviceStep, HostStep

\* The invariant the theorems below rest on.
THEOREM LinkInvariant == Spec => []LinkInv
<1>1. Init => LinkInv
  BY Start
<1>2. LinkInv /\ [Next]_vars => LinkInv'
  BY Step
<1>3. QED
  BY <1>1, <1>2, PTL DEF Spec

\* Every variable keeps its type: no byte of a foreign kind enters a ring, the
\* down channel never holds more than its ring, and no counter leaves its range.
THEOREM LinkTypeCorrect == Spec => []TypeOK
<1>1. LinkInv => TypeOK
  BY DEF LinkInv
<1>2. QED
  BY <1>1, LinkInvariant, PTL

\* Whatever was polled, retried, dropped or left over before, a byte of the
\* body meets a BOOT that streams (stream_image in BOOT's main.rs), unless BOOT
\* was reset or its flash failed in mid-stream.
THEOREM BodiesMeetStreams == Spec => []BodyMeetsStream
<1>1. LinkInv => BodyMeetsStream
  BY DEF LinkInv, Smooth, BodyMeetsStream, In
<1>2. QED
  BY <1>1, LinkInvariant, PTL

\* What the host concludes (run_update in main.rs, await_install in selftest.rs)
\* is so: silence is an install unless BOOT was disturbed, the version that
\* answers and the refusal always, and nothing but the outcome follows a body.
THEOREM VerdictsAreRight == Spec => []VerdictRight
<1>1. LinkInv => VerdictRight
  <2> SUFFICES ASSUME LinkInv PROVE VerdictRight
    OBVIOUS
  <2>1. /\ Progress /\ Outcome /\ Smooth /\ BodyLen > 0
        /\ sent \in Nat /\ BodyLen \in Nat
    BY Numbers DEF LinkInv
  <2>2. QED
    BY <2>1 DEF Progress, Outcome, Smooth, VerdictRight
<1>2. QED
  BY <1>1, LinkInvariant, PTL

=============================================================================
