-------------------------- MODULE RtspServerProofs --------------------------
(***************************************************************************)
(* What a client of the RTSP server may rely on, for any ring, any number  *)
(* of connections and registrations and any fragmentation: media only      *)
(* after valid credentials, access units that end at the marker, and a     *)
(* gap report that counts what the ring overtook.                          *)
(***************************************************************************)
EXTENDS RtspServer, SequenceTheorems, TLAPS

FeedType == [st : {"none", "up", "down"}, seq : 0 .. SeqMod - 1, ts : Nat, cached : BOOLEAN,
             burst : Seq(Packet)]

ConnType == [st : {"none", "init", "described", "setup", "playing", "stream", "closed"},
             path : Uris, reg : 0 .. MaxReg, pos : Nat, last : -1 .. SeqMod - 1, idx : Nat,
             half : {"no", "read", "lost"}, quiet : 0 .. IdleTicks, req : 0 .. MaxReq,
             authed : BOOLEAN]

\* TypeOK without the bounds on the packets.
Shape ==
    /\ regs \in Seq(Mounts) /\ Len(regs) <= MaxReg
    /\ mount \in [Mounts -> 0 .. Len(regs)]
    /\ feed \in [Regs -> FeedType]
    /\ sent \in [Regs -> Nat]
    /\ ring \in [Regs -> Seq(Packet)]
    /\ conn \in [Conns -> ConnType]

\* A number that was not given out yet has an unused channel.
FreshIsUnused ==
    \A g \in Regs : g > Len(regs) => feed[g] = NoFeed /\ sent[g] = 0 /\ ring[g] = <<>>

\* The ring holds the last packets of its channel.
RingIsTail ==
    \A g \in Regs : Len(ring[g]) = IF sent[g] < Ring THEN sent[g] ELSE Ring

\* The packets a channel holds and the ones its sender is about to send.
Wire(g) == ring[g] \o feed[g].burst

\* The increment of the timestamp after a packet.
Advance(p) == IF p.marker THEN 1 ELSE 0

\* Packet number n of a registration, counted from zero, carries the sequence
\* number n, modulo 2^16; the output's counter is the next one.
Numbered(g) ==
    /\ \A i \in 1 .. Len(Wire(g)) :
        Wire(g)[i].rtp /\ Wire(g)[i].seq = (sent[g] - Len(ring[g]) + i - 1) % SeqMod
    /\ feed[g].st = "up" => feed[g].seq = (sent[g] + Len(feed[g].burst)) % SeqMod

\* The timestamp goes up after each marker and nowhere else; the output's
\* timestamp is the next packet's.
Timed(g) ==
    /\ \A i \in 1 .. Len(Wire(g)) - 1 : Wire(g)[i + 1].ts = Wire(g)[i].ts + Advance(Wire(g)[i])
    /\ feed[g].st = "up" /\ Wire(g) # <<>> =>
        feed[g].ts = Wire(g)[Len(Wire(g))].ts + Advance(Wire(g)[Len(Wire(g))])

WireInv == \A g \in 1 .. Len(regs) : regs[g] = "main" => Numbered(g) /\ Timed(g)

\* Only a delivery holds a receiver, whose position is on its channel; the
\* tracker holds the number of the packet delivered last.
Tracked(k) ==
    /\ k.st \in {"described", "setup"} => k.path \in Mounts
    /\ k.st # "stream" => k.idx = 0
    /\ k.st = "stream" =>
        /\ k.reg \in 1 .. Len(regs)
        /\ k.pos <= sent[k.reg]
        /\ k.idx # 0 /\ regs[k.reg] = "main" => k.last = (k.idx - 1) % SeqMod

\* Past SETUP, the credentials were valid.
Authorized(k) == AuthRequired /\ k.st \in {"setup", "stream"} => k.authed

ConnInv == \A c \in Conns : Tracked(conn[c]) /\ Authorized(conn[c])

IInv == Shape /\ FreshIsUnused /\ RingIsTail /\ WireInv /\ ConnInv

-----------------------------------------------------------------------------
(* Remainders                                                              *)

\* A remainder is smaller than the modulus, and what it leaves is a multiple.
LEMMA ModRange ==
  \A m \in Nat \ {0}, a \in Int : a % m \in 0 .. m - 1 /\ \E k \in Int : a = m * k + (a % m)
<1> SUFFICES ASSUME NEW m \in Nat \ {0}, NEW a \in Int
             PROVE  a % m \in 0 .. m - 1 /\ \E k \in Int : a = m * k + (a % m)
  OBVIOUS
<1>1. a % m \in 0 .. m - 1 /\ a \div m \in Int /\ a = m * (a \div m) + (a % m)
  OBVIOUS
<1>2. QED
  BY <1>1

\* A number has one remainder.
LEMMA ModUnique ==
  \A m \in Nat \ {0}, k, l \in Int : \A r, s \in 0 .. m - 1 : m * k + r = m * l + s => r = s
<1> SUFFICES ASSUME NEW m \in Nat \ {0}, NEW k \in Int, NEW l \in Int,
                    NEW r \in 0 .. m - 1, NEW s \in 0 .. m - 1, m * k + r = m * l + s
             PROVE  r = s
  OBVIOUS
<1>1. m * (k - l) = s - r
  OBVIOUS
<1>2. k - l >= 1 => m * (k - l) >= m
  OBVIOUS
<1>3. k - l <= -1 => m * (k - l) <= -m
  OBVIOUS
<1>4. k = l
  BY <1>1, <1>2, <1>3
<1>5. m * k = m * l
  BY <1>4
<1>6. QED
  BY <1>5

\* Multiples of the modulus do not count.
LEMMA ModCycle == \A m \in Nat \ {0}, a, k \in Int : (a + m * k) % m = a % m
<1> SUFFICES ASSUME NEW m \in Nat \ {0}, NEW a \in Int, NEW k \in Int
             PROVE  (a + m * k) % m = a % m
  OBVIOUS
<1>1. PICK b \in Int : b = a + m * k
  OBVIOUS
<1>2. PICK p \in Int : a = m * p + (a % m)
  BY ModRange
<1>3. PICK q \in Int : b = m * q + (b % m)
  BY <1>1, ModRange
<1>4. a % m \in 0 .. m - 1 /\ b % m \in 0 .. m - 1
  BY <1>1, ModRange
<1>5. m * (p + k) = m * p + m * k /\ p + k \in Int
  OBVIOUS
<1>6. m * (p + k) + (a % m) = m * q + (b % m)
  BY <1>1, <1>2, <1>3, <1>4, <1>5
<1>7. a % m = b % m
  BY <1>4, <1>5, <1>6, ModUnique
<1>8. QED
  BY <1>7, <1>1

\* A remainder may be taken early.
LEMMA ModAdd == \A m \in Nat \ {0}, a, b \in Int : ((a % m) + b) % m = (a + b) % m
<1> SUFFICES ASSUME NEW m \in Nat \ {0}, NEW a \in Int, NEW b \in Int
             PROVE  ((a % m) + b) % m = (a + b) % m
  OBVIOUS
<1>1. PICK k \in Int : a = m * k + (a % m)
  BY ModRange
<1>2. PICK u \in Int : u = a % m
  BY ModRange
<1>3. a + b = (u + b) + m * k
  BY <1>1, <1>2
<1>4. u + b \in Int
  OBVIOUS
<1>5. ((u + b) + m * k) % m = (u + b) % m
  BY <1>4, ModCycle
<1>6. QED
  BY <1>2, <1>3, <1>5

\* The gap SequenceTracker computes between packets number a and b is the
\* number of packets in between.
LEMMA GapCounts ==
  ASSUME SeqMod \in Nat \ {0}, NEW a \in Nat, NEW b \in Nat
  PROVE  Gap(a % SeqMod, b % SeqMod) = (b - a - 1) % SeqMod
<1>1. PICK k \in Int : a = SeqMod * k + (a % SeqMod)
  <2>1. a \in Int
    OBVIOUS
  <2>2. QED
    BY <2>1, ModRange
<1>2. PICK u \in Int : u = a % SeqMod /\ u >= 0
  BY ModRange
<1>3. PICK v \in Int : v = b % SeqMod
  BY ModRange
<1>4. Gap(u, v) = (v - (u + 1)) % SeqMod
  BY <1>2 DEF Gap
<1>5. ((b % SeqMod) + (-u - 1)) % SeqMod = (b + (-u - 1)) % SeqMod
  <2>1. -u - 1 \in Int /\ b \in Int
    OBVIOUS
  <2>2. QED
    BY <2>1, ModAdd
<1>6. v - (u + 1) = v + (-u - 1)
  OBVIOUS
<1>7. b + (-u - 1) = (b - a - 1) + SeqMod * k
  BY <1>1, <1>2
<1>8. ((b - a - 1) + SeqMod * k) % SeqMod = (b - a - 1) % SeqMod
  <2>1. b - a - 1 \in Int
    OBVIOUS
  <2>2. QED
    BY <2>1, ModCycle
<1>9. QED
  BY <1>2, <1>3, <1>4, <1>5, <1>6, <1>7, <1>8

-----------------------------------------------------------------------------
(* Sequences                                                               *)

\* Moving the next packet of a burst into the ring leaves the wire alone.
LEMMA ShiftOne ==
  ASSUME NEW S, NEW r \in Seq(S), NEW b \in Seq(S), b # <<>>
  PROVE  (r \o <<Head(b)>>) \o Tail(b) = r \o b
<1>1. Head(b) \in S /\ Tail(b) \in Seq(S) /\ <<Head(b)>> \in Seq(S) /\ b = <<Head(b)>> \o Tail(b)
  BY HeadTailProperties
<1>2. (r \o <<Head(b)>>) \o Tail(b) = r \o (<<Head(b)>> \o Tail(b))
  BY <1>1, ConcatAssociative
<1>3. QED
  BY <1>1, <1>2

\* In a full ring it overwrites the oldest packet.
LEMMA ShiftDrop ==
  ASSUME NEW S, NEW r \in Seq(S), NEW b \in Seq(S), b # <<>>, r # <<>>
  PROVE  (Tail(r) \o <<Head(b)>>) \o Tail(b) = Tail(r \o b)
<1>1. Tail(r) \in Seq(S) /\ (Tail(r) \o <<Head(b)>>) \o Tail(b) = Tail(r) \o b
  BY ShiftOne, HeadTailProperties
<1>2. Tail(r) \o b = Tail(r \o b)
  BY ConcatProperties, HeadTailProperties
<1>3. QED
  BY <1>1, <1>2

\* Packets with the numbers from seq on and one timestamp, of which at most the
\* last one, when the frame is a slice, has the marker.
IsBurst(s, seq, ts, nal) ==
    \A i \in 1 .. Len(s) :
        /\ s[i].rtp
        /\ s[i].seq = (seq + i - 1) % SeqMod
        /\ s[i].ts = ts
        /\ s[i].marker <=> nal \in Slices /\ i = Len(s)

\* build_rtp_packets makes such a burst.
LEMMA RtpPacketsAre ==
  ASSUME NEW nal \in Nals, NEW n \in Nat \ {0}, NEW seq \in Nat, NEW ts \in Nat
  PROVE  /\ RtpPackets(nal, n, seq, ts) \in Seq(Packet)
         /\ Len(RtpPackets(nal, n, seq, ts)) = n
         /\ IsBurst(RtpPackets(nal, n, seq, ts), seq, ts, nal)
<1> DEFINE pkt(i) == [rtp |-> TRUE, seq |-> (seq + i - 1) % SeqMod, ts |-> ts,
                      marker |-> nal \in Slices /\ i = n]
<1>1. RtpPackets(nal, n, seq, ts) = [i \in 1 .. n |-> pkt(i)]
  BY DEF RtpPackets
<1>2. \A i \in 1 .. n : pkt(i) \in Packet
  <2> SUFFICES ASSUME NEW i \in 1 .. n PROVE pkt(i) \in Packet
    OBVIOUS
  <2>1. seq + i - 1 \in Int /\ SeqMod \in Nat \ {0}
    BY RtspAssumption DEF RtspAssumption
  <2>2. (seq + i - 1) % SeqMod \in 0 .. SeqMod - 1
    BY <2>1, ModRange
  <2>3. (nal \in Slices /\ i = n) \in BOOLEAN
    OBVIOUS
  <2>4. QED
    BY <2>2, <2>3 DEF Packet
<1>3. \A i \in 1 .. n :
        /\ pkt(i).rtp /\ pkt(i).seq = (seq + i - 1) % SeqMod /\ pkt(i).ts = ts
        /\ pkt(i).marker <=> nal \in Slices /\ i = n
  OBVIOUS
<1> HIDE DEF pkt
<1>4. [i \in 1 .. n |-> pkt(i)] \in Seq(Packet)
  BY <1>2, IsASeq
<1>5. Len([i \in 1 .. n |-> pkt(i)]) = n
  OBVIOUS
<1>6. \A i \in 1 .. n : [j \in 1 .. n |-> pkt(j)][i] = pkt(i)
  OBVIOUS
<1>7. QED
  BY <1>1, <1>3, <1>4, <1>5, <1>6 DEF IsBurst

\* So does send_frame, the parameter sets it sends again included.
LEMMA PacketsAre ==
  ASSUME NEW f \in FeedType, NEW nal \in Nals
  PROVE  /\ Packets(f, nal) \in Seq(Packet)
         /\ Packets(f, nal) # <<>>
         /\ IsBurst(Packets(f, nal), f.seq, f.ts, nal)
<1>1. f.seq \in Nat /\ f.seq + 1 \in Nat /\ f.ts \in Nat /\ Size(nal) \in Nat \ {0}
  BY RtspAssumption DEF RtspAssumption, FeedType, Size
<1>2. CASE nal = "params" \/ ~(nal = "p" /\ f.cached)
  <2> DEFINE n == IF nal = "params" THEN 1 ELSE Size(nal)
  <2>1. Packets(f, nal) = RtpPackets(nal, n, f.seq, f.ts)
    BY <1>2 DEF Packets
  <2>2. n \in Nat \ {0}
    BY <1>1
  <2> HIDE DEF n
  <2>3. /\ RtpPackets(nal, n, f.seq, f.ts) \in Seq(Packet)
        /\ Len(RtpPackets(nal, n, f.seq, f.ts)) = n
        /\ IsBurst(RtpPackets(nal, n, f.seq, f.ts), f.seq, f.ts, nal)
    BY <1>1, <2>2, RtpPacketsAre
  <2>4. QED
    BY <2>1, <2>2, <2>3, EmptySeq
<1>3. CASE nal = "p" /\ f.cached
  <2> DEFINE a == RtpPackets("params", 1, f.seq, f.ts)
             b == RtpPackets("p", 1, f.seq + 1, f.ts)
  <2>1. Packets(f, nal) = a \o b
    BY <1>3 DEF Packets, Size
  <2>2. /\ "params" \in Nals /\ "p" \in Nals /\ "params" \notin Slices /\ "p" \in Slices
        /\ 1 \in Nat \ {0}
    BY DEF Nals, Slices
  <2>3. a \in Seq(Packet) /\ Len(a) = 1 /\ IsBurst(a, f.seq, f.ts, "params")
    <3>1. \A x \in Nals, n \in Nat \ {0} :
            /\ RtpPackets(x, n, f.seq, f.ts) \in Seq(Packet)
            /\ Len(RtpPackets(x, n, f.seq, f.ts)) = n
            /\ IsBurst(RtpPackets(x, n, f.seq, f.ts), f.seq, f.ts, x)
      BY <1>1, RtpPacketsAre
    <3>2. QED
      BY <2>2, <3>1, Zenon
  <2>4. b \in Seq(Packet) /\ Len(b) = 1 /\ IsBurst(b, f.seq + 1, f.ts, "p")
    <3>1. \A x \in Nals, n \in Nat \ {0} :
            /\ RtpPackets(x, n, f.seq + 1, f.ts) \in Seq(Packet)
            /\ Len(RtpPackets(x, n, f.seq + 1, f.ts)) = n
            /\ IsBurst(RtpPackets(x, n, f.seq + 1, f.ts), f.seq + 1, f.ts, x)
      BY <1>1, RtpPacketsAre
    <3>2. QED
      BY <2>2, <3>1, Zenon
  <2> HIDE DEF a, b
  <2>5. /\ a \o b \in Seq(Packet) /\ Len(a \o b) = 2
        /\ (a \o b)[1] = a[1] /\ (a \o b)[2] = b[1]
    BY <2>3, <2>4, ConcatProperties
  <2>6. /\ a[1].rtp /\ a[1].seq = (f.seq + 1 - 1) % SeqMod /\ a[1].ts = f.ts /\ ~a[1].marker
        /\ b[1].rtp /\ b[1].seq = (f.seq + 2 - 1) % SeqMod /\ b[1].ts = f.ts /\ b[1].marker
    <3>1. f.seq + 1 + 1 - 1 = f.seq + 2 - 1
      BY <1>1
    <3>2. QED
      BY <2>2, <2>3, <2>4, <3>1 DEF IsBurst
  <2>7. IsBurst(a \o b, f.seq, f.ts, "p")
    BY <2>2, <2>5, <2>6 DEF IsBurst
  <2>8. QED
    <3>1. a \o b # <<>>
      BY <2>5, EmptySeq
    <3>2. QED
      BY <1>3, <2>1, <2>5, <2>7, <3>1
<1>4. QED
  BY <1>2, <1>3

-----------------------------------------------------------------------------
(* The inductive invariant                                                 *)

\* A server that has just started has no mounts and no connections.
LEMMA InitIInv == Init => IInv
<1> SUFFICES ASSUME Init PROVE IInv
  OBVIOUS
<1> USE RtspAssumption DEF RtspAssumption, Init
<1>1. <<>> \in Seq(Mounts) /\ <<>> \in Seq(Packet) /\ Len(<<>>) = 0
  BY EmptySeq
<1>2. NoFeed \in FeedType
  BY <1>1 DEF NoFeed, FeedType
<1>3. NoConn \in ConnType
  BY DEF NoConn, ConnType, Uris
<1>4. Shape
  BY <1>1, <1>2, <1>3 DEF Shape, Regs
<1>5. FreshIsUnused /\ RingIsTail /\ WireInv
  BY <1>1 DEF FreshIsUnused, RingIsTail, WireInv
<1>6. ConnInv
  BY DEF ConnInv, Tracked, Authorized, NoConn
<1>7. QED
  BY <1>4, <1>5, <1>6 DEF IInv

\* The packet a delivery takes is in the ring, and is the one after the last
\* it took.
LEMMA DeliverReads ==
  ASSUME Shape, RingIsTail, ConnInv, NEW c \in Conns, Streaming(c),
         sent[conn[c].reg] - conn[c].pos \in 1 .. Ring
  PROVE  LET g == conn[c].reg
             i == Len(ring[g]) - (sent[g] - conn[c].pos) + 1
         IN  /\ g \in Regs
             /\ i \in 1 .. Len(ring[g])
             /\ ring[g][i] \in Packet
             /\ sent[g] - Len(ring[g]) + i - 1 = conn[c].pos
<1> DEFINE g == conn[c].reg
           i == Len(ring[g]) - (sent[g] - conn[c].pos) + 1
<1>1. conn[c] \in ConnType /\ conn[c].pos \in Nat
  BY DEF Shape, ConnType
<1>2. g \in 1 .. Len(regs) /\ conn[c].pos <= sent[g]
  BY DEF ConnInv, Tracked, Streaming
<1>3. g \in Regs /\ Len(regs) \in Nat
  BY <1>2, RtspAssumption, LenProperties DEF RtspAssumption, Shape, Regs
<1>4. sent[g] \in Nat /\ ring[g] \in Seq(Packet)
  BY <1>3 DEF Shape
<1>5. Len(ring[g]) = IF sent[g] < Ring THEN sent[g] ELSE Ring
  BY <1>3 DEF RingIsTail
<1>6. Len(ring[g]) \in Nat
  BY <1>4, LenProperties
<1>7. i \in 1 .. Len(ring[g]) /\ sent[g] - Len(ring[g]) + i - 1 = conn[c].pos
  <2>1. \A s, p, r \in Nat :
          p <= s /\ s - p \in 1 .. Ring /\ r = (IF s < Ring THEN s ELSE Ring) =>
            r - (s - p) + 1 \in 1 .. r /\ s - r + (r - (s - p) + 1) - 1 = p
    BY RtspAssumption DEF RtspAssumption
  <2>2. QED
    BY <2>1, <1>1, <1>2, <1>4, <1>5, <1>6
<1>8. ring[g][i] \in Packet
  BY <1>4, <1>7, ElementOfSeq
<1>9. QED
  BY <1>3, <1>7, <1>8

\* A closed connection keeps nothing of its session.
LEMMA ClosedShape == Closed \in ConnType /\ Closed.st = "closed" /\ Closed.idx = 0
<1>1. NoConn \in ConnType /\ NoConn.idx = 0
  BY RtspAssumption DEF RtspAssumption, NoConn, ConnType, Uris
<1>2. QED
  BY <1>1 DEF Closed, ConnType

\* A record of the right shape keeps it when a field gets a value of its range.
LEMMA PlayShape ==
  ASSUME NEW k \in ConnType, NEW s \in {"playing", "stream"}, NEW g \in 0 .. MaxReg, NEW p \in Nat,
         NEW a \in BOOLEAN
  PROVE  [k EXCEPT !.st = s, !.reg = g, !.pos = p, !.authed = a] \in ConnType
  BY DEF ConnType

LEMMA DeliverShape ==
  ASSUME NEW k \in ConnType, NEW p \in Nat, NEW n \in -1 .. SeqMod - 1, NEW q \in 0 .. IdleTicks,
         NEW h \in {"no", "read", "lost"}
  PROVE  [k EXCEPT !.pos = p, !.idx = p, !.last = n, !.quiet = q, !.half = h] \in ConnType
  BY DEF ConnType

LEMMA TickShape ==
  ASSUME NEW k \in ConnType, NEW q \in 0 .. IdleTicks, NEW h \in {"no", "read", "lost"}
  PROVE  [k EXCEPT !.quiet = q, !.half = h] \in ConnType
  BY DEF ConnType

LEMMA RequestShape ==
  ASSUME NEW k \in ConnType
  PROVE  /\ \A n \in 0 .. MaxReq : [k EXCEPT !.half = "read", !.req = n] \in ConnType
         /\ \A q \in 0 .. IdleTicks : [k EXCEPT !.half = "no", !.quiet = q] \in ConnType
  BY DEF ConnType

\* The operations on the server's side leave the connections alone.
FeedStep ==
    \/ \E m \in Mounts : Register(m) \/ Unregister(m)
    \/ \E g \in 1 .. Len(regs) :
        FeedStops(g) \/ Send(g) \/ SubFrame(g) \/ \E nal \in Nals : OutputFrame(g, nal)

\* The steps of a connection leave the channels alone.
ConnStep(c) ==
    \/ Connect(c) \/ Disconnect(c)
    \/ \E uri \in Uris, ok \in BOOLEAN : Describe(c, uri, ok) \/ Setup(c, uri, ok)
    \/ \E ok \in BOOLEAN : Play(c, ok) \/ Teardown(c, ok)
    \/ Turn(c) \/ HalfRequest(c) \/ RestOfRequest(c)

LEMMA NextIs == Next <=> FeedStep \/ \E c \in Conns : ConnStep(c)
  BY DEF Next, FeedStep, ConnStep

LEMMA ConnStepKeeps ==
  ASSUME NEW c \in Conns, ConnStep(c)
  PROVE  UNCHANGED <<mount, regs, feed, sent, ring>>
  BY DEF ConnStep, Connect, Disconnect, Describe, Setup, Play, Teardown, Turn, Deliver, Lagged,
         Ended, Tick, HalfRequest, RestOfRequest

LEMMA FeedStepKeeps == FeedStep => UNCHANGED conn
  BY DEF FeedStep, Register, Unregister, FeedStops, Send, SubFrame, OutputFrame

\* What a step of connection c may make of its record.
LEMMA ConnStepSession ==
  ASSUME IInv, NEW c \in Conns, ConnStep(c)
  PROVE  /\ conn' = [conn EXCEPT ![c] = conn'[c]]
         /\ conn'[c] \in ConnType
         /\ Tracked(conn'[c])
         /\ Authorized(conn'[c])
<1> DEFINE Goal == /\ conn' = [conn EXCEPT ![c] = conn'[c]]
                   /\ conn'[c] \in ConnType
                   /\ Tracked(conn'[c])
                   /\ Authorized(conn'[c])
<1>1. conn \in [Conns -> ConnType] /\ conn[c] \in ConnType /\ Tracked(conn[c]) /\ Authorized(conn[c])
  BY DEF IInv, Shape, ConnInv
<1>2. ASSUME Close(c) PROVE Goal
  BY <1>1, <1>2, ClosedShape DEF Close, Tracked, Authorized
<1>3. ASSUME Connect(c) PROVE Goal
  BY <1>1, <1>3 DEF Connect, ConnType, Tracked, Authorized
<1>4. ASSUME NEW uri \in Uris, NEW ok \in BOOLEAN, Describe(c, uri, ok) PROVE Goal
  <2>1. Find(uri) \in Uris /\ Find(uri) \in Mounts
    BY <1>4 DEF Describe, Find, Uris, Mounts
  <2>2. QED
    BY <1>1, <1>4, <2>1 DEF Describe, Waiting, ConnType, Tracked, Authorized
<1>5. ASSUME NEW uri \in Uris, NEW ok \in BOOLEAN, Setup(c, uri, ok) PROVE Goal
  <2>1. SetupPath(c, uri) \in Mounts /\ SetupPath(c, uri) \in Uris
    BY <1>1, <1>5 DEF Setup, SetupPath, Find, Uris, Mounts, Tracked
  <2>2. QED
    BY <1>1, <1>5, <2>1 DEF Setup, Waiting, CheckAuth, ConnType, Tracked, Authorized
<1>6. ASSUME NEW ok \in BOOLEAN, Play(c, ok) PROVE Goal
  <2> DEFINE g == mount[conn[c].path]
  <2>1. conn[c].st = "setup" /\ conn[c].path \in Mounts
    BY <1>1, <1>6 DEF Play, Tracked
  <2>2. g \in 0 .. Len(regs) /\ Len(regs) <= MaxReg /\ Len(regs) \in Nat
    BY <2>1, LenProperties DEF IInv, Shape
  <2>3. g # 0 => g \in 1 .. Len(regs) /\ sent[g] \in Nat
    BY <2>2, RtspAssumption DEF IInv, Shape, Regs, RtspAssumption
  <2>4. conn[c].idx = 0
    BY <1>1, <2>1 DEF Tracked
  <2> DEFINE a == conn[c].authed /\ ok
             t == IF g = 0 THEN "playing" ELSE "stream"
             n == IF g = 0 THEN 0 ELSE sent[g]
             k == [conn[c] EXCEPT !.st = t, !.reg = g, !.pos = n, !.authed = a]
  <2>5. conn' = [conn EXCEPT ![c] = k]
    BY <1>6 DEF Play
  <2>6. conn'[c] = k
    BY <1>1, <2>5
  <2>7. a \in BOOLEAN /\ (AuthRequired => a)
    BY <1>1, <1>6, <2>1 DEF Play, CheckAuth, Authorized
  <2>8. t \in {"playing", "stream"} /\ g \in 0 .. MaxReg /\ n \in Nat
    BY <2>2, <2>3, RtspAssumption DEF RtspAssumption
  <2>9. Tracked(k)
    BY <1>1, <2>2, <2>3, <2>4 DEF ConnType, Tracked
  <2> HIDE DEF a, t, n, g
  <2>10. k \in ConnType
    BY <1>1, <2>7, <2>8, PlayShape
  <2>11. Authorized(k)
    BY <1>1, <2>7 DEF ConnType, Authorized
  <2>12. QED
    BY <2>5, <2>6, <2>9, <2>10, <2>11
<1>7. ASSUME Deliver(c) PROVE Goal
  <2> DEFINE g == conn[c].reg
             i == Len(ring[g]) - (sent[g] - conn[c].pos) + 1
             p == ring[g][i]
             h == Drop(conn[c].half)
             n == IF p.rtp THEN p.seq ELSE conn[c].last
             k == [conn[c] EXCEPT !.pos = conn[c].pos + 1, !.idx = conn[c].pos + 1, !.last = n,
                                  !.quiet = 0, !.half = h]
  <2>1. /\ conn[c].st = "stream" /\ sent[g] - conn[c].pos \in 1 .. Ring
        /\ conn' = [conn EXCEPT ![c] = k] /\ conn'[c] = k
    BY <1>1, <1>7 DEF Deliver, Streaming
  <2>2. /\ g \in Regs /\ i \in 1 .. Len(ring[g]) /\ p \in Packet
        /\ sent[g] - Len(ring[g]) + i - 1 = conn[c].pos
    BY <1>7, <2>1, DeliverReads DEF IInv, Streaming
  <2>3. g \in 1 .. Len(regs) /\ sent[g] \in Nat /\ conn[c].pos \in Nat
    BY <1>1, <2>1, <2>2 DEF Tracked, IInv, Shape, ConnType
  <2>4. conn[c].pos + 1 <= sent[g] /\ conn[c].pos + 1 \in Nat /\ conn[c].pos + 1 # 0
    BY <2>1, <2>3
  <2>5. n \in -1 .. SeqMod - 1
    <3>1. p.seq \in 0 .. SeqMod - 1 /\ conn[c].last \in -1 .. SeqMod - 1
      BY <1>1, <2>2 DEF Packet, ConnType
    <3> HIDE DEF p
    <3>2. QED
      BY <3>1, RtspAssumption DEF RtspAssumption
  <2>6. h \in {"no", "read", "lost"}
    BY <1>1 DEF ConnType, Drop
  <2>7. regs[g] = "main" => n = (conn[c].pos + 1 - 1) % SeqMod
    <3> SUFFICES ASSUME regs[g] = "main" PROVE n = (conn[c].pos + 1 - 1) % SeqMod
      OBVIOUS
    <3>1. Numbered(g)
      BY <2>3 DEF IInv, WireInv
    <3>2. /\ ring[g] \in Seq(Packet) /\ feed[g].burst \in Seq(Packet)
          /\ Len(ring[g]) \in Nat /\ Len(feed[g].burst) \in Nat
      BY <2>2, LenProperties DEF IInv, Shape, FeedType
    <3>3. /\ i \in 1 .. Len(ring[g]) + Len(feed[g].burst)
          /\ Len(Wire(g)) = Len(ring[g]) + Len(feed[g].burst)
          /\ Wire(g)[i] = p
      <4> HIDE DEF i
      <4>1. i \in 1 .. Len(ring[g]) + Len(feed[g].burst) /\ i <= Len(ring[g])
        <5>1. \A r, b \in Nat : \A j \in 1 .. r : j \in 1 .. r + b /\ j <= r
          OBVIOUS
        <5>2. QED
          BY <2>2, <3>2, <5>1, Zenon
      <4>2. /\ Len(Wire(g)) = Len(ring[g]) + Len(feed[g].burst)
            /\ \A j \in 1 .. Len(ring[g]) + Len(feed[g].burst) :
                Wire(g)[j] = IF j <= Len(ring[g]) THEN ring[g][j] ELSE feed[g].burst[j - Len(ring[g])]
        BY <3>2, ConcatProperties DEF Wire
      <4>3. QED
        BY <4>1, <4>2
    <3>4. p.rtp /\ p.seq = (sent[g] - Len(ring[g]) + i - 1) % SeqMod
      BY <3>1, <3>3 DEF Numbered
    <3>5. conn[c].pos + 1 - 1 = conn[c].pos
      BY <2>3
    <3>6. QED
      BY <2>2, <3>4, <3>5
  <2> HIDE DEF n, h, i, p
  <2>8. k \in ConnType
    <3>1. 0 \in 0 .. IdleTicks
      BY RtspAssumption DEF RtspAssumption
    <3>2. QED
      BY <1>1, <2>4, <2>5, <2>6, <3>1, DeliverShape
  <2>9. Tracked(k)
    BY <1>1, <2>1, <2>3, <2>4, <2>7 DEF ConnType, Tracked
  <2>10. Authorized(k)
    BY <1>1, <2>1 DEF ConnType, Authorized
  <2>11. QED
    BY <2>1, <2>8, <2>9, <2>10
<1>8. ASSUME Lagged(c) PROVE Goal
  <2> DEFINE g == conn[c].reg
             h == Drop(conn[c].half)
             k == [conn[c] EXCEPT !.pos = sent[g] - Ring, !.half = h]
  <2>1. /\ conn[c].st = "stream" /\ sent[g] - conn[c].pos > Ring
        /\ conn' = [conn EXCEPT ![c] = k] /\ conn'[c] = k
    BY <1>1, <1>8 DEF Lagged, Streaming
  <2>2. g \in 1 .. Len(regs) /\ sent[g] \in Nat /\ conn[c].pos \in Nat
    BY <1>1, <2>1, RtspAssumption, LenProperties
    DEF RtspAssumption, Tracked, IInv, Shape, ConnType, Regs
  <2>3. sent[g] - Ring \in Nat /\ sent[g] - Ring <= sent[g]
    BY <2>1, <2>2, RtspAssumption DEF RtspAssumption
  <2>4. h \in {"no", "read", "lost"}
    BY <1>1 DEF ConnType, Drop
  <2> HIDE DEF h
  <2>5. k \in ConnType /\ Tracked(k) /\ Authorized(k)
    BY <1>1, <2>1, <2>2, <2>3, <2>4 DEF ConnType, Tracked, Authorized
  <2>6. QED
    BY <2>1, <2>5
<1>9. ASSUME Tick(c) PROVE Goal
  <2>1. CASE conn[c].quiet = IdleTicks
    <3>1. Close(c)
      BY <1>9, <2>1 DEF Tick, Close
    <3>2. QED
      BY <1>2, <3>1
  <2>2. CASE conn[c].quiet # IdleTicks
    <3> DEFINE h == Drop(conn[c].half)
               k == [conn[c] EXCEPT !.quiet = conn[c].quiet + 1, !.half = h]
    <3>1. conn' = [conn EXCEPT ![c] = k] /\ conn'[c] = k
      <4>1. conn' = [conn EXCEPT ![c] = k]
        BY <1>9, <2>2 DEF Tick
      <4>2. QED
        BY <1>1, <4>1
    <3>2. h \in {"no", "read", "lost"} /\ conn[c].quiet + 1 \in 0 .. IdleTicks
      BY <1>1, <2>2, RtspAssumption DEF RtspAssumption, ConnType, Drop
    <3> HIDE DEF h
    <3>3. k \in ConnType /\ Tracked(k) /\ Authorized(k)
      BY <1>1, <3>2 DEF ConnType, Tracked, Authorized
    <3>4. QED
      BY <3>1, <3>3
  <2>3. QED
    BY <2>1, <2>2
<1>10. ASSUME HalfRequest(c) \/ RestOfRequest(c) PROVE Goal
  <2>1. ASSUME HalfRequest(c) PROVE Goal
    <3> DEFINE k == [conn[c] EXCEPT !.half = "read", !.req = conn[c].req + 1]
    <3>1. conn' = [conn EXCEPT ![c] = k] /\ conn'[c] = k /\ conn[c].req < MaxReq
      BY <1>1, <2>1 DEF HalfRequest
    <3>2. k \in ConnType
      <4>1. conn[c].req + 1 \in 0 .. MaxReq
        BY <1>1, <3>1, RtspAssumption DEF RtspAssumption, ConnType
      <4>2. QED
        BY <1>1, <4>1, RequestShape
    <3>3. Tracked(k) /\ Authorized(k)
      BY <1>1 DEF ConnType, Tracked, Authorized
    <3>4. QED
      BY <3>1, <3>2, <3>3
  <2>2. ASSUME conn' = [conn EXCEPT ![c].half = "no", ![c].quiet = 0] PROVE Goal
    <3> DEFINE k == [conn[c] EXCEPT !.half = "no", !.quiet = 0]
    <3>1. conn' = [conn EXCEPT ![c] = k] /\ conn'[c] = k
      BY <1>1, <2>2
    <3>2. k \in ConnType
      <4>1. 0 \in 0 .. IdleTicks
        BY RtspAssumption DEF RtspAssumption
      <4>2. QED
        BY <1>1, <4>1, RequestShape
    <3>3. Tracked(k) /\ Authorized(k)
      BY <1>1 DEF ConnType, Tracked, Authorized
    <3>4. QED
      BY <3>1, <3>2, <3>3
  <2>3. QED
    BY <1>2, <1>10, <2>1, <2>2 DEF RestOfRequest
<1>11. QED
  BY <1>2, <1>3, <1>4, <1>5, <1>6, <1>7, <1>8, <1>9, <1>10
  DEF ConnStep, Disconnect, Teardown, Turn, Ended

\* A delivery stays on the channel it subscribed to.
LEMMA DeliveryKeepsChannel ==
  ASSUME Shape, NEW c \in Conns, ConnStep(c), conn[c].st = "stream", conn'[c].st = "stream"
  PROVE  conn'[c].reg = conn[c].reg
<1>1. conn \in [Conns -> ConnType] /\ conn[c] \in ConnType
  BY DEF Shape
<1>2. ~Close(c)
  BY <1>1, ClosedShape DEF Close
<1>3. CASE Deliver(c) \/ Lagged(c) \/ Tick(c)
  <2>1. \A p, i, n, q, h : [conn[c] EXCEPT !.pos = p, !.idx = i, !.last = n, !.quiet = q, !.half = h].reg
                           = conn[c].reg
    BY <1>1 DEF ConnType
  <2>2. CASE Deliver(c)
    <3>1. PICK p, i, n, q, h :
            conn' = [conn EXCEPT ![c] = [conn[c] EXCEPT !.pos = p, !.idx = i, !.last = n, !.quiet = q,
                                                        !.half = h]]
      BY <2>2 DEF Deliver
    <3>2. QED
      BY <1>1, <2>1, <3>1
  <2>3. CASE Lagged(c)
    BY <1>1, <2>3 DEF Lagged, ConnType
  <2>4. CASE Tick(c)
    <3>1. conn[c].quiet # IdleTicks
      BY <1>2, <2>4 DEF Tick, Close
    <3>2. PICK q, h : conn' = [conn EXCEPT ![c] = [conn[c] EXCEPT !.quiet = q, !.half = h]]
      BY <2>4, <3>1 DEF Tick
    <3>3. QED
      BY <1>1, <3>2 DEF ConnType
  <2>5. QED
    BY <1>3, <2>2, <2>3, <2>4
<1>4. CASE HalfRequest(c) \/ RestOfRequest(c)
  BY <1>1, <1>2, <1>4 DEF HalfRequest, RestOfRequest, ConnType
<1>5. QED
  BY <1>2, <1>3, <1>4
  DEF ConnStep, Connect, Disconnect, Describe, Setup, Play, Teardown, Waiting, Turn, Ended

\* So the steps of a connection preserve the invariant.
LEMMA ConnStepIInv ==
  ASSUME IInv, NEW c \in Conns, ConnStep(c)
  PROVE  IInv'
<1>1. UNCHANGED <<mount, regs, feed, sent, ring>>
  BY ConnStepKeeps
<1>2. /\ conn' = [conn EXCEPT ![c] = conn'[c]]
      /\ conn'[c] \in ConnType /\ Tracked(conn'[c]) /\ Authorized(conn'[c])
  BY ConnStepSession
<1>3. conn' \in [Conns -> ConnType] /\ \A d \in Conns \ {c} : conn'[d] = conn[d]
  BY <1>2 DEF IInv, Shape
<1>4. Shape'
  BY <1>1, <1>3 DEF IInv, Shape
<1>5. (FreshIsUnused /\ RingIsTail /\ WireInv)'
  BY <1>1 DEF IInv, FreshIsUnused, RingIsTail, WireInv, Numbered, Timed, Wire
<1>6. ConnInv'
  <2> SUFFICES ASSUME NEW d \in Conns PROVE (Tracked(conn[d]) /\ Authorized(conn[d]))'
    BY DEF ConnInv
  <2>1. Tracked(conn'[d]) /\ Authorized(conn'[d])
    BY <1>2, <1>3 DEF IInv, ConnInv
  <2>2. QED
    BY <1>1, <2>1 DEF Tracked, Authorized
<1>7. QED
  BY <1>4, <1>5, <1>6 DEF IInv

\* A number below the modulus is its own remainder.
LEMMA ModSmall == \A m \in Nat \ {0} : \A a \in 0 .. m - 1 : a % m = a
<1> SUFFICES ASSUME NEW m \in Nat \ {0}, NEW a \in 0 .. m - 1 PROVE a % m = a
  OBVIOUS
<1>0. a \in Int
  OBVIOUS
<1>1. PICK k \in Int : a = m * k + (a % m)
  BY <1>0, ModRange
<1>2. m * 0 + a = a /\ 0 \in Int
  OBVIOUS
<1>3. a % m \in 0 .. m - 1
  BY <1>0, ModRange
<1>4. QED
  BY <1>1, <1>2, <1>3, ModUnique

\* What is on the wire of a channel that a step does not touch.
LEMMA WireKept ==
  ASSUME NEW g, feed'[g] = feed[g], sent'[g] = sent[g], ring'[g] = ring[g], Numbered(g), Timed(g)
  PROVE  Numbered(g)' /\ Timed(g)'
  BY DEF Numbered, Timed, Wire

\* Types of a registration.
LEMMA ChannelShape ==
  ASSUME Shape, NEW g \in Regs
  PROVE  /\ feed[g] \in FeedType /\ feed[g].burst \in Seq(Packet)
         /\ sent[g] \in Nat /\ ring[g] \in Seq(Packet) /\ Wire(g) \in Seq(Packet)
         /\ Len(ring[g]) \in Nat /\ Len(feed[g].burst) \in Nat
         /\ Len(Wire(g)) = Len(ring[g]) + Len(feed[g].burst)
<1>1. feed[g] \in FeedType /\ feed[g].burst \in Seq(Packet) /\ sent[g] \in Nat /\ ring[g] \in Seq(Packet)
  BY DEF Shape, FeedType
<1>2. QED
  BY <1>1, LenProperties, ConcatProperties DEF Wire

LEMMA RegsAre ==
  ASSUME Shape
  PROVE  Len(regs) \in Nat /\ 1 .. Len(regs) \subseteq Regs
  BY LenProperties, RtspAssumption DEF Shape, Regs, RtspAssumption

\* A registration gets an unused channel, and starts at number zero.
LEMMA RegisterIInv ==
  ASSUME IInv, NEW m \in Mounts, Register(m)
  PROVE  IInv'
<1>1. PICK g \in Regs : Len(regs) \in Nat /\ g = Len(regs) + 1 /\ g <= MaxReg
  BY RegsAre, RtspAssumption DEF IInv, Register, Regs, RtspAssumption
<1>2. /\ mount' = [mount EXCEPT ![m] = g] /\ regs' = Append(regs, m)
      /\ feed' = [feed EXCEPT ![g].st = "up"] /\ UNCHANGED <<sent, ring, conn>>
  BY <1>1 DEF Register
<1>3. /\ regs' \in Seq(Mounts) /\ Len(regs') = g
      /\ \A h \in 1 .. Len(regs) : regs'[h] = regs[h]
  BY <1>1, <1>2 DEF IInv, Shape
<1>4. feed[g] = NoFeed /\ sent[g] = 0 /\ ring[g] = <<>>
  BY <1>1 DEF IInv, FreshIsUnused, Regs
<1>5. /\ feed'[g].st = "up" /\ feed'[g].seq = 0 /\ feed'[g].burst = <<>>
      /\ \A h \in Regs \ {g} : feed'[h] = feed[h]
      /\ feed' \in [Regs -> FeedType]
  <2>1. feed \in [Regs -> FeedType] /\ feed[g] \in FeedType
    BY DEF IInv, Shape
  <2>2. feed[g].seq = 0 /\ feed[g].burst = <<>>
    BY <1>4 DEF NoFeed
  <2>3. QED
    BY <1>2, <2>1, <2>2 DEF FeedType
<1>6. Shape'
  BY <1>1, <1>2, <1>3, <1>5 DEF IInv, Shape
<1>7. FreshIsUnused' /\ RingIsTail'
  <2>1. RingIsTail'
    BY <1>2 DEF IInv, RingIsTail
  <2>2. \A h \in Regs : h > g => h > Len(regs) /\ h # g
    BY <1>1 DEF Regs
  <2>3. FreshIsUnused'
    BY <1>2, <1>3, <1>5, <2>2 DEF IInv, FreshIsUnused
  <2>4. QED
    BY <2>1, <2>3
<1>8. WireInv'
  <2> SUFFICES ASSUME NEW h \in 1 .. Len(regs'), regs'[h] = "main"
               PROVE  (Numbered(h) /\ Timed(h))'
    BY DEF WireInv
  <2>1. CASE h = g
    <3>1. Wire(g)' = <<>> /\ Len(Wire(g)') = 0 /\ sent'[g] = 0
      BY <1>2, <1>4, <1>5 DEF Wire
    <3>2. (0 + 0) % SeqMod = 0
      BY ModSmall, RtspAssumption DEF RtspAssumption
    <3>3. Numbered(g)'
      BY <1>5, <3>1, <3>2 DEF Numbered
    <3>4. Timed(g)'
      BY <3>1 DEF Timed
    <3>5. QED
      BY <2>1, <3>3, <3>4
  <2>2. CASE h # g
    <3>1. h \in 1 .. Len(regs) /\ h \in Regs /\ regs[h] = "main"
      BY <1>1, <1>3, <2>2, RegsAre DEF IInv
    <3>2. Numbered(h) /\ Timed(h)
      BY <3>1 DEF IInv, WireInv
    <3>3. feed'[h] = feed[h] /\ sent'[h] = sent[h] /\ ring'[h] = ring[h]
      BY <1>2, <1>5, <2>2, <3>1
    <3>4. QED
      BY <3>2, <3>3, WireKept
  <2>3. QED
    BY <2>1, <2>2
<1>9. ConnInv'
  <2> SUFFICES ASSUME NEW d \in Conns PROVE (Tracked(conn[d]) /\ Authorized(conn[d]))'
    BY DEF ConnInv
  <2>1. Tracked(conn[d]) /\ Authorized(conn[d]) /\ conn'[d] = conn[d] /\ sent' = sent
    BY <1>2 DEF IInv, ConnInv
  <2>2. \A h \in 1 .. Len(regs) : h \in 1 .. Len(regs') /\ regs'[h] = regs[h]
    BY <1>1, <1>3
  <2>3. QED
    BY <2>1, <2>2 DEF Tracked, Authorized
<1>10. QED
  BY <1>6, <1>7, <1>8, <1>9 DEF IInv

\* An operation on one channel, which leaves the registrations alone: what has
\* to be shown for it.
LEMMA ChannelIInv ==
  ASSUME IInv, NEW g \in 1 .. Len(regs), UNCHANGED <<mount, regs, conn>>,
         feed' \in [Regs -> FeedType], sent' \in [Regs -> Nat], ring' \in [Regs -> Seq(Packet)],
         \A h \in Regs \ {g} : feed'[h] = feed[h] /\ sent'[h] = sent[h] /\ ring'[h] = ring[h],
         sent'[g] >= sent[g],
         Len(ring'[g]) = (IF sent'[g] < Ring THEN sent'[g] ELSE Ring),
         regs[g] = "main" => (Numbered(g) /\ Timed(g))'
  PROVE  IInv'
<1>1. Shape'
  BY DEF IInv, Shape
<1>2. Len(regs) \in Nat /\ 1 .. Len(regs) \subseteq Regs /\ g \in Regs
  BY RegsAre DEF IInv
<1>3. FreshIsUnused'
  <2>1. \A h \in Regs : h > Len(regs) => h # g
    BY <1>2 DEF Regs
  <2>2. QED
    BY <2>1 DEF IInv, FreshIsUnused
<1>4. RingIsTail'
  BY DEF IInv, RingIsTail
<1>5. WireInv'
  <2> SUFFICES ASSUME NEW h \in 1 .. Len(regs'), regs'[h] = "main"
               PROVE  (Numbered(h) /\ Timed(h))'
    BY DEF WireInv
  <2>1. h \in 1 .. Len(regs) /\ h \in Regs /\ regs[h] = "main"
    BY <1>2
  <2>2. CASE h = g
    BY <2>1, <2>2
  <2>3. CASE h # g
    <3>1. Numbered(h) /\ Timed(h)
      BY <2>1 DEF IInv, WireInv
    <3>2. feed'[h] = feed[h] /\ sent'[h] = sent[h] /\ ring'[h] = ring[h]
      BY <2>1, <2>3
    <3>3. QED
      BY <3>1, <3>2, WireKept
  <2>4. QED
    BY <2>2, <2>3
<1>6. ConnInv'
  <2> SUFFICES ASSUME NEW d \in Conns PROVE (Tracked(conn[d]) /\ Authorized(conn[d]))'
    BY DEF ConnInv
  <2>1. /\ conn[d] \in ConnType /\ Tracked(conn[d]) /\ Authorized(conn[d])
        /\ conn'[d] = conn[d] /\ regs' = regs
    BY DEF IInv, Shape, ConnInv
  <2>2. \A h \in Regs : sent'[h] \in Nat /\ sent[h] \in Nat /\ sent'[h] >= sent[h]
    <3> SUFFICES ASSUME NEW h \in Regs
                 PROVE  sent'[h] \in Nat /\ sent[h] \in Nat /\ sent'[h] >= sent[h]
      OBVIOUS
    <3>1. sent \in [Regs -> Nat]
      BY DEF IInv, Shape
    <3>2. sent'[h] \in Nat /\ sent[h] \in Nat
      BY <3>1
    <3>3. sent'[h] = sent[h] \/ sent'[h] >= sent[h]
      OBVIOUS
    <3>4. QED
      BY <3>2, <3>3
  <2>3. conn[d].st = "stream" => conn[d].pos <= sent'[conn[d].reg]
    <3> SUFFICES ASSUME conn[d].st = "stream" PROVE conn[d].pos <= sent'[conn[d].reg]
      OBVIOUS
    <3>1. conn[d].reg \in Regs /\ conn[d].pos \in Nat /\ conn[d].pos <= sent[conn[d].reg]
      BY <1>2, <2>1 DEF Tracked, ConnType
    <3>2. QED
      BY <2>2, <3>1
  <2>4. Tracked(conn[d])'
    BY <2>1, <2>3 DEF Tracked
  <2>5. Authorized(conn[d])'
    BY <2>1 DEF Authorized
  <2>6. QED
    BY <2>4, <2>5
<1>7. QED
  BY <1>1, <1>3, <1>4, <1>5, <1>6 DEF IInv

\* unregister_live_stream takes the mount only.
LEMMA UnregisterIInv ==
  ASSUME IInv, NEW m \in Mounts, Unregister(m)
  PROVE  IInv'
<1>1. mount' = [mount EXCEPT ![m] = 0] /\ UNCHANGED <<regs, feed, sent, ring, conn>>
  BY DEF Unregister
<1>2. Shape'
  BY <1>1, RegsAre DEF IInv, Shape
<1>3. (FreshIsUnused /\ RingIsTail /\ WireInv /\ ConnInv)'
  BY <1>1
  DEF IInv, FreshIsUnused, RingIsTail, WireInv, ConnInv, Numbered, Timed, Wire, Tracked, Authorized
<1>4. QED
  BY <1>2, <1>3 DEF IInv

\* A stopped output sends nothing more, so its counters do not matter.
LEMMA FeedStopsIInv ==
  ASSUME IInv, NEW g \in 1 .. Len(regs), FeedStops(g)
  PROVE  IInv'
<1>1. g \in Regs
  BY RegsAre DEF IInv
<1>2. UNCHANGED <<mount, regs, conn, sent, ring>> /\ feed[g].burst = <<>>
  BY DEF FeedStops
<1>3. /\ feed' \in [Regs -> FeedType] /\ feed'[g].st = "down" /\ feed'[g].burst = <<>>
      /\ \A h \in Regs \ {g} : feed'[h] = feed[h]
  <2>1. NoFeed \in FeedType
    BY RtspAssumption, EmptySeq DEF RtspAssumption, NoFeed, FeedType
  <2>2. [NoFeed EXCEPT !.st = "down"] \in FeedType /\ [NoFeed EXCEPT !.st = "down"].burst = <<>>
    BY <2>1 DEF FeedType, NoFeed
  <2>3. QED
    BY <1>1, <2>2 DEF FeedStops, IInv, Shape, FeedType
<1>4. Len(ring'[g]) = (IF sent'[g] < Ring THEN sent'[g] ELSE Ring) /\ sent'[g] >= sent[g]
  BY <1>1, <1>2 DEF IInv, RingIsTail, Shape
<1>5. regs[g] = "main" => (Numbered(g) /\ Timed(g))'
  <2> SUFFICES ASSUME regs[g] = "main" PROVE (Numbered(g) /\ Timed(g))'
    OBVIOUS
  <2>1. Numbered(g) /\ Timed(g)
    BY DEF IInv, WireInv
  <2>2. Wire(g)' = Wire(g) /\ feed'[g].st # "up" /\ sent'[g] = sent[g] /\ ring'[g] = ring[g]
    BY <1>2, <1>3 DEF Wire
  <2>3. QED
    BY <2>1, <2>2 DEF Numbered, Timed
<1>6. sent' \in [Regs -> Nat] /\ ring' \in [Regs -> Seq(Packet)]
  BY <1>2 DEF IInv, Shape
<1>7. QED
  BY <1>2, <1>3, <1>4, <1>5, <1>6, ChannelIInv

\* The forwarder's units are not numbered; their mount is not a main one.
LEMMA SubFrameIInv ==
  ASSUME IInv, NEW g \in 1 .. Len(regs), SubFrame(g)
  PROVE  IInv'
<1>1. g \in Regs
  BY RegsAre DEF IInv
<1>2. UNCHANGED <<mount, regs, conn, sent, ring>> /\ regs[g] # "main"
  BY DEF SubFrame
<1> DEFINE p == [rtp |-> FALSE, seq |-> 0, ts |-> 0, marker |-> FALSE]
<1>3. feed' \in [Regs -> FeedType] /\ \A h \in Regs \ {g} : feed'[h] = feed[h]
  <2>1. p \in Packet
    BY RtspAssumption DEF RtspAssumption, Packet
  <2>2. feed' = [feed EXCEPT ![g].burst = <<p>>]
    BY DEF SubFrame
  <2> HIDE DEF p
  <2>3. <<p>> \in Seq(Packet)
    BY <2>1
  <2>4. QED
    BY <1>1, <2>2, <2>3 DEF IInv, Shape, FeedType
<1>4. Len(ring'[g]) = (IF sent'[g] < Ring THEN sent'[g] ELSE Ring) /\ sent'[g] >= sent[g]
  BY <1>1, <1>2 DEF IInv, RingIsTail, Shape
<1>5. sent' \in [Regs -> Nat] /\ ring' \in [Regs -> Seq(Packet)]
  BY <1>2 DEF IInv, Shape
<1>6. QED
  BY <1>2, <1>3, <1>4, <1>5, ChannelIInv

\* A send moves the burst's first packet into the ring: the wire stays as it
\* is, or loses its oldest packet.
LEMMA SendIInv ==
  ASSUME IInv, NEW g \in 1 .. Len(regs), Send(g)
  PROVE  IInv'
<1>1. g \in Regs
  BY RegsAre DEF IInv
<1>2. /\ UNCHANGED <<mount, regs, conn>> /\ feed[g].burst # <<>>
      /\ sent' = [sent EXCEPT ![g] = sent[g] + 1]
      /\ ring' = [ring EXCEPT ![g] = (IF Len(ring[g]) = Ring THEN Tail(ring[g]) ELSE ring[g])
                                     \o <<Head(feed[g].burst)>>]
      /\ feed' = [feed EXCEPT ![g].burst = Tail(feed[g].burst)]
  BY DEF Send
<1>3. PICK r \in Seq(Packet), b \in Seq(Packet), n \in Nat :
        r = ring[g] /\ b = feed[g].burst /\ n = sent[g]
  BY <1>1, ChannelShape DEF IInv
<1>4. b # <<>> /\ Len(b) \in Nat \ {0} /\ Len(r) \in Nat /\ Head(b) \in Packet /\ Tail(b) \in Seq(Packet)
      /\ Len(Tail(b)) = Len(b) - 1
  BY <1>2, <1>3, EmptySeq, LenProperties, HeadTailProperties
<1>5. Len(r) = IF n < Ring THEN n ELSE Ring
  BY <1>1, <1>3 DEF IInv, RingIsTail
<1>6. Ring \in Nat \ {0} /\ SeqMod \in Nat \ {0}
  BY RtspAssumption DEF RtspAssumption
<1>7. PICK q \in Seq(Packet) : q = IF Len(r) = Ring THEN Tail(r) ELSE r
  <2>1. Len(r) = Ring => Tail(r) \in Seq(Packet)
    BY <1>6, EmptySeq, HeadTailProperties
  <2>2. QED
    BY <2>1
<1>8. /\ sent' \in [Regs -> Nat] /\ sent'[g] = n + 1
      /\ \A h \in Regs \ {g} : sent'[h] = sent[h]
  BY <1>1, <1>2, <1>3 DEF IInv, Shape
<1>9. q \o <<Head(b)>> \in Seq(Packet) /\ Len(q \o <<Head(b)>>) = Len(q) + 1
  <2>1. <<Head(b)>> \in Seq(Packet) /\ Len(<<Head(b)>>) = 1
    BY <1>4
  <2>2. QED
    BY <2>1, ConcatProperties
<1>10. /\ ring' \in [Regs -> Seq(Packet)] /\ ring'[g] = q \o <<Head(b)>>
       /\ \A h \in Regs \ {g} : ring'[h] = ring[h]
  <2>1. ring' = [ring EXCEPT ![g] = q \o <<Head(b)>>]
    BY <1>2, <1>3, <1>7
  <2>2. QED
    BY <1>1, <1>9, <2>1 DEF IInv, Shape
<1>11. /\ feed' \in [Regs -> FeedType] /\ feed'[g].burst = Tail(b)
       /\ feed'[g].st = feed[g].st /\ feed'[g].seq = feed[g].seq /\ feed'[g].ts = feed[g].ts
       /\ \A h \in Regs \ {g} : feed'[h] = feed[h]
  <2>1. feed' = [feed EXCEPT ![g].burst = Tail(b)]
    BY <1>2, <1>3
  <2>2. QED
    BY <1>1, <1>4, <2>1 DEF IInv, Shape, FeedType
<1>12. Len(q) = (IF Len(r) = Ring THEN Len(r) - 1 ELSE Len(r)) /\ Len(q) \in Nat
  <2>1. Len(r) = Ring => Len(Tail(r)) = Len(r) - 1
    BY <1>6, EmptySeq, HeadTailProperties
  <2>2. QED
    BY <1>4, <1>6, <1>7, <2>1
<1>13. Len(ring'[g]) = (IF sent'[g] < Ring THEN sent'[g] ELSE Ring) /\ sent'[g] >= sent[g]
  <2>1. Len(ring'[g]) = Len(q) + 1
    BY <1>9, <1>10
  <2>2. QED
    BY <2>1, <1>3, <1>4, <1>5, <1>6, <1>8, <1>12
<1>14. ASSUME regs[g] = "main" PROVE (Numbered(g) /\ Timed(g))'
  <2>1. Numbered(g) /\ Timed(g)
    BY <1>14 DEF IInv, WireInv
  <2>2. PICK w \in Seq(Packet) : w = r \o b /\ w = Wire(g) /\ Len(w) = Len(r) + Len(b)
    BY <1>3, ConcatProperties DEF Wire
  <2>3. PICK v \in Seq(Packet) : v = IF Len(r) = Ring THEN Tail(w) ELSE w
    <3>1. w # <<>>
      BY <2>2, <1>4, EmptySeq
    <3>2. QED
      BY <3>1, HeadTailProperties
  <2>4. Wire(g)' = v
    <3>1. Wire(g)' = (q \o <<Head(b)>>) \o Tail(b)
      BY <1>10, <1>11 DEF Wire
    <3>2. Len(r) = Ring => r # <<>>
      BY <1>6, EmptySeq
    <3>3. CASE Len(r) = Ring
      <4>1. (Tail(r) \o <<Head(b)>>) \o Tail(b) = Tail(r \o b)
        BY <1>4, <3>2, <3>3, ShiftDrop
      <4>2. QED
        BY <1>7, <2>2, <2>3, <3>1, <3>3, <4>1
    <3>4. CASE Len(r) # Ring
      <4>1. (r \o <<Head(b)>>) \o Tail(b) = r \o b
        BY <1>4, ShiftOne
      <4>2. QED
        BY <1>7, <2>2, <2>3, <3>1, <3>4, <4>1
    <3>5. QED
      BY <3>3, <3>4
  <2>5. PICK k \in {0, 1} : k = IF Len(r) = Ring THEN 1 ELSE 0
    OBVIOUS
  <2>6. Len(w) \in Nat /\ Len(v) = Len(w) - k /\ \A i \in 1 .. Len(v) : i + k \in 1 .. Len(w) /\ v[i] = w[i + k]
    <3>1. w # <<>> /\ Len(w) \in Nat
      BY <2>2, <1>4, EmptySeq
    <3>2. Len(Tail(w)) = Len(w) - 1 /\ \A i \in 1 .. Len(Tail(w)) : Tail(w)[i] = w[i + 1]
      BY <3>1, HeadTailProperties
    <3>3. CASE Len(r) = Ring
      BY <2>3, <2>5, <3>1, <3>2, <3>3
    <3>4. CASE Len(r) # Ring
      BY <2>3, <2>5, <3>1, <3>4
    <3>5. QED
      BY <3>3, <3>4
  <2>7. sent'[g] - Len(ring'[g]) = n - Len(r) + k /\ sent'[g] + Len(Tail(b)) = n + Len(b)
    <3>1. Len(ring'[g]) = Len(q) + 1
      BY <1>9, <1>10
    <3>2. QED
      BY <1>4, <1>8, <1>12, <2>5, <3>1
  <2>8. Numbered(g)'
    <3>1. \A i \in 1 .. Len(w) : w[i].rtp /\ w[i].seq = (n - Len(r) + i - 1) % SeqMod
      BY <1>3, <2>1, <2>2 DEF Numbered
    <3>2. ASSUME NEW i \in 1 .. Len(v)
          PROVE  v[i].rtp /\ v[i].seq = (sent'[g] - Len(ring'[g]) + i - 1) % SeqMod
      <4>1. i + k \in 1 .. Len(w) /\ v[i] = w[i + k]
        BY <2>6
      <4>2. n - Len(r) + (i + k) - 1 = sent'[g] - Len(ring'[g]) + i - 1
        <5>1. i \in Int /\ k \in Int
          BY <2>6
        <5>2. QED
          BY <1>4, <2>7, <5>1
      <4>3. QED
        BY <3>1, <4>1, <4>2
    <3>3. feed[g].st = "up" => feed[g].seq = (n + Len(b)) % SeqMod
      BY <1>3, <2>1 DEF Numbered
    <3>4. QED
      BY <1>11, <2>4, <2>7, <3>2, <3>3 DEF Numbered
  <2>9. Timed(g)'
    <3>1. \A i \in 1 .. Len(w) - 1 : w[i + 1].ts = w[i].ts + Advance(w[i])
      BY <2>1, <2>2 DEF Timed
    <3>2. ASSUME NEW i \in 1 .. Len(v) - 1 PROVE v[i + 1].ts = v[i].ts + Advance(v[i])
      <4>1. /\ v[i] = w[i + k] /\ v[i + 1] = w[i + 1 + k]
            /\ i + k \in 1 .. Len(w) - 1 /\ i + 1 + k = (i + k) + 1
        BY <2>5, <2>6
      <4>2. QED
        BY <3>1, <4>1
    <3>3. ASSUME feed[g].st = "up", v # <<>> PROVE feed[g].ts = v[Len(v)].ts + Advance(v[Len(v)])
      <4>1. Len(v) \in 1 .. Len(v) /\ Len(v) + k = Len(w)
        BY <2>5, <2>6, <3>3, EmptySeq
      <4>2. v[Len(v)] = w[Len(w)] /\ w # <<>>
        BY <2>2, <1>4, <2>6, <4>1, EmptySeq
      <4>3. QED
        BY <2>1, <2>2, <3>3, <4>2 DEF Timed
    <3>4. QED
      BY <1>11, <2>4, <3>2, <3>3 DEF Timed, Advance
  <2>10. QED
    BY <2>8, <2>9
<1>15. QED
  BY <1>2, <1>8, <1>10, <1>11, <1>13, <1>14, ChannelIInv

\* A frame of the output continues the numbers and the timestamps.
LEMMA OutputFrameIInv ==
  ASSUME IInv, NEW g \in 1 .. Len(regs), NEW nal \in Nals, OutputFrame(g, nal)
  PROVE  IInv'
<1>1. g \in Regs
  BY RegsAre DEF IInv
<1>2. UNCHANGED <<mount, regs, conn, sent, ring>> /\ regs[g] = "main" /\ feed[g].st = "up"
      /\ feed[g].burst = <<>>
  BY DEF OutputFrame
<1>3. PICK f \in FeedType, r \in Seq(Packet), n \in Nat :
        f = feed[g] /\ r = ring[g] /\ n = sent[g] /\ r = Wire(g)
  BY <1>1, <1>2, ChannelShape, ConcatEmptySeq DEF IInv, Wire
<1>4. PICK b \in Seq(Packet) : b = Packets(f, nal) /\ b # <<>> /\ IsBurst(b, f.seq, f.ts, nal)
  BY PacketsAre
<1>5. Len(b) \in Nat /\ Len(b) # 0 /\ Len(r) \in Nat /\ f.seq \in Nat /\ f.ts \in Nat
      /\ SeqMod \in Nat \ {0}
  BY <1>4, EmptySeq, LenProperties, RtspAssumption DEF FeedType, RtspAssumption
<1>6. PICK s \in 0 .. SeqMod - 1 : s = (b[Len(b)].seq + 1) % SeqMod
  <2>1. b[Len(b)] \in Packet
    BY <1>5, ElementOfSeq
  <2>2. b[Len(b)].seq + 1 \in Int
    BY <2>1 DEF Packet
  <2>3. QED
    BY <1>5, <2>2, ModRange
<1>7. PICK c \in BOOLEAN : c = (f.cached \/ nal = "params")
  OBVIOUS
<1>8. PICK t \in Nat : t = NextTs(f, nal) /\ t = f.ts + (IF nal \in Slices THEN 1 ELSE 0)
  BY <1>5 DEF NextTs
<1>9. feed' = [feed EXCEPT ![g] = [f EXCEPT !.burst = b, !.seq = s, !.ts = t, !.cached = c]]
  BY <1>3, <1>4, <1>6, <1>7, <1>8 DEF OutputFrame
<1>10. PICK k \in FeedType : k = [f EXCEPT !.burst = b, !.seq = s, !.ts = t, !.cached = c]
  BY DEF FeedType
<1>11. k.st = "up" /\ k.seq = s /\ k.ts = t /\ k.burst = b
  BY <1>2, <1>3, <1>10 DEF FeedType
<1>12. feed' \in [Regs -> FeedType] /\ feed'[g] = k /\ \A h \in Regs \ {g} : feed'[h] = feed[h]
  BY <1>1, <1>9, <1>10 DEF IInv, Shape
<1>13. Len(ring'[g]) = (IF sent'[g] < Ring THEN sent'[g] ELSE Ring) /\ sent'[g] >= sent[g]
  BY <1>1, <1>2 DEF IInv, RingIsTail, Shape
<1>14. sent' \in [Regs -> Nat] /\ ring' \in [Regs -> Seq(Packet)]
  BY <1>2 DEF IInv, Shape
<1>15. Numbered(g) /\ Timed(g)
  BY <1>2 DEF IInv, WireInv
<1>16. PICK w \in Seq(Packet) :
        /\ w = Wire(g)' /\ Len(w) = Len(r) + Len(b)
        /\ \A i \in 1 .. Len(r) + Len(b) : w[i] = IF i <= Len(r) THEN r[i] ELSE b[i - Len(r)]
  <2>1. Wire(g)' = r \o b
    BY <1>2, <1>3, <1>11, <1>12 DEF Wire
  <2>2. /\ r \o b \in Seq(Packet) /\ Len(r \o b) = Len(r) + Len(b)
        /\ \A i \in 1 .. Len(r) + Len(b) : (r \o b)[i] = IF i <= Len(r) THEN r[i] ELSE b[i - Len(r)]
    BY ConcatProperties
  <2>3. QED
    BY <2>1, <2>2
<1>17. f.seq = n % SeqMod
  <2>1. f.seq = (n + 0) % SeqMod
    BY <1>2, <1>3, <1>15, EmptySeq DEF Numbered
  <2>2. QED
    BY <2>1
<1>18. \A j \in Int : (f.seq + j) % SeqMod = (n + j) % SeqMod
  <2>1. n \in Int
    OBVIOUS
  <2>2. QED
    BY <1>5, <1>17, <2>1, ModAdd, Zenon
<1>19. Numbered(g)'
  <2>1. ASSUME NEW i \in 1 .. Len(w)
        PROVE  w[i].rtp /\ w[i].seq = (n - Len(r) + i - 1) % SeqMod
    <3>1. CASE i <= Len(r)
      <4>1. i \in 1 .. Len(r) /\ w[i] = r[i]
        BY <1>5, <1>16, <3>1
      <4>2. QED
        BY <1>3, <1>15, <4>1 DEF Numbered
    <3>2. CASE ~(i <= Len(r))
      <4>1. PICK j \in 1 .. Len(b) : j = i - Len(r) /\ w[i] = b[j]
        BY <1>5, <1>16, <3>2
      <4>2. b[j].rtp /\ b[j].seq = (f.seq + j - 1) % SeqMod
        BY <1>4 DEF IsBurst
      <4>3. PICK z \in Int : z = j - 1 /\ f.seq + j - 1 = f.seq + z /\ n - Len(r) + i - 1 = n + z
        <5>1. PICK l \in Nat, x \in Nat : l = Len(r) /\ x = f.seq
          BY <1>5
        <5>2. j \in Int /\ i \in Int /\ j = i - l
          BY <1>5, <1>16, <4>1, <5>1
        <5>3. j - 1 \in Int /\ x + j - 1 = x + (j - 1) /\ n - l + i - 1 = n + (j - 1)
          BY <5>2
        <5>4. QED
          BY <5>1, <5>3
      <4>4. QED
        BY <1>18, <4>1, <4>2, <4>3
    <3>3. QED
      BY <3>1, <3>2
  <2>2. s = (n + Len(b)) % SeqMod
    <3>1. b[Len(b)].seq = (f.seq + Len(b) - 1) % SeqMod
      <4>1. Len(b) \in 1 .. Len(b)
        BY <1>5
      <4>2. QED
        BY <1>4, <4>1 DEF IsBurst
    <3>2. PICK x \in Int : x = f.seq + Len(b) - 1
      BY <1>5
    <3>3. ((x % SeqMod) + 1) % SeqMod = (x + 1) % SeqMod
      <4>1. 1 \in Int
        OBVIOUS
      <4>2. QED
        BY <1>5, <4>1, ModAdd, Zenon
    <3>4. PICK y \in Int : y = Len(b) /\ x + 1 = f.seq + y
      BY <1>5, <3>2
    <3>5. (f.seq + y) % SeqMod = (n + y) % SeqMod
      BY <1>18
    <3>6. QED
      BY <1>6, <3>1, <3>2, <3>3, <3>4, <3>5
  <2>3. QED
    BY <1>2, <1>3, <1>11, <1>12, <1>16, <2>1, <2>2 DEF Numbered
<1>20. Timed(g)'
  <2>1. \A j \in 1 .. Len(b) : b[j].ts = f.ts /\ (b[j].marker <=> nal \in Slices /\ j = Len(b))
    BY <1>4 DEF IsBurst
  <2>2. ASSUME NEW i \in 1 .. Len(w) - 1 PROVE w[i + 1].ts = w[i].ts + Advance(w[i])
    <3>1. CASE i + 1 <= Len(r)
      <4>1. i \in 1 .. Len(r) - 1 /\ w[i] = r[i] /\ w[i + 1] = r[i + 1]
        BY <1>5, <1>16, <3>1
      <4>2. QED
        BY <1>3, <1>15, <4>1 DEF Timed
    <3>2. CASE i = Len(r)
      <4>1. w[i] = r[Len(r)] /\ w[i + 1] = b[1] /\ 1 \in 1 .. Len(b) /\ r # <<>>
        <5>1. PICK l, m \in Nat : l = Len(r) /\ m = Len(b) /\ m # 0
          BY <1>5
        <5>2. /\ Len(w) = l + m
              /\ \A x \in 1 .. l + m : w[x] = IF x <= l THEN r[x] ELSE b[x - l]
          BY <1>16, <5>1
        <5>3. i \in 1 .. l + m /\ i + 1 \in 1 .. l + m /\ i + 1 - l = 1 /\ 1 \in 1 .. m /\ l # 0
              /\ ~(i + 1 <= l) /\ i <= l
          BY <5>1, <5>2, <3>2
        <5>4. w[i] = r[l] /\ w[i + 1] = b[1]
          BY <5>1, <5>2, <5>3, <3>2
        <5>5. r # <<>>
          BY <5>1, <5>3, EmptySeq
        <5>6. QED
          BY <5>1, <5>3, <5>4, <5>5
      <4>2. f.ts = r[Len(r)].ts + Advance(r[Len(r)])
        BY <1>2, <1>3, <1>15, <4>1 DEF Timed
      <4>3. QED
        BY <2>1, <4>1, <4>2
    <3>3. CASE i > Len(r)
      <4>1. PICK j \in 1 .. Len(b) - 1 : j = i - Len(r) /\ w[i] = b[j] /\ w[i + 1] = b[j + 1]
        <5>1. PICK l, m \in Nat : l = Len(r) /\ m = Len(b) /\ m # 0
          BY <1>5
        <5>2. /\ Len(w) = l + m
              /\ \A x \in 1 .. l + m : w[x] = IF x <= l THEN r[x] ELSE b[x - l]
          BY <1>16, <5>1
        <5>3. /\ i \in 1 .. l + m /\ i + 1 \in 1 .. l + m /\ i - l \in 1 .. m - 1
              /\ i + 1 - l = (i - l) + 1 /\ ~(i <= l) /\ ~(i + 1 <= l)
          BY <5>1, <5>2, <3>3
        <5>4. w[i] = b[i - l] /\ w[i + 1] = b[(i - l) + 1]
          BY <5>2, <5>3
        <5>5. QED
          BY <5>1, <5>3, <5>4
      <4>2. j \in 1 .. Len(b) /\ j + 1 \in 1 .. Len(b) /\ j # Len(b)
        BY <1>5
      <4>3. b[j + 1].ts = f.ts /\ b[j].ts = f.ts /\ Advance(b[j]) = 0
        BY <2>1, <4>2 DEF Advance
      <4>4. QED
        BY <1>5, <4>1, <4>3
    <3>4. QED
      BY <1>5, <1>16, <3>1, <3>2, <3>3
  <2>3. t = w[Len(w)].ts + Advance(w[Len(w)])
    <3>1. w[Len(w)] = b[Len(b)] /\ Len(b) \in 1 .. Len(b)
      <4>1. PICK l, m \in Nat : l = Len(r) /\ m = Len(b) /\ m # 0
        BY <1>5
      <4>2. /\ Len(w) = l + m
            /\ \A x \in 1 .. l + m : w[x] = IF x <= l THEN r[x] ELSE b[x - l]
        BY <1>16, <4>1
      <4>3. l + m \in 1 .. l + m /\ ~(l + m <= l) /\ l + m - l = m /\ m \in 1 .. m
        BY <4>1
      <4>4. QED
        BY <4>1, <4>2, <4>3
    <3>2. b[Len(b)].ts = f.ts /\ Advance(b[Len(b)]) = IF nal \in Slices THEN 1 ELSE 0
      BY <2>1, <3>1 DEF Advance
    <3>3. QED
      BY <1>8, <3>1, <3>2
  <2>4. QED
    BY <1>11, <1>12, <1>16, <2>2, <2>3 DEF Timed, Advance
<1>21. QED
  BY <1>2, <1>12, <1>13, <1>14, <1>19, <1>20, ChannelIInv

\* Every step of the server preserves the invariant.
LEMMA NextIInv == IInv /\ [Next]_vars => IInv'
<1> SUFFICES ASSUME IInv, [Next]_vars PROVE IInv'
  OBVIOUS
<1>1. CASE FeedStep
  BY <1>1, RegisterIInv, UnregisterIInv, FeedStopsIInv, SendIInv, SubFrameIInv, OutputFrameIInv
  DEF FeedStep
<1>2. CASE \E c \in Conns : ConnStep(c)
  BY <1>2, ConnStepIInv
<1>3. CASE UNCHANGED vars
  BY <1>3
  DEF vars, IInv, Shape, FreshIsUnused, RingIsTail, WireInv, ConnInv, Numbered, Timed, Wire,
      Tracked, Authorized
<1>4. QED
  BY <1>1, <1>2, <1>3, NextIs

\* The invariant holds throughout.
LEMMA SpecIInv == Spec => []IInv
<1>1. Init => IInv
  BY InitIInv
<1>2. IInv /\ [Next]_vars => IInv'
  BY NextIInv
<1>3. QED
  BY <1>1, <1>2, PTL DEF Spec

-----------------------------------------------------------------------------
(* Theorems                                                                *)

\* With auth_required no delivery loop serves a connection whose SETUP or PLAY
\* went without valid credentials.
THEOREM MediaIsAuthorizedHolds == Spec => []MediaIsAuthorized
<1>1. IInv => MediaIsAuthorized
  BY DEF IInv, ConnInv, Authorized, MediaIsAuthorized
<1>2. QED
  BY <1>1, SpecIInv, PTL

\* In every ring of a main mount the timestamp changes exactly after a marker,
\* whatever was fragmented, sent again or overwritten.
THEOREM AccessUnitBoundaryHolds == Spec => []AccessUnitBoundary
<1>1. IInv => AccessUnitBoundary
  <2> SUFFICES ASSUME IInv, NEW g \in 1 .. Len(regs), regs[g] = "main", NEW i \in 1 .. Len(ring[g]) - 1
               PROVE  (ring[g][i].ts # ring[g][i + 1].ts) <=> ring[g][i].marker
    BY DEF AccessUnitBoundary
  <2>1. Timed(g) /\ g \in Regs
    BY RegsAre DEF IInv, WireInv
  <2>2. PICK r, b \in Seq(Packet) : r = ring[g] /\ b = feed[g].burst /\ Wire(g) = r \o b
    BY <2>1, ChannelShape DEF IInv, Wire
  <2>3. PICK l, m \in Nat : l = Len(r) /\ m = Len(b)
    BY LenProperties
  <2>4. /\ Len(Wire(g)) = l + m
        /\ \A x \in 1 .. l + m : Wire(g)[x] = IF x <= l THEN r[x] ELSE b[x - l]
    <3>1. /\ Len(r \o b) = Len(r) + Len(b)
          /\ \A x \in 1 .. Len(r) + Len(b) :
                (r \o b)[x] = IF x <= Len(r) THEN r[x] ELSE b[x - Len(r)]
      BY ConcatProperties
    <3>2. QED
      BY <2>2, <2>3, <3>1
  <2>5. /\ i \in 1 .. l - 1
        /\ i \in 1 .. l + m - 1 /\ i \in 1 .. l + m /\ i + 1 \in 1 .. l + m /\ i <= l /\ i + 1 <= l
    <3>1. i \in 1 .. l - 1
      BY <2>2, <2>3
    <3>2. QED
      BY <3>1
  <2>6. Wire(g)[i] = r[i] /\ Wire(g)[i + 1] = r[i + 1]
    BY <2>4, <2>5
  <2>7. r[i + 1].ts = r[i].ts + Advance(r[i])
    BY <2>1, <2>4, <2>5, <2>6 DEF Timed
  <2>8. r[i].ts \in Nat
    <3>1. r[i] \in Packet
      BY <2>3, <2>5, ElementOfSeq
    <3>2. QED
      BY <3>1 DEF Packet
  <2>9. QED
    BY <2>2, <2>7, <2>8 DEF Advance
<1>2. QED
  BY <1>1, SpecIInv, PTL

\* The gap the sequence tracker reports with a packet is the number of packets
\* of the registration that this client did not get before it, modulo 2^16.
THEOREM GapsAreReportedHolds == Spec => GapsAreReported
<1> DEFINE Report(c) ==
        conn[c].idx # 0 /\ conn'[c].idx > conn[c].idx /\ regs[conn[c].reg] = "main" =>
            Gap(conn[c].last, conn'[c].last) = (conn'[c].idx - conn[c].idx - 1) % SeqMod
<1>1. IInv /\ IInv' /\ [Next]_vars => [\A c \in Conns : Report(c)]_vars
  <2> SUFFICES ASSUME IInv, IInv', Next, NEW c \in Conns, conn[c].idx # 0,
                      conn'[c].idx > conn[c].idx, regs[conn[c].reg] = "main"
               PROVE  Gap(conn[c].last, conn'[c].last) = (conn'[c].idx - conn[c].idx - 1) % SeqMod
    OBVIOUS
  <2>1. /\ conn[c] \in ConnType /\ conn'[c] \in ConnType
        /\ Tracked(conn[c]) /\ Tracked(conn[c])'
    BY DEF IInv, Shape, ConnInv
  <2>2. conn[c].idx \in Nat /\ conn'[c].idx \in Nat /\ conn'[c].idx # 0
    BY <2>1 DEF ConnType
  <2>3. conn[c].st = "stream" /\ conn'[c].st = "stream"
    BY <2>1, <2>2 DEF Tracked
  <2>4. conn'[c].reg = conn[c].reg /\ regs' = regs
    <3>1. conn' # conn
      BY <2>2
    <3>2. PICK d \in Conns : ConnStep(d)
      BY <3>1, NextIs, FeedStepKeeps
    <3>3. regs' = regs /\ conn' = [conn EXCEPT ![d] = conn'[d]]
      BY <3>2, ConnStepKeeps, ConnStepSession
    <3>4. d = c
      BY <2>2, <3>3 DEF IInv, Shape
    <3>5. QED
      BY <2>3, <3>2, <3>3, <3>4, DeliveryKeepsChannel DEF IInv
  <2>5. conn[c].last = (conn[c].idx - 1) % SeqMod /\ conn'[c].last = (conn'[c].idx - 1) % SeqMod
    BY <2>1, <2>2, <2>3, <2>4 DEF Tracked
  <2>6. PICK a, b \in Nat : a = conn[c].idx - 1 /\ b = conn'[c].idx - 1
    BY <2>2
  <2>7. Gap(a % SeqMod, b % SeqMod) = (b - a - 1) % SeqMod
    BY GapCounts, RtspAssumption DEF RtspAssumption
  <2>8. b - a - 1 = conn'[c].idx - conn[c].idx - 1
    BY <2>2, <2>6
  <2>9. QED
    BY <2>5, <2>6, <2>7, <2>8
<1>2. QED
  BY <1>1, SpecIInv, PTL DEF GapsAreReported, Spec

=============================================================================
