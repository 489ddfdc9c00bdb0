----------------------------- MODULE RtspServer -----------------------------
(***************************************************************************)
(* The RTSP server (crates/protocols/src/rtsp_server) with the output that *)
(* feeds it (crates/streaming/src/output/rtsp.rs) and the mounts the       *)
(* stream manager registers: `live/{id}`, fed with RTP packets, and        *)
(* `live/{id}/sub`, fed with the encoder's NAL units.                      *)
(*                                                                         *)
(* A registration has a number.  Its channel is the number of packets sent *)
(* on it and the ring with the last of them.  Each connection is one task; *)
(* a step is a request with its answer, or one turn of the delivery loop's *)
(* select.                                                                 *)
(***************************************************************************)
EXTENDS Integers, Sequences, Functions

CONSTANTS
    Conns,          \* TCP connections
    AuthRequired,   \* RtspServerConfig::auth_required
    Ring,           \* capacity of a live channel (300)
    SeqMod,         \* RTP sequence numbers are taken modulo this (2^16)
    Frags,          \* packets of a keyframe, larger than RTP_MAX_PAYLOAD
    IdleTicks,      \* five-second waits before the idle timeout (12)
    MaxReg, MaxSent, MaxReq     \* bounds: registrations, packets in all, requests

ASSUME RtspAssumption ==
    /\ AuthRequired \in BOOLEAN
    /\ Ring \in Nat \ {0}
    /\ SeqMod \in Nat \ {0, 1}
    /\ Frags \in Nat \ {0, 1}
    /\ IdleTicks \in Nat \ {0}
    /\ MaxReg \in Nat \ {0}
    /\ MaxSent \in Nat
    /\ MaxReq \in Nat

Mounts == {"main", "sub"}
Uris   == Mounts \cup {"base"}      \* "base": the URL without a path
Regs   == 1 .. MaxReg
Slices == {"p", "idr"}
Nals   == {"params"} \cup Slices     \* SPS and PPS as one packet

VARIABLES
    mount,      \* mount[m]: the registration in live_streams, 0 none
    regs,       \* registrations made so far, as a sequence of mounts
    feed,       \* feed[g]: the sender's side (RtspOutput, or the forwarder)
    sent,       \* sent[g]: packets the channel carried
    ring,       \* ring[g]: the last of them
    conn        \* conn[c]: the connection task

vars == <<mount, regs, feed, sent, ring, conn>>

Packet == [rtp : BOOLEAN, seq : 0 .. SeqMod - 1, ts : Nat, marker : BOOLEAN]

NoFeed == [st |-> "none", seq |-> 0, ts |-> 0, cached |-> FALSE, burst |-> <<>>]
NoConn == [st |-> "none", path |-> "base", reg |-> 0, pos |-> 0, last |-> -1, idx |-> 0,
           half |-> "no", quiet |-> 0, req |-> 0, authed |-> FALSE]
Closed == [NoConn EXCEPT !.st = "closed"]

TypeOK ==
    /\ mount \in [Mounts -> 0 .. MaxReg]
    /\ regs \in Seq(Mounts) /\ Len(regs) <= MaxReg
    /\ \A g \in Regs :
        /\ feed[g].st \in {"none", "up", "down"}
        /\ feed[g].seq \in 0 .. SeqMod - 1
        /\ feed[g].ts \in Nat
        /\ feed[g].cached \in BOOLEAN
        /\ feed[g].burst \in Seq(Packet)
        /\ sent[g] \in 0 .. MaxSent
        /\ ring[g] \in Seq(Packet) /\ Len(ring[g]) <= Ring
    /\ \A c \in Conns :
        /\ conn[c].st \in {"none", "init", "described", "setup", "playing", "stream", "closed"}
        /\ conn[c].path \in Uris
        /\ conn[c].reg \in 0 .. MaxReg
        /\ conn[c].pos \in Nat /\ conn[c].idx \in Nat
        /\ conn[c].last \in -1 .. SeqMod - 1
        /\ conn[c].half \in {"no", "read", "lost"}
        /\ conn[c].quiet \in 0 .. IdleTicks
        /\ conn[c].req \in 0 .. MaxReq
        /\ conn[c].authed \in BOOLEAN

Init ==
    /\ mount = [m \in Mounts |-> 0]
    /\ regs = <<>>
    /\ feed = [g \in Regs |-> NoFeed]
    /\ sent = [g \in Regs |-> 0]
    /\ ring = [g \in Regs |-> <<>>]
    /\ conn = [c \in Conns |-> NoConn]

-----------------------------------------------------------------------------
(* Registration and feeding                                                *)

\* register_live_stream: the entry of that path is replaced.
Register(m) ==
    /\ Len(regs) < MaxReg
    /\ LET g == Len(regs) + 1 IN
        /\ mount' = [mount EXCEPT ![m] = g]
        /\ regs' = Append(regs, m)
        /\ feed' = [feed EXCEPT ![g].st = "up"]
    /\ UNCHANGED <<sent, ring, conn>>

\* unregister_live_stream, by path.
Unregister(m) ==
    /\ mount[m] # 0
    /\ mount' = [mount EXCEPT ![m] = 0]
    /\ UNCHANGED <<regs, feed, sent, ring, conn>>

\* The output is stopped, or the forwarder sees the sub broadcast close.
FeedStops(g) ==
    /\ feed[g].st = "up"
    /\ feed[g].burst = <<>>
    /\ feed' = [feed EXCEPT ![g] = [NoFeed EXCEPT !.st = "down"]]
    /\ UNCHANGED <<mount, regs, sent, ring, conn>>

\* Packets carried or under way, for the bound.
Carried == FoldFunction(+, 0, sent)
           + FoldFunction(LAMBDA f, n : Len(f.burst) + n, 0, feed)

\* build_rtp_packets: n packets with consecutive numbers and one timestamp;
\* the last one of a slice carries the marker.
RtpPackets(nal, n, seq, ts) ==
    [i \in 1 .. n |-> [rtp |-> TRUE, seq |-> (seq + i - 1) % SeqMod, ts |-> ts,
                       marker |-> nal \in Slices /\ i = n]]

\* Keyframes exceed one packet.
Size(nal) == IF nal = "idr" THEN Frags ELSE 1

\* Mutant: the parameter sets that are sent again take no numbers.
PacketsKeepNumber(f, nal) ==
    CASE nal = "params" -> RtpPackets(nal, 1, f.seq, f.ts)
      [] nal = "p" /\ f.cached -> RtpPackets("params", 1, f.seq, f.ts) \o RtpPackets(nal, Size(nal), f.seq, f.ts)
      [] OTHER -> RtpPackets(nal, Size(nal), f.seq, f.ts)

\* send_frame: a P slice is preceded by the cached parameter sets.
Packets(f, nal) ==
    CASE nal = "params" -> RtpPackets(nal, 1, f.seq, f.ts)
      [] nal = "p" /\ f.cached -> RtpPackets("params", 1, f.seq, f.ts) \o RtpPackets(nal, Size(nal), f.seq + 1, f.ts)
      [] OTHER -> RtpPackets(nal, Size(nal), f.seq, f.ts)

\* Mutant: every NAL unit ends an access unit.
NextTsPerNal(f, nal) == f.ts + 1

\* The timestamp moves on after a slice.
NextTs(f, nal) == IF nal \in Slices THEN f.ts + 1 ELSE f.ts

\* send_frame of RtspOutput.
OutputFrame(g, nal) ==
    /\ feed[g].st = "up"
    /\ regs[g] = "main"
    /\ feed[g].burst = <<>>
    /\ LET f    == feed[g]
           pkts == Packets(f, nal)
       IN /\ Carried + Len(pkts) <= MaxSent
          /\ feed' = [feed EXCEPT ![g] = [f EXCEPT
                        !.burst = pkts,
                        !.seq = (pkts[Len(pkts)].seq + 1) % SeqMod,
                        !.ts = NextTs(f, nal),
                        !.cached = @ \/ nal = "params"]]
    /\ UNCHANGED <<mount, regs, sent, ring, conn>>

\* The forwarder of the substream sends each NAL unit as it is.
SubFrame(g) ==
    /\ feed[g].st = "up"
    /\ regs[g] = "sub"
    /\ feed[g].burst = <<>>
    /\ Carried < MaxSent
    /\ feed' = [feed EXCEPT
        ![g].burst = <<[rtp |-> FALSE, seq |-> 0, ts |-> 0, marker |-> FALSE]>>]
    /\ UNCHANGED <<mount, regs, sent, ring, conn>>

\* One send on the channel; receivers run in between.
Send(g) ==
    /\ feed[g].burst # <<>>
    /\ sent' = [sent EXCEPT ![g] = @ + 1]
    /\ ring' = [ring EXCEPT ![g] = (IF Len(@) = Ring THEN Tail(@) ELSE @) \o <<Head(feed[g].burst)>>]
    /\ feed' = [feed EXCEPT ![g].burst = Tail(@)]
    /\ UNCHANGED <<mount, regs, conn>>

-----------------------------------------------------------------------------
(* Requests                                                                *)

Connect(c) ==
    /\ conn[c].st = "none"
    /\ conn' = [conn EXCEPT ![c].st = "init"]
    /\ UNCHANGED <<mount, regs, feed, sent, ring>>

Close(c) == conn' = [conn EXCEPT ![c] = Closed]

\* End of the stream, a request that does not parse, or a failed write.
Disconnect(c) ==
    /\ conn[c].st \notin {"none", "closed"}
    /\ Close(c)
    /\ UNCHANGED <<mount, regs, feed, sent, ring>>

Waiting(c) == conn[c].st \in {"init", "described", "setup", "playing"}

\* Mutant: a refused request is handled all the same.
NoAuth(ok) == TRUE

\* check_auth
CheckAuth(ok) == AuthRequired => ok

\* find_live_stream: the longest registered path the URI contains.
Find(uri) ==
    IF uri = "sub" /\ mount["sub"] # 0 THEN "sub"
    ELSE IF uri # "base" /\ mount["main"] # 0 THEN "main"
    ELSE "base"

\* A request that is refused (401, 404, 454, 455, 461, 551), OPTIONS,
\* GET_PARAMETER and PAUSE leave the session as it was.
Describe(c, uri, ok) ==
    /\ Waiting(c)
    /\ CheckAuth(ok)
    /\ Find(uri) # "base"
    /\ conn' = [conn EXCEPT ![c].st = "described", ![c].path = Find(uri)]
    /\ UNCHANGED <<mount, regs, feed, sent, ring>>

\* SETUP resolves its URI, or falls back on the path of the last DESCRIBE.
SetupPath(c, uri) ==
    IF Find(uri) # "base" THEN Find(uri)
    ELSE IF conn[c].st = "described" /\ mount[conn[c].path] # 0 THEN conn[c].path
    ELSE "base"

Setup(c, uri, ok) ==
    /\ Waiting(c)
    /\ CheckAuth(ok)
    /\ SetupPath(c, uri) # "base"
    /\ conn' = [conn EXCEPT ![c].st = "setup", ![c].path = SetupPath(c, uri),
                            ![c].authed = ok]
    /\ UNCHANGED <<mount, regs, feed, sent, ring>>

\* PLAY is answered 200 before the mount is looked up; without one the
\* connection goes on reading requests.
Play(c, ok) ==
    /\ Waiting(c)
    /\ CheckAuth(ok)
    /\ conn[c].st = "setup"
    /\ LET k == conn[c]
           g == mount[k.path] IN
        conn' = [conn EXCEPT ![c] = [k EXCEPT
            !.st = IF g = 0 THEN "playing" ELSE "stream",
            !.reg = g,
            !.pos = IF g = 0 THEN 0 ELSE sent[g],
            !.authed = @ /\ ok]]
    /\ UNCHANGED <<mount, regs, feed, sent, ring>>

Teardown(c, ok) ==
    /\ Waiting(c)
    /\ CheckAuth(ok)
    /\ Close(c)
    /\ UNCHANGED <<mount, regs, feed, sent, ring>>

-----------------------------------------------------------------------------
(* The delivery loop.  A branch that wins the select drops the reader's    *)
(* future, and with it the part of a request it had read.                  *)

Streaming(c) == conn[c].st = "stream"
Drop(half)   == IF half = "read" THEN "lost" ELSE half

\* SequenceTracker::check
Gap(last, seq) == IF last = -1 THEN 0 ELSE (seq - (last + 1)) % SeqMod

Deliver(c) ==
    /\ Streaming(c)
    /\ LET k      == conn[c]
           behind == sent[k.reg] - k.pos
       IN /\ behind \in 1 .. Ring
          /\ LET p == ring[k.reg][Len(ring[k.reg]) - behind + 1] IN
             conn' = [conn EXCEPT ![c] = [k EXCEPT
                !.pos = @ + 1,
                !.idx = k.pos + 1,
                !.last = IF p.rtp THEN p.seq ELSE @,
                !.quiet = 0,
                !.half = Drop(@)]]
    /\ UNCHANGED <<mount, regs, feed, sent, ring>>

\* RecvError::Lagged: the receiver moves to the oldest packet of the ring.
Lagged(c) ==
    /\ Streaming(c)
    /\ LET k == conn[c] IN
        /\ sent[k.reg] - k.pos > Ring
        /\ conn' = [conn EXCEPT ![c] = [k EXCEPT !.pos = sent[k.reg] - Ring, !.half = Drop(@)]]
    /\ UNCHANGED <<mount, regs, feed, sent, ring>>

\* RecvError::Closed: everything is read and no sender is left.
Ended(c) ==
    /\ Streaming(c)
    /\ LET g == conn[c].reg IN
        /\ conn[c].pos = sent[g]
        /\ feed[g].st = "down"
        /\ mount[regs[g]] # g
    /\ Close(c)
    /\ UNCHANGED <<mount, regs, feed, sent, ring>>

\* Mutant: a report counts as activity.
TickIsActivity(c) ==
    /\ Streaming(c)
    /\ conn[c].pos = sent[conn[c].reg]
    /\ conn' = [conn EXCEPT ![c].quiet = 0, ![c].half = Drop(@)]
    /\ UNCHANGED <<mount, regs, feed, sent, ring>>

\* Five seconds without anything: a sender report, or the idle timeout.
Tick(c) ==
    /\ Streaming(c)
    /\ conn[c].pos = sent[conn[c].reg]
    /\ LET k == conn[c] IN
        conn' = [conn EXCEPT ![c] = IF k.quiet = IdleTicks THEN Closed
                                    ELSE [k EXCEPT !.quiet = @ + 1, !.half = Drop(@)]]
    /\ UNCHANGED <<mount, regs, feed, sent, ring>>

\* The first segment of a request that arrives in two.
HalfRequest(c) ==
    /\ Streaming(c)
    /\ conn[c].half = "no"
    /\ conn[c].req < MaxReq
    /\ conn' = [conn EXCEPT ![c].half = "read", ![c].req = @ + 1]
    /\ UNCHANGED <<mount, regs, feed, sent, ring>>

\* The rest of it.  What was read is gone if another branch won meanwhile, and
\* the rest does not parse.  TEARDOWN and PAUSE end the connection, any other
\* method is answered as OPTIONS.
RestOfRequest(c) ==
    /\ Streaming(c)
    /\ conn[c].half # "no"
    /\ \/ Close(c)
       \/ conn[c].half = "read" /\ conn' = [conn EXCEPT ![c].half = "no", ![c].quiet = 0]
    /\ UNCHANGED <<mount, regs, feed, sent, ring>>

-----------------------------------------------------------------------------

Turn(c) == Deliver(c) \/ Lagged(c) \/ Ended(c) \/ Tick(c)

Next ==
    \/ \E m \in Mounts : Register(m) \/ Unregister(m)
    \/ \E g \in 1 .. Len(regs) :
        \/ FeedStops(g) \/ Send(g)
        \/ SubFrame(g) \/ \E nal \in Nals : OutputFrame(g, nal)
    \/ \E c \in Conns :
        \/ Connect(c) \/ Disconnect(c)
        \/ \E uri \in Uris, ok \in BOOLEAN : Describe(c, uri, ok) \/ Setup(c, uri, ok)
        \/ \E ok \in BOOLEAN : Play(c, ok) \/ Teardown(c, ok)
        \/ Turn(c) \/ HalfRequest(c) \/ RestOfRequest(c)

\* The delivery task is polled: its receiver wakes it, or its timer.
Spec == Init /\ [][Next]_vars /\ \A c \in Conns : WF_vars(Turn(c))

-----------------------------------------------------------------------------
(* Properties                                                              *)

\* What the ring overtook is noticed: the gap SequenceTracker reports with a
\* packet is the number of packets the client missed before it, modulo 2^16,
\* whatever was fragmented, sent again or wrapped around in between.
GapsAreReported ==
    [][\A c \in Conns :
        conn[c].idx # 0 /\ conn'[c].idx > conn[c].idx /\ regs[conn[c].reg] = "main" =>
            Gap(conn[c].last, conn'[c].last) = (conn'[c].idx - conn[c].idx - 1) % SeqMod]_vars

\* An access unit is a slice with the parameter sets before it: on the wire
\* the timestamp changes exactly after a marker.
AccessUnitBoundary ==
    \A g \in 1 .. Len(regs) : regs[g] = "main" =>
        \A i \in 1 .. Len(ring[g]) - 1 : (ring[g][i].ts # ring[g][i + 1].ts) <=> ring[g][i].marker

\* With auth_required, media goes only to a connection whose SETUP and PLAY
\* both carried valid credentials.
MediaIsAuthorized ==
    AuthRequired => \A c \in Conns : conn[c].st = "stream" => conn[c].authed

\* A delivery over which nothing more comes ends: the channel closes, or the
\* idle timeout strikes, although the entry's parked receiver keeps the
\* channel of a dead pipeline open.
SilentDeliveryEnds ==
    \A c \in Conns : Streaming(c) ~> ~Streaming(c)
=============================================================================
