---------------------------- MODULE RtpReception ----------------------------
(***************************************************************************)
(* Reception of one stream on the media node: RTP packets come as datagrams *)
(* that the network loses, repeats and reorders, or in TCP chunks that      *)
(* feed_tcp_packets cuts; RtpPacketBuffer puts them in order in a ring,     *)
(* waits for the packets of a gap, and puts access units together for the   *)
(* demuxer, which drops damaged ones.                                       *)
(*                                                                          *)
(* A packet is its number in the stream the device sends; its 16-bit        *)
(* sequence number wraps.  The reader is a thread of its own; the time it   *)
(* waits for a gap is left open.                                            *)
(***************************************************************************)
EXTENDS Naturals, Sequences, FiniteSets, FiniteSetsExt, SequencesExt

CONSTANTS Streams,     \* the packets a device may send, by payload kind
          FirstSeq,    \* sequence number before the first packet
          SeqRange,    \* 2^16
          BufferSize,  \* BUFFER_SIZE
          Window,      \* reorder_window(payload_kind)
          HighWater,   \* REORDER_BUFFER_HIGH_WATERMARK
          BaseLen,     \* TCP_DATA_BASE_LEN, in units; the length field is one
          MaxLen,      \* MAX_LIMIT_RTP_PACKET_SIZE, in units
          MaxChunk     \* the most that one read of a connection returns, in units

Kinds == DOMAIN Streams

\* frame: the packet's RTP timestamp; marker: it ends the frame; part: what
\* its payload is; key: it belongs to a key frame's NAL unit; size: in units.
PacketType ==
    [frame : Nat \ {0}, marker : BOOLEAN,
     part : {"whole", "start", "mid", "end", "badFragment", "unsupported"},
     key : BOOLEAN, size : Nat \ {0}]

ASSUME ReceptionAssumption ==
    /\ Kinds \subseteq {"Ps", "RawVideo", "Audio"}
    /\ \A k \in Kinds : Streams[k] \in Seq(PacketType)
    /\ SeqRange \in Nat \ {0} /\ BufferSize \in Nat \ {0} /\ Window \in 1 .. BufferSize
    /\ HighWater \in Window .. BufferSize
    /\ SeqRange % 2 = 0 /\ SeqRange % BufferSize = 0 /\ 2 * BufferSize <= SeqRange
    /\ FirstSeq \in 0 .. SeqRange - 1 /\ BaseLen \in Nat \ {0} /\ MaxLen \in Nat
    /\ MaxChunk \in Nat

\* What the packetizer of a device keeps to (RFC 3550, RFC 6184).  The packets
\* of a frame follow one another, nothing of it comes after its marker, and a
\* fragment comes right after another one of its NAL unit.
ASSUME SenderAssumption ==
    \A k \in Kinds \ {"Audio"} : \A n \in DOMAIN Streams[k] :
        LET p == Streams[k][n]
            before == Streams[k][n - 1]
        IN  /\ \A m \in DOMAIN Streams[k] : n < m =>
                  /\ p.frame <= Streams[k][m].frame
                  /\ p.marker => p.frame # Streams[k][m].frame
            /\ p.part \in {"mid", "end"} =>
                  n > 1 /\ before.part \in {"start", "mid"} /\ before.frame = p.frame

\* Every packet has at least the header that TCP_DATA_BASE_LEN counts on.
ASSUME LengthAssumption ==
    \A k \in Kinds : \A n \in DOMAIN Streams[k] : Streams[k][n].size + 1 >= BaseLen

\* Every frame of raw video ends with a marker.
ASSUME MarkerAssumption ==
    "RawVideo" \in Kinds => \A n \in DOMAIN Streams["RawVideo"] :
        LET s == Streams["RawVideo"]
        IN  s[n].marker \/ (n + 1 \in DOMAIN s /\ s[n + 1].frame = s[n].frame)

VARIABLES kind,     \* payload_kind
          wire,     \* external: the transport and what is left of its bytes
          arrived,  \* packets that came at least once
          repeated, \* those that came twice
          channel,  \* rtp_tx / packet_rx
          closed,   \* the sender of the channel was dropped
          at,       \* where the reader's thread is
          first,    \* first_read_rtp_sn
          queue,    \* the ring; 0 is None
          count,    \* queue_count
          au,       \* au_buffer and the fields that go with it
          taken,    \* history: the packets in the order they were processed
          out,      \* history: the access units given to the demuxer
          collided  \* history: a packet came a whole ring ahead of another, or
                    \* half the sequence range late

wireVars == <<wire, arrived, repeated, channel, closed>>
ringVars == <<first, queue, count, collided>>
vars == <<kind, wireVars, at, ringVars, au, taken, out>>

Packet(n) == Streams[kind][n]
Number == 1 .. Len(Streams[kind])
SeqNo(n) == (FirstSeq + n) % SeqRange
Slots == 0 .. BufferSize - 1
Slot(s) == s % BufferSize
Raw == kind = "RawVideo"

-----------------------------------------------------------------------------
(* The transports.                                                          *)

Datagram(n) ==
    /\ wire.mode = "udp" /\ ~closed /\ channel = <<>>
    /\ n \in Number \ repeated
    /\ arrived' = arrived \cup {n}
    /\ repeated' = IF n \in arrived THEN repeated \cup {n} ELSE repeated
    /\ channel' = <<n>>
    /\ UNCHANGED <<kind, wire, closed, at, ringVars, au, taken, out>>

\* The bytes of the connection, in units: the length field, then the packet.
End ==
    LET end[n \in 0 .. Len(Streams[kind])] ==
            IF n = 0 THEN 0 ELSE end[n - 1] + Packet(n).size + 1
    IN  end
ByteAt(end, x) ==
    LET n == CHOOSE n \in DOMAIN end \ {0} : end[n - 1] < x /\ x <= end[n]
    IN  <<n, x - end[n - 1] - 1>>
Bytes == [x \in 1 .. End[Len(Streams[kind])] |-> ByteAt(End, x)]
Announced(b) == IF b[2] = 0 THEN Packet(b[1]).size ELSE 1

\* Mutant: the minimum is not asked for and the length counts its own field.
Complete_WithField(buf, p) ==
    /\ Len(buf) - p >= BaseLen
    /\ Len(buf) - p >= Announced(buf[p + 1])

\* The buffer holds a packet at p.
Complete(buf, p) ==
    /\ Len(buf) - p >= BaseLen
    /\ Announced(buf[p + 1]) <= MaxLen
    /\ Len(buf) - p >= Announced(buf[p + 1]) + 1

TooLong(buf, p) == Len(buf) - p >= BaseLen /\ Announced(buf[p + 1]) > MaxLen

\* feed_tcp_packets: where the buffer is cut.
Cuts(buf) ==
    LET cut[k \in 0 .. Len(buf)] ==
            IF k = 0 THEN 0
            ELSE LET p == cut[k - 1]
                 IN  IF Complete(buf, p)
                     THEN Min({p + Announced(buf[p + 1]) + 1, Len(buf)}) ELSE p
    IN  [k \in 0 .. Len(buf) |-> cut[k]]

\* A piece that is a packet and nothing else; 0 stands for any other.
PacketIn(piece) ==
    LET n == piece[1][1]
    IN  IF piece = [i \in 1 .. Packet(n).size |-> <<n, i>>] THEN n ELSE 0

FeedTcp(k) ==
    LET buf == wire.buffer \o SubSeq(Bytes, wire.pos + 1, wire.pos + k)
        cut == Cuts(buf)
        pieces == Cardinality({c \in 1 .. Len(buf) : cut[c] # cut[c - 1]})
        over == cut[Len(buf)]
        got == [i \in 1 .. pieces |-> PacketIn(SubSeq(buf, cut[i - 1] + 2, cut[i]))]
    IN  /\ wire.mode = "tcp" /\ ~closed /\ channel = <<>>
        /\ wire.pos + k <= Len(Bytes)
        /\ channel' = got /\ arrived' = arrived \cup Range(got)
        /\ IF TooLong(buf, over)
           THEN wire' = [mode |-> "error", pos |-> wire.pos + k, buffer |-> <<>>]
           ELSE wire' = [wire EXCEPT !.pos = @ + k,
                                     !.buffer = SubSeq(buf, over + 1, Len(buf))]
        /\ UNCHANGED <<kind, repeated, closed, at, ringVars, au, taken, out>>

\* The stream is removed from the register: the last sender is dropped.
Close ==
    /\ ~closed /\ closed' = TRUE
    /\ UNCHANGED <<kind, wire, arrived, repeated, channel, at, ringVars, au, taken, out>>

-----------------------------------------------------------------------------
(* The ring.                                                                *)

\* Mutant: a packet's number is compared as if it never wrapped.
seq_before_NoWrap(s, base) == s < base

\* seq_before, is_old_packet.
seq_before(s, base) == s # base /\ (base + SeqRange - s) % SeqRange < SeqRange \div 2

Holds(s) == queue[Slot(s)] # 0 /\ SeqNo(queue[Slot(s)]) = s

Collides(n) ==
    \/ \E m \in Range(queue) \ {0} : m + BufferSize <= n \/ n + BufferSize <= m
    \/ taken # <<>> /\ (Last(taken) + BufferSize < n
                         \/ n + SeqRange \div 2 <= Last(taken) + 1)

\* A free slot is counted, a slot with another packet is replaced.
Put(n) ==
    /\ queue' = [queue EXCEPT ![Slot(SeqNo(n))] = n]
    /\ count' = IF queue[Slot(SeqNo(n))] = 0 THEN count + 1 ELSE count

enqueue_initial(n) ==
    IF Holds(SeqNo(n)) THEN UNCHANGED ringVars
    ELSE /\ first' = IF count = 0 \/ seq_before(SeqNo(n), first) THEN SeqNo(n) ELSE first
         /\ Put(n)
         /\ collided' = (collided \/ Collides(n))

enqueue(n) ==
    IF seq_before(SeqNo(n), first) \/ Holds(SeqNo(n)) THEN UNCHANGED ringVars
    ELSE Put(n) /\ UNCHANGED first /\ collided' = (collided \/ Collides(n))

\* calculate_index: the first Window packets; init fails when the channel ends.
CalculateIndex ==
    /\ at = "init" /\ count < Window
    /\ IF channel # <<>>
       THEN enqueue_initial(Head(channel)) /\ channel' = Tail(channel) /\ UNCHANGED at
       ELSE closed /\ at' = "failed" /\ UNCHANGED <<channel, ringVars>>
    /\ UNCHANGED <<kind, wire, arrived, repeated, closed, au, taken, out>>

IndexCalculated ==
    /\ at = "init" /\ count >= Window /\ at' = "call"
    /\ UNCHANGED <<kind, wireVars, ringVars, au, taken, out>>

-----------------------------------------------------------------------------
(* Access units.                                                            *)

NoUnit == [ready |-> <<>>, buf |-> <<>>, ts |-> 0, damaged |-> FALSE,
           waitKey |-> FALSE, fu |-> <<>>]
HasKey(data) == \E i \in DOMAIN data : Packet(data[i]).key

\* finish_access_unit, should_output_access_unit.
finish_access_unit(a) ==
    LET b == [a EXCEPT !.buf = <<>>, !.ts = 0, !.damaged = FALSE]
    IN  CASE a.buf = <<>> -> b
          [] a.buf # <<>> /\ a.damaged -> [b EXCEPT !.waitKey = @ \/ Raw]
          [] OTHER -> [b EXCEPT !.ready = IF a.waitKey /\ ~HasKey(a.buf) THEN @
                                          ELSE Append(@, a.buf),
                                !.waitKey = @ /\ ~HasKey(a.buf)]

append_access_unit(a, n, data) ==
    LET ts == Packet(n).frame
        b == IF a.ts # 0 /\ a.ts # ts THEN finish_access_unit(a) ELSE a
        c == [b EXCEPT !.ts = ts, !.buf = @ \o data]
    IN  IF Packet(n).marker THEN finish_access_unit(c) ELSE c

\* Mutant: a lost fragment leaves the decoder with what it has.
mark_packet_loss_NoKeyWait(a, ts) ==
    LET b == [a EXCEPT !.fu = <<>>, !.buf = <<>>, !.ts = 0, !.damaged = FALSE]
    IN  IF a.buf = <<>> \/ a.ts # ts THEN b
        ELSE [b EXCEPT !.ts = ts, !.damaged = TRUE]

mark_packet_loss(a, ts) ==
    LET b == [a EXCEPT !.fu = <<>>, !.buf = <<>>, !.ts = 0, !.damaged = FALSE]
    IN  CASE a.buf = <<>> -> [b EXCEPT !.waitKey = @ \/ (a.fu # <<>> /\ Raw)]
          [] a.buf # <<>> /\ a.ts # ts -> b
          [] OTHER -> [b EXCEPT !.ts = ts, !.damaged = TRUE]

\* depacketize_h264, depacketize_h265: the data of a packet and the fragment
\* that is being put together.
depacketize(fu, n) ==
    LET part == Packet(n).part
    IN  CASE part = "whole"       -> [fu |-> fu, data |-> <<n>>]
          [] part = "unsupported" -> [fu |-> fu, data |-> <<>>]
          [] part = "badFragment" -> [fu |-> <<>>, data |-> <<>>]
          [] part = "start"       -> [fu |-> <<n>>, data |-> <<>>]
          [] part \in {"mid", "end"} /\ fu = <<>> -> [fu |-> fu, data |-> <<>>]
          [] part = "mid" /\ fu # <<>>            -> [fu |-> Append(fu, n), data |-> <<>>]
          [] OTHER                                -> [fu |-> <<>>, data |-> Append(fu, n)]

process_raw(a, n) ==
    LET d == depacketize(a.fu, n)
        b == [a EXCEPT !.fu = d.fu]
    IN  CASE d.data # <<>>                      -> append_access_unit(b, n, d.data)
          [] d.data = <<>> /\ Packet(n).marker  -> finish_access_unit(b)
          [] OTHER                              -> b

\* depacketize_aac may give nothing; a loss changes nothing.
process_audio(a, n) ==
    IF Packet(n).part = "unsupported" THEN a ELSE [a EXCEPT !.ready = Append(@, <<n>>)]

process_packet(n, lost) ==
    LET a == IF lost /\ kind # "Audio" THEN mark_packet_loss(au, Packet(n).frame) ELSE au
    IN  CASE kind = "Ps"       -> append_access_unit(a, n, <<n>>)
          [] kind = "RawVideo" -> process_raw(a, n)
          [] OTHER             -> process_audio(a, n)

-----------------------------------------------------------------------------
(* consume_packet.                                                          *)

\* consume_remaining and consume_ready_au: a finished unit is copied, in as
\* many calls as the demuxer's buffer needs.
ConsumeReady ==
    /\ at = "call" /\ au.ready # <<>>
    /\ out' = Append(out, Head(au.ready)) /\ au' = [au EXCEPT !.ready = Tail(@)]
    /\ UNCHANGED <<kind, wireVars, at, ringVars, taken>>

\* reduce_packet: the queue is filled up to the window.
ReducePacket ==
    /\ at = "call" /\ au.ready = <<>>
    /\ count < Window /\ channel # <<>>
    /\ enqueue(Head(channel)) /\ channel' = Tail(channel)
    /\ UNCHANGED <<kind, wire, arrived, repeated, closed, at, au, taken, out>>

next_read(n) == (SeqNo(n) + 1) % SeqRange

\* The packet that was taken is processed; at the end of the input the unit
\* under way is finished as it is.
Process(q, c, n, lost) ==
    LET a == process_packet(n, lost)
        ended == closed /\ channel = <<>> /\ c = 0 /\ a.ready = <<>>
    IN  /\ queue' = q /\ count' = c /\ first' = next_read(n)
        /\ au' = IF ended THEN finish_access_unit(a) ELSE a
        /\ taken' = Append(taken, n)
        /\ at' = "call"
        /\ UNCHANGED <<kind, wireVars, collided, out>>

Take(i, lost) ==
    Process([queue EXCEPT ![i] = 0], count - 1, queue[i], lost)

\* recv_packet fails only when the channel is empty too.
InputClosed == closed /\ channel = <<>>
Reduced == count >= Window \/ InputClosed

\* take_next_packet: the packet that is expected is there.
TakeExpected ==
    /\ at = "call" /\ au.ready = <<>> /\ Reduced /\ Holds(first)
    /\ Take(Slot(first), FALSE)

\* It is not: the reader waits for it, unless the input is closed.
GapBegins ==
    /\ at = "call" /\ au.ready = <<>> /\ count >= Window /\ ~Holds(first)
    /\ at' = "gap"
    /\ UNCHANGED <<kind, wireVars, ringVars, au, taken, out>>

GapReceives ==
    /\ at = "gap" /\ ~Holds(first) /\ count < HighWater /\ channel # <<>>
    /\ enqueue(Head(channel)) /\ channel' = Tail(channel)
    /\ UNCHANGED <<kind, wire, arrived, repeated, closed, at, au, taken, out>>

GapFilled ==
    /\ at = "gap" /\ Holds(first)
    /\ Take(Slot(first), FALSE)

\* Mutant: the loss is not told to the access unit.
TakeFirstAvailable_Silent ==
    LET Offset(i) == (i + BufferSize - Slot(first)) % BufferSize
        i == CHOOSE j \in Slots : queue[j] # 0
                /\ \A k \in Slots : queue[k] # 0 => Offset(j) <= Offset(k)
    IN  Take(i, FALSE)

\* take_first_available_packet, from the slot of the expected packet on.
TakeFirstAvailable ==
    LET Offset(i) == (i + BufferSize - Slot(first)) % BufferSize
        i == CHOOSE j \in Slots : queue[j] # 0
                /\ \A k \in Slots : queue[k] # 0 => Offset(j) <= Offset(k)
    IN  Take(i, Offset(i) > 0)

\* The time is over, the queue is full enough or the input is closed.
GapEnds == at = "gap" /\ ~Holds(first) /\ TakeFirstAvailable

\* Mutant: a gap at the end of the input is waited for.
TakeLater_Expects ==
    /\ at = "call" /\ au.ready = <<>> /\ InputClosed /\ count > 0 /\ count < Window
    /\ Holds(first) /\ TakeFirstAvailable

TakeLater ==
    /\ at = "call" /\ au.ready = <<>> /\ InputClosed /\ count > 0 /\ count < Window
    /\ ~Holds(first) /\ TakeFirstAvailable

\* Nothing is left: the unit under way is finished; then AVERROR_EOF.
EndOfInput ==
    /\ at = "call" /\ au.ready = <<>> /\ InputClosed /\ count = 0
    /\ au' = finish_access_unit(au)
    /\ at' = IF finish_access_unit(au).ready = <<>> THEN "ended" ELSE at
    /\ UNCHANGED <<kind, wireVars, ringVars, taken, out>>

-----------------------------------------------------------------------------

Init ==
    /\ kind \in Kinds
    /\ \E m \in {"udp", "tcp"} : wire = [mode |-> m, pos |-> 0, buffer |-> <<>>]
    /\ arrived = {} /\ repeated = {} /\ channel = <<>> /\ closed = FALSE
    /\ at = "init" /\ first = SeqRange - 1 /\ queue = [i \in Slots |-> 0] /\ count = 0
    /\ au = [NoUnit EXCEPT !.waitKey = Raw]
    /\ taken = <<>> /\ out = <<>> /\ collided = FALSE

Reader ==
    \/ CalculateIndex \/ IndexCalculated \/ ConsumeReady \/ ReducePacket
    \/ TakeExpected \/ GapBegins \/ GapReceives \/ GapFilled \/ GapEnds
    \/ TakeLater \/ EndOfInput

Next ==
    \/ \E n \in Number : Datagram(n)
    \/ \E k \in 1 .. MaxChunk : FeedTcp(k)
    \/ Close
    \/ Reader

Spec == Init /\ [][Next]_vars

\* The reader's thread runs: FFmpeg asks for data until the end of file.
FairSpec == Spec /\ WF_vars(Reader)

-----------------------------------------------------------------------------
(* Properties.                                                              *)

\* Everything has the shape the code gives it.
TypeOK ==
    /\ kind \in Kinds /\ at \in {"init", "call", "gap", "ended", "failed"}
    /\ arrived \subseteq Number /\ repeated \subseteq arrived /\ channel \in Seq(Number)
    /\ closed \in BOOLEAN /\ collided \in BOOLEAN
    /\ first \in 0 .. SeqRange - 1 /\ queue \in [Slots -> Number \cup {0}]
    /\ count = Cardinality({i \in Slots : queue[i] # 0})
    /\ au.waitKey \in BOOLEAN /\ au.damaged \in BOOLEAN /\ au.buf \in Seq(Number)
    /\ taken \in Seq(Number)

\* The demuxer gets the packets in the order the device sent them and none
\* twice, over the wrap of the sequence number, as long as the outage before a
\* packet is shorter than the ring and its delay than half the range.
InOrder ==
    ~collided => \A i, j \in DOMAIN taken : i < j => taken[i] < taken[j]

\* From the first packet of an access unit that goes out to the end of its
\* frame nothing was lost: loss in the middle or at the tail drops the unit
\* (mark_packet_loss, finish_access_unit).
FrameOf(a) == Packet(a[1]).frame

LostBefore(n) == n \notin Range(taken) /\ taken # <<>> /\ n < Last(taken)

AccessUnitWhole ==
    ~collided => \A i \in DOMAIN out :
        /\ \A j \in DOMAIN out[i] : Packet(out[i][j]).frame = FrameOf(out[i])
        /\ kind # "Audio" => \A n \in Number :
              n > out[i][1] /\ Packet(n).frame = FrameOf(out[i]) => ~LostBefore(n)

\* Raw video starts at a key frame and, after a frame of one fragmented NAL
\* unit of which the start came and a later fragment was lost, starts again
\* at a key frame.
BrokenFragment(f) ==
    LET packets == {n \in Number : Packet(n).frame = f}
    IN  /\ \A n \in packets : Packet(n).part \in {"start", "mid", "end"}
        /\ \E n \in packets : /\ Packet(n).part = "start" /\ n \in Range(taken)
                              /\ \A m \in packets \ {n} : Packet(m).part # "start"
        /\ \E n \in packets : LostBefore(n)

KeyFrameFirst ==
    Raw /\ ~collided => \A i \in DOMAIN out : \E j \in 1 .. i :
        /\ HasKey(out[j])
        /\ \A n \in Number :
              FrameOf(out[j]) < Packet(n).frame /\ Packet(n).frame < FrameOf(out[i])
                  => ~BrokenFragment(Packet(n).frame)

\* However the chunks of a connection are cut, each packet that came in full
\* is handed on, whole and once (feed_tcp_packets).
TcpPacketsWhole ==
    wire.mode = "tcp" =>
        /\ 0 \notin Range(channel)
        /\ arrived = {n \in Number : wire.pos >= End[n]}

\* After the stream is removed the reader's thread comes to an end, whatever
\* is missing from the ring, and unless it fails everything that was accepted
\* has gone through: the ring, its count, the unit under way and the finished
\* units are empty.
Drained ==
    /\ channel = <<>> /\ count = 0 /\ \A i \in Slots : queue[i] = 0
    /\ au.buf = <<>> /\ au.ready = <<>>

EndsAfterClose == closed ~> at = "failed" \/ (at = "ended" /\ Drained)
=============================================================================
