-------------------------- MODULE MediaNodeProofs --------------------------
(***************************************************************************)
(* Proofs about MediaNode: the counts of viewers agree, nobody who watches *)
(* is without a token, and a stream that is silent or unused is on its way *)
(* to be closed unless the node lost the event that says so or its timer.  *)
(***************************************************************************)
EXTENDS MediaNode, SequenceTheorems, FiniteSetTheorems, TLAPS

(***************************************************************************)
(* What makes the counts of a stream start at nothing: a stream is opened  *)
(* once, before it has a viewer or a recorder, and its recorder is started *)
(* once.                                                                   *)
(***************************************************************************)
NotListened ==
  \A s \in Stream : s \notin proc.listened =>
    /\ ~ meta[s].open /\ recorder[s] = None
    /\ \A t \in Token, o \in OutputEnum : tokens[<<s, t, o>>] = 0

\* A sequence of events starts the recorder of a stream at most once.
Once(q) ==
  \A i, j \in 1 .. Len(q) :
    q[i].kind = "Active" /\ q[j].kind = "Active" /\ q[i].s = q[j].s => i = j

ActiveOf ==
  \A e \in Range(queue) : e.kind = "Active" =>
    /\ e.s \in proc.listened /\ recorder[e.s] = None
    /\ meta[e.s].open => meta[e.s].kind = "LocalMp4"

RecorderOf ==
  \A s \in Stream : recorder[s] # None /\ meta[s].open => meta[s].kind = "LocalMp4"

OpenInv == NotListened /\ Once(queue) /\ ActiveOf /\ RecorderOf

Inv ==
  /\ TypeOK
  /\ OpenInv
  /\ CountMatchesTokens
  /\ TokenCoversViewers
  /\ InputCovered
  /\ IdleCovered

-----------------------------------------------------------------------------
(***************************************************************************)
(* What is in a sequence.                                                  *)
(***************************************************************************)
LEMMA InRange ==
  ASSUME NEW S, NEW q \in Seq(S)
  PROVE  /\ Range(q) \subseteq S
         /\ \A i \in 1 .. Len(q) : q[i] \in Range(q)
         /\ \A x \in Range(q) : \E i \in 1 .. Len(q) : q[i] = x
BY DEF Range

LEMMA Appended ==
  ASSUME NEW S, NEW q \in Seq(S), NEW x \in S
  PROVE  /\ Append(q, x) \in Seq(S) /\ Len(Append(q, x)) = Len(q) + 1
         /\ Range(Append(q, x)) = Range(q) \cup {x}
         /\ \A i \in 1 .. Len(q) : Append(q, x)[i] = q[i]
         /\ Append(q, x)[Len(q) + 1] = x
<1>1. <<x>> \in Seq(S) /\ Range(<<x>>) = {x}
  BY DEF Range
<1>2. Range(q \o <<x>>) = Range(q) \cup Range(<<x>>)
  BY <1>1, RangeConcatenation
<1>3. Append(q, x) = q \o <<x>>
  BY AppendIsConcat
<1> QED
  BY <1>1, <1>2, <1>3, AppendProperties

LEMMA Shortened ==
  ASSUME NEW S, NEW q \in Seq(S), q # <<>>
  PROVE  /\ Tail(q) \in Seq(S) /\ Head(q) \in S /\ Len(q) \in Nat \ {0}
         /\ Len(Tail(q)) = Len(q) - 1 /\ Head(q) = q[1]
         /\ \A i \in 1 .. Len(q) - 1 : Tail(q)[i] = q[i + 1]
         /\ Range(q) = Range(Tail(q)) \cup {Head(q)}
<1> DEFINE r == Tail(q)
<1>1. /\ r \in Seq(S) /\ Head(q) \in S /\ Len(q) \in Nat \ {0} /\ Len(r) = Len(q) - 1
      /\ Head(q) = q[1] /\ \A i \in 1 .. Len(q) - 1 : r[i] = q[i + 1]
  BY HeadTailProperties, EmptySeq
<1> HIDE DEF r
<1>2. ASSUME NEW x \in Range(q), x # Head(q) PROVE x \in Range(r)
  <2>1. PICK i \in 1 .. Len(q) : q[i] = x
    BY InRange
  <2>2. i - 1 \in 1 .. Len(r) /\ r[i - 1] = x
    BY <1>1, <1>2, <2>1
  <2> QED
    BY <1>1, <2>2, InRange
<1>3. ASSUME NEW x \in Range(r) PROVE x \in Range(q)
  <2>1. PICK i \in 1 .. Len(r) : r[i] = x
    BY <1>1, InRange
  <2>2. i + 1 \in 1 .. Len(q) /\ q[i + 1] = x
    BY <1>1, <2>1
  <2> QED
    BY <2>2, InRange
<1>4. Head(q) \in Range(q)
  BY <1>1, InRange
<1> QED
  BY <1>1, <1>2, <1>3, <1>4 DEF r

LEMMA OneRemoved ==
  ASSUME NEW S, NEW q \in Seq(S), NEW i \in 1 .. Len(q)
  PROVE  /\ RemoveAt(q, i) \in Seq(S) /\ Len(RemoveAt(q, i)) = Len(q) - 1
         /\ Range(q) = Range(RemoveAt(q, i)) \cup {q[i]}
<1> DEFINE w == RemoveAt(q, i)
<1> DEFINE a == SubSeq(q, 1, i - 1)  b == SubSeq(q, i + 1, Len(q))
<1>a. a \in Seq(S) /\ Len(a) = i - 1 /\ \A m \in 1 .. i - 1 : a[m] = q[m]
  BY SubSeqProperties
<1>b. b \in Seq(S) /\ Len(b) = Len(q) - i /\ \A m \in 1 .. Len(q) - i : b[m] = q[i + m]
  BY SubSeqProperties
<1>c. w = a \o b
  BY DEF RemoveAt
<1> HIDE DEF a, b, w
<1>1. w \in Seq(S) /\ Len(w) = Len(q) - 1
  BY <1>a, <1>b, <1>c
<1>2. \A m \in 1 .. Len(w) : w[m] = q[IF m < i THEN m ELSE m + 1]
  <2>1. SUFFICES ASSUME NEW m \in 1 .. Len(w) PROVE w[m] = q[IF m < i THEN m ELSE m + 1]
    OBVIOUS
  <2>2. Len(q) \in Nat /\ m \in 1 .. Len(a) + Len(b)
    BY <1>1, <1>a, <1>b
  <2>3. w[m] = IF m <= Len(a) THEN a[m] ELSE b[m - Len(a)]
    BY <1>a, <1>b, <1>c, <2>2, ConcatProperties
  <2>4. CASE m < i
    BY <1>a, <2>2, <2>3, <2>4
  <2>5. CASE ~ (m < i)
    <3>1. m - Len(a) \in 1 .. Len(q) - i /\ i + (m - Len(a)) = m + 1
      BY <1>a, <1>b, <2>2, <2>5
    <3> QED
      BY <1>a, <1>b, <2>2, <2>3, <2>5, <3>1
  <2> QED
    BY <2>4, <2>5
<1>3. \A m \in 1 .. Len(w) : w[m] \in Range(q)
  <2>1. SUFFICES ASSUME NEW m \in 1 .. Len(w) PROVE w[m] \in Range(q)
    OBVIOUS
  <2> DEFINE k == IF m < i THEN m ELSE m + 1
  <2>2. k \in 1 .. Len(q)
    BY <1>1
  <2>3. w[m] = q[k]
    BY <1>2
  <2> HIDE DEF k
  <2> QED
    BY <2>2, <2>3, InRange
<1>4. \A k \in 1 .. Len(q) : k # i => q[k] \in Range(w)
  <2>1. SUFFICES ASSUME NEW k \in 1 .. Len(q), k # i PROVE q[k] \in Range(w)
    OBVIOUS
  <2> DEFINE m == IF k < i THEN k ELSE k - 1
  <2>2. m \in 1 .. Len(w) /\ k = IF m < i THEN m ELSE m + 1
    BY <1>1, <2>1
  <2>3. w[m] = q[k]
    BY <1>2, <2>2
  <2> HIDE DEF m
  <2> QED
    BY <1>1, <2>2, <2>3, InRange
<1>5. Range(q) = Range(w) \cup {q[i]}
  <2>1. Range(w) \subseteq Range(q)
    BY <1>1, <1>3, InRange
  <2>2. q[i] \in Range(q)
    BY InRange
  <2>3. Range(q) \subseteq Range(w) \cup {q[i]}
    BY <1>4, InRange
  <2> QED
    BY <2>1, <2>2, <2>3
<1> QED
  BY <1>1, <1>5 DEF w

-----------------------------------------------------------------------------
(***************************************************************************)
(* Events and the channel.                                                 *)
(***************************************************************************)
LEMMA EventTyped ==
  ASSUME NEW k \in EventKind, k # "OnPlay", NEW s \in Stream
  PROVE  /\ Event(k, s) \in EventType
         /\ Event(k, s).kind = k /\ Event(k, s).s = s
BY DEF Event, EventType

LEMMA EventFields ==
  ASSUME NEW e \in EventType
  PROVE  /\ e.kind \in EventKind /\ e.s \in Stream /\ e.n \in Nat
         /\ e.kind = "OnPlay" => e.who \in Conn
         /\ e # NoEvent
<1>1. /\ e.kind \in EventKind /\ e.s \in Stream /\ e.n \in Nat
      /\ e.kind = "OnPlay" => e.who \in Conn
  BY DEF EventType
<1>2. NoEvent.kind = "none" /\ "none" \notin EventKind
  BY DEF NoEvent, Event, None, EventKind
<1> QED
  BY <1>1, <1>2

LEMMA Sent ==
  ASSUME NEW q \in Seq(EventType), NEW e \in EventType, Len(q) <= MaxQueue
  PROVE  /\ try_send(q, e) \in Seq(EventType) /\ Len(try_send(q, e)) <= MaxQueue
         /\ Range(q) \subseteq Range(try_send(q, e))
         /\ Range(try_send(q, e)) \subseteq Range(q) \cup {e}
         /\ refused(q, e) \subseteq EventType
         /\ e.kind \in {"InTimeout", "Idle"} => e \in Range(try_send(q, e)) \cup refused(q, e)
         /\ Once(q) /\ e.kind # "Active" => Once(try_send(q, e))
<1>0. MaxQueue \in Nat /\ Len(q) \in Nat
  BY MediaAssumption
<1>1. CASE full(q)
  BY <1>1 DEF try_send, refused, lost
<1>2. CASE ~ full(q)
  <2> DEFINE r == Append(q, e)
  <2>1. try_send(q, e) = r /\ refused(q, e) = {} /\ Len(q) < MaxQueue
    BY <1>0, <1>2 DEF try_send, refused, full
  <2>2. /\ r \in Seq(EventType) /\ Len(r) = Len(q) + 1 /\ Range(r) = Range(q) \cup {e}
        /\ \A i \in 1 .. Len(q) : r[i] = q[i]
        /\ r[Len(q) + 1] = e
    BY Appended
  <2> HIDE DEF r
  <2>3. Once(q) /\ e.kind # "Active" => Once(r)
    BY <1>0, <2>2 DEF Once
  <2> QED
    BY <1>0, <2>1, <2>2, <2>3
<1> QED
  BY <1>1, <1>2

LEMMA Emptied ==
  ASSUME NEW q \in Seq(EventType), q # <<>>, Once(q)
  PROVE  /\ Once(Tail(q))
         /\ Head(q).kind = "Active" =>
              \A e \in Range(Tail(q)) : e.kind = "Active" => e.s # Head(q).s
<1> DEFINE r == Tail(q)
<1>1. /\ r \in Seq(EventType) /\ Len(q) \in Nat \ {0} /\ Len(r) = Len(q) - 1 /\ Head(q) = q[1]
      /\ \A i \in 1 .. Len(q) - 1 : r[i] = q[i + 1]
  BY Shortened
<1> HIDE DEF r
<1>2. Once(r)
  <2>1. SUFFICES ASSUME NEW i \in 1 .. Len(r), NEW j \in 1 .. Len(r),
                        r[i].kind = "Active", r[j].kind = "Active", r[i].s = r[j].s
                 PROVE  i = j
    BY DEF Once
  <2>2. i + 1 \in 1 .. Len(q) /\ j + 1 \in 1 .. Len(q) /\ r[i] = q[i + 1] /\ r[j] = q[j + 1]
    BY <1>1
  <2> QED
    BY <2>1, <2>2 DEF Once
<1>3. ASSUME NEW e \in Range(r), e.kind = "Active", Head(q).kind = "Active"
      PROVE  e.s # Head(q).s
  <2>1. PICK i \in 1 .. Len(r) : r[i] = e
    BY <1>1, InRange
  <2>2. i + 1 \in 1 .. Len(q) /\ q[i + 1] = e /\ 1 \in 1 .. Len(q) /\ i + 1 # 1
    BY <1>1, <2>1
  <2> QED
    BY <1>1, <1>3, <2>2 DEF Once
<1> QED
  BY <1>2, <1>3 DEF r

-----------------------------------------------------------------------------
(***************************************************************************)
(* The metadata of a stream.                                               *)
(***************************************************************************)
MetaTyped == meta \in [Stream -> StreamMetadata]

\* What a step that is not about viewers leaves of a stream.
Same(m, n) ==
  n.open => /\ m.open /\ n.kind = m.kind /\ n.count = m.count /\ n.played = m.played
            /\ m.unarmed => n.unarmed

LEMMA NoStreamTyped ==
  /\ NoStream \in StreamMetadata /\ ~ NoStream.open
  /\ NoStream.count = [o \in OutputEnum |-> 0] /\ ~ NoStream.played
BY DEF NoStream, StreamMetadata, OutputEnum, Live

LEMMA Opened ==
  ASSUME NEW k \in OutputEnum
  PROVE  LET m == [NoStream EXCEPT !.open = TRUE, !.kind = k, !.layer = TRUE]
         IN  /\ m \in StreamMetadata /\ m.open /\ m.kind = k
             /\ m.count = [o \in OutputEnum |-> 0] /\ ~ m.played
BY NoStreamTyped DEF StreamMetadata

\* The input timer of s is armed or refused; the rest of its metadata is m.
LEMMA Arms ==
  ASSUME MetaTyped, NEW s \in Stream, NEW m \in StreamMetadata, arm(s, m)
  PROVE  /\ MetaTyped' /\ \A r \in Stream \ {s} : meta'[r] = meta[r]
         /\ meta'[s].open = m.open /\ meta'[s].kind = m.kind
         /\ meta'[s].count = m.count /\ meta'[s].played = m.played
         /\ s \in timers' \/ meta'[s].unarmed
         /\ timers' = timers \cup {s} \/ timers' = timers \ {s}
<1> DEFINE n == [m EXCEPT !.unarmed = TRUE]
<1>1. /\ n \in StreamMetadata /\ n.unarmed /\ n.open = m.open /\ n.kind = m.kind
      /\ n.count = m.count /\ n.played = m.played
  BY DEF StreamMetadata
<1>2. \/ timers' = timers \cup {s} /\ meta' = [meta EXCEPT ![s] = m]
      \/ timers' = timers \ {s} /\ meta' = [meta EXCEPT ![s] = n]
  BY DEF arm
<1> HIDE DEF n
<1> QED
  BY <1>1, <1>2 DEF MetaTyped

LEMMA MetaSame ==
  ASSUME NEW m \in StreamMetadata, NEW n \in Nat
  PROVE  /\ [m EXCEPT !.ext = TRUE] \in StreamMetadata /\ Same(m, [m EXCEPT !.ext = TRUE])
         /\ [m EXCEPT !.signed = TRUE] \in StreamMetadata /\ Same(m, [m EXCEPT !.signed = TRUE])
         /\ [m EXCEPT !.missed = n] \in StreamMetadata /\ Same(m, [m EXCEPT !.missed = n])
         /\ [m EXCEPT !.layer = FALSE] \in StreamMetadata /\ Same(m, [m EXCEPT !.layer = FALSE])
         /\ [m EXCEPT !.unarmed = TRUE] \in StreamMetadata /\ Same(m, [m EXCEPT !.unarmed = TRUE])
         /\ [m EXCEPT !.unarmed = TRUE].unarmed
         /\ Same(m, NoStream) /\ Same(m, m)
BY NoStreamTyped DEF StreamMetadata, Same

LEMMA Counted ==
  ASSUME NEW m \in StreamMetadata, NEW o \in OutputEnum, NEW n \in Nat
  PROVE  LET r == [m EXCEPT !.count[o] = n]
         IN  /\ r \in StreamMetadata /\ r.open = m.open /\ r.kind = m.kind /\ r.played = m.played
             /\ r.unarmed = m.unarmed
             /\ r.count[o] = n /\ \A p \in OutputEnum \ {o} : r.count[p] = m.count[p]
<1> DEFINE r == [m EXCEPT !.count[o] = n]
<1>1. m.count \in [OutputEnum -> Nat]
  BY DEF StreamMetadata
<1>2. r.count = [m.count EXCEPT ![o] = n]
  BY DEF StreamMetadata
<1>3. r.count \in [OutputEnum -> Nat]
  BY <1>1, <1>2
<1>4. /\ r \in StreamMetadata /\ r.open = m.open /\ r.kind = m.kind /\ r.played = m.played
      /\ r.unarmed = m.unarmed
  BY <1>1 DEF StreamMetadata
<1> QED
  BY <1>1, <1>2, <1>4

LEMMA PlayedMeta ==
  ASSUME NEW m \in StreamMetadata, NEW o \in OutputEnum
  PROVE  /\ m.count[o] \in Nat
         /\ Played(m, o) \in StreamMetadata /\ Played(m, o).open = m.open
         /\ Played(m, o).kind = m.kind /\ Played(m, o).played
         /\ Played(m, o).unarmed = m.unarmed
         /\ Played(m, o).count[o] = m.count[o] + 1
         /\ \A p \in OutputEnum \ {o} : Played(m, o).count[p] = m.count[p]
<1> DEFINE r == [m EXCEPT !.count[o] = m.count[o] + 1]
<1>1. m.count[o] \in Nat
  BY DEF StreamMetadata
<1>2. /\ r \in StreamMetadata /\ r.open = m.open /\ r.kind = m.kind /\ r.unarmed = m.unarmed
      /\ r.count[o] = m.count[o] + 1 /\ \A p \in OutputEnum \ {o} : r.count[p] = m.count[p]
  BY <1>1, Counted
<1>3. Played(m, o) = [r EXCEPT !.played = TRUE]
  BY DEF Played
<1> HIDE DEF r
<1>4. /\ [r EXCEPT !.played = TRUE] \in StreamMetadata /\ [r EXCEPT !.played = TRUE].open = r.open
      /\ [r EXCEPT !.played = TRUE].kind = r.kind /\ [r EXCEPT !.played = TRUE].played
      /\ [r EXCEPT !.played = TRUE].count = r.count
      /\ [r EXCEPT !.played = TRUE].unarmed = r.unarmed
  BY <1>2 DEF StreamMetadata
<1> QED
  BY <1>1, <1>2, <1>3, <1>4

LEMMA OutCount ==
  ASSUME NEW m \in StreamMetadata
  PROVE  /\ get_out_count(m) \in Nat
         /\ get_out_count(m) = 0 <=> \A o \in OutputEnum : m.count[o] = 0
<1>1. OutputEnum = {"HttpFlv", "DashFmp4", "DashMp4", "LocalMp4"}
  BY DEF OutputEnum, Live
<1>2. /\ m.count["HttpFlv"] \in Nat /\ m.count["DashFmp4"] \in Nat
      /\ m.count["DashMp4"] \in Nat /\ m.count["LocalMp4"] \in Nat
  BY <1>1 DEF StreamMetadata
<1> DEFINE a == m.count["HttpFlv"]  b == m.count["DashFmp4"]
           c == m.count["DashMp4"]  d == m.count["LocalMp4"]
<1>3. get_out_count(m) = a + b + c + d
  BY DEF get_out_count
<1>4. (\A o \in OutputEnum : m.count[o] = 0) <=> a = 0 /\ b = 0 /\ c = 0 /\ d = 0
  BY <1>1
<1> HIDE DEF a, b, c, d
<1>5. a \in Nat /\ b \in Nat /\ c \in Nat /\ d \in Nat
  BY <1>2 DEF a, b, c, d
<1> QED
  BY <1>3, <1>4, <1>5

\* One entry of a function is replaced.
LEMMA OneEntry ==
  ASSUME NEW A, NEW B, NEW f \in [A -> B], NEW a \in A, NEW b \in B
  PROVE  /\ [f EXCEPT ![a] = b] \in [A -> B] /\ [f EXCEPT ![a] = b][a] = b
         /\ \A x \in A \ {a} : [f EXCEPT ![a] = b][x] = f[x]
OBVIOUS

-----------------------------------------------------------------------------
(***************************************************************************)
(* What each step does to the metadata, and its type.                      *)
(***************************************************************************)
AllSame == \A s \in Stream : Same(meta[s], meta'[s])

LEMMA MetaUnchanged ==
  ASSUME MetaTyped, UNCHANGED meta
  PROVE  MetaTyped' /\ AllSame
BY DEF MetaTyped, AllSame, Same

LEMMA MetaReplaced ==
  ASSUME MetaTyped, NEW s \in Stream, NEW m \in StreamMetadata, Same(meta[s], m),
         meta' = [meta EXCEPT ![s] = m]
  PROVE  MetaTyped' /\ AllSame
BY DEF MetaTyped, AllSame, Same

LEMMA Removes ==
  ASSUME MetaTyped, NEW s \in Stream, remove(s)
  PROVE  MetaTyped' /\ AllSame /\ ~ meta'[s].open
<1>1. meta' = [meta EXCEPT ![s] = NoStream]
  BY DEF remove
<1>2. meta[s] \in StreamMetadata
  BY DEF MetaTyped
<1>3. MetaTyped' /\ AllSame
  BY <1>1, <1>2, NoStreamTyped, MetaSame, MetaReplaced
<1> QED
  BY <1>1, <1>3, NoStreamTyped DEF MetaTyped

LEMMA ClosesMuxer ==
  ASSUME MetaTyped, NEW s \in Stream, NEW o, close_muxer(s, o)
  PROVE  MetaTyped' /\ AllSame
<1>1. meta[s] \in StreamMetadata
  BY DEF MetaTyped
<1>2. \/ UNCHANGED meta
      \/ meta' = [meta EXCEPT ![s] = [meta[s] EXCEPT !.layer = FALSE]]
  BY DEF close_muxer
<1> QED
  BY <1>1, <1>2, MetaSame, MetaReplaced, MetaUnchanged

LEMMA Forwards ==
  ASSUME MetaTyped, NEW s \in Stream, NEW same, forward_packet(s, same)
  PROVE  MetaTyped' /\ AllSame
<1>1. meta[s] \in StreamMetadata
  BY DEF MetaTyped
<1> DEFINE m == [meta[s] EXCEPT !.signed = TRUE]
<1>2. m \in StreamMetadata /\ Same(meta[s], m)
  BY <1>1, MetaSame
<1>3. \/ UNCHANGED meta
      \/ meta' = [meta EXCEPT ![s] = [meta[s] EXCEPT !.missed = 0]]
      \/ meta' = [meta EXCEPT ![s] = [m EXCEPT !.missed = 0]]
  BY DEF forward_packet, MetaTyped
<1> HIDE DEF m
<1>4. [m EXCEPT !.missed = 0] \in StreamMetadata /\ Same(m, [m EXCEPT !.missed = 0])
  BY <1>2, MetaSame
<1>5. Same(meta[s], [m EXCEPT !.missed = 0])
  BY <1>2, <1>4 DEF Same
<1> QED
  BY <1>1, <1>3, <1>4, <1>5, MetaSame, MetaReplaced, MetaUnchanged

LEMMA TimesOut ==
  ASSUME MetaTyped, NEW s \in Stream, handle_rtp_in_timeout(s)
  PROVE  MetaTyped' /\ AllSame
<1>1. meta[s] \in StreamMetadata /\ meta[s].missed + 1 \in Nat
  BY DEF MetaTyped, StreamMetadata
<1> DEFINE m == [meta[s] EXCEPT !.missed = meta[s].missed + 1]
<1>2. \/ UNCHANGED meta
      \/ meta' = [meta EXCEPT ![s] = m]
      \/ meta' = [meta EXCEPT ![s] = [m EXCEPT !.unarmed = TRUE]]
  BY DEF handle_rtp_in_timeout, arm
<1>3. m \in StreamMetadata /\ Same(meta[s], m)
  BY <1>1, MetaSame
<1> HIDE DEF m
<1>4. [m EXCEPT !.unarmed = TRUE] \in StreamMetadata /\ Same(m, [m EXCEPT !.unarmed = TRUE])
  BY <1>3, MetaSame
<1>5. Same(meta[s], [m EXCEPT !.unarmed = TRUE])
  BY <1>3, <1>4 DEF Same
<1> QED
  BY <1>1, <1>2, <1>3, <1>4, <1>5, MetaReplaced, MetaUnchanged

-----------------------------------------------------------------------------
(***************************************************************************)
(* Types, in the parts the steps change together.                          *)
(***************************************************************************)
ViewTyped ==
  /\ timers \subseteq Stream
  /\ sessions \in [Session -> Nat] /\ tokens \in [Session -> Nat]
  /\ conns \in [Conn -> PlayRequest]
ChannelTyped ==
  /\ queue \in Seq(EventType) /\ Len(queue) <= MaxQueue
  /\ workers \in Seq(EventType) /\ Len(workers) <= MaxWorkers
  /\ held \in EventType \cup {NoEvent} /\ dropped \subseteq EventType
RestTyped ==
  /\ unknown \in [Stream -> 0..3]
  /\ recorder \in [Stream -> {None, "spawned", "running", "ending", "ended"}]
  /\ proc \in [queue: Seq(Stream), wait: Stream \cup {None},
               config: SUBSET Stream, listened: SUBSET Stream]
  /\ context \in [Stream -> {None, "muxing", "ended"}]
  /\ sending \in [Stream -> BOOLEAN]

LEMMA TypeParts == TypeOK <=> MetaTyped /\ ViewTyped /\ ChannelTyped /\ RestTyped
BY DEF TypeOK, MetaTyped, ViewTyped, ChannelTyped, RestTyped

LEMMA TypePartsNext == TypeOK' <=> MetaTyped' /\ ViewTyped' /\ ChannelTyped' /\ RestTyped'
BY DEF TypeOK, MetaTyped, ViewTyped, ChannelTyped, RestTyped

LEMMA ViewUntouched ==
  ASSUME ViewTyped, UNCHANGED <<timers, sessions, tokens, conns>>
  PROVE  ViewTyped'
BY DEF ViewTyped

LEMMA ChannelUntouched ==
  ASSUME ChannelTyped, UNCHANGED <<queue, held, workers, dropped>>
  PROVE  ChannelTyped'
BY DEF ChannelTyped

LEMMA RestUntouched ==
  ASSUME RestTyped, UNCHANGED <<unknown, recorder, proc, context, sending>>
  PROVE  RestTyped'
BY DEF RestTyped

LEMMA ChannelSends ==
  ASSUME ChannelTyped, NEW e \in EventType,
         queue' = queue \/ queue' = try_send(queue, e), UNCHANGED <<held, workers, dropped>>
  PROVE  ChannelTyped'
BY Sent DEF ChannelTyped

\* A request moves on.
LEMMA ConnMoves ==
  ASSUME NEW c \in Conn, conns \in [Conn -> PlayRequest], conns[c].pc # "idle",
         NEW pc \in {"asking", "sent", "granted", "watching", "done"},
         conns' = [conns EXCEPT ![c].pc = pc]
  PROVE  /\ conns' \in [Conn -> PlayRequest] /\ conns'[c].pc = pc /\ conns'[c].of = conns[c].of
         /\ \A d \in Conn \ {c} : conns'[d] = conns[d]
         /\ conns[c].of \in Session
<1> DEFINE r == [conns[c] EXCEPT !.pc = pc]
<1>1. r \in PlayRequest /\ r.pc = pc /\ r.of = conns[c].of /\ conns[c].of \in Session
  BY DEF PlayRequest
<1>2. conns' = [conns EXCEPT ![c] = r]
  OBVIOUS
<1> HIDE DEF r
<1> QED
  BY <1>1, <1>2

LEMMA ConnSet ==
  ASSUME NEW c \in Conn, conns \in [Conn -> PlayRequest], NEW x \in Session,
         NEW pc \in {"asking", "sent", "granted", "watching", "done"},
         conns' = [conns EXCEPT ![c] = [pc |-> pc, of |-> x]]
  PROVE  /\ conns' \in [Conn -> PlayRequest] /\ conns'[c].pc = pc /\ conns'[c].of = x
         /\ \A d \in Conn \ {c} : conns'[d] = conns[d]
<1> DEFINE r == [pc |-> pc, of |-> x]
<1>1. r \in PlayRequest /\ r.pc = pc /\ r.of = x
  BY DEF PlayRequest
<1> HIDE DEF r
<1>2. conns' = [conns EXCEPT ![c] = r]
  BY DEF r
<1> QED
  BY <1>1, <1>2

LEMMA SessionParts ==
  ASSUME NEW x \in Session
  PROVE  /\ x[1] \in Stream /\ x[2] \in Token /\ x[3] \in OutputEnum
         /\ x = <<x[1], x[2], x[3]>>
BY DEF Session

LEMMA SessionMade ==
  ASSUME NEW s \in Stream, NEW t \in Token, NEW o \in OutputEnum
  PROVE  <<s, t, o>> \in Session
BY DEF Session

-----------------------------------------------------------------------------
(***************************************************************************)
(* Opening and the RTP input.                                              *)
(***************************************************************************)
LEMMA ListenTyped ==
  ASSUME TypeOK, NEW s \in Stream, NEW k \in Kinds, listen_media(s, k)
  PROVE  TypeOK'
<1>1. MetaTyped /\ ViewTyped /\ ChannelTyped /\ RestTyped
  BY TypeParts
<1>2. k \in OutputEnum
  BY MediaAssumption DEF OutputEnum, Live
<1>3. MetaTyped' /\ (timers' = timers \cup {s} \/ timers' = timers \ {s})
  BY <1>1, <1>2, Opened, Arms DEF listen_media
<1>4. ViewTyped'
  BY <1>1, <1>3 DEF listen_media, ViewTyped
<1>5. ChannelTyped'
  <2>1. Event("Active", s) \in EventType
    BY EventTyped DEF EventKind
  <2> QED
    BY <1>1, <2>1, ChannelSends DEF listen_media
<1>6. RestTyped'
  <2>1. /\ proc.queue \in Seq(Stream) /\ proc.listened \subseteq Stream
        /\ proc.wait \in Stream \cup {None} /\ proc.config \subseteq Stream
    BY <1>1 DEF RestTyped
  <2>2. Append(proc.queue, s) \in Seq(Stream)
    BY <2>1, Appended
  <2>3. proc' = [proc EXCEPT !.listened = proc.listened \cup {s},
                             !.queue = IF Len(proc.queue) < MaxProc THEN Append(proc.queue, s)
                                       ELSE proc.queue]
    BY DEF listen_media
  <2>4. proc' \in [queue: Seq(Stream), wait: Stream \cup {None},
                   config: SUBSET Stream, listened: SUBSET Stream]
    BY <1>1, <2>1, <2>2, <2>3 DEF RestTyped
  <2> QED
    BY <1>1, <2>4 DEF listen_media, RestTyped
<1> QED
  BY <1>3, <1>4, <1>5, <1>6, TypePartsNext

LEMMA ExtTyped ==
  ASSUME TypeOK, NEW s \in Stream, init_media_ext(s)
  PROVE  TypeOK' /\ AllSame
<1>1. MetaTyped /\ ViewTyped /\ ChannelTyped /\ RestTyped
  BY TypeParts
<1>2. meta[s] \in StreamMetadata /\ meta' = [meta EXCEPT ![s] = [meta[s] EXCEPT !.ext = TRUE]]
  BY <1>1 DEF init_media_ext, MetaTyped
<1>3. MetaTyped' /\ AllSame
  BY <1>1, <1>2, MetaSame, MetaReplaced
<1> QED
  BY <1>1, <1>3, ViewUntouched, ChannelUntouched, RestUntouched, TypePartsNext
  DEF init_media_ext, eventVars, mediaVars

LEMMA ObservedTyped ==
  ASSUME ChannelTyped, RestTyped, NEW s \in Stream, observe_unknown_rtp(s),
         UNCHANGED <<held, workers, dropped, recorder, proc, context, sending>>
  PROVE  ChannelTyped' /\ RestTyped'
<1>1. Event("Unknown", s) \in EventType
  BY EventTyped DEF EventKind
<1>2. ChannelTyped'
  BY <1>1, ChannelSends DEF observe_unknown_rtp
<1>3. RestTyped'
  BY DEF RestTyped, observe_unknown_rtp
<1> QED
  BY <1>2, <1>3

LEMMA RegisterEvent ==
  ASSUME NEW s \in Stream, NEW same \in 0 .. 1
  PROVE  /\ [Event("InnerRegister", s) EXCEPT !.n = same] \in EventType
         /\ [Event("InnerRegister", s) EXCEPT !.n = same].kind = "InnerRegister"
BY DEF Event, EventType, EventKind

LEMMA ForwardTyped ==
  ASSUME TypeOK, NEW s \in Stream, NEW same \in 0 .. 1, forward_packet(s, same)
  PROVE  TypeOK' /\ AllSame
<1>1. MetaTyped /\ ViewTyped /\ ChannelTyped /\ RestTyped
  BY TypeParts
<1>2. MetaTyped' /\ AllSame
  BY <1>1, Forwards
<1>3. ViewTyped'
  BY <1>1, ViewUntouched DEF forward_packet
<1>4. UNCHANGED <<held, workers, dropped, recorder, proc, context, sending>>
  BY DEF forward_packet, mediaVars
<1>5. CASE observe_unknown_rtp(s)
  BY <1>1, <1>2, <1>3, <1>4, <1>5, ObservedTyped, TypePartsNext
<1>6. CASE ~ observe_unknown_rtp(s)
  <2> DEFINE e == [Event("InnerRegister", s) EXCEPT !.n = same]
  <2>1. UNCHANGED unknown /\ (queue' = queue \/ (~ full(queue) /\ queue' = Append(queue, e)))
    BY <1>6 DEF forward_packet
  <2>2. e \in EventType
    BY RegisterEvent
  <2> HIDE DEF e
  <2>3. queue' = queue \/ queue' = try_send(queue, e)
    BY <2>1 DEF try_send
  <2>4. ChannelTyped'
    BY <1>1, <1>4, <2>2, <2>3, ChannelSends
  <2>5. RestTyped'
    BY <1>1, <1>4, <2>1, RestUntouched
  <2> QED
    BY <1>2, <1>3, <2>4, <2>5, TypePartsNext
<1> QED
  BY <1>5, <1>6

LEMMA StopsTyped ==
  ASSUME TypeOK, NEW s \in Stream, DeviceStops(s)
  PROVE  TypeOK' /\ AllSame
<1>1. MetaTyped /\ ViewTyped /\ ChannelTyped /\ RestTyped
  BY TypeParts
<1>2. RestTyped'
  BY <1>1 DEF DeviceStops, RestTyped, mediaVars
<1> QED
  BY <1>1, <1>2, MetaUnchanged, ViewUntouched, ChannelUntouched, TypePartsNext
  DEF DeviceStops, registerVars, eventVars

-----------------------------------------------------------------------------
(***************************************************************************)
(* Playing.                                                                *)
(***************************************************************************)
LEMMA OneMore ==
  ASSUME NEW f \in [Session -> Nat], NEW x \in Session
  PROVE  [f EXCEPT ![x] = f[x] + 1] \in [Session -> Nat]
OBVIOUS

\* A viewer uses an output of a stream once more.
Uses1(x) ==
  /\ meta' = [meta EXCEPT ![x[1]] = Played(meta[x[1]], x[3])]
  /\ tokens' = [tokens EXCEPT ![x] = tokens[x] + 1]

LEMMA UsedTyped ==
  ASSUME MetaTyped, tokens \in [Session -> Nat], NEW x \in Session, Uses1(x)
  PROVE  MetaTyped' /\ tokens' \in [Session -> Nat]
<1>1. x[1] \in Stream /\ x[3] \in OutputEnum /\ meta[x[1]] \in StreamMetadata /\ tokens[x] + 1 \in Nat
  BY SessionParts DEF MetaTyped
<1>2. Played(meta[x[1]], x[3]) \in StreamMetadata
  BY <1>1, PlayedMeta
<1> QED
  BY <1>1, <1>2 DEF Uses1, MetaTyped

LEMMA Admitted ==
  ASSUME MetaTyped, ViewTyped, NEW c \in Conn, NEW x \in Session, Admit(c, x)
  PROVE  /\ \/ meta[x[1]].open /\ Uses1(x)
            \/ ~ meta[x[1]].open /\ UNCHANGED <<meta, tokens>> /\ conns'[c].pc = "done"
         /\ conns'[c].pc \in {"watching", "done"} /\ conns'[c].of = x
         /\ \A d \in Conn \ {c} : conns'[d] = conns[d]
         /\ MetaTyped' /\ tokens' \in [Session -> Nat] /\ conns' \in [Conn -> PlayRequest]
<1>1. PICK pc \in {"watching", "done"} :
           /\ conns' = [conns EXCEPT ![c] = [pc |-> pc, of |-> x]]
           /\ ~ meta[x[1]].open => pc = "done"
  BY DEF Admit, has_muxer
<1>2. /\ conns' \in [Conn -> PlayRequest] /\ conns'[c].pc = pc /\ conns'[c].of = x
      /\ \A d \in Conn \ {c} : conns'[d] = conns[d]
  BY <1>1, ConnSet DEF ViewTyped
<1>3. CASE meta[x[1]].open
  <2>1. Uses1(x)
    BY <1>3 DEF Admit, AddToken, Uses1
  <2> QED
    BY <1>1, <1>2, <1>3, <2>1, UsedTyped DEF ViewTyped
<1>4. CASE ~ meta[x[1]].open
  <2>1. UNCHANGED <<meta, tokens>>
    BY <1>4 DEF Admit
  <2> QED
    BY <1>1, <1>2, <1>4, <2>1 DEF ViewTyped, MetaTyped
<1> QED
  BY <1>3, <1>4

\* A request of play is admitted or asks.
LEMMA PlayCases ==
  ASSUME NEW c \in Conn, NEW s \in Stream, NEW t \in Token, NEW o \in Requests, play(c, s, t, o)
  PROVE  /\ <<s, t, o>> \in Session /\ conns[c].pc = "idle"
         /\ UNCHANGED <<timers, sessions, queue, held, workers, dropped, unknown, recorder, proc,
                        context, sending>>
         /\ \/ Admit(c, <<s, t, o>>)
            \/ /\ conns' = [conns EXCEPT ![c] = [pc |-> "asking", of |-> <<s, t, o>>]]
               /\ UNCHANGED <<meta, tokens>>
<1>1. o \in OutputEnum
  BY MediaAssumption DEF OutputEnum, Live
<1>2. <<s, t, o>> \in Session
  BY <1>1, SessionMade
<1> QED
  BY <1>2 DEF play, eventVars, mediaVars

LEMMA PlayTyped ==
  ASSUME TypeOK, NEW c \in Conn, NEW s \in Stream, NEW t \in Token, NEW o \in Requests,
         play(c, s, t, o)
  PROVE  TypeOK'
<1>1. MetaTyped /\ ViewTyped /\ ChannelTyped /\ RestTyped
  BY TypeParts
<1> DEFINE x == <<s, t, o>>
<1>2. /\ x \in Session
      /\ UNCHANGED <<timers, sessions, queue, held, workers, dropped, unknown, recorder, proc,
                     context, sending>>
      /\ \/ Admit(c, x)
         \/ /\ conns' = [conns EXCEPT ![c] = [pc |-> "asking", of |-> x]]
            /\ UNCHANGED <<meta, tokens>>
  BY PlayCases
<1> HIDE DEF x
<1>3. ChannelTyped' /\ RestTyped'
  BY <1>1, <1>2, ChannelUntouched, RestUntouched
<1>4. CASE Admit(c, x)
  <2>1. MetaTyped' /\ tokens' \in [Session -> Nat] /\ conns' \in [Conn -> PlayRequest]
    BY <1>1, <1>2, <1>4, Admitted
  <2>2. ViewTyped'
    BY <1>1, <1>2, <2>1 DEF ViewTyped
  <2> QED
    BY <1>3, <2>1, <2>2, TypePartsNext
<1>5. CASE /\ conns' = [conns EXCEPT ![c] = [pc |-> "asking", of |-> x]]
           /\ UNCHANGED <<meta, tokens>>
  <2>1. conns' \in [Conn -> PlayRequest]
    BY <1>1, <1>2, <1>5, ConnSet DEF ViewTyped
  <2>2. ViewTyped' /\ MetaTyped'
    BY <1>1, <1>2, <1>5, <2>1 DEF ViewTyped, MetaTyped
  <2> QED
    BY <1>3, <2>2, TypePartsNext
<1> QED
  BY <1>2, <1>4, <1>5

LEMMA AskTyped ==
  ASSUME TypeOK, NEW c \in Conn, ask_on_play(c)
  PROVE  TypeOK' /\ AllSame
<1>1. MetaTyped /\ ViewTyped /\ ChannelTyped /\ RestTyped
  BY TypeParts
<1> DEFINE e == [Event("OnPlay", conns[c].of[1]) EXCEPT !.who = c]
<1>2. /\ conns[c].pc = "asking" /\ ~ full(queue) /\ queue' = Append(queue, e)
      /\ conns' = [conns EXCEPT ![c].pc = "sent"]
      /\ UNCHANGED <<meta, timers, sessions, tokens, held, workers, dropped, unknown, recorder,
                     proc, context, sending>>
  BY DEF ask_on_play, registerVars, mediaVars
<1>3. conns' \in [Conn -> PlayRequest] /\ conns[c].of \in Session
  BY <1>1, <1>2, ConnMoves DEF ViewTyped
<1>4. e \in EventType
  <2>1. conns[c].of[1] \in Stream
    BY <1>3, SessionParts
  <2> QED
    BY <2>1 DEF Event, EventType, EventKind
<1> HIDE DEF e
<1>5. ChannelTyped'
  BY <1>1, <1>2, <1>4, ChannelSends DEF try_send
<1>6. ViewTyped'
  BY <1>1, <1>2, <1>3 DEF ViewTyped
<1> QED
  BY <1>1, <1>2, <1>5, <1>6, MetaUnchanged, RestUntouched, TypePartsNext

LEMMA GrantedTyped ==
  ASSUME TypeOK, NEW c \in Conn, play_granted(c)
  PROVE  TypeOK' /\ conns[c].of \in Session /\ conns[c].pc = "granted"
<1>1. MetaTyped /\ ViewTyped /\ ChannelTyped /\ RestTyped
  BY TypeParts
<1>2. /\ conns[c].pc = "granted" /\ Admit(c, conns[c].of)
      /\ UNCHANGED <<timers, sessions, queue, held, workers, dropped, unknown, recorder, proc,
                     context, sending>>
  BY DEF play_granted, eventVars, mediaVars
<1>3. conns[c].of \in Session
  BY <1>1, <1>2 DEF ViewTyped, PlayRequest
<1>4. MetaTyped' /\ tokens' \in [Session -> Nat] /\ conns' \in [Conn -> PlayRequest]
  BY <1>1, <1>2, <1>3, Admitted
<1>5. ViewTyped'
  BY <1>1, <1>2, <1>4 DEF ViewTyped
<1> QED
  BY <1>1, <1>2, <1>3, <1>4, <1>5, ChannelUntouched, RestUntouched, TypePartsNext

\* A segment is a use and a session.
LEMMA SegmentFacts ==
  ASSUME TypeOK, NEW c \in Conn, NEW s \in Stream, NEW t \in Token, segment(c, s, t)
  PROVE  LET x == <<s, t, "DashMp4">>
         IN  /\ x \in Session /\ meta[s].open /\ Uses1(x)
             /\ conns[c].pc = "idle" /\ conns'[c].pc = "done"
             /\ \A d \in Conn \ {c} : conns'[d] = conns[d]
             /\ conns' \in [Conn -> PlayRequest]
             /\ \/ sessions' = [sessions EXCEPT ![x] = sessions[x] + 1]
                \/ sessions' = sessions
             /\ UNCHANGED <<timers, queue, held, workers, dropped, unknown, recorder, proc,
                            context, sending>>
<1> DEFINE x == <<s, t, "DashMp4">>
<1>1. x \in Session
  BY SessionMade DEF OutputEnum, Live
<1>2. x[1] = s /\ x[2] = t /\ x[3] = "DashMp4"
  OBVIOUS
<1>3. /\ conns[c].pc = "idle" /\ meta[s].open
      /\ meta' = [meta EXCEPT ![s] = Played(meta[s], "DashMp4")] /\ tokens' = AddToken(x)
      /\ listen_output_timeout(x)
      /\ conns' = [conns EXCEPT ![c] = [pc |-> "done", of |-> x]]
      /\ UNCHANGED <<timers, queue, held, workers, dropped, unknown, recorder, proc,
                     context, sending>>
  BY DEF segment, eventVars, mediaVars
<1> HIDE DEF x
<1>4. /\ Uses1(x)
      /\ sessions' = [sessions EXCEPT ![x] = sessions[x] + 1] \/ sessions' = sessions
  BY <1>2, <1>3 DEF Uses1, AddToken, listen_output_timeout
<1>5. /\ conns' \in [Conn -> PlayRequest] /\ conns'[c].pc = "done"
      /\ \A d \in Conn \ {c} : conns'[d] = conns[d]
  BY <1>1, <1>3, ConnSet DEF TypeOK
<1> QED
  BY <1>1, <1>3, <1>4, <1>5 DEF x

LEMMA SegmentTyped ==
  ASSUME TypeOK, NEW c \in Conn, NEW s \in Stream, NEW t \in Token, segment(c, s, t)
  PROVE  TypeOK'
<1>1. MetaTyped /\ ViewTyped /\ ChannelTyped /\ RestTyped
  BY TypeParts
<1> DEFINE x == <<s, t, "DashMp4">>
<1>2. /\ x \in Session /\ Uses1(x) /\ conns' \in [Conn -> PlayRequest]
      /\ sessions' = [sessions EXCEPT ![x] = sessions[x] + 1] \/ sessions' = sessions
      /\ UNCHANGED <<timers, queue, held, workers, dropped, unknown, recorder, proc,
                     context, sending>>
  BY SegmentFacts
<1> HIDE DEF x
<1>3. MetaTyped' /\ tokens' \in [Session -> Nat]
  BY <1>1, <1>2, UsedTyped DEF ViewTyped
<1>a. sessions' \in [Session -> Nat]
  BY <1>1, <1>2, OneMore DEF ViewTyped
<1>4. ViewTyped'
  BY <1>1, <1>2, <1>3, <1>a DEF ViewTyped
<1> QED
  BY <1>1, <1>2, <1>3, <1>4, ChannelUntouched, RestUntouched, TypePartsNext

LEMMA DisconnectFacts ==
  ASSUME TypeOK, NEW c \in Conn, disconnect(c)
  PROVE  /\ conns[c].of \in Session /\ conns[c].pc = "watching"
         /\ \/ sessions' = [sessions EXCEPT ![conns[c].of] = sessions[conns[c].of] + 1]
            \/ sessions' = sessions
         /\ conns'[c].pc = "done" /\ \A d \in Conn \ {c} : conns'[d] = conns[d]
         /\ UNCHANGED <<meta, timers, tokens, queue, held, workers, dropped, unknown, recorder,
                        proc, context, sending>>
         /\ TypeOK' /\ AllSame
<1>1. MetaTyped /\ ViewTyped /\ ChannelTyped /\ RestTyped
  BY TypeParts
<1>2. /\ conns[c].pc = "watching" /\ conns' = [conns EXCEPT ![c].pc = "done"]
      /\ listen_output_timeout(conns[c].of)
      /\ UNCHANGED <<meta, timers, tokens, queue, held, workers, dropped, unknown, recorder,
                     proc, context, sending>>
  BY DEF disconnect, eventVars, mediaVars
<1>3. /\ conns' \in [Conn -> PlayRequest] /\ conns'[c].pc = "done"
      /\ \A d \in Conn \ {c} : conns'[d] = conns[d]
  BY <1>1, <1>2, ConnMoves DEF ViewTyped
<1>4. conns[c].of \in Session
  BY <1>1, <1>2 DEF ViewTyped, PlayRequest
<1>5. \/ sessions' = [sessions EXCEPT ![conns[c].of] = sessions[conns[c].of] + 1]
      \/ sessions' = sessions
  BY <1>2 DEF listen_output_timeout
<1>a. sessions' \in [Session -> Nat]
  BY <1>1, <1>4, <1>5, OneMore DEF ViewTyped
<1>6. ViewTyped'
  BY <1>1, <1>2, <1>3, <1>a DEF ViewTyped
<1>7. MetaTyped' /\ AllSame /\ ChannelTyped' /\ RestTyped'
  BY <1>1, <1>2, MetaUnchanged, ChannelUntouched, RestUntouched
<1> QED
  BY <1>2, <1>3, <1>4, <1>5, <1>6, <1>7, TypePartsNext

LEMMA AbandonTyped ==
  ASSUME TypeOK, NEW c \in Conn, abandon(c)
  PROVE  /\ conns[c].pc # "watching"
         /\ conns'[c].pc = "done" /\ \A d \in Conn \ {c} : conns'[d] = conns[d]
         /\ UNCHANGED <<meta, timers, sessions, tokens, queue, held, workers, dropped, unknown,
                        recorder, proc, context, sending>>
         /\ TypeOK' /\ AllSame
<1>1. MetaTyped /\ ViewTyped /\ ChannelTyped /\ RestTyped
  BY TypeParts
<1>2. /\ conns[c].pc \in {"asking", "sent", "granted"} /\ conns' = [conns EXCEPT ![c].pc = "done"]
      /\ UNCHANGED <<meta, timers, sessions, tokens, queue, held, workers, dropped, unknown,
                     recorder, proc, context, sending>>
  BY DEF abandon, registerVars, eventVars, mediaVars
<1>3. /\ conns' \in [Conn -> PlayRequest] /\ conns'[c].pc = "done"
      /\ \A d \in Conn \ {c} : conns'[d] = conns[d]
  BY <1>1, <1>2, ConnMoves DEF ViewTyped
<1>4. ViewTyped'
  BY <1>1, <1>2, <1>3 DEF ViewTyped
<1>5. MetaTyped' /\ AllSame /\ ChannelTyped' /\ RestTyped'
  BY <1>1, <1>2, MetaUnchanged, ChannelUntouched, RestUntouched
<1> QED
  BY <1>2, <1>3, <1>4, <1>5, TypePartsNext

-----------------------------------------------------------------------------
(***************************************************************************)
(* The timer branch.  It keeps every event that closes a stream, in the    *)
(* channel or among the events that were lost.                             *)
(***************************************************************************)
Known == Pending \cup dropped
Closer(e) == e.kind \in {"InTimeout", "Idle"}
Kept == \A e \in Known : Closer(e) => e \in Known'
SameWatchers ==
  \A c \in Conn : /\ conns[c].pc = "watching" => conns'[c] = conns[c]
                  /\ conns'[c].pc = "watching" => conns[c].pc = "watching"

LEMMA TimerFacts ==
  ASSUME ChannelTyped, conns \in [Conn -> PlayRequest],
         NEW q \in Seq(EventType), Len(q) <= MaxQueue, Range(queue) \subseteq Range(q),
         NEW unsent \in SUBSET EventType, TimerBranch(q, unsent)
  PROVE  /\ ChannelTyped' /\ conns' \in [Conn -> PlayRequest] /\ SameWatchers /\ Kept
         /\ queue' = q /\ unsent \subseteq dropped'
<1>1. /\ queue' = q /\ dropped' = dropped \cup unsent \cup lost(held) /\ held' = NoEvent
      /\ conns' = IF held.kind = "OnPlay" /\ conns[held.who].pc = "sent"
                  THEN [conns EXCEPT ![held.who].pc = "done"] ELSE conns
      /\ UNCHANGED workers
  BY DEF TimerBranch
<1>2. held = NoEvent \/ held \in EventType
  BY DEF ChannelTyped
<1>3. lost(held) \subseteq EventType
  <2>1. held = NoEvent => lost(held) = {}
    BY DEF NoEvent, Event, None, lost
  <2>2. lost(held) \subseteq {held}
    BY DEF lost
  <2> QED
    BY <1>2, <2>1, <2>2
<1>4. ChannelTyped'
  BY <1>1, <1>3 DEF ChannelTyped
<1>5. conns' \in [Conn -> PlayRequest] /\ SameWatchers
  <2>1. CASE held.kind = "OnPlay" /\ conns[held.who].pc = "sent"
    <3>1. held \in EventType
      BY <1>2, <2>1 DEF NoEvent, Event, None
    <3>2. held.who \in Conn
      BY <2>1, <3>1, EventFields
    <3>3. conns' = [conns EXCEPT ![held.who].pc = "done"]
      BY <1>1, <2>1
    <3>4. /\ conns' \in [Conn -> PlayRequest] /\ conns'[held.who].pc = "done"
          /\ \A d \in Conn \ {held.who} : conns'[d] = conns[d]
      BY <2>1, <3>2, <3>3, ConnMoves
    <3>5. SameWatchers
      BY <2>1, <3>2, <3>4 DEF SameWatchers
    <3> QED
      BY <3>4, <3>5
  <2>2. CASE ~ (held.kind = "OnPlay" /\ conns[held.who].pc = "sent")
    BY <1>1, <2>2 DEF SameWatchers
  <2> QED
    BY <2>1, <2>2
<1>6. Kept
  <2>1. SUFFICES ASSUME NEW e \in Known, Closer(e) PROVE e \in Known'
    BY DEF Kept
  <2>2. e \in Range(queue) \/ e \in Range(workers) \/ e = held \/ e \in dropped
    BY DEF Known, Pending
  <2>3. e = held => e \in lost(held)
    BY <2>1 DEF lost, Closer
  <2>4. e \in Range(q) \/ e \in Range(workers) \/ e \in dropped'
    BY <1>1, <2>2, <2>3
  <2> QED
    BY <1>1, <2>4 DEF Known, Pending
<1> QED
  BY <1>1, <1>4, <1>5, <1>6

LEMMA InputTimer ==
  ASSUME TypeOK, NEW s \in Stream, handle_rtp_in_timeout(s)
  PROVE  /\ TypeOK' /\ AllSame /\ SameWatchers /\ Kept
         /\ UNCHANGED <<sessions, tokens, unknown, recorder, proc, context, sending>>
         /\ \/ timers' = timers
            \/ /\ timers' = timers \ {s}
               /\ meta'[s].open => Event("InTimeout", s) \in Known' \/ meta'[s].unarmed
         /\ Once(queue) => Once(queue')
         /\ Range(queue') \subseteq Range(queue) \cup {Event("InTimeout", s)}
<1>1. MetaTyped /\ ViewTyped /\ ChannelTyped /\ RestTyped
  BY TypeParts
<1> DEFINE e == Event("InTimeout", s)
<1>2. e \in EventType /\ e.kind = "InTimeout"
  BY EventTyped DEF EventKind
<1>3. /\ UNCHANGED <<sessions, tokens, unknown, recorder, proc, context, sending>>
      /\ s \in timers
      /\ \/ timers' = timers /\ TimerBranch(queue, {})
         \/ timers' = timers \ {s} /\ meta'[s].unarmed /\ TimerBranch(queue, {})
         \/ ~ meta[s].open /\ timers' = timers \ {s} /\ UNCHANGED meta /\ TimerBranch(queue, {})
         \/ timers' = timers \ {s} /\ TimerBranch(try_send(queue, e), refused(queue, e))
  <2>1. /\ UNCHANGED <<sessions, tokens, unknown, recorder, proc, context, sending>>
        /\ s \in timers
        /\ \/ /\ arm(s, [meta[s] EXCEPT !.missed = @ + 1])
              /\ TimerBranch(queue, {})
           \/ ~ meta[s].open /\ timers' = timers \ {s} /\ UNCHANGED meta /\ TimerBranch(queue, {})
           \/ timers' = timers \ {s} /\ TimerBranch(try_send(queue, e), refused(queue, e))
    BY DEF handle_rtp_in_timeout, mediaVars
  <2>2. [meta[s] EXCEPT !.missed = meta[s].missed + 1] \in StreamMetadata
    BY <1>1 DEF MetaTyped, StreamMetadata
  <2>3. ASSUME arm(s, [meta[s] EXCEPT !.missed = meta[s].missed + 1])
        PROVE  timers' = timers \/ (timers' = timers \ {s} /\ meta'[s].unarmed)
    BY <1>1, <2>1, <2>2, <2>3, Arms
  <2> HIDE DEF e
  <2> QED
    BY <2>1, <2>3
<1> HIDE DEF e
<1>4. /\ queue \in Seq(EventType) /\ Len(queue) <= MaxQueue /\ conns \in [Conn -> PlayRequest]
      /\ {} \in SUBSET EventType
  BY <1>1 DEF ChannelTyped, ViewTyped
<1> DEFINE q == try_send(queue, e)  u == refused(queue, e)
<1>5. /\ q \in Seq(EventType) /\ Len(q) <= MaxQueue /\ Range(queue) \subseteq Range(q)
      /\ Range(q) \subseteq Range(queue) \cup {e} /\ u \in SUBSET EventType
      /\ e \in Range(q) \cup u /\ (Once(queue) => Once(q))
  BY <1>2, <1>4, Sent
<1> HIDE DEF q, u
<1>6. \/ TimerBranch(queue, {}) \/ TimerBranch(q, u)
  BY <1>3 DEF q, u
<1>7. /\ ChannelTyped' /\ conns' \in [Conn -> PlayRequest] /\ SameWatchers /\ Kept
      /\ queue' \in {queue, q}
  <2>1. CASE TimerBranch(queue, {})
    BY <1>1, <1>4, <2>1, TimerFacts
  <2>2. CASE TimerBranch(q, u)
    BY <1>1, <1>4, <1>5, <2>2, TimerFacts
  <2> QED
    BY <1>6, <2>1, <2>2
<1>8. timers' \subseteq timers
  BY <1>3
<1>9. TypeOK' /\ AllSame
  <2>1. MetaTyped' /\ AllSame
    BY <1>1, TimesOut
  <2>2. ViewTyped'
    BY <1>1, <1>3, <1>7, <1>8 DEF ViewTyped
  <2>3. RestTyped'
    BY <1>1, <1>3, RestUntouched
  <2> QED
    BY <1>7, <2>1, <2>2, <2>3, TypePartsNext
<1>10. TimerBranch(q, u) => e \in Known'
  <2>1. SUFFICES ASSUME TimerBranch(q, u) PROVE e \in Known'
    OBVIOUS
  <2>2. queue' = q /\ u \subseteq dropped'
    BY <1>1, <1>4, <1>5, <2>1, TimerFacts
  <2> QED
    BY <1>5, <2>2 DEF Known, Pending
<1>11. \/ timers' = timers
       \/ /\ timers' = timers \ {s}
          /\ meta'[s].open => e \in Known' \/ meta'[s].unarmed
  BY <1>3, <1>10 DEF q, u
<1> QED
  BY <1>3, <1>5, <1>7, <1>9, <1>11 DEF e

LEMMA UnknownExpires ==
  ASSUME TypeOK, NEW s \in Stream, expire_unknown_stream(s)
  PROVE  /\ TypeOK' /\ AllSame /\ SameWatchers /\ Kept
         /\ UNCHANGED <<meta, timers, sessions, tokens, recorder, proc, queue>>
<1>1. MetaTyped /\ ViewTyped /\ ChannelTyped /\ RestTyped
  BY TypeParts
<1>2. /\ UNCHANGED <<meta, timers, sessions, tokens, recorder, proc, context, sending>>
      /\ unknown' \in {unknown, [unknown EXCEPT ![s] = 0]}
      /\ TimerBranch(queue, {})
  BY DEF expire_unknown_stream, registerVars, mediaVars
<1>3. ChannelTyped' /\ conns' \in [Conn -> PlayRequest] /\ SameWatchers /\ Kept /\ queue' = queue
  <2>1. /\ queue \in Seq(EventType) /\ Len(queue) <= MaxQueue /\ conns \in [Conn -> PlayRequest]
        /\ {} \in SUBSET EventType
    BY <1>1 DEF ChannelTyped, ViewTyped
  <2> QED
    BY <1>1, <1>2, <2>1, TimerFacts
<1>4. ViewTyped'
  BY <1>1, <1>2, <1>3 DEF ViewTyped
<1>5. RestTyped'
  <2>1. unknown' \in [Stream -> 0 .. 3]
    BY <1>1, <1>2 DEF RestTyped
  <2> QED
    BY <1>1, <1>2, <2>1 DEF RestTyped
<1> QED
  BY <1>1, <1>2, <1>3, <1>4, <1>5, MetaUnchanged, TypePartsNext

\* A session expires.
LEMMA SessionExpires ==
  ASSUME TypeOK, NEW x \in Session, clean_play_token(x)
  PROVE  LET s == x[1]  o == x[3]  left == subtract(meta[s].count[o])
             idle == [Event("Idle", s) EXCEPT !.out = o,
                         !.n = get_out_count([meta[s] EXCEPT !.count[o] = left])]
         IN  /\ TypeOK' /\ SameWatchers /\ Kept
             /\ UNCHANGED <<timers, recorder, proc>>
             /\ sessions[x] > 0 /\ sessions' = [sessions EXCEPT ![x] = sessions[x] - 1]
             /\ tokens' = [tokens EXCEPT ![x] = subtract(tokens[x])]
             /\ \/ ~ meta[s].open /\ meta' = meta
                \/ meta[s].open /\ meta' = [meta EXCEPT ![s] = [meta[s] EXCEPT !.count[o] = left]]
             /\ meta[s].open /\ left = 0 => idle \in Known'
             /\ Once(queue) => Once(queue')
             /\ \A e \in Range(queue') \ Range(queue) : e.kind # "Active"
<1>1. MetaTyped /\ ViewTyped /\ ChannelTyped /\ RestTyped
  BY TypeParts
<1> DEFINE s == x[1]  t == x[2]  o == x[3]  m == meta[s]
           after == [tokens EXCEPT ![x] = subtract(tokens[x])]
           off == /\ tokens[x] = 1
                  /\ \A k \in OutputEnum : after[<<s, t, k>>] = 0
           left == subtract(m.count[o])
           last == m.open /\ subtract_result(m.count[o]) = 0
           offPlay == [Event("OffPlay", s) EXCEPT !.who = t]
           idle == [Event("Idle", s) EXCEPT !.out = o,
                       !.n = get_out_count([m EXCEPT !.count[o] = left])]
           q1 == IF off /\ m.open THEN try_send(queue, offPlay) ELSE queue
           q2 == IF last THEN try_send(q1, idle) ELSE q1
           u == IF last THEN refused(q1, idle) ELSE {}
<1>2. /\ sessions[x] > 0 /\ sessions' = [sessions EXCEPT ![x] = sessions[x] - 1]
      /\ tokens' = after
      /\ meta' = IF m.open THEN [meta EXCEPT ![s] = [m EXCEPT !.count[o] = left]] ELSE meta
      /\ TimerBranch(q2, u)
      /\ UNCHANGED <<timers, unknown, recorder, proc, context, sending>>
  BY DEF clean_play_token, mediaVars
<1>3. s \in Stream /\ t \in Token /\ o \in OutputEnum /\ m \in StreamMetadata
  BY <1>1, SessionParts DEF MetaTyped
<1>4. m.count[o] \in Nat /\ left \in Nat /\ (last <=> m.open /\ left = 0)
  <2>1. m.count[o] \in Nat
    BY <1>3 DEF StreamMetadata
  <2> HIDE DEF m, o
  <2> QED
    BY <2>1 DEF subtract, subtract_result
<1>5. [m EXCEPT !.count[o] = left] \in StreamMetadata
  BY <1>3, <1>4, Counted
<1>6. idle \in EventType /\ idle.kind = "Idle"
  <2>1. get_out_count([m EXCEPT !.count[o] = left]) \in Nat
    BY <1>5, OutCount
  <2> HIDE DEF m, left
  <2> QED
    BY <1>3, <2>1 DEF Event, EventType, EventKind
<1>7. offPlay \in EventType /\ offPlay.kind = "OffPlay"
  BY <1>3 DEF Event, EventType, EventKind
<1> HIDE DEF idle, offPlay, last, off
<1>8. queue \in Seq(EventType) /\ Len(queue) <= MaxQueue /\ conns \in [Conn -> PlayRequest]
  BY <1>1 DEF ChannelTyped, ViewTyped
<1>9. /\ q1 \in Seq(EventType) /\ Len(q1) <= MaxQueue /\ Range(queue) \subseteq Range(q1)
      /\ Range(q1) \subseteq Range(queue) \cup {offPlay} /\ (Once(queue) => Once(q1))
  BY <1>7, <1>8, Sent
<1> HIDE DEF q1
<1>10. /\ q2 \in Seq(EventType) /\ Len(q2) <= MaxQueue /\ Range(q1) \subseteq Range(q2)
       /\ Range(q2) \subseteq Range(q1) \cup {idle} /\ (Once(q1) => Once(q2))
       /\ u \in SUBSET EventType /\ (last => idle \in Range(q2) \cup u)
  BY <1>6, <1>9, Sent
<1> HIDE DEF q2, u
<1>11. Range(queue) \subseteq Range(q2)
  BY <1>9, <1>10
<1>12. /\ ChannelTyped' /\ conns' \in [Conn -> PlayRequest] /\ SameWatchers /\ Kept
       /\ queue' = q2 /\ u \subseteq dropped'
  BY <1>1, <1>2, <1>8, <1>10, <1>11, TimerFacts
<1>13. MetaTyped'
  BY <1>1, <1>2, <1>3, <1>5 DEF MetaTyped
<1>14. ViewTyped'
  <2>1. subtract(tokens[x]) \in Nat /\ sessions[x] - 1 \in Nat
    BY <1>1, <1>2 DEF ViewTyped, subtract
  <2>2. tokens' \in [Session -> Nat] /\ sessions' \in [Session -> Nat]
    BY <1>1, <1>2, <2>1 DEF ViewTyped
  <2> QED
    BY <1>1, <1>2, <1>12, <2>2 DEF ViewTyped
<1>15. TypeOK'
  BY <1>1, <1>2, <1>12, <1>13, <1>14, RestUntouched, TypePartsNext
<1>16. last => idle \in Known'
  BY <1>10, <1>12 DEF Known, Pending
<1>17. \A e \in Range(queue') \ Range(queue) : e.kind # "Active"
  <2>1. \A e \in Range(queue') \ Range(queue) : e = offPlay \/ e = idle
    BY <1>9, <1>10, <1>12
  <2> QED
    BY <1>6, <1>7, <2>1
<1>18. \/ ~ m.open /\ meta' = meta
       \/ m.open /\ meta' = [meta EXCEPT ![s] = [m EXCEPT !.count[o] = left]]
  BY <1>2
<1>19. Once(queue) => Once(queue')
  BY <1>9, <1>10, <1>12
<1> QED
  BY <1>2, <1>4, <1>12, <1>15, <1>16, <1>17, <1>18, <1>19 DEF idle

-----------------------------------------------------------------------------
(***************************************************************************)
(* The event loop, the recorder and handle_process.                        *)
(***************************************************************************)
\* An event that closes a stream stays known until the stream is closed.
Carried ==
  \A e \in Known : Closer(e) =>
    \/ e \in Known' \/ ~ meta'[e.s].open
    \/ e.kind = "Idle" /\ e.n > 0
QueueStep ==
  /\ Once(queue) => Once(queue')
  /\ \A e \in Range(queue') \ Range(queue) : e.kind # "Active"
SameRecorder ==
  \A s \in Stream : /\ recorder[s] = None <=> recorder'[s] = None
                    /\ recorder[s] \in {"running", "ending"} <=> recorder'[s] \in {"running", "ending"}

LEMMA KeptCarried == ASSUME Kept PROVE Carried
BY DEF Kept, Carried

LEMMA ChannelGrows ==
  ASSUME ChannelTyped, NEW e \in EventType, e.kind # "Active",
         queue' = queue \/ queue' = try_send(queue, e), UNCHANGED <<held, workers, dropped>>
  PROVE  ChannelTyped' /\ QueueStep /\ Carried
<1>1. queue \in Seq(EventType) /\ Len(queue) <= MaxQueue
  BY DEF ChannelTyped
<1>2. /\ ChannelTyped' /\ Range(queue) \subseteq Range(queue') /\ Range(queue') \subseteq Range(queue) \cup {e}
      /\ (Once(queue) => Once(queue'))
  BY <1>1, Sent, ChannelSends
<1>3. Known \subseteq Known'
  BY <1>2 DEF Known, Pending
<1> QED
  BY <1>2, <1>3 DEF QueueStep, Carried

LEMMA ChannelSame ==
  ASSUME UNCHANGED <<queue, held, workers, dropped>>
  PROVE  QueueStep /\ Carried
BY DEF QueueStep, Carried, Known, Pending

\* After the step an open stream is watched over, or its timer was refused.
Watched(s) ==
  s \in timers' \/ (meta'[s].open => Event("InTimeout", s) \in Known' \/ meta'[s].unarmed)

\* What the steps that are not about viewers have in common.
Quiet ==
  /\ AllSame /\ UNCHANGED <<sessions, tokens>> /\ SameWatchers /\ Carried
  /\ proc'.listened = proc.listened
  /\ \A s \in timers : Watched(s)

LEMMA ExtQuiet ==
  ASSUME TypeOK, NEW s \in Stream, init_media_ext(s)
  PROVE  Quiet /\ QueueStep /\ SameRecorder
<1>1. AllSame
  BY ExtTyped
<1>2. UNCHANGED <<timers, sessions, tokens, queue, held, workers, dropped, conns, recorder, proc>>
  BY DEF init_media_ext, eventVars, mediaVars
<1> QED
  BY <1>1, <1>2, ChannelSame DEF Quiet, Watched, SameWatchers, SameRecorder

LEMMA ForwardQuiet ==
  ASSUME TypeOK, NEW s \in Stream, NEW same \in 0 .. 1, forward_packet(s, same)
  PROVE  Quiet /\ QueueStep /\ SameRecorder
<1>1. AllSame /\ ChannelTyped
  BY ForwardTyped, TypeParts
<1>2. UNCHANGED <<timers, sessions, tokens, held, workers, dropped, conns, recorder, proc>>
  BY DEF forward_packet, mediaVars
<1> DEFINE e == [Event("InnerRegister", s) EXCEPT !.n = same]  u == Event("Unknown", s)
<1>3. e \in EventType /\ e.kind # "Active" /\ u \in EventType /\ u.kind # "Active"
  BY RegisterEvent, EventTyped DEF EventKind
<1>4. \/ queue' = queue \/ queue' = try_send(queue, u)
      \/ ~ full(queue) /\ queue' = Append(queue, e)
  BY DEF forward_packet, observe_unknown_rtp
<1> HIDE DEF e, u
<1>5. QueueStep /\ Carried
  BY <1>1, <1>2, <1>3, <1>4, ChannelGrows DEF try_send
<1> QED
  BY <1>1, <1>2, <1>5 DEF Quiet, Watched, SameWatchers, SameRecorder

LEMMA StopsQuiet ==
  ASSUME TypeOK, NEW s \in Stream, DeviceStops(s)
  PROVE  Quiet /\ QueueStep /\ SameRecorder
<1>1. AllSame
  BY StopsTyped
<1>2. UNCHANGED <<timers, sessions, tokens, queue, held, workers, dropped, conns, recorder, proc>>
  BY DEF DeviceStops, registerVars, eventVars, mediaVars
<1> QED
  BY <1>1, <1>2, ChannelSame DEF Quiet, Watched, SameWatchers, SameRecorder

LEMMA AskQuiet ==
  ASSUME TypeOK, NEW c \in Conn, ask_on_play(c)
  PROVE  Quiet /\ QueueStep /\ SameRecorder
<1> DEFINE e == [Event("OnPlay", conns[c].of[1]) EXCEPT !.who = c]
<1>1. /\ conns[c].pc = "asking" /\ ~ full(queue) /\ queue' = Append(queue, e)
      /\ conns' = [conns EXCEPT ![c].pc = "sent"]
      /\ UNCHANGED <<timers, sessions, tokens, held, workers, dropped, recorder, proc>>
  BY DEF ask_on_play, registerVars, mediaVars
<1>2. /\ AllSame /\ ChannelTyped /\ conns \in [Conn -> PlayRequest]
  BY AskTyped, TypeParts DEF TypeOK
<1>3. /\ conns'[c].pc = "sent" /\ \A d \in Conn \ {c} : conns'[d] = conns[d]
      /\ conns[c].of \in Session
  BY <1>1, <1>2, ConnMoves
<1>4. e \in EventType /\ e.kind = "OnPlay"
  <2>1. conns[c].of[1] \in Stream
    BY <1>3, SessionParts
  <2> QED
    BY <2>1 DEF Event, EventType, EventKind
<1> HIDE DEF e
<1>5. QueueStep /\ Carried
  BY <1>1, <1>2, <1>4, ChannelGrows DEF try_send
<1>6. SameWatchers
  BY <1>1, <1>3 DEF SameWatchers
<1> QED
  BY <1>1, <1>2, <1>5, <1>6 DEF Quiet, Watched, SameRecorder

LEMMA AbandonQuiet ==
  ASSUME TypeOK, NEW c \in Conn, abandon(c)
  PROVE  Quiet /\ QueueStep /\ SameRecorder
<1>1. /\ conns[c].pc # "watching" /\ AllSame
      /\ conns'[c].pc = "done" /\ \A d \in Conn \ {c} : conns'[d] = conns[d]
      /\ UNCHANGED <<timers, sessions, tokens, queue, held, workers, dropped, recorder, proc>>
  BY AbandonTyped
<1>2. SameWatchers
  BY <1>1 DEF SameWatchers
<1> QED
  BY <1>1, <1>2, ChannelSame DEF Quiet, Watched, SameRecorder

LEMMA InputTimerQuiet ==
  ASSUME TypeOK, NEW s \in Stream, handle_rtp_in_timeout(s)
  PROVE  Quiet /\ QueueStep /\ SameRecorder
<1>1. /\ AllSame /\ SameWatchers /\ Kept
      /\ UNCHANGED <<sessions, tokens, recorder, proc>>
      /\ \/ timers' = timers
         \/ /\ timers' = timers \ {s}
            /\ meta'[s].open => Event("InTimeout", s) \in Known' \/ meta'[s].unarmed
      /\ Once(queue) => Once(queue')
      /\ Range(queue') \subseteq Range(queue) \cup {Event("InTimeout", s)}
  BY InputTimer
<1>2. Event("InTimeout", s).kind # "Active"
  BY DEF Event
<1>3. \A r \in timers : Watched(r)
  BY <1>1 DEF Watched
<1> QED
  BY <1>1, <1>2, <1>3, KeptCarried DEF Quiet, QueueStep, SameRecorder

LEMMA UnknownQuiet ==
  ASSUME TypeOK, NEW s \in Stream, expire_unknown_stream(s)
  PROVE  Quiet /\ QueueStep /\ SameRecorder
<1>1. /\ AllSame /\ SameWatchers /\ Kept
      /\ UNCHANGED <<timers, sessions, tokens, recorder, proc, queue>>
  BY UnknownExpires
<1> QED
  BY <1>1, KeptCarried DEF Quiet, Watched, QueueStep, SameRecorder

\* The head of the channel is taken, and perhaps an answer is sent.
LEMMA Taken ==
  ASSUME ChannelTyped, queue # <<>>, NEW a \in EventType, a.kind # "Active",
         queue' = Tail(queue) \/ queue' = try_send(Tail(queue), a)
  PROVE  /\ queue' \in Seq(EventType) /\ Len(queue') <= MaxQueue /\ QueueStep
         /\ Head(queue) \in EventType
         /\ Range(queue) \subseteq Range(queue') \cup {Head(queue)}
<1> DEFINE r == Tail(queue)
<1>1. queue \in Seq(EventType) /\ Len(queue) <= MaxQueue /\ MaxQueue \in Nat
  BY MediaAssumption DEF ChannelTyped
<1>2. /\ r \in Seq(EventType) /\ Head(queue) \in EventType /\ Len(queue) \in Nat
      /\ Len(r) = Len(queue) - 1 /\ Range(queue) = Range(r) \cup {Head(queue)}
  BY <1>1, Shortened
<1>3. Once(queue) => Once(r)
  BY <1>1, Emptied
<1>4. queue' = r \/ queue' = try_send(r, a)
  OBVIOUS
<1> HIDE DEF r
<1>5. Len(r) <= MaxQueue
  BY <1>1, <1>2
<1>6. /\ queue' \in Seq(EventType) /\ Len(queue') <= MaxQueue
      /\ Range(r) \subseteq Range(queue') /\ Range(queue') \subseteq Range(r) \cup {a}
      /\ Once(r) => Once(queue')
  <2>1. CASE queue' = r
    BY <1>2, <1>5, <2>1
  <2>2. CASE queue' = try_send(r, a)
    BY <1>2, <1>5, <2>2, Sent
  <2> QED
    BY <1>4, <2>1, <2>2
<1> QED
  BY <1>2, <1>3, <1>6 DEF QueueStep

LEMMA RegisteredEvent ==
  ASSUME NEW e \in EventType
  PROVE  /\ [Event("Registered", e.s) EXCEPT !.n = e.n] \in EventType
         /\ [Event("Registered", e.s) EXCEPT !.n = e.n].kind = "Registered"
<1>1. e.s \in Stream /\ e.n \in Nat
  BY EventFields
<1> QED
  BY <1>1 DEF Event, EventType, EventKind

LEMMA NoEventFacts == ~ Closer(NoEvent)
BY DEF Closer, NoEvent, Event, None

\* hand_event with an InnerRegister.
LEMMA RegisterQuiet ==
  ASSUME TypeOK, queue # <<>>, Head(queue).kind = "InnerRegister",
         hand_inner(Head(queue), Tail(queue)),
         UNCHANGED <<timers, sessions, tokens, held, workers, dropped, unknown, conns, recorder,
                     context, sending>>
  PROVE  TypeOK' /\ Quiet /\ QueueStep /\ SameRecorder
<1>1. MetaTyped /\ ViewTyped /\ ChannelTyped /\ RestTyped
  BY TypeParts
<1> DEFINE e == Head(queue)  a == [Event("Registered", e.s) EXCEPT !.n = e.n]
<1>2. e \in EventType
  BY <1>1, Shortened DEF ChannelTyped
<1>3. a \in EventType /\ a.kind # "Active"
  BY <1>2, RegisteredEvent
<1>4. /\ queue' = Tail(queue) \/ queue' = try_send(Tail(queue), a)
      /\ UNCHANGED meta \/ remove(e.s)
      /\ UNCHANGED proc \/ proc' = [proc EXCEPT !.config = proc.config \cup {e.s}]
  BY DEF hand_inner
<1>5. e.kind = "InnerRegister" /\ e.s \in Stream
  BY <1>2, EventFields
<1> HIDE DEF a
<1>6. /\ queue' \in Seq(EventType) /\ Len(queue') <= MaxQueue /\ QueueStep
      /\ Range(queue) \subseteq Range(queue') \cup {e}
  BY <1>1, <1>3, <1>4, Taken
<1> HIDE DEF e
<1>7. MetaTyped' /\ AllSame
  BY <1>1, <1>4, <1>5, MetaUnchanged, Removes
<1>8. ChannelTyped' /\ ViewTyped'
  BY <1>1, <1>6, ViewUntouched DEF ChannelTyped
<1>9. RestTyped' /\ proc'.listened = proc.listened
  BY <1>1, <1>4, <1>5 DEF RestTyped
<1>10. Carried
  <2>1. SUFFICES ASSUME NEW f \in Known, Closer(f) PROVE f \in Known'
    BY DEF Carried
  <2>2. f # e
    BY <1>5, <2>1 DEF Closer
  <2> QED
    BY <1>6, <2>1, <2>2 DEF Known, Pending
<1> QED
  BY <1>6, <1>7, <1>8, <1>9, <1>10, TypePartsNext DEF Quiet, Watched, SameWatchers, SameRecorder

\* hand_event with an event for the signalling node.
LEMMA WorkerQuiet ==
  ASSUME TypeOK, queue # <<>>, held = NoEvent, queue' = Tail(queue),
         IF Len(workers) < MaxWorkers
         THEN workers' = Append(workers, Head(queue)) /\ UNCHANGED held
         ELSE held' = Head(queue) /\ UNCHANGED workers,
         UNCHANGED <<meta, timers, sessions, tokens, dropped, unknown, conns, recorder, proc,
                     context, sending>>
  PROVE  TypeOK' /\ Quiet /\ QueueStep /\ SameRecorder
<1>1. MetaTyped /\ ViewTyped /\ ChannelTyped /\ RestTyped
  BY TypeParts
<1> DEFINE e == Head(queue)
<1>2. /\ queue' \in Seq(EventType) /\ Len(queue') <= MaxQueue /\ QueueStep /\ e \in EventType
      /\ Range(queue) \subseteq Range(queue') \cup {e}
  <2>1. queue \in Seq(EventType)
    BY <1>1 DEF ChannelTyped
  <2>2. Head(queue) \in EventType
    BY <2>1, Shortened
  <2>3. PICK a \in EventType : a.kind # "Active"
    <3>1. [Event("Registered", e.s) EXCEPT !.n = e.n] \in EventType
          /\ [Event("Registered", e.s) EXCEPT !.n = e.n].kind = "Registered"
      BY <2>2, RegisteredEvent
    <3> QED
      BY <3>1
  <2> QED
    BY <1>1, <2>3, Taken
<1>3. /\ workers \in Seq(EventType) /\ Len(workers) <= MaxWorkers /\ MaxWorkers \in Nat
      /\ Len(workers) \in Nat
  BY <1>1, MediaAssumption DEF ChannelTyped
<1>4. \/ Len(workers) < MaxWorkers /\ workers' = Append(workers, e) /\ held' = held
      \/ held' = e /\ workers' = workers
  OBVIOUS
<1> HIDE DEF e
<1>5. /\ Append(workers, e) \in Seq(EventType) /\ Len(Append(workers, e)) = Len(workers) + 1
      /\ Range(Append(workers, e)) = Range(workers) \cup {e}
  BY <1>2, <1>3, Appended
<1>6. /\ workers' \in Seq(EventType) /\ Len(workers') <= MaxWorkers
      /\ held' \in EventType \cup {NoEvent}
      /\ Range(workers) \subseteq Range(workers')
      /\ e \in Range(workers') \cup {held'}
  <2>1. CASE Len(workers) < MaxWorkers /\ workers' = Append(workers, e) /\ held' = held
    BY <1>1, <1>3, <1>5, <2>1 DEF ChannelTyped
  <2>2. CASE held' = e /\ workers' = workers
    BY <1>2, <1>3, <2>2
  <2> QED
    BY <1>4, <2>1, <2>2
<1>7. ChannelTyped'
  BY <1>1, <1>2, <1>6 DEF ChannelTyped
<1>8. MetaTyped' /\ AllSame /\ ViewTyped' /\ RestTyped'
  BY <1>1, MetaUnchanged, ViewUntouched, RestUntouched
<1>9. Carried
  <2>1. SUFFICES ASSUME NEW f \in Known, Closer(f) PROVE f \in Known'
    BY DEF Carried
  <2>2. f # held
    BY <2>1, NoEventFacts
  <2> QED
    BY <1>2, <1>6, <2>1, <2>2 DEF Known, Pending
<1> QED
  BY <1>2, <1>7, <1>8, <1>9, TypePartsNext DEF Quiet, Watched, SameWatchers, SameRecorder

\* hand_event with an Active: the recorder is started.
LEMMA ActiveQuiet ==
  ASSUME TypeOK, OpenInv, queue # <<>>, Head(queue).kind = "Active", queue' = Tail(queue),
         recorder' = [recorder EXCEPT ![Head(queue).s] = "spawned"],
         UNCHANGED <<meta, timers, sessions, tokens, held, workers, dropped, unknown, conns, proc,
                     context, sending>>
  PROVE  TypeOK' /\ Quiet /\ OpenInv'
         /\ \A s \in Stream : recorder[s] \in {"running", "ending"} <=> recorder'[s] \in {"running", "ending"}
<1>1. MetaTyped /\ ViewTyped /\ ChannelTyped /\ RestTyped
  BY TypeParts
<1> DEFINE e == Head(queue)
<1>2. /\ queue \in Seq(EventType) /\ Len(queue) <= MaxQueue /\ MaxQueue \in Nat
  BY <1>1, MediaAssumption DEF ChannelTyped
<1>3. /\ queue' \in Seq(EventType) /\ e \in EventType /\ Len(queue) \in Nat
      /\ Len(queue') = Len(queue) - 1 /\ Range(queue) = Range(queue') \cup {e}
  BY <1>2, Shortened
<1>4. /\ Once(queue') /\ \A f \in Range(queue') : f.kind = "Active" => f.s # e.s
  BY <1>2, Emptied DEF OpenInv
<1>5. e.kind = "Active" /\ e.s \in Stream
  BY <1>3, EventFields
<1>6. recorder' = [recorder EXCEPT ![e.s] = "spawned"]
  OBVIOUS
<1> HIDE DEF e
<1>7. ChannelTyped'
  BY <1>1, <1>2, <1>3 DEF ChannelTyped
<1>8. recorder \in [Stream -> {None, "spawned", "running", "ending", "ended"}]
  BY <1>1 DEF RestTyped
<1>9. recorder' \in [Stream -> {None, "spawned", "running", "ending", "ended"}]
  BY <1>5, <1>6, <1>8
<1>10. MetaTyped' /\ AllSame /\ ViewTyped' /\ RestTyped'
  BY <1>1, <1>9, MetaUnchanged, ViewUntouched DEF RestTyped
<1>11. /\ recorder[e.s] = None /\ e.s \in proc.listened
       /\ meta[e.s].open => meta[e.s].kind = "LocalMp4"
  BY <1>3, <1>5 DEF OpenInv, ActiveOf
<1>12. \A s \in Stream : recorder[s] \in {"running", "ending"} <=> recorder'[s] \in {"running", "ending"}
  BY <1>5, <1>6, <1>8, <1>11 DEF None
<1>13. Carried
  <2>1. SUFFICES ASSUME NEW f \in Known, Closer(f) PROVE f \in Known'
    BY DEF Carried
  <2>2. f # e
    BY <1>5, <2>1 DEF Closer
  <2> QED
    BY <1>3, <2>1, <2>2 DEF Known, Pending
<1>14. OpenInv'
  <2>1. \A s \in Stream \ {e.s} : recorder'[s] = recorder[s]
    BY <1>5, <1>6, <1>8
  <2>2. NotListened'
    BY <1>11, <2>1 DEF OpenInv, NotListened
  <2>3. ActiveOf'
    <3>1. SUFFICES ASSUME NEW f \in Range(queue'), f.kind = "Active"
                   PROVE  /\ f.s \in proc.listened /\ recorder'[f.s] = None
                          /\ meta[f.s].open => meta[f.s].kind = "LocalMp4"
      BY DEF ActiveOf
    <3>2. f \in EventType /\ f.s # e.s
      BY <1>3, <1>4, <3>1, InRange
    <3>3. f.s \in Stream
      BY <3>2, EventFields
    <3> QED
      BY <1>3, <2>1, <3>1, <3>2, <3>3 DEF OpenInv, ActiveOf
  <2>4. RecorderOf'
    BY <1>11, <2>1 DEF OpenInv, RecorderOf
  <2> QED
    BY <1>4, <2>2, <2>3, <2>4 DEF OpenInv
<1> QED
  BY <1>7, <1>10, <1>12, <1>13, <1>14, TypePartsNext DEF Quiet, Watched, SameWatchers

LEMMA AcquireQuiet ==
  ASSUME TypeOK, acquire_owned
  PROVE  TypeOK' /\ Quiet /\ QueueStep /\ SameRecorder
<1>1. MetaTyped /\ ViewTyped /\ ChannelTyped /\ RestTyped
  BY TypeParts
<1>2. /\ held # NoEvent /\ Len(workers) < MaxWorkers
      /\ workers' = Append(workers, held) /\ held' = NoEvent
      /\ UNCHANGED <<meta, timers, sessions, tokens, queue, dropped, unknown, conns, recorder,
                     proc, context, sending>>
  BY DEF acquire_owned, registerVars, mediaVars
<1>3. /\ workers \in Seq(EventType) /\ held \in EventType /\ MaxWorkers \in Nat /\ Len(workers) \in Nat
  BY <1>1, <1>2, MediaAssumption DEF ChannelTyped
<1>4. /\ workers' \in Seq(EventType) /\ Len(workers') = Len(workers) + 1
      /\ Range(workers') = Range(workers) \cup {held}
  BY <1>2, <1>3, Appended
<1>5. ChannelTyped'
  BY <1>1, <1>2, <1>3, <1>4 DEF ChannelTyped
<1>6. MetaTyped' /\ AllSame /\ ViewTyped' /\ RestTyped'
  BY <1>1, <1>2, MetaUnchanged, ViewUntouched, RestUntouched
<1>7. Carried
  BY <1>2, <1>4 DEF Carried, Known, Pending
<1> QED
  BY <1>2, <1>5, <1>6, <1>7, TypePartsNext DEF Quiet, Watched, QueueStep, SameWatchers, SameRecorder

LEMMA OutQuiet ==
  ASSUME TypeOK, NEW i \in DOMAIN workers, hand_out(i)
  PROVE  TypeOK' /\ Quiet /\ QueueStep /\ SameRecorder
<1>1. MetaTyped /\ ViewTyped /\ ChannelTyped /\ RestTyped
  BY TypeParts
<1> DEFINE e == workers[i]
<1>2. workers \in Seq(EventType) /\ Len(workers) \in Nat /\ i \in 1 .. Len(workers)
  BY <1>1 DEF ChannelTyped
<1>3. e \in EventType
  BY <1>2
<1>4. /\ workers' = RemoveAt(workers, i)
      /\ UNCHANGED <<timers, sessions, tokens, queue, held, dropped, unknown, recorder, proc,
                     context, sending>>
      /\ \/ e.kind = "InTimeout" /\ remove(e.s) /\ UNCHANGED conns
         \/ e.kind = "Idle" /\ e.n = 0 /\ remove(e.s) /\ UNCHANGED conns
         \/ e.kind = "Idle" /\ e.n > 0 /\ close_muxer(e.s, e.out) /\ UNCHANGED conns
         \/ /\ e.kind = "OnPlay" /\ UNCHANGED meta
            /\ \/ /\ conns[e.who].pc = "sent"
                  /\ \E r \in OnPlayResults : conns' = [conns EXCEPT ![e.who].pc = r]
               \/ UNCHANGED conns
         \/ /\ e.kind \in {"Registered", "Unknown", "OffPlay", "EndRecord"}
            /\ UNCHANGED <<meta, conns>>
  BY DEF hand_out, mediaVars
<1>5. /\ workers' \in Seq(EventType) /\ Len(workers') = Len(workers) - 1
      /\ Range(workers) = Range(workers') \cup {e}
  BY <1>2, <1>4, OneRemoved
<1> HIDE DEF e
<1>6. e.s \in Stream /\ e.n \in Nat /\ (e.kind = "OnPlay" => e.who \in Conn)
  BY <1>3, EventFields
<1>7. ChannelTyped'
  <2>1. Len(workers') <= MaxWorkers
    BY <1>1, <1>2, <1>5, MediaAssumption DEF ChannelTyped
  <2> QED
    BY <1>1, <1>4, <1>5, <2>1 DEF ChannelTyped
<1>8. /\ MetaTyped' /\ AllSame
      /\ e.kind = "InTimeout" \/ (e.kind = "Idle" /\ e.n = 0) => ~ meta'[e.s].open
  BY <1>1, <1>4, <1>6, MetaUnchanged, Removes, ClosesMuxer
<1>9. conns' \in [Conn -> PlayRequest] /\ SameWatchers
  <2>1. conns \in [Conn -> PlayRequest]
    BY <1>1 DEF ViewTyped
  <2>2. CASE UNCHANGED conns
    BY <2>1, <2>2 DEF SameWatchers
  <2>3. CASE /\ e.kind = "OnPlay" /\ conns[e.who].pc = "sent"
             /\ \E r \in OnPlayResults : conns' = [conns EXCEPT ![e.who].pc = r]
    <3>1. PICK r \in {"granted", "done"} : conns' = [conns EXCEPT ![e.who].pc = r]
      BY <2>3 DEF OnPlayResults
    <3>2. /\ conns' \in [Conn -> PlayRequest] /\ conns'[e.who].pc = r
          /\ \A d \in Conn \ {e.who} : conns'[d] = conns[d]
      BY <1>6, <2>1, <2>3, <3>1, ConnMoves
    <3>3. SameWatchers
      BY <1>6, <2>3, <3>2 DEF SameWatchers
    <3> QED
      BY <3>2, <3>3
  <2> QED
    BY <1>4, <2>2, <2>3
<1>10. ViewTyped' /\ RestTyped'
  BY <1>1, <1>4, <1>9, RestUntouched DEF ViewTyped
<1>11. Carried
  <2>1. SUFFICES ASSUME NEW f \in Known, Closer(f)
                 PROVE  f \in Known' \/ ~ meta'[f.s].open \/ (f.kind = "Idle" /\ f.n > 0)
    BY DEF Carried
  <2>2. CASE f = e
    BY <1>6, <1>8, <2>1, <2>2 DEF Closer
  <2>3. CASE f # e
    BY <1>4, <1>5, <2>1, <2>3 DEF Known, Pending
  <2> QED
    BY <2>2, <2>3
<1> QED
  BY <1>4, <1>7, <1>8, <1>9, <1>10, <1>11, TypePartsNext DEF Quiet, Watched, QueueStep, SameRecorder

LEMMA ProcessQuiet ==
  ASSUME TypeOK, process_next \/ process_config \/ (\E s \in Stream : invoke_ends(s) \/ run_ends(s))
  PROVE  TypeOK' /\ Quiet /\ QueueStep /\ SameRecorder
<1>1. MetaTyped /\ ViewTyped /\ ChannelTyped /\ RestTyped
  BY TypeParts
<1>2. /\ UNCHANGED <<meta, timers, sessions, tokens, queue, held, workers, dropped, unknown, conns,
                     sending>>
  BY DEF process_next, process_config, invoke_ends, run_ends, registerVars, eventVars
<1>3. /\ proc.queue \in Seq(Stream) /\ proc.wait \in Stream \cup {None}
      /\ proc.config \subseteq Stream /\ proc.listened \subseteq Stream
      /\ recorder \in [Stream -> {None, "spawned", "running", "ending", "ended"}]
      /\ context \in [Stream -> {None, "muxing", "ended"}]
  BY <1>1 DEF RestTyped
<1>4. /\ proc' \in [queue: Seq(Stream), wait: Stream \cup {None},
                    config: SUBSET Stream, listened: SUBSET Stream]
      /\ proc'.listened = proc.listened
  <2>1. CASE process_next
    <3>1. Tail(proc.queue) \in Seq(Stream) /\ Head(proc.queue) \in Stream
      BY <1>3, <2>1, Shortened DEF process_next
    <3>2. PICK w \in Stream \cup {None} : proc' = [proc EXCEPT !.queue = Tail(proc.queue), !.wait = w]
      BY <2>1, <3>1 DEF process_next
    <3> QED
      BY <1>1, <3>1, <3>2 DEF RestTyped
  <2>2. CASE process_config
    <3>1. proc' = [proc EXCEPT !.wait = None, !.config = proc.config \ {proc.wait}]
      BY <2>2 DEF process_config
    <3> QED
      BY <1>1, <1>3, <3>1 DEF RestTyped
  <2>3. CASE UNCHANGED proc
    BY <1>1, <2>3 DEF RestTyped
  <2> QED
    BY <2>1, <2>2, <2>3 DEF invoke_ends, run_ends
<1>5. recorder' \in [Stream -> {None, "spawned", "running", "ending", "ended"}] /\ SameRecorder
  <2>1. CASE UNCHANGED recorder
    BY <1>3, <2>1 DEF SameRecorder
  <2>2. ASSUME NEW s \in Stream, run_ends(s)
        PROVE  recorder' \in [Stream -> {None, "spawned", "running", "ending", "ended"}] /\ SameRecorder
    <3>1. recorder[s] = "running" /\ recorder' = [recorder EXCEPT ![s] = "ending"]
      BY <2>2 DEF run_ends
    <3> QED
      BY <1>3, <3>1 DEF SameRecorder, None
  <2> QED
    BY <2>1, <2>2 DEF process_next, process_config, invoke_ends
<1>6. context' \in [Stream -> {None, "muxing", "ended"}]
  <2>1. CASE process_config
    <3>1. proc.wait \in Stream
      BY <1>3, <2>1 DEF process_config
    <3> QED
      BY <1>3, <2>1, <3>1 DEF process_config
  <2>2. ASSUME NEW s \in Stream, invoke_ends(s) PROVE context' \in [Stream -> {None, "muxing", "ended"}]
    BY <1>3, <2>2 DEF invoke_ends
  <2>3. CASE UNCHANGED context
    BY <1>3, <2>3
  <2> QED
    BY <2>1, <2>2, <2>3 DEF process_next, run_ends
<1>7. RestTyped'
  BY <1>1, <1>2, <1>4, <1>5, <1>6 DEF RestTyped
<1>8. MetaTyped' /\ AllSame /\ ViewTyped' /\ ChannelTyped' /\ QueueStep /\ Carried
  BY <1>1, <1>2, MetaUnchanged, ViewUntouched, ChannelUntouched, ChannelSame
<1> QED
  BY <1>2, <1>4, <1>5, <1>7, <1>8, TypePartsNext DEF Quiet, Watched, SameWatchers

-----------------------------------------------------------------------------
(***************************************************************************)
(* The uses that the tokens of a stream's viewers stand for.               *)
(***************************************************************************)
UsesOf(f, s, o) == UNION {{t} \X (1 .. f[<<s, t, o>>]) : t \in Token}

LEMMA InUses ==
  ASSUME NEW f \in [Session -> Nat], NEW s \in Stream, NEW o \in OutputEnum
  PROVE  \A u : u \in UsesOf(f, s, o) <=>
                  \E t \in Token, n \in Nat : u = <<t, n>> /\ 1 <= n /\ n <= f[<<s, t, o>>]
<1>1. \A t \in Token : f[<<s, t, o>>] \in Nat
  BY SessionMade
<1>2. ASSUME NEW u, u \in UsesOf(f, s, o)
      PROVE  \E t \in Token, n \in Nat : u = <<t, n>> /\ 1 <= n /\ n <= f[<<s, t, o>>]
  <2>1. PICK t \in Token : u \in {t} \X (1 .. f[<<s, t, o>>])
    BY <1>2 DEF UsesOf
  <2>2. PICK n \in 1 .. f[<<s, t, o>>] : u = <<t, n>>
    BY <2>1
  <2> QED
    BY <1>1, <2>2
<1>3. ASSUME NEW t \in Token, NEW n \in Nat, 1 <= n, n <= f[<<s, t, o>>]
      PROVE  <<t, n>> \in UsesOf(f, s, o)
  <2>1. n \in 1 .. f[<<s, t, o>>]
    BY <1>1, <1>3
  <2>2. <<t, n>> \in {t} \X (1 .. f[<<s, t, o>>])
    BY <2>1
  <2> QED
    BY <2>2 DEF UsesOf
<1> QED
  BY <1>2, <1>3

LEMMA UsesFinite ==
  ASSUME NEW f \in [Session -> Nat], NEW s \in Stream, NEW o \in OutputEnum
  PROVE  IsFiniteSet(UsesOf(f, s, o)) /\ Cardinality(UsesOf(f, s, o)) \in Nat
<1> DEFINE S == {{t} \X (1 .. f[<<s, t, o>>]) : t \in Token}
           h == [t \in Token |-> {t} \X (1 .. f[<<s, t, o>>])]
<1>1. IsFiniteSet(Token)
  BY MediaAssumption
<1>2. h \in Surjection(Token, S)
  BY DEF Surjection
<1>3. \A T \in S : IsFiniteSet(T)
  <2>1. SUFFICES ASSUME NEW t \in Token PROVE IsFiniteSet({t} \X (1 .. f[<<s, t, o>>]))
    OBVIOUS
  <2>2. f[<<s, t, o>>] \in Nat
    BY SessionMade
  <2>3. IsFiniteSet({t}) /\ IsFiniteSet(1 .. f[<<s, t, o>>])
    <3>1. 1 \in Int /\ f[<<s, t, o>>] \in Int
      BY <2>2
    <3>2. IsFiniteSet(1 .. f[<<s, t, o>>])
      BY <3>1, FS_Interval
    <3> QED
      BY <3>2, FS_Singleton
  <2> QED
    BY <2>3, FS_Product
<1>4. UsesOf(f, s, o) = UNION S
  BY DEF UsesOf
<1> HIDE DEF S, h
<1>5. IsFiniteSet(S)
  BY <1>1, <1>2, FS_Surjection
<1>6. IsFiniteSet(UNION S)
  BY <1>3, <1>5, FS_UNION
<1> QED
  BY <1>4, <1>6, FS_CardinalityType

\* g stands for one use more than f.
OneUse(f, g, x) == g[x] = f[x] + 1 /\ \A y \in Session \ {x} : g[y] = f[y]

LEMMA UsedMore ==
  ASSUME NEW f \in [Session -> Nat], NEW g \in [Session -> Nat], NEW x \in Session,
         OneUse(f, g, x), NEW s \in Stream, NEW o \in OutputEnum
  PROVE  Cardinality(UsesOf(g, s, o)) =
           IF s = x[1] /\ o = x[3] THEN Cardinality(UsesOf(f, s, o)) + 1
                                   ELSE Cardinality(UsesOf(f, s, o))
<1>0. x[2] \in Token /\ x = <<x[1], x[2], x[3]>> /\ f[x] \in Nat
  BY SessionParts
<1>1. g \in [Session -> Nat]
  OBVIOUS
<1>2. g[x] = f[x] + 1 /\ \A y \in Session \ {x} : g[y] = f[y]
  BY DEF OneUse
<1>3. CASE s = x[1] /\ o = x[3]
  <2> DEFINE A == UsesOf(f, s, o)  B == UsesOf(g, s, o)  u == <<x[2], f[x] + 1>>
  <2>a. \A v : v \in A <=> \E t \in Token, n \in Nat : v = <<t, n>> /\ 1 <= n /\ n <= f[<<s, t, o>>]
    BY InUses
  <2>b. \A v : v \in B <=> \E t \in Token, n \in Nat : v = <<t, n>> /\ 1 <= n /\ n <= g[<<s, t, o>>]
    BY <1>1, InUses
  <2>c. IsFiniteSet(A) /\ Cardinality(A) \in Nat
    BY UsesFinite
  <2> HIDE DEF A, B
  <2>1. x = <<s, x[2], o>>
    BY <1>0, <1>3
  <2>2. \A t \in Token : t # x[2] => g[<<s, t, o>>] = f[<<s, t, o>>]
    <3>1. SUFFICES ASSUME NEW t \in Token, t # x[2] PROVE g[<<s, t, o>>] = f[<<s, t, o>>]
      OBVIOUS
    <3>2. <<s, t, o>> \in Session
      BY SessionMade
    <3>3. <<s, t, o>> # x
      BY <2>1, <3>1
    <3> QED
      BY <1>2, <3>2, <3>3
  <2>3. u \notin A
    <3>1. SUFFICES ASSUME u \in A PROVE FALSE
      OBVIOUS
    <3>2. PICK t \in Token, n \in Nat : u = <<t, n>> /\ 1 <= n /\ n <= f[<<s, t, o>>]
      BY <2>a, <3>1
    <3>3. t = x[2] /\ n = f[x] + 1
      BY <3>2
    <3> QED
      BY <1>0, <2>1, <3>2, <3>3
  <2>4. u \in B
    <3>1. f[x] + 1 \in Nat /\ 1 <= f[x] + 1 /\ f[x] + 1 <= g[<<s, x[2], o>>]
      BY <1>0, <1>2, <2>1
    <3> QED
      BY <1>0, <2>b, <3>1
  <2>5. A \subseteq B
    <3>1. SUFFICES ASSUME NEW v \in A PROVE v \in B
      OBVIOUS
    <3>2. PICK t \in Token, n \in Nat : v = <<t, n>> /\ 1 <= n /\ n <= f[<<s, t, o>>]
      BY <2>a
    <3>3. f[<<s, t, o>>] \in Nat /\ n <= g[<<s, t, o>>]
      BY <1>0, <1>2, <2>1, <2>2, <3>2, SessionMade
    <3> QED
      BY <2>b, <3>2, <3>3
  <2>6. B \subseteq A \cup {u}
    <3>1. SUFFICES ASSUME NEW v \in B, v # u PROVE v \in A
      OBVIOUS
    <3>2. PICK t \in Token, n \in Nat : v = <<t, n>> /\ 1 <= n /\ n <= g[<<s, t, o>>]
      BY <2>b
    <3>3. n <= f[<<s, t, o>>]
      <4>1. CASE t # x[2]
        BY <2>2, <3>2, <4>1
      <4>2. CASE t = x[2]
        <5>1. n # f[x] + 1
          BY <3>1, <3>2, <4>2
        <5>2. n <= f[x] + 1
          BY <1>2, <2>1, <3>2, <4>2
        <5> QED
          BY <1>0, <2>1, <4>2, <5>1, <5>2
      <4> QED
        BY <4>1, <4>2
    <3> QED
      BY <2>a, <3>2, <3>3
  <2>7. B = A \cup {u}
    BY <2>4, <2>5, <2>6
  <2>8. Cardinality(B) = Cardinality(A) + 1
    BY <2>3, <2>7, <2>c, FS_AddElement
  <2> QED
    BY <1>3, <2>8 DEF A, B
<1>4. CASE ~ (s = x[1] /\ o = x[3])
  <2>1. \A t \in Token : g[<<s, t, o>>] = f[<<s, t, o>>]
    <3>1. SUFFICES ASSUME NEW t \in Token PROVE g[<<s, t, o>>] = f[<<s, t, o>>]
      OBVIOUS
    <3>2. <<s, t, o>> \in Session
      BY SessionMade
    <3>3. <<s, t, o>> # x
      BY <1>4
    <3> QED
      BY <1>2, <3>2, <3>3
  <2>2. UsesOf(g, s, o) = UsesOf(f, s, o)
    BY <2>1 DEF UsesOf
  <2> QED
    BY <1>4, <2>2
<1> QED
  BY <1>3, <1>4

LEMMA UsesAre ==
  /\ \A s \in Stream, o \in OutputEnum : Uses(s, o) = UsesOf(tokens, s, o)
  /\ \A s \in Stream, o \in OutputEnum : Uses(s, o)' = UsesOf(tokens', s, o)
BY DEF Uses, UsesOf

\* A viewer with a token is counted.
LEMMA UsesOne ==
  ASSUME NEW f \in [Session -> Nat], NEW x \in Session, f[x] > 0
  PROVE  Cardinality(UsesOf(f, x[1], x[3])) > 0
<1>0. x[1] \in Stream /\ x[2] \in Token /\ x[3] \in OutputEnum /\ x = <<x[1], x[2], x[3]>> /\ f[x] \in Nat
  BY SessionParts
<1>1. 1 \in Nat /\ 1 <= 1 /\ 1 <= f[<<x[1], x[2], x[3]>>]
  BY <1>0
<1>2. <<x[2], 1>> \in UsesOf(f, x[1], x[3])
  BY <1>0, <1>1, InUses
<1>3. IsFiniteSet(UsesOf(f, x[1], x[3])) /\ Cardinality(UsesOf(f, x[1], x[3])) \in Nat
  BY <1>0, UsesFinite
<1> QED
  BY <1>2, <1>3, FS_EmptySet

LEMMA UsedLess ==
  ASSUME NEW f \in [Session -> Nat], NEW g \in [Session -> Nat], NEW x \in Session,
         OneUse(g, f, x), NEW s \in Stream, NEW o \in OutputEnum
  PROVE  Cardinality(UsesOf(g, s, o)) =
           IF s = x[1] /\ o = x[3] THEN Cardinality(UsesOf(f, s, o)) - 1
                                   ELSE Cardinality(UsesOf(f, s, o))
<1>1. Cardinality(UsesOf(f, s, o)) =
        IF s = x[1] /\ o = x[3] THEN Cardinality(UsesOf(g, s, o)) + 1
                                ELSE Cardinality(UsesOf(g, s, o))
  BY UsedMore
<1>2. Cardinality(UsesOf(g, s, o)) \in Nat
  BY UsesFinite
<1> QED
  BY <1>1, <1>2

-----------------------------------------------------------------------------
(***************************************************************************)
(* Who watches.                                                            *)
(***************************************************************************)
WatchingOf(f, x) == {c \in Conn : f[c].pc = "watching" /\ f[c].of = x}

LEMMA WatchingAre ==
  \A x \in Session : /\ Watching(x) = WatchingOf(conns, x) /\ Watching(x)' = WatchingOf(conns', x)
                     /\ IsFiniteSet(WatchingOf(conns, x)) /\ IsFiniteSet(WatchingOf(conns', x))
                     /\ Cardinality(WatchingOf(conns, x)) \in Nat
                     /\ Cardinality(WatchingOf(conns', x)) \in Nat
<1>1. SUFFICES ASSUME NEW x \in Session
               PROVE  /\ Watching(x) = WatchingOf(conns, x) /\ Watching(x)' = WatchingOf(conns', x)
                      /\ IsFiniteSet(WatchingOf(conns, x)) /\ IsFiniteSet(WatchingOf(conns', x))
                      /\ Cardinality(WatchingOf(conns, x)) \in Nat
                      /\ Cardinality(WatchingOf(conns', x)) \in Nat
  OBVIOUS
<1>2. Watching(x) = WatchingOf(conns, x) /\ Watching(x)' = WatchingOf(conns', x)
  BY DEF Watching, WatchingOf
<1>3. WatchingOf(conns, x) \in SUBSET Conn /\ WatchingOf(conns', x) \in SUBSET Conn
  BY DEF WatchingOf
<1>4. IsFiniteSet(WatchingOf(conns, x)) /\ IsFiniteSet(WatchingOf(conns', x))
  BY <1>3, MediaAssumption, FS_Subset
<1> QED
  BY <1>2, <1>4, FS_CardinalityType

LEMMA TokensCover ==
  /\ TokenCoversViewers <=>
       \A x \in Session : tokens[x] >= sessions[x] + Cardinality(WatchingOf(conns, x))
  /\ TokenCoversViewers' <=>
       \A x \in Session : tokens'[x] >= sessions'[x] + Cardinality(WatchingOf(conns', x))
<1>1. \A x \in Session : Watching(x) = WatchingOf(conns, x) /\ Watching(x)' = WatchingOf(conns', x)
  BY WatchingAre
<1> QED
  BY <1>1 DEF TokenCoversViewers

\* One request may start to watch, for x.
LEMMA WatchMore ==
  ASSUME NEW c \in Conn, conns[c].pc # "watching", NEW x \in Session, conns'[c].of = x,
         \A d \in Conn \ {c} : conns'[d] = conns[d], NEW y \in Session
  PROVE  Cardinality(WatchingOf(conns', y)) <=
           Cardinality(WatchingOf(conns, y)) + (IF y = x THEN 1 ELSE 0)
<1> DEFINE A == WatchingOf(conns, y)  B == WatchingOf(conns', y)
<1>1. IsFiniteSet(A) /\ IsFiniteSet(B) /\ Cardinality(A) \in Nat /\ Cardinality(B) \in Nat
  BY WatchingAre
<1>2. B \subseteq A \cup {c} /\ c \notin A /\ (y # x => B \subseteq A)
  BY DEF WatchingOf
<1> HIDE DEF A, B
<1>3. IsFiniteSet(A \cup {c}) /\ Cardinality(A \cup {c}) = Cardinality(A) + 1
  BY <1>1, <1>2, FS_AddElement
<1>4. Cardinality(B) <= Cardinality(A) + 1
  BY <1>2, <1>3, FS_Subset
<1>5. y # x => Cardinality(B) <= Cardinality(A)
  BY <1>1, <1>2, FS_Subset
<1> QED
  BY <1>1, <1>4, <1>5 DEF A, B

\* Nobody starts to watch.
LEMMA WatchSame ==
  ASSUME SameWatchers, NEW y \in Session
  PROVE  WatchingOf(conns', y) = WatchingOf(conns, y)
BY DEF SameWatchers, WatchingOf

-----------------------------------------------------------------------------
(***************************************************************************)
(* The parts of the invariant, and the steps that keep each of them.       *)
(***************************************************************************)
LEMMA OpenKept ==
  ASSUME TypeOK, TypeOK', OpenInv, QueueStep, proc'.listened = proc.listened,
         \A s \in Stream : recorder[s] = None <=> recorder'[s] = None,
         \A s \in Stream : meta'[s].open => meta[s].open /\ meta'[s].kind = meta[s].kind,
         \A x \in Session : ~ meta[x[1]].open /\ tokens[x] = 0 => tokens'[x] = 0
  PROVE  OpenInv'
<1>1. NotListened'
  <2>1. SUFFICES ASSUME NEW s \in Stream, s \notin proc'.listened
                 PROVE  /\ ~ meta'[s].open /\ recorder'[s] = None
                        /\ \A t \in Token, o \in OutputEnum : tokens'[<<s, t, o>>] = 0
    BY DEF NotListened
  <2>2. /\ ~ meta[s].open /\ recorder[s] = None
        /\ \A t \in Token, o \in OutputEnum : tokens[<<s, t, o>>] = 0
    BY <2>1 DEF OpenInv, NotListened
  <2>3. ASSUME NEW t \in Token, NEW o \in OutputEnum PROVE tokens'[<<s, t, o>>] = 0
    <3> DEFINE x == <<s, t, o>>
    <3>1. x \in Session /\ x[1] = s
      BY SessionMade
    <3>2. tokens[x] = 0
      BY <2>2
    <3> HIDE DEF x
    <3>3. tokens'[x] = 0
      BY <2>2, <3>1, <3>2
    <3> QED
      BY <3>3 DEF x
  <2> QED
    BY <2>2, <2>3
<1>2. ActiveOf'
  <2>1. SUFFICES ASSUME NEW e \in Range(queue'), e.kind = "Active"
                 PROVE  /\ e.s \in proc'.listened /\ recorder'[e.s] = None
                        /\ meta'[e.s].open => meta'[e.s].kind = "LocalMp4"
    BY DEF ActiveOf
  <2>2. e \in Range(queue)
    BY <2>1 DEF QueueStep
  <2>3. e \in EventType
    BY <2>1, InRange DEF TypeOK
  <2>4. e.s \in Stream
    BY <2>3, EventFields
  <2>5. /\ e.s \in proc.listened /\ recorder[e.s] = None
        /\ meta[e.s].open => meta[e.s].kind = "LocalMp4"
    BY <2>1, <2>2 DEF OpenInv, ActiveOf
  <2> QED
    BY <2>4, <2>5
<1>3. RecorderOf'
  BY DEF OpenInv, RecorderOf
<1>4. Once(queue')
  BY DEF OpenInv, QueueStep
<1> QED
  BY <1>1, <1>2, <1>3, <1>4 DEF OpenInv

LEMMA InputKept ==
  ASSUME TypeOK, InputCovered, Carried,
         \A s \in Stream : meta'[s].open => meta[s].open /\ (meta[s].unarmed => meta'[s].unarmed),
         \A s \in timers : Watched(s)
  PROVE  InputCovered'
<1>1. SUFFICES ASSUME NEW s \in Stream, meta'[s].open
               PROVE  s \in timers' \/ Event("InTimeout", s) \in Known' \/ meta'[s].unarmed
  BY DEF InputCovered, Known
<1> DEFINE e == Event("InTimeout", s)
<1>2. s \in timers \/ e \in Known \/ meta[s].unarmed
  BY <1>1 DEF InputCovered, Known
<1>3. e.kind = "InTimeout" /\ e.s = s
  BY DEF Event
<1> HIDE DEF e
<1>4. e \in Known => e \in Known'
  BY <1>1, <1>3 DEF Carried, Closer
<1> QED
  BY <1>1, <1>2, <1>4 DEF e, Watched

LEMMA IdleKept ==
  ASSUME IdleCovered, Carried, NEW s \in Stream, Same(meta[s], meta'[s]), Unused(s)'
  PROVE  \E e \in Known' : ClosesStream(e, s)
<1>1. meta'[s].open /\ meta'[s].played /\ meta'[s].kind # "LocalMp4" /\ get_out_count(meta'[s]) = 0
  BY DEF Unused
<1>2. Unused(s)
  BY <1>1 DEF Unused, Same, get_out_count
<1>3. PICK e \in Known : ClosesStream(e, s)
  BY <1>2 DEF IdleCovered, Known
<1>4. e \in Known'
  BY <1>1, <1>3 DEF Carried, Closer, ClosesStream
<1> QED
  BY <1>3, <1>4

\* The states of the invariant, with what the tokens stand for.
LEMMA CountsAre ==
  /\ CountMatchesTokens <=>
       \A s \in Stream : meta[s].open => \A o \in OutputEnum :
         meta[s].count[o] = Cardinality(UsesOf(tokens, s, o)) + Recorded(s, o)
  /\ CountMatchesTokens' <=>
       \A s \in Stream : meta'[s].open => \A o \in OutputEnum :
         meta'[s].count[o] = Cardinality(UsesOf(tokens', s, o)) + Recorded(s, o)'
BY UsesAre DEF CountMatchesTokens

SameRecording ==
  \A s \in Stream : recorder[s] \in {"running", "ending"} <=> recorder'[s] \in {"running", "ending"}

LEMMA RecordedSame ==
  ASSUME NEW s \in Stream, NEW o \in OutputEnum,
         recorder[s] \in {"running", "ending"} <=> recorder'[s] \in {"running", "ending"}
  PROVE  Recorded(s, o)' = Recorded(s, o)
BY DEF Recorded

LEMMA QuietInv ==
  ASSUME Inv, TypeOK', OpenInv', Quiet, SameRecording
  PROVE  Inv'
<1>1. CountMatchesTokens'
  <2>1. SUFFICES ASSUME NEW s \in Stream, meta'[s].open, NEW o \in OutputEnum
                 PROVE  meta'[s].count[o] = Cardinality(UsesOf(tokens', s, o)) + Recorded(s, o)'
    BY CountsAre
  <2>2. meta[s].open /\ meta'[s].count = meta[s].count /\ tokens' = tokens
    BY <2>1 DEF Quiet, AllSame, Same
  <2>3. meta[s].count[o] = Cardinality(UsesOf(tokens, s, o)) + Recorded(s, o)
    BY <2>2, CountsAre DEF Inv
  <2>4. Recorded(s, o)' = Recorded(s, o)
    BY RecordedSame DEF SameRecording
  <2> QED
    BY <2>2, <2>3, <2>4
<1>2. TokenCoversViewers'
  <2>1. SUFFICES ASSUME NEW x \in Session
                 PROVE  tokens'[x] >= sessions'[x] + Cardinality(WatchingOf(conns', x))
    BY TokensCover
  <2>2. WatchingOf(conns', x) = WatchingOf(conns, x) /\ tokens' = tokens /\ sessions' = sessions
    BY WatchSame DEF Quiet
  <2> QED
    BY <2>2, TokensCover DEF Inv
<1>3. InputCovered'
  <2>1. \A s \in Stream : meta'[s].open => meta[s].open /\ (meta[s].unarmed => meta'[s].unarmed)
    BY DEF Quiet, AllSame, Same
  <2> QED
    BY <2>1, InputKept DEF Inv, Quiet
<1>4. IdleCovered'
  <2>1. SUFFICES ASSUME NEW s \in Stream, Unused(s)' PROVE \E e \in Known' : ClosesStream(e, s)
    BY DEF IdleCovered, Known, ClosesStream
  <2> QED
    BY <2>1, IdleKept DEF Inv, Quiet, AllSame
<1> QED
  BY <1>1, <1>2, <1>3, <1>4 DEF Inv

LEMMA QuietOpen ==
  ASSUME TypeOK, TypeOK', OpenInv, Quiet, QueueStep, SameRecorder
  PROVE  OpenInv' /\ SameRecording
<1>1. \A s \in Stream : meta'[s].open => meta[s].open /\ meta'[s].kind = meta[s].kind
  BY DEF Quiet, AllSame, Same
<1>2. tokens' = tokens /\ proc'.listened = proc.listened
  BY DEF Quiet
<1>3. /\ \A s \in Stream : recorder[s] = None <=> recorder'[s] = None
      /\ SameRecording
  BY DEF SameRecorder, SameRecording
<1> QED
  BY <1>1, <1>2, <1>3, OpenKept

-----------------------------------------------------------------------------
(***************************************************************************)
(* The steps about viewers.                                                *)
(***************************************************************************)
LEMMA UseInv ==
  ASSUME Inv, TypeOK', NEW x \in Session, meta[x[1]].open, Uses1(x),
         UNCHANGED <<timers, queue, held, workers, dropped, recorder, proc>>,
         \A y \in Session :
           sessions'[y] + Cardinality(WatchingOf(conns', y)) <=
             sessions[y] + Cardinality(WatchingOf(conns, y)) + (IF y = x THEN 1 ELSE 0)
  PROVE  Inv'
<1> DEFINE s == x[1]  o == x[3]
<1>1. /\ s \in Stream /\ o \in OutputEnum /\ TypeOK /\ OpenInv /\ meta \in [Stream -> StreamMetadata]
      /\ tokens \in [Session -> Nat] /\ sessions \in [Session -> Nat]
      /\ sessions' \in [Session -> Nat]
  BY SessionParts DEF Inv, TypeOK
<1>2. /\ meta' = [meta EXCEPT ![s] = Played(meta[s], o)]
      /\ tokens' = [tokens EXCEPT ![x] = tokens[x] + 1]
      /\ meta[s].open
  BY DEF Uses1
<1> HIDE DEF s, o
<1>3. meta[s] \in StreamMetadata /\ \A r \in Stream \ {s} : meta'[r] = meta[r]
  BY <1>1, <1>2
<1>4. /\ meta[s].count[o] \in Nat /\ meta'[s].open /\ meta'[s].kind = meta[s].kind
      /\ meta'[s].unarmed = meta[s].unarmed
      /\ meta'[s].count[o] = meta[s].count[o] + 1
      /\ \A p \in OutputEnum \ {o} : meta'[s].count[p] = meta[s].count[p]
  <2>1. meta'[s] = Played(meta[s], o)
    BY <1>1, <1>2
  <2> QED
    BY <1>1, <1>2, <1>3, <2>1, PlayedMeta
<1>5. QueueStep /\ Carried
  BY ChannelSame
<1>6. \A r \in Stream : meta'[r].open => meta[r].open /\ meta'[r].kind = meta[r].kind
  BY <1>2, <1>3, <1>4
<1>7. OpenInv'
  <2>1. \A y \in Session : ~ meta[y[1]].open /\ tokens[y] = 0 => tokens'[y] = 0
    BY <1>1, <1>2
  <2> QED
    BY <1>1, <1>5, <1>6, <2>1, OpenKept
<1>8. CountMatchesTokens'
  <2>1. SUFFICES ASSUME NEW r \in Stream, meta'[r].open, NEW p \in OutputEnum
                 PROVE  meta'[r].count[p] = Cardinality(UsesOf(tokens', r, p)) + Recorded(r, p)'
    BY CountsAre
  <2>2. meta[r].count[p] = Cardinality(UsesOf(tokens, r, p)) + Recorded(r, p)
    BY <1>6, <2>1, CountsAre DEF Inv
  <2>3. Recorded(r, p)' = Recorded(r, p) /\ Recorded(r, p) \in Nat
    BY DEF Recorded
  <2>4. Cardinality(UsesOf(tokens', r, p)) =
          IF r = s /\ p = o THEN Cardinality(UsesOf(tokens, r, p)) + 1
                            ELSE Cardinality(UsesOf(tokens, r, p))
    <3>1. s = x[1] /\ o = x[3]
      BY DEF s, o
    <3>2. Cardinality(UsesOf(tokens', r, p)) =
            IF r = x[1] /\ p = x[3] THEN Cardinality(UsesOf(tokens, r, p)) + 1
                                     ELSE Cardinality(UsesOf(tokens, r, p))
      <4>1. OneUse(tokens, tokens', x)
        BY <1>1, <1>2 DEF OneUse
      <4>2. tokens' \in [Session -> Nat]
        BY DEF TypeOK
      <4> QED
        BY <1>1, <4>1, <4>2, UsedMore
    <3> QED
      BY <3>1, <3>2
  <2>5. Cardinality(UsesOf(tokens, r, p)) \in Nat
    BY <1>1, UsesFinite
  <2> QED
    BY <1>3, <1>4, <2>2, <2>3, <2>4, <2>5
<1>9. TokenCoversViewers'
  <2>1. SUFFICES ASSUME NEW y \in Session
                 PROVE  tokens'[y] >= sessions'[y] + Cardinality(WatchingOf(conns', y))
    BY TokensCover
  <2>2. tokens[y] >= sessions[y] + Cardinality(WatchingOf(conns, y))
    BY TokensCover DEF Inv
  <2>3. tokens'[y] = tokens[y] + (IF y = x THEN 1 ELSE 0)
    BY <1>1, <1>2
  <2>4. /\ tokens[y] \in Nat /\ sessions[y] \in Nat /\ sessions'[y] \in Nat
        /\ Cardinality(WatchingOf(conns, y)) \in Nat /\ Cardinality(WatchingOf(conns', y)) \in Nat
    BY <1>1, WatchingAre
  <2> QED
    BY <2>2, <2>3, <2>4
<1>10. InputCovered'
  <2>1. /\ \A r \in Stream : meta'[r].open => meta[r].open /\ (meta[r].unarmed => meta'[r].unarmed)
        /\ \A r \in timers : Watched(r)
    BY <1>3, <1>4, <1>5, <1>6 DEF Watched
  <2> QED
    BY <1>5, <2>1, InputKept DEF Inv
<1>11. IdleCovered'
  <2>1. SUFFICES ASSUME NEW r \in Stream, Unused(r)' PROVE \E e \in Known' : ClosesStream(e, r)
    BY DEF IdleCovered, Known, ClosesStream
  <2>2. r # s
    <3>1. SUFFICES ASSUME r = s PROVE FALSE
      OBVIOUS
    <3>2. meta'[s] \in StreamMetadata /\ get_out_count(meta'[s]) = 0
      BY <1>1, <2>1, <3>1 DEF TypeOK, Unused
    <3>3. meta'[s].count[o] = 0
      BY <1>1, <3>2, OutCount
    <3> QED
      BY <1>4, <3>3
  <2>3. Same(meta[r], meta'[r])
    BY <1>3, <2>2 DEF Same
  <2> QED
    BY <1>5, <2>1, <2>3, IdleKept DEF Inv
<1> QED
  BY <1>7, <1>8, <1>9, <1>10, <1>11 DEF Inv

\* A request that is admitted.
LEMMA AdmitInv ==
  ASSUME Inv, TypeOK', NEW c \in Conn, NEW x \in Session, Admit(c, x), conns[c].pc # "watching",
         UNCHANGED <<timers, sessions, queue, held, workers, dropped, recorder, proc>>
  PROVE  Inv'
<1>1. TypeOK /\ MetaTyped /\ ViewTyped /\ ChannelTyped /\ RestTyped
  BY TypeParts DEF Inv
<1>2. /\ \/ meta[x[1]].open /\ Uses1(x)
         \/ ~ meta[x[1]].open /\ UNCHANGED <<meta, tokens>> /\ conns'[c].pc = "done"
      /\ conns'[c].of = x /\ \A d \in Conn \ {c} : conns'[d] = conns[d]
  BY <1>1, Admitted
<1>3. CASE meta[x[1]].open /\ Uses1(x)
  <2>1. ASSUME NEW y \in Session
        PROVE  sessions'[y] + Cardinality(WatchingOf(conns', y)) <=
                 sessions[y] + Cardinality(WatchingOf(conns, y)) + (IF y = x THEN 1 ELSE 0)
    <3>1. Cardinality(WatchingOf(conns', y)) <=
             Cardinality(WatchingOf(conns, y)) + (IF y = x THEN 1 ELSE 0)
      BY <1>2, WatchMore
    <3>2. /\ Cardinality(WatchingOf(conns, y)) \in Nat /\ Cardinality(WatchingOf(conns', y)) \in Nat
          /\ sessions[y] \in Nat /\ sessions'[y] = sessions[y]
      BY <1>1, WatchingAre DEF ViewTyped
    <3> QED
      BY <3>1, <3>2
  <2> QED
    BY <1>3, <2>1, UseInv
<1>4. CASE ~ meta[x[1]].open /\ UNCHANGED <<meta, tokens>> /\ conns'[c].pc = "done"
  <2>1. SameWatchers
    BY <1>2, <1>4 DEF SameWatchers
  <2>2. AllSame
    BY <1>1, <1>4, MetaUnchanged
  <2>3. Quiet /\ QueueStep /\ SameRecorder
    BY <1>4, <2>1, <2>2, ChannelSame DEF Quiet, Watched, SameRecorder
  <2> QED
    BY <1>1, <2>3, QuietOpen, QuietInv DEF Inv
<1> QED
  BY <1>2, <1>3, <1>4

LEMMA PlayInv ==
  ASSUME Inv, NEW c \in Conn, NEW s \in Stream, NEW t \in Token, NEW o \in Requests,
         play(c, s, t, o)
  PROVE  Inv'
<1>1. TypeOK /\ MetaTyped /\ ViewTyped
  BY TypeParts DEF Inv
<1>2. TypeOK'
  BY <1>1, PlayTyped
<1> DEFINE x == <<s, t, o>>
<1>3. /\ x \in Session /\ conns[c].pc = "idle"
      /\ UNCHANGED <<timers, sessions, queue, held, workers, dropped, recorder, proc>>
      /\ \/ Admit(c, x)
         \/ /\ conns' = [conns EXCEPT ![c] = [pc |-> "asking", of |-> x]]
            /\ UNCHANGED <<meta, tokens>>
  BY PlayCases
<1> HIDE DEF x
<1>4. CASE Admit(c, x)
  BY <1>2, <1>3, <1>4, AdmitInv
<1>5. CASE /\ conns' = [conns EXCEPT ![c] = [pc |-> "asking", of |-> x]]
           /\ UNCHANGED <<meta, tokens>>
  <2>1. conns'[c].pc = "asking" /\ \A d \in Conn \ {c} : conns'[d] = conns[d]
    BY <1>1, <1>3, <1>5, ConnSet DEF ViewTyped
  <2>2. SameWatchers
    BY <1>3, <2>1 DEF SameWatchers
  <2>3. AllSame
    BY <1>1, <1>5, MetaUnchanged
  <2>4. Quiet /\ QueueStep /\ SameRecorder
    BY <1>3, <1>5, <2>2, <2>3, ChannelSame DEF Quiet, Watched, SameRecorder
  <2> QED
    BY <1>1, <1>2, <2>4, QuietOpen, QuietInv DEF Inv
<1> QED
  BY <1>3, <1>4, <1>5

LEMMA GrantedInv ==
  ASSUME Inv, NEW c \in Conn, play_granted(c)
  PROVE  Inv'
<1>1. TypeOK' /\ conns[c].of \in Session /\ conns[c].pc = "granted"
  BY GrantedTyped DEF Inv
<1>2. /\ Admit(c, conns[c].of)
      /\ UNCHANGED <<timers, sessions, queue, held, workers, dropped, recorder, proc>>
  BY DEF play_granted, eventVars, mediaVars
<1> QED
  BY <1>1, <1>2, AdmitInv

LEMMA SegmentInv ==
  ASSUME Inv, NEW c \in Conn, NEW s \in Stream, NEW t \in Token, segment(c, s, t)
  PROVE  Inv'
<1>1. TypeOK /\ TypeOK' /\ sessions \in [Session -> Nat]
  BY SegmentTyped DEF Inv, TypeOK
<1> DEFINE x == <<s, t, "DashMp4">>
<1>2. /\ x \in Session /\ meta[x[1]].open /\ Uses1(x)
      /\ conns[c].pc = "idle" /\ conns'[c].pc = "done"
      /\ \A d \in Conn \ {c} : conns'[d] = conns[d]
      /\ sessions' = [sessions EXCEPT ![x] = sessions[x] + 1] \/ sessions' = sessions
      /\ UNCHANGED <<timers, queue, held, workers, dropped, recorder, proc>>
  BY <1>1, SegmentFacts
<1> HIDE DEF x
<1>3. SameWatchers
  BY <1>2 DEF SameWatchers
<1>4. ASSUME NEW y \in Session
      PROVE  sessions'[y] + Cardinality(WatchingOf(conns', y)) <=
               sessions[y] + Cardinality(WatchingOf(conns, y)) + (IF y = x THEN 1 ELSE 0)
  <2>1. WatchingOf(conns', y) = WatchingOf(conns, y)
    BY <1>3, WatchSame
  <2>2. Cardinality(WatchingOf(conns, y)) \in Nat /\ sessions[y] \in Nat
    BY <1>1, WatchingAre
  <2>3. /\ sessions'[y] \in {sessions[y], sessions[y] + 1}
        /\ y # x => sessions'[y] = sessions[y]
    BY <1>1, <1>2
  <2> QED
    BY <2>1, <2>2, <2>3
<1> QED
  BY <1>1, <1>2, <1>4, UseInv

LEMMA DisconnectInv ==
  ASSUME Inv, NEW c \in Conn, disconnect(c)
  PROVE  Inv'
<1> DEFINE x == conns[c].of
<1>1. /\ x \in Session /\ conns[c].pc = "watching"
      /\ \/ sessions' = [sessions EXCEPT ![x] = sessions[x] + 1]
         \/ sessions' = sessions
      /\ conns'[c].pc = "done" /\ \A d \in Conn \ {c} : conns'[d] = conns[d]
      /\ UNCHANGED <<meta, timers, tokens, queue, held, workers, dropped, recorder, proc>>
      /\ TypeOK' /\ AllSame
  BY DisconnectFacts DEF Inv
<1>2. TypeOK /\ OpenInv /\ sessions \in [Session -> Nat] /\ tokens \in [Session -> Nat]
  BY DEF Inv, TypeOK
<1>3. c \in WatchingOf(conns, x) /\ c \notin WatchingOf(conns', x)
  BY <1>1 DEF WatchingOf
<1>4. \A y \in Session : WatchingOf(conns', y) = WatchingOf(conns, y) \ {c}
  BY <1>1 DEF WatchingOf
<1> HIDE DEF x
<1>5. QueueStep /\ Carried
  BY <1>1, ChannelSame
<1>6. OpenInv'
  BY <1>1, <1>2, <1>5, OpenKept
<1>7. CountMatchesTokens'
  BY <1>1 DEF Inv, CountMatchesTokens, Uses, Recorded
<1>8. TokenCoversViewers'
  <2>1. SUFFICES ASSUME NEW y \in Session
                 PROVE  tokens'[y] >= sessions'[y] + Cardinality(WatchingOf(conns', y))
    BY TokensCover
  <2>2. /\ tokens[y] >= sessions[y] + Cardinality(WatchingOf(conns, y))
        /\ tokens[y] \in Nat /\ sessions[y] \in Nat
    BY <1>2, TokensCover DEF Inv
  <2>3. /\ Cardinality(WatchingOf(conns, y)) \in Nat /\ Cardinality(WatchingOf(conns', y)) \in Nat
        /\ IsFiniteSet(WatchingOf(conns, y))
    BY WatchingAre
  <2>4. Cardinality(WatchingOf(conns', y)) =
          IF c \in WatchingOf(conns, y) THEN Cardinality(WatchingOf(conns, y)) - 1
                                        ELSE Cardinality(WatchingOf(conns, y))
    BY <1>4, <2>3, FS_RemoveElement
  <2>5. sessions'[y] <= sessions[y] + (IF y = x THEN 1 ELSE 0) /\ sessions'[y] \in Nat
    BY <1>1, <1>2
  <2> QED
    BY <1>1, <1>3, <2>2, <2>3, <2>4, <2>5
<1>9. InputCovered'
  BY <1>1 DEF Inv, InputCovered, Pending
<1>10. IdleCovered'
  BY <1>1 DEF Inv, IdleCovered, Pending, Unused
<1> QED
  BY <1>1, <1>6, <1>7, <1>8, <1>9, <1>10 DEF Inv

\* A session expires: a use and its count go together.
LEMMA CleanInv ==
  ASSUME Inv, NEW x \in Session, clean_play_token(x)
  PROVE  Inv'
<1> DEFINE s == x[1]  o == x[3]  left == subtract(meta[s].count[o])
           idle == [Event("Idle", s) EXCEPT !.out = o,
                       !.n = get_out_count([meta[s] EXCEPT !.count[o] = left])]
<1>1. /\ TypeOK /\ OpenInv /\ s \in Stream /\ o \in OutputEnum /\ meta \in [Stream -> StreamMetadata]
      /\ tokens \in [Session -> Nat] /\ sessions \in [Session -> Nat]
  BY SessionParts DEF Inv, TypeOK
<1>2. /\ TypeOK' /\ SameWatchers /\ Kept
      /\ UNCHANGED <<timers, recorder, proc>>
      /\ sessions[x] > 0 /\ sessions' = [sessions EXCEPT ![x] = sessions[x] - 1]
      /\ tokens' = [tokens EXCEPT ![x] = subtract(tokens[x])]
      /\ \/ ~ meta[s].open /\ meta' = meta
         \/ meta[s].open /\ meta' = [meta EXCEPT ![s] = [meta[s] EXCEPT !.count[o] = left]]
      /\ meta[s].open /\ left = 0 => idle \in Known'
      /\ Once(queue) => Once(queue')
      /\ \A e \in Range(queue') \ Range(queue) : e.kind # "Active"
  BY <1>1, SessionExpires
<1>3. meta[s].count[o] \in Nat /\ left \in Nat
  <2>1. meta[s].count[o] \in Nat
    BY <1>1 DEF StreamMetadata
  <2> DEFINE n == meta[s].count[o]
  <2>2. left = IF n = 0 THEN 0 ELSE n - 1
    BY DEF subtract
  <2> HIDE DEF left, n
  <2>3. n \in Nat
    BY <2>1 DEF n
  <2> QED
    BY <2>1, <2>2, <2>3
<1>4. left = IF meta[s].count[o] = 0 THEN 0 ELSE meta[s].count[o] - 1
  BY DEF subtract
<1>5. idle.kind = "Idle" /\ idle.s = s /\ idle.n = get_out_count([meta[s] EXCEPT !.count[o] = left])
  <2> HIDE DEF s, o, left
  <2> QED
    BY DEF Event
<1>6. s = x[1] /\ o = x[3]
  OBVIOUS
<1> HIDE DEF s, o, left, idle
<1>7. meta[s] \in StreamMetadata
  BY <1>1
<1> DEFINE m == [meta[s] EXCEPT !.count[o] = left]
<1>8. /\ m \in StreamMetadata /\ m.open = meta[s].open /\ m.kind = meta[s].kind
      /\ m.played = meta[s].played /\ m.unarmed = meta[s].unarmed
      /\ m.count[o] = left /\ \A p \in OutputEnum \ {o} : m.count[p] = meta[s].count[p]
  <2> DEFINE k == meta[s]
  <2>1. k \in StreamMetadata
    BY <1>7
  <2> HIDE DEF k
  <2>2. LET n == [k EXCEPT !.count[o] = left]
        IN  /\ n \in StreamMetadata /\ n.open = k.open /\ n.kind = k.kind /\ n.played = k.played
            /\ n.unarmed = k.unarmed
            /\ n.count[o] = left /\ \A p \in OutputEnum \ {o} : n.count[p] = k.count[p]
    BY <1>1, <1>3, <2>1, Counted
  <2> QED
    BY <2>2 DEF k
<1>9. \/ ~ meta[s].open /\ meta' = meta
      \/ meta[s].open /\ meta' = [meta EXCEPT ![s] = m]
  BY <1>2
<1>10. idle.n = get_out_count(m)
  BY <1>5
<1> HIDE DEF m
<1>11. \A r \in Stream \ {s} : meta'[r] = meta[r]
  BY <1>1, <1>9
<1>12. meta[s].open => meta'[s] = m
  BY <1>1, <1>9
<1>13. \A r \in Stream : meta'[r].open => meta[r].open /\ meta'[r].kind = meta[r].kind
  BY <1>1, <1>8, <1>9, <1>11, <1>12
<1>14. tokens[x] > 0 /\ tokens' = [tokens EXCEPT ![x] = tokens[x] - 1]
  <2>1. tokens[x] >= sessions[x] + Cardinality(WatchingOf(conns, x))
    BY TokensCover DEF Inv
  <2>2. tokens[x] \in Nat /\ sessions[x] \in Nat /\ Cardinality(WatchingOf(conns, x)) \in Nat
    BY <1>1, WatchingAre
  <2>3. tokens[x] > 0
    BY <1>2, <2>1, <2>2
  <2>4. subtract(tokens[x]) = tokens[x] - 1
    BY <2>2, <2>3 DEF subtract
  <2> QED
    BY <1>2, <2>3, <2>4
<1>15. QueueStep /\ Carried
  BY <1>2, KeptCarried DEF QueueStep
<1>16. OpenInv'
  <2>1. \A y \in Session : ~ meta[y[1]].open /\ tokens[y] = 0 => tokens'[y] = 0
    BY <1>1, <1>14
  <2>2. \A r \in Stream : recorder[r] = None <=> recorder'[r] = None
    BY <1>2
  <2> QED
    BY <1>1, <1>2, <1>13, <1>15, <2>1, <2>2, OpenKept
<1>17. CountMatchesTokens'
  <2>1. SUFFICES ASSUME NEW r \in Stream, meta'[r].open, NEW p \in OutputEnum
                 PROVE  meta'[r].count[p] = Cardinality(UsesOf(tokens', r, p)) + Recorded(r, p)'
    BY CountsAre
  <2>2. meta[r].count[p] = Cardinality(UsesOf(tokens, r, p)) + Recorded(r, p)
    BY <1>13, <2>1, CountsAre DEF Inv
  <2>3. Recorded(r, p)' = Recorded(r, p) /\ Recorded(r, p) \in Nat
    BY <1>2 DEF Recorded
  <2>4. Cardinality(UsesOf(tokens', r, p)) =
          IF r = x[1] /\ p = x[3] THEN Cardinality(UsesOf(tokens, r, p)) - 1
                                  ELSE Cardinality(UsesOf(tokens, r, p))
    <3>1. tokens[x] \in Nat /\ tokens'[x] = tokens[x] - 1 /\ \A y \in Session \ {x} : tokens'[y] = tokens[y]
      BY <1>1, <1>14
    <3>2. OneUse(tokens', tokens, x)
      BY <3>1 DEF OneUse
    <3>3. tokens' \in [Session -> Nat]
      BY <1>2 DEF TypeOK
    <3> QED
      BY <1>1, <3>2, <3>3, UsedLess
  <2>5. Cardinality(UsesOf(tokens, r, p)) \in Nat
    BY <1>1, UsesFinite
  <2>6. Cardinality(UsesOf(tokens, s, o)) > 0
    BY <1>1, <1>6, <1>14, UsesOne
  <2>7. CASE r = s /\ p = o
    <3>1. meta[s].count[o] > 0
      BY <2>2, <2>3, <2>5, <2>6, <2>7
    <3>2. meta'[s].count[o] = meta[s].count[o] - 1
      BY <1>3, <1>4, <1>8, <1>12, <1>13, <2>1, <2>7, <3>1
    <3> QED
      BY <1>6, <2>2, <2>3, <2>4, <2>5, <2>7, <3>2
  <2>8. CASE ~ (r = s /\ p = o)
    <3>1. meta'[r].count[p] = meta[r].count[p]
      BY <1>8, <1>11, <1>12, <1>13, <2>1, <2>8
    <3> QED
      BY <1>6, <2>2, <2>3, <2>4, <2>8, <3>1
  <2> QED
    BY <2>7, <2>8
<1>18. TokenCoversViewers'
  <2>1. SUFFICES ASSUME NEW y \in Session
                 PROVE  tokens'[y] >= sessions'[y] + Cardinality(WatchingOf(conns', y))
    BY TokensCover
  <2>2. tokens[y] >= sessions[y] + Cardinality(WatchingOf(conns, y))
    BY TokensCover DEF Inv
  <2>3. WatchingOf(conns', y) = WatchingOf(conns, y)
    BY <1>2, WatchSame
  <2>4. tokens[y] \in Nat /\ sessions[y] \in Nat /\ Cardinality(WatchingOf(conns, y)) \in Nat
    BY <1>1, WatchingAre
  <2>5. \/ y # x /\ tokens'[y] = tokens[y] /\ sessions'[y] = sessions[y]
        \/ y = x /\ tokens'[y] = tokens[y] - 1 /\ sessions'[y] = sessions[y] - 1
    BY <1>1, <1>2, <1>14
  <2> QED
    BY <2>2, <2>3, <2>4, <2>5
<1>19. InputCovered'
  <2>1. /\ \A r \in Stream : meta'[r].open => meta[r].open /\ (meta[r].unarmed => meta'[r].unarmed)
        /\ \A r \in timers : Watched(r)
    BY <1>2, <1>8, <1>9, <1>11, <1>12, <1>13 DEF Watched
  <2> QED
    BY <1>1, <1>15, <2>1, InputKept DEF Inv
<1>20. IdleCovered'
  <2>1. SUFFICES ASSUME NEW r \in Stream, Unused(r)' PROVE \E e \in Known' : ClosesStream(e, r)
    BY DEF IdleCovered, Known, ClosesStream
  <2>2. CASE r # s
    <3>1. Same(meta[r], meta'[r])
      BY <1>11, <2>2 DEF Same
    <3> QED
      BY <1>15, <2>1, <3>1, IdleKept DEF Inv
  <2>3. CASE r = s
    <3>1. meta'[s].open /\ get_out_count(meta'[s]) = 0
      BY <2>1, <2>3 DEF Unused
    <3>2. meta[s].open /\ meta'[s] = m
      BY <1>12, <1>13, <2>3, <3>1
    <3>3. idle.n = 0 /\ left = 0
      BY <1>1, <1>8, <1>10, <3>1, <3>2, OutCount
    <3>4. idle \in Known' /\ ClosesStream(idle, s)
      BY <1>2, <1>5, <3>2, <3>3 DEF ClosesStream
    <3> QED
      BY <2>3, <3>4
  <2> QED
    BY <2>2, <2>3
<1> QED
  BY <1>2, <1>16, <1>17, <1>18, <1>19, <1>20 DEF Inv

-----------------------------------------------------------------------------
(***************************************************************************)
(* The recorder.                                                           *)
(***************************************************************************)
\* A step of the recorder of s: it counts n uses instead of those before.
LEMMA RecorderInv ==
  ASSUME Inv, NEW s \in Stream, NEW to \in {"running", "ended"}, NEW n \in Nat,
         recorder[s] # None, recorder' = [recorder EXCEPT ![s] = to],
         meta' = IF meta[s].open THEN [meta EXCEPT ![s].count["LocalMp4"] = n] ELSE meta,
         meta[s].open => n + Recorded(s, "LocalMp4") =
                           meta[s].count["LocalMp4"] + (IF to = "running" THEN 1 ELSE 0),
         ChannelTyped', QueueStep, Carried,
         UNCHANGED <<timers, sessions, tokens, unknown, conns, proc, context, sending>>
  PROVE  Inv'
<1>1. /\ TypeOK /\ MetaTyped /\ ViewTyped /\ RestTyped /\ OpenInv
      /\ meta \in [Stream -> StreamMetadata] /\ meta[s] \in StreamMetadata
      /\ tokens \in [Session -> Nat]
      /\ recorder \in [Stream -> {None, "spawned", "running", "ending", "ended"}]
  BY TypeParts DEF Inv, TypeOK
<1>2. "LocalMp4" \in OutputEnum
  BY DEF OutputEnum
<1> DEFINE m == [meta[s] EXCEPT !.count["LocalMp4"] = n]
<1>3. meta' = IF meta[s].open THEN [meta EXCEPT ![s] = m] ELSE meta
  OBVIOUS
<1>4. /\ m \in StreamMetadata /\ m.open = meta[s].open /\ m.kind = meta[s].kind
      /\ m.unarmed = meta[s].unarmed /\ m.count["LocalMp4"] = n
      /\ \A p \in OutputEnum \ {"LocalMp4"} : m.count[p] = meta[s].count[p]
  <2> DEFINE k == meta[s]
  <2>1. k \in StreamMetadata
    BY <1>1
  <2> HIDE DEF k
  <2>2. LET j == [k EXCEPT !.count["LocalMp4"] = n]
        IN  /\ j \in StreamMetadata /\ j.open = k.open /\ j.kind = k.kind
            /\ j.unarmed = k.unarmed /\ j.count["LocalMp4"] = n
            /\ \A p \in OutputEnum \ {"LocalMp4"} : j.count[p] = k.count[p]
    BY <1>2, <2>1, Counted
  <2> QED
    BY <2>2 DEF k
<1> HIDE DEF m
<1>5. /\ \A r \in Stream \ {s} : meta'[r] = meta[r]
      /\ meta[s].open => meta'[s] = m
      /\ ~ meta[s].open => meta'[s] = meta[s]
  BY <1>1, <1>3
<1>6. \A r \in Stream : meta'[r].open => meta[r].open /\ meta'[r].kind = meta[r].kind
  BY <1>4, <1>5
<1>7. recorder'[s] = to /\ \A r \in Stream \ {s} : recorder'[r] = recorder[r]
  BY <1>1
<1>8. TypeOK'
  <2>1. MetaTyped'
    BY <1>1, <1>3, <1>4 DEF MetaTyped
  <2>2. recorder' \in [Stream -> {None, "spawned", "running", "ending", "ended"}]
    BY <1>1
  <2>3. RestTyped'
    BY <1>1, <2>2 DEF RestTyped
  <2>4. ViewTyped'
    BY <1>1, ViewUntouched
  <2> QED
    BY <2>1, <2>3, <2>4, TypePartsNext
<1>9. OpenInv'
  <2>1. \A r \in Stream : recorder[r] = None <=> recorder'[r] = None
    BY <1>7 DEF None
  <2> QED
    BY <1>1, <1>6, <1>8, <2>1, OpenKept
<1>10. CountMatchesTokens'
  <2>1. SUFFICES ASSUME NEW r \in Stream, meta'[r].open, NEW p \in OutputEnum
                 PROVE  meta'[r].count[p] = Cardinality(UsesOf(tokens', r, p)) + Recorded(r, p)'
    BY CountsAre
  <2>2. meta[r].count[p] = Cardinality(UsesOf(tokens, r, p)) + Recorded(r, p)
    BY <1>6, <2>1, CountsAre DEF Inv
  <2>3. Cardinality(UsesOf(tokens, r, p)) \in Nat /\ Recorded(r, p) \in Nat
    BY <1>1, UsesFinite DEF Recorded
  <2>4. CASE r = s /\ p = "LocalMp4"
    <3>1. Recorded(r, p)' = IF to = "running" THEN 1 ELSE 0
      BY <1>7, <2>4 DEF Recorded
    <3>2. meta'[r].count[p] = n /\ n + Recorded(r, p) = meta[r].count[p] + Recorded(r, p)'
      BY <1>4, <1>5, <1>6, <2>1, <2>4, <3>1
    <3>3. Recorded(r, p)' \in Nat
      BY <3>1
    <3> QED
      BY <2>2, <2>3, <3>2, <3>3
  <2>5. CASE ~ (r = s /\ p = "LocalMp4")
    <3>1. Recorded(r, p)' = Recorded(r, p)
      BY <1>7, <2>5 DEF Recorded
    <3>2. meta'[r].count[p] = meta[r].count[p]
      BY <1>4, <1>5, <1>6, <2>1, <2>5
    <3> QED
      BY <2>2, <3>1, <3>2
  <2> QED
    BY <2>4, <2>5
<1>11. TokenCoversViewers'
  BY DEF Inv, TokenCoversViewers, Watching
<1>12. InputCovered'
  <2>1. /\ \A r \in Stream : meta'[r].open => meta[r].open /\ (meta[r].unarmed => meta'[r].unarmed)
        /\ \A r \in timers : Watched(r)
    BY <1>3, <1>4, <1>5, <1>6 DEF Watched
  <2> QED
    BY <1>1, <2>1, InputKept DEF Inv
<1>13. IdleCovered'
  <2>1. SUFFICES ASSUME NEW r \in Stream, Unused(r)' PROVE \E e \in Known' : ClosesStream(e, r)
    BY DEF IdleCovered, Known, ClosesStream
  <2>2. r # s
    BY <1>1, <1>6, <2>1 DEF Unused, OpenInv, RecorderOf
  <2>3. Same(meta[r], meta'[r])
    BY <1>5, <2>2 DEF Same
  <2> QED
    BY <2>1, <2>3, IdleKept DEF Inv
<1> QED
  BY <1>8, <1>9, <1>10, <1>11, <1>12, <1>13 DEF Inv

LEMMA StoreInv ==
  ASSUME Inv, NEW s \in Stream, store(s)
  PROVE  Inv'
<1> DEFINE n == meta[s].count["LocalMp4"] + 1
<1>1. /\ recorder[s] = "spawned" /\ recorder' = [recorder EXCEPT ![s] = "running"]
      /\ meta' = IF meta[s].open THEN [meta EXCEPT ![s].count["LocalMp4"] = n] ELSE meta
      /\ UNCHANGED <<timers, sessions, tokens, queue, held, workers, dropped, unknown, conns, proc,
                     context, sending>>
  BY DEF store, eventVars
<1>2. ChannelTyped' /\ QueueStep /\ Carried
  BY <1>1, TypeParts, ChannelUntouched, ChannelSame DEF Inv
<1>3. meta[s].count["LocalMp4"] \in Nat /\ n \in Nat
  BY DEF Inv, TypeOK, StreamMetadata, OutputEnum
<1>4. n + Recorded(s, "LocalMp4") = meta[s].count["LocalMp4"] + 1
  BY <1>1, <1>3 DEF Recorded
<1>5. recorder[s] # None
  BY <1>1 DEF None
<1> HIDE DEF n
<1> QED
  BY <1>1, <1>2, <1>3, <1>4, <1>5, RecorderInv

LEMMA EndRecordInv ==
  ASSUME Inv, NEW s \in Stream, end_record(s)
  PROVE  Inv'
<1> DEFINE n == subtract(meta[s].count["LocalMp4"])  e == Event("EndRecord", s)
<1>1. /\ recorder[s] = "ending" /\ recorder' = [recorder EXCEPT ![s] = "ended"]
      /\ ~ full(queue) /\ queue' = Append(queue, e)
      /\ meta' = IF meta[s].open THEN [meta EXCEPT ![s].count["LocalMp4"] = n] ELSE meta
      /\ UNCHANGED <<timers, sessions, tokens, held, workers, dropped, unknown, conns, proc,
                     context, sending>>
  BY DEF end_record
<1>2. e \in EventType /\ e.kind # "Active"
  BY EventTyped DEF EventKind
<1>3. ChannelTyped
  BY TypeParts DEF Inv
<1> HIDE DEF e
<1>4. ChannelTyped' /\ QueueStep /\ Carried
  BY <1>1, <1>2, <1>3, ChannelGrows DEF try_send
<1> DEFINE c == meta[s].count["LocalMp4"]
<1>5. c \in Nat
  BY DEF Inv, TypeOK, StreamMetadata, OutputEnum
<1>6. n = IF c = 0 THEN 0 ELSE c - 1
  BY DEF subtract
<1>7. meta[s].open => c > 0
  <2>1. SUFFICES ASSUME meta[s].open PROVE c > 0
    OBVIOUS
  <2>2. "LocalMp4" \in OutputEnum /\ tokens \in [Session -> Nat]
    BY DEF OutputEnum, Inv, TypeOK
  <2>3. c = Cardinality(UsesOf(tokens, s, "LocalMp4")) + Recorded(s, "LocalMp4")
    BY <2>1, <2>2, CountsAre DEF Inv
  <2>4. Cardinality(UsesOf(tokens, s, "LocalMp4")) \in Nat
    BY <2>2, UsesFinite
  <2>5. Recorded(s, "LocalMp4") = 1
    BY <1>1 DEF Recorded
  <2> HIDE DEF c
  <2> QED
    BY <2>3, <2>4, <2>5
<1> HIDE DEF n, c
<1>8. n \in Nat /\ (meta[s].open => n + 1 = c)
  BY <1>5, <1>6, <1>7
<1>9. meta[s].open => n + Recorded(s, "LocalMp4") = meta[s].count["LocalMp4"] + 0
  <2>1. Recorded(s, "LocalMp4") = 1
    BY <1>1 DEF Recorded
  <2> QED
    BY <1>5, <1>8, <2>1 DEF c
<1>10. recorder[s] # None
  BY <1>1 DEF None
<1> QED
  BY <1>1, <1>4, <1>8, <1>9, <1>10, RecorderInv

-----------------------------------------------------------------------------
(***************************************************************************)
(* Opening a stream: it has neither a viewer nor a recorder yet.           *)
(***************************************************************************)
LEMMA ListenInv ==
  ASSUME Inv, NEW s \in Stream, NEW k \in Kinds, listen_media(s, k)
  PROVE  Inv'
<1> DEFINE m == [NoStream EXCEPT !.open = TRUE, !.kind = k, !.layer = TRUE]
           a == Event("Active", s)
<1>1. /\ TypeOK /\ OpenInv /\ meta \in [Stream -> StreamMetadata] /\ tokens \in [Session -> Nat]
      /\ queue \in Seq(EventType) /\ Len(queue) <= MaxQueue
  BY DEF Inv, TypeOK
<1>2. TypeOK'
  BY <1>1, ListenTyped
<1>3. /\ s \notin proc.listened /\ arm(s, m)
      /\ queue' = IF k = "LocalMp4" THEN try_send(queue, a) ELSE queue
      /\ UNCHANGED <<sessions, tokens, held, workers, dropped, conns, recorder>>
  BY DEF listen_media
<1>4. proc'.listened = proc.listened \cup {s}
  BY <1>1 DEF listen_media, TypeOK
<1>5. k \in OutputEnum
  BY MediaAssumption DEF OutputEnum, Live
<1>6. /\ m \in StreamMetadata /\ m.open /\ m.kind = k
      /\ m.count = [o \in OutputEnum |-> 0] /\ ~ m.played
  BY <1>5, Opened
<1>7. a \in EventType /\ a.kind = "Active" /\ a.s = s
  BY EventTyped DEF EventKind
<1> HIDE DEF m, a
<1>8. /\ meta'[s].open /\ meta'[s].kind = k /\ ~ meta'[s].played
      /\ meta'[s].count = [o \in OutputEnum |-> 0]
      /\ s \in timers' \/ meta'[s].unarmed
      /\ \A r \in Stream \ {s} : meta'[r] = meta[r]
      /\ timers' = timers \cup {s} \/ timers' = timers \ {s}
  <2>1. MetaTyped
    BY <1>1 DEF MetaTyped
  <2> QED
    BY <1>3, <1>6, <2>1, Arms
<1>9. /\ recorder[s] = None /\ ~ meta[s].open
      /\ \A t \in Token, o \in OutputEnum : tokens[<<s, t, o>>] = 0
  BY <1>1, <1>3 DEF OpenInv, NotListened
<1>10. /\ Range(queue) \subseteq Range(queue')
       /\ \A e \in Range(queue') : e \in Range(queue) \/ (e = a /\ k = "LocalMp4")
       /\ queue' = queue \/ (~ full(queue) /\ queue' = Append(queue, a))
  BY <1>1, <1>3, <1>7, Sent DEF try_send
<1>11. \A e \in Range(queue) : e.kind = "Active" => e.s # s
  BY <1>1, <1>3 DEF OpenInv, ActiveOf
<1>12. Once(queue')
  <2>1. Once(queue)
    BY <1>1 DEF OpenInv
  <2>2. CASE queue' = Append(queue, a)
    <3>1. /\ Len(queue') = Len(queue) + 1 /\ Len(queue) \in Nat
          /\ \A i \in 1 .. Len(queue) : queue'[i] = queue[i]
          /\ queue'[Len(queue) + 1] = a
      BY <1>1, <1>7, <2>2, Appended
    <3>2. \A i \in 1 .. Len(queue) : queue[i].kind = "Active" => queue[i].s # s
      BY <1>1, <1>11, InRange
    <3>3. SUFFICES ASSUME NEW i \in 1 .. Len(queue'), NEW j \in 1 .. Len(queue'),
                          queue'[i].kind = "Active", queue'[j].kind = "Active",
                          queue'[i].s = queue'[j].s
                   PROVE  i = j
      BY DEF Once
    <3>4. CASE i <= Len(queue) /\ j <= Len(queue)
      BY <2>1, <3>1, <3>3, <3>4 DEF Once
    <3>5. CASE i = Len(queue) + 1 \/ j = Len(queue) + 1
      <4>1. i = Len(queue) + 1 => ~ (j <= Len(queue))
        BY <1>7, <3>1, <3>2, <3>3
      <4>2. j = Len(queue) + 1 => ~ (i <= Len(queue))
        BY <1>7, <3>1, <3>2, <3>3
      <4> QED
        BY <3>1, <3>3, <3>5, <4>1, <4>2
    <3> QED
      BY <3>1, <3>3, <3>4, <3>5
  <2> QED
    BY <1>10, <2>1, <2>2
<1>13. ActiveOf'
  <2>1. SUFFICES ASSUME NEW e \in Range(queue'), e.kind = "Active"
                 PROVE  /\ e.s \in proc'.listened /\ recorder'[e.s] = None
                        /\ meta'[e.s].open => meta'[e.s].kind = "LocalMp4"
    BY DEF ActiveOf
  <2>2. CASE e \in Range(queue)
    <3>1. e.s \in Stream \ {s}
      BY <1>1, <1>11, <2>1, <2>2, InRange, EventFields
    <3> QED
      BY <1>1, <1>3, <1>4, <1>8, <2>1, <2>2, <3>1 DEF OpenInv, ActiveOf
  <2>3. CASE e = a /\ k = "LocalMp4"
    BY <1>3, <1>4, <1>6, <1>7, <1>8, <1>9, <2>3
  <2> QED
    BY <1>10, <2>2, <2>3
<1>14. NotListened'
  <2>1. SUFFICES ASSUME NEW r \in Stream, r \notin proc'.listened
                 PROVE  /\ ~ meta'[r].open /\ recorder'[r] = None
                        /\ \A t \in Token, o \in OutputEnum : tokens'[<<r, t, o>>] = 0
    BY DEF NotListened
  <2>2. r \notin proc.listened /\ r # s
    BY <1>4, <2>1
  <2> QED
    BY <1>1, <1>3, <1>8, <2>2 DEF OpenInv, NotListened
<1>15. RecorderOf'
  BY <1>1, <1>3, <1>8, <1>9 DEF OpenInv, RecorderOf
<1>16. OpenInv'
  BY <1>12, <1>13, <1>14, <1>15 DEF OpenInv
<1>17. Known \subseteq Known' /\ Carried
  BY <1>3, <1>10 DEF Known, Pending, Carried
<1>18. CountMatchesTokens'
  <2>1. SUFFICES ASSUME NEW r \in Stream, meta'[r].open, NEW p \in OutputEnum
                 PROVE  meta'[r].count[p] = Cardinality(UsesOf(tokens', r, p)) + Recorded(r, p)'
    BY CountsAre
  <2>2. Recorded(r, p)' = Recorded(r, p) /\ tokens' = tokens
    BY <1>3 DEF Recorded
  <2>3. CASE r = s
    <3>1. UsesOf(tokens, s, p) = {}
      <4>1. SUFFICES ASSUME NEW u \in UsesOf(tokens, s, p) PROVE FALSE
        OBVIOUS
      <4>2. PICK t \in Token, n \in Nat : u = <<t, n>> /\ 1 <= n /\ n <= tokens[<<s, t, p>>]
        BY <1>1, InUses
      <4> QED
        BY <1>9, <4>2
    <3>2. Recorded(s, p) = 0
      BY <1>9 DEF Recorded, None
    <3>3. meta'[s].count[p] = 0
      BY <1>6, <1>8
    <3> QED
      BY <2>2, <2>3, <3>1, <3>2, <3>3, FS_EmptySet
  <2>4. CASE r # s
    <3>1. meta'[r] = meta[r]
      BY <1>8, <2>4
    <3>2. meta[r].count[p] = Cardinality(UsesOf(tokens, r, p)) + Recorded(r, p)
      BY <2>1, <3>1, CountsAre DEF Inv
    <3> QED
      BY <2>2, <3>1, <3>2
  <2> QED
    BY <2>3, <2>4
<1>19. TokenCoversViewers'
  BY <1>3 DEF Inv, TokenCoversViewers, Watching
<1>20. InputCovered'
  <2>1. SUFFICES ASSUME NEW r \in Stream, meta'[r].open
                 PROVE  r \in timers' \/ Event("InTimeout", r) \in Known' \/ meta'[r].unarmed
    BY DEF InputCovered, Known
  <2>2. CASE r = s
    BY <1>8, <2>2
  <2>3. CASE r # s
    <3>1. r \in timers \/ Event("InTimeout", r) \in Known \/ meta[r].unarmed
      BY <1>8, <2>1, <2>3 DEF Inv, InputCovered, Known
    <3> QED
      BY <1>8, <1>17, <2>3, <3>1
  <2> QED
    BY <2>2, <2>3
<1>21. IdleCovered'
  <2>1. SUFFICES ASSUME NEW r \in Stream, Unused(r)' PROVE \E e \in Known' : ClosesStream(e, r)
    BY DEF IdleCovered, Known, ClosesStream
  <2>2. r # s
    BY <1>6, <1>8, <2>1 DEF Unused
  <2>3. Same(meta[r], meta'[r])
    BY <1>8, <2>2 DEF Same
  <2> QED
    BY <1>17, <2>1, <2>3, IdleKept DEF Inv
<1> QED
  BY <1>2, <1>16, <1>18, <1>19, <1>20, <1>21 DEF Inv

-----------------------------------------------------------------------------
(***************************************************************************)
(* Every step keeps the invariant.                                         *)
(***************************************************************************)
LEMMA QuietStep ==
  ASSUME Inv, TypeOK', Quiet, QueueStep, SameRecorder
  PROVE  Inv'
BY QuietOpen, QuietInv DEF Inv

LEMMA HandInv ==
  ASSUME Inv, hand_event
  PROVE  Inv'
<1> DEFINE e == Head(queue)
<1>1. /\ queue # <<>> /\ held = NoEvent
      /\ UNCHANGED <<timers, sessions, tokens, dropped, unknown, conns, context, sending>>
  BY DEF hand_event
<1>2. TypeOK /\ OpenInv
  BY DEF Inv
<1>3. CASE /\ e.kind = "InnerRegister" /\ hand_inner(e, Tail(queue))
           /\ UNCHANGED <<held, workers, recorder>>
  <2>1. TypeOK' /\ Quiet /\ QueueStep /\ SameRecorder
    BY <1>1, <1>2, <1>3, RegisterQuiet
  <2> QED
    BY <2>1, QuietStep
<1>4. CASE /\ e.kind = "Active" /\ queue' = Tail(queue)
           /\ recorder' = [recorder EXCEPT ![e.s] = "spawned"]
           /\ UNCHANGED <<held, workers, meta, proc>>
  <2>1. TypeOK' /\ Quiet /\ OpenInv' /\ SameRecording
    BY <1>1, <1>2, <1>4, ActiveQuiet DEF SameRecording
  <2> QED
    BY <2>1, QuietInv
<1>5. CASE /\ queue' = Tail(queue)
           /\ IF Len(workers) < MaxWorkers
              THEN workers' = Append(workers, e) /\ UNCHANGED held
              ELSE held' = e /\ UNCHANGED workers
           /\ UNCHANGED <<meta, proc, recorder>>
  <2>1. TypeOK' /\ Quiet /\ QueueStep /\ SameRecorder
    BY <1>1, <1>2, <1>5, WorkerQuiet
  <2> QED
    BY <2>1, QuietStep
<1> QED
  BY <1>3, <1>4, <1>5 DEF hand_event

LEMMA StepInv ==
  ASSUME Inv, [Next]_vars
  PROVE  Inv'
<1>0. TypeOK
  BY DEF Inv
<1>1. ASSUME RtpInput PROVE Inv'
  <2>1. ASSUME NEW s \in Stream, DeviceStops(s) PROVE Inv'
    BY <1>0, <2>1, StopsTyped, StopsQuiet, QuietStep
  <2>2. ASSUME NEW s \in Stream, NEW same \in 0 .. 1, forward_packet(s, same) PROVE Inv'
    BY <1>0, <2>2, ForwardTyped, ForwardQuiet, QuietStep
  <2> QED
    BY <1>1, <2>1, <2>2 DEF RtpInput
<1>2. ASSUME Opening PROVE Inv'
  <2>1. ASSUME NEW s \in Stream, init_media_ext(s) PROVE Inv'
    BY <1>0, <2>1, ExtTyped, ExtQuiet, QuietStep
  <2> QED
    BY <1>2, <2>1, ListenInv DEF Opening
<1>3. ASSUME Playing PROVE Inv'
  <2>1. PICK c \in Conn :
          \/ ask_on_play(c) \/ play_granted(c) \/ disconnect(c) \/ abandon(c)
          \/ \E s \in Stream, t \in Token :
                segment(c, s, t) \/ \E o \in Requests : play(c, s, t, o)
    BY <1>3 DEF Playing
  <2>2. CASE ask_on_play(c)
    BY <1>0, <2>2, AskTyped, AskQuiet, QuietStep
  <2>3. CASE abandon(c)
    BY <1>0, <2>3, AbandonTyped, AbandonQuiet, QuietStep
  <2> QED
    BY <2>1, <2>2, <2>3, GrantedInv, DisconnectInv, SegmentInv, PlayInv
<1>4. ASSUME Timing PROVE Inv'
  <2>1. ASSUME NEW s \in Stream, handle_rtp_in_timeout(s) PROVE Inv'
    BY <1>0, <2>1, InputTimer, InputTimerQuiet, QuietStep
  <2>2. ASSUME NEW s \in Stream, expire_unknown_stream(s) PROVE Inv'
    BY <1>0, <2>2, UnknownExpires, UnknownQuiet, QuietStep
  <2> QED
    BY <1>4, <2>1, <2>2, CleanInv DEF Timing
<1>5. ASSUME EventLoop PROVE Inv'
  <2>1. CASE acquire_owned
    BY <1>0, <2>1, AcquireQuiet, QuietStep
  <2>2. ASSUME NEW i \in DOMAIN workers, hand_out(i) PROVE Inv'
    BY <1>0, <2>2, OutQuiet, QuietStep
  <2> QED
    BY <1>5, <2>1, <2>2, HandInv DEF EventLoop
<1>6. ASSUME Recording PROVE Inv'
  <2>1. ASSUME NEW s \in Stream, run_ends(s) PROVE Inv'
    BY <1>0, <2>1, ProcessQuiet, QuietStep
  <2> QED
    BY <1>6, <2>1, StoreInv, EndRecordInv DEF Recording
<1>7. ASSUME Processing PROVE Inv'
  <2>1. TypeOK' /\ Quiet /\ QueueStep /\ SameRecorder
    BY <1>0, <1>7, ProcessQuiet DEF Processing
  <2> QED
    BY <2>1, QuietStep
<1>8. ASSUME UNCHANGED vars PROVE Inv'
  <2>1. UNCHANGED <<meta, timers, sessions, tokens, queue, held, workers, unknown, conns, recorder,
                    proc, context, sending, dropped>>
    BY <1>8 DEF vars
  <2>2. TypeOK'
    BY <1>0, <2>1 DEF TypeOK
  <2>3. MetaTyped
    BY <1>0, TypeParts
  <2>4. Quiet /\ QueueStep /\ SameRecorder
    BY <2>1, <2>3, ChannelSame, MetaUnchanged DEF Quiet, Watched, SameWatchers, SameRecorder
  <2> QED
    BY <2>2, <2>4, QuietStep
<1> QED
  BY <1>1, <1>2, <1>3, <1>4, <1>5, <1>6, <1>7, <1>8 DEF Next

LEMMA InitInv == Init => Inv
<1> SUFFICES ASSUME Init PROVE Inv
  OBVIOUS
<1>1. TypeOK
  <2>1. meta \in [Stream -> StreamMetadata]
    BY NoStreamTyped DEF Init
  <2>2. /\ sessions \in [Session -> Nat] /\ tokens \in [Session -> Nat] /\ timers \subseteq Stream
        /\ queue \in Seq(EventType) /\ Len(queue) <= MaxQueue
        /\ workers \in Seq(EventType) /\ Len(workers) <= MaxWorkers
        /\ held \in EventType \cup {NoEvent} /\ dropped \subseteq EventType
    BY MediaAssumption DEF Init
  <2>3. conns \in [Conn -> PlayRequest]
    BY DEF Init, PlayRequest
  <2>4. /\ unknown \in [Stream -> 0..3]
        /\ recorder \in [Stream -> {None, "spawned", "running", "ending", "ended"}]
        /\ context \in [Stream -> {None, "muxing", "ended"}]
        /\ sending \in [Stream -> BOOLEAN]
    BY DEF Init
  <2>5. proc \in [queue: Seq(Stream), wait: Stream \cup {None},
                  config: SUBSET Stream, listened: SUBSET Stream]
    BY DEF Init
  <2> QED
    BY <2>1, <2>2, <2>3, <2>4, <2>5 DEF TypeOK
<1>2. \A s \in Stream : ~ meta[s].open /\ recorder[s] = None
  BY NoStreamTyped DEF Init
<1>3. \A x \in Session : tokens[x] = 0 /\ sessions[x] = 0
  BY DEF Init
<1>4. OpenInv
  <2>1. Range(queue) = {} /\ Len(queue) = 0
    BY DEF Init, Range
  <2>2. NotListened
    BY <1>2, <1>3, SessionMade DEF NotListened
  <2>3. Once(queue) /\ ActiveOf
    BY <2>1 DEF Once, ActiveOf
  <2>4. RecorderOf
    BY <1>2 DEF RecorderOf
  <2> QED
    BY <2>2, <2>3, <2>4 DEF OpenInv
<1>5. CountMatchesTokens /\ InputCovered /\ IdleCovered
  BY <1>2 DEF CountMatchesTokens, InputCovered, IdleCovered, Unused
<1>6. TokenCoversViewers
  <2>1. SUFFICES ASSUME NEW x \in Session PROVE tokens[x] >= sessions[x] + Cardinality(Watching(x))
    BY DEF TokenCoversViewers
  <2>2. Watching(x) = {}
    BY DEF Init, Watching
  <2> QED
    BY <1>3, <2>2, FS_EmptySet
<1> QED
  BY <1>1, <1>4, <1>5, <1>6 DEF Inv

-----------------------------------------------------------------------------
(***************************************************************************)
(* The results.                                                            *)
(***************************************************************************)
\* The inductive invariant holds in every state of the media node.
THEOREM MediaInvariant == Spec => []Inv
<1>1. Inv /\ [Next]_vars => Inv'
  BY StepInv
<1> QED
  BY InitInv, <1>1, PTL DEF Spec

\* The Register, the channel, the requests and the recorders keep the shape the
\* code gives them, whatever the number of streams, viewers and workers.
THEOREM MediaTypeCorrect == Spec => []TypeOK
<1>1. Inv => TypeOK
  BY DEF Inv
<1> QED
  BY MediaInvariant, <1>1, PTL

\* The counts in the metadata of an open stream (insert_out_token and
\* clean_play_token, store and its end) are the uses its viewers' tokens stand
\* for, plus its recorder.
THEOREM CountCorrect == Spec => []CountMatchesTokens
<1>1. Inv => CountMatchesTokens
  BY DEF Inv
<1> QED
  BY MediaInvariant, <1>1, PTL

\* A viewer with a response body open or a session that has not expired keeps
\* its token entry: OffPlay is never reported for somebody who watches.
THEOREM TokenCorrect == Spec => []TokenCoversViewers
<1>1. Inv => TokenCoversViewers
  BY DEF Inv
<1> QED
  BY MediaInvariant, <1>1, PTL

\* handle_rtp_in_timeout loses no stream: the timer of an open stream is armed,
\* or its timeout is on the way to the signalling node, or that event was lost
\* to a full channel or a dropped hand_event, or the scheduler refused the timer.
THEOREM InputCorrect == Spec => []InputCovered
<1>1. Inv => InputCovered
  BY DEF Inv
<1> QED
  BY MediaInvariant, <1>1, PTL

\* clean_play_token loses no stream: one that was played and that nobody uses
\* any more has its StreamIdle on the way, or that event was lost.
THEOREM IdleCorrect == Spec => []IdleCovered
<1>1. Inv => IdleCovered
  BY DEF Inv
<1> QED
  BY MediaInvariant, <1>1, PTL
=============================================================================
