-------------------------- MODULE StreamSetupProofs --------------------------
(***************************************************************************)
(* The set-up of streams: the locks, the maps, the viewers' tokens and the *)
(* SSRCs, for any requests, channels, media nodes and any length of the    *)
(* SSRC sequence.                                                          *)
(***************************************************************************)
EXTENDS StreamSetup, SequenceTheorems, WellFoundedInduction, TLAPS

At == Busy \cup {"idle", "done", "failed", "left"}
Request == [at : At, channel : Channel \cup {None}, mode : Modes \cup {None},
            lock : Req \cup {None}, stream : Req \cup {None}, nodes : 0 .. Nodes,
            ssrc : 0 .. MaxSsrc, tries : 0 .. MaxSsrc]
Stream == [phase : {None, "Playing", "Closing"}, tokens : SUBSET {Caller[r] : r \in Req}]

\* The request holds its lock.
Locked == Busy \ {"lock"}
\* It makes a stream of its own.
Own == {"alloc", "init", "invite", "inviting", "ext", "insert", "listen", "source", "record",
        "cleanup"}
\* Its own stream is not in the stream map, or not in the device map.
Early == {"idle", "lock", "check", "online", "alloc", "init", "invite", "inviting", "ext",
          "insert"}
Unmapped == Early \cup {"listen", "source", "cleanup"}
\* Nobody else is led to its stream.
Pending == Unmapped \cup {"record"}

LEMMA Stages ==
  /\ Locked \subseteq Busy /\ "lock" \notin Locked /\ "lock" \in Busy /\ Own \subseteq Locked
  /\ Early \subseteq Unmapped /\ Busy \subseteq At
  /\ {"check", "online"} \subseteq Locked
  /\ \A a \in {"idle", "done", "failed", "left"} : a \notin Busy
  /\ \A a \in {"record", "done", "failed", "left"} : a \notin Unmapped
  /\ Unmapped \subseteq Pending /\ {"done", "failed", "left"} \cap Pending = {}
BY DEF Locked, Busy, Own, Early, Unmapped, Pending, At

(***************************************************************************)
(* The inductive invariant: types, with what a request has at each stage.  *)
(***************************************************************************)
SetupTypeOK ==
  /\ req \in [Req -> Request] /\ locks \in [Key -> Req \cup {None}]
  /\ holder \in [Req -> Req \cup {None}] /\ streamMap \in [Req -> Stream]
  /\ deviceMap \in Seq(Req) /\ disturbed \subseteq Channel /\ hidden \subseteq Channel
  /\ record \in [Req -> {None, "running", "over"}]

StageTypeOK ==
  \A r \in Req :
    /\ req[r].at # "idle" => req[r].channel \in Channel /\ req[r].mode \in Modes
    /\ req[r].at \in Busy => req[r].lock \in Req
    /\ req[r].at \in {"alloc", "init"} => req[r].nodes \in 1 .. Nodes
    /\ req[r].at \in Own => req[r].stream = r
    /\ req[r].at \in {"online", "done"} => req[r].stream \in Req
    /\ req[r].at = "online" => req[r].mode # "Down"
    /\ req[r].at = "record" => req[r].mode = "Down"

OutsideTypeOK ==
  /\ sequence \in 1 .. MaxSsrc /\ waiter \in [Req -> {None, "waiting", "info", "refused"}]
  /\ row \in [Req -> {None, "active", "orphan", "ended"}] /\ session \in BOOLEAN
  /\ media \in [Req -> {None, "init", "ready", "registered", "gone"}]
  /\ callback \in [Req -> {None, "sent"}] /\ call \in [Req -> {None, "up"}]

\* A set-up under way holds its lock, which is the one that new requests get,
\* unless the device was reset.
LockInv ==
  \A r \in Req :
    /\ req[r].at \in Locked => holder[req[r].lock] = r
    /\ req[r].at \in Busy => req[r].lock = locks[KeyOf(r)] \/ req[r].channel \in disturbed

\* No stream has two entries in the device map.
Once == \A i, j \in DOMAIN deviceMap : deviceMap[i] = deviceMap[j] => i = j

\* A stream is in the stream map from its insertion on, and in the device map
\* once its set-up is over; a request that has a stream has its token there.
MapInv ==
  /\ DeviceMapBacked
  /\ Once
  /\ \A r \in Req :
       /\ req[r].at \in Early => streamMap[r].phase = None
       /\ req[r].at \in Unmapped => r \notin Range(deviceMap) /\ record[r] = None
       /\ req[r].at \in {"listen", "source", "record"} =>
            streamMap[r].phase # None \/ req[r].channel \in disturbed
       /\ req[r].at \in {"online", "done"} => req[req[r].stream].at \notin Pending
       /\ req[r].at \in {"record", "done"} /\ streamMap[req[r].stream].phase # None =>
            Caller[r] \in streamMap[req[r].stream].tokens

\* A stream that plays is known to the device map or its set-up is under way,
\* and a set-up that goes on to make a stream has found none that plays.
Alone(r, but) ==
  \A t \in Req \ {r, but} : KeyOf(t) = KeyOf(r) /\ streamMap[t].phase = "Playing" =>
    req[r].channel \in disturbed \cup hidden

PlayInv ==
  /\ \A s \in Req : streamMap[s].phase = "Playing" =>
       s \in Range(deviceMap) \/ req[s].at \in {"listen", "source", "cleanup"}
  /\ \A r \in Req : req[r].mode # "Down" =>
       /\ req[r].at \in Own => Alone(r, r)
       /\ req[r].at = "online" => Alone(r, req[r].stream)

Inv ==
  /\ SetupTypeOK /\ StageTypeOK /\ OutsideTypeOK /\ LockInv /\ MapInv /\ PlayInv
  /\ OneStreamPerChannel

-----------------------------------------------------------------------------
LEMMA TypesGiven == Inv => TypeOK
BY DEF Inv, SetupTypeOK, OutsideTypeOK, LockInv, TypeOK, Request, At, Stream, Locked

\* Requests for one stream take turns.
LEMMA OneAtATime ==
  ASSUME StageTypeOK, LockInv, NEW r \in Req, NEW t \in Req, r # t, KeyOf(r) = KeyOf(t),
         req[r].at \in Locked, req[t].at \in Locked
  PROVE  req[r].channel \in disturbed
<1>1. req[t].channel = req[r].channel
  BY DEF KeyOf
<1>2. holder[req[r].lock] = r /\ holder[req[t].lock] = t
  BY DEF LockInv
<1>3. req[r].lock # req[t].lock
  BY <1>2
<1> QED
  BY <1>1, <1>3, Stages DEF LockInv

-----------------------------------------------------------------------------
(***************************************************************************)
(* What each part of the invariant needs of a step.                        *)
(***************************************************************************)
\* Only request r changes, if any.
Others(r) == \A p \in Req \ {r} : req'[p] = req[p]
SameKey(r) == req'[r].channel = req[r].channel /\ req'[r].mode = req[r].mode

LEMMA LockMoves ==
  ASSUME LockInv, NEW r \in Req, Others(r), SameKey(r), req'[r].lock = req[r].lock,
         req[r].at \in Locked, UNCHANGED <<locks, holder>>, disturbed \subseteq disturbed'
  PROVE  LockInv'
<1>1. \A p \in Req : KeyOf(p)' = KeyOf(p)
  BY DEF KeyOf, Others, SameKey
<1>2. ASSUME NEW p \in Req \ {r}
      PROVE  /\ req'[p].at \in Locked => holder'[req'[p].lock] = p
             /\ req'[p].at \in Busy =>
                  req'[p].lock = locks'[KeyOf(p)'] \/ req'[p].channel \in disturbed'
  BY <1>1 DEF LockInv, Others
<1>3. /\ req'[r].at \in Locked => holder'[req'[r].lock] = r
      /\ req'[r].at \in Busy =>
           req'[r].lock = locks'[KeyOf(r)'] \/ req'[r].channel \in disturbed'
  BY <1>1, Stages DEF LockInv, SameKey
<1> QED
  BY <1>2, <1>3 DEF LockInv

\* A request that ends gives its lock back; nobody else held it.
LEMMA LockEnds ==
  ASSUME SetupTypeOK, StageTypeOK, LockInv, NEW r \in Req, Others(r), req[r].at \in Locked,
         req'[r].at \notin Busy, holder' = Release(r), UNCHANGED <<locks, disturbed>>
  PROVE  LockInv'
<1>1. \A p \in Req \ {r} : KeyOf(p)' = KeyOf(p)
  BY DEF KeyOf, Others
<1>2. req[r].lock \in Req /\ holder[req[r].lock] = r
  BY Stages DEF StageTypeOK, LockInv
<1>3. \A l \in Req : l # req[r].lock => holder'[l] = holder[l]
  BY DEF Release, SetupTypeOK
<1>4. ASSUME NEW p \in Req \ {r}
      PROVE  /\ req'[p].at \in Locked => holder'[req'[p].lock] = p
             /\ req'[p].at \in Busy =>
                  req'[p].lock = locks'[KeyOf(p)'] \/ req'[p].channel \in disturbed'
  <2>1. ASSUME req[p].at \in Locked PROVE holder'[req[p].lock] = p
    <3>1. req[p].lock \in Req /\ holder[req[p].lock] = p
      BY <2>1, Stages DEF StageTypeOK, LockInv
    <3> QED
      BY <1>2, <1>3, <3>1
  <2> QED
    BY <1>1, <2>1 DEF LockInv, Others
<1>5. req'[r].at \notin Locked
  BY Stages
<1> QED
  BY <1>4, <1>5 DEF LockInv

LEMMA LockUntouched ==
  ASSUME LockInv, UNCHANGED <<req, locks, holder>>, disturbed \subseteq disturbed' PROVE LockInv'
BY DEF LockInv, KeyOf

\* What the request's stages tell of the maps goes on being told.
Advances(r) ==
  /\ SameKey(r) \/ req[r].at = "idle"
  /\ disturbed \subseteq disturbed'
  /\ \A s \in Req : req'[s].at \in Unmapped /\ record[s] = None => record'[s] = None
  /\ req'[r].at \in Early => req[r].at \in Early
  /\ req'[r].at \in Unmapped => req[r].at \in Unmapped
  /\ req'[r].at \in {"listen", "source", "record"} =>
       req[r].at \in {"listen", "source", "record"}
  /\ req'[r].at \in {"online", "done"} =>
       req'[r].stream \in Req /\ req'[req'[r].stream].at \notin Pending
  /\ req'[r].at \in {"record", "done"} /\ streamMap'[req'[r].stream].phase # None =>
       Caller[r] \in streamMap'[req'[r].stream].tokens

\* No stream comes or goes but the one that a set-up adds to the device map, and
\* no token is lost.
MapsKept(r) ==
  /\ \A s \in Req : (streamMap'[s].phase = None) <=> (streamMap[s].phase = None)
  /\ \A s \in Req : streamMap[s].tokens \subseteq streamMap'[s].tokens
  /\ \A s \in Range(deviceMap') :
       \/ s \in Range(deviceMap)
       \/ s = r /\ req[r].at = "source" /\ req'[r].at \notin Unmapped

LEMMA MapGrows ==
  ASSUME SetupTypeOK, StageTypeOK, MapInv, NEW r \in Req, Others(r), Advances(r),
         MapsKept(r), Once'
  PROVE  MapInv'
<1> USE DEF Advances, MapsKept
<1>d. Range(deviceMap) \subseteq Req
  BY DEF Range, SetupTypeOK
<1>1. DeviceMapBacked'
  <2>1. SUFFICES ASSUME NEW s \in Range(deviceMap')
                 PROVE  streamMap'[s].phase # None \/ req'[s].channel \in disturbed'
    BY DEF DeviceMapBacked
  <2>2. CASE s \in Range(deviceMap)
    <3>1. req'[s].channel = req[s].channel
      <4>1. CASE s = r
        <5>1. req[r].at # "idle"
          BY <2>2, <4>1 DEF MapInv, Unmapped, Early
        <5> QED
          BY <4>1, <5>1 DEF SameKey
      <4>2. CASE s # r
        BY <1>d, <2>2, <4>2 DEF Others
      <4> QED
        BY <4>1, <4>2
    <3> QED
      BY <1>d, <2>2, <3>1 DEF MapInv, DeviceMapBacked
  <2>3. CASE s = r /\ req[r].at = "source"
    BY <2>3 DEF MapInv, SameKey
  <2> QED
    BY <2>2, <2>3
<1>2. ASSUME NEW p \in Req
      PROVE  /\ req'[p].at \in Early => streamMap'[p].phase = None
             /\ req'[p].at \in Unmapped => p \notin Range(deviceMap') /\ record'[p] = None
             /\ req'[p].at \in {"listen", "source", "record"} =>
                  streamMap'[p].phase # None \/ req'[p].channel \in disturbed'
  <2>1. /\ req'[p].at \in Early => req[p].at \in Early
        /\ req'[p].at \in Unmapped => req[p].at \in Unmapped
        /\ req'[p].at \in {"listen", "source", "record"} =>
             req[p].at \in {"listen", "source", "record"} /\ req'[p].channel = req[p].channel
    BY DEF Others, SameKey
  <2>2. req'[p].at \in Unmapped => p \notin Range(deviceMap')
    BY <2>1 DEF MapInv
  <2> QED
    BY <2>1, <2>2 DEF MapInv
<1>3. ASSUME NEW p \in Req
      PROVE  /\ req'[p].at \in {"online", "done"} => req'[req'[p].stream].at \notin Pending
             /\ req'[p].at \in {"record", "done"} /\ streamMap'[req'[p].stream].phase # None =>
                  Caller[p] \in streamMap'[req'[p].stream].tokens
  <2>1. CASE p = r
    BY <2>1
  <2>2. CASE p # r
    <3>1. req'[p] = req[p]
      BY <2>2 DEF Others
    <3>2. req[p].at \in {"online", "record", "done"} => req[p].stream \in Req
      BY DEF StageTypeOK, Own
    <3>3. \A s \in Req : req[s].at \notin Pending => req'[s].at \notin Pending
      BY DEF Others, Pending, Unmapped
    <3>4. req[p].at \in {"online", "done"} => req'[req[p].stream].at \notin Pending
      BY <3>2, <3>3 DEF MapInv
    <3>5. req[p].at \in {"record", "done"} /\ streamMap'[req[p].stream].phase # None =>
            Caller[p] \in streamMap'[req[p].stream].tokens
      BY <2>2, <3>2 DEF MapInv
    <3> QED
      BY <3>1, <3>4, <3>5
  <2> QED
    BY <2>1, <2>2
<1> QED
  BY <1>1, <1>2, <1>3 DEF MapInv

\* The maps: no stream comes or goes, tokens are added.
Milder ==
  /\ \A s \in Req : (streamMap'[s].phase = None) <=> (streamMap[s].phase = None)
  /\ \A s \in Req : streamMap[s].tokens \subseteq streamMap'[s].tokens

LEMMA MapMoves ==
  ASSUME SetupTypeOK, StageTypeOK, MapInv, NEW r \in Req, Others(r), Milder,
         SameKey(r) \/ req[r].at = "idle", deviceMap' = deviceMap, disturbed \subseteq disturbed',
         \A s \in Req : req'[s].at \in Unmapped /\ record[s] = None => record'[s] = None,
         req'[r].at \in Early => req[r].at \in Early,
         req'[r].at \in Unmapped => req[r].at \in Unmapped,
         req'[r].at \in {"listen", "source", "record"} =>
           req[r].at \in {"listen", "source", "record"},
         req'[r].at \in {"online", "done"} =>
           req'[r].stream \in Req /\ req'[req'[r].stream].at \notin Pending,
         req'[r].at \in {"record", "done"} /\ streamMap'[req'[r].stream].phase # None =>
           Caller[r] \in streamMap'[req'[r].stream].tokens
  PROVE  MapInv'
<1>1. Once'
  BY DEF MapInv, Once
<1>2. MapsKept(r)
  <2>1. /\ \A s \in Req : (streamMap'[s].phase = None) <=> (streamMap[s].phase = None)
        /\ \A s \in Req : streamMap[s].tokens \subseteq streamMap'[s].tokens
    BY DEF Milder
  <2>2. \A s \in Range(deviceMap') : s \in Range(deviceMap)
    OBVIOUS
  <2> QED
    BY <2>1, <2>2 DEF MapsKept
<1>3. Advances(r)
  BY DEF Advances
<1> QED
  BY <1>1, <1>2, <1>3, MapGrows

PlayHalf == \A s, t \in Req : s # t /\ KeyOf(s) = KeyOf(t) /\ Playing(s) /\ Playing(t) =>
              req[s].channel \in disturbed \cup hidden
DownHalf == \A s, t \in Req : s # t /\ KeyOf(s) = KeyOf(t) /\ Downloading(s) /\ Downloading(t) =>
              req[s].channel \in disturbed

LEMMA Halves == OneStreamPerChannel <=> PlayHalf /\ DownHalf
BY DEF OneStreamPerChannel, PlayHalf, DownHalf

\* No stream begins to play, and no set-up begins.
LEMMA PlayMoves ==
  ASSUME StageTypeOK, PlayInv, PlayHalf, NEW r \in Req, Others(r),
         SameKey(r) \/ (streamMap'[r].phase # "Playing" /\ req'[r].at = "lock"),
         \A s \in Req : streamMap'[s].phase = "Playing" => streamMap[s].phase = "Playing",
         \A s \in Req : streamMap'[s].phase = "Playing" /\ s \in Range(deviceMap) =>
           s \in Range(deviceMap'),
         streamMap'[r].phase = "Playing" /\ req[r].at \in {"listen", "source", "cleanup"} =>
           r \in Range(deviceMap') \/ req'[r].at \in {"listen", "source", "cleanup"},
         req'[r].at \in Own /\ req'[r].mode # "Down" => req[r].at \in Own \/ Alone(r, r)',
         req'[r].at = "online" /\ req'[r].mode # "Down" =>
           \/ req[r].at = "online" /\ req'[r].stream = req[r].stream
           \/ Alone(r, req[r].stream)',
         disturbed \subseteq disturbed', hidden \subseteq hidden'
  PROVE  PlayInv' /\ PlayHalf'
<1>k. \A p \in Req : (streamMap'[p].phase = "Playing" \/ req'[p].at \in Own \cup {"online"}) =>
        /\ KeyOf(p)' = KeyOf(p) /\ req'[p].channel = req[p].channel /\ req'[p].mode = req[p].mode
  BY DEF KeyOf, Others, SameKey, Own
<1>1. ASSUME NEW s \in Req, streamMap'[s].phase = "Playing"
      PROVE  s \in Range(deviceMap') \/ req'[s].at \in {"listen", "source", "cleanup"}
  BY <1>1 DEF PlayInv, Others
<1>2. ASSUME NEW p \in Req, NEW but, req'[p].at \in Own \cup {"online"}, Alone(p, but)
      PROVE  Alone(p, but)'
  <2>1. SUFFICES ASSUME NEW t \in Req \ {p, but}, KeyOf(t)' = KeyOf(p)',
                        streamMap'[t].phase = "Playing"
                 PROVE  req'[p].channel \in disturbed' \cup hidden'
    BY DEF Alone
  <2>2. KeyOf(t) = KeyOf(p) /\ req'[p].channel = req[p].channel
    BY <1>2, <1>k, <2>1
  <2> QED
    BY <1>2, <2>1, <2>2 DEF Alone
<1>3. ASSUME NEW p \in Req, req'[p].mode # "Down"
      PROVE  /\ req'[p].at \in Own => Alone(p, p)'
             /\ req'[p].at = "online" => Alone(p, req[p].stream)'
  <2>1. req'[p].at \in Own => req[p].at \in Own \/ (p = r /\ Alone(r, r)')
    BY <1>3 DEF Others
  <2>2. req'[p].at = "online" =>
          \/ req[p].at = "online" /\ req'[p].stream = req[p].stream
          \/ p = r /\ Alone(r, req[r].stream)'
    BY <1>3 DEF Others
  <2>3. req'[p].at \in Own \cup {"online"} => req[p].mode # "Down"
    BY <1>3, <1>k
  <2>4. req'[p].at \in Own => Alone(p, p)'
    BY <1>2, <2>1, <2>3 DEF PlayInv
  <2>5. ASSUME req'[p].at = "online" PROVE Alone(p, req[p].stream)'
    <3>1. CASE req[p].at = "online" /\ req'[p].stream = req[p].stream
      <4>1. Alone(p, req[p].stream)
        BY <2>3, <2>5, <3>1 DEF PlayInv
      <4> DEFINE but == req[p].stream
      <4>2. req'[p].stream = but /\ Alone(p, but)
        BY <3>1, <4>1
      <4> HIDE DEF but
      <4>3. \A t \in Req \ {p, but} : KeyOf(t)' = KeyOf(p)' /\ streamMap'[t].phase = "Playing" =>
              req'[p].channel \in disturbed' \cup hidden'
        BY <1>2, <2>5, <4>2 DEF Alone
      <4> QED
        BY <4>2, <4>3 DEF Alone
    <3> QED
      BY <2>2, <2>5, <3>1
  <2> QED
    BY <2>4, <2>5
<1>4. PlayInv'
  BY <1>1, <1>3 DEF PlayInv
<1>5. PlayHalf'
  BY <1>k DEF PlayHalf, Playing
<1> QED
  BY <1>4, <1>5

\* No download begins.
LEMMA DownMoves ==
  ASSUME DownHalf, disturbed \subseteq disturbed',
         \A s \in Req : Downloading(s)' =>
           Downloading(s) /\ KeyOf(s)' = KeyOf(s) /\ req'[s].channel = req[s].channel
  PROVE  DownHalf'
BY DEF DownHalf

-----------------------------------------------------------------------------
(***************************************************************************)
(* Steps of a request that leave the maps and the locks as they are.       *)
(***************************************************************************)
mapVars == <<locks, holder, streamMap, deviceMap, record, disturbed, hidden>>

LEMMA RequestChanged ==
  ASSUME SetupTypeOK, NEW r \in Req, NEW q \in Request, req' = [req EXCEPT ![r] = q]
  PROVE  req' \in [Req -> Request] /\ req'[r] = q /\ Others(r)
BY DEF SetupTypeOK, Others

LEMMA MilderUntouched == ASSUME UNCHANGED streamMap PROVE Milder
BY DEF Milder

\* A set-up goes on: it stays on its side of the insertion into the stream map.
LEMMA GoesOn ==
  ASSUME Inv, NEW r \in Req, NEW q \in Request, req' = [req EXCEPT ![r] = q],
         q.channel = req[r].channel, q.mode = req[r].mode, q.lock = req[r].lock,
         q.stream = req[r].stream,
         req[r].at \in Own \ {"record"}, q.at \in Own \ {"record"},
         q.at \in Early => req[r].at \in Early,
         q.at \in {"listen", "source"} => req[r].at \in {"listen", "source"},
         req[r].at \in {"listen", "source", "cleanup"} => q.at \in {"listen", "source", "cleanup"},
         q.at \in {"alloc", "init"} => q.nodes \in 1 .. Nodes,
         UNCHANGED mapVars, OutsideTypeOK'
  PROVE  Inv'
<1> USE DEF mapVars
<1>i. SetupTypeOK /\ StageTypeOK /\ LockInv /\ MapInv /\ PlayInv /\ PlayHalf /\ DownHalf
  BY Halves DEF Inv
<1>r. req' \in [Req -> Request] /\ req'[r] = q /\ Others(r)
  BY <1>i, RequestChanged
<1>k. SameKey(r) /\ req'[r].lock = req[r].lock
  BY <1>r DEF SameKey
<1>l. req[r].at \in Locked /\ req[r].at \in Unmapped /\ req'[r].at \in Unmapped
  BY <1>r DEF Own, Locked, Busy, Unmapped, Early
<1>1. SetupTypeOK'
  BY <1>i, <1>r DEF SetupTypeOK
<1>2. StageTypeOK'
  <2>1. /\ req'[r].channel \in Channel /\ req'[r].mode \in Modes /\ req'[r].lock \in Req
        /\ req'[r].stream = r
    BY <1>i, <1>k, <1>l, <1>r, Stages DEF StageTypeOK, SameKey
  <2>2. q.at \notin {"online", "done"}
    BY DEF Own
  <2> QED
    BY <1>i, <1>r, <2>1, <2>2 DEF StageTypeOK, Others
<1>3. LockInv'
  BY <1>i, <1>k, <1>l, <1>r, LockMoves
<1>4. MapInv'
  <2>1. q.at \notin {"online", "done", "record"}
    BY DEF Own
  <2> QED
    BY <1>i, <1>k, <1>l, <1>r, <2>1, MapMoves, MilderUntouched
<1>5. PlayInv' /\ PlayHalf'
  <2>1. q.at # "online"
    BY DEF Own
  <2> QED
    BY <1>i, <1>k, <1>r, <2>1, PlayMoves
<1>6. DownHalf'
  <2>1. \A p \in Req : KeyOf(p)' = KeyOf(p) /\ req'[p].channel = req[p].channel
                         /\ req'[p].mode = req[p].mode
    BY <1>k, <1>r DEF KeyOf, Others, SameKey
  <2>2. req[r].at \in Busy \ {"lock", "check"}
    BY DEF Own, Busy
  <2>3. \A p \in Req : Downloading(p)' => Downloading(p)
    BY <1>r, <2>1, <2>2 DEF Downloading, Others
  <2> QED
    BY <1>i, <2>1, <2>3, DownMoves
<1> QED
  BY <1>1, <1>2, <1>3, <1>4, <1>5, <1>6, Halves DEF Inv, OneStreamPerChannel, PlayHalf, DownHalf

\* A request ends: it gives its lock back; its stream, if it is in the stream
\* map, is in the device map or no longer plays.
LEMMA Ends ==
  ASSUME Inv, NEW r \in Req, NEW at \in {"done", "failed"}, Answer(r, at),
         req[r].at \in Locked, UNCHANGED <<locks, deviceMap, disturbed, hidden>>,
         streamMap' \in [Req -> Stream], Milder,
         \A s \in Req : streamMap'[s].phase = "Playing" => streamMap[s].phase = "Playing",
         streamMap'[r].phase = "Playing" => r \in Range(deviceMap),
         record' \in [Req -> {None, "running", "over"}],
         \A s \in Req : record'[s] = record[s] \/ (s = r /\ req[r].at = "record"),
         at = "done" => /\ req[r].stream \in Req
                        /\ req[r].stream = r \/ req[req[r].stream].at \notin Pending
                        /\ streamMap'[req[r].stream].phase # None =>
                             Caller[r] \in streamMap'[req[r].stream].tokens,
         OutsideTypeOK'
  PROVE  Inv'
<1> DEFINE q == [req[r] EXCEPT !.at = at, !.lock = None, !.nodes = 0, !.tries = 0]
<1>i. SetupTypeOK /\ StageTypeOK /\ LockInv /\ MapInv /\ PlayInv /\ PlayHalf /\ DownHalf
  BY Halves DEF Inv
<1>q. /\ q \in Request /\ q.at = at /\ q.channel = req[r].channel /\ q.mode = req[r].mode
      /\ q.stream = req[r].stream
  <2>1. req[r] \in Request /\ at \in At
    BY <1>i DEF SetupTypeOK, At
  <2>2. 0 \in 0 .. Nodes /\ 0 \in 0 .. MaxSsrc
    BY SetupAssumption
  <2> QED
    BY <2>1, <2>2 DEF Request
<1>e. req' = [req EXCEPT ![r] = q] /\ holder' = Release(r)
  BY DEF Answer
<1> HIDE DEF q
<1>r. req' \in [Req -> Request] /\ req'[r] = q /\ Others(r)
  BY <1>e, <1>i, <1>q, RequestChanged
<1>k. SameKey(r)
  BY <1>q, <1>r DEF SameKey
<1>b. /\ at \notin Busy /\ at \notin Unmapped /\ at \notin Own /\ at \notin Early
      /\ at \notin {"listen", "source", "record", "online", "lock", "alloc", "init", "idle"}
  BY Stages DEF Own, Busy
<1>1. SetupTypeOK'
  <2>1. holder' \in [Req -> Req \cup {None}]
    BY <1>e, <1>i DEF SetupTypeOK, Release
  <2> QED
    BY <1>i, <1>r, <2>1 DEF SetupTypeOK
<1>2. StageTypeOK'
  <2>1. req[r].channel \in Channel /\ req[r].mode \in Modes
    BY <1>i, Stages DEF StageTypeOK
  <2> QED
    BY <1>b, <1>i, <1>q, <1>r, <2>1 DEF StageTypeOK, Others
<1>3. LockInv'
  BY <1>b, <1>e, <1>i, <1>q, <1>r, LockEnds
<1>4. MapInv'
  <2>1. \A s \in Req : req'[s].at \in Unmapped /\ record[s] = None => record'[s] = None
    BY <1>b, <1>q, <1>r
  <2>2. req'[r].at = "done" => req'[r].stream \in Req /\ req'[req'[r].stream].at \notin Pending
    BY <1>b, <1>q, <1>r, Stages DEF Others
  <2> QED
    BY <1>b, <1>i, <1>k, <1>q, <1>r, <2>1, <2>2, MapMoves
<1>5. PlayInv' /\ PlayHalf'
  BY <1>b, <1>i, <1>k, <1>q, <1>r, PlayMoves
<1>6. DownHalf'
  <2>1. \A p \in Req : KeyOf(p)' = KeyOf(p) /\ req'[p].channel = req[p].channel
                         /\ req'[p].mode = req[p].mode
    BY <1>k, <1>r DEF KeyOf, Others, SameKey
  <2>2. "record" \in Busy \ {"lock", "check"}
    BY DEF Busy
  <2>3. \A p \in Req : Downloading(p)' => Downloading(p)
    BY <1>b, <1>q, <1>r, <2>1, <2>2 DEF Downloading, Others
  <2> QED
    BY <1>i, <2>1, <2>3, DownMoves
<1> QED
  BY <1>1, <1>2, <1>3, <1>4, <1>5, <1>6, Halves DEF Inv, OneStreamPerChannel, PlayHalf, DownHalf

LEMMA StageOnly ==
  ASSUME SetupTypeOK, NEW r \in Req, NEW at \in At
  PROVE  LET q == [req[r] EXCEPT !.at = at]
         IN  /\ q \in Request /\ q.at = at /\ q.channel = req[r].channel /\ q.mode = req[r].mode
             /\ q.lock = req[r].lock /\ q.stream = req[r].stream /\ q.nodes = req[r].nodes
             /\ [req EXCEPT ![r].at = at] = [req EXCEPT ![r] = q]
<1>1. req[r] \in Request /\ req \in [Req -> Request]
  BY DEF SetupTypeOK
<1> QED
  BY <1>1 DEF Request

LEMMA GoesOnTo ==
  ASSUME Inv, NEW r \in Req, NEW at \in Own \ {"record", "alloc", "init"},
         req' = [req EXCEPT ![r].at = at], req[r].at \in Own \ {"record"},
         at \in Early => req[r].at \in Early,
         at \in {"listen", "source"} => req[r].at \in {"listen", "source"},
         req[r].at \in {"listen", "source", "cleanup"} => at \in {"listen", "source", "cleanup"},
         UNCHANGED mapVars, OutsideTypeOK'
  PROVE  Inv'
<1> DEFINE q == [req[r] EXCEPT !.at = at]
<1>1. at \in At /\ at \notin {"alloc", "init"}
  BY DEF Own, At, Busy
<1>2. SetupTypeOK
  BY DEF Inv
<1>3. /\ q \in Request /\ q.at = at /\ q.channel = req[r].channel /\ q.mode = req[r].mode
      /\ q.lock = req[r].lock /\ q.stream = req[r].stream
      /\ [req EXCEPT ![r].at = at] = [req EXCEPT ![r] = q]
  BY <1>1, <1>2, StageOnly
<1> HIDE DEF q
<1> QED
  BY <1>1, <1>3, GoesOn

LEMMA OutsideKept ==
  ASSUME OutsideTypeOK, UNCHANGED <<sequence, waiter, row, session, media, callback, call>>
  PROVE  OutsideTypeOK'
BY DEF OutsideTypeOK

LEMMA Dialling ==
  ASSUME Inv, NEW r \in Req,
         \/ InsertInviting(r) \/ InviteAccepted(r) \/ InviteRefused(r) \/ InviteTimeout(r)
         \/ StreamInitExt(r) \/ StreamInitExtFails(r) \/ Registered(r) \/ NotRegistered(r)
  PROVE  Inv'
<1> USE DEF mapVars, cacheVars, storeVars, outsideVars
<1>o. OutsideTypeOK
  BY DEF Inv
<1>1. CASE InsertInviting(r) \/ InviteAccepted(r) \/ InviteRefused(r) \/ InviteTimeout(r)
  <2>1. OutsideTypeOK'
    BY <1>1, <1>o DEF OutsideTypeOK, InsertInviting, InviteAccepted, InviteRefused,
       InviteTimeout, mark_inviting_terminal
  <2>2. UNCHANGED mapVars /\ req[r].at \in {"invite", "inviting"}
    BY <1>1 DEF InsertInviting, InviteAccepted, InviteRefused, InviteTimeout
  <2>3. PICK at \in {"inviting", "ext", "cleanup"} : req' = [req EXCEPT ![r].at = at]
    BY <1>1 DEF InsertInviting, InviteAccepted, InviteRefused, InviteTimeout
  <2>4. at \in Own \ {"record", "alloc", "init"} /\ at \notin {"listen", "source"}
        /\ {"invite", "inviting"} \subseteq Own \ {"record"}
        /\ {"invite", "inviting"} \subseteq Early
        /\ req[r].at \notin {"listen", "source", "cleanup"}
    BY <2>2 DEF Own, Early
  <2> QED
    BY <2>1, <2>2, <2>3, <2>4, GoesOnTo
<1>2. CASE StreamInitExt(r) \/ StreamInitExtFails(r)
  <2>1. OutsideTypeOK'
    BY <1>2, <1>o DEF OutsideTypeOK, StreamInitExt, StreamInitExtFails
  <2>2. UNCHANGED mapVars /\ req[r].at = "ext"
    BY <1>2 DEF StreamInitExt, StreamInitExtFails
  <2>3. PICK at \in {"insert", "cleanup"} : req' = [req EXCEPT ![r].at = at]
    BY <1>2 DEF StreamInitExt, StreamInitExtFails
  <2>4. at \in Own \ {"record", "alloc", "init"} /\ at \notin {"listen", "source"}
        /\ "ext" \in Own \ {"record"} /\ "ext" \in Early
    BY DEF Own, Early
  <2> QED
    BY <2>1, <2>2, <2>3, <2>4, GoesOnTo
<1>3. CASE Registered(r) \/ NotRegistered(r)
  <2>1. OutsideTypeOK'
    BY <1>3, <1>o DEF OutsideTypeOK, Registered, NotRegistered
  <2>2. UNCHANGED mapVars /\ req[r].at = "listen"
    BY <1>3 DEF Registered, NotRegistered
  <2>3. PICK at \in {"source", "cleanup"} : req' = [req EXCEPT ![r].at = at]
    BY <1>3 DEF Registered, NotRegistered
  <2>4. at \in Own \ {"record", "alloc", "init"} /\ at \notin Early
        /\ "listen" \in Own \ {"record"}
    BY DEF Own, Early
  <2> QED
    BY <2>1, <2>2, <2>3, <2>4, GoesOnTo
<1> QED
  BY <1>1, <1>2, <1>3

\* A request that fails before anything of it is in the maps.
LEMMA FailsEarly ==
  ASSUME Inv, NEW r \in Req, req[r].at \in {"check", "online", "alloc", "init"}, Fail(r),
         UNCHANGED <<locks, streamMap, deviceMap, record, disturbed, hidden>>, OutsideTypeOK'
  PROVE  Inv'
<1>1. streamMap[r].phase = None /\ req[r].at \in Locked
  BY DEF Inv, MapInv, Early, Locked, Busy
<1>2. "Playing" # None
  BY DEF None
<1>3. streamMap' \in [Req -> Stream] /\ record' \in [Req -> {None, "running", "over"}]
  BY DEF Inv, SetupTypeOK
<1> QED
  BY <1>1, <1>2, <1>3, MilderUntouched, Ends DEF Fail

LEMMA Allocating ==
  ASSUME Inv, NEW r \in Req, Allocate(r) \/ StreamInit(r) \/ StreamInitFails(r)
  PROVE  Inv'
<1> USE DEF mapVars, cacheVars, storeVars, outsideVars
<1>i. OutsideTypeOK /\ SetupTypeOK /\ req[r] \in Request /\ req \in [Req -> Request]
  BY DEF Inv, SetupTypeOK
<1>n. /\ req[r].at \in {"alloc", "init"} => req[r].nodes \in 1 .. Nodes
      /\ req[r].at \in {"alloc", "init"}
  BY DEF Inv, StageTypeOK, Allocate, StreamInit, StreamInitFails
<1>s. "alloc" \in Own \ {"record"} /\ "init" \in Own \ {"record"} /\ "invite" \in Own \ {"record"}
      /\ {"alloc", "init", "invite"} \subseteq Early
  BY DEF Own, Early
<1>a. Nodes \in Nat /\ MaxSsrc \in Nat \ {0}
  BY SetupAssumption
<1>1. CASE Allocate(r)
  <2>1. CASE req[r].tries = MaxSsrc
    <3>1. Fail(r) /\ UNCHANGED <<locks, streamMap, deviceMap, record, disturbed, hidden, sequence>>
      BY <1>1, <2>1 DEF Allocate
    <3>2. OutsideTypeOK'
      BY <1>1, <1>i, <3>1, OutsideKept DEF Allocate
    <3> QED
      BY <1>n, <3>1, <3>2, FailsEarly
  <2>2. CASE req[r].tries # MaxSsrc
    <3>1. UNCHANGED mapVars /\ req[r].at = "alloc"
      BY <1>1, <2>2 DEF Allocate
    <3>2. OutsideTypeOK'
      <4>1. /\ UNCHANGED <<waiter, row, session, media, callback, call>>
            /\ sequence' = IF sequence = MaxSsrc THEN 1 ELSE sequence + 1
        BY <1>1, <2>2 DEF Allocate
      <4>2. sequence' \in 1 .. MaxSsrc
        BY <1>a, <1>i, <4>1 DEF OutsideTypeOK
      <4> QED
        BY <1>i, <4>1, <4>2 DEF OutsideTypeOK
    <3>3. CASE SsrcActive(sequence)
      <4> DEFINE q == [req[r] EXCEPT !.tries = @ + 1]
      <4>1. req' = [req EXCEPT ![r].tries = @ + 1]
        BY <1>1, <2>2, <3>3 DEF Allocate
      <4>2. req' = [req EXCEPT ![r] = q]
        BY <1>i, <4>1
      <4>3. req[r].tries + 1 \in 0 .. MaxSsrc
        BY <1>a, <1>i, <2>2 DEF Request
      <4>4. /\ q \in Request /\ q.at = "alloc" /\ q.channel = req[r].channel /\ q.mode = req[r].mode
            /\ q.lock = req[r].lock /\ q.stream = req[r].stream /\ q.nodes = req[r].nodes
        BY <1>i, <3>1, <4>3 DEF Request
      <4> HIDE DEF q
      <4> QED
        BY <1>n, <1>s, <3>1, <3>2, <4>2, <4>4, GoesOn
    <3>4. CASE ~ SsrcActive(sequence)
      <4> DEFINE q == [req[r] EXCEPT !.at = "init", !.ssrc = sequence, !.tries = 0]
      <4>1. req' = [req EXCEPT ![r] = q]
        BY <1>1, <2>2, <3>4 DEF Allocate
      <4>2. sequence \in 0 .. MaxSsrc /\ 0 \in 0 .. MaxSsrc /\ "init" \in At
        BY <1>a, <1>i DEF OutsideTypeOK, At, Busy
      <4>3. /\ q \in Request /\ q.at = "init" /\ q.channel = req[r].channel /\ q.mode = req[r].mode
            /\ q.lock = req[r].lock /\ q.stream = req[r].stream /\ q.nodes = req[r].nodes
        BY <1>i, <4>2 DEF Request
      <4> HIDE DEF q
      <4> QED
        BY <1>n, <1>s, <3>1, <3>2, <4>1, <4>3, GoesOn
    <3> QED
      BY <3>3, <3>4
  <2> QED
    BY <2>1, <2>2
<1>2. CASE StreamInit(r)
  <2> DEFINE q == [req[r] EXCEPT !.at = "invite", !.nodes = 0]
  <2>1. req' = [req EXCEPT ![r] = q] /\ UNCHANGED mapVars /\ req[r].at = "init"
    BY <1>2 DEF StreamInit
  <2>2. OutsideTypeOK'
    BY <1>2, <1>i DEF OutsideTypeOK, StreamInit
  <2>3. 0 \in 0 .. Nodes /\ "invite" \in At
    BY <1>a DEF At, Busy
  <2>4. /\ q \in Request /\ q.at = "invite" /\ q.channel = req[r].channel /\ q.mode = req[r].mode
        /\ q.lock = req[r].lock /\ q.stream = req[r].stream
    BY <1>i, <2>3 DEF Request
  <2> HIDE DEF q
  <2> QED
    BY <1>s, <2>1, <2>2, <2>4, GoesOn
<1>3. CASE StreamInitFails(r)
  <2>o. OutsideTypeOK'
    BY <1>3, <1>i, OutsideKept DEF StreamInitFails
  <2>1. CASE req[r].nodes = 1
    <3>1. Fail(r) /\ UNCHANGED <<locks, streamMap, deviceMap, record, disturbed, hidden>>
      BY <1>3, <2>1 DEF StreamInitFails
    <3> QED
      BY <1>n, <2>o, <3>1, FailsEarly
  <2>2. CASE req[r].nodes # 1
    <3> DEFINE q == [req[r] EXCEPT !.nodes = @ - 1]
    <3>1. req' = [req EXCEPT ![r].nodes = @ - 1] /\ UNCHANGED mapVars /\ req[r].at = "init"
      BY <1>3, <2>2 DEF StreamInitFails
    <3>2. req' = [req EXCEPT ![r] = q]
      BY <1>i, <3>1
    <3>3. req[r].nodes - 1 \in 1 .. Nodes /\ req[r].nodes - 1 \in 0 .. Nodes
      BY <1>a, <1>n, <2>2
    <3>4. /\ q \in Request /\ q.at = "init" /\ q.channel = req[r].channel /\ q.mode = req[r].mode
          /\ q.lock = req[r].lock /\ q.stream = req[r].stream /\ q.nodes = req[r].nodes - 1
      BY <1>i, <3>1, <3>3 DEF Request
    <3> HIDE DEF q
    <3> QED
      BY <1>s, <2>o, <3>1, <3>2, <3>3, <3>4, GoesOn
  <2> QED
    BY <2>1, <2>2
<1> QED
  BY <1>1, <1>2, <1>3

-----------------------------------------------------------------------------
(***************************************************************************)
(* The operations on the maps.                                             *)
(***************************************************************************)
LEMMA Phases == "Playing" # None /\ "Closing" # None
BY DEF None

LEMMA ClosingFacts ==
  ASSUME streamMap \in [Req -> Stream], NEW s \in Req, streamMap' = Closing(s)
  PROVE  /\ streamMap' \in [Req -> Stream] /\ Milder /\ streamMap'[s].phase # "Playing"
         /\ \A t \in Req : streamMap'[t].phase = "Playing" => streamMap[t].phase = "Playing"
<1>1. CASE streamMap[s].phase = "Playing"
  <2> DEFINE q == [streamMap[s] EXCEPT !.phase = "Closing"]
  <2>1. streamMap' = [streamMap EXCEPT ![s] = q]
    BY <1>1 DEF Closing
  <2>2. q \in Stream /\ q.phase = "Closing" /\ q.tokens = streamMap[s].tokens
    BY DEF Stream
  <2> HIDE DEF q
  <2> QED
    BY <1>1, <2>1, <2>2, Phases DEF Milder
<1>2. CASE streamMap[s].phase # "Playing"
  <2>1. streamMap' = streamMap
    BY <1>2 DEF Closing
  <2> QED
    BY <1>2, <2>1 DEF Milder
<1> QED
  BY <1>1, <1>2

LEMMA TokenFacts ==
  ASSUME streamMap \in [Req -> Stream], NEW s \in Req, NEW r \in Req,
         streamMap' = WithToken(streamMap, s, r)
  PROVE  /\ streamMap' \in [Req -> Stream] /\ Milder
         /\ \A t \in Req : streamMap'[t].phase = streamMap[t].phase
         /\ streamMap'[s].phase # None => Caller[r] \in streamMap'[s].tokens
<1>1. CASE streamMap[s].phase # None
  <2> DEFINE q == [streamMap[s] EXCEPT !.tokens = @ \cup {Caller[r]}]
  <2>1. streamMap' = [streamMap EXCEPT ![s] = q]
    BY <1>1 DEF WithToken
  <2>2. q \in Stream /\ q.phase = streamMap[s].phase /\ q.tokens = streamMap[s].tokens \cup {Caller[r]}
    BY DEF Stream
  <2> HIDE DEF q
  <2> QED
    BY <2>1, <2>2 DEF Milder
<1>2. CASE streamMap[s].phase = None
  <2>1. streamMap' = streamMap
    BY <1>2 DEF WithToken
  <2> QED
    BY <1>2, <2>1 DEF Milder
<1> QED
  BY <1>1, <1>2

\* The entry of a stream is the only one that its removal takes.
LEMMA EntryRemoved ==
  ASSUME NEW q \in Seq(Req), NEW i \in 1 .. Len(q),
         \A m, n \in DOMAIN q : q[m] = q[n] => m = n
  PROVE  /\ RemoveAt(q, i) \in Seq(Req)
         /\ Range(RemoveAt(q, i)) = Range(q) \ {q[i]}
         /\ \A m, n \in DOMAIN RemoveAt(q, i) : RemoveAt(q, i)[m] = RemoveAt(q, i)[n] => m = n
<1> DEFINE w == RemoveAt(q, i)
<1> DEFINE a == SubSeq(q, 1, i - 1)  b == SubSeq(q, i + 1, Len(q))
<1>a. a \in Seq(Req) /\ Len(a) = i - 1 /\ \A m \in 1 .. i - 1 : a[m] = q[m]
  BY SubSeqProperties
<1>b. b \in Seq(Req) /\ Len(b) = Len(q) - i /\ \A m \in 1 .. Len(q) - i : b[m] = q[i + m]
  BY SubSeqProperties
<1>c. w = a \o b
  BY DEF RemoveAt
<1> HIDE DEF a, b, w
<1>1. w \in Seq(Req) /\ Len(w) = Len(q) - 1
  BY <1>a, <1>b, <1>c
<1>2. \A m \in 1 .. Len(w) : w[m] = q[IF m < i THEN m ELSE m + 1]
  <2>1. SUFFICES ASSUME NEW m \in 1 .. Len(w) PROVE w[m] = q[IF m < i THEN m ELSE m + 1]
    OBVIOUS
  <2>2. Len(q) \in Nat /\ i \in Int /\ m \in Int /\ 1 <= m /\ m <= Len(q) - 1
    BY <1>1
  <2>3. CASE m < i
    <3>1. m \in 1 .. Len(a)
      BY <1>a, <2>2, <2>3
    <3>2. w[m] = a[m]
      BY <1>a, <1>b, <1>c, <3>1
    <3> QED
      BY <1>a, <2>3, <3>1, <3>2
  <2>4. CASE ~(m < i)
    <3>1. m - Len(a) \in 1 .. Len(b) /\ ~(m \in 1 .. Len(a)) /\ i + (m - Len(a)) = m + 1
      BY <1>a, <1>b, <2>2, <2>4
    <3>2. w[m] = b[m - Len(a)]
      BY <1>a, <1>b, <1>c, <2>2, <3>1
    <3>3. b[m - Len(a)] = q[m + 1]
      BY <1>b, <3>1
    <3> QED
      BY <2>4, <3>2, <3>3
  <2> QED
    BY <2>3, <2>4
<1>3. DOMAIN w = 1 .. Len(w) /\ DOMAIN q = 1 .. Len(q) /\ Len(q) \in Nat
  BY <1>1
<1>4. \A m, n \in DOMAIN w : w[m] = w[n] => m = n
  <2>1. SUFFICES ASSUME NEW m \in 1 .. Len(w), NEW n \in 1 .. Len(w), w[m] = w[n] PROVE m = n
    BY <1>3
  <2> QED
    BY <1>1, <1>2, <1>3, <2>1
<1>5. \A m \in 1 .. Len(w) : w[m] \in Range(q) \ {q[i]}
  <2>1. SUFFICES ASSUME NEW m \in 1 .. Len(w) PROVE w[m] \in Range(q) \ {q[i]}
    OBVIOUS
  <2> DEFINE k == IF m < i THEN m ELSE m + 1
  <2>2. k \in 1 .. Len(q) /\ k # i
    BY <1>1, <1>3
  <2>3. w[m] = q[k]
    BY <1>2
  <2> HIDE DEF k
  <2> QED
    BY <1>3, <2>2, <2>3 DEF Range
<1>6. \A k \in 1 .. Len(q) : k # i => q[k] \in Range(w)
  <2>1. SUFFICES ASSUME NEW k \in 1 .. Len(q), k # i PROVE q[k] \in Range(w)
    OBVIOUS
  <2> DEFINE m == IF k < i THEN k ELSE k - 1
  <2>2. m \in 1 .. Len(w) /\ k = IF m < i THEN m ELSE m + 1
    BY <1>1, <1>3, <2>1
  <2>3. w[m] = q[k]
    BY <1>2, <2>2
  <2> HIDE DEF m
  <2> QED
    BY <1>3, <2>2, <2>3 DEF Range
<1>7. Range(w) = Range(q) \ {q[i]}
  BY <1>3, <1>5, <1>6 DEF Range
<1> QED
  BY <1>1, <1>4, <1>7 DEF w

LEMMA RemovedFacts ==
  ASSUME SetupTypeOK, MapInv, NEW s \in Req, Removed(s)
  PROVE  /\ streamMap' \in [Req -> Stream] /\ streamMap'[s] = NoStream
         /\ \A t \in Req \ {s} : streamMap'[t] = streamMap[t]
         /\ deviceMap' \in Seq(Req) /\ Range(deviceMap') = Range(deviceMap) \ {s}
         /\ Once'
<1>1. /\ streamMap' \in [Req -> Stream] /\ streamMap'[s] = NoStream
      /\ \A t \in Req \ {s} : streamMap'[t] = streamMap[t]
  BY DEF Removed, SetupTypeOK, Stream, NoStream
<1>2. deviceMap \in Seq(Req) /\ DOMAIN deviceMap = 1 .. Len(deviceMap)
  BY DEF SetupTypeOK
<1>3. \A i, j \in DOMAIN deviceMap : deviceMap[i] = deviceMap[j] => i = j
  BY DEF MapInv, Once
<1>4. CASE s \in Range(deviceMap)
  <2> DEFINE i == CHOOSE i \in DOMAIN deviceMap : deviceMap[i] = s
  <2>1. i \in 1 .. Len(deviceMap) /\ deviceMap[i] = s
    BY <1>2, <1>4 DEF Range
  <2>2. deviceMap' = RemoveAt(deviceMap, i)
    BY <1>4 DEF Removed
  <2> HIDE DEF i
  <2> QED
    BY <1>1, <1>2, <1>3, <2>1, <2>2, EntryRemoved DEF Once
<1>5. CASE s \notin Range(deviceMap)
  <2>1. deviceMap' = deviceMap
    BY <1>5 DEF Removed
  <2> QED
    BY <1>1, <1>2, <1>3, <1>5, <2>1 DEF Once
<1> QED
  BY <1>4, <1>5

-----------------------------------------------------------------------------
(***************************************************************************)
(* Requests that end.                                                      *)
(***************************************************************************)
LEMMA Ending ==
  ASSUME Inv, NEW r \in Req,
         JoinRunning(r) \/ OnlineFails(r) \/ InsertRecord(r) \/ CleanupStreamInit(r)
  PROVE  Inv'
<1> USE DEF mapVars, cacheVars, storeVars, outsideVars
<1>i. /\ OutsideTypeOK /\ streamMap \in [Req -> Stream]
      /\ record \in [Req -> {None, "running", "over"}] /\ StageTypeOK /\ MapInv /\ PlayInv
  BY DEF Inv, SetupTypeOK
<1>s. {"online", "record", "cleanup"} \subseteq Locked /\ "online" \in Early
      /\ {"record", "cleanup"} \subseteq Own
  BY DEF Locked, Busy, Early, Own
<1>1. CASE JoinRunning(r)
  <2> DEFINE s == req[r].stream
  <2>1. /\ req[r].at = "online" /\ streamMap' = WithToken(streamMap, s, r) /\ Answer(r, "done")
        /\ UNCHANGED <<locks, deviceMap, record, disturbed, hidden>>
        /\ UNCHANGED <<sequence, waiter, row, session, media, callback, call>>
    BY <1>1 DEF JoinRunning
  <2>2. s \in Req /\ req[s].at \notin Pending /\ streamMap[r].phase = None
    BY <1>i, <1>s, <2>1 DEF StageTypeOK, MapInv
  <2> HIDE DEF s
  <2>3. /\ streamMap' \in [Req -> Stream] /\ Milder
        /\ \A t \in Req : streamMap'[t].phase = streamMap[t].phase
        /\ streamMap'[s].phase # None => Caller[r] \in streamMap'[s].tokens
    BY <1>i, <2>1, <2>2, TokenFacts
  <2>4. OutsideTypeOK'
    BY <1>i, <2>1, OutsideKept
  <2> QED
    BY <1>i, <1>s, <2>1, <2>2, <2>3, <2>4, Ends, Phases DEF s
<1>2. CASE OnlineFails(r)
  <2>1. OutsideTypeOK'
    BY <1>2, <1>i, OutsideKept DEF OnlineFails
  <2> QED
    BY <1>2, <2>1, FailsEarly DEF OnlineFails
<1>3. CASE InsertRecord(r)
  <2>1. /\ req[r].at = "record" /\ UNCHANGED <<locks, deviceMap, disturbed, hidden>>
        /\ UNCHANGED <<sequence, waiter, row, session, media, callback, call>>
    BY <1>3 DEF InsertRecord
  <2>2. OutsideTypeOK'
    BY <1>i, <2>1, OutsideKept
  <2>3. CASE /\ record' = [record EXCEPT ![r] = "running"] /\ Answer(r, "done")
             /\ UNCHANGED streamMap
    <3>1. req[r].stream = r
      BY <1>i, <1>s, <2>1 DEF StageTypeOK
    <3>2. streamMap[r].phase = "Playing" => r \in Range(deviceMap)
      BY <1>i, <2>1 DEF PlayInv
    <3>3. streamMap[r].phase # None => Caller[r] \in streamMap[r].tokens
      BY <1>i, <2>1, <3>1 DEF MapInv
    <3>4. /\ record' \in [Req -> {None, "running", "over"}]
          /\ \A s \in Req : record'[s] = record[s] \/ s = r
      BY <1>i, <2>3
    <3> QED
      BY <1>i, <1>s, <2>1, <2>2, <2>3, <3>1, <3>2, <3>3, <3>4, MilderUntouched, Ends
  <2>4. CASE streamMap' = Closing(r) /\ Fail(r) /\ UNCHANGED record
    <3>1. /\ streamMap' \in [Req -> Stream] /\ Milder /\ streamMap'[r].phase # "Playing"
          /\ \A t \in Req : streamMap'[t].phase = "Playing" => streamMap[t].phase = "Playing"
      BY <1>i, <2>4, ClosingFacts
    <3> QED
      BY <1>i, <1>s, <2>1, <2>2, <2>4, <3>1, Ends DEF Fail
  <2> QED
    BY <1>3, <2>3, <2>4 DEF InsertRecord
<1>4. CASE CleanupStreamInit(r)
  <2>1. /\ req[r].at = "cleanup" /\ streamMap' = Closing(r) /\ Fail(r)
        /\ UNCHANGED <<locks, deviceMap, record, disturbed, hidden>>
    BY <1>4 DEF CleanupStreamInit
  <2>2. OutsideTypeOK'
    BY <1>4, <1>i DEF CleanupStreamInit, OutsideTypeOK
  <2>3. /\ streamMap' \in [Req -> Stream] /\ Milder /\ streamMap'[r].phase # "Playing"
        /\ \A t \in Req : streamMap'[t].phase = "Playing" => streamMap[t].phase = "Playing"
    BY <1>i, <2>1, ClosingFacts
  <2> QED
    BY <1>i, <1>s, <2>1, <2>2, <2>3, Ends DEF Fail
<1> QED
  BY <1>1, <1>2, <1>3, <1>4

-----------------------------------------------------------------------------
(***************************************************************************)
(* A request that begins to make a stream, or is led to a running one.     *)
(***************************************************************************)
LEMMA BeginsSetup ==
  ASSUME Inv, NEW r \in Req, NEW q \in Request, req' = [req EXCEPT ![r] = q],
         q.channel = req[r].channel, q.mode = req[r].mode, q.lock = req[r].lock,
         req[r].at \in {"check", "online"}, q.at \in {"alloc", "online"},
         q.at = "alloc" => q.nodes \in 1 .. Nodes /\ q.stream = r,
         q.at = "online" => /\ q.stream \in Req /\ req[q.stream].at \notin Pending
                            /\ q.mode # "Down",
         UNCHANGED <<locks, holder, deviceMap, record, disturbed>>,
         hidden \subseteq hidden', hidden' \subseteq Channel,
         streamMap' \in [Req -> Stream], Milder,
         \A s \in Req : streamMap'[s].phase = "Playing" => streamMap[s].phase = "Playing",
         q.mode # "Down" => IF q.at = "alloc" THEN Alone(r, r)' ELSE Alone(r, req[r].stream)',
         q.mode = "Down" =>
           \A s \in Req : ~ (record[s] = "running" /\ req[s].channel = req[r].channel),
         OutsideTypeOK'
  PROVE  Inv'
<1>i. SetupTypeOK /\ StageTypeOK /\ LockInv /\ MapInv /\ PlayInv /\ PlayHalf /\ DownHalf
  BY Halves DEF Inv
<1>r. req' \in [Req -> Request] /\ req'[r] = q /\ Others(r)
  BY <1>i, RequestChanged
<1>k. SameKey(r) /\ req'[r].lock = req[r].lock
  BY <1>r DEF SameKey
<1>l. /\ req[r].at \in Locked /\ req[r].at \in Early /\ req[r].at \in Unmapped
      /\ req[r].at # "idle" /\ q.at \in Busy /\ q.at # "idle"
      /\ q.at \notin {"listen", "source", "record", "cleanup", "done", "lock", "init"}
      /\ "online" \notin Own /\ req[r].at \notin {"listen", "source", "cleanup"}
  BY DEF Own, Locked, Busy, Unmapped, Early
<1>p. streamMap[r].phase = None /\ streamMap'[r].phase # "Playing"
  BY <1>i, <1>l, Phases DEF MapInv
<1>1. SetupTypeOK'
  BY <1>i, <1>r DEF SetupTypeOK
<1>2. StageTypeOK'
  <2>1. req[r].channel \in Channel /\ req[r].mode \in Modes /\ req[r].lock \in Req
    BY <1>i, <1>l, Stages DEF StageTypeOK
  <2> QED
    BY <1>i, <1>l, <1>r, <2>1 DEF StageTypeOK, Others
<1>3. LockInv'
  BY <1>i, <1>k, <1>l, <1>r, LockMoves
<1>4. MapInv'
  <2>1. req'[r].at = "online" => req'[r].stream \in Req /\ req'[req'[r].stream].at \notin Pending
    BY <1>l, <1>r, Stages DEF Others
  <2> QED
    BY <1>i, <1>k, <1>l, <1>r, <2>1, MapMoves
<1>5. PlayInv' /\ PlayHalf'
  BY <1>i, <1>k, <1>l, <1>p, <1>r, PlayMoves
<1>6. DownHalf'
  <2>1. \A p \in Req : KeyOf(p)' = KeyOf(p) /\ req'[p].channel = req[p].channel
                         /\ req'[p].mode = req[p].mode
    BY <1>k, <1>r DEF KeyOf, Others, SameKey
  <2>2. \A p \in Req \ {r} : Downloading(p)' => Downloading(p)
    BY <1>r, <2>1 DEF Downloading, Others
  <2>3. ASSUME NEW t \in Req \ {r}, KeyOf(t) = KeyOf(r), Downloading(t), req[r].mode = "Down"
        PROVE  req[r].channel \in disturbed
    <3>1. req[t].channel = req[r].channel
      BY <2>3 DEF KeyOf
    <3>2. req[t].at \in Locked
      BY <2>3, <3>1 DEF Downloading, Locked
    <3> QED
      BY <1>i, <1>l, <2>3, <3>2, OneAtATime
  <2>4. SUFFICES ASSUME NEW s \in Req, NEW t \in Req, s # t, KeyOf(s)' = KeyOf(t)',
                        Downloading(s)', Downloading(t)'
                 PROVE  req'[s].channel \in disturbed'
    BY DEF DownHalf
  <2>5. KeyOf(s) = KeyOf(t) /\ req[s].mode = "Down" /\ req[t].mode = "Down"
        /\ req[s].channel = req[t].channel
    BY <2>1, <2>4 DEF Downloading, KeyOf
  <2>6. CASE s = r
    BY <2>1, <2>2, <2>3, <2>4, <2>5, <2>6
  <2>7. CASE t = r
    BY <2>1, <2>2, <2>3, <2>4, <2>5, <2>7
  <2>8. CASE s # r /\ t # r
    BY <1>i, <2>1, <2>2, <2>4, <2>5, <2>8 DEF DownHalf
  <2> QED
    BY <2>6, <2>7, <2>8
<1> QED
  BY <1>1, <1>2, <1>3, <1>4, <1>5, <1>6, Halves DEF Inv, OneStreamPerChannel, PlayHalf, DownHalf

LEMMA AllocateRequest ==
  ASSUME Inv, NEW r \in Req
  PROVE  LET q == [req[r] EXCEPT !.at = "alloc", !.nodes = Nodes, !.stream = r]
         IN  /\ q \in Request /\ q.at = "alloc" /\ q.channel = req[r].channel
             /\ q.mode = req[r].mode /\ q.lock = req[r].lock /\ q.stream = r
             /\ q.nodes \in 1 .. Nodes
<1>1. req[r] \in Request /\ "alloc" \in At
  BY DEF Inv, SetupTypeOK, At, Busy
<1>2. Nodes \in 0 .. Nodes /\ Nodes \in 1 .. Nodes
  BY SetupAssumption
<1> QED
  BY <1>1, <1>2 DEF Request

\* A stream of the channel that plays and is not in the device map is being
\* set up: then the set-ups were not kept apart.
LEMMA KnownOrDisturbed ==
  ASSUME Inv, NEW r \in Req, req[r].at \in Locked, NEW t \in Req \ {r}, KeyOf(t) = KeyOf(r),
         streamMap[t].phase = "Playing"
  PROVE  t \in Range(deviceMap) \/ req[r].channel \in disturbed
<1>1. CASE t \notin Range(deviceMap)
  <2>1. req[t].at \in {"listen", "source", "cleanup"}
    BY <1>1 DEF Inv, PlayInv
  <2>2. req[t].at \in Locked
    BY <2>1 DEF Locked, Busy
  <2> QED
    BY <2>2, OneAtATime DEF Inv
<1> QED
  BY <1>1

\* If the device map has an entry of the channel, one is found.
LEMMA FirstEntry ==
  ASSUME SetupTypeOK, NEW t \in Range(deviceMap)
  PROVE  InviteInfo(KeyOf(t)) # {}
<1> DEFINE N == {n \in DOMAIN deviceMap : KeyOf(deviceMap[n]) = KeyOf(t)}
<1>1. DOMAIN deviceMap = 1 .. Len(deviceMap) /\ Len(deviceMap) \in Nat
  BY DEF SetupTypeOK
<1>2. N \subseteq Nat /\ N # {}
  BY <1>1 DEF Range
<1>3. PICK n \in N : \A m \in N : ~ (<<m, n>> \in OpToRel(<, Nat))
  BY <1>2, NatLessThanWellFounded, WFMin
<1>4. \A m \in Nat, k \in Nat : m < k => <<m, k>> \in OpToRel(<, Nat)
  BY DEF OpToRel
<1>5. \A j \in 1 .. n - 1 : j \in DOMAIN deviceMap /\ j \in Nat /\ j < n
  BY <1>1
<1>6. \A j \in 1 .. n - 1 : KeyOf(deviceMap[j]) # KeyOf(t)
  BY <1>2, <1>3, <1>4, <1>5
<1> QED
  BY <1>3, <1>6 DEF InviteInfo

LEMMA FoundEntry ==
  ASSUME SetupTypeOK, NEW k, NEW s \in InviteInfo(k)
  PROVE  s \in Range(deviceMap) /\ s \in Req /\ KeyOf(s) = k
<1>1. PICK i \in DOMAIN deviceMap : s = deviceMap[i] /\ KeyOf(deviceMap[i]) = k
  BY DEF InviteInfo
<1> QED
  BY <1>1 DEF Range, SetupTypeOK

LEMMA FindingRunning ==
  ASSUME Inv, NEW r \in Req, FindRunning(r)
  PROVE  Inv'
<1> USE DEF cacheVars, storeVars
<1>i. /\ SetupTypeOK /\ OutsideTypeOK /\ req[r] \in Request /\ PlayHalf /\ MapInv
      /\ hidden \subseteq Channel /\ streamMap \in [Req -> Stream]
  BY Halves DEF Inv, SetupTypeOK
<1>u. /\ req[r].at = "check" /\ req[r].mode # "Down"
      /\ UNCHANGED <<locks, holder, streamMap, deviceMap, record, disturbed>>
      /\ UNCHANGED <<sequence, waiter, row, session, media, callback, call>>
  BY DEF FindRunning
<1>l. "check" \in Locked /\ "check" \in Early /\ "check" \in Unmapped
  BY DEF Locked, Busy, Early, Unmapped
<1>o. OutsideTypeOK'
  BY <1>i, <1>u, OutsideKept
<1>c. req[r].channel \in Channel
  BY <1>u DEF Inv, StageTypeOK
<1>1. ASSUME NEW s \in InviteInfo(KeyOf(r)), streamMap[s].phase # None,
             req' = [req EXCEPT ![r] = [@ EXCEPT !.at = "online", !.stream = s]],
             hidden' = IF Hides(s) THEN hidden \cup {req[r].channel} ELSE hidden
      PROVE  Inv'
  <2> DEFINE q == [req[r] EXCEPT !.at = "online", !.stream = s]
  <2>1. s \in Range(deviceMap) /\ s \in Req /\ KeyOf(s) = KeyOf(r)
    BY <1>1, <1>i, FoundEntry
  <2>2. req' = [req EXCEPT ![r] = q]
    BY <1>1
  <2>3. /\ q \in Request /\ q.at = "online" /\ q.channel = req[r].channel
        /\ q.mode = req[r].mode /\ q.lock = req[r].lock /\ q.stream = s
    <3>1. "online" \in At
      BY DEF At, Busy
    <3> QED
      BY <1>i, <2>1, <3>1 DEF Request
  <2> HIDE DEF q
  <2>4. req[s].at \notin Pending /\ s # r
    <3>1. req[s].at # "record"
      BY <1>u, <2>1 DEF Inv, StageTypeOK, KeyOf
    <3> QED
      BY <1>i, <1>l, <1>u, <2>1, <3>1 DEF MapInv, Pending
  <2>r. req'[r] = q /\ Others(r)
    BY <1>i, <2>2, <2>3, RequestChanged
  <2>5. hidden \subseteq hidden' /\ hidden' \subseteq Channel
    BY <1>1, <1>c, <1>i
  <2>6. ASSUME NEW t \in Req \ {r, s}, KeyOf(t) = KeyOf(r), streamMap[t].phase = "Playing"
        PROVE  req[r].channel \in disturbed \cup hidden'
    <3>1. CASE t \in Range(deviceMap) /\ streamMap[s].phase = "Playing"
      <4>1. req[s].mode = req[r].mode /\ req[t].mode = req[r].mode /\ req[s].channel = req[r].channel
        BY <2>1, <2>6 DEF KeyOf
      <4>2. Playing(s) /\ Playing(t)
        BY <1>u, <2>6, <3>1, <4>1 DEF Playing
      <4> QED
        BY <1>i, <2>1, <2>5, <2>6, <4>1, <4>2 DEF PlayHalf
    <3>2. CASE t \in Range(deviceMap) /\ streamMap[s].phase # "Playing"
      <4>1. streamMap[s].phase = "Closing"
        BY <1>1, <1>i, <2>1, <3>2 DEF Stream
      <4>2. Hides(s)
        BY <2>1, <2>6, <3>2, <4>1 DEF Hides
      <4> QED
        BY <1>1, <4>2
    <3>3. CASE t \notin Range(deviceMap)
      BY <1>l, <1>u, <2>6, <3>3, KnownOrDisturbed
    <3> QED
      BY <3>1, <3>2, <3>3
  <2>7. Alone(r, req[r].stream)'
    <3>1. \A p \in Req : KeyOf(p)' = KeyOf(p)
      BY <2>3, <2>r DEF KeyOf, Others
    <3>2. \A t \in Req \ {r, s} : KeyOf(t)' = KeyOf(r)' /\ streamMap'[t].phase = "Playing" =>
            req'[r].channel \in disturbed' \cup hidden'
      BY <1>u, <2>3, <2>6, <2>r, <3>1
    <3> QED
      BY <2>3, <2>r, <3>2 DEF Alone
  <2> QED
    BY <1>i, <1>o, <1>u, <2>1, <2>2, <2>3, <2>4, <2>5, <2>7, MilderUntouched, BeginsSetup
<1>2. ASSUME \A s \in InviteInfo(KeyOf(r)) : streamMap[s].phase = None,
             ToAllocate(r), UNCHANGED hidden
      PROVE  Inv'
  <2> DEFINE q == [req[r] EXCEPT !.at = "alloc", !.nodes = Nodes, !.stream = r]
  <2>1. req' = [req EXCEPT ![r] = q]
    BY <1>2 DEF ToAllocate
  <2>2. /\ q \in Request /\ q.at = "alloc" /\ q.channel = req[r].channel
        /\ q.mode = req[r].mode /\ q.lock = req[r].lock /\ q.stream = r
        /\ q.nodes \in 1 .. Nodes
    BY AllocateRequest
  <2> HIDE DEF q
  <2>r. req'[r] = q /\ Others(r)
    BY <1>i, <2>1, <2>2, RequestChanged
  <2>3. ASSUME NEW t \in Req \ {r}, KeyOf(t) = KeyOf(r), streamMap[t].phase = "Playing"
        PROVE  req[r].channel \in disturbed
    <3>1. CASE t \in Range(deviceMap)
      <4>1. PICK s : s \in InviteInfo(KeyOf(t))
        BY <1>i, <3>1, FirstEntry
      <4>2. s \in Range(deviceMap) /\ KeyOf(s) = KeyOf(r) /\ streamMap[s].phase = None
        BY <1>2, <1>i, <2>3, <4>1, FoundEntry
      <4>3. req[s].channel = req[r].channel
        BY <4>2 DEF KeyOf
      <4> QED
        BY <1>i, <4>2, <4>3 DEF MapInv, DeviceMapBacked
    <3>2. CASE t \notin Range(deviceMap)
      BY <1>l, <1>u, <2>3, <3>2, KnownOrDisturbed
    <3> QED
      BY <3>1, <3>2
  <2>4. Alone(r, r)'
    <3>1. \A p \in Req : KeyOf(p)' = KeyOf(p)
      BY <2>2, <2>r DEF KeyOf, Others
    <3> QED
      BY <1>u, <2>2, <2>3, <2>r, <3>1 DEF Alone
  <2> QED
    BY <1>2, <1>i, <1>o, <1>u, <2>1, <2>2, <2>4, MilderUntouched, BeginsSetup
<1> QED
  BY <1>1, <1>2 DEF FindRunning

LEMMA Querying ==
  ASSUME Inv, NEW r \in Req, ReplaceOffline(r) \/ QueryRecord(r)
  PROVE  Inv'
<1> USE DEF storeVars, outsideVars
<1> DEFINE q == [req[r] EXCEPT !.at = "alloc", !.nodes = Nodes, !.stream = r]
<1>i. /\ SetupTypeOK /\ OutsideTypeOK /\ PlayInv /\ hidden \subseteq Channel
      /\ streamMap \in [Req -> Stream]
  BY DEF Inv, SetupTypeOK
<1>q. /\ q \in Request /\ q.at = "alloc" /\ q.channel = req[r].channel
      /\ q.mode = req[r].mode /\ q.lock = req[r].lock /\ q.stream = r
      /\ q.nodes \in 1 .. Nodes
  BY AllocateRequest
<1>t. ToAllocate(r) => req' = [req EXCEPT ![r] = q]
  BY DEF ToAllocate
<1> HIDE DEF q
<1>1. CASE ReplaceOffline(r)
  <2> DEFINE s == req[r].stream
  <2>1. /\ req[r].at = "online" /\ streamMap' = Closing(s) /\ req' = [req EXCEPT ![r] = q]
        /\ UNCHANGED <<locks, holder, deviceMap, record, disturbed, hidden>>
        /\ UNCHANGED <<sequence, waiter, row, session, media, callback, call>>
    BY <1>1, <1>t DEF ReplaceOffline
  <2>2. s \in Req /\ req[r].mode # "Down"
    BY <2>1 DEF Inv, StageTypeOK
  <2>3. Alone(r, s)
    BY <1>i, <2>1, <2>2 DEF PlayInv
  <2> HIDE DEF s
  <2>4. /\ streamMap' \in [Req -> Stream] /\ Milder /\ streamMap'[s].phase # "Playing"
        /\ \A t \in Req : streamMap'[t].phase = "Playing" => streamMap[t].phase = "Playing"
    BY <1>i, <2>1, <2>2, ClosingFacts
  <2>r. req'[r] = q /\ Others(r)
    BY <1>i, <1>q, <2>1, RequestChanged
  <2>5. Alone(r, r)'
    <3>1. \A p \in Req : KeyOf(p)' = KeyOf(p)
      BY <1>q, <2>r DEF KeyOf, Others
    <3> QED
      BY <1>q, <2>1, <2>3, <2>4, <2>r, <3>1 DEF Alone
  <2>6. OutsideTypeOK'
    BY <1>i, <2>1, OutsideKept
  <2> QED
    BY <1>i, <1>q, <2>1, <2>2, <2>4, <2>5, <2>6, BeginsSetup
<1>2. CASE QueryRecord(r)
  <2>1. /\ req[r].at = "check" /\ req[r].mode = "Down"
        /\ UNCHANGED <<locks, streamMap, deviceMap, record, disturbed, hidden>>
        /\ UNCHANGED <<sequence, waiter, row, session, media, callback, call>>
    BY <1>2 DEF QueryRecord
  <2>2. OutsideTypeOK'
    BY <1>i, <2>1, OutsideKept
  <2>3. CASE \E s \in Req : record[s] = "running" /\ req[s].channel = req[r].channel
    <3>1. Fail(r)
      BY <1>2, <2>3 DEF QueryRecord
    <3> QED
      BY <2>1, <2>2, <3>1, FailsEarly
  <2>4. CASE ~ \E s \in Req : record[s] = "running" /\ req[s].channel = req[r].channel
    <3>1. req' = [req EXCEPT ![r] = q] /\ UNCHANGED holder
      BY <1>2, <1>t, <2>4 DEF QueryRecord
    <3> QED
      BY <1>i, <1>q, <2>1, <2>2, <2>4, <3>1, MilderUntouched, BeginsSetup
  <2> QED
    BY <2>3, <2>4
<1> QED
  BY <1>1, <1>2

-----------------------------------------------------------------------------
(***************************************************************************)
(* A request starts and takes its lock.                                    *)
(***************************************************************************)
LEMMA Starting ==
  ASSUME Inv, NEW r \in Req, Start(r)
  PROVE  Inv'
<1> USE DEF storeVars, outsideVars
<1>i. /\ SetupTypeOK /\ StageTypeOK /\ OutsideTypeOK /\ LockInv /\ MapInv /\ PlayInv
      /\ PlayHalf /\ DownHalf
  BY Halves DEF Inv
<1>u. /\ req[r].at = "idle" /\ UNCHANGED <<holder, streamMap, deviceMap, record>>
      /\ UNCHANGED <<disturbed, hidden>>
      /\ UNCHANGED <<sequence, waiter, row, session, media, callback, call>>
  BY DEF Start
<1> DEFINE Lk(k) == IF locks[k] = None THEN r ELSE locks[k]
<1> DEFINE Q(c, m) == [req[r] EXCEPT !.at = "lock", !.channel = c, !.mode = m, !.lock = Lk(<<c, m>>)]
<1>0. PICK c \in Channel, m \in Modes : /\ req' = [req EXCEPT ![r] = Q(c, m)]
                                        /\ locks' = [locks EXCEPT ![<<c, m>>] = Lk(<<c, m>>)]
  BY DEF Start
<1> DEFINE q == Q(c, m)  lock == Lk(<<c, m>>)
<1>k. <<c, m>> \in Key
  BY DEF Key
<1>lk. lock \in Req /\ (locks[<<c, m>>] # None => lock = locks[<<c, m>>])
  BY <1>i, <1>k DEF SetupTypeOK
<1> HIDE DEF Lk
<1>q. q \in Request /\ q.at = "lock" /\ q.channel = c /\ q.mode = m /\ q.lock = lock
  <2>1. req[r] \in Request /\ "lock" \in At
    BY <1>i DEF SetupTypeOK, At, Busy
  <2> QED
    BY <1>lk, <2>1 DEF Request
<1>e. req' = [req EXCEPT ![r] = q] /\ locks' = [locks EXCEPT ![<<c, m>>] = lock]
  BY <1>0
<1> HIDE DEF q, lock, Q
<1>r. req' \in [Req -> Request] /\ req'[r] = q /\ Others(r)
  BY <1>e, <1>i, <1>q, RequestChanged
<1>s. /\ "lock" \in Early /\ "idle" \in Early /\ "lock" \in Unmapped /\ "idle" \in Unmapped
      /\ "lock" \notin Own /\ "lock" \notin Locked /\ "lock" \in Busy
  BY DEF Early, Unmapped, Own, Locked, Busy
<1>p. streamMap[r].phase = None /\ record[r] = None /\ None # "running"
  BY <1>i, <1>s, <1>u DEF MapInv, None
<1>1. SetupTypeOK'
  BY <1>e, <1>i, <1>lk, <1>r, <1>u DEF SetupTypeOK
<1>2. StageTypeOK'
  BY <1>i, <1>lk, <1>q, <1>r, <1>s DEF StageTypeOK, Others
<1>3. LockInv'
  <2>1. KeyOf(r)' = <<c, m>> /\ \A p \in Req \ {r} : KeyOf(p)' = KeyOf(p)
    BY <1>q, <1>r DEF KeyOf, Others
  <2>l. locks'[<<c, m>>] = lock /\ \A k \in Key : k # <<c, m>> => locks'[k] = locks[k]
    BY <1>e, <1>i, <1>k DEF SetupTypeOK
  <2>2. ASSUME NEW p \in Req \ {r}, req[p].at \in Busy
        PROVE  req[p].lock = locks'[KeyOf(p)] \/ req[p].channel \in disturbed
    <3>1. req[p].lock \in Req /\ KeyOf(p) \in Key
      <4>1. "idle" \notin Busy
        BY DEF Busy
      <4> QED
        BY <1>i, <2>2, <4>1 DEF StageTypeOK, KeyOf, Key
    <3>2. CASE req[p].lock = locks[KeyOf(p)]
      <4>1. locks[KeyOf(p)] # None
        BY <3>1, <3>2, RequestAssumption
      <4> QED
        BY <1>lk, <2>l, <3>1, <3>2, <4>1
    <3> QED
      BY <1>i, <2>2, <3>2 DEF LockInv
  <2>3. ASSUME NEW p \in Req \ {r}
        PROVE  /\ req'[p].at \in Locked => holder'[req'[p].lock] = p
               /\ req'[p].at \in Busy =>
                    req'[p].lock = locks'[KeyOf(p)'] \/ req'[p].channel \in disturbed'
    BY <1>i, <1>r, <1>u, <2>1, <2>2 DEF LockInv, Others
  <2> QED
    BY <1>q, <1>r, <1>s, <2>1, <2>3, <2>l DEF LockInv
<1>4. MapInv'
  BY <1>i, <1>q, <1>r, <1>s, <1>u, MapMoves, MilderUntouched
<1>5. PlayInv' /\ PlayHalf'
  BY <1>i, <1>p, <1>q, <1>r, <1>s, <1>u, Phases, PlayMoves
<1>6. DownHalf'
  <2>1. ~ Downloading(r)'
    BY <1>p, <1>q, <1>r, <1>u DEF Downloading
  <2>2. \A p \in Req \ {r} : /\ Downloading(p)' => Downloading(p)
                             /\ KeyOf(p)' = KeyOf(p) /\ req'[p].channel = req[p].channel
    BY <1>r, <1>u DEF Downloading, KeyOf, Others
  <2> QED
    BY <1>i, <1>u, <2>1, <2>2, DownMoves
<1>7. OutsideTypeOK'
  BY <1>i, <1>u, OutsideKept
<1> QED
  BY <1>1, <1>2, <1>3, <1>4, <1>5, <1>6, <1>7, Halves
  DEF Inv, OneStreamPerChannel, PlayHalf, DownHalf

LEMMA Locking ==
  ASSUME Inv, NEW r \in Req, Lock(r)
  PROVE  Inv'
<1> USE DEF storeVars, outsideVars
<1> DEFINE q == [req[r] EXCEPT !.at = "check"]
<1>i. /\ SetupTypeOK /\ StageTypeOK /\ OutsideTypeOK /\ LockInv /\ MapInv /\ PlayInv
      /\ PlayHalf /\ DownHalf
  BY Halves DEF Inv
<1>u. /\ req[r].at = "lock" /\ holder[req[r].lock] = None
      /\ holder' = [holder EXCEPT ![req[r].lock] = r] /\ req' = [req EXCEPT ![r].at = "check"]
      /\ UNCHANGED <<locks, streamMap, deviceMap, record, disturbed, hidden>>
      /\ UNCHANGED <<sequence, waiter, row, session, media, callback, call>>
  BY DEF Lock
<1>q. /\ q \in Request /\ q.at = "check" /\ q.channel = req[r].channel /\ q.mode = req[r].mode
      /\ q.lock = req[r].lock /\ req' = [req EXCEPT ![r] = q]
  <2>1. "check" \in At
    BY DEF At, Busy
  <2> QED
    BY <1>i, <1>u, <2>1, StageOnly
<1> HIDE DEF q
<1>r. req' \in [Req -> Request] /\ req'[r] = q /\ Others(r)
  BY <1>i, <1>q, RequestChanged
<1>k. SameKey(r)
  BY <1>q, <1>r DEF SameKey
<1>s. /\ "lock" \in Early /\ "check" \in Early /\ "lock" \in Unmapped /\ "check" \in Unmapped
      /\ "check" \notin Own /\ "lock" \in Busy
  BY DEF Early, Unmapped, Own, Busy
<1>p. streamMap[r].phase = None /\ record[r] = None /\ None # "running"
  BY <1>i, <1>s, <1>u DEF MapInv, None
<1>l. req[r].lock \in Req /\ req[r].channel \in Channel /\ req[r].mode \in Modes
  BY <1>i, <1>s, <1>u DEF StageTypeOK
<1>h. /\ holder' \in [Req -> Req \cup {None}] /\ holder'[req[r].lock] = r
      /\ \A l \in Req : l # req[r].lock => holder'[l] = holder[l]
  BY <1>i, <1>l, <1>u DEF SetupTypeOK
<1>1. SetupTypeOK'
  BY <1>h, <1>i, <1>r, <1>u DEF SetupTypeOK
<1>2. StageTypeOK'
  BY <1>i, <1>l, <1>q, <1>r, <1>s DEF StageTypeOK, Others
<1>3. LockInv'
  <2>1. \A p \in Req : KeyOf(p)' = KeyOf(p)
    BY <1>k, <1>r DEF KeyOf, Others, SameKey
  <2>2. ASSUME NEW p \in Req \ {r}, req[p].at \in Locked PROVE holder'[req[p].lock] = p
    <3>1. req[p].lock \in Req /\ holder[req[p].lock] = p
      BY <1>i, <2>2, Stages DEF StageTypeOK, LockInv
    <3>2. req[p].lock # req[r].lock
      BY <1>u, <3>1, RequestAssumption
    <3> QED
      BY <1>h, <3>1, <3>2
  <2>3. ASSUME NEW p \in Req \ {r}
        PROVE  /\ req'[p].at \in Locked => holder'[req'[p].lock] = p
               /\ req'[p].at \in Busy =>
                    req'[p].lock = locks'[KeyOf(p)'] \/ req'[p].channel \in disturbed'
    BY <1>i, <1>r, <1>u, <2>1, <2>2 DEF LockInv, Others
  <2> QED
    BY <1>h, <1>i, <1>q, <1>r, <1>s, <1>u, <2>1, <2>3 DEF LockInv
<1>4. MapInv'
  BY <1>i, <1>k, <1>q, <1>r, <1>s, <1>u, MapMoves, MilderUntouched
<1>5. PlayInv' /\ PlayHalf'
  BY <1>i, <1>k, <1>p, <1>q, <1>r, <1>s, <1>u, Phases, PlayMoves
<1>6. DownHalf'
  <2>1. ~ Downloading(r)'
    BY <1>p, <1>q, <1>r, <1>u DEF Downloading
  <2>2. \A p \in Req \ {r} : /\ Downloading(p)' => Downloading(p)
                             /\ KeyOf(p)' = KeyOf(p) /\ req'[p].channel = req[p].channel
    BY <1>r, <1>u DEF Downloading, KeyOf, Others
  <2> QED
    BY <1>i, <1>u, <2>1, <2>2, DownMoves
<1>7. OutsideTypeOK'
  BY <1>i, <1>u, OutsideKept
<1> QED
  BY <1>1, <1>2, <1>3, <1>4, <1>5, <1>6, <1>7, Halves
  DEF Inv, OneStreamPerChannel, PlayHalf, DownHalf

-----------------------------------------------------------------------------
(***************************************************************************)
(* A stream enters the maps; a viewer leaves.                              *)
(***************************************************************************)
LEMMA Inserting ==
  ASSUME Inv, NEW r \in Req, InsertInfo(r)
  PROVE  Inv'
<1> USE DEF storeVars, outsideVars
<1> DEFINE q == [req[r] EXCEPT !.at = "listen"]
<1>i. /\ SetupTypeOK /\ StageTypeOK /\ OutsideTypeOK /\ LockInv /\ MapInv /\ PlayInv
      /\ PlayHalf /\ DownHalf
  BY Halves DEF Inv
<1>u. /\ req[r].at = "insert" /\ req' = [req EXCEPT ![r].at = "listen"]
      /\ streamMap' = [streamMap EXCEPT ![r] = [phase |-> "Playing", tokens |-> {}]]
      /\ UNCHANGED <<locks, holder, deviceMap, record, disturbed, hidden>>
      /\ UNCHANGED <<sequence, waiter, row, session, media, callback, call>>
  BY DEF InsertInfo
<1>q. /\ q \in Request /\ q.at = "listen" /\ q.channel = req[r].channel /\ q.mode = req[r].mode
      /\ q.lock = req[r].lock /\ q.stream = req[r].stream /\ req' = [req EXCEPT ![r] = q]
  <2>1. "listen" \in At
    BY DEF At, Busy
  <2> QED
    BY <1>i, <1>u, <2>1, StageOnly
<1> HIDE DEF q
<1>r. req' \in [Req -> Request] /\ req'[r] = q /\ Others(r)
  BY <1>i, <1>q, RequestChanged
<1>k. SameKey(r) /\ \A p \in Req : /\ KeyOf(p)' = KeyOf(p) /\ req'[p].channel = req[p].channel
                                   /\ req'[p].mode = req[p].mode /\ req'[p].stream = req[p].stream
  BY <1>q, <1>r DEF SameKey, KeyOf, Others
<1>s. /\ "insert" \in Own /\ "listen" \in Own /\ "insert" \in Locked /\ "insert" \in Unmapped
      /\ "insert" \in Early /\ "listen" \notin Early /\ "listen" \in Busy
      /\ "insert" \in Busy \ {"lock", "check"} /\ Own \cup {"online"} \subseteq Locked
      /\ "online" \notin Own
  BY DEF Own, Locked, Busy, Unmapped, Early
<1>m. /\ streamMap' \in [Req -> Stream] /\ streamMap'[r].phase = "Playing"
      /\ \A t \in Req \ {r} : streamMap'[t] = streamMap[t]
  BY <1>i, <1>u DEF SetupTypeOK, Stream
<1>1. SetupTypeOK'
  BY <1>i, <1>m, <1>r, <1>u DEF SetupTypeOK
<1>2. StageTypeOK'
  <2>1. /\ req[r].channel \in Channel /\ req[r].mode \in Modes /\ req[r].lock \in Req
        /\ req[r].stream = r
    BY <1>i, <1>s, <1>u DEF StageTypeOK
  <2> QED
    BY <1>i, <1>q, <1>r, <2>1 DEF StageTypeOK, Others
<1>3. LockInv'
  BY <1>i, <1>k, <1>q, <1>r, <1>s, <1>u, LockMoves
<1>4. MapInv'
  <2>d. Range(deviceMap) \subseteq Req /\ r \notin Range(deviceMap) /\ record[r] = None
    BY <1>i, <1>s, <1>u DEF Range, SetupTypeOK, MapInv
  <2>1. DeviceMapBacked' /\ Once'
    BY <1>i, <1>k, <1>m, <1>u, <2>d DEF DeviceMapBacked, Once, MapInv
  <2>2. ASSUME NEW p \in Req
        PROVE  /\ req'[p].at \in Early => streamMap'[p].phase = None
               /\ req'[p].at \in Unmapped => p \notin Range(deviceMap') /\ record'[p] = None
               /\ req'[p].at \in {"listen", "source", "record"} =>
                    streamMap'[p].phase # None \/ req'[p].channel \in disturbed'
    <3>1. CASE p = r
      BY <1>m, <1>q, <1>r, <1>s, <1>u, <2>d, <3>1, Phases
    <3>2. CASE p # r
      BY <1>i, <1>m, <1>r, <1>u, <3>2 DEF MapInv, Others
    <3> QED
      BY <3>1, <3>2
  <2>3. ASSUME NEW p \in Req
        PROVE  /\ req'[p].at \in {"online", "done"} => req'[req'[p].stream].at \notin Pending
               /\ req'[p].at \in {"record", "done"} /\ streamMap'[req'[p].stream].phase # None =>
                    Caller[p] \in streamMap'[req'[p].stream].tokens
    <3>1. CASE p = r
      BY <1>q, <1>r, <3>1
    <3>2. CASE p # r
      <4>1. req'[p] = req[p]
        BY <1>r, <3>2 DEF Others
      <4>2. req[p].at \in {"online", "record", "done"} => req[p].stream \in Req /\ req[p].stream # r
        <5>1. req[p].at = "record" => req[p].stream = p
          BY <1>i DEF StageTypeOK, Own
        <5> QED
          BY <1>i, <1>s, <1>u, <3>2, <5>1, Stages DEF StageTypeOK, MapInv
      <4> QED
        BY <1>i, <1>m, <1>r, <4>1, <4>2 DEF MapInv, Others
    <3> QED
      BY <3>1, <3>2
  <2> QED
    BY <2>1, <2>2, <2>3 DEF MapInv
<1>5. PlayInv'
  <2>1. ASSUME NEW s \in Req, streamMap'[s].phase = "Playing"
        PROVE  s \in Range(deviceMap') \/ req'[s].at \in {"listen", "source", "cleanup"}
    <3>1. CASE s = r
      BY <1>q, <1>r, <3>1
    <3>2. CASE s # r
      BY <1>i, <1>m, <1>r, <1>u, <2>1, <3>2 DEF PlayInv, Others
    <3> QED
      BY <3>1, <3>2
  <2>2. ASSUME NEW p \in Req, NEW but, req[p].at \in Own \cup {"online"}, Alone(p, but)
        PROVE  \A t \in Req \ {p, but} : KeyOf(t)' = KeyOf(p)' /\ streamMap'[t].phase = "Playing" =>
                 req'[p].channel \in disturbed' \cup hidden'
    <3>1. SUFFICES ASSUME NEW t \in Req \ {p, but}, KeyOf(t) = KeyOf(p),
                          streamMap'[t].phase = "Playing"
                   PROVE  req[p].channel \in disturbed \cup hidden
      BY <1>k, <1>u
    <3>2. CASE t = r
      <4>1. req[p].at \in Locked /\ req[r].at \in Locked
        BY <1>s, <1>u, <2>2
      <4> QED
        BY <1>i, <3>1, <3>2, <4>1, OneAtATime
    <3>3. CASE t # r
      BY <1>m, <2>2, <3>1, <3>3 DEF Alone
    <3> QED
      BY <3>2, <3>3
  <2>3. ASSUME NEW p \in Req, req'[p].mode # "Down"
        PROVE  /\ req'[p].at \in Own => Alone(p, p)'
               /\ req'[p].at = "online" => Alone(p, req[p].stream)'
    <3>1. req'[p].at \in Own => req[p].at \in Own
      BY <1>r, <1>s, <1>u DEF Others
    <3>2. req'[p].at = "online" => req[p].at = "online" /\ req'[p].stream = req[p].stream
      BY <1>k, <1>q, <1>r DEF Others
    <3>3. req[p].mode # "Down"
      BY <1>k, <2>3
    <3>4. req'[p].at \in Own => Alone(p, p)'
      <4>1. req'[p].at \in Own => Alone(p, p)
        BY <1>i, <3>1, <3>3 DEF PlayInv
      <4> QED
        BY <2>2, <3>1, <4>1 DEF Alone
    <3>5. ASSUME req'[p].at = "online" PROVE Alone(p, req[p].stream)'
      <4> DEFINE but == req[p].stream
      <4>1. Alone(p, but) /\ req'[p].stream = but /\ req[p].at = "online"
        BY <1>i, <3>2, <3>3, <3>5 DEF PlayInv
      <4> HIDE DEF but
      <4> QED
        BY <2>2, <4>1 DEF Alone
    <3> QED
      BY <3>4, <3>5
  <2> QED
    BY <2>1, <2>3 DEF PlayInv
<1>6. PlayHalf'
  <2>1. SUFFICES ASSUME NEW s \in Req, NEW t \in Req, s # t, KeyOf(s) = KeyOf(t),
                        Playing(s)', Playing(t)'
                 PROVE  req[s].channel \in disturbed \cup hidden
    BY <1>k, <1>u DEF PlayHalf
  <2>2. /\ req[s].mode # "Down" /\ req[t].mode # "Down" /\ req[s].channel = req[t].channel
        /\ streamMap'[s].phase = "Playing" /\ streamMap'[t].phase = "Playing"
    BY <1>k, <2>1 DEF Playing, KeyOf
  <2>3. req[r].mode # "Down" => Alone(r, r)
    BY <1>i, <1>s, <1>u DEF PlayInv
  <2>4. CASE s = r
    BY <1>m, <2>1, <2>2, <2>3, <2>4 DEF Alone
  <2>5. CASE t = r
    BY <1>m, <2>1, <2>2, <2>3, <2>5 DEF Alone
  <2>6. CASE s # r /\ t # r
    BY <1>i, <1>m, <2>1, <2>2, <2>6 DEF PlayHalf, Playing
  <2> QED
    BY <2>4, <2>5, <2>6
<1>7. DownHalf'
  <2>1. \A p \in Req : Downloading(p)' => Downloading(p)
    BY <1>k, <1>r, <1>s, <1>u DEF Downloading, Others
  <2> QED
    BY <1>i, <1>k, <1>u, <2>1, DownMoves
<1>8. OutsideTypeOK'
  BY <1>i, <1>u, OutsideKept
<1> QED
  BY <1>1, <1>2, <1>3, <1>4, <1>5, <1>6, <1>7, <1>8, Halves
  DEF Inv, OneStreamPerChannel, PlayHalf, DownHalf

LEMMA Appended ==
  ASSUME SetupTypeOK, MapInv, NEW r \in Req, r \notin Range(deviceMap),
         deviceMap' = Append(deviceMap, r)
  PROVE  /\ deviceMap' \in Seq(Req) /\ Once'
         /\ \A s : s \in Range(deviceMap') <=> s \in Range(deviceMap) \/ s = r
<1>1. /\ deviceMap \in Seq(Req) /\ Len(deviceMap) \in Nat
      /\ DOMAIN deviceMap = 1 .. Len(deviceMap)
  BY DEF SetupTypeOK
<1>2. /\ deviceMap' \in Seq(Req) /\ DOMAIN deviceMap' = 1 .. Len(deviceMap) + 1
      /\ \A i \in 1 .. Len(deviceMap) : deviceMap'[i] = deviceMap[i]
      /\ deviceMap'[Len(deviceMap) + 1] = r
  BY <1>1
<1>n. \A i \in 1 .. Len(deviceMap) + 1 : i \in 1 .. Len(deviceMap) \/ i = Len(deviceMap) + 1
  BY <1>1
<1>m. /\ \A i \in 1 .. Len(deviceMap) : i \in 1 .. Len(deviceMap) + 1
      /\ Len(deviceMap) + 1 \in 1 .. Len(deviceMap) + 1
  BY <1>1
<1>3. \A i \in 1 .. Len(deviceMap) : deviceMap[i] # r
  BY <1>1 DEF Range
<1>4. Once'
  <2>1. \A i, j \in 1 .. Len(deviceMap) : deviceMap[i] = deviceMap[j] => i = j
    BY <1>1 DEF MapInv, Once
  <2>2. SUFFICES ASSUME NEW i \in 1 .. Len(deviceMap) + 1, NEW j \in 1 .. Len(deviceMap) + 1,
                        deviceMap'[i] = deviceMap'[j]
                 PROVE  i = j
    BY <1>2 DEF Once
  <2> QED
    BY ONLY <1>2, <1>3, <1>n, <2>1, <2>2, Zenon
<1>5. \A s : s \in Range(deviceMap') <=> s \in Range(deviceMap) \/ s = r
  BY <1>1, <1>2, <1>m, <1>n, Zenon DEF Range
<1> QED
  BY <1>2, <1>4, <1>5

LEMMA SucceedsWith ==
  ASSUME Inv, NEW r \in Req, NEW q \in Request, req' = [req EXCEPT ![r] = q],
         q.channel = req[r].channel, q.mode = req[r].mode, q.stream = req[r].stream,
         req[r].at = "source", deviceMap' = Append(deviceMap, r),
         streamMap' = WithToken(streamMap, r, r), UNCHANGED <<locks, record, disturbed, hidden>>,
         \/ q.at = "record" /\ q.lock = req[r].lock /\ holder' = holder /\ q.mode = "Down"
         \/ q.at = "done" /\ holder' = Release(r),
         OutsideTypeOK'
  PROVE  Inv'
<1>i. /\ SetupTypeOK /\ StageTypeOK /\ LockInv /\ MapInv /\ PlayInv /\ PlayHalf /\ DownHalf
  BY Halves DEF Inv
<1>r. req' \in [Req -> Request] /\ req'[r] = q /\ Others(r)
  BY <1>i, RequestChanged
<1>k. SameKey(r)
  BY <1>r DEF SameKey
<1>s. /\ "source" \in Own /\ "source" \in Locked /\ "source" \in Unmapped /\ "record" \in Busy
      /\ "record" \notin Unmapped /\ "done" \notin Unmapped /\ "done" \notin Own
      /\ "record" \notin Early /\ "done" \notin Early /\ "done" \notin Busy /\ "record" \in Own
      /\ "source" \in Busy \ {"lock", "check"}
  BY DEF Own, Locked, Busy, Unmapped, Early
<1>t. /\ req[r].channel \in Channel /\ req[r].mode \in Modes /\ req[r].lock \in Req
      /\ req[r].stream = r
  BY <1>i, <1>s DEF StageTypeOK
<1>m. /\ streamMap' \in [Req -> Stream] /\ Milder
      /\ \A t \in Req : streamMap'[t].phase = streamMap[t].phase
      /\ streamMap'[r].phase # None => Caller[r] \in streamMap'[r].tokens
  <2>1. streamMap \in [Req -> Stream]
    BY <1>i DEF SetupTypeOK
  <2> QED
    BY <2>1, TokenFacts
<1>d. /\ deviceMap' \in Seq(Req) /\ Once'
      /\ \A s : s \in Range(deviceMap') <=> s \in Range(deviceMap) \/ s = r
  <2>1. r \notin Range(deviceMap)
    BY <1>i, <1>s DEF MapInv
  <2> QED
    BY <1>i, <2>1, Appended
<1>1. SetupTypeOK'
  <2>1. holder' \in [Req -> Req \cup {None}]
    BY <1>i DEF SetupTypeOK, Release
  <2> QED
    BY <1>d, <1>i, <1>m, <1>r, <2>1 DEF SetupTypeOK
<1>2. StageTypeOK'
  BY <1>i, <1>r, <1>s, <1>t DEF StageTypeOK, Others
<1>3. LockInv'
  <2>1. CASE q.at = "record" /\ q.lock = req[r].lock /\ holder' = holder
    BY <1>i, <1>k, <1>r, <1>s, <2>1, LockMoves
  <2>2. CASE q.at = "done" /\ holder' = Release(r)
    BY <1>i, <1>r, <1>s, <2>2, LockEnds
  <2> QED
    BY <2>1, <2>2
<1>4. MapInv'
  <2>1. MapsKept(r)
    BY <1>d, <1>m, <1>r, <1>s DEF MapsKept, Milder
  <2>2. Advances(r)
    BY <1>k, <1>m, <1>r, <1>s, <1>t, Stages DEF Advances
  <2> QED
    BY <1>d, <1>i, <1>r, <2>1, <2>2, MapGrows
<1>5. PlayInv' /\ PlayHalf'
  BY <1>d, <1>i, <1>k, <1>m, <1>r, <1>s, PlayMoves
<1>6. DownHalf'
  <2>1. \A p \in Req : KeyOf(p)' = KeyOf(p) /\ req'[p].channel = req[p].channel
                         /\ req'[p].mode = req[p].mode
    BY <1>k, <1>r DEF KeyOf, Others, SameKey
  <2>2. \A p \in Req : Downloading(p)' => Downloading(p)
    BY <1>r, <1>s, <2>1 DEF Downloading, Others
  <2> QED
    BY <1>i, <2>1, <2>2, DownMoves
<1> QED
  BY <1>1, <1>2, <1>3, <1>4, <1>5, <1>6, Halves DEF Inv, OneStreamPerChannel, PlayHalf, DownHalf

LEMMA Succeeding ==
  ASSUME Inv, NEW r \in Req, Succeed(r)
  PROVE  Inv'
<1> USE DEF storeVars, outsideVars
<1>i. OutsideTypeOK /\ SetupTypeOK /\ req[r] \in Request
  BY DEF Inv, SetupTypeOK
<1>u. /\ req[r].at = "source" /\ deviceMap' = Append(deviceMap, r)
      /\ streamMap' = WithToken(streamMap, r, r)
      /\ UNCHANGED <<locks, record, disturbed, hidden>>
      /\ UNCHANGED <<sequence, waiter, row, session, media, callback, call>>
  BY DEF Succeed
<1>o. OutsideTypeOK'
  BY <1>i, <1>u, OutsideKept
<1>1. CASE req[r].mode = "Down"
  <2> DEFINE q == [req[r] EXCEPT !.at = "record"]
  <2>1. req' = [req EXCEPT ![r].at = "record"] /\ UNCHANGED holder
    BY <1>1 DEF Succeed
  <2>2. /\ q \in Request /\ q.at = "record" /\ q.channel = req[r].channel /\ q.mode = req[r].mode
        /\ q.lock = req[r].lock /\ q.stream = req[r].stream /\ req' = [req EXCEPT ![r] = q]
    <3>1. "record" \in At
      BY DEF At, Busy
    <3> QED
      BY <1>i, <2>1, <3>1, StageOnly
  <2> HIDE DEF q
  <2> QED
    BY <1>1, <1>o, <1>u, <2>1, <2>2, SucceedsWith
<1>2. CASE req[r].mode # "Down"
  <2> DEFINE q == [req[r] EXCEPT !.at = "done", !.lock = None, !.nodes = 0, !.tries = 0]
  <2>1. req' = [req EXCEPT ![r] = q] /\ holder' = Release(r)
    BY <1>2 DEF Succeed, Answer
  <2>2. /\ q \in Request /\ q.at = "done" /\ q.channel = req[r].channel /\ q.mode = req[r].mode
        /\ q.stream = req[r].stream
    <3>1. "done" \in At
      BY DEF At
    <3>2. 0 \in 0 .. Nodes /\ 0 \in 0 .. MaxSsrc
      BY SetupAssumption
    <3> QED
      BY <1>i, <3>1, <3>2 DEF Request
  <2> HIDE DEF q
  <2> QED
    BY <1>o, <1>u, <2>1, <2>2, SucceedsWith
<1> QED
  BY <1>1, <1>2

\* With its token every request of the caller for the stream leaves.
LEMMA Leaving ==
  ASSUME Inv, NEW r \in Req, off_play(r)
  PROVE  Inv'
<1> USE DEF storeVars, outsideVars
<1> DEFINE s == req[r].stream
<1> DEFINE Same(p) == req[p].at = "done" /\ req[p].stream = s /\ Caller[p] = Caller[r]
<1> DEFINE w == [streamMap[s] EXCEPT !.tokens = @ \ {Caller[r]}]
<1>i. /\ SetupTypeOK /\ StageTypeOK /\ OutsideTypeOK /\ LockInv /\ MapInv /\ PlayInv
      /\ PlayHalf /\ DownHalf
  BY Halves DEF Inv
<1>u. /\ req[r].at = "done"
      /\ req' = [p \in Req |-> IF Same(p) THEN [req[p] EXCEPT !.at = "left"] ELSE req[p]]
      /\ streamMap' = [streamMap EXCEPT ![s].tokens = @ \ {Caller[r]}]
      /\ UNCHANGED <<locks, holder, deviceMap, record, disturbed, hidden>>
      /\ UNCHANGED <<sequence, waiter, row, session, media, callback, call>>
  BY DEF off_play
<1>w. /\ s \in Req /\ req[s].at \notin Pending
      /\ w \in Stream /\ w.phase = streamMap[s].phase
      /\ w.tokens = streamMap[s].tokens \ {Caller[r]} /\ streamMap' = [streamMap EXCEPT ![s] = w]
  <2>1. s \in Req /\ streamMap \in [Req -> Stream] /\ req[s].at \notin Pending
    BY <1>i, <1>u DEF StageTypeOK, SetupTypeOK, MapInv
  <2> HIDE DEF s
  <2> QED
    BY <1>u, <2>1 DEF Stream
<1>q. ASSUME NEW p \in Req
      PROVE  /\ req'[p] \in Request
             /\ req'[p].channel = req[p].channel /\ req'[p].mode = req[p].mode
             /\ req'[p].lock = req[p].lock /\ req'[p].stream = req[p].stream
             /\ req'[p].nodes = req[p].nodes
             /\ \/ req'[p].at = req[p].at /\ ~ Same(p)
                \/ req[p].at = "done" /\ req'[p].at = "left"
  <2>1. req[p] \in Request /\ "left" \in At
    BY <1>i DEF SetupTypeOK, At
  <2>2. req'[p] = IF Same(p) THEN [req[p] EXCEPT !.at = "left"] ELSE req[p]
    BY <1>u
  <2>3. CASE Same(p)
    BY <2>1, <2>2, <2>3 DEF Request
  <2>4. CASE ~ Same(p)
    BY <2>1, <2>2, <2>4
  <2> QED
    BY <2>3, <2>4
<1>t. req' \in [Req -> Request]
  <2>1. DOMAIN req' = Req /\ req' = [p \in Req |-> req'[p]]
    BY <1>u
  <2> QED
    BY <1>q, <2>1
<1> HIDE DEF s, w
<1>k. \A p \in Req : KeyOf(p)' = KeyOf(p)
  BY <1>q DEF KeyOf
<1>s. /\ "left" \notin Busy /\ "left" \notin Locked /\ "left" \notin Pending
      /\ "left" \notin Early /\ "left" \notin Own /\ "left" \notin Unmapped
      /\ "done" \notin Busy /\ "done" \notin Locked /\ "done" \notin Own /\ "done" \notin Pending
  BY DEF Own, Locked, Busy, Pending, Unmapped, Early
<1>m. /\ streamMap' \in [Req -> Stream]
      /\ \A t \in Req : streamMap'[t].phase = streamMap[t].phase
      /\ \A t \in Req : streamMap[t].tokens \subseteq streamMap'[t].tokens \cup {Caller[r]}
      /\ \A t \in Req : t # s => streamMap'[t] = streamMap[t]
  BY <1>i, <1>w DEF SetupTypeOK
<1>1. SetupTypeOK'
  BY <1>i, <1>m, <1>t, <1>u DEF SetupTypeOK
<1>2. StageTypeOK'
  <2>1. SUFFICES ASSUME NEW p \in Req
                 PROVE  /\ req'[p].at # "idle" => req'[p].channel \in Channel /\ req'[p].mode \in Modes
                        /\ req'[p].at \in Busy => req'[p].lock \in Req
                        /\ req'[p].at \in {"alloc", "init"} => req'[p].nodes \in 1 .. Nodes
                        /\ req'[p].at \in Own => req'[p].stream = p
                        /\ req'[p].at \in {"online", "done"} => req'[p].stream \in Req
                        /\ req'[p].at = "online" => req'[p].mode # "Down"
                        /\ req'[p].at = "record" => req'[p].mode = "Down"
    BY DEF StageTypeOK
  <2>2. CASE req'[p].at = req[p].at
    BY <1>i, <1>q, <2>2 DEF StageTypeOK
  <2>3. CASE req[p].at = "done" /\ req'[p].at = "left"
    BY <1>i, <1>q, <1>s, <2>3 DEF StageTypeOK
  <2> QED
    BY <1>q, <2>2, <2>3
<1>3. LockInv'
  BY <1>i, <1>k, <1>q, <1>s, <1>u DEF LockInv
<1>4. MapInv'
  <2>d. Range(deviceMap) \subseteq Req
    BY <1>i DEF Range, SetupTypeOK
  <2>1. DeviceMapBacked' /\ Once'
    BY <1>i, <1>m, <1>q, <1>u, <2>d DEF MapInv, DeviceMapBacked, Once
  <2>2. ASSUME NEW p \in Req
        PROVE  /\ req'[p].at \in Early => streamMap'[p].phase = None
               /\ req'[p].at \in Unmapped => p \notin Range(deviceMap') /\ record'[p] = None
               /\ req'[p].at \in {"listen", "source", "record"} =>
                    streamMap'[p].phase # None \/ req'[p].channel \in disturbed'
    BY <1>i, <1>m, <1>q, <1>s, <1>u DEF MapInv
  <2>3. ASSUME NEW p \in Req, req'[p].at \in {"online", "done"}
        PROVE  req'[req'[p].stream].at \notin Pending
    <3>1. req[p].at \in {"online", "done"} /\ req'[p].stream = req[p].stream
      BY <1>q, <2>3
    <3>2. req[p].stream \in Req /\ req[req[p].stream].at \notin Pending
      BY <1>i, <3>1 DEF StageTypeOK, MapInv
    <3> QED
      BY <1>q, <1>s, <3>1, <3>2
  <2>4. ASSUME NEW p \in Req, req'[p].at \in {"record", "done"},
               streamMap'[req'[p].stream].phase # None
        PROVE  Caller[p] \in streamMap'[req'[p].stream].tokens
    <3>1. req'[p].at = req[p].at /\ req'[p].stream = req[p].stream /\ ~ Same(p)
      BY <1>q, <2>4
    <3>2. req[p].stream \in Req
      BY <1>i, <2>4, <3>1 DEF StageTypeOK, Own
    <3>3. Caller[p] \in streamMap[req[p].stream].tokens
      BY <1>i, <1>m, <2>4, <3>1, <3>2 DEF MapInv
    <3>4. CASE req[p].at = "record"
      <4>1. req[p].stream = p /\ p # s
        BY <1>i, <1>w, <3>4 DEF StageTypeOK, Own, Pending
      <4> QED
        BY <1>m, <3>1, <3>2, <3>3, <4>1
    <3>5. CASE req[p].at = "done"
      <4>1. req[p].stream # s \/ Caller[p] # Caller[r]
        BY <3>1, <3>5
      <4> QED
        BY <1>m, <3>1, <3>2, <3>3, <4>1
    <3> QED
      BY <2>4, <3>1, <3>4, <3>5
  <2> QED
    BY <2>1, <2>2, <2>3, <2>4 DEF MapInv
<1>5. PlayInv'
  <2>1. \A x \in Req : streamMap'[x].phase = "Playing" =>
          x \in Range(deviceMap') \/ req'[x].at \in {"listen", "source", "cleanup"}
    BY <1>i, <1>m, <1>q, <1>u DEF PlayInv
  <2>2. ASSUME NEW p \in Req, req'[p].mode # "Down"
        PROVE  /\ req'[p].at \in Own => Alone(p, p)'
               /\ req'[p].at = "online" => Alone(p, req[p].stream)'
    <3>1. req'[p].at \in Own => Alone(p, p)
      BY <1>i, <1>q, <1>s, <2>2 DEF PlayInv
    <3>2. req'[p].at = "online" => Alone(p, req[p].stream)
      BY <1>i, <1>q, <2>2 DEF PlayInv
    <3> QED
      BY <1>k, <1>m, <1>q, <1>u, <3>1, <3>2 DEF Alone
  <2> QED
    BY <2>1, <2>2 DEF PlayInv
<1>6. PlayHalf'
  BY <1>i, <1>k, <1>m, <1>q, <1>u DEF PlayHalf, Playing
<1>7. DownHalf'
  <2>1. \A p \in Req : Downloading(p)' => Downloading(p)
    BY <1>q, <1>s, <1>u DEF Downloading
  <2> QED
    BY <1>i, <1>k, <1>q, <1>u, <2>1, DownMoves
<1>8. OutsideTypeOK'
  BY <1>i, <1>u, OutsideKept
<1> QED
  BY <1>1, <1>2, <1>3, <1>4, <1>5, <1>6, <1>7, <1>8, Halves
  DEF Inv, OneStreamPerChannel, PlayHalf, DownHalf

-----------------------------------------------------------------------------
(***************************************************************************)
(* What happens outside the set-ups.                                       *)
(***************************************************************************)
\* The requests, the locks and the entries stay; a stream may begin to be
\* closed, and a record may end.
LEMMA Outside ==
  ASSUME Inv, NEW r \in Req, UNCHANGED <<req, locks, holder, deviceMap, disturbed, hidden>>,
         streamMap' \in [Req -> Stream], Milder,
         \A s \in Req : streamMap'[s].phase = "Playing" => streamMap[s].phase = "Playing",
         record' \in [Req -> {None, "running", "over"}],
         \A s \in Req : record'[s] = record[s] \/ (record[s] = "running" /\ record'[s] = "over"),
         OutsideTypeOK'
  PROVE  Inv'
<1>i. SetupTypeOK /\ StageTypeOK /\ LockInv /\ MapInv /\ PlayInv /\ PlayHalf /\ DownHalf
  BY Halves DEF Inv
<1>o. Others(r) /\ SameKey(r)
  BY DEF Others, SameKey
<1>1. SetupTypeOK' /\ StageTypeOK'
  BY <1>i DEF SetupTypeOK, StageTypeOK
<1>2. LockInv'
  BY <1>i, LockUntouched
<1>3. MapInv'
  <2>1. \A s \in Req : req'[s].at \in Unmapped /\ record[s] = None => record'[s] = None
    BY DEF None
  <2>2. req[r].at \in {"record", "done"} => req[r].stream \in Req
    BY <1>i DEF StageTypeOK, Own
  <2>3. /\ req[r].at \in {"online", "done"} => req[req[r].stream].at \notin Pending
        /\ req[r].at \in {"record", "done"} /\ streamMap[req[r].stream].phase # None =>
             Caller[r] \in streamMap[req[r].stream].tokens
    BY <1>i DEF MapInv
  <2>4. req[r].at \in {"record", "done"} /\ streamMap'[req[r].stream].phase # None =>
          Caller[r] \in streamMap'[req[r].stream].tokens
    BY <2>2, <2>3 DEF Milder
  <2>5. req[r].at \in {"online", "done"} => req[r].stream \in Req
    BY <1>i DEF StageTypeOK
  <2> QED
    BY <1>i, <1>o, <2>1, <2>3, <2>4, <2>5, MapMoves
<1>4. PlayInv' /\ PlayHalf'
  <2>1. streamMap'[r].phase = "Playing" /\ req[r].at \in {"listen", "source", "cleanup"} =>
          r \in Range(deviceMap') \/ req'[r].at \in {"listen", "source", "cleanup"}
    OBVIOUS
  <2> QED
    BY <1>i, <1>o, <2>1, PlayMoves
<1>5. DownHalf'
  <2>1. \A p \in Req : /\ Downloading(p)' => Downloading(p)
                       /\ KeyOf(p)' = KeyOf(p) /\ req'[p].channel = req[p].channel
    BY DEF Downloading, KeyOf
  <2> QED
    BY <1>i, <2>1, DownMoves
<1> QED
  BY <1>1, <1>2, <1>3, <1>4, <1>5, Halves DEF Inv, OneStreamPerChannel, PlayHalf, DownHalf

LEMMA Happening ==
  ASSUME Inv, NEW s \in Req,
         \/ InsertStreamWait(s) \/ WaitExpires(s) \/ MediaRegisters(s) \/ stream_register(s)
         \/ stream_input_timeout(s) \/ MarkOrphan(s) \/ end_record(s)
  PROVE  Inv'
<1> USE DEF cacheVars, storeVars, outsideVars
<1>i. /\ OutsideTypeOK /\ streamMap \in [Req -> Stream]
      /\ record \in [Req -> {None, "running", "over"}]
  BY DEF Inv, SetupTypeOK
<1>1. CASE \/ InsertStreamWait(s) \/ WaitExpires(s) \/ MediaRegisters(s) \/ stream_register(s)
           \/ MarkOrphan(s)
  <2>1. UNCHANGED <<req, locks, holder, streamMap, deviceMap, record, disturbed, hidden>>
    BY <1>1 DEF InsertStreamWait, WaitExpires, MediaRegisters, stream_register, MarkOrphan
  <2>2. OutsideTypeOK'
    BY <1>1, <1>i DEF InsertStreamWait, WaitExpires, MediaRegisters, stream_register, MarkOrphan,
       OutsideTypeOK
  <2> QED
    BY <1>i, <2>1, <2>2, MilderUntouched, Outside
<1>2. CASE stream_input_timeout(s)
  <2>1. /\ UNCHANGED <<req, locks, holder, deviceMap, record, disturbed, hidden>>
        /\ streamMap' = Closing(s)
    BY <1>2 DEF stream_input_timeout
  <2>2. OutsideTypeOK'
    BY <1>2, <1>i DEF stream_input_timeout, OutsideTypeOK
  <2>3. /\ streamMap' \in [Req -> Stream] /\ Milder
        /\ \A t \in Req : streamMap'[t].phase = "Playing" => streamMap[t].phase = "Playing"
    BY <1>i, <2>1, ClosingFacts
  <2> QED
    BY <1>i, <2>1, <2>2, <2>3, Outside
<1>3. CASE end_record(s)
  <2>1. /\ UNCHANGED <<req, locks, holder, streamMap, deviceMap, disturbed, hidden>>
        /\ UNCHANGED <<sequence, waiter, row, session, media, callback, call>>
        /\ record[s] = "running" /\ record' = [record EXCEPT ![s] = "over"]
    BY <1>3 DEF end_record
  <2>2. OutsideTypeOK'
    BY <1>i, <2>1, OutsideKept
  <2>3. /\ record' \in [Req -> {None, "running", "over"}]
        /\ \A t \in Req : record'[t] = record[t] \/ (record[t] = "running" /\ record'[t] = "over")
    BY <1>i, <2>1
  <2> QED
    BY <1>i, <2>1, <2>2, <2>3, MilderUntouched, Outside
<1> QED
  BY <1>1, <1>2, <1>3

\* Streams go, and with them their entries.
LEMMA StreamsGo ==
  ASSUME Inv, NEW S \in SUBSET Req, UNCHANGED <<req, holder, record, hidden>>,
         locks' \in [Key -> Req \cup {None}], locks' = locks \/ S = Req,
         streamMap' \in [Req -> Stream], \A s \in S : streamMap'[s] = NoStream,
         \A s \in Req \ S : streamMap'[s] = streamMap[s],
         deviceMap' \in Seq(Req), Range(deviceMap') = Range(deviceMap) \ S, Once',
         disturbed' = Lost(S), OutsideTypeOK'
  PROVE  Inv'
<1>i. SetupTypeOK /\ StageTypeOK /\ LockInv /\ MapInv /\ PlayInv /\ PlayHalf /\ DownHalf
  BY Halves DEF Inv
<1>k. \A p \in Req : KeyOf(p)' = KeyOf(p)
  BY DEF KeyOf
<1>n. \A s \in S : streamMap'[s].phase = None
  BY DEF NoStream
<1>l. /\ disturbed \subseteq disturbed'
      /\ \A s \in S : req[s].at \in Busy => req[s].channel \in disturbed'
  BY DEF Lost
<1>1. SetupTypeOK'
  <2>1. disturbed' \subseteq Channel
    <3>1. \A s \in Req : req[s].at \in Busy => req[s].channel \in Channel
      BY <1>i DEF StageTypeOK, Busy
    <3> QED
      BY <1>i, <3>1 DEF SetupTypeOK, Lost
  <2> QED
    BY <1>i, <2>1 DEF SetupTypeOK
<1>2. StageTypeOK'
  BY <1>i DEF StageTypeOK
<1>3. LockInv'
  BY <1>i, <1>k, <1>l DEF LockInv
<1>4. MapInv'
  <2>d. Range(deviceMap) \subseteq Req
    BY <1>i DEF Range, SetupTypeOK
  <2>1. DeviceMapBacked'
    BY <1>i, <1>l, <2>d DEF MapInv, DeviceMapBacked
  <2>2. ASSUME NEW p \in Req
        PROVE  /\ req'[p].at \in Early => streamMap'[p].phase = None
               /\ req'[p].at \in Unmapped => p \notin Range(deviceMap') /\ record'[p] = None
    BY <1>i, <1>n DEF MapInv
  <2>3. ASSUME NEW p \in Req, req[p].at \in {"listen", "source", "record"}
        PROVE  streamMap'[p].phase # None \/ req[p].channel \in disturbed'
    <3>1. CASE p \in S
      <4>1. req[p].at \in Busy
        BY <2>3 DEF Busy
      <4> QED
        BY <1>l, <3>1, <4>1
    <3>2. CASE p \notin S
      BY <1>i, <1>l, <2>3, <3>2 DEF MapInv
    <3> QED
      BY <3>1, <3>2
  <2>4. ASSUME NEW p \in Req
        PROVE  /\ req'[p].at \in {"online", "done"} => req'[req'[p].stream].at \notin Pending
               /\ req'[p].at \in {"record", "done"} /\ streamMap'[req'[p].stream].phase # None =>
                    Caller[p] \in streamMap'[req'[p].stream].tokens
    <3>1. req[p].at \in {"record", "done"} => req[p].stream \in Req
      BY <1>i DEF StageTypeOK, Own
    <3> QED
      BY <1>i, <1>n, <3>1 DEF MapInv
  <2> QED
    BY <2>1, <2>2, <2>3, <2>4 DEF MapInv
<1>p. \A s \in Req : streamMap'[s].phase = "Playing" => s \notin S /\ streamMap[s].phase = "Playing"
  BY <1>n, Phases
<1>5. PlayInv'
  <2>1. \A s \in Req : streamMap'[s].phase = "Playing" =>
          s \in Range(deviceMap') \/ req'[s].at \in {"listen", "source", "cleanup"}
    BY <1>i, <1>p DEF PlayInv
  <2>2. \A p \in Req : req'[p].mode # "Down" =>
          /\ req'[p].at \in Own => Alone(p, p)'
          /\ req'[p].at = "online" => Alone(p, req[p].stream)'
    BY <1>i, <1>k, <1>l, <1>p DEF PlayInv, Alone
  <2> QED
    BY <2>1, <2>2 DEF PlayInv
<1>6. PlayHalf'
  BY <1>i, <1>k, <1>l, <1>p DEF PlayHalf, Playing
<1>7. DownHalf'
  <2>1. \A p \in Req : Downloading(p)' => Downloading(p)
    BY DEF Downloading
  <2> QED
    BY <1>i, <1>k, <1>l, <2>1, DownMoves
<1> QED
  BY <1>1, <1>2, <1>3, <1>4, <1>5, <1>6, <1>7, Halves
  DEF Inv, OneStreamPerChannel, PlayHalf, DownHalf

LEMMA Going ==
  ASSUME Inv, NEW s \in Req, CloseEnds(s) \/ PeerBye(s)
  PROVE  Inv'
<1> USE DEF cacheVars, storeVars, outsideVars
<1>i. OutsideTypeOK /\ SetupTypeOK /\ MapInv /\ locks \in [Key -> Req \cup {None}]
  BY DEF Inv, SetupTypeOK
<1>1. /\ Removed(s) /\ disturbed' = Lost({s})
      /\ UNCHANGED <<req, locks, holder, record, hidden>>
  BY DEF CloseEnds, PeerBye
<1>2. OutsideTypeOK'
  BY <1>i DEF CloseEnds, PeerBye, OutsideTypeOK
<1>3. /\ streamMap' \in [Req -> Stream] /\ streamMap'[s] = NoStream
      /\ \A t \in Req \ {s} : streamMap'[t] = streamMap[t]
      /\ deviceMap' \in Seq(Req) /\ Range(deviceMap') = Range(deviceMap) \ {s} /\ Once'
  BY <1>1, <1>i, RemovedFacts
<1> QED
  BY <1>1, <1>2, <1>3, <1>i, StreamsGo

LEMMA Resetting ==
  ASSUME Inv, reset_device_state
  PROVE  Inv'
<1> USE DEF storeVars
<1>i. OutsideTypeOK /\ SetupTypeOK
  BY DEF Inv
<1>1. /\ deviceMap' = <<>> /\ streamMap' = [s \in Req |-> NoStream] /\ locks' = ResetLocks
      /\ disturbed' = Lost(Req) /\ UNCHANGED <<req, holder, record, hidden>>
  BY DEF reset_device_state
<1>2. OutsideTypeOK'
  BY <1>i DEF reset_device_state, OutsideTypeOK
<1>3. locks' \in [Key -> Req \cup {None}]
  BY <1>1 DEF ResetLocks
<1>4. streamMap' \in [Req -> Stream] /\ \A s \in Req : streamMap'[s] = NoStream
  BY <1>1 DEF NoStream, Stream
<1>5. deviceMap' \in Seq(Req) /\ Once' /\ Range(deviceMap') = {}
  BY <1>1 DEF Range, Once
<1>6. Range(deviceMap) \subseteq Req
  BY <1>i DEF Range, SetupTypeOK
<1> QED
  BY <1>1, <1>2, <1>3, <1>4, <1>5, <1>6, StreamsGo

LEMMA Unaffected ==
  ASSUME Inv, UNCHANGED <<req, locks, holder, streamMap, deviceMap, record, disturbed, hidden>>,
         OutsideTypeOK'
  PROVE  Inv'
<1>1. SetupTypeOK' /\ StageTypeOK' /\ LockInv'
  BY LockUntouched DEF Inv, SetupTypeOK, StageTypeOK
<1>2. MapInv'
  BY DEF Inv, MapInv, DeviceMapBacked, Once
<1>3. \A p : KeyOf(p)' = KeyOf(p)
  BY DEF KeyOf
<1>4. PlayInv'
  BY <1>3 DEF Inv, PlayInv, Alone
<1>5. OneStreamPerChannel'
  BY <1>3 DEF Inv, OneStreamPerChannel, Playing, Downloading
<1> QED
  BY <1>1, <1>2, <1>4, <1>5 DEF Inv

-----------------------------------------------------------------------------
LEMMA InitInv == Init => Inv
<1> SUFFICES ASSUME Init PROVE Inv
  OBVIOUS
<1> DEFINE q == [at |-> "idle", channel |-> None, mode |-> None, lock |-> None,
                 stream |-> None, nodes |-> 0, ssrc |-> 0, tries |-> 0]
<1>1. /\ req = [r \in Req |-> q] /\ locks = [k \in Key |-> None] /\ holder = [r \in Req |-> None]
      /\ streamMap = [s \in Req |-> NoStream] /\ deviceMap = <<>>
      /\ record = [s \in Req |-> None] /\ disturbed = {} /\ hidden = {}
  BY DEF Init
<1>2. q \in Request /\ q.at = "idle" /\ q.mode = None
  <2>1. 0 \in 0 .. Nodes /\ 0 \in 0 .. MaxSsrc /\ "idle" \in At
    BY SetupAssumption DEF At
  <2> QED
    BY <2>1 DEF Request
<1> HIDE DEF q
<1>s. "idle" \notin Busy /\ "idle" \notin Own /\ "idle" \notin Locked /\ None # "Playing"
      /\ None # "running"
  BY DEF Busy, Own, Locked, None
<1>3. SetupTypeOK
  BY <1>1, <1>2 DEF SetupTypeOK, Stream, NoStream
<1>4. StageTypeOK /\ LockInv
  BY <1>1, <1>2, <1>s DEF StageTypeOK, LockInv
<1>5. OutsideTypeOK
  BY SetupAssumption DEF Init, OutsideTypeOK
<1>6. MapInv
  <2>1. Range(deviceMap) = {} /\ Once
    BY <1>1 DEF Range, Once
  <2> QED
    BY <1>1, <1>2, <2>1 DEF MapInv, DeviceMapBacked, NoStream
<1>7. PlayInv
  BY <1>1, <1>2, <1>s DEF PlayInv, NoStream
<1>8. OneStreamPerChannel
  BY <1>1, <1>2, <1>s DEF OneStreamPerChannel, Playing, Downloading, NoStream
<1> QED
  BY <1>3, <1>4, <1>5, <1>6, <1>7, <1>8 DEF Inv

LEMMA StepInv == Inv /\ [Next]_vars => Inv'
<1> SUFFICES ASSUME Inv, [Next]_vars PROVE Inv'
  OBVIOUS
<1> USE DEF cacheVars, storeVars, outsideVars
<1>o. OutsideTypeOK
  BY DEF Inv
<1>1. ASSUME NEW r \in Req, Start(r) \/ Step(r) \/ WaitExpires(r) \/ off_play(r) PROVE Inv'
  <2>1. CASE Start(r) \/ WaitExpires(r) \/ off_play(r)
    BY <2>1, Starting, Happening, Leaving
  <2>2. CASE Lock(r) \/ FindRunning(r) \/ JoinRunning(r) \/ ReplaceOffline(r) \/ OnlineFails(r)
    BY <2>2, Locking, FindingRunning, Ending, Querying
  <2>3. CASE \/ QueryRecord(r) \/ Allocate(r) \/ StreamInit(r) \/ StreamInitFails(r)
             \/ InsertInviting(r) \/ InviteAccepted(r) \/ InviteRefused(r) \/ InviteTimeout(r)
    BY <2>3, Querying, Allocating, Dialling
  <2>4. CASE \/ StreamInitExt(r) \/ StreamInitExtFails(r) \/ InsertInfo(r)
             \/ InsertStreamWait(r) \/ Registered(r) \/ NotRegistered(r)
    BY <2>4, Dialling, Inserting, Happening
  <2>5. CASE Succeed(r) \/ InsertRecord(r) \/ CleanupStreamInit(r)
    BY <2>5, Succeeding, Ending
  <2> QED
    BY <1>1, <2>1, <2>2, <2>3, <2>4, <2>5 DEF Step
<1>2. ASSUME NEW s \in Req,
             \/ MediaRegisters(s) \/ stream_register(s) \/ stream_input_timeout(s)
             \/ CloseEnds(s) \/ MarkOrphan(s) \/ PeerBye(s) \/ end_record(s)
      PROVE  Inv'
  BY <1>2, Happening, Going
<1>3. CASE reset_device_state
  BY <1>3, Resetting
<1>4. CASE DeviceRegisters
  <2>1. UNCHANGED <<req, locks, holder, streamMap, deviceMap, record, disturbed, hidden>>
    BY <1>4 DEF DeviceRegisters
  <2>2. OutsideTypeOK'
    BY <1>4, <1>o DEF DeviceRegisters, OutsideTypeOK
  <2> QED
    BY <2>1, <2>2, Unaffected
<1>5. CASE OtherDevices
  <2>1. /\ UNCHANGED <<req, locks, holder, streamMap, deviceMap, record, disturbed, hidden>>
        /\ UNCHANGED <<waiter, row, session, media, callback, call>>
        /\ sequence' = IF sequence = MaxSsrc THEN 1 ELSE sequence + 1
    BY <1>5 DEF OtherDevices
  <2>2. sequence' \in 1 .. MaxSsrc
    BY <1>o, <2>1, SetupAssumption DEF OutsideTypeOK
  <2>3. OutsideTypeOK'
    BY <1>o, <2>1, <2>2 DEF OutsideTypeOK
  <2> QED
    BY <2>1, <2>3, Unaffected
<1>6. CASE UNCHANGED vars
  <2>1. /\ UNCHANGED <<req, locks, holder, streamMap, deviceMap, record, disturbed, hidden>>
        /\ UNCHANGED <<sequence, waiter, row, session, media, callback, call>>
    BY <1>6 DEF vars
  <2> QED
    BY <1>o, <2>1, OutsideKept, Unaffected
<1> QED
  BY <1>1, <1>2, <1>3, <1>4, <1>5, <1>6 DEF Next

\* Every reachable state of the set-ups satisfies the invariant, from which the
\* theorems below follow: the locks, the maps and the requests agree.
THEOREM SetupInvariant == Spec => []Inv
<1> QED
  BY InitInv, StepInv, PTL DEF Spec

\* Requests, locks, maps and the SSRC sequence have the values the code gives
\* them, and a set-up under way holds its lock (play_live, SsrcSequence).
THEOREM SetupTypeCorrect == Spec => []TypeOK
<1> QED
  BY SetupInvariant, TypesGiven, PTL

\* However many viewers ask for a channel, two streams of it play only after a
\* stream was lost in a set-up under way, or one that plays was hidden by one
\* that is being closed; two downloads are under way only after such a loss
\* (stream_setup_lock, enable_invite_stream, download).
THEOREM OneStreamCorrect == Spec => []OneStreamPerChannel
<1>1. Inv => OneStreamPerChannel
  BY DEF Inv
<1> QED
  BY <1>1, SetupInvariant, PTL

\* An entry of the device map belongs to a stream of the stream map, except
\* after a stream was lost in a set-up (device_map_insert and the removals).
THEOREM DeviceMapCorrect == Spec => []DeviceMapBacked
<1>1. Inv => DeviceMapBacked
  BY DEF Inv, MapInv
<1> QED
  BY <1>1, SetupInvariant, PTL

\* Who was given a stream has its caller's token there as long as the stream is
\* there and no viewing of it under this token was reported off
\* (stream_map_insert_token, stream_map_remove_token; on_play looks it up).
THEOREM ViewerCorrect == Spec => []ViewerAdmitted
<1>1. Inv => ViewerAdmitted
  BY DEF Inv, MapInv, ViewerAdmitted
<1> QED
  BY <1>1, SetupInvariant, PTL

(***************************************************************************)
(* SSRCs.  A set-up claims its SSRC from the allocation on, but what other *)
(* allocations see (SsrcActive) is only the stream map and the row.        *)
(***************************************************************************)
Offered == {"init", "invite", "inviting", "ext", "insert"}

Claims(s) ==
  /\ req[s].ssrc # 0
  /\ req[s].at \in Offered \/ streamMap[s].phase # None \/ row[s] = "active"

SsrcInv == \A s, t \in Req : s # t /\ Claims(s) /\ Claims(t) => req[s].ssrc # req[t].ssrc

\* The sequence does not come round to the value of a set-up that has no row:
\* before insert_inviting, or after the device hung up during the set-up.
SequenceAhead ==
  \A r, s \in Req :
      req[r].at = "alloc" /\ req[s].at \in Offered /\ row[s] # "active" =>
          req[s].ssrc # sequence

\* Only an allocation gives a request an SSRC, or a claim that it had not.
NoNewClaim == \A s \in Req : req'[s].ssrc = req[s].ssrc /\ (Claims(s)' => Claims(s))

LEMMA ClaimsKept ==
  ASSUME SsrcInv, NoNewClaim
  PROVE  SsrcInv'
BY DEF SsrcInv, NoNewClaim

\* A step of one request, on to a stage where it has a claim only if it had one.
LEMMA ClaimMoves ==
  ASSUME Inv, NEW r \in Req, NEW q, req' = [req EXCEPT ![r] = q], q.ssrc = req[r].ssrc,
         q.at \in Offered => req[r].at \in Offered,
         \A s \in Req : streamMap'[s].phase # None =>
             streamMap[s].phase # None \/ (s = r /\ req[r].at \in Offered),
         \A s \in Req : row'[s] = "active" =>
             row[s] = "active" \/ (s = r /\ req[r].at \in Offered)
  PROVE  NoNewClaim
<1>1. req \in [Req -> Request]
  BY DEF Inv, SetupTypeOK
<1>2. \A s \in Req : req'[s] = IF s = r THEN q ELSE req[s]
  BY <1>1
<1> QED
  BY <1>2 DEF NoNewClaim, Claims

\* A step outside the requests.
LEMMA ClaimOutside ==
  ASSUME Inv, UNCHANGED req,
         \A s \in Req : streamMap'[s].phase # None => streamMap[s].phase # None,
         \A s \in Req : row'[s] = "active" => row[s] = "active"
  PROVE  NoNewClaim
BY DEF NoNewClaim, Claims

\* Where only the request's own stage and bookkeeping change.
LEMMA RequestStep ==
  ASSUME Inv, NEW r \in Req, NEW q, req' = [req EXCEPT ![r] = q], q.ssrc = req[r].ssrc,
         q.at \in Offered => req[r].at \in Offered, UNCHANGED row,
         \A s \in Req : streamMap'[s].phase # None => streamMap[s].phase # None
  PROVE  NoNewClaim
BY ClaimMoves

LEMMA AnswerClaims ==
  ASSUME Inv, NEW r \in Req, NEW at \in {"done", "failed"}, Answer(r, at), UNCHANGED row,
         \A s \in Req : streamMap'[s].phase # None => streamMap[s].phase # None
  PROVE  NoNewClaim
<1> DEFINE q == [req[r] EXCEPT !.at = at, !.lock = None, !.nodes = 0, !.tries = 0]
<1>1. req' = [req EXCEPT ![r] = q]
  BY DEF Answer
<1>2. req[r] \in Request
  BY DEF Inv, SetupTypeOK
<1>3. q.at = at /\ q.ssrc = req[r].ssrc
  BY <1>2 DEF Request
<1> HIDE DEF q
<1>4. at \notin Offered
  BY DEF Offered
<1> QED
  BY <1>1, <1>3, <1>4, RequestStep

\* SsrcSequence::allocate gives a value that no stream in the map and no active
\* row has and, as long as the sequence is ahead, no set-up under way either.
LEMMA AllocateClaims ==
  ASSUME Inv, SsrcInv, SequenceAhead, NEW r \in Req, Allocate(r)
  PROVE  SsrcInv'
<1>1. req \in [Req -> Request] /\ req[r] \in Request /\ sequence \in 1 .. MaxSsrc
  BY DEF Inv, SetupTypeOK, OutsideTypeOK
<1>2. req[r].at = "alloc" /\ UNCHANGED <<streamMap, row>>
  BY DEF Allocate, outsideVars
<1>3. CASE req[r].tries = MaxSsrc
  BY <1>2, <1>3, AnswerClaims, ClaimsKept DEF Allocate, Fail
<1>4. CASE req[r].tries # MaxSsrc /\ SsrcActive(sequence)
  <2> DEFINE q == [req[r] EXCEPT !.tries = @ + 1]
  <2>1. req' = [req EXCEPT ![r] = q]
    BY <1>4 DEF Allocate
  <2>2. q.at = "alloc" /\ q.ssrc = req[r].ssrc
    BY <1>1, <1>2 DEF Request
  <2> HIDE DEF q
  <2>3. "alloc" \notin Offered
    BY DEF Offered
  <2> QED
    BY <1>2, <2>1, <2>2, <2>3, RequestStep, ClaimsKept
<1>5. CASE req[r].tries # MaxSsrc /\ ~SsrcActive(sequence)
  <2> DEFINE q == [req[r] EXCEPT !.at = "init", !.ssrc = sequence, !.tries = 0]
  <2>1. req' = [req EXCEPT ![r] = q]
    BY <1>5 DEF Allocate
  <2>2. q.at = "init" /\ q.ssrc = sequence
    BY <1>1 DEF Request
  <2> HIDE DEF q
  <2>3. \A s \in Req : req'[s] = IF s = r THEN q ELSE req[s]
    BY <1>1, <2>1
  <2>4. ASSUME NEW s \in Req, s # r, Claims(s)
        PROVE  req[s].ssrc # sequence
    <3>1. CASE req[s].at \in Offered /\ row[s] # "active"
      BY <1>2, <3>1 DEF SequenceAhead
    <3>2. CASE streamMap[s].phase # None \/ row[s] = "active"
      BY <1>5, <3>2 DEF SsrcActive
    <3> QED
      BY <2>4, <3>1, <3>2 DEF Claims
  <2>5. \A s \in Req : s # r /\ Claims(s)' => Claims(s)
    BY <1>2, <2>3 DEF Claims
  <2>6. ASSUME NEW s \in Req, NEW t \in Req, s # t, Claims(s)', Claims(t)'
        PROVE  req'[s].ssrc # req'[t].ssrc
    <3>1. CASE s # r /\ t # r
      BY <2>3, <2>5, <2>6, <3>1 DEF SsrcInv
    <3>2. CASE s = r
      BY <2>2, <2>3, <2>4, <2>5, <2>6, <3>2
    <3>3. CASE t = r
      BY <2>2, <2>3, <2>4, <2>5, <2>6, <3>3
    <3> QED
      BY <3>1, <3>2, <3>3
  <2> QED
    BY <2>6 DEF SsrcInv
<1> QED
  BY <1>3, <1>4, <1>5

\* The steps that only move a request on.
LEMMA StartClaims ==
  ASSUME Inv, NEW r \in Req, Start(r)
  PROVE  NoNewClaim
<1> USE DEF storeVars, outsideVars
<1>1. req[r] \in Request /\ UNCHANGED <<streamMap, row>>
  BY DEF Inv, SetupTypeOK, Start
<1> DEFINE Lk(k) == IF locks[k] = None THEN r ELSE locks[k]
<1> DEFINE Q(c, m) == [req[r] EXCEPT !.at = "lock", !.channel = c, !.mode = m, !.lock = Lk(<<c, m>>)]
<1>2. PICK c \in Channel, m \in Modes : /\ req' = [req EXCEPT ![r] = Q(c, m)]
                                        /\ locks' = [locks EXCEPT ![<<c, m>>] = Lk(<<c, m>>)]
  BY DEF Start
<1> DEFINE q == Q(c, m)
<1> HIDE DEF Lk
<1>3. q.ssrc = req[r].ssrc /\ q.at = "lock" /\ req' = [req EXCEPT ![r] = q]
  BY <1>1, <1>2 DEF Request
<1> HIDE DEF q, Q
<1>4. q.at \notin Offered
  BY <1>3 DEF Offered
<1> QED
  BY <1>1, <1>3, <1>4, RequestStep

LEMMA ToAllocateClaims ==
  ASSUME Inv, NEW r \in Req, ToAllocate(r), UNCHANGED row,
         \A s \in Req : streamMap'[s].phase # None => streamMap[s].phase # None
  PROVE  NoNewClaim
<1> DEFINE q == [req[r] EXCEPT !.at = "alloc", !.nodes = Nodes, !.stream = r]
<1>1. req[r] \in Request
  BY DEF Inv, SetupTypeOK
<1>2. req' = [req EXCEPT ![r] = q] /\ q.ssrc = req[r].ssrc /\ q.at = "alloc"
  BY <1>1 DEF Request, ToAllocate
<1> HIDE DEF q
<1>3. q.at \notin Offered
  BY <1>2 DEF Offered
<1> QED
  BY <1>2, <1>3, RequestStep

LEMMA FindRunningClaims ==
  ASSUME Inv, NEW r \in Req, FindRunning(r)
  PROVE  NoNewClaim
<1> USE DEF cacheVars, storeVars
<1>0. req[r] \in Request
  BY DEF Inv, SetupTypeOK
<1>u. /\ UNCHANGED <<locks, holder, streamMap, deviceMap, record, disturbed>>
      /\ UNCHANGED <<sequence, waiter, row, session, media, callback, call>>
  BY DEF FindRunning
<1>1. req[r] \in Request /\ UNCHANGED <<streamMap, row>>
  BY <1>0, <1>u
<1>2. ASSUME NEW s \in InviteInfo(KeyOf(r)), streamMap[s].phase # None,
             req' = [req EXCEPT ![r] = [@ EXCEPT !.at = "online", !.stream = s]],
             hidden' = IF Hides(s) THEN hidden \cup {req[r].channel} ELSE hidden
      PROVE  NoNewClaim
  <2> DEFINE q == [req[r] EXCEPT !.at = "online", !.stream = s]
  <2>1. req' = [req EXCEPT ![r] = q] /\ q.ssrc = req[r].ssrc /\ q.at = "online"
    BY <1>1, <1>2 DEF Request
  <2> HIDE DEF q
  <2>2. q.at \notin Offered
    BY <2>1 DEF Offered
  <2> QED
    BY <1>1, <2>1, <2>2, RequestStep
<1>3. ASSUME \A s \in InviteInfo(KeyOf(r)) : streamMap[s].phase = None, ToAllocate(r),
             UNCHANGED hidden
      PROVE  NoNewClaim
  BY <1>1, <1>3, ToAllocateClaims
<1> QED
  BY <1>2, <1>3 DEF FindRunning

\* A step to another stage, and nothing else of the request.
LEMMA StageClaims ==
  ASSUME Inv, NEW r \in Req, NEW a, req' = [req EXCEPT ![r].at = a],
         a \in Offered => req[r].at \in Offered,
         \A s \in Req : streamMap'[s].phase # None =>
             streamMap[s].phase # None \/ (s = r /\ req[r].at \in Offered),
         \A s \in Req : row'[s] = "active" =>
             row[s] = "active" \/ (s = r /\ req[r].at \in Offered)
  PROVE  NoNewClaim
<1> DEFINE q == [req[r] EXCEPT !.at = a]
<1>1. req[r] \in Request
  BY DEF Inv, SetupTypeOK
<1>2. req' = [req EXCEPT ![r] = q] /\ q.ssrc = req[r].ssrc /\ q.at = a
  BY <1>1 DEF Request
<1> HIDE DEF q
<1> QED
  BY <1>2, ClaimMoves

LEMMA MovesClaims ==
  ASSUME Inv, NEW r \in Req,
         \/ Lock(r) \/ ReplaceOffline(r) \/ StreamInit(r) \/ StreamInitExt(r)
         \/ Registered(r) \/ NotRegistered(r)
  PROVE  NoNewClaim
<1> USE DEF cacheVars, storeVars, outsideVars
<1>1. req[r] \in Request /\ streamMap \in [Req -> Stream] /\ StageTypeOK
  BY DEF Inv, SetupTypeOK
<1>2. CASE Lock(r)
  BY <1>2, StageClaims DEF Lock, Offered
<1>3. CASE StreamInitExt(r)
  BY <1>3, StageClaims DEF StreamInitExt, Offered
<1>4. CASE Registered(r)
  BY <1>4, StageClaims DEF Registered, Offered
<1>5. CASE NotRegistered(r)
  BY <1>5, StageClaims DEF NotRegistered, Offered
<1>6. CASE StreamInit(r)
  <2> DEFINE q == [req[r] EXCEPT !.at = "invite", !.nodes = 0]
  <2>1. /\ req' = [req EXCEPT ![r] = q] /\ q.ssrc = req[r].ssrc /\ req[r].at = "init"
        /\ UNCHANGED <<streamMap, row>>
    BY <1>1, <1>6 DEF Request, StreamInit
  <2> HIDE DEF q
  <2>2. req[r].at \in Offered
    BY <2>1 DEF Offered
  <2> QED
    BY <2>1, <2>2, RequestStep
<1>7. CASE ReplaceOffline(r)
  <2>1. req[r].stream \in Req /\ streamMap' = Closing(req[r].stream) /\ ToAllocate(r)
        /\ UNCHANGED row
    BY <1>1, <1>7 DEF ReplaceOffline, StageTypeOK
  <2>2. \A s \in Req : streamMap'[s].phase # None => streamMap[s].phase # None
    BY <1>1, <2>1, ClosingFacts DEF Milder
  <2> QED
    BY <2>1, <2>2, ToAllocateClaims
<1> QED
  BY <1>2, <1>3, <1>4, <1>5, <1>6, <1>7

LEMMA LeavingClaims ==
  ASSUME Inv, NEW r \in Req, off_play(r)
  PROVE  NoNewClaim
<1> USE DEF storeVars
<1> DEFINE s == req[r].stream
<1> DEFINE Same(p) == req[p].at = "done" /\ req[p].stream = s /\ Caller[p] = Caller[r]
<1>1. /\ req \in [Req -> Request] /\ streamMap \in [Req -> Stream] /\ s \in Req /\ UNCHANGED row
      /\ req' = [p \in Req |-> IF Same(p) THEN [req[p] EXCEPT !.at = "left"] ELSE req[p]]
      /\ streamMap' = [streamMap EXCEPT ![s].tokens = @ \ {Caller[r]}]
  BY DEF Inv, SetupTypeOK, StageTypeOK, off_play
<1> HIDE DEF s
<1>2. \A t \in Req : streamMap'[t].phase = streamMap[t].phase
  BY <1>1 DEF Stream
<1>3. "left" \notin Offered
  BY DEF Offered
<1>4. ASSUME NEW p \in Req
      PROVE  req'[p].ssrc = req[p].ssrc /\ (req'[p].at \in Offered => req[p].at \in Offered)
  BY <1>1, <1>3 DEF Request
<1> QED
  BY <1>1, <1>2, <1>4 DEF NoNewClaim, Claims

\* The INVITE, the row and the map entry come while the SSRC is offered.
LEMMA DialClaims ==
  ASSUME Inv, NEW r \in Req,
         \/ InsertInviting(r) \/ InviteAccepted(r) \/ InviteRefused(r) \/ InviteTimeout(r)
         \/ StreamInitExtFails(r) \/ InsertInfo(r)
  PROVE  NoNewClaim
<1> USE DEF cacheVars, storeVars, outsideVars
<1>1. row \in [Req -> {None, "active", "orphan", "ended"}] /\ streamMap \in [Req -> Stream]
  BY DEF Inv, SetupTypeOK, OutsideTypeOK
<1>2. req[r].at \in Offered
  BY DEF InsertInviting, InviteAccepted, InviteRefused, InviteTimeout, StreamInitExtFails,
     InsertInfo, Offered
<1>3. PICK a : req' = [req EXCEPT ![r].at = a]
  BY DEF InsertInviting, InviteAccepted, InviteRefused, InviteTimeout, StreamInitExtFails,
     InsertInfo
<1>4. \A s \in Req \ {r} : row'[s] = row[s]
  BY <1>1 DEF InsertInviting, InviteAccepted, InviteRefused, InviteTimeout, StreamInitExtFails,
     InsertInfo, mark_inviting_terminal
<1>5. \A s \in Req \ {r} : streamMap'[s] = streamMap[s]
  BY <1>1 DEF InsertInviting, InviteAccepted, InviteRefused, InviteTimeout, StreamInitExtFails,
     InsertInfo
<1> QED
  BY <1>2, <1>3, <1>4, <1>5, StageClaims

\* The ends of a request.
LEMMA EndClaims ==
  ASSUME Inv, NEW r \in Req,
         \/ JoinRunning(r) \/ OnlineFails(r) \/ QueryRecord(r) \/ StreamInitFails(r)
         \/ Succeed(r) \/ InsertRecord(r) \/ CleanupStreamInit(r)
  PROVE  NoNewClaim
<1> USE DEF cacheVars, storeVars, outsideVars
<1>1. req[r] \in Request /\ streamMap \in [Req -> Stream] /\ StageTypeOK
  BY DEF Inv, SetupTypeOK
<1>2. UNCHANGED row
  BY DEF JoinRunning, OnlineFails, QueryRecord, StreamInitFails, Succeed, InsertRecord,
     CleanupStreamInit
<1>3. \A s \in Req : streamMap'[s].phase # None => streamMap[s].phase # None
  <2>1. CASE JoinRunning(r) \/ Succeed(r)
    <3>1. CASE JoinRunning(r)
      <4>1. req[r].stream \in Req /\ streamMap' = WithToken(streamMap, req[r].stream, r)
        BY <1>1, <3>1 DEF JoinRunning, StageTypeOK
      <4> QED
        BY <1>1, <4>1, TokenFacts
    <3>2. CASE Succeed(r)
      <4>1. streamMap' = WithToken(streamMap, r, r)
        BY <3>2 DEF Succeed
      <4> QED
        BY <1>1, <4>1, TokenFacts
    <3> QED
      BY <2>1, <3>1, <3>2
  <2>2. CASE InsertRecord(r) \/ CleanupStreamInit(r)
    <3>1. streamMap' = Closing(r) \/ streamMap' = streamMap
      BY <2>2 DEF InsertRecord, CleanupStreamInit
    <3> QED
      BY <1>1, <3>1, ClosingFacts DEF Milder
  <2>3. CASE OnlineFails(r) \/ QueryRecord(r) \/ StreamInitFails(r)
    BY <2>3 DEF OnlineFails, QueryRecord, StreamInitFails
  <2> QED
    BY <2>1, <2>2, <2>3
<1>4. CASE Answer(r, "done") \/ Answer(r, "failed")
  BY <1>2, <1>3, <1>4, AnswerClaims
<1>5. CASE ToAllocate(r)
  BY <1>2, <1>3, <1>5, ToAllocateClaims
<1>6. CASE req[r].at = "init" /\ req' = [req EXCEPT ![r].nodes = @ - 1]
  <2> DEFINE q == [req[r] EXCEPT !.nodes = @ - 1]
  <2>1. req' = [req EXCEPT ![r] = q] /\ q.ssrc = req[r].ssrc /\ req[r].at = "init"
    BY <1>1, <1>6 DEF Request
  <2> HIDE DEF q
  <2>2. req[r].at \in Offered
    BY <2>1 DEF Offered
  <2> QED
    BY <1>2, <1>3, <2>1, <2>2, RequestStep
<1>7. CASE req' = [req EXCEPT ![r].at = "record"]
  BY <1>2, <1>3, <1>7, StageClaims DEF Offered
<1> QED
  BY <1>4, <1>5, <1>6, <1>7 DEF JoinRunning, OnlineFails, QueryRecord, StreamInitFails, Succeed,
     InsertRecord, CleanupStreamInit, Fail

\* The callbacks and what happens to the device.
LEMMA OutsideClaims ==
  ASSUME Inv, NEW s \in Req,
         \/ WaitExpires(s) \/ InsertStreamWait(s) \/ MediaRegisters(s) \/ stream_register(s)
         \/ stream_input_timeout(s) \/ CloseEnds(s) \/ MarkOrphan(s) \/ PeerBye(s)
         \/ end_record(s)
  PROVE  NoNewClaim
<1> USE DEF cacheVars, storeVars, outsideVars
<1>1. row \in [Req -> {None, "active", "orphan", "ended"}] /\ streamMap \in [Req -> Stream]
  BY DEF Inv, SetupTypeOK, OutsideTypeOK
<1>2. UNCHANGED req
  BY DEF WaitExpires, InsertStreamWait, MediaRegisters, stream_register, stream_input_timeout,
     CloseEnds, MarkOrphan, PeerBye, end_record
<1>3. \/ row' = row \/ row' = [row EXCEPT ![s] = "ended"] \/ row' = [row EXCEPT ![s] = "orphan"]
  BY DEF WaitExpires, InsertStreamWait, MediaRegisters, stream_register, stream_input_timeout,
     CloseEnds, MarkOrphan, PeerBye, end_record
<1>4. \A t \in Req : row'[t] = "active" => row[t] = "active"
  BY <1>1, <1>3
<1>5. \/ streamMap' = streamMap \/ streamMap' = Closing(s)
      \/ streamMap' = [streamMap EXCEPT ![s] = NoStream]
  BY DEF WaitExpires, InsertStreamWait, MediaRegisters, stream_register, stream_input_timeout,
     CloseEnds, MarkOrphan, PeerBye, end_record, Removed
<1>6. \A t \in Req : streamMap'[t].phase # None => streamMap[t].phase # None
  <2>1. CASE streamMap' = [streamMap EXCEPT ![s] = NoStream]
    BY <1>1, <2>1 DEF NoStream
  <2>2. CASE streamMap' = Closing(s)
    BY <1>1, <2>2, ClosingFacts DEF Milder
  <2> QED
    BY <1>5, <2>1, <2>2
<1> QED
  BY <1>2, <1>4, <1>6, ClaimOutside

LEMMA SsrcStep == Inv /\ SsrcInv /\ SequenceAhead /\ [Next]_vars => SsrcInv'
<1> SUFFICES ASSUME Inv, SsrcInv, SequenceAhead, [Next]_vars PROVE SsrcInv'
  OBVIOUS
<1>1. ASSUME NEW r \in Req, Start(r) \/ Step(r) \/ WaitExpires(r) \/ off_play(r) PROVE SsrcInv'
  <2>1. CASE Allocate(r)
    BY <2>1, AllocateClaims
  <2>2. CASE \/ Start(r) \/ FindRunning(r) \/ Lock(r) \/ ReplaceOffline(r) \/ StreamInit(r)
             \/ StreamInitExt(r) \/ Registered(r) \/ NotRegistered(r) \/ off_play(r)
    BY <2>2, StartClaims, FindRunningClaims, MovesClaims, LeavingClaims, ClaimsKept
  <2>3. CASE \/ InsertInviting(r) \/ InviteAccepted(r) \/ InviteRefused(r) \/ InviteTimeout(r)
             \/ StreamInitExtFails(r) \/ InsertInfo(r)
    BY <2>3, DialClaims, ClaimsKept
  <2>4. CASE \/ JoinRunning(r) \/ OnlineFails(r) \/ QueryRecord(r) \/ StreamInitFails(r)
             \/ Succeed(r) \/ InsertRecord(r) \/ CleanupStreamInit(r)
    BY <2>4, EndClaims, ClaimsKept
  <2>5. CASE WaitExpires(r) \/ InsertStreamWait(r)
    BY <2>5, OutsideClaims, ClaimsKept
  <2> QED
    BY <1>1, <2>1, <2>2, <2>3, <2>4, <2>5 DEF Step
<1>2. ASSUME NEW s \in Req,
             \/ MediaRegisters(s) \/ stream_register(s) \/ stream_input_timeout(s)
             \/ CloseEnds(s) \/ MarkOrphan(s) \/ PeerBye(s) \/ end_record(s)
      PROVE  SsrcInv'
  BY <1>2, OutsideClaims, ClaimsKept
<1>3. CASE reset_device_state
  <2>1. UNCHANGED <<req, row>> /\ streamMap' = [s \in Req |-> NoStream]
    BY <1>3 DEF reset_device_state, storeVars
  <2>2. \A s \in Req : streamMap'[s].phase = None
    BY <2>1 DEF NoStream
  <2> QED
    BY <2>1, <2>2, ClaimOutside, ClaimsKept
<1>4. CASE DeviceRegisters \/ OtherDevices \/ UNCHANGED vars
  <2>1. UNCHANGED <<req, streamMap, row>>
    BY <1>4 DEF DeviceRegisters, OtherDevices, vars, cacheVars, storeVars
  <2> QED
    BY <2>1, ClaimOutside, ClaimsKept
<1> QED
  BY <1>1, <1>2, <1>3, <1>4 DEF Next

(***************************************************************************)
(* A device that sends has a row that is active or was given up.           *)
(***************************************************************************)
CallInv == \A s \in Req : call[s] = "up" => row[s] \in {"active", "orphan"}

LEMMA CallStep == Inv /\ CallInv /\ [Next]_vars => CallInv'
<1> SUFFICES ASSUME Inv, CallInv, [Next]_vars PROVE CallInv'
  OBVIOUS
<1> USE DEF cacheVars, storeVars, outsideVars
<1>0. /\ row \in [Req -> {None, "active", "orphan", "ended"}] /\ call \in [Req -> {None, "up"}]
      /\ None # "up"
  BY DEF Inv, OutsideTypeOK, None
<1>k. ASSUME UNCHANGED <<row, call>> PROVE CallInv'
  BY <1>k DEF CallInv
<1>1. ASSUME NEW r \in Req, Start(r) \/ Step(r) \/ WaitExpires(r) \/ off_play(r) PROVE CallInv'
  <2>1. CASE InsertInviting(r) \/ InviteAccepted(r)
    BY <1>0, <2>1 DEF InsertInviting, InviteAccepted, CallInv
  <2>2. CASE InviteRefused(r)
    BY <1>0, <2>2 DEF InviteRefused, mark_inviting_terminal, CallInv
  <2>3. CASE InviteTimeout(r)
    BY <1>0, <2>3 DEF InviteTimeout, mark_inviting_terminal, CallInv
  <2>4. CASE StreamInitExtFails(r)
    BY <1>0, <2>4 DEF StreamInitExtFails, CallInv
  <2>5. CASE \/ Start(r) \/ Lock(r) \/ FindRunning(r) \/ JoinRunning(r) \/ ReplaceOffline(r)
             \/ OnlineFails(r) \/ QueryRecord(r) \/ Allocate(r) \/ StreamInit(r)
             \/ StreamInitFails(r)
    BY <1>k, <2>5 DEF Start, Lock, FindRunning, JoinRunning, ReplaceOffline, OnlineFails,
       QueryRecord, Allocate, StreamInit, StreamInitFails
  <2>6. CASE \/ StreamInitExt(r) \/ InsertInfo(r) \/ InsertStreamWait(r) \/ Registered(r)
             \/ NotRegistered(r) \/ Succeed(r) \/ InsertRecord(r) \/ CleanupStreamInit(r)
             \/ WaitExpires(r) \/ off_play(r)
    BY <1>k, <2>6 DEF StreamInitExt, InsertInfo, InsertStreamWait, Registered, NotRegistered,
       Succeed, InsertRecord, CleanupStreamInit, WaitExpires, off_play
  <2> QED
    BY <1>1, <2>1, <2>2, <2>3, <2>4, <2>5, <2>6 DEF Step
<1>2. ASSUME NEW s \in Req,
             \/ MediaRegisters(s) \/ stream_register(s) \/ stream_input_timeout(s)
             \/ CloseEnds(s) \/ MarkOrphan(s) \/ PeerBye(s) \/ end_record(s)
      PROVE  CallInv'
  <2>1. CASE CloseEnds(s) \/ MarkOrphan(s) \/ PeerBye(s)
    BY <1>0, <2>1 DEF CloseEnds, MarkOrphan, PeerBye, CallInv
  <2>2. CASE MediaRegisters(s) \/ stream_register(s) \/ stream_input_timeout(s) \/ end_record(s)
    BY <1>k, <2>2 DEF MediaRegisters, stream_register, stream_input_timeout, end_record
  <2> QED
    BY <1>2, <2>1, <2>2
<1>3. CASE reset_device_state \/ DeviceRegisters \/ OtherDevices \/ UNCHANGED vars
  BY <1>3, <1>k DEF reset_device_state, DeviceRegisters, OtherDevices, vars
<1> QED
  BY <1>1, <1>2, <1>3 DEF Next

\* No two streams that are set up, active or still sent share an SSRC, but for
\* orphans, over any wraps of the sequence, as long as it does not come round to
\* the value of a set-up between its allocation and its row (or after a BYE of
\* the device has ended that row): this window and the orphans are all that is
\* left open by allocate, which looks at the stream map and the active rows.
THEOREM SsrcCorrect == Spec /\ []SequenceAhead => []SsrcDistinct
<1>1. Init => SsrcInv /\ CallInv
  BY DEF Init, SsrcInv, CallInv, Claims, None
<1>2. SsrcInv /\ CallInv => SsrcDistinct
  <2> SUFFICES ASSUME SsrcInv, CallInv, NEW s \in Req, NEW t \in Req, s # t, req[s].ssrc # 0,
                      req[s].ssrc = req[t].ssrc, OnAir(s), OnAir(t),
                      row[s] # "orphan", row[t] # "orphan"
               PROVE  FALSE
    BY DEF SsrcDistinct
  <2>1. Claims(s) /\ Claims(t)
    BY DEF OnAir, CallInv, Claims
  <2> QED
    BY <2>1 DEF SsrcInv
<1> QED
  BY <1>1, <1>2, SsrcStep, CallStep, SetupInvariant, PTL DEF Spec
=============================================================================
