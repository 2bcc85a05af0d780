---------------------------- MODULE StreamSetup ----------------------------
(***************************************************************************)
(* Setting up a stream on the signalling node: play_live, play_back and     *)
(* download, their set-up lock, the reuse of a running stream, the SSRC     *)
(* sequence, the choice of a media node, the INVITE, the waiter for the     *)
(* media node's stream_register callback, the stream map with its viewers'  *)
(* tokens and the device map.                                               *)
(*                                                                          *)
(* One device.  A set-up makes at most one stream, with an id of its own:   *)
(* the stream is named after the request.  The dialog row is abstracted to  *)
(* what is_active sees of it, and a close to its first and its last step:   *)
(* both are StreamSystem's and StreamClose's subject.                       *)
(***************************************************************************)
EXTENDS Naturals, Sequences, FiniteSets, SequencesExt, Functions

CONSTANTS Req,       \* requests, each made once
          Caller,    \* the gmv-token header of each: its caller's
          Channel,   \* channels of the device
          Modes,     \* access modes requests ask for
          Nodes,     \* media nodes there are
          MaxSsrc    \* SSRC_SEQUENCE_MAX (9999 in the code)

ASSUME SetupAssumption ==
    /\ Modes \subseteq {"Live", "Back", "Down"}
    /\ IsFiniteSet(Req) /\ Nodes \in Nat \ {0} /\ MaxSsrc \in Nat \ {0}

VARIABLES req,        \* the requests
          locks,      \* stream_setup_locks: who created the key's lock
          holder,     \* of each lock
          streamMap,
          deviceMap,  \* the device's Vec<DeviceTable>, in push order
          waiter,     \* the KEY_STREAM_IN states and their channels
          sequence,   \* C_SEQ_CODE.current_value
          row,        \* GMV_SIP_DIALOG_SESSION: none, active, orphan, ended
          record,     \* GMV_RECORD of a download: none, running, over
          session,    \* Register::has_session
          media,      \* external: the stream on its media node
          callback,   \* external: the node's stream_register callback
          call,       \* external: the device's side of the dialog
          disturbed,  \* history: channels where a stream was lost in a set-up
          hidden      \* history: channels where a stream that is being closed
                      \* was found before one that plays

vars == <<req, locks, holder, streamMap, deviceMap, waiter, sequence, row,
          record, session, media, callback, call, disturbed, hidden>>
cacheVars == <<locks, holder, streamMap, deviceMap>>
outsideVars == <<session, media, callback, call, disturbed, hidden>>
storeVars == <<sequence, row, record>>

None == "none"

ASSUME RequestAssumption == None \notin Req

Key == Channel \X Modes
KeyOf(r) == <<req[r].channel, req[r].mode>>
Busy == {"lock", "check", "online", "alloc", "init", "invite", "inviting", "ext",
         "insert", "listen", "source", "record", "cleanup"}

NoStream == [phase |-> None, tokens |-> {}]

-----------------------------------------------------------------------------
(* The maps.                                                                *)

\* device_map_get_invite_info: the first entry of the channel and the mode, if
\* there is one.
InviteInfo(k) ==
    {deviceMap[i] : i \in {n \in DOMAIN deviceMap :
        /\ KeyOf(deviceMap[n]) = k
        /\ \A j \in 1 .. n - 1 : KeyOf(deviceMap[j]) # k}}

\* Mutant: only the streams in memory are looked at.
SsrcActive_Memory(v) == \E s \in Req : req[s].ssrc = v /\ streamMap[s].phase # None

\* Cache::ssrc_is_active, SsrcSequence's is_active.
SsrcActive(v) ==
    \E s \in Req : req[s].ssrc = v
        /\ (streamMap[s].phase # None \/ row[s] = "active")

\* stream_close_begin: what is not in the map is not closed.
Closing(s) ==
    IF streamMap[s].phase = "Playing"
    THEN [streamMap EXCEPT ![s].phase = "Closing"] ELSE streamMap

\* Mutant: a viewer that joins a running stream is not added.
WithToken_NotJoining(map, s, r) ==
    IF map[s].phase # None /\ s = r
    THEN [map EXCEPT ![s].tokens = @ \cup {Caller[r]}] ELSE map

\* stream_map_insert_token: nothing for a stream that is gone.  The token is
\* the caller's, in one set for all its requests.
WithToken(map, s, r) ==
    IF map[s].phase # None THEN [map EXCEPT ![s].tokens = @ \cup {Caller[r]}] ELSE map

\* The end of a request: its guard is dropped.
Release(r) == [holder EXCEPT ![req[r].lock] = None]

-----------------------------------------------------------------------------
(* play_live, play_back, download.                                          *)

\* The request is refused when the device has no session; stream_setup_lock
\* finds the key's lock or makes one.
Start(r) ==
    /\ req[r].at = "idle" /\ session
    /\ \E c \in Channel, m \in Modes :
          LET old == locks[<<c, m>>]
              lock == IF old = None THEN r ELSE old
          IN  /\ req' = [req EXCEPT ![r] =
                    [@ EXCEPT !.at = "lock", !.channel = c, !.mode = m, !.lock = lock]]
              /\ locks' = [locks EXCEPT ![<<c, m>>] = lock]
    /\ UNCHANGED <<holder, streamMap, deviceMap, waiter, storeVars, outsideVars>>

\* Mutant: the lock is not shared: every request goes on at once.
Lock_Open(r) ==
    /\ req[r].at = "lock"
    /\ holder' = [holder EXCEPT ![req[r].lock] = r]
    /\ req' = [req EXCEPT ![r].at = "check"]
    /\ UNCHANGED <<locks, streamMap, deviceMap, waiter, storeVars, outsideVars>>

Lock(r) ==
    /\ req[r].at = "lock" /\ holder[req[r].lock] = None
    /\ holder' = [holder EXCEPT ![req[r].lock] = r]
    /\ req' = [req EXCEPT ![r].at = "check"]
    /\ UNCHANGED <<locks, streamMap, deviceMap, waiter, storeVars, outsideVars>>

Answer(r, at) ==
    /\ req' = [req EXCEPT ![r] = [@ EXCEPT !.at = at, !.lock = None,
                                          !.nodes = 0, !.tries = 0]]
    /\ holder' = Release(r)

Fail(r) == Answer(r, "failed")

\* stream_map_order_node: the nodes by the streams they carry; how many are
\* left to try is what matters here.
ToAllocate(r) ==
    req' = [req EXCEPT ![r] =
        [@ EXCEPT !.at = "alloc", !.nodes = Nodes, !.stream = r]]

\* A stream that is being closed stays in the device map, before the one that
\* has replaced it, until its close ends.
Hides(s) ==
    /\ streamMap[s].phase = "Closing"
    /\ \E t \in Range(deviceMap) : KeyOf(t) = KeyOf(s) /\ streamMap[t].phase = "Playing"

\* enable_invite_stream: a stream that the stream map does not have is
\* closed in vain and a new one set up; else its node is asked.
FindRunning(r) ==
    /\ req[r].at = "check" /\ req[r].mode # "Down"
    /\ \/ \E s \in InviteInfo(KeyOf(r)) :
             /\ streamMap[s].phase # None
             /\ req' = [req EXCEPT ![r] = [@ EXCEPT !.at = "online", !.stream = s]]
             /\ hidden' = IF Hides(s) THEN hidden \cup {req[r].channel} ELSE hidden
       \/ /\ \A s \in InviteInfo(KeyOf(r)) : streamMap[s].phase = None
          /\ ToAllocate(r) /\ UNCHANGED hidden
    /\ UNCHANGED <<cacheVars, waiter, storeVars, session, media, callback, call,
                   disturbed>>

\* The node's answer to stream_online: the stream is joined, or closed and
\* replaced; a call that fails fails the request.
JoinRunning(r) ==
    LET s == req[r].stream
    IN  /\ req[r].at = "online" /\ media[s] = "registered"
        /\ streamMap' = WithToken(streamMap, s, r)
        /\ Answer(r, "done")
        /\ UNCHANGED <<locks, deviceMap, waiter, storeVars, outsideVars>>

ReplaceOffline(r) ==
    LET s == req[r].stream
    IN  /\ req[r].at = "online" /\ media[s] # "registered"
        /\ streamMap' = Closing(s)
        /\ ToAllocate(r)
        /\ UNCHANGED <<locks, holder, deviceMap, waiter, storeVars, outsideVars>>

OnlineFails(r) ==
    /\ req[r].at = "online" /\ Fail(r)
    /\ UNCHANGED <<locks, streamMap, deviceMap, waiter, storeVars, outsideVars>>

\* download: one running record per channel.
QueryRecord(r) ==
    /\ req[r].at = "check" /\ req[r].mode = "Down"
    /\ IF \E s \in Req : record[s] = "running" /\ req[s].channel = req[r].channel
       THEN Fail(r)
       ELSE ToAllocate(r) /\ UNCHANGED holder
    /\ UNCHANGED <<locks, streamMap, deviceMap, waiter, storeVars, outsideVars>>

-----------------------------------------------------------------------------
(* start_invite_stream.                                                     *)

\* SsrcSequence::allocate: the next value of the sequence that is not active,
\* after at most as many tries as there are values.
Allocate(r) ==
    /\ req[r].at = "alloc"
    /\ IF req[r].tries = MaxSsrc
       THEN Fail(r) /\ UNCHANGED sequence
       ELSE /\ sequence' = IF sequence = MaxSsrc THEN 1 ELSE sequence + 1
            /\ req' = IF SsrcActive(sequence)
                      THEN [req EXCEPT ![r].tries = @ + 1]
                      ELSE [req EXCEPT ![r] = [@ EXCEPT !.at = "init",
                                                        !.ssrc = sequence, !.tries = 0]]
            /\ UNCHANGED holder
    /\ UNCHANGED <<locks, streamMap, deviceMap, waiter, row, record, outsideVars>>

\* The sequence is shared by all devices: their set-ups use its values, though
\* never a whole round of it (9999 values) during one set-up.
OtherDevices ==
    /\ \A r \in Req : req[r].at \notin Busy
    /\ \E r \in Req : req[r].at = "idle"  \* else nothing reads the sequence
    /\ sequence' = IF sequence = MaxSsrc THEN 1 ELSE sequence + 1
    /\ UNCHANGED <<req, cacheVars, waiter, row, record, outsideVars>>

\* stream_init on the next node; a node that fails is skipped.
StreamInit(r) ==
    /\ req[r].at = "init"
    /\ media' = [media EXCEPT ![r] = "init"]
    /\ req' = [req EXCEPT ![r] = [@ EXCEPT !.at = "invite", !.nodes = 0]]
    /\ UNCHANGED <<cacheVars, waiter, storeVars, session, callback, call, disturbed,
                   hidden>>

StreamInitFails(r) ==
    /\ req[r].at = "init"
    /\ IF req[r].nodes = 1 THEN Fail(r)
       ELSE req' = [req EXCEPT ![r].nodes = @ - 1] /\ UNCHANGED holder
    /\ UNCHANGED <<locks, streamMap, deviceMap, waiter, storeVars, outsideVars>>

\* play_live_invite_wait and the others: invite_play_and_wait writes the
\* INVITING row before the INVITE.  A device that is away is not invited.
InsertInviting(r) ==
    /\ req[r].at = "invite"
    /\ \/ /\ session /\ row' = [row EXCEPT ![r] = "active"]
          /\ req' = [req EXCEPT ![r].at = "inviting"]
       \/ req' = [req EXCEPT ![r].at = "cleanup"] /\ UNCHANGED row
    /\ UNCHANGED <<cacheVars, waiter, sequence, record, outsideVars>>

\* The 200 OK is there and cas_mark_established writes the row.
InviteAccepted(r) ==
    /\ req[r].at = "inviting"
    /\ call' = [call EXCEPT ![r] = "up"] /\ row' = [row EXCEPT ![r] = "active"]
    /\ req' = [req EXCEPT ![r].at = "ext"]
    /\ UNCHANGED <<cacheVars, waiter, sequence, record, session, media, callback,
                   disturbed, hidden>>

\* mark_inviting_terminal: a write that fails is only logged.
mark_inviting_terminal(r, state) ==
    \E left \in {state, "active"} : row' = [row EXCEPT ![r] = left]

\* Refused or not queued, or accepted and rolled back with a BYE.
InviteRefused(r) ==
    /\ req[r].at = "inviting"
    /\ mark_inviting_terminal(r, "ended") /\ call' = [call EXCEPT ![r] = None]
    /\ req' = [req EXCEPT ![r].at = "cleanup"]
    /\ UNCHANGED <<cacheVars, waiter, sequence, record, session, media, callback,
                   disturbed, hidden>>

\* No answer in time, whatever the device did, or a rollback whose BYE failed.
InviteTimeout(r) ==
    /\ req[r].at = "inviting"
    /\ mark_inviting_terminal(r, "orphan")
    /\ \E c \in {None, "up"} : call' = [call EXCEPT ![r] = c]
    /\ req' = [req EXCEPT ![r].at = "cleanup"]
    /\ UNCHANGED <<cacheVars, waiter, sequence, record, session, media, callback,
                   disturbed, hidden>>

\* stream_init_ext tells the node what the device will send.
StreamInitExt(r) ==
    /\ req[r].at = "ext"
    /\ media' = [media EXCEPT ![r] = IF @ = "init" THEN "ready" ELSE @]
    /\ req' = [req EXCEPT ![r].at = "insert"]
    /\ UNCHANGED <<cacheVars, waiter, storeVars, session, callback, call, disturbed,
                   hidden>>

\* It fails: one BYE, whose failure is ignored.
StreamInitExtFails(r) ==
    /\ req[r].at = "ext"
    /\ \/ row' = [row EXCEPT ![r] = "ended"] /\ call' = [call EXCEPT ![r] = None]
       \/ UNCHANGED <<row, call>>
    /\ req' = [req EXCEPT ![r].at = "cleanup"]
    /\ UNCHANGED <<cacheVars, waiter, sequence, record, session, media, callback,
                   disturbed, hidden>>

\* stream_map_insert_info, then insert_stream_wait.  The stream is new: only a
\* recovery of its row inserts it before (StreamSystem).
InsertInfo(r) ==
    /\ req[r].at = "insert"
    /\ streamMap' = [streamMap EXCEPT ![r] =
          [phase |-> "Playing", tokens |-> {}]]
    /\ req' = [req EXCEPT ![r].at = "listen"]
    /\ UNCHANGED <<locks, holder, deviceMap, waiter, storeVars, outsideVars>>

InsertStreamWait(r) ==
    /\ req[r].at = "listen" /\ waiter[r] = None
    /\ waiter' = [waiter EXCEPT ![r] = "waiting"]
    /\ UNCHANGED <<req, cacheVars, storeVars, outsideVars>>

\* purge_expired_keys: the state's time is over.
WaitExpires(r) ==
    /\ waiter[r] = "waiting"
    /\ waiter' = [waiter EXCEPT ![r] = "refused"]
    /\ UNCHANGED <<req, cacheVars, storeVars, outsideVars>>

\* listen_stream_by_stream_id returns; the state is removed.
Registered(r) ==
    /\ req[r].at = "listen" /\ waiter[r] = "info"
    /\ waiter' = [waiter EXCEPT ![r] = None]
    /\ req' = [req EXCEPT ![r].at = "source"]
    /\ UNCHANGED <<cacheVars, storeVars, outsideVars>>

NotRegistered(r) ==
    /\ req[r].at = "listen" /\ waiter[r] = "refused"
    /\ waiter' = [waiter EXCEPT ![r] = None]
    /\ req' = [req EXCEPT ![r].at = "cleanup"]
    /\ UNCHANGED <<cacheVars, storeVars, outsideVars>>

\* stream_map_update_source (its answer is ignored), device_map_insert and the
\* token.  A download then inserts its record.
Succeed(r) ==
    /\ req[r].at = "source"
    /\ deviceMap' = Append(deviceMap, r)
    /\ streamMap' = WithToken(streamMap, r, r)
    /\ IF req[r].mode = "Down"
       THEN req' = [req EXCEPT ![r].at = "record"] /\ UNCHANGED holder
       ELSE Answer(r, "done")
    /\ UNCHANGED <<locks, waiter, storeVars, outsideVars>>

InsertRecord(r) ==
    /\ req[r].at = "record"
    /\ \/ /\ record' = [record EXCEPT ![r] = "running"]
          /\ Answer(r, "done")
          /\ UNCHANGED streamMap
       \/ /\ streamMap' = Closing(r) /\ Fail(r) /\ UNCHANGED record
    /\ UNCHANGED <<locks, deviceMap, waiter, sequence, row, outsideVars>>

\* cleanup_stream_init: close_output, whose failure is ignored.  A stream that
\* was not registered is then closed; on the other paths it is not yet in the map.
CleanupStreamInit(r) ==
    /\ req[r].at = "cleanup"
    /\ \E left \in {"gone", media[r]} : media' = [media EXCEPT ![r] = left]
    /\ streamMap' = Closing(r) /\ Fail(r)
    /\ UNCHANGED <<locks, deviceMap, waiter, storeVars, session, callback, call,
                   disturbed, hidden>>

-----------------------------------------------------------------------------
(* The callbacks of the media node and what happens to the device.          *)

\* The node registers the stream at its first packet and calls back; external.
MediaRegisters(s) ==
    /\ media[s] = "ready" /\ call[s] = "up"
    /\ media' = [media EXCEPT ![s] = "registered"]
    /\ callback' = [callback EXCEPT ![s] = "sent"]
    /\ UNCHANGED <<req, cacheVars, waiter, storeVars, session, call, disturbed,
                   hidden>>

\* stream_register wakes the waiter, if there is one by now.
stream_register(s) ==
    /\ callback[s] = "sent" /\ callback' = [callback EXCEPT ![s] = None]
    /\ \E info \in {"info", "refused"} :
          waiter' = IF waiter[s] = "waiting" THEN [waiter EXCEPT ![s] = info]
                    ELSE waiter
    /\ UNCHANGED <<req, cacheVars, storeVars, session, media, call, disturbed,
                   hidden>>

\* stream_input_timeout and stream_idle: the node gives the stream up.
stream_input_timeout(s) ==
    /\ media[s] \in {"init", "ready", "registered"}
    /\ media' = [media EXCEPT ![s] = "gone"]
    /\ streamMap' = Closing(s)
    /\ UNCHANGED <<req, locks, holder, deviceMap, waiter, storeVars, session,
                   callback, call, disturbed,
                   hidden>>

\* A viewing under r's token is over: the caller's token goes, and with it the
\* admission of every request it made for the stream.
off_play(r) ==
    LET s == req[r].stream
        Same(p) == req[p].at = "done" /\ req[p].stream = s /\ Caller[p] = Caller[r]
    IN  /\ req[r].at = "done"
        /\ streamMap' = [streamMap EXCEPT ![s].tokens = @ \ {Caller[r]}]
        /\ req' = [p \in Req |-> IF Same(p) THEN [req[p] EXCEPT !.at = "left"] ELSE req[p]]
        /\ UNCHANGED <<locks, holder, deviceMap, waiter, storeVars, outsideVars>>

\* Mutant: the device map keeps its entry.
Removed_StreamOnly(s) ==
    /\ streamMap' = [streamMap EXCEPT ![s] = NoStream]
    /\ UNCHANGED deviceMap

\* The stream leaves both maps; it has at most one entry in the device map.
Removed(s) ==
    /\ streamMap' = [streamMap EXCEPT ![s] = NoStream]
    /\ deviceMap' = IF s \in Range(deviceMap)
                    THEN RemoveAt(deviceMap, CHOOSE i \in DOMAIN deviceMap : deviceMap[i] = s)
                    ELSE deviceMap

Lost(S) == disturbed \cup {req[s].channel : s \in {x \in S : req[x].at \in Busy}}

\* A close ends: the BYE was answered, or its deadline has passed and the call
\* is left as it is (stream_close_force); MarkOrphan follows.
CloseEnds(s) ==
    /\ streamMap[s].phase = "Closing"
    /\ Removed(s)
    /\ \/ call' = [call EXCEPT ![s] = None] /\ row' = [row EXCEPT ![s] = "ended"]
       \/ UNCHANGED <<call, row>>
    /\ disturbed' = Lost({s})
    /\ UNCHANGED <<req, locks, holder, waiter, sequence, record, session, media,
                   callback, hidden>>

\* The row of a stream that is gone is given up: by the task of a forced close,
\* by a recovery (mark_orphan), or by the time after which is_active does not
\* count it (EXPIRE_AT).
MarkOrphan(s) ==
    /\ row[s] = "active" /\ streamMap[s].phase = None
    /\ req[s].at \notin {"inviting", "ext", "insert"}
    /\ row' = [row EXCEPT ![s] = "orphan"]
    /\ UNCHANGED <<req, cacheVars, waiter, sequence, record, outsideVars>>

\* peer_dialog_terminated: the device hangs up; an orphan's row stays.
PeerBye(s) ==
    /\ call[s] = "up" /\ call' = [call EXCEPT ![s] = None]
    /\ row' = IF row[s] = "active" THEN [row EXCEPT ![s] = "ended"] ELSE row
    /\ Removed(s)
    /\ disturbed' = Lost({s})
    /\ UNCHANGED <<req, locks, holder, waiter, sequence, record, session, media,
                   callback, hidden>>

\* reset_device_state of an offline device: its streams, its device map entry
\* and its set-up locks, held or not.
ResetLocks == [k \in Key |-> None]

reset_device_state ==
    /\ session /\ session' = FALSE
    /\ deviceMap' = <<>> /\ streamMap' = [s \in Req |-> NoStream]
    /\ locks' = ResetLocks
    /\ disturbed' = Lost(Req)
    /\ UNCHANGED <<req, holder, waiter, storeVars, media, callback, call, hidden>>

DeviceRegisters ==
    /\ ~session /\ session' = TRUE
    /\ UNCHANGED <<req, cacheVars, waiter, storeVars, media, callback, call, disturbed,
                   hidden>>

\* end_record: the media node's report ends the record.
end_record(s) ==
    /\ record[s] = "running" /\ media[s] = "gone"
    /\ record' = [record EXCEPT ![s] = "over"]
    /\ UNCHANGED <<req, cacheVars, waiter, sequence, row, outsideVars>>

-----------------------------------------------------------------------------

Init ==
    /\ req = [r \in Req |-> [at |-> "idle", channel |-> None, mode |-> None,
                             lock |-> None, stream |-> None, nodes |-> 0,
                             ssrc |-> 0, tries |-> 0]]
    /\ locks = [k \in Key |-> None] /\ holder = [r \in Req |-> None]
    /\ streamMap = [s \in Req |-> NoStream] /\ deviceMap = <<>>
    /\ waiter = [s \in Req |-> None] /\ sequence = 1
    /\ row = [s \in Req |-> None] /\ record = [s \in Req |-> None]
    /\ session = TRUE /\ media = [s \in Req |-> None]
    /\ callback = [s \in Req |-> None] /\ call = [s \in Req |-> None]
    /\ disturbed = {} /\ hidden = {}

\* A step of the request's own task.
Step(r) ==
    \/ Lock(r) \/ FindRunning(r) \/ JoinRunning(r) \/ ReplaceOffline(r)
    \/ OnlineFails(r) \/ QueryRecord(r) \/ Allocate(r) \/ StreamInit(r)
    \/ StreamInitFails(r) \/ InsertInviting(r) \/ InviteAccepted(r)
    \/ InviteRefused(r) \/ InviteTimeout(r) \/ StreamInitExt(r) \/ StreamInitExtFails(r)
    \/ InsertInfo(r) \/ InsertStreamWait(r) \/ Registered(r) \/ NotRegistered(r)
    \/ Succeed(r) \/ InsertRecord(r) \/ CleanupStreamInit(r)

Next ==
    \/ \E r \in Req : Start(r) \/ Step(r) \/ WaitExpires(r) \/ off_play(r)
    \/ \E s \in Req : MediaRegisters(s) \/ stream_register(s)
                          \/ stream_input_timeout(s) \/ CloseEnds(s)
                          \/ MarkOrphan(s) \/ PeerBye(s) \/ end_record(s)
    \/ reset_device_state \/ DeviceRegisters \/ OtherDevices

Spec == Init /\ [][Next]_vars

-----------------------------------------------------------------------------
(* Properties.                                                              *)

\* Everything has the shape the code gives it, and a set-up under way holds
\* its lock (play_live keeps the guard to its end).
TypeOK ==
    /\ req \in [Req -> [at : Busy \cup {"idle", "done", "failed", "left"},
                        channel : Channel \cup {None}, mode : Modes \cup {None},
                        lock : Req \cup {None}, stream : Req \cup {None},
                        nodes : 0 .. Nodes, ssrc : 0 .. MaxSsrc, tries : 0 .. MaxSsrc]]
    /\ locks \in [Key -> Req \cup {None}] /\ holder \in [Req -> Req \cup {None}]
    /\ streamMap \in [Req -> [phase : {None, "Playing", "Closing"},
                              tokens : SUBSET {Caller[r] : r \in Req}]]
    /\ deviceMap \in Seq(Req) /\ sequence \in 1 .. MaxSsrc
    /\ waiter \in [Req -> {None, "waiting", "info", "refused"}]
    /\ row \in [Req -> {None, "active", "orphan", "ended"}]
    /\ record \in [Req -> {None, "running", "over"}]
    /\ session \in BOOLEAN /\ disturbed \subseteq Channel /\ hidden \subseteq Channel
    /\ media \in [Req -> {None, "init", "ready", "registered", "gone"}]
    /\ callback \in [Req -> {None, "sent"}]
    /\ call \in [Req -> {None, "up"}]
    /\ \A r \in Req : req[r].at \in Busy \ {"lock"} => holder[req[r].lock] = r

Playing(s) == req[s].mode # "Down" /\ streamMap[s].phase = "Playing"

Downloading(s) ==
    /\ req[s].mode = "Down"
    /\ record[s] = "running" \/ req[s].at \in Busy \ {"lock", "check"}

\* Two viewers of a channel share one stream (stream_setup_lock and
\* enable_invite_stream), except where a stream was lost in a set-up under way
\* (the device reset or hung up), or where a viewer was led to a stream that is
\* being closed although another plays: device_map_get_invite_info returns the
\* first of them.  While a download is under way or recorded no second one is
\* even invited (download's lock and its query).
OneStreamPerChannel ==
    \A s, t \in Req :
        s # t /\ KeyOf(s) = KeyOf(t) =>
            /\ Playing(s) /\ Playing(t) => req[s].channel \in disturbed \cup hidden
            /\ Downloading(s) /\ Downloading(t) => req[s].channel \in disturbed

\* A device map entry belongs to a stream of the stream map, except where a
\* stream was lost in a set-up under way.
DeviceMapBacked ==
    \A s \in Range(deviceMap) :
        streamMap[s].phase # None \/ req[s].channel \in disturbed

\* The stream is in the map, its row is active or the device still sends it.
OnAir(s) == streamMap[s].phase # None \/ row[s] = "active" \/ call[s] = "up"

\* Two streams never share an SSRC on air: a wrapped sequence skips what is
\* still active, in memory or in a row (allocate).  It does not skip an orphan:
\* a call that was left up when its INVITE timed out, when its close was forced
\* or when its row ran out of time, and whose device may still be sending.
SsrcDistinct ==
    \A s, t \in Req :
        s # t /\ req[s].ssrc # 0 /\ req[s].ssrc = req[t].ssrc /\ OnAir(s) /\ OnAir(t) =>
            row[s] = "orphan" \/ row[t] = "orphan"

\* A caller that was given a stream is let in by on_play for as long as the
\* stream is there: its token is in the stream map, whoever else comes and goes,
\* until a viewing under this token is reported off.  That report shuts out the
\* caller's other requests for the stream, too, up to its next one.
ViewerAdmitted ==
    \A r \in Req :
        req[r].at = "done" /\ streamMap[req[r].stream].phase # None =>
            Caller[r] \in streamMap[req[r].stream].tokens
=============================================================================
