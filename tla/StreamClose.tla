---------------------------- MODULE StreamClose ----------------------------
(***************************************************************************)
(* Closing a media stream on the signalling node: the in-memory stream     *)
(* table (state/session.rs), stream_close::begin with its deadline timer,  *)
(* the BYE and INFO tasks of gb/sip/command.rs with their durable CSeq     *)
(* reservation, force cleanup, a BYE sent by the device, and the device    *)
(* session changes that retry or drop closing streams.                     *)
(*                                                                         *)
(* The streams are those of one device.  Handlers run on a multi-threaded  *)
(* runtime: a handler that touches a shared map, then another, then awaits *)
(* is one action per piece, and a set of records holds the pieces pending. *)
(* StreamSystem composes these actions with set-up, recovery and crashes.  *)
(***************************************************************************)
EXTENDS DialogSession, FiniteSets

CONSTANTS
  MaxSeq,       \* u32::MAX, where StreamTable.seq saturates
  MaxGen,       \* bound: generations STREAM_CLOSE_GENERATION may hand out
  MaxVersion,   \* bound: row versions up to which touches are explored
  MaxInfo,      \* bound: INFO requests of one stream under way
  Udp           \* TRUE: restored dialogs may be sent without an association

ASSUME CloseAssumption == /\ MaxSeq \in Nat \ {0}
                          /\ MaxGen \in Nat \ {0}
                          /\ MaxVersion \in Nat
                          /\ MaxInfo \in Nat
                          /\ Udp \in BOOLEAN

VARIABLES
  dialogs,     \* GMV_SIP_DIALOG_SESSION
  alive,       \* external: the device holds its end of the dialog
  native,      \* external: dialogs the SIP stack of this process holds
  device,      \* the device's session: "none", "connected" or "detached"
  streams,     \* Cache.stream_map
  timers,      \* armed StreamClosing(stream, generation) deadlines
  nextGen,     \* STREAM_CLOSE_GENERATION
  closing,     \* stream_close::begin calls past stream_close_begin
  reqs,        \* in-dialog requests under way (BYE and INFO tasks)
  orphaning,   \* force_cleanup's spawned tasks
  peerByes,    \* peer_dialog_terminated tasks
  wire         \* the last two CSeqs sent on a restored dialog

closeVars == <<dialogs, alive, native, device, streams, timers, nextGen, closing,
               reqs, orphaning, peerByes, wire>>

-----------------------------------------------------------------------------
(***************************************************************************)
(* The stream table.  gen and inflight belong to lifecycle Closing; an     *)
(* inflight of 0 is None.                                                  *)
(***************************************************************************)
StreamTable == [life     : {"Absent", "Playing", "Closing"},
                restored : BOOLEAN,
                gen      : Nat,
                inflight : Nat,
                seq      : Nat]

NoStream == [life |-> "Absent", restored |-> FALSE, gen |-> 0, inflight |-> 0, seq |-> 0]

Timer == [sid : Stream, gen : Nat]

CloseCall == [sid : Stream, gen : Nat, pc : {"session", "retry"}]

Request == [sid : Stream, method : {"Bye", "Info"}, gen : Nat, seq : Nat,
            pc : {"reserve", "route", "loaded", "wait", "persist"}, ver : Nat,
            own : 0 .. MaxCseq,     \* history: the CSeq its reservation wrote
            cseq : 0 .. MaxCseq]    \* LOCAL_CSEQ as load_durable_dialog read it

PeerBye == [sid : Stream, pc : {"persist", "remove"}]

saturating_inc(n) == IF n < MaxSeq THEN n + 1 ELSE n

stream_map_insert(m, s, n, restored) ==
  IF m[s].life = "Absent"
  THEN [m EXCEPT ![s] = [life |-> "Playing", restored |-> restored,
                         gen |-> 0, inflight |-> 0, seq |-> n]]
  ELSE m

begin_close(m, s, g) ==
  IF m[s].life = "Playing"
  THEN [m EXCEPT ![s] = [life |-> "Closing", restored |-> m[s].restored,
                         gen |-> g, inflight |-> 0, seq |-> m[s].seq]]
  ELSE m

\* Mutant: a BYE under way does not keep the next one back.
can_take_bye_again(m, S) == {s \in S : m[s].life = "Closing"}

\* The closing streams among S whose next BYE may be taken.
can_take_bye(m, S) == {s \in S : m[s].life = "Closing" /\ m[s].inflight = 0}

take_bye(m, S) ==
  [s \in Stream |->
     IF s \in can_take_bye(m, S)
     THEN [life |-> "Closing", restored |-> m[s].restored, gen |-> m[s].gen,
           inflight |-> saturating_inc(m[s].seq), seq |-> saturating_inc(m[s].seq)]
     ELSE m[s]]

\* The send_bye tasks spawned for the BYEs taken.
send_bye(m, S) ==
  {[sid |-> s, method |-> "Bye", gen |-> m[s].gen, seq |-> saturating_inc(m[s].seq),
    pc |-> "reserve", ver |-> 0, own |-> 0, cseq |-> 0] : s \in can_take_bye(m, S)}

is_closing_generation(m, s, g) == m[s].life = "Closing" /\ m[s].gen = g

mark_bye_failed(m, s, g, q) ==
  IF is_closing_generation(m, s, g) /\ m[s].inflight = q
  THEN [m EXCEPT ![s] = [life |-> "Closing", restored |-> m[s].restored,
                         gen |-> g, inflight |-> 0, seq |-> m[s].seq]]
  ELSE m

stream_is_restored(m, s) == m[s].life # "Absent" /\ m[s].restored

\* stream_close_complete and stream_close_force: drop the stream if it is
\* still closing with this generation, and cancel its deadline.
stream_close_remove(s, g) ==
  IF is_closing_generation(streams, s, g)
  THEN /\ streams' = [streams EXCEPT ![s] = NoStream]
       /\ timers' = timers \ {[sid |-> s, gen |-> g]}
  ELSE UNCHANGED <<streams, timers>>

-----------------------------------------------------------------------------
(***************************************************************************)
(* stream_close::begin                                                     *)
(***************************************************************************)
\* Cache::stream_close_begin: the counter advances whenever the stream is
\* known, but only a playing stream starts to close and lets begin go on.
stream_close_begin(s) ==
  IF streams[s].life = "Absent"
  THEN UNCHANGED <<streams, nextGen, closing>>
  ELSE /\ nextGen <= MaxGen
       /\ nextGen' = nextGen + 1
       /\ streams' = begin_close(streams, s, nextGen)
       /\ closing' = IF streams[s].life = "Playing"
                     THEN closing \cup {[sid |-> s, gen |-> nextGen, pc |-> "session"]}
                     ELSE closing

\* A hook, an API call or a media status asks for the stream to be closed.
Begin(s) ==
  /\ streams[s].life # "Absent"
  /\ stream_close_begin(s)
  /\ UNCHANGED <<dialogs, alive, native, device, timers, reqs, orphaning, peerByes, wire>>

\* force_cleanup: drop the stream; a task marks its row orphan.
force_cleanup(s, g) ==
  /\ stream_close_remove(s, g)
  /\ orphaning' = IF is_closing_generation(streams, s, g)
                  THEN orphaning \cup {s} ELSE orphaning

\* Mutant: a stream that was not restored waits, too.
BeginWaits_any(c) ==
  /\ c \in closing /\ c.pc = "session"
  /\ device = "none"
  /\ closing' = closing \ {c}
  /\ UNCHANGED <<dialogs, alive, native, device, streams, timers, nextGen, reqs, orphaning,
                 peerByes, wire>>

\* No session, a restored stream: wait for the device, without a deadline.
BeginWaits(c) ==
  /\ c \in closing /\ c.pc = "session"
  /\ device = "none" /\ stream_is_restored(streams, c.sid)
  /\ closing' = closing \ {c}
  /\ UNCHANGED <<dialogs, alive, native, device, streams, timers, nextGen, reqs, orphaning,
                 peerByes, wire>>

\* No session, a lapsed lease, or a scheduler that refuses the deadline.
BeginForces(c) ==
  /\ c \in closing /\ c.pc = "session"
  /\ device = "none" => ~ stream_is_restored(streams, c.sid)
  /\ force_cleanup(c.sid, c.gen)
  /\ closing' = closing \ {c}
  /\ UNCHANGED <<dialogs, alive, native, device, nextGen, reqs, peerByes, wire>>

\* The deadline is armed.
BeginArms(c) ==
  /\ c \in closing /\ c.pc = "session"
  /\ device # "none"
  /\ timers' = timers \cup {[sid |-> c.sid, gen |-> c.gen]}
  /\ closing' = (closing \ {c}) \cup {[sid |-> c.sid, gen |-> c.gen, pc |-> "retry"]}
  /\ UNCHANGED <<dialogs, alive, native, device, streams, nextGen, reqs, orphaning, peerByes, wire>>

\* retry_stream
BeginSendsBye(c) ==
  /\ c \in closing /\ c.pc = "retry"
  /\ streams' = take_bye(streams, {c.sid})
  /\ reqs' = reqs \cup send_bye(streams, {c.sid})
  /\ closing' = closing \ {c}
  /\ UNCHANGED <<dialogs, alive, native, device, timers, nextGen, orphaning, peerByes, wire>>

\* Mutant: the deadline passes without dropping the stream.
TimerFires_idle(t) ==
  /\ t \in timers
  /\ timers' = timers \ {t}
  /\ UNCHANGED <<dialogs, alive, native, device, streams, nextGen, closing, reqs, orphaning,
                 peerByes, wire>>

\* The StreamClosing deadline: the cache entry goes, the row is untouched.
TimerFires(t) ==
  /\ t \in timers
  /\ streams' = IF is_closing_generation(streams, t.sid, t.gen)
                THEN [streams EXCEPT ![t.sid] = NoStream] ELSE streams
  /\ timers' = timers \ {t}
  /\ UNCHANGED <<dialogs, alive, native, device, nextGen, closing, reqs, orphaning, peerByes, wire>>

\* force_cleanup's task: the row goes to ORPHAN unless it is terminal
\* already, the CAS is lost or the database fails.
MarkOrphan(s) ==
  /\ s \in orphaning
  /\ orphaning' = orphaning \ {s}
  /\ \/ dialogs' = cas_transition(dialogs, s, dialogs[s].version, dialogs[s].state, "Orphan")
     \/ UNCHANGED dialogs
  /\ UNCHANGED <<alive, native, device, streams, timers, nextGen, closing, reqs, peerByes, wire>>

-----------------------------------------------------------------------------
(***************************************************************************)
(* In-dialog requests: invite_stop_by_device (BYE), play_seek and          *)
(* play_speed (INFO).                                                      *)
(***************************************************************************)
\* A seek or speed change of a playback stream.
StartInfo(s) ==
  /\ streams[s].life # "Absent"
  /\ Cardinality({r \in reqs : r.sid = s /\ r.method = "Info"}) < MaxInfo
  /\ reqs' = reqs \cup {[sid |-> s, method |-> "Info", gen |-> 0, seq |-> 0,
                         pc |-> "reserve", ver |-> 0, own |-> 0, cseq |-> 0]}
  /\ UNCHANGED <<dialogs, alive, native, device, streams, timers, nextGen, closing, orphaning,
                 peerByes, wire>>

\* reserve_durable_dialog_request succeeds.
Reserve(r) ==
  /\ r \in reqs /\ r.pc = "reserve"
  /\ dialogs' = reserve_durable_dialog_request(dialogs, r.sid, r.method)
  /\ dialogs' # dialogs
  /\ reqs' = (reqs \ {r}) \cup {[sid |-> r.sid, method |-> r.method, gen |-> r.gen, seq |-> r.seq,
                                 pc |-> "route", ver |-> dialogs[r.sid].version + 1,
                                 own |-> dialogs'[r.sid].cseq, cseq |-> 0]}
  /\ UNCHANGED <<alive, native, device, streams, timers, nextGen, closing, orphaning, peerByes, wire>>

\* load_durable_dialog: a dialog rebuilt from the table; the row is read
\* again, and other requests may write it and go out before this one does.
load_durable_dialog(r) ==
  /\ r \in reqs /\ r.pc = "route"
  /\ stream_is_restored(streams, r.sid)
  /\ reqs' = (reqs \ {r}) \cup {[r EXCEPT !.pc = "loaded", !.cseq = dialogs[r.sid].cseq]}
  /\ UNCHANGED <<dialogs, alive, native, device, streams, timers, nextGen, closing, orphaning,
                 peerByes, wire>>

\* send_restored_dialog_and_wait: the CSeq of the row as it was read goes
\* out.  TCP needs a connected device, UDP does not.
SendRestored(r) ==
  /\ r \in reqs /\ r.pc = "loaded"
  /\ Udp \/ device = "connected"
  /\ wire' = [wire EXCEPT ![r.sid] = [prev |-> wire[r.sid].last, last |-> r.cseq]]
  /\ reqs' = (reqs \ {r}) \cup {[r EXCEPT !.pc = "wait"]}
  /\ UNCHANGED <<dialogs, alive, native, device, streams, timers, nextGen, closing, orphaning, peerByes>>

\* A dialog the SIP stack still holds: the stack numbers the request.
SendNative(r) ==
  /\ r \in reqs /\ r.pc = "route"
  /\ ~ stream_is_restored(streams, r.sid)
  /\ device = "connected" /\ r.sid \in native
  /\ reqs' = (reqs \ {r}) \cup {[r EXCEPT !.pc = "wait"]}
  /\ UNCHANGED <<dialogs, alive, native, device, streams, timers, nextGen, closing, orphaning,
                 peerByes, wire>>

\* 2xx, or 481 to a BYE: the device's end of the dialog is gone.
ByeAnswered(r) ==
  /\ r \in reqs /\ r.pc = "wait" /\ r.method = "Bye"
  /\ alive' = [alive EXCEPT ![r.sid] = FALSE]
  /\ native' = native \ {r.sid}
  /\ reqs' = (reqs \ {r}) \cup {[r EXCEPT !.pc = "persist"]}
  /\ UNCHANGED <<dialogs, device, streams, timers, nextGen, closing, orphaning, peerByes, wire>>

InfoAnswered(r) ==
  /\ r \in reqs /\ r.pc = "wait" /\ r.method = "Info"
  /\ reqs' = reqs \ {r}
  /\ UNCHANGED <<dialogs, alive, native, device, streams, timers, nextGen, closing, orphaning,
                 peerByes, wire>>

\* TERMINATING -> TERMINATED with the reserved version, then
\* stream_close_complete.
Persist(r) ==
  /\ r \in reqs /\ r.pc = "persist"
  /\ dialogs' = cas_transition(dialogs, r.sid, r.ver, "Terminating", "Terminated")
  /\ dialogs' # dialogs
  /\ stream_close_remove(r.sid, r.gen)
  /\ reqs' = reqs \ {r}
  /\ UNCHANGED <<alive, native, device, nextGen, closing, orphaning, peerByes, wire>>

\* Any error: a refused or lost CAS, the database, a disconnected device, a
\* full queue, a rejection, a timeout.  A write whose reply was lost may have
\* been applied, a BYE that timed out may have reached the device.  send_bye
\* then marks the attempt failed, without another try.
RequestFails(r) ==
  /\ r \in reqs
  /\ \/ UNCHANGED <<dialogs, alive>>
     \/ /\ r.pc = "reserve"
        /\ dialogs' = reserve_durable_dialog_request(dialogs, r.sid, r.method)
        /\ UNCHANGED alive
     \/ /\ r.pc = "wait" /\ r.method = "Bye"
        /\ alive' = [alive EXCEPT ![r.sid] = FALSE]
        /\ UNCHANGED dialogs
     \/ /\ r.pc = "persist"
        /\ dialogs' = cas_transition(dialogs, r.sid, r.ver, "Terminating", "Terminated")
        /\ UNCHANGED alive
  /\ streams' = mark_bye_failed(streams, r.sid, r.gen, r.seq)
  /\ reqs' = reqs \ {r}
  /\ UNCHANGED <<native, device, timers, nextGen, closing, orphaning, peerByes, wire>>

-----------------------------------------------------------------------------
(***************************************************************************)
(* Other writers of the same row and the same stream.                      *)
(***************************************************************************)
\* stream_register and on_play: touch_durable_dialog.
Touch(s) ==
  /\ dialogs[s].version < MaxVersion
  /\ dialogs' = cas_touch(dialogs, s, dialogs[s].version)
  /\ dialogs' # dialogs
  /\ UNCHANGED <<alive, native, device, streams, timers, nextGen, closing, reqs, orphaning,
                 peerByes, wire>>

\* The device hangs up and its BYE arrives; a device that reboots, or whose
\* BYE is lost, leaves no trace here.
PeerHangsUp(s) ==
  /\ alive[s]
  /\ alive' = [alive EXCEPT ![s] = FALSE]
  /\ \/ /\ peerByes' = peerByes \cup {[sid |-> s, pc |-> "persist"]}
        /\ native' = native \ {s}
     \/ UNCHANGED <<peerByes, native>>
  /\ UNCHANGED <<dialogs, device, streams, timers, nextGen, closing, reqs, orphaning, wire>>

\* persist_peer_dialog_terminated: only an established or terminating row,
\* and the CAS may be lost.
PersistPeerBye(p) ==
  /\ p \in peerByes /\ p.pc = "persist"
  /\ \/ /\ dialogs[p.sid].state \in {"Established", "Terminating"}
        /\ dialogs' = cas_transition(dialogs, p.sid, dialogs[p.sid].version,
                                     dialogs[p.sid].state, "Terminated")
     \/ UNCHANGED dialogs
  /\ peerByes' = (peerByes \ {p}) \cup {[p EXCEPT !.pc = "remove"]}
  /\ UNCHANGED <<alive, native, device, streams, timers, nextGen, closing, reqs, orphaning, wire>>

\* stream_terminated_by_call_id: the stream goes whatever its lifecycle.
stream_terminated_by_call_id(p) ==
  /\ p \in peerByes /\ p.pc = "remove"
  /\ streams' = [streams EXCEPT ![p.sid] = NoStream]
  /\ timers' = timers \ {[sid |-> p.sid, gen |-> streams[p.sid].gen]}
  /\ peerByes' = peerByes \ {p}
  /\ UNCHANGED <<dialogs, alive, native, device, nextGen, closing, reqs, orphaning, wire>>

-----------------------------------------------------------------------------
(***************************************************************************)
(* The device session, as the stream table sees it (see DeviceRegistry).   *)
(***************************************************************************)
\* REGISTER, keepalive recovery or a rebind: pending closes are retried.
DeviceOnline ==
  /\ device' = "connected"
  /\ streams' = take_bye(streams, Stream)
  /\ reqs' = reqs \cup send_bye(streams, Stream)
  /\ UNCHANGED <<dialogs, alive, native, timers, nextGen, closing, orphaning, peerByes, wire>>

\* The transport closed; the session waits for the device to come back.
DeviceDetached ==
  /\ device = "connected"
  /\ device' = "detached"
  /\ UNCHANGED <<dialogs, alive, native, streams, timers, nextGen, closing, reqs, orphaning,
                 peerByes, wire>>

\* Cache::reset_device_state: every stream of the device and its deadline.
reset_device_state ==
  /\ streams' = [s \in Stream |-> NoStream]
  /\ timers' = {t \in timers : ~ is_closing_generation(streams, t.sid, t.gen)}

\* Unregister, a missed heartbeat, an expired lease ("none"), or a REGISTER
\* that starts a new registration generation ("connected").
DeviceReset ==
  /\ device # "none"
  /\ device' \in {"none", "connected"}
  /\ reset_device_state
  /\ UNCHANGED <<dialogs, alive, native, nextGen, closing, reqs, orphaning, peerByes, wire>>

-----------------------------------------------------------------------------
CloseNext ==
  \/ \E s \in Stream :
       \/ Begin(s) \/ MarkOrphan(s) \/ StartInfo(s) \/ Touch(s) \/ PeerHangsUp(s)
  \/ \E c \in closing :
       \/ BeginWaits(c) \/ BeginForces(c) \/ BeginArms(c) \/ BeginSendsBye(c)
  \/ \E t \in timers : TimerFires(t)
  \/ \E r \in reqs :
       \/ Reserve(r) \/ load_durable_dialog(r) \/ SendRestored(r) \/ SendNative(r)
       \/ ByeAnswered(r) \/ InfoAnswered(r) \/ Persist(r) \/ RequestFails(r)
  \/ \E p \in peerByes : PersistPeerBye(p) \/ stream_terminated_by_call_id(p)
  \/ DeviceOnline \/ DeviceDetached \/ DeviceReset
=============================================================================
