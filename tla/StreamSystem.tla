---------------------------- MODULE StreamSystem ----------------------------
(***************************************************************************)
(* The whole life of a media stream on one signalling node: the INVITE     *)
(* that sets it up (start_invite_stream, invite_play_and_wait), everything *)
(* StreamClose models, a crash or shutdown of the process, and the durable *)
(* dialog recovery that runs beside live traffic after a restart or when a *)
(* media node reports RTP it does not know (recover_dialog).               *)
(***************************************************************************)
EXTENDS StreamClose

CONSTANTS
  MaxCrashes,   \* bound: crashes and shutdowns
  MaxUnknown    \* bound: stream_unknown callbacks that reach the table

ASSUME SystemAssumption == MaxCrashes \in Nat /\ MaxUnknown \in Nat

VARIABLES
  setup,       \* where start_invite_stream stands for each stream
  booting,     \* rows the startup recovery has not paged in yet
  recovering,  \* recover_dialog calls, each with the row as it was read
  crashes,     \* crashes so far
  unknowns     \* stream_unknown callbacks so far

systemVars == <<setup, booting, recovering, crashes, unknowns>>

vars == <<dialogs, alive, native, device, streams, timers, nextGen, closing, reqs,
          orphaning, peerByes, wire, setup, booting, recovering, crashes, unknowns>>

(***************************************************************************)
(* Set-up: "inviting" the INVITE is out, "answered" the device accepted,   *)
(* "accepted" the 2xx reached the waiter, "rollback" a BYE undoes it,      *)
(* "established" the row says so, "done" the stream is in the table.       *)
(* "timedout": nobody waits for the answer any more; "aborted": likewise,  *)
(* because of a shutdown; "abandoned": a device accepted such an INVITE;   *)
(* "failed": over.                                                         *)
(***************************************************************************)
Setup == {"none", "inviting", "answered", "accepted", "rollback", "established",
          "done", "timedout", "aborted", "abandoned", "failed"}

Recovery == [sid : Stream, src : {"startup", "unknown"}, pc : {"apply", "begin", "again"},
             state : DialogState, ver : Nat, cseq : 0 .. MaxCseq]

-----------------------------------------------------------------------------
(***************************************************************************)
(* Set-up.  Every INVITE has a fresh stream id.                            *)
(***************************************************************************)
\* insert_inviting, then the INVITE is handed to the SIP stack.
Invite(s) ==
  /\ setup[s] = "none" /\ device = "connected"
  /\ dialogs[s].state = "Absent"
  /\ dialogs' = insert_inviting(dialogs, s)
  /\ setup' = [setup EXCEPT ![s] = "inviting"]
  /\ UNCHANGED <<alive, native, device, streams, timers, nextGen, closing, reqs, orphaning,
                 peerByes, wire, booting, recovering, crashes, unknowns>>

\* The device accepts, perhaps after everybody stopped waiting for it.
DeviceAccepts(s) ==
  /\ setup[s] \in {"inviting", "timedout", "aborted"}
  /\ alive' = [alive EXCEPT ![s] = TRUE]
  /\ native' = IF setup[s] = "inviting" THEN native \cup {s} ELSE native
  /\ setup' = [setup EXCEPT ![s] = CASE @ = "inviting" -> "answered"
                                     [] @ = "timedout" -> "failed"
                                     [] @ = "aborted"  -> "abandoned"]
  /\ UNCHANGED <<dialogs, device, streams, timers, nextGen, closing, reqs, orphaning,
                 peerByes, wire, booting, recovering, crashes, unknowns>>

\* complete_native_invite: the 2xx completes the waiter.  Without a snapshot
\* of the dialog, or with one that is not ours, the dialog is rolled back.
complete_native_invite(s) ==
  /\ setup[s] = "answered"
  /\ \E next \in {"accepted", "rollback"} : setup' = [setup EXCEPT ![s] = next]
  /\ UNCHANGED <<closeVars, booting, recovering, crashes, unknowns>>

\* mark_inviting_terminal: the write may be lost.
mark_inviting_terminal(s, next) ==
  \/ dialogs' = cas_transition(dialogs, s, 0, "Inviting", next)
  \/ UNCHANGED dialogs

\* The device rejects the INVITE, or it could not be sent.
InviteRejected(s) ==
  /\ setup[s] = "inviting"
  /\ mark_inviting_terminal(s, "Terminated")
  /\ setup' = [setup EXCEPT ![s] = "failed"]
  /\ UNCHANGED <<alive, native, device, streams, timers, nextGen, closing, reqs, orphaning,
                 peerByes, wire, booting, recovering, crashes, unknowns>>

\* INVITE_WAIT_TIMEOUT: the device may have accepted, or accept later.
InviteTimeout(s) ==
  /\ setup[s] \in {"inviting", "answered"}
  /\ mark_inviting_terminal(s, "Orphan")
  /\ setup' = [setup EXCEPT ![s] = IF @ = "inviting" THEN "timedout" ELSE "failed"]
  /\ UNCHANGED <<alive, native, device, streams, timers, nextGen, closing, reqs, orphaning,
                 peerByes, wire, booting, recovering, crashes, unknowns>>

\* cas_mark_established with the version the INVITE was inserted with.
MarkEstablished(s) ==
  /\ setup[s] = "accepted"
  /\ dialogs' = cas_mark_established(dialogs, s, 0, InitCseq)
  /\ dialogs' # dialogs
  /\ \E next \in {"established", "rollback"} : setup' = [setup EXCEPT ![s] = next]
  /\ UNCHANGED <<alive, native, device, streams, timers, nextGen, closing, reqs, orphaning,
                 peerByes, wire, booting, recovering, crashes, unknowns>>

\* The CAS was lost, or the database failed before it.
MarkEstablishedFails(s) ==
  /\ setup[s] = "accepted"
  /\ setup' = [setup EXCEPT ![s] = "rollback"]
  /\ UNCHANGED <<closeVars, booting, recovering, crashes, unknowns>>

\* rollback_established_invite with a BYE the device answered.
RollbackEnds(s) ==
  /\ setup[s] = "rollback" /\ device = "connected" /\ s \in native
  /\ alive' = [alive EXCEPT ![s] = FALSE]
  /\ native' = native \ {s}
  /\ mark_inviting_terminal(s, "Terminated")
  /\ setup' = [setup EXCEPT ![s] = "failed"]
  /\ UNCHANGED <<device, streams, timers, nextGen, closing, reqs, orphaning, peerByes, wire,
                 booting, recovering, crashes, unknowns>>

\* rollback_established_invite with a BYE that failed.
RollbackFails(s) ==
  /\ setup[s] = "rollback"
  /\ \/ UNCHANGED alive
     \/ device = "connected" /\ s \in native /\ alive' = [alive EXCEPT ![s] = FALSE]
  /\ mark_inviting_terminal(s, "Orphan")
  /\ setup' = [setup EXCEPT ![s] = "failed"]
  /\ UNCHANGED <<native, device, streams, timers, nextGen, closing, reqs, orphaning, peerByes,
                 wire, booting, recovering, crashes, unknowns>>

\* stream_map_insert_info with seq 1.
InsertStream(s) ==
  /\ setup[s] = "established" /\ streams[s].life = "Absent"
  /\ streams' = stream_map_insert(streams, s, 1, FALSE)
  /\ setup' = [setup EXCEPT ![s] = "done"]
  /\ UNCHANGED <<dialogs, alive, native, device, timers, nextGen, closing, reqs, orphaning,
                 peerByes, wire, booting, recovering, crashes, unknowns>>

\* A bad SDP answer, a media node that refuses the stream, or a stream that
\* is in the table already: the new dialog is ended with a BYE.
SetupFails(s) ==
  /\ setup[s] = "established"
  /\ reqs' = reqs \cup {[sid |-> s, method |-> "Bye", gen |-> 0, seq |-> 0,
                         pc |-> "reserve", ver |-> 0, own |-> 0, cseq |-> 0]}
  /\ setup' = [setup EXCEPT ![s] = "failed"]
  /\ UNCHANGED <<dialogs, alive, native, device, streams, timers, nextGen, closing, orphaning,
                 peerByes, wire, booting, recovering, crashes, unknowns>>

-----------------------------------------------------------------------------
(***************************************************************************)
(* A crash, and the shutdown that first fails every waiting INVITE with    *)
(* 503 (fail_all_native), which start_invite_stream takes for a rejection. *)
(* Only the table, the device's end and what went out survive.             *)
(***************************************************************************)
LoseMemory ==
  /\ crashes < MaxCrashes
  /\ crashes' = crashes + 1
  /\ native' = {}
  /\ device' = "none"
  /\ streams' = [s \in Stream |-> NoStream]
  /\ timers' = {}
  /\ nextGen' = 1
  /\ closing' = {}
  /\ reqs' = {}
  /\ orphaning' = {}
  /\ peerByes' = {}
  /\ recovering' = {}
  /\ booting' = Stream
  /\ UNCHANGED <<alive, wire, unknowns>>

\* What becomes of a set-up whose process is gone.
Interrupted(p) ==
  CASE p = "inviting" -> "timedout"
    [] p \in {"none", "timedout", "aborted", "abandoned"} -> p
    [] OTHER -> "failed"

Crash ==
  /\ LoseMemory
  /\ setup' = [s \in Stream |-> Interrupted(setup[s])]
  /\ UNCHANGED dialogs

Shutdown(s) ==
  /\ LoseMemory
  /\ setup[s] \in {"inviting", "answered"}
  /\ dialogs' = cas_transition(dialogs, s, 0, "Inviting", "Terminated")
  /\ setup' = [t \in Stream |->
                  CASE t = s /\ setup[s] = "inviting" -> "aborted"
                    [] t = s /\ setup[s] = "answered" -> "abandoned"
                    [] t # s -> Interrupted(setup[t])]

-----------------------------------------------------------------------------
(***************************************************************************)
(* Recovery.                                                               *)
(***************************************************************************)
recover_dialog(s, src) ==
  [sid |-> s, src |-> src, pc |-> "apply", state |-> dialogs[s].state,
   ver |-> dialogs[s].version, cseq |-> dialogs[s].cseq]

\* page_owned_by_states: the startup scan reads the row.
PageOwned(s) ==
  /\ s \in booting
  /\ booting' = booting \ {s}
  /\ recovering' = IF dialogs[s].state \in {"Inviting", "Established", "Terminating"}
                   THEN recovering \cup {recover_dialog(s, "startup")} ELSE recovering
  /\ UNCHANGED <<closeVars, setup, crashes, unknowns>>

\* stream_unknown: the stream is not in memory, its row is still active.  (A
\* stream that is in memory is just closed: Begin.)
stream_unknown(s) ==
  /\ unknowns < MaxUnknown
  /\ unknowns' = unknowns + 1
  /\ streams[s].life = "Absent"
  /\ dialogs[s].state \in {"Established", "Terminating"}
  /\ recovering' = recovering \cup {recover_dialog(s, "unknown")}
  /\ UNCHANGED <<closeVars, setup, booting, crashes>>

\* What a recover_dialog call that returned Ok leaves: the startup scan goes
\* on to the next row, stream_unknown closes the stream.
Recovered(r) ==
  IF r.src = "unknown" THEN (recovering \ {r}) \cup {[r EXCEPT !.pc = "again"]}
  ELSE recovering \ {r}

\* Mutant: a dialog that cannot be recovered is recorded as ended.
mark_orphan_terminates(r) == cas_transition(dialogs, r.sid, r.ver, r.state, "Terminated")

\* mark_orphan, on the row as it was read.
mark_orphan(r) == cas_transition(dialogs, r.sid, r.ver, r.state, "Orphan")

\* An INVITE nobody waits for, an expired row, a media node that is gone.
RecoverOrphan(r) ==
  /\ r \in recovering /\ r.pc = "apply"
  /\ dialogs' = mark_orphan(r)
  /\ recovering' = Recovered(r)
  /\ UNCHANGED <<alive, native, device, streams, timers, nextGen, closing, reqs, orphaning,
                 peerByes, wire, setup, booting, crashes, unknowns>>

\* The media node or the database does not answer, or the device of a UDP
\* dialog has no valid registration (mark_orphan, then the error).  A write
\* whose reply was lost may have been applied.
RecoverFails(r) ==
  /\ r \in recovering /\ r.pc = "apply"
  /\ \/ UNCHANGED dialogs
     \/ dialogs' = mark_orphan(r)
     \/ /\ r.state = "Established"
        /\ dialogs' = cas_transition(dialogs, r.sid, r.ver, "Established", "Terminating")
  /\ recovering' = recovering \ {r}
  /\ UNCHANGED <<alive, native, device, streams, timers, nextGen, closing, reqs, orphaning,
                 peerByes, wire, setup, booting, crashes, unknowns>>

\* The media node still receives the stream: it is restored, and a dialog
\* that was terminating goes on closing.  A stream that is in the table
\* already makes the row an orphan.  (ensure_udp_device_session is
\* DeviceOnline; the session may be gone again by now.)
RecoverOnline(r) ==
  /\ r \in recovering /\ r.pc = "apply" /\ r.state # "Inviting"
  /\ IF streams[r.sid].life = "Absent"
     THEN /\ streams' = stream_map_insert(streams, r.sid, r.cseq, TRUE)
          /\ recovering' = IF r.state = "Terminating"
                           THEN (recovering \ {r}) \cup {[r EXCEPT !.pc = "begin"]}
                           ELSE Recovered(r)
          /\ UNCHANGED dialogs
     ELSE /\ dialogs' = mark_orphan(r)
          /\ recovering' = Recovered(r)
          /\ UNCHANGED streams
  /\ UNCHANGED <<alive, native, device, timers, nextGen, closing, reqs, orphaning, peerByes,
                 wire, setup, booting, crashes, unknowns>>

\* Mutant: TERMINATING is written without comparing the version.
RecoverOffline_blind(r) ==
  /\ r \in recovering /\ r.pc = "apply" /\ r.state # "Inviting"
  /\ dialogs' = [dialogs EXCEPT ![r.sid].state = "Terminating"]
  /\ streams' = stream_map_insert(streams, r.sid, r.cseq, TRUE)
  /\ recovering' = IF streams[r.sid].life = "Absent"
                   THEN (recovering \ {r}) \cup {[r EXCEPT !.pc = "begin"]}
                   ELSE Recovered(r)
  /\ UNCHANGED <<alive, native, device, timers, nextGen, closing, reqs, orphaning, peerByes,
                 wire, setup, booting, crashes, unknowns>>

\* The media node lost the stream: the row goes to TERMINATING (a lost CAS
\* is ignored) and the stream is restored only to be closed.
RecoverOffline(r) ==
  /\ r \in recovering /\ r.pc = "apply" /\ r.state # "Inviting"
  /\ dialogs' = IF r.state = "Established"
                THEN cas_transition(dialogs, r.sid, r.ver, "Established", "Terminating")
                ELSE dialogs
  /\ streams' = stream_map_insert(streams, r.sid, r.cseq, TRUE)
  /\ recovering' = IF streams[r.sid].life = "Absent"
                   THEN (recovering \ {r}) \cup {[r EXCEPT !.pc = "begin"]}
                   ELSE Recovered(r)
  /\ UNCHANGED <<alive, native, device, timers, nextGen, closing, reqs, orphaning, peerByes,
                 wire, setup, booting, crashes, unknowns>>

\* stream_close::begin, called by recover_dialog and again by stream_unknown.
RecoverBegin(r) ==
  /\ r \in recovering /\ r.pc \in {"begin", "again"}
  /\ stream_close_begin(r.sid)
  /\ recovering' = IF r.pc = "begin" THEN Recovered(r) ELSE recovering \ {r}
  /\ UNCHANGED <<dialogs, alive, native, device, timers, reqs, orphaning, peerByes, wire,
                 setup, booting, crashes, unknowns>>

-----------------------------------------------------------------------------
Init ==
  /\ dialogs = [s \in Stream |-> NoRow]
  /\ alive = [s \in Stream |-> FALSE]
  /\ native = {}
  /\ device = "none"
  /\ streams = [s \in Stream |-> NoStream]
  /\ timers = {}
  /\ nextGen = 1
  /\ closing = {}
  /\ reqs = {}
  /\ orphaning = {}
  /\ peerByes = {}
  /\ wire = [s \in Stream |-> [prev |-> 0, last |-> 0]]
  /\ setup = [s \in Stream |-> "none"]
  /\ booting = {}
  /\ recovering = {}
  /\ crashes = 0
  /\ unknowns = 0

SetupNext ==
  \E s \in Stream :
    \/ Invite(s) \/ DeviceAccepts(s) \/ complete_native_invite(s) \/ InviteRejected(s)
    \/ InviteTimeout(s) \/ MarkEstablished(s) \/ MarkEstablishedFails(s)
    \/ RollbackEnds(s) \/ RollbackFails(s) \/ InsertStream(s) \/ SetupFails(s)

RecoveryNext ==
  \/ \E s \in Stream : PageOwned(s) \/ stream_unknown(s) \/ Shutdown(s)
  \/ \E r \in recovering :
       \/ RecoverOrphan(r) \/ RecoverFails(r) \/ RecoverOnline(r) \/ RecoverOffline(r)
       \/ RecoverBegin(r)
  \/ Crash

Next ==
  \/ CloseNext /\ UNCHANGED systemVars
  \/ SetupNext
  \/ RecoveryNext

Spec == Init /\ [][Next]_vars

(***************************************************************************)
(* Fairness: the runtime polls every woken task, and an armed timer fires. *)
(***************************************************************************)
FairSpec ==
  /\ Spec
  /\ \A s \in Stream, g \in 1 .. MaxGen :
       /\ WF_vars(\/ /\ BeginForces([sid |-> s, gen |-> g, pc |-> "session"])
                     /\ UNCHANGED systemVars
                  \/ /\ BeginArms([sid |-> s, gen |-> g, pc |-> "session"])
                     /\ UNCHANGED systemVars)
       /\ WF_vars(/\ TimerFires([sid |-> s, gen |-> g])
                  /\ UNCHANGED systemVars)

-----------------------------------------------------------------------------
(***************************************************************************)
(* Properties.                                                             *)
(***************************************************************************)
\* The type of every variable (StreamTable, StreamLifecycle, SipDialogSession
\* and the tasks): the shapes the code's own types give.
TypeOK ==
  /\ dialogs \in Table
  /\ alive \in [Stream -> BOOLEAN]
  /\ native \in SUBSET Stream
  /\ device \in {"none", "connected", "detached"}
  /\ streams \in [Stream -> StreamTable]
  /\ timers \in SUBSET Timer
  /\ nextGen \in Nat \ {0}
  /\ closing \in SUBSET CloseCall
  /\ reqs \in SUBSET Request
  /\ orphaning \in SUBSET Stream
  /\ peerByes \in SUBSET PeerBye
  /\ wire \in [Stream -> [prev : 0 .. MaxCseq, last : 0 .. MaxCseq]]
  /\ setup \in [Stream -> Setup]
  /\ booting \in SUBSET Stream
  /\ recovering \in SUBSET Recovery
  /\ crashes \in Nat
  /\ unknowns \in Nat

\* The BYE tasks of the close that stream s is in.
ByeTasks(s) ==
  {r \in reqs : r.sid = s /\ r.method = "Bye" /\ is_closing_generation(streams, s, r.gen)}

\* A closing stream has at most one BYE under way, and its inflight_seq says
\* so exactly: it is Some(q) as long as the task of take_bye's q has not
\* finished.  A leaked inflight_seq would block every retry (take_bye), a
\* cleared one would let two BYEs race.
InflightHasTask ==
  \A s \in Stream : streams[s].life = "Closing" =>
    /\ \A r1, r2 \in ByeTasks(s) : r1 = r2
    /\ \A r \in ByeTasks(s) : r.seq = streams[s].inflight /\ r.seq # 0
    /\ streams[s].inflight # 0 => ByeTasks(s) # {}

\* A row is TERMINATED only when the device's end of the dialog is over: a
\* timeout, a lost answer or a failed BYE leaves an ORPHAN or an active row
\* (invite_play_and_wait, rollback_established_invite, invite_stop_by_device,
\* persist_peer_dialog_terminated).  The exception is an INVITE a shutdown
\* failed with 503 while the device went on to accept it.
TerminatedMeansEnded ==
  \A s \in Stream :
    dialogs[s].state = "Terminated" /\ setup[s] # "abandoned" => ~ alive[s]

\* A closing stream that was not restored never waits for nothing: its
\* StreamClosing deadline is armed, or stream_close::begin is still on its
\* way to arm it or to force the cleanup.
ClosingIsCovered ==
  \A s \in Stream :
    streams[s].life = "Closing" /\ ~ streams[s].restored =>
      \/ [sid |-> s, gen |-> streams[s].gen] \in timers
      \/ [sid |-> s, gen |-> streams[s].gen, pc |-> "session"] \in closing

\* Two requests never own the same reservation: reserve_durable_dialog_request
\* hands out a version once, so the TERMINATED write of one request cannot
\* pass for that of another.
ReservationsDistinct ==
  \A r1, r2 \in reqs :
    /\ r1 # r2 /\ r1.sid = r2.sid
    /\ r1.pc # "reserve" /\ r2.pc # "reserve"
    => r1.ver # r2.ver

\* A CSeq is in the table before it is on the wire: a request on a restored
\* dialog carries one at least as high as its own reservation, whatever
\* requests raced for the row between its reservation, the row's second read
\* and the send, and the row never falls behind what was sent, so that a
\* process that restarts goes on above it.
SentCseqReserved ==
  /\ \A s \in Stream : wire[s].prev <= dialogs[s].cseq /\ wire[s].last <= dialogs[s].cseq
  /\ \A r \in reqs : r.pc = "loaded" => r.own <= r.cseq /\ r.cseq <= dialogs[r.sid].cseq

\* "BYE is a new transaction in the dialog, its CSeq must increase": no two
\* requests on a restored dialog carry the same CSeq.
WireCseqIncreases ==
  \A s \in Stream : wire[s].last # 0 => wire[s].prev < wire[s].last

\* What the dialog table promises (DialogLifecycle): rows only move forward,
\* and a terminated or orphaned row is never revived, by recovery neither.
Lifecycle == INSTANCE DialogLifecycle WITH phase <- [s \in Stream |-> dialogs[s].state]
LifecycleSpec == Lifecycle!Spec

\* Every close of a stream that was not restored ends.
ClosingEnds ==
  \A s \in Stream, g \in 1 .. MaxGen :
    (is_closing_generation(streams, s, g) /\ ~ streams[s].restored)
      ~> ~ is_closing_generation(streams, s, g)
=============================================================================
