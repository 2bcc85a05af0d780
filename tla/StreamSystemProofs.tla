------------------------- MODULE StreamSystemProofs -------------------------
(***************************************************************************)
(* Proofs about StreamSystem, for any set of streams and any bounds: type  *)
(* correctness, what a TERMINATED row means, and the closing of streams.   *)
(***************************************************************************)
EXTENDS StreamInvariants, TLAPS

LEMMA InsertInvitingType ==
  ASSUME NEW t \in Table, NEW s \in Stream
  PROVE  insert_inviting(t, s) \in Table
BY CseqAssumption DEF insert_inviting, Table, SipDialogSession, DialogState

LEMMA MarkEstablishedType ==
  ASSUME NEW t \in Table, NEW s \in Stream, NEW v \in Nat, NEW c \in 0 .. MaxCseq
  PROVE  cas_mark_established(t, s, v, c) \in Table
BY DEF cas_mark_established, Table, SipDialogSession, DialogState

LEMMA TransitionType ==
  ASSUME NEW t \in Table, NEW s \in Stream, NEW v \in Nat, NEW st, NEW next
  PROVE  cas_transition(t, s, v, st, next) \in Table
BY DEF cas_transition, can_transition_to, Table, SipDialogSession, DialogState

LEMMA TouchType ==
  ASSUME NEW t \in Table, NEW s \in Stream, NEW v \in Nat
  PROVE  cas_touch(t, s, v) \in Table
BY DEF cas_touch, Table, SipDialogSession, DialogState

LEMMA ReserveType ==
  ASSUME NEW t \in Table, NEW s \in Stream, NEW method
  PROVE  reserve_durable_dialog_request(t, s, method) \in Table
<1>1. cas_begin_terminating(t, s, t[s].version, t[s].cseq) \in Table
  BY CseqAssumption DEF cas_begin_terminating, Table, SipDialogSession, DialogState
<1>2. cas_reserve_local_cseq(t, s, t[s].version, t[s].cseq) \in Table
  BY CseqAssumption DEF cas_reserve_local_cseq, Table, SipDialogSession, DialogState
<1> QED
  BY <1>1, <1>2 DEF reserve_durable_dialog_request

LEMMA StreamInsertType ==
  ASSUME NEW m \in [Stream -> StreamTable], NEW s \in Stream, NEW n \in Nat, NEW b \in BOOLEAN
  PROVE  stream_map_insert(m, s, n, b) \in [Stream -> StreamTable]
BY DEF stream_map_insert, StreamTable

LEMMA BeginCloseType ==
  ASSUME NEW m \in [Stream -> StreamTable], NEW s \in Stream, NEW g \in Nat
  PROVE  begin_close(m, s, g) \in [Stream -> StreamTable]
BY DEF begin_close, StreamTable

LEMMA MarkFailedType ==
  ASSUME NEW m \in [Stream -> StreamTable], NEW s \in Stream, NEW g \in Nat, NEW q \in Nat
  PROVE  mark_bye_failed(m, s, g, q) \in [Stream -> StreamTable]
BY DEF mark_bye_failed, is_closing_generation, StreamTable

LEMMA NoStreamType == NoStream \in StreamTable
BY DEF NoStream, StreamTable

LEMMA TakeByeType ==
  ASSUME NEW m \in [Stream -> StreamTable], NEW S \in SUBSET Stream
  PROVE  /\ take_bye(m, S) \in [Stream -> StreamTable]
         /\ send_bye(m, S) \in SUBSET Request
<1>1. ASSUME NEW n \in Nat PROVE saturating_inc(n) \in Nat
  BY CloseAssumption DEF saturating_inc
<1>2. can_take_bye(m, S) \in SUBSET Stream
  BY DEF can_take_bye
<1>3. \A s \in Stream : m[s] \in StreamTable
  OBVIOUS
<1>4. take_bye(m, S) \in [Stream -> StreamTable]
  BY <1>1, <1>2, <1>3 DEF take_bye, StreamTable
<1>5. send_bye(m, S) \in SUBSET Request
  BY <1>1, <1>2, <1>3, CseqAssumption DEF send_bye, StreamTable, Request
<1> QED
  BY <1>4, <1>5

(***************************************************************************)
(* The type invariant is inductive.  One step per action; the variables an *)
(* action leaves alone keep their type through its UNCHANGED.              *)
(***************************************************************************)
LEMMA InitType == Init => TypeOK
BY CseqAssumption
   DEF Init, TypeOK, NoRow, NoStream, Table, SipDialogSession, DialogState, StreamTable, Setup

LEMMA CloseType ==
  ASSUME TypeOK, CloseNext, UNCHANGED systemVars
  PROVE  TypeOK'
<1> USE DEF TypeOK, systemVars
<1>1. ASSUME NEW s \in Stream, Begin(s) PROVE TypeOK'
  BY <1>1, BeginCloseType DEF Begin, stream_close_begin, CloseCall
<1>2. ASSUME NEW s \in Stream, MarkOrphan(s) PROVE TypeOK'
  <2>1. dialogs[s].version \in Nat
    BY DEF Table, SipDialogSession
  <2> QED
    BY <1>2, <2>1, TransitionType DEF MarkOrphan
<1>3. ASSUME NEW s \in Stream, StartInfo(s) PROVE TypeOK'
  BY <1>3, CseqAssumption DEF StartInfo, Request
<1>4. ASSUME NEW s \in Stream, Touch(s) PROVE TypeOK'
  <2>1. dialogs[s].version \in Nat
    BY DEF Table, SipDialogSession
  <2> QED
    BY <1>4, <2>1, TouchType DEF Touch
<1>5. ASSUME NEW s \in Stream, PeerHangsUp(s) PROVE TypeOK'
  BY <1>5 DEF PeerHangsUp, PeerBye
<1>6. ASSUME NEW c \in closing, BeginWaits(c) PROVE TypeOK'
  BY <1>6 DEF BeginWaits
<1>7. ASSUME NEW c \in closing, BeginForces(c) PROVE TypeOK'
  BY <1>7, NoStreamType DEF BeginForces, force_cleanup, stream_close_remove, CloseCall
<1>8. ASSUME NEW c \in closing, BeginArms(c) PROVE TypeOK'
  BY <1>8 DEF BeginArms, CloseCall, Timer
<1>9. ASSUME NEW c \in closing, BeginSendsBye(c) PROVE TypeOK'
  BY <1>9, TakeByeType DEF BeginSendsBye, CloseCall
<1>10. ASSUME NEW t \in timers, TimerFires(t) PROVE TypeOK'
  BY <1>10, NoStreamType DEF TimerFires, Timer
<1>11. ASSUME NEW r \in reqs, Reserve(r) PROVE TypeOK'
  <2>1. dialogs' \in Table
    BY <1>11, ReserveType DEF Reserve, Request
  <2>2. dialogs[r.sid].version \in Nat
    BY DEF Table, SipDialogSession, Request
  <2>c. dialogs'[r.sid].cseq \in 0 .. MaxCseq /\ 0 \in 0 .. MaxCseq
    BY <2>1, CseqAssumption DEF Table, SipDialogSession, Request
  <2>3. reqs' \in SUBSET Request
    BY <1>11, <2>2, <2>c DEF Reserve, Request
  <2> QED
    BY <1>11, <2>1, <2>3 DEF Reserve
<1>l. ASSUME NEW r \in reqs, load_durable_dialog(r) PROVE TypeOK'
  <2>1. dialogs[r.sid].cseq \in 0 .. MaxCseq
    BY DEF Table, SipDialogSession, Request
  <2> QED
    BY <1>l, <2>1 DEF load_durable_dialog, Request
<1>12. ASSUME NEW r \in reqs, SendRestored(r) PROVE TypeOK'
  BY <1>12 DEF SendRestored, Request
<1>13. ASSUME NEW r \in reqs, SendNative(r) PROVE TypeOK'
  BY <1>13 DEF SendNative, Request
<1>14. ASSUME NEW r \in reqs, ByeAnswered(r) PROVE TypeOK'
  BY <1>14 DEF ByeAnswered, Request
<1>15. ASSUME NEW r \in reqs, InfoAnswered(r) PROVE TypeOK'
  BY <1>15 DEF InfoAnswered
<1>16. ASSUME NEW r \in reqs, Persist(r) PROVE TypeOK'
  <2>1. r.sid \in Stream /\ r.gen \in Nat /\ r.ver \in Nat
    BY DEF Request
  <2>2. dialogs' \in Table
    BY <1>16, <2>1, TransitionType DEF Persist
  <2>3. streams' \in [Stream -> StreamTable] /\ timers' \in SUBSET Timer
    BY <1>16, <2>1, NoStreamType DEF Persist, stream_close_remove
  <2> QED
    BY <1>16, <2>2, <2>3 DEF Persist
<1>17. ASSUME NEW r \in reqs, RequestFails(r) PROVE TypeOK'
  <2>1. dialogs' \in Table
    BY <1>17, TransitionType, ReserveType DEF RequestFails, Request
  <2>2. alive' \in [Stream -> BOOLEAN]
    BY <1>17 DEF RequestFails
  <2> QED
    BY <1>17, <2>1, <2>2, MarkFailedType DEF RequestFails, Request
<1>18. ASSUME NEW p \in peerByes, PersistPeerBye(p) PROVE TypeOK'
  <2>1. dialogs' \in Table
    <3>1. p.sid \in Stream /\ dialogs[p.sid].version \in Nat
      BY DEF Table, SipDialogSession, PeerBye
    <3> QED
      BY <1>18, <3>1, TransitionType DEF PersistPeerBye
  <2> QED
    BY <1>18, <2>1 DEF PersistPeerBye, PeerBye
<1>19. ASSUME NEW p \in peerByes, stream_terminated_by_call_id(p) PROVE TypeOK'
  BY <1>19, NoStreamType DEF stream_terminated_by_call_id, PeerBye
<1>20. ASSUME DeviceOnline PROVE TypeOK'
  BY <1>20, TakeByeType DEF DeviceOnline
<1>21. ASSUME DeviceDetached PROVE TypeOK'
  BY <1>21 DEF DeviceDetached
<1>22. ASSUME DeviceReset PROVE TypeOK'
  BY <1>22 DEF DeviceReset, reset_device_state, NoStream, StreamTable
<1> QED
  BY <1>1, <1>2, <1>3, <1>4, <1>5, <1>6, <1>7, <1>8, <1>9, <1>10, <1>11, <1>l, <1>12, <1>13,
     <1>14, <1>15, <1>16, <1>17, <1>18, <1>19, <1>20, <1>21, <1>22 DEF CloseNext

LEMMA SetupType ==
  ASSUME TypeOK, SetupNext
  PROVE  TypeOK'
<1> USE DEF TypeOK, Setup, closeVars
<1>1. ASSUME NEW s \in Stream, Invite(s) PROVE TypeOK'
  BY <1>1, InsertInvitingType DEF Invite
<1>2. ASSUME NEW s \in Stream, DeviceAccepts(s) PROVE TypeOK'
  <2>1. setup' \in [Stream -> Setup]
    BY <1>2 DEF DeviceAccepts
  <2> QED
    BY <1>2, <2>1 DEF DeviceAccepts
<1>3. ASSUME NEW s \in Stream, complete_native_invite(s) PROVE TypeOK'
  BY <1>3 DEF complete_native_invite
<1>4. ASSUME NEW s \in Stream, InviteRejected(s) PROVE TypeOK'
  BY <1>4, TransitionType DEF InviteRejected, mark_inviting_terminal
<1>5. ASSUME NEW s \in Stream, InviteTimeout(s) PROVE TypeOK'
  BY <1>5, TransitionType DEF InviteTimeout, mark_inviting_terminal
<1>6. ASSUME NEW s \in Stream, MarkEstablished(s) PROVE TypeOK'
  BY <1>6, CseqAssumption, MarkEstablishedType DEF MarkEstablished
<1>7. ASSUME NEW s \in Stream, MarkEstablishedFails(s) PROVE TypeOK'
  BY <1>7 DEF MarkEstablishedFails
<1>8. ASSUME NEW s \in Stream, RollbackEnds(s) PROVE TypeOK'
  BY <1>8, TransitionType DEF RollbackEnds, mark_inviting_terminal
<1>9. ASSUME NEW s \in Stream, RollbackFails(s) PROVE TypeOK'
  <2>1. dialogs' \in Table
    BY <1>9, TransitionType DEF RollbackFails, mark_inviting_terminal
  <2>2. alive' \in [Stream -> BOOLEAN]
    BY <1>9 DEF RollbackFails
  <2> QED
    BY <1>9, <2>1, <2>2 DEF RollbackFails
<1>10. ASSUME NEW s \in Stream, InsertStream(s) PROVE TypeOK'
  BY <1>10, StreamInsertType DEF InsertStream
<1>11. ASSUME NEW s \in Stream, SetupFails(s) PROVE TypeOK'
  BY <1>11, CseqAssumption DEF SetupFails, Request
<1> QED
  BY <1>1, <1>2, <1>3, <1>4, <1>5, <1>6, <1>7, <1>8, <1>9, <1>10, <1>11 DEF SetupNext

LEMMA RecoveryType ==
  ASSUME TypeOK, RecoveryNext
  PROVE  TypeOK'
<1> USE DEF TypeOK, closeVars
<1>1. ASSUME NEW s \in Stream, dialogs[s].state \in DialogState,
             NEW src \in {"startup", "unknown"}
      PROVE  recover_dialog(s, src) \in Recovery
  BY <1>1 DEF recover_dialog, Recovery, Table, SipDialogSession
<1>2. ASSUME NEW r \in recovering
      PROVE  /\ r.sid \in Stream /\ r.ver \in Nat /\ r.cseq \in Nat
             /\ [r EXCEPT !.pc = "begin"] \in Recovery
             /\ Recovered(r) \in SUBSET Recovery
  BY DEF Recovered, Recovery
<1>3. ASSUME NEW p \in Setup PROVE Interrupted(p) \in Setup
  BY DEF Interrupted, Setup
<1>4. ASSUME NEW r \in recovering PROVE mark_orphan(r) \in Table
  BY <1>2, TransitionType DEF mark_orphan
<1>5. ASSUME NEW s \in Stream, PageOwned(s) PROVE TypeOK'
  BY <1>5, <1>1 DEF PageOwned, DialogState
<1>6. ASSUME NEW s \in Stream, stream_unknown(s) PROVE TypeOK'
  BY <1>6, <1>1 DEF stream_unknown, DialogState
<1>7. ASSUME NEW s \in Stream, Shutdown(s) PROVE TypeOK'
  <2>1. setup' \in [Stream -> Setup]
    <3> DEFINE next(t) == CASE t = s /\ setup[s] = "inviting" -> "aborted"
                            [] t = s /\ setup[s] = "answered" -> "abandoned"
                            [] t # s -> Interrupted(setup[t])
    <3>1. ASSUME NEW t \in Stream PROVE next(t) \in Setup
      BY <1>7, <1>3 DEF Shutdown, Setup
    <3>2. setup' = [t \in Stream |-> next(t)]
      BY <1>7 DEF Shutdown
    <3> HIDE DEF next
    <3> QED
      BY <3>1, <3>2
  <2>2. dialogs' \in Table
    BY <1>7, TransitionType DEF Shutdown
  <2> QED
    BY <1>7, <2>1, <2>2 DEF Shutdown, LoseMemory, NoStream, StreamTable
<1>8. ASSUME Crash PROVE TypeOK'
  <2>1. setup' \in [Stream -> Setup]
    BY <1>8, <1>3 DEF Crash
  <2> QED
    BY <1>8, <2>1 DEF Crash, LoseMemory, NoStream, StreamTable
<1>9. ASSUME NEW r \in recovering, RecoverOrphan(r) PROVE TypeOK'
  BY <1>9, <1>2, <1>4 DEF RecoverOrphan
<1>10. ASSUME NEW r \in recovering, RecoverFails(r) PROVE TypeOK'
  <2>1. cas_transition(dialogs, r.sid, r.ver, "Established", "Terminating") \in Table
    BY <1>2, TransitionType
  <2>2. dialogs' \in Table
    BY <1>10, <1>4, <2>1 DEF RecoverFails
  <2> QED
    BY <1>10, <2>2 DEF RecoverFails
<1>11. ASSUME NEW r \in recovering, RecoverOnline(r) PROVE TypeOK'
  <2>1. stream_map_insert(streams, r.sid, r.cseq, TRUE) \in [Stream -> StreamTable]
    BY <1>2, StreamInsertType
  <2>2. streams' \in [Stream -> StreamTable]
    BY <1>11, <2>1 DEF RecoverOnline
  <2>3. dialogs' \in Table
    BY <1>11, <1>4 DEF RecoverOnline
  <2>4. recovering' \in SUBSET Recovery
    <3>1. \/ recovering' = (recovering \ {r}) \cup {[r EXCEPT !.pc = "begin"]}
          \/ recovering' = Recovered(r)
      BY <1>11, Zenon DEF RecoverOnline
    <3> QED
      BY <3>1, <1>2
  <2> QED
    BY <1>11, <2>2, <2>3, <2>4 DEF RecoverOnline
<1>12. ASSUME NEW r \in recovering, RecoverOffline(r) PROVE TypeOK'
  <2>1. streams' \in [Stream -> StreamTable]
    BY <1>12, <1>2, StreamInsertType DEF RecoverOffline
  <2>2. dialogs' \in Table
    BY <1>12, <1>2, TransitionType DEF RecoverOffline
  <2>3. recovering' \in SUBSET Recovery
    BY <1>12, <1>2 DEF RecoverOffline
  <2> QED
    BY <1>12, <2>1, <2>2, <2>3 DEF RecoverOffline
<1>13. ASSUME NEW r \in recovering, RecoverBegin(r) PROVE TypeOK'
  <2> DEFINE s == r.sid
  <2>s. s \in Stream
    BY <1>2
  <2>b. stream_close_begin(s)
    BY <1>13 DEF RecoverBegin
  <2> HIDE DEF s
  <2>1. /\ streams' \in [Stream -> StreamTable] /\ nextGen' \in Nat \ {0}
        /\ closing' \in SUBSET CloseCall
    <3>1. CASE streams[s].life = "Absent"
      BY <3>1, <2>b DEF stream_close_begin
    <3>2. CASE streams[s].life # "Absent"
      BY <3>2, <2>s, <2>b, BeginCloseType DEF stream_close_begin, CloseCall
    <3> QED
      BY <3>1, <3>2
  <2>2. recovering' \in SUBSET Recovery
    BY <1>13, <1>2 DEF RecoverBegin
  <2> QED
    BY <1>13, <2>1, <2>2 DEF RecoverBegin
<1> QED
  BY <1>5, <1>6, <1>7, <1>8, <1>9, <1>10, <1>11, <1>12, <1>13 DEF RecoveryNext

\* Every reachable state is well typed: no row holds a CSeq beyond the limit
\* the table accepts, no task refers to an unknown stream, whatever the
\* interleaving of set-up, close, recovery and crashes.
THEOREM TypeCorrect == Spec => []TypeOK
<1>1. TypeOK /\ [Next]_vars => TypeOK'
  <2>1. ASSUME TypeOK, UNCHANGED vars PROVE TypeOK'
    BY <2>1 DEF TypeOK, vars
  <2> QED
    BY <2>1, CloseType, SetupType, RecoveryType DEF Next
<1> QED
  BY <1>1, InitType, PTL DEF Spec

-----------------------------------------------------------------------------
(***************************************************************************)
(* A TERMINATED row means that the device's end of the dialog is over.     *)
(***************************************************************************)
(***************************************************************************)
(* What the repository's writes do to the STATE column.                    *)
(***************************************************************************)
LEMMA TransitionState ==
  ASSUME NEW t \in Table, NEW s \in Stream, NEW v, NEW st, NEW next, NEW x \in Stream
  PROVE  LET u == cas_transition(t, s, v, st, next)
         IN  \/ u[x].state = t[x].state
             \/ x = s /\ t[s].state = st /\ u[s].state = next /\ can_transition_to(st, next)
BY DEF cas_transition, Table, SipDialogSession

LEMMA ReserveState ==
  ASSUME NEW t \in Table, NEW s \in Stream, NEW method, NEW x \in Stream
  PROVE  LET u == reserve_durable_dialog_request(t, s, method)
         IN  /\ \/ u[x].state = t[x].state
                \/ x = s /\ t[s].state = "Established" /\ u[s].state = "Terminating"
             /\ u # t => t[s].state \in {"Established", "Terminating"}
<1>1. LET u == cas_begin_terminating(t, s, t[s].version, t[s].cseq)
      IN  /\ \/ u[x].state = t[x].state
             \/ x = s /\ t[s].state = "Established" /\ u[s].state = "Terminating"
          /\ u # t => t[s].state \in {"Established", "Terminating"}
  BY DEF cas_begin_terminating, Table, SipDialogSession
<1>2. LET u == cas_reserve_local_cseq(t, s, t[s].version, t[s].cseq)
      IN  /\ u[x].state = t[x].state
          /\ u # t => t[s].state \in {"Established", "Terminating"}
  BY DEF cas_reserve_local_cseq, Table, SipDialogSession
<1>3. \/ reserve_durable_dialog_request(t, s, method)
           = cas_begin_terminating(t, s, t[s].version, t[s].cseq)
      \/ reserve_durable_dialog_request(t, s, method)
           = cas_reserve_local_cseq(t, s, t[s].version, t[s].cseq)
      \/ reserve_durable_dialog_request(t, s, method) = t
  BY DEF reserve_durable_dialog_request
<1> QED
  BY <1>1, <1>2, <1>3

LEMMA TouchState ==
  ASSUME NEW t \in Table, NEW s \in Stream, NEW v, NEW x \in Stream
  PROVE  cas_touch(t, s, v)[x].state = t[x].state
BY DEF cas_touch, Table, SipDialogSession

-----------------------------------------------------------------------------
LEMMA InitEnd == Init => EndInv
BY InitType
   DEF Init, EndInv, PendingHasNoDialog, RequestsFollowAnswer, PeerByesFollowAnswer,
       TerminatedMeansEnded, NoRow, Pending

\* A step that leaves setup alone, ends dialogs at most, moves rows only
\* within the active states or to ORPHAN, and adds no request beyond
\* "reserve", keeps the invariant.
LEMMA QuietStep ==
  ASSUME EndInv, TypeOK', setup' = setup, peerByes' \subseteq peerByes,
         \A r \in reqs' : r \in reqs \/ r.pc = "reserve",
         \A s \in Stream : alive'[s] => alive[s],
         \A s \in Stream : \/ dialogs'[s].state = dialogs[s].state
                           \/ dialogs'[s].state = "Orphan"
                           \/ /\ dialogs[s].state = "Established"
                              /\ dialogs'[s].state = "Terminating"
  PROVE  EndInv'
<1> USE DEF EndInv
<1>1. PendingHasNoDialog'
  BY DEF PendingHasNoDialog
<1>2. RequestsFollowAnswer'
  BY DEF RequestsFollowAnswer, TypeOK, Request
<1>3. PeerByesFollowAnswer'
  BY DEF PeerByesFollowAnswer, TypeOK, PeerBye
<1>4. TerminatedMeansEnded'
  BY DEF TerminatedMeansEnded
<1> QED
  BY <1>1, <1>2, <1>3, <1>4

LEMMA SendByeReserves ==
  ASSUME NEW m, NEW S, NEW r \in send_bye(m, S)
  PROVE  r.pc = "reserve"
BY DEF send_bye

LEMMA CloseEnd ==
  ASSUME EndInv, CloseNext, UNCHANGED systemVars
  PROVE  EndInv'
<1>t. TypeOK /\ TypeOK'
  BY CloseType DEF EndInv
<1>s. setup' = setup
  BY DEF systemVars
<1>1. ASSUME NEW s \in Stream, Begin(s) PROVE EndInv'
  BY <1>1, <1>t, <1>s, QuietStep DEF Begin
<1>2. ASSUME NEW s \in Stream, MarkOrphan(s) PROVE EndInv'
  <2>1. \A x \in Stream : dialogs'[x].state \in {dialogs[x].state, "Orphan"}
    BY <1>2, <1>t, TransitionState DEF MarkOrphan, TypeOK
  <2> QED
    BY <1>2, <1>t, <1>s, <2>1, QuietStep DEF MarkOrphan
<1>3. ASSUME NEW s \in Stream, StartInfo(s) PROVE EndInv'
  BY <1>3, <1>t, <1>s, QuietStep DEF StartInfo
<1>4. ASSUME NEW s \in Stream, Touch(s) PROVE EndInv'
  <2>1. \A x \in Stream : dialogs'[x].state = dialogs[x].state
    BY <1>4, <1>t, TouchState DEF Touch, TypeOK
  <2> QED
    BY <1>4, <1>t, <1>s, <2>1, QuietStep DEF Touch
<1>5. ASSUME NEW s \in Stream, PeerHangsUp(s) PROVE EndInv'
  <2>1. setup[s] \notin Pending
    BY <1>5 DEF EndInv, PendingHasNoDialog, PeerHangsUp
  <2>2. \A x \in Stream : alive'[x] => alive[x]
    BY <1>5, <1>t DEF PeerHangsUp, TypeOK
  <2>3. ~ alive'[s]
    BY <1>5, <1>t DEF PeerHangsUp, TypeOK
  <2>4. PeerByesFollowAnswer'
    BY <1>5, <1>t, <1>s, <2>1, <2>2, <2>3
       DEF EndInv, PeerByesFollowAnswer, PeerHangsUp, TypeOK, PeerBye
  <2>5. PendingHasNoDialog' /\ TerminatedMeansEnded'
    BY <1>5, <1>s, <2>2 DEF EndInv, PendingHasNoDialog, TerminatedMeansEnded, PeerHangsUp
  <2>6. RequestsFollowAnswer'
    BY <1>5, <1>t, <1>s, <2>2 DEF EndInv, RequestsFollowAnswer, PeerHangsUp, TypeOK, Request
  <2> QED
    BY <1>t, <2>4, <2>5, <2>6 DEF EndInv
<1>6. ASSUME NEW c \in closing, BeginWaits(c) PROVE EndInv'
  BY <1>6, <1>t, <1>s, QuietStep DEF BeginWaits
<1>7. ASSUME NEW c \in closing, BeginForces(c) PROVE EndInv'
  BY <1>7, <1>t, <1>s, QuietStep DEF BeginForces
<1>8. ASSUME NEW c \in closing, BeginArms(c) PROVE EndInv'
  BY <1>8, <1>t, <1>s, QuietStep DEF BeginArms
<1>9. ASSUME NEW c \in closing, BeginSendsBye(c) PROVE EndInv'
  BY <1>9, <1>t, <1>s, QuietStep, SendByeReserves DEF BeginSendsBye
<1>10. ASSUME NEW t \in timers, TimerFires(t) PROVE EndInv'
  BY <1>10, <1>t, <1>s, QuietStep DEF TimerFires
<1>11. ASSUME NEW r \in reqs, Reserve(r) PROVE EndInv'
  <2>1. r.sid \in Stream /\ dialogs \in Table
    BY <1>t DEF TypeOK, Request
  <2>2. \A x \in Stream : \/ dialogs'[x].state = dialogs[x].state
                          \/ dialogs[x].state = "Established" /\ dialogs'[x].state = "Terminating"
    BY <1>11, <2>1, ReserveState DEF Reserve
  <2>3. setup[r.sid] \notin Pending
    <3>1. dialogs[r.sid].state \in {"Established", "Terminating"}
      BY <1>11, <2>1, ReserveState DEF Reserve
    <3> QED
      BY <3>1, <2>1 DEF EndInv, PendingHasNoDialog
  <2>4. RequestsFollowAnswer'
    BY <1>11, <1>s, <2>3 DEF EndInv, RequestsFollowAnswer, Reserve
  <2>5. PendingHasNoDialog' /\ TerminatedMeansEnded' /\ PeerByesFollowAnswer'
    BY <1>11, <1>s, <2>2
       DEF EndInv, PendingHasNoDialog, TerminatedMeansEnded, PeerByesFollowAnswer, Reserve
  <2> QED
    BY <1>t, <2>4, <2>5 DEF EndInv
<1>l. ASSUME NEW r \in reqs, load_durable_dialog(r) PROVE EndInv'
  <2> DEFINE n == [r EXCEPT !.pc = "loaded", !.cseq = dialogs[r.sid].cseq]
  <2>1. /\ reqs' = (reqs \ {r}) \cup {n}
        /\ r.pc = "route" /\ UNCHANGED <<dialogs, alive, peerByes>>
    BY <1>l DEF load_durable_dialog
  <2>2. n.pc = "loaded" /\ n.sid = r.sid
    BY <1>t DEF TypeOK, Request
  <2> HIDE DEF n
  <2>3. RequestsFollowAnswer'
    BY <1>s, <2>1, <2>2 DEF EndInv, RequestsFollowAnswer
  <2>4. PendingHasNoDialog' /\ TerminatedMeansEnded' /\ PeerByesFollowAnswer'
    BY <1>s, <2>1
       DEF EndInv, PendingHasNoDialog, TerminatedMeansEnded, PeerByesFollowAnswer
  <2> QED
    BY <1>t, <2>3, <2>4 DEF EndInv
<1>12. ASSUME NEW r \in reqs, SendRestored(r) \/ SendNative(r) PROVE EndInv'
  <2>1. /\ reqs' = (reqs \ {r}) \cup {[r EXCEPT !.pc = "wait"]}
        /\ r.pc # "reserve" /\ UNCHANGED <<dialogs, alive, peerByes>>
    BY <1>12 DEF SendRestored, SendNative
  <2>2. /\ [r EXCEPT !.pc = "wait"].pc = "wait"
        /\ [r EXCEPT !.pc = "wait"].sid = r.sid
    BY <1>t DEF TypeOK, Request
  <2>3. RequestsFollowAnswer'
    BY <1>s, <2>1, <2>2 DEF EndInv, RequestsFollowAnswer
  <2>4. PendingHasNoDialog' /\ TerminatedMeansEnded' /\ PeerByesFollowAnswer'
    BY <1>s, <2>1
       DEF EndInv, PendingHasNoDialog, TerminatedMeansEnded, PeerByesFollowAnswer
  <2> QED
    BY <1>t, <2>3, <2>4 DEF EndInv
<1>14. ASSUME NEW r \in reqs, ByeAnswered(r) PROVE EndInv'
  <2>1. /\ [r EXCEPT !.pc = "persist"].sid = r.sid
        /\ [r EXCEPT !.pc = "persist"].method = r.method
    BY <1>t DEF TypeOK, Request
  <2>2. (\A x \in Stream : alive'[x] => alive[x]) /\ ~ alive'[r.sid] /\ r.sid \in Stream
    BY <1>14, <1>t DEF ByeAnswered, TypeOK, Request
  <2>3. RequestsFollowAnswer'
    BY <1>14, <1>t, <1>s, <2>1, <2>2
       DEF EndInv, RequestsFollowAnswer, ByeAnswered, TypeOK, Request
  <2>4. PendingHasNoDialog' /\ TerminatedMeansEnded'
    BY <1>14, <1>s, <2>2 DEF EndInv, PendingHasNoDialog, TerminatedMeansEnded, ByeAnswered
  <2>5. PeerByesFollowAnswer'
    BY <1>14, <1>t, <1>s, <2>2 DEF EndInv, PeerByesFollowAnswer, ByeAnswered, TypeOK, PeerBye
  <2> QED
    BY <1>t, <2>3, <2>4, <2>5 DEF EndInv
<1>15. ASSUME NEW r \in reqs, InfoAnswered(r) PROVE EndInv'
  BY <1>15, <1>t, <1>s, QuietStep DEF InfoAnswered
<1>p. ASSUME NEW r \in reqs, r.pc = "persist", reqs' = reqs \ {r}, UNCHANGED <<alive, peerByes>>,
             dialogs' = cas_transition(dialogs, r.sid, r.ver, "Terminating", "Terminated")
      PROVE  EndInv'
  <2>1. r.sid \in Stream /\ dialogs \in Table
    BY <1>t DEF TypeOK, Request
  <2>2. ~ alive[r.sid] /\ setup[r.sid] \notin Pending
    BY <1>p DEF EndInv, RequestsFollowAnswer
  <2>3. \A x \in Stream : dialogs'[x].state = dialogs[x].state \/ x = r.sid
    BY <1>p, <2>1, TransitionState
  <2>4. PendingHasNoDialog' /\ TerminatedMeansEnded'
    BY <1>p, <1>s, <2>2, <2>3 DEF EndInv, PendingHasNoDialog, TerminatedMeansEnded
  <2>5. RequestsFollowAnswer' /\ PeerByesFollowAnswer'
    BY <1>p, <1>s DEF EndInv, RequestsFollowAnswer, PeerByesFollowAnswer
  <2> QED
    BY <1>t, <2>4, <2>5 DEF EndInv
<1>16. ASSUME NEW r \in reqs, Persist(r) PROVE EndInv'
  BY <1>16, <1>p DEF Persist
<1>17. ASSUME NEW r \in reqs, RequestFails(r) PROVE EndInv'
  <2>1. reqs' = reqs \ {r} /\ UNCHANGED peerByes
    BY <1>17 DEF RequestFails
  <2>2. CASE UNCHANGED dialogs
    <3>1. \A x \in Stream : alive'[x] => alive[x]
      BY <1>17, <1>t DEF RequestFails, TypeOK
    <3> QED
      BY <1>t, <1>s, <2>1, <2>2, <3>1, QuietStep
  <2>3. CASE dialogs' = reserve_durable_dialog_request(dialogs, r.sid, r.method) /\ UNCHANGED alive
    <3>1. r.sid \in Stream /\ dialogs \in Table
      BY <1>t DEF TypeOK, Request
    <3>2. \A x \in Stream :
            \/ dialogs'[x].state = dialogs[x].state
            \/ dialogs[x].state = "Established" /\ dialogs'[x].state = "Terminating"
      BY <2>3, <3>1, ReserveState
    <3> QED
      BY <1>t, <1>s, <2>1, <2>3, <3>2, QuietStep
  <2>4. CASE /\ r.pc = "persist" /\ UNCHANGED alive
             /\ dialogs' = cas_transition(dialogs, r.sid, r.ver, "Terminating", "Terminated")
    BY <1>p, <2>1, <2>4
  <2> QED
    BY <1>17, <2>2, <2>3, <2>4 DEF RequestFails
<1>18. ASSUME NEW p \in peerByes, PersistPeerBye(p) PROVE EndInv'
  <2>1. p.sid \in Stream /\ dialogs \in Table /\ [p EXCEPT !.pc = "remove"].sid = p.sid
    BY <1>t DEF TypeOK, PeerBye
  <2>2. ~ alive[p.sid] /\ setup[p.sid] \notin Pending
    BY DEF EndInv, PeerByesFollowAnswer
  <2>3. \A x \in Stream : dialogs'[x].state = dialogs[x].state \/ x = p.sid
    BY <1>18, <2>1, TransitionState DEF PersistPeerBye
  <2>4. PendingHasNoDialog' /\ TerminatedMeansEnded'
    BY <1>18, <1>s, <2>2, <2>3
       DEF EndInv, PendingHasNoDialog, TerminatedMeansEnded, PersistPeerBye
  <2>5. RequestsFollowAnswer' /\ PeerByesFollowAnswer'
    BY <1>18, <1>s, <2>1, <2>2
       DEF EndInv, RequestsFollowAnswer, PeerByesFollowAnswer, PersistPeerBye
  <2> QED
    BY <1>t, <2>4, <2>5 DEF EndInv
<1>19. ASSUME NEW p \in peerByes, stream_terminated_by_call_id(p) PROVE EndInv'
  BY <1>19, <1>t, <1>s, QuietStep DEF stream_terminated_by_call_id
<1>20. ASSUME DeviceOnline PROVE EndInv'
  BY <1>20, <1>t, <1>s, QuietStep, SendByeReserves DEF DeviceOnline
<1>21. ASSUME DeviceDetached \/ DeviceReset PROVE EndInv'
  BY <1>21, <1>t, <1>s, QuietStep DEF DeviceDetached, DeviceReset
<1> QED
  BY <1>1, <1>2, <1>3, <1>4, <1>5, <1>6, <1>7, <1>8, <1>9, <1>10, <1>11, <1>l, <1>12,
     <1>14, <1>15, <1>16, <1>17, <1>18, <1>19, <1>20, <1>21 DEF CloseNext

\* In the other half the set-up moves.  Of one stream s only setup, the row
\* and the device's end may change; the tasks stay.
LEMMA SetupStep ==
  ASSUME EndInv, TypeOK', NEW s \in Stream, NEW next,
         setup' = [setup EXCEPT ![s] = next],
         \A r \in reqs' : r \in reqs \/ r.pc = "reserve",
         UNCHANGED peerByes,
         \A x \in Stream \ {s} : alive'[x] = alive[x] /\ dialogs'[x].state = dialogs[x].state,
         next \notin Pending,
         setup[s] \notin Pending => (alive'[s] => alive[s]),
         dialogs'[s].state = "Terminated" /\ next # "abandoned" => ~ alive'[s]
  PROVE  EndInv'
<1>1. \A x \in Stream : setup'[x] = IF x = s THEN next ELSE setup[x]
  BY DEF EndInv, TypeOK
<1>2. PendingHasNoDialog' /\ TerminatedMeansEnded'
  BY <1>1 DEF EndInv, PendingHasNoDialog, TerminatedMeansEnded
<1>3. RequestsFollowAnswer'
  <2> SUFFICES ASSUME NEW r \in reqs', r.pc # "reserve"
               PROVE  /\ setup'[r.sid] \notin Pending
                      /\ r.pc = "persist" => r.method = "Bye" /\ ~ alive'[r.sid]
    BY DEF RequestsFollowAnswer
  <2>1. r \in reqs /\ r.sid \in Stream
    BY DEF EndInv, TypeOK, Request
  <2> QED
    BY <1>1, <2>1 DEF EndInv, RequestsFollowAnswer
<1>4. PeerByesFollowAnswer'
  <2> SUFFICES ASSUME NEW p \in peerByes
               PROVE  setup'[p.sid] \notin Pending /\ ~ alive'[p.sid]
    BY DEF PeerByesFollowAnswer
  <2>1. p.sid \in Stream
    BY DEF EndInv, TypeOK, PeerBye
  <2> QED
    BY <1>1, <2>1 DEF EndInv, PeerByesFollowAnswer
<1> QED
  BY <1>2, <1>3, <1>4 DEF EndInv

LEMMA InvitingTerminal ==
  ASSUME EndInv, NEW s \in Stream, NEW next, mark_inviting_terminal(s, next)
  PROVE  /\ \A x \in Stream \ {s} : dialogs'[x].state = dialogs[x].state
         /\ dialogs'[s].state \in {dialogs[s].state, next}
BY TransitionState DEF mark_inviting_terminal, EndInv, TypeOK

LEMMA SetupEnd ==
  ASSUME EndInv, SetupNext
  PROVE  EndInv'
<1>t. TypeOK /\ TypeOK'
  BY SetupType DEF EndInv
<1>e. \A s \in Stream : /\ setup[s] \in Pending => ~ alive[s]
                        /\ setup[s] # "abandoned" =>
                             (dialogs[s].state = "Terminated" => ~ alive[s])
  BY DEF EndInv, PendingHasNoDialog, TerminatedMeansEnded
<1>1. ASSUME NEW s \in Stream, Invite(s) PROVE EndInv'
  <2>1. \A x \in Stream : setup'[x] = IF x = s THEN "inviting" ELSE setup[x]
    BY <1>1, <1>t DEF Invite, TypeOK
  <2>2. \A x \in Stream : dialogs'[x].state = IF x = s THEN "Inviting" ELSE dialogs[x].state
    BY <1>1, <1>t DEF Invite, insert_inviting, TypeOK, Table
  <2>3. UNCHANGED <<alive, reqs, peerByes>> /\ setup[s] = "none"
    BY <1>1 DEF Invite
  <2>4. PendingHasNoDialog' /\ TerminatedMeansEnded'
    BY <2>1, <2>2, <2>3 DEF EndInv, PendingHasNoDialog, TerminatedMeansEnded, Pending
  <2>5. RequestsFollowAnswer' /\ PeerByesFollowAnswer'
    BY <1>t, <2>1, <2>3
       DEF EndInv, RequestsFollowAnswer, PeerByesFollowAnswer, Pending, TypeOK, Request, PeerBye
  <2> QED
    BY <1>t, <2>4, <2>5 DEF EndInv
<1>2. ASSUME NEW s \in Stream, DeviceAccepts(s) PROVE EndInv'
  <2> DEFINE next == CASE setup[s] = "inviting" -> "answered"
                       [] setup[s] = "timedout" -> "failed"
                       [] setup[s] = "aborted"  -> "abandoned"
  <2>1. setup' = [setup EXCEPT ![s] = next]
    BY <1>2 DEF DeviceAccepts
  <2>2. next \notin Pending /\ (setup[s] # "aborted" => dialogs[s].state # "Terminated")
             /\ (setup[s] = "aborted" => next = "abandoned")
    BY <1>2 DEF DeviceAccepts, EndInv, PendingHasNoDialog, Pending
  <2>3. \A x \in Stream \ {s} : alive'[x] = alive[x]
    BY <1>2, <1>t DEF DeviceAccepts, TypeOK
  <2>4. UNCHANGED <<dialogs, reqs, peerByes>> /\ setup[s] \in Pending
    BY <1>2 DEF DeviceAccepts, Pending
  <2> HIDE DEF next
  <2> QED
    BY <1>t, <2>1, <2>2, <2>3, <2>4, SetupStep
<1>3. ASSUME NEW s \in Stream, complete_native_invite(s) PROVE EndInv'
  <2>1. PICK next \in {"accepted", "rollback"} : setup' = [setup EXCEPT ![s] = next]
    BY <1>3 DEF complete_native_invite
  <2>2. next \notin Pending /\ setup[s] = "answered" /\ UNCHANGED <<dialogs, alive, reqs, peerByes>>
    BY <1>3 DEF complete_native_invite, closeVars, Pending
  <2> QED
    BY <1>t, <1>e, <2>1, <2>2, SetupStep
<1>4. ASSUME NEW s \in Stream, InviteRejected(s) PROVE EndInv'
  <2>1. /\ setup' = [setup EXCEPT ![s] = "failed"] /\ mark_inviting_terminal(s, "Terminated")
        /\ UNCHANGED <<alive, reqs, peerByes>> /\ setup[s] \in Pending
    BY <1>4 DEF InviteRejected, Pending
  <2>2. "failed" \notin Pending
    BY DEF Pending
  <2> QED
    BY <1>t, <1>e, <2>1, <2>2, InvitingTerminal, SetupStep
<1>5. ASSUME NEW s \in Stream, InviteTimeout(s) PROVE EndInv'
  <2>1. /\ mark_inviting_terminal(s, "Orphan") /\ UNCHANGED <<alive, reqs, peerByes>>
        /\ setup[s] \in {"inviting", "answered"}
    BY <1>5 DEF InviteTimeout
  <2>2. /\ \A x \in Stream \ {s} : dialogs'[x].state = dialogs[x].state
        /\ dialogs'[s].state \in {dialogs[s].state, "Orphan"}
    BY <2>1, InvitingTerminal
  <2>3. CASE setup[s] = "answered"
    <3>1. setup' = [setup EXCEPT ![s] = "failed"] /\ "failed" \notin Pending
      BY <1>5, <2>3 DEF InviteTimeout, Pending
    <3> QED
      BY <1>t, <1>e, <2>1, <2>2, <2>3, <3>1, SetupStep
  <2>4. CASE setup[s] = "inviting"
    <3>1. \A x \in Stream : setup'[x] = IF x = s THEN "timedout" ELSE setup[x]
      BY <1>5, <1>t, <2>4 DEF InviteTimeout, TypeOK
    <3>2. PendingHasNoDialog' /\ TerminatedMeansEnded'
      BY <2>1, <2>2, <2>4, <3>1 DEF EndInv, PendingHasNoDialog, TerminatedMeansEnded, Pending
    <3>3. RequestsFollowAnswer' /\ PeerByesFollowAnswer'
      BY <1>t, <2>1, <2>4, <3>1
         DEF EndInv, RequestsFollowAnswer, PeerByesFollowAnswer, Pending, TypeOK, Request, PeerBye
    <3> QED
      BY <1>t, <3>2, <3>3 DEF EndInv
  <2> QED
    BY <2>1, <2>3, <2>4
<1>6. ASSUME NEW s \in Stream, MarkEstablished(s) PROVE EndInv'
  <2>1. PICK next \in {"established", "rollback"} : setup' = [setup EXCEPT ![s] = next]
    BY <1>6 DEF MarkEstablished
  <2>2. next \notin Pending /\ setup[s] = "accepted" /\ UNCHANGED <<alive, reqs, peerByes>>
    BY <1>6 DEF MarkEstablished, Pending
  <2>3. /\ \A x \in Stream \ {s} : dialogs'[x].state = dialogs[x].state
        /\ dialogs'[s].state \in {dialogs[s].state, "Established"}
    BY <1>6, <1>t DEF MarkEstablished, cas_mark_established, TypeOK, Table
  <2> QED
    BY <1>t, <1>e, <2>1, <2>2, <2>3, SetupStep
<1>7. ASSUME NEW s \in Stream, MarkEstablishedFails(s) PROVE EndInv'
  <2>1. /\ setup' = [setup EXCEPT ![s] = "rollback"] /\ "rollback" \notin Pending
        /\ setup[s] = "accepted" /\ UNCHANGED <<dialogs, alive, reqs, peerByes>>
    BY <1>7 DEF MarkEstablishedFails, closeVars, Pending
  <2> QED
    BY <1>t, <1>e, <2>1, SetupStep
<1>8. ASSUME NEW s \in Stream, RollbackEnds(s) PROVE EndInv'
  <2>1. /\ setup' = [setup EXCEPT ![s] = "failed"] /\ mark_inviting_terminal(s, "Terminated")
        /\ UNCHANGED <<reqs, peerByes>> /\ "failed" \notin Pending
    BY <1>8 DEF RollbackEnds, Pending
  <2>2. \A x \in Stream : alive'[x] = IF x = s THEN FALSE ELSE alive[x]
    BY <1>8, <1>t DEF RollbackEnds, TypeOK
  <2> QED
    BY <1>t, <2>1, <2>2, InvitingTerminal, SetupStep
<1>9. ASSUME NEW s \in Stream, RollbackFails(s) PROVE EndInv'
  <2>1. /\ setup' = [setup EXCEPT ![s] = "failed"] /\ mark_inviting_terminal(s, "Orphan")
        /\ UNCHANGED <<reqs, peerByes>> /\ "failed" \notin Pending /\ setup[s] = "rollback"
    BY <1>9 DEF RollbackFails, Pending
  <2>2. (\A x \in Stream \ {s} : alive'[x] = alive[x]) /\ (alive'[s] => alive[s])
    BY <1>9, <1>t DEF RollbackFails, TypeOK
  <2>3. dialogs'[s].state = "Terminated" => ~ alive'[s]
    BY <1>e, <2>1, <2>2, InvitingTerminal
  <2> QED
    BY <1>t, <2>1, <2>2, <2>3, InvitingTerminal, SetupStep
<1>10. ASSUME NEW s \in Stream, InsertStream(s) \/ SetupFails(s) PROVE EndInv'
  <2>1. PICK next \in {"done", "failed"} : setup' = [setup EXCEPT ![s] = next]
    BY <1>10 DEF InsertStream, SetupFails
  <2>2. next \notin Pending /\ setup[s] = "established" /\ UNCHANGED <<dialogs, alive, peerByes>>
    BY <1>10 DEF InsertStream, SetupFails, Pending
  <2>3. \A r \in reqs' : r \in reqs \/ r.pc = "reserve"
    <3>1. CASE InsertStream(s)
      BY <3>1 DEF InsertStream
    <3>2. CASE SetupFails(s)
      BY <3>2 DEF SetupFails
    <3> QED
      BY <1>10, <3>1, <3>2
  <2> QED
    BY <1>t, <1>e, <2>1, <2>2, <2>3, SetupStep
<1> QED
  BY <1>1, <1>2, <1>3, <1>4, <1>5, <1>6, <1>7, <1>8, <1>9, <1>10 DEF SetupNext

\* A crash ends every task and sends no pending set-up past its answer.
LEMMA InterruptedPending ==
  ASSUME NEW p \in Setup
  PROVE  /\ Interrupted(p) \in Pending => p \in Pending
         /\ Interrupted(p) = "aborted" <=> p = "aborted"
         /\ Interrupted(p) = "abandoned" <=> p = "abandoned"
BY DEF Interrupted, Pending, Setup

LEMMA RecoveryEnd ==
  ASSUME EndInv, RecoveryNext
  PROVE  EndInv'
<1>t. TypeOK /\ TypeOK'
  BY RecoveryType DEF EndInv
<1>o. ASSUME NEW r \in recovering, dialogs' = mark_orphan(r)
      PROVE  \A x \in Stream : dialogs'[x].state \in {dialogs[x].state, "Orphan"}
  BY <1>t, <1>o, TransitionState DEF mark_orphan, TypeOK, Recovery
<1>1. ASSUME NEW s \in Stream, PageOwned(s) \/ stream_unknown(s) PROVE EndInv'
  BY <1>1, <1>t, QuietStep DEF PageOwned, stream_unknown, closeVars
<1>2. ASSUME NEW s \in Stream, Shutdown(s) PROVE EndInv'
  <2>1. \A x \in Stream : dialogs'[x].state \in {dialogs[x].state} \cup
                                  (IF x = s THEN {"Terminated"} ELSE {})
    BY <1>2, <1>t, TransitionState DEF Shutdown, TypeOK
  <2>2. /\ alive' = alive /\ reqs' = {} /\ peerByes' = {}
        /\ setup[s] \in {"inviting", "answered"}
    BY <1>2 DEF Shutdown, LoseMemory
  <2>3. setup'[s] = IF setup[s] = "inviting" THEN "aborted" ELSE "abandoned"
    BY <1>2, <2>2 DEF Shutdown
  <2>4. \A x \in Stream \ {s} : setup'[x] = Interrupted(setup[x])
    BY <1>2 DEF Shutdown
  <2>5. \A x \in Stream : setup[x] \in Setup
    BY <1>t DEF TypeOK
  <2>6. PendingHasNoDialog'
    <3> SUFFICES ASSUME NEW x \in Stream, setup'[x] \in Pending
                 PROVE  /\ ~ alive[x]
                        /\ dialogs'[x].state \notin {"Established", "Terminating"}
                        /\ setup'[x] # "aborted" => dialogs'[x].state # "Terminated"
      BY <2>2 DEF PendingHasNoDialog
    <3>1. CASE x = s
      BY <3>1, <2>1, <2>2, <2>3 DEF EndInv, PendingHasNoDialog, Pending
    <3>2. CASE x # s
      BY <3>2, <2>1, <2>4, <2>5, InterruptedPending DEF EndInv, PendingHasNoDialog
    <3> QED
      BY <3>1, <3>2
  <2>7. TerminatedMeansEnded'
    <3> SUFFICES ASSUME NEW x \in Stream, dialogs'[x].state = "Terminated",
                        setup'[x] # "abandoned"
                 PROVE  ~ alive[x]
      BY <2>2 DEF TerminatedMeansEnded
    <3>1. CASE x = s
      BY <3>1, <2>2, <2>3 DEF EndInv, PendingHasNoDialog, Pending
    <3>2. CASE x # s
      BY <3>2, <2>1, <2>4, <2>5, InterruptedPending DEF EndInv, TerminatedMeansEnded
    <3> QED
      BY <3>1, <3>2
  <2>8. RequestsFollowAnswer' /\ PeerByesFollowAnswer'
    BY <2>2 DEF RequestsFollowAnswer, PeerByesFollowAnswer
  <2> QED
    BY <1>t, <2>6, <2>7, <2>8 DEF EndInv
<1>3. ASSUME Crash PROVE EndInv'
  <2>1. /\ alive' = alive /\ reqs' = {} /\ peerByes' = {} /\ dialogs' = dialogs
    BY <1>3 DEF Crash, LoseMemory
  <2>2. \A x \in Stream : setup'[x] = Interrupted(setup[x]) /\ setup[x] \in Setup
    BY <1>3, <1>t DEF Crash, TypeOK
  <2>3. PendingHasNoDialog' /\ TerminatedMeansEnded'
    BY <2>1, <2>2, InterruptedPending DEF EndInv, PendingHasNoDialog, TerminatedMeansEnded
  <2>4. RequestsFollowAnswer' /\ PeerByesFollowAnswer'
    BY <2>1 DEF RequestsFollowAnswer, PeerByesFollowAnswer
  <2> QED
    BY <1>t, <2>3, <2>4 DEF EndInv
<1>4. ASSUME NEW r \in recovering, RecoverOrphan(r) PROVE EndInv'
  BY <1>4, <1>t, <1>o, QuietStep DEF RecoverOrphan
<1>5. ASSUME NEW r \in recovering, RecoverFails(r) PROVE EndInv'
  <2>1. r.sid \in Stream /\ dialogs \in Table
    BY <1>t DEF TypeOK, Recovery
  <2>2. \/ dialogs' = dialogs \/ dialogs' = mark_orphan(r)
        \/ dialogs' = cas_transition(dialogs, r.sid, r.ver, "Established", "Terminating")
    BY <1>5 DEF RecoverFails
  <2>3. \A x \in Stream : \/ dialogs'[x].state \in {dialogs[x].state, "Orphan"}
                          \/ dialogs[x].state = "Established" /\ dialogs'[x].state = "Terminating"
    BY <2>1, <2>2, <1>o, TransitionState
  <2> QED
    BY <1>5, <1>t, <2>3, QuietStep DEF RecoverFails
<1>6. ASSUME NEW r \in recovering, RecoverOnline(r) PROVE EndInv'
  <2>1. dialogs' = dialogs \/ dialogs' = mark_orphan(r)
    BY <1>6, Zenon DEF RecoverOnline
  <2>2. \A x \in Stream : dialogs'[x].state \in {dialogs[x].state, "Orphan"}
    BY <2>1, <1>o
  <2> QED
    BY <1>6, <1>t, <2>2, QuietStep DEF RecoverOnline
<1>7. ASSUME NEW r \in recovering, RecoverOffline(r) PROVE EndInv'
  <2>1. r.sid \in Stream /\ dialogs \in Table
    BY <1>t DEF TypeOK, Recovery
  <2>2. \/ dialogs' = dialogs
        \/ dialogs' = cas_transition(dialogs, r.sid, r.ver, "Established", "Terminating")
    BY <1>7 DEF RecoverOffline
  <2>3. \A x \in Stream : \/ dialogs'[x].state = dialogs[x].state
                          \/ dialogs[x].state = "Established" /\ dialogs'[x].state = "Terminating"
    BY <2>1, <2>2, TransitionState
  <2> QED
    BY <1>7, <1>t, <2>3, QuietStep DEF RecoverOffline
<1>8. ASSUME NEW r \in recovering, RecoverBegin(r) PROVE EndInv'
  BY <1>8, <1>t, QuietStep DEF RecoverBegin
<1> QED
  BY <1>1, <1>2, <1>3, <1>4, <1>5, <1>6, <1>7, <1>8 DEF RecoveryNext

\* EndInv is an invariant; it is what TerminatedCorrect rests on.
THEOREM EndInvariant == Spec => []EndInv
<1>1. EndInv /\ [Next]_vars => EndInv'
  <2>1. ASSUME EndInv, UNCHANGED vars PROVE EndInv'
    BY <2>1 DEF vars, EndInv, TypeOK, PendingHasNoDialog, RequestsFollowAnswer,
                PeerByesFollowAnswer, TerminatedMeansEnded
  <2> QED
    BY <2>1, CloseEnd, SetupEnd, RecoveryEnd DEF Next
<1> QED
  BY <1>1, InitEnd, PTL DEF Spec

\* A row the code has written TERMINATED belongs to a dialog the device has
\* left, for any number of streams, requests, crashes and recoveries, and
\* whatever answers, writes or BYEs are lost (invite_play_and_wait,
\* rollback_established_invite, invite_stop_by_device,
\* persist_peer_dialog_terminated, recover_dialog).
THEOREM TerminatedCorrect == Spec => []TerminatedMeansEnded
<1>1. EndInv => TerminatedMeansEnded
  BY DEF EndInv
<1> QED
  BY <1>1, EndInvariant, PTL

-----------------------------------------------------------------------------
(***************************************************************************)
(* Closing a stream: at most one BYE is under way and inflight_seq says    *)
(* which; and a close that was not restored always has a deadline.         *)
(***************************************************************************)
FreshInv == GenerationsAreFresh /\ InflightHasTask

(***************************************************************************)
(* FreshInv, for each way in which a step treats streams and requests.     *)
(***************************************************************************)
\* Streams keep their close, leave the table, or start to play; requests stay
\* or are joined by ones of generation 0.
LEMMA StreamsOnly ==
  ASSUME TypeOK, FreshInv, TypeOK', nextGen' = nextGen,
         reqs \subseteq reqs',
         \A r \in reqs' : r \in reqs \/ r.gen = 0,
         \A s \in Stream : streams'[s] = streams[s] \/ streams'[s].life # "Closing"
  PROVE  FreshInv'
<1>1. GenerationsAreFresh'
  BY DEF FreshInv, GenerationsAreFresh, TypeOK
<1>2. InflightHasTask'
  <2> SUFFICES ASSUME NEW s \in Stream, streams'[s].life = "Closing"
               PROVE  /\ \A r1, r2 \in ByeTasks(s)' : r1 = r2
                      /\ \A r \in ByeTasks(s)' : r.seq = streams'[s].inflight /\ r.seq # 0
                      /\ streams'[s].inflight # 0 => ByeTasks(s)' # {}
    BY DEF InflightHasTask
  <2>1. streams'[s] = streams[s] /\ streams[s].gen # 0
    BY DEF FreshInv, GenerationsAreFresh, TypeOK
  <2>2. ByeTasks(s)' = ByeTasks(s)
    BY <2>1 DEF ByeTasks, is_closing_generation
  <2> QED
    BY <2>1, <2>2 DEF FreshInv, InflightHasTask
<1> QED
  BY <1>1, <1>2 DEF FreshInv

\* A request goes on: the same request with another pc.
LEMMA RequestGoesOn ==
  ASSUME TypeOK, FreshInv, TypeOK', UNCHANGED <<streams, nextGen>>, NEW r \in reqs, NEW q,
         reqs' = (reqs \ {r}) \cup {q},
         q.sid = r.sid, q.method = r.method, q.gen = r.gen, q.seq = r.seq
  PROVE  FreshInv'
<1>1. GenerationsAreFresh'
  BY DEF FreshInv, GenerationsAreFresh
<1>2. InflightHasTask'
  <2> SUFFICES ASSUME NEW s \in Stream, streams[s].life = "Closing"
               PROVE  /\ \A r1, r2 \in ByeTasks(s)' : r1 = r2
                      /\ \A x \in ByeTasks(s)' : x.seq = streams[s].inflight /\ x.seq # 0
                      /\ streams[s].inflight # 0 => ByeTasks(s)' # {}
    BY DEF InflightHasTask
  <2>1. CASE r \in ByeTasks(s)
    <3>1. ByeTasks(s) = {r}
      BY <2>1 DEF FreshInv, InflightHasTask
    <3>2. ByeTasks(s)' = {q}
      BY <2>1, <3>1 DEF ByeTasks, is_closing_generation
    <3> QED
      BY <2>1, <3>2 DEF FreshInv, InflightHasTask
  <2>2. CASE r \notin ByeTasks(s)
    <3>1. ByeTasks(s)' = ByeTasks(s)
      BY <2>2 DEF ByeTasks, is_closing_generation
    <3> QED
      BY <3>1 DEF FreshInv, InflightHasTask
  <2> QED
    BY <2>1, <2>2
<1> QED
  BY <1>1, <1>2 DEF FreshInv

\* A request ends, and the attempt it was for is marked failed or its stream
\* leaves the table.
LEMMA RequestEnds ==
  ASSUME TypeOK, FreshInv, TypeOK', nextGen' = nextGen, NEW r \in reqs, reqs' = reqs \ {r},
         \/ streams' = mark_bye_failed(streams, r.sid, r.gen, r.seq)
         \/ streams' = IF is_closing_generation(streams, r.sid, r.gen)
                       THEN [streams EXCEPT ![r.sid] = NoStream] ELSE streams
  PROVE  FreshInv'
<1>s. r.sid \in Stream /\ streams \in [Stream -> StreamTable]
  BY DEF TypeOK, Request
<1>0. ASSUME NEW s \in Stream, streams'[s].life = "Closing"
      PROVE  /\ streams[s].life = "Closing" /\ streams'[s].gen = streams[s].gen
             /\ \/ streams'[s].inflight = streams[s].inflight /\ r \notin ByeTasks(s)
                \/ streams'[s].inflight = 0 /\ r \in ByeTasks(s)
                \/ streams'[s].inflight = 0 /\ r \notin ByeTasks(s)
                   /\ streams[s].inflight = r.seq /\ r.sid = s /\ r.gen = streams[s].gen
  <2>1. CASE streams' = mark_bye_failed(streams, r.sid, r.gen, r.seq)
    <3>1. CASE r \in ByeTasks(s)
      <4>1. r.seq = streams[s].inflight /\ r.sid = s /\ is_closing_generation(streams, s, r.gen)
        BY <3>1 DEF FreshInv, InflightHasTask, ByeTasks, is_closing_generation
      <4> QED
        BY <1>0, <1>s, <2>1, <3>1, <4>1 DEF mark_bye_failed, is_closing_generation
    <3>2. CASE r \notin ByeTasks(s)
      BY <1>0, <1>s, <2>1, <3>2 DEF mark_bye_failed, is_closing_generation
    <3> QED
      BY <3>1, <3>2
  <2>2. CASE streams' = IF is_closing_generation(streams, r.sid, r.gen)
                        THEN [streams EXCEPT ![r.sid] = NoStream] ELSE streams
    BY <1>0, <1>s, <2>2 DEF is_closing_generation, NoStream, ByeTasks
  <2> QED
    BY <2>1, <2>2
<1>1. GenerationsAreFresh'
  BY <1>0 DEF FreshInv, GenerationsAreFresh
<1>2. InflightHasTask'
  <2> SUFFICES ASSUME NEW s \in Stream, streams'[s].life = "Closing"
               PROVE  /\ \A r1, r2 \in ByeTasks(s)' : r1 = r2
                      /\ \A x \in ByeTasks(s)' : x.seq = streams'[s].inflight /\ x.seq # 0
                      /\ streams'[s].inflight # 0 => ByeTasks(s)' # {}
    BY DEF InflightHasTask
  <2>1. ByeTasks(s)' = ByeTasks(s) \ {r}
    BY <1>0 DEF ByeTasks, is_closing_generation
  <2>2. r.method = "Bye" \/ r.gen = 0
    BY DEF FreshInv, GenerationsAreFresh, TypeOK, Request
  <2>3. streams[s].gen # 0 /\ streams[s].life = "Closing"
    BY <1>0 DEF FreshInv, GenerationsAreFresh
  <2>4. CASE r \in ByeTasks(s)
    BY <1>0, <2>1, <2>4 DEF FreshInv, InflightHasTask
  <2>5. CASE r \notin ByeTasks(s)
    <3>1. streams'[s].inflight = streams[s].inflight
      BY <1>0, <2>2, <2>3, <2>5 DEF ByeTasks, is_closing_generation
    <3> QED
      BY <2>1, <2>3, <2>5, <3>1 DEF FreshInv, InflightHasTask
  <2> QED
    BY <2>4, <2>5
<1> QED
  BY <1>1, <1>2 DEF FreshInv

\* BYEs are taken for some closing streams.
LEMMA ByesTaken ==
  ASSUME TypeOK, FreshInv, TypeOK', nextGen' = nextGen, NEW S \in SUBSET Stream,
         streams' = take_bye(streams, S), reqs' = reqs \cup send_bye(streams, S)
  PROVE  FreshInv'
<1>0. ASSUME NEW s \in Stream
      PROVE  /\ streams'[s].life = streams[s].life
             /\ streams'[s].gen = streams[s].gen
             /\ streams'[s].inflight = IF s \in can_take_bye(streams, S)
                                       THEN saturating_inc(streams[s].seq)
                                       ELSE streams[s].inflight
             /\ saturating_inc(streams[s].seq) # 0
  <2>1. streams[s] \in StreamTable
    BY DEF TypeOK
  <2>2. saturating_inc(streams[s].seq) # 0
    BY <2>1, CloseAssumption DEF saturating_inc, StreamTable
  <2>3. s \in can_take_bye(streams, S) => streams[s].life = "Closing"
    BY DEF can_take_bye
  <2> QED
    BY <2>1, <2>2, <2>3 DEF take_bye, StreamTable
<1>1. GenerationsAreFresh'
  <2>1. \A r \in send_bye(streams, S) : r.gen \in 0 .. nextGen - 1 /\ r.method = "Bye"
    BY DEF send_bye, can_take_bye, FreshInv, GenerationsAreFresh, TypeOK
  <2> QED
    BY <1>0, <2>1 DEF FreshInv, GenerationsAreFresh
<1>2. InflightHasTask'
  <2> SUFFICES ASSUME NEW s \in Stream, streams'[s].life = "Closing"
               PROVE  /\ \A r1, r2 \in ByeTasks(s)' : r1 = r2
                      /\ \A x \in ByeTasks(s)' : x.seq = streams'[s].inflight /\ x.seq # 0
                      /\ streams'[s].inflight # 0 => ByeTasks(s)' # {}
    BY DEF InflightHasTask
  <2> DEFINE q == [sid |-> s, method |-> "Bye", gen |-> streams[s].gen,
                   seq |-> saturating_inc(streams[s].seq), pc |-> "reserve", ver |-> 0,
                   own |-> 0, cseq |-> 0]
  <2>1. CASE s \in can_take_bye(streams, S)
    <3>1. ByeTasks(s) = {}
      BY <2>1 DEF can_take_bye, FreshInv, InflightHasTask
    <3>2. q \in send_bye(streams, S) /\ \A r \in send_bye(streams, S) : r.sid = s => r = q
      BY <2>1 DEF send_bye
    <3>3. ByeTasks(s)' = {q}
      BY <1>0, <3>1, <3>2 DEF ByeTasks, is_closing_generation
    <3> QED
      BY <1>0, <2>1, <3>3
  <2>2. CASE s \notin can_take_bye(streams, S)
    <3>1. \A r \in send_bye(streams, S) : r.sid # s
      BY <2>2 DEF send_bye
    <3>2. ByeTasks(s)' = ByeTasks(s)
      BY <1>0, <3>1 DEF ByeTasks, is_closing_generation
    <3> QED
      BY <1>0, <2>2, <3>2 DEF FreshInv, InflightHasTask
  <2> QED
    BY <2>1, <2>2
<1> QED
  BY <1>1, <1>2 DEF FreshInv

\* A close begins with a generation no request carries.
LEMMA CloseBegins ==
  ASSUME TypeOK, FreshInv, TypeOK', NEW s \in Stream, stream_close_begin(s), UNCHANGED reqs
  PROVE  FreshInv'
<1>1. CASE streams[s].life = "Absent"
  BY <1>1, StreamsOnly DEF stream_close_begin
<1>2. CASE streams[s].life # "Absent"
  <2>1. nextGen' = nextGen + 1 /\ nextGen \in Nat \ {0}
    BY <1>2 DEF stream_close_begin, TypeOK
  <2>2. \A x \in Stream : \/ streams'[x] = streams[x]
                          \/ streams'[x].gen = nextGen /\ streams'[x].inflight = 0
    BY <1>2 DEF stream_close_begin, begin_close, TypeOK
  <2>3. GenerationsAreFresh'
    BY <2>1, <2>2 DEF FreshInv, GenerationsAreFresh, TypeOK
  <2>4. InflightHasTask'
    <3> SUFFICES ASSUME NEW x \in Stream, streams'[x].life = "Closing"
                 PROVE  /\ \A r1, r2 \in ByeTasks(x)' : r1 = r2
                        /\ \A r \in ByeTasks(x)' : r.seq = streams'[x].inflight /\ r.seq # 0
                        /\ streams'[x].inflight # 0 => ByeTasks(x)' # {}
      BY DEF InflightHasTask
    <3>1. CASE streams'[x] = streams[x]
      <4>1. ByeTasks(x)' = ByeTasks(x)
        BY <3>1 DEF ByeTasks, is_closing_generation
      <4> QED
        BY <3>1, <4>1 DEF FreshInv, InflightHasTask
    <3>2. CASE streams'[x].gen = nextGen /\ streams'[x].inflight = 0
      <4>1. \A r \in reqs : r.gen # nextGen
        BY <2>1 DEF FreshInv, GenerationsAreFresh
      <4>2. ByeTasks(x)' = {}
        BY <3>2, <4>1 DEF ByeTasks, is_closing_generation
      <4> QED
        BY <3>2, <4>2
    <3> QED
      BY <2>2, <3>1, <3>2
  <2> QED
    BY <2>3, <2>4 DEF FreshInv
<1> QED
  BY <1>1, <1>2

-----------------------------------------------------------------------------
(***************************************************************************)
(* ClosingIsCovered, for each way in which a step treats the deadlines.    *)
(***************************************************************************)
Covered(s) ==
  \/ [sid |-> s, gen |-> streams[s].gen] \in timers
  \/ [sid |-> s, gen |-> streams[s].gen, pc |-> "session"] \in closing

\* A stream that goes on with its close keeps what covers it.
LEMMA CoverKept ==
  ASSUME ClosingIsCovered,
         \A s \in Stream : streams'[s].life = "Closing" /\ ~ streams'[s].restored =>
           /\ streams[s].life = "Closing" /\ ~ streams[s].restored
           /\ streams'[s].gen = streams[s].gen
           /\ Covered(s) => Covered(s)'
  PROVE  ClosingIsCovered'
BY DEF ClosingIsCovered, Covered

\* The usual case: no deadline and no begin call goes, streams are only
\* dropped, inserted, or change what is not part of their close.
LEMMA CoverUntouched ==
  ASSUME ClosingIsCovered, timers \subseteq timers', closing \subseteq closing',
         \A s \in Stream : streams'[s].life = "Closing" =>
           /\ streams[s].life = "Closing" /\ streams'[s].restored = streams[s].restored
           /\ streams'[s].gen = streams[s].gen
  PROVE  ClosingIsCovered'
BY CoverKept DEF Covered

\* stream_close_remove, in a step that keeps the begin calls.
LEMMA CoverRemoved ==
  ASSUME TypeOK, ClosingIsCovered, NEW s \in Stream, NEW g, stream_close_remove(s, g),
         closing \subseteq closing'
  PROVE  ClosingIsCovered'
<1>1. CASE is_closing_generation(streams, s, g)
  <2>1. \A x \in Stream : streams'[x] = IF x = s THEN NoStream ELSE streams[x]
    BY <1>1 DEF stream_close_remove, TypeOK
  <2>2. \A x \in Stream \ {s} : Covered(x) => Covered(x)'
    BY <1>1, <2>1 DEF stream_close_remove, Covered
  <2> QED
    BY <2>1, <2>2, CoverKept DEF NoStream
<1>2. CASE ~ is_closing_generation(streams, s, g)
  BY <1>2, CoverUntouched DEF stream_close_remove
<1> QED
  BY <1>1, <1>2

LEMMA CoverBegun ==
  ASSUME TypeOK, ClosingIsCovered, NEW s \in Stream, stream_close_begin(s), UNCHANGED timers
  PROVE  ClosingIsCovered'
<1>1. CASE streams[s].life # "Playing"
  <2>1. UNCHANGED <<streams, closing>>
    BY <1>1 DEF stream_close_begin, begin_close
  <2> QED
    BY <2>1, CoverUntouched
<1>2. CASE streams[s].life = "Playing"
  <2>1. /\ closing' = closing \cup {[sid |-> s, gen |-> nextGen, pc |-> "session"]}
        /\ \A x \in Stream \ {s} : streams'[x] = streams[x]
        /\ streams'[s].gen = nextGen
    BY <1>2 DEF stream_close_begin, begin_close, TypeOK
  <2> QED
    BY <2>1 DEF ClosingIsCovered
<1> QED
  BY <1>1, <1>2

LEMMA TakeByeKeepsClose ==
  ASSUME TypeOK, NEW S, streams' = take_bye(streams, S), NEW s \in Stream
  PROVE  /\ streams'[s].life = streams[s].life /\ streams'[s].restored = streams[s].restored
         /\ streams'[s].gen = streams[s].gen
<1>1. s \in can_take_bye(streams, S) => streams[s].life = "Closing"
  BY DEF can_take_bye
<1> QED
  BY <1>1 DEF take_bye

LEMMA MarkFailedKeepsClose ==
  ASSUME TypeOK, NEW z \in Stream, NEW g, NEW q, streams' = mark_bye_failed(streams, z, g, q),
         NEW s \in Stream
  PROVE  /\ streams'[s].life = streams[s].life /\ streams'[s].restored = streams[s].restored
         /\ streams'[s].gen = streams[s].gen
BY DEF mark_bye_failed, is_closing_generation, TypeOK

LEMMA CloseCovered ==
  ASSUME TypeOK, ClosingIsCovered, CloseNext
  PROVE  ClosingIsCovered'
<1>1. ASSUME NEW s \in Stream, Begin(s) PROVE ClosingIsCovered'
  BY <1>1, CoverBegun DEF Begin
<1>2. ASSUME NEW s \in Stream, MarkOrphan(s) \/ StartInfo(s) \/ Touch(s) \/ PeerHangsUp(s)
      PROVE ClosingIsCovered'
  BY <1>2, CoverUntouched DEF MarkOrphan, StartInfo, Touch, PeerHangsUp
<1>3. ASSUME NEW c \in closing, BeginWaits(c) PROVE ClosingIsCovered'
  BY <1>3, CoverKept DEF BeginWaits, Covered, stream_is_restored, TypeOK, CloseCall
<1>4. ASSUME NEW c \in closing, BeginForces(c) PROVE ClosingIsCovered'
  <2>1. c.sid \in Stream /\ c.pc = "session" /\ stream_close_remove(c.sid, c.gen)
    BY <1>4 DEF BeginForces, force_cleanup, TypeOK, CloseCall
  <2>2. c = [sid |-> c.sid, gen |-> c.gen, pc |-> "session"]
    BY <2>1 DEF TypeOK, CloseCall
  <2>3. closing' = closing \ {c}
    BY <1>4 DEF BeginForces
  <2>4. \A x \in Stream : streams'[x].life = "Closing" =>
          streams'[x] = streams[x] /\ ~ (x = c.sid /\ streams[x].gen = c.gen)
    BY <2>1 DEF stream_close_remove, is_closing_generation, NoStream, TypeOK
  <2>5. \A x \in Stream : streams'[x].life = "Closing" => (Covered(x) => Covered(x)')
    <3> SUFFICES ASSUME NEW x \in Stream, streams'[x].life = "Closing", Covered(x)
                 PROVE  Covered(x)'
      OBVIOUS
    <3>1. streams'[x] = streams[x] /\ ~ (x = c.sid /\ streams[x].gen = c.gen)
      BY <2>4
    <3>2. CASE [sid |-> x, gen |-> streams[x].gen] \in timers
      BY <2>1, <3>1, <3>2 DEF Covered, stream_close_remove
    <3>3. CASE [sid |-> x, gen |-> streams[x].gen, pc |-> "session"] \in closing
      BY <2>2, <2>3, <3>1, <3>3 DEF Covered
    <3> QED
      BY <3>2, <3>3 DEF Covered
  <2> QED
    BY <2>4, <2>5, CoverKept
<1>5. ASSUME NEW c \in closing, BeginArms(c) PROVE ClosingIsCovered'
  <2>1. /\ UNCHANGED streams /\ timers' = timers \cup {[sid |-> c.sid, gen |-> c.gen]}
        /\ closing \ {c} \subseteq closing'
    BY <1>5 DEF BeginArms
  <2>2. \A x \in Stream : Covered(x) => Covered(x)'
    BY <2>1 DEF Covered
  <2> QED
    BY <2>1, <2>2, CoverKept
<1>6. ASSUME NEW c \in closing, BeginSendsBye(c) PROVE ClosingIsCovered'
  <2>1. /\ streams' = take_bye(streams, {c.sid}) /\ UNCHANGED timers
        /\ closing' = closing \ {c} /\ c.pc = "retry"
    BY <1>6 DEF BeginSendsBye
  <2>2. \A x \in Stream : Covered(x) => Covered(x)'
    BY <2>1, TakeByeKeepsClose DEF Covered
  <2> QED
    BY <2>1, <2>2, TakeByeKeepsClose, CoverKept
<1>7. ASSUME NEW t \in timers, TimerFires(t) PROVE ClosingIsCovered'
  <2>1. t.sid \in Stream /\ t = [sid |-> t.sid, gen |-> t.gen]
    BY DEF TypeOK, Timer
  <2>2. \A x \in Stream : streams'[x].life = "Closing" =>
          streams'[x] = streams[x] /\ ~ (x = t.sid /\ streams[x].gen = t.gen)
    BY <1>7, <2>1 DEF TimerFires, is_closing_generation, NoStream, TypeOK
  <2>3. \A x \in Stream : streams'[x].life = "Closing" => (Covered(x) => Covered(x)')
    BY <1>7, <2>1, <2>2 DEF TimerFires, Covered
  <2> QED
    BY <2>2, <2>3, CoverKept
<1>8. ASSUME NEW r \in reqs, \/ Reserve(r) \/ load_durable_dialog(r) \/ SendRestored(r)
                             \/ SendNative(r) \/ ByeAnswered(r) \/ InfoAnswered(r)
      PROVE ClosingIsCovered'
  BY <1>8, CoverUntouched DEF Reserve, load_durable_dialog, SendRestored, SendNative, ByeAnswered, InfoAnswered
<1>9. ASSUME NEW r \in reqs, Persist(r) PROVE ClosingIsCovered'
  <2>1. r.sid \in Stream
    BY DEF TypeOK, Request
  <2> QED
    BY <1>9, <2>1, CoverRemoved DEF Persist
<1>10. ASSUME NEW r \in reqs, RequestFails(r) PROVE ClosingIsCovered'
  <2>1. r.sid \in Stream
    BY DEF TypeOK, Request
  <2>2. streams' = mark_bye_failed(streams, r.sid, r.gen, r.seq) /\ UNCHANGED <<timers, closing>>
    BY <1>10 DEF RequestFails
  <2> QED
    BY <2>1, <2>2, MarkFailedKeepsClose, CoverUntouched
<1>11. ASSUME NEW p \in peerByes, PersistPeerBye(p) PROVE ClosingIsCovered'
  BY <1>11, CoverUntouched DEF PersistPeerBye
<1>12. ASSUME NEW p \in peerByes, stream_terminated_by_call_id(p) PROVE ClosingIsCovered'
  <2>1. p.sid \in Stream
    BY DEF TypeOK, PeerBye
  <2>2. \A x \in Stream : streams'[x] = IF x = p.sid THEN NoStream ELSE streams[x]
    BY <1>12, <2>1 DEF stream_terminated_by_call_id, TypeOK
  <2>3. \A x \in Stream \ {p.sid} : Covered(x) => Covered(x)'
    BY <1>12, <2>2 DEF stream_terminated_by_call_id, Covered
  <2> QED
    BY <2>2, <2>3, CoverKept DEF NoStream
<1>13. ASSUME DeviceOnline PROVE ClosingIsCovered'
  BY <1>13, TakeByeKeepsClose, CoverUntouched DEF DeviceOnline
<1>14. ASSUME DeviceDetached PROVE ClosingIsCovered'
  BY <1>14, CoverUntouched DEF DeviceDetached
<1>15. ASSUME DeviceReset PROVE ClosingIsCovered'
  BY <1>15 DEF DeviceReset, reset_device_state, ClosingIsCovered, NoStream
<1> QED
  BY <1>1, <1>2, <1>3, <1>4, <1>5, <1>6, <1>7, <1>8, <1>9, <1>10, <1>11, <1>12, <1>13,
     <1>14, <1>15 DEF CloseNext

LEMMA InsertKeepsClose ==
  ASSUME TypeOK, NEW z \in Stream, NEW n, NEW b, streams' = stream_map_insert(streams, z, n, b),
         NEW s \in Stream
  PROVE  streams'[s] = streams[s] \/ streams'[s].life = "Playing"
BY DEF stream_map_insert, TypeOK

LEMMA SetupCovered ==
  ASSUME TypeOK, ClosingIsCovered, SetupNext
  PROVE  ClosingIsCovered'
<1>1. ASSUME NEW s \in Stream, InsertStream(s) PROVE ClosingIsCovered'
  <2>1. \A x \in Stream : streams'[x] = streams[x] \/ streams'[x].life = "Playing"
    BY <1>1, InsertKeepsClose DEF InsertStream
  <2> QED
    BY <1>1, <2>1, CoverUntouched DEF InsertStream
<1>2. ASSUME UNCHANGED <<streams, timers, closing>> PROVE ClosingIsCovered'
  BY <1>2 DEF ClosingIsCovered
<1> QED
  BY <1>1, <1>2
     DEF SetupNext, Invite, DeviceAccepts, complete_native_invite, InviteRejected, InviteTimeout,
         MarkEstablished, MarkEstablishedFails, RollbackEnds, RollbackFails, SetupFails, closeVars

LEMMA RecoveryCovered ==
  ASSUME TypeOK, ClosingIsCovered, RecoveryNext
  PROVE  ClosingIsCovered'
<1>1. ASSUME LoseMemory PROVE ClosingIsCovered'
  BY <1>1 DEF LoseMemory, ClosingIsCovered, NoStream
<1>2. ASSUME NEW r \in recovering, RecoverOnline(r) \/ RecoverOffline(r) PROVE ClosingIsCovered'
  <2>1. \/ streams' = streams
        \/ streams' = stream_map_insert(streams, r.sid, r.cseq, TRUE)
    BY <1>2, Zenon DEF RecoverOnline, RecoverOffline
  <2>2. r.sid \in Stream
    BY DEF TypeOK, Recovery
  <2>3. \A x \in Stream : streams'[x] = streams[x] \/ streams'[x].life = "Playing"
    BY <2>1, <2>2, InsertKeepsClose
  <2>4. UNCHANGED <<timers, closing>>
    BY <1>2 DEF RecoverOnline, RecoverOffline
  <2> QED
    BY <2>3, <2>4, CoverUntouched
<1>3. ASSUME NEW r \in recovering, RecoverBegin(r) PROVE ClosingIsCovered'
  <2>1. r.sid \in Stream
    BY DEF TypeOK, Recovery
  <2> QED
    BY <1>3, <2>1, CoverBegun DEF RecoverBegin
<1>4. ASSUME UNCHANGED <<streams, timers, closing>> PROVE ClosingIsCovered'
  BY <1>4 DEF ClosingIsCovered
<1> QED
  BY <1>1, <1>2, <1>3, <1>4
     DEF RecoveryNext, PageOwned, stream_unknown, Shutdown, Crash, RecoverOrphan, RecoverFails,
         closeVars

-----------------------------------------------------------------------------
LEMMA CloseFresh ==
  ASSUME TypeOK, TypeOK', EndInv, FreshInv, CloseNext
  PROVE  FreshInv'
<1>1. ASSUME NEW s \in Stream, Begin(s) PROVE FreshInv'
  BY <1>1, CloseBegins DEF Begin
<1>2. ASSUME NEW s \in Stream, MarkOrphan(s) \/ Touch(s) \/ PeerHangsUp(s) PROVE FreshInv'
  BY <1>2, StreamsOnly DEF MarkOrphan, Touch, PeerHangsUp
<1>3. ASSUME NEW s \in Stream, StartInfo(s) PROVE FreshInv'
  BY <1>3, StreamsOnly DEF StartInfo
<1>4. ASSUME NEW c \in closing, BeginWaits(c) \/ BeginArms(c) PROVE FreshInv'
  BY <1>4, StreamsOnly DEF BeginWaits, BeginArms
<1>r. ASSUME NEW s \in Stream, NEW g, stream_close_remove(s, g), NEW x \in Stream
      PROVE  streams'[x] = streams[x] \/ streams'[x].life # "Closing"
  BY <1>r DEF stream_close_remove, NoStream, TypeOK
<1>5. ASSUME NEW c \in closing, BeginForces(c) PROVE FreshInv'
  <2>1. c.sid \in Stream
    BY DEF TypeOK, CloseCall
  <2>2. \A x \in Stream : streams'[x] = streams[x] \/ streams'[x].life # "Closing"
    BY <1>5, <1>r, <2>1 DEF BeginForces, force_cleanup
  <2> QED
    BY <1>5, <2>2, StreamsOnly DEF BeginForces
<1>6. ASSUME NEW c \in closing, BeginSendsBye(c) PROVE FreshInv'
  <2>1. {c.sid} \in SUBSET Stream
    BY DEF TypeOK, CloseCall
  <2> QED
    BY <1>6, <2>1, ByesTaken DEF BeginSendsBye
<1>7. ASSUME NEW t \in timers, TimerFires(t) PROVE FreshInv'
  <2>1. t.sid \in Stream
    BY DEF TypeOK, Timer
  <2>2. \A x \in Stream : streams'[x] = streams[x] \/ streams'[x].life # "Closing"
    BY <1>7, <2>1 DEF TimerFires, NoStream, TypeOK
  <2> QED
    BY <1>7, <2>2, StreamsOnly DEF TimerFires
<1>8. ASSUME NEW r \in reqs, Reserve(r) PROVE FreshInv'
  <2> DEFINE q == [sid |-> r.sid, method |-> r.method, gen |-> r.gen, seq |-> r.seq,
                   pc |-> "route", ver |-> dialogs[r.sid].version + 1,
                   own |-> dialogs'[r.sid].cseq, cseq |-> 0]
  <2>1. reqs' = (reqs \ {r}) \cup {q} /\ UNCHANGED <<streams, nextGen>>
    BY <1>8 DEF Reserve
  <2>2. q.sid = r.sid /\ q.method = r.method /\ q.gen = r.gen /\ q.seq = r.seq
    OBVIOUS
  <2> HIDE DEF q
  <2> QED
    BY <2>1, <2>2, RequestGoesOn
<1>l. ASSUME NEW r \in reqs, load_durable_dialog(r) PROVE FreshInv'
  <2> DEFINE q == [r EXCEPT !.pc = "loaded", !.cseq = dialogs[r.sid].cseq]
  <2>1. reqs' = (reqs \ {r}) \cup {q} /\ UNCHANGED <<streams, nextGen>>
    BY <1>l DEF load_durable_dialog
  <2>2. q.sid = r.sid /\ q.method = r.method /\ q.gen = r.gen /\ q.seq = r.seq
    BY DEF TypeOK, Request
  <2> HIDE DEF q
  <2> QED
    BY <2>1, <2>2, RequestGoesOn
<1>9. ASSUME NEW r \in reqs, SendRestored(r) \/ SendNative(r) \/ ByeAnswered(r) PROVE FreshInv'
  <2>w. ASSUME SendRestored(r) \/ SendNative(r)
        PROVE  reqs' = (reqs \ {r}) \cup {[r EXCEPT !.pc = "wait"]}
    BY <2>w, Zenon DEF SendRestored, SendNative
  <2>p. ASSUME ByeAnswered(r)
        PROVE  reqs' = (reqs \ {r}) \cup {[r EXCEPT !.pc = "persist"]}
    BY <2>p, Zenon DEF ByeAnswered
  <2>1. PICK pc \in {"wait", "persist"} : reqs' = (reqs \ {r}) \cup {[r EXCEPT !.pc = pc]}
    BY <1>9, <2>w, <2>p, Zenon
  <2>2. /\ [r EXCEPT !.pc = pc].sid = r.sid /\ [r EXCEPT !.pc = pc].method = r.method
        /\ [r EXCEPT !.pc = pc].gen = r.gen /\ [r EXCEPT !.pc = pc].seq = r.seq
    BY DEF TypeOK, Request
  <2>3. UNCHANGED <<streams, nextGen>>
    BY <1>9 DEF SendRestored, SendNative, ByeAnswered
  <2> QED
    BY <2>1, <2>2, <2>3, RequestGoesOn
<1>10. ASSUME NEW r \in reqs, InfoAnswered(r) PROVE FreshInv'
  <2>1. r.gen = 0 /\ UNCHANGED <<streams, nextGen>> /\ reqs' = reqs \ {r} /\ r.sid \in Stream
    BY <1>10 DEF InfoAnswered, FreshInv, GenerationsAreFresh, TypeOK, Request
  <2>2. ~ is_closing_generation(streams, r.sid, r.gen)
    BY <2>1 DEF is_closing_generation, FreshInv, GenerationsAreFresh
  <2> QED
    BY <2>1, <2>2, RequestEnds
<1>11. ASSUME NEW r \in reqs, Persist(r) PROVE FreshInv'
  <2>1. /\ streams' = IF is_closing_generation(streams, r.sid, r.gen)
                      THEN [streams EXCEPT ![r.sid] = NoStream] ELSE streams
        /\ reqs' = reqs \ {r} /\ nextGen' = nextGen
    BY <1>11 DEF Persist, stream_close_remove
  <2> QED
    BY <2>1, RequestEnds
<1>12. ASSUME NEW r \in reqs, RequestFails(r) PROVE FreshInv'
  BY <1>12, RequestEnds DEF RequestFails
<1>13. ASSUME NEW p \in peerByes, PersistPeerBye(p) PROVE FreshInv'
  BY <1>13, StreamsOnly DEF PersistPeerBye
<1>14. ASSUME NEW p \in peerByes, stream_terminated_by_call_id(p) PROVE FreshInv'
  <2>1. p.sid \in Stream
    BY DEF TypeOK, PeerBye
  <2>2. \A x \in Stream : streams'[x] = streams[x] \/ streams'[x].life # "Closing"
    BY <1>14, <2>1 DEF stream_terminated_by_call_id, NoStream, TypeOK
  <2> QED
    BY <1>14, <2>2, StreamsOnly DEF stream_terminated_by_call_id
<1>15. ASSUME DeviceOnline PROVE FreshInv'
  BY <1>15, ByesTaken DEF DeviceOnline
<1>16. ASSUME DeviceDetached PROVE FreshInv'
  BY <1>16, StreamsOnly DEF DeviceDetached
<1>17. ASSUME DeviceReset PROVE FreshInv'
  <2>1. \A x \in Stream : streams'[x].life # "Closing"
    BY <1>17 DEF DeviceReset, reset_device_state, NoStream
  <2> QED
    BY <1>17, <2>1, StreamsOnly DEF DeviceReset
<1> QED
  BY <1>1, <1>2, <1>3, <1>4, <1>5, <1>6, <1>7, <1>8, <1>l, <1>9, <1>10, <1>11, <1>12, <1>13,
     <1>14, <1>15, <1>16, <1>17 DEF CloseNext

LEMMA SetupFresh ==
  ASSUME TypeOK, TypeOK', FreshInv, SetupNext
  PROVE  FreshInv'
<1>1. ASSUME NEW s \in Stream, InsertStream(s) PROVE FreshInv'
  <2>1. \A x \in Stream : streams'[x] = streams[x] \/ streams'[x].life = "Playing"
    BY <1>1, InsertKeepsClose DEF InsertStream
  <2> QED
    BY <1>1, <2>1, StreamsOnly DEF InsertStream
<1>2. ASSUME NEW s \in Stream, SetupFails(s) PROVE FreshInv'
  BY <1>2, StreamsOnly DEF SetupFails
<1>3. ASSUME UNCHANGED <<streams, nextGen, reqs>> PROVE FreshInv'
  BY <1>3, StreamsOnly
<1> QED
  BY <1>1, <1>2, <1>3
     DEF SetupNext, Invite, DeviceAccepts, complete_native_invite, InviteRejected, InviteTimeout,
         MarkEstablished, MarkEstablishedFails, RollbackEnds, RollbackFails, closeVars

LEMMA RecoveryFresh ==
  ASSUME TypeOK, TypeOK', FreshInv, RecoveryNext
  PROVE  FreshInv'
<1>1. ASSUME LoseMemory PROVE FreshInv'
  BY <1>1 DEF LoseMemory, FreshInv, GenerationsAreFresh, InflightHasTask, NoStream
<1>2. ASSUME NEW r \in recovering, RecoverOnline(r) \/ RecoverOffline(r) PROVE FreshInv'
  <2>1. \/ streams' = streams
        \/ streams' = stream_map_insert(streams, r.sid, r.cseq, TRUE)
    BY <1>2, Zenon DEF RecoverOnline, RecoverOffline
  <2>2. r.sid \in Stream
    BY DEF TypeOK, Recovery
  <2>3. \A x \in Stream : streams'[x] = streams[x] \/ streams'[x].life = "Playing"
    BY <2>1, <2>2, InsertKeepsClose
  <2>4. UNCHANGED <<reqs, nextGen>>
    BY <1>2 DEF RecoverOnline, RecoverOffline
  <2> QED
    BY <2>3, <2>4, StreamsOnly
<1>3. ASSUME NEW r \in recovering, RecoverBegin(r) PROVE FreshInv'
  <2>1. r.sid \in Stream
    BY DEF TypeOK, Recovery
  <2> QED
    BY <1>3, <2>1, CloseBegins DEF RecoverBegin
<1>4. ASSUME UNCHANGED <<streams, nextGen, reqs>> PROVE FreshInv'
  BY <1>4, StreamsOnly
<1> QED
  BY <1>1, <1>2, <1>3, <1>4
     DEF RecoveryNext, PageOwned, stream_unknown, Shutdown, Crash, RecoverOrphan, RecoverFails,
         closeVars

-----------------------------------------------------------------------------
\* CloseInv is inductive: the invariant behind the next two theorems.
THEOREM CloseInvariant == Spec => []CloseInv
<1>1. Init => FreshInv /\ ClosingIsCovered
  BY DEF Init, FreshInv, GenerationsAreFresh, InflightHasTask, ClosingIsCovered, NoStream
<1>2. TypeOK /\ TypeOK' /\ EndInv /\ FreshInv /\ ClosingIsCovered /\ [Next]_vars
        => FreshInv' /\ ClosingIsCovered'
  <2> SUFFICES ASSUME TypeOK, TypeOK', EndInv, FreshInv, ClosingIsCovered, [Next]_vars
               PROVE  FreshInv' /\ ClosingIsCovered'
    OBVIOUS
  <2>1. CASE CloseNext
    BY <2>1, CloseFresh, CloseCovered
  <2>2. CASE SetupNext
    BY <2>2, SetupFresh, SetupCovered
  <2>3. CASE RecoveryNext
    BY <2>3, RecoveryFresh, RecoveryCovered
  <2>4. CASE UNCHANGED vars
    BY <2>4 DEF vars, FreshInv, GenerationsAreFresh, InflightHasTask, ByeTasks,
                is_closing_generation, ClosingIsCovered
  <2> QED
    BY <2>1, <2>2, <2>3, <2>4 DEF Next
<1>3. EndInv /\ FreshInv /\ ClosingIsCovered => CloseInv
  BY DEF FreshInv, CloseInv
<1> QED
  BY <1>1, <1>2, <1>3, TypeCorrect, EndInvariant, PTL DEF Spec

\* A closing stream has at most one BYE task, and inflight_seq is set exactly
\* while that task runs: no interleaving of begin, retry_device, failures,
\* deadlines, resets, peer BYEs, recovery and crashes leaks it or clears it
\* early (StreamTable::take_bye, mark_bye_failed).
THEOREM InflightCorrect == Spec => []InflightHasTask
<1>1. CloseInv => InflightHasTask
  BY DEF CloseInv
<1> QED
  BY <1>1, CloseInvariant, PTL

\* A closing stream that was not restored has its deadline armed or the begin
\* call that will arm it still running (stream_close::begin).
THEOREM DeadlineCorrect == Spec => []ClosingIsCovered
<1>1. CloseInv => ClosingIsCovered
  BY DEF CloseInv
<1> QED
  BY <1>1, CloseInvariant, PTL
=============================================================================
