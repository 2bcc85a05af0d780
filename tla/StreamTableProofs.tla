------------------------- MODULE StreamTableProofs --------------------------
(***************************************************************************)
(* What races for the dialog table cannot do to it.  StreamSystem          *)
(* implements DialogLifecycle: each step leaves the table alone or moves   *)
(* one row forward.  Versions therefore name one reservation each, and a   *)
(* CSeq that is sent was in the table before.                              *)
(***************************************************************************)
EXTENDS StreamSystemProofs

\* A write of one row: a new row of an INVITE, its establishment, or a later
\* write, which keeps the state or moves it on and never lowers the CSeq.
Forward(old, new) ==
  /\ old.state # "Absent" => old.version < new.version
  /\ \/ old.state = "Absent" /\ new.state = "Inviting" /\ new.cseq = InitCseq
     \/ old.state = "Inviting" /\ new.state = "Established" /\ new.cseq = InitCseq
     \/ /\ new.cseq >= old.cseq
        /\ \/ can_transition_to(old.state, new.state)
           \/ new.state = old.state /\ old.state \in {"Established", "Terminating"}

\* At most one row differs between the tables t and u, and it moved forward.
MovesForward(t, u) ==
  \/ u = t
  \/ \E s \in Stream, row \in SipDialogSession :
       u = [t EXCEPT ![s] = row] /\ Forward(t[s], row)

-----------------------------------------------------------------------------
(***************************************************************************)
(* The operations of the repository.                                       *)
(***************************************************************************)
LEMMA InsertMoves ==
  ASSUME NEW t \in Table, NEW s \in Stream
  PROVE  MovesForward(t, insert_inviting(t, s))
<1> DEFINE row == [state |-> "Inviting", version |-> 0, cseq |-> InitCseq]
<1>1. row \in SipDialogSession
  BY CseqAssumption DEF SipDialogSession, DialogState
<1>2. t[s].state = "Absent" => Forward(t[s], row)
  BY DEF Forward
<1>3. insert_inviting(t, s) = IF t[s].state = "Absent" THEN [t EXCEPT ![s] = row] ELSE t
  BY DEF insert_inviting
<1> HIDE DEF row
<1> QED
  BY <1>1, <1>2, <1>3 DEF MovesForward

LEMMA EstablishedMoves ==
  ASSUME NEW t \in Table, NEW s \in Stream, NEW v \in Nat
  PROVE  MovesForward(t, cas_mark_established(t, s, v, InitCseq))
<1> DEFINE row == [state |-> "Established", version |-> v + 1, cseq |-> InitCseq]
<1>1. row \in SipDialogSession
  BY CseqAssumption DEF SipDialogSession, DialogState
<1>2. t[s].state = "Inviting" /\ t[s].version = v => Forward(t[s], row)
  BY DEF Forward
<1>3. \/ cas_mark_established(t, s, v, InitCseq) = t
      \/ /\ t[s].state = "Inviting" /\ t[s].version = v
         /\ cas_mark_established(t, s, v, InitCseq) = [t EXCEPT ![s] = row]
  BY DEF cas_mark_established
<1> HIDE DEF row
<1> QED
  BY <1>1, <1>2, <1>3 DEF MovesForward

LEMMA TransitionMoves ==
  ASSUME NEW t \in Table, NEW s \in Stream, NEW v \in Nat, NEW st, NEW next
  PROVE  MovesForward(t, cas_transition(t, s, v, st, next))
<1> DEFINE row == [state |-> next, version |-> v + 1, cseq |-> t[s].cseq]
<1>1. t[s].cseq \in 0 .. MaxCseq
  BY DEF Table, SipDialogSession
<1>2. \/ cas_transition(t, s, v, st, next) = t
      \/ /\ can_transition_to(t[s].state, next) /\ t[s].version = v
         /\ cas_transition(t, s, v, st, next) = [t EXCEPT ![s] = row]
  BY DEF cas_transition
<1>3. ASSUME can_transition_to(t[s].state, next), t[s].version = v
      PROVE  row \in SipDialogSession /\ Forward(t[s], row)
  <2>1. row \in SipDialogSession
    BY <1>1, <1>3 DEF SipDialogSession, DialogState, can_transition_to
  <2>2. Forward(t[s], row)
    BY <1>1, <1>3, CseqAssumption DEF Forward
  <2> QED
    BY <2>1, <2>2
<1> HIDE DEF row
<1> QED
  BY <1>2, <1>3 DEF MovesForward

LEMMA TouchMoves ==
  ASSUME NEW t \in Table, NEW s \in Stream, NEW v \in Nat
  PROVE  MovesForward(t, cas_touch(t, s, v))
<1> DEFINE row == [state |-> t[s].state, version |-> v + 1, cseq |-> t[s].cseq]
           live == t[s].state \in {"Established", "Terminating"} /\ t[s].version = v
<1>1. row \in SipDialogSession /\ t[s].cseq \in 0 .. MaxCseq
  BY DEF SipDialogSession, Table
<1>2. live => Forward(t[s], row)
  BY <1>1, CseqAssumption DEF Forward
<1>3. cas_touch(t, s, v) = t \/ (live /\ cas_touch(t, s, v) = [t EXCEPT ![s] = row])
  BY DEF cas_touch
<1> HIDE DEF row, live
<1> QED
  BY <1>1, <1>2, <1>3 DEF MovesForward

LEMMA ReserveMoves ==
  ASSUME NEW t \in Table, NEW s \in Stream, NEW method
  PROVE  LET u == reserve_durable_dialog_request(t, s, method)
         IN  /\ MovesForward(t, u)
             /\ u # t => u[s].version = t[s].version + 1
<1> DEFINE v == t[s].version
           c == t[s].cseq
           bye == [state |-> "Terminating", version |-> v + 1, cseq |-> c + 1]
           info == [state |-> t[s].state, version |-> v + 1, cseq |-> c + 1]
           live == t[s].state \in {"Established", "Terminating"}
           u == reserve_durable_dialog_request(t, s, method)
<1>1. v \in Nat /\ c \in 0 .. MaxCseq /\ t[s].state \in DialogState \cup {"Absent"}
  BY DEF Table, SipDialogSession
<1>2. ASSUME c + 1 <= MaxCseq PROVE bye \in SipDialogSession /\ info \in SipDialogSession
  BY <1>1, <1>2, CseqAssumption DEF SipDialogSession, DialogState
<1>3. bye.version = v + 1 /\ info.version = v + 1
  OBVIOUS
<1>4. t[s].state = "Established" => Forward(t[s], bye)
  BY <1>1 DEF Forward, can_transition_to
<1>5. live => Forward(t[s], info)
  BY <1>1 DEF Forward
<1>6. \/ cas_begin_terminating(t, s, v, c) = t
      \/ /\ t[s].state = "Established" /\ c + 1 <= MaxCseq
         /\ cas_begin_terminating(t, s, v, c) = [t EXCEPT ![s] = bye]
  BY DEF cas_begin_terminating
<1>7. \/ cas_reserve_local_cseq(t, s, v, c) = t
      \/ /\ live /\ c + 1 <= MaxCseq
         /\ cas_reserve_local_cseq(t, s, v, c) = [t EXCEPT ![s] = info]
  BY DEF cas_reserve_local_cseq
<1>8. \/ u = t \/ u = cas_begin_terminating(t, s, v, c)
      \/ u = cas_reserve_local_cseq(t, s, v, c)
  BY DEF reserve_durable_dialog_request
<1>9. t \in [Stream -> SipDialogSession]
  BY DEF Table
<1> HIDE DEF bye, info, u, live
<1>10. \/ u = t
       \/ u = [t EXCEPT ![s] = bye] /\ bye \in SipDialogSession /\ Forward(t[s], bye)
       \/ u = [t EXCEPT ![s] = info] /\ info \in SipDialogSession /\ Forward(t[s], info)
  BY <1>2, <1>4, <1>5, <1>6, <1>7, <1>8
<1>11. MovesForward(t, u)
  BY <1>10 DEF MovesForward
<1>12. u # t => u[s].version = v + 1
  BY <1>3, <1>9, <1>10
<1> QED
  BY <1>11, <1>12 DEF u

LEMMA NothingMoves ==
  ASSUME UNCHANGED dialogs PROVE MovesForward(dialogs, dialogs')
BY DEF MovesForward

-----------------------------------------------------------------------------
(***************************************************************************)
(* The steps.                                                              *)
(***************************************************************************)
LEMMA CloseMoves ==
  ASSUME TypeOK, CloseNext PROVE MovesForward(dialogs, dialogs')
<1>1. dialogs \in Table /\ \A s \in Stream : dialogs[s].version \in Nat
  BY DEF TypeOK, Table, SipDialogSession
<1>2. ASSUME NEW s \in Stream, MarkOrphan(s) PROVE MovesForward(dialogs, dialogs')
  BY <1>1, <1>2, TransitionMoves, NothingMoves DEF MarkOrphan
<1>3. ASSUME NEW s \in Stream, Touch(s) PROVE MovesForward(dialogs, dialogs')
  BY <1>1, <1>3, TouchMoves DEF Touch
<1>4. ASSUME NEW s \in Stream, Begin(s) \/ StartInfo(s) \/ PeerHangsUp(s)
      PROVE  UNCHANGED dialogs
  BY <1>4 DEF Begin, StartInfo, PeerHangsUp
<1>5. ASSUME NEW c \in closing,
             BeginWaits(c) \/ BeginForces(c) \/ BeginArms(c) \/ BeginSendsBye(c)
      PROVE  UNCHANGED dialogs
  BY <1>5 DEF BeginWaits, BeginForces, BeginArms, BeginSendsBye
<1>6. ASSUME NEW t \in timers, TimerFires(t) PROVE UNCHANGED dialogs
  BY <1>6 DEF TimerFires
<1>7. ASSUME NEW r \in reqs PROVE r.sid \in Stream /\ r.ver \in Nat
  BY DEF TypeOK, Request
<1>8. ASSUME NEW r \in reqs, Reserve(r) PROVE MovesForward(dialogs, dialogs')
  BY <1>1, <1>7, <1>8, ReserveMoves DEF Reserve
<1>9. ASSUME NEW r \in reqs, Persist(r) PROVE MovesForward(dialogs, dialogs')
  BY <1>1, <1>7, <1>9, TransitionMoves DEF Persist
<1>10. ASSUME NEW r \in reqs, RequestFails(r) PROVE MovesForward(dialogs, dialogs')
  BY <1>1, <1>7, <1>10, ReserveMoves, TransitionMoves, NothingMoves DEF RequestFails
<1>11. ASSUME NEW r \in reqs,
              \/ load_durable_dialog(r) \/ SendRestored(r) \/ SendNative(r)
              \/ ByeAnswered(r) \/ InfoAnswered(r)
       PROVE  UNCHANGED dialogs
  BY <1>11 DEF load_durable_dialog, SendRestored, SendNative, ByeAnswered, InfoAnswered
<1>12. ASSUME NEW p \in peerByes, PersistPeerBye(p) PROVE MovesForward(dialogs, dialogs')
  <2>1. p.sid \in Stream
    BY DEF TypeOK, PeerBye
  <2> QED
    BY <1>1, <1>12, <2>1, TransitionMoves, NothingMoves DEF PersistPeerBye
<1>13. ASSUME NEW p \in peerByes, stream_terminated_by_call_id(p) PROVE UNCHANGED dialogs
  BY <1>13 DEF stream_terminated_by_call_id
<1>14. ASSUME DeviceOnline \/ DeviceDetached \/ DeviceReset PROVE UNCHANGED dialogs
  BY <1>14 DEF DeviceOnline, DeviceDetached, DeviceReset
<1> QED
  BY <1>2, <1>3, <1>4, <1>5, <1>6, <1>8, <1>9, <1>10, <1>11, <1>12, <1>13, <1>14, NothingMoves
  DEF CloseNext

LEMMA SetupMoves ==
  ASSUME TypeOK, SetupNext PROVE MovesForward(dialogs, dialogs')
<1>1. dialogs \in Table /\ InitCseq \in 0 .. MaxCseq /\ 0 \in Nat
  BY CseqAssumption DEF TypeOK
<1>2. ASSUME NEW s \in Stream, NEW next, mark_inviting_terminal(s, next)
      PROVE  MovesForward(dialogs, dialogs')
  BY <1>1, <1>2, TransitionMoves, NothingMoves DEF mark_inviting_terminal
<1>3. ASSUME NEW s \in Stream, Invite(s) PROVE MovesForward(dialogs, dialogs')
  BY <1>1, <1>3, InsertMoves DEF Invite
<1>4. ASSUME NEW s \in Stream,
             InviteRejected(s) \/ InviteTimeout(s) \/ RollbackEnds(s) \/ RollbackFails(s)
      PROVE  MovesForward(dialogs, dialogs')
  BY <1>2, <1>4 DEF InviteRejected, InviteTimeout, RollbackEnds, RollbackFails
<1>5. ASSUME NEW s \in Stream, MarkEstablished(s) PROVE MovesForward(dialogs, dialogs')
  BY <1>1, <1>5, EstablishedMoves DEF MarkEstablished
<1>6. ASSUME NEW s \in Stream,
             \/ DeviceAccepts(s) \/ complete_native_invite(s) \/ MarkEstablishedFails(s)
             \/ InsertStream(s) \/ SetupFails(s)
      PROVE  UNCHANGED dialogs
  BY <1>6 DEF DeviceAccepts, complete_native_invite, MarkEstablishedFails, InsertStream,
              SetupFails, closeVars
<1> QED
  BY <1>3, <1>4, <1>5, <1>6, NothingMoves DEF SetupNext

LEMMA RecoveryMoves ==
  ASSUME TypeOK, RecoveryNext PROVE MovesForward(dialogs, dialogs')
<1>1. dialogs \in Table /\ 0 \in Nat
  BY DEF TypeOK
<1>2. ASSUME NEW s \in Stream, PageOwned(s) \/ stream_unknown(s) PROVE UNCHANGED dialogs
  BY <1>2 DEF PageOwned, stream_unknown, closeVars
<1>3. ASSUME NEW s \in Stream, Shutdown(s) PROVE MovesForward(dialogs, dialogs')
  BY <1>1, <1>3, TransitionMoves DEF Shutdown
<1>4. ASSUME NEW r \in recovering
      PROVE  /\ MovesForward(dialogs, mark_orphan(r))
             /\ MovesForward(dialogs, cas_transition(dialogs, r.sid, r.ver, "Established",
                                                     "Terminating"))
  <2>1. r.sid \in Stream /\ r.ver \in Nat
    BY DEF TypeOK, Recovery
  <2> QED
    BY <1>1, <2>1, TransitionMoves DEF mark_orphan
<1>5. ASSUME NEW r \in recovering,
             RecoverOrphan(r) \/ RecoverFails(r) \/ RecoverOnline(r) \/ RecoverOffline(r)
      PROVE  MovesForward(dialogs, dialogs')
  <2>1. \/ dialogs' = dialogs \/ dialogs' = mark_orphan(r)
        \/ dialogs' = cas_transition(dialogs, r.sid, r.ver, "Established", "Terminating")
    BY <1>5 DEF RecoverOrphan, RecoverFails, RecoverOnline, RecoverOffline
  <2> QED
    BY <1>4, <2>1, NothingMoves
<1>6. ASSUME NEW r \in recovering, RecoverBegin(r) PROVE UNCHANGED dialogs
  BY <1>6 DEF RecoverBegin
<1>7. ASSUME Crash PROVE UNCHANGED dialogs
  BY <1>7 DEF Crash
<1> QED
  BY <1>2, <1>3, <1>5, <1>6, <1>7, NothingMoves DEF RecoveryNext

(***************************************************************************)
(* The dialog table of the whole system implements DialogLifecycle, for    *)
(* any streams: no interleaving of close, set-up, recovery and crashes     *)
(* revives a terminated or orphaned dialog or takes one back.              *)
(***************************************************************************)
THEOREM LifecycleImplemented == Spec => LifecycleSpec
<1>1. Init => Lifecycle!Init
  BY DEF Init, Lifecycle!Init, NoRow
<1>2. TypeOK /\ [Next]_vars => [Lifecycle!Next]_(Lifecycle!vars)
  <2> SUFFICES ASSUME TypeOK, [Next]_vars PROVE [Lifecycle!Next]_(Lifecycle!vars)
    OBVIOUS
  <2>1. MovesForward(dialogs, dialogs')
    BY CloseMoves, SetupMoves, RecoveryMoves, NothingMoves DEF Next, vars
  <2>2. CASE dialogs' = dialogs
    BY <2>2 DEF Lifecycle!vars
  <2>3. CASE dialogs' # dialogs
    <3>1. PICK s \in Stream, row \in SipDialogSession :
            dialogs' = [dialogs EXCEPT ![s] = row] /\ Forward(dialogs[s], row)
      BY <2>1, <2>3 DEF MovesForward
    <3> DEFINE phase == [x \in Stream |-> dialogs[x].state]
    <3>2. dialogs \in Table
      BY DEF TypeOK
    <3>3. phase' = [phase EXCEPT ![s] = row.state] /\ phase[s] = dialogs[s].state
      BY <3>1, <3>2 DEF Table
    <3>4. CASE row.state = dialogs[s].state
      <4>1. phase' = phase
        BY <3>3, <3>4
      <4> QED
        BY <4>1 DEF Lifecycle!vars
    <3>5. CASE row.state # dialogs[s].state
      <4>1. row.state \in Lifecycle!Successors(dialogs[s].state)
        BY <3>1, <3>5 DEF Forward, can_transition_to, Lifecycle!Successors
      <4> QED
        BY <3>3, <4>1 DEF Lifecycle!Next, Lifecycle!Advance
    <3> QED
      BY <3>4, <3>5
  <2> QED
    BY <2>2, <2>3
<1> QED
  BY <1>1, <1>2, TypeCorrect, PTL DEF Spec, LifecycleSpec, Lifecycle!Spec

-----------------------------------------------------------------------------
(***************************************************************************)
(* Reservations.                                                           *)
(***************************************************************************)
LEMMA RowsGrow ==
  ASSUME TypeOK, RowsAreAhead, MovesForward(dialogs, dialogs'), NEW s \in Stream
  PROVE  /\ dialogs'[s].state = "Absent" => dialogs'[s] = NoRow
         /\ dialogs'[s].state = "Inviting" => dialogs'[s].cseq = InitCseq
         /\ dialogs[s].version <= dialogs'[s].version
         /\ dialogs[s].cseq <= dialogs'[s].cseq
<1>1. dialogs \in [Stream -> SipDialogSession]
  BY DEF TypeOK, Table
<1>2. /\ dialogs[s].version \in Nat /\ dialogs[s].cseq \in Nat
      /\ dialogs[s].state = "Absent" => dialogs[s] = NoRow
      /\ dialogs[s].state = "Inviting" => dialogs[s].cseq = InitCseq
  BY <1>1 DEF SipDialogSession, RowsAreAhead
<1>3. CASE dialogs'[s] = dialogs[s]
  BY <1>2, <1>3
<1>4. CASE dialogs'[s] # dialogs[s]
  <2>1. PICK row \in SipDialogSession : dialogs'[s] = row /\ Forward(dialogs[s], row)
    BY <1>1, <1>4 DEF MovesForward
  <2>2. row.version \in Nat /\ row.cseq \in Nat
    BY DEF SipDialogSession
  <2>3. CASE dialogs[s].state = "Absent"
    <3>1. dialogs[s].version = 0 /\ dialogs[s].cseq = 0
      BY <1>2, <2>3 DEF NoRow
    <3> QED
      BY <2>1, <2>2, <2>3, <3>1 DEF Forward, can_transition_to
  <2>4. CASE dialogs[s].state # "Absent"
    BY <1>2, <2>1, <2>2, <2>4 DEF Forward, can_transition_to
  <2> QED
    BY <2>3, <2>4
<1> QED
  BY <1>3, <1>4

\* The rows are at least as far as every reservation was, in every new state.
LEMMA RowsStayAhead ==
  ASSUME TypeOK, TypeOK', ReservationInv, MovesForward(dialogs, dialogs')
  PROVE  /\ \A s \in Stream :
              /\ dialogs'[s].state = "Absent" => dialogs'[s] = NoRow
              /\ dialogs'[s].state = "Inviting" => dialogs'[s].cseq = InitCseq
              /\ \A n \in Nat : n <= dialogs[s].cseq => n <= dialogs'[s].cseq
         /\ \A r \in reqs : r.pc # "reserve" =>
              r.ver <= dialogs'[r.sid].version /\ r.own <= dialogs'[r.sid].cseq
<1>1. RowsAreAhead
  BY DEF ReservationInv
<1>2. ASSUME NEW s \in Stream
      PROVE  /\ dialogs[s].cseq \in Nat /\ dialogs'[s].cseq \in Nat
             /\ dialogs[s].version \in Nat /\ dialogs'[s].version \in Nat
  BY DEF TypeOK, Table, SipDialogSession
<1>3. ASSUME NEW s \in Stream, NEW n \in Nat, n <= dialogs[s].cseq PROVE n <= dialogs'[s].cseq
  <2>1. dialogs[s].cseq <= dialogs'[s].cseq
    BY <1>1, RowsGrow
  <2> QED
    BY <1>2, <1>3, <2>1
<1>4. ASSUME NEW r \in reqs, r.pc # "reserve"
      PROVE  r.ver <= dialogs'[r.sid].version /\ r.own <= dialogs'[r.sid].cseq
  <2>1. r.sid \in Stream /\ r.ver \in Nat /\ r.own \in Nat
    BY DEF TypeOK, Request
  <2>2. r.ver <= dialogs[r.sid].version /\ r.own <= dialogs[r.sid].cseq
    BY <1>1, <1>4 DEF RowsAreAhead
  <2>3. dialogs[r.sid].version <= dialogs'[r.sid].version
    BY <1>1, <2>1, RowsGrow
  <2>4. r.ver <= dialogs'[r.sid].version
    BY <1>2, <2>1, <2>2, <2>3
  <2>5. r.own <= dialogs'[r.sid].cseq
    BY <1>3, <2>1, <2>2
  <2> QED
    BY <2>4, <2>5
<1>5. ASSUME NEW s \in Stream
      PROVE  /\ dialogs'[s].state = "Absent" => dialogs'[s] = NoRow
             /\ dialogs'[s].state = "Inviting" => dialogs'[s].cseq = InitCseq
  BY <1>1, RowsGrow
<1> QED
  BY <1>3, <1>4, <1>5

\* What was sent or read stays within the rows.
LEMMA SentStaysReserved ==
  ASSUME TypeOK, TypeOK', ReservationInv, MovesForward(dialogs, dialogs')
  PROVE  /\ \A s \in Stream : /\ wire[s].prev <= dialogs'[s].cseq
                              /\ wire[s].last <= dialogs'[s].cseq
         /\ \A r \in reqs : r.pc = "loaded" =>
              r.own <= r.cseq /\ r.cseq <= dialogs'[r.sid].cseq
<1>1. ASSUME NEW s \in Stream
      PROVE  wire[s].prev <= dialogs'[s].cseq /\ wire[s].last <= dialogs'[s].cseq
  <2>1. wire[s].prev \in Nat /\ wire[s].last \in Nat
    BY DEF TypeOK
  <2>2. wire[s].prev <= dialogs[s].cseq /\ wire[s].last <= dialogs[s].cseq
    BY DEF ReservationInv, SentCseqReserved
  <2> QED
    BY <2>1, <2>2, RowsStayAhead
<1>2. ASSUME NEW r \in reqs, r.pc = "loaded"
      PROVE  r.own <= r.cseq /\ r.cseq <= dialogs'[r.sid].cseq
  <2>1. r.sid \in Stream /\ r.cseq \in Nat
    BY DEF TypeOK, Request
  <2>2. r.own <= r.cseq /\ r.cseq <= dialogs[r.sid].cseq
    BY <1>2 DEF ReservationInv, SentCseqReserved
  <2> QED
    BY <2>1, <2>2, RowsStayAhead
<1> QED
  BY <1>1, <1>2

\* Steps whose new requests have reserved nothing.
LEMMA NothingReserved ==
  ASSUME TypeOK, TypeOK', ReservationInv, MovesForward(dialogs, dialogs'), UNCHANGED wire,
         \A q \in reqs' : q \in reqs \/ q.pc = "reserve"
  PROVE  ReservationInv'
<1>1. RowsAreAhead'
  BY RowsStayAhead DEF RowsAreAhead
<1>2. ReservationsDistinct'
  BY DEF ReservationInv, ReservationsDistinct
<1>3. SentCseqReserved'
  <2>1. \A q \in reqs' : q.pc = "loaded" => q \in reqs
    OBVIOUS
  <2> QED
    BY <2>1, SentStaysReserved DEF SentCseqReserved
<1> QED
  BY <1>1, <1>2, <1>3 DEF ReservationInv

\* Steps that take a request that has its reservation one step further: its
\* row is read, it is sent, or it is answered.
LEMMA RequestAdvances ==
  ASSUME TypeOK, TypeOK', ReservationInv, UNCHANGED dialogs,
         NEW r \in reqs, r.pc # "reserve", NEW n,
         n.sid = r.sid, n.ver = r.ver, n.own = r.own, n.pc # "reserve",
         n.pc = "loaded" => n.cseq = dialogs[r.sid].cseq,
         reqs' = (reqs \ {r}) \cup {n},
         \/ UNCHANGED wire
         \/ /\ r.pc = "loaded"
            /\ wire' = [wire EXCEPT ![r.sid] = [prev |-> wire[r.sid].last, last |-> r.cseq]]
  PROVE  ReservationInv'
<1>1. r.sid \in Stream /\ r.own <= dialogs[r.sid].cseq /\ r.ver <= dialogs[r.sid].version
  BY DEF TypeOK, Request, ReservationInv, RowsAreAhead
<1>2. \A q \in reqs' : (q \in reqs /\ q # r) \/ q = n
  OBVIOUS
<1>3. wire \in [Stream -> [prev : 0 .. MaxCseq, last : 0 .. MaxCseq]]
  BY DEF TypeOK
<1>4. /\ \A s \in Stream : wire[s].prev <= dialogs[s].cseq /\ wire[s].last <= dialogs[s].cseq
      /\ r.pc = "loaded" => r.cseq <= dialogs[r.sid].cseq
  BY DEF ReservationInv, SentCseqReserved
<1>5. \A s \in Stream : wire'[s].prev <= dialogs[s].cseq /\ wire'[s].last <= dialogs[s].cseq
  BY <1>1, <1>3, <1>4
<1>6. RowsAreAhead'
  <2>1. \A q \in reqs' : q.pc # "reserve" =>
          q.ver <= dialogs[q.sid].version /\ q.own <= dialogs[q.sid].cseq
    BY <1>1, <1>2 DEF ReservationInv, RowsAreAhead
  <2> QED
    BY <2>1 DEF ReservationInv, RowsAreAhead
<1>7. ReservationsDistinct'
  <2>1. ASSUME NEW q \in reqs, q # r, q.pc # "reserve", q.sid = r.sid PROVE q.ver # r.ver
    BY <2>1 DEF ReservationInv, ReservationsDistinct
  <2> QED
    BY <1>1, <1>2, <2>1 DEF ReservationInv, ReservationsDistinct
<1>8. SentCseqReserved'
  <2>1. ASSUME NEW q \in reqs', q.pc = "loaded"
        PROVE  q.own <= q.cseq /\ q.cseq <= dialogs[q.sid].cseq
    <3>1. dialogs[r.sid].cseq \in Nat
      BY <1>1 DEF TypeOK, Table, SipDialogSession
    <3>2. CASE q = n
      BY <1>1, <2>1, <3>1, <3>2
    <3>3. CASE q \in reqs
      BY <2>1, <3>3 DEF ReservationInv, SentCseqReserved
    <3> QED
      BY <1>2, <3>2, <3>3
  <2> QED
    BY <1>5, <2>1 DEF SentCseqReserved
<1> QED
  BY <1>6, <1>7, <1>8 DEF ReservationInv

\* A successful reservation owns a version no other request has.
LEMMA ReserveReserves ==
  ASSUME TypeOK, TypeOK', ReservationInv, NEW r \in reqs, Reserve(r)
  PROVE  ReservationInv'
<1> DEFINE v == dialogs[r.sid].version
           n == [sid |-> r.sid, method |-> r.method, gen |-> r.gen, seq |-> r.seq,
                 pc |-> "route", ver |-> v + 1, own |-> dialogs'[r.sid].cseq, cseq |-> 0]
<1>1. r.sid \in Stream /\ dialogs \in Table /\ v \in Nat /\ dialogs'[r.sid].cseq \in Nat
  BY DEF TypeOK, Request, Table, SipDialogSession
<1>2. MovesForward(dialogs, dialogs') /\ dialogs'[r.sid].version = v + 1
  BY <1>1, ReserveMoves DEF Reserve
<1>3. reqs' = (reqs \ {r}) \cup {n} /\ UNCHANGED wire
  BY DEF Reserve
<1>4. n.sid = r.sid /\ n.ver = v + 1 /\ n.own = dialogs'[r.sid].cseq /\ n.pc = "route"
  OBVIOUS
<1>5. \A q \in reqs : q.pc # "reserve" /\ q.sid = r.sid => q.ver <= v /\ q.ver \in Nat
  BY DEF ReservationInv, RowsAreAhead, TypeOK, Request
<1> HIDE DEF n, v
<1>6. RowsAreAhead'
  <2>1. ASSUME NEW q \in reqs', q.pc # "reserve"
        PROVE  q.ver <= dialogs'[q.sid].version /\ q.own <= dialogs'[q.sid].cseq
    <3>1. CASE q = n
      BY <1>1, <1>2, <1>4, <3>1
    <3>2. CASE q # n
      BY <1>2, <1>3, <2>1, <3>2, RowsStayAhead
    <3> QED
      BY <3>1, <3>2
  <2> QED
    BY <1>2, <2>1, RowsStayAhead DEF RowsAreAhead
<1>7. ReservationsDistinct'
  BY <1>1, <1>3, <1>4, <1>5 DEF ReservationInv, ReservationsDistinct
<1>8. SentCseqReserved'
  <2>1. \A q \in reqs' : q.pc = "loaded" => q \in reqs
    BY <1>3, <1>4
  <2> QED
    BY <1>2, <1>3, <2>1, SentStaysReserved DEF SentCseqReserved
<1> QED
  BY <1>6, <1>7, <1>8 DEF ReservationInv

LEMMA ReservationStep ==
  ASSUME TypeOK, TypeOK', ReservationInv, [Next]_vars
  PROVE  ReservationInv'
<1>1. MovesForward(dialogs, dialogs')
  BY CloseMoves, SetupMoves, RecoveryMoves, NothingMoves DEF Next, vars
<1>2. CASE \E r \in reqs : Reserve(r)
  BY <1>2, ReserveReserves
<1>f. ASSUME NEW r \in reqs, NEW pc, pc # "loaded", pc # "reserve"
      PROVE  LET n == [r EXCEPT !.pc = pc]
             IN  /\ n.sid = r.sid /\ n.ver = r.ver /\ n.own = r.own
                 /\ n.pc # "reserve" /\ n.pc # "loaded"
  BY <1>f DEF TypeOK, Request
<1>l. ASSUME NEW r \in reqs, load_durable_dialog(r) PROVE ReservationInv'
  <2> DEFINE n == [r EXCEPT !.pc = "loaded", !.cseq = dialogs[r.sid].cseq]
  <2>1. /\ n.sid = r.sid /\ n.ver = r.ver /\ n.own = r.own
        /\ n.pc = "loaded" /\ n.cseq = dialogs[r.sid].cseq
    BY DEF TypeOK, Request
  <2>2. reqs' = (reqs \ {r}) \cup {n} /\ UNCHANGED <<dialogs, wire>> /\ r.pc # "reserve"
    BY <1>l DEF load_durable_dialog
  <2> HIDE DEF n
  <2> QED
    BY <2>1, <2>2, RequestAdvances
<1>3. ASSUME NEW r \in reqs, SendRestored(r) PROVE ReservationInv'
  <2> DEFINE n == [r EXCEPT !.pc = "wait"]
  <2>1. /\ n.sid = r.sid /\ n.ver = r.ver /\ n.own = r.own
        /\ n.pc # "reserve" /\ n.pc # "loaded"
    BY <1>f
  <2>2. /\ reqs' = (reqs \ {r}) \cup {n} /\ UNCHANGED dialogs /\ r.pc = "loaded"
        /\ wire' = [wire EXCEPT ![r.sid] = [prev |-> wire[r.sid].last, last |-> r.cseq]]
    BY <1>3 DEF SendRestored
  <2> HIDE DEF n
  <2> QED
    BY <2>1, <2>2, RequestAdvances
<1>4. ASSUME NEW r \in reqs, SendNative(r) PROVE ReservationInv'
  <2> DEFINE n == [r EXCEPT !.pc = "wait"]
  <2>1. /\ n.sid = r.sid /\ n.ver = r.ver /\ n.own = r.own
        /\ n.pc # "reserve" /\ n.pc # "loaded"
    BY <1>f
  <2>2. reqs' = (reqs \ {r}) \cup {n} /\ UNCHANGED <<dialogs, wire>> /\ r.pc # "reserve"
    BY <1>4 DEF SendNative
  <2> HIDE DEF n
  <2> QED
    BY <2>1, <2>2, RequestAdvances
<1>5. ASSUME NEW r \in reqs, ByeAnswered(r) PROVE ReservationInv'
  <2> DEFINE n == [r EXCEPT !.pc = "persist"]
  <2>1. /\ n.sid = r.sid /\ n.ver = r.ver /\ n.own = r.own
        /\ n.pc # "reserve" /\ n.pc # "loaded"
    BY <1>f
  <2>2. reqs' = (reqs \ {r}) \cup {n} /\ UNCHANGED <<dialogs, wire>> /\ r.pc # "reserve"
    BY <1>5 DEF ByeAnswered
  <2> HIDE DEF n
  <2> QED
    BY <2>1, <2>2, RequestAdvances
<1> DEFINE Quiet == UNCHANGED wire /\ \A q \in reqs' : q \in reqs \/ q.pc = "reserve"
<1>6. ASSUME NEW s \in Stream,
             Begin(s) \/ MarkOrphan(s) \/ StartInfo(s) \/ Touch(s) \/ PeerHangsUp(s)
      PROVE  Quiet
  BY <1>6 DEF Begin, MarkOrphan, StartInfo, Touch, PeerHangsUp
<1>7. ASSUME NEW c \in closing,
             BeginWaits(c) \/ BeginForces(c) \/ BeginArms(c) \/ BeginSendsBye(c)
      PROVE  Quiet
  BY <1>7 DEF BeginWaits, BeginForces, BeginArms, BeginSendsBye, send_bye
<1>8. ASSUME NEW t \in timers, TimerFires(t) PROVE Quiet
  BY <1>8 DEF TimerFires
<1>9. ASSUME NEW r \in reqs, InfoAnswered(r) \/ Persist(r) \/ RequestFails(r) PROVE Quiet
  BY <1>9 DEF InfoAnswered, Persist, RequestFails
<1>10. ASSUME NEW p \in peerByes, PersistPeerBye(p) \/ stream_terminated_by_call_id(p)
       PROVE  Quiet
  BY <1>10 DEF PersistPeerBye, stream_terminated_by_call_id
<1>11. ASSUME DeviceOnline \/ DeviceDetached \/ DeviceReset PROVE Quiet
  BY <1>11 DEF DeviceOnline, DeviceDetached, DeviceReset, send_bye
<1>12. ASSUME SetupNext PROVE Quiet
  <2>1. PICK s \in Stream :
          \/ Invite(s) \/ DeviceAccepts(s) \/ complete_native_invite(s) \/ InviteRejected(s)
          \/ InviteTimeout(s) \/ MarkEstablished(s) \/ MarkEstablishedFails(s)
          \/ RollbackEnds(s) \/ RollbackFails(s) \/ InsertStream(s) \/ SetupFails(s)
    BY <1>12 DEF SetupNext
  <2>2. ASSUME \/ Invite(s) \/ DeviceAccepts(s) \/ complete_native_invite(s)
               \/ InviteRejected(s) \/ InviteTimeout(s) \/ MarkEstablished(s)
               \/ MarkEstablishedFails(s) \/ RollbackEnds(s) \/ RollbackFails(s)
               \/ InsertStream(s)
        PROVE  UNCHANGED <<wire, reqs>>
    BY <2>2, Zenon DEF Invite, DeviceAccepts, complete_native_invite, InviteRejected,
       InviteTimeout, MarkEstablished, MarkEstablishedFails, RollbackEnds, RollbackFails,
       InsertStream, closeVars
  <2>3. ASSUME SetupFails(s) PROVE Quiet
    BY <2>3 DEF SetupFails
  <2> QED
    BY <2>1, <2>2, <2>3
<1>13. ASSUME RecoveryNext PROVE Quiet
  <2>1. ASSUME NEW s \in Stream, PageOwned(s) \/ stream_unknown(s) \/ Shutdown(s) PROVE Quiet
    BY <2>1 DEF PageOwned, stream_unknown, Shutdown, LoseMemory, closeVars
  <2>2. ASSUME NEW r \in recovering,
               \/ RecoverOrphan(r) \/ RecoverFails(r) \/ RecoverOnline(r)
               \/ RecoverOffline(r) \/ RecoverBegin(r)
        PROVE  Quiet
    BY <2>2 DEF RecoverOrphan, RecoverFails, RecoverOnline, RecoverOffline, RecoverBegin
  <2>3. ASSUME Crash PROVE Quiet
    BY <2>3 DEF Crash, LoseMemory
  <2> QED
    BY <1>13, <2>1, <2>2, <2>3 DEF RecoveryNext
<1>14. ASSUME UNCHANGED vars PROVE Quiet
  BY <1>14 DEF vars
<1> HIDE DEF Quiet
<1>15. ASSUME Quiet PROVE ReservationInv'
  BY <1>1, <1>15, NothingReserved DEF Quiet
<1>16. ASSUME CloseNext PROVE Quiet \/ ReservationInv'
  BY <1>2, <1>l, <1>3, <1>4, <1>5, <1>6, <1>7, <1>8, <1>9, <1>10, <1>11, <1>16 DEF CloseNext
<1> QED
  BY <1>12, <1>13, <1>14, <1>15, <1>16 DEF Next

(***************************************************************************)
(* The inductive invariant: a reservation is never ahead of its row, and   *)
(* neither is a CSeq that was sent or read to be sent.                     *)
(***************************************************************************)
THEOREM ReservationInvariant == Spec => []ReservationInv
<1>1. Init => ReservationInv
  BY InitType, CseqAssumption
     DEF Init, ReservationInv, RowsAreAhead, ReservationsDistinct, SentCseqReserved, NoRow
<1>2. TypeOK /\ TypeOK' /\ ReservationInv /\ [Next]_vars => ReservationInv'
  BY ReservationStep
<1> QED
  BY <1>1, <1>2, TypeCorrect, PTL DEF Spec

\* A version of a row is handed out once (reserve_durable_dialog_request),
\* whatever touches, recoveries and crashes come between: the TERMINATED write
\* of one request never passes for that of another.
THEOREM ReservationsCorrect == Spec => []ReservationsDistinct
<1>1. ReservationInv => ReservationsDistinct
  BY DEF ReservationInv
<1> QED
  BY <1>1, ReservationInvariant, PTL

\* Requests that race on a restored dialog each read the row again before they
\* are sent (load_durable_dialog), with other reservations, sends and crashes
\* in between: none carries a CSeq below its own reservation, and no CSeq goes
\* out that the table does not hold.
THEOREM SentCseqCorrect == Spec => []SentCseqReserved
<1>1. ReservationInv => SentCseqReserved
  BY DEF ReservationInv
<1> QED
  BY <1>1, ReservationInvariant, PTL
=============================================================================
