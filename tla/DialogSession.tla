--------------------------- MODULE DialogSession ---------------------------
(***************************************************************************)
(* The durable SIP dialog table GMV_SIP_DIALOG_SESSION and the operations  *)
(* of SipDialogSessionRepository on it.  Every write is one SQL UPDATE     *)
(* guarded by the row's version, so each operation is a function from the  *)
(* table before it to the table after it; the repository reports TRUE      *)
(* (rows_affected = 1) exactly when the table changed.                     *)
(*                                                                         *)
(* A row keeps the three columns its callers decide on: STATE, VERSION and *)
(* LOCAL_CSEQ.  Addresses, tags, routes and timestamps are payload.        *)
(***************************************************************************)
EXTENDS Naturals

CONSTANTS
  Stream,     \* STREAM_ID values, the primary key
  InitCseq,   \* CSeq of the INVITE that creates a dialog
  MaxCseq     \* largest CSeq the table accepts (i32::MAX in the code)

ASSUME CseqAssumption == /\ InitCseq \in Nat \ {0}
                         /\ MaxCseq \in Nat
                         /\ InitCseq <= MaxCseq

DialogState == {"Inviting", "Established", "Terminating", "Terminated", "Orphan"}

can_transition_to(st, next) ==
  \/ st = "Inviting"    /\ next \in {"Established", "Terminated", "Orphan"}
  \/ st = "Established" /\ next \in {"Terminating", "Terminated", "Orphan"}
  \/ st = "Terminating" /\ next \in {"Terminated", "Orphan"}

\* A stream with no row: state "Absent".
NoRow == [state |-> "Absent", version |-> 0, cseq |-> 0]

SipDialogSession == [state   : DialogState \cup {"Absent"},
                     version : Nat,
                     cseq    : 0 .. MaxCseq]

Table == [Stream -> SipDialogSession]

-----------------------------------------------------------------------------
(***************************************************************************)
(* The repository.  t is the table, s the key, v the expected version.     *)
(***************************************************************************)
insert_inviting(t, s) ==
  IF t[s].state = "Absent"
  THEN [t EXCEPT ![s] = [state |-> "Inviting", version |-> 0, cseq |-> InitCseq]]
  ELSE t

cas_mark_established(t, s, v, c) ==
  IF t[s].state = "Inviting" /\ t[s].version = v
  THEN [t EXCEPT ![s] = [state |-> "Established", version |-> v + 1, cseq |-> c]]
  ELSE t

\* Mutant: no check that the next CSeq fits the column.
cas_begin_terminating_unchecked(t, s, v, c) ==
  IF t[s].state = "Established" /\ t[s].version = v /\ t[s].cseq = c
  THEN [t EXCEPT ![s] = [state |-> "Terminating", version |-> v + 1, cseq |-> c + 1]]
  ELSE t

\* Mutant: the BYE is reserved with the CSeq of the INVITE.
cas_begin_terminating_rewinds(t, s, v, c) ==
  IF t[s].state = "Established" /\ t[s].version = v /\ t[s].cseq = c
  THEN [t EXCEPT ![s] = [state |-> "Terminating", version |-> v + 1, cseq |-> InitCseq]]
  ELSE t

cas_begin_terminating(t, s, v, c) ==
  IF t[s].state = "Established" /\ t[s].version = v /\ t[s].cseq = c /\ c + 1 <= MaxCseq
  THEN [t EXCEPT ![s] = [state |-> "Terminating", version |-> v + 1, cseq |-> c + 1]]
  ELSE t

cas_transition(t, s, v, st, next) ==
  IF can_transition_to(st, next) /\ t[s].state = st /\ t[s].version = v
  THEN [t EXCEPT ![s] = [state |-> next, version |-> v + 1, cseq |-> t[s].cseq]]
  ELSE t

\* Mutant: a reservation leaves VERSION alone.
cas_reserve_local_cseq_unversioned(t, s, v, c) ==
  IF /\ t[s].state \in {"Established", "Terminating"}
     /\ t[s].version = v /\ t[s].cseq = c /\ c + 1 <= MaxCseq
  THEN [t EXCEPT ![s] = [state |-> t[s].state, version |-> v, cseq |-> c + 1]]
  ELSE t

cas_reserve_local_cseq(t, s, v, c) ==
  IF /\ t[s].state \in {"Established", "Terminating"}
     /\ t[s].version = v /\ t[s].cseq = c /\ c + 1 <= MaxCseq
  THEN [t EXCEPT ![s] = [state |-> t[s].state, version |-> v + 1, cseq |-> c + 1]]
  ELSE t

cas_touch(t, s, v) ==
  IF t[s].state \in {"Established", "Terminating"} /\ t[s].version = v
  THEN [t EXCEPT ![s] = [state |-> t[s].state, version |-> v + 1, cseq |-> t[s].cseq]]
  ELSE t

-----------------------------------------------------------------------------
(***************************************************************************)
(* reserve_durable_dialog_request(stream_id, method): read the row, pick   *)
(* the CAS its state allows for the method, and report the version the row *)
(* has afterwards.  A CAS succeeds only if nothing wrote the row since the *)
(* read, so the read and the CAS are one step; a lost race is a failure.   *)
(***************************************************************************)
reserve_durable_dialog_request(t, s, method) ==
  CASE method = "Bye" /\ t[s].state = "Established" ->
         cas_begin_terminating(t, s, t[s].version, t[s].cseq)
    [] \/ method = "Bye" /\ t[s].state = "Terminating"
       \/ method = "Info" /\ t[s].state = "Established" ->
         cas_reserve_local_cseq(t, s, t[s].version, t[s].cseq)
    [] OTHER -> t
=============================================================================
