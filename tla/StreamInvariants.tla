-------------------------- MODULE StreamInvariants --------------------------
(***************************************************************************)
(* The inductive invariants behind the safety properties of StreamSystem.  *)
(***************************************************************************)
EXTENDS StreamSystem

\* The set-ups whose INVITE the device has not accepted (yet).
Pending == {"none", "inviting", "timedout", "aborted"}

(***************************************************************************)
(* Why a TERMINATED row means an ended dialog.  As long as the device has  *)
(* not accepted, the row was never established, so no request can have     *)
(* reserved a CSeq and no peer BYE can have come; a request that is about  *)
(* to write TERMINATED had its BYE answered.                               *)
(***************************************************************************)
PendingHasNoDialog ==
  \A s \in Stream : setup[s] \in Pending =>
    /\ ~ alive[s]
    /\ dialogs[s].state \notin {"Established", "Terminating"}
    /\ setup[s] # "aborted" => dialogs[s].state # "Terminated"

RequestsFollowAnswer ==
  \A r \in reqs :
    /\ r.pc # "reserve" => setup[r.sid] \notin Pending
    /\ r.pc = "persist" => r.method = "Bye" /\ ~ alive[r.sid]

PeerByesFollowAnswer ==
  \A p \in peerByes : setup[p.sid] \notin Pending /\ ~ alive[p.sid]

EndInv ==
  /\ TypeOK
  /\ PendingHasNoDialog
  /\ RequestsFollowAnswer
  /\ PeerByesFollowAnswer
  /\ TerminatedMeansEnded

(***************************************************************************)
(* Why inflight_seq is exact: generations are handed out once, so no task  *)
(* that outlived its close can be taken for one of the current close.      *)
(***************************************************************************)
GenerationsAreFresh ==
  /\ \A s \in Stream : streams[s].life = "Closing" => streams[s].gen \in 1 .. nextGen - 1
  /\ \A r \in reqs : r.gen \in 0 .. nextGen - 1 /\ (r.method = "Info" => r.gen = 0)

CloseInv ==
  /\ EndInv
  /\ GenerationsAreFresh
  /\ InflightHasTask
  /\ ClosingIsCovered

(***************************************************************************)
(* Why reservations are distinct and what is sent was reserved: versions   *)
(* and CSeqs only grow, so a reservation is never ahead of its row.        *)
(***************************************************************************)
RowsAreAhead ==
  /\ \A s \in Stream :
       /\ dialogs[s].state = "Absent" => dialogs[s] = NoRow
       /\ dialogs[s].state = "Inviting" => dialogs[s].cseq = InitCseq
  /\ \A r \in reqs : r.pc # "reserve" =>
       r.ver <= dialogs[r.sid].version /\ r.own <= dialogs[r.sid].cseq

ReservationInv ==
  /\ TypeOK
  /\ RowsAreAhead
  /\ ReservationsDistinct
  /\ SentCseqReserved
=============================================================================
