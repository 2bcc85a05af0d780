-------------------------------- MODULE Talk --------------------------------
(***************************************************************************)
(* Talk sessions of one device: talk_start opens the sender on a media node, *)
(* notifies the device of a broadcast, waits for the INVITE the device sends *)
(* back, answers it and inserts the talk; talk_stop, the media node's        *)
(* talk_closed callback and the device's BYE end it.                         *)
(*                                                                           *)
(* A talk and the INVITE the device sends on its notification are named      *)
(* after the request.  All channels resolve to one broadcast target          *)
(* (resolve_broadcast_target_id), which is what an INVITE is matched by.     *)
(***************************************************************************)
EXTENDS Naturals, FiniteSets, DeviceLink

CONSTANTS Req,     \* talk_start requests, each made once
          Channel  \* channels of the device with one broadcast target

ASSUME TalkAssumption == None \notin Req

VARIABLES req,       \* the requests
          locks,     \* stream_setup_locks: who created the channel's lock
          holder,    \* of each lock
          waiter,    \* broadcast_invite_waiters[target]: whose
          inv,       \* external: the device's INVITEs and their answers
          call,      \* external: the device's side of the dialogs
          talk,      \* talk_map
          timer,     \* TimeScheduleKey::TalkClosing
          byeTask,   \* send_bye tasks
          media,     \* TALK_SESSIONS on the media node
          notice,    \* external: talk_closed calls of the media node
          dropped    \* history: channels whose lock was dropped in a set-up

setupVars == <<req, locks, holder, waiter, inv>>
closeVars == <<talk, timer, byeTask>>
farVars == <<call, media, notice>>
talkVars == <<setupVars, closeVars, farVars, dropped>>

Listening == {"message", "response", "invite"}
InSetup == {"lock", "check", "open", "notify", "giveUp", "answer", "accept", "insert",
            "cleanup"} \cup Listening
NoTalk == [phase |-> None, inflight |-> FALSE, invite |-> None]

At(r, at) == req' = [req EXCEPT ![r].at = at]

-----------------------------------------------------------------------------
(* talk_start.                                                              *)

Start(r) ==
    /\ req[r].at = "idle" /\ has_session
    /\ \E c \in Channel :
          LET lock == IF locks[c] = None THEN r ELSE locks[c]
          IN  /\ req' = [req EXCEPT ![r] = [@ EXCEPT !.at = "lock", !.channel = c,
                                                     !.lock = lock]]
              /\ locks' = [locks EXCEPT ![c] = lock]
    /\ UNCHANGED <<holder, waiter, inv, closeVars, farVars, dropped>>

Lock(r) ==
    /\ req[r].at = "lock" /\ holder[req[r].lock] = None
    /\ holder' = [holder EXCEPT ![req[r].lock] = r]
    /\ At(r, "check")
    /\ UNCHANGED <<locks, waiter, inv, closeVars, farVars, dropped>>

\* The answer drops the guard and whatever the request still listens to.
Reply(r, at) ==
    /\ req' = [req EXCEPT ![r] = [@ EXCEPT !.at = at, !.lock = None, !.rx = None]]
    /\ holder' = [holder EXCEPT ![req[r].lock] = None]

\* Mutant: a talk that is there is not looked for.
CheckTalkMap_Blind(r) ==
    /\ req[r].at = "check" /\ At(r, "open")
    /\ UNCHANGED <<locks, holder, waiter, inv, closeVars, farVars, dropped>>

CheckTalkMap(r) ==
    /\ req[r].at = "check"
    /\ IF \E t \in Req : talk[t].phase # None /\ req[t].channel = req[r].channel
       THEN Reply(r, "failed")
       ELSE At(r, "open") /\ UNCHANGED holder
    /\ UNCHANGED <<locks, waiter, inv, closeVars, farVars, dropped>>

\* talk_open on a node; without a node that takes it the request fails.
TalkOpen(r) ==
    /\ req[r].at = "open"
    /\ \/ media' = [media EXCEPT ![r] = "open"] /\ At(r, "notify") /\ UNCHANGED holder
       \/ Reply(r, "failed") /\ UNCHANGED media
    /\ UNCHANGED <<locks, waiter, inv, call, notice, closeVars, dropped>>

\* broadcast_notify_and_wait: the waiter of the target is replaced.
NotifyBroadcast(r) ==
    /\ req[r].at = "notify" /\ At(r, "message")
    /\ waiter' = r
    /\ UNCHANGED <<locks, holder, inv, closeVars, farVars, dropped>>

\* reject_broadcast_invite: a rejection that cannot be queued is only logged,
\* and the INVITE runs into its own timeout.
Reject(i) == \E a \in {"rejected", "unqueued"} : inv' = [inv EXCEPT ![i] = a]

\* Mutant: the INVITE that came meanwhile is forgotten.
reject_buffered_Forgets(r) == UNCHANGED inv

\* reject_buffered_broadcast_invite.
reject_buffered(r) == IF req[r].rx = None THEN UNCHANGED inv ELSE Reject(req[r].rx)

\* The buffer is looked into first, and the waiter is removed after it.
GiveUpBroadcast(r) ==
    /\ reject_buffered(r)
    /\ req' = [req EXCEPT ![r] = [@ EXCEPT !.at = "giveUp", !.rx = None]]
    /\ UNCHANGED <<locks, holder, waiter, closeVars, farVars, dropped>>

\* The waiter is removed by its target, whoever put it there.
RemoveWaiter(r) ==
    /\ req[r].at = "giveUp" /\ At(r, "cleanup") /\ waiter' = None
    /\ UNCHANGED <<locks, holder, inv, closeVars, farVars, dropped>>

MessageAnswered(r) ==
    /\ req[r].at = "message" /\ connected /\ At(r, "response")
    /\ UNCHANGED <<locks, holder, waiter, inv, closeVars, farVars, dropped>>

MessageFails(r) == req[r].at = "message" /\ GiveUpBroadcast(r)

ResponseAccepts(r) ==
    /\ req[r].at = "response" /\ At(r, "invite")
    /\ UNCHANGED <<locks, holder, waiter, inv, closeVars, farVars, dropped>>

\* Refused, or its time is over.
ResponseFails(r) == req[r].at = "response" /\ GiveUpBroadcast(r)

\* The device calls back, once; external.
DeviceInvites(i) ==
    /\ inv[i] = None /\ req[i].at \in Listening
    /\ inv' = [inv EXCEPT ![i] = "sent"]
    /\ UNCHANGED <<req, locks, holder, waiter, closeVars, farVars, dropped>>

\* complete_broadcast_invite; an INVITE nobody waits for is answered 501, and
\* one whose waiter is giving up comes too late to be looked at.
IncomingInvite(i) ==
    /\ inv[i] = "sent" /\ waiter' = None
    /\ \/ waiter = None /\ Reject(i) /\ UNCHANGED req
       \/ /\ waiter # None /\ req[waiter].at = "giveUp"
          /\ inv' = [inv EXCEPT ![i] = "missed"] /\ UNCHANGED req
       \/ /\ waiter # None /\ req[waiter].at # "giveUp"
          /\ req' = [req EXCEPT ![waiter].rx = i]
          /\ inv' = [inv EXCEPT ![i] = "buffered"]
    /\ UNCHANGED <<locks, holder, closeVars, farVars, dropped>>

\* parse_broadcast_invite and compatible_answer: what cannot be used is
\* answered 488.
TakeInvite(r) ==
    /\ req[r].at = "invite" /\ req[r].rx # None
    /\ \/ At(r, "answer") /\ UNCHANGED inv
       \/ Reject(req[r].rx) /\ At(r, "cleanup")
    /\ UNCHANGED <<locks, holder, waiter, closeVars, farVars, dropped>>

\* Its time is over, or its waiter was replaced or removed.
InviteFails(r) ==
    /\ req[r].at = "invite" /\ req[r].rx = None /\ At(r, "cleanup") /\ waiter' = None
    /\ UNCHANGED <<locks, holder, inv, closeVars, farVars, dropped>>

\* talk_answer gives the sender its target.
TalkAnswer(r) ==
    /\ req[r].at = "answer"
    /\ \/ media[r] = "open" /\ At(r, "accept") /\ UNCHANGED inv
       \/ Reject(req[r].rx) /\ At(r, "cleanup")
    /\ UNCHANGED <<locks, holder, waiter, closeVars, farVars, dropped>>

\* accept_broadcast_invite: the row, the 200 and the row again.
AcceptInvite(r) ==
    /\ req[r].at = "accept" /\ At(r, "insert")
    /\ inv' = [inv EXCEPT ![req[r].rx] = "accepted"]
    /\ call' = [call EXCEPT ![req[r].rx] = "up"]
    /\ UNCHANGED <<locks, holder, waiter, media, notice, closeVars, dropped>>

\* The row cannot be written (500), the 500 or the 200 cannot be queued, or the
\* row was lost and the dialog is rolled back.
AcceptFails(r) ==
    /\ req[r].at = "accept" /\ At(r, "cleanup")
    /\ \E ended \in {"rejected", "unqueued", "accepted"} :
          /\ inv' = [inv EXCEPT ![req[r].rx] = ended]
          /\ \E c \in {None, "up"} :
                /\ ended # "accepted" => c = None
                /\ call' = [call EXCEPT ![req[r].rx] = c]
    /\ UNCHANGED <<locks, holder, waiter, media, notice, closeVars, dropped>>

\* talk_map_insert: the id is new.
InsertTalk(r) ==
    /\ req[r].at = "insert"
    /\ talk' = [talk EXCEPT ![r] = [phase |-> "Talking", inflight |-> FALSE,
                                    invite |-> req[r].rx]]
    /\ Reply(r, "done")
    /\ UNCHANGED <<locks, waiter, inv, timer, byeTask, farVars, dropped>>

\* cleanup_talk_open, whose failure is ignored.
CleanupTalkOpen(r) ==
    /\ req[r].at = "cleanup" /\ Reply(r, "failed")
    /\ \E left \in {"closed", media[r]} : media' = [media EXCEPT ![r] = left]
    /\ UNCHANGED <<locks, waiter, inv, call, notice, closeVars, dropped>>

-----------------------------------------------------------------------------
(* talk_close.                                                              *)

Removed(r) ==
    /\ talk' = [talk EXCEPT ![r] = NoTalk] /\ timer' = [timer EXCEPT ![r] = FALSE]

\* Mutant: the deadline is not armed.
begin_NoDeadline(r) ==
    IF talk[r].phase # "Talking" THEN UNCHANGED closeVars
    ELSE /\ talk' = [talk EXCEPT ![r] = [@ EXCEPT !.phase = "Closing", !.inflight = TRUE]]
         /\ byeTask' = [byeTask EXCEPT ![r] = TRUE] /\ UNCHANGED timer

\* begin: a close is started once.  A device without registration, a deadline
\* that has passed or cannot be armed: the talk is removed at once.
begin(r) ==
    IF talk[r].phase # "Talking" THEN UNCHANGED closeVars
    ELSE \/ /\ has_session
            /\ talk' = [talk EXCEPT ![r] = [@ EXCEPT !.phase = "Closing", !.inflight = TRUE]]
            /\ timer' = [timer EXCEPT ![r] = TRUE]
            /\ byeTask' = [byeTask EXCEPT ![r] = TRUE]
         \/ Removed(r) /\ UNCHANGED byeTask

talk_stop(r) ==
    /\ talk[r].phase # None
    /\ begin(r)
    /\ \E left \in {"closed", media[r]} : media' = [media EXCEPT ![r] = left]
    /\ UNCHANGED <<setupVars, call, notice, dropped>>

\* invite_stop_by_device: the BYE is answered and its row ended.
ByeAnswered(r) ==
    /\ byeTask[r] /\ connected
    /\ byeTask' = [byeTask EXCEPT ![r] = FALSE]
    /\ IF talk[r].phase = "Closing"
       THEN Removed(r) /\ call' = [call EXCEPT ![talk[r].invite] = None]
       ELSE UNCHANGED <<talk, timer, call>>
    /\ UNCHANGED <<setupVars, media, notice, dropped>>

\* It fails: it waits for the device to come back (mark_failed).
ByeFails(r) ==
    /\ byeTask[r]
    /\ byeTask' = [byeTask EXCEPT ![r] = FALSE]
    /\ talk' = IF talk[r].phase = "Closing" THEN [talk EXCEPT ![r].inflight = FALSE]
               ELSE talk
    /\ UNCHANGED <<setupVars, timer, farVars, dropped>>

\* talk_close::retry_device, when the device is connected again.
Retried == {r \in Req : talk[r].phase = "Closing" /\ ~talk[r].inflight}
retry_device ==
    /\ talk' = [r \in Req |-> IF r \in Retried THEN [talk[r] EXCEPT !.inflight = TRUE]
                              ELSE talk[r]]
    /\ byeTask' = [r \in Req |-> byeTask[r] \/ r \in Retried]
    /\ UNCHANGED timer

\* talk_close_force: the deadline.
DeadlinePasses(r) ==
    /\ timer[r] /\ Removed(r)
    /\ UNCHANGED <<setupVars, byeTask, farVars, dropped>>

\* peer_dialog_terminated: the device's BYE; the sender's end may be missed.
PeerBye(i) ==
    /\ call[i] = "up" /\ call' = [call EXCEPT ![i] = None]
    /\ \/ \E r \in Req :
             /\ talk[r].phase # None /\ talk[r].invite = i /\ Removed(r)
             /\ \E left \in {"closed", media[r]} : media' = [media EXCEPT ![r] = left]
       \/ /\ \A r \in Req : talk[r].phase = None \/ talk[r].invite # i
          /\ UNCHANGED <<talk, timer, media>>
    /\ UNCHANGED <<setupVars, byeTask, notice, dropped>>

\* run_rtp_sender ends by itself: no input in time.
SenderEnds(r) ==
    /\ media[r] = "open" /\ media' = [media EXCEPT ![r] = "closed"]
    /\ notice' = [notice EXCEPT ![r] = TRUE]
    /\ UNCHANGED <<setupVars, closeVars, call, dropped>>

\* talk_closed; notify_talk_closed gives up after its tries.
talk_closed(r) ==
    /\ notice[r] /\ notice' = [notice EXCEPT ![r] = FALSE]
    /\ begin(r) \/ UNCHANGED closeVars
    /\ UNCHANGED <<setupVars, call, media, dropped>>

\* reset_device_state: the talks, their deadlines and the set-up locks.
ResetTalks ==
    /\ talk' = [r \in Req |-> NoTalk] /\ timer' = [r \in Req |-> FALSE]
    /\ locks' = [c \in Channel |-> None]
    /\ dropped' = dropped \cup
          {req[r].channel : r \in {s \in Req : req[s].at \in InSetup}}
    /\ UNCHANGED <<req, holder, waiter, inv, byeTask, farVars>>

-----------------------------------------------------------------------------

TalkInit ==
    /\ req = [r \in Req |-> [at |-> "idle", channel |-> None, lock |-> None,
                             rx |-> None]]
    /\ locks = [c \in Channel |-> None] /\ holder = [r \in Req |-> None]
    /\ waiter = None /\ inv = [r \in Req |-> None] /\ call = [r \in Req |-> None]
    /\ talk = [r \in Req |-> NoTalk] /\ timer = [r \in Req |-> FALSE]
    /\ byeTask = [r \in Req |-> FALSE] /\ media = [r \in Req |-> None]
    /\ notice = [r \in Req |-> FALSE] /\ dropped = {}

TalkNext ==
    \E r \in Req :
        \/ Start(r) \/ Lock(r) \/ CheckTalkMap(r) \/ TalkOpen(r) \/ NotifyBroadcast(r)
        \/ MessageAnswered(r) \/ MessageFails(r) \/ ResponseAccepts(r)
        \/ ResponseFails(r) \/ RemoveWaiter(r) \/ DeviceInvites(r) \/ IncomingInvite(r)
        \/ TakeInvite(r)
        \/ InviteFails(r) \/ TalkAnswer(r) \/ AcceptInvite(r) \/ AcceptFails(r)
        \/ InsertTalk(r) \/ CleanupTalkOpen(r) \/ talk_stop(r) \/ ByeAnswered(r)
        \/ ByeFails(r) \/ DeadlinePasses(r) \/ PeerBye(r) \/ SenderEnds(r)
        \/ talk_closed(r)

-----------------------------------------------------------------------------
(* Properties.                                                              *)

\* Everything has the shape the code gives it, and a set-up under way holds
\* its lock (talk_start keeps the guard to its end).
TalkTypeOK ==
    /\ req \in [Req -> [at : InSetup \cup {"idle", "done", "failed"},
                        channel : Channel \cup {None}, lock : Req \cup {None},
                        rx : Req \cup {None}]]
    /\ locks \in [Channel -> Req \cup {None}] /\ holder \in [Req -> Req \cup {None}]
    /\ \A r \in Req : req[r].at \in InSetup =>
          /\ req[r].channel \in Channel /\ req[r].lock \in Req
          /\ req[r].at # "lock" => holder[req[r].lock] = r
    /\ waiter \in Req \cup {None} /\ dropped \subseteq Channel
    /\ inv \in [Req -> {None, "sent", "buffered", "missed", "accepted", "rejected",
                        "unqueued"}]
    /\ call \in [Req -> {None, "up"}] /\ media \in [Req -> {None, "open", "closed"}]
    /\ talk \in [Req -> [phase : {None, "Talking", "Closing"}, inflight : BOOLEAN,
                         invite : Req \cup {None}]]
    /\ notice \in [Req -> BOOLEAN]
    /\ timer \in [Req -> BOOLEAN] /\ byeTask \in [Req -> BOOLEAN]

\* A channel has one talk at a time (the set-up lock, the talk map), except
\* where a reset dropped the lock of a set-up under way.
OneTalkPerChannel ==
    \A r, s \in Req :
        r # s /\ talk[r].phase # None /\ talk[s].phase # None
            /\ req[r].channel = req[s].channel => req[r].channel \in dropped

\* No set-up ends with an INVITE in its hands that it did not try to answer,
\* whichever step fails and whoever replaced or removed the target's waiter, and
\* none is handed to a set-up that has gone.  Two INVITEs stay unanswered all
\* the same: one whose answer the full command queue refused ("unqueued"), and
\* one that comes between the look into the buffer and the waiter's removal
\* ("missed").
InviteAttended ==
    /\ waiter # None => req[waiter].at \in Listening \cup {"giveUp"} /\ req[waiter].rx = None
    /\ \A i \in Req : inv[i] = "buffered" =>
          \E r \in Req : req[r].rx = i /\ req[r].at \in Listening \cup {"answer", "accept"}

\* A talk that is being closed has its deadline armed, and a BYE of it is
\* under way whenever one is marked so: it leaves the map whatever the device
\* answers.
ClosingBounded ==
    \A r \in Req : talk[r].phase = "Closing" =>
        timer[r] /\ (talk[r].inflight => byeTask[r])
=============================================================================
