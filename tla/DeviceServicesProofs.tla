------------------------ MODULE DeviceServicesProofs ------------------------
(***************************************************************************)
(* The services of a device: its catalog subscription is kept up, its      *)
(* talks exclude each other and end, and no set-up leaves an INVITE in its *)
(* hands, for any requests, channels and tasks, whatever the registration  *)
(* does and whichever timers and answers are refused.                      *)
(***************************************************************************)
EXTENDS DeviceServices, TLAPS

(***************************************************************************)
(* The catalog subscription.  A subscription has a generation and a call   *)
(* of its own; a refresh that is in flight for the current generation is   *)
(* one of the current call, and marked as such.  While the device is away  *)
(* with a registration, the subscription is kept up, too: a keepalive that *)
(* brings the device back subscribes nothing.                              *)
(***************************************************************************)
GenerationsFresh ==
  /\ sub.gen <= lastGen
  /\ \A g \in Gen : refresh[g] # 0 => g <= lastGen

CallsNumbered ==
  /\ sub.gen # 0 => sub.call # 0
  /\ \A t \in Task : task[t].at = "wait" => task[t].call # 0

RefreshOfOwnCall ==
  /\ sub.inflight => refresh[sub.gen] # 0
  /\ sub.gen # 0 /\ refresh[sub.gen] # 0 => refresh[sub.gen] = sub.call

KeptUpWhileRegistered ==
  has_session => sub # NoSub \/ gaveUp \/ recovered \/ \E t \in Task : task[t].at \in Trying

CatalogInv ==
  /\ GenerationsFresh /\ CallsNumbered /\ RefreshOfOwnCall
  /\ KeptUpWhileRegistered /\ RefreshAhead /\ TagOfOwnDialog

(***************************************************************************)
(* Talks.  A request whose channel was not dropped by a reset shares the   *)
(* channel's lock, which one request holds; past the talk map's check the  *)
(* channel has no talk; an INVITE is only with a request that listens.     *)
(***************************************************************************)
Checked == InSetup \ {"lock", "check"}

LocksShared ==
  \A r \in Req : req[r].at \in InSetup =>
    req[r].channel \in dropped \/ req[r].lock = locks[req[r].channel]

CheckedChannelFree ==
  \A r, t \in Req :
    req[r].at \in Checked /\ talk[t].phase # None /\ req[r].channel = req[t].channel
      => req[r].channel \in dropped

TalksAreDone ==
  \A t \in Req : talk[t].phase # None => req[t].at = "done"

InviteAfterNotice ==
  \A r \in Req : req[r].at \in {"idle", "lock", "check", "open", "notify"} => req[r].rx = None

TalkInv ==
  /\ LocksShared /\ CheckedChannelFree /\ TalksAreDone /\ InviteAfterNotice
  /\ OneTalkPerChannel /\ InviteAttended /\ ClosingBounded

Inv == TypeOK /\ CatalogInv /\ TalkInv

-----------------------------------------------------------------------------
(***************************************************************************)
(* Types of the catalog subscription.                                      *)
(***************************************************************************)
Sub == [gen : 0 .. MaxGen, call : 0 .. MaxCalls, tag : 0 .. MaxCalls, inflight : BOOLEAN]

LEMMA NoSubType ==
  NoSub \in Sub /\ NoSub.gen = 0 /\ NoSub.call = 0 /\ NoSub.tag = 0 /\ ~ NoSub.inflight
BY CatalogAssumption DEF NoSub, Sub

LEMMA NewSub ==
  ASSUME NEW g \in 1 .. MaxGen, NEW c \in 0 .. MaxCalls,
         NEW n, n = [gen |-> g, call |-> c, tag |-> c, inflight |-> FALSE]
  PROVE  n \in Sub /\ n # NoSub /\ n.gen = g /\ n.call = c /\ n.tag = c /\ ~ n.inflight
BY CatalogAssumption DEF Sub, NoSub

LEMMA MarkedSub ==
  ASSUME NEW s \in Sub, NEW b \in BOOLEAN, NEW n, n = [s EXCEPT !.inflight = b]
  PROVE  n \in Sub /\ n.gen = s.gen /\ n.call = s.call /\ n.tag = s.tag /\ n.inflight = b
BY DEF Sub

LEMMA RefreshedSub ==
  ASSUME NEW s \in Sub, NEW c \in 0 .. MaxCalls,
         NEW n, n = [s EXCEPT !.tag = c, !.inflight = FALSE]
  PROVE  n \in Sub /\ n.gen = s.gen /\ n.call = s.call /\ n.tag = c /\ ~ n.inflight
BY DEF Sub

\* A timer that is replaced, or refused, is of its own generation only.
LEMMA ScheduledType ==
  ASSUME CatalogTypeOK, NEW g \in Gen, Schedule(g)
  PROVE  armed' \subseteq Gen /\ stalled' \subseteq Gen
BY DEF CatalogTypeOK, Schedule

LEMMA CatalogStepType ==
  ASSUME CatalogTypeOK, CatalogNext PROVE CatalogTypeOK'
<1> DEFINE State == [at : Trying \cup {"idle", "done"}, call : 0 .. MaxCalls]
<1>a. /\ MaxCalls \in Nat /\ MaxGen \in Nat /\ sub \in Sub /\ task \in [Task -> State]
      /\ lastGen \in 0 .. MaxGen /\ calls \in 0 .. MaxCalls /\ refresh \in [Gen -> 0 .. MaxCalls]
      /\ (sub.gen = 0 => sub = NoSub)
      /\ sub.gen \in 0 .. MaxGen /\ sub.call \in 0 .. MaxCalls
  BY CatalogAssumption DEF CatalogTypeOK, Sub
<1>s. ASSUME sub' \in Sub PROVE sub' \in [gen : 0 .. MaxGen, call : 0 .. MaxCalls,
                                         tag : 0 .. MaxCalls, inflight : BOOLEAN]
  BY <1>s DEF Sub
<1>b. ASSUME NEW t \in Task, NEW at \in Trying \cup {"done"}, SpawnTask(t, at)
      PROVE  task' \in [Task -> State]
  BY <1>a, <1>b DEF SpawnTask
<1>c. ASSUME NEW g \in Gen, RemoveGen(g), armed \subseteq Gen
      PROVE  sub' \in Sub /\ (sub'.gen = 0 => sub' = NoSub) /\ armed' \subseteq Gen
  BY <1>a, <1>c, NoSubType DEF RemoveGen
<1>1. ASSUME NEW t \in Task, Subscribe(t) PROVE CatalogTypeOK'
  <2>1. CASE connected
    <3>1. calls' \in 0 .. MaxCalls /\ calls' = calls + 1
      BY <1>1, <1>a, <2>1 DEF Subscribe
    <3>2. task' \in [Task -> State]
      BY <1>1, <1>a, <2>1, <3>1 DEF Subscribe, Trying
    <3> QED
      BY <1>1, <2>1, <3>1, <3>2 DEF Subscribe, CatalogTypeOK
  <2>2. CASE ~ connected
    <3>1. task' \in [Task -> State]
      BY <1>1, <1>a, <2>2 DEF Subscribe, Trying
    <3>2. gaveUp' \in BOOLEAN
      BY <1>1, <2>2 DEF Subscribe
    <3> QED
      BY <1>1, <2>2, <3>1, <3>2 DEF Subscribe, CatalogTypeOK
  <2> QED
    BY <2>1, <2>2
<1>2. ASSUME NEW t \in Task, Established(t) PROVE CatalogTypeOK'
  <2>1. task' \in [Task -> State]
    BY <1>2, <1>b DEF Established
  <2>2. task[t].call \in 0 .. MaxCalls
    BY <1>a
  <2>3. /\ lastGen' \in 0 .. MaxGen /\ sub' \in Sub /\ (sub'.gen = 0 => sub' = NoSub)
        /\ armed' \subseteq Gen /\ stalled' \subseteq Gen
    <3>1. CASE sub = NoSub
      <4>1. lastGen + 1 \in 1 .. MaxGen
        BY <1>2, <1>a, <3>1 DEF Established
      <4>2. sub' = [gen |-> lastGen + 1, call |-> task[t].call, tag |-> task[t].call,
                    inflight |-> FALSE]
        BY <1>2, <3>1 DEF Established
      <4>3. sub' \in Sub /\ sub'.gen = lastGen + 1
        BY <2>2, <4>1, <4>2, NewSub
      <4>4. lastGen' = lastGen + 1 /\ Schedule(lastGen + 1) /\ lastGen + 1 \in Gen
        BY <1>2, <3>1, <4>1 DEF Established, Gen
      <4>5. armed' \subseteq Gen /\ stalled' \subseteq Gen
        BY <4>4, ScheduledType
      <4> QED
        BY <1>a, <4>1, <4>3, <4>4, <4>5
    <3>2. CASE sub # NoSub
      BY <1>2, <1>a, <3>2 DEF Established, CatalogTypeOK
    <3> QED
      BY <3>1, <3>2
  <2> QED
    BY <1>2, <1>s, <2>1, <2>3 DEF Established, CatalogTypeOK
<1>3. ASSUME NEW t \in Task, SubscribeFails(t) PROVE CatalogTypeOK'
  <2>1. task' \in [Task -> State]
    BY <1>3, <1>b DEF SubscribeFails, Trying
  <2> QED
    BY <1>3, <2>1 DEF SubscribeFails, CatalogTypeOK
<1>4. ASSUME NEW g \in Gen, TimerFires(g) PROVE CatalogTypeOK'
  BY <1>4 DEF TimerFires, CatalogTypeOK
<1>5. ASSUME NEW g \in Gen, TakeRefresh(g) PROVE CatalogTypeOK'
  <2>1. sub' \in Sub /\ (sub'.gen = 0 => sub' = NoSub)
    <3>1. CASE sub' = sub
      BY <1>a, <3>1
    <3>2. CASE sub.gen = g /\ sub' = [sub EXCEPT !.inflight = TRUE]
      <4>1. sub' \in Sub /\ sub'.gen = g
        BY <1>a, <3>2, MarkedSub
      <4> QED
        BY <4>1 DEF Gen
    <3> QED
      BY <1>5, <3>1, <3>2 DEF TakeRefresh
  <2>2. refresh' \in [Gen -> 0 .. MaxCalls]
    BY <1>5, <1>a DEF TakeRefresh
  <2> QED
    BY <1>5, <1>s, <2>1, <2>2 DEF TakeRefresh, CatalogTypeOK
<1>6. ASSUME NEW g \in Gen, Refreshed(g) PROVE CatalogTypeOK'
  <2>1. sub' \in Sub /\ (sub'.gen = 0 => sub' = NoSub)
    <3>1. CASE sub.gen # g
      BY <1>6, <1>a, <3>1 DEF Refreshed, complete
    <3>2. CASE sub.gen = g
      <4>1. refresh[g] \in 0 .. MaxCalls
        BY <1>a
      <4>2. sub' = [sub EXCEPT !.tag = refresh[g], !.inflight = FALSE]
        BY <1>6, <3>2 DEF Refreshed, complete
      <4>3. sub \in Sub
        BY <1>a
      <4>4. sub' \in Sub /\ sub'.gen = g
        BY <3>2, <4>1, <4>2, <4>3 DEF Sub
      <4> QED
        BY <4>4 DEF Gen
    <3> QED
      BY <3>1, <3>2
  <2>2. refresh' \in [Gen -> 0 .. MaxCalls]
    BY <1>6, <1>a DEF Refreshed
  <2>3. armed' \subseteq Gen /\ stalled' \subseteq Gen
    BY <1>6, ScheduledType DEF Refreshed
  <2> QED
    BY <1>6, <1>s, <2>1, <2>2, <2>3 DEF Refreshed, CatalogTypeOK
<1>7. ASSUME NEW g \in Gen, RefreshFails(g) PROVE CatalogTypeOK'
  <2>1. sub' \in Sub /\ (sub'.gen = 0 => sub' = NoSub)
    <3>1. CASE sub.gen # g
      BY <1>7, <1>a, <3>1 DEF RefreshFails, MarkFailed
    <3>2. CASE sub.gen = g
      <4>1. sub' = [sub EXCEPT !.inflight = FALSE]
        BY <1>7, <3>2 DEF RefreshFails, MarkFailed
      <4>2. sub' \in Sub /\ sub'.gen = g
        BY <1>a, <3>2, <4>1, MarkedSub
      <4> QED
        BY <4>2 DEF Gen
    <3> QED
      BY <3>1, <3>2
  <2>2. refresh' \in [Gen -> 0 .. MaxCalls]
    BY <1>7, <1>a DEF RefreshFails
  <2>3. armed' \subseteq Gen /\ stalled' \subseteq Gen
    BY <1>7, ScheduledType DEF RefreshFails
  <2> QED
    BY <1>7, <1>s, <2>1, <2>2, <2>3 DEF RefreshFails, CatalogTypeOK
<1>8. ASSUME NEW g \in Gen, RefreshUnknown(g) PROVE CatalogTypeOK'
  <2>1. task' \in [Task -> State]
    BY <1>8, <1>b DEF RefreshUnknown, Trying, Idle
  <2>2. refresh' \in [Gen -> 0 .. MaxCalls]
    BY <1>8, <1>a DEF RefreshUnknown
  <2> QED
    BY <1>8, <1>s, <1>c, <2>1, <2>2 DEF RefreshUnknown, CatalogTypeOK
<1>9. ASSUME NotifyExpires PROVE CatalogTypeOK'
  <2>1. sub.gen \in Gen
    BY <1>9, <1>a DEF NotifyExpires, Gen
  <2>2. armed' \subseteq Gen /\ stalled' \subseteq Gen
    BY <1>9, <2>1, ScheduledType DEF NotifyExpires
  <2> QED
    BY <1>9, <2>1, <2>2 DEF NotifyExpires, CatalogTypeOK
<1>10. ASSUME NotifyTerminated PROVE CatalogTypeOK'
  <2>1. sub.gen \in Gen
    BY <1>10, <1>a DEF NotifyTerminated, Gen
  <2>2. task' \in [Task -> State]
    BY <1>10, <1>b DEF NotifyTerminated, Trying, Idle
  <2> QED
    BY <1>10, <1>s, <1>c, <2>1, <2>2 DEF NotifyTerminated, CatalogTypeOK
<1> QED
  BY <1>1, <1>2, <1>3, <1>4, <1>5, <1>6, <1>7, <1>8, <1>9, <1>10 DEF CatalogNext

-----------------------------------------------------------------------------
(***************************************************************************)
(* Types of the talks, and what a step does to the requests: it starts one *)
(* that takes a lock, takes one forward under its lock, ends one, which    *)
(* frees the lock, or leaves their places alone.                           *)
(***************************************************************************)
Request == [at : InSetup \cup {"idle", "done", "failed"}, channel : Channel \cup {None},
            lock : Req \cup {None}, rx : Req \cup {None}]
TalkState == [phase : {None, "Talking", "Closing"}, inflight : BOOLEAN, invite : Req \cup {None}]
Answer == {None, "sent", "buffered", "missed", "accepted", "rejected", "unqueued"}

SetupTypeOK ==
  /\ req \in [Req -> Request] /\ inv \in [Req -> Answer]
  /\ locks \in [Channel -> Req \cup {None}] /\ holder \in [Req -> Req \cup {None}]
  /\ waiter \in Req \cup {None}

CloseTypeOK ==
  /\ talk \in [Req -> TalkState] /\ timer \in [Req -> BOOLEAN] /\ byeTask \in [Req -> BOOLEAN]

FarTypeOK ==
  /\ call \in [Req -> {None, "up"}] /\ media \in [Req -> {None, "open", "closed"}]
  /\ notice \in [Req -> BOOLEAN] /\ dropped \subseteq Channel

Held == InSetup \ {"lock"}

Seated ==
  \A r \in Req : req[r].at \in InSetup =>
    /\ req[r].channel \in Channel /\ req[r].lock \in Req
    /\ req[r].at # "lock" => holder[req[r].lock] = r

LEMMA TalkTypeParts ==
  TalkTypeOK <=> SetupTypeOK /\ CloseTypeOK /\ FarTypeOK /\ Seated
BY DEF TalkTypeOK, SetupTypeOK, CloseTypeOK, FarTypeOK, Seated, Request, TalkState, Answer

\* A request is taken forward, past the check only when its channel has no talk.
StepsOn(r) ==
  /\ req[r].at \in Held /\ req'[r].at \in Held
  /\ req'[r].at \in Checked =>
       \/ req[r].at \in Checked
       \/ \A t \in Req : talk[t].phase # None => req[t].channel # req[r].channel
  /\ \A s \in Req : req'[s].channel = req[s].channel /\ req'[s].lock = req[s].lock
  /\ \A s \in Req \ {r} : req'[s].at = req[s].at
  /\ UNCHANGED <<locks, holder, dropped>>

Leaves(r) ==
  /\ req[r].at \in Held /\ req'[r].at \in {"done", "failed"}
  /\ \A s \in Req : req'[s].channel = req[s].channel
  /\ \A s \in Req \ {r} : req'[s].at = req[s].at /\ req'[s].lock = req[s].lock
  /\ holder' = [holder EXCEPT ![req[r].lock] = None]
  /\ UNCHANGED <<locks, dropped>>

Stays ==
  /\ \A s \in Req : /\ req'[s].channel = req[s].channel /\ req'[s].lock = req[s].lock
                    /\ req'[s].at = req[s].at
  /\ UNCHANGED <<locks, holder, dropped>>

NoTalkAdded == \A t \in Req : talk'[t].phase # None => talk[t].phase # None

-----------------------------------------------------------------------------

LEMMA RequestMoves ==
  ASSUME SetupTypeOK, NEW r \in Req, NEW at \in InSetup \cup {"done", "failed"}, At(r, at)
  PROVE  /\ req' \in [Req -> Request] /\ req'[r].at = at
         /\ \A s \in Req : /\ req'[s].channel = req[s].channel /\ req'[s].lock = req[s].lock
                           /\ req'[s].rx = req[s].rx
         /\ \A s \in Req \ {r} : req'[s].at = req[s].at
BY DEF SetupTypeOK, Request, At

LEMMA RequestReplies ==
  ASSUME SetupTypeOK, NEW r \in Req, NEW at \in {"done", "failed"}, Reply(r, at)
  PROVE  /\ req' \in [Req -> Request] /\ req'[r].at = at /\ req'[r].rx = None
         /\ \A s \in Req : req'[s].channel = req[s].channel
         /\ \A s \in Req \ {r} : req'[s] = req[s]
         /\ holder' \in [Req -> Req \cup {None}]
         /\ holder' = [holder EXCEPT ![req[r].lock] = None]
BY DEF SetupTypeOK, Request, Reply

\* A rejection, queued or not, leaves no INVITE waiting that did not wait.
LEMMA Rejected ==
  ASSUME SetupTypeOK, NEW i, Reject(i)
  PROVE  /\ inv' \in [Req -> Answer]
         /\ \A j \in Req : inv'[j] = "buffered" => j # i /\ inv[j] = "buffered"
<1>1. PICK a \in {"rejected", "unqueued"} : inv' = [inv EXCEPT ![i] = a]
  BY DEF Reject
<1> QED
  BY <1>1 DEF SetupTypeOK, Answer

LEMMA BroadcastGivenUp ==
  ASSUME SetupTypeOK, NEW r \in Req, GiveUpBroadcast(r)
  PROVE  /\ req' \in [Req -> Request] /\ req'[r].at = "giveUp" /\ req'[r].rx = None
         /\ \A s \in Req : req'[s].channel = req[s].channel /\ req'[s].lock = req[s].lock
         /\ \A s \in Req \ {r} : req'[s] = req[s]
         /\ inv' \in [Req -> Answer]
         /\ \A i \in Req : inv'[i] = "buffered" => i # req[r].rx /\ inv[i] = "buffered"
<1>1. reject_buffered(r) /\ req[r].rx \in Req \cup {None}
  BY DEF GiveUpBroadcast, SetupTypeOK, Request
<1>2. inv' \in [Req -> Answer]
      /\ \A i \in Req : inv'[i] = "buffered" => i # req[r].rx /\ inv[i] = "buffered"
  <2>1. CASE req[r].rx = None
    BY <1>1, <2>1, TalkAssumption DEF reject_buffered, SetupTypeOK
  <2>2. CASE req[r].rx # None
    BY <1>1, <2>2, Rejected DEF reject_buffered
  <2> QED
    BY <2>1, <2>2
<1>3. req' = [req EXCEPT ![r] = [@ EXCEPT !.at = "giveUp", !.rx = None]]
  BY DEF GiveUpBroadcast
<1>4. /\ req' \in [Req -> Request] /\ req'[r].at = "giveUp" /\ req'[r].rx = None
      /\ \A s \in Req : req'[s].channel = req[s].channel /\ req'[s].lock = req[s].lock
      /\ \A s \in Req \ {r} : req'[s] = req[s]
  BY <1>3 DEF SetupTypeOK, Request, InSetup
<1> QED
  BY <1>2, <1>4

(***************************************************************************)
(* Every step of the talks has one of these shapes, and keeps the types.   *)
(***************************************************************************)
Kept == SetupTypeOK' /\ CloseTypeOK' /\ FarTypeOK'

LEMMA StartTakesLock ==
  ASSUME SetupTypeOK, NEW r \in Req, Start(r)
  PROVE  \E c \in Channel, lock \in Req :
           /\ lock = IF locks[c] = None THEN r ELSE locks[c]
           /\ req' = [req EXCEPT ![r] = [@ EXCEPT !.at = "lock", !.channel = c, !.lock = lock]]
           /\ locks' = [locks EXCEPT ![c] = lock]
<1>1. PICK c \in Channel :
        LET lock == IF locks[c] = None THEN r ELSE locks[c]
        IN  /\ req' = [req EXCEPT ![r] = [@ EXCEPT !.at = "lock", !.channel = c, !.lock = lock]]
            /\ locks' = [locks EXCEPT ![c] = lock]
  BY DEF Start
<1> DEFINE lock == IF locks[c] = None THEN r ELSE locks[c]
<1>2. lock \in Req
  BY DEF SetupTypeOK
<1> QED
  BY <1>1, <1>2

LEMMA TalkStarts ==
  ASSUME SetupTypeOK, CloseTypeOK, FarTypeOK, NEW r \in Req, Start(r) \/ Lock(r), Seated
  PROVE  Kept /\ NoTalkAdded
<1>1. CASE Start(r)
  <2>1. PICK c \in Channel, lock \in Req :
          /\ req' = [req EXCEPT ![r] = [@ EXCEPT !.at = "lock", !.channel = c, !.lock = lock]]
          /\ locks' = [locks EXCEPT ![c] = lock]
    BY <1>1, StartTakesLock
  <2>2. req' \in [Req -> Request] /\ locks' \in [Channel -> Req \cup {None}]
    BY <2>1 DEF SetupTypeOK, Request, InSetup
  <2> QED
    BY <1>1, <2>2 DEF Start, Kept, SetupTypeOK, CloseTypeOK, FarTypeOK, closeVars, farVars,
                      NoTalkAdded
<1>2. CASE Lock(r)
  <2>1. req[r].lock \in Req /\ At(r, "check")
    BY <1>2 DEF Lock, Seated, InSetup
  <2>2. req' \in [Req -> Request] /\ holder' \in [Req -> Req \cup {None}]
    BY <1>2, <2>1, RequestMoves DEF Lock, SetupTypeOK, InSetup
  <2> QED
    BY <1>2, <2>2 DEF Lock, Kept, SetupTypeOK, CloseTypeOK, FarTypeOK, closeVars, farVars,
                      NoTalkAdded
<1> QED
  BY <1>1, <1>2

LEMMA TalkStepsOn ==
  ASSUME SetupTypeOK, CloseTypeOK, FarTypeOK, NEW r \in Req,
         \/ CheckTalkMap(r) /\ ~ Reply(r, "failed")
         \/ TalkOpen(r) /\ ~ Reply(r, "failed")
         \/ NotifyBroadcast(r) \/ MessageAnswered(r) \/ ResponseAccepts(r)
         \/ TakeInvite(r) \/ TalkAnswer(r) \/ AcceptInvite(r) \/ AcceptFails(r)
         \/ RemoveWaiter(r) \/ InviteFails(r)
  PROVE  Kept /\ NoTalkAdded /\ StepsOn(r) /\ req'[r].rx = req[r].rx
<1> USE DEF InSetup, Listening, Held, Checked
<1>1. CASE CheckTalkMap(r) /\ ~ Reply(r, "failed")
  <2>1. At(r, "open")
    BY <1>1 DEF CheckTalkMap
  <2>2. /\ req' \in [Req -> Request] /\ StepsOn(r) /\ req'[r].rx = req[r].rx
    <3>1. UNCHANGED <<locks, holder, dropped>> /\ req[r].at \in Held
      BY <1>1 DEF CheckTalkMap
    <3> QED
      BY <1>1, <2>1, <3>1, RequestMoves DEF CheckTalkMap, StepsOn
  <2> QED
    BY <1>1, <2>2 DEF CheckTalkMap, Kept, SetupTypeOK, CloseTypeOK, FarTypeOK, closeVars, farVars, setupVars, NoTalkAdded
<1>2. CASE TalkOpen(r) /\ ~ Reply(r, "failed")
  <2>1. At(r, "notify")
    BY <1>2 DEF TalkOpen
  <2>2. /\ req' \in [Req -> Request] /\ StepsOn(r) /\ req'[r].rx = req[r].rx
    <3>1. UNCHANGED <<locks, holder, dropped>> /\ req[r].at \in Held
      BY <1>2 DEF TalkOpen
    <3> QED
      BY <1>2, <2>1, <3>1, RequestMoves DEF TalkOpen, StepsOn
  <2> QED
    BY <1>2, <2>2 DEF TalkOpen, Kept, SetupTypeOK, CloseTypeOK, FarTypeOK, closeVars, farVars, setupVars, NoTalkAdded
<1>3. CASE NotifyBroadcast(r)
  <2>1. At(r, "message")
    BY <1>3 DEF NotifyBroadcast
  <2>2. /\ req' \in [Req -> Request] /\ StepsOn(r) /\ req'[r].rx = req[r].rx
    <3>1. UNCHANGED <<locks, holder, dropped>> /\ req[r].at \in Held
      BY <1>3 DEF NotifyBroadcast
    <3> QED
      BY <1>3, <2>1, <3>1, RequestMoves DEF NotifyBroadcast, StepsOn
  <2> QED
    BY <1>3, <2>2 DEF NotifyBroadcast, Kept, SetupTypeOK, CloseTypeOK, FarTypeOK, closeVars, farVars, setupVars, NoTalkAdded
<1>4. CASE MessageAnswered(r)
  <2>1. At(r, "response")
    BY <1>4 DEF MessageAnswered
  <2>2. /\ req' \in [Req -> Request] /\ StepsOn(r) /\ req'[r].rx = req[r].rx
    <3>1. UNCHANGED <<locks, holder, dropped>> /\ req[r].at \in Held
      BY <1>4 DEF MessageAnswered
    <3> QED
      BY <1>4, <2>1, <3>1, RequestMoves DEF MessageAnswered, StepsOn
  <2> QED
    BY <1>4, <2>2 DEF MessageAnswered, Kept, SetupTypeOK, CloseTypeOK, FarTypeOK, closeVars, farVars, setupVars, NoTalkAdded
<1>5. CASE ResponseAccepts(r)
  <2>1. At(r, "invite")
    BY <1>5 DEF ResponseAccepts
  <2>2. /\ req' \in [Req -> Request] /\ StepsOn(r) /\ req'[r].rx = req[r].rx
    <3>1. UNCHANGED <<locks, holder, dropped>> /\ req[r].at \in Held
      BY <1>5 DEF ResponseAccepts
    <3> QED
      BY <1>5, <2>1, <3>1, RequestMoves DEF ResponseAccepts, StepsOn
  <2> QED
    BY <1>5, <2>2 DEF ResponseAccepts, Kept, SetupTypeOK, CloseTypeOK, FarTypeOK, closeVars, farVars, setupVars, NoTalkAdded
<1>6. CASE TakeInvite(r)
  <2>1. At(r, "answer") \/ At(r, "cleanup")
    BY <1>6 DEF TakeInvite
  <2>2. /\ req' \in [Req -> Request] /\ StepsOn(r) /\ req'[r].rx = req[r].rx
    <3>1. UNCHANGED <<locks, holder, dropped>> /\ req[r].at \in Held
      BY <1>6 DEF TakeInvite
    <3> QED
      BY <1>6, <2>1, <3>1, RequestMoves DEF TakeInvite, StepsOn
  <2>3. inv' \in [Req -> Answer]
    BY <1>6, Rejected DEF TakeInvite, SetupTypeOK
  <2> QED
    BY <1>6, <2>2, <2>3 DEF TakeInvite, Kept, SetupTypeOK, CloseTypeOK, FarTypeOK, closeVars, farVars, setupVars, NoTalkAdded
<1>7. CASE TalkAnswer(r)
  <2>1. At(r, "accept") \/ At(r, "cleanup")
    BY <1>7 DEF TalkAnswer
  <2>2. /\ req' \in [Req -> Request] /\ StepsOn(r) /\ req'[r].rx = req[r].rx
    <3>1. UNCHANGED <<locks, holder, dropped>> /\ req[r].at \in Held
      BY <1>7 DEF TalkAnswer
    <3> QED
      BY <1>7, <2>1, <3>1, RequestMoves DEF TalkAnswer, StepsOn
  <2>3. inv' \in [Req -> Answer]
    BY <1>7, Rejected DEF TalkAnswer, SetupTypeOK
  <2> QED
    BY <1>7, <2>2, <2>3 DEF TalkAnswer, Kept, SetupTypeOK, CloseTypeOK, FarTypeOK, closeVars, farVars, setupVars, NoTalkAdded
<1>8. CASE AcceptInvite(r)
  <2>1. At(r, "insert")
    BY <1>8 DEF AcceptInvite
  <2>2. /\ req' \in [Req -> Request] /\ StepsOn(r) /\ req'[r].rx = req[r].rx
    <3>1. UNCHANGED <<locks, holder, dropped>> /\ req[r].at \in Held
      BY <1>8 DEF AcceptInvite
    <3> QED
      BY <1>8, <2>1, <3>1, RequestMoves DEF AcceptInvite, StepsOn
  <2>3. inv' \in [Req -> Answer] /\ call' \in [Req -> {None, "up"}]
    BY <1>8 DEF AcceptInvite, SetupTypeOK, FarTypeOK, Answer
  <2> QED
    BY <1>8, <2>2, <2>3 DEF AcceptInvite, Kept, SetupTypeOK, CloseTypeOK, FarTypeOK, closeVars, farVars, setupVars, NoTalkAdded
<1>9. CASE AcceptFails(r)
  <2>1. At(r, "cleanup")
    BY <1>9 DEF AcceptFails
  <2>2. /\ req' \in [Req -> Request] /\ StepsOn(r) /\ req'[r].rx = req[r].rx
    <3>1. UNCHANGED <<locks, holder, dropped>> /\ req[r].at \in Held
      BY <1>9 DEF AcceptFails
    <3> QED
      BY <1>9, <2>1, <3>1, RequestMoves DEF AcceptFails, StepsOn
  <2>3. inv' \in [Req -> Answer] /\ call' \in [Req -> {None, "up"}]
    <3>1. PICK ended \in {"rejected", "unqueued", "accepted"}, c \in {None, "up"} :
            inv' = [inv EXCEPT ![req[r].rx] = ended] /\ call' = [call EXCEPT ![req[r].rx] = c]
      BY <1>9 DEF AcceptFails
    <3>2. inv' \in [Req -> Answer]
      BY <3>1 DEF SetupTypeOK, Answer
    <3>3. call' \in [Req -> {None, "up"}]
      BY <3>1 DEF FarTypeOK
    <3> QED
      BY <3>2, <3>3
  <2> QED
    BY <1>9, <2>2, <2>3 DEF AcceptFails, Kept, SetupTypeOK, CloseTypeOK, FarTypeOK, closeVars, farVars, setupVars, NoTalkAdded
<1>10. CASE RemoveWaiter(r) \/ InviteFails(r)
  <2>1. At(r, "cleanup") /\ waiter' = None
    BY <1>10 DEF RemoveWaiter, InviteFails
  <2>2. /\ req' \in [Req -> Request] /\ StepsOn(r) /\ req'[r].rx = req[r].rx
    <3>1. UNCHANGED <<locks, holder, dropped>> /\ req[r].at \in {"giveUp", "invite"}
      BY <1>10 DEF RemoveWaiter, InviteFails
    <3> QED
      BY <2>1, <3>1, RequestMoves DEF StepsOn
  <2>3. UNCHANGED <<locks, holder, inv, closeVars, farVars, dropped>>
    BY <1>10 DEF RemoveWaiter, InviteFails
  <2> QED
    BY <2>1, <2>2, <2>3 DEF Kept, SetupTypeOK, CloseTypeOK, FarTypeOK, closeVars, farVars, NoTalkAdded
<1> QED
  BY <1>1, <1>2, <1>3, <1>4, <1>5, <1>6, <1>7, <1>8, <1>9, <1>10

LEMMA TalkGivesUp ==
  ASSUME SetupTypeOK, CloseTypeOK, FarTypeOK, NEW r \in Req,
         MessageFails(r) \/ ResponseFails(r)
  PROVE  Kept /\ NoTalkAdded /\ StepsOn(r) /\ GiveUpBroadcast(r) /\ req[r].at \in Listening
<1>1. GiveUpBroadcast(r) /\ req[r].at \in Listening
  BY DEF MessageFails, ResponseFails, Listening
<1>2. req' \in [Req -> Request] /\ inv' \in [Req -> Answer]
  BY <1>1, BroadcastGivenUp
<1>3. StepsOn(r)
  BY <1>1, BroadcastGivenUp DEF StepsOn, GiveUpBroadcast, Listening, InSetup, Held, Checked
<1> QED
  BY <1>1, <1>2, <1>3 DEF GiveUpBroadcast, Kept, SetupTypeOK, CloseTypeOK, FarTypeOK, closeVars, farVars, setupVars, NoTalkAdded

LEMMA TalkLeaves ==
  ASSUME SetupTypeOK, CloseTypeOK, FarTypeOK, NEW r \in Req,
         \/ CheckTalkMap(r) /\ Reply(r, "failed")
         \/ TalkOpen(r) /\ Reply(r, "failed")
         \/ InsertTalk(r) \/ CleanupTalkOpen(r)
  PROVE  Kept /\ Leaves(r) /\ (NoTalkAdded \/ InsertTalk(r)) /\ req'[r].rx = None
<1> USE DEF InSetup, Listening, Held
<1>1. CASE CheckTalkMap(r) /\ Reply(r, "failed")
  <2>1. Reply(r, "failed")
    BY <1>1 DEF CheckTalkMap
  <2>2. /\ req' \in [Req -> Request] /\ Leaves(r) /\ holder' \in [Req -> Req \cup {None}]
        /\ req'[r].rx = None
    BY <1>1, <2>1, RequestReplies DEF CheckTalkMap, Leaves
  <2>3. UNCHANGED <<locks, waiter, inv>>
    BY <1>1, <2>1 DEF CheckTalkMap
  <2> QED
    BY <1>1, <2>2, <2>3 DEF CheckTalkMap, Kept, SetupTypeOK, CloseTypeOK, FarTypeOK, closeVars, farVars, setupVars, NoTalkAdded
<1>2. CASE TalkOpen(r) /\ Reply(r, "failed")
  <2>1. Reply(r, "failed")
    BY <1>2 DEF TalkOpen
  <2>2. /\ req' \in [Req -> Request] /\ Leaves(r) /\ holder' \in [Req -> Req \cup {None}]
        /\ req'[r].rx = None
    BY <1>2, <2>1, RequestReplies DEF TalkOpen, Leaves
  <2>3. media' \in [Req -> {None, "open", "closed"}]
    BY <1>2, <2>1 DEF TalkOpen, FarTypeOK
  <2> QED
    BY <1>2, <2>2, <2>3 DEF TalkOpen, Kept, SetupTypeOK, CloseTypeOK, FarTypeOK, closeVars, farVars, setupVars, NoTalkAdded
<1>3. CASE InsertTalk(r)
  <2>1. Reply(r, "done")
    BY <1>3 DEF InsertTalk
  <2>2. /\ req' \in [Req -> Request] /\ Leaves(r) /\ holder' \in [Req -> Req \cup {None}]
        /\ req'[r].rx = None
    BY <1>3, <2>1, RequestReplies DEF InsertTalk, Leaves
  <2>3. talk' \in [Req -> TalkState]
    BY <1>3, <2>1 DEF InsertTalk, CloseTypeOK, TalkState, SetupTypeOK, Request
  <2> QED
    BY <1>3, <2>2, <2>3 DEF InsertTalk, Kept, SetupTypeOK, CloseTypeOK, FarTypeOK, closeVars, farVars, setupVars, NoTalkAdded
<1>4. CASE CleanupTalkOpen(r)
  <2>1. Reply(r, "failed")
    BY <1>4 DEF CleanupTalkOpen
  <2>2. /\ req' \in [Req -> Request] /\ Leaves(r) /\ holder' \in [Req -> Req \cup {None}]
        /\ req'[r].rx = None
    BY <1>4, <2>1, RequestReplies DEF CleanupTalkOpen, Leaves
  <2>3. media' \in [Req -> {None, "open", "closed"}]
    BY <1>4, <2>1 DEF CleanupTalkOpen, FarTypeOK
  <2> QED
    BY <1>4, <2>2, <2>3 DEF CleanupTalkOpen, Kept, SetupTypeOK, CloseTypeOK, FarTypeOK, closeVars, farVars, setupVars, NoTalkAdded
<1> QED
  BY <1>1, <1>2, <1>3, <1>4

LEMMA TalkInvited ==
  ASSUME SetupTypeOK, CloseTypeOK, FarTypeOK, NEW i \in Req,
         DeviceInvites(i) \/ IncomingInvite(i)
  PROVE  Kept /\ NoTalkAdded /\ Stays
<1>1. CASE DeviceInvites(i)
  <2>1. inv' \in [Req -> Answer]
    BY <1>1 DEF DeviceInvites, SetupTypeOK, Answer
  <2> QED
    BY <1>1, <2>1 DEF DeviceInvites, Stays, Kept, SetupTypeOK, CloseTypeOK, FarTypeOK, closeVars,
                      farVars, NoTalkAdded
<1>2. CASE IncomingInvite(i)
  <2>1. inv' \in [Req -> Answer] /\ waiter' \in Req \cup {None}
    <3>1. CASE Reject(i)
      BY <1>2, <3>1, Rejected DEF IncomingInvite
    <3>2. CASE \E a \in {"missed", "buffered"} : inv' = [inv EXCEPT ![i] = a]
      BY <1>2, <3>2 DEF IncomingInvite, SetupTypeOK, Answer
    <3> QED
      BY <1>2, <3>1, <3>2 DEF IncomingInvite
  <2>2. req' \in [Req -> Request] /\ \A s \in Req :
          req'[s].channel = req[s].channel /\ req'[s].lock = req[s].lock /\ req'[s].at = req[s].at
    BY <1>2 DEF IncomingInvite, SetupTypeOK, Request
  <2> QED
    BY <1>2, <2>1, <2>2 DEF IncomingInvite, Stays, Kept, SetupTypeOK, CloseTypeOK, FarTypeOK,
                            closeVars, farVars, NoTalkAdded
<1> QED
  BY <1>1, <1>2

-----------------------------------------------------------------------------
(***************************************************************************)
(* Closes.  A talk enters Closing with its deadline and its BYE; what ends *)
(* the one or the other ends the talk or takes the mark away.              *)
(***************************************************************************)
CloseKept == CloseTypeOK' /\ NoTalkAdded /\ (ClosingBounded => ClosingBounded')

LEMMA CloseRemoves ==
  ASSUME CloseTypeOK, NEW r \in Req, Removed(r),
         byeTask' = byeTask \/ byeTask' = [byeTask EXCEPT ![r] = FALSE]
  PROVE  CloseKept
<1>1. /\ talk' \in [Req -> TalkState] /\ timer' \in [Req -> BOOLEAN]
      /\ byeTask' \in [Req -> BOOLEAN]
  BY DEF CloseTypeOK, TalkState, Removed, NoTalk
<1>2. talk'[r].phase = None /\ \A s \in Req \ {r} :
        talk'[s] = talk[s] /\ timer'[s] = timer[s] /\ byeTask'[s] = byeTask[s]
  BY DEF CloseTypeOK, Removed, NoTalk
<1>3. None # "Closing"
  BY DEF None
<1> QED
  BY <1>1, <1>2, <1>3 DEF CloseKept, CloseTypeOK, NoTalkAdded, ClosingBounded

LEMMA CloseBegins ==
  ASSUME CloseTypeOK, NEW r \in Req, begin(r) PROVE CloseKept
<1>1. CASE UNCHANGED closeVars
  BY <1>1 DEF CloseKept, closeVars, CloseTypeOK, NoTalkAdded, ClosingBounded
<1>2. CASE talk[r].phase = "Talking" /\ Removed(r) /\ UNCHANGED byeTask
  BY <1>2, CloseRemoves
<1>3. CASE /\ talk[r].phase = "Talking"
           /\ talk' = [talk EXCEPT ![r] = [@ EXCEPT !.phase = "Closing", !.inflight = TRUE]]
           /\ timer' = [timer EXCEPT ![r] = TRUE]
           /\ byeTask' = [byeTask EXCEPT ![r] = TRUE]
  <2>1. talk' \in [Req -> TalkState]
    BY <1>3 DEF CloseTypeOK, TalkState
  <2>2. timer' \in [Req -> BOOLEAN] /\ byeTask' \in [Req -> BOOLEAN]
    BY <1>3 DEF CloseTypeOK
  <2>3. timer'[r] /\ byeTask'[r] /\ \A s \in Req \ {r} :
          talk'[s] = talk[s] /\ timer'[s] = timer[s] /\ byeTask'[s] = byeTask[s]
    BY <1>3 DEF CloseTypeOK
  <2>4. talk[r].phase # None
    BY <1>3 DEF None
  <2> QED
    BY <2>1, <2>2, <2>3, <2>4 DEF CloseKept, CloseTypeOK, NoTalkAdded, ClosingBounded
<1> QED
  BY <1>1, <1>2, <1>3 DEF begin

LEMMA CloseByeFails ==
  ASSUME CloseTypeOK, NEW r \in Req, ByeFails(r) PROVE CloseKept
<1>1. talk' \in [Req -> TalkState] /\ byeTask' \in [Req -> BOOLEAN] /\ timer' = timer
  BY DEF ByeFails, CloseTypeOK, TalkState
<1>2. \A s \in Req : talk'[s].phase = talk[s].phase
  BY DEF ByeFails, CloseTypeOK, TalkState
<1>3. talk[r].phase = "Closing" => ~ talk'[r].inflight
  BY DEF ByeFails, CloseTypeOK, TalkState
<1>4. \A s \in Req \ {r} : talk'[s] = talk[s] /\ byeTask'[s] = byeTask[s]
  BY DEF ByeFails, CloseTypeOK
<1> QED
  BY <1>1, <1>2, <1>3, <1>4 DEF CloseKept, CloseTypeOK, NoTalkAdded, ClosingBounded

LEMMA CloseRetries ==
  ASSUME CloseTypeOK, retry_device PROVE CloseKept
<1>1. timer' = timer
  BY DEF retry_device
<1>2. ASSUME NEW s \in Req
      PROVE  /\ talk'[s] \in TalkState /\ talk'[s].phase = talk[s].phase
             /\ talk'[s].inflight => talk[s].inflight \/ s \in Retried
  <2>1. CASE s \in Retried
    <3>1. talk'[s] = [talk[s] EXCEPT !.inflight = TRUE] /\ talk[s] \in TalkState
      BY <2>1 DEF retry_device, CloseTypeOK
    <3> QED
      BY <2>1, <3>1 DEF TalkState
  <2>2. CASE s \notin Retried
    BY <2>2 DEF retry_device, CloseTypeOK
  <2> QED
    BY <2>1, <2>2
<1>3. talk' \in [Req -> TalkState]
  <2>1. DOMAIN talk' = Req /\ talk' = [s \in Req |-> talk'[s]]
    BY DEF retry_device
  <2> QED
    BY <1>2, <2>1
<1>4. ASSUME NEW s \in Req
      PROVE  byeTask'[s] \in BOOLEAN /\ (byeTask[s] \/ s \in Retried => byeTask'[s])
  BY DEF retry_device, CloseTypeOK
<1>5. byeTask' \in [Req -> BOOLEAN]
  BY <1>4 DEF retry_device
<1> QED
  BY <1>1, <1>2, <1>3, <1>4, <1>5 DEF CloseKept, CloseTypeOK, NoTalkAdded, ClosingBounded

LEMMA TalkCloses ==
  ASSUME SetupTypeOK, CloseTypeOK, FarTypeOK, NEW r \in Req,
         \/ talk_stop(r) \/ ByeAnswered(r) \/ ByeFails(r) \/ DeadlinePasses(r) \/ PeerBye(r)
         \/ SenderEnds(r) \/ talk_closed(r)
  PROVE  CloseKept /\ FarTypeOK' /\ UNCHANGED <<setupVars, dropped>>
<1> USE DEF FarTypeOK, farVars
<1>s. ASSUME UNCHANGED closeVars PROVE CloseKept
  BY <1>s DEF CloseKept, closeVars, CloseTypeOK, NoTalkAdded, ClosingBounded
<1>1. CASE talk_stop(r)
  BY <1>1, CloseBegins DEF talk_stop
<1>2. CASE ByeAnswered(r)
  <2>1. CloseKept
    <3>1. CASE talk[r].phase = "Closing"
      BY <1>2, <3>1, CloseRemoves DEF ByeAnswered
    <3>2. CASE talk[r].phase # "Closing"
      <4>1. /\ UNCHANGED <<talk, timer>> /\ byeTask' \in [Req -> BOOLEAN]
            /\ \A s \in Req \ {r} : byeTask'[s] = byeTask[s]
        BY <1>2, <3>2 DEF ByeAnswered, CloseTypeOK
      <4> QED
        BY <3>2, <4>1 DEF CloseKept, CloseTypeOK, NoTalkAdded, ClosingBounded
    <3> QED
      BY <3>1, <3>2
  <2> QED
    BY <1>2, <2>1 DEF ByeAnswered
<1>3. CASE ByeFails(r)
  BY <1>3, CloseByeFails DEF ByeFails
<1>4. CASE DeadlinePasses(r)
  BY <1>4, CloseRemoves DEF DeadlinePasses
<1>5. CASE PeerBye(r)
  <2>1. CASE UNCHANGED <<talk, timer, media>>
    BY <1>5, <1>s, <2>1 DEF PeerBye, closeVars
  <2>2. ASSUME NEW t \in Req, Removed(t),
               \E left \in {"closed", media[t]} : media' = [media EXCEPT ![t] = left]
        PROVE  CloseKept /\ media' \in [Req -> {None, "open", "closed"}]
    BY <1>5, <2>2, CloseRemoves DEF PeerBye
  <2> QED
    BY <1>5, <2>1, <2>2 DEF PeerBye
<1>6. CASE SenderEnds(r)
  BY <1>6, <1>s DEF SenderEnds
<1>7. CASE talk_closed(r)
  BY <1>7, <1>s, CloseBegins DEF talk_closed
<1> QED
  BY <1>1, <1>2, <1>3, <1>4, <1>5, <1>6, <1>7

-----------------------------------------------------------------------------
(***************************************************************************)
(* Exclusion of the talks of a channel, from the shapes.                   *)
(***************************************************************************)
Exclusion ==
  Seated /\ LocksShared /\ CheckedChannelFree /\ TalksAreDone /\ OneTalkPerChannel

LEMMA ExclusionStays ==
  ASSUME Exclusion, Stays, NoTalkAdded PROVE Exclusion'
<1>1. Seated'
  BY DEF Exclusion, Stays, Seated
<1>2. LocksShared'
  BY DEF Exclusion, Stays, LocksShared
<1>3. CheckedChannelFree' /\ TalksAreDone' /\ OneTalkPerChannel'
  BY DEF Exclusion, Stays, NoTalkAdded, CheckedChannelFree, TalksAreDone, OneTalkPerChannel
<1> QED
  BY <1>1, <1>2, <1>3 DEF Exclusion

LEMMA ExclusionStepsOn ==
  ASSUME Exclusion, NEW r \in Req, StepsOn(r), NoTalkAdded PROVE Exclusion'
<1> USE DEF Held
<1>1. Seated'
  BY DEF Exclusion, StepsOn, Seated
<1>2. LocksShared'
  BY DEF Exclusion, StepsOn, LocksShared
<1>3. CheckedChannelFree'
  <2>1. SUFFICES ASSUME NEW s \in Req, NEW t \in Req, req'[s].at \in Checked,
                        talk'[t].phase # None, req'[s].channel = req'[t].channel
                 PROVE  req'[s].channel \in dropped'
    BY DEF CheckedChannelFree
  <2>2. talk[t].phase # None /\ req[s].channel = req[t].channel
    BY <2>1 DEF NoTalkAdded, StepsOn
  <2>3. req[s].at \in Checked
    BY <2>1, <2>2 DEF StepsOn
  <2> QED
    BY <2>2, <2>3 DEF Exclusion, CheckedChannelFree, StepsOn
<1>4. TalksAreDone'
  BY DEF Exclusion, StepsOn, NoTalkAdded, TalksAreDone, InSetup, Listening
<1>5. OneTalkPerChannel'
  BY DEF Exclusion, StepsOn, NoTalkAdded, OneTalkPerChannel
<1> QED
  BY <1>1, <1>2, <1>3, <1>4, <1>5 DEF Exclusion

LEMMA ExclusionLeaves ==
  ASSUME SetupTypeOK, CloseTypeOK, Exclusion, NEW r \in Req, Leaves(r),
         NoTalkAdded \/ InsertTalk(r)
  PROVE  Exclusion'
<1> USE DEF Held
<1>a. req'[r].at \notin InSetup
  BY DEF Leaves, InSetup, Listening
<1>1. Seated'
  <2>1. SUFFICES ASSUME NEW s \in Req, req'[s].at \in InSetup
                 PROVE  /\ req'[s].channel \in Channel /\ req'[s].lock \in Req
                        /\ req'[s].at # "lock" => holder'[req'[s].lock] = s
    BY DEF Seated
  <2>2. s # r
    BY <2>1, <1>a
  <2>3. /\ req[s].at = req'[s].at /\ req[s].lock = req'[s].lock
        /\ req[s].channel = req'[s].channel
    BY <2>2 DEF Leaves
  <2>4. holder[req[r].lock] = r /\ req[r].lock \in Req
    BY DEF Leaves, Exclusion, Seated
  <2> QED
    BY <2>1, <2>2, <2>3, <2>4 DEF Leaves, Exclusion, Seated, SetupTypeOK
<1>2. LocksShared'
  BY <1>a DEF Exclusion, Leaves, LocksShared
<1>i. ASSUME InsertTalk(r)
      PROVE  req[r].at = "insert" /\ req'[r].at = "done" /\ \A t \in Req \ {r} : talk'[t] = talk[t]
  BY <1>i, RequestReplies DEF InsertTalk, CloseTypeOK
<1>3. CheckedChannelFree'
  <2>1. SUFFICES ASSUME NEW s \in Req, NEW t \in Req, req'[s].at \in Checked,
                        talk'[t].phase # None, req'[s].channel = req'[t].channel
                 PROVE  req'[s].channel \in dropped'
    BY DEF CheckedChannelFree
  <2>2. s # r /\ req[s].at \in Checked /\ req[s].channel = req[t].channel
    BY <2>1, <1>a DEF Leaves, Checked
  <2>3. CASE talk[t].phase # None
    BY <2>1, <2>2, <2>3 DEF Exclusion, CheckedChannelFree, Leaves
  <2>4. CASE talk[t].phase = None
    <3>1. t = r
      BY <2>1, <2>4, <1>i DEF NoTalkAdded
    <3>2. req[r].at \in InSetup /\ req[s].at \in InSetup
      BY <2>2 DEF Leaves, Checked
    <3>3. holder[req[r].lock] = r /\ holder[req[s].lock] = s
      BY <2>2, <3>2 DEF Exclusion, Seated, Leaves, Checked
    <3> QED
      BY <2>2, <3>1, <3>2, <3>3 DEF Exclusion, LocksShared, Leaves
  <2> QED
    BY <2>3, <2>4
<1>4. TalksAreDone'
  <2>1. CASE NoTalkAdded
    BY <2>1 DEF Exclusion, Leaves, NoTalkAdded, TalksAreDone, InSetup, Listening
  <2>2. CASE InsertTalk(r)
    BY <2>2, <1>i DEF Exclusion, Leaves, TalksAreDone
  <2> QED
    BY <2>1, <2>2
<1>5. OneTalkPerChannel'
  <2>1. CASE NoTalkAdded
    BY <2>1 DEF Exclusion, Leaves, NoTalkAdded, OneTalkPerChannel
  <2>2. CASE InsertTalk(r)
    <3>1. "insert" \in Checked
      BY DEF Checked, InSetup
    <3> QED
      BY <2>2, <3>1, <1>i DEF Exclusion, Leaves, OneTalkPerChannel, CheckedChannelFree
  <2> QED
    BY <2>1, <2>2
<1> QED
  BY <1>1, <1>2, <1>3, <1>4, <1>5 DEF Exclusion

LEMMA ExclusionStarts ==
  ASSUME SetupTypeOK, CloseTypeOK, Exclusion, NEW r \in Req, Start(r) PROVE Exclusion'
<1>1. PICK c \in Channel, lock \in Req :
        /\ lock = IF locks[c] = None THEN r ELSE locks[c]
        /\ req' = [req EXCEPT ![r] = [@ EXCEPT !.at = "lock", !.channel = c, !.lock = lock]]
        /\ locks' = [locks EXCEPT ![c] = lock]
  BY StartTakesLock
<1>2. /\ req'[r].at = "lock" /\ req'[r].channel = c /\ req'[r].lock = lock
      /\ \A s \in Req \ {r} : req'[s] = req[s]
  BY <1>1 DEF SetupTypeOK, Request
<1>3. /\ locks'[c] = lock /\ \A d \in Channel \ {c} : locks'[d] = locks[d]
      /\ locks[c] \in Req => lock = locks[c]
  BY <1>1, TalkAssumption DEF SetupTypeOK
<1>4. UNCHANGED <<holder, talk, dropped>> /\ req[r].at = "idle"
  BY DEF Start, closeVars
<1>5. talk[r].phase = None
  BY <1>4 DEF Exclusion, TalksAreDone
<1>6. Seated'
  BY <1>2, <1>4 DEF Exclusion, Seated
<1>7. LocksShared'
  BY <1>2, <1>3, <1>4 DEF Exclusion, LocksShared, Seated
<1>8. CheckedChannelFree'
  BY <1>2, <1>4, <1>5 DEF Exclusion, CheckedChannelFree, Checked
<1>9. TalksAreDone' /\ OneTalkPerChannel'
  BY <1>2, <1>4, <1>5 DEF Exclusion, TalksAreDone, OneTalkPerChannel
<1> QED
  BY <1>6, <1>7, <1>8, <1>9 DEF Exclusion

LEMMA ExclusionLocks ==
  ASSUME SetupTypeOK, CloseTypeOK, Exclusion, NEW r \in Req, Lock(r) PROVE Exclusion'
<1>1. /\ req'[r].at = "check" /\ \A s \in Req \ {r} : req'[s].at = req[s].at
      /\ \A s \in Req : req'[s].channel = req[s].channel /\ req'[s].lock = req[s].lock
  BY RequestMoves DEF Lock, InSetup
<1>2. /\ UNCHANGED <<locks, talk, dropped>> /\ req[r].at = "lock"
      /\ holder' = [holder EXCEPT ![req[r].lock] = r] /\ holder[req[r].lock] = None
  BY DEF Lock, closeVars
<1>3. Seated'
  <2>1. SUFFICES ASSUME NEW s \in Req, req'[s].at \in InSetup
                 PROVE  /\ req'[s].channel \in Channel /\ req'[s].lock \in Req
                        /\ req'[s].at # "lock" => holder'[req'[s].lock] = s
    BY DEF Seated
  <2>2. req[r].lock \in Req /\ holder'[req[r].lock] = r
    BY <1>2 DEF Exclusion, Seated, SetupTypeOK, InSetup
  <2>3. req[s].at \in InSetup
    BY <1>1, <1>2, <2>1 DEF InSetup
  <2>4. ASSUME s # r, req[s].at # "lock" PROVE holder[req[s].lock] = s /\ s # None
    BY <2>3, <2>4, TalkAssumption DEF Exclusion, Seated
  <2> QED
    BY <1>1, <1>2, <2>2, <2>3, <2>4 DEF Exclusion, Seated, SetupTypeOK
<1>4. LocksShared'
  BY <1>1, <1>2 DEF Exclusion, LocksShared, InSetup
<1>5. CheckedChannelFree'
  BY <1>1, <1>2 DEF Exclusion, CheckedChannelFree, Checked
<1>6. TalksAreDone' /\ OneTalkPerChannel'
  BY <1>1, <1>2 DEF Exclusion, TalksAreDone, OneTalkPerChannel
<1> QED
  BY <1>3, <1>4, <1>5, <1>6 DEF Exclusion

-----------------------------------------------------------------------------
(***************************************************************************)
(* INVITEs that were handed to a set-up.                                   *)
(***************************************************************************)
Handed == InviteAfterNotice /\ InviteAttended
Keeping == Listening \cup {"answer", "accept"}
Awaited == Listening \cup {"giveUp"}

\* A step that takes no INVITE back, and no request from where it keeps one.
LEMMA HandedKept ==
  ASSUME Handed, waiter' = waiter \/ waiter' = None,
         \A i \in Req : inv'[i] = "buffered" => inv[i] = "buffered",
         \A s \in Req : req'[s].rx = req[s].rx \/ req'[s].rx = None,
         \A s \in Req : req'[s].at \in {"idle", "lock", "check", "open", "notify"} =>
           req[s].at \in {"idle", "lock", "check", "open", "notify"},
         \A s \in Req : req[s].at \in Awaited => req'[s].at \in Awaited \/ s # waiter,
         \A s \in Req : req[s].at \in Keeping => \/ req'[s].at \in Keeping /\ req'[s].rx = req[s].rx
                                                 \/ req[s].rx \in Req => inv'[req[s].rx] # "buffered",
         waiter \in Req \cup {None}
  PROVE  Handed'
<1>1. InviteAfterNotice'
  BY DEF Handed, InviteAfterNotice
<1>2. waiter' # None => req'[waiter'].at \in Awaited /\ req'[waiter'].rx = None
  BY DEF Handed, InviteAttended, Awaited
<1>3. ASSUME NEW i \in Req, inv'[i] = "buffered"
      PROVE  \E r \in Req : req'[r].rx = i /\ req'[r].at \in Keeping
  <2>1. PICK r \in Req : req[r].rx = i /\ req[r].at \in Keeping
    BY <1>3 DEF Handed, InviteAttended, Keeping
  <2> QED
    BY <1>3, <2>1
<1> QED
  BY <1>1, <1>2, <1>3 DEF Handed, InviteAttended, Keeping, Awaited

LEMMA HandedStarts ==
  ASSUME SetupTypeOK, Handed, NEW r \in Req, Start(r) \/ Lock(r) PROVE Handed'
<1>1. /\ req[r].at \in {"idle", "lock"} /\ req'[r].at \in {"lock", "check"}
      /\ req'[r].rx = req[r].rx /\ \A s \in Req \ {r} : req'[s] = req[s]
  <2>1. CASE Start(r)
    <3>1. PICK c \in Channel, lock \in Req :
            /\ lock = IF locks[c] = None THEN r ELSE locks[c]
            /\ req' = [req EXCEPT ![r] = [@ EXCEPT !.at = "lock", !.channel = c, !.lock = lock]]
            /\ locks' = [locks EXCEPT ![c] = lock]
      BY <2>1, StartTakesLock
    <3>2. req[r].at = "idle"
      BY <2>1 DEF Start
    <3> QED
      BY <3>1, <3>2 DEF SetupTypeOK, Request
  <2>2. CASE Lock(r)
    <3>1. At(r, "check") /\ req[r].at = "lock"
      BY <2>2 DEF Lock
    <3> QED
      BY <3>1 DEF At, SetupTypeOK, Request
  <2> QED
    BY <2>1, <2>2
<1>2. UNCHANGED <<waiter, inv>>
  BY DEF Start, Lock
<1>3. waiter \in Req \cup {None}
  BY DEF SetupTypeOK
<1> QED
  BY <1>1, <1>2, <1>3, HandedKept DEF Listening, Keeping, Awaited

LEMMA HandedLeaves ==
  ASSUME SetupTypeOK, Handed, NEW r \in Req,
         \/ CheckTalkMap(r) /\ Reply(r, "failed")
         \/ TalkOpen(r) /\ Reply(r, "failed")
         \/ InsertTalk(r) \/ CleanupTalkOpen(r)
  PROVE  Handed'
<1>1. /\ req[r].at \in {"check", "open", "insert", "cleanup"}
      /\ Reply(r, "failed") \/ Reply(r, "done")
  BY DEF CheckTalkMap, TalkOpen, InsertTalk, CleanupTalkOpen
<1>2. req'[r].at \in {"failed", "done"} /\ req'[r].rx = None
      /\ \A s \in Req \ {r} : req'[s] = req[s]
  BY <1>1, RequestReplies
<1>3. UNCHANGED <<waiter, inv>>
  BY DEF CheckTalkMap, TalkOpen, InsertTalk, CleanupTalkOpen
<1>4. waiter \in Req \cup {None}
  BY DEF SetupTypeOK
<1> QED
  BY <1>1, <1>2, <1>3, <1>4, HandedKept DEF Listening, Keeping, Awaited

LEMMA HandedStepsOn ==
  ASSUME SetupTypeOK, Handed, NEW r \in Req,
         \/ CheckTalkMap(r) /\ ~ Reply(r, "failed")
         \/ TalkOpen(r) /\ ~ Reply(r, "failed")
         \/ NotifyBroadcast(r) \/ MessageAnswered(r) \/ ResponseAccepts(r)
         \/ TakeInvite(r) \/ TalkAnswer(r) \/ AcceptInvite(r) \/ AcceptFails(r)
         \/ RemoveWaiter(r) \/ InviteFails(r)
  PROVE  Handed'
<1>w. waiter \in Req \cup {None} /\ req[r].rx \in Req \cup {None}
  BY DEF SetupTypeOK, Request
<1>a. ASSUME NEW at \in InSetup, At(r, at)
      PROVE  /\ req'[r].at = at /\ \A s \in Req : req'[s].rx = req[s].rx
             /\ \A s \in Req \ {r} : req'[s].at = req[s].at
  BY <1>a, RequestMoves
<1>1. CASE /\ CheckTalkMap(r) \/ TalkOpen(r)
           /\ ~ Reply(r, "failed")
  <2>1. /\ req[r].at \in {"check", "open"} /\ (At(r, "open") \/ At(r, "notify"))
        /\ UNCHANGED <<waiter, inv>>
    BY <1>1 DEF CheckTalkMap, TalkOpen
  <2>2. /\ req'[r].at \in {"open", "notify"} /\ \A s \in Req : req'[s].rx = req[s].rx
        /\ \A s \in Req \ {r} : req'[s].at = req[s].at
    BY <1>a, <2>1 DEF InSetup
  <2> QED
    BY <1>w, <2>1, <2>2, HandedKept DEF Listening, Keeping, Awaited
<1>2. CASE NotifyBroadcast(r)
  <2>1. /\ req'[r].at = "message" /\ \A s \in Req : req'[s].rx = req[s].rx
        /\ \A s \in Req \ {r} : req'[s].at = req[s].at
    BY <1>2, <1>a DEF NotifyBroadcast, InSetup, Listening
  <2>2. waiter' = r /\ inv' = inv /\ req[r].at = "notify" /\ req[r].rx = None
    BY <1>2 DEF NotifyBroadcast, Handed, InviteAfterNotice
  <2>3. InviteAfterNotice'
    BY <2>1 DEF Handed, InviteAfterNotice
  <2>4. ASSUME NEW i \in Req, inv'[i] = "buffered"
        PROVE  \E s \in Req : req'[s].rx = i /\ req'[s].at \in Keeping
    <3>1. PICK s \in Req : req[s].rx = i /\ req[s].at \in Keeping
      BY <2>2, <2>4 DEF Handed, InviteAttended, Keeping
    <3>2. s # r
      BY <2>2, <3>1 DEF Keeping, Listening
    <3> QED
      BY <2>1, <3>1, <3>2
  <2> QED
    BY <2>1, <2>2, <2>3, <2>4 DEF Handed, InviteAttended, Keeping, Listening
<1>3. CASE MessageAnswered(r) \/ ResponseAccepts(r)
  <2>1. /\ req[r].at \in Listening /\ (At(r, "response") \/ At(r, "invite"))
        /\ UNCHANGED <<waiter, inv>>
    BY <1>3 DEF MessageAnswered, ResponseAccepts, Listening
  <2>2. /\ req'[r].at \in Listening /\ \A s \in Req : req'[s].rx = req[s].rx
        /\ \A s \in Req \ {r} : req'[s].at = req[s].at
    BY <1>a, <2>1 DEF InSetup, Listening
  <2> QED
    BY <1>w, <2>1, <2>2, HandedKept DEF Listening, Keeping, Awaited
<1>4. CASE TakeInvite(r) \/ TalkAnswer(r) \/ AcceptInvite(r) \/ AcceptFails(r)
  <2>1. /\ waiter' = waiter /\ req[r].at \in {"invite", "answer", "accept"}
        /\ req[r].at = "invite" => req[r].rx # None
        /\ \/ (At(r, "answer") \/ At(r, "accept")) /\ inv' = inv
           \/ /\ At(r, "cleanup") \/ At(r, "insert")
              /\ \E a \in {"rejected", "unqueued", "accepted"} :
                   inv' = [inv EXCEPT ![req[r].rx] = a]
    BY <1>4 DEF TakeInvite, TalkAnswer, AcceptInvite, AcceptFails, Reject
  <2>2. /\ req'[r].at \in {"answer", "accept", "cleanup", "insert"}
        /\ \A s \in Req : req'[s].rx = req[s].rx
        /\ \A s \in Req \ {r} : req'[s].at = req[s].at
    BY <1>a, <2>1 DEF InSetup
  <2>3. req'[r].at \in {"cleanup", "insert"} /\ req[r].rx \in Req => inv'[req[r].rx] # "buffered"
    BY <1>a, <2>1 DEF SetupTypeOK, InSetup
  <2>4. \A i \in Req : inv'[i] = "buffered" => inv[i] = "buffered"
    BY <2>1 DEF SetupTypeOK
  <2>5. r # waiter
    BY <1>w, <2>1, TalkAssumption DEF Handed, InviteAttended, Listening
  <2>6. \A s \in Req : req[s].at \in Keeping =>
          \/ req'[s].at \in Keeping /\ req'[s].rx = req[s].rx
          \/ req[s].rx \in Req => inv'[req[s].rx] # "buffered"
    BY <2>2, <2>3 DEF Keeping
  <2>7. \A s \in Req : req[s].at \in Awaited => req'[s].at \in Awaited \/ s # waiter
    BY <2>2, <2>5
  <2>8. \A s \in Req : req'[s].at \in {"idle", "lock", "check", "open", "notify"} =>
          req[s].at \in {"idle", "lock", "check", "open", "notify"}
    BY <2>2
  <2> QED
    BY <1>w, <2>1, <2>2, <2>4, <2>6, <2>7, <2>8, HandedKept
<1>5. CASE RemoveWaiter(r) \/ InviteFails(r)
  <2>1. /\ waiter' = None /\ inv' = inv /\ At(r, "cleanup")
        /\ req[r].at = "giveUp" \/ req[r].rx = None
    BY <1>5 DEF RemoveWaiter, InviteFails
  <2>2. /\ req'[r].at = "cleanup" /\ \A s \in Req : req'[s].rx = req[s].rx
        /\ \A s \in Req \ {r} : req'[s].at = req[s].at
    BY <1>a, <2>1 DEF InSetup
  <2>3. InviteAfterNotice'
    BY <2>2 DEF Handed, InviteAfterNotice
  <2>4. ASSUME NEW i \in Req, inv'[i] = "buffered"
        PROVE  \E s \in Req : req'[s].rx = i /\ req'[s].at \in Keeping
    <3>1. PICK s \in Req : req[s].rx = i /\ req[s].at \in Keeping
      BY <2>1, <2>4 DEF Handed, InviteAttended, Keeping
    <3>2. s # r
      BY <2>1, <3>1, TalkAssumption DEF Keeping, Listening
    <3> QED
      BY <2>2, <3>1, <3>2
  <2> QED
    BY <2>1, <2>3, <2>4 DEF Handed, InviteAttended, Keeping
<1> QED
  BY <1>1, <1>2, <1>3, <1>4, <1>5

LEMMA HandedGivesUp ==
  ASSUME SetupTypeOK, Handed, NEW r \in Req, GiveUpBroadcast(r) PROVE Handed'
<1>1. /\ req'[r].at = "giveUp" /\ req'[r].rx = None /\ \A s \in Req \ {r} : req'[s] = req[s]
      /\ \A i \in Req : inv'[i] = "buffered" => i # req[r].rx /\ inv[i] = "buffered"
  BY BroadcastGivenUp
<1>2. waiter' # None => req'[waiter'].at \in Awaited /\ req'[waiter'].rx = None
  <2>1. waiter' = waiter /\ waiter \in Req \cup {None}
    BY DEF GiveUpBroadcast, SetupTypeOK
  <2> QED
    BY <1>1, <2>1 DEF Handed, InviteAttended, Awaited
<1>3. InviteAfterNotice'
  BY <1>1 DEF Handed, InviteAfterNotice
<1>4. ASSUME NEW i \in Req, inv'[i] = "buffered"
      PROVE  \E s \in Req : req'[s].rx = i /\ req'[s].at \in Keeping
  <2>1. i # req[r].rx /\ inv[i] = "buffered"
    BY <1>1, <1>4
  <2>2. PICK s \in Req : req[s].rx = i /\ req[s].at \in Keeping
    BY <2>1 DEF Handed, InviteAttended, Keeping
  <2> QED
    BY <1>1, <2>1, <2>2
<1> QED
  BY <1>2, <1>3, <1>4 DEF Handed, InviteAttended, Keeping, Awaited

LEMMA HandedInvited ==
  ASSUME SetupTypeOK, Handed, NEW i \in Req, DeviceInvites(i) \/ IncomingInvite(i)
  PROVE  Handed'
<1>w. waiter \in Req \cup {None}
  BY DEF SetupTypeOK
<1>1. CASE /\ req' = req /\ (waiter' = waiter \/ waiter' = None)
           /\ \E a \in {"sent", "rejected", "unqueued", "missed"} : inv' = [inv EXCEPT ![i] = a]
  <2>1. \A j \in Req : inv'[j] = "buffered" => inv[j] = "buffered"
    BY <1>1 DEF SetupTypeOK
  <2> QED
    BY <1>1, <1>w, <2>1, HandedKept
<1>2. CASE /\ waiter # None /\ waiter' = None /\ req[waiter].at # "giveUp"
           /\ req' = [req EXCEPT ![waiter].rx = i] /\ inv' = [inv EXCEPT ![i] = "buffered"]
  <2>1. /\ req'[waiter].rx = i /\ \A s \in Req : req'[s].at = req[s].at
        /\ \A s \in Req \ {waiter} : req'[s].rx = req[s].rx
    BY <1>2, <1>w DEF SetupTypeOK, Request
  <2>2. waiter \in Req /\ req[waiter].rx = None /\ req[waiter].at \in Listening
    BY <1>2, <1>w DEF Handed, InviteAttended
  <2>3. InviteAfterNotice'
    BY <2>1, <2>2 DEF Handed, InviteAfterNotice, Listening
  <2>4. ASSUME NEW j \in Req, inv'[j] = "buffered"
        PROVE  \E s \in Req : req'[s].rx = j /\ req'[s].at \in Keeping
    <3>1. CASE j = i
      BY <2>1, <2>2, <3>1 DEF Keeping
    <3>2. CASE j # i
      <4>1. inv[j] = "buffered"
        BY <1>2, <2>4, <3>2 DEF SetupTypeOK
      <4>2. PICK s \in Req : req[s].rx = j /\ req[s].at \in Keeping
        BY <4>1 DEF Handed, InviteAttended, Keeping
      <4>3. s # waiter
        BY <2>2, <4>2, TalkAssumption
      <4> QED
        BY <2>1, <4>2, <4>3
    <3> QED
      BY <3>1, <3>2
  <2> QED
    BY <1>2, <2>3, <2>4 DEF Handed, InviteAttended, Keeping
<1> QED
  BY <1>1, <1>2 DEF DeviceInvites, IncomingInvite, Reject

-----------------------------------------------------------------------------
(***************************************************************************)
(* Every step of the talks keeps their invariant.                          *)
(***************************************************************************)
Answers == Exclusion /\ Handed

LEMMA TalkStep ==
  ASSUME TalkTypeOK, TalkInv, TalkNext PROVE TalkTypeOK' /\ TalkInv'
<1>a. SetupTypeOK /\ CloseTypeOK /\ FarTypeOK /\ Exclusion /\ Handed /\ ClosingBounded
  BY TalkTypeParts DEF TalkInv, Exclusion, Handed
<1>s. ASSUME UNCHANGED closeVars PROVE ClosingBounded'
  BY <1>a, <1>s DEF closeVars, ClosingBounded
<1>b. SUFFICES Kept /\ Answers' /\ ClosingBounded'
  BY TalkTypeParts DEF Kept, TalkInv, Exclusion, Handed, TalkTypeOK, SetupTypeOK, CloseTypeOK,
                       FarTypeOK, Seated, Request, TalkState, Answer, Answers
<1>1. PICK r \in Req :
        \/ Start(r) \/ Lock(r) \/ CheckTalkMap(r) \/ TalkOpen(r) \/ NotifyBroadcast(r)
        \/ MessageAnswered(r) \/ MessageFails(r) \/ ResponseAccepts(r)
        \/ ResponseFails(r) \/ RemoveWaiter(r) \/ DeviceInvites(r) \/ IncomingInvite(r)
        \/ TakeInvite(r)
        \/ InviteFails(r) \/ TalkAnswer(r) \/ AcceptInvite(r) \/ AcceptFails(r)
        \/ InsertTalk(r) \/ CleanupTalkOpen(r) \/ talk_stop(r) \/ ByeAnswered(r)
        \/ ByeFails(r) \/ DeadlinePasses(r) \/ PeerBye(r) \/ SenderEnds(r)
        \/ talk_closed(r)
  BY DEF TalkNext
<1>2. CASE Start(r) \/ Lock(r)
  <2>1. Kept /\ Handed' /\ Exclusion'
    BY <1>2, <1>a, TalkStarts, HandedStarts, ExclusionStarts, ExclusionLocks DEF Exclusion
  <2>2. UNCHANGED closeVars
    BY <1>2 DEF Start, Lock
  <2> QED
    BY <1>s, <2>1, <2>2 DEF Answers
<1>3. CASE \/ CheckTalkMap(r) /\ ~ Reply(r, "failed")
           \/ TalkOpen(r) /\ ~ Reply(r, "failed")
           \/ NotifyBroadcast(r) \/ MessageAnswered(r) \/ ResponseAccepts(r)
           \/ TakeInvite(r) \/ TalkAnswer(r) \/ AcceptInvite(r) \/ AcceptFails(r)
           \/ RemoveWaiter(r) \/ InviteFails(r)
  <2>1. Kept /\ NoTalkAdded /\ StepsOn(r)
    BY <1>3, <1>a, TalkStepsOn
  <2>2. Handed'
    BY <1>3, <1>a, HandedStepsOn
  <2>3. UNCHANGED closeVars
    BY <1>3 DEF CheckTalkMap, TalkOpen, NotifyBroadcast, MessageAnswered, ResponseAccepts,
                TakeInvite, TalkAnswer, AcceptInvite, AcceptFails, RemoveWaiter, InviteFails
  <2> QED
    BY <1>a, <1>s, <2>1, <2>2, <2>3, ExclusionStepsOn DEF Answers
<1>4. CASE MessageFails(r) \/ ResponseFails(r)
  <2>1. Kept /\ NoTalkAdded /\ StepsOn(r) /\ GiveUpBroadcast(r)
    BY <1>4, <1>a, TalkGivesUp
  <2>2. UNCHANGED closeVars
    BY <2>1 DEF GiveUpBroadcast
  <2> QED
    BY <1>a, <1>s, <2>1, <2>2, ExclusionStepsOn, HandedGivesUp DEF Answers
<1>5. CASE \/ CheckTalkMap(r) /\ Reply(r, "failed")
           \/ TalkOpen(r) /\ Reply(r, "failed")
           \/ InsertTalk(r) \/ CleanupTalkOpen(r)
  <2>1. Kept /\ Leaves(r) /\ (NoTalkAdded \/ InsertTalk(r))
    BY <1>5, <1>a, TalkLeaves
  <2>2. Handed' /\ Exclusion'
    BY <1>5, <1>a, <2>1, HandedLeaves, ExclusionLeaves
  <2>3. ClosingBounded'
    <3>1. CASE UNCHANGED closeVars
      BY <1>s, <3>1
    <3>2. CASE InsertTalk(r)
      <4>1. /\ talk'[r].phase = "Talking" /\ UNCHANGED <<timer, byeTask>>
            /\ \A s \in Req \ {r} : talk'[s] = talk[s]
        BY <1>a, <3>2 DEF InsertTalk, CloseTypeOK
      <4> QED
        BY <1>a, <4>1 DEF ClosingBounded
    <3> QED
      BY <1>5, <3>1, <3>2 DEF CheckTalkMap, TalkOpen, CleanupTalkOpen
  <2> QED
    BY <2>1, <2>2, <2>3 DEF Answers
<1>6. CASE DeviceInvites(r) \/ IncomingInvite(r)
  <2>1. Kept /\ NoTalkAdded /\ Stays /\ Handed'
    BY <1>6, <1>a, TalkInvited, HandedInvited
  <2>2. UNCHANGED closeVars
    BY <1>6 DEF DeviceInvites, IncomingInvite
  <2> QED
    BY <1>a, <1>s, <2>1, <2>2, ExclusionStays DEF Answers
<1>7. CASE \/ talk_stop(r) \/ ByeAnswered(r) \/ ByeFails(r) \/ DeadlinePasses(r) \/ PeerBye(r)
           \/ SenderEnds(r) \/ talk_closed(r)
  <2>1. CloseKept /\ FarTypeOK' /\ UNCHANGED <<setupVars, dropped>>
    BY <1>7, <1>a, TalkCloses
  <2>2. Stays /\ SetupTypeOK' /\ Handed'
    BY <1>a, <2>1 DEF setupVars, Stays, SetupTypeOK, Handed, InviteAfterNotice, InviteAttended
  <2> QED
    BY <1>a, <2>1, <2>2, ExclusionStays DEF CloseKept, Kept, Answers
<1> QED
  BY <1>1, <1>2, <1>3, <1>4, <1>5, <1>6, <1>7

\* retry_device: no talk and no request moves.
LEMMA TalkRetries ==
  ASSUME TalkTypeOK, TalkInv, retry_device, UNCHANGED <<setupVars, farVars, dropped>>
  PROVE  TalkTypeOK' /\ TalkInv'
<1>a. SetupTypeOK /\ CloseTypeOK /\ FarTypeOK /\ Exclusion /\ Handed /\ ClosingBounded
  BY TalkTypeParts DEF TalkInv, Exclusion, Handed
<1>1. CloseKept
  BY <1>a, CloseRetries
<1>2. Stays /\ SetupTypeOK' /\ FarTypeOK' /\ Handed'
  BY <1>a DEF setupVars, farVars, Stays, SetupTypeOK, FarTypeOK, Handed, InviteAfterNotice,
              InviteAttended
<1>3. Exclusion'
  BY <1>a, <1>1, <1>2, ExclusionStays DEF CloseKept
<1> QED
  BY <1>a, <1>1, <1>2, <1>3, TalkTypeParts
     DEF CloseKept, TalkInv, Exclusion, Handed, TalkTypeOK, SetupTypeOK, CloseTypeOK, FarTypeOK,
         Seated, Request, TalkState, Answer

LEMMA TalkResets ==
  ASSUME TalkTypeOK, TalkInv, ResetTalks PROVE TalkTypeOK' /\ TalkInv'
<1>a. SetupTypeOK /\ CloseTypeOK /\ FarTypeOK /\ Exclusion /\ Handed
  BY TalkTypeParts DEF TalkInv, Exclusion, Handed
<1>1. /\ talk' \in [Req -> TalkState] /\ timer' \in [Req -> BOOLEAN]
      /\ \A r \in Req : talk'[r].phase = None
  BY DEF ResetTalks, TalkState, NoTalk
<1>2. locks' \in [Channel -> Req \cup {None}] /\ UNCHANGED <<req, holder, waiter, inv, byeTask>>
  BY DEF ResetTalks
<1>3. dropped' \subseteq Channel /\ \A r \in Req : req[r].at \in InSetup => req[r].channel \in dropped'
  BY <1>a DEF ResetTalks, FarTypeOK, Exclusion, Seated
<1>4. SetupTypeOK' /\ CloseTypeOK' /\ FarTypeOK'
  BY <1>a, <1>1, <1>2, <1>3 DEF SetupTypeOK, CloseTypeOK, FarTypeOK, ResetTalks, farVars
<1>5. Seated' /\ Handed' /\ LocksShared'
  BY <1>a, <1>2, <1>3 DEF Exclusion, Seated, Handed, InviteAfterNotice, InviteAttended, LocksShared
<1>6. CheckedChannelFree' /\ TalksAreDone' /\ OneTalkPerChannel' /\ ClosingBounded'
  BY <1>1 DEF CheckedChannelFree, TalksAreDone, OneTalkPerChannel, ClosingBounded, None
<1> QED
  BY <1>4, <1>5, <1>6
     DEF TalkInv, Handed, TalkTypeOK, SetupTypeOK, CloseTypeOK, FarTypeOK, Seated, Request,
         TalkState, Answer

-----------------------------------------------------------------------------
(***************************************************************************)
(* The invariant of the catalog subscription.                              *)
(***************************************************************************)
LEMMA SubFacts ==
  ASSUME CatalogTypeOK
  PROVE  /\ sub \in Sub /\ sub.gen \in 0 .. MaxGen /\ sub.call \in 0 .. MaxCalls
         /\ sub # NoSub <=> sub.gen # 0
         /\ sub.gen = 0 => ~ sub.inflight
         /\ sub.gen # 0 => sub.gen \in Gen
<1>1. sub \in Sub /\ sub.gen \in 0 .. MaxGen /\ sub.call \in 0 .. MaxCalls
  BY DEF CatalogTypeOK, Sub
<1>2. sub.gen = 0 => sub = NoSub
  BY DEF CatalogTypeOK
<1> QED
  BY <1>1, <1>2, NoSubType, CatalogAssumption DEF Gen

\* Without a subscription only the task that makes the next one matters.
LEMMA NoSubscriptionLeft ==
  ASSUME CatalogInv, sub' = NoSub, lastGen' = lastGen, refresh \in [Gen -> 0 .. MaxCalls],
         \A g \in Gen : refresh'[g] = refresh[g] \/ refresh'[g] = 0,
         \A t \in Task : task'[t].at = "wait" => task[t].at = "wait" /\ task'[t].call = task[t].call,
         \/ ~ has_session'
         \/ gaveUp' \/ recovered'
         \/ \E t \in Task : task'[t].at \in Trying,
         lastGen \in 0 .. MaxGen
  PROVE  CatalogInv'
<1>1. sub'.gen = 0 /\ sub'.call = 0 /\ sub'.tag = 0 /\ ~ sub'.inflight
  BY NoSubType
<1>2. GenerationsFresh'
  BY <1>1, CatalogAssumption DEF CatalogInv, GenerationsFresh
<1>3. CallsNumbered'
  BY <1>1 DEF CatalogInv, CallsNumbered
<1>4. RefreshOfOwnCall' /\ RefreshAhead' /\ TagOfOwnDialog'
  BY <1>1 DEF RefreshOfOwnCall, RefreshAhead, TagOfOwnDialog
<1>5. KeptUpWhileRegistered'
  BY DEF KeptUpWhileRegistered
<1> QED
  BY <1>2, <1>3, <1>4, <1>5 DEF CatalogInv

\* A task that is spawned tries.
LEMMA TaskSpawned ==
  ASSUME CatalogTypeOK, NEW t \in Task, NEW at, SpawnTask(t, at)
  PROVE  /\ task'[t].at = at /\ task'[t].call = task[t].call
         /\ \A u \in Task \ {t} : task'[u] = task[u]
BY DEF CatalogTypeOK, SpawnTask

\* A step that leaves the subscription alone.
LEMMA SubscriptionStays ==
  ASSUME CatalogTypeOK, CatalogInv, UNCHANGED <<sub, lastGen>>,
         \A g \in Gen : refresh'[g] = refresh[g] \/ (refresh'[g] = 0 /\ sub.gen # g),
         \A t \in Task : task'[t].at = "wait" => task'[t].call # 0,
         \/ sub # NoSub /\ sub.gen \in armed \cup fired \cup stalled
              => sub.gen \in armed' \cup fired' \cup stalled'
         \/ sub.inflight,
         has_session' => \/ sub # NoSub \/ gaveUp' \/ recovered'
                         \/ \E t \in Task : task'[t].at \in Trying
  PROVE  CatalogInv'
<1>a. sub.gen # 0 => sub.gen \in Gen /\ refresh'[sub.gen] = refresh[sub.gen]
  BY SubFacts
<1>b. (sub # NoSub <=> sub.gen # 0) /\ (sub.gen = 0 => ~ sub.inflight)
  BY SubFacts
<1>1. GenerationsFresh'
  BY DEF CatalogInv, GenerationsFresh
<1>2. CallsNumbered'
  BY DEF CatalogInv, CallsNumbered
<1>3. RefreshOfOwnCall'
  BY <1>a, <1>b DEF CatalogInv, RefreshOfOwnCall
<1>4. RefreshAhead'
  <2>1. SUFFICES ASSUME sub # NoSub
                 PROVE  \/ sub.gen \in armed' \cup fired' \cup stalled'
                        \/ sub.inflight /\ refresh'[sub.gen] # 0
    BY DEF RefreshAhead
  <2>2. refresh'[sub.gen] = refresh[sub.gen]
    BY <1>a, <1>b, <2>1
  <2>3. CASE sub.inflight
    BY <2>2, <2>3 DEF CatalogInv, RefreshOfOwnCall
  <2>4. CASE ~ sub.inflight
    BY <2>1, <2>4 DEF CatalogInv, RefreshAhead
  <2> QED
    BY <2>3, <2>4
<1>5. TagOfOwnDialog' /\ KeptUpWhileRegistered'
  BY DEF CatalogInv, TagOfOwnDialog, KeptUpWhileRegistered
<1> QED
  BY <1>1, <1>2, <1>3, <1>4, <1>5 DEF CatalogInv

\* An answer to the current subscription's own refresh.
LEMMA RefreshEnds ==
  ASSUME CatalogTypeOK, CatalogInv, NEW g \in Gen, sub.gen = g, lastGen' = lastGen, task' = task,
         sub' \in Sub, sub'.gen = g, sub'.call = sub.call, sub'.tag = sub.call, ~ sub'.inflight,
         refresh' = [refresh EXCEPT ![g] = 0], g \in armed' \cup stalled'
  PROVE  CatalogInv'
<1>1. g # 0 /\ refresh'[g] = 0 /\ \A h \in Gen \ {g} : refresh'[h] = refresh[h]
  BY CatalogAssumption DEF CatalogTypeOK, Gen
<1>2. sub' # NoSub
  BY <1>1, NoSubType
<1>3. GenerationsFresh' /\ CallsNumbered'
  BY <1>1 DEF CatalogInv, GenerationsFresh, CallsNumbered
<1>4. RefreshOfOwnCall' /\ RefreshAhead'
  BY <1>1 DEF RefreshOfOwnCall, RefreshAhead
<1>5. TagOfOwnDialog' /\ KeptUpWhileRegistered'
  BY <1>2 DEF TagOfOwnDialog, KeptUpWhileRegistered
<1> QED
  BY <1>3, <1>4, <1>5 DEF CatalogInv

LEMMA CatalogStep ==
  ASSUME CatalogTypeOK, CatalogInv, CatalogNext, conn' = conn PROVE CatalogInv'
<1>a. /\ lastGen \in 0 .. MaxGen /\ calls \in 0 .. MaxCalls /\ refresh \in [Gen -> 0 .. MaxCalls]
      /\ \A t \in Task : task[t].at = "wait" => task[t].call # 0
      /\ has_session' = has_session
      /\ MaxGen \in Nat /\ MaxCalls \in Nat
  BY CatalogAssumption DEF CatalogTypeOK, CatalogInv, CallsNumbered, has_session
<1>k. has_session => sub # NoSub \/ gaveUp \/ recovered \/ \E t \in Task : task[t].at \in Trying
  BY DEF CatalogInv, KeptUpWhileRegistered
<1>1. ASSUME NEW t \in Task, Subscribe(t) PROVE CatalogInv'
  <2>1. UNCHANGED <<sub, lastGen, refresh, armed, fired, stalled>>
    BY <1>1 DEF Subscribe
  <2>2. CASE connected
    <3>1. /\ task'[t].at = "wait" /\ task'[t].call = calls + 1
          /\ \A u \in Task \ {t} : task'[u] = task[u]
      BY <1>1, <2>2 DEF Subscribe, CatalogTypeOK
    <3>2. \A u \in Task : task'[u].at = "wait" => task'[u].call # 0
      BY <1>a, <3>1
    <3>3. task'[t].at \in Trying
      BY <3>1 DEF Trying
    <3> QED
      BY <2>1, <3>2, <3>3, SubscriptionStays
  <2>3. CASE ~ connected
    <3>1. /\ task'[t].at = IF task[t].at = "first" THEN "sleep" ELSE "done"
          /\ task'[t].call = task[t].call /\ \A u \in Task \ {t} : task'[u] = task[u]
      BY <1>1, <2>3 DEF Subscribe, CatalogTypeOK
    <3>2. \A u \in Task : task'[u].at = "wait" => task'[u].call # 0
      BY <1>a, <3>1
    <3>3. task'[t].at \in Trying \/ gaveUp'
      BY <1>1, <2>3, <3>1 DEF Subscribe, Trying
    <3> QED
      BY <2>1, <3>2, <3>3, SubscriptionStays
  <2> QED
    BY <2>2, <2>3
<1>2. ASSUME NEW t \in Task, Established(t) PROVE CatalogInv'
  <2>1. /\ task'[t].at = "done" /\ \A u \in Task \ {t} : task'[u] = task[u]
        /\ task[t].at = "wait" /\ task[t].call # 0
    BY <1>2, <1>a, TaskSpawned DEF Established
  <2>2. \A u \in Task : task'[u].at = "wait" => task'[u].call # 0
    BY <1>a, <2>1
  <2>3. UNCHANGED <<fired, refresh, gaveUp, recovered>>
    BY <1>2 DEF Established
  <2>4. CASE sub = NoSub
    <3> DEFINE n == lastGen + 1
               c == task[t].call
    <3>1. n \in 1 .. MaxGen /\ lastGen' = n /\ n \in armed' \cup stalled' /\ c \in 0 .. MaxCalls
      BY <1>2, <1>a, <2>4 DEF Established, CatalogTypeOK, Schedule
    <3>2. sub' = [gen |-> n, call |-> c, tag |-> c, inflight |-> FALSE]
      BY <1>2, <2>4 DEF Established
    <3>3. /\ sub' # NoSub /\ sub'.gen = n /\ sub'.call = c /\ sub'.tag = c /\ ~ sub'.inflight
      <4> HIDE DEF n, c
      <4> QED
        BY <3>1, <3>2, NewSub
    <3>4. refresh[n] = 0
      BY <1>a, <3>1 DEF CatalogInv, GenerationsFresh, Gen
    <3>5. GenerationsFresh'
      BY <1>a, <2>3, <3>1, <3>3 DEF CatalogInv, GenerationsFresh, Gen
    <3>6. CallsNumbered'
      BY <2>1, <2>2, <3>3 DEF CallsNumbered
    <3>7. RefreshOfOwnCall' /\ RefreshAhead' /\ TagOfOwnDialog' /\ KeptUpWhileRegistered'
      BY <2>3, <3>1, <3>3, <3>4
         DEF RefreshOfOwnCall, RefreshAhead, TagOfOwnDialog, KeptUpWhileRegistered
    <3> QED
      BY <3>5, <3>6, <3>7 DEF CatalogInv
  <2>5. CASE sub # NoSub
    <3>1. UNCHANGED <<sub, lastGen, armed, stalled>>
      BY <1>2, <2>5 DEF Established
    <3> QED
      BY <2>2, <2>3, <2>5, <3>1, SubscriptionStays
  <2> QED
    BY <2>4, <2>5
<1>3. ASSUME NEW t \in Task, SubscribeFails(t) PROVE CatalogInv'
  <2>1. task'[t].at = "sleep" /\ \A u \in Task \ {t} : task'[u] = task[u]
    BY <1>3, TaskSpawned DEF SubscribeFails
  <2>2. \A u \in Task : task'[u].at = "wait" => task'[u].call # 0
    BY <1>a, <2>1
  <2>3. task'[t].at \in Trying
    BY <2>1 DEF Trying
  <2>4. UNCHANGED <<sub, lastGen, refresh, armed, fired, stalled>>
    BY <1>3 DEF SubscribeFails
  <2> QED
    BY <2>2, <2>3, <2>4, SubscriptionStays
<1>4. ASSUME NEW g \in Gen, TimerFires(g) PROVE CatalogInv'
  <2>1. /\ UNCHANGED <<sub, lastGen, refresh, task, gaveUp, recovered>>
        /\ armed \cup fired \cup stalled \subseteq armed' \cup fired' \cup stalled'
    BY <1>4 DEF TimerFires
  <2> QED
    BY <1>a, <1>k, <2>1, SubscriptionStays
<1>5. ASSUME NEW g \in Gen, TakeRefresh(g) PROVE CatalogInv'
  <2>1. UNCHANGED <<lastGen, task, armed, gaveUp, recovered>> /\ fired' = fired \ {g}
    BY <1>5 DEF TakeRefresh
  <2>2. CASE sub' = sub
    <3>1. /\ refresh' = refresh
          /\ \/ sub.gen # g /\ stalled' = stalled
             \/ sub.inflight
             \/ stalled' = stalled \cup {g}
      <4>1. CASE sub.gen # g \/ sub.inflight
        BY <1>5, <4>1 DEF TakeRefresh
      <4>2. CASE sub.gen = g /\ ~ sub.inflight
        <5>1. ASSUME sub' = [sub EXCEPT !.inflight = TRUE] PROVE FALSE
          <6>1. sub'.inflight = TRUE
            BY <5>1, SubFacts, MarkedSub
          <6> QED
            BY <2>2, <4>2, <6>1
        <5> QED
          BY <1>5, <2>2, <4>2, <5>1 DEF TakeRefresh
      <4> QED
        BY <4>1, <4>2
    <3>2. \/ sub.gen \in armed \cup fired \cup stalled => sub.gen \in armed' \cup fired' \cup stalled'
          \/ sub.inflight
      BY <2>1, <3>1
    <3> QED
      BY <1>a, <1>k, <2>1, <2>2, <3>1, <3>2, SubscriptionStays
  <2>3. CASE sub' # sub
    <3>1. /\ sub.gen = g /\ sub' = [sub EXCEPT !.inflight = TRUE] /\ sub \in Sub
          /\ refresh' = [refresh EXCEPT ![g] = sub.call] /\ stalled' = stalled
      BY <1>5, <2>3, SubFacts DEF TakeRefresh
    <3>2. sub'.gen = g /\ sub'.call = sub.call /\ sub'.tag = sub.tag /\ sub'.inflight
      BY <3>1, MarkedSub
    <3>3. g # 0 /\ refresh'[g] = sub.call /\ \A h \in Gen \ {g} : refresh'[h] = refresh[h]
      BY <1>a, <3>1 DEF Gen
    <3>4. sub.call # 0 /\ g <= lastGen /\ sub.tag = sub.call
      BY <3>1, <3>3 DEF CatalogInv, CallsNumbered, GenerationsFresh, TagOfOwnDialog
    <3>5. GenerationsFresh' /\ CallsNumbered'
      BY <2>1, <3>2, <3>3, <3>4 DEF CatalogInv, GenerationsFresh, CallsNumbered
    <3>6. RefreshOfOwnCall' /\ RefreshAhead' /\ TagOfOwnDialog'
      BY <3>2, <3>3, <3>4 DEF RefreshOfOwnCall, RefreshAhead, TagOfOwnDialog
    <3>7. KeptUpWhileRegistered'
      BY <3>2, <3>3, NoSubType DEF KeptUpWhileRegistered
    <3> QED
      BY <3>5, <3>6, <3>7 DEF CatalogInv
  <2> QED
    BY <2>2, <2>3
<1>r. ASSUME NEW g \in Gen, Refreshed(g) \/ RefreshFails(g), sub.gen # g PROVE CatalogInv'
  <2>1. sub' = sub /\ UNCHANGED <<lastGen, task, fired, gaveUp, recovered>>
    BY <1>r DEF Refreshed, RefreshFails, complete, MarkFailed
  <2>2. \A h \in Gen : refresh'[h] = refresh[h] \/ (refresh'[h] = 0 /\ h = g)
    BY <1>r, <1>a DEF Refreshed, RefreshFails
  <2>3. sub.gen \in armed \cup fired \cup stalled => sub.gen \in armed' \cup fired' \cup stalled'
    BY <1>r DEF Refreshed, RefreshFails, Schedule
  <2> QED
    BY <1>a, <1>k, <1>r, <2>1, <2>2, <2>3, SubscriptionStays
<1>6. ASSUME NEW g \in Gen, Refreshed(g), sub.gen = g PROVE CatalogInv'
  <2>1. /\ sub' = [sub EXCEPT !.tag = refresh[g], !.inflight = FALSE] /\ sub \in Sub
        /\ lastGen' = lastGen /\ task' = task
        /\ refresh' = [refresh EXCEPT ![g] = 0] /\ g \in armed' \cup stalled'
    BY <1>6, SubFacts DEF Refreshed, complete, Schedule
  <2>2. refresh[g] = sub.call /\ refresh[g] \in 0 .. MaxCalls
    BY <1>6, <1>a DEF Refreshed, CatalogInv, RefreshOfOwnCall, Gen
  <2>3. /\ sub' \in Sub /\ sub'.gen = g /\ sub'.call = sub.call /\ sub'.tag = sub.call
        /\ ~ sub'.inflight
    BY <1>6, <2>1, <2>2 DEF Sub
  <2> QED
    BY <1>6, <2>1, <2>3, RefreshEnds
<1>7. ASSUME NEW g \in Gen, RefreshFails(g), sub.gen = g PROVE CatalogInv'
  <2>1. /\ sub' = [sub EXCEPT !.inflight = FALSE] /\ sub \in Sub
        /\ lastGen' = lastGen /\ task' = task
        /\ refresh' = [refresh EXCEPT ![g] = 0] /\ g \in armed' \cup stalled'
    BY <1>7, SubFacts DEF RefreshFails, MarkFailed, Schedule
  <2>2. /\ sub' \in Sub /\ sub'.gen = g /\ sub'.call = sub.call /\ sub'.tag = sub.tag
        /\ ~ sub'.inflight
    BY <1>7, <2>1, MarkedSub
  <2>3. sub.tag = sub.call
    BY DEF CatalogInv, TagOfOwnDialog
  <2> QED
    BY <1>7, <2>1, <2>2, <2>3, RefreshEnds
<1>8. ASSUME NEW g \in Gen, RefreshUnknown(g) PROVE CatalogInv'
  <2>1. PICK t \in Task : SpawnTask(t, "sleep")
    BY <1>8 DEF RefreshUnknown, Idle
  <2>2. task'[t].at = "sleep" /\ \A u \in Task \ {t} : task'[u] = task[u]
    BY <2>1, TaskSpawned
  <2>3. /\ \A u \in Task : task'[u].at = "wait" =>
             task[u].at = "wait" /\ task'[u].call = task[u].call /\ task'[u].call # 0
        /\ task'[t].at \in Trying
    BY <1>a, <2>2 DEF Trying
  <2>4. /\ UNCHANGED <<lastGen, fired, stalled>> /\ RemoveGen(g)
        /\ \A h \in Gen : refresh'[h] = refresh[h] \/ (refresh'[h] = 0 /\ h = g)
    BY <1>8, <1>a DEF RefreshUnknown
  <2>5. CASE sub.gen = g
    <3>1. sub' = NoSub
      BY <2>4, <2>5 DEF RemoveGen
    <3> QED
      BY <1>a, <2>3, <2>4, <3>1, NoSubscriptionLeft
  <2>6. CASE sub.gen # g
    <3>1. UNCHANGED <<sub, armed>>
      BY <2>4, <2>6 DEF RemoveGen
    <3> QED
      BY <2>3, <2>4, <2>6, <3>1, SubscriptionStays
  <2> QED
    BY <2>5, <2>6
<1>9. ASSUME NotifyExpires PROVE CatalogInv'
  <2>1. /\ UNCHANGED <<sub, lastGen, task, fired, refresh, gaveUp, recovered>>
        /\ sub.gen \in armed' \cup stalled'
    BY <1>9 DEF NotifyExpires, Schedule
  <2> QED
    BY <1>a, <1>k, <2>1, SubscriptionStays
<1>10. ASSUME NotifyTerminated PROVE CatalogInv'
  <2>1. PICK t \in Task : SpawnTask(t, "sleep")
    BY <1>10 DEF NotifyTerminated, Idle
  <2>2. task'[t].at = "sleep" /\ \A u \in Task \ {t} : task'[u] = task[u]
    BY <2>1, TaskSpawned
  <2>3. /\ \A u \in Task : task'[u].at = "wait" => task[u].at = "wait" /\ task'[u].call = task[u].call
        /\ task'[t].at \in Trying
    BY <2>2 DEF Trying
  <2>4. sub' = NoSub /\ UNCHANGED <<lastGen, refresh>>
    BY <1>10 DEF NotifyTerminated, RemoveGen
  <2> QED
    BY <1>a, <2>3, <2>4, NoSubscriptionLeft
<1> QED
  BY <1>1, <1>2, <1>3, <1>4, <1>5, <1>r, <1>6, <1>7, <1>8, <1>9, <1>10 DEF CatalogNext

-----------------------------------------------------------------------------
(***************************************************************************)
(* The services together: what the registration does reaches both.         *)
(***************************************************************************)
LEMMA CatalogRegisters ==
  ASSUME CatalogTypeOK, CatalogInv, SubscribeAgain PROVE CatalogTypeOK' /\ CatalogInv'
<1>1. PICK t \in Task : SpawnTask(t, "first")
  BY DEF SubscribeAgain, Idle
<1>2. sub' = NoSub /\ armed' \subseteq armed /\ UNCHANGED <<lastGen, calls, fired, refresh, stalled>>
      /\ gaveUp' \in BOOLEAN /\ recovered' \in BOOLEAN
  BY DEF SubscribeAgain, RemoveAny
<1>3. CatalogTypeOK'
  <2>1. task' \in [Task -> [at : Trying \cup {"idle", "done"}, call : 0 .. MaxCalls]]
    BY <1>1 DEF SpawnTask, CatalogTypeOK, Trying
  <2>2. sub' \in [gen : 0 .. MaxGen, call : 0 .. MaxCalls, tag : 0 .. MaxCalls, inflight : BOOLEAN]
    BY <1>2, NoSubType DEF Sub
  <2> QED
    BY <1>2, <2>1, <2>2 DEF CatalogTypeOK
<1>4. task'[t].at = "first" /\ \A u \in Task \ {t} : task'[u] = task[u]
  BY <1>1, TaskSpawned
<1>5. task'[t].at \in Trying
  BY <1>4 DEF Trying
<1>6. refresh \in [Gen -> 0 .. MaxCalls] /\ lastGen \in 0 .. MaxGen
  BY DEF CatalogTypeOK
<1> QED
  BY <1>2, <1>3, <1>4, <1>5, <1>6, NoSubscriptionLeft

LEMMA CatalogEnds ==
  ASSUME CatalogTypeOK, CatalogInv, ResetCatalog, ~ has_session' PROVE CatalogTypeOK' /\ CatalogInv'
<1>1. /\ sub' = NoSub /\ armed' \subseteq armed
      /\ UNCHANGED <<lastGen, calls, task, fired, refresh, stalled, gaveUp, recovered>>
  BY DEF ResetCatalog, RemoveAny
<1>2. CatalogTypeOK'
  <2>1. sub' \in [gen : 0 .. MaxGen, call : 0 .. MaxCalls, tag : 0 .. MaxCalls, inflight : BOOLEAN]
    BY <1>1, NoSubType DEF Sub
  <2> QED
    BY <1>1, <2>1 DEF CatalogTypeOK
<1>3. refresh \in [Gen -> 0 .. MaxCalls] /\ lastGen \in 0 .. MaxGen
  BY DEF CatalogTypeOK
<1> QED
  BY <1>1, <1>2, <1>3, NoSubscriptionLeft

LEMMA CatalogUntouched ==
  ASSUME CatalogTypeOK, CatalogInv, UNCHANGED catalogVars, has_session' => has_session
  PROVE  CatalogTypeOK' /\ CatalogInv'
<1> USE DEF catalogVars
<1>1. CatalogTypeOK'
  BY DEF CatalogTypeOK
<1>2. GenerationsFresh' /\ CallsNumbered' /\ RefreshOfOwnCall' /\ RefreshAhead' /\ TagOfOwnDialog'
  BY DEF CatalogInv, GenerationsFresh, CallsNumbered, RefreshOfOwnCall, RefreshAhead, TagOfOwnDialog
<1>3. KeptUpWhileRegistered'
  BY DEF CatalogInv, KeptUpWhileRegistered
<1> QED
  BY <1>1, <1>2, <1>3 DEF CatalogInv

\* A keepalive that recovers the device leaves the subscription as it is, and
\* marks a session that was made without a REGISTER.
LEMMA CatalogRecovers ==
  ASSUME CatalogTypeOK, CatalogInv, Recovers PROVE CatalogTypeOK' /\ CatalogInv'
<1>1. /\ UNCHANGED <<sub, lastGen, calls, task, armed, fired, refresh, stalled, gaveUp>>
      /\ recovered' = (recovered \/ ~ has_session)
  BY DEF Recovers
<1>2. CatalogTypeOK'
  BY <1>1 DEF CatalogTypeOK
<1>3. GenerationsFresh' /\ CallsNumbered' /\ RefreshOfOwnCall' /\ RefreshAhead' /\ TagOfOwnDialog'
  BY <1>1 DEF CatalogInv, GenerationsFresh, CallsNumbered, RefreshOfOwnCall, RefreshAhead,
              TagOfOwnDialog
<1>4. KeptUpWhileRegistered'
  BY <1>1 DEF CatalogInv, KeptUpWhileRegistered
<1> QED
  BY <1>2, <1>3, <1>4 DEF CatalogInv

LEMMA TalkUntouched ==
  ASSUME TalkTypeOK, TalkInv, UNCHANGED talkVars PROVE TalkTypeOK' /\ TalkInv'
<1> USE DEF talkVars, setupVars, closeVars, farVars
<1>1. TalkTypeOK'
  BY DEF TalkTypeOK
<1>2. LocksShared' /\ CheckedChannelFree' /\ TalksAreDone' /\ InviteAfterNotice'
  BY DEF TalkInv, LocksShared, CheckedChannelFree, TalksAreDone, InviteAfterNotice
<1>3. OneTalkPerChannel' /\ InviteAttended' /\ ClosingBounded'
  BY DEF TalkInv, OneTalkPerChannel, InviteAttended, ClosingBounded
<1> QED
  BY <1>1, <1>2, <1>3 DEF TalkInv

LEMMA ServicesInit == Init => Inv
<1> SUFFICES ASSUME Init PROVE Inv
  OBVIOUS
<1>1. CatalogTypeOK
  <2>1. sub \in [gen : 0 .. MaxGen, call : 0 .. MaxCalls, tag : 0 .. MaxCalls, inflight : BOOLEAN]
    BY NoSubType DEF Init, CatalogInit, Sub
  <2>2. task \in [Task -> [at : Trying \cup {"idle", "done"}, call : 0 .. MaxCalls]]
    <3>1. task = [t \in Task |-> [at |-> "idle", call |-> 0]]
      BY DEF Init, CatalogInit
    <3>2. 0 \in 0 .. MaxCalls
      BY CatalogAssumption
    <3> QED
      BY <3>1, <3>2
  <2>3. /\ lastGen \in 0 .. MaxGen /\ calls \in 0 .. MaxCalls /\ refresh \in [Gen -> 0 .. MaxCalls]
        /\ sub = NoSub /\ gaveUp \in BOOLEAN /\ recovered \in BOOLEAN
    <3>1. /\ lastGen = 0 /\ calls = 0 /\ refresh = [g \in Gen |-> 0] /\ sub = NoSub
          /\ gaveUp = FALSE /\ recovered = FALSE
      BY DEF Init, CatalogInit
    <3>2. 0 \in 0 .. MaxGen /\ 0 \in 0 .. MaxCalls
      BY CatalogAssumption
    <3> QED
      BY <3>1, <3>2
  <2> QED
    BY <2>1, <2>2, <2>3 DEF Init, CatalogInit, CatalogTypeOK
<1>2. CatalogInv
  <2>1. sub = NoSub /\ sub.gen = 0 /\ sub.call = 0 /\ sub.tag = 0 /\ ~ sub.inflight
    BY NoSubType DEF Init, CatalogInit
  <2> QED
    BY <2>1 DEF Init, CatalogInit, CatalogInv, GenerationsFresh, CallsNumbered, RefreshOfOwnCall,
                KeptUpWhileRegistered, RefreshAhead, TagOfOwnDialog, has_session
<1>3. \A r \in Req : req[r].at = "idle" /\ req[r].rx = None /\ talk[r].phase = None /\ inv[r] = None
  BY DEF Init, TalkInit, NoTalk
<1>4. TalkTypeOK
  <2>1. req \in [Req -> Request] /\ talk \in [Req -> TalkState]
    BY DEF Init, TalkInit, NoTalk, Request, TalkState
  <2>2. Seated
    BY <1>3 DEF Seated, InSetup, Listening
  <2> QED
    BY <2>1, <2>2, TalkTypeParts
       DEF Init, TalkInit, SetupTypeOK, CloseTypeOK, FarTypeOK, Answer
<1>5. TalkInv
  <2>1. waiter = None
    BY DEF Init, TalkInit
  <2>2. LocksShared /\ CheckedChannelFree /\ TalksAreDone /\ InviteAfterNotice
    BY <1>3 DEF LocksShared, CheckedChannelFree, TalksAreDone, InviteAfterNotice, InSetup, Listening
  <2>3. OneTalkPerChannel /\ InviteAttended /\ ClosingBounded
    BY <1>3, <2>1 DEF OneTalkPerChannel, InviteAttended, ClosingBounded, None
  <2> QED
    BY <2>2, <2>3 DEF TalkInv
<1>6. conn \in {None, "connected", "detached"} /\ changes \in 0 .. MaxChanges
  BY ChangesAssumption DEF Init
<1> QED
  BY <1>1, <1>2, <1>4, <1>5, <1>6 DEF Inv, TypeOK

LEMMA ServicesStep == Inv /\ [Next]_vars => Inv'
<1> SUFFICES ASSUME Inv, [Next]_vars PROVE Inv'
  OBVIOUS
<1> DEFINE Reg == conn \in {None, "connected", "detached"} /\ changes \in 0 .. MaxChanges
<1>a. CatalogTypeOK /\ CatalogInv /\ TalkTypeOK /\ TalkInv /\ Reg
  BY DEF Inv, TypeOK
<1>b. SUFFICES CatalogTypeOK' /\ CatalogInv' /\ TalkTypeOK' /\ TalkInv' /\ Reg'
  BY DEF Inv, TypeOK
<1>c. ASSUME Change PROVE changes' \in 0 .. MaxChanges
  BY <1>a, <1>c, ChangesAssumption DEF Change
<1>1. CASE TalkNext /\ UNCHANGED <<conn, changes, catalogVars>>
  <2>1. has_session' => has_session
    BY <1>1 DEF has_session
  <2> QED
    BY <1>1, <1>a, <2>1, TalkStep, CatalogUntouched
<1>2. CASE CatalogNext /\ UNCHANGED <<conn, changes, talkVars>>
  BY <1>2, <1>a, CatalogStep, CatalogStepType, TalkUntouched
<1>3. CASE Registers
  BY <1>3, <1>a, <1>c, TalkRetries, TalkResets, CatalogRegisters DEF Registers
<1>4. CASE Detaches
  <2>1. has_session' => has_session
    BY <1>4 DEF Detaches, has_session, connected, None
  <2> QED
    BY <1>4, <1>a, <1>c, <2>1, TalkUntouched, CatalogUntouched DEF Detaches
<1>5. CASE Recovers
  <2>1. TalkTypeOK' /\ TalkInv'
    <3>1. CASE retry_device
      BY <1>5, <1>a, <3>1, TalkRetries DEF Recovers
    <3>2. CASE UNCHANGED closeVars
      BY <1>5, <1>a, <3>2, TalkUntouched DEF Recovers, talkVars
    <3> QED
      BY <1>5, <3>1, <3>2 DEF Recovers
  <2>2. Reg'
    BY <1>5, <1>c DEF Recovers
  <2> QED
    BY <1>5, <1>a, <2>1, <2>2, CatalogRecovers
<1>6. CASE Ends
  <2>1. ~ has_session'
    BY <1>6 DEF Ends, has_session
  <2> QED
    BY <1>6, <1>a, <1>c, <2>1, TalkResets, CatalogEnds DEF Ends
<1>8. CASE RegisterFails
  <2>1. has_session' => has_session
    BY <1>8 DEF RegisterFails
  <2>2. Reg'
    BY <1>8, <1>c DEF RegisterFails
  <2> QED
    BY <1>8, <1>a, <2>1, <2>2, TalkUntouched, CatalogUntouched DEF RegisterFails
<1>7. CASE UNCHANGED vars
  <2>1. has_session' => has_session
    BY <1>7 DEF has_session, vars
  <2> QED
    BY <1>7, <1>a, <2>1, TalkUntouched, CatalogUntouched DEF vars
<1> QED
  BY <1>1, <1>2, <1>3, <1>4, <1>5, <1>6, <1>7, <1>8 DEF Next

\* The inductive invariant holds throughout.
THEOREM ServicesInvariant == Spec => []Inv
BY ServicesInit, ServicesStep, PTL DEF Spec

\* The registration, the talks and the subscription keep their shape, and a
\* talk_start past its lock holds it to its end.
THEOREM ServicesTypeCorrect == Spec => []TypeOK
<1>1. Inv => TypeOK
  BY DEF Inv
<1> QED
  BY <1>1, ServicesInvariant, PTL

\* A connected device is subscribed or a task still tries, through any
\* registrations, losses and failures, unless a task found it away since the
\* last REGISTER or a keepalive made its session without one
\* (subscribe_catalog, retry_new_catalog_subscription,
\* recover_device_on_keepalive).
THEOREM SubscriptionCorrect == Spec => []SubscriptionKeptUp
<1>1. Inv => SubscriptionKeptUp
  BY DEF Inv, CatalogInv, KeptUpWhileRegistered, SubscriptionKeptUp, connected, has_session, None
<1> QED
  BY <1>1, ServicesInvariant, PTL

\* A subscription will be refreshed: no order of timer, event, answer and
\* NOTIFY loses all three, unless the last refresh of its generation was given
\* up, by a refused timer, a full channel, the device being away or a request
\* that was not queued (refresh_catalog_subscription, schedule_catalog_refresh).
THEOREM RefreshCorrect == Spec => []RefreshAhead
<1>1. Inv => RefreshAhead
  BY DEF Inv, CatalogInv
<1> QED
  BY <1>1, ServicesInvariant, PTL

\* A late answer to the refresh of an earlier subscription never changes the
\* tag of the present one (catalog_subscription_complete).
THEOREM TagCorrect == Spec => []TagOfOwnDialog
<1>1. Inv => TagOfOwnDialog
  BY DEF Inv, CatalogInv
<1> QED
  BY <1>1, ServicesInvariant, PTL

\* A channel has one talk at a time, except where reset_device_state dropped
\* the lock of a set-up under way (talk_start, stream_setup_locks).
THEOREM OneTalkCorrect == Spec => []OneTalkPerChannel
<1>1. Inv => OneTalkPerChannel
  BY DEF Inv, TalkInv
<1> QED
  BY <1>1, ServicesInvariant, PTL

\* No set-up ends with an INVITE in its hands that it did not try to answer,
\* and none is handed to a set-up that has gone; an answer the command queue
\* refused, and an INVITE that comes while its waiter gives up, are named as
\* unanswered (broadcast_notify_and_wait, reject_buffered_broadcast_invite).
THEOREM InviteCorrect == Spec => []InviteAttended
<1>1. Inv => InviteAttended
  BY DEF Inv, TalkInv
<1> QED
  BY <1>1, ServicesInvariant, PTL

\* A talk that is being closed has its deadline armed, and its BYE is under
\* way whenever it is marked so (talk_close).
THEOREM ClosingCorrect == Spec => []ClosingBounded
<1>1. Inv => ClosingBounded
  BY DEF Inv, TalkInv
<1> QED
  BY <1>1, ServicesInvariant, PTL
=============================================================================
