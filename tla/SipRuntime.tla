----------------------------- MODULE SipRuntime -----------------------------
(***************************************************************************)
(* The native SIP runtime of the signalling node: the handle with its       *)
(* association ids and its bounded command queue, the thread that owns the  *)
(* SIP stack, the task that handles its events one at a time, the task that *)
(* looks up credentials in batches, and the waiters of the callers.         *)
(*                                                                          *)
(* The stack itself (gmv_pjsip) is external: it sends what it is told to or *)
(* refuses, and reports responses, faults, requests and connections.        *)
(***************************************************************************)
EXTENDS Naturals, Sequences, FiniteSets, SequencesExt, Functions

CONSTANTS Op,           \* operations of callers, each with an id of its own
          Assoc,        \* TCP associations (address pairs)
          Lookup,       \* authentication lookups the stack asks for
          Device,       \* devices
          Rows,         \* the GMV_OAUTH rows a device may have
          Kinds,        \* the requests callers make
          MaxCommands,  \* RUNTIME_COMMAND_CAPACITY (32768 in the code)
          MaxBatch,     \* AUTH_DB_BATCH_LIMIT (2000)
          MaxConn,      \* bound: connections accepted
          MaxEvents     \* bound: events in flight (unbounded in the code)

ASSUME RuntimeAssumption ==
    /\ MaxCommands \in Nat \ {0} /\ MaxBatch \in Nat \ {0}
    /\ MaxConn \in Nat /\ MaxEvents \in Nat
    /\ Rows \subseteq {"absent", "disabled", "unchecked", "blank", "password"}
    /\ Kinds \subseteq {"message", "dialog", "invite", "subscribe", "refresh"}

VARIABLES calls,        \* the callers: where they are, what they got
          waiters,      \* native_response, _invite and _subscription_waiters
          late,         \* operations whose deadline has passed
          commands,     \* runtime_commands
          owner,        \* the thread gmv-pjsip-owner
          service,      \* NativeSipRuntimeService
          associationIds,
          events,       \* business_tx
          handling,     \* the event whose association was dealt with
          lookups,      \* lookup_tx
          batch,        \* the batch run_auth_batches is loading
          authTask,
          cache,        \* DeviceAuthCache: devices with a valid entry
          row,          \* GMV_OAUTH, read only
          asked,        \* external: the device each lookup is for
          verdict,      \* external: what the stack was told about a lookup
          transactions, \* external: operations the stack has sent
          transport,    \* external: the open connection of an association
          connections,  \* external: connections accepted so far
          closing       \* external: connections whose end is not reported yet

vars == <<calls, waiters, late, commands, owner, service, associationIds,
          events, handling, lookups, batch, authTask, cache, row, asked,
          verdict, transactions, transport, connections, closing>>
callerVars == <<calls, waiters, late>>
authVars == <<lookups, batch, authTask, cache, asked, verdict>>
stackVars == <<transactions, transport, connections, closing>>
eventVars == <<associationIds, events, handling>>

None == "none"

-----------------------------------------------------------------------------
(* Events, commands and the waiters they end.                               *)

\* An event that arrived on a connection names it; id 0 stands for none.
OpEvent(kind, op, status, a, id) ==
    [kind |-> kind, op |-> op, status |-> status, assoc |-> a, id |-> id]
ConnEvent(kind, a, id) == [kind |-> kind, assoc |-> a, id |-> id]

Statuses == {"trying", "ok", "noDialog", "rejected", "unavailable"}

RuntimeCommand ==
    [kind : {"send"}, op : Op, id : 0 .. MaxConn]
        \cup [kind : {"close"}, assoc : Assoc, id : 1 .. MaxConn]
        \cup [kind : {"auth"}, lookup : Lookup, result :
                {"NotFound", "Reject", "Bypass", "Credential"}]

RuntimeEvent ==
    [kind : {"response", "fault"}, op : Op, status : Statuses,
     assoc : Assoc, id : 0 .. MaxConn]
        \cup [kind : {"request", "closed"}, assoc : Assoc, id : 1 .. MaxConn]

\* The map of waiters a request's answer is looked up in.
WaiterMap(kind) ==
    CASE kind = "invite" -> "invite"
      [] kind = "subscribe" -> "subscription"
      [] OTHER -> "response"

\* Mutant: a provisional answer wakes the caller.
complete_native_Provisional(op, maps, status) ==
    IF op \in waiters /\ WaiterMap(calls[op].kind) \in maps
    THEN /\ waiters' = waiters \ {op}
         /\ calls' = IF calls[op].at \in {"sending", "waiting"}
                     THEN [calls EXCEPT ![op].answer = status] ELSE calls
    ELSE UNCHANGED <<waiters, calls>>

\* complete_native_response, _invite and _subscription, fail_native_invite:
\* the waiter is taken from its map and the caller, if it still listens, gets
\* the status.  A provisional status takes nothing.
complete_native(op, maps, status) ==
    IF op \in waiters /\ WaiterMap(calls[op].kind) \in maps /\ status # "trying"
    THEN /\ waiters' = waiters \ {op}
         /\ calls' = IF calls[op].at \in {"sending", "waiting"}
                     THEN [calls EXCEPT ![op].answer = status] ELSE calls
    ELSE UNCHANGED <<waiters, calls>>

AllMaps == {"invite", "subscription", "response"}

\* Mutant: a SUBSCRIBE is only looked for among the new subscriptions.
ResponseMaps_NewOnly(kind) ==
    CASE kind = "invite" -> {"invite"}
      [] kind \in {"subscribe", "refresh"} -> {"subscription"}
      [] OTHER -> {"response"}

\* The maps a response is offered to, by its method.
ResponseMaps(kind) ==
    CASE kind = "invite" -> {"invite"}
      [] kind \in {"subscribe", "refresh"} -> {"subscription", "response"}
      [] OTHER -> {"response"}

\* try_send on the command queue: refused when full or when the owner is gone.
Queueable == owner = "running" /\ Len(commands) < MaxCommands

-----------------------------------------------------------------------------
(* The callers.                                                             *)

\* A caller takes an operation id and inserts its waiter.
insert_native_waiter(o) ==
    /\ calls[o].at = "idle"
    /\ \E k \in Kinds, a \in Assoc :
          calls' = [calls EXCEPT ![o] =
              [at |-> "sending", kind |-> k, assoc |-> a, answer |-> None]]
    /\ waiters' = waiters \cup {o}
    /\ UNCHANGED <<late, commands, owner, service, row>>
    /\ UNCHANGED <<authVars, stackVars, eventVars>>

\* A request that starts or refreshes something goes over the association's
\* current connection; send_dialog_request names none.
Routed(o) ==
    calls[o].kind = "dialog" \/ associationIds[calls[o].assoc] # 0

\* send_message, send_invite, send_subscribe, send_dialog_request.
submit(o) ==
    /\ calls[o].at = "sending"
    /\ IF Routed(o) /\ Queueable
       THEN /\ commands' = Append(commands, [kind |-> "send", op |-> o,
                 id |-> IF calls[o].kind = "dialog" THEN 0
                        ELSE associationIds[calls[o].assoc]])
            /\ calls' = [calls EXCEPT ![o].at = "waiting"]
            /\ UNCHANGED waiters
       ELSE /\ calls' = [calls EXCEPT ![o].at = "failed"]
            /\ waiters' = waiters \ {o}
            /\ UNCHANGED commands
    /\ UNCHANGED <<late, owner, service, row>>
    /\ UNCHANGED <<authVars, stackVars, eventVars>>

\* recv_with_timeout returns the answer.
receive(o) ==
    /\ calls[o].at = "waiting" /\ calls[o].answer # None
    /\ calls' = [calls EXCEPT ![o].at = "answered"]
    /\ UNCHANGED <<waiters, late, commands, owner, service, row>>
    /\ UNCHANGED <<authVars, stackVars, eventVars>>

\* It returns timeout, or waiter closed after cleanup_expired: the receiver
\* is dropped first, the waiter removed after.
timeout(o) ==
    /\ calls[o].at = "waiting" /\ calls[o].answer = None /\ o \in late
    /\ calls' = [calls EXCEPT ![o].at = "expired"]
    /\ UNCHANGED <<waiters, late, commands, owner, service, row>>
    /\ UNCHANGED <<authVars, stackVars, eventVars>>

remove_native_waiter(o) ==
    /\ calls[o].at = "expired"
    /\ calls' = [calls EXCEPT ![o].at = "failed"]
    /\ waiters' = waiters \ {o}
    /\ UNCHANGED <<late, commands, owner, service, row>>
    /\ UNCHANGED <<authVars, stackVars, eventVars>>

\* The caller's future is dropped while it waits (its HTTP client left).
abandon(o) ==
    /\ calls[o].at = "waiting"
    /\ calls' = [calls EXCEPT ![o].at = "abandoned"]
    /\ UNCHANGED <<waiters, late, commands, owner, service, row>>
    /\ UNCHANGED <<authVars, stackVars, eventVars>>

DeadlinePasses(o) ==
    /\ o \notin late
    /\ o \in waiters \/ calls[o].at \in {"sending", "waiting"}
    /\ late' = late \cup {o}
    /\ UNCHANGED <<calls, waiters, commands, owner, service, row>>
    /\ UNCHANGED <<authVars, stackVars, eventVars>>

\* Mutant: it forgets the waiters of new subscriptions.
Collected_NoSubscriptions ==
    {o \in late : WaiterMap(calls[o].kind) # "subscription"}

\* The periodic task drops the waiters past their deadline.
Collected == {o \in Op : o \in late}

cleanup_expired ==
    /\ service = "up" /\ waiters \cap Collected # {}
    /\ waiters' = waiters \ Collected
    /\ UNCHANGED <<calls, late, commands, owner, service, row>>
    /\ UNCHANGED <<authVars, stackVars, eventVars>>

\* close_transport of an expired session: the id is forgotten at once, the
\* command may be refused.
close_transport(a) ==
    /\ associationIds[a] # 0
    /\ associationIds' = [associationIds EXCEPT ![a] = 0]
    /\ commands' = IF Queueable
                   THEN Append(commands, [kind |-> "close", assoc |-> a,
                                          id |-> associationIds[a]])
                   ELSE commands
    /\ UNCHANGED <<owner, service, events, handling, row>>
    /\ UNCHANGED <<callerVars, authVars, stackVars>>

-----------------------------------------------------------------------------
(* The owner thread: commands first, then the stack is polled and its       *)
(* events are passed on.                                                    *)

\* The end of a connection is reported some time after it; external.
ConnectionEnds(a) ==
    /\ transport' = [transport EXCEPT ![a] = 0]
    /\ closing' = closing \cup {ConnEvent("closed", a, transport[a])}

Sendable(c) ==
    calls[c.op].kind = "dialog" \/ transport[calls[c.op].assoc] = c.id

\* The stack takes a request: from now on it will report a final answer.
SendAccepted ==
    /\ owner = "running" /\ commands # <<>> /\ Head(commands).kind = "send"
    /\ Sendable(Head(commands))
    /\ transactions' = transactions \cup {Head(commands).op}
    /\ commands' = Tail(commands)
    /\ UNCHANGED <<owner, service, row, transport, connections, closing>>
    /\ UNCHANGED <<callerVars, authVars, eventVars>>

\* It refuses one (its connection is gone, or for reasons of its own).
SendRefused ==
    /\ owner = "running" /\ commands # <<>> /\ Head(commands).kind = "send"
    /\ LET o == Head(commands).op
       IN  complete_native(o, ResponseMaps(calls[o].kind), "unavailable")
    /\ commands' = Tail(commands)
    /\ UNCHANGED <<late, owner, service, row>>
    /\ UNCHANGED <<authVars, stackVars, eventVars>>

CommandClose ==
    /\ owner = "running" /\ commands # <<>> /\ Head(commands).kind = "close"
    /\ LET c == Head(commands)
       IN  IF transport[c.assoc] = c.id THEN ConnectionEnds(c.assoc)
           ELSE UNCHANGED <<transport, closing>>
    /\ commands' = Tail(commands)
    /\ UNCHANGED <<owner, service, row, transactions, connections>>
    /\ UNCHANGED <<callerVars, authVars, eventVars>>

\* complete_auth_lookup fails, and is only logged, once the stack gave up.
CommandAuth ==
    /\ owner = "running" /\ commands # <<>> /\ Head(commands).kind = "auth"
    /\ LET c == Head(commands)
       IN  verdict' = IF verdict[c.lookup] = "pending"
                      THEN [verdict EXCEPT ![c.lookup] = c.result] ELSE verdict
    /\ commands' = Tail(commands)
    /\ UNCHANGED <<owner, service, row, lookups, batch, authTask, cache, asked>>
    /\ UNCHANGED <<callerVars, stackVars, eventVars>>

\* What runtime.poll reports; external.
Reports(e) ==
    /\ owner = "running" /\ Len(events) < MaxEvents
    /\ events' = Append(events, e)
    /\ UNCHANGED <<commands, owner, service, row, associationIds, handling>>
    /\ UNCHANGED <<callerVars, authVars>>

PollResponse(o) ==
    /\ o \in transactions
    /\ \E s \in {"trying", "ok", "rejected"}
                  \cup (IF calls[o].kind = "invite" THEN {"noDialog"} ELSE {}) :
          /\ Reports(OpEvent("response", o, s, calls[o].assoc,
                             transport[calls[o].assoc]))
          /\ transactions' = IF s = "trying" THEN transactions
                             ELSE transactions \ {o}
    /\ UNCHANGED <<transport, connections, closing>>

PollFault(o) ==
    /\ o \in transactions
    /\ Reports(OpEvent("fault", o, "unavailable", calls[o].assoc, 0))
    /\ transactions' = transactions \ {o}
    /\ UNCHANGED <<transport, connections, closing>>

PollRequest(a) ==
    /\ transport[a] # 0
    /\ Reports(ConnEvent("request", a, transport[a]))
    /\ UNCHANGED stackVars

PollAccept(a) ==
    /\ owner = "running" /\ transport[a] = 0 /\ connections < MaxConn
    /\ connections' = connections + 1
    /\ transport' = [transport EXCEPT ![a] = connections + 1]
    /\ UNCHANGED <<commands, owner, service, row, transactions, closing>>
    /\ UNCHANGED <<callerVars, authVars, eventVars>>

PollDisconnect(a) ==
    /\ owner = "running" /\ transport[a] # 0
    /\ ConnectionEnds(a)
    /\ UNCHANGED <<commands, owner, service, row, transactions, connections>>
    /\ UNCHANGED <<callerVars, authVars, eventVars>>

PollClosed(e) ==
    /\ e \in closing
    /\ Reports(e)
    /\ closing' = closing \ {e}
    /\ UNCHANGED <<transactions, transport, connections>>

\* AuthLookupRequired goes to the auth task; when that has ended, the owner
\* thread returns.
PollAuth(l) ==
    /\ owner = "running" /\ verdict[l] = None
    /\ \E d \in Device : asked' = [asked EXCEPT ![l] = d]
    /\ verdict' = [verdict EXCEPT ![l] = "pending"]
    /\ IF authTask = "ended"
       THEN owner' = "ended" /\ commands' = <<>> /\ UNCHANGED lookups
       ELSE lookups' = Append(lookups, l) /\ UNCHANGED <<owner, commands>>
    /\ UNCHANGED <<service, row, batch, authTask, cache>>
    /\ UNCHANGED <<callerVars, stackVars, eventVars>>

\* The stack stops waiting for a lookup after AUTH_LOOKUP_TIMEOUT; external.
LookupExpires(l) ==
    /\ owner = "running" /\ verdict[l] = "pending"
    /\ verdict' = [verdict EXCEPT ![l] = "expired"]
    /\ UNCHANGED <<commands, owner, service, row>>
    /\ UNCHANGED <<lookups, batch, authTask, cache, asked>>
    /\ UNCHANGED <<callerVars, stackVars, eventVars>>

\* The loop ends when polling fails or the service is cancelled; the queue's
\* receiver goes with it.
OwnerEnds ==
    /\ owner = "running"
    /\ owner' = "ended" /\ commands' = <<>>
    /\ UNCHANGED <<service, row>>
    /\ UNCHANGED <<callerVars, authVars, stackVars, eventVars>>

-----------------------------------------------------------------------------
(* run_native_business_events.                                              *)

\* Mutant: a close is taken to be about whatever connection is known now.
AfterEvent_AnyId(e) ==
    IF e.kind = "closed" THEN [associationIds EXCEPT ![e.assoc] = 0]
    ELSE IF e.id # 0 THEN [associationIds EXCEPT ![e.assoc] = e.id]
         ELSE associationIds

\* Mutant: a close does not touch the ids.
AfterEvent_Keeps(e) ==
    IF e.kind # "closed" /\ e.id # 0
    THEN [associationIds EXCEPT ![e.assoc] = e.id] ELSE associationIds

\* remember_event_association and forget_event_association.
AfterEvent(e) ==
    IF e.kind = "closed"
    THEN IF associationIds[e.assoc] = e.id
         THEN [associationIds EXCEPT ![e.assoc] = 0] ELSE associationIds
    ELSE IF e.id # 0 THEN [associationIds EXCEPT ![e.assoc] = e.id]
         ELSE associationIds

TakeEvent ==
    /\ service # "stopped" /\ handling = <<>> /\ events # <<>>
    /\ associationIds' = AfterEvent(Head(events))
    /\ handling' = <<Head(events)>>
    /\ events' = Tail(events)
    /\ UNCHANGED <<commands, owner, service, row>>
    /\ UNCHANGED <<callerVars, authVars, stackVars>>

HandleEvent ==
    /\ service # "stopped" /\ handling # <<>>
    /\ LET e == handling[1]
       IN  CASE e.kind = "response" ->
                  complete_native(e.op, ResponseMaps(calls[e.op].kind), e.status)
             [] e.kind = "fault" -> complete_native(e.op, AllMaps, e.status)
             [] OTHER -> UNCHANGED <<waiters, calls>>
    /\ handling' = <<>>
    /\ UNCHANGED <<late, commands, owner, service, row, associationIds, events>>
    /\ UNCHANGED <<authVars, stackVars>>

-----------------------------------------------------------------------------
(* run_auth_batches and the credential cache.                               *)

auth_result(r) ==
    CASE r = "absent" -> "NotFound"
      [] r = "unchecked" -> "Bypass"
      [] r = "password" -> "Credential"
      [] OTHER -> "Reject"

\* The batch: what is queued once the window has passed, up to the limit.
TakeBatch ==
    /\ authTask = "running" /\ service = "up" /\ batch = <<>> /\ lookups # <<>>
    /\ LET n == IF Len(lookups) < MaxBatch THEN Len(lookups) ELSE MaxBatch
       IN  batch' = SubSeq(lookups, 1, n)
        /\ lookups' = SubSeq(lookups, n + 1, Len(lookups))
    /\ UNCHANGED <<commands, owner, service, row, authTask, cache, asked, verdict>>
    /\ UNCHANGED <<callerVars, stackVars, eventVars>>

Missing == {asked[batch[i]] : i \in DOMAIN batch} \ cache

\* Mutant: the duplicates are merged: the answers shift against the requests.
Loaded_Merged(gone) ==
    LET keys == SetToSeq({asked[batch[i]] : i \in DOMAIN batch})
    IN  [i \in DOMAIN batch |->
            IF i > Len(keys) \/ keys[i] \in gone THEN "absent" ELSE row[keys[i]]]

\* get_or_load_many answers in the order of the request, duplicates included,
\* from the cache it has just filled.  A key that was cached when the load
\* began and whose entry ended meanwhile reads as an absent row.
Loaded(gone) ==
    [i \in DOMAIN batch |->
        IF asked[batch[i]] \in gone THEN "absent" ELSE row[asked[batch[i]]]]

\* Mutant: what does not fit is left out.
Answer_Skips(results) ==
    LET n == Len(results)
        room == IF owner # "running" THEN 0 ELSE MaxCommands - Len(commands)
        k == IF n < room THEN n ELSE room
    IN  /\ commands' = commands \o [i \in 1 .. k |->
                [kind |-> "auth", lookup |-> batch[i], result |-> results[i]]]
        /\ authTask' = "running"
        /\ batch' = <<>>

\* The commands that answer a batch are queued one by one; the first one
\* that is refused ends the task.
Answer(results) ==
    LET n == Len(results)
        room == IF owner # "running" THEN 0 ELSE MaxCommands - Len(commands)
        k == IF n < room THEN n ELSE room
    IN  /\ commands' = commands \o [i \in 1 .. k |->
                [kind |-> "auth", lookup |-> batch[i], result |-> results[i]]]
        /\ authTask' = IF k < n THEN "ended" ELSE "running"
        /\ batch' = <<>>

LoadBatch ==
    /\ authTask = "running" /\ batch # <<>>
    /\ \E gone \in SUBSET ({asked[batch[i]] : i \in DOMAIN batch} \ Missing) :
          /\ Answer([i \in DOMAIN batch |-> auth_result(Loaded(gone)[i])])
          /\ cache' = (cache \cup Missing) \ gone
    /\ UNCHANGED <<owner, service, row, lookups, asked, verdict>>
    /\ UNCHANGED <<callerVars, stackVars, eventVars>>

\* The database fails: the whole batch is rejected, cached devices too.
LoadFails ==
    /\ authTask = "running" /\ batch # <<>> /\ Missing # {}
    /\ Answer([i \in DOMAIN batch |-> "Reject"])
    /\ UNCHANGED <<owner, service, row, lookups, cache, asked, verdict>>
    /\ UNCHANGED <<callerVars, stackVars, eventVars>>

\* An entry's time to live ends, or the cache is over its capacity.
EntryEnds(d) ==
    /\ d \in cache /\ cache' = cache \ {d}
    /\ UNCHANGED <<commands, owner, service, row, lookups, batch, authTask,
                   asked, verdict>>
    /\ UNCHANGED <<callerVars, stackVars, eventVars>>

-----------------------------------------------------------------------------
(* Shutdown.                                                                *)

\* The cancellation reaches the tasks that wait for their next item; the
\* auth task finishes a batch it has begun.
Cancel ==
    /\ service = "up" /\ service' = "cancelled"
    /\ UNCHANGED <<commands, owner, row>>
    /\ UNCHANGED <<callerVars, authVars, stackVars, eventVars>>

\* stop: the owner thread is joined, then every waiter fails with 503 and the
\* tasks are aborted.
Joined == owner = "ended"

fail_all_native ==
    /\ service = "cancelled" /\ Joined
    /\ service' = "stopped"
    /\ waiters' = {}
    /\ calls' = [o \in Op |->
          IF o \in waiters /\ calls[o].at \in {"sending", "waiting"}
          THEN [calls[o] EXCEPT !.answer = "unavailable"] ELSE calls[o]]
    /\ authTask' = "ended" /\ batch' = <<>>
    /\ handling' = <<>>
    /\ UNCHANGED <<late, commands, owner, row, associationIds, events>>
    /\ UNCHANGED <<lookups, cache, asked, verdict>>
    /\ UNCHANGED stackVars

-----------------------------------------------------------------------------

NoCall == [at |-> "idle", kind |-> None, assoc |-> None, answer |-> None]

Init ==
    /\ calls = [o \in Op |-> NoCall] /\ waiters = {} /\ late = {}
    /\ commands = <<>> /\ owner = "running" /\ service = "up"
    /\ associationIds = [a \in Assoc |-> 0] /\ events = <<>> /\ handling = <<>>
    /\ lookups = <<>> /\ batch = <<>> /\ authTask = "running" /\ cache = {}
    /\ row \in [Device -> Rows]
    /\ asked = [l \in Lookup |-> None] /\ verdict = [l \in Lookup |-> None]
    /\ transactions = {} /\ transport = [a \in Assoc |-> 0] /\ connections = 0
    /\ closing = {}

CallerStep(o) ==
    \/ insert_native_waiter(o) \/ submit(o) \/ receive(o) \/ timeout(o)
    \/ remove_native_waiter(o) \/ abandon(o) \/ DeadlinePasses(o)
OwnerStep == SendAccepted \/ SendRefused \/ CommandClose \/ CommandAuth
PollStep ==
    \/ \E o \in Op : PollResponse(o) \/ PollFault(o)
    \/ \E a \in Assoc : PollRequest(a) \/ PollAccept(a) \/ PollDisconnect(a)
    \/ \E e \in closing : PollClosed(e)
    \/ \E l \in Lookup : PollAuth(l) \/ LookupExpires(l)
EventStep == TakeEvent \/ HandleEvent
AuthStep == TakeBatch \/ LoadBatch \/ LoadFails

Next ==
    \/ \E o \in Op : CallerStep(o)
    \/ OwnerStep \/ PollStep \/ OwnerEnds \/ EventStep \/ AuthStep
    \/ \E a \in Assoc : close_transport(a)
    \/ \E d \in Device : EntryEnds(d)
    \/ cleanup_expired \/ Cancel \/ fail_all_native

Spec == Init /\ [][Next]_vars

\* The threads run, deadlines pass, the periodic task runs, and a service that
\* is shut down is shut down to the end.
Fairness ==
    /\ WF_vars(OwnerStep) /\ WF_vars(EventStep) /\ WF_vars(AuthStep)
    /\ \A o \in Op : WF_vars(submit(o)) /\ WF_vars(DeadlinePasses(o))
    /\ \A o \in Op : WF_vars(receive(o) \/ timeout(o) \/ remove_native_waiter(o))
    /\ WF_vars(cleanup_expired)
    /\ WF_vars(service = "cancelled" /\ (OwnerEnds \/ fail_all_native))

FairSpec == Spec /\ Fairness

-----------------------------------------------------------------------------
(* Properties.                                                              *)

\* The queue holds at most MaxCommands commands, and none once the owner
\* thread has gone; everything has the shape the code gives it.
TypeOK ==
    /\ calls \in [Op -> [at : {"idle", "sending", "waiting", "expired",
                               "answered", "failed", "abandoned"},
                         kind : Kinds \cup {None}, assoc : Assoc \cup {None},
                         answer : Statuses \cup {None}]]
    /\ waiters \subseteq Op /\ late \subseteq Op
    /\ commands \in Seq(RuntimeCommand) /\ Len(commands) <= MaxCommands
    /\ owner \in {"running", "ended"}
    /\ (owner = "ended" => commands = <<>>)
    /\ service \in {"up", "cancelled", "stopped"}
    /\ associationIds \in [Assoc -> 0 .. MaxConn]
    /\ events \in Seq(RuntimeEvent)
    /\ handling \in Seq(RuntimeEvent) /\ Len(handling) <= 1
    /\ lookups \in Seq(Lookup) /\ batch \in Seq(Lookup) /\ Len(batch) <= MaxBatch
    /\ authTask \in {"running", "ended"} /\ cache \subseteq Device
    /\ row \in [Device -> Rows] /\ asked \in [Lookup -> Device \cup {None}]
    /\ verdict \in [Lookup -> {None, "pending", "expired", "NotFound", "Reject",
                               "Bypass", "Credential"}]
    /\ transactions \subseteq Op /\ transport \in [Assoc -> 0 .. MaxConn]
    /\ connections \in 0 .. MaxConn /\ closing \subseteq RuntimeEvent

\* An id kept for an association (remember_event_association) is the id of its
\* open connection, or the close of that connection is still to be handled:
\* once the events are handled nothing is sent on a connection that is gone.
IdsFollowConnections ==
    \A a \in Assoc :
        \/ associationIds[a] \in {0, transport[a]}
        \/ ConnEvent("closed", a, associationIds[a]) \in Range(events) \cup closing
        \/ service = "stopped"

\* A close that is handled late (forget_event_association) takes away the id
\* it is about and no other: an id that is the open connection's stays, unless
\* the registry closes the connection.
OpenConnectionKeepsId ==
    [][\A a \in Assoc :
          associationIds[a] = transport[a] /\ associationIds'[a] = 0
              /\ associationIds[a] # 0
              => close_transport(a)]_vars

\* A caller that still listens has its waiter or its answer, unless its
\* deadline has passed: no answer goes to a waiter that was taken away, a
\* provisional one (status < 200) leaves it where it is, and after stop() only
\* answers are left, for every waiter was failed.
CallerHasWaiter ==
    \A o \in Op :
        /\ calls[o].at \in {"sending", "waiting"} =>
              o \in waiters \/ calls[o].answer # None \/ o \in late
        /\ calls[o].answer # "trying"
        /\ service = "stopped" /\ calls[o].at = "waiting" =>
              calls[o].answer # None \/ o \in late

\* What the stack is told about a lookup is what the row of that device says,
\* or a refusal: never the bypass or the password of another one.
NoForeignCredential ==
    \A l \in Lookup :
        verdict[l] \in {"Bypass", "Credential"} =>
            verdict[l] = auth_result(row[asked[l]])

\* The answers of a device find the caller that asked: a final response that
\* has been handled leaves no waiter of its operation behind.
FinalAnswerEndsWait ==
    \A o \in Op :
        o \in waiters /\ calls[o].at = "waiting" =>
            \/ o \in transactions
            \/ \E i \in DOMAIN commands : commands[i].kind = "send" /\ commands[i].op = o
            \/ \E e \in Range(events \o handling) :
                  e.kind \in {"response", "fault"} /\ e.op = o
            \/ owner = "ended"

\* Every waiter is taken away in the end, also when its caller was dropped.
WaitersCollected == \A o \in Op : o \in waiters ~> o \notin waiters

\* Every lookup gets its answer, unless a refused command ended the auth task
\* (run_auth_batches returns) or the runtime has ended.
LookupsAnswered ==
    \A l \in Lookup :
        verdict[l] = "pending" ~>
            verdict[l] # "pending" \/ authTask = "ended" \/ owner = "ended"
                \/ service # "up"
=============================================================================
