------------------------ MODULE CatalogSubscription ------------------------
(***************************************************************************)
(* The catalog subscription of one device: each REGISTER drops it and starts *)
(* a task that subscribes again, which tries until it succeeds; a timer      *)
(* refreshes it; a NOTIFY changes its time or ends it.                       *)
(*                                                                           *)
(* A SUBSCRIBE outside a dialog makes a call of its own.  Only its answer    *)
(* while the caller waits matters: a later one finds no waiter.              *)
(***************************************************************************)
EXTENDS Naturals, FiniteSets, DeviceLink

CONSTANTS Task,      \* tasks that subscribe, one for each REGISTER or ending
          MaxCalls,  \* SUBSCRIBEs outside a dialog
          MaxGen     \* subscriptions made

ASSUME CatalogAssumption == MaxCalls \in Nat /\ MaxGen \in Nat

VARIABLES sub,      \* catalog_subscriptions[device], or NoSub
          lastGen,  \* CATALOG_SUBSCRIPTION_GENERATION
          calls,    \* SUBSCRIBEs sent so far
          task,     \* the tasks that subscribe
          armed,    \* TimeScheduleKey::CatalogSubscription, by generation
          fired,    \* RefreshCatalogSubscription events
          refresh,  \* refresh_catalog_subscription waiting: the call it refreshes
          stalled,  \* history: generations whose refresh was given up
          gaveUp,   \* history: a task found the device away and ended, since the last REGISTER
          recovered \* history: the session is of a keepalive's recovery, with no REGISTER since

catalogVars == <<sub, lastGen, calls, task, armed, fired, refresh, stalled, gaveUp, recovered>>

Gen == 1 .. MaxGen
NoSub == [gen |-> 0, call |-> 0, tag |-> 0, inflight |-> FALSE]
Trying == {"first", "sleep", "wait"}
Idle == {t \in Task : task[t].at = "idle"}

\* A task for the next subscription.
SpawnTask(t, at) == task' = [task EXCEPT ![t].at = at]

\* schedule_catalog_refresh, schedule_catalog_retry: the timer of generation g
\* is replaced, and a new one the scheduler refuses is only logged.
Schedule(g) ==
    \/ armed' = armed \cup {g} /\ stalled' = stalled \ {g}
    \/ armed' = armed \ {g} /\ stalled' = stalled \cup {g}

-----------------------------------------------------------------------------
(* subscribe_catalog, subscribe_catalog_once, retry_new_catalog_subscription. *)

\* The task's first try, some time after the REGISTER, or a later one: without
\* a connection the first goes on to the loop, which then ends.
Subscribe(t) ==
    /\ task[t].at \in {"first", "sleep"}
    /\ IF connected
       THEN /\ calls < MaxCalls /\ calls' = calls + 1
            /\ task' = [task EXCEPT ![t] = [at |-> "wait", call |-> calls + 1]]
            /\ UNCHANGED gaveUp
       ELSE /\ task' = [task EXCEPT ![t].at = IF @ = "first" THEN "sleep" ELSE "done"]
            /\ gaveUp' = (gaveUp \/ task[t].at = "sleep")
            /\ UNCHANGED calls
    /\ UNCHANGED <<sub, lastGen, armed, fired, refresh, stalled, recovered>>

\* establish_native_subscription: a subscription that is there stays.
Established(t) ==
    /\ task[t].at = "wait" /\ SpawnTask(t, "done")
    /\ IF sub = NoSub
       THEN /\ lastGen < MaxGen /\ lastGen' = lastGen + 1
            /\ sub' = [gen |-> lastGen + 1, call |-> task[t].call, tag |-> task[t].call,
                       inflight |-> FALSE]
            /\ Schedule(lastGen + 1)
       ELSE UNCHANGED <<sub, lastGen, armed, stalled>>
    /\ UNCHANGED <<calls, fired, refresh, gaveUp, recovered>>

\* Mutant: a failed try is the last.
SubscribeFails_Ends(t) ==
    /\ task[t].at = "wait" /\ SpawnTask(t, "done")
    /\ UNCHANGED <<sub, lastGen, calls, armed, fired, refresh, stalled, gaveUp, recovered>>

\* Refused, not sent or not answered in time: again later.
SubscribeFails(t) ==
    /\ task[t].at = "wait" /\ SpawnTask(t, "sleep")
    /\ UNCHANGED <<sub, lastGen, calls, armed, fired, refresh, stalled, gaveUp, recovered>>

-----------------------------------------------------------------------------
(* refresh_catalog_subscription.                                            *)

\* The timer's event; a full channel drops it.
TimerFires(g) ==
    /\ g \in armed /\ armed' = armed \ {g}
    /\ \/ fired' = fired \cup {g} /\ UNCHANGED stalled
       \/ stalled' = stalled \cup {g} /\ UNCHANGED fired
    /\ UNCHANGED <<sub, lastGen, calls, task, refresh, gaveUp, recovered>>

\* catalog_subscription_mark_failed.
MarkFailed(g) == IF sub.gen = g THEN [sub EXCEPT !.inflight = FALSE] ELSE sub

\* catalog_subscription_take_refresh; without a connection, or when the
\* request cannot be queued, the refresh is given up.
TakeRefresh(g) ==
    /\ g \in fired /\ fired' = fired \ {g}
    /\ IF sub.gen # g \/ sub.inflight
       THEN UNCHANGED <<sub, refresh, stalled>>
       ELSE \/ /\ connected
               /\ sub' = [sub EXCEPT !.inflight = TRUE]
               /\ refresh' = [refresh EXCEPT ![g] = sub.call] /\ UNCHANGED stalled
            \/ stalled' = stalled \cup {g} /\ UNCHANGED <<sub, refresh>>
    /\ UNCHANGED <<lastGen, calls, task, armed, gaveUp, recovered>>

\* Mutant: any subscription of the device takes the answer.
complete_AnyGeneration(g) ==
    IF sub.gen # 0 THEN [sub EXCEPT !.tag = refresh[g], !.inflight = FALSE] ELSE sub

\* catalog_subscription_complete: only its own generation.
complete(g) ==
    IF sub.gen = g THEN [sub EXCEPT !.tag = refresh[g], !.inflight = FALSE] ELSE sub

\* complete_refresh, 2xx; the state that has changed meanwhile schedules a
\* retry, which then finds nothing to do.
Refreshed(g) ==
    /\ refresh[g] # 0 /\ refresh' = [refresh EXCEPT ![g] = 0]
    /\ sub' = complete(g) /\ Schedule(g)
    /\ UNCHANGED <<lastGen, calls, task, fired, gaveUp, recovered>>

\* Mutant: the failure schedules nothing.
RefreshFails_NoRetry(g) ==
    /\ refresh[g] # 0 /\ refresh' = [refresh EXCEPT ![g] = 0]
    /\ sub' = MarkFailed(g) /\ UNCHANGED armed
    /\ UNCHANGED <<lastGen, calls, task, fired, stalled, gaveUp, recovered>>

\* Another status or no answer: schedule_catalog_retry.
RefreshFails(g) ==
    /\ refresh[g] # 0 /\ refresh' = [refresh EXCEPT ![g] = 0]
    /\ sub' = MarkFailed(g) /\ Schedule(g)
    /\ UNCHANGED <<lastGen, calls, task, fired, gaveUp, recovered>>

\* catalog_subscription_remove, of one generation.
RemoveGen(g) ==
    IF sub.gen = g THEN sub' = NoSub /\ armed' = armed \ {g} ELSE UNCHANGED <<sub, armed>>

\* 481: the device does not know the dialog; a new one is subscribed.
RefreshUnknown(g) ==
    /\ refresh[g] # 0 /\ refresh' = [refresh EXCEPT ![g] = 0]
    /\ RemoveGen(g)
    /\ \E t \in Idle : SpawnTask(t, "sleep")
    /\ UNCHANGED <<lastGen, calls, fired, stalled, gaveUp, recovered>>

\* accept_catalog_notify, with a new time or "terminated".
NotifyExpires ==
    /\ sub # NoSub /\ Schedule(sub.gen)
    /\ UNCHANGED <<sub, lastGen, calls, task, fired, refresh, gaveUp, recovered>>

NotifyTerminated ==
    /\ sub # NoSub /\ RemoveGen(sub.gen)
    /\ \E t \in Idle : SpawnTask(t, "sleep")
    /\ UNCHANGED <<lastGen, calls, fired, refresh, stalled, gaveUp, recovered>>

-----------------------------------------------------------------------------
(* What the registration does to it.                                        *)

\* catalog_subscription_remove(None).
RemoveAny == sub' = NoSub /\ armed' = armed \ {sub.gen}

\* apply_register_event.
SubscribeAgain ==
    /\ RemoveAny /\ gaveUp' = FALSE /\ recovered' = FALSE
    /\ \E t \in Idle : SpawnTask(t, "first")
    /\ UNCHANGED <<lastGen, calls, fired, refresh, stalled>>

ResetCatalog ==
    /\ RemoveAny
    /\ UNCHANGED <<lastGen, calls, task, fired, refresh, stalled, gaveUp, recovered>>

CatalogInit ==
    /\ sub = NoSub /\ lastGen = 0 /\ calls = 0
    /\ task = [t \in Task |-> [at |-> "idle", call |-> 0]]
    /\ armed = {} /\ fired = {} /\ refresh = [g \in Gen |-> 0]
    /\ stalled = {} /\ gaveUp = FALSE /\ recovered = FALSE

CatalogNext ==
    \/ \E t \in Task : Subscribe(t) \/ Established(t) \/ SubscribeFails(t)
    \/ \E g \in Gen : TimerFires(g) \/ TakeRefresh(g) \/ Refreshed(g)
                          \/ RefreshFails(g) \/ RefreshUnknown(g)
    \/ NotifyExpires \/ NotifyTerminated

-----------------------------------------------------------------------------
(* Properties.                                                              *)

\* Everything has the shape the code gives it.
CatalogTypeOK ==
    /\ sub \in [gen : 0 .. MaxGen, call : 0 .. MaxCalls, tag : 0 .. MaxCalls,
                inflight : BOOLEAN]
    /\ (sub.gen = 0 => sub = NoSub)
    /\ lastGen \in 0 .. MaxGen /\ calls \in 0 .. MaxCalls
    /\ task \in [Task -> [at : Trying \cup {"idle", "done"}, call : 0 .. MaxCalls]]
    /\ armed \subseteq Gen /\ fired \subseteq Gen /\ stalled \subseteq Gen
    /\ refresh \in [Gen -> 0 .. MaxCalls] /\ gaveUp \in BOOLEAN
    /\ recovered \in BOOLEAN

\* A device that is connected is subscribed or a task still tries.  Only a
\* REGISTER starts one, which leaves two ways to be connected without: a task
\* found the device away and ended, and the keepalive that brought the device
\* back starts no other; or the session was recovered from the database.
SubscriptionKeptUp ==
    connected => \/ sub # NoSub \/ \E t \in Task : task[t].at \in Trying
                 \/ gaveUp \/ recovered

\* A subscription will be refreshed: its timer runs, its event is on the way
\* or its refresh waits for an answer, unless the last refresh of its generation
\* was given up: the scheduler refused the timer, the event found its channel
\* full, the device was away or the request was not queued.
RefreshAhead ==
    sub # NoSub => \/ sub.gen \in armed \cup fired \cup stalled
                   \/ sub.inflight /\ refresh[sub.gen] # 0

\* The subscription's tag is of its own dialog, whatever answers to refreshes
\* of earlier ones come late.
TagOfOwnDialog == sub.tag = sub.call
=============================================================================
