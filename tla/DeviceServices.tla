--------------------------- MODULE DeviceServices ---------------------------
(***************************************************************************)
(* The services of one device that live and die with its registration:      *)
(* talks and the catalog subscription.  A REGISTER, a loss of the           *)
(* connection, the device's return and its end reach both.                  *)
(***************************************************************************)
EXTENDS Talk, CatalogSubscription

CONSTANT MaxChanges  \* changes of the registration

ASSUME ChangesAssumption == MaxChanges \in Nat

VARIABLE changes     \* made so far

vars == <<conn, changes, talkVars, catalogVars>>

Change == changes < MaxChanges /\ changes' = changes + 1

\* REGISTER: register_device retries the closes, or resets the device's state
\* when the registration is of a new generation; then the subscription is
\* dropped and subscribed again.
Registers ==
    /\ Change /\ conn' = "connected"
    /\ \/ retry_device /\ UNCHANGED <<setupVars, farVars, dropped>>
       \/ has_session /\ ResetTalks
    /\ SubscribeAgain

\* The scheduler refuses a timer of the session, and register_device ends there.
\* A detached session is bound again by then; a connected one is removed, its
\* streams, talks and subscription are not.
RegisterFails ==
    /\ has_session /\ Change
    /\ conn' = IF connected THEN None ELSE "connected"
    /\ UNCHANGED <<talkVars, catalogVars>>

\* The connection is closed; the registration stays for its time.
Detaches ==
    /\ connected /\ conn' = "detached" /\ Change
    /\ UNCHANGED <<talkVars, catalogVars>>

\* recover_device_on_keepalive: device_heart binds the session, or the session
\* is made from the database, after a look that may be old.  The closes are
\* retried unless a timer was refused; nothing is subscribed.
Recovers ==
    /\ conn' = "connected" /\ Change
    /\ recovered' = (recovered \/ ~has_session)
    /\ retry_device \/ (has_session /\ UNCHANGED closeVars)
    /\ UNCHANGED <<setupVars, farVars, dropped>>
    /\ UNCHANGED <<sub, lastGen, calls, task, armed, fired, refresh, stalled, gaveUp>>

\* The device is removed or its time is over: reset_device_state.
Ends ==
    /\ has_session /\ conn' = None /\ Change
    /\ ResetTalks /\ ResetCatalog

Init ==
    /\ conn = None /\ changes = 0
    /\ TalkInit /\ CatalogInit

Next ==
    \/ TalkNext /\ UNCHANGED <<conn, changes, catalogVars>>
    \/ CatalogNext /\ UNCHANGED <<conn, changes, talkVars>>
    \/ Registers \/ RegisterFails \/ Detaches \/ Recovers \/ Ends

Spec == Init /\ [][Next]_vars

\* The registration and both services have the shape the code gives them.
TypeOK ==
    /\ conn \in {None, "connected", "detached"} /\ changes \in 0 .. MaxChanges
    /\ TalkTypeOK /\ CatalogTypeOK
=============================================================================
