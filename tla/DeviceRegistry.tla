--------------------------- MODULE DeviceRegistry ---------------------------
(***************************************************************************)
(* The device registry of the signalling node: the sessions and the map    *)
(* from network associations to devices (register/network.rs), the timers  *)
(* that end a session (register/core.rs, register/event.rs), and the four  *)
(* sources of change: SIP messages, closed transports, expired timers and  *)
(* the recovery of a session from the database.                            *)
(*                                                                         *)
(* A handler that runs without an await is one action.  What lies between  *)
(* an await and what follows it is not: a timer that has expired sits in   *)
(* the scheduler's batch (due) until it is handled, and a recovery that    *)
(* reads the database (recovering) acts on what it knew before.            *)
(***************************************************************************)
EXTENDS Naturals, FiniteSets

CONSTANTS
  Device,
  Assoc,           \* network associations: local address, remote address, protocol
  Tcp,             \* the associations over TCP
  NoDevice,        \* no entry in net_device_map
  NoAssoc,         \* the association of a device without a session
  MaxGeneration,   \* bound: connection generations explored
  MaxRecoveries,   \* MAX_DEVICE_RECOVERY_CONCURRENCY
  MaxLookups,      \* bound: lookups of dialog recoveries under way at once
  MayRefuse        \* the scheduler may refuse to arm a timer

ASSUME RegistryAssumption == /\ Tcp \subseteq Assoc
                             /\ NoDevice \notin Device
                             /\ NoAssoc \notin Assoc
                             /\ MaxGeneration \in Nat
                             /\ MaxRecoveries \in Nat
                             /\ MaxLookups \in Nat
                             /\ MayRefuse \in BOOLEAN

VARIABLES
  session,        \* Network.session
  netmap,         \* Network.net_device_map
  open,           \* associations the SIP runtime has a transport id for
  heart,          \* armed Device3Heart(device)
  registration,   \* armed DeviceRegistration(device)
  reconnect,      \* armed DeviceReconnect(device, generation)
  due,            \* expired timers not handled yet
  recovering      \* recoveries waiting for the database

vars == <<session, netmap, open, heart, registration, reconnect, due, recovering>>

timerVars == <<heart, registration, reconnect, due>>

(***************************************************************************)
(* named: the session comes from a REGISTER, with its Call-ID and CSeq.    *)
(***************************************************************************)
DeviceSession == [known     : BOOLEAN,
                  assoc     : Assoc \cup {NoAssoc},
                  connected : BOOLEAN,
                  expire    : BOOLEAN,
                  gen       : Nat,
                  named     : BOOLEAN]

NoSession == [known |-> FALSE, assoc |-> NoAssoc, connected |-> FALSE, expire |-> FALSE,
              gen |-> 0, named |-> FALSE]

\* DeviceSession::build
build(a, g, named) == [known |-> TRUE, assoc |-> a, connected |-> TRUE, expire |-> FALSE,
                       gen |-> g, named |-> named]

Reconnect == [dev : Device, gen : Nat]

Due == [kind : {"heart", "registration", "reconnect"}, dev : Device, gen : Nat]

Recovering == [dev : Device, assoc : Assoc, src : {"keepalive", "startup"}]

TypeOK ==
  /\ session \in [Device -> DeviceSession]
  /\ netmap \in [Assoc -> Device \cup {NoDevice}]
  /\ open \in SUBSET Assoc
  /\ heart \in SUBSET Device
  /\ registration \in SUBSET Device
  /\ reconnect \in SUBSET Reconnect
  /\ due \in SUBSET Due
  /\ recovering \in SUBSET Recovering

-----------------------------------------------------------------------------
(***************************************************************************)
(* Network.  Each operator maps the sessions ss or the map m before it to  *)
(* the ones after it.                                                      *)
(***************************************************************************)
remove_device_mapping(m, d, a) ==
  [x \in Assoc |-> IF x = a /\ m[x] = d THEN NoDevice ELSE m[x]]

\* The device that loses the association a to d: marked expired, and not
\* connected any more.  update_net_device_mapping leaves its generation
\* alone, the two rebinds advance it.
displace(ss, old, d, bump) ==
  [x \in Device |->
     IF x = old /\ x # d /\ ss[x].known
     THEN [known |-> TRUE, assoc |-> ss[x].assoc, connected |-> FALSE, expire |-> TRUE,
           gen |-> ss[x].gen + bump, named |-> ss[x].named]
     ELSE ss[x]]

\* Network::insert with update_net_device_mapping.
insert(ss, m, d, s) ==
  /\ netmap' = [m EXCEPT ![s.assoc] = d]
  /\ session' = [displace(ss, m[s.assoc], d, 0) EXCEPT ![d] = s]

\* Mutant: the old association stays mapped to a device that moved.
take_over_twice(d, s) ==
  /\ netmap' = [netmap EXCEPT ![s.assoc] = d]
  /\ session' = [displace(session, netmap[s.assoc], d, 1) EXCEPT ![d] = s]

\* The common part of rebind and rebind_registration.
take_over(d, s) ==
  LET m == IF session[d].assoc # s.assoc
           THEN remove_device_mapping(netmap, d, session[d].assoc) ELSE netmap
  IN  /\ netmap' = [m EXCEPT ![s.assoc] = d]
      /\ session' = [displace(session, m[s.assoc], d, 1) EXCEPT ![d] = s]

rebind(d, a) ==
  take_over(d, build(a, IF session[d].connected THEN session[d].gen ELSE session[d].gen + 1,
                     session[d].named))

\* Only a disconnected session is rebound by a REGISTER.
rebind_registration(d, a, named) ==
  /\ session[d].known /\ ~ session[d].connected
  /\ take_over(d, build(a, session[d].gen + 1, named))

\* The transports that close_tcp_if_needed closes for a session.
close_tcp_if_needed(s) == {s.assoc} \cap Tcp

registration_generation_changed(s, a, named, older) ==
  s.known /\ s.named /\ named /\ older /\ (s.assoc # a \/ ~ s.connected)

-----------------------------------------------------------------------------
(***************************************************************************)
(* Register.                                                               *)
(***************************************************************************)
\* The mapping that remove_device_by_inner leaves: the association's entry
\* goes unless another device took it and marked this session expired.
unmap(d) ==
  [a \in Assoc |->
     IF session[d].known /\ ~ session[d].expire /\ a = session[d].assoc
     THEN NoDevice ELSE netmap[a]]

\* remove_device_by_inner's timers.
cancel(d) ==
  /\ heart' = heart \ {d}
  /\ registration' = registration \ {d}
  /\ reconnect' = reconnect \ (IF session[d].known
                               THEN {[dev |-> d, gen |-> session[d].gen]} ELSE {})

\* Mutant: only connected sessions are removed.
remove_device_by_inner_connected(d) ==
  /\ cancel(d)
  /\ IF session[d].connected
     THEN session' = [session EXCEPT ![d] = NoSession] /\ netmap' = unmap(d)
     ELSE UNCHANGED <<session, netmap>>

remove_device_by_inner(d) ==
  /\ cancel(d)
  /\ session' = [session EXCEPT ![d] = NoSession]
  /\ netmap' = unmap(d)

\* Mutant: only the registration is armed.
arms_lease(hearts, registrations) == registration' = registrations /\ UNCHANGED heart

\* The timers a handler arms, kind by kind: all of them, or, when the
\* scheduler refuses, those before the one that is refused.
arms(hearts, registrations) ==
  \/ heart' = hearts /\ registration' = registrations
  \/ MayRefuse /\ heart' = hearts /\ UNCHANGED registration
  \/ MayRefuse /\ UNCHANGED <<heart, registration>>

\* A disconnected device registers again: its session takes the new
\* association, its reconnect deadline is cancelled, both timers are armed.
RegisterRebinds(d, a, named) ==
  /\ rebind_registration(d, a, named)
  /\ reconnect' = reconnect \ {[dev |-> d, gen |-> session[d].gen]}
  /\ arms(heart \cup {d}, registration \cup {d})

\* Otherwise the session is replaced, its transport closed if it has moved.
RegisterReplaces(d, a, named) ==
  /\ reconnect' = reconnect \ (IF session[d].known
                               THEN {[dev |-> d, gen |-> session[d].gen]} ELSE {})
  /\ heart' = heart \cup {d}
  /\ registration' = registration \cup {d}
  /\ insert([session EXCEPT ![d] = NoSession], unmap(d), d, build(a, 0, named))

\* The scheduler refuses one of the two timers: the old session is gone, the
\* new one is not inserted.
RegisterRefused(d) ==
  /\ MayRefuse
  /\ reconnect' = reconnect \ (IF session[d].known
                               THEN {[dev |-> d, gen |-> session[d].gen]} ELSE {})
  /\ heart' \in {heart \ {d}, heart \cup {d}}
  /\ registration' = registration \ {d}
  /\ session' = [session EXCEPT ![d] = NoSession]
  /\ netmap' = unmap(d)

\* older: the REGISTER has the Call-ID of the session and a lower CSeq.
register_device(d, a, named, older) ==
  \/ /\ ~ registration_generation_changed(session[d], a, named, older)
     /\ RegisterRebinds(d, a, named)
  \/ /\ \/ registration_generation_changed(session[d], a, named, older)
        \/ ~ session[d].known
        \/ session[d].connected
     /\ RegisterReplaces(d, a, named) \/ RegisterRefused(d)

\* The transports that register_device closes.
registration_closes(d, a, named, older) ==
  IF /\ session[d].known /\ session[d].assoc # a
     /\ session[d].connected \/ registration_generation_changed(session[d], a, named, older)
  THEN close_tcp_if_needed(session[d]) ELSE {}

\* Mutant: the deadline is cancelled with the generation after the rebind.
device_heart_late(d, a) ==
  /\ rebind(d, a)
  /\ IF session[d].connected
     THEN UNCHANGED <<heart, reconnect, registration>>
     ELSE /\ reconnect' = reconnect \ {[dev |-> d, gen |-> session[d].gen + 1]}
          /\ arms(heart \cup {d}, registration)

\* A keepalive arms the heartbeat of a device that was not connected, and
\* only refreshes it otherwise: one that has already expired stays expired.
device_heart(d, a) ==
  /\ rebind(d, a)
  /\ IF session[d].connected
     THEN UNCHANGED <<heart, reconnect, registration>>
     ELSE /\ reconnect' = reconnect \ {[dev |-> d, gen |-> session[d].gen]}
          /\ arms(heart \cup {d}, registration)

heart_closes(d, a) ==
  IF session[d].assoc # a THEN close_tcp_if_needed(session[d]) ELSE {}

\* remove_disconnected and the timers of expire_disconnected_by_inner, for
\* the session ss[d] and the mapping m.
expire_disconnected(ss, m, d) ==
  /\ session' = [ss EXCEPT ![d] = NoSession]
  /\ netmap' = remove_device_mapping(m, d, ss[d].assoc)
  /\ heart' = heart \ {d}
  /\ registration' = registration \ {d}
  /\ reconnect' = reconnect \ {[dev |-> d, gen |-> ss[d].gen]}

-----------------------------------------------------------------------------
(***************************************************************************)
(* SIP messages.  Every event of the SIP runtime first records the         *)
(* transport it came by (remember_event_association).                      *)
(***************************************************************************)
\* Bound: a handler that may advance the generation of a device, the sender
\* or the one that loses the association a, runs only below it.
Bounded(d, a) == \A x \in {d, netmap[a]} \cap Device : session[x].gen < MaxGeneration

Register(d, a, older) ==
  /\ Bounded(d, a)
  /\ register_device(d, a, TRUE, older)
  /\ open' = (open \cup {a}) \ registration_closes(d, a, TRUE, older)
  /\ UNCHANGED <<due, recovering>>

\* A REGISTER with Expires 0 removes the session, whatever association it
\* comes from.
Unregister(d, a) ==
  /\ remove_device_by_inner(d)
  /\ open' = open \cup {a}
  /\ UNCHANGED <<due, recovering>>

Keepalive(d, a) ==
  /\ Bounded(d, a)
  /\ session[d].known
  /\ device_heart(d, a)
  /\ open' = (open \cup {a}) \ heart_closes(d, a)
  /\ UNCHANGED <<due, recovering>>

\* recover_device_on_keepalive for a device without a session: one recovery
\* per device, at most MaxRecoveries in all.
KeepaliveRecovers(d, a) ==
  LET running == {r \in recovering : r.src = "keepalive"}
  IN  /\ ~ session[d].known
      /\ recovering' = IF \/ \E r \in running : r.dev = d
                          \/ Cardinality(running) >= MaxRecoveries
                       THEN recovering
                       ELSE recovering \cup {[dev |-> d, assoc |-> a, src |-> "keepalive"]}
      /\ open' = open \cup {a}
      /\ UNCHANGED <<session, netmap, timerVars>>

\* detach_association, once the event names the transport that is recorded.
Detaches(a) ==
  /\ netmap[a] # NoDevice
  /\ LET s == session[netmap[a]] IN s.known /\ s.assoc = a /\ s.connected

\* forget_event_association and detach_device_association: the session is
\* kept until its reconnect deadline, or ended at once when the scheduler
\* refuses to arm it.
TransportClosed(a) ==
  /\ Bounded(netmap[a], a)
  /\ a \in open
  /\ open' = open \ {a}
  /\ IF Detaches(a)
     THEN LET d  == netmap[a]
              g  == session[d].gen + 1
              ss == [session EXCEPT ![d] =
                       [known |-> TRUE, assoc |-> a, connected |-> FALSE,
                        expire |-> session[d].expire, gen |-> g, named |-> session[d].named]]
              m  == remove_device_mapping(netmap, d, a)
          IN  \/ /\ session' = ss
                 /\ netmap' = m
                 /\ heart' = heart \ {d}
                 /\ reconnect' = reconnect \cup {[dev |-> d, gen |-> g]}
                 /\ UNCHANGED registration
              \/ MayRefuse /\ expire_disconnected(ss, m, d)
     ELSE UNCHANGED <<session, netmap, heart, registration, reconnect>>
  /\ UNCHANGED <<due, recovering>>

-----------------------------------------------------------------------------
(***************************************************************************)
(* Recovery of a session from the database.                                *)
(***************************************************************************)
\* ensure_udp_device_session, called by the recovery of a dialog.
StartupLookup(d, a) ==
  /\ ~ session[d].known
  /\ a \notin Tcp
  /\ Cardinality({r \in recovering : r.src = "startup"}) < MaxLookups
  /\ recovering' = recovering \cup {[dev |-> d, assoc |-> a, src |-> "startup"]}
  /\ UNCHANGED <<session, netmap, open, timerVars>>

\* The rows were read and are valid.  That the device had no session was
\* checked before the database was asked, and is not checked again.
RecoverRegister(r) ==
  /\ Bounded(r.dev, r.assoc)
  /\ register_device(r.dev, r.assoc, FALSE, FALSE)
  /\ open' = open \ registration_closes(r.dev, r.assoc, FALSE, FALSE)
  /\ recovering' = recovering \ {r}
  /\ UNCHANGED due

\* The task of a keepalive recovery finds a session when it starts.
RecoverHeart(r) ==
  /\ Bounded(r.dev, r.assoc)
  /\ r.src = "keepalive"
  /\ session[r.dev].known
  /\ device_heart(r.dev, r.assoc)
  /\ open' = open \ heart_closes(r.dev, r.assoc)
  /\ recovering' = recovering \ {r}
  /\ UNCHANGED due

\* No authorization, no row, an expired lease, another address or protocol,
\* or a database error.
RecoverFails(r) ==
  /\ recovering' = recovering \ {r}
  /\ UNCHANGED <<session, netmap, open, timerVars>>

-----------------------------------------------------------------------------
(***************************************************************************)
(* Timers.  The scheduler hands expired keys out in a batch; on_time_-     *)
(* schedule handles them one by one.                                       *)
(***************************************************************************)
PopHeart(d) ==
  /\ d \in heart
  /\ heart' = heart \ {d}
  /\ due' = due \cup {[kind |-> "heart", dev |-> d, gen |-> 0]}
  /\ UNCHANGED <<session, netmap, open, registration, reconnect, recovering>>

PopRegistration(d) ==
  /\ d \in registration
  /\ registration' = registration \ {d}
  /\ due' = due \cup {[kind |-> "registration", dev |-> d, gen |-> 0]}
  /\ UNCHANGED <<session, netmap, open, heart, reconnect, recovering>>

PopReconnect(k) ==
  /\ reconnect' = reconnect \ {k}
  /\ due' = due \cup {[kind |-> "reconnect", dev |-> k.dev, gen |-> k.gen]}
  /\ UNCHANGED <<session, netmap, open, heart, registration, recovering>>

\* The heartbeat or the registration of a device expired.
HandleExpiry(e) ==
  /\ e.kind \in {"heart", "registration"}
  /\ remove_device_by_inner(e.dev)
  /\ open' = IF session[e.dev].known
             THEN open \ close_tcp_if_needed(session[e.dev]) ELSE open
  /\ due' = due \ {e}
  /\ UNCHANGED recovering

\* remove_disconnected: the session is still the one that was detached.
remove_disconnected(d, g) ==
  session[d].known /\ ~ session[d].connected /\ session[d].gen = g

\* A reconnect deadline expired; a stale one is ignored.
HandleReconnect(e) ==
  /\ e.kind = "reconnect"
  /\ IF remove_disconnected(e.dev, e.gen)
     THEN expire_disconnected(session, netmap, e.dev)
     ELSE UNCHANGED <<session, netmap, heart, registration, reconnect>>
  /\ due' = due \ {e}
  /\ UNCHANGED <<open, recovering>>

-----------------------------------------------------------------------------
Init ==
  /\ session = [d \in Device |-> NoSession]
  /\ netmap = [a \in Assoc |-> NoDevice]
  /\ open = {}
  /\ heart = {}
  /\ registration = {}
  /\ reconnect = {}
  /\ due = {}
  /\ recovering = {}

Message(d, a) ==
  \/ \E older \in BOOLEAN : Register(d, a, older)
  \/ Unregister(d, a)
  \/ Keepalive(d, a)
  \/ KeepaliveRecovers(d, a)
  \/ StartupLookup(d, a)

Recover(r) == RecoverRegister(r) \/ RecoverHeart(r) \/ RecoverFails(r)

Pop(d) == PopHeart(d) \/ PopRegistration(d)

Handle(e) == HandleExpiry(e) \/ HandleReconnect(e)

Next ==
  \/ \E d \in Device, a \in Assoc : Message(d, a)
  \/ \E a \in Assoc : TransportClosed(a)
  \/ \E r \in recovering : Recover(r)
  \/ \E d \in Device : Pop(d)
  \/ \E k \in reconnect : PopReconnect(k)
  \/ \E e \in due : Handle(e)

Spec == Init /\ [][Next]_vars

(***************************************************************************)
(* A timer that nobody renews expires, and the scheduler task handles the  *)
(* batch it was given.  Nothing is assumed of devices and of the database. *)
(***************************************************************************)
FairSpec ==
  /\ Spec
  /\ \A d \in Device :
       /\ WF_vars(~ session[d].connected /\ PopRegistration(d))
       /\ WF_vars(\E k \in reconnect : k.dev = d /\ PopReconnect(k))
       /\ WF_vars(\E e \in due : e.dev = d /\ Handle(e))

-----------------------------------------------------------------------------
(***************************************************************************)
(* A message that comes by an association is attributed to a device only   *)
(* while that device is connected by it: no mapping outlives the session,  *)
(* the move to another association, the loss of the association to another *)
(* device or the end of the transport (Network, remove_device_by_inner).   *)
(***************************************************************************)
MappingSound ==
  \A a \in Assoc : netmap[a] # NoDevice =>
    LET s == session[netmap[a]] IN s.known /\ s.assoc = a /\ s.connected /\ ~ s.expire

(***************************************************************************)
(* An armed reconnect deadline belongs to a device that is detached right  *)
(* now, in this generation: whatever brings the device back or ends its    *)
(* session cancels the deadline with the generation it was armed with.     *)
(***************************************************************************)
NoStaleDeadline ==
  \A k \in reconnect :
    session[k.dev].known /\ ~ session[k.dev].connected /\ session[k.dev].gen = k.gen

IsDue(kind, d, g) == [kind |-> kind, dev |-> d, gen |-> g] \in due

(***************************************************************************)
(* No session is kept for ever: its registration timer is armed or has     *)
(* expired, that of its heartbeat as well while it is connected (unless    *)
(* the scheduler refused it), and while it is detached its reconnect       *)
(* deadline (register_device, device_heart, detach_device_association).    *)
(***************************************************************************)
LeaseCovered ==
  \A d \in Device : session[d].known => d \in registration \/ IsDue("registration", d, 0)

HeartCovered ==
  \A d \in Device : session[d].connected =>
    MayRefuse \/ d \in heart \/ IsDue("heart", d, 0)

DetachedCovered ==
  \A d \in Device : session[d].known /\ ~ session[d].connected /\ ~ session[d].expire =>
    \/ [dev |-> d, gen |-> session[d].gen] \in reconnect
    \/ IsDue("reconnect", d, session[d].gen)

ExpiryCovered == LeaseCovered /\ HeartCovered /\ DetachedCovered

(***************************************************************************)
(* The inductive invariant behind the three.                               *)
(***************************************************************************)
SessionsWellFormed ==
  \A d \in Device :
    /\ ~ session[d].known => session[d] = NoSession
    /\ session[d].known => session[d].assoc \in Assoc
    /\ session[d].connected => ~ session[d].expire

RegistryInv ==
  /\ TypeOK
  /\ SessionsWellFormed
  /\ MappingSound
  /\ NoStaleDeadline
  /\ ExpiryCovered

(***************************************************************************)
(* A device that lost its connection comes back or is removed, also one    *)
(* that lost its association to another device and has no reconnect        *)
(* deadline (on_time_schedule).                                            *)
(***************************************************************************)
DetachedEnds ==
  \A d \in Device :
    (session[d].known /\ ~ session[d].connected) ~> (~ session[d].known \/ session[d].connected)

(***************************************************************************)
(* What remove_device_mapping's comment says of every removal: a mapping   *)
(* is cleared only while it still belongs to the device, so a connected    *)
(* device stays mapped.  remove_device_by_inner clears it unconditionally. *)
(***************************************************************************)
ConnectedIsMapped ==
  \A d \in Device : session[d].connected => netmap[session[d].assoc] = d
=============================================================================
