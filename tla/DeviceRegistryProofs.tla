------------------------ MODULE DeviceRegistryProofs ------------------------
(***************************************************************************)
(* The invariants of the device registry, for any devices, associations    *)
(* and bounds.  Every handler changes the registry in one of four ways:    *)
(* it binds a device to an association, removes a device, detaches one, or *)
(* leaves the sessions alone; a lemma for each.                            *)
(***************************************************************************)
EXTENDS DeviceRegistry, TLAPS

\* What every handler leaves well typed besides the sessions and the map.
OthersTyped ==
  /\ open \in SUBSET Assoc
  /\ heart \in SUBSET Device
  /\ registration \in SUBSET Device
  /\ reconnect \in SUBSET Reconnect
  /\ due \in SUBSET Due
  /\ recovering \in SUBSET Recovering

\* A step leaves d with a heartbeat, armed or due, unless it was refused.
HeartKept(d) == MayRefuse \/ d \in heart' \/ IsDue("heart", d, 0)

LeaseKept(d) == d \in registration' \/ IsDue("registration", d, 0)

\* The sessions after d is bound to a: the device that m has at a loses it.
BoundSessions(m, d, a, g, named, bump) ==
  [x \in Device |->
     IF x = d THEN build(a, g, named)
     ELSE IF x = m[a] /\ session[x].known
     THEN [known |-> TRUE, assoc |-> session[x].assoc, connected |-> FALSE, expire |-> TRUE,
           gen |-> session[x].gen + bump, named |-> session[x].named]
     ELSE session[x]]

(***************************************************************************)
(* A device d is bound to the association a, with the generation g; m is   *)
(* the map before, without d's entry.  The device that had a loses it.     *)
(***************************************************************************)
LEMMA Binds ==
  ASSUME RegistryInv, OthersTyped',
         NEW d \in Device, NEW a \in Assoc, NEW g \in Nat, NEW named \in BOOLEAN,
         NEW bump \in Nat,
         NEW m \in [Assoc -> Device \cup {NoDevice}],
         \A x \in Assoc : m[x] = netmap[x] \/ m[x] = NoDevice,
         \A x \in Assoc : m[x] = d => x = a,
         netmap' = [m EXCEPT ![a] = d],
         session' = BoundSessions(m, d, a, g, named, bump),
         \A k \in reconnect' : k \in reconnect /\ k.dev # d,
         \A k \in reconnect : k.dev # d => k \in reconnect',
         registration \subseteq registration',
         LeaseKept(d),
         heart \subseteq heart',
         HeartKept(d),
         due' = due
  PROVE  RegistryInv'
<1> USE RegistryAssumption
<1>1. TypeOK /\ SessionsWellFormed /\ MappingSound /\ NoStaleDeadline
      /\ LeaseCovered /\ HeartCovered /\ DetachedCovered
  BY DEF RegistryInv, ExpiryCovered
<1>2. session \in [Device -> DeviceSession]
  BY <1>1 DEF TypeOK
<1>3. build(a, g, named) \in DeviceSession
  BY DEF build, DeviceSession
<1>4. session' \in [Device -> DeviceSession]
  BY <1>2, <1>3 DEF DeviceSession, BoundSessions
<1>5. netmap' \in [Assoc -> Device \cup {NoDevice}]
  OBVIOUS
<1>6. TypeOK'
  BY <1>4, <1>5 DEF TypeOK, OthersTyped
<1>7. session'[d] = build(a, g, named)
  BY DEF BoundSessions
<1>8. ASSUME NEW x \in Device, x # d, x = m[a], session[x].known
      PROVE  /\ session'[x].known /\ ~ session'[x].connected /\ session'[x].expire
             /\ session'[x].assoc = session[x].assoc
             /\ session[x].connected /\ session[x].assoc = a
  BY <1>8, <1>1 DEF MappingSound, BoundSessions
<1>9. ASSUME NEW x \in Device, x # d, ~ (x = m[a] /\ session[x].known)
      PROVE  session'[x] = session[x]
  BY <1>9 DEF BoundSessions
<1>10. SessionsWellFormed'
  <2> SUFFICES ASSUME NEW x \in Device
               PROVE  /\ ~ session'[x].known => session'[x] = NoSession
                      /\ session'[x].known => session'[x].assoc \in Assoc
                      /\ session'[x].connected => ~ session'[x].expire
    BY DEF SessionsWellFormed
  <2>1. CASE x = d
    BY <2>1, <1>7 DEF build
  <2>2. CASE x # d /\ x = m[a] /\ session[x].known
    BY <2>2, <1>8
  <2>3. CASE x # d /\ ~ (x = m[a] /\ session[x].known)
    BY <2>3, <1>9, <1>1 DEF SessionsWellFormed
  <2> QED
    BY <2>1, <2>2, <2>3
<1>11. MappingSound'
  <2> SUFFICES ASSUME NEW b \in Assoc, netmap'[b] # NoDevice
               PROVE  /\ session'[netmap'[b]].known /\ session'[netmap'[b]].assoc = b
                      /\ session'[netmap'[b]].connected /\ ~ session'[netmap'[b]].expire
    BY DEF MappingSound
  <2>1. CASE b = a
    BY <2>1, <1>7 DEF build
  <2>2. CASE b # a
    <3>1. netmap'[b] = m[b] /\ m[b] = netmap[b] /\ m[b] \in Device /\ m[b] # d
      BY <2>2
    <3>2. session[m[b]].known /\ session[m[b]].assoc = b
          /\ session[m[b]].connected /\ ~ session[m[b]].expire
      BY <3>1, <1>1 DEF MappingSound
    <3>3. m[b] # m[a]
      BY <3>1, <3>2, <2>2, <1>8
    <3> QED
      BY <3>1, <3>2, <3>3, <1>9
  <2> QED
    BY <2>1, <2>2
<1>12. NoStaleDeadline'
  <2> SUFFICES ASSUME NEW k \in reconnect'
               PROVE  /\ session'[k.dev].known /\ ~ session'[k.dev].connected
                      /\ session'[k.dev].gen = k.gen
    BY DEF NoStaleDeadline
  <2>1. k \in reconnect /\ k.dev # d /\ k.dev \in Device
    BY DEF OthersTyped, Reconnect
  <2>2. session[k.dev].known /\ ~ session[k.dev].connected /\ session[k.dev].gen = k.gen
    BY <2>1, <1>1 DEF NoStaleDeadline
  <2> QED
    BY <2>1, <2>2, <1>8, <1>9
<1>13. LeaseCovered'
  <2> SUFFICES ASSUME NEW x \in Device, session'[x].known
               PROVE  x \in registration' \/ IsDue("registration", x, 0)'
    BY DEF LeaseCovered
  <2>1. CASE x = d
    BY <2>1 DEF IsDue, LeaseKept
  <2>2. CASE x # d
    <3>1. session[x].known
      BY <2>2, <1>8, <1>9
    <3> QED
      BY <3>1, <1>1 DEF LeaseCovered, IsDue
  <2> QED
    BY <2>1, <2>2
<1>14. HeartCovered'
  <2> SUFFICES ASSUME NEW x \in Device, session'[x].connected
               PROVE  MayRefuse \/ x \in heart' \/ IsDue("heart", x, 0)'
    BY DEF HeartCovered
  <2>1. CASE x = d
    BY <2>1 DEF IsDue, HeartKept
  <2>2. CASE x # d
    <3>1. session[x].connected
      BY <2>2, <1>8, <1>9
    <3> QED
      BY <3>1, <1>1 DEF HeartCovered, IsDue
  <2> QED
    BY <2>1, <2>2
<1>15. DetachedCovered'
  <2> SUFFICES ASSUME NEW x \in Device, session'[x].known, ~ session'[x].connected,
                      ~ session'[x].expire
               PROVE  \/ [dev |-> x, gen |-> session'[x].gen] \in reconnect'
                      \/ [kind |-> "reconnect", dev |-> x, gen |-> session'[x].gen] \in due'
    BY DEF DetachedCovered, IsDue
  <2>1. x # d
    BY <1>7 DEF build
  <2>2. session'[x] = session[x]
    BY <2>1, <1>8, <1>9
  <2> QED
    BY <2>1, <2>2, <1>1 DEF DetachedCovered, IsDue
<1> QED
  BY <1>6, <1>10, <1>11, <1>12, <1>13, <1>14, <1>15 DEF RegistryInv, ExpiryCovered

(***************************************************************************)
(* A device d is removed with its mapping and its timers.                  *)
(***************************************************************************)
LEMMA Removes ==
  ASSUME RegistryInv, OthersTyped',
         NEW d \in Device,
         session' = [session EXCEPT ![d] = NoSession],
         netmap' \in [Assoc -> Device \cup {NoDevice}],
         \A x \in Assoc : netmap'[x] = netmap[x] \/ netmap'[x] = NoDevice,
         \A x \in Assoc : netmap'[x] # d,
         \A k \in reconnect' : k \in reconnect /\ k.dev # d,
         \A k \in reconnect : k.dev # d => k \in reconnect',
         registration \ {d} \subseteq registration',
         heart \ {d} \subseteq heart',
         \A e \in due : e.dev # d => e \in due'
  PROVE  RegistryInv'
<1> USE RegistryAssumption
<1>1. TypeOK /\ SessionsWellFormed /\ MappingSound /\ NoStaleDeadline
      /\ LeaseCovered /\ HeartCovered /\ DetachedCovered
  BY DEF RegistryInv, ExpiryCovered
<1>2. session \in [Device -> DeviceSession] /\ NoSession \in DeviceSession
  BY <1>1 DEF TypeOK, NoSession, DeviceSession
<1>3. TypeOK'
  BY <1>2 DEF TypeOK, OthersTyped
<1>4. session'[d] = NoSession /\ \A x \in Device : x # d => session'[x] = session[x]
  BY <1>2
<1>5. ~ NoSession.known /\ ~ NoSession.connected
  BY DEF NoSession
<1>6. SessionsWellFormed'
  BY <1>1, <1>4, <1>5 DEF SessionsWellFormed
<1>7. MappingSound'
  <2> SUFFICES ASSUME NEW b \in Assoc, netmap'[b] # NoDevice
               PROVE  /\ session'[netmap'[b]].known /\ session'[netmap'[b]].assoc = b
                      /\ session'[netmap'[b]].connected /\ ~ session'[netmap'[b]].expire
    BY DEF MappingSound
  <2>1. netmap'[b] = netmap[b] /\ netmap[b] \in Device /\ netmap[b] # d
    OBVIOUS
  <2> QED
    BY <2>1, <1>1, <1>4 DEF MappingSound
<1>8. NoStaleDeadline'
  <2> SUFFICES ASSUME NEW k \in reconnect'
               PROVE  /\ session'[k.dev].known /\ ~ session'[k.dev].connected
                      /\ session'[k.dev].gen = k.gen
    BY DEF NoStaleDeadline
  <2>1. k \in reconnect /\ k.dev # d /\ k.dev \in Device
    BY DEF OthersTyped, Reconnect
  <2> QED
    BY <2>1, <1>1, <1>4 DEF NoStaleDeadline
<1>9. LeaseCovered'
  <2> SUFFICES ASSUME NEW x \in Device, session'[x].known
               PROVE  x \in registration' \/ IsDue("registration", x, 0)'
    BY DEF LeaseCovered
  <2>1. x # d /\ session[x].known
    BY <1>4, <1>5
  <2> QED
    BY <2>1, <1>1 DEF LeaseCovered, IsDue
<1>10. HeartCovered'
  <2> SUFFICES ASSUME NEW x \in Device, session'[x].connected
               PROVE  MayRefuse \/ x \in heart' \/ IsDue("heart", x, 0)'
    BY DEF HeartCovered
  <2>1. x # d /\ session[x].connected
    BY <1>4, <1>5
  <2> QED
    BY <2>1, <1>1 DEF HeartCovered, IsDue
<1>11. DetachedCovered'
  <2> SUFFICES ASSUME NEW x \in Device, session'[x].known, ~ session'[x].connected,
                      ~ session'[x].expire
               PROVE  \/ [dev |-> x, gen |-> session'[x].gen] \in reconnect'
                      \/ [kind |-> "reconnect", dev |-> x, gen |-> session'[x].gen] \in due'
    BY DEF DetachedCovered, IsDue
  <2>1. x # d /\ session'[x] = session[x]
    BY <1>4, <1>5
  <2> QED
    BY <2>1, <1>1 DEF DetachedCovered, IsDue
<1> QED
  BY <1>3, <1>6, <1>7, <1>8, <1>9, <1>10, <1>11 DEF RegistryInv, ExpiryCovered

(***************************************************************************)
(* The connected device d, mapped at a, loses its transport.               *)
(***************************************************************************)
LEMMA DetachesDevice ==
  ASSUME RegistryInv, OthersTyped',
         NEW a \in Assoc, NEW d \in Device, netmap[a] = d,
         session' = [session EXCEPT ![d] =
                       [known |-> TRUE, assoc |-> a, connected |-> FALSE,
                        expire |-> session[d].expire, gen |-> session[d].gen + 1,
                        named |-> session[d].named]],
         netmap' = remove_device_mapping(netmap, d, a),
         heart' = heart \ {d},
         reconnect' = reconnect \cup {[dev |-> d, gen |-> session[d].gen + 1]},
         registration' = registration,
         due' = due
  PROVE  RegistryInv'
<1> USE RegistryAssumption
<1>1. TypeOK /\ SessionsWellFormed /\ MappingSound /\ NoStaleDeadline
      /\ LeaseCovered /\ HeartCovered /\ DetachedCovered
  BY DEF RegistryInv, ExpiryCovered
<1>2. session \in [Device -> DeviceSession] /\ netmap \in [Assoc -> Device \cup {NoDevice}]
  BY <1>1 DEF TypeOK
<1>3. d # NoDevice /\ session[d].known /\ session[d].assoc = a /\ session[d].connected
      /\ ~ session[d].expire
  BY <1>1 DEF MappingSound
<1>4. session' \in [Device -> DeviceSession]
  BY <1>2 DEF DeviceSession
<1>5. netmap' \in [Assoc -> Device \cup {NoDevice}]
  BY <1>2 DEF remove_device_mapping
<1>6. TypeOK'
  BY <1>4, <1>5 DEF TypeOK, OthersTyped
<1>7. session'[d].known /\ session'[d].assoc = a /\ ~ session'[d].connected
      /\ ~ session'[d].expire /\ session'[d].gen = session[d].gen + 1
  BY <1>2, <1>3
<1>8. \A x \in Device : x # d => session'[x] = session[x]
  BY <1>2
<1>9. SessionsWellFormed'
  BY <1>1, <1>7, <1>8 DEF SessionsWellFormed
<1>10. MappingSound'
  <2> SUFFICES ASSUME NEW b \in Assoc, netmap'[b] # NoDevice
               PROVE  /\ session'[netmap'[b]].known /\ session'[netmap'[b]].assoc = b
                      /\ session'[netmap'[b]].connected /\ ~ session'[netmap'[b]].expire
    BY DEF MappingSound
  <2>1. netmap'[b] = netmap[b] /\ netmap[b] \in Device /\ b # a
    BY <1>2 DEF remove_device_mapping
  <2>2. session[netmap[b]].known /\ session[netmap[b]].assoc = b
        /\ session[netmap[b]].connected /\ ~ session[netmap[b]].expire
    BY <2>1, <1>1 DEF MappingSound
  <2> QED
    BY <2>1, <2>2, <1>3, <1>8
<1>11. NoStaleDeadline'
  <2> SUFFICES ASSUME NEW k \in reconnect'
               PROVE  /\ session'[k.dev].known /\ ~ session'[k.dev].connected
                      /\ session'[k.dev].gen = k.gen
    BY DEF NoStaleDeadline
  <2>1. CASE k = [dev |-> d, gen |-> session[d].gen + 1]
    BY <2>1, <1>7
  <2>2. CASE k \in reconnect
    <3>1. k.dev \in Device
      BY DEF OthersTyped, Reconnect
    <3>2. session[k.dev].known /\ ~ session[k.dev].connected /\ session[k.dev].gen = k.gen
      BY <2>2, <1>1 DEF NoStaleDeadline
    <3> QED
      BY <3>1, <3>2, <1>3, <1>8
  <2> QED
    BY <2>1, <2>2
<1>12. LeaseCovered'
  BY <1>1, <1>3, <1>8 DEF LeaseCovered, IsDue
<1>13. HeartCovered'
  BY <1>1, <1>7, <1>8 DEF HeartCovered, IsDue
<1>14. DetachedCovered'
  <2> SUFFICES ASSUME NEW x \in Device, session'[x].known, ~ session'[x].connected,
                      ~ session'[x].expire
               PROVE  \/ [dev |-> x, gen |-> session'[x].gen] \in reconnect'
                      \/ [kind |-> "reconnect", dev |-> x, gen |-> session'[x].gen] \in due'
    BY DEF DetachedCovered, IsDue
  <2>1. CASE x = d
    BY <2>1, <1>7
  <2>2. CASE x # d
    BY <2>2, <1>8, <1>1 DEF DetachedCovered, IsDue
  <2> QED
    BY <2>1, <2>2
<1> QED
  BY <1>6, <1>9, <1>10, <1>11, <1>12, <1>13, <1>14 DEF RegistryInv, ExpiryCovered

(***************************************************************************)
(* The sessions and the map stay as they are; a timer that is not armed    *)
(* any more is due, a reconnect event that is not due any more was stale.  *)
(***************************************************************************)
LEMMA LeavesSessions ==
  ASSUME RegistryInv, OthersTyped',
         session' = session, netmap' = netmap,
         \A x \in heart : x \in heart' \/ IsDue("heart", x, 0)',
         \A x \in registration : x \in registration' \/ IsDue("registration", x, 0)',
         \A k \in reconnect' : k \in reconnect,
         \A k \in reconnect : k \in reconnect' \/ IsDue("reconnect", k.dev, k.gen)',
         \A e \in due : \/ e \in due'
                        \/ e.kind = "reconnect" /\ ~ remove_disconnected(e.dev, e.gen)
  PROVE  RegistryInv'
<1>1. TypeOK /\ SessionsWellFormed /\ MappingSound /\ NoStaleDeadline
      /\ LeaseCovered /\ HeartCovered /\ DetachedCovered
  BY DEF RegistryInv, ExpiryCovered
<1>2. TypeOK'
  BY <1>1 DEF TypeOK, OthersTyped
<1>3. SessionsWellFormed' /\ MappingSound'
  BY <1>1 DEF SessionsWellFormed, MappingSound
<1>4. NoStaleDeadline'
  BY <1>1 DEF NoStaleDeadline
<1>5. LeaseCovered'
  BY <1>1 DEF LeaseCovered, IsDue
<1>6. HeartCovered'
  BY <1>1 DEF HeartCovered, IsDue
<1>7. DetachedCovered'
  <2> SUFFICES ASSUME NEW x \in Device, session[x].known, ~ session[x].connected,
                      ~ session[x].expire
               PROVE  \/ [dev |-> x, gen |-> session[x].gen] \in reconnect'
                      \/ [kind |-> "reconnect", dev |-> x, gen |-> session[x].gen] \in due'
    BY DEF DetachedCovered, IsDue
  <2>1. CASE [dev |-> x, gen |-> session[x].gen] \in reconnect
    BY <2>1 DEF IsDue
  <2>2. CASE [kind |-> "reconnect", dev |-> x, gen |-> session[x].gen] \in due
    BY <2>2 DEF remove_disconnected
  <2> QED
    BY <2>1, <2>2, <1>1 DEF DetachedCovered, IsDue
<1> QED
  BY <1>2, <1>3, <1>4, <1>5, <1>6, <1>7 DEF RegistryInv, ExpiryCovered

(***************************************************************************)
(* The deadline that is cancelled is the only one the device can have.     *)
(***************************************************************************)
LEMMA CancelsAll ==
  ASSUME RegistryInv, NEW d \in Device,
         reconnect' = reconnect \ {[dev |-> d, gen |-> session[d].gen]}
  PROVE  /\ \A k \in reconnect' : k \in reconnect /\ k.dev # d
         /\ \A k \in reconnect : k.dev # d => k \in reconnect'
<1>1. ASSUME NEW k \in reconnect, k.dev = d PROVE k = [dev |-> d, gen |-> session[d].gen]
  BY <1>1 DEF RegistryInv, NoStaleDeadline, TypeOK, Reconnect
<1> QED
  BY <1>1

\* The same when the code looks for a session first: a device without one
\* has no deadline.
LEMMA CancelsAllOfKnown ==
  ASSUME RegistryInv, NEW d \in Device,
         reconnect' = reconnect \ (IF session[d].known
                                   THEN {[dev |-> d, gen |-> session[d].gen]} ELSE {})
  PROVE  /\ \A k \in reconnect' : k \in reconnect /\ k.dev # d
         /\ \A k \in reconnect : k.dev # d => k \in reconnect'
<1>1. CASE session[d].known
  BY <1>1, CancelsAll
<1>2. CASE ~ session[d].known
  <2>1. ASSUME NEW k \in reconnect PROVE k.dev # d
    BY <1>2 DEF RegistryInv, NoStaleDeadline
  <2> QED
    BY <1>2, <2>1
<1> QED
  BY <1>1, <1>2

LEMMA TakesOver ==
  ASSUME RegistryInv, OthersTyped',
         NEW d \in Device, NEW a \in Assoc, NEW g \in Nat, NEW named \in BOOLEAN,
         session[d].known,
         take_over(d, build(a, g, named)),
         \A k \in reconnect' : k \in reconnect /\ k.dev # d,
         \A k \in reconnect : k.dev # d => k \in reconnect',
         registration \subseteq registration',
         heart \subseteq heart',
         HeartKept(d),
         due' = due
  PROVE  RegistryInv'
<1> USE RegistryAssumption
<1> DEFINE m == IF session[d].assoc # a
                THEN remove_device_mapping(netmap, d, session[d].assoc) ELSE netmap
<1>1. netmap \in [Assoc -> Device \cup {NoDevice}] /\ session \in [Device -> DeviceSession]
  BY DEF RegistryInv, TypeOK
<1>2. m \in [Assoc -> Device \cup {NoDevice}]
  BY <1>1 DEF remove_device_mapping
<1>3. \A x \in Assoc : m[x] = netmap[x] \/ m[x] = NoDevice
  BY <1>1 DEF remove_device_mapping
<1>4. ASSUME NEW x \in Assoc, m[x] = d PROVE x = a
  <2>1. netmap[x] = d /\ netmap[x] # NoDevice
    BY <1>3, <1>4
  <2>2. session[d].assoc = x
    BY <2>1 DEF RegistryInv, MappingSound
  <2> QED
    BY <1>1, <1>4, <2>1, <2>2 DEF remove_device_mapping
<1>5. build(a, g, named).assoc = a
  BY DEF build
<1>6. netmap' = [m EXCEPT ![a] = d]
  BY <1>5 DEF take_over
<1>7. session' = [displace(session, m[a], d, 1) EXCEPT ![d] = build(a, g, named)]
  BY <1>5 DEF take_over
<1> HIDE DEF m
<1>8. session' = BoundSessions(m, d, a, g, named, 1)
  BY <1>7, Zenon DEF displace, BoundSessions
<1>9. LeaseKept(d)
  BY DEF RegistryInv, ExpiryCovered, LeaseCovered, LeaseKept
<1> QED
  BY <1>2, <1>3, <1>4, <1>6, <1>8, <1>9, Binds, ZenonT(120)

LEMMA Inserts ==
  ASSUME RegistryInv, OthersTyped',
         NEW d \in Device, NEW a \in Assoc, NEW named \in BOOLEAN,
         RegisterReplaces(d, a, named), due' = due
  PROVE  RegistryInv'
<1> USE RegistryAssumption
<1> DEFINE m == unmap(d)
<1>1. netmap \in [Assoc -> Device \cup {NoDevice}] /\ session \in [Device -> DeviceSession]
  BY DEF RegistryInv, TypeOK
<1>2. m \in [Assoc -> Device \cup {NoDevice}]
  BY <1>1 DEF unmap
<1>3. \A x \in Assoc : m[x] = netmap[x] \/ m[x] = NoDevice
  BY <1>1 DEF unmap
<1>4. ASSUME NEW x \in Assoc, m[x] = d PROVE x = a
  <2>1. netmap[x] = d /\ netmap[x] # NoDevice
    BY <1>3, <1>4
  <2>2. session[d].assoc = x /\ session[d].known /\ ~ session[d].expire
    BY <2>1 DEF RegistryInv, MappingSound
  <2> QED
    BY <1>4, <2>1, <2>2 DEF unmap
<1>5. build(a, 0, named).assoc = a
  BY DEF build
<1>6. netmap' = [m EXCEPT ![a] = d]
  BY <1>5 DEF RegisterReplaces, insert
<1>7. session' = [displace([session EXCEPT ![d] = NoSession], m[a], d, 0)
                    EXCEPT ![d] = build(a, 0, named)]
  BY <1>5 DEF RegisterReplaces, insert
<1> HIDE DEF m
<1>8. session' = BoundSessions(m, d, a, 0, named, 0)
  BY <1>1, <1>7 DEF displace, BoundSessions
<1>9. /\ \A k \in reconnect' : k \in reconnect /\ k.dev # d
      /\ \A k \in reconnect : k.dev # d => k \in reconnect'
  BY CancelsAllOfKnown DEF RegisterReplaces
<1>10. /\ registration \subseteq registration' /\ LeaseKept(d)
       /\ heart \subseteq heart' /\ HeartKept(d)
  BY DEF RegisterReplaces, HeartKept, LeaseKept
<1> QED
  BY <1>2, <1>3, <1>4, <1>6, <1>8, <1>9, <1>10, Binds

LEMMA Unmaps ==
  ASSUME RegistryInv, NEW d \in Device, netmap' = unmap(d)
  PROVE  /\ netmap' \in [Assoc -> Device \cup {NoDevice}]
         /\ \A x \in Assoc : netmap'[x] = netmap[x] \/ netmap'[x] = NoDevice
         /\ \A x \in Assoc : netmap'[x] # d
<1> USE RegistryAssumption
<1>1. netmap \in [Assoc -> Device \cup {NoDevice}]
  BY DEF RegistryInv, TypeOK
<1>2. /\ netmap' \in [Assoc -> Device \cup {NoDevice}]
      /\ \A x \in Assoc : netmap'[x] = netmap[x] \/ netmap'[x] = NoDevice
  BY <1>1 DEF unmap
<1>3. ASSUME NEW x \in Assoc, netmap'[x] = d PROVE FALSE
  <2>1. netmap[x] = d /\ netmap[x] # NoDevice
    BY <1>2, <1>3
  <2>2. session[d].assoc = x /\ session[d].known /\ ~ session[d].expire
    BY <2>1 DEF RegistryInv, MappingSound
  <2> QED
    BY <1>3, <2>1, <2>2 DEF unmap
<1> QED
  BY <1>2, <1>3

-----------------------------------------------------------------------------
(***************************************************************************)
(* The operators of Register.                                              *)
(***************************************************************************)
LEMMA ArmsTimers ==
  ASSUME NEW H, NEW R, heart \subseteq H, registration \subseteq R, arms(H, R)
  PROVE  /\ heart \subseteq heart' /\ registration \subseteq registration'
         /\ heart' \subseteq H /\ registration' \subseteq R
         /\ MayRefuse \/ heart' = H
BY DEF arms

LEMMA Registers ==
  ASSUME RegistryInv, NEW d \in Device, NEW a \in Assoc, NEW named \in BOOLEAN,
         NEW older \in BOOLEAN,
         register_device(d, a, named, older), due' = due,
         open' \in SUBSET Assoc, recovering' \in SUBSET Recovering
  PROVE  RegistryInv'
<1>1. TypeOK
  BY DEF RegistryInv
<1>2. CASE RegisterRebinds(d, a, named)
  <2>1. /\ session[d].known
        /\ take_over(d, build(a, session[d].gen + 1, named))
        /\ reconnect' = reconnect \ {[dev |-> d, gen |-> session[d].gen]}
        /\ arms(heart \cup {d}, registration \cup {d})
    BY <1>2 DEF RegisterRebinds, rebind_registration
  <2>2. /\ heart \subseteq heart' /\ registration \subseteq registration'
        /\ heart' \subseteq heart \cup {d} /\ registration' \subseteq registration \cup {d}
        /\ MayRefuse \/ heart' = heart \cup {d}
    BY <2>1, ArmsTimers
  <2>3. OthersTyped'
    BY <2>1, <2>2, <1>1 DEF TypeOK, OthersTyped
  <2>4. HeartKept(d)
    BY <2>2 DEF HeartKept
  <2>5. session[d].gen + 1 \in Nat
    BY <1>1 DEF TypeOK, DeviceSession
  <2>6. /\ \A k \in reconnect' : k \in reconnect /\ k.dev # d
        /\ \A k \in reconnect : k.dev # d => k \in reconnect'
    BY <2>1, CancelsAll
  <2> DEFINE g == session[d].gen + 1
  <2>7. g \in Nat /\ take_over(d, build(a, g, named))
    BY <2>1, <2>5
  <2> HIDE DEF g
  <2> QED
    BY <2>1, <2>2, <2>3, <2>4, <2>6, <2>7, TakesOver
<1>3. CASE RegisterReplaces(d, a, named)
  <2>1. OthersTyped'
    BY <1>3, <1>1 DEF TypeOK, OthersTyped, RegisterReplaces
  <2> QED
    BY <1>3, <2>1, Inserts
<1>4. CASE RegisterRefused(d)
  <2>1. OthersTyped'
    BY <1>4, <1>1 DEF TypeOK, OthersTyped, RegisterRefused
  <2>2. /\ \A k \in reconnect' : k \in reconnect /\ k.dev # d
        /\ \A k \in reconnect : k.dev # d => k \in reconnect'
    BY <1>4, CancelsAllOfKnown DEF RegisterRefused
  <2>3. /\ netmap' \in [Assoc -> Device \cup {NoDevice}]
        /\ \A x \in Assoc : netmap'[x] = netmap[x] \/ netmap'[x] = NoDevice
        /\ \A x \in Assoc : netmap'[x] # d
    BY <1>4, Unmaps DEF RegisterRefused
  <2>4. /\ session' = [session EXCEPT ![d] = NoSession]
        /\ registration \ {d} \subseteq registration'
        /\ heart \ {d} \subseteq heart'
    BY <1>4 DEF RegisterRefused
  <2> QED
    BY <2>1, <2>2, <2>3, <2>4, Removes
<1> QED
  BY <1>2, <1>3, <1>4 DEF register_device

LEMMA Hearts ==
  ASSUME RegistryInv, NEW d \in Device, NEW a \in Assoc,
         session[d].known, device_heart(d, a), due' = due,
         open' \in SUBSET Assoc, recovering' \in SUBSET Recovering
  PROVE  RegistryInv'
<1>1. TypeOK
  BY DEF RegistryInv
<1> DEFINE g == IF session[d].connected THEN session[d].gen ELSE session[d].gen + 1
           named == session[d].named
<1>2. g \in Nat /\ named \in BOOLEAN /\ take_over(d, build(a, g, named))
  BY <1>1 DEF TypeOK, DeviceSession, device_heart, rebind
<1> HIDE DEF g, named
<1>3. CASE session[d].connected
  <2>1. heart' = heart /\ reconnect' = reconnect /\ registration' = registration
    BY <1>3 DEF device_heart
  <2>2. OthersTyped'
    BY <2>1, <1>1 DEF TypeOK, OthersTyped
  <2>3. HeartKept(d)
    BY <1>3, <2>1 DEF HeartKept, RegistryInv, ExpiryCovered, HeartCovered
  <2>4. \A k \in reconnect : k.dev # d
    BY <1>3 DEF RegistryInv, NoStaleDeadline
  <2>5. /\ \A k \in reconnect' : k \in reconnect /\ k.dev # d
        /\ \A k \in reconnect : k.dev # d => k \in reconnect'
        /\ registration \subseteq registration' /\ heart \subseteq heart'
    BY <2>1, <2>4
  <2> QED
    BY <1>2, <2>2, <2>3, <2>5, TakesOver
<1>4. CASE ~ session[d].connected
  <2>1. /\ reconnect' = reconnect \ {[dev |-> d, gen |-> session[d].gen]}
        /\ arms(heart \cup {d}, registration)
    BY <1>4 DEF device_heart
  <2>2. /\ heart \subseteq heart' /\ registration \subseteq registration'
        /\ heart' \subseteq heart \cup {d} /\ registration' \subseteq registration
        /\ MayRefuse \/ heart' = heart \cup {d}
    BY <2>1, ArmsTimers
  <2>3. OthersTyped'
    BY <2>1, <2>2, <1>1 DEF TypeOK, OthersTyped
  <2>4. HeartKept(d)
    BY <2>2 DEF HeartKept
  <2>5. /\ \A k \in reconnect' : k \in reconnect /\ k.dev # d
        /\ \A k \in reconnect : k.dev # d => k \in reconnect'
    BY <2>1, CancelsAll
  <2> QED
    BY <1>2, <2>2, <2>3, <2>4, <2>5, TakesOver
<1> QED
  BY <1>3, <1>4

LEMMA RemovesByInner ==
  ASSUME RegistryInv, NEW d \in Device, remove_device_by_inner(d),
         open' \in SUBSET Assoc, recovering' = recovering,
         due' \in SUBSET Due, \A e \in due : e.dev # d => e \in due'
  PROVE  RegistryInv'
<1>1. TypeOK
  BY DEF RegistryInv
<1>2. OthersTyped'
  BY <1>1 DEF TypeOK, OthersTyped, remove_device_by_inner, cancel
<1>3. /\ \A k \in reconnect' : k \in reconnect /\ k.dev # d
      /\ \A k \in reconnect : k.dev # d => k \in reconnect'
  BY CancelsAllOfKnown DEF remove_device_by_inner, cancel
<1>4. /\ netmap' \in [Assoc -> Device \cup {NoDevice}]
      /\ \A x \in Assoc : netmap'[x] = netmap[x] \/ netmap'[x] = NoDevice
      /\ \A x \in Assoc : netmap'[x] # d
  BY Unmaps DEF remove_device_by_inner
<1>5. /\ session' = [session EXCEPT ![d] = NoSession]
      /\ registration \ {d} \subseteq registration'
      /\ heart \ {d} \subseteq heart'
  BY DEF remove_device_by_inner, cancel
<1> QED
  BY <1>2, <1>3, <1>4, <1>5, Removes

-----------------------------------------------------------------------------
(***************************************************************************)
(* The steps.                                                              *)
(***************************************************************************)
LEMMA MessageStep ==
  ASSUME RegistryInv, NEW d \in Device, NEW a \in Assoc, Message(d, a)
  PROVE  RegistryInv'
<1>1. TypeOK
  BY DEF RegistryInv
<1>2. ASSUME NEW older \in BOOLEAN, Register(d, a, older) PROVE RegistryInv'
  <2>1. register_device(d, a, TRUE, older) /\ due' = due
        /\ open' \in SUBSET Assoc /\ recovering' \in SUBSET Recovering
    BY <1>1, <1>2 DEF Register, TypeOK
  <2> QED
    BY <2>1, Registers
<1>3. CASE Unregister(d, a)
  <2>1. remove_device_by_inner(d) /\ open' \in SUBSET Assoc /\ recovering' = recovering
        /\ due' \in SUBSET Due /\ \A e \in due : e.dev # d => e \in due'
    BY <1>1, <1>3 DEF Unregister, TypeOK
  <2> QED
    BY <2>1, RemovesByInner
<1>4. CASE Keepalive(d, a)
  <2>1. session[d].known /\ device_heart(d, a) /\ due' = due
        /\ open' \in SUBSET Assoc /\ recovering' \in SUBSET Recovering
    BY <1>1, <1>4 DEF Keepalive, TypeOK
  <2> QED
    BY <2>1, Hearts
<1>5. CASE KeepaliveRecovers(d, a) \/ StartupLookup(d, a)
  <2>1. session' = session /\ netmap' = netmap /\ heart' = heart /\ registration' = registration
        /\ reconnect' = reconnect /\ due' = due
    BY <1>5 DEF KeepaliveRecovers, StartupLookup, timerVars
  <2>2. [dev |-> d, assoc |-> a, src |-> "keepalive"] \in Recovering
        /\ [dev |-> d, assoc |-> a, src |-> "startup"] \in Recovering
    BY DEF Recovering
  <2>3. recovering' \in SUBSET Recovering /\ open' \in SUBSET Assoc
    BY <1>1, <1>5, <2>2 DEF KeepaliveRecovers, StartupLookup, TypeOK
  <2>4. OthersTyped'
    BY <1>1, <2>1, <2>3 DEF TypeOK, OthersTyped
  <2> QED
    BY <2>1, <2>4, LeavesSessions
<1> QED
  BY <1>2, <1>3, <1>4, <1>5 DEF Message

LEMMA TransportClosedStep ==
  ASSUME RegistryInv, NEW a \in Assoc, TransportClosed(a)
  PROVE  RegistryInv'
<1> USE RegistryAssumption
<1>1. TypeOK
  BY DEF RegistryInv
<1>2. /\ open' \in SUBSET Assoc /\ due' = due /\ recovering' = recovering
  BY <1>1 DEF TransportClosed, TypeOK
<1>3. CASE ~ Detaches(a)
  <2>1. session' = session /\ netmap' = netmap /\ heart' = heart /\ registration' = registration
        /\ reconnect' = reconnect
    BY <1>3 DEF TransportClosed
  <2>2. OthersTyped'
    BY <1>1, <1>2, <2>1 DEF TypeOK, OthersTyped
  <2> QED
    BY <1>2, <2>1, <2>2, LeavesSessions
<1>4. CASE Detaches(a)
  <2> DEFINE d == netmap[a]
             s == [known |-> TRUE, assoc |-> a, connected |-> FALSE,
                   expire |-> session[d].expire, gen |-> session[d].gen + 1,
                   named |-> session[d].named]
             ss == [session EXCEPT ![d] = s]
             m == remove_device_mapping(netmap, d, a)
  <2>1. d \in Device /\ session[d].known /\ session[d].connected /\ session[d].assoc = a
    BY <1>1, <1>4 DEF Detaches, TypeOK
  <2>2. \/ /\ session' = ss /\ netmap' = m /\ heart' = heart \ {d}
           /\ reconnect' = reconnect \cup {[dev |-> d, gen |-> session[d].gen + 1]}
           /\ registration' = registration
        \/ expire_disconnected(ss, m, d)
    BY <1>4 DEF TransportClosed
  <2>3. CASE /\ session' = ss /\ netmap' = m /\ heart' = heart \ {d}
             /\ reconnect' = reconnect \cup {[dev |-> d, gen |-> session[d].gen + 1]}
             /\ registration' = registration
    <3>1. [dev |-> d, gen |-> session[d].gen + 1] \in Reconnect
      BY <1>1, <2>1 DEF TypeOK, DeviceSession, Reconnect
    <3>2. OthersTyped'
      BY <1>1, <1>2, <2>3, <3>1 DEF TypeOK, OthersTyped
    <3> QED
      BY <1>2, <2>1, <2>3, <3>2, DetachesDevice
  <2>4. CASE expire_disconnected(ss, m, d)
    <3>1. netmap \in [Assoc -> Device \cup {NoDevice}] /\ session \in [Device -> DeviceSession]
      BY <1>1 DEF TypeOK
    <3>2. session' = [session EXCEPT ![d] = NoSession]
      BY <2>1, <2>4, <3>1 DEF expire_disconnected
    <3>3. ss[d].assoc = a /\ ss[d].gen = session[d].gen + 1
      BY <2>1, <3>1
    <3>4. netmap' = remove_device_mapping(m, d, a)
      BY <2>4, <3>3 DEF expire_disconnected
    <3>5. /\ netmap' \in [Assoc -> Device \cup {NoDevice}]
          /\ \A x \in Assoc : netmap'[x] = netmap[x] \/ netmap'[x] = NoDevice
          /\ netmap'[a] = NoDevice
      BY <3>1, <3>4 DEF remove_device_mapping
    <3>6. \A x \in Assoc : netmap'[x] # d
      <4> SUFFICES ASSUME NEW x \in Assoc, netmap'[x] = d PROVE FALSE
        OBVIOUS
      <4>1. netmap[x] = d /\ d # NoDevice
        BY <2>1, <3>5
      <4>2. x = a
        BY <4>1, <2>1 DEF RegistryInv, MappingSound
      <4> QED
        BY <4>1, <4>2, <3>5
    <3>7. /\ heart' = heart \ {d} /\ registration' = registration \ {d}
          /\ reconnect' = reconnect \ {[dev |-> d, gen |-> session[d].gen + 1]}
      BY <2>4, <3>3 DEF expire_disconnected
    <3>8. \A k \in reconnect : k.dev # d
      BY <2>1 DEF RegistryInv, NoStaleDeadline
    <3>9. /\ \A k \in reconnect' : k \in reconnect /\ k.dev # d
          /\ \A k \in reconnect : k.dev # d => k \in reconnect'
      BY <3>7, <3>8
    <3>10. OthersTyped'
      BY <1>1, <1>2, <3>7 DEF TypeOK, OthersTyped
    <3> HIDE DEF d
    <3> QED
      BY <1>2, <2>1, <3>2, <3>5, <3>6, <3>7, <3>9, <3>10, Removes
  <2> QED
    BY <2>2, <2>3, <2>4
<1> QED
  BY <1>3, <1>4

LEMMA RecoverStep ==
  ASSUME RegistryInv, NEW r \in recovering, Recover(r)
  PROVE  RegistryInv'
<1>1. TypeOK
  BY DEF RegistryInv
<1>2. r.dev \in Device /\ r.assoc \in Assoc
  BY <1>1 DEF TypeOK, Recovering
<1>3. CASE RecoverRegister(r)
  <2>1. register_device(r.dev, r.assoc, FALSE, FALSE) /\ due' = due
        /\ open' \in SUBSET Assoc /\ recovering' \in SUBSET Recovering
    BY <1>1, <1>3 DEF RecoverRegister, TypeOK
  <2> QED
    BY <1>2, <2>1, Registers
<1>4. CASE RecoverHeart(r)
  <2>1. session[r.dev].known /\ device_heart(r.dev, r.assoc) /\ due' = due
        /\ open' \in SUBSET Assoc /\ recovering' \in SUBSET Recovering
    BY <1>1, <1>4 DEF RecoverHeart, TypeOK
  <2> QED
    BY <1>2, <2>1, Hearts
<1>5. CASE RecoverFails(r)
  <2>1. session' = session /\ netmap' = netmap /\ heart' = heart /\ registration' = registration
        /\ reconnect' = reconnect /\ due' = due
    BY <1>5 DEF RecoverFails, timerVars
  <2>2. OthersTyped'
    BY <1>1, <1>5, <2>1 DEF RecoverFails, TypeOK, OthersTyped
  <2> QED
    BY <2>1, <2>2, LeavesSessions
<1> QED
  BY <1>3, <1>4, <1>5 DEF Recover

LEMMA PopStep ==
  ASSUME RegistryInv, NEW d \in Device, Pop(d)
  PROVE  RegistryInv'
<1>1. TypeOK
  BY DEF RegistryInv
<1>2. session' = session /\ netmap' = netmap /\ reconnect' = reconnect /\ due \subseteq due'
  BY DEF Pop, PopHeart, PopRegistration
<1>3. [kind |-> "heart", dev |-> d, gen |-> 0] \in Due
      /\ [kind |-> "registration", dev |-> d, gen |-> 0] \in Due
  BY DEF Due
<1>4. OthersTyped'
  BY <1>1, <1>3 DEF TypeOK, OthersTyped, Pop, PopHeart, PopRegistration
<1>5. /\ \A x \in heart : x \in heart' \/ IsDue("heart", x, 0)'
      /\ \A x \in registration : x \in registration' \/ IsDue("registration", x, 0)'
  BY DEF Pop, PopHeart, PopRegistration, IsDue
<1> QED
  BY <1>2, <1>4, <1>5, LeavesSessions

LEMMA PopReconnectStep ==
  ASSUME RegistryInv, NEW k \in reconnect, PopReconnect(k)
  PROVE  RegistryInv'
<1>1. TypeOK
  BY DEF RegistryInv
<1>2. [kind |-> "reconnect", dev |-> k.dev, gen |-> k.gen] \in Due
  BY <1>1 DEF TypeOK, Reconnect, Due
<1>3. OthersTyped'
  BY <1>1, <1>2 DEF TypeOK, OthersTyped, PopReconnect
<1>4. /\ session' = session /\ netmap' = netmap /\ heart' = heart /\ registration' = registration
      /\ due \subseteq due' /\ reconnect' \subseteq reconnect
      /\ \A j \in reconnect : j \in reconnect' \/ IsDue("reconnect", j.dev, j.gen)'
  BY DEF PopReconnect, IsDue
<1> QED
  BY <1>3, <1>4, LeavesSessions

LEMMA HandleStep ==
  ASSUME RegistryInv, NEW e \in due, Handle(e)
  PROVE  RegistryInv'
<1>1. TypeOK
  BY DEF RegistryInv
<1>2. e.dev \in Device /\ e.gen \in Nat
  BY <1>1 DEF TypeOK, Due
<1>3. due' = due \ {e} /\ due' \in SUBSET Due /\ recovering' = recovering
      /\ open' \in SUBSET Assoc
  BY <1>1 DEF Handle, HandleExpiry, HandleReconnect, TypeOK
<1>4. CASE HandleExpiry(e)
  <2>1. remove_device_by_inner(e.dev) /\ \A f \in due : f.dev # e.dev => f \in due'
    BY <1>3, <1>4 DEF HandleExpiry
  <2> QED
    BY <1>2, <1>3, <2>1, RemovesByInner
<1>5. CASE HandleReconnect(e) /\ ~ remove_disconnected(e.dev, e.gen)
  <2>1. /\ session' = session /\ netmap' = netmap /\ heart' = heart
        /\ registration' = registration /\ reconnect' = reconnect /\ e.kind = "reconnect"
    BY <1>5 DEF HandleReconnect
  <2>2. OthersTyped'
    BY <1>1, <1>3, <2>1 DEF TypeOK, OthersTyped
  <2>3. \A f \in due : \/ f \in due'
                       \/ f.kind = "reconnect" /\ ~ remove_disconnected(f.dev, f.gen)
    BY <1>3, <1>5, <2>1
  <2> QED
    BY <2>1, <2>2, <2>3, LeavesSessions
<1>6. CASE HandleReconnect(e) /\ remove_disconnected(e.dev, e.gen)
  <2> DEFINE d == e.dev
  <2>1. expire_disconnected(session, netmap, d) /\ session[d].known /\ ~ session[d].connected
    BY <1>6 DEF HandleReconnect, remove_disconnected
  <2>2. /\ session' = [session EXCEPT ![d] = NoSession]
        /\ netmap' = remove_device_mapping(netmap, d, session[d].assoc)
        /\ heart' = heart \ {d} /\ registration' = registration \ {d}
        /\ reconnect' = reconnect \ {[dev |-> d, gen |-> session[d].gen]}
    BY <2>1 DEF expire_disconnected
  <2>3. netmap \in [Assoc -> Device \cup {NoDevice}]
    BY <1>1 DEF TypeOK
  <2>4. \A x \in Assoc : netmap[x] # d
    BY <1>2, <2>1, RegistryAssumption DEF RegistryInv, MappingSound
  <2>5. netmap' = netmap
    BY <2>2, <2>3, <2>4 DEF remove_device_mapping
  <2>6. /\ \A k \in reconnect' : k \in reconnect /\ k.dev # d
        /\ \A k \in reconnect : k.dev # d => k \in reconnect'
    BY <1>2, <2>2, CancelsAll
  <2>7. OthersTyped'
    BY <1>1, <1>3, <2>2 DEF TypeOK, OthersTyped
  <2>8. \A f \in due : f.dev # d => f \in due'
    BY <1>3
  <2> QED
    BY <1>2, <2>2, <2>3, <2>4, <2>5, <2>6, <2>7, <2>8, Removes
<1> QED
  BY <1>4, <1>5, <1>6 DEF Handle, HandleReconnect

(***************************************************************************)
(* The registry's invariant holds, for any devices, associations, numbers  *)
(* of recoveries and generations, whether or not the scheduler refuses     *)
(* timers.                                                                 *)
(***************************************************************************)
THEOREM RegistryInvariant == Spec => []RegistryInv
<1>1. Init => RegistryInv
  BY RegistryAssumption
  DEF Init, RegistryInv, TypeOK, SessionsWellFormed, MappingSound, NoStaleDeadline,
      ExpiryCovered, LeaseCovered, HeartCovered, DetachedCovered, NoSession, DeviceSession
<1>2. RegistryInv /\ [Next]_vars => RegistryInv'
  <2> SUFFICES ASSUME RegistryInv, [Next]_vars PROVE RegistryInv'
    OBVIOUS
  <2>1. CASE UNCHANGED vars
    <3>1. OthersTyped'
      BY <2>1 DEF RegistryInv, TypeOK, OthersTyped, vars
    <3> QED
      BY <2>1, <3>1, LeavesSessions DEF vars
  <2>2. CASE Next
    BY <2>2, MessageStep, TransportClosedStep, RecoverStep, PopStep, PopReconnectStep,
       HandleStep DEF Next
  <2> QED
    BY <2>1, <2>2
<1> QED
  BY <1>1, <1>2, PTL DEF Spec

(***************************************************************************)
(* No association is ever attributed to a device that is not connected by  *)
(* it.                                                                     *)
(***************************************************************************)
THEOREM MappingCorrect == Spec => []MappingSound
BY RegistryInvariant, PTL DEF RegistryInv

(***************************************************************************)
(* No reconnect deadline outlives the detachment it was armed for.         *)
(***************************************************************************)
THEOREM DeadlinesCorrect == Spec => []NoStaleDeadline
BY RegistryInvariant, PTL DEF RegistryInv

(***************************************************************************)
(* Every session has the timers that will end it.                          *)
(***************************************************************************)
THEOREM ExpiryCorrect == Spec => []ExpiryCovered
BY RegistryInvariant, PTL DEF RegistryInv
=============================================================================
