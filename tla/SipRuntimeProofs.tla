-------------------------- MODULE SipRuntimeProofs --------------------------
(***************************************************************************)
(* The SIP runtime: the ids of connections, the waiters of callers and the *)
(* credentials told to the stack, for any callers, connections, lookups    *)
(* and any limits.                                                         *)
(***************************************************************************)
EXTENDS SipRuntime, SequenceTheorems, TLAPS

(***************************************************************************)
(* What is in a sequence.                                                  *)
(***************************************************************************)
LEMMA InRange ==
  ASSUME NEW S, NEW s \in Seq(S)
  PROVE  /\ Range(s) \subseteq S
         /\ \A i \in 1 .. Len(s) : s[i] \in Range(s)
         /\ \A x \in Range(s) : \E i \in 1 .. Len(s) : s[i] = x
BY DEF Range

LEMMA RangeAppend ==
  ASSUME NEW S, NEW s \in Seq(S), NEW x \in S
  PROVE  /\ Append(s, x) \in Seq(S) /\ Range(Append(s, x)) = Range(s) \cup {x}
         /\ Len(Append(s, x)) = Len(s) + 1
<1>1. <<x>> \in Seq(S) /\ Range(<<x>>) = {x}
  BY DEF Range
<1>2. Append(s, x) = s \o <<x>>
  BY AppendIsConcat
<1>3. Range(s \o <<x>>) = Range(s) \cup Range(<<x>>)
  BY <1>1, RangeConcatenation
<1> QED
  BY <1>1, <1>2, <1>3, AppendProperties

LEMMA RangeTail ==
  ASSUME NEW S, NEW s \in Seq(S), s # <<>>
  PROVE  /\ Tail(s) \in Seq(S) /\ Head(s) \in S
         /\ Range(s) = Range(Tail(s)) \cup {Head(s)}
<1>1. Tail(s) \in Seq(S) /\ Head(s) \in S /\ Len(s) \in Nat \ {0} /\ Len(Tail(s)) = Len(s) - 1
  BY HeadTailProperties, EmptySeq
<1>2. \A i \in 1 .. Len(s) - 1 : Tail(s)[i] = s[i + 1]
  BY HeadTailProperties
<1>3. Head(s) = s[1]
  OBVIOUS
<1>4. ASSUME NEW x \in Range(s) PROVE x \in Range(Tail(s)) \cup {Head(s)}
  <2>1. PICK i \in 1 .. Len(s) : s[i] = x
    BY InRange
  <2>2. CASE i = 1
    BY <1>3, <2>1, <2>2
  <2>3. CASE i # 1
    <3>1. i - 1 \in 1 .. Len(Tail(s)) /\ Tail(s)[i - 1] = x
      BY <1>1, <1>2, <2>1, <2>3
    <3> QED
      BY <1>1, <3>1, InRange
  <2> QED
    BY <2>2, <2>3
<1>5. ASSUME NEW x \in Range(Tail(s)) PROVE x \in Range(s)
  <2>1. PICK i \in 1 .. Len(Tail(s)) : Tail(s)[i] = x
    BY <1>1, InRange
  <2>2. i + 1 \in 1 .. Len(s) /\ s[i + 1] = x
    BY <1>1, <1>2, <2>1
  <2> QED
    BY <2>2, InRange
<1>6. Head(s) \in Range(s)
  BY <1>1, <1>3, InRange
<1> QED
  BY <1>1, <1>4, <1>5, <1>6

LEMMA RangeConcat ==
  ASSUME NEW S, NEW s \in Seq(S), NEW t \in Seq(S)
  PROVE  /\ s \o t \in Seq(S) /\ Len(s \o t) = Len(s) + Len(t)
         /\ Range(s \o t) = Range(s) \cup Range(t)
BY ConcatProperties, RangeConcatenation

LEMMA RangeSubSeq ==
  ASSUME NEW S, NEW s \in Seq(S), NEW m \in 1 .. Len(s) + 1, NEW n \in 0 .. Len(s)
  PROVE  /\ SubSeq(s, m, n) \in Seq(S) /\ Range(SubSeq(s, m, n)) \subseteq Range(s)
         /\ Len(SubSeq(s, m, n)) = IF m <= n THEN n - m + 1 ELSE 0
<1>1. /\ SubSeq(s, m, n) \in Seq(S) /\ Len(s) \in Nat
      /\ Len(SubSeq(s, m, n)) = IF m <= n THEN n - m + 1 ELSE 0
      /\ \A i \in 1 .. n - m + 1 : SubSeq(s, m, n)[i] = s[m + i - 1]
  BY SubSeqProperties, LenProperties
<1>2. ASSUME NEW x \in Range(SubSeq(s, m, n)) PROVE x \in Range(s)
  <2>1. PICK i \in 1 .. Len(SubSeq(s, m, n)) : SubSeq(s, m, n)[i] = x
    BY <1>1, InRange
  <2>2. m + i - 1 \in 1 .. Len(s) /\ s[m + i - 1] = x
    BY <1>1, <2>1
  <2> QED
    BY <2>2, InRange
<1> QED
  BY <1>1, <1>2

LEMMA RangeEmpty == Range(<<>>) = {}
BY DEF Range

-----------------------------------------------------------------------------
(***************************************************************************)
(* Types, in the parts the steps change together.                          *)
(***************************************************************************)
Caller == [at : {"idle", "sending", "waiting", "expired", "answered", "failed", "abandoned"},
           kind : Kinds \cup {None}, assoc : Assoc \cup {None}, answer : Statuses \cup {None}]
Result == {"NotFound", "Reject", "Bypass", "Credential"}

CallerTypeOK ==
  /\ calls \in [Op -> Caller] /\ waiters \subseteq Op /\ late \subseteq Op
  /\ service \in {"up", "cancelled", "stopped"} /\ transactions \subseteq Op

QueueTypeOK ==
  /\ commands \in Seq(RuntimeCommand) /\ Len(commands) <= MaxCommands
  /\ owner \in {"running", "ended"} /\ (owner = "ended" => commands = <<>>)

EventTypeOK ==
  /\ events \in Seq(RuntimeEvent) /\ handling \in Seq(RuntimeEvent) /\ Len(handling) <= 1
  /\ closing \subseteq RuntimeEvent
  /\ associationIds \in [Assoc -> 0 .. MaxConn] /\ transport \in [Assoc -> 0 .. MaxConn]
  /\ connections \in 0 .. MaxConn

AuthTypeOK ==
  /\ lookups \in Seq(Lookup) /\ batch \in Seq(Lookup) /\ Len(batch) <= MaxBatch
  /\ authTask \in {"running", "ended"} /\ cache \subseteq Device
  /\ row \in [Device -> Rows] /\ asked \in [Lookup -> Device \cup {None}]
  /\ verdict \in [Lookup -> {None, "pending", "expired"} \cup Result]

LEMMA TypeParts == TypeOK <=> CallerTypeOK /\ QueueTypeOK /\ EventTypeOK /\ AuthTypeOK
<1>1. {None, "pending", "expired"} \cup Result
        = {None, "pending", "expired", "NotFound", "Reject", "Bypass", "Credential"}
  BY DEF Result
<1> QED
  BY <1>1 DEF TypeOK, CallerTypeOK, QueueTypeOK, EventTypeOK, AuthTypeOK, Caller

(***************************************************************************)
(* The inductive invariant.  A caller that has started has an association; *)
(* what the stack or the queue has of a caller is of one that has started. *)
(***************************************************************************)
Started ==
  /\ \A o \in Op : calls[o].at # "idle" => calls[o].assoc \in Assoc
  /\ \A o \in transactions : calls[o].at # "idle"
  /\ \A c \in Range(commands) : c.kind = "send" => calls[c.op].at # "idle"

\* A caller that waits has its answer on the way, and a final one: the service
\* stops only after the owner thread.
Ahead(o) ==
  \/ o \in transactions
  \/ \E c \in Range(commands) : c.kind = "send" /\ c.op = o
  \/ \E e \in Range(events) \cup Range(handling) :
       e.kind \in {"response", "fault"} /\ e.op = o /\ e.status # "trying"
  \/ owner = "ended"

AnswerAhead == \A o \in Op : o \in waiters /\ calls[o].at = "waiting" => Ahead(o)

WaiterInv ==
  /\ (service = "stopped" => owner = "ended")
  /\ CallerHasWaiter /\ AnswerAhead

\* An event that came on a connection is about the open one, or the report of
\* its end comes after it; a report of an end is never about the open one.
Ended(a, id) == ConnEvent("closed", a, id)

ReportsInOrder ==
  \A i \in 1 .. Len(events) : events[i].kind # "closed" /\ events[i].id # 0 =>
    \/ events[i].id = transport[events[i].assoc]
    \/ Ended(events[i].assoc, events[i].id) \in closing
    \/ \E j \in i + 1 .. Len(events) : events[j] = Ended(events[i].assoc, events[i].id)

ClosedAreGone ==
  /\ \A e \in closing : e.kind = "closed"
  /\ \A e \in Range(events) \cup closing : e.kind = "closed" =>
       e.id <= connections /\ e.id # transport[e.assoc]
  /\ \A a \in Assoc : transport[a] <= connections

IdsKnown ==
  \A a \in Assoc :
    \/ associationIds[a] \in {0, transport[a]}
    \/ Ended(a, associationIds[a]) \in Range(events) \cup closing

ConnectionInv == ReportsInOrder /\ ClosedAreGone /\ IdsKnown

\* What answers a lookup is of the device it was made for, which is fixed once
\* the lookup is made.
OwnAnswer(c) ==
  /\ verdict[c.lookup] # None
  /\ c.result \in {"Bypass", "Credential"} => c.result = auth_result(row[asked[c.lookup]])

AuthInv ==
  /\ \A l \in Lookup : verdict[l] # None => asked[l] \in Device
  /\ \A l \in Range(lookups) \cup Range(batch) : verdict[l] # None
  /\ \A c \in Range(commands) : c.kind = "auth" => OwnAnswer(c)
  /\ NoForeignCredential

Inv == TypeOK /\ Started /\ WaiterInv /\ ConnectionInv /\ AuthInv

-----------------------------------------------------------------------------
(***************************************************************************)
(* Commands and events.                                                    *)
(***************************************************************************)
LEMMA CommandFields ==
  ASSUME NEW c \in RuntimeCommand
  PROVE  /\ c.kind \in {"send", "close", "auth"}
         /\ c.kind = "send" => c.op \in Op /\ c.id \in 0 .. MaxConn
         /\ c.kind = "close" => c.assoc \in Assoc /\ c.id \in 1 .. MaxConn
         /\ c.kind = "auth" => c.lookup \in Lookup /\ c.result \in Result
BY DEF RuntimeCommand, Result

LEMMA EventFields ==
  ASSUME NEW e \in RuntimeEvent
  PROVE  /\ e.kind \in {"response", "fault", "request", "closed"}
         /\ e.kind \in {"response", "fault"} => e.op \in Op /\ e.status \in Statuses
         /\ e.assoc \in Assoc /\ e.id \in 0 .. MaxConn
         /\ e.kind = "closed" => e.id \in 1 .. MaxConn /\ e = Ended(e.assoc, e.id)
BY RuntimeAssumption DEF RuntimeEvent, Ended, ConnEvent

LEMMA EndedEvent ==
  ASSUME NEW a \in Assoc, NEW id \in 1 .. MaxConn
  PROVE  /\ Ended(a, id) \in RuntimeEvent /\ Ended(a, id).kind = "closed"
         /\ Ended(a, id).assoc = a /\ Ended(a, id).id = id
BY DEF RuntimeEvent, Ended, ConnEvent

LEMMA QueueTail ==
  ASSUME QueueTypeOK, commands # <<>>, commands' = Tail(commands), owner = "running", owner' = owner
  PROVE  /\ QueueTypeOK' /\ Head(commands) \in RuntimeCommand
         /\ Range(commands) = Range(commands') \cup {Head(commands)}
<1>1. commands \in Seq(RuntimeCommand)
  BY DEF QueueTypeOK
<1>2. Len(Tail(commands)) = Len(commands) - 1 /\ Len(commands) \in Nat
  BY <1>1, HeadTailProperties, LenProperties
<1> QED
  BY <1>1, <1>2, RangeTail, RuntimeAssumption DEF QueueTypeOK

LEMMA QueueAppend ==
  ASSUME QueueTypeOK, Queueable, NEW c \in RuntimeCommand, commands' = Append(commands, c),
         owner' = owner
  PROVE  QueueTypeOK' /\ Range(commands') = Range(commands) \cup {c}
<1>1. commands \in Seq(RuntimeCommand) /\ Len(commands) \in Nat
  BY LenProperties DEF QueueTypeOK
<1> QED
  BY <1>1, RangeAppend, RuntimeAssumption DEF QueueTypeOK, Queueable

LEMMA QueueDropped ==
  ASSUME commands' = <<>>, owner' = "ended" PROVE QueueTypeOK' /\ Range(commands') = {}
BY RangeEmpty, RuntimeAssumption DEF QueueTypeOK

-----------------------------------------------------------------------------
(***************************************************************************)
(* The queue and the lookups.                                              *)
(***************************************************************************)
lookupVars == <<lookups, batch, authTask, cache, row, asked, verdict>>
AuthPart == QueueTypeOK /\ AuthTypeOK /\ AuthInv

LEMMA AuthUntouched ==
  ASSUME AuthPart, UNCHANGED <<commands, owner, lookupVars>> PROVE AuthPart'
<1> USE DEF lookupVars
<1>1. QueueTypeOK' /\ AuthTypeOK'
  BY DEF AuthPart, QueueTypeOK, AuthTypeOK
<1>2. AuthInv'
  BY DEF AuthPart, AuthInv, OwnAnswer, NoForeignCredential
<1> QED
  BY <1>1, <1>2 DEF AuthPart

\* Other commands come or go.
LEMMA AuthQueueMoves ==
  ASSUME AuthPart, UNCHANGED lookupVars, QueueTypeOK',
         \A c \in Range(commands') : c \in Range(commands) \/ c.kind # "auth"
  PROVE  AuthPart'
<1> USE DEF lookupVars
<1>1. AuthTypeOK'
  BY DEF AuthPart, AuthTypeOK
<1>2. AuthInv'
  BY DEF AuthPart, AuthInv, OwnAnswer, NoForeignCredential
<1> QED
  BY <1>1, <1>2 DEF AuthPart

\* A lookup that the stack waits for or has given up keeps its device.
LEMMA AuthVerdictMoves ==
  ASSUME AuthPart, NEW l \in Lookup, verdict[l] # None, QueueTypeOK',
         Range(commands') \subseteq Range(commands),
         UNCHANGED <<lookups, batch, authTask, cache, row, asked>>,
         NEW v \in {"expired"} \cup Result, verdict' = [verdict EXCEPT ![l] = v],
         v \in {"Bypass", "Credential"} => v = auth_result(row[asked[l]])
  PROVE  AuthPart'
<1>1. verdict' \in [Lookup -> {None, "pending", "expired"} \cup Result]
  BY DEF AuthPart, AuthTypeOK
<1>2. /\ verdict'[l] = v /\ \A k \in Lookup \ {l} : verdict'[k] = verdict[k]
  BY DEF AuthPart, AuthTypeOK
<1>3. v # None
  BY DEF None, Result
<1>4. \A k \in Lookup : verdict[k] # None => verdict'[k] # None
  BY <1>2, <1>3
<1>5. ASSUME NEW k \in Lookup, verdict'[k] # None PROVE verdict[k] # None
  BY <1>2, <1>5
<1>6. Range(lookups) \cup Range(batch) \subseteq Lookup
  BY InRange DEF AuthPart, AuthTypeOK
<1>7. \A c \in Range(commands') : c.kind = "auth" => c.lookup \in Lookup /\ c \in Range(commands)
  <2>1. Range(commands) \subseteq RuntimeCommand
    BY InRange DEF AuthPart, QueueTypeOK
  <2> QED
    BY <2>1, CommandFields
<1>8. AuthTypeOK'
  BY <1>1 DEF AuthPart, AuthTypeOK
<1>9. NoForeignCredential'
  BY <1>2 DEF AuthPart, AuthInv, NoForeignCredential
<1>10. AuthInv'
  BY <1>4, <1>5, <1>6, <1>7, <1>9 DEF AuthPart, AuthInv, OwnAnswer
<1> QED
  BY <1>8, <1>10 DEF AuthPart

LEMMA AuthCommand ==
  ASSUME AuthPart, CommandAuth PROVE AuthPart'
<1> DEFINE c == Head(commands)
<1>1. QueueTypeOK' /\ c \in RuntimeCommand /\ Range(commands) = Range(commands') \cup {c}
  BY QueueTail DEF AuthPart, CommandAuth
<1>2. c.kind = "auth" /\ c.lookup \in Lookup /\ c.result \in Result /\ OwnAnswer(c)
  BY <1>1, CommandFields DEF CommandAuth, AuthPart, AuthInv
<1>3. UNCHANGED <<lookups, batch, authTask, cache, row, asked>>
  BY DEF CommandAuth
<1>4. CASE verdict[c.lookup] = "pending"
  <2>1. verdict' = [verdict EXCEPT ![c.lookup] = c.result]
    BY <1>4 DEF CommandAuth
  <2> HIDE DEF c
  <2> QED
    BY <1>1, <1>2, <1>3, <2>1, AuthVerdictMoves DEF OwnAnswer
<1>5. CASE verdict[c.lookup] # "pending"
  <2>1. verdict' = verdict
    BY <1>5 DEF CommandAuth
  <2> QED
    BY <1>1, <1>3, <2>1, AuthQueueMoves DEF lookupVars
<1> QED
  BY <1>4, <1>5

LEMMA AuthExpires ==
  ASSUME AuthPart, NEW l \in Lookup, LookupExpires(l) PROVE AuthPart'
<1>1. /\ verdict[l] # None /\ UNCHANGED <<commands, owner, lookups, batch, authTask, cache, row, asked>>
      /\ verdict' = [verdict EXCEPT ![l] = "expired"]
  BY DEF LookupExpires, None
<1>2. QueueTypeOK'
  BY <1>1 DEF AuthPart, QueueTypeOK
<1> QED
  BY <1>1, <1>2, AuthVerdictMoves

\* A new lookup: nothing of it is queued yet.
LEMMA AuthAsked ==
  ASSUME AuthPart, NEW l \in Lookup, PollAuth(l) PROVE AuthPart'
<1>1. PICK d \in Device : asked' = [asked EXCEPT ![l] = d]
  BY DEF PollAuth
<1>2. /\ verdict[l] = None /\ verdict' = [verdict EXCEPT ![l] = "pending"]
      /\ UNCHANGED <<row, batch, authTask, cache>>
  BY DEF PollAuth
<1>3. /\ asked' \in [Lookup -> Device \cup {None}] /\ asked'[l] = d
      /\ \A k \in Lookup \ {l} : asked'[k] = asked[k] /\ verdict'[k] = verdict[k]
      /\ verdict'[l] = "pending"
      /\ verdict' \in [Lookup -> {None, "pending", "expired"} \cup Result]
  BY <1>1, <1>2 DEF AuthPart, AuthTypeOK
<1>4. Range(commands') \subseteq Range(commands) /\ QueueTypeOK'
  <2>1. CASE owner' = "ended" /\ commands' = <<>>
    BY <2>1, QueueDropped
  <2>2. CASE UNCHANGED <<owner, commands>>
    BY <2>2 DEF AuthPart, QueueTypeOK
  <2> QED
    BY <2>1, <2>2 DEF PollAuth
<1>5. lookups' \in Seq(Lookup) /\ Range(lookups') \subseteq Range(lookups) \cup {l}
  <2>1. CASE lookups' = Append(lookups, l)
    BY <2>1, RangeAppend DEF AuthPart, AuthTypeOK
  <2>2. CASE lookups' = lookups
    BY <2>2 DEF AuthPart, AuthTypeOK
  <2> QED
    BY <2>1, <2>2 DEF PollAuth
<1>6. AuthTypeOK'
  BY <1>2, <1>3, <1>5 DEF AuthPart, AuthTypeOK
<1>7. "pending" # None /\ "pending" \notin {"Bypass", "Credential"}
  BY DEF None
<1>8. Range(lookups) \cup Range(batch) \subseteq Lookup
  BY InRange DEF AuthPart, AuthTypeOK
<1>9. \A c \in Range(commands') :
        c.kind = "auth" => c.lookup \in Lookup \ {l} /\ c \in Range(commands)
  <2>1. Range(commands) \subseteq RuntimeCommand
    BY InRange DEF AuthPart, QueueTypeOK
  <2> QED
    BY <1>2, <1>4, <2>1, CommandFields DEF AuthPart, AuthInv, OwnAnswer
<1>10. NoForeignCredential'
  BY <1>2, <1>3, <1>7 DEF AuthPart, AuthInv, NoForeignCredential
<1>11. AuthInv'
  <2>1. \A k \in Lookup : verdict'[k] # None => asked'[k] \in Device
    BY <1>3 DEF AuthPart, AuthInv
  <2>2. \A k \in Range(lookups') \cup Range(batch') : verdict'[k] # None
    BY <1>2, <1>3, <1>5, <1>7, <1>8 DEF AuthPart, AuthInv
  <2>3. \A c \in Range(commands') : c.kind = "auth" => OwnAnswer(c)'
    BY <1>2, <1>3, <1>9 DEF AuthPart, AuthInv, OwnAnswer
  <2> QED
    BY <1>10, <2>1, <2>2, <2>3 DEF AuthInv
<1> QED
  BY <1>4, <1>6, <1>11 DEF AuthPart

LEMMA AuthTakesBatch ==
  ASSUME AuthPart, TakeBatch PROVE AuthPart'
<1> DEFINE n == IF Len(lookups) < MaxBatch THEN Len(lookups) ELSE MaxBatch
<1>1. lookups \in Seq(Lookup) /\ Len(lookups) \in Nat /\ MaxBatch \in Nat
  BY LenProperties, RuntimeAssumption DEF AuthPart, AuthTypeOK
<1>2. n \in 0 .. Len(lookups) /\ n <= MaxBatch /\ n + 1 \in 1 .. Len(lookups) + 1
  BY <1>1
<1>3. batch' = SubSeq(lookups, 1, n) /\ lookups' = SubSeq(lookups, n + 1, Len(lookups))
  BY DEF TakeBatch
<1> HIDE DEF n
<1>4. 1 \in 1 .. Len(lookups) + 1 /\ Len(lookups) \in 0 .. Len(lookups)
  BY <1>1
<1>5. batch' \in Seq(Lookup) /\ Range(batch') \subseteq Range(lookups) /\ Len(batch') <= MaxBatch
  BY <1>1, <1>2, <1>3, <1>4, RangeSubSeq
<1>6. lookups' \in Seq(Lookup) /\ Range(lookups') \subseteq Range(lookups)
  BY <1>1, <1>2, <1>3, <1>4, RangeSubSeq
<1>7. UNCHANGED <<commands, owner, row, authTask, cache, asked, verdict>>
  BY DEF TakeBatch
<1>8. QueueTypeOK' /\ AuthTypeOK'
  BY <1>5, <1>6, <1>7 DEF AuthPart, QueueTypeOK, AuthTypeOK
<1>9. AuthInv'
  BY <1>5, <1>6, <1>7 DEF AuthPart, AuthInv, OwnAnswer, NoForeignCredential
<1> QED
  BY <1>8, <1>9 DEF AuthPart

\* The answers to a batch name its lookups, in their order.
LEMMA AnswersQueued ==
  ASSUME AuthPart, NEW results, results \in [DOMAIN batch -> Result], Answer(results), owner' = owner
  PROVE  /\ QueueTypeOK' /\ batch' = <<>> /\ authTask' \in {"running", "ended"}
         /\ Range(commands) \subseteq Range(commands')
         /\ \A c \in Range(commands') : c \in Range(commands) \/ \E i \in DOMAIN batch :
              /\ c.kind = "auth" /\ c.lookup = batch[i] /\ c.result = results[i]
<1> DEFINE n == Len(results)
           room == IF owner # "running" THEN 0 ELSE MaxCommands - Len(commands)
           k == IF n < room THEN n ELSE room
           cmd(i) == [kind |-> "auth", lookup |-> batch[i], result |-> results[i]]
           new == [i \in 1 .. k |-> cmd(i)]
<1>1. /\ batch \in Seq(Lookup) /\ commands \in Seq(RuntimeCommand) /\ Len(commands) \in Nat
      /\ Len(batch) \in Nat /\ DOMAIN batch = 1 .. Len(batch) /\ Len(commands) <= MaxCommands
      /\ MaxCommands \in Nat
  BY LenProperties, RuntimeAssumption DEF AuthPart, AuthTypeOK, QueueTypeOK
<1>2. n = Len(batch)
  BY <1>1
<1>3. k \in 0 .. Len(batch) /\ k <= MaxCommands - Len(commands) /\ k \in Nat
  BY <1>1, <1>2
<1>4. ASSUME NEW i \in 1 .. k PROVE cmd(i) \in RuntimeCommand
  <2>1. i \in 1 .. Len(batch)
    BY <1>1, <1>3
  <2>2. batch[i] \in Lookup /\ results[i] \in Result
    BY <1>1, <2>1
  <2> QED
    BY <2>2 DEF RuntimeCommand, Result
<1>5. /\ commands' = commands \o new /\ authTask' = (IF k < n THEN "ended" ELSE "running")
      /\ batch' = <<>>
  BY DEF Answer
<1> HIDE DEF n, room, k, cmd
<1>6. new \in Seq(RuntimeCommand) /\ Len(new) = k /\ Range(new) = {cmd(i) : i \in 1 .. k}
  <2>1. new \in [1 .. k -> RuntimeCommand]
    BY <1>4
  <2> QED
    BY <1>3, <2>1 DEF Range
<1> HIDE DEF new
<1>7. /\ commands' \in Seq(RuntimeCommand) /\ Len(commands') = Len(commands) + k
      /\ Range(commands') = Range(commands) \cup Range(new)
  BY <1>1, <1>5, <1>6, RangeConcat
<1>8. QueueTypeOK'
  <2>1. CASE owner = "running"
    BY <1>1, <1>3, <1>7, <2>1 DEF QueueTypeOK, AuthPart
  <2>2. CASE owner = "ended"
    <3>1. k = 0 /\ commands = <<>>
      BY <1>1, <1>2, <2>2 DEF k, room, QueueTypeOK, AuthPart
    <3>2. new = <<>>
      BY <1>6, <3>1, EmptySeq
    <3> QED
      BY <1>5, <2>2, <3>1, <3>2, RuntimeAssumption DEF QueueTypeOK, AuthPart
  <2> QED
    BY <2>1, <2>2 DEF QueueTypeOK, AuthPart
<1>9. ASSUME NEW c \in Range(new)
      PROVE  \E i \in DOMAIN batch : c.kind = "auth" /\ c.lookup = batch[i] /\ c.result = results[i]
  <2>1. PICK i \in 1 .. k : c = cmd(i)
    BY <1>6
  <2>2. i \in DOMAIN batch
    BY <1>1, <1>3
  <2> QED
    BY <2>1, <2>2 DEF cmd
<1> QED
  BY <1>5, <1>7, <1>8, <1>9

LEMMA AuthResults ==
  \A r : auth_result(r) \in Result /\ auth_result("absent") = "NotFound"
BY DEF auth_result, Result

\* The answers that are queued are of the lookups' own devices.
LEMMA AuthAnswered ==
  ASSUME AuthPart, NEW results, results \in [DOMAIN batch -> Result], Answer(results),
         \A i \in DOMAIN batch : results[i] \in {"Bypass", "Credential"} =>
           results[i] = auth_result(row[asked[batch[i]]]),
         UNCHANGED <<owner, row, lookups, asked, verdict>>, cache' \subseteq Device
  PROVE  AuthPart'
<1>1. /\ QueueTypeOK' /\ batch' = <<>> /\ authTask' \in {"running", "ended"}
      /\ \A c \in Range(commands') : c \in Range(commands) \/ \E i \in DOMAIN batch :
           /\ c.kind = "auth" /\ c.lookup = batch[i] /\ c.result = results[i]
  BY AnswersQueued
<1>2. AuthTypeOK'
  BY <1>1, RuntimeAssumption DEF AuthPart, AuthTypeOK
<1>3. \A i \in DOMAIN batch : batch[i] \in Range(batch)
  BY DEF Range
<1>4. \A c \in Range(commands') : c.kind = "auth" => OwnAnswer(c)'
  <2>1. SUFFICES ASSUME NEW c \in Range(commands'), c.kind = "auth" PROVE OwnAnswer(c)'
    OBVIOUS
  <2>2. CASE c \in Range(commands)
    BY <2>1, <2>2 DEF AuthPart, AuthInv, OwnAnswer
  <2>3. CASE c \notin Range(commands)
    <3>1. PICK i \in DOMAIN batch : c.lookup = batch[i] /\ c.result = results[i]
      BY <1>1, <2>3
    <3>2. verdict[batch[i]] # None
      BY <1>3 DEF AuthPart, AuthInv
    <3> QED
      BY <3>1, <3>2 DEF OwnAnswer
  <2> QED
    BY <2>2, <2>3
<1>5. Range(batch') = {}
  BY <1>1, RangeEmpty
<1>6. AuthInv'
  BY <1>4, <1>5 DEF AuthPart, AuthInv, NoForeignCredential
<1> QED
  BY <1>1, <1>2, <1>6 DEF AuthPart

LEMMA AuthLoads ==
  ASSUME AuthPart, LoadBatch \/ LoadFails PROVE AuthPart'
<1>1. UNCHANGED <<owner, row, lookups, asked, verdict>>
  BY DEF LoadBatch, LoadFails
<1>2. \A i \in DOMAIN batch : asked[batch[i]] \in Device
  <2>1. \A i \in DOMAIN batch : batch[i] \in Range(batch) /\ batch[i] \in Lookup
    BY InRange DEF Range, AuthPart, AuthTypeOK
  <2> QED
    BY <2>1 DEF AuthPart, AuthInv
<1>3. Missing \subseteq Device /\ cache \subseteq Device
  BY <1>2 DEF Missing, AuthPart, AuthTypeOK
<1>4. CASE LoadBatch
  <2>1. PICK gone : /\ Answer([i \in DOMAIN batch |-> auth_result(Loaded(gone)[i])])
                    /\ cache' = (cache \cup Missing) \ gone
    BY <1>4 DEF LoadBatch
  <2> DEFINE results == [i \in DOMAIN batch |-> auth_result(Loaded(gone)[i])]
  <2>2. results \in [DOMAIN batch -> Result]
    BY AuthResults
  <2>3. \A i \in DOMAIN batch : results[i] \in {"Bypass", "Credential"} =>
          results[i] = auth_result(row[asked[batch[i]]])
    <3>1. \A i \in DOMAIN batch :
            Loaded(gone)[i] \in {"absent", row[asked[batch[i]]]}
      BY DEF Loaded
    <3> QED
      BY <3>1, AuthResults
  <2> HIDE DEF results
  <2> QED
    BY <1>1, <1>3, <2>1, <2>2, <2>3, AuthAnswered DEF results
<1>5. CASE LoadFails
  <2> DEFINE results == [i \in DOMAIN batch |-> "Reject"]
  <2>1. Answer(results) /\ cache' = cache
    BY <1>5 DEF LoadFails
  <2>2. results \in [DOMAIN batch -> Result] /\ \A i \in DOMAIN batch : results[i] = "Reject"
    BY DEF Result
  <2> HIDE DEF results
  <2> QED
    BY <1>1, <1>3, <2>1, <2>2, AuthAnswered
<1> QED
  BY <1>4, <1>5

\* Commands of callers and of the registry.
LEMMA Submitted ==
  ASSUME QueueTypeOK, CallerTypeOK, EventTypeOK, Started, NEW o \in Op, submit(o)
  PROVE  /\ QueueTypeOK' /\ owner' = owner /\ Range(commands) \subseteq Range(commands')
         /\ \A c \in Range(commands') : c \in Range(commands) \/ (c.kind = "send" /\ c.op = o)
         /\ \/ /\ calls' = [calls EXCEPT ![o].at = "waiting"] /\ waiters' = waiters
               /\ owner = "running"
               /\ \E c \in Range(commands') : c.kind = "send" /\ c.op = o
            \/ calls' = [calls EXCEPT ![o].at = "failed"] /\ waiters' = waiters \ {o}
<1>0. owner' = owner
  BY DEF submit
<1>1. CASE Routed(o) /\ Queueable
  <2> DEFINE id == IF calls[o].kind = "dialog" THEN 0 ELSE associationIds[calls[o].assoc]
             c == [kind |-> "send", op |-> o, id |-> id]
  <2>1. commands' = Append(commands, c) /\ calls' = [calls EXCEPT ![o].at = "waiting"]
        /\ waiters' = waiters
    BY <1>1 DEF submit
  <2>2. calls[o].assoc \in Assoc
    BY DEF submit, Started
  <2>3. id \in 0 .. MaxConn
    BY <2>2, RuntimeAssumption DEF EventTypeOK
  <2> HIDE DEF id
  <2>4. c \in RuntimeCommand /\ c.kind = "send" /\ c.op = o
    BY <2>3 DEF RuntimeCommand
  <2> HIDE DEF c
  <2>5. QueueTypeOK' /\ Range(commands') = Range(commands) \cup {c}
    BY <1>0, <1>1, <2>1, <2>4, QueueAppend
  <2> QED
    BY <1>0, <1>1, <2>1, <2>4, <2>5 DEF Queueable
<1>2. CASE ~ (Routed(o) /\ Queueable)
  <2>1. commands' = commands /\ calls' = [calls EXCEPT ![o].at = "failed"]
        /\ waiters' = waiters \ {o}
    BY <1>2 DEF submit
  <2> QED
    BY <1>0, <2>1 DEF QueueTypeOK
<1> QED
  BY <1>1, <1>2

LEMMA TransportClosed ==
  ASSUME QueueTypeOK, EventTypeOK, NEW a \in Assoc, close_transport(a)
  PROVE  /\ QueueTypeOK' /\ owner' = owner /\ Range(commands) \subseteq Range(commands')
         /\ \A c \in Range(commands') : c \in Range(commands) \/ c.kind = "close"
<1>0. owner' = owner
  BY DEF close_transport
<1>1. CASE Queueable
  <2> DEFINE c == [kind |-> "close", assoc |-> a, id |-> associationIds[a]]
  <2>1. commands' = Append(commands, c)
    BY <1>1 DEF close_transport
  <2>2. associationIds[a] \in 1 .. MaxConn
    BY RuntimeAssumption DEF close_transport, EventTypeOK
  <2>3. c \in RuntimeCommand /\ c.kind = "close"
    BY <2>2 DEF RuntimeCommand
  <2> HIDE DEF c
  <2>4. QueueTypeOK' /\ Range(commands') = Range(commands) \cup {c}
    BY <1>0, <1>1, <2>1, <2>3, QueueAppend
  <2> QED
    BY <1>0, <2>3, <2>4
<1>2. CASE ~ Queueable
  <2>1. commands' = commands
    BY <1>2 DEF close_transport
  <2> QED
    BY <1>0, <2>1 DEF QueueTypeOK
<1> QED
  BY <1>1, <1>2

\* The owner thread takes the first command.
LEMMA CommandTaken ==
  ASSUME QueueTypeOK, OwnerStep
  PROVE  /\ QueueTypeOK' /\ owner' = owner /\ owner = "running" /\ commands # <<>>
         /\ Head(commands) \in RuntimeCommand
         /\ Range(commands) = Range(commands') \cup {Head(commands)}
<1>1. owner = "running" /\ owner' = owner /\ commands # <<>> /\ commands' = Tail(commands)
  BY DEF OwnerStep, SendAccepted, SendRefused, CommandClose, CommandAuth
<1> QED
  BY <1>1, QueueTail

LEMMA AuthStepKept ==
  ASSUME AuthPart, CallerTypeOK, EventTypeOK, Started, Next PROVE AuthPart'
<1> USE DEF lookupVars, authVars
<1>1. ASSUME NEW o \in Op, CallerStep(o) PROVE AuthPart'
  <2>1. CASE submit(o)
    <3>1. UNCHANGED lookupVars
      BY <2>1 DEF submit
    <3>2. QueueTypeOK' /\ \A c \in Range(commands') : c \in Range(commands) \/ c.kind = "send"
      BY <2>1, Submitted DEF AuthPart
    <3> QED
      BY <3>1, <3>2, AuthQueueMoves
  <2>2. CASE ~ submit(o)
    <3>1. UNCHANGED <<commands, owner, lookupVars>>
      BY <1>1, <2>2 DEF CallerStep, insert_native_waiter, receive, timeout, remove_native_waiter,
                        abandon, DeadlinePasses
    <3> QED
      BY <3>1, AuthUntouched
  <2> QED
    BY <2>1, <2>2
<1>2. CASE OwnerStep
  <2>1. CASE CommandAuth
    BY <2>1, AuthCommand
  <2>2. CASE SendAccepted \/ SendRefused \/ CommandClose
    <3>1. UNCHANGED lookupVars
      BY <2>2 DEF SendAccepted, SendRefused, CommandClose
    <3>2. QueueTypeOK' /\ Range(commands') \subseteq Range(commands)
      BY <1>2, CommandTaken DEF AuthPart
    <3> QED
      BY <3>1, <3>2, AuthQueueMoves
  <2> QED
    BY <1>2, <2>1, <2>2 DEF OwnerStep
<1>3. CASE PollStep
  <2>1. ASSUME NEW o \in Op, PollResponse(o) \/ PollFault(o)
        PROVE  UNCHANGED <<commands, owner, lookupVars>>
    BY <2>1 DEF PollResponse, PollFault, Reports
  <2>2. ASSUME NEW a \in Assoc, PollRequest(a) \/ PollAccept(a) \/ PollDisconnect(a)
        PROVE  UNCHANGED <<commands, owner, lookupVars>>
    BY <2>2 DEF PollRequest, PollAccept, PollDisconnect, Reports
  <2>3. ASSUME NEW e \in closing, PollClosed(e) PROVE UNCHANGED <<commands, owner, lookupVars>>
    BY <2>3 DEF PollClosed, Reports
  <2> QED
    BY <1>3, <2>1, <2>2, <2>3, AuthUntouched, AuthAsked, AuthExpires DEF PollStep
<1>4. CASE OwnerEnds
  <2>1. UNCHANGED lookupVars /\ commands' = <<>> /\ owner' = "ended"
    BY <1>4 DEF OwnerEnds
  <2> QED
    BY <2>1, QueueDropped, AuthQueueMoves
<1>5. CASE EventStep \/ cleanup_expired \/ Cancel
  <2>1. UNCHANGED <<commands, owner, lookupVars>>
    BY <1>5 DEF EventStep, TakeEvent, HandleEvent, cleanup_expired, Cancel
  <2> QED
    BY <2>1, AuthUntouched
<1>6. CASE AuthStep
  BY <1>6, AuthTakesBatch, AuthLoads DEF AuthStep
<1>7. ASSUME NEW a \in Assoc, close_transport(a) PROVE AuthPart'
  <2>1. UNCHANGED lookupVars
    BY <1>7 DEF close_transport
  <2>2. QueueTypeOK' /\ \A c \in Range(commands') : c \in Range(commands) \/ c.kind = "close"
    BY <1>7, TransportClosed DEF AuthPart
  <2> QED
    BY <2>1, <2>2, AuthQueueMoves
<1>8. ASSUME NEW d \in Device, EntryEnds(d) PROVE AuthPart'
  <2>1. /\ UNCHANGED <<commands, owner, lookups, batch, authTask, row, asked, verdict>>
        /\ cache' \subseteq cache
    BY <1>8 DEF EntryEnds
  <2>2. QueueTypeOK' /\ AuthTypeOK'
    BY <2>1 DEF AuthPart, QueueTypeOK, AuthTypeOK
  <2> QED
    BY <2>1, <2>2 DEF AuthPart, AuthInv, OwnAnswer, NoForeignCredential
<1>9. CASE fail_all_native
  <2>1. /\ UNCHANGED <<commands, owner, lookups, cache, row, asked, verdict>>
        /\ batch' = <<>> /\ authTask' = "ended"
    BY <1>9 DEF fail_all_native
  <2>2. QueueTypeOK' /\ AuthTypeOK' /\ Range(batch') = {}
    BY <2>1, RangeEmpty, RuntimeAssumption DEF AuthPart, QueueTypeOK, AuthTypeOK
  <2> QED
    BY <2>1, <2>2 DEF AuthPart, AuthInv, OwnAnswer, NoForeignCredential
<1> QED
  BY <1>1, <1>2, <1>3, <1>4, <1>5, <1>6, <1>7, <1>8, <1>9 DEF Next

-----------------------------------------------------------------------------
(***************************************************************************)
(* Connections.                                                            *)
(***************************************************************************)
connVars == <<associationIds, events, closing, transport, connections>>
ConnPart == EventTypeOK /\ ConnectionInv

LEMMA ConnUntouched ==
  ASSUME ConnPart, UNCHANGED connVars, handling' = handling \/ handling' = <<>> PROVE ConnPart'
<1> USE DEF connVars
<1>1. EventTypeOK'
  <2>1. <<>> \in Seq(RuntimeEvent) /\ Len(<<>>) = 0
    OBVIOUS
  <2>2. handling' \in Seq(RuntimeEvent) /\ Len(handling') <= 1
    <3>1. CASE handling' = handling
      BY <3>1 DEF ConnPart, EventTypeOK
    <3>2. CASE handling' = <<>>
      BY <2>1, <3>2
    <3> QED
      BY <3>1, <3>2
  <2> QED
    BY <2>2 DEF ConnPart, EventTypeOK
<1>2. ReportsInOrder' /\ ClosedAreGone' /\ IdsKnown'
  BY DEF ConnPart, ConnectionInv, ReportsInOrder, ClosedAreGone, IdsKnown
<1> QED
  BY <1>1, <1>2 DEF ConnPart, ConnectionInv

\* A connection's end is noted before anything else can use its place.
LEMMA ConnEnds ==
  ASSUME ConnPart, NEW a \in Assoc, transport[a] # 0, ConnectionEnds(a),
         UNCHANGED <<associationIds, events, handling, connections>>
  PROVE  ConnPart'
<1> DEFINE gone == Ended(a, transport[a])
<1>1. /\ transport' = [transport EXCEPT ![a] = 0] /\ closing' = closing \cup {gone}
      /\ transport[a] \in 1 .. MaxConn
  BY RuntimeAssumption DEF ConnectionEnds, Ended, ConnPart, EventTypeOK
<1>2. /\ gone \in RuntimeEvent /\ gone.kind = "closed" /\ gone.assoc = a /\ gone.id = transport[a]
  BY <1>1, EndedEvent
<1>3. /\ transport'[a] = 0 /\ \A b \in Assoc \ {a} : transport'[b] = transport[b]
      /\ transport' \in [Assoc -> 0 .. MaxConn]
  BY <1>1, RuntimeAssumption DEF ConnPart, EventTypeOK
<1>4. EventTypeOK'
  BY <1>1, <1>2, <1>3 DEF ConnPart, EventTypeOK
<1>e. \A i \in 1 .. Len(events) : events[i].assoc \in Assoc
  BY EventFields DEF ConnPart, EventTypeOK
<1>r. \A e \in Range(events) \cup closing : e \in RuntimeEvent
  BY InRange DEF ConnPart, EventTypeOK
<1>5. ReportsInOrder'
  <2>1. SUFFICES ASSUME NEW i \in 1 .. Len(events), events[i].kind # "closed", events[i].id # 0
                 PROVE  \/ events[i].id = transport'[events[i].assoc]
                        \/ Ended(events[i].assoc, events[i].id) \in closing'
                        \/ \E j \in i + 1 .. Len(events) :
                             events[j] = Ended(events[i].assoc, events[i].id)
    BY DEF ReportsInOrder
  <2>2. CASE events[i].id = transport[events[i].assoc]
    BY <1>1, <1>3, <1>e, <2>2
  <2>3. CASE events[i].id # transport[events[i].assoc]
    BY <1>1, <2>1, <2>3 DEF ConnPart, ConnectionInv, ReportsInOrder
  <2> QED
    BY <2>2, <2>3
<1>6. ClosedAreGone'
  <2> HIDE DEF gone
  <2>1. \A e \in closing' : e.kind = "closed"
    BY <1>1, <1>2 DEF ConnPart, ConnectionInv, ClosedAreGone
  <2>2. ASSUME NEW e \in Range(events) \cup closing, e.kind = "closed"
        PROVE  e.id <= connections /\ e.id # transport'[e.assoc]
    <3>1. e.assoc \in Assoc /\ e.id \in 1 .. MaxConn
      BY <1>r, <2>2, EventFields
    <3>2. e.id <= connections /\ e.id # transport[e.assoc]
      BY <2>2 DEF ConnPart, ConnectionInv, ClosedAreGone
    <3>3. e.id # 0
      BY <3>1
    <3> QED
      BY <1>3, <3>1, <3>2, <3>3
  <2>3. gone.id <= connections /\ gone.id # transport'[gone.assoc]
    BY <1>1, <1>2, <1>3 DEF ConnPart, ConnectionInv, ClosedAreGone
  <2>4. \A b \in Assoc : transport'[b] <= connections
    <3>1. 0 <= connections
      BY RuntimeAssumption DEF ConnPart, EventTypeOK
    <3> QED
      BY <1>3, <3>1 DEF ConnPart, ConnectionInv, ClosedAreGone
  <2> QED
    BY <1>1, <2>1, <2>2, <2>3, <2>4 DEF ClosedAreGone
<1>7. IdsKnown'
  BY <1>1, <1>3 DEF ConnPart, ConnectionInv, IdsKnown
<1> QED
  BY <1>4, <1>5, <1>6, <1>7 DEF ConnPart, ConnectionInv

\* A new connection has a number no report was ever about.
LEMMA ConnAccepts ==
  ASSUME ConnPart, NEW a \in Assoc, PollAccept(a) PROVE ConnPart'
<1>1. /\ transport[a] = 0 /\ connections' = connections + 1 /\ connections < MaxConn
      /\ transport' = [transport EXCEPT ![a] = connections + 1]
      /\ UNCHANGED <<associationIds, events, handling, closing>>
  BY DEF PollAccept, eventVars
<1>2. connections \in 0 .. MaxConn /\ MaxConn \in Nat
  BY RuntimeAssumption DEF ConnPart, EventTypeOK
<1>3. /\ transport'[a] = connections + 1 /\ \A b \in Assoc \ {a} : transport'[b] = transport[b]
      /\ transport' \in [Assoc -> 0 .. MaxConn] /\ connections' \in 0 .. MaxConn
  BY <1>1, <1>2 DEF ConnPart, EventTypeOK
<1>4. EventTypeOK'
  BY <1>1, <1>3 DEF ConnPart, EventTypeOK
<1>e. \A i \in 1 .. Len(events) : events[i].assoc \in Assoc
  BY EventFields DEF ConnPart, EventTypeOK
<1>r. \A e \in Range(events) \cup closing : e \in RuntimeEvent
  BY InRange DEF ConnPart, EventTypeOK
<1>5. ReportsInOrder'
  BY <1>1, <1>3, <1>e DEF ConnPart, ConnectionInv, ReportsInOrder
<1>6. ClosedAreGone'
  <2>1. ASSUME NEW e \in Range(events) \cup closing, e.kind = "closed"
        PROVE  e.id <= connections' /\ e.id # transport'[e.assoc]
    <3>1. e.assoc \in Assoc /\ e.id \in 1 .. MaxConn
      BY <1>r, <2>1, EventFields
    <3>2. e.id <= connections /\ e.id # transport[e.assoc]
      BY <2>1 DEF ConnPart, ConnectionInv, ClosedAreGone
    <3> QED
      BY <1>1, <1>2, <1>3, <3>1, <3>2
  <2>2. \A b \in Assoc : transport'[b] <= connections'
    BY <1>1, <1>2, <1>3 DEF ConnPart, ConnectionInv, ClosedAreGone, EventTypeOK
  <2> QED
    BY <1>1, <2>1, <2>2 DEF ClosedAreGone, ConnPart, ConnectionInv
<1>7. IdsKnown'
  BY <1>1, <1>3 DEF ConnPart, ConnectionInv, IdsKnown
<1> QED
  BY <1>4, <1>5, <1>6, <1>7 DEF ConnPart, ConnectionInv

\* An event goes to the end of the channel.
LEMMA ConnReports ==
  ASSUME ConnPart, NEW e \in RuntimeEvent, Reports(e), UNCHANGED <<transport, connections>>,
         closing' \subseteq closing, \A c \in closing \ closing' : c = e,
         \/ e.kind # "closed" /\ e.id \in {0, transport[e.assoc]}
         \/ e \in closing
  PROVE  ConnPart'
<1>1. events' = Append(events, e) /\ UNCHANGED <<associationIds, handling>>
  BY DEF Reports
<1>2. events \in Seq(RuntimeEvent) /\ Len(events) \in Nat
  BY LenProperties DEF ConnPart, EventTypeOK
<1>3. /\ events' \in Seq(RuntimeEvent) /\ Range(events') = Range(events) \cup {e}
      /\ Len(events') = Len(events) + 1 /\ events'[Len(events) + 1] = e
      /\ \A i \in 1 .. Len(events) : events'[i] = events[i]
  BY <1>1, <1>2, RangeAppend, AppendProperties
<1>4. EventTypeOK'
  BY <1>1, <1>3 DEF ConnPart, EventTypeOK
<1>5. ReportsInOrder'
  <2>1. SUFFICES ASSUME NEW i \in 1 .. Len(events'), events'[i].kind # "closed", events'[i].id # 0
                 PROVE  \/ events'[i].id = transport[events'[i].assoc]
                        \/ Ended(events'[i].assoc, events'[i].id) \in closing'
                        \/ \E j \in i + 1 .. Len(events') :
                             events'[j] = Ended(events'[i].assoc, events'[i].id)
    BY DEF ReportsInOrder
  <2>2. CASE i = Len(events) + 1
    BY <1>3, <2>1, <2>2 DEF ConnPart, ConnectionInv, ClosedAreGone
  <2>3. CASE i # Len(events) + 1
    <3>1. i \in 1 .. Len(events) /\ events'[i] = events[i]
      BY <1>2, <1>3, <2>3
    <3> DEFINE gone == Ended(events[i].assoc, events[i].id)
    <3>2. \/ events[i].id = transport[events[i].assoc]
          \/ gone \in closing
          \/ \E j \in i + 1 .. Len(events) : events[j] = gone
      BY <2>1, <3>1 DEF ConnPart, ConnectionInv, ReportsInOrder
    <3> HIDE DEF gone
    <3>3. gone \in closing => gone \in closing' \/ gone = e
      OBVIOUS
    <3>4. ASSUME gone = e PROVE \E j \in i + 1 .. Len(events') : events'[j] = gone
      <4>1. Len(events) + 1 \in i + 1 .. Len(events')
        BY <1>2, <1>3, <3>1
      <4> QED
        BY <1>3, <3>4, <4>1
    <3>5. ASSUME NEW j \in i + 1 .. Len(events), events[j] = gone
          PROVE  \E k \in i + 1 .. Len(events') : events'[k] = gone
      <4>1. j \in i + 1 .. Len(events') /\ j \in 1 .. Len(events)
        BY <1>2, <1>3, <3>1
      <4> QED
        BY <1>3, <3>5, <4>1
    <3> QED
      BY <3>1, <3>2, <3>3, <3>4, <3>5 DEF gone
  <2> QED
    BY <2>2, <2>3
<1>6. ClosedAreGone'
  BY <1>3 DEF ConnPart, ConnectionInv, ClosedAreGone
<1>7. IdsKnown'
  BY <1>1, <1>3 DEF ConnPart, ConnectionInv, IdsKnown
<1> QED
  BY <1>4, <1>5, <1>6, <1>7 DEF ConnPart, ConnectionInv

LEMMA ConnForgets ==
  ASSUME ConnPart, NEW a \in Assoc, close_transport(a) PROVE ConnPart'
<1>1. /\ associationIds' = [associationIds EXCEPT ![a] = 0]
      /\ UNCHANGED <<events, handling, closing, transport, connections>>
  BY DEF close_transport, stackVars
<1>2. EventTypeOK'
  BY <1>1, RuntimeAssumption DEF ConnPart, EventTypeOK
<1>3. ReportsInOrder' /\ ClosedAreGone'
  BY <1>1 DEF ConnPart, ConnectionInv, ReportsInOrder, ClosedAreGone
<1>4. IdsKnown'
  BY <1>1 DEF ConnPart, ConnectionInv, IdsKnown, EventTypeOK
<1> QED
  BY <1>2, <1>3, <1>4 DEF ConnPart, ConnectionInv

LEMMA ConnTakes ==
  ASSUME ConnPart, TakeEvent PROVE ConnPart'
<1> DEFINE e == Head(events)
<1>1. /\ events # <<>> /\ events' = Tail(events) /\ associationIds' = AfterEvent(e)
      /\ handling' = <<e>> /\ UNCHANGED <<closing, transport, connections>>
  BY DEF TakeEvent, stackVars
<1>2. events \in Seq(RuntimeEvent) /\ Len(events) \in Nat
  BY LenProperties DEF ConnPart, EventTypeOK
<1>3. /\ events' \in Seq(RuntimeEvent) /\ e \in RuntimeEvent
      /\ Range(events) = Range(events') \cup {e}
      /\ Len(events') = Len(events) - 1 /\ Len(events) >= 1 /\ e = events[1]
      /\ \A i \in 1 .. Len(events') : events'[i] = events[i + 1]
  <2>1. /\ Tail(events) \in Seq(RuntimeEvent) /\ e \in RuntimeEvent
        /\ Range(events) = Range(Tail(events)) \cup {e}
    BY <1>1, <1>2, RangeTail
  <2>2. /\ Len(Tail(events)) = Len(events) - 1
        /\ \A i \in 1 .. Len(Tail(events)) : Tail(events)[i] = events[i + 1]
    BY <1>1, <1>2, HeadTailProperties
  <2>3. Len(events) # 0
    BY <1>1, <1>2, EmptySeq
  <2> QED
    BY <1>1, <1>2, <2>1, <2>2, <2>3
<1>f. /\ e.assoc \in Assoc /\ e.id \in 0 .. MaxConn
      /\ e.kind = "closed" => e.id \in 1 .. MaxConn /\ e = Ended(e.assoc, e.id)
  BY <1>3, EventFields
<1>o. e.kind # "closed" /\ e.id # 0 =>
        \/ e.id = transport[e.assoc]
        \/ Ended(e.assoc, e.id) \in Range(events') \cup closing
  <2>1. SUFFICES ASSUME e.kind # "closed", e.id # 0, e.id # transport[e.assoc],
                        Ended(e.assoc, e.id) \notin closing
                 PROVE  Ended(e.assoc, e.id) \in Range(events')
    OBVIOUS
  <2>2. 1 \in 1 .. Len(events)
    BY <1>2, <1>3
  <2>3. PICK j \in 1 + 1 .. Len(events) : events[j] = Ended(events[1].assoc, events[1].id)
    BY <1>3, <2>1, <2>2 DEF ConnPart, ConnectionInv, ReportsInOrder
  <2>4. j - 1 \in 1 .. Len(events') /\ events'[j - 1] = events[j]
    BY <1>2, <1>3, <2>3
  <2> QED
    BY <1>3, <2>3, <2>4, InRange
<1>a. /\ associationIds' \in [Assoc -> 0 .. MaxConn]
      /\ \A a \in Assoc \ {e.assoc} : associationIds'[a] = associationIds[a]
      /\ e.kind = "closed" =>
           associationIds'[e.assoc] = IF associationIds[e.assoc] = e.id THEN 0
                                      ELSE associationIds[e.assoc]
      /\ e.kind # "closed" =>
           associationIds'[e.assoc] = IF e.id # 0 THEN e.id ELSE associationIds[e.assoc]
  <2> HIDE DEF e
  <2>1. associationIds \in [Assoc -> 0 .. MaxConn] /\ 0 \in 0 .. MaxConn
    BY RuntimeAssumption DEF ConnPart, EventTypeOK
  <2> QED
    BY <1>1, <1>f, <2>1 DEF AfterEvent
<1> HIDE DEF e
<1>4. EventTypeOK'
  <2>1. handling' \in Seq(RuntimeEvent) /\ Len(handling') = 1
    BY <1>1, <1>3
  <2> QED
    BY <1>1, <1>3, <1>a, <2>1 DEF ConnPart, EventTypeOK
<1>5. ReportsInOrder'
  <2>1. SUFFICES ASSUME NEW i \in 1 .. Len(events'), events'[i].kind # "closed", events'[i].id # 0,
                        events'[i].id # transport[events'[i].assoc],
                        Ended(events'[i].assoc, events'[i].id) \notin closing
                 PROVE  \E j \in i + 1 .. Len(events') :
                             events'[j] = Ended(events'[i].assoc, events'[i].id)
    BY <1>1 DEF ReportsInOrder
  <2>2. i + 1 \in 1 .. Len(events) /\ events'[i] = events[i + 1]
    BY <1>2, <1>3
  <2>3. PICK j \in i + 1 + 1 .. Len(events) :
          events[j] = Ended(events[i + 1].assoc, events[i + 1].id)
    BY <2>1, <2>2 DEF ConnPart, ConnectionInv, ReportsInOrder
  <2>4. j - 1 \in i + 1 .. Len(events') /\ events'[j - 1] = events[j]
    BY <1>2, <1>3, <2>3
  <2> QED
    BY <2>2, <2>3, <2>4
<1>6. ClosedAreGone'
  BY <1>1, <1>3 DEF ConnPart, ConnectionInv, ClosedAreGone
<1>7. IdsKnown'
  <2>1. SUFFICES ASSUME NEW a \in Assoc, associationIds'[a] \notin {0, transport[a]}
                 PROVE  Ended(a, associationIds'[a]) \in Range(events') \cup closing
    BY <1>1 DEF IdsKnown
  <2>2. ASSUME associationIds'[a] = associationIds[a], Ended(a, associationIds[a]) # e
        PROVE  Ended(a, associationIds'[a]) \in Range(events') \cup closing
    BY <1>3, <2>1, <2>2 DEF ConnPart, ConnectionInv, IdsKnown
  <2>3. \A id : /\ Ended(a, id).kind = "closed" /\ Ended(a, id).assoc = a
                /\ Ended(a, id).id = id
    BY DEF Ended, ConnEvent
  <2>4. CASE a # e.assoc
    BY <1>a, <2>2, <2>3, <2>4
  <2>5. CASE a = e.assoc /\ e.kind = "closed"
    BY <1>a, <2>1, <2>2, <2>3, <2>5
  <2>6. CASE a = e.assoc /\ e.kind # "closed" /\ e.id # 0
    BY <1>a, <1>o, <2>1, <2>6
  <2>7. CASE a = e.assoc /\ e.kind # "closed" /\ e.id = 0
    BY <1>a, <2>2, <2>3, <2>7
  <2> QED
    BY <2>4, <2>5, <2>6, <2>7
<1> QED
  BY <1>4, <1>5, <1>6, <1>7 DEF ConnPart, ConnectionInv

LEMMA ConnStepKept ==
  ASSUME ConnPart, QueueTypeOK, CallerTypeOK, Started, Next PROVE ConnPart'
<1> USE DEF connVars, eventVars, stackVars
<1>1. ASSUME NEW o \in Op, CallerStep(o) PROVE ConnPart'
  <2>1. UNCHANGED connVars /\ handling' = handling
    BY <1>1 DEF CallerStep, insert_native_waiter, submit, receive, timeout, remove_native_waiter,
                abandon, DeadlinePasses
  <2> QED
    BY <2>1, ConnUntouched
<1>2. CASE OwnerStep
  <2>1. CASE SendAccepted \/ SendRefused \/ CommandAuth
    <3>1. UNCHANGED connVars /\ handling' = handling
      BY <2>1 DEF SendAccepted, SendRefused, CommandAuth
    <3> QED
      BY <3>1, ConnUntouched
  <2>2. CASE CommandClose
    <3> DEFINE c == Head(commands)
    <3>1. c.assoc \in Assoc /\ c.id \in 1 .. MaxConn
      BY <1>2, <2>2, CommandTaken, CommandFields DEF CommandClose
    <3>2. CASE transport[c.assoc] = c.id
      <4>1. ConnectionEnds(c.assoc) /\ UNCHANGED <<associationIds, events, handling, connections>>
        BY <2>2, <3>2 DEF CommandClose
      <4>2. transport[c.assoc] # 0
        BY <3>1, <3>2
      <4> HIDE DEF c
      <4> QED
        BY <3>1, <4>1, <4>2, ConnEnds
    <3>3. CASE transport[c.assoc] # c.id
      <4>1. UNCHANGED connVars /\ handling' = handling
        BY <2>2, <3>3 DEF CommandClose
      <4> QED
        BY <4>1, ConnUntouched
    <3> QED
      BY <3>2, <3>3
  <2> QED
    BY <1>2, <2>1, <2>2 DEF OwnerStep
<1>3. CASE PollStep
  <2>1. ASSUME NEW o \in Op, PollResponse(o) PROVE ConnPart'
    <3> DEFINE a == calls[o].assoc
    <3>1. PICK s \in Statuses : Reports(OpEvent("response", o, s, a, transport[a]))
      BY <2>1 DEF PollResponse, Statuses
    <3>2. a \in Assoc /\ UNCHANGED <<transport, connections, closing>>
      BY <2>1 DEF PollResponse, Started
    <3>3. transport[a] \in 0 .. MaxConn
      BY <3>2 DEF ConnPart, EventTypeOK
    <3> HIDE DEF a
    <3> DEFINE e == OpEvent("response", o, s, a, transport[a])
    <3>4. e \in RuntimeEvent /\ e.kind # "closed" /\ e.id = transport[e.assoc]
      BY <3>2, <3>3 DEF OpEvent, RuntimeEvent
    <3> HIDE DEF e
    <3> QED
      BY <3>1, <3>2, <3>4, ConnReports DEF e
  <2>2. ASSUME NEW o \in Op, PollFault(o) PROVE ConnPart'
    <3> DEFINE a == calls[o].assoc
               e == OpEvent("fault", o, "unavailable", a, 0)
    <3>1. a \in Assoc /\ UNCHANGED <<transport, connections, closing>> /\ Reports(e)
      BY <2>2 DEF PollFault, Started
    <3> HIDE DEF a
    <3>2. e \in RuntimeEvent /\ e.kind # "closed" /\ e.id = 0
      BY <3>1, RuntimeAssumption DEF OpEvent, RuntimeEvent, Statuses
    <3> HIDE DEF e
    <3> QED
      BY <3>1, <3>2, ConnReports
  <2>3. ASSUME NEW a \in Assoc, PollRequest(a) PROVE ConnPart'
    <3> DEFINE e == ConnEvent("request", a, transport[a])
    <3>1. Reports(e) /\ UNCHANGED <<transport, connections, closing>> /\ transport[a] # 0
      BY <2>3 DEF PollRequest
    <3>2. transport[a] \in 1 .. MaxConn
      BY <3>1, RuntimeAssumption DEF ConnPart, EventTypeOK
    <3>3. e \in RuntimeEvent /\ e.kind # "closed" /\ e.id = transport[e.assoc]
      BY <3>2 DEF ConnEvent, RuntimeEvent
    <3> HIDE DEF e
    <3> QED
      BY <3>1, <3>3, ConnReports
  <2>4. ASSUME NEW a \in Assoc, PollDisconnect(a) PROVE ConnPart'
    BY <2>4, ConnEnds DEF PollDisconnect
  <2>5. ASSUME NEW e \in closing, PollClosed(e) PROVE ConnPart'
    <3>1. /\ Reports(e) /\ closing' = closing \ {e} /\ UNCHANGED <<transport, connections>>
          /\ e \in RuntimeEvent
      BY <2>5 DEF PollClosed, ConnPart, EventTypeOK
    <3> QED
      BY <3>1, ConnReports
  <2>6. ASSUME NEW l \in Lookup, PollAuth(l) \/ LookupExpires(l) PROVE ConnPart'
    <3>1. UNCHANGED connVars /\ handling' = handling
      BY <2>6 DEF PollAuth, LookupExpires
    <3> QED
      BY <3>1, ConnUntouched
  <2> QED
    BY <1>3, <2>1, <2>2, <2>3, <2>4, <2>5, <2>6, ConnAccepts DEF PollStep
<1>4. CASE EventStep
  <2>1. CASE HandleEvent
    <3>1. UNCHANGED connVars /\ handling' = <<>>
      BY <2>1 DEF HandleEvent
    <3> QED
      BY <3>1, ConnUntouched
  <2> QED
    BY <1>4, <2>1, ConnTakes DEF EventStep
<1>5. CASE OwnerEnds \/ AuthStep \/ cleanup_expired \/ Cancel \/ fail_all_native
  <2>1. UNCHANGED connVars /\ (handling' = handling \/ handling' = <<>>)
    BY <1>5 DEF OwnerEnds, AuthStep, TakeBatch, LoadBatch, LoadFails, cleanup_expired, Cancel,
                fail_all_native
  <2> QED
    BY <2>1, ConnUntouched
<1>6. ASSUME NEW d \in Device, EntryEnds(d) PROVE ConnPart'
  <2>1. UNCHANGED connVars /\ handling' = handling
    BY <1>6 DEF EntryEnds
  <2> QED
    BY <2>1, ConnUntouched
<1> QED
  BY <1>1, <1>2, <1>3, <1>4, <1>5, <1>6, ConnForgets DEF Next

-----------------------------------------------------------------------------
(***************************************************************************)
(* Callers and their waiters.                                              *)
(***************************************************************************)
LEMMA MapsOfKinds ==
  \A k : WaiterMap(k) \in ResponseMaps(k) /\ WaiterMap(k) \in AllMaps
BY DEF WaiterMap, ResponseMaps, AllMaps

\* An answer is final: its waiter goes, and a caller that listens gets it.
Completes(op, status) ==
  /\ status # "trying" /\ waiters' = waiters \ {op}
  /\ \A o \in Op \ {op} : calls'[o] = calls[o]
  /\ calls'[op].at = calls[op].at /\ calls'[op].assoc = calls[op].assoc
  /\ calls'[op].answer = IF calls[op].at \in {"sending", "waiting"} THEN status
                         ELSE calls[op].answer

LEMMA CompletesOrNot ==
  ASSUME CallerTypeOK, NEW op \in Op, NEW maps, NEW status \in Statuses,
         complete_native(op, maps, status), WaiterMap(calls[op].kind) \in maps
  PROVE  /\ calls' \in [Op -> Caller]
         /\ \/ Completes(op, status)
            \/ UNCHANGED <<waiters, calls>> /\ (op \in waiters => status = "trying")
<1>1. CASE op \in waiters /\ status # "trying"
  <2>1. waiters' = waiters \ {op}
        /\ calls' = IF calls[op].at \in {"sending", "waiting"}
                    THEN [calls EXCEPT ![op].answer = status] ELSE calls
    BY <1>1 DEF complete_native
  <2>2. calls \in [Op -> Caller]
    BY DEF CallerTypeOK
  <2>3. CASE calls[op].at \in {"sending", "waiting"}
    <3>1. calls' = [calls EXCEPT ![op].answer = status]
      BY <2>1, <2>3
    <3>2. calls' \in [Op -> Caller]
      BY <2>2, <3>1 DEF Caller
    <3>3. /\ \A o \in Op \ {op} : calls'[o] = calls[o]
          /\ calls'[op].at = calls[op].at /\ calls'[op].assoc = calls[op].assoc
          /\ calls'[op].answer = status
      BY <2>2, <3>1 DEF Caller
    <3> QED
      BY <1>1, <2>1, <2>3, <3>2, <3>3 DEF Completes
  <2>4. CASE calls[op].at \notin {"sending", "waiting"}
    BY <1>1, <2>1, <2>2, <2>4 DEF Completes
  <2> QED
    BY <2>3, <2>4
<1>2. CASE ~ (op \in waiters /\ status # "trying")
  BY <1>2 DEF complete_native, CallerTypeOK
<1> QED
  BY <1>1, <1>2

LEMMA Refused ==
  ASSUME CallerTypeOK, QueueTypeOK, SendRefused
  PROVE  LET o == Head(commands).op
         IN  /\ o \in Op /\ calls' \in [Op -> Caller]
             /\ \/ Completes(o, "unavailable")
                \/ UNCHANGED <<waiters, calls>> /\ o \notin waiters
<1> DEFINE o == Head(commands).op
<1>1. o \in Op
  BY CommandTaken, CommandFields DEF OwnerStep, SendRefused
<1>2. complete_native(o, ResponseMaps(calls[o].kind), "unavailable")
  BY DEF SendRefused
<1>3. "unavailable" \in Statuses /\ "unavailable" # "trying"
  BY DEF Statuses
<1> HIDE DEF o
<1> QED
  BY <1>1, <1>2, <1>3, MapsOfKinds, CompletesOrNot DEF o

LEMMA Handled ==
  ASSUME CallerTypeOK, EventTypeOK, HandleEvent
  PROVE  LET e == handling[1]
         IN  /\ Range(handling) = {e} /\ e \in RuntimeEvent /\ calls' \in [Op -> Caller]
             /\ \/ /\ e.kind \in {"response", "fault"} /\ e.op \in Op /\ e.status \in Statuses
                   /\ \/ Completes(e.op, e.status)
                      \/ UNCHANGED <<waiters, calls>> /\ (e.op \in waiters => e.status = "trying")
                \/ e.kind \notin {"response", "fault"} /\ UNCHANGED <<waiters, calls>>
<1> DEFINE e == handling[1]
<1>1. handling \in Seq(RuntimeEvent) /\ Len(handling) <= 1 /\ handling # <<>>
  BY DEF EventTypeOK, HandleEvent
<1>2. Len(handling) = 1
  <2>1. \A s \in Seq(RuntimeEvent) : s # <<>> => Len(s) \in Nat \ {0}
    BY EmptySeq
  <2>2. Len(handling) \in Nat \ {0}
    BY <1>1, <2>1
  <2>3. Len(handling) <= 1
    BY DEF EventTypeOK
  <2>4. \A n \in Nat \ {0} : n <= 1 => n = 1
    OBVIOUS
  <2> HIDE DEF e
  <2> QED
    BY <2>2, <2>3, <2>4, Zenon
<1>3. Range(handling) = {e} /\ e \in RuntimeEvent
  BY <1>1, <1>2 DEF Range
<1>4. CASE e.kind = "response"
  <2>1. complete_native(e.op, ResponseMaps(calls[e.op].kind), e.status)
    BY <1>4 DEF HandleEvent
  <2>2. e.op \in Op /\ e.status \in Statuses
    BY <1>3, <1>4, EventFields
  <2> HIDE DEF e
  <2> QED
    BY <1>3, <1>4, <2>1, <2>2, MapsOfKinds, CompletesOrNot DEF e
<1>5. CASE e.kind = "fault"
  <2>1. complete_native(e.op, AllMaps, e.status)
    BY <1>5 DEF HandleEvent
  <2>2. e.op \in Op /\ e.status \in Statuses
    BY <1>3, <1>5, EventFields
  <2> HIDE DEF e
  <2> QED
    BY <1>3, <1>5, <2>1, <2>2, MapsOfKinds, CompletesOrNot DEF e
<1>6. CASE e.kind \notin {"response", "fault"}
  <2>1. UNCHANGED <<waiters, calls>>
    BY <1>6 DEF HandleEvent
  <2> QED
    BY <1>3, <1>6, <2>1 DEF CallerTypeOK
<1> QED
  BY <1>4, <1>5, <1>6

\* stop answers every caller that listens.
LEMMA AllFailed ==
  ASSUME CallerTypeOK, fail_all_native
  PROVE  /\ calls' \in [Op -> Caller]
         /\ \A o \in Op : /\ calls'[o].at = calls[o].at /\ calls'[o].assoc = calls[o].assoc
                          /\ calls'[o].answer \in {calls[o].answer, "unavailable"}
                          /\ o \in waiters /\ calls[o].at \in {"sending", "waiting"} =>
                               calls'[o].answer = "unavailable"
<1>1. ASSUME NEW o \in Op
      PROVE  /\ calls'[o] \in Caller
             /\ calls'[o].at = calls[o].at /\ calls'[o].assoc = calls[o].assoc
             /\ calls'[o].answer \in {calls[o].answer, "unavailable"}
             /\ o \in waiters /\ calls[o].at \in {"sending", "waiting"} =>
                  calls'[o].answer = "unavailable"
  <2>1. calls[o] \in Caller
    BY DEF CallerTypeOK
  <2>2. calls'[o] = IF o \in waiters /\ calls[o].at \in {"sending", "waiting"}
                    THEN [calls[o] EXCEPT !.answer = "unavailable"] ELSE calls[o]
    BY DEF fail_all_native
  <2> DEFINE n == [calls[o] EXCEPT !.answer = "unavailable"]
  <2>3. /\ n \in Caller /\ n.at = calls[o].at /\ n.assoc = calls[o].assoc
        /\ n.answer = "unavailable"
    BY <2>1 DEF Caller, Statuses
  <2> HIDE DEF n
  <2> QED
    BY <2>1, <2>2, <2>3 DEF n
<1>2. calls' = [o \in Op |-> calls'[o]]
  BY DEF fail_all_native
<1> QED
  BY <1>1, <1>2

\* The auth task queues answers to lookups only.
LEMMA AuthQueues ==
  ASSUME AuthPart, AuthStep
  PROVE  /\ Range(commands) \subseteq Range(commands')
         /\ \A c \in Range(commands') : c \in Range(commands) \/ c.kind # "send"
<1>1. CASE TakeBatch
  <2>1. commands' = commands
    BY <1>1 DEF TakeBatch
  <2> QED
    BY <2>1
<1>2. CASE LoadBatch \/ LoadFails
  <2>1. PICK results \in [DOMAIN batch -> Result] : Answer(results) /\ owner' = owner
    <3>1. CASE LoadBatch
      <4>1. PICK gone : /\ Answer([i \in DOMAIN batch |-> auth_result(Loaded(gone)[i])])
                        /\ owner' = owner
        BY <3>1 DEF LoadBatch
      <4>2. [i \in DOMAIN batch |-> auth_result(Loaded(gone)[i])] \in [DOMAIN batch -> Result]
        BY AuthResults
      <4> QED
        BY <4>1, <4>2
    <3>2. CASE LoadFails
      <4>1. Answer([i \in DOMAIN batch |-> "Reject"]) /\ owner' = owner
        BY <3>2 DEF LoadFails
      <4>2. [i \in DOMAIN batch |-> "Reject"] \in [DOMAIN batch -> Result]
        BY DEF Result
      <4> QED
        BY <4>1, <4>2
    <3> QED
      BY <1>2, <3>1, <3>2
  <2>2. /\ Range(commands) \subseteq Range(commands')
        /\ \A c \in Range(commands') : c \in Range(commands) \/ \E i \in DOMAIN batch :
             /\ c.kind = "auth" /\ c.lookup = batch[i] /\ c.result = results[i]
    BY <2>1, AnswersQueued
  <2> QED
    BY <2>2
<1> QED
  BY <1>1, <1>2 DEF AuthStep

-----------------------------------------------------------------------------
(* Types of the callers, and that what is sent is of a caller that started. *)

CallerPart == CallerTypeOK /\ Started

\* No caller goes back, and what is sent is of those who have started.
LEMMA CallersGoOn ==
  ASSUME CallerPart, calls' \in [Op -> Caller], waiters' \subseteq Op, late' \subseteq Op,
         service' \in {"up", "cancelled", "stopped"},
         \A o \in Op : calls[o].at # "idle" =>
           calls'[o].at # "idle" /\ calls'[o].assoc = calls[o].assoc,
         \A o \in Op : calls'[o].at # "idle" => calls[o].at # "idle" \/ calls'[o].assoc \in Assoc,
         \A o \in transactions' : o \in Op /\ calls[o].at # "idle",
         \A c \in Range(commands') : c.kind = "send" => c.op \in Op /\ calls[c.op].at # "idle"
  PROVE  CallerPart'
BY DEF CallerPart, CallerTypeOK, Started

LEMMA SentHaveStarted ==
  ASSUME CallerPart, QueueTypeOK
  PROVE  /\ \A o \in transactions : o \in Op /\ calls[o].at # "idle"
         /\ \A c \in Range(commands) : c.kind = "send" => c.op \in Op /\ calls[c.op].at # "idle"
<1>1. Range(commands) \subseteq RuntimeCommand
  BY InRange DEF QueueTypeOK
<1> QED
  BY <1>1, CommandFields DEF CallerPart, CallerTypeOK, Started

LEMMA CallerSteps ==
  ASSUME CallerPart, QueueTypeOK, EventTypeOK, NEW o \in Op, CallerStep(o) PROVE CallerPart'
<1>t. calls \in [Op -> Caller] /\ waiters \subseteq Op /\ late \subseteq Op
      /\ service \in {"up", "cancelled", "stopped"}
  BY DEF CallerPart, CallerTypeOK
<1>s. service' = service /\ transactions' = transactions
  BY DEF CallerStep, insert_native_waiter, submit, receive, timeout, remove_native_waiter,
         abandon, DeadlinePasses, stackVars
<1>a. ASSUME NEW at \in {"waiting", "expired", "answered", "failed", "abandoned"},
             calls' = [calls EXCEPT ![o].at = at], calls[o].at # "idle"
      PROVE  /\ calls' \in [Op -> Caller]
             /\ \A p \in Op : calls'[p].assoc = calls[p].assoc
             /\ \A p \in Op : calls[p].at = "idle" <=> calls'[p].at = "idle"
  BY <1>a, <1>t DEF Caller
<1>1. CASE insert_native_waiter(o)
  <2>1. PICK k \in Kinds, a \in Assoc :
          calls' = [calls EXCEPT ![o] = [at |-> "sending", kind |-> k, assoc |-> a, answer |-> None]]
    BY <1>1 DEF insert_native_waiter
  <2>2. /\ calls' \in [Op -> Caller] /\ calls'[o].assoc \in Assoc /\ calls[o].at = "idle"
        /\ \A p \in Op \ {o} : calls'[p] = calls[p]
    BY <1>1, <1>t, <2>1 DEF Caller, insert_native_waiter
  <2>3. waiters' \subseteq Op /\ late' = late /\ commands' = commands
    BY <1>1, <1>t DEF insert_native_waiter
  <2> QED
    BY <1>s, <1>t, <2>2, <2>3, SentHaveStarted, CallersGoOn
<1>2. CASE submit(o)
  <2>1. /\ calls' \in [Op -> Caller]
        /\ \A p \in Op : calls'[p].assoc = calls[p].assoc
        /\ \A p \in Op : calls[p].at = "idle" <=> calls'[p].at = "idle"
    BY <1>2, <1>a, Submitted DEF CallerPart, submit
  <2>2. waiters' \subseteq waiters /\ late' = late
    BY <1>2 DEF submit
  <2>3. \A c \in Range(commands') : c \in Range(commands) \/ (c.kind = "send" /\ c.op = o)
    BY <1>2, Submitted DEF CallerPart
  <2>4. calls[o].at # "idle"
    BY <1>2 DEF submit
  <2> QED
    BY <1>s, <1>t, <2>1, <2>2, <2>3, <2>4, SentHaveStarted, CallersGoOn
<1>3. CASE receive(o) \/ timeout(o) \/ remove_native_waiter(o) \/ abandon(o)
  <2>1. /\ \E at \in {"expired", "answered", "failed", "abandoned"} :
             calls' = [calls EXCEPT ![o].at = at]
        /\ calls[o].at # "idle" /\ waiters' \subseteq waiters /\ late' = late /\ commands' = commands
    BY <1>3 DEF receive, timeout, remove_native_waiter, abandon
  <2>2. /\ calls' \in [Op -> Caller]
        /\ \A p \in Op : calls'[p].assoc = calls[p].assoc
        /\ \A p \in Op : calls[p].at = "idle" <=> calls'[p].at = "idle"
    BY <1>a, <2>1
  <2> QED
    BY <1>s, <1>t, <2>1, <2>2, SentHaveStarted, CallersGoOn
<1>4. CASE DeadlinePasses(o)
  <2>1. UNCHANGED <<calls, waiters, commands>> /\ late' \subseteq Op
    BY <1>4, <1>t DEF DeadlinePasses
  <2> QED
    BY <1>s, <1>t, <2>1, SentHaveStarted, CallersGoOn
<1> QED
  BY <1>1, <1>2, <1>3, <1>4 DEF CallerStep

\* The steps of the others: a caller's request is kept.
LEMMA CallersKept ==
  ASSUME CallerPart, QueueTypeOK, calls' \in [Op -> Caller], waiters' \subseteq waiters,
         \A o \in Op : calls'[o].at = calls[o].at /\ calls'[o].assoc = calls[o].assoc,
         late' = late, service' \in {service, "cancelled", "stopped"},
         \A o \in transactions' :
           o \in transactions \/ \E c \in Range(commands) : c.kind = "send" /\ c.op = o,
         \A c \in Range(commands') : c \in Range(commands) \/ c.kind # "send"
  PROVE  CallerPart'
<1>1. calls \in [Op -> Caller] /\ waiters \subseteq Op /\ late \subseteq Op
      /\ service \in {"up", "cancelled", "stopped"}
  BY DEF CallerPart, CallerTypeOK
<1>2. /\ \A o \in transactions : o \in Op /\ calls[o].at # "idle"
      /\ \A c \in Range(commands) : c.kind = "send" => c.op \in Op /\ calls[c.op].at # "idle"
  BY SentHaveStarted
<1>3. \A o \in transactions' : o \in Op /\ calls[o].at # "idle"
  BY <1>2
<1>4. \A c \in Range(commands') : c.kind = "send" => c.op \in Op /\ calls[c.op].at # "idle"
  BY <1>2
<1> QED
  BY <1>1, <1>3, <1>4, CallersGoOn

LEMMA CompletedCaller ==
  ASSUME NEW op \in Op, NEW status, Completes(op, status)
  PROVE  /\ waiters' \subseteq waiters
         /\ \A o \in Op : calls'[o].at = calls[o].at /\ calls'[o].assoc = calls[o].assoc
BY DEF Completes

LEMMA CallerStepKept ==
  ASSUME CallerPart, AuthPart, EventTypeOK, Next PROVE CallerPart'
<1>q. QueueTypeOK /\ CallerTypeOK
  BY DEF AuthPart, CallerPart
<1>t. calls \in [Op -> Caller]
  BY DEF CallerPart, CallerTypeOK
<1> USE DEF callerVars, stackVars
<1>1. ASSUME NEW o \in Op, CallerStep(o) PROVE CallerPart'
  BY <1>1, <1>q, CallerSteps
<1>2. CASE OwnerStep
  <2>q. Range(commands') \subseteq Range(commands) /\ Head(commands) \in Range(commands)
    BY <1>2, <1>q, CommandTaken
  <2>1. CASE SendAccepted
    <3>1. /\ UNCHANGED <<calls, waiters, late, service>> /\ Head(commands).kind = "send"
          /\ transactions' = transactions \cup {Head(commands).op}
      BY <2>1 DEF SendAccepted
    <3> QED
      BY <1>q, <1>t, <2>q, <3>1, CallersKept
  <2>2. CASE SendRefused
    <3>1. UNCHANGED <<late, service, transactions>>
      BY <2>2 DEF SendRefused
    <3>2. /\ calls' \in [Op -> Caller] /\ waiters' \subseteq waiters
          /\ \A o \in Op : calls'[o].at = calls[o].at /\ calls'[o].assoc = calls[o].assoc
      BY <1>q, <2>2, Refused, CompletedCaller
    <3> QED
      BY <1>q, <2>q, <3>1, <3>2, CallersKept
  <2>3. CASE CommandClose \/ CommandAuth
    <3>1. UNCHANGED <<calls, waiters, late, service, transactions>>
      BY <2>3 DEF CommandClose, CommandAuth
    <3> QED
      BY <1>q, <1>t, <2>q, <3>1, CallersKept
  <2> QED
    BY <1>2, <2>1, <2>2, <2>3 DEF OwnerStep
<1>3. CASE PollStep \/ OwnerEnds
  <2>1. UNCHANGED <<calls, waiters, late, service>>
    BY <1>3 DEF PollStep, OwnerEnds, PollResponse, PollFault, PollRequest, PollAccept,
                PollDisconnect, PollClosed, PollAuth, LookupExpires, Reports
  <2>2. transactions' \subseteq transactions
    BY <1>3 DEF PollStep, OwnerEnds, PollResponse, PollFault, PollRequest, PollAccept,
                PollDisconnect, PollClosed, PollAuth, LookupExpires
  <2>3. commands' = commands \/ commands' = <<>>
    BY <1>3 DEF PollStep, OwnerEnds, PollResponse, PollFault, PollRequest, PollAccept,
                PollDisconnect, PollClosed, PollAuth, LookupExpires, Reports
  <2>4. Range(commands') \subseteq Range(commands)
    BY <2>3, RangeEmpty
  <2> QED
    BY <1>q, <1>t, <2>1, <2>2, <2>4, CallersKept
<1>4. CASE EventStep
  <2>1. UNCHANGED <<commands, late, service, transactions>>
    BY <1>4 DEF EventStep, TakeEvent, HandleEvent
  <2>2. CASE TakeEvent
    <3>1. UNCHANGED <<calls, waiters>>
      BY <2>2 DEF TakeEvent
    <3> QED
      BY <1>q, <1>t, <2>1, <3>1, CallersKept
  <2>3. CASE HandleEvent
    <3>1. /\ calls' \in [Op -> Caller] /\ waiters' \subseteq waiters
          /\ \A o \in Op : calls'[o].at = calls[o].at /\ calls'[o].assoc = calls[o].assoc
      BY <1>q, <2>3, Handled, CompletedCaller
    <3> QED
      BY <1>q, <2>1, <3>1, CallersKept
  <2> QED
    BY <1>4, <2>2, <2>3 DEF EventStep
<1>5. CASE AuthStep
  <2>1. UNCHANGED <<calls, waiters, late, service, transactions>>
    BY <1>5 DEF AuthStep, TakeBatch, LoadBatch, LoadFails
  <2>2. \A c \in Range(commands') : c \in Range(commands) \/ c.kind # "send"
    BY <1>5, AuthQueues
  <2> QED
    BY <1>q, <1>t, <2>1, <2>2, CallersKept
<1>6. ASSUME NEW a \in Assoc, close_transport(a) PROVE CallerPart'
  <2>1. UNCHANGED <<calls, waiters, late, service, transactions>>
    BY <1>6 DEF close_transport
  <2>2. \A c \in Range(commands') : c \in Range(commands) \/ c.kind # "send"
    BY <1>6, <1>q, TransportClosed
  <2> QED
    BY <1>q, <1>t, <2>1, <2>2, CallersKept
<1>7. ASSUME NEW d \in Device, EntryEnds(d) PROVE CallerPart'
  <2>1. UNCHANGED <<calls, waiters, late, service, transactions, commands>>
    BY <1>7 DEF EntryEnds
  <2> QED
    BY <1>q, <1>t, <2>1, CallersKept
<1>8. CASE cleanup_expired \/ Cancel
  <2>1. /\ UNCHANGED <<calls, late, transactions, commands>> /\ waiters' \subseteq waiters
        /\ service' \in {service, "cancelled"}
    BY <1>8 DEF cleanup_expired, Cancel
  <2> QED
    BY <1>q, <1>t, <2>1, CallersKept
<1>9. CASE fail_all_native
  <2>1. /\ UNCHANGED <<late, transactions, commands>> /\ waiters' \subseteq waiters
        /\ service' = "stopped"
    BY <1>9 DEF fail_all_native
  <2>2. /\ calls' \in [Op -> Caller]
        /\ \A o \in Op : calls'[o].at = calls[o].at /\ calls'[o].assoc = calls[o].assoc
    BY <1>9, AllFailed DEF CallerPart
  <2> QED
    BY <1>q, <2>1, <2>2, CallersKept
<1> QED
  BY <1>1, <1>2, <1>3, <1>4, <1>5, <1>6, <1>7, <1>8, <1>9 DEF Next

-----------------------------------------------------------------------------
(* Waiters and answers.                                                     *)

HasWaiter(o) ==
  /\ calls[o].at \in {"sending", "waiting"} =>
        o \in waiters \/ calls[o].answer # None \/ o \in late
  /\ calls[o].answer # "trying"
  /\ service = "stopped" /\ calls[o].at = "waiting" => calls[o].answer # None \/ o \in late

Waits(o) == HasWaiter(o) /\ (o \in waiters /\ calls[o].at = "waiting" => Ahead(o))

LEMMA WaiterParts ==
  WaiterInv <=> (service = "stopped" => owner = "ended") /\ \A o \in Op : Waits(o)
BY DEF WaiterInv, CallerHasWaiter, AnswerAhead, Waits, HasWaiter

LEMMA WaiterPartsPrime ==
  ASSUME service' = "stopped" => owner' = "ended", \A o \in Op : Waits(o)'
  PROVE  WaiterInv'
BY DEF WaiterInv, CallerHasWaiter, AnswerAhead, Waits, HasWaiter

\* A caller the step does not touch.
LEMMA WaitsOn ==
  ASSUME NEW o \in Op, Waits(o), calls'[o] = calls[o], o \in waiters' <=> o \in waiters,
         o \in late => o \in late', service' = "stopped" => service = "stopped",
         o \in waiters /\ calls[o].at = "waiting" /\ Ahead(o) => Ahead(o)'
  PROVE  Waits(o)'
<1>1. HasWaiter(o)'
  BY DEF Waits, HasWaiter
<1> QED
  BY <1>1 DEF Waits

LEMMA AheadStays ==
  ASSUME NEW o \in Op, Ahead(o), owner = "ended" => owner' = "ended",
         o \in transactions => o \in transactions',
         \A c \in Range(commands) : c.kind = "send" /\ c.op = o => c \in Range(commands'),
         Range(events) \cup Range(handling) \subseteq Range(events') \cup Range(handling')
  PROVE  Ahead(o)'
BY DEF Ahead

\* A caller that no longer listens.
LEMMA WaitsNoMore ==
  ASSUME NEW o \in Op, Waits(o), calls'[o].at \notin {"sending", "waiting"},
         calls'[o].answer = calls[o].answer
  PROVE  Waits(o)'
BY DEF Waits, HasWaiter

\* A caller that is answered.
LEMMA WaitsAnswered ==
  ASSUME NEW o \in Op, Waits(o), NEW status \in Statuses, Completes(o, status),
         service' = service, late' = late
  PROVE  Waits(o)'
<1>1. /\ calls'[o].at = calls[o].at /\ status # None /\ status # "trying" /\ o \notin waiters'
      /\ calls'[o].answer = IF calls[o].at \in {"sending", "waiting"} THEN status
                            ELSE calls[o].answer
  BY DEF Completes, Statuses, None
<1> QED
  BY <1>1 DEF Waits, HasWaiter

\* Nothing of the callers changes.
LEMMA CallersWait ==
  ASSUME WaiterInv, UNCHANGED <<calls, waiters, late>>,
         service' = "stopped" => service = "stopped", owner = "ended" => owner' = "ended",
         \A o \in Op : Ahead(o) => Ahead(o)'
  PROVE  WaiterInv'
<1>1. ASSUME NEW o \in Op PROVE Waits(o)'
  <2>1. Waits(o)
    BY WaiterParts
  <2> QED
    BY <2>1, WaitsOn
<1>2. service' = "stopped" => owner' = "ended"
  BY DEF WaiterInv
<1> QED
  BY <1>1, <1>2, WaiterPartsPrime

LEMMA WaiterCallerSteps ==
  ASSUME WaiterInv, CallerPart, QueueTypeOK, EventTypeOK, NEW o \in Op, CallerStep(o)
  PROVE  WaiterInv'
<1>t. calls \in [Op -> Caller] /\ calls[o] \in Caller
  BY DEF CallerPart, CallerTypeOK
<1>s. UNCHANGED <<service, transactions, owner, events, handling>>
  BY DEF CallerStep, insert_native_waiter, submit, receive, timeout, remove_native_waiter,
         abandon, DeadlinePasses, stackVars, eventVars
<1>c. Range(commands) \subseteq Range(commands')
  <2>1. CASE submit(o)
    BY <2>1, Submitted DEF CallerPart
  <2>2. CASE ~ submit(o)
    <3>1. commands' = commands
      BY <2>2 DEF CallerStep, insert_native_waiter, receive, timeout, remove_native_waiter,
                  abandon, DeadlinePasses
    <3> QED
      BY <3>1
  <2> QED
    BY <2>1, <2>2
<1>h. \A p \in Op : Ahead(p) => Ahead(p)'
  BY <1>s, <1>c, AheadStays
<1>w. (service = "stopped" => owner = "ended") /\ \A p \in Op : Waits(p)
  BY WaiterParts
<1>l. late \subseteq late'
  BY DEF CallerStep, insert_native_waiter, submit, receive, timeout, remove_native_waiter,
         abandon, DeadlinePasses
<1>a. ASSUME NEW at \in {"waiting", "expired", "answered", "failed", "abandoned"},
             calls' = [calls EXCEPT ![o].at = at]
      PROVE  /\ calls'[o].at = at /\ calls'[o].answer = calls[o].answer
             /\ \A p \in Op \ {o} : calls'[p] = calls[p]
  BY <1>a, <1>t DEF Caller
<1>q. ASSUME \A p \in Op \ {o} : calls'[p] = calls[p],
             \A p \in Op \ {o} : p \in waiters' <=> p \in waiters, Waits(o)'
      PROVE  WaiterInv'
  <2>1. ASSUME NEW p \in Op \ {o} PROVE Waits(p)'
    BY <1>h, <1>l, <1>q, <1>s, <1>w, WaitsOn
  <2> QED
    BY <1>q, <1>s, <1>w, <2>1, WaiterPartsPrime
<1>1. CASE insert_native_waiter(o)
  <2>1. PICK k \in Kinds, a \in Assoc :
          calls' = [calls EXCEPT ![o] = [at |-> "sending", kind |-> k, assoc |-> a, answer |-> None]]
    BY <1>1 DEF insert_native_waiter
  <2>2. /\ calls'[o].at = "sending" /\ calls'[o].answer = None
        /\ \A p \in Op \ {o} : calls'[p] = calls[p]
    BY <1>t, <2>1
  <2>3. waiters' = waiters \cup {o}
    BY <1>1 DEF insert_native_waiter
  <2>4. Waits(o)'
    BY <2>2, <2>3 DEF Waits, HasWaiter, None
  <2> QED
    BY <1>q, <2>2, <2>3, <2>4
<1>2. CASE submit(o)
  <2>0. calls[o].at = "sending" /\ late' = late
    BY <1>2 DEF submit
  <2>1. CASE /\ calls' = [calls EXCEPT ![o].at = "waiting"] /\ waiters' = waiters
             /\ owner = "running"
             /\ \E c \in Range(commands') : c.kind = "send" /\ c.op = o
    <3>1. /\ calls'[o].at = "waiting" /\ calls'[o].answer = calls[o].answer
          /\ \A p \in Op \ {o} : calls'[p] = calls[p]
      BY <1>a, <2>1
    <3>2. Ahead(o)'
      BY <2>1 DEF Ahead
    <3>3. service' # "stopped"
      BY <1>s, <1>w, <2>1
    <3>4. Waits(o)'
      BY <1>w, <2>0, <2>1, <3>1, <3>2, <3>3 DEF Waits, HasWaiter
    <3> QED
      BY <1>q, <2>1, <3>1, <3>4
  <2>2. CASE calls' = [calls EXCEPT ![o].at = "failed"] /\ waiters' = waiters \ {o}
    <3>1. /\ calls'[o].at = "failed" /\ calls'[o].answer = calls[o].answer
          /\ \A p \in Op \ {o} : calls'[p] = calls[p]
      BY <1>a, <2>2
    <3>2. Waits(o)'
      BY <1>w, <3>1, WaitsNoMore
    <3> QED
      BY <1>q, <2>2, <3>1, <3>2
  <2> QED
    BY <1>2, <2>1, <2>2, Submitted DEF CallerPart
<1>3. CASE receive(o) \/ timeout(o) \/ remove_native_waiter(o) \/ abandon(o)
  <2>1. /\ \E at \in {"expired", "answered", "failed", "abandoned"} :
             calls' = [calls EXCEPT ![o].at = at]
        /\ waiters' \in {waiters, waiters \ {o}}
    BY <1>3 DEF receive, timeout, remove_native_waiter, abandon
  <2>2. /\ calls'[o].at \notin {"sending", "waiting"} /\ calls'[o].answer = calls[o].answer
        /\ \A p \in Op \ {o} : calls'[p] = calls[p]
    BY <1>a, <2>1
  <2>3. Waits(o)'
    BY <1>w, <2>2, WaitsNoMore
  <2> QED
    BY <1>q, <2>1, <2>2, <2>3
<1>4. CASE DeadlinePasses(o)
  <2>1. UNCHANGED <<calls, waiters>> /\ o \in late'
    BY <1>4 DEF DeadlinePasses
  <2>2. Waits(o)'
    BY <1>h, <1>s, <1>w, <1>l, <2>1, WaitsOn
  <2> QED
    BY <1>q, <2>1, <2>2
<1> QED
  BY <1>1, <1>2, <1>3, <1>4 DEF CallerStep

\* A completed operation; the others keep what is ahead of them.
LEMMA WaiterCompletes ==
  ASSUME WaiterInv, NEW op \in Op, NEW status \in Statuses, Completes(op, status),
         UNCHANGED <<late, service, owner>>, \A o \in Op \ {op} : Ahead(o) => Ahead(o)'
  PROVE  WaiterInv'
<1>w. (service = "stopped" => owner = "ended") /\ \A o \in Op : Waits(o)
  BY WaiterParts
<1>1. ASSUME NEW o \in Op \ {op} PROVE Waits(o)'
  <2>1. calls'[o] = calls[o] /\ (o \in waiters' <=> o \in waiters)
    BY DEF Completes
  <2> QED
    BY <1>w, <2>1, WaitsOn
<1>2. Waits(op)'
  BY <1>w, WaitsAnswered
<1> QED
  BY <1>w, <1>1, <1>2, WaiterPartsPrime

\* Nothing that was ahead of a caller is lost, but what is about one that does
\* not wait.
LEMMA WaiterOthers ==
  ASSUME WaiterInv, NEW op, op \notin waiters, UNCHANGED <<calls, waiters, late, service, owner>>,
         \A o \in Op \ {op} : Ahead(o) => Ahead(o)'
  PROVE  WaiterInv'
<1>w. (service = "stopped" => owner = "ended") /\ \A o \in Op : Waits(o)
  BY WaiterParts
<1>1. ASSUME NEW o \in Op PROVE Waits(o)'
  BY <1>w, WaitsOn
<1> QED
  BY <1>w, <1>1, WaiterPartsPrime

\* The owner thread takes a command.
LEMMA WaiterOwnerSteps ==
  ASSUME WaiterInv, CallerPart, QueueTypeOK, OwnerStep PROVE WaiterInv'
<1>t. CallerTypeOK
  BY DEF CallerPart
<1>q. /\ owner' = owner /\ Head(commands) \in RuntimeCommand
      /\ Range(commands) = Range(commands') \cup {Head(commands)}
  BY CommandTaken
<1>e. UNCHANGED <<events, handling, service, late>> /\ transactions \subseteq transactions'
  BY DEF OwnerStep, SendAccepted, SendRefused, CommandClose, CommandAuth, eventVars, stackVars,
         callerVars
<1>1. CASE SendAccepted
  <2> DEFINE op == Head(commands).op
  <2>1. op \in transactions' /\ UNCHANGED <<calls, waiters, late>>
    BY <1>1 DEF SendAccepted, callerVars
  <2>2. ASSUME NEW o \in Op, Ahead(o) PROVE Ahead(o)'
    <3>1. CASE o = op
      BY <2>1, <3>1 DEF Ahead
    <3>2. CASE o # op
      BY <1>q, <1>e, <2>2, <3>2, AheadStays
    <3> QED
      BY <3>1, <3>2
  <2> QED
    BY <1>e, <1>q, <2>1, <2>2, CallersWait
<1>2. CASE SendRefused
  <2> DEFINE op == Head(commands).op
  <2>1. ASSUME NEW o \in Op \ {op}, Ahead(o) PROVE Ahead(o)'
    BY <1>q, <1>e, <2>1, AheadStays
  <2>2. CASE op \in Op /\ Completes(op, "unavailable")
    <3>1. "unavailable" \in Statuses
      BY DEF Statuses
    <3> HIDE DEF op
    <3> QED
      BY <1>e, <1>q, <2>1, <2>2, <3>1, WaiterCompletes
  <2>3. CASE UNCHANGED <<waiters, calls>> /\ op \notin waiters
    <3> HIDE DEF op
    <3> QED
      BY <1>e, <1>q, <2>1, <2>3, WaiterOthers
  <2> QED
    BY <1>2, <1>t, <2>2, <2>3, Refused
<1>3. CASE CommandClose \/ CommandAuth
  <2>1. UNCHANGED <<calls, waiters, late>> /\ Head(commands).kind # "send"
    BY <1>3 DEF CommandClose, CommandAuth, callerVars
  <2>2. ASSUME NEW o \in Op, Ahead(o) PROVE Ahead(o)'
    BY <1>q, <1>e, <2>1, <2>2, AheadStays
  <2> QED
    BY <1>e, <1>q, <2>1, <2>2, CallersWait
<1> QED
  BY <1>1, <1>2, <1>3 DEF OwnerStep

\* What the stack reports comes after what it has reported; a request that it
\* no longer works on has a final event.
LEMMA WaiterReports ==
  ASSUME WaiterInv, EventTypeOK, NEW e \in RuntimeEvent, Reports(e),
         \A o \in Op : o \in transactions => o \in transactions' \/
           (e.kind \in {"response", "fault"} /\ e.op = o /\ e.status # "trying")
  PROVE  WaiterInv'
<1>1. /\ UNCHANGED <<calls, waiters, late, commands, owner, service, handling>>
      /\ events' = Append(events, e)
  BY DEF Reports, callerVars
<1>2. Range(events') = Range(events) \cup {e}
  BY <1>1, RangeAppend DEF EventTypeOK
<1>3. ASSUME NEW o \in Op, Ahead(o) PROVE Ahead(o)'
  <2>1. CASE e.kind \in {"response", "fault"} /\ e.op = o /\ e.status # "trying"
    BY <1>2, <2>1 DEF Ahead
  <2>2. CASE ~ (e.kind \in {"response", "fault"} /\ e.op = o /\ e.status # "trying")
    BY <1>1, <1>2, <1>3, <2>2, AheadStays
  <2> QED
    BY <2>1, <2>2
<1> QED
  BY <1>1, <1>3, CallersWait

LEMMA WaiterPolls ==
  ASSUME WaiterInv, CallerPart, EventTypeOK, PollStep PROVE WaiterInv'
<1> USE DEF callerVars, stackVars, eventVars
<1>1. ASSUME NEW o \in Op, PollResponse(o) PROVE WaiterInv'
  <2> DEFINE a == calls[o].assoc
  <2>1. PICK s \in Statuses : /\ Reports(OpEvent("response", o, s, a, transport[a]))
                              /\ transactions' = IF s = "trying" THEN transactions
                                                 ELSE transactions \ {o}
    BY <1>1 DEF PollResponse, Statuses
  <2>2. a \in Assoc
    BY <1>1 DEF PollResponse, CallerPart, Started
  <2>3. transport[a] \in 0 .. MaxConn
    BY <2>2 DEF EventTypeOK
  <2> HIDE DEF a
  <2> DEFINE e == OpEvent("response", o, s, a, transport[a])
  <2>4. e \in RuntimeEvent /\ e.kind = "response" /\ e.op = o /\ e.status = s
    BY <2>2, <2>3 DEF OpEvent, RuntimeEvent
  <2>5. Reports(e)
    BY <2>1
  <2> HIDE DEF e
  <2> QED
    BY <2>1, <2>4, <2>5, WaiterReports
<1>2. ASSUME NEW o \in Op, PollFault(o) PROVE WaiterInv'
  <2> DEFINE a == calls[o].assoc
             e == OpEvent("fault", o, "unavailable", a, 0)
  <2>1. a \in Assoc /\ Reports(e) /\ transactions' = transactions \ {o}
    BY <1>2 DEF PollFault, CallerPart, Started
  <2> HIDE DEF a
  <2>2. e \in RuntimeEvent /\ e.kind = "fault" /\ e.op = o /\ e.status # "trying"
    BY <2>1, RuntimeAssumption DEF OpEvent, RuntimeEvent, Statuses
  <2> HIDE DEF e
  <2> QED
    BY <2>1, <2>2, WaiterReports
<1>3. ASSUME NEW a \in Assoc, PollRequest(a) PROVE WaiterInv'
  <2> DEFINE e == ConnEvent("request", a, transport[a])
  <2>1. Reports(e) /\ UNCHANGED transactions /\ transport[a] # 0
    BY <1>3 DEF PollRequest
  <2>2. transport[a] \in 1 .. MaxConn
    BY <2>1, RuntimeAssumption DEF EventTypeOK
  <2>3. e \in RuntimeEvent
    BY <2>2 DEF ConnEvent, RuntimeEvent
  <2> HIDE DEF e
  <2> QED
    BY <2>1, <2>3, WaiterReports
<1>4. ASSUME NEW e \in closing, PollClosed(e) PROVE WaiterInv'
  <2>1. Reports(e) /\ UNCHANGED transactions /\ e \in RuntimeEvent
    BY <1>4 DEF PollClosed, EventTypeOK
  <2> QED
    BY <2>1, WaiterReports
<1>5. ASSUME NEW a \in Assoc, PollAccept(a) \/ PollDisconnect(a) PROVE WaiterInv'
  <2>1. UNCHANGED <<calls, waiters, late, service, owner, transactions, commands, events, handling>>
    BY <1>5 DEF PollAccept, PollDisconnect
  <2> QED
    BY <2>1, AheadStays, CallersWait
<1>6. ASSUME NEW l \in Lookup, PollAuth(l) \/ LookupExpires(l) PROVE WaiterInv'
  <2>1. /\ UNCHANGED <<calls, waiters, late, service, transactions, events, handling>>
        /\ UNCHANGED <<owner, commands>> \/ owner' = "ended"
    BY <1>6 DEF PollAuth, LookupExpires
  <2>2. ASSUME NEW o \in Op, Ahead(o) PROVE Ahead(o)'
    <3>1. CASE UNCHANGED <<owner, commands>>
      BY <2>1, <2>2, <3>1, AheadStays
    <3>2. CASE owner' = "ended"
      BY <3>2 DEF Ahead
    <3> QED
      BY <2>1, <3>1, <3>2
  <2> QED
    BY <2>1, <2>2, CallersWait
<1> QED
  BY <1>1, <1>2, <1>3, <1>4, <1>5, <1>6 DEF PollStep

LEMMA WaiterEvents ==
  ASSUME WaiterInv, CallerPart, EventTypeOK, EventStep PROVE WaiterInv'
<1>t. CallerTypeOK
  BY DEF CallerPart
<1>1. CASE TakeEvent
  <2>1. /\ UNCHANGED <<calls, waiters, late, service, owner, transactions, commands>>
        /\ handling = <<>> /\ events # <<>> /\ handling' = <<Head(events)>>
        /\ events' = Tail(events)
    BY <1>1 DEF TakeEvent, callerVars, stackVars
  <2>2. Range(events) = Range(events') \cup {Head(events)}
    BY <2>1, RangeTail DEF EventTypeOK
  <2>3. Range(handling) = {} /\ Range(handling') = {Head(events)}
    BY <2>1, RangeEmpty DEF Range
  <2>4. ASSUME NEW o \in Op, Ahead(o) PROVE Ahead(o)'
    BY <2>1, <2>2, <2>3, <2>4, AheadStays
  <2> QED
    BY <2>1, <2>4, CallersWait
<1>2. CASE HandleEvent
  <2> DEFINE e == handling[1]
  <2>1. /\ UNCHANGED <<late, service, owner, transactions, commands, events>> /\ handling' = <<>>
    BY <1>2 DEF HandleEvent, stackVars
  <2>2. Range(handling) = {e}
    BY <1>2, <1>t, Handled
  <2>3. ASSUME NEW o \in Op, Ahead(o),
               ~ (e.kind \in {"response", "fault"} /\ e.op = o /\ e.status # "trying")
        PROVE  Ahead(o)'
    BY <2>1, <2>2, <2>3 DEF Ahead
  <2>4. CASE /\ e.kind \in {"response", "fault"} /\ e.op \in Op /\ e.status \in Statuses
             /\ Completes(e.op, e.status)
    <3> HIDE DEF e
    <3> QED
      BY <2>1, <2>3, <2>4, WaiterCompletes
  <2>5. CASE /\ UNCHANGED <<waiters, calls>>
             /\ e.kind \in {"response", "fault"} => (e.op \in waiters => e.status = "trying")
    <3> HIDE DEF e
    <3>1. CASE e.kind \in {"response", "fault"} /\ e.op \notin waiters
      BY <2>1, <2>3, <2>5, <3>1, WaiterOthers
    <3>2. CASE e.kind \notin {"response", "fault"} \/ e.status = "trying"
      BY <2>1, <2>3, <2>5, <3>2, CallersWait
    <3> QED
      BY <2>5, <3>1, <3>2
  <2> QED
    BY <1>2, <1>t, <2>4, <2>5, Handled
<1> QED
  BY <1>1, <1>2 DEF EventStep

LEMMA WaiterStepKept ==
  ASSUME WaiterInv, CallerPart, AuthPart, EventTypeOK, Next PROVE WaiterInv'
<1>q. QueueTypeOK /\ CallerTypeOK
  BY DEF AuthPart, CallerPart
<1>w. (service = "stopped" => owner = "ended") /\ \A o \in Op : Waits(o)
  BY WaiterParts
<1> USE DEF callerVars, stackVars, eventVars
<1>1. CASE OwnerEnds
  <2>1. UNCHANGED <<calls, waiters, late, service>> /\ owner' = "ended"
    BY <1>1 DEF OwnerEnds
  <2>2. \A o \in Op : Ahead(o)'
    BY <2>1 DEF Ahead
  <2> QED
    BY <2>1, <2>2, CallersWait
<1>2. CASE AuthStep
  <2>1. UNCHANGED <<calls, waiters, late, service, owner, transactions, events, handling>>
    BY <1>2 DEF AuthStep, TakeBatch, LoadBatch, LoadFails
  <2>2. Range(commands) \subseteq Range(commands')
    BY <1>2, AuthQueues
  <2> QED
    BY <2>1, <2>2, AheadStays, CallersWait
<1>3. ASSUME NEW a \in Assoc, close_transport(a) PROVE WaiterInv'
  <2>1. UNCHANGED <<calls, waiters, late, service, owner, transactions, events, handling>>
    BY <1>3 DEF close_transport
  <2>2. Range(commands) \subseteq Range(commands')
    BY <1>3, <1>q, TransportClosed
  <2> QED
    BY <2>1, <2>2, AheadStays, CallersWait
<1>4. ASSUME NEW d \in Device, EntryEnds(d) PROVE WaiterInv'
  <2>1. UNCHANGED <<calls, waiters, late, service, owner, transactions, events, handling, commands>>
    BY <1>4 DEF EntryEnds
  <2> QED
    BY <2>1, AheadStays, CallersWait
<1>5. CASE Cancel
  <2>1. /\ UNCHANGED <<calls, waiters, late, owner, transactions, events, handling, commands>>
        /\ service' # "stopped"
    BY <1>5 DEF Cancel
  <2> QED
    BY <2>1, AheadStays, CallersWait
<1>6. CASE cleanup_expired
  <2>1. /\ UNCHANGED <<calls, late, service, owner, transactions, events, handling, commands>>
        /\ waiters' = waiters \ Collected
    BY <1>6 DEF cleanup_expired
  <2>2. ASSUME NEW o \in Op PROVE Waits(o)'
    <3>1. CASE o \in late
      <4>1. Ahead(o) => Ahead(o)'
        BY <2>1, AheadStays
      <4> QED
        BY <1>w, <2>1, <3>1, <4>1 DEF Waits, HasWaiter
    <3>2. CASE o \notin late
      BY <1>w, <2>1, <3>2, AheadStays, WaitsOn DEF Collected
    <3> QED
      BY <3>1, <3>2
  <2> QED
    BY <1>w, <2>1, <2>2, WaiterPartsPrime
<1>7. CASE fail_all_native
  <2>1. waiters' = {} /\ owner' = "ended" /\ late' = late
    BY <1>7 DEF fail_all_native, Joined
  <2>2. \A o \in Op : /\ calls'[o].at = calls[o].at
                      /\ calls'[o].answer \in {calls[o].answer, "unavailable"}
                      /\ o \in waiters /\ calls[o].at \in {"sending", "waiting"} =>
                           calls'[o].answer = "unavailable"
    BY <1>7, <1>q, AllFailed
  <2>3. "unavailable" # None /\ "unavailable" # "trying"
    BY DEF None
  <2>4. ASSUME NEW o \in Op PROVE Waits(o)'
    BY <1>w, <2>1, <2>2, <2>3 DEF Waits, HasWaiter
  <2> QED
    BY <2>1, <2>4, WaiterPartsPrime
<1> QED
  BY <1>q, <1>1, <1>2, <1>3, <1>4, <1>5, <1>6, <1>7, WaiterCallerSteps, WaiterOwnerSteps,
     WaiterPolls, WaiterEvents DEF Next

-----------------------------------------------------------------------------
(***************************************************************************)
(* The theorems.                                                           *)
(***************************************************************************)
LEMMA InvParts ==
  Inv <=> CallerPart /\ AuthPart /\ ConnPart /\ WaiterInv
BY TypeParts DEF Inv, CallerPart, AuthPart, ConnPart

LEMMA InitInv == Init => Inv
<1> SUFFICES ASSUME Init PROVE Inv
  OBVIOUS
<1>1. Range(commands) = {} /\ Range(events) = {} /\ Range(lookups) = {} /\ Range(batch) = {}
  BY RangeEmpty DEF Init
<1>2. NoCall \in Caller /\ NoCall.at = "idle" /\ NoCall.answer = None
  BY DEF NoCall, Caller, None
<1>3. \A o \in Op : calls[o] = NoCall
  BY DEF Init
<1>4. calls \in [Op -> Caller]
  BY <1>2 DEF Init
<1>5. CallerPart
  BY <1>1, <1>2, <1>3, <1>4 DEF Init, CallerPart, CallerTypeOK, Started
<1>6. QueueTypeOK
  BY RuntimeAssumption DEF Init, QueueTypeOK
<1>7. AuthTypeOK
  BY RuntimeAssumption DEF Init, AuthTypeOK
<1>8. AuthInv
  BY <1>1 DEF Init, AuthInv, NoForeignCredential, None
<1>9. EventTypeOK
  <2>1. <<>> \in Seq(RuntimeEvent) /\ Len(<<>>) = 0
    OBVIOUS
  <2>2. 0 \in 0 .. MaxConn
    BY RuntimeAssumption
  <2> QED
    BY <2>1, <2>2 DEF Init, EventTypeOK
<1>10. ConnectionInv
  <2>1. ReportsInOrder
    BY DEF Init, ReportsInOrder
  <2>2. ClosedAreGone
    BY <1>1 DEF Init, ClosedAreGone
  <2>3. IdsKnown
    BY DEF Init, IdsKnown
  <2> QED
    BY <2>1, <2>2, <2>3 DEF ConnectionInv
<1>11. WaiterInv
  <2>1. \A o \in Op : Waits(o)
    BY <1>2, <1>3 DEF Waits, HasWaiter, None
  <2>2. service # "stopped"
    BY DEF Init
  <2> QED
    BY <2>1, <2>2, WaiterParts
<1> QED
  BY <1>5, <1>6, <1>7, <1>8, <1>9, <1>10, <1>11, InvParts DEF AuthPart, ConnPart

LEMMA StepInv == Inv /\ [Next]_vars => Inv'
<1> SUFFICES ASSUME Inv, [Next]_vars PROVE Inv'
  OBVIOUS
<1>p. CallerPart /\ AuthPart /\ ConnPart /\ WaiterInv
  BY InvParts
<1>t. QueueTypeOK /\ CallerTypeOK /\ EventTypeOK /\ Started
  BY <1>p DEF CallerPart, AuthPart, ConnPart
<1>1. CASE Next
  <2>1. CallerPart'
    BY <1>1, <1>p, <1>t, CallerStepKept
  <2>2. AuthPart'
    BY <1>1, <1>p, <1>t, AuthStepKept
  <2>3. ConnPart'
    BY <1>1, <1>p, <1>t, ConnStepKept
  <2>4. WaiterInv'
    BY <1>1, <1>p, <1>t, WaiterStepKept
  <2>5. TypeOK'
    BY <2>1, <2>2, <2>3, TypeParts DEF TypeOK, CallerPart, AuthPart, ConnPart, CallerTypeOK,
       QueueTypeOK, EventTypeOK, AuthTypeOK, Caller, Result
  <2> QED
    BY <2>1, <2>2, <2>3, <2>4, <2>5 DEF Inv, CallerPart, AuthPart, ConnPart
<1>2. CASE UNCHANGED vars
  <2>1. CallerPart' /\ AuthPart' /\ ConnPart' /\ WaiterInv'
    <3>1. UNCHANGED <<commands, owner, lookupVars>> /\ UNCHANGED connVars /\ handling' = handling
      BY <1>2 DEF vars, lookupVars, connVars
    <3>2. UNCHANGED <<calls, waiters, late, service, owner, transactions, events, handling, commands>>
      BY <1>2 DEF vars
    <3>3. WaiterInv'
      BY <1>p, <3>2, AheadStays, CallersWait
    <3>4. CallerPart'
      BY <1>p, <3>2 DEF CallerPart, CallerTypeOK, Started
    <3> QED
      BY <1>p, <3>1, <3>3, <3>4, AuthUntouched, ConnUntouched
  <2>2. TypeOK'
    BY <1>2 DEF vars, Inv, TypeOK
  <2> QED
    BY <2>1, <2>2 DEF Inv, CallerPart, AuthPart, ConnPart
<1> QED
  BY <1>1, <1>2

\* The inductive invariant holds in every reachable state of the runtime,
\* whatever its limits and its callers.
THEOREM RuntimeInvariant == Spec => []Inv
<1> QED
  BY InitInv, StepInv, PTL DEF Spec

\* Types: the command queue never holds more than its capacity, nothing is left
\* in it once the owner thread has gone (run_owner drops its receiver), and a
\* batch never exceeds AUTH_DB_BATCH_LIMIT.
THEOREM RuntimeTypeCorrect == Spec => []TypeOK
<1>1. Inv => TypeOK
  BY DEF Inv
<1> QED
  BY <1>1, RuntimeInvariant, PTL

\* remember_event_association and forget_event_association: an id that the
\* handle keeps is the open connection's, or the report of its end is still to
\* come, however the events of several connections of one address interleave.
THEOREM IdsCorrect == Spec => []IdsFollowConnections
<1>1. Inv => IdsFollowConnections
  BY DEF Inv, ConnectionInv, IdsKnown, IdsFollowConnections, Ended
<1> QED
  BY <1>1, RuntimeInvariant, PTL

LEMMA OnlyTheRegistryCloses ==
  ASSUME Inv, Next, NEW a \in Assoc, associationIds[a] = transport[a], associationIds'[a] = 0,
         associationIds[a] # 0
  PROVE  close_transport(a)
<1>t. EventTypeOK /\ ClosedAreGone
  BY InvParts DEF ConnPart, Inv, ConnectionInv
<1>1. CASE TakeEvent
  <2> DEFINE e == Head(events)
  <2>1. associationIds' = AfterEvent(e) /\ events # <<>>
    BY <1>1 DEF TakeEvent
  <2>2. e \in RuntimeEvent /\ e \in Range(events)
    BY <1>t, <2>1, RangeTail DEF EventTypeOK
  <2>3. e.assoc \in Assoc /\ (e.kind = "closed" => e.id # transport[e.assoc])
    BY <1>t, <2>2, EventFields DEF ClosedAreGone
  <2> HIDE DEF e
  <2>4. associationIds'[a] # 0
    BY <1>t, <2>1, <2>3 DEF AfterEvent, EventTypeOK
  <2> QED
    BY <2>4
<1>2. ASSUME NEW b \in Assoc, close_transport(b) PROVE close_transport(a)
  <2>1. associationIds' = [associationIds EXCEPT ![b] = 0]
    BY <1>2 DEF close_transport
  <2>2. a = b
    BY <1>t, <2>1 DEF EventTypeOK
  <2> QED
    BY <1>2, <2>2
<1>3. CASE ~ TakeEvent /\ ~ \E b \in Assoc : close_transport(b)
  <2>1. associationIds' = associationIds
    <3>1. ASSUME NEW o \in Op, CallerStep(o) PROVE associationIds' = associationIds
      BY <3>1 DEF CallerStep, insert_native_waiter, submit, receive, timeout,
                  remove_native_waiter, abandon, DeadlinePasses, eventVars
    <3>2. CASE OwnerStep \/ OwnerEnds \/ AuthStep \/ HandleEvent
      BY <3>2 DEF OwnerStep, SendAccepted, SendRefused, CommandClose, CommandAuth, OwnerEnds,
                  AuthStep, TakeBatch, LoadBatch, LoadFails, HandleEvent, eventVars
    <3>3. CASE PollStep
      BY <3>3 DEF PollStep, PollResponse, PollFault, PollRequest, PollAccept, PollDisconnect,
                  PollClosed, PollAuth, LookupExpires, Reports, eventVars
    <3>4. ASSUME NEW d \in Device, EntryEnds(d) PROVE associationIds' = associationIds
      BY <3>4 DEF EntryEnds, eventVars
    <3>5. CASE cleanup_expired \/ Cancel \/ fail_all_native
      BY <3>5 DEF cleanup_expired, Cancel, fail_all_native, eventVars
    <3> QED
      BY <1>3, <3>1, <3>2, <3>3, <3>4, <3>5 DEF Next, EventStep
  <2> QED
    BY <2>1
<1> QED
  BY <1>1, <1>2, <1>3

\* A close that is reported or handled late takes no id away from the
\* connection that has replaced it: only close_transport does.
THEOREM OpenConnectionCorrect == Spec => OpenConnectionKeepsId
<1>1. Inv /\ [Next]_vars =>
        [\A a \in Assoc :
           associationIds[a] = transport[a] /\ associationIds'[a] = 0 /\ associationIds[a] # 0
             => close_transport(a)]_vars
  BY OnlyTheRegistryCloses
<1> QED
  BY <1>1, RuntimeInvariant, PTL DEF Spec, OpenConnectionKeepsId

\* complete_native, cleanup_expired and fail_all_native: no caller is left
\* without both its waiter and its answer before its deadline, and stop()
\* leaves none waiting.
THEOREM CallerWaiterCorrect == Spec => []CallerHasWaiter
<1>1. Inv => CallerHasWaiter
  BY DEF Inv, WaiterInv
<1> QED
  BY <1>1, RuntimeInvariant, PTL

\* A request in flight is in the queue, with the stack, or has its event on the
\* way to run_native_business_events: a waiter never waits for nothing while
\* the owner thread runs.
THEOREM FinalAnswerCorrect == Spec => []FinalAnswerEndsWait
<1>1. Inv => FinalAnswerEndsWait
  <2> SUFFICES ASSUME Inv, NEW o \in Op, o \in waiters, calls[o].at = "waiting"
               PROVE  \/ o \in transactions
                      \/ \E i \in DOMAIN commands : commands[i].kind = "send" /\ commands[i].op = o
                      \/ \E e \in Range(events \o handling) :
                            e.kind \in {"response", "fault"} /\ e.op = o
                      \/ owner = "ended"
    BY DEF FinalAnswerEndsWait
  <2>1. Ahead(o)
    BY DEF Inv, WaiterInv, AnswerAhead
  <2>2. \A c \in Range(commands) : \E i \in DOMAIN commands : commands[i] = c
    BY DEF Range
  <2>3. Range(events \o handling) = Range(events) \cup Range(handling)
    BY RangeConcat DEF Inv, TypeOK
  <2> QED
    BY <2>1, <2>2, <2>3 DEF Ahead
<1> QED
  BY <1>1, RuntimeInvariant, PTL

\* run_auth_batches: the answers of a batch go to the lookups they were loaded
\* for, with duplicates, cached entries, full queues and failed loads; the
\* stack is never told the bypass or the password of another device.
THEOREM CredentialCorrect == Spec => []NoForeignCredential
<1>1. Inv => NoForeignCredential
  BY DEF Inv, AuthInv
<1> QED
  BY <1>1, RuntimeInvariant, PTL
=============================================================================
