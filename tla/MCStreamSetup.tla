--------------------------- MODULE MCStreamSetup ---------------------------
(* An instance of StreamSetup for TLC: two requests of one caller for a      *)
(* channel that another caller has asked for before.                        *)
EXTENDS StreamSetup, TLC

CONSTANT First  \* the request that came before

MCCaller == [r \in Req |-> IF r = First THEN "first" ELSE "later"]

Later == Req \ {First}
LaterSymmetry == Permutations(Later)

\* What the two histories of the first request have in common.
AfterFirst(at) ==
    /\ req = [r \in Req |->
          IF r = First
          THEN [at |-> at, channel |-> CHOOSE c \in Channel : TRUE, mode |-> "Live",
                lock |-> None, stream |-> r, nodes |-> 0, ssrc |-> 1, tries |-> 0]
          ELSE [at |-> "idle", channel |-> None, mode |-> None, lock |-> None,
                stream |-> None, nodes |-> 0, ssrc |-> 0, tries |-> 0]]
    /\ locks = [k \in Key |-> IF k = KeyOf(First) THEN First ELSE None]
    /\ holder = [r \in Req |-> None]
    /\ waiter = [s \in Req |-> None] /\ sequence = 2
    /\ record = [s \in Req |-> None] /\ session = TRUE
    /\ callback = [s \in Req |-> None]
    /\ disturbed = {} /\ hidden = {}

OfFirst(v, none) == [s \in Req |-> IF s = First THEN v ELSE none]

\* No media node took the first request's stream.
RefusedInit ==
    /\ AfterFirst("failed")
    /\ streamMap = [s \in Req |-> NoStream] /\ deviceMap = <<>>
    /\ row = OfFirst(None, None)
    /\ media = OfFirst(None, None) /\ call = OfFirst(None, None)

\* The first request's stream played and its media node has given it up
\* (stream_input_timeout).
ClosingInit ==
    /\ AfterFirst("done")
    /\ streamMap = OfFirst([phase |-> "Closing", tokens |-> {Caller[First]}], NoStream)
    /\ deviceMap = <<First>> /\ row = OfFirst("active", None)
    /\ media = OfFirst("gone", None) /\ call = OfFirst("up", None)

LaterSpec == (RefusedInit \/ ClosingInit) /\ [][Next]_vars

\* Beside a stream that is being closed: live streams of a device that keeps its
\* session, so that the short sequence comes round between set-ups, not in one.
\* Otherwise: the first node answers, the rows are kept, and the device is reset
\* during set-ups of one mode only.
Bound ==
    IF row[First] # None
    THEN session /\ disturbed = {} /\ \A r \in Later : req[r].mode # "Down"
    ELSE /\ \A r \in Later : row[r] # "orphan" /\ req[r].nodes # 1
         /\ session \/ disturbed # {}
         /\ \A r, p \in Later : None \in {req[r].mode, req[p].mode} \/ disturbed = {}
                                    \/ req[r].mode = req[p].mode
=============================================================================
