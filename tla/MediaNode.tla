----------------------------- MODULE MediaNode -----------------------------
(***************************************************************************)
(* The media node: its Register (stream metadata, RTP gateway, play         *)
(* tokens, output sessions and the timers over them), the event channel     *)
(* and its loop, the worker pool that calls the signalling node back, the   *)
(* HTTP play handlers, the MP4 recorder and the loop that starts the media  *)
(* contexts.                                                                *)
(*                                                                          *)
(* A handler of the code without an await is one action.  The signalling    *)
(* node answers stream_input_timeout with CloseAll and stream_idle with     *)
(* CloseMuxer or CloseAll by the user count, and so does the media node     *)
(* when the call fails; the KeepAlive and KeepMuxer answers are never sent. *)
(***************************************************************************)
EXTENDS Naturals, Sequences, FiniteSets, Functions, SequencesExt

CONSTANTS Stream,       \* streams; a stream id and its SSRC are one value
          Conn,         \* HTTP play requests, each made once
          Token,        \* viewers' tokens
          MaxQueue,     \* capacity of the event channel (10000 in the code)
          MaxWorkers,   \* MAX_WORKER_POOL (128)
          MaxProc,      \* capacity of the channel to handle_process (100)
          InWait,       \* in_wait_timeout, in ticks of the input timer
          Kinds,        \* the outputs streams are opened for
          Requests,     \* the outputs viewers ask for
          Devices,      \* the streams whose device sends RTP
          MayRefuse     \* the scheduler may refuse to arm a timer

ASSUME MediaAssumption ==
    /\ MaxQueue \in Nat \ {0} /\ MaxWorkers \in Nat \ {0}
    /\ MaxProc \in Nat \ {0} /\ InWait \in Nat
    /\ IsFiniteSet(Stream) /\ IsFiniteSet(Conn) /\ IsFiniteSet(Token)
    /\ Kinds \subseteq {"HttpFlv", "DashFmp4", "DashMp4", "LocalMp4"}
    /\ Requests \subseteq {"HttpFlv", "DashFmp4", "DashMp4"}
    /\ Devices \subseteq Stream /\ MayRefuse \in BOOLEAN

VARIABLES meta,      \* stream_metadata_map and rtp_gateway_map
          timers,    \* streams with an RtpGateway timer
          sessions,  \* out_session_map's entries with a timer, counted
          tokens,    \* user_token_map
          queue,     \* the event channel
          held,      \* the event taken from it that waits for a permit
          workers,   \* hand_out tasks holding a permit
          unknown,   \* unknown_stream_map: packets observed, up to 3
          conns,     \* the play requests
          recorder,  \* LocalStoreMp4Context
          proc,      \* handle_process: its channel and the stream it waits for
          context,   \* the media context of a stream
          sending,   \* the device still sends RTP
          dropped    \* history: the events that close streams and were lost

vars == <<meta, timers, sessions, tokens, queue, held, workers, unknown,
          conns, recorder, proc, context, sending, dropped>>
registerVars == <<meta, timers, sessions, tokens>>
eventVars == <<queue, held, workers, dropped>>
mediaVars == <<recorder, proc, context>>

None == "none"

-----------------------------------------------------------------------------
(* Outputs and muxers.  The other kinds are unimplemented!() in the code.    *)

Live == {"HttpFlv", "DashFmp4"}
OutputEnum == Live \cup {"DashMp4", "LocalMp4"}

\* A stream is opened for one output, and holds the muxer of that output.
\* unarmed is history: the scheduler refused the stream's input timer.
StreamMetadata == [open: BOOLEAN, kind: OutputEnum, signed: BOOLEAN,
                   missed: Nat, ext: BOOLEAN, layer: BOOLEAN,
                   count: [OutputEnum -> Nat], played: BOOLEAN, unarmed: BOOLEAN]
NoStream == [open |-> FALSE, kind |-> "HttpFlv", signed |-> FALSE, missed |-> 0,
             ext |-> FALSE, layer |-> FALSE,
             count |-> [o \in OutputEnum |-> 0], played |-> FALSE, unarmed |-> FALSE]

get_out_count(m) == m.count["HttpFlv"] + m.count["DashFmp4"] + m.count["DashMp4"]
                    + m.count["LocalMp4"]
\* subtract: the counter stays at 0, and the caller is told what is left.
subtract(n) == IF n = 0 THEN 0 ELSE n - 1
\* Mutant: the value before the subtraction is returned.
subtract_result_Last(n) == n
subtract_result(n) == subtract(n)
\* get_muxer_rx: the muxer of output o, when the stream holds it.
has_muxer(m, o) == m.open /\ m.layer /\ m.kind = o

Session == Stream \X Token \X OutputEnum
EventKind == {"InnerRegister", "Active", "Registered", "InTimeout", "Idle",
              "Unknown", "OnPlay", "OffPlay", "EndRecord"}
\* who is a token or a play request, n a user count or whether a payload type
\* is the one of the SDP.
Event(k, s) == [kind |-> k, s |-> s, who |-> None, out |-> None, n |-> 0]
IsOut(e) == e.kind \notin {"InnerRegister", "Active"}
NoEvent == Event(None, None)

\* try_send: a full channel refuses the event, and the caller only logs it.
full(q) == Len(q) >= MaxQueue
try_send(q, e) == IF full(q) THEN q ELSE Append(q, e)
lost(e) == IF e.kind \in {"InTimeout", "Idle"} THEN {e} ELSE {}
refused(q, e) == IF full(q) THEN lost(e) ELSE {}
\* The events that are on their way to the signalling node.
Pending == Range(queue) \cup Range(workers) \cup {held}

-----------------------------------------------------------------------------
Init == /\ meta = [s \in Stream |-> NoStream]
        /\ timers = {}
        /\ sessions = [x \in Session |-> 0]
        /\ tokens = [x \in Session |-> 0]
        /\ queue = <<>> /\ held = NoEvent /\ workers = <<>>
        /\ unknown = [s \in Stream |-> 0]
        /\ conns = [c \in Conn |-> [pc |-> "idle", of |-> None]]
        /\ recorder = [s \in Stream |-> None]
        /\ proc = [queue |-> <<>>, wait |-> None, config |-> {}, listened |-> {}]
        /\ context = [s \in Stream |-> None]
        /\ sending = [s \in Stream |-> s \in Devices]
        /\ dropped = {}

-----------------------------------------------------------------------------
(* Opening a stream.                                                         *)

\* Mutant: the check is not repeated after a tick that was not the last.
arm_Never(s, m) == timers' = timers \ {s} /\ meta' = [meta EXCEPT ![s] = m]
\* time_schedule.insert of the input timer of s, whose metadata becomes m.  A
\* refusal is logged or ignored, and the stream stays without a timer.
arm(s, m) ==
    \/ timers' = timers \cup {s} /\ meta' = [meta EXCEPT ![s] = m]
    \/ /\ MayRefuse
       /\ timers' = timers \ {s}
       /\ meta' = [meta EXCEPT ![s] = [m EXCEPT !.unarmed = TRUE]]

\* POST listen_media.  A full channel to handle_process is answered with an
\* error after the stream was opened.
listen_media(s, k) ==
    /\ s \notin proc.listened
    /\ arm(s, [NoStream EXCEPT !.open = TRUE, !.kind = k, !.layer = TRUE])
    /\ queue' = IF k = "LocalMp4" THEN try_send(queue, Event("Active", s)) ELSE queue
    /\ proc' = [proc EXCEPT !.listened = @ \cup {s},
                            !.queue = IF Len(@) < MaxProc THEN Append(@, s) ELSE @]
    /\ UNCHANGED <<sessions, tokens, held, workers, dropped, unknown, conns,
                   recorder, context, sending>>

\* POST sdp_media: the SDP of the device's answer.
init_media_ext(s) ==
    /\ meta[s].open
    /\ meta' = [meta EXCEPT ![s].ext = TRUE]
    /\ UNCHANGED <<timers, sessions, tokens, eventVars, unknown, conns,
                   mediaVars, sending>>

\* stream_metadata_map.remove and rtp_gateway_map.remove.  The timers, the
\* sessions and the tokens of the stream stay behind.
remove(s) == meta' = [meta EXCEPT ![s] = NoStream]

-----------------------------------------------------------------------------
(* RTP input.                                                                *)

\* observe_unknown_rtp: three packets over two seconds, at most one event in
\* the cool-down; the clock is free, so a third packet may or may not report.
observe_unknown_rtp(s) ==
    /\ unknown' = [unknown EXCEPT ![s] = IF @ = 3 THEN 3 ELSE @ + 1]
    /\ \/ UNCHANGED queue
       \/ unknown[s] >= 2 /\ queue' = try_send(queue, Event("Unknown", s))

\* forward_packet and refresh_rtp.  The first packet signs the stream in with
\* the payload type it carries, the one of the SDP or another.
forward_packet(s, same) ==
    /\ sending[s]
    /\ \/ /\ ~meta[s].open
          /\ observe_unknown_rtp(s) /\ UNCHANGED meta
       \/ /\ meta[s].open /\ ~meta[s].signed /\ full(queue)
          /\ observe_unknown_rtp(s) /\ UNCHANGED meta
       \/ /\ meta[s].open /\ ~meta[s].signed /\ ~full(queue)
          /\ queue' = Append(queue, [Event("InnerRegister", s) EXCEPT !.n = same])
          /\ meta' = [meta EXCEPT ![s].signed = TRUE, ![s].missed = 0]
          /\ UNCHANGED unknown
       \/ /\ meta[s].open /\ meta[s].signed
          /\ meta' = [meta EXCEPT ![s].missed = 0]
          /\ \/ UNCHANGED <<unknown, queue>>
             \/ observe_unknown_rtp(s)      \* the RTP channel is full
    /\ UNCHANGED <<timers, sessions, tokens, held, workers, dropped, conns,
                   mediaVars, sending>>

\* external: the device stops sending.
DeviceStops(s) ==
    /\ sending[s]
    /\ sending' = [sending EXCEPT ![s] = FALSE]
    /\ UNCHANGED <<registerVars, eventVars, unknown, conns, mediaVars>>

-----------------------------------------------------------------------------
(* Playing.  c is a request of viewer t for output o of stream s.            *)

\* Mutant: a second use of an output overwrites the viewer's count.
AddToken_Overwrites(x) == [tokens EXCEPT ![x] = 1]
AddToken(x) == [tokens EXCEPT ![x] = @ + 1]
\* Mutant: the output is not counted.
Played_Uncounted(m, o) == [m EXCEPT !.played = TRUE]
Played(m, o) == [m EXCEPT !.count[o] = @ + 1, !.played = TRUE]

\* insert_out_token and the rest of the handler.  Only a live output ends in a
\* session; an mpd, and a live output whose muxer is not there, keep the count
\* and the token they took.
Admit(c, x) ==
    LET s == x[1]  o == x[3]
    IN  /\ IF meta[s].open
           THEN /\ meta' = [meta EXCEPT ![s] = Played(@, o)]
                /\ tokens' = AddToken(x)
           ELSE UNCHANGED <<meta, tokens>>
        /\ conns' = [conns EXCEPT ![c] =
                        [pc |-> IF has_muxer(meta[s], o) /\ o \in Live
                                THEN "watching" ELSE "done",
                         of |-> x]]

\* check_token: the viewer has an entry for the stream.
check_token(s, t) == \E o \in OutputEnum : tokens[<<s, t, o>>] > 0

\* flv::handler, dash::chunk and dash::mpd_handler: a viewer the stream knows
\* is admitted, another is asked about.
play(c, s, t, o) ==
    /\ conns[c].pc = "idle" /\ meta[s].open
    /\ IF check_token(s, t)
       THEN Admit(c, <<s, t, o>>)
       ELSE /\ conns' = [conns EXCEPT ![c] = [pc |-> "asking", of |-> <<s, t, o>>]]
            /\ UNCHANGED <<meta, tokens>>
    /\ UNCHANGED <<timers, sessions, eventVars, unknown, mediaVars, sending>>

\* event_tx.send(OnPlay).await: it waits for room in the channel.
ask_on_play(c) ==
    /\ conns[c].pc = "asking" /\ ~full(queue)
    /\ queue' = Append(queue, [Event("OnPlay", conns[c].of[1]) EXCEPT !.who = c])
    /\ conns' = [conns EXCEPT ![c].pc = "sent"]
    /\ UNCHANGED <<registerVars, held, workers, dropped, unknown, mediaVars, sending>>

play_granted(c) ==
    /\ conns[c].pc = "granted"
    /\ Admit(c, conns[c].of)
    /\ UNCHANGED <<timers, sessions, eventVars, unknown, mediaVars, sending>>

\* listen_output_timeout: a session and its timer, when the stream still exists;
\* a session whose timer is refused never expires.
listen_output_timeout(x) ==
    \/ meta[x[1]].open /\ sessions' = [sessions EXCEPT ![x] = @ + 1]
    \/ (~meta[x[1]].open \/ MayRefuse) /\ UNCHANGED sessions

\* dash::init_segment and dash::segment: only a viewer with a token, and a
\* session from the start.
segment(c, s, t) ==
    LET x == <<s, t, "DashMp4">>
    IN  /\ conns[c].pc = "idle" /\ meta[s].open /\ check_token(s, t)
        /\ meta' = [meta EXCEPT ![s] = Played(@, "DashMp4")]
        /\ tokens' = AddToken(x)
        /\ listen_output_timeout(x)
        /\ conns' = [conns EXCEPT ![c] = [pc |-> "done", of |-> x]]
        /\ UNCHANGED <<timers, eventVars, unknown, mediaVars, sending>>

\* The response body is dropped: the client left or the muxer's channel closed.
disconnect(c) ==
    LET x == conns[c].of
    IN  /\ conns[c].pc = "watching"
        /\ conns' = [conns EXCEPT ![c].pc = "done"]
        /\ listen_output_timeout(x)
        /\ UNCHANGED <<meta, timers, tokens, eventVars, unknown, mediaVars, sending>>

\* The client leaves while it waits: the handler's future is dropped.
abandon(c) ==
    /\ conns[c].pc \in {"asking", "sent", "granted"}
    /\ conns' = [conns EXCEPT ![c].pc = "done"]
    /\ UNCHANGED <<registerVars, eventVars, unknown, mediaVars, sending>>

-----------------------------------------------------------------------------
(* The timer branch of the loop.  It is polled first; when its batch is      *)
(* ready while hand_event waits for a permit, the event held is dropped, and *)
(* with an OnPlay the channel its viewer waits on.                           *)

TimerBranch(q, unsent) ==
    /\ queue' = q
    /\ dropped' = dropped \cup unsent \cup lost(held)
    /\ held' = NoEvent
    /\ conns' = IF held.kind = "OnPlay" /\ conns[held.who].pc = "sent"
                THEN [conns EXCEPT ![held.who].pc = "done"] ELSE conns
    /\ UNCHANGED workers

handle_rtp_in_timeout(s) ==
    LET e == Event("InTimeout", s)
    IN  /\ s \in timers
        /\ \/ /\ ~meta[s].open
              /\ timers' = timers \ {s} /\ UNCHANGED meta
              /\ TimerBranch(queue, {})
           \/ /\ meta[s].open /\ meta[s].missed + 1 < InWait
              /\ arm(s, [meta[s] EXCEPT !.missed = @ + 1])
              /\ TimerBranch(queue, {})
           \/ /\ meta[s].open /\ meta[s].missed + 1 >= InWait
              /\ meta' = [meta EXCEPT ![s].missed = @ + 1]
              /\ timers' = timers \ {s}
              /\ TimerBranch(try_send(queue, e), refused(queue, e))
        /\ UNCHANGED <<sessions, tokens, unknown, mediaVars, sending>>

\* clean_play_token: the session of x expires.  OffPlay is sent when it was
\* the viewer's last output of an open stream, StreamIdle when it was the
\* output's last viewer.
clean_play_token(x) ==
    LET s == x[1]  t == x[2]  o == x[3]  m == meta[s]
        after == [tokens EXCEPT ![x] = subtract(@)]
        off == /\ tokens[x] = 1
               /\ \A k \in OutputEnum : after[<<s, t, k>>] = 0
        left == subtract(m.count[o])
        last == m.open /\ subtract_result(m.count[o]) = 0
        offPlay == [Event("OffPlay", s) EXCEPT !.who = t]
        idle == [Event("Idle", s) EXCEPT !.out = o,
                    !.n = get_out_count([m EXCEPT !.count[o] = left])]
        q1 == IF off /\ m.open THEN try_send(queue, offPlay) ELSE queue
        q2 == IF last THEN try_send(q1, idle) ELSE q1
    IN  /\ sessions[x] > 0
        /\ sessions' = [sessions EXCEPT ![x] = @ - 1]
        /\ tokens' = after
        /\ meta' = IF m.open THEN [meta EXCEPT ![s].count[o] = left] ELSE meta
        /\ TimerBranch(q2, IF last THEN refused(q1, idle) ELSE {})
        /\ UNCHANGED <<timers, unknown, mediaVars, sending>>

\* expire_unknown_stream: no packet for the whole window, or the timer again.
expire_unknown_stream(s) ==
    /\ unknown[s] > 0
    /\ unknown' \in {unknown, [unknown EXCEPT ![s] = 0]}
    /\ TimerBranch(queue, {})
    /\ UNCHANGED <<registerVars, mediaVars, sending>>

-----------------------------------------------------------------------------
(* The event branch of the loop, and the workers.                            *)

\* hand_inner: insert_origin_trans and send_stream_config.  A stream without
\* the SDP's payload type is neither registered nor refused.  The config is
\* kept for handle_process when it already subscribed, and otherwise as the
\* message bus (external) decides.
hand_inner(e, rest) ==
    LET s == e.s  m == meta[s]
        answer == [Event("Registered", s) EXCEPT !.n = e.n]
    IN  \/ /\ ~(m.open /\ m.ext)
          /\ queue' = rest /\ UNCHANGED <<meta, proc>>
       \/ /\ m.open /\ m.ext /\ e.n = 1
          /\ queue' = try_send(rest, answer)
          /\ \/ proc' = [proc EXCEPT !.config = @ \cup {s}]
             \/ proc.wait # s /\ UNCHANGED proc
          /\ UNCHANGED meta
       \/ /\ m.open /\ m.ext /\ e.n = 0
          /\ queue' = try_send(rest, answer)
          /\ remove(s) /\ UNCHANGED proc

hand_event ==
    LET e == Head(queue)
    IN  /\ queue # <<>> /\ held = NoEvent
        /\ \/ /\ e.kind = "InnerRegister"
              /\ hand_inner(e, Tail(queue))
              /\ UNCHANGED <<held, workers, recorder>>
           \/ /\ e.kind = "Active"
              /\ queue' = Tail(queue)
              /\ recorder' = [recorder EXCEPT ![e.s] = "spawned"]
              /\ UNCHANGED <<held, workers, meta, proc>>
           \/ /\ IsOut(e)
              /\ queue' = Tail(queue)
              /\ IF Len(workers) < MaxWorkers
                 THEN workers' = Append(workers, e) /\ UNCHANGED held
                 ELSE held' = e /\ UNCHANGED workers
              /\ UNCHANGED <<meta, proc, recorder>>
        /\ UNCHANGED <<timers, sessions, tokens, dropped, unknown, conns,
                       context, sending>>

\* semaphore.acquire_owned() completes.
acquire_owned ==
    /\ held # NoEvent /\ Len(workers) < MaxWorkers
    /\ workers' = Append(workers, held) /\ held' = NoEvent
    /\ UNCHANGED <<registerVars, queue, dropped, unknown, conns, mediaVars, sending>>

\* close_stream_by_output with CloseMuxer: the muxer goes when nobody uses the
\* output, and a stream never gets it back.  The Close published to the
\* context is of a type the context does not subscribe to.
close_muxer(s, o) ==
    meta' = IF meta[s].open /\ meta[s].count[o] = 0 /\ meta[s].kind = o
            THEN [meta EXCEPT ![s].layer = FALSE] ELSE meta

\* on_play: allowed, or refused or failed (a failed call drops the channel).
\* Mutant: a failed call leaves the viewer waiting.
OnPlayResults_Silent == {"granted", "sent"}
OnPlayResults == {"granted", "done"}

\* hand_out: the call to the signalling node returns or fails.
hand_out(i) ==
    LET e == workers[i]
    IN  /\ workers' = RemoveAt(workers, i)
        /\ \/ /\ e.kind = "InTimeout"
              /\ remove(e.s) /\ UNCHANGED conns
           \/ /\ e.kind = "Idle" /\ e.n = 0
              /\ remove(e.s) /\ UNCHANGED conns
           \/ /\ e.kind = "Idle" /\ e.n > 0
              /\ close_muxer(e.s, e.out) /\ UNCHANGED conns
           \/ /\ e.kind = "OnPlay"
              /\ IF conns[e.who].pc = "sent"
                 THEN \E r \in OnPlayResults :
                         conns' = [conns EXCEPT ![e.who].pc = r]
                 ELSE UNCHANGED conns
              /\ UNCHANGED meta
           \/ /\ e.kind \in {"Registered", "Unknown", "OffPlay", "EndRecord"}
              /\ UNCHANGED <<meta, conns>>
        /\ UNCHANGED <<timers, sessions, tokens, queue, held, dropped, unknown,
                       mediaVars, sending>>

-----------------------------------------------------------------------------
(* The MP4 recorder.                                                         *)

\* handle_stream_metadata_map_output(Insert), then run.
store(s) ==
    /\ recorder[s] = "spawned"
    /\ recorder' = [recorder EXCEPT ![s] = "running"]
    /\ meta' = IF meta[s].open THEN [meta EXCEPT ![s].count["LocalMp4"] = @ + 1]
                               ELSE meta
    /\ UNCHANGED <<timers, sessions, tokens, eventVars, unknown, conns, proc,
                   context, sending>>

\* run returns: its sender closed or it lagged, close_output, or an I/O error.
run_ends(s) ==
    /\ recorder[s] = "running"
    /\ recorder' = [recorder EXCEPT ![s] = "ending"]
    /\ UNCHANGED <<registerVars, eventVars, unknown, conns, proc, context, sending>>

\* record_event_tx.send(EndRecord).await, then the count is given back without
\* an idle check: the input timeout is what closes a recording.
end_record(s) ==
    /\ recorder[s] = "ending" /\ ~full(queue)
    /\ queue' = Append(queue, Event("EndRecord", s))
    /\ recorder' = [recorder EXCEPT ![s] = "ended"]
    /\ meta' = IF meta[s].open
               THEN [meta EXCEPT ![s].count["LocalMp4"] = subtract(@)]
               ELSE meta
    /\ UNCHANGED <<timers, sessions, tokens, held, workers, dropped, unknown,
                   conns, proc, context, sending>>

-----------------------------------------------------------------------------
(* handle_process and the media contexts.                                    *)

\* rx.recv and sub_bus_mpsc_channel: a stream closed meanwhile is skipped.
process_next ==
    LET s == Head(proc.queue)
    IN  /\ proc.wait = None /\ proc.queue # <<>>
        /\ proc' = [proc EXCEPT !.queue = Tail(@),
                                !.wait = IF meta[s].open THEN s ELSE None]
        /\ UNCHANGED <<registerVars, eventVars, unknown, conns, recorder,
                       context, sending>>

\* sc_rx.recv returns the config, or an error once the stream is removed.
process_config ==
    LET s == proc.wait
    IN  /\ s # None
        /\ \/ /\ s \in proc.config
              /\ context' = [context EXCEPT ![s] = "muxing"]
           \/ /\ s \notin proc.config /\ ~meta[s].open
              /\ UNCHANGED context
        /\ proc' = [proc EXCEPT !.wait = None, !.config = @ \ {s}]
        /\ UNCHANGED <<registerVars, eventVars, unknown, conns, recorder, sending>>

\* MediaContext::invoke returns: the stream was removed or the demuxer failed.
invoke_ends(s) ==
    /\ context[s] = "muxing"
    /\ context' = [context EXCEPT ![s] = "ended"]
    /\ UNCHANGED <<registerVars, eventVars, unknown, conns, recorder, proc, sending>>

-----------------------------------------------------------------------------
RtpInput == \E s \in Stream : DeviceStops(s) \/ \E same \in 0..1 : forward_packet(s, same)
Opening == \E s \in Stream : init_media_ext(s) \/ \E k \in Kinds : listen_media(s, k)
Playing == \E c \in Conn :
    \/ ask_on_play(c) \/ play_granted(c) \/ disconnect(c) \/ abandon(c)
    \/ \E s \in Stream, t \in Token :
          segment(c, s, t) \/ \E o \in Requests : play(c, s, t, o)
Timing == \/ \E s \in Stream : handle_rtp_in_timeout(s) \/ expire_unknown_stream(s)
          \/ \E x \in Session : clean_play_token(x)
EventLoop == hand_event \/ acquire_owned \/ \E i \in DOMAIN workers : hand_out(i)
Recording == \E s \in Stream : store(s) \/ run_ends(s) \/ end_record(s)
Processing == process_next \/ process_config \/ \E s \in Stream : invoke_ends(s)

Next == RtpInput \/ Opening \/ Playing \/ Timing \/ EventLoop \/ Recording \/ Processing

Spec == Init /\ [][Next]_vars

\* Timers fire, the loop and every task run, a call to the signalling node ends
\* by its own timeout; the oldest worker is the first in the sequence.  The
\* channel serves the senders that wait for room in order: strong fairness.
Fairness ==
    /\ WF_vars(hand_event) /\ WF_vars(acquire_owned)
    /\ WF_vars(workers # <<>> /\ hand_out(1))
    /\ WF_vars(process_next) /\ WF_vars(process_config)
    /\ \A s \in Stream : WF_vars(handle_rtp_in_timeout(s)) /\ SF_vars(end_record(s))
    /\ \A x \in Session : WF_vars(clean_play_token(x))
    /\ \A c \in Conn : SF_vars(ask_on_play(c)) /\ WF_vars(play_granted(c))

FairSpec == Spec /\ Fairness

-----------------------------------------------------------------------------
EventType ==
    {e \in [kind: EventKind, s: Stream, who: Conn \cup Token \cup {None},
            out: OutputEnum \cup {None}, n: Nat] :
        e.kind = "OnPlay" => e.who \in Conn}
PlayRequest ==
    {r \in [pc: {"idle", "asking", "sent", "granted", "watching", "done"},
            of: Session \cup {None}] :
        r.pc # "idle" => r.of \in Session}

\* Everything has the shape the code gives it.
TypeOK ==
    /\ meta \in [Stream -> StreamMetadata]
    /\ timers \subseteq Stream
    /\ sessions \in [Session -> Nat] /\ tokens \in [Session -> Nat]
    /\ queue \in Seq(EventType) /\ Len(queue) <= MaxQueue
    /\ workers \in Seq(EventType) /\ Len(workers) <= MaxWorkers
    /\ held \in EventType \cup {NoEvent} /\ dropped \subseteq EventType
    /\ unknown \in [Stream -> 0..3]
    /\ conns \in [Conn -> PlayRequest]
    /\ recorder \in [Stream -> {None, "spawned", "running", "ending", "ended"}]
    /\ proc \in [queue: Seq(Stream), wait: Stream \cup {None},
                 config: SUBSET Stream, listened: SUBSET Stream]
    /\ context \in [Stream -> {None, "muxing", "ended"}]
    /\ sending \in [Stream -> BOOLEAN]

Uses(s, o) == UNION {{t} \X (1 .. tokens[<<s, t, o>>]) : t \in Token}
Recorded(s, o) == IF o = "LocalMp4" /\ recorder[s] \in {"running", "ending"} THEN 1 ELSE 0

\* The two places that count viewers agree: the outputs of an open stream are
\* used as often as the tokens of its viewers say, plus the recorder.  The
\* counts are added to and taken from by different tasks, and the count is
\* what makes the node close a stream.
CountMatchesTokens ==
    \A s \in Stream : meta[s].open => \A o \in OutputEnum :
        meta[s].count[o] = Cardinality(Uses(s, o)) + Recorded(s, o)

Watching(x) == {c \in Conn : conns[c].pc = "watching" /\ conns[c].of = x}

\* A viewer who watches, or whose session has not expired, keeps a token entry:
\* the node never reports OffPlay for a viewer with a response body open.
TokenCoversViewers ==
    \A x \in Session : tokens[x] >= sessions[x] + Cardinality(Watching(x))

\* An open stream is watched over: its input timer is armed or its timeout is on
\* the way to the signalling node.  There are two ways to lose that watch, and
\* no third: the node lost the event (a full channel, a dropped hand_event), or
\* the scheduler refused the timer, which init_media ignores and
\* handle_rtp_in_timeout only logs.
InputCovered ==
    \A s \in Stream : meta[s].open =>
        \/ s \in timers \/ Event("InTimeout", s) \in Pending
        \/ Event("InTimeout", s) \in dropped \/ meta[s].unarmed

Unused(s) == /\ meta[s].open /\ meta[s].played /\ meta[s].kind # "LocalMp4"
             /\ get_out_count(meta[s]) = 0
ClosesStream(e, s) == e.kind = "Idle" /\ e.s = s /\ e.n = 0

\* A stream all of whose viewers left is on its way to be closed: the StreamIdle
\* that says so is pending, or the node lost it.
IdleCovered ==
    \A s \in Stream : Unused(s) => \E e \in Pending \cup dropped : ClosesStream(e, s)

\* A viewer who is asked about gets an answer, whatever happens to the event.
PlayAnswered ==
    \A c \in Conn : conns[c].pc \in {"asking", "sent", "granted"}
                      ~> conns[c].pc \in {"watching", "done"}

\* A stream whose device stopped sending is closed, and handle_process, which
\* waits for its config without a timeout, goes on to the next stream, unless
\* the node lost the timeout event or the scheduler refused its input timer.
SilenceReleases ==
    \A s \in Stream : (meta[s].open \/ proc.wait = s) /\ ~sending[s]
        ~> \/ ~meta[s].open /\ proc.wait # s
           \/ Event("InTimeout", s) \in dropped \/ meta[s].unarmed

=============================================================================
