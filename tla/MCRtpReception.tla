--------------------------- MODULE MCRtpReception ---------------------------
(* Instances of RtpReception for TLC.                                       *)
EXTENDS RtpReception

P(f, m, p, k, s) == [frame |-> f, marker |-> m, part |-> p, key |-> k, size |-> s]

\* A key frame in fragments, a frame in fragments, a frame of one packet and
\* one of two, with a packet of an unsupported kind; and a packet too long.
MCStreams ==
    [Ps |-> <<P(1, FALSE, "whole", FALSE, 2), P(1, TRUE, "whole", FALSE, 2),
              P(2, FALSE, "whole", FALSE, 3), P(2, TRUE, "whole", FALSE, 2),
              P(3, TRUE, "whole", FALSE, 6)>>,
     RawVideo |-> <<P(1, FALSE, "start", TRUE, 2), P(1, TRUE, "end", TRUE, 2),
                    P(2, FALSE, "start", FALSE, 2), P(2, FALSE, "mid", FALSE, 3),
                    P(2, TRUE, "end", FALSE, 2), P(3, TRUE, "whole", FALSE, 2)>>,
     Audio |-> <<P(1, TRUE, "whole", FALSE, 2), P(2, TRUE, "unsupported", FALSE, 2),
                 P(3, TRUE, "whole", FALSE, 2)>>]
=============================================================================
