---------------------------- MODULE MCWebSocket ----------------------------
(* Constants of the TLC runs of WebSocket.                                   *)
EXTENDS WebSocket

F(op, fin, length, n) == [op |-> op, fin |-> fin, length |-> length, size |-> n]

\* Payloads on both sides of each boundary of the length's form and of the
\* limit of 65536, one of them announced in a longer form than it needs.
Messages ==
    { F("text", TRUE, <<125>>, 125), F("binary", TRUE, <<126, 0, 126>>, 126),
      F("text", TRUE, <<126, 255, 255>>, 65535),
      F("text", TRUE, <<127, 0, 0, 0, 0, 0, 1, 0, 0>>, 65536),
      F("text", TRUE, <<126, 0, 5>>, 5) }

Refused ==
    { F("text", TRUE, <<127, 0, 0, 0, 0, 0, 1, 0, 1>>, 65537),
      F("text", FALSE, <<1>>, 1), F("continuation", TRUE, <<1>>, 1),
      F("close", TRUE, <<2>>, 2) }

Controls == { F("ping", TRUE, <<0>>, 0), F("ping", TRUE, <<125>>, 125), F("pong", TRUE, <<0>>, 0) }

Frames == Messages \cup Refused \cup Controls

AllScripts == UNION {[1 .. n -> Frames] : n \in 0 .. 2} \cup [1 .. 3 -> Refused \cup Controls]
=============================================================================
