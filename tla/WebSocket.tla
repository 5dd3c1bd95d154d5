----------------------------- MODULE WebSocket -----------------------------
(***************************************************************************)
(* A WebSocket after its handshake: websocket::read() and write_frame(), the *)
(* handler coroutine that calls them in a loop, and a peer that sends        *)
(* frames, ends its side in the middle of one, or resets the connection.     *)
(*                                                                          *)
(* A payload is its size: masking and unmasking give back the same bytes.    *)
(* A frame comes in two pieces, its first bytes up to the length and the     *)
(* mask with the payload, for the places where read() is suspended.          *)
(***************************************************************************)
EXTENDS Integers, Sequences, SequencesExt, Selections

CONSTANTS
    Scripts,      \* the sequences of frames a peer may send: [op, fin, length,
                  \* size], length the bytes that announce size
    MaxMessage,   \* websocket::max_message_size_
    MaxSends      \* bound: frames the handler sends

Data == {"text", "binary"}
Opcodes == Data \cup {"continuation", "close", "ping", "pong"}

\* The value of the bytes of a length, without the first when that says how many
\* follow.  read() does not ask for the shortest form.
DecodeLength(bytes) ==
    LET value[k \in 0 .. Len(bytes) - 1] ==
            IF k = 0 THEN 0 ELSE value[k - 1] * 256 + bytes[k + 1]
    IN  IF bytes[1] < 126 THEN bytes[1] ELSE value[Len(bytes) - 1]

\* Lengths below 2^31, for TLC's integers.
LengthLimit == 2147483647

Frame ==
    {f \in [op : Opcodes, fin : BOOLEAN, length : Seq(0 .. 255), size : Nat] :
        /\ <<f.length[1], Len(f.length)>> \in ((0 .. 125) \X {1}) \cup {<<126, 3>>, <<127, 9>>}
        /\ f.size = DecodeLength(f.length)}

ASSUME ScriptsAssumption == Scripts \subseteq Seq(Frame)
ASSUME MaxMessageAssumption == MaxMessage \in 0 .. LengthLimit   \* 16 MB in the code
ASSUME MaxSendsAssumption == MaxSends \in Nat

VARIABLES
    script,     \* what the peer means to send
    arrived,    \* how many pieces of it can still be read in all
    peer,       \* "open", "eof": it has ended its side, or "reset"
    got,        \* pieces read so far
    pc,         \* where the handler's coroutine is
    frame,      \* the opcode and fin of the frame being read
    size,       \* payload_len
    out,        \* frames written
    delivered,  \* messages read() has returned
    sends       \* frames the handler has sent

peerVars == <<script, arrived, peer>>
frameVars == <<frame, size>>
vars == <<peerVars, got, pc, frameVars, out, delivered, sends>>

NormalClosure == 1000   \* the code of a close() the handler asks for
NoFrame == [op |-> "text", fin |-> TRUE]

-----------------------------------------------------------------------------
(* The length of a payload, as write_frame puts it.                          *)

\* The big-endian bytes of n, which is below 2^31 here.
Places == <<1, 256, 65536, 16777216>>
BigEndian(n, bytes) ==
    [k \in 1 .. bytes |->
        IF bytes - k > 3 THEN 0 ELSE (n \div Places[bytes - k + 1]) % 256]

Fits16OffByOne(n) == n <= 65536
Fits16(n) == n <= 65535

LengthBytes(n) ==
    IF n < 126 THEN <<n>>
    ELSE IF Fits16(n) THEN <<126>> \o BigEndian(n, 2)
    ELSE <<127>> \o BigEndian(n, 8)

-----------------------------------------------------------------------------
Init ==
    /\ script \in Scripts
    /\ arrived = 2 * Len(script) /\ peer = "open" /\ got = 0
    /\ pc = "user" /\ frame = NoFrame /\ size = 0
    /\ out = <<>> /\ delivered = <<>> /\ sends = 0

\* The peer ends its side wherever it is in its script, maybe inside a frame.
PeerEnds ==
    /\ peer = "open"
    /\ peer' = "eof"
    /\ arrived' \in got .. 2 * Len(script)
    /\ UNCHANGED <<script, got, pc, frameVars, out, delivered, sends>>

PeerResets ==
    /\ peer # "reset"
    /\ peer' = "reset" /\ arrived' = got
    /\ UNCHANGED <<script, got, pc, frameVars, out, delivered, sends>>

Sent(op, code, n) == [op |-> op, code |-> code, length |-> LengthBytes(n), size |-> n]
Write(f) == peer # "reset" /\ out' = Append(out, f)

-----------------------------------------------------------------------------
(* The handler: while( auto msg = co_await ws.read() ) ...                   *)

CallRead ==
    /\ pc = "user" /\ pc' = "header"
    /\ UNCHANGED <<peerVars, got, frameVars, out, delivered, sends>>

\* send and send_binary, of nothing or of the last message, ping, and close.
HandlerSends ==
    /\ pc = "user" /\ sends < MaxSends
    /\ \/ \E op \in Data :
             \E n \in {0} \cup (IF delivered = <<>> THEN {} ELSE {Last(delivered).size}) :
                 Write(Sent(op, 0, n))
       \/ Write(Sent("ping", 0, 0))
       \/ Write(Sent("close", NormalClosure, 2))
    /\ sends' = sends + 1
    /\ UNCHANGED <<peerVars, got, pc, frameVars, delivered>>

\* A failed write throws into the handler, whose exception handle_connection
\* swallows; and the handler may just return.
HandlerEnds ==
    /\ pc = "user" /\ pc' = "ended"
    /\ UNCHANGED <<peerVars, got, frameVars, out, delivered, sends>>

\* The loop ends when read() returns nullopt.
LoopEnds ==
    /\ pc = "nullopt" /\ pc' = "ended"
    /\ UNCHANGED <<peerVars, got, frameVars, out, delivered, sends>>

-----------------------------------------------------------------------------
(* read()                                                                    *)

NeverTooBig(n) == FALSE
TooBig(n) == n > MaxMessage

\* The header and its length; past the limit the payload is not even read.
ReadHeader ==
    /\ pc = "header" /\ got < arrived
    /\ got' = got + 1
    /\ LET f == script[got \div 2 + 1]
           n == DecodeLength(f.length)
       IN  /\ frame' = [op |-> f.op, fin |-> f.fin]
           /\ IF TooBig(n) THEN pc' = "close1009" /\ size' = 0
                           ELSE pc' = "payload" /\ size' = n
    /\ UNCHANGED <<peerVars, out, delivered, sends>>

ReadPayload ==
    /\ pc = "payload" /\ got < arrived
    /\ got' = got + 1
    /\ pc' = "complete"
    /\ UNCHANGED <<peerVars, frameVars, out, delivered, sends>>

\* end_of_file, connection_reset: catch( ... ) makes it a nullopt.
ReadFailsRetried ==
    /\ pc \in {"header", "payload"} /\ peer # "open" /\ got = arrived
    /\ pc' = "header"
    /\ UNCHANGED <<peerVars, got, frameVars, out, delivered, sends>>

ReadFails ==
    /\ pc \in {"header", "payload"} /\ peer # "open" /\ got = arrived
    /\ pc' = "nullopt"
    /\ UNCHANGED <<peerVars, got, frameVars, out, delivered, sends>>

\* What a complete frame makes read() do, in the order it asks.
ActAnyFragment(op, fin) ==
    CASE op = "ping" -> "pong"
      [] op = "close" -> "echoClose"
      [] op = "pong" -> "header"
      [] op = "continuation" -> "close1003"
      [] OTHER -> "deliver"

Act(op, fin) ==
    CASE op = "ping" -> "pong"
      [] op = "close" -> "echoClose"
      [] op = "pong" -> "header"
      [] op = "continuation" \/ (op \in Data /\ ~fin) -> "close1003"
      [] OTHER -> "deliver"

Complete ==
    /\ pc = "complete"
    /\ pc' = Act(frame.op, frame.fin)
    /\ UNCHANGED <<peerVars, got, frameVars, out, delivered, sends>>

Deliver ==
    /\ pc = "deliver"
    /\ delivered' = Append(delivered, [op |-> frame.op, size |-> size])
    /\ pc' = "user"
    /\ UNCHANGED <<peerVars, got, frameVars, out, sends>>

\* The payload a pong carries.
EmptyPong(n) == 0
PongPayload(n) == n

\* co_await read() from within read(), for as long as only pings come.
Pong ==
    /\ pc = "pong"
    /\ Write(Sent("pong", 0, PongPayload(size)))
    /\ pc' = "header"
    /\ UNCHANGED <<peerVars, got, frameVars, delivered, sends>>

\* The close frame for each reason to end: its code, 0 for none.
CodeSwapped(reason) ==
    CASE reason = "close1009" -> 1003 [] reason = "close1003" -> 1009 [] OTHER -> 0
CodeOf(reason) ==
    CASE reason = "close1009" -> 1009 [] reason = "close1003" -> 1003 [] OTHER -> 0

CloseReasons == {"close1009", "close1003", "echoClose"}

SendClose ==
    /\ pc \in CloseReasons
    /\ Write(Sent("close", CodeOf(pc), IF pc = "echoClose" THEN 0 ELSE 2))
    /\ pc' = "nullopt"
    /\ UNCHANGED <<peerVars, got, frameVars, delivered, sends>>

WriteFails ==
    /\ pc \in CloseReasons \cup {"pong"} /\ peer = "reset"
    /\ pc' = "nullopt"
    /\ UNCHANGED <<peerVars, got, frameVars, out, delivered, sends>>

\* handle_connection returns and the socket is closed.
Terminated == pc = "ended" /\ UNCHANGED vars

-----------------------------------------------------------------------------
Coroutine ==
    \/ LoopEnds \/ ReadFails \/ Complete \/ Deliver \/ WriteFails

WithPeer ==
    \/ ReadHeader \/ ReadPayload \/ Pong \/ SendClose

Handler == CallRead \/ HandlerSends \/ HandlerEnds

Next ==
    \/ Coroutine \/ WithPeer \/ Handler
    \/ PeerEnds \/ PeerResets
    \/ Terminated

Spec == Init /\ [][Next]_vars

\* What can go on without the peer goes on, and a handler neither computes nor
\* sends for ever.  The peer owes nothing.
FairSpec == Spec /\ WF_vars(Coroutine) /\ WF_vars(CallRead \/ HandlerEnds)

-----------------------------------------------------------------------------
(* Properties                                                                *)

PCs == {"user", "header", "payload", "complete", "deliver", "pong", "nullopt", "ended"}
           \cup CloseReasons

\* Every variable keeps its type; what is allocated for a payload before its
\* bytes have come is within the limit.
TypeOK ==
    /\ script \in Scripts /\ peer \in {"open", "eof", "reset"}
    /\ arrived \in 0 .. 2 * Len(script) /\ got \in 0 .. arrived
    /\ pc \in PCs
    /\ frame \in [op : Opcodes, fin : BOOLEAN]
    /\ size \in 0 .. MaxMessage
    /\ sends \in 0 .. MaxSends

\* The frames of the script that end a connection.
Ends(f) ==
    \/ f.size > MaxMessage \/ f.op \in {"close", "continuation"}
    \/ f.op \in Data /\ ~f.fin

FramesRead == SubSeq(script, 1, got \div 2)

IsMessage(f) == f.op \in Data /\ ~Ends(f)

\* The handler is given the peer's complete messages, each once, in order and
\* with its length, however control frames come in between, and nothing that
\* comes at or after the frame that ends the connection.
DeliveredInOrder ==
    LET read == Those(FramesRead, {k \in DOMAIN FramesRead : IsMessage(FramesRead[k])})
        messages == [k \in DOMAIN read |-> [op |-> read[k].op, size |-> read[k].size]]
    IN  /\ \/ delivered = messages
           \/ pc \in {"complete", "deliver"} /\ messages # <<>> /\ delivered = Front(messages)
        /\ \A k \in 1 .. Len(FramesRead) - 1 : ~Ends(FramesRead[k])

\* Every ping is answered by one pong with its payload before anything that the
\* peer sent after it is looked at, also when a close follows.
PongsInOrder ==
    LET pings == Those(FramesRead, {k \in DOMAIN FramesRead : FramesRead[k].op = "ping"})
        pongs == Those(out, {k \in DOMAIN out : out[k].op = "pong"})
        answered == [k \in DOMAIN pongs |-> pongs[k].size]
        asked == [k \in DOMAIN pings |-> pings[k].size]
    IN  \/ answered = asked
        \/ /\ pings # <<>> /\ answered = Front(asked)
           /\ pc \in {"complete", "pong"} \/ peer = "reset"

\* The frame that made read() give up, the one after those read if its payload
\* was refused.
Culprit == script[(got + 1) \div 2]

\* When read() ends the connection itself, it tells the peer so, once, with the
\* reason: 1009 for a message past the limit, 1003 for a fragmented one, no
\* code in answer to its own close.
CloseSaysWhy ==
    LET closes == Those(out, {k \in DOMAIN out :
                                 out[k].op = "close" /\ out[k].code # NormalClosure})
    IN  /\ closes # <<>> =>
              /\ pc \in {"nullopt", "ended"} /\ Ends(Culprit)
              /\ Len(closes) = 1
              /\ closes[1].code = IF Culprit.size > MaxMessage THEN 1009
                                  ELSE IF Culprit.op = "close" THEN 0 ELSE 1003
        /\ pc = "nullopt" /\ peer = "open" => closes # <<>>

\* The lengths write_frame announces are those of the payloads that follow, at
\* each boundary between the three forms, so the peer finds the next frame.
PeerDecodes == \A k \in 1 .. Len(out) : DecodeLength(out[k].length) = out[k].size

\* A reset ends the handler's loop wherever read() is suspended.
ResetEnds == peer = "reset" ~> pc = "ended"
=============================================================================
