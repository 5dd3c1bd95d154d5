----------------------------- MODULE Connection -----------------------------
(***************************************************************************)
(* server::handle_connection(): the coroutine of one connection, from its   *)
(* first read to the close of its socket, with read_headers, the read       *)
(* buffer, body reading, the three hand-overs and dispatch.  It runs on one *)
(* worker thread, so what it shares is its peer, its timers and the         *)
(* shutting_down_ flag of the server.                                       *)
(*                                                                          *)
(* Bytes are tokens: the peer sends a script of requests, token <<i, k>>     *)
(* being the k-th piece of request i, its head first (the last piece of the *)
(* head holds the blank line), then its body.                               *)
(***************************************************************************)
EXTENDS Integers, Sequences, FiniteSets, SequencesExt

CONSTANTS
    InitialCap,    \* read_buffer's first allocation (8192 bytes)
    ReadChunk,     \* what read_headers makes room for (4096 bytes)
    MaxHeader,     \* server_options::max_header_size
    MaxBody,       \* server_options::max_body_size
    MaxKeepAlive,  \* server_options::max_keepalive_requests, 0 for no limit
    NoLength,      \* the request has no Content-Length
    BadLength,     \* its Content-Length does not parse as a size_t
    Scripts        \* the sequences of requests a client may send

ASSUME SizesAssumption ==
    /\ InitialCap \in Nat \ {0} /\ ReadChunk \in Nat \ {0}
    /\ MaxHeader \in Nat \ {0} /\ MaxBody \in Nat /\ MaxKeepAlive \in Nat
ASSUME LengthsAssumption == {NoLength, BadLength} \cap Nat = {} /\ NoLength # BadLength

\* What a handler's path leads to; "bad" is a request line parse_headers gives
\* an empty method for.
Routes == {"plain", "ws", "sse", "stream", "bad"}

\* head and body are numbers of tokens, length is the Content-Length header,
\* close is "Connection: close".
Requests == [head : Nat \ {0}, body : Nat, length : Nat \cup {NoLength, BadLength},
             route : Routes, close : BOOLEAN]

ASSUME ScriptsAssumption == Scripts \subseteq Seq(Requests)

VARIABLES
    script,         \* what this client sends
    rest,           \* tokens the server's socket has not delivered yet
    peer,           \* "open", "eof" (it sends no more) or "reset"
    stopping,       \* shutting_down_
    pc,             \* where the coroutine is
    buf,            \* the unprocessed bytes of read_buffer, data()[0 .. size())
    cap,            \* data_.size(): allocated bytes
    gen,            \* how often the storage of data_ has been replaced
    fill,           \* body bytes async_read has placed behind size()
    readDead,       \* the read half of a `read || timer` has failed
    headerEnd, contentLength, keepAlive, requestCount,
    who,            \* the request being served, by its place in script
    garbled,        \* its head was not found where a head begins
    headerViews,    \* the storage the string_views of req point into
    bodyView,       \* what req.body points into
    out             \* responses written: the request answered, and the status

connVars == <<keepAlive, requestCount>>
reqVars == <<headerEnd, contentLength, who, garbled, headerViews, bodyView>>
bufVars == <<buf, cap, gen, fill>>
envVars == <<script, rest, peer, stopping>>
vars == <<envVars, bufVars, connVars, reqVars, pc, readDead, out>>

\* The tokens of request number i of script s.
Tokens(s, i) == [k \in 1 .. s[i].head + s[i].body |-> <<i, k>>]
Stream(s) == FlattenSeq([i \in 1 .. Len(s) |-> Tokens(s, i)])

Init ==
    /\ script \in Scripts
    /\ rest = Stream(script) /\ peer = "open" /\ stopping = FALSE
    /\ pc = "scan"
    /\ buf = <<>> /\ cap = InitialCap /\ gen = 0 /\ fill = <<>>
    /\ readDead = FALSE
    /\ headerEnd = 0 /\ contentLength = 0 /\ keepAlive = TRUE /\ requestCount = 0
    /\ who = 0 /\ garbled = FALSE /\ headerViews = 0 /\ bodyView = "none"
    /\ out = <<>>

-----------------------------------------------------------------------------
(* The peer and the rest of the server.                                      *)

\* The peer stops sending: what it had sent still arrives.
PeerEnds ==
    /\ peer = "open" /\ pc # "done"
    /\ peer' = "eof"
    /\ \E n \in 0 .. Len(rest) : rest' = SubSeq(rest, 1, n)
    /\ UNCHANGED <<script, stopping, bufVars, connVars, reqVars, pc, readDead, out>>

PeerResets ==
    /\ peer # "reset" /\ pc # "done"
    /\ peer' = "reset" /\ rest' = <<>>
    /\ UNCHANGED <<script, stopping, bufVars, connVars, reqVars, pc, readDead, out>>

\* The signal handler on the main thread.
BeginShutdown ==
    /\ ~stopping /\ pc # "done"
    /\ stopping' = TRUE
    /\ UNCHANGED <<script, rest, peer, bufVars, connVars, reqVars, pc, readDead, out>>

-----------------------------------------------------------------------------
(* read_buffer                                                               *)

\* ensure_write( n ): a buffer that is too short is resized, and so moved.
MaxOf(a, b) == IF a >= b THEN a ELSE b
DoubledOnly(n) == 2 * cap
Grown(n) == MaxOf(2 * cap, Len(buf) + n)
EnsureWrite(n) ==
    IF cap - Len(buf) < n
       THEN cap' = Grown(n) /\ gen' = gen + 1
       ELSE UNCHANGED <<cap, gen>>

\* The buffer once the request's head and declared body have been processed:
\* clear() when that is all of it, consume() otherwise.
HeadOnly(n) == SubSeq(buf, headerEnd + 1, Len(buf))
NotCleared(n) == IF n >= Len(buf) THEN buf ELSE SubSeq(buf, n + 1, Len(buf))
Consumed(n) == IF n >= Len(buf) THEN <<>> ELSE SubSeq(buf, n + 1, Len(buf))

-----------------------------------------------------------------------------
(* read_headers and read_headers_with_timeout                                *)

IsHeadEnd(t) == t[2] = script[t[1]].head

\* Where the first complete head of the buffer ends, 0 when there is none.
\* (find_header_end; that resuming the scan finds the same place is module
\* HeaderScan.)
FindHeaderEnd(b) ==
    LET ends == {p \in 1 .. Len(b) : IsHeadEnd(b[p])}
    IN  IF ends = {} THEN 0 ELSE CHOOSE p \in ends : \A q \in ends : p <= q

Scan ==
    /\ pc = "scan"
    /\ IF FindHeaderEnd(buf) > 0
          THEN /\ pc' = "parse" /\ headerEnd' = FindHeaderEnd(buf)
               /\ UNCHANGED <<cap, gen>>
          ELSE /\ headerEnd' = 0
               /\ IF Len(buf) >= MaxHeader
                     THEN pc' = "shutdown" /\ UNCHANGED <<cap, gen>>
                     ELSE pc' = "reading" /\ EnsureWrite(ReadChunk)
    /\ UNCHANGED <<envVars, buf, fill, connVars, contentLength, who, garbled,
                   headerViews, bodyView, readDead, out>>

\* async_read_some delivers at least one byte, and as many as fit.
Receive ==
    /\ pc = "reading" /\ ~readDead
    /\ \E n \in 1 .. Len(rest) :
          /\ n <= cap - Len(buf)
          /\ buf' = buf \o SubSeq(rest, 1, n)
          /\ rest' = SubSeq(rest, n + 1, Len(rest))
    /\ pc' = "scan"
    /\ UNCHANGED <<script, peer, stopping, cap, gen, fill, connVars, reqVars, readDead, out>>

ReadFailed == peer = "reset" \/ (peer = "eof" /\ rest = <<>>)

ReceiveFailsSwallowed ==
    /\ pc = "reading" /\ ~readDead /\ ReadFailed
    /\ IF requestCount = 0
          THEN readDead' = TRUE /\ UNCHANGED pc
          ELSE pc' = "scan" /\ UNCHANGED readDead
    /\ UNCHANGED <<envVars, bufVars, connVars, reqVars, out>>

\* A failed read ends a kept-alive connection at once.  On the first request it
\* is one half of `read || timer`, which goes on waiting for a success: the
\* timer's.
ReceiveFails ==
    /\ pc = "reading" /\ ~readDead /\ ReadFailed
    /\ IF requestCount = 0
          THEN readDead' = TRUE /\ UNCHANGED pc
          ELSE pc' = "shutdown" /\ UNCHANGED readDead
    /\ UNCHANGED <<envVars, bufVars, connVars, reqVars, out>>

\* The timer goes on after the read has failed: see ReceiveFails.
CancelledByFailure == ~readDead
TimerRuns == TRUE

HeaderTimeout ==
    /\ pc = "reading" /\ requestCount = 0 /\ TimerRuns
    /\ pc' = "shutdown"
    /\ UNCHANGED <<envVars, bufVars, connVars, reqVars, readDead, out>>

-----------------------------------------------------------------------------
(* The request                                                               *)

\* What parse_headers makes of a head: the request it is.  A head that starts
\* inside an undeclared body has a request line of body bytes: it may still name
\* a path, or no method at all.
Parsings(i, g) == {script[i].route} \cup (IF g THEN {"plain", "bad"} ELSE {})

\* A request without a method ends the connection.
Parse ==
    /\ pc = "parse"
    /\ LET i == buf[headerEnd][1]
           g == buf[1] # <<i, 1>>
       IN  /\ who' = i /\ garbled' = g
           /\ \E route \in Parsings(i, g) :
                 IF route = "bad"
                    THEN pc' = "shutdown" /\ UNCHANGED requestCount
                    ELSE /\ pc' = IF route = "plain" THEN "limits" ELSE "upgrading"
                         /\ requestCount' = requestCount + 1
    /\ headerViews' = gen /\ bodyView' = "none" /\ contentLength' = 0
    /\ UNCHANGED <<envVars, bufVars, keepAlive, headerEnd, readDead, out>>

\* ws, sse and stream routes: the handshake or the response head is written and
\* the connection belongs to the handler until it ends.
Upgrade ==
    /\ pc = "upgrading"
    /\ pc' = IF peer = "reset" THEN "shutdown" ELSE "streaming"
    /\ UNCHANGED <<envVars, bufVars, connVars, reqVars, readDead, out>>

StreamEnds ==
    /\ pc = "streaming" /\ pc' = "shutdown"
    /\ UNCHANGED <<envVars, bufVars, connVars, reqVars, readDead, out>>

LimitPassed(n) == MaxKeepAlive > 0 /\ n > MaxKeepAlive
HitLimit(n) == MaxKeepAlive > 0 /\ n >= MaxKeepAlive

\* keep_alive is decided before the body is read and the handler runs.
Limits ==
    /\ pc = "limits"
    /\ keepAlive' = ~(script[who].close \/ HitLimit(requestCount) \/ stopping)
    /\ pc' = "body"
    /\ UNCHANGED <<envVars, bufVars, requestCount, reqVars, readDead, out>>

\* What is missing of a body of n bytes, given what came with the head.
MissingButOne(n) == MaxOf(n - (Len(buf) - headerEnd) - 1, 0)
Missing(n) == MaxOf(n - (Len(buf) - headerEnd), 0)

NeverTooLarge(n) == FALSE
TooLarge(n) == n > MaxBody

\* Content-Length: none, refused, already here, or still to be read.
Body ==
    /\ pc = "body"
    /\ LET n == script[who].length IN
       \/ /\ n = NoLength
          /\ pc' = "dispatch"
          /\ UNCHANGED <<cap, gen, contentLength, bodyView>>
       \/ /\ n = BadLength \/ (n \in Nat /\ TooLarge(n))
          /\ pc' = "refusing"
          /\ UNCHANGED <<cap, gen, contentLength, bodyView>>
       \/ /\ n \in Nat /\ ~TooLarge(n)
          /\ contentLength' = n
          /\ IF Missing(n) > 0
                THEN /\ EnsureWrite(Missing(n))
                     /\ pc' = "readingBody" /\ UNCHANGED bodyView
                ELSE pc' = "dispatch" /\ bodyView' = "temporary" /\ UNCHANGED <<cap, gen>>
    /\ UNCHANGED <<envVars, buf, fill, connVars, headerEnd, who, garbled, headerViews,
                   readDead, out>>

\* async_read goes on until it has all that is missing; size() moves only then.
ReceiveBody ==
    /\ pc = "readingBody" /\ ~readDead
    /\ \E n \in 1 .. Len(rest) :
          /\ n <= Missing(contentLength) - Len(fill)
          /\ rest' = SubSeq(rest, n + 1, Len(rest))
          /\ LET got == fill \o SubSeq(rest, 1, n)
             IN  IF Len(got) = Missing(contentLength)
                    THEN /\ buf' = buf \o got /\ fill' = <<>>
                         /\ pc' = "dispatch" /\ bodyView' = "temporary"
                    ELSE fill' = got /\ UNCHANGED <<buf, pc, bodyView>>
    /\ UNCHANGED <<script, peer, stopping, cap, gen, connVars, headerEnd, contentLength,
                   who, garbled, headerViews, readDead, out>>

\* Again one half of `read || timer`: the failure alone ends nothing.
ReceiveBodyFails ==
    /\ pc = "readingBody" /\ ~readDead /\ ReadFailed
    /\ readDead' = TRUE
    /\ UNCHANGED <<envVars, bufVars, connVars, reqVars, pc, out>>

BodyTimeout ==
    /\ pc = "readingBody" /\ TimerRuns
    /\ pc' = "refusing"
    /\ UNCHANGED <<envVars, bufVars, connVars, reqVars, readDead, out>>

-----------------------------------------------------------------------------
(* The answer                                                                *)

\* The middleware and the handler run, then the response is ready.  dispatch
\* turns a std::exception of the handler into a 500; one of a middleware ends
\* the connection; anything else leaves handle_connection, and the completion
\* handler of spawn_safe too.
Handle ==
    /\ pc = "dispatch"
    /\ pc' \in {"respond", "shutdown", "escaped"}
    /\ UNCHANGED <<envVars, bufVars, connVars, reqVars, readDead, out>>

Answer(status) == [request |-> who, status |-> status, close |-> ~keepAlive \/ status = "refused"]

\* The response is written, the request consumed, and the loop goes on.
Respond ==
    /\ pc = "respond" /\ peer # "reset"
    /\ out' = Append(out, Answer("handled"))
    /\ buf' = Consumed(headerEnd + contentLength)
    /\ pc' = IF keepAlive THEN "scan" ELSE "shutdown"
    /\ UNCHANGED <<envVars, cap, gen, fill, connVars, reqVars, readDead>>

\* 413 or 408, with Connection: close, then the loop is left.
Refuse ==
    /\ pc = "refusing" /\ peer # "reset"
    /\ out' = Append(out, Answer("refused"))
    /\ pc' = "shutdown"
    /\ UNCHANGED <<envVars, bufVars, connVars, reqVars, readDead>>

WriteFails ==
    /\ pc \in {"respond", "refusing"} /\ peer = "reset"
    /\ pc' = "shutdown"
    /\ UNCHANGED <<envVars, bufVars, connVars, reqVars, readDead, out>>

\* The socket is shut down and closed; conn_guard gives the slot back.
Close ==
    /\ pc = "shutdown" /\ pc' = "done"
    /\ UNCHANGED <<envVars, bufVars, connVars, reqVars, readDead, out>>

\* std::terminate after an escaped exception, or a closed connection.
Ended == pc \in {"done", "escaped"} /\ UNCHANGED vars

\* The worker's io_context is destroyed with the coroutine suspended in it.
Suspended == {"reading", "readingBody", "upgrading", "streaming", "dispatch",
              "respond", "refusing"}
TornDown ==
    /\ stopping /\ pc \in Suspended
    /\ pc' = "done"
    /\ UNCHANGED <<envVars, bufVars, connVars, reqVars, readDead, out>>

-----------------------------------------------------------------------------
Peer == PeerEnds \/ PeerResets

Coroutine ==
    \/ Scan \/ ReceiveFails \/ Parse \/ Upgrade \/ StreamEnds \/ Limits \/ Body
    \/ ReceiveBodyFails \/ Handle \/ WriteFails \/ Close

\* Steps that wait for the peer to send or to take what is sent.
WithPeer == Receive \/ ReceiveBody \/ Respond \/ Refuse

Next ==
    \/ Coroutine \/ WithPeer \/ HeaderTimeout \/ BodyTimeout
    \/ Peer \/ BeginShutdown \/ TornDown
    \/ Ended

\* A worker resumes what can go on, handlers end, and a timer that nobody
\* cancels expires.  The peer owes nothing.
Fairness ==
    /\ WF_vars(Coroutine) /\ WF_vars(HeaderTimeout) /\ WF_vars(BodyTimeout)

Spec == Init /\ [][Next]_vars
FairSpec == Spec /\ Fairness

-----------------------------------------------------------------------------
(* Properties                                                                *)

PCs == {"scan", "reading", "parse", "upgrading", "streaming", "limits", "body",
        "readingBody", "refusing", "dispatch", "respond", "shutdown", "done", "escaped"}
TokensOf(s) == {Stream(s)[k] : k \in 1 .. Len(Stream(s))}

\* Every variable keeps its type; a suffix of the stream is still to come.
TypeOK ==
    /\ script \in Scripts /\ rest \in Seq(TokensOf(script))
    /\ peer \in {"open", "eof", "reset"} /\ stopping \in BOOLEAN /\ pc \in PCs
    /\ buf \in Seq(TokensOf(script)) /\ fill \in Seq(TokensOf(script))
    /\ cap \in Nat /\ gen \in Nat
    /\ readDead \in BOOLEAN /\ keepAlive \in BOOLEAN /\ garbled \in BOOLEAN
    /\ headerEnd \in 0 .. Len(buf) \/ pc \notin {"parse", "limits", "body", "readingBody",
                                               "dispatch", "respond"}
    /\ contentLength \in 0 .. MaxBody
    /\ requestCount \in Nat /\ who \in 0 .. Len(script)
    /\ headerViews \in Nat /\ bodyView \in {"none", "temporary"}

\* The bytes a read has placed are inside the storage of the buffer, whatever
\* was pipelined in front of them and however the buffer has grown.
BufferFits == Len(buf) + Len(fill) <= cap

\* The request declares exactly the body it has.
Honest(i) ==
    \/ script[i].length = script[i].body
    \/ script[i].length = NoLength /\ script[i].body = 0

Serving == pc \in {"upgrading", "streaming", "limits", "body", "readingBody",
                   "refusing", "dispatch", "respond"}

\* Framing: as long as every earlier request declared its body, the request
\* being served is the next one of the client, read from its first byte,
\* whatever was buffered, pipelined, split or grown on the way.
InStep ==
    Serving /\ (\A i \in 1 .. who - 1 : Honest(i)) =>
        ~garbled /\ who = requestCount

\* The bytes handed over as the request's body are all of its own body and
\* none of what precedes or follows it on the connection.
OwnBody ==
    pc \in {"dispatch", "respond"} /\ (\A i \in 1 .. who : Honest(i)) =>
        /\ headerEnd + contentLength <= Len(buf)
        /\ SubSeq(buf, headerEnd + 1, headerEnd + contentLength) =
               [k \in 1 .. script[who].body |-> <<who, script[who].head + k>>]

\* No request is answered twice, and answers come in the order of the requests,
\* even of a client whose undeclared bodies have put the server out of step.
AnsweredInOrder ==
    \A i, j \in 1 .. Len(out) : i < j => out[i].request < out[j].request

\* A client that has opened a connection and sends no complete head does not
\* keep it for ever, not even one whose read has already failed.
FirstRequestBounded ==
    requestCount = 0 ~> requestCount > 0 \/ pc = "done"

\* A body that does not arrive does not keep the connection for ever.
BodyBounded == pc = "readingBody" ~> pc # "readingBody"

\* A connection that is reset ends, wherever its coroutine was.
ResetEnds == peer = "reset" ~> pc \in {"done", "escaped"}

\* The session the client sees.
Session == INSTANCE HttpSession WITH
    state <- CASE pc \in {"scan", "reading", "parse"} -> "waiting"
               [] pc \in {"upgrading", "limits", "body", "readingBody", "refusing",
                          "dispatch", "respond"} -> "serving"
               [] pc = "streaming" -> "streaming"
               [] pc = "shutdown" /\ out # <<>> /\ Last(out).close -> "ending"
               [] OTHER -> "closed",
    asked <- requestCount,
    answered <- Len(out)

\* The connection implements the session: one request at a time, one answer
\* each, nothing after an announced close, no more than the limit.
ImplementsSession == Session!Spec

-----------------------------------------------------------------------------
(* What the documentation says and the code does not do                      *)

\* "Header string_views are valid until the connection buffer is consumed at
\* the end of each request cycle": what the handler sees of the request still
\* points into the storage of the buffer.
HeaderViewsValid == pc \in {"dispatch", "respond"} => headerViews = gen
=============================================================================
