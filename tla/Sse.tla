--------------------------------- MODULE Sse ---------------------------------
(***************************************************************************)
(* A server-sent events route, from the response head handle_connection      *)
(* writes to the end of the connection: the handler coroutine, the frames of *)
(* the stream it is given, and the events an EventSource makes of them.      *)
(***************************************************************************)
EXTENDS Naturals, Sequences, SequencesExt

CONSTANTS
    Payloads,    \* what may be sent as data: the lines of it, "" or not
    MaxFrames    \* bound: sends and heartbeats of one handler

VARIABLES
    pc,        \* "head", "handler", "returned", "threw" or "closed"
    reset,     \* the client has reset the connection
    sent,      \* the events whose send() completed: [data, event, id]
    frames,    \* sends and heartbeats so far
    wire,      \* the lines written: [field, value, nul]
    nul        \* a NUL has been written after the last end of line

vars == <<pc, reset, sent, frames, wire, nul>>

Events == [data : Payloads, event : {"", "name"}, id : {"", "id"}]

Line(field, value) == [field |-> field, value |-> value, nul |-> FALSE]
EmptyLine == Line("", "")

\* The three forms of send(): an empty id or event name is left out.  Only the
\* first line of the data gets the field's name.
Frame(e) ==
    (IF e.id = "" THEN <<>> ELSE <<Line("id", e.id)>>)
    \o (IF e.event = "" THEN <<>> ELSE <<Line("event", e.event)>>)
    \o <<Line("data", Head(e.data))>>
    \o [k \in 1 .. Len(e.data) - 1 |-> Line(e.data[k + 1], "")]
    \o <<EmptyLine>>

\* fourteen bytes of a literal of thirteen: its NUL goes out as well.
HeartbeatFrame == <<Line("comment", "heartbeat"), EmptyLine>>
HeartbeatNul == TRUE

Init ==
    /\ pc = "head" /\ reset = FALSE /\ frames = 0
    /\ sent = <<>> /\ wire = <<>> /\ nul = FALSE

Reset ==
    /\ ~reset /\ reset' = TRUE
    /\ UNCHANGED <<pc, sent, frames, wire, nul>>

WriteHead ==
    /\ pc = "head" /\ pc' = IF reset THEN "closed" ELSE "handler"
    /\ UNCHANGED <<reset, sent, frames, wire, nul>>

\* What is written continues the line a NUL has begun.
Write(lines, endsInNul) ==
    /\ wire' = wire \o [lines EXCEPT ![1].nul = nul]
    /\ nul' = endsInNul

\* A failed write throws into the handler.
WriteThrows ==
    /\ pc = "handler" /\ reset /\ pc' = "threw"
    /\ UNCHANGED <<reset, sent, frames, wire, nul>>

Send ==
    /\ pc = "handler" /\ ~reset /\ frames < MaxFrames
    /\ \E e \in Events : Write(Frame(e), FALSE) /\ sent' = Append(sent, e)
    /\ frames' = frames + 1
    /\ UNCHANGED <<pc, reset>>

Heartbeat ==
    /\ pc = "handler" /\ ~reset /\ frames < MaxFrames
    /\ Write(HeartbeatFrame, HeartbeatNul)
    /\ frames' = frames + 1
    /\ UNCHANGED <<pc, reset, sent>>

HandlerReturns ==
    /\ pc = "handler" /\ pc' = "returned"
    /\ UNCHANGED <<reset, sent, frames, wire, nul>>

HandlerThrows ==
    /\ pc = "handler" /\ pc' = "threw"
    /\ UNCHANGED <<reset, sent, frames, wire, nul>>

\* Whatever the handler did, the coroutine ends and its socket with it.
Close ==
    /\ pc \in {"returned", "threw"} /\ pc' = "closed"
    /\ UNCHANGED <<reset, sent, frames, wire, nul>>

Closed == pc = "closed" /\ UNCHANGED vars

Next ==
    \/ WriteHead \/ Send \/ Heartbeat \/ WriteThrows \/ HandlerReturns \/ HandlerThrows
    \/ Close \/ Reset \/ Closed

Spec == Init /\ [][Next]_vars

-----------------------------------------------------------------------------
(* The client                                                                *)

Pending == [data |-> <<>>, event |-> "", id |-> "", got |-> <<>>]

\* An empty line ends an event, which counts if it had data.  A field that is not
\* known, and so one whose name begins with a NUL, is passed over.
Take(client, line) ==
    CASE line = EmptyLine ->
            [Pending EXCEPT
                !.id = client.id,
                !.got = IF client.data = <<>> THEN client.got
                        ELSE Append(client.got, [data |-> client.data, event |-> client.event,
                                                 id |-> client.id])]
      [] line.nul -> client
      [] line.field = "id" -> [client EXCEPT !.id = line.value]
      [] line.field = "event" -> [client EXCEPT !.event = line.value]
      [] line.field = "data" -> [client EXCEPT !.data = Append(@, line.value)]
      [] OTHER -> client

Received(lines) == FoldLeft(Take, Pending, lines).got

\* "Send a comment line to keep the connection alive.  Ignored by clients.": the
\* client gets the events it would get of a handler that sends no heartbeats.
HeartbeatsIgnored ==
    Received(wire) = Received(FlattenSeq([k \in DOMAIN sent |-> Frame(sent[k])]))
=============================================================================
