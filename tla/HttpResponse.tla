----------------------------- MODULE HttpResponse -----------------------------
(***************************************************************************)
(* struct response: what builders and set_header make of it, what            *)
(* serialize_into puts on the wire, and how a client finds the end of that.  *)
(*                                                                          *)
(* A body is its size.  Content types, the status text, the server's name    *)
(* and the date are left out.                                                *)
(***************************************************************************)
EXTENDS Naturals, Sequences, SequencesExt

Blank == [status |-> 200, headers |-> <<>>, body |-> 0]

\* text(), html() and json() differ in the content type.
Text(status, body) == [Blank EXCEPT !.status = status, !.body = body]

\* A name that is set already is set once more.
Header(name, val) == [name |-> name, value |-> val]
SetHeader(res, name, val) == [res EXCEPT !.headers = Append(@, Header(name, val))]
HasHeader(res, name) == \E k \in DOMAIN res.headers : res.headers[k].name = name

\* Content-Length and Connection are written unless the response has its own.
\* (Names as handlers write them are compared in two spellings, all in lower case
\* or both words capitalised; others do not occur here.)
Default(res, name, val) == IF HasHeader(res, name) THEN <<>> ELSE <<Header(name, val)>>

SerializeInto(res) ==
    [res EXCEPT !.headers = @ \o Default(res, "Content-Length", res.body)
                              \o Default(res, "Connection", "keep-alive")]

\* The bytes a client takes for the body of the answer to its request.
Taken(method, wire) ==
    IF method = "HEAD" \/ wire.status \in {204, 304} THEN 0
    ELSE LET stated == {k \in DOMAIN wire.headers : wire.headers[k].name = "Content-Length"}
         IN  wire.headers[Min(stated)].value
=============================================================================
