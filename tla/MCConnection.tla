---------------------------- MODULE MCConnection ----------------------------
(* Constants of the TLC runs of Connection: sizes small enough that heads     *)
(* and bodies cross every one of them, and the requests of each kind.         *)
EXTENDS Connection

Request(head, body, length, route, close) ==
    [head |-> head, body |-> body, length |-> length, route |-> route, close |-> close]

Get == Request(1, 0, NoLength, "plain", FALSE)
LongGet == Request(3, 0, NoLength, "plain", FALSE)
LastGet == Request(1, 0, NoLength, "plain", TRUE)
Post == Request(2, 2, 2, "plain", FALSE)
BigPost == Request(1, 3, 3, "plain", FALSE)
HugeHead == Request(6, 0, NoLength, "plain", FALSE)
TooLong == Request(1, 0, 4, "plain", FALSE)
Unparsed == Request(1, 0, BadLength, "plain", FALSE)
Undeclared == Request(1, 1, NoLength, "plain", FALSE)
Overdeclared == Request(1, 1, 2, "plain", FALSE)
NoMethod == Request(1, 0, NoLength, "bad", FALSE)
Events == Request(1, 0, NoLength, "sse", FALSE)
Chunks == Request(1, 0, NoLength, "stream", FALSE)
Socket == Request(1, 1, NoLength, "ws", FALSE)

\* Pipelines of requests that keep the connection, and what may end them.
Lasting == {Get, Post, BigPost, Undeclared, Overdeclared}
Kinds == Lasting \cup {LongGet, LastGet, HugeHead, TooLong, Unparsed, NoMethod,
                       Events, Chunks, Socket}

\* Each pair of a request that lasts and one of any kind, and longer pipelines
\* that reach the keep-alive limit.
Pipelines ==
    {<<a, b>> : a \in Lasting, b \in Kinds}
        \cup {<<a, b, c>> : a \in {Get, Post}, b \in {Get, Post, Undeclared}, c \in {Get, BigPost}}
        \cup {<<Get, Post, Get, Get>>}
=============================================================================
