---------------------------- MODULE HttpSession ----------------------------
(***************************************************************************)
(* What one HTTP/1.1 connection promises its client, whatever the buffers,  *)
(* the timers and the handlers do: requests are taken one at a time, each   *)
(* is answered at most once and before the next is taken, an answer with    *)
(* which the server announces the end is the last one, and the keep-alive   *)
(* limit is the number of requests a connection can live through.           *)
(***************************************************************************)
EXTENDS Naturals

CONSTANT MaxKeepAlive   \* requests per connection, 0 for no limit

VARIABLES
    state,     \* "waiting", "serving", "streaming", "ending" or "closed"
    asked,     \* requests taken
    answered   \* responses written

vars == <<state, asked, answered>>

Init == state = "waiting" /\ asked = 0 /\ answered = 0

AtLimit == MaxKeepAlive > 0 /\ asked >= MaxKeepAlive

Take ==
    /\ state = "waiting" /\ ~AtLimit
    /\ state' = "serving" /\ asked' = asked + 1
    /\ UNCHANGED answered

Answer ==
    /\ state = "serving"
    /\ answered' = answered + 1
    /\ \/ state' = "ending"
       \/ ~AtLimit /\ state' = "waiting"
    /\ UNCHANGED asked

\* The connection is handed to a WebSocket, SSE or streaming handler.
Upgrade == state = "serving" /\ state' = "streaming" /\ UNCHANGED <<asked, answered>>

Hangup == state # "closed" /\ state' = "closed" /\ UNCHANGED <<asked, answered>>

Next == Take \/ Answer \/ Upgrade \/ Hangup

Spec == Init /\ [][Next]_vars
=============================================================================
