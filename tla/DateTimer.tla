----------------------------- MODULE DateTimer -----------------------------
(***************************************************************************)
(* server::spawn_date_timer(): what calls date_cache::update() in a server. *)
(* The steady_timer is owned by a local of the function and by the local     *)
(* std::function tick; the handler given to async_wait holds only a          *)
(* reference to tick.  When the function returns both owners are destroyed,   *)
(* which cancels the wait: its handler runs with an error and does not call   *)
(* tick again.                                                               *)
(***************************************************************************)
EXTENDS DateCache

VARIABLES
    timer,    \* "none", "armed", "due" (expired), "cancelled" or "aborted"
    inTick,   \* the main thread is in tick()
    inSpawn   \* the main thread is in spawn_date_timer()

timerVars == <<timer, inTick, inSpawn>>

TimerInit == Init /\ timer = "none" /\ inTick = TRUE /\ inSpawn = TRUE

\* update() as tick() calls it: it returns at once in an unchanged second.
TickUpdate == inTick /\ Update /\ UNCHANGED timerVars

\* expires_after( 1s ) and async_wait, once update() is done.
Arm ==
    /\ inTick /\ writing = -1 /\ clock = lastEpoch
    /\ timer' = "armed" /\ inTick' = FALSE
    /\ UNCHANGED <<vars, inSpawn>>

\* ~steady_timer, for the last owner: the pending wait is cancelled.
Leave ==
    /\ inSpawn /\ ~inTick
    /\ inSpawn' = FALSE /\ timer' = "cancelled"
    /\ UNCHANGED <<vars, inTick>>

\* The handler of the wait, on main_ctx, which runs only later.
Handler ==
    /\ ~inSpawn /\ ~inTick
    /\ \/ timer = "due" /\ inTick' = TRUE /\ UNCHANGED timer
       \/ timer = "cancelled" /\ timer' = "aborted" /\ UNCHANGED inTick
    /\ UNCHANGED <<vars, inSpawn>>

Second ==
    /\ ClockTick
    /\ timer' = IF timer = "armed" THEN "due" ELSE timer
    /\ UNCHANGED <<inTick, inSpawn>>

TimerNext == TickUpdate \/ Arm \/ Leave \/ Handler \/ Second

TimerSpec ==
    /\ TimerInit /\ [][TimerNext]_<<vars, timerVars>>
    /\ WF_<<vars, timerVars>>(TickUpdate \/ Arm \/ Leave \/ Handler)

\* "Update the cached HTTP Date header every second": each second of the clock
\* is reached by the date the cache gives out.
DateFollowsClock ==
    \A t \in 1 .. MaxClock : clock >= t ~> bufs[active][1] >= t
=============================================================================
