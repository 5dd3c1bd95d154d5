----------------------------- MODULE DateCache -----------------------------
(***************************************************************************)
(* engine::date_cache: one writer formats the date of the current second    *)
(* into the buffer that is not active and then swaps the index; readers on   *)
(* the worker threads take a pointer to the active buffer with get() and     *)
(* copy from it later, a piece at a time.  A buffer is the sequence of its   *)
(* pieces, each the second it was formatted for.                             *)
(*                                                                           *)
(* The release store and the acquire load of active_ order the pieces before *)
(* the index, so memory is taken to be sequentially consistent.  A copy that *)
(* overlaps a write of the same buffer is a data race in C++: it yields any   *)
(* mixture of old and new pieces.                                            *)
(***************************************************************************)
EXTENDS Integers, Sequences

CONSTANTS
    Readers,   \* threads that copy the date
    Pieces,    \* in how many pieces a date is written and copied
    MaxClock   \* bound: the last second the clock shows

ASSUME PiecesAssumption == Pieces \in Nat \ {0}
ASSUME MaxClockAssumption == MaxClock \in Nat \ {0}

VARIABLES
    clock,       \* the current second
    bufs,        \* bufs_
    active,      \* active_
    lastEpoch,   \* last_epoch_
    writing,     \* pieces update() has written, -1 outside of it
    published,   \* history: how often the index has been swapped
    ptr,         \* the buffer a reader's get() gave it, -1 outside of a copy
    copy,        \* what the reader has copied so far
    since,       \* history: published at the reader's get()
    floor        \* history: the second published at the reader's get()

writerVars == <<bufs, active, lastEpoch, writing, published>>
readerVars == <<ptr, copy, since, floor>>
vars == <<clock, writerVars, readerVars>>

\* The constructor has run update() once, in second 1.
Init ==
    /\ clock = 1 /\ lastEpoch = 1
    /\ bufs = [b \in {0, 1} |-> [k \in 1 .. Pieces |-> b]]
    /\ active = 1 /\ writing = -1 /\ published = 1
    /\ ptr = [r \in Readers |-> -1]
    /\ copy = [r \in Readers |-> <<>>]
    /\ since = [r \in Readers |-> 0] /\ floor = [r \in Readers |-> 0]

ClockTick ==
    /\ clock < MaxClock
    /\ clock' = clock + 1
    /\ UNCHANGED <<writerVars, readerVars>>

-----------------------------------------------------------------------------
(* update()                                                                  *)

ActiveBuffer == active
PastTheEnd == active + 1
NextBuffer == 1 - active

\* The second has changed: last_epoch_ is set and formatting begins.
BeginUpdate ==
    /\ writing = -1 /\ clock # lastEpoch
    /\ lastEpoch' = clock /\ writing' = 0
    /\ UNCHANGED <<clock, bufs, active, published, readerVars>>

WritePiece ==
    /\ writing \in 0 .. Pieces - 1
    /\ bufs' = [b \in DOMAIN bufs |->
                   IF b = NextBuffer THEN [bufs[b] EXCEPT ![writing + 1] = lastEpoch] ELSE bufs[b]]
    /\ writing' = writing + 1
    /\ UNCHANGED <<clock, active, lastEpoch, published, readerVars>>

OnePieceShort == writing = Pieces - 1
Formatted == writing = Pieces

Publish ==
    /\ Formatted
    /\ active' = NextBuffer
    /\ writing' = -1 /\ published' = published + 1
    /\ UNCHANGED <<clock, bufs, lastEpoch, readerVars>>

-----------------------------------------------------------------------------
(* get(), and the copy its callers make of what it points to                 *)

Get(r) ==
    /\ ptr[r] = -1
    /\ ptr' = [ptr EXCEPT ![r] = active]
    /\ copy' = [copy EXCEPT ![r] = <<>>]
    /\ since' = [since EXCEPT ![r] = published]
    /\ floor' = [floor EXCEPT ![r] = bufs[active][1]]
    /\ UNCHANGED <<clock, writerVars>>

CopyPiece(r) ==
    /\ ptr[r] # -1 /\ Len(copy[r]) < Pieces
    /\ copy' = [copy EXCEPT ![r] = Append(@, bufs[ptr[r]][Len(@) + 1])]
    /\ UNCHANGED <<clock, writerVars, ptr, since, floor>>

Copied(r) ==
    /\ ptr[r] # -1 /\ Len(copy[r]) = Pieces
    /\ ptr' = [ptr EXCEPT ![r] = -1]
    /\ UNCHANGED <<clock, writerVars, copy, since, floor>>

-----------------------------------------------------------------------------
Update == BeginUpdate \/ WritePiece \/ Publish
Read(r) == Get(r) \/ CopyPiece(r) \/ Copied(r)

Next == ClockTick \/ Update \/ \E r \in Readers : Read(r)

Spec == Init /\ [][Next]_vars

-----------------------------------------------------------------------------
(* Properties                                                                *)

Seconds == 0 .. MaxClock

\* Every variable keeps its type.
TypeOK ==
    /\ clock \in Seconds /\ lastEpoch \in Seconds /\ published \in Nat
    /\ bufs \in [{0, 1} -> [1 .. Pieces -> Seconds]]
    /\ active \in {0, 1} /\ writing \in -1 .. Pieces
    /\ ptr \in [Readers -> {-1, 0, 1}]
    /\ copy \in [Readers -> Seq(Seconds)]
    /\ since \in [Readers -> Nat] /\ floor \in [Readers -> Seconds]

Clean(r) == \A j, k \in 1 .. Len(copy[r]) : copy[r][j] = copy[r][k]

\* Since the reader's get() the index has been swapped, and after that another
\* update() has begun: the one way to reach the reader's buffer.
Overtaken(r) ==
    \/ published - since[r] >= 2
    \/ published - since[r] = 1 /\ writing # -1

\* A copy mixes two dates only if a second update has begun after the first
\* swap that followed its get(): a whole second and more for 29 bytes.
CleanUnlessOvertaken == \A r \in Readers : Clean(r) \/ Overtaken(r)

\* A copy that is not overtaken is of the date that was current at its get().
NoneStale ==
    \A r \in Readers :
        copy[r] # <<>> /\ ~Overtaken(r) => copy[r][Len(copy[r])] = floor[r]

\* The active buffer holds one date, the last one published, at every moment.
ActiveIsWhole ==
    /\ \A k \in 1 .. Pieces : bufs[active][k] = bufs[active][1]
    /\ writing = -1 => bufs[active][1] = lastEpoch
=============================================================================
