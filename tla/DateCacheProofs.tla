-------------------------- MODULE DateCacheProofs --------------------------
(* Theorems of DateCache, for every set of readers, any number of pieces and *)
(* any bound of the clock, and of the cache as DateTimer drives it.          *)
EXTENDS DateTimer, SequenceTheorems, TLAPS

-----------------------------------------------------------------------------
(* The inductive invariant.                                                  *)

\* The active buffer is whole, and what update() has formatted so far of the
\* other one is of the second it began in.
WriterInv ==
    /\ ActiveIsWhole
    /\ \A k \in 1 .. Pieces : k <= writing => bufs[NextBuffer][k] = lastEpoch

\* A reader that has missed no swap copies from the active buffer; one that has
\* missed a single swap still copies from a whole buffer until the next update().
PointerInv ==
    \A r \in Readers : ptr[r] # -1 =>
        /\ since[r] = published => ptr[r] = active /\ bufs[active][1] = floor[r]
        /\ since[r] + 1 = published /\ writing = -1 =>
              ptr[r] = NextBuffer /\ \A k \in 1 .. Pieces : bufs[NextBuffer][k] = floor[r]

\* What has been copied is of the second of the get(), unless it was overtaken.
CopyInv ==
    \A r \in Readers :
        /\ since[r] <= published /\ Len(copy[r]) <= Pieces
        /\ ~Overtaken(r) => \A k \in 1 .. Len(copy[r]) : copy[r][k] = floor[r]

IInv == TypeOK /\ WriterInv /\ PointerInv /\ CopyInv

USE PiecesAssumption, MaxClockAssumption

\* The invariant holds when the first date has been written.
LEMMA InitInv == Init => IInv
<1> SUFFICES ASSUME Init PROVE IInv  OBVIOUS
<1> USE DEF Init
<1>1. TypeOK
    BY DEF TypeOK, Seconds
<1>2. WriterInv
    BY DEF WriterInv, ActiveIsWhole
<1>3. PointerInv /\ CopyInv
    BY DEF PointerInv, CopyInv
<1>4. QED  BY <1>1, <1>2, <1>3 DEF IInv

\* A reader stays overtaken while the writer goes on.
LEMMA OvertakenStays ==
    ASSUME TypeOK, NEW r \in Readers, Update, Overtaken(r)
    PROVE  Overtaken(r)'
BY DEF TypeOK, Update, BeginUpdate, WritePiece, Publish, Formatted, Overtaken, readerVars

-----------------------------------------------------------------------------
(* Every step preserves the invariant.                                       *)

\* A second that goes by keeps the invariant.
LEMMA ClockStep == IInv /\ ClockTick => IInv'
<1> SUFFICES ASSUME IInv, ClockTick PROVE IInv'  OBVIOUS
<1> USE DEF IInv, ClockTick, writerVars, readerVars
<1>1. TypeOK'
    BY DEF TypeOK, Seconds
<1>2. WriterInv' /\ PointerInv' /\ CopyInv'
    BY DEF WriterInv, ActiveIsWhole, NextBuffer, PointerInv, CopyInv, Overtaken
<1>3. QED  BY <1>1, <1>2

\* Formatting the next date keeps it.
LEMMA BeginUpdateStep == IInv /\ BeginUpdate => IInv'
<1> SUFFICES ASSUME IInv, BeginUpdate PROVE IInv'  OBVIOUS
<1> USE DEF IInv, BeginUpdate, readerVars
<1>1. TypeOK'
    BY DEF TypeOK
<1>2. WriterInv'
    BY DEF WriterInv, ActiveIsWhole, NextBuffer
<1>3. PointerInv'
    BY DEF PointerInv
<1>4. CopyInv'
    BY OvertakenStays DEF CopyInv, Update
<1>5. QED  BY <1>1, <1>2, <1>3, <1>4

\* Writing a piece of it into the inactive buffer keeps it.
LEMMA WritePieceStep == IInv /\ WritePiece => IInv'
<1> SUFFICES ASSUME IInv, WritePiece PROVE IInv'  OBVIOUS
<1> USE DEF IInv, WritePiece, readerVars
<1>1. TypeOK'
    BY DEF TypeOK
<1>2. bufs'[active] = bufs[active]
      /\ bufs'[NextBuffer] = [bufs[NextBuffer] EXCEPT ![writing + 1] = lastEpoch]
    <2>1. active \in {0, 1} /\ NextBuffer \in {0, 1} /\ active # NextBuffer /\ DOMAIN bufs = {0, 1}
        BY DEF TypeOK, NextBuffer
    <2> HIDE DEF NextBuffer, IInv
    <2>2. QED  BY <2>1
<1>3. WriterInv'
    BY <1>2 DEF WriterInv, ActiveIsWhole, NextBuffer, TypeOK
<1>4. PointerInv'
    BY <1>2 DEF PointerInv, TypeOK
<1>5. CopyInv'
    BY OvertakenStays DEF CopyInv, Update
<1>6. QED  BY <1>1, <1>3, <1>4, <1>5

\* The swap: the buffer that was active is the other one now, and still whole.
LEMMA PublishStep == IInv /\ Publish => IInv'
<1> SUFFICES ASSUME IInv, Publish PROVE IInv'  OBVIOUS
<1> USE DEF IInv, Publish, Formatted, readerVars
<1>1. TypeOK' /\ NextBuffer' = active
    BY DEF TypeOK, NextBuffer
<1>2. WriterInv'
    BY <1>1 DEF WriterInv, ActiveIsWhole, NextBuffer, TypeOK
<1>3. PointerInv'
    BY <1>1 DEF PointerInv, WriterInv, ActiveIsWhole, CopyInv, TypeOK
<1>4. CopyInv'
    BY OvertakenStays DEF CopyInv, Update, TypeOK
<1>5. QED  BY <1>1, <1>2, <1>3, <1>4

\* A reader that takes the pointer, copies a piece or has copied them all keeps it.
LEMMA ReadStep == ASSUME IInv, NEW r \in Readers, Read(r) PROVE IInv'
<1> USE DEF IInv
<1>1. UNCHANGED <<clock, writerVars>>
    BY DEF Read, Get, CopyPiece, Copied
<1>2. WriterInv'
    BY <1>1 DEF WriterInv, ActiveIsWhole, NextBuffer, writerVars
<1>3. CASE Get(r)
    <2> USE <1>1, <1>3 DEF Get, writerVars
    <2>1. TypeOK'
        BY DEF TypeOK
    <2>2. PointerInv'
        BY DEF PointerInv, TypeOK, NextBuffer
    <2>3. CopyInv'
        BY DEF CopyInv, TypeOK, Overtaken
    <2>4. QED  BY <1>2, <2>1, <2>2, <2>3
<1>4. CASE CopyPiece(r)
    <2> USE <1>1, <1>4 DEF CopyPiece, writerVars
    <2>1. bufs[ptr[r]][Len(copy[r]) + 1] \in Seconds
        BY DEF TypeOK
    <2>2. copy'[r] = Append(copy[r], bufs[ptr[r]][Len(copy[r]) + 1])
          /\ \A q \in Readers : q # r => copy'[q] = copy[q]
        BY DEF TypeOK
    <2>3. TypeOK'
        BY <2>1, <2>2, AppendProperties DEF TypeOK
    <2>4. PointerInv'
        BY DEF PointerInv, NextBuffer
    <2>5. ~Overtaken(r) => bufs[ptr[r]][Len(copy[r]) + 1] = floor[r]
        <3> SUFFICES ASSUME ~Overtaken(r)
                     PROVE  bufs[ptr[r]][Len(copy[r]) + 1] = floor[r]
            OBVIOUS
        <3>1. Len(copy[r]) + 1 \in 1 .. Pieces
            BY DEF TypeOK
        <3>2. CASE since[r] = published
            BY <3>1, <3>2 DEF WriterInv, ActiveIsWhole, PointerInv
        <3>3. CASE since[r] + 1 = published /\ writing = -1
            BY <3>1, <3>3 DEF PointerInv
        <3>4. QED  BY <3>2, <3>3 DEF TypeOK, CopyInv, Overtaken
    <2>6. CopyInv'
        <3>1. UNCHANGED <<since, published, floor>>
            OBVIOUS
        <3>2. \A q \in Readers : Overtaken(q)' = Overtaken(q)
            BY <3>1 DEF Overtaken
        <3>3. /\ copy[r] \in Seq(Seconds) /\ copy'[r] = Append(copy[r], bufs[ptr[r]][Len(copy[r]) + 1])
              /\ \A q \in Readers : q # r => copy'[q] = copy[q]
            BY <2>2 DEF TypeOK
        <3>4. QED  BY <2>1, <2>5, <3>1, <3>2, <3>3, AppendProperties DEF CopyInv
    <2>7. QED  BY <1>2, <2>3, <2>4, <2>6
<1>5. CASE Copied(r)
    <2> USE <1>1, <1>5 DEF Copied, writerVars
    <2>1. TypeOK' /\ PointerInv' /\ CopyInv'
        BY DEF TypeOK, PointerInv, CopyInv, Overtaken, NextBuffer
    <2>2. QED  BY <1>2, <2>1
<1>6. QED  BY <1>3, <1>4, <1>5 DEF Read

\* Every step keeps the invariant.
LEMMA NextInv == IInv /\ [Next]_vars => IInv'
<1> SUFFICES ASSUME IInv, [Next]_vars PROVE IInv'  OBVIOUS
<1>1. CASE ClockTick
    BY <1>1, ClockStep
<1>2. CASE Update
    BY <1>2, BeginUpdateStep, WritePieceStep, PublishStep DEF Update
<1>3. CASE \E r \in Readers : Read(r)
    BY <1>3, ReadStep
<1>4. CASE UNCHANGED vars
    BY <1>4 DEF vars, writerVars, readerVars, IInv, TypeOK, WriterInv, ActiveIsWhole, NextBuffer,
                PointerInv, CopyInv, Overtaken
<1>5. QED  BY <1>1, <1>2, <1>3, <1>4 DEF Next

\* Every reachable state of the cache and its readers satisfies the invariant.
THEOREM Invariance == Spec => []IInv
BY InitInv, NextInv, PTL DEF Spec

-----------------------------------------------------------------------------
(* What the runs check on small instances.                                   *)

\* Every variable keeps its type.
THEOREM TypeCorrect == Spec => []TypeOK
BY Invariance, PTL DEF IInv

\* The buffer that get() hands out holds one date, the last one published, at
\* every moment: update() only ever formats the other one.
THEOREM ActiveWhole == Spec => []ActiveIsWhole
<1>1. IInv => ActiveIsWhole
    BY DEF IInv, WriterInv
<1>2. QED  BY <1>1, Invariance, PTL

\* A reader that copies from its pointer piece by piece, at any speed, gets a
\* mixture of two dates only if a whole second and a swap have gone by since.
THEOREM CopiesClean == Spec => []CleanUnlessOvertaken
<1>1. IInv => CleanUnlessOvertaken
    BY DEF IInv, CopyInv, CleanUnlessOvertaken, Clean
<1>2. QED  BY <1>1, Invariance, PTL

\* ... and what it gets is the date that was current when it called get().
THEOREM CopiesCurrent == Spec => []NoneStale
<1>1. IInv => NoneStale
    <2> SUFFICES ASSUME IInv, NEW r \in Readers, copy[r] # <<>>, ~Overtaken(r)
                 PROVE  copy[r][Len(copy[r])] = floor[r]
        BY DEF NoneStale
    <2>1. copy[r] \in Seq(Seconds) /\ Len(copy[r]) \in 1 .. Len(copy[r])
        BY EmptySeq, LenProperties DEF IInv, TypeOK
    <2>2. QED  BY <2>1 DEF IInv, CopyInv
<1>2. QED  BY <1>1, Invariance, PTL

-----------------------------------------------------------------------------
(* The cache in a server.                                                    *)

\* Whatever the timer does, update() and its readers behave as DateCache says:
\* the four theorems above hold in every run of a server.
THEOREM TimerImplements == TimerSpec => Spec
<1>1. TimerInit => Init
    BY DEF TimerInit
<1>2. [TimerNext]_<<vars, timerVars>> => [Next]_vars
    <2> SUFFICES ASSUME [TimerNext]_<<vars, timerVars>> PROVE [Next]_vars  OBVIOUS
    <2>1. CASE TickUpdate
        BY <2>1 DEF TickUpdate, Next
    <2>2. CASE Second
        BY <2>2 DEF Second, Next
    <2>3. CASE Arm \/ Leave \/ Handler
        BY <2>3 DEF Arm, Leave, Handler
    <2>4. QED  BY <2>1, <2>2, <2>3 DEF TimerNext
<1>3. QED  BY <1>1, <1>2, PTL DEF TimerSpec, Spec
=============================================================================
