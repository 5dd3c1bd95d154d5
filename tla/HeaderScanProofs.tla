-------------------------- MODULE HeaderScanProofs --------------------------
(* Theorems of HeaderScan, for every stream, every way of cutting it into     *)
(* reads and every block width.                                              *)
EXTENDS HeaderScan, TLAPS

-----------------------------------------------------------------------------
(* The inductive invariant: what the scan knows of the bytes behind it.       *)

NoneBefore(n) == \A p \in Nat : p < n => ~Terminator(p, size)

Scanned ==
    /\ pc \in {"block", "scalar"} => NoneBefore(i)
    /\ pc \in {"read", "full"} => NoneBefore(size)
    /\ pc = "found" => end >= 4 /\ Terminator(end - 4, size) /\ NoneBefore(end - 4)

IInv == TypeOK /\ Scanned

USE StreamsAssumption, WidthAssumption, MaxSizeAssumption

\* A terminator takes four bytes, so none begins in the last three.
LEMMA TerminatorBounds ==
    ASSUME NEW p \in Nat, NEW n \in Nat, Terminator(p, n)
    PROVE  p + 3 < n
BY DEF Terminator

\* More bytes behind it do not change whether a terminator stands where it could
\* have been seen before.
LEMMA TerminatorStable ==
    ASSUME NEW p \in Nat, NEW m \in Nat, NEW n \in Nat, p + 3 < m, Terminator(p, n)
    PROVE  Terminator(p, m)
BY DEF Terminator

\* The invariant holds before anything is scanned.
LEMMA InitInv == Init => IInv
<1> SUFFICES ASSUME Init PROVE IInv  OBVIOUS
<1>1. stream \in Seq(Bytes) /\ size \in Nat
    BY DEF Init
<1>2. TypeOK
    BY <1>1 DEF Init, TypeOK, AfterRead
<1>3. Scanned
    <2>1. CASE size < 4
        <3>1. NoneBefore(size)
            BY <1>1, <2>1, TerminatorBounds DEF NoneBefore
        <3>2. QED  BY <2>1, <3>1 DEF Init, AfterRead, Scanned
    <2>2. CASE ~(size < 4)
        BY <2>2 DEF Init, AfterRead, Scanned, NoneBefore
    <2>3. QED  BY <2>1, <2>2
<1>4. QED  BY <1>2, <1>3 DEF IInv

\* Every step keeps the invariant.
LEMMA NextInv == IInv /\ [Next]_vars => IInv'
<1> SUFFICES ASSUME IInv, [Next]_vars PROVE IInv'  OBVIOUS
<1> USE DEF IInv
<1>1. /\ stream \in Seq(Bytes) /\ Len(stream) \in Nat
      /\ size \in Nat /\ i \in Nat /\ end \in Nat
    BY DEF TypeOK
<1>2. CASE Full
    BY <1>2 DEF Full, TypeOK, Scanned, NoneBefore, Terminator, Byte
<1>3. CASE Read
    <2> PICK n \in 1 .. Len(stream) - size : size' = size + n /\ pc' = AfterRead(size + n)
        BY <1>3 DEF Read
    <2>1. /\ pc = "read" /\ i' = BackUp(size) /\ stream' = stream /\ end' = end
          /\ n \in Nat /\ size' \in Nat /\ size + n \in 0 .. Len(stream)
        BY <1>1, <1>3 DEF Read
    <2>2. TypeOK'
        BY <1>1, <2>1 DEF TypeOK, AfterRead, BackUp
    <2>3. \A p \in Nat : p < BackUp(size) => p + 3 < size
        BY <1>1 DEF BackUp
    <2>4. \A p \in Nat : p < i' => ~Terminator(p, size')
        <3> SUFFICES ASSUME NEW p \in Nat, p < i', Terminator(p, size') PROVE FALSE
            OBVIOUS
        <3>1. p + 3 < size
            BY <2>1, <2>3
        <3>2. Terminator(p, size)
            BY <1>1, <2>1, <3>1, TerminatorStable
        <3>3. p < size
            BY <1>1, <3>1
        <3>4. QED  BY <2>1, <3>2, <3>3 DEF Scanned, NoneBefore
    <2>5. Scanned'
        <3>1. CASE size' < 4
            <4>1. \A p \in Nat : ~Terminator(p, size')
                BY <2>1, <3>1, TerminatorBounds
            <4>2. pc' = "read"
                BY <3>1 DEF AfterRead
            <4>3. QED
                BY <2>1, <4>1, <4>2 DEF Scanned, NoneBefore, Terminator, Byte
        <3>2. CASE ~(size' < 4)
            <4>1. pc' = "block"
                BY <3>2 DEF AfterRead
            <4>2. QED
                BY <2>1, <2>4, <4>1 DEF Scanned, NoneBefore, Terminator, Byte
        <3>3. QED  BY <3>1, <3>2
    <2>6. QED  BY <2>2, <2>5
<1>4. CASE BlockHit
    <2>1. PICK p \in i .. i + Width - 1 :
              /\ Terminator(p, size) /\ end' = p + 4
              /\ \A q \in i .. p - 1 : ~Terminator(q, size)
        BY <1>4 DEF BlockHit
    <2>2. p \in Nat /\ end' - 4 = p
        BY <1>1, <2>1
    <2>3. \A q \in Nat : q < p => ~Terminator(q, size)
        <3> SUFFICES ASSUME NEW q \in Nat, q < p PROVE ~Terminator(q, size)
            OBVIOUS
        <3>1. CASE q < i
            BY <1>4, <3>1 DEF BlockHit, Scanned, NoneBefore
        <3>2. CASE q >= i
            BY <1>1, <2>1, <2>2, <3>2
        <3>3. QED  BY <1>1, <3>1, <3>2
    <2>4. pc' = "found" /\ UNCHANGED <<stream, size, i>>
        BY <1>4 DEF BlockHit
    <2>5. TypeOK'
        BY <1>1, <2>1, <2>2, <2>4 DEF TypeOK
    <2>6. Terminator(p, size)' /\ \A q \in Nat : q < p => ~Terminator(q, size')
        BY <2>1, <2>3, <2>4 DEF Terminator, Byte
    <2>7. QED
        BY <2>1, <2>2, <2>3, <2>4, <2>5 DEF Scanned, NoneBefore, Terminator, Byte
<1>5. CASE BlockMiss
    <2>1. /\ pc = "block" /\ i' = i + Width /\ UNCHANGED <<stream, size, pc, end>>
          /\ \A p \in i .. i + Width - 1 : ~Terminator(p, size)
        BY <1>5 DEF BlockMiss
    <2>2. \A p \in Nat : p < i + Width => ~Terminator(p, size)
        <3> SUFFICES ASSUME NEW p \in Nat, p < i + Width PROVE ~Terminator(p, size)
            OBVIOUS
        <3>1. CASE p < i
            BY <2>1, <3>1 DEF Scanned, NoneBefore
        <3>2. CASE p >= i
            BY <1>1, <2>1, <3>2
        <3>3. QED  BY <1>1, <3>1, <3>2
    <2>3. TypeOK'
        BY <1>1, <2>1 DEF TypeOK
    <2>4. QED
        BY <2>1, <2>2, <2>3 DEF Scanned, NoneBefore, Terminator, Byte
<1>6. CASE LastBlock
    BY <1>6 DEF LastBlock, TypeOK, Scanned, NoneBefore, Terminator, Byte
<1>7. CASE ScalarHit
    <2>1. /\ pc = "scalar" /\ pc' = "found" /\ end' = i + 4 /\ Terminator(i, size)
          /\ UNCHANGED <<stream, size, i>>
        BY <1>7 DEF ScalarHit
    <2>2. end' - 4 = i /\ end' >= 4 /\ end' \in Nat
        BY <1>1, <2>1
    <2>3. QED
        BY <2>1, <2>2 DEF TypeOK, Scanned, NoneBefore, Terminator, Byte
<1>8. CASE ScalarMiss
    <2>1. /\ pc = "scalar" /\ i' = i + 1 /\ ~Terminator(i, size)
          /\ UNCHANGED <<stream, size, pc, end>>
        BY <1>8 DEF ScalarMiss
    <2>2. \A p \in Nat : p < i + 1 => ~Terminator(p, size)
        <3> SUFFICES ASSUME NEW p \in Nat, p < i + 1 PROVE ~Terminator(p, size)
            OBVIOUS
        <3>1. p < i \/ p = i
            BY <1>1
        <3>2. QED  BY <2>1, <3>1 DEF Scanned, NoneBefore
    <2>3. TypeOK'
        BY <1>1, <2>1 DEF TypeOK
    <2>4. QED
        BY <2>1, <2>2, <2>3 DEF Scanned, NoneBefore, Terminator, Byte
<1>9. CASE NotFound
    <2>1. /\ pc = "scalar" /\ i + 3 >= size /\ pc' = "read"
          /\ UNCHANGED <<stream, size, i, end>>
        BY <1>9 DEF NotFound
    <2>2. \A p \in Nat : ~Terminator(p, size)
        <3> SUFFICES ASSUME NEW p \in Nat, Terminator(p, size) PROVE FALSE
            OBVIOUS
        <3>1. p < i
            BY <1>1, <2>1, TerminatorBounds
        <3>2. QED  BY <2>1, <3>1 DEF Scanned, NoneBefore
    <2>3. QED
        BY <2>1, <2>2 DEF TypeOK, Scanned, NoneBefore, Terminator, Byte
<1>10. CASE UNCHANGED vars
    BY <1>10 DEF vars, TypeOK, Scanned, NoneBefore, Terminator, Byte
<1>11. QED
    BY <1>2, <1>3, <1>4, <1>5, <1>6, <1>7, <1>8, <1>9, <1>10 DEF Next, Ended

\* The invariant holds in every state: nothing the scan has left behind holds a
\* terminator, however the stream was cut.
THEOREM Invariance == Spec => []IInv
<1>1. QED  BY InitInv, NextInv, PTL DEF Spec

-----------------------------------------------------------------------------
(* What follows from it.                                                     *)

\* Every variable of the scan keeps its type.
THEOREM TypeCorrect == Spec => []TypeOK
<1>1. IInv => TypeOK  BY DEF IInv
<1>2. QED  BY <1>1, Invariance, PTL

\* Whatever the client sends, however it is cut into reads and whatever the block
\* width, find_header_end returns the end of the first CR LF CR LF of the buffer.
THEOREM FindsFirst == Spec => []FoundIsFirst
<1>1. IInv => FoundIsFirst
    <2> SUFFICES ASSUME IInv, pc = "found"
                 PROVE  /\ Terminator(end - 4, size)
                        /\ \A p \in 0 .. size : Terminator(p, size) => p >= end - 4
        BY DEF FoundIsFirst
    <2>1. end \in Nat
        BY DEF IInv, TypeOK
    <2>2. QED  BY <2>1 DEF IInv, Scanned, NoneBefore
<1>2. QED  BY <1>1, Invariance, PTL

\* read_headers goes back to the socket, or refuses the head as too large, only
\* when the buffer holds no complete head.
THEOREM NeverWaitsInVain == Spec => []WaitsOnlyWithoutHead
<1>1. IInv => WaitsOnlyWithoutHead
    <2> SUFFICES ASSUME IInv, pc \in {"read", "full"}, NEW p \in 0 .. size, Terminator(p, size)
                 PROVE  FALSE
        BY DEF WaitsOnlyWithoutHead
    <2>1. stream \in Seq(Bytes) /\ size \in Nat /\ p \in Nat
        BY DEF IInv, TypeOK
    <2>2. p < size
        BY <2>1, TerminatorBounds
    <2>3. QED  BY <2>1, <2>2 DEF IInv, Scanned, NoneBefore
<1>2. QED  BY <1>1, Invariance, PTL
=============================================================================
