---------------------------- MODULE HeaderScan ----------------------------
(***************************************************************************)
(* engine::find_header_end() and the loop of server::read_headers() around  *)
(* it: the search for CR LF CR LF in a buffer that grows by whatever a read  *)
(* delivers.  Each call scans the new bytes only, backing up in case the     *)
(* terminator straddles two reads; it goes by blocks of Width bytes while a  *)
(* whole block and three more bytes are there, then byte by byte.            *)
(*                                                                           *)
(* Positions are offsets into the buffer, from 0.                            *)
(***************************************************************************)
EXTENDS Integers, Sequences

CONSTANTS
    CR, LF,    \* the two bytes the terminator is made of
    Bytes,     \* every byte a client may send
    Streams,   \* what clients may send
    Width,     \* bytes per SIMD load (16)
    MaxSize    \* server_options::max_header_size

ASSUME BytesAssumption == CR \in Bytes /\ LF \in Bytes /\ CR # LF
ASSUME StreamsAssumption == Streams \subseteq Seq(Bytes)
ASSUME WidthAssumption == Width \in Nat \ {0}
ASSUME MaxSizeAssumption == MaxSize \in Nat \ {0}

VARIABLES
    stream,   \* what this client sends
    size,     \* buffer.size(): how much of it the buffer holds
    i,        \* the scan's offset
    pc,       \* "read", "block", "scalar", "found" or "full"
    end       \* what find_header_end returned, 0 for "not found"

vars == <<stream, size, i, pc, end>>

\* The byte at offset p, and whether the terminator begins there within the
\* first n bytes.
Byte(p) == stream[p + 1]
Terminator(p, n) ==
    /\ p \in Nat /\ p + 3 < n
    /\ Byte(p) = CR /\ Byte(p + 1) = LF /\ Byte(p + 2) = CR /\ Byte(p + 3) = LF

\* Where a scan of bytes from offset s on begins.
TwoBack(s) == IF s > 3 THEN s - 2 ELSE 0
Unclamped(s) == s - 3
BackUp(s) == IF s > 3 THEN s - 3 ELSE 0

\* Where the loop goes with n bytes in the buffer: a scan needs four.
AfterRead(n) == IF n < 4 THEN "read" ELSE "block"

\* The buffer may hold the start of a pipelined request: it is scanned first.
Init ==
    /\ stream \in Streams
    /\ size \in 0 .. Len(stream)
    /\ i = 0 /\ end = 0
    /\ pc = AfterRead(size)

Full ==
    /\ pc = "read" /\ size >= MaxSize
    /\ pc' = "full"
    /\ UNCHANGED <<stream, size, i, end>>

Read ==
    /\ pc = "read" /\ size < MaxSize
    /\ \E n \in 1 .. Len(stream) - size :
          /\ size' = size + n
          /\ pc' = AfterRead(size + n)
    /\ i' = BackUp(size)
    /\ UNCHANGED <<stream, end>>

\* Whole blocks are scanned while they and the bytes a match at their end would
\* need are in the buffer.
BlockFits(p) == p + Width + 3 < size

BlockHit ==
    /\ pc = "block" /\ BlockFits(i)
    /\ \E p \in i .. i + Width - 1 :
          /\ Terminator(p, size)
          /\ \A q \in i .. p - 1 : ~Terminator(q, size)
          /\ end' = p + 4
    /\ pc' = "found"
    /\ UNCHANGED <<stream, size, i>>

BlockMiss ==
    /\ pc = "block" /\ BlockFits(i)
    /\ \A p \in i .. i + Width - 1 : ~Terminator(p, size)
    /\ i' = i + Width
    /\ UNCHANGED <<stream, size, pc, end>>

LastBlock ==
    /\ pc = "block" /\ ~BlockFits(i)
    /\ pc' = "scalar"
    /\ UNCHANGED <<stream, size, i, end>>

ScalarHit ==
    /\ pc = "scalar" /\ Terminator(i, size)
    /\ pc' = "found" /\ end' = i + 4
    /\ UNCHANGED <<stream, size, i>>

ScalarMiss ==
    /\ pc = "scalar" /\ i + 3 < size /\ ~Terminator(i, size)
    /\ i' = i + 1
    /\ UNCHANGED <<stream, size, pc, end>>

NotFound ==
    /\ pc = "scalar" /\ i + 3 >= size
    /\ pc' = "read"
    /\ UNCHANGED <<stream, size, i, end>>

\* The head has been found, or refused, or the client sends no more.
Ended ==
    /\ pc \in {"found", "full"} \/ (pc = "read" /\ size = Len(stream))
    /\ UNCHANGED vars

Next ==
    \/ Full \/ Read
    \/ BlockHit \/ BlockMiss \/ LastBlock
    \/ ScalarHit \/ ScalarMiss \/ NotFound
    \/ Ended

Spec == Init /\ [][Next]_vars

-----------------------------------------------------------------------------
(* Properties                                                                *)

\* Every variable keeps its type; the buffer is a prefix of the stream.
TypeOK ==
    /\ stream \in Streams /\ size \in 0 .. Len(stream)
    /\ i \in Nat /\ end \in Nat
    /\ pc \in {"read", "block", "scalar", "found", "full"}

\* However the stream is cut into reads and wherever the blocks fall, what is
\* found is the end of the FIRST terminator of the stream, as one scan of all
\* of it would find.
FoundIsFirst ==
    pc = "found" =>
        /\ Terminator(end - 4, size)
        /\ \A p \in 0 .. size : Terminator(p, size) => p >= end - 4

\* The loop waits for more bytes only when the buffer holds no complete head:
\* a request that has arrived is never left lying.
WaitsOnlyWithoutHead ==
    pc \in {"read", "full"} => \A p \in 0 .. size : ~Terminator(p, size)
=============================================================================
