---------------------------- MODULE MCHeaderScan ----------------------------
(* Streams of up to nine bytes over CR, LF and one other: terminators           *)
(* overlap, repeat and fall across every cut and block boundary.              *)
EXTENDS HeaderScan

CONSTANT x

AllBytes == {CR, LF, x}

\* Whatever stands before, at and after one terminator.
AllStreams ==
    {a \o <<CR, LF, CR, LF>> \o b : a \in [1 .. 3 -> AllBytes], b \in [1 .. 2 -> AllBytes]}
        \cup [1 .. 6 -> AllBytes]
=============================================================================
