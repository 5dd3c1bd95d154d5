-------------------------- MODULE WebSocketProofs --------------------------
(* Theorems of WebSocket, for every set of scripts, every limit on the size  *)
(* of a message and every number of frames the handler sends.                *)
EXTENDS WebSocket, SequenceLemmas

-----------------------------------------------------------------------------
(* What the properties select, one element at a time.                        *)

\* The frames this side may write.
OutFrames == {Sent(op, code, n) : op \in Opcodes, code \in Nat, n \in 0 .. LengthLimit}

PongsOf(o) == Those(o, {k \in DOMAIN o : o[k].op = "pong"})
ClosesOf(o) == Those(o, {k \in DOMAIN o : o[k].op = "close" /\ o[k].code # NormalClosure})
PingsOf(r) == Those(r, {k \in DOMAIN r : r[k].op = "ping"})
MessagesOf(r) == Those(r, {k \in DOMAIN r : IsMessage(r[k])})

Sizes(s) == [k \in DOMAIN s |-> s[k].size]
Contents(s) == [k \in DOMAIN s |-> [op |-> s[k].op, size |-> s[k].size]]

\* A frame written is one more pong, one more closing frame or neither.
LEMMA OutAppended ==
    ASSUME NEW o, o \in Seq(OutFrames), NEW e \in OutFrames
    PROVE  /\ PongsOf(o) \in Seq(OutFrames) /\ ClosesOf(o) \in Seq(OutFrames)
           /\ PongsOf(Append(o, e)) = IF e.op = "pong" THEN Append(PongsOf(o), e) ELSE PongsOf(o)
           /\ ClosesOf(Append(o, e)) =
                 IF e.op = "close" /\ e.code # NormalClosure
                 THEN Append(ClosesOf(o), e) ELSE ClosesOf(o)
<1>1. PICK t : t = Append(o, e)
    OBVIOUS
<1>2. /\ DOMAIN o = 1 .. Len(o) /\ Len(o) \in Nat
      /\ DOMAIN t = 1 .. Len(o) + 1 /\ t[Len(o) + 1] = e
      /\ \A k \in 1 .. Len(o) : t[k] = o[k] /\ k # Len(o) + 1
    BY <1>1
<1>3. /\ PongsOf(o) \in Seq(OutFrames)
      /\ PongsOf(t) = IF e.op = "pong" THEN Append(PongsOf(o), e) ELSE PongsOf(o)
    <2> DEFINE K == {k \in DOMAIN o : o[k].op = "pong"}
               M == {k \in DOMAIN t : t[k].op = "pong"}
    <2>1. /\ \A k \in 1 .. Len(o) : k \in K <=> k \in M
          /\ Len(o) + 1 \in M <=> e.op = "pong"
        BY <1>2
    <2>2. PongsOf(o) = Those(o, K) /\ PongsOf(t) = Those(t, M)
        BY DEF PongsOf
    <2> HIDE DEF K, M
    <2>3. QED  BY <1>1, <2>1, <2>2, ThoseAppend
<1>4. /\ ClosesOf(o) \in Seq(OutFrames)
      /\ ClosesOf(t) = IF e.op = "close" /\ e.code # NormalClosure
                       THEN Append(ClosesOf(o), e) ELSE ClosesOf(o)
    <2> DEFINE K == {k \in DOMAIN o : o[k].op = "close" /\ o[k].code # NormalClosure}
               M == {k \in DOMAIN t : t[k].op = "close" /\ t[k].code # NormalClosure}
    <2>1. /\ \A k \in 1 .. Len(o) : k \in K <=> k \in M
          /\ Len(o) + 1 \in M <=> e.op = "close" /\ e.code # NormalClosure
        BY <1>2
    <2>2. ClosesOf(o) = Those(o, K) /\ ClosesOf(t) = Those(t, M)
        BY DEF ClosesOf
    <2> HIDE DEF K, M
    <2>3. QED  BY <1>1, <2>1, <2>2, ThoseAppend
<1>5. QED  BY <1>1, <1>3, <1>4

\* A frame read is one more ping, one more message or neither.
LEMMA ReadAppended ==
    ASSUME NEW r, r \in Seq(Frame), NEW f \in Frame
    PROVE  /\ PingsOf(r) \in Seq(Frame) /\ MessagesOf(r) \in Seq(Frame)
           /\ PingsOf(Append(r, f)) = IF f.op = "ping" THEN Append(PingsOf(r), f) ELSE PingsOf(r)
           /\ MessagesOf(Append(r, f)) =
                 IF IsMessage(f) THEN Append(MessagesOf(r), f) ELSE MessagesOf(r)
<1>1. PICK t : t = Append(r, f)
    OBVIOUS
<1>2. /\ DOMAIN r = 1 .. Len(r) /\ Len(r) \in Nat
      /\ DOMAIN t = 1 .. Len(r) + 1 /\ t[Len(r) + 1] = f
      /\ \A k \in 1 .. Len(r) : t[k] = r[k] /\ k # Len(r) + 1
    BY <1>1
<1>3. /\ PingsOf(r) \in Seq(Frame)
      /\ PingsOf(t) = IF f.op = "ping" THEN Append(PingsOf(r), f) ELSE PingsOf(r)
    <2> DEFINE K == {k \in DOMAIN r : r[k].op = "ping"}
               M == {k \in DOMAIN t : t[k].op = "ping"}
    <2>1. /\ \A k \in 1 .. Len(r) : k \in K <=> k \in M
          /\ Len(r) + 1 \in M <=> f.op = "ping"
        BY <1>2
    <2>2. PingsOf(r) = Those(r, K) /\ PingsOf(t) = Those(t, M)
        BY DEF PingsOf
    <2> HIDE DEF K, M
    <2>3. QED  BY <1>1, <2>1, <2>2, ThoseAppend
<1>4. /\ MessagesOf(r) \in Seq(Frame)
      /\ MessagesOf(t) = IF IsMessage(f) THEN Append(MessagesOf(r), f) ELSE MessagesOf(r)
    <2> DEFINE K == {k \in DOMAIN r : IsMessage(r[k])}
               M == {k \in DOMAIN t : IsMessage(t[k])}
    <2>1. /\ \A k \in 1 .. Len(r) : k \in K <=> k \in M
          /\ Len(r) + 1 \in M <=> IsMessage(f)
        BY <1>2
    <2>2. MessagesOf(r) = Those(r, K) /\ MessagesOf(t) = Those(t, M)
        BY DEF MessagesOf
    <2> HIDE DEF K, M
    <2>3. QED  BY <1>1, <2>1, <2>2, ThoseAppend
<1>5. QED  BY <1>1, <1>3, <1>4

\* What is read off the elements grows with the sequence.
LEMMA Mapped ==
    ASSUME NEW S, NEW s, s \in Seq(S), NEW e \in S
    PROVE  /\ Sizes(Append(s, e)) = Append(Sizes(s), e.size)
           /\ Contents(Append(s, e)) = Append(Contents(s), [op |-> e.op, size |-> e.size])
           /\ Len(Sizes(s)) = Len(s) /\ Len(Contents(s)) = Len(s)
<1>1. PICK N \in Nat : N = Len(s) /\ DOMAIN s = 1 .. N
    OBVIOUS
<1>2. PICK t : t = Append(s, e)
    OBVIOUS
<1>3. /\ DOMAIN t = 1 .. N + 1 /\ t[N + 1] = e
      /\ \A k \in 1 .. N : t[k] = s[k]
    BY <1>1, <1>2
<1>4. Sizes(t) = Append(Sizes(s), e.size) /\ Len(Sizes(s)) = N
    BY <1>1, <1>3 DEF Sizes
<1>5. Contents(t) = Append(Contents(s), [op |-> e.op, size |-> e.size]) /\ Len(Contents(s)) = N
    BY <1>1, <1>3 DEF Contents
<1>6. QED  BY <1>1, <1>2, <1>4, <1>5

-----------------------------------------------------------------------------
(* Lengths.                                                                  *)

\* v holds the values of the first of the N bytes of b after its first.
Values(b, N, v) ==
    v[0] = 0 /\ \A k \in 1 .. N : v[k] = v[k - 1] * 256 + b[k + 1]

\* DecodeLength is what its recursion says.
LEMMA DecodeRecursion ==
    ASSUME NEW b, b \in Seq(Nat), NEW N \in Nat, Len(b) = N + 1
    PROVE  \E v : /\ Values(b, N, v)
                  /\ DecodeLength(b) = IF b[1] < 126 THEN b[1] ELSE v[N]
<1>1. N = Len(b) - 1
    OBVIOUS
<1> DEFINE Step(x, k) == x * 256 + b[k + 1]
           Body(h) == [k \in 0 .. N |-> IF k = 0 THEN 0 ELSE Step(h[k - 1], k)]
<1>2. DecodeLength(b) = IF b[1] < 126 THEN b[1] ELSE (CHOOSE h : h = Body(h))[N]
    <2>1. DecodeLength(b) =
            IF b[1] < 126 THEN b[1]
            ELSE (CHOOSE h : h = [k \in 0 .. Len(b) - 1 |->
                    IF k = 0 THEN 0 ELSE h[k - 1] * 256 + b[k + 1]])[Len(b) - 1]
        BY DEF DecodeLength
    <2>2. QED  BY <1>1, <2>1
<1>3. \A x \in Nat, k \in 1 .. N : Step(x, k) \in Nat
    <2>1. \A k \in 1 .. N : b[k + 1] \in Nat
        BY <1>1
    <2>2. QED  BY <2>1
<1> HIDE DEF Step
<1>4. PICK u : u \in [0 .. N -> Nat] /\ u[0] = 0 /\ \A k \in 1 .. N : u[k] = Step(u[k - 1], k)
    <2> DEFINE g == [p \in Nat \X (1 .. N) |-> Step(p[1], p[2])]
    <2>1. g \in [Nat \X (1 .. N) -> Nat] /\ \A x \in Nat, k \in 1 .. N : g[<<x, k>>] = Step(x, k)
        BY <1>3
    <2> HIDE DEF g
    <2>2. Foldable(Nat, 0, N, g)
        BY <2>1 DEF Foldable
    <2>3. PICK u : Fold(Nat, 0, N, g, u)
        BY <2>2, FoldExists
    <2>4. \A k \in 1 .. N : u[k - 1] \in Nat
        <3>1. \A k \in 1 .. N : k - 1 \in 0 .. N
            OBVIOUS
        <3>2. QED  BY <2>3, <3>1 DEF Fold
    <2>5. QED  BY <2>1, <2>3, <2>4 DEF Fold
<1>5. u = Body(u)
    BY <1>4
<1>6. PICK h : h = Body(h) /\ DecodeLength(b) = IF b[1] < 126 THEN b[1] ELSE h[N]
    <2> HIDE DEF Body
    <2>1. QED  BY <1>2, <1>5
<1>7. h[0] = 0 /\ \A k \in 1 .. N : h[k] = Step(h[k - 1], k)
    BY <1>6
<1>8. QED  BY <1>6, <1>7 DEF Step, Values

\* Division with a remainder.
LEMMA Divided ==
    ASSUME NEW n \in Nat, NEW d \in Nat \ {0}
    PROVE  \E q \in Nat, r \in Nat : q = n \div d /\ r = n % d /\ r < d /\ n = q * d + r
BY SMT

\* Dividing twice is dividing by the product, here for the steps of one byte.
LEMMA DividedTwice ==
    ASSUME NEW q \in Nat, NEW b \in Nat, NEW s \in Nat, NEW p \in Nat, NEW r \in Nat, b < 256
    PROVE  /\ s < 256 /\ r < 65536 /\ (q * 256 + b) * 256 + s = p * 65536 + r => q = p
           /\ s < 65536 /\ r < 16777216 /\ (q * 256 + b) * 65536 + s = p * 16777216 + r => q = p
BY SMT

\* b0 is the lowest byte of n, b1 the next; the two forms consist of them.
BytesOf(n, b0, b1, b2, b3) ==
    /\ n = ((b3 * 256 + b2) * 256 + b1) * 256 + b0
    /\ n <= 65535 => n = b1 * 256 + b0
ShortForm(n, b0, b1) ==
    LET b == BigEndian(n, 2) IN b \in Seq(Nat) /\ Len(b) = 2 /\ b[1] = b1 /\ b[2] = b0
LongForm(n, b0, b1, b2, b3) ==
    LET b == BigEndian(n, 8)
    IN  /\ b \in Seq(Nat) /\ Len(b) = 8
        /\ b[1] = 0 /\ b[2] = 0 /\ b[3] = 0 /\ b[4] = 0
        /\ b[5] = b3 /\ b[6] = b2 /\ b[7] = b1 /\ b[8] = b0

\* The elements of a sequence of numbers with one put in front.
LEMMA Prefixed ==
    ASSUME NEW x \in Nat, NEW B, B \in Seq(Nat), NEW m \in Nat, Len(B) = m,
           NEW b, b = <<x>> \o B
    PROVE  /\ b \in Seq(Nat) /\ Len(b) = m + 1 /\ b[1] = x
           /\ \A k \in 1 .. m : b[k + 1] = B[k]
OBVIOUS

\* A number below 2^31 is made of its four lowest bytes.
LEMMA FourBytes ==
    ASSUME NEW n \in Nat, n <= LengthLimit
    PROVE  \E b0, b1, b2, b3 \in Nat :
               BytesOf(n, b0, b1, b2, b3) /\ ShortForm(n, b0, b1) /\ LongForm(n, b0, b1, b2, b3)
<1>1. n \div 1 = n
    BY SMT
<1>2. PICK q1 \in Nat, b0 \in Nat :
          q1 = n \div 256 /\ b0 = n % 256 /\ b0 < 256 /\ n = q1 * 256 + b0
    BY Divided, SMT
<1>3. PICK q2 \in Nat, r2 \in Nat :
          q2 = n \div 65536 /\ r2 = n % 65536 /\ r2 < 65536 /\ n = q2 * 65536 + r2
    BY Divided, SMT
<1>4. PICK q3 \in Nat, r3 \in Nat :
          q3 = n \div 16777216 /\ r3 = n % 16777216 /\ r3 < 16777216 /\ n = q3 * 16777216 + r3
    BY Divided, SMT
<1>5. PICK c1 \in Nat, b1 \in Nat :
          c1 = q1 \div 256 /\ b1 = q1 % 256 /\ b1 < 256 /\ q1 = c1 * 256 + b1
    BY Divided, SMT
<1>6. PICK c2 \in Nat, b2 \in Nat :
          c2 = q2 \div 256 /\ b2 = q2 % 256 /\ b2 < 256 /\ q2 = c2 * 256 + b2
    BY Divided, SMT
<1>7. PICK c3 \in Nat, b3 \in Nat :
          c3 = q3 \div 256 /\ b3 = q3 % 256 /\ b3 < 256 /\ q3 = c3 * 256 + b3
    BY Divided, SMT
<1>8. c1 = q2
    <2>1. (c1 * 256 + b1) * 256 + b0 = q2 * 65536 + r2
        BY <1>2, <1>3, <1>5, SMT
    <2>2. QED  BY <1>2, <1>3, <1>5, <2>1, DividedTwice, SMT
<1>9. c2 = q3
    <2>1. (c2 * 256 + b2) * 65536 + r2 = q3 * 16777216 + r3
        BY <1>3, <1>4, <1>6, SMT
    <2>2. QED  BY <1>3, <1>4, <1>6, <2>1, DividedTwice, SMT
<1>10. c3 = 0
    <2>1. (c3 * 256 + b3) * 16777216 + r3 <= 2147483647
        BY <1>4, <1>7, SMT DEF LengthLimit
    <2>2. QED  BY <2>1, SMT
<1>11. n = ((b3 * 256 + b2) * 256 + b1) * 256 + b0
    <2>1. q3 = b3
        BY <1>7, <1>10, SMT
    <2>2. q2 = b3 * 256 + b2
        BY <1>6, <1>9, <2>1, SMT
    <2>3. q1 = (b3 * 256 + b2) * 256 + b1
        BY <1>5, <1>8, <2>2, SMT
    <2>4. QED  BY <1>2, <2>3, SMT
<1>12. n <= 65535 => n = b1 * 256 + b0
    <2>1. n <= 65535 => q2 = 0
        BY <1>3, SMT
    <2>2. QED  BY <1>2, <1>5, <1>8, <2>1, SMT
<1>13. /\ (n \div Places[1]) % 256 = b0 /\ (n \div Places[2]) % 256 = b1
       /\ (n \div Places[3]) % 256 = b2 /\ (n \div Places[4]) % 256 = b3
    <2>1. n \div Places[1] = n /\ n \div Places[2] = q1
        BY <1>1, <1>2, SMT DEF Places
    <2>2. n \div Places[3] = q2 /\ n \div Places[4] = q3
        BY <1>3, <1>4, SMT DEF Places
    <2>3. n % 256 = b0 /\ q1 % 256 = b1 /\ q2 % 256 = b2 /\ q3 % 256 = b3
        BY <1>2, <1>5, <1>6, <1>7, SMT
    <2>4. QED  BY <2>1, <2>2, <2>3, Zenon
<1> DEFINE Byte(k) == (n \div Places[k]) % 256
<1>14. Byte(1) = b0 /\ Byte(2) = b1 /\ Byte(3) = b2 /\ Byte(4) = b3
    BY <1>13, Zenon
<1>15. /\ BigEndian(n, 2) = [k \in 1 .. 2 |-> IF 2 - k > 3 THEN 0 ELSE Byte(2 - k + 1)]
       /\ BigEndian(n, 8) = [k \in 1 .. 8 |-> IF 8 - k > 3 THEN 0 ELSE Byte(8 - k + 1)]
    BY DEF BigEndian
<1> HIDE DEF Byte
<1>16. ShortForm(n, b0, b1)
    <2>1. PICK b : b = [k \in 1 .. 2 |-> IF 2 - k > 3 THEN 0 ELSE Byte(2 - k + 1)]
        OBVIOUS
    <2>2. b[1] = Byte(2) /\ b[2] = Byte(1)
        BY ONLY <2>1, SMT
    <2>3. b \in [1 .. 2 -> Nat]
        <3>1. \A k \in 1 .. 2 : Byte(k) \in Nat
            BY <1>14, SMT
        <3>2. \A k \in 1 .. 2 : (IF 2 - k > 3 THEN 0 ELSE Byte(2 - k + 1)) \in Nat
            BY ONLY <3>1, SMT
        <3>3. QED  BY ONLY <2>1, <3>2, SMT
    <2>4. b \in Seq(Nat) /\ Len(b) = 2
        BY <2>3, FunctionIsSequence
    <2>5. b[1] = b1 /\ b[2] = b0 /\ b = BigEndian(n, 2)
        BY <1>14, <1>15, <2>1, <2>2, Zenon
    <2>6. QED  BY <2>4, <2>5, Zenon DEF ShortForm
<1>17. LongForm(n, b0, b1, b2, b3)
    <2>1. PICK b : b = [k \in 1 .. 8 |-> IF 8 - k > 3 THEN 0 ELSE Byte(8 - k + 1)]
        OBVIOUS
    <2>2. b[1] = 0 /\ b[2] = 0 /\ b[3] = 0 /\ b[4] = 0
        BY ONLY <2>1, SMT
    <2>3. b[5] = Byte(4) /\ b[6] = Byte(3) /\ b[7] = Byte(2) /\ b[8] = Byte(1)
        BY ONLY <2>1, SMT
    <2>4. b \in [1 .. 8 -> Nat]
        <3>1. \A k \in 1 .. 4 : Byte(k) \in Nat
            BY <1>14, SMT
        <3>2. \A k \in 1 .. 8 : (IF 8 - k > 3 THEN 0 ELSE Byte(8 - k + 1)) \in Nat
            BY ONLY <3>1, SMT
        <3>3. QED  BY ONLY <2>1, <3>2, SMT
    <2>5. b \in Seq(Nat) /\ Len(b) = 8
        BY <2>4, FunctionIsSequence
    <2>6. b[5] = b3 /\ b[6] = b2 /\ b[7] = b1 /\ b[8] = b0 /\ b = BigEndian(n, 8)
        BY <1>14, <1>15, <2>1, <2>3, Zenon
    <2>7. QED  BY <2>2, <2>5, <2>6, Zenon DEF LongForm
<1>18. BytesOf(n, b0, b1, b2, b3)
    BY <1>11, <1>12 DEF BytesOf
<1>19. QED  BY <1>16, <1>17, <1>18, Zenon

\* The peer decodes the length that write_frame announces, in each of its forms.
LEMMA LengthDecoded ==
    ASSUME NEW n \in Nat, n <= LengthLimit
    PROVE  DecodeLength(LengthBytes(n)) = n
<1>1. PICK d0 \in Nat, d1 \in Nat, d2 \in Nat, d3 \in Nat :
          BytesOf(n, d0, d1, d2, d3) /\ ShortForm(n, d0, d1) /\ LongForm(n, d0, d1, d2, d3)
    BY FourBytes, Zenon
<1>2. PICK b : b = LengthBytes(n)
    OBVIOUS
<1>3. CASE n < 126
    <2>1. b \in Seq(Nat) /\ Len(b) = 0 + 1 /\ b[1] = n
        BY <1>2, <1>3 DEF LengthBytes
    <2>2. PICK v : DecodeLength(b) = IF b[1] < 126 THEN b[1] ELSE v[0]
        BY <2>1, DecodeRecursion
    <2>3. QED  BY <1>2, <1>3, <2>1, <2>2
<1>4. CASE n >= 126 /\ n <= 65535
    <2>1. PICK B : B = BigEndian(n, 2)
        OBVIOUS
    <2>2. b = <<126>> \o B
        BY <1>2, <1>4, <2>1, SMT DEF LengthBytes, Fits16
    <2>3. B \in Seq(Nat) /\ Len(B) = 2 /\ B[1] = d1 /\ B[2] = d0
        BY <1>1, <2>1, Zenon DEF ShortForm
    <2>4. b \in Seq(Nat) /\ Len(b) = 2 + 1 /\ b[1] = 126 /\ b[2] = d1 /\ b[3] = d0
        <3>1. /\ b \in Seq(Nat) /\ Len(b) = 2 + 1 /\ b[1] = 126
              /\ \A k \in 1 .. 2 : b[k + 1] = B[k]
            <4>1. PICK x \in Nat, m \in Nat : x = 126 /\ m = 2
                OBVIOUS
            <4>2. b = <<x>> \o B /\ Len(B) = m
                BY <2>2, <2>3, <4>1
            <4>3. /\ b \in Seq(Nat) /\ Len(b) = m + 1 /\ b[1] = x
                  /\ \A k \in 1 .. m : b[k + 1] = B[k]
                BY <2>3, <4>2, Prefixed
            <4>4. QED  BY <4>1, <4>3
        <3>2. QED  BY <2>3, <3>1, SMT
    <2>5. PICK v : Values(b, 2, v) /\ DecodeLength(b) = IF b[1] < 126 THEN b[1] ELSE v[2]
        <3>1. b \in Seq(Nat) /\ 2 \in Nat /\ Len(b) = 2 + 1
            BY <2>4
        <3>2. QED  BY <3>1, DecodeRecursion, Zenon
    <2>6. v[0] = 0 /\ v[1] = v[0] * 256 + d1 /\ v[2] = v[1] * 256 + d0
        BY ONLY <2>4, <2>5, SMT DEF Values
    <2>7. DecodeLength(b) = v[2]
        BY ONLY <2>4, <2>5, SMT
    <2>8. v[2] = d1 * 256 + d0
        BY <2>6, SMT
    <2>9. QED  BY <1>1, <1>2, <1>4, <2>7, <2>8, SMT DEF BytesOf
<1>5. CASE n > 65535
    <2>1. PICK B : B = BigEndian(n, 8)
        OBVIOUS
    <2>2. b = <<127>> \o B
        BY <1>2, <1>5, <2>1, SMT DEF LengthBytes, Fits16
    <2>3. /\ B \in Seq(Nat) /\ Len(B) = 8
          /\ B[1] = 0 /\ B[2] = 0 /\ B[3] = 0 /\ B[4] = 0
          /\ B[5] = d3 /\ B[6] = d2 /\ B[7] = d1 /\ B[8] = d0
        BY <1>1, <2>1, Zenon DEF LongForm
    <2>4. b \in Seq(Nat) /\ Len(b) = 8 + 1 /\ b[1] = 127 /\ \A k \in 1 .. 8 : b[k + 1] = B[k]
        <3>1. PICK x \in Nat, m \in Nat : x = 127 /\ m = 8
            OBVIOUS
        <3>2. b = <<x>> \o B /\ Len(B) = m
            BY <2>2, <2>3, <3>1
        <3>3. /\ b \in Seq(Nat) /\ Len(b) = m + 1 /\ b[1] = x
              /\ \A k \in 1 .. m : b[k + 1] = B[k]
            BY <2>3, <3>2, Prefixed
        <3>4. QED  BY <3>1, <3>3
    <2>5. PICK v : Values(b, 8, v) /\ DecodeLength(b) = IF b[1] < 126 THEN b[1] ELSE v[8]
        <3>1. b \in Seq(Nat) /\ 8 \in Nat /\ Len(b) = 8 + 1
            BY <2>4
        <3>2. QED  BY <3>1, DecodeRecursion, Zenon
    <2>6. v[0] = 0 /\ \A k \in 1 .. 8 : v[k] = v[k - 1] * 256 + B[k]
        BY ONLY <2>4, <2>5, SMT DEF Values
    <2>7. v[1] = 0 /\ v[2] = 0 /\ v[3] = 0 /\ v[4] = 0
        BY ONLY <2>3, <2>6, SMT
    <2>8. /\ v[5] = v[4] * 256 + d3 /\ v[6] = v[5] * 256 + d2
          /\ v[7] = v[6] * 256 + d1 /\ v[8] = v[7] * 256 + d0
        BY ONLY <2>3, <2>6, SMT
    <2>9. DecodeLength(b) = v[8]
        BY ONLY <2>4, <2>5, SMT
    <2>10. v[8] = ((d3 * 256 + d2) * 256 + d1) * 256 + d0
        BY <2>7, <2>8, SMT
    <2>11. QED  BY <1>1, <1>2, <2>9, <2>10, SMT DEF BytesOf
<1>6. QED  BY <1>3, <1>4, <1>5

-----------------------------------------------------------------------------
(* The inductive invariant.                                                  *)

Whole == got \div 2     \* frames read to their end
Acting == {"complete", "deliver", "pong", "close1003", "echoClose"}

\* Where read() is in the script, and what it knows of the frame it is at: none
\* of those before it ends the connection, and what is done suits the frame.
ReadInv ==
    /\ got % 2 = 0 \/ got % 2 = 1
    /\ pc \in Acting \cup {"user", "header"} => got % 2 = 0
    /\ pc \in {"payload", "close1009"} => got % 2 = 1
    /\ pc \in Acting =>
          /\ Whole > 0 /\ frame = [op |-> script[Whole].op, fin |-> script[Whole].fin]
          /\ size = script[Whole].size
    /\ pc = "payload" =>
          /\ frame = [op |-> script[Whole + 1].op, fin |-> script[Whole + 1].fin]
          /\ size = script[Whole + 1].size
    /\ \A k \in 1 .. Whole : script[k].size <= MaxMessage
    /\ \A k \in 1 .. Whole - 1 : ~Ends(script[k])
    /\ pc \in {"user", "header", "payload", "deliver", "pong", "close1009"} /\ Whole > 0 =>
          ~Ends(script[Whole])
    /\ pc = "deliver" => frame.op \in Data
    /\ pc = "pong" => frame.op = "ping"
    /\ pc = "echoClose" => frame.op = "close"
    /\ pc = "close1003" => frame.op # "close" /\ Ends(script[Whole])
    /\ pc = "close1009" => script[Whole + 1].size > MaxMessage

\* A message that is complete and not delivered is the only one missing.
MessageInv ==
    Contents(MessagesOf(FramesRead)) =
        IF pc \in {"complete", "deliver"} /\ IsMessage(script[Whole])
        THEN Append(delivered, [op |-> frame.op, size |-> size])
        ELSE delivered

\* A ping is unanswered only while its pong is due, or if the peer is gone.
PongInv ==
    LET answered == Sizes(PongsOf(out))
        asked == Sizes(PingsOf(FramesRead))
    IN  IF pc \in {"complete", "pong"} /\ frame.op = "ping"
        THEN asked = Append(answered, size)
        ELSE \/ asked = answered
             \/ /\ peer = "reset" /\ pc \in {"nullopt", "ended"}
                /\ asked # <<>> /\ asked = Append(answered, asked[Len(asked)])

\* read() sends one close frame at most, and gives up with it.
CloseInv ==
    LET closes == ClosesOf(out)
    IN  /\ \/ closes = <<>>
           \/ /\ pc \in {"nullopt", "ended"} /\ Ends(Culprit) /\ Len(closes) = 1
              /\ closes[1].code = IF Culprit.size > MaxMessage THEN 1009
                                  ELSE IF Culprit.op = "close" THEN 0 ELSE 1003
        /\ pc = "nullopt" /\ peer = "open" => closes # <<>>

SequencesTyped ==
    /\ out \in Seq(OutFrames)
    /\ delivered \in Seq([op : Data, size : 0 .. MaxMessage])

IInv == TypeOK /\ SequencesTyped /\ ReadInv /\ MessageInv /\ PongInv /\ CloseInv

-----------------------------------------------------------------------------
(* The frames read.                                                          *)

\* The limit on lengths is a number with room for a close code.
LEMMA LimitType == LengthLimit \in Nat /\ 2 <= LengthLimit
BY SMT DEF LengthLimit

\* max_message_size_ is a number within that limit.
LEMMA MaxMessageType == MaxMessage \in Nat /\ MaxMessage <= LengthLimit
BY LimitType, MaxMessageAssumption

\* A frame has two pieces: an even count of them is whole frames.
LEMMA Halves ==
    ASSUME NEW g \in Nat
    PROVE  /\ g \div 2 \in Nat /\ g % 2 \in {0, 1} /\ g = 2 * (g \div 2) + (g % 2)
           /\ g % 2 = 0 => (g + 1) % 2 = 1 /\ (g + 1) \div 2 = g \div 2
           /\ g % 2 = 1 => (g + 1) % 2 = 0 /\ (g + 1) \div 2 = (g \div 2) + 1
BY SMT

\* The types of the script, of what has arrived of it and of the frames read.
LEMMA ScriptTyped ==
    ASSUME TypeOK
    PROVE  /\ script \in Seq(Frame) /\ Len(script) \in Nat /\ got \in Nat /\ arrived \in Nat
           /\ Whole \in 0 .. Len(script) /\ FramesRead \in Seq(Frame) /\ Len(FramesRead) = Whole
           /\ \A k \in 1 .. Whole : FramesRead[k] = script[k]
           /\ \A k \in 1 .. Len(script) :
                 script[k] \in Frame /\ script[k].op \in Opcodes /\ script[k].fin \in BOOLEAN
                 /\ script[k].size \in Nat /\ DecodeLength(script[k].length) = script[k].size
<1>1. script \in Seq(Frame)
    BY ScriptsAssumption DEF TypeOK
<1>2. Len(script) \in Nat /\ \A k \in 1 .. Len(script) : script[k] \in Frame
    BY <1>1
<1>3. arrived \in 0 .. 2 * Len(script) /\ got \in 0 .. arrived
    BY DEF TypeOK
<1>4. got \in Nat /\ arrived \in Nat /\ got <= 2 * Len(script)
    BY <1>2, <1>3
<1>5. Whole \in 0 .. Len(script)
    <2>1. Whole \in Nat /\ got % 2 \in {0, 1} /\ got = 2 * Whole + (got % 2)
        BY <1>4, Halves DEF Whole
    <2>2. QED  BY <1>2, <1>4, <2>1
<1>6. FramesRead = SubSeq(script, 1, Whole)
    BY DEF FramesRead, Whole
<1>7. /\ FramesRead \in Seq(Frame) /\ Len(FramesRead) = Whole
      /\ \A k \in 1 .. Whole : FramesRead[k] = script[k]
    <2> HIDE DEF FramesRead, Whole
    <2>1. QED  BY <1>1, <1>2, <1>5, <1>6
<1>8. \A k \in 1 .. Len(script) :
          script[k].op \in Opcodes /\ script[k].fin \in BOOLEAN
          /\ script[k].size \in Nat /\ DecodeLength(script[k].length) = script[k].size
    BY <1>2 DEF Frame
<1>9. QED  BY <1>1, <1>2, <1>4, <1>5, <1>7, <1>8

\* Of a frame, its first piece changes nothing of what has been read whole; its
\* second piece adds it.
LEMMA PieceRead ==
    ASSUME TypeOK, got < arrived, got' = got + 1, script' = script
    PROVE  /\ got % 2 = 0 => /\ got' % 2 = 1 /\ Whole' = Whole /\ FramesRead' = FramesRead
                             /\ Whole + 1 <= Len(script)
           /\ got % 2 = 1 => /\ got' % 2 = 0 /\ Whole' = Whole + 1 /\ Whole + 1 <= Len(script)
                             /\ FramesRead' = Append(FramesRead, script[Whole + 1])
<1>1. /\ script \in Seq(Frame) /\ Len(script) \in Nat /\ got \in Nat /\ arrived \in Nat
      /\ Whole \in 0 .. Len(script)
    BY ScriptTyped
<1>2. got < 2 * Len(script)
    BY <1>1 DEF TypeOK
<1>3. /\ got % 2 \in {0, 1} /\ got = 2 * Whole + (got % 2)
      /\ got % 2 = 0 => (got + 1) % 2 = 1 /\ (got + 1) \div 2 = Whole
      /\ got % 2 = 1 => (got + 1) % 2 = 0 /\ (got + 1) \div 2 = Whole + 1
    BY <1>1, Halves DEF Whole
<1>4. Whole' = (got + 1) \div 2
    BY DEF Whole
<1>5. FramesRead = SubSeq(script, 1, Whole) /\ FramesRead' = SubSeq(script, 1, Whole')
    BY DEF FramesRead, Whole
<1>6. Whole + 1 <= Len(script)
    BY <1>1, <1>2, <1>3
<1>7. SubSeq(script, 1, Whole + 1) = Append(SubSeq(script, 1, Whole), script[Whole + 1])
    <2>1. PICK n \in Nat : n = Whole
        BY <1>1
    <2>2. SubSeq(script, 1, n + 1) = Append(SubSeq(script, 1, n), script[n + 1])
        BY <1>1, <1>6, <2>1
    <2>3. QED  BY <2>1, <2>2
<1>8. QED  BY <1>3, <1>4, <1>5, <1>6, <1>7

\* The invariant holds after the handshake.
LEMMA InitInv == Init => IInv
<1> SUFFICES ASSUME Init PROVE IInv  OBVIOUS
<1>1. script \in Seq(Frame) /\ Len(script) \in Nat
    BY ScriptsAssumption DEF Init
<1>2. TypeOK
    BY <1>1, MaxMessageAssumption, MaxSendsAssumption DEF Init, TypeOK, PCs, NoFrame, Opcodes, Data
<1>3. SequencesTyped
    BY DEF Init, SequencesTyped
<1>4. got = 0 /\ 0 % 2 = 0 /\ 0 \div 2 = 0 /\ Whole = 0
    BY DEF Init, Whole
<1>5. ReadInv
    BY <1>4 DEF Init, ReadInv, Acting
<1>6. FramesRead = <<>>
    BY <1>1, <1>4 DEF FramesRead
<1>7. PongsOf(out) = <<>> /\ ClosesOf(out) = <<>> /\ PingsOf(FramesRead) = <<>>
      /\ MessagesOf(FramesRead) = <<>>
    BY <1>6, ThoseOfNone DEF Init, PongsOf, ClosesOf, PingsOf, MessagesOf
<1>8. Sizes(<<>>) = <<>> /\ Contents(<<>>) = <<>>
    BY DEF Sizes, Contents
<1>9. MessageInv /\ PongInv /\ CloseInv
    BY <1>7, <1>8 DEF Init, MessageInv, PongInv, CloseInv
<1>10. QED  BY <1>2, <1>3, <1>5, <1>9 DEF IInv

-----------------------------------------------------------------------------
(* Every step preserves the invariant.                                       *)

\* Unless a piece is read, what has been read is what it was.
LEMMA SameReads ==
    ASSUME UNCHANGED <<script, got>>
    PROVE  /\ Whole' = Whole /\ FramesRead' = FramesRead /\ Culprit' = Culprit
           /\ \A k : (Ends(script[k]))' = Ends(script[k])
           /\ \A k : (IsMessage(script[k]))' = IsMessage(script[k])
           /\ MessagesOf(FramesRead)' = MessagesOf(FramesRead)
           /\ PingsOf(FramesRead)' = PingsOf(FramesRead)
BY DEF Whole, FramesRead, Culprit, Ends, IsMessage, MessagesOf, PingsOf

\* Unless a frame is written, what has been written is what it was.
LEMMA SameOut ==
    ASSUME UNCHANGED out
    PROVE  PongsOf(out)' = PongsOf(out) /\ ClosesOf(out)' = ClosesOf(out)
BY DEF PongsOf, ClosesOf

\* The peer's doings and the handler's that send nothing.
Quiet == CallRead \/ HandlerEnds \/ LoopEnds \/ ReadFails \/ PeerEnds \/ PeerResets

\* These steps keep the invariant.
LEMMA QuietInv == IInv /\ Quiet => IInv'
<1> SUFFICES ASSUME IInv, Quiet PROVE IInv'  OBVIOUS
<1>1. TypeOK /\ SequencesTyped /\ ReadInv /\ MessageInv /\ PongInv /\ CloseInv
    BY DEF IInv
<1>2. /\ UNCHANGED <<script, got, frame, size, out, delivered, sends>>
      /\ \/ pc = "user" /\ pc' = "header" /\ UNCHANGED <<arrived, peer>>
         \/ pc = "user" /\ pc' = "ended" /\ UNCHANGED <<arrived, peer>>
         \/ pc = "nullopt" /\ pc' = "ended" /\ UNCHANGED <<arrived, peer>>
         \/ pc \in {"header", "payload"} /\ peer # "open" /\ pc' = "nullopt" /\ UNCHANGED <<arrived, peer>>
         \/ pc' = pc /\ peer = "open" /\ peer' = "eof" /\ arrived' \in got .. 2 * Len(script)
         \/ pc' = pc /\ peer' = "reset" /\ arrived' = got
    BY DEF Quiet, CallRead, HandlerEnds, LoopEnds, ReadFails, PeerEnds, PeerResets, frameVars, peerVars
<1>3. TypeOK'
    <2>1. arrived' \in 0 .. 2 * Len(script) /\ got \in 0 .. arrived'
        <3>1. got \in Nat /\ arrived \in Nat /\ Len(script) \in Nat
            BY <1>1, ScriptTyped
        <3>2. arrived \in 0 .. 2 * Len(script) /\ got \in 0 .. arrived
            BY <1>1 DEF TypeOK
        <3>3. QED  BY <1>2, <3>1, <3>2
    <2>2. peer' \in {"open", "eof", "reset"} /\ pc' \in PCs
        BY <1>1, <1>2 DEF TypeOK, PCs
    <2>3. QED  BY <1>1, <1>2, <2>1, <2>2 DEF TypeOK
<1>4. SequencesTyped'
    BY <1>1, <1>2 DEF SequencesTyped
<1>5. ReadInv'
    <2>1. pc' \notin Acting \/ pc' = pc
        BY <1>2 DEF Acting
    <2>2. QED  BY <1>1, <1>2, <2>1, SameReads DEF ReadInv, Acting
<1>6. MessageInv'
    <2>1. pc \in {"complete", "deliver"} <=> pc' \in {"complete", "deliver"}
        BY <1>2
    <2>2. QED  BY <1>1, <1>2, <2>1, SameReads DEF MessageInv
<1>7. PongInv'
    <2>1. pc \in {"complete", "pong"} <=> pc' \in {"complete", "pong"}
        BY <1>2
    <2>2. peer = "reset" /\ pc \in {"nullopt", "ended"} => peer' = "reset" /\ pc' \in {"nullopt", "ended"}
        BY <1>2
    <2>3. QED  BY <1>1, <1>2, <2>1, <2>2, SameReads, SameOut DEF PongInv
<1>8. CloseInv'
    BY <1>1, <1>2, SameReads, SameOut DEF CloseInv
<1>9. QED  BY <1>3, <1>4, <1>5, <1>6, <1>7, <1>8 DEF IInv

\* Reading a header keeps it, also that of a payload too long to be read.
LEMMA ReadHeaderInv == IInv /\ ReadHeader => IInv'
<1> SUFFICES ASSUME IInv, ReadHeader PROVE IInv'  OBVIOUS
<1>1. TypeOK /\ SequencesTyped /\ ReadInv /\ MessageInv /\ PongInv /\ CloseInv
    BY DEF IInv
<1> DEFINE f == script[Whole + 1]
<1>2. /\ pc = "header" /\ got < arrived /\ got' = got + 1
      /\ frame' = [op |-> f.op, fin |-> f.fin]
      /\ IF DecodeLength(f.length) > MaxMessage
         THEN pc' = "close1009" /\ size' = 0
         ELSE pc' = "payload" /\ size' = DecodeLength(f.length)
      /\ UNCHANGED <<script, arrived, peer, out, delivered, sends>>
    BY DEF ReadHeader, TooBig, Whole, peerVars
<1>3. /\ got % 2 = 0 /\ got' % 2 = 1 /\ Whole' = Whole /\ FramesRead' = FramesRead
      /\ Whole + 1 <= Len(script)
    BY <1>1, <1>2, PieceRead DEF ReadInv
<1>4. /\ Whole \in Nat /\ f.op \in Opcodes /\ f.fin \in BOOLEAN /\ f.size \in Nat
      /\ DecodeLength(f.length) = f.size
    BY <1>1, <1>3, ScriptTyped
<1> HIDE DEF f
<1>5. MaxMessage \in Nat
    BY MaxMessageType
<1>6. \/ pc' = "close1009" /\ size' = 0 /\ f.size > MaxMessage
      \/ pc' = "payload" /\ size' = f.size /\ f.size <= MaxMessage
    BY <1>2, <1>4, <1>5
<1>7. TypeOK'
    <2>1. got' \in 0 .. arrived'
        BY <1>1, <1>2, ScriptTyped
    <2>2. size' \in 0 .. MaxMessage /\ pc' \in PCs
        BY <1>4, <1>5, <1>6 DEF PCs, CloseReasons
    <2>3. frame' \in [op : Opcodes, fin : BOOLEAN]
        BY <1>2, <1>4
    <2>4. QED  BY <1>1, <1>2, <2>1, <2>2, <2>3 DEF TypeOK
<1>8. SequencesTyped'
    BY <1>1, <1>2 DEF SequencesTyped
<1>9. \A k : (Ends(script[k]))' = Ends(script[k])
    BY <1>2 DEF Ends
<1>10. ReadInv'
    BY <1>1, <1>2, <1>3, <1>6, <1>9 DEF ReadInv, Acting, f
<1>11. MessageInv'
    BY <1>1, <1>2, <1>3, <1>6 DEF MessageInv, MessagesOf, IsMessage, Ends
<1>12. PongInv'
    <2>1. PingsOf(FramesRead)' = PingsOf(FramesRead)
        BY <1>3 DEF PingsOf
    <2>2. QED  BY <1>1, <1>2, <1>6, <2>1, SameOut DEF PongInv
<1>13. CloseInv'
    BY <1>1, <1>2, <1>6, SameOut DEF CloseInv
<1>14. QED  BY <1>7, <1>8, <1>10, <1>11, <1>12, <1>13 DEF IInv

\* Reading a payload keeps it: a ping or a message becomes due.
LEMMA ReadPayloadInv == IInv /\ ReadPayload => IInv'
<1> SUFFICES ASSUME IInv, ReadPayload PROVE IInv'  OBVIOUS
<1>1. TypeOK /\ SequencesTyped /\ ReadInv /\ MessageInv /\ PongInv /\ CloseInv
    BY DEF IInv
<1> DEFINE f == script[Whole + 1]
<1>2. /\ pc = "payload" /\ got < arrived /\ got' = got + 1 /\ pc' = "complete"
      /\ UNCHANGED <<script, arrived, peer, frame, size, out, delivered, sends>>
    BY DEF ReadPayload, frameVars, peerVars
<1>3. /\ got % 2 = 1 /\ got' % 2 = 0 /\ Whole' = Whole + 1 /\ Whole + 1 <= Len(script)
      /\ FramesRead' = Append(FramesRead, f)
    BY <1>1, <1>2, PieceRead DEF ReadInv
<1>4. /\ Whole \in Nat /\ f \in Frame /\ FramesRead \in Seq(Frame)
      /\ frame = [op |-> f.op, fin |-> f.fin] /\ size = f.size /\ frame.op = f.op
      /\ size \in 0 .. MaxMessage
    BY <1>1, <1>2, <1>3, ScriptTyped DEF ReadInv, TypeOK
<1> HIDE DEF f
<1>5. f.size <= MaxMessage
    BY <1>4, MaxMessageType
<1>6. TypeOK'
    <2>1. got' \in 0 .. arrived'
        BY <1>1, <1>2, ScriptTyped
    <2>2. QED  BY <1>1, <1>2, <2>1 DEF TypeOK, PCs
<1>7. SequencesTyped'
    BY <1>1, <1>2 DEF SequencesTyped
<1>8. \A k : (Ends(script[k]))' = Ends(script[k]) /\ (IsMessage(script[k]))' = IsMessage(script[k])
    BY <1>2 DEF Ends, IsMessage
<1>9. ReadInv'
    <2>1. Whole' > 0 /\ script'[Whole'] = f
        BY <1>2, <1>3, <1>4 DEF f
    <2>2. \A k \in 1 .. Whole' : script'[k].size <= MaxMessage
        <3>1. \A k \in 1 .. Whole' : k \in 1 .. Whole \/ k = Whole + 1
            BY <1>3, <1>4
        <3>2. QED  BY <1>1, <1>2, <1>5, <3>1 DEF ReadInv, f
    <2>3. \A k \in 1 .. Whole' - 1 : ~(Ends(script[k]))'
        <3>1. \A k \in 1 .. Whole' - 1 : k \in 1 .. Whole - 1 \/ (k = Whole /\ Whole > 0)
            BY <1>3, <1>4
        <3>2. QED  BY <1>1, <1>2, <1>8, <3>1 DEF ReadInv
    <2>4. QED  BY <1>1, <1>2, <1>3, <1>4, <2>1, <2>2, <2>3 DEF ReadInv, Acting
<1>10. MessageInv'
    <2>1. Contents(MessagesOf(FramesRead)) = delivered
        BY <1>1, <1>2 DEF MessageInv
    <2>2. /\ MessagesOf(FramesRead)' = MessagesOf(Append(FramesRead, f))
          /\ (IsMessage(script[Whole]))' = IsMessage(f)
        BY <1>2, <1>3 DEF f, MessagesOf, IsMessage, Ends
    <2>3. /\ MessagesOf(FramesRead) \in Seq(Frame)
          /\ MessagesOf(Append(FramesRead, f)) =
                IF IsMessage(f) THEN Append(MessagesOf(FramesRead), f) ELSE MessagesOf(FramesRead)
        BY <1>4, ReadAppended
    <2>4. Contents(Append(MessagesOf(FramesRead), f)) = Append(delivered, [op |-> frame.op, size |-> size])
        BY <1>4, <2>1, <2>3, Mapped
    <2>5. QED  BY <1>2, <2>1, <2>2, <2>3, <2>4 DEF MessageInv, Contents
<1>11. PongInv'
    <2>1. Sizes(PingsOf(FramesRead)) = Sizes(PongsOf(out))
        BY <1>1, <1>2 DEF PongInv
    <2>2. PingsOf(FramesRead)' = PingsOf(Append(FramesRead, f))
        BY <1>3 DEF PingsOf
    <2>3. /\ PingsOf(FramesRead) \in Seq(Frame)
          /\ PingsOf(Append(FramesRead, f)) =
                IF f.op = "ping" THEN Append(PingsOf(FramesRead), f) ELSE PingsOf(FramesRead)
        BY <1>4, ReadAppended
    <2>4. Sizes(Append(PingsOf(FramesRead), f)) = Append(Sizes(PongsOf(out)), size)
        <3>1. Sizes(Append(PingsOf(FramesRead), f)) = Append(Sizes(PingsOf(FramesRead)), f.size)
            BY <1>4, <2>3, Mapped
        <3>2. QED  BY <1>4, <2>1, <3>1
    <2>5. QED  BY <1>2, <1>4, <2>1, <2>2, <2>3, <2>4, SameOut DEF PongInv, Sizes
<1>12. CloseInv'
    BY <1>1, <1>2, SameOut DEF CloseInv
<1>13. QED  BY <1>6, <1>7, <1>9, <1>10, <1>11, <1>12 DEF IInv

\* What read() decides to do with a frame suits the frame.
LEMMA CompleteInv == IInv /\ Complete => IInv'
<1> SUFFICES ASSUME IInv, Complete PROVE IInv'  OBVIOUS
<1>1. TypeOK /\ SequencesTyped /\ ReadInv /\ MessageInv /\ PongInv /\ CloseInv
    BY DEF IInv
<1> DEFINE f == script[Whole]
<1>2. /\ pc = "complete" /\ pc' = Act(frame.op, frame.fin)
      /\ UNCHANGED <<script, arrived, peer, got, frame, size, out, delivered, sends>>
    BY DEF Complete, frameVars, peerVars
<1>3. /\ Whole > 0 /\ got % 2 = 0 /\ Whole \in 1 .. Len(script) /\ Whole \in Nat
      /\ frame.op = f.op /\ frame.fin = f.fin /\ f.op \in Opcodes /\ f.fin \in BOOLEAN
      /\ f.size \in Nat /\ f.size <= MaxMessage
    <2>1. Whole > 0 /\ Whole \in 0 .. Len(script) /\ Len(script) \in Nat
        BY <1>1, <1>2, ScriptTyped DEF ReadInv, Acting
    <2>2. Whole \in 1 .. Len(script) /\ Whole \in 1 .. Whole
        BY <2>1
    <2>3. QED  BY <1>1, <1>2, <2>1, <2>2, ScriptTyped DEF ReadInv, Acting
<1> HIDE DEF f
<1>4. MaxMessage \in Nat
    BY MaxMessageType
<1>5. \/ pc' = "pong" /\ f.op = "ping" /\ ~Ends(f) /\ ~IsMessage(f)
      \/ pc' = "echoClose" /\ f.op = "close" /\ ~IsMessage(f)
      \/ pc' = "header" /\ f.op = "pong" /\ ~Ends(f) /\ ~IsMessage(f)
      \/ pc' = "close1003" /\ f.op \notin {"close", "ping"} /\ Ends(f) /\ ~IsMessage(f)
      \/ pc' = "deliver" /\ f.op \in Data /\ ~Ends(f) /\ IsMessage(f)
    <2>1. ~(f.size > MaxMessage) /\ pc' = Act(f.op, f.fin)
        BY <1>2, <1>3, <1>4
    <2>2. CASE f.op = "ping"
        BY <2>1, <2>2 DEF Act, Data, Ends, IsMessage
    <2>3. CASE f.op = "close"
        BY <2>1, <2>3 DEF Act, Data, Ends, IsMessage
    <2>4. CASE f.op = "pong"
        BY <2>1, <2>4 DEF Act, Data, Ends, IsMessage
    <2>5. CASE f.op = "continuation"
        BY <2>1, <2>5 DEF Act, Data, Ends, IsMessage
    <2>6. CASE f.op \in Data /\ f.fin = FALSE
        BY <2>1, <2>6 DEF Act, Data, Ends, IsMessage
    <2>7. CASE f.op \in Data /\ f.fin = TRUE
        <3>1. Act(f.op, TRUE) = "deliver"
            BY <2>7 DEF Act, Data
        <3>2. QED  BY <2>1, <2>7, <3>1 DEF Data, Ends, IsMessage
    <2>8. QED  BY <1>3, <2>2, <2>3, <2>4, <2>5, <2>6, <2>7 DEF Opcodes
<1>6. TypeOK'
    BY <1>1, <1>2, <1>5 DEF TypeOK, PCs, CloseReasons
<1>7. SequencesTyped'
    BY <1>1, <1>2 DEF SequencesTyped
<1>8. ReadInv'
    BY <1>1, <1>2, <1>3, <1>5, SameReads DEF ReadInv, Acting, f
<1>9. MessageInv'
    BY <1>1, <1>2, <1>5, SameReads DEF MessageInv, f
<1>10. PongInv'
    <2>1. frame.op = "ping" <=> pc' = "pong"
        BY <1>3, <1>5 DEF Data
    <2>2. QED  BY <1>1, <1>2, <2>1, <1>5, SameReads, SameOut DEF PongInv
<1>11. CloseInv'
    BY <1>1, <1>2, <1>5, SameReads, SameOut DEF CloseInv
<1>12. QED  BY <1>6, <1>7, <1>8, <1>9, <1>10, <1>11 DEF IInv

\* Returning a message keeps it: nothing is due any more.
LEMMA DeliverInv == IInv /\ Deliver => IInv'
<1> SUFFICES ASSUME IInv, Deliver PROVE IInv'  OBVIOUS
<1>1. TypeOK /\ SequencesTyped /\ ReadInv /\ MessageInv /\ PongInv /\ CloseInv
    BY DEF IInv
<1>2. /\ pc = "deliver" /\ pc' = "user"
      /\ delivered' = Append(delivered, [op |-> frame.op, size |-> size])
      /\ UNCHANGED <<script, arrived, peer, got, frame, size, out, sends>>
    BY DEF Deliver, frameVars, peerVars
<1>3. Whole > 0 /\ frame.op \in Data /\ ~Ends(script[Whole]) /\ frame.op = script[Whole].op
    BY <1>1, <1>2 DEF ReadInv, Acting
<1>4. TypeOK'
    BY <1>1, <1>2 DEF TypeOK, PCs
<1>5. SequencesTyped'
    <2>1. [op |-> frame.op, size |-> size] \in [op : Data, size : 0 .. MaxMessage]
        BY <1>1, <1>3 DEF TypeOK
    <2>2. QED  BY <1>1, <1>2, <2>1 DEF SequencesTyped
<1>6. ReadInv'
    BY <1>1, <1>2, SameReads DEF ReadInv, Acting
<1>7. MessageInv'
    BY <1>1, <1>2, <1>3, SameReads DEF MessageInv, IsMessage
<1>8. PongInv'
    BY <1>1, <1>2, <1>3, SameReads, SameOut DEF PongInv
<1>9. CloseInv'
    BY <1>1, <1>2, SameReads, SameOut DEF CloseInv
<1>10. QED  BY <1>4, <1>5, <1>6, <1>7, <1>8, <1>9 DEF IInv

\* What is written has a length its peer can take.
LEMMA SentType ==
    ASSUME NEW op \in Opcodes, NEW code \in Nat, NEW n \in Nat, n <= LengthLimit
    PROVE  /\ Sent(op, code, n) \in OutFrames
           /\ Sent(op, code, n).op = op /\ Sent(op, code, n).code = code
           /\ Sent(op, code, n).size = n
<1>1. n \in 0 .. LengthLimit
    BY LimitType
<1>2. QED  BY <1>1 DEF Sent, OutFrames

\* The last element of a sequence, and what comes before it.
LEMMA LastType ==
    ASSUME NEW S, NEW s \in Seq(S), s # <<>>
    PROVE  s[Len(s)] \in S /\ Len(s) \in 1 .. Len(s) /\ s = Append(SubSeq(s, 1, Len(s) - 1), s[Len(s)])
OBVIOUS

\* What the handler sends is no pong and not the close of read().
LEMMA HandlerSendsInv == IInv /\ HandlerSends => IInv'
<1> SUFFICES ASSUME IInv, HandlerSends PROVE IInv'  OBVIOUS
<1>1. TypeOK /\ SequencesTyped /\ ReadInv /\ MessageInv /\ PongInv /\ CloseInv
    BY DEF IInv
<1>2. /\ pc = "user" /\ sends < MaxSends /\ sends' = sends + 1
      /\ UNCHANGED <<script, arrived, peer, got, pc, frame, size, delivered>>
    BY DEF HandlerSends, frameVars, peerVars
<1>3. PICK e \in OutFrames : /\ out' = Append(out, e) /\ e.op # "pong"
                             /\ e.op = "close" => e.code = NormalClosure
    <2>1. CASE \E op \in Data :
                  \E n \in {0} \cup (IF delivered = <<>> THEN {} ELSE {Last(delivered).size}) :
                      Write(Sent(op, 0, n))
        <3>1. PICK op \in Data, n \in {0} \cup (IF delivered = <<>> THEN {} ELSE {Last(delivered).size}) :
                  Write(Sent(op, 0, n))
            BY <2>1
        <3>2. n \in Nat /\ n <= LengthLimit
            <4>1. CASE n = 0
                BY <4>1, LimitType
            <4>2. CASE delivered # <<>> /\ n = delivered[Len(delivered)].size
                <5>1. delivered[Len(delivered)] \in [op : Data, size : 0 .. MaxMessage]
                    BY <1>1, <4>2, LastType DEF SequencesTyped
                <5>2. n \in 0 .. MaxMessage
                    BY <4>2, <5>1
                <5>3. QED  BY <5>2, MaxMessageType, LimitType
            <4>3. QED  BY <3>1, <4>1, <4>2 DEF Last
        <3>3. op \in Opcodes /\ op \notin {"pong", "close"}
            BY <3>1 DEF Opcodes, Data
        <3>4. QED  BY <3>1, <3>2, <3>3, SentType DEF Write
    <2>2. CASE Write(Sent("ping", 0, 0))
        <3>1. "ping" \in Opcodes /\ 0 \in Nat /\ 0 <= LengthLimit
            BY LimitType DEF Opcodes
        <3>2. Sent("ping", 0, 0) \in OutFrames /\ Sent("ping", 0, 0).op = "ping"
            BY ONLY <3>1, SentType
        <3>3. QED  BY <2>2, <3>2 DEF Write
    <2>3. CASE Write(Sent("close", NormalClosure, 2))
        <3>1. "close" \in Opcodes /\ NormalClosure \in Nat /\ 2 \in Nat /\ 2 <= LengthLimit
            BY LimitType DEF Opcodes, NormalClosure
        <3>2. /\ Sent("close", NormalClosure, 2) \in OutFrames
              /\ Sent("close", NormalClosure, 2).op = "close"
              /\ Sent("close", NormalClosure, 2).code = NormalClosure
            BY ONLY <3>1, SentType
        <3>3. QED  BY <2>3, <3>2 DEF Write
    <2>4. QED  BY <2>1, <2>2, <2>3 DEF HandlerSends
<1>4. PongsOf(out)' = PongsOf(out) /\ ClosesOf(out)' = ClosesOf(out)
    <2>1. PongsOf(out)' = PongsOf(Append(out, e)) /\ ClosesOf(out)' = ClosesOf(Append(out, e))
        BY <1>3 DEF PongsOf, ClosesOf
    <2>2. QED  BY <1>1, <1>3, <2>1, OutAppended DEF SequencesTyped
<1>5. TypeOK'
    BY <1>1, <1>2, MaxSendsAssumption DEF TypeOK
<1>6. SequencesTyped'
    BY <1>1, <1>2, <1>3 DEF SequencesTyped
<1>7. ReadInv'
    BY <1>1, <1>2, SameReads DEF ReadInv
<1>8. MessageInv'
    BY <1>1, <1>2, SameReads DEF MessageInv
<1>9. PongInv'
    BY <1>1, <1>2, <1>4, SameReads DEF PongInv
<1>10. CloseInv'
    BY <1>1, <1>2, <1>4, SameReads DEF CloseInv
<1>11. QED  BY <1>5, <1>6, <1>7, <1>8, <1>9, <1>10 DEF IInv
\* A pong answers the ping that is due.
LEMMA PongStepInv == IInv /\ Pong => IInv'
<1> SUFFICES ASSUME IInv, Pong PROVE IInv'  OBVIOUS
<1>1. TypeOK /\ SequencesTyped /\ ReadInv /\ MessageInv /\ PongInv /\ CloseInv
    BY DEF IInv
<1>2. PICK e : e = Sent("pong", 0, size)
    OBVIOUS
<1>3. /\ pc = "pong" /\ pc' = "header" /\ out' = Append(out, e)
      /\ UNCHANGED <<script, arrived, peer, got, frame, size, delivered, sends>>
    BY <1>2 DEF Pong, PongPayload, Write, frameVars, peerVars
<1>4. e \in OutFrames /\ e.op = "pong" /\ e.size = size
    <2>1. "pong" \in Opcodes /\ 0 \in Nat /\ size \in Nat /\ size <= LengthLimit
        BY <1>1, MaxMessageType, LimitType DEF TypeOK, Opcodes
    <2>2. QED  BY ONLY <1>2, <2>1, SentType
<1>5. /\ PongsOf(out) \in Seq(OutFrames)
      /\ PongsOf(out)' = Append(PongsOf(out), e) /\ ClosesOf(out)' = ClosesOf(out)
    <2>1. PongsOf(out)' = PongsOf(Append(out, e)) /\ ClosesOf(out)' = ClosesOf(Append(out, e))
        BY <1>3 DEF PongsOf, ClosesOf
    <2>2. QED  BY <1>1, <1>4, <2>1, OutAppended DEF SequencesTyped
<1>6. frame.op = "ping" /\ Whole > 0 /\ ~Ends(script[Whole]) /\ got % 2 = 0
    BY <1>1, <1>3 DEF ReadInv, Acting
<1>7. TypeOK'
    BY <1>1, <1>3 DEF TypeOK, PCs
<1>8. SequencesTyped'
    BY <1>1, <1>3, <1>4 DEF SequencesTyped
<1>9. ReadInv'
    BY <1>1, <1>3, SameReads DEF ReadInv, Acting
<1>10. MessageInv'
    BY <1>1, <1>3, SameReads DEF MessageInv
<1>11. PongInv'
    <2>1. Sizes(PingsOf(FramesRead)) = Append(Sizes(PongsOf(out)), size)
        BY <1>1, <1>3, <1>6 DEF PongInv
    <2>2. Sizes(Append(PongsOf(out), e)) = Append(Sizes(PongsOf(out)), size)
        BY <1>4, <1>5, Mapped
    <2>3. Sizes(PongsOf(out))' = Sizes(Append(PongsOf(out), e))
        BY <1>5 DEF Sizes
    <2>4. Sizes(PingsOf(FramesRead))' = Sizes(PingsOf(FramesRead))
        BY <1>3, SameReads DEF Sizes
    <2>5. QED  BY <1>3, <2>1, <2>2, <2>3, <2>4 DEF PongInv
<1>12. CloseInv'
    BY <1>1, <1>3, <1>5, SameReads DEF CloseInv
<1>13. QED  BY <1>7, <1>8, <1>9, <1>10, <1>11, <1>12 DEF IInv

\* The close frame gives the reason the frame it is about gives.
LEMMA SendCloseInv == IInv /\ SendClose => IInv'
<1> SUFFICES ASSUME IInv, SendClose PROVE IInv'  OBVIOUS
<1>1. TypeOK /\ SequencesTyped /\ ReadInv /\ MessageInv /\ PongInv /\ CloseInv
    BY DEF IInv
<1>2. PICK n \in {0, 2} : n = IF pc = "echoClose" THEN 0 ELSE 2
    OBVIOUS
<1>3. PICK e : e = Sent("close", CodeOf(pc), n)
    OBVIOUS
<1>4. /\ pc \in {"close1009", "close1003", "echoClose"} /\ pc' = "nullopt"
      /\ out' = Append(out, e)
      /\ UNCHANGED <<script, arrived, peer, got, frame, size, delivered, sends>>
    BY <1>2, <1>3 DEF SendClose, CloseReasons, Write, frameVars, peerVars
<1>5. CodeOf(pc) = IF pc = "close1009" THEN 1009 ELSE IF pc = "close1003" THEN 1003 ELSE 0
    BY <1>4 DEF CodeOf
<1>6. /\ e \in OutFrames /\ e.op = "close" /\ e.code = CodeOf(pc)
      /\ CodeOf(pc) # NormalClosure
    <2>1. "close" \in Opcodes /\ CodeOf(pc) \in Nat /\ n \in Nat /\ n <= LengthLimit
        BY <1>2, <1>5, LimitType DEF Opcodes
    <2>2. CodeOf(pc) # NormalClosure
        BY <1>5 DEF NormalClosure
    <2>3. QED  BY ONLY <1>3, <2>1, <2>2, SentType
<1>7. PongsOf(out)' = PongsOf(out) /\ ClosesOf(out)' = Append(ClosesOf(out), e)
    <2>1. PongsOf(out)' = PongsOf(Append(out, e)) /\ ClosesOf(out)' = ClosesOf(Append(out, e))
        BY <1>4 DEF PongsOf, ClosesOf
    <2>2. QED  BY <1>1, <1>6, <2>1, OutAppended DEF SequencesTyped
<1>8. TypeOK'
    BY <1>1, <1>4 DEF TypeOK, PCs
<1>9. SequencesTyped'
    BY <1>1, <1>4, <1>6 DEF SequencesTyped
<1>10. ReadInv'
    BY <1>1, <1>4, SameReads DEF ReadInv, Acting
<1>11. MessageInv'
    BY <1>1, <1>4, SameReads DEF MessageInv
<1>12. PongInv'
    BY <1>1, <1>4, <1>7, SameReads DEF PongInv
<1>13. CloseInv'
    <2>1. ClosesOf(out) = <<>>
        BY <1>1, <1>4 DEF CloseInv
    <2>2. Append(<<>>, e) # <<>> /\ Len(Append(<<>>, e)) = 1 /\ Append(<<>>, e)[1] = e
        OBVIOUS
    <2>3. /\ Ends(Culprit)
          /\ CodeOf(pc) = IF Culprit.size > MaxMessage THEN 1009
                          ELSE IF Culprit.op = "close" THEN 0 ELSE 1003
        <3>1. Whole \in Nat /\ got \in Nat
            BY <1>1, ScriptTyped
        <3>2. /\ got % 2 = 0 => Culprit = script[Whole]
              /\ got % 2 = 1 => Culprit = script[Whole + 1]
            BY <3>1, Halves DEF Culprit, Whole
        <3>3. CASE pc = "close1009"
            <4>1. Culprit.size > MaxMessage
                BY <1>1, <3>2, <3>3 DEF ReadInv
            <4>2. QED  BY <1>5, <3>3, <4>1 DEF Ends
        <3>4. CASE pc \in {"close1003", "echoClose"}
            <4>1. Whole > 0 /\ got % 2 = 0
                BY <1>1, <3>4 DEF ReadInv, Acting
            <4>2. Whole \in 1 .. Whole
                BY <3>1, <4>1
            <4>3. script[Whole].size <= MaxMessage
                BY <1>1, <4>2 DEF ReadInv
            <4>4. script[Whole].size \in Nat
                <5>1. Whole \in 1 .. Len(script)
                    BY <1>1, <4>1, ScriptTyped
                <5>2. QED  BY <1>1, <5>1, ScriptTyped
            <4>5. ~(Culprit.size > MaxMessage)
                BY <3>2, <4>1, <4>3, <4>4, MaxMessageType
            <4>6. /\ pc = "close1003" => Culprit.op # "close" /\ Ends(Culprit)
                  /\ pc = "echoClose" => Culprit.op = "close"
                BY <1>1, <3>2, <3>4, <4>1 DEF ReadInv, Acting
            <4>7. QED  BY <1>5, <3>4, <4>5, <4>6 DEF Ends
        <3>5. QED  BY <1>4, <3>3, <3>4
    <2>4. Culprit' = Culprit /\ Ends(Culprit)' = Ends(Culprit)
        BY <1>4, SameReads DEF Ends
    <2>5. QED  BY <1>4, <1>6, <1>7, <2>1, <2>2, <2>3, <2>4 DEF CloseInv
<1>14. QED  BY <1>8, <1>9, <1>10, <1>11, <1>12, <1>13 DEF IInv

\* The sizes of a sequence of frames are a sequence of numbers.
LEMMA SizesType ==
    ASSUME NEW S, NEW s \in Seq(S), \A e \in S : e.size \in Nat
    PROVE  Sizes(s) \in Seq(Nat)
<1>1. PICK n \in Nat : n = Len(s) /\ DOMAIN s = 1 .. n
    OBVIOUS
<1>2. Sizes(s) \in [1 .. n -> Nat]
    BY <1>1 DEF Sizes
<1>3. QED  BY <1>2, FunctionIsSequence

\* A write that fails leaves one ping unanswered at most, to a peer that is gone.
LEMMA WriteFailsInv == IInv /\ WriteFails => IInv'
<1> SUFFICES ASSUME IInv, WriteFails PROVE IInv'  OBVIOUS
<1>1. TypeOK /\ SequencesTyped /\ ReadInv /\ MessageInv /\ PongInv /\ CloseInv
    BY DEF IInv
<1>2. /\ pc \in {"close1009", "close1003", "echoClose", "pong"}
      /\ peer = "reset" /\ pc' = "nullopt"
      /\ UNCHANGED <<script, arrived, peer, got, frame, size, out, delivered, sends>>
    BY DEF WriteFails, CloseReasons, frameVars, peerVars
<1>3. TypeOK'
    BY <1>1, <1>2 DEF TypeOK, PCs
<1>4. SequencesTyped'
    BY <1>1, <1>2 DEF SequencesTyped
<1>5. ReadInv'
    BY <1>1, <1>2, SameReads DEF ReadInv, Acting
<1>6. MessageInv'
    BY <1>1, <1>2, SameReads DEF MessageInv
<1>7. PongInv'
    <2>1. Sizes(PongsOf(out))' = Sizes(PongsOf(out))
          /\ Sizes(PingsOf(FramesRead))' = Sizes(PingsOf(FramesRead))
        BY <1>2, SameReads, SameOut DEF Sizes
    <2>2. CASE pc = "pong"
        <3>1. Sizes(PingsOf(FramesRead)) = Append(Sizes(PongsOf(out)), size)
            BY <1>1, <2>2 DEF PongInv, ReadInv
        <3>2. PICK s : s = Sizes(PongsOf(out))
            OBVIOUS
        <3>3. s \in Seq(Nat)
            <4>1. \A e \in OutFrames : e.size \in Nat
                BY LimitType DEF OutFrames, Sent
            <4>2. Sent("ping", 0, 0) \in OutFrames
                <5>1. "ping" \in Opcodes /\ 0 \in Nat /\ 0 <= LengthLimit
                    BY LimitType DEF Opcodes
                <5>2. QED  BY ONLY <5>1, SentType
            <4>3. PongsOf(out) \in Seq(OutFrames)
                BY <1>1, <4>2, OutAppended DEF SequencesTyped
            <4>4. QED  BY <3>2, <4>1, <4>3, SizesType
        <3>4. size \in Nat
            BY <1>1, MaxMessageType DEF TypeOK
        <3>5. /\ Append(s, size) # <<>>
              /\ Append(s, size) = Append(s, Append(s, size)[Len(Append(s, size))])
            BY ONLY <3>3, <3>4
        <3>6. QED  BY <1>2, <2>1, <3>1, <3>2, <3>5 DEF PongInv
    <2>3. CASE pc # "pong"
        BY <1>1, <1>2, <2>1, <2>3 DEF PongInv
    <2>4. QED  BY <2>2, <2>3
<1>8. CloseInv'
    BY <1>1, <1>2, SameReads, SameOut DEF CloseInv
<1>9. QED  BY <1>3, <1>4, <1>5, <1>6, <1>7, <1>8 DEF IInv

\* Every step keeps the invariant.
LEMMA NextInv == IInv /\ [Next]_vars => IInv'
<1> SUFFICES ASSUME IInv, [Next]_vars PROVE IInv'  OBVIOUS
<1>1. CASE Quiet
    BY <1>1, QuietInv
<1>2. CASE ReadHeader
    BY <1>2, ReadHeaderInv
<1>3. CASE ReadPayload
    BY <1>3, ReadPayloadInv
<1>4. CASE Complete
    BY <1>4, CompleteInv
<1>5. CASE Deliver
    BY <1>5, DeliverInv
<1>6. CASE HandlerSends
    BY <1>6, HandlerSendsInv
<1>7. CASE Pong
    BY <1>7, PongStepInv
<1>8. CASE SendClose
    BY <1>8, SendCloseInv
<1>9. CASE WriteFails
    BY <1>9, WriteFailsInv
<1>10. CASE UNCHANGED vars
    <2>1. UNCHANGED <<script, arrived, peer, got, pc, frame, size, out, delivered, sends>>
        BY <1>10 DEF vars, peerVars, frameVars
    <2>2. TypeOK' /\ SequencesTyped'
        BY <2>1 DEF IInv, TypeOK, SequencesTyped
    <2>3. ReadInv'
        BY <2>1, SameReads DEF IInv, ReadInv
    <2>4. MessageInv' /\ PongInv' /\ CloseInv'
        BY <2>1, SameReads, SameOut DEF IInv, MessageInv, PongInv, CloseInv
    <2>5. QED  BY <2>2, <2>3, <2>4 DEF IInv
<1>11. QED
    BY <1>1, <1>2, <1>3, <1>4, <1>5, <1>6, <1>7, <1>8, <1>9, <1>10
    DEF Next, Coroutine, WithPeer, Handler, Terminated, Quiet

\* The invariant holds in every state: where read() is in the peer's frames, what
\* it has made of them, and what it has written, agree.
THEOREM Invariance == Spec => []IInv
<1>1. Init => IInv
    BY InitInv
<1>2. IInv /\ [Next]_vars => IInv'
    BY NextInv
<1>3. QED  BY <1>1, <1>2, PTL DEF Spec
-----------------------------------------------------------------------------
(* The theorems.                                                             *)

\* Front takes away what Append has added.
LEMMA FrontOfAppend ==
    ASSUME NEW S, NEW s \in Seq(S), NEW e \in S
    PROVE  Append(s, e) # <<>> /\ Front(Append(s, e)) = s
<1>1. PICK t : t = Append(s, e)
    OBVIOUS
<1>2. t # <<>> /\ SubSeq(t, 1, Len(t) - 1) = s
    BY <1>1
<1>3. QED  BY <1>1, <1>2 DEF Front

\* Types, and what is allocated for a payload whose bytes have not come is within
\* the limit, whatever length a frame announces.
THEOREM TypeCorrect == Spec => []TypeOK
<1>1. IInv => TypeOK
    BY DEF IInv
<1>2. QED  BY <1>1, Invariance, PTL

\* However its peer mixes control frames into the messages, the handler gets each
\* of them once, in order, and none from the frame that ends the connection on.
THEOREM DeliveredOrdered == Spec => []DeliveredInOrder
<1>1. ASSUME IInv PROVE DeliveredInOrder
    <2>1. TypeOK /\ SequencesTyped /\ ReadInv /\ MessageInv
        BY <1>1 DEF IInv
    <2>2. PICK messages : messages = Contents(MessagesOf(FramesRead))
        OBVIOUS
    <2>3. \/ messages = delivered
          \/ /\ pc \in {"complete", "deliver"}
             /\ messages # <<>> /\ delivered = Front(messages)
        <3>1. CASE pc \in {"complete", "deliver"} /\ IsMessage(script[Whole])
            <4>1. messages = Append(delivered, [op |-> frame.op, size |-> size])
                BY <2>1, <2>2, <3>1 DEF MessageInv
            <4>2. [op |-> frame.op, size |-> size] \in [op : Data, size : 0 .. MaxMessage]
                BY <2>1, <3>1 DEF TypeOK, ReadInv, Acting, IsMessage
            <4>3. QED  BY <2>1, <3>1, <4>1, <4>2, FrontOfAppend DEF SequencesTyped
        <3>2. CASE ~(pc \in {"complete", "deliver"} /\ IsMessage(script[Whole]))
            BY <2>1, <2>2, <3>2 DEF MessageInv
        <3>3. QED  BY <3>1, <3>2
    <2>4. \A k \in 1 .. Len(FramesRead) - 1 : ~Ends(FramesRead[k])
        <3>1. /\ Whole \in Nat /\ Len(FramesRead) = Whole
              /\ \A k \in 1 .. Whole : FramesRead[k] = script[k]
            BY <2>1, ScriptTyped
        <3>2. \A k \in 1 .. Whole - 1 : k \in 1 .. Whole /\ ~Ends(script[k])
            BY <2>1, <3>1 DEF ReadInv
        <3>3. QED  BY <3>1, <3>2
    <2>5. QED  BY <2>2, <2>3, <2>4 DEF DeliveredInOrder, Contents, MessagesOf
<1>2. QED  BY <1>1, Invariance, PTL

\* Each ping has its pong, with its payload, before what follows it is looked at;
\* the last may lack it while it is being written or because the peer is gone.
THEOREM PongsOrdered == Spec => []PongsInOrder
<1>1. ASSUME IInv PROVE PongsInOrder
    <2>1. TypeOK /\ SequencesTyped /\ ReadInv /\ PongInv
        BY <1>1 DEF IInv
    <2>2. PICK asked, answered : /\ asked = Sizes(PingsOf(FramesRead))
                                 /\ answered = Sizes(PongsOf(out))
        OBVIOUS
    <2>3. /\ answered \in Seq(Nat)
          /\ asked # <<>> => PingsOf(FramesRead) # <<>>
        <3>1. Sent("ping", 0, 0) \in OutFrames /\ \A e \in OutFrames : e.size \in Nat
            <4>1. "ping" \in Opcodes /\ 0 \in Nat /\ 0 <= LengthLimit
                BY LimitType DEF Opcodes
            <4>2. \A e \in OutFrames : e.size \in Nat
                BY LimitType DEF OutFrames, Sent
            <4>3. Sent("ping", 0, 0) \in OutFrames
                BY ONLY <4>1, SentType
            <4>4. QED  BY <4>2, <4>3
        <3>2. PongsOf(out) \in Seq(OutFrames)
            BY <2>1, <3>1, OutAppended DEF SequencesTyped
        <3>3. answered \in Seq(Nat)
            BY <2>2, <3>1, <3>2, SizesType
        <3>4. Sizes(<<>>) = <<>>
            BY DEF Sizes
        <3>5. QED  BY <2>2, <3>3, <3>4
    <2>4. ASSUME NEW n \in Nat, asked = Append(answered, n)
          PROVE  PingsOf(FramesRead) # <<>> /\ answered = Front(asked)
        BY <2>3, <2>4, FrontOfAppend
    <2>5. CASE pc \in {"complete", "pong"} /\ frame.op = "ping"
        <3>1. size \in Nat /\ asked = Append(answered, size)
            BY <2>1, <2>2, <2>5, MaxMessageType DEF TypeOK, PongInv
        <3>2. QED  BY <2>2, <2>4, <2>5, <3>1 DEF PongsInOrder, Sizes, PingsOf, PongsOf
    <2>6. CASE ~(pc \in {"complete", "pong"} /\ frame.op = "ping") /\ asked = answered
        BY <2>2, <2>6 DEF PongsInOrder, Sizes, PingsOf, PongsOf
    <2>7. CASE /\ ~(pc \in {"complete", "pong"} /\ frame.op = "ping")
               /\ peer = "reset" /\ asked # <<>> /\ asked = Append(answered, asked[Len(asked)])
        <3>1. asked[Len(asked)] \in Nat
            <4>1. PingsOf(FramesRead) \in Seq(Frame) /\ \A e \in Frame : e.size \in Nat
                <5>1. FramesRead \in Seq(Frame)
                    BY <2>1, ScriptTyped
                <5>2. FramesRead # <<>>
                    BY <2>2, <2>7, ThoseOfNone DEF PingsOf, Sizes
                <5>3. FramesRead[Len(FramesRead)] \in Frame
                    BY <5>1, <5>2, LastType
                <5>4. QED  BY <5>1, <5>3, ReadAppended DEF Frame
            <4>2. asked \in Seq(Nat)
                BY <2>2, <4>1, SizesType
            <4>3. QED  BY <2>7, <4>2, LastType
        <3>2. QED  BY <2>2, <2>4, <2>7, <3>1 DEF PongsInOrder, Sizes, PingsOf, PongsOf
    <2>8. QED  BY <2>1, <2>2, <2>5, <2>6, <2>7 DEF PongInv
<1>2. QED  BY <1>1, Invariance, PTL

\* read() says why it ends a connection, once, and does not end it unsaid.
THEOREM CloseExplained == Spec => []CloseSaysWhy
<1>1. IInv => CloseSaysWhy
    BY DEF IInv, CloseInv, CloseSaysWhy, ClosesOf
<1>2. QED  BY <1>1, Invariance, PTL

\* The peer reads from every frame written the length of the payload it has.
THEOREM PeerAlwaysDecodes == Spec => []PeerDecodes
<1>1. ASSUME IInv PROVE PeerDecodes
    <2>1. out \in Seq(OutFrames)
        BY <1>1 DEF IInv, SequencesTyped
    <2>2. ASSUME NEW e \in OutFrames PROVE DecodeLength(e.length) = e.size
        <3>1. PICK op \in Opcodes, code \in Nat, n \in 0 .. LengthLimit : e = Sent(op, code, n)
            BY DEF OutFrames
        <3>2. n \in Nat /\ n <= LengthLimit
            BY LimitType
        <3>3. DecodeLength(LengthBytes(n)) = n
            BY ONLY <3>2, LengthDecoded
        <3>4. QED  BY <3>1, <3>3 DEF Sent
    <2>3. QED  BY <2>1, <2>2 DEF PeerDecodes
<1>2. QED  BY <1>1, Invariance, PTL
=============================================================================
