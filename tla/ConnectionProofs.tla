-------------------------- MODULE ConnectionProofs --------------------------
(* Theorems of Connection, for every set of scripts and every size of the     *)
(* buffer and the limits.                                                     *)
EXTENDS Connection, SequenceLemmas

-----------------------------------------------------------------------------
(* The stream of a script.                                                   *)

Size(s, i) == s[i].head + s[i].body

\* A place in the script s: piece k of request i.
Places(s) == {t \in Nat \X Nat : t[1] \in 1 .. Len(s) /\ t[2] \in 1 .. Size(s, t[1])}

\* u is the place after t, or a later one.
Follows(s, t, u) == IF t[2] < Size(s, t[1]) THEN u = <<t[1], t[2] + 1>> ELSE u = <<t[1] + 1, 1>>
Before(t, u) == t[1] < u[1] \/ (t[1] = u[1] /\ t[2] < u[2])

\* q consists of the first n requests of s, every piece in its place.
FirstRequests(s, q, n) ==
    /\ q \in Seq(Places(s))
    /\ n = 0 => q = <<>>
    /\ n > 0 => q # <<>> /\ q[1] = <<1, 1>> /\ q[Len(q)] = <<n, Size(s, n)>>
    /\ \A p \in 1 .. Len(q) - 1 : Follows(s, q[p], q[p + 1])

\* A request has bytes, and its head ends within them.
LEMMA SizeType ==
    ASSUME NEW s \in Seq(Requests), NEW i \in 1 .. Len(s)
    PROVE  Size(s, i) \in Nat \ {0} /\ s[i].head \in 1 .. Size(s, i)
<1>1. s[i] \in Requests
    OBVIOUS
<1>2. s[i].head \in Nat \ {0} /\ s[i].body \in Nat
    BY <1>1 DEF Requests
<1>3. QED  BY <1>2 DEF Size

\* Request i contributes the tokens <<i, 1>> to <<i, Size>>, in order.
LEMMA TokensOfRequest ==
    ASSUME NEW s \in Seq(Requests), NEW i \in 1 .. Len(s)
    PROVE  /\ Tokens(s, i) \in Seq(Places(s)) /\ Len(Tokens(s, i)) = Size(s, i)
           /\ \A k \in 1 .. Size(s, i) : Tokens(s, i)[k] = <<i, k>>
<1>1. Size(s, i) \in Nat /\ Tokens(s, i) = [k \in 1 .. Size(s, i) |-> <<i, k>>]
    BY SizeType DEF Tokens, Size
<1>2. \A k \in 1 .. Size(s, i) : <<i, k>> \in Places(s)
    BY <1>1 DEF Places
<1>3. Tokens(s, i) \in [1 .. Size(s, i) -> Places(s)]
    BY <1>1, <1>2
<1>4. Tokens(s, i) \in Seq(Places(s)) /\ Len(Tokens(s, i)) = Size(s, i)
    BY <1>1, <1>3
<1>5. QED  BY <1>1, <1>4

\* Appending the next request keeps every piece in its place.
LEMMA NextRequest ==
    ASSUME NEW s \in Seq(Requests), NEW n \in Nat, n + 1 <= Len(s),
           NEW q, FirstRequests(s, q, n)
    PROVE  FirstRequests(s, q \o Tokens(s, n + 1), n + 1)
<1> DEFINE t == Tokens(s, n + 1)
           L == Size(s, n + 1)
           r == q \o t
<1>1. /\ t \in Seq(Places(s)) /\ Len(t) = L /\ L \in Nat \ {0}
      /\ \A k \in 1 .. L : t[k] = <<n + 1, k>>
    BY TokensOfRequest, SizeType
<1>2. q \in Seq(Places(s))
    BY DEF FirstRequests
<1> HIDE DEF t, L
<1>3. /\ r \in Seq(Places(s)) /\ Len(r) = Len(q) + L /\ r # <<>>
      /\ \A p \in 1 .. Len(q) : r[p] = q[p]
      /\ \A k \in 1 .. L : r[Len(q) + k] = <<n + 1, k>>
    <2>1. r \in Seq(Places(s)) /\ Len(r) = Len(q) + L
        BY <1>1, <1>2, ConcatProperties
    <2>2. Len(q) \in Nat /\ r # <<>>
        BY <1>1, <1>2, <2>1
    <2>3. \A p \in 1 .. Len(q) + L : r[p] = IF p <= Len(q) THEN q[p] ELSE t[p - Len(q)]
        BY <1>1, <1>2, ConcatProperties
    <2>4. ASSUME NEW k \in 1 .. L PROVE r[Len(q) + k] = <<n + 1, k>>
        <3>1. r[Len(q) + k] = t[k]
            BY <1>1, <2>2, <2>3
        <3>2. QED  BY <1>1, <3>1
    <2>5. QED  BY <1>1, <2>1, <2>2, <2>3, <2>4
<1> HIDE DEF r
<1>4. r[Len(r)] = <<n + 1, L>>
    BY <1>1, <1>2, <1>3
<1>5. r[1] = <<1, 1>>
    <2>1. CASE n = 0
        BY <1>1, <1>3, <2>1 DEF FirstRequests
    <2>2. CASE n > 0
        BY <1>2, <1>3, <2>2 DEF FirstRequests
    <2>3. QED  BY <2>1, <2>2
<1>6. ASSUME NEW p \in 1 .. Len(r) - 1 PROVE Follows(s, r[p], r[p + 1])
    <2>1. Len(q) \in Nat /\ p + 1 \in 1 .. Len(q) + L
        BY <1>1, <1>2, <1>3
    <2>2. CASE p < Len(q)
        BY <1>3, <2>1, <2>2 DEF FirstRequests
    <2>3. CASE p = Len(q)
        <3>1. n > 0 /\ r[p] = <<n, Size(s, n)>>
            BY <1>3, <2>1, <2>3 DEF FirstRequests
        <3>2. r[p + 1] = <<n + 1, 1>>
            BY <1>1, <1>3, <2>3
        <3>3. QED  BY <3>1, <3>2, SizeType DEF Follows
    <2>4. CASE p > Len(q)
        <3>1. PICK k \in 1 .. L - 1 : p = Len(q) + k
            <4>1. p \in Nat /\ L \in Nat /\ p + 1 <= Len(q) + L
                BY <1>1, <2>1, <2>4
            <4>2. p - Len(q) \in 1 .. L - 1 /\ p = Len(q) + (p - Len(q))
                BY <2>1, <2>4, <4>1
            <4>3. QED  BY <4>2
        <3>2. r[p] = <<n + 1, k>> /\ r[p + 1] = <<n + 1, k + 1>>
            <4>1. p + 1 = Len(q) + (k + 1) /\ k \in 1 .. L /\ k + 1 \in 1 .. L
                BY <1>1, <2>1, <3>1
            <4>2. QED  BY <1>3, <3>1, <4>1
        <3>3. QED  BY <1>1, <3>2 DEF Follows, L
    <2>5. QED  BY <2>1, <2>2, <2>3, <2>4
<1>7. FirstRequests(s, r, n + 1)
    BY <1>3, <1>4, <1>5, <1>6 DEF FirstRequests, L
<1>8. QED  BY <1>7 DEF r, t

\* The stream of a script is what its requests contribute, one after another.
LEMMA StreamIsFirstRequests ==
    ASSUME NEW s \in Seq(Requests)
    PROVE  FirstRequests(s, Stream(s), Len(s))
<1> DEFINE all == [i \in 1 .. Len(s) |-> Tokens(s, i)]
<1>1. all \in Seq(Seq(Places(s))) /\ Len(all) = Len(s)
      /\ \A i \in 1 .. Len(s) : all[i] = Tokens(s, i)
    BY TokensOfRequest
<1> HIDE DEF all
<1>2. PICK f \in [0 .. Len(all) -> Seq(Places(s))] :
              /\ f[0] = <<>>
              /\ \A i \in 1 .. Len(all) : f[i] = f[i - 1] \o all[i]
              /\ FlattenSeq(all) = f[Len(all)]
    BY <1>1, FlattenSeqRecursion
<1> DEFINE Good == {n \in Nat : n <= Len(s) => FirstRequests(s, f[n], n)}
<1>3. 0 \in Good
    BY <1>2 DEF FirstRequests
<1>4. \A n \in Nat : n \in Good => n + 1 \in Good
    <2> SUFFICES ASSUME NEW n \in Nat, n \in Good, n + 1 <= Len(s)
                 PROVE  FirstRequests(s, f[n + 1], n + 1)
        OBVIOUS
    <2>1. FirstRequests(s, f[n], n)
        OBVIOUS
    <2>2. f[n + 1] = f[n] \o Tokens(s, n + 1)
        <3>1. PICK i \in 1 .. Len(all) : i = n + 1 /\ i - 1 = n /\ all[i] = Tokens(s, n + 1)
            BY <1>1
        <3>2. f[i] = f[i - 1] \o all[i]
            BY <1>2, Zenon
        <3>3. QED  BY <3>1, <3>2, Zenon
    <2>3. QED  BY <2>1, <2>2, NextRequest
<1>5. Len(s) \in Good
    <2> HIDE DEF Good
    <2>1. QED  BY <1>3, <1>4, InductionOnSet
<1>6. Stream(s) = f[Len(s)]
    BY <1>1, <1>2 DEF Stream, all
<1>7. QED  BY <1>5, <1>6

\* The places of the stream, one after the other.
LEMMA StreamPlaces ==
    ASSUME NEW s \in Seq(Requests)
    PROVE  /\ Stream(s) \in Seq(Places(s)) /\ Len(Stream(s)) \in Nat
           /\ \A p \in 1 .. Len(Stream(s)) : Stream(s)[p] \in Places(s)
           /\ Stream(s) # <<>> => Stream(s)[1] = <<1, 1>>
           /\ \A p \in 1 .. Len(Stream(s)) - 1 : Follows(s, Stream(s)[p], Stream(s)[p + 1])
<1>1. FirstRequests(s, Stream(s), Len(s)) /\ Len(s) \in Nat
    BY StreamIsFirstRequests
<1>2. QED  BY <1>1 DEF FirstRequests

\* A token that follows another comes after it.
LEMMA FollowsBefore ==
    ASSUME NEW s, NEW t \in Nat \X Nat, NEW u, Follows(s, t, u)
    PROVE  Before(t, u)
<1>1. PICK i \in Nat, k \in Nat : t = <<i, k>>
    OBVIOUS
<1>2. u = <<i, k + 1>> \/ u = <<i + 1, 1>>
    BY <1>1 DEF Follows
<1>3. QED  BY <1>1, <1>2 DEF Before

\* The order of tokens is transitive.
LEMMA BeforeTransitive ==
    ASSUME NEW t \in Nat \X Nat, NEW u \in Nat \X Nat, NEW v \in Nat \X Nat,
           Before(t, u), Before(u, v)
    PROVE  Before(t, v)
BY DEF Before

\* They come in the order of the script.
LEMMA StreamOrdered ==
    ASSUME NEW s \in Seq(Requests), NEW p \in 1 .. Len(Stream(s)),
           NEW q \in 1 .. Len(Stream(s)), p < q
    PROVE  Before(Stream(s)[p], Stream(s)[q])
<1> DEFINE S == Stream(s)
           Good == {d \in Nat : p + d + 1 <= Len(S) => Before(S[p], S[p + d + 1])}
<1>1. /\ Len(S) \in Nat
      /\ \A j \in 1 .. Len(S) : S[j] \in Nat \X Nat
      /\ \A j \in 1 .. Len(S) - 1 : Follows(s, S[j], S[j + 1])
    BY StreamPlaces DEF Places
<1> HIDE DEF S
<1>2. \A j \in 1 .. Len(S) - 1 : Before(S[j], S[j + 1])
    BY <1>1, FollowsBefore
<1>3. 0 \in Good
    BY <1>1, <1>2 DEF S
<1>4. \A d \in Nat : d \in Good => d + 1 \in Good
    <2> SUFFICES ASSUME NEW d \in Nat, p + d + 2 <= Len(S), Before(S[p], S[p + d + 1])
                 PROVE  Before(S[p], S[p + d + 2])
        BY <1>1 DEF S
    <2>1. PICK j \in 1 .. Len(S) - 1 : j = p + d + 1 /\ j + 1 = p + d + 2
        BY <1>1 DEF S
    <2>2. Before(S[j], S[j + 1]) /\ Before(S[p], S[j])
        BY <1>2, <2>1
    <2>3. j \in 1 .. Len(S) /\ j + 1 \in 1 .. Len(S) /\ p \in 1 .. Len(S)
        BY <1>1 DEF S
    <2>4. Before(S[p], S[j + 1])
        BY <1>1, <2>2, <2>3, BeforeTransitive
    <2>5. QED  BY <2>1, <2>4
<1>5. q - p - 1 \in Good
    <2>1. q - p - 1 \in Nat
        BY <1>1 DEF S
    <2> HIDE DEF Good
    <2>2. QED  BY <1>3, <1>4, <2>1, InductionOnSet
<1>6. QED  BY <1>1, <1>5 DEF S

\* Places p and q of the stream, p holding piece k of request i; l is a piece of
\* that request as far behind k as q is behind p.
SameRun(s, p, q, i, k, l) ==
    /\ p \in 1 .. Len(Stream(s)) /\ q \in 1 .. Len(Stream(s)) /\ p <= q
    /\ i \in Nat /\ k \in Nat /\ l \in Nat /\ l - k = q - p
    /\ Stream(s)[p] = <<i, k>> /\ l <= Size(s, i)

\* The pieces of one request follow each other without a gap.
LEMMA SameRequest ==
    ASSUME NEW s \in Seq(Requests), NEW p, NEW q, NEW i, NEW k, NEW l, SameRun(s, p, q, i, k, l)
    PROVE  Stream(s)[q] = <<i, l>>
<1> DEFINE S == Stream(s)
           z == Size(s, i)
           Good == {d \in Nat : d <= q - p => S[p + d] = <<i, k + d>>}
<1>1. /\ p \in 1 .. Len(S) /\ q \in 1 .. Len(S) /\ p <= q
      /\ i \in Nat /\ k \in Nat /\ l \in Nat /\ l - k = q - p
      /\ S[p] = <<i, k>> /\ l <= z
    BY DEF SameRun
<1>2. Len(S) \in Nat /\ \A j \in 1 .. Len(S) - 1 : Follows(s, S[j], S[j + 1])
    BY StreamPlaces
<1>3. z \in Nat
    <2>1. <<i, k>> \in Places(s)
        BY <1>1, StreamPlaces
    <2>2. i \in 1 .. Len(s)
        BY <2>1 DEF Places
    <2>3. QED  BY <2>2, SizeType
<1> HIDE DEF S, z
<1>4. p \in Nat /\ q - p \in Nat /\ p + (q - p) = q /\ k + (q - p) = l
    BY <1>1, <1>2
<1>5. 0 \in Good
    <2>1. p + 0 = p /\ k + 0 = k
        BY <1>1, <1>4
    <2>2. QED  BY <1>1, <2>1
<1>6. \A d \in Nat : d \in Good => d + 1 \in Good
    <2> SUFFICES ASSUME NEW d \in Nat, d + 1 <= q - p, S[p + d] = <<i, k + d>>
                 PROVE  S[p + (d + 1)] = <<i, k + (d + 1)>>
        BY <1>4
    <2>1. /\ p + d \in 1 .. Len(S) - 1 /\ k + d < z
          /\ p + (d + 1) = p + d + 1 /\ k + (d + 1) = k + d + 1
        BY <1>1, <1>2, <1>3, <1>4
    <2>2. Follows(s, S[p + d], S[p + d + 1])
        BY <1>2, <2>1
    <2>3. S[p + d + 1] = <<i, k + d + 1>>
        BY <2>1, <2>2 DEF Follows, z
    <2>4. QED  BY <2>1, <2>3
<1>7. q - p \in Good
    <2> HIDE DEF Good
    <2>1. QED  BY <1>4, <1>5, <1>6, InductionOnSet
<1>8. S[p + (q - p)] = <<i, k + (q - p)>>
    BY <1>4, <1>7
<1>9. QED  BY <1>4, <1>8 DEF S

-----------------------------------------------------------------------------
(* Pieces of a sequence.                                                     *)

\* The elements of q are those of S that follow its first a elements.
Within(S, q, a) ==
    a + Len(q) <= Len(S) /\ \A p \in 1 .. Len(q) : q[p] = S[a + p]

\* A prefix of a piece is where the piece is.
LEMMA WithinPrefix ==
    ASSUME NEW T, NEW S \in Seq(T), NEW q \in Seq(T), NEW a \in Nat, Within(S, q, a),
           NEW n \in 0 .. Len(q)
    PROVE  Within(S, SubSeq(q, 1, n), a) /\ SubSeq(q, 1, n) \in Seq(T)
           /\ Len(SubSeq(q, 1, n)) = n
BY DEF Within

\* What is left of a piece is as much further on as was taken.
LEMMA WithinSuffix ==
    ASSUME NEW T, NEW S \in Seq(T), NEW q \in Seq(T), NEW a \in Nat, Within(S, q, a),
           NEW n \in 0 .. Len(q)
    PROVE  Within(S, SubSeq(q, n + 1, Len(q)), a + n)
           /\ SubSeq(q, n + 1, Len(q)) \in Seq(T)
           /\ Len(SubSeq(q, n + 1, Len(q))) = Len(q) - n
<1> DEFINE r == SubSeq(q, n + 1, Len(q))
<1>1. /\ r \in Seq(T) /\ Len(q) \in Nat /\ Len(r) = Len(q) - n
      /\ \A p \in 1 .. Len(q) - n : r[p] = q[n + p]
    OBVIOUS
<1> HIDE DEF r
<1>2. ASSUME NEW p \in 1 .. Len(r) PROVE r[p] = S[a + n + p]
    <2>1. n + p \in 1 .. Len(q) /\ r[p] = q[n + p]
        BY <1>1
    <2>2. QED  BY <1>1, <2>1 DEF Within
<1>3. a + n + Len(r) <= Len(S)
    BY <1>1 DEF Within
<1>4. Within(S, r, a + n)
    BY <1>2, <1>3 DEF Within
<1>5. QED  BY <1>1, <1>4 DEF r

\* Two adjacent pieces are one piece.
LEMMA WithinConcat ==
    ASSUME NEW T, NEW S \in Seq(T), NEW q \in Seq(T), NEW r \in Seq(T), NEW a \in Nat,
           Within(S, q, a), Within(S, r, a + Len(q))
    PROVE  Within(S, q \o r, a) /\ q \o r \in Seq(T) /\ Len(q \o r) = Len(q) + Len(r)
<1>1. /\ q \o r \in Seq(T) /\ Len(q \o r) = Len(q) + Len(r)
      /\ Len(q) \in Nat /\ Len(r) \in Nat /\ Len(S) \in Nat
    OBVIOUS
<1>2. a + Len(q \o r) <= Len(S)
    <2>1. a + Len(q) + Len(r) <= Len(S)
        BY DEF Within
    <2>2. QED  BY <1>1, <2>1
<1>3. ASSUME NEW p \in 1 .. Len(q \o r) PROVE (q \o r)[p] = S[a + p]
    <2>1. CASE p <= Len(q)
        <3>1. p \in 1 .. Len(q) /\ (q \o r)[p] = q[p]
            BY <1>1, <2>1
        <3>2. QED  BY <3>1 DEF Within
    <2>2. CASE ~(p <= Len(q))
        <3>1. PICK j \in 1 .. Len(r) : p = Len(q) + j
            <4>1. p - Len(q) \in 1 .. Len(r) /\ p = Len(q) + (p - Len(q))
                BY <1>1, <2>2
            <4>2. QED  BY <4>1
        <3>2. (q \o r)[p] = r[j]
            BY <3>1
        <3>3. r[j] = S[a + Len(q) + j] /\ a + Len(q) + j = a + p
            BY <1>1, <3>1 DEF Within
        <3>4. QED  BY <3>2, <3>3
    <2>3. QED  BY <2>1, <2>2
<1>4. QED  BY <1>1, <1>2, <1>3 DEF Within

-----------------------------------------------------------------------------
(* The inductive invariant.                                                  *)

\* Between two requests: the head of the next one is looked for.
Waiting == pc \in {"scan", "reading", "parse"}

Declared(i) == IF script[i].length = NoLength THEN 0 ELSE script[i].length

\* What the buffer holds of the request being served, and what it has room for.
SizeInv ==
    /\ BufferFits
    /\ fill # <<>> => pc \in {"readingBody", "refusing", "shutdown", "done"}
    /\ Serving \/ pc = "parse" => headerEnd \in 1 .. Len(buf)
    /\ pc \in {"limits", "body"} => contentLength = 0
    /\ pc \in {"readingBody", "dispatch", "respond"} => contentLength = Declared(who)
    /\ pc = "readingBody" =>
          Len(buf) + Missing(contentLength) <= cap /\ Len(fill) < Missing(contentLength)
    /\ pc \in {"dispatch", "respond"} => headerEnd + contentLength <= Len(buf)

\* The connection is kept only below the limit, and only if no answer so far
\* has announced its end.
SessionInv ==
    /\ Waiting => ~HitLimit(requestCount)
    /\ pc \in {"body", "readingBody", "dispatch", "respond"} /\ keepAlive =>
          ~HitLimit(requestCount)
    /\ Waiting \/ Serving => \A i \in 1 .. Len(out) : ~out[i].close

\* Where the buffered bytes are in the stream: a bytes of it are consumed.
Aligned(a) ==
    /\ Within(Stream(script), buf, a)
    /\ Within(Stream(script), fill, a + Len(buf))
    /\ Within(Stream(script), rest, a + Len(buf) + Len(fill))

\* The head that is served is the first complete one of the buffer, and what is
\* consumed includes the head of the request served last.
HeadInv(a) ==
    /\ pc = "parse" => IsHeadEnd(buf[headerEnd])
                       /\ \A p \in 1 .. headerEnd - 1 : ~IsHeadEnd(buf[p])
    /\ Serving => who \in 1 .. Len(script) /\ buf[headerEnd] = <<who, script[who].head>>
    /\ Waiting /\ who > 0 /\ a < Len(Stream(script)) =>
          Before(<<who, script[who].head>>, Stream(script)[a + 1])

\* The buffer begins where a request of the client begins, as long as every
\* request before it has declared its body.
FrameInv(a) ==
    /\ Waiting /\ (\A i \in 1 .. who : Honest(i)) =>
          /\ who = requestCount
          /\ a < Len(Stream(script)) => Stream(script)[a + 1] = <<who + 1, 1>>
    /\ Serving /\ (\A i \in 1 .. who - 1 : Honest(i)) =>
          /\ ~garbled /\ who = requestCount /\ headerEnd = script[who].head
          /\ Stream(script)[a + 1] = <<who, 1>>

StreamInv == \E a \in Nat : Aligned(a) /\ HeadInv(a) /\ FrameInv(a)

\* Every answer so far was to a request before the one being served.
OutInv ==
    /\ \A i \in 1 .. Len(out) : out[i].request <= who /\ (Serving => out[i].request < who)
    /\ AnsweredInOrder

\* The answers written, as records.
Answers == [request : Nat, status : {"handled", "refused"}, close : BOOLEAN]
OutType == out \in Seq(Answers)

IInv == TypeOK /\ OutType /\ SizeInv /\ SessionInv /\ StreamInv /\ OutInv

\* The types of the script and of the stream a client sends.
LEMMA StreamTyped ==
    ASSUME script \in Scripts
    PROVE  /\ script \in Seq(Requests) /\ Len(script) \in Nat
           /\ Stream(script) \in Seq(TokensOf(script)) /\ Len(Stream(script)) \in Nat
           /\ TokensOf(script) \subseteq Places(script)
<1>1. script \in Seq(Requests)
    BY ScriptsAssumption
<1>2. /\ Stream(script) \in Seq(Places(script)) /\ Len(Stream(script)) \in Nat
      /\ \A p \in 1 .. Len(Stream(script)) : Stream(script)[p] \in Places(script)
    BY <1>1, StreamPlaces
<1>3. TokensOf(script) \subseteq Places(script)
    BY <1>2 DEF TokensOf
<1>4. Stream(script) \in [1 .. Len(Stream(script)) -> TokensOf(script)]
    BY <1>2 DEF TokensOf
<1>5. QED  BY <1>1, <1>2, <1>3, <1>4

\* The invariant holds before the first byte has come.
LEMMA InitInv == Init => IInv
<1> SUFFICES ASSUME Init PROVE IInv  OBVIOUS
<1> USE DEF Init
<1>1. Stream(script) \in Seq(TokensOf(script)) /\ Len(Stream(script)) \in Nat
      /\ script \in Seq(Requests) /\ Len(script) \in Nat
    BY StreamTyped
<1>2. TypeOK
    <2>1. /\ rest \in Seq(TokensOf(script)) /\ buf \in Seq(TokensOf(script))
          /\ fill \in Seq(TokensOf(script)) /\ Len(buf) = 0
        BY <1>1
    <2>2. cap \in Nat /\ gen \in Nat /\ contentLength \in 0 .. MaxBody /\ who \in 0 .. Len(script)
        BY <1>1, SizesAssumption
    <2>3. /\ peer \in {"open", "eof", "reset"} /\ pc \in PCs /\ bodyView \in {"none", "temporary"}
          /\ stopping \in BOOLEAN /\ readDead \in BOOLEAN /\ keepAlive \in BOOLEAN
          /\ garbled \in BOOLEAN
        BY DEF PCs
    <2>4. QED  BY <2>1, <2>2, <2>3 DEF TypeOK
<1>3. OutType
    BY DEF OutType
<1>4. SizeInv
    BY SizesAssumption DEF SizeInv, BufferFits, Serving
<1>5. SessionInv
    BY SizesAssumption DEF SessionInv, Waiting, HitLimit, Serving
<1>6. OutInv
    BY DEF OutInv, AnsweredInOrder
<1>7. Aligned(0)
    BY <1>1 DEF Aligned, Within
<1>8. HeadInv(0) /\ FrameInv(0)
    <2>1. Stream(script) # <<>> => Stream(script)[1] = <<1, 1>>
        BY <1>1, StreamPlaces
    <2>2. 0 < Len(Stream(script)) => Stream(script) # <<>>
        BY <1>1
    <2>3. QED  BY <2>1, <2>2 DEF HeadInv, FrameInv, Serving
<1>9. QED  BY <1>2, <1>3, <1>4, <1>5, <1>6, <1>7, <1>8 DEF IInv, StreamInv

-----------------------------------------------------------------------------
(* The steps that process no bytes: the peer's, the timers', failures, and   *)
(* those that only move the coroutine on.                                    *)

Quiet ==
    \/ Peer \/ BeginShutdown \/ TornDown \/ Ended \/ HeaderTimeout \/ BodyTimeout
    \/ ReceiveFails \/ Upgrade \/ StreamEnds \/ Limits \/ ReceiveBodyFails \/ Handle
    \/ WriteFails \/ Close \/ UNCHANGED vars

\* What such a step may do, whichever it is.
LEMMA QuietStep ==
    ASSUME TypeOK, Quiet
    PROVE  /\ UNCHANGED <<script, buf, cap, gen, fill, headerEnd, contentLength, who, garbled,
                          headerViews, bodyView, requestCount, out>>
           /\ \E n \in 0 .. Len(rest) : rest' = SubSeq(rest, 1, n)
           /\ Waiting' => Waiting
           /\ Serving' => Serving
           /\ pc' = "parse" => pc = "parse"
           /\ pc' = "readingBody" => pc = "readingBody"
           /\ pc' = "limits" => pc = "limits"
           /\ pc' = "body" => pc \in {"limits", "body"}
           /\ pc' \in {"dispatch", "respond"} => pc \in {"dispatch", "respond"}
           /\ pc \in {"readingBody", "refusing", "shutdown", "done"} =>
                 pc' \in {"readingBody", "refusing", "shutdown", "done"}
           /\ pc' \in PCs /\ readDead' \in BOOLEAN /\ stopping' \in BOOLEAN
           /\ peer' \in {"open", "eof", "reset"}
           /\ keepAlive' \in BOOLEAN
           /\ \/ keepAlive' = keepAlive /\ (pc' = "body" => pc = "body")
              \/ keepAlive' => ~HitLimit(requestCount)
<1>1. UNCHANGED <<script, buf, cap, gen, fill, headerEnd, contentLength, who, garbled,
                  headerViews, bodyView, requestCount, out>>
    BY DEF Quiet, Peer, PeerEnds, PeerResets, BeginShutdown, TornDown, Ended, HeaderTimeout,
           BodyTimeout, ReceiveFails, Upgrade, StreamEnds, Limits, ReceiveBodyFails, Handle,
           WriteFails, Close, vars, envVars, bufVars, connVars, reqVars
<1>2. \E n \in 0 .. Len(rest) : rest' = SubSeq(rest, 1, n)
    <2>1. /\ Len(rest) \in 0 .. Len(rest) /\ rest = SubSeq(rest, 1, Len(rest))
          /\ 0 \in 0 .. Len(rest) /\ <<>> = SubSeq(rest, 1, 0)
        BY DEF TypeOK
    <2>2. rest' = rest \/ rest' = <<>> \/ PeerEnds
        BY DEF Quiet, Peer, PeerResets, BeginShutdown, TornDown, Ended, HeaderTimeout,
               BodyTimeout, ReceiveFails, Upgrade, StreamEnds, Limits, ReceiveBodyFails, Handle,
               WriteFails, Close, vars, envVars
    <2>3. QED  BY <2>1, <2>2, Zenon DEF PeerEnds
<1>3. /\ pc \in PCs /\ readDead \in BOOLEAN /\ stopping \in BOOLEAN /\ keepAlive \in BOOLEAN
      /\ peer \in {"open", "eof", "reset"}
    BY DEF TypeOK
<1> USE DEF PCs, envVars, bufVars, connVars, reqVars, Waiting, Serving
<1>4. CASE Peer \/ BeginShutdown \/ Ended \/ UNCHANGED vars
    <2>1. UNCHANGED <<pc, keepAlive, readDead>>
        BY <1>4 DEF Peer, PeerEnds, PeerResets, BeginShutdown, Ended, vars
    <2>2. stopping' \in BOOLEAN /\ peer' \in {"open", "eof", "reset"}
        BY <1>3, <1>4 DEF Peer, PeerEnds, PeerResets, BeginShutdown, Ended, vars
    <2>3. QED  BY <1>1, <1>2, <1>3, <2>1, <2>2
<1>5. CASE TornDown \/ HeaderTimeout \/ BodyTimeout
    BY <1>1, <1>2, <1>3, <1>5 DEF TornDown, HeaderTimeout, BodyTimeout
<1>6. CASE ReceiveFails \/ ReceiveBodyFails \/ Upgrade \/ StreamEnds
    BY <1>1, <1>2, <1>3, <1>6 DEF ReceiveFails, ReceiveBodyFails, Upgrade, StreamEnds
<1>7. CASE Handle \/ WriteFails \/ Close
    BY <1>1, <1>2, <1>3, <1>7 DEF Handle, WriteFails, Close
<1>8. CASE Limits
    <2>1. pc = "limits" /\ pc' = "body" /\ UNCHANGED <<stopping, peer, readDead>>
        BY <1>8 DEF Limits
    <2>2. keepAlive' \in BOOLEAN /\ (keepAlive' => ~HitLimit(requestCount))
        BY <1>8 DEF Limits
    <2>3. QED  BY <1>1, <1>2, <1>3, <2>1, <2>2
<1>9. QED  BY <1>4, <1>5, <1>6, <1>7, <1>8 DEF Quiet

\* It is kept by the steps that touch neither the buffer nor the answers.
LEMMA QuietInv == IInv /\ Quiet => IInv'
<1> SUFFICES ASSUME IInv, Quiet PROVE IInv'  OBVIOUS
<1>1. TypeOK /\ OutType /\ SizeInv /\ SessionInv /\ StreamInv /\ OutInv
    BY DEF IInv
<1> DEFINE T == TokensOf(script)
           S == Stream(script)
<1>2. PICK n \in 0 .. Len(rest) : rest' = SubSeq(rest, 1, n)
    BY <1>1, QuietStep
<1>3. /\ S \in Seq(T) /\ rest \in Seq(T) /\ buf \in Seq(T) /\ fill \in Seq(T)
      /\ script \in Scripts
    BY <1>1, StreamTyped DEF TypeOK
<1>4. UNCHANGED <<script, buf, cap, gen, fill, headerEnd, contentLength, who, garbled,
                  headerViews, bodyView, requestCount, out, S, T>>
    <2>1. UNCHANGED <<script, buf, cap, gen, fill, headerEnd, contentLength, who, garbled,
                      headerViews, bodyView, requestCount, out>>
        BY <1>1, QuietStep
    <2>2. QED  BY <2>1
<1>5. /\ (Waiting' => Waiting) /\ (Serving' => Serving)
      /\ pc' = "parse" => pc = "parse"
      /\ pc' = "readingBody" => pc = "readingBody"
      /\ pc' = "limits" => pc = "limits"
      /\ pc' = "body" => pc \in {"limits", "body"}
      /\ pc' \in {"dispatch", "respond"} => pc \in {"dispatch", "respond"}
      /\ pc \in {"readingBody", "refusing", "shutdown", "done"} =>
            pc' \in {"readingBody", "refusing", "shutdown", "done"}
      /\ \/ keepAlive' = keepAlive /\ (pc' = "body" => pc = "body")
         \/ keepAlive' => ~HitLimit(requestCount)
    BY <1>1, QuietStep
<1>6. TypeOK'
    <2>1. rest' \in Seq(T)
        BY <1>2, <1>3
    <2>2. /\ pc' \in PCs /\ readDead' \in BOOLEAN /\ stopping' \in BOOLEAN
          /\ peer' \in {"open", "eof", "reset"} /\ keepAlive' \in BOOLEAN
        BY <1>1, QuietStep
    <2>3. pc' \in {"parse", "limits", "body", "readingBody", "dispatch", "respond"} =>
              pc \in {"parse", "limits", "body", "readingBody", "dispatch", "respond"}
        BY <1>5
    <2>4. headerEnd' \in 0 .. Len(buf') \/ pc' \notin {"parse", "limits", "body", "readingBody",
                                                     "dispatch", "respond"}
        BY <1>1, <1>4, <2>3 DEF TypeOK
    <2> HIDE DEF S, T
    <2>5. QED  BY <1>1, <1>4, <2>1, <2>2, <2>4 DEF TypeOK, T
<1>7. OutType'
    BY <1>1, <1>4 DEF OutType
<1>8. SizeInv'
    BY <1>1, <1>4, <1>5 DEF SizeInv, BufferFits, Missing, Declared
<1>9. SessionInv'
    BY <1>1, <1>4, <1>5 DEF SessionInv, HitLimit
<1>10. OutInv'
    BY <1>1, <1>4, <1>5 DEF OutInv, AnsweredInOrder
<1>11. StreamInv'
    <2>1. PICK a \in Nat : Aligned(a) /\ HeadInv(a) /\ FrameInv(a)
        BY <1>1 DEF StreamInv
    <2>2. Aligned(a)'
        <3> HIDE DEF S, T
        <3>1. Within(S, rest, a + Len(buf) + Len(fill)) /\ a + Len(buf) + Len(fill) \in Nat
            BY <1>3, <2>1 DEF Aligned, S
        <3>2. Within(S, rest', a + Len(buf) + Len(fill))
            BY <1>2, <1>3, <3>1, WithinPrefix
        <3>3. QED  BY <1>4, <2>1, <3>2 DEF Aligned, S
    <2>3. HeadInv(a)'
        BY <1>4, <1>5, <2>1 DEF HeadInv, IsHeadEnd
    <2>4. FrameInv(a)'
        BY <1>4, <1>5, <2>1 DEF FrameInv, Honest
    <2>5. QED  BY <2>2, <2>3, <2>4 DEF StreamInv
<1>12. QED  BY <1>6, <1>7, <1>8, <1>9, <1>10, <1>11 DEF IInv

-----------------------------------------------------------------------------
(* Reading and finding the head.                                             *)

\* find_header_end finds the first end of a head, or 0 when there is none.
LEMMA FindHeaderEndFinds ==
    ASSUME NEW b, Len(b) \in Nat
    PROVE  /\ FindHeaderEnd(b) \in 0 .. Len(b)
           /\ FindHeaderEnd(b) > 0 =>
                 /\ IsHeadEnd(b[FindHeaderEnd(b)])
                 /\ \A p \in 1 .. FindHeaderEnd(b) - 1 : ~IsHeadEnd(b[p])
<1> DEFINE ends == {p \in 1 .. Len(b) : IsHeadEnd(b[p])}
<1>1. CASE ends = {}
    BY <1>1 DEF FindHeaderEnd
<1>2. CASE ends # {}
    <2>1. PICK p \in ends : \A q \in ends : p <= q
        <3>1. ends \in SUBSET Nat
            OBVIOUS
        <3> HIDE DEF ends
        <3>2. QED  BY <1>2, <3>1, LeastNatural
    <2> DEFINE e == CHOOSE x \in ends : \A q \in ends : x <= q
    <2>2. FindHeaderEnd(b) = e
        BY <1>2 DEF FindHeaderEnd
    <2>3. e \in ends /\ \A q \in ends : e <= q
        <3> HIDE DEF ends
        <3>1. QED  BY <2>1
    <2> HIDE DEF e
    <2>4. e \in 1 .. Len(b) /\ IsHeadEnd(b[e]) /\ \A k \in 1 .. e - 1 : ~IsHeadEnd(b[k])
        BY <2>3
    <2>5. QED  BY <2>2, <2>4
<1>3. QED  BY <1>1, <1>2

\* A buffer that is grown has room for what it is grown for, and loses none.
LEMMA EnsureWriteGrows ==
    ASSUME cap \in Nat, gen \in Nat, Len(buf) \in Nat, NEW n \in Nat, EnsureWrite(n)
    PROVE  cap' \in Nat /\ gen' \in Nat /\ cap' >= cap /\ cap' - Len(buf) >= n
BY DEF EnsureWrite, Grown, MaxOf

\* Scanning the buffer for a head keeps the invariant.
LEMMA ScanInv == IInv /\ Scan => IInv'
<1> SUFFICES ASSUME IInv, Scan PROVE IInv'  OBVIOUS
<1>1. TypeOK /\ OutType /\ SizeInv /\ SessionInv /\ StreamInv /\ OutInv
    BY DEF IInv
<1>2. /\ pc = "scan" /\ pc' \in {"parse", "shutdown", "reading"}
      /\ UNCHANGED <<script, rest, peer, stopping, buf, fill, keepAlive, requestCount,
                     contentLength, who, garbled, headerViews, bodyView, readDead, out>>
    BY DEF Scan, envVars, connVars
<1>3. Len(buf) \in Nat /\ cap \in Nat /\ gen \in Nat
    BY <1>1 DEF TypeOK
<1>4. /\ headerEnd' \in 0 .. Len(buf)
      /\ pc' = "parse" => /\ headerEnd' > 0 /\ IsHeadEnd(buf[headerEnd'])
                          /\ \A p \in 1 .. headerEnd' - 1 : ~IsHeadEnd(buf[p])
    BY <1>3, FindHeaderEndFinds DEF Scan
<1>5. cap' \in Nat /\ gen' \in Nat /\ cap' >= cap
    BY <1>3, EnsureWriteGrows, SizesAssumption DEF Scan
<1>6. TypeOK'
    BY <1>1, <1>2, <1>4, <1>5 DEF TypeOK, PCs
<1>7. OutType'
    BY <1>1, <1>2 DEF OutType
<1>8. fill = <<>>
    BY <1>1, <1>2 DEF SizeInv
<1>9. SizeInv'
    <2>1. Len(buf) + Len(fill) <= cap
        BY <1>1 DEF SizeInv, BufferFits
    <2>2. BufferFits'
        BY <1>2, <1>3, <1>5, <1>8, <2>1 DEF BufferFits
    <2>3. pc' = "parse" => headerEnd' \in 1 .. Len(buf)
        BY <1>3, <1>4
    <2>4. fill' = <<>> /\ buf' = buf /\ ~Serving'
        BY <1>2, <1>8 DEF Serving
    <2>5. QED  BY <1>2, <2>2, <2>3, <2>4 DEF SizeInv
<1>10. SessionInv'
    BY <1>1, <1>2 DEF SessionInv, Waiting, Serving, HitLimit
<1>11. OutInv'
    BY <1>1, <1>2 DEF OutInv, AnsweredInOrder, Serving
<1>12. StreamInv'
    <2>1. PICK a \in Nat : Aligned(a) /\ HeadInv(a) /\ FrameInv(a)
        BY <1>1 DEF StreamInv
    <2>2. Aligned(a)'
        BY <1>2, <2>1 DEF Aligned
    <2>3. HeadInv(a)'
        BY <1>2, <1>4, <2>1 DEF HeadInv, Waiting, Serving, IsHeadEnd
    <2>4. FrameInv(a)'
        BY <1>2, <2>1 DEF FrameInv, Waiting, Serving, Honest
    <2>5. QED  BY <2>2, <2>3, <2>4 DEF StreamInv
<1>13. QED  BY <1>6, <1>7, <1>9, <1>10, <1>11, <1>12 DEF IInv

\* Bytes that arrive while the head is read keep the invariant.
LEMMA ReceiveInv == IInv /\ Receive => IInv'
<1> SUFFICES ASSUME IInv, Receive PROVE IInv'  OBVIOUS
<1>1. TypeOK /\ OutType /\ SizeInv /\ SessionInv /\ StreamInv /\ OutInv
    BY DEF IInv
<1>2. /\ pc = "reading" /\ pc' = "scan"
      /\ UNCHANGED <<script, peer, stopping, cap, gen, fill, keepAlive, requestCount, headerEnd,
                     contentLength, who, garbled, headerViews, bodyView, readDead, out>>
    BY DEF Receive, connVars, reqVars
<1>3. PICK n \in 1 .. Len(rest) :
          /\ n <= cap - Len(buf)
          /\ buf' = buf \o SubSeq(rest, 1, n)
          /\ rest' = SubSeq(rest, n + 1, Len(rest))
    BY DEF Receive
<1> DEFINE T == TokensOf(script)
           S == Stream(script)
           got == SubSeq(rest, 1, n)
<1>4. /\ S \in Seq(T) /\ rest \in Seq(T) /\ buf \in Seq(T) /\ fill \in Seq(T)
      /\ script \in Scripts /\ Len(rest) \in Nat /\ Len(buf) \in Nat /\ cap \in Nat
      /\ n \in 0 .. Len(rest)
    BY <1>1, StreamTyped DEF TypeOK
<1>5. fill = <<>> /\ Len(fill) = 0
    BY <1>1, <1>2 DEF SizeInv
<1>6. PICK a \in Nat : Aligned(a) /\ HeadInv(a) /\ FrameInv(a)
    BY <1>1 DEF StreamInv
<1>7. Within(S, buf, a) /\ Within(S, rest, a + Len(buf)) /\ a + Len(buf) \in Nat
    BY <1>4, <1>5, <1>6 DEF Aligned
<1> HIDE DEF S, T
<1>8. got \in Seq(T) /\ Len(got) = n /\ Within(S, got, a + Len(buf))
    BY <1>4, <1>7, WithinPrefix
<1>9. rest' \in Seq(T) /\ Within(S, rest', a + Len(buf) + n)
    BY <1>3, <1>4, <1>7, WithinSuffix
<1>10. buf' \in Seq(T) /\ Len(buf') = Len(buf) + n /\ Within(S, buf', a)
    <2>1. buf' = buf \o got
        BY <1>3
    <2> HIDE DEF got
    <2>2. /\ Within(S, buf \o got, a) /\ buf \o got \in Seq(T)
          /\ Len(buf \o got) = Len(buf) + Len(got)
        <3>1. S \in Seq(T) /\ buf \in Seq(T) /\ got \in Seq(T) /\ a \in Nat
            BY <1>4, <1>6, <1>8
        <3>2. Within(S, buf, a) /\ Within(S, got, a + Len(buf))
            BY <1>7, <1>8
        <3>3. QED  BY <3>1, <3>2, WithinConcat
    <2>3. QED  BY <1>8, <2>1, <2>2, Zenon
<1>11. TypeOK'
    BY <1>1, <1>2, <1>9, <1>10 DEF TypeOK, PCs, T
<1>12. OutType'
    BY <1>1, <1>2 DEF OutType
<1>13. SizeInv'
    <2>1. BufferFits'
        BY <1>2, <1>3, <1>4, <1>5, <1>10 DEF BufferFits
    <2>2. QED  BY <1>2, <1>5, <2>1 DEF SizeInv, Serving
<1>14. SessionInv'
    BY <1>1, <1>2 DEF SessionInv, Waiting, Serving, HitLimit
<1>15. OutInv'
    BY <1>1, <1>2 DEF OutInv, AnsweredInOrder, Serving
<1>16. StreamInv'
    <2>1. S' = S
        BY <1>2 DEF S
    <2>2. Within(S, fill, a + Len(buf'))
        BY <1>4, <1>5, <1>9, <1>10 DEF Within
    <2>3. Aligned(a)'
        BY <1>2, <1>4, <1>5, <1>9, <1>10, <2>1, <2>2 DEF Aligned, S
    <2>4. HeadInv(a)'
        BY <1>2, <1>6 DEF HeadInv, Waiting, Serving
    <2>5. FrameInv(a)'
        BY <1>2, <1>6 DEF FrameInv, Waiting, Serving, Honest
    <2>6. QED  BY <2>3, <2>4, <2>5 DEF StreamInv
<1>17. QED  BY <1>11, <1>12, <1>13, <1>14, <1>15, <1>16 DEF IInv

-----------------------------------------------------------------------------
(* Taking the request.                                                       *)

\* Where in the stream the bytes of the buffer are.
LEMMA BufferPlaces ==
    ASSUME TypeOK, NEW a \in Nat, Aligned(a), NEW p \in 1 .. Len(buf)
    PROVE  /\ a + p \in 1 .. Len(Stream(script)) /\ buf[p] = Stream(script)[a + p]
           /\ buf[p] \in Nat \X Nat /\ buf[p][1] \in 1 .. Len(script)
<1>1. buf \in Seq(TokensOf(script)) /\ TokensOf(script) \subseteq Places(script)
      /\ Len(Stream(script)) \in Nat
    BY StreamTyped DEF TypeOK
<1>2. buf[p] \in Places(script) /\ Len(buf) \in Nat
    BY <1>1
<1>3. QED  BY <1>1, <1>2 DEF Aligned, Within, Places

\* The head found comes after the request served last.
LEMMA LaterHead ==
    ASSUME TypeOK, NEW a \in Nat, Aligned(a), NEW e \in 1 .. Len(buf), who > 0,
           Before(<<who, script[who].head>>, Stream(script)[a + 1]),
           NEW i \in Nat, buf[e] = <<i, script[i].head>>
    PROVE  who < i
<1> DEFINE S == Stream(script)
           t == <<who, script[who].head>>
<1>1. script \in Seq(Requests) /\ Len(S) \in Nat /\ Len(buf) \in Nat /\ who \in 1 .. Len(script)
    BY StreamTyped DEF TypeOK
<1>2. /\ a + 1 \in 1 .. Len(S) /\ a + e \in 1 .. Len(S)
      /\ S[a + e] = buf[e] /\ S[a + 1] \in Nat \X Nat /\ S[a + e] \in Nat \X Nat
    <2>1. 1 \in 1 .. Len(buf)
        BY <1>1
    <2>2. QED  BY <2>1, BufferPlaces
<1>3. t \in Nat \X Nat
    BY <1>1, SizeType
<1>4. Before(t, S[a + e])
    <2>1. CASE e = 1
        BY <2>1
    <2>2. CASE e # 1
        <3>1. a + 1 < a + e
            BY <1>1, <2>2
        <3>2. Before(S[a + 1], S[a + e])
            BY <1>1, <1>2, <3>1, StreamOrdered
        <3> HIDE DEF S, t
        <3>3. Before(t, S[a + 1])
            BY DEF S, t
        <3>4. QED  BY <1>2, <1>3, <3>2, <3>3, BeforeTransitive
    <2>3. QED  BY <2>1, <2>2
<1>5. Before(<<who, script[who].head>>, <<i, script[i].head>>)
    BY <1>2, <1>4
<1>6. script[who].head \in Nat /\ who \in Nat
    BY <1>1, <1>3
<1>7. who < i \/ (who = i /\ script[who].head < script[i].head)
    BY <1>5 DEF Before
<1>8. QED  BY <1>6, <1>7

\* A buffer that begins where request j begins: the first head in it is j's.
LEMMA HeadOfRequest ==
    ASSUME TypeOK, NEW a \in Nat, Aligned(a), NEW e \in 1 .. Len(buf), IsHeadEnd(buf[e]),
           \A p \in 1 .. e - 1 : ~IsHeadEnd(buf[p]),
           NEW j \in Nat, Stream(script)[a + 1] = <<j, 1>>
    PROVE  buf[e] = <<j, e>> /\ e = script[j].head /\ buf[1] = <<j, 1>>
<1> DEFINE S == Stream(script)
           h == script[j].head
<1>1. script \in Seq(Requests) /\ Len(S) \in Nat /\ Len(buf) \in Nat
    BY StreamTyped DEF TypeOK
<1>2. \A p \in 1 .. Len(buf) : a + p \in 1 .. Len(S) /\ buf[p] = S[a + p]
    BY BufferPlaces
<1>3. 1 \in 1 .. Len(buf)
    BY <1>1
<1>4. buf[1] = <<j, 1>> /\ j \in 1 .. Len(script) /\ a + 1 \in 1 .. Len(S)
    BY <1>2, <1>3, BufferPlaces
<1>5. h \in 1 .. Size(script, j) /\ Size(script, j) \in Nat
    BY <1>1, <1>4, SizeType
<1>6. \A p \in 1 .. Len(buf) : p <= Size(script, j) => buf[p] = <<j, p>>
    <2> SUFFICES ASSUME NEW p \in 1 .. Len(buf), p <= Size(script, j)
                 PROVE  buf[p] = <<j, p>>
        OBVIOUS
    <2>1. /\ a + p \in 1 .. Len(S) /\ buf[p] = S[a + p] /\ a + 1 \in 1 .. Len(S)
          /\ S[a + 1] = <<j, 1>> /\ j \in Nat
        BY <1>2, <1>3, <1>4
    <2>2. script \in Seq(Requests) /\ p \in Nat /\ 1 \in Nat
        BY <1>1
    <2>3. a + 1 <= a + p /\ p - 1 = (a + p) - (a + 1)
        BY <2>2
    <2>4. SameRun(script, a + 1, a + p, j, 1, p)
        BY <2>1, <2>2, <2>3 DEF SameRun
    <2>5. S[a + p] = <<j, p>>
        BY <2>2, <2>4, SameRequest
    <2>6. QED  BY <2>1, <2>5
<1>7. e <= h
    <2> SUFFICES ASSUME ~(e <= h) PROVE FALSE
        OBVIOUS
    <2>1. h \in 1 .. e - 1 /\ h \in 1 .. Len(buf)
        <3>1. h \in Nat \ {0} /\ Len(buf) \in Nat
            BY <1>1, <1>5
        <3> HIDE DEF h
        <3>2. QED  BY <3>1
    <2>2. buf[h] = <<j, h>>
        BY <1>5, <1>6, <2>1
    <2>3. IsHeadEnd(buf[h])
        BY <2>2 DEF IsHeadEnd
    <2>4. QED  BY <2>1, <2>3
<1>8. buf[e] = <<j, e>>
    BY <1>5, <1>6, <1>7
<1>9. e = h
    BY <1>8 DEF IsHeadEnd
<1>10. QED  BY <1>4, <1>8, <1>9

\* Answers are to requests.
LEMMA RequestsAnswered ==
    ASSUME OutType
    PROVE  \A k \in 1 .. Len(out) : out[k].request \in Nat
<1>1. \A k \in 1 .. Len(out) : out[k] \in Answers
    BY DEF OutType
<1>2. QED  BY <1>1 DEF Answers

\* Taking the request whose head was found keeps the invariant.
LEMMA ParseInv == IInv /\ Parse => IInv'
<1> SUFFICES ASSUME IInv, Parse PROVE IInv'  OBVIOUS
<1>1. TypeOK /\ OutType /\ SizeInv /\ SessionInv /\ StreamInv /\ OutInv
    BY DEF IInv
<1> DEFINE i == buf[headerEnd][1]
           g == buf[1] # <<i, 1>>
<1>2. /\ pc = "parse" /\ pc' \in {"shutdown", "limits", "upgrading"}
      /\ who' = i /\ garbled' = g /\ headerViews' = gen /\ bodyView' = "none"
      /\ contentLength' = 0
      /\ requestCount' = IF pc' = "shutdown" THEN requestCount ELSE requestCount + 1
      /\ UNCHANGED <<script, rest, peer, stopping, buf, cap, gen, fill, keepAlive, headerEnd,
                     readDead, out>>
    BY DEF Parse, envVars, bufVars
<1>3. PICK a \in Nat : Aligned(a) /\ HeadInv(a) /\ FrameInv(a)
    BY <1>1 DEF StreamInv
<1>4. /\ script \in Seq(Requests) /\ Len(script) \in Nat /\ Len(buf) \in Nat
      /\ headerEnd \in 1 .. Len(buf) /\ fill = <<>>
      /\ who \in 0 .. Len(script) /\ requestCount \in Nat
    BY <1>1, <1>2, StreamTyped DEF TypeOK, SizeInv
<1>5. i \in 1 .. Len(script) /\ i \in Nat /\ buf[headerEnd] = <<i, script[i].head>>
    <2>1. buf[headerEnd] \in Nat \X Nat /\ i \in 1 .. Len(script)
        BY <1>1, <1>3, <1>4, BufferPlaces
    <2>2. buf[headerEnd][2] = script[i].head
        BY <1>2, <1>3 DEF HeadInv, IsHeadEnd
    <2>3. QED  BY <2>1, <2>2
<1>6. a + 1 \in 1 .. Len(Stream(script)) /\ buf[1] = Stream(script)[a + 1]
      /\ Len(Stream(script)) \in Nat
    <2>1. 1 \in 1 .. Len(buf) /\ script \in Scripts
        BY <1>1, <1>4 DEF TypeOK
    <2>2. QED  BY <1>1, <1>3, <2>1, BufferPlaces, StreamTyped
<1>7. who < i
    <2>1. CASE who = 0
        BY <1>5, <2>1
    <2>2. CASE who > 0
        <3>1. Before(<<who, script[who].head>>, Stream(script)[a + 1])
            BY <1>2, <1>3, <1>6, <2>2 DEF HeadInv, Waiting
        <3> HIDE DEF i
        <3>2. QED  BY <1>1, <1>3, <1>4, <1>5, <2>2, <3>1, LaterHead
    <2>3. QED  BY <1>4, <2>1, <2>2
<1>8. ASSUME \A j \in 1 .. i - 1 : Honest(j)
      PROVE  /\ who = requestCount /\ i = who + 1 /\ headerEnd = script[i].head
             /\ ~g /\ Stream(script)[a + 1] = <<i, 1>>
    <2>1. \A j \in 1 .. who : Honest(j)
        BY <1>4, <1>5, <1>7, <1>8
    <2>2. who = requestCount /\ Stream(script)[a + 1] = <<who + 1, 1>> /\ who + 1 \in Nat
        BY <1>2, <1>3, <1>4, <1>6, <2>1 DEF FrameInv, Waiting
    <2>3. IsHeadEnd(buf[headerEnd]) /\ \A p \in 1 .. headerEnd - 1 : ~IsHeadEnd(buf[p])
        BY <1>2, <1>3 DEF HeadInv
    <2>4. /\ buf[headerEnd] = <<who + 1, headerEnd>> /\ headerEnd = script[who + 1].head
          /\ buf[1] = <<who + 1, 1>>
        BY <1>1, <1>3, <1>4, <2>2, <2>3, HeadOfRequest
    <2>5. i = who + 1
        BY <2>4
    <2>6. QED  BY <2>2, <2>4, <2>5
<1> HIDE DEF i, g
<1>9. TypeOK'
    <2>1. g \in BOOLEAN
        BY DEF g
    <2>2. /\ garbled' \in BOOLEAN /\ who' \in 0 .. Len(script') /\ headerViews' \in Nat
          /\ contentLength' \in 0 .. MaxBody /\ requestCount' \in Nat
          /\ headerEnd' \in 0 .. Len(buf') /\ bodyView' \in {"none", "temporary"}
        BY <1>1, <1>2, <1>4, <1>5, <2>1, SizesAssumption DEF TypeOK
    <2>3. QED  BY <1>1, <1>2, <2>2 DEF TypeOK, PCs
<1>10. OutType'
    BY <1>1, <1>2 DEF OutType
<1>11. SizeInv'
    BY <1>1, <1>2, <1>4 DEF SizeInv, BufferFits, Serving
<1>12. SessionInv'
    <2>1. Waiting /\ ~Waiting'
        BY <1>2 DEF Waiting
    <2>2. QED  BY <1>1, <1>2, <2>1 DEF SessionInv
<1>13. OutInv'
    <2>1. ASSUME NEW k \in 1 .. Len(out) PROVE out[k].request < i
        <3>1. out[k].request \in Nat /\ out[k].request <= who
            BY <1>1, RequestsAnswered DEF OutInv
        <3>2. QED  BY <1>4, <1>5, <1>7, <3>1
    <2>2. \A k \in 1 .. Len(out) : out[k].request \in Nat
        BY <1>1, RequestsAnswered
    <2>3. QED  BY <1>1, <1>2, <1>5, <2>1, <2>2 DEF OutInv, AnsweredInOrder
<1>14. StreamInv'
    <2>1. Aligned(a)'
        BY <1>2, <1>3 DEF Aligned
    <2>2. HeadInv(a)'
        BY <1>2, <1>5 DEF HeadInv, Waiting, Serving
    <2>3. FrameInv(a)'
        <3> SUFFICES ASSUME Serving', \A j \in 1 .. i - 1 : Honest(j)'
                     PROVE  /\ ~garbled' /\ who' = requestCount'
                            /\ headerEnd' = script'[who'].head
                            /\ Stream(script')[a + 1] = <<who', 1>>
            BY <1>2 DEF FrameInv, Waiting
        <3>1. \A j \in 1 .. i - 1 : Honest(j)
            BY <1>2 DEF Honest
        <3>2. requestCount' = requestCount + 1
            BY <1>2 DEF Serving
        <3>3. QED  BY <1>2, <1>8, <3>1, <3>2
    <2>4. QED  BY <2>1, <2>2, <2>3 DEF StreamInv
<1>15. QED  BY <1>9, <1>10, <1>11, <1>12, <1>13, <1>14 DEF IInv

-----------------------------------------------------------------------------
(* The body.                                                                 *)

\* What is missing of a body is never less than what the buffer lacks.
LEMMA MissingType ==
    ASSUME NEW n \in Nat, Len(buf) \in Nat, headerEnd \in Nat
    PROVE  /\ Missing(n) \in Nat /\ Missing(n) >= n - (Len(buf) - headerEnd)
           /\ Missing(n) > 0 => Missing(n) = n - (Len(buf) - headerEnd)
BY DEF Missing, MaxOf

\* Deciding whether the body is complete keeps the invariant.
LEMMA BodyInv == IInv /\ Body => IInv'
<1> SUFFICES ASSUME IInv, Body PROVE IInv'  OBVIOUS
<1>1. TypeOK /\ OutType /\ SizeInv /\ SessionInv /\ StreamInv /\ OutInv
    BY DEF IInv
<1> DEFINE n == script[who].length
<1>2. /\ pc = "body" /\ pc' \in {"dispatch", "refusing", "readingBody"}
      /\ UNCHANGED <<script, rest, peer, stopping, buf, fill, keepAlive, requestCount, headerEnd,
                     who, garbled, headerViews, readDead, out>>
    BY DEF Body, envVars, connVars
<1>3. Len(buf) \in Nat /\ cap \in Nat /\ gen \in Nat /\ headerEnd \in 1 .. Len(buf)
      /\ contentLength = 0 /\ fill = <<>> /\ Len(fill) = 0 /\ Len(buf) <= cap
    BY <1>1, <1>2 DEF TypeOK, SizeInv, BufferFits, Serving
<1>4. /\ cap' \in Nat /\ gen' \in Nat /\ cap' >= cap
      /\ contentLength' \in 0 .. MaxBody /\ bodyView' \in {"none", "temporary"}
      /\ pc' \in {"dispatch", "readingBody"} => contentLength' = Declared(who)
      /\ pc' = "readingBody" =>
            Missing(contentLength') > 0 /\ Len(buf) + Missing(contentLength') <= cap'
      /\ pc' = "dispatch" => headerEnd + contentLength' <= Len(buf)
    <2>1. CASE n = NoLength /\ pc' = "dispatch" /\ UNCHANGED <<cap, gen, contentLength, bodyView>>
        BY <1>1, <1>3, <2>1, SizesAssumption DEF Declared, TypeOK
    <2>2. CASE pc' = "refusing" /\ UNCHANGED <<cap, gen, contentLength, bodyView>>
        BY <1>1, <1>3, <2>2 DEF TypeOK
    <2>3. CASE /\ n \in Nat /\ ~TooLarge(n) /\ contentLength' = n
               /\ Missing(n) > 0 /\ EnsureWrite(Missing(n))
               /\ pc' = "readingBody" /\ UNCHANGED bodyView
        <3>1. n # NoLength /\ n \in 0 .. MaxBody
            BY <2>3, LengthsAssumption, SizesAssumption DEF TooLarge
        <3>2. Missing(n) \in Nat
            <4>1. n \in Nat /\ headerEnd \in Nat
                BY <1>3, <2>3
            <4> HIDE DEF n
            <4>2. QED  BY <1>3, <4>1, MissingType
        <3>3. cap' \in Nat /\ gen' \in Nat /\ cap' >= cap /\ cap' - Len(buf) >= Missing(n)
            BY <1>3, <2>3, <3>2, EnsureWriteGrows
        <3>4. QED  BY <1>1, <1>3, <2>3, <3>1, <3>2, <3>3 DEF Declared, TypeOK
    <2>4. CASE /\ n \in Nat /\ ~TooLarge(n) /\ contentLength' = n
               /\ ~(Missing(n) > 0)
               /\ pc' = "dispatch" /\ bodyView' = "temporary" /\ UNCHANGED <<cap, gen>>
        <3>1. n # NoLength /\ n \in 0 .. MaxBody
            BY <2>4, LengthsAssumption, SizesAssumption DEF TooLarge
        <3>2. headerEnd + n <= Len(buf)
            <4>1. n \in Nat /\ headerEnd \in Nat /\ ~(Missing(n) > 0)
                BY <1>3, <2>4
            <4> HIDE DEF n
            <4>2. Missing(n) \in Nat /\ Missing(n) >= n - (Len(buf) - headerEnd)
                BY <1>3, <4>1, MissingType
            <4>3. QED  BY <1>3, <4>1, <4>2
        <3>3. QED  BY <1>3, <2>4, <3>1, <3>2 DEF Declared
    <2>5. QED  BY <2>1, <2>2, <2>3, <2>4 DEF Body
<1>5. TypeOK'
    BY <1>1, <1>2, <1>3, <1>4 DEF TypeOK, PCs
<1>6. OutType'
    BY <1>1, <1>2 DEF OutType
<1>7. SizeInv'
    <2>1. BufferFits'
        BY <1>2, <1>3, <1>4 DEF BufferFits
    <2>2. Declared(who)' = Declared(who) /\ Missing(contentLength)' = Missing(contentLength')
        BY <1>2 DEF Declared, Missing
    <2>3. QED  BY <1>2, <1>3, <1>4, <2>1, <2>2 DEF SizeInv, Serving
<1>8. SessionInv'
    BY <1>1, <1>2 DEF SessionInv, Waiting, Serving, HitLimit
<1>9. OutInv'
    BY <1>1, <1>2 DEF OutInv, AnsweredInOrder, Serving
<1>10. StreamInv'
    <2>1. PICK a \in Nat : Aligned(a) /\ HeadInv(a) /\ FrameInv(a)
        BY <1>1 DEF StreamInv
    <2>2. Aligned(a)' /\ HeadInv(a)' /\ FrameInv(a)'
        BY <1>2, <2>1 DEF Aligned, HeadInv, FrameInv, Waiting, Serving, Honest
    <2>3. QED  BY <2>2 DEF StreamInv
<1>11. QED  BY <1>5, <1>6, <1>7, <1>8, <1>9, <1>10 DEF IInv

\* Bytes that arrive while a body is read keep the invariant.
LEMMA ReceiveBodyInv == IInv /\ ReceiveBody => IInv'
<1> SUFFICES ASSUME IInv, ReceiveBody PROVE IInv'  OBVIOUS
<1>1. TypeOK /\ OutType /\ SizeInv /\ SessionInv /\ StreamInv /\ OutInv
    BY DEF IInv
<1> DEFINE T == TokensOf(script)
           S == Stream(script)
           m == Missing(contentLength)
<1>2. /\ pc = "readingBody" /\ pc' \in {"dispatch", "readingBody"}
      /\ UNCHANGED <<script, peer, stopping, cap, gen, keepAlive, requestCount, headerEnd,
                     contentLength, who, garbled, headerViews, readDead, out>>
    BY DEF ReceiveBody, connVars
<1>3. PICK n \in 1 .. Len(rest) :
          /\ n <= m - Len(fill)
          /\ rest' = SubSeq(rest, n + 1, Len(rest))
          /\ LET got == fill \o SubSeq(rest, 1, n)
             IN  IF Len(got) = m
                    THEN /\ buf' = buf \o got /\ fill' = <<>>
                         /\ pc' = "dispatch" /\ bodyView' = "temporary"
                    ELSE fill' = got /\ UNCHANGED <<buf, pc, bodyView>>
    BY DEF ReceiveBody
<1> DEFINE new == SubSeq(rest, 1, n)
           got == fill \o new
<1>4. /\ S \in Seq(T) /\ rest \in Seq(T) /\ buf \in Seq(T) /\ fill \in Seq(T)
      /\ script \in Scripts /\ Len(rest) \in Nat /\ Len(buf) \in Nat /\ Len(fill) \in Nat
      /\ cap \in Nat /\ n \in 0 .. Len(rest)
    BY <1>1, StreamTyped DEF TypeOK
<1>5. /\ headerEnd \in 1 .. Len(buf) /\ contentLength \in Nat /\ contentLength = Declared(who)
      /\ Len(buf) + m <= cap /\ Len(fill) < m /\ m \in Nat
      /\ m = contentLength - (Len(buf) - headerEnd)
    <2>1. contentLength \in Nat
        BY <1>1, SizesAssumption DEF TypeOK
    <2>2. /\ headerEnd \in 1 .. Len(buf) /\ contentLength = Declared(who)
          /\ Len(buf) + m <= cap /\ Len(fill) < m
        BY <1>1, <1>2 DEF SizeInv, Serving
    <2>3. headerEnd \in Nat
        BY <2>2
    <2>4. m \in Nat /\ (m > 0 => m = contentLength - (Len(buf) - headerEnd))
        BY <1>4, <2>1, <2>3, MissingType
    <2>5. QED  BY <1>4, <2>1, <2>2, <2>4
<1>6. PICK a \in Nat : Aligned(a) /\ HeadInv(a) /\ FrameInv(a)
    BY <1>1 DEF StreamInv
<1>7. /\ Within(S, buf, a) /\ Within(S, fill, a + Len(buf))
      /\ Within(S, rest, a + Len(buf) + Len(fill))
      /\ a + Len(buf) \in Nat /\ a + Len(buf) + Len(fill) \in Nat
    BY <1>4, <1>6 DEF Aligned
<1> HIDE DEF S, T, m
<1>8. new \in Seq(T) /\ Len(new) = n /\ Within(S, new, a + Len(buf) + Len(fill))
    BY <1>4, <1>7, WithinPrefix
<1>9. rest' \in Seq(T) /\ Within(S, rest', a + Len(buf) + Len(fill) + n)
    BY <1>3, <1>4, <1>7, WithinSuffix
<1> HIDE DEF new
<1>10. got \in Seq(T) /\ Len(got) = Len(fill) + n /\ Within(S, got, a + Len(buf))
    <2>1. S \in Seq(T) /\ fill \in Seq(T) /\ new \in Seq(T) /\ a + Len(buf) \in Nat
        BY <1>4, <1>7, <1>8
    <2>2. Within(S, fill, a + Len(buf)) /\ Within(S, new, a + Len(buf) + Len(fill))
        BY <1>7, <1>8
    <2>3. /\ Within(S, fill \o new, a + Len(buf)) /\ fill \o new \in Seq(T)
          /\ Len(fill \o new) = Len(fill) + Len(new)
        BY <2>1, <2>2, WithinConcat
    <2>4. QED  BY <1>8, <2>3
<1> HIDE DEF got
<1>11. \/ Len(got) = m /\ buf' = buf \o got /\ fill' = <<>> /\ pc' = "dispatch"
          /\ bodyView' = "temporary"
       \/ Len(got) # m /\ fill' = got /\ UNCHANGED <<buf, pc, bodyView>>
    BY <1>3 DEF got, new
<1>12. OutType' /\ SessionInv' /\ OutInv'
    BY <1>1, <1>2 DEF OutType, SessionInv, OutInv, AnsweredInOrder, Waiting, Serving, HitLimit
<1>13. /\ Len(buf) \in Nat /\ Len(fill) \in Nat /\ cap \in Nat /\ n \in Nat
       /\ Len(got) = Len(fill) + n /\ n <= m - Len(fill)
       /\ m \in Nat /\ Len(buf) + m <= cap
    BY <1>3, <1>4, <1>5, <1>10
<1>14. CASE Len(got) = m /\ buf' = buf \o got /\ fill' = <<>> /\ pc' = "dispatch"
            /\ bodyView' = "temporary"
    <2>1. buf' \in Seq(T) /\ Len(buf') = Len(buf) + m /\ Within(S, buf', a)
        <3>1. S \in Seq(T) /\ buf \in Seq(T) /\ got \in Seq(T) /\ a \in Nat
            BY <1>4, <1>10
        <3>2. Within(S, buf, a) /\ Within(S, got, a + Len(buf))
            BY <1>7, <1>10
        <3>3. /\ Within(S, buf \o got, a) /\ buf \o got \in Seq(T)
              /\ Len(buf \o got) = Len(buf) + Len(got)
            BY <3>1, <3>2, WithinConcat
        <3>4. QED  BY <1>14, <3>3, Zenon
    <2>2. TypeOK'
        <3>1. headerEnd' \in 0 .. Len(buf')
            <4>1. headerEnd \in 1 .. Len(buf) /\ Len(buf) \in Nat /\ m \in Nat
                BY <1>5, <1>13
            <4>2. headerEnd' = headerEnd /\ Len(buf') = Len(buf) + m
                BY <1>2, <2>1
            <4> HIDE DEF m
            <4>3. QED  BY ONLY <4>1, <4>2
        <3>2. fill' \in Seq(TokensOf(script))
            BY <1>14
        <3>3. QED  BY <1>1, <1>2, <1>9, <1>14, <2>1, <3>1, <3>2 DEF TypeOK, PCs, T
    <2>3. SizeInv'
        <3>1. Len(fill') = 0
            BY <1>14
        <3>2. /\ Len(buf') = Len(buf) + m /\ headerEnd' = headerEnd
              /\ contentLength' = contentLength /\ cap' = cap
            BY <1>2, <2>1
        <3>3. BufferFits' /\ headerEnd' + contentLength' <= Len(buf')
              /\ headerEnd' \in 1 .. Len(buf')
            <4>1. Len(buf) + m + 0 <= cap
                BY <1>13
            <4>2. headerEnd + contentLength <= Len(buf) + m /\ headerEnd \in 1 .. Len(buf) + m
                <5>1. /\ headerEnd \in Nat \ {0} /\ headerEnd <= Len(buf) /\ contentLength \in Nat
                      /\ Len(buf) \in Nat /\ m \in Nat
                      /\ m = contentLength - (Len(buf) - headerEnd)
                    BY <1>5, <1>13
                <5> HIDE DEF m
                <5>2. QED  BY ONLY <5>1
            <4>3. BufferFits'
                BY <3>1, <3>2, <4>1 DEF BufferFits
            <4>4. headerEnd' + contentLength' <= Len(buf') /\ headerEnd' \in 1 .. Len(buf')
                BY <3>2, <4>2
            <4>5. QED  BY <4>3, <4>4
        <3>4. contentLength' = Declared(who)'
            BY <1>2, <1>5 DEF Declared
        <3>5. QED  BY <1>14, <3>3, <3>4 DEF SizeInv
    <2>4. Aligned(a)'
        <3>1. Len(fill') = 0 /\ S' = S
            BY <1>2, <1>14 DEF S
        <3>2. a + Len(buf') + 0 = a + Len(buf) + Len(fill) + n
            <4>1. Len(buf') = Len(buf) + m /\ m = Len(fill) + n
                BY <1>13, <1>14, <2>1
            <4>2. QED  BY <1>13, <4>1
        <3>3. Within(S, rest', a + Len(buf') + Len(fill'))
            BY <1>9, <3>1, <3>2
        <3>4. Within(S, fill', a + Len(buf'))
            BY <1>4, <2>1, <3>1, <3>3 DEF Within
        <3>5. QED  BY <2>1, <3>1, <3>3, <3>4 DEF Aligned, S
    <2>5. buf'[headerEnd] = buf[headerEnd]
        <3>1. headerEnd \in 1 .. Len(buf) /\ headerEnd \in 1 .. Len(buf')
            <4>1. /\ headerEnd \in 1 .. Len(buf) /\ Len(buf) \in Nat /\ m \in Nat
                  /\ Len(buf') = Len(buf) + m
                BY <1>5, <1>13, <2>1
            <4> HIDE DEF m
            <4>2. QED  BY ONLY <4>1
        <3>2. Within(S, buf, a) /\ Within(S, buf', a)
            BY <1>7, <2>1
        <3>3. QED  BY <3>1, <3>2 DEF Within
    <2>6. HeadInv(a)' /\ FrameInv(a)'
        BY <1>2, <1>6, <1>14, <2>5 DEF HeadInv, FrameInv, Waiting, Serving, Honest
    <2>7. QED  BY <1>12, <2>2, <2>3, <2>4, <2>6 DEF IInv, StreamInv
<1>15. CASE Len(got) # m /\ fill' = got /\ UNCHANGED <<buf, pc, bodyView>>
    <2>1. TypeOK'
        BY <1>1, <1>2, <1>9, <1>10, <1>15 DEF TypeOK, T
    <2>2. Len(fill') < m /\ Len(buf) + Len(fill') <= cap
        <3>1. Len(fill') = Len(fill) + n /\ Len(fill') # m
            BY <1>13, <1>15
        <3>2. Len(fill) + n <= m /\ Len(fill) + n # m
            BY <1>13, <3>1
        <3>3. Len(fill) + n < m /\ Len(buf) + (Len(fill) + n) <= cap
            BY <1>13, <3>2
        <3>4. QED  BY <3>1, <3>3
    <2>3. SizeInv'
        <3>1. Missing(contentLength)' = m /\ Declared(who)' = Declared(who)
            BY <1>2, <1>15 DEF Missing, Declared, m
        <3>2. QED  BY <1>1, <1>2, <1>5, <1>15, <2>2, <3>1 DEF SizeInv, BufferFits, Serving
    <2>4. Aligned(a)'
        <3>1. S' = S /\ a + Len(buf) + Len(fill') = a + Len(buf) + Len(fill) + n
            BY <1>2, <1>13, <1>15 DEF S
        <3>2. QED  BY <1>7, <1>9, <1>10, <1>15, <3>1 DEF Aligned, S
    <2>5. HeadInv(a)' /\ FrameInv(a)'
        BY <1>2, <1>6, <1>15 DEF HeadInv, FrameInv, Waiting, Serving, Honest
    <2>6. QED  BY <1>12, <2>1, <2>3, <2>4, <2>5 DEF IInv, StreamInv
<1>16. QED  BY <1>11, <1>14, <1>15

-----------------------------------------------------------------------------
(* Answering.                                                                *)

\* Another answer: it is to the request being served, later than all before.
LEMMA AnswerAppended ==
    ASSUME TypeOK, OutType, OutInv, Serving, NEW status \in {"handled", "refused"},
           out' = Append(out, Answer(status)), who' = who
    PROVE  /\ OutType' /\ Len(out') = Len(out) + 1 /\ out' # <<>>
           /\ Last(out') = Answer(status)
           /\ \A i \in 1 .. Len(out) : out'[i] = out[i]
           /\ out'[Len(out) + 1] = Answer(status)
           /\ (~Serving)' => OutInv'
<1>1. who \in Nat /\ keepAlive \in BOOLEAN
    <2>1. Len(script) \in Nat /\ who \in 0 .. Len(script)
        BY StreamTyped DEF TypeOK
    <2>2. QED  BY <2>1 DEF TypeOK
<1>2. Answer(status) \in Answers /\ Answer(status).request = who
    BY <1>1 DEF Answer, Answers
<1>3. out \in Seq(Answers) /\ Len(out) \in Nat
    BY DEF OutType
<1>4. /\ out' \in Seq(Answers) /\ Len(out') = Len(out) + 1
      /\ \A i \in 1 .. Len(out) : out'[i] = out[i]
      /\ out'[Len(out) + 1] = Answer(status)
    BY <1>2, <1>3, AppendProperties
<1>5. out' # <<>> /\ Last(out') = Answer(status)
    BY <1>3, <1>4 DEF Last
<1>6. ASSUME (~Serving)' PROVE OutInv'
    <2>1. \A i \in 1 .. Len(out) : out[i].request \in Nat /\ out[i].request < who
        BY RequestsAnswered DEF OutInv
    <2>2. \A i \in 1 .. Len(out') : i \in 1 .. Len(out) \/ i = Len(out) + 1
        BY <1>3, <1>4
    <2>3. \A i \in 1 .. Len(out') : out'[i].request <= who'
        BY <1>1, <1>2, <1>4, <2>1, <2>2
    <2>4. ASSUME NEW i \in 1 .. Len(out'), NEW j \in 1 .. Len(out'), i < j
          PROVE  out'[i].request < out'[j].request
        <3>1. i \in 1 .. Len(out) /\ out'[i] = out[i]
            BY <1>3, <1>4, <2>2, <2>4
        <3>2. CASE j = Len(out) + 1
            BY <1>2, <1>4, <2>1, <3>1, <3>2
        <3>3. CASE j \in 1 .. Len(out)
            BY <1>4, <2>4, <3>1, <3>3 DEF OutInv, AnsweredInOrder
        <3>4. QED  BY <2>2, <3>2, <3>3
    <2>5. QED  BY <1>6, <2>3, <2>4 DEF OutInv, AnsweredInOrder
<1>7. QED  BY <1>4, <1>5, <1>6 DEF OutType

\* Refusing a request keeps the invariant.
LEMMA RefuseInv == IInv /\ Refuse => IInv'
<1> SUFFICES ASSUME IInv, Refuse PROVE IInv'  OBVIOUS
<1>1. TypeOK /\ OutType /\ SizeInv /\ SessionInv /\ StreamInv /\ OutInv
    BY DEF IInv
<1>2. /\ pc = "refusing" /\ pc' = "shutdown" /\ out' = Append(out, Answer("refused"))
      /\ UNCHANGED <<script, rest, peer, stopping, buf, cap, gen, fill, keepAlive, requestCount,
                     headerEnd, contentLength, who, garbled, headerViews, bodyView, readDead>>
    BY DEF Refuse, envVars, bufVars, connVars, reqVars
<1>3. Serving /\ ~Serving' /\ ~Waiting'
    BY <1>2 DEF Serving, Waiting
<1>4. OutType' /\ OutInv'
    BY <1>1, <1>2, <1>3, AnswerAppended
<1>5. TypeOK'
    BY <1>1, <1>2 DEF TypeOK, PCs
<1>6. SizeInv' /\ SessionInv'
    BY <1>1, <1>2, <1>3 DEF SizeInv, SessionInv, BufferFits
<1>7. StreamInv'
    <2>1. PICK a \in Nat : Aligned(a) /\ HeadInv(a) /\ FrameInv(a)
        BY <1>1 DEF StreamInv
    <2>2. Aligned(a)' /\ HeadInv(a)' /\ FrameInv(a)'
        BY <1>2, <1>3, <2>1 DEF Aligned, HeadInv, FrameInv
    <2>3. QED  BY <2>2 DEF StreamInv
<1>8. QED  BY <1>4, <1>5, <1>6, <1>7 DEF IInv

\* What is left of the buffer once n bytes of it are consumed.
LEMMA ConsumedRest ==
    ASSUME NEW T, NEW S \in Seq(T), buf \in Seq(T), NEW a \in Nat, Within(S, buf, a),
           NEW n \in 0 .. Len(buf)
    PROVE  /\ Consumed(n) \in Seq(T) /\ Len(Consumed(n)) = Len(buf) - n
           /\ Within(S, Consumed(n), a + n)
<1>1. Len(buf) \in Nat
    OBVIOUS
<1>2. CASE n = Len(buf)
    <2>1. Consumed(n) = <<>>
        BY <1>1, <1>2 DEF Consumed
    <2>2. QED  BY <1>1, <1>2, <2>1 DEF Within
<1>3. CASE n < Len(buf)
    <2>1. Consumed(n) = SubSeq(buf, n + 1, Len(buf))
        BY <1>1, <1>3 DEF Consumed
    <2>2. QED  BY <2>1, WithinSuffix
<1>4. QED  BY <1>1, <1>2, <1>3

\* The request that follows the last piece of request j.
LEMMA AfterRequest ==
    ASSUME NEW s \in Seq(Requests), NEW a \in Nat, NEW j \in Nat,
           Stream(s)[a + 1] = <<j, 1>>, a + 1 <= Len(Stream(s)),
           a + Size(s, j) < Len(Stream(s))
    PROVE  Stream(s)[a + Size(s, j) + 1] = <<j + 1, 1>>
<1> DEFINE S == Stream(s)
           z == Size(s, j)
<1>1. /\ Len(S) \in Nat
      /\ \A p \in 1 .. Len(S) - 1 : Follows(s, S[p], S[p + 1])
      /\ a + 1 \in 1 .. Len(S) /\ S[a + 1] \in Places(s)
    <2>1. /\ Len(S) \in Nat
          /\ \A p \in 1 .. Len(S) - 1 : Follows(s, S[p], S[p + 1])
          /\ \A p \in 1 .. Len(S) : S[p] \in Places(s)
        BY StreamPlaces
    <2>2. a + 1 \in 1 .. Len(S)
        BY <2>1
    <2>3. QED  BY <2>1, <2>2
<1>2. j \in 1 .. Len(s)
    BY <1>1 DEF Places
<1>3. z \in Nat \ {0} /\ a + z < Len(S) /\ Len(S) \in Nat
    BY <1>1, <1>2, SizeType
<1> HIDE DEF z, S
<1>4. a + 1 \in 1 .. Len(S) /\ a + z \in 1 .. Len(S)
    BY <1>3
<1>5. a + 1 <= a + z /\ z - 1 = (a + z) - (a + 1) /\ 1 \in Nat /\ z <= z
    BY <1>3
<1>6. S[a + z] = <<j, z>>
    <2>1. SameRun(s, a + 1, a + z, j, 1, z)
        BY <1>3, <1>4, <1>5 DEF SameRun, S, z
    <2>2. QED  BY <2>1, SameRequest DEF S
<1>7. a + z \in 1 .. Len(S) - 1
    BY <1>3
<1>8. Follows(s, S[a + z], S[a + z + 1])
    BY <1>1, <1>7
<1>9. S[a + z + 1] = <<j + 1, 1>>
    BY <1>3, <1>6, <1>8 DEF Follows, z
<1>10. QED  BY <1>9 DEF S, z

\* The response is written and the request consumed: what is left begins after
\* the request's head, and where the next request begins when it was declared.
LEMMA RespondInv == IInv /\ Respond => IInv'
<1> SUFFICES ASSUME IInv, Respond PROVE IInv'  OBVIOUS
<1>1. TypeOK /\ OutType /\ SizeInv /\ SessionInv /\ StreamInv /\ OutInv
    BY DEF IInv
<1> DEFINE n == headerEnd + contentLength
           S == Stream(script)
           T == TokensOf(script)
<1>2. /\ pc = "respond" /\ pc' = IF keepAlive THEN "scan" ELSE "shutdown"
      /\ out' = Append(out, Answer("handled")) /\ buf' = Consumed(n)
      /\ UNCHANGED <<script, rest, peer, stopping, cap, gen, fill, keepAlive, requestCount,
                     headerEnd, contentLength, who, garbled, headerViews, bodyView, readDead>>
    BY DEF Respond, envVars, connVars, reqVars
<1>3. Serving /\ ~Serving'
    BY <1>2 DEF Serving
<1>4. /\ script \in Scripts /\ S \in Seq(T) /\ script \in Seq(Requests) /\ Len(S) \in Nat
      /\ buf \in Seq(T) /\ Len(buf) \in Nat /\ Len(script) \in Nat
    BY <1>1, StreamTyped DEF TypeOK
<1>5. /\ headerEnd \in 1 .. Len(buf) /\ contentLength \in Nat /\ n <= Len(buf)
      /\ contentLength = Declared(who) /\ fill = <<>> /\ Len(fill) = 0
      /\ Len(buf) <= cap /\ cap \in Nat
    <2>1. contentLength \in Nat /\ cap \in Nat
        BY <1>1, SizesAssumption DEF TypeOK
    <2>2. /\ headerEnd \in 1 .. Len(buf) /\ n <= Len(buf) /\ contentLength = Declared(who)
          /\ fill = <<>> /\ Len(buf) + Len(fill) <= cap
        BY <1>1, <1>2, <1>3 DEF SizeInv, BufferFits
    <2>3. QED  BY <1>4, <2>1, <2>2
<1>6. n \in 0 .. Len(buf) /\ n \in Nat
    BY <1>4, <1>5
<1>7. PICK a \in Nat : Aligned(a) /\ HeadInv(a) /\ FrameInv(a)
    BY <1>1 DEF StreamInv
<1>8. Within(S, buf, a) /\ Within(S, rest, a + Len(buf))
    BY <1>4, <1>5, <1>7 DEF Aligned
<1>9. /\ buf' \in Seq(T) /\ Len(buf') = Len(buf) - n /\ Within(S, buf', a + n)
    <2> HIDE DEF n, S, T
    <2>1. /\ Consumed(n) \in Seq(T) /\ Len(Consumed(n)) = Len(buf) - n
          /\ Within(S, Consumed(n), a + n)
        BY <1>4, <1>6, <1>8, ConsumedRest
    <2>2. QED  BY <1>2, <2>1 DEF n
<1>10. /\ OutType' /\ OutInv'
       /\ \A i \in 1 .. Len(out) : out'[i] = out[i]
       /\ Len(out') = Len(out) + 1 /\ out'[Len(out) + 1] = Answer("handled")
    BY <1>1, <1>2, <1>3, AnswerAppended
<1>11. TypeOK'
    BY <1>1, <1>2, <1>9 DEF TypeOK, PCs
<1>12. SizeInv'
    <2>1. BufferFits'
        <3>1. Len(buf) - n <= cap
            BY <1>4, <1>5, <1>6
        <3>2. Len(buf') = Len(buf) - n /\ Len(fill') = 0 /\ cap' = cap
            BY <1>2, <1>5, <1>9
        <3>3. Len(buf) - n + 0 <= cap
            BY <1>4, <1>5, <1>6
        <3>4. QED  BY <3>2, <3>3 DEF BufferFits
    <2>2. pc' \in {"scan", "shutdown"} /\ fill' = <<>>
        BY <1>2, <1>5
    <2>3. QED  BY <1>3, <2>1, <2>2 DEF SizeInv
<1>13. SessionInv'
    <2> SUFFICES ASSUME Waiting'
                 PROVE  /\ ~HitLimit(requestCount)'
                        /\ \A i \in 1 .. Len(out') : ~out'[i].close
        BY <1>2, <1>3 DEF SessionInv
    <2>1. keepAlive
        BY <1>2 DEF Waiting
    <2>2. ~HitLimit(requestCount)'
        BY <1>1, <1>2, <2>1 DEF SessionInv, HitLimit
    <2>3. \A i \in 1 .. Len(out) : ~out[i].close
        BY <1>1, <1>3 DEF SessionInv
    <2>4. ~Answer("handled").close
        BY <2>1 DEF Answer
    <2>5. Len(out) \in Nat
        BY <1>1 DEF OutType
    <2>6. /\ \A i \in 1 .. Len(out) : out'[i] = out[i]
          /\ Len(out') = Len(out) + 1 /\ out'[Len(out) + 1] = Answer("handled")
        BY <1>10
    <2> HIDE DEF n, S, T
    <2>7. ASSUME NEW i \in 1 .. Len(out') PROVE ~out'[i].close
        <3>1. i \in 1 .. Len(out) \/ i = Len(out) + 1
            BY <2>5, <2>6
        <3>2. QED  BY <2>3, <2>4, <2>6, <3>1
    <2>8. QED  BY <2>2, <2>7
<1>14. StreamInv'
    <2>0. PICK b \in Nat : b = a + n
        BY <1>6
    <2>1. b \in Nat /\ b + Len(buf') = a + Len(buf)
        BY <1>4, <1>6, <1>9, <2>0
    <2>2. Aligned(b)'
        <3>1. Within(S, fill', b + Len(buf'))
            BY <1>2, <1>4, <1>5, <1>8, <2>1 DEF Within
        <3>2. QED  BY <1>2, <1>4, <1>5, <1>8, <1>9, <2>0, <2>1, <3>1 DEF Aligned
    <2>3. /\ who \in 1 .. Len(script) /\ buf[headerEnd] = <<who, script[who].head>>
          /\ a + headerEnd \in 1 .. Len(S) /\ S[a + headerEnd] = <<who, script[who].head>>
        BY <1>1, <1>3, <1>5, <1>7, BufferPlaces DEF HeadInv
    <2>4. ASSUME b < Len(S) PROVE Before(<<who, script[who].head>>, S[b + 1])
        <3>1. b + 1 \in 1 .. Len(S) /\ a + headerEnd < b + 1
            <4>1. Len(S) \in Nat /\ headerEnd \in Nat /\ contentLength \in Nat
                BY <1>4, <1>5
            <4> HIDE DEF S
            <4>2. QED  BY <2>0, <2>4, <4>1 DEF n
        <3> HIDE DEF S
        <3>2. Before(S[a + headerEnd], S[b + 1])
            BY <1>4, <2>3, <3>1, StreamOrdered DEF S
        <3>3. QED  BY <2>3, <3>2
    <2>5. ASSUME b < Len(S), \A i \in 1 .. who : Honest(i)
          PROVE  S[b + 1] = <<who + 1, 1>>
        <3>1. /\ headerEnd = script[who].head /\ S[a + 1] = <<who, 1>>
            BY <1>3, <1>7, <2>3, <2>5 DEF FrameInv
        <3>2. contentLength = script[who].body
            <4>1. who \in 1 .. who
                BY <1>4, <2>3
            <4>2. Honest(who)
                BY <2>5, <4>1
            <4>3. script[who].body \in Nat
                <5>1. script[who] \in Requests
                    BY <1>4, <2>3
                <5>2. QED  BY <5>1 DEF Requests
            <4>4. CASE script[who].length = script[who].body
                BY <1>5, <4>3, <4>4, LengthsAssumption DEF Declared
            <4>5. CASE script[who].length = NoLength /\ script[who].body = 0
                BY <1>5, <4>5 DEF Declared
            <4>6. QED  BY <4>2, <4>4, <4>5 DEF Honest
        <3>3. n = Size(script, who)
            BY <3>1, <3>2 DEF Size
        <3>4. a + 1 <= Len(S) /\ a + Size(script, who) < Len(S) /\ who \in Nat
            <4>1. /\ Len(S) \in Nat /\ a \in Nat /\ n \in Nat /\ headerEnd \in Nat \ {0}
                  /\ contentLength \in Nat /\ a + n < Len(S) /\ who \in Nat
                BY <1>4, <1>5, <1>6, <2>0, <2>3, <2>5
            <4>2. n >= 1
                BY <4>1
            <4> HIDE DEF S, n
            <4>3. a + 1 <= Len(S) /\ a + n < Len(S)
                BY <4>1, <4>2
            <4>4. QED  BY <3>3, <4>1, <4>3
        <3>5. S[a + Size(script, who) + 1] = <<who + 1, 1>>
            BY <1>4, <3>1, <3>4, AfterRequest
        <3>6. QED  BY <2>0, <3>3, <3>5
    <2>6. HeadInv(b)'
        BY <1>2, <1>3, <2>4 DEF HeadInv
    <2>7. FrameInv(b)'
        <3> SUFFICES ASSUME Waiting', \A i \in 1 .. who : Honest(i)'
                     PROVE  /\ who = requestCount
                            /\ b < Len(S) => S[b + 1] = <<who + 1, 1>>
            BY <1>2, <1>3 DEF FrameInv
        <3>1. \A i \in 1 .. who : Honest(i)
            BY <1>2 DEF Honest
        <3>2. who = requestCount
            BY <1>3, <1>7, <2>3, <3>1 DEF FrameInv
        <3>3. QED  BY <2>5, <3>1, <3>2
    <2>8. QED  BY <2>1, <2>2, <2>6, <2>7 DEF StreamInv
<1>15. QED  BY <1>10, <1>11, <1>12, <1>13, <1>14 DEF IInv

-----------------------------------------------------------------------------
(* The theorems.                                                             *)

\* Every step keeps the invariant.
LEMMA NextInv == IInv /\ [Next]_vars => IInv'
<1> SUFFICES ASSUME IInv, [Next]_vars PROVE IInv'  OBVIOUS
<1>1. CASE Scan
    BY <1>1, ScanInv
<1>2. CASE Parse
    BY <1>2, ParseInv
<1>3. CASE Body
    BY <1>3, BodyInv
<1>4. CASE Receive
    BY <1>4, ReceiveInv
<1>5. CASE ReceiveBody
    BY <1>5, ReceiveBodyInv
<1>6. CASE Respond
    BY <1>6, RespondInv
<1>7. CASE Refuse
    BY <1>7, RefuseInv
<1>8. CASE Quiet
    BY <1>8, QuietInv
<1>9. QED
    BY <1>1, <1>2, <1>3, <1>4, <1>5, <1>6, <1>7, <1>8 DEF Next, Coroutine, WithPeer, Quiet

\* Every reachable state of a connection satisfies the invariant.
THEOREM Invariance == Spec => []IInv
BY InitInv, NextInv, PTL DEF Spec

\* Every variable keeps its type, for every script and every size.
THEOREM TypeCorrect == Spec => []TypeOK
BY Invariance, PTL DEF IInv

\* What async_read_some and async_read are asked to place fits the allocation of
\* read_buffer: ensure_write() leaves room for it behind whatever is pipelined.
THEOREM ReadsFit == Spec => []BufferFits
<1>1. IInv => BufferFits
    BY DEF IInv, SizeInv
<1>2. QED  BY <1>1, Invariance, PTL

\* Framing: if every earlier request declared its body, the loop of
\* handle_connection() serves the next request of the client from its first byte.
THEOREM FramingKept == Spec => []InStep
<1>1. IInv => InStep
    BY DEF IInv, StreamInv, FrameInv, InStep
<1>2. QED  BY <1>1, Invariance, PTL

\* No request is answered twice, and answers come in the order of the requests,
\* out of step or not: consume() always takes at least the head just served.
THEOREM AnswersOrdered == Spec => []AnsweredInOrder
<1>1. IInv => AnsweredInOrder
    BY DEF IInv, OutInv
<1>2. QED  BY <1>1, Invariance, PTL

\* The view a handler gets of its request's body holds all of that body and no
\* byte of its neighbours on the connection.
THEOREM BodyIsOwn == Spec => []OwnBody
<1>1. IInv => OwnBody
    <2> SUFFICES ASSUME IInv, pc \in {"dispatch", "respond"}, \A i \in 1 .. who : Honest(i)
                 PROVE  /\ headerEnd + contentLength <= Len(buf)
                        /\ SubSeq(buf, headerEnd + 1, headerEnd + contentLength) =
                               [k \in 1 .. script[who].body |-> <<who, script[who].head + k>>]
        BY DEF OwnBody
    <2> DEFINE S == Stream(script)
    <2>1. TypeOK /\ SizeInv /\ StreamInv /\ Serving
        BY DEF IInv, Serving
    <2>2. PICK a \in Nat : Aligned(a) /\ HeadInv(a) /\ FrameInv(a)
        BY <2>1 DEF StreamInv
    <2>3. /\ headerEnd \in 1 .. Len(buf) /\ headerEnd + contentLength <= Len(buf)
          /\ contentLength = Declared(who)
        BY <2>1 DEF SizeInv
    <2>4. /\ who \in 1 .. Len(script) /\ buf[headerEnd] = <<who, script[who].head>>
        BY <2>1, <2>2 DEF HeadInv
    <2>5. /\ script \in Seq(Requests) /\ S \in Seq(TokensOf(script)) /\ Len(S) \in Nat
          /\ buf \in Seq(TokensOf(script)) /\ Len(buf) \in Nat /\ Len(script) \in Nat
        BY <2>1, StreamTyped DEF TypeOK
    <2>6. script[who] \in Requests /\ who \in Nat /\ who \in 1 .. who
        BY <2>4, <2>5
    <2>7. script[who].body \in Nat /\ script[who].head \in Nat
        BY <2>6 DEF Requests
    <2>8. contentLength = script[who].body
        <3>1. Honest(who)
            BY <2>6
        <3>2. CASE script[who].length = script[who].body
            BY <2>3, <2>7, <3>2, LengthsAssumption DEF Declared
        <3>3. CASE script[who].length = NoLength /\ script[who].body = 0
            BY <2>3, <3>3 DEF Declared
        <3>4. QED  BY <3>1, <3>2, <3>3 DEF Honest
    <2>9. ASSUME NEW k \in 1 .. contentLength
          PROVE  buf[headerEnd + k] = <<who, script[who].head + k>>
        <3>1. headerEnd + k \in 1 .. Len(buf) /\ headerEnd \in Nat /\ k \in Nat
            BY <2>3, <2>5, <2>7, <2>8
        <3>2. /\ a + headerEnd \in 1 .. Len(S) /\ S[a + headerEnd] = <<who, script[who].head>>
            BY <2>1, <2>2, <2>3, <2>4, BufferPlaces
        <3>3. /\ a + (headerEnd + k) \in 1 .. Len(S)
              /\ buf[headerEnd + k] = S[a + (headerEnd + k)]
            BY <2>1, <2>2, <3>1, BufferPlaces
        <3>4. script[who].head + k <= Size(script, who) /\ script[who].head + k \in Nat
            BY <2>7, <2>8, <3>1 DEF Size
        <3>5. /\ a + headerEnd <= a + (headerEnd + k)
              /\ (script[who].head + k) - script[who].head
                     = (a + (headerEnd + k)) - (a + headerEnd)
            BY <2>7, <3>1
        <3>6. S[a + (headerEnd + k)] = <<who, script[who].head + k>>
            <4>1. SameRun(script, a + headerEnd, a + (headerEnd + k), who,
                          script[who].head, script[who].head + k)
                BY <2>6, <2>7, <3>2, <3>3, <3>4, <3>5 DEF SameRun
            <4>2. QED  BY <2>5, <4>1, SameRequest
        <3>7. QED  BY <3>3, <3>6
    <2>10. SubSeq(buf, headerEnd + 1, headerEnd + contentLength) =
               [k \in 1 .. contentLength |-> buf[headerEnd + k]]
        <3>1. contentLength \in Nat /\ headerEnd \in Nat
            BY <2>3, <2>5, <2>7, <2>8
        <3>2. (headerEnd + contentLength) - (headerEnd + 1) + 1 = contentLength
            BY <3>1
        <3>3. \A k \in 1 .. contentLength : (headerEnd + 1) + k - 1 = headerEnd + k
            BY <3>1
        <3>4. headerEnd + 1 \in 1 .. Len(buf) + 1 /\ headerEnd + contentLength \in 0 .. Len(buf)
            BY <2>3, <2>5, <3>1
        <3>5. QED  BY <2>5, <3>1, <3>2, <3>3, <3>4
    <2>11. QED  BY <2>3, <2>8, <2>9, <2>10
<1>2. QED  BY <1>1, Invariance, PTL

-----------------------------------------------------------------------------
(* The connection implements the session of HttpSession.                     *)

Announced == out # <<>> /\ Last(out).close
SessionState ==
    CASE pc \in {"scan", "reading", "parse"} -> "waiting"
      [] pc \in {"upgrading", "limits", "body", "readingBody", "refusing",
                 "dispatch", "respond"} -> "serving"
      [] pc = "streaming" -> "streaming"
      [] pc = "shutdown" /\ out # <<>> /\ Last(out).close -> "ending"
      [] OTHER -> "closed"

\* While requests are taken or served, no end has been announced.
LEMMA NotAnnounced == IInv /\ (Waiting \/ Serving) => ~Announced
<1> SUFFICES ASSUME IInv, Waiting \/ Serving, out # <<>> PROVE ~Last(out).close
    BY DEF Announced
<1>1. out \in Seq(Answers) /\ \A i \in 1 .. Len(out) : ~out[i].close
    BY DEF IInv, OutType, SessionInv
<1>2. Len(out) \in 1 .. Len(out)
    BY <1>1
<1>3. QED  BY <1>1, <1>2 DEF Last

\* How the session's state follows from the place of the coroutine.
LEMMA SessionStates ==
    /\ pc \in {"scan", "reading", "parse"} => SessionState = "waiting"
    /\ pc \in {"upgrading", "limits", "body", "readingBody", "refusing",
               "dispatch", "respond"} => SessionState = "serving"
    /\ pc = "streaming" => SessionState = "streaming"
    /\ pc = "shutdown" /\ Announced => SessionState = "ending"
    /\ pc = "shutdown" /\ ~Announced => SessionState = "closed"
    /\ pc \in {"done", "escaped"} => SessionState = "closed"
BY DEF SessionState, Announced

\* The steps of the session, over the state it is mapped to.
Take == SessionState = "waiting" /\ ~HitLimit(requestCount) /\ SessionState' = "serving"
        /\ requestCount' = requestCount + 1 /\ Len(out)' = Len(out)
Answered == /\ SessionState = "serving" /\ Len(out)' = Len(out) + 1
            /\ requestCount' = requestCount
            /\ \/ SessionState' = "ending"
               \/ ~HitLimit(requestCount) /\ SessionState' = "waiting"
Upgraded == SessionState = "serving" /\ SessionState' = "streaming"
            /\ UNCHANGED <<requestCount, Len(out)>>
HungUp == SessionState # "closed" /\ SessionState' = "closed"
          /\ UNCHANGED <<requestCount, Len(out)>>
Unseen == UNCHANGED <<SessionState, requestCount, Len(out)>>

\* A response takes the session from serving to waiting or, if it announced the
\* end, to ending.
LEMMA AnswerSession ==
    ASSUME IInv, Respond \/ Refuse
    PROVE  Answered
<1>1. TypeOK /\ OutType /\ OutInv /\ Serving
    BY DEF IInv, Respond, Refuse, Serving
<1>2. PICK status \in {"handled", "refused"} :
          out' = Append(out, Answer(status)) /\ (status = "refused" <=> pc = "refusing")
    BY DEF Respond, Refuse
<1>3. UNCHANGED <<who, keepAlive, requestCount>>
    BY DEF Respond, Refuse, connVars, reqVars
<1>4. Len(out') = Len(out) + 1 /\ out' # <<>> /\ Last(out') = Answer(status)
    BY <1>1, <1>2, <1>3, AnswerAppended
<1>5. SessionState = "serving"
    BY SessionStates DEF Respond, Refuse
<1>6. CASE Respond /\ keepAlive
    <2>1. ~HitLimit(requestCount)
        BY <1>6 DEF IInv, SessionInv, Respond
    <2>2. pc' = "scan"
        BY <1>6 DEF Respond
    <2>3. SessionState' = "waiting"
        BY <2>2 DEF SessionState
    <2>4. QED  BY <1>3, <1>4, <1>5, <2>1, <2>3 DEF Answered
<1>7. CASE Refuse \/ ~keepAlive
    <2>1. pc' = "shutdown"
        BY <1>7 DEF Respond, Refuse
    <2>2. Answer(status).close
        BY <1>2, <1>7 DEF Answer, Refuse
    <2>3. Announced'
        BY <1>4, <2>2 DEF Announced
    <2>4. SessionState' = "ending"
        BY <2>1, <2>3 DEF SessionState, Announced
    <2>5. QED  BY <1>3, <1>4, <1>5, <2>4 DEF Answered
<1>8. QED  BY <1>6, <1>7

\* Every other step keeps the answers; what the session sees of it depends on
\* where the coroutine was and is.
LEMMA SessionStep ==
    ASSUME IInv, [Next]_vars
    PROVE  Take \/ Answered \/ Upgraded \/ HungUp \/ Unseen
<1>1. CASE Respond \/ Refuse
    BY <1>1, AnswerSession
<1> USE DEF envVars, bufVars, connVars, reqVars
<1>2. CASE Parse
    <2>1. pc = "parse" /\ out' = out /\ ~HitLimit(requestCount) /\ ~Announced
        BY <1>2, NotAnnounced DEF Parse, IInv, SessionInv, Waiting
    <2>2. \/ pc' = "shutdown" /\ requestCount' = requestCount
          \/ pc' \in {"limits", "upgrading"} /\ requestCount' = requestCount + 1
        BY <1>2 DEF Parse
    <2>3. SessionState = "waiting"
        BY <2>1 DEF SessionState
    <2>4. CASE pc' = "shutdown" /\ requestCount' = requestCount
        <3>1. SessionState' = "closed"
            BY <2>1, <2>4 DEF SessionState, Announced
        <3>2. QED  BY <2>1, <2>3, <2>4, <3>1 DEF HungUp
    <2>5. CASE pc' \in {"limits", "upgrading"} /\ requestCount' = requestCount + 1
        <3>1. SessionState' = "serving"
            BY <2>5 DEF SessionState
        <3>2. QED  BY <2>1, <2>3, <2>5, <3>1 DEF Take
    <2>6. QED  BY <2>2, <2>4, <2>5
<1>3. CASE ~(Respond \/ Refuse \/ Parse)
    <2>1. UNCHANGED <<requestCount, out>>
        BY <1>3 DEF Next, Coroutine, WithPeer, Scan, Receive, ReceiveBody, Peer, PeerEnds,
               PeerResets, BeginShutdown, TornDown, Ended, HeaderTimeout, BodyTimeout,
               ReceiveFails, Upgrade, StreamEnds, Limits, Body, ReceiveBodyFails, Handle,
               WriteFails, Close, vars
    <2>2. UNCHANGED <<requestCount, Len(out), Announced>>
        BY <2>1 DEF Announced
    <2>3. CASE SessionState' = SessionState
        BY <2>2, <2>3 DEF Unseen
    <2>4. CASE Upgrade
        <3>1. pc = "upgrading" /\ pc' \in {"shutdown", "streaming"} /\ ~Announced'
            BY <2>2, <2>4, NotAnnounced DEF Upgrade, Serving
        <3>2. SessionState = "serving"
            BY <3>1 DEF SessionState
        <3>3. SessionState' \in {"streaming", "closed"}
            BY <3>1 DEF SessionState, Announced
        <3>4. QED  BY <2>2, <3>2, <3>3 DEF Upgraded, HungUp
    <2>5. CASE ~Upgrade /\ SessionState' # SessionState
        <3>1. /\ pc' \in {"shutdown", "done", "escaped"}
              /\ pc' = "shutdown" => Waiting \/ Serving
            <4>1. PeerEnds \/ PeerResets \/ BeginShutdown \/ Ended \/ UNCHANGED vars
                     => pc' = pc
                BY DEF PeerEnds, PeerResets, BeginShutdown, Ended, vars
            <4>2. pc' = pc /\ out' = out => SessionState' = SessionState
                BY DEF SessionState
            <4>3. ~(PeerEnds \/ PeerResets \/ BeginShutdown \/ Ended \/ UNCHANGED vars)
                BY <2>1, <2>5, <4>1, <4>2
            <4>4. CASE Scan \/ Receive \/ ReceiveFails \/ HeaderTimeout
                <5>1. pc \in {"scan", "reading"}
                      /\ pc' \in {"scan", "reading", "parse", "shutdown"}
                    BY <4>4 DEF Scan, Receive, ReceiveFails, HeaderTimeout
                <5>2. QED  BY <2>5, <5>1 DEF SessionState, Waiting
            <4>5. CASE Limits \/ Body \/ ReceiveBody \/ ReceiveBodyFails \/ BodyTimeout
                <5>1. /\ pc \in {"limits", "body", "readingBody"}
                      /\ pc' \in {"body", "readingBody", "dispatch", "refusing"}
                    BY <4>5 DEF Limits, Body, ReceiveBody, ReceiveBodyFails, BodyTimeout
                <5>2. QED  BY <2>5, <5>1 DEF SessionState
            <4>6. CASE StreamEnds \/ Handle \/ WriteFails \/ Close \/ TornDown
                <5>1. /\ pc' \in {"respond", "shutdown", "done", "escaped"}
                      /\ pc' = "respond" => pc = "dispatch"
                      /\ pc' = "shutdown" => Serving
                    BY <4>6 DEF StreamEnds, Handle, WriteFails, Close, TornDown, Serving
                <5>2. QED  BY <2>5, <5>1 DEF SessionState
            <4>7. QED
                BY <1>3, <2>5, <4>3, <4>4, <4>5, <4>6 DEF Next, Coroutine, WithPeer, Peer
        <3>2. ~Announced' \/ pc' # "shutdown"
            BY <2>2, <3>1, NotAnnounced
        <3>3. SessionState' = "closed"
            BY <3>1, <3>2 DEF SessionState, Announced
        <3>4. QED  BY <2>2, <2>5, <3>3 DEF HungUp
    <2>6. QED  BY <2>3, <2>4, <2>5
<1>4. QED  BY <1>1, <1>2, <1>3

\* One request at a time, at most one answer to each, no request and no answer
\* after an announced end, and no more requests than the keep-alive limit:
\* every behaviour of the connection is one of HttpSession.
THEOREM ConnectionImplementsSession == Spec => ImplementsSession
<1>1. Init => Session!Init
    BY DEF Init, Session!Init
<1>2. IInv /\ [Next]_vars => [Session!Next]_(Session!vars)
    <2> SUFFICES ASSUME IInv, [Next]_vars PROVE [Session!Next]_(Session!vars)  OBVIOUS
    <2>1. CASE Take
        BY <2>1 DEF Take, SessionState, HitLimit, Session!Next, Session!Take, Session!AtLimit
    <2>2. CASE Answered
        BY <2>2 DEF Answered, SessionState, HitLimit, Session!Next, Session!Answer,
                    Session!AtLimit
    <2>3. CASE Upgraded
        BY <2>3 DEF Upgraded, SessionState, Session!Next, Session!Upgrade
    <2>4. CASE HungUp
        BY <2>4 DEF HungUp, SessionState, Session!Next, Session!Hangup
    <2>5. CASE Unseen
        BY <2>5 DEF Unseen, SessionState, Session!vars
    <2>6. QED  BY <2>1, <2>2, <2>3, <2>4, <2>5, SessionStep
<1>3. QED  BY <1>1, <1>2, Invariance, PTL DEF Spec, Session!Spec, ImplementsSession

=============================================================================
