--------------------------- MODULE DispatchProofs ---------------------------
(* Theorems of Dispatch, for every application, request, set of files and    *)
(* bound on the calls of next, on the way to the answer: the compiled chain  *)
(* and what runs around and above it, the router and its lookups, and the    *)
(* endpoints that are asked before the chain.                                *)
EXTENDS Dispatch, SequenceLemmas

-----------------------------------------------------------------------------
(* The compiled chain.                                                       *)

\* chain[k] is what compile() has made when k layers are wrapped.
Wrapping(n, chain) ==
    /\ chain[0] = <<Inner>>
    /\ \A k \in 1 .. n : chain[k] = <<n - k + 1>> \o chain[k - 1]

\* Compile follows its recursion.
LEMMA CompileRecursion ==
    ASSUME NEW n \in Nat
    PROVE  \E chain : /\ chain \in [0 .. n -> Seq(Nat)] /\ Wrapping(n, chain)
                      /\ Compile(n) = chain[n]
<1> DEFINE T == Seq(Nat)
           Step(c, k) == <<n - k + 1>> \o c
<1>1. <<Inner>> \in T /\ \A k \in 1 .. n : \A c \in T : Step(c, k) \in T
    <2>1. \A k \in 1 .. n : <<n - k + 1>> \in T
        OBVIOUS
    <2>2. QED  BY <2>1 DEF Inner
<1> HIDE DEF T, Step
<1>2. PICK chain : /\ chain \in [0 .. n -> T] /\ chain[0] = <<Inner>>
                   /\ \A k \in 1 .. n : chain[k] = Step(chain[k - 1], k)
    <2> DEFINE g == [p \in T \X (1 .. n) |-> Step(p[1], p[2])]
    <2>1. g \in [T \X (1 .. n) -> T] /\ \A c \in T, k \in 1 .. n : g[<<c, k>>] = Step(c, k)
        BY <1>1
    <2> HIDE DEF g
    <2>2. Foldable(T, <<Inner>>, n, g)
        BY <1>1, <2>1 DEF Foldable
    <2>3. PICK chain : Fold(T, <<Inner>>, n, g, chain)
        BY <2>2, FoldExists
    <2>4. \A k \in 1 .. n : chain[k - 1] \in T
        <3>1. \A k \in 1 .. n : k - 1 \in 0 .. n
            OBVIOUS
        <3>2. QED  BY <2>3, <3>1 DEF Fold
    <2>5. QED  BY <2>1, <2>3, <2>4 DEF Fold
<1> DEFINE Body(h) == [k \in 0 .. n |-> IF k = 0 THEN <<Inner>> ELSE Step(h[k - 1], k)]
<1>3. Compile(n) = (CHOOSE h : h = Body(h))[n]
    BY DEF Compile, Step
<1>4. chain = Body(chain)
    <2>1. PICK b : b = <<Inner>>
        OBVIOUS
    <2>2. chain = [k \in 0 .. n |-> IF k = 0 THEN b ELSE Step(chain[k - 1], k)]
        BY <1>2, <2>1
    <2>3. QED  BY <2>1, <2>2
<1>5. PICK h : h = Body(h) /\ Compile(n) = h[n]
    <2> HIDE DEF Body
    <2>1. QED  BY <1>3, <1>4
<1>6. h[0] = <<Inner>> /\ \A k \in 1 .. n : h[k] = Step(h[k - 1], k)
    BY <1>5
<1> HIDE DEF Body
<1>7. ASSUME NEW k \in 0 .. n - 1, h[k] = chain[k] PROVE h[k + 1] = chain[k + 1]
    <2>1. k + 1 \in 1 .. n /\ (k + 1) - 1 = k
        OBVIOUS
    <2>2. QED  BY <1>2, <1>6, <1>7, <2>1
<1>8. Agree(h, chain, 0, n)
    BY <1>2, <1>6, <1>7 DEF Agree
<1>9. h[n] = chain[n]
    BY <1>8, FoldUnique
<1>10. QED  BY <1>2, <1>5, <1>9 DEF Wrapping, Step, T

\* The p-th callable from outside runs the p-th layer, the last one the inner.
THEOREM CompiledInOrder ==
    ASSUME NEW n \in Nat
    PROVE  \A p \in 1 .. n + 1 : Compile(n)[p] = IF p <= n THEN p ELSE Inner
<1>1. PICK chain : /\ chain \in [0 .. n -> Seq(Nat)] /\ Wrapping(n, chain)
                   /\ Compile(n) = chain[n]
    BY CompileRecursion
<1> DEFINE InOrder(k) == /\ Len(chain[k]) = k + 1
                         /\ \A p \in 1 .. k + 1 : chain[k][p] = IF p <= k THEN n - k + p ELSE Inner
           Ok == {k \in Nat : k <= n => InOrder(k)}
<1>2. 0 \in Ok
    <2>1. chain[0] = <<Inner>>
        BY <1>1 DEF Wrapping
    <2>2. Len(<<Inner>>) = 1 /\ <<Inner>>[1] = Inner
        OBVIOUS
    <2>3. Len(chain[0]) = 1 /\ chain[0][1] = Inner
        BY <2>1, <2>2
    <2>4. QED  BY <2>3
<1>3. ASSUME NEW k \in Nat, k \in Ok PROVE k + 1 \in Ok
    <2> SUFFICES ASSUME k + 1 <= n PROVE InOrder(k + 1)
        OBVIOUS
    <2>1. InOrder(k) /\ k \in 0 .. n /\ k + 1 \in 1 .. n /\ (k + 1) - 1 = k
        BY <1>3
    <2>2. PICK c \in Seq(Nat) : c = chain[k]
        BY <1>1, <2>1
    <2>3. PICK x \in Nat : x = n - (k + 1) + 1
        OBVIOUS
    <2>4. chain[k + 1] = <<x>> \o c
        BY <1>1, <2>1, <2>2, <2>3 DEF Wrapping
    <2>5. /\ Len(<<x>> \o c) = Len(c) + 1 /\ (<<x>> \o c)[1] = x
          /\ \A p \in 1 .. Len(c) : (<<x>> \o c)[p + 1] = c[p]
        OBVIOUS
    <2>6. Len(chain[k + 1]) = k + 2 /\ chain[k + 1][1] = n - k
        BY <2>1, <2>2, <2>3, <2>4, <2>5
    <2>7. ASSUME NEW p \in 2 .. k + 2
          PROVE  chain[k + 1][p] = IF p <= k + 1 THEN n - (k + 1) + p ELSE Inner
        <3>1. p - 1 \in 1 .. k + 1 /\ (p - 1) + 1 = p
            OBVIOUS
        <3>2. chain[k + 1][p] = c[p - 1]
            BY <2>1, <2>2, <2>4, <2>5, <3>1
        <3>3. c[p - 1] = IF p - 1 <= k THEN n - k + (p - 1) ELSE Inner
            BY <2>1, <2>2, <3>1
        <3>4. QED  BY <3>2, <3>3
    <2>8. QED  BY <2>6, <2>7
<1>4. \A k \in Nat : k \in Ok
    <2> HIDE DEF Ok
    <2>1. QED  BY <1>2, <1>3, InductionOnSet
<1>5. InOrder(n)
    BY <1>4
<1>6. QED  BY <1>1, <1>5

-----------------------------------------------------------------------------
(* The router.                                                               *)

\* What resolve() makes of its k-th route.
TryRoute(before, k, method, path) ==
    IF Skipped(before.route, app.routes[k], method) THEN before
    ELSE LET m == MatchRoute(app.routes[k].pattern, path, Cleared(before.params))
         IN  [route |-> IF m.fits THEN k ELSE 0, params |-> m.params]

\* Resolve tries the routes in turn.
LEMMA ResolveRecursion ==
    ASSUME NEW N \in Nat, N = Len(app.routes), NEW method, NEW path, NEW params
    PROVE  \E h : /\ h[0] = [route |-> 0, params |-> params]
                  /\ \A k \in 1 .. N : h[k] = TryRoute(h[k - 1], k, method, path)
                  /\ Resolve(method, path, params) = h[N]
<1> DEFINE First == [route |-> 0, params |-> params]
           Step(b, k) == TryRoute(b, k, method, path)
           Body(h) == [k \in 0 .. N |-> IF k = 0 THEN First ELSE Step(h[k - 1], k)]
<1>1. Resolve(method, path, params) = (CHOOSE h : h = Body(h))[N]
    BY DEF Resolve, TryRoute
<1> HIDE DEF First, Step
<1>2. \E f : f = Body(f)
    <2> DEFINE Upto(n, f) == f = [k \in 0 .. n |-> IF k = 0 THEN First ELSE Step(f[k - 1], k)]
               Ok == {n \in Nat : \E f : Upto(n, f)}
    <2>1. 0 \in Ok
        <3>1. Upto(0, [k \in 0 .. 0 |-> First])
            OBVIOUS
        <3>2. QED  BY <3>1
    <2>2. ASSUME NEW n \in Nat, n \in Ok PROVE n + 1 \in Ok
        <3>1. PICK f : Upto(n, f)
            BY <2>2
        <3> DEFINE g == [k \in 0 .. n + 1 |-> IF k <= n THEN f[k] ELSE Step(f[n], n + 1)]
        <3>2. \A k \in 1 .. n + 1 : k - 1 \in 0 .. n + 1 /\ g[k - 1] = f[k - 1]
            OBVIOUS
        <3>3. \A k \in 0 .. n : f[k] = IF k = 0 THEN First ELSE Step(f[k - 1], k)
            BY <3>1
        <3>4. ASSUME NEW k \in 0 .. n + 1 PROVE g[k] = IF k = 0 THEN First ELSE Step(g[k - 1], k)
            <4>1. CASE k <= n
                BY <3>2, <3>3, <4>1
            <4>2. CASE k = n + 1
                <5>1. g[k] = Step(f[n], k) /\ k # 0 /\ k - 1 = n
                    BY <4>2
                <5>2. g[k - 1] = f[n]
                    BY <3>2, <4>2
                <5>3. QED  BY <5>1, <5>2
            <4>3. QED  BY <4>1, <4>2
        <3>5. Upto(n + 1, g)
            <4> HIDE DEF g
            <4>1. g = [k \in 0 .. n + 1 |-> g[k]]
                BY DEF g
            <4>2. QED  BY <3>4, <4>1
        <3>6. \E next : Upto(n + 1, next)
            <4> HIDE DEF g, Upto
            <4>1. QED  BY <3>5
        <3>7. QED  BY <3>6
    <2>3. N \in Ok
        <3> HIDE DEF Ok
        <3>1. QED  BY <2>1, <2>2, InductionOnSet
    <2>4. QED  BY <2>3
<1>3. PICK h : h = Body(h) /\ Resolve(method, path, params) = h[N]
    <2> HIDE DEF Body
    <2>1. QED  BY <1>1, <1>2
<1>4. h[0] = First /\ \A k \in 1 .. N : h[k] = Step(h[k - 1], k)
    BY <1>3
<1>5. QED  BY <1>3, <1>4 DEF First, Step

\* resolve() gives back 0 or the number of a route.
LEMMA ResolveRange ==
    ASSUME Len(app.routes) \in Nat, NEW method, NEW path, NEW params
    PROVE  Resolve(method, path, params).route \in 0 .. Len(app.routes)
<1>1. PICK N \in Nat : N = Len(app.routes)
    OBVIOUS
<1>2. PICK h : /\ h[0] = [route |-> 0, params |-> params]
               /\ \A k \in 1 .. N : h[k] = TryRoute(h[k - 1], k, method, path)
               /\ Resolve(method, path, params) = h[N]
    BY <1>1, ResolveRecursion
<1>3. \A b, k : TryRoute(b, k, method, path).route \in {b.route, k, 0}
    BY DEF TryRoute
<1> DEFINE Found == {k \in Nat : k <= N => h[k].route \in 0 .. N}
<1>4. 0 \in Found
    BY <1>2
<1>5. ASSUME NEW k \in Nat, k \in Found PROVE k + 1 \in Found
    <2> SUFFICES ASSUME k + 1 <= N PROVE h[k + 1].route \in 0 .. N
        OBVIOUS
    <2>1. h[k].route \in 0 .. N /\ k + 1 \in 1 .. N /\ (k + 1) - 1 = k
        BY <1>5
    <2>2. h[k + 1] = TryRoute(h[k], k + 1, method, path)
        BY <1>2, <2>1
    <2>3. QED  BY <1>3, <2>1, <2>2
<1>6. \A k \in Nat : k \in Found
    <2> HIDE DEF Found
    <2>1. QED  BY <1>4, <1>5, InductionOnSet
<1>7. QED  BY <1>1, <1>2, <1>6

-----------------------------------------------------------------------------
(* The inductive invariant.                                                  *)

Inside == Len(app.layers) + 1     \* how deep dispatch() is

\* A stack of coroutines: the server's layers, dispatch(), the layers of one
\* route and its handler, each called by the one before.
WellStacked(s) ==
    /\ s \in Seq([chain : Nat, pos : Nat, calls : Nat, fallback : BOOLEAN])
    /\ \A k \in 1 .. Len(s) :
          IF k <= Inside THEN s[k].chain = 0 /\ s[k].pos = k
          ELSE /\ s[k].chain \in 1 .. Len(app.routes) /\ s[k].pos = k - Inside
               /\ s[k].pos <= Len(app.routes[s[k].chain].layers) + 1

\* Who can be on top of the stack where.
ControlInv ==
    /\ pc \in {"enter", "files", "running", "returned", "thrown"} => stack # <<>>
    /\ pc \in {"lookup", "streaming", "done", "failed"} => stack = <<>>
    /\ pc \in {"lookup", "streaming"} => value = Nothing
    /\ pc = "running" => ~IsDispatch(Top)
    /\ pc = "files" => IsDispatch(Top)

IsSequence(s) == Len(s) \in Nat /\ s = [k \in 1 .. Len(s) |-> s[k]]

IsResponse(r) ==
    /\ r = [status |-> r.status, headers |-> r.headers, body |-> r.body]
    /\ IsSequence(r.headers)

IsValue(v) ==
    /\ v = [kind |-> v.kind, by |-> v.by, res |-> v.res, file |-> v.file]
    /\ IsResponse(v.res)

AppInv == app \in {Registered(a) : a \in Apps}

IInv ==
    /\ AppInv /\ WellStacked(stack) /\ ControlInv /\ IsValue(value)
    /\ HandlerErrorContained /\ CorsOnEveryAnswer

-----------------------------------------------------------------------------
(* What the parts of the invariant say.                                      *)

\* The layers of the server and of its routes are sequences.
LEMMA AppTyped ==
    ASSUME AppInv
    PROVE  /\ app.layers \in Seq(LayerKinds) /\ Len(app.layers) \in Nat /\ Len(app.routes) \in Nat
           /\ \A r \in 1 .. Len(app.routes) :
                 app.routes[r].layers \in Seq(LayerKinds) /\ Len(app.routes[r].layers) \in Nat
<1>1. PICK a \in Apps : app = Registered(a)
    BY DEF AppInv
<1>2. /\ a.layers \in Seq(LayerKinds)
      /\ \A k \in DOMAIN a.routes : a.routes[k].layers \in Seq(LayerKinds)
    BY AppsAssumption
<1>3. PICK S : a.routes \in Seq(S)
    BY AppsAssumption
<1>4. PICK n \in Nat : DOMAIN a.routes = 1 .. n
    BY <1>3
<1>5. /\ app.layers = a.layers
      /\ app.routes = [k \in 1 .. n |-> Add(a.routes[k])]
    BY <1>1, <1>4 DEF Registered
<1>6. /\ Len(app.routes) = n
      /\ \A r \in 1 .. n : app.routes[r].layers = a.routes[r].layers
    BY <1>5 DEF Add
<1>7. QED  BY <1>2, <1>4, <1>5, <1>6

\* What each coroutine on the stack runs.
LEMMA CodeAt ==
    ASSUME AppInv, WellStacked(stack), NEW k \in 1 .. Len(stack)
    PROVE  /\ k < Inside => /\ stack[k].chain = 0 /\ CodeOf(stack[k]) = k
                            /\ IsLayer(stack[k]) /\ ~IsDispatch(stack[k])
           /\ k = Inside => /\ stack[k].chain = 0 /\ CodeOf(stack[k]) = Inner
                            /\ ~IsLayer(stack[k]) /\ IsDispatch(stack[k])
           /\ k > Inside =>
                 /\ stack[k].chain \in 1 .. Len(app.routes) /\ stack[k].chain > 0
                 /\ stack[k].pos = k - Inside /\ ~IsDispatch(stack[k])
                 /\ CodeOf(stack[k]) =
                       IF stack[k].pos <= Len(app.routes[stack[k].chain].layers)
                       THEN stack[k].pos ELSE Inner
                 /\ IsLayer(stack[k]) =>
                       stack[k].pos <= Len(app.routes[stack[k].chain].layers)
<1>1. k \in Nat /\ k >= 1 /\ Inside = Len(app.layers) + 1 /\ Len(app.layers) \in Nat /\ Inside \in Nat
    <2>1. k \in Nat /\ k >= 1
        BY DEF WellStacked
    <2>2. QED  BY <2>1, AppTyped DEF Inside
<1>2. CASE k <= Inside
    <2>1. stack[k].chain = 0 /\ stack[k].pos = k
        BY <1>2 DEF WellStacked
    <2>2. CodeOf(stack[k]) = Compile(Len(app.layers))[k]
        BY <2>1 DEF CodeOf, LayersOf
    <2>3. PICK n \in Nat : n = Len(app.layers)
        BY <1>1
    <2>4. k \in 1 .. n + 1 /\ Compile(n)[k] = IF k <= n THEN k ELSE Inner
        BY <1>1, <1>2, <2>3, CompiledInOrder
    <2>5. CodeOf(stack[k]) = IF k < Inside THEN k ELSE Inner
        BY <1>1, <1>2, <2>2, <2>3, <2>4
    <2>6. QED  BY <1>1, <1>2, <2>1, <2>5 DEF IsLayer, IsDispatch, Inner
<1>3. CASE k > Inside
    <2>1. PICK c, p : c = stack[k].chain /\ p = stack[k].pos
        OBVIOUS
    <2>2. IF k <= Inside THEN c = 0 /\ p = k
          ELSE /\ c \in 1 .. Len(app.routes) /\ p = k - Inside
               /\ p <= Len(app.routes[c].layers) + 1
        BY <2>1 DEF WellStacked
    <2>3. c \in 1 .. Len(app.routes) /\ p = k - Inside /\ p <= Len(app.routes[c].layers) + 1
        BY <1>1, <1>3, <2>2
    <2>4. PICK n \in Nat : n = Len(app.routes[c].layers)
        BY <2>3, AppTyped
    <2>5. c > 0 /\ c # 0 /\ p \in 1 .. n + 1 /\ ~(k < Inside) /\ k # Inside
        <3>1. Len(app.routes) \in Nat
            BY AppTyped
        <3>2. c > 0 /\ c # 0
            BY <2>3, <3>1
        <3>3. p \in 1 .. n + 1
            <4>1. PICK j \in Nat, m \in Nat : j = k /\ m = Inside
                BY <1>1
            <4>2. p = j - m /\ p <= n + 1 /\ j > m
                BY <1>3, <2>3, <2>4, <4>1
            <4>3. QED  BY ONLY <4>2
        <3>4. ~(k < Inside) /\ k # Inside
            BY <1>1, <1>3
        <3>5. QED  BY <3>2, <3>3, <3>4
    <2>6. CodeOf(stack[k]) = Compile(n)[p]
        BY <2>1, <2>4, <2>5 DEF CodeOf, LayersOf
    <2>7. CodeOf(stack[k]) = IF p <= n THEN p ELSE Inner
        BY <2>5, <2>6, CompiledInOrder
    <2>8. IsLayer(stack[k]) => p <= n
        BY <2>7 DEF IsLayer
    <2>9. ~IsDispatch(stack[k])
        BY <2>1, <2>5 DEF IsDispatch
    <2>10. QED  BY <2>1, <2>3, <2>4, <2>5, <2>7, <2>8, <2>9
<1>4. QED  BY <1>1, <1>2, <1>3

\* The coroutine on top, by its depth.
LEMMA TopIs ==
    ASSUME AppInv, WellStacked(stack), stack # <<>>
    PROVE  /\ Len(stack) \in Nat /\ Len(stack) \in 1 .. Len(stack) /\ Top = stack[Len(stack)]
           /\ Inside \in Nat /\ Inside >= 1
           /\ Len(stack) < Inside => /\ Top.chain = 0 /\ CodeOf(Top) = Len(stack)
                                     /\ IsLayer(Top) /\ ~IsDispatch(Top)
           /\ Len(stack) = Inside => Top.chain = 0 /\ ~IsLayer(Top) /\ IsDispatch(Top)
           /\ Len(stack) > Inside => Top.chain > 0 /\ ~IsDispatch(Top)
<1>1. PICK S : stack \in Seq(S)
    BY DEF WellStacked
<1>2. PICK n \in Nat : n = Len(stack) /\ n \in 1 .. n
    BY <1>1
<1>3. Top = stack[n] /\ Inside \in Nat /\ Inside >= 1
    BY <1>2, AppTyped DEF Top, Last, Inside
<1>4. QED  BY <1>2, <1>3, CodeAt

\* The coroutine on top is a coroutine.
LEMMA TopTyped ==
    ASSUME WellStacked(stack), stack # <<>>
    PROVE  Top \in [chain : Nat, pos : Nat, calls : Nat, fallback : BOOLEAN]
<1>1. PICK S : S = [chain : Nat, pos : Nat, calls : Nat, fallback : BOOLEAN]
    OBVIOUS
<1>2. PICK s \in Seq(S) : s = stack
    BY <1>1 DEF WellStacked
<1>3. s[Len(s)] \in S
    BY <1>2
<1>4. QED  BY <1>1, <1>2, <1>3 DEF Top, Last

\* A header that is set is there, whatever was set before.
LEMMA HeaderSet ==
    ASSUME NEW r, IsResponse(r), NEW name, NEW val
    PROVE  IsResponse(SetHeader(r, name, val)) /\ HasHeader(SetHeader(r, name, val), name)
<1>1. PICK n \in Nat : n = Len(r.headers) /\ r.headers = [k \in 1 .. n |-> r.headers[k]]
    BY DEF IsResponse, IsSequence
<1>2. PICK h : h = Header(name, val)
    OBVIOUS
<1>3. PICK S : S = {r.headers[k] : k \in 1 .. n} \cup {h}
    OBVIOUS
<1>4. r.headers \in Seq(S) /\ h \in S
    <2>1. \A k \in 1 .. n : r.headers[k] \in S
        BY <1>3
    <2>2. [k \in 1 .. n |-> r.headers[k]] \in [1 .. n -> S]
        BY <2>1
    <2>3. \A f \in [1 .. n -> S] : f \in Seq(S)
        OBVIOUS
    <2>4. QED  BY <1>1, <1>3, <2>2, <2>3
<1>5. PICK t : t = Append(r.headers, h)
    OBVIOUS
<1>6. t \in Seq(S) /\ Len(t) = n + 1 /\ t[n + 1] = h /\ DOMAIN t = 1 .. n + 1
    BY <1>1, <1>4, <1>5
<1>7. IsSequence(t)
    BY <1>6 DEF IsSequence
<1>8. /\ SetHeader(r, name, val) = [r EXCEPT !.headers = t]
      /\ r = [status |-> r.status, headers |-> r.headers, body |-> r.body]
    BY <1>2, <1>5 DEF SetHeader, IsResponse
<1>9. SetHeader(r, name, val) = [status |-> r.status, headers |-> t, body |-> r.body]
    BY <1>8
<1>10. QED  BY <1>2, <1>6, <1>7, <1>9 DEF IsResponse, HasHeader, Header
-----------------------------------------------------------------------------
(* Calls and returns.                                                        *)

\* What has its frames in place and calls nothing twice is well stacked: the top
\* may change its count of calls, and one coroutine may come on top of it.
LEMMA Popped ==
    ASSUME WellStacked(stack), AppInv, stack # <<>>
    PROVE  /\ WellStacked(Front(stack)) /\ Len(Front(stack)) = Len(stack) - 1
           /\ \A k \in 1 .. Len(stack) - 1 : Front(stack)[k] = stack[k]
           /\ Len(stack) = 1 <=> Front(stack) = <<>>
<1>1. PICK S : S = [chain : Nat, pos : Nat, calls : Nat, fallback : BOOLEAN]
    OBVIOUS
<1>2. PICK s \in Seq(S) : s = stack
    BY <1>1 DEF WellStacked
<1>3. PICK f : f = SubSeq(s, 1, Len(s) - 1)
    OBVIOUS
<1>4. /\ f \in Seq(S) /\ Len(f) = Len(s) - 1 /\ Len(s) \in Nat
      /\ \A k \in 1 .. Len(s) - 1 : f[k] = s[k]
      /\ Len(s) = 1 <=> f = <<>>
    <2>1. PICK m \in Nat : m = Len(s) /\ m >= 1
        BY <1>2
    <2>2. /\ f \in Seq(S) /\ Len(f) = m - 1 /\ \A k \in 1 .. m - 1 : f[k] = s[k]
        BY ONLY s \in Seq(S), <1>3, <2>1
    <2>3. f = <<>> <=> Len(f) = 0
        BY <2>2
    <2>4. QED  BY <2>1, <2>2, <2>3
<1>5. Front(stack) = f
    BY <1>2, <1>3 DEF Front
<1>6. \A k \in 1 .. Len(f) : k \in 1 .. Len(s) /\ f[k] = s[k]
    BY <1>4
<1>7. WellStacked(f)
    BY <1>1, <1>2, <1>4, <1>6 DEF WellStacked
<1>8. QED  BY <1>2, <1>4, <1>5, <1>7

\* A response or exception that comes back to a caller keeps the invariant, if it
\* is no standard exception from below dispatch() that reaches the server's
\* layers, and if cors() has stamped it in passing.
LEMMA LeaveInv ==
    ASSUME IInv, stack # <<>>, UNCHANGED app,
           NEW v, NEW outcome \in {"returned", "thrown"}, Leave(v, outcome), IsValue(v),
           outcome = "thrown" /\ Top.chain = 0 /\ v.kind = "std" => v.by[1] \in {"layer", "file"},
           outcome = "returned" /\ IsLayer(Top) /\ KindOfLayer(Top) = "cors" =>
               HasHeader(v.res, "Access-Control-Allow-Origin")
    PROVE  IInv'
<1>1. AppInv /\ WellStacked(stack) /\ ControlInv
    BY DEF IInv
<1>2. PICK n \in Nat : n = Len(stack) /\ n >= 1
    BY <1>1, TopIs
<1>3. /\ value' = v /\ stack' = Front(stack)
      /\ n > 1 => pc' = outcome
      /\ n = 1 => pc' = IF outcome = "returned" THEN "done" ELSE "failed"
    BY <1>2 DEF Leave
<1>4. /\ WellStacked(Front(stack)) /\ Len(Front(stack)) = n - 1
      /\ \A k \in 1 .. n - 1 : Front(stack)[k] = stack[k]
      /\ n = 1 <=> Front(stack) = <<>>
    BY <1>1, <1>2, Popped
<1>5. AppInv' /\ WellStacked(stack)'
    BY <1>1, <1>3, <1>4 DEF AppInv, WellStacked, Inside
<1>6. /\ Len(stack') = n - 1
      /\ n > 1 => stack' # <<>> /\ Top' = stack[n - 1] /\ n - 1 \in 1 .. n /\ (n - 1 < Inside => n <= Inside)
      /\ n = 1 => stack' = <<>>
    <2>1. n > 1 => n - 1 \in 1 .. n - 1 /\ n - 1 \in 1 .. n
        OBVIOUS
    <2>2. n > 1 => Top' = stack[n - 1]
        BY <1>3, <1>4, <2>1 DEF Top, Last
    <2>3. Inside \in Nat
        BY <1>1, AppTyped DEF Inside
    <2>4. QED  BY <1>3, <1>4, <2>1, <2>2, <2>3
<1>7. ControlInv'
    BY <1>3, <1>6 DEF ControlInv
<1>8. IsValue(value)'
    BY <1>3 DEF IsValue, IsResponse, IsSequence
<1>9. HandlerErrorContained'
    <2> SUFFICES ASSUME v.kind = "std",
                        \/ pc' = "failed"
                        \/ pc' = "thrown" /\ Top'.chain = 0 /\ IsLayer(Top)'
                 PROVE  v.by[1] \in {"layer", "file"}
        BY <1>3 DEF HandlerErrorContained
    <2>1. outcome = "thrown"
        BY <1>2, <1>3
    <2>2. n <= Inside
        <3>1. Inside \in Nat /\ Inside >= 1
            BY <1>1, TopIs
        <3>2. CASE n = 1
            BY <3>1, <3>2
        <3>3. CASE n > 1
            <4>1. stack[n - 1].chain = 0 /\ IsLayer(stack[n - 1]) /\ n - 1 \in 1 .. Len(stack)
                <5>1. Top' = stack[n - 1] /\ pc' = "thrown"
                    BY <1>3, <1>6, <2>1, <3>3
                <5>2. IsLayer(Top)' <=> IsLayer(stack[n - 1])
                    BY <5>1 DEF IsLayer, CodeOf, LayersOf
                <5>3. QED  BY <1>2, <1>6, <3>3, <5>1, <5>2
            <4>2. ~(n - 1 = Inside) /\ ~(n - 1 > Inside)
                BY <1>1, <4>1, CodeAt
            <4>3. QED  BY <3>1, <4>2
        <3>4. QED  BY <1>2, <3>2, <3>3
    <2>3. Top.chain = 0
        BY <1>1, <1>2, <2>2, TopIs
    <2>4. QED  BY <2>1, <2>3
<1>10. CorsOnEveryAnswer'
    <2> SUFFICES ASSUME pc' = "done", v.kind = "response", app.layers # <<>>, app.layers[1] = "cors"
                 PROVE  HasHeader(v.res, "Access-Control-Allow-Origin")
        BY <1>3 DEF CorsOnEveryAnswer, HasHeader
    <2>1. n = 1 /\ outcome = "returned"
        BY <1>2, <1>3
    <2>2. 1 < Inside
        BY <1>1, AppTyped DEF Inside
    <2>3. IsLayer(Top) /\ Top.chain = 0 /\ CodeOf(Top) = 1
        BY <1>1, <1>2, <2>1, <2>2, TopIs
    <2>4. KindOfLayer(Top) = "cors"
        BY <2>3 DEF KindOfLayer, LayersOf
    <2>5. QED  BY <2>1, <2>3, <2>4
<1>11. QED  BY <1>5, <1>7, <1>8, <1>9, <1>10 DEF IInv

\* Nothing has been given back yet: that is a value.
LEMMA NothingIsValue == IsValue(Nothing)
BY DEF IsValue, IsResponse, IsSequence, Nothing, Blank

\* A call keeps the invariant if the stack it leaves is well stacked.
LEMMA CallInv ==
    ASSUME IInv, UNCHANGED app, NEW frames, WellStacked(frames), frames # <<>>, Call(frames)
    PROVE  IInv'
<1>1. /\ stack' = frames /\ value' = Nothing /\ pc' \in {"enter", "crashed"}
      /\ AppInv /\ WellStacked(stack)
    BY DEF Call, IInv
<1>2. AppInv' /\ WellStacked(stack)'
    BY <1>1 DEF AppInv, WellStacked, Inside
<1>3. ControlInv'
    BY <1>1 DEF ControlInv
<1>4. IsValue(value)'
    BY <1>1, NothingIsValue DEF IsValue, IsResponse, IsSequence
<1>5. HandlerErrorContained' /\ CorsOnEveryAnswer'
    BY <1>1 DEF HandlerErrorContained, CorsOnEveryAnswer
<1>6. QED  BY <1>2, <1>3, <1>4, <1>5 DEF IInv

\* Such frames are those of the stack, with another top and one more on top of it.
PushedOn(frames, self, called) ==
    /\ WellStacked(frames) /\ frames # <<>>
    /\ Len(frames) = Len(stack) + 1
    /\ frames[Len(stack)] = self /\ frames[Len(stack) + 1] = called
    /\ \A k \in 1 .. Len(stack) - 1 : frames[k] = stack[k]

\* The top, with another count of calls, and a coroutine that fits on top of it.
LEMMA Pushed ==
    ASSUME WellStacked(stack), AppInv, stack # <<>>,
           NEW self, self \in [chain : Nat, pos : Nat, calls : Nat, fallback : BOOLEAN],
           self.chain = Top.chain, self.pos = Top.pos,
           NEW c, NEW p,
           Len(stack) < Inside => c = 0 /\ p = Len(stack) + 1,
           Len(stack) >= Inside =>
               /\ c \in 1 .. Len(app.routes) /\ p = Len(stack) + 1 - Inside
               /\ p <= Len(app.routes[c].layers) + 1
    PROVE  PushedOn(Front(stack) \o <<self, Frame(c, p)>>, self, Frame(c, p))
<1>1. PICK S : S = [chain : Nat, pos : Nat, calls : Nat, fallback : BOOLEAN]
    OBVIOUS
<1>2. PICK n \in Nat : n = Len(stack) /\ n >= 1
    BY TopIs
<1>3. PICK i \in Nat, r \in Nat : i = Inside /\ i >= 1 /\ r = Len(app.routes)
    BY TopIs, AppTyped
<1>4. c \in Nat /\ p \in Nat
    BY <1>2, <1>3
<1>5. Frame(c, p) \in S /\ Frame(c, p).chain = c /\ Frame(c, p).pos = p
    BY <1>1, <1>4 DEF Frame
<1>6. PICK e \in S : e = Frame(c, p)
    BY <1>5
<1>7. PICK f \in Seq(S) : /\ f = Front(stack) /\ Len(f) = n - 1
                          /\ \A k \in 1 .. n - 1 : f[k] = stack[k]
    BY <1>1, <1>2, Popped DEF WellStacked
<1>8. PICK t : t = f \o <<self, e>>
    OBVIOUS
<1>9. /\ t \in Seq(S) /\ Len(t) = n + 1 /\ t[n] = self /\ t[n + 1] = e
      /\ \A k \in 1 .. n - 1 : t[k] = f[k]
    <2>1. <<self, e>> \in Seq(S) /\ Len(<<self, e>>) = 2 /\ <<self, e>>[1] = self /\ <<self, e>>[2] = e
        BY <1>1
    <2>2. PICK g \in Seq(S) : g = <<self, e>> /\ Len(g) = 2 /\ g[1] = self /\ g[2] = e
        BY <2>1
    <2>3. /\ f \o g \in Seq(S) /\ Len(f \o g) = Len(f) + Len(g)
          /\ \A k \in 1 .. Len(f) + Len(g) :
                (f \o g)[k] = IF k <= Len(f) THEN f[k] ELSE g[k - Len(f)]
        OBVIOUS
    <2>4. /\ t \in Seq(S) /\ Len(t) = n + 1
          /\ \A k \in 1 .. n + 1 : t[k] = IF k <= n - 1 THEN f[k] ELSE g[k - (n - 1)]
        <3>1. t = f \o g /\ Len(f) = n - 1 /\ Len(g) = 2
            BY <1>7, <1>8, <2>2
        <3>2. t \in Seq(S) /\ Len(t) = (n - 1) + 2
            BY <2>3, <3>1
        <3>3. \A k \in 1 .. (n - 1) + 2 : t[k] = IF k <= n - 1 THEN f[k] ELSE g[k - (n - 1)]
            BY <2>3, <3>1
        <3>4. (n - 1) + 2 = n + 1
            OBVIOUS
        <3>5. QED  BY <3>2, <3>3, <3>4
    <2>5. t[n] = g[n - (n - 1)] /\ t[n + 1] = g[(n + 1) - (n - 1)]
        <3>1. n \in 1 .. n + 1 /\ n + 1 \in 1 .. n + 1 /\ ~(n <= n - 1) /\ ~(n + 1 <= n - 1)
            BY <1>2
        <3>2. QED  BY <2>4, <3>1
    <2>6. n - (n - 1) = 1 /\ (n + 1) - (n - 1) = 2
        OBVIOUS
    <2>7. t[n] = self /\ t[n + 1] = e
        BY <1>6, <2>2, <2>5, <2>6
    <2>8. QED  BY <1>2, <2>4, <2>7
<1>10. Top = stack[n]
    BY <1>2, TopIs
<1>11. ASSUME NEW k \in 1 .. Len(t)
       PROVE  IF k <= Inside THEN t[k].chain = 0 /\ t[k].pos = k
              ELSE /\ t[k].chain \in 1 .. Len(app.routes) /\ t[k].pos = k - Inside
                   /\ t[k].pos <= Len(app.routes[t[k].chain].layers) + 1
    <2>1. CASE k \in 1 .. n
        <3>1. t[k].chain = stack[k].chain /\ t[k].pos = stack[k].pos
            <4>1. k \in 1 .. n - 1 \/ k = n
                BY <2>1
            <4>2. QED  BY <1>7, <1>9, <1>10, <4>1
        <3>2. QED  BY <1>2, <2>1, <3>1 DEF WellStacked
    <2>2. CASE k = n + 1
        <3>1. t[k].chain = c /\ t[k].pos = p
            BY <1>5, <1>6, <1>9, <2>2
        <3>2. CASE n < i
            BY <1>2, <1>3, <2>2, <3>1, <3>2
        <3>3. CASE n >= i
            BY <1>2, <1>3, <2>2, <3>1, <3>3
        <3>4. QED  BY <1>3, <3>2, <3>3
    <2>3. QED  BY <1>9, <2>1, <2>2
<1>12. WellStacked(t)
    BY <1>1, <1>9, <1>11 DEF WellStacked
<1>13. t # <<>>
    BY <1>9
<1>14. /\ Len(t) = Len(stack) + 1 /\ t[Len(stack)] = self /\ t[Len(stack) + 1] = e
       /\ \A k \in 1 .. Len(stack) - 1 : t[k] = stack[k]
    BY <1>2, <1>7, <1>9
<1>15. QED  BY <1>6, <1>7, <1>8, <1>12, <1>13, <1>14 DEF PushedOn

-----------------------------------------------------------------------------
(* Responses and exceptions.                                                 *)

\* The responses that are made here have the parts of a response.
LEMMA TextIsResponse ==
    ASSUME NEW status, NEW body
    PROVE  IsResponse(Text(status, body))
<1>1. PICK none : none = <<>>
    OBVIOUS
<1>2. IsSequence(none)
    BY <1>1 DEF IsSequence
<1>3. PICK a : a = [Blank EXCEPT !.status = status]
    OBVIOUS
<1>4. a = [status |-> status, headers |-> none, body |-> 0]
    BY <1>1, <1>3 DEF Blank
<1>5. PICK b : b = [a EXCEPT !.body = body]
    OBVIOUS
<1>6. b = [status |-> status, headers |-> none, body |-> body]
    BY <1>4, <1>5
<1>7. IsResponse(b)
    BY <1>2, <1>6 DEF IsResponse
<1>8. Text(status, body) = b
    BY <1>3, <1>5 DEF Text
<1>9. QED  BY <1>7, <1>8

\* Blank is a response too.
LEMMA BlankIsResponse == IsResponse(Blank)
<1>1. PICK none : none = <<>>
    OBVIOUS
<1>2. IsSequence(none)
    BY <1>1 DEF IsSequence
<1>3. QED  BY <1>1, <1>2 DEF IsResponse, Blank

\* What is given back is a value.
LEMMA ResponseIsValue ==
    ASSUME NEW by, NEW res
    PROVE  /\ IsResponse(res) => IsValue(Response(by, res))
           /\ Response(by, res).kind = "response"
           /\ Response(by, res).by = by /\ Response(by, res).res = res
           /\ Response(by, res).file = NoFile
<1>1. PICK f : f = NoFile
    OBVIOUS
<1>2. PICK n, blank : blank = Blank /\ n = Nothing
    OBVIOUS
<1>3. n = [kind |-> "nothing", by |-> <<"nobody", 0>>, res |-> blank, file |-> f]
    BY <1>1, <1>2 DEF Nothing
<1>4. PICK a : a = [n EXCEPT !.kind = "response"]
    OBVIOUS
<1>5. a = [kind |-> "response", by |-> <<"nobody", 0>>, res |-> blank, file |-> f]
    BY <1>3, <1>4
<1>6. PICK b : b = [a EXCEPT !.by = by]
    OBVIOUS
<1>7. b = [kind |-> "response", by |-> by, res |-> blank, file |-> f]
    BY <1>5, <1>6
<1>8. PICK c : c = [b EXCEPT !.res = res]
    OBVIOUS
<1>9. c = [kind |-> "response", by |-> by, res |-> res, file |-> f]
    BY <1>7, <1>8
<1>10. Response(by, res) = c
    BY <1>2, <1>4, <1>6, <1>8 DEF Response
<1>11. QED  BY <1>1, <1>9, <1>10 DEF IsValue

\* So is an exception.
LEMMA ExceptionIsValue ==
    ASSUME NEW by, NEW kind
    PROVE  /\ IsValue(Exception(kind, by)) /\ Exception(kind, by).kind = kind
           /\ Exception(kind, by).by = by /\ Exception(kind, by).file = NoFile
<1>1. PICK f : f = NoFile
    OBVIOUS
<1>2. PICK n, blank : blank = Blank /\ n = Nothing
    OBVIOUS
<1>3. n = [kind |-> "nothing", by |-> <<"nobody", 0>>, res |-> blank, file |-> f]
    BY <1>1, <1>2 DEF Nothing
<1>4. PICK a : a = [n EXCEPT !.kind = kind]
    OBVIOUS
<1>5. a = [kind |-> kind, by |-> <<"nobody", 0>>, res |-> blank, file |-> f]
    BY <1>3, <1>4
<1>6. PICK b : b = [a EXCEPT !.by = by]
    OBVIOUS
<1>7. b = [kind |-> kind, by |-> by, res |-> blank, file |-> f]
    BY <1>5, <1>6
<1>8. Exception(kind, by) = b
    BY <1>2, <1>4, <1>6 DEF Exception
<1>9. QED  BY <1>1, <1>2, <1>7, <1>8, BlankIsResponse DEF IsValue

\* cors() leaves its header on whatever passes.
LEMMA StampedIsValue ==
    ASSUME NEW v, IsValue(v)
    PROVE  /\ IsValue(Stamped(v)) /\ Stamped(v).kind = v.kind
           /\ Stamped(v).by = v.by /\ Stamped(v).file = v.file
           /\ HasHeader(Stamped(v).res, "Access-Control-Allow-Origin")
<1>1. PICK r : r = SetHeader(v.res, "Access-Control-Allow-Origin", "*")
    OBVIOUS
<1>2. IsResponse(r) /\ HasHeader(r, "Access-Control-Allow-Origin")
    BY <1>1, HeaderSet DEF IsValue
<1>3. Stamped(v) = [v EXCEPT !.res = r]
    BY <1>1 DEF Stamped
<1>4. Stamped(v) = [kind |-> v.kind, by |-> v.by, res |-> r, file |-> v.file]
    BY <1>3 DEF IsValue
<1>5. QED  BY <1>2, <1>4 DEF IsValue

-----------------------------------------------------------------------------
(* Every step preserves the invariant: first those that call and return from *)
(* nothing.                                                                  *)

\* The coroutines stay, and the top of them is what runs next.
LEMMA QuietInv ==
    ASSUME IInv,
           \/ OpenStream \/ StreamEnds \/ Enter \/ NextReturns
           \/ TryFiles \/ SearchFile \/ EditFile \/ Revalidate \/ UNCHANGED vars
    PROVE  IInv'
<1>1. AppInv /\ WellStacked(stack) /\ ControlInv /\ IsValue(value)
    BY DEF IInv
<1>2. /\ UNCHANGED <<app, stack>>
      /\ \/ pc \in {"lookup", "streaming"} /\ pc' \in {"streaming", "done"} /\ value' = value
         \/ pc \in {"enter", "returned"} /\ ~IsDispatch(Top) /\ pc' = "running" /\ value' = value
         \/ pc = "enter" /\ IsDispatch(Top) /\ pc' = "files" /\ value' = value
         \/ pc = "done" /\ pc' = "lookup" /\ value' = Nothing
         \/ UNCHANGED <<pc, value>>
    BY DEF OpenStream, StreamEnds, Enter, NextReturns, TryFiles, NoRoute, AtDispatch, SearchFile,
           EditFile, Revalidate, vars, IsDispatch, IsLayer
<1>3. AppInv' /\ WellStacked(stack)'
    BY <1>1, <1>2 DEF AppInv, WellStacked, Inside
<1>4. /\ Top' = Top /\ IsDispatch(Top)' = IsDispatch(Top)
      /\ IsLayer(Top)' = IsLayer(Top)
    BY <1>2 DEF Top, Last, IsDispatch, IsLayer, CodeOf, LayersOf
<1>5. ControlInv'
    BY <1>1, <1>2, <1>4 DEF ControlInv
<1>6. IsValue(value)'
    BY <1>1, <1>2, NothingIsValue DEF IsValue, IsResponse, IsSequence
<1>7. HandlerErrorContained'
    BY <1>2, <1>4 DEF IInv, HandlerErrorContained
<1>8. CorsOnEveryAnswer'
    <2>1. CASE pc \in {"lookup", "streaming"} /\ value' = value
        <3>1. value'.kind = "nothing"
            BY <1>1, <2>1 DEF ControlInv, Nothing
        <3>2. QED  BY <3>1 DEF CorsOnEveryAnswer
    <2>2. CASE pc' # "done"
        BY <2>2 DEF CorsOnEveryAnswer
    <2>3. CASE UNCHANGED <<pc, value>>
        BY <1>2, <2>3 DEF IInv, CorsOnEveryAnswer, HasHeader
    <2>4. QED  BY <1>2, <2>1, <2>2, <2>3
<1>9. QED  BY <1>3, <1>5, <1>6, <1>7, <1>8 DEF IInv

\* A layer that calls the rest of its chain.
LEMMA NextFrames ==
    ASSUME IInv, stack # <<>>, IsLayer(Top), EnterNext
    PROVE  \E frames, self :
              /\ Call(frames) /\ PushedOn(frames, self, Frame(Top.chain, Top.pos + 1))
              /\ self.chain = Top.chain /\ self.calls = Top.calls + 1
<1>1. AppInv /\ WellStacked(stack)
    BY DEF IInv
<1>2. PICK n \in Nat, i \in Nat : n = Len(stack) /\ i = Inside /\ n \in 1 .. Len(stack)
                                   /\ n >= 1 /\ i >= 1 /\ Top = stack[n]
    BY <1>1, TopIs
<1>3. Top \in [chain : Nat, pos : Nat, calls : Nat, fallback : BOOLEAN]
    BY <1>1, TopTyped
<1>4. PICK self : self = [Top EXCEPT !.calls = @ + 1]
    OBVIOUS
<1>5. /\ self \in [chain : Nat, pos : Nat, calls : Nat, fallback : BOOLEAN]
      /\ self.chain = Top.chain /\ self.pos = Top.pos /\ self.calls = Top.calls + 1
    BY <1>3, <1>4
<1>6. PICK c, p : c = Top.chain /\ p = Top.pos + 1
    OBVIOUS
<1>7. n # i
    BY <1>1, <1>2, TopIs
<1>8. n < i => c = 0 /\ p = n + 1
    BY <1>1, <1>2, <1>6 DEF WellStacked
<1>9. n > i => /\ c \in 1 .. Len(app.routes) /\ p = n + 1 - i
               /\ p <= Len(app.routes[c].layers) + 1
    <2> SUFFICES ASSUME n > i
                 PROVE  /\ c \in 1 .. Len(app.routes) /\ p = n + 1 - i
                        /\ p <= Len(app.routes[c].layers) + 1
        OBVIOUS
    <2>1. /\ c \in 1 .. Len(app.routes) /\ Top.pos = n - i
          /\ Top.pos <= Len(app.routes[c].layers)
        BY <1>1, <1>2, <1>6, CodeAt
    <2>2. PICK m \in Nat : m = Len(app.routes[c].layers)
        BY <1>1, <2>1, AppTyped
    <2>3. QED  BY <1>2, <1>6, <2>1, <2>2
<1>10. PICK frames, called : called = Frame(c, p) /\ frames = Front(stack) \o <<self, called>>
    OBVIOUS
<1>11. PushedOn(frames, self, called)
    <2>1. /\ Len(stack) < Inside => c = 0 /\ p = Len(stack) + 1
          /\ Len(stack) >= Inside =>
                /\ c \in 1 .. Len(app.routes) /\ p = Len(stack) + 1 - Inside
                /\ p <= Len(app.routes[c].layers) + 1
        BY <1>2, <1>7, <1>8, <1>9
    <2>2. QED  BY <1>1, <1>5, <1>10, <2>1, Pushed
<1>12. Call(frames)
    BY <1>4, <1>6, <1>10 DEF EnterNext
<1>13. QED  BY <1>5, <1>6, <1>10, <1>11, <1>12

\* dispatch() that calls a route's chain, remembering that it stands in for HEAD
\* or not.
LEMMA RouteFits ==
    ASSUME IInv, AtDispatch, NEW fallback \in BOOLEAN, NEW route \in 1 .. Len(app.routes),
           NEW self, self = [Top EXCEPT !.fallback = fallback],
           NEW called, called = Frame(route, 1)
    PROVE  PushedOn(Front(stack) \o <<self, called>>, self, called) /\ self.chain = Top.chain
           /\ self.calls = Top.calls /\ self.fallback = fallback
<1>1. AppInv /\ WellStacked(stack) /\ stack # <<>>
    BY DEF IInv, AtDispatch, ControlInv
<1>2. PICK n \in Nat : n = Len(stack) /\ n \in 1 .. Len(stack) /\ Top = stack[n] /\ n = Inside
    BY <1>1, TopIs DEF AtDispatch
<1>3. Top \in [chain : Nat, pos : Nat, calls : Nat, fallback : BOOLEAN]
    BY <1>1, TopTyped
<1>4. /\ self \in [chain : Nat, pos : Nat, calls : Nat, fallback : BOOLEAN]
      /\ self.chain = Top.chain /\ self.pos = Top.pos /\ self.calls = Top.calls
      /\ self.fallback = fallback
    BY <1>3
<1>5. Len(app.routes[route].layers) \in Nat
    BY <1>1, AppTyped
<1>6. PICK p : p = 1
    OBVIOUS
<1>7. called = Frame(route, p)
    BY <1>6
<1>8. /\ Len(stack) < Inside => route = 0 /\ p = Len(stack) + 1
      /\ Len(stack) >= Inside =>
            /\ route \in 1 .. Len(app.routes) /\ p = Len(stack) + 1 - Inside
            /\ p <= Len(app.routes[route].layers) + 1
    BY <1>2, <1>5, <1>6
<1>9. QED  BY <1>1, <1>4, <1>7, <1>8, Pushed

\* The route that is called is the one that was looked up.
LEMMA RouteFrames ==
    ASSUME IInv, CallRoute \/ CallGetRoute
    PROVE  \E frames, self, route :
              /\ route \in 1 .. Len(app.routes)
              /\ Call(frames) /\ PushedOn(frames, self, Frame(route, 1))
              /\ self.chain = Top.chain /\ self.calls = Top.calls
              /\ \/ CallRoute /\ route = Direct.route /\ self.fallback = Top.fallback
                 \/ CallGetRoute /\ route = AsGet.route /\ self.fallback
<1>1. AppInv /\ WellStacked(stack) /\ ControlInv
    BY DEF IInv
<1>2. Len(app.routes) \in Nat /\ AtDispatch /\ stack # <<>>
    BY <1>1, AppTyped DEF ControlInv, AtDispatch, CallRoute, CallGetRoute
<1>3. Direct.route \in 0 .. Len(app.routes) /\ AsGet.route \in 0 .. Len(app.routes)
    BY <1>2, ResolveRange DEF Direct, AsGet
<1>4. CASE CallRoute
    <2>1. PICK route \in 1 .. Len(app.routes) : route = Direct.route
        BY <1>2, <1>3, <1>4 DEF CallRoute
    <2>2. PICK n \in Nat : n = Len(stack) /\ n \in 1 .. Len(stack) /\ Top = stack[n]
        BY <1>1, <1>2, TopIs
    <2>3. Top \in [chain : Nat, pos : Nat, calls : Nat, fallback : BOOLEAN]
        BY <1>1, <1>2, TopTyped
    <2>4. PICK fallback \in BOOLEAN : [Top EXCEPT !.fallback = fallback] = Top /\ Top.fallback = fallback
        BY <2>3
    <2>5. PICK self, called : self = Top /\ called = Frame(route, 1)
        OBVIOUS
    <2>6. Append(stack, called) = Front(stack) \o <<self, called>>
        <3>1. PICK S : stack \in Seq(S)
            BY <1>1 DEF WellStacked
        <3>2. PICK s \in Seq(S \cup {called}) : s = stack
            BY <3>1
        <3>3. PICK e \in S \cup {called} : e = called
            OBVIOUS
        <3>4. Append(s, e) = SubSeq(s, 1, Len(s) - 1) \o <<s[Len(s)], e>>
            BY <1>2, <3>2
        <3>5. QED  BY <2>2, <2>5, <3>2, <3>3, <3>4 DEF Front
    <2>7. PICK frames : frames = Front(stack) \o <<self, called>> /\ Call(frames)
        BY <1>4, <2>1, <2>5, <2>6 DEF CallRoute
    <2>8. self = [Top EXCEPT !.fallback = fallback]
        BY <2>4, <2>5
    <2>9. PushedOn(frames, self, called) /\ self.chain = Top.chain /\ self.calls = Top.calls
        BY <1>2, <2>5, <2>7, <2>8, RouteFits
    <2>10. QED  BY <1>4, <2>1, <2>5, <2>7, <2>9
<1>5. CASE CallGetRoute
    <2>1. PICK route \in 1 .. Len(app.routes) : route = AsGet.route
        BY <1>2, <1>3, <1>5 DEF CallGetRoute
    <2>2. PICK fallback \in BOOLEAN : fallback = TRUE
        OBVIOUS
    <2>3. PICK self, called : self = [Top EXCEPT !.fallback = fallback] /\ called = Frame(route, 1)
        OBVIOUS
    <2>4. PICK frames : frames = Front(stack) \o <<self, called>> /\ Call(frames)
        BY <1>5, <2>1, <2>2, <2>3 DEF CallGetRoute
    <2>5. /\ PushedOn(frames, self, called) /\ self.chain = Top.chain /\ self.calls = Top.calls
          /\ self.fallback
        BY <1>2, <2>2, <2>3, <2>4, RouteFits
    <2>6. QED  BY <1>5, <2>1, <2>3, <2>4, <2>5
<1>6. QED  BY <1>4, <1>5

\* The first call.
LEMMA FirstFrames ==
    ASSUME AppInv, Handle
    PROVE  \E frames : /\ Call(frames) /\ WellStacked(frames) /\ frames # <<>>
                       /\ Len(frames) = 1 /\ frames[1] = Frame(0, 1)
<1>1. PICK frames : frames = <<Frame(0, 1)>>
    OBVIOUS
<1>2. Frame(0, 1) \in [chain : Nat, pos : Nat, calls : Nat, fallback : BOOLEAN]
      /\ Frame(0, 1).chain = 0 /\ Frame(0, 1).pos = 1
    BY DEF Frame
<1>3. /\ frames \in Seq([chain : Nat, pos : Nat, calls : Nat, fallback : BOOLEAN])
      /\ Len(frames) = 1 /\ frames[1] = Frame(0, 1) /\ frames # <<>>
    BY <1>1, <1>2
<1>4. Inside \in Nat /\ 1 <= Inside
    BY AppTyped DEF Inside
<1>5. WellStacked(frames)
    BY <1>2, <1>3, <1>4 DEF WellStacked
<1>6. Call(frames)
    BY <1>1 DEF Handle
<1>7. QED  BY <1>3, <1>5, <1>6

\* Calls.
LEMMA CallsInv ==
    ASSUME IInv, Handle \/ CallNext \/ HandOn \/ CallRoute \/ CallGetRoute
    PROVE  IInv'
<1>1. AppInv /\ ControlInv /\ UNCHANGED app
    BY DEF IInv, Handle, CallNext, HandOn, CallRoute, CallGetRoute
<1>2. PICK frames : Call(frames) /\ WellStacked(frames) /\ frames # <<>>
    <2>1. CASE Handle
        BY <1>1, <2>1, FirstFrames
    <2>2. CASE CallNext \/ HandOn
        <3>1. pc = "running" /\ IsLayer(Top) /\ EnterNext /\ stack # <<>>
            BY <1>1, <2>2 DEF CallNext, HandOn, IsUserCode, ControlInv
        <3>2. QED  BY <3>1, NextFrames DEF PushedOn
    <2>3. CASE CallRoute \/ CallGetRoute
        BY <2>3, RouteFrames DEF PushedOn
    <2>4. QED  BY <2>1, <2>2, <2>3
<1>3. QED  BY <1>1, <1>2, CallInv

\* What user code makes is a response.
LEMMA MadeIsResponse ==
    ASSUME NEW f, NEW res \in Made(f)
    PROVE  IsResponse(res)
<1>1. \E size : res = Text(200, size) \/ res = SetHeader(Text(200, size), "Content-Length", 1)
    BY DEF Made
<1>2. PICK size, text : /\ text = Text(200, size)
                        /\ res = text \/ res = SetHeader(text, "Content-Length", 1)
    BY <1>1
<1>3. IsResponse(text)
    BY <1>2, TextIsResponse
<1>4. QED  BY <1>2, <1>3, HeaderSet

\* Who runs in the server's own chain is one of its layers.
LEMMA RunningIs ==
    ASSUME IInv, pc = "running"
    PROVE  /\ stack # <<>>
           /\ Top.chain = 0 => Author(Top)[1] = "layer"
           /\ IsUserCode(Top) /\ IsLayer(Top) => KindOfLayer(Top) # "cors"
<1>1. stack # <<>> /\ ~IsDispatch(Top)
    BY DEF IInv, ControlInv
<1>2. Top.chain = 0 => ~IsHandler(Top)
    BY <1>1 DEF IsDispatch, IsHandler
<1>3. Top.chain = 0 => Author(Top)[1] = "layer"
    BY <1>2 DEF Author
<1>4. QED  BY <1>1, <1>3 DEF IsUserCode

\* User code that answers or throws.
LEMMA UserReturnsInv ==
    ASSUME IInv, Answer \/ Throw
    PROVE  IInv'
<1>1. /\ stack # <<>> /\ IsUserCode(Top) /\ UNCHANGED app
      /\ Top.chain = 0 => Author(Top)[1] = "layer"
      /\ IsLayer(Top) => KindOfLayer(Top) # "cors"
    BY RunningIs DEF Answer, Throw
<1>2. CASE Answer
    <2>1. PICK v : /\ Leave(v, "returned")
                   /\ v = value \/ \E res \in Made(Top) : v = Response(Author(Top), res)
        BY <1>2 DEF Answer
    <2>2. IsValue(v)
        <3>1. CASE v = value
            BY <3>1 DEF IInv
        <3>2. CASE \E res \in Made(Top) : v = Response(Author(Top), res)
            <4>1. PICK res, by, f : /\ f = Top /\ res \in Made(f) /\ by = Author(f)
                                    /\ v = Response(by, res)
                BY <3>2
            <4>2. IsResponse(res)
                BY <4>1, MadeIsResponse
            <4>3. QED  BY <4>1, <4>2, ResponseIsValue
        <3>3. QED  BY <2>1, <3>1, <3>2
    <2>3. PICK outcome \in {"returned", "thrown"} : outcome = "returned"
        OBVIOUS
    <2>4. QED  BY <1>1, <2>1, <2>2, <2>3, LeaveInv
<1>3. CASE Throw
    <2>1. PICK kind, by, v : /\ by = Author(Top) /\ v = Exception(kind, by)
                             /\ Leave(v, "thrown")
        BY <1>3 DEF Throw
    <2>2. IsValue(v) /\ v.by = by
        BY <2>1, ExceptionIsValue
    <2>3. PICK outcome \in {"returned", "thrown"} : outcome = "thrown"
        OBVIOUS
    <2>4. Top.chain = 0 => v.by[1] = "layer"
        BY <1>1, <2>1, <2>2
    <2>5. QED  BY <1>1, <2>1, <2>2, <2>3, <2>4, LeaveInv
<1>4. QED  BY <1>2, <1>3

\* cors() and logger(), which answer a preflight or hand back what they got.
LEMMA LayerReturnsInv ==
    ASSUME IInv, AnswerPreflight \/ HandBack
    PROVE  IInv'
<1>1. stack # <<>> /\ UNCHANGED app
    BY RunningIs DEF AnswerPreflight, HandBack
<1>2. PICK w : /\ IsValue(w)
               /\ \/ KindOfLayer(Top) # "cors" /\ Leave(w, "returned")
                  \/ Leave(Stamped(w), "returned")
    <2>1. CASE AnswerPreflight
        <3>1. PICK by, text, w : /\ by = Author(Top) /\ text = Text(204, 0)
                                 /\ w = Response(by, text) /\ Leave(Stamped(w), "returned")
            BY <2>1 DEF AnswerPreflight
        <3>2. IsValue(w)
            BY <3>1, TextIsResponse, ResponseIsValue
        <3>3. QED  BY <3>1, <3>2
    <2>2. CASE HandBack
        <3>1. IsValue(value)
            BY DEF IInv
        <3>2. \/ KindOfLayer(Top) # "cors" /\ Leave(value, "returned")
              \/ Leave(Stamped(value), "returned")
            BY <2>2 DEF HandBack
        <3>3. QED  BY <3>1, <3>2
    <2>3. QED  BY <2>1, <2>2
<1>3. PICK v : /\ IsValue(v) /\ Leave(v, "returned")
               /\ KindOfLayer(Top) = "cors" => HasHeader(v.res, "Access-Control-Allow-Origin")
    <2>1. CASE KindOfLayer(Top) # "cors" /\ Leave(w, "returned")
        BY <1>2, <2>1
    <2>2. CASE Leave(Stamped(w), "returned")
        <3>1. PICK v : v = Stamped(w)
            OBVIOUS
        <3>2. IsValue(v) /\ HasHeader(v.res, "Access-Control-Allow-Origin")
            BY <1>2, <3>1, StampedIsValue
        <3>3. QED  BY <2>2, <3>1, <3>2
    <2>3. QED  BY <1>2, <2>1, <2>2
<1>4. PICK outcome \in {"returned", "thrown"} : outcome = "returned"
    OBVIOUS
<1>5. QED  BY <1>1, <1>3, <1>4, LeaveInv

\* A layer's next throws: the layer lets it pass, or catches it.
LEMMA NextThrowsInv ==
    ASSUME IInv, NextThrows
    PROVE  IInv'
<1>1. AppInv /\ WellStacked(stack) /\ ControlInv /\ IsValue(value) /\ HandlerErrorContained
    BY DEF IInv
<1>2. stack # <<>> /\ UNCHANGED app /\ pc = "thrown" /\ IsLayer(Top)
    BY <1>1 DEF NextThrows, ControlInv
<1>3. CASE Leave(value, "thrown")
    <2>1. PICK v : v = value
        OBVIOUS
    <2>2. PICK outcome \in {"returned", "thrown"} : outcome = "thrown"
        OBVIOUS
    <2>3. v.kind = "std" /\ Top.chain = 0 => v.by[1] \in {"layer", "file"}
        BY <1>1, <1>2, <2>1 DEF HandlerErrorContained
    <2>4. QED  BY <1>1, <1>2, <1>3, <2>1, <2>2, <2>3, LeaveInv
<1>4. CASE pc' = "running" /\ value' = Nothing /\ UNCHANGED stack
    <2>1. AppInv' /\ WellStacked(stack)'
        BY <1>1, <1>2, <1>4 DEF AppInv, WellStacked, Inside
    <2>2. ~IsDispatch(Top)'
        BY <1>2, <1>4 DEF IsDispatch, IsLayer, Top, Last, CodeOf, LayersOf
    <2>3. ControlInv'
        BY <1>2, <1>4, <2>2 DEF ControlInv
    <2>4. IsValue(value)'
        BY <1>4, NothingIsValue DEF IsValue, IsResponse, IsSequence
    <2>5. HandlerErrorContained' /\ CorsOnEveryAnswer'
        BY <1>4 DEF HandlerErrorContained, CorsOnEveryAnswer
    <2>6. QED  BY <2>1, <2>3, <2>4, <2>5 DEF IInv
<1>5. QED  BY <1>3, <1>4 DEF NextThrows

\* dispatch() is back with a file, a 404, what the route gave it or an exception.
LEMMA DispatchReturnsInv ==
    ASSUME IInv, ServeFile \/ SearchThrows \/ NotFound \/ HandlerReturns \/ HandlerThrows
    PROVE  IInv'
<1>1. ControlInv /\ IsValue(value)
    BY DEF IInv
<1>2. stack # <<>> /\ UNCHANGED app /\ ~IsLayer(Top)
    <2>1. stack # <<>> /\ UNCHANGED app /\ IsDispatch(Top)
        BY <1>1 DEF ServeFile, SearchThrows, NotFound, HandlerReturns, HandlerThrows,
                    NoRoute, AtDispatch, ControlInv
    <2>2. QED  BY <2>1 DEF IsDispatch, IsLayer
<1>3. PICK v : /\ IsValue(v)
               /\ \/ Leave(v, "returned")
                  \/ Leave(v, "thrown") /\ (v.kind = "std" => v.by[1] = "file")
    <2>1. CASE ServeFile
        <3>1. PICK by, text, file, v :
                 /\ \E status, sent : text = Text(status, sent)
                 /\ by = <<"file", 0>> /\ v = [Response(by, text) EXCEPT !.file = file]
                 /\ Leave(v, "returned")
            BY <2>1 DEF ServeFile
        <3>2. IsResponse(text)
            BY <3>1, TextIsResponse
        <3>3. PICK r : r = Response(by, text)
            OBVIOUS
        <3>4. IsValue(r)
            BY <3>2, <3>3, ResponseIsValue
        <3>5. v = [kind |-> r.kind, by |-> r.by, res |-> r.res, file |-> file]
            BY <3>1, <3>3, <3>4 DEF IsValue
        <3>6. IsValue(v)
            BY <3>4, <3>5 DEF IsValue
        <3>7. QED  BY <3>1, <3>6
    <2>2. CASE SearchThrows
        <3>1. PICK by, kind, v : /\ by = <<"file", 0>> /\ kind = "std"
                                 /\ v = Exception(kind, by) /\ Leave(v, "thrown")
            BY <2>2 DEF SearchThrows
        <3>2. IsValue(v) /\ v.by = by
            BY <3>1, ExceptionIsValue
        <3>3. QED  BY <3>1, <3>2
    <2>3. CASE NotFound
        <3>1. PICK by, text, v : /\ by = <<"notFound", 0>> /\ text = Text(404, 1)
                                 /\ v = Response(by, text) /\ Leave(v, "returned")
            BY <2>3 DEF NotFound
        <3>2. IsValue(v)
            BY <3>1, TextIsResponse, ResponseIsValue
        <3>3. QED  BY <3>1, <3>2
    <2>4. CASE HandlerReturns
        <3>1. PICK v : /\ Leave(v, "returned")
                       /\ v = value \/ v = [value EXCEPT !.res.body = NoneOf(@)]
            BY <2>4 DEF HandlerReturns
        <3>2. PICK w, r : w = value /\ r = value.res
            OBVIOUS
        <3>3. IsValue(w) /\ IsResponse(r) /\ r = w.res
            BY <1>1, <3>2 DEF IsValue
        <3>4. ASSUME v = [value EXCEPT !.res.body = NoneOf(@)] PROVE IsValue(v)
            <4>1. PICK s : s = [r EXCEPT !.body = 0]
                OBVIOUS
            <4>2. s = [status |-> r.status, headers |-> r.headers, body |-> 0]
                BY <3>3, <4>1 DEF IsResponse
            <4>3. IsResponse(s)
                BY <3>3, <4>2 DEF IsResponse
            <4>4. v = [w EXCEPT !.res = s]
                BY <3>2, <3>4, <4>1 DEF NoneOf
            <4>5. v = [kind |-> w.kind, by |-> w.by, res |-> s, file |-> w.file]
                BY <3>3, <4>4 DEF IsValue
            <4>6. QED  BY <4>3, <4>5 DEF IsValue
        <3>5. IsValue(v)
            BY <3>1, <3>2, <3>3, <3>4
        <3>6. QED  BY <3>1, <3>5
    <2>5. CASE HandlerThrows
        <3>1. CASE Caught(Top)
            <4>1. PICK by, text, v : /\ \E body : text = Text(500, body)
                                     /\ v = Response(by, text) /\ Leave(v, "returned")
                BY <2>5, <3>1 DEF HandlerThrows
            <4>2. IsValue(v)
                BY <4>1, TextIsResponse, ResponseIsValue
            <4>3. QED  BY <4>1, <4>2
        <3>2. CASE ~Caught(Top)
            <4>1. Leave(value, "thrown") /\ value.kind # "std"
                BY <2>5, <3>2 DEF HandlerThrows, Caught
            <4>2. QED  BY <1>1, <4>1
        <3>3. QED  BY <3>1, <3>2
    <2>6. QED  BY <2>1, <2>2, <2>3, <2>4, <2>5
<1>4. PICK outcome \in {"returned", "thrown"} :
         /\ Leave(v, outcome)
         /\ outcome = "thrown" /\ v.kind = "std" => v.by[1] = "file"
    BY <1>3
<1>5. QED  BY <1>2, <1>3, <1>4, LeaveInv

-----------------------------------------------------------------------------
(* The theorems.                                                             *)

\* Before the first request is looked up, the invariant holds.
LEMMA InitInv == Init => IInv
<1> SUFFICES ASSUME Init PROVE IInv
    OBVIOUS
<1>1. AppInv /\ stack = <<>> /\ pc = "lookup" /\ value = Nothing
    BY DEF Init, AppInv
<1>2. WellStacked(stack)
    BY <1>1 DEF WellStacked
<1>3. ControlInv
    BY <1>1 DEF ControlInv
<1>4. IsValue(value)
    BY <1>1, NothingIsValue
<1>5. HandlerErrorContained /\ CorsOnEveryAnswer
    BY <1>1 DEF HandlerErrorContained, CorsOnEveryAnswer
<1>6. QED  BY <1>1, <1>2, <1>3, <1>4, <1>5 DEF IInv

\* Every step keeps it.
LEMMA NextInv == IInv /\ [Next]_vars => IInv'
<1> SUFFICES ASSUME IInv, [Next]_vars PROVE IInv'
    OBVIOUS
<1>1. CASE \/ OpenStream \/ StreamEnds \/ Enter \/ NextReturns
           \/ TryFiles \/ SearchFile \/ EditFile \/ Revalidate \/ Terminated \/ UNCHANGED vars
    BY <1>1, QuietInv DEF Terminated
<1>2. CASE Handle \/ CallNext \/ HandOn \/ CallRoute \/ CallGetRoute
    BY <1>2, CallsInv
<1>3. CASE Answer \/ Throw
    BY <1>3, UserReturnsInv
<1>4. CASE AnswerPreflight \/ HandBack
    BY <1>4, LayerReturnsInv
<1>5. CASE NextThrows
    BY <1>5, NextThrowsInv
<1>6. CASE ServeFile \/ SearchThrows \/ NotFound \/ HandlerReturns \/ HandlerThrows
    BY <1>6, DispatchReturnsInv
<1>7. QED  BY <1>1, <1>2, <1>3, <1>4, <1>5, <1>6 DEF Next

\* The inductive invariant: the coroutines in progress are the server's layers,
\* dispatch() and the layers and handler of one route, in this order, what they
\* give back is a response or an exception, and dispatch() lets no standard
\* exception out.
THEOREM Invariance == Spec => []IInv
<1>1. QED  BY InitInv, NextInv, PTL DEF Spec

\* Whatever is registered, whatever the middleware calls, rewrites, throws or
\* catches: what runs has every layer that was registered before it around it.
THEOREM OnionKept == Spec => []OnionOrder
<1>1. IInv => OnionOrder
    <2> SUFFICES ASSUME IInv, NEW k \in 1 .. Len(stack)
                 PROVE  LET depth == IF stack[k].chain = 0 THEN k ELSE k - (Len(app.layers) + 1)
                        IN  /\ CodeOf(stack[k]) = IF depth <= Len(LayersOf(stack[k].chain))
                                                  THEN depth ELSE Inner
                            /\ stack[k].chain > 0 => IsDispatch(stack[Len(app.layers) + 1])
        BY DEF OnionOrder
    <2>1. AppInv /\ WellStacked(stack)
        BY DEF IInv
    <2>2. PICK n \in Nat, i \in Nat : n = Len(app.layers) /\ i = Inside /\ i = n + 1
        BY <2>1, AppTyped DEF Inside
    <2>3. PICK m \in Nat : m = Len(stack)
        BY <2>1 DEF WellStacked
    <2>4. CASE k <= i
        <3>1. stack[k].chain = 0 /\ CodeOf(stack[k]) = IF k <= n THEN k ELSE Inner
            BY <2>1, <2>2, <2>3, <2>4, CodeAt
        <3>2. LayersOf(stack[k].chain) = app.layers
            BY <3>1 DEF LayersOf
        <3>3. QED  BY <2>2, <3>1, <3>2
    <2>5. CASE k > i
        <3>1. /\ stack[k].chain > 0 /\ stack[k].chain # 0 /\ stack[k].pos = k - i
              /\ CodeOf(stack[k]) = IF stack[k].pos <= Len(app.routes[stack[k].chain].layers)
                                    THEN stack[k].pos ELSE Inner
            <4>1. /\ stack[k].chain \in 1 .. Len(app.routes) /\ stack[k].pos = k - i
                  /\ CodeOf(stack[k]) = IF stack[k].pos <= Len(app.routes[stack[k].chain].layers)
                                        THEN stack[k].pos ELSE Inner
                BY <2>1, <2>2, <2>5, CodeAt
            <4>2. Len(app.routes) \in Nat
                BY <2>1, AppTyped
            <4>3. QED  BY <4>1, <4>2
        <3>2. LayersOf(stack[k].chain) = app.routes[stack[k].chain].layers
            BY <3>1 DEF LayersOf
        <3>3. IsDispatch(stack[i])
            <4>1. i \in 1 .. Len(stack)
                BY <2>2, <2>3, <2>5
            <4>2. QED  BY <2>1, <2>2, <4>1, CodeAt
        <3>4. QED  BY <2>2, <3>1, <3>2, <3>3
    <2>6. QED  BY <2>2, <2>3, <2>4, <2>5
<1>2. QED  BY <1>1, Invariance, PTL

\* No standard exception of a handler or of a route's middleware reaches the
\* server's middleware or the connection: dispatch() has answered 500.
THEOREM ErrorsContained == Spec => []HandlerErrorContained
<1>1. IInv => HandlerErrorContained
    BY DEF IInv
<1>2. QED  BY <1>1, Invariance, PTL

\* Behind cors() every answer has its header, whoever made it.
THEOREM CorsAlways == Spec => []CorsOnEveryAnswer
<1>1. IInv => CorsOnEveryAnswer
    BY DEF IInv
<1>2. QED  BY <1>1, Invariance, PTL

-----------------------------------------------------------------------------
(* Paths, the empty parts aside.                                             *)

\* A part more, if it is not empty.
LEMMA NonEmptyAppend ==
    ASSUME NEW S, NEW s, s \in Seq(S), NEW e \in S
    PROVE  /\ NonEmpty(s) \in Seq(S)
           /\ NonEmpty(Append(s, e)) = IF e = Empty THEN NonEmpty(s) ELSE Append(NonEmpty(s), e)
<1>1. PICK t : t = Append(s, e)
    OBVIOUS
<1>2. /\ DOMAIN s = 1 .. Len(s) /\ Len(s) \in Nat
      /\ DOMAIN t = 1 .. Len(s) + 1 /\ t[Len(s) + 1] = e
      /\ \A k \in 1 .. Len(s) : t[k] = s[k]
    BY <1>1
<1>3. PICK K, M : K = {k \in DOMAIN s : s[k] # Empty} /\ M = {k \in DOMAIN t : t[k] # Empty}
    OBVIOUS
<1>4. /\ \A k \in 1 .. Len(s) : k \in K <=> k \in M
      /\ Len(s) + 1 \in M <=> e # Empty
    BY <1>2, <1>3
<1>5. /\ Those(s, K) \in Seq(S)
      /\ Those(t, M) = IF Len(s) + 1 \in M THEN Append(Those(s, K), e) ELSE Those(s, K)
    BY <1>1, <1>4, ThoseAppend
<1>6. QED  BY <1>1, <1>3, <1>4, <1>5 DEF NonEmpty

\* Two paths with the same parts have the same parts when both are continued.
LEMMA NonEmptyAfter ==
    ASSUME NEW S, NEW s, NEW t, s \in Seq(S), t \in Seq(S), NonEmpty(s) = NonEmpty(t),
           NEW u, u \in Seq(S)
    PROVE  NonEmpty(s \o u) = NonEmpty(t \o u)
<1>1. PICK n \in Nat : n = Len(u)
    OBVIOUS
<1> DEFINE Cut(k) == SubSeq(u, 1, k)
           Ok == {k \in Nat : k <= n => NonEmpty(s \o Cut(k)) = NonEmpty(t \o Cut(k))}
<1>2. Cut(0) = <<>> /\ Cut(n) = u
    BY <1>1
<1>3. 0 \in Ok
    <2>1. s \o <<>> = s /\ t \o <<>> = t
        OBVIOUS
    <2>2. QED  BY <1>2, <2>1
<1>4. ASSUME NEW r, r \in Seq(S), NEW k \in Nat, k + 1 <= n
      PROVE  /\ r \o Cut(k) \in Seq(S) /\ u[k + 1] \in S
             /\ r \o Cut(k + 1) = Append(r \o Cut(k), u[k + 1])
    <2>1. PICK e \in S : e = u[k + 1]
        BY <1>1, <1>4
    <2>2. PICK a, b : a = Cut(k) /\ b = Cut(k + 1) /\ a \in Seq(S)
        <3>1. Cut(k) \in Seq(S)
            BY <1>1, <1>4
        <3>2. QED  BY <3>1
    <2>3. b = Append(a, e)
        BY <1>1, <1>4, <2>1, <2>2
    <2>4. r \o Append(a, e) = Append(r \o a, e)
        BY <1>4, <2>2
    <2>5. r \o a \in Seq(S)
        BY <1>4, <2>2
    <2>6. QED  BY <2>1, <2>2, <2>3, <2>4, <2>5
<1>5. ASSUME NEW k \in Nat, k \in Ok PROVE k + 1 \in Ok
    <2> SUFFICES ASSUME k + 1 <= n PROVE NonEmpty(s \o Cut(k + 1)) = NonEmpty(t \o Cut(k + 1))
        OBVIOUS
    <2>1. NonEmpty(s \o Cut(k)) = NonEmpty(t \o Cut(k))
        BY <1>5
    <2>2. PICK a, b, e :
             /\ a = s \o Cut(k) /\ b = t \o Cut(k) /\ e = u[k + 1] /\ e \in S
             /\ a \in Seq(S) /\ b \in Seq(S)
             /\ s \o Cut(k + 1) = Append(a, e) /\ t \o Cut(k + 1) = Append(b, e)
        <3> HIDE DEF Cut
        <3>1. /\ s \o Cut(k) \in Seq(S) /\ u[k + 1] \in S
              /\ s \o Cut(k + 1) = Append(s \o Cut(k), u[k + 1])
            BY <1>4
        <3>2. /\ t \o Cut(k) \in Seq(S)
              /\ t \o Cut(k + 1) = Append(t \o Cut(k), u[k + 1])
            BY <1>4
        <3>3. QED  BY <3>1, <3>2
    <2>3. NonEmpty(Append(a, e)) = NonEmpty(Append(b, e))
        <3>1. NonEmpty(a) = NonEmpty(b)
            BY <2>1, <2>2
        <3> HIDE DEF Cut, Ok
        <3>2. a \in Seq(S) /\ b \in Seq(S) /\ e \in S
            BY <2>2
        <3>3. \A r \in Seq(S) : NonEmpty(Append(r, e)) =
                 IF e = Empty THEN NonEmpty(r) ELSE Append(NonEmpty(r), e)
            BY ONLY <3>2, NonEmptyAppend
        <3>4. QED  BY ONLY <3>1, <3>2, <3>3
    <2>4. QED  BY <2>2, <2>3
<1>6. \A k \in Nat : k \in Ok
    <2> HIDE DEF Ok
    <2>1. QED  BY <1>3, <1>5, InductionOnSet
<1>7. NonEmpty(s \o Cut(n)) = NonEmpty(t \o Cut(n))
    BY <1>6
<1>8. QED  BY <1>2, <1>7

\* The slash that route_group takes away leaves the parts as they are.
LEMMA TrimmedSame ==
    ASSUME NEW S, NEW s, s \in Seq(S)
    PROVE  Trimmed(s) \in Seq(S) /\ NonEmpty(Trimmed(s)) = NonEmpty(s)
<1>1. PICK n \in Nat : n = Len(s)
    OBVIOUS
<1>2. CASE n > 1 /\ s[n] = Empty
    <2>1. PICK f : f = SubSeq(s, 1, n - 1)
        OBVIOUS
    <2>2. PICK e \in S : e = s[n] /\ e = Empty
        BY <1>1, <1>2
    <2>3. f \in Seq(S) /\ s = Append(f, e)
        BY <1>1, <1>2, <2>1, <2>2
    <2>4. Trimmed(s) = f
        BY <1>1, <1>2, <2>1 DEF Trimmed, Last, Front
    <2>5. NonEmpty(s) = NonEmpty(f)
        BY <2>2, <2>3, NonEmptyAppend
    <2>6. QED  BY <2>3, <2>4, <2>5
<1>3. CASE ~(n > 1 /\ s[n] = Empty)
    <2>1. Trimmed(s) = s
        BY <1>1, <1>3 DEF Trimmed, Last
    <2>2. QED  BY <2>1
<1>4. QED  BY <1>2, <1>3

\* Prefix follows its recursion.
LEMMA PrefixRecursion ==
    ASSUME NEW S, NEW groups, groups \in Seq(Seq(S))
    PROVE  \E p : /\ p \in [0 .. Len(groups) -> Seq(S)] /\ p[0] = <<>>
                  /\ \A k \in 1 .. Len(groups) : p[k] = Trimmed(p[k - 1] \o groups[k])
                  /\ Prefix(groups) = p[Len(groups)]
<1> DEFINE T == Seq(S)
           Step(x, k) == Trimmed(x \o groups[k])
<1>1. PICK N \in Nat : N = Len(groups)
    OBVIOUS
<1>2. <<>> \in T /\ \A k \in 1 .. N : \A x \in T : Step(x, k) \in T
    <2>1. ASSUME NEW k \in 1 .. N, NEW x \in T PROVE Step(x, k) \in T
        <3>1. PICK s : s = x \o groups[k] /\ s \in Seq(S)
            <4>1. groups[k] \in Seq(S)
                BY <1>1
            <4>2. x \o groups[k] \in Seq(S)
                BY <4>1
            <4>3. QED  BY <4>2
        <3>2. QED  BY <3>1, TrimmedSame
    <2>2. QED  BY <2>1
<1> HIDE DEF T, Step
<1>3. PICK p : p \in [0 .. N -> T] /\ p[0] = <<>> /\ \A k \in 1 .. N : p[k] = Step(p[k - 1], k)
    <2> DEFINE g == [q \in T \X (1 .. N) |-> Step(q[1], q[2])]
    <2>1. g \in [T \X (1 .. N) -> T] /\ \A x \in T, k \in 1 .. N : g[<<x, k>>] = Step(x, k)
        BY <1>2
    <2> HIDE DEF g
    <2>2. Foldable(T, <<>>, N, g)
        BY <1>2, <2>1 DEF Foldable
    <2>3. PICK p : Fold(T, <<>>, N, g, p)
        BY <2>2, FoldExists
    <2>4. \A k \in 1 .. N : p[k - 1] \in T
        <3>1. \A k \in 1 .. N : k - 1 \in 0 .. N
            OBVIOUS
        <3>2. QED  BY <2>3, <3>1 DEF Fold
    <2>5. QED  BY <2>1, <2>3, <2>4 DEF Fold
<1> DEFINE Body(h) == [k \in 0 .. N |-> IF k = 0 THEN <<>> ELSE Step(h[k - 1], k)]
<1>4. Prefix(groups) = (CHOOSE h : h = Body(h))[N]
    BY <1>1 DEF Prefix, Step
<1>5. p = Body(p)
    BY <1>3
<1>6. PICK h : h = Body(h) /\ Prefix(groups) = h[N]
    <2> HIDE DEF Body
    <2>1. QED  BY <1>4, <1>5
<1>7. h[0] = <<>> /\ \A k \in 1 .. N : h[k] = Step(h[k - 1], k)
    BY <1>6
<1> HIDE DEF Body
<1>8. ASSUME NEW k \in 0 .. N - 1, h[k] = p[k] PROVE h[k + 1] = p[k + 1]
    <2>1. k + 1 \in 1 .. N /\ (k + 1) - 1 = k
        OBVIOUS
    <2>2. QED  BY <1>3, <1>7, <1>8, <2>1
<1>9. Agree(h, p, 0, N)
    BY <1>3, <1>7, <1>8 DEF Agree
<1>10. h[N] = p[N]
    BY <1>9, FoldUnique
<1>11. QED  BY <1>1, <1>3, <1>6, <1>10 DEF Step, T

\* What is registered in groups, nested to any depth and written with a slash at
\* the end or not, has the parts of the groups and of the pattern.
THEOREM PrefixFlat ==
    ASSUME NEW S, NEW groups, groups \in Seq(Seq(S)), NEW pattern, pattern \in Seq(S)
    PROVE  /\ NonEmpty(Prefix(groups) \o pattern) \in Seq(S)
           /\ NonEmpty(Prefix(groups) \o pattern) = NonEmpty(FlattenSeq(groups) \o pattern)
<1>1. PICK N \in Nat : N = Len(groups)
    OBVIOUS
<1>2. PICK p : /\ p \in [0 .. N -> Seq(S)] /\ p[0] = <<>>
               /\ \A k \in 1 .. N : p[k] = Trimmed(p[k - 1] \o groups[k])
               /\ Prefix(groups) = p[N]
    BY <1>1, PrefixRecursion
<1>3. PICK f : /\ f \in [0 .. N -> Seq(S)] /\ f[0] = <<>>
               /\ \A k \in 1 .. N : f[k] = f[k - 1] \o groups[k]
               /\ FlattenSeq(groups) = f[N]
    BY <1>1, FlattenSeqRecursion
<1> DEFINE Ok == {k \in Nat : k <= N => NonEmpty(p[k]) = NonEmpty(f[k])}
<1>4. 0 \in Ok
    BY <1>2, <1>3
<1>5. ASSUME NEW k \in Nat, k \in Ok PROVE k + 1 \in Ok
    <2> SUFFICES ASSUME k + 1 <= N PROVE NonEmpty(p[k + 1]) = NonEmpty(f[k + 1])
        OBVIOUS
    <2>1. k \in 0 .. N /\ k + 1 \in 1 .. N /\ (k + 1) - 1 = k /\ NonEmpty(p[k]) = NonEmpty(f[k])
        BY <1>5
    <2>2. PICK a, b, g : /\ a = p[k] /\ b = f[k] /\ g = groups[k + 1]
                         /\ a \in Seq(S) /\ b \in Seq(S) /\ g \in Seq(S)
        <3>1. p[k] \in Seq(S) /\ f[k] \in Seq(S)
            BY <1>2, <1>3, <2>1
        <3>2. groups[k + 1] \in Seq(S)
            BY <1>1, <2>1
        <3>3. QED  BY <3>1, <3>2
    <2>3. p[k + 1] = Trimmed(a \o g) /\ f[k + 1] = b \o g
        BY <1>2, <1>3, <2>1, <2>2
    <2>4. NonEmpty(a \o g) = NonEmpty(b \o g)
        BY <2>1, <2>2, NonEmptyAfter
    <2>5. PICK c : c = a \o g /\ c \in Seq(S)
        <3>1. a \o g \in Seq(S)
            BY <2>2
        <3>2. QED  BY <3>1
    <2>6. NonEmpty(Trimmed(c)) = NonEmpty(c)
        BY <2>5, TrimmedSame
    <2>7. QED  BY <2>3, <2>4, <2>5, <2>6
<1>6. \A k \in Nat : k \in Ok
    <2> HIDE DEF Ok
    <2>1. QED  BY <1>4, <1>5, InductionOnSet
<1>7. PICK a, b : /\ a = p[N] /\ b = f[N] /\ a \in Seq(S) /\ b \in Seq(S)
                  /\ NonEmpty(a) = NonEmpty(b)
    BY <1>2, <1>3, <1>6
<1>8. NonEmpty(a \o pattern) = NonEmpty(b \o pattern)
    BY <1>7, NonEmptyAfter
<1>9. NonEmpty(a \o pattern) \in Seq(S)
    <2>1. PICK c : c = a \o pattern /\ c \in Seq(S)
        <3>1. a \o pattern \in Seq(S)
            BY <1>7
        <3>2. QED  BY <3>1
    <2>2. PICK K : K = {k \in DOMAIN c : c[k] # Empty}
        OBVIOUS
    <2>3. PICK u : u \in [0 .. Len(c) -> Seq(S)] /\ Those(c, K) = u[Len(c)]
        BY <2>1, ThoseRecursion
    <2>4. Len(c) \in 0 .. Len(c)
        BY <2>1
    <2>5. QED  BY <2>1, <2>2, <2>3, <2>4 DEF NonEmpty
<1>10. QED  BY <1>2, <1>3, <1>7, <1>8, <1>9

-----------------------------------------------------------------------------
(* One route.                                                                *)

\* Where a compiled pattern has holes.
HolesOf(pattern, n) ==
    Those([k \in 1 .. n |-> k], {k \in 1 .. n : pattern[k].kind # "literal"})

\* What match_route takes from the path for each part of the pattern, and where
\* the part does not fit or has nothing to take.
TakenFrom(pattern, parts) == [k \in 1 .. Len(pattern) |-> Param(pattern[k], parts[k])]

\* The walk of match_route.
WalkOn(before, pattern, parts, k) ==
    IF ~before.fits THEN before
    ELSE IF ~SegmentFits(pattern[k], parts[k])
    THEN [fits |-> FALSE, params |-> SubSeq(before.params, 1, Len(<<>>))]
    ELSE IF pattern[k].kind = "literal" THEN before
    ELSE [before EXCEPT !.params = Append(@, Param(pattern[k], parts[k]))]

\* The path has as many parts as the pattern, and P is what they may hold.
Walkable(pattern, path, parts, n, P) ==
    /\ n \in Nat /\ n = Len(pattern) /\ parts = Split(path) /\ Len(parts) = n
    /\ \A k \in 1 .. n : Param(pattern[k], parts[k]) \in P

\* w is what the walk has come to after each part.
Walked(pattern, path, parts, n, P, w) ==
    /\ w \in [0 .. n -> [fits : BOOLEAN, params : Seq(P)]]
    /\ w[0] = [fits |-> TRUE, params |-> <<>>]
    /\ \A k \in 1 .. n : w[k] = WalkOn(w[k - 1], pattern, parts, k)
    /\ MatchRoute(pattern, path, <<>>) = w[n]

\* match_route takes a step for each segment.
LEMMA WalkRecursion ==
    ASSUME NEW n, NEW pattern, NEW path, NEW parts, NEW P, Walkable(pattern, path, parts, n, P)
    PROVE  \E w : Walked(pattern, path, parts, n, P, w)
<1> DEFINE T == [fits : BOOLEAN, params : Seq(P)]
           First == [fits |-> TRUE, params |-> <<>>]
           Step(x, k) == WalkOn(x, pattern, parts, k)
<1> USE DEF Walkable
<1>1. First \in T
    OBVIOUS
<1>2. ASSUME NEW k \in 1 .. n, NEW x \in T PROVE Step(x, k) \in T
    <2>1. PICK e \in P : e = Param(pattern[k], parts[k])
        OBVIOUS
    <2>2. PICK q \in Seq(P) : q = x.params
        OBVIOUS
    <2>3. SubSeq(q, 1, Len(<<>>)) \in Seq(P) /\ Append(q, e) \in Seq(P)
        OBVIOUS
    <2>4. [x EXCEPT !.params = Append(@, e)] \in T
        <3>1. PICK a \in Seq(P) : a = Append(q, e)
            BY <2>3
        <3>2. [x EXCEPT !.params = a] \in T
            OBVIOUS
        <3>3. QED  BY <2>2, <3>1, <3>2
    <2>5. [fits |-> FALSE, params |-> SubSeq(q, 1, Len(<<>>))] \in T
        BY <2>3
    <2>6. QED  BY <2>1, <2>2, <2>4, <2>5 DEF WalkOn
<1> HIDE DEF T, First, Step
<1>3. PICK w : w \in [0 .. n -> T] /\ w[0] = First /\ \A k \in 1 .. n : w[k] = Step(w[k - 1], k)
    <2> DEFINE g == [q \in T \X (1 .. n) |-> Step(q[1], q[2])]
    <2>1. g \in [T \X (1 .. n) -> T] /\ \A x \in T, k \in 1 .. n : g[<<x, k>>] = Step(x, k)
        BY <1>2
    <2> HIDE DEF g
    <2>2. Foldable(T, First, n, g)
        BY <1>1, <2>1 DEF Foldable
    <2>3. PICK w : Fold(T, First, n, g, w)
        BY <2>2, FoldExists
    <2>4. \A k \in 1 .. n : w[k - 1] \in T
        <3>1. \A k \in 1 .. n : k - 1 \in 0 .. n
            OBVIOUS
        <3>2. QED  BY <2>3, <3>1 DEF Fold
    <2>5. QED  BY <2>1, <2>3, <2>4 DEF Fold
<1> DEFINE Body(h) == [k \in 0 .. n |-> IF k = 0 THEN First ELSE Step(h[k - 1], k)]
<1>4. MatchRoute(pattern, path, <<>>) = (CHOOSE h : h = Body(h))[n]
    BY DEF MatchRoute, First, Step, WalkOn
<1>5. w = Body(w)
    BY <1>3
<1>6. PICK h : h = Body(h) /\ MatchRoute(pattern, path, <<>>) = h[n]
    <2> HIDE DEF Body
    <2>1. QED  BY <1>4, <1>5
<1>7. h[0] = First /\ \A k \in 1 .. n : h[k] = Step(h[k - 1], k)
    BY <1>6
<1> HIDE DEF Body
<1>8. ASSUME NEW k \in 0 .. n - 1, h[k] = w[k] PROVE h[k + 1] = w[k + 1]
    <2>1. k + 1 \in 1 .. n /\ (k + 1) - 1 = k
        OBVIOUS
    <2>2. QED  BY <1>3, <1>7, <1>8, <2>1
<1>9. Agree(h, w, 0, n)
    BY <1>3, <1>7, <1>8 DEF Agree
<1>10. h[n] = w[n]
    BY <1>9, FoldUnique
<1>11. Walked(pattern, path, parts, n, P, w)
    BY <1>3, <1>6, <1>10 DEF T, First, Step, Walked
<1>12. QED  BY <1>11

\* A route fits a path of as many parts, each of which fits, and then gives one
\* parameter for each of its holes.
LEMMA MatchIs ==
    ASSUME NEW n \in Nat, NEW pattern, n = Len(pattern), NEW path, NEW parts, parts = Split(path),
           NEW taken, taken = TakenFrom(pattern, parts), NEW holes, holes = HolesOf(pattern, n)
    PROVE  /\ MatchRoute(pattern, path, <<>>).fits <=>
                 Len(parts) = n /\ \A k \in 1 .. n : SegmentFits(pattern[k], parts[k])
           /\ MatchRoute(pattern, path, <<>>).fits =>
                 /\ holes \in Seq(1 .. n)
                 /\ MatchRoute(pattern, path, <<>>).params = [j \in 1 .. Len(holes) |-> taken[holes[j]]]
<1>1. CASE Len(parts) # n
    BY <1>1 DEF MatchRoute
<1>2. CASE Len(parts) = n
    <2>1. PICK P : P = {taken[k] : k \in 1 .. n}
        OBVIOUS
    <2>2. /\ \A k \in 1 .. n : taken[k] = Param(pattern[k], parts[k]) /\ taken[k] \in P
          /\ taken \in [1 .. n -> P]
        BY <2>1 DEF TakenFrom
    <2>3. PICK w : Walked(pattern, path, parts, n, P, w)
        <3>1. \A k \in 1 .. n : Param(pattern[k], parts[k]) \in P
            BY <2>2
        <3>2. Walkable(pattern, path, parts, n, P)
            BY <1>2, <3>1 DEF Walkable
        <3>3. QED  BY <3>2, WalkRecursion
    <2>4. PICK K : K = {k \in 1 .. n : pattern[k].kind # "literal"}
        OBVIOUS
    <2> DEFINE H(i) == Those([k \in 1 .. i |-> k], K)
               Got(i) == [j \in 1 .. Len(H(i)) |-> taken[H(i)[j]]]
               Ok == {i \in Nat : i <= n =>
                         /\ H(i) \in Seq(1 .. n)
                         /\ w[i].fits <=> \A k \in 1 .. i : SegmentFits(pattern[k], parts[k])
                         /\ w[i].fits => w[i].params = Got(i)}
    <2>5. 0 \in Ok
        <3>1. [k \in 1 .. 0 |-> k] = <<>>
            OBVIOUS
        <3>2. H(0) = <<>>
            BY <3>1, ThoseOfNone
        <3>3. Got(0) = <<>>
            BY <3>2
        <3>4. w[0].fits /\ w[0].params = <<>>
            BY <2>3 DEF Walked
        <3>5. \A k \in 1 .. 0 : SegmentFits(pattern[k], parts[k])
            OBVIOUS
        <3>6. H(0) \in Seq(1 .. n)
            <4>1. <<>> \in Seq(1 .. n)
                OBVIOUS
            <4> HIDE DEF H
            <4>2. QED  BY <3>2, <4>1
        <3> HIDE DEF H, Got
        <3>7. QED  BY <3>3, <3>4, <3>5, <3>6
    <2>6. ASSUME NEW i \in Nat, i \in Ok PROVE i + 1 \in Ok
        <3> SUFFICES ASSUME i + 1 <= n
                     PROVE  /\ H(i + 1) \in Seq(1 .. n)
                            /\ w[i + 1].fits <=>
                                  \A k \in 1 .. i + 1 : SegmentFits(pattern[k], parts[k])
                            /\ w[i + 1].fits => w[i + 1].params = Got(i + 1)
            OBVIOUS
        <3>1. /\ H(i) \in Seq(1 .. n)
              /\ w[i].fits <=> \A k \in 1 .. i : SegmentFits(pattern[k], parts[k])
              /\ w[i].fits => w[i].params = Got(i)
            <4>1. i <= n
                OBVIOUS
            <4> HIDE DEF H, Got
            <4>2. QED  BY <2>6, <4>1
        <3>2. i + 1 \in 1 .. n /\ (i + 1) - 1 = i /\ i \in 0 .. n
            OBVIOUS
        <3>3. PICK e \in 1 .. n : e = i + 1
            BY <3>2
        <3>4. PICK s : s = [k \in 1 .. i |-> k] /\ s \in Seq(1 .. n) /\ Len(s) = i
            <4>1. [k \in 1 .. i |-> k] \in [1 .. i -> 1 .. n]
                BY <3>2
            <4>2. QED  BY <4>1, FunctionIsSequence
        <3>5. [k \in 1 .. i + 1 |-> k] = Append(s, e)
            BY <3>3, <3>4, CountingAppend
        <3>6. Those(Append(s, e), K) = IF e \in K THEN Append(Those(s, K), e) ELSE Those(s, K)
            <4>1. PICK S : S = 1 .. n
                OBVIOUS
            <4>2. s \in Seq(S) /\ e \in S
                BY <3>4, <4>1
            <4>3. \A k \in 1 .. Len(s) : k \in K <=> k \in K
                OBVIOUS
            <4>4. Those(Append(s, e), K) = IF Len(s) + 1 \in K THEN Append(Those(s, K), e) ELSE Those(s, K)
                BY ONLY <4>2, <4>3, ThoseAppend
            <4>5. QED  BY <3>3, <3>4, <4>4
        <3>7. PICK h : h = H(i) /\ h \in Seq(1 .. n)
            BY <3>1
        <3>8. H(i + 1) = IF e \in K THEN Append(h, e) ELSE h
            BY <3>4, <3>5, <3>6, <3>7
        <3>9. H(i + 1) \in Seq(1 .. n)
            <4> HIDE DEF H
            <4>1. Append(h, e) \in Seq(1 .. n)
                BY <3>7
            <4>2. QED  BY <3>7, <3>8, <4>1
        <3>10. PICK b : b = w[i] /\ b \in [fits : BOOLEAN, params : Seq(P)]
            BY <2>3, <3>2 DEF Walked
        <3>11. w[i + 1] = WalkOn(b, pattern, parts, e)
            BY <2>3, <3>2, <3>3, <3>10 DEF Walked
        <3>12. e \in K <=> pattern[e].kind # "literal"
            BY <2>4
        <3>13. PICK r \in P : r = Param(pattern[e], parts[e]) /\ r = taken[e]
            BY <2>2
        <3>14. w[i + 1].fits <=> b.fits /\ SegmentFits(pattern[e], parts[e])
            BY <3>10, <3>11 DEF WalkOn
        <3>15. w[i + 1].fits => w[i + 1].params = IF e \in K THEN Append(b.params, r) ELSE b.params
            BY <3>10, <3>11, <3>12, <3>13 DEF WalkOn
        <3>16. Got(i + 1) = IF e \in K THEN Append(Got(i), r) ELSE Got(i)
            <4>1. [j \in 1 .. Len(Append(h, e)) |-> taken[Append(h, e)[j]]] =
                     Append([j \in 1 .. Len(h) |-> taken[h[j]]], r)
                BY <2>2, <3>7, <3>13, LookedUpAppend
            <4> HIDE DEF H
            <4>2. CASE e \in K
                BY <3>7, <3>8, <4>1, <4>2
            <4>3. CASE e \notin K
                BY <3>7, <3>8, <4>3
            <4>4. QED  BY <4>2, <4>3
        <3>17. (\A k \in 1 .. i + 1 : SegmentFits(pattern[k], parts[k])) <=>
                  (\A k \in 1 .. i : SegmentFits(pattern[k], parts[k])) /\ SegmentFits(pattern[e], parts[e])
            BY <3>3
        <3> HIDE DEF H, Got
        <3>18. QED  BY <3>1, <3>9, <3>10, <3>14, <3>15, <3>16, <3>17
    <2>7. \A i \in Nat : i \in Ok
        <3> HIDE DEF Ok
        <3>1. QED  BY <2>5, <2>6, InductionOnSet
    <2>8. /\ H(n) \in Seq(1 .. n)
          /\ w[n].fits <=> \A k \in 1 .. n : SegmentFits(pattern[k], parts[k])
          /\ w[n].fits => w[n].params = Got(n)
        <3>1. n \in Ok
            BY <2>7
        <3> HIDE DEF H, Got
        <3>2. QED  BY <3>1
    <2>9. H(n) = holes
        BY <2>4 DEF HolesOf
    <2>10. QED  BY <1>2, <2>3, <2>8, <2>9 DEF Walked
<1>3. QED  BY <1>1, <1>2

-----------------------------------------------------------------------------
(* All the routes.                                                           *)

\* Route k of the tables takes such a request.
Takes(k, method, path) ==
    app.routes[k].method = method /\ MatchRoute(app.routes[k].pattern, path, <<>>).fits

\* What resolve() may say of the first n routes: the first that takes the request, with
\* the parameters it finds, or none.
Resolved(found, n, method, path) ==
    /\ found.route = 0 => \A j \in 1 .. n : ~Takes(j, method, path)
    /\ found.route # 0 =>
          /\ found.route \in 1 .. n /\ Takes(found.route, method, path)
          /\ \A j \in 1 .. found.route - 1 : ~Takes(j, method, path)
          /\ found.params = MatchRoute(app.routes[found.route].pattern, path, <<>>).params

\* resolve() finds the first route that takes the request, and leaves in params
\* what that route finds, whatever was there before and whatever the routes it
\* tried in vain have found.
THEOREM ResolveIsFirst ==
    ASSUME NEW N \in Nat, N = Len(app.routes), NEW method, NEW path, NEW params
    PROVE  Resolved(Resolve(method, path, params), N, method, path)
<1>1. PICK h : /\ h[0] = [route |-> 0, params |-> params]
               /\ \A k \in 1 .. N : h[k] = TryRoute(h[k - 1], k, method, path)
               /\ Resolve(method, path, params) = h[N]
    BY ResolveRecursion
<1> DEFINE Ok == {k \in Nat : k <= N => Resolved(h[k], k, method, path)}
<1>2. 0 \in Ok
    BY <1>1 DEF Resolved
<1>3. ASSUME NEW k \in Nat, k \in Ok PROVE k + 1 \in Ok
    <2> SUFFICES ASSUME k + 1 <= N PROVE Resolved(h[k + 1], k + 1, method, path)
        OBVIOUS
    <2>1. PICK b : b = h[k] /\ Resolved(b, k, method, path)
        BY <1>3
    <2>2. PICK e \in Nat : e = k + 1 /\ e \in 1 .. N /\ e - 1 = k
        OBVIOUS
    <2>3. h[k + 1] = TryRoute(b, e, method, path)
        BY <1>1, <2>1, <2>2
    <2>4. CASE b.route # 0
        <3>1. h[k + 1] = b
            BY <2>3, <2>4 DEF TryRoute, Skipped
        <3>2. QED  BY <2>1, <2>2, <2>4, <3>1 DEF Resolved
    <2>5. CASE b.route = 0 /\ app.routes[e].method # method
        <3>1. h[k + 1] = b /\ ~Takes(e, method, path)
            BY <2>3, <2>5 DEF TryRoute, Skipped, Takes
        <3>2. \A j \in 1 .. k + 1 : ~Takes(j, method, path)
            BY <2>1, <2>2, <2>5, <3>1 DEF Resolved
        <3>3. QED  BY <2>5, <3>1, <3>2 DEF Resolved
    <2>6. CASE b.route = 0 /\ app.routes[e].method = method
        <3>1. PICK m : m = MatchRoute(app.routes[e].pattern, path, <<>>)
            OBVIOUS
        <3>2. h[k + 1] = [route |-> IF m.fits THEN e ELSE 0, params |-> m.params]
            BY <2>3, <2>6, <3>1 DEF TryRoute, Skipped, Cleared
        <3>3. Takes(e, method, path) <=> m.fits
            BY <2>6, <3>1 DEF Takes
        <3>4. \A j \in 1 .. k : ~Takes(j, method, path)
            BY <2>1, <2>6 DEF Resolved
        <3>5. CASE m.fits
            <4>1. h[k + 1].route = e /\ h[k + 1].params = m.params
                BY <3>2, <3>5
            <4>2. e # 0 /\ e \in 1 .. k + 1 /\ e - 1 = k
                BY <2>2
            <4>3. QED  BY <3>1, <3>3, <3>4, <3>5, <4>1, <4>2 DEF Resolved
        <3>6. CASE ~m.fits
            <4>1. h[k + 1].route = 0
                BY <3>2, <3>6
            <4>2. \A j \in 1 .. k + 1 : ~Takes(j, method, path)
                BY <2>2, <3>3, <3>4, <3>6
            <4>3. QED  BY <4>1, <4>2 DEF Resolved
        <3>7. QED  BY <3>5, <3>6
    <2>7. QED  BY <2>4, <2>5, <2>6
<1>4. \A k \in Nat : k \in Ok
    <2> HIDE DEF Ok
    <2>1. QED  BY <1>2, <1>3, InductionOnSet
<1>5. QED  BY <1>1, <1>4

-----------------------------------------------------------------------------
(* What the application has written.                                         *)

\* A written segment, compiled.
Compiled(w) == [kind |-> KindOf(w.type), text |-> w.text]

\* What is written, in groups or not, is made of sequences of the same parts.
LEMMA EntryTyped ==
    ASSUME NEW entry, IsWritten(entry)
    PROVE  \E W : entry.pattern \in Seq(W) /\ entry.groups \in Seq(Seq(W))
<1>1. PICK groups, pattern : groups = entry.groups /\ pattern = entry.pattern
    OBVIOUS
<1>2. /\ pattern \in Seq(Range(pattern)) /\ groups \in Seq(Range(groups))
      /\ \A j \in DOMAIN groups : groups[j] \in Seq(Range(groups[j]))
    BY <1>1 DEF IsWritten, IsPath
<1>3. PICK W : W = Range(pattern) \cup UNION {Range(groups[j]) : j \in DOMAIN groups}
    OBVIOUS
<1>4. pattern \in Seq(W)
    BY <1>2, <1>3
<1>5. groups \in Seq(Seq(W))
    <2>1. PICK g \in Nat : g = Len(groups) /\ DOMAIN groups = 1 .. g /\ groups = [j \in 1 .. g |-> groups[j]]
        BY <1>2
    <2>2. ASSUME NEW j \in 1 .. g PROVE groups[j] \in Seq(W)
        <3>1. j \in DOMAIN groups
            BY <2>1
        <3>2. PICK s, R : s = groups[j] /\ R = Range(s)
            OBVIOUS
        <3>3. s \in Seq(R)
            BY <1>2, <3>1, <3>2
        <3>4. R \subseteq W
            BY ONLY <1>3, <3>1, <3>2
        <3>5. s \in Seq(W)
            BY ONLY <3>3, <3>4
        <3>6. QED  BY <3>2, <3>5
    <2>3. groups \in [1 .. g -> Seq(W)]
        BY <2>1, <2>2
    <2>4. QED  BY <2>3, FunctionIsSequence
<1>6. QED  BY <1>1, <1>4, <1>5

\* The compiled pattern of a route is made of what was written, groups and all.
LEMMA PatternIs ==
    ASSUME AppInv, NEW k \in 1 .. Len(app.routes)
    PROVE  /\ app.routes[k].method = app.asked.routes[k].method
           /\ \E n \in Nat : /\ n = Len(Written(k))
                             /\ app.routes[k].pattern = [i \in 1 .. n |-> Compiled(Written(k)[i])]
<1>1. PICK a \in Apps : app = Registered(a)
    BY DEF AppInv
<1>2. PICK S : a.routes \in Seq(S)
    BY AppsAssumption
<1>3. PICK m \in Nat : DOMAIN a.routes = 1 .. m
    BY <1>2
<1>4. /\ app.asked = a
      /\ app.routes = [j \in 1 .. m |-> Add(a.routes[j])]
    BY <1>1, <1>3 DEF Registered
<1>5. k \in 1 .. m /\ Len(app.routes) = m
    BY <1>4
<1>6. PICK route : route = a.routes[k]
    OBVIOUS
<1>7. PICK groups, pattern : groups = route.groups /\ pattern = route.pattern
    OBVIOUS
<1>8. IsWritten(route)
    BY <1>3, <1>5, <1>6, AppsAssumption
<1>9. PICK W : pattern \in Seq(W) /\ groups \in Seq(Seq(W))
    BY <1>7, <1>8, EntryTyped
<1>12. PICK words : words = Written(k)
    OBVIOUS
<1>13. words \in Seq(W) /\ words = NonEmpty(FullPath(route))
    <2>1. words = NonEmpty(FlattenSeq(groups) \o pattern)
        BY <1>4, <1>6, <1>7, <1>12 DEF Written
    <2>2. FullPath(route) = Prefix(groups) \o pattern
        BY <1>7 DEF FullPath
    <2>3. QED  BY <1>9, <2>1, <2>2, PrefixFlat
<1>14. PICK n \in Nat : n = Len(words) /\ DOMAIN words = 1 .. n
    BY <1>13
<1>15. app.routes[k] = Add(route)
    BY <1>4, <1>5, <1>6
<1>16. app.routes[k].pattern = [i \in 1 .. n |-> Compiled(words[i])]
    BY <1>13, <1>14, <1>15 DEF Add, ParsePattern, Compiled
<1>17. app.routes[k].method = app.asked.routes[k].method
    BY <1>4, <1>6, <1>15 DEF Add
<1>18. QED  BY <1>12, <1>14, <1>16, <1>17

\* A route takes a request if what was written fits it, and its parameters are
\* those of the holes that were written.
LEMMA TakesIsFits ==
    ASSUME AppInv, NEW k \in 1 .. Len(app.routes), NEW method
    PROVE  /\ Takes(k, method, req.path) <=> Fits(k, method)
           /\ Takes(k, method, req.path) =>
                 MatchRoute(app.routes[k].pattern, req.path, <<>>).params = OwnParams(k, req.path)
<1>1. PICK words, path, parts : words = Written(k) /\ path = req.path /\ parts = Split(path)
    OBVIOUS
<1>2. PICK n \in Nat : n = Len(words)
    BY <1>1, PatternIs
<1>3. PICK pattern : pattern = app.routes[k].pattern
    OBVIOUS
<1>4. /\ pattern = [i \in 1 .. n |-> Compiled(words[i])]
      /\ app.routes[k].method = app.asked.routes[k].method
    BY <1>1, <1>2, <1>3, PatternIs
<1>5. n = Len(pattern)
    BY <1>4
<1>6. \A i \in 1 .. n : /\ pattern[i].text = words[i].text
                        /\ pattern[i].kind = "literal" <=> words[i].type = "literal"
                        /\ pattern[i].kind = "int" <=> words[i].type = "int"
    BY <1>4 DEF Compiled, KindOf
<1>7. PICK taken, holes : taken = TakenFrom(pattern, parts) /\ holes = HolesOf(pattern, n)
    OBVIOUS
<1>8. PICK m : m = MatchRoute(pattern, path, <<>>)
    OBVIOUS
<1>9. /\ m.fits <=> Len(parts) = n /\ \A i \in 1 .. n : SegmentFits(pattern[i], parts[i])
      /\ m.fits => /\ holes \in Seq(1 .. n)
                   /\ m.params = [j \in 1 .. Len(holes) |-> taken[holes[j]]]
    BY <1>1, <1>5, <1>7, <1>8, MatchIs
<1>10. \A i \in 1 .. n :
          SegmentFits(pattern[i], parts[i]) <=>
              /\ words[i].type = "literal" => parts[i] = words[i].text
              /\ words[i].type = "int" => parts[i] \in DOMAIN IntOf
    BY <1>6 DEF SegmentFits
<1>11. Takes(k, method, path) <=> Fits(k, method)
    <2>1. Takes(k, method, path) <=> app.asked.routes[k].method = method /\ m.fits
        BY <1>3, <1>4, <1>8 DEF Takes
    <2>2. Fits(k, method) <=>
              /\ app.asked.routes[k].method = method
              /\ Len(parts) = n
              /\ \A i \in 1 .. n : /\ words[i].type = "literal" => parts[i] = words[i].text
                                   /\ words[i].type = "int" => parts[i] \in DOMAIN IntOf
        BY <1>1, <1>2 DEF Fits
    <2>3. QED  BY <1>9, <1>10, <2>1, <2>2
<1>12. ASSUME m.fits PROVE m.params = OwnParams(k, path)
    <2>1. {i \in 1 .. n : pattern[i].kind # "literal"} = {i \in 1 .. n : words[i].type # "literal"}
        BY <1>6
    <2>2. holes = Those([i \in 1 .. n |-> i], {i \in 1 .. n : words[i].type # "literal"})
        BY <1>7, <2>1 DEF HolesOf
    <2>3. \A i \in 1 .. n :
             taken[i] = [name |-> words[i].text,
                         value |-> IF words[i].type = "int" THEN <<"int", IntOf[parts[i]]>>
                                   ELSE <<"string", parts[i]>>]
        BY <1>5, <1>6, <1>7 DEF TakenFrom, Param
    <2>4. PICK l \in Nat : l = Len(holes) /\ \A j \in 1 .. l : holes[j] \in 1 .. n
        BY <1>9, <1>12
    <2>5. m.params = [j \in 1 .. l |-> taken[holes[j]]]
        BY <1>9, <1>12, <2>4
    <2>6. m.params =
             [j \in 1 .. l |->
                 [name |-> words[holes[j]].text,
                  value |-> IF words[holes[j]].type = "int" THEN <<"int", IntOf[parts[holes[j]]]>>
                            ELSE <<"string", parts[holes[j]]>>]]
        BY <2>3, <2>4, <2>5
    <2>7. OwnParams(k, path) =
             [j \in 1 .. l |->
                 [name |-> words[holes[j]].text,
                  value |-> IF words[holes[j]].type = "int" THEN <<"int", IntOf[parts[holes[j]]]>>
                            ELSE <<"string", parts[holes[j]]>>]]
        BY <1>1, <1>2, <2>2, <2>4 DEF OwnParams
    <2>8. QED  BY <2>6, <2>7
<1>13. Takes(k, method, path) => m.fits
    BY <1>3, <1>8 DEF Takes
<1>14. QED  BY <1>1, <1>3, <1>8, <1>11, <1>12, <1>13

-----------------------------------------------------------------------------
(* The inductive invariant.                                                  *)

ReqInv ==
    req = [method |-> req.method, path |-> req.path, ws |-> req.ws, params |-> req.params,
           etag |-> req.etag, date |-> req.date]

\* The mounts are asked only when no route fits.
NothingFits == NoFit(req.method) /\ (req.method = "HEAD" => NoFit("GET"))
MissedInv == pc = "files" => NothingFits

RouterInv == ReqInv /\ MissedInv /\ RightHandler /\ ParamsOwn

\* Route k is the one for the request.
RouteFor(k) ==
    \/ FirstFit(k, req.method)
    \/ req.method = "HEAD" /\ NoFit("HEAD") /\ FirstFit(k, "GET")

\* What fits depends on what is registered, on the method and on the path.
LEMMA FitsSame ==
    ASSUME UNCHANGED app, req'.path = req.path, req'.method = req.method
    PROVE  /\ NothingFits' <=> NothingFits
           /\ \A k : RouteFor(k)' <=> RouteFor(k)
           /\ \A k, path : OwnParams(k, path)' = OwnParams(k, path)
<1>1. \A k, method : Fits(k, method)' <=> Fits(k, method)
    BY DEF Fits, Written
<1>2. \A method : NoFit(method)' <=> NoFit(method)
    BY <1>1 DEF NoFit
<1>3. \A k, method : FirstFit(k, method)' <=> FirstFit(k, method)
    BY <1>1 DEF FirstFit
<1>4. NothingFits' <=> NothingFits
    BY <1>2 DEF NothingFits
<1>5. \A k : RouteFor(k)' <=> RouteFor(k)
    BY <1>2, <1>3 DEF RouteFor
<1>6. \A k, path : OwnParams(k, path)' = OwnParams(k, path)
    BY DEF OwnParams, Written
<1>7. QED  BY <1>4, <1>5, <1>6

\* ParamsOwn, with its arguments named.
ParamsAt ==
    \A k, path :
        RouteEntered /\ k = Top.chain /\ path = req.path => req.params = OwnParams(k, path)

\* It says the same.
LEMMA ParamsOwnIs == ParamsOwn <=> ParamsAt
BY DEF ParamsOwn, ParamsAt

\* The invariant holds again if a route that is entered is the one for the request and has
\* its parameters, and if what is missed and the 404 are still for want of a route.
LEMMA RouterNext ==
    ASSUME UNCHANGED app, req'.path = req.path, req'.method = req.method, ReqInv',
           RouteEntered' => RouteFor(Top'.chain) /\ req'.params = OwnParams(Top'.chain, req.path),
           pc' = "files" \/ value'.by[1] = "notFound" => NothingFits
    PROVE  RouterInv'
<1>1. MissedInv'
    BY FitsSame DEF MissedInv
<1>2. PICK c, p : c = Top'.chain /\ p = req'.path /\ p = req.path
    OBVIOUS
<1>3. RouteEntered' => RouteFor(c)'
    BY <1>2, FitsSame
<1>4. value'.by[1] = "notFound" => NothingFits'
    BY FitsSame
<1>5. RightHandler'
    BY <1>2, <1>3, <1>4 DEF RightHandler, RouteFor, NothingFits
<1>6. RouteEntered' => req'.params = OwnParams(c, p)'
    BY <1>2, FitsSame
<1>7. ParamsOwn'
    <2>1. ParamsOwn' <=> ParamsAt'
        BY ParamsOwnIs, PTL
    <2>2. ParamsAt'
        BY <1>2, <1>6 DEF ParamsAt
    <2>3. QED  BY <2>1, <2>2
<1>8. QED  BY <1>1, <1>5, <1>7 DEF RouterInv

\* Before the first request is looked up, it holds.
LEMMA RouterInit == Init => RouterInv
<1> SUFFICES ASSUME Init PROVE RouterInv
    OBVIOUS
<1>1. PICK r : req = [method |-> r.method, path |-> r.path, ws |-> r.ws, params |-> <<>>,
                      etag |-> <<>>, date |-> <<>>]
    BY DEF Init
<1>2. PICK none : none = <<>>
    OBVIOUS
<1>3. req = [method |-> r.method, path |-> r.path, ws |-> r.ws, params |-> none,
             etag |-> none, date |-> none]
    BY <1>1, <1>2
<1>4. ReqInv
    BY <1>3 DEF ReqInv
<1>5. pc = "lookup" /\ value.by = <<"nobody", 0>>
    BY DEF Init, Nothing
<1>6. value.by[1] # "notFound"
    BY <1>5
<1>7. QED  BY <1>4, <1>5, <1>6 DEF RouterInv, MissedInv, RightHandler, ParamsOwn, RouteEntered

-----------------------------------------------------------------------------
(* Every step keeps it.                                                      *)

\* Of two that are put behind a sequence, the second is the last.
LEMMA LastOfPair ==
    ASSUME NEW S, NEW s, s \in Seq(S), NEW a, NEW b
    PROVE  Last(s \o <<a, b>>) = b
<1>1. PICK T : T = S \cup {a, b}
    OBVIOUS
<1>2. s \in Seq(T) /\ a \in T /\ b \in T
    BY <1>1
<1>3. PICK g \in Seq(T) : g = <<a, b>> /\ Len(g) = 2 /\ g[2] = b
    <2>1. PICK x \in T, y \in T : x = a /\ y = b
        BY <1>2
    <2>2. <<x, y>> \in Seq(T) /\ Len(<<x, y>>) = 2 /\ <<x, y>>[2] = y
        OBVIOUS
    <2>3. QED  BY <2>1, <2>2
<1>4. PICK n \in Nat : n = Len(s)
    BY <1>2
<1>5. /\ Len(s \o g) = n + 2
      /\ \A k \in 1 .. n + 2 : (s \o g)[k] = IF k <= n THEN s[k] ELSE g[k - n]
    BY <1>2, <1>3, <1>4
<1>6. n + 2 \in 1 .. n + 2 /\ ~(n + 2 <= n) /\ (n + 2) - n = 2
    OBVIOUS
<1>7. (s \o g)[n + 2] = b
    BY <1>3, <1>5, <1>6
<1>8. QED  BY <1>3, <1>5, <1>7 DEF Last

\* What is appended is the last.
LEMMA LastOfAppend ==
    ASSUME NEW S, NEW s, s \in Seq(S), NEW b
    PROVE  Last(Append(s, b)) = b
<1>1. PICK T : T = S \cup {b}
    OBVIOUS
<1>2. s \in Seq(T) /\ b \in T
    BY <1>1
<1>3. Len(Append(s, b)) = Len(s) + 1 /\ Append(s, b)[Len(s) + 1] = b
    BY <1>2
<1>4. QED  BY <1>3 DEF Last

\* A lookup finds the first route that was written for such a request, and its own
\* parameters, or there is none.
LEMMA LookupIs ==
    ASSUME AppInv, NEW method, NEW params, NEW found, found = Resolve(method, req.path, params)
    PROVE  /\ found.route \in 0 .. Len(app.routes)
           /\ found.route = 0 => NoFit(method)
           /\ found.route # 0 =>
                 /\ FirstFit(found.route, method)
                 /\ found.params = OwnParams(found.route, req.path)
<1>1. PICK N \in Nat : N = Len(app.routes)
    BY AppTyped
<1>2. PICK path : path = req.path
    OBVIOUS
<1>3. Resolved(found, N, method, path)
    BY <1>1, <1>2, ResolveIsFirst
<1>4. \A k \in 1 .. N : Takes(k, method, path) <=> Fits(k, method)
    BY <1>1, <1>2, TakesIsFits
<1>5. found.route = 0 => NoFit(method)
    BY <1>1, <1>3, <1>4 DEF Resolved, NoFit
<1>6. ASSUME found.route # 0
      PROVE  /\ found.route \in 1 .. N /\ FirstFit(found.route, method)
             /\ found.params = OwnParams(found.route, path)
    <2>1. PICK k \in 1 .. N :
             /\ k = found.route /\ Takes(k, method, path)
             /\ \A j \in 1 .. k - 1 : ~Takes(j, method, path)
             /\ found.params = MatchRoute(app.routes[k].pattern, path, <<>>).params
        BY <1>3, <1>6 DEF Resolved
    <2>2. \A j \in 1 .. k - 1 : j \in 1 .. N
        OBVIOUS
    <2>3. FirstFit(k, method)
        BY <1>4, <2>1, <2>2 DEF FirstFit
    <2>4. found.params = OwnParams(k, path)
        BY <1>1, <1>2, <2>1, TakesIsFits
    <2>5. QED  BY <2>1, <2>3, <2>4
<1>7. found.route \in 0 .. N
    BY <1>6
<1>8. QED  BY <1>1, <1>2, <1>5, <1>6, <1>7

\* The lookups of dispatch() that find nothing.
LEMMA NothingFound ==
    ASSUME AppInv, Direct.route = 0, req.method = "HEAD" => AsGet.route = 0
    PROVE  NothingFits
<1>1. PICK method, params : method = req.method /\ params = req.params
    OBVIOUS
<1>2. Direct = Resolve(method, req.path, params)
    BY <1>1 DEF Direct
<1>3. NoFit(method)
    BY <1>2, LookupIs
<1>4. PICK left : left = Direct.params
    OBVIOUS
<1>5. AsGet = Resolve("GET", req.path, left)
    BY <1>4 DEF AsGet
<1>6. req.method = "HEAD" => NoFit("GET")
    BY <1>5, LookupIs
<1>7. QED  BY <1>1, <1>3, <1>6 DEF NothingFits

\* The request, with other parameters.
LEMMA NewParams ==
    ASSUME ReqInv, NEW params, req' = [req EXCEPT !.params = params]
    PROVE  /\ ReqInv' /\ req'.path = req.path /\ req'.method = req.method /\ req'.params = params
           /\ req'.etag = req.etag /\ req'.date = req.date
<1>1. req' = [method |-> req.method, path |-> req.path, ws |-> req.ws, params |-> params,
              etag |-> req.etag, date |-> req.date]
    BY DEF ReqInv
<1>2. QED  BY <1>1 DEF ReqInv

\* What is given back is no 404, or nothing fits.
LEMMA LeaveRouter ==
    ASSUME UNCHANGED app, req'.path = req.path, req'.method = req.method, ReqInv',
           NEW v, NEW outcome \in {"returned", "thrown"}, Leave(v, outcome),
           v.by[1] = "notFound" => NothingFits
    PROVE  RouterInv'
<1>1. pc' \in {"returned", "thrown", "done", "failed"} /\ value' = v
    BY DEF Leave
<1>2. ~RouteEntered' /\ pc' # "files"
    BY <1>1 DEF RouteEntered
<1>3. QED  BY <1>1, <1>2, RouterNext

\* Steps that leave the request as it was and enter no route.
LEMMA QuietRouter ==
    ASSUME RouterInv, UNCHANGED <<app, req>>,
           \/ UNCHANGED <<stack, pc, value>>
           \/ pc' \in {"streaming", "done", "running"} /\ value' \in {value, Nothing}
    PROVE  RouterInv'
<1>1. ReqInv'
    BY DEF RouterInv, ReqInv
<1>2. CASE UNCHANGED <<stack, pc, value>>
    <2>1. PICK c, p : c = Top.chain /\ p = req.path
        OBVIOUS
    <2>2. Top' = Top /\ (RouteEntered' <=> RouteEntered)
        BY <1>2 DEF RouteEntered, Top, Last
    <2>3. RouteEntered => RouteFor(c)
        BY <2>1 DEF RouterInv, RightHandler, RouteFor
    <2>4. RouteEntered => req.params = OwnParams(c, p)
        BY <2>1 DEF RouterInv, ParamsOwn
    <2>5. pc' = "files" \/ value'.by[1] = "notFound" => NothingFits
        BY <1>2 DEF RouterInv, MissedInv, RightHandler, NothingFits
    <2>6. QED  BY <1>1, <2>1, <2>2, <2>3, <2>4, <2>5, RouterNext
<1>3. CASE pc' \in {"streaming", "done", "running"} /\ value' \in {value, Nothing}
    <2>1. ~RouteEntered' /\ pc' # "files"
        BY <1>3 DEF RouteEntered
    <2>2. Nothing.by = <<"nobody", 0>>
        BY DEF Nothing
    <2>3. value'.by[1] = "notFound" => value' = value
        BY <1>3, <2>2
    <2>4. value'.by[1] = "notFound" => NothingFits
        BY <2>3 DEF RouterInv, RightHandler, NothingFits
    <2>5. QED  BY <1>1, <2>1, <2>4, RouterNext
<1>4. QED  BY <1>2, <1>3

\* No route is entered when what is called is not the first of its chain, whatever
\* has become of the request.
LEMMA CallInside ==
    ASSUME UNCHANGED app, ReqInv', NEW frames, Call(frames),
           Last(frames).chain = 0 \/ Last(frames).pos # 1
    PROVE  RouterInv'
<1>1. stack' = frames /\ value' = Nothing /\ pc' \in {"enter", "crashed"}
    BY DEF Call
<1>2. ~RouteEntered'
    BY <1>1 DEF RouteEntered, Top, Last
<1>3. value'.by = <<"nobody", 0>>
    BY <1>1 DEF Nothing
<1>4. value'.by[1] # "notFound" /\ pc' # "files"
    BY <1>1, <1>3
<1>5. MissedInv' /\ ParamsOwn' /\ RightHandler'
    BY <1>2, <1>4 DEF MissedInv, ParamsOwn, RightHandler
<1>6. QED  BY <1>5 DEF RouterInv

\* The first call of a request, and a layer's calls of next.
LEMMA NextRouter ==
    ASSUME IInv, RouterInv, Handle \/ CallNext \/ HandOn
    PROVE  RouterInv'
<1>1. AppInv /\ WellStacked(stack) /\ ControlInv /\ ReqInv
    BY DEF IInv, RouterInv
<1>2. CASE Handle
    <2>1. PICK frames : frames = <<Frame(0, 1)>>
        OBVIOUS
    <2>2. Last(frames) = Frame(0, 1)
        BY <2>1 DEF Last
    <2>3. Last(frames).chain = 0
        BY <2>2 DEF Frame
    <2>4. Call(frames) /\ UNCHANGED app /\ ReqInv'
        BY <1>1, <1>2, <2>1 DEF Handle, ReqInv
    <2>5. QED  BY <2>3, <2>4, CallInside
<1>3. CASE CallNext \/ HandOn
    <2>1. /\ pc = "running" /\ EnterNext /\ UNCHANGED app
        BY <1>3 DEF CallNext, HandOn
    <2>2. stack # <<>>
        BY <1>1, <2>1 DEF ControlInv
    <2>3. ReqInv'
        <3>1. CASE HandOn
            BY <1>1, <3>1 DEF HandOn, ReqInv
        <3>2. CASE CallNext
            <4>1. PICK method, path : req' = [req EXCEPT !.method = method, !.path = path]
                BY <3>2 DEF CallNext
            <4>2. PICK r : r = [req EXCEPT !.method = method]
                OBVIOUS
            <4>3. r = [method |-> method, path |-> req.path, ws |-> req.ws, params |-> req.params,
                       etag |-> req.etag, date |-> req.date]
                BY <1>1, <4>2 DEF ReqInv
            <4>4. req' = [r EXCEPT !.path = path]
                BY <4>1, <4>2
            <4>5. req' = [method |-> method, path |-> path, ws |-> r.ws, params |-> r.params,
                          etag |-> r.etag, date |-> r.date]
                BY <4>3, <4>4
            <4>6. QED  BY <4>5 DEF ReqInv
        <3>3. QED  BY <1>3, <3>1, <3>2
    <2>4. Top.pos >= 1 /\ Top.pos \in Nat
        <3>1. PICK n \in Nat, i \in Nat : n = Len(stack) /\ i = Inside /\ n \in 1 .. Len(stack)
                                           /\ n >= 1 /\ i >= 1 /\ Top = stack[n]
            BY <1>1, <2>2, TopIs
        <3>2. n <= i => Top.pos = n
            BY <1>1, <3>1 DEF WellStacked
        <3>3. n > i => Top.pos = n - i
            BY <1>1, <3>1, CodeAt
        <3>4. QED  BY <3>1, <3>2, <3>3
    <2>5. PICK c, p : c = Top.chain /\ p = Top.pos + 1 /\ p # 1
        BY <2>4
    <2>6. PICK self : self = [Top EXCEPT !.calls = @ + 1]
        OBVIOUS
    <2>7. PICK S : Front(stack) \in Seq(S)
        BY <1>1, <2>2, Popped DEF WellStacked
    <2>8. PICK f, e : f = Front(stack) /\ e = Frame(c, p)
        OBVIOUS
    <2>9. PICK frames : frames = f \o <<self, e>>
        OBVIOUS
    <2>10. Last(frames) = e
        BY <2>7, <2>8, <2>9, LastOfPair
    <2>11. Last(frames).pos # 1
        BY <2>5, <2>8, <2>10 DEF Frame
    <2>12. Call(frames)
        BY <2>1, <2>5, <2>6, <2>8, <2>9 DEF EnterNext
    <2>13. QED  BY <2>1, <2>3, <2>11, <2>12, CallInside
<1>4. QED  BY <1>2, <1>3

\* dispatch() that calls the route it has found.
LEMMA EnterRoute ==
    ASSUME UNCHANGED app, ReqInv', req'.path = req.path, req'.method = req.method,
           NEW frames, Call(frames), NEW route, Last(frames) = Frame(route, 1),
           RouteFor(route), req'.params = OwnParams(route, req.path)
    PROVE  RouterInv'
<1>1. stack' = frames /\ value' = Nothing /\ pc' \in {"enter", "crashed"}
    BY DEF Call
<1>2. Top' = Frame(route, 1)
    BY <1>1 DEF Top, Last
<1>3. Top'.chain = route
    BY <1>2 DEF Frame
<1>4. value'.by = <<"nobody", 0>>
    BY <1>1 DEF Nothing
<1>5. value'.by[1] # "notFound" /\ pc' # "files"
    BY <1>1, <1>4
<1>6. QED  BY <1>3, <1>5, RouterNext

\* What dispatch() calls.
LEMMA DispatchRouter ==
    ASSUME IInv, RouterInv, CallRoute \/ CallGetRoute
    PROVE  RouterInv'
<1>1. AppInv /\ WellStacked(stack) /\ ControlInv /\ ReqInv
    BY DEF IInv, RouterInv
<1>2. stack # <<>> /\ UNCHANGED app
    BY <1>1 DEF CallRoute, CallGetRoute, AtDispatch, ControlInv
<1>3. PICK method, params, direct :
         method = req.method /\ params = req.params /\ direct = Direct
    OBVIOUS
<1>4. direct = Resolve(method, req.path, params)
    BY <1>3 DEF Direct
<1>5. PICK left, get : left = Direct.params /\ get = AsGet
    OBVIOUS
<1>6. get = Resolve("GET", req.path, left)
    BY <1>5 DEF AsGet
<1>7. Len(app.routes) \in Nat
    BY <1>1, AppTyped
<1>8. CASE CallRoute
    <2>1. direct.route # 0
        BY <1>1, <1>3, <1>4, <1>7, <1>8, LookupIs DEF CallRoute
    <2>2. PICK route, own : route = direct.route /\ own = direct.params
        OBVIOUS
    <2>3. FirstFit(route, method) /\ own = OwnParams(route, req.path)
        BY <1>1, <1>4, <2>1, <2>2, LookupIs
    <2>4. req' = [req EXCEPT !.params = own]
        BY <1>3, <1>8, <2>2 DEF CallRoute
    <2>5. ReqInv' /\ req'.path = req.path /\ req'.method = req.method /\ req'.params = own
        BY <1>1, <2>4, NewParams
    <2>6. PICK e, frames : e = Frame(route, 1) /\ frames = Append(stack, e)
        OBVIOUS
    <2>7. Last(frames) = e
        <3>1. PICK S : stack \in Seq(S)
            BY <1>1 DEF WellStacked
        <3>2. QED  BY <2>6, <3>1, LastOfAppend
    <2>8. Call(frames)
        BY <1>3, <1>8, <2>2, <2>6 DEF CallRoute
    <2>9. RouteFor(route)
        BY <1>3, <2>3 DEF RouteFor
    <2>10. QED  BY <1>2, <2>3, <2>5, <2>6, <2>7, <2>8, <2>9, EnterRoute
<1>9. CASE CallGetRoute
    <2>1. direct.route = 0 /\ method = "HEAD" /\ get.route # 0
        BY <1>3, <1>5, <1>7, <1>9 DEF CallGetRoute
    <2>2. NoFit(method)
        BY <1>1, <1>4, <2>1, LookupIs
    <2>3. PICK route, own : route = get.route /\ own = get.params
        OBVIOUS
    <2>4. FirstFit(route, "GET") /\ own = OwnParams(route, req.path)
        BY <1>1, <1>6, <2>1, <2>3, LookupIs
    <2>5. req' = [req EXCEPT !.params = own]
        BY <1>5, <1>9, <2>3 DEF CallGetRoute
    <2>6. ReqInv' /\ req'.path = req.path /\ req'.method = req.method /\ req'.params = own
        BY <1>1, <2>5, NewParams
    <2>7. PICK self, f, e : /\ self = [Top EXCEPT !.fallback = TRUE]
                            /\ f = Front(stack) /\ e = Frame(route, 1)
        OBVIOUS
    <2>8. PICK frames : frames = f \o <<self, e>>
        OBVIOUS
    <2>9. Last(frames) = e
        <3>1. PICK S : Front(stack) \in Seq(S)
            BY <1>1, <1>2, Popped DEF WellStacked
        <3>2. QED  BY <2>7, <2>8, <3>1, LastOfPair
    <2>10. Call(frames)
        BY <1>5, <1>9, <2>3, <2>7, <2>8 DEF CallGetRoute
    <2>11. RouteFor(route)
        BY <1>3, <2>1, <2>2, <2>4 DEF RouteFor
    <2>12. QED  BY <1>2, <2>4, <2>6, <2>7, <2>9, <2>10, <2>11, EnterRoute
<1>10. QED  BY <1>8, <1>9

\* dispatch() goes to the mounts, or gives up, only if its lookups have found nothing.
LEMMA MissedRouter ==
    ASSUME IInv, RouterInv, TryFiles \/ NotFound
    PROVE  RouterInv'
<1>1. AppInv /\ ReqInv /\ MissedInv
    BY DEF IInv, RouterInv
<1>2. ASSUME NoRoute
      PROVE  /\ NothingFits /\ UNCHANGED app /\ ReqInv'
             /\ req'.path = req.path /\ req'.method = req.method
    <2>1. NothingFits
        BY <1>1, <1>2, NothingFound DEF NoRoute
    <2>2. PICK params : req' = [req EXCEPT !.params = params]
        BY <1>2 DEF NoRoute
    <2>3. QED  BY <1>1, <1>2, <2>1, <2>2, NewParams DEF NoRoute
<1>3. CASE TryFiles
    <2>1. NoRoute /\ pc' = "files"
        BY <1>3 DEF TryFiles
    <2>2. ~RouteEntered'
        BY <2>1 DEF RouteEntered
    <2>3. QED  BY <1>2, <2>1, <2>2, RouterNext
<1>4. CASE NotFound
    <2>1. PICK v : v = Response(<<"notFound", 0>>, Text(404, 1)) /\ Leave(v, "returned")
        BY <1>4 DEF NotFound
    <2>2. PICK outcome \in {"returned", "thrown"} : outcome = "returned"
        OBVIOUS
    <2>3. /\ NothingFits /\ UNCHANGED app /\ ReqInv'
          /\ req'.path = req.path /\ req'.method = req.method
        <3>1. CASE NoRoute
            BY <1>2, <3>1
        <3>2. CASE pc = "files" /\ UNCHANGED <<app, req>>
            BY <1>1, <3>2 DEF MissedInv, ReqInv
        <3>3. QED  BY <1>4, <3>1, <3>2 DEF NotFound
    <2>4. QED  BY <2>1, <2>2, <2>3, LeaveRouter
<1>5. QED  BY <1>3, <1>4

\* What is given back by others than the 404 is not one, or was one.
LEMMA ReturnsRouter ==
    ASSUME IInv, RouterInv,
           \/ Answer \/ Throw \/ AnswerPreflight \/ HandBack \/ NextThrows
           \/ ServeFile \/ SearchThrows \/ HandlerReturns \/ HandlerThrows
    PROVE  RouterInv'
<1>1. IsValue(value) /\ UNCHANGED <<app, req>>
    BY DEF IInv, Answer, Throw, AnswerPreflight, HandBack, NextThrows, ServeFile, SearchThrows,
           HandlerReturns, HandlerThrows
<1>2. ReqInv'
    BY <1>1 DEF RouterInv, ReqInv
<1>3. value.by[1] = "notFound" => NothingFits
    BY DEF RouterInv, RightHandler, NothingFits
<1>4. PICK old : old = value
    OBVIOUS
<1>5. \A f : Author(f)[1] # "notFound"
    BY DEF Author
<1>6. CASE pc' = "running" /\ value' = Nothing
    BY <1>1, <1>6, QuietRouter
<1>7. ASSUME NEW v, NEW by, v.by = by, by[1] # "notFound" \/ by = old.by,
             NEW outcome \in {"returned", "thrown"}, Leave(v, outcome)
      PROVE  RouterInv'
    <2>1. v.by[1] = "notFound" => NothingFits
        BY <1>3, <1>4, <1>7
    <2>2. QED  BY <1>1, <1>2, <1>7, <2>1, LeaveRouter
<1>8. (pc' = "running" /\ value' = Nothing)
      \/ \E v, by : /\ v.by = by /\ (by[1] # "notFound" \/ by = old.by)
                    /\ Leave(v, "returned") \/ Leave(v, "thrown")
    <2>1. CASE Answer
        <3>1. CASE Leave(value, "returned")
            BY <1>4, <3>1
        <3>2. CASE \E res \in Made(Top) : Leave(Response(Author(Top), res), "returned")
            <4>1. PICK res, by, v : /\ by = Author(Top) /\ v = Response(by, res)
                                    /\ Leave(v, "returned")
                BY <3>2
            <4>2. v.by = by
                BY <4>1, ResponseIsValue
            <4>3. QED  BY <1>5, <4>1, <4>2
        <3>3. QED  BY <2>1, <3>1, <3>2 DEF Answer
    <2>2. CASE Throw
        <3>1. PICK kind, by, v : /\ by = Author(Top) /\ v = Exception(kind, by)
                                 /\ Leave(v, "thrown")
            BY <2>2 DEF Throw
        <3>2. v.by = by
            BY <3>1, ExceptionIsValue
        <3>3. QED  BY <1>5, <3>1, <3>2
    <2>3. CASE AnswerPreflight
        <3>1. PICK by, text, w, v : /\ by = Author(Top) /\ text = Text(204, 0)
                                    /\ w = Response(by, text) /\ v = Stamped(w)
                                    /\ Leave(v, "returned")
            BY <2>3 DEF AnswerPreflight
        <3>2. w.by = by /\ IsValue(w)
            BY <3>1, TextIsResponse, ResponseIsValue
        <3>3. v.by = by
            BY <3>1, <3>2, StampedIsValue
        <3>4. QED  BY <1>5, <3>1, <3>3
    <2>4. CASE HandBack
        <3>1. Leave(old, "returned") \/ Leave(Stamped(old), "returned")
            BY <1>4, <2>4 DEF HandBack
        <3>2. Stamped(old).by = old.by
            BY <1>1, <1>4, StampedIsValue
        <3>3. PICK v : v.by = old.by /\ Leave(v, "returned")
            BY <3>1, <3>2
        <3>4. QED  BY <3>3
    <2>5. CASE NextThrows
        BY <1>4, <2>5 DEF NextThrows
    <2>6. CASE ServeFile
        <3>1. PICK by, text, file, v : /\ by = <<"file", 0>>
                                       /\ v = [Response(by, text) EXCEPT !.file = file]
                                       /\ Leave(v, "returned")
            BY <2>6 DEF ServeFile
        <3>2. PICK r : r = Response(by, text) /\ r.by = by
            BY ResponseIsValue
        <3>3. v.by = by
            BY <3>1, <3>2
        <3>4. QED  BY <3>1, <3>3
    <2>7. CASE SearchThrows
        <3>1. PICK by, kind, v : /\ by = <<"file", 0>> /\ v = Exception(kind, by)
                                 /\ Leave(v, "thrown")
            BY <2>7 DEF SearchThrows
        <3>2. v.by = by
            BY <3>1, ExceptionIsValue
        <3>3. QED  BY <3>1, <3>2
    <2>8. CASE HandlerReturns
        <3>1. PICK v : /\ Leave(v, "returned")
                       /\ v = value \/ v = [value EXCEPT !.res.body = NoneOf(@)]
            BY <2>8 DEF HandlerReturns
        <3>2. v.by = old.by
            BY <1>1, <1>4, <3>1 DEF IsValue
        <3>3. QED  BY <3>1, <3>2
    <2>9. CASE HandlerThrows
        <3>1. CASE Leave(value, "thrown")
            BY <1>4, <3>1
        <3>2. CASE ~Leave(value, "thrown")
            <4>1. PICK i, by, text, v : /\ by = <<"error", i>> /\ v = Response(by, text)
                                        /\ Leave(v, "returned")
                BY <2>9, <3>2 DEF HandlerThrows
            <4>2. v.by = by
                BY <4>1, ResponseIsValue
            <4>3. QED  BY <4>1, <4>2
        <3>3. QED  BY <3>1, <3>2
    <2>10. QED  BY <2>1, <2>2, <2>3, <2>4, <2>5, <2>6, <2>7, <2>8, <2>9
<1>9. CASE \E v, by : /\ v.by = by /\ (by[1] # "notFound" \/ by = old.by)
                      /\ Leave(v, "returned") \/ Leave(v, "thrown")
    <2>1. PICK v, by : /\ v.by = by /\ (by[1] # "notFound" \/ by = old.by)
                       /\ Leave(v, "returned") \/ Leave(v, "thrown")
        BY <1>9
    <2>2. PICK outcome \in {"returned", "thrown"} : Leave(v, outcome)
        BY <2>1
    <2>3. QED  BY <1>7, <2>1, <2>2
<1>10. QED  BY <1>6, <1>8, <1>9

\* The client's next request is the same, with some of the validators it was sent.
LEMMA AskedAgain ==
    ASSUME ReqInv, Revalidate
    PROVE  /\ ReqInv' /\ req'.path = req.path /\ req'.method = req.method
           /\ req'.etag = <<>> \/ req'.etag = value.file.etag
           /\ req'.date = <<>> \/ req'.date = value.file.date
<1>1. PICK etag, date, none :
         /\ etag \in {<<>>, value.file.etag} /\ date \in {<<>>, value.file.date} /\ none = <<>>
         /\ req' = [req EXCEPT !.params = none, !.etag = etag, !.date = date]
    <2>1. PICK etag \in {<<>>, value.file.etag}, date \in {<<>>, value.file.date} :
             req' = [req EXCEPT !.params = <<>>, !.etag = etag, !.date = date]
        BY Zenon DEF Revalidate
    <2>2. PICK none : none = <<>>
        OBVIOUS
    <2>3. req' = [req EXCEPT !.params = none, !.etag = etag, !.date = date]
        BY <2>1, <2>2, Zenon
    <2>4. QED  BY <2>2, <2>3
<1>2. PICK r : r = [req EXCEPT !.params = none]
    OBVIOUS
<1>3. r = [method |-> req.method, path |-> req.path, ws |-> req.ws, params |-> none,
           etag |-> req.etag, date |-> req.date]
    BY <1>2 DEF ReqInv
<1>4. PICK s : s = [r EXCEPT !.etag = etag]
    OBVIOUS
<1>5. s = [method |-> req.method, path |-> req.path, ws |-> req.ws, params |-> none,
           etag |-> etag, date |-> req.date]
    BY <1>3, <1>4
<1>6. req' = [s EXCEPT !.date = date]
    BY <1>1, <1>2, <1>4
<1>7. req' = [method |-> req.method, path |-> req.path, ws |-> req.ws, params |-> none,
              etag |-> etag, date |-> date]
    BY <1>5, <1>6
<1>8. ReqInv' /\ req'.path = req.path /\ req'.method = req.method
    BY <1>7 DEF ReqInv
<1>9. req'.etag = etag /\ req'.date = date
    BY <1>7
<1>10. QED  BY <1>1, <1>8, <1>9

\* Every step keeps it.
LEMMA RouterStep == IInv /\ RouterInv /\ [Next]_vars => RouterInv'
<1> SUFFICES ASSUME IInv, RouterInv, [Next]_vars PROVE RouterInv'
    OBVIOUS
<1>1. CASE UNCHANGED vars \/ Terminated \/ SearchFile \/ EditFile
    BY <1>1, QuietRouter DEF vars, Terminated, SearchFile, EditFile
<1>2. CASE OpenStream \/ StreamEnds \/ Enter \/ NextReturns
    BY <1>2, QuietRouter DEF OpenStream, StreamEnds, Enter, NextReturns
<1>3. CASE Handle \/ CallNext \/ HandOn
    BY <1>3, NextRouter
<1>4. CASE CallRoute \/ CallGetRoute
    BY <1>4, DispatchRouter
<1>5. CASE TryFiles \/ NotFound
    BY <1>5, MissedRouter
<1>6. CASE \/ Answer \/ Throw \/ AnswerPreflight \/ HandBack \/ NextThrows
           \/ ServeFile \/ SearchThrows \/ HandlerReturns \/ HandlerThrows
    BY <1>6, ReturnsRouter
<1>7. CASE Revalidate
    <2>1. ReqInv' /\ req'.path = req.path /\ req'.method = req.method
        BY <1>7, AskedAgain DEF RouterInv
    <2>2. pc' = "lookup" /\ value' = Nothing /\ UNCHANGED app
        BY <1>7 DEF Revalidate
    <2>3. ~RouteEntered' /\ value'.by = <<"nobody", 0>>
        BY <2>2 DEF RouteEntered, Nothing
    <2>4. value'.by[1] # "notFound"
        BY <2>3
    <2>5. QED  BY <2>1, <2>2, <2>3, <2>4, RouterNext
<1>8. QED  BY <1>1, <1>2, <1>3, <1>4, <1>5, <1>6, <1>7 DEF Next

-----------------------------------------------------------------------------
(* The theorems.                                                             *)

\* The invariant, next to that of the chain: what is not found is not found for
\* want of a route, also once the mounts have been asked.
LEMMA RouterInvariance == Spec => []RouterInv
<1>1. QED  BY RouterInit, RouterStep, Invariance, PTL DEF Spec

\* Whatever is registered, in groups or not, and whatever the middleware makes of
\* the request: the route that runs is the first that was written for it, a GET route
\* runs for HEAD only if no HEAD route fits, and 404 is the answer only if none does.
THEOREM RightHandlerAlways == Spec => []RightHandler
<1>1. RouterInv => RightHandler
    BY DEF RouterInv
<1>2. QED  BY <1>1, RouterInvariance, PTL

\* A route gets one parameter for each hole that was written, from the path it is called
\* for, and nothing that earlier attempts or earlier calls of next have left.
THEOREM ParamsOwnAlways == Spec => []ParamsOwn
<1>1. RouterInv => ParamsOwn
    BY DEF RouterInv
<1>2. QED  BY <1>1, RouterInvariance, PTL

-----------------------------------------------------------------------------
(* Paths with no empty part.                                                 *)

\* No part of it is empty.
Solid(s) == \A k \in DOMAIN s : s[k] # Empty

\* Such a path is all there is to it.
LEMMA SolidSame ==
    ASSUME NEW S, NEW s, s \in Seq(S), Solid(s)
    PROVE  NonEmpty(s) = s
<1>1. PICK n \in Nat : n = Len(s) /\ DOMAIN s = 1 .. n
    OBVIOUS
<1> DEFINE Cut(k) == SubSeq(s, 1, k)
           Ok == {k \in Nat : k <= n => NonEmpty(Cut(k)) = Cut(k)}
<1>2. Cut(0) = <<>> /\ Cut(n) = s
    BY <1>1
<1>3. 0 \in Ok
    <2>1. PICK none : none = <<>>
        OBVIOUS
    <2>2. NonEmpty(none) = none
        BY <2>1, ThoseOfNone DEF NonEmpty
    <2>3. QED  BY <1>2, <2>1, <2>2
<1>4. ASSUME NEW k \in Nat, k \in Ok PROVE k + 1 \in Ok
    <2> SUFFICES ASSUME k + 1 <= n PROVE NonEmpty(Cut(k + 1)) = Cut(k + 1)
        OBVIOUS
    <2>1. PICK a, e : a = Cut(k) /\ e = s[k + 1] /\ a \in Seq(S) /\ e \in S /\ e # Empty
        <3>1. Cut(k) \in Seq(S) /\ s[k + 1] \in S /\ s[k + 1] # Empty
            BY <1>1 DEF Solid
        <3>2. PICK a, e : a = Cut(k) /\ e = s[k + 1]
            OBVIOUS
        <3>3. QED  BY <3>1, <3>2
    <2>2. Cut(k + 1) = Append(a, e)
        BY <1>1, <2>1
    <2>3. NonEmpty(a) = a
        BY <1>4, <2>1
    <2>4. NonEmpty(Append(a, e)) = Append(NonEmpty(a), e)
        BY <2>1, NonEmptyAppend
    <2>5. QED  BY <2>2, <2>3, <2>4
<1>5. \A k \in Nat : k \in Ok
    <2> HIDE DEF Ok
    <2>1. QED  BY <1>3, <1>4, InductionOnSet
<1>6. NonEmpty(Cut(n)) = Cut(n)
    BY <1>5
<1>7. QED  BY <1>2, <1>6

\* What a sequence ends with.
LEMMA EndIs ==
    ASSUME NEW S, NEW s, s \in Seq(S), s # <<>>
    PROVE  /\ Front(s) \in Seq(S) /\ Last(s) \in S /\ s = Append(Front(s), Last(s))
           /\ Len(Front(s)) = Len(s) - 1
<1>1. PICK n \in Nat : n = Len(s) /\ n >= 1
    OBVIOUS
<1>2. PICK f, e : f = SubSeq(s, 1, n - 1) /\ e = s[n]
    OBVIOUS
<1>3. f \in Seq(S) /\ e \in S /\ s = Append(f, e) /\ Len(f) = n - 1
    BY <1>1, <1>2
<1>4. QED  BY <1>1, <1>2, <1>3 DEF Front, Last

\* Of what does or does not end with a slash.
LEMMA AppendIs ==
    ASSUME NEW S, NEW s, s \in Seq(S), NEW e \in S
    PROVE  /\ Front(Append(s, e)) = s /\ Last(Append(s, e)) = e /\ Append(s, e) # <<>>
           /\ Append(s, e) \in Seq(S) /\ Len(Append(s, e)) = Len(s) + 1
<1>1. PICK n \in Nat : n = Len(s)
    OBVIOUS
<1>0. PICK t : t = Append(s, e)
    OBVIOUS
<1>2. t \in Seq(S) /\ Len(t) = n + 1 /\ t[n + 1] = e /\ SubSeq(t, 1, (n + 1) - 1) = s
    BY <1>0, <1>1
<1>3. t # <<>>
    BY <1>2
<1>4. QED  BY <1>0, <1>1, <1>2, <1>3 DEF Front, Last

\* The prefix of a group as a reader takes it, and as it may be written.
LEMMA PlainIs ==
    ASSUME NEW S, NEW g, g \in Seq(S), IsPlain(g), NEW h, h = NonEmpty(g)
    PROVE  h \in Seq(S) /\ Solid(h) /\ (g = h \/ (g = Append(h, Empty) /\ h # <<>> /\ Empty \in S))
<1>1. CASE g = <<>>
    <2>1. Solid(g)
        BY <1>1 DEF Solid
    <2>2. h = g
        BY <2>1, SolidSame
    <2>3. QED  BY <2>1, <2>2
<1>2. CASE g # <<>>
    <2>1. PICK f, e : f = Front(g) /\ e = Last(g) /\ f \in Seq(S) /\ e \in S /\ g = Append(f, e)
        BY <1>2, EndIs
    <2>2. Solid(f)
        BY <2>1 DEF IsPlain, Range, Solid
    <2>3. NonEmpty(f) = f
        BY <2>1, <2>2, SolidSame
    <2>4. CASE e = Empty
        <3>1. h = f
            BY <2>1, <2>3, <2>4, NonEmptyAppend
        <3>2. f # <<>>
            <4>1. ASSUME f = <<>> PROVE g = <<Empty>>
                BY <2>1, <2>4, <4>1
            <4>2. QED  BY <4>1 DEF IsPlain
        <3>3. QED  BY <2>1, <2>2, <2>4, <3>1, <3>2
    <2>5. CASE e # Empty
        <3>1. Solid(g)
            <4>1. PICK n \in Nat : n = Len(f) /\ DOMAIN f = 1 .. n
                BY <2>1
            <4>2. DOMAIN g = 1 .. n + 1 /\ g[n + 1] = e /\ \A k \in 1 .. n : g[k] = f[k]
                BY <2>1, <4>1
            <4>3. ASSUME NEW k \in DOMAIN g PROVE g[k] # Empty
                <5>1. k \in 1 .. n \/ k = n + 1
                    BY <4>2
                <5>2. QED  BY <2>2, <2>5, <4>1, <4>2, <5>1 DEF Solid
            <4>4. QED  BY <4>3 DEF Solid
        <3>2. h = g
            BY <3>1, SolidSame
        <3>3. QED  BY <3>1, <3>2
    <2>6. QED  BY <2>4, <2>5
<1>3. QED  BY <1>1, <1>2

\* What stands behind what.
LEMMA BothSolid ==
    ASSUME NEW S, NEW s, s \in Seq(S), NEW t, t \in Seq(S), Solid(s), Solid(t)
    PROVE  s \o t \in Seq(S) /\ Solid(s \o t)
<1>1. PICK m \in Nat, n \in Nat : /\ m = Len(s) /\ n = Len(t) /\ DOMAIN s = 1 .. m /\ DOMAIN t = 1 .. n
    OBVIOUS
<1>2. PICK u : u = s \o t
    OBVIOUS
<1>3. /\ u \in Seq(S) /\ DOMAIN u = 1 .. m + n
      /\ \A k \in 1 .. m + n : u[k] = IF k <= m THEN s[k] ELSE t[k - m]
    BY <1>1, <1>2
<1>4. ASSUME NEW k \in DOMAIN u PROVE u[k] # Empty
    <2>1. CASE k <= m
        <3>1. k \in 1 .. m /\ u[k] = s[k]
            BY <1>3, <2>1
        <3>2. QED  BY <1>1, <3>1 DEF Solid
    <2>2. CASE ~(k <= m)
        <3>1. k - m \in 1 .. n /\ u[k] = t[k - m]
            BY <1>3, <2>2
        <3>2. QED  BY <1>1, <3>1 DEF Solid
    <2>3. QED  BY <2>1, <2>2
<1>5. QED  BY <1>2, <1>3, <1>4 DEF Solid

\* What route_group takes away of such prefixes.
LEMMA TrimmedIs ==
    ASSUME NEW S, NEW c, c \in Seq(S), Solid(c)
    PROVE  /\ Trimmed(c) = c
           /\ Empty \in S /\ c # <<>> => Trimmed(Append(c, Empty)) = c
<1>1. Trimmed(c) = c
    <2>1. CASE Len(c) > 1
        <3>1. Len(c) \in DOMAIN c
            BY <2>1
        <3>2. c[Len(c)] # Empty
            BY <3>1 DEF Solid
        <3>3. QED  BY <3>2 DEF Trimmed, Last
    <2>2. CASE ~(Len(c) > 1)
        BY <2>2 DEF Trimmed
    <2>3. QED  BY <2>1, <2>2
<1>2. ASSUME Empty \in S, c # <<>> PROVE Trimmed(Append(c, Empty)) = c
    <2>1. PICK t, e : e = Empty /\ t = Append(c, e) /\ e \in S
        BY <1>2
    <2>2. Len(t) = Len(c) + 1 /\ Last(t) = e /\ Front(t) = c
        BY <2>1, AppendIs
    <2>3. Len(c) \in Nat /\ Len(c) # 0
        BY <1>2
    <2>4. QED  BY <2>1, <2>2, <2>3 DEF Trimmed
<1>3. QED  BY <1>1, <1>2

\* A plain prefix more.
LEMMA PrefixGrows ==
    ASSUME NEW S, NEW c, c \in Seq(S), Solid(c), NEW g, g \in Seq(S), IsPlain(g)
    PROVE  /\ NonEmpty(g) \in Seq(S)
           /\ c \o NonEmpty(g) \in Seq(S) /\ Solid(c \o NonEmpty(g))
           /\ Trimmed(c \o g) = c \o NonEmpty(g)
<1>1. PICK h : h = NonEmpty(g)
    OBVIOUS
<1>2. h \in Seq(S) /\ Solid(h) /\ (g = h \/ (g = Append(h, Empty) /\ h # <<>> /\ Empty \in S))
    BY <1>1, PlainIs
<1>3. PICK u : u = c \o h /\ u \in Seq(S) /\ Solid(u)
    BY <1>2, BothSolid
<1>4. CASE g = h
    BY <1>1, <1>2, <1>3, <1>4, TrimmedIs
<1>5. CASE g = Append(h, Empty) /\ h # <<>> /\ Empty \in S
    <2>1. PICK e \in S : e = Empty
        BY <1>5
    <2>2. c \o Append(h, e) = Append(u, e)
        BY <1>2, <1>3
    <2>3. u # <<>>
        <3>1. Len(u) = Len(c) + Len(h) /\ Len(h) \in Nat /\ Len(h) # 0 /\ Len(c) \in Nat
            BY <1>2, <1>3, <1>5
        <3>2. QED  BY <3>1
    <2>4. Trimmed(Append(u, e)) = u
        BY <1>3, <1>5, <2>1, <2>3, TrimmedIs
    <2>5. QED  BY <1>1, <1>2, <1>3, <1>5, <2>1, <2>2, <2>4
<1>6. QED  BY <1>2, <1>4, <1>5

\* What is registered under plain prefixes has the path that a reader expects.
THEOREM PathExpected ==
    ASSUME NEW entry, IsWritten(entry), \A k \in DOMAIN entry.groups : IsPlain(entry.groups[k])
    PROVE  FullPath(entry) = Expected(entry)
<1>1. PICK groups, pattern : groups = entry.groups /\ pattern = entry.pattern
    OBVIOUS
<1>2. PICK S : pattern \in Seq(S) /\ groups \in Seq(Seq(S))
    BY <1>1, EntryTyped
<1>3. PICK N \in Nat : N = Len(groups) /\ DOMAIN groups = 1 .. N
    BY <1>2
<1>4. PICK p : /\ p \in [0 .. N -> Seq(S)] /\ p[0] = <<>>
               /\ \A k \in 1 .. N : p[k] = Trimmed(p[k - 1] \o groups[k])
               /\ Prefix(groups) = p[N]
    BY <1>2, <1>3, PrefixRecursion
<1>5. PICK parts : parts = [k \in 1 .. N |-> NonEmpty(groups[k])]
    OBVIOUS
<1>6. \A k \in 1 .. N : groups[k] \in Seq(S) /\ IsPlain(groups[k])
    BY <1>1, <1>2, <1>3
<1>7. parts \in Seq(Seq(S)) /\ Len(parts) = N
    <2>1. PICK none : none = <<>>
        OBVIOUS
    <2>0. none \in Seq(S) /\ Solid(none)
        BY <2>1 DEF Solid
    <2>2. \A k \in 1 .. N : NonEmpty(groups[k]) \in Seq(S)
        BY <1>6, <2>0, PrefixGrows
    <2>3. parts \in [1 .. N -> Seq(S)]
        BY <1>5, <2>2
    <2>4. QED  BY <2>3, FunctionIsSequence
<1>8. PICK f : /\ f \in [0 .. N -> Seq(S)] /\ f[0] = <<>>
               /\ \A k \in 1 .. N : f[k] = f[k - 1] \o parts[k]
               /\ FlattenSeq(parts) = f[N]
    BY <1>7, FlattenSeqRecursion
<1> DEFINE Ok == {k \in Nat : k <= N => p[k] = f[k] /\ Solid(p[k])}
<1>9. 0 \in Ok
    BY <1>4, <1>8 DEF Solid
<1>10. ASSUME NEW k \in Nat, k \in Ok PROVE k + 1 \in Ok
    <2> SUFFICES ASSUME k + 1 <= N PROVE p[k + 1] = f[k + 1] /\ Solid(p[k + 1])
        OBVIOUS
    <2>1. k \in 0 .. N /\ k + 1 \in 1 .. N /\ (k + 1) - 1 = k /\ p[k] = f[k] /\ Solid(p[k])
        BY <1>10
    <2>2. PICK c, g : c = p[k] /\ g = groups[k + 1] /\ c \in Seq(S) /\ g \in Seq(S) /\ IsPlain(g)
        BY <1>4, <1>6, <2>1
    <2>3. p[k + 1] = Trimmed(c \o g) /\ f[k + 1] = c \o NonEmpty(g)
        BY <1>4, <1>5, <1>8, <2>1, <2>2
    <2>4. Trimmed(c \o g) = c \o NonEmpty(g) /\ Solid(c \o NonEmpty(g))
        BY <2>1, <2>2, PrefixGrows
    <2>5. QED  BY <2>3, <2>4
<1>11. \A k \in Nat : k \in Ok
    <2> HIDE DEF Ok
    <2>1. QED  BY <1>9, <1>10, InductionOnSet
<1>12. p[N] = f[N]
    BY <1>11
<1>13. Expected(entry) = FlattenSeq(parts) \o pattern
    BY <1>1, <1>3, <1>5 DEF Expected
<1>14. FullPath(entry) = Prefix(groups) \o pattern
    BY <1>1 DEF FullPath
<1>15. QED  BY <1>4, <1>8, <1>12, <1>13, <1>14

-----------------------------------------------------------------------------
(* The tables of the upgrades.                                               *)

\* The chain is entered only by what is no request for an endpoint.
EnteredInv == pc = "enter" /\ Len(stack) = 1 => ~Upgrades

\* A plain endpoint is in its table under the path that is expected.
LEMMA InTable ==
    ASSUME AppInv
    PROVE  /\ \A e \in Plain(app.asked.ws) : Expected(e) \in app.ws
           /\ \A e \in Plain(app.asked.sse) : Expected(e) \in app.sse
           /\ \A e \in Plain(app.asked.stream) : Expected(e) \in app.stream
<1>1. PICK a \in Apps : app = Registered(a)
    BY DEF AppInv
<1>2. /\ app.asked = a
      /\ app.ws = {FullPath(e) : e \in a.ws}
      /\ app.sse = {FullPath(e) : e \in a.sse}
      /\ app.stream = {FullPath(e) : e \in a.stream}
    BY <1>1 DEF Registered
<1>3. \A e \in a.ws \cup a.sse \cup a.stream : IsWritten(e)
    BY AppsAssumption
<1>4. \A e \in a.ws \cup a.sse \cup a.stream :
         (\A k \in DOMAIN e.groups : IsPlain(e.groups[k])) => FullPath(e) = Expected(e)
    BY <1>3, PathExpected
<1>5. QED  BY <1>2, <1>4 DEF Plain

\* Every step keeps it.
LEMMA EnteredStep == IInv /\ EnteredInv /\ [Next]_vars => EnteredInv'
<1> SUFFICES ASSUME IInv, EnteredInv, [Next]_vars, pc' = "enter", Len(stack') = 1 PROVE ~Upgrades'
    BY DEF EnteredInv
<1>1. AppInv /\ WellStacked(stack) /\ ControlInv
    BY DEF IInv
<1>2. CASE UNCHANGED vars \/ Terminated \/ EditFile \/ SearchFile
    <2>1. UNCHANGED <<app, req, stack, pc>>
        BY <1>2 DEF vars, Terminated, EditFile, SearchFile
    <2>2. QED  BY <2>1 DEF EnteredInv, Upgrades
<1>3. CASE Handle
    BY <1>3 DEF Handle, Upgrades
<1>4. ASSUME stack # <<>>, NEW frames, Call(frames), Len(frames) = Len(stack) + 1 PROVE FALSE
    <2>1. PICK n \in Nat : n = Len(stack) /\ n >= 1
        BY <1>1, <1>4, TopIs
    <2>2. Len(frames) = n + 1
        BY <1>4, <2>1
    <2>3. Len(frames) = 1
        BY <1>4 DEF Call
    <2>4. QED  BY <2>1, <2>2, <2>3
<1>5. CASE CallNext \/ HandOn
    <2>1. pc = "running" /\ IsLayer(Top) /\ EnterNext /\ stack # <<>>
        BY <1>1, <1>5 DEF CallNext, HandOn, IsUserCode, ControlInv
    <2>2. PICK frames, self :
             /\ Call(frames) /\ PushedOn(frames, self, Frame(Top.chain, Top.pos + 1))
        BY <1>1, <2>1, NextFrames
    <2>3. QED  BY <1>4, <2>1, <2>2 DEF PushedOn
<1>6. CASE CallRoute \/ CallGetRoute
    <2>1. PICK frames, self, route : Call(frames) /\ PushedOn(frames, self, Frame(route, 1))
        BY <1>6, RouteFrames
    <2>2. stack # <<>>
        BY <1>1, <1>6 DEF CallRoute, CallGetRoute, AtDispatch, ControlInv
    <2>3. QED  BY <1>4, <2>1, <2>2 DEF PushedOn
<1>7. CASE \/ OpenStream \/ StreamEnds \/ Enter \/ NextReturns \/ TryFiles \/ Revalidate
    BY <1>7 DEF OpenStream, StreamEnds, Enter, NextReturns, TryFiles, Revalidate
<1>8. CASE \/ Answer \/ Throw \/ NextThrows \/ AnswerPreflight \/ HandBack
           \/ HandlerReturns \/ HandlerThrows \/ ServeFile \/ SearchThrows \/ NotFound
    BY <1>8 DEF Answer, Throw, NextThrows, AnswerPreflight, HandBack, HandlerReturns, HandlerThrows,
                ServeFile, SearchThrows, NotFound, Leave
<1>9. QED  BY <1>2, <1>3, <1>5, <1>6, <1>7, <1>8 DEF Next

\* However the endpoints are nested in groups and their prefixes end: a request for
\* one of them never reaches the chain.
THEOREM EndpointReachedAlways == Spec => []EndpointReached
<1>1. Init => EnteredInv
    BY DEF Init, EnteredInv
<1>2. IInv /\ EnteredInv => EndpointReached
    <2> SUFFICES ASSUME IInv, EnteredInv, pc = "enter", stack = <<Frame(0, 1)>>
                 PROVE  /\ req.ws => \A e \in Plain(app.asked.ws) : Expected(e) # req.path
                        /\ req.method = "GET" => \A e \in Plain(app.asked.sse) : Expected(e) # req.path
                        /\ \A e \in Plain(app.asked.stream) : Expected(e) # req.path
        BY DEF EndpointReached
    <2>1. AppInv
        BY DEF IInv
    <2>2. Len(stack) = 1
        <3>1. PICK f : f = Frame(0, 1)
            OBVIOUS
        <3>2. stack = <<f>>
            BY <3>1
        <3>3. QED  BY <3>2
    <2>3. ~Upgrades
        BY <2>2 DEF EnteredInv
    <2>4. QED  BY <2>1, <2>3, InTable DEF Upgrades
<1>3. QED  BY <1>1, <1>2, EnteredStep, Invariance, PTL DEF Spec
=============================================================================
