------------------------------ MODULE Dispatch ------------------------------
(***************************************************************************)
(* From a parsed request to a response: what the registration of routes, in  *)
(* groups or not, leaves in the tables, the lookup of the ws, sse and stream *)
(* routes, the compiled middleware chain, dispatch() and its fallbacks, the  *)
(* router, the static files, and the chain of middleware a route may have of *)
(* its own.                                                                  *)
(*                                                                          *)
(* A middleware is user code that holds the request by reference: it may     *)
(* rewrite it, call the rest of the chain more than once, answer by itself,  *)
(* throw, or catch what the rest of the chain throws.  cors() and logger()   *)
(* come with the library.  A client that was sent a file may ask again, with *)
(* the validators that came with it.                                         *)
(***************************************************************************)
EXTENDS StaticFiles, HttpResponse

CONSTANTS
    Apps,         \* what may be registered before listen(): [layers, routes, ws,
                  \* sse, stream, mounts], layers the kinds of the middleware,
                  \* a route being [method, groups, pattern,
                  \* layers] and an endpoint of ws, sse or stream [groups, pattern];
                  \* groups are the prefixes it is registered under, outermost first,
                  \* and a part of a route's pattern is [type, text]
    Requests,     \* [method, path, ws]: a path is the sequence of what stands
                  \* between its slashes, ws says it asks for a WebSocket
    IntOf,        \* the parts that are a whole int, and the int they are
    MaxSegments,  \* path_segments::MAX_SEGMENTS
    MaxCalls      \* bound: calls of next by one run of a middleware

LayerKinds == {"user", "cors", "logger"}

IsWritten(entry) ==
    /\ IsPath(entry.pattern) /\ entry.groups \in Seq(Range(entry.groups))
    /\ \A j \in DOMAIN entry.groups : IsPath(entry.groups[j])

ASSUME AppsAssumption ==
    \A a \in Apps :
        /\ a.layers \in Seq(LayerKinds) /\ a.routes \in Seq(Range(a.routes))
        /\ \A k \in DOMAIN a.routes :
              LET route == a.routes[k]
              IN  route.layers \in Seq(LayerKinds) /\ IsWritten(route)
        /\ \A e \in a.ws \cup a.sse \cup a.stream : IsWritten(e)
        /\ a.mounts \in Seq(Range(a.mounts))
        /\ \A k \in DOMAIN a.mounts : IsMount(a.mounts[k])
ASSUME RequestsAssumption == \A r \in Requests : IsPath(r.path) /\ r.path # <<>>
ASSUME SegmentsAssumption == MaxSegments \in Nat \ {0}
ASSUME CallsAssumption == MaxCalls \in Nat \ {0}

VARIABLES
    app,    \* the tables registration leaves, and what the application asked for
    req,    \* [method, path, ws, params], and etag and date: the validators sent
    stack,  \* the coroutines in progress, outermost first
    pc,     \* "lookup", "enter", "files", "running", "returned", "thrown",
            \* "streaming", "done", "failed" or "crashed"
    value,  \* what the last callee gave back: a response or an exception
    copy    \* what the client keeps of a file it was sent

vars == <<app, req, stack, pc, value, copy, fileVars>>

-----------------------------------------------------------------------------
(* Registration.  A written path is the sequence of what stands between its  *)
(* slashes; prefixes and patterns start with one, so that joining strings is *)
(* joining sequences.                                                        *)

\* route_group: one slash at the end of the prefix goes, unless it is all of it.
Untrimmed(prefix) == prefix
Trimmed(prefix) ==
    IF Len(prefix) > 1 /\ Last(prefix) = Empty THEN Front(prefix) ELSE prefix

\* A group puts its prefix before all that is registered in it, groups included.
Prefix(groups) ==
    LET upto[k \in 0 .. Len(groups)] ==
            IF k = 0 THEN <<>> ELSE Trimmed(upto[k - 1] \o groups[k])
    IN  upto[Len(groups)]
FullPath(entry) == Prefix(entry.groups) \o entry.pattern

\* parse_pattern: <int:x> takes an int, <any other type:x> and <x> a string.
KindOf(type) == IF type \in {"literal", "int"} THEN type ELSE "string"
ParsePattern(path) ==
    LET parts == NonEmpty(path)
    IN  [k \in DOMAIN parts |-> [kind |-> KindOf(parts[k].type), text |-> parts[k].text]]

Add(route) ==
    [method |-> route.method, pattern |-> ParsePattern(FullPath(route)), layers |-> route.layers]

Registered(a) ==
    [asked |-> a, layers |-> a.layers,
     mounts |-> [k \in DOMAIN a.mounts |-> Mounted(a.mounts[k])],
     routes |-> [k \in DOMAIN a.routes |-> Add(a.routes[k])],
     ws |-> {FullPath(e) : e \in a.ws},
     sse |-> {FullPath(e) : e \in a.sse},
     stream |-> {FullPath(e) : e \in a.stream}]

-----------------------------------------------------------------------------
(* middleware_chain::compile                                                 *)

Inner == 0

\* The layers are wrapped around the inner callable, the last one first: the
\* p-th callable from outside runs the layer Compile(n)[p] and has p + 1 as next.
CompileForward(n) ==
    LET chain[k \in 0 .. n] == IF k = 0 THEN <<Inner>> ELSE <<k>> \o chain[k - 1]
    IN  chain[n]
Compile(n) ==
    LET chain[k \in 0 .. n] == IF k = 0 THEN <<Inner>> ELSE <<n - k + 1>> \o chain[k - 1]
    IN  chain[n]

\* Chain 0 is the server's, around dispatch(); chain r that of route r.
LayersOf(c) == IF c = 0 THEN app.layers ELSE app.routes[c].layers
CodeOf(f) == Compile(Len(LayersOf(f.chain)))[f.pos]

Frame(c, p) == [chain |-> c, pos |-> p, calls |-> 0, fallback |-> FALSE]
Top == Last(stack)

IsDispatch(f) == f.chain = 0 /\ CodeOf(f) = Inner
IsHandler(f) == f.chain > 0 /\ CodeOf(f) = Inner
IsLayer(f) == CodeOf(f) # Inner
KindOfLayer(f) == LayersOf(f.chain)[CodeOf(f)]
IsUserCode(f) == IsLayer(f) => KindOfLayer(f) = "user"

\* compile() keeps a pointer to each layer.  Those of the server stay in the
\* app; those of a route are in a local of compile_route_handler(), gone when
\* it returns.
Storage(f) == IF f.chain > 0 /\ IsLayer(f) THEN "destroyed" ELSE "alive"

-----------------------------------------------------------------------------
(* The router                                                                *)

\* split_path_sv: empty parts are dropped, parts past the last slot too.
Split(path) ==
    LET parts == NonEmpty(path)
    IN  SubSeq(parts, 1, IF Len(parts) < MaxSegments THEN Len(parts) ELSE MaxSegments)

Param(seg, part) ==
    [name |-> seg.text,
     value |-> IF seg.kind = "int" THEN <<"int", IntOf[part]>> ELSE <<"string", part>>]

SegmentFits(seg, part) ==
    /\ seg.kind = "literal" => part = seg.text
    /\ seg.kind = "int" => part \in DOMAIN IntOf

\* match_route: parameters are appended as the segments are walked, and taken
\* back at the first segment that does not fit.
MatchRoute(pattern, path, params) ==
    LET parts == Split(path)
        walk[i \in 0 .. Len(pattern)] ==
            IF i = 0 THEN [fits |-> TRUE, params |-> params]
            ELSE LET before == walk[i - 1] IN
                 IF ~before.fits THEN before
                 ELSE IF ~SegmentFits(pattern[i], parts[i])
                 THEN [fits |-> FALSE, params |-> SubSeq(before.params, 1, Len(params))]
                 ELSE IF pattern[i].kind = "literal" THEN before
                 ELSE [before EXCEPT !.params = Append(@, Param(pattern[i], parts[i]))]
    IN  IF Len(parts) # Len(pattern) THEN [fits |-> FALSE, params |-> params]
        ELSE walk[Len(pattern)]

\* params.clear() before each attempt.
NotCleared(params) == params
Cleared(params) == <<>>

\* Routes the loop passes over: those of another method, and the rest once one
\* has been found.
OtherMethod(found, route, method) == route.method # method
Skipped(found, route, method) == found # 0 \/ route.method # method

\* resolve: the first route that fits, 0 if none.  Parameters are touched only
\* if some route has the method.
Resolve(method, path, params) ==
    LET try[k \in 0 .. Len(app.routes)] ==
            IF k = 0 THEN [route |-> 0, params |-> params]
            ELSE LET before == try[k - 1]
                     route == app.routes[k]
                 IN  IF Skipped(before.route, route, method) THEN before
                     ELSE LET m == MatchRoute(route.pattern, path, Cleared(before.params))
                          IN  [route |-> IF m.fits THEN k ELSE 0, params |-> m.params]
    IN  try[Len(app.routes)]

-----------------------------------------------------------------------------
Nothing == [kind |-> "nothing", by |-> <<"nobody", 0>>, res |-> Blank, file |-> NoFile]
Response(by, res) == [Nothing EXCEPT !.kind = "response", !.by = by, !.res = res]
Exception(kind, by) == [Nothing EXCEPT !.kind = kind, !.by = by]

\* Who is running, for what it answers or throws.
Author(f) == IF IsHandler(f) THEN <<"handler", f.chain>>
             ELSE IF f.chain = 0 THEN <<"layer", CodeOf(f)>> ELSE <<"routeLayer", f.chain>>

Init ==
    /\ app \in {Registered(a) : a \in Apps}
    /\ \E r \in Requests :
          req = [method |-> r.method, path |-> r.path, ws |-> r.ws, params |-> <<>>,
                 etag |-> <<>>, date |-> <<>>]
    /\ stack = <<>> /\ pc = "lookup" /\ value = Nothing /\ copy = NoFile
    /\ FilesInit

\* A pointer to a layer that is gone may still find its old bytes, or not.
Call(frames) ==
    /\ stack' = frames /\ value' = Nothing
    /\ pc' \in {"enter"} \cup (IF Storage(Last(frames)) = "destroyed" THEN {"crashed"} ELSE {})

\* handle_connection looks the exact path up in three tables first.
Upgrades ==
    \/ req.ws /\ req.path \in app.ws
    \/ req.method = "GET" /\ req.path \in app.sse
    \/ req.path \in app.stream

OpenStream ==
    /\ pc = "lookup" /\ Upgrades
    /\ pc' = "streaming"
    /\ UNCHANGED <<app, req, stack, value, copy, fileVars>>

\* compiled_handler_( req ), or dispatch( req ) when there is no middleware.
Handle ==
    /\ pc = "lookup" /\ ~Upgrades
    /\ Call(<<Frame(0, 1)>>)
    /\ UNCHANGED <<app, req, copy, fileVars>>

StreamEnds ==
    /\ pc = "streaming" /\ pc' = "done"
    /\ UNCHANGED <<app, req, stack, value, copy, fileVars>>

Enter ==
    /\ pc = "enter" /\ ~IsDispatch(Top)
    /\ pc' = "running"
    /\ UNCHANGED <<app, req, stack, value, copy, fileVars>>

-----------------------------------------------------------------------------
(* Middleware and handlers                                                   *)

\* The rest of the chain, called by the layer on top.
EnterNext ==
    LET caller == [Top EXCEPT !.calls = @ + 1]
    IN  Call(Front(stack) \o <<caller, Frame(Top.chain, Top.pos + 1)>>)

\* A middleware of the user's calls next, having rewritten the request or not.
CallNext ==
    /\ pc = "running" /\ IsLayer(Top) /\ IsUserCode(Top) /\ Top.calls < MaxCalls
    /\ \E r \in Requests \cup {[method |-> req.method, path |-> req.path, ws |-> req.ws]} :
          req' = [req EXCEPT !.method = r.method, !.path = r.path]
    /\ EnterNext
    /\ UNCHANGED <<app, copy, fileVars>>

\* What the caller of the top of the stack does with a response or exception.
Leave(v, outcome) ==
    /\ value' = v
    /\ stack' = Front(stack)
    /\ pc' = IF Len(stack) > 1 THEN outcome
             ELSE IF outcome = "returned" THEN "done" ELSE "failed"

\* A handler may state the length of the body, to HEAD without sending that.
Made(f) ==
    {Text(200, size) : size \in 0 .. 1}
    \cup {SetHeader(Text(200, size), "Content-Length", 1) :
             size \in IF ~IsHandler(f) THEN {} ELSE IF req.method = "HEAD" THEN 0 .. 1 ELSE {1}}

\* It returns a response of its own, or the one it was given.
Answer ==
    /\ pc = "running" /\ IsUserCode(Top)
    /\ \/ \E res \in Made(Top) : Leave(Response(Author(Top), res), "returned")
       \/ value.kind = "response" /\ Leave(value, "returned")
    /\ UNCHANGED <<app, req, copy, fileVars>>

Throw ==
    /\ pc = "running" /\ IsUserCode(Top)
    /\ \E kind \in {"std", "foreign"} : Leave(Exception(kind, Author(Top)), "thrown")
    /\ UNCHANGED <<app, req, copy, fileVars>>

\* cors() answers a preflight by itself.  It and logger() hand any other request
\* on as it is, once, and cors() stamps what comes back.
Preflight(f) == KindOfLayer(f) = "cors" /\ f.calls = 0 /\ req.method = "OPTIONS"
NotStamped(response) == response
Stamped(response) ==
    [response EXCEPT !.res = SetHeader(@, "Access-Control-Allow-Origin", "*")]

AnswerPreflight ==
    /\ pc = "running" /\ ~IsUserCode(Top) /\ Preflight(Top)
    /\ Leave(Stamped(Response(Author(Top), Text(204, 0))), "returned")
    /\ UNCHANGED <<app, req, copy, fileVars>>

HandOn ==
    /\ pc = "running" /\ ~IsUserCode(Top) /\ ~Preflight(Top) /\ Top.calls = 0
    /\ EnterNext
    /\ UNCHANGED <<app, req, copy, fileVars>>

HandBack ==
    /\ pc = "running" /\ ~IsUserCode(Top) /\ Top.calls = 1
    /\ Leave(IF KindOfLayer(Top) = "cors" THEN Stamped(value) ELSE value, "returned")
    /\ UNCHANGED <<app, req, copy, fileVars>>

\* co_await next( r ) gives a middleware the response, or the exception, which
\* it may catch.
NextReturns ==
    /\ pc = "returned" /\ IsLayer(Top)
    /\ pc' = "running"
    /\ UNCHANGED <<app, req, stack, value, copy, fileVars>>

NextThrows ==
    /\ pc = "thrown" /\ IsLayer(Top)
    /\ \/ Leave(value, "thrown")
       \/ IsUserCode(Top) /\ pc' = "running" /\ value' = Nothing /\ UNCHANGED stack
    /\ UNCHANGED <<app, req, copy, fileVars>>

-----------------------------------------------------------------------------
(* dispatch()                                                                *)

AtDispatch == pc = "enter" /\ IsDispatch(Top)

Direct == Resolve(req.method, req.path, req.params)
AsGet == Resolve("GET", req.path, Direct.params)

CallRoute ==
    /\ AtDispatch /\ Direct.route > 0
    /\ req' = [req EXCEPT !.params = Direct.params]
    /\ Call(Append(stack, Frame(Direct.route, 1)))
    /\ UNCHANGED <<app, copy, fileVars>>

CallGetRoute ==
    /\ AtDispatch /\ Direct.route = 0 /\ req.method = "HEAD" /\ AsGet.route > 0
    /\ req' = [req EXCEPT !.params = AsGet.params]
    /\ LET self == [Top EXCEPT !.fallback = TRUE]
       IN  Call(Front(stack) \o <<self, Frame(AsGet.route, 1)>>)
    /\ UNCHANGED <<app, copy, fileVars>>

\* The parameters the failed lookups leave behind.
NoRoute ==
    /\ AtDispatch /\ Direct.route = 0 /\ (req.method = "HEAD" => AsGet.route = 0)
    /\ req' = [req EXCEPT !.params = IF req.method = "HEAD" THEN AsGet.params ELSE @]
    /\ UNCHANGED <<app, copy>>

MayBeFile == req.method \in {"GET", "HEAD"} /\ app.mounts # <<>>

\* What HEAD keeps of the body of the answer to GET.
AllOf(body) == body
NoneOf(body) == 0

TryFiles ==
    /\ NoRoute /\ MayBeFile
    /\ pc' = "files" /\ TryFirstMount
    /\ UNCHANGED <<stack, value, disk, log, edits>>

SearchFile ==
    /\ pc = "files"
    /\ TryServe(app.mounts, req.path, [etag |-> req.etag, date |-> req.date])
    /\ UNCHANGED <<app, req, stack, pc, value, copy>>

ServeFile ==
    /\ pc = "files" /\ probe.step = "served"
    /\ LET body == probe.answer.size
           sent == IF req.method = "HEAD" THEN NoneOf(body) ELSE body
           answer == Response(<<"file", 0>>, Text(probe.answer.status, sent))
       IN  Leave([answer EXCEPT !.file = probe.answer], "returned")
    /\ probe' = Idle
    /\ UNCHANGED <<app, req, copy, disk, log, edits>>

\* substr is out of range, outside the try blocks.
SearchThrows ==
    /\ pc = "files" /\ probe.step = "find" /\ CutPastEnd(Here(app.mounts), req.path)
    /\ Leave(Exception("std", <<"file", 0>>), "thrown")
    /\ probe' = Idle
    /\ UNCHANGED <<app, req, copy, disk, log, edits>>

NotFound ==
    /\ \/ NoRoute /\ ~MayBeFile /\ UNCHANGED probe
       \/ pc = "files" /\ probe.step = "missed" /\ probe' = Idle /\ UNCHANGED <<app, req, copy>>
    /\ Leave(Response(<<"notFound", 0>>, Text(404, 1)), "returned")
    /\ UNCHANGED <<disk, log, edits>>

HandlerReturns ==
    /\ pc = "returned" /\ IsDispatch(Top)
    /\ Leave(IF Top.fallback THEN [value EXCEPT !.res.body = NoneOf(@)] ELSE value, "returned")
    /\ UNCHANGED <<app, req, copy, fileVars>>

\* What dispatch catches around the handler, in both of its try blocks.
CaughtDirect(f) == value.kind = "std" /\ ~f.fallback
Caught(f) == value.kind = "std"

HandlerThrows ==
    /\ pc = "thrown" /\ IsDispatch(Top)
    /\ IF Caught(Top)
          THEN Leave(Response(<<"error", value.by[2]>>, Text(500, IF Top.fallback THEN 0 ELSE 1)), "returned")
          ELSE Leave(value, "thrown")
    /\ UNCHANGED <<app, req, copy, fileVars>>

-----------------------------------------------------------------------------
(* Around the server                                                         *)

\* bound: files change, and are asked for again, only where no middleware of the
\* user's may rewrite the request.
FilesOnly == "user" \notin Range(app.layers)

\* Another process changes a file that is being served, or one a client has.
EditFile ==
    /\ FilesOnly
    /\ \/ pc = "files" /\ probe.place # <<>> /\ Edit(probe.place)
       \/ pc = "done" /\ value.file.status = 200 /\ copy = NoFile /\ Edit(value.file.place)
    /\ UNCHANGED <<app, req, stack, pc, value, copy>>

\* The client keeps what GET got it, and asks again with some of its validators.
Revalidate ==
    /\ FilesOnly
    /\ pc = "done" /\ req.method = "GET" /\ value.file.status = 200 /\ copy = NoFile
    /\ copy' = value.file
    /\ \E etag \in {<<>>, value.file.etag}, date \in {<<>>, value.file.date} :
          req' = [req EXCEPT !.params = <<>>, !.etag = etag, !.date = date]
    /\ pc' = "lookup" /\ value' = Nothing
    /\ UNCHANGED <<app, stack, fileVars>>

\* The response, or the exception, is handle_connection's now.
Terminated == pc \in {"done", "failed", "crashed"} /\ UNCHANGED vars

Next ==
    \/ OpenStream \/ StreamEnds \/ Handle \/ Enter
    \/ CallNext \/ Answer \/ Throw \/ NextReturns \/ NextThrows
    \/ AnswerPreflight \/ HandOn \/ HandBack
    \/ CallRoute \/ CallGetRoute \/ HandlerReturns \/ HandlerThrows
    \/ TryFiles \/ SearchFile \/ ServeFile \/ SearchThrows \/ NotFound
    \/ EditFile \/ Revalidate
    \/ Terminated

Spec == Init /\ [][Next]_vars

-----------------------------------------------------------------------------
(* Properties                                                                *)

Authors == {"nobody", "handler", "layer", "routeLayer", "file", "notFound", "error"}

\* Every variable keeps its type, and every frame is a callable of its chain.
TypeOK ==
    /\ app \in {Registered(a) : a \in Apps}
    /\ \E r \in Requests : req.method = r.method /\ req.path = r.path
    /\ Len(req.params) <= MaxSegments
    /\ pc \in {"lookup", "enter", "files", "running", "returned", "thrown", "streaming",
               "done", "failed", "crashed"}
    /\ \A k \in 1 .. Len(stack) :
          /\ stack[k].chain \in 0 .. Len(app.routes)
          /\ stack[k].pos \in 1 .. Len(LayersOf(stack[k].chain)) + 1
          /\ stack[k].calls \in 0 .. MaxCalls
    /\ value.kind \in {"nothing", "response", "std", "foreign"} /\ value.by[1] \in Authors
    /\ probe.step # "idle" <=> pc = "files"
    /\ \A p \in DOMAIN disk : log[disk[p]].place = p
    /\ copy.status \in {0, 200} /\ value.file.status \in {0, 200, 304}
    /\ pc \in {"enter", "files", "running", "returned", "thrown"} <=> stack # <<>> /\ pc # "crashed"

\* The reference definition of a match, on what the application wrote: the parts
\* of the groups and of the pattern, slashes aside, are as many as the path's,
\* and each is that part, or a hole that takes it.
Written(k) ==
    LET route == app.asked.routes[k]
    IN  NonEmpty(FlattenSeq(route.groups) \o route.pattern)

Fits(k, method) ==
    LET parts == Split(req.path)
    IN  /\ app.asked.routes[k].method = method
        /\ Len(Written(k)) = Len(parts)
        /\ \A i \in 1 .. Len(parts) :
              LET w == Written(k)[i]
              IN  /\ w.type = "literal" => parts[i] = w.text
                  /\ w.type = "int" => parts[i] \in DOMAIN IntOf

FirstFit(k, method) ==
    /\ Fits(k, method)
    /\ \A j \in 1 .. k - 1 : ~Fits(j, method)

NoFit(method) == \A k \in 1 .. Len(app.routes) : ~Fits(k, method)

RouteEntered == pc = "enter" /\ Top.chain > 0 /\ Top.pos = 1

\* The route that runs is the first registered one, in groups or not, that fits
\* the request as the middleware left it, a GET route stands in for HEAD only if no HEAD route
\* fits, and 404 is the answer only if nothing does.
RightHandler ==
    /\ RouteEntered =>
          \/ FirstFit(Top.chain, req.method)
          \/ req.method = "HEAD" /\ NoFit("HEAD") /\ FirstFit(Top.chain, "GET")
    /\ value.by[1] = "notFound" =>
          NoFit(req.method) /\ (req.method = "HEAD" => NoFit("GET"))

\* The reference definition of its parameters: one for each hole that was written,
\* with what the path has in its place.
OwnParams(k, path) ==
    LET written == Written(k)
        holes == Those([i \in 1 .. Len(written) |-> i],
                       {i \in 1 .. Len(written) : written[i].type # "literal"})
        Read(w, part) ==
            [name |-> w.text,
             value |-> IF w.type = "int" THEN <<"int", IntOf[part]>> ELSE <<"string", part>>]
    IN  [j \in 1 .. Len(holes) |-> Read(written[holes[j]], Split(path)[holes[j]])]

\* The parameters a route finds are those of its own pattern and of this path:
\* none is left over from a route that did not fit or from an earlier call of
\* next on the same request, and none is missing.
ParamsOwn == RouteEntered => req.params = OwnParams(Top.chain, req.path)

\* The path a reader of the registration expects: prefixes and pattern joined by
\* one slash each.  Groups for "/" are left out, what they hold gets two, and so are
\* prefixes that are written with two in a row, which stay there.
Expected(e) == FlattenSeq([k \in DOMAIN e.groups |-> NonEmpty(e.groups[k])]) \o e.pattern
IsPlain(prefix) == prefix # <<Empty>> /\ Empty \notin Range(Front(prefix))
Plain(entries) == {e \in entries : \A k \in DOMAIN e.groups : IsPlain(e.groups[k])}

\* A request for an endpoint, in groups or not, their prefixes written with a
\* slash at the end or without, opens its stream and never reaches the chain.  (The
\* tables are looked up by the exact string, where the router drops slashes.)
EndpointReached ==
    pc = "enter" /\ stack = <<Frame(0, 1)>> =>
        /\ req.ws => \A e \in Plain(app.asked.ws) : Expected(e) # req.path
        /\ req.method = "GET" => \A e \in Plain(app.asked.sse) : Expected(e) # req.path
        /\ \A e \in Plain(app.asked.stream) : Expected(e) # req.path

\* The onion: whatever runs has every layer registered before it around it, in
\* the order of registration, the server's outside the route's, and the
\* handler all of them.
OnionOrder ==
    \A k \in 1 .. Len(stack) :
        LET depth == IF stack[k].chain = 0 THEN k ELSE k - (Len(app.layers) + 1)
        IN  /\ CodeOf(stack[k]) = IF depth <= Len(LayersOf(stack[k].chain)) THEN depth ELSE Inner
            /\ stack[k].chain > 0 => IsDispatch(stack[Len(app.layers) + 1])

\* A standard exception of a handler or of a route's middleware never reaches
\* the server's middleware, nor the connection: dispatch answers 500.
HandlerErrorContained ==
    value.kind = "std" /\ (pc = "failed" \/ (pc = "thrown" /\ Top.chain = 0 /\ IsLayer(Top))) =>
        value.by[1] \in {"layer", "file"}

\* A client that keeps the connection stays in step: the bytes it takes for the
\* body are those that are sent, with the Content-Length of a handler or of the
\* server, also for HEAD, where GET routes and files lose theirs, and after an
\* earlier call of next with another method.  (Not for the 404 to HEAD nor for HEAD
\* routes, nor with layers of the route's own, which may have had the method
\* rewritten below dispatch, nor for what user middleware answers.)
OfServer(by) ==
    CASE by[1] = "file" -> TRUE
      [] by[1] = "notFound" -> req.method # "HEAD"
      [] by[1] \in {"handler", "error"} ->
            /\ app.routes[by[2]].layers = <<>>
            /\ req.method = "HEAD" => app.routes[by[2]].method = "GET"
      [] by[1] = "layer" -> app.layers[by[2]] = "cors"
      [] OTHER -> FALSE

ClientInStep ==
    /\ pc \in {"running", "returned", "done"} /\ value.kind = "response"
    /\ pc = "returned" => Top.chain = 0 /\ IsLayer(Top)
    /\ OfServer(value.by)
    => Taken(req.method, SerializeInto(value.res)) = value.res.body

\* The reference definition of a file for a path with no doubled slash: what a mount
\* holds under the rest of the path, or its index file there, if no part of its
\* name has two dots.
Unslashed(prefix) == IF Last(prefix) = Empty THEN Front(prefix) ELSE prefix
Wanted(mount) == IF Last(req.path) = Empty THEN Append(Front(req.path), mount.index) ELSE req.path
Holds(mount, place) ==
    /\ place \in DOMAIN disk \ Outside /\ log[disk[place]].size <= mount.maxSize
    /\ place[1] = mount.dir /\ Range(place[2]) \cap Dotted = {}
    /\ Unslashed(mount.prefix) \o place[2] = Wanted(mount)

\* "First match wins": the file that is served is the one of the first mount that
\* has it, a mount that has it not hides none of those after it, and the answer
\* is 404 only if none has.
FirstMountServes ==
    /\ edits = 0 /\ value.kind = "response" /\ value.by[1] \in {"file", "notFound"}
    /\ req.method \in {"GET", "HEAD"}
    /\ Empty \notin Range(Front(req.path))
    => LET mounts == app.asked.mounts
           holding == {k \in DOMAIN mounts : \E place \in DOMAIN disk : Holds(mounts[k], place)}
       IN  IF holding = {} THEN value.by[1] = "notFound"
           ELSE \E k \in holding : /\ \A j \in holding : k <= j
                                   /\ value.by[1] = "file"
                                   /\ Holds(mounts[k], value.file.place)

\* Each time a file is saved, more than a second has passed on its clock.
SavedApart ==
    \A v, w \in DOMAIN log :
        v < w /\ log[v].place = log[w].place => log[w].mtime - log[v].mtime > Second

\* The answer to a client that asks for the file it has a copy of.
StillGood ==
    /\ value.file.status = 304 /\ value.file.place = copy.place
    /\ SavedApart

\* Whatever is saved or removed while the file is served, and while it is looked
\* at again, a client is never told to go on with what is of an older version
\* than the one whose time was read.
NotModifiedIsCurrent == StillGood => copy.version = value.file.version

\* A file saved while it is served may reach a client in part, cut to the size
\* it had before.  A client that asks again by the ETag gets the whole: it is
\* never told that the part is good.  (One that sends the date as well is: the
\* date is compared although the ETags differ.)
CutCopyRepaired == StillGood /\ req.date = <<>> => copy.size = log[copy.version].size

\* Behind cors() every answer has the header: those of handlers, files and other
\* middleware, 404 and 500, and the preflight's.
CorsOnEveryAnswer ==
    pc = "done" /\ value.kind = "response" /\ app.layers # <<>> /\ app.layers[1] = "cors" =>
        HasHeader(value.res, "Access-Control-Allow-Origin")

-----------------------------------------------------------------------------
(* What the documentation says and the code does not do                      *)

\* "Per-route middleware runs only on specific routes": it runs, so it exists.
RouteLayersAlive == pc = "running" => Storage(Top) = "alive"
=============================================================================
