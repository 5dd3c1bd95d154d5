# Lundi in TLA+

Lundi is a header-only C++20 HTTP/WebSocket server on Asio (`src/include/lundi`).
This directory holds TLA+ models of its moving parts, the TLC configurations that
check them, and TLAPS proofs about six of them. Every definition is translated
from the source; `PROJECT.json` gives, for each, the lines it stands for.

    tlc -workers 2 -config MCServer.cfg MCServer      # check a run
    tlapm ServerProofs.tla                            # check the proofs of a module

## 1. The system

| component | state | operations | code |
|---|---|---|---|
| server | io_contexts, work guards, thread pool, one relaxed counter per worker, acceptor, `shutting_down_` | `listen`, `accept_loop`, signal handler, destructors | `server.hpp` 297-374, 555-591; `core.hpp` 889-914 |
| connection | socket, read buffer, write buffer, request, `keep_alive`, `request_count`, `conn_guard` | `handle_connection`, `read_headers`, `read_headers_with_timeout` | `server.hpp` 443-500, 607-823 |
| read buffer | vector, read and write position | `ensure_write`, `commit`, `consume`, `clear` | `engine/buffer.hpp` |
| header scan | resume position | `find_header_end` | `engine/header_scan.hpp` |
| date cache | two buffers, an atomic index, `last_epoch_` | `update`, `get` | `engine/date_cache.hpp` |
| date timer | a timer and the function it calls | `spawn_date_timer` | `server.hpp` 427-441 |
| router | routes: method, segments, handler | `add`, `parse_pattern`, `resolve` | `router.hpp` |
| registration, groups | tables of routes, ws, sse, stream, mounts, layers | `get` .. `patch`, `sse`, `ws`, `stream`, `use`, `group` | `server.hpp` 84-290 |
| middleware, dispatch | compiled chain | `compile`, `dispatch` | `middleware.hpp`, `server.hpp` 392-405, 502-552 |
| websocket | socket reference, `max_message_size_` | `read`, `send`, `send_binary`, `ping`, `close` | `ws.hpp` |
| chunked stream | socket reference, `finished_` | `write`, `finish` | `chunked.hpp` |
| server-sent events | socket reference | `send`, `heartbeat` | `sse.hpp` |
| static files | mounts | `mount`, `try_serve` | `static_files.hpp` |
| request, response | plain data | parsers, builders, `serialize_into` | `core.hpp`, `engine/fast_itoa.hpp` |

How they interact. The main thread runs the accept loop and the signal handler on
one io_context, so those two alternate only where the loop is suspended. Each
worker thread runs the coroutines of its connections on its own io_context. The
two sides share the counters `conn_counts`, read by the accept loop and
decremented by the guards of the connections, the flag `shutting_down_`, the
calls of `io_context::stop()`, and the date cache, written from the main thread
and read by every response. A connection's coroutine calls the compiled
middleware chain, which calls `dispatch`, which calls the router and a handler,
or else searches the mounts of static files, whose content other processes change;
or it hands its socket to a ws, sse or stream handler.

What is hard: the choice of a worker that is stale when used; counters with
three kinds of writers; teardown in the order of C++ destructors while threads
run; reads cut anywhere, pipelined requests and a buffer that moves; two timers
raced against reads; coroutines destroyed where they are suspended; a lock-free
double buffer; user middleware that calls the rest of the chain as it likes; a
file looked up, sized, dated and read by calls between which it may be saved
again; the lengths and control frames of WebSocket. Each hazard is listed at its line in
`PROJECT.json`, with the properties that would catch it or the reason none does.

What makes each component correct:

- server: counters exact, load even, no use after destruction, connections
  served, a `listen()` that ends after a signal (and drains, the documentation says);
- connection: requests framed by exactly the bytes they declare, one answer each
  and in order, limits kept, no client without end where a timeout is promised,
  views valid while handlers use them;
- header scan: the first terminator, found as soon as it has arrived;
- date cache: no torn and no stale date; date timer: the date follows the clock;
- router, groups, dispatch: the first fitting route, with its own parameters,
  inside every layer, in the order of registration; errors answered; an announced
  length that is the length a client of that method reads;
- static files: the file of the first mount that has it; no 304 for a copy that is
  not good;
- websocket: messages and pongs in order, the right close code, decodable lengths;
- chunked stream: a stream that has ended is terminated;
- server-sent events: the client gets the events sent, whatever else is sent.

## 2. Modules

| module | models | state and actions |
|---|---|---|
| `Server` | `listen()`, accept loop, workers, signal, teardown | `phase` is the place of the main thread in `listen()`, `loop`/`idx`/`best` the accept coroutine and its scan, `count` the counters. `BeginScan`, `ScanStep`, `AwaitAccept` split the scan at each load, since workers decrement between any two; `Start`, `Resume`, `Suspend`, `Finish` are a coroutine seen from its io_context; `Signal` .. `Return` follow the handler and then the destructors |
| `Connection` | the coroutine of one connection, with the read buffer | `pc` is its suspension point or the stretch it is about to run; bytes are tokens `<<i, k>>` of a script of requests; `Scan`/`Receive` are `read_headers`, `Body`/`ReceiveBody` the body, `gen` counts how often the buffer's storage was replaced |
| `HttpSession` | what a connection promises its client | the abstract specification `Connection` is shown to implement |
| `HeaderScan` | `find_header_end` under its reading loop | the SSE2 loop by blocks of `Width` (`BlockHit`, `BlockMiss`), the scalar loop by positions |
| `DateCache` | the double buffer and its readers | formatting and copying one piece at a time |
| `DateTimer` | who owns the timer; extends `DateCache` | `TickUpdate`, `Arm`, `Leave`, `Handler` |
| `StaticFiles` | `static_file_handler` and the file system it reads | `disk` says which version of a file is where, `log` what each version was; `probe` is where `try_serve` is: `FindFile`, `ReadSize`, `ReadMtime`, `ReadFile` are its calls of the file system, `Pass` the next mount; `Save` and `Unlink` are other processes |
| `HttpResponse` | `response`, `serialize_into` and how a client finds the end of what it writes | operators; a body is its size |
| `Dispatch` | registration and groups, lookup of the streams, chain, `dispatch`, router, route chains, `cors` and `logger`; extends `StaticFiles` and `HttpResponse` | `stack` holds the coroutines in progress; middleware and handlers of the user are choices: call `next` again, rewrite the request, answer, throw, catch. `TryFiles`, `SearchFile`, `ServeFile`, `SearchThrows` are the part of `dispatch` that asks the mounts; `copy` is what a client keeps of a file, with which `Revalidate` asks again |
| `WebSocket` | `read()` and `write_frame` under a handler's loop | one frame of the script at a time: header, payload, action |
| `Chunked` | the writer and the end of its connection | |
| `Sse` | the event stream, from the response head to the end of the connection | `wire` is the lines written, `Received` what an EventSource makes of them |
| `MC*` | values of constants for TLC | |
| `Selections` | picking parts of a sequence: `Those` | used by `Dispatch` (the parts of a path) and `WebSocket` (the messages of a script) |
| `ServerProofs`, `HeaderScanProofs`, `DateCacheProofs`, `ConnectionProofs`, `WebSocketProofs`, `DispatchProofs`, `AnswerProofs` | theorems and proofs | each extends the module it is about; `DateCacheProofs` extends `DateTimer`, and so `DateCache`. `DispatchProofs` is about the way to the answer (chain, router, endpoints), `AnswerProofs`, which extends it, about what is given back (files, mounts, lengths, types) |
| `SequenceLemmas` | what the proofs need of induction, of recursive functions, of `Those` and of the folds of `SequencesExt` | |

`Server` and `Connection` meet in `Start`/`Resume`/`Suspend`/`Finish` of the one and
`Connection`'s actions of the other (a stretch of `pc`s between two waits is one
resumption), `TornDown` of `Connection` being `Destroy` of `Server`; the connection's
states `upgrading` and `streaming` are where `WebSocket`, `Sse` and `Chunked` take over,
and its state `dispatch` is a whole behaviour of `Dispatch` up to `done` or `failed`. Its
state `escaped` is `Abort` of `Server`: an exception that is no `std::exception`
passes the completion handler of `spawn_safe` and leaves the thread. `Scan` of `Connection`
takes as given what `HeaderScan` establishes.

### Choices a reader should know of

- A relaxed load is taken to return the newest value of its counter. The C++
  memory model allows an older one; coherent hardware does not for long.
- In `HttpSession` an answer is the last one if *the server* announced it so with
  `Connection: close`.
- `WebSocket`'s handler follows the loop documented at `ws.hpp` 222-228: it does
  not call `read()` again after it returned nothing. Sends fall between two reads.
- Lengths in `WebSocket` are numbers below 2^31, the range of TLC's integers, their
  wire form a sequence of bytes; the payload is its size. The constant that the accept key is derived from
  (`ws.hpp` 174) is data and not modelled; it differs from the one of RFC 6455.
- Reserved opcodes reach the handler as messages in the code; the frames of the
  runs have the opcodes of `ws_opcode`.
- A written path in `Dispatch` is the sequence of what stands between slashes, so a
  prefix or pattern without its leading slash is not represented.
- A modification time in `StaticFiles` counts ticks, `Second` of them to a second.
  An ETag holds the seconds since an epoch that lies in the future, so they are
  rounded up; a date is converted by reading two clocks one after the other and
  may come out a second early for a time on a whole second (`Dates`).
- `ReadFile` opens and reads in one step: a file that is rewritten in place while
  it is read is not represented, one that is replaced between the calls is.
- In `Sse` a NUL is a mark on the line it begins, and the text of a line is whole.

## 3. Runs

Passing runs:

| run | shows | bounds |
|---|---|---|
| `server` | `CountExact`: a worker's counter is the number of connections charged to it, at every moment. `BoundedStaleness`: the choice is off by no more than what has closed since. `Balanced`: without closes the workers are even to within one. `NoUseAfterDestroy`. `Served` and `ListenEnds` (liveness): after a signal, or a foreign exception on a worker, `listen()` returns or the process is gone; only a startup that fails after its first thread hangs | 3 workers, 3 connections, threads guaranteed for 2 of the workers. Three workers are the fewest for which a scan replaces its best choice twice; three connections let one be closed, one chosen for and one waiting at once |
| `connection` | `InStep`, `OwnBody`: framing. `BufferFits`. `AnsweredInOrder`. `ImplementsSession`: refinement of `HttpSession`. `FirstRequestBounded`, `BodyBounded`, `ResetEnds` (liveness) | every pair of a request that keeps the connection and one of any kind (heads and bodies of 1 to 6 tokens, undeclared, over-declared, unparsable and too long bodies, upgrades), and pipelines of three and four that reach the keep-alive limit of 3. A capacity of 2 and chunks of 2 make every head and body cross a growth |
| `header_scan` | `FoundIsFirst`, `WaitsOnlyWithoutHead` | all streams of 6 bytes over CR, LF and another, all of 9 with a terminator in the middle; blocks of 2; every cut into reads, up to a limit of 6 bytes before a read |
| `date_cache` | `CleanUnlessOvertaken`, `NoneStale`, `ActiveIsWhole` | two readers, two pieces, four seconds: enough for an update to overtake a reader twice |
| `dispatch` | `RightHandler`, `ParamsOwn`, `EndpointReached`, `OnionOrder`, `HandlerErrorContained`, `CorsOnEveryAnswer`. `ClientInStep`: a client reads as the body of the answer what was sent as such. `FirstMountServes`. `NotModifiedIsCurrent`, `CutCopyRepaired`: a 304 sends a client back to a copy only if that is whole and of the version now on disk | up to two layers, each of the user's calling `next` up to twice (`MaxCalls`); overlapping routes of all segment kinds, in nested groups; routes with layers of their own; paths with doubled slashes and more parts than fit (2 here, 16 in the code); two or three overlapping mounts; two saves or removals (`MaxEdits`), one while the file is served and one before it is asked for again being what a stale copy takes; times within a second, a second apart and more. Files change only in applications without layers of the user's (`FilesOnly`) |
| `websocket` | `DeliveredInOrder`, `PongsInOrder`, `CloseSaysWhy`, `PeerDecodes`, `ResetEnds` (liveness) | all scripts of two frames with payloads at 125/126, 65535/65536 and the limit, all of three control or refused frames; cut or reset anywhere; one send of each kind in between |

Runs in which TLC finds the program to differ from what it says of itself:

| run | finding |
|---|---|
| `drained` | A signal stops the workers' io_contexts and destroys the coroutines where they are. The README says that a shutdown drains active connections |
| `header_views` | `ensure_write` for a body that does not fit replaces the storage that the method, path and headers of the parsed request point into; the handler runs with dangling views. `core.hpp` 441 says that they are valid until the buffer is consumed |
| `date_timer` | The timer and its callback are locals of `spawn_date_timer`; both are gone when it returns, and the date is never updated again. `server.hpp` 426 says every second |
| `route_layers` | A route's own middleware is compiled into pointers into a local chain. The README documents per-route middleware |
| `stream_terminated` | Nothing calls `finish()` after the handler. `chunked.hpp` 20 and 99 say that it is done |
| `sse_heartbeat` | `heartbeat()` sends 14 bytes of a literal of 13: the NUL becomes the first character of the next line, whose field the client then does not know. An event of one data line is lost. `sse.hpp` 93 says that clients ignore heartbeats |

Not stated as properties, and visible in the models: `req.body` is a view of a temporary
string that is gone at the end of the statement (`server.hpp` 785, `bodyView` of
`Connection`); global middleware does not see ws, sse and stream routes; endpoints
in a group for `"/"` are registered under a path with two slashes, which the exact
lookup of the endpoints never finds (routes are not affected, the router drops empty
parts); a 404 to HEAD has a body, which a client that keeps the connection takes for
the start of the next response; a request for a mount's prefix without its slash is
an exception that closes the connection; `max_header_size` may be exceeded by one
read; data with an end of line in it is cut at that by the clients of an event stream.

The runs of `Server` do not check for deadlock because of the startup that hangs, which
`ListenEnds` states and `FailedStartupHangs` proves; `DateTimer`'s does not because the
clock stops at its bound.

### What the two properties on copies leave out

`NotModifiedIsCurrent` and `CutCopyRepaired` assume that a place is only ever saved with
a time more than a second after the one before (`SavedApart`), and that the answer is
about the same place. Without the first, two saves within a second have one date, and
of one size one ETag; with a gap of one second the two-clock conversion may still make
the dates equal. Without the second, a removed file may uncover an older one in a later
mount. TLC finds both. `CutCopyRepaired` is moreover only for a client that sends no
date: a file saved between `file_size` and `read` goes out cut to its old size, with the
time of the new version; the next `If-Modified-Since` is answered 304, although the
`If-None-Match` beside it differs, since the code compares the date all the same
(`static_files.hpp` 476-485). The part is then kept for good.

Every property of a passing run has a mutation of the model (`PROJECT.json`,
"mutants") under which TLC finds it violated: a guard dropped, a bound off by one,
a step in the wrong order.

### Fairness

- `Server`: weak fairness of the main thread and of each worker in a coroutine
  (the operating system schedules threads; handlers suspend or end), strong
  fairness of the first resumption of each connection: an io_context runs its
  queue in order, so a coroutine posted to it gets its turn although others keep
  the thread busy in between. Clients, signals and failing calls are not fair.
- `Connection`: weak fairness of the coroutine's own steps and of the two timers.
  Nothing is assumed of the client: it may stop sending or taking at any point.
- `WebSocket`: weak fairness of the coroutine, and of a handler that reads again or
  ends. Nothing is assumed of the peer.

## 4. Proofs

`ServerProofs`, for any number of workers, sure threads and (finitely many)
connections, from `WorkersAssumption`, `SureThreadsAssumption` and
`ConnsAssumption`: `TypeOK`, `CountExact`, `BoundedStaleness`, `Balanced` and
`NoUseAfterDestroy` are invariants of `Spec`, hence of `FairSpec`, and
`FailedStartupHangs`: once a thread was created and while the guards are there, `listen()`
has not returned, the safety half of `ListenEnds`. None but the types is inductive
alone. The invariant is the conjunction of

- `TypeOK`;
- `BacklogInv`: the backlog holds each connection at most once, and exactly those
  with that status, so an accept charges a connection nobody has been charged for;
- `CurrentInv`: the thread of a worker is in a coroutine only if that is active
  and belongs to the worker, so the guard that runs gives back a charged slot;
- `CountExact` itself;
- `ScanInv`: while the scan runs, its best count is at most the counter of every
  worker it has passed plus what has been given back there since;
- `GuardInv`: as long as the guards are alive and the process is, no worker is
  stopped and no thread has left `run()`;
- `ShutdownInv`: which threads have been joined and which contexts destroyed in
  each phase, and that a thread that has left `run()` is in no coroutine.

Each group of actions has a lemma (`AcceptStep`, `FinishStep`, `DestroyStep`, ..)
with a step per conjunct it can disturb; the cardinality facts about `Counted` are
the library's theorems on finite sets.

`Balanced` compares what a worker holds with what another *has been given*, over the
whole run, so it needs two facts more (`BalanceInv`): itself, and `FreedInv`, that what
has been given back since the scan began is no more than what has ever been closed. The
step that can break it is the accept (`AcceptBalance`): the worker chosen is then at
most one above its own counter, which by `CountExact` is what it holds, and by
`BoundedStaleness` at most what another holds plus what that has given back since.

`HeaderScanProofs`, for every alphabet, set of streams, block width and size
limit: `TypeOK`, `FoundIsFirst` and `WaitsOnlyWithoutHead`. The invariant says that
no terminator starts before the position the scan has reached, where a resumed
scan has backed up three bytes: a terminator in the longer prefix that starts
before that position lies wholly in the shorter one (`TerminatorBounds`,
`TerminatorStable`), where the scan had found none.

`DateCacheProofs`, for any number of readers and pieces of a date: `TypeOK`,
`ActiveIsWhole`, `CleanUnlessOvertaken` and `NoneStale`. The invariant adds what the
buffer being formatted holds so far (`WriterInv`), which second the other one holds
(`PointerInv`), and for each reader which pieces of its copy are of the second it
started with as long as no update has overtaken it (`CopyInv`). `TimerImplements`: every
behaviour of `DateTimer` is one of `DateCache`, so these hold of the server's cache
however the timer goes.

`ConnectionProofs`, for every set of scripts, every capacity, chunk and limit, from
`ScriptsAssumption` and the assumptions on sizes in `Connection`: `TypeOK`,
`BufferFits`, `InStep`, `OwnBody`, `AnsweredInOrder`, and `ConnectionImplementsSession`,
the refinement of `HttpSession`. The properties speak of what a handler sees; the
invariant says where the bytes are:

- `Aligned(a)`: buffer, the body being read into it and what is still to come are
  consecutive stretches of the client's stream, of which `a` tokens are consumed;
- `HeadInv(a)`: `headerEnd` is the end of the first head in the buffer, the head of
  request `who`; between requests what is consumed includes the head served last;
- `FrameInv(a)`: as long as every earlier request declared its body, the first
  unconsumed token is the first of request `who` while that is served, of the next
  one in between, and `who = requestCount`;
- `SizeInv`: what is allocated, declared, read and missing in each state;
- `SessionInv`: the keep-alive limit is not passed and no announced end is behind;
- `OutInv`: `AnsweredInOrder`, with every answer to a request before the one served.

`InStep` alone is not inductive: that the next request is met from its first byte
depends on `consume()` taking exactly a head and its body, which is said of the stream
and not of the requests. The lemmas on the stream (`StreamIsFirstRequests`,
`StreamOrdered`, `SameRequest`) say where in a script's stream heads begin and end; they rest on
induction over `FlattenSeq`, which `SequenceLemmas` does for the set of the numbers that
have the property, through the library's theorem on well-founded sets (the library's
own induction theorems take an operator, which the provers cannot instantiate). TLC has
checked this invariant, `IInv`, on the constants of the run `connection` (94590 distinct
states) before it was proved. For the refinement, each action is shown to be a step of
`HttpSession` (`SessionStep`) or a stutter, given the invariant.

`WebSocketProofs`, for every set of scripts (frames of any opcode of `ws_opcode`, fragmented
or not, of any length in any of its encodings), every limit on the size of a message
below 2^31 and every number of frames the handler sends: `TypeOK`, `DeliveredInOrder`,
`PongsInOrder`, `CloseSaysWhy` and `PeerDecodes`. The properties compare what has been
read with what has been written; between the two the invariant puts

- `ReadInv`: which piece of which frame `read()` is at, that its copy of opcode, fin and
  size is that frame's, that no frame before it ends the connection, and that what it
  is about to do suits the frame;
- `MessageInv`: the message that is complete and not yet returned is the only one the
  handler lacks;
- `PongInv`: the ping that has no pong is the last one, its pong is due, or the write of
  it met a reset and the loop is over;
- `CloseInv`: `read()` has written no close frame, or one, with the reason of the frame it
  stopped at, and has given up;
- `SequencesTyped`: every frame written is one `write_frame` makes of a length below the
  limit.

None of the first three properties is inductive alone: that a pong carries its ping's
size depends on `size` being that of the frame read last while control goes through
`Complete`, and that nothing is delivered after the end on `pc` never returning to
`user` after such a frame. `Those` selects by recursion over a sequence; `ThoseAppend` says what it
does when the sequence grows by one, which is all a step does. `PeerDecodes` rests on
`LengthDecoded`: decoding the bytes of a length gives the length, on both sides of 126 and
65536, by the division of a number into its bytes (`FourBytes`). TLC has checked the
conjuncts of this invariant on the constants of the run `websocket` (200135 distinct
states).

`DispatchProofs`, for every set of applications and requests, every content of the
mounts and every bound on calls of `next`: `OnionOrder`, `HandlerErrorContained` and
`CorsOnEveryAnswer`. `CompiledInOrder` says, by induction over the layers, what `compile()`
leaves at each place of a chain. The invariant of a request adds

- `WellStacked(stack)`: the coroutines in progress are the server's layers from the
  outermost one in, then `dispatch()`, then the layers and the handler of one route, each
  at the place of its chain that its depth says;
- `ControlInv`: which of them can be on top at each `pc`: only a layer or a handler
  runs, only `dispatch()` searches the mounts;
- `IsValue(value)`: what comes back has the parts of a response, so a header that
  `cors()` sets is found in it again.

`OnionOrder` follows from `WellStacked`. The other two are conjuncts of the invariant, kept
by what a return may be (`LeaveInv`): an exception that crosses from `dispatch()` to the
layers comes from a layer or the file search, since `dispatch()` catches the others, and
what leaves the first layer, if that is `cors()`, is what it has stamped.

In the same module are `RightHandler` and `ParamsOwn`, which compare what
the tables and the lookup do with what the application wrote, and so need both ends:

- registration: `PrefixFlat`: prefixes joined as strings, each with one slash trimmed off its
  end, and a pattern behind them have the same parts as all of them in a row
  (`TrimmedSame`, `NonEmptyAfter`);
- one route: `MatchIs`: the walk of `match_route` fits if there are as many parts as segments
  and each takes its part, and then holds one parameter per hole;
- all routes: `ResolveIsFirst`: what `resolve()` returns is the first that fits, with the
  parameters of that attempt alone (`params.clear()` before each);
- `TakesIsFits` puts them together with the reference definitions `Fits` and `OwnParams`.

Over the steps the invariant needs one fact more, `MissedInv`: the mounts are asked only
while no route fits, as the 404 comes several steps after the lookup. It holds since the
request is only rewritten by a middleware that runs, and none does while `dispatch()`
searches.

`EndpointReached`, last in this module, needs both ends of the registration too. `PathExpected`:
the path a websocket, an event stream or a chunked route gets from its groups, trimmed once
and joined as strings, is the prefixes' parts and its pattern, if no prefix is a bare slash
or has two slashes in a row. (With such a prefix the table has a path that nobody
expects, and the property leaves these out.) Over the steps, `EnteredInv`: the chain is
entered at its first layer only by a request that none of the three tables has.

`AnswerProofs`, for the same constants, begins with `NotModifiedIsCurrent` and
`CutCopyRepaired`, about what `try_serve` tells a client of a file that changes under it. It
reads the size, the time and the bytes of a file in three calls, each of which may meet another version, so the invariant (`FilesInv`) says of which
version each piece is, in terms of the log of all that was saved:

- `Kept`: what is on disk at a place is the last version saved there;
- `Read`: the size that was read is of a version no older than the client's copy, the
  validators were made of the time of some version;
- `Sent`: a file that goes out has the validators of a version no newer than its bytes;
- `Told`: a 304 is for a version no older than the copy, and was given since the ETag sent
  is made of that version's time and of the size of a version between the two, or since
  the date sent is no earlier than one of its dates;
- `Asked`: the client sends validators of the copy it has.

Saves only append to the log, so all this stays true under them (`GrownKeeps`). The
theorems are then arithmetic (`ToldIsCopy`): if a second lies between any two saves, the
later time has another ETag and later dates, whichever way the two-clock conversion rounds
(`TimesApart`); so the version whose validators came back is the one on disk, and with it
that of the copy, which lies between.

`ClientInStep` is about a response at the place where the client or the server's middleware
gets it, but whether its length is right is settled where it is made, often below
several returns. The invariant (`FramingInv`) follows a value up the stack:

- `Fine(method, res)`: the body is empty where the method or the status has it so, and
  otherwise no `Content-Length` says anything but its size. Then the client takes for the body
  what is sent (`TakenIsBody`); builders, `set_header` and `cors()` keep it;
- `Below`: a route without layers has nothing but its handler above `dispatch()` on the
  stack, and `dispatch()` remembers rightly whether a GET route stands in for HEAD, since
  no middleware runs below it that could rewrite the method;
- `Wrapped`, `HandedUp`: what comes back to `dispatch()` is of that route, and fine unless
  `dispatch()` is still to take the body away;
- `Framed`: above `dispatch()`, all that the server has made is fine.

`DispatchTypes` (`TypeOK`) needs of the data that calls of `next` are counted within their
bound (`Counted`) and that a lookup never makes more parameters than there are slots
(`ResolveFits`), of the control what `IInv` says of `pc` and `stack`.

`FirstMountServes` compares the mount the search ends at with a reference definition,
`Holds`, on whole paths. `HoldsIs`, without any step, puts the code's way (prefix cut off,
index appended, slash stripped, empty parts dropped by the file system) next to it: with no
doubled slash in the path, a mount is able to serve if and only if it holds a file. Over
the steps, and as long as nothing is saved or removed, `MountInv` says that no mount before
the one being searched serves (`NoneBefore`), that place and size that have been read are
this mount's (`Searching`), and that what has been given back says the same of the answer
(`GivenBack`), which stays true while the layers hand it on: a middleware rewrites the
request only for another call of `next`, which starts without an answer.

TLC has checked the conjuncts of all these invariants on the constants of the run
`dispatch` (429252 distinct states). Proving showed where two properties were stated too
loosely: `EndpointReached` did not exclude prefixes with doubled slashes, and
`FirstMountServes` overlooked doubled slashes in a mount's prefix and dots in the name of an
index file. Each was false of applications that no run has; as stated now they hold of all.

Assumptions are on constants only: sets finite where they are counted, sizes natural
numbers, scripts sequences of requests whose heads are not empty, layers of the known kinds,
routes, groups, patterns, mounts and paths sequences, those of requests, mounts and files
of one part at least, no empty part in the name of a file, times integers, at least one
call of `next`, and each place at most once in what is on disk at first. TLC evaluates
each in the runs that extend the module.

Only model-checked: the liveness properties and whatever rests on fairness (`Served`,
`ListenEnds`, `FirstRequestBounded`, `BodyBounded`, `ResetEnds`), which is out of the
provers' reach. Every invariant of a passing run is stated by a theorem.
The six runs that expect a violation need no proof.

## 5. Not modelled

- The request parsers for queries, cookies and multipart bodies, and `url_decode`:
  pure functions on bytes that no other part's control depends on. `Connection` takes
  the request a head encodes as given, `Dispatch` its decoded path.
- MIME types, the `Cache-Control` text, the texts of response heads, `fast_itoa`.
- The write buffer, private to one coroutine and append-only: `HttpResponse` takes it
  for the sequence appended to it.
- The WebSocket handshake (SHA-1, Base64), two coroutines writing to one websocket,
  and the growth of the chain of coroutine frames over a run of control frames.
- `handler_fn`, examples, tests.

## 6. Plan

Done: `Server`; `Connection`, `HttpSession`; `HeaderScan`; `DateCache`, `DateTimer`;
`StaticFiles`, `HttpResponse`, `Dispatch`; `WebSocket`; `Chunked`; `Sse`; the proofs of
section 4. To come, in this order:

1. A second writer in `WebSocket` (a handler that spawns a sender): frames whose
   partial writes interleave, a pong in the middle of a message.
2. A composition of `Server` and `Connection` for two connections, which replaces
   `Suspend` and `Finish` by the connection's own steps.
3. The parsers as operators checked against a reference over bounded inputs.
