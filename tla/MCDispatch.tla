----------------------------- MODULE MCDispatch -----------------------------
(* Constants of the TLC runs of Dispatch.                                    *)
EXTENDS Dispatch, TLC

CONSTANTS a, b, n7, n007, x, index, dots, public, dist

Lit(part) == [type |-> "literal", text |-> part]
Num(name) == [type |-> "int", text |-> name]
Str(name) == [type |-> "string", text |-> name]
Hole(name) == [type |-> "", text |-> name]

Route(method, groups, pattern, layers) ==
    [method |-> method, groups |-> groups, pattern |-> pattern, layers |-> layers]
Endpoint(groups, pattern) == [groups |-> groups, pattern |-> pattern]

\* Routes that overlap: a literal, an int and a string in the same place, the
\* same pattern under two methods, one with a hole before a literal; groups with
\* a slash at the end, within the root group, and with a hole in the prefix.
Overlapping ==
    << Route("GET", <<>>, <<Str("s"), Lit(b)>>, <<>>),
       Route("GET", << <<Empty>>, <<Lit(a), Empty>> >>, <<Num("id")>>, <<>>),
       Route("GET", << <<Lit(a)>> >>, <<Hole("name"), Empty>>, <<>>),
       Route("POST", <<>>, <<Lit(a), Num("id")>>, <<>>),
       Route("HEAD", << <<Str("s")>> >>, <<Lit(b)>>, <<>>) >>

Nested ==
    << Route("GET", <<>>, <<Str("s"), Num("id")>>, <<"user", "cors">>), Route("POST", <<>>, <<Lit(a)>>, <<"user">>) >>

App(layers, routes, mounts) ==
    [layers |-> layers, routes |-> routes, mounts |-> mounts,
     ws |-> {Endpoint(<<>>, <<a>>)},
     sse |-> {Endpoint(<< <<b, Empty>> >>, <<x>>)},
     stream |-> {Endpoint(<< <<x, Empty>>, <<a>> >>, <<b>>), Endpoint(<<>>, <<x, Empty>>)}]

\* Mounts that overlap: one under the root, two directories under one prefix,
\* one of them without an index and with small files only.
Mount(prefix, dir, idx, maxSize) ==
    [prefix |-> prefix, dir |-> dir, index |-> idx, etag |-> TRUE, lastModified |-> TRUE,
     maxSize |-> maxSize]

OverRoot ==
    << Mount(<<x>>, dist, Empty, 1), Mount(<<Empty>>, public, index, 2) >>

UnderOnePrefix ==
    << Mount(<<x, Empty>>, dist, index, 2),
       [Mount(<<x>>, public, index, 2) EXCEPT !.etag = FALSE],
       [Mount(<<Empty>>, public, Empty, 2) EXCEPT !.lastModified = FALSE] >>

File(dir, name, size, mtime) == [place |-> <<dir, name>>, size |-> size, mtime |-> mtime]

SomeDisks ==
    { << File(dist, <<index>>, 1, 2), File(public, <<index>>, 2, 2), File(public, <<x, b>>, 1, 3),
         File(dist, <<a, x>>, 2, 2), File(public, <<x, a, x>>, 1, 3) >> }

SomeApps ==
    { App(<<>>, Overlapping, OverRoot), App(<<>>, <<>>, UnderOnePrefix),
      App(<<"user">>, Overlapping, OverRoot), App(<<"user", "user">>, Overlapping, <<>>),
      App(<<"cors", "user">>, Overlapping, <<>>), App(<<"cors", "logger">>, Nested, OverRoot),
      App(<<"user">>, Nested, <<>>) }

Ask(method, path) == [method |-> method, path |-> path, ws |-> FALSE]

SomeRequests ==
    { Ask("GET", <<a, n7>>), Ask("GET", <<Empty, a, Empty, n007>>), Ask("GET", <<a, x>>),
      Ask("HEAD", <<a, b>>), Ask("HEAD", <<a, n7>>), Ask("HEAD", <<x, n7>>),
      Ask("POST", <<a, n7, x>>), Ask("POST", <<x>>), Ask("GET", <<b, x>>), Ask("POST", <<x, a, b>>),
      Ask("POST", <<x, Empty>>),
      Ask("GET", <<Empty>>), Ask("GET", <<x>>), Ask("GET", <<x, a, x>>), Ask("HEAD", <<x, a, x>>),
      Ask("GET", <<x, Empty, b>>), Ask("GET", <<x, dots>>), Ask("OPTIONS", <<a, n7>>),
      [method |-> "GET", path |-> <<a>>, ws |-> TRUE] }

Numbers == (n7 :> 7) @@ (n007 :> 7)
=============================================================================
