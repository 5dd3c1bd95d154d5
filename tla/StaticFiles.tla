----------------------------- MODULE StaticFiles -----------------------------
(***************************************************************************)
(* static_file_handler: the mounts a request's path is tried against, one    *)
(* after the other, and the calls of the file system one file is served      *)
(* with.  Another process may save, replace or remove files between any two  *)
(* of them.                                                                  *)
(*                                                                          *)
(* A path is the sequence of what stands between its slashes.  A place is a  *)
(* directory and a path in it; what is on disk there is a version, that is,  *)
(* an index of the log of all that was ever saved.  Modification times count *)
(* ticks, Second of them to a second: a time is on a whole second or is not. *)
(***************************************************************************)
EXTENDS Integers, Sequences, SequencesExt, Selections

CONSTANTS
    Empty,      \* the part between two slashes in a row
    Dotted,     \* the parts that contain ".."
    Outside,    \* the places whose canonical path leaves their mount
    Disks,      \* logs of what may be on disk at first: each place once
    Sizes,      \* of the files other processes save
    Times,      \* their modification times
    Second,     \* ticks in a second
    MaxEdits    \* bound: what other processes do to the files

IsPath(path) == path \in Seq(Range(path))
NonEmpty(path) == Those(path, {k \in DOMAIN path : path[k] # Empty})

ASSUME SecondAssumption == Second \in Nat \ {0}
ASSUME FilesAssumption ==
    /\ Times \subseteq Int
    /\ \A files \in Disks :
          /\ files \in Seq(Range(files))
          /\ \A v, w \in DOMAIN files : files[v].place = files[w].place => v = w
          /\ \A v \in DOMAIN files :
                LET name == files[v].place[2]
                IN  /\ files[v].size \in Nat /\ files[v].mtime \in Int
                    /\ files[v].place = <<files[v].place[1], name>>
                    /\ IsPath(name) /\ name # <<>> /\ Empty \notin Range(name)

VARIABLES
    disk,    \* place -> version
    log,     \* version -> [place, size, mtime]
    edits,   \* so many saves and removals so far
    probe    \* try_serve: where it is, what it has read, what it answers

fileVars == <<disk, log, edits, probe>>

\* What try_serve gives back: 200 with so much of a version, or 304.  A 304 has
\* no body: version is there the one whose modification time was read.
NoFile == [status |-> 0, place |-> <<>>, version |-> 0, size |-> 0, etag |-> <<>>, date |-> <<>>]

Idle == [step |-> "idle", mount |-> 0, place |-> <<>>, size |-> 0, etag |-> <<>>,
         date |-> <<>>, answer |-> NoFile]

FilesInit ==
    /\ log \in Disks
    /\ disk = [p \in {f.place : f \in Range(log)} |-> CHOOSE v \in DOMAIN log : log[v].place = p]
    /\ edits = 0 /\ probe = Idle

-----------------------------------------------------------------------------
(* Mounts: [prefix, dir, index, etag, lastModified, maxSize], where an Empty   *)
(* index disables the index file                                             *)

IsMount(mount) ==
    /\ mount = [prefix |-> mount.prefix, dir |-> mount.dir, index |-> mount.index, etag |-> mount.etag,
                lastModified |-> mount.lastModified, maxSize |-> mount.maxSize]
    /\ IsPath(mount.prefix) /\ mount.prefix # <<>>

\* mount(): the prefix ends with a slash.
Mounted(mount) ==
    IF Last(mount.prefix) = Empty THEN mount ELSE [mount EXCEPT !.prefix = Append(@, Empty)]

\* Of the prefix /a/ the path /a/x leaves x, and /a/ the empty part.
Under(mount, path) ==
    Len(path) >= Len(mount.prefix) /\ IsPrefix(Front(mount.prefix), path)
Rel(mount, path) == SubSeq(path, Len(mount.prefix), Len(path))

\* The prefix less its last slash passes the same test, and is cut past its end.
CutPastEnd(mount, path) == path = Front(mount.prefix)

WithIndex(mount, rel) ==
    IF Last(rel) = Empty THEN Append(Front(rel), mount.index) ELSE rel
Stripped(rel) == IF Head(rel) = Empty THEN Tail(rel) ELSE rel
Named(mount, path) == Stripped(WithIndex(mount, Rel(mount, path)))

\* The file system drops empty parts, as NonEmpty does.
PlaceOf(mount, path) == <<mount.dir, NonEmpty(Named(mount, path))>>

\* A name that still starts with a slash stands for a file outside.
Servable(mount, path) ==
    /\ Under(mount, path)
    /\ Last(path) = Empty => mount.index # Empty
    /\ Range(Named(mount, path)) \cap Dotted = {}
    /\ Head(Named(mount, path)) # Empty
    /\ PlaceOf(mount, path) \in DOMAIN disk \ Outside

-----------------------------------------------------------------------------
(* Validators                                                                *)

\* duration_cast rounds towards the clock's epoch, which lies in the future.
EtagTime(mtime) == (mtime + Second - 1) \div Second
TagOfSize(size, mtime) == <<0, size>>
TagOfTime(size, mtime) == <<EtagTime(mtime), 0>>
TagOf(size, mtime) == <<EtagTime(mtime), size>>

\* The conversion to the system's clock reads two clocks one after the other:
\* a time on a whole second may come out just before it, and is then cut to the
\* second before.  Each conversion has its own luck.
Dates(mtime) == {mtime \div Second, (mtime - 1) \div Second}

-----------------------------------------------------------------------------
(* try_serve                                                                 *)

\* The next mount, or nullopt.
StopAtMiss(mounts) == probe' = [Idle EXCEPT !.step = "missed"]
Pass(mounts) ==
    probe' = IF probe.mount < Len(mounts)
                THEN [Idle EXCEPT !.step = "find", !.mount = probe.mount + 1]
                ELSE [Idle EXCEPT !.step = "missed"]

Serve(answer) == probe' = [Idle EXCEPT !.step = "served", !.answer = answer]

Here(mounts) == mounts[probe.mount]
Present == probe.place \in DOMAIN disk
Version == disk[probe.place]

TryFirstMount == probe' = [Idle EXCEPT !.step = "find", !.mount = 1]

FindFile(mounts, path) ==
    /\ probe.step = "find" /\ ~CutPastEnd(Here(mounts), path)
    /\ IF Servable(Here(mounts), path)
          THEN probe' = [probe EXCEPT !.step = "size", !.place = PlaceOf(Here(mounts), path)]
          ELSE Pass(mounts)

ReadSize(mounts) ==
    /\ probe.step = "size"
    /\ IF Present /\ log[Version].size <= Here(mounts).maxSize
          THEN probe' = [probe EXCEPT !.step = "mtime", !.size = log[Version].size]
          ELSE Pass(mounts)

\* 304 for what is on disk now, and reading on with the validators made.
NotModified(etag, date) ==
    [NoFile EXCEPT !.status = 304, !.place = probe.place, !.version = Version,
                   !.etag = etag, !.date = date]
Validated(etag, date) == [probe EXCEPT !.step = "read", !.etag = etag, !.date = date]

\* asked holds the ETag and the date the client sends, or <<>> for none.  The
\* date is looked at also when the ETag was sent and differs.
ReadMtime(mounts, asked) ==
    /\ probe.step = "mtime"
    /\ IF ~Present THEN Pass(mounts)
       ELSE LET mtime == log[Version].mtime
                etag == IF Here(mounts).etag THEN TagOf(probe.size, mtime) ELSE <<>>
                dates == IF Here(mounts).lastModified THEN Dates(mtime) ELSE {}
            IN  IF etag # <<>> /\ asked.etag = etag THEN Serve(NotModified(etag, <<>>))
                ELSE \/ dates = {} /\ probe' = Validated(etag, <<>>)
                     \/ \E shown, compared \in dates :
                           IF asked.date # <<>> /\ compared <= asked.date[1]
                              THEN Serve(NotModified(etag, <<shown>>))
                              ELSE probe' = Validated(etag, <<shown>>)

\* A file shorter than its size was passes; a longer one is cut to that size.
\* (Opened and read in one step.)
ReadFile(mounts) ==
    /\ probe.step = "read"
    /\ IF Present /\ log[Version].size >= probe.size
          THEN Serve([status |-> 200, place |-> probe.place, version |-> Version,
                      size |-> probe.size, etag |-> probe.etag, date |-> probe.date])
          ELSE Pass(mounts)

TryServe(mounts, path, asked) ==
    /\ \/ FindFile(mounts, path) \/ ReadSize(mounts) \/ ReadMtime(mounts, asked)
       \/ ReadFile(mounts)
    /\ UNCHANGED <<disk, log, edits>>

-----------------------------------------------------------------------------
(* Other processes                                                           *)

Save(place) ==
    \E size \in Sizes, mtime \in Times :
        /\ log' = Append(log, [place |-> place, size |-> size, mtime |-> mtime])
        /\ disk' = [p \in DOMAIN disk \cup {place} |->
                       IF p = place THEN Len(log) + 1 ELSE disk[p]]

Unlink(place) ==
    /\ place \in DOMAIN disk
    /\ disk' = [p \in DOMAIN disk \ {place} |-> disk[p]]
    /\ UNCHANGED log

Edit(place) ==
    /\ edits < MaxEdits /\ edits' = edits + 1
    /\ Save(place) \/ Unlink(place)
    /\ UNCHANGED probe
=============================================================================
