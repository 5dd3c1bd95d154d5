---------------------------- MODULE AnswerProofs ----------------------------
(* Theorems of Dispatch on what is given back, for every application, request, *)
(* set of files and bound on the calls of next: what 304 says of a client's    *)
(* copy, how long a client takes a body to be, the types of it all, and which   *)
(* mount a file is from.                                                        *)
EXTENDS DispatchProofs

-----------------------------------------------------------------------------
(* The files, as what is known of them.                                      *)

\* Version v of the log is one of the place p.
OfPlace(l, v, p) == v \in 1 .. Len(l) /\ l[v].place = p

\* The log is a sequence of versions with times, and what is on disk at a place is
\* the last one saved there.
Kept(l, d) ==
    /\ IsSequence(l)
    /\ \A v \in 1 .. Len(l) : l[v].mtime \in Int
    /\ \A p \in DOMAIN d :
          /\ OfPlace(l, d[p], p)
          /\ \A v : OfPlace(l, v, p) => v <= d[p]

\* The validators are made of a size and of the time of version v.
MadeOf(l, v, size, etag, date) ==
    /\ etag = <<>> \/ etag = TagOf(size, l[v].mtime)
    /\ date = <<>> \/ \E seconds \in Dates(l[v].mtime) : date = <<seconds>>

\* A file that is sent has the validators of a version no newer than itself.
Sent(l, f) ==
    f.status = 200 =>
        /\ OfPlace(l, f.version, f.place)
        /\ \E v : /\ OfPlace(l, v, f.place) /\ v <= f.version
                  /\ MadeOf(l, v, f.size, f.etag, f.date)

\* A 304 is for a version no older than the copy of that place, and its time is
\* what the validators that were sent allow, the ETag with a size that some
\* version had that is neither older than the copy nor newer than this one.
Told(l, f, kept, etag, date) ==
    f.status = 304 =>
        /\ OfPlace(l, f.version, f.place) /\ kept.status = 200
        /\ kept.place = f.place =>
              /\ kept.version <= f.version
              /\ \/ \E v : /\ OfPlace(l, v, f.place) /\ kept.version <= v /\ v <= f.version
                           /\ etag = TagOf(l[v].size, l[f.version].mtime)
                 \/ date # <<>> /\ \E seconds \in Dates(l[f.version].mtime) : seconds <= date[1]

\* What try_serve has read so far.
Read(l, pr, kept) ==
    /\ pr.step = "mtime" =>
          \E v : /\ OfPlace(l, v, pr.place) /\ pr.size = l[v].size
                 /\ kept.status = 200 /\ kept.place = pr.place => kept.version <= v
    /\ pr.step = "read" =>
          \E v : OfPlace(l, v, pr.place) /\ MadeOf(l, v, pr.size, pr.etag, pr.date)

\* The client sends validators of the copy it has, if any.
Asked(kept, etag, date) ==
    /\ kept = NoFile \/ kept.status = 200
    /\ etag = <<>> \/ etag = kept.etag
    /\ date = <<>> \/ date = kept.date

\* What is answered is a file, or a 304 with no body, or nothing.
IsAnswer(f) == f.status \in {0, 200, 304} /\ (f.status = 304 => f.size = 0)

IsProbe(pr) ==
    /\ pr = [step |-> pr.step, mount |-> pr.mount, place |-> pr.place, size |-> pr.size,
             etag |-> pr.etag, date |-> pr.date, answer |-> pr.answer]
    /\ IsAnswer(pr.answer)

\* The probe is idle but while the mounts are searched.
InUse(pr, control) == IF control = "files" THEN pr.step # "idle" ELSE pr = Idle

FilesInv ==
    /\ Kept(log, disk)
    /\ IsProbe(probe) /\ InUse(probe, pc) /\ IsAnswer(value.file)
    /\ Read(log, probe, copy)
    /\ Sent(log, probe.answer) /\ Told(log, probe.answer, copy, req.etag, req.date)
    /\ Sent(log, value.file) /\ Told(log, value.file, copy, req.etag, req.date)
    /\ Sent(log, copy) /\ Asked(copy, req.etag, req.date)

-----------------------------------------------------------------------------
(* Times.                                                                    *)

\* What \div is.
LEMMA DivIs ==
    ASSUME NEW x \in Int
    PROVE  /\ x \div Second \in Int
           /\ Second * (x \div Second) <= x /\ x < Second * (x \div Second) + Second
BY SecondAssumption

\* Times a second apart are in different seconds.
LEMMA DivStep ==
    ASSUME NEW x \in Int, NEW y \in Int, y >= x + Second
    PROVE  x \div Second < y \div Second
<1>1. PICK s \in Nat \ {0} : s = Second
    BY SecondAssumption
<1>2. PICK a \in Int : a = x \div Second /\ s * a <= x /\ x < s * a + s
    BY <1>1, DivIs
<1>3. PICK b \in Int : b = y \div Second /\ s * b <= y /\ y < s * b + s
    BY <1>1, DivIs
<1>4. s * a + s < s * b + s
    BY <1>1, <1>2, <1>3
<1>5. a < b
    BY ONLY <1>4, s \in Nat \ {0}, a \in Int, b \in Int
<1>6. QED  BY <1>2, <1>3, <1>5

\* Of files saved more than a second apart the later has another tag, and is later
\* by each of its dates.
LEMMA TimesApart ==
    ASSUME NEW m \in Int, NEW n \in Int, n - m > Second
    PROVE  /\ \A a, b : TagOf(a, m) # TagOf(b, n)
           /\ \A s \in Dates(m), t \in Dates(n) : ~(t <= s)
<1>1. PICK second \in Nat \ {0} : second = Second
    BY SecondAssumption
<1>2. EtagTime(m) # EtagTime(n)
    <2>1. (m + Second - 1) \div Second < (n + Second - 1) \div Second
        BY <1>1, DivStep
    <2>2. (m + Second - 1) \div Second \in Int /\ (n + Second - 1) \div Second \in Int
        BY <1>1, DivIs
    <2>3. QED  BY <2>1, <2>2 DEF EtagTime
<1>3. \A a, b : TagOf(a, m) # TagOf(b, n)
    BY <1>2 DEF TagOf
<1>4. ASSUME NEW s \in Dates(m), NEW t \in Dates(n) PROVE ~(t <= s)
    <2>1. PICK x \in {m, m - 1}, y \in {n, n - 1} : s = x \div Second /\ t = y \div Second
        BY DEF Dates
    <2>2. x \in Int /\ y \in Int /\ y >= x + Second
        BY <1>1
    <2>3. x \div Second < y \div Second
        BY <2>2, DivStep
    <2>4. x \div Second \in Int /\ y \div Second \in Int
        BY <2>2, DivIs
    <2>5. QED  BY <2>1, <2>3, <2>4
<1>5. QED  BY <1>3, <1>4

-----------------------------------------------------------------------------
(* What follows from the invariant.                                          *)

\* A 304 for the copy of a place, of which all versions are saved apart, is for the
\* version of that copy; and if the client sends no date, the copy has the size of it.
LEMMA ToldIsCopy ==
    ASSUME NEW l, NEW d, Kept(l, d), NEW f, NEW kept, NEW etag, NEW date,
           f.status = 304, kept.place = f.place,
           Told(l, f, kept, etag, date), Sent(l, kept), Asked(kept, etag, date),
           \A v, w \in 1 .. Len(l) :
               v < w /\ l[v].place = l[w].place => l[w].mtime - l[v].mtime > Second
    PROVE  /\ kept.version = f.version
           /\ date = <<>> => kept.size = l[kept.version].size
<1>1. PICK n, p : n \in Nat /\ n = Len(l) /\ p = f.place
    BY DEF Kept, IsSequence
<1>2. PICK c, e : /\ c = kept.version /\ e = f.version /\ c \in 1 .. n /\ e \in 1 .. n /\ c <= e
                  /\ l[c].place = p /\ l[e].place = p /\ l[e].mtime \in Int
    BY <1>1 DEF Told, Sent, OfPlace, Kept
<1>3. PICK b : /\ b \in 1 .. n /\ l[b].place = p /\ b <= c /\ l[b].mtime \in Int
               /\ MadeOf(l, b, kept.size, kept.etag, kept.date)
    BY <1>1, <1>2 DEF Told, Sent, OfPlace, Kept
<1>4. b < e => l[e].mtime - l[b].mtime > Second
    BY <1>1, <1>2, <1>3
<1>5. CASE \E v : /\ OfPlace(l, v, p) /\ c <= v /\ v <= e
                  /\ etag = TagOf(l[v].size, l[e].mtime)
    <2>1. PICK v : /\ v \in 1 .. n /\ c <= v /\ v <= e
                   /\ etag = TagOf(l[v].size, l[e].mtime)
        BY <1>1, <1>5 DEF OfPlace
    <2>2. etag # <<>>
        BY <2>1 DEF TagOf
    <2>3. kept.etag = TagOf(kept.size, l[b].mtime) /\ kept.etag = etag
        BY <1>3, <2>2 DEF Asked, MadeOf
    <2>4. ~(b < e)
        <3>1. PICK x \in Int, y \in Int : x = l[b].mtime /\ y = l[e].mtime
            BY <1>2, <1>3
        <3>2. TagOf(kept.size, x) = TagOf(l[v].size, y)
            BY <2>1, <2>3, <3>1
        <3>3. ~(y - x > Second)
            BY <3>2, TimesApart
        <3>4. QED  BY <1>4, <3>1, <3>3
    <2>5. b = e /\ c = e /\ v = e
        BY <1>2, <1>3, <2>1, <2>4
    <2>6. kept.size = l[v].size
        BY <2>1, <2>3 DEF TagOf
    <2>7. QED  BY <1>2, <2>5, <2>6
<1>6. CASE date # <<>> /\ \E seconds \in Dates(l[e].mtime) : seconds <= date[1]
    <2>1. PICK t \in Dates(l[e].mtime) : t <= date[1]
        BY <1>6
    <2>2. PICK s \in Dates(l[b].mtime) : date = <<s>>
        <3>1. kept.date = date /\ kept.date # <<>>
            BY <1>6 DEF Asked
        <3>2. \E s \in Dates(l[b].mtime) : kept.date = <<s>>
            BY <1>3, <3>1 DEF MadeOf
        <3>3. QED  BY <3>1, <3>2
    <2>3. t <= s
        BY <2>1, <2>2
    <2>4. ~(b < e)
        BY <1>2, <1>3, <1>4, <2>3, TimesApart
    <2>5. b = e /\ c = e
        BY <1>2, <1>3, <2>4
    <2>6. QED  BY <1>2, <1>6, <2>5
<1>7. QED  BY <1>1, <1>2, <1>5, <1>6 DEF Told

-----------------------------------------------------------------------------
(* Other processes.                                                          *)

\* A log that only grows.
Grows(l, m) == Len(l) \in Nat /\ Len(m) \in Nat /\ Len(l) <= Len(m) /\ \A v \in 1 .. Len(l) : m[v] = l[v]

\* What is known of its versions stays true.
LEMMA GrownKeeps ==
    ASSUME NEW l, NEW m, Grows(l, m)
    PROVE  /\ \A v, p : OfPlace(l, v, p) => OfPlace(m, v, p) /\ m[v] = l[v]
           /\ \A f : Sent(l, f) => Sent(m, f)
           /\ \A f, kept, etag, date : Told(l, f, kept, etag, date) => Told(m, f, kept, etag, date)
           /\ \A pr, kept : Read(l, pr, kept) => Read(m, pr, kept)
<1>1. \A v, p : OfPlace(l, v, p) => OfPlace(m, v, p) /\ m[v] = l[v]
    BY DEF OfPlace, Grows
<1>2. \A v, p, size, etag, date :
         OfPlace(l, v, p) /\ MadeOf(l, v, size, etag, date) => MadeOf(m, v, size, etag, date)
    BY <1>1 DEF MadeOf
<1>3. ASSUME NEW f, Sent(l, f), f.status = 200
      PROVE  /\ OfPlace(m, f.version, f.place)
             /\ \E v : /\ OfPlace(m, v, f.place) /\ v <= f.version
                       /\ MadeOf(m, v, f.size, f.etag, f.date)
    <2>1. PICK v : /\ OfPlace(l, v, f.place) /\ v <= f.version
                   /\ MadeOf(l, v, f.size, f.etag, f.date)
        BY <1>3 DEF Sent
    <2>2. OfPlace(m, v, f.place) /\ MadeOf(m, v, f.size, f.etag, f.date)
        BY <1>1, <1>2, <2>1
    <2>3. OfPlace(m, f.version, f.place)
        BY <1>1, <1>3 DEF Sent
    <2>4. QED  BY <2>1, <2>2, <2>3
<1>4. ASSUME NEW f, NEW kept, NEW etag, NEW date, Told(l, f, kept, etag, date), f.status = 304
      PROVE  Told(m, f, kept, etag, date)
    <2>1. OfPlace(l, f.version, f.place) /\ kept.status = 200
        BY <1>4 DEF Told
    <2>2. OfPlace(m, f.version, f.place) /\ m[f.version] = l[f.version]
        BY <1>1, <2>1
    <2>3. ASSUME kept.place = f.place
          PROVE  /\ kept.version <= f.version
                 /\ \/ \E v : /\ OfPlace(m, v, f.place) /\ kept.version <= v /\ v <= f.version
                              /\ etag = TagOf(m[v].size, m[f.version].mtime)
                    \/ date # <<>> /\ \E s \in Dates(m[f.version].mtime) : s <= date[1]
        <3>1. CASE date # <<>> /\ \E s \in Dates(l[f.version].mtime) : s <= date[1]
            BY <1>4, <2>2, <2>3, <3>1 DEF Told
        <3>2. CASE ~(date # <<>> /\ \E s \in Dates(l[f.version].mtime) : s <= date[1])
            <4>1. PICK v : /\ OfPlace(l, v, f.place) /\ kept.version <= v /\ v <= f.version
                           /\ etag = TagOf(l[v].size, l[f.version].mtime)
                BY <1>4, <2>3, <3>2 DEF Told
            <4>2. OfPlace(m, v, f.place) /\ m[v] = l[v]
                BY <1>1, <4>1
            <4>3. QED  BY <1>4, <2>2, <2>3, <4>1, <4>2 DEF Told
        <3>3. QED  BY <3>1, <3>2
    <2>4. QED  BY <2>1, <2>2, <2>3 DEF Told
<1>5. ASSUME NEW pr, NEW kept, Read(l, pr, kept)
      PROVE  Read(m, pr, kept)
    <2>1. ASSUME pr.step = "mtime"
          PROVE  \E v : /\ OfPlace(m, v, pr.place) /\ pr.size = m[v].size
                        /\ kept.status = 200 /\ kept.place = pr.place => kept.version <= v
        <3>1. PICK v : /\ OfPlace(l, v, pr.place) /\ pr.size = l[v].size
                       /\ kept.status = 200 /\ kept.place = pr.place => kept.version <= v
            BY <1>5, <2>1 DEF Read
        <3>2. OfPlace(m, v, pr.place) /\ m[v] = l[v]
            BY <1>1, <3>1
        <3>3. QED  BY <3>1, <3>2
    <2>2. ASSUME pr.step = "read"
          PROVE  \E v : OfPlace(m, v, pr.place) /\ MadeOf(m, v, pr.size, pr.etag, pr.date)
        <3>1. PICK v : OfPlace(l, v, pr.place) /\ MadeOf(l, v, pr.size, pr.etag, pr.date)
            BY <1>5, <2>2 DEF Read
        <3>2. QED  BY <1>1, <1>2, <3>1
    <2>3. QED  BY <2>1, <2>2 DEF Read
<1>6. \A f : Sent(l, f) => Sent(m, f)
    BY <1>3 DEF Sent
<1>7. \A f, kept, etag, date : Told(l, f, kept, etag, date) => Told(m, f, kept, etag, date)
    <2>1. \A f, kept, etag, date : f.status # 304 => Told(m, f, kept, etag, date)
        BY DEF Told
    <2>2. QED  BY <1>4, <2>1
<1>8. \A pr, kept : Read(l, pr, kept) => Read(m, pr, kept)
    BY <1>5
<1>9. QED  BY <1>1, <1>6, <1>7, <1>8

\* What is saved is the last version of its place, what is removed is none.
LEMMA EditKeeps ==
    ASSUME NEW place, Kept(log, disk), Edit(place)
    PROVE  Kept(log', disk') /\ Grows(log, log')
<1>1. PICK l, d, m, e : l = log /\ d = disk /\ m = log' /\ e = disk'
    OBVIOUS
<1>2. PICK n \in Nat : n = Len(l) /\ l = [k \in 1 .. n |-> l[k]]
    BY <1>1 DEF Kept, IsSequence
<1>3. /\ \A v \in 1 .. n : l[v].mtime \in Int
      /\ \A p \in DOMAIN d : /\ OfPlace(l, d[p], p)
                             /\ \A v : OfPlace(l, v, p) => v <= d[p]
    BY <1>1, <1>2 DEF Kept
<1>4. CASE Save(place)
    <2>1. PICK size \in Sizes, mtime \in Times :
             /\ m = Append(l, [place |-> place, size |-> size, mtime |-> mtime])
             /\ e = [p \in DOMAIN d \cup {place} |-> IF p = place THEN Len(l) + 1 ELSE d[p]]
        BY <1>1, <1>4 DEF Save
    <2>2. PICK new : new = [place |-> place, size |-> size, mtime |-> mtime]
        OBVIOUS
    <2>3. /\ IsSequence(m) /\ Len(m) = n + 1 /\ m[n + 1] = new
          /\ \A v \in 1 .. n : m[v] = l[v]
        <3>1. PICK S : S = {l[k] : k \in 1 .. n} \cup {new}
            OBVIOUS
        <3>2. l \in Seq(S) /\ new \in S
            <4>1. \A k \in 1 .. n : l[k] \in S
                BY <3>1
            <4>2. [k \in 1 .. n |-> l[k]] \in [1 .. n -> S]
                BY <4>1
            <4>3. QED  BY <1>2, <3>1, <4>2, FunctionIsSequence
        <3>3. PICK t : t = Append(l, new)
            OBVIOUS
        <3>4. /\ t \in Seq(S) /\ Len(t) = n + 1 /\ t[n + 1] = new /\ DOMAIN t = 1 .. n + 1
              /\ \A v \in 1 .. n : t[v] = l[v]
            BY <1>2, <3>2, <3>3
        <3>5. IsSequence(t)
            BY <3>4 DEF IsSequence
        <3>6. QED  BY <2>1, <2>2, <3>3, <3>4, <3>5
    <2>4. new.place = place /\ new.mtime \in Int
        BY <2>2, FilesAssumption
    <2>5. \A v \in 1 .. n + 1 : m[v].mtime \in Int
        <3>1. ASSUME NEW v \in 1 .. n + 1 PROVE m[v].mtime \in Int
            <4>1. v \in 1 .. n \/ v = n + 1
                OBVIOUS
            <4>2. QED  BY <1>3, <2>3, <2>4, <4>1
        <3>2. QED  BY <3>1
    <2>6. ASSUME NEW p \in DOMAIN e
          PROVE  OfPlace(m, e[p], p) /\ \A v : OfPlace(m, v, p) => v <= e[p]
        <3>1. CASE p = place
            <4>1. e[p] = n + 1
                BY <1>2, <2>1, <2>6, <3>1
            <4>2. QED  BY <2>3, <2>4, <3>1, <4>1 DEF OfPlace
        <3>2. CASE p # place
            <4>1. p \in DOMAIN d /\ e[p] = d[p]
                BY <2>1, <2>6, <3>2
            <4>2. \A v : OfPlace(m, v, p) => OfPlace(l, v, p)
                <5>1. ASSUME NEW v, OfPlace(m, v, p) PROVE OfPlace(l, v, p)
                    <6>1. v \in 1 .. n \/ v = n + 1
                        BY <2>3, <5>1 DEF OfPlace
                    <6>2. v # n + 1
                        BY <2>3, <2>4, <3>2, <5>1 DEF OfPlace
                    <6>3. QED  BY <1>2, <2>3, <5>1, <6>1, <6>2 DEF OfPlace
                <5>2. QED  BY <5>1
            <4>3. OfPlace(m, d[p], p)
                <5>1. PICK x : x = d[p] /\ x \in 1 .. n /\ l[x].place = p
                    BY <1>2, <1>3, <4>1 DEF OfPlace
                <5>2. x \in 1 .. n + 1 /\ m[x].place = p
                    BY <2>3, <5>1
                <5>3. QED  BY <2>3, <5>1, <5>2 DEF OfPlace
            <4>4. QED  BY <1>3, <4>1, <4>2, <4>3
        <3>3. QED  BY <3>1, <3>2
    <2>7. Kept(m, e)
        BY <2>3, <2>5, <2>6 DEF Kept
    <2>8. Grows(l, m)
        <3>1. Len(l) = n /\ Len(m) = n + 1 /\ n <= n + 1 /\ n + 1 \in Nat
            BY <1>2, <2>3
        <3>2. QED  BY <2>3, <3>1 DEF Grows
    <2>9. QED  BY <1>1, <2>7, <2>8
<1>5. CASE Unlink(place)
    <2>1. m = l /\ e = [p \in DOMAIN d \ {place} |-> d[p]]
        BY <1>1, <1>5 DEF Unlink
    <2>2. \A p \in DOMAIN e : p \in DOMAIN d /\ e[p] = d[p]
        BY <2>1
    <2>3. Kept(m, e)
        BY <1>1, <1>3, <2>1, <2>2 DEF Kept
    <2>4. Grows(l, m)
        BY <1>2, <2>1 DEF Grows
    <2>5. QED  BY <1>1, <2>3, <2>4
<1>6. QED  BY <1>4, <1>5 DEF Edit

-----------------------------------------------------------------------------
(* Records.                                                                  *)

\* No file, and a probe that is idle.
LEMMA NothingSent ==
    /\ NoFile.status = 0 /\ NoFile.etag = <<>> /\ NoFile.date = <<>>
    /\ Idle.step = "idle" /\ Idle.answer = NoFile /\ IsProbe(Idle)
    /\ Nothing.file = NoFile /\ IsAnswer(NoFile)
<1>1. PICK f, n : f = NoFile /\ n = <<>>
    OBVIOUS
<1>2. f = [status |-> 0, place |-> n, version |-> 0, size |-> 0, etag |-> n, date |-> n]
    BY <1>1 DEF NoFile
<1>3. Idle = [step |-> "idle", mount |-> 0, place |-> n, size |-> 0, etag |-> n,
              date |-> n, answer |-> f]
    BY <1>1 DEF Idle
<1>4. PICK r : r = Blank
    OBVIOUS
<1>5. Nothing = [kind |-> "nothing", by |-> <<"nobody", 0>>, res |-> r, file |-> f]
    BY <1>1, <1>4 DEF Nothing
<1>6. QED  BY <1>1, <1>2, <1>3, <1>5 DEF IsProbe, IsAnswer

\* A probe that starts at a mount, has missed or has served.
LEMMA ProbeAnew ==
    ASSUME NEW s, NEW k, NEW f
    PROVE  /\ [Idle EXCEPT !.step = s].step = s /\ [Idle EXCEPT !.step = s].answer = NoFile
           /\ IsProbe([Idle EXCEPT !.step = s])
           /\ [Idle EXCEPT !.step = s, !.mount = k].step = s
           /\ [Idle EXCEPT !.step = s, !.mount = k].answer = NoFile
           /\ IsProbe([Idle EXCEPT !.step = s, !.mount = k])
           /\ [Idle EXCEPT !.step = s, !.answer = f].step = s
           /\ [Idle EXCEPT !.step = s, !.answer = f].answer = f
           /\ IsAnswer(f) => IsProbe([Idle EXCEPT !.step = s, !.answer = f])
<1>1. PICK g, n : g = NoFile /\ n = <<>>
    OBVIOUS
<1>2. PICK i : i = Idle
    OBVIOUS
<1>3. i = [step |-> "idle", mount |-> 0, place |-> n, size |-> 0, etag |-> n,
           date |-> n, answer |-> g]
    BY <1>1, <1>2 DEF Idle
<1>4. PICK j : j = [i EXCEPT !.step = s]
    OBVIOUS
<1>5. j = [step |-> s, mount |-> 0, place |-> n, size |-> 0, etag |-> n,
           date |-> n, answer |-> g]
    BY <1>3, <1>4
<1>6. /\ [j EXCEPT !.mount = k] = [step |-> s, mount |-> k, place |-> n, size |-> 0, etag |-> n,
                                   date |-> n, answer |-> g]
      /\ [j EXCEPT !.answer = f] = [step |-> s, mount |-> 0, place |-> n, size |-> 0, etag |-> n,
                                    date |-> n, answer |-> f]
    BY <1>5
<1>7. /\ [i EXCEPT !.step = s, !.mount = k] = [j EXCEPT !.mount = k]
      /\ [i EXCEPT !.step = s, !.answer = f] = [j EXCEPT !.answer = f]
    BY <1>4
<1>8. PICK a, b : a = [j EXCEPT !.mount = k] /\ b = [j EXCEPT !.answer = f]
    OBVIOUS
<1>9. /\ j.step = s /\ j.answer = g /\ IsProbe(j)
      /\ a.step = s /\ a.answer = g /\ IsProbe(a)
      /\ b.step = s /\ b.answer = f /\ (IsAnswer(f) => IsProbe(b))
    BY <1>1, <1>5, <1>6, <1>8, NothingSent DEF IsProbe
<1>10. QED  BY <1>1, <1>2, <1>4, <1>7, <1>8, <1>9

\* The probe that serves an answer.
LEMMA ServeIs ==
    ASSUME NEW f, IsAnswer(f), Serve(f)
    PROVE  \E pr : probe' = pr /\ pr.step = "served" /\ pr.answer = f /\ IsProbe(pr)
<1>1. PICK pr : pr = [Idle EXCEPT !.step = "served", !.answer = f] /\ probe' = pr
    BY DEF Serve
<1>2. QED  BY <1>1, ProbeAnew

\* A probe that goes on, with what it has learnt.
LEMMA ProbeOn ==
    ASSUME NEW pr, IsProbe(pr), NEW s, NEW x
    PROVE  /\ [pr EXCEPT !.step = s, !.place = x] =
                 [step |-> s, mount |-> pr.mount, place |-> x, size |-> pr.size,
                  etag |-> pr.etag, date |-> pr.date, answer |-> pr.answer]
           /\ [pr EXCEPT !.step = s, !.size = x] =
                 [step |-> s, mount |-> pr.mount, place |-> pr.place, size |-> x,
                  etag |-> pr.etag, date |-> pr.date, answer |-> pr.answer]
<1>1. PICK q : q = [pr EXCEPT !.step = s]
    OBVIOUS
<1>2. q = [step |-> s, mount |-> pr.mount, place |-> pr.place, size |-> pr.size,
           etag |-> pr.etag, date |-> pr.date, answer |-> pr.answer]
    BY <1>1 DEF IsProbe
<1>3. /\ [pr EXCEPT !.step = s, !.place = x] = [q EXCEPT !.place = x]
      /\ [pr EXCEPT !.step = s, !.size = x] = [q EXCEPT !.size = x]
    BY <1>1
<1>4. QED  BY <1>2, <1>3

\* The same, with the validators.
LEMMA ValidatedIs ==
    ASSUME IsProbe(probe), NEW etag, NEW date
    PROVE  Validated(etag, date) =
              [step |-> "read", mount |-> probe.mount, place |-> probe.place,
               size |-> probe.size, etag |-> etag, date |-> date, answer |-> probe.answer]
<1>1. PICK pr : pr = probe
    OBVIOUS
<1>2. PICK q : q = [pr EXCEPT !.step = "read"]
    OBVIOUS
<1>3. q = [step |-> "read", mount |-> pr.mount, place |-> pr.place, size |-> pr.size,
           etag |-> pr.etag, date |-> pr.date, answer |-> pr.answer]
    BY <1>1, <1>2 DEF IsProbe
<1>4. PICK r : r = [q EXCEPT !.etag = etag]
    OBVIOUS
<1>5. r = [step |-> "read", mount |-> pr.mount, place |-> pr.place, size |-> pr.size,
           etag |-> etag, date |-> pr.date, answer |-> pr.answer]
    BY <1>3, <1>4
<1>6. [r EXCEPT !.date = date] =
         [step |-> "read", mount |-> pr.mount, place |-> pr.place, size |-> pr.size,
          etag |-> etag, date |-> date, answer |-> pr.answer]
    BY <1>5
<1>7. Validated(etag, date) = [r EXCEPT !.date = date]
    BY <1>1, <1>2, <1>4 DEF Validated
<1>8. QED  BY <1>1, <1>6, <1>7

\* The answer 304.
LEMMA NotModifiedIs ==
    ASSUME NEW etag, NEW date
    PROVE  /\ NotModified(etag, date).status = 304
           /\ NotModified(etag, date).place = probe.place
           /\ NotModified(etag, date).version = Version
           /\ IsAnswer(NotModified(etag, date))
<1>1. PICK n, g, p, v, h : n = <<>> /\ g = NoFile /\ p = probe.place /\ v = Version
                           /\ h = NotModified(etag, date)
    OBVIOUS
<1>2. g = [status |-> 0, place |-> n, version |-> 0, size |-> 0, etag |-> n, date |-> n]
    BY <1>1 DEF NoFile
<1>3. PICK a : a = [g EXCEPT !.status = 304]
    OBVIOUS
<1>4. a = [status |-> 304, place |-> n, version |-> 0, size |-> 0, etag |-> n, date |-> n]
    BY <1>2, <1>3
<1>5. PICK b : b = [a EXCEPT !.place = p]
    OBVIOUS
<1>6. b = [status |-> 304, place |-> p, version |-> 0, size |-> 0, etag |-> n, date |-> n]
    BY <1>4, <1>5
<1>7. PICK c : c = [b EXCEPT !.version = v]
    OBVIOUS
<1>8. c = [status |-> 304, place |-> p, version |-> v, size |-> 0, etag |-> n, date |-> n]
    BY <1>6, <1>7
<1>9. PICK e : e = [c EXCEPT !.etag = etag]
    OBVIOUS
<1>10. e = [status |-> 304, place |-> p, version |-> v, size |-> 0, etag |-> etag, date |-> n]
    BY <1>8, <1>9
<1>11. h = [e EXCEPT !.date = date]
    BY <1>1, <1>3, <1>5, <1>7, <1>9 DEF NotModified
<1>12. h.status = 304 /\ h.place = p /\ h.version = v /\ IsAnswer(h)
    BY <1>10, <1>11 DEF IsAnswer
<1>13. QED  BY <1>1, <1>12

-----------------------------------------------------------------------------
(* Every step keeps what is known of the files.                              *)

\* Nothing that is sent, no 304, and nothing that has been read: that is true.
LEMMA NothingRead ==
    /\ \A l, f : f.status # 200 => Sent(l, f)
    /\ \A l, f, kept, etag, date : f.status # 304 => Told(l, f, kept, etag, date)
    /\ \A l, pr, kept : pr.step \notin {"mtime", "read"} => Read(l, pr, kept)
BY DEF Sent, Told, Read

\* Steps that look at the files or not, and may hand on what the search has answered.
LEMMA FilesNext ==
    ASSUME FilesInv, UNCHANGED <<log, disk, copy>>, req'.etag = req.etag, req'.date = req.date,
           value'.file \in {value.file, NoFile, probe.answer},
           NEW pr, probe' = pr, IsProbe(pr), InUse(pr, pc'), Read(log, pr, copy),
           Sent(log, pr.answer), Told(log, pr.answer, copy, req.etag, req.date)
    PROVE  FilesInv'
<1>1. PICK l, d, c, e, t : l = log /\ d = disk /\ c = copy /\ e = req.etag /\ t = req.date
    OBVIOUS
<1>2. l' = log' /\ d' = disk' /\ log' = l /\ disk' = d /\ copy' = c /\ req'.etag = e /\ req'.date = t
    BY <1>1
<1>3. Kept(l, d) /\ Sent(l, c) /\ Asked(c, e, t)
    BY <1>1 DEF FilesInv
<1>4. PICK f : f = value'.file
    OBVIOUS
<1>5. Sent(l, f) /\ Told(l, f, c, e, t) /\ IsAnswer(f)
    BY <1>1, <1>4, NothingSent, NothingRead DEF FilesInv, IsProbe
<1>6. PICK s : s = pc'
    OBVIOUS
<1>7. QED  BY <1>1, <1>2, <1>3, <1>4, <1>5, <1>6 DEF FilesInv

\* Steps that look at no file.
LEMMA FilesAside ==
    ASSUME FilesInv, UNCHANGED <<log, disk, copy>>, req'.etag = req.etag, req'.date = req.date,
           value'.file \in {value.file, NoFile, probe.answer},
           \/ (probe' = Idle) /\ pc' # "files"
           \/ probe' = probe /\ (pc' = "files" <=> pc = "files")
    PROVE  FilesInv'
<1>1. CASE (probe' = Idle) /\ pc' # "files"
    <2>1. PICK pr : pr = Idle
        OBVIOUS
    <2>2. Read(log, pr, copy) /\ Sent(log, pr.answer)
          /\ Told(log, pr.answer, copy, req.etag, req.date) /\ IsProbe(pr) /\ InUse(pr, pc')
        BY <1>1, <2>1, NothingSent, NothingRead DEF InUse
    <2>3. QED  BY <1>1, <2>1, <2>2, FilesNext
<1>2. CASE probe' = probe /\ (pc' = "files" <=> pc = "files")
    <2>1. PICK pr : pr = probe
        OBVIOUS
    <2>2. Read(log, pr, copy) /\ Sent(log, pr.answer)
          /\ Told(log, pr.answer, copy, req.etag, req.date) /\ IsProbe(pr)
          /\ InUse(pr, pc')
        BY <1>2, <2>1 DEF FilesInv, InUse
    <2>3. QED  BY <1>2, <2>1, <2>2, FilesNext
<1>3. QED  BY <1>1, <1>2

\* What a callee gives back is its caller's, or the connection's.
LEMMA Left ==
    ASSUME NEW v, NEW outcome \in {"returned", "thrown"}, Leave(v, outcome)
    PROVE  value' = v /\ pc' \in {"returned", "thrown", "done", "failed"}
BY DEF Leave

\* The search passes to the next mount, or is over without a file.
LEMMA PassFiles ==
    ASSUME FilesInv, UNCHANGED <<log, disk, copy, req, value>>, pc' = "files", NEW mounts, Pass(mounts)
    PROVE  FilesInv'
<1>1. PICK pr : /\ probe' = pr /\ pr.step \in {"find", "missed"} /\ pr.answer = NoFile /\ IsProbe(pr)
    <2>1. PICK k : k = probe.mount + 1
        OBVIOUS
    <2>2. \/ probe' = [Idle EXCEPT !.step = "find", !.mount = k]
          \/ probe' = [Idle EXCEPT !.step = "missed"]
        BY <2>1 DEF Pass
    <2>3. QED  BY <2>2, ProbeAnew
<1>2. /\ Read(log, pr, copy) /\ Sent(log, pr.answer)
      /\ Told(log, pr.answer, copy, req.etag, req.date)
    BY <1>1, NothingSent, NothingRead
<1>3. InUse(pr, pc')
    BY <1>1 DEF InUse
<1>4. QED  BY <1>1, <1>2, <1>3, FilesNext

\* What is on disk at a place is no older than what was ever known of it.
LEMMA PresentIsLast ==
    ASSUME FilesInv, Present
    PROVE  /\ OfPlace(log, Version, probe.place)
           /\ \A v : OfPlace(log, v, probe.place) => v <= Version
           /\ copy.status = 200 /\ copy.place = probe.place => copy.version <= Version
<1>1. PICK p, v : p = probe.place /\ v = Version /\ v = disk[p] /\ p \in DOMAIN disk
    BY DEF Present, Version
<1>2. OfPlace(log, v, p) /\ \A w : OfPlace(log, w, p) => w <= v
    BY <1>1 DEF FilesInv, Kept
<1>3. copy.status = 200 /\ copy.place = p => OfPlace(log, copy.version, p)
    BY DEF FilesInv, Sent
<1>4. QED  BY <1>1, <1>2, <1>3

\* The size is that of a version no older than the client's copy.
LEMMA SizeFiles ==
    ASSUME FilesInv, UNCHANGED <<log, disk, copy, req, value>>, pc' = "files", NEW mounts,
           ReadSize(mounts)
    PROVE  FilesInv'
<1>1. CASE Pass(mounts)
    BY <1>1, PassFiles
<1>2. CASE ~Pass(mounts)
    <2>1. PICK v, p, s : v = Version /\ p = probe /\ s = log[v].size
        OBVIOUS
    <2>2. Present /\ probe' = [p EXCEPT !.step = "mtime", !.size = s]
        BY <1>2, <2>1 DEF ReadSize
    <2>3. IsProbe(p)
        BY <2>1 DEF FilesInv
    <2>4. PICK pr : /\ probe' = pr
                    /\ pr = [step |-> "mtime", mount |-> p.mount, place |-> p.place, size |-> s,
                             etag |-> p.etag, date |-> p.date, answer |-> p.answer]
        BY <2>2, <2>3, ProbeOn
    <2>5. IsProbe(pr) /\ pr.step = "mtime" /\ pr.place = p.place /\ pr.size = s
          /\ pr.answer = p.answer
        BY <2>3, <2>4 DEF IsProbe
    <2>6. /\ OfPlace(log, v, pr.place)
          /\ copy.status = 200 /\ copy.place = pr.place => copy.version <= v
        BY <2>1, <2>2, <2>5, PresentIsLast
    <2>7. Read(log, pr, copy)
        BY <2>1, <2>5, <2>6 DEF Read
    <2>8. Sent(log, pr.answer) /\ Told(log, pr.answer, copy, req.etag, req.date)
        BY <2>1, <2>5 DEF FilesInv
    <2>9. InUse(pr, pc')
        BY <2>5 DEF InUse
    <2>10. QED  BY <2>9, <2>4, <2>5, <2>7, <2>8, FilesNext
<1>3. QED  BY <1>1, <1>2

\* The time is that of a version no older than the size; a 304 is for that one.
LEMMA MtimeFiles ==
    ASSUME FilesInv, UNCHANGED <<log, disk, copy, req, value>>, pc' = "files", NEW mounts,
           ReadMtime(mounts, [etag |-> req.etag, date |-> req.date])
    PROVE  FilesInv'
<1>1. CASE Pass(mounts)
    BY <1>1, PassFiles
<1>2. CASE ~Pass(mounts)
    <2>1. PICK v, p, m : v = Version /\ p = probe /\ m = log[v].mtime
        OBVIOUS
    <2>2. Present /\ p.step = "mtime" /\ IsProbe(p)
        BY <1>2, <2>1 DEF ReadMtime, FilesInv
    <2>3. /\ OfPlace(log, v, p.place)
          /\ \A w : OfPlace(log, w, p.place) => w <= v
          /\ copy.status = 200 /\ copy.place = p.place => copy.version <= v
        BY <2>1, <2>2, PresentIsLast
    <2>4. PICK w : /\ OfPlace(log, w, p.place) /\ p.size = log[w].size
                   /\ copy.status = 200 /\ copy.place = p.place => copy.version <= w
        BY <2>1, <2>2 DEF FilesInv, Read
    <2>5. PICK asked : asked = [etag |-> req.etag, date |-> req.date]
        OBVIOUS
    <2>6. asked.etag = req.etag /\ asked.date = req.date
        BY <2>5
    <2>7. PICK etag, dates :
             /\ etag = IF Here(mounts).etag THEN TagOf(probe.size, log[Version].mtime) ELSE <<>>
             /\ dates = IF Here(mounts).lastModified THEN Dates(log[Version].mtime) ELSE {}
        OBVIOUS
    <2>8. etag \in {TagOf(p.size, m), <<>>} /\ dates \in {Dates(m), {}}
        BY <2>1, <2>7
    <2>9. ReadMtime(mounts, asked)
        BY <2>5
    <2>10. \/ etag # <<>> /\ asked.etag = etag /\ Serve(NotModified(etag, <<>>))
           \/ probe' = Validated(etag, <<>>)
           \/ \E shown \in dates, compared \in dates :
                 \/ /\ asked.date # <<>> /\ compared <= asked.date[1]
                    /\ Serve(NotModified(etag, <<shown>>))
                 \/ probe' = Validated(etag, <<shown>>)
        BY <2>2, <2>7, <2>9 DEF ReadMtime
    <2>11. ASSUME NEW date, probe' = Validated(etag, date),
                 date = <<>> \/ \E s \in Dates(m) : date = <<s>>
          PROVE  FilesInv'
        <3>1. PICK pr : /\ probe' = pr
                        /\ pr = [step |-> "read", mount |-> p.mount, place |-> p.place,
                                 size |-> p.size, etag |-> etag, date |-> date, answer |-> p.answer]
            BY <2>1, <2>2, <2>11, ValidatedIs
        <3>2. IsProbe(pr) /\ pr.step = "read" /\ pr.place = p.place /\ pr.size = p.size
              /\ pr.etag = etag /\ pr.date = date /\ pr.answer = p.answer
            BY <2>2, <3>1 DEF IsProbe
        <3>3. MadeOf(log, v, pr.size, pr.etag, pr.date)
            BY <2>1, <2>8, <2>11, <3>2 DEF MadeOf
        <3>4. Read(log, pr, copy)
            BY <2>3, <3>2, <3>3 DEF Read
        <3>5. Sent(log, pr.answer) /\ Told(log, pr.answer, copy, req.etag, req.date)
            BY <2>1, <3>2 DEF FilesInv
        <3>6. InUse(pr, pc')
            BY <3>2 DEF InUse
        <3>7. QED  BY <3>6, <3>1, <3>2, <3>4, <3>5, FilesNext
    <2>12. ASSUME NEW date, Serve(NotModified(etag, date)),
                 \/ req.etag # <<>> /\ req.etag = TagOf(p.size, m)
                 \/ req.date # <<>> /\ \E s \in Dates(m) : s <= req.date[1]
          PROVE  FilesInv'
        <3>1. PICK f : f = NotModified(etag, date)
            OBVIOUS
        <3>2. IsAnswer(f) /\ f.status = 304 /\ f.place = p.place /\ f.version = v
            BY <2>1, <3>1, NotModifiedIs
        <3>3. PICK pr : /\ probe' = pr /\ pr.step = "served" /\ pr.answer = f /\ IsProbe(pr)
            BY <2>12, <3>1, <3>2, ServeIs
        <3>4. copy.status = 200
            BY <2>12, NothingSent DEF FilesInv, Asked
        <3>5. Told(log, f, copy, req.etag, req.date)
            <4>1. ASSUME copy.place = f.place
                  PROVE  /\ copy.version <= f.version
                         /\ \/ \E x : /\ OfPlace(log, x, f.place) /\ copy.version <= x /\ x <= f.version
                                      /\ req.etag = TagOf(log[x].size, log[f.version].mtime)
                            \/ /\ req.date # <<>>
                               /\ \E s \in Dates(log[f.version].mtime) : s <= req.date[1]
                <5>1. copy.version <= v /\ copy.version <= w /\ w <= v
                    BY <2>3, <2>4, <3>2, <3>4, <4>1
                <5>2. log[f.version].mtime = m
                    BY <2>1, <3>2
                <5>3. QED  BY <2>4, <2>12, <3>2, <5>1, <5>2
            <4>2. QED  BY <2>3, <3>2, <3>4, <4>1 DEF Told
        <3>6. Sent(log, pr.answer) /\ Read(log, pr, copy)
            BY <3>2, <3>3, NothingRead
        <3>7. InUse(pr, pc')
            BY <3>3 DEF InUse
        <3>8. QED  BY <3>7, <3>3, <3>5, <3>6, FilesNext
    <2>13. CASE etag # <<>> /\ asked.etag = etag /\ Serve(NotModified(etag, <<>>))
        <3>1. req.etag # <<>> /\ req.etag = TagOf(p.size, m)
            BY <2>6, <2>8, <2>13
        <3>2. QED  BY <2>12, <2>13, <3>1
    <2>14. CASE probe' = Validated(etag, <<>>)
        BY <2>11, <2>14
    <2>15. ASSUME NEW shown \in dates, NEW compared \in dates,
                  asked.date # <<>>, compared <= asked.date[1], Serve(NotModified(etag, <<shown>>))
           PROVE  FilesInv'
        <3>1. req.date # <<>> /\ \E s \in Dates(m) : s <= req.date[1]
            BY <2>6, <2>8, <2>15
        <3>2. QED  BY <2>12, <2>15, <3>1
    <2>16. ASSUME NEW shown \in dates, probe' = Validated(etag, <<shown>>)
           PROVE  FilesInv'
        <3>1. \E s \in Dates(m) : <<shown>> = <<s>>
            BY <2>8, <2>16
        <3>2. QED  BY <2>11, <2>16, <3>1
    <2>17. QED  BY <2>10, <2>13, <2>14, <2>15, <2>16
<1>3. QED  BY <1>1, <1>2

\* A file is found, and nothing is known of it yet.
LEMMA FindFiles ==
    ASSUME FilesInv, UNCHANGED <<log, disk, copy, req, value>>, pc' = "files", NEW mounts, NEW path,
           FindFile(mounts, path)
    PROVE  FilesInv'
<1>1. CASE Pass(mounts)
    BY <1>1, PassFiles
<1>2. CASE ~Pass(mounts)
    <2>1. PICK p, x : p = probe /\ x = PlaceOf(Here(mounts), path)
        OBVIOUS
    <2>2. probe' = [p EXCEPT !.step = "size", !.place = x]
        BY <1>2, <2>1 DEF FindFile
    <2>3. IsProbe(p)
        BY <2>1 DEF FilesInv
    <2>4. PICK pr : /\ probe' = pr
                    /\ pr = [step |-> "size", mount |-> p.mount, place |-> x, size |-> p.size,
                             etag |-> p.etag, date |-> p.date, answer |-> p.answer]
        BY <2>2, <2>3, ProbeOn
    <2>5. IsProbe(pr) /\ pr.step = "size" /\ pr.answer = p.answer
        BY <2>3, <2>4 DEF IsProbe
    <2>6. Read(log, pr, copy)
        BY <2>5, NothingRead
    <2>7. Sent(log, pr.answer) /\ Told(log, pr.answer, copy, req.etag, req.date)
        BY <2>1, <2>5 DEF FilesInv
    <2>8. InUse(pr, pc')
        BY <2>5 DEF InUse
    <2>9. QED  BY <2>8, <2>4, <2>5, <2>6, <2>7, FilesNext
<1>3. QED  BY <1>1, <1>2

\* What is sent has the validators of what was there before it, or of itself.
LEMMA ReadFiles ==
    ASSUME FilesInv, UNCHANGED <<log, disk, copy, req, value>>, pc' = "files", NEW mounts,
           ReadFile(mounts)
    PROVE  FilesInv'
<1>1. CASE Pass(mounts)
    BY <1>1, PassFiles
<1>2. CASE ~Pass(mounts)
    <2>1. PICK v, p : v = Version /\ p = probe
        OBVIOUS
    <2>2. PICK f : f = [status |-> 200, place |-> p.place, version |-> v, size |-> p.size,
                        etag |-> p.etag, date |-> p.date]
        OBVIOUS
    <2>3. Present /\ p.step = "read" /\ Serve(f)
        BY <1>2, <2>1, <2>2 DEF ReadFile
    <2>4. PICK pr : /\ probe' = pr /\ pr.step = "served" /\ pr.answer = f /\ IsProbe(pr)
        <3>1. IsAnswer(f)
            BY <2>2 DEF IsAnswer
        <3>2. QED  BY <2>3, <3>1, ServeIs
    <2>5. OfPlace(log, v, p.place) /\ \A w : OfPlace(log, w, p.place) => w <= v
        BY <2>1, <2>3, PresentIsLast
    <2>6. PICK w : OfPlace(log, w, p.place) /\ MadeOf(log, w, p.size, p.etag, p.date)
        BY <2>1, <2>3 DEF FilesInv, Read
    <2>7. /\ f.status = 200 /\ f.place = p.place /\ f.version = v /\ f.size = p.size
          /\ f.etag = p.etag /\ f.date = p.date
        BY <2>2
    <2>8. Sent(log, f)
        BY <2>5, <2>6, <2>7 DEF Sent
    <2>9. Told(log, f, copy, req.etag, req.date) /\ Read(log, pr, copy)
        BY <2>4, <2>7, NothingRead
    <2>10. InUse(pr, pc')
        BY <2>4 DEF InUse
    <2>11. QED  BY <2>10, <2>4, <2>8, <2>9, FilesNext
<1>3. QED  BY <1>1, <1>2

\* The steps of the search.
LEMMA SearchFiles ==
    ASSUME FilesInv, SearchFile
    PROVE  FilesInv'
<1>1. UNCHANGED <<log, disk, copy, req, value>> /\ pc' = "files"
    BY DEF SearchFile, TryServe
<1>2. PICK mounts, path :
         \/ FindFile(mounts, path) \/ ReadSize(mounts) \/ ReadFile(mounts)
         \/ ReadMtime(mounts, [etag |-> req.etag, date |-> req.date])
    BY DEF SearchFile, TryServe
<1>3. QED  BY <1>1, <1>2, FindFiles, SizeFiles, MtimeFiles, ReadFiles

\* Another process changes a file.
LEMMA EditFiles ==
    ASSUME FilesInv, EditFile
    PROVE  FilesInv'
<1>1. PICK place : Edit(place) /\ UNCHANGED <<req, pc, value, copy>>
    BY DEF EditFile
<1>2. PICK l, m : l = log /\ m = log' /\ Kept(log', disk') /\ Grows(l, m)
    BY <1>1, EditKeeps DEF FilesInv
<1>3. PICK pr, v, c, e, d : pr = probe /\ v = value.file /\ c = copy /\ e = req.etag /\ d = req.date
    OBVIOUS
<1>4. /\ probe' = pr /\ value'.file = v /\ copy' = c /\ req'.etag = e /\ req'.date = d
    BY <1>1, <1>3 DEF Edit
<1>5. /\ IsProbe(pr) /\ InUse(pr, pc) /\ IsAnswer(v) /\ Read(l, pr, c)
      /\ Sent(l, pr.answer) /\ Told(l, pr.answer, c, e, d)
      /\ Sent(l, v) /\ Told(l, v, c, e, d) /\ Sent(l, c) /\ Asked(c, e, d)
    BY <1>2, <1>3 DEF FilesInv
<1>6. /\ Read(m, pr, c) /\ Sent(m, pr.answer) /\ Told(m, pr.answer, c, e, d)
      /\ Sent(m, v) /\ Told(m, v, c, e, d) /\ Sent(m, c)
    BY <1>2, <1>5, GrownKeeps
<1>7. InUse(pr, pc')
    BY <1>1, <1>5
<1>8. QED  BY <1>7, <1>1, <1>2, <1>4, <1>5, <1>6 DEF FilesInv

\* The client asks again.
LEMMA RevalidateFiles ==
    ASSUME ReqInv, FilesInv, Revalidate
    PROVE  FilesInv'
<1>1. PICK f : f = value.file
    OBVIOUS
<1>2. /\ pc = "done" /\ pc' = "lookup" /\ f.status = 200 /\ copy' = f /\ UNCHANGED <<log, disk, probe>>
      /\ value' = Nothing
    BY <1>1 DEF Revalidate, fileVars
<1>3. PICK etag, date : /\ etag = <<>> \/ etag = f.etag
                        /\ date = <<>> \/ date = f.date
                        /\ req'.etag = etag /\ req'.date = date
    BY <1>1, AskedAgain
<1>4. PICK l, pr, v : l = log /\ pr = probe /\ v = NoFile
    OBVIOUS
<1>5. Kept(l, disk) /\ Sent(l, f) /\ pr = Idle
    BY <1>1, <1>2, <1>4 DEF FilesInv, InUse
<1>6. log' = l /\ probe' = pr /\ value'.file = v /\ Kept(log', disk')
    BY <1>2, <1>4, <1>5, NothingSent
<1>7. /\ IsProbe(pr) /\ Read(l, pr, f) /\ Sent(l, pr.answer) /\ Told(l, pr.answer, f, etag, date)
      /\ Sent(l, v) /\ Told(l, v, f, etag, date)
    BY <1>4, <1>5, NothingSent, NothingRead
<1>8. Asked(f, etag, date)
    BY <1>2, <1>3 DEF Asked
<1>9. InUse(pr, pc') /\ IsAnswer(v)
    BY <1>2, <1>4, <1>5, NothingSent DEF InUse
<1>10. QED  BY <1>9, <1>2, <1>3, <1>5, <1>6, <1>7, <1>8 DEF FilesInv

\* Only the client's next request has other validators.
LEMMA ValidatorsKept ==
    ASSUME ReqInv, CallNext \/ CallRoute \/ CallGetRoute \/ NoRoute
    PROVE  req'.etag = req.etag /\ req'.date = req.date
<1>1. CASE CallNext
    <2>1. PICK method, path : req' = [req EXCEPT !.method = method, !.path = path]
        BY <1>1 DEF CallNext
    <2>2. PICK r : r = [req EXCEPT !.method = method]
        OBVIOUS
    <2>3. r = [method |-> method, path |-> req.path, ws |-> req.ws, params |-> req.params,
               etag |-> req.etag, date |-> req.date]
        BY <2>2 DEF ReqInv
    <2>4. req' = [r EXCEPT !.path = path]
        BY <2>1, <2>2
    <2>5. req' = [method |-> method, path |-> path, ws |-> r.ws, params |-> r.params,
                  etag |-> r.etag, date |-> r.date]
        BY <2>3, <2>4
    <2>6. QED  BY <2>3, <2>5
<1>2. CASE CallRoute \/ CallGetRoute \/ NoRoute
    <2>1. PICK params : req' = [req EXCEPT !.params = params]
        BY <1>2 DEF CallRoute, CallGetRoute, NoRoute
    <2>2. QED  BY <2>1, NewParams
<1>3. QED  BY <1>1, <1>2

\* Calls give back nothing yet.
LEMMA CallFiles ==
    ASSUME ReqInv, FilesInv, Handle \/ CallNext \/ HandOn \/ CallRoute \/ CallGetRoute
    PROVE  FilesInv'
<1>1. /\ value' = Nothing /\ UNCHANGED <<log, disk, copy, probe>>
      /\ pc # "files" /\ pc' \in {"enter", "crashed"}
    BY DEF Handle, CallNext, HandOn, EnterNext, CallRoute, CallGetRoute, Call, AtDispatch, fileVars
<1>2. req'.etag = req.etag /\ req'.date = req.date
    BY ValidatorsKept DEF Handle, HandOn
<1>3. value'.file = NoFile
    BY <1>1, NothingSent
<1>4. QED  BY <1>1, <1>2, <1>3, FilesAside

\* Steps that hand on what they were given, or nothing.
LEMMA QuietFiles ==
    ASSUME FilesInv,
           \/ OpenStream \/ StreamEnds \/ Enter \/ NextReturns \/ Terminated \/ UNCHANGED vars
    PROVE  FilesInv'
<1>1. /\ value' = value /\ UNCHANGED <<log, disk, copy, probe, req>>
      /\ (pc # "files" /\ pc' # "files") \/ pc' = pc
    BY DEF OpenStream, StreamEnds, Enter, NextReturns, Terminated, vars, fileVars
<1>2. PICK f, e, d : f = value.file /\ e = req.etag /\ d = req.date
    OBVIOUS
<1>3. value'.file = f /\ req'.etag = e /\ req'.date = d
    BY <1>1, <1>2
<1>4. QED  BY <1>1, <1>2, <1>3, FilesAside

\* What comes back from the mounts is what the search has answered.
LEMMA ServeFiles ==
    ASSUME FilesInv, ServeFile
    PROVE  FilesInv'
<1>1. /\ UNCHANGED <<log, disk, copy, req>> /\ probe' = Idle
    BY DEF ServeFile
<1>2. PICK f, r, v :
         /\ f = probe.answer /\ (\E by, text : r = Response(by, text) /\ IsResponse(text))
         /\ v = [r EXCEPT !.file = f] /\ Leave(v, "returned")
    <2>1. PICK f, by, status, sent, text, v :
             /\ f = probe.answer /\ text = Text(status, sent)
             /\ v = [Response(by, text) EXCEPT !.file = f] /\ Leave(v, "returned")
        BY DEF ServeFile
    <2>2. IsResponse(text)
        BY <2>1, TextIsResponse
    <2>3. QED  BY <2>1, <2>2
<1>3. IsValue(r)
    BY <1>2, ResponseIsValue
<1>4. v.file = f
    BY <1>2, <1>3 DEF IsValue
<1>5. value' = v /\ pc' # "files"
    BY <1>2, Left
<1>6. PICK e, d : e = req.etag /\ d = req.date
    OBVIOUS
<1>7. req'.etag = e /\ req'.date = d
    BY <1>1, <1>6
<1>8. QED  BY <1>1, <1>2, <1>4, <1>5, <1>6, <1>7, FilesAside

\* The search starts, or there is nothing to search, or it ends with no file.
LEMMA MissedFiles ==
    ASSUME ReqInv, FilesInv, TryFiles \/ SearchThrows \/ NotFound
    PROVE  FilesInv'
<1>1. req'.etag = req.etag /\ req'.date = req.date
    <2>1. CASE NoRoute
        BY <2>1, ValidatorsKept
    <2>2. CASE ~NoRoute
        BY <2>2 DEF TryFiles, SearchThrows, NotFound
    <2>3. QED  BY <2>1, <2>2
<1>2. CASE TryFiles
    <2>1. /\ UNCHANGED <<log, disk, copy, value>> /\ pc' = "files"
          /\ probe' = [Idle EXCEPT !.step = "find", !.mount = 1]
        BY <1>2 DEF TryFiles, NoRoute, TryFirstMount
    <2>2. PICK pr : /\ probe' = pr /\ pr.step = "find" /\ pr.answer = NoFile /\ IsProbe(pr)
        BY <2>1, ProbeAnew
    <2>3. /\ Read(log, pr, copy) /\ Sent(log, pr.answer)
          /\ Told(log, pr.answer, copy, req.etag, req.date)
        BY <2>2, NothingSent, NothingRead
    <2>4. InUse(pr, pc')
        BY <2>1, <2>2 DEF InUse
    <2>5. QED  BY <1>1, <2>1, <2>2, <2>3, <2>4, FilesNext
<1>3. CASE SearchThrows \/ NotFound
    <2>1. /\ UNCHANGED <<log, disk, copy>>
          /\ (probe' = Idle) \/ (probe' = probe /\ pc # "files")
        BY <1>3 DEF SearchThrows, NotFound, NoRoute, AtDispatch
    <2>2. PICK by, text, kind, v :
             /\ v = Response(by, text) \/ v = Exception(kind, by)
             /\ value' = v /\ pc' # "files"
        BY <1>3, Left DEF SearchThrows, NotFound
    <2>3. v.file = NoFile
        BY <2>2, ResponseIsValue, ExceptionIsValue
    <2>4. QED  BY <1>1, <2>1, <2>2, <2>3, FilesAside
<1>4. QED  BY <1>2, <1>3

\* What other callees give back is what they were given, or has no file.
LEMMA ReturnFiles ==
    ASSUME IsValue(value), FilesInv,
           \/ Answer \/ Throw \/ AnswerPreflight \/ HandBack \/ NextThrows
           \/ HandlerReturns \/ HandlerThrows
    PROVE  FilesInv'
<1>1. UNCHANGED <<log, disk, copy, req, probe>> /\ pc # "files"
    BY DEF Answer, Throw, AnswerPreflight, HandBack, NextThrows, HandlerReturns, HandlerThrows,
           fileVars
<1>0. pc' # "files"
    BY Left DEF Answer, Throw, AnswerPreflight, HandBack, NextThrows, HandlerReturns, HandlerThrows
<1>2. PICK old : old = value
    OBVIOUS
<1>3. \E v : value' = v /\ v.file \in {old.file, NoFile}
    <2>1. CASE value' = old
        BY <2>1
    <2>2. CASE \E by, kind, res : value' = Exception(kind, by) \/ value' = Response(by, res)
        <3>1. PICK by, kind, res, v : /\ v = Exception(kind, by) \/ v = Response(by, res)
                                      /\ value' = v
            BY <2>2
        <3>2. QED  BY <3>1, ResponseIsValue, ExceptionIsValue
    <2>3. CASE value' = Nothing
        BY <2>3, NothingSent
    <2>4. CASE value' = Stamped(old)
        BY <1>2, <2>4, StampedIsValue
    <2>5. CASE AnswerPreflight
        <3>1. PICK by, text, w, v : /\ text = Text(204, 0) /\ w = Response(by, text)
                                    /\ v = Stamped(w) /\ Leave(v, "returned")
            BY <2>5 DEF AnswerPreflight
        <3>2. IsValue(w) /\ w.file = NoFile
            BY <3>1, TextIsResponse, ResponseIsValue
        <3>3. v.file = NoFile
            BY <3>1, <3>2, StampedIsValue
        <3>4. QED  BY <3>1, <3>3 DEF Leave
    <2>6. CASE HandlerReturns
        <3>1. PICK v : /\ Leave(v, "returned")
                       /\ v = value \/ v = [value EXCEPT !.res.body = NoneOf(@)]
            BY <2>6 DEF HandlerReturns
        <3>2. v.file = old.file
            BY <1>2, <3>1 DEF IsValue
        <3>3. QED  BY <3>1, <3>2 DEF Leave
    <2>7. CASE Answer \/ Throw
        <3>1. \/ value' = old
              \/ \E by, kind, res : value' = Exception(kind, by) \/ value' = Response(by, res)
            BY <1>2, <2>7 DEF Answer, Throw, Leave
        <3>2. QED  BY <2>1, <2>2, <3>1
    <2>8. CASE HandBack \/ NextThrows
        <3>1. value' = old \/ value' = Stamped(old) \/ value' = Nothing
            BY <1>2, <2>8 DEF HandBack, NextThrows, Leave
        <3>2. QED  BY <2>1, <2>3, <2>4, <3>1
    <2>9. CASE HandlerThrows
        <3>1. value' = old \/ \E by, res : value' = Response(by, res)
            BY <1>2, <2>9 DEF HandlerThrows, Leave
        <3>2. QED  BY <2>1, <2>2, <3>1
    <2>10. QED  BY <2>5, <2>6, <2>7, <2>8, <2>9
<1>4. PICK e, d : e = req.etag /\ d = req.date
    OBVIOUS
<1>5. req'.etag = e /\ req'.date = d
    BY <1>1, <1>4
<1>6. QED  BY <1>0, <1>1, <1>2, <1>3, <1>4, <1>5, FilesAside

\* Every step keeps it.
LEMMA FilesStep == IInv /\ RouterInv /\ FilesInv /\ [Next]_vars => FilesInv'
<1> SUFFICES ASSUME IInv, RouterInv, FilesInv, [Next]_vars PROVE FilesInv'
    OBVIOUS
<1>1. IsValue(value) /\ ReqInv
    BY DEF IInv, RouterInv
<1>2. CASE \/ OpenStream \/ StreamEnds \/ Enter \/ NextReturns \/ Terminated \/ UNCHANGED vars
    BY <1>2, QuietFiles
<1>3. CASE Handle \/ CallNext \/ HandOn \/ CallRoute \/ CallGetRoute
    BY <1>1, <1>3, CallFiles
<1>4. CASE \/ Answer \/ Throw \/ AnswerPreflight \/ HandBack \/ NextThrows
           \/ HandlerReturns \/ HandlerThrows
    BY <1>1, <1>4, ReturnFiles
<1>5. CASE TryFiles \/ SearchThrows \/ NotFound
    BY <1>1, <1>5, MissedFiles
<1>6. CASE SearchFile
    BY <1>6, SearchFiles
<1>7. CASE ServeFile
    BY <1>7, ServeFiles
<1>8. CASE EditFile
    BY <1>8, EditFiles
<1>9. CASE Revalidate
    BY <1>1, <1>9, RevalidateFiles
<1>10. QED  BY <1>2, <1>3, <1>4, <1>5, <1>6, <1>7, <1>8, <1>9 DEF Next

\* What is on disk at first is the only version of its place.
LEMMA FilesInitially == Init => FilesInv
<1> SUFFICES ASSUME Init PROVE FilesInv
    OBVIOUS
<1>1. PICK l, n : l = log /\ l \in Disks /\ n = Len(l)
    BY DEF Init, FilesInit
<1>2. PICK S : l \in Seq(S)
    BY <1>1, FilesAssumption
<1>3. n \in Nat /\ DOMAIN l = 1 .. n /\ l = [k \in 1 .. n |-> l[k]]
    BY <1>1, <1>2
<1>4. /\ \A v, w \in 1 .. n : l[v].place = l[w].place => v = w
      /\ \A v \in 1 .. n : l[v].mtime \in Int
    BY <1>1, <1>3, FilesAssumption
<1>5. ASSUME NEW p \in DOMAIN disk
      PROVE  disk[p] \in 1 .. n /\ l[disk[p]].place = p
    <2>1. disk = [x \in {f.place : f \in Range(log)} |-> CHOOSE v \in DOMAIN log : log[v].place = x]
        BY DEF Init, FilesInit
    <2>2. \E v \in DOMAIN log : log[v].place = p
        BY <1>5, <2>1 DEF Range
    <2>3. disk[p] = CHOOSE v \in DOMAIN log : log[v].place = p
        BY <1>5, <2>1
    <2>4. disk[p] \in DOMAIN log /\ log[disk[p]].place = p
        BY <2>2, <2>3
    <2>5. QED  BY <1>1, <1>3, <2>4
<1>6. ASSUME NEW p \in DOMAIN disk
      PROVE  OfPlace(l, disk[p], p) /\ \A v : OfPlace(l, v, p) => v <= disk[p]
    <2>1. PICK d : d = disk[p] /\ d \in 1 .. n /\ l[d].place = p
        BY <1>5
    <2>2. ASSUME NEW v, OfPlace(l, v, p) PROVE v <= d
        <3>1. v \in 1 .. n /\ l[v].place = l[d].place
            BY <1>1, <2>1, <2>2 DEF OfPlace
        <3>2. v = d
            BY <1>4, <2>1, <3>1
        <3>3. QED  BY <1>3, <2>1, <3>2
    <2>3. QED  BY <1>1, <2>1, <2>2 DEF OfPlace
<1>7. Kept(log, disk)
    BY <1>1, <1>3, <1>4, <1>6 DEF Kept, IsSequence
<1>8. PICK f, pr : f = NoFile /\ pr = Idle
    OBVIOUS
<1>9. probe = pr /\ copy = f /\ value.file = f /\ pr.answer = f /\ IsProbe(pr)
    BY <1>8, NothingSent DEF Init, FilesInit
<1>10. req.etag = <<>> /\ req.date = <<>>
    <2>1. PICK r, none : /\ none = <<>>
                         /\ req = [method |-> r.method, path |-> r.path, ws |-> r.ws,
                                   params |-> none, etag |-> none, date |-> none]
        BY DEF Init
    <2>2. QED  BY <2>1
<1>11. Asked(f, req.etag, req.date)
    BY <1>8, <1>10 DEF Asked
<1>12. /\ Read(log, pr, f) /\ Sent(log, f) /\ Told(log, f, f, req.etag, req.date)
    BY <1>8, NothingSent, NothingRead
<1>13. InUse(pr, pc) /\ IsAnswer(f)
    BY <1>8, NothingSent DEF Init, InUse
<1>14. QED  BY <1>13, <1>7, <1>8, <1>9, <1>11, <1>12 DEF FilesInv

-----------------------------------------------------------------------------
(* The theorems.                                                             *)

\* The invariant, next to that of the lookup.
LEMMA FilesInvariance == Spec => []FilesInv
<1>1. QED  BY FilesInitially, FilesStep, Invariance, RouterInvariance, PTL DEF Spec

\* A 304 says of the copy only what is so.
LEMMA GoodIsCopy ==
    ASSUME FilesInv, StillGood
    PROVE  /\ copy.version = value.file.version
           /\ req.date = <<>> => copy.size = log[copy.version].size
<1>1. PICK l, f, c, e, d : l = log /\ f = value.file /\ c = copy /\ e = req.etag /\ d = req.date
    OBVIOUS
<1>2. /\ Kept(l, disk) /\ Told(l, f, c, e, d) /\ Sent(l, c) /\ Asked(c, e, d)
      /\ f.status = 304 /\ c.place = f.place
    BY <1>1 DEF FilesInv, StillGood
<1>3. DOMAIN l = 1 .. Len(l)
    BY <1>2 DEF Kept, IsSequence
<1>4. \A v, w \in 1 .. Len(l) :
         v < w /\ l[v].place = l[w].place => l[w].mtime - l[v].mtime > Second
    BY <1>1, <1>3 DEF StillGood, SavedApart
<1>5. /\ c.version = f.version
      /\ d = <<>> => c.size = l[c.version].size
    BY <1>2, <1>4, ToldIsCopy
<1>6. QED  BY <1>1, <1>5

\* Whatever other processes save or remove between the calls of the file system, as
\* long as a second passes between two versions of a file: a 304 for the file the
\* client has is for the version of its copy.
THEOREM NotModifiedAlways == Spec => []NotModifiedIsCurrent
<1>1. FilesInv => NotModifiedIsCurrent
    BY GoodIsCopy DEF NotModifiedIsCurrent
<1>2. QED  BY <1>1, FilesInvariance, PTL

\* And if the client asks by the ETag alone, its copy has the whole of that version.
THEOREM CutCopyAlways == Spec => []CutCopyRepaired
<1>1. FilesInv => CutCopyRepaired
    BY GoodIsCopy DEF CutCopyRepaired
<1>2. QED  BY <1>1, FilesInvariance, PTL

-----------------------------------------------------------------------------
(* What a client takes for the body.                                         *)

\* The response says truly how long its body is, or the server will.
Fine(method, res) ==
    IF method = "HEAD" \/ res.status \in {204, 304} THEN res.body = 0
    ELSE \A k \in DOMAIN res.headers :
            res.headers[k].name = "Content-Length" => res.headers[k].value = res.body

\* Where the elements of t are from, which is s, d and e in turn.
Behind(s, d, e, t) ==
    /\ DOMAIN t = 1 .. Len(s) + Len(d) + Len(e)
    /\ \A k \in 1 .. Len(s) : t[k] = s[k]
    /\ \A k \in 1 .. Len(d) : t[Len(s) + k] = d[k]
    /\ \A k \in DOMAIN t : \/ k \in 1 .. Len(s) /\ t[k] = s[k]
                           \/ \E j \in 1 .. Len(d) : t[k] = d[j]
                           \/ \E j \in 1 .. Len(e) : t[k] = e[j]

\* What stands behind a sequence in turn.
LEMMA BehindIs ==
    ASSUME NEW S, NEW s, s \in Seq(S), NEW d, d \in Seq(S), NEW e, e \in Seq(S),
           NEW t, t = (s \o d) \o e
    PROVE  Behind(s, d, e, t)
<1>1. PICK l \in Nat, m \in Nat, n \in Nat : l = Len(s) /\ m = Len(d) /\ n = Len(e)
    OBVIOUS
<1>2. PICK u : u = s \o d
    OBVIOUS
<1>0. u \in Seq(S)
    BY <1>2
<1>3. Len(u) = l + m /\ \A k \in 1 .. l + m : u[k] = IF k <= l THEN s[k] ELSE d[k - l]
    BY <1>1, <1>2
<1>4. /\ t \in Seq(S) /\ Len(t) = l + m + n
      /\ \A k \in 1 .. l + m + n : t[k] = IF k <= l + m THEN u[k] ELSE e[k - (l + m)]
    <2>1. /\ u \o e \in Seq(S) /\ Len(u \o e) = Len(u) + Len(e)
          /\ \A k \in 1 .. Len(u) + Len(e) : (u \o e)[k] = IF k <= Len(u) THEN u[k] ELSE e[k - Len(u)]
        BY <1>0
    <2>2. QED  BY <1>1, <1>2, <1>3, <2>1
<1>5. DOMAIN t = 1 .. l + m + n
    BY <1>4
<1>6. \A k \in 1 .. l : t[k] = s[k]
    <2> SUFFICES ASSUME NEW k \in 1 .. l PROVE t[k] = s[k]
        OBVIOUS
    <2>1. k \in 1 .. l + m /\ k \in 1 .. l + m + n /\ k <= l + m /\ k <= l
        OBVIOUS
    <2>2. QED  BY <1>3, <1>4, <2>1
<1>7. \A k \in 1 .. m : t[l + k] = d[k]
    <2> SUFFICES ASSUME NEW k \in 1 .. m PROVE t[l + k] = d[k]
        OBVIOUS
    <2>1. PICK j : j = l + k
        OBVIOUS
    <2>2. j \in 1 .. l + m /\ j \in 1 .. l + m + n /\ j <= l + m /\ ~(j <= l) /\ j - l = k
        BY <2>1
    <2>3. t[j] = d[k]
        BY <1>3, <1>4, <2>2
    <2>4. QED  BY <2>1, <2>3
<1>8. ASSUME NEW k \in 1 .. l + m + n
      PROVE  \/ k \in 1 .. l /\ t[k] = s[k]
             \/ \E j \in 1 .. m : t[k] = d[j]
             \/ \E j \in 1 .. n : t[k] = e[j]
    <2>1. CASE k <= l
        <3>1. k \in 1 .. l
            BY <2>1
        <3>2. QED  BY <1>6, <3>1
    <2>2. CASE l < k /\ k <= l + m
        <3>1. PICK j \in 1 .. m : k = l + j
            <4>1. k - l \in 1 .. m /\ k = l + (k - l)
                BY <2>2
            <4>2. QED  BY <4>1
        <3>2. QED  BY <1>7, <3>1
    <2>3. CASE l + m < k
        <3>1. k - (l + m) \in 1 .. n /\ t[k] = e[k - (l + m)]
            <4>1. k - (l + m) \in 1 .. n /\ ~(k <= l + m)
                BY <2>3
            <4>2. QED  BY <1>4, <4>1
        <3>2. QED  BY <3>1
    <2>4. k <= l \/ (l < k /\ k <= l + m) \/ l + m < k
        OBVIOUS
    <2>5. QED  BY <2>1, <2>2, <2>3, <2>4
<1>9. \A k \in DOMAIN t :
         \/ k \in 1 .. l /\ t[k] = s[k]
         \/ \E j \in 1 .. m : t[k] = d[j]
         \/ \E j \in 1 .. n : t[k] = e[j]
    BY <1>5, <1>8
<1>10. QED  BY <1>1, <1>5, <1>6, <1>7, <1>9 DEF Behind

\* The bytes a client takes are those of the body.
LEMMA TakenIsBody ==
    ASSUME NEW method, NEW res, IsResponse(res), Fine(method, res)
    PROVE  Taken(method, SerializeInto(res)) = res.body
<1>1. PICK d, e : /\ d = Default(res, "Content-Length", res.body)
                  /\ e = Default(res, "Connection", "keep-alive")
    OBVIOUS
<1>2. PICK s, own, b : s = res.status /\ own = res.headers /\ b = res.body
    OBVIOUS
<1>3. PICK t : t = (own \o d) \o e
    OBVIOUS
<1>4. PICK wire : wire = SerializeInto(res)
    OBVIOUS
<1>5. wire = [status |-> s, headers |-> t, body |-> b]
    BY <1>1, <1>2, <1>3, <1>4 DEF SerializeInto, IsResponse
<1>6. wire.status = s /\ wire.headers = t
    BY <1>5
<1>7. CASE method = "HEAD" \/ s \in {204, 304}
    BY <1>2, <1>4, <1>6, <1>7 DEF Taken, Fine
<1>8. CASE ~(method = "HEAD" \/ s \in {204, 304})
    <2>1. PICK h, c : h = Header("Content-Length", b) /\ c = Header("Connection", "keep-alive")
        OBVIOUS
    <2>2. h.name = "Content-Length" /\ h.value = b /\ c.name = "Connection"
        BY <2>1 DEF Header
    <2>3. /\ d = IF HasHeader(res, "Content-Length") THEN <<>> ELSE <<h>>
          /\ e = IF HasHeader(res, "Connection") THEN <<>> ELSE <<c>>
        BY <1>1, <1>2, <2>1 DEF Default
    <2>4. PICK n \in Nat : n = Len(own) /\ own = [k \in 1 .. n |-> own[k]]
        BY <1>2 DEF IsResponse, IsSequence
    <2>5. PICK S : S = {own[k] : k \in 1 .. n} \cup {h, c}
        OBVIOUS
    <2>6. own \in Seq(S)
        <3>1. \A k \in 1 .. n : own[k] \in S
            BY <2>5
        <3>2. own \in [1 .. n -> S]
            BY <2>4, <3>1
        <3>3. QED  BY <3>2, FunctionIsSequence
    <2>7. h \in S /\ c \in S
        BY <2>5
    <2>8. /\ d \in Seq(S) /\ e \in Seq(S)
          /\ ~HasHeader(res, "Content-Length") => Len(d) = 1 /\ d[1] = h
          /\ \A k \in 1 .. Len(d) : d[k] = h
          /\ \A k \in 1 .. Len(e) : e[k] = c
        <3>1. <<h>> \in Seq(S) /\ Len(<<h>>) = 1 /\ <<h>>[1] = h
            BY <2>7
        <3>2. <<c>> \in Seq(S) /\ Len(<<c>>) = 1 /\ <<c>>[1] = c
            BY <2>7
        <3>3. PICK one, two : one = <<h>> /\ two = <<c>>
            OBVIOUS
        <3>4. /\ one \in Seq(S) /\ Len(one) = 1 /\ one[1] = h
              /\ two \in Seq(S) /\ Len(two) = 1 /\ two[1] = c
              /\ \A k \in 1 .. Len(one) : one[k] = h
              /\ \A k \in 1 .. Len(two) : two[k] = c
            <4>1. /\ one \in Seq(S) /\ Len(one) = 1 /\ one[1] = h
                  /\ two \in Seq(S) /\ Len(two) = 1 /\ two[1] = c
                BY <3>1, <3>2, <3>3
            <4>2. QED  BY <4>1
        <3>5. PICK none : none = <<>>
            OBVIOUS
        <3>6. none \in Seq(S) /\ \A k : ~(k \in 1 .. Len(none))
            <4>1. none \in Seq(S) /\ Len(none) = 0
                BY <3>5
            <4>2. QED  BY <4>1
        <3>7. d \in {none, one} /\ e \in {none, two} /\ (~HasHeader(res, "Content-Length") => d = one)
            BY <2>3, <3>3, <3>5
        <3>8. d \in Seq(S) /\ \A k \in 1 .. Len(d) : d[k] = h
            BY <3>4, <3>6, <3>7
        <3>9. e \in Seq(S) /\ \A k \in 1 .. Len(e) : e[k] = c
            BY <3>4, <3>6, <3>7
        <3>10. QED  BY <3>4, <3>7, <3>8, <3>9
    <2>9. Behind(own, d, e, t)
        BY <1>3, <2>6, <2>8, BehindIs
    <2>10. \A k \in 1 .. n : own[k].name = "Content-Length" => own[k].value = b
        BY <1>2, <1>8, <2>4 DEF Fine
    <2>11. PICK stated : stated = {k \in DOMAIN t : t[k].name = "Content-Length"}
        OBVIOUS
    <2>12. \A k \in stated : t[k].value = b
        <3> SUFFICES ASSUME NEW k \in stated PROVE t[k].value = b
            OBVIOUS
        <3>1. k \in DOMAIN t /\ t[k].name = "Content-Length"
            BY <2>11
        <3>2. \/ k \in 1 .. n /\ t[k] = own[k]
              \/ t[k] = h
              \/ t[k] = c
            BY <2>4, <2>8, <2>9, <3>1 DEF Behind
        <3>3. QED  BY <2>2, <2>10, <3>1, <3>2
    <2>13. stated # {}
        <3>1. CASE HasHeader(res, "Content-Length")
            <4>1. PICK k \in 1 .. n : own[k].name = "Content-Length"
                BY <1>2, <2>4, <3>1 DEF HasHeader
            <4>2. Len(own) = n /\ Len(d) \in Nat /\ Len(e) \in Nat
                BY <2>4, <2>8
            <4>3. k \in 1 .. Len(own) /\ k \in 1 .. Len(own) + Len(d) + Len(e)
                BY <4>2
            <4>4. k \in DOMAIN t /\ t[k] = own[k]
                BY <2>9, <4>3 DEF Behind
            <4>5. QED  BY <2>11, <4>1, <4>4
        <3>2. CASE ~HasHeader(res, "Content-Length")
            <4>0. Len(d) = 1 /\ d[1] = h /\ 1 \in 1 .. Len(d) /\ Len(e) \in Nat
                BY <2>8, <3>2
            <4>1. Len(d) = 1 /\ t[n + 1] = h /\ Len(e) \in Nat
                BY <2>4, <2>9, <4>0 DEF Behind
            <4>2. n + 1 \in DOMAIN t
                BY <2>4, <2>9, <4>1 DEF Behind
            <4>3. QED  BY <2>2, <2>11, <4>1, <4>2
        <3>3. QED  BY <3>1, <3>2
    <2>14. stated \in SUBSET Nat
        BY <2>4, <2>8, <2>9, <2>11 DEF Behind
    <2>15. Min(stated) \in stated
        <3>1. PICK m \in stated : \A k \in stated : m <= k
            BY <2>13, <2>14, LeastNatural
        <3>2. QED  BY <3>1 DEF Min
    <2>16. Taken(method, wire) = t[Min(stated)].value
        BY <1>6, <1>8, <2>11 DEF Taken
    <2>17. QED  BY <1>2, <1>4, <2>12, <2>15, <2>16
<1>9. QED  BY <1>7, <1>8

-----------------------------------------------------------------------------
(* The invariant.                                                            *)

Depth(a) == Len(a.layers) + 1      \* Inside, of an application
Bare(a, c) == a.routes[c].layers = <<>>

\* dispatch() remembers rightly whether a GET route stands in for HEAD.
StandsIn(a, method, c, fallback) ==
    fallback <=> method = "HEAD" /\ a.routes[c].method = "GET"

\* Whose responses have the length of their body from the server.
ServerMade(a, method, by) ==
    \/ by[1] = "file"
    \/ by[1] = "notFound" /\ method # "HEAD"
    \/ /\ by[1] \in {"handler", "error"} /\ Bare(a, by[2])
       /\ method = "HEAD" => a.routes[by[2]].method = "GET"
    \/ by[1] = "layer" /\ a.layers[by[2]] = "cors"

Framed(a, method, v) ==
    v.kind = "response" /\ ServerMade(a, method, v.by) => Fine(method, v.res)

OfRoute(v) == v.by[1] \in {"handler", "routeLayer"}

\* What the layers of a route have given back, or its handler to them.
Wrapped(a, v) == v.kind # "nothing" => OfRoute(v) /\ ~Bare(a, v.by[2])

\* What the route has given back to dispatch().
HandedUp(a, method, v, fallback) ==
    \/ v.kind = "nothing"
    \/ /\ OfRoute(v)
       /\ Bare(a, v.by[2]) =>
             /\ StandsIn(a, method, v.by[2], fallback)
             /\ v.kind = "response" /\ method # "HEAD" => Fine(method, v.res)

\* A route without layers has nothing but its handler, and the request it was
\* found for: no middleware runs below dispatch() that could rewrite it.
Below(a, method, s) ==
    Bare(a, s[Depth(a) + 1].chain) =>
        /\ Len(s) = Depth(a) + 1
        /\ StandsIn(a, method, s[Depth(a) + 1].chain, s[Depth(a)].fallback)

InStep(a, method, s, control, v) ==
    /\ control = "enter" => v.kind = "nothing"
    /\ Len(s) > Depth(a) => Below(a, method, s) /\ Wrapped(a, v)
    /\ Len(s) = Depth(a) =>
          /\ control = "enter" => ~s[Depth(a)].fallback
          /\ control \in {"returned", "thrown"} => HandedUp(a, method, v, s[Depth(a)].fallback)
    /\ Len(s) < Depth(a) /\ control \in {"running", "returned", "done"} => Framed(a, method, v)

FramingInv == InStep(app, req.method, stack, pc, value)

-----------------------------------------------------------------------------
(* Every step keeps it.                                                      *)

\* What is given back to the caller.
LEMMA LeaveFraming ==
    ASSUME AppInv, WellStacked(stack), FramingInv, UNCHANGED app, req'.method = req.method,
           stack # <<>>, NEW v, NEW outcome \in {"returned", "thrown"}, Leave(v, outcome),
           Len(stack) > Inside + 1 => Wrapped(app, v),
           Len(stack) = Inside + 1 => HandedUp(app, req.method, v, stack[Inside].fallback),
           Len(stack) <= Inside /\ outcome = "returned" => Framed(app, req.method, v)
    PROVE  FramingInv'
<1>0. PICK i \in Nat, n \in Nat : i = Inside /\ i >= 1 /\ n = Len(stack) /\ n >= 1
    BY TopIs
<1>1. PICK a, m, s :
         /\ a = app /\ m = req.method /\ s = stack
         /\ i = Inside /\ i >= 1 /\ n = Len(stack) /\ n >= 1 /\ n = Len(s)
    BY <1>0
<1>2. i = Depth(a)
    BY <1>1 DEF Inside, Depth
<1>3. PICK t, control : t = stack' /\ control = pc'
    OBVIOUS
<1>4. /\ Len(t) = n - 1 /\ value' = v
      /\ \A k \in 1 .. n - 1 : t[k] = s[k]
      /\ n > 1 => control = outcome
      /\ n = 1 => control = IF outcome = "returned" THEN "done" ELSE "failed"
    BY <1>1, <1>3, Popped DEF Leave
<1>5. InStep(a, m, s, pc, value)
    BY <1>1 DEF FramingInv
<1>6. ASSUME n - 1 > i PROVE Below(a, m, t) /\ Wrapped(a, v)
    <2>1. n > i /\ n # i + 1 /\ n > i + 1 /\ i + 1 \in 1 .. n - 1
        BY <1>6
    <2>2. ~Bare(a, s[i + 1].chain)
        BY <1>1, <1>2, <1>5, <2>1 DEF InStep, Below
    <2>3. t[i + 1] = s[i + 1]
        BY <1>4, <2>1
    <2>4. Below(a, m, t)
        BY <1>2, <2>2, <2>3 DEF Below
    <2>5. QED  BY <1>1, <2>1, <2>4
<1>7. ASSUME n - 1 = i PROVE HandedUp(a, m, v, t[i].fallback)
    <2>1. n = i + 1 /\ i \in 1 .. n - 1
        BY <1>1, <1>7
    <2>2. t[i] = s[i]
        BY <1>4, <2>1
    <2>3. QED  BY <1>1, <2>1, <2>2
<1>8. ASSUME n - 1 < i, control \in {"running", "returned", "done"} PROVE Framed(a, m, v)
    <2>1. n <= i /\ outcome = "returned"
        BY <1>1, <1>4, <1>8
    <2>2. QED  BY <1>1, <2>1
<1>9. control # "enter"
    BY <1>1, <1>4
<1>10. InStep(a, m, t, control, v)
    BY <1>2, <1>4, <1>6, <1>7, <1>8, <1>9 DEF InStep
<1>11. QED  BY <1>1, <1>3, <1>4, <1>10 DEF FramingInv

\* What is called.
LEMMA CallFraming ==
    ASSUME UNCHANGED app, NEW frames, Call(frames), Len(frames) \in Nat, Inside \in Nat,
           Len(frames) > Inside => Below(app, req'.method, frames),
           Len(frames) = Inside => ~frames[Inside].fallback
    PROVE  FramingInv'
<1>1. PICK a, m, n : a = app /\ m = req'.method /\ n = Nothing
    OBVIOUS
<1>2. Inside = Depth(a)
    BY <1>1 DEF Inside, Depth
<1>3. PICK control : control = pc' /\ control \in {"enter", "crashed"}
    BY DEF Call
<1>4. n.kind = "nothing"
    BY <1>1 DEF Nothing
<1>5. Wrapped(a, n) /\ Framed(a, m, n) /\ \A fallback : HandedUp(a, m, n, fallback)
    BY <1>4 DEF Wrapped, Framed, HandedUp
<1>6. InStep(a, m, frames, control, n)
    BY <1>1, <1>2, <1>3, <1>4, <1>5 DEF InStep
<1>7. QED  BY <1>1, <1>3, <1>6 DEF FramingInv, Call

\* Steps that neither call nor return.
LEMMA QuietFraming ==
    ASSUME AppInv, WellStacked(stack), ControlInv, FramingInv, req'.method = req.method,
           \/ OpenStream \/ StreamEnds \/ Enter \/ NextReturns
           \/ TryFiles \/ SearchFile \/ EditFile \/ Revalidate \/ Terminated \/ UNCHANGED vars
    PROVE  FramingInv'
<1>0. PICK i \in Nat, n \in Nat : i = Inside /\ i >= 1 /\ n = Len(stack)
    <2>1. Inside \in Nat /\ Inside >= 1
        BY AppTyped DEF Inside
    <2>2. Len(stack) \in Nat
        BY DEF WellStacked
    <2>3. QED  BY <2>1, <2>2
<1>1. PICK a, m, s :
         /\ a = app /\ m = req.method /\ s = stack
         /\ i = Inside /\ i >= 1 /\ n = Len(stack) /\ n = Len(s)
    BY <1>0
<1>2. i = Depth(a)
    BY <1>1 DEF Inside, Depth
<1>3. PICK v, control, w, was : control = pc' /\ v = value' /\ w = value /\ was = pc
    OBVIOUS
<1>4. /\ UNCHANGED <<app, stack>>
      /\ \/ was = "lookup" /\ control = "streaming" /\ v = w
         \/ was = "streaming" /\ control = "done" /\ v = w /\ w = Nothing
         \/ was = "enter" /\ ~IsDispatch(Top) /\ control = "running" /\ v = w /\ s # <<>>
         \/ was = "returned" /\ ~IsDispatch(Top) /\ control = "running" /\ v = w /\ s # <<>>
         \/ control = "files" /\ v = w
         \/ control = "lookup" /\ v = Nothing /\ was = "done"
         \/ v = w /\ control = was
    BY <1>1, <1>3 DEF OpenStream, StreamEnds, Enter, NextReturns, TryFiles, NoRoute, AtDispatch, SearchFile,
           EditFile, Revalidate, Terminated, vars, IsDispatch, IsLayer, ControlInv
<1>5. InStep(a, m, s, was, w)
    BY <1>1, <1>3 DEF FramingInv
<1>6. s # <<>> => n # i \/ IsDispatch(Top)
    BY <1>1, TopIs
<1>7. Nothing.kind = "nothing" /\ Wrapped(a, Nothing) /\ Framed(a, m, Nothing)
    <2>1. Nothing.kind = "nothing"
        BY DEF Nothing
    <2>2. QED  BY <2>1 DEF Wrapped, Framed
<1>8. w.kind = "nothing" => Framed(a, m, w)
    BY DEF Framed
<1>9. InStep(a, m, s, control, v)
    BY <1>1, <1>2, <1>4, <1>5, <1>6, <1>7, <1>8 DEF InStep
<1>10. QED  BY <1>1, <1>3, <1>4, <1>9 DEF FramingInv

\* The route that is looked up has the method that is asked for.
LEMMA FoundMethod ==
    ASSUME AppInv, NEW method, NEW params, NEW k, k \in 1 .. Len(app.routes),
           k = Resolve(method, req.path, params).route
    PROVE  app.routes[k].method = method
<1>1. PICK found : found = Resolve(method, req.path, params)
    OBVIOUS
<1>2. k # 0
    BY AppTyped
<1>3. FirstFit(k, method)
    BY <1>1, <1>2, LookupIs
<1>4. app.asked.routes[k].method = method
    BY <1>3 DEF FirstFit, Fits
<1>5. QED  BY <1>4, PatternIs

\* Calls: what runs below a route without layers is its handler only.
LEMMA CallsFraming ==
    ASSUME IInv, ReqInv, FramingInv, Handle \/ CallNext \/ HandOn \/ CallRoute \/ CallGetRoute
    PROVE  FramingInv'
<1>1. AppInv /\ WellStacked(stack) /\ ControlInv /\ UNCHANGED app
    BY DEF IInv, Handle, CallNext, HandOn, CallRoute, CallGetRoute
<1>2. PICK i \in Nat : i = Inside /\ i = Depth(app) /\ i >= 1
    BY <1>1, AppTyped DEF Inside, Depth
<1>3. \A c, p : ~Frame(c, p).fallback /\ Frame(c, p).chain = c
    BY DEF Frame
<1>4. CASE Handle
    <2>1. PICK frames : Call(frames) /\ Len(frames) = 1 /\ frames[1] = Frame(0, 1)
        BY <1>1, <1>4, FirstFrames
    <2>2. /\ Len(frames) > Inside => Below(app, req'.method, frames)
          /\ Len(frames) = Inside => ~frames[Inside].fallback
          /\ Len(frames) \in Nat /\ Inside \in Nat
        BY <1>2, <1>3, <2>1
    <2>3. QED  BY <1>1, <2>1, <2>2, CallFraming
<1>5. CASE CallNext \/ HandOn
    <2>1. pc = "running" /\ IsLayer(Top) /\ EnterNext /\ stack # <<>>
        BY <1>1, <1>5 DEF CallNext, HandOn, IsUserCode, ControlInv
    <2>2. PICK frames, self :
             /\ Call(frames) /\ PushedOn(frames, self, Frame(Top.chain, Top.pos + 1))
             /\ self.chain = Top.chain
        BY <2>1, NextFrames
    <2>3. PICK n \in Nat : n = Len(stack) /\ n \in 1 .. Len(stack) /\ Top = stack[n] /\ n # i
        BY <1>1, <1>2, <2>1, TopIs
    <2>4. /\ Len(frames) = n + 1 /\ frames[n] = self /\ ~frames[n + 1].fallback
          /\ \A k \in 1 .. n - 1 : frames[k] = stack[k]
        BY <1>3, <2>2, <2>3 DEF PushedOn
    <2>5. ASSUME n + 1 > i PROVE Below(app, req'.method, frames)
        <3>1. n > i
            BY <2>3, <2>5
        <3>2. CASE n = i + 1
            <4>1. Top.pos = 1 /\ Top.pos <= Len(app.routes[Top.chain].layers)
                  /\ Top.chain \in 1 .. Len(app.routes)
                <5>1. n - i = 1
                    BY <3>2
                <5>2. QED  BY <1>1, <1>2, <2>1, <2>3, <3>1, <5>1, CodeAt
            <4>2. PICK c : c = Top.chain /\ c = frames[i + 1].chain
                BY <2>2, <2>4, <3>2
            <4>3. app.routes[c].layers # <<>>
                BY <4>1, <4>2
            <4>4. QED  BY <1>2, <4>2, <4>3 DEF Below, Bare
        <3>3. CASE n > i + 1
            <4>1. Below(app, req.method, stack)
                BY <1>2, <2>3, <3>1 DEF FramingInv, InStep
            <4>2. ~Bare(app, stack[i + 1].chain)
                BY <1>2, <2>3, <3>3, <4>1 DEF Below
            <4>3. frames[i + 1] = stack[i + 1]
                BY <1>2, <2>4, <3>3
            <4>4. QED  BY <1>2, <4>2, <4>3 DEF Below
        <3>4. QED  BY <3>1, <3>2, <3>3
    <2>6. n + 1 = i => ~frames[i].fallback
        BY <2>4
    <2>7. QED  BY <1>1, <1>2, <2>2, <2>4, <2>5, <2>6, CallFraming
<1>6. CASE CallRoute \/ CallGetRoute
    <2>1. PICK frames, self, route :
             /\ route \in 1 .. Len(app.routes)
             /\ Call(frames) /\ PushedOn(frames, self, Frame(route, 1))
             /\ \/ CallRoute /\ route = Direct.route /\ self.fallback = Top.fallback
                \/ CallGetRoute /\ route = AsGet.route /\ self.fallback
        BY <1>6, RouteFrames
    <2>2. AtDispatch /\ stack # <<>>
        BY <1>1, <1>6 DEF CallRoute, CallGetRoute, AtDispatch, ControlInv
    <2>3. PICK n \in Nat : n = Len(stack) /\ n = i /\ Top = stack[i]
        BY <1>1, <1>2, <2>2, TopIs DEF AtDispatch
    <2>4. ~Top.fallback
        BY <1>2, <2>2, <2>3 DEF FramingInv, InStep, AtDispatch
    <2>5. PICK m : m = req.method
        OBVIOUS
    <2>6. req'.method = m
        <3>1. PICK params : req' = [req EXCEPT !.params = params]
            BY <1>6 DEF CallRoute, CallGetRoute
        <3>2. QED  BY <2>5, <3>1, NewParams
    <2>7. StandsIn(app, m, route, self.fallback)
        <3>1. CASE CallRoute /\ route = Direct.route /\ self.fallback = Top.fallback
            <4>1. PICK params : params = req.params
                OBVIOUS
            <4>2. route = Resolve(m, req.path, params).route
                BY <2>5, <3>1, <4>1 DEF Direct
            <4>3. app.routes[route].method = m
                BY <1>1, <2>1, <4>2, FoundMethod
            <4>4. QED  BY <2>4, <3>1, <4>3 DEF StandsIn
        <3>2. CASE CallGetRoute /\ route = AsGet.route /\ self.fallback
            <4>1. PICK params : params = Direct.params
                OBVIOUS
            <4>2. route = Resolve("GET", req.path, params).route
                BY <3>2, <4>1 DEF AsGet
            <4>3. app.routes[route].method = "GET"
                BY <1>1, <2>1, <4>2, FoundMethod
            <4>4. m = "HEAD"
                BY <2>5, <3>2 DEF CallGetRoute
            <4>5. QED  BY <3>2, <4>3, <4>4 DEF StandsIn
        <3>3. QED  BY <2>1, <3>1, <3>2
    <2>8. Len(frames) = i + 1 /\ frames[i] = self /\ frames[i + 1].chain = route
        BY <1>3, <2>1, <2>3 DEF PushedOn
    <2>9. Below(app, req'.method, frames)
        BY <1>2, <2>6, <2>7, <2>8 DEF Below
    <2>10. QED  BY <1>1, <1>2, <2>1, <2>8, <2>9, CallFraming
<1>7. QED  BY <1>4, <1>5, <1>6

-----------------------------------------------------------------------------
(* Responses that are fine.                                                  *)

\* What text() makes.
LEMMA TextIs ==
    ASSUME NEW status, NEW body
    PROVE  /\ Text(status, body).status = status /\ Text(status, body).body = body
           /\ Text(status, body).headers = <<>>
<1>1. PICK none, blank : none = <<>> /\ blank = Blank
    OBVIOUS
<1>2. blank = [status |-> 200, headers |-> none, body |-> 0]
    BY <1>1 DEF Blank
<1>3. PICK a : a = [blank EXCEPT !.status = status]
    OBVIOUS
<1>4. a = [status |-> status, headers |-> none, body |-> 0]
    BY <1>2, <1>3
<1>5. PICK b : b = [a EXCEPT !.body = body]
    OBVIOUS
<1>6. b = [status |-> status, headers |-> none, body |-> body]
    BY <1>4, <1>5
<1>7. Text(status, body) = b
    BY <1>1, <1>3, <1>5 DEF Text
<1>8. QED  BY <1>1, <1>6, <1>7

\* It states no length, and has none where there must be none.
LEMMA TextFine ==
    ASSUME NEW method, NEW status, NEW body,
           method = "HEAD" \/ status \in {204, 304} => body = 0
    PROVE  Fine(method, Text(status, body))
<1>1. PICK r : r = Text(status, body)
    OBVIOUS
<1>2. r.status = status /\ r.body = body /\ r.headers = <<>>
    BY <1>1, TextIs
<1>3. \A k : ~(k \in DOMAIN r.headers)
    <2>1. PICK none : none = <<>> /\ r.headers = none
        BY <1>2
    <2>2. \A k : ~(k \in DOMAIN none)
        BY <2>1
    <2>3. QED  BY <2>1, <2>2
<1>4. QED  BY <1>1, <1>2, <1>3 DEF Fine

\* What set_header makes.
LEMMA SetIs ==
    ASSUME NEW r, IsResponse(r), NEW name, NEW val
    PROVE  /\ SetHeader(r, name, val).status = r.status /\ SetHeader(r, name, val).body = r.body
           /\ SetHeader(r, name, val).headers = Append(r.headers, Header(name, val))
<1>1. PICK h, t : h = Header(name, val) /\ t = Append(r.headers, h)
    OBVIOUS
<1>2. SetHeader(r, name, val) = [r EXCEPT !.headers = t]
    BY <1>1 DEF SetHeader
<1>3. SetHeader(r, name, val) = [status |-> r.status, headers |-> t, body |-> r.body]
    BY <1>2 DEF IsResponse
<1>4. QED  BY <1>1, <1>3

\* It stays fine with another header, or with the length it has.
LEMMA SetFine ==
    ASSUME NEW method, NEW r, IsResponse(r), Fine(method, r), NEW name, NEW val,
           name # "Content-Length" \/ val = r.body
    PROVE  Fine(method, SetHeader(r, name, val))
<1>1. PICK s, h, t : s = SetHeader(r, name, val) /\ h = Header(name, val) /\ t = s.headers
    OBVIOUS
<1>2. s.status = r.status /\ s.body = r.body /\ t = Append(r.headers, h)
    BY <1>1, SetIs
<1>3. h.name = name /\ h.value = val
    BY <1>1 DEF Header
<1>4. PICK n, own : n \in Nat /\ own = r.headers /\ n = Len(own) /\ own = [k \in 1 .. n |-> own[k]]
    BY DEF IsResponse, IsSequence
<1>5. PICK S : S = {own[k] : k \in 1 .. n} \cup {h}
    OBVIOUS
<1>6. own \in Seq(S) /\ h \in S
    <2>1. \A k \in 1 .. n : own[k] \in S
        BY <1>5
    <2>2. own \in [1 .. n -> S]
        BY <1>4, <2>1
    <2>3. h \in S
        BY <1>5
    <2>4. QED  BY <1>4, <2>2, <2>3, FunctionIsSequence
<1>7. DOMAIN t = 1 .. n + 1 /\ t[n + 1] = h /\ \A k \in 1 .. n : t[k] = own[k]
    BY <1>2, <1>4, <1>6
<1>8. ASSUME NEW k \in DOMAIN t
      PROVE  (k \in DOMAIN own /\ t[k] = own[k]) \/ t[k] = h
    <2>1. k \in 1 .. n \/ k = n + 1
        BY <1>4, <1>7
    <2>2. DOMAIN own = 1 .. n
        BY <1>4
    <2>3. QED  BY <1>7, <2>1, <2>2
<1>9. PICK status, body : status = r.status /\ body = r.body /\ status = s.status /\ body = s.body
    BY <1>2
<1>10. CASE method = "HEAD" \/ status \in {204, 304}
    <2>1. body = 0
        BY <1>9, <1>10 DEF Fine
    <2>2. QED  BY <1>1, <1>9, <1>10, <2>1 DEF Fine
<1>11. CASE ~(method = "HEAD" \/ status \in {204, 304})
    <2>1. \A k \in DOMAIN own : own[k].name = "Content-Length" => own[k].value = body
        BY <1>4, <1>9, <1>11 DEF Fine
    <2>2. h.name = "Content-Length" => h.value = body
        BY <1>3, <1>9
    <2>3. \A k \in DOMAIN t : t[k].name = "Content-Length" => t[k].value = body
        <3> SUFFICES ASSUME NEW k \in DOMAIN t, t[k].name = "Content-Length" PROVE t[k].value = body
            OBVIOUS
        <3>1. (k \in DOMAIN own /\ t[k] = own[k]) \/ t[k] = h
            BY <1>8
        <3>2. CASE k \in DOMAIN own /\ t[k] = own[k]
            BY <2>1, <3>2
        <3>3. CASE t[k] = h
            BY <2>2, <3>3
        <3>4. QED  BY <3>1, <3>2, <3>3
    <2>4. Fine(method, s)
        BY <1>1, <1>9, <1>11, <2>3 DEF Fine
    <2>5. QED  BY <1>1, <2>4
<1>12. QED  BY <1>10, <1>11

\* What user code makes is fine, but for HEAD.
LEMMA MadeFine ==
    ASSUME NEW f, NEW res \in Made(f), req.method # "HEAD"
    PROVE  Fine(req.method, res)
<1>1. PICK m : m = req.method
    OBVIOUS
<1>2. \/ \E size : res = Text(200, size)
      \/ res = SetHeader(Text(200, 1), "Content-Length", 1)
    BY DEF Made
<1>3. CASE \E size : res = Text(200, size)
    <2>1. PICK size, status : status = 200 /\ res = Text(status, size)
        BY <1>3
    <2>2. QED  BY <2>1, TextFine
<1>4. CASE res = SetHeader(Text(200, 1), "Content-Length", 1)
    <2>1. PICK r, status, one, name : /\ status = 200 /\ one = 1 /\ name = "Content-Length"
                                      /\ r = Text(status, one) /\ res = SetHeader(r, name, one)
        BY <1>4
    <2>2. IsResponse(r) /\ r.body = one
        BY <2>1, TextIsResponse, TextIs
    <2>3. Fine(m, r)
        BY <1>1, <2>1, TextFine
    <2>4. Fine(m, res)
        BY <2>1, <2>2, <2>3, SetFine
    <2>5. QED  BY <1>1, <2>4
<1>5. QED  BY <1>2, <1>3, <1>4

\* cors() leaves what is fine fine.
LEMMA StampedFine ==
    ASSUME NEW v, IsValue(v)
    PROVE  /\ Stamped(v).kind = v.kind
           /\ \A method : Fine(method, v.res) => Fine(method, Stamped(v).res)
<1>1. PICK name, val, r : /\ name = "Access-Control-Allow-Origin" /\ val = "*"
                          /\ r = SetHeader(v.res, name, val)
    OBVIOUS
<1>2. Stamped(v) = [v EXCEPT !.res = r]
    BY <1>1 DEF Stamped
<1>3. Stamped(v) = [kind |-> v.kind, by |-> v.by, res |-> r, file |-> v.file]
    BY <1>2 DEF IsValue
<1>4. Stamped(v).kind = v.kind /\ Stamped(v).res = r
    BY <1>3
<1>5. IsResponse(v.res) /\ name # "Content-Length"
    BY <1>1 DEF IsValue
<1>6. \A method : Fine(method, v.res) => Fine(method, r)
    BY <1>1, <1>5, SetFine
<1>7. QED  BY <1>4, <1>6

-----------------------------------------------------------------------------
(* Who gives back what.                                                      *)

\* What v may be, given back from where the stack is.
Fitting(v) ==
    /\ Len(stack) > Inside + 1 => Wrapped(app, v)
    /\ Len(stack) = Inside + 1 => HandedUp(app, req.method, v, stack[Inside].fallback)
    /\ Len(stack) < Inside /\ pc = "running" => Framed(app, req.method, v)

\* What the top of the stack makes by itself.
LEMMA OwnFits ==
    ASSUME IInv, FramingInv, pc = "running", NEW v, v.by = Author(Top),
           v.kind = "response" /\ (req.method # "HEAD" \/ ~IsUserCode(Top)) => Fine(req.method, v.res),
           IsLayer(Top) \/ IsUserCode(Top)
    PROVE  Fitting(v)
<1>1. AppInv /\ WellStacked(stack) /\ stack # <<>> /\ ~IsDispatch(Top)
    BY DEF IInv, ControlInv
<1>2. PICK i \in Nat, n \in Nat :
         i = Inside /\ i = Depth(app) /\ i >= 1 /\ n = Len(stack) /\ n >= 1 /\ n \in 1 .. n
         /\ Top = stack[n] /\ n # i
    BY <1>1, TopIs DEF Inside, Depth
<1>3. PICK c, m : c = Top.chain /\ m = req.method
    OBVIOUS
<1>4. ASSUME n > i
      PROVE  /\ c \in 1 .. Len(app.routes) /\ c > 0 /\ Top.pos = n - i
             /\ IsLayer(Top) => Top.pos <= Len(app.routes[c].layers)
             /\ Top.pos <= Len(app.routes[c].layers) + 1
    <2>1. /\ c \in 1 .. Len(app.routes) /\ c > 0 /\ Top.pos = n - i
          /\ IsLayer(Top) => Top.pos <= Len(app.routes[c].layers)
        BY <1>1, <1>2, <1>3, <1>4, CodeAt
    <2>2. stack[n].pos <= Len(app.routes[stack[n].chain].layers) + 1
        <3>1. n \in 1 .. Len(stack) /\ ~(n <= Inside)
            BY <1>2, <1>4
        <3>2. QED  BY <1>1, <3>1 DEF WellStacked
    <2>3. QED  BY <1>2, <1>3, <2>1, <2>2
<1>5. ASSUME n > i
      PROVE  /\ OfRoute(v) /\ v.by[2] = c
             /\ ~Bare(app, c) \/ (n = i + 1 /\ IsUserCode(Top))
    <2>1. Top.chain # 0
        BY <1>3, <1>4, <1>5, AppTyped, <1>1
    <2>2. PICK by : by = v.by /\ by \in {<<"handler", c>>, <<"routeLayer", c>>}
        BY <1>3, <2>1 DEF Author
    <2>3. OfRoute(v) /\ v.by[2] = c
        BY <2>2 DEF OfRoute
    <2>4. PICK l \in Nat : l = Len(app.routes[c].layers)
        BY <1>1, <1>4, <1>5, AppTyped
    <2>5. Bare(app, c) => l = 0
        BY <2>4 DEF Bare
    <2>6. CASE n > i + 1
        <3>1. n - i <= l + 1 /\ n - i >= 2
            BY <1>4, <1>5, <2>4, <2>6
        <3>2. QED  BY <2>3, <2>5, <3>1
    <2>7. CASE IsLayer(Top)
        <3>1. n - i <= l /\ n - i >= 1
            BY <1>4, <1>5, <2>4, <2>7
        <3>2. QED  BY <2>3, <2>5, <3>1
    <2>8. CASE n = i + 1 /\ ~IsLayer(Top)
        BY <2>3, <2>8
    <2>9. QED  BY <1>5, <2>6, <2>7, <2>8
<1>6. ASSUME n > i + 1 PROVE Wrapped(app, v)
    BY <1>5, <1>6 DEF Wrapped
<1>7. ASSUME n = i + 1 PROVE HandedUp(app, m, v, stack[i].fallback)
    <2>1. OfRoute(v) /\ v.by[2] = c
        BY <1>5, <1>7
    <2>2. ASSUME Bare(app, c)
          PROVE  /\ StandsIn(app, m, c, stack[i].fallback)
                 /\ v.kind = "response" /\ m # "HEAD" => Fine(m, v.res)
        <3>1. Below(app, m, stack)
            BY <1>2, <1>3, <1>7 DEF FramingInv, InStep
        <3>2. stack[i + 1].chain = c
            BY <1>2, <1>3, <1>7
        <3>3. StandsIn(app, m, c, stack[i].fallback)
            BY <1>2, <2>2, <3>1, <3>2 DEF Below
        <3>4. QED  BY <1>3, <3>3
    <2>3. QED  BY <2>1, <2>2 DEF HandedUp
<1>8. ASSUME n < i PROVE Framed(app, m, v)
    <2>1. Top.chain = 0 /\ CodeOf(Top) = n /\ IsLayer(Top)
        BY <1>1, <1>2, <1>8, TopIs
    <2>2. ~IsHandler(Top)
        BY <2>1 DEF IsHandler
    <2>3. PICK by : by = v.by /\ by = <<"layer", n>>
        BY <2>1, <2>2 DEF Author
    <2>4. by[1] = "layer" /\ by[2] = n
        BY <2>3
    <2>5. ServerMade(app, m, by) => app.layers[n] = "cors"
        BY <2>4 DEF ServerMade
    <2>6. KindOfLayer(Top) = app.layers[n]
        BY <2>1 DEF KindOfLayer, LayersOf
    <2>7. ServerMade(app, m, by) => ~IsUserCode(Top)
        BY <2>1, <2>5, <2>6 DEF IsUserCode
    <2>8. QED  BY <1>3, <2>3, <2>7 DEF Framed
<1>9. QED  BY <1>2, <1>3, <1>6, <1>7, <1>8 DEF Fitting

\* What it hands on.
LEMMA HandedOnFits ==
    ASSUME IInv, FramingInv, pc = "running" \/ (pc = "thrown" /\ IsLayer(Top)),
           NEW v, v.by = value.by, v.kind = value.kind,
           Fine(req.method, value.res) => Fine(req.method, v.res)
    PROVE  Fitting(v)
<1>1. AppInv /\ WellStacked(stack) /\ stack # <<>>
    BY DEF IInv, ControlInv
<1>2. PICK i \in Nat, n \in Nat : i = Inside /\ i = Depth(app) /\ n = Len(stack)
    BY <1>1, TopIs DEF Inside, Depth
<1>3. PICK m, w : m = req.method /\ w = value
    OBVIOUS
<1>4. n > i => Wrapped(app, w)
    BY <1>2, <1>3 DEF FramingInv, InStep
<1>5. n > i => Wrapped(app, v)
    BY <1>3, <1>4 DEF Wrapped, OfRoute
<1>6. n = i + 1 => HandedUp(app, m, v, stack[i].fallback)
    BY <1>2, <1>5 DEF Wrapped, HandedUp
<1>7. ASSUME n < i, pc = "running" PROVE Framed(app, m, v)
    <2>1. Framed(app, m, w)
        BY <1>2, <1>3, <1>7 DEF FramingInv, InStep
    <2>2. QED  BY <1>3, <2>1 DEF Framed
<1>8. n > i + 1 => Wrapped(app, v)
    BY <1>2, <1>5
<1>9. QED  BY <1>2, <1>3, <1>6, <1>7, <1>8 DEF Fitting

\* What is given back, if it fits.
LEMMA FittingFraming ==
    ASSUME IInv, FramingInv, UNCHANGED <<app, req>>, pc \in {"running", "thrown"},
           ~IsDispatch(Top), NEW v, Fitting(v),
           NEW outcome \in {"returned", "thrown"}, Leave(v, outcome),
           outcome = "returned" => pc = "running"
    PROVE  FramingInv'
<1>1. AppInv /\ WellStacked(stack) /\ stack # <<>>
    BY DEF IInv, ControlInv
<1>2. PICK i \in Nat, n \in Nat : i = Inside /\ n = Len(stack) /\ n # i
    BY <1>1, TopIs
<1>3. Len(stack) <= Inside /\ outcome = "returned" => Framed(app, req.method, v)
    BY <1>2 DEF Fitting
<1>4. req'.method = req.method
    OBVIOUS
<1>5. QED  BY <1>1, <1>3, <1>4, LeaveFraming DEF Fitting

\* What layers and handlers give back.
LEMMA ReturnFraming ==
    ASSUME IInv, FramingInv, Answer \/ Throw \/ AnswerPreflight \/ HandBack
    PROVE  FramingInv'
<1>1. UNCHANGED <<app, req>> /\ pc = "running" /\ ~IsDispatch(Top) /\ IsValue(value)
    BY DEF IInv, ControlInv, Answer, Throw, AnswerPreflight, HandBack
<1>2. PICK m, f, by : m = req.method /\ f = Top /\ by = Author(f)
    OBVIOUS
<1>3. PICK v : Fitting(v) /\ (Leave(v, "returned") \/ Leave(v, "thrown"))
    <2>1. CASE Answer
        <3>1. CASE Leave(value, "returned")
            <4>1. Fitting(value)
                BY <1>1, HandedOnFits
            <4>2. QED  BY <3>1, <4>1
        <3>2. CASE \E res \in Made(Top) : Leave(Response(Author(Top), res), "returned")
            <4>1. PICK res, v : res \in Made(f) /\ v = Response(by, res) /\ Leave(v, "returned")
                BY <1>2, <3>2
            <4>2. v.by = by /\ v.res = res
                BY <4>1, ResponseIsValue
            <4>3. m # "HEAD" => Fine(m, res)
                BY <1>2, <4>1, MadeFine
            <4>4. IsUserCode(Top)
                BY <2>1 DEF Answer
            <4>5. Fitting(v)
                BY <1>1, <1>2, <4>2, <4>3, <4>4, OwnFits
            <4>6. QED  BY <4>1, <4>5
        <3>3. QED  BY <2>1, <3>1, <3>2 DEF Answer
    <2>2. CASE Throw
        <3>1. PICK kind, v : kind \in {"std", "foreign"} /\ v = Exception(kind, by) /\ Leave(v, "thrown")
            BY <1>2, <2>2 DEF Throw
        <3>2. v.by = by /\ v.kind = kind
            BY <3>1, ExceptionIsValue
        <3>3. IsUserCode(Top)
            BY <2>2 DEF Throw
        <3>4. Fitting(v)
            <4>1. v.kind # "response"
                BY <3>1, <3>2
            <4>2. QED  BY <1>1, <1>2, <3>2, <3>3, <4>1, OwnFits
        <3>5. QED  BY <3>1, <3>4
    <2>3. CASE AnswerPreflight
        <3>1. PICK text, status, size, w, v :
                 /\ status = 204 /\ size = 0 /\ text = Text(status, size)
                 /\ w = Response(by, text) /\ v = Stamped(w)
                 /\ Leave(v, "returned")
            BY <1>2, <2>3 DEF AnswerPreflight
        <3>2. w.by = by /\ w.kind = "response" /\ w.res = text /\ IsValue(w)
            BY <3>1, TextIsResponse, ResponseIsValue
        <3>3. Fine(m, text)
            BY <3>1, TextFine
        <3>4. v.by = by /\ Fine(m, v.res)
            BY <3>1, <3>2, <3>3, StampedIsValue, StampedFine
        <3>5. IsLayer(Top)
            BY <2>3 DEF AnswerPreflight, IsUserCode
        <3>6. Fitting(v)
            BY <1>1, <1>2, <3>4, <3>5, OwnFits
        <3>7. QED  BY <3>1, <3>6
    <2>4. CASE HandBack
        <3>1. PICK v : Leave(v, "returned") /\ (v = value \/ v = Stamped(value))
            BY <2>4 DEF HandBack
        <3>2. v.by = value.by /\ v.kind = value.kind /\ (Fine(m, value.res) => Fine(m, v.res))
            BY <1>1, <3>1, StampedIsValue, StampedFine
        <3>3. Fitting(v)
            BY <1>1, <1>2, <3>2, HandedOnFits
        <3>4. QED  BY <3>1, <3>3
    <2>5. QED  BY <2>1, <2>2, <2>3, <2>4
<1>4. PICK outcome \in {"returned", "thrown"} : Leave(v, outcome)
    BY <1>3
<1>5. QED  BY <1>1, <1>3, <1>4, FittingFraming

\* A layer's next throws.
LEMMA ThrownFraming ==
    ASSUME IInv, FramingInv, NextThrows
    PROVE  FramingInv'
<1>1. UNCHANGED <<app, req>> /\ pc = "thrown" /\ IsLayer(Top) /\ ~IsDispatch(Top)
    BY DEF NextThrows, IsLayer, IsDispatch
<1>2. AppInv /\ WellStacked(stack)
    BY DEF IInv
<1>3. CASE Leave(value, "thrown")
    <2>1. Fitting(value)
        BY <1>1, HandedOnFits
    <2>2. PICK v : v = value /\ Leave(v, "thrown") /\ Fitting(v)
        BY <1>3, <2>1
    <2>3. PICK outcome \in {"returned", "thrown"} : outcome = "thrown"
        OBVIOUS
    <2>4. QED  BY <1>1, <2>2, <2>3, FittingFraming
<1>4. CASE pc' = "running" /\ value' = Nothing /\ UNCHANGED stack
    <2>1. PICK a, m, s, n : a = app /\ m = req.method /\ s = stack /\ n = Nothing
        OBVIOUS
    <2>2. n.kind = "nothing"
        BY <2>1 DEF Nothing
    <2>3. Wrapped(a, n) /\ Framed(a, m, n)
        BY <2>2 DEF Wrapped, Framed
    <2>4. InStep(a, m, s, pc, value)
        BY <2>1 DEF FramingInv
    <2>5. InStep(a, m, s, "running", n)
        BY <2>3, <2>4 DEF InStep
    <2>6. QED  BY <1>1, <1>4, <2>1, <2>5 DEF FramingInv
<1>5. QED  BY <1>3, <1>4 DEF NextThrows

\* What dispatch() gives back.
LEMMA DispatchFraming ==
    ASSUME IInv, ReqInv, FilesInv, FramingInv,
           ServeFile \/ SearchThrows \/ NotFound \/ HandlerReturns \/ HandlerThrows
    PROVE  FramingInv'
<1>1. AppInv /\ WellStacked(stack) /\ stack # <<>> /\ IsDispatch(Top) /\ IsValue(value)
      /\ UNCHANGED app
    BY DEF IInv, ControlInv, ServeFile, SearchThrows, NotFound, HandlerReturns, HandlerThrows,
           NoRoute, AtDispatch
<1>2. PICK i \in Nat, n \in Nat :
         i = Inside /\ i = Depth(app) /\ n = Len(stack) /\ n = i /\ Top = stack[i]
    BY <1>1, TopIs DEF Inside, Depth
<1>3. PICK a, m, w, f : a = app /\ m = req.method /\ w = value /\ f = Top.fallback
    OBVIOUS
<1>4. req'.method = m
    <2>1. CASE NoRoute
        <3>1. PICK params : req' = [req EXCEPT !.params = params]
            BY <2>1 DEF NoRoute
        <3>2. QED  BY <1>3, <3>1, NewParams
    <2>2. CASE ~NoRoute
        BY <1>3, <2>2 DEF ServeFile, SearchThrows, NotFound, HandlerReturns, HandlerThrows
    <2>3. QED  BY <2>1, <2>2
<1>5. ASSUME NEW v, NEW outcome \in {"returned", "thrown"}, Leave(v, outcome),
             outcome = "returned" => Framed(a, m, v)
      PROVE  FramingInv'
    <2>1. ~(Len(stack) > Inside + 1) /\ Len(stack) # Inside + 1
        BY <1>2
    <2>2. QED  BY <1>1, <1>3, <1>4, <1>5, <2>1, LeaveFraming
<1>6. pc \in {"returned", "thrown"} => HandedUp(a, m, w, f)
    BY <1>2, <1>3 DEF FramingInv, InStep
<1>7. PICK v : (Leave(v, "returned") /\ Framed(a, m, v)) \/ Leave(v, "thrown")
    <2>1. CASE ServeFile
        <3>1. PICK by, status, sent, text, r, file, v :
                 /\ status = probe.answer.status
                 /\ sent = IF m = "HEAD" THEN 0 ELSE probe.answer.size
                 /\ text = Text(status, sent) /\ r = Response(by, text)
                 /\ v = [r EXCEPT !.file = file] /\ Leave(v, "returned")
            BY <1>3, <2>1 DEF ServeFile, NoneOf
        <3>2. IsAnswer(probe.answer)
            BY DEF FilesInv, IsProbe
        <3>3. m = "HEAD" \/ status \in {204, 304} => sent = 0
            BY <3>1, <3>2 DEF IsAnswer
        <3>4. Fine(m, text)
            BY <3>1, <3>3, TextFine
        <3>5. IsValue(r) /\ r.res = text
            BY <3>1, TextIsResponse, ResponseIsValue
        <3>6. v.res = text
            BY <3>1, <3>5 DEF IsValue
        <3>7. QED  BY <3>1, <3>4, <3>6 DEF Framed
    <2>2. CASE SearchThrows
        BY <2>2 DEF SearchThrows
    <2>3. CASE NotFound
        <3>1. PICK by, status, size, text, v :
                 /\ by = <<"notFound", 0>> /\ status = 404 /\ size = 1 /\ text = Text(status, size)
                 /\ v = Response(by, text) /\ Leave(v, "returned")
            BY <2>3 DEF NotFound
        <3>2. v.by = by /\ v.res = text /\ by[1] = "notFound"
            BY <3>1, ResponseIsValue
        <3>3. m # "HEAD" => Fine(m, text)
            BY <3>1, TextFine
        <3>4. Framed(a, m, v)
            BY <3>2, <3>3 DEF Framed, ServerMade
        <3>5. QED  BY <3>1, <3>4
    <2>4. CASE HandlerReturns
        <3>1. PICK v : /\ Leave(v, "returned")
                       /\ v = IF f THEN [value EXCEPT !.res.body = NoneOf(@)] ELSE value
            BY <1>3, <2>4 DEF HandlerReturns
        <3>2. /\ v.by = w.by /\ v.kind = w.kind
              /\ IF f THEN v.res.body = 0 ELSE v = w
            BY <1>1, <1>3, <3>1 DEF IsValue, IsResponse, NoneOf
        <3>3. HandedUp(a, m, w, f)
            BY <1>6, <2>4 DEF HandlerReturns
        <3>4. ASSUME v.kind = "response", ServerMade(a, m, v.by) PROVE Fine(m, v.res)
            <4>1. PICK by, c : by = w.by /\ c = by[2]
                OBVIOUS
            <4>2. by[1] = "handler" /\ Bare(a, c) /\ (m = "HEAD" => a.routes[c].method = "GET")
                BY <3>2, <3>3, <3>4, <4>1 DEF HandedUp, OfRoute, ServerMade
            <4>3. StandsIn(a, m, c, f) /\ (m # "HEAD" => Fine(m, w.res))
                BY <3>2, <3>3, <3>4, <4>1, <4>2 DEF HandedUp
            <4>4. CASE m = "HEAD"
                <5>1. v.res.body = 0
                    BY <3>2, <4>2, <4>3, <4>4 DEF StandsIn
                <5>2. QED  BY <4>4, <5>1 DEF Fine
            <4>5. CASE m # "HEAD"
                BY <3>2, <4>3, <4>5 DEF StandsIn
            <4>6. QED  BY <4>4, <4>5
        <3>5. QED  BY <3>1, <3>4 DEF Framed
    <2>5. CASE HandlerThrows
        <3>1. CASE ~Caught(Top)
            BY <2>5, <3>1 DEF HandlerThrows
        <3>2. CASE Caught(Top)
            <4>1. PICK c, by, status, size, text, v :
                     /\ c = w.by[2] /\ by = <<"error", c>> /\ status = 500
                     /\ size = IF f THEN 0 ELSE 1
                     /\ text = Text(status, size) /\ v = Response(by, text) /\ Leave(v, "returned")
                BY <1>3, <2>5, <3>2 DEF HandlerThrows
            <4>2. v.by = by /\ v.res = text /\ by[1] = "error" /\ by[2] = c
                BY <4>1, ResponseIsValue
            <4>3. HandedUp(a, m, w, f) /\ w.kind = "std"
                BY <1>3, <1>6, <2>5, <3>2 DEF HandlerThrows, Caught
            <4>4. ASSUME ServerMade(a, m, by) PROVE Fine(m, text)
                <5>1. Bare(a, c) /\ (m = "HEAD" => a.routes[c].method = "GET")
                    BY <4>2, <4>4 DEF ServerMade
                <5>2. StandsIn(a, m, c, f)
                    BY <4>1, <4>3, <5>1 DEF HandedUp
                <5>3. m = "HEAD" => size = 0
                    BY <4>1, <5>1, <5>2 DEF StandsIn
                <5>4. QED  BY <4>1, <5>3, TextFine
            <4>5. Framed(a, m, v)
                BY <4>2, <4>4 DEF Framed
            <4>6. QED  BY <4>1, <4>5
        <3>3. QED  BY <3>1, <3>2
    <2>6. QED  BY <2>1, <2>2, <2>3, <2>4, <2>5
<1>8. PICK outcome \in {"returned", "thrown"} :
         Leave(v, outcome) /\ (outcome = "returned" => Framed(a, m, v))
    BY <1>7
<1>9. QED  BY <1>5, <1>8

\* Every step keeps it.
LEMMA FramingStep == IInv /\ RouterInv /\ FilesInv /\ FramingInv /\ [Next]_vars => FramingInv'
<1> SUFFICES ASSUME IInv, RouterInv, FilesInv, FramingInv, [Next]_vars PROVE FramingInv'
    OBVIOUS
<1>1. AppInv /\ WellStacked(stack) /\ ControlInv /\ ReqInv
    BY DEF IInv, RouterInv
<1>2. CASE \/ OpenStream \/ StreamEnds \/ Enter \/ NextReturns
           \/ TryFiles \/ SearchFile \/ EditFile \/ Revalidate \/ Terminated \/ UNCHANGED vars
    <2>1. req'.method = req.method
        <3>1. CASE TryFiles
            <4>1. PICK params : req' = [req EXCEPT !.params = params]
                BY <3>1 DEF TryFiles, NoRoute
            <4>2. QED  BY <1>1, <4>1, NewParams
        <3>2. CASE Revalidate
            BY <1>1, <3>2, AskedAgain
        <3>3. CASE ~TryFiles /\ ~Revalidate
            BY <1>2, <3>3 DEF OpenStream, StreamEnds, Enter, NextReturns, SearchFile, EditFile,
                              Terminated, vars
        <3>4. QED  BY <3>1, <3>2, <3>3
    <2>2. QED  BY <1>1, <1>2, <2>1, QuietFraming
<1>3. CASE Handle \/ CallNext \/ HandOn \/ CallRoute \/ CallGetRoute
    BY <1>1, <1>3, CallsFraming
<1>4. CASE Answer \/ Throw \/ AnswerPreflight \/ HandBack
    BY <1>4, ReturnFraming
<1>5. CASE NextThrows
    BY <1>5, ThrownFraming
<1>6. CASE ServeFile \/ SearchThrows \/ NotFound \/ HandlerReturns \/ HandlerThrows
    BY <1>1, <1>6, DispatchFraming
<1>7. QED  BY <1>2, <1>3, <1>4, <1>5, <1>6 DEF Next

\* It holds at first.
LEMMA FramingInit == Init => FramingInv
<1> SUFFICES ASSUME Init PROVE FramingInv
    OBVIOUS
<1>1. AppInv /\ stack = <<>> /\ pc = "lookup" /\ value = Nothing
    BY DEF Init, AppInv
<1>2. Depth(app) \in Nat /\ Depth(app) >= 1 /\ Len(stack) = 0
    BY <1>1, AppTyped DEF Depth
<1>3. QED  BY <1>1, <1>2 DEF FramingInv, InStep

\* The invariant, next to those of the chain, of the lookup and of the files.
LEMMA FramingInvariance == Spec => []FramingInv
<1>1. QED  BY FramingInit, FramingStep, Invariance, RouterInvariance, FilesInvariance, PTL DEF Spec

\* What the server answers a client, or hands to its own middleware, tells the client
\* truly where its body ends, whatever the middleware made of the request on the
\* way, and also for HEAD.
THEOREM ClientInStepAlways == Spec => []ClientInStep
<1>1. IInv /\ FramingInv => ClientInStep
    <2> SUFFICES ASSUME IInv, FramingInv, pc \in {"running", "returned", "done"},
                        value.kind = "response",
                        pc = "returned" => Top.chain = 0 /\ IsLayer(Top), OfServer(value.by)
                 PROVE  Taken(req.method, SerializeInto(value.res)) = value.res.body
        BY DEF ClientInStep
    <2>1. AppInv /\ WellStacked(stack) /\ ControlInv /\ IsValue(value)
        BY DEF IInv
    <2>2. PICK a, m, s, v, by : a = app /\ m = req.method /\ s = stack /\ v = value /\ by = value.by
        OBVIOUS
    <2>3. ServerMade(a, m, by)
        BY <2>2 DEF OfServer, ServerMade, Bare
    <2>4. InStep(a, m, s, pc, v)
        BY <2>2 DEF FramingInv
    <2>5. Len(s) < Depth(a)
        <3>1. CASE pc = "done"
            <4>1. stack = <<>>
                BY <2>1, <3>1 DEF ControlInv
            <4>2. QED  BY <2>1, <2>2, <4>1, AppTyped DEF Depth
        <3>2. CASE pc # "done"
            <4>1. stack # <<>> /\ ~IsDispatch(Top)
                BY <2>1, <3>2 DEF ControlInv, IsLayer, IsDispatch
            <4>2. PICK i \in Nat, n \in Nat : i = Inside /\ i = Depth(a) /\ n = Len(s) /\ n # i
                BY <2>1, <2>2, <4>1, TopIs DEF Inside, Depth
            <4>3. ~(n > i)
                <5>1. CASE pc = "returned"
                    BY <2>1, <2>2, <4>1, <4>2, <5>1, TopIs
                <5>2. CASE pc = "running"
                    <6>1. n > i => OfRoute(v) /\ ~Bare(a, v.by[2])
                        BY <2>2, <2>4, <4>2 DEF InStep, Wrapped
                    <6>2. QED  BY <2>2, <2>3, <6>1 DEF OfRoute, ServerMade
                <5>3. QED  BY <3>2, <5>1, <5>2
            <4>4. QED  BY <4>2, <4>3
        <3>3. QED  BY <3>1, <3>2
    <2>6. Fine(m, v.res)
        BY <2>2, <2>3, <2>4, <2>5 DEF InStep, Framed
    <2>7. IsResponse(v.res)
        BY <2>1, <2>2 DEF IsValue
    <2>8. QED  BY <2>2, <2>6, <2>7, TakenIsBody
<1>2. QED  BY <1>1, Invariance, FramingInvariance, PTL

-----------------------------------------------------------------------------
(* How many parameters there can be.                                         *)

\* A path has no more parts than there are slots for them.
LEMMA SplitFits ==
    ASSUME NEW S, NEW path, path \in Seq(S)
    PROVE  Len(Split(path)) \in Nat /\ Len(Split(path)) <= MaxSegments
<1>1. PICK parts : parts = NonEmpty(path)
    OBVIOUS
<1>2. parts \in Seq(S)
    <2>1. PICK K : K = {k \in DOMAIN path : path[k] # Empty}
        OBVIOUS
    <2>2. PICK u : u \in [0 .. Len(path) -> Seq(S)] /\ Those(path, K) = u[Len(path)]
        BY ThoseRecursion
    <2>3. Len(path) \in 0 .. Len(path)
        OBVIOUS
    <2>4. QED  BY <1>1, <2>1, <2>2, <2>3 DEF NonEmpty
<1>3. PICK n \in Nat, m \in Nat : n = Len(parts) /\ m = MaxSegments
    BY <1>2, SegmentsAssumption
<1>4. PICK l \in Nat : l = IF n < m THEN n ELSE m
    OBVIOUS
<1>5. l <= n /\ l <= m /\ Split(path) = SubSeq(parts, 1, l)
    BY <1>1, <1>3, <1>4 DEF Split
<1>6. Len(SubSeq(parts, 1, l)) = l
    BY <1>2, <1>3, <1>5
<1>7. QED  BY <1>3, <1>5, <1>6

\* match_route leaves no more parameters than the path has parts.
LEMMA MatchFits ==
    ASSUME NEW n \in Nat, NEW pattern, n = Len(pattern), NEW S, NEW path, path \in Seq(S)
    PROVE  Len(MatchRoute(pattern, path, <<>>).params) <= MaxSegments
<1>0. PICK parts : parts = Split(path)
    OBVIOUS
<1>1. PICK m \in Nat : m = Len(parts) /\ m <= MaxSegments
    BY <1>0, SplitFits
<1>2. PICK none : none = <<>> /\ Len(none) = 0
    OBVIOUS
<1>3. CASE m # n
    <2>1. MatchRoute(pattern, path, none) = [fits |-> FALSE, params |-> none]
        BY <1>0, <1>1, <1>3 DEF MatchRoute
    <2>2. QED  BY <1>2, <2>1, SegmentsAssumption
<1>4. CASE m = n
    <2>1. PICK P : P = {Param(pattern[k], parts[k]) : k \in 1 .. n}
        OBVIOUS
    <2>2. Walkable(pattern, path, parts, n, P)
        BY <1>0, <1>1, <1>4, <2>1 DEF Walkable
    <2>3. PICK w : Walked(pattern, path, parts, n, P, w)
        BY <2>2, WalkRecursion
    <2> DEFINE Ok == {k \in Nat : k <= n => Len(w[k].params) <= k}
    <2>4. 0 \in Ok
        BY <1>2, <2>3 DEF Walked
    <2>5. ASSUME NEW k \in Nat, k \in Ok PROVE k + 1 \in Ok
        <3> SUFFICES ASSUME k + 1 <= n PROVE Len(w[k + 1].params) <= k + 1
            OBVIOUS
        <3>1. k \in 0 .. n /\ k + 1 \in 0 .. n /\ k + 1 \in 1 .. n /\ (k + 1) - 1 = k
            OBVIOUS
        <3>2. PICK b \in [fits : BOOLEAN, params : Seq(P)] : b = w[k]
            BY <2>3, <3>1 DEF Walked
        <3>3. PICK q \in Seq(P) : q = b.params
            OBVIOUS
        <3>4. Len(q) <= k /\ Len(q) \in Nat
            BY <2>5, <3>2, <3>3
        <3>5. PICK e : e = Param(pattern[k + 1], parts[k + 1]) /\ e \in P
            BY <2>1, <3>1
        <3>6. w[k + 1] = WalkOn(b, pattern, parts, k + 1)
            BY <2>3, <3>1, <3>2 DEF Walked
        <3>12. PICK a : a = Append(q, e)
            OBVIOUS
        <3>7. \/ w[k + 1] = b
              \/ w[k + 1] = [fits |-> FALSE, params |-> SubSeq(q, 1, 0)]
              \/ w[k + 1] = [b EXCEPT !.params = a]
            BY <1>2, <3>3, <3>5, <3>6, <3>12 DEF WalkOn
        <3>8. CASE w[k + 1] = b
            BY <3>3, <3>4, <3>8
        <3>9. CASE w[k + 1] = [fits |-> FALSE, params |-> SubSeq(q, 1, 0)]
            <4>1. Len(SubSeq(q, 1, 0)) = 0
                OBVIOUS
            <4>2. QED  BY <3>9, <4>1
        <3>10. CASE w[k + 1] = [b EXCEPT !.params = a]
            <4>2. Len(a) = Len(q) + 1
                BY <3>5, <3>12
            <4>3. w[k + 1].params = a
                <5>1. b = [fits |-> b.fits, params |-> b.params]
                    BY <3>2
                <5>2. [b EXCEPT !.params = a] = [fits |-> b.fits, params |-> a]
                    BY <5>1
                <5>3. PICK c : c = [fits |-> b.fits, params |-> a]
                    OBVIOUS
                <5>4. c.params = a
                    BY <5>3
                <5>5. QED  BY <3>10, <5>2, <5>3, <5>4, Zenon
            <4>4. QED  BY <3>4, <4>2, <4>3
        <3>11. QED  BY <3>7, <3>8, <3>9, <3>10
    <2>6. \A k \in Nat : k \in Ok
        <3> HIDE DEF Ok
        <3>1. QED  BY <2>4, <2>5, InductionOnSet
    <2>7. Len(w[n].params) <= n /\ w[n] \in [fits : BOOLEAN, params : Seq(P)]
        BY <2>3, <2>6 DEF Walked
    <2>8. PICK q \in Seq(P) : q = w[n].params
        BY <2>7
    <2>9. Len(q) \in Nat /\ Len(q) <= n
        BY <2>7, <2>8
    <2>10. Len(q) <= MaxSegments
        BY <1>1, <1>4, <2>9, SegmentsAssumption
    <2>11. QED  BY <2>3, <2>8, <2>10 DEF Walked
<1>5. QED  BY <1>3, <1>4

\* resolve() leaves no more.
LEMMA ResolveFits ==
    ASSUME AppInv, NEW method, NEW S, NEW path, path \in Seq(S),
           NEW params, Len(params) <= MaxSegments
    PROVE  Len(Resolve(method, path, params).params) <= MaxSegments
<1>1. PICK N \in Nat : N = Len(app.routes)
    BY AppTyped
<1>2. PICK h : /\ h[0] = [route |-> 0, params |-> params]
               /\ \A k \in 1 .. N : h[k] = TryRoute(h[k - 1], k, method, path)
               /\ Resolve(method, path, params) = h[N]
    BY <1>1, ResolveRecursion
<1> DEFINE Ok == {k \in Nat : k <= N => Len(h[k].params) <= MaxSegments}
<1>3. 0 \in Ok
    BY <1>2
<1>4. ASSUME NEW k \in Nat, k \in Ok PROVE k + 1 \in Ok
    <2> SUFFICES ASSUME k + 1 <= N PROVE Len(h[k + 1].params) <= MaxSegments
        OBVIOUS
    <2>1. PICK e \in Nat : e = k + 1 /\ e \in 1 .. N /\ e - 1 = k
        OBVIOUS
    <2>2. PICK b : b = h[k] /\ Len(b.params) <= MaxSegments
        BY <1>4
    <2>3. h[e] = TryRoute(b, e, method, path)
        BY <1>2, <2>1, <2>2
    <2>4. PICK pattern : pattern = app.routes[e].pattern
        OBVIOUS
    <2>10. PICK n \in Nat : n = Len(pattern)
        <3>1. PICK n \in Nat : app.routes[e].pattern = [i \in 1 .. n |-> Compiled(Written(e)[i])]
            <4>1. e \in 1 .. Len(app.routes)
                BY <1>1, <2>1
            <4>2. QED  BY <4>1, PatternIs
        <3>2. Len(pattern) = n
            BY <2>4, <3>1
        <3>3. QED  BY <3>2
    <2>5. PICK m : m = MatchRoute(pattern, path, <<>>)
        OBVIOUS
    <2>6. Len(m.params) <= MaxSegments
        BY <2>5, <2>10, MatchFits
    <2>7. h[e] = b \/ h[e] = [route |-> IF m.fits THEN e ELSE 0, params |-> m.params]
        BY <2>3, <2>4, <2>5 DEF TryRoute, Cleared
    <2>8. h[e].params = b.params \/ h[e].params = m.params
        BY <2>7
    <2>9. QED  BY <2>1, <2>2, <2>6, <2>8
<1>5. \A k \in Nat : k \in Ok
    <2> HIDE DEF Ok
    <2>1. QED  BY <1>3, <1>4, InductionOnSet
<1>6. QED  BY <1>1, <1>2, <1>5

-----------------------------------------------------------------------------
(* The invariant, next to the others.                                        *)

\* What is asked for, as a middleware may have rewritten it.
Asks(r) ==
    /\ \E q \in Requests : r.method = q.method /\ r.path = q.path
    /\ Len(r.params) <= MaxSegments

Places == {"lookup", "enter", "files", "running", "returned", "thrown", "streaming",
           "done", "failed", "crashed"}
Counted(s) == \A k \in 1 .. Len(s) : s[k].calls \in 0 .. MaxCalls
Authored(by) == by[1] \in Authors
Valued(v) == v.kind \in {"nothing", "response", "std", "foreign"} /\ Authored(v.by)

TypedInv == Asks(req) /\ pc \in Places /\ Counted(stack) /\ Valued(value)

\* The request keeps its type.
LEMMA AsksKept ==
    ASSUME AppInv, ReqInv, Asks(req), [Next]_vars
    PROVE  Asks(req)'
<1>1. PICK q, r : q \in Requests /\ r = req /\ req.method = q.method /\ req.path = q.path
    BY DEF Asks
<1>2. Len(r.params) <= MaxSegments
    BY <1>1 DEF Asks
<1>3. PICK S : r.path \in Seq(S)
    BY <1>1, RequestsAssumption DEF IsPath
<1>4. ASSUME NEW params, req' = [req EXCEPT !.params = params], Len(params) <= MaxSegments
      PROVE  Asks(req)'
    <2>1. req'.path = req.path /\ req'.method = req.method /\ req'.params = params
        BY <1>4, NewParams
    <2>2. QED  BY <1>1, <1>4, <2>1 DEF Asks
<1>5. \A method, params : Len(params) <= MaxSegments =>
                              Len(Resolve(method, r.path, params).params) <= MaxSegments
    BY <1>3, ResolveFits
<1>6. Len(Direct.params) <= MaxSegments
    <2>1. PICK method, params : method = req.method /\ params = req.params
        OBVIOUS
    <2>2. Len(Resolve(method, r.path, params).params) <= MaxSegments
        BY <1>1, <1>2, <1>5, <2>1
    <2>3. QED  BY <1>1, <2>1, <2>2 DEF Direct
<1>7. Len(AsGet.params) <= MaxSegments
    BY <1>1, <1>5, <1>6 DEF AsGet
<1>8. CASE CallRoute \/ CallGetRoute \/ NoRoute
    <2>1. PICK params : req' = [req EXCEPT !.params = params] /\ Len(params) <= MaxSegments
        <3>1. CASE CallRoute
            BY <1>6, <3>1 DEF CallRoute
        <3>2. CASE CallGetRoute
            BY <1>7, <3>2 DEF CallGetRoute
        <3>3. CASE NoRoute
            <4>1. PICK params : /\ params = IF req.method = "HEAD" THEN AsGet.params ELSE req.params
                                /\ req' = [req EXCEPT !.params = params]
                BY <3>3 DEF NoRoute
            <4>2. QED  BY <1>1, <1>2, <1>7, <4>1
        <3>4. QED  BY <1>8, <3>1, <3>2, <3>3
    <2>2. QED  BY <1>4, <2>1
<1>9. CASE CallNext
    <2>1. PICK method, path :
             /\ req' = [req EXCEPT !.method = method, !.path = path]
             /\ \E o \in Requests : method = o.method /\ path = o.path
        <3>1. PICK o \in Requests \cup {[method |-> req.method, path |-> req.path, ws |-> req.ws]} :
                 req' = [req EXCEPT !.method = o.method, !.path = o.path]
            BY <1>9 DEF CallNext
        <3>2. PICK method, path : method = o.method /\ path = o.path
            OBVIOUS
        <3>3. \E x \in Requests : method = x.method /\ path = x.path
            <4>1. CASE o \in Requests
                BY <3>2, <4>1
            <4>2. CASE o = [method |-> req.method, path |-> req.path, ws |-> req.ws]
                BY <1>1, <3>2, <4>2
            <4>3. QED  BY <4>1, <4>2
        <3>4. QED  BY <3>1, <3>2, <3>3
    <2>2. PICK s : s = [req EXCEPT !.method = method]
        OBVIOUS
    <2>3. s = [method |-> method, path |-> req.path, ws |-> req.ws, params |-> req.params,
               etag |-> req.etag, date |-> req.date]
        BY <2>2 DEF ReqInv
    <2>4. req' = [s EXCEPT !.path = path]
        BY <2>1, <2>2
    <2>5. req' = [method |-> method, path |-> path, ws |-> s.ws, params |-> s.params,
                  etag |-> s.etag, date |-> s.date]
        BY <2>3, <2>4
    <2>6. req'.method = method /\ req'.path = path /\ req'.params = r.params
        BY <1>1, <2>3, <2>5
    <2>7. QED  BY <1>2, <2>1, <2>6 DEF Asks
<1>10. CASE Revalidate
    <2>1. PICK etag \in {<<>>, value.file.etag}, date \in {<<>>, value.file.date} :
             req' = [req EXCEPT !.params = <<>>, !.etag = etag, !.date = date]
        BY <1>10, Zenon DEF Revalidate
    <2>2. PICK none : none = <<>> /\ Len(none) = 0
        OBVIOUS
    <2>3. req'.params = none
        <3>1. req' = [req EXCEPT !.params = none, !.etag = etag, !.date = date]
            BY <2>1, <2>2
        <3>2. PICK a : a = [req EXCEPT !.params = none]
            OBVIOUS
        <3>3. a = [method |-> req.method, path |-> req.path, ws |-> req.ws, params |-> none,
                   etag |-> req.etag, date |-> req.date]
            BY <3>2 DEF ReqInv
        <3>4. PICK b : b = [a EXCEPT !.etag = etag]
            OBVIOUS
        <3>5. b = [method |-> req.method, path |-> req.path, ws |-> req.ws, params |-> none,
                   etag |-> etag, date |-> req.date]
            BY <3>3, <3>4
        <3>6. req' = [b EXCEPT !.date = date]
            BY <3>1, <3>2, <3>4
        <3>7. QED  BY <3>5, <3>6
    <2>4. req'.path = req.path /\ req'.method = req.method
        BY <1>10, AskedAgain
    <2>5. QED  BY <1>1, <2>2, <2>3, <2>4, SegmentsAssumption DEF Asks
<1>11. CASE UNCHANGED req
    BY <1>11 DEF Asks
<1>12. CallRoute \/ CallGetRoute \/ NoRoute \/ CallNext \/ Revalidate \/ UNCHANGED req
    BY DEF Next, vars, OpenStream, Handle, StreamEnds, Enter, HandOn, Answer, Throw, AnswerPreflight,
           HandBack, NextReturns, NextThrows, HandlerReturns, HandlerThrows, TryFiles, SearchFile,
           ServeFile, SearchThrows, NotFound, EditFile, Terminated
<1>13. QED  BY <1>8, <1>9, <1>10, <1>11, <1>12

\* So does what is given back: it was given back before, or has an author.
LEMMA ValuedKept ==
    ASSUME IsValue(value), Valued(value), [Next]_vars
    PROVE  Valued(value)'
<1>1. PICK old : old = value
    OBVIOUS
<1>2. /\ \A f : Authored(Author(f))
      /\ \A i : Authored(<<"file", i>>) /\ Authored(<<"notFound", i>>) /\ Authored(<<"error", i>>)
    BY DEF Author, Authored, Authors
<1>3. Valued(Nothing)
    BY DEF Nothing, Valued, Authored, Authors
<1>4. ASSUME NEW by, NEW res, Authored(by) PROVE Valued(Response(by, res))
    BY <1>4, ResponseIsValue DEF Valued
<1>5. ASSUME NEW by, NEW kind \in {"std", "foreign"}, Authored(by) PROVE Valued(Exception(kind, by))
    BY <1>5, ExceptionIsValue DEF Valued
<1>6. ASSUME NEW v, IsValue(v), Valued(v) PROVE Valued(Stamped(v))
    <2>1. Stamped(v).by = v.by
        BY <1>6, StampedIsValue
    <2>2. Stamped(v).kind = v.kind
        <3>1. PICK res : res = SetHeader(v.res, "Access-Control-Allow-Origin", "*")
            OBVIOUS
        <3>2. Stamped(v) = [v EXCEPT !.res = res]
            BY <3>1 DEF Stamped
        <3>3. QED  BY <1>6, <3>2 DEF IsValue
    <2>3. QED  BY <1>6, <2>1, <2>2 DEF Valued
<1>7. ASSUME NEW v, value' = v, Valued(v) PROVE Valued(value)'
    BY <1>7 DEF Valued, Authored
<1>8. \E v : value' = v /\ Valued(v)
    <2>1. CASE value' = value
        BY <2>1
    <2>2. CASE value' = Nothing
        BY <1>3, <2>2
    <2>3. CASE \/ OpenStream \/ StreamEnds \/ Enter \/ NextReturns \/ TryFiles \/ SearchFile
               \/ EditFile \/ Revalidate \/ Terminated \/ UNCHANGED vars
               \/ Handle \/ CallNext \/ HandOn \/ CallRoute \/ CallGetRoute
        <3>1. value' = value \/ value' = Nothing
            BY <2>3 DEF OpenStream, StreamEnds, Enter, NextReturns, TryFiles, NoRoute, SearchFile,
                        EditFile, Revalidate, Terminated, vars, Handle, CallNext, HandOn, EnterNext,
                        CallRoute, CallGetRoute, Call
        <3>2. QED  BY <2>1, <2>2, <3>1
    <2>4. CASE Answer
        <3>1. CASE Leave(value, "returned")
            BY <2>1, <3>1 DEF Leave
        <3>2. CASE \E res \in Made(Top) : Leave(Response(Author(Top), res), "returned")
            <4>1. PICK res, by, v : by = Author(Top) /\ v = Response(by, res) /\ value' = v
                BY <3>2 DEF Leave
            <4>2. QED  BY <1>2, <1>4, <4>1
        <3>3. QED  BY <2>4, <3>1, <3>2 DEF Answer
    <2>5. CASE Throw
        <3>1. PICK kind, by, v :
                 kind \in {"std", "foreign"} /\ by = Author(Top) /\ v = Exception(kind, by) /\ value' = v
            BY <2>5 DEF Throw, Leave
        <3>2. QED  BY <1>2, <1>5, <3>1
    <2>6. CASE AnswerPreflight
        <3>1. PICK by, text, w, v :
                 /\ by = Author(Top) /\ text = Text(204, 0) /\ w = Response(by, text)
                 /\ v = Stamped(w) /\ value' = v
            BY <2>6 DEF AnswerPreflight, Leave
        <3>2. IsValue(w) /\ Valued(w)
            BY <1>2, <1>4, <3>1, TextIsResponse, ResponseIsValue
        <3>3. QED  BY <1>6, <3>1, <3>2
    <2>7. CASE HandBack \/ NextThrows
        <3>1. value' = value \/ value' = Nothing \/ value' = Stamped(old)
            BY <1>1, <2>7 DEF HandBack, NextThrows, Leave
        <3>2. Valued(Stamped(old))
            BY <1>1, <1>6
        <3>3. QED  BY <2>1, <2>2, <3>1, <3>2
    <2>8. CASE ServeFile
        <3>1. PICK by, text, file, r, v :
                 /\ by = <<"file", 0>> /\ r = Response(by, text)
                 /\ v = [r EXCEPT !.file = file] /\ value' = v
            BY <2>8 DEF ServeFile, Leave
        <3>2. r.kind = "response" /\ r.by = by
            BY <3>1, ResponseIsValue
        <3>3. v.kind = r.kind /\ v.by = r.by
            BY <3>1
        <3>4. Authored(by)
            BY <1>2, <3>1
        <3>5. Valued(v)
            BY <3>2, <3>3, <3>4 DEF Valued
        <3>6. QED  BY <3>1, <3>5
    <2>9. CASE SearchThrows
        <3>1. PICK kind, by, v :
                 kind \in {"std", "foreign"} /\ by = <<"file", 0>> /\ v = Exception(kind, by) /\ value' = v
            <4>1. PICK kind \in {"std", "foreign"} : kind = "std"
                OBVIOUS
            <4>2. QED  BY <2>9, <4>1 DEF SearchThrows, Leave
        <3>2. QED  BY <1>2, <1>5, <3>1
    <2>10. CASE NotFound
        <3>1. PICK by, text, v : by = <<"notFound", 0>> /\ v = Response(by, text) /\ value' = v
            BY <2>10 DEF NotFound, Leave
        <3>2. QED  BY <1>2, <1>4, <3>1
    <2>11. CASE HandlerReturns
        <3>1. PICK v : /\ value' = v
                       /\ v = value \/ v = [value EXCEPT !.res.body = NoneOf(@)]
            BY <2>11 DEF HandlerReturns, Leave
        <3>2. v.by = old.by /\ v.kind = old.kind
            BY <1>1, <3>1 DEF IsValue
        <3>3. QED  BY <1>1, <3>1, <3>2 DEF Valued
    <2>12. CASE HandlerThrows
        <3>1. CASE value' = value
            BY <2>1, <3>1
        <3>2. CASE value' # value
            <4>1. PICK i, by, text, v : by = <<"error", i>> /\ v = Response(by, text) /\ value' = v
                BY <2>12, <3>2 DEF HandlerThrows, Leave
            <4>2. QED  BY <1>2, <1>4, <4>1
        <3>3. QED  BY <3>1, <3>2
    <2>13. QED  BY <2>3, <2>4, <2>5, <2>6, <2>7, <2>8, <2>9, <2>10, <2>11, <2>12 DEF Next
<1>9. QED  BY <1>7, <1>8

\* No coroutine calls what is below it more often than it may.
LEMMA CountedKept ==
    ASSUME IInv, Counted(stack), [Next]_vars
    PROVE  Counted(stack)'
<1>1. AppInv /\ WellStacked(stack) /\ ControlInv
    BY DEF IInv
<1>2. PICK s : s = stack
    OBVIOUS
<1>3. \A c, p : Frame(c, p).calls \in 0 .. MaxCalls
    BY CallsAssumption DEF Frame
<1>4. ASSUME stack # <<>>, NEW frames, NEW self, NEW c, NEW p,
             Call(frames), PushedOn(frames, self, Frame(c, p)), self.calls \in 0 .. MaxCalls
      PROVE  Counted(stack)'
    <2>1. PICK n \in Nat : n = Len(stack) /\ n >= 1
        BY <1>1, <1>4, TopIs
    <2>2. /\ Len(frames) = n + 1 /\ frames[n] = self /\ frames[n + 1].calls \in 0 .. MaxCalls
          /\ \A k \in 1 .. n - 1 : frames[k] = s[k] /\ s[k].calls \in 0 .. MaxCalls
        BY <1>2, <1>3, <1>4, <2>1 DEF PushedOn, Counted
    <2>3. ASSUME NEW k \in 1 .. n + 1 PROVE frames[k].calls \in 0 .. MaxCalls
        <3>1. k \in 1 .. n - 1 \/ k = n \/ k = n + 1
            OBVIOUS
        <3>2. QED  BY <1>4, <2>2, <3>1
    <2>4. stack' = frames
        BY <1>4 DEF Call
    <2>5. QED  BY <2>2, <2>3, <2>4 DEF Counted
<1>5. stack # <<>> => Top.calls \in 0 .. MaxCalls
    BY <1>1, TopIs DEF Counted
<1>6. CASE UNCHANGED stack
    BY <1>6 DEF Counted
<1>7. CASE Handle
    <2>1. PICK frames : Call(frames) /\ Len(frames) = 1 /\ frames[1] = Frame(0, 1)
        BY <1>1, <1>7, FirstFrames
    <2>2. stack' = frames
        BY <2>1 DEF Call
    <2>3. ASSUME NEW k \in 1 .. 1 PROVE frames[k].calls \in 0 .. MaxCalls
        <3>1. k = 1
            OBVIOUS
        <3>2. QED  BY <1>3, <2>1, <3>1
    <2>4. QED  BY <2>1, <2>2, <2>3 DEF Counted
<1>8. CASE CallNext \/ HandOn
    <2>1. pc = "running" /\ IsLayer(Top) /\ EnterNext /\ stack # <<>>
        BY <1>1, <1>8 DEF CallNext, HandOn, IsUserCode, ControlInv
    <2>2. PICK frames, self, c, p :
             /\ Call(frames) /\ PushedOn(frames, self, Frame(c, p))
             /\ self.calls = Top.calls + 1
        BY <2>1, NextFrames
    <2>3. Top.calls < MaxCalls
        <3>1. CASE CallNext
            BY <3>1 DEF CallNext
        <3>2. CASE HandOn
            <4>1. Top.calls = 0
                BY <3>2 DEF HandOn
            <4>2. QED  BY <4>1, CallsAssumption
        <3>3. QED  BY <1>8, <3>1, <3>2
    <2>4. self.calls \in 0 .. MaxCalls
        BY <1>5, <2>1, <2>2, <2>3, CallsAssumption
    <2>5. QED  BY <1>4, <2>1, <2>2, <2>4
<1>9. CASE CallRoute \/ CallGetRoute
    <2>1. PICK frames, self, route :
             /\ Call(frames) /\ PushedOn(frames, self, Frame(route, 1))
             /\ self.calls = Top.calls
        BY <1>9, RouteFrames
    <2>2. stack # <<>>
        BY <1>1, <1>9 DEF CallRoute, CallGetRoute, AtDispatch, ControlInv
    <2>3. QED  BY <1>4, <1>5, <2>1, <2>2
<1>10. CASE stack # <<>> /\ stack' = Front(stack)
    <2>1. PICK n, t : n \in Nat /\ n = Len(stack) /\ n >= 1 /\ t = Front(stack)
        BY <1>1, <1>10, TopIs
    <2>2. Len(t) = n - 1 /\ \A k \in 1 .. n - 1 : t[k] = s[k]
        BY <1>1, <1>2, <1>10, <2>1, Popped
    <2>3. \A k \in 1 .. n - 1 : s[k].calls \in 0 .. MaxCalls
        BY <1>2, <2>1 DEF Counted
    <2>4. QED  BY <1>10, <2>1, <2>2, <2>3 DEF Counted
<1>11. CASE \/ Answer \/ Throw \/ AnswerPreflight \/ HandBack \/ NextThrows
            \/ HandlerReturns \/ HandlerThrows \/ ServeFile \/ SearchThrows \/ NotFound
    <2>1. stack # <<>>
        BY <1>1, <1>11 DEF ControlInv, Answer, Throw, AnswerPreflight, HandBack, NextThrows,
           HandlerReturns, HandlerThrows, ServeFile, SearchThrows, NotFound, NoRoute, AtDispatch
    <2>2. stack' = Front(stack) \/ UNCHANGED stack
        BY <1>11 DEF Answer, Throw, AnswerPreflight, HandBack, NextThrows,
           HandlerReturns, HandlerThrows, ServeFile, SearchThrows, NotFound, Leave
    <2>3. QED  BY <1>6, <1>10, <2>1, <2>2
<1>12. CASE \/ OpenStream \/ StreamEnds \/ Enter \/ NextReturns \/ TryFiles \/ SearchFile
            \/ EditFile \/ Revalidate \/ Terminated \/ UNCHANGED vars
    BY <1>6, <1>12 DEF OpenStream, StreamEnds, Enter, NextReturns, TryFiles, SearchFile,
                       EditFile, Revalidate, Terminated, vars
<1>13. QED  BY <1>7, <1>8, <1>9, <1>11, <1>12 DEF Next

\* Every step keeps it.
LEMMA TypedStep == IInv /\ RouterInv /\ TypedInv /\ [Next]_vars => TypedInv'
<1> SUFFICES ASSUME IInv, RouterInv, TypedInv, [Next]_vars PROVE TypedInv'
    OBVIOUS
<1>1. AppInv /\ ReqInv /\ IsValue(value)
    BY DEF IInv, RouterInv
<1>2. Asks(req)'
    BY <1>1, AsksKept DEF TypedInv
<1>3. Counted(stack)'
    BY CountedKept DEF TypedInv
<1>4. Valued(value)'
    BY <1>1, ValuedKept DEF TypedInv
<1>5. pc' \in Places
    <2>1. CASE \/ Answer \/ Throw \/ AnswerPreflight \/ HandBack \/ NextThrows
               \/ HandlerReturns \/ HandlerThrows \/ ServeFile \/ SearchThrows \/ NotFound
        BY <2>1 DEF Places, Answer, Throw, AnswerPreflight, HandBack, NextThrows,
           HandlerReturns, HandlerThrows, ServeFile, SearchThrows, NotFound, Leave
    <2>2. CASE Handle \/ CallNext \/ HandOn \/ CallRoute \/ CallGetRoute
        BY <2>2 DEF Places, Handle, CallNext, HandOn, EnterNext, CallRoute, CallGetRoute, Call
    <2>3. CASE \/ OpenStream \/ StreamEnds \/ Enter \/ NextReturns \/ TryFiles \/ SearchFile
               \/ EditFile \/ Revalidate \/ Terminated \/ UNCHANGED vars
        BY <2>3 DEF TypedInv, Places, OpenStream, StreamEnds, Enter, NextReturns, TryFiles, SearchFile,
                    EditFile, Revalidate, Terminated, vars
    <2>4. QED  BY <2>1, <2>2, <2>3 DEF Next
<1>6. QED  BY <1>2, <1>3, <1>4, <1>5 DEF TypedInv

\* It holds at first.
LEMMA TypedInit == Init => TypedInv
<1> SUFFICES ASSUME Init PROVE TypedInv
    OBVIOUS
<1>1. PICK r, none : /\ r \in Requests
                     /\ none = <<>> /\ Len(none) = 0
                     /\ req = [method |-> r.method, path |-> r.path, ws |-> r.ws,
                               params |-> none, etag |-> none, date |-> none]
    <2>1. PICK r \in Requests :
             req = [method |-> r.method, path |-> r.path, ws |-> r.ws,
                    params |-> <<>>, etag |-> <<>>, date |-> <<>>]
        BY DEF Init
    <2>2. PICK none : none = <<>> /\ Len(none) = 0
        OBVIOUS
    <2>3. req = [method |-> r.method, path |-> r.path, ws |-> r.ws,
                 params |-> none, etag |-> none, date |-> none]
        BY <2>1, <2>2
    <2>4. QED  BY <2>2, <2>3
<1>2. req.method = r.method /\ req.path = r.path /\ req.params = none
    BY <1>1
<1>3. Asks(req)
    BY <1>1, <1>2, SegmentsAssumption DEF Asks
<1>4. Counted(stack)
    <2>1. stack = <<>>
        BY DEF Init
    <2>2. Len(stack) = 0
        BY <2>1
    <2>3. QED  BY <2>2 DEF Counted
<1>5. Valued(value)
    <2>1. value = Nothing
        BY DEF Init
    <2>2. value.kind = "nothing" /\ value.by = <<"nobody", 0>>
        BY <2>1 DEF Nothing
    <2>3. QED  BY <2>2 DEF Valued, Authored, Authors
<1>6. QED  BY <1>3, <1>4, <1>5 DEF Init, TypedInv, Places

\* The invariant.
LEMMA TypedInvariance == Spec => []TypedInv
<1>1. QED  BY TypedInit, TypedStep, Invariance, RouterInvariance, PTL DEF Spec

\* Whatever is registered and asked for, every variable keeps its type, the slots
\* for parameters are enough, and what is on disk is of its place.
THEOREM DispatchTypes == Spec => []TypeOK
<1>1. IInv /\ FilesInv /\ TypedInv => TypeOK
    <2> SUFFICES ASSUME IInv, FilesInv, TypedInv PROVE TypeOK
        OBVIOUS
    <2>1. AppInv /\ WellStacked(stack) /\ ControlInv
        BY DEF IInv
    <2>2. app \in {Registered(a) : a \in Apps}
        BY <2>1 DEF AppInv
    <2>3. (\E r \in Requests : req.method = r.method /\ req.path = r.path) /\ Len(req.params) <= MaxSegments
        BY DEF TypedInv, Asks
    <2>4. ASSUME NEW k \in 1 .. Len(stack)
          PROVE  /\ stack[k].chain \in 0 .. Len(app.routes)
                 /\ stack[k].pos \in 1 .. Len(LayersOf(stack[k].chain)) + 1
                 /\ stack[k].calls \in 0 .. MaxCalls
        <3>1. stack[k].calls \in 0 .. MaxCalls
            BY DEF TypedInv, Counted
        <3>2. PICK i \in Nat, n \in Nat : i = Inside /\ n = Len(app.layers) /\ i = n + 1
            BY <2>1, AppTyped DEF Inside
        <3>3. k \in Nat /\ k >= 1
            BY <2>1 DEF WellStacked
        <3>4. PICK c, p : c = stack[k].chain /\ p = stack[k].pos
            OBVIOUS
        <3>5. Len(app.routes) \in Nat
            BY <2>1, AppTyped
        <3>6. CASE k <= i
            <4>1. c = 0 /\ p = k
                BY <2>1, <3>2, <3>4, <3>6 DEF WellStacked
            <4>2. LayersOf(c) = app.layers
                BY <4>1 DEF LayersOf
            <4>3. c \in 0 .. Len(app.routes) /\ p \in 1 .. Len(LayersOf(c)) + 1
                BY <3>2, <3>3, <3>5, <3>6, <4>1, <4>2
            <4>4. QED  BY <3>1, <3>4, <4>3
        <3>7. CASE k > i
            <4>1. c \in 1 .. Len(app.routes) /\ p = k - i /\ p <= Len(app.routes[c].layers) + 1
                <5>1. ~(k <= Inside)
                    BY <3>2, <3>3, <3>7
                <5>2. QED  BY <2>1, <3>2, <3>4, <5>1 DEF WellStacked
            <4>2. PICK m \in Nat : m = Len(app.routes[c].layers)
                BY <2>1, <4>1, AppTyped
            <4>3. c # 0 /\ c \in 0 .. Len(app.routes)
                BY <3>5, <4>1
            <4>4. LayersOf(c) = app.routes[c].layers
                BY <4>3 DEF LayersOf
            <4>5. p \in 1 .. m + 1
                <5>1. PICK j \in Nat : j = k
                    BY <3>3
                <5>2. j > i /\ p = j - i /\ p <= m + 1
                    BY <3>7, <4>1, <4>2, <5>1
                <5>3. QED  BY ONLY i \in Nat, m \in Nat, j \in Nat, <5>2
            <4>6. QED  BY <3>1, <3>4, <4>2, <4>3, <4>4, <4>5
        <3>8. QED  BY <3>2, <3>3, <3>6, <3>7
    <2>5. pc \in Places /\ value.kind \in {"nothing", "response", "std", "foreign"} /\ value.by[1] \in Authors
        BY DEF TypedInv, Valued, Authored
    <2>6. probe.step # "idle" <=> pc = "files"
        BY NothingSent DEF FilesInv, InUse
    <2>7. \A p \in DOMAIN disk : log[disk[p]].place = p
        BY DEF FilesInv, Kept, OfPlace
    <2>8. copy.status \in {0, 200} /\ value.file.status \in {0, 200, 304}
        BY NothingSent DEF FilesInv, Asked, IsAnswer
    <2>9. pc \in {"enter", "files", "running", "returned", "thrown"} <=> stack # <<>> /\ pc # "crashed"
        BY <2>1, <2>5 DEF ControlInv, Places
    <2>10. QED  BY <2>2, <2>3, <2>4, <2>5, <2>6, <2>7, <2>8, <2>9 DEF TypeOK, Places
<1>2. QED  BY <1>1, TypedInvariance, Invariance, FilesInvariance, PTL

-----------------------------------------------------------------------------
(* The name under a mount, and the path it is asked by.                      *)

\* A sequence of some elements is one of more of them.
LEMMA Wider ==
    ASSUME NEW S, NEW T, S \subseteq T, NEW s, s \in Seq(S)
    PROVE  s \in Seq(T)
OBVIOUS

\* What a path is a sequence of.
LEMMA PathIs ==
    ASSUME NEW s, IsPath(s)
    PROVE  s \in Seq(Range(s))
BY DEF IsPath

\* Sequences with the same elements are the same.
LEMMA SameElements ==
    ASSUME NEW S, NEW s \in Seq(S), NEW t \in Seq(S), NEW n \in Nat, Len(s) = n, Len(t) = n,
           \A k \in 1 .. n : s[k] = t[k]
    PROVE  s = t
OBVIOUS

\* Part t of a sequence s is what stands behind l and up to m.
IsCut(S, t, s, l, m) ==
    t \in Seq(S) /\ Len(t) = m - l /\ \A k \in 1 .. m - l : t[k] = s[l + k]

\* SubSeq takes it.
LEMMA CutIs ==
    ASSUME NEW S, NEW s \in Seq(S), NEW l \in Nat, NEW m \in Nat, l <= m, m <= Len(s),
           NEW t, t = SubSeq(s, l + 1, m)
    PROVE  IsCut(S, t, s, l, m)
<1>1. Len(t) = m - l /\ m - l \in Nat
    OBVIOUS
<1>2. ASSUME NEW k \in 1 .. m - l PROVE t[k] = s[l + k]
    OBVIOUS
<1>3. t \in Seq(S)
    OBVIOUS
<1>4. QED  BY <1>1, <1>2, <1>3 DEF IsCut

\* In u the elements of s, m of them, stand before those of t.
IsJoin(S, u, s, t, m, n) ==
    /\ u \in Seq(S) /\ Len(u) = m + n
    /\ \A k \in 1 .. m : u[k] = s[k]
    /\ \A k \in 1 .. n : u[m + k] = t[k]

\* \o joins them.
LEMMA JoinIs ==
    ASSUME NEW S, NEW s \in Seq(S), NEW t \in Seq(S), NEW m, NEW n, m = Len(s), n = Len(t),
           NEW u, u = s \o t
    PROVE  IsJoin(S, u, s, t, m, n)
<1>1. m \in Nat /\ n \in Nat
    OBVIOUS
<1>2. u \in Seq(S) /\ Len(u) = m + n
    OBVIOUS
<1>3. ASSUME NEW k \in 1 .. m PROVE u[k] = s[k]
    OBVIOUS
<1>4. ASSUME NEW k \in 1 .. n PROVE u[m + k] = t[k]
    <2>1. m + k \in 1 .. m + n /\ ~(m + k <= m) /\ (m + k) - m = k
        BY <1>1
    <2>2. QED  BY <2>1
<1>5. QED  BY <1>2, <1>3, <1>4 DEF IsJoin

\* In u the element e stands behind those of s, n of them.
IsAppend(u, s, e, n) == Len(u) = n + 1 /\ u[n + 1] = e /\ \A k \in 1 .. n : u[k] = s[k]

\* Append puts it there.
LEMMA AppendedIs ==
    ASSUME NEW S, NEW s \in Seq(S), NEW e \in S, NEW n, n = Len(s), NEW u, u = Append(s, e)
    PROVE  IsAppend(u, s, e, n)
<1>1. n \in Nat /\ Len(u) = n + 1 /\ u[n + 1] = e
    OBVIOUS
<1>2. ASSUME NEW k \in 1 .. n PROVE u[k] = s[k]
    OBVIOUS
<1>3. QED  BY <1>1, <1>2 DEF IsAppend

\* The same prefix leaves only one rest.
LEMMA SameRest ==
    ASSUME NEW S, NEW f \in Seq(S), NEW s \in Seq(S), NEW t \in Seq(S), f \o s = f \o t
    PROVE  s = t
<1>1. PICK l \in Nat, m \in Nat, n \in Nat : l = Len(f) /\ m = Len(s) /\ n = Len(t)
    OBVIOUS
<1>2. PICK u : u = f \o s /\ u = f \o t
    OBVIOUS
<1>3. /\ Len(u) = l + m /\ \A k \in 1 .. m : u[l + k] = s[k]
      /\ Len(u) = l + n /\ \A k \in 1 .. n : u[l + k] = t[k]
    <2>1. IsJoin(S, u, f, s, l, m) /\ IsJoin(S, u, f, t, l, n)
        BY <1>1, <1>2, JoinIs
    <2>2. QED  BY <2>1 DEF IsJoin
<1>4. m = n
    BY <1>3
<1>5. \A k \in 1 .. m : s[k] = t[k]
    BY <1>3, <1>4
<1>6. QED  BY <1>1, <1>4, <1>5, SameElements

\* mount() puts a slash at the end, and leaves the rest as it is.
LEMMA MountedIs ==
    ASSUME NEW w, IsMount(w)
    PROVE  \E f, m : /\ f = Unslashed(w.prefix) /\ m = Mounted(w)
                     /\ Front(m.prefix) = f /\ Len(m.prefix) = Len(f) + 1
                     /\ m.dir = w.dir /\ m.index = w.index /\ m.maxSize = w.maxSize
                     /\ \A S : w.prefix \in Seq(S) => f \in Seq(S)
<1>1. PICK p, m : p = w.prefix /\ m = Mounted(w)
    OBVIOUS
<1>2. PICK R : R = Range(p) /\ p \in Seq(R)
    BY <1>1, PathIs DEF IsMount
<1>3. p # <<>>
    BY <1>1 DEF IsMount
<1>4. PICK f, e : f = Front(p) /\ e = Last(p) /\ f \in Seq(R) /\ e \in R /\ p = Append(f, e)
    BY <1>2, <1>3, EndIs
<1>5. CASE e = Empty
    <2>1. m = w /\ Unslashed(p) = f
        BY <1>1, <1>4, <1>5 DEF Mounted, Unslashed
    <2>2. Len(p) = Len(f) + 1
        BY <1>4
    <2>3. \A S : p \in Seq(S) => f \in Seq(S)
        BY <1>3, <1>4, EndIs
    <2>4. QED  BY <1>1, <1>4, <2>1, <2>2, <2>3
<1>6. CASE e # Empty
    <2>1. PICK q : q = Append(p, Empty)
        OBVIOUS
    <2>9. PICK T : T = R \cup {Empty}
        OBVIOUS
    <2>10. R \subseteq T /\ Empty \in T
        BY <2>9
    <2>2. p \in Seq(T)
        BY <1>2, <2>10, Wider
    <2>3. Front(q) = p /\ Len(q) = Len(p) + 1
        BY <2>1, <2>2, <2>10, AppendIs
    <2>4. m = [w EXCEPT !.prefix = q]
        BY <1>1, <1>4, <1>6, <2>1 DEF Mounted
    <2>5. m = [prefix |-> q, dir |-> w.dir, index |-> w.index, etag |-> w.etag,
               lastModified |-> w.lastModified, maxSize |-> w.maxSize]
        BY <2>4 DEF IsMount
    <2>6. m.prefix = q /\ m.dir = w.dir /\ m.index = w.index /\ m.maxSize = w.maxSize
        BY <2>5
    <2>7. Unslashed(p) = p
        BY <1>4, <1>6 DEF Unslashed
    <2>8. QED  BY <1>1, <2>3, <2>6, <2>7
<1>7. QED  BY <1>5, <1>6

\* What a request whose path is q asks of a mount with this index file.
Asking(q, index) == IF Last(q) = Empty THEN Append(Front(q), index) ELSE q

\* A mount with the prefix f, and what is asked of it.
Placed(S, f, q, mount) ==
    /\ f \in Seq(S) /\ q \in Seq(S) /\ q # <<>> /\ Solid(Front(q)) /\ mount.index \in S
    /\ Front(mount.prefix) = f /\ Len(mount.prefix) = Len(f) + 1

\* What try_serve looks for is the rest of what is asked, behind the prefix.
LEMMA NameIs ==
    ASSUME NEW S, NEW f, NEW q, NEW mount, Placed(S, f, q, mount),
           Under(mount, q), Last(q) = Empty => mount.index # Empty
    PROVE  \E n \in Seq(S) : /\ n = Named(mount, q) /\ n # <<>> /\ Solid(n)
                             /\ f \o n = Asking(q, mount.index)
<1>1. PICK l \in Nat, m \in Nat : l = Len(f) /\ m = Len(q)
    BY DEF Placed
<1>2. /\ f \in Seq(S) /\ q \in Seq(S) /\ q # <<>> /\ Solid(Front(q)) /\ mount.index \in S
      /\ Front(mount.prefix) = f /\ Len(mount.prefix) = l + 1
    BY <1>1 DEF Placed
<1>3. m >= l + 1 /\ SubSeq(f, 1, l) = SubSeq(q, 1, l)
    BY <1>1, <1>2 DEF Under, IsPrefix
<1>4. \A k \in 1 .. l : q[k] = f[k]
    <2>1. ASSUME NEW k \in 1 .. l PROVE q[k] = f[k]
        <3>1. SubSeq(f, 1, l)[k] = f[k]
            BY <1>1, <1>2
        <3>2. SubSeq(q, 1, l)[k] = q[k]
            BY <1>1, <1>2, <1>3
        <3>3. QED  BY <1>3, <3>1, <3>2
    <2>2. QED  BY <2>1
<1>5. PICK a, e : a = Front(q) /\ e = Last(q) /\ a \in Seq(S) /\ e \in S /\ q = Append(a, e)
                  /\ Len(a) = m - 1
    BY <1>1, <1>2, EndIs
<1>6. PICK b : b = SubSeq(a, l + 1, m - 1)
    OBVIOUS
<1>7. b \in Seq(S) /\ Len(b) = m - 1 - l /\ \A k \in 1 .. m - 1 - l : b[k] = a[l + k]
    <2>1. m - 1 \in Nat /\ l <= m - 1 /\ m - 1 <= Len(a)
        BY <1>1, <1>3, <1>5
    <2>2. IsCut(S, b, a, l, m - 1)
        BY <1>1, <1>5, <1>6, <2>1, CutIs
    <2>3. QED  BY <2>2 DEF IsCut
<1>8. a = f \o b
    <2>1. PICK c : c = f \o b
        OBVIOUS
    <2>5. PICK d \in Nat : d = m - 1 - l /\ l + d = m - 1
        BY <1>3
    <2>6. /\ c \in Seq(S) /\ Len(c) = l + d
          /\ \A k \in 1 .. l : c[k] = f[k]
          /\ \A k \in 1 .. d : c[l + k] = b[k]
        <3>1. IsJoin(S, c, f, b, l, d)
            BY <1>1, <1>2, <1>7, <2>1, <2>5, JoinIs
        <3>2. QED  BY <3>1 DEF IsJoin
    <2>2. c \in Seq(S) /\ Len(c) = m - 1 /\ m - 1 \in Nat
        BY <2>5, <2>6
    <2>3. ASSUME NEW k \in 1 .. m - 1 PROVE a[k] = c[k]
        <3>1. CASE k <= l
            <4>1. c[k] = f[k]
                BY <2>6, <3>1
            <4>2. a[k] = q[k]
                BY <1>1, <1>5
            <4>3. QED  BY <1>4, <3>1, <4>1, <4>2
        <3>2. CASE ~(k <= l)
            <4>1. PICK j \in 1 .. m - 1 - l : k = l + j /\ j = k - l
                BY <1>3, <3>2
            <4>2. c[k] = b[j]
                BY <2>5, <2>6, <4>1
            <4>3. QED  BY <1>7, <4>1, <4>2
        <3>3. QED  BY <3>1, <3>2
    <2>4. QED  BY <1>5, <2>1, <2>2, <2>3, SameElements
<1>9. Solid(b)
    <2>1. \A k \in 1 .. m - 1 : a[k] # Empty
        BY <1>2, <1>5 DEF Solid
    <2>2. \A k \in 1 .. m - 1 - l : a[l + k] # Empty
        BY <1>1, <2>1
    <2>3. DOMAIN b = 1 .. m - 1 - l
        BY <1>7
    <2>4. QED  BY <1>7, <2>2, <2>3 DEF Solid
<1>10. Rel(mount, q) = Append(b, e)
    <2>1. PICK r : r = SubSeq(q, l + 1, m) /\ r = Rel(mount, q)
        BY <1>1, <1>2 DEF Rel
    <2>2. r \in Seq(S) /\ Len(r) = m - l /\ \A k \in 1 .. m - l : r[k] = q[l + k]
        BY <1>1, <1>2, <1>3, <2>1
    <2>3. PICK c : c = Append(b, e)
        OBVIOUS
    <2>4. c \in Seq(S) /\ Len(c) = m - l /\ c[m - l] = e /\ \A k \in 1 .. m - 1 - l : c[k] = b[k]
        BY <1>1, <1>3, <1>5, <1>7, <2>3
    <2>5. ASSUME NEW k \in 1 .. m - l PROVE r[k] = c[k]
        <3>1. CASE k = m - l
            <4>1. l + k = m
                BY <3>1
            <4>2. q[m] = e
                BY <1>1, <1>3, <1>5
            <4>3. QED  BY <2>2, <2>4, <3>1, <4>1, <4>2
        <3>2. CASE k # m - l
            <4>1. k \in 1 .. m - 1 - l /\ l + k \in 1 .. m - 1
                BY <1>3, <3>2
            <4>2. q[l + k] = a[l + k]
                BY <1>1, <1>5, <4>1
            <4>3. QED  BY <1>7, <2>2, <2>4, <4>1, <4>2
        <3>3. QED  BY <3>1, <3>2
    <2>6. r = c
        BY <2>2, <2>4, <2>5
    <2>7. QED  BY <2>1, <2>3, <2>6
<1>11. PICK x \in S : x = (IF e = Empty THEN mount.index ELSE e) /\ x # Empty
    BY <1>2, <1>5
<1>12. PICK n : n = Append(b, x)
    OBVIOUS
<1>13. WithIndex(mount, Append(b, e)) = n
    <2>1. Last(Append(b, e)) = e /\ Front(Append(b, e)) = b
        BY <1>5, <1>7, AppendIs
    <2>2. QED  BY <1>11, <1>12, <2>1 DEF WithIndex
<1>14. n \in Seq(S) /\ n # <<>> /\ Solid(n)
    <2>1. n \in Seq(S) /\ n # <<>>
        BY <1>7, <1>11, <1>12, AppendIs
    <2>2. PICK u : u = <<x>> /\ u \in Seq(S) /\ Solid(u)
        <3>1. PICK u : u = <<x>>
            OBVIOUS
        <3>2. u \in Seq(S) /\ DOMAIN u = 1 .. 1 /\ u[1] = x
            BY <1>11, <3>1
        <3>3. \A k \in 1 .. 1 : k = 1
            OBVIOUS
        <3>4. QED  BY <1>11, <3>1, <3>2, <3>3 DEF Solid
    <2>3. n = b \o u
        <3>1. PICK j \in Nat : j = Len(b)
            BY <1>7
        <3>2. PICK v : v = b \o u /\ v \in Seq(S) /\ Len(v) = j + 1
                       /\ v[j + 1] = x /\ \A k \in 1 .. j : v[k] = b[k]
            <4>1. Len(u) = 1 /\ u[1] = x /\ 1 \in 1 .. 1
                BY <2>2
            <4>2. PICK v : v = b \o u
                OBVIOUS
            <4>3. IsJoin(S, v, b, u, j, 1)
                BY <1>7, <2>2, <3>1, <4>1, <4>2, JoinIs
            <4>4. QED  BY <4>1, <4>2, <4>3 DEF IsJoin
        <3>3. Len(n) = j + 1 /\ n[j + 1] = x /\ \A k \in 1 .. j : n[k] = b[k]
            BY <1>7, <1>11, <1>12, <3>1
        <3>4. ASSUME NEW k \in 1 .. j + 1 PROVE n[k] = v[k]
            <4>1. k \in 1 .. j \/ k = j + 1
                OBVIOUS
            <4>2. QED  BY <3>2, <3>3, <4>1
        <3>5. n = v
            BY <2>1, <3>1, <3>2, <3>3, <3>4, SameElements
        <3>6. QED  BY <3>2, <3>5
    <2>4. QED  BY <1>7, <1>9, <2>1, <2>2, <2>3, BothSolid
<1>15. Stripped(n) = n
    <2>1. 1 \in DOMAIN n /\ Head(n) = n[1]
        BY <1>14
    <2>2. Head(n) # Empty
        BY <1>14, <2>1 DEF Solid
    <2>3. QED  BY <2>2 DEF Stripped
<1>16. n = Named(mount, q)
    BY <1>10, <1>13, <1>15 DEF Named
<1>17. f \o n = Append(a, x)
    BY <1>2, <1>7, <1>8, <1>11, <1>12
<1>18. Append(a, x) = Asking(q, mount.index)
    BY <1>5, <1>11 DEF Asking
<1>19. QED  BY <1>14, <1>16, <1>17, <1>18

\* And a name that is the rest is what it looks for.
LEMMA NameFound ==
    ASSUME NEW S, NEW f, NEW q, NEW mount, Placed(S, f, q, mount),
           NEW n \in Seq(S), n # <<>>, Solid(n), f \o n = Asking(q, mount.index)
    PROVE  /\ Under(mount, q) /\ (Last(q) = Empty => mount.index # Empty)
           /\ Named(mount, q) = n
<1>1. PICK l \in Nat, m \in Nat, j \in Nat : l = Len(f) /\ m = Len(q) /\ j = Len(n) /\ j >= 1
    BY DEF Placed
<1>2. /\ f \in Seq(S) /\ q \in Seq(S) /\ q # <<>> /\ mount.index \in S
      /\ Front(mount.prefix) = f /\ Len(mount.prefix) = l + 1
    BY <1>1 DEF Placed
<1>3. PICK a, e : a = Front(q) /\ e = Last(q) /\ a \in Seq(S) /\ e \in S /\ q = Append(a, e)
                  /\ Len(a) = m - 1
    BY <1>1, <1>2, EndIs
<1>4. PICK x \in S : x = (IF e = Empty THEN mount.index ELSE e)
    BY <1>2, <1>3
<1>5. PICK w : w = f \o n /\ w = Append(a, x)
    <2>1. Asking(q, mount.index) = Append(a, x)
        BY <1>3, <1>4 DEF Asking
    <2>2. QED  BY <2>1
<1>16. /\ w \in Seq(S) /\ Len(w) = l + j /\ \A k \in 1 .. l : w[k] = f[k]
       /\ \A k \in 1 .. j : w[l + k] = n[k]
    <2>1. IsJoin(S, w, f, n, l, j)
        BY <1>1, <1>2, <1>5, JoinIs
    <2>2. QED  BY <2>1 DEF IsJoin
<1>17. /\ Len(w) = m /\ w[m] = x /\ q[m] = e
       /\ \A k \in 1 .. m - 1 : w[k] = a[k] /\ q[k] = a[k]
    <2>1. m \in Nat /\ m >= 1
        BY <1>1, <1>2
    <2>2. IsAppend(w, a, x, m - 1) /\ IsAppend(q, a, e, m - 1)
        BY <1>3, <1>4, <1>5, AppendedIs
    <2>3. (m - 1) + 1 = m
        BY <2>1
    <2>4. QED  BY <2>2, <2>3 DEF IsAppend
<1>6. Len(w) = l + j /\ Len(w) = m /\ w[m] = x /\ w[l + j] = n[j]
    BY <1>1, <1>16, <1>17
<1>7. m = l + j /\ x = n[j]
    BY <1>6
<1>8. x # Empty
    BY <1>1, <1>7 DEF Solid
<1>9. Last(q) = Empty => mount.index # Empty
    BY <1>3, <1>4, <1>8
<1>10. ASSUME NEW k \in 1 .. l PROVE q[k] = f[k]
    <2>1. w[k] = f[k]
        BY <1>16
    <2>2. k \in 1 .. m - 1
        BY <1>1, <1>7
    <2>3. w[k] = a[k] /\ q[k] = a[k]
        BY <1>17, <2>2
    <2>4. QED  BY <2>1, <2>3
<1>11. SubSeq(f, 1, l) = SubSeq(q, 1, l)
    <2>1. PICK s, t : s = SubSeq(f, 1, l) /\ t = SubSeq(q, 1, l)
        OBVIOUS
    <2>2. /\ s \in Seq(S) /\ Len(s) = l /\ \A k \in 1 .. l : s[k] = f[k]
          /\ t \in Seq(S) /\ Len(t) = l /\ \A k \in 1 .. l : t[k] = q[k]
        <3>1. 0 \in Nat /\ 0 <= l /\ l <= Len(f) /\ l <= Len(q) /\ 0 + 1 = 1 /\ l - 0 = l
            BY <1>1, <1>7
        <3>2. IsCut(S, s, f, 0, l) /\ IsCut(S, t, q, 0, l)
            BY <1>2, <2>1, <3>1, CutIs
        <3>3. \A k \in 1 .. l : 0 + k = k
            OBVIOUS
        <3>4. QED  BY <3>1, <3>2, <3>3 DEF IsCut
    <2>3. \A k \in 1 .. l : s[k] = t[k]
        BY <1>10, <2>2
    <2>5. s = t
        BY <1>1, <2>2, <2>3, SameElements
    <2>6. QED  BY <2>1, <2>5
<1>12. Under(mount, q)
    BY <1>1, <1>2, <1>7, <1>11 DEF Under, IsPrefix
<1>13. PICK c \in Seq(S) : c = Named(mount, q) /\ f \o c = Asking(q, mount.index)
    BY <1>9, <1>12, NameIs
<1>14. c = n
    BY <1>2, <1>13, SameRest
<1>15. QED  BY <1>9, <1>12, <1>13, <1>14

-----------------------------------------------------------------------------
(* The invariant, as long as no file was saved or removed.                   *)

\* Mount k has a file for the path, and serves it.
Serving(k) ==
    /\ Servable(app.mounts[k], req.path)
    /\ log[disk[PlaceOf(app.mounts[k], req.path)]].size <= app.mounts[k].maxSize

NoneBefore(k) == k \in 1 .. Len(app.mounts) /\ \A j \in 1 .. k - 1 : ~Serving(j)
NoneServes == \A j \in 1 .. Len(app.mounts) : ~Serving(j)

\* The file at this place is that of the first mount that has one.
FirstServed(place) ==
    \E k : NoneBefore(k) /\ Serving(k) /\ place = PlaceOf(app.mounts[k], req.path)

\* What the search has passed over, and found.
Searching(pr) ==
    /\ pr.step \in {"find", "size", "mtime", "read"} => NoneBefore(pr.mount)
    /\ pr.step \in {"size", "mtime", "read"} =>
          /\ Servable(app.mounts[pr.mount], req.path)
          /\ pr.place = PlaceOf(app.mounts[pr.mount], req.path)
    /\ pr.step \in {"mtime", "read"} => Serving(pr.mount) /\ pr.size = log[disk[pr.place]].size
    /\ pr.step = "served" => FirstServed(pr.answer.place)
    /\ pr.step = "missed" => NoneServes

\* What it has given back.
GivenBack(v) ==
    v.kind = "response" =>
        /\ v.by[1] = "file" => FirstServed(v.file.place)
        /\ v.by[1] = "notFound" /\ req.method \in {"GET", "HEAD"} => NoneServes

\* The places on disk are those of files.
OnDisk(d, l) ==
    \A p \in DOMAIN d :
        /\ p = <<p[1], p[2]>> /\ IsPath(p[2]) /\ p[2] # <<>> /\ Empty \notin Range(p[2])
        /\ l[d[p]].size \in Nat

MountInv ==
    /\ edits \in Nat
    /\ edits = 0 => OnDisk(disk, log) /\ Searching(probe) /\ GivenBack(value)

-----------------------------------------------------------------------------
(* Every step keeps it.                                                      *)

\* Who serves depends on the tables, the files and the path.
LEMMA ServingSame ==
    ASSUME UNCHANGED <<app, disk, log>>, req'.path = req.path
    PROVE  /\ \A pr : Searching(pr)' <=> Searching(pr)
           /\ \A place : FirstServed(place)' <=> FirstServed(place)
           /\ NoneServes' <=> NoneServes
<1>1. \A mount, path : Servable(mount, path)' <=> Servable(mount, path)
    BY DEF Servable
<1>2. PICK a, d, l, q : a = app /\ d = disk /\ l = log /\ q = req.path
    OBVIOUS
<1>3. app' = a /\ disk' = d /\ log' = l /\ req'.path = q
    BY <1>2
<1>4. \A k : Serving(k)' <=> Serving(k)
    BY <1>1, <1>2, <1>3 DEF Serving
<1>5. \A k : NoneBefore(k)' <=> NoneBefore(k)
    BY <1>2, <1>3, <1>4 DEF NoneBefore
<1>6. NoneServes' <=> NoneServes
    BY <1>2, <1>3, <1>4 DEF NoneServes
<1>7. \A place : FirstServed(place)' <=> FirstServed(place)
    BY <1>2, <1>3, <1>4, <1>5 DEF FirstServed
<1>8. \A pr : Searching(pr)' <=> Searching(pr)
    BY <1>1, <1>2, <1>3, <1>4, <1>5, <1>6, <1>7 DEF Searching
<1>9. QED  BY <1>6, <1>7, <1>8

\* Steps of the same request.
LEMMA MountNext ==
    ASSUME MountInv, UNCHANGED <<app, disk, log, edits>>,
           req'.path = req.path, req'.method = req.method,
           NEW pr, probe' = pr, edits = 0 => Searching(pr),
           NEW v, value' = v, edits = 0 => GivenBack(v)
    PROVE  MountInv'
<1>1. PICK d, l, n, m : d = disk /\ l = log /\ n = edits /\ m = req.method
    OBVIOUS
<1>2. disk' = d /\ log' = l /\ edits' = n /\ req'.method = m
    BY <1>1
<1>3. n \in Nat /\ (n = 0 => OnDisk(d, l))
    BY <1>1 DEF MountInv
<1>4. n = 0 => Searching(pr)'
    BY <1>1, ServingSame
<1>5. n = 0 => GivenBack(v)'
    BY <1>1, <1>2, ServingSame DEF GivenBack
<1>6. QED  BY <1>2, <1>3, <1>4, <1>5 DEF MountInv

\* Nothing is searched, and nothing is given back.
LEMMA NothingMounted == Searching(Idle) /\ GivenBack(Nothing)
<1>1. Nothing.kind = "nothing" /\ Idle.step = "idle"
    <2>1. PICK r, f : r = Blank /\ f = NoFile
        OBVIOUS
    <2>2. Nothing = [kind |-> "nothing", by |-> <<"nobody", 0>>, res |-> r, file |-> f]
        BY <2>1 DEF Nothing
    <2>3. QED  BY <2>2, NothingSent
<1>2. QED  BY <1>1 DEF Searching, GivenBack

\* Steps that call, or ask again, have given back nothing.
LEMMA CallMounts ==
    ASSUME FilesInv, MountInv,
           Handle \/ CallNext \/ HandOn \/ CallRoute \/ CallGetRoute \/ Revalidate
    PROVE  MountInv'
<1>1. /\ value' = Nothing /\ UNCHANGED <<log, disk, edits, probe>> /\ pc # "files"
    BY DEF Handle, CallNext, HandOn, EnterNext, CallRoute, CallGetRoute, Call, AtDispatch, Revalidate,
           fileVars
<1>2. probe' = Idle
    BY <1>1 DEF FilesInv, InUse
<1>3. PICK d, l, n : d = disk /\ l = log /\ n = edits
    OBVIOUS
<1>4. disk' = d /\ log' = l /\ edits' = n
    BY <1>1, <1>3
<1>5. n \in Nat /\ (n = 0 => OnDisk(d, l))
    BY <1>3 DEF MountInv
<1>6. Searching(Idle)' /\ GivenBack(Nothing)'
    BY NothingMounted, PTL
<1>7. PICK pr, v : pr = Idle /\ v = Nothing
    OBVIOUS
<1>8. Searching(pr)' /\ GivenBack(v)' /\ probe' = pr /\ value' = v
    BY <1>1, <1>2, <1>6, <1>7
<1>9. QED  BY <1>4, <1>5, <1>8 DEF MountInv

\* The mounts of the tables are those that were asked for, in their order.
LEMMA MountsTyped ==
    ASSUME AppInv
    PROVE  /\ Len(app.mounts) \in Nat /\ DOMAIN app.asked.mounts = 1 .. Len(app.mounts)
           /\ app.mounts # <<>> => Len(app.mounts) >= 1
           /\ \A k \in 1 .. Len(app.mounts) :
                 IsMount(app.asked.mounts[k]) /\ app.mounts[k] = Mounted(app.asked.mounts[k])
<1>1. PICK a \in Apps : app = Registered(a)
    BY DEF AppInv
<1>2. PICK S : a.mounts \in Seq(S)
    BY AppsAssumption
<1>3. PICK n \in Nat : DOMAIN a.mounts = 1 .. n
    BY <1>2
<1>4. app.asked = a /\ app.mounts = [k \in 1 .. n |-> Mounted(a.mounts[k])]
    BY <1>1, <1>3 DEF Registered
<1>5. PICK m : m = app.mounts
    OBVIOUS
<1>6. Len(m) = n /\ (n = 0 => m = <<>>) /\ \A k \in 1 .. n : m[k] = Mounted(a.mounts[k])
    BY <1>4, <1>5
<1>7. \A k \in 1 .. n : IsMount(a.mounts[k])
    BY <1>3, AppsAssumption
<1>8. QED  BY <1>3, <1>4, <1>5, <1>6, <1>7

\* A probe that starts at mount k.
Started(s, k) == [Idle EXCEPT !.step = s, !.mount = k]

\* It is there.
LEMMA StartedIs ==
    ASSUME NEW s, NEW k
    PROVE  Started(s, k).step = s /\ Started(s, k).mount = k
<1>1. PICK i, f, n : i = Idle /\ f = NoFile /\ n = <<>>
    OBVIOUS
<1>2. i = [step |-> "idle", mount |-> 0, place |-> n, size |-> 0, etag |-> n,
           date |-> n, answer |-> f]
    BY <1>1 DEF Idle
<1>3. PICK j : j = [i EXCEPT !.step = s]
    OBVIOUS
<1>4. j = [step |-> s, mount |-> 0, place |-> n, size |-> 0, etag |-> n, date |-> n, answer |-> f]
    BY <1>2, <1>3
<1>5. PICK h : h = [j EXCEPT !.mount = k]
    OBVIOUS
<1>6. h = [step |-> s, mount |-> k, place |-> n, size |-> 0, etag |-> n, date |-> n, answer |-> f]
    BY <1>4, <1>5
<1>7. h.step = s /\ h.mount = k
    BY <1>6
<1>8. Started(s, k) = h
    BY <1>1, <1>3, <1>5 DEF Started
<1>9. QED  BY <1>7, <1>8

\* Steps that only hand on, and the start of the search.
LEMMA QuietMounts ==
    ASSUME ReqInv, AppInv, FilesInv, MountInv,
           \/ OpenStream \/ StreamEnds \/ Enter \/ NextReturns \/ Terminated \/ UNCHANGED vars
           \/ TryFiles
    PROVE  MountInv'
<1>1. PICK v : v = value /\ (edits = 0 => GivenBack(v))
    BY DEF MountInv
<1>2. CASE TryFiles
    <2>1. /\ UNCHANGED <<app, disk, log, edits, value>>
          /\ probe' = [Idle EXCEPT !.step = "find", !.mount = 1] /\ app.mounts # <<>>
          /\ \E params : req' = [req EXCEPT !.params = params]
        BY <1>2 DEF TryFiles, NoRoute, MayBeFile, TryFirstMount
    <2>2. req'.path = req.path /\ req'.method = req.method
        BY <2>1, NewParams
    <2>3. PICK pr : probe' = pr /\ pr.step = "find" /\ pr.mount = 1
        <3>1. PICK s, k : s = "find" /\ k = 1
            OBVIOUS
        <3>2. PICK pr : pr = Started(s, k) /\ probe' = pr
            BY <2>1, <3>1 DEF Started
        <3>3. pr.step = s /\ pr.mount = k
            BY <3>2, StartedIs
        <3>4. QED  BY <3>1, <3>2, <3>3
    <2>4. NoneBefore(1)
        BY <2>1, MountsTyped DEF NoneBefore
    <2>5. Searching(pr)
        BY <2>3, <2>4 DEF Searching
    <2>6. QED  BY <1>1, <2>1, <2>2, <2>3, <2>5, MountNext
<1>3. CASE ~TryFiles
    <2>1. UNCHANGED <<app, disk, log, edits, value, probe, req>>
        BY <1>3 DEF OpenStream, StreamEnds, Enter, NextReturns, Terminated, vars, fileVars
    <2>2. PICK pr : pr = probe /\ (edits = 0 => Searching(pr))
        BY DEF MountInv
    <2>3. req'.path = req.path /\ req'.method = req.method
        BY <2>1
    <2>4. QED  BY <1>1, <2>1, <2>2, <2>3, MountNext
<1>4. QED  BY <1>2, <1>3

\* A mount that does not serve is passed over.
LEMMA PassMounts ==
    ASSUME AppInv, MountInv, UNCHANGED <<app, log, disk, edits, req, value>>, edits = 0,
           Pass(app.mounts), NoneBefore(probe.mount), ~Serving(probe.mount)
    PROVE  MountInv'
<1>1. PICK k, n : k = probe.mount /\ n = Len(app.mounts)
    OBVIOUS
<1>2. n \in Nat /\ k \in 1 .. n /\ (\A j \in 1 .. k - 1 : ~Serving(j)) /\ ~Serving(k)
    BY <1>1, MountsTyped DEF NoneBefore
<1>3. \A j \in 1 .. k : ~Serving(j)
    <2>1. ASSUME NEW j \in 1 .. k PROVE ~Serving(j)
        <3>1. j \in 1 .. k - 1 \/ j = k
            BY <1>2
        <3>2. QED  BY <1>2, <3>1
    <2>2. QED  BY <2>1
<1>4. \E pr : probe' = pr /\ Searching(pr)
    <2>1. CASE k < n
        <3>1. PICK s, i : s = "find" /\ i = k + 1 /\ i \in 1 .. n /\ i - 1 = k
            BY <1>2, <2>1
        <3>2. PICK pr : pr = Started(s, i) /\ probe' = pr
            BY <1>1, <2>1, <3>1 DEF Pass, Started
        <3>3. pr.step = s /\ pr.mount = i
            BY <3>2, StartedIs
        <3>4. NoneBefore(i)
            BY <1>1, <1>3, <3>1 DEF NoneBefore
        <3>5. Searching(pr)
            BY <3>1, <3>3, <3>4 DEF Searching
        <3>6. QED  BY <3>2, <3>5
    <2>2. CASE ~(k < n)
        <3>1. PICK s : s = "missed"
            OBVIOUS
        <3>2. PICK pr : pr = [Idle EXCEPT !.step = s] /\ probe' = pr
            BY <1>1, <2>2, <3>1 DEF Pass
        <3>3. pr.step = s
            BY <3>2, ProbeAnew
        <3>4. k = n
            BY <1>2, <2>2
        <3>5. NoneServes
            BY <1>1, <1>3, <3>4 DEF NoneServes
        <3>6. Searching(pr)
            BY <3>1, <3>3, <3>5 DEF Searching
        <3>7. QED  BY <3>2, <3>6
    <2>3. QED  BY <2>1, <2>2
<1>5. PICK v : v = value /\ GivenBack(v)
    BY DEF MountInv
<1>6. req'.path = req.path /\ req'.method = req.method
    OBVIOUS
<1>7. QED  BY <1>4, <1>5, <1>6, MountNext

\* The steps of the search.
LEMMA SearchMounts ==
    ASSUME AppInv, FilesInv, MountInv, SearchFile
    PROVE  MountInv'
<1>1. UNCHANGED <<app, log, disk, edits, req, value>>
    BY DEF SearchFile, TryServe
<1>2. PICK v : v = value /\ (edits = 0 => GivenBack(v))
    BY DEF MountInv
<1>3. req'.path = req.path /\ req'.method = req.method
    BY <1>1
<1>4. CASE edits # 0
    <2>1. PICK pr : probe' = pr
        OBVIOUS
    <2>2. QED  BY <1>1, <1>2, <1>3, <1>4, <2>1, MountNext
<1>5. ASSUME NEW pr, probe' = pr, Searching(pr) PROVE MountInv'
    BY <1>1, <1>2, <1>3, <1>5, MountNext
<1>6. CASE edits = 0
    <2>1. PICK p, k, m, q, x :
             /\ p = probe /\ k = probe.mount /\ m = app.mounts[k] /\ q = req.path
             /\ x = PlaceOf(m, q)
        OBVIOUS
    <2>2. Searching(p) /\ IsProbe(p) /\ OnDisk(disk, log) /\ m = Here(app.mounts)
        BY <1>6, <2>1 DEF MountInv, FilesInv, Here
    <2>3. Serving(k) <=> Servable(m, q) /\ log[disk[x]].size <= m.maxSize
        BY <2>1 DEF Serving
    <2>4. Servable(m, q) => x \in DOMAIN disk /\ log[disk[x]].size \in Nat
        BY <2>1, <2>2 DEF Servable, OnDisk
    <2>5. p.step \in {"find", "size", "mtime", "read"} => NoneBefore(k)
        BY <2>1, <2>2 DEF Searching
    <2>6. p.step \in {"size", "mtime", "read"} =>
             p.place = x /\ Servable(m, q) /\ Present /\ Version = disk[x]
        BY <2>1, <2>2, <2>4 DEF Searching, Present, Version
    <2>7. p.step \in {"mtime", "read"} => Serving(k) /\ p.size = log[disk[x]].size
        BY <2>1, <2>2, <2>6 DEF Searching
    <2>8. CASE FindFile(app.mounts, q)
        <3>1. CASE Servable(m, q)
            <4>1. probe' = [p EXCEPT !.step = "size", !.place = x]
                BY <2>1, <2>2, <2>8, <3>1 DEF FindFile
            <4>2. PICK pr : /\ probe' = pr
                            /\ pr = [step |-> "size", mount |-> p.mount, place |-> x, size |-> p.size,
                                     etag |-> p.etag, date |-> p.date, answer |-> p.answer]
                BY <2>2, <4>1, ProbeOn
            <4>3. pr.step = "size" /\ pr.mount = k /\ pr.place = x
                BY <2>1, <4>2
            <4>4. NoneBefore(k)
                BY <2>1, <2>5, <2>8 DEF FindFile
            <4>5. Searching(pr)
                BY <2>1, <3>1, <4>3, <4>4 DEF Searching
            <4>6. QED  BY <1>5, <4>2, <4>5
        <3>2. CASE ~Servable(m, q)
            <4>1. Pass(app.mounts) /\ p.step = "find"
                BY <2>1, <2>2, <2>8, <3>2 DEF FindFile
            <4>2. QED  BY <1>1, <1>6, <2>1, <2>3, <2>5, <3>2, <4>1, PassMounts
        <3>3. QED  BY <3>1, <3>2
    <2>9. CASE ReadSize(app.mounts)
        <3>1. p.step = "size" /\ NoneBefore(k) /\ Present /\ Version = disk[x] /\ Servable(m, q)
              /\ p.place = x
            BY <2>1, <2>5, <2>6, <2>9 DEF ReadSize
        <3>2. CASE log[disk[x]].size <= m.maxSize
            <4>1. PICK y : y = log[disk[x]].size /\ probe' = [p EXCEPT !.step = "mtime", !.size = y]
                BY <2>1, <2>2, <2>9, <3>1, <3>2 DEF ReadSize
            <4>2. PICK pr : /\ probe' = pr
                            /\ pr = [step |-> "mtime", mount |-> p.mount, place |-> p.place, size |-> y,
                                     etag |-> p.etag, date |-> p.date, answer |-> p.answer]
                BY <2>2, <4>1, ProbeOn
            <4>3. pr.step = "mtime" /\ pr.mount = k /\ pr.place = x /\ pr.size = y
                BY <2>1, <3>1, <4>2
            <4>4. Serving(k)
                BY <2>3, <3>1, <3>2
            <4>5. Searching(pr)
                BY <2>1, <3>1, <4>1, <4>3, <4>4 DEF Searching
            <4>6. QED  BY <1>5, <4>2, <4>5
        <3>3. CASE ~(log[disk[x]].size <= m.maxSize)
            <4>1. Pass(app.mounts)
                BY <2>2, <2>9, <3>1, <3>3 DEF ReadSize
            <4>2. QED  BY <1>1, <1>6, <2>1, <2>3, <3>1, <3>3, <4>1, PassMounts
        <3>4. QED  BY <3>2, <3>3
    <2>10. ASSUME NEW f, Serve(f), IsAnswer(f), f.place = p.place, p.step \in {"mtime", "read"}
           PROVE  MountInv'
        <3>1. PICK pr : probe' = pr /\ pr.step = "served" /\ pr.answer = f
            BY <2>10, ServeIs
        <3>2. FirstServed(f.place)
            BY <2>1, <2>5, <2>6, <2>7, <2>10 DEF FirstServed
        <3>3. Searching(pr)
            BY <3>1, <3>2 DEF Searching
        <3>4. QED  BY <1>5, <3>1, <3>3
    <2>11. CASE ReadMtime(app.mounts, [etag |-> req.etag, date |-> req.date])
        <3>1. p.step = "mtime" /\ NoneBefore(k) /\ Present /\ Servable(m, q) /\ p.place = x /\ Serving(k)
              /\ p.size = log[disk[x]].size
            BY <2>1, <2>5, <2>6, <2>7, <2>11 DEF ReadMtime
        <3>2. PICK etag, date : Serve(NotModified(etag, date)) \/ probe' = Validated(etag, date)
            <4>1. PICK asked : ReadMtime(app.mounts, asked)
                BY <2>11
            <4>2. PICK etag, dates :
                     \/ Serve(NotModified(etag, <<>>))
                     \/ probe' = Validated(etag, <<>>)
                     \/ \E shown \in dates :
                           Serve(NotModified(etag, <<shown>>)) \/ probe' = Validated(etag, <<shown>>)
                <5>1. PICK etag, dates :
                         /\ etag = IF Here(app.mounts).etag
                                      THEN TagOf(probe.size, log[Version].mtime) ELSE <<>>
                         /\ dates = IF Here(app.mounts).lastModified
                                       THEN Dates(log[Version].mtime) ELSE {}
                    OBVIOUS
                <5>2. \/ Serve(NotModified(etag, <<>>))
                      \/ probe' = Validated(etag, <<>>)
                      \/ \E shown \in dates, compared \in dates :
                            Serve(NotModified(etag, <<shown>>)) \/ probe' = Validated(etag, <<shown>>)
                    BY <3>1, <4>1, <5>1 DEF ReadMtime
                <5>3. QED  BY <5>2
            <4>3. QED  BY <4>2
        <3>3. CASE Serve(NotModified(etag, date))
            <4>1. PICK f : f = NotModified(etag, date) /\ f.place = p.place /\ IsAnswer(f)
                BY <2>1, NotModifiedIs
            <4>2. QED  BY <2>10, <3>1, <3>3, <4>1
        <3>4. CASE probe' = Validated(etag, date)
            <4>1. PICK pr : /\ probe' = pr
                            /\ pr = [step |-> "read", mount |-> p.mount, place |-> p.place,
                                     size |-> p.size, etag |-> etag, date |-> date, answer |-> p.answer]
                BY <2>1, <2>2, <3>4, ValidatedIs
            <4>2. pr.step = "read" /\ pr.mount = k /\ pr.place = x /\ pr.size = p.size
                BY <2>1, <3>1, <4>1
            <4>3. Searching(pr)
                BY <2>1, <3>1, <4>2 DEF Searching
            <4>4. QED  BY <1>5, <4>1, <4>3
        <3>5. QED  BY <3>2, <3>3, <3>4
    <2>12. CASE ReadFile(app.mounts)
        <3>1. /\ p.step = "read" /\ Present /\ p.size = log[Version].size /\ p.size \in Nat
            BY <2>1, <2>4, <2>6, <2>7, <2>12 DEF ReadFile
        <3>2. PICK f, v1 : /\ v1 = Version
                           /\ f = [status |-> 200, place |-> p.place, version |-> v1, size |-> p.size,
                                   etag |-> p.etag, date |-> p.date]
            OBVIOUS
        <3>3. log[Version].size >= probe.size
            BY <2>1, <3>1
        <3>4. Serve(f)
            BY <2>1, <2>12, <3>1, <3>2, <3>3 DEF ReadFile
        <3>5. f.place = p.place /\ IsAnswer(f)
            BY <3>2 DEF IsAnswer
        <3>6. QED  BY <2>10, <3>1, <3>4, <3>5
    <2>13. QED  BY <2>1, <2>8, <2>9, <2>11, <2>12 DEF SearchFile, TryServe
<1>7. QED  BY <1>4, <1>6

\* Steps by which another process changes a file.
LEMMA EditMounts ==
    ASSUME MountInv, EditFile
    PROVE  MountInv'
<1>1. edits' = edits + 1
    BY DEF EditFile, Edit
<1>2. edits \in Nat
    BY DEF MountInv
<1>3. edits' \in Nat /\ edits' # 0
    BY <1>1, <1>2
<1>4. QED  BY <1>3 DEF MountInv

\* What comes back from the search.
LEMMA FileMounts ==
    ASSUME ReqInv, AppInv, FilesInv, MountInv, ServeFile \/ SearchThrows \/ NotFound
    PROVE  MountInv'
<1>1. UNCHANGED <<app, disk, log, edits>>
    BY DEF ServeFile, SearchThrows, NotFound, NoRoute
<1>2. req'.path = req.path /\ req'.method = req.method
    <2>1. CASE NoRoute
        <3>1. PICK params : req' = [req EXCEPT !.params = params]
            BY <2>1 DEF NoRoute
        <3>2. QED  BY <3>1, NewParams
    <2>2. CASE ~NoRoute
        BY <2>2 DEF ServeFile, SearchThrows, NotFound
    <2>3. QED  BY <2>1, <2>2
<1>3. PICK pr : probe' = pr /\ (edits = 0 => Searching(pr))
    <2>1. CASE probe' = Idle
        BY <2>1, NothingMounted
    <2>2. CASE probe' = probe
        BY <2>2 DEF MountInv
    <2>3. QED  BY <2>1, <2>2 DEF ServeFile, SearchThrows, NotFound
<1>4. CASE ServeFile
    <2>1. PICK f, by, status, sent, text, r, v :
             /\ f = probe.answer /\ by = <<"file", 0>> /\ text = Text(status, sent)
             /\ r = Response(by, text) /\ v = [r EXCEPT !.file = f] /\ value' = v
        BY <1>4 DEF ServeFile, Leave
    <2>2. IsResponse(text)
        BY <2>1, TextIsResponse
    <2>3. IsValue(r) /\ r.by = by
        BY <2>1, <2>2, ResponseIsValue
    <2>4. v.file = f /\ v.by = by
        BY <2>1, <2>3 DEF IsValue
    <2>5. v.by[1] = "file"
        BY <2>1, <2>4
    <2>6. edits = 0 => FirstServed(f.place)
        BY <1>4, <2>1 DEF MountInv, Searching, ServeFile
    <2>7. edits = 0 => GivenBack(v)
        BY <2>4, <2>5, <2>6 DEF GivenBack
    <2>8. QED  BY <1>1, <1>2, <1>3, <2>1, <2>7, MountNext
<1>5. CASE SearchThrows
    <2>1. PICK by, v, kind : /\ kind = "std" /\ v = Exception(kind, by) /\ value' = v
        BY <1>5 DEF SearchThrows, Leave
    <2>2. v.kind = kind
        BY <2>1, ExceptionIsValue
    <2>3. GivenBack(v)
        BY <2>1, <2>2 DEF GivenBack
    <2>4. QED  BY <1>1, <1>2, <1>3, <2>1, <2>3, MountNext
<1>6. CASE NotFound
    <2>1. PICK by, text, v :
             by = <<"notFound", 0>> /\ text = Text(404, 1) /\ v = Response(by, text) /\ value' = v
        BY <1>6 DEF NotFound, Leave
    <2>2. IsResponse(text)
        BY <2>1, TextIsResponse
    <2>3. v.by = by
        BY <2>1, <2>2, ResponseIsValue
    <2>4. v.by[1] = "notFound"
        BY <2>1, <2>3
    <2>5. edits = 0 /\ req.method \in {"GET", "HEAD"} => NoneServes
        <3>1. CASE ~MayBeFile
            <4>1. req.method \in {"GET", "HEAD"} => app.mounts = <<>>
                BY <3>1 DEF MayBeFile
            <4>2. app.mounts = <<>> => Len(app.mounts) = 0
                OBVIOUS
            <4>3. QED  BY <4>1, <4>2 DEF NoneServes
        <3>2. CASE probe.step = "missed"
            BY <3>2 DEF MountInv, Searching
        <3>3. QED  BY <1>6, <3>1, <3>2 DEF NotFound
    <2>6. edits = 0 => GivenBack(v)
        BY <2>4, <2>5 DEF GivenBack
    <2>7. QED  BY <1>1, <1>2, <1>3, <2>1, <2>6, MountNext
<1>7. QED  BY <1>4, <1>5, <1>6

\* Nobody gives back nothing.
LEMMA NobodyIs == Nothing.by[1] = "nobody"
<1>1. PICK r, f, by : r = Blank /\ f = NoFile /\ by = <<"nobody", 0>>
    OBVIOUS
<1>2. Nothing = [kind |-> "nothing", by |-> by, res |-> r, file |-> f]
    BY <1>1 DEF Nothing
<1>3. Nothing.by = by
    BY <1>2
<1>4. QED  BY <1>1, <1>3

\* What other callees give back is what they were given, or their own.
LEMMA ReturnMounts ==
    ASSUME IsValue(value), MountInv,
           \/ Answer \/ Throw \/ AnswerPreflight \/ HandBack \/ NextThrows
           \/ HandlerReturns \/ HandlerThrows
    PROVE  MountInv'
<1>1. UNCHANGED <<app, disk, log, edits, req, probe>>
    BY DEF Answer, Throw, AnswerPreflight, HandBack, NextThrows, HandlerReturns, HandlerThrows,
           fileVars
<1>2. PICK pr : probe' = pr /\ (edits = 0 => Searching(pr))
    BY <1>1 DEF MountInv
<1>3. req'.path = req.path /\ req'.method = req.method
    BY <1>1
<1>4. PICK old : old = value /\ (edits = 0 => GivenBack(old))
    BY DEF MountInv
<1>5. ASSUME NEW v, value' = v,
             \/ v.kind = old.kind /\ v.by = old.by /\ v.file = old.file
             \/ v.kind # "response"
             \/ v.by[1] \notin {"file", "notFound"}
      PROVE  MountInv'
    <2>1. edits = 0 => GivenBack(v)
        BY <1>4, <1>5 DEF GivenBack
    <2>2. QED  BY <1>1, <1>2, <1>3, <1>5, <2>1, MountNext
<1>6. \A f : Author(f)[1] \notin {"file", "notFound"}
    BY DEF Author
<1>7. ASSUME NEW by, by[1] \notin {"file", "notFound"}, NEW text, IsResponse(text),
             value' = Response(by, text)
      PROVE  MountInv'
    <2>1. PICK v : v = Response(by, text) /\ value' = v /\ v.by = by
        BY <1>7, ResponseIsValue
    <2>2. QED  BY <1>5, <1>7, <2>1
<1>8. ASSUME NEW by, NEW kind \in {"std", "foreign"}, value' = Exception(kind, by)
      PROVE  MountInv'
    <2>1. PICK v : v = Exception(kind, by) /\ value' = v /\ v.kind = kind
        BY <1>8, ExceptionIsValue
    <2>2. QED  BY <1>5, <1>8, <2>1
<1>9. CASE value' = value
    BY <1>4, <1>5, <1>9
<1>10. CASE value' = Nothing
    <2>1. PICK v : v = Nothing /\ value' = v /\ v.by[1] = "nobody"
        BY <1>10, NobodyIs
    <2>2. QED  BY <1>5, <2>1
<1>11. CASE value' = Stamped(old)
    <2>1. PICK v : v = Stamped(old) /\ value' = v
        BY <1>11
    <2>2. v.kind = old.kind /\ v.by = old.by /\ v.file = old.file
        BY <1>4, <2>1, StampedIsValue
    <2>3. QED  BY <1>5, <2>1, <2>2
<1>12. CASE Answer
    <2>1. \/ value' = value
          \/ \E res \in Made(Top) : value' = Response(Author(Top), res)
        BY <1>12 DEF Answer, Leave
    <2>2. QED  BY <1>6, <1>7, <1>9, <2>1, MadeIsResponse
<1>13. CASE Throw
    <2>1. \E kind \in {"std", "foreign"} : value' = Exception(kind, Author(Top))
        BY <1>13 DEF Throw, Leave
    <2>2. QED  BY <1>8, <2>1
<1>14. CASE AnswerPreflight
    <2>1. PICK by, text, w, v :
             /\ by = Author(Top) /\ text = Text(204, 0) /\ w = Response(by, text)
             /\ v = Stamped(w) /\ value' = v
        BY <1>14 DEF AnswerPreflight, Leave
    <2>2. IsValue(w) /\ w.by = by
        BY <2>1, TextIsResponse, ResponseIsValue
    <2>3. v.by = w.by
        BY <2>1, <2>2, StampedIsValue
    <2>4. v.by[1] \notin {"file", "notFound"}
        BY <1>6, <2>1, <2>2, <2>3
    <2>5. QED  BY <1>5, <2>1, <2>4
<1>15. CASE HandBack \/ NextThrows
    <2>1. value' = value \/ value' = Nothing \/ value' = Stamped(old)
        BY <1>4, <1>15 DEF HandBack, NextThrows, Leave
    <2>2. QED  BY <1>9, <1>10, <1>11, <2>1
<1>16. CASE HandlerReturns
    <2>1. PICK v : value' = v /\ (v = value \/ v = [value EXCEPT !.res.body = NoneOf(@)])
        BY <1>16 DEF HandlerReturns, Leave
    <2>2. v.kind = old.kind /\ v.by = old.by /\ v.file = old.file
        BY <1>4, <2>1 DEF IsValue
    <2>3. QED  BY <1>5, <2>1, <2>2
<1>17. CASE HandlerThrows
    <2>1. CASE value' = value
        BY <1>9, <2>1
    <2>2. CASE value' # value
        <3>1. PICK i, size, by, text : by = <<"error", i>> /\ text = Text(500, size)
                                       /\ value' = Response(by, text)
            BY <1>17, <2>2 DEF HandlerThrows, Leave
        <3>2. by[1] = "error"
            BY <3>1
        <3>3. QED  BY <1>7, <3>1, <3>2, TextIsResponse
    <2>3. QED  BY <2>1, <2>2
<1>18. QED  BY <1>12, <1>13, <1>14, <1>15, <1>16, <1>17

\* Every step keeps it.
LEMMA MountStep == IInv /\ RouterInv /\ FilesInv /\ MountInv /\ [Next]_vars => MountInv'
<1> SUFFICES ASSUME IInv, RouterInv, FilesInv, MountInv, [Next]_vars PROVE MountInv'
    OBVIOUS
<1>1. AppInv /\ IsValue(value) /\ ReqInv
    BY DEF IInv, RouterInv
<1>2. CASE \/ OpenStream \/ StreamEnds \/ Enter \/ NextReturns \/ Terminated \/ UNCHANGED vars
           \/ TryFiles
    BY <1>1, <1>2, QuietMounts
<1>3. CASE Handle \/ CallNext \/ HandOn \/ CallRoute \/ CallGetRoute \/ Revalidate
    BY <1>3, CallMounts
<1>4. CASE \/ Answer \/ Throw \/ AnswerPreflight \/ HandBack \/ NextThrows
           \/ HandlerReturns \/ HandlerThrows
    BY <1>1, <1>4, ReturnMounts
<1>5. CASE ServeFile \/ SearchThrows \/ NotFound
    BY <1>1, <1>5, FileMounts
<1>6. CASE SearchFile
    BY <1>1, <1>6, SearchMounts
<1>7. CASE EditFile
    BY <1>7, EditMounts
<1>8. QED  BY <1>2, <1>3, <1>4, <1>5, <1>6, <1>7 DEF Next

\* What is on disk at first is at the places of files.
LEMMA MountInit == Init => MountInv
<1> SUFFICES ASSUME Init PROVE MountInv
    OBVIOUS
<1>1. PICK l : l = log /\ l \in Disks
    BY DEF Init, FilesInit
<1>2. PICK S : l \in Seq(S)
    BY <1>1, FilesAssumption
<1>3. Kept(log, disk)
    BY FilesInitially DEF FilesInv
<1>4. OnDisk(disk, log)
    <2>1. ASSUME NEW p \in DOMAIN disk
          PROVE  /\ p = <<p[1], p[2]>> /\ IsPath(p[2]) /\ p[2] # <<>> /\ Empty \notin Range(p[2])
                 /\ log[disk[p]].size \in Nat
        <3>1. PICK v : v = disk[p] /\ v \in DOMAIN l /\ l[v].place = p
            BY <1>1, <1>2, <1>3 DEF Kept, OfPlace
        <3>2. /\ l[v].size \in Nat /\ l[v].place = <<l[v].place[1], l[v].place[2]>>
              /\ IsPath(l[v].place[2]) /\ l[v].place[2] # <<>> /\ Empty \notin Range(l[v].place[2])
            BY <1>1, <3>1, FilesAssumption
        <3>3. QED  BY <1>1, <3>1, <3>2
    <2>2. QED  BY <2>1 DEF OnDisk
<1>5. probe = Idle /\ value = Nothing /\ edits = 0
    BY DEF Init, FilesInit
<1>6. QED  BY <1>4, <1>5, NothingMounted DEF MountInv

-----------------------------------------------------------------------------
(* Which mount has a file, for who reads what was registered.                *)

\* The invariant, next to the others.
LEMMA MountInvariance == Spec => []MountInv
<1>1. QED  BY MountInit, MountStep, Invariance, RouterInvariance, FilesInvariance, PTL DEF Spec

\* A mount has a file for the path just when it serves it.
LEMMA HoldsIs ==
    ASSUME AppInv, IsPath(req.path), req.path # <<>>, Empty \notin Range(Front(req.path)),
           OnDisk(disk, log), NEW k \in 1 .. Len(app.mounts), NEW p
    PROVE  Holds(app.asked.mounts[k], p) <=> Serving(k) /\ p = PlaceOf(app.mounts[k], req.path)
<1>1. PICK w, q : w = app.asked.mounts[k] /\ q = req.path
    OBVIOUS
<1>2. IsMount(w) /\ app.mounts[k] = Mounted(w)
    BY <1>1, MountsTyped
<1>3. PICK f, m : /\ f = Unslashed(w.prefix) /\ m = Mounted(w)
                  /\ Front(m.prefix) = f /\ Len(m.prefix) = Len(f) + 1
                  /\ m.dir = w.dir /\ m.index = w.index /\ m.maxSize = w.maxSize
                  /\ \A S : w.prefix \in Seq(S) => f \in Seq(S)
    BY <1>2, MountedIs
<1>4. Serving(k) <=> Servable(m, q) /\ log[disk[PlaceOf(m, q)]].size <= m.maxSize
    BY <1>1, <1>2, <1>3 DEF Serving
<1>5. Asking(q, m.index) = Wanted(w)
    BY <1>1, <1>3 DEF Asking, Wanted
<1>6. ASSUME NEW S, Range(w.prefix) \subseteq S, Range(q) \subseteq S, m.index \in S
      PROVE  Placed(S, f, q, m)
    <2>1. w.prefix \in Seq(S) /\ q \in Seq(S)
        BY <1>1, <1>2, <1>6, PathIs, Wider DEF IsMount
    <2>2. Solid(Front(q))
        BY <1>1 DEF Solid, Range
    <2>3. q # <<>>
        BY <1>1
    <2>4. QED  BY <1>3, <1>6, <2>1, <2>2, <2>3 DEF Placed
<1>7. ASSUME Holds(w, p)
      PROVE  Servable(m, q) /\ log[disk[PlaceOf(m, q)]].size <= m.maxSize /\ p = PlaceOf(m, q)
    <2>1. /\ p \in DOMAIN disk /\ p \notin Outside /\ log[disk[p]].size <= m.maxSize
          /\ p[1] = m.dir /\ Range(p[2]) \cap Dotted = {} /\ f \o p[2] = Asking(q, m.index)
        BY <1>3, <1>5, <1>7 DEF Holds
    <2>2. PICK n : n = p[2] /\ p = <<m.dir, n>> /\ IsPath(n) /\ n # <<>> /\ Empty \notin Range(n)
        BY <2>1 DEF OnDisk
    <2>3. PICK S : S = Range(w.prefix) \cup Range(q) \cup Range(n) \cup {m.index}
        OBVIOUS
    <2>4. Placed(S, f, q, m)
        BY <1>6, <2>3
    <2>5. n \in Seq(S)
        <3>1. Range(n) \subseteq S
            BY <2>3
        <3>2. QED  BY <2>2, <3>1, PathIs, Wider
    <2>6. Solid(n)
        BY <2>2 DEF Solid, Range
    <2>7. Under(m, q) /\ (Last(q) = Empty => m.index # Empty) /\ Named(m, q) = n
        BY <2>1, <2>2, <2>4, <2>5, <2>6, NameFound
    <2>8. Head(n) # Empty
        <3>1. 1 \in DOMAIN n /\ Head(n) = n[1]
            BY <2>2, <2>5
        <3>2. QED  BY <2>6, <3>1 DEF Solid
    <2>9. NonEmpty(n) = n
        BY <2>5, <2>6, SolidSame
    <2>10. PlaceOf(m, q) = p
        BY <2>2, <2>7, <2>9 DEF PlaceOf
    <2>11. Servable(m, q)
        BY <2>1, <2>2, <2>7, <2>8, <2>10 DEF Servable
    <2>12. QED  BY <2>1, <2>10, <2>11
<1>8. ASSUME Servable(m, q), log[disk[PlaceOf(m, q)]].size <= m.maxSize, p = PlaceOf(m, q)
      PROVE  Holds(w, p)
    <2>1. /\ Under(m, q) /\ (Last(q) = Empty => m.index # Empty)
          /\ Range(Named(m, q)) \cap Dotted = {} /\ p \in DOMAIN disk \ Outside
        BY <1>8 DEF Servable
    <2>2. PICK S : S = Range(w.prefix) \cup Range(q) \cup {m.index}
        OBVIOUS
    <2>3. Placed(S, f, q, m)
        BY <1>6, <2>2
    <2>4. PICK n \in Seq(S) : /\ n = Named(m, q) /\ n # <<>> /\ Solid(n)
                              /\ f \o n = Asking(q, m.index)
        BY <2>1, <2>3, NameIs
    <2>5. NonEmpty(n) = n
        BY <2>4, SolidSame
    <2>6. p = <<m.dir, n>>
        BY <1>8, <2>4, <2>5 DEF PlaceOf
    <2>7. p[1] = m.dir /\ p[2] = n
        BY <2>6
    <2>8. QED  BY <1>3, <1>5, <1>8, <2>1, <2>4, <2>7 DEF Holds
<1>9. QED  BY <1>1, <1>2, <1>3, <1>4, <1>7, <1>8

\* As long as no file is saved or removed: whatever mounts there are, and however they
\* overlap, the file that is served is the one of the first that has it, and the
\* answer is 404 only if none has.
THEOREM FirstMountAlways == Spec => []FirstMountServes
<1>1. IInv /\ TypedInv /\ MountInv => FirstMountServes
    <2> SUFFICES ASSUME IInv, TypedInv, MountInv,
                        edits = 0, value.kind = "response", value.by[1] \in {"file", "notFound"},
                        req.method \in {"GET", "HEAD"}, Empty \notin Range(Front(req.path)),
                        NEW mounts, mounts = app.asked.mounts,
                        NEW holding,
                        holding = {k \in DOMAIN mounts : \E place \in DOMAIN disk : Holds(mounts[k], place)}
                 PROVE  IF holding = {} THEN value.by[1] = "notFound"
                        ELSE \E k \in holding : /\ \A j \in holding : k <= j
                                                /\ value.by[1] = "file"
                                                /\ Holds(mounts[k], value.file.place)
        BY DEF FirstMountServes
    <2>1. AppInv
        BY DEF IInv
    <2>2. IsPath(req.path) /\ req.path # <<>>
        BY RequestsAssumption DEF TypedInv, Asks
    <2>3. OnDisk(disk, log) /\ GivenBack(value)
        BY DEF MountInv
    <2>4. PICK n \in Nat : n = Len(app.mounts) /\ DOMAIN mounts = 1 .. n
        BY <2>1, MountsTyped
    <2>5. \A k \in 1 .. n : \A p :
             Holds(mounts[k], p) <=> Serving(k) /\ p = PlaceOf(app.mounts[k], req.path)
        BY <2>1, <2>2, <2>3, <2>4, HoldsIs
    <2>6. \A k \in 1 .. n : Serving(k) => PlaceOf(app.mounts[k], req.path) \in DOMAIN disk
        BY DEF Serving, Servable
    <2>7. \A k : k \in holding <=> k \in 1 .. n /\ Serving(k)
        BY <2>4, <2>5, <2>6
    <2>8. CASE value.by[1] = "notFound"
        <3>1. NoneServes
            BY <2>3, <2>8 DEF GivenBack
        <3>2. holding = {}
            BY <2>4, <2>7, <3>1 DEF NoneServes
        <3>3. QED  BY <2>8, <3>2
    <2>9. CASE value.by[1] = "file"
        <3>1. FirstServed(value.file.place)
            BY <2>3, <2>9 DEF GivenBack
        <3>2. PICK k : /\ NoneBefore(k) /\ Serving(k)
                       /\ value.file.place = PlaceOf(app.mounts[k], req.path)
            BY <3>1 DEF FirstServed
        <3>3. k \in 1 .. n /\ \A j \in 1 .. k - 1 : ~Serving(j)
            BY <2>4, <3>2 DEF NoneBefore
        <3>4. k \in holding /\ Holds(mounts[k], value.file.place)
            BY <2>5, <2>7, <3>2, <3>3
        <3>5. ASSUME NEW j \in holding PROVE k <= j
            <4>1. j \in 1 .. n /\ Serving(j)
                BY <2>7
            <4>2. j \notin 1 .. k - 1
                BY <3>3, <4>1
            <4>3. QED  BY <3>3, <4>1, <4>2
        <3>6. QED  BY <2>9, <3>4, <3>5
    <2>10. QED  BY <2>8, <2>9
<1>2. QED  BY <1>1, Invariance, TypedInvariance, MountInvariance, PTL
=============================================================================
