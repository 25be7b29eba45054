------------------------------ MODULE ImageFiles -----------------------------
(***************************************************************************)
(* Files of a container image: tar archives (internal/sandbox/tarfs), each *)
(* one possibly mounted below a directory (subfs.go), merged as the layers *)
(* of an image (internal/sandbox/ocifs), and the listing of their          *)
(* directories (wasiDir of wasi.go).  Nothing here waits for the kernel,   *)
(* and the guest makes one call at a time: an operation is one step.       *)
(*                                                                         *)
(* A file of an archive is the sequence of the elements of its path.  The  *)
(* file ".wh.x" of a directory is the whiteout of x in it (wh), the file   *)
(* ".wh..wh..opq" makes it opaque (opq).                                   *)
(***************************************************************************)
EXTENDS FilePath, Integers, FiniteSets, FiniteSetsExt, Functions, TLC

CONSTANTS Images,           \* the images: archives and where they are mounted (layers,
                            \* lowest first), the size of the buffer they are listed through
          Asked,            \* the files the guest asks for
          MaxOpens,         \* bound on the files that are opened
          MaxReads,         \* bound on the calls of FDReadDir
          MaxSteps,         \* bound on both
          ReadSizes,        \* the entries and the space of a call of FDReadDir
          BufferSize        \* size of the buffer of wasiDir; a dirent takes 2

ASSUME ImageLimits == {MaxOpens, MaxReads, MaxSteps, BufferSize} \subseteq Nat
ASSUME BufferAssumption == BufferSize >= 2   \* "must be greater than sizeOfDirent"
ASSUME LayerBufferAssumption == \A image \in Images : image.buffer \in Nat /\ image.buffer >= 5

VARIABLES
    layers,   \* the layers of the image, the upper ones first
    space,    \* the size of the buffer that they are listed through
    open,     \* files of the layers: where they are and how far they were listed
    stacks,   \* fileLayers
    ocifiles, \* the files of ocifs that the guest has
    dirs,     \* for each of them its wasiDir, or None
    listed,   \* what FDReadDir has returned for each: cookies and names, if it
              \* ended, and if the layers were at their start when they were read
    reads     \* number of calls of FDReadDir

ivars == <<layers, space, open, stacks, ocifiles, dirs, listed, reads>>

-----------------------------------------------------------------------------
(* tarfs.  A header has a name, a type and a target.                       *)

absPath(name) == Lexical(<<Slash>> \o name)

Entry(kind, target) == [kind |-> kind, target |-> target]
IsDir(l, p) == p \in DOMAIN l.ents /\ l.ents[p].kind = "dir"

(* makePath: with no directory for the entry it calls itself for ever. *)
makePath(l, name) ==
    CASE Front(name) \notin DOMAIN l.ents -> "hangs"
      [] ~IsDir(l, Front(name)) -> "EPERM"
      [] OTHER -> ""

AddHeader(l, h) ==
    LET name == absPath(h.name)
    IN  CASE l.err # "" \/ name = <<>> -> l
          [] h.type = "hard" ->
                 IF name \in DOMAIN l.links THEN [l EXCEPT !.err = "duplicate"]
                 ELSE [l EXCEPT !.links = (name :> absPath(h.target)) @@ @]
          [] h.type = "opaque" -> [l EXCEPT !.opq = @ \cup {name}, !.err = IF IsDir(l, name) THEN "" ELSE "hangs"]
          [] h.type = "whiteout" -> [l EXCEPT !.wh = @ \cup {name}, !.err = makePath(l, name)]
          [] name \in DOMAIN l.ents -> [l EXCEPT !.err = "duplicate"]
          [] OTHER -> [l EXCEPT !.ents = (name :> Entry(h.type, h.target)) @@ @,
                                !.err = makePath(l, name)]

tarfsOpen(headers) ==
    LET l == FoldLeft(AddHeader,
                      [ents |-> (<<>> :> Entry("dir", <<>>)), wh |-> {}, opq |-> {},
                       links |-> <<>>, err |-> "", sub |-> 0], headers)
        invalid == {x \in DOMAIN l.links :
                       \/ l.links[x] \notin DOMAIN l.ents
                       \/ l.ents[l.links[x]].kind \notin {"file", "link"}
                       \/ x \in DOMAIN l.ents \/ makePath(l, x) # ""}
    IN  [l EXCEPT !.ents = [x \in DOMAIN l.links \ invalid |-> l.ents[l.links[x]]] @@ @,
                  !.err = IF @ = "" /\ invalid # {} THEN "hard link" ELSE @]

find(l, d, name) ==
    CASE name = "." -> d
      [] name = ".." -> IF d = <<>> THEN d ELSE Front(d)
      [] OTHER -> IF Append(d, name) \in DOMAIN l.ents THEN Append(d, name) ELSE None

(* resolve, for an archive that is mounted alone: at most MaxFollowSymlink *)
(* elements and links; links are joined to the rest of the path, which     *)
(* removes elements before "..".                                           *)
resolve(l, cwd0, path, directory, follow) ==
    LET error(err) == [err |-> err, at |-> <<>>]
        found(p) == [err |-> "", at |-> p]
        go[x \in [loop : Nat, cwd : DOMAIN l.ents, name : Seq(STRING)]] ==
            LET w == Walk(x.name)
                f == find(l, x.cwd, w.elem)
                at(cwd, name) == go[[loop |-> x.loop + 1, cwd |-> cwd, name |-> name]]
            IN  CASE x.loop = MaxFollowSymlink -> error("ELOOP")
                  [] x.name = <<>> -> found(x.cwd)
                  [] w.elem = Slash -> at(<<>>, w.name)
                  [] f = None -> error("ENOENT")
                  [] w.name # <<>> ->
                         CASE l.ents[f].kind = "link" -> at(x.cwd, PathJoin(l.ents[f].target, w.name))
                           [] l.ents[f].kind = "dir" -> at(f, w.name)
                           [] OTHER -> error("ENOTDIR")
                  [] directory /\ ~IsDir(l, f) -> error("ENOTDIR")
                  [] follow /\ l.ents[f].kind = "link" -> at(x.cwd, l.ents[f].target)
                  [] OTHER -> found(f)
    IN  go[[loop |-> 0, cwd |-> cwd0, name |-> path]]

(* A directory of the path that an archive is mounted at (subDir), which   *)
(* has one name and does not look at the flags and the mode of Open.       *)
IsSubDir(l, d) == Len(d) < l.sub
openSub(l, d, name) == IF Append(d, name) \in DOMAIN l.ents THEN "" ELSE "ENOENT"

(* Open of a name in a directory of a layer, without following links. *)
openLeaf(l, d, name, directory, mode) ==
    LET p == Append(d, name)
    IN  CASE IsSubDir(l, d) -> openSub(l, d, name)
          [] ~IsDir(l, d) -> "ENOTDIR"
          [] mode # 0 -> "EINVAL"
          [] p \notin DOMAIN l.ents -> "ENOENT"
          [] directory /\ ~IsDir(l, p) -> "ENOTDIR"
          [] l.ents[p].kind = "link" -> "ELOOP"
          [] l.ents[p].kind = "other" -> "EPERM"
          [] OTHER -> ""

(* newSubFS: the archive below the directories of the path dir. *)
SubFS(l, dir) ==
    LET at(p) == dir \o p
    IN  [l EXCEPT !.ents = [p \in {at(q) : q \in DOMAIN @} |-> @[SubSeq(p, Len(dir) + 1, Len(p))]]
                           @@ [p \in {SubSeq(dir, 1, i) : i \in 0 .. Len(dir) - 1} |-> Entry("dir", <<>>)],
                  !.wh = {at(p) : p \in @}, !.opq = {at(p) : p \in @}, !.sub = Len(dir)]

(* ReadDirent of a directory: "." and "..", then the names in order, that  *)
(* of whiteouts begin with a dot.                                          *)
Dirents(l, d) ==
    LET names(set) == SetToSeq({Last(p) : p \in {q \in set : q # <<>> /\ Front(q) = d}})
        special(name) == [special |-> TRUE, name |-> name]
        normal(name) == [special |-> FALSE, name |-> name]
        map(op(_), seq) == [i \in 1 .. Len(seq) |-> op(seq[i])]
    IN  map(normal, <<".", "..">>)
        \o (IF d \in l.opq THEN <<special("")>> ELSE <<>>)
        \o map(special, names(l.wh)) \o map(normal, names(DOMAIN l.ents))

(* The entries that a call of ReadDirent writes when index of them were     *)
(* written before: the last one may be cut (whole has the others).  A      *)
(* directory of an archive goes on after the cut one, one of the path that *)
(* it is mounted at writes again the one that has filled the buffer.       *)
ReadDirent(l, d, index) ==
    LET ents == Dirents(l, d)
        n == Min({(space + 1) \div 2, Len(ents) - index})
        repeated == IsSubDir(l, d) /\ 2 * n >= space
    IN  [n |-> n,
         next |-> index + (IF repeated THEN n - 1 ELSE n),
         whole |-> SubSeq(ents, index + 1, index + (IF 2 * n > space THEN n - 1 ELSE n))]

(* Calls on a file of an archive that do not take a name. *)
ReadOnlyError(l, p, op) ==
    CASE op = "sync" -> ""
      [] op = "setflags" -> "EINVAL"
      [] op = "read" -> IF IsDir(l, p) THEN "EISDIR" ELSE ""
      [] op = "write" -> "EBADF"

(* The same on a layer that may be mounted below a directory. *)
FileError(l, p, op) ==
    CASE ~IsSubDir(l, p) -> ReadOnlyError(l, p, op)
      [] op = "sync" -> ""
      [] op = "setflags" -> "EPERM"
      [] OTHER -> "EISDIR"

(* Calls that would change a directory of an archive. *)
DirError(l, p, op) ==
    CASE op = "chtimes" -> "EPERM"
      [] IsDir(l, p) -> "EROFS"
      [] OTHER -> "ENOTDIR"

(* The same on such a layer; l2 is that of the second path of rename and   *)
(* link.                                                                   *)
SubError(l, p, op, l2) ==
    CASE op \in {"rename", "link"} /\ l.sub > 0 /\ l2.sub = 0 -> "EXDEV"
      [] IsSubDir(l, p) -> "EBUSY"
      [] OTHER -> DirError(l, p, op)

-----------------------------------------------------------------------------
(* ocifs.  s holds the open files of the layers and the fileLayers; a file *)
(* of ocifs is a reference on fileLayers.                                  *)

ist == [open |-> open, stacks |-> stacks]
Of(h) == [l |-> layers[h.layer], d |-> h.path]

refLayers(s, k) == [s EXCEPT !.stacks[k].refc = @ + 1]

(* The last reference closes the files and drops the one on the parent. *)
unrefLayers(s, k) ==
    LET up[i \in Nat] == IF i = 0 THEN k ELSE IF up[i - 1] = 0 THEN 0 ELSE s.stacks[up[i - 1]].parent
        n == CHOOSE i \in 0 .. Len(s.stacks) : up[i] # 0 /\ up[i + 1] = 0
        dead == {i \in 0 .. n : \A j \in 0 .. i : s.stacks[up[j]].refc = 1}
        dropped == {up[i] : i \in {0} \cup {j \in 1 .. n : j - 1 \in dead}}
        closed == UNION {ToSet(s.stacks[up[i]].files) : i \in dead}
    IN  [open |-> Each(s.open, LAMBDA h, x : [x EXCEPT !.closed = @ \/ h \in closed]),
         stacks |-> Each(s.stacks, LAMBDA j, x : [x EXCEPT !.refc = IF j \in dropped THEN @ - 1 ELSE @])]

rootOf(s, k) ==
    LET up[i \in Nat] == IF i = 0 \/ s.stacks[up[i - 1]].parent = 0
                         THEN IF i = 0 THEN k ELSE up[i - 1] ELSE s.stacks[up[i - 1]].parent
    IN  up[Len(s.stacks)]

parentOf(s, k) == IF s.stacks[k].parent = 0 THEN k ELSE s.stacks[k].parent

(* Mutant: the parent is not referenced. *)
newLayersAlone(s, parent, hs) ==
    [open |-> s.open \o hs,
     stacks |-> Append(s.stacks, [refc |-> 1, parent |-> parent,
                                  files |-> [i \in 1 .. Len(hs) |-> Len(s.open) + i]])]

newLayers(s, parent, hs) ==
    LET s2 == IF parent = 0 THEN s ELSE refLayers(s, parent)
    IN  [open |-> s2.open \o hs,
         stacks |-> Append(s2.stacks, [refc |-> 1, parent |-> parent,
                                       files |-> [i \in 1 .. Len(hs) |-> Len(s.open) + i]])]

Opening(layer, path) == [layer |-> layer, path |-> path, index |-> 0, closed |-> FALSE]

(* Mutant: the whiteouts of opaque directories only. *)
hasWhiteoutOpaque(l, d, name) == d \in l.opq

hasWhiteout(l, d, name) == Append(d, name) \in l.wh \/ d \in l.opq

(* openFile: the directories of the layers are merged until something      *)
(* masks the layers below.                                                 *)
Merge(a, h, name, directory, mode) ==
    LET l == layers[h.layer]
        err == openLeaf(l, h.path, name, directory, mode)
        p == Append(h.path, name)
        stop == hasWhiteout(l, h.path, name)
    IN  CASE a.stop -> a
          [] err = "" /\ ~IsDir(l, p) ->
                 [a EXCEPT !.stop = TRUE, !.hs = IF @ = <<>> THEN <<Opening(h.layer, p)>> ELSE @]
          [] err = "" -> [a EXCEPT !.stop = stop, !.hs = Append(@, Opening(h.layer, p))]
          [] err \in {"ELOOP", "ENOTDIR"} /\ a.hs # <<>> -> [a EXCEPT !.stop = TRUE]
          [] err # "ENOENT" -> [a EXCEPT !.stop = TRUE, !.err = err]
          [] OTHER -> [a EXCEPT !.stop = stop]

openFile(s, k, name, directory, mode) ==
    LET Made(a) == IF a.err # "" THEN [err |-> a.err]
                   ELSE IF a.hs = <<>> THEN [err |-> "ENOENT"]
                   ELSE [err |-> "", s |-> newLayers(s, k, a.hs)]
    IN  Made(FoldLeft(LAMBDA b, i : Merge(b, s.open[i], name, directory, mode),
                      [stop |-> FALSE, err |-> "", hs |-> <<>>], s.stacks[k].files))

(* "." and ".." are unknown to a subDir. *)
statSub(l, d, name) ==
    IF name \in {".", ".."} \/ Append(d, name) \notin DOMAIN l.ents THEN None ELSE Append(d, name)

(* Stat and Readlink: the first layer that has the name, unless a layer    *)
(* above hides it.                                                         *)
TopEntry(s, k, name) ==
    LET hs == s.stacks[k].files
        named(i) == LET o == Of(s.open[hs[i]])
                    IN  CASE name = "" -> o.d
                          [] IsSubDir(o.l, o.d) -> statSub(o.l, o.d, name)
                          [] OTHER -> IF IsDir(o.l, o.d) THEN find(o.l, o.d, name) ELSE None
        stops(i) == hasWhiteout(Of(s.open[hs[i]]).l, s.open[hs[i]].path, name)
        has == {i \in 1 .. Len(hs) : named(i) # None /\ \A j \in 1 .. i - 1 : ~stops(j)}
    IN  IF ~IsDir(Of(s.open[hs[1]]).l, s.open[hs[1]].path) /\ name # "" THEN [err |-> "ENOTDIR"]
        ELSE IF has = {} THEN [err |-> "ENOENT"]
        ELSE LET i == Min(has)
                 h == s.open[hs[i]]
             IN  [err |-> "", layer |-> h.layer, path |-> named(i), entry |-> layers[h.layer].ents[named(i)]]

-----------------------------------------------------------------------------
(* ResolvePath on ocifs: r has what is asked (q), the fileLayers of the    *)
(* current directory (at, of which own says if it has to be closed), the   *)
(* path left (name) and the number of links followed (depth).              *)

Dropped(s, r) == IF r.own THEN unrefLayers(s, r.at) ELSE s

Answer(s, r, err, k, where) ==
    [walking |-> FALSE, s |-> Dropped(s, r), err |-> err, k |-> k, where |-> where]

(* The loop of ResolvePath goes on. *)
Walking(s, r) == [walking |-> TRUE, s |-> s, r |-> r]

(* setCurrentDirectory, with the path that is left. *)
MoveLayers(s, r, k, name) == Walking(Dropped(s, r), [r EXCEPT !.at = k, !.own = TRUE, !.name = name])

(* followSymlink, with the answer e of readlink. *)
FollowEntry(s, r, e) ==
    CASE e.err # "" -> Answer(s, r, e.err, 0, <<>>)
      [] e.entry.kind # "link" -> Answer(s, r, "ENOTDIR", 0, <<>>)
      [] r.depth = MaxFollowSymlink -> Answer(s, r, "ELOOP", 0, <<>>)
      [] OTHER -> Walking(s, [r EXCEPT !.depth = @ + 1, !.name = FollowedName(e.entry.target, @)])

FollowLink(s, r, elem) == FollowEntry(s, r, TopEntry(s, r.at, elem))

Whole(s, k) == LET h == s.open[s.stacks[k].files[1]] IN <<h.layer, h.path>>

(* openSelf, openParent and openFile of the last element. *)
OpenAgain(s, r, k) == Answer(refLayers(s, k), r, "", k, Whole(s, k))

OpenLast(s, r, elem, o) ==
    CASE o.err = "ELOOP" /\ r.q.follow -> FollowLink(s, r, elem)
      [] o.err # "" -> Answer(s, r, o.err, 0, <<>>)
      [] OTHER -> Answer(o.s, r, "", Len(o.s.stacks), Whole(o.s, Len(o.s.stacks)))

LastOpen(s, r, elem) ==
    CASE elem = "." -> OpenAgain(s, r, r.at)
      [] elem = ".." -> OpenAgain(s, r, parentOf(s, r.at))
      [] OTHER -> OpenLast(s, r, elem,
                           openFile(s, r.at, elem, r.q.directory \/ HasTrailingSlash(r.q.path), r.q.mode))

LastStat(s, r, e) ==
    CASE e.err # "" -> Answer(s, r, e.err, 0, <<>>)
      [] e.entry.kind = "link" /\ r.q.follow -> FollowEntry(s, r, e)
      [] OTHER -> Answer(s, r, "", 0, <<e.layer, e.path>>)

(* Calls that change a tree go to the upper layer of the directory. *)
ChangeUpper(s, r) ==
    LET upper(k) == s.open[s.stacks[k].files[1]]
        layer(k) == layers[upper(k).layer]
        from == IF r.first = 0 THEN r.at ELSE r.first
    IN  Answer(s, r, SubError(layer(from), upper(from).path, r.q.op, layer(r.at)), 0, <<>>)

(* ELOOP from the second path of rename and link, answered b, is taken for *)
(* a link at the end of the first one, which is tried for ever if it is    *)
(* none; e is what is there.                                               *)
AfterSecond(r, e, b) ==
    IF b.err # "ELOOP" \/ ~(r.q.op = "rename" \/ r.q.follow) \/ r.q.path = <<>>
    THEN Answer(b.s, r, b.err, 0, <<>>)
    ELSE IF e.err = "" /\ e.entry.kind # "link" THEN Answer(b.s, r, "hangs", 0, <<>>)
    ELSE FollowEntry(b.s, r, e)

RECURSIVE ResolveLayers(_)

LastChange(s, r, elem) ==
    IF r.first # 0 \/ r.q.op \notin {"rename", "link"} THEN ChangeUpper(s, r)
    ELSE AfterSecond(r, TopEntry(s, r.at, elem),
                     ResolveLayers(Walking(s, [r EXCEPT !.at = r.at2, !.own = FALSE, !.name = r.q.path2,
                                                        !.depth = 0, !.first = r.at])))

LastElement(s, r, elem) ==
    CASE r.q.op = "open" -> LastOpen(s, r, elem)
      [] r.q.op = "stat" -> LastStat(s, r, TopEntry(s, r.at, elem))
      [] OTHER -> LastChange(s, r, elem)

(* An element that is not the last one, opened as o. *)
WalkInto(s, r, elem, o) ==
    CASE o.err = "ENOTDIR" -> FollowLink(s, r, elem)
      [] o.err # "" -> Answer(s, r, o.err, 0, <<>>)
      [] OTHER -> MoveLayers(o.s, r, Len(o.s.stacks), r.name)

(* One turn of the loop; a path that is empty to begin with is not walked. *)
WalkLayers(s, r) ==
    LET w == Walk(SkipSelf(r.name))
        root == rootOf(s, r.at)
        up == parentOf(s, r.at)
        rest == TrimLeadingSlash(r.name)
    IN  CASE r.name = <<>> -> LastElement(s, r, "")
          [] IsAbs(r.name) -> MoveLayers(refLayers(s, root), r, root, IF rest = <<>> THEN <<".">> ELSE rest)
          [] w.name = <<>> -> LastElement(s, [r EXCEPT !.name = <<>>], w.elem)
          [] w.elem = ".." -> MoveLayers(refLayers(s, up), r, up, w.name)
          [] OTHER -> WalkInto(s, [r EXCEPT !.name = w.name], w.elem, openFile(s, r.at, w.elem, TRUE, 0))

ResolveLayers(x) == IF x.walking THEN ResolveLayers(WalkLayers(x.s, x.r)) ELSE x

FileCalls == {"read", "write", "setflags", "sync"}

(* The methods of a file of ocifs; k2 is the second one, for rename and    *)
(* link.                                                                   *)
Ask(s, k, k2, q) ==
    LET r == [q |-> q, at |-> k, at2 |-> k2, first |-> 0, own |-> FALSE, name |-> q.path, depth |-> 0]
        root == rootOf(s, k)
        upper == Of(s.open[s.stacks[k].files[1]])
    IN  CASE q.op = "open" /\ q.path = <<>> -> Answer(s, r, "EINVAL", 0, <<>>)
          [] q.op = "open" /\ IsRoot(q.path) -> Answer(refLayers(s, root), r, "", root, Whole(s, root))
          [] q.op \in FileCalls -> Answer(s, r, FileError(upper.l, upper.d, q.op), 0, <<>>)
          [] OTHER -> ResolveLayers(Walking(s, r))

-----------------------------------------------------------------------------
(* dirbuf of ocifs.                                                        *)

(* Mutant: the names of upper layers are not remembered. *)
AddDirentAgain(a, e) ==
    CASE e.special /\ e.name = "" -> [a EXCEPT !.opaque = TRUE]
      [] e.special -> [a EXCEPT !.names = @ \cup {e.name}]
      [] e.name \in a.names -> a
      [] OTHER -> [a EXCEPT !.entries = Append(@, e.name)]

AddDirent(a, e) ==
    CASE e.special /\ e.name = "" -> [a EXCEPT !.opaque = TRUE]
      [] e.special -> [a EXCEPT !.names = @ \cup {e.name}]
      [] e.name \in a.names -> a
      [] OTHER -> [a EXCEPT !.names = @ \cup {e.name}, !.entries = Append(@, e.name)]

(* init: what a layer has not listed yet is read, a buffer at a time, down *)
(* to a layer that is opaque.                                              *)
RECURSIVE ReadLayer(_, _)
ReadLayer(a, i) ==
    LET h == a.open[i]
        piece == ReadDirent(layers[h.layer], h.path, h.index)
    IN  IF piece.n = 0 THEN a
        ELSE ReadLayer([FoldLeft(AddDirent, a, piece.whole) EXCEPT !.open[i].index = piece.next], i)

InitDir(s, k) ==
    LET none == [open |-> s.open, names |-> {}, entries |-> <<>>, opaque |-> FALSE]
        upper == s.open[s.stacks[k].files[1]]
    IN  IF IsDir(layers[upper.layer], upper.path)
        THEN FoldLeft(LAMBDA a, i : IF a.opaque THEN a ELSE ReadLayer(a, i), none, s.stacks[k].files)
        ELSE none

(* readDirent: as many entries as there is space for, and the beginning of *)
(* the next one, which is written again by the next call.                  *)
readDirent(b) ==
    LET left == Len(b.entries) - b.index
        n == IF left <= BufferSize \div 2 THEN left ELSE BufferSize \div 2
    IN  [buf |-> [b EXCEPT !.index = @ + n],
         names |-> SubSeq(b.entries, b.index + 1, b.index + n),
         length |-> IF n < left THEN BufferSize ELSE 2 * n]

-----------------------------------------------------------------------------
(* wasiDir: the names in its buffer, the offset and the length of what is  *)
(* in it, and the cookie of the next entry.  x is the state of a call of   *)
(* FDReadDir, with the entries returned (out) and the space left (room).   *)

newWasiDir == [names |-> <<>>, offset |-> 0, length |-> 0, cookie |-> 0]

Rewind(x, cookie) ==
    IF cookie < x.d.cookie
    THEN [x EXCEPT !.d = newWasiDir, !.b.index = 0]
    ELSE x

RECURSIVE ReadEntries(_, _, _)
ReadEntries(x, cookie, max) ==
    LET d == x.d
        more == readDirent(x.b)
        wanted == d.cookie >= cookie
        name == d.names[d.offset \div 2 + 1]
        y == IF wanted THEN [x EXCEPT !.out = Append(@, <<d.cookie, name>>), !.room = @ - 1] ELSE x
    IN  CASE Len(x.out) = max -> x
          [] d.length - d.offset < 1 ->
                 IF x.out # <<>> THEN x
                 ELSE IF more.length = 0 THEN [x EXCEPT !.ended = TRUE]
                 ELSE ReadEntries([x EXCEPT !.b = more.buf, !.d.names = more.names,
                                            !.d.offset = 0, !.d.length = more.length], cookie, max)
          [] d.offset + 2 > d.length -> ReadEntries([x EXCEPT !.d.offset = d.length], cookie, max)
          [] wanted /\ y.room <= 0 -> y
          [] OTHER -> ReadEntries([y EXCEPT !.d.offset = @ + 2, !.d.cookie = @ + 1], cookie, max)

-----------------------------------------------------------------------------
(* What the image is, by definition: a file of a layer is hidden by the    *)
(* layers above that have a whiteout for it or for a directory it is in,   *)
(* that make such a directory opaque, or that have something else there    *)
(* (directories are merged).                                               *)
Hidden(ls, i, p) ==
    \E j \in 1 .. i - 1 :
        \/ \E n \in 1 .. Len(p) : SubSeq(p, 1, n) \in ls[j].wh
        \/ \E n \in 0 .. Len(p) - 1 : SubSeq(p, 1, n) \in ls[j].opq
        \/ \E n \in 1 .. Len(p) :
               LET q == SubSeq(p, 1, n)
               IN  q \in DOMAIN ls[j].ents /\ ~(IsDir(ls[j], q) /\ IsDir(ls[i], q))

Homes(ls, p) == {i \in 1 .. Len(ls) : p \in DOMAIN ls[i].ents /\ ~Hidden(ls, i, p)}
Merged(ls) == {p \in UNION {DOMAIN ls[i].ents : i \in 1 .. Len(ls)} : Homes(ls, p) # {}}
Home(ls, p) == Min(Homes(ls, p))

ImageAnswer(ls, q, from) ==
    LET merged == [x \in Merged(ls) |-> ls[Home(ls, x)].ents[x]]
        directory == q.op = "open" /\ (q.directory \/ HasTrailingSlash(q.path))
        w == Lookup(DOMAIN merged,
                    LAMBDA x, e : {Append(x, e)} \cap DOMAIN merged,
                    LAMBDA x : merged[x].kind, LAMBDA x : merged[x].target,
                    [i \in 1 .. Len(from) + 1 |-> SubSeq(from, 1, i - 1)],
                    q.path, q.follow /\ ~directory)
        err(e) == [err |-> e, where |-> <<>>]
        p == w.at[1]
    IN  CASE w.err # "" -> err(w.err)
          [] Len(w.at) = 2 -> err("ENOENT")
          [] directory /\ merged[p].kind # "dir" -> err("ENOTDIR")
          [] q.op = "open" /\ merged[p].kind = "link" -> err("ELOOP")
          [] q.op = "open" /\ merged[p].kind = "other" -> err("EPERM")
          [] OTHER -> [err |-> "", where |-> <<Home(ls, p), p>>]

(* The same of one archive that is mounted alone. *)
TarAnswer(l, q) ==
    LET w == resolve(l, <<>>, q.path, q.op = "open" /\ (q.directory \/ HasTrailingSlash(q.path)), q.follow)
        kind == l.ents[w.at].kind
    IN  CASE w.err # "" -> [err |-> w.err, where |-> <<>>]
          [] q.op = "open" /\ kind = "link" -> [err |-> "ELOOP", where |-> <<>>]
          [] q.op = "open" /\ kind = "other" -> [err |-> "EPERM", where |-> <<>>]
          [] OTHER -> [err |-> "", where |-> <<1, w.at>>]

-----------------------------------------------------------------------------
(* The actions.                                                            *)

unlisted == [pairs |-> {}, ended |-> FALSE, fresh |-> FALSE]

(* New, with the archives that can be opened, and the root given to the    *)
(* guest.                                                                  *)
IInit ==
    /\ \E image \in Images :
           LET tars == [i \in DOMAIN image.layers |-> tarfsOpen(image.layers[i].headers)]
           IN  /\ \A i \in DOMAIN tars : tars[i].err = ""
               /\ layers = Reverse([i \in DOMAIN tars |-> SubFS(tars[i], image.layers[i].dir)])
               /\ space = image.buffer
    /\ open = [i \in 1 .. Len(layers) |-> Opening(i, <<>>)]
    /\ stacks = <<[refc |-> 1, parent |-> 0, files |-> [i \in 1 .. Len(layers) |-> i]]>>
    /\ ocifiles = <<[k |-> 1, buf |-> None]>>
    /\ dirs = <<None>>
    /\ listed = <<unlisted>>
    /\ reads = 0

Closed(f) == ocifiles[f].k = 0

(* Open, on a file of the image. *)
OpenFile(f, q) ==
    /\ ~Closed(f)
    /\ \E a \in {Ask(ist, ocifiles[f].k, 0, q)} :
           /\ a.err = ""
           /\ open' = a.s.open /\ stacks' = a.s.stacks
           /\ ocifiles' = Append(ocifiles, [k |-> a.k, buf |-> None])
    /\ dirs' = Append(dirs, None)
    /\ listed' = Append(listed, unlisted)
    /\ UNCHANGED <<layers, space, reads>>

CloseFile(f) ==
    /\ ~Closed(f) /\ f # 1
    /\ \E s \in {unrefLayers(ist, ocifiles[f].k)} : open' = s.open /\ stacks' = s.stacks
    /\ ocifiles' = [ocifiles EXCEPT ![f] = [k |-> 0, buf |-> None]]
    /\ dirs' = [dirs EXCEPT ![f] = None]
    /\ UNCHANGED <<layers, space, listed, reads>>

(* Seek: the merged entries are read again if there are some, else those   *)
(* of the upper layer only.                                                *)
SeekDir(f) ==
    IF ocifiles[f].buf = None
    THEN open' = [open EXCEPT ![stacks[ocifiles[f].k].files[1]].index = 0] /\ UNCHANGED ocifiles
    ELSE ocifiles' = [ocifiles EXCEPT ![f].buf.index = 0] /\ UNCHANGED open

(* FDOpenDir, which rewinds the directory. *)
FDOpenDir(f) ==
    /\ ~Closed(f) /\ dirs[f] = None
    /\ SeekDir(f)
    /\ dirs' = [dirs EXCEPT ![f] = newWasiDir]
    /\ listed' = [listed EXCEPT ![f].ended = FALSE]
    /\ UNCHANGED <<layers, space, stacks, reads>>

FDCloseDir(f) ==
    /\ dirs[f] # None
    /\ dirs' = [dirs EXCEPT ![f] = None]
    /\ UNCHANGED <<layers, space, open, stacks, ocifiles, listed, reads>>

(* The first call of ReadDirent reads all the layers. *)
FDReadDir(f, cookie, max, room) ==
    /\ dirs[f] # None
    /\ cookie \in 0 .. Cardinality(listed[f].pairs)
    /\ \E made \in {IF ocifiles[f].buf # None THEN [open |-> open, b |-> ocifiles[f].buf]
                     ELSE LET all == InitDir(ist, ocifiles[f].k)
                          IN  [open |-> all.open, b |-> [index |-> 0, entries |-> all.entries]]} :
       \E x \in {ReadEntries(Rewind([d |-> dirs[f], b |-> made.b, out |-> <<>>, room |-> room,
                                     ended |-> FALSE], cookie), cookie, max)} :
           /\ open' = made.open
           /\ ocifiles' = [ocifiles EXCEPT ![f].buf = x.b]
           /\ dirs' = [dirs EXCEPT ![f] = x.d]
           /\ listed' = [listed EXCEPT
                  ![f] = [pairs |-> @.pairs \cup ToSet(x.out), ended |-> @.ended \/ x.ended,
                          fresh |-> IF ocifiles[f].buf # None THEN @.fresh
                                    ELSE \A i \in ToSet(stacks[ocifiles[f].k].files) : open[i].index = 0]]
    /\ reads' = reads + 1
    /\ UNCHANGED <<layers, space, stacks>>

INext ==
    \/ /\ Len(ocifiles) < MaxOpens /\ Len(ocifiles) + reads < MaxSteps
       /\ \E f \in 1 .. Len(ocifiles), q \in {x \in Asked : x.op = "open"} : OpenFile(f, q)
    \/ \E f \in 1 .. Len(ocifiles) : CloseFile(f) \/ FDOpenDir(f) \/ FDCloseDir(f)
    \/ /\ reads < MaxReads /\ Len(ocifiles) + reads < MaxSteps
       /\ \E f \in 1 .. Len(ocifiles), size \in ReadSizes :
              \E cookie \in 0 .. Cardinality(listed[f].pairs) : FDReadDir(f, cookie, size[1], size[2])

-----------------------------------------------------------------------------
(* A call that tarfs refuses for its mode is not compared, and a last "."  *)
(* or ".." of Stat is answered by the upper layer.                         *)
Agreeing(q) ==
    /\ q.mode = 0 /\ q.path # <<>>
    /\ q.op = "open" \/ (q.op = "stat" /\ Last(q.path) \notin {".", ".."})

(* Opening a file or asking about it, from any file that is open, gives    *)
(* what is at that place of the image that the layers make when they are   *)
(* applied in order, or the same error; so does an archive that is mounted *)
(* alone.  (The listings do not touch what this is about: it is evaluated  *)
(* before them.)                                                           *)
MergedView ==
    reads = 0 => \A q \in {x \in Asked : Agreeing(x)} :
        /\ \A f \in {x \in 1 .. Len(ocifiles) : ~Closed(x)} :
               LET a == Ask(ist, ocifiles[f].k, 0, q)
                   from == open[stacks[ocifiles[f].k].files[1]].path
               IN  [err |-> a.err, where |-> a.where] = ImageAnswer(layers, q, from)
        /\ \A l \in {x \in ToSet(layers) : x.sub = 0} : Len(ocifiles) = 1 =>
               TarAnswer(l, q) = ImageAnswer(<<l>>, q, <<>>)

(* The entries of a directory of an archive that are cut, each at the end  *)
(* of a full buffer, and the layer without them.                           *)
CutDirents(l, d) ==
    LET ents == Dirents(l, d)
        full == (space + 1) \div 2
    IN  IF IsSubDir(l, d) \/ space % 2 = 0 THEN {}
        ELSE {ents[i] : i \in {j \in 1 .. Len(ents) : j % full = 0}}

Uncut(l, d) ==
    LET cut(special) == {Append(d, e.name) : e \in {x \in CutDirents(l, d) : x.special = special}}
    IN  [l EXCEPT !.ents = [p \in DOMAIN @ \ cut(FALSE) |-> @[p]],
                  !.wh = @ \ cut(TRUE),
                  !.opq = IF Append(d, "") \in cut(TRUE) THEN @ \ {d} ELSE @]

(* What a directory of the image lists. *)
Listing(ls, d) ==
    {".", ".."} \cup {Last(p) : p \in {q \in Merged(ls) : q # <<>> /\ Front(q) = d}}

(* The calls of FDReadDir on a directory, whatever their size and whatever *)
(* entries are asked for again, give each name once, under one cookie, and *)
(* when they give none have given those of the merged directory: exactly   *)
(* if the buffer that init uses does not end inside an entry of a layer;   *)
(* else as if the layers did not have the entries that it cuts.  (If some  *)
(* of the layers were listed through another file before, what is left of  *)
(* them is.)                                                               *)
ListingExact ==
    \A f \in 1 .. Len(listed) :
        LET l == listed[f]
            h == open[stacks[ocifiles[f].k].files[1]]
            given == [i \in 1 .. Len(layers) |-> Uncut(layers[i], h.path)]
        IN  /\ \A x, y \in l.pairs : x # y => x[1] # y[1] /\ x[2] # y[2]
            /\ l.ended /\ l.fresh /\ ~Closed(f) =>
                   {x[2] : x \in l.pairs} =
                       IF IsDir(layers[h.layer], h.path) THEN Listing(given, h.path) ELSE {}

(* References on layers are those of the guest's files and of the layers   *)
(* below, and the files of the layers are open as long as there is one.    *)
Referenced(s) ==
    LET alive(k) == s.stacks[k].refc > 0
        K == 1 .. Len(s.stacks)
    IN  \A k \in K :
            /\ s.stacks[k].refc = Cardinality({f \in 1 .. Len(ocifiles) : ocifiles[f].k = k})
                                  + Cardinality({c \in K : alive(c) /\ s.stacks[c].parent = k})
            /\ \A i \in ToSet(s.stacks[k].files) : s.open[i].closed <=> ~alive(k)

(* The files of the layers are open exactly as long as a file of the guest *)
(* is on them or below them, for ".." to find every layer of the parent.   *)
(* A call that would change the image, from any file and through any link, *)
(* fails, and gives back every layer that it opened on the way.            *)
LayersOwned ==
    LET F == {f \in 1 .. Len(ocifiles) : ~Closed(f)}
        changes == {q \in Asked : q.op \notin {"open", "stat", "read", "sync"}}
    IN  /\ Referenced(ist)
        /\ reads = 0 => \A f, g \in F, q \in changes :
               LET a == Ask(ist, ocifiles[f].k, ocifiles[g].k, q)
               IN  a.err \notin {"", "hangs"} /\ Referenced(a.s)

=============================================================================
