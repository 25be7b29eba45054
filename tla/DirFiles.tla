------------------------------ MODULE DirFiles -------------------------------
(***************************************************************************)
(* Files of a directory of the host that is mounted in a guest             *)
(* (internal/sandbox/dirfs_unix.go, the generic part of it in fs.go, and   *)
(* the system calls of wasi.go that lead to it).  Each step of a thread is *)
(* one call of the kernel and the Go code up to the next one; the          *)
(* descriptor that the call is given was read at the end of the step       *)
(* before.                                                                 *)
(***************************************************************************)
EXTENDS FilePath, Integers, FiniteSets, FiniteSetsExt, TLC

CONSTANTS Threads,          \* goroutines that use the files
          Nodes,            \* inodes of the host
          Root,             \* the inode of the directory that is mounted
          Outside,          \* the inodes that are not below it
          Trees,            \* the trees of the host to begin with
          Requests,         \* the system calls of the guest
          MaxFD,            \* descriptors that the process may open
          MaxCalls,         \* bound on the number of calls
          MaxAgain,         \* bound on the times Link tries its second path again
          CloseDuringOpen   \* a file may be closed while another is opened from it

ASSUME LimitsAssumption == {MaxFD, MaxCalls, MaxAgain} \subseteq Nat
ASSUME RootAssumption == Root \in Nodes /\ Outside \subseteq Nodes \ {Root}
ASSUME ClosingAssumption == CloseDuringOpen \in BOOLEAN

VARIABLES
    tree,    \* inodes: their kind, entries, target and parent
    fds,     \* descriptors of the process: None or what they are open on
    files,   \* every dirFile that was made
    thr,     \* what each thread does
    calls    \* number of calls made

vars == <<tree, fds, files, thr, calls>>

noFile == 0
noFD == 0
idle == [op |-> "idle"]
Running(t) == thr[t].op \notin {"idle", "done"}

-----------------------------------------------------------------------------
(* The kernel's side.                                                      *)

Free(n) == tree[n].kind = "free"

(* What the name is in the directory n, None if it is not there. *)
At(n, name) ==
    CASE name \in {"", "."} -> n
      [] name = ".." -> tree[n].up
      [] name \in DOMAIN tree[n].ents -> tree[n].ents[name]
      [] OTHER -> None

IsKind(n, kind) == n # None /\ tree[n].kind = kind

ok(n) == [err |-> "", node |-> n, tree |-> tree]
fail(err) == [err |-> err, node |-> None, tree |-> tree]
Changed(new, n) == [err |-> "", node |-> n, tree |-> new]

Put(tr, dir, name, n) == [tr EXCEPT ![dir].ents = (name :> n) @@ @]
Cut(tr, dir, name) ==
    [tr EXCEPT ![dir].ents = [x \in DOMAIN @ \ {name} |-> @[x]]]

(* A new inode, unless none is left or the directory was removed. *)
Make(dir, name, kind, target) ==
    IF \/ \A n \in Nodes : ~Free(n)
       \/ \A n \in Nodes : \A x \in DOMAIN tree[n].ents : tree[n].ents[x] # dir
    THEN fail("EPERM")
    ELSE LET new == CHOOSE n \in Nodes : Free(n)
         IN  Changed([Put(tree, dir, name, new) EXCEPT
                          ![new] = [kind |-> kind, ents |-> <<>>, target |-> target, up |-> dir]], new)

(* openat with O_NOFOLLOW: with O_DIRECTORY a symbolic link is not a       *)
(* directory, without it it is one link too many.                          *)
openat(dir, name, directory, creat) ==
    LET n == At(dir, name)
    IN  CASE ~IsKind(dir, "dir") -> fail("ENOTDIR")
          [] n = None -> IF creat THEN Make(dir, name, "file", <<>>) ELSE fail("ENOENT")
          [] IsKind(n, "link") -> fail(IF directory THEN "ENOTDIR" ELSE "ELOOP")
          [] directory /\ ~IsKind(n, "dir") -> fail("ENOTDIR")
          [] OTHER -> ok(n)

readlinkat(dir, name) ==
    LET n == At(dir, name)
    IN  CASE ~IsKind(dir, "dir") -> fail("ENOTDIR")
          [] n = None -> fail("ENOENT")
          [] ~IsKind(n, "link") -> fail("EINVAL")
          [] OTHER -> ok(n)

Special(name) == name \in {"", ".", ".."}

(* The directories that n is in, the one above the mounted one included. *)
Above(n) ==
    LET up[i \in Nat] == IF i = 0 THEN n ELSE tree[up[i - 1]].up
    IN  {up[i] : i \in 0 .. Cardinality(Nodes)}

(* The other calls on a name; second is the place that rename and link give *)
(* to the file.                                                            *)
Mutate(op, dir, name, target, second) ==
    LET n == At(dir, name)
        n2 == At(second.node, second.elem)
        replaced == /\ n2 # None
                    /\ IsKind(n, "dir") = IsKind(n2, "dir")
                    /\ tree[n2].ents = <<>>
    IN  CASE ~IsKind(dir, "dir") \/ ~IsKind(second.node, "dir") -> fail("ENOTDIR")
          [] op \in {"mkdir", "symlink"} ->
                 IF n # None THEN fail("EEXIST")
                 ELSE Make(dir, name, IF op = "mkdir" THEN "dir" ELSE "link", target)
          [] n = None -> fail("ENOENT")
          [] op = "chtimes" -> ok(n)
          [] op = "rmdir" -> IF Special(name) \/ ~IsKind(n, "dir") \/ tree[n].ents # <<>>
                             THEN fail("ENOTEMPTY") ELSE Changed(Cut(tree, dir, name), n)
          [] op = "unlink" -> IF IsKind(n, "dir") THEN fail("EISDIR")
                              ELSE Changed(Cut(tree, dir, name), n)
          [] op = "link" -> IF IsKind(n, "dir") \/ n2 # None THEN fail("EPERM")
                            ELSE Changed(Put(tree, second.node, second.elem, n), n)
          [] op = "rename" ->
                 IF \/ Special(name) \/ Special(second.elem)
                    \/ n2 # None /\ ~replaced
                    \/ n = n2 \/ n \in Above(second.node)
                 THEN fail("EBUSY")
                 ELSE Changed([Put(Cut(tree, dir, name), second.node, second.elem, n)
                                  EXCEPT ![n].up = second.node], n)

-----------------------------------------------------------------------------
(* dirFile.  st is the pair of the descriptors and of the files.           *)

st == [fds |-> fds, files |-> files]

(* f, its parent, the parent of it... up to the root. *)
Chain(s, f) ==
    LET up[i \in Nat] == IF i = 0 THEN f
                         ELSE IF up[i - 1] = noFile THEN noFile ELSE s.files[up[i - 1]].dir
        n == CHOOSE i \in 0 .. Len(s.files) : up[i] # noFile /\ up[i + 1] = noFile
    IN  [i \in 1 .. n + 1 |-> up[i - 1]]

(* The root of the file system that f is on. *)
RootOf(s, f) == Last(Chain(s, f))

(* openParent: the file whose directory is opened again. *)
ParentOf(s, f) == IF s.files[f].dir = noFile THEN f ELSE s.files[f].dir

ref(s, f) == IF f = noFile THEN s ELSE [s EXCEPT !.files[f].refc = @ + 1]

(* The last reference of a file closes its descriptor and drops the        *)
(* reference that it has on its parent; chain is the file and those above. *)
unrefChain(s, chain) ==
    LET shut == {i \in 1 .. Len(chain) : \A j \in 1 .. i : s.files[chain[j]].refc = 1}
        dropped == {chain[i] : i \in {1} \cup {i \in 2 .. Len(chain) : i - 1 \in shut}}
        closed == {chain[i] : i \in shut}
    IN  [fds |-> [n \in 1 .. MaxFD |->
                     IF \E f2 \in closed : s.files[f2].fd = n THEN None ELSE s.fds[n]],
         files |-> Each(s.files, LAMBDA f2, x : [x EXCEPT !.refc = IF f2 \in dropped THEN @ - 1 ELSE @,
                                                          !.fd = IF f2 \in closed THEN noFD ELSE @])]

unref(s, f) == unrefChain(s, Chain(s, f))

Close(s, f) ==
    IF f = noFile \/ s.files[f].closed THEN s
    ELSE unref([s EXCEPT !.files[f].closed = TRUE], f)

newFile(s, dir, fd, desc) ==
    LET s2 == ref(s, dir)
    IN  [fds |-> [s2.fds EXCEPT ![fd] = desc],
         files |-> Append(s2.files, [dir |-> dir, refc |-> 1, closed |-> FALSE, fd |-> fd, node |-> desc.node, guest |-> FALSE])]

(* What a descriptor is open on; one opened with O_PATH cannot be read. *)
Opened(node, path) == [node |-> node, path |-> path]

(* The kernel gives the lowest descriptor that is free. *)
FreeFDs(s) == {n \in 1 .. MaxFD : s.fds[n] = None}

-----------------------------------------------------------------------------
(* ResolvePath.  r is the state of a thread: the call of the guest (req),   *)
(* the file it is made on (at), the root opened for it (tmp), the files it *)
(* has acquired (acq), the path left (name), the directory it is at (dir), *)
(* the one it has to close (own), the links followed (depth), and the next *)
(* call of the kernel: its kind (call), the file whose descriptor it takes *)
(* (on), that descriptor (fd) and a name in it (elem).  first is the place *)
(* that the first path of rename and link led to.                          *)

(* Every step gives the new s and the new r. *)
Next2(s, r) == [s |-> s, r |-> r]

Aim(s, r, call, on, elem) ==
    Next2(s, [r EXCEPT !.call = call, !.on = on, !.fd = s.files[on].fd, !.elem = elem])

ReleaseAll(s, acq) == FoldLeft(LAMBDA s2, f : unref(s2, f), s, acq)

(* The deferred calls: directories are closed, files released. *)
End(s, r, err, place) ==
    LET s2 == Close(s, r.own)
        s3 == Close(s2, IF r.first = None THEN noFile ELSE r.first.own)
        s4 == Close(ReleaseAll(s3, r.acq), r.tmp)
    IN  Next2(s4, [op |-> "done", req |-> r.req, want |-> r.want, calm |-> r.calm,
                   got |-> IF err \in {"ENOENT", "ENOTDIR", "ELOOP"} THEN <<err>> ELSE place,
                   valid |-> err \in {"", "ENOENT", "ENOTDIR", "ELOOP"},
                   up |-> r.call = "final" /\ r.elem = ".."])

(* Mutant: the file may be closed while its descriptor is used. *)
withFDUnheld(s, r, f, call, elem) ==
    IF s.files[f].closed THEN End(s, r, "EBADF", <<>>)
    ELSE Aim(s, r, call, f, elem)

withFD(s, r, f, call, elem) ==
    IF s.files[f].closed THEN End(s, r, "EBADF", <<>>)
    ELSE Aim(ref(s, f), [r EXCEPT !.acq = Append(@, f)], call, f, elem)

(* Mutant: the kernel resolves the references to the parent. *)
WalkKernel(s, r) ==
    LET w == Walk(SkipSelf(r.name))
    IN  Aim(s, [r EXCEPT !.name = w.name], IF w.name = <<>> THEN "final" ELSE "open", r.dir, w.elem)

WalkPath(s, r) ==
    LET w == Walk(SkipSelf(r.name))
        last == w.name = <<>>
        up == w.elem = ".." /\ (r.req.op = "open" \/ ~last)
    IN  Aim(s, [r EXCEPT !.name = w.name],
            IF last THEN "final" ELSE IF up THEN "reopen" ELSE "open",
            IF up THEN ParentOf(s, r.dir) ELSE r.dir, w.elem)

ResolvePath(s, r) ==
    IF IsAbs(r.name)
    THEN LET rest == TrimLeadingSlash(r.name)
         IN  Aim(s, [r EXCEPT !.name = IF rest = <<>> THEN <<".">> ELSE rest],
                 "reopen", RootOf(s, r.dir), Slash)
    ELSE WalkPath(s, r)

(* setCurrentDirectory, with the file that was just made. *)
setCurrentDirectory(s, r) ==
    LET new == Len(s.files)
    IN  ResolvePath(Close(s, r.own), [r EXCEPT !.dir = new, !.own = new])

(* Mutant: what comes after the link is lost. *)
followSymlinkOnly(s, r, node) ==
    IF r.depth = MaxFollowSymlink THEN End(s, r, "ELOOP", <<>>)
    ELSE ResolvePath(s, [r EXCEPT !.depth = @ + 1, !.name = tree[node].target])

(* Too many links.  When this is the second path of Link and links are     *)
(* followed, the error makes the first path follow its last element too.   *)
TooManyLinks(s, r) ==
    LET s2 == unref(Close(s, r.own), Last(r.acq))
        r2 == [r EXCEPT !.acq = Front(@), !.own = r.first.own, !.dir = r.first.dir, !.name = <<>>,
                        !.depth = r.first.depth, !.first = None, !.again = @ + 1]
    IN  IF r.first = None \/ ~r.req.follow \/ r.req.path = <<>> THEN End(s, r, "ELOOP", <<>>)
        ELSE withFD(s2, r2, r2.dir, "readlink", r.first.elem)

(* The end of followSymlink: its target is walked before what was left. *)
followSymlink(s, r, node) ==
    IF r.depth = MaxFollowSymlink THEN TooManyLinks(s, r)
    ELSE ResolvePath(s, [r EXCEPT !.depth = @ + 1, !.name = FollowedName(tree[node].target, r.name)])

-----------------------------------------------------------------------------
(* The methods of dirFile that take a path, with the kernel's answer a.    *)

Directory(req) == req.directory \/ HasTrailingSlash(req.path)

(* FileOpen, and what the others do before ResolvePath. *)
StartOn(s, r) ==
    LET path == r.req.path
        r2 == [r EXCEPT !.dir = r.at, !.name = path]
        Resolve(held) == IF held.r.op = "done" \/ path = <<>> THEN held ELSE ResolvePath(held.s, held.r)
    IN  CASE r.req.op = "open" /\ path = <<>> -> End(s, r, "EINVAL", <<>>)
          [] r.req.op = "open" /\ IsRoot(path) -> Aim(s, r2, "final", RootOf(s, r.at), Slash)
          [] r.req.op = "open" -> ResolvePath(s, r2)
          [] OTHER -> Resolve(withFD(s, r2, r.at, "final", ""))

(* The second path of rename and link is resolved while the first          *)
(* directory is kept.                                                      *)
StartSecond(s, r) ==
    LET r2 == [r EXCEPT !.first = [fd |-> r.fd, on |-> r.on, elem |-> r.elem, own |-> r.own,
                                  dir |-> r.dir, depth |-> r.depth],
                        !.own = noFile, !.dir = r.at2, !.name = r.req.path2, !.depth = 0]
        Resolve(held) == IF held.r.op = "done" \/ r2.name = <<>> THEN held ELSE ResolvePath(held.s, held.r)
    IN  Resolve(withFD(s, r2, r.at2, "final", ""))

(* newFile takes the descriptor that the kernel has returned. *)
Handle(s, dir, a, path) == newFile(s, dir, Min(FreeFDs(s)), Opened(a.node, path))

(* The file that Open returns. *)
Given(s) == [s EXCEPT !.files[Len(s.files)].guest = TRUE]

(* A call of the kernel that opens a file, out of descriptors. *)
Exhausted(s, a) == IF a.err = "" /\ FreeFDs(s) = {} THEN fail("EMFILE") ELSE a

(* What the descriptor of the step is open on: a closed one is not, one    *)
(* that was reused is open on something else.                              *)
NodeOf(fd) == IF fd \in 1 .. MaxFD /\ fds[fd] # None THEN fds[fd].node ELSE None

Place(dir, elem) == IF At(dir, elem) = None THEN <<dir, elem>> ELSE <<At(dir, elem)>>

Duplicated(s, r) == Exhausted(s, IF NodeOf(r.fd) = None THEN fail("EBADF") ELSE ok(NodeOf(r.fd)))

(* openRoot of dirFS, then the call on the root. *)
AfterRoot(s, r) ==
    LET a == Exhausted(s, ok(Root))
        s2 == Handle(s, noFile, a, FALSE)
        f == Len(s2.files)
    IN  CASE a.err # "" -> End(s, r, a.err, <<>>)
          [] r.req.op = "open" /\ IsRoot(r.req.path) -> End(Given(s2), r, "", <<Root>>)
          [] OTHER -> StartOn(s2, [r EXCEPT !.at = f, !.at2 = f, !.tmp = f])

(* openSelf on the file, its parent or the root. *)
AfterReopen(s, r) ==
    LET a == Duplicated(s, r)
    IN  IF a.err # "" THEN End(s, r, a.err, <<>>)
        ELSE setCurrentDirectory(Handle(s, s.files[r.on].dir, a, fds[r.fd].path), r)

(* openFile of an element of the path, with O_PATH. *)
AfterOpen(s, r) ==
    LET dir == NodeOf(r.fd)
        a == Exhausted(s, IF dir = None THEN fail("EBADF") ELSE openat(dir, r.elem, TRUE, FALSE))
    IN  CASE a.err = "" -> setCurrentDirectory(Handle(s, r.on, a, TRUE), r)
          [] a.err = "ENOTDIR" -> withFD(s, r, r.dir, "readlink", r.elem)
          [] OTHER -> End(s, r, a.err, <<>>)

(* readlink, which releases the directory; an element that is no link is   *)
(* not a directory, a last one that is no link any more is tried again.    *)
AfterReadlink(s, r) ==
    LET a == readlinkat(NodeOf(r.fd), r.elem)
        s2 == unref(s, Last(r.acq))
        r2 == [r EXCEPT !.acq = Front(@)]
    IN  CASE a.err = "" -> followSymlink(s2, r2, a.node)
          [] a.err = "EINVAL" /\ r.name # <<>> -> End(s2, r2, "ENOTDIR", <<>>)
          [] a.err = "EINVAL" -> Aim(s2, r2, "final", r.dir, r.elem)
          [] OTHER -> End(s2, r2, a.err, <<>>)

(* The last element: openSelf, openParent or openFile; a symbolic link is  *)
(* followed unless the call says not to.                                   *)
FinalOpen(s, r, dir) ==
    LET self == r.elem \in {Slash, ".", ".."}
        a == IF self THEN Duplicated(s, r)
             ELSE Exhausted(s, openat(dir, r.elem, Directory(r.req), r.req.creat))
    IN  CASE a.err = "ELOOP" /\ r.req.follow -> withFD(s, r, r.dir, "readlink", r.elem)
          [] a.err # "" -> End(s, r, a.err, <<>>)
          [] self -> End(Given(Handle(s, s.files[r.on].dir, a, fds[r.fd].path)), r, "", <<a.node>>)
          [] OTHER -> End(Given(Handle(s, r.on, a, FALSE)), r, "", Place(dir, r.elem))

(* A name in something that is not a directory. *)
Unnamed(dir, elem) == elem # "" /\ ~IsKind(dir, "dir")

FinalStat(s, r, dir) ==
    LET n == At(dir, r.elem)
    IN  CASE Unnamed(dir, r.elem) -> End(s, r, "ENOTDIR", <<>>)
          [] n = None -> End(s, r, "ENOENT", <<>>)
          [] IsKind(n, "link") /\ r.req.follow -> withFD(s, r, r.dir, "readlink", r.elem)
          [] r.req.op = "readlink" /\ ~IsKind(n, "link") -> End(s, r, "EINVAL", <<>>)
          [] OTHER -> End(s, r, "", <<n>>)

(* The others make one call with the name that is left, or with two. *)
Two(req) == req.op \in {"rename", "link"}

FinalMutate(s, r, dir) ==
    LET dir1 == NodeOf(r.first.fd)
    IN  CASE Two(r.req) /\ r.first = None -> StartSecond(s, r)
          [] Unnamed(dir, r.elem) -> End(s, r, "ENOTDIR", <<>>)
          [] ~Two(r.req) -> End(s, r, "", Place(dir, r.elem))
          [] Unnamed(dir1, r.first.elem) -> End(s, r, "ENOTDIR", <<>>)
          [] OTHER -> End(s, r, "", Place(dir1, r.first.elem) \o Place(dir, r.elem))

AfterFinal(s, r) ==
    LET dir == NodeOf(r.fd)
    IN  CASE dir = None -> End(s, r, "EBADF", <<>>)
          [] r.req.op = "io" -> End(s, r, "", <<dir>>)
          [] r.req.op = "open" -> FinalOpen(s, r, dir)
          [] r.req.op \in {"stat", "readlink"} -> FinalStat(s, r, dir)
          [] OTHER -> FinalMutate(s, r, dir)

(* What the call of the kernel does to the tree. *)
TreeAfter(r) ==
    LET dir == NodeOf(r.fd)
        here == [node |-> dir, elem |-> r.elem]
    IN  CASE r.call # "final" \/ dir = None -> tree
          [] r.req.op = "open" /\ ~Special(r.elem) /\ r.elem # Slash ->
                 Exhausted(st, openat(dir, r.elem, Directory(r.req), r.req.creat)).tree
          [] Two(r.req) /\ r.first # None ->
                 Mutate(r.req.op, NodeOf(r.first.fd), r.first.elem, <<>>, here).tree
          [] ~Two(r.req) /\ r.req.op \notin {"open", "stat", "readlink", "io"} ->
                 Mutate(r.req.op, dir, r.elem, r.req.target, here).tree
          [] OTHER -> tree

-----------------------------------------------------------------------------
(* Where the path of a call leads. *)
LookupNode(nodes, path, follow) ==
    LET l == Lookup(Nodes,
                    LAMBDA n, e : {At(n, e)} \ {None},
                    LAMBDA n : tree[n].kind,
                    LAMBDA n : tree[n].target,
                    nodes, path, follow)
    IN  IF l.err = "" THEN l.at ELSE <<l.err>>

Stack(f) == [i \in 1 .. Len(Chain(st, f)) |-> files[Reverse(Chain(st, f))[i]].node]

(* Links at the end are followed by stat and by open, unless the latter    *)
(* wants a directory.                                                      *)
Wanted(req, f, f2) ==
    LET follows == req.follow /\ (req.op = "stat" \/ (req.op = "open" /\ ~Directory(req)))
        one == LookupNode(Stack(f), req.path, follows)
        two == LookupNode(Stack(f2), req.path2, FALSE)
        error(w) == Len(w) = 1 /\ w[1] \in {"ENOENT", "ENOTDIR", "ELOOP"}
    IN  CASE Two(req) -> LET errors == {w \in {one, two} : error(w)}
                             missing == {w \in {one} : req.op = "link" /\ Len(w) = 2}
                         IN  IF errors = {} THEN {one \o two}
                             ELSE errors \cup {<<"ENOENT">> : w \in missing}
          [] error(one) -> {one}
          [] Len(one) = 2 /\ (req.op \in {"stat", "readlink"} \/ (req.op = "open" /\ ~req.creat)) -> {<<"ENOENT">>}
          [] req.op = "open" /\ Directory(req) /\ Len(one) = 1 /\ ~IsKind(one[1], "dir") -> {<<"ENOTDIR">>}
          [] OTHER -> {one}

-----------------------------------------------------------------------------
(* wasiFile: the method of the file that a system call is made of, and     *)
(* whether it follows a link.  All those that read or write the file, its  *)
(* attributes or its entries are "io".                                     *)
FileCall == [FDFileStatGet |-> "stat", FDFileStatSetTimes |-> "chtimes", FDRead |-> "io"]

PathCall ==
    [PathOpen |-> "open", PathFileStatGet |-> "stat", PathFileStatSetTimes |-> "chtimes",
     PathReadLink |-> "readlink", PathLink |-> "link", PathRename |-> "rename",
     PathSymlink |-> "symlink", PathCreateDirectory |-> "mkdir",
     PathRemoveDirectory |-> "rmdir", PathUnlinkFile |-> "unlink"]

makeLookupFlags(call) ==
    call.follow /\ call.sys \in {"PathOpen", "PathFileStatGet", "PathFileStatSetTimes", "PathLink"}

Method(call) ==
    [call EXCEPT !.op = (FileCall @@ PathCall)[call.sys], !.follow = makeLookupFlags(call)]

-----------------------------------------------------------------------------
(* The actions.                                                            *)

Init ==
    /\ tree \in Trees
    /\ fds = [n \in 1 .. MaxFD |-> IF n = 1 THEN Opened(Root, FALSE) ELSE None]
    /\ files = <<[dir |-> noFile, refc |-> 1, closed |-> FALSE, fd |-> 1, node |-> Root, guest |-> TRUE]>>
    /\ thr = [t \in Threads |-> idle]
    /\ calls = 0

Guests == {f \in 1 .. Len(files) : files[f].guest}

(* A system call of the guest, or one of the functions of fs.go, which     *)
(* first opens the root.                                                   *)
Begin(t, call, f, f2) ==
    LET req == Method(call)
        r == [op |-> req.op, req |-> req, at |-> f, at2 |-> f2, tmp |-> noFile, acq |-> <<>>,
              name |-> <<>>, dir |-> noFile, own |-> noFile, depth |-> 0,
              call |-> "root", on |-> noFile, fd |-> noFD, elem |-> "", first |-> None, again |-> 0,
              want |-> Wanted(req, IF req.fsys THEN 1 ELSE f, IF req.fsys THEN 1 ELSE f2), calm |-> TRUE]
    IN  /\ ~Running(t)
        /\ CloseDuringOpen \/ req.op # "open" \/ ~files[f].closed
        /\ \E next \in {IF req.fsys THEN Next2(st, r) ELSE StartOn(st, r)} :
               /\ fds' = next.s.fds /\ files' = next.s.files
               /\ thr' = [thr EXCEPT ![t] = next.r]
        /\ calls' = calls + 1
        /\ UNCHANGED tree

(* The code between a call of the kernel and the next one. *)
After(s, r) ==
    CASE r.call = "root" -> AfterRoot(s, r)
      [] r.call = "reopen" -> AfterReopen(s, r)
      [] r.call = "open" -> AfterOpen(s, r)
      [] r.call = "readlink" -> AfterReadlink(s, r)
      [] r.call = "final" -> AfterFinal(s, r)

Step(t) ==
    /\ Running(t)
    /\ thr[t].again <= MaxAgain
    /\ tree' = TreeAfter(thr[t])
    /\ \E next \in {After(st, thr[t])} :
           /\ fds' = next.s.fds /\ files' = next.s.files
           /\ thr' = [u \in Threads |->
                         IF u = t THEN next.r
                         ELSE IF Running(u) /\ tree' # tree THEN [thr[u] EXCEPT !.calm = FALSE]
                         ELSE thr[u]]
    /\ UNCHANGED calls

(* Opening a file from another does not acquire it: the callers have to    *)
(* keep it open meanwhile.                                                 *)
FDClose(f) ==
    /\ f \in Guests /\ ~files[f].closed
    /\ CloseDuringOpen \/ \A t \in Threads : Running(t) /\ thr[t].op = "open" => thr[t].at # f
    /\ \E s \in {Close(st, f)} : fds' = s.fds /\ files' = s.files
    /\ UNCHANGED <<tree, thr, calls>>

Next ==
    \/ \E t \in Threads : Step(t)
    \/ /\ calls < MaxCalls
       /\ \E t \in Threads, call \in Requests, f \in Guests :
              \E f2 \in IF Two(Method(call)) THEN Guests ELSE {f} : Begin(t, call, f, f2)
    \/ \E f \in Guests : FDClose(f)

Spec == Init /\ [][Next]_vars

-----------------------------------------------------------------------------
Alive(f) == files[f].refc > 0
Uses(t, f) ==
    IF ~Running(t) THEN 0
    ELSE Cardinality({i \in 1 .. Len(thr[t].acq) : thr[t].acq[i] = f})

(* A dirFile is kept by who has not closed it, by the files that were      *)
(* opened from it and by the calls in progress on it, and by nothing else; *)
(* as long as it is, its descriptor is its own.                            *)
DescriptorsOwned ==
    /\ \A f \in 1 .. Len(files) :
           /\ files[f].refc = (IF files[f].closed THEN 0 ELSE 1)
                              + Cardinality({c \in 1 .. Len(files) : Alive(c) /\ files[c].dir = f})
                              + MapThenSumSet(LAMBDA t : Uses(t, f), Threads)
           /\ IF Alive(f) THEN /\ files[f].fd # noFD
                               /\ fds[files[f].fd] # None /\ fds[files[f].fd].node = files[f].node
              ELSE files[f].fd = noFD
    /\ \A f, g \in 1 .. Len(files) : Alive(f) /\ Alive(g) /\ files[f].fd = files[g].fd => f = g

(* The files that somebody will close or release. *)
Kept ==
    {f \in Guests : ~files[f].closed} \cup
    UNION {LET r == thr[t]
           IN  IF ~Running(t) THEN {}
               ELSE {r.own, r.tmp} \cup ToSet(r.acq) \cup (IF r.first = None THEN {} ELSE {r.first.own})
           : t \in Threads}

(* A call leaves no descriptor behind, whichever of its steps fails: an    *)
(* open descriptor is of a file that is kept, or of a directory above one. *)
NothingLeaked ==
    \A n \in 1 .. MaxFD : fds[n] # None =>
        \E f \in Kept \ {noFile} : \E g \in ToSet(Chain(st, f)) : files[g].fd = n

(* The descriptor that a call of the kernel is about to take is the one of *)
(* the file it is for, not one that was closed and used again.             *)
OwnFile ==
    \A t \in Threads : Running(t) /\ thr[t].call # "root" =>
        LET r == thr[t]
        IN  /\ r.fd # noFD /\ files[r.on].fd = r.fd
            /\ r.first # None => r.first.fd # noFD /\ files[r.first.on].fd = r.first.fd

(* Descriptors are shared, used and given back by their owners only. *)
DescriptorsSound == DescriptorsOwned /\ NothingLeaked /\ OwnFile

(* What the calls that have ended acted on; one that changed the tree shows *)
(* in the tree.                                                            *)
ActedOn(t) ==
    IF thr[t].op = "done" /\ thr[t].req.op \in {"open", "stat", "readlink", "chtimes", "io"}
    THEN ToSet(thr[t].got) \cap Nodes ELSE {}

(* A last ".." of the calls that are not open is left to the kernel, for   *)
(* which the mounted directory has a parent.                               *)
ParentOfRoot(t) == thr[t].up /\ thr[t].got = <<tree[Root].up>>

(* Nothing above the mounted directory is opened, changed, or linked from  *)
(* below it.                                                               *)
OutsideApart ==
    /\ \A f \in 1 .. Len(files) : Alive(f) => files[f].node \notin Outside
    /\ \A n \in Outside : tree[n] \in {tr[n] : tr \in Trees}
    /\ \A n \in Nodes \ Outside : Range(tree[n].ents) \cap Outside = {}

(* Whatever links the tree has and whatever is renamed meanwhile, no call  *)
(* leaves the directory that is mounted, but for those that read or set    *)
(* the attributes of its parent by a path that ends in "..".               *)
Confined ==
    /\ OutsideApart
    /\ \A t \in Threads : ActedOn(t) \cap Outside # {} => ParentOfRoot(t)

(* What ResolvePath and the tests of root file systems say: no call does.  *)
(* No run checks it; stat of ".." at the root violates it.                 *)
NeverEscapes == OutsideApart /\ \A t \in Threads : ActedOn(t) \cap Outside = {}

(* If the tree is not changed meanwhile, a call acts on the file that its  *)
(* path leads to, with the same error if it leads to none.                 *)
LookupAgrees ==
    \A t \in Threads :
        thr[t].op = "done" /\ thr[t].calm /\ thr[t].valid =>
            thr[t].got \in thr[t].want \/ ParentOfRoot(t)

=============================================================================
