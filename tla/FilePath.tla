------------------------------ MODULE FilePath -------------------------------
(***************************************************************************)
(* Paths (internal/sandbox/fspath/fspath.go).  A path is the sequence of   *)
(* its elements and of its slashes, "a//b/" being                          *)
(* <<"a", "/", "/", "b", "/">>; two elements always have a slash between   *)
(* them.                                                                   *)
(***************************************************************************)
EXTENDS Naturals, Sequences, SequencesExt

CONSTANTS MaxFollowSymlink, \* links followed in a path, as in fs.go
          None

ASSUME LinksAssumption == MaxFollowSymlink \in Nat

(* The sequence of the op(i, x) of the elements x of a sequence. *)
Each(seq, op(_, _)) == SubSeq([i \in 1 .. Len(seq) |-> op(i, seq[i])], 1, Len(seq))

Slash == "/"

TrimLeadingSlash(path) ==
    LET i == SelectInSeq(path, LAMBDA e : e # Slash)
    IN  IF i = 0 THEN <<>> ELSE SubSeq(path, i, Len(path))

HasTrailingSlash(path) == path # <<>> /\ Last(path) = Slash

IsAbs(path) == path # <<>> /\ Head(path) = Slash

IsRoot(path) == IsAbs(path) /\ ToSet(path) \subseteq {Slash, ".", ".."}

(* The next element of a path that is not empty, and the rest. *)
Walk(path) == [elem |-> Head(path), name |-> TrimLeadingSlash(Tail(path))]

(* Join of the package path, which removes what it can of the elements ".."; *)
(* Lexical is the list of elements that are left.                          *)
Lexical(path) ==
    FoldLeft(LAMBDA es, e :
                 CASE e \in {Slash, "."} -> es
                   [] e = ".." /\ es # <<>> /\ Last(es) # ".." -> Front(es)
                   [] e = ".." /\ es = <<>> /\ IsAbs(path) -> es
                   [] OTHER -> Append(es, e),
             <<>>, path)

PathJoin(dir, name) ==
    LET path == dir \o <<Slash>> \o name
        es == Lexical(path)
        text == [i \in 1 .. 2 * Len(es) |-> IF i % 2 = 1 THEN Slash ELSE es[i \div 2]]
    IN  CASE IsAbs(path) -> IF es = <<>> THEN <<Slash>> ELSE text
          [] es = <<>> -> <<".">>
          [] OTHER -> Tail(text)

-----------------------------------------------------------------------------
(* ResolvePath of internal/sandbox/fs.go, between two calls of the kernel. *)

(* References to the current directory, before an element that is not one, *)
(* are skipped without opening it again.                                   *)
SkipSelf(name) ==
    LET i == SelectInSeq(name, LAMBDA e : e \notin {Slash, "."})
    IN  IF i = 0 THEN <<".">> ELSE SubSeq(name, i, Len(name))

(* followSymlink: what is left to walk after the link. *)
FollowedName(link, target) == IF target = <<>> THEN link ELSE link \o <<Slash>> \o target

-----------------------------------------------------------------------------
(* Where a path leads in a tree, by definition: from the directories of    *)
(* stack, the first of them being the root; ".." drops the last one.  The  *)
(* answer is a node, the place where it would be (a directory and a name)  *)
(* or an error.                                                            *)
Elements(path) == SelectSeq(path, LAMBDA e : e # Slash)

Lookup(Nodes, child(_, _), kind(_), target(_), stack0, path, follow) ==
    LET error(err) == [err |-> err, at |-> <<>>]
        found(at) == [err |-> "", at |-> at]
        to[x \in [stack : Seq(Nodes), elems : Seq(STRING), links : Nat]] ==
            LET top == Last(x.stack)
                e == Head(x.elems)
                rest == Tail(x.elems)
                n == CHOOSE c \in child(top, e) : TRUE
                go(stack) == to[[x EXCEPT !.stack = stack, !.elems = rest]]
            IN  CASE x.elems = <<>> -> found(<<top>>)
                  [] e = "." -> go(x.stack)
                  [] e = ".." -> go(IF Len(x.stack) = 1 THEN x.stack ELSE Front(x.stack))
                  [] kind(top) # "dir" -> error("ENOTDIR")
                  [] child(top, e) = {} -> IF rest = <<>> THEN found(<<top, e>>) ELSE error("ENOENT")
                  [] rest = <<>> /\ ~(follow /\ kind(n) = "link") -> found(<<n>>)
                  [] kind(n) = "link" ->
                         IF x.links = MaxFollowSymlink THEN error("ELOOP")
                         ELSE to[[stack |-> IF IsAbs(target(n)) THEN <<Head(x.stack)>> ELSE x.stack,
                                  elems |-> Elements(target(n)) \o rest,
                                  links |-> x.links + 1]]
                  [] kind(n) # "dir" -> error("ENOTDIR")
                  [] OTHER -> go(Append(x.stack, n))
    IN  to[[stack |-> IF IsAbs(path) THEN <<Head(stack0)>> ELSE stack0,
            elems |-> Elements(path), links |-> 0]]

=============================================================================
