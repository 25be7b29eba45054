---------------------------- MODULE MCGuestFiles -----------------------------
(***************************************************************************)
(* Small trees and images for GuestFiles.                                  *)
(***************************************************************************)
EXTENDS GuestFiles

S == "/"

-----------------------------------------------------------------------------
(* Directories of the host: in the one that is mounted a directory with a  *)
(* file and a link, and a link.  The links lead to a file, out of the      *)
(* directory, or to each other.                                            *)

MCNodes == {"top", "out", "root", "A", "F", "K", "L", "new"}
Inode(kind, ents, target, up) == [kind |-> kind, ents |-> ents, target |-> target, up |-> up]

Tree(k, l) ==
    [top |-> Inode("dir", "out" :> "out", <<>>, "top"),
     out |-> Inode("dir", "mnt" :> "root", <<>>, "top"),
     root |-> Inode("dir", ("a" :> "A") @@ ("l" :> "L"), <<>>, "out"),
     A |-> Inode("dir", ("f" :> "F") @@ ("k" :> "K"), <<>>, "root"),
     F |-> Inode("file", <<>>, <<>>, "A"),
     K |-> Inode("link", <<>>, k, "A"),
     L |-> Inode("link", <<>>, l, "root"),
     new |-> Inode("free", <<>>, <<>>, "out")]

MCTrees ==
    {Tree(<<"..", S, "l", S, "f">>, <<"a">>),
     Tree(<<"..", S, "..", S, "mnt">>, <<S, "a", S, "k">>),
     Tree(<<S, "l">>, <<"a", S, "k">>)}

Call == [op |-> "", sys |-> "PathOpen", fsys |-> FALSE, follow |-> TRUE, directory |-> FALSE, creat |-> FALSE,
         path |-> <<>>, path2 |-> <<>>, target |-> <<>>]

MCRequests ==
    {[Call EXCEPT !.path = p] : p \in {<<"a">>, <<"l">>, <<"l", S, "f">>, <<"a", S, "..", S, ".">>, <<"..", S>>}}
    \cup {[Call EXCEPT !.path = <<S, "a", S, "x">>, !.creat = TRUE, !.fsys = TRUE],
          [Call EXCEPT !.path = <<S>>, !.fsys = TRUE],
          [Call EXCEPT !.sys = "PathFileStatGet", !.path = <<"a", S, S, "k", S>>],
          [Call EXCEPT !.sys = "PathFileStatGet", !.path = <<"..", S, "..">>],
          [Call EXCEPT !.sys = "PathFileStatSetTimes", !.path = <<"l", S, "..">>],
          [Call EXCEPT !.sys = "PathReadLink", !.path = <<"l">>],
          [Call EXCEPT !.sys = "FDFileStatSetTimes"],
          [Call EXCEPT !.sys = "PathCreateDirectory", !.path = <<"a", S, "m">>],
          [Call EXCEPT !.sys = "PathUnlinkFile", !.path = <<"a", S, "f">>],
          [Call EXCEPT !.sys = "PathRemoveDirectory", !.path = <<"m">>],
          [Call EXCEPT !.sys = "PathSymlink", !.path = <<"b">>, !.target = <<"..", S, "..">>],
          [Call EXCEPT !.sys = "PathRename", !.path = <<"a">>, !.path2 = <<"l", S, "..", S, "b">>],
          [Call EXCEPT !.sys = "PathLink", !.path = <<"f">>, !.path2 = <<"l", S, "x">>],
          [Call EXCEPT !.sys = "FDRead"]}

Symmetric == Permutations(Threads)

-----------------------------------------------------------------------------
(* Images: layers that hide a file, make a directory opaque, replace a     *)
(* directory by a file and the file by a directory, are mounted below a    *)
(* directory.                                                              *)

Header(type, name) == [type |-> type, name |-> name, target |-> <<>>]
LinkTo(type, name, target) == [type |-> type, name |-> name, target |-> target]
In(dir, headers) == [dir |-> dir, headers |-> headers]

Base == <<Header("dir", <<"a">>), Header("file", <<"a", S, "x">>),
          Header("dir", <<"a", S, "b">>), Header("file", <<"a", S, "b", S, "y">>),
          LinkTo("link", <<"l">>, <<"a", S, "b">>), LinkTo("hard", <<"a", S, "z">>, <<"l">>)>>
Hiding == <<Header("dir", <<"a">>), Header("whiteout", <<"a", S, "x">>), Header("whiteout", <<"a", S, "z">>),
            Header("dir", <<"a", S, "b">>), Header("opaque", <<"a", S, "b">>), Header("file", <<"n">>)>>
Replacing == <<Header("dir", <<"l">>), Header("file", <<"l", S, "k">>), Header("file", <<"a">>)>>
Upper == <<Header("dir", <<"a">>), LinkTo("link", <<"a", S, "up">>, <<"..", S, "n">>), Header("other", <<"d">>)>>
Duplicate == Append(Base, Header("file", <<"a", S, "x">>))

Image(ls, size) == [layers |-> ls, buffer |-> size]

\* A buffer of 7 ends inside every fourth entry, one of 8 behind it.
MCImages ==
    {Image(<<In(<<>>, Base), In(<<>>, Hiding), In(<<>>, Upper)>>, 8),
     Image(<<In(<<>>, Base), In(<<>>, Replacing), In(<<>>, Upper)>>, 7),
     Image(<<In(<<>>, Base), In(<<"a">>, Upper)>>, 8),
     Image(<<In(<<>>, Base), In(<<>>, Hiding)>>, 7),
     Image(<<In(<<>>, Duplicate)>>, 8)}

MCReadSizes == {<<1, 3>>, <<3, 1>>, <<3, 3>>}

Question == [op |-> "open", follow |-> TRUE, directory |-> FALSE, mode |-> 0, path |-> <<>>, path2 |-> <<>>]

MCAsked ==
    {[Question EXCEPT !.path = p] :
        p \in {<<"a">>, <<"l">>, <<"a", S, "x">>, <<"..">>, <<"a", S, "up">>, <<S, "a", S, "b", S>>}}
    \cup {[Question EXCEPT !.op = "stat", !.path = p] :
        p \in {<<"d">>, <<"n">>, <<"a", S, "x">>, <<"a", S, "z">>, <<"l", S, "y">>, <<"a", S, "a", S, "up">>,
               <<"a", S, "..", S, "a", S, "b">>}}
    \cup {[Question EXCEPT !.path = <<"l">>, !.follow = FALSE],
          [Question EXCEPT !.path = <<"a">>, !.directory = TRUE, !.mode = 1],
          [Question EXCEPT !.op = "write"], [Question EXCEPT !.op = "setflags"],
          [Question EXCEPT !.op = "chtimes"],
          [Question EXCEPT !.op = "mkdir", !.path = <<"a", S, "b", S, "..", S, "m">>],
          [Question EXCEPT !.op = "unlink", !.path = <<"l", S, "y">>],
          [Question EXCEPT !.op = "rename", !.path = <<"a", S, "x">>, !.path2 = <<S, "l", S, "x">>],
          [Question EXCEPT !.op = "link", !.path = <<"x">>, !.path2 = <<"a", S, "b", S, "k">>]}

=============================================================================
