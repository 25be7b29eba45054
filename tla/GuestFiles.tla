----------------------------- MODULE GuestFiles ------------------------------
(***************************************************************************)
(* The files of a guest: the file system that is mounted is a directory of *)
(* the host (DirFiles) or an image (ImageFiles); the same system calls     *)
(* (wasi.go) lead to either.                                               *)
(***************************************************************************)
EXTENDS DirFiles, ImageFiles

VARIABLE mount   \* what is mounted

gvars == <<mount, vars, ivars>>

NoDir ==
    /\ tree = (CHOOSE tr \in Trees : TRUE)
    /\ fds = [n \in 1 .. MaxFD |-> None] /\ files = <<>>
    /\ thr = [t \in Threads |-> idle] /\ calls = 0

NoImage ==
    /\ layers = <<>> /\ space = 0 /\ open = <<>> /\ stacks = <<>>
    /\ ocifiles = <<>> /\ dirs = <<>> /\ listed = <<>> /\ reads = 0

GInit ==
    \/ mount = "dir" /\ Init /\ NoImage
    \/ mount = "image" /\ IInit /\ NoDir

GNext ==
    \/ mount = "dir" /\ Next /\ UNCHANGED <<mount, ivars>>
    \/ mount = "image" /\ INext /\ UNCHANGED <<mount, vars>>

GSpec == GInit /\ [][GNext]_gvars

=============================================================================
