---------------------------- MODULE SharedHandle ----------------------------
(***************************************************************************)
(* What a reference-counted file descriptor promises to the goroutines     *)
(* that share it (the comment of type socketFD in                          *)
(* internal/sandbox/socket.go): ownership can only be taken until the      *)
(* descriptor is detached, and the descriptor is closed once, after the    *)
(* detachment and when the last owner has given it up.                     *)
(***************************************************************************)
CONSTANT Goroutines

VARIABLES
    owners,    \* the goroutines that own the descriptor
    detached,  \* TRUE once close was called
    closed     \* TRUE once the descriptor was closed

vars == <<owners, detached, closed>>

Init ==
    /\ owners = {}
    /\ detached = FALSE
    /\ closed = FALSE

Acquire(g) ==
    /\ ~detached
    /\ g \notin owners
    /\ owners' = owners \cup {g}
    /\ UNCHANGED <<detached, closed>>

Release(g) ==
    /\ g \in owners
    /\ owners' = owners \ {g}
    /\ UNCHANGED <<detached, closed>>

Detach ==
    /\ ~detached
    /\ detached' = TRUE
    /\ UNCHANGED <<owners, closed>>

CloseFD ==
    /\ detached
    /\ owners = {}
    /\ ~closed
    /\ closed' = TRUE
    /\ UNCHANGED <<owners, detached>>

Next ==
    \/ \E g \in Goroutines : Acquire(g) \/ Release(g)
    \/ Detach
    \/ CloseFD

Spec == Init /\ [][Next]_vars
=============================================================================
