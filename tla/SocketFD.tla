------------------------------ MODULE SocketFD ------------------------------
(***************************************************************************)
(* socketFD (internal/sandbox/socket.go): the lock-free reference count    *)
(* that goroutines use to share a socket's file descriptor.  One 64 bits   *)
(* word packs the count (upper half) and the descriptor (lower half);      *)
(* acquire, release and close each load the word, compute its next value   *)
(* and try to install it with a compare-and-swap, in a loop.  The load and *)
(* the compare-and-swap are separate steps here, and so is the call of     *)
(* closeFD that follows a successful swap.                                 *)
(*                                                                         *)
(* A goroutine of the model is one acquire/release bracket: code that      *)
(* takes the reference twice is two goroutines here.                       *)
(***************************************************************************)
EXTENDS Integers, FiniteSets

CONSTANTS
    Goroutines,  \* the brackets that use the descriptor
    RefMod,      \* the values the 32 bits of the count can take (2^32)
    FD           \* the descriptor given to init

ASSUME GoroutinesAssumption == IsFiniteSet(Goroutines)
ASSUME RefModAssumption == RefMod \in Nat /\ Cardinality(Goroutines) < RefMod
ASSUME FDAssumption == FD \in Nat

VARIABLES
    state,   \* the atomic word: [refCount, fd], fd = -1 once detached
    pc,      \* where each goroutine is
    old,     \* oldState, the word each goroutine loaded last
    closes   \* how often closeFD was called on the descriptor

vars == <<state, pc, old, closes>>

Detached == -1

Word == [refCount : 0 .. RefMod - 1, fd : {FD, Detached}]

\* "holding" is the time between acquire's return and the call of release;
\* "closeFD" is the time between the swap and the call of closeFD.
PCs == {"idle", "acquireLoad", "acquireCAS", "holding",
        "releaseLoad", "releaseCAS", "closeLoad", "closeCAS", "closeFD"}

Moves(g, from, to) == pc[g] = from /\ pc' = [pc EXCEPT ![g] = to]

init ==
    /\ state = [refCount |-> 0, fd |-> FD]
    /\ pc = [g \in Goroutines |-> "idle"]
    /\ old = [g \in Goroutines |-> state]
    /\ closes = 0

-----------------------------------------------------------------------------
(* The calls a goroutine can make. *)

CallAcquire(g) == Moves(g, "idle", "acquireLoad") /\ UNCHANGED <<state, old, closes>>

CallRelease(g) == Moves(g, "holding", "releaseLoad") /\ UNCHANGED <<state, old, closes>>

CallClose(g) == Moves(g, "idle", "closeLoad") /\ UNCHANGED <<state, old, closes>>

-----------------------------------------------------------------------------
(* acquire: a detached descriptor makes it return -1 right after the load. *)

AcquireLoad(g) ==
    /\ Moves(g, "acquireLoad", IF state.fd = Detached THEN "idle" ELSE "acquireCAS")
    /\ old' = [old EXCEPT ![g] = state]
    /\ UNCHANGED <<state, closes>>

AcquireWord(w) == [w EXCEPT !.refCount = (@ + 1) % RefMod]

\* Mutant: acquire stores the word it computed instead of swapping it.
AcquireStore(g) ==
    /\ Moves(g, "acquireCAS", "holding")
    /\ state' = AcquireWord(old[g])
    /\ UNCHANGED <<old, closes>>

AcquireCAS(g) ==
    /\ \/ /\ state = old[g]
          /\ state' = AcquireWord(old[g])
          /\ Moves(g, "acquireCAS", "holding")
       \/ /\ state # old[g]
          /\ UNCHANGED state
          /\ Moves(g, "acquireCAS", "acquireLoad")
    /\ UNCHANGED <<old, closes>>

-----------------------------------------------------------------------------
(* releaseFunc: the goroutine that brings the count of a detached          *)
(* descriptor to zero closes it.                                           *)

ReleaseLoad(g) ==
    /\ Moves(g, "releaseLoad", "releaseCAS")
    /\ old' = [old EXCEPT ![g] = state]
    /\ UNCHANGED <<state, closes>>

ReleaseWord(w) == [w EXCEPT !.refCount = (@ - 1) % RefMod]

\* Mutant: release tests the count it loaded, not the one it installs.
LastReleaseOffByOne(w) == w.fd = Detached /\ w.refCount = 0

LastRelease(w) == w.fd = Detached /\ ReleaseWord(w).refCount = 0

ReleaseCAS(g) ==
    /\ \/ /\ state = old[g]
          /\ state' = ReleaseWord(old[g])
          /\ Moves(g, "releaseCAS", IF LastRelease(old[g]) THEN "closeFD" ELSE "idle")
       \/ /\ state # old[g]
          /\ UNCHANGED state
          /\ Moves(g, "releaseCAS", "releaseLoad")
    /\ UNCHANGED <<old, closes>>

-----------------------------------------------------------------------------
(* closeFunc: detaches the descriptor, and closes it if nobody owns it; a  *)
(* second call finds it detached and returns.                              *)

CloseLoad(g) ==
    /\ Moves(g, "closeLoad", IF state.fd = Detached THEN "idle" ELSE "closeCAS")
    /\ old' = [old EXCEPT ![g] = state]
    /\ UNCHANGED <<state, closes>>

CloseWord(w) == [w EXCEPT !.fd = Detached]

\* Mutant: close calls closeFD whether or not other goroutines own the fd.
CloseCASEager(g) ==
    /\ \/ /\ state = old[g]
          /\ state' = CloseWord(old[g])
          /\ Moves(g, "closeCAS", "closeFD")
       \/ /\ state # old[g]
          /\ UNCHANGED state
          /\ Moves(g, "closeCAS", "closeLoad")
    /\ UNCHANGED <<old, closes>>

CloseCAS(g) ==
    /\ \/ /\ state = old[g]
          /\ state' = CloseWord(old[g])
          /\ Moves(g, "closeCAS", IF old[g].refCount = 0 THEN "closeFD" ELSE "idle")
       \/ /\ state # old[g]
          /\ UNCHANGED state
          /\ Moves(g, "closeCAS", "closeLoad")
    /\ UNCHANGED <<old, closes>>

\* closeFD(fd): the descriptor number goes back to the kernel.
CloseFD(g) ==
    /\ Moves(g, "closeFD", "idle")
    /\ closes' = closes + 1
    /\ UNCHANGED <<state, old>>

-----------------------------------------------------------------------------
Call(g) == CallAcquire(g) \/ CallClose(g)

Step(g) ==
    \/ CallRelease(g)
    \/ AcquireLoad(g) \/ AcquireCAS(g)
    \/ ReleaseLoad(g) \/ ReleaseCAS(g)
    \/ CloseLoad(g) \/ CloseCAS(g)
    \/ CloseFD(g)

Next == \E g \in Goroutines : Call(g) \/ Step(g)

Spec == init /\ [][Next]_vars

\* A goroutine that is in a call goes on, and one that owns the descriptor
\* releases it (every acquire of the package is followed by a deferred
\* release).  Nobody has to call acquire or close.
FairSpec == Spec /\ \A g \in Goroutines : WF_vars(Step(g))

-----------------------------------------------------------------------------
(* Properties. *)

\* The goroutines that own the descriptor: acquire returned it and release
\* has not given it up yet.
Owners == {g \in Goroutines : pc[g] \in {"holding", "releaseLoad", "releaseCAS"}}

\* The goroutines that are about to call closeFD.
Closers == {g \in Goroutines : pc[g] = "closeFD"}

\* The word keeps its width: the count stays below 2^32 (RefMod) and no load
\* is of anything but a word.
TypeOK ==
    /\ state \in Word
    /\ pc \in [Goroutines -> PCs]
    /\ old \in [Goroutines -> Word]
    /\ closes \in Nat

\* The count in the packed word is the number of goroutines that own the
\* descriptor, whatever loads went stale before their compare-and-swap.
RefCountIsOwners == state.refCount = Cardinality(Owners)

\* The descriptor is never closed under a goroutine that acquire gave it to:
\* an owner may still read, write or poll it.
NoUseAfterClose == Owners # {} => closes = 0 /\ Closers = {}

\* closeFD is called at most once: after the first call the kernel may have
\* given the number to another file, which a second one would close.
ClosedAtMostOnce == closes + Cardinality(Closers) <= 1

\* A descriptor that close has not detached is open.
OpenUntilDetached == state.fd = FD => closes = 0 /\ Closers = {}

\* Once detached, the descriptor of a socketFD nobody owns has been closed or
\* has a goroutine that is about to: it cannot leak.
NoLeak == state.fd = Detached /\ Owners = {} => closes = 1 \/ Closers # {}

\* What sharing the descriptor relies on: the count is that of the owners,
\* the descriptor is closed once, after its last owner has given it up, and
\* it is closed for certain.
Safety == RefCountIsOwners /\ NoUseAfterClose /\ ClosedAtMostOnce /\ NoLeak

\* A goroutine about to swap the word for acquire or close loaded an attached
\* descriptor; otherwise it would have returned.
LoadedAttached ==
    \A g \in Goroutines : pc[g] \in {"acquireCAS", "closeCAS"} => old[g].fd = FD

\* The inductive invariant.
IInv ==
    /\ TypeOK
    /\ RefCountIsOwners
    /\ LoadedAttached
    /\ OpenUntilDetached
    /\ NoUseAfterClose
    /\ ClosedAtMostOnce
    /\ NoLeak

\* No goroutine becomes an owner once close has detached the descriptor, even
\* one whose acquire loaded the word before.
NoAcquireAfterClose == [][state.fd = Detached => Owners' \subseteq Owners]_vars

\* "guaranteeing that it will eventually be closed"
EventuallyClosed == (state.fd = Detached) ~> (closes = 1)

\* The lock-free implementation is an atomic shared handle.
Handle == INSTANCE SharedHandle WITH
    owners <- Owners,
    detached <- state.fd = Detached,
    closed <- closes > 0

HandleSpec == Handle!Spec
=============================================================================
