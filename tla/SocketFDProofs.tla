--------------------------- MODULE SocketFDProofs ---------------------------
(***************************************************************************)
(* Proofs about SocketFD, for any finite set of goroutines and any width   *)
(* of the count that the goroutines cannot wrap.                           *)
(***************************************************************************)
EXTENDS SocketFD, FiniteSetTheorems, TLAPS

-----------------------------------------------------------------------------
(* Types. *)

\* Arithmetic modulo the width of the count stays within the width.
LEMMA ModRange ==
    ASSUME NEW a \in Int
    PROVE  a % RefMod \in 0 .. RefMod - 1
<1>1. RefMod \in Nat \ {0}
    BY RefModAssumption, GoroutinesAssumption, FS_CardinalityType
<1> QED
    BY <1>1

\* The three words that the compare-and-swaps install are words.
LEMMA WordClosed ==
    ASSUME NEW w \in Word
    PROVE  AcquireWord(w) \in Word /\ ReleaseWord(w) \in Word /\ CloseWord(w) \in Word
<1>1. w.refCount \in Int /\ RefMod \in Nat
    BY RefModAssumption DEF Word
<1>2. (w.refCount + 1) % RefMod \in 0 .. RefMod - 1
    BY <1>1, ModRange
<1>3. (w.refCount - 1) % RefMod \in 0 .. RefMod - 1
    BY <1>1, ModRange
<1> QED
    BY <1>2, <1>3 DEF Word, AcquireWord, ReleaseWord, CloseWord

\* Every reachable state of socketFD is well typed: in particular the count
\* never leaves its 32 bits.
THEOREM TypeCorrect == Spec => []TypeOK
<1>1. init => TypeOK
    <2>1. RefMod > 0
        BY RefModAssumption, GoroutinesAssumption, FS_CardinalityType
    <2> QED
        BY <2>1, RefModAssumption DEF init, TypeOK, Word, PCs
<1>2. TypeOK /\ [Next]_vars => TypeOK'
    <2> SUFFICES ASSUME TypeOK, [Next]_vars
                 PROVE  TypeOK'
        OBVIOUS
    <2> USE DEF TypeOK
    <2>1. CASE UNCHANGED vars
        BY <2>1 DEF vars
    <2>2. ASSUME NEW g \in Goroutines, Call(g) \/ Step(g)
          PROVE  TypeOK'
        <3>1. old[g] \in Word
            OBVIOUS
        <3>2. CASE CallAcquire(g) \/ CallRelease(g) \/ CallClose(g)
            BY <3>2 DEF CallAcquire, CallRelease, CallClose, Moves, PCs
        <3>3. CASE AcquireLoad(g) \/ ReleaseLoad(g) \/ CloseLoad(g)
            BY <3>3 DEF AcquireLoad, ReleaseLoad, CloseLoad, Moves, PCs
        <3>4. CASE AcquireCAS(g) \/ ReleaseCAS(g) \/ CloseCAS(g)
            BY <3>1, <3>4, WordClosed DEF AcquireCAS, ReleaseCAS, CloseCAS, Moves, PCs
        <3>5. CASE CloseFD(g)
            BY <3>5 DEF CloseFD, Moves, PCs
        <3> QED
            BY <2>2, <3>2, <3>3, <3>4, <3>5 DEF Call, Step
    <2> QED
        BY <2>1, <2>2 DEF Next
<1> QED
    BY <1>1, <1>2, PTL DEF Spec

-----------------------------------------------------------------------------
(* The inductive invariant. *)

\* Below the width of the count, modular and ordinary arithmetic agree.
LEMMA ModSmall ==
    ASSUME NEW a \in 0 .. RefMod - 1
    PROVE  a % RefMod = a
BY RefModAssumption

\* The owners and the closers are finite sets, and fewer than RefMod.
LEMMA FiniteOwners ==
    ASSUME TypeOK
    PROVE  /\ IsFiniteSet(Owners) /\ Cardinality(Owners) \in 0 .. RefMod - 1
           /\ IsFiniteSet(Closers) /\ Cardinality(Closers) \in Nat
<1>1. Owners \subseteq Goroutines /\ Closers \subseteq Goroutines
    BY DEF Owners, Closers
<1>2. /\ IsFiniteSet(Owners) /\ Cardinality(Owners) <= Cardinality(Goroutines)
      /\ IsFiniteSet(Closers)
    BY <1>1, GoroutinesAssumption, FS_Subset
<1>3. Cardinality(Owners) \in Nat /\ Cardinality(Closers) \in Nat
      /\ Cardinality(Goroutines) \in Nat
    BY <1>2, GoroutinesAssumption, FS_CardinalityType
<1> QED
    BY <1>2, <1>3, RefModAssumption

\* The initial state: no owner, no closer, an attached descriptor.
LEMMA InitIInv == init => IInv
<1> SUFFICES ASSUME init PROVE IInv
    OBVIOUS
<1>1. TypeOK
    <2>1. RefMod > 0
        BY RefModAssumption, GoroutinesAssumption, FS_CardinalityType
    <2> QED
        BY <2>1, RefModAssumption DEF init, TypeOK, Word, PCs
<1>2. Owners = {} /\ Closers = {}
    BY DEF init, Owners, Closers
<1>3. Cardinality(Owners) = 0 /\ Cardinality(Closers) = 0
    BY <1>2, FS_EmptySet
<1> QED
    BY <1>1, <1>2, <1>3, FDAssumption
    DEF init, IInv, RefCountIsOwners, LoadedAttached, OpenUntilDetached,
        NoUseAfterClose, ClosedAtMostOnce, NoLeak, Detached

\* Steps that change neither the owners nor the closers nor the word: the
\* loads, the calls and the failed swaps.
LEMMA QuietStep ==
    ASSUME IInv, TypeOK', UNCHANGED <<state, closes>>,
           Owners' = Owners, Closers' = Closers, LoadedAttached'
    PROVE  IInv'
BY DEF IInv, RefCountIsOwners, OpenUntilDetached, NoUseAfterClose, ClosedAtMostOnce, NoLeak

\* acquire's swap adds an owner to a descriptor that is attached, hence open.
LEMMA AcquireSwap ==
    ASSUME IInv, TypeOK', NEW g \in Goroutines, pc[g] = "acquireCAS",
           state = old[g], state' = AcquireWord(old[g]),
           pc' = [pc EXCEPT ![g] = "holding"], UNCHANGED <<old, closes>>
    PROVE  IInv'
<1> USE DEF IInv
<1>1. state.fd = FD /\ closes = 0 /\ Closers = {}
    BY DEF LoadedAttached, OpenUntilDetached
<1>2. Owners' = Owners \cup {g} /\ g \notin Owners
    BY DEF TypeOK, Owners
<1>3. Closers' = {}
    BY <1>1 DEF TypeOK, Closers
<1>4. Cardinality(Owners') = Cardinality(Owners) + 1
    BY <1>2, FiniteOwners, FS_AddElement
<1>5. Cardinality(Owners') \in 0 .. RefMod - 1
    <2>1. Owners' \subseteq Goroutines
        BY DEF Owners
    <2>2. Cardinality(Owners') <= Cardinality(Goroutines)
        BY <2>1, GoroutinesAssumption, FS_Subset
    <2>3. Cardinality(Owners) \in Nat /\ Cardinality(Goroutines) \in Nat
        BY FiniteOwners, GoroutinesAssumption, FS_CardinalityType
    <2> QED
        BY <1>4, <2>2, <2>3, RefModAssumption
<1>6. state'.refCount = (state.refCount + 1) % RefMod /\ state'.fd = FD
    BY <1>1 DEF AcquireWord, TypeOK, Word
<1>7. state'.refCount = Cardinality(Owners')
    BY <1>4, <1>5, <1>6, ModSmall DEF RefCountIsOwners
<1>8. LoadedAttached'
    BY DEF LoadedAttached, TypeOK
<1>9. Cardinality(Closers') = 0
    BY <1>3, FS_EmptySet
<1> QED
    BY <1>1, <1>3, <1>6, <1>7, <1>8, <1>9, FDAssumption
    DEF RefCountIsOwners, OpenUntilDetached, NoUseAfterClose, ClosedAtMostOnce, NoLeak, Detached

\* release's swap removes an owner; the last owner of a detached descriptor
\* becomes its only closer.
LEMMA ReleaseSwap ==
    ASSUME IInv, TypeOK', NEW g \in Goroutines, pc[g] = "releaseCAS",
           state = old[g], state' = ReleaseWord(old[g]),
           pc' = [pc EXCEPT ![g] = IF LastRelease(old[g]) THEN "closeFD" ELSE "idle"],
           UNCHANGED <<old, closes>>
    PROVE  IInv'
<1> USE DEF IInv
<1>1. g \in Owners /\ closes = 0 /\ Closers = {}
    BY DEF TypeOK, Owners, NoUseAfterClose
<1>2. Owners' = Owners \ {g}
    BY DEF TypeOK, Owners
<1>3. IsFiniteSet(Owners') /\ Cardinality(Owners') = Cardinality(Owners) - 1
    BY <1>1, <1>2, FiniteOwners, FS_RemoveElement
<1>4. Cardinality(Owners') \in 0 .. RefMod - 1
    <2>1. Cardinality(Owners') \in Nat
        BY <1>3, FS_CardinalityType
    <2>2. Cardinality(Owners) \in 0 .. RefMod - 1
        BY FiniteOwners
    <2> QED
        BY <1>3, <2>1, <2>2, RefModAssumption
<1>5. state'.refCount = (state.refCount - 1) % RefMod /\ state'.fd = state.fd
    BY DEF ReleaseWord, TypeOK, Word
<1>6. state'.refCount = Cardinality(Owners')
    BY <1>3, <1>4, <1>5, FiniteOwners, ModSmall DEF RefCountIsOwners
<1>7. Owners' = {} <=> state'.refCount = 0
    BY <1>3, <1>6, FS_EmptySet
<1>8. LastRelease(old[g]) <=> state.fd = Detached /\ Owners' = {}
    BY <1>7 DEF LastRelease
<1>9. LoadedAttached'
    BY DEF LoadedAttached, TypeOK
<1>10. CASE LastRelease(old[g])
    <2>1. Closers' = {g}
        BY <1>1, <1>10 DEF TypeOK, Closers
    <2>2. Cardinality(Closers') = 1
        BY <2>1, FS_Singleton
    <2> QED
        BY <1>1, <1>5, <1>6, <1>8, <1>9, <1>10, <2>1, <2>2, FDAssumption
        DEF RefCountIsOwners, OpenUntilDetached, NoUseAfterClose, ClosedAtMostOnce, NoLeak,
            Detached
<1>11. CASE ~LastRelease(old[g])
    <2>1. Closers' = {}
        BY <1>1, <1>11 DEF TypeOK, Closers
    <2>2. Cardinality(Closers') = 0
        BY <2>1, FS_EmptySet
    <2> QED
        BY <1>1, <1>5, <1>6, <1>8, <1>9, <1>11, <2>1, <2>2, FDAssumption
        DEF RefCountIsOwners, OpenUntilDetached, NoUseAfterClose, ClosedAtMostOnce, NoLeak,
            Detached
<1> QED
    BY <1>10, <1>11

\* close's swap detaches an open descriptor; without owners, the goroutine
\* becomes its only closer.
LEMMA CloseSwap ==
    ASSUME IInv, TypeOK', NEW g \in Goroutines, pc[g] = "closeCAS",
           state = old[g], state' = CloseWord(old[g]),
           pc' = [pc EXCEPT ![g] = IF old[g].refCount = 0 THEN "closeFD" ELSE "idle"],
           UNCHANGED <<old, closes>>
    PROVE  IInv'
<1> USE DEF IInv
<1>1. state.fd = FD /\ closes = 0 /\ Closers = {}
    BY DEF LoadedAttached, OpenUntilDetached
<1>2. Owners' = Owners
    BY DEF TypeOK, Owners
<1>3. state'.refCount = state.refCount /\ state'.fd = Detached
    BY DEF CloseWord, TypeOK, Word
<1>4. Owners = {} <=> state.refCount = 0
    BY FiniteOwners, FS_EmptySet DEF RefCountIsOwners
<1>5. LoadedAttached'
    BY DEF LoadedAttached, TypeOK
<1>6. CASE state.refCount = 0
    <2>1. Closers' = {g}
        BY <1>1, <1>6 DEF TypeOK, Closers
    <2>2. Cardinality(Closers') = 1
        BY <2>1, FS_Singleton
    <2> QED
        BY <1>1, <1>2, <1>3, <1>4, <1>5, <1>6, <2>1, <2>2, FDAssumption
        DEF RefCountIsOwners, OpenUntilDetached, NoUseAfterClose, ClosedAtMostOnce, NoLeak,
            Detached
<1>7. CASE state.refCount # 0
    <2>1. Closers' = {}
        BY <1>1, <1>7 DEF TypeOK, Closers
    <2>2. Cardinality(Closers') = 0
        BY <2>1, FS_EmptySet
    <2> QED
        BY <1>1, <1>2, <1>3, <1>4, <1>5, <1>7, <2>1, <2>2, FDAssumption
        DEF RefCountIsOwners, OpenUntilDetached, NoUseAfterClose, ClosedAtMostOnce, NoLeak,
            Detached
<1> QED
    BY <1>6, <1>7

\* closeFD: the one closer leaves and the descriptor is closed.
LEMMA CloseFDStep ==
    ASSUME IInv, TypeOK', NEW g \in Goroutines, CloseFD(g)
    PROVE  IInv'
<1> USE DEF IInv
<1>1. g \in Closers
    BY DEF CloseFD, Moves, TypeOK, Closers
<1>2. state.fd = Detached /\ Owners = {}
    BY <1>1 DEF OpenUntilDetached, NoUseAfterClose, TypeOK, Word
<1>3. Closers' = Closers \ {g} /\ Owners' = Owners
    BY DEF CloseFD, Moves, TypeOK, Closers, Owners
<1>4. Cardinality(Closers') = Cardinality(Closers) - 1 /\ Cardinality(Closers) \in Nat
      /\ IsFiniteSet(Closers')
    BY <1>1, <1>3, FiniteOwners, FS_RemoveElement
<1>5. Cardinality(Closers') \in Nat
    BY <1>4, FS_CardinalityType
<1>6. closes = 0 /\ Cardinality(Closers') = 0 /\ closes' = 1
    BY <1>4, <1>5 DEF ClosedAtMostOnce, TypeOK, CloseFD
<1>7. Closers' = {}
    BY <1>4, <1>6, FS_EmptySet
<1>8. LoadedAttached'
    BY DEF LoadedAttached, TypeOK, CloseFD, Moves
<1> QED
    BY <1>2, <1>3, <1>6, <1>7, <1>8, FDAssumption
    DEF RefCountIsOwners, OpenUntilDetached, NoUseAfterClose, ClosedAtMostOnce, NoLeak,
        Detached, CloseFD

\* Every step preserves the inductive invariant.
LEMMA NextIInv == IInv /\ TypeOK' /\ [Next]_vars => IInv'
<1> SUFFICES ASSUME IInv, TypeOK', [Next]_vars
             PROVE  IInv'
    OBVIOUS
<1>1. CASE UNCHANGED vars
    <2>1. Owners' = Owners /\ Closers' = Closers /\ LoadedAttached'
        BY <1>1 DEF vars, Owners, Closers, LoadedAttached, IInv
    <2> QED
        BY <1>1, <2>1, QuietStep DEF vars
<1>2. ASSUME NEW g \in Goroutines, Call(g) \/ Step(g)
      PROVE  IInv'
    <2> DEFINE Quiet == /\ UNCHANGED <<state, closes>>
                        /\ Owners' = Owners /\ Closers' = Closers /\ LoadedAttached'
    <2>1. CASE CallAcquire(g) \/ CallRelease(g) \/ CallClose(g)
        <3>1. Quiet
            BY <2>1 DEF CallAcquire, CallRelease, CallClose, Moves, IInv, TypeOK,
                        Owners, Closers, LoadedAttached
        <3> QED
            BY <3>1, QuietStep
    <2>2. CASE AcquireLoad(g) \/ ReleaseLoad(g) \/ CloseLoad(g)
        <3>1. state.fd \in {FD, Detached}
            BY DEF IInv, TypeOK, Word
        <3>2. Quiet
            BY <2>2, <3>1 DEF AcquireLoad, ReleaseLoad, CloseLoad, Moves, IInv, TypeOK,
                        Owners, Closers, LoadedAttached
        <3> QED
            BY <3>2, QuietStep
    <2>3. CASE AcquireCAS(g)
        <3>1. CASE state = old[g]
            BY <2>3, <3>1, AcquireSwap DEF AcquireCAS, Moves
        <3>2. CASE state # old[g]
            <4>1. Quiet
                BY <2>3, <3>2 DEF AcquireCAS, Moves, IInv, TypeOK, Owners, Closers, LoadedAttached
            <4> QED
                BY <4>1, QuietStep
        <3> QED
            BY <3>1, <3>2
    <2>4. CASE ReleaseCAS(g)
        <3>1. CASE state = old[g]
            BY <2>4, <3>1, ReleaseSwap DEF ReleaseCAS, Moves
        <3>2. CASE state # old[g]
            <4>1. Quiet
                BY <2>4, <3>2 DEF ReleaseCAS, Moves, IInv, TypeOK, Owners, Closers, LoadedAttached
            <4> QED
                BY <4>1, QuietStep
        <3> QED
            BY <3>1, <3>2
    <2>5. CASE CloseCAS(g)
        <3>1. CASE state = old[g]
            BY <2>5, <3>1, CloseSwap DEF CloseCAS, Moves
        <3>2. CASE state # old[g]
            <4>1. Quiet
                BY <2>5, <3>2 DEF CloseCAS, Moves, IInv, TypeOK, Owners, Closers, LoadedAttached
            <4> QED
                BY <4>1, QuietStep
        <3> QED
            BY <3>1, <3>2
    <2>6. CASE CloseFD(g)
        BY <2>6, CloseFDStep
    <2> QED
        BY <1>2, <2>1, <2>2, <2>3, <2>4, <2>5, <2>6 DEF Call, Step
<1> QED
    BY <1>1, <1>2 DEF Next

\* The inductive invariant holds in every reachable state.
THEOREM Invariance == Spec => []IInv
<1>1. Spec => []TypeOK
    BY TypeCorrect
<1> QED
    BY <1>1, InitIInv, NextIInv, PTL DEF Spec

\* The packed count is the number of owners, the descriptor is never closed
\* under an owner, never closed twice and never leaked, for any number of
\* goroutines.
THEOREM SafetyHolds == Spec => []Safety
<1>1. IInv => Safety
    BY DEF IInv, Safety
<1> QED
    BY <1>1, Invariance, PTL

\* A detached descriptor without owners is closed or about to be.
THEOREM NoLeakHolds == Spec => []NoLeak
<1>1. IInv => NoLeak
    BY DEF IInv
<1> QED
    BY <1>1, Invariance, PTL

-----------------------------------------------------------------------------
(* The action property. *)

\* No step of any goroutine adds an owner to a detached descriptor: acquire's
\* swap fails if close's came after its load.
THEOREM NoAcquireAfterCloseHolds == Spec => NoAcquireAfterClose
<1>1. IInv /\ [Next]_vars => [state.fd = Detached => Owners' \subseteq Owners]_vars
    <2> SUFFICES ASSUME IInv, Next, state.fd = Detached
                 PROVE  Owners' \subseteq Owners
        BY DEF IInv
    <2>1. PICK g \in Goroutines : Call(g) \/ Step(g)
        BY DEF Next
    <2>2. CASE AcquireCAS(g)
        <3>1. state # old[g]
            BY <2>2, FDAssumption DEF AcquireCAS, Moves, IInv, LoadedAttached, Detached
        <3> QED
            BY <2>2, <3>1 DEF AcquireCAS, Moves, IInv, TypeOK, Owners
    <2>3. CASE Call(g) \/ CallRelease(g)
        BY <2>3 DEF Call, CallAcquire, CallRelease, CallClose, Moves, IInv, TypeOK, Owners
    <2>4. CASE AcquireLoad(g) \/ ReleaseLoad(g) \/ CloseLoad(g)
        BY <2>4 DEF AcquireLoad, ReleaseLoad, CloseLoad, Moves, IInv, TypeOK, Owners
    <2>5. CASE ReleaseCAS(g) \/ CloseCAS(g) \/ CloseFD(g)
        BY <2>5 DEF ReleaseCAS, CloseCAS, CloseFD, Moves, IInv, TypeOK, Owners
    <2> QED
        BY <2>1, <2>2, <2>3, <2>4, <2>5 DEF Step
<1> QED
    BY <1>1, Invariance, PTL DEF Spec, NoAcquireAfterClose

-----------------------------------------------------------------------------
(* Refinement. *)

\* Every step of the lock-free implementation is an atomic step of the shared
\* handle, or leaves the handle as it is.
LEMMA HandleStep == IInv /\ IInv' /\ [Next]_vars => [Handle!Next]_(Handle!vars)
<1> SUFFICES ASSUME IInv, IInv', [Next]_vars
             PROVE  Handle!Next \/ UNCHANGED Handle!vars
    OBVIOUS
<1> USE DEF IInv
<1>1. CASE UNCHANGED vars
    BY <1>1 DEF vars, Handle!vars, Owners
<1>2. ASSUME NEW g \in Goroutines, Call(g) \/ Step(g)
      PROVE  Handle!Next \/ UNCHANGED Handle!vars
    <2>1. CASE Call(g) \/ CallRelease(g)
        <3>1. Owners' = Owners /\ UNCHANGED <<state, closes>>
            BY <2>1 DEF Call, CallAcquire, CallRelease, CallClose, Moves, TypeOK, Owners
        <3> QED
            BY <3>1 DEF Handle!vars
    <2>2. CASE AcquireLoad(g) \/ ReleaseLoad(g) \/ CloseLoad(g)
        <3>1. Owners' = Owners /\ UNCHANGED <<state, closes>>
            BY <2>2 DEF AcquireLoad, ReleaseLoad, CloseLoad, Moves, TypeOK, Owners
        <3> QED
            BY <3>1 DEF Handle!vars
    <2>3. CASE AcquireCAS(g)
        <3>1. CASE state = old[g]
            <4>1. state.fd = FD /\ state.fd # Detached
                BY <2>3, <3>1, FDAssumption DEF AcquireCAS, Moves, LoadedAttached, Detached
            <4>2. g \notin Owners /\ Owners' = Owners \cup {g}
                BY <2>3, <3>1 DEF AcquireCAS, Moves, TypeOK, Owners
            <4>3. state'.fd = state.fd /\ closes' = closes
                BY <2>3, <3>1 DEF AcquireCAS, AcquireWord, TypeOK, Word
            <4>4. Handle!Acquire(g)
                BY <4>1, <4>2, <4>3 DEF Handle!Acquire
            <4> QED
                BY <4>4 DEF Handle!Next
        <3>2. CASE state # old[g]
            <4>1. Owners' = Owners /\ UNCHANGED <<state, closes>>
                BY <2>3, <3>2 DEF AcquireCAS, Moves, TypeOK, Owners
            <4> QED
                BY <4>1 DEF Handle!vars
        <3> QED
            BY <3>1, <3>2
    <2>4. CASE ReleaseCAS(g)
        <3>1. CASE state = old[g]
            <4>1. g \in Owners /\ Owners' = Owners \ {g}
                BY <2>4, <3>1 DEF ReleaseCAS, Moves, TypeOK, Owners
            <4>2. state'.fd = state.fd /\ closes' = closes
                BY <2>4, <3>1 DEF ReleaseCAS, ReleaseWord, TypeOK, Word
            <4>3. Handle!Release(g)
                BY <4>1, <4>2 DEF Handle!Release
            <4> QED
                BY <4>3 DEF Handle!Next
        <3>2. CASE state # old[g]
            <4>1. Owners' = Owners /\ UNCHANGED <<state, closes>>
                BY <2>4, <3>2 DEF ReleaseCAS, Moves, TypeOK, Owners
            <4> QED
                BY <4>1 DEF Handle!vars
        <3> QED
            BY <3>1, <3>2
    <2>5. CASE CloseCAS(g)
        <3>1. CASE state = old[g]
            <4>1. state.fd # Detached
                BY <2>5, <3>1, FDAssumption DEF CloseCAS, Moves, LoadedAttached, Detached
            <4>2. Owners' = Owners
                BY <2>5, <3>1 DEF CloseCAS, Moves, TypeOK, Owners
            <4>3. state'.fd = Detached /\ closes' = closes
                BY <2>5, <3>1 DEF CloseCAS, CloseWord, TypeOK, Word
            <4>4. Handle!Detach
                BY <4>1, <4>2, <4>3 DEF Handle!Detach
            <4> QED
                BY <4>4 DEF Handle!Next
        <3>2. CASE state # old[g]
            <4>1. Owners' = Owners /\ UNCHANGED <<state, closes>>
                BY <2>5, <3>2 DEF CloseCAS, Moves, TypeOK, Owners
            <4> QED
                BY <4>1 DEF Handle!vars
        <3> QED
            BY <3>1, <3>2
    <2>6. CASE CloseFD(g)
        <3>1. g \in Closers
            BY <2>6 DEF CloseFD, Moves, TypeOK, Closers
        <3>2. state.fd = Detached /\ Owners = {}
            BY <3>1 DEF OpenUntilDetached, NoUseAfterClose, TypeOK, Word
        <3>3. Cardinality(Closers) \in Nat /\ Cardinality(Closers) # 0
            BY <3>1, FiniteOwners, FS_EmptySet
        <3>4. closes = 0
            BY <3>3 DEF ClosedAtMostOnce, TypeOK
        <3>5. Owners' = Owners /\ state' = state /\ closes' = 1
            BY <2>6, <3>4 DEF CloseFD, Moves, TypeOK, Owners
        <3>6. Handle!CloseFD
            BY <3>2, <3>4, <3>5 DEF Handle!CloseFD
        <3> QED
            BY <3>6 DEF Handle!Next
    <2> QED
        BY <1>2, <2>1, <2>2, <2>3, <2>4, <2>5, <2>6 DEF Step
<1> QED
    BY <1>1, <1>2 DEF Next

\* socketFD implements the shared handle of its documentation.
THEOREM ImplementsHandle == Spec => HandleSpec
<1>1. init => Handle!Init
    <2> SUFFICES ASSUME init PROVE Handle!Init
        OBVIOUS
    <2>1. Owners = {}
        BY DEF init, Owners
    <2> QED
        BY <2>1, FDAssumption DEF init, Handle!Init, Detached
<1> QED
    BY <1>1, Invariance, HandleStep, PTL DEF Spec, HandleSpec, Handle!Spec
=============================================================================
