-------------------------- MODULE GuestProcessProofs -------------------------
(***************************************************************************)
(* Proofs about GuestProcess, for any timeouts, any delay between the      *)
(* steps of a poll and any guests that sleep.                              *)
(*                                                                         *)
(* The argument: where the goroutine of a process is tells what it holds   *)
(* (HeldByPlace), whether it is registered (RegisteredByPlace) and which   *)
(* ends of its pipe are open (PipeByPlace); the descriptor of Kill is      *)
(* closed once because its number is forgotten by whoever closes it.       *)
(***************************************************************************)
EXTENDS GuestProcess, FiniteSetTheorems, TLAPS

-----------------------------------------------------------------------------
(* Induction, from the well-foundedness of the orders of numbers and of    *)
(* finite sets, with sets in place of predicates.                          *)

\* A set of natural numbers that is not empty has a least element.
LEMMA NatLeast ==
    ASSUME NEW T \in SUBSET Nat, T # {}
    PROVE  \E m \in T : \A n \in T : m <= n
  <1> DEFINE R == OpToRel(<, Nat)
  <1>1. IsWellFoundedOn(R, Nat)
    BY NatLessThanWellFounded DEF OpToRel
  <1>2. PICK m \in T : \A n \in T : ~(<<n, m>> \in R)
    <2> HIDE DEF R
    <2> QED
      BY <1>1, WFMin
  <1>3. \A n \in T : ~(n < m)
    BY <1>2 DEF OpToRel
  <1> QED
    BY <1>3

\* A family that has the empty set, and a subset of S when it has those with
\* one element less, has S if S is finite.
LEMMA FiniteSubsetInduction ==
    ASSUME NEW S, IsFiniteSet(S), NEW F, {} \in F,
           \A T \in SUBSET S : (T # {} /\ \A x \in T : T \ {x} \in F) => T \in F
    PROVE  S \in F
  <1> DEFINE R == StrictSubsetOrdering(S)
             W == FiniteSubsetsOf(S)
             B == W \ F
  <1>1. IsWellFoundedOn(R, W)
    BY FS_StrictSubsetOrderingWellFounded
  <1>2. S \in W
    BY DEF FiniteSubsetsOf
  <1> SUFFICES ASSUME B # {} PROVE FALSE
    BY <1>2
  <1>3. PICK T \in B : \A U \in B : ~(<<U, T>> \in R)
    <2>1. B \subseteq W
      OBVIOUS
    <2> HIDE DEF R, W, B
    <2> QED
      BY <1>1, <2>1, WFMin
  <1>4. T \in SUBSET S /\ IsFiniteSet(T) /\ T \notin F /\ T # {}
    BY <1>3 DEF FiniteSubsetsOf
  <1>5. ASSUME NEW x \in T PROVE T \ {x} \in F
    <2>1. T \ {x} \in W
      BY <1>4, FS_RemoveElement DEF FiniteSubsetsOf
    <2>2. <<T \ {x}, T>> \in R
      BY <1>4 DEF StrictSubsetOrdering
    <2> QED
      BY <2>1, <2>2, <1>3
  <1> QED
    BY <1>4, <1>5

-----------------------------------------------------------------------------
(* The invariant.                                                          *)

Starting == {"none", "read", "proxy", "namespace", "system", "log", "listen", "register"}
Running == {"running", "cancel", "delete", "close", "wait"}
Places == Starting \cup Running \cup {"done", "failed"}

Things == {"namespace", "system", "segment", "copiers", "listener"}

\* The type invariant, but for the polls.
TypeOK ==
    /\ pc \in [Procs -> Places]
    /\ mgr \in {"open", "canceled", "closing", "closed"}
    /\ waited \subseteq Procs /\ proxied \in BOOLEAN
    /\ parent \in [Procs -> Procs \cup {None}]
    /\ processes \subseteq Procs /\ group \subseteq Procs /\ ctx \subseteq Procs
    /\ held \in [Procs -> SUBSET Things]
    /\ kill \in [Procs -> [1..2 -> {-1, 0}]]
    /\ closes \in [Procs -> {0, 1}]
    /\ watcher \in [Procs -> {"none", "waiting", "done"}]

\* What a process may hold at each place, before and after it runs.
HeldByPlace ==
    \A p \in Procs :
        /\ pc[p] \in {"none", "read", "proxy", "namespace", "done"} => held[p] = {}
        /\ pc[p] = "wait" => held[p] \subseteq {"namespace", "segment", "copiers"}
        /\ pc[p] = "failed" => "namespace" \notin held[p]

\* A process is registered from the end of Start until it is deleted, and its
\* goroutine is one of the group until it returns.
RegisteredByPlace ==
    /\ processes = {p \in Procs : pc[p] \in {"running", "cancel", "delete"}}
    /\ group = {p \in Procs : pc[p] \in Running}

\* The pipe of Kill and the goroutine that waits for the context exist only
\* once the system was created, and the pipe is gone when it was closed; who
\* closed the end that Kill closes has forgotten its number.
PipeByPlace ==
    \A p \in Procs :
        /\ pc[p] \in {"none", "read", "proxy", "namespace", "system"} => closes[p] = 0
        /\ pc[p] \in {"none", "read", "proxy", "namespace", "system", "log"} => watcher[p] = "none"
        /\ pc[p] \in {"wait", "done"} => kill[p] = [i \in 1..2 |-> -1]
        /\ closes[p] = 1 => kill[p][2] = -1

\* The processes that Close waits for were started, and when it returns their
\* goroutines have.
WaitedByPlace ==
    \A p \in waited : Started(p) /\ (mgr = "closed" => pc[p] = "done")

\* The inductive invariant.
IInv == TypeOK /\ HeldByPlace /\ RegisteredByPlace /\ PipeByPlace /\ WaitedByPlace

\* The type of a poll: idle, or between the steps of PollOneOff.
Polls == [at : {"loop", "blocked"}, clock : BOOLEAN, fd : BOOLEAN, bad : BOOLEAN,
          duration : Int, left : Int, wait : Int, late : Nat]

PollTypeOK == poll \in [Procs -> {Idle} \cup Polls]

\* A clock whose timeout is null was over when the poll began, or the poll
\* answers the descriptor that the guest has not.
NullIsOver ==
    \A p \in Procs :
        poll[p] # Idle /\ poll[p].clock /\ poll[p].duration = 0 => poll[p].left <= 0

\* The inductive invariant of the polls.
PollInv == PollTypeOK /\ NullIsOver

-----------------------------------------------------------------------------
(* Processes.                                                              *)

\* No process has been started.
LEMMA InitIInv == Init => IInv
  BY DEF Init, IInv, TypeOK, Places, Starting, Running, HeldByPlace, RegisteredByPlace,
     PipeByPlace, WaitedByPlace, Procs, main, other, None

\* The steps of Start, with what each of them gets.
LEMMA StartIInv ==
    ASSUME IInv, NEW p \in Procs, StartStep(p)
    PROVE  IInv'
  <1> USE DEF IInv, Places, Starting, Running, Get, Goto, pmVars, sysVars
  <1>1. CASE Read(p)
    <2>1. TypeOK' /\ HeldByPlace'
      BY <1>1 DEF Read, TypeOK, HeldByPlace
    <2>2. RegisteredByPlace' /\ PipeByPlace'
      BY <1>1 DEF Read, TypeOK, RegisteredByPlace, PipeByPlace
    <2> QED
      BY <1>1, <2>1, <2>2 DEF Read, TypeOK, WaitedByPlace, Started
  <1>2. CASE CreateNamespace(p)
    <2>1. TypeOK' /\ HeldByPlace'
      BY <1>2 DEF CreateNamespace, TypeOK, HeldByPlace, Things
    <2>2. RegisteredByPlace' /\ PipeByPlace'
      BY <1>2 DEF CreateNamespace, TypeOK, RegisteredByPlace, PipeByPlace
    <2> QED
      BY <1>2, <2>1, <2>2 DEF CreateNamespace, TypeOK, WaitedByPlace, Started
  <1>3. CASE NewSystem(p)
    <2>1. TypeOK' /\ HeldByPlace'
      BY <1>3 DEF NewSystem, TypeOK, HeldByPlace, Things
    <2>2. RegisteredByPlace' /\ PipeByPlace'
      BY <1>3 DEF NewSystem, TypeOK, RegisteredByPlace, PipeByPlace
    <2> QED
      BY <1>3, <2>1, <2>2 DEF NewSystem, TypeOK, WaitedByPlace, Started
  <1>4. CASE CreateLogSegment(p)
    <2>1. TypeOK' /\ HeldByPlace'
      BY <1>4 DEF CreateLogSegment, TypeOK, HeldByPlace, Things
    <2>2. RegisteredByPlace' /\ PipeByPlace'
      BY <1>4 DEF CreateLogSegment, TypeOK, RegisteredByPlace, PipeByPlace
    <2> QED
      BY <1>4, <2>1, <2>2 DEF CreateLogSegment, TypeOK, WaitedByPlace, Started
  <1>5. CASE Listen(p)
    <2>1. TypeOK' /\ HeldByPlace'
      BY <1>5 DEF Listen, TypeOK, HeldByPlace, Things
    <2>2. RegisteredByPlace' /\ PipeByPlace'
      BY <1>5 DEF Listen, TypeOK, RegisteredByPlace, PipeByPlace
    <2> QED
      BY <1>5, <2>1, <2>2 DEF Listen, TypeOK, WaitedByPlace, Started
  <1>6. CASE Register(p)
    <2>1. TypeOK' /\ HeldByPlace'
      BY <1>6 DEF Register, TypeOK, HeldByPlace
    <2>2. RegisteredByPlace' /\ PipeByPlace'
      BY <1>6 DEF Register, TypeOK, RegisteredByPlace, PipeByPlace
    <2> QED
      BY <1>6, <2>1, <2>2 DEF Register, TypeOK, WaitedByPlace, Started
  <1> QED
    BY <1>1, <1>2, <1>3, <1>4, <1>5, <1>6 DEF StartStep

\* A step of Start that fails gives the address back.
LEMMA FailIInv ==
    ASSUME IInv, NEW p \in Procs, StartFails(p)
    PROVE  IInv'
  <1> USE DEF IInv, Places, Starting, Running, StartFails, Fail, Goto, pmVars, sysVars
  <1>1. TypeOK' /\ HeldByPlace'
    BY DEF TypeOK, HeldByPlace
  <1>2. RegisteredByPlace' /\ PipeByPlace'
    BY DEF TypeOK, RegisteredByPlace, PipeByPlace
  <1> QED
    BY <1>1, <1>2 DEF TypeOK, WaitedByPlace, Started

\* The end of a process: what it holds is given back in the order in which
\* the goroutine's deferred calls run.
LEMMA EndIInv ==
    ASSUME IInv, NEW p \in Procs, End(p)
    PROVE  IInv'
  <1> USE DEF IInv, Places, Starting, Running, Goto, pmVars, sysVars
  <1>1. CASE Cancel(p)
    <2>1. TypeOK' /\ HeldByPlace'
      BY <1>1 DEF Cancel, TypeOK, HeldByPlace
    <2>2. RegisteredByPlace' /\ PipeByPlace'
      BY <1>1 DEF Cancel, TypeOK, RegisteredByPlace, PipeByPlace
    <2> QED
      BY <1>1, <2>1, <2>2 DEF Cancel, TypeOK, WaitedByPlace, Started
  <1>2. CASE Delete(p)
    <2>1. TypeOK' /\ HeldByPlace'
      BY <1>2 DEF Delete, TypeOK, HeldByPlace
    <2>2. RegisteredByPlace' /\ PipeByPlace'
      BY <1>2 DEF Delete, TypeOK, RegisteredByPlace, PipeByPlace
    <2> QED
      BY <1>2, <2>1, <2>2 DEF Delete, TypeOK, WaitedByPlace, Started
  <1>3. CASE CloseModules(p)
    <2>1. TypeOK' /\ HeldByPlace'
      BY <1>3 DEF CloseModules, SystemClose, TypeOK, HeldByPlace, PipeByPlace, Things
    <2>2. RegisteredByPlace' /\ PipeByPlace'
      BY <1>3 DEF CloseModules, SystemClose, TypeOK, RegisteredByPlace, PipeByPlace
    <2> QED
      BY <1>3, <2>1, <2>2 DEF CloseModules, TypeOK, WaitedByPlace, Started
  <1>4. CASE GroupWait(p)
    <2>1. TypeOK' /\ HeldByPlace'
      BY <1>4 DEF GroupWait, TypeOK, HeldByPlace
    <2>2. RegisteredByPlace' /\ PipeByPlace'
      BY <1>4 DEF GroupWait, TypeOK, RegisteredByPlace, PipeByPlace
    <2> QED
      BY <1>4, <2>1, <2>2 DEF GroupWait, TypeOK, WaitedByPlace, Started
  <1> QED
    BY <1>1, <1>2, <1>3, <1>4 DEF End

\* The goroutine that waits for the context, which may close the pipe before
\* or after the end of the process has closed it.
LEMMA WatchIInv ==
    ASSUME IInv, NEW p \in Procs, Watch(p)
    PROVE  IInv'
  <1> USE DEF IInv, Watch, Kill, pmVars
  <1>1. TypeOK' /\ HeldByPlace' /\ RegisteredByPlace'
    BY DEF TypeOK, HeldByPlace, PipeByPlace, RegisteredByPlace
  <1>2. PipeByPlace'
    <2>1. kill[p] = [i \in 1..2 |-> -1] => kill'[p] = [i \in 1..2 |-> -1]
      BY DEF TypeOK
    <2>2. \A q \in Procs \ {p} : kill'[q] = kill[q] /\ closes'[q] = closes[q] /\ watcher'[q] = watcher[q]
      BY DEF TypeOK
    <2>3. kill'[p][2] = -1 /\ pc[p] \notin {"none", "read", "proxy", "namespace", "system", "log"}
      BY DEF TypeOK, PipeByPlace
    <2> QED
      BY <2>1, <2>2, <2>3 DEF PipeByPlace
  <1> QED
    BY <1>1, <1>2 DEF WaitedByPlace, Started

\* Start is called: timecraft run, the outbound proxy, or a guest.
LEMMA CallStartIInv ==
    ASSUME IInv, StartMain \/ StartProxy \/ Spawn
    PROVE  IInv'
  <1>1. PICK p \in Procs, creator \in Procs \cup {None} :
            /\ CallStart(p, creator)
            /\ UNCHANGED <<mgr, waited, proxied, processes, group, ctx, held, sysVars, poll>>
    <2>1. CallStart(main, None) \/ CallStart(other, None) \/ CallStart(other, main)
      BY DEF StartMain, StartProxy, Spawn
    <2>2. UNCHANGED <<mgr, waited, proxied, processes, group, ctx, held, sysVars, poll>>
      BY DEF StartMain, StartProxy, Spawn
    <2> QED
      BY <2>1, <2>2 DEF Procs
  <1> USE DEF IInv, Places, Starting, Running, CallStart, sysVars
  <1>2. TypeOK' /\ HeldByPlace'
    BY <1>1 DEF TypeOK, HeldByPlace
  <1>3. RegisteredByPlace' /\ PipeByPlace'
    BY <1>1 DEF TypeOK, RegisteredByPlace, PipeByPlace
  <1> QED
    BY <1>1, <1>2, <1>3 DEF TypeOK, WaitedByPlace, Started

\* The manager is canceled, closed and waits; a process is killed.
LEMMA ManagerIInv ==
    ASSUME IInv, CancelAll \/ Close \/ WaitAll \/ \E p, q \in Procs : KillProcess(p, q)
    PROVE  IInv'
  <1> USE DEF IInv, pmVars, sysVars, CancelAll, Close, WaitAll, KillProcess
  <1>1. TypeOK' /\ HeldByPlace'
    BY DEF TypeOK, HeldByPlace
  <1>2. RegisteredByPlace' /\ PipeByPlace'
    BY DEF RegisteredByPlace, PipeByPlace
  <1>3. WaitedByPlace'
    BY DEF TypeOK, RegisteredByPlace, WaitedByPlace, Started, Places, Starting, Running
  <1> QED
    BY <1>1, <1>2, <1>3

\* A running guest moves on to its end at most, or the main module goes on
\* with its Start, and nothing but polls changes with it.
LEMMA MoveIInv ==
    ASSUME IInv, NEW p \in Procs, NEW step \in Places,
           \/ pc[p] = "running" /\ step = "cancel"
           \/ pc[p] = "proxy" /\ step = "namespace",
           pc' = pc \/ Goto(p, step),
           UNCHANGED <<pmVars, ctx, held, sysVars>>
    PROVE  IInv'
  <1> USE DEF IInv, Places, Starting, Running, Goto, pmVars, sysVars
  <1>1. TypeOK' /\ HeldByPlace'
    BY DEF TypeOK, HeldByPlace
  <1>2. RegisteredByPlace' /\ PipeByPlace'
    BY DEF TypeOK, RegisteredByPlace, PipeByPlace
  <1> QED
    BY <1>1, <1>2 DEF TypeOK, WaitedByPlace, Started

\* Steps that only polls see.
LEMMA QuietIInv ==
    ASSUME IInv, UNCHANGED <<pc, pmVars, ctx, held, sysVars>>
    PROVE  IInv'
  BY DEF IInv, TypeOK, HeldByPlace, RegisteredByPlace, PipeByPlace, WaitedByPlace, Started,
     pmVars, sysVars

\* Every step preserves the inductive invariant.
LEMMA NextIInv ==
    ASSUME IInv, [Next]_vars
    PROVE  IInv'
  <1>1. CASE UNCHANGED vars
    BY <1>1, QuietIInv DEF vars
  <1>2. CASE StartMain \/ StartProxy \/ Spawn
    BY <1>2, CallStartIInv
  <1>3. CASE LookupProxy
    BY <1>3, MoveIInv DEF LookupProxy, Procs, Places, Starting
  <1>4. CASE CancelAll \/ Close \/ WaitAll \/ \E p, q \in Procs : KillProcess(p, q)
    BY <1>4, ManagerIInv
  <1>5. CASE Tick
    BY <1>5, QuietIInv DEF Tick
  <1>6. ASSUME NEW p \in Procs,
               StartStep(p) \/ StartFails(p) \/ End(p) \/ Watch(p) \/ Guest(p) \/ PollCall(p)
        PROVE  IInv'
    <2>1. CASE Guest(p)
      <3>1. CASE Exit(p)
        BY <3>1, MoveIInv DEF Exit, Places, Running
      <3>2. CASE \E clocks \in SUBSET Durations, fd, bad \in BOOLEAN : PollOneOff(p, clocks, fd, bad)
        BY <3>2, QuietIInv DEF PollOneOff
      <3> QED
        BY <2>1, <3>1, <3>2 DEF Guest
    <2>2. CASE PollCall(p)
      BY <2>2, QuietIInv DEF PollCall
    <2> QED
      BY <1>6, <2>1, <2>2, StartIInv, FailIInv, EndIInv, WatchIInv
  <1>7. ASSUME NEW p \in Procs, NEW why \in {"fd", "kill", "timeout", "signal"}, PollReturn(p, why)
        PROVE  IInv'
    BY <1>7, MoveIInv DEF PollReturn, Goto, Places, Running
  <1> QED
    BY <1>1, <1>2, <1>3, <1>4, <1>5, <1>6, <1>7 DEF Next

\* The invariant holds in every state.
LEMMA InvariantHolds == Spec => []IInv
  BY InitIInv, NextIInv, PTL DEF Spec

\* ProcessManager and System.Kill: what a process holds is given back, its
\* address also when it does not start, and the descriptor that Kill and
\* Close both close is closed once, in whatever order they come.
THEOREM ProcessReleasedHolds == Spec => []ProcessReleased
  <1>1. IInv => ProcessReleased
    BY DEF IInv, TypeOK, HeldByPlace, RegisteredByPlace, PipeByPlace, ProcessReleased,
       KillClosesOnce, EndReleases
  <1> QED
    BY <1>1, InvariantHolds, PTL

\* ProcessManager.Close: when it returns, the processes that had been started
\* have ended, hence their logs are complete.
THEOREM CloseWaitsHolds == Spec => []CloseWaits
  <1>1. IInv => CloseWaits
    BY DEF IInv, WaitedByPlace, CloseWaits
  <1> QED
    BY <1>1, InvariantHolds, PTL

-----------------------------------------------------------------------------
(* Polls.                                                                  *)

\* What setTimeout makes of a timeout that is over.
After(d) == IF d < 0 THEN 0 ELSE d

\* m is the time until the first of the clocks.
IsFirst(m, clocks) ==
    /\ m \in Nat
    /\ \E d \in clocks : m = After(d)
    /\ \A d \in clocks : m <= After(d)

\* Some clock is the first.
LEMMA FirstExists ==
    ASSUME NEW clocks \in SUBSET Int, clocks # {}
    PROVE  \E m : IsFirst(m, clocks)
  <1> DEFINE times == {After(d) : d \in clocks}
  <1>1. times \in SUBSET Nat /\ times # {}
    <2>1. \A d \in Int : After(d) \in Nat
      BY DEF After
    <2> QED
      BY <2>1
  <1>2. PICK m \in times : \A n \in times : m <= n
    <2> HIDE DEF times
    <2> QED
      BY <1>1, NatLeast
  <1> QED
    BY <1>1, <1>2 DEF IsFirst

\* One more clock.
LEMMA FirstStep ==
    ASSUME NEW clocks \in SUBSET Int, NEW d \in clocks, NEW t,
           IF clocks = {d} THEN t = -1 ELSE IsFirst(t, clocks \ {d})
    PROVE  IsFirst(setTimeout(t, d), clocks)
  <1>1. After(d) \in Nat
    BY DEF After
  <1>2. CASE clocks = {d}
    <2>1. setTimeout(t, d) = After(d)
      BY <1>2 DEF setTimeout, After
    <2> QED
      BY <1>1, <1>2, <2>1 DEF IsFirst
  <1>3. CASE clocks # {d}
    <2>1. IsFirst(t, clocks \ {d})
      BY <1>3
    <2>2. setTimeout(t, d) = IF After(d) < t THEN After(d) ELSE t
      BY <2>1 DEF setTimeout, After, IsFirst
    <2>3. \A e \in clocks \ {d} : t <= After(e) /\ After(e) \in Nat
      BY <2>1 DEF IsFirst, After
    <2>4. t \in Nat /\ \E e \in clocks : t = After(e)
      BY <2>1 DEF IsFirst
    <2> QED
      BY <1>1, <2>2, <2>3, <2>4 DEF IsFirst
  <1> QED
    BY <1>2, <1>3

\* There is one first time.
LEMMA FirstUnique ==
    ASSUME NEW clocks \in SUBSET Int, NEW m, NEW n, IsFirst(m, clocks), IsFirst(n, clocks)
    PROVE  m = n
  <1>1. m <= n /\ n <= m /\ m \in Nat /\ n \in Nat
    BY DEF IsFirst
  <1> QED
    BY <1>1

\* The loop over the subscriptions computes the time until the first clock,
\* whatever their order and however many are over: the fold satisfies its
\* equation (its solution is given), and any solution is the first time.
THEOREM EarliestIsFirst ==
    ASSUME NEW clocks \in SUBSET Int, IsFiniteSet(clocks), clocks # {}
    PROVE  IsFirst(Earliest(clocks), clocks)
  <1> DEFINE some(s) == CHOOSE d \in s : TRUE
             Def(f) == [s \in SUBSET clocks |-> IF s = {} THEN -1
                                                ELSE setTimeout(f[s \ {some(s)}], some(s))]
             iter == CHOOSE f : f = Def(f)
             g == [s \in SUBSET clocks |-> IF s = {} THEN -1 ELSE CHOOSE m : IsFirst(m, s)]
  <1>1. Earliest(clocks) = iter[clocks]
    BY DEF Earliest, FoldSet, MapThenFoldSet
  <1>2. \A s \in SUBSET clocks : s # {} => IsFirst(g[s], s)
    BY FirstExists
  <1>3. g = Def(g)
    <2>1. ASSUME NEW s \in SUBSET clocks, s # {}
          PROVE  g[s] = setTimeout(g[s \ {some(s)}], some(s))
      <3>1. some(s) \in s
        BY <2>1
      <3>2. g[{}] = -1
        OBVIOUS
      <3> HIDE DEF some, g
      <3>3. IsFirst(setTimeout(g[s \ {some(s)}], some(s)), s)
        <4>1. CASE s = {some(s)}
          <5>1. s \ {some(s)} = {}
            BY <4>1
          <5> QED
            BY <3>1, <3>2, <4>1, <5>1, FirstStep
        <4>2. CASE s # {some(s)}
          <5>1. IsFirst(g[s \ {some(s)}], s \ {some(s)})
            BY <1>2, <3>1, <4>2
          <5> QED
            BY <3>1, <4>2, <5>1, FirstStep
        <4> QED
          BY <4>1, <4>2
      <3> QED
        BY <1>2, <2>1, <3>3, FirstUnique
    <2>2. \A s \in SUBSET clocks :
            g[s] = IF s = {} THEN -1 ELSE setTimeout(g[s \ {some(s)}], some(s))
      <3>1. g[{}] = -1
        OBVIOUS
      <3> HIDE DEF some, g
      <3> QED
        BY <2>1, <3>1
    <2>3. DOMAIN g = SUBSET clocks /\ g = [s \in SUBSET clocks |-> g[s]]
      OBVIOUS
    <2> HIDE DEF some, g
    <2> QED
      BY <2>2, <2>3
  <1>4. iter = Def(iter)
    BY <1>3
  <1> HIDE DEF iter
  <1> DEFINE F == {s \in SUBSET clocks : IF s = {} THEN TRUE ELSE IsFirst(iter[s], s)}
  <1>5. clocks \in F
    <2>1. ASSUME NEW s \in SUBSET clocks, s # {}, \A x \in s : s \ {x} \in F
          PROVE  s \in F
      <3>1. some(s) \in s
        BY <2>1
      <3>2. iter[s] = setTimeout(iter[s \ {some(s)}], some(s))
        BY <1>4, <2>1
      <3>3. IF s = {some(s)} THEN iter[s \ {some(s)}] = -1
            ELSE IsFirst(iter[s \ {some(s)}], s \ {some(s)})
        <4>1. iter[{}] = -1
          BY <1>4
        <4>2. s \ {some(s)} \in F
          BY <2>1, <3>1
        <4> HIDE DEF some
        <4>3. CASE s = {some(s)}
          <5>1. s \ {some(s)} = {}
            BY <4>3
          <5> QED
            BY <4>1, <4>3, <5>1
        <4>4. CASE s # {some(s)}
          <5>1. s \ {some(s)} # {}
            BY <3>1, <4>4
          <5> QED
            BY <4>2, <4>4, <5>1
        <4> QED
          BY <4>3, <4>4
      <3> HIDE DEF some
      <3>4. IsFirst(iter[s], s)
        <4>1. IsFirst(setTimeout(iter[s \ {some(s)}], some(s)), s)
          BY <2>1, <3>1, <3>3, FirstStep
        <4> QED
          BY <3>2, <4>1
      <3> QED
        BY <2>1, <3>4
    <2> HIDE DEF F
    <2>2. {} \in F
      BY DEF F
    <2> QED
      BY <2>1, <2>2, FiniteSubsetInduction
  <1> QED
    BY <1>1, <1>5

\* Without a clock there is no timeout.
LEMMA EarliestOfNone == Earliest({}) = -1
  <1> DEFINE Def(f) == [s \in SUBSET {} |-> IF s = {} THEN -1
                            ELSE setTimeout(f[s \ {CHOOSE d \in s : TRUE}], CHOOSE d \in s : TRUE)]
             iter == CHOOSE f : f = Def(f)
             g == [s \in SUBSET {} |-> -1]
  <1>1. Earliest({}) = iter[{}]
    BY DEF Earliest, FoldSet, MapThenFoldSet
  <1>2. g = Def(g)
    OBVIOUS
  <1>3. iter = Def(iter)
    BY <1>2
  <1> HIDE DEF iter
  <1> QED
    BY <1>1, <1>3

\* What a step changes of a poll, and what it keeps.
Changed(q, r, left) ==
    r \in Polls /\ r.clock = q.clock /\ r.duration = q.duration /\ r.left = left

\* poll(2) is called.
LEMMA PollBlocks ==
    ASSUME NEW q \in Polls, NEW wait \in Int
    PROVE  Changed(q, [q EXCEPT !.at = "blocked", !.wait = wait], q.left)
  BY DEF Polls, Changed

\* poll(2) returned, and is called again.
LEMMA PollLoops ==
    ASSUME NEW q \in Polls
    PROVE  Changed(q, [q EXCEPT !.at = "loop", !.late = 0], q.left)
  BY DEF Polls, Changed

\* Time only shortens what is left.
LEMMA PollAges ==
    ASSUME NEW q \in Polls
    PROVE  \E left \in Int : left <= q.left /\ Changed(q, Aged(q), left)
  <1> DEFINE left == IF q.clock /\ q.left > -(ticks \div 2) THEN q.left - 1 ELSE q.left
             late == IF q.clock THEN q.late + 1 ELSE 0
             wait == IF q.wait > 0 THEN q.wait - 1 ELSE q.wait
  <1>1. left \in Int /\ late \in Nat /\ wait \in Int /\ left <= q.left
    BY DEF Polls, ticks
  <1>2. \/ Aged(q) = [q EXCEPT !.left = left, !.late = late]
        \/ Aged(q) = [q EXCEPT !.left = left, !.wait = wait]
    BY DEF Aged, Polls
  <1> HIDE DEF left, late, wait
  <1>3. Changed(q, [q EXCEPT !.left = left, !.late = late], left)
    BY <1>1 DEF Polls, Changed
  <1>4. Changed(q, [q EXCEPT !.left = left, !.wait = wait], left)
    BY <1>1 DEF Polls, Changed
  <1> QED
    BY <1>1, <1>2, <1>3, <1>4

\* An invariant of each poll is one of all.
LEMMA PollByPoll ==
    ASSUME PollInv, NEW p \in Procs, NEW q, poll' = [poll EXCEPT ![p] = q],
           q = Idle \/ (q \in Polls /\ (q.clock /\ q.duration = 0 => q.left <= 0))
    PROVE  PollInv'
  BY DEF PollInv, PollTypeOK, NullIsOver

\* Every step preserves the invariant of the polls.
LEMMA NextPollInv ==
    ASSUME PollInv, [Next]_vars
    PROVE  PollInv'
  <1>1. ASSUME NEW p \in Procs, NEW clocks \in SUBSET Durations, NEW fd \in BOOLEAN,
               NEW bad \in BOOLEAN, PollOneOff(p, clocks, fd, bad)
        PROVE  PollInv'
    <2>1. Earliest(clocks) \in Int
      <3>1. IsFiniteSet(clocks) /\ clocks \in SUBSET Int
        BY DurationsAssumption, FS_Subset
      <3> QED
        BY <3>1, EarliestIsFirst, EarliestOfNone DEF IsFirst
    <2> DEFINE q == [at |-> "loop", clock |-> clocks # {}, fd |-> fd, bad |-> bad,
                     duration |-> IF bad THEN 0 ELSE Earliest(clocks),
                     left |-> IF bad \/ clocks = {} THEN 0 ELSE Earliest(clocks),
                     wait |-> 0, late |-> 0]
    <2>2. q \in Polls /\ (q.clock /\ q.duration = 0 => q.left <= 0)
      BY <2>1 DEF Polls
    <2>3. poll' = [poll EXCEPT ![p] = q]
      BY <1>1 DEF PollOneOff
    <2> HIDE DEF q
    <2> QED
      BY <2>2, <2>3, PollByPoll
  <1>2. ASSUME NEW p \in Procs, PollCall(p)
        PROVE  PollInv'
    <2>1. poll[p] \in Polls /\ (poll[p].clock /\ poll[p].duration = 0 => poll[p].left <= 0)
      BY <1>2 DEF PollInv, PollCall, PollTypeOK, NullIsOver, Idle
    <2> DEFINE millis == timeoutMillis(poll[p])
               wait == IF millis < 0 THEN -1 ELSE millis * ticks
               q == [poll[p] EXCEPT !.at = "blocked", !.wait = wait]
    <2>2. wait \in Int
      BY <2>1 DEF timeoutMillis, RoundMillis, ticks, Polls
    <2>3. poll' = [poll EXCEPT ![p] = q]
      BY <1>2 DEF PollCall, PollInv, PollTypeOK
    <2> HIDE DEF wait
    <2>4. Changed(poll[p], q, poll[p].left)
      BY <2>1, <2>2, PollBlocks
    <2> HIDE DEF q
    <2> QED
      BY <2>1, <2>3, <2>4, PollByPoll DEF Changed
  <1>3. ASSUME NEW p \in Procs, NEW why \in {"fd", "kill", "timeout", "signal"}, PollReturn(p, why)
        PROVE  PollInv'
    <2>1. poll[p] \in Polls /\ (poll[p].clock /\ poll[p].duration = 0 => poll[p].left <= 0)
      BY <1>3 DEF PollInv, PollReturn, PollTypeOK, NullIsOver, Idle
    <2> DEFINE q == [poll[p] EXCEPT !.at = "loop", !.late = 0]
    <2>2. poll' = [poll EXCEPT ![p] = Idle] \/ poll' = [poll EXCEPT ![p] = q]
      BY <1>3 DEF PollReturn
    <2>3. Changed(poll[p], q, poll[p].left)
      BY <2>1, PollLoops
    <2> HIDE DEF q
    <2> QED
      BY <2>1, <2>2, <2>3, PollByPoll DEF Changed
  <1>4. CASE Tick
    <2>1. DOMAIN poll' = Procs /\ poll' = [p \in Procs |-> poll'[p]]
      BY <1>4 DEF Tick
    <2>2. ASSUME NEW p \in Procs, poll[p] # Idle
          PROVE  poll'[p] \in Polls /\ (poll'[p].clock /\ poll'[p].duration = 0 => poll'[p].left <= 0)
      <3>1. poll[p] \in Polls /\ (poll[p].clock /\ poll[p].duration = 0 => poll[p].left <= 0)
        BY <2>2 DEF PollInv, PollTypeOK, NullIsOver
      <3>2. PICK left \in Int : left <= poll[p].left /\ Changed(poll[p], poll'[p], left)
        BY <1>4, <3>1, PollAges DEF Tick
      <3> QED
        BY <3>1, <3>2 DEF Changed, Polls
    <2>3. ASSUME NEW p \in Procs, poll[p] = Idle
          PROVE  poll'[p] = Idle
      <3>1. Aged(Idle) = Idle
        BY DEF Aged, Idle
      <3> QED
        BY <1>4, <2>3, <3>1 DEF Tick
    <2> QED
      BY <2>1, <2>2, <2>3 DEF PollInv, PollTypeOK, NullIsOver
  <1>5. CASE UNCHANGED poll
    BY <1>5 DEF PollInv, PollTypeOK, NullIsOver
  <1> QED
    BY <1>1, <1>2, <1>3, <1>4, <1>5
    DEF Next, vars, StartMain, StartProxy, LookupProxy, Spawn, CancelAll, Close, WaitAll, KillProcess,
        StartStep, Read, CreateNamespace, NewSystem, CreateLogSegment, Listen, Register, Get,
        StartFails, Fail, End, Cancel, Delete, CloseModules, GroupWait, Watch, Guest, Exit

\* The type invariant of the module.
THEOREM TypeCorrect == Spec => [](TypeOK /\ PollTypeOK)
  <1>1. Init => PollInv
    BY DEF Init, PollInv, PollTypeOK, NullIsOver
  <1>2. IInv /\ PollInv => TypeOK /\ PollTypeOK
    BY DEF IInv, PollInv
  <1> QED
    BY <1>1, <1>2, NextPollInv, InvariantHolds, PTL DEF Spec

\* PollOneOff: a poll with clocks only never returns to a running guest before
\* the first of them, however its timeout is rounded to milliseconds for
\* poll(2), whatever interrupts it and however long it is preempted.
THEOREM NeverEarlyHolds == Spec => NeverEarly
  <1> DEFINE A == \A p \in Procs :
          poll[p].at = "blocked" /\ poll'[p].at = "idle" /\ pc'[p] = "running" =>
              poll[p].fd \/ poll[p].bad \/ poll[p].left <= 0
  <1>1. Init => PollInv
    BY DEF Init, PollInv, PollTypeOK, NullIsOver
  <1>2. ASSUME IInv, PollInv, [Next]_vars
        PROVE  A
    <2>1. ASSUME NEW p \in Procs, NEW why \in {"fd", "kill", "timeout", "signal"}, PollReturn(p, why)
          PROVE  A
      <3>1. \A o \in Procs \ {p} : poll'[o] = poll[o]
        BY <1>2, <2>1 DEF PollReturn, PollInv, PollTypeOK
      <3>2. poll[p] \in Polls /\ (poll[p].clock /\ poll[p].duration = 0 => poll[p].left <= 0)
        BY <1>2, <2>1 DEF PollReturn, PollInv, PollTypeOK, NullIsOver, Idle
      <3>3. ASSUME poll'[p].at = "idle", pc'[p] = "running"
            PROVE  poll[p].fd \/ poll[p].bad \/ poll[p].left <= 0
        <4>1. kill[p][2] # -1
          BY <1>2, <2>1, <3>3 DEF PollReturn, IInv, TypeOK
        <4>2. Elapsed(poll[p]) \/ why = "fd" \/ poll[p].bad
          <5>1. Changed(poll[p], [poll[p] EXCEPT !.at = "loop", !.late = 0], poll[p].left)
            BY <3>2, PollLoops
          <5> QED
            BY <1>2, <2>1, <3>2, <3>3, <4>1, <5>1 DEF PollReturn, PollInv, PollTypeOK, Changed, Polls
        <4>3. CASE Elapsed(poll[p])
          BY <3>2, <4>3 DEF Elapsed, Polls
        <4>4. CASE why = "fd"
          BY <2>1, <4>4 DEF PollReturn, Wakes
        <4> QED
          BY <4>2, <4>3, <4>4
      <3> QED
        BY <3>1, <3>3
    <2>2. CASE UNCHANGED poll
      BY <2>2
    <2>3. ASSUME NEW p \in Procs, PollCall(p)
          PROVE  A
      <3>1. poll[p].at # "blocked" /\ \A o \in Procs \ {p} : poll'[o] = poll[o]
        BY <1>2, <2>3 DEF PollCall, PollInv, PollTypeOK
      <3> QED
        BY <3>1
    <2>4. ASSUME NEW p \in Procs, NEW clocks \in SUBSET Durations, NEW fd \in BOOLEAN,
                 NEW bad \in BOOLEAN, PollOneOff(p, clocks, fd, bad)
          PROVE  A
      BY <1>2, <2>4 DEF PollOneOff, PollInv, PollTypeOK
    <2>5. CASE Tick
      <3>1. ASSUME NEW p \in Procs, poll[p].at = "blocked"
            PROVE  poll'[p].at # "idle"
        <4>1. poll[p] \in Polls
          BY <1>2, <3>1 DEF PollInv, PollTypeOK, Idle
        <4>2. Aged(poll[p]) \in Polls
          BY <4>1, PollAges DEF Changed
        <4> QED
          BY <2>5, <4>2 DEF Tick, Polls
      <3> QED
        BY <3>1
    <2> QED
      BY <1>2, <2>1, <2>2, <2>3, <2>4, <2>5
      DEF Next, vars, StartMain, StartProxy, LookupProxy, Spawn, CancelAll, Close, WaitAll, KillProcess,
          StartStep, Read, CreateNamespace, NewSystem, CreateLogSegment, Listen, Register, Get,
          StartFails, Fail, End, Cancel, Delete, CloseModules, GroupWait, Watch, Guest, Exit
  <1>3. QED
    BY <1>1, <1>2, NextPollInv, InvariantHolds, PTL DEF Spec, NeverEarly
=============================================================================
