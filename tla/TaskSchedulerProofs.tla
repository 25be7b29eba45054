-------------------------- MODULE TaskSchedulerProofs ------------------------
(***************************************************************************)
(* Proofs about TaskScheduler, for any number of tasks, guests, threads    *)
(* and processes.                                                          *)
(*                                                                         *)
(* The argument has three parts that rest on the types: a live process is  *)
(* the one that s.processes has for its key, or the one that the thread in *)
(* the key's flight has just started (ProcInv); a task is worked on by one *)
(* thread, which is the only one to change its state (TaskInv); and what   *)
(* the scheduler knows of is a member of its group or is being submitted   *)
(* (GroupInv).                                                             *)
(***************************************************************************)
EXTENDS TaskScheduler, TLAPS

Thread == [at : Places, task : Tasks \cup {None},
           proc : Processes \cup {None}, outcome : Terminal \cup {None}]

Active(w) == worker[w].at \notin {"idle", "exited"}

\* What a thread and a handler have at each place.
Placed ==
    /\ \A w \in Workers :
        /\ Active(w) => TaskOf(w) \in Tasks
        /\ worker[w].at \in {"started", "ready", "execute"} => worker[w].proc \in Processes
        /\ At(w, "complete") => worker[w].outcome \in Terminal
    /\ \A g \in Groups :
        /\ submit[g].at \in {"send", "register"} => submit[g].task \in Tasks /\ GroupOf[submit[g].task] = g
        /\ \A t \in submit[g].pending : GroupOf[t] = g
        /\ poll[g].at = "lookup" => poll[g].task \in Tasks

TypeInv == TypeOK /\ Placed

-----------------------------------------------------------------------------
(* Steps of a thread.                                                      *)

\* Thread w moves, and no other.
Moves(w, at, task, proc, outcome) ==
    /\ worker' \in [Workers -> Thread]
    /\ worker'[w].at = at /\ worker'[w].task = task
    /\ worker'[w].proc = proc /\ worker'[w].outcome = outcome
    /\ \A v \in Workers \ {w} : worker'[v] = worker[v]

\* A thread gets a new record.
LEMMA MovesTo ==
    ASSUME TypeOK, NEW w \in Workers, NEW r \in Thread, worker' = [worker EXCEPT ![w] = r]
    PROVE  Moves(w, r.at, r.task, r.proc, r.outcome)
  BY DEF TypeOK, Thread, Moves

\* A thread changes its place only.
LEMMA MovesPlace ==
    ASSUME TypeOK, NEW w \in Workers, NEW place \in Places,
           worker' = [worker EXCEPT ![w].at = place]
    PROVE  Moves(w, place, worker[w].task, worker[w].proc, worker[w].outcome)
  <1> DEFINE r == [worker[w] EXCEPT !.at = place]
  <1>1. worker[w] \in Thread
    BY DEF TypeOK, Thread
  <1>2. r \in Thread /\ r.at = place /\ r.task = worker[w].task /\ r.proc = worker[w].proc
        /\ r.outcome = worker[w].outcome
    BY <1>1 DEF Thread
  <1>3. worker' = [worker EXCEPT ![w] = r]
    OBVIOUS
  <1> HIDE DEF r
  <1> QED
    BY <1>2, <1>3, MovesTo

\* A thread has the outcome of its task.
LEMMA MovesOutcome ==
    ASSUME TypeOK, NEW w \in Workers, NEW place \in Places, NEW outcome \in Terminal,
           worker' = [worker EXCEPT ![w] = [@ EXCEPT !.at = place, !.outcome = outcome]]
    PROVE  Moves(w, place, worker[w].task, worker[w].proc, outcome)
  <1> DEFINE r == [worker[w] EXCEPT !.at = place, !.outcome = outcome]
  <1>1. worker[w] \in Thread
    BY DEF TypeOK, Thread
  <1>2. r \in Thread /\ r.at = place /\ r.task = worker[w].task /\ r.proc = worker[w].proc
        /\ r.outcome = outcome
    BY <1>1 DEF Thread
  <1>3. worker' = [worker EXCEPT ![w] = r]
    OBVIOUS
  <1> HIDE DEF r
  <1> QED
    BY <1>2, <1>3, MovesTo

\* A thread has the process of its task.
LEMMA MovesProcess ==
    ASSUME TypeOK, NEW w \in Workers, NEW place \in Places, NEW p \in Processes,
           worker' = [worker EXCEPT ![w] = [@ EXCEPT !.at = place, !.proc = p]]
    PROVE  Moves(w, place, worker[w].task, p, worker[w].outcome)
  <1> DEFINE r == [worker[w] EXCEPT !.at = place, !.proc = p]
  <1>1. worker[w] \in Thread
    BY DEF TypeOK, Thread
  <1>2. r \in Thread /\ r.at = place /\ r.task = worker[w].task /\ r.proc = p
        /\ r.outcome = worker[w].outcome
    BY <1>1 DEF Thread
  <1>3. worker' = [worker EXCEPT ![w] = r]
    OBVIOUS
  <1> HIDE DEF r
  <1> QED
    BY <1>2, <1>3, MovesTo

\* What a call of key k that returns p makes of a thread.
Answered(v, p) ==
    /\ worker'[v].task = worker[v].task
    /\ IF p = None THEN worker'[v].at = "complete" /\ worker'[v].outcome = "Error" /\ worker'[v].proc = worker[v].proc
                   ELSE worker'[v].at = "ready" /\ worker'[v].proc = p /\ worker'[v].outcome = worker[v].outcome

\* The threads that share a call move together.
LEMMA FlightMoves ==
    ASSUME TypeOK, NEW w \in Workers, NEW k, NEW p \in Processes \cup {None}, FlightReturns(w, k, p)
    PROVE  /\ worker' \in [Workers -> Thread]
           /\ flight' = [flight EXCEPT ![k] = None]
           /\ \A v \in Workers :
                \/ worker'[v] = worker[v] /\ v # w /\ (At(v, "wait") => KeyOf(TaskOf(v)) # k)
                \/ Answered(v, p) /\ (v = w \/ (At(v, "wait") /\ KeyOf(TaskOf(v)) = k))
  <1> DEFINE error(v) == [worker[v] EXCEPT !.at = "complete", !.outcome = "Error"]
             found(v) == [worker[v] EXCEPT !.at = "ready", !.proc = p]
             Shares(v) == v = w \/ (At(v, "wait") /\ KeyOf(TaskOf(v)) = k)
  <1>1. ASSUME NEW v \in Workers
        PROVE  /\ error(v) \in Thread /\ error(v).at = "complete" /\ error(v).task = worker[v].task
               /\ error(v).proc = worker[v].proc /\ error(v).outcome = "Error"
    <2>1. worker[v] \in Thread
      BY DEF TypeOK, Thread
    <2> QED
      BY <2>1 DEF Thread, Places, Terminal
  <1>2. ASSUME NEW v \in Workers
        PROVE  /\ found(v) \in Thread /\ found(v).at = "ready" /\ found(v).task = worker[v].task
               /\ found(v).proc = p /\ found(v).outcome = worker[v].outcome
    <2>1. worker[v] \in Thread
      BY DEF TypeOK, Thread
    <2> QED
      BY <2>1 DEF Thread, Places
  <1>3. worker' = [v \in Workers |-> IF ~Shares(v) THEN worker[v] ELSE IF p = None THEN error(v) ELSE found(v)]
    BY DEF FlightReturns
  <1>4. worker \in [Workers -> Thread]
    BY DEF TypeOK, Thread
  <1>5. flight' = [flight EXCEPT ![k] = None]
    BY DEF FlightReturns
  <1> HIDE DEF error, found
  <1>6. worker' \in [Workers -> Thread]
    BY <1>1, <1>2, <1>3, <1>4
  <1>7. ASSUME NEW v \in Workers
        PROVE  \/ worker'[v] = worker[v] /\ v # w /\ (At(v, "wait") => KeyOf(TaskOf(v)) # k)
               \/ Answered(v, p) /\ (v = w \/ (At(v, "wait") /\ KeyOf(TaskOf(v)) = k))
    BY <1>1, <1>2, <1>3 DEF Answered
  <1> QED
    BY <1>5, <1>6, <1>7

\* How each step of scheduleTask that concerns one thread moves it.
LEMMA ThreadMoves ==
    ASSUME TypeOK, NEW w \in Workers
    PROVE  /\ Expire(w) => Moves(w, "complete", worker[w].task, worker[w].proc, "Error")
           /\ Initialize(w) => Moves(w, "do", worker[w].task, worker[w].proc, worker[w].outcome)
           /\ Execute(w) => Moves(w, "execute", worker[w].task, worker[w].proc, worker[w].outcome)
           /\ ExecuteHTTPTask(w) =>
                \E o \in Terminal : Moves(w, "complete", worker[w].task, worker[w].proc, o)
           /\ CompleteTask(w) => Moves(w, "notify", worker[w].task, worker[w].proc, worker[w].outcome)
           /\ Notify(w) \/ NotifyAborted(w) => Moves(w, "idle", None, None, None)
           /\ WorkerExits(w) => Moves(w, "exited", worker[w].task, worker[w].proc, worker[w].outcome)
           /\ \A g \in Groups : TypeInv /\ SubmitSend(g, w) => Moves(w, "received", submit[g].task, None, None)
  <1> USE DEF Places, Terminal
  <1>1. Expire(w) => Moves(w, "complete", worker[w].task, worker[w].proc, "Error")
    BY MovesOutcome DEF Expire
  <1>2. Initialize(w) => Moves(w, "do", worker[w].task, worker[w].proc, worker[w].outcome)
    BY MovesPlace DEF Initialize
  <1>3. Execute(w) => Moves(w, "execute", worker[w].task, worker[w].proc, worker[w].outcome)
    BY MovesPlace DEF Execute
  <1>4. ExecuteHTTPTask(w) =>
            \E o \in Terminal : Moves(w, "complete", worker[w].task, worker[w].proc, o)
    BY MovesOutcome DEF ExecuteHTTPTask
  <1>5. CompleteTask(w) => Moves(w, "notify", worker[w].task, worker[w].proc, worker[w].outcome)
    BY MovesPlace DEF CompleteTask
  <1>6. Notify(w) \/ NotifyAborted(w) => Moves(w, "idle", None, None, None)
    <2>1. idle \in Thread /\ idle.at = "idle" /\ idle.task = None /\ idle.proc = None /\ idle.outcome = None
      BY DEF idle, Thread
    <2> QED
      BY <2>1, MovesTo DEF Notify, NotifyAborted
  <1>7. WorkerExits(w) => Moves(w, "exited", worker[w].task, worker[w].proc, worker[w].outcome)
    BY MovesPlace DEF WorkerExits
  <1>8. ASSUME NEW g \in Groups, TypeInv, SubmitSend(g, w)
        PROVE  Moves(w, "received", submit[g].task, None, None)
    <2> DEFINE r == [idle EXCEPT !.at = "received", !.task = submit[g].task]
    <2>1. idle \in Thread /\ idle.proc = None /\ idle.outcome = None
      BY DEF idle, Thread
    <2>2. submit[g].task \in Tasks
      BY <1>8 DEF TypeInv, Placed, SubmitSend
    <2>3. r \in Thread /\ r.at = "received" /\ r.task = submit[g].task /\ r.proc = None /\ r.outcome = None
      BY <2>1, <2>2 DEF Thread
    <2>4. worker' = [worker EXCEPT ![w] = r]
      BY <1>8 DEF SubmitSend
    <2> HIDE DEF r
    <2> QED
      BY <2>3, <2>4, MovesTo
  <1> QED
    BY <1>1, <1>2, <1>3, <1>4, <1>5, <1>6, <1>7, <1>8

\* The same for the steps of the call of a key.
LEMMA CallMoves ==
    ASSUME TypeInv, NEW w \in Workers
    PROVE  /\ PinitDo(w) =>
                LET k == KeyOf(TaskOf(w)) IN
                \/ /\ flight[k] = None /\ flight' = [flight EXCEPT ![k] = w]
                   /\ Moves(w, "lookup", worker[w].task, worker[w].proc, worker[w].outcome)
                \/ /\ flight[k] # None /\ UNCHANGED flight
                   /\ Moves(w, "wait", worker[w].task, worker[w].proc, worker[w].outcome)
           /\ LookupProcess(w) =>
                \/ FlightReturns(w, KeyOf(TaskOf(w)), processes[KeyOf(TaskOf(w))])
                \/ UNCHANGED flight /\ Moves(w, "start", worker[w].task, worker[w].proc, worker[w].outcome)
           /\ StartProcess(w) =>
                \/ FlightReturns(w, KeyOf(TaskOf(w)), None) /\ UNCHANGED <<alive, procSpec>>
                \/ \E p \in Processes :
                    /\ procSpec[p] = None
                    /\ procSpec' = [procSpec EXCEPT ![p] = SpecOf[TaskOf(w)]]
                    /\ alive' = alive \cup {p}
                    /\ UNCHANGED flight
                    /\ Moves(w, "started", worker[w].task, p, worker[w].outcome)
  <1> USE DEF Places, TypeInv
  <1>1. ASSUME PinitDo(w)
        PROVE  LET k == KeyOf(TaskOf(w)) IN
                \/ /\ flight[k] = None /\ flight' = [flight EXCEPT ![k] = w]
                   /\ Moves(w, "lookup", worker[w].task, worker[w].proc, worker[w].outcome)
                \/ /\ flight[k] # None /\ UNCHANGED flight
                   /\ Moves(w, "wait", worker[w].task, worker[w].proc, worker[w].outcome)
    BY <1>1, MovesPlace DEF PinitDo
  <1>2. ASSUME LookupProcess(w)
        PROVE  \/ FlightReturns(w, KeyOf(TaskOf(w)), processes[KeyOf(TaskOf(w))])
               \/ UNCHANGED flight /\ Moves(w, "start", worker[w].task, worker[w].proc, worker[w].outcome)
    BY <1>2, MovesPlace DEF LookupProcess
  <1>3. ASSUME StartProcess(w)
        PROVE   \/ FlightReturns(w, KeyOf(TaskOf(w)), None) /\ UNCHANGED <<alive, procSpec>>
                \/ \E p \in Processes :
                    /\ procSpec[p] = None
                    /\ procSpec' = [procSpec EXCEPT ![p] = SpecOf[TaskOf(w)]]
                    /\ alive' = alive \cup {p}
                    /\ UNCHANGED flight
                    /\ Moves(w, "started", worker[w].task, p, worker[w].outcome)
    BY <1>3, MovesProcess DEF StartProcess
  <1> QED
    BY <1>1, <1>2, <1>3

-----------------------------------------------------------------------------
(* Types.                                                                  *)

\* The key of a task is one of the keys.
LEMMA KeyType ==
    ASSUME NEW t \in Tasks
    PROVE  KeyOf(t) \in Keys /\ SpecOf[t] \in Specs /\ Key(SpecOf[t]) = KeyOf(t)
  BY DEF KeyOf, Keys, Specs

\* No task has been submitted.
LEMMA InitTypeInv == Init => TypeInv
  <1> SUFFICES ASSUME Init PROVE TypeInv
    OBVIOUS
  <1>1. 0 \in 0 .. BatchSize - 1
    BY ConstantsAssumption
  <1>2. worker \in [Workers -> Thread]
    BY DEF Init, Thread, idle, Places
  <1>3. poll \in [Groups -> [at : {"none", "wait", "lookup"}, task : Tasks \cup {None}, got : 0 .. BatchSize - 1]]
    BY <1>1 DEF Init
  <1>4. TypeOK
    BY <1>2, <1>3 DEF Init, TypeOK, Thread, TaskStates
  <1>5. Placed
    BY DEF Init, Placed, Active, At, idle
  <1> QED
    BY <1>4, <1>5 DEF TypeInv

\* A thread that moves to a place where it has what it needs there.
LEMMA MoveTypeInv ==
    ASSUME TypeInv, NEW w \in Workers, NEW a, NEW t, NEW p, NEW o, Moves(w, a, t, p, o),
           a \notin {"idle", "exited"} => t \in Tasks,
           a \in {"started", "ready", "execute"} => p \in Processes,
           a = "complete" => o \in Terminal,
           taskState' \in [Tasks -> TaskStates],
           flight' \in [Keys -> Workers \cup {None}],
           alive' \subseteq Processes,
           procSpec' \in [Processes -> Specs \cup {None}],
           UNCHANGED <<tasks, cancelled, processes, guestVars, shutdown>>
    PROVE  TypeInv'
  <1>1. TypeOK'
    BY DEF TypeInv, TypeOK, Moves, Thread, guestVars
  <1>2. Placed'
    BY DEF TypeInv, Placed, Moves, Active, At, TaskOf, guestVars
  <1> QED
    BY <1>1, <1>2 DEF TypeInv

\* A call that returns to the threads that share it.
LEMMA FlightTypeInv ==
    ASSUME TypeInv, NEW w \in Workers, worker[w].at \in {"lookup", "start", "started"},
           NEW p \in Processes \cup {None}, FlightReturns(w, KeyOf(TaskOf(w)), p),
           processes' \in [Keys -> Processes \cup {None}],
           UNCHANGED <<schedVars, alive, procSpec, guestVars, shutdown>>
    PROVE  TypeInv'
  <1> DEFINE k == KeyOf(TaskOf(w))
  <1>1. /\ worker' \in [Workers -> Thread]
        /\ flight' = [flight EXCEPT ![k] = None]
        /\ \A v \in Workers :
            \/ worker'[v] = worker[v]
            \/ Answered(v, p) /\ Active(v)
    BY FlightMoves DEF TypeInv, Active, At
  <1>2. TypeOK'
    BY <1>1 DEF TypeInv, TypeOK, Thread, guestVars, schedVars
  <1>3. Placed'
    BY <1>1 DEF TypeInv, Placed, Active, At, TaskOf, guestVars, Answered, Terminal
  <1> QED
    BY <1>2, <1>3 DEF TypeInv

\* The steps of a thread keep the types.
LEMMA ScheduleTypeInv ==
    ASSUME TypeInv, NEW w \in Workers, Schedule(w)
    PROVE  TypeInv'
  <1> USE DEF TypeInv
  <1>0. /\ taskState \in [Tasks -> TaskStates] /\ flight \in [Keys -> Workers \cup {None}]
        /\ alive \subseteq Processes /\ procSpec \in [Processes -> Specs \cup {None}]
        /\ processes \in [Keys -> Processes \cup {None}]
        /\ Active(w) => TaskOf(w) \in Tasks /\ KeyOf(TaskOf(w)) \in Keys /\ SpecOf[TaskOf(w)] \in Specs
    BY KeyType DEF TypeOK, Placed
  <1>1. CASE Expire(w)
    BY <1>0, <1>1, ThreadMoves, MoveTypeInv DEF Expire, Active, At, TaskOf, schedVars, procVars, Terminal
  <1>2. CASE Initialize(w)
    <2>1. taskState' \in [Tasks -> TaskStates]
      BY <1>0, <1>2 DEF Initialize, TaskStates
    <2> QED
      BY <1>0, <1>2, <2>1, ThreadMoves, MoveTypeInv DEF Initialize, Active, At, TaskOf, procVars
  <1>3. CASE PinitDo(w)
    <2>1. flight' \in [Keys -> Workers \cup {None}]
      BY <1>0, <1>3, CallMoves
    <2> QED
      BY <1>0, <1>3, <2>1, CallMoves, MoveTypeInv DEF PinitDo, Active, At, TaskOf, schedVars
  <1>4. CASE LookupProcess(w)
    <2>1. CASE FlightReturns(w, KeyOf(TaskOf(w)), processes[KeyOf(TaskOf(w))])
      BY <1>0, <1>4, <2>1, FlightTypeInv DEF LookupProcess, Active, At
    <2>2. CASE UNCHANGED flight /\ Moves(w, "start", worker[w].task, worker[w].proc, worker[w].outcome)
      BY <1>0, <1>4, <2>2, MoveTypeInv DEF LookupProcess, Active, At, TaskOf, schedVars
    <2> QED
      BY <1>4, <2>1, <2>2, CallMoves
  <1>5. CASE StartProcess(w)
    <2>1. CASE FlightReturns(w, KeyOf(TaskOf(w)), None) /\ UNCHANGED <<alive, procSpec>>
      BY <1>0, <1>5, <2>1, FlightTypeInv DEF StartProcess, Active, At
    <2>2. ASSUME NEW p \in Processes, procSpec' = [procSpec EXCEPT ![p] = SpecOf[TaskOf(w)]],
                 alive' = alive \cup {p}, UNCHANGED flight,
                 Moves(w, "started", worker[w].task, p, worker[w].outcome)
          PROVE  TypeInv'
      <3>1. procSpec' \in [Processes -> Specs \cup {None}] /\ alive' \subseteq Processes
        BY <1>0, <1>5, <2>2 DEF StartProcess, Active, At
      <3> QED
        BY <1>0, <1>5, <2>2, <3>1, MoveTypeInv DEF StartProcess, Active, At, TaskOf, schedVars
    <2> QED
      BY <1>5, <2>1, <2>2, CallMoves
  <1>6. CASE LookupStarted(w)
    <2>1. worker[w].proc \in Processes
      BY <1>6 DEF LookupStarted, Placed, At
    <2>2. processes' \in [Keys -> Processes \cup {None}]
      BY <1>0, <1>6, <2>1 DEF LookupStarted
    <2> QED
      BY <1>6, <2>1, <2>2, FlightTypeInv DEF LookupStarted, At
  <1>7. CASE Execute(w)
    <2>1. taskState' \in [Tasks -> TaskStates]
      BY <1>0, <1>7 DEF Execute, TaskStates
    <2>2. worker[w].proc \in Processes
      BY <1>7 DEF Execute, Placed, At
    <2> QED
      BY <1>0, <1>7, <2>1, <2>2, ThreadMoves, MoveTypeInv DEF Execute, Active, At, TaskOf, procVars
  <1>8. CASE ExecuteHTTPTask(w)
    BY <1>0, <1>8, ThreadMoves, MoveTypeInv DEF ExecuteHTTPTask, Active, At, TaskOf, schedVars, procVars
  <1>9. CASE CompleteTask(w)
    <2>1. taskState' \in [Tasks -> TaskStates]
      BY <1>0, <1>9 DEF CompleteTask, TaskStates, Placed, Terminal
    <2> QED
      BY <1>0, <1>9, <2>1, ThreadMoves, MoveTypeInv DEF CompleteTask, Active, At, TaskOf, procVars
  <1>10. CASE NotifyAborted(w)
    BY <1>0, <1>10, ThreadMoves, MoveTypeInv DEF NotifyAborted, schedVars, procVars
  <1>11. CASE WorkerExits(w)
    BY <1>0, <1>11, ThreadMoves, MoveTypeInv DEF WorkerExits, schedVars, procVars
  <1> QED
    BY <1>1, <1>2, <1>3, <1>4, <1>5, <1>6, <1>7, <1>8, <1>9, <1>10, <1>11 DEF Schedule

\* A handler of PollTasks moves.
PollType == [at : {"none", "wait", "lookup"}, task : Tasks \cup {None}, got : 0 .. BatchSize - 1]

\* A handler of SubmitTasks moves.
SubmitType == [at : {"none", "insert", "send", "register"}, task : Tasks \cup {None}, pending : SUBSET Tasks]

\* The steps of the guests keep the types, when a handler that moves has what
\* it needs at its new place.
LEMMA GuestTypeInv ==
    ASSUME TypeInv, NEW g \in Groups, NEW r \in SubmitType, NEW q \in PollType,
           submit' = [submit EXCEPT ![g] = r] \/ submit' = submit,
           poll' = [poll EXCEPT ![g] = q] \/ poll' = poll,
           r.at \in {"send", "register"} => r.task \in Tasks /\ GroupOf[r.task] = g,
           \A t \in r.pending : GroupOf[t] = g,
           q.at = "lookup" => q.task \in Tasks,
           tasks' \subseteq Tasks, cancelled' \subseteq Tasks,
           taskState' \in [Tasks -> TaskStates],
           members' \in [Groups -> SUBSET Tasks],
           group' \in [Groups -> {"open", "closed", "stuck"}],
           responses' \in [Groups -> SUBSET [task : Tasks, state : TaskStates \cup {"NotFound"}]],
           UNCHANGED <<procVars, worker, shutdown>>
    PROVE  TypeInv'
  <1>1. submit' \in [Groups -> SubmitType] /\ poll' \in [Groups -> PollType]
    <2>1. submit \in [Groups -> SubmitType] /\ poll \in [Groups -> PollType]
      BY DEF TypeInv, TypeOK, SubmitType, PollType
    <2> QED
      BY <2>1
  <1>2. TypeOK'
    BY <1>1 DEF TypeInv, TypeOK, SubmitType, PollType, procVars
  <1>3. \A h \in Groups : /\ submit'[h] = submit[h] \/ (h = g /\ submit'[h] = r)
                          /\ poll'[h] = poll[h] \/ (h = g /\ poll'[h] = q)
    BY DEF TypeInv, TypeOK
  <1>4. Placed'
    BY <1>3 DEF TypeInv, Placed, Active, At, TaskOf
  <1> QED
    BY <1>2, <1>4 DEF TypeInv

\* Every step keeps the types.
LEMMA NextTypeInv ==
    ASSUME TypeInv, [Next]_vars
    PROVE  TypeInv'
  <1> DEFINE none == [at |-> "none", task |-> None, pending |-> {}]
             idlePoll == [at |-> "none", task |-> None, got |-> 0]
             waitPoll == [at |-> "wait", task |-> None, got |-> 0]
  <1>0. /\ tasks \subseteq Tasks /\ cancelled \subseteq Tasks /\ taskState \in [Tasks -> TaskStates]
        /\ members \in [Groups -> SUBSET Tasks] /\ group \in [Groups -> {"open", "closed", "stuck"}]
        /\ responses \in [Groups -> SUBSET [task : Tasks, state : TaskStates \cup {"NotFound"}]]
        /\ submit \in [Groups -> SubmitType] /\ poll \in [Groups -> PollType]
    BY DEF TypeInv, TypeOK, SubmitType, PollType
  <1>a. none \in SubmitType /\ none.at = "none" /\ none.pending = {}
    BY DEF SubmitType
  <1>b. idlePoll \in PollType /\ idlePoll.at = "none" /\ waitPoll \in PollType /\ waitPoll.at = "wait"
    BY ConstantsAssumption DEF PollType
  <1> HIDE DEF none, idlePoll, waitPoll
  <1>1. ASSUME NEW g \in Groups, NEW batch \in SUBSET Tasks, SubmitTasks(g, batch)
        PROVE  TypeInv'
    <2> DEFINE r == [at |-> "insert", task |-> None, pending |-> batch]
    <2>1. /\ r \in SubmitType /\ r.at = "insert" /\ submit' = [submit EXCEPT ![g] = r]
          /\ \A t \in r.pending : GroupOf[t] = g
      BY <1>1 DEF SubmitTasks, SubmitType
    <2> HIDE DEF r
    <2> QED
      BY <1>0, <1>1, <1>b, <2>1, GuestTypeInv DEF SubmitTasks, schedVars
  <1>2. ASSUME NEW g \in Groups, NEW t \in Tasks, SubmitInsert(g, t)
        PROVE  TypeInv'
    <2> DEFINE r == [at |-> "send", task |-> t, pending |-> submit[g].pending \ {t}]
    <2>1. /\ r \in SubmitType /\ r.at = "send" /\ r.task = t /\ submit' = [submit EXCEPT ![g] = r]
          /\ r.pending \subseteq submit[g].pending
      BY <1>0, <1>2 DEF SubmitInsert, SubmitType
    <2>2. GroupOf[t] = g /\ \A u \in r.pending : GroupOf[u] = g
      BY <1>2, <2>1 DEF SubmitInsert, TypeInv, Placed
    <2>3. tasks' \subseteq Tasks /\ taskState' \in [Tasks -> TaskStates]
      BY <1>0, <1>2 DEF SubmitInsert, TaskStates
    <2>4. UNCHANGED <<cancelled, worker, procVars, poll, members, group, responses, shutdown>>
      BY <1>2 DEF SubmitInsert
    <2> HIDE DEF r
    <2> QED
      BY <1>0, <1>b, <2>1, <2>2, <2>3, <2>4, GuestTypeInv
  <1>3. ASSUME NEW g \in Groups, NEW w \in Workers, SubmitSend(g, w)
        PROVE  TypeInv'
    <2> DEFINE r == [submit[g] EXCEPT !.at = "register"]
    <2>1. submit[g] \in SubmitType /\ submit[g].task \in Tasks /\ GroupOf[submit[g].task] = g
      BY <1>0, <1>3 DEF SubmitSend, TypeInv, Placed
    <2>2. /\ r \in SubmitType /\ r.task = submit[g].task /\ r.pending = submit[g].pending
          /\ submit' = [submit EXCEPT ![g] = r]
      BY <1>0, <1>3, <2>1 DEF SubmitSend, SubmitType
    <2> HIDE DEF r
    <2>3. Moves(w, "received", submit[g].task, None, None)
      BY <1>3, ThreadMoves DEF TypeInv
    <2>4. submit' \in [Groups -> SubmitType]
      BY <1>0, <2>2
    <2>5. TypeOK'
      BY <1>3, <2>3, <2>4 DEF SubmitSend, TypeInv, TypeOK, Moves, Thread, SubmitType, schedVars, procVars
    <2>6. Placed'
      BY <1>0, <1>3, <2>1, <2>2, <2>3 DEF SubmitSend, TypeInv, Placed, Moves, Active, At, TaskOf
    <2> QED
      BY <2>5, <2>6 DEF TypeInv
  <1>4. ASSUME NEW g \in Groups, SubmitRegister(g)
        PROVE  TypeInv'
    <2> DEFINE r == [at |-> IF submit[g].pending = {} THEN "none" ELSE "insert",
                     task |-> None, pending |-> submit[g].pending]
    <2>1. /\ r \in SubmitType /\ r.at \in {"none", "insert"} /\ r.pending = submit[g].pending
      BY <1>0 DEF SubmitType
    <2>2. submit[g].task \in Tasks /\ \A t \in submit[g].pending : GroupOf[t] = g
      BY <1>4 DEF SubmitRegister, TypeInv, Placed
    <2>3. /\ members' \in [Groups -> SUBSET Tasks] /\ group' \in [Groups -> {"open", "closed", "stuck"}]
          /\ submit' = [submit EXCEPT ![g] = r] \/ submit' = [submit EXCEPT ![g] = none]
      BY <1>0, <1>4, <2>2 DEF SubmitRegister, none
    <2> HIDE DEF r
    <2> QED
      BY <1>0, <1>4, <1>a, <1>b, <2>1, <2>2, <2>3, GuestTypeInv DEF SubmitRegister, schedVars
  <1>5. ASSUME NEW w \in Workers, Notify(w)
        PROVE  TypeInv'
    <2> DEFINE g == GroupOf[TaskOf(w)]
               q == [poll[g] EXCEPT !.at = "lookup", !.task = TaskOf(w)]
    <2>1. TaskOf(w) \in Tasks /\ g \in Groups
      BY <1>5, ConstantsAssumption DEF Notify, TypeInv, Placed, Active, At
    <2>2. poll[g] \in PollType
      BY <1>0, <2>1
    <2>3. q \in PollType /\ q.at = "lookup" /\ q.task = TaskOf(w)
      BY <2>1, <2>2 DEF PollType
    <2>4. poll' = [poll EXCEPT ![g] = q]
      BY <1>5 DEF Notify
    <2> HIDE DEF q
    <2>5. Moves(w, "idle", None, None, None)
      BY <1>5, ThreadMoves DEF TypeInv
    <2>6. poll' \in [Groups -> PollType]
      BY <1>0, <2>3, <2>4
    <2>7. TypeOK'
      BY <1>5, <2>5, <2>6 DEF Notify, TypeInv, TypeOK, Moves, Thread, PollType, schedVars, procVars
    <2>8. Placed'
      BY <1>0, <1>5, <2>1, <2>3, <2>4, <2>5 DEF Notify, TypeInv, Placed, Moves, Active, At, TaskOf
    <2> QED
      BY <2>7, <2>8 DEF TypeInv
  <1>6. ASSUME NEW g \in Groups, PollTasks(g) \/ PollReturns(g)
        PROVE  TypeInv'
    <2>1. poll' = [poll EXCEPT ![g] = waitPoll] \/ poll' = [poll EXCEPT ![g] = idlePoll]
      BY <1>6 DEF PollTasks, PollReturns, waitPoll, idlePoll
    <2>2. UNCHANGED <<schedVars, worker, procVars, submit, members, group, responses, shutdown>>
      BY <1>6 DEF PollTasks, PollReturns
    <2> QED
      BY <1>0, <1>a, <1>b, <2>1, <2>2, GuestTypeInv DEF schedVars
  <1>7. ASSUME NEW g \in Groups, PollLookup(g)
        PROVE  TypeInv'
    <2> DEFINE n == poll[g].got + 1
               q == [at |-> "wait", task |-> None, got |-> n]
    <2>1. poll[g].task \in Tasks /\ poll[g] \in PollType
      BY <1>0, <1>7 DEF PollLookup, TypeInv, Placed
    <2>2. LookupTask(g, poll[g].task) \in TaskStates \cup {"NotFound"}
      BY <1>0, <2>1 DEF LookupTask
    <2>3. responses' \in [Groups -> SUBSET [task : Tasks, state : TaskStates \cup {"NotFound"}]]
      BY <1>0, <1>7, <2>1, <2>2 DEF PollLookup
    <2>4. n # BatchSize => n \in 0 .. BatchSize - 1
      BY <2>1, ConstantsAssumption DEF PollType
    <2>5. n # BatchSize => q \in PollType /\ q.at = "wait"
      BY <2>4 DEF PollType
    <2>6. poll' = [poll EXCEPT ![g] = IF n = BatchSize THEN idlePoll ELSE q]
      BY <1>7 DEF PollLookup, idlePoll
    <2>7. UNCHANGED <<schedVars, worker, procVars, submit, members, group, shutdown>>
      BY <1>7 DEF PollLookup
    <2> HIDE DEF q, n
    <2> QED
      BY <1>0, <1>a, <1>b, <2>3, <2>5, <2>6, <2>7, GuestTypeInv DEF schedVars
  <1>8. ASSUME NEW g \in Groups, NEW t \in Tasks, Discard(g, t)
        PROVE  TypeInv'
    <2>1. /\ tasks' \subseteq Tasks /\ cancelled' \subseteq Tasks
          /\ members' \in [Groups -> SUBSET Tasks] /\ group' \in [Groups -> {"open", "closed", "stuck"}]
          /\ UNCHANGED <<taskState, worker, procVars, submit, poll, responses, shutdown>>
      BY <1>0, <1>8 DEF Discard, DiscardAll
    <2> QED
      BY <1>0, <1>a, <1>b, <2>1, GuestTypeInv
  <1>9. CASE Close \/ UNCHANGED vars \/ \E p \in Processes : ProcessExits(p)
    <2>1. /\ shutdown' \in BOOLEAN /\ alive' \subseteq Processes
          /\ UNCHANGED <<schedVars, worker, flight, processes, procSpec, guestVars>>
      BY <1>9 DEF Close, vars, ProcessExits, TypeInv, TypeOK, schedVars, procVars, guestVars
    <2>2. TypeOK'
      BY <2>1 DEF TypeInv, TypeOK, schedVars, guestVars
    <2>3. Placed'
      BY <2>1 DEF TypeInv, Placed, Active, At, TaskOf, guestVars
    <2> QED
      BY <2>2, <2>3 DEF TypeInv
  <1>10. ASSUME NEW g \in Groups, CloseGroup(g)
         PROVE  TypeInv'
    <2>1. /\ tasks' \subseteq Tasks /\ cancelled' \subseteq Tasks
          /\ members' \in [Groups -> SUBSET Tasks] /\ group' \in [Groups -> {"open", "closed", "stuck"}]
          /\ UNCHANGED <<taskState, worker, procVars, submit, poll, responses, shutdown>>
      BY <1>0, <1>10 DEF CloseGroup, DiscardAll
    <2> QED
      BY <1>0, <1>a, <1>b, <2>1, GuestTypeInv
  <1> QED
    BY <1>1, <1>2, <1>3, <1>4, <1>5, <1>6, <1>7, <1>8, <1>9, <1>10, ScheduleTypeInv
    DEF Next, HandleSubmit

\* The types of the scheduler's state, for any number of everything; a poll
\* never counts more tasks than its batch takes.
THEOREM TypeCorrect == Spec => []TypeOK
  <1>1. TypeInv => TypeOK
    BY DEF TypeInv
  <1> QED
    BY <1>1, InitTypeInv, NextTypeInv, PTL DEF Spec

-----------------------------------------------------------------------------
(* Processes.                                                              *)

\* The thread that runs the call of a key is the one of its flight.
FlightHeld ==
    \A w \in Workers :
        worker[w].at \in {"lookup", "start", "started"} => flight[KeyOf(TaskOf(w))] = w

\* A live process is known by its key, or was started by a thread that is
\* about to look it up.
KnownByKey ==
    \A p \in alive :
        /\ procSpec[p] \in Specs
        /\ \/ processes[Key(procSpec[p])] = p
           \/ \E w \in Workers : At(w, "started") /\ worker[w].proc = p

\* A thread that is about to start a process has found none alive.
NoneAlive ==
    \A w \in Workers : At(w, "start") =>
        \A p \in alive : Key(procSpec[p]) # KeyOf(TaskOf(w))

\* The processes of a key, and those of the threads, are of that key.
RightKey ==
    /\ \A k \in Keys : processes[k] # None =>
        procSpec[processes[k]] \in Specs /\ Key(procSpec[processes[k]]) = k
    /\ \A w \in Workers : worker[w].at \in {"started", "ready", "execute"} =>
        procSpec[worker[w].proc] \in Specs /\ Key(procSpec[worker[w].proc]) = KeyOf(TaskOf(w))

ProcInv == FlightHeld /\ KnownByKey /\ NoneAlive /\ RightKey /\ OneProcessPerKey

\* No process has been started.
LEMMA InitProcInv == Init => ProcInv
  BY DEF Init, ProcInv, FlightHeld, KnownByKey, NoneAlive, RightKey, OneProcessPerKey, At, idle

\* A thread that moves outside of the call of a key.
LEMMA MoveProcInv ==
    ASSUME TypeInv, ProcInv, NEW w \in Workers, NEW a, NEW t, NEW p, NEW o, Moves(w, a, t, p, o),
           a \notin {"lookup", "start", "started", "ready"}, ~At(w, "started"),
           a = "execute" => At(w, "ready") /\ t = TaskOf(w) /\ p = worker[w].proc,
           UNCHANGED procVars
    PROVE  ProcInv'
  <1> USE DEF ProcInv, Moves, procVars
  <1>1. FlightHeld' /\ NoneAlive'
    BY DEF FlightHeld, NoneAlive, At, TaskOf
  <1>2. KnownByKey'
    BY DEF KnownByKey, At
  <1>3. RightKey'
    BY DEF RightKey, At, TaskOf
  <1>4. OneProcessPerKey'
    BY DEF OneProcessPerKey
  <1> QED
    BY <1>1, <1>2, <1>3, <1>4

\* A call that returns: the flight of its key ends, and the process it returns
\* is of the key of all that share it.
LEMMA FlightProcInv ==
    ASSUME TypeInv, ProcInv, NEW w \in Workers, worker[w].at \in {"lookup", "start", "started"},
           NEW k \in Keys, k = KeyOf(TaskOf(w)),
           NEW p \in Processes \cup {None}, FlightReturns(w, k, p),
           p # None => procSpec[p] \in Specs /\ Key(procSpec[p]) = k,
           processes' = processes \/ (p # None /\ processes' = [processes EXCEPT ![k] = p]),
           p # None => \A q \in alive : Key(procSpec[q]) = k => q = p /\ processes'[k] = p,
           p = None /\ At(w, "started") => worker[w].proc \notin alive,
           UNCHANGED <<alive, procSpec>>
    PROVE  ProcInv'
  <1>1. /\ flight' = [flight EXCEPT ![k] = None]
        /\ \A v \in Workers :
                \/ worker'[v] = worker[v] /\ v # w /\ (At(v, "wait") => KeyOf(TaskOf(v)) # k)
                \/ Answered(v, p) /\ (v = w \/ (At(v, "wait") /\ KeyOf(TaskOf(v)) = k))
    BY FlightMoves DEF TypeInv
  <1>2. \A v \in Workers : worker'[v].task = worker[v].task
    BY <1>1 DEF Answered
  <1>3. \A v \in Workers : worker'[v].at \in {"lookup", "start", "started"} => worker'[v] = worker[v] /\ v # w
    BY <1>1 DEF Answered
  <1>4. \A v \in Workers \ {w} : worker[v].at \in {"lookup", "start", "started"} =>
            worker'[v] = worker[v] /\ KeyOf(TaskOf(v)) # k /\ KeyOf(TaskOf(v)) \in Keys
    <2>1. \A v \in Workers : worker[v].at \in {"lookup", "start", "started"} => flight[KeyOf(TaskOf(v))] = v
      BY DEF ProcInv, FlightHeld
    <2>2. \A v \in Workers : worker[v].at \in {"lookup", "start", "started"} => KeyOf(TaskOf(v)) \in Keys
      BY KeyType DEF TypeInv, Placed, Active
    <2> QED
      BY <1>1, <2>1, <2>2 DEF At
  <1>5. FlightHeld'
    BY <1>1, <1>2, <1>3, <1>4 DEF ProcInv, FlightHeld, TaskOf, TypeInv, TypeOK
  <1>6. NoneAlive'
    BY <1>2, <1>3 DEF ProcInv, NoneAlive, At, TaskOf
  <1>7. RightKey'
    <2>1. ASSUME NEW v \in Workers, worker'[v].at \in {"started", "ready", "execute"}
          PROVE  procSpec[worker'[v].proc] \in Specs /\ Key(procSpec[worker'[v].proc]) = KeyOf(TaskOf(v))
      BY <1>1, <2>1 DEF ProcInv, RightKey, Answered, TaskOf
    <2>2. ASSUME NEW j \in Keys, processes'[j] # None
          PROVE  procSpec[processes'[j]] \in Specs /\ Key(procSpec[processes'[j]]) = j
      BY <2>2 DEF ProcInv, RightKey, TypeInv, TypeOK
    <2> QED
      BY <1>2, <2>1, <2>2 DEF RightKey, TaskOf
  <1>8. OneProcessPerKey'
    BY DEF ProcInv, OneProcessPerKey
  <1>9. KnownByKey'
    <2> SUFFICES ASSUME NEW q \in alive
                 PROVE  \/ processes'[Key(procSpec[q])] = q
                        \/ \E v \in Workers : At(v, "started")' /\ worker'[v].proc = q
      BY DEF ProcInv, KnownByKey
    <2>1. CASE Key(procSpec[q]) = k /\ p # None
      BY <2>1
    <2>2. CASE Key(procSpec[q]) = k /\ p = None
      <3>1. processes' = processes
        BY <2>2
      <3>2. ~\E v \in Workers \ {w} : At(v, "started") /\ worker[v].proc = q
        BY <1>4, <2>2 DEF ProcInv, RightKey, At
      <3>3. ~(At(w, "started") /\ worker[w].proc = q)
        BY <2>2
      <3> QED
        BY <3>1, <3>2, <3>3 DEF ProcInv, KnownByKey
    <2>3. CASE Key(procSpec[q]) # k
      <3>1. processes'[Key(procSpec[q])] = processes[Key(procSpec[q])]
        <4>1. Key(procSpec[q]) \in Keys
          BY DEF ProcInv, KnownByKey, Keys
        <4>2. processes \in [Keys -> Processes \cup {None}]
          BY DEF TypeInv, TypeOK
        <4> QED
          BY <2>3, <4>1, <4>2
      <3>2. ~(At(w, "started") /\ worker[w].proc = q)
        BY <2>3 DEF ProcInv, RightKey, At
      <3> QED
        BY <1>4, <3>1, <3>2 DEF ProcInv, KnownByKey, At
    <2> QED
      BY <2>1, <2>2, <2>3
  <1> QED
    BY <1>5, <1>6, <1>7, <1>8, <1>9 DEF ProcInv

\* The steps of a thread keep the processes apart.
LEMMA ScheduleProcInv ==
    ASSUME TypeInv, ProcInv, NEW w \in Workers, Schedule(w)
    PROVE  ProcInv'
  <1> DEFINE k == KeyOf(TaskOf(w))
  <1>0. Active(w) => TaskOf(w) \in Tasks /\ k \in Keys /\ SpecOf[TaskOf(w)] \in Specs /\ Key(SpecOf[TaskOf(w)]) = k
    BY KeyType DEF TypeInv, Placed
  <1>t. /\ procSpec \in [Processes -> Specs \cup {None}] /\ processes \in [Keys -> Processes \cup {None}]
        /\ flight \in [Keys -> Workers \cup {None}] /\ alive \subseteq Processes
    BY DEF TypeInv, TypeOK
  <1> HIDE DEF k
  <1>1. CASE Expire(w)
    BY <1>1, ThreadMoves, MoveProcInv DEF Expire, At, TypeInv
  <1>2. CASE Initialize(w)
    <2>1. Moves(w, "do", worker[w].task, worker[w].proc, worker[w].outcome)
      BY <1>2, ThreadMoves DEF TypeInv
    <2>2. ~At(w, "started") /\ UNCHANGED procVars
      BY <1>2 DEF Initialize, At
    <2> QED
      BY <2>1, <2>2, MoveProcInv
  <1>3. CASE PinitDo(w)
    <2>1. CASE flight[k] # None /\ UNCHANGED flight
               /\ Moves(w, "wait", worker[w].task, worker[w].proc, worker[w].outcome)
      BY <1>3, <2>1, MoveProcInv DEF PinitDo, At, procVars
    <2>2. CASE /\ flight[k] = None /\ flight' = [flight EXCEPT ![k] = w]
               /\ Moves(w, "lookup", worker[w].task, worker[w].proc, worker[w].outcome)
      <3>1. UNCHANGED <<processes, alive, procSpec>> /\ At(w, "do") /\ k \in Keys
        BY <1>0, <1>3 DEF PinitDo, Active, At
      <3>2. FlightHeld'
        <4>1. \A v \in Workers \ {w} : worker[v].at \in {"lookup", "start", "started"} =>
                KeyOf(TaskOf(v)) \in Keys /\ KeyOf(TaskOf(v)) # k
          BY <2>2, KeyType, ConstantsAssumption DEF ProcInv, FlightHeld, TypeInv, Placed, Active
        <4> QED
          BY <1>t, <2>2, <3>1, <4>1 DEF ProcInv, FlightHeld, Moves, TaskOf, k
      <3>3. NoneAlive' /\ RightKey'
        BY <2>2, <3>1 DEF ProcInv, NoneAlive, RightKey, Moves, At, TaskOf
      <3>4. KnownByKey' /\ OneProcessPerKey'
        BY <2>2, <3>1 DEF ProcInv, KnownByKey, OneProcessPerKey, Moves, At
      <3> QED
        BY <3>2, <3>3, <3>4 DEF ProcInv
    <2> QED
      BY <1>3, <2>1, <2>2, CallMoves DEF k
  <1>4. CASE LookupProcess(w)
    <2>0. k \in Keys /\ At(w, "lookup") /\ UNCHANGED <<processes, alive, procSpec>>
      BY <1>0, <1>4 DEF LookupProcess, Active, At
    <2>f. flight[k] = w
      BY <2>0 DEF ProcInv, FlightHeld, At, k
    <2>1. CASE processes[k] \in alive /\ FlightReturns(w, k, processes[k])
      <3>1. processes[k] \in Processes /\ processes[k] # None
        BY <1>t, <2>1, ConstantsAssumption
      <3>2. procSpec[processes[k]] \in Specs /\ Key(procSpec[processes[k]]) = k
        BY <2>0, <3>1 DEF ProcInv, RightKey
      <3>3. \A q \in alive : Key(procSpec[q]) = k => q = processes[k]
        BY <2>1, <3>2 DEF ProcInv, OneProcessPerKey
      <3> QED
        BY <2>0, <2>1, <3>1, <3>2, <3>3, FlightProcInv DEF At, k
    <2>2. CASE /\ processes[k] \notin alive /\ UNCHANGED flight
               /\ Moves(w, "start", worker[w].task, worker[w].proc, worker[w].outcome)
      <3>1. \A p \in alive : Key(procSpec[p]) # k
        <4>1. \A v \in Workers : At(v, "started") => KeyOf(TaskOf(v)) # k
          BY <2>0, <2>f DEF ProcInv, FlightHeld, At
        <4> QED
          BY <2>2, <4>1 DEF ProcInv, KnownByKey, RightKey, At
      <3>2. NoneAlive'
        BY <2>0, <2>2, <3>1 DEF ProcInv, NoneAlive, Moves, At, TaskOf, k
      <3>3. FlightHeld' /\ RightKey'
        BY <2>0, <2>2 DEF ProcInv, FlightHeld, RightKey, Moves, At, TaskOf
      <3>4. KnownByKey' /\ OneProcessPerKey'
        BY <2>0, <2>2 DEF ProcInv, KnownByKey, OneProcessPerKey, Moves, At
      <3> QED
        BY <3>2, <3>3, <3>4 DEF ProcInv
    <2> QED
      BY <1>4, <2>1, <2>2, MovesPlace DEF LookupProcess, TypeInv, Places, k
  <1>5. CASE StartProcess(w)
    <2>0. k \in Keys /\ At(w, "start") /\ UNCHANGED processes /\ TaskOf(w) \in Tasks
      BY <1>0, <1>5 DEF StartProcess, Active, At
    <2>f. flight[k] = w
      BY <2>0 DEF ProcInv, FlightHeld, At, k
    <2>1. CASE FlightReturns(w, k, None) /\ UNCHANGED <<alive, procSpec>>
      BY <2>0, <2>1, FlightProcInv DEF At, k
    <2>2. ASSUME NEW p \in Processes, procSpec[p] = None,
                 procSpec' = [procSpec EXCEPT ![p] = SpecOf[TaskOf(w)]],
                 alive' = alive \cup {p}, UNCHANGED flight,
                 Moves(w, "started", worker[w].task, p, worker[w].outcome)
          PROVE  ProcInv'
      <3>1. None \notin Specs
        BY ConstantsAssumption DEF Specs
      <3>2. /\ procSpec'[p] \in Specs /\ Key(procSpec'[p]) = k
            /\ \A q \in Processes \ {p} : procSpec'[q] = procSpec[q]
        BY <1>0, <1>t, <2>0, <2>2 DEF Active, At
      <3>3. p \notin alive /\ \A q \in alive : procSpec'[q] = procSpec[q] /\ Key(procSpec[q]) # k
        BY <1>t, <2>0, <2>2, <3>1, <3>2 DEF ProcInv, KnownByKey, NoneAlive, k
      <3>4. \A v \in Workers \ {w} : worker'[v] = worker[v] /\
                (worker[v].at \in {"start", "started"} => KeyOf(TaskOf(v)) # k)
        BY <2>f, <2>2 DEF ProcInv, FlightHeld, Moves
      <3>5. OneProcessPerKey'
        BY <2>2, <3>2, <3>3 DEF ProcInv, OneProcessPerKey
      <3>6. NoneAlive'
        BY <2>2, <3>2, <3>3, <3>4 DEF ProcInv, NoneAlive, Moves, At, TaskOf
      <3>7. FlightHeld'
        BY <2>f, <2>2 DEF ProcInv, FlightHeld, Moves, TaskOf, k
      <3>8. KnownByKey'
        <4>1. At(w, "started")' /\ worker'[w].proc = p
          BY <2>2 DEF Moves, At
        <4>2. ASSUME NEW q \in alive
              PROVE  /\ procSpec'[q] \in Specs
                     /\ \/ processes'[Key(procSpec'[q])] = q
                        \/ \E v \in Workers : At(v, "started")' /\ worker'[v].proc = q
          <5>1. ~At(w, "started")
            BY <2>0 DEF At
          <5> QED
            BY <2>0, <3>3, <3>4, <5>1 DEF ProcInv, KnownByKey, At
        <4> QED
          BY <2>2, <3>2, <4>1, <4>2 DEF KnownByKey
      <3>9. RightKey'
        <4>1. ASSUME NEW j \in Keys, processes[j] # None
              PROVE  procSpec'[processes[j]] = procSpec[processes[j]]
          <5>1. processes[j] \in Processes /\ procSpec[processes[j]] \in Specs
            BY <1>t, <4>1 DEF ProcInv, RightKey
          <5> QED
            BY <2>2, <3>1, <3>2, <5>1
        <4>2. ASSUME NEW v \in Workers \ {w}, worker[v].at \in {"started", "ready", "execute"}
              PROVE  procSpec'[worker[v].proc] = procSpec[worker[v].proc]
          <5>1. worker[v].proc \in Processes /\ procSpec[worker[v].proc] \in Specs
            BY <4>2 DEF ProcInv, RightKey, TypeInv, Placed
          <5> QED
            BY <2>2, <3>1, <3>2, <5>1
        <4>3. procSpec'[worker'[w].proc] \in Specs /\ Key(procSpec'[worker'[w].proc]) = KeyOf(TaskOf(w)')
          BY <2>2, <3>2 DEF Moves, TaskOf, k
        <4> QED
          BY <2>0, <3>4, <4>1, <4>2, <4>3 DEF ProcInv, RightKey, TaskOf
      <3> QED
        BY <3>5, <3>6, <3>7, <3>8, <3>9 DEF ProcInv
    <2> QED
      BY <1>5, <2>1, <2>2, CallMoves DEF k
  <1>6. CASE LookupStarted(w)
    <2> DEFINE p == worker[w].proc
    <2>0. k \in Keys /\ At(w, "started") /\ p \in Processes /\ p # None /\ UNCHANGED <<alive, procSpec>>
      BY <1>0, <1>6, ConstantsAssumption DEF LookupStarted, Active, At, TypeInv, Placed
    <2>1. procSpec[p] \in Specs /\ Key(procSpec[p]) = k
      BY <2>0 DEF ProcInv, RightKey, At, k
    <2>2. CASE p \in alive /\ processes' = [processes EXCEPT ![k] = p] /\ FlightReturns(w, k, p)
      <3>1. \A q \in alive : Key(procSpec[q]) = k => q = p /\ processes'[k] = p
        BY <1>t, <2>0, <2>1, <2>2 DEF ProcInv, OneProcessPerKey
      <3> HIDE DEF p
      <3> QED
        BY <2>0, <2>1, <2>2, <3>1, FlightProcInv DEF At, k
    <2>3. CASE p \notin alive /\ UNCHANGED processes /\ FlightReturns(w, k, None)
      BY <2>0, <2>3, FlightProcInv DEF At, k
    <2> QED
      BY <1>6, <2>2, <2>3 DEF LookupStarted, k
  <1>7. CASE Execute(w)
    <2>1. Moves(w, "execute", worker[w].task, worker[w].proc, worker[w].outcome)
      BY <1>7, ThreadMoves DEF TypeInv
    <2>2. At(w, "ready") /\ ~At(w, "started") /\ UNCHANGED procVars
      BY <1>7 DEF Execute, At
    <2> QED
      BY <2>1, <2>2, MoveProcInv DEF TaskOf
  <1>8. CASE ExecuteHTTPTask(w)
    <2>1. PICK o \in Terminal : Moves(w, "complete", worker[w].task, worker[w].proc, o)
      BY <1>8, ThreadMoves DEF TypeInv
    <2>2. ~At(w, "started") /\ UNCHANGED procVars
      BY <1>8 DEF ExecuteHTTPTask, At
    <2> QED
      BY <2>1, <2>2, MoveProcInv
  <1>9. CASE CompleteTask(w)
    BY <1>9, ThreadMoves, MoveProcInv DEF CompleteTask, At, TypeInv
  <1>10. CASE NotifyAborted(w)
    BY <1>10, ThreadMoves, MoveProcInv DEF NotifyAborted, At, TypeInv
  <1>11. CASE WorkerExits(w)
    <2>1. Moves(w, "exited", worker[w].task, worker[w].proc, worker[w].outcome)
      BY <1>11, ThreadMoves DEF TypeInv
    <2>2. At(w, "idle") /\ UNCHANGED <<schedVars, procVars, guestVars, shutdown>>
      BY <1>11 DEF WorkerExits
    <2> QED
      BY <2>1, <2>2, MoveProcInv DEF At
  <1> QED
    BY <1>1, <1>2, <1>3, <1>4, <1>5, <1>6, <1>7, <1>8, <1>9, <1>10, <1>11 DEF Schedule

\* Every step keeps the processes apart.
LEMMA NextProcInv ==
    ASSUME TypeInv, ProcInv, [Next]_vars
    PROVE  ProcInv'
  <1>1. ASSUME NEW g \in Groups, NEW w \in Workers, SubmitSend(g, w)
        PROVE  ProcInv'
    <2>1. Moves(w, "received", submit[g].task, None, None)
      BY <1>1, ThreadMoves DEF TypeInv
    <2>2. ~At(w, "started") /\ UNCHANGED procVars
      BY <1>1 DEF SubmitSend, At
    <2> QED
      BY <2>1, <2>2, MoveProcInv
  <1>2. ASSUME NEW w \in Workers, Notify(w)
        PROVE  ProcInv'
    BY <1>2, ThreadMoves, MoveProcInv DEF Notify, At, TypeInv
  <1>3. ASSUME NEW p \in Processes, ProcessExits(p)
        PROVE  ProcInv'
    BY <1>3 DEF ProcessExits, ProcInv, FlightHeld, KnownByKey, NoneAlive, RightKey, OneProcessPerKey,
       At, TaskOf
  <1>4. CASE UNCHANGED <<worker, procVars>>
    BY <1>4 DEF procVars, ProcInv, FlightHeld, KnownByKey, NoneAlive, RightKey, OneProcessPerKey, At, TaskOf
  <1> QED
    BY <1>1, <1>2, <1>3, <1>4, ScheduleProcInv
    DEF Next, vars, procVars, SubmitTasks, HandleSubmit, SubmitInsert, SubmitRegister, PollTasks, PollLookup,
        PollReturns, Discard, CloseGroup, Close

\* Different modules have different keys.  ModuleSpec.Key leaves fields out,
\* hence this is a condition on what guests submit.
KeysDetermine == \A r, s \in Specs : Key(r) = Key(s) => r = s

\* The process of a task is the one of its key: however the calls of the
\* threads overlap and processes exit, a key has one live process at most and
\* a task is executed by one that was started for its key; and by one of its
\* own module when no two modules share a key.
THEOREM RightProcessHolds ==
    /\ Spec => [](OneProcessPerKey /\ RightKey)
    /\ KeysDetermine => (Spec => []RightProcess)
  <1>1. TypeInv /\ ProcInv => OneProcessPerKey /\ RightKey
    BY DEF ProcInv
  <1>2. Spec => [](TypeInv /\ ProcInv)
    BY InitTypeInv, InitProcInv, NextTypeInv, NextProcInv, PTL DEF Spec
  <1>3. ASSUME KeysDetermine
        PROVE  TypeInv /\ ProcInv => RightProcess
    BY <1>3, KeyType
    DEF KeysDetermine, TypeInv, Placed, ProcInv, RightKey, RightProcess, RunsOwnModule, At, Active
  <1>4. ASSUME KeysDetermine
        PROVE  Spec => []RightProcess
    BY <1>2, <1>3, <1>4, PTL
  <1>5. Spec => [](OneProcessPerKey /\ RightKey)
    BY <1>1, <1>2, PTL
  <1> QED
    BY <1>4, <1>5

-----------------------------------------------------------------------------
(* Tasks.                                                                  *)

\* A thread from the queue to completeTask.
Working(w) == worker[w].at \notin {"idle", "exited", "notify"}

\* A task that is submitted or worked on is not complete, and a task has one
\* thread.
Unfinished == {"Queued", "Initializing", "Executing"}

OneThread ==
    /\ \A g \in Groups :
        /\ \A t \in submit[g].pending : taskState[t] = "None"
        /\ submit[g].at = "send" =>
            /\ taskState[submit[g].task] \in Unfinished
            /\ \A w \in Workers : Working(w) => TaskOf(w) # submit[g].task
    /\ \A w \in Workers : Working(w) => taskState[TaskOf(w)] \in Unfinished
    /\ \A v, w \in Workers : Working(v) /\ Working(w) /\ TaskOf(v) = TaskOf(w) => v = w

\* A task whose completion is sent is complete.
SentIsComplete == \A w \in Workers : At(w, "notify") => taskState[TaskOf(w)] \in Terminal

TaskInv == OneThread /\ SentIsComplete /\ NotifiedIsComplete

\* No thread works.
LEMMA InitTaskInv == Init => TaskInv
  BY DEF Init, TaskInv, OneThread, SentIsComplete, NotifiedIsComplete, Working, At, idle

\* A thread that goes on with its task, or ends.
LEMMA MoveTaskInv ==
    ASSUME TypeInv, TaskInv, NEW w \in Workers, NEW a, NEW t, NEW p, NEW o, Moves(w, a, t, p, o),
           \/ a \in {"idle", "exited"}
           \/ Working(w) /\ t = TaskOf(w) /\ a # "notify",
           UNCHANGED <<taskState, submit, poll, responses>>
    PROVE  TaskInv'
  <1>1. /\ \A v \in Workers : Working(v)' => Working(v) /\ TaskOf(v)' = TaskOf(v)
        /\ \A v \in Workers : At(v, "notify")' => At(v, "notify") /\ TaskOf(v)' = TaskOf(v)
    BY DEF Moves, Working, At, TaskOf
  <1>2. OneThread'
    BY <1>1 DEF TaskInv, OneThread
  <1>3. SentIsComplete' /\ NotifiedIsComplete'
    BY <1>1 DEF TaskInv, SentIsComplete, NotifiedIsComplete
  <1> QED
    BY <1>2, <1>3 DEF TaskInv

\* The thread of a task sets its state, and sends the completion only when
\* the state is final.
LEMMA StateTaskInv ==
    ASSUME TypeInv, TaskInv, NEW w \in Workers, NEW a, NEW t, NEW p, NEW o, Moves(w, a, t, p, o),
           Working(w), t = TaskOf(w), NEW s, taskState' = [taskState EXCEPT ![t] = s],
           IF a = "notify" THEN s \in Terminal ELSE s \in Unfinished,
           UNCHANGED <<submit, poll, responses>>
    PROVE  TaskInv'
  <1>0. /\ t \in Tasks /\ taskState \in [Tasks -> TaskStates]
        /\ \A v \in Workers : Active(v) => TaskOf(v) \in Tasks
        /\ \A g \in Groups : /\ submit[g].pending \subseteq Tasks
                             /\ submit[g].at = "send" => submit[g].task \in Tasks
                             /\ poll[g].at = "lookup" => poll[g].task \in Tasks
    BY DEF TypeInv, TypeOK, Placed, Active, Working
  <1>1. taskState[t] \in Unfinished /\ taskState'[t] = s /\ \A u \in Tasks \ {t} : taskState'[u] = taskState[u]
    BY <1>0 DEF TaskInv, OneThread
  <1>2. /\ \A v \in Workers : Working(v)' => Working(v) /\ TaskOf(v)' = TaskOf(v)
        /\ \A v \in Workers : v # w /\ Working(v) => TaskOf(v) # t
        /\ \A v \in Workers : v # w /\ At(v, "notify")' => At(v, "notify") /\ TaskOf(v)' = TaskOf(v)
        /\ TaskOf(w)' = t /\ (Working(w)' => a # "notify") /\ (At(w, "notify")' => a = "notify")
    BY DEF TaskInv, OneThread, Moves, Working, At, TaskOf
  <1>3. t \notin {u \in Tasks : taskState[u] \in Terminal \cup {"None"}}
    BY <1>1 DEF Unfinished, Terminal
  <1>4. \A g \in Groups : \A u \in submit[g].pending : taskState'[u] = "None"
    BY <1>0, <1>1, <1>3 DEF TaskInv, OneThread
  <1>5. \A g \in Groups : submit[g].at = "send" =>
            /\ taskState'[submit[g].task] \in Unfinished
            /\ \A v \in Workers : Working(v)' => TaskOf(v)' # submit[g].task
    BY <1>0, <1>1, <1>2 DEF TaskInv, OneThread
  <1>6. \A v \in Workers : Working(v)' => taskState'[TaskOf(v)'] \in Unfinished
    <2> SUFFICES ASSUME NEW v \in Workers, Working(v)'
                 PROVE  taskState'[TaskOf(v)'] \in Unfinished
      OBVIOUS
    <2>1. CASE v = w
      BY <1>1, <1>2, <2>1
    <2>2. CASE v # w
      BY <1>0, <1>1, <1>2, <2>2 DEF TaskInv, OneThread, Working, Active
    <2> QED
      BY <2>1, <2>2
  <1>7. OneThread'
    <2>1. \A v, u \in Workers : Working(v)' /\ Working(u)' /\ TaskOf(v)' = TaskOf(u)' => v = u
      BY <1>2 DEF TaskInv, OneThread
    <2> QED
      BY <1>4, <1>5, <1>6, <2>1 DEF OneThread
  <1>8. SentIsComplete'
    <2> SUFFICES ASSUME NEW v \in Workers, At(v, "notify")'
                 PROVE  taskState'[TaskOf(v)'] \in Terminal
      BY DEF SentIsComplete
    <2>1. CASE v = w
      BY <1>1, <1>2, <2>1
    <2>2. CASE v # w
      <3>1. taskState[TaskOf(v)] \in Terminal /\ TaskOf(v) \in Tasks
        BY <1>0, <1>2, <2>2 DEF TaskInv, SentIsComplete, At, Active
      <3> QED
        BY <1>1, <1>2, <1>3, <2>2, <3>1
    <2> QED
      BY <2>1, <2>2
  <1>9. NotifiedIsComplete'
    BY <1>0, <1>1, <1>3 DEF TaskInv, NotifiedIsComplete
  <1> QED
    BY <1>7, <1>8, <1>9 DEF TaskInv

\* A call that returns lets its threads go on with their tasks.
LEMMA FlightTaskInv ==
    ASSUME TypeInv, TaskInv, NEW w \in Workers, Working(w), NEW k, NEW p \in Processes \cup {None},
           FlightReturns(w, k, p), UNCHANGED <<taskState, submit, poll, responses>>
    PROVE  TaskInv'
  <1>1. /\ \A v \in Workers : Working(v)' => Working(v) /\ TaskOf(v)' = TaskOf(v)
        /\ \A v \in Workers : At(v, "notify")' => At(v, "notify") /\ TaskOf(v)' = TaskOf(v)
    <2>1. \A v \in Workers : worker'[v] = worker[v] \/ (Answered(v, p) /\ Working(v))
      BY FlightMoves DEF TypeInv, Working, At
    <2> QED
      BY <2>1 DEF Answered, Working, At, TaskOf
  <1>2. OneThread'
    BY <1>1 DEF TaskInv, OneThread
  <1>3. SentIsComplete' /\ NotifiedIsComplete'
    BY <1>1 DEF TaskInv, SentIsComplete, NotifiedIsComplete
  <1> QED
    BY <1>2, <1>3 DEF TaskInv

\* The steps of a thread keep its task its own.
LEMMA ScheduleTaskInv ==
    ASSUME TypeInv, TaskInv, NEW w \in Workers, Schedule(w)
    PROVE  TaskInv'
  <1>t. worker[w].task = TaskOf(w)
    BY DEF TaskOf
  <1>1. CASE Expire(w)
    <2>1. Moves(w, "complete", TaskOf(w), worker[w].proc, "Error")
      BY <1>1, <1>t, ThreadMoves DEF TypeInv
    <2>2. Working(w) /\ UNCHANGED <<taskState, submit, poll, responses>>
      BY <1>1 DEF Expire, Working, At, schedVars, guestVars
    <2> QED
      BY <2>1, <2>2, MoveTaskInv
  <1>2. CASE Initialize(w)
    <2>1. Moves(w, "do", TaskOf(w), worker[w].proc, worker[w].outcome)
      BY <1>2, <1>t, ThreadMoves DEF TypeInv
    <2>2. /\ Working(w) /\ UNCHANGED <<submit, poll, responses>>
          /\ taskState' = [taskState EXCEPT ![TaskOf(w)] = "Initializing"]
      BY <1>2 DEF Initialize, Working, At, guestVars
    <2>3. "Initializing" \in Unfinished
      BY DEF Unfinished
    <2> QED
      BY <2>1, <2>2, <2>3, StateTaskInv
  <1>3. CASE PinitDo(w)
    <2>1. PICK a \in {"lookup", "wait"} : Moves(w, a, TaskOf(w), worker[w].proc, worker[w].outcome)
      BY <1>3, <1>t, CallMoves
    <2>2. Working(w) /\ UNCHANGED <<taskState, submit, poll, responses>>
      BY <1>3 DEF PinitDo, Working, At, schedVars, guestVars
    <2> QED
      BY <2>1, <2>2, MoveTaskInv
  <1>4. CASE LookupProcess(w)
    <2>1. Working(w) /\ UNCHANGED <<taskState, submit, poll, responses>> /\ KeyOf(TaskOf(w)) \in Keys
      BY <1>4, KeyType DEF LookupProcess, Working, At, schedVars, guestVars, TypeInv, Placed, Active
    <2>2. processes[KeyOf(TaskOf(w))] \in Processes \cup {None}
      BY <2>1 DEF TypeInv, TypeOK
    <2>3. CASE FlightReturns(w, KeyOf(TaskOf(w)), processes[KeyOf(TaskOf(w))])
      BY <2>1, <2>2, <2>3, FlightTaskInv
    <2>4. CASE Moves(w, "start", TaskOf(w), worker[w].proc, worker[w].outcome)
      BY <2>1, <2>4, MoveTaskInv
    <2> QED
      BY <1>4, <1>t, <2>3, <2>4, CallMoves
  <1>5. CASE StartProcess(w)
    <2>1. Working(w) /\ UNCHANGED <<taskState, submit, poll, responses>>
      BY <1>5 DEF StartProcess, Working, At, schedVars, guestVars
    <2>2. CASE FlightReturns(w, KeyOf(TaskOf(w)), None)
      BY <2>1, <2>2, FlightTaskInv
    <2>3. ASSUME NEW p, Moves(w, "started", TaskOf(w), p, worker[w].outcome)
          PROVE  TaskInv'
      BY <2>1, <2>3, MoveTaskInv
    <2> QED
      BY <1>5, <1>t, <2>2, <2>3, CallMoves
  <1>6. CASE LookupStarted(w)
    <2>1. Working(w) /\ UNCHANGED <<taskState, submit, poll, responses>> /\ worker[w].proc \in Processes
      BY <1>6 DEF LookupStarted, Working, At, schedVars, guestVars, TypeInv, Placed
    <2>2. \E p \in Processes \cup {None} : FlightReturns(w, KeyOf(TaskOf(w)), p)
      BY <1>6, <2>1 DEF LookupStarted
    <2> QED
      BY <2>1, <2>2, FlightTaskInv
  <1>7. CASE Execute(w)
    <2>1. Moves(w, "execute", TaskOf(w), worker[w].proc, worker[w].outcome)
      BY <1>7, <1>t, ThreadMoves DEF TypeInv
    <2>2. /\ Working(w) /\ UNCHANGED <<submit, poll, responses>>
          /\ taskState' = [taskState EXCEPT ![TaskOf(w)] = "Executing"]
      BY <1>7 DEF Execute, Working, At, guestVars
    <2>3. "Executing" \in Unfinished
      BY DEF Unfinished
    <2> QED
      BY <2>1, <2>2, <2>3, StateTaskInv
  <1>8. CASE ExecuteHTTPTask(w)
    <2>1. PICK o \in Terminal : Moves(w, "complete", TaskOf(w), worker[w].proc, o)
      BY <1>8, <1>t, ThreadMoves DEF TypeInv
    <2>2. Working(w) /\ UNCHANGED <<taskState, submit, poll, responses>>
      BY <1>8 DEF ExecuteHTTPTask, Working, At, schedVars, guestVars
    <2> QED
      BY <2>1, <2>2, MoveTaskInv
  <1>9. CASE CompleteTask(w)
    <2>1. Moves(w, "notify", TaskOf(w), worker[w].proc, worker[w].outcome)
      BY <1>9, <1>t, ThreadMoves DEF TypeInv
    <2>2. /\ Working(w) /\ UNCHANGED <<submit, poll, responses>>
          /\ taskState' = [taskState EXCEPT ![TaskOf(w)] = worker[w].outcome]
      BY <1>9 DEF CompleteTask, Working, At, guestVars
    <2>3. worker[w].outcome \in Terminal
      BY <1>9 DEF CompleteTask, TypeInv, Placed
    <2> QED
      BY <2>1, <2>2, <2>3, StateTaskInv
  <1>10. CASE NotifyAborted(w)
    <2>1. Moves(w, "idle", None, None, None)
      BY <1>10, ThreadMoves DEF TypeInv
    <2>2. UNCHANGED <<taskState, submit, poll, responses>>
      BY <1>10 DEF NotifyAborted, schedVars, guestVars
    <2> QED
      BY <2>1, <2>2, MoveTaskInv
  <1>11. CASE WorkerExits(w)
    <2>1. Moves(w, "exited", TaskOf(w), worker[w].proc, worker[w].outcome)
      BY <1>11, <1>t, ThreadMoves DEF TypeInv
    <2>2. UNCHANGED <<taskState, submit, poll, responses>>
      BY <1>11 DEF WorkerExits, schedVars, guestVars
    <2> QED
      BY <2>1, <2>2, MoveTaskInv
  <1> QED
    BY <1>1, <1>2, <1>3, <1>4, <1>5, <1>6, <1>7, <1>8, <1>9, <1>10, <1>11 DEF Schedule

\* Every step keeps a task with one thread, and its completion final.
LEMMA NextTaskInv ==
    ASSUME TypeInv, TaskInv, [Next]_vars
    PROVE  TaskInv'
  <1>a. /\ taskState \in [Tasks -> TaskStates] /\ GroupOf \in [Tasks -> Groups]
        /\ submit \in [Groups -> [at : {"none", "insert", "send", "register"},
                                  task : Tasks \cup {None}, pending : SUBSET Tasks]]
        /\ poll \in [Groups -> [at : {"none", "wait", "lookup"},
                                task : Tasks \cup {None}, got : 0 .. BatchSize - 1]]
        /\ responses \in [Groups -> SUBSET [task : Tasks, state : TaskStates \cup {"NotFound"}]]
    BY ConstantsAssumption DEF TypeInv, TypeOK
  <1>b. /\ \A w \in Workers : Active(w) => TaskOf(w) \in Tasks
        /\ \A g \in Groups :
            /\ submit[g].at \in {"send", "register"} => submit[g].task \in Tasks /\ GroupOf[submit[g].task] = g
            /\ \A t \in submit[g].pending : GroupOf[t] = g
            /\ poll[g].at = "lookup" => poll[g].task \in Tasks
    BY DEF TypeInv, Placed
  <1>1. ASSUME NEW g \in Groups, NEW batch \in SUBSET Tasks, SubmitTasks(g, batch)
        PROVE  TaskInv'
    <2>1. /\ submit'[g].at = "insert" /\ submit'[g].pending = batch /\ \A h \in Groups \ {g} : submit'[h] = submit[h]
          /\ \A t \in batch : taskState[t] = "None"
          /\ UNCHANGED <<taskState, worker, poll, responses>>
      BY <1>a, <1>1 DEF SubmitTasks, schedVars
    <2>2. OneThread'
      BY <2>1 DEF TaskInv, OneThread, Working, TaskOf
    <2> QED
      BY <2>1, <2>2 DEF TaskInv, SentIsComplete, NotifiedIsComplete, At, TaskOf
  <1>2. ASSUME NEW g \in Groups, NEW t \in Tasks, SubmitInsert(g, t)
        PROVE  TaskInv'
    <2>1. /\ submit'[g].at = "send" /\ submit'[g].pending = submit[g].pending \ {t} /\ submit'[g].task = t
          /\ \A h \in Groups \ {g} : submit'[h] = submit[h]
          /\ t \in submit[g].pending
          /\ UNCHANGED <<worker, poll, responses>>
      BY <1>a, <1>2 DEF SubmitInsert
    <2>2. /\ taskState[t] = "None" /\ taskState'[t] = "Queued" /\ GroupOf[t] = g
          /\ \A u \in Tasks \ {t} : taskState'[u] = taskState[u]
      BY <1>a, <1>b, <1>2, <2>1 DEF SubmitInsert, TaskInv, OneThread
    <2>3. \A w \in Workers : /\ Working(w)' = Working(w) /\ TaskOf(w)' = TaskOf(w)
                             /\ At(w, "notify")' = At(w, "notify")
      BY <2>1 DEF Working, TaskOf, At
    <2>4. \A w \in Workers : /\ Working(w) => TaskOf(w) \in Tasks /\ TaskOf(w) # t
                             /\ At(w, "notify") => TaskOf(w) \in Tasks /\ TaskOf(w) # t
      BY <1>b, <2>2 DEF TaskInv, OneThread, SentIsComplete, Working, Active, At, Unfinished, Terminal
    <2>5. ASSUME NEW h \in Groups
          PROVE  /\ \A u \in submit'[h].pending : taskState'[u] = "None"
                 /\ submit'[h].at = "send" =>
                    /\ taskState'[submit'[h].task] \in Unfinished
                    /\ \A w \in Workers : Working(w)' => TaskOf(w)' # submit'[h].task
      <3>1. CASE h = g
        BY <1>a, <2>1, <2>2, <2>3, <2>4, <3>1 DEF TaskInv, OneThread, Unfinished
      <3>2. CASE h # g
        <4>1. submit'[h] = submit[h] /\ submit[h].pending \subseteq Tasks
          BY <1>a, <2>1, <3>2
        <4>2. \A u \in submit[h].pending : taskState'[u] = taskState[u]
          BY <1>b, <2>2, <3>2, <4>1
        <4>3. submit[h].at = "send" => taskState'[submit[h].task] = taskState[submit[h].task]
          BY <1>b, <2>2, <3>2
        <4> QED
          BY <2>3, <4>1, <4>2, <4>3 DEF TaskInv, OneThread
      <3> QED
        BY <3>1, <3>2
    <2>6. OneThread'
      BY <2>2, <2>3, <2>4, <2>5 DEF TaskInv, OneThread
    <2>7. SentIsComplete'
      BY <2>2, <2>3, <2>4 DEF TaskInv, SentIsComplete
    <2>8. NotifiedIsComplete'
      BY <1>b, <2>1, <2>2 DEF TaskInv, NotifiedIsComplete, Terminal
    <2> QED
      BY <2>6, <2>7, <2>8 DEF TaskInv
  <1>3. ASSUME NEW g \in Groups, SubmitRegister(g)
        PROVE  TaskInv'
    <2>1. /\ submit'[g].at # "send" /\ submit'[g].pending \subseteq submit[g].pending
          /\ \A h \in Groups \ {g} : submit'[h] = submit[h]
          /\ UNCHANGED <<taskState, worker, poll, responses>>
      BY <1>a, <1>3 DEF SubmitRegister, schedVars
    <2>2. OneThread'
      BY <2>1 DEF TaskInv, OneThread, Working, TaskOf
    <2> QED
      BY <2>1, <2>2 DEF TaskInv, SentIsComplete, NotifiedIsComplete, At, TaskOf
  <1>4. ASSUME NEW g \in Groups, NEW w \in Workers, SubmitSend(g, w)
        PROVE  TaskInv'
    <2> DEFINE t == submit[g].task
    <2>1. Moves(w, "received", t, None, None)
      BY <1>4, ThreadMoves DEF TypeInv
    <2>2. /\ submit'[g].at = "register" /\ submit'[g].pending = submit[g].pending
          /\ submit[g].at = "send"
          /\ \A h \in Groups \ {g} : submit'[h] = submit[h]
          /\ UNCHANGED <<taskState, poll, responses>>
      BY <1>a, <1>4 DEF SubmitSend, schedVars
    <2>3. /\ Working(w)' /\ TaskOf(w)' = t
          /\ \A v \in Workers \ {w} : Working(v)' = Working(v) /\ TaskOf(v)' = TaskOf(v)
          /\ \A v \in Workers : At(v, "notify")' => At(v, "notify") /\ TaskOf(v)' = TaskOf(v)
      BY <2>1 DEF Moves, Working, TaskOf, At
    <2>4. /\ t \in Tasks /\ GroupOf[t] = g /\ taskState[t] \in Unfinished
          /\ \A v \in Workers : Working(v) => TaskOf(v) # t
      BY <1>b, <2>2 DEF TaskInv, OneThread
    <2> HIDE DEF t
    <2>5. ASSUME NEW h \in Groups
          PROVE  /\ \A u \in submit'[h].pending : taskState'[u] = "None"
                 /\ submit'[h].at = "send" =>
                    /\ taskState'[submit'[h].task] \in Unfinished
                    /\ \A v \in Workers : Working(v)' => TaskOf(v)' # submit'[h].task
      <3>1. CASE h = g
        BY <2>2, <3>1 DEF TaskInv, OneThread
      <3>2. CASE h # g
        BY <1>b, <2>2, <2>3, <2>4, <3>2 DEF TaskInv, OneThread
      <3> QED
        BY <3>1, <3>2
    <2>6. OneThread'
      <3>1. \A v \in Workers : Working(v)' => taskState'[TaskOf(v)'] \in Unfinished
        BY <2>2, <2>3, <2>4 DEF TaskInv, OneThread
      <3>2. \A u, v \in Workers : Working(u)' /\ Working(v)' /\ TaskOf(u)' = TaskOf(v)' => u = v
        BY <2>3, <2>4 DEF TaskInv, OneThread
      <3> QED
        BY <2>5, <3>1, <3>2 DEF OneThread
    <2>7. SentIsComplete' /\ NotifiedIsComplete'
      BY <2>2, <2>3 DEF TaskInv, SentIsComplete, NotifiedIsComplete
    <2> QED
      BY <2>6, <2>7 DEF TaskInv
  <1>5. ASSUME NEW w \in Workers, Notify(w)
        PROVE  TaskInv'
    <2> DEFINE t == TaskOf(w)
               g == GroupOf[t]
    <2>1. Moves(w, "idle", None, None, None)
      BY <1>5, ThreadMoves DEF TypeInv
    <2>2. t \in Tasks /\ g \in Groups /\ taskState[t] \in Terminal
      BY <1>a, <1>b, <1>5 DEF Notify, Active, At, TaskInv, SentIsComplete
    <2>3. /\ poll' = [poll EXCEPT ![g] = [@ EXCEPT !.at = "lookup", !.task = t]]
          /\ UNCHANGED <<taskState, submit, responses>>
      BY <1>5 DEF Notify, schedVars
    <2>4. poll'[g].task = t /\ \A h \in Groups \ {g} : poll'[h] = poll[h]
      BY <1>a, <2>2, <2>3
    <2>5. /\ \A v \in Workers : Working(v)' => Working(v) /\ TaskOf(v)' = TaskOf(v)
          /\ \A v \in Workers : At(v, "notify")' => At(v, "notify") /\ TaskOf(v)' = TaskOf(v)
      BY <2>1 DEF Moves, Working, At, TaskOf
    <2> HIDE DEF t, g
    <2>6. OneThread'
      BY <2>3, <2>5 DEF TaskInv, OneThread
    <2>7. SentIsComplete'
      BY <2>3, <2>5 DEF TaskInv, SentIsComplete
    <2>8. NotifiedIsComplete'
      BY <2>2, <2>3, <2>4 DEF TaskInv, NotifiedIsComplete
    <2> QED
      BY <2>6, <2>7, <2>8 DEF TaskInv
  <1>6. ASSUME NEW g \in Groups, PollTasks(g) \/ PollReturns(g)
        PROVE  TaskInv'
    <2>1. /\ poll'[g].at # "lookup" /\ \A h \in Groups \ {g} : poll'[h] = poll[h]
          /\ UNCHANGED <<taskState, submit, worker, responses>>
      BY <1>a, <1>6 DEF PollTasks, PollReturns, schedVars
    <2>2. NotifiedIsComplete'
      BY <2>1 DEF TaskInv, NotifiedIsComplete
    <2> QED
      BY <2>1, <2>2 DEF TaskInv, OneThread, SentIsComplete, Working, At, TaskOf
  <1>7. ASSUME NEW g \in Groups, PollLookup(g)
        PROVE  TaskInv'
    <2> DEFINE t == poll[g].task
               r == [task |-> t, state |-> LookupTask(g, t)]
    <2>1. /\ poll'[g].at # "lookup" /\ \A h \in Groups \ {g} : poll'[h] = poll[h]
          /\ responses' = [responses EXCEPT ![g] = @ \cup {r}]
          /\ UNCHANGED <<taskState, submit, worker>>
      BY <1>a, <1>7 DEF PollLookup, schedVars
    <2>2. r.state \in Terminal \cup {"NotFound"}
      BY <1>7 DEF PollLookup, LookupTask, TaskInv, NotifiedIsComplete
    <2> HIDE DEF r
    <2>3. \A h \in Groups : \A q \in responses'[h] : q \in responses[h] \/ q = r
      BY <1>a, <2>1
    <2>4. NotifiedIsComplete'
      BY <2>1, <2>2, <2>3 DEF TaskInv, NotifiedIsComplete
    <2> QED
      BY <2>1, <2>4 DEF TaskInv, OneThread, SentIsComplete, Working, At, TaskOf
  <1>8. CASE UNCHANGED <<taskState, worker, submit, poll, responses>>
    BY <1>8 DEF TaskInv, OneThread, SentIsComplete, NotifiedIsComplete, Working, At, TaskOf
  <1>9. (\E g \in Groups, t \in Tasks : Discard(g, t)) \/ (\E g \in Groups : CloseGroup(g)) \/ Close
        \/ (\E p \in Processes : ProcessExits(p)) \/ UNCHANGED vars
        => UNCHANGED <<taskState, worker, submit, poll, responses>>
    BY DEF Discard, CloseGroup, Close, ProcessExits, vars, schedVars, guestVars
  <1> QED
    BY <1>1, <1>2, <1>3, <1>4, <1>5, <1>6, <1>7, <1>8, <1>9, ScheduleTaskInv DEF Next, HandleSubmit

-----------------------------------------------------------------------------
(* Groups.                                                                 *)

\* What the scheduler knows of is a member of its group or is being
\* submitted, unless the group's lock is lost; only an open group has members.
GroupInv ==
    /\ \A t \in tasks : LET g == GroupOf[t] IN
        \/ t \in members[g]
        \/ submit[g].at \in {"send", "register"} /\ submit[g].task = t
        \/ group[g] = "stuck"
    /\ \A g \in Groups : group[g] # "open" => members[g] = {}

\* A group whose lock is lost leaves one task, and no submission is under way.
StuckInv ==
    \A g \in Groups : group[g] = "stuck" =>
        submit[g].at = "none" /\ \A t, u \in tasks : GroupOf[t] = g /\ GroupOf[u] = g => t = u

\* No task has been submitted.
LEMMA InitGroupInv == Init => GroupInv
  BY DEF Init, GroupInv

\* No group has lost its lock.
LEMMA InitStuckInv == Init => StuckInv
  BY DEF Init, StuckInv

\* The task that a closed group is submitting is the only one it has left
\* when its handler panics, and no handler of it runs after that.
LEMMA NextStuckInv ==
    ASSUME TypeInv, GroupInv, StuckInv, [Next]_vars
    PROVE  StuckInv'
  <1>a. /\ tasks \subseteq Tasks /\ GroupOf \in [Tasks -> Groups]
        /\ submit \in [Groups -> [at : {"none", "insert", "send", "register"},
                                  task : Tasks \cup {None}, pending : SUBSET Tasks]]
        /\ members \in [Groups -> SUBSET Tasks] /\ group \in [Groups -> {"open", "closed", "stuck"}]
    BY ConstantsAssumption DEF TypeInv, TypeOK
  <1>b. \A g \in Groups : \A t \in submit[g].pending : GroupOf[t] = g
    BY DEF TypeInv, Placed
  <1>c. ASSUME NEW g \in Groups, group[g] # "stuck", group' = group, tasks' \subseteq tasks,
               \A h \in Groups \ {g} : submit'[h] = submit[h]
        PROVE  StuckInv'
    BY <1>c DEF StuckInv
  <1>1. ASSUME NEW g \in Groups, NEW batch \in SUBSET Tasks, SubmitTasks(g, batch)
        PROVE  StuckInv'
    <2>1. /\ group[g] # "stuck" /\ \A h \in Groups \ {g} : submit'[h] = submit[h]
          /\ UNCHANGED <<tasks, group>>
      BY <1>a, <1>1 DEF SubmitTasks, schedVars
    <2> QED
      BY <1>c, <2>1
  <1>2. ASSUME NEW g \in Groups, NEW t \in Tasks, SubmitInsert(g, t)
        PROVE  StuckInv'
    <2>1. /\ submit[g].at = "insert" /\ GroupOf[t] = g /\ tasks' = tasks \cup {t}
          /\ \A h \in Groups \ {g} : submit'[h] = submit[h]
          /\ UNCHANGED group
      BY <1>a, <1>b, <1>2 DEF SubmitInsert
    <2>2. group[g] # "stuck"
      BY <2>1 DEF StuckInv
    <2> QED
      BY <2>1, <2>2 DEF StuckInv
  <1>3. ASSUME NEW g \in Groups, NEW w \in Workers, SubmitSend(g, w)
        PROVE  StuckInv'
    <2>1. /\ submit[g].at = "send" /\ \A h \in Groups \ {g} : submit'[h] = submit[h]
          /\ UNCHANGED <<tasks, group>>
      BY <1>a, <1>3 DEF SubmitSend, schedVars
    <2>2. group[g] # "stuck"
      BY <2>1 DEF StuckInv
    <2> QED
      BY <1>c, <2>1, <2>2
  <1>4. ASSUME NEW g \in Groups, SubmitRegister(g)
        PROVE  StuckInv'
    <2>0. UNCHANGED tasks /\ \A h \in Groups \ {g} : submit'[h] = submit[h]
      BY <1>a, <1>4 DEF SubmitRegister, schedVars
    <2>1. CASE group[g] = "open" /\ UNCHANGED group
      BY <1>c, <2>0, <2>1
    <2>2. CASE /\ group[g] = "closed" /\ group' = [group EXCEPT ![g] = "stuck"]
               /\ submit' = [submit EXCEPT ![g] = [at |-> "none", task |-> None, pending |-> {}]]
      <3>1. /\ \A h \in Groups \ {g} : group'[h] = group[h]
            /\ submit'[g] = [at |-> "none", task |-> None, pending |-> {}]
        BY <1>a, <2>2
      <3>2. \A t \in tasks : GroupOf[t] = g => t = submit[g].task
        BY <2>2 DEF GroupInv
      <3> QED
        BY <2>0, <3>1, <3>2 DEF StuckInv
    <2> QED
      BY <1>4, <2>1, <2>2 DEF SubmitRegister
  <1>5. ASSUME NEW g \in Groups, NEW t \in Tasks, Discard(g, t)
        PROVE  StuckInv'
    BY <1>c, <1>5 DEF Discard, DiscardAll
  <1>6. ASSUME NEW g \in Groups, CloseGroup(g)
        PROVE  StuckInv'
    <2>1. /\ tasks' \subseteq tasks /\ group'[g] = "closed" /\ UNCHANGED submit
          /\ \A h \in Groups \ {g} : group'[h] = group[h]
      BY <1>a, <1>6 DEF CloseGroup, DiscardAll
    <2> QED
      BY <2>1 DEF StuckInv
  <1>7. CASE UNCHANGED <<tasks, submit, group>>
    BY <1>7 DEF StuckInv
  <1>8. (\E w \in Workers : Schedule(w) \/ Notify(w)) \/ (\E g \in Groups : PollTasks(g) \/ PollLookup(g) \/ PollReturns(g))
        \/ Close \/ (\E p \in Processes : ProcessExits(p)) \/ UNCHANGED vars
        => UNCHANGED <<tasks, submit, group>>
    BY DEF Schedule, Expire, Initialize, PinitDo, LookupProcess, StartProcess, LookupStarted, Execute, ExecuteHTTPTask,
        CompleteTask, NotifyAborted, WorkerExits, Notify, PollTasks, PollLookup, PollReturns, Close, ProcessExits, vars,
        schedVars, guestVars
  <1> QED
    BY <1>1, <1>2, <1>3, <1>4, <1>5, <1>6, <1>7, <1>8 DEF Next, HandleSubmit

\* Every step keeps the tasks of the scheduler those of the groups.
LEMMA NextGroupInv ==
    ASSUME TypeInv, GroupInv, [Next]_vars
    PROVE  GroupInv'
  <1>a. /\ tasks \subseteq Tasks /\ GroupOf \in [Tasks -> Groups]
        /\ submit \in [Groups -> [at : {"none", "insert", "send", "register"},
                                  task : Tasks \cup {None}, pending : SUBSET Tasks]]
        /\ members \in [Groups -> SUBSET Tasks] /\ group \in [Groups -> {"open", "closed", "stuck"}]
    BY ConstantsAssumption DEF TypeInv, TypeOK
  <1>b. \A g \in Groups : \A t \in submit[g].pending : GroupOf[t] = g
    BY DEF TypeInv, Placed
  <1>1. ASSUME NEW g \in Groups, NEW batch \in SUBSET Tasks, SubmitTasks(g, batch)
        PROVE  GroupInv'
    <2>1. /\ submit[g].at = "none" /\ \A h \in Groups \ {g} : submit'[h] = submit[h]
          /\ UNCHANGED <<tasks, members, group>>
      BY <1>a, <1>1 DEF SubmitTasks, schedVars
    <2> QED
      BY <1>a, <2>1 DEF GroupInv
  <1>2. ASSUME NEW g \in Groups, NEW t \in Tasks, SubmitInsert(g, t)
        PROVE  GroupInv'
    <2>1. /\ submit[g].at = "insert" /\ submit'[g].at = "send" /\ submit'[g].task = t /\ GroupOf[t] = g
          /\ tasks' = tasks \cup {t} /\ \A h \in Groups \ {g} : submit'[h] = submit[h]
          /\ UNCHANGED <<members, group>>
      BY <1>a, <1>b, <1>2 DEF SubmitInsert
    <2> QED
      BY <1>a, <2>1 DEF GroupInv
  <1>3. ASSUME NEW g \in Groups, NEW w \in Workers, SubmitSend(g, w)
        PROVE  GroupInv'
    <2>1. /\ submit'[g].at = "register" /\ submit'[g].task = submit[g].task
          /\ \A h \in Groups \ {g} : submit'[h] = submit[h]
          /\ UNCHANGED <<tasks, members, group>>
      BY <1>a, <1>3 DEF SubmitSend, schedVars
    <2>2. \A t \in tasks : GroupOf[t] \in Groups
      BY <1>a
    <2>3. \A t \in tasks : submit[GroupOf[t]].at \in {"send", "register"} /\ submit[GroupOf[t]].task = t
                => submit'[GroupOf[t]].at \in {"send", "register"} /\ submit'[GroupOf[t]].task = t
      BY <2>1, <2>2
    <2> QED
      BY <2>1, <2>2, <2>3 DEF GroupInv
  <1>4. ASSUME NEW g \in Groups, SubmitRegister(g)
        PROVE  GroupInv'
    <2>0. UNCHANGED tasks /\ \A h \in Groups \ {g} : submit'[h] = submit[h]
      BY <1>a, <1>4 DEF SubmitRegister, schedVars
    <2>1. CASE group[g] = "open" /\ members' = [members EXCEPT ![g] = @ \cup {submit[g].task}] /\ UNCHANGED group
      <3>1. /\ submit[g].task \in members'[g] /\ members[g] \subseteq members'[g]
            /\ \A h \in Groups \ {g} : members'[h] = members[h]
        BY <1>a, <2>1
      <3> QED
        BY <1>a, <2>0, <2>1, <3>1 DEF GroupInv
    <2>2. CASE group[g] = "closed" /\ group' = [group EXCEPT ![g] = "stuck"] /\ UNCHANGED members
      <3>1. group'[g] = "stuck" /\ \A h \in Groups \ {g} : group'[h] = group[h]
        BY <1>a, <2>2
      <3> QED
        BY <1>a, <2>0, <2>2, <3>1 DEF GroupInv
    <2> QED
      BY <1>4, <2>1, <2>2 DEF SubmitRegister
  <1>5. ASSUME NEW g \in Groups, NEW t \in Tasks, Discard(g, t)
        PROVE  GroupInv'
    <2>1. /\ tasks' = tasks \ {t} /\ members'[g] = members[g] \ {t} /\ group[g] = "open"
          /\ \A h \in Groups \ {g} : members'[h] = members[h]
          /\ UNCHANGED <<submit, group>>
      BY <1>a, <1>5 DEF Discard, DiscardAll
    <2> QED
      BY <1>a, <2>1 DEF GroupInv
  <1>6. ASSUME NEW g \in Groups, CloseGroup(g)
        PROVE  GroupInv'
    <2>1. /\ tasks' = tasks \ members[g] /\ members'[g] = {} /\ group[g] = "open" /\ group'[g] = "closed"
          /\ \A h \in Groups \ {g} : members'[h] = members[h] /\ group'[h] = group[h]
          /\ UNCHANGED submit
      BY <1>a, <1>6 DEF CloseGroup, DiscardAll
    <2> QED
      BY <1>a, <2>1 DEF GroupInv
  <1>7. CASE UNCHANGED <<tasks, submit, members, group>>
    BY <1>7 DEF GroupInv
  <1>8. (\E w \in Workers : Schedule(w) \/ Notify(w)) \/ (\E g \in Groups : PollTasks(g) \/ PollLookup(g) \/ PollReturns(g))
        \/ Close \/ (\E p \in Processes : ProcessExits(p)) \/ UNCHANGED vars
        => UNCHANGED <<tasks, submit, members, group>>
    BY DEF Schedule, Expire, Initialize, PinitDo, LookupProcess, StartProcess, LookupStarted, Execute, ExecuteHTTPTask,
        CompleteTask, NotifyAborted, WorkerExits, Notify, PollTasks, PollLookup, PollReturns, Close, ProcessExits, vars,
        schedVars, guestVars
  <1> QED
    BY <1>1, <1>2, <1>3, <1>4, <1>5, <1>6, <1>7, <1>8 DEF Next, HandleSubmit

\* What a guest is told of its tasks is final: completeTask sets the state
\* before it sends the completion, and no other thread has the task.  And what
\* a guest leaves behind is given up: a closed group leaves in the scheduler
\* at most the task that its handler was submitting, however they overlap.
THEOREM CompletionsSoundHolds == Spec => []CompletionsSound
  <1>1. TypeInv /\ TaskInv /\ GroupInv /\ StuckInv => CompletionsSound
    <2> SUFFICES ASSUME TypeInv, TaskInv, GroupInv, StuckInv PROVE CompletionsSound
      OBVIOUS
    <2>1. NotifiedIsComplete
      BY DEF TaskInv
    <2>2. CloseDiscards
      BY DEF GroupInv, StuckInv, CloseDiscards
    <2> QED
      BY <2>1, <2>2 DEF CompletionsSound
  <1> QED
    BY <1>1, InitTypeInv, NextTypeInv, InitTaskInv, NextTaskInv, InitGroupInv, NextGroupInv,
        InitStuckInv, NextStuckInv, PTL DEF Spec
=============================================================================
