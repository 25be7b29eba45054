---------------------------- MODULE TaskScheduler ----------------------------
(***************************************************************************)
(* The task orchestrator of internal/timecraft: TaskScheduler and          *)
(* TaskGroup (task.go), and the handlers of the gRPC server that drive a   *)
(* group on behalf of a guest (server.go).                                 *)
(*                                                                         *)
(* Actors: the worker threads (scheduleLoop); per guest, the handler of a  *)
(* SubmitTasks request and the handler of a PollTasks request; the guest   *)
(* processes that execute tasks, which may exit at any time; the runtime,  *)
(* which closes a group when its guest exits, and the scheduler at the     *)
(* end.  Both channels (the queue and each group's completions) are        *)
(* unbuffered: a send and its receive are one step of two actors.          *)
(*                                                                         *)
(* Left out: the content of tasks, requests and responses.                 *)
(***************************************************************************)
EXTENDS Naturals, FiniteSets

CONSTANTS
    Tasks,          \* task identifiers
    Groups,         \* the guests, each with its server and task group
    Workers,        \* the threads of the scheduler (threadCount)
    Processes,      \* process identifiers; bounds how many can be started
    GroupOf,        \* the group that submits a task
    SpecOf,         \* the ModuleSpec of a task: [path, function]
    BatchSize,      \* PollTasks' batch size
    ExitingGroups,  \* guests that exit during the behaviour
    MayShutdown,    \* whether the scheduler may be closed
    MayDiscard,     \* whether guests discard tasks
    None

ASSUME ConstantsAssumption ==
    /\ GroupOf \in [Tasks -> Groups]
    /\ SpecOf \in [Tasks -> [path : STRING, function : STRING]]
    /\ BatchSize \in Nat \ {0}
    /\ ExitingGroups \subseteq Groups
    /\ MayShutdown \in BOOLEAN
    /\ MayDiscard \in BOOLEAN
    /\ None \notin Tasks \cup Workers \cup Processes \cup {SpecOf[t] : t \in Tasks}

VARIABLES
    tasks,      \* s.tasks: the tasks the scheduler knows
    taskState,  \* TaskInfo.state
    cancelled,  \* the tasks whose context was cancelled by Discard
    worker,     \* the threads: [at, task, proc, outcome]
    flight,     \* pinit: the worker that runs the call for a key, or None
    processes,  \* s.processes: the process of a key
    alive,      \* the processes the ProcessManager looks up
    procSpec,   \* the ModuleSpec each process was started with, or None
    submit,     \* the SubmitTasks handlers: [at, task, pending]
    poll,       \* the PollTasks handlers: [at, task, got]
    members,    \* g.tasks
    group,      \* "open", "closed" (g.tasks is nil) or "stuck" (g.mu is lost)
    responses,  \* what PollTasks reported of a task, by group
    shutdown    \* s.ctx is cancelled

schedVars == <<tasks, taskState, cancelled>>
procVars == <<flight, processes, alive, procSpec>>
guestVars == <<submit, poll, members, group, responses>>
vars == <<tasks, taskState, cancelled, worker, flight, processes, alive, procSpec,
          submit, poll, members, group, responses, shutdown>>

TaskStates == {"None", "Queued", "Initializing", "Executing", "Error", "Success"}

Terminal == {"Error", "Success"}

\* ModuleSpec.Key: made of the path, the arguments and the environment (path
\* stands for the three); the other fields, function for one, are left out.
Key(spec) == spec.path

Specs == {SpecOf[t] : t \in Tasks}
Keys == {Key(spec) : spec \in Specs}
KeyOf(t) == Key(SpecOf[t])

idle == [at |-> "idle", task |-> None, proc |-> None, outcome |-> None]

\* A thread that is in scheduleTask, from the queue to completeTask.
At(w, place) == worker[w].at = place
TaskOf(w) == worker[w].task

Init ==
    /\ tasks = {}
    /\ taskState = [t \in Tasks |-> "None"]
    /\ cancelled = {}
    /\ worker = [w \in Workers |-> idle]
    /\ flight = [k \in Keys |-> None]
    /\ processes = [k \in Keys |-> None]
    /\ alive = {}
    /\ procSpec = [p \in Processes |-> None]
    /\ submit = [g \in Groups |-> [at |-> "none", task |-> None, pending |-> {}]]
    /\ poll = [g \in Groups |-> [at |-> "none", task |-> None, got |-> 0]]
    /\ members = [g \in Groups |-> {}]
    /\ group = [g \in Groups |-> "open"]
    /\ responses = [g \in Groups |-> {}]
    /\ shutdown = FALSE

-----------------------------------------------------------------------------
(* SubmitTasks: the handler submits the tasks of the request one by one.   *)

SubmitTasks(g, batch) ==
    /\ group[g] = "open"
    /\ submit[g].at = "none"
    /\ batch # {}
    /\ \A t \in batch : GroupOf[t] = g /\ taskState[t] = "None"
    /\ submit' = [submit EXCEPT ![g] = [at |-> "insert", task |-> None, pending |-> batch]]
    /\ UNCHANGED <<schedVars, worker, procVars, poll, members, group, responses, shutdown>>

\* TaskScheduler.Submit, up to the send on the queue.
SubmitInsert(g, t) ==
    /\ submit[g].at = "insert"
    /\ t \in submit[g].pending
    /\ submit' = [submit EXCEPT ![g] = [at |-> "send", task |-> t, pending |-> @.pending \ {t}]]
    /\ tasks' = tasks \cup {t}
    /\ taskState' = [taskState EXCEPT ![t] = "Queued"]
    /\ UNCHANGED <<cancelled, worker, procVars, poll, members, group, responses, shutdown>>

\* s.queue <- task, received by an idle thread.  The thread's select may
\* prefer the queue to s.ctx.Done().
SubmitSend(g, w) ==
    /\ submit[g].at = "send"
    /\ At(w, "idle")
    /\ worker' = [worker EXCEPT ![w] = [idle EXCEPT !.at = "received", !.task = submit[g].task]]
    /\ submit' = [submit EXCEPT ![g].at = "register"]
    /\ UNCHANGED <<schedVars, procVars, poll, members, group, responses, shutdown>>

\* Mutant: a closed group takes the task as if nothing had happened.
SubmitRegisterGoesOn(g) ==
    /\ submit[g].at = "register"
    /\ members' = IF group[g] = "open" THEN [members EXCEPT ![g] = @ \cup {submit[g].task}] ELSE members
    /\ submit' = [submit EXCEPT
          ![g] = [at |-> IF @.pending = {} THEN "none" ELSE "insert",
                  task |-> None, pending |-> @.pending]]
    /\ UNCHANGED <<schedVars, worker, procVars, poll, responses, group, shutdown>>

\* The end of TaskGroup.Submit: the task joins the group, and the handler
\* goes on with the next one or returns.  In a closed group the insertion
\* into the nil map panics: net/http ends the handler, g.mu stays locked.
SubmitRegister(g) ==
    /\ submit[g].at = "register"
    /\ \/ /\ group[g] = "open"
          /\ members' = [members EXCEPT ![g] = @ \cup {submit[g].task}]
          /\ submit' = [submit EXCEPT
                ![g] = [at |-> IF @.pending = {} THEN "none" ELSE "insert",
                        task |-> None, pending |-> @.pending]]
          /\ UNCHANGED group
       \/ /\ group[g] = "closed"
          /\ group' = [group EXCEPT ![g] = "stuck"]
          /\ submit' = [submit EXCEPT ![g] = [at |-> "none", task |-> None, pending |-> {}]]
          /\ UNCHANGED members
    /\ UNCHANGED <<schedVars, worker, procVars, poll, responses, shutdown>>

-----------------------------------------------------------------------------
(* scheduleTask. *)

\* The task waited for longer than expiryTimeout.
Expire(w) ==
    /\ At(w, "received")
    /\ worker' = [worker EXCEPT ![w] = [@ EXCEPT !.at = "complete", !.outcome = "Error"]]
    /\ UNCHANGED <<schedVars, procVars, guestVars, shutdown>>

Initialize(w) ==
    /\ At(w, "received")
    /\ taskState' = [taskState EXCEPT ![TaskOf(w)] = "Initializing"]
    /\ worker' = [worker EXCEPT ![w].at = "do"]
    /\ UNCHANGED <<tasks, cancelled, procVars, guestVars, shutdown>>

\* Mutant: each thread runs the call itself.
PinitDoUnshared(w) ==
    /\ At(w, "do")
    /\ worker' = [worker EXCEPT ![w].at = "lookup"]
    /\ UNCHANGED <<schedVars, procVars, guestVars, shutdown>>

\* pinit.Do: one thread runs the call of a key, the others wait for it.
PinitDo(w) ==
    LET k == KeyOf(TaskOf(w)) IN
    /\ At(w, "do")
    /\ \/ /\ flight[k] = None
          /\ flight' = [flight EXCEPT ![k] = w]
          /\ worker' = [worker EXCEPT ![w].at = "lookup"]
       \/ /\ flight[k] # None
          /\ worker' = [worker EXCEPT ![w].at = "wait"]
          /\ UNCHANGED flight
    /\ UNCHANGED <<schedVars, processes, alive, procSpec, guestVars, shutdown>>

\* Mutant: the key of a finished call is not forgotten.
FlightStays(w, k, p) ==
    /\ worker' = [worker EXCEPT ![w] =
            IF p = None THEN [@ EXCEPT !.at = "complete", !.outcome = "Error"]
            ELSE [@ EXCEPT !.at = "ready", !.proc = p]]
    /\ UNCHANGED flight

\* The call of key k, made by w, returns process p, or an error (None), to
\* the thread that ran it and to those that wait.
FlightReturns(w, k, p) ==
    LET sharers == {w} \cup {v \in Workers : At(v, "wait") /\ KeyOf(TaskOf(v)) = k} IN
    /\ flight' = [flight EXCEPT ![k] = None]
    /\ worker' = [v \in Workers |->
            IF v \notin sharers THEN worker[v]
            ELSE IF p = None THEN [worker[v] EXCEPT !.at = "complete", !.outcome = "Error"]
            ELSE [worker[v] EXCEPT !.at = "ready", !.proc = p]]

\* Look for the process of the key, and check that it is still alive.
LookupProcess(w) ==
    LET k == KeyOf(TaskOf(w)) IN
    /\ At(w, "lookup")
    /\ \/ /\ processes[k] \in alive
          /\ FlightReturns(w, k, processes[k])
       \/ /\ processes[k] \notin alive
          /\ worker' = [worker EXCEPT ![w].at = "start"]
          /\ UNCHANGED flight
    /\ UNCHANGED <<schedVars, processes, alive, procSpec, guestVars, shutdown>>

\* ProcessManager.Start fails, or starts a process with a new identifier.
StartProcess(w) ==
    /\ At(w, "start")
    /\ \/ /\ FlightReturns(w, KeyOf(TaskOf(w)), None)
          /\ UNCHANGED <<alive, procSpec>>
       \/ \E p \in Processes :
            /\ procSpec[p] = None
            /\ procSpec' = [procSpec EXCEPT ![p] = SpecOf[TaskOf(w)]]
            /\ alive' = alive \cup {p}
            /\ worker' = [worker EXCEPT ![w] = [@ EXCEPT !.at = "started", !.proc = p]]
            /\ UNCHANGED flight
    /\ UNCHANGED <<schedVars, processes, guestVars, shutdown>>

\* The new process may be gone already ("failed to start process").
LookupStarted(w) ==
    LET k == KeyOf(TaskOf(w))
        p == worker[w].proc IN
    /\ At(w, "started")
    /\ \/ /\ p \in alive
          /\ processes' = [processes EXCEPT ![k] = p]
          /\ FlightReturns(w, k, p)
       \/ /\ p \notin alive
          /\ FlightReturns(w, k, None)
          /\ UNCHANGED processes
    /\ UNCHANGED <<schedVars, alive, procSpec, guestVars, shutdown>>

Execute(w) ==
    /\ At(w, "ready")
    /\ taskState' = [taskState EXCEPT ![TaskOf(w)] = "Executing"]
    /\ worker' = [worker EXCEPT ![w].at = "execute"]
    /\ UNCHANGED <<tasks, cancelled, procVars, guestVars, shutdown>>

\* executeHTTPTask: the process answers, unless the task's context was
\* cancelled by Discard or by the scheduler's Close; or the request fails
\* (invalid input, timeout, cancellation, a process that is gone).
ExecuteHTTPTask(w) ==
    /\ At(w, "execute")
    /\ \E outcome \in Terminal :
        /\ outcome = "Success" =>
            worker[w].proc \in alive /\ TaskOf(w) \notin cancelled /\ ~shutdown
        /\ worker' = [worker EXCEPT ![w] = [@ EXCEPT !.at = "complete", !.outcome = outcome]]
    /\ UNCHANGED <<schedVars, procVars, guestVars, shutdown>>

\* Mutant: the completion is sent without the state having been set.
CompleteTaskUnset(w) ==
    /\ At(w, "complete")
    /\ worker' = [worker EXCEPT ![w].at = "notify"]
    /\ UNCHANGED <<schedVars, procVars, guestVars, shutdown>>

\* completeTask: the state is set first, then the completion is sent.
CompleteTask(w) ==
    /\ At(w, "complete")
    /\ taskState' = [taskState EXCEPT ![TaskOf(w)] = worker[w].outcome]
    /\ worker' = [worker EXCEPT ![w].at = "notify"]
    /\ UNCHANGED <<tasks, cancelled, procVars, guestVars, shutdown>>

\* task.completions <- task.id, received by a PollTasks handler.
Notify(w) ==
    LET g == GroupOf[TaskOf(w)] IN
    /\ At(w, "notify")
    /\ poll[g].at = "wait"
    /\ poll' = [poll EXCEPT ![g] = [@ EXCEPT !.at = "lookup", !.task = TaskOf(w)]]
    /\ worker' = [worker EXCEPT ![w] = idle]
    /\ UNCHANGED <<schedVars, procVars, submit, members, group, responses, shutdown>>

\* Mutant: the completion is sent without a look at s.ctx.
NotifyNeverAborted(w) == FALSE /\ At(w, "notify") /\ UNCHANGED vars

NotifyAborted(w) ==
    /\ At(w, "notify")
    /\ shutdown
    /\ worker' = [worker EXCEPT ![w] = idle]
    /\ UNCHANGED <<schedVars, procVars, guestVars, shutdown>>

WorkerExits(w) ==
    /\ At(w, "idle")
    /\ shutdown
    /\ worker' = [worker EXCEPT ![w].at = "exited"]
    /\ UNCHANGED <<schedVars, procVars, guestVars, shutdown>>

-----------------------------------------------------------------------------
(* PollTasks, and the other operations of a group. *)

PollTasks(g) ==
    /\ group[g] = "open"
    /\ poll[g].at = "none"
    /\ poll' = [poll EXCEPT ![g] = [at |-> "wait", task |-> None, got |-> 0]]
    /\ UNCHANGED <<schedVars, worker, procVars, submit, members, group, responses, shutdown>>

\* lookupTask: a task that is not in the group and in the scheduler is
\* reported as an error, "task not found".
LookupTask(g, t) ==
    IF t \in members[g] /\ t \in tasks THEN taskState[t] ELSE "NotFound"

PollLookup(g) ==
    LET t == poll[g].task
        full == poll[g].got + 1 = BatchSize IN
    /\ poll[g].at = "lookup"
    /\ group[g] # "stuck"
    /\ responses' = [responses EXCEPT ![g] = @ \cup {[task |-> t, state |-> LookupTask(g, t)]}]
    /\ poll' = [poll EXCEPT ![g] = IF full THEN [at |-> "none", task |-> None, got |-> 0]
                                   ELSE [at |-> "wait", task |-> None, got |-> @.got + 1]]
    /\ UNCHANGED <<schedVars, worker, procVars, submit, members, group, shutdown>>

\* The timeout of the request, or the end of its context.
PollReturns(g) ==
    /\ poll[g].at = "wait"
    /\ poll' = [poll EXCEPT ![g] = [at |-> "none", task |-> None, got |-> 0]]
    /\ UNCHANGED <<schedVars, worker, procVars, submit, members, group, responses, shutdown>>

\* What TaskScheduler.Discard does to a set of tasks of s.tasks.
DiscardAll(ts) ==
    /\ cancelled' = cancelled \cup (ts \cap tasks)
    /\ tasks' = tasks \ ts

Discard(g, t) ==
    /\ MayDiscard
    /\ group[g] = "open"
    /\ t \in members[g]
    /\ DiscardAll({t})
    /\ members' = [members EXCEPT ![g] = @ \ {t}]
    /\ UNCHANGED <<taskState, worker, procVars, submit, poll, group, responses, shutdown>>

\* TaskGroup.Close, when the guest has exited.  Handlers go on.
CloseGroup(g) ==
    /\ g \in ExitingGroups
    /\ group[g] = "open"
    /\ DiscardAll(members[g])
    /\ members' = [members EXCEPT ![g] = {}]
    /\ group' = [group EXCEPT ![g] = "closed"]
    /\ UNCHANGED <<taskState, worker, procVars, submit, poll, responses, shutdown>>

\* TaskScheduler.Close, up to wg.Wait.
Close ==
    /\ MayShutdown
    /\ ~shutdown
    /\ shutdown' = TRUE
    /\ UNCHANGED <<schedVars, worker, procVars, guestVars>>

ProcessExits(p) ==
    /\ p \in alive
    /\ alive' = alive \ {p}
    /\ UNCHANGED <<schedVars, worker, flight, processes, procSpec, guestVars, shutdown>>

-----------------------------------------------------------------------------
Schedule(w) ==
    \/ Expire(w) \/ Initialize(w)
    \/ PinitDo(w) \/ LookupProcess(w) \/ StartProcess(w) \/ LookupStarted(w)
    \/ Execute(w) \/ ExecuteHTTPTask(w)
    \/ CompleteTask(w) \/ NotifyAborted(w) \/ WorkerExits(w)

HandleSubmit(g) ==
    \/ \E t \in Tasks : SubmitInsert(g, t)
    \/ SubmitRegister(g)

Next ==
    \/ \E g \in Groups, batch \in SUBSET Tasks : SubmitTasks(g, batch)
    \/ \E g \in Groups : HandleSubmit(g)
    \/ \E g \in Groups, w \in Workers : SubmitSend(g, w)
    \/ \E w \in Workers : Schedule(w)
    \/ \E w \in Workers : Notify(w)
    \/ \E g \in Groups : PollTasks(g)
    \/ \E g \in Groups : PollLookup(g)
    \/ \E g \in Groups : PollReturns(g)
    \/ \E g \in Groups, t \in Tasks : Discard(g, t)
    \/ \E g \in Groups : CloseGroup(g)
    \/ Close
    \/ \E p \in Processes : ProcessExits(p)

Spec == Init /\ [][Next]_vars

\* Threads and handlers run.  A send that blocks on a channel waits in the
\* channel's queue and is served by one of the next receives, hence the
\* strong fairness.  No guest has to do anything: not even to poll.
Fairness ==
    /\ \A w \in Workers : WF_vars(Schedule(w)) /\ SF_vars(Notify(w))
    /\ \A g \in Groups :
        /\ WF_vars(HandleSubmit(g))
        /\ SF_vars(\E w \in Workers : SubmitSend(g, w))
        /\ WF_vars(PollLookup(g))

FairSpec == Spec /\ Fairness

-----------------------------------------------------------------------------
(* Properties. *)

Places == {"idle", "received", "do", "wait", "lookup", "start", "started", "ready",
           "execute", "complete", "notify", "exited"}

\* The type invariant; a poll never counts more tasks than its batch takes.
TypeOK ==
    /\ tasks \subseteq Tasks
    /\ taskState \in [Tasks -> TaskStates]
    /\ cancelled \subseteq Tasks
    /\ worker \in [Workers -> [at : Places, task : Tasks \cup {None},
                               proc : Processes \cup {None}, outcome : Terminal \cup {None}]]
    /\ flight \in [Keys -> Workers \cup {None}]
    /\ processes \in [Keys -> Processes \cup {None}]
    /\ alive \subseteq Processes
    /\ procSpec \in [Processes -> Specs \cup {None}]
    /\ submit \in [Groups -> [at : {"none", "insert", "send", "register"},
                              task : Tasks \cup {None}, pending : SUBSET Tasks]]
    /\ poll \in [Groups -> [at : {"none", "wait", "lookup"},
                            task : Tasks \cup {None}, got : 0 .. BatchSize - 1]]
    /\ members \in [Groups -> SUBSET Tasks]
    /\ group \in [Groups -> {"open", "closed", "stuck"}]
    /\ responses \in [Groups -> SUBSET [task : Tasks, state : TaskStates \cup {"NotFound"}]]
    /\ shutdown \in BOOLEAN

\* "for now tasks are handled by exactly one process": however the calls of
\* the threads overlap and processes exit, no key has two live processes.
OneProcessPerKey ==
    \A p, q \in alive : Key(procSpec[p]) = Key(procSpec[q]) => p = q

\* A task is executed by a process that was started from the task's own
\* module specification, whichever task made the scheduler start it.
RunsOwnModule ==
    \A w \in Workers : At(w, "execute") => procSpec[worker[w].proc] = SpecOf[TaskOf(w)]

\* The process that a task is executed by is the one of its module.
RightProcess == TypeOK /\ OneProcessPerKey /\ RunsOwnModule

\* "receives a completion notification once the task is complete": a task
\* whose notification was received has reached its final state.
NotifiedIsComplete ==
    \A g \in Groups :
        /\ poll[g].at = "lookup" => taskState[poll[g].task] \in Terminal
        /\ \A r \in responses[g] : r.state \in Terminal \cup {"NotFound"}

\* What PollTasks reports of a task is what the scheduler recorded, and a
\* task nobody discarded is not reported missing.
PolledIsFound ==
    \A g \in Groups : \A r \in responses[g] :
        r.state = "NotFound" => r.task \in cancelled

\* "automatically discards all in-flight tasks when closed": at any time after
\* a group was closed the scheduler holds none of its tasks but, if a submission
\* was under way, one: the task that the handler was handing to a thread.  Its
\* handler ends there (see SubmitRegister), so that it stays the only one.
CloseDiscards ==
    \A g \in Groups :
        LET left == {t \in tasks : GroupOf[t] = g} IN
        /\ group[g] = "closed" =>
            left \subseteq {submit[g].task} /\ (left # {} => submit[g].at \in {"send", "register"})
        /\ group[g] = "stuck" => submit[g].at = "none" /\ \A t, u \in left : t = u

\* What a guest is told of its tasks is final, and what it leaves behind is
\* given up.
CompletionsSound == NotifiedIsComplete /\ CloseDiscards

\* Every task comes to an end whose guest stays and polls again and again.
TasksComplete ==
    \A t \in Tasks :
        []<>(poll[GroupOf[t]].at = "wait") =>
            (t \in tasks ~>
                (taskState[t] \in Terminal \/ group[GroupOf[t]] # "open" \/ shutdown))

\* Every thread has the completion of a task that its guest does not poll for.
Blocked == \A w \in Workers : At(w, "notify") /\ poll[GroupOf[TaskOf(w)]].at # "wait"

\* A SubmitTasks handler ends, whatever guests do, unless the scheduler is
\* closed or all threads are blocked for good by guests that do not poll.
SubmitReturns ==
    \A g \in Groups : submit[g].at # "none" ~>
        (submit[g].at = "none" \/ shutdown \/ []Blocked)

\* "The tasks are executed asynchronously" (client.go of the Go SDK), which
\* the code does not keep to a guest that polls only after it submitted:
\* no run checks it (README, section 4).
SubmitIsAsynchronous ==
    \A g \in Groups : submit[g].at # "none" ~> (submit[g].at = "none" \/ shutdown)

\* Once the scheduler is closed all its threads exit: Close returns.
CloseReturns == shutdown ~> (\A w \in Workers : At(w, "exited"))

\* A submission waits only for guests that do not poll, the end of timecraft
\* for nobody.
CallsReturn == SubmitReturns /\ CloseReturns
=============================================================================
