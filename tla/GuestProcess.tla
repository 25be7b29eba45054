---------------------------- MODULE GuestProcess -----------------------------
(***************************************************************************)
(* Processes of the ProcessManager (internal/timecraft/process.go), and    *)
(* how the sandbox of each one waits and is killed (PollOneOff and Kill of *)
(* internal/sandbox/system_unix.go).                                       *)
(*                                                                         *)
(* Process 1 is the main module of `timecraft run`; process 2 is either    *)
(* its outbound proxy, started by Start itself, or a module that it spawns *)
(* with a call to its server.  Time is counted in quarters of a            *)
(* millisecond, as what is left of each timeout.                           *)
(***************************************************************************)
EXTENDS Integers, FiniteSets, FiniteSetsExt

CONSTANTS Sleepers,   \* the processes that subscribe to clocks, or to what they have not
          Durations,  \* timeouts of clock subscriptions, negative if already over
          MaxDelay    \* time a poll may be preempted between two of its steps

ASSUME DurationsAssumption ==
    /\ Durations \subseteq Int /\ IsFiniteSet(Durations)
    /\ Sleepers \subseteq {1, 2}
ASSUME DelayAssumption == MaxDelay \in Nat \ {0}

VARIABLES
    pc,        \* where Start, then the goroutine of each process, is
    mgr,       \* ProcessManager: open, canceled, closing or closed
    waited,    \* the processes that Close has to wait for
    proxied,   \* the main module has an outbound proxy
    parent,    \* ProcessInfo.ParentID
    processes, \* ProcessManager.processes
    group,     \* ProcessManager.group: goroutines that run a module
    ctx,       \* the processes whose context was canceled
    held,      \* what each process holds
    kill,      \* System.kill: the two ends of the pipe, -1 or open
    closes,    \* how often the second one was closed
    watcher,   \* the goroutine that waits for the context
    poll       \* what each guest waits for

pmVars == <<mgr, waited, proxied, parent, processes, group>>
sysVars == <<kill, closes, watcher>>
vars == <<pc, pmVars, ctx, held, sysVars, poll>>

main == 1
other == 2
Procs == {main, other}
None == 0

Idle == [at |-> "idle"]

-----------------------------------------------------------------------------
(* PollOneOff.                                                             *)

ticks == 4

\* Mutant: a deadline that is over gives a negative duration.
setTimeoutRaw(duration, d) == IF duration < 0 \/ d < duration THEN d ELSE duration

setTimeout(duration, d) ==
    LET after == IF d < 0 THEN 0 ELSE d
    IN  IF duration < 0 \/ after < duration THEN after ELSE duration

(* Duration.Round(time.Millisecond): to the nearest, halves away from zero. *)
RoundMillis(t) == IF t < 0 THEN -((ticks \div 2 - t) \div ticks) ELSE (t + ticks \div 2) \div ticks

(* The duration after all subscriptions to clocks, negative if there are none. *)
Earliest(clocks) == FoldSet(LAMBDA d, t : setTimeout(t, d), -1, clocks)

(* The guest subscribes to clocks, to a descriptor (fd) and to a           *)
(* descriptor that it has not (bad).                                       *)
PollOneOff(p, clocks, fd, bad) ==
    /\ pc[p] = "running" /\ poll[p].at = "idle"
    /\ clocks # {} \/ fd \/ bad
    /\ (clocks # {} \/ bad) => p \in Sleepers
    /\ poll' = [poll EXCEPT ![p] =
                   [at |-> "loop", clock |-> clocks # {}, fd |-> fd, bad |-> bad,
                    duration |-> IF bad THEN 0 ELSE Earliest(clocks),
                    left |-> IF bad \/ clocks = {} THEN 0 ELSE Earliest(clocks),
                    wait |-> 0, late |-> 0]]
    /\ UNCHANGED <<pc, pmVars, ctx, held, sysVars>>

(* The timeout given to poll(2), which takes a negative one for none. *)
timeoutMillis(q) ==
    CASE q.duration = 0 -> 0
      [] q.duration < 0 -> -1
      [] OTHER -> RoundMillis(q.left)

PollCall(p) ==
    LET millis == timeoutMillis(poll[p])
    IN  /\ poll[p].at = "loop"
        /\ poll' = [poll EXCEPT ![p].at = "blocked",
                                ![p].wait = IF millis < 0 THEN -1 ELSE millis * ticks]
        /\ UNCHANGED <<pc, pmVars, ctx, held, sysVars>>

\* Mutant: the pipe of Kill is not polled.
WakesWithoutPipe(p, why) ==
    CASE why = "fd" -> poll[p].fd
      [] why = "kill" -> FALSE
      [] why = "timeout" -> poll[p].wait = 0
      [] why = "signal" -> TRUE

(* What makes poll(2) return: the descriptor, the pipe of Kill, the        *)
(* timeout, or a signal.                                                   *)
Wakes(p, why) ==
    CASE why = "fd" -> poll[p].fd
      [] why = "kill" -> kill[p][1] # -1 /\ kill[p][2] = -1
      [] why = "timeout" -> poll[p].wait = 0
      [] why = "signal" -> TRUE

\* Mutant: the clock is reported when poll(2) has waited its time.
ElapsedAfterPoll(q) == q.clock /\ (q.duration = 0 \/ q.wait = 0)

Elapsed(q) == q.clock /\ (q.duration = 0 \/ q.left < 0)

PollReturn(p, why) ==
    LET q == poll[p]
        killed == kill[p][2] = -1
        returns == Elapsed(q) \/ why = "fd" \/ q.bad
    IN  /\ pc[p] = "running" /\ q.at = "blocked" /\ Wakes(p, why)
        /\ pc' = IF killed THEN [pc EXCEPT ![p] = "cancel"] ELSE pc
        /\ poll' = [poll EXCEPT ![p] = IF killed \/ returns THEN Idle
                                       ELSE [q EXCEPT !.at = "loop", !.late = 0]]
        /\ UNCHANGED <<pmVars, ctx, held, sysVars>>

(* A quarter of a millisecond for a poll; from half a millisecond after    *)
(* the deadline nothing changes.                                           *)
Aged(q) ==
    LET after == IF q.clock /\ q.left > -(ticks \div 2) THEN q.left - 1 ELSE q.left
    IN  CASE q.at = "idle" -> q
          [] q.at = "loop" -> [q EXCEPT !.left = after, !.late = IF q.clock THEN @ + 1 ELSE 0]
          [] q.at = "blocked" -> [q EXCEPT !.left = after, !.wait = IF @ > 0 THEN @ - 1 ELSE @]

(* Time passes. *)
Tick ==
    /\ \E p \in Procs : poll[p].at # "idle"
    /\ \A p \in Procs : poll[p].at = "loop" => poll[p].late < MaxDelay
    /\ poll' = [p \in Procs |-> Aged(poll[p])]
    /\ UNCHANGED <<pc, pmVars, ctx, held, sysVars>>

\* Mutant: the descriptor is left in place.
KillLoad(p) ==
    /\ closes' = [closes EXCEPT ![p] = IF kill[p][2] = -1 THEN @ ELSE @ + 1]
    /\ UNCHANGED kill

Kill(p) ==
    /\ kill' = [kill EXCEPT ![p][2] = -1]
    /\ closes' = [closes EXCEPT ![p] = IF kill[p][2] = -1 THEN @ ELSE @ + 1]

(* System.Close: both ends of the pipe, and the descriptors of the guest. *)
SystemClose(p) ==
    /\ kill' = [kill EXCEPT ![p] = [i \in 1..2 |-> -1]]
    /\ closes' = [closes EXCEPT ![p] = IF kill[p][2] = -1 THEN @ ELSE @ + 1]

-----------------------------------------------------------------------------
(* Start.                                                                  *)

(* The context of a process is done with the one of the manager. *)

Done(p) == p \in ctx \/ mgr # "open"

Goto(p, step) == pc' = [pc EXCEPT ![p] = step]

(* An error: only the namespace is given back. *)
Fail(p) ==
    /\ Goto(p, "failed")
    /\ held' = [held EXCEPT ![p] = @ \ {"namespace"}]
    /\ UNCHANGED <<pmVars, ctx, sysVars, poll>>

(* A step of Start that gets what, and goes to the next one. *)
Get(p, from, what, to) ==
    /\ pc[p] = from
    /\ Goto(p, to)
    /\ held' = [held EXCEPT ![p] = @ \cup what]
    /\ UNCHANGED <<pmVars, ctx, poll>>

CallStart(p, creator) ==
    /\ pc[p] = "none"
    /\ pc' = [pc EXCEPT ![p] = "read"]
    /\ parent' = [parent EXCEPT ![p] = creator]

(* timecraft run. *)
StartMain ==
    /\ mgr = "open"
    /\ CallStart(main, None)
    /\ UNCHANGED <<mgr, waited, proxied, processes, group, ctx, held, sysVars, poll>>

Read(p) ==
    /\ Get(p, "read", {}, IF p = main /\ proxied THEN "proxy" ELSE "namespace")
    /\ UNCHANGED sysVars

StartProxy ==
    /\ pc[main] = "proxy"
    /\ CallStart(other, None)
    /\ UNCHANGED <<mgr, waited, proxied, processes, group, ctx, held, sysVars, poll>>

(* The proxy was started, and is still alive. *)
LookupProxy ==
    /\ pc[main] = "proxy" /\ other \in processes
    /\ Goto(main, "namespace")
    /\ UNCHANGED <<pmVars, ctx, held, sysVars, poll>>

CreateNamespace(p) == Get(p, "namespace", {"namespace"}, "system") /\ UNCHANGED sysVars

NewSystem(p) ==
    /\ Get(p, "system", {"system"}, "log")
    /\ kill' = [kill EXCEPT ![p] = [i \in 1..2 |-> 0]]
    /\ UNCHANGED <<closes, watcher>>

(* The log, then the goroutines of the process. *)
CreateLogSegment(p) ==
    /\ Get(p, "log", {"segment", "copiers"}, "listen")
    /\ watcher' = [watcher EXCEPT ![p] = "waiting"]
    /\ UNCHANGED <<kill, closes>>

Listen(p) == Get(p, "listen", {"listener"}, "register") /\ UNCHANGED sysVars

\* Mutant: the goroutine is not one of the group.
RegisterAlone(p) ==
    /\ pc[p] = "register"
    /\ Goto(p, "running")
    /\ processes' = processes \cup {p}
    /\ UNCHANGED <<mgr, waited, proxied, parent, group, ctx, held, sysVars, poll>>

Register(p) ==
    /\ pc[p] = "register"
    /\ Goto(p, "running")
    /\ processes' = processes \cup {p}
    /\ group' = group \cup {p}
    /\ UNCHANGED <<mgr, waited, proxied, parent, ctx, held, sysVars, poll>>

(* The steps of Start that may return an error. *)
StartFails(p) ==
    /\ \/ pc[p] \in {"read", "namespace", "system", "log", "listen"}
       \/ p = main /\ pc[p] = "proxy" /\ pc[other] = "failed"
       \/ p = main /\ pc[p] = "proxy" /\ pc[other] \in {"close", "wait", "done"}
    /\ Fail(p)

StartStep(p) ==
    \/ Read(p) \/ CreateNamespace(p) \/ NewSystem(p) \/ CreateLogSegment(p)
    \/ Listen(p) \/ Register(p)

-----------------------------------------------------------------------------
(* The goroutine of a process.                                             *)

(* The guest returns or exits. *)
Exit(p) ==
    /\ pc[p] = "running" /\ poll[p].at = "idle"
    /\ Goto(p, "cancel")
    /\ UNCHANGED <<pmVars, ctx, held, sysVars, poll>>

Cancel(p) ==
    /\ pc[p] = "cancel"
    /\ Goto(p, "delete")
    /\ ctx' = ctx \cup {p}
    /\ UNCHANGED <<pmVars, held, sysVars, poll>>

Delete(p) ==
    /\ pc[p] = "delete"
    /\ Goto(p, "close")
    /\ processes' = processes \ {p}
    /\ UNCHANGED <<mgr, waited, proxied, parent, group, ctx, held, sysVars, poll>>

(* The listener, the server and the modules, hence the system. *)
CloseModules(p) ==
    /\ pc[p] = "close"
    /\ Goto(p, "wait")
    /\ held' = [held EXCEPT ![p] = @ \ {"listener", "system"}]
    /\ SystemClose(p)
    /\ UNCHANGED <<pmVars, ctx, watcher, poll>>

(* The copiers end with the pipes that the guest wrote to.  Then the log   *)
(* is flushed and closed, and the namespace detached.                      *)
GroupWait(p) ==
    /\ pc[p] = "wait" /\ watcher[p] = "done"
    /\ Goto(p, "done")
    /\ held' = [held EXCEPT ![p] = @ \ {"copiers", "segment", "namespace"}]
    /\ group' = group \ {p}
    /\ UNCHANGED <<mgr, waited, proxied, parent, processes, ctx, sysVars, poll>>

End(p) == Cancel(p) \/ Delete(p) \/ CloseModules(p) \/ GroupWait(p)

(* The goroutine that waits for the context to be done. *)
Watch(p) ==
    /\ watcher[p] = "waiting" /\ Done(p)
    /\ watcher' = [watcher EXCEPT ![p] = "done"]
    /\ Kill(p)
    /\ UNCHANGED <<pc, pmVars, ctx, held, poll>>

-----------------------------------------------------------------------------
(* The server of the main module, whose handlers do not belong to its      *)
(* group.                                                                  *)

Spawn ==
    /\ ~proxied /\ "listener" \in held[main] /\ main \in processes
    /\ CallStart(other, main)
    /\ UNCHANGED <<mgr, waited, proxied, processes, group, ctx, held, sysVars, poll>>

(* Kill of process q asked to the server of process p. *)
KillProcess(p, q) ==
    /\ "listener" \in held[p] /\ q \in processes /\ parent[q] = p /\ q \notin ctx
    /\ ctx' = ctx \cup {q}
    /\ UNCHANGED <<pc, pmVars, held, sysVars, poll>>

(* A signal to timecraft run, or a server that fails, cancels pm.ctx. *)
CancelAll ==
    /\ mgr = "open" /\ pc[main] # "none"
    /\ mgr' = "canceled"
    /\ UNCHANGED <<pc, waited, proxied, parent, processes, group, ctx, held, sysVars, poll>>

Started(p) == pc[p] \in {"running", "cancel", "delete", "close", "wait", "done"}

(* Wait of timecraft run: the process is not found, or its context is done. *)
WaitReturns(p) == Started(p) /\ (p \notin processes \/ Done(p))

(* timecraft run closes the manager when Start fails and when Wait returns. *)
Close ==
    /\ mgr \in {"open", "canceled"} /\ (pc[main] = "failed" \/ WaitReturns(main))
    /\ mgr' = "closing"
    /\ waited' = {p \in Procs : Started(p)}
    /\ UNCHANGED <<pc, proxied, parent, processes, group, ctx, held, sysVars, poll>>

WaitAll ==
    /\ mgr = "closing" /\ group = {}
    /\ mgr' = "closed"
    /\ UNCHANGED <<pc, waited, proxied, parent, processes, group, ctx, held, sysVars, poll>>

Init ==
    /\ pc = [p \in Procs |-> "none"]
    /\ mgr = "open" /\ waited = {} /\ proxied \in BOOLEAN
    /\ parent = [p \in Procs |-> None]
    /\ processes = {} /\ group = {} /\ ctx = {}
    /\ held = [p \in Procs |-> {}]
    /\ kill = [p \in Procs |-> [i \in 1..2 |-> -1]]
    /\ closes = [p \in Procs |-> 0]
    /\ watcher = [p \in Procs |-> "none"]
    /\ poll = [p \in Procs |-> Idle]

Guest(p) ==
    \/ Exit(p)
    \/ \E clocks \in SUBSET Durations, fd, bad \in BOOLEAN : PollOneOff(p, clocks, fd, bad)

Next ==
    \/ StartMain \/ StartProxy \/ LookupProxy \/ Spawn \/ CancelAll \/ Close \/ WaitAll \/ Tick
    \/ \E p \in Procs : StartStep(p) \/ StartFails(p) \/ End(p) \/ Watch(p) \/ Guest(p) \/ PollCall(p)
    \/ \E p \in Procs, why \in {"fd", "kill", "timeout", "signal"} : PollReturn(p, why)
    \/ \E p, q \in Procs : KillProcess(p, q)

(* The goroutine of a process, which runs the guest too. *)
Thread(p) ==
    \/ StartStep(p) \/ (p = main /\ LookupProxy)
    \/ Guest(p) \/ PollCall(p) \/ PollReturn(p, "kill") \/ PollReturn(p, "timeout")
    \/ End(p)

(* Goroutines are scheduled, time passes, and poll(2) returns when its     *)
(* timeout is over or the pipe is closed; a guest goes on until it exits.  *)
Fairness ==
    /\ WF_vars(Tick)
    /\ \A p \in Procs : WF_vars(Thread(p)) /\ WF_vars(Watch(p))

Spec == Init /\ [][Next]_vars /\ Fairness

-----------------------------------------------------------------------------
(* The descriptor that Kill closes is closed by nobody else, the end of    *)
(* the process that cancels the context included: its number may be the    *)
(* one of another file by then.                                            *)
KillClosesOnce == \A p \in Procs : closes[p] <= 1

(* A process that ended holds nothing, and one that did not start has      *)
(* given back its address.                                                 *)
EndReleases ==
    \A p \in Procs :
        /\ pc[p] = "done" => held[p] = {} /\ p \notin processes /\ kill[p][1] = -1
        /\ pc[p] = "failed" => "namespace" \notin held[p]

(* What a process holds is given back, and once. *)
ProcessReleased == KillClosesOnce /\ EndReleases

(* When Close returns, the processes that had been started before it was   *)
(* called have ended, and their logs are complete.                         *)
CloseWaits == mgr = "closed" => \A p \in waited : pc[p] = "done"

(* PollOneOff with clocks only does not return before the first of them,   *)
(* whatever poll(2) rounds and whatever interrupts it.                     *)
NeverEarly ==
    [][\A p \in Procs :
          poll[p].at = "blocked" /\ poll'[p].at = "idle" /\ pc'[p] = "running" =>
              poll[p].fd \/ poll[p].bad \/ poll[p].left <= 0]_vars

(* A guest that waits for a clock does not wait for ever, if it is never   *)
(* preempted for half a millisecond between two calls to poll(2).          *)
PollTimesOut ==
    \A p \in Sleepers : (poll[p].at # "idle" /\ poll[p].clock) ~> poll[p].at = "idle"

(* A process that is killed, or whose manager is closed, ends if it goes   *)
(* on calling PollOneOff, whether Kill comes before, between or after the  *)
(* calls.                                                                  *)
KilledEnds == \A p \in Procs : (pc[p] = "running" /\ Done(p)) ~> pc[p] = "done"
=============================================================================
