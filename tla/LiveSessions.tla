---------------------------- MODULE LiveSessions ----------------------------
(***************************************************************************)
(* LiveOrchestrator: the live session of every account, its trading node,  *)
(* the phase-change listener that reloads sessions, the crash isolation of *)
(* nodes, and the stop sequence.                                           *)
(*                                                                         *)
(* Everything runs on one asyncio loop, so an action is the code between   *)
(* two awaits.  Two coroutines tear sessions down: start/stop ("main") and *)
(* the phase listener ("listener").  Nodes run in tasks of their own; when *)
(* such a task ends, its done callback is queued and runs in a later turn  *)
(* of the loop.  Each account numbers its sessions, a session owns at most *)
(* one node, and <<a, g>> names both.                                      *)
(***************************************************************************)
EXTENDS Naturals, Sequences

CONSTANTS
    Accounts,       \* accounts with config status "active"
    NoSymbols,      \* those without bar subscriptions: they get no node
    MaxGen,         \* bound: sessions created per account
    MaxPublish      \* bound: phase changes published

ASSUME NoSymbolsKnown == NoSymbols \subseteq Accounts
ASSUME BoundsNat == MaxGen \in Nat /\ MaxPublish \in Nat

Gens == 1..MaxGen
Sessions == Accounts \X Gens
Callers == {"main", "listener"}
NoSession == <<>>

VARIABLES
    status,     \* Redis account:{id}:status; all but "active" and "paused" is
                \* "other"
    gen,        \* sessions of the account created so far
    registered, \* _sessions: generation of the account's session, 0 for none
    state,      \* LiveAccountSession.state, "none" before it is created
    run,        \* the task running the node of the session
    callbacks,  \* sessions whose run task is done and its callback queued
    tracked,    \* _node_run_tasks: generation of the tracked task, 0 for none
    isolation,  \* isolation[n]: the crash-isolation task that node n caused
    pc,         \* pc[p]: where coroutine p is
    on,         \* on[p]: the session it is working on
    task,       \* task[p]: it has taken the run task out of _node_run_tasks
    todo,       \* stop: sessions still to tear down, then isolations to await
    inbox,      \* phase changes delivered to the listener's subscription
    published,  \* number of phase changes published
    lost        \* history: nodes that nobody will stop any more

loopVars == <<pc, on, task, todo>>
sessionVars == <<gen, registered, state, run, tracked, lost>>
mailVars == <<inbox, published>>
vars == <<status, gen, registered, state, run, callbacks, tracked, isolation,
          pc, on, task, todo, inbox, published, lost>>

RunStates == {"none", "running", "halted", "ended", "crashed", "cancelled"}
MainStates == {"starting", "live", "cancelling", "sessions", "drain", "stopped"}
ListenerStates == {"none", "idle"}
TeardownStates == {"stopping", "joining", "isolating"}
Statuses == {"active", "paused", "other"}
NotIsolating == [of |-> NoSession, step |-> "none"]

TypeOK ==
    /\ status \in [Accounts -> Statuses]
    /\ gen \in [Accounts -> 0..MaxGen]
    /\ registered \in [Accounts -> 0..MaxGen]
    /\ state \in [Sessions -> {"none", "running", "failed", "stopped"}]
    /\ run \in [Sessions -> RunStates]
    /\ callbacks \subseteq Sessions
    /\ tracked \in [Accounts -> 0..MaxGen]
    /\ isolation \in [Sessions -> [of: Sessions \cup {NoSession},
                                   step: {"none", "queued", "pausing"}]]
    /\ pc \in [Callers -> MainStates \cup ListenerStates \cup TeardownStates]
    /\ on \in [Callers -> Sessions \cup {NoSession}]
    /\ task \in [Callers -> BOOLEAN]
    /\ todo \subseteq Sessions
    /\ inbox \in Seq(Accounts)
    /\ published \in 0..MaxPublish
    /\ lost \subseteq Sessions

Init ==
    /\ status \in [Accounts -> Statuses]
    /\ gen = [a \in Accounts |-> 0]
    /\ registered = [a \in Accounts |-> 0]
    /\ state = [s \in Sessions |-> "none"]
    /\ run = [s \in Sessions |-> "none"]
    /\ callbacks = {}
    /\ tracked = [a \in Accounts |-> 0]
    /\ isolation = [s \in Sessions |-> NotIsolating]
    /\ pc = [p \in Callers |-> IF p = "main" THEN "starting" ELSE "none"]
    /\ on = [p \in Callers |-> NoSession]
    /\ task = [p \in Callers |-> FALSE]
    /\ todo = {}
    /\ inbox = <<>>
    /\ published = 0
    /\ lost = {}

Account(s) == s[1]
Gen(s) == s[2]
Alive(s) == run[s] \in {"running", "halted"}
Pending(n) == isolation[n] # NotIsolating

(* AccountManager.pause_account.  It raises when the account is not active,   *)
(* which the callers here only log.                                           *)
Pause(a) ==
    status' = [status EXCEPT ![a] = IF @ = "active" THEN "paused" ELSE @]

Home(p) == IF p = "main" THEN "starting" ELSE "idle"

Goto(p, where) == pc' = [pc EXCEPT ![p] = where]

-----------------------------------------------------------------------------
(* Starting a session: _start_session has no await before it fails, so       *)
(* building, launching and mark_running are one step.  st is the state of the *)
(* sessions that a teardown in the same step leaves.                          *)

CanCreate(a) == gen[a] < MaxGen

(* Mutant of Launched: the run task is not put into _node_run_tasks. *)
LaunchedUntracked(p, a, st) ==
    LET s == <<a, gen[a] + 1>>
    IN  /\ gen' = [gen EXCEPT ![a] = Gen(s)]
        /\ registered' = [registered EXCEPT ![a] = Gen(s)]
        /\ state' = [st EXCEPT ![s] = "running"]
        /\ run' = [run EXCEPT ![s] = IF a \in NoSymbols THEN @ ELSE "running"]
        /\ Goto(p, Home(p))
        /\ on' = [on EXCEPT ![p] = NoSession]
        /\ UNCHANGED tracked

Launched(p, a, st) ==
    LET s == <<a, gen[a] + 1>>
    IN  /\ gen' = [gen EXCEPT ![a] = Gen(s)]
        /\ registered' = [registered EXCEPT ![a] = Gen(s)]
        /\ state' = [st EXCEPT ![s] = "running"]
        /\ IF a \in NoSymbols
           THEN UNCHANGED <<run, tracked>>
           ELSE /\ run' = [run EXCEPT ![s] = "running"]
                /\ tracked' = [tracked EXCEPT ![a] = Gen(s)]
        /\ Goto(p, Home(p))
        /\ on' = [on EXCEPT ![p] = NoSession]

(* A component cannot be built: the session is FAILED without a node, and     *)
(* the caller goes on to isolate it.                                          *)
LaunchFailed(p, a, st) ==
    LET s == <<a, gen[a] + 1>>
    IN  /\ gen' = [gen EXCEPT ![a] = Gen(s)]
        /\ registered' = [registered EXCEPT ![a] = Gen(s)]
        /\ state' = [st EXCEPT ![s] = "failed"]
        /\ Goto(p, "isolating")
        /\ on' = [on EXCEPT ![p] = s]
        /\ UNCHANGED <<run, tracked>>

StartSession(p, a, st) == Launched(p, a, st) \/ LaunchFailed(p, a, st)

(* _start_all_sessions, one account. *)
StartAccount(a) ==
    /\ pc["main"] = "starting"
    /\ registered[a] = 0
    /\ CanCreate(a)
    /\ StartSession("main", a, state)
    /\ UNCHANGED <<status, callbacks, isolation, task, todo, inbox, published,
                   lost>>

(* _isolate_failed_session awaited by the coroutine that started the session. *)
IsolateInline(p) ==
    /\ pc[p] = "isolating"
    /\ Pause(Account(on[p]))
    /\ Goto(p, Home(p))
    /\ on' = [on EXCEPT ![p] = NoSession]
    /\ UNCHANGED <<sessionVars, callbacks, isolation, task, todo, mailVars>>

(* _start_phase_change_listener, the end of start(). *)
Started ==
    /\ pc["main"] = "starting"
    /\ \A a \in Accounts : registered[a] # 0
    /\ pc' = [pc EXCEPT !["main"] = "live", !["listener"] = "idle"]
    /\ UNCHANGED <<status, sessionVars, callbacks, isolation, on, task, todo,
                   mailVars>>

-----------------------------------------------------------------------------
(* The node's run task and its done callback.                              *)

NodeDone(s, how) ==
    /\ Alive(s)
    /\ run' = [run EXCEPT ![s] = how]
    /\ callbacks' = callbacks \cup {s}
    /\ UNCHANGED <<status, gen, registered, state, tracked, isolation, loopVars,
                   mailVars, lost>>

NodeEnds(s) == NodeDone(s, "ended")
NodeCrashes(s) == NodeDone(s, "crashed")

(* The cancellation that a teardown has requested takes effect. *)
Cancelled(p) == pc[p] = "joining" /\ NodeDone(on[p], "cancelled")

(* Mutant of OnNodeRunDone: nobody handles the crash. *)
OnNodeRunDoneSilent(s) ==
    /\ s \in callbacks
    /\ callbacks' = callbacks \ {s}
    /\ tracked' = [tracked EXCEPT ![Account(s)] = 0]
    /\ UNCHANGED <<status, gen, registered, state, run, isolation, loopVars, mailVars,
                   lost>>

(* _on_node_run_done finds the task and the session by account id: after a    *)
(* reload they are those of another node, which is then no longer tracked.    *)
OnNodeRunDone(s) ==
    LET a == Account(s)
    IN  /\ s \in callbacks
        /\ callbacks' = callbacks \ {s}
        /\ tracked' = [tracked EXCEPT ![a] = 0]
        /\ lost' = IF tracked[a] \in {0, Gen(s)} THEN lost
                   ELSE lost \cup {<<a, tracked[a]>>}
        /\ isolation' =
               IF run[s] = "crashed" /\ registered[a] # 0
               THEN [isolation EXCEPT ![s] = [of |-> <<a, registered[a]>>,
                                              step |-> "queued"]]
               ELSE isolation
        /\ UNCHANGED <<status, gen, registered, state, run, loopVars, mailVars>>

(* _handle_node_run_crash up to its first await: mark_failed. *)
MarkFailed(n) ==
    /\ isolation[n].step = "queued"
    /\ state' = [state EXCEPT ![isolation[n].of] = "failed"]
    /\ isolation' = [isolation EXCEPT ![n].step = "pausing"]
    /\ UNCHANGED <<status, gen, registered, run, tracked, lost, callbacks, loopVars,
                   mailVars>>

(* The rest of _isolate_failed_session: pause, audit. *)
IsolatePause(n) ==
    /\ isolation[n].step = "pausing"
    /\ Pause(Account(n))
    /\ isolation' = [isolation EXCEPT ![n] = NotIsolating]
    /\ UNCHANGED <<sessionVars, callbacks, loopVars, mailVars>>

-----------------------------------------------------------------------------
(* Tearing a session down: _stop_session, _teardown_session_components.    *)

(* What the caller does when the teardown of s is over: stop() takes the next *)
(* session, reload_account starts a new one in the same step.                 *)
AfterTeardown(p, s) ==
    LET stopped == [state EXCEPT ![s] = "stopped"]
    IN  /\ task' = [task EXCEPT ![p] = FALSE]
        /\ IF p = "main"
           THEN /\ state' = stopped
                /\ todo' = todo \ {s}
                /\ Goto(p, "sessions")
                /\ on' = [on EXCEPT ![p] = NoSession]
                /\ UNCHANGED <<gen, registered, run, tracked>>
           ELSE /\ CanCreate(Account(s))
                /\ StartSession(p, Account(s), stopped)
                /\ UNCHANGED todo

(* The run task is taken out of _node_run_tasks, and the node is told to stop. *)
BeginTeardown(p, s) ==
    /\ Goto(p, "stopping")
    /\ on' = [on EXCEPT ![p] = s]
    /\ task' = [task EXCEPT ![p] = tracked[Account(s)] # 0]
    /\ tracked' = [tracked EXCEPT ![Account(s)] = 0]

HasNode(s) == run[s] # "none"

(* wait_for(stop_async, 5 s) is over.  A run task that was tracked and is not *)
(* done is cancelled and awaited.                                             *)
StopReturned(p, how) ==
    /\ pc[p] = "stopping"
    /\ run[on[p]] = how
    /\ IF task[p] /\ Alive(on[p])
       THEN /\ Goto(p, "joining")
            /\ UNCHANGED <<gen, registered, state, run, tracked, on, task, todo>>
       ELSE AfterTeardown(p, on[p])
    /\ UNCHANGED <<status, callbacks, isolation, mailVars, lost>>

(* stop_async stops the node: it trades no more, whether or not its run task  *)
(* has ended.                                                                 *)
NodeStops(p) ==
    /\ pc[p] = "stopping"
    /\ run[on[p]] = "running"
    /\ run' = [run EXCEPT ![on[p]] = "halted"]
    /\ UNCHANGED <<status, gen, registered, state, tracked, lost, callbacks, isolation,
                   loopVars, mailVars>>

StopOk(p) == \E how \in {"halted", "ended", "crashed"} : StopReturned(p, how)

(* The timeout, or an exception of stop_async: the node is still running. *)
StopTimeout(p) == StopReturned(p, "running")

(* The done callback was registered before the teardown awaited the task, so  *)
(* it runs first.                                                             *)
Joined(p) ==
    /\ pc[p] = "joining"
    /\ ~Alive(on[p])
    /\ on[p] \notin callbacks
    /\ AfterTeardown(p, on[p])
    /\ UNCHANGED <<status, callbacks, isolation, mailVars, lost>>

-----------------------------------------------------------------------------
(* Phase changes: _phase_listen_loop, reload_account.                      *)

(* Redis delivers to the subscribers of the moment. *)
Publish(a) ==
    /\ published < MaxPublish
    /\ published' = published + 1
    /\ inbox' = IF pc["listener"] = "none" THEN inbox ELSE Append(inbox, a)
    /\ UNCHANGED <<status, sessionVars, callbacks, isolation, loopVars>>

(* remove_account pops the session before it tears it down. *)
Reload ==
    /\ pc["listener"] = "idle"
    /\ inbox # <<>>
    /\ inbox' = Tail(inbox)
    /\ LET a == Head(inbox)
           s == <<a, registered[a]>>
       IN  /\ registered[a] # 0
           /\ CanCreate(a)
           /\ IF HasNode(s)
              THEN /\ BeginTeardown("listener", s)
                   /\ registered' = [registered EXCEPT ![a] = 0]
                   /\ UNCHANGED <<gen, state, run, todo>>
              ELSE AfterTeardown("listener", s)
    /\ UNCHANGED <<status, callbacks, isolation, published, lost>>

-----------------------------------------------------------------------------
(* stop()                                                                  *)

(* The listener is cancelled at its current await.  In stop_async or in       *)
(* pause_account the CancelledError ends it; a session under reload is marked *)
(* STOPPED and left as it is.  While it awaits the cancelled run task the     *)
(* CancelledError is suppressed together with that of the task, and the       *)
(* reload and the listener go on.                                             *)
BeginStop ==
    /\ pc["main"] = "live"
    /\ pc' = [pc EXCEPT !["main"] = "cancelling",
                        !["listener"] = IF @ = "joining" THEN @ ELSE "none"]
    /\ LET s == on["listener"]
           abandoned == pc["listener"] = "stopping"
       IN  /\ state' = IF abandoned THEN [state EXCEPT ![s] = "stopped"] ELSE state
           /\ lost' = IF abandoned THEN lost \cup {s} ELSE lost
    /\ on' = IF pc["listener"] = "joining" THEN on
             ELSE [on EXCEPT !["listener"] = NoSession]
    /\ task' = IF pc["listener"] = "joining" THEN task
               ELSE [task EXCEPT !["listener"] = FALSE]
    /\ UNCHANGED <<status, gen, registered, run, tracked, callbacks, isolation, todo,
                   mailVars>>

(* The await of the listener task ends; the sessions are listed. *)
ListenerGone ==
    /\ pc["main"] = "cancelling"
    /\ pc["listener"] = "none"
    /\ Goto("main", "sessions")
    /\ todo' = {<<a, registered[a]>> : a \in {b \in Accounts : registered[b] # 0}}
    /\ UNCHANGED <<status, sessionVars, callbacks, isolation, on, task, mailVars>>

StopNext(s) ==
    /\ pc["main"] = "sessions"
    /\ s \in todo
    /\ IF HasNode(s)
       THEN /\ BeginTeardown("main", s)
            /\ UNCHANGED <<gen, registered, state, run, todo>>
       ELSE AfterTeardown("main", s)
    /\ UNCHANGED <<status, callbacks, isolation, mailVars, lost>>

(* The isolation tasks pending now are gathered. *)
AllStopped ==
    /\ pc["main"] = "sessions"
    /\ todo = {}
    /\ Goto("main", "drain")
    /\ todo' = {n \in Sessions : Pending(n)}
    /\ UNCHANGED <<status, sessionVars, callbacks, isolation, on, task, mailVars>>

(* The auxiliary services are stopped and stop() returns. *)
Drained ==
    /\ pc["main"] = "drain"
    /\ \A n \in todo : ~Pending(n)
    /\ Goto("main", "stopped")
    /\ todo' = {}
    /\ UNCHANGED <<status, sessionVars, callbacks, isolation, on, task, mailVars>>

Halt == pc["main"] = "stopped" /\ UNCHANGED vars

-----------------------------------------------------------------------------
Teardown(p) == StopOk(p) \/ StopTimeout(p) \/ Cancelled(p) \/ Joined(p)

Start == Started \/ \E a \in Accounts : StartAccount(a)

Stop == ListenerGone \/ AllStopped \/ Drained \/ \E s \in Sessions : StopNext(s)

Isolate(n) == MarkFailed(n) \/ IsolatePause(n)

Steps ==
    \/ Start \/ Stop \/ Reload
    \/ \E a \in Accounts : Publish(a)
    \/ \E p \in Callers : NodeStops(p) \/ Teardown(p) \/ IsolateInline(p)
    \/ \E s \in Sessions :
        NodeEnds(s) \/ NodeCrashes(s) \/ OnNodeRunDone(s) \/ Isolate(s)
    \/ Halt

Next == Steps \/ BeginStop

Spec == Init /\ [][Next]_vars

(* The loop runs every coroutine that can go on and every queued callback.    *)
(* The wait for stop_async ends after five seconds at the latest, but nothing *)
(* makes the node stop.  A cancelled run task ends, and Redis answers         *)
(* pause_account; nodes need not end or crash, and nobody needs to publish.   *)
Fairness ==
    /\ WF_vars(Start) /\ WF_vars(Stop) /\ WF_vars(Reload)
    /\ \A p \in Callers : WF_vars(Teardown(p)) /\ WF_vars(IsolateInline(p))
    /\ \A s \in Sessions : WF_vars(OnNodeRunDone(s)) /\ WF_vars(Isolate(s))

FairSpec == Spec /\ Fairness

-----------------------------------------------------------------------------
Owned(s) ==
    \/ registered[Account(s)] = Gen(s) /\ tracked[Account(s)] = Gen(s)
    \/ \E p \in Callers : on[p] = s /\ task[p]

(* Every node whose run task is alive has someone who will cancel it: the     *)
(* registry of run tasks or a teardown under way.                             *)
(* An account has one trading node: two nodes of an account run at the same   *)
(* time only when the older one is lost.                                      *)
(* When stop() has returned no node trades.                                   *)
(* The only exceptions are the nodes in lost: the reload of the node was      *)
(* cancelled inside stop_async, or the callback of its predecessor took it    *)
(* out of _node_run_tasks.                                                    *)
NodesOwned ==
    \A s \in Sessions \ lost :
        /\ Alive(s) => Owned(s)
        /\ run[s] = "running" =>
            /\ pc["main"] # "stopped"
            /\ \A t \in Sessions : Account(t) = Account(s) /\ Gen(s) < Gen(t) => ~Alive(t)

(* A crashed node does not leave its session RUNNING: crash isolation, a      *)
(* reload or the stop sequence gets to it.                                    *)
CrashIsolated ==
    \A s \in Sessions :
        run[s] = "crashed" /\ registered[Account(s)] = Gen(s) ~> state[s] # "running"

(* stop() returns once the listener has ended, whatever nodes hang or crash.  *)
StopReturns == pc["main"] \in {"sessions", "drain"} ~> pc["main"] = "stopped"

(* The coroutines of the orchestrator finish what they began: CrashIsolated   *)
(* and StopReturns.                                                           *)
SessionsSettle == CrashIsolated /\ StopReturns

(* "Graceful shutdown must always make forward progress": stop() returns.    *)
StopCompletes == pc["main"] = "cancelling" ~> pc["main"] = "stopped"
=============================================================================
