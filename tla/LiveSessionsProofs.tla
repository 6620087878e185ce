------------------------- MODULE LiveSessionsProofs -------------------------
(***************************************************************************)
(* Proofs about LiveOrchestrator: every live trading node has an owner.    *)
(*                                                                         *)
(* The argument.  An account's registered session is its newest, and a     *)
(* tracked run task belongs to the registered session.  A teardown works   *)
(* on the newest session of its account, whose run task it has taken out   *)
(* of the registry, and the two coroutines never tear down at the same     *)
(* time.  So a launch finds the registry free of the account and the older *)
(* node dead or lost, and stop() misses no tracked task.                   *)
(***************************************************************************)
EXTENDS LiveSessions, SequenceTheorems, TLAPS

TearingDown(p) == pc[p] \in {"stopping", "joining"}

(* The part of TypeOK the argument uses. *)
OwnerTypes ==
    /\ gen \in [Accounts -> 0..MaxGen]
    /\ registered \in [Accounts -> 0..MaxGen]
    /\ run \in [Sessions -> RunStates]
    /\ callbacks \subseteq Sessions
    /\ tracked \in [Accounts -> 0..MaxGen]
    /\ pc \in [Callers -> MainStates \cup ListenerStates \cup TeardownStates]
    /\ on \in [Callers -> Sessions \cup {NoSession}]
    /\ task \in [Callers -> BOOLEAN]
    /\ todo \subseteq Sessions
    /\ inbox \in Seq(Accounts)

(* The listener works only between start() and the listing of the sessions    *)
(* by stop(); a run task is held only by a teardown.                          *)
OneTeardown ==
    /\ pc["main"] \in MainStates \cup TeardownStates
    /\ pc["listener"] \in ListenerStates \cup TeardownStates
    /\ pc["listener"] # "none" => pc["main"] \in {"live", "cancelling"}
    /\ \A p \in Callers : task[p] => TearingDown(p)
    /\ \A p \in Callers : pc[p] = "joining" => task[p]

RegistryNewest ==
    /\ \A a \in Accounts : registered[a] \in {0, gen[a]}
    /\ \A a \in Accounts : tracked[a] # 0 =>
           tracked[a] = registered[a] /\ run[<<a, tracked[a]>>] # "none"
    /\ \A s \in Sessions : run[s] # "none" => Gen(s) <= gen[Account(s)]
    /\ \A s \in callbacks : run[s] # "none" /\ ~Alive(s)

TeardownNewest ==
    \A p \in Callers : TearingDown(p) =>
        /\ on[p] \in Sessions
        /\ Gen(on[p]) = gen[Account(on[p])]
        /\ tracked[Account(on[p])] = 0

(* stop() has every tracked task on its list, and none is left at its end. *)
StopCovers ==
    /\ pc["main"] \in {"sessions", "stopping", "joining"} =>
        /\ \A s \in todo : registered[Account(s)] = Gen(s)
        /\ \A a \in Accounts : tracked[a] # 0 => <<a, tracked[a]>> \in todo
    /\ pc["main"] \in {"drain", "stopped"} => \A a \in Accounts : tracked[a] = 0

AliveOwned == \A s \in Sessions \ lost : Alive(s) => Owned(s)

OwnerInv ==
    /\ OwnerTypes
    /\ OneTeardown
    /\ RegistryNewest
    /\ TeardownNewest
    /\ StopCovers
    /\ AliveOwned
LEMMA SessionParts ==
    /\ \A s \in Sessions : Account(s) \in Accounts /\ Gen(s) \in Gens /\ s = <<Account(s), Gen(s)>>
    /\ \A a \in Accounts, g \in Gens :
           <<a, g>> \in Sessions /\ Account(<<a, g>>) = a /\ Gen(<<a, g>>) = g
BY DEF Sessions, Account, Gen

(* Who is tearing down: nobody while a session is being started, and never    *)
(* both coroutines.                                                           *)
LEMMA TeardownExclusive ==
    ASSUME OwnerInv
    PROVE  /\ \A p \in Callers : task[p] => TearingDown(p)
           /\ pc["main"] = "starting" => ~TearingDown("listener") /\ ~TearingDown("main")
           /\ pc["listener"] # "none" => ~TearingDown("main")
           /\ TearingDown("main") => pc["listener"] = "none"
BY DEF OwnerInv, OneTeardown, TearingDown

LEMMA OwnerInvOwns == OwnerInv => NodesOwned
<1> SUFFICES ASSUME OwnerInv, NEW s \in Sessions \ lost
             PROVE  /\ Alive(s) => Owned(s)
                    /\ run[s] = "running" =>
                        /\ pc["main"] # "stopped"
                        /\ \A t \in Sessions :
                               Account(t) = Account(s) /\ Gen(s) < Gen(t) => ~Alive(t)
  BY DEF NodesOwned
<1> USE DEF OwnerInv
<1>1. Alive(s) => Owned(s)
  BY DEF AliveOwned
<1>2. ASSUME run[s] = "running"
      PROVE  /\ pc["main"] # "stopped"
             /\ \A t \in Sessions : Account(t) = Account(s) /\ Gen(s) < Gen(t) => ~Alive(t)
  <2>1. Owned(s)
    BY <1>1, <1>2 DEF Alive
  <2>2. Account(s) \in Accounts /\ Gen(s) \in Gens /\ Gen(s) # 0
    BY SessionParts, BoundsNat DEF Gens
  <2>3. Gen(s) = gen[Account(s)]
    <3>1. CASE registered[Account(s)] = Gen(s) /\ tracked[Account(s)] = Gen(s)
      BY <2>2, <3>1 DEF RegistryNewest
    <3>2. ASSUME NEW p \in Callers, on[p] = s, task[p] PROVE Gen(s) = gen[Account(s)]
      BY <3>2 DEF OneTeardown, TeardownNewest
    <3> QED
      BY <2>1, <3>1, <3>2 DEF Owned
  <2>4. pc["main"] # "stopped"
    <3>1. CASE registered[Account(s)] = Gen(s) /\ tracked[Account(s)] = Gen(s)
      BY <2>2, <3>1 DEF StopCovers
    <3>2. ASSUME NEW p \in Callers, on[p] = s, task[p] PROVE pc["main"] # "stopped"
      BY <3>2 DEF OneTeardown, TearingDown, Callers
    <3> QED
      BY <2>1, <3>1, <3>2 DEF Owned
  <2>5. ASSUME NEW t \in Sessions, Account(t) = Account(s), Gen(s) < Gen(t) PROVE ~Alive(t)
    <3>1. ~(Gen(t) <= gen[Account(t)])
      BY <2>2, <2>3, <2>5, SessionParts, BoundsNat DEF Gens
    <3> QED
      BY <3>1 DEF RegistryNewest, Alive
  <2> QED
    BY <2>4, <2>5
<1> QED
  BY <1>1, <1>2

LEMMA OwnerInit == Init => OwnerInv
<1> SUFFICES ASSUME Init PROVE OwnerInv
  OBVIOUS
<1> USE DEF Init
<1>1. OwnerTypes
  BY BoundsNat DEF OwnerTypes, RunStates, MainStates, ListenerStates
<1>2. OneTeardown /\ TeardownNewest /\ StopCovers
  BY DEF OneTeardown, TeardownNewest, StopCovers, TearingDown, Callers, MainStates, ListenerStates
<1>3. RegistryNewest /\ AliveOwned
  BY DEF RegistryNewest, AliveOwned, Alive
<1> QED
  BY <1>1, <1>2, <1>3 DEF OwnerInv

(* Nothing the argument is about changes. *)
LEMMA OwnerIdle ==
    ASSUME OwnerInv, inbox' \in Seq(Accounts),
           UNCHANGED <<gen, registered, run, callbacks, tracked, pc, on, task, todo, lost>>
    PROVE  OwnerInv'
<1>1. OwnerTypes' /\ OneTeardown' /\ RegistryNewest' /\ TeardownNewest'
  BY DEF OwnerInv, OwnerTypes, OneTeardown, RegistryNewest, TeardownNewest, TearingDown, Alive
<1>2. StopCovers' /\ AliveOwned'
  BY DEF OwnerInv, StopCovers, AliveOwned, Alive, Owned
<1> QED
  BY <1>1, <1>2 DEF OwnerInv

(* A session of account a is started: the run task of an older one is not in  *)
(* the registry, and no teardown that held one leaves it alive.               *)
LEMMA StartSteps ==
    ASSUME OwnerInv, NEW p \in Callers, NEW a \in Accounts, NEW st,
           CanCreate(a), tracked[a] = 0, StartSession(p, a, st),
           p = "main" => pc["main"] = "starting",
           p = "listener" => pc["listener"] # "none",
           task[p] => on[p] \in Sessions /\ ~Alive(on[p]),
           task' = [task EXCEPT ![p] = FALSE],
           inbox' \in Seq(Accounts), UNCHANGED <<callbacks, todo, lost>>
    PROVE  OwnerInv'
<1> USE DEF OwnerInv
<1>1. PICK s \in Sessions : /\ s = <<a, gen[a] + 1>> /\ Account(s) = a /\ Gen(s) = gen[a] + 1
                            /\ Gen(s) \in 1..MaxGen
  <2>1. gen[a] + 1 \in Gens
    BY BoundsNat DEF OwnerTypes, CanCreate, Gens
  <2> QED
    BY <2>1, SessionParts DEF Gens
<1>2. /\ gen' = [gen EXCEPT ![a] = Gen(s)]
      /\ registered' = [registered EXCEPT ![a] = Gen(s)]
      /\ \/ run' = [run EXCEPT ![s] = "running"] /\ tracked' = [tracked EXCEPT ![a] = Gen(s)]
         \/ UNCHANGED <<run, tracked>>
      /\ pc' = [pc EXCEPT ![p] = Home(p)] \/ pc' = [pc EXCEPT ![p] = "isolating"]
      /\ on' \in [Callers -> Sessions \cup {NoSession}]
  <2>1. /\ gen' = [gen EXCEPT ![a] = Gen(s)]
        /\ registered' = [registered EXCEPT ![a] = Gen(s)]
        /\ on' = [on EXCEPT ![p] = NoSession] \/ on' = [on EXCEPT ![p] = s]
    BY <1>1 DEF StartSession, Launched, LaunchFailed
  <2>2. \/ run' = [run EXCEPT ![s] = "running"] /\ tracked' = [tracked EXCEPT ![a] = Gen(s)]
        \/ UNCHANGED <<run, tracked>>
    BY <1>1 DEF StartSession, Launched, LaunchFailed
  <2>3. pc' = [pc EXCEPT ![p] = Home(p)] \/ pc' = [pc EXCEPT ![p] = "isolating"]
    BY DEF StartSession, Launched, LaunchFailed, Goto
  <2>4. on' \in [Callers -> Sessions \cup {NoSession}]
    BY <2>1 DEF OwnerTypes
  <2> QED
    BY <2>1, <2>2, <2>3, <2>4
<1>3. \A q \in Callers \ {p} : ~TearingDown(q)
  BY TeardownExclusive DEF Callers
<1>4. /\ pc'[p] \in {"starting", "idle", "isolating"} /\ \A q \in Callers \ {p} : pc'[q] = pc[q]
      /\ p = "main" => pc'["main"] \in {"starting", "isolating"}
      /\ p = "listener" => pc'["listener"] \in {"idle", "isolating"}
  BY <1>2 DEF OwnerTypes, Home, Callers
<1>5. \A q \in Callers : ~TearingDown(q)' /\ ~task'[q]
  <2>1. \A q \in Callers : ~TearingDown(q)'
    BY <1>3, <1>4 DEF TearingDown
  <2>2. \A q \in Callers \ {p} : ~task[q]
    BY <1>3, TeardownExclusive
  <2> QED
    BY <2>1, <2>2 DEF OwnerTypes
<1>6. OwnerTypes'
  <2>1. pc' \in [Callers -> MainStates \cup ListenerStates \cup TeardownStates]
    BY <1>2 DEF OwnerTypes, Home, MainStates, ListenerStates, TeardownStates
  <2>2. run' \in [Sessions -> RunStates] /\ task' \in [Callers -> BOOLEAN]
    BY <1>2 DEF OwnerTypes, RunStates
  <2>3. /\ gen' \in [Accounts -> 0..MaxGen] /\ registered' \in [Accounts -> 0..MaxGen]
        /\ tracked' \in [Accounts -> 0..MaxGen]
    BY <1>1, <1>2, BoundsNat, SMTT(40) DEF OwnerTypes
  <2> QED
    BY <1>2, <2>1, <2>2, <2>3 DEF OwnerTypes
<1>7. OneTeardown' /\ TeardownNewest'
  <2>1. pc'["main"] \in MainStates \cup TeardownStates
    BY <1>4 DEF OneTeardown, Callers, MainStates, TeardownStates
  <2>2. pc'["listener"] \in ListenerStates \cup TeardownStates
    BY <1>4 DEF OneTeardown, Callers, ListenerStates, TeardownStates
  <2>3. pc'["listener"] # "none" => pc'["main"] \in {"live", "cancelling"}
    BY <1>4 DEF OneTeardown, Callers
  <2>4. \A q \in Callers : pc'[q] # "joining"
    BY <1>5 DEF TearingDown
  <2> QED
    BY <1>5, <2>1, <2>2, <2>3, <2>4 DEF OneTeardown, TeardownNewest
<1>8. StopCovers'
  <2>1. pc'["main"] \in {"starting", "isolating", "live", "cancelling"}
    BY <1>4 DEF OneTeardown, Callers
  <2> QED
    BY <2>1 DEF StopCovers
<1>9. /\ gen'[a] = gen[a] + 1 /\ registered'[a] = gen[a] + 1
      /\ \A b \in Accounts \ {a} : /\ gen'[b] = gen[b] /\ registered'[b] = registered[b]
                                   /\ tracked'[b] = tracked[b]
      /\ \A t \in Sessions \ {s} : run'[t] = run[t]
      /\ \/ run'[s] = "running" /\ tracked'[a] = gen[a] + 1
         \/ run'[s] = run[s] /\ tracked'[a] = 0
  BY <1>1, <1>2 DEF OwnerTypes
<1>10. run[s] = "none"
  BY <1>1, BoundsNat DEF RegistryNewest, OwnerTypes
<1>11. RegistryNewest'
  <2>1. \A b \in Accounts : registered'[b] \in {0, gen'[b]}
    BY <1>9 DEF RegistryNewest
  <2>2. ASSUME NEW b \in Accounts, tracked'[b] # 0
        PROVE  tracked'[b] = registered'[b] /\ run'[<<b, tracked'[b]>>] # "none"
    <3>1. CASE b = a
      BY <1>1, <1>9, <2>2, <3>1
    <3>2. CASE b # a
      <4>1. tracked[b] = registered[b] /\ run[<<b, tracked[b]>>] # "none" /\ tracked[b] \in Gens
        BY <1>9, <2>2, <3>2, BoundsNat, SMTT(40) DEF RegistryNewest, OwnerTypes, Gens
      <4>2. <<b, tracked[b]>> \in Sessions \ {s}
        BY <1>1, <3>2, <4>1, SessionParts
      <4> QED
        BY <1>9, <3>2, <4>1, <4>2
    <3> QED
      BY <3>1, <3>2
  <2>3. ASSUME NEW t \in Sessions, run'[t] # "none" PROVE Gen(t) <= gen'[Account(t)]
    <3>0. Account(t) \in Accounts /\ Gen(t) \in 1..MaxGen
      BY SessionParts DEF Gens
    <3>1. CASE t = s
      BY <1>1, <1>9, <3>1
    <3>2. CASE t # s
      <4>1. Gen(t) <= gen[Account(t)] /\ gen[Account(t)] \in Int /\ gen[a] \in Int
        BY <1>9, <2>3, <3>0, <3>2, BoundsNat, SMTT(40) DEF RegistryNewest, OwnerTypes
      <4> QED
        BY <1>9, <3>0, <4>1, BoundsNat
    <3> QED
      BY <3>1, <3>2
  <2>4. \A t \in callbacks' : run'[t] # "none" /\ ~Alive(t)'
    BY <1>9, <1>10 DEF RegistryNewest, Alive, OwnerTypes
  <2> QED
    BY <2>1, <2>2, <2>3, <2>4 DEF RegistryNewest
<1>12. AliveOwned'
  <2> SUFFICES ASSUME NEW t \in Sessions \ lost, Alive(t)'
               PROVE  Owned(t)'
    BY DEF AliveOwned
  <2>1. CASE t = s
    <3>1. run'[s] = "running" /\ tracked'[a] = gen[a] + 1
      BY <1>9, <1>10, <2>1 DEF Alive
    <3> QED
      BY <1>1, <1>9, <2>1, <3>1 DEF Owned
  <2>2. CASE t # s
    <3>1. Alive(t) /\ Owned(t)
      BY <1>9, <2>2 DEF Alive, AliveOwned
    <3>2. Account(t) \in Accounts /\ Gen(t) # 0
      BY SessionParts, BoundsNat DEF Gens
    <3>3. ASSUME NEW q \in Callers, on[q] = t, task[q] PROVE FALSE
      <4>1. q = p
        BY <1>3, <3>3, TeardownExclusive
      <4> QED
        BY <3>1, <3>3, <4>1
    <3>4. registered[Account(t)] = Gen(t) /\ tracked[Account(t)] = Gen(t) /\ Account(t) # a
      BY <3>1, <3>2, <3>3 DEF Owned
    <3> QED
      BY <1>9, <3>2, <3>4 DEF Owned
  <2> QED
    BY <2>1, <2>2
<1> QED
  BY <1>6, <1>7, <1>8, <1>11, <1>12
(* The run task of the registered session is taken out of the registry, by    *)
(* the coroutine that tears the session down.                                 *)
LEMMA BeginTeardownSteps ==
    ASSUME OwnerInv, NEW p \in Callers, NEW s \in Sessions, BeginTeardown(p, s),
           registered[Account(s)] = Gen(s),
           \/ p = "main" /\ pc["main"] = "sessions" /\ UNCHANGED registered
           \/ p = "listener" /\ pc["listener"] = "idle"
              /\ registered' = [registered EXCEPT ![Account(s)] = 0],
           inbox' \in Seq(Accounts), UNCHANGED <<gen, run, todo, callbacks, lost>>
    PROVE  OwnerInv'
<1> USE DEF OwnerInv
<1>1. Account(s) \in Accounts /\ Gen(s) \in 1..MaxGen /\ Gen(s) # 0 /\ s = <<Account(s), Gen(s)>>
  BY SessionParts, BoundsNat DEF Gens
<1>2. /\ pc' = [pc EXCEPT ![p] = "stopping"] /\ on' = [on EXCEPT ![p] = s]
      /\ task' = [task EXCEPT ![p] = tracked[Account(s)] # 0]
      /\ tracked' = [tracked EXCEPT ![Account(s)] = 0]
  BY DEF BeginTeardown, Goto
<1>3. \A q \in Callers : ~TearingDown(q) /\ ~task[q]
  BY TeardownExclusive DEF TearingDown, Callers, OneTeardown
<1>4. /\ pc'[p] = "stopping" /\ on'[p] = s
      /\ task'[p] = (tracked[Account(s)] # 0)
      /\ \A q \in Callers \ {p} : pc'[q] = pc[q] /\ on'[q] = on[q] /\ task'[q] = task[q]
      /\ tracked'[Account(s)] = 0
      /\ \A b \in Accounts \ {Account(s)} : tracked'[b] = tracked[b] /\ registered'[b] = registered[b]
      /\ registered'[Account(s)] \in {0, registered[Account(s)]}
  BY <1>1, <1>2 DEF OwnerTypes
<1>5. OwnerTypes'
  <2>1. pc' \in [Callers -> MainStates \cup ListenerStates \cup TeardownStates]
    BY <1>2 DEF OwnerTypes, TeardownStates
  <2>2. task' \in [Callers -> BOOLEAN] /\ on' \in [Callers -> Sessions \cup {NoSession}]
    BY <1>2 DEF OwnerTypes
  <2>3. tracked' \in [Accounts -> 0..MaxGen] /\ registered' \in [Accounts -> 0..MaxGen]
    BY <1>1, <1>2, BoundsNat, SMTT(40) DEF OwnerTypes
  <2> QED
    BY <2>1, <2>2, <2>3 DEF OwnerTypes
<1>6. OneTeardown'
  <2>1. /\ pc'["main"] \in MainStates \cup TeardownStates
        /\ pc'["listener"] \in ListenerStates \cup TeardownStates
    BY <1>4 DEF OneTeardown, Callers, TeardownStates
  <2>2. pc'["listener"] # "none" => pc'["main"] \in {"live", "cancelling"}
    BY <1>4 DEF OneTeardown, Callers
  <2>3. \A q \in Callers : (task'[q] => TearingDown(q)') /\ (pc'[q] = "joining" => task'[q])
    BY <1>3, <1>4 DEF TearingDown
  <2> QED
    BY <2>1, <2>2, <2>3 DEF OneTeardown
<1>7. RegistryNewest'
  BY <1>1, <1>4 DEF RegistryNewest, Alive
<1>8. TeardownNewest'
  <2>1. Gen(s) = gen[Account(s)]
    BY <1>1 DEF RegistryNewest
  <2> QED
    BY <1>3, <1>4, <2>1 DEF TeardownNewest, TearingDown
<1>9. StopCovers'
  <2>1. CASE p = "main"
    <3>1. registered' = registered
      BY <2>1
    <3> QED
      BY <1>4, <2>1, <3>1 DEF StopCovers, OwnerTypes
  <2>2. CASE p = "listener"
    BY <1>4, <2>2 DEF StopCovers, OneTeardown, Callers
  <2> QED
    BY <2>1, <2>2 DEF Callers
<1>10. AliveOwned'
  <2> SUFFICES ASSUME NEW t \in Sessions \ lost, Alive(t)
               PROVE  Owned(t)'
    BY DEF AliveOwned, Alive
  <2>1. registered[Account(t)] = Gen(t) /\ tracked[Account(t)] = Gen(t)
    BY <1>3 DEF AliveOwned, Owned
  <2>2. Account(t) \in Accounts /\ Gen(t) # 0 /\ t = <<Account(t), Gen(t)>>
    BY SessionParts, BoundsNat DEF Gens
  <2>3. CASE t = s
    BY <1>4, <2>1, <2>2, <2>3 DEF Owned
  <2>4. CASE t # s
    <3>1. Account(t) # Account(s)
      BY <1>1, <2>1, <2>2, <2>4
    <3> QED
      BY <1>4, <2>1, <2>2, <3>1 DEF Owned
  <2> QED
    BY <2>3, <2>4
<1> QED
  BY <1>5, <1>6, <1>7, <1>8, <1>9, <1>10

(* The teardown of s is over, or s had no node to tear down. *)
LEMMA AfterTeardownSteps ==
    ASSUME OwnerInv, NEW p \in Callers, NEW s \in Sessions, AfterTeardown(p, s),
           p = "main" => pc["main"] \in {"sessions", "stopping", "joining"},
           p = "listener" => pc["listener"] # "none",
           tracked[Account(s)] = 0,
           task[p] => on[p] \in Sessions /\ ~Alive(on[p]),
           inbox' \in Seq(Accounts), UNCHANGED <<callbacks, lost>>
    PROVE  OwnerInv'
<1> USE DEF OwnerInv
<1>0. Account(s) \in Accounts /\ Gen(s) # 0 /\ s = <<Account(s), Gen(s)>>
  BY SessionParts, BoundsNat DEF Gens
<1>1. CASE p = "listener"
  <2>1. /\ task' = [task EXCEPT ![p] = FALSE] /\ CanCreate(Account(s)) /\ UNCHANGED todo
        /\ StartSession(p, Account(s), [state EXCEPT ![s] = "stopped"])
    BY <1>1 DEF AfterTeardown
  <2> QED
    BY <1>0, <1>1, <2>1, StartSteps
<1>2. CASE p = "main"
  <2>1. /\ task' = [task EXCEPT !["main"] = FALSE] /\ todo' = todo \ {s}
        /\ pc' = [pc EXCEPT !["main"] = "sessions"]
        /\ on' = [on EXCEPT !["main"] = NoSession]
        /\ UNCHANGED <<gen, registered, run, tracked>>
    BY <1>2 DEF AfterTeardown, Goto
  <2>2. /\ pc'["main"] = "sessions" /\ ~task'["main"]
        /\ pc'["listener"] = "none" /\ pc["listener"] = "none"
        /\ task'["listener"] = task["listener"] /\ ~task["listener"]
    BY <1>2, <2>1 DEF OwnerTypes, OneTeardown, Callers, TearingDown
  <2>3. OwnerTypes'
    <3>1. pc' \in [Callers -> MainStates \cup ListenerStates \cup TeardownStates]
      BY <2>1 DEF OwnerTypes, MainStates
    <3>2. task' \in [Callers -> BOOLEAN] /\ on' \in [Callers -> Sessions \cup {NoSession}]
      BY <2>1 DEF OwnerTypes
    <3> QED
      BY <2>1, <3>1, <3>2 DEF OwnerTypes
  <2>4. OneTeardown' /\ TeardownNewest'
    BY <2>2 DEF OneTeardown, TeardownNewest, TearingDown, Callers, MainStates, ListenerStates
  <2>5. RegistryNewest'
    BY <2>1 DEF RegistryNewest, Alive
  <2>6. StopCovers'
    BY <1>0, <1>2, <2>1, <2>2, SessionParts DEF StopCovers
  <2>7. AliveOwned'
    <3> SUFFICES ASSUME NEW t \in Sessions \ lost, Alive(t)
                 PROVE  Owned(t)'
      BY <2>1 DEF AliveOwned, Alive
    <3>1. \A q \in Callers : ~(on[q] = t /\ task[q])
      BY <1>2, <2>2 DEF Callers
    <3> QED
      BY <2>1, <3>1 DEF AliveOwned, Owned
  <2> QED
    BY <2>3, <2>4, <2>5, <2>6, <2>7
<1> QED
  BY <1>1, <1>2 DEF Callers

(* The run task of s comes to its end. *)
LEMMA NodeDoneSteps ==
    ASSUME OwnerInv, NEW s \in Sessions, NEW how \in {"ended", "crashed", "cancelled"},
           NodeDone(s, how)
    PROVE  OwnerInv'
<1> USE DEF OwnerInv
<1>1. /\ Alive(s) /\ run' = [run EXCEPT ![s] = how] /\ callbacks' = callbacks \cup {s}
      /\ UNCHANGED <<gen, registered, tracked, pc, on, task, todo, inbox, lost>>
  BY DEF NodeDone, loopVars, mailVars
<1>2. /\ run' \in [Sessions -> RunStates] /\ run'[s] = how
      /\ \A t \in Sessions \ {s} : run'[t] = run[t]
  BY <1>1 DEF OwnerTypes, RunStates
<1>3. run[s] # "none" /\ ~Alive(s)' /\ run'[s] # "none" /\ \A t \in Sessions \ {s} : Alive(t)' = Alive(t)
  BY <1>1, <1>2 DEF Alive
<1>4. \A t \in Sessions : (run[t] # "none" <=> run'[t] # "none") /\ (Alive(t)' => Alive(t))
  BY <1>1, <1>2, <1>3
<1>5. OwnerTypes'
  BY <1>1, <1>2 DEF OwnerTypes
<1>6. OneTeardown' /\ TeardownNewest' /\ StopCovers'
  BY <1>1 DEF OneTeardown, TeardownNewest, StopCovers, TearingDown
<1>7. RegistryNewest'
  <2>1. \A a \in Accounts : tracked[a] # 0 => <<a, tracked[a]>> \in Sessions
    BY SessionParts, BoundsNat DEF OwnerTypes, Gens
  <2>2. \A t \in callbacks' : run'[t] # "none" /\ ~Alive(t)'
    BY <1>1, <1>3, <1>4 DEF RegistryNewest, OwnerTypes
  <2> QED
    BY <1>1, <1>4, <2>1, <2>2 DEF RegistryNewest
<1>8. AliveOwned'
  BY <1>1, <1>4 DEF AliveOwned, Owned
<1> QED
  BY <1>5, <1>6, <1>7, <1>8

LEMMA NodeStopsSteps ==
    ASSUME OwnerInv, NEW p \in Callers, NodeStops(p)
    PROVE  OwnerInv'
<1> USE DEF OwnerInv
<1>1. /\ TearingDown(p) /\ on[p] \in Sessions /\ run[on[p]] = "running"
      /\ run' = [run EXCEPT ![on[p]] = "halted"]
      /\ UNCHANGED <<gen, registered, tracked, callbacks, pc, on, task, todo, inbox, lost>>
  BY DEF NodeStops, loopVars, mailVars, TearingDown, TeardownNewest
<1>2. /\ run' \in [Sessions -> RunStates]
      /\ \A t \in Sessions : (run[t] # "none" <=> run'[t] # "none") /\ (Alive(t)' = Alive(t))
  BY <1>1 DEF OwnerTypes, RunStates, Alive
<1>3. OwnerTypes'
  BY <1>1, <1>2 DEF OwnerTypes
<1>4. OneTeardown' /\ TeardownNewest' /\ StopCovers'
  BY <1>1 DEF OneTeardown, TeardownNewest, StopCovers, TearingDown
<1>5. RegistryNewest'
  <2>1. \A a \in Accounts : tracked[a] # 0 => <<a, tracked[a]>> \in Sessions
    BY SessionParts, BoundsNat DEF OwnerTypes, Gens
  <2> QED
    BY <1>1, <1>2, <2>1 DEF RegistryNewest, OwnerTypes
<1>6. AliveOwned'
  BY <1>1, <1>2 DEF AliveOwned, Owned
<1> QED
  BY <1>3, <1>4, <1>5, <1>6

(* The done callback takes whatever task the account has out of the registry. *)
LEMMA OnNodeRunDoneSteps ==
    ASSUME OwnerInv, NEW s \in Sessions, OnNodeRunDone(s)
    PROVE  OwnerInv'
<1> USE DEF OwnerInv
<1>0. Account(s) \in Accounts /\ Gen(s) # 0 /\ s = <<Account(s), Gen(s)>>
  BY SessionParts, BoundsNat DEF Gens
<1>1. /\ s \in callbacks /\ callbacks' = callbacks \ {s}
      /\ tracked' = [tracked EXCEPT ![Account(s)] = 0]
      /\ lost' = IF tracked[Account(s)] \in {0, Gen(s)} THEN lost
                 ELSE lost \cup {<<Account(s), tracked[Account(s)]>>}
      /\ UNCHANGED <<gen, registered, run, pc, on, task, todo, inbox>>
  BY DEF OnNodeRunDone, loopVars, mailVars
<1>2. /\ tracked' \in [Accounts -> 0..MaxGen] /\ tracked'[Account(s)] = 0
      /\ \A b \in Accounts \ {Account(s)} : tracked'[b] = tracked[b]
  BY <1>0, <1>1, BoundsNat DEF OwnerTypes
<1>3. OwnerTypes'
  BY <1>1, <1>2 DEF OwnerTypes
<1>4. OneTeardown'
  BY <1>1 DEF OneTeardown, TearingDown
<1>5. RegistryNewest'
  BY <1>1, <1>2 DEF RegistryNewest, Alive
<1>6. TeardownNewest'
  BY <1>1, <1>2, SessionParts DEF TeardownNewest, TearingDown
<1>7. StopCovers'
  BY <1>1, <1>2 DEF StopCovers
<1>8. AliveOwned'
  <2> SUFFICES ASSUME NEW t \in Sessions \ lost', Alive(t)
               PROVE  Owned(t)'
    BY <1>1 DEF AliveOwned, Alive
  <2>1. Owned(t) /\ t # s
    BY <1>1 DEF AliveOwned, RegistryNewest
  <2>2. Account(t) \in Accounts /\ t = <<Account(t), Gen(t)>> /\ Gen(t) # 0
    BY SessionParts, BoundsNat DEF Gens
  <2>3. CASE registered[Account(t)] = Gen(t) /\ tracked[Account(t)] = Gen(t)
    <3>1. Account(t) # Account(s)
      BY <1>0, <1>1, <2>1, <2>2, <2>3
    <3> QED
      BY <1>1, <1>2, <2>2, <2>3, <3>1 DEF Owned
  <2>4. CASE \E p \in Callers : on[p] = t /\ task[p]
    BY <1>1, <2>4 DEF Owned
  <2> QED
    BY <2>1, <2>3, <2>4 DEF Owned
<1> QED
  BY <1>3, <1>4, <1>5, <1>6, <1>7, <1>8
(* A coroutine moves on and the registry stays as it is. *)
LEMMA RegistryUntouched ==
    ASSUME OwnerInv, UNCHANGED <<gen, registered, run, tracked, callbacks>>
    PROVE  RegistryNewest'
BY DEF OwnerInv, RegistryNewest, Alive

(* A coroutine that holds no run task goes from a place outside a teardown to *)
(* another one.                                                               *)
LEMMA MoveSteps ==
    ASSUME OwnerInv, UNCHANGED <<gen, registered, run, tracked, callbacks, task, lost>>,
           inbox' \in Seq(Accounts), todo' \subseteq Sessions,
           on' \in [Callers -> Sessions \cup {NoSession}],
           pc' \in [Callers -> MainStates \cup ListenerStates \cup TeardownStates],
           \A p \in Callers : \/ pc'[p] = pc[p] /\ on'[p] = on[p]
                              \/ ~TearingDown(p) /\ ~TearingDown(p)',
           /\ pc'["main"] \in MainStates \cup TeardownStates
           /\ pc'["listener"] \in ListenerStates \cup TeardownStates
           /\ pc'["listener"] # "none" => pc'["main"] \in {"live", "cancelling"},
           StopCovers'
    PROVE  OwnerInv'
<1> USE DEF OwnerInv
<1>1. OwnerTypes'
  BY DEF OwnerTypes
<1>2. \A p \in Callers : (TearingDown(p)' <=> TearingDown(p))
                         /\ (TearingDown(p) => pc'[p] = pc[p] /\ on'[p] = on[p])
  BY DEF TearingDown
<1>3. OneTeardown'
  BY <1>2 DEF OneTeardown, TearingDown
<1>4. TeardownNewest'
  BY <1>2 DEF TeardownNewest
<1>5. AliveOwned'
  <2> SUFFICES ASSUME NEW t \in Sessions \ lost, Alive(t)
               PROVE  Owned(t)'
    BY DEF AliveOwned, Alive
  <2>1. \A p \in Callers : on[p] = t /\ task[p] => on'[p] = t /\ task'[p]
    BY <1>2 DEF OneTeardown
  <2> QED
    BY <2>1 DEF AliveOwned, Owned
<1> QED
  BY <1>1, <1>3, <1>4, <1>5, RegistryUntouched

LEMMA StartedSteps ==
    ASSUME OwnerInv, Started
    PROVE  OwnerInv'
<1> USE DEF OwnerInv
<1>1. /\ pc["main"] = "starting" /\ pc["listener"] = "none"
      /\ pc' = [pc EXCEPT !["main"] = "live", !["listener"] = "idle"]
      /\ UNCHANGED <<gen, registered, run, tracked, callbacks, on, task, todo, inbox, lost>>
  BY DEF Started, sessionVars, mailVars, OneTeardown
<1>2. /\ pc'["main"] = "live" /\ pc'["listener"] = "idle"
      /\ pc' \in [Callers -> MainStates \cup ListenerStates \cup TeardownStates]
  BY <1>1 DEF OwnerTypes, MainStates, ListenerStates, Callers
<1>3. StopCovers'
  BY <1>2 DEF StopCovers
<1>4. \A p \in Callers : ~TearingDown(p) /\ ~TearingDown(p)'
  BY <1>1, <1>2 DEF TearingDown, Callers
<1> QED
  BY <1>1, <1>2, <1>3, <1>4, MoveSteps DEF OwnerTypes, MainStates, ListenerStates

LEMMA IsolateInlineSteps ==
    ASSUME OwnerInv, NEW p \in Callers, IsolateInline(p)
    PROVE  OwnerInv'
<1> USE DEF OwnerInv
<1>1. /\ pc[p] = "isolating" /\ pc' = [pc EXCEPT ![p] = Home(p)]
      /\ on' = [on EXCEPT ![p] = NoSession]
      /\ UNCHANGED <<gen, registered, run, tracked, callbacks, task, todo, inbox, lost>>
  BY DEF IsolateInline, Goto, sessionVars, mailVars
<1>2. /\ pc'[p] = Home(p) /\ \A q \in Callers \ {p} : pc'[q] = pc[q] /\ on'[q] = on[q]
      /\ pc' \in [Callers -> MainStates \cup ListenerStates \cup TeardownStates]
      /\ on' \in [Callers -> Sessions \cup {NoSession}]
  BY <1>1 DEF OwnerTypes, Home, MainStates, ListenerStates
<1>3. \A q \in Callers : \/ pc'[q] = pc[q] /\ on'[q] = on[q]
                         \/ ~TearingDown(q) /\ ~TearingDown(q)'
  BY <1>1, <1>2 DEF TearingDown, Home
<1>4. /\ pc'["main"] \in MainStates \cup TeardownStates
      /\ pc'["listener"] \in ListenerStates \cup TeardownStates
      /\ pc'["listener"] # "none" => pc'["main"] \in {"live", "cancelling"}
  <2>1. CASE p = "main"
    BY <1>1, <1>2, <2>1 DEF OneTeardown, Callers, Home, MainStates
  <2>2. CASE p = "listener"
    BY <1>1, <1>2, <2>2 DEF OneTeardown, Callers, Home, ListenerStates
  <2> QED
    BY <2>1, <2>2 DEF Callers
<1>5. StopCovers'
  <2>1. pc'["main"] = pc["main"] \/ pc'["main"] = "starting"
    BY <1>2 DEF Callers, Home
  <2> QED
    BY <1>1, <2>1 DEF StopCovers
<1> QED
  BY <1>1, <1>2, <1>3, <1>4, <1>5, MoveSteps DEF OwnerTypes

(* stop() after the listener has ended. *)
LEMMA StopSteps ==
    ASSUME OwnerInv, ListenerGone \/ AllStopped \/ Drained
    PROVE  OwnerInv'
<1> USE DEF OwnerInv
<1>0. /\ UNCHANGED <<gen, registered, run, tracked, callbacks, on, task, inbox, lost>>
      /\ todo' \subseteq Sessions
  <2>1. CASE ListenerGone
    <3>1. \A a \in Accounts : registered[a] # 0 => <<a, registered[a]>> \in Sessions
      BY SessionParts, BoundsNat DEF OwnerTypes, Gens
    <3> QED
      BY <2>1, <3>1 DEF ListenerGone, sessionVars, mailVars
  <2>2. CASE AllStopped \/ Drained
    BY <2>2 DEF AllStopped, Drained, sessionVars, mailVars
  <2> QED
    BY <2>1, <2>2
<1>1. PICK where \in {"sessions", "drain", "stopped"} : pc' = [pc EXCEPT !["main"] = where]
  BY DEF ListenerGone, AllStopped, Drained, Goto
<1>2. /\ pc'["main"] = where /\ pc'["listener"] = pc["listener"]
      /\ pc' \in [Callers -> MainStates \cup ListenerStates \cup TeardownStates]
  BY <1>1 DEF OwnerTypes, MainStates, Callers
<1>3. /\ pc["main"] \in {"cancelling", "sessions", "drain"} /\ pc["listener"] = "none"
  BY DEF ListenerGone, AllStopped, Drained, OneTeardown
<1>4. \A q \in Callers : ~TearingDown(q) /\ ~TearingDown(q)'
  BY <1>2, <1>3 DEF TearingDown, Callers
<1>5. StopCovers'
  <2>1. CASE ListenerGone
    <3>1. /\ pc'["main"] = "sessions"
          /\ todo' = {<<a, registered[a]>> : a \in {b \in Accounts : registered[b] # 0}}
      BY <1>2, <2>1 DEF ListenerGone, Goto, OwnerTypes, Callers
    <3>2. \A s \in todo' : registered[Account(s)] = Gen(s)
      BY <3>1 DEF Account, Gen
    <3>3. \A a \in Accounts : tracked[a] # 0 => <<a, tracked[a]>> \in todo'
      BY <3>1 DEF RegistryNewest
    <3> QED
      BY <1>0, <3>1, <3>2, <3>3 DEF StopCovers
  <2>2. CASE AllStopped
    <3>1. /\ pc["main"] = "sessions" /\ todo = {} /\ pc'["main"] = "drain"
      BY <1>2, <2>2 DEF AllStopped, Goto, OwnerTypes, Callers
    <3>2. \A a \in Accounts : tracked[a] = 0
      BY <3>1 DEF StopCovers
    <3> QED
      BY <1>0, <3>1, <3>2 DEF StopCovers
  <2>3. CASE Drained
    <3>1. pc["main"] = "drain" /\ pc'["main"] = "stopped"
      BY <1>2, <2>3 DEF Drained, Goto, OwnerTypes, Callers
    <3> QED
      BY <1>0, <3>1 DEF StopCovers
  <2> QED
    BY <2>1, <2>2, <2>3
<1> QED
  BY <1>0, <1>2, <1>3, <1>4, <1>5, MoveSteps DEF OwnerTypes, MainStates, ListenerStates

(* A reload that the cancellation interrupts inside stop_async loses its node.*)
LEMMA BeginStopSteps ==
    ASSUME OwnerInv, BeginStop
    PROVE  OwnerInv'
<1> USE DEF OwnerInv
<1>1. /\ pc["main"] = "live"
      /\ pc' = [pc EXCEPT !["main"] = "cancelling",
                          !["listener"] = IF @ = "joining" THEN @ ELSE "none"]
      /\ lost' = IF pc["listener"] = "stopping" THEN lost \cup {on["listener"]} ELSE lost
      /\ on' = IF pc["listener"] = "joining" THEN on ELSE [on EXCEPT !["listener"] = NoSession]
      /\ task' = IF pc["listener"] = "joining" THEN task ELSE [task EXCEPT !["listener"] = FALSE]
      /\ UNCHANGED <<gen, registered, run, tracked, callbacks, todo, inbox>>
  BY DEF BeginStop, mailVars
<1>2. /\ pc'["main"] = "cancelling"
      /\ pc'["listener"] = IF pc["listener"] = "joining" THEN "joining" ELSE "none"
      /\ on'["main"] = on["main"] /\ task'["main"] = task["main"] /\ ~task["main"]
      /\ pc["listener"] = "joining" => on'["listener"] = on["listener"]
                                       /\ task'["listener"] = task["listener"]
      /\ pc["listener"] # "joining" => ~task'["listener"]
  BY <1>1 DEF OwnerTypes, OneTeardown, TearingDown, Callers
<1>3. OwnerTypes'
  <2>1. pc' \in [Callers -> MainStates \cup ListenerStates \cup TeardownStates]
    BY <1>1 DEF OwnerTypes, MainStates, ListenerStates, TeardownStates
  <2>2. task' \in [Callers -> BOOLEAN] /\ on' \in [Callers -> Sessions \cup {NoSession}]
    BY <1>1 DEF OwnerTypes
  <2> QED
    BY <1>1, <2>1, <2>2 DEF OwnerTypes
<1>4. OneTeardown'
  BY <1>2 DEF OneTeardown, TearingDown, Callers, MainStates, ListenerStates, TeardownStates
<1>5. TeardownNewest'
  BY <1>1, <1>2 DEF TeardownNewest, TearingDown, Callers
<1>6. StopCovers'
  BY <1>2 DEF StopCovers
<1>7. AliveOwned'
  <2> SUFFICES ASSUME NEW t \in Sessions \ lost', Alive(t)
               PROVE  Owned(t)'
    BY <1>1 DEF AliveOwned, Alive
  <2>1. t \notin lost /\ Owned(t)
    BY <1>1 DEF AliveOwned
  <2>2. CASE registered[Account(t)] = Gen(t) /\ tracked[Account(t)] = Gen(t)
    BY <1>1, <2>2 DEF Owned
  <2>3. ASSUME NEW p \in Callers, on[p] = t, task[p] PROVE Owned(t)'
    <3>1. p = "listener" /\ pc["listener"] \in {"stopping", "joining"}
      BY <1>2, <2>3 DEF OneTeardown, TearingDown, Callers
    <3>2. pc["listener"] = "joining"
      BY <1>1, <2>3, <3>1
    <3> QED
      BY <1>2, <2>3, <3>1, <3>2 DEF Owned
  <2> QED
    BY <2>1, <2>2, <2>3 DEF Owned
<1> QED
  BY <1>1, <1>3, <1>4, <1>5, <1>6, <1>7, RegistryUntouched

(* The end of wait_for(stop_async), and of the wait for the cancelled task. *)
LEMMA TeardownSteps ==
    ASSUME OwnerInv, NEW p \in Callers,
           (\E how \in RunStates : StopReturned(p, how)) \/ Joined(p)
    PROVE  OwnerInv'
<1> USE DEF OwnerInv
<1>1. /\ TearingDown(p) /\ on[p] \in Sessions /\ tracked[Account(on[p])] = 0
      /\ UNCHANGED <<callbacks, lost, inbox>>
  BY DEF StopReturned, Joined, TearingDown, TeardownNewest, mailVars
<1>2. CASE AfterTeardown(p, on[p]) /\ (task[p] => ~Alive(on[p]))
  <2>1. p = "main" => pc["main"] \in {"sessions", "stopping", "joining"}
    BY <1>1 DEF TearingDown
  <2>2. p = "listener" => pc["listener"] # "none"
    BY <1>1 DEF TearingDown
  <2>3. inbox' \in Seq(Accounts)
    BY <1>1 DEF OwnerTypes
  <2> QED
    BY <1>1, <1>2, <2>1, <2>2, <2>3, AfterTeardownSteps
<1>3. CASE /\ pc[p] = "stopping" /\ task[p] /\ pc' = [pc EXCEPT ![p] = "joining"]
           /\ UNCHANGED <<gen, registered, run, tracked, on, task, todo>>
  <2>1. pc'[p] = "joining" /\ \A q \in Callers \ {p} : pc'[q] = pc[q]
    BY <1>3 DEF OwnerTypes
  <2>2. OwnerTypes'
    BY <1>1, <1>3 DEF OwnerTypes, TeardownStates
  <2>3. OneTeardown'
    BY <1>3, <2>1 DEF OneTeardown, TearingDown, Callers, TeardownStates
  <2>4. TeardownNewest'
    BY <1>1, <1>3, <2>1 DEF TeardownNewest, TearingDown
  <2>5. StopCovers'
    <3>1. \/ pc'["main"] = pc["main"]
          \/ pc["main"] = "stopping" /\ pc'["main"] = "joining"
      BY <1>3, <2>1 DEF Callers
    <3> QED
      BY <1>3, <3>1 DEF StopCovers
  <2>6. AliveOwned'
    BY <1>1, <1>3 DEF AliveOwned, Alive, Owned
  <2> QED
    BY <1>1, <1>3, <2>2, <2>3, <2>4, <2>5, <2>6, RegistryUntouched
<1> QED
  BY <1>2, <1>3 DEF StopReturned, Joined, Goto

(* Two ways into a teardown: a phase change, and the list of stop(). *)
LEMMA EnterSteps ==
    ASSUME OwnerInv, Reload \/ \E s \in Sessions : StopNext(s)
    PROVE  OwnerInv'
<1> USE DEF OwnerInv
<1>1. ASSUME NEW s \in Sessions, registered[Account(s)] = Gen(s), run[s] = "none"
      PROVE  tracked[Account(s)] = 0
  BY <1>1, SessionParts DEF RegistryNewest
<1>2. CASE Reload
  <2>1. PICK a \in Accounts : a = Head(inbox)
    BY <1>2, HeadTailProperties DEF Reload, OwnerTypes
  <2>2. PICK s \in Sessions : s = <<a, registered[a]>> /\ Account(s) = a /\ registered[a] = Gen(s)
    <3>1. registered[a] \in Gens
      BY <1>2, <2>1, BoundsNat, SMTT(40) DEF Reload, OwnerTypes, Gens
    <3> QED
      BY <3>1, SessionParts
  <2>3. inbox' \in Seq(Accounts)
    BY <1>2, HeadTailProperties DEF Reload, OwnerTypes
  <2>4. pc["listener"] = "idle" /\ UNCHANGED <<callbacks, lost>> /\ ~task["listener"]
    BY <1>2 DEF Reload, OneTeardown, TearingDown, Callers
  <2>5. CASE HasNode(s)
    <3>1. /\ BeginTeardown("listener", s) /\ registered' = [registered EXCEPT ![Account(s)] = 0]
          /\ UNCHANGED <<gen, state, run, todo>>
      BY <1>2, <2>1, <2>2, <2>5 DEF Reload
    <3> QED
      BY <2>2, <2>3, <2>4, <3>1, BeginTeardownSteps DEF Callers
  <2>6. CASE ~HasNode(s)
    <3>1. AfterTeardown("listener", s)
      BY <1>2, <2>1, <2>2, <2>6 DEF Reload
    <3>2. tracked[Account(s)] = 0
      BY <1>1, <2>2, <2>6 DEF HasNode
    <3> QED
      BY <2>3, <2>4, <3>1, <3>2, AfterTeardownSteps DEF Callers
  <2> QED
    BY <2>5, <2>6
<1>3. ASSUME NEW s \in Sessions, StopNext(s) PROVE OwnerInv'
  <2>1. /\ pc["main"] = "sessions" /\ s \in todo /\ registered[Account(s)] = Gen(s)
        /\ UNCHANGED <<callbacks, lost>> /\ inbox' \in Seq(Accounts) /\ ~task["main"]
    BY <1>3 DEF StopNext, StopCovers, mailVars, OwnerTypes, OneTeardown, TearingDown, Callers
  <2>2. CASE HasNode(s)
    <3>1. BeginTeardown("main", s) /\ UNCHANGED <<gen, registered, state, run, todo>>
      BY <1>3, <2>2 DEF StopNext
    <3> QED
      BY <2>1, <3>1, BeginTeardownSteps DEF Callers
  <2>3. CASE ~HasNode(s)
    <3>1. AfterTeardown("main", s)
      BY <1>3, <2>3 DEF StopNext
    <3>2. tracked[Account(s)] = 0
      BY <1>1, <2>1, <2>3 DEF HasNode
    <3> QED
      BY <2>1, <3>1, <3>2, AfterTeardownSteps DEF Callers
  <2> QED
    BY <2>2, <2>3
<1> QED
  BY <1>2, <1>3

LEMMA OwnerNext == OwnerInv /\ [Next]_vars => OwnerInv'
<1> SUFFICES ASSUME OwnerInv, [Next]_vars PROVE OwnerInv'
  OBVIOUS
<1>0. OwnerTypes /\ OneTeardown /\ RegistryNewest /\ TeardownNewest
  BY DEF OwnerInv
<1>1. ASSUME NEW a \in Accounts, StartAccount(a) PROVE OwnerInv'
  <2>1. /\ pc["main"] = "starting" /\ CanCreate(a) /\ StartSession("main", a, state)
        /\ registered[a] = 0 /\ UNCHANGED <<callbacks, task, todo, inbox, lost>>
    BY <1>1 DEF StartAccount
  <2>2. tracked[a] = 0 /\ ~task["main"]
    BY <1>0, <2>1 DEF RegistryNewest, OneTeardown, TearingDown, Callers
  <2>3. task' = [task EXCEPT !["main"] = FALSE]
    BY <1>0, <2>1, <2>2 DEF OwnerTypes, Callers
  <2> QED
    BY <1>0, <2>1, <2>2, <2>3, StartSteps DEF OwnerTypes, Callers
<1>2. ASSUME NEW a \in Accounts, Publish(a) PROVE OwnerInv'
  <2>1. inbox' \in Seq(Accounts)
    BY <1>0, <1>2, AppendProperties DEF Publish, OwnerTypes
  <2> QED
    BY <1>2, <2>1, OwnerIdle DEF Publish, sessionVars, loopVars
<1>3. ASSUME NEW s \in Sessions, NodeEnds(s) \/ NodeCrashes(s) PROVE OwnerInv'
  BY <1>3, NodeDoneSteps DEF NodeEnds, NodeCrashes
<1>4. ASSUME NEW p \in Callers, Cancelled(p) PROVE OwnerInv'
  <2>1. on[p] \in Sessions
    BY <1>0, <1>4 DEF Cancelled, TeardownNewest, TearingDown
  <2> QED
    BY <1>4, <2>1, NodeDoneSteps DEF Cancelled
<1>5. ASSUME NEW p \in Callers, StopOk(p) \/ StopTimeout(p) \/ Joined(p) PROVE OwnerInv'
  <2>1. (\E how \in RunStates : StopReturned(p, how)) \/ Joined(p)
    BY <1>5 DEF StopOk, StopTimeout, RunStates
  <2> QED
    BY <2>1, TeardownSteps
<1>6. ASSUME NEW n \in Sessions, Isolate(n) PROVE OwnerInv'
  <2>1. UNCHANGED <<gen, registered, run, callbacks, tracked, pc, on, task, todo, inbox, lost>>
    BY <1>6 DEF Isolate, MarkFailed, IsolatePause, sessionVars, loopVars, mailVars
  <2> QED
    BY <1>0, <2>1, OwnerIdle DEF OwnerTypes
<1>7. CASE Halt \/ UNCHANGED vars
  <2>1. UNCHANGED <<gen, registered, run, callbacks, tracked, pc, on, task, todo, inbox, lost>>
    BY <1>7 DEF Halt, vars
  <2> QED
    BY <1>0, <2>1, OwnerIdle DEF OwnerTypes
<1>8. ASSUME NEW p \in Callers, NodeStops(p) \/ IsolateInline(p) PROVE OwnerInv'
  BY <1>8, NodeStopsSteps, IsolateInlineSteps
<1>9. CASE Start
  BY <1>1, <1>9, StartedSteps DEF Start
<1>10. CASE Stop
  BY <1>10, StopSteps, EnterSteps DEF Stop
<1>11. CASE Reload \/ BeginStop
  BY <1>11, EnterSteps, BeginStopSteps
<1> QED
  BY <1>2, <1>3, <1>4, <1>5, <1>6, <1>7, <1>8, <1>9, <1>10, <1>11, OnNodeRunDoneSteps
  DEF Next, Steps, Teardown

(* For any accounts and any number of reloads, crashes and phase changes:     *)
(* every trading node whose task is alive has someone who will cancel it, an  *)
(* account never trades through two nodes, and no node trades once stop() has *)
(* returned; the exceptions are exactly the nodes in lost, which the done     *)
(* callback of a predecessor or the cancellation of a reload has disowned.    *)
THEOREM NodesAreOwned == Spec => []NodesOwned
BY OwnerInit, OwnerNext, OwnerInvOwns, PTL DEF Spec
=============================================================================
