----------------------------- MODULE MCAccounts -----------------------------
(* The commands and the loop of one account, with two commands in flight, the *)
(* fewest that can overtake each other; and crash recovery of two accounts,   *)
(* one with positions of every kind the reconciler tells apart.  They share   *)
(* no state, so a behaviour moves one of them.                                *)
EXTENDS AccountLifecycle, CrashRecovery

VARIABLE focus

TwoClients == {"c1", "c2"}

Position(sym, side, vol) == [sym |-> sym, side |-> side, vol |-> vol]
MCBooks ==
    [a1 |-> {<<>>, <<Position("x", "buy", 1000)>>,
             <<Position("x", "buy", 1001), Position("y", "buy", 50)>>,
             <<Position("x", "buy", 1000), Position("x", "buy", 50)>>,
             <<Position("x", "buy", 1010), Position("x", "sell", 50)>>},
     a2 |-> {<<>>}]

MCInit ==
    /\ Init /\ RecInit
    /\ focus \in {"lifecycle", "recovery"}

MCNext ==
    /\ UNCHANGED focus
    /\ \/ focus = "lifecycle" /\ Next /\ UNCHANGED recVars
       \/ focus = "recovery" /\ RecNext /\ UNCHANGED vars

MCSpec == MCInit /\ [][MCNext]_<<vars, recVars, focus>> /\ Fairness /\ RecFairness
=============================================================================
