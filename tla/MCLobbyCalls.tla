---------------------------- MODULE MCLobbyCalls ----------------------------
(***************************************************************************)
(* Instances of LobbyCalls for TLC.  Ann, who calls, has connections a1    *)
(* and a2; bob, who answers, has b1.                                       *)
(***************************************************************************)
EXTENDS LobbyCalls, TLC

CONSTANTS ann, bob, a1, a2, b1

MCClients == {ann, bob}
MCOneEach == {a1, b1}
MCAnnTwice == {a1, a2, b1}
MCIdOf == [k \in Conns |-> IF k = b1 THEN bob ELSE ann]
MCNameOf == [c \in Clients |-> c]
MCMaxCalls == [c \in Clients |-> IF c = ann THEN 1 ELSE 0]

-----------------------------------------------------------------------------
(* Two beginnings, both within reach of Init.  In the first ann's second   *)
(* connection has come and gone unused.  In the second both have joined,   *)
(* ann has called bob, her first connection is lost, its handler done and  *)
(* its grace running, and she may come back on a2.                         *)

MCFresh ==
    /\ status = [c \in Clients |-> "none"]
    /\ disc = [c \in Clients |-> None]
    /\ lobbyClients = {}
    /\ clients = [c \in Clients |-> None]
    /\ unregistered = Conns \ {a2}
    /\ pending = [c \in Clients |-> None]
    /\ thread = (a2 :> Start("exit")) @@ [t \in Threads |-> Start("off")]
    /\ joins = [k \in Conns |-> 0]
    /\ calls = [c \in Clients |-> 0]
    /\ heard = [c \in Clients |-> {}]

MCCallLost ==
    /\ status = (ann :> "in_call" @@ bob :> "available")
    /\ disc = (ann :> a1 @@ bob :> None)
    /\ lobbyClients = Clients
    /\ clients = (ann :> None @@ bob :> b1)
    /\ unregistered = {a2}
    /\ pending = (ann :> bob @@ bob :> None)
    /\ thread = (a1 :> Start("exit") @@ b1 :> Start("idle")
                 @@ <<"grace", a1>> :> Start("grace_sleep")
                 @@ <<"call", ann, 1>> :>
                        [Start("call_sleep") EXCEPT !.caller = ann, !.target = bob, !.ret = "exit"])
                @@ [t \in Threads |-> Start("off")]
    /\ joins = (a1 :> 1 @@ a2 :> 0 @@ b1 :> MaxJoins)
    /\ calls = MaxCalls
    /\ heard = (ann :> {} @@ bob :> {ann})

MCInit ==
    /\ MCFresh \/ MCCallLost
    /\ hubHung = FALSE
    /\ starts = [c \in Clients |-> 0]

MCSpec == MCInit /\ [][Next]_vars /\ Fairness
=============================================================================
