---------------------------- MODULE MCCallClient ----------------------------
(***************************************************************************)
(* An instance of CallClient for TLC: ann and bob both call, cat is in the *)
(* lobby to be called.                                                     *)
(***************************************************************************)
EXTENDS CallClient

CONSTANTS ann, bob, cat

MCClients == {ann, bob, cat}

Budget(n, calling, losing) == [clicks |-> n, calling |-> calling, losing |-> losing]
MCBudgets ==
    {Budget(3, {<<ann, cat>>, <<bob, cat>>, <<bob, ann>>}, {}),
     Budget(3, {<<ann, cat>>}, {ann}), Budget(3, {<<ann, cat>>}, {cat}),
     Budget(4, {<<ann, cat>>, <<ann, bob>>}, {})}
=============================================================================
