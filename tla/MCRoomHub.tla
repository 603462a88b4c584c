------------------------------ MODULE MCRoomHub ------------------------------
(***************************************************************************)
(* Instances of RoomHub for TLC.  Ann has connections a1 and a2, bob b1.   *)
(* The page of room "page" and the UUID room "uuid", which is made for a   *)
(* lobby call, have the same code.                                         *)
(***************************************************************************)
EXTENDS RoomHub, TLC

CONSTANTS ann, bob, a1, a2, b1, page, uuid, abc

MCClients == {ann, bob}
MCAnnTwice == {a1, a2, b1}
MCIdOf == [k \in Conns |-> IF k = b1 THEN bob ELSE ann]
MCNameOf == [c \in Clients |-> c]

MCPageCall == {page, uuid}
MCCalls == RoomIds \cap {uuid}
MCCodeOf == [r \in RoomIds |-> abc]

-----------------------------------------------------------------------------
(* Two beginnings, both within reach of Init.  In the first ann's second   *)
(* connection has come and gone unused.  In the second all rooms but one   *)
(* have come and gone, ann is about to be added to the last one on her     *)
(* first connection, and she may come on her second one too.               *)

MCFresh ==
    /\ rooms = [r \in RoomIds |-> 0]
    /\ byCode = [c \in Codes |-> None]
    /\ made = 0
    /\ slots = [o \in Objs |-> [i \in Slots |-> None]]
    /\ clients = [c \in Clients |-> None]
    /\ clientRooms = [c \in Clients |-> None]
    /\ unregistered = {a1, b1}
    /\ conn = (a2 :> Start("exit")) @@ [k \in Conns |-> Start("off")]
    /\ joins = [k \in Conns |-> 0]

MCAnnJoins ==
    /\ rooms = [r \in RoomIds |-> IF r = page THEN MaxObjs ELSE 0]
    /\ byCode = [c \in Codes |-> page]
    /\ made = MaxObjs
    /\ slots = [o \in Objs |-> [i \in Slots |-> None]]
    /\ clients = (ann :> a1 @@ bob :> None)
    /\ clientRooms = [c \in Clients |-> None]
    /\ unregistered = {a2, b1}
    /\ conn = (a1 :> [pc |-> "join_add", room |-> page, obj |-> MaxObjs])
              @@ [k \in Conns |-> Start("off")]
    /\ joins = (a1 :> 1) @@ [k \in Conns |-> 0]

MCInit ==
    /\ MCFresh \/ MCAnnJoins
    /\ grace = [k \in Conns |-> Start("off")]
    /\ issued = {}
    /\ told = {}

MCSpec == MCInit /\ [][Next]_vars /\ Fairness
=============================================================================
