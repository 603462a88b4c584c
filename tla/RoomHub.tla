------------------------------ MODULE RoomHub ------------------------------
(***************************************************************************)
(* Rooms: joining, losing the connection, the grace period and the removal *)
(* of rooms, as server/internal/signaling/hub.go runs them over            *)
(* server/internal/room (room.go, manager.go).                             *)
(*                                                                         *)
(* Three kinds of mutex are involved, the hub's, the room manager's and    *)
(* one per room, and no handler holds two of them: one action below is one *)
(* critical section.  A room is an object; handlers keep a pointer to it   *)
(* while the manager may already have dropped it or made another one for   *)
(* the same room ID.                                                       *)
(***************************************************************************)
EXTENDS Naturals, FiniteSets

CONSTANTS
    Clients,    \* client IDs
    Conns,      \* WebSocket connections; each is opened and closed once
    IdOf,       \* the client ID a connection carries
    NameOf,     \* the display name a client joins with
    RoomIds,    \* room IDs: the page's URL, or a UUID made for a lobby call
    CodeOf,     \* the first six characters of a room ID
    CallRooms,  \* the room IDs made for lobby calls
    MaxObjs,    \* bound: room objects ever made
    MaxJoins,   \* bound: join messages per connection
    None

Codes == {CodeOf[r] : r \in RoomIds}
Objs == 1..MaxObjs
Slots == 1..2

ASSUME ConstantsAssumption ==
    /\ IdOf \in [Conns -> Clients]
    /\ CodeOf \in [RoomIds -> Codes]
    /\ CallRooms \subseteq RoomIds
    /\ MaxObjs \in Nat /\ MaxJoins \in Nat
    /\ None \notin Conns \cup RoomIds

\* A free slot holds no participant.
ASSUME NoneAssumption == None \notin [by : Conns, lost : Conns \cup {None}]

VARIABLES
    rooms,        \* Manager.rooms: room ID -> object, 0 when absent
    byCode,       \* Manager.byCode: code -> room ID
    made,         \* room objects made so far
    slots,        \* Room.Participants of every object
    clients,      \* Hub.clients: client ID -> connection
    clientRooms,  \* Hub.clientRooms: client ID -> room ID
    unregistered, \* connections whose upgrade handler is still to call Register
    conn,         \* per connection, its reader: program counter, room, object
    grace,        \* per connection, the grace goroutine of its loss
    joins,        \* join messages per connection
    issued,       \* room IDs already made for calls
    told          \* <<k, l>>: k was told to send an offer to l; k is None if the
                  \* hub had another connection of that client, or none

managerVars == <<rooms, byCode, made>>
hubVars == <<clients, clientRooms>>
vars == <<rooms, byCode, made, slots, clients, clientRooms, unregistered, conn,
          grace, joins, issued, told>>

-----------------------------------------------------------------------------
\* A participant: the connection it joined with and the one it lost, if any
\* (Disconnected and DisconnectAt).
Participant == [by : Conns, lost : Conns \cup {None}]
ID(p) == IdOf[p.by]
Name(p) == NameOf[ID(p)]

ConnPC == {"off", "idle", "exit", "closed", "join_add", "join_map", "join_greet",
           "join_tell", "bye_lookup", "bye_mark"}
GracePC == {"off", "sleep", "clean", "check", "delete", "exit"}

Start(pc) == [pc |-> pc, room |-> None, obj |-> 0]
Goto(k, pc) ==
    conn' = [conn EXCEPT ![k] = IF pc \in {"idle", "exit", "closed"} THEN Start(pc)
                                ELSE [@ EXCEPT !.pc = pc]]
GraceGoto(k, pc) ==
    grace' = [grace EXCEPT ![k] = IF pc = "exit" THEN Start(pc) ELSE [@ EXCEPT !.pc = pc]]

Least(S) == CHOOSE i \in S : \A j \in S : i <= j
Taken(o) == {i \in Slots : slots[o][i] # None}
IsEmpty(o) == Taken(o) = {}

\* Room.Peer: the first participant with another client ID.
Peers(o, id) == {i \in Taken(o) : ID(slots[o][i]) # id}
Peer(o, id) == slots[o][Least(Peers(o, id))]

\* Manager.GetOrCreate, for a handler that keeps the object.
GetOrCreate(r) ==
    IF rooms[r] # 0
    THEN UNCHANGED managerVars
    ELSE /\ made < MaxObjs
         /\ made' = made + 1
         /\ rooms' = [rooms EXCEPT ![r] = made + 1]
         /\ byCode' = [byCode EXCEPT ![CodeOf[r]] = r]

\* A bug for the checks to find: the code outlives the room.
ForgetKeepCode(R) ==
    /\ rooms' = [r \in RoomIds |-> IF r \in R THEN 0 ELSE rooms[r]]
    /\ UNCHANGED byCode

\* Manager.Delete and cleanupEmpty drop the code of a room with the room.
Forget(R) ==
    LET present == {r \in R : rooms[r] # 0}
    IN  /\ rooms' = [r \in RoomIds |-> IF r \in R THEN 0 ELSE rooms[r]]
        /\ byCode' = [c \in Codes |-> IF \E r \in present : CodeOf[r] = c
                                      THEN None ELSE byCode[c]]

Init ==
    /\ rooms = [r \in RoomIds |-> 0]
    /\ byCode = [c \in Codes |-> None]
    /\ made = 0
    /\ slots = [o \in Objs |-> [i \in Slots |-> None]]
    /\ clients = [c \in Clients |-> None]
    /\ clientRooms = [c \in Clients |-> None]
    /\ unregistered = Conns
    /\ conn = [k \in Conns |-> Start("off")]
    /\ grace = [k \in Conns |-> Start("off")]
    /\ joins = [k \in Conns |-> 0]
    /\ issued = {}
    /\ told = {}

-----------------------------------------------------------------------------
\* NewClient starts the pumps before the upgrade handler registers the client.
Connect(k) ==
    /\ conn[k].pc = "off"
    /\ Goto(k, "idle")
    /\ UNCHANGED <<managerVars, slots, hubVars, unregistered, grace, joins, issued, told>>

Register(k) ==
    /\ conn[k].pc # "off" /\ k \in unregistered
    /\ unregistered' = unregistered \ {k}
    /\ clients' = [clients EXCEPT ![IdOf[k]] = k]
    /\ UNCHANGED <<managerVars, slots, clientRooms, conn, grace, joins, issued, told>>

-----------------------------------------------------------------------------
(* handleJoin                                                              *)

Join(k, r) ==
    /\ conn[k].pc = "idle" /\ joins[k] < MaxJoins
    /\ joins' = [joins EXCEPT ![k] = @ + 1]
    /\ GetOrCreate(r)
    /\ conn' = [conn EXCEPT ![k] = [pc |-> "join_add", room |-> r, obj |-> rooms'[r]]]
    /\ UNCHANGED <<slots, hubVars, unregistered, grace, issued, told>>

\* Room.Add: the slot of a disconnected namesake, else a free one, else the
\* connection is refused and closed.
JoinAdd(k) ==
    LET o == conn[k].obj
        mine == {i \in Taken(o) : slots[o][i].lost # None
                                  /\ Name(slots[o][i]) = NameOf[IdOf[k]]}
        free == Slots \ Taken(o)
        Put(S) == slots' = [slots EXCEPT ![o][Least(S)] = [by |-> k, lost |-> None]]
    IN  /\ conn[k].pc = "join_add"
        /\ \/ /\ mine # {}
              /\ Put(mine)
              /\ Goto(k, "join_map")
           \/ /\ mine = {} /\ free # {}
              /\ Put(free)
              /\ Goto(k, "join_map")
           \/ /\ mine = {} /\ free = {}
              /\ Goto(k, "closed")
              /\ UNCHANGED slots
        /\ UNCHANGED <<managerVars, hubVars, unregistered, grace, joins, issued, told>>

JoinMap(k) ==
    /\ conn[k].pc = "join_map"
    /\ clientRooms' = [clientRooms EXCEPT ![IdOf[k]] = conn[k].room]
    /\ Goto(k, "join_greet")
    /\ UNCHANGED <<managerVars, slots, clients, unregistered, grace, joins, issued, told>>

\* A bug for the checks to find: the first slot is taken for the room's creator,
\* who has nobody to greet.
JoinGreetSecond(k) ==
    LET o == conn[k].obj
    IN  /\ conn[k].pc = "join_greet"
        /\ Goto(k, IF slots[o][2] # None /\ slots[o][2].by = k /\ Peers(o, IdOf[k]) # {}
                      /\ Peer(o, IdOf[k]).lost = None
                   THEN "join_tell" ELSE "idle")
        /\ UNCHANGED <<managerVars, slots, hubVars, unregistered, grace, joins, issued, told>>

\* The joiner looks for a connected peer; it is to answer, the peer to offer.
JoinGreet(k) ==
    LET o == conn[k].obj
    IN  /\ conn[k].pc = "join_greet"
        /\ Goto(k, IF Peers(o, IdOf[k]) # {} /\ Peer(o, IdOf[k]).lost = None
                   THEN "join_tell" ELSE "idle")
        /\ UNCHANGED <<managerVars, slots, hubVars, unregistered, grace, joins, issued, told>>

\* findPeerClient looks the peer up again and sends it the offerer's role.
JoinTell(k) ==
    LET o == conn[k].obj
        found == {l \in Conns : /\ Peers(o, IdOf[k]) # {} /\ Peer(o, IdOf[k]).by = l
                               /\ clients[IdOf[l]] = l}
    IN  /\ conn[k].pc = "join_tell"
        /\ told' = told \cup (IF found = {} THEN {None} ELSE found) \X {k}
        /\ Goto(k, "idle")
        /\ UNCHANGED <<managerVars, slots, hubVars, unregistered, grace, joins, issued>>

-----------------------------------------------------------------------------
(* HandleDisconnect acts on the client ID of the connection that closed.   *)

Disconnect(k) ==
    LET id == IdOf[k]
        r == clientRooms[id]
    IN  /\ conn[k].pc \in {"idle", "closed"}
        /\ clients' = [clients EXCEPT ![id] = None]
        /\ clientRooms' = [clientRooms EXCEPT ![id] = None]
        /\ conn' = [conn EXCEPT ![k] = IF r = None THEN Start("exit")
                                       ELSE [pc |-> "bye_lookup", room |-> r, obj |-> 0]]
        /\ UNCHANGED <<managerVars, slots, unregistered, grace, joins, issued, told>>

ByeLookup(k) ==
    LET o == rooms[conn[k].room]
    IN  /\ conn[k].pc = "bye_lookup"
        /\ conn' = [conn EXCEPT ![k] = IF o = 0 THEN Start("exit")
                                       ELSE [@ EXCEPT !.pc = "bye_mark", !.obj = o]]
        /\ UNCHANGED <<managerVars, slots, hubVars, unregistered, grace, joins, issued, told>>

\* A bug for the checks to find: cleanup is scheduled only for a peer's sake.
ByeMarkForPeer(k) ==
    LET o == conn[k].obj
        mine == {i \in Taken(o) : ID(slots[o][i]) = IdOf[k]}
    IN  /\ conn[k].pc = "bye_mark"
        /\ slots' = IF mine = {} THEN slots ELSE [slots EXCEPT ![o][Least(mine)].lost = k]
        /\ grace' = IF Peers(o, IdOf[k]) = {} THEN grace
                    ELSE [grace EXCEPT ![k] = [conn[k] EXCEPT !.pc = "sleep"]]
        /\ Goto(k, "exit")
        /\ UNCHANGED <<managerVars, hubVars, unregistered, joins, issued, told>>

\* Room.MarkDisconnected marks the first participant with the client ID; the
\* grace goroutine is started whether there was one or not.
ByeMark(k) ==
    LET o == conn[k].obj
        mine == {i \in Taken(o) : ID(slots[o][i]) = IdOf[k]}
    IN  /\ conn[k].pc = "bye_mark"
        /\ slots' = IF mine = {} THEN slots ELSE [slots EXCEPT ![o][Least(mine)].lost = k]
        /\ grace' = [grace EXCEPT ![k] = [conn[k] EXCEPT !.pc = "sleep"]]
        /\ Goto(k, "exit")
        /\ UNCHANGED <<managerVars, hubVars, unregistered, joins, issued, told>>

-----------------------------------------------------------------------------
(* The grace goroutine, 20 s after the loss of connection k.               *)

GraceWake(k) ==
    /\ grace[k].pc = "sleep"
    /\ GraceGoto(k, "clean")
    /\ UNCHANGED <<managerVars, slots, hubVars, unregistered, conn, joins, issued, told>>

\* Room.CleanupDisconnected compares each participant with its own
\* DisconnectAt: a loss is overdue once its own sleep is over.
Overdue(p) == p # None /\ p.lost # None /\ grace[p.lost].pc # "sleep"

\* A bug for the checks to find: only one overdue participant is removed.
GraceCleanFirst(k) ==
    LET o == grace[k].obj
        overdue == {i \in Slots : Overdue(slots[o][i])}
    IN  /\ grace[k].pc = "clean"
        /\ slots' = IF overdue = {} THEN slots ELSE [slots EXCEPT ![o][Least(overdue)] = None]
        /\ GraceGoto(k, "check")
        /\ UNCHANGED <<managerVars, hubVars, unregistered, conn, joins, issued, told>>

GraceClean(k) ==
    LET o == grace[k].obj
    IN  /\ grace[k].pc = "clean"
        /\ slots' = [slots EXCEPT ![o] =
                [i \in Slots |-> IF Overdue(@[i]) THEN None ELSE @[i]]]
        /\ GraceGoto(k, "check")
        /\ UNCHANGED <<managerVars, hubVars, unregistered, conn, joins, issued, told>>

GraceCheck(k) ==
    /\ grace[k].pc = "check"
    /\ GraceGoto(k, IF IsEmpty(grace[k].obj) THEN "delete" ELSE "exit")
    /\ UNCHANGED <<managerVars, slots, hubVars, unregistered, conn, joins, issued, told>>

GraceDelete(k) ==
    /\ grace[k].pc = "delete"
    /\ Forget({grace[k].room})
    /\ GraceGoto(k, "exit")
    /\ UNCHANGED <<made, slots, hubVars, unregistered, conn, joins, issued, told>>

-----------------------------------------------------------------------------
\* Manager.cleanupEmpty, on a ticker.
Sweep ==
    LET empty == {r \in RoomIds : rooms[r] # 0 /\ IsEmpty(rooms[r])}
    IN  /\ empty # {}
        /\ Forget(empty)
        /\ UNCHANGED <<made, slots, hubVars, unregistered, conn, grace, joins, issued, told>>

\* handleCallAccept makes an empty room under a fresh UUID.
CallRoom(r) ==
    /\ r \in CallRooms \ issued
    /\ issued' = issued \cup {r}
    /\ GetOrCreate(r)
    /\ UNCHANGED <<slots, hubVars, unregistered, conn, grace, joins, told>>

-----------------------------------------------------------------------------
Handler(k) ==
    \/ Register(k)
    \/ JoinAdd(k) \/ JoinMap(k) \/ JoinGreet(k) \/ JoinTell(k)
    \/ ByeLookup(k) \/ ByeMark(k)
    \/ conn[k].pc = "closed" /\ Disconnect(k)

Grace(k) == GraceWake(k) \/ GraceClean(k) \/ GraceCheck(k) \/ GraceDelete(k)

Next ==
    \/ \E k \in Conns :
        \/ Connect(k) \/ Disconnect(k) \/ Handler(k) \/ Grace(k)
        \/ \E r \in (RoomIds \ CallRooms) \cup issued : Join(k, r)
    \/ \E r \in CallRooms : CallRoom(r)
    \/ Sweep

Spec == Init /\ [][Next]_vars

\* Goroutines run, sleeps end, the ticker ticks; browsers do as they please.
Fairness ==
    /\ \A k \in Conns : WF_vars(Handler(k)) /\ WF_vars(Grace(k))
    /\ WF_vars(Sweep)

FairSpec == Spec /\ Fairness

-----------------------------------------------------------------------------
\* Types; and a handler that uses a room has one.
TypeOK ==
    /\ rooms \in [RoomIds -> 0..MaxObjs]
    /\ byCode \in [Codes -> RoomIds \cup {None}]
    /\ made \in 0..MaxObjs
    /\ slots \in [Objs -> [Slots -> Participant \cup {None}]]
    /\ clients \in [Clients -> Conns \cup {None}]
    /\ clientRooms \in [Clients -> RoomIds \cup {None}]
    /\ unregistered \subseteq Conns
    /\ conn \in [Conns -> [pc : ConnPC, room : RoomIds \cup {None}, obj : 0..MaxObjs]]
    /\ grace \in [Conns -> [pc : GracePC, room : RoomIds \cup {None}, obj : 0..MaxObjs]]
    /\ joins \in [Conns -> 0..MaxJoins]
    /\ issued \subseteq CallRooms
    /\ told \subseteq (Conns \cup {None}) \X Conns
    /\ \A k \in Conns :
          /\ conn[k].pc \in {"join_add", "join_map", "join_greet", "join_tell", "bye_mark"}
             => conn[k].obj # 0
          /\ grace[k].pc \in {"sleep", "clean", "check", "delete"} => grace[k].obj # 0
          /\ conn[k].pc \in {"join_add", "join_map", "bye_lookup", "bye_mark"}
             => conn[k].room # None
          /\ grace[k].pc \in {"sleep", "clean", "check", "delete"} => grace[k].room # None

\* A code never leads to a deleted room or to a room with another code, though
\* rooms with one code are made, deleted and made again in any order.
ByCodeSound ==
    \A c \in Codes : byCode[c] # None => rooms[byCode[c]] # 0 /\ CodeOf[byCode[c]] = c

\* A participant in the grace period is in the care of the goroutine of the
\* connection it lost, in the same room object: no slot is blocked for ever by
\* someone who is marked as gone.
LostHasGrace ==
    \A o \in Objs, i \in Slots :
        slots[o][i] # None /\ slots[o][i].lost # None =>
            LET g == grace[slots[o][i].lost] IN g.obj = o /\ g.pc \in {"sleep", "clean"}

\* Two who are in a room can start their call: however their joins overlap with
\* each other and with losses, one of the two was told to offer (each adds itself
\* before it looks), unless the hub had no way to the connection that had joined.
Greeted ==
    \A o \in Objs, k, l \in Conns :
        /\ IdOf[k] # IdOf[l]
        /\ {[by |-> k, lost |-> None], [by |-> l, lost |-> None]} \subseteq {slots[o][i] : i \in Slots}
        /\ conn[k].pc = "idle" /\ conn[l].pc = "idle"
        => told \cap {<<k, l>>, <<l, k>>, <<None, k>>, <<None, l>>} # {}

\* When everybody is gone for good, so are all rooms: FR-02 "destroyed when
\* both users disconnect", if no user joined twice, on one connection or on two;
\* one who did occupies two slots, and the loss of a connection frees one.
RoomsDestroyed ==
    <>[](/\ \A k \in Conns : conn[k].pc \in {"off", "exit"} /\ joins[k] <= 1
         /\ \A k, l \in Conns : IdOf[k] = IdOf[l] /\ joins[k] + joins[l] = 2 => k = l)
        => <>[](\A r \in RoomIds : rooms[r] = 0)
=============================================================================
