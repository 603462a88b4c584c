--------------------------- MODULE RoomHub_proofs ---------------------------
(***************************************************************************)
(* Invariance proofs for RoomHub: types, the code index and the care of    *)
(* disconnected participants, for any clients, connections and rooms.      *)
(***************************************************************************)
EXTENDS RoomHub, TLAPS

USE ConstantsAssumption

\* Every code of a room is a code.
LEMMA CodeType == \A r \in RoomIds : CodeOf[r] \in Codes
  BY DEF Codes

\* The first slot of a non-empty set of slots is one of them.
LEMMA LeastSlot ==
    ASSUME NEW S \in SUBSET Slots, S # {}
    PROVE  Least(S) \in S
<1>1. \E i \in S : \A j \in S : i <= j
  <2>1. CASE 1 \in S
    BY <2>1 DEF Slots
  <2>2. CASE 1 \notin S
    <3>1. \A j \in S : j \in 1..2 /\ j # 1
      BY <2>2 DEF Slots
    <3>2. \A j \in S : j = 2
      BY <3>1
    <3>3. 2 \in S
      BY <3>2
    <3> QED
      BY <3>2, <3>3
  <2> QED
    BY <2>1, <2>2
<1> QED
  BY <1>1 DEF Least

\* Locals of a reader and of a grace goroutine.
ConnLocals == [pc : ConnPC, room : RoomIds \cup {None}, obj : 0..MaxObjs]
GraceLocals == [pc : GracePC, room : RoomIds \cup {None}, obj : 0..MaxObjs]

\* What the program counters say of the locals.
HasRoom(l) ==
    /\ l.pc \in {"join_add", "join_map", "join_greet", "join_tell", "bye_mark"} => l.obj # 0
    /\ l.pc \in {"join_add", "join_map", "bye_lookup", "bye_mark"} => l.room # None

\* A reader that starts over, or goes on without a new need of a room.
LEMMA GotoType ==
    ASSUME TypeOK, NEW k \in Conns, NEW pc \in ConnPC, Goto(k, pc),
           pc \in {"join_map", "join_greet", "join_tell", "bye_mark"} => conn[k].obj # 0,
           pc \in {"join_map", "bye_lookup", "bye_mark"} => conn[k].room # None,
           pc # "join_add"
    PROVE  /\ conn' \in [Conns -> ConnLocals]
           /\ \A l \in Conns : HasRoom(conn'[l])
           /\ conn'[k].pc = pc
           /\ \A l \in Conns \ {k} : conn'[l] = conn[l]
<1>1. Start(pc) \in ConnLocals /\ Start(pc).pc = pc
  BY DEF Start, ConnLocals
<1>2. ASSUME NEW l \in ConnLocals PROVE [l EXCEPT !.pc = pc] \in ConnLocals
  BY <1>2 DEF ConnLocals
<1>3. conn \in [Conns -> ConnLocals] /\ \A l \in Conns : HasRoom(conn[l])
  BY DEF TypeOK, ConnLocals, HasRoom
<1>4. CASE pc \in {"idle", "exit", "closed"}
  <2>1. conn' = [conn EXCEPT ![k] = Start(pc)]
    BY <1>4 DEF Goto
  <2>2. HasRoom(Start(pc))
    BY <1>1, <1>4 DEF HasRoom
  <2> QED
    BY <1>1, <1>3, <2>1, <2>2
<1>5. CASE pc \notin {"idle", "exit", "closed"}
  <2>1. conn' = [conn EXCEPT ![k] = [conn[k] EXCEPT !.pc = pc]]
    BY <1>5 DEF Goto
  <2>2. HasRoom([conn[k] EXCEPT !.pc = pc])
    BY <1>3 DEF HasRoom, ConnLocals
  <2>3. [conn[k] EXCEPT !.pc = pc].pc = pc
    BY <1>3 DEF ConnLocals
  <2> QED
    BY <1>2, <1>3, <2>1, <2>2, <2>3
<1> QED
  BY <1>4, <1>5

\* The same for a grace goroutine, which keeps its object until it exits.
LEMMA GraceGotoType ==
    ASSUME TypeOK, NEW k \in Conns, NEW pc \in {"clean", "check", "delete", "exit"},
           GraceGoto(k, pc), grace[k].obj # 0, grace[k].room # None
    PROVE  /\ grace' \in [Conns -> GraceLocals]
           /\ \A l \in Conns : grace'[l].pc \in {"sleep", "clean", "check", "delete"}
                                   => grace'[l].obj # 0 /\ grace'[l].room # None
           /\ grace'[k].pc = pc
           /\ pc # "exit" => grace'[k].obj = grace[k].obj
           /\ \A l \in Conns \ {k} : grace'[l] = grace[l]
<1>1. Start(pc) \in GraceLocals /\ Start(pc).pc = pc
  BY DEF Start, GraceLocals, GracePC
<1>2. grace \in [Conns -> GraceLocals]
  BY DEF TypeOK, GraceLocals
<1>3. [grace[k] EXCEPT !.pc = pc] \in GraceLocals
  BY <1>2 DEF GraceLocals, GracePC
<1>4. CASE pc = "exit"
  <2>1. grace' = [grace EXCEPT ![k] = Start(pc)]
    BY <1>4 DEF GraceGoto
  <2> QED
    BY <1>1, <1>2, <1>4, <2>1 DEF TypeOK
<1>5. CASE pc # "exit"
  <2>1. grace' = [grace EXCEPT ![k] = [grace[k] EXCEPT !.pc = pc]]
    BY <1>5 DEF GraceGoto
  <2>2. [grace[k] EXCEPT !.pc = pc].pc = pc /\ [grace[k] EXCEPT !.pc = pc].obj = grace[k].obj
    BY <1>2 DEF GraceLocals
  <2> QED
    BY <1>2, <1>3, <2>1, <2>2 DEF TypeOK
<1> QED
  BY <1>4, <1>5

-----------------------------------------------------------------------------
(* The inductive invariant.  A connection that is still open has no grace  *)
(* goroutine yet: each loss starts one of its own.                         *)

GraceOnce == \A k \in Conns : conn[k].pc # "exit" => grace[k].pc = "off"

IInv ==
    /\ TypeOK
    /\ ByCodeSound
    /\ GraceOnce
    /\ LostHasGrace

\* The parts of the type invariant a handler's goroutine is responsible for.
ConnOK ==
    /\ conn \in [Conns -> ConnLocals]
    /\ \A k \in Conns : HasRoom(conn[k])

GraceOK ==
    /\ grace \in [Conns -> GraceLocals]
    /\ \A k \in Conns : grace[k].pc \in {"sleep", "clean", "check", "delete"}
                            => grace[k].obj # 0 /\ grace[k].room # None

ManagerOK ==
    /\ rooms \in [RoomIds -> 0..MaxObjs]
    /\ byCode \in [Codes -> RoomIds \cup {None}]
    /\ made \in 0..MaxObjs

SlotsOK == slots \in [Objs -> [Slots -> Participant \cup {None}]]

RestOK ==
    /\ clients \in [Clients -> Conns \cup {None}]
    /\ clientRooms \in [Clients -> RoomIds \cup {None}]
    /\ unregistered \subseteq Conns
    /\ joins \in [Conns -> 0..MaxJoins]
    /\ issued \subseteq CallRooms
    /\ told \subseteq (Conns \cup {None}) \X Conns

\* TypeOK, cut up.
LEMMA TypeParts == TypeOK <=> ConnOK /\ GraceOK /\ ManagerOK /\ SlotsOK /\ RestOK
  BY DEF TypeOK, ConnOK, GraceOK, ManagerOK, SlotsOK, RestOK, ConnLocals, GraceLocals, HasRoom

\* The invariant after a step, put together.
LEMMA Assemble ==
    ASSUME ConnOK', GraceOK', ManagerOK', SlotsOK', RestOK', ByCodeSound', GraceOnce', LostHasGrace'
    PROVE  IInv'
<1>1. TypeOK'
  BY DEF TypeOK, ConnOK, GraceOK, ManagerOK, SlotsOK, RestOK, ConnLocals, GraceLocals, HasRoom
<1> QED
  BY <1>1 DEF IInv

\* Nothing of the rooms' keeper changes when slots, goroutines' goals and losses stay.
LEMMA KeepSlots ==
    ASSUME IInv, slots' = slots, grace' = grace,
           \A k \in Conns : conn'[k].pc = "exit" \/ conn[k].pc # "exit"
    PROVE  GraceOnce' /\ LostHasGrace'
  BY DEF IInv, GraceOnce, LostHasGrace, TypeOK

\* Manager.GetOrCreate keeps the index sound and yields a room.
LEMMA GetOrCreateSound ==
    ASSUME ManagerOK, ByCodeSound, NEW r \in RoomIds, GetOrCreate(r)
    PROVE  ManagerOK' /\ ByCodeSound' /\ rooms'[r] # 0
<1>1. CASE rooms[r] # 0
  BY <1>1 DEF GetOrCreate, managerVars, ManagerOK, ByCodeSound
<1>2. CASE rooms[r] = 0
  <2>1. made + 1 \in 0..MaxObjs /\ made + 1 # 0
    BY <1>2 DEF GetOrCreate, ManagerOK
  <2>2. /\ rooms' = [rooms EXCEPT ![r] = made + 1]
        /\ byCode' = [byCode EXCEPT ![CodeOf[r]] = r]
        /\ made' = made + 1
    BY <1>2 DEF GetOrCreate
  <2>3. ByCodeSound'
    BY <2>1, <2>2, CodeType DEF ByCodeSound, ManagerOK
  <2>4. ManagerOK'
    BY <2>1, <2>2, CodeType DEF ManagerOK
  <2> QED
    BY <2>1, <2>2, <2>3, <2>4 DEF ManagerOK
<1> QED
  BY <1>1, <1>2

\* Deleting rooms, in Manager.Delete or in a sweep, keeps the index sound.
LEMMA ForgetSound ==
    ASSUME ManagerOK, ByCodeSound, NEW R \in SUBSET RoomIds, Forget(R), made' = made
    PROVE  ManagerOK' /\ ByCodeSound'
<1>1. ManagerOK'
  BY DEF ManagerOK, Forget
<1>2. ByCodeSound'
  <2> SUFFICES ASSUME NEW c \in Codes, byCode'[c] # None
               PROVE  rooms'[byCode'[c]] # 0 /\ CodeOf[byCode'[c]] = c
    BY DEF ByCodeSound
  <2>1. byCode'[c] = byCode[c] /\ byCode[c] \in RoomIds
    BY DEF Forget, ManagerOK
  <2>2. ~ \E r \in R : rooms[r] # 0 /\ CodeOf[r] = c
    BY DEF Forget, ManagerOK
  <2> QED
    BY <2>1, <2>2 DEF ByCodeSound, Forget
<1> QED
  BY <1>1, <1>2

LEMMA InvInit == Init => IInv
<1> SUFFICES ASSUME Init PROVE IInv
  OBVIOUS
<1>1. Start("off") \in ConnLocals /\ Start("off") \in GraceLocals /\ Start("off").pc = "off"
  BY DEF Start, ConnLocals, GraceLocals, ConnPC, GracePC
<1>2. ConnOK /\ GraceOK
  BY <1>1 DEF Init, ConnOK, GraceOK, HasRoom
<1>3. ManagerOK /\ SlotsOK /\ RestOK
  BY DEF Init, ManagerOK, SlotsOK, RestOK
<1> QED
  BY <1>1, <1>2, <1>3, TypeParts DEF Init, IInv, ByCodeSound, GraceOnce, LostHasGrace, Objs, Slots
\* A reader that moves on, without a change of rooms, slots or grace.
LEMMA ReaderStep ==
    ASSUME IInv, NEW k \in Conns, NEW pc \in ConnPC, Goto(k, pc),
           pc \in {"join_map", "join_greet", "join_tell", "bye_mark"} => conn[k].obj # 0,
           pc \in {"join_map", "bye_lookup", "bye_mark"} => conn[k].room # None,
           pc # "join_add",
           conn[k].pc # "exit" \/ pc = "exit",
           rooms' = rooms, byCode' = byCode, made' = made, slots' = slots, grace' = grace, RestOK'
    PROVE  IInv'
<1>1. ConnOK' /\ \A l \in Conns : conn'[l].pc = "exit" \/ conn[l].pc # "exit"
  BY GotoType DEF IInv, ConnOK
<1>2. GraceOK' /\ ManagerOK' /\ SlotsOK' /\ ByCodeSound'
  BY TypeParts DEF IInv, GraceOK, ManagerOK, SlotsOK, ByCodeSound
<1> QED
  BY <1>1, <1>2, KeepSlots, Assemble

\* Every critical section keeps the invariant, one step per action.
LEMMA InvStep == IInv /\ [Next]_vars => IInv'
<1> SUFFICES ASSUME IInv, [Next]_vars PROVE IInv'
  OBVIOUS
<1>0. ConnOK /\ GraceOK /\ ManagerOK /\ SlotsOK /\ RestOK /\ TypeOK /\ ByCodeSound
  BY TypeParts DEF IInv
<1> USE <1>0 DEF managerVars, hubVars
<1>1. ASSUME NEW k \in Conns, Connect(k) PROVE IInv'
  BY <1>1, ReaderStep DEF Connect, RestOK, ConnPC
<1>2. ASSUME NEW k \in Conns, Register(k) PROVE IInv'
  <2>1. ConnOK' /\ GraceOK' /\ ManagerOK' /\ SlotsOK' /\ RestOK' /\ ByCodeSound'
    BY <1>2 DEF Register, ConnOK, GraceOK, ManagerOK, SlotsOK, RestOK, ByCodeSound
  <2>2. GraceOnce' /\ LostHasGrace'
    BY <1>2, KeepSlots DEF Register
  <2> QED
    BY <2>1, <2>2, Assemble
<1>3. ASSUME NEW k \in Conns, NEW r \in RoomIds, Join(k, r) PROVE IInv'
  <2>1. ManagerOK' /\ ByCodeSound' /\ rooms'[r] # 0
    BY <1>3, GetOrCreateSound DEF Join
  <2>2. [pc |-> "join_add", room |-> r, obj |-> rooms'[r]] \in ConnLocals
    BY <2>1 DEF ConnLocals, ConnPC, ManagerOK
  <2>3. ConnOK'
    BY <1>3, <2>1, <2>2 DEF Join, ConnOK, HasRoom
  <2>4. RestOK'
    BY <1>3 DEF Join, RestOK
  <2>5. GraceOK' /\ SlotsOK'
    BY <1>3 DEF Join, GraceOK, SlotsOK
  <2>6. GraceOnce' /\ LostHasGrace'
    BY <1>3, KeepSlots DEF Join, ConnOK
  <2> QED
    BY <2>1, <2>3, <2>4, <2>5, <2>6, Assemble
<1>4. ASSUME NEW k \in Conns, JoinAdd(k) PROVE IInv'
  <2> DEFINE o == conn[k].obj
             mine == {i \in Taken(o) : slots[o][i].lost # None
                                       /\ Name(slots[o][i]) = NameOf[IdOf[k]]}
             free == Slots \ Taken(o)
             joiner == [by |-> k, lost |-> None]
  <2>1. conn[k].pc = "join_add"
    BY <1>4 DEF JoinAdd
  <2>2. o \in Objs /\ conn[k].obj # 0 /\ conn[k].room # None
    BY <2>1 DEF ConnOK, HasRoom, ConnLocals, Objs
  <2>3. mine \in SUBSET Slots /\ free \in SUBSET Slots
    BY DEF Taken
  <2>4. joiner \in Participant
    BY SMTT(30) DEF Participant
  <2>5. \/ slots' = slots
        \/ \E i \in Slots : slots' = [slots EXCEPT ![o][i] = joiner]
    <3>1. mine # {} => Least(mine) \in Slots
      BY <2>3, LeastSlot
    <3>2. free # {} => Least(free) \in Slots
      BY <2>3, LeastSlot
    <3> QED
      BY <1>4, <3>1, <3>2 DEF JoinAdd
  <2> HIDE DEF mine, free, o
  <2>6. SlotsOK'
    BY <2>2, <2>4, <2>5 DEF SlotsOK
  <2>7. \A p \in Objs, i \in Slots : slots'[p][i] = slots[p][i] \/ slots'[p][i] = joiner
    BY <2>2, <2>5 DEF SlotsOK
  <2>8. \E pc \in {"join_map", "closed"} : Goto(k, pc)
    BY <1>4 DEF JoinAdd
  <2>9. ConnOK' /\ \A l \in Conns : conn'[l].pc = "exit" \/ conn[l].pc # "exit"
    <3>1. PICK pc \in {"join_map", "closed"} : Goto(k, pc)
      BY <2>8
    <3>2. pc \in ConnPC
      BY SMTT(30) DEF ConnPC
    <3> QED
      BY <2>1, <2>2, <3>1, <3>2, GotoType DEF ConnOK
  <2>10. LostHasGrace'
    BY <1>4, <2>7 DEF JoinAdd, IInv, LostHasGrace
  <2>11. GraceOnce'
    BY SMTT(30), <1>4, <2>9 DEF JoinAdd, IInv, GraceOnce
  <2>12. GraceOK' /\ ManagerOK' /\ RestOK' /\ ByCodeSound'
    BY <1>4 DEF JoinAdd, GraceOK, ManagerOK, RestOK, ByCodeSound
  <2> QED
    BY <2>6, <2>9, <2>10, <2>11, <2>12, Assemble
<1>5. ASSUME NEW k \in Conns, JoinMap(k) PROVE IInv'
  <2>1. RestOK'
    BY <1>5 DEF JoinMap, RestOK, ConnOK, ConnLocals, HasRoom
  <2> QED
    BY <1>5, <2>1, ReaderStep DEF JoinMap, ConnPC, ConnOK, HasRoom
<1>6. ASSUME NEW k \in Conns, JoinGreet(k) PROVE IInv'
  <2>1. RestOK'
    BY <1>6 DEF JoinGreet, RestOK
  <2>2. conn[k].pc = "join_greet" /\ \E pc \in {"join_tell", "idle"} : Goto(k, pc)
    BY <1>6 DEF JoinGreet
  <2>3. conn[k].obj # 0
    BY <2>2 DEF ConnOK, HasRoom
  <2> QED
    BY <1>6, <2>1, <2>2, <2>3, ReaderStep DEF JoinGreet, ConnPC
<1>7. ASSUME NEW k \in Conns, JoinTell(k) PROVE IInv'
  <2>1. RestOK'
    <3> DEFINE o == conn[k].obj
               l == IF Peers(o, IdOf[k]) = {} THEN None ELSE clients[ID(Peer(o, IdOf[k]))]
    <3>1. CASE Peers(o, IdOf[k]) = {}
      BY <1>7, <3>1 DEF JoinTell, RestOK
    <3>2. CASE Peers(o, IdOf[k]) # {}
      <4>1. o \in Objs
        BY <1>7 DEF JoinTell, ConnOK, HasRoom, ConnLocals, Objs
      <4>2. Least(Peers(o, IdOf[k])) \in Peers(o, IdOf[k])
        BY <3>2, LeastSlot DEF Peers, Taken
      <4>3. Peer(o, IdOf[k]) \in Participant
        <5>1. Least(Peers(o, IdOf[k])) \in Slots /\ slots[o][Least(Peers(o, IdOf[k]))] # None
          BY <4>2 DEF Peers, Taken
        <5> QED
          BY <4>1, <5>1 DEF Peer, SlotsOK
      <4>4. clients[ID(Peer(o, IdOf[k]))] \in Conns \cup {None}
        BY <4>3 DEF ID, Participant, RestOK
      <4> QED
        BY <1>7, <4>4 DEF JoinTell, RestOK
    <3> QED
      BY <3>1, <3>2
  <2> QED
    BY <1>7, <2>1, ReaderStep DEF JoinTell, ConnPC
<1>8. ASSUME NEW k \in Conns, Disconnect(k) PROVE IInv'
  <2>1. RestOK'
    BY <1>8 DEF Disconnect, RestOK
  <2>2. Start("exit") \in ConnLocals /\ HasRoom(Start("exit"))
    BY DEF Start, ConnLocals, ConnPC, HasRoom
  <2>3. ASSUME NEW r \in RoomIds
        PROVE  /\ [pc |-> "bye_lookup", room |-> r, obj |-> 0] \in ConnLocals
               /\ HasRoom([pc |-> "bye_lookup", room |-> r, obj |-> 0])
    BY DEF ConnLocals, ConnPC, HasRoom
  <2>4. ConnOK'
    BY <1>8, <2>2, <2>3 DEF Disconnect, ConnOK, RestOK
  <2>5. \A l \in Conns : conn'[l].pc = "exit" \/ conn[l].pc # "exit"
    BY <1>8 DEF Disconnect, ConnOK
  <2>6. GraceOK' /\ ManagerOK' /\ SlotsOK' /\ ByCodeSound'
    BY <1>8 DEF Disconnect, GraceOK, ManagerOK, SlotsOK, ByCodeSound
  <2>7. GraceOnce' /\ LostHasGrace'
    BY <1>8, <2>5, KeepSlots DEF Disconnect
  <2> QED
    BY <2>1, <2>4, <2>6, <2>7, Assemble
<1>9. ASSUME NEW k \in Conns, ByeLookup(k) PROVE IInv'
  <2> DEFINE o == rooms[conn[k].room]
             next == [conn[k] EXCEPT !.pc = "bye_mark", !.obj = o]
  <2>1. o \in 0..MaxObjs
    BY <1>9 DEF ByeLookup, ConnOK, ConnLocals, HasRoom, ManagerOK
  <2>2. Start("exit") \in ConnLocals /\ HasRoom(Start("exit"))
    BY DEF Start, ConnLocals, ConnPC, HasRoom
  <2>3. /\ next \in ConnLocals /\ next.pc = "bye_mark" /\ next.obj = o
        /\ next.room # None
    BY <1>9, <2>1 DEF ByeLookup, ConnOK, ConnLocals, ConnPC, HasRoom
  <2> HIDE DEF next
  <2>4. /\ o = 0 => conn' = [conn EXCEPT ![k] = Start("exit")]
        /\ o # 0 => conn' = [conn EXCEPT ![k] = next]
    BY <1>9 DEF ByeLookup, next
  <2>5. ConnOK'
    BY <2>2, <2>3, <2>4 DEF ConnOK, HasRoom
  <2>6. \A l \in Conns : conn'[l].pc = "exit" \/ conn[l].pc # "exit"
    BY <1>9, <2>4 DEF ByeLookup, ConnOK
  <2>7. GraceOK' /\ ManagerOK' /\ SlotsOK' /\ ByCodeSound' /\ RestOK'
    BY <1>9 DEF ByeLookup, GraceOK, ManagerOK, SlotsOK, ByCodeSound, RestOK
  <2>8. GraceOnce' /\ LostHasGrace'
    BY <1>9, <2>6, KeepSlots DEF ByeLookup
  <2> QED
    BY <2>5, <2>7, <2>8, Assemble
<1>10. ASSUME NEW k \in Conns, ByeMark(k) PROVE IInv'
  <2> DEFINE o == conn[k].obj
             mine == {i \in Taken(o) : ID(slots[o][i]) = IdOf[k]}
             mark == [conn[k] EXCEPT !.pc = "sleep"]
  <2>1. conn[k].pc = "bye_mark" /\ o \in Objs /\ grace[k].pc = "off"
    BY <1>10 DEF ByeMark, ConnOK, HasRoom, ConnLocals, Objs, IInv, GraceOnce
  <2>2. /\ mark \in GraceLocals /\ mark.pc = "sleep" /\ mark.obj = o
        /\ mark.room # None
    BY <2>1 DEF ConnOK, ConnLocals, HasRoom, GraceLocals, GracePC
  <2>3. ConnOK' /\ conn'[k].pc = "exit" /\ \A l \in Conns \ {k} : conn'[l] = conn[l]
    BY <1>10, GotoType DEF ByeMark, ConnOK, ConnPC
  <2> HIDE DEF mark
  <2>4. grace' = [grace EXCEPT ![k] = mark]
    BY <1>10 DEF ByeMark, mark
  <2>5. GraceOK'
    BY <2>1, <2>2, <2>4 DEF GraceOK, Objs
  <2>6. GraceOnce'
    BY SMTT(30), <2>3, <2>4 DEF IInv, GraceOnce, GraceOK
  <2>7. \/ slots' = slots
        \/ \E i \in Slots : slots[o][i] # None /\ slots' = [slots EXCEPT ![o][i].lost = k]
    <3>1. mine # {} => Least(mine) \in mine
      BY LeastSlot DEF Taken
    <3>2. mine # {} => Least(mine) \in Slots /\ slots[o][Least(mine)] # None
      BY <3>1 DEF Taken
    <3> QED
      BY <1>10, <3>2 DEF ByeMark
  <2> HIDE DEF mine
  <2>8. SlotsOK' /\ \A p \in Objs, i \in Slots :
            slots'[p][i] = slots[p][i] \/ (p = o /\ slots'[p][i].lost = k)
    <3>1. CASE slots' = slots
      BY <3>1 DEF SlotsOK
    <3>2. ASSUME NEW i \in Slots, slots[o][i] # None, slots' = [slots EXCEPT ![o][i].lost = k]
          PROVE  SlotsOK' /\ \A p \in Objs, j \in Slots :
                    slots'[p][j] = slots[p][j] \/ (p = o /\ slots'[p][j].lost = k)
      <4>1. slots[o][i] \in Participant
        BY <2>1, <3>2 DEF SlotsOK
      <4>2. [slots[o][i] EXCEPT !.lost = k] \in Participant
            /\ [slots[o][i] EXCEPT !.lost = k].lost = k
        BY <4>1 DEF Participant
      <4> QED
        BY <2>1, <3>2, <4>2 DEF SlotsOK
    <3> QED
      BY <2>7, <3>1, <3>2
  <2>9. LostHasGrace'
    <3> SUFFICES ASSUME NEW p \in Objs, NEW i \in Slots, slots'[p][i] # None,
                        slots'[p][i].lost # None
                 PROVE  LET g == grace'[slots'[p][i].lost]
                        IN  g.obj = p /\ g.pc \in {"sleep", "clean"}
      BY DEF LostHasGrace
    <3>1. CASE p = o /\ slots'[p][i].lost = k
      BY <2>2, <2>4, <3>1 DEF GraceOK
    <3>2. CASE slots'[p][i] = slots[p][i]
      <4>1. slots[p][i].lost \in Conns
        BY <3>2 DEF SlotsOK, Participant
      <4>2. grace[slots[p][i].lost].obj = p /\ grace[slots[p][i].lost].pc \in {"sleep", "clean"}
        BY <3>2 DEF IInv, LostHasGrace
      <4>3. slots[p][i].lost # k
        BY <2>1, <4>2
      <4> QED
        BY <2>4, <3>2, <4>1, <4>2, <4>3 DEF GraceOK
    <3> QED
      BY <2>8, <3>1, <3>2
  <2>10. ManagerOK' /\ RestOK' /\ ByCodeSound'
    BY <1>10 DEF ByeMark, ManagerOK, RestOK, ByCodeSound
  <2> QED
    BY <2>3, <2>5, <2>6, <2>8, <2>9, <2>10, Assemble
<1>11. ASSUME NEW k \in Conns, GraceWake(k) PROVE IInv'
  <2>1. grace[k].pc = "sleep" /\ GraceGoto(k, "clean") /\ grace[k].obj # 0 /\ grace[k].room # None
    BY <1>11 DEF GraceWake, GraceOK
  <2>2. GraceOK' /\ grace'[k].pc = "clean" /\ grace'[k].obj = grace[k].obj
        /\ \A l \in Conns \ {k} : grace'[l] = grace[l]
    BY <2>1, GraceGotoType DEF GraceOK
  <2>3. GraceOnce'
    BY <1>11, <2>1, <2>2 DEF GraceWake, IInv, GraceOnce
  <2>4. LostHasGrace'
    BY <1>11, <2>1, <2>2 DEF GraceWake, IInv, LostHasGrace, SlotsOK, Participant
  <2>5. ConnOK' /\ ManagerOK' /\ SlotsOK' /\ RestOK' /\ ByCodeSound'
    BY <1>11 DEF GraceWake, ConnOK, ManagerOK, SlotsOK, RestOK, ByCodeSound
  <2> QED
    BY <2>2, <2>3, <2>4, <2>5, Assemble
<1>12. ASSUME NEW k \in Conns, GraceClean(k) PROVE IInv'
  <2> DEFINE o == grace[k].obj
  <2>1. grace[k].pc = "clean" /\ GraceGoto(k, "check") /\ o \in Objs /\ grace[k].room # None
    BY <1>12 DEF GraceClean, GraceOK, GraceLocals, Objs
  <2>2. GraceOK' /\ grace'[k].pc = "check" /\ \A l \in Conns \ {k} : grace'[l] = grace[l]
    BY <2>1, GraceGotoType DEF GraceOK, Objs
  <2>3. slots' = [slots EXCEPT ![o] = [i \in Slots |-> IF Overdue(slots[o][i]) THEN None
                                                      ELSE slots[o][i]]]
    BY <1>12 DEF GraceClean
  <2>4. SlotsOK'
    BY <2>1, <2>3 DEF SlotsOK
  <2>5. \A p \in Objs, i \in Slots : slots'[p][i] # None =>
            slots'[p][i] = slots[p][i] /\ (p = o => ~Overdue(slots[p][i]))
    BY <2>1, <2>3 DEF SlotsOK
  <2>6. LostHasGrace'
    <3> SUFFICES ASSUME NEW p \in Objs, NEW i \in Slots, slots'[p][i] # None,
                        slots'[p][i].lost # None
                 PROVE  LET g == grace'[slots'[p][i].lost]
                        IN  g.obj = p /\ g.pc \in {"sleep", "clean"}
      BY DEF LostHasGrace
    <3>1. slots'[p][i] = slots[p][i] /\ slots[p][i].lost \in Conns
      BY <2>5 DEF SlotsOK, Participant
    <3>2. grace[slots[p][i].lost].obj = p /\ grace[slots[p][i].lost].pc \in {"sleep", "clean"}
      BY <3>1 DEF IInv, LostHasGrace
    <3>3. slots[p][i].lost # k
      BY <2>1, <2>5, <3>1, <3>2 DEF Overdue
    <3> QED
      BY <2>2, <3>1, <3>2, <3>3
  <2>7. GraceOnce'
    BY <1>12, <2>1, <2>2 DEF GraceClean, IInv, GraceOnce
  <2>8. ConnOK' /\ ManagerOK' /\ RestOK' /\ ByCodeSound'
    BY <1>12 DEF GraceClean, ConnOK, ManagerOK, RestOK, ByCodeSound
  <2> QED
    BY <2>2, <2>4, <2>6, <2>7, <2>8, Assemble
<1>13. ASSUME NEW k \in Conns, GraceCheck(k) PROVE IInv'
  <2>1. grace[k].pc = "check" /\ grace[k].obj # 0 /\ grace[k].room # None
        /\ \E pc \in {"delete", "exit"} : GraceGoto(k, pc)
    BY <1>13 DEF GraceCheck, GraceOK
  <2>2. GraceOK' /\ grace'[k].pc \in {"delete", "exit"}
        /\ \A l \in Conns \ {k} : grace'[l] = grace[l]
    BY <2>1, GraceGotoType DEF GraceOK
  <2>3. GraceOnce'
    BY <1>13, <2>1, <2>2 DEF GraceCheck, IInv, GraceOnce
  <2>4. LostHasGrace'
    BY <1>13, <2>1, <2>2 DEF GraceCheck, IInv, LostHasGrace, SlotsOK, Participant
  <2>5. ConnOK' /\ ManagerOK' /\ SlotsOK' /\ RestOK' /\ ByCodeSound'
    BY <1>13 DEF GraceCheck, ConnOK, ManagerOK, SlotsOK, RestOK, ByCodeSound
  <2> QED
    BY <2>2, <2>3, <2>4, <2>5, Assemble
<1>14. ASSUME NEW k \in Conns, GraceDelete(k) PROVE IInv'
  <2>1. /\ grace[k].pc = "delete" /\ GraceGoto(k, "exit")
        /\ grace[k].obj # 0 /\ grace[k].room \in RoomIds
    BY <1>14 DEF GraceDelete, GraceOK, GraceLocals
  <2>2. GraceOK' /\ grace'[k].pc = "exit" /\ \A l \in Conns \ {k} : grace'[l] = grace[l]
    BY <2>1, GraceGotoType DEF GraceOK
  <2>3. GraceOnce'
    BY <1>14, <2>1, <2>2 DEF GraceDelete, IInv, GraceOnce
  <2>4. LostHasGrace'
    BY <1>14, <2>1, <2>2 DEF GraceDelete, IInv, LostHasGrace, SlotsOK, Participant
  <2>5. ManagerOK' /\ ByCodeSound'
    BY <1>14, <2>1, ForgetSound DEF GraceDelete
  <2>6. ConnOK' /\ SlotsOK' /\ RestOK'
    BY <1>14 DEF GraceDelete, ConnOK, SlotsOK, RestOK
  <2> QED
    BY <2>2, <2>3, <2>4, <2>5, <2>6, Assemble
<1>15. ASSUME Sweep PROVE IInv'
  <2>1. ManagerOK' /\ ByCodeSound'
    BY <1>15, ForgetSound DEF Sweep
  <2>2. ConnOK' /\ GraceOK' /\ SlotsOK' /\ RestOK'
    BY <1>15 DEF Sweep, ConnOK, GraceOK, SlotsOK, RestOK
  <2>3. GraceOnce' /\ LostHasGrace'
    BY <1>15, KeepSlots DEF Sweep
  <2> QED
    BY <2>1, <2>2, <2>3, Assemble
<1>16. ASSUME NEW r \in CallRooms, CallRoom(r) PROVE IInv'
  <2>1. ManagerOK' /\ ByCodeSound'
    BY <1>16, GetOrCreateSound DEF CallRoom
  <2>2. ConnOK' /\ GraceOK' /\ SlotsOK' /\ RestOK'
    BY <1>16 DEF CallRoom, ConnOK, GraceOK, SlotsOK, RestOK
  <2>3. GraceOnce' /\ LostHasGrace'
    BY <1>16, KeepSlots DEF CallRoom
  <2> QED
    BY <2>1, <2>2, <2>3, Assemble
<1>17. ASSUME UNCHANGED vars PROVE IInv'
  <2>1. ConnOK' /\ GraceOK' /\ ManagerOK' /\ SlotsOK' /\ RestOK' /\ ByCodeSound'
    BY <1>17 DEF vars, ConnOK, GraceOK, ManagerOK, SlotsOK, RestOK, ByCodeSound
  <2>2. GraceOnce' /\ LostHasGrace'
    BY <1>17, KeepSlots DEF vars
  <2> QED
    BY <2>1, <2>2, Assemble
<1>18. issued \subseteq RoomIds
  BY DEF RestOK
<1> QED
  BY <1>18, <1>1, <1>2, <1>3, <1>4, <1>5, <1>6, <1>7, <1>8, <1>9, <1>10, <1>11, <1>12, <1>13, <1>14, <1>15,
     <1>16, <1>17
     DEF Next, Handler, Grace

\* Types hold throughout; a handler that uses a room has one.
THEOREM TypeCorrect == Spec => []TypeOK
<1>1. IInv => TypeOK
  BY DEF IInv
<1> QED
  BY <1>1, InvInit, InvStep, PTL DEF Spec

\* The code index never leads astray, however rooms come and go.
THEOREM CodesSound == Spec => []ByCodeSound
<1>1. IInv => ByCodeSound
  BY DEF IInv
<1> QED
  BY <1>1, InvInit, InvStep, PTL DEF Spec

\* A disconnected participant is always in the care of its grace goroutine.
THEOREM LostCaredFor == Spec => []LostHasGrace
<1>1. IInv => LostHasGrace
  BY DEF IInv
<1> QED
  BY <1>1, InvInit, InvStep, PTL DEF Spec

-----------------------------------------------------------------------------
(* Greeting.  Of two who are in a room, the one who added itself last sees *)
(* the other: until somebody has been told to offer, one of the two is     *)
(* still on the way through its join.                                      *)

Present(o, k) == \E i \in Slots : slots[o][i] = [by |-> k, lost |-> None]

Greets(o, k) == conn[k].obj = o /\ conn[k].pc \in {"join_map", "join_greet", "join_tell"}

OfferMade(k, l) == told \cap {<<k, l>>, <<l, k>>, <<None, k>>, <<None, l>>} # {}

Greeting ==
    \A o \in Objs, k, l \in Conns :
        IdOf[k] # IdOf[l] /\ Present(o, k) /\ Present(o, l)
            => OfferMade(k, l) \/ Greets(o, k) \/ Greets(o, l)

\* Nobody is forgotten by a step that adds nobody and after which everybody who
\* was greeting greets, or whose duties are done.
LEMMA GreetingFrame ==
    ASSUME Greeting, told \subseteq told',
           \A o \in Objs, k \in Conns : Present(o, k)' => Present(o, k),
           \A o \in Objs, k \in Conns : Greets(o, k) => Greets(o, k)'
    PROVE  Greeting'
<1> SUFFICES ASSUME NEW o \in Objs, NEW k \in Conns, NEW l \in Conns,
                    IdOf[k] # IdOf[l], Present(o, k)', Present(o, l)'
             PROVE  OfferMade(k, l)' \/ Greets(o, k)' \/ Greets(o, l)'
  BY DEF Greeting
<1>1. OfferMade(k, l) => OfferMade(k, l)'
  BY DEF OfferMade
<1> QED
  BY <1>1 DEF Greeting

\* The participant a handler finds beside its own is the other one who is there.
LEMMA PeerFound ==
    ASSUME TypeOK, NEW o \in Objs, NEW k \in Conns, NEW l \in Conns,
           IdOf[k] # IdOf[l], Present(o, k), Present(o, l)
    PROVE  /\ Peers(o, IdOf[k]) # {}
           /\ Peer(o, IdOf[k]) = [by |-> l, lost |-> None]
<1>1. PICK i \in Slots : slots[o][i] = [by |-> k, lost |-> None]
  BY DEF Present
<1>2. PICK j \in Slots : slots[o][j] = [by |-> l, lost |-> None]
  BY DEF Present
<1>3. /\ ID(slots[o][i]) = IdOf[k] /\ ID(slots[o][j]) = IdOf[l]
      /\ slots[o][j] # None
  <2>1. slots[o][j].by = l /\ slots[o][i].by = k
    BY <1>1, <1>2
  <2>2. ID(slots[o][i]) = IdOf[k] /\ ID(slots[o][j]) = IdOf[l]
    BY <2>1 DEF ID
  <2>3. [by |-> l, lost |-> None] # None
    BY NoneAssumption
  <2> QED
    BY <1>2, <2>2, <2>3
<1>4. j # i
  BY <1>3
<1>5. j \in Peers(o, IdOf[k]) /\ i \notin Peers(o, IdOf[k])
  BY <1>3 DEF Peers, Taken
<1>6. Peers(o, IdOf[k]) \in SUBSET Slots
  BY DEF Peers, Taken
<1>7. Least(Peers(o, IdOf[k])) \in Peers(o, IdOf[k])
  BY <1>5, <1>6, LeastSlot
<1>8. Least(Peers(o, IdOf[k])) = j
  BY <1>4, <1>5, <1>6, <1>7 DEF Slots
<1> QED
  BY <1>2, <1>5, <1>8 DEF Peer

\* A reader that moves on within its join, from wherever it was not greeting.
LEMMA GotoGreets ==
    ASSUME TypeOK, NEW k \in Conns, NEW pc \in ConnPC, Goto(k, pc),
           conn[k].pc \in {"join_add", "join_map", "join_greet", "join_tell"}
               => pc \in {"join_map", "join_greet", "join_tell"}
    PROVE  \A o \in Objs, l \in Conns : Greets(o, l) => Greets(o, l)'
<1> SUFFICES ASSUME NEW o \in Objs, NEW l \in Conns, Greets(o, l) PROVE Greets(o, l)'
  OBVIOUS
<1>1. CASE l # k
  BY <1>1 DEF Goto, Greets, TypeOK
<1>2. CASE l = k
  <2>1. conn' = [conn EXCEPT ![k] = [conn[k] EXCEPT !.pc = pc]]
    BY <1>2 DEF Goto, Greets
  <2>2. conn[k] \in ConnLocals /\ pc \in {"join_map", "join_greet", "join_tell"}
    BY <1>2 DEF Greets, TypeOK, ConnLocals
  <2>3. conn'[k] = [conn[k] EXCEPT !.pc = pc]
    BY <2>1 DEF TypeOK
  <2>4. conn'[k].pc = pc /\ conn'[k].obj = conn[k].obj
    BY <2>2, <2>3 DEF ConnLocals
  <2> QED
    BY <1>2, <2>2, <2>4 DEF Greets
<1> QED
  BY <1>1, <1>2

\* Init: nobody is in a room.
LEMMA GreetingInit == Init => Greeting
<1> SUFFICES ASSUME Init PROVE Greeting
  OBVIOUS
<1>1. ASSUME NEW o \in Objs, NEW i \in Slots PROVE slots[o][i] = None
  BY DEF Init
<1>2. \A k \in Conns : [by |-> k, lost |-> None] # None
  BY NoneAssumption
<1>3. \A o \in Objs, k \in Conns : ~Present(o, k)
  BY <1>1, <1>2 DEF Present
<1> QED
  BY <1>3 DEF Greeting

\* Every critical section keeps it: a handler is done with its greeting only
\* when somebody has been told, or one of the two has gone.
LEMMA GreetingStep == IInv /\ Greeting /\ [Next]_vars => Greeting'
<1> SUFFICES ASSUME IInv, Greeting, [Next]_vars PROVE Greeting'
  OBVIOUS
<1>0. TypeOK
  BY DEF IInv
<1> USE <1>0 DEF managerVars, hubVars
<1>1. ASSUME slots' = slots, told' = told,
             \E k \in Conns : /\ \A l \in Conns \ {k} : conn'[l] = conn[l]
                              /\ conn[k].pc \notin {"join_map", "join_greet", "join_tell"}
      PROVE  Greeting'
  <2>1. \A o \in Objs, l \in Conns : Greets(o, l) => Greets(o, l)'
    BY <1>1 DEF Greets
  <2>2. \A o \in Objs, l \in Conns : Present(o, l)' => Present(o, l)
    BY <1>1 DEF Present
  <2> QED
    BY <1>1, <2>1, <2>2, GreetingFrame
<1>2. ASSUME slots' = slots, told' = told, conn' = conn PROVE Greeting'
  <2>1. \A o \in Objs, l \in Conns : Greets(o, l) => Greets(o, l)'
    BY <1>2 DEF Greets
  <2>2. \A o \in Objs, l \in Conns : Present(o, l)' => Present(o, l)
    BY <1>2 DEF Present
  <2> QED
    BY <1>2, <2>1, <2>2, GreetingFrame
<1>3. ASSUME NEW k \in Conns, Connect(k) PROVE Greeting'
  <2>1. \A l \in Conns \ {k} : conn'[l] = conn[l]
    BY <1>3 DEF Connect, Goto, TypeOK
  <2> QED
    BY <1>1, <1>3, <2>1 DEF Connect
<1>4. ASSUME NEW k \in Conns, NEW r \in RoomIds, Join(k, r) PROVE Greeting'
  <2>1. \A l \in Conns \ {k} : conn'[l] = conn[l]
    BY <1>4 DEF Join, TypeOK
  <2> QED
    BY <1>1, <1>4, <2>1 DEF Join
<1>5. ASSUME NEW k \in Conns, JoinAdd(k) PROVE Greeting'
  <2> DEFINE o == conn[k].obj
             mine == {i \in Taken(o) : slots[o][i].lost # None
                                       /\ Name(slots[o][i]) = NameOf[IdOf[k]]}
             free == Slots \ Taken(o)
             joiner == [by |-> k, lost |-> None]
  <2>1. conn[k].pc = "join_add" /\ o \in Objs /\ told' = told
    BY <1>5 DEF JoinAdd, TypeOK, Objs
  <2>2. \A l \in Conns \ {k} : conn'[l] = conn[l]
    <3>1. Goto(k, "join_map") \/ Goto(k, "closed")
      BY <1>5 DEF JoinAdd
    <3> QED
      BY <3>1 DEF Goto, TypeOK
  <2>3. \/ slots' = slots
        \/ /\ \E i \in Slots : slots' = [slots EXCEPT ![o][i] = joiner]
           /\ Goto(k, "join_map")
    <3>1. mine # {} => Least(mine) \in Slots
      BY LeastSlot DEF Taken
    <3>2. free # {} => Least(free) \in Slots
      BY LeastSlot
    <3> HIDE DEF mine, free
    <3> QED
      BY <1>5, <3>1, <3>2 DEF JoinAdd, mine, free
  <2>4. CASE slots' = slots
    BY <1>1, <2>1, <2>2, <2>4
  <2>5. ASSUME NEW i \in Slots, slots' = [slots EXCEPT ![o][i] = joiner], Goto(k, "join_map")
        PROVE  Greeting'
    <3>1. conn' = [conn EXCEPT ![k] = [conn[k] EXCEPT !.pc = "join_map"]]
      BY <2>5 DEF Goto
    <3>2. conn'[k].pc = "join_map" /\ conn'[k].obj = o
      BY <3>1 DEF TypeOK
    <3>3. \A q \in Objs, n \in Conns : q = o /\ n = k => Greets(q, n)'
      BY <3>2 DEF Greets
    <3>4. \A p \in Objs, l \in Conns : Greets(p, l) => Greets(p, l)'
      BY <2>1, <2>2 DEF Greets
    <3>5. ASSUME NEW p \in Objs, NEW l \in Conns, Present(p, l)', ~(p = o /\ l = k)
          PROVE  Present(p, l)
      <4>1. PICK j \in Slots : slots'[p][j] = [by |-> l, lost |-> None]
        BY <3>5 DEF Present
      <4>2. slots'[p][j] = slots[p][j] \/ (p = o /\ slots'[p][j] = joiner)
        BY <2>1, <2>5 DEF TypeOK
      <4>3. slots'[p][j] = slots[p][j]
        BY <3>5, <4>1, <4>2
      <4> QED
        BY <4>1, <4>3 DEF Present
    <3> SUFFICES ASSUME NEW p \in Objs, NEW l \in Conns, NEW m \in Conns,
                        IdOf[l] # IdOf[m], Present(p, l)', Present(p, m)'
                 PROVE  OfferMade(l, m)' \/ Greets(p, l)' \/ Greets(p, m)'
      BY DEF Greeting
    <3>6. OfferMade(l, m) => OfferMade(l, m)'
      BY <2>1 DEF OfferMade
    <3>7. CASE p = o /\ (l = k \/ m = k)
      BY <3>3, <3>7 DEF Greets
    <3>8. CASE ~(p = o /\ (l = k \/ m = k))
      <4>1. Present(p, l) /\ Present(p, m)
        BY <3>5, <3>8
      <4>2. OfferMade(l, m) \/ Greets(p, l) \/ Greets(p, m)
        BY <4>1 DEF Greeting
      <4> QED
        BY <3>4, <3>6, <4>2
    <3> QED
      BY <3>7, <3>8
  <2> QED
    BY <2>3, <2>4, <2>5
<1>6. ASSUME NEW k \in Conns, JoinMap(k) PROVE Greeting'
  <2>1. \A o \in Objs, l \in Conns : Greets(o, l) => Greets(o, l)'
    BY <1>6, GotoGreets DEF JoinMap, ConnPC
  <2>2. \A o \in Objs, l \in Conns : Present(o, l)' => Present(o, l)
    BY <1>6 DEF JoinMap, Present
  <2> QED
    BY <1>6, <2>1, <2>2, GreetingFrame DEF JoinMap
<1>7. ASSUME NEW k \in Conns, JoinGreet(k) PROVE Greeting'
  <2> DEFINE o == conn[k].obj
             seen == Peers(o, IdOf[k]) # {} /\ Peer(o, IdOf[k]).lost = None
  <2>1. /\ conn[k].pc = "join_greet" /\ slots' = slots /\ told' = told
        /\ Goto(k, IF seen THEN "join_tell" ELSE "idle")
    BY <1>7 DEF JoinGreet
  <2>2. o \in Objs
    BY <2>1 DEF TypeOK, Objs
  <2> HIDE DEF seen
  <2>3. \A p \in Objs, l \in Conns : Present(p, l)' <=> Present(p, l)
    BY <2>1 DEF Present
  <2>4. CASE seen
    <3>1. Goto(k, "join_tell")
      BY <2>1, <2>4
    <3>2. \A p \in Objs, l \in Conns : Greets(p, l) => Greets(p, l)'
      BY <3>1, GotoGreets DEF ConnPC
    <3> QED
      BY <2>1, <2>3, <3>2, GreetingFrame
  <2>5. CASE ~seen
    <3>1. \A l \in Conns \ {k} : conn'[l] = conn[l]
      BY <2>1 DEF Goto, TypeOK
    <3>2. \A p \in Objs, l \in Conns : l # k \/ p # o => (Greets(p, l) => Greets(p, l)')
      BY <3>1 DEF Greets
    <3>3. \A l \in Conns : ~(IdOf[k] # IdOf[l] /\ Present(o, k) /\ Present(o, l))
      <4> SUFFICES ASSUME NEW l \in Conns, IdOf[k] # IdOf[l], Present(o, k), Present(o, l)
                   PROVE  FALSE
        OBVIOUS
      <4>1. Peers(o, IdOf[k]) # {} /\ Peer(o, IdOf[k]) = [by |-> l, lost |-> None]
        BY <2>2, PeerFound
      <4>2. Peer(o, IdOf[k]).lost = None
        BY <4>1
      <4> QED
        BY <2>5, <4>1, <4>2 DEF seen
    <3> SUFFICES ASSUME NEW p \in Objs, NEW l \in Conns, NEW m \in Conns,
                        IdOf[l] # IdOf[m], Present(p, l)', Present(p, m)'
                 PROVE  OfferMade(l, m)' \/ Greets(p, l)' \/ Greets(p, m)'
      BY DEF Greeting
    <3>4. OfferMade(l, m)' <=> OfferMade(l, m)
      BY <2>1 DEF OfferMade
    <3>5. ~(p = o /\ (l = k \/ m = k))
      BY <2>3, <3>3
    <3> QED
      BY <2>3, <3>2, <3>4, <3>5 DEF Greeting
  <2> QED
    BY <2>4, <2>5
<1>8. ASSUME NEW k \in Conns, JoinTell(k) PROVE Greeting'
  <2> DEFINE o == conn[k].obj
             found == {l \in Conns : /\ Peers(o, IdOf[k]) # {} /\ Peer(o, IdOf[k]).by = l
                                    /\ clients[IdOf[l]] = l}
  <2>1. /\ conn[k].pc = "join_tell" /\ slots' = slots /\ Goto(k, "idle")
        /\ told' = told \cup (IF found = {} THEN {None} ELSE found) \X {k}
    BY <1>8 DEF JoinTell
  <2>2. o \in Objs
    BY <2>1 DEF TypeOK, Objs
  <2>3. \A p \in Objs, l \in Conns : Present(p, l)' <=> Present(p, l)
    BY <2>1 DEF Present
  <2>4. \A l \in Conns \ {k} : conn'[l] = conn[l]
    BY <2>1 DEF Goto, TypeOK
  <2>5. \A p \in Objs, l \in Conns : l # k \/ p # o => (Greets(p, l) => Greets(p, l)')
    BY <2>4 DEF Greets
  <2>6. ASSUME NEW l \in Conns, IdOf[k] # IdOf[l], Present(o, k), Present(o, l)
        PROVE  <<l, k>> \in told' \/ <<None, k>> \in told'
    <3>1. Peers(o, IdOf[k]) # {} /\ Peer(o, IdOf[k]) = [by |-> l, lost |-> None]
      BY <2>2, <2>6, PeerFound
    <3>2. Peer(o, IdOf[k]).by = l
      BY <3>1
    <3>3. \A m \in found : m = l
      BY <3>2
    <3> HIDE DEF found
    <3>4. CASE found = {}
      BY <2>1, <3>4
    <3>5. CASE l \in found
      BY <2>1, <3>5
    <3> QED
      BY <3>3, <3>4, <3>5
  <2> HIDE DEF found
  <2> SUFFICES ASSUME NEW p \in Objs, NEW l \in Conns, NEW m \in Conns,
                      IdOf[l] # IdOf[m], Present(p, l)', Present(p, m)'
               PROVE  OfferMade(l, m)' \/ Greets(p, l)' \/ Greets(p, m)'
    BY DEF Greeting
  <2>7. OfferMade(l, m) => OfferMade(l, m)'
    BY <2>1 DEF OfferMade
  <2>8. CASE p = o /\ l = k
    <3>1. <<m, k>> \in told' \/ <<None, k>> \in told'
      BY <2>3, <2>6, <2>8
    <3> QED
      BY <2>8, <3>1 DEF OfferMade
  <2>9. CASE p = o /\ m = k
    <3>1. <<l, k>> \in told' \/ <<None, k>> \in told'
      BY <2>3, <2>6, <2>9
    <3> QED
      BY <2>9, <3>1 DEF OfferMade
  <2>10. CASE ~(p = o /\ (l = k \/ m = k))
    BY <2>3, <2>5, <2>7, <2>10 DEF Greeting
  <2> QED
    BY <2>8, <2>9, <2>10
<1>9. ASSUME NEW k \in Conns, Disconnect(k) PROVE Greeting'
  <2>1. \A l \in Conns \ {k} : conn'[l] = conn[l]
    BY <1>9 DEF Disconnect, TypeOK
  <2> QED
    BY <1>1, <1>9, <2>1 DEF Disconnect
<1>10. ASSUME NEW k \in Conns, ByeLookup(k) PROVE Greeting'
  <2>1. \A l \in Conns \ {k} : conn'[l] = conn[l]
    BY <1>10 DEF ByeLookup, TypeOK
  <2> QED
    BY <1>1, <1>10, <2>1 DEF ByeLookup
<1>11. ASSUME NEW k \in Conns, ByeMark(k) PROVE Greeting'
  <2> DEFINE o == conn[k].obj
             mine == {i \in Taken(o) : ID(slots[o][i]) = IdOf[k]}
  <2>1. conn[k].pc = "bye_mark" /\ o \in Objs /\ told' = told
    BY <1>11 DEF ByeMark, TypeOK, Objs
  <2>2. \A l \in Conns \ {k} : conn'[l] = conn[l]
    BY <1>11 DEF ByeMark, Goto, TypeOK
  <2>3. \A p \in Objs, l \in Conns : Greets(p, l) => Greets(p, l)'
    BY <2>1, <2>2 DEF Greets
  <2>4. \/ slots' = slots
        \/ \E i \in Slots : slots[o][i] # None /\ slots' = [slots EXCEPT ![o][i].lost = k]
    <3>1. mine # {} => Least(mine) \in mine
      BY LeastSlot DEF Taken
    <3>2. mine # {} => Least(mine) \in Slots /\ slots[o][Least(mine)] # None
      BY <3>1 DEF Taken
    <3> HIDE DEF mine
    <3> QED
      BY <1>11, <3>2 DEF ByeMark, mine
  <2> HIDE DEF mine
  <2>5. \A p \in Objs, j \in Slots : slots'[p][j] = slots[p][j] \/ slots'[p][j].lost = k
    <3>1. ASSUME NEW i \in Slots, slots[o][i] # None, slots' = [slots EXCEPT ![o][i].lost = k]
          PROVE  \A p \in Objs, j \in Slots : slots'[p][j] = slots[p][j] \/ slots'[p][j].lost = k
      <4>1. slots[o][i] \in Participant
        BY <2>1, <3>1 DEF TypeOK
      <4>2. [slots[o][i] EXCEPT !.lost = k].lost = k
        BY <4>1 DEF Participant
      <4> QED
        BY <2>1, <3>1, <4>2 DEF TypeOK
    <3> QED
      BY <2>4, <3>1
  <2>6. ASSUME NEW p \in Objs, NEW l \in Conns, Present(p, l)' PROVE Present(p, l)
    <3>1. PICK j \in Slots : slots'[p][j] = [by |-> l, lost |-> None]
      BY <2>6 DEF Present
    <3>2. slots'[p][j].lost # k
      BY <3>1
    <3> QED
      BY <2>5, <3>1, <3>2 DEF Present
  <2> QED
    BY <2>1, <2>3, <2>6, GreetingFrame
<1>12. ASSUME NEW k \in Conns, GraceClean(k) PROVE Greeting'
  <2> DEFINE o == grace[k].obj
  <2>1. o \in Objs /\ told' = told /\ conn' = conn
    BY <1>12 DEF GraceClean, TypeOK, Objs
  <2>2. \A p \in Objs, i \in Slots : slots'[p][i] = None \/ slots'[p][i] = slots[p][i]
    BY <1>12, <2>1 DEF GraceClean, TypeOK
  <2>3. ASSUME NEW p \in Objs, NEW l \in Conns, Present(p, l)' PROVE Present(p, l)
    <3>1. PICK j \in Slots : slots'[p][j] = [by |-> l, lost |-> None]
      BY <2>3 DEF Present
    <3>2. slots'[p][j] # None
      BY <3>1, NoneAssumption
    <3> QED
      BY <2>2, <3>1, <3>2 DEF Present
  <2>4. \A p \in Objs, l \in Conns : Greets(p, l) => Greets(p, l)'
    BY <2>1 DEF Greets
  <2> QED
    BY <2>1, <2>3, <2>4, GreetingFrame
<1>13. ASSUME \/ \E k \in Conns : Register(k) \/ GraceWake(k) \/ GraceCheck(k) \/ GraceDelete(k)
              \/ Sweep \/ \E r \in CallRooms : CallRoom(r)
              \/ UNCHANGED vars
       PROVE  Greeting'
  <2>1. slots' = slots /\ told' = told /\ conn' = conn
    BY <1>13 DEF Register, GraceWake, GraceCheck, GraceDelete, Sweep, CallRoom, vars
  <2> QED
    BY <1>2, <2>1
<1>14. issued \subseteq RoomIds
  BY DEF TypeOK
<1> QED
  BY <1>3, <1>4, <1>5, <1>6, <1>7, <1>8, <1>9, <1>10, <1>11, <1>12, <1>13, <1>14
     DEF Next, Handler, Grace

\* Two who are in a room and have both finished joining have an offer coming.
THEOREM SomebodyOffers == Spec => []Greeted
<1>1. Greeting => Greeted
  <2> SUFFICES ASSUME Greeting, NEW o \in Objs, NEW k \in Conns, NEW l \in Conns,
                      IdOf[k] # IdOf[l],
                      {[by |-> k, lost |-> None], [by |-> l, lost |-> None]}
                          \subseteq {slots[o][i] : i \in Slots},
                      conn[k].pc = "idle", conn[l].pc = "idle"
               PROVE  OfferMade(k, l)
    BY DEF Greeted, OfferMade
  <2>1. Present(o, k) /\ Present(o, l)
    BY DEF Present
  <2> QED
    BY <2>1 DEF Greeting, Greets
<1>2. Init => IInv /\ Greeting
  BY InvInit, GreetingInit
<1>3. (IInv /\ Greeting) /\ [Next]_vars => (IInv /\ Greeting)'
  BY InvStep, GreetingStep
<1> QED
  BY <1>1, <1>2, <1>3, PTL DEF Spec
=============================================================================
