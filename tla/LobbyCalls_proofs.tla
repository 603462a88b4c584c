-------------------------- MODULE LobbyCalls_proofs --------------------------
(***************************************************************************)
(* Invariance proofs for LobbyCalls: the types, and that no pending call   *)
(* and no disconnected user is forgotten, for any clients, connections and *)
(* call budget; and that no request starts two calls as long as the called *)
(* client answers from one connection.                                     *)
(***************************************************************************)
EXTENDS LobbyCalls, FiniteSetTheorems, TLAPS

USE ConstantsAssumption

\* The three kinds of goroutines are different.
LEMMA ThreadKinds ==
    /\ \A k \in Conns : k \in Threads /\ k \notin CallTimers /\ k \notin GraceTimers
    /\ \A k \in Conns : <<"grace", k>> \in GraceTimers
    /\ \A t \in GraceTimers : t \in Threads /\ t \notin CallTimers
    /\ \A t \in CallTimers : t \in Threads
    /\ \A k, l \in Conns : k # l => <<"grace", k>> # <<"grace", l>>
  BY DEF Threads, CallTimers, GraceTimers

\* A goroutine at an entry point has well-typed locals.
LEMMA StartType ==
    ASSUME NEW pc \in PC
    PROVE  Start(pc) \in Locals
  BY DEF Start, Locals

\* Moving the program counter keeps the locals well-typed.
LEMMA LocalsType ==
    ASSUME NEW l \in Locals, NEW pc \in PC
    PROVE  [l EXCEPT !.pc = pc] \in Locals
  BY DEF Locals

\* What the locals of a goroutine hold.
LEMMA FieldsType ==
    ASSUME NEW l \in Locals
    PROVE  /\ l.caller \in Clients \cup {None}
           /\ l.target \in Clients \cup {None}
           /\ l.n \in Nat
  BY DEF Locals

\* The locals a handler starts a call or a timer with.
LEMMA CallLocalsType ==
    ASSUME NEW l \in Locals, NEW c \in Clients \cup {None}, NEW u \in Clients \cup {None},
           NEW n \in Nat, NEW r \in {"idle", "exit", "leave_incoming"}
    PROVE  /\ [l EXCEPT !.caller = c, !.target = u, !.n = n] \in Locals
           /\ [l EXCEPT !.caller = c, !.target = u, !.ret = r] \in Locals
  BY DEF Locals

\* The goroutine that moves to another step keeps all locals well-typed.
LEMMA GotoType ==
    ASSUME TypeOK, NEW t \in Threads, NEW pc \in PC, Goto(t, pc)
    PROVE  thread' \in [Threads -> Locals]
  BY StartType, LocalsType DEF TypeOK, Goto

\* The same for the goroutine that enters a handler about a call c -> u.
LEMMA EnterType ==
    ASSUME TypeOK, NEW t \in Threads, NEW pc \in PC,
           NEW c \in Clients \cup {None}, NEW u \in Clients \cup {None}, Enter(t, pc, c, u)
    PROVE  thread' \in [Threads -> Locals]
<1> [Start(pc) EXCEPT !.caller = c, !.target = u] \in Locals
  BY DEF Start, Locals
<1> QED
  BY DEF TypeOK, Enter

\* lobby.Manager.SetStatus never adds or removes a user.
LEMMA SetStatusType ==
    ASSUME TypeOK, NEW c, NEW s \in Statuses \ {"none"}, SetStatus(c, s)
    PROVE  /\ status' \in [Clients -> Statuses]
           /\ \A d \in Clients : InLobby(d) <=> InLobby(d)'
  BY DEF TypeOK, SetStatus, InLobby, Statuses

\* The server starts with an empty, well-typed lobby.
LEMMA InitType == Init => TypeOK
<1> "off" \in PC
  BY DEF PC
<1> SUFFICES ASSUME Init PROVE TypeOK
  OBVIOUS
<1>1. thread \in [Threads -> Locals]
  BY StartType DEF Init, PC
<1>2. /\ status \in [Clients -> Statuses]
      /\ \A c \in Clients : disc[c] = None
  BY DEF Init, Statuses
<1> QED
  BY <1>1, <1>2 DEF Init, TypeOK

\* Every critical section keeps the types, and disconnected users in the lobby.
LEMMA TypeStep == TypeOK /\ [Next]_vars => TypeOK'
<1> SUFFICES ASSUME TypeOK, [Next]_vars PROVE TypeOK'
    OBVIOUS
<1> USE ThreadKinds DEF TypeOK, histVars, lobbyVars, clientVars
<1> DEFINE ThreadOK == thread \in [Threads -> Locals]
<1>1. ASSUME NEW k \in Conns, NewClient(k) PROVE TypeOK'
  <2>1. ThreadOK'
    BY <1>1, GotoType DEF NewClient, PC
  <2> QED
    BY <1>1, <2>1, FieldsType DEF NewClient, InLobby
<1>2. ASSUME NEW k \in Conns, Disconnect(k) PROVE TypeOK'
  <2>1. ThreadOK'
    BY <1>2, GotoType DEF Disconnect, PC, ByePC
  <2> QED
    BY <1>2, <2>1, FieldsType DEF Disconnect, InLobby
<1>3. ASSUME NEW k \in Conns, ByeMark(k) PROVE TypeOK'
  <2>1. ThreadOK'
    BY <1>3, StartType, LocalsType DEF ByeMark, PC, ByePC, TimerPC
  <2> QED
    BY <1>3, <2>1, FieldsType DEF ByeMark, InLobby
<1>4. ASSUME NEW k \in Conns, ByeForget(k) PROVE TypeOK'
  <2>1. ThreadOK'
    BY <1>4, GotoType DEF ByeForget, PC
  <2> QED
    BY <1>4, <2>1, FieldsType DEF ByeForget, InLobby
<1>5. ASSUME NEW k \in Conns, LobbyJoin(k) PROVE TypeOK'
  <2>1. ThreadOK'
    BY <1>5, EnterType DEF LobbyJoin, PC, JoinPC
  <2> QED
    BY <1>5, <2>1, FieldsType DEF LobbyJoin, InLobby, Statuses
<1>6. ASSUME NEW k \in Conns, JoinPrune(k) PROVE TypeOK'
  <2>1. ThreadOK'
    BY <1>6, GotoType DEF JoinPrune, PC, JoinPC
  <2> QED
    BY <1>6, <2>1, FieldsType DEF JoinPrune, InLobby
<1>7. ASSUME NEW k \in Conns, JoinAdd(k) PROVE TypeOK'
  <2>1. ThreadOK'
    BY <1>7, GotoType DEF JoinAdd, PC, JoinPC
  <2> QED
    BY <1>7, <2>1, FieldsType DEF JoinAdd, InLobby, Statuses
<1>8. ASSUME NEW k \in Conns, JoinRegister(k) PROVE TypeOK'
  <2>1. ThreadOK'
    BY <1>8, GotoType DEF JoinRegister, PC
  <2> QED
    BY <1>8, <2>1, FieldsType DEF JoinRegister, InLobby
<1>9. ASSUME NEW k \in Conns, LobbyLeave(k) PROVE TypeOK'
  <2>1. ThreadOK'
    BY <1>9, EnterType DEF LobbyLeave, PC, LeavePC
  <2> QED
    BY <1>9, <2>1, FieldsType DEF LobbyLeave, InLobby, Statuses
<1>10. ASSUME NEW k \in Conns, LeaveUnlist(k) PROVE TypeOK'
  <2>1. ThreadOK'
    BY <1>10, GotoType DEF LeaveUnlist, PC, LeavePC
  <2> QED
    BY <1>10, <2>1, FieldsType DEF LeaveUnlist, InLobby
<1>11. ASSUME NEW k \in Conns, LeaveOutgoing(k) PROVE TypeOK'
  <2>1. [Start("cancel_snapshot") EXCEPT !.caller = IdOf[k], !.target = pending[IdOf[k]],
                                          !.ret = "leave_incoming"] \in Locals
    BY ZenonT(30), <1>11, StartType, LocalsType, FieldsType, CallLocalsType, GotoType DEF LeaveOutgoing, PC, CancelPC
  <2>2. ThreadOK'
    BY ZenonT(30), <1>11, StartType, LocalsType, FieldsType, CallLocalsType, GotoType, <2>1 DEF LeaveOutgoing, PC, LeavePC
  <2> QED
    BY SMTT(30), <1>11, <2>2, FieldsType DEF LeaveOutgoing, InLobby
<1>12. ASSUME NEW k \in Conns, LeaveIncoming(k) PROVE TypeOK'
  <2>1. ThreadOK'
    BY <1>12, GotoType DEF LeaveIncoming, PC, LeavePC
  <2>2. pending' \in [Clients -> Clients \cup {None}]
    BY <1>12 DEF LeaveIncoming
  <2>3. /\ status' \in [Clients -> Statuses]
        /\ \A d \in Clients : InLobby(d) <=> InLobby(d)'
        /\ hubHung' \in BOOLEAN
    BY <1>12, SetStatusType DEF LeaveIncoming, Statuses, InLobby
  <2> QED
    BY <1>12, <2>1, <2>2, <2>3 DEF LeaveIncoming
<1>13. ASSUME NEW k \in Conns, CallCheck(k) PROVE TypeOK'
  <2>1. ThreadOK'
    BY <1>13, GotoType DEF CallCheck, PC, RequestPC
  <2> QED
    BY <1>13, <2>1, FieldsType DEF CallCheck, InLobby
<1>14. ASSUME NEW k \in Conns, CallStore(k) PROVE TypeOK'
  <2>1. ThreadOK'
    BY <1>14, GotoType DEF CallStore, PC, RequestPC
  <2>2. pending' \in [Clients -> Clients \cup {None}]
    BY <1>14, FieldsType DEF CallStore
  <2> QED
    BY <1>14, <2>1, FieldsType, <2>2 DEF CallStore, InLobby
<1>15. ASSUME NEW k \in Conns, CallBusy(k) PROVE TypeOK'
  <2>1. ThreadOK'
    BY <1>15, GotoType DEF CallBusy, PC, RequestPC
  <2> QED
    BY <1>15, <2>1, SetStatusType, FieldsType DEF CallBusy, Statuses, InLobby
<1>16. ASSUME NEW k \in Conns, CallRing(k) PROVE TypeOK'
  <2>1. [Start("call_sleep") EXCEPT !.caller = IdOf[k], !.target = thread[k].target,
                                     !.ret = "exit"] \in Locals
    BY ZenonT(30), <1>16, StartType, LocalsType, FieldsType, CallLocalsType DEF CallRing, PC, TimerPC
  <2>2. ThreadOK'
    BY ZenonT(30), <1>16, StartType, LocalsType, FieldsType, CallLocalsType, <2>1 DEF CallRing, PC, TimerPC
  <2>3. heard' \in [Clients -> SUBSET Clients]
    <3> DEFINE u == thread[k].target
               new == IF clients[u] # None THEN heard[u] \cup {IdOf[k]} ELSE heard[u]
    <3>1. heard' = [heard EXCEPT ![u] = new]
      BY <1>16 DEF CallRing
    <3>2. IdOf[k] \in Clients
      BY ConstantsAssumption
    <3>3. u \in Clients => new \in SUBSET Clients
      BY <3>2
    <3> HIDE DEF u, new
    <3> QED
      BY <3>1, <3>3
  <2> QED
    BY <1>16, <2>2, FieldsType, <2>3 DEF CallRing, InLobby
<1>17. ASSUME NEW k \in Conns, AcceptTake(k) PROVE TypeOK'
  <2>1. ThreadOK'
    BY <1>17, GotoType DEF AcceptTake, Take, PC, AcceptPC
  <2> QED
    BY <1>17, <2>1, FieldsType DEF AcceptTake, Take, InLobby
<1>18. ASSUME NEW k \in Conns, AcceptSelf(k) PROVE TypeOK'
  <2>1. ThreadOK'
    BY <1>18, GotoType DEF AcceptSelf, PC, AcceptPC
  <2> QED
    BY <1>18, <2>1, SetStatusType, FieldsType DEF AcceptSelf, Statuses, InLobby
<1>19. ASSUME NEW k \in Conns, AcceptCaller(k) PROVE TypeOK'
  <2>1. ThreadOK'
    BY <1>19, GotoType DEF AcceptCaller, PC, AcceptPC
  <2> QED
    BY <1>19, <2>1, SetStatusType, FieldsType DEF AcceptCaller, Statuses, InLobby
<1>20. ASSUME NEW k \in Conns, AcceptStart(k) PROVE TypeOK'
  <2>1. ThreadOK'
    BY <1>20, GotoType DEF AcceptStart, PC
  <2>2. \A c \in Clients : starts[c] + 1 \in Nat
    OBVIOUS
  <2>3. starts' \in [Clients -> Nat]
    BY <1>20, <2>2, FieldsType DEF AcceptStart
  <2> QED
    BY <1>20, <2>1, FieldsType, <2>3 DEF AcceptStart, InLobby
<1>21. ASSUME NEW k \in Conns, DeclineTake(k) PROVE TypeOK'
  <2>1. ThreadOK'
    BY <1>21, GotoType DEF DeclineTake, Take, PC, DeclinePC
  <2> QED
    BY <1>21, <2>1, FieldsType DEF DeclineTake, Take, InLobby
<1>22. ASSUME NEW k \in Conns, DeclineFree(k) PROVE TypeOK'
  <2>1. ThreadOK'
    BY <1>22, GotoType DEF DeclineFree, PC, DeclinePC
  <2> QED
    BY <1>22, <2>1, SetStatusType, FieldsType DEF DeclineFree, Statuses, InLobby
<1>23. ASSUME NEW k \in Conns, DeclineNotify(k) PROVE TypeOK'
  <2>1. ThreadOK'
    BY <1>23, GotoType DEF DeclineNotify, PC
  <2> QED
    BY <1>23, <2>1, FieldsType DEF DeclineNotify, InLobby
<1>24. ASSUME NEW k \in Conns, CallCancel(k) PROVE TypeOK'
  <2>1. ThreadOK'
    BY <1>24, EnterType DEF CallCancel, PC, CancelPC
  <2> QED
    BY <1>24, <2>1, FieldsType DEF CallCancel, InLobby
<1>25. ASSUME NEW k \in Conns, GraceCheck(k) PROVE TypeOK'
  <2>1. ThreadOK'
    BY <1>25, GotoType DEF GraceCheck, PC, TimerPC
  <2> QED
    BY <1>25, <2>1, FieldsType DEF GraceCheck, InLobby
<1>26. ASSUME NEW k \in Conns, GraceOffline(k) PROVE TypeOK'
  <2>1. ThreadOK'
    BY <1>26, GotoType DEF GraceOffline, PC, TimerPC
  <2> QED
    BY <1>26, <2>1, SetStatusType, FieldsType DEF GraceOffline, Statuses, InLobby
<1>27. ASSUME NEW k \in Conns, GraceUnlist(k) PROVE TypeOK'
  <2>1. ThreadOK'
    BY <1>27, GotoType DEF GraceUnlist, PC
  <2> QED
    BY <1>27, <2>1, FieldsType DEF GraceUnlist, InLobby
<1>28. ASSUME NEW k \in Conns, NEW u \in Clients, CallRequest(k, u) PROVE TypeOK'
  <2>1. calls[IdOf[k]] + 1 \in Nat
    BY SMTT(30)
  <2>2. [Start("call_check") EXCEPT !.caller = IdOf[k], !.target = u, !.n = calls[IdOf[k]] + 1] \in Locals
    BY ZenonT(30), <1>28, StartType, LocalsType, FieldsType, CallLocalsType, <2>1 DEF CallRequest, PC, RequestPC
  <2>3. ThreadOK'
    BY <1>28, StartType, LocalsType, FieldsType, CallLocalsType, <2>1, <2>2 DEF CallRequest, PC, RequestPC
  <2> QED
    BY <1>28, <2>3, FieldsType DEF CallRequest, InLobby
<1>29. ASSUME NEW k \in Conns, NEW c \in Clients, CallAccept(k, c) PROVE TypeOK'
  <2>1. ThreadOK'
    BY <1>29, EnterType DEF CallAccept, PC, AcceptPC
  <2> QED
    BY <1>29, <2>1, FieldsType DEF CallAccept, InLobby
<1>30. ASSUME NEW k \in Conns, NEW c \in Clients, CallDecline(k, c) PROVE TypeOK'
  <2>1. ThreadOK'
    BY <1>30, EnterType DEF CallDecline, PC, DeclinePC
  <2> QED
    BY <1>30, <2>1, FieldsType DEF CallDecline, InLobby
<1>31. ASSUME NEW t \in Threads, CallTimeout(t) PROVE TypeOK'
  <2>1. ThreadOK'
    BY <1>31, GotoType DEF CallTimeout, PC, CancelPC
  <2> QED
    BY <1>31, <2>1, FieldsType DEF CallTimeout, InLobby
<1>32. ASSUME NEW t \in Threads, CancelSnapshot(t) PROVE TypeOK'
  <2>1. ThreadOK'
    BY <1>32, GotoType DEF CancelSnapshot, PC, CancelPC
  <2> QED
    BY <1>32, <2>1, FieldsType DEF CancelSnapshot, InLobby
<1>33. ASSUME NEW t \in Threads, CancelTake(t) PROVE TypeOK'
  <2>1. ThreadOK'
    BY <1>33, GotoType DEF CancelTake, Take, PC, CancelPC
  <2> QED
    BY <1>33, <2>1, FieldsType DEF CancelTake, Take, InLobby
<1>34. ASSUME NEW t \in Threads, CancelFree(t) PROVE TypeOK'
  <2>1. ThreadOK'
    BY <1>34, GotoType DEF CancelFree, PC, CancelPC
  <2> QED
    BY <1>34, <2>1, SetStatusType, FieldsType DEF CancelFree, Statuses, InLobby
<1>35. ASSUME NEW t \in Threads, CancelNotify(t) PROVE TypeOK'
  <2>1. ThreadOK'
    BY <1>35, GotoType DEF CancelNotify, PC, LeavePC, Locals
  <2> QED
    BY <1>35, <2>1, FieldsType DEF CancelNotify, InLobby
<1>36. ASSUME CleanupOffline PROVE TypeOK'
  BY <1>36 DEF CleanupOffline, Statuses, InLobby
<1>37. ASSUME UNCHANGED vars PROVE TypeOK'
  BY <1>37 DEF vars, InLobby
<1>38. ASSUME NEW k \in Conns, Register(k) PROVE TypeOK'
  BY <1>38, FieldsType DEF Register, InLobby
<1> HIDE DEF TypeOK
<1> QED
  BY <1>1, <1>2, <1>3, <1>4, <1>5, <1>6, <1>7, <1>8, <1>9, <1>10, <1>11, <1>12, <1>13, <1>14, <1>15, <1>16, <1>17, <1>18, <1>19, <1>20, <1>21, <1>22, <1>23, <1>24, <1>25, <1>26, <1>27, <1>28, <1>29, <1>30, <1>31, <1>32, <1>33, <1>34, <1>35, <1>36, <1>37, <1>38
     DEF Next, Browser, Handler, Cancel, Grace

\* Types hold throughout; only users of the lobby are ever "disconnected".
THEOREM TypeCorrect == Spec => []TypeOK
<1> QED
  BY InitType, TypeStep, PTL DEF Spec

-----------------------------------------------------------------------------
(* The invariant that makes PendingHasTimer inductive: a request owns the  *)
(* timer slot it numbered, and no other request or running timer uses it;  *)
(* and a user is disconnected only by a connection of that user.           *)

SlotFree(c, n) == thread[<<"call", c, n>>].pc = "off"

SlotsFresh ==
    /\ \A c \in Clients : calls[c] <= MaxCalls[c]
    /\ \A c \in Clients : \A n \in 1..MaxCalls[c] : n > calls[c] => SlotFree(c, n)
    /\ \A k \in Conns : thread[k].pc \in RequestPC =>
          /\ thread[k].caller = IdOf[k]
          /\ thread[k].n \in 1..calls[IdOf[k]]
          /\ SlotFree(IdOf[k], thread[k].n)
    /\ \A k, l \in Conns :
          /\ k # l /\ IdOf[k] = IdOf[l]
          /\ thread[k].pc \in RequestPC /\ thread[l].pc \in RequestPC
          => thread[k].n # thread[l].n

DiscOwn == \A c \in Clients : disc[c] # None => IdOf[disc[c]] = c

IInv ==
    /\ TypeOK
    /\ SlotsFresh
    /\ PendingHasTimer
    /\ DiscOwn
    /\ DisconnectedHasGrace

Watching(t) ==
    \/ t \in Conns /\ thread[t].pc \in {"call_busy", "call_ring"}
    \/ t \in CallTimers /\ thread[t].pc \in {"call_sleep", "cancel_snapshot", "cancel_take"}

OthersStay(t) == \A s \in Threads \ {t} : thread'[s] = thread[s]

OnlyCleared ==
    /\ \A c \in Clients : pending'[c] \in {pending[c], None}
    /\ \A c \in Clients : disc'[c] \in {disc[c], None}
    /\ calls' = calls

\* A step of one goroutine that the invariant hardly notices.
Bystander(t) ==
    /\ OthersStay(t) /\ OnlyCleared
    /\ ~Watching(t)
    /\ thread[t].pc \notin {"grace_sleep", "grace_offline"}
    /\ t \in CallTimers => thread[t].pc # "off"
    /\ \/ thread'[t].pc \notin RequestPC
       \/ /\ thread[t].pc \in RequestPC
          /\ thread'[t].caller = thread[t].caller
          /\ thread'[t].n = thread[t].n

\* The slots of a client are call timers.
LEMMA SlotThread ==
    \A c \in Clients : \A n \in 1..MaxCalls[c] : <<"call", c, n>> \in CallTimers
  BY DEF CallTimers

\* Slots stay fresh when neither slots nor requests change hands.
LEMMA SlotsFrame ==
    ASSUME TypeOK, SlotsFresh, NEW t \in Threads, OthersStay(t), calls' = calls,
           t \in CallTimers => thread[t].pc # "off",
           \/ t \notin Conns
           \/ thread'[t].pc \notin RequestPC
           \/ /\ thread[t].pc \in RequestPC
              /\ thread'[t].caller = thread[t].caller
              /\ thread'[t].n = thread[t].n
    PROVE  SlotsFresh'
<1> USE ThreadKinds, SlotThread DEF TypeOK
<1>1. \A c \in Clients : \A n \in 1..MaxCalls[c] : SlotFree(c, n) => SlotFree(c, n)'
  BY DEF SlotFree, OthersStay
<1>2. \A k \in Conns : thread'[k].pc \in RequestPC =>
          /\ thread[k].pc \in RequestPC
          /\ thread'[k].caller = thread[k].caller
          /\ thread'[k].n = thread[k].n
  BY DEF OthersStay
<1>3. \A k \in Conns : thread[k].pc \in RequestPC => thread[k].n \in 1..MaxCalls[IdOf[k]]
  BY DEF SlotsFresh
<1> QED
  BY <1>1, <1>2, <1>3 DEF SlotsFresh

\* A bystander keeps the whole invariant.
LEMMA BystanderStep ==
    ASSUME IInv, NEW t \in Threads, Bystander(t), TypeOK'
    PROVE  IInv'
<1> USE ThreadKinds DEF IInv, Bystander, OnlyCleared
<1>1. SlotsFresh'
  BY SlotsFrame
<1>2. PendingHasTimer'
  BY DEF PendingHasTimer, WatchesCall, Watching, OthersStay, TypeOK
<1>3. DiscOwn'
  BY DEF DiscOwn, TypeOK
<1>4. DisconnectedHasGrace'
  BY DEF DisconnectedHasGrace, OthersStay, TypeOK
<1> QED
  BY <1>1, <1>2, <1>3, <1>4

\* The requirements of SlotsFrame on the goroutine that moves.
OnlySlots(t) ==
    /\ calls' = calls
    /\ t \in CallTimers => thread[t].pc # "off"
    /\ \/ t \notin Conns
       \/ thread'[t].pc \notin RequestPC
       \/ /\ thread[t].pc \in RequestPC
          /\ thread'[t].caller = thread[t].caller
          /\ thread'[t].n = thread[t].n

\* SlotsFrame, stated from the whole invariant.
LEMMA RequestFrame ==
    ASSUME IInv, NEW t \in Threads, OthersStay(t), OnlySlots(t)
    PROVE  SlotsFresh'
  BY SlotsFrame DEF IInv, OnlySlots

\* A goroutine that watches no call and touches none leaves all calls watched.
LEMMA WatchFrame ==
    ASSUME IInv, NEW t \in Threads, OthersStay(t), ~Watching(t), pending' = pending
    PROVE  PendingHasTimer'
  BY DEF IInv, PendingHasTimer, WatchesCall, Watching, OthersStay

\* A goroutine that is no grace timer leaves the disconnected users alone.
LEMMA DiscFrame ==
    ASSUME IInv, NEW t \in Threads, OthersStay(t), disc' = disc,
           thread[t].pc \notin {"grace_sleep", "grace_offline"}
    PROVE  DiscOwn' /\ DisconnectedHasGrace'
  BY ThreadKinds DEF IInv, DiscOwn, DisconnectedHasGrace, OthersStay, TypeOK

\* The invariant holds of the empty lobby.
LEMMA InvInit == Init => IInv
<1> SUFFICES ASSUME Init PROVE IInv
    OBVIOUS
<1>1. TypeOK
  BY InitType
<1>2. SlotsFresh
  BY ThreadKinds, SlotThread DEF Init, SlotsFresh, SlotFree, RequestPC, Start
<1> QED
  BY <1>1, <1>2 DEF Init, IInv, PendingHasTimer, DiscOwn, DisconnectedHasGrace

\* Every critical section keeps the invariant, one step per action.
LEMMA InvStep == IInv /\ [Next]_vars => IInv'
<1> SUFFICES ASSUME IInv, [Next]_vars PROVE IInv'
    OBVIOUS
<1>0. TypeOK /\ TypeOK'
  BY TypeStep DEF IInv
<1> DEFINE TimerOf(k) == <<"call", IdOf[k], thread[k].n>>
<1> USE ThreadKinds, <1>0
<1>1. ASSUME NEW k \in Conns, NewClient(k) PROVE IInv'
  <2>1. Bystander(k)
    BY <1>1 DEF NewClient, Goto, Start, At, Bystander, OthersStay, OnlyCleared, Watching, RequestPC, TypeOK,
       Locals, histVars, lobbyVars, clientVars
  <2> QED
    BY <2>1, BystanderStep
<1>2. ASSUME NEW k \in Conns, Disconnect(k) PROVE IInv'
  <2>1. Bystander(k)
    BY <1>2 DEF Disconnect, Goto, Start, At, Bystander, OthersStay, OnlyCleared, Watching, RequestPC, TypeOK,
       Locals, histVars, lobbyVars, clientVars
  <2> QED
    BY <2>1, BystanderStep
<1>3. ASSUME NEW k \in Conns, ByeForget(k) PROVE IInv'
  <2>1. Bystander(k)
    BY <1>3 DEF ByeForget, Goto, Start, At, Bystander, OthersStay, OnlyCleared, Watching, RequestPC, TypeOK,
       Locals, histVars, lobbyVars, clientVars
  <2> QED
    BY <2>1, BystanderStep
<1>4. ASSUME NEW k \in Conns, LobbyJoin(k) PROVE IInv'
  <2>1. Bystander(k)
    BY <1>4 DEF LobbyJoin, Enter, Start, At, Bystander, OthersStay, OnlyCleared, Watching, RequestPC, TypeOK,
       Locals, histVars, lobbyVars, clientVars
  <2> QED
    BY <2>1, BystanderStep
<1>5. ASSUME NEW k \in Conns, JoinPrune(k) PROVE IInv'
  <2>1. Bystander(k)
    BY <1>5 DEF JoinPrune, Goto, Start, At, Bystander, OthersStay, OnlyCleared, Watching, RequestPC, TypeOK,
       Locals, histVars, lobbyVars, clientVars
  <2> QED
    BY <2>1, BystanderStep
<1>6. ASSUME NEW k \in Conns, JoinAdd(k) PROVE IInv'
  <2>1. Bystander(k)
    BY <1>6 DEF JoinAdd, Goto, Start, At, Bystander, OthersStay, OnlyCleared, Watching, RequestPC, TypeOK,
       Locals, histVars, lobbyVars, clientVars
  <2> QED
    BY <2>1, BystanderStep
<1>7. ASSUME NEW k \in Conns, JoinRegister(k) PROVE IInv'
  <2>1. Bystander(k)
    BY <1>7 DEF JoinRegister, Goto, Start, At, Bystander, OthersStay, OnlyCleared, Watching, RequestPC, TypeOK,
       Locals, histVars, lobbyVars, clientVars
  <2> QED
    BY <2>1, BystanderStep
<1>8. ASSUME NEW k \in Conns, LobbyLeave(k) PROVE IInv'
  <2>1. Bystander(k)
    BY <1>8 DEF LobbyLeave, Enter, Start, At, Bystander, OthersStay, OnlyCleared, Watching, RequestPC, TypeOK,
       Locals, histVars, lobbyVars, clientVars
  <2> QED
    BY <2>1, BystanderStep
<1>9. ASSUME NEW k \in Conns, LeaveUnlist(k) PROVE IInv'
  <2>1. Bystander(k)
    BY <1>9 DEF LeaveUnlist, Goto, Start, At, Bystander, OthersStay, OnlyCleared, Watching, RequestPC, TypeOK,
       Locals, histVars, lobbyVars, clientVars
  <2> QED
    BY <2>1, BystanderStep
<1>10. ASSUME NEW k \in Conns, LeaveOutgoing(k) PROVE IInv'
  <2>1. /\ thread[k].pc = "leave_outgoing" /\ OthersStay(k)
        /\ thread'[k].pc \in {"leave_incoming", "cancel_snapshot"}
        /\ pending' = pending /\ disc' = disc /\ calls' = calls
    <3>1. CASE pending[IdOf[k]] = None
      BY <1>10, <3>1 DEF LeaveOutgoing, Goto, At, OthersStay, TypeOK, Locals, histVars, lobbyVars, clientVars
    <3>2. CASE pending[IdOf[k]] # None
      <4> DEFINE Cancelling == [Start("cancel_snapshot") EXCEPT !.caller = IdOf[k],
                                    !.target = pending[IdOf[k]], !.ret = "leave_incoming"]
      <4>1. Cancelling.pc = "cancel_snapshot"
        BY DEF Start
      <4> HIDE DEF Cancelling
      <4>2. thread' = [thread EXCEPT ![k] = Cancelling]
        BY <1>10, <3>2 DEF LeaveOutgoing, Cancelling
      <4> QED
        BY <1>10, <4>1, <4>2 DEF LeaveOutgoing, At, OthersStay, TypeOK, histVars, lobbyVars, clientVars
    <3> QED
      BY <3>1, <3>2
  <2>2. Bystander(k)
    BY <2>1 DEF Bystander, OnlyCleared, Watching, RequestPC, TypeOK
  <2> QED
    BY <2>2, BystanderStep
<1>11. ASSUME NEW k \in Conns, LeaveIncoming(k) PROVE IInv'
  <2>1. Bystander(k)
    BY <1>11 DEF LeaveIncoming, Goto, Start, At, Bystander, OthersStay, OnlyCleared, Watching, RequestPC, TypeOK,
       Locals, histVars, lobbyVars, clientVars
  <2> QED
    BY <2>1, BystanderStep
<1>12. ASSUME NEW k \in Conns, CallCheck(k) PROVE IInv'
  <2>1. Bystander(k)
    BY <1>12 DEF CallCheck, Goto, Start, At, Bystander, OthersStay, OnlyCleared, Watching, RequestPC, TypeOK,
       Locals, histVars, lobbyVars, clientVars
  <2> QED
    BY <2>1, BystanderStep
<1>13. ASSUME NEW k \in Conns, NEW c \in Clients, CallAccept(k, c) PROVE IInv'
  <2>1. Bystander(k)
    BY <1>13 DEF CallAccept, Answers, Enter, Start, At, Bystander, OthersStay, OnlyCleared, Watching, RequestPC, TypeOK,
       Locals, histVars, lobbyVars, clientVars
  <2> QED
    BY <2>1, BystanderStep
<1>14. ASSUME NEW k \in Conns, AcceptTake(k) PROVE IInv'
  <2>1. Bystander(k)
    BY <1>14 DEF AcceptTake, Take, Goto, Start, At, Bystander, OthersStay, OnlyCleared, Watching, RequestPC, TypeOK,
       Locals, histVars, lobbyVars, clientVars
  <2> QED
    BY <2>1, BystanderStep
<1>15. ASSUME NEW k \in Conns, AcceptSelf(k) PROVE IInv'
  <2>1. Bystander(k)
    BY <1>15 DEF AcceptSelf, Goto, Start, At, Bystander, OthersStay, OnlyCleared, Watching, RequestPC, TypeOK,
       Locals, histVars, lobbyVars, clientVars
  <2> QED
    BY <2>1, BystanderStep
<1>16. ASSUME NEW k \in Conns, AcceptCaller(k) PROVE IInv'
  <2>1. Bystander(k)
    BY <1>16 DEF AcceptCaller, Goto, Start, At, Bystander, OthersStay, OnlyCleared, Watching, RequestPC, TypeOK,
       Locals, histVars, lobbyVars, clientVars
  <2> QED
    BY <2>1, BystanderStep
<1>17. ASSUME NEW k \in Conns, AcceptStart(k) PROVE IInv'
  <2>1. Bystander(k)
    BY <1>17 DEF AcceptStart, Goto, Start, At, Bystander, OthersStay, OnlyCleared, Watching, RequestPC, TypeOK,
       Locals, histVars, lobbyVars, clientVars
  <2> QED
    BY <2>1, BystanderStep
<1>18. ASSUME NEW k \in Conns, NEW c \in Clients, CallDecline(k, c) PROVE IInv'
  <2>1. Bystander(k)
    BY <1>18 DEF CallDecline, Answers, Enter, Start, At, Bystander, OthersStay, OnlyCleared, Watching, RequestPC, TypeOK,
       Locals, histVars, lobbyVars, clientVars
  <2> QED
    BY <2>1, BystanderStep
<1>19. ASSUME NEW k \in Conns, DeclineTake(k) PROVE IInv'
  <2>1. Bystander(k)
    BY <1>19 DEF DeclineTake, Take, Goto, Start, At, Bystander, OthersStay, OnlyCleared, Watching, RequestPC, TypeOK,
       Locals, histVars, lobbyVars, clientVars
  <2> QED
    BY <2>1, BystanderStep
<1>20. ASSUME NEW k \in Conns, DeclineFree(k) PROVE IInv'
  <2>1. Bystander(k)
    BY <1>20 DEF DeclineFree, Goto, Start, At, Bystander, OthersStay, OnlyCleared, Watching, RequestPC, TypeOK,
       Locals, histVars, lobbyVars, clientVars
  <2> QED
    BY <2>1, BystanderStep
<1>21. ASSUME NEW k \in Conns, DeclineNotify(k) PROVE IInv'
  <2>1. Bystander(k)
    BY <1>21 DEF DeclineNotify, Goto, Start, At, Bystander, OthersStay, OnlyCleared, Watching, RequestPC, TypeOK,
       Locals, histVars, lobbyVars, clientVars
  <2> QED
    BY <2>1, BystanderStep
<1>22. ASSUME NEW k \in Conns, CallCancel(k) PROVE IInv'
  <2>1. Bystander(k)
    BY <1>22 DEF CallCancel, Enter, Start, At, Bystander, OthersStay, OnlyCleared, Watching, RequestPC, TypeOK,
       Locals, histVars, lobbyVars, clientVars
  <2> QED
    BY <2>1, BystanderStep
<1>23. ASSUME NEW t \in Threads, CancelFree(t) PROVE IInv'
  <2>1. Bystander(t)
    BY <1>23 DEF CancelFree, Goto, Start, At, Bystander, OthersStay, OnlyCleared, Watching, RequestPC, TypeOK,
       Locals, histVars, lobbyVars, clientVars
  <2> QED
    BY <2>1, BystanderStep
<1>24. ASSUME NEW t \in Threads, CancelNotify(t) PROVE IInv'
  <2>1. Bystander(t)
    BY <1>24 DEF CancelNotify, Goto, Start, At, Bystander, OthersStay, OnlyCleared, Watching, RequestPC, TypeOK,
       Locals, histVars, lobbyVars, clientVars
  <2> QED
    BY <2>1, BystanderStep
<1>25. ASSUME NEW k \in Conns, GraceUnlist(k) PROVE IInv'
  <2>1. Bystander(<<"grace", k>>)
    BY <1>25 DEF GraceUnlist, Goto, Start, At, Bystander, OthersStay, OnlyCleared, Watching, RequestPC, TypeOK,
       Locals, histVars, lobbyVars, clientVars
  <2> QED
    BY <2>1, BystanderStep
<1>26. ASSUME NEW k \in Conns, NEW u \in Clients, CallRequest(k, u) PROVE IInv'
  <2>1. /\ OthersStay(k) /\ ~Watching(k)
        /\ thread[k].pc = "idle"
        /\ thread'[k].pc = "call_check" /\ thread'[k].caller = IdOf[k]
        /\ thread'[k].n = calls[IdOf[k]] + 1
        /\ calls[IdOf[k]] < MaxCalls[IdOf[k]]
        /\ calls' = [calls EXCEPT ![IdOf[k]] = @ + 1]
        /\ pending' = pending /\ disc' = disc
    BY <1>26 DEF CallRequest, Start, At, OthersStay, Watching, TypeOK, lobbyVars, clientVars
  <2>2. SlotsFresh'
    <3>1. \A c \in Clients : calls[c] \in Nat /\ MaxCalls[c] \in Nat /\ calls[c] <= MaxCalls[c]
      BY DEF IInv, SlotsFresh, TypeOK
    <3>2. \A c \in Clients : \A n \in 1..MaxCalls[c] : SlotFree(c, n) => SlotFree(c, n)'
      BY <2>1, SlotThread DEF SlotFree, OthersStay
    <3>3. \A l \in Conns : l # k => thread'[l] = thread[l]
      BY <2>1 DEF OthersStay
    <3>4. thread'[<<"call", IdOf[k], calls[IdOf[k]] + 1>>].pc = "off"
      <4>1. SlotFree(IdOf[k], calls[IdOf[k]] + 1)
        BY <2>1, <3>1 DEF IInv, SlotsFresh
      <4> QED
        BY <4>1, <2>1, <3>1, SlotThread DEF SlotFree, OthersStay
    <3>5. \A l \in Conns : thread[l].pc \in RequestPC =>
              thread[l].n \in 1..calls[IdOf[l]] /\ thread[l].n \in 1..MaxCalls[IdOf[l]]
      BY <3>1 DEF IInv, SlotsFresh
    <3>6. \A c \in Clients : calls'[c] <= MaxCalls[c] /\ calls[c] <= calls'[c] /\ calls'[c] \in Nat
      BY <2>1, <3>1, <1>0 DEF TypeOK
    <3>7. calls'[IdOf[k]] = calls[IdOf[k]] + 1
      BY <2>1 DEF TypeOK
    <3>8. \A l \in Conns : thread'[l].pc \in RequestPC =>
              /\ thread'[l].caller = IdOf[l]
              /\ thread'[l].n \in 1..calls'[IdOf[l]]
              /\ thread'[<<"call", IdOf[l], thread'[l].n>>].pc = "off"
      <4> TAKE l \in Conns
      <4>1. CASE l = k
        BY <4>1, <2>1, <3>1, <3>4, <3>7
      <4>2. CASE l # k
        BY <4>2, <3>1, <3>2, <3>3, <3>5, <3>6 DEF IInv, SlotsFresh, SlotFree
      <4> QED
        BY <4>1, <4>2
    <3>9. \A c \in Clients : \A n \in 1..MaxCalls[c] : n > calls'[c] => SlotFree(c, n)'
      BY <3>1, <3>2, <3>6 DEF IInv, SlotsFresh
    <3>10. \A l, m \in Conns :
              /\ l # m /\ IdOf[l] = IdOf[m]
              /\ thread'[l].pc \in RequestPC /\ thread'[m].pc \in RequestPC
              => thread'[l].n # thread'[m].n
      BY <2>1, <3>1, <3>3, <3>5 DEF IInv, SlotsFresh
    <3> QED
      BY <3>6, <3>8, <3>9, <3>10 DEF SlotsFresh, SlotFree
  <2>3. PendingHasTimer'
    BY <2>1, WatchFrame DEF IInv
  <2> QED
    BY <2>1, <2>2, <2>3, DiscFrame DEF IInv
<1>27. ASSUME NEW k \in Conns, CallStore(k) PROVE IInv'
  <2>1. /\ OthersStay(k) /\ OnlySlots(k)
        /\ thread[k].pc = "call_store" /\ thread'[k].pc = "call_busy"
        /\ thread'[k].target = thread[k].target
        /\ pending' = [pending EXCEPT ![IdOf[k]] = thread[k].target]
        /\ disc' = disc
    BY <1>27 DEF CallStore, Goto, Start, At, OthersStay, OnlySlots, RequestPC, TypeOK, Locals,
       lobbyVars, clientVars, histVars
  <2>2. thread'[k].caller = IdOf[k]
    BY <2>1 DEF IInv, SlotsFresh, OnlySlots, RequestPC
  <2>3. PendingHasTimer'
    <3> SUFFICES ASSUME NEW c \in Clients, NEW u \in Clients, pending'[c] = u
                 PROVE  \E t \in Threads : WatchesCall(t, c, u)'
      BY DEF PendingHasTimer, WatchesCall, TypeOK
    <3>1. CASE c = IdOf[k]
      BY <3>1, <2>1, <2>2 DEF WatchesCall, TypeOK
    <3>2. CASE c # IdOf[k]
      <4>1. PICK t \in Threads : WatchesCall(t, c, u)
        BY <3>2, <2>1 DEF IInv, PendingHasTimer, TypeOK
      <4>2. t # k
        BY <4>1, <2>1 DEF WatchesCall
      <4> QED
        BY <4>1, <4>2, <3>2, <2>1 DEF WatchesCall, OthersStay, TypeOK
    <3> QED
      BY <3>1, <3>2
  <2> QED
    BY <2>1, <2>3, RequestFrame, DiscFrame DEF IInv
<1>28. ASSUME NEW k \in Conns, CallBusy(k) PROVE IInv'
  <2>1. /\ OthersStay(k) /\ OnlySlots(k)
        /\ thread[k].pc = "call_busy" /\ thread'[k].pc = "call_ring"
        /\ thread'[k].caller = thread[k].caller /\ thread'[k].target = thread[k].target
        /\ pending' = pending /\ disc' = disc
    BY <1>28 DEF CallBusy, Goto, Start, At, OthersStay, OnlySlots, RequestPC, TypeOK, Locals,
       histVars
  <2>2. PendingHasTimer'
    BY <2>1 DEF IInv, PendingHasTimer, WatchesCall, OthersStay
  <2> QED
    BY <2>1, <2>2, RequestFrame, DiscFrame DEF IInv
<1>29. ASSUME NEW k \in Conns, CallRing(k) PROVE IInv'
  <2>1. /\ thread[k].pc = "call_ring" /\ thread[k].caller = IdOf[k]
        /\ thread[k].n \in 1..calls[IdOf[k]] /\ thread[k].n \in 1..MaxCalls[IdOf[k]]
        /\ SlotFree(IdOf[k], thread[k].n)
        /\ calls' = calls /\ pending' = pending /\ disc' = disc
    BY <1>29 DEF CallRing, At, IInv, SlotsFresh, RequestPC, TypeOK, lobbyVars, clientVars
  <2>2. TimerOf(k) \in CallTimers /\ thread[TimerOf(k)].pc = "off"
    BY <2>1, SlotThread DEF SlotFree
  <2>3. /\ thread'[TimerOf(k)].pc = "call_sleep"
        /\ thread'[TimerOf(k)].caller = IdOf[k]
        /\ thread'[TimerOf(k)].target = thread[k].target
        /\ thread'[k].pc = "idle"
        /\ \A t \in Threads : t # k /\ t # TimerOf(k) => thread'[t] = thread[t]
    <3> DEFINE Timer == [Start("call_sleep") EXCEPT !.caller = IdOf[k], !.target = thread[k].target,
                                                  !.ret = "exit"]
    <3>1. Timer.pc = "call_sleep" /\ Timer.caller = IdOf[k] /\ Timer.target = thread[k].target
      BY DEF Start
    <3>2. TimerOf(k) \in Threads /\ k # TimerOf(k)
      BY <2>2
    <3> HIDE DEF Timer
    <3>3. thread' = [thread EXCEPT ![k] = Start("idle"), ![TimerOf(k)] = Timer]
      BY <1>29 DEF CallRing, Timer
    <3>4. thread'[TimerOf(k)] = Timer /\ thread'[k] = Start("idle")
      BY <3>2, <3>3 DEF TypeOK
    <3> QED
      BY <3>1, <3>3, <3>4 DEF Start, TypeOK
  <2>4. SlotsFresh'
    <3>1. \A l \in Conns : thread'[l].pc \in RequestPC => l # k /\ thread'[l] = thread[l]
      BY <2>2, <2>3 DEF RequestPC
    <3>2. \A c \in Clients : \A n \in 1..MaxCalls[c] :
             SlotFree(c, n) => \/ SlotFree(c, n)'
                               \/ <<"call", c, n>> = TimerOf(k)
      BY <2>3, SlotThread DEF SlotFree
    <3>3. \A c \in Clients : \A n \in 1..MaxCalls[c] :
             <<"call", c, n>> = TimerOf(k) => c = IdOf[k] /\ n = thread[k].n
      OBVIOUS
    <3>4. \A c \in Clients : calls[c] \in Nat /\ MaxCalls[c] \in Nat /\ calls[c] <= MaxCalls[c]
      BY DEF IInv, SlotsFresh, TypeOK
    <3>5. \A c \in Clients : \A n \in 1..MaxCalls[c] : n > calls'[c] => SlotFree(c, n)'
      BY <2>1, <3>2, <3>3, <3>4 DEF IInv, SlotsFresh
    <3>6. \A l \in Conns : thread'[l].pc \in RequestPC =>
             /\ thread'[l].caller = IdOf[l]
             /\ thread'[l].n \in 1..calls'[IdOf[l]]
             /\ thread'[<<"call", IdOf[l], thread'[l].n>>].pc = "off"
      <4> SUFFICES ASSUME NEW l \in Conns, thread'[l].pc \in RequestPC
                   PROVE  /\ thread[l].caller = IdOf[l]
                          /\ thread[l].n \in 1..calls[IdOf[l]]
                          /\ thread'[<<"call", IdOf[l], thread[l].n>>].pc = "off"
        BY <3>1, <2>1 DEF SlotFree
      <4>1. /\ thread[l].caller = IdOf[l]
            /\ thread[l].n \in 1..calls[IdOf[l]]
            /\ SlotFree(IdOf[l], thread[l].n)
        BY <3>1 DEF IInv, SlotsFresh
      <4>2. IdOf[l] = IdOf[k] => thread[l].n # thread[k].n
        BY <3>1, <2>1 DEF IInv, SlotsFresh, RequestPC
      <4> QED
        BY <4>1, <4>2, <3>2, <3>3, <3>4 DEF SlotFree
    <3>7. \A l, m \in Conns :
              /\ l # m /\ IdOf[l] = IdOf[m]
              /\ thread'[l].pc \in RequestPC /\ thread'[m].pc \in RequestPC
              => thread'[l].n # thread'[m].n
      BY <3>1 DEF IInv, SlotsFresh
    <3> QED
      BY <2>1, <3>4, <3>5, <3>6, <3>7 DEF SlotsFresh, SlotFree
  <2>5. PendingHasTimer'
    <3> SUFFICES ASSUME NEW c \in Clients, NEW u \in Clients, pending[c] = u
                 PROVE  \E t \in Threads : WatchesCall(t, c, u)'
      BY <2>1 DEF PendingHasTimer, WatchesCall, TypeOK
    <3>1. PICK t \in Threads : WatchesCall(t, c, u)
      BY DEF IInv, PendingHasTimer
    <3>2. CASE t = k
      BY <3>1, <3>2, <2>1, <2>2, <2>3 DEF WatchesCall
    <3>3. CASE t # k
      <4>1. t # TimerOf(k)
        BY <3>1, <2>2 DEF WatchesCall
      <4> QED
        BY <3>1, <3>3, <4>1, <2>3 DEF WatchesCall
    <3> QED
      BY <3>2, <3>3
  <2>6. DisconnectedHasGrace'
    BY <2>1, <2>2, <2>3 DEF IInv, DisconnectedHasGrace, TypeOK
  <2> QED
    BY <2>1, <2>4, <2>5, <2>6 DEF IInv, DiscOwn
<1>30. ASSUME NEW t \in Threads, CallTimeout(t) PROVE IInv'
  <2>1. /\ OthersStay(t) /\ OnlySlots(t) /\ t \in CallTimers
        /\ thread[t].pc = "call_sleep"
        /\ pending[thread[t].caller] = thread[t].target =>
              /\ thread'[t].pc = "cancel_snapshot"
              /\ thread'[t].caller = thread[t].caller /\ thread'[t].target = thread[t].target
        /\ pending' = pending /\ disc' = disc
    BY <1>30 DEF CallTimeout, Goto, Start, At, OthersStay, OnlySlots, RequestPC, TypeOK,
       lobbyVars, clientVars, histVars
  <2>2. PendingHasTimer'
    <3> SUFFICES ASSUME NEW c \in Clients, NEW u \in Clients, pending[c] = u
                 PROVE  \E s \in Threads : WatchesCall(s, c, u)'
      BY <2>1 DEF PendingHasTimer, WatchesCall, TypeOK
    <3>1. PICK s \in Threads : WatchesCall(s, c, u)
      BY DEF IInv, PendingHasTimer
    <3>2. WatchesCall(s, c, u)'
      BY <3>1, <2>1 DEF WatchesCall, OthersStay
    <3> QED
      BY <3>2
  <2> QED
    BY <2>1, <2>2, RequestFrame, DiscFrame DEF IInv
<1>31. ASSUME NEW t \in Threads, CancelSnapshot(t) PROVE IInv'
  <2>1. /\ OthersStay(t) /\ OnlySlots(t)
        /\ thread[t].pc = "cancel_snapshot"
        /\ thread'[t].pc = "cancel_take"
        /\ thread'[t].caller = thread[t].caller /\ thread'[t].target = thread[t].target
        /\ pending' = pending /\ disc' = disc
    BY <1>31 DEF CancelSnapshot, Goto, At, OthersStay, OnlySlots, RequestPC, TypeOK, Locals,
       lobbyVars, clientVars, histVars
  <2>2. PendingHasTimer'
    BY <2>1 DEF IInv, PendingHasTimer, WatchesCall, OthersStay
  <2> QED
    BY <2>1, <2>2, RequestFrame, DiscFrame DEF IInv
<1>32. ASSUME NEW t \in Threads, CancelTake(t) PROVE IInv'
  <2>1. /\ OthersStay(t) /\ OnlySlots(t)
        /\ thread[t].pc = "cancel_take"
        /\ pending' = [pending EXCEPT ![thread[t].caller] = None]
        /\ disc' = disc
    BY <1>32 DEF CancelTake, Take, Goto, Start, At, OthersStay, OnlySlots, RequestPC, TypeOK,
       Locals, lobbyVars, clientVars, histVars
  <2>2. PendingHasTimer'
    BY SMTT(30), <2>1 DEF IInv, PendingHasTimer, WatchesCall, OthersStay, TypeOK
  <2> QED
    BY <2>1, <2>2, RequestFrame, DiscFrame DEF IInv
<1>33. ASSUME NEW k \in Conns, ByeMark(k) PROVE IInv'
  <2>1. /\ thread[k].pc = "bye_mark" /\ thread'[k].pc = "bye_forget"
        /\ thread'[<<"grace", k>>].pc = "grace_sleep"
        /\ \A t \in Threads : t # k /\ t # <<"grace", k>> => thread'[t] = thread[t]
        /\ disc' = [disc EXCEPT ![IdOf[k]] = IF InLobby(IdOf[k]) THEN k ELSE @]
        /\ pending' = pending /\ calls' = calls
    BY <1>33 DEF ByeMark, Start, At, TypeOK, Locals, histVars
  <2>2. SlotsFresh'
    <3>1. \A c \in Clients : \A n \in 1..MaxCalls[c] : SlotFree(c, n) => SlotFree(c, n)'
      BY <2>1, SlotThread DEF SlotFree
    <3>2. \A l \in Conns : thread'[l].pc \in RequestPC => thread'[l] = thread[l]
      BY <2>1 DEF RequestPC
    <3>3. \A l \in Conns : thread[l].pc \in RequestPC => thread[l].n \in 1..MaxCalls[IdOf[l]]
      BY DEF IInv, SlotsFresh, TypeOK
    <3> QED
      BY <2>1, <3>1, <3>2, <3>3 DEF IInv, SlotsFresh, TypeOK
  <2>3. PendingHasTimer'
    BY <2>1 DEF IInv, PendingHasTimer, WatchesCall
  <2>4. DiscOwn'
    BY <2>1 DEF IInv, DiscOwn, TypeOK
  <2>5. DisconnectedHasGrace'
    BY <2>1 DEF IInv, DisconnectedHasGrace, TypeOK
  <2> QED
    BY <2>2, <2>3, <2>4, <2>5 DEF IInv
<1>34. ASSUME NEW k \in Conns, GraceCheck(k) PROVE IInv'
  <2>1. /\ OthersStay(<<"grace", k>>) /\ OnlySlots(<<"grace", k>>) /\ ~Watching(<<"grace", k>>)
        /\ disc[IdOf[k]] # None => thread'[<<"grace", k>>].pc = "grace_offline"
        /\ pending' = pending /\ disc' = disc
    BY <1>34 DEF GraceCheck, Goto, Start, At, OthersStay, OnlySlots, Watching, RequestPC, TypeOK,
       Locals, lobbyVars, clientVars, histVars
  <2>2. DisconnectedHasGrace'
    BY <2>1 DEF IInv, DisconnectedHasGrace, DiscOwn, OthersStay, TypeOK
  <2> QED
    BY <2>1, <2>2, RequestFrame, WatchFrame DEF IInv, DiscOwn
<1>35. ASSUME NEW k \in Conns, GraceOffline(k) PROVE IInv'
  <2>1. /\ OthersStay(<<"grace", k>>) /\ OnlySlots(<<"grace", k>>) /\ ~Watching(<<"grace", k>>)
        /\ disc' = [disc EXCEPT ![IdOf[k]] = None]
        /\ pending' = pending
    BY <1>35 DEF GraceOffline, Goto, Start, At, OthersStay, OnlySlots, Watching, RequestPC, TypeOK,
       Locals, histVars
  <2>2. DiscOwn' /\ DisconnectedHasGrace'
    BY <2>1 DEF IInv, DisconnectedHasGrace, DiscOwn, OthersStay, TypeOK
  <2> QED
    BY <2>1, <2>2, RequestFrame, WatchFrame DEF IInv
<1>36. ASSUME CleanupOffline PROVE IInv'
  <2>1. /\ thread' = thread /\ pending' = pending /\ calls' = calls
        /\ \A c \in Clients : disc'[c] \in {disc[c], None}
    BY <1>36 DEF CleanupOffline, histVars, TypeOK
  <2> QED
    BY <2>1 DEF IInv, SlotsFresh, SlotFree, PendingHasTimer, WatchesCall, DiscOwn, DisconnectedHasGrace
<1>37. ASSUME UNCHANGED vars PROVE IInv'
  BY <1>37 DEF vars, IInv, SlotsFresh, SlotFree, PendingHasTimer, WatchesCall, DiscOwn,
     DisconnectedHasGrace
<1>38. ASSUME NEW k \in Conns, Register(k) PROVE IInv'
  BY <1>38 DEF Register, lobbyVars, histVars, IInv, SlotsFresh, SlotFree, PendingHasTimer,
     WatchesCall, DiscOwn, DisconnectedHasGrace
<1> QED
  BY <1>1, <1>2, <1>3, <1>4, <1>5, <1>6, <1>7, <1>8, <1>9, <1>10, <1>11, <1>12, <1>13, <1>14, <1>15,
     <1>16, <1>17, <1>18, <1>19, <1>20, <1>21, <1>22, <1>23, <1>24, <1>25, <1>26, <1>27, <1>28, <1>29,
     <1>30, <1>31, <1>32, <1>33, <1>34, <1>35, <1>36, <1>37, <1>38
     DEF Next, Browser, Handler, Cancel, Grace

\* The types, and the fresh numbering of the timers behind the other two.
THEOREM InvHolds == Spec => []IInv
<1> QED
  BY InvInit, InvStep, PTL DEF Spec

\* A pending call always has a goroutine that will time it out.
THEOREM PendingTimed == Spec => []PendingHasTimer
<1>1. IInv => PendingHasTimer
  BY DEF IInv
<1> QED
  BY <1>1, InvHolds, PTL

\* A user in the grace period always has a goroutine that will end it.
THEOREM DisconnectedTimed == Spec => []DisconnectedHasGrace
<1>1. IInv => DisconnectedHasGrace
  BY DEF IInv
<1> QED
  BY <1>1, InvHolds, PTL
-----------------------------------------------------------------------------
(* OneStartPerCall.  Every request a caller has made pays for one handler  *)
(* that is on its way to a call_start, and a pending entry that no handler *)
(* has set out to take is still worth one.  Only an answer moves the worth *)
(* of the entry to a handler, so nothing is paid twice unless two handlers *)
(* of the called client answer at once.                                    *)

\* Reader k works on a request of c, or on an answer to one.
Working(k, c) ==
    \/ thread[k].pc \in {"call_check", "call_store"} /\ IdOf[k] = c
    \/ thread[k].pc \in AcceptPC /\ thread[k].caller = c

Work(c) == {k \in Conns : Working(k, c)}

Taking(k, c) == thread[k].pc = "accept_take" /\ thread[k].caller = c

\* The pending call of c has not been answered yet.
Unanswered(c) ==
    pending[c] # None /\ \A k \in Conns : IdOf[k] = pending[c] => ~Taking(k, c)

Paid ==
    \A c \in Clients :
        /\ IsFiniteSet(Work(c))
        /\ starts[c] + Cardinality(Work(c)) + (IF Unanswered(c) THEN 1 ELSE 0) <= calls[c]

\* The client being called has one open connection: its browser has not
\* come back on a new one while the server still reads the old.
OneOpen ==
    \A c \in Clients, k \in Conns, l \in Conns :
        /\ pending[c] # None /\ IdOf[k] = pending[c] /\ IdOf[l] = pending[c]
        /\ thread[k].pc \notin {"off", "exit"} /\ thread[l].pc \notin {"off", "exit"}
        => k = l

\* What is left of an account when nothing new is worked on, started or asked.
LEMMA PaidFrame ==
    ASSUME TypeOK, TypeOK', Paid, NEW c \in Clients,
           starts'[c] = starts[c], calls'[c] = calls[c],
           \A k \in Conns : Working(k, c)' => Working(k, c),
           Unanswered(c)' => Unanswered(c)
    PROVE  /\ IsFiniteSet(Work(c)')
           /\ starts'[c] + Cardinality(Work(c)') + (IF Unanswered(c)' THEN 1 ELSE 0) <= calls'[c]
<1>1. Work(c)' \in SUBSET Work(c)
  BY DEF Work
<1>2. /\ IsFiniteSet(Work(c))
      /\ starts[c] + Cardinality(Work(c)) + (IF Unanswered(c) THEN 1 ELSE 0) <= calls[c]
  BY DEF Paid
<1>3. IsFiniteSet(Work(c)') /\ Cardinality(Work(c)') <= Cardinality(Work(c))
  BY <1>1, <1>2, FS_Subset
<1>4. Cardinality(Work(c)') \in Nat /\ Cardinality(Work(c)) \in Nat
  BY <1>2, <1>3, FS_CardinalityType
<1>5. starts[c] \in Nat /\ calls[c] \in Nat
  BY DEF TypeOK
<1> QED
  BY <1>2, <1>3, <1>4, <1>5

\* A goroutine that neither starts nor ends any work; others may be spawned.
Quiet(t) ==
    /\ \A k \in Conns \ {t} : thread'[k] = thread[k]
    /\ starts' = starts /\ calls' = calls
    /\ \A c \in Clients : pending'[c] \in {pending[c], None}
    /\ t \in Conns =>
          /\ thread[t].pc # "accept_take"
          /\ thread'[t].pc \notin AcceptPC \cup {"call_check", "call_store"}

\* The step of such a goroutine keeps every account.
LEMMA QuietStep ==
    ASSUME TypeOK, TypeOK', Paid, NEW t \in Threads, Quiet(t)
    PROVE  Paid'
<1> SUFFICES ASSUME NEW c \in Clients
             PROVE  /\ IsFiniteSet(Work(c)')
                    /\ starts'[c] + Cardinality(Work(c)')
                           + (IF Unanswered(c)' THEN 1 ELSE 0) <= calls'[c]
  BY DEF Paid
<1>1. \A k \in Conns : Working(k, c)' => Working(k, c)
  BY DEF Quiet, Working
<1>2. \A k \in Conns : Taking(k, c) => Taking(k, c)'
  BY DEF Quiet, Taking
<1>3. Unanswered(c)' => Unanswered(c)
  BY <1>2 DEF Unanswered, Quiet
<1> QED
  BY <1>1, <1>3, PaidFrame DEF Quiet

\* Init: nobody has called.
LEMMA PaidInit == Init => Paid
<1> SUFFICES ASSUME Init, NEW c \in Clients
             PROVE  /\ IsFiniteSet(Work(c))
                    /\ starts[c] + Cardinality(Work(c)) + (IF Unanswered(c) THEN 1 ELSE 0) <= calls[c]
  BY DEF Paid
<1>1. \A k \in Conns : ~Working(k, c)
  BY ThreadKinds DEF Init, Working, Start, AcceptPC
<1>2. Work(c) = {}
  BY <1>1 DEF Work
<1>3. ~Unanswered(c) /\ starts[c] = 0 /\ calls[c] = 0
  BY DEF Init, Unanswered
<1> QED
  BY <1>2, <1>3, FS_EmptySet

\* Every critical section keeps the accounts, while the called client has one
\* connection to answer from.
LEMMA PaidStep == IInv /\ OneOpen /\ Paid /\ [Next]_vars => Paid'
<1> SUFFICES ASSUME IInv, OneOpen, Paid, [Next]_vars PROVE Paid'
  OBVIOUS
<1>0. TypeOK /\ TypeOK'
  BY TypeStep DEF IInv
<1> USE ThreadKinds, <1>0
<1>1. ASSUME NEW k \in Conns, NewClient(k) PROVE Paid'
  <2>1. Quiet(k)
    BY <1>1 DEF NewClient, Goto, At, Start, Quiet, AcceptPC, TypeOK, Locals, lobbyVars, clientVars, histVars
  <2> QED
    BY <2>1, QuietStep
<1>2. ASSUME NEW k \in Conns, Disconnect(k) PROVE Paid'
  <2>1. Quiet(k)
    BY <1>2 DEF Disconnect, Goto, At, Start, Quiet, AcceptPC, TypeOK, Locals, lobbyVars, clientVars, histVars
  <2> QED
    BY <2>1, QuietStep
<1>3. ASSUME NEW k \in Conns, ByeMark(k) PROVE Paid'
  <2>1. Quiet(k)
    BY <1>3 DEF ByeMark, At, Start, Quiet, AcceptPC, TypeOK, Locals, lobbyVars, clientVars, histVars
  <2> QED
    BY <2>1, QuietStep
<1>4. ASSUME NEW k \in Conns, ByeForget(k) PROVE Paid'
  <2>1. Quiet(k)
    BY <1>4 DEF ByeForget, Goto, At, Start, Quiet, AcceptPC, TypeOK, Locals, lobbyVars, clientVars, histVars
  <2> QED
    BY <2>1, QuietStep
<1>5. ASSUME NEW k \in Conns, LobbyJoin(k) PROVE Paid'
  <2>1. Quiet(k)
    BY <1>5 DEF LobbyJoin, Enter, At, Start, Quiet, AcceptPC, TypeOK, Locals, lobbyVars, clientVars, histVars
  <2> QED
    BY <2>1, QuietStep
<1>6. ASSUME NEW k \in Conns, JoinPrune(k) PROVE Paid'
  <2>1. Quiet(k)
    BY <1>6 DEF JoinPrune, Goto, At, Start, Quiet, AcceptPC, TypeOK, Locals, lobbyVars, clientVars, histVars
  <2> QED
    BY <2>1, QuietStep
<1>7. ASSUME NEW k \in Conns, JoinAdd(k) PROVE Paid'
  <2>1. Quiet(k)
    BY <1>7 DEF JoinAdd, Goto, At, Start, Quiet, AcceptPC, TypeOK, Locals, lobbyVars, clientVars, histVars
  <2> QED
    BY <2>1, QuietStep
<1>8. ASSUME NEW k \in Conns, JoinRegister(k) PROVE Paid'
  <2>1. Quiet(k)
    BY <1>8 DEF JoinRegister, Goto, At, Start, Quiet, AcceptPC, TypeOK, Locals, lobbyVars, clientVars, histVars
  <2> QED
    BY <2>1, QuietStep
<1>9. ASSUME NEW k \in Conns, LobbyLeave(k) PROVE Paid'
  <2>1. Quiet(k)
    BY <1>9 DEF LobbyLeave, Enter, At, Start, Quiet, AcceptPC, TypeOK, Locals, lobbyVars, clientVars, histVars
  <2> QED
    BY <2>1, QuietStep
<1>10. ASSUME NEW k \in Conns, LeaveUnlist(k) PROVE Paid'
  <2>1. Quiet(k)
    BY <1>10 DEF LeaveUnlist, Goto, At, Start, Quiet, AcceptPC, TypeOK, Locals, lobbyVars, clientVars, histVars
  <2> QED
    BY <2>1, QuietStep
<1>11. ASSUME NEW k \in Conns, LeaveOutgoing(k) PROVE Paid'
  <2>1. /\ thread[k].pc = "leave_outgoing" /\ OthersStay(k)
        /\ thread'[k].pc \in {"leave_incoming", "cancel_snapshot"}
        /\ pending' = pending /\ starts' = starts /\ calls' = calls
    <3>1. CASE pending[IdOf[k]] = None
      BY <1>11, <3>1 DEF LeaveOutgoing, Goto, At, OthersStay, TypeOK, Locals, histVars
    <3>2. CASE pending[IdOf[k]] # None
      <4> DEFINE Cancelling == [Start("cancel_snapshot") EXCEPT !.caller = IdOf[k],
                                    !.target = pending[IdOf[k]], !.ret = "leave_incoming"]
      <4>1. Cancelling.pc = "cancel_snapshot"
        BY DEF Start
      <4> HIDE DEF Cancelling
      <4>2. thread' = [thread EXCEPT ![k] = Cancelling]
        BY <1>11, <3>2 DEF LeaveOutgoing, Cancelling
      <4> QED
        BY <1>11, <4>1, <4>2 DEF LeaveOutgoing, At, OthersStay, TypeOK, histVars
    <3> QED
      BY <3>1, <3>2
  <2>2. Quiet(k)
    BY <2>1 DEF Quiet, OthersStay, AcceptPC
  <2> QED
    BY <2>2, QuietStep
<1>12. ASSUME NEW k \in Conns, LeaveIncoming(k) PROVE Paid'
  <2>1. Quiet(k)
    BY <1>12 DEF LeaveIncoming, Goto, At, Start, Quiet, AcceptPC, TypeOK, Locals, lobbyVars, clientVars, histVars
  <2> QED
    BY <2>1, QuietStep
<1>13. ASSUME NEW k \in Conns, CallBusy(k) PROVE Paid'
  <2>1. Quiet(k)
    BY <1>13 DEF CallBusy, Goto, At, Start, Quiet, AcceptPC, TypeOK, Locals, lobbyVars, clientVars, histVars
  <2> QED
    BY <2>1, QuietStep
<1>14. ASSUME NEW k \in Conns, CallRing(k) PROVE Paid'
  <2>1. thread[k].pc = "call_ring" /\ thread'[k].pc = "idle"
        /\ \A l \in Conns \ {k} : thread'[l] = thread[l]
    <3> DEFINE TimerOf == <<"call", IdOf[k], thread[k].n>>
               Timer == [Start("call_sleep") EXCEPT !.caller = IdOf[k], !.target = thread[k].target,
                                                    !.ret = "exit"]
    <3>1. thread[k].n \in 1..MaxCalls[IdOf[k]]
      BY <1>14 DEF CallRing, At, IInv, SlotsFresh, RequestPC, TypeOK
    <3>2. TimerOf \in CallTimers
      BY <3>1, SlotThread
    <3> HIDE DEF Timer, TimerOf
    <3>3. thread' = [thread EXCEPT ![k] = Start("idle"), ![TimerOf] = Timer]
      BY <1>14 DEF CallRing, Timer, TimerOf
    <3>4. thread'[k] = Start("idle") /\ \A l \in Conns \ {k} : thread'[l] = thread[l]
      BY <3>2, <3>3 DEF TypeOK
    <3>5. Start("idle").pc = "idle"
      BY DEF Start
    <3>6. thread[k].pc = "call_ring"
      BY <1>14 DEF CallRing, At
    <3> QED
      BY <3>4, <3>5, <3>6
  <2>2. Quiet(k)
    BY <1>14, <2>1 DEF CallRing, Quiet, AcceptPC
  <2> QED
    BY <2>2, QuietStep
<1>15. ASSUME NEW k \in Conns, NEW c \in Clients, CallDecline(k, c) PROVE Paid'
  <2>1. Quiet(k)
    BY <1>15 DEF CallDecline, Answers, Enter, At, Start, Quiet, AcceptPC, TypeOK, Locals, lobbyVars, clientVars, histVars
  <2> QED
    BY <2>1, QuietStep
<1>16. ASSUME NEW k \in Conns, DeclineTake(k) PROVE Paid'
  <2>1. Quiet(k)
    BY <1>16 DEF DeclineTake, Take, Goto, At, Start, Quiet, AcceptPC, TypeOK, Locals, lobbyVars, clientVars, histVars
  <2> QED
    BY <2>1, QuietStep
<1>17. ASSUME NEW k \in Conns, DeclineFree(k) PROVE Paid'
  <2>1. Quiet(k)
    BY <1>17 DEF DeclineFree, Goto, At, Start, Quiet, AcceptPC, TypeOK, Locals, lobbyVars, clientVars, histVars
  <2> QED
    BY <2>1, QuietStep
<1>18. ASSUME NEW k \in Conns, DeclineNotify(k) PROVE Paid'
  <2>1. Quiet(k)
    BY <1>18 DEF DeclineNotify, Goto, At, Start, Quiet, AcceptPC, TypeOK, Locals, lobbyVars, clientVars, histVars
  <2> QED
    BY <2>1, QuietStep
<1>19. ASSUME NEW k \in Conns, CallCancel(k) PROVE Paid'
  <2>1. Quiet(k)
    BY <1>19 DEF CallCancel, Enter, At, Start, Quiet, AcceptPC, TypeOK, Locals, lobbyVars, clientVars, histVars
  <2> QED
    BY <2>1, QuietStep
<1>20. ASSUME NEW t \in Threads, CallTimeout(t) PROVE Paid'
  <2>1. Quiet(t)
    BY <1>20 DEF CallTimeout, Goto, At, Start, Quiet, AcceptPC, TypeOK, Locals, lobbyVars, clientVars, histVars
  <2> QED
    BY <2>1, QuietStep
<1>21. ASSUME NEW t \in Threads, CancelSnapshot(t) PROVE Paid'
  <2>1. Quiet(t)
    BY <1>21 DEF CancelSnapshot, Goto, At, Start, Quiet, AcceptPC, TypeOK, Locals, lobbyVars, clientVars, histVars
  <2> QED
    BY <2>1, QuietStep
<1>22. ASSUME NEW t \in Threads, CancelTake(t) PROVE Paid'
  <2>1. Quiet(t)
    BY <1>22 DEF CancelTake, Take, Goto, At, Start, Quiet, AcceptPC, TypeOK, Locals, lobbyVars, clientVars, histVars
  <2> QED
    BY <2>1, QuietStep
<1>23. ASSUME NEW t \in Threads, CancelFree(t) PROVE Paid'
  <2>1. Quiet(t)
    BY <1>23 DEF CancelFree, Goto, At, Start, Quiet, AcceptPC, TypeOK, Locals, lobbyVars, clientVars, histVars
  <2> QED
    BY <2>1, QuietStep
<1>24. ASSUME NEW t \in Threads, CancelNotify(t) PROVE Paid'
  <2>1. Quiet(t)
    BY <1>24 DEF CancelNotify, Goto, At, Start, Quiet, AcceptPC, TypeOK, Locals, lobbyVars, clientVars, histVars
  <2> QED
    BY <2>1, QuietStep
<1>25. ASSUME NEW k \in Conns, GraceCheck(k) PROVE Paid'
  <2>1. Quiet(<<"grace", k>>)
    BY <1>25 DEF GraceCheck, Goto, At, Start, Quiet, AcceptPC, TypeOK, Locals, lobbyVars, clientVars, histVars
  <2> QED
    BY <2>1, QuietStep
<1>26. ASSUME NEW k \in Conns, GraceOffline(k) PROVE Paid'
  <2>1. Quiet(<<"grace", k>>)
    BY <1>26 DEF GraceOffline, Goto, At, Start, Quiet, AcceptPC, TypeOK, Locals, lobbyVars, clientVars, histVars
  <2> QED
    BY <2>1, QuietStep
<1>27. ASSUME NEW k \in Conns, GraceUnlist(k) PROVE Paid'
  <2>1. Quiet(<<"grace", k>>)
    BY <1>27 DEF GraceUnlist, Goto, At, Start, Quiet, AcceptPC, TypeOK, Locals, lobbyVars, clientVars, histVars
  <2> QED
    BY <2>1, QuietStep
<1>28. ASSUME NEW k \in Conns, CallCheck(k) PROVE Paid'
  <2>1. /\ thread[k].pc = "call_check"
        /\ thread'[k].pc \in {"call_store", "idle"}
        /\ \A l \in Conns \ {k} : thread'[l] = thread[l]
        /\ starts' = starts /\ calls' = calls /\ pending' = pending
    BY <1>28 DEF CallCheck, Goto, At, Start, TypeOK, Locals, histVars
  <2> SUFFICES ASSUME NEW c \in Clients
               PROVE  /\ IsFiniteSet(Work(c)')
                      /\ starts'[c] + Cardinality(Work(c)')
                             + (IF Unanswered(c)' THEN 1 ELSE 0) <= calls'[c]
    BY DEF Paid
  <2>2. \A l \in Conns : Working(l, c)' => Working(l, c)
    BY <2>1 DEF Working, AcceptPC
  <2>3. Unanswered(c)' => Unanswered(c)
    BY <2>1 DEF Unanswered, Taking
  <2> QED
    BY <2>1, <2>2, <2>3, PaidFrame
<1>29. ASSUME NEW k \in Conns, NEW u \in Clients, CallRequest(k, u) PROVE Paid'
  <2>1. /\ thread[k].pc = "idle"
        /\ thread'[k].pc = "call_check"
        /\ \A l \in Conns \ {k} : thread'[l] = thread[l]
        /\ starts' = starts /\ calls' = [calls EXCEPT ![IdOf[k]] = @ + 1] /\ pending' = pending
    BY <1>29 DEF CallRequest, At, Start, TypeOK, Locals
  <2> SUFFICES ASSUME NEW c \in Clients
               PROVE  /\ IsFiniteSet(Work(c)')
                      /\ starts'[c] + Cardinality(Work(c)')
                             + (IF Unanswered(c)' THEN 1 ELSE 0) <= calls'[c]
    BY DEF Paid
  <2>2. Unanswered(c)' => Unanswered(c)
    BY <2>1 DEF Unanswered, Taking
  <2>3. CASE c # IdOf[k]
    <3>1. \A l \in Conns : Working(l, c)' => Working(l, c)
      BY <2>1, <2>3 DEF Working, AcceptPC
    <3> QED
      BY <2>1, <2>2, <2>3, <3>1, PaidFrame DEF TypeOK
  <2>4. CASE c = IdOf[k]
    <3>1. ~Working(k, c) /\ Working(k, c)' /\ \A l \in Conns \ {k} : Working(l, c)' <=> Working(l, c)
      BY <2>1, <2>4 DEF Working, AcceptPC
    <3>2. Work(c)' = Work(c) \cup {k} /\ k \notin Work(c)
      BY <3>1 DEF Work
    <3>3. /\ IsFiniteSet(Work(c)) /\ Cardinality(Work(c)) \in Nat
          /\ starts[c] + Cardinality(Work(c)) + (IF Unanswered(c) THEN 1 ELSE 0) <= calls[c]
      BY FS_CardinalityType DEF Paid
    <3>4. IsFiniteSet(Work(c)') /\ Cardinality(Work(c)') = Cardinality(Work(c)) + 1
      BY <3>2, <3>3, FS_AddElement
    <3>5. calls'[c] = calls[c] + 1 /\ calls[c] \in Nat /\ starts'[c] = starts[c] /\ starts[c] \in Nat
      BY <2>1, <2>4 DEF TypeOK
    <3> QED
      BY <2>2, <3>3, <3>4, <3>5
  <2> QED
    BY <2>3, <2>4
<1>30. ASSUME NEW k \in Conns, CallStore(k) PROVE Paid'
  <2>1. /\ thread[k].pc = "call_store"
        /\ thread'[k].pc = "call_busy"
        /\ \A l \in Conns \ {k} : thread'[l] = thread[l]
        /\ starts' = starts /\ calls' = calls
        /\ \A c \in Clients : c # IdOf[k] => pending'[c] = pending[c]
    BY <1>30 DEF CallStore, Goto, At, Start, TypeOK, Locals, histVars
  <2> SUFFICES ASSUME NEW c \in Clients
               PROVE  /\ IsFiniteSet(Work(c)')
                      /\ starts'[c] + Cardinality(Work(c)')
                             + (IF Unanswered(c)' THEN 1 ELSE 0) <= calls'[c]
    BY DEF Paid
  <2>2. CASE c # IdOf[k]
    <3>1. \A l \in Conns : Working(l, c)' => Working(l, c)
      BY <2>1, <2>2 DEF Working, AcceptPC
    <3>2. Unanswered(c)' => Unanswered(c)
      BY <2>1, <2>2 DEF Unanswered, Taking
    <3> QED
      BY <2>1, <3>1, <3>2, PaidFrame
  <2>3. CASE c = IdOf[k]
    <3>1. Working(k, c) /\ ~Working(k, c)' /\ \A l \in Conns \ {k} : Working(l, c)' <=> Working(l, c)
      BY <2>1, <2>3 DEF Working, AcceptPC
    <3>2. Work(c)' = Work(c) \ {k} /\ k \in Work(c)
      BY <3>1 DEF Work
    <3>3. /\ IsFiniteSet(Work(c)) /\ Cardinality(Work(c)) \in Nat
          /\ starts[c] + Cardinality(Work(c)) + (IF Unanswered(c) THEN 1 ELSE 0) <= calls[c]
      BY FS_CardinalityType DEF Paid
    <3>4. IsFiniteSet(Work(c)') /\ Cardinality(Work(c)') = Cardinality(Work(c)) - 1
      BY <3>2, <3>3, FS_RemoveElement
    <3>5. calls[c] \in Nat /\ starts[c] \in Nat
      BY DEF TypeOK
    <3> QED
      BY <2>1, <3>3, <3>4, <3>5
  <2> QED
    BY <2>2, <2>3
<1>31. ASSUME NEW k \in Conns, NEW d \in Clients, CallAccept(k, d) PROVE Paid'
  <2>1. /\ thread[k].pc = "idle"
        /\ thread'[k].pc = "accept_take" /\ thread'[k].caller = d
        /\ \A l \in Conns \ {k} : thread'[l] = thread[l]
        /\ starts' = starts /\ calls' = calls /\ pending' = pending
        /\ pending[d] = IdOf[k]
    BY <1>31 DEF CallAccept, Answers, Enter, At, Start, TypeOK, Locals, histVars
  <2> SUFFICES ASSUME NEW c \in Clients
               PROVE  /\ IsFiniteSet(Work(c)')
                      /\ starts'[c] + Cardinality(Work(c)')
                             + (IF Unanswered(c)' THEN 1 ELSE 0) <= calls'[c]
    BY DEF Paid
  <2>2. CASE c # d
    <3>1. \A l \in Conns : Working(l, c)' => Working(l, c)
      BY <2>1, <2>2 DEF Working, AcceptPC
    <3>2. Unanswered(c)' => Unanswered(c)
      BY <2>1, <2>2 DEF Unanswered, Taking
    <3> QED
      BY <2>1, <3>1, <3>2, PaidFrame
  <2>3. CASE c = d
    <3>1. pending[c] # None
      BY <2>1, <2>3
    <3>2. Unanswered(c)
      BY <2>1, <2>3, <3>1 DEF Unanswered, Taking, OneOpen
    <3>3. ~Unanswered(c)'
      BY <2>1, <2>3 DEF Unanswered, Taking
    <3>4. ~Working(k, c) /\ Working(k, c)' /\ \A l \in Conns \ {k} : Working(l, c)' <=> Working(l, c)
      BY <2>1, <2>3 DEF Working, AcceptPC
    <3>5. Work(c)' = Work(c) \cup {k} /\ k \notin Work(c)
      BY <3>4 DEF Work
    <3>6. /\ IsFiniteSet(Work(c)) /\ Cardinality(Work(c)) \in Nat
          /\ starts[c] + Cardinality(Work(c)) + 1 <= calls[c]
      BY <3>2, FS_CardinalityType DEF Paid
    <3>7. IsFiniteSet(Work(c)') /\ Cardinality(Work(c)') = Cardinality(Work(c)) + 1
      BY <3>5, <3>6, FS_AddElement
    <3>8. calls[c] \in Nat /\ starts[c] \in Nat
      BY DEF TypeOK
    <3> QED
      BY <2>1, <3>3, <3>6, <3>7, <3>8
  <2> QED
    BY <2>2, <2>3
<1>32. ASSUME NEW k \in Conns, AcceptTake(k) PROVE Paid'
  <2>1. /\ thread[k].pc = "accept_take" /\ thread'[k].pc = "accept_self"
        /\ thread'[k].caller = thread[k].caller
        /\ \A l \in Conns \ {k} : thread'[l] = thread[l]
        /\ starts' = starts /\ calls' = calls
        /\ pending' = [pending EXCEPT ![thread[k].caller] = None]
    BY <1>32 DEF AcceptTake, Take, Goto, At, Start, TypeOK, Locals, histVars
  <2> SUFFICES ASSUME NEW c \in Clients
               PROVE  /\ IsFiniteSet(Work(c)')
                      /\ starts'[c] + Cardinality(Work(c)')
                             + (IF Unanswered(c)' THEN 1 ELSE 0) <= calls'[c]
    BY DEF Paid
  <2>2. \A l \in Conns : Working(l, c)' => Working(l, c)
    BY <2>1 DEF Working, AcceptPC
  <2>3. Unanswered(c)' => Unanswered(c)
    <3>1. CASE c = thread[k].caller
      BY <2>1, <3>1 DEF Unanswered, TypeOK
    <3>2. CASE c # thread[k].caller
      BY <2>1, <3>2 DEF Unanswered, Taking, TypeOK
    <3> QED
      BY <3>1, <3>2
  <2> QED
    BY <2>1, <2>2, <2>3, PaidFrame
<1>33. ASSUME NEW k \in Conns, AcceptSelf(k) PROVE Paid'
  <2>1. /\ thread[k].pc \in AcceptPC \ {"accept_take"} /\ thread'[k].pc \in AcceptPC \ {"accept_take"}
        /\ thread'[k].caller = thread[k].caller
        /\ \A l \in Conns \ {k} : thread'[l] = thread[l]
        /\ starts' = starts /\ calls' = calls /\ pending' = pending
    BY <1>33 DEF AcceptSelf, Goto, At, Start, AcceptPC, TypeOK, Locals, histVars
  <2> SUFFICES ASSUME NEW c \in Clients
               PROVE  /\ IsFiniteSet(Work(c)')
                      /\ starts'[c] + Cardinality(Work(c)')
                             + (IF Unanswered(c)' THEN 1 ELSE 0) <= calls'[c]
    BY DEF Paid
  <2>2. \A l \in Conns : Working(l, c)' => Working(l, c)
    BY <2>1 DEF Working, AcceptPC
  <2>3. Unanswered(c)' => Unanswered(c)
    BY <2>1 DEF Unanswered, Taking, AcceptPC
  <2> QED
    BY <2>1, <2>2, <2>3, PaidFrame
<1>34. ASSUME NEW k \in Conns, AcceptCaller(k) PROVE Paid'
  <2>1. /\ thread[k].pc \in AcceptPC \ {"accept_take"} /\ thread'[k].pc \in AcceptPC \ {"accept_take"}
        /\ thread'[k].caller = thread[k].caller
        /\ \A l \in Conns \ {k} : thread'[l] = thread[l]
        /\ starts' = starts /\ calls' = calls /\ pending' = pending
    BY <1>34 DEF AcceptCaller, Goto, At, Start, AcceptPC, TypeOK, Locals, histVars
  <2> SUFFICES ASSUME NEW c \in Clients
               PROVE  /\ IsFiniteSet(Work(c)')
                      /\ starts'[c] + Cardinality(Work(c)')
                             + (IF Unanswered(c)' THEN 1 ELSE 0) <= calls'[c]
    BY DEF Paid
  <2>2. \A l \in Conns : Working(l, c)' => Working(l, c)
    BY <2>1 DEF Working, AcceptPC
  <2>3. Unanswered(c)' => Unanswered(c)
    BY <2>1 DEF Unanswered, Taking, AcceptPC
  <2> QED
    BY <2>1, <2>2, <2>3, PaidFrame
<1>35. ASSUME NEW k \in Conns, AcceptStart(k) PROVE Paid'
  <2>1. /\ thread[k].pc = "accept_start" /\ thread'[k].pc = "idle"
        /\ \A l \in Conns \ {k} : thread'[l] = thread[l]
        /\ starts' = [starts EXCEPT ![thread[k].caller] = @ + 1]
        /\ calls' = calls /\ pending' = pending
    BY <1>35 DEF AcceptStart, Goto, At, Start, TypeOK, Locals
  <2> SUFFICES ASSUME NEW c \in Clients
               PROVE  /\ IsFiniteSet(Work(c)')
                      /\ starts'[c] + Cardinality(Work(c)')
                             + (IF Unanswered(c)' THEN 1 ELSE 0) <= calls'[c]
    BY DEF Paid
  <2>2. Unanswered(c)' => Unanswered(c)
    BY <2>1 DEF Unanswered, Taking
  <2>3. CASE c # thread[k].caller
    <3>1. \A l \in Conns : Working(l, c)' => Working(l, c)
      BY <2>1, <2>3 DEF Working, AcceptPC
    <3> QED
      BY <2>1, <2>2, <2>3, <3>1, PaidFrame DEF TypeOK
  <2>4. CASE c = thread[k].caller
    <3>1. Working(k, c) /\ ~Working(k, c)' /\ \A l \in Conns \ {k} : Working(l, c)' <=> Working(l, c)
      BY <2>1, <2>4 DEF Working, AcceptPC
    <3>2. Work(c)' = Work(c) \ {k} /\ k \in Work(c)
      BY <3>1 DEF Work
    <3>3. /\ IsFiniteSet(Work(c)) /\ Cardinality(Work(c)) \in Nat
          /\ starts[c] + Cardinality(Work(c)) + (IF Unanswered(c) THEN 1 ELSE 0) <= calls[c]
      BY FS_CardinalityType DEF Paid
    <3>4. IsFiniteSet(Work(c)') /\ Cardinality(Work(c)') = Cardinality(Work(c)) - 1
      BY <3>2, <3>3, FS_RemoveElement
    <3>5. calls[c] \in Nat /\ starts[c] \in Nat /\ starts'[c] = starts[c] + 1 /\ calls'[c] = calls[c]
      BY <2>1, <2>4 DEF TypeOK
    <3> QED
      BY <2>2, <3>3, <3>4, <3>5
  <2> QED
    BY <2>3, <2>4
<1>36. ASSUME CleanupOffline PROVE Paid'
  BY <1>36 DEF CleanupOffline, Paid, Work, Working, Unanswered, Taking, histVars
<1>37. ASSUME UNCHANGED vars PROVE Paid'
  BY <1>37 DEF vars, Paid, Work, Working, Unanswered, Taking
<1>38. ASSUME NEW k \in Conns, Register(k) PROVE Paid'
  BY <1>38 DEF Register, histVars, Paid, Work, Working, Unanswered, Taking
<1> QED
  BY <1>1, <1>2, <1>3, <1>4, <1>5, <1>6, <1>7, <1>8, <1>9, <1>10, <1>11, <1>12, <1>13, <1>14, <1>15, <1>16, <1>17, <1>18, <1>19, <1>20, <1>21, <1>22, <1>23, <1>24, <1>25, <1>26, <1>27, <1>28, <1>29, <1>30, <1>31, <1>32, <1>33, <1>34, <1>35, <1>36, <1>37, <1>38
     DEF Next, Browser, Handler, Cancel, Grace

\* No request starts two calls as long as the called client has one open
\* connection, whatever answers, cancels, leaves and timeouts do in between.
THEOREM StartsPaid == Spec /\ []OneOpen => []OneStartPerCall
<1>1. TypeOK /\ Paid => OneStartPerCall
  <2> SUFFICES ASSUME TypeOK, Paid, NEW c \in Clients PROVE starts[c] <= calls[c]
    BY DEF OneStartPerCall
  <2>1. /\ Cardinality(Work(c)) \in Nat /\ starts[c] \in Nat /\ calls[c] \in Nat
        /\ starts[c] + Cardinality(Work(c)) + (IF Unanswered(c) THEN 1 ELSE 0) <= calls[c]
    BY FS_CardinalityType DEF Paid, TypeOK
  <2> QED
    BY <2>1
<1>2. IInv => TypeOK
  BY DEF IInv
<1> QED
  BY <1>1, <1>2, PaidInit, PaidStep, InvHolds, PTL DEF Spec
=============================================================================
