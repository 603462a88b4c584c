--------------------------- MODULE Transport_proofs ---------------------------
(***************************************************************************)
(* Both ends of a WebSocket and the limiter of what comes in over it, each *)
(* by itself.                                                              *)
(*                                                                         *)
(* The client of the browser (WsReconnect) is never stranded, never        *)
(* reconnects against the pages' will and never tells them of a connection *)
(* that is not there, for any number of attempts.  The parts of IInv carry *)
(* each other: TypeOK says that ws is a socket that exists, a timer proves *)
(* that its firing is wanted, and so the attempt it makes leaves a socket  *)
(* or a new timer behind.                                                  *)
(*                                                                         *)
(* A connection of the server (WsClient) loses no message in               *)
(* silence, for any number of goroutines that send to the client and any   *)
(* size of its buffer.  Every way that leads to a message nobody writes -  *)
(* a closed connection, a write pump that has returned - starts at a       *)
(* network that is down or at Close, and Close closes the channel before   *)
(* the connection: Caused says so of each station on the way.              *)
(*                                                                         *)
(* The rate limiter (RateLimiter) bounds what a key may do, and behaves as *)
(* the limiter that never throws a bucket away, for any keys and any       *)
(* passing of time.                                                        *)
(***************************************************************************)
EXTENDS WsReconnect, WsClient, RateLimiter, TLAPS

\* The two halves of TypeOK: the flags, and the sockets with the numbers.
Flags == timer \in BOOLEAN /\ should \in BOOLEAN /\ connected \in BOOLEAN

SocketsOK ==
    /\ ws \in 0..attempts
    /\ state \in [Sockets -> {"new", "connecting", "open", "closing", "closed"}]
    /\ attempts \in 0..MaxAttempts
    /\ delay \in 1..MaxDelay
    /\ \A s \in Sockets : s > attempts => state[s] = "new"
    /\ ws # 0 => state[ws] # "new"

IInv == TypeOK /\ NoTimerUnlessWanted /\ NeverStranded /\ ConnectedIsOpen

LEMMA TypeHalves == TypeOK <=> Flags /\ SocketsOK
BY DEF TypeOK, Flags, SocketsOK

\* The client starts without a socket, without a timer and unwanted.
LEMMA InitInv == Init => IInv
<1> SUFFICES ASSUME Init PROVE IInv
  OBVIOUS
<1>1. Flags
  BY Zenon DEF Init, Flags
<1>2. SocketsOK
  BY ConstantsAssumption DEF Init, SocketsOK, Sockets
<1>3. NoTimerUnlessWanted /\ NeverStranded /\ ConnectedIsOpen
  BY Zenon DEF Init, NoTimerUnlessWanted, NeverStranded, ConnectedIsOpen
<1> QED
  BY <1>1, <1>2, <1>3, TypeHalves DEF IInv

\* Every call and every event keeps the flags Boolean.
LEMMA StepFlags == Flags /\ [Next]_vars => Flags'
<1> SUFFICES ASSUME Flags, [Next]_vars PROVE Flags'
  OBVIOUS
<1> USE DEF Flags
<1>1. CASE Connect
  BY <1>1, Zenon DEF Connect, DoConnect
<1>2. CASE Disconnect
  BY <1>2, Zenon DEF Disconnect
<1>3. CASE Wake
  BY <1>3, Zenon DEF Wake, DoConnect
<1>4. CASE Timer
  BY <1>4, Zenon DEF Timer, DoConnect
<1>5. ASSUME NEW s \in Sockets, Opened(s) PROVE Flags'
  BY <1>5, Zenon DEF Opened
<1>6. ASSUME NEW s \in Sockets, NEW failed \in BOOLEAN, Closed(s, failed) PROVE Flags'
  <2>1. connected' = FALSE /\ should' = should /\ timer' = (timer \/ should)
    BY <1>6, Zenon DEF Closed
  <2>2. (timer \/ should) \in BOOLEAN
    BY Zenon
  <2> QED
    BY <2>1, <2>2, Zenon
<1>7. CASE UNCHANGED vars
  BY <1>7, Zenon DEF vars
<1> QED
  BY <1>1, <1>2, <1>3, <1>4, <1>5, <1>6, <1>7, Zenon DEF Next

\* Every call and every event keeps this.ws a socket that was made.
LEMMA StepSockets == SocketsOK /\ [Next]_vars => SocketsOK'
<1> SUFFICES ASSUME SocketsOK, [Next]_vars PROVE SocketsOK'
  OBVIOUS
<1> USE ConstantsAssumption DEF SocketsOK, Sockets
<1>0. ASSUME NEW old \in {0, ws}, NEW t, DoConnect(old, t), delay' \in 1..MaxDelay
      PROVE  SocketsOK'
  <2>1. CASE ws' = attempts + 1 /\ state' = [state EXCEPT ![attempts + 1] = "connecting"]
    BY <1>0, <2>1 DEF DoConnect
  <2>2. CASE ws' = old /\ UNCHANGED state
    BY <1>0, <2>2 DEF DoConnect
  <2> QED
    BY <1>0, <2>1, <2>2 DEF DoConnect
<1>1. CASE Connect
  <2>1. DoConnect(0, FALSE) /\ delay' = 1
    BY <1>1 DEF Connect
  <2>2. delay' \in 1..MaxDelay
    BY <2>1
  <2> QED
    BY <1>0, <2>1, <2>2
<1>2. CASE Disconnect
  BY <1>2 DEF Disconnect, Current
<1>3. CASE Wake
  <2>1. CASE DoConnect(0, timer) /\ UNCHANGED delay
    BY <1>0, <2>1
  <2>2. CASE /\ Current = "connecting"
             /\ state' = [state EXCEPT ![ws] = "closing"]
             /\ UNCHANGED <<ws, attempts, delay>>
    BY <2>2 DEF Current
  <2> QED
    BY <1>3, <2>1, <2>2 DEF Wake
<1>4. CASE Timer
  <2>1. delay' \in 1..MaxDelay
    BY <1>4 DEF Timer
  <2> QED
    BY <1>0, <1>4, <2>1 DEF Timer
<1>5. ASSUME NEW s \in Sockets, Opened(s) PROVE SocketsOK'
  BY <1>5 DEF Opened
<1>6. ASSUME NEW s \in Sockets, NEW failed \in BOOLEAN, Closed(s, failed) PROVE SocketsOK'
  <2>1. \A t \in Sockets : state'[t] \in {"closed", "closing", state[t]}
    BY <1>6 DEF Closed
  <2>2. \A t \in Sockets : state'[t] # state[t] => state[t] # "new"
    BY <1>6 DEF Closed, Current
  <2>3. state' \in [Sockets -> {"new", "connecting", "open", "closing", "closed"}]
    BY <1>6, <2>1 DEF Closed
  <2>4. UNCHANGED <<ws, attempts, delay>>
    BY <1>6 DEF Closed
  <2> QED
    BY <2>1, <2>2, <2>3, <2>4
<1>7. CASE UNCHANGED vars
  BY <1>7 DEF vars
<1> QED
  BY <1>1, <1>2, <1>3, <1>4, <1>5, <1>6, <1>7 DEF Next

\* A step from a good state leaves a timer only where one is wanted, and a
\* socket or a timer wherever a connection is wanted.
LEMMA StepWanted == IInv /\ [Next]_vars => (NoTimerUnlessWanted /\ NeverStranded)'
<1> SUFFICES ASSUME IInv, [Next]_vars PROVE (NoTimerUnlessWanted /\ NeverStranded)'
  OBVIOUS
<1> USE ConstantsAssumption DEF IInv, TypeOK, NoTimerUnlessWanted, NeverStranded, Sockets, Current
<1>1. CASE Connect
  BY <1>1 DEF Connect, DoConnect
<1>2. CASE Disconnect
  BY <1>2 DEF Disconnect
<1>3. CASE Wake
  <2>1. should /\ UNCHANGED should
    BY <1>3 DEF Wake
  <2>2. CASE DoConnect(0, timer)
    BY <2>1, <2>2 DEF DoConnect
  <2>3. CASE /\ Current = "connecting"
             /\ state' = [state EXCEPT ![ws] = "closing"]
             /\ UNCHANGED <<ws, timer>>
    BY <2>1, <2>3
  <2> QED
    BY <1>3, <2>2, <2>3 DEF Wake
<1>4. CASE Timer
  BY <1>4 DEF Timer, DoConnect
<1>5. ASSUME NEW s \in Sockets, Opened(s) PROVE (NoTimerUnlessWanted /\ NeverStranded)'
  BY <1>5 DEF Opened
<1>6. ASSUME NEW s \in Sockets, NEW failed \in BOOLEAN, Closed(s, failed)
      PROVE  (NoTimerUnlessWanted /\ NeverStranded)'
  <2>1. timer' = (timer \/ should) /\ should' = should
    BY <1>6 DEF Closed
  <2> QED
    BY <2>1
<1>7. CASE UNCHANGED vars
  BY <1>7 DEF vars
<1> QED
  BY <1>1, <1>2, <1>3, <1>4, <1>5, <1>6, <1>7 DEF Next

\* A step that closes or replaces the last open socket tells the pages.
LEMMA StepConnected == TypeOK /\ ConnectedIsOpen /\ [Next]_vars => ConnectedIsOpen'
<1> SUFFICES ASSUME TypeOK, ConnectedIsOpen, [Next]_vars, connected'
             PROVE  \E s \in Sockets : state'[s] = "open"
  BY DEF ConnectedIsOpen
<1> USE ConstantsAssumption DEF TypeOK, Sockets
<1>0. ASSUME connected, NEW old, NEW t, DoConnect(old, t)
      PROVE  \E s \in Sockets : state'[s] = "open"
  <2>1. PICK s \in Sockets : state[s] = "open"
    BY <1>0 DEF ConnectedIsOpen
  <2>2. state[attempts + 1] = "new"
    BY <1>0 DEF DoConnect
  <2>3. state'[s] = "open"
    BY <1>0, <2>1, <2>2 DEF DoConnect
  <2> QED
    BY <2>3
<1>1. CASE Connect
  BY <1>0, <1>1 DEF Connect
<1>2. CASE Disconnect
  BY <1>2 DEF Disconnect
<1>3. CASE Wake
  <2>1. /\ Current = "connecting" /\ state' = [state EXCEPT ![ws] = "closing"]
        /\ connected' = connected
    BY <1>3 DEF Wake
  <2>2. PICK s \in Sockets : state[s] = "open"
    BY <2>1 DEF ConnectedIsOpen
  <2>3. state'[s] = "open"
    BY <2>1, <2>2 DEF Current
  <2> QED
    BY <2>3
<1>4. CASE Timer
  BY <1>0, <1>4 DEF Timer
<1>5. ASSUME NEW s \in Sockets, Opened(s) PROVE state'[s] = "open"
  BY <1>5 DEF Opened
<1>6. ASSUME NEW s \in Sockets, NEW failed \in BOOLEAN, Closed(s, failed) PROVE FALSE
  BY <1>6 DEF Closed
<1>7. CASE UNCHANGED vars
  BY <1>7 DEF vars, ConnectedIsOpen
<1> QED
  BY <1>1, <1>2, <1>3, <1>4, <1>5, <1>6, <1>7 DEF Next

\* The invariant holds in every reachable state of the client.
LEMMA Invariant == Spec => []IInv
<1>1. IInv /\ [Next]_vars => IInv'
  BY StepFlags, StepSockets, StepWanted, StepConnected, TypeHalves DEF IInv, TypeOK, Flags,
                                                                       SocketsOK
<1> QED
  BY InitInv, <1>1, PTL DEF Spec

\* Every reachable state is well typed, the doubling delay (scheduleReconnect)
\* within its limit and this.ws a socket that was made.
THEOREM TypeCorrect == Spec => []TypeOK
BY Invariant, PTL DEF IInv

\* After disconnect() no reconnect is scheduled, whatever events come late.
THEOREM TimerWanted == Spec => []NoTimerUnlessWanted
BY Invariant, PTL DEF IInv

\* The pages are told of a connection only while a socket is open
\* (setConnected), for any number of sockets and late events.
THEOREM ConnectedOpen == Spec => []ConnectedIsOpen
BY Invariant, PTL DEF IInv

\* While the pages want a connection, a socket or a timer is always left to
\* bring it, for any number of sockets.
THEOREM NotStranded == Spec => []NeverStranded
BY Invariant, PTL DEF IInv

-----------------------------------------------------------------------------
(* The end at the server                                                   *)

Over == network = "down" \/ chanClosed

Caused ==
    /\ connClosed => Over
    /\ lost => Over
    /\ pc["writer"] \in {"return", "exit"} => Over
    /\ \A g \in Callers : pc[g] = "close_conn" => chanClosed

ConnInv == ConnTypeOK /\ Caused

\* A connection starts open, with an empty buffer.
LEMMA ConnStarts == ConnInit => ConnInv
<1> SUFFICES ASSUME ConnInit PROVE ConnInv
  OBVIOUS
<1> USE ConnAssumption DEF ConnInit, Goroutines, Callers
<1>1. pc \in [Goroutines -> {"read", "select", "idle"}]
  OBVIOUS
<1>2. ret \in [Callers -> {"exit"}]
  OBVIOUS
<1>3. connClosed \in BOOLEAN /\ chanClosed \in BOOLEAN
      /\ lost \in BOOLEAN /\ panicked \in BOOLEAN
  BY Zenon
<1>4. ConnTypeOK
  <2>1. network \in {"up", "down"} /\ buf \in 0..BufSize /\ sends \in 0..MaxSends
        /\ once \in {"new", "running", "done"}
        /\ registered \in {"accepted", "in", "out", "early", "stray"}
    BY ConnInit, ConnAssumption DEF ConnInit
  <2> QED
    BY <1>1, <1>2, <1>3, <2>1 DEF ConnTypeOK
<1>5. Caused
  BY DEF Caused
<1> QED
  BY <1>4, <1>5 DEF ConnInv

\* A send by a goroutine that is no pump keeps the invariant, whether the channel
\* is closed, has room or is full.
LEMMA SendInv ==
    ASSUME ConnInv, NEW g \in Callers, NEW l \in {"idle", "handle"}, Send(g, l)
    PROVE  ConnInv'
<1> USE ConnAssumption DEF ConnInv, ConnTypeOK, Caused, Over, Send, Goto,
                             CallClose, chanVars, Goroutines, Callers
<1>1. CASE chanClosed
  <2>1. panicked' \in BOOLEAN
    BY <1>1, Zenon
  <2> QED
    BY <1>1, <2>1
<1>2. CASE ~chanClosed /\ buf < BufSize
  BY <1>2
<1>3. CASE ~chanClosed /\ buf = BufSize
  BY <1>3
<1> QED
  BY <1>1, <1>2, <1>3

\* So does every step of the read pump and of its handlers.
LEMMA ReaderInv == ConnInv /\ (Read \/ ReadError \/ Reader) => ConnInv'
<1> SUFFICES ASSUME ConnInv, Read \/ ReadError \/ Reader PROVE ConnInv'
  OBVIOUS
<1>1. CASE HandlerSend
  BY <1>1, SendInv DEF HandlerSend, Callers
<1> USE ConnAssumption DEF ConnInv, ConnTypeOK, Caused, Over, Goto,
                             CallClose, chanVars, Goroutines, Callers
<1>2. CASE Read
  BY <1>2 DEF Read
<1>3. CASE HandlerDone
  BY <1>3 DEF HandlerDone
<1>4. CASE RoomFull
  BY <1>4 DEF RoomFull
<1>5. CASE ReadFails
  BY <1>5 DEF ReadFails
<1>6. CASE HandleDisconnect
  BY <1>6 DEF HandleDisconnect
<1>7. CASE ReadError
  BY <1>7 DEF ReadError
<1> QED
  BY <1>1, <1>2, <1>3, <1>4, <1>5, <1>6, <1>7 DEF Reader

\* So does every step of the write pump.
LEMMA WriterInv == ConnInv /\ Writer => ConnInv'
<1> SUFFICES ASSUME ConnInv, Writer PROVE ConnInv'
  OBVIOUS
<1> USE ConnAssumption DEF ConnInv, ConnTypeOK, Caused, Over, Goto,
            chanVars, Goroutines, Callers
<1>1. CASE Take
  BY <1>1 DEF Take
<1>2. CASE Write
  BY <1>2 DEF Write
<1>3. CASE Ping
  BY <1>3 DEF Ping
<1>4. CASE Drained
  BY <1>4 DEF Drained
<1>5. CASE Return
  BY <1>5 DEF Return
<1> QED
  BY <1>1, <1>2, <1>3, <1>4, <1>5 DEF Writer

\* So does every step of Close, whoever calls it.
LEMMA ClosingInv == ConnInv /\ (\E g \in Callers : Closing(g)) => ConnInv'
<1> SUFFICES ASSUME ConnInv, NEW g \in Callers, Closing(g) PROVE ConnInv'
  OBVIOUS
<1> USE ConnAssumption DEF ConnInv, ConnTypeOK, Caused, Over, Goto,
            chanVars, Goroutines, Callers
<1>1. CASE Close(g)
  BY <1>1 DEF Close
<1>2. CASE CloseConn(g)
  BY <1>2 DEF CloseConn
<1> QED
  BY <1>1, <1>2 DEF Closing

LEMMA ConnSteps == ConnInv /\ [ConnNext]_connVars => ConnInv'
<1> SUFFICES ASSUME ConnInv, [ConnNext]_connVars PROVE ConnInv'
  OBVIOUS
<1>1. CASE Read \/ ReadError \/ Reader
  BY <1>1, ReaderInv
<1>2. CASE Writer
  BY <1>2, WriterInv
<1>3. CASE \E g \in Callers : Closing(g)
  BY <1>3, ClosingInv
<1>4. ASSUME NEW g \in Senders, SendFound(g) PROVE ConnInv'
  BY <1>4, SendInv DEF SendFound, Callers
<1>5. ASSUME NEW g \in Senders, Lookup(g) PROVE ConnInv'
  BY <1>5, ConnAssumption
     DEF Lookup, ConnInv, ConnTypeOK, Caused, Over, Goto,
         chanVars, Goroutines, Callers
<1>6. CASE NetworkDown
  BY <1>6 DEF NetworkDown, ConnInv, ConnTypeOK, Caused, Over,
              chanVars
<1>7. CASE Register
  BY <1>7 DEF Register, ConnInv, ConnTypeOK, Caused, Over, chanVars
<1>8. CASE UNCHANGED connVars
  BY <1>8 DEF connVars, chanVars, ConnInv, ConnTypeOK, Caused, Over
<1> QED
  BY <1>1, <1>2, <1>3, <1>4, <1>5, <1>6, <1>7, <1>8 DEF ConnNext

\* The invariant holds throughout.
THEOREM ConnHolds == ConnSpec => []ConnInv
BY ConnStarts, ConnSteps, PTL DEF ConnSpec

\* The send channel never holds more than its capacity, and no goroutine is
\* anywhere but on its way (client.go, all of the file).
THEOREM ConnTyped == ConnSpec => []ConnTypeOK
<1>1. ConnInv => ConnTypeOK
  BY DEF ConnInv
<1> QED
  BY <1>1, ConnHolds, PTL

\* No message is dropped while the browser is there and nobody has closed the
\* client (Send, Close and writePump of client.go).
THEOREM NothingLostSilently == ConnSpec => []NoSilentLoss
<1>1. ConnInv => NoSilentLoss
  BY DEF ConnInv, Caused, Over, NoSilentLoss
<1> QED
  BY <1>1, ConnHolds, PTL

-----------------------------------------------------------------------------
(* The rate limiter                                                        *)

USE RateAssumption, BucketAssumption

\* What the parameters in the code have to satisfy: a token can be bought
\* with a full bucket, and a bucket is kept until it must be full again.
LEMMA Parameters ==
    ASSUME NEW k \in Keys
    PROVE  /\ Price(k) \in Nat /\ Full(k) \in Nat
           /\ Price(k) <= Full(k)
           /\ MaxAge[k[1]] \in Nat /\ Full(k) <= MaxAge[k[1]]
<1>1. CASE k[1] = "room"
  BY <1>1 DEF Price, Full, Every, Burst, MaxAge
<1>2. CASE k[1] = "chat"
  BY <1>2 DEF Price, Full, Every, Burst, MaxAge
<1>3. CASE k[1] = "fail"
  BY <1>3 DEF Price, Full, Every, Burst, MaxAge
<1> QED
  BY <1>1, <1>2, <1>3 DEF Types

\* Waiting never loses credit, never exceeds the burst, and adds up.
LEMMA RefillFacts ==
    ASSUME NEW k \in Keys, NEW c \in Nat, c <= Full(k), NEW d \in Nat, NEW e \in Nat
    PROVE  /\ Refill(k, c, d) \in Nat /\ Refill(k, c, d) <= Full(k)
           /\ Refill(k, c, d) <= c + d
           /\ Refill(k, c, 0) = c
           /\ Refill(k, Refill(k, c, d), e) = Refill(k, c, d + e)
           /\ d >= Full(k) => Refill(k, c, d) = Full(k)
  BY Parameters DEF Refill

\* The credit of every key lies between nothing and the burst.
LEMMA CreditType ==
    ASSUME LimiterTypeOK, NEW k \in Keys
    PROVE  Credit(k) \in Nat /\ Credit(k) <= Full(k)
<1>1. CASE buckets[k] = None
  BY <1>1, Parameters DEF Credit
<1>2. CASE buckets[k] # None
  <2>1. /\ buckets[k].credit \in Nat /\ buckets[k].credit <= Full(k)
        /\ now - buckets[k].last \in Nat
    BY <1>2 DEF LimiterTypeOK, Bucket
  <2> QED
    BY <1>2, <2>1, RefillFacts DEF Credit
<1> QED
  BY <1>1, <1>2

-----------------------------------------------------------------------------
\* What each operation does to credit: this is all the theorems need.

\* An allowed action costs a token, a refused one nothing.
LEMMA AllowCredit ==
    ASSUME LimiterTypeOK, NEW k \in Keys, Allow(k)
    PROVE  /\ LimiterTypeOK'
           /\ \A l \in Keys : Credit(l)' =
                  IF l = k /\ Credit(k) >= Price(k) THEN Credit(k) - Price(k) ELSE Credit(l)
<1> DEFINE fresh == [credit |-> Full(k), last |-> now, lastAccess |-> now]
           paid == [credit |-> Credit(k) - Price(k), last |-> now, lastAccess |-> now]
           b == IF buckets[k] = None THEN fresh ELSE buckets[k]
           refused == [b EXCEPT !.lastAccess = now]
<1>0. answer' \in Keys \X BOOLEAN
  <2> DEFINE ok == Credit(k) >= Price(k)
  <2>1. answer' = <<k, ok>>
    BY DEF Allow
  <2>2. ok = TRUE \/ ok = FALSE
    BY CreditType, Parameters
  <2> HIDE DEF ok
  <2> QED
    BY <2>1, <2>2
<1>1. Credit(k) \in Nat /\ Credit(k) <= Full(k) /\ Price(k) \in Nat /\ Full(k) \in Nat
      /\ Price(k) <= Full(k) /\ now \in Nat
  BY CreditType, Parameters DEF LimiterTypeOK
<1>2. CASE Credit(k) >= Price(k)
  <2>1. buckets' = [buckets EXCEPT ![k] = paid] /\ now' = now /\ since' = since
    BY <1>2 DEF Allow
  <2>2. /\ paid \in Bucket /\ paid # None
        /\ paid.credit = Credit(k) - Price(k) /\ paid.last = now /\ paid.lastAccess = now
    <3>1. Credit(k) - Price(k) \in Nat
      BY <1>1, <1>2
    <3>2. paid \in Bucket
      BY <1>1, <3>1 DEF Bucket
    <3> QED
      BY <3>2
  <2> HIDE DEF paid
  <2>3. granted' \in [Keys -> Nat]
    <3>1. granted[k] + 1 \in Nat
      BY DEF LimiterTypeOK
    <3> QED
      BY <3>1 DEF Allow, LimiterTypeOK
  <2>4. LimiterTypeOK'
    <3>1. answer' \in Keys \X BOOLEAN
      BY <1>0
    <3>2. buckets' \in [Keys -> Bucket \cup {None}]
      BY <2>1, <2>2 DEF LimiterTypeOK
    <3>3. \A l \in Keys : buckets'[l] = IF l = k THEN paid ELSE buckets[l]
      BY <2>1 DEF LimiterTypeOK
    <3>4. Full(k)' = Full(k)
      BY DEF Full
    <3>5. Credit(k) - Price(k) <= Full(k)
      BY <1>1, <1>2
    <3> QED
      BY <1>1, <2>1, <2>2, <2>3, <3>1, <3>2, <3>3, <3>5 DEF LimiterTypeOK
  <2>5. Refill(k, Credit(k) - Price(k), 0) = Credit(k) - Price(k)
    BY <1>1, <1>2 DEF Refill
  <2>6. Credit(k)' = Credit(k) - Price(k)
    BY <1>1, <2>1, <2>2, <2>5 DEF Credit, LimiterTypeOK
  <2>7. \A l \in Keys \ {k} : Credit(l)' = Credit(l)
    BY <2>1 DEF Credit, LimiterTypeOK
  <2> QED
    BY <1>2, <2>4, <2>6, <2>7
<1>3. CASE ~(Credit(k) >= Price(k))
  <2>1. buckets[k] # None
    BY <1>1, <1>3 DEF Credit
  <2>2. buckets' = [buckets EXCEPT ![k] = refused] /\ now' = now /\ since' = since
        /\ granted' = granted
    BY <1>3 DEF Allow
  <2>3. buckets[k] \in Bucket
    BY <2>1 DEF LimiterTypeOK
  <2>4. /\ refused \in Bucket /\ refused # None
        /\ refused.credit = buckets[k].credit /\ refused.last = buckets[k].last
        /\ refused.lastAccess = now
    <3>1. b = buckets[k]
      BY <2>1
    <3>2. refused \in Bucket
      BY <1>1, <2>3, <3>1 DEF Bucket
    <3> QED
      BY <2>3, <3>1, <3>2 DEF Bucket
  <2> HIDE DEF refused
  <2>5. LimiterTypeOK'
    BY <1>0, <1>1, <2>1, <2>2, <2>3, <2>4 DEF LimiterTypeOK, Bucket
  <2>6. \A l \in Keys : Credit(l)' = Credit(l)
    BY <2>1, <2>2, <2>4 DEF Credit, LimiterTypeOK
  <2> QED
    BY <1>3, <2>5, <2>6
<1> QED
  BY <1>2, <1>3

\* A bucket is old enough to go only when it is full again.
LEMMA CleanupCredit ==
    ASSUME LimiterTypeOK, Cleanup
    PROVE  LimiterTypeOK' /\ \A k \in Keys : Credit(k)' = Credit(k)
<1>1. LimiterTypeOK'
  BY DEF LimiterTypeOK, Cleanup
<1>2. ASSUME NEW k \in Keys PROVE Credit(k)' = Credit(k)
  <2>1. CASE Idle(k)
    <3>1. /\ buckets[k] # None /\ buckets[k].credit \in Nat /\ buckets[k].credit <= Full(k)
          /\ now - buckets[k].last \in Nat /\ now - buckets[k].last > MaxAge[k[1]]
      BY <2>1, Parameters DEF Idle, LimiterTypeOK, Bucket
    <3>2. now - buckets[k].last >= Full(k)
      BY <3>1, Parameters
    <3>3. Credit(k) = Full(k)
      BY <3>1, <3>2, RefillFacts DEF Credit
    <3>4. buckets'[k] = None /\ Full(k)' = Full(k)
      BY <2>1 DEF Cleanup
    <3> QED
      BY <3>3, <3>4 DEF Credit
  <2>2. CASE ~Idle(k)
    BY <2>2 DEF Cleanup, Credit
  <2> QED
    BY <2>1, <2>2
<1> QED
  BY <1>1, <1>2

\* Time refills every bucket alike, those that do not exist included.
LEMMA TickCredit ==
    ASSUME LimiterTypeOK, NEW d \in Steps, Tick(d)
    PROVE  LimiterTypeOK' /\ \A k \in Keys : Credit(k)' = Refill(k, Credit(k), d)
<1>1. d \in Nat /\ now' = now + d /\ now \in Nat
      /\ buckets' = buckets
  BY DEF Tick, LimiterTypeOK
<1>2. LimiterTypeOK'
  BY <1>1 DEF LimiterTypeOK, Tick, Bucket
<1>3. ASSUME NEW k \in Keys PROVE Credit(k)' = Refill(k, Credit(k), d)
  <2>1. CASE buckets[k] = None
    BY <1>1, <2>1, Parameters DEF Credit, Refill
  <2>2. CASE buckets[k] # None
    <3>1. /\ buckets[k].credit \in Nat /\ buckets[k].credit <= Full(k)
          /\ buckets[k].last \in Nat /\ now - buckets[k].last \in Nat
      BY <2>2 DEF LimiterTypeOK, Bucket
    <3>2. Refill(k, Refill(k, buckets[k].credit, now - buckets[k].last), d)
              = Refill(k, buckets[k].credit, (now - buckets[k].last) + d)
      <4> HIDE DEF Refill
      <4>1. \A c, e, f \in Nat : c <= Full(k) =>
                Refill(k, Refill(k, c, e), f) = Refill(k, c, e + f)
        BY RefillFacts
      <4> QED
        BY <1>1, <3>1, <4>1
    <3>3. (now - buckets[k].last) + d = (now + d) - buckets[k].last
      BY <1>1, <3>1
    <3> QED
      BY <1>1, <2>2, <3>2, <3>3 DEF Credit
  <2> QED
    BY <2>1, <2>2
<1> QED
  BY <1>2, <1>3

LEMMA ObserveCredit ==
    ASSUME LimiterTypeOK, Observe
    PROVE  LimiterTypeOK' /\ \A k \in Keys : Credit(k)' = Credit(k)
  BY DEF LimiterTypeOK, Observe, Credit, Bucket

LEMMA InitCredit == LimiterInit => LimiterTypeOK /\ \A k \in Keys : Credit(k) = Full(k)
  BY DEF LimiterInit, LimiterTypeOK, Credit

-----------------------------------------------------------------------------
(* The rate bound.  What has been granted and what could be granted now    *)
(* together never exceed the burst and the time that has passed.           *)

Spent ==
    \A k \in Keys :
        IF since = None THEN granted[k] = 0
        ELSE granted[k] * Price(k) + Credit(k) <= Full(k) + (now - since)

LimiterInv == LimiterTypeOK /\ Spent

LEMMA LimiterStarts == LimiterInit => LimiterInv
  BY InitCredit DEF LimiterInit, LimiterInv, Spent

\* Every operation keeps the bound on what is granted and grantable.
LEMMA LimiterSteps == LimiterInv /\ [LimiterNext]_limiterVars => LimiterInv'
<1> SUFFICES ASSUME LimiterInv, [LimiterNext]_limiterVars PROVE LimiterInv'
  OBVIOUS
<1>0. LimiterTypeOK /\ Spent
  BY DEF LimiterInv
<1>1. ASSUME NEW k \in Keys, Allow(k) PROVE LimiterInv'
  <2>1. /\ LimiterTypeOK' /\ since' = since /\ now' = now
        /\ \A l \in Keys : Credit(l)' =
               IF l = k /\ Credit(k) >= Price(k) THEN Credit(k) - Price(k) ELSE Credit(l)
    BY <1>0, <1>1, AllowCredit DEF Allow
  <2>2. CASE since = None
    BY <1>0, <1>1, <2>1, <2>2 DEF Allow, Spent, LimiterInv
  <2>3. CASE since # None
    <3> SUFFICES ASSUME NEW l \in Keys
                 PROVE  granted'[l] * Price(l) + Credit(l)' <= Full(l) + (now - since)
      BY <2>1, <2>3 DEF LimiterInv, Spent, Price, Full
    <3>1. granted[l] * Price(l) + Credit(l) <= Full(l) + (now - since)
      BY <1>0, <2>3 DEF Spent
    <3>2. CASE l = k /\ Credit(k) >= Price(k)
      <4>1. granted'[l] = granted[l] + 1 /\ Credit(l)' = Credit(l) - Price(l)
        BY <1>0, <1>1, <2>1, <2>3, <3>2 DEF Allow, LimiterTypeOK
      <4>2. granted[l] \in Nat /\ Price(l) \in Nat /\ Credit(l) \in Nat /\ Full(l) \in Nat
            /\ now \in Nat /\ since \in Nat
        BY <1>0, <2>3, CreditType, Parameters DEF LimiterTypeOK
      <4>3. (granted[l] + 1) * Price(l) = granted[l] * Price(l) + Price(l)
        BY <4>2
      <4>4. granted[l] * Price(l) \in Nat
        BY <4>2
      <4> HIDE DEF Price, Full, Credit
      <4> QED
        BY <3>1, <4>1, <4>2, <4>3, <4>4
    <3>3. CASE ~(l = k /\ Credit(k) >= Price(k))
      <4>1. granted'[l] = granted[l] /\ Credit(l)' = Credit(l)
        BY <1>0, <1>1, <2>1, <3>3 DEF Allow, LimiterTypeOK
      <4> QED
        BY <3>1, <4>1
    <3> QED
      BY <3>2, <3>3
  <2> QED
    BY <2>2, <2>3
<1>2. CASE Cleanup
  BY <1>0, <1>2, CleanupCredit DEF Cleanup, LimiterInv, Spent, Price, Full
<1>3. ASSUME NEW d \in Steps, Tick(d) PROVE LimiterInv'
  <2>1. /\ LimiterTypeOK' /\ since' = since /\ granted' = granted /\ now' = now + d
        /\ \A k \in Keys : Credit(k)' = Refill(k, Credit(k), d)
    BY <1>0, <1>3, TickCredit DEF Tick
  <2> SUFFICES ASSUME NEW k \in Keys
               PROVE  IF since = None THEN granted[k] = 0
                      ELSE granted[k] * Price(k) + Credit(k)' <= Full(k) + ((now + d) - since)
    BY <2>1 DEF LimiterInv, Spent, Price, Full
  <2>2. /\ d \in Nat /\ now \in Nat /\ Credit(k) \in Nat /\ Credit(k) <= Full(k)
        /\ Full(k) \in Nat /\ Price(k) \in Nat /\ granted[k] \in Nat
    BY <1>0, CreditType, Parameters DEF LimiterTypeOK
  <2>3. Credit(k)' <= Credit(k) + d /\ Credit(k)' \in Nat
    BY <2>1, <2>2, RefillFacts
  <2>4. granted[k] * Price(k) \in Nat
    BY <2>2
  <2>5. CASE since = None
    BY <1>0, <2>5 DEF Spent
  <2>6. CASE since # None
    <3>1. since \in Nat /\ granted[k] * Price(k) + Credit(k) <= Full(k) + (now - since)
      BY <1>0, <2>6 DEF Spent, LimiterTypeOK
    <3> QED
      BY <2>2, <2>3, <2>4, <2>6, <3>1
  <2> QED
    BY <2>5, <2>6
<1>4. CASE Observe
  <2>1. /\ LimiterTypeOK' /\ since = None /\ since' = now /\ granted' = granted /\ now' = now
        /\ \A k \in Keys : Credit(k)' = Credit(k)
    BY <1>0, <1>4, ObserveCredit DEF Observe
  <2> SUFFICES ASSUME NEW k \in Keys
               PROVE  granted[k] * Price(k) + Credit(k) <= Full(k) + (now - now)
    BY <2>1, <1>0 DEF LimiterInv, Spent, Price, Full, LimiterTypeOK
  <2>2. granted[k] = 0 /\ Credit(k) \in Nat /\ Credit(k) <= Full(k) /\ Full(k) \in Nat
        /\ Price(k) \in Nat /\ now \in Nat
    BY <1>0, <2>1, CreditType, Parameters DEF Spent, LimiterTypeOK
  <2>3. 0 * Price(k) = 0
    BY <2>2
  <2> QED
    BY <2>2, <2>3
<1>5. CASE UNCHANGED limiterVars
  BY <1>0, <1>5 DEF limiterVars, LimiterInv, LimiterTypeOK, Spent, Credit, Price, Full, Bucket
<1> QED
  BY <1>1, <1>2, <1>3, <1>4, <1>5 DEF LimiterNext

\* No bucket ever holds more than its burst.
THEOREM LimiterTyped == LimiterSpec => []LimiterTypeOK
<1>1. LimiterInv => LimiterTypeOK
  BY DEF LimiterInv
<1> QED
  BY <1>1, LimiterStarts, LimiterSteps, PTL DEF LimiterSpec

\* However long the program runs and whenever it cleans up, no key is ever
\* allowed more than its burst and its rate, in any period.
THEOREM RateBounded == LimiterSpec => []RateBound
<1>1. LimiterInv => RateBound
  <2> SUFFICES ASSUME LimiterInv, since # None, NEW k \in Keys
               PROVE  granted[k] * Price(k) <= Full(k) + (now - since)
    BY DEF RateBound
  <2>1. LimiterTypeOK /\ granted[k] * Price(k) + Credit(k) <= Full(k) + (now - since)
    BY DEF LimiterInv, Spent
  <2>2. /\ Credit(k) \in Nat /\ Full(k) \in Nat /\ Price(k) \in Nat /\ granted[k] \in Nat
        /\ now \in Nat /\ since \in Nat
    BY <2>1, CreditType, Parameters DEF LimiterTypeOK
  <2>3. granted[k] * Price(k) \in Nat
    BY <2>2
  <2> QED
    BY <2>1, <2>2, <2>3
<1> QED
  BY <1>1, LimiterStarts, LimiterSteps, PTL DEF LimiterSpec

-----------------------------------------------------------------------------
(* Refinement: the credit of the ideal limiter is Credit.                  *)

LEMMA IdealInit == LimiterInit => Ideal!Init
  BY InitCredit DEF LimiterInit, Ideal!Init, Ideal!Full, Full, Ideal!Burst, Burst, Ideal!Every, Every

\* An allowance or a refusal and a wait are the ideal limiter's own steps; a
\* cleanup is not seen.
LEMMA IdealStep ==
    LimiterInv /\ [LimiterNext]_limiterVars => [Ideal!Next]_<<now, [k \in Keys |-> Credit(k)], answer>>
<1> DEFINE credit == [k \in Keys |-> Credit(k)]
<1> SUFFICES ASSUME LimiterTypeOK, [LimiterNext]_limiterVars
             PROVE  Ideal!Next \/ UNCHANGED <<now, credit, answer>>
  BY DEF LimiterInv
<1>1. ASSUME NEW k \in Keys, Allow(k) PROVE Ideal!Allow(k)
  <2>1. \A l \in Keys : Credit(l)' =
            IF l = k /\ Credit(k) >= Price(k) THEN Credit(k) - Price(k) ELSE Credit(l)
    BY <1>1, AllowCredit
  <2>2. Ideal!Price(k) = Price(k)
    BY DEF Ideal!Price, Price, Ideal!Every, Every
  <2>3. answer' = <<k, Credit(k) >= Price(k)>>
    BY <1>1 DEF Allow
  <2>4. credit' = [credit EXCEPT ![k] = IF credit[k] >= Price(k) THEN credit[k] - Price(k)
                                        ELSE credit[k]]
    BY <2>1
  <2> QED
    BY <1>1, <2>2, <2>3, <2>4 DEF Ideal!Allow, Allow
<1>2. ASSUME Cleanup \/ Observe PROVE UNCHANGED <<now, credit, answer>>
  BY <1>2, CleanupCredit, ObserveCredit DEF Cleanup, Observe
<1>3. ASSUME NEW d \in Steps, Tick(d) PROVE Ideal!Wait(d)
  <2>1. \A k \in Keys : Credit(k)' = Refill(k, Credit(k), d)
    BY <1>3, TickCredit
  <2>2. \A k \in Keys : Ideal!Refill(k, Credit(k), d) = Refill(k, Credit(k), d)
    BY DEF Ideal!Refill, Refill, Ideal!Full, Full, Ideal!Burst, Burst, Ideal!Every, Every
  <2> QED
    BY <1>3, <2>1, <2>2 DEF Ideal!Wait, Tick
<1>4. ASSUME UNCHANGED limiterVars PROVE UNCHANGED <<now, credit, answer>>
  BY <1>4 DEF limiterVars, Credit
<1> QED
  BY <1>1, <1>2, <1>3, <1>4 DEF LimiterNext, Ideal!Next

\* The limiter that throws idle buckets away cannot be told from the one
\* that keeps them all.
THEOREM Implements == LimiterSpec => ImplementsIdeal
<1> QED
  BY IdealInit, IdealStep, LimiterStarts, LimiterSteps, PTL DEF LimiterSpec, ImplementsIdeal, Ideal!Spec
===============================================================================
