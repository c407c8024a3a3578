---------------------------- MODULE SocketsProofs ----------------------------
(* Safety proofs for Sockets, for any threads, operations and endpoints.    *)
EXTENDS Sockets, TLAPS

USE DEF regVars

(* The four socket types are those the loops go through. *)
LEMMA AllTypes ==
  /\ Len(AllSocketTypes) = 4
  /\ \A i \in 1..4 : AllSocketTypes[i] \in SocketTypes
  BY DEF AllSocketTypes, SocketTypes

(* What is known about the operation of a thread. *)
LEMMA OperationTypes ==
  ASSUME NEW o \in Operations
  PROVE  /\ o.st \in SocketTypes
         /\ o.kind = "attach" => o.arg \in Endpoints
         /\ o.kind = "addFilter" => o.arg \in Filters
         /\ o.kind = "toggleIPV6" => o.arg \in BOOLEAN
  BY DEF Operations, SocketTypes

(* The idle operation is one. *)
LEMMA NoOpType == NoOp \in Operations
  BY DEF NoOp, Operations

(* The socket type a thread works on is one of the four. *)
LEMMA TypeType == ASSUME TypeOK, NEW t \in Threads PROVE Type(t) \in SocketTypes
<1>1. next[t] \in 1..4 /\ op[t] \in Operations
  BY AllTypes DEF TypeOK
<1>2. AllSocketTypes[next[t]] \in SocketTypes /\ op[t].st \in SocketTypes
  BY <1>1, AllTypes, OperationTypes
<1>3. QED
  BY <1>2 DEF Type, SocketTypes

(* A new and a closed socket are sockets. *)
LEMMA SocketValues ==
  /\ \A st \in SocketTypes : Opened(st) \in ZmqSockets /\ Opened(st).open /\ Opened(st).st = st
  /\ Closed \in ZmqSockets /\ ~Closed.open
<1>1. ASSUME NEW st \in SocketTypes
      PROVE  Opened(st) \in ZmqSockets /\ Opened(st).open /\ Opened(st).st = st
  BY DEF Opened, ZmqSockets
<1>2. Closed \in ZmqSockets /\ ~Closed.open
  BY DEF Closed, Opened, ZmqSockets, SocketTypes
<1>3. QED
  BY <1>1, <1>2

\* the types of what is private to the threads, and of the registry
LocalTypes ==
  /\ op \in [Threads -> Operations]
  /\ pc \in [Threads -> PCs]
  /\ ptr \in [Threads -> Handles \cup {NoSocket}]
  /\ next \in [Threads -> 1..4]
RegTypes ==
  /\ socket \in [SocketTypes -> Handles \cup {NoSocket}]
  /\ list \in [SocketTypes -> SUBSET Endpoints]
  /\ filters \subseteq Filters
  /\ zmq \in [Handles -> ZmqSockets]

(* Both together are the type invariant. *)
LEMMA TypeSplit == TypeOK <=> LocalTypes /\ RegTypes
  BY AllTypes DEF TypeOK, LocalTypes, RegTypes

(* Every step of a thread keeps the types of what is private to it. *)
LEMMA LocalStep ==
  ASSUME TypeOK, NEW t \in Threads,
         Step(t) \/ \E o \in Program[t] : Call(t, o)
  PROVE  LocalTypes'
<1> USE NoOpType, SocketAssumption, AllTypes DEF TypeOK, LocalTypes, PCs
<1>1. ASSUME Return(t) PROVE LocalTypes'
  BY <1>1 DEF Return
<1>2. ASSUME NEW l \in {"get", "closeOne"}, NextType(t, l) PROVE LocalTypes'
  <2>1. CASE next[t] < 4
    BY <1>2, <2>1 DEF NextType
  <2>2. CASE ~(next[t] < 4)
    BY <1>1, <1>2, <2>2 DEF NextType
  <2>3. QED
    BY <2>1, <2>2
<1>3. ASSUME NEW l \in PCs, Goto(t, l), UNCHANGED ptr PROVE LocalTypes'
  BY <1>3 DEF Goto
<1>4. CASE \E o \in Program[t] : Call(t, o)
  BY <1>4 DEF Call
<1>5. CASE HasBindsOrConnections(t)
  BY <1>1, <1>3, <1>5 DEF HasBindsOrConnections
<1>6. CASE ZMQSocket(t)
  <2>1. ptr' \in [Threads -> Handles \cup {NoSocket}]
    BY <1>6, TypeType DEF ZMQSocket
  <2>2. pc' \in [Threads -> PCs] /\ UNCHANGED <<op, next>>
    BY <1>6 DEF ZMQSocket, Goto
  <2>3. QED
    BY <2>1, <2>2
<1>7. CASE DoBindOrConnect(t) \/ Transfer(t)
  BY <1>1, <1>7 DEF DoBindOrConnect, Transfer
<1>8. CASE AddSubscriberMessageFilter(t) \/ RemoveSubscriberMessageFilter(t)
  BY <1>1, <1>8 DEF AddSubscriberMessageFilter, RemoveSubscriberMessageFilter
<1>9. CASE ToggleIPV6Support(t)
  BY <1>1, <1>2, <1>9 DEF ToggleIPV6Support
<1>10. CASE CloseHasSub(t) \/ CloseClearFilters(t)
  BY <1>1, <1>3, <1>10 DEF CloseHasSub, CloseClearFilters
<1>11. CASE CloseOne(t)
  BY <1>2, <1>11 DEF CloseOne
<1>12. QED
  BY <1>4, <1>5, <1>6, <1>7, <1>8, <1>9, <1>10, <1>11 DEF Step

(* A step that changes neither the pointers nor which sockets are open,     *)
(* keeps the ownership.                                                     *)
LEMMA SameOwner ==
  ASSUME RegistryOwnsSockets, UNCHANGED socket,
         \A h \in Handles : zmq'[h].open = zmq[h].open /\ zmq'[h].st = zmq[h].st
  PROVE  RegistryOwnsSockets'
  BY DEF RegistryOwnsSockets

\* changing an option of a socket leaves the socket what and where it is
SameSockets ==
  /\ zmq' \in [Handles -> ZmqSockets]
  /\ \A h \in Handles : zmq'[h].open = zmq[h].open /\ zmq'[h].st = zmq[h].st

(* Attaching, subscribing and unsubscribing, and the IPv6 option keep the   *)
(* sockets, with a valid pointer as well as with a stale one.               *)
LEMMA OptionStep ==
  ASSUME TypeOK, NEW p,
         \/ zmq' = zmq
         \/ \E E \in SUBSET (SocketTypes \X Endpoints) : zmq' = [zmq EXCEPT ![p].endpoints = E]
         \/ \E F \in SUBSET Filters : zmq' = [zmq EXCEPT ![p].subs = F]
         \/ \E b \in BOOLEAN : zmq' = [zmq EXCEPT ![p].ipv6 = b]
  PROVE  SameSockets
<1> USE DEF TypeOK, SameSockets
<1>1. CASE zmq' = zmq
  BY <1>1
<1>2. ASSUME NEW E \in SUBSET (SocketTypes \X Endpoints), zmq' = [zmq EXCEPT ![p].endpoints = E]
      PROVE  SameSockets
  <2>1. ASSUME NEW z \in ZmqSockets
        PROVE  LET r == [z EXCEPT !.endpoints = E]
               IN  r \in ZmqSockets /\ r.open = z.open /\ r.st = z.st
    BY DEF ZmqSockets
  <2>2. \A h \in Handles : zmq'[h] = IF h = p THEN [zmq[h] EXCEPT !.endpoints = E] ELSE zmq[h]
    BY <1>2
  <2>3. zmq' = [h \in Handles |-> zmq'[h]]
    BY <1>2
  <2>4. ASSUME NEW h \in Handles
        PROVE  /\ zmq'[h] \in ZmqSockets
               /\ zmq'[h].open = zmq[h].open /\ zmq'[h].st = zmq[h].st
    <3>1. zmq[h] \in ZmqSockets
      OBVIOUS
    <3>2. QED
      BY <2>1, <2>2, <3>1
  <2>5. zmq' \in [Handles -> ZmqSockets]
    BY <2>3, <2>4
  <2>6. QED
    BY <2>4, <2>5
<1>3. ASSUME NEW F \in SUBSET Filters, zmq' = [zmq EXCEPT ![p].subs = F]
      PROVE  SameSockets
  <2>1. ASSUME NEW z \in ZmqSockets
        PROVE  LET r == [z EXCEPT !.subs = F]
               IN  r \in ZmqSockets /\ r.open = z.open /\ r.st = z.st
    BY DEF ZmqSockets
  <2>2. \A h \in Handles : zmq'[h] = IF h = p THEN [zmq[h] EXCEPT !.subs = F] ELSE zmq[h]
    BY <1>3
  <2>3. zmq' = [h \in Handles |-> zmq'[h]]
    BY <1>3
  <2>4. ASSUME NEW h \in Handles
        PROVE  /\ zmq'[h] \in ZmqSockets
               /\ zmq'[h].open = zmq[h].open /\ zmq'[h].st = zmq[h].st
    <3>1. zmq[h] \in ZmqSockets
      OBVIOUS
    <3>2. QED
      BY <2>1, <2>2, <3>1
  <2>5. zmq' \in [Handles -> ZmqSockets]
    BY <2>3, <2>4
  <2>6. QED
    BY <2>4, <2>5
<1>4. ASSUME NEW b \in BOOLEAN, zmq' = [zmq EXCEPT ![p].ipv6 = b]
      PROVE  SameSockets
  <2>1. ASSUME NEW z \in ZmqSockets
        PROVE  LET r == [z EXCEPT !.ipv6 = b]
               IN  r \in ZmqSockets /\ r.open = z.open /\ r.st = z.st
    BY DEF ZmqSockets
  <2>2. \A h \in Handles : zmq'[h] = IF h = p THEN [zmq[h] EXCEPT !.ipv6 = b] ELSE zmq[h]
    BY <1>4
  <2>3. zmq' = [h \in Handles |-> zmq'[h]]
    BY <1>4
  <2>4. ASSUME NEW h \in Handles
        PROVE  /\ zmq'[h] \in ZmqSockets
               /\ zmq'[h].open = zmq[h].open /\ zmq'[h].st = zmq[h].st
    <3>1. zmq[h] \in ZmqSockets
      OBVIOUS
    <3>2. QED
      BY <2>1, <2>2, <3>1
  <2>5. zmq' \in [Handles -> ZmqSockets]
    BY <2>3, <2>4
  <2>6. QED
    BY <2>4, <2>5
<1>5. QED
  BY <1>1, <1>2, <1>3, <1>4

(* Every step of a thread keeps the types of the registry and the ownership *)
(* of the sockets: creation and close are atomic under the socket's mutex,  *)
(* and no other operation opens or closes a socket.                         *)
LEMMA RegStep ==
  ASSUME TypeOK, RegistryOwnsSockets, NEW t \in Threads,
         Step(t) \/ \E o \in Program[t] : Call(t, o)
  PROVE  RegTypes' /\ RegistryOwnsSockets'
<1> USE DEF TypeOK, RegTypes
<1>0. ASSUME UNCHANGED regVars PROVE RegTypes' /\ RegistryOwnsSockets'
  BY <1>0 DEF RegistryOwnsSockets
<1>1. op[t] \in Operations /\ ptr[t] \in Handles \cup {NoSocket}
  OBVIOUS
<1>2. ASSUME SameSockets, UNCHANGED socket,
             list' \in [SocketTypes -> SUBSET Endpoints], filters' \subseteq Filters
      PROVE  RegTypes' /\ RegistryOwnsSockets'
  BY <1>2, SameOwner DEF SameSockets
<1>3. CASE (\E o \in Program[t] : Call(t, o)) \/ HasBindsOrConnections(t) \/ Transfer(t)
           \/ CloseHasSub(t)
  BY <1>0, <1>3 DEF Call, HasBindsOrConnections, Transfer, CloseHasSub
<1>4. CASE ZMQSocket(t)
  <2> DEFINE st == Type(t)
  <2>1. st \in SocketTypes
    BY TypeType
  <2>2. CASE UNCHANGED <<socket, zmq>>
    BY <1>0, <1>4, <2>2 DEF ZMQSocket
  <2>3. ASSUME NEW h \in Handles, ~zmq[h].open, socket[st] = NoSocket,
               zmq' = [zmq EXCEPT ![h] = Opened(st)],
               socket' = [socket EXCEPT ![st] = h]
        PROVE  RegTypes' /\ RegistryOwnsSockets'
    <3>1. RegTypes'
      BY <1>4, <2>1, <2>3, SocketValues DEF ZMQSocket
    <3>2. RegistryOwnsSockets'
      BY <2>1, <2>3, SocketValues, SocketAssumption DEF RegistryOwnsSockets
    <3>3. QED
      BY <3>1, <3>2
  <2>4. QED
    BY <1>4, <2>2, <2>3 DEF ZMQSocket
<1>5. CASE DoBindOrConnect(t)
  <2>1. SameSockets
    <3>1. CASE CanAttach(t)
      <4>1. op[t].arg \in Endpoints /\ op[t].st \in SocketTypes
        BY <1>1, <1>5, OperationTypes DEF DoBindOrConnect, Working
      <4>2. CASE ptr[t] \in Handles
        <5>1. zmq[ptr[t]].endpoints \cup {<<op[t].st, op[t].arg>>} \in SUBSET (SocketTypes \X Endpoints)
          BY <4>1, <4>2 DEF ZmqSockets
        <5>2. QED
          BY <1>5, <3>1, <5>1, OptionStep DEF DoBindOrConnect
      <4>3. CASE ptr[t] = NoSocket
        <5>1. zmq' = zmq
          BY <1>5, <3>1, <4>3, SocketAssumption DEF DoBindOrConnect
        <5>2. QED
          BY <5>1, OptionStep
      <4>4. QED
        BY <1>1, <4>2, <4>3
    <3>2. CASE ~CanAttach(t)
      BY <1>5, <3>2, OptionStep DEF DoBindOrConnect
    <3>3. QED
      BY <3>1, <3>2
  <2>2. list' \in [SocketTypes -> SUBSET Endpoints]
    <3>1. op[t].arg \in Endpoints /\ op[t].st \in SocketTypes
      BY <1>1, <1>5, OperationTypes DEF DoBindOrConnect, Working
    <3>2. CASE CanAttach(t)
      <4>1. list' = [list EXCEPT ![op[t].st] = list[op[t].st] \cup ({op[t].arg} \ LongEndpoints)]
        BY <1>5, <3>2 DEF DoBindOrConnect
      <4>2. list[op[t].st] \cup ({op[t].arg} \ LongEndpoints) \in SUBSET Endpoints
        BY <3>1
      <4>3. QED
        BY <4>1, <4>2
    <3>3. CASE ~CanAttach(t)
      BY <1>5, <3>3 DEF DoBindOrConnect
    <3>4. QED
      BY <3>2, <3>3
  <2>3. QED
    BY <1>2, <1>5, <2>1, <2>2 DEF DoBindOrConnect
<1>6. ASSUME NEW fs \in SUBSET Filters, Unsubscribe(t, fs) \/ UnsubscribeFails(t, fs)
      PROVE  SameSockets /\ filters' \subseteq Filters
  <2>1. \/ zmq' = zmq
        \/ \E some \in SUBSET fs : zmq' = [zmq EXCEPT ![ptr[t]].subs = zmq[ptr[t]].subs \ some]
    BY <1>6 DEF Unsubscribe, UnsubscribeFails
  <2>2. filters' \subseteq Filters
    BY <1>6 DEF Unsubscribe, UnsubscribeFails
  <2>3. ASSUME NEW some \in SUBSET fs,
               zmq' = [zmq EXCEPT ![ptr[t]].subs = zmq[ptr[t]].subs \ some]
        PROVE  SameSockets
    <3>1. CASE ptr[t] \in Handles
      <4>1. zmq[ptr[t]].subs \ some \in SUBSET Filters
        BY <3>1 DEF ZmqSockets
      <4>2. QED
        BY <2>3, <4>1, OptionStep
    <3>2. CASE ptr[t] = NoSocket
      <4>1. zmq' = zmq
        BY <2>3, <3>2, SocketAssumption
      <4>2. QED
        BY <4>1, OptionStep
    <3>3. QED
      BY <1>1, <3>1, <3>2
  <2>4. CASE zmq' = zmq
    BY <2>2, <2>4 DEF SameSockets
  <2>5. QED
    BY <2>1, <2>2, <2>3, <2>4
<1>7. CASE AddSubscriberMessageFilter(t)
  <2>1. CASE UNCHANGED <<zmq, filters>>
    BY <1>0, <1>7, <2>1 DEF AddSubscriberMessageFilter
  <2>2. CASE /\ zmq' = [zmq EXCEPT ![ptr[t]].subs = @ \cup {op[t].arg}]
             /\ filters' = filters \cup {op[t].arg}
    <3>1. op[t].arg \in Filters
      BY <1>1, <1>7, OperationTypes DEF AddSubscriberMessageFilter, Working
    <3>2. SameSockets
      <4>1. CASE ptr[t] \in Handles
        <5>1. zmq[ptr[t]].subs \cup {op[t].arg} \in SUBSET Filters
          BY <3>1, <4>1 DEF ZmqSockets
        <5>2. QED
          BY <1>7, <2>2, <5>1, OptionStep DEF AddSubscriberMessageFilter
      <4>2. CASE ptr[t] = NoSocket
        <5>1. zmq' = zmq
          BY <1>7, <2>2, <4>2, SocketAssumption DEF AddSubscriberMessageFilter
        <5>2. QED
          BY <5>1, OptionStep
      <4>3. QED
        BY <1>1, <4>1, <4>2
    <3>3. QED
      BY <1>2, <1>7, <2>2, <3>1, <3>2 DEF AddSubscriberMessageFilter
  <2>3. QED
    BY <1>7, <2>1, <2>2 DEF AddSubscriberMessageFilter
<1>8. CASE RemoveSubscriberMessageFilter(t)
  <2> DEFINE fs == IF op[t].arg = Nothing THEN filters ELSE {op[t].arg} \cap filters
  <2>1. CASE UNCHANGED <<zmq, filters>>
    BY <1>0, <1>8, <2>1 DEF RemoveSubscriberMessageFilter
  <2>2. CASE Unsubscribe(t, fs) \/ UnsubscribeFails(t, fs)
    <3>1. fs \in SUBSET Filters
      OBVIOUS
    <3>2. SameSockets /\ filters' \subseteq Filters
      BY <1>6, <2>2, <3>1
    <3>3. QED
      BY <1>2, <1>8, <3>2 DEF RemoveSubscriberMessageFilter
  <2>3. QED
    BY <1>8, <2>1, <2>2 DEF RemoveSubscriberMessageFilter
<1>9. CASE ToggleIPV6Support(t)
  <2>1. SameSockets
    <3>1. op[t].arg \in BOOLEAN
      BY <1>1, <1>9, OperationTypes DEF ToggleIPV6Support, Working
    <3>2. QED
      BY <1>9, <3>1, OptionStep DEF ToggleIPV6Support
  <2>2. QED
    BY <1>2, <1>9, <2>1 DEF ToggleIPV6Support
<1>10. CASE CloseClearFilters(t)
  <2>1. CASE UNCHANGED <<zmq, filters>>
    BY <1>0, <1>10, <2>1 DEF CloseClearFilters
  <2>2. CASE Unsubscribe(t, filters) \/ UnsubscribeFails(t, filters)
    <3>1. SameSockets /\ filters' \subseteq Filters
      BY <1>6, <2>2
    <3>2. QED
      BY <1>2, <1>10, <3>1 DEF CloseClearFilters
  <2>3. QED
    BY <1>10, <2>1, <2>2 DEF CloseClearFilters
<1>11. CASE CloseOne(t)
  <2> DEFINE st == Type(t)
  <2>1. st \in SocketTypes
    BY TypeType
  <2>2. CASE socket[st] = NoSocket
    BY <1>0, <1>11, <2>2 DEF CloseOne, CloseSocket
  <2>3. CASE socket[st] # NoSocket
    <3>1. /\ zmq' = [zmq EXCEPT ![socket[st]] = Closed]
          /\ list' = [list EXCEPT ![st] = {}]
          /\ socket' = [socket EXCEPT ![st] = NoSocket]
          /\ UNCHANGED filters
      BY <1>11, <2>3 DEF CloseOne, CloseSocket
    <3>2. RegTypes'
      BY <2>1, <3>1, SocketValues
    <3>3. RegistryOwnsSockets'
      BY <2>1, <2>3, <3>1, SocketValues, SocketAssumption DEF RegistryOwnsSockets
    <3>4. QED
      BY <3>2, <3>3
  <2>4. QED
    BY <2>2, <2>3
<1>12. QED
  BY <1>3, <1>4, <1>5, <1>7, <1>8, <1>9, <1>10, <1>11 DEF Step

(* The registry is well typed and owns exactly the open sockets in every    *)
(* state, however many threads create, use and close sockets.               *)
THEOREM RegistryInvariance == Spec => [](TypeOK /\ RegistryOwnsSockets)
<1>1. Init => TypeOK /\ RegistryOwnsSockets
  <2> SUFFICES ASSUME Init PROVE TypeOK /\ RegistryOwnsSockets
    OBVIOUS
  <2>1. LocalTypes
    BY NoOpType DEF Init, LocalTypes, PCs
  <2>2. RegTypes
    BY SocketValues DEF Init, RegTypes
  <2>3. RegistryOwnsSockets
    BY SocketValues, SocketAssumption DEF Init, RegistryOwnsSockets
  <2>4. QED
    BY <2>1, <2>2, <2>3, TypeSplit
<1>2. TypeOK /\ RegistryOwnsSockets /\ [Next]_vars => TypeOK' /\ RegistryOwnsSockets'
  <2> SUFFICES ASSUME TypeOK, RegistryOwnsSockets, [Next]_vars
               PROVE  TypeOK' /\ RegistryOwnsSockets'
    OBVIOUS
  <2>1. CASE UNCHANGED vars
    BY <2>1 DEF vars, TypeOK, RegistryOwnsSockets
  <2>2. ASSUME NEW t \in Threads, Step(t) \/ \E o \in Program[t] : Call(t, o)
        PROVE  TypeOK' /\ RegistryOwnsSockets'
    <3>1. LocalTypes' /\ RegTypes' /\ RegistryOwnsSockets'
      BY <2>2, LocalStep, RegStep
    <3>2. QED
      BY <3>1, AllTypes DEF TypeOK, LocalTypes, RegTypes
  <2>3. QED
    BY <2>1, <2>2 DEF Next
<1>3. QED
  BY <1>1, <1>2, PTL DEF Spec

(* The registry and the threads are well typed. *)
THEOREM SocketsTypeCorrect == Spec => []TypeOK
  BY RegistryInvariance, PTL

(* No socket leaks, is registered twice or stays registered after its close *)
(* (GlobalData.cpp:92-112, 166-210), whatever the threads do.               *)
THEOREM NoSocketLeaks == Spec => []RegistryOwnsSockets
  BY RegistryInvariance, PTL

-----------------------------------------------------------------------------
(* What holds of the socket registry as long as no operation overlaps a     *)
(* close, for any threads, operations and endpoints.                        *)

ClosePCs == {"hasSub", "getSub", "clear", "closeOne"}

\* the operation of a thread and the registry agree
ThreadOK(t) ==
  /\ Closing(t) <=> pc[t] \in ClosePCs
  /\ pc[t] \in {"use", "clear"} => ptr[t] = socket[Type(t)] /\ ptr[t] # NoSocket
  /\ pc[t] = "closeOne" =>
       filters = {} /\ \A j \in 1..next[t] - 1 : socket[AllSocketTypes[j]] = NoSocket
  /\ (pc[t] = "idle" \/ op[t].kind # "toggleIPV6") /\ pc[t] # "closeOne" => next[t] = 1

\* a socket is bound or connected for its own type only
OwnEndpoints == \A st \in SocketTypes : AttachedTo(st) \subseteq {st} \X Endpoints

QuietInv ==
  /\ \A t \in Threads : ThreadOK(t)
  /\ \A t, u \in Threads : t # u /\ Closing(t) => pc[u] = "idle"
  /\ ListMatchesSocket
  /\ FiltersMatchSocket
  /\ OwnEndpoints

(* The socket type of a thread, case by case.                               *)
LEMMA TypeCases ==
  ASSUME NEW t
  PROVE  /\ op[t].kind = "toggleIPV6" /\ pc[t] \notin {"getSub", "clear"} => Type(t) = AllSocketTypes[next[t]]
         /\ pc[t] = "closeOne" => Type(t) = AllSocketTypes[next[t]]
         /\ op[t].kind # "toggleIPV6" /\ pc[t] \in {"getSub", "clear"} => Type(t) = "Subscriber"
         /\ op[t].kind # "toggleIPV6" /\ pc[t] \notin {"getSub", "clear", "closeOne"} => Type(t) = op[t].st
  BY DEF Type

(* A step of a thread leaves what is private to the others alone, and none  *)
(* of the others is closing sockets.                                        *)
LEMMA OthersKept ==
  ASSUME TypeOK, NEW t \in Threads, Step(t) \/ \E o \in Program[t] : Call(t, o)
  PROVE  \A u \in Threads : u # t =>
           pc'[u] = pc[u] /\ op'[u] = op[u] /\ ptr'[u] = ptr[u] /\ next'[u] = next[u]
<1> DEFINE Frame == \A u \in Threads : u # t =>
           pc'[u] = pc[u] /\ op'[u] = op[u] /\ ptr'[u] = ptr[u] /\ next'[u] = next[u]
<1> USE DEF TypeOK
<1>1. ASSUME Return(t) PROVE Frame
  BY <1>1 DEF Return
<1>2. ASSUME NEW l, NextType(t, l) PROVE Frame
  <2>1. CASE next[t] < Len(AllSocketTypes)
    BY <1>2, <2>1 DEF NextType
  <2>2. CASE ~(next[t] < Len(AllSocketTypes))
    BY <1>1, <1>2, <2>2 DEF NextType
  <2>3. QED
    BY <2>1, <2>2
<1>3. ASSUME NEW l, Goto(t, l), \/ UNCHANGED ptr
                                \/ \E h : ptr' = [ptr EXCEPT ![t] = h]
      PROVE  Frame
  BY <1>3 DEF Goto
<1> SUFFICES Frame
  OBVIOUS
<1> HIDE DEF Frame
<1>4. CASE \E o \in Program[t] : Call(t, o)
  BY <1>4 DEF Call, Frame
<1>5. CASE HasBindsOrConnections(t)
  BY <1>1, <1>3, <1>5 DEF HasBindsOrConnections
<1>6. CASE ZMQSocket(t)
  BY <1>3, <1>6 DEF ZMQSocket
<1>7. CASE DoBindOrConnect(t) \/ Transfer(t) \/ AddSubscriberMessageFilter(t)
           \/ RemoveSubscriberMessageFilter(t)
  BY <1>1, <1>7 DEF DoBindOrConnect, Transfer, AddSubscriberMessageFilter,
     RemoveSubscriberMessageFilter
<1>8. CASE ToggleIPV6Support(t)
  BY <1>1, <1>2, <1>8 DEF ToggleIPV6Support
<1>9. CASE CloseHasSub(t) \/ CloseClearFilters(t)
  BY <1>1, <1>3, <1>9 DEF CloseHasSub, CloseClearFilters
<1>10. CASE CloseOne(t)
  BY <1>2, <1>10 DEF CloseOne
<1>11. QED
  BY <1>4, <1>5, <1>6, <1>7, <1>8, <1>9, <1>10 DEF Step

(* Whoever takes a step, no other thread is closing sockets.               *)
LEMMA NobodyElseCloses ==
  ASSUME QuiescentClose, QuietInv, NEW t \in Threads, NEW u \in Threads, t # u,
         Step(t) \/ \E o \in Program[t] : Call(t, o)
  PROVE  ~Closing(u) /\ pc[u] \notin ClosePCs
<1>1. CASE Step(t)
  <2>1. pc[t] # "idle"
    BY <1>1 DEF Step, HasBindsOrConnections, ZMQSocket, DoBindOrConnect, Transfer,
       AddSubscriberMessageFilter, RemoveSubscriberMessageFilter, ToggleIPV6Support,
       CloseHasSub, CloseClearFilters, CloseOne, Working
  <2>2. QED
    BY <2>1 DEF QuietInv, ThreadOK
<1>2. CASE \E o \in Program[t] : Call(t, o)
  <2>1. ~Closing(u)
    BY <1>2 DEF Call, Closing
  <2>2. QED
    BY <2>1 DEF QuietInv, ThreadOK
<1>3. QED
  BY <1>1, <1>2

(* The sockets of different types differ.                                   *)
LEMMA OwnSocket ==
  ASSUME TypeOK, RegistryOwnsSockets, NEW s \in SocketTypes, socket[s] # NoSocket
  PROVE  /\ socket[s] \in Handles /\ zmq[socket[s]].open /\ zmq[socket[s]].st = s
         /\ \A st \in SocketTypes : st # s => socket[st] # socket[s]
  BY SocketAssumption DEF TypeOK, RegistryOwnsSockets

(* The step of a thread that is not to blame for the others.                *)
LEMMA OthersOK ==
  ASSUME QuiescentClose, TypeOK, QuietInv, NEW t \in Threads, NEW u \in Threads, t # u,
         Step(t) \/ \E o \in Program[t] : Call(t, o)
  PROVE  ThreadOK(u)'
<1>1. pc'[u] = pc[u] /\ op'[u] = op[u] /\ ptr'[u] = ptr[u] /\ next'[u] = next[u]
  BY OthersKept
<1>2. ~Closing(u) /\ pc[u] \notin ClosePCs
  BY NobodyElseCloses
<1>3. Type(u)' = Type(u)
  BY <1>1 DEF Type
<1>4. ASSUME pc[u] = "use" PROVE socket'[Type(u)] = socket[Type(u)]
  <2>1. Type(u) \in SocketTypes /\ Type(t) \in SocketTypes
    BY TypeType
  <2>2. socket[Type(u)] # NoSocket
    BY <1>4 DEF QuietInv, ThreadOK
  <2>3. CASE UNCHANGED socket
    BY <2>3
  <2>4. CASE ZMQSocket(t)
    BY <2>1, <2>2, <2>4 DEF ZMQSocket, TypeOK
  <2>5. CASE CloseOne(t)
    <3>1. Closing(t)
      BY <2>5 DEF CloseOne, QuietInv, ThreadOK, ClosePCs
    <3>2. QED
      BY <1>4, <3>1 DEF QuietInv
  <2>6. QED
    BY <2>3, <2>4, <2>5 DEF Step, Call, HasBindsOrConnections, DoBindOrConnect, Transfer,
       AddSubscriberMessageFilter, RemoveSubscriberMessageFilter, ToggleIPV6Support,
       CloseHasSub, CloseClearFilters
<1>5. ThreadOK(u)
  BY DEF QuietInv
<1>6. QED
  BY <1>1, <1>2, <1>3, <1>4, <1>5 DEF ThreadOK, Closing, ClosePCs

(* A thread that returns has no operation any more.                         *)
LEMMA ReturnOK ==
  ASSUME TypeOK, NEW t \in Threads, Return(t)
  PROVE  ThreadOK(t)' /\ ~Closing(t)' /\ pc'[t] = "idle"
<1>1. pc'[t] = "idle" /\ next'[t] = 1
  BY DEF Return, TypeOK
<1>2. QED
  BY <1>1 DEF ThreadOK, Closing, ClosePCs

(* The step of a thread keeps what is said of itself.                       *)
LEMMA OwnStep ==
  ASSUME TypeOK, RegistryOwnsSockets, QuietInv, NEW t \in Threads,
         Step(t) \/ \E o \in Program[t] : Call(t, o)
  PROVE  /\ ThreadOK(t)'
         /\ Closing(t)' => Closing(t) \/ \E o \in Program[t] : Call(t, o) /\ o.kind = "close"
<1> DEFINE OK == /\ ThreadOK(t)'
                 /\ Closing(t)' => Closing(t) \/ \E o \in Program[t] : Call(t, o) /\ o.kind = "close"
<1> SUFFICES OK
  OBVIOUS
<1>0. ThreadOK(t) /\ op[t] \in Operations /\ next[t] \in 1..4 /\ pc[t] \in PCs
  BY AllTypes DEF QuietInv, TypeOK
<1>1. ASSUME Return(t) PROVE OK
  BY <1>1, ReturnOK
<1>2. CASE \E o \in Program[t] : Call(t, o)
  <2>1. PICK o \in Program[t] : Call(t, o)
    BY <1>2
  <2>2. op'[t] = o /\ next'[t] = next[t] /\ pc[t] = "idle"
    BY <2>1 DEF Call, TypeOK
  <2>3. pc'[t] = (CASE o.kind = "close" -> "hasSub" [] o.kind = "heartbeat" -> "check" [] OTHER -> "get")
    BY <2>1 DEF Call, TypeOK
  <2>4. next[t] = 1
    BY <1>0, <2>2 DEF ThreadOK
  <2>5. \/ o.kind = "close" /\ pc'[t] = "hasSub"
        \/ o.kind # "close" /\ pc'[t] \in {"check", "get"}
    BY <2>3
  <2>6. ThreadOK(t)'
    BY <2>2, <2>4, <2>5 DEF ThreadOK, Closing, ClosePCs
  <2>7. Closing(t)' => o.kind = "close"
    BY <2>2 DEF Closing
  <2>8. QED
    BY <2>1, <2>6, <2>7
<1>3. CASE HasBindsOrConnections(t)
  <2>1. CASE list["Publisher"] = {}
    BY <1>1, <1>3, <2>1 DEF HasBindsOrConnections
  <2>2. CASE list["Publisher"] # {}
    <3>1. pc'[t] = "get" /\ op'[t] = op[t] /\ next'[t] = next[t] /\ pc[t] = "check"
      BY <1>3, <2>2 DEF HasBindsOrConnections, Goto, TypeOK
    <3>2. QED
      BY <1>0, <3>1 DEF ThreadOK, Closing, ClosePCs
  <2>3. QED
    BY <2>1, <2>2
<1>4. CASE ZMQSocket(t)
  <2> DEFINE st == Type(t)
  <2>1. st \in SocketTypes
    BY TypeType
  <2>2. /\ op'[t] = op[t] /\ next'[t] = next[t] /\ pc[t] \in {"get", "getSub"}
        /\ pc'[t] = IF pc[t] = "get" THEN "use" ELSE "clear"
    BY <1>4 DEF ZMQSocket, Goto, TypeOK
  <2>3. ptr'[t] = socket'[st] /\ ptr'[t] # NoSocket
    <3>1. CASE socket[st] # NoSocket /\ ptr' = [ptr EXCEPT ![t] = socket[st]] /\ UNCHANGED socket
      BY <3>1 DEF TypeOK
    <3>2. ASSUME NEW h \in Handles, socket' = [socket EXCEPT ![st] = h], ptr' = [ptr EXCEPT ![t] = h]
          PROVE  ptr'[t] = socket'[st] /\ ptr'[t] # NoSocket
      BY <2>1, <3>2, SocketAssumption DEF TypeOK
    <3>3. QED
      BY <1>4, <3>1, <3>2 DEF ZMQSocket
  <2>4. Type(t)' = st
    <3>1. pc[t] = "getSub" => op[t].kind = "close"
      BY <1>0 DEF ThreadOK, Closing, ClosePCs
    <3>2. QED
      BY <2>2, <3>1 DEF Type
  <2> HIDE DEF st
  <2>5. QED
    BY <1>0, <2>2, <2>3, <2>4 DEF ThreadOK, Closing, ClosePCs
<1>5. CASE DoBindOrConnect(t) \/ Transfer(t) \/ AddSubscriberMessageFilter(t)
           \/ RemoveSubscriberMessageFilter(t)
  BY <1>1, <1>5 DEF DoBindOrConnect, Transfer, AddSubscriberMessageFilter,
     RemoveSubscriberMessageFilter
<1>6. CASE ToggleIPV6Support(t)
  <2>1. CASE Return(t)
    BY <1>1, <2>1
  <2>2. CASE ~Return(t)
    <3>1. NextType(t, "get") /\ pc[t] = "use" /\ op[t].kind = "toggleIPV6"
      BY <1>6, <2>2 DEF ToggleIPV6Support, Working
    <3>2. pc'[t] = "get" /\ op'[t] = op[t]
      BY <2>2, <3>1 DEF NextType, TypeOK
    <3>3. QED
      BY <1>0, <3>1, <3>2 DEF ThreadOK, Closing, ClosePCs
  <2>3. QED
    BY <2>1, <2>2
<1>7. CASE CloseHasSub(t)
  <2>1. /\ pc[t] = "hasSub" /\ op'[t] = op[t] /\ next'[t] = next[t] /\ filters' = filters
        /\ pc'[t] = IF socket["Subscriber"] # NoSocket THEN "getSub" ELSE "closeOne"
    BY <1>7 DEF CloseHasSub, Goto, TypeOK
  <2>2. op[t].kind = "close" /\ next[t] = 1
    BY <1>0, <2>1 DEF ThreadOK, Closing, ClosePCs
  <2>3. pc'[t] = "closeOne" => filters' = {}
    BY <2>1 DEF QuietInv, FiltersMatchSocket
  <2>4. QED
    BY <2>1, <2>2, <2>3 DEF ThreadOK, Closing, ClosePCs
<1>8. CASE CloseClearFilters(t)
  <2>1. pc[t] = "clear" /\ op[t].kind = "close" /\ next[t] = 1
    BY <1>0, <1>8 DEF CloseClearFilters, ThreadOK, Closing, ClosePCs
  <2>2. CASE Return(t)
    BY <1>1, <2>2
  <2>3. CASE ~Return(t)
    <3>1. Goto(t, "closeOne") /\ filters' = {}
      BY <1>8, <2>3 DEF CloseClearFilters, Unsubscribe
    <3>2. pc'[t] = "closeOne" /\ op'[t] = op[t] /\ next'[t] = next[t]
      BY <3>1 DEF Goto, TypeOK
    <3>3. QED
      BY <2>1, <3>1, <3>2 DEF ThreadOK, Closing, ClosePCs
  <2>4. QED
    BY <2>2, <2>3
<1>9. CASE CloseOne(t)
  <2> DEFINE st == Type(t)
  <2>1. pc[t] = "closeOne" /\ op[t].kind = "close" /\ filters' = filters /\ filters = {}
    BY <1>0, <1>9 DEF CloseOne, ThreadOK, Closing, ClosePCs
  <2>2. st = AllSocketTypes[next[t]] /\ st \in SocketTypes
    BY <2>1, TypeCases, TypeType
  <2>3. socket'[st] = NoSocket /\ \A s \in SocketTypes : socket[s] = NoSocket => socket'[s] = NoSocket
    BY <1>9, <2>2 DEF CloseOne, CloseSocket, TypeOK
  <2>4. CASE Return(t)
    BY <1>1, <2>4
  <2>5. CASE ~Return(t)
    <3>1. pc'[t] = "closeOne" /\ op'[t] = op[t] /\ next'[t] = next[t] + 1
      BY <1>9, <2>5 DEF CloseOne, NextType, TypeOK
    <3>2. \A j \in 1..next[t] - 1 : socket[AllSocketTypes[j]] = NoSocket
      BY <1>0, <2>1 DEF ThreadOK
    <3>3. \A j \in 1..next[t] - 1 : AllSocketTypes[j] \in SocketTypes
      BY <1>0, AllTypes
    <3>4. \A j \in 1..next'[t] - 1 : socket'[AllSocketTypes[j]] = NoSocket
      BY <1>0, <2>2, <2>3, <3>1, <3>2, <3>3
    <3>5. QED
      BY <2>1, <3>1, <3>4 DEF ThreadOK, Closing, ClosePCs
  <2>6. QED
    BY <2>4, <2>5
<1>10. QED
  BY <1>2, <1>3, <1>4, <1>5, <1>6, <1>7, <1>8, <1>9 DEF Step

\* what is noted of the sockets
Match == ListMatchesSocket /\ FiltersMatchSocket /\ OwnEndpoints

\* what the subscriber socket is subscribed to
Subscriptions ==
  IF socket["Subscriber"] = NoSocket THEN {} ELSE zmq[socket["Subscriber"]].subs

\* no socket is attached or detached
SameAttached == \A st \in SocketTypes : AttachedTo(st)' = AttachedTo(st)

(* A step that leaves endpoints, filters and pointers alone.                *)
LEMMA SameMatch ==
  ASSUME QuietInv, TypeOK, UNCHANGED <<socket, list, filters>>,
         \A h \in Handles : zmq'[h].endpoints = zmq[h].endpoints /\ zmq'[h].subs = zmq[h].subs
  PROVE  Match' /\ SameAttached /\ UNCHANGED Subscriptions
<1>1. \A st \in SocketTypes : socket[st] # NoSocket => socket[st] \in Handles
  BY DEF TypeOK
<1>2. "Subscriber" \in SocketTypes
  BY DEF SocketTypes
<1>3. \A st \in SocketTypes : AttachedTo(st)' = AttachedTo(st)
  BY <1>1 DEF AttachedTo
<1>4. ListMatchesSocket' /\ OwnEndpoints'
  BY <1>3 DEF QuietInv, ListMatchesSocket, OwnEndpoints
<1>5. FiltersMatchSocket'
  BY <1>1, <1>2 DEF QuietInv, FiltersMatchSocket
<1>6. UNCHANGED Subscriptions
  BY <1>1, <1>2 DEF Subscriptions
<1>7. QED
  BY <1>3, <1>4, <1>5, <1>6 DEF Match, SameAttached

(* A new socket has no endpoints and no filters.                            *)
LEMMA CreateMatch ==
  ASSUME TypeOK, RegistryOwnsSockets, QuietInv, NEW st \in SocketTypes, NEW h \in Handles,
         ~zmq[h].open, socket[st] = NoSocket, zmq' = [zmq EXCEPT ![h] = Opened(st)],
         socket' = [socket EXCEPT ![st] = h], UNCHANGED <<list, filters>>
  PROVE  Match' /\ SameAttached /\ UNCHANGED Subscriptions
<1>1. /\ socket'[st] = h /\ zmq'[h].endpoints = {} /\ zmq'[h].subs = {}
      /\ \A s \in SocketTypes : s # st => socket'[s] = socket[s]
      /\ \A g \in Handles : g # h => zmq'[g] = zmq[g]
  BY DEF TypeOK, Opened
<1>2. h # NoSocket
  BY SocketAssumption
<1>3. \A s \in SocketTypes : socket[s] # NoSocket => socket[s] \in Handles /\ socket[s] # h
  BY OwnSocket
<1>4. \A s \in SocketTypes : AttachedTo(s)' = AttachedTo(s)
  BY <1>1, <1>2, <1>3 DEF AttachedTo
<1>5. ListMatchesSocket' /\ OwnEndpoints'
  BY <1>4 DEF QuietInv, ListMatchesSocket, OwnEndpoints
<1>6. "Subscriber" \in SocketTypes
  BY DEF SocketTypes
<1>7. FiltersMatchSocket'
  BY <1>1, <1>2, <1>3, <1>6 DEF QuietInv, FiltersMatchSocket
<1>8. UNCHANGED Subscriptions
  BY <1>1, <1>2, <1>3, <1>6 DEF Subscriptions
<1>9. QED
  BY <1>4, <1>5, <1>7, <1>8 DEF Match, SameAttached

(* A bind or connection is noted in the list of the socket it is made on,   *)
(* unless it is too long.                                                   *)
LEMMA AttachMatch ==
  ASSUME TypeOK, RegistryOwnsSockets, QuietInv, NEW st \in SocketTypes, NEW e \in Endpoints,
         socket[st] # NoSocket,
         zmq' = [zmq EXCEPT ![socket[st]].endpoints = @ \cup {<<st, e>>}],
         list' = [list EXCEPT ![st] = @ \cup ({e} \ LongEndpoints)], UNCHANGED <<socket, filters>>
  PROVE  /\ Match' /\ UNCHANGED Subscriptions
         /\ AttachedTo(st)' = AttachedTo(st) \cup {<<st, e>>}
         /\ \A s \in SocketTypes : s # st => AttachedTo(s)' = AttachedTo(s)
<1> DEFINE p == socket[st]
<1>1. /\ p \in Handles /\ \A s \in SocketTypes : s # st => socket[s] # p
  BY OwnSocket
<1>2. zmq[p] \in ZmqSockets
  BY <1>1 DEF TypeOK
<1>3. /\ zmq'[p].endpoints = zmq[p].endpoints \cup {<<st, e>>} /\ zmq'[p].subs = zmq[p].subs
      /\ \A g \in Handles : g # p => zmq'[g] = zmq[g]
  BY <1>1, <1>2 DEF TypeOK, ZmqSockets
<1>4. /\ list'[st] = list[st] \cup ({e} \ LongEndpoints)
      /\ \A s \in SocketTypes : s # st => list'[s] = list[s]
  BY DEF TypeOK
<1>5. \A s \in SocketTypes : socket[s] # NoSocket => socket[s] \in Handles
  BY OwnSocket
<1>6. /\ AttachedTo(st)' = AttachedTo(st) \cup {<<st, e>>}
      /\ \A s \in SocketTypes : s # st => AttachedTo(s)' = AttachedTo(s)
  BY <1>1, <1>3, <1>5 DEF AttachedTo
<1>7. ListMatchesSocket'
  <2>1. ASSUME NEW s \in SocketTypes
        PROVE  list'[s] = {x \in Endpoints \ LongEndpoints : <<s, x>> \in AttachedTo(s)'}
    <3>1. list[s] = {x \in Endpoints \ LongEndpoints : <<s, x>> \in AttachedTo(s)}
      BY DEF QuietInv, ListMatchesSocket
    <3>2. CASE s = st
      BY <1>4, <1>6, <3>1, <3>2
    <3>3. CASE s # st
      BY <1>4, <1>6, <3>1, <3>3
    <3>4. QED
      BY <3>2, <3>3
  <2>2. QED
    BY <2>1 DEF ListMatchesSocket
<1>8. OwnEndpoints'
  BY <1>6 DEF QuietInv, OwnEndpoints
<1>9. "Subscriber" \in SocketTypes
  BY DEF SocketTypes
<1>10. FiltersMatchSocket'
  BY <1>3, <1>5, <1>9 DEF QuietInv, FiltersMatchSocket
<1>11. UNCHANGED Subscriptions
  BY <1>3, <1>5, <1>9 DEF Subscriptions
<1>12. QED
  BY <1>6, <1>7, <1>8, <1>10, <1>11 DEF Match

(* Filters are noted as they are set and removed on the subscriber socket,  *)
(* and longer if the socket may have refused to remove them.                *)
LEMMA FilterMatch ==
  ASSUME TypeOK, QuietInv, RegistryOwnsSockets, NEW F \in SUBSET Filters,
         socket["Subscriber"] # NoSocket,
         zmq' = [zmq EXCEPT ![socket["Subscriber"]].subs = F],
         F \subseteq filters', RemovalsSucceed => F = filters', UNCHANGED <<socket, list>>
  PROVE  Match' /\ SameAttached /\ Subscriptions' = F
<1> DEFINE p == socket["Subscriber"]
<1>1. p \in Handles
  BY OwnSocket DEF SocketTypes
<1>2. zmq[p] \in ZmqSockets
  BY <1>1 DEF TypeOK
<1>3. /\ zmq'[p].subs = F /\ zmq'[p].endpoints = zmq[p].endpoints
      /\ \A g \in Handles : g # p => zmq'[g] = zmq[g]
  BY <1>1, <1>2 DEF TypeOK, ZmqSockets
<1>4. \A s \in SocketTypes : socket[s] # NoSocket => socket[s] \in Handles
  BY OwnSocket
<1>5. \A s \in SocketTypes : AttachedTo(s)' = AttachedTo(s)
  BY <1>3, <1>4 DEF AttachedTo
<1>6. ListMatchesSocket' /\ OwnEndpoints'
  BY <1>5 DEF QuietInv, ListMatchesSocket, OwnEndpoints
<1>7. FiltersMatchSocket'
  BY <1>3 DEF FiltersMatchSocket
<1>8. Subscriptions' = F
  BY <1>3 DEF Subscriptions
<1>9. QED
  BY <1>5, <1>6, <1>7, <1>8 DEF Match, SameAttached

(* A close removes the pointer, the list and, before, the filters.          *)
LEMMA CloseMatch ==
  ASSUME TypeOK, RegistryOwnsSockets, QuietInv, NEW st \in SocketTypes,
         CloseSocket(st), filters = {}, filters' = {}
  PROVE  Match'
<1>1. CASE socket[st] = NoSocket
  BY <1>1, SameMatch DEF CloseSocket
<1>2. CASE socket[st] # NoSocket
  <2> DEFINE p == socket[st]
  <2>1. /\ p \in Handles /\ \A s \in SocketTypes : s # st => socket[s] # p
    BY <1>2, OwnSocket
  <2>2. /\ socket'[st] = NoSocket /\ list'[st] = {}
        /\ \A s \in SocketTypes : s # st => socket'[s] = socket[s] /\ list'[s] = list[s]
        /\ \A g \in Handles : g # p => zmq'[g] = zmq[g]
    BY <1>2, <2>1 DEF CloseSocket, TypeOK
  <2>3. \A s \in SocketTypes : socket[s] # NoSocket => socket[s] \in Handles
    BY OwnSocket
  <2>4. /\ AttachedTo(st)' = {}
        /\ \A s \in SocketTypes : s # st => AttachedTo(s)' = AttachedTo(s)
    BY <2>1, <2>2, <2>3 DEF AttachedTo
  <2>5. ListMatchesSocket' /\ OwnEndpoints'
    BY <2>2, <2>4 DEF QuietInv, ListMatchesSocket, OwnEndpoints
  <2>6. "Subscriber" \in SocketTypes
    BY DEF SocketTypes
  <2>7. FiltersMatchSocket'
    BY <2>1, <2>2, <2>3, <2>6 DEF QuietInv, FiltersMatchSocket
  <2>8. QED
    BY <2>5, <2>7 DEF Match
<1>3. QED
  BY <1>1, <1>2

(* Lists and filters follow the sockets in every step of a thread, only two *)
(* kinds of steps attach or detach, and four subscribe or unsubscribe.      *)
LEMMA MatchStep ==
  ASSUME TypeOK, RegistryOwnsSockets, QuietInv, NEW t \in Threads,
         Step(t) \/ \E o \in Program[t] : Call(t, o)
  PROVE  /\ Match'
         /\ SameAttached \/ DoBindOrConnect(t) \/ CloseOne(t)
         /\ \/ UNCHANGED Subscriptions
            \/ AddSubscriberMessageFilter(t) \/ RemoveSubscriberMessageFilter(t)
            \/ CloseClearFilters(t) \/ CloseOne(t)
<1> DEFINE OK == /\ Match'
                 /\ SameAttached \/ DoBindOrConnect(t) \/ CloseOne(t)
                 /\ \/ UNCHANGED Subscriptions
                    \/ AddSubscriberMessageFilter(t) \/ RemoveSubscriberMessageFilter(t)
                    \/ CloseClearFilters(t) \/ CloseOne(t)
<1> SUFFICES OK
  OBVIOUS
<1>0. ThreadOK(t) /\ op[t] \in Operations
  BY DEF QuietInv, TypeOK
<1>1. ASSUME UNCHANGED regVars PROVE Match' /\ SameAttached /\ UNCHANGED Subscriptions
  BY <1>1, SameMatch
<1>2. CASE (\E o \in Program[t] : Call(t, o)) \/ HasBindsOrConnections(t) \/ Transfer(t)
           \/ CloseHasSub(t)
  BY <1>1, <1>2 DEF Call, HasBindsOrConnections, Transfer, CloseHasSub
<1>3. CASE ZMQSocket(t)
  <2> DEFINE st == Type(t)
  <2>1. st \in SocketTypes
    BY TypeType
  <2>2. CASE UNCHANGED <<socket, zmq>>
    BY <1>1, <1>3, <2>2 DEF ZMQSocket
  <2>3. ASSUME NEW h \in Handles, ~zmq[h].open, socket[st] = NoSocket,
               zmq' = [zmq EXCEPT ![h] = Opened(st)], socket' = [socket EXCEPT ![st] = h]
        PROVE  OK
    <3>1. UNCHANGED <<list, filters>>
      BY <1>3 DEF ZMQSocket
    <3> HIDE DEF st
    <3>2. QED
      BY <2>1, <2>3, <3>1, CreateMatch
  <2>4. QED
    BY <1>3, <2>2, <2>3 DEF ZMQSocket
<1>4. ASSUME pc[t] = "use", op[t].kind # "toggleIPV6"
      PROVE  ptr[t] = socket[op[t].st] /\ ptr[t] # NoSocket
  BY <1>0, <1>4, TypeCases DEF ThreadOK
<1>5. CASE DoBindOrConnect(t)
  <2>1. /\ op[t].arg \in Endpoints /\ op[t].st \in SocketTypes
        /\ ptr[t] = socket[op[t].st] /\ ptr[t] # NoSocket
    BY <1>0, <1>4, <1>5, OperationTypes DEF DoBindOrConnect, Working
  <2>2. CASE CanAttach(t)
    BY <1>5, <2>1, <2>2, AttachMatch DEF DoBindOrConnect
  <2>3. CASE ~CanAttach(t)
    BY <1>1, <1>5, <2>3 DEF DoBindOrConnect
  <2>4. QED
    BY <2>2, <2>3
<1>6. ASSUME NEW fs \in SUBSET Filters, Unsubscribe(t, fs) \/ UnsubscribeFails(t, fs),
             ptr[t] = socket["Subscriber"], ptr[t] # NoSocket, UNCHANGED <<socket, list>>,
             op[t].kind \in {"removeFilter", "close"}
      PROVE  Match' /\ SameAttached
  <2> DEFINE subs == zmq[ptr[t]].subs
  <2>1. /\ subs \subseteq filters /\ filters \subseteq Filters
        /\ RemovalsSucceed => subs = filters
    BY <1>6 DEF QuietInv, FiltersMatchSocket, TypeOK
  <2>2. CASE Unsubscribe(t, fs)
    <3>1. zmq' = [zmq EXCEPT ![ptr[t]].subs = subs \ fs] /\ filters' = filters \ fs
      BY <2>2 DEF Unsubscribe
    <3>2. /\ subs \ fs \in SUBSET Filters /\ subs \ fs \subseteq filters'
          /\ RemovalsSucceed => subs \ fs = filters'
      BY <2>1, <3>1
    <3> HIDE DEF subs
    <3>3. QED
      BY <1>6, <3>1, <3>2, FilterMatch
  <2>3. CASE UnsubscribeFails(t, fs) /\ CanSubscribe(t)
    <3>1. ~RemovalsSucceed /\ filters' = filters
      BY <1>6, <2>3 DEF UnsubscribeFails, MayRefuse, RemovalsSucceed
    <3>2. PICK some \in SUBSET fs : zmq' = [zmq EXCEPT ![ptr[t]].subs = subs \ some]
      BY <2>3 DEF UnsubscribeFails
    <3>3. subs \ some \in SUBSET Filters /\ subs \ some \subseteq filters'
      BY <2>1, <3>1
    <3> HIDE DEF subs
    <3>4. QED
      BY <1>6, <3>1, <3>2, <3>3, FilterMatch
  <2>4. CASE UnsubscribeFails(t, fs) /\ ~CanSubscribe(t)
    BY <1>1, <1>6, <2>4 DEF UnsubscribeFails
  <2>5. QED
    BY <1>6, <2>2, <2>3, <2>4
<1>7. CASE AddSubscriberMessageFilter(t)
  <2> DEFINE subs == zmq[ptr[t]].subs
  <2>1. /\ op[t].arg \in Filters /\ op[t].st = "Subscriber"
        /\ ptr[t] = socket["Subscriber"] /\ ptr[t] # NoSocket
    BY <1>0, <1>4, <1>7, OperationTypes DEF AddSubscriberMessageFilter, Working, Operations
  <2>2. CASE /\ zmq' = [zmq EXCEPT ![ptr[t]].subs = @ \cup {op[t].arg}]
             /\ filters' = filters \cup {op[t].arg}
    <3>1. /\ subs \subseteq filters /\ filters \subseteq Filters
          /\ RemovalsSucceed => subs = filters
      BY <2>1 DEF QuietInv, FiltersMatchSocket, TypeOK
    <3>2. /\ zmq' = [zmq EXCEPT ![ptr[t]].subs = subs \cup {op[t].arg}]
          /\ filters' = filters \cup {op[t].arg} /\ UNCHANGED <<socket, list>>
      BY <1>7, <2>2 DEF AddSubscriberMessageFilter
    <3>3. /\ subs \cup {op[t].arg} \in SUBSET Filters /\ subs \cup {op[t].arg} \subseteq filters'
          /\ RemovalsSucceed => subs \cup {op[t].arg} = filters'
      BY <2>1, <3>1, <3>2
    <3> HIDE DEF subs
    <3>4. Match' /\ SameAttached
      BY <2>1, <3>2, <3>3, FilterMatch
    <3>5. QED
      BY <1>7, <3>4
  <2>3. CASE UNCHANGED <<zmq, filters>>
    BY <1>1, <1>7, <2>3 DEF AddSubscriberMessageFilter
  <2>4. QED
    BY <1>7, <2>2, <2>3 DEF AddSubscriberMessageFilter
<1>8. CASE RemoveSubscriberMessageFilter(t)
  <2> DEFINE fs == IF op[t].arg = Nothing THEN filters ELSE {op[t].arg} \cap filters
  <2>1. /\ op[t].st = "Subscriber" /\ ptr[t] = socket["Subscriber"] /\ ptr[t] # NoSocket
        /\ UNCHANGED <<socket, list>> /\ op[t].kind = "removeFilter"
    BY <1>0, <1>4, <1>8 DEF RemoveSubscriberMessageFilter, Working, Operations
  <2>2. fs \in SUBSET Filters
    BY DEF TypeOK
  <2>3. Unsubscribe(t, fs) \/ UnsubscribeFails(t, fs) \/ UNCHANGED <<zmq, filters>>
    BY <1>8 DEF RemoveSubscriberMessageFilter
  <2> HIDE DEF fs
  <2>4. QED
    BY <1>1, <1>6, <1>8, <2>1, <2>2, <2>3
<1>9. CASE ToggleIPV6Support(t)
  <2>1. UNCHANGED <<socket, list, filters>>
    BY <1>9 DEF ToggleIPV6Support
  <2>2. ASSUME zmq' = [zmq EXCEPT ![ptr[t]].ipv6 = op[t].arg], NEW h \in Handles
        PROVE  zmq'[h].endpoints = zmq[h].endpoints /\ zmq'[h].subs = zmq[h].subs
    <3>1. zmq[h] \in ZmqSockets
      BY DEF TypeOK
    <3>2. QED
      BY <2>2, <3>1 DEF TypeOK, ZmqSockets
  <2>3. QED
    BY <1>1, <1>9, <2>1, <2>2, SameMatch DEF ToggleIPV6Support
<1>10. CASE CloseClearFilters(t)
  <2>1. pc[t] = "clear" /\ op[t].kind = "close" /\ UNCHANGED <<socket, list>>
    BY <1>0, <1>10 DEF CloseClearFilters, ThreadOK, Closing, ClosePCs
  <2>2. ptr[t] = socket["Subscriber"] /\ ptr[t] # NoSocket
    BY <1>0, <2>1, TypeCases DEF ThreadOK
  <2>3. filters \in SUBSET Filters
    BY DEF TypeOK
  <2>4. Unsubscribe(t, filters) \/ UnsubscribeFails(t, filters) \/ UNCHANGED <<zmq, filters>>
    BY <1>10 DEF CloseClearFilters
  <2>5. QED
    BY <1>1, <1>6, <1>10, <2>1, <2>2, <2>3, <2>4
<1>11. CASE CloseOne(t)
  <2>1. filters = {} /\ filters' = {} /\ CloseSocket(Type(t)) /\ Type(t) \in SocketTypes
    BY <1>0, <1>11, TypeType DEF CloseOne, ThreadOK
  <2>2. QED
    BY <1>11, <2>1, CloseMatch
<1>12. QED
  BY <1>2, <1>3, <1>5, <1>7, <1>8, <1>9, <1>10, <1>11 DEF Step

(* The invariant of the registry while closes are quiescent.                *)
LEMMA QuietStep ==
  QuiescentClose /\ TypeOK /\ RegistryOwnsSockets /\ QuietInv /\ [Next]_vars => QuietInv'
<1> SUFFICES ASSUME QuiescentClose, TypeOK, RegistryOwnsSockets, QuietInv, [Next]_vars
             PROVE  QuietInv'
  OBVIOUS
<1>1. CASE UNCHANGED vars
  <2>1. \A t \in Threads : ThreadOK(t)'
    BY <1>1 DEF vars, QuietInv, ThreadOK, Closing, Type
  <2>2. Match'
    BY <1>1 DEF vars, QuietInv, Match, ListMatchesSocket, FiltersMatchSocket, OwnEndpoints, AttachedTo
  <2>3. QED
    BY <1>1, <2>1, <2>2 DEF vars, QuietInv, Closing, Match
<1>2. ASSUME NEW t \in Threads, Step(t) \/ \E o \in Program[t] : Call(t, o)
      PROVE  QuietInv'
  <2>1. \A u \in Threads : ThreadOK(u)'
    BY <1>2, OwnStep, OthersOK
  <2>2. Match'
    BY <1>2, MatchStep
  <2>3. ASSUME NEW u \in Threads, NEW v \in Threads, u # v, Closing(u)' PROVE pc'[v] = "idle"
    <3>1. CASE u # t
      <4>1. ~Closing(u)
        BY <1>2, <3>1, NobodyElseCloses
      <4>2. QED
        BY <1>2, <2>3, <3>1, <4>1, OthersKept DEF Closing
    <3>2. CASE u = t
      <4>1. pc'[v] = pc[v]
        BY <1>2, <2>3, <3>2, OthersKept
      <4>2. CASE Closing(t)
        BY <2>3, <3>2, <4>1, <4>2 DEF QuietInv
      <4>3. CASE \E o \in Program[t] : Call(t, o) /\ o.kind = "close"
        BY <4>1, <4>3 DEF Call
      <4>4. QED
        BY <1>2, <2>3, <3>2, <4>2, <4>3, OwnStep
    <3>3. QED
      BY <3>1, <3>2
  <2>4. QED
    BY <2>1, <2>2, <2>3 DEF QuietInv, Match
<1>3. QED
  BY <1>1, <1>2 DEF Next

(* The invariant holds in every state.                                      *)
LEMMA QuietInvariance ==
  ASSUME QuiescentClose
  PROVE  Spec => [](TypeOK /\ RegistryOwnsSockets /\ QuietInv)
<1>1. Init => QuietInv
  <2> SUFFICES ASSUME Init PROVE QuietInv
    OBVIOUS
  <2>1. \A t \in Threads : ThreadOK(t) /\ ~Closing(t)
    BY DEF Init, ThreadOK, Closing, ClosePCs
  <2>2. \A st \in SocketTypes : socket[st] = NoSocket /\ list[st] = {}
    BY DEF Init
  <2>3. ListMatchesSocket /\ OwnEndpoints
    BY <2>2 DEF ListMatchesSocket, OwnEndpoints, AttachedTo
  <2>4. FiltersMatchSocket
    BY <2>2 DEF Init, FiltersMatchSocket, SocketTypes
  <2>5. QED
    BY <2>1, <2>3, <2>4 DEF QuietInv
<1>2. QED
  BY <1>1, QuietStep, RegistryInvariance, PTL DEF Spec

(* If no operation overlaps a close: the lists are what the sockets are     *)
(* attached to, the endpoints that are too long excepted, also after a bind *)
(* or a connect that failed, and what the subscriber socket is subscribed   *)
(* to is noted, and nothing else unless the socket refused to unsubscribe,  *)
(* also half way (HelperFunctions.cpp:829-856, GlobalData.cpp:318-377).     *)
THEOREM QuiescentRegistryMatches ==
  ASSUME QuiescentClose
  PROVE  Spec => []RegistryMatchesSockets
<1>1. QuietInv => RegistryMatchesSockets
  BY DEF QuietInv, RegistryMatchesSockets
<1>2. QED
  BY <1>1, QuietInvariance, PTL
-----------------------------------------------------------------------------
(* The end of CloseConnections *)

(* The last round closes the last socket.                                   *)
LEMMA LastRound ==
  ASSUME QuiescentClose, TypeOK, RegistryOwnsSockets, QuietInv, [Next]_vars,
         RegistryOwnsSockets', TypeOK', NEW t \in Threads, pc[t] = "closeOne", pc'[t] = "idle",
         NEW h \in Handles
  PROVE  ~zmq'[h].open
<1>1. CloseOne(t)
  <2>1. \A u \in Threads : u # t => pc[u] = "idle"
    BY DEF QuietInv, ThreadOK, ClosePCs
  <2>2. PICK u \in Threads : Step(u) \/ \E o \in Program[u] : Call(u, o)
    BY DEF Next, vars
  <2>3. CASE u = t
    BY <2>2, <2>3 DEF Step, Call, HasBindsOrConnections, ZMQSocket, DoBindOrConnect, Transfer,
       AddSubscriberMessageFilter, RemoveSubscriberMessageFilter, ToggleIPV6Support,
       CloseHasSub, CloseClearFilters, Working
  <2>4. CASE u # t
    BY <2>2, <2>4, OthersKept
  <2>5. QED
    BY <2>3, <2>4
<1>2. next[t] = 4
  BY <1>1, AllTypes DEF CloseOne, NextType, TypeOK
<1>3. Type(t) = AllSocketTypes[4]
  BY <1>2, TypeCases
<1>4. \A j \in 1..3 : socket[AllSocketTypes[j]] = NoSocket
  BY <1>2 DEF QuietInv, ThreadOK
<1>5. SocketTypes = {AllSocketTypes[1], AllSocketTypes[2], AllSocketTypes[3], AllSocketTypes[4]}
  BY DEF SocketTypes, AllSocketTypes
<1>6. /\ socket'[AllSocketTypes[4]] = NoSocket
      /\ \A s \in SocketTypes : socket[s] = NoSocket => socket'[s] = NoSocket
  BY <1>1, <1>3, <1>5 DEF CloseOne, CloseSocket, TypeOK
<1>7. \A s \in SocketTypes : socket'[s] = NoSocket
  BY <1>4, <1>5, <1>6
<1>8. zmq'[h].st \in SocketTypes
  BY DEF TypeOK, ZmqSockets
<1>9. QED
  BY <1>7, <1>8, SocketAssumption DEF RegistryOwnsSockets

(* If no operation overlaps it, CloseConnections leaves no socket open      *)
(* (tests/zmq_stop.ipf, StopsBinds).                                        *)
THEOREM QuiescentCloseClosesAll ==
  ASSUME QuiescentClose
  PROVE  Spec => CloseClosesAll
<1> DEFINE Closes == \A t \in Threads : (pc[t] = "closeOne" /\ pc'[t] = "idle") =>
                       \A h \in Handles : ~zmq'[h].open
           Inv == TypeOK /\ RegistryOwnsSockets /\ QuietInv
<1>1. Inv /\ Inv' /\ [Next]_vars => [Closes]_vars
  BY LastRound
<1>2. QED
  BY <1>1, QuietInvariance, PTL DEF Spec, CloseClosesAll
-----------------------------------------------------------------------------
(* The IPv6 setting *)

\* one thread at most changes the setting
OneToggles ==
  \A t, u \in Threads : (\E o \in Program[t] : o.kind = "toggleIPV6")
                        /\ (\E o \in Program[u] : o.kind = "toggleIPV6") => t = u

Toggling(t) == pc[t] # "idle" /\ op[t].kind = "toggleIPV6"

\* there is a socket of type st and it has the setting v
HasSetting(st, v) == socket[st] # NoSocket /\ zmq[socket[st]].ipv6 = v

\* no socket has IPv6, or none can be created any more and they agree
Agree ==
  \/ \A h \in Handles : zmq[h].open => zmq[h].ipv6 = FALSE
  \/ \E v : \A st \in SocketTypes : HasSetting(st, v)

Uniform == \E v : \A h \in Handles : zmq[h].open => zmq[h].ipv6 = v

IPV6Inv ==
  /\ \A t \in Threads : pc[t] # "idle" => op[t] \in Program[t]
  /\ \A t \in Threads : Toggling(t) =>
       /\ pc[t] \in {"get", "use"}
       /\ \A j \in 1..next[t] - 1 : HasSetting(AllSocketTypes[j], op[t].arg)
  /\ (\A t \in Threads : ~Toggling(t) /\ pc[t] # "closeOne") => Agree
  /\ \A t \in Threads : pc[t] = "closeOne" => Uniform

\* nothing that matters for the setting happens
SameSettings ==
  /\ UNCHANGED socket
  /\ \A h \in Handles : zmq'[h].open = zmq[h].open /\ zmq'[h].ipv6 = zmq[h].ipv6

\* a socket of type st is created, without IPv6
Created(st) ==
  \E h \in Handles :
    /\ ~zmq[h].open /\ socket[st] = NoSocket
    /\ zmq' = [zmq EXCEPT ![h] = Opened(st)] /\ socket' = [socket EXCEPT ![st] = h]

(* What the steps do to the setting.                                        *)
LEMMA SettingSteps ==
  ASSUME TypeOK, NEW t \in Threads, Step(t) \/ \E o \in Program[t] : Call(t, o)
  PROVE  \/ SameSettings
         \/ ZMQSocket(t) /\ Type(t) \in SocketTypes /\ Created(Type(t))
         \/ ToggleIPV6Support(t)
         \/ CloseOne(t)
<1> DEFINE OK == SameSettings \/ (ZMQSocket(t) /\ Type(t) \in SocketTypes /\ Created(Type(t)))
<1>1. ASSUME UNCHANGED <<socket, zmq>> PROVE OK
  BY <1>1 DEF SameSettings
<1>2. ASSUME UNCHANGED socket, NEW f, zmq' = [zmq EXCEPT ![ptr[t]].endpoints = f] PROVE OK
  <2>1. ASSUME NEW h \in Handles PROVE zmq'[h].open = zmq[h].open /\ zmq'[h].ipv6 = zmq[h].ipv6
    <3>1. zmq[h] \in ZmqSockets
      BY DEF TypeOK
    <3>2. QED
      BY <1>2, <3>1 DEF TypeOK, ZmqSockets
  <2>2. QED
    BY <1>2, <2>1 DEF SameSettings
<1>3. ASSUME UNCHANGED socket, NEW f, zmq' = [zmq EXCEPT ![ptr[t]].subs = f] PROVE OK
  <2>1. ASSUME NEW h \in Handles PROVE zmq'[h].open = zmq[h].open /\ zmq'[h].ipv6 = zmq[h].ipv6
    <3>1. zmq[h] \in ZmqSockets
      BY DEF TypeOK
    <3>2. QED
      BY <1>3, <3>1 DEF TypeOK, ZmqSockets
  <2>2. QED
    BY <1>3, <2>1 DEF SameSettings
<1>4. CASE ZMQSocket(t)
  <2>1. Type(t) \in SocketTypes
    BY TypeType
  <2>2. QED
    BY <1>1, <1>4, <2>1 DEF ZMQSocket, Created
<1>5. CASE DoBindOrConnect(t)
  BY <1>1, <1>2, <1>5 DEF DoBindOrConnect
<1>6. CASE AddSubscriberMessageFilter(t) \/ RemoveSubscriberMessageFilter(t) \/ CloseClearFilters(t)
  BY <1>1, <1>3, <1>6 DEF AddSubscriberMessageFilter, RemoveSubscriberMessageFilter, CloseClearFilters,
     Unsubscribe, UnsubscribeFails
<1>7. CASE (\E o \in Program[t] : Call(t, o)) \/ HasBindsOrConnections(t) \/ Transfer(t) \/ CloseHasSub(t)
  BY <1>1, <1>7 DEF Call, HasBindsOrConnections, Transfer, CloseHasSub
<1>8. QED
  BY <1>4, <1>5, <1>6, <1>7 DEF Step

(* The setting of a socket outlives all steps but its own toggle and close. *)
LEMMA SettingKept ==
  ASSUME TypeOK, RegistryOwnsSockets, NEW st \in SocketTypes, NEW v, HasSetting(st, v),
         SameSettings \/ \E s \in SocketTypes : Created(s)
  PROVE  HasSetting(st, v)'
<1>1. socket[st] \in Handles /\ zmq[socket[st]].open
  BY OwnSocket DEF HasSetting
<1>2. CASE SameSettings
  BY <1>1, <1>2 DEF SameSettings, HasSetting
<1>3. ASSUME NEW s \in SocketTypes, NEW h \in Handles, ~zmq[h].open, socket[s] = NoSocket,
             zmq' = [zmq EXCEPT ![h] = Opened(s)], socket' = [socket EXCEPT ![s] = h]
      PROVE  HasSetting(st, v)'
  <2>1. st # s /\ socket[st] # h
    BY <1>1, <1>3 DEF HasSetting
  <2>2. socket'[st] = socket[st] /\ zmq'[socket[st]] = zmq[socket[st]]
    BY <1>1, <1>3, <2>1 DEF TypeOK
  <2>3. QED
    BY <2>2 DEF HasSetting
<1>4. QED
  BY <1>2, <1>3 DEF Created

(* Steps that set or close nothing keep the sockets in agreement.           *)
LEMMA AgreeKept ==
  ASSUME TypeOK, RegistryOwnsSockets, Agree, SameSettings \/ \E s \in SocketTypes : Created(s)
  PROVE  Agree'
<1>1. CASE \E v : \A st \in SocketTypes : HasSetting(st, v)
  <2>1. PICK v : \A st \in SocketTypes : HasSetting(st, v)
    BY <1>1
  <2>2. \A st \in SocketTypes : HasSetting(st, v)'
    BY <2>1, SettingKept
  <2>3. QED
    BY <2>2 DEF Agree
<1>2. CASE \A h \in Handles : zmq[h].open => zmq[h].ipv6 = FALSE
  <2>1. CASE SameSettings
    BY <1>2, <2>1 DEF SameSettings, Agree
  <2>2. ASSUME NEW s \in SocketTypes, Created(s) PROVE Agree'
    <3>1. PICK h \in Handles : zmq' = [zmq EXCEPT ![h] = Opened(s)]
      BY <2>2 DEF Created
    <3>2. \A g \in Handles : zmq'[g] = IF g = h THEN Opened(s) ELSE zmq[g]
      BY <3>1 DEF TypeOK
    <3>3. Opened(s).ipv6 = FALSE
      BY DEF Opened
    <3>4. \A g \in Handles : zmq'[g].open => zmq'[g].ipv6 = FALSE
      BY <1>2, <3>2, <3>3
    <3>5. QED
      BY <3>4 DEF Agree
  <2>3. QED
    BY <2>1, <2>2
<1>3. QED
  BY <1>1, <1>2 DEF Agree

(* Sockets in agreement have the same setting.                              *)
LEMMA AgreeUniform ==
  ASSUME TypeOK, RegistryOwnsSockets, Agree
  PROVE  Uniform
<1>1. CASE \A h \in Handles : zmq[h].open => zmq[h].ipv6 = FALSE
  BY <1>1 DEF Uniform
<1>2. ASSUME NEW v, \A st \in SocketTypes : HasSetting(st, v) PROVE Uniform
  <2>1. ASSUME NEW h \in Handles, zmq[h].open PROVE zmq[h].ipv6 = v
    <3>1. zmq[h].st \in SocketTypes
      BY DEF TypeOK, ZmqSockets
    <3>2. socket[zmq[h].st] = h
      BY <2>1, <3>1 DEF RegistryOwnsSockets
    <3>3. QED
      BY <1>2, <3>1, <3>2 DEF HasSetting
  <2>2. QED
    BY <2>1 DEF Uniform
<1>3. QED
  BY <1>1, <1>2 DEF Agree

(* A thread takes up an operation of its program, and keeps it until it is  *)
(* idle.                                                                    *)
LEMMA OwnOperation ==
  ASSUME TypeOK, NEW t \in Threads, Step(t) \/ \E o \in Program[t] : Call(t, o)
  PROVE  \/ Step(t) /\ pc[t] # "idle" /\ pc'[t] = "idle"
         \/ Step(t) /\ pc[t] # "idle" /\ op'[t] = op[t]
         \/ pc[t] = "idle" /\ pc'[t] \in {"hasSub", "check", "get"} /\ op'[t] \in Program[t]
            /\ (op'[t].kind = "toggleIPV6" => pc'[t] = "get") /\ next'[t] = next[t]
<1> DEFINE OK == pc'[t] = "idle" \/ op'[t] = op[t]
<1>1. ASSUME Return(t) PROVE OK
  BY <1>1 DEF Return, TypeOK
<1>2. ASSUME NEW l, NextType(t, l) PROVE OK
  BY <1>1, <1>2 DEF NextType
<1>3. ASSUME NEW l, Goto(t, l) PROVE OK
  BY <1>3 DEF Goto
<1>4. ASSUME NEW o \in Program[t], Call(t, o)
      PROVE  pc[t] = "idle" /\ pc'[t] \in {"hasSub", "check", "get"} /\ op'[t] \in Program[t]
             /\ (op'[t].kind = "toggleIPV6" => pc'[t] = "get") /\ next'[t] = next[t]
  BY <1>4 DEF Call, TypeOK
<1>5. ASSUME Step(t) PROVE pc[t] # "idle"
  BY <1>5 DEF Step, HasBindsOrConnections, ZMQSocket, DoBindOrConnect, Transfer,
     AddSubscriberMessageFilter, RemoveSubscriberMessageFilter, ToggleIPV6Support,
     CloseHasSub, CloseClearFilters, CloseOne, Working
<1> HIDE DEF OK
<1>6. ASSUME Step(t) PROVE OK
  BY <1>1, <1>2, <1>3, <1>6 DEF Step, HasBindsOrConnections, ZMQSocket, DoBindOrConnect, Transfer,
     AddSubscriberMessageFilter, RemoveSubscriberMessageFilter, ToggleIPV6Support,
     CloseHasSub, CloseClearFilters, CloseOne
<1>7. QED
  BY <1>4, <1>5, <1>6 DEF OK

(* A round of the toggle gives one more socket the setting.                 *)
LEMMA ToggleRound ==
  ASSUME "toggleIPV6" \notin Refusable, TypeOK, RegistryOwnsSockets, QuietInv, IPV6Inv,
         NEW t \in Threads, ToggleIPV6Support(t), NEW v, v = op[t].arg
  PROVE  /\ \A j \in 1..next[t] : HasSetting(AllSocketTypes[j], v)'
         /\ NextType(t, "get")
<1>1. /\ pc[t] = "use" /\ op[t].kind = "toggleIPV6" /\ Toggling(t)
  BY DEF ToggleIPV6Support, Working, Toggling
<1>2. Type(t) = AllSocketTypes[next[t]] /\ next[t] \in 1..4
  BY <1>1, TypeCases, AllTypes DEF TypeOK
<1>3. ptr[t] = socket[Type(t)] /\ ptr[t] # NoSocket
  BY <1>1 DEF QuietInv, ThreadOK
<1>4. ptr[t] \in Handles /\ zmq[ptr[t]].open
  BY <1>2, <1>3, AllTypes, OwnSocket
<1>5. /\ zmq' = [zmq EXCEPT ![ptr[t]].ipv6 = op[t].arg] /\ NextType(t, "get") /\ socket' = socket
  BY <1>1, <1>4 DEF ToggleIPV6Support, Usable, MayRefuse
<1>6. zmq'[ptr[t]].ipv6 = v /\ \A h \in Handles : h # ptr[t] => zmq'[h] = zmq[h]
  <2>1. zmq[ptr[t]] \in ZmqSockets
    BY <1>4 DEF TypeOK
  <2>2. QED
    BY <1>4, <1>5, <2>1 DEF TypeOK, ZmqSockets
<1>7. ASSUME NEW j \in 1..next[t] PROVE HasSetting(AllSocketTypes[j], v)'
  <2>2. AllSocketTypes[j] \in SocketTypes
    BY <1>2, AllTypes
  <2>3. socket[AllSocketTypes[j]] # NoSocket
    BY <1>1, <1>2, <1>3 DEF IPV6Inv, HasSetting
  <2>4. socket[AllSocketTypes[j]] \in Handles
    BY <2>2, <2>3, OwnSocket
  <2>5. zmq'[socket[AllSocketTypes[j]]].ipv6 = v
    <3>1. CASE socket[AllSocketTypes[j]] = ptr[t]
      BY <1>6, <3>1
    <3>2. CASE socket[AllSocketTypes[j]] # ptr[t]
      <4>1. j \in 1..next[t] - 1
        BY <1>2, <1>3, <3>2
      <4>2. HasSetting(AllSocketTypes[j], v)
        BY <1>1, <4>1 DEF IPV6Inv
      <4>3. QED
        BY <1>6, <2>4, <3>2, <4>2 DEF HasSetting
    <3>3. QED
      BY <3>1, <3>2
  <2>6. QED
    BY <1>5, <2>3, <2>5 DEF HasSetting
<1>8. QED
  BY <1>5, <1>7

(* A thread that toggles is alone in doing so.                              *)
LEMMA OneToggler ==
  ASSUME OneToggles, TypeOK, IPV6Inv, NEW t \in Threads, NEW u \in Threads, Toggling(t), Toggling(u)
  PROVE  t = u
  BY DEF OneToggles, IPV6Inv, Toggling

(* The step of a thread keeps what is known of the settings.                *)
LEMMA IPV6Step ==
  ASSUME QuiescentClose, "toggleIPV6" \notin Refusable, OneToggles,
         TypeOK, RegistryOwnsSockets, QuietInv, IPV6Inv, [Next]_vars,
         TypeOK', RegistryOwnsSockets', NEW t \in Threads, Step(t) \/ \E o \in Program[t] : Call(t, o)
  PROVE  IPV6Inv'
<1>1. /\ \A u \in Threads : u # t =>
           /\ pc'[u] = pc[u] /\ op'[u] = op[u] /\ next'[u] = next[u]
           /\ ~Closing(u) /\ pc[u] \notin ClosePCs
      /\ ThreadOK(t)
  BY OthersKept, NobodyElseCloses DEF QuietInv
<1>2. CloseOne(t) => pc[t] = "closeOne" /\ \A u \in Threads : u # t => pc[u] = "idle"
  BY <1>1 DEF CloseOne, QuietInv, ThreadOK, ClosePCs
<1>3. ASSUME NEW u \in Threads, pc'[u] # "idle" PROVE op'[u] \in Program[u]
  <2>1. CASE u = t
    BY <1>3, <2>1, OwnOperation DEF IPV6Inv
  <2>2. CASE u # t
    BY <1>1, <1>3, <2>2 DEF IPV6Inv
  <2>3. QED
    BY <2>1, <2>2
<1>4. ASSUME NEW u \in Threads, Toggling(u)'
      PROVE  /\ pc'[u] \in {"get", "use"}
             /\ \A j \in 1..next'[u] - 1 : HasSetting(AllSocketTypes[j], op[u].arg)'
  <2>1. CASE u # t
    <3>1. Toggling(u) /\ pc[u] # "idle" /\ pc'[u] = pc[u] /\ op'[u] = op[u] /\ next'[u] = next[u]
      BY <1>1, <1>4, <2>1 DEF Toggling
    <3>2. ~CloseOne(t)
      BY <1>2, <2>1, <3>1
    <3>3. ~ToggleIPV6Support(t)
      BY <2>1, <3>1, OneToggler DEF ToggleIPV6Support, Working, Toggling
    <3>4. SameSettings \/ \E s \in SocketTypes : Created(s)
      BY <3>2, <3>3, SettingSteps
    <3>5. ASSUME NEW v, v = op[u].arg, NEW j \in 1..next[u] - 1 PROVE HasSetting(AllSocketTypes[j], v)'
      <4>1. j \in 1..4 /\ AllSocketTypes[j] \in SocketTypes
        BY AllTypes DEF TypeOK
      <4>2. HasSetting(AllSocketTypes[j], v)
        BY <3>1, <3>5 DEF IPV6Inv
      <4>3. QED
        BY <3>4, <4>1, <4>2, SettingKept
    <3>6. QED
      BY <3>1, <3>5 DEF IPV6Inv, HasSetting
  <2>2. CASE u = t /\ pc[t] = "idle"
    <3>1. pc'[t] = "get" /\ next'[t] = next[t] /\ next[t] = 1
      BY <1>1, <1>4, <2>2, OwnOperation DEF Toggling, ThreadOK
    <3>2. QED
      BY <2>2, <3>1
  <2>3. CASE u = t /\ pc[t] # "idle"
    <3>1. Step(t) /\ op'[t] = op[t] /\ Toggling(t) /\ pc[t] \in {"get", "use"}
      BY <1>4, <2>3, OwnOperation DEF Toggling, IPV6Inv
    <3>2. ASSUME NEW v, v = op[t].arg, NEW j \in 1..next'[t] - 1 PROVE HasSetting(AllSocketTypes[j], v)'
      <4>1. CASE ToggleIPV6Support(t)
        <5>1. NextType(t, "get") /\ \A k \in 1..next[t] : HasSetting(AllSocketTypes[k], v)'
          BY <3>2, <4>1, ToggleRound
        <5>2. next'[t] - 1 <= next[t] /\ next'[t] \in 1..4 /\ next[t] \in 1..4
          BY <5>1, AllTypes DEF NextType, Return, TypeOK
        <5>3. j \in 1..next[t]
          BY <3>2, <5>2
        <5>4. QED
          BY <5>1, <5>3
      <4>2. CASE ZMQSocket(t)
        <5>1. next'[t] = next[t]
          BY <4>2 DEF ZMQSocket, Goto
        <5>2. j \in 1..4 /\ AllSocketTypes[j] \in SocketTypes /\ HasSetting(AllSocketTypes[j], v)
          BY <3>1, <3>2, <5>1, AllTypes DEF TypeOK, IPV6Inv
        <5>3. ~CloseOne(t) /\ ~ToggleIPV6Support(t)
          BY <4>2 DEF ZMQSocket, CloseOne, ToggleIPV6Support, Working
        <5>4. QED
          BY <5>2, <5>3, SettingSteps, SettingKept
      <4>3. QED
        BY <3>1, <4>1, <4>2 DEF Step, Toggling, HasBindsOrConnections, DoBindOrConnect, Transfer,
           AddSubscriberMessageFilter, RemoveSubscriberMessageFilter, CloseHasSub, CloseClearFilters,
           CloseOne, Working
    <3>3. pc'[t] \in {"get", "use"}
      <4>1. CASE ToggleIPV6Support(t)
        <5>1. NextType(t, "get")
          BY <4>1, ToggleRound
        <5>2. QED
          BY <1>4, <2>3, <5>1 DEF NextType, Return, TypeOK, Toggling
      <4>2. CASE ZMQSocket(t)
        BY <3>1, <4>2 DEF ZMQSocket, Goto, TypeOK
      <4>3. QED
        BY <3>1, <4>1, <4>2 DEF Step, Toggling, HasBindsOrConnections, DoBindOrConnect, Transfer,
           AddSubscriberMessageFilter, RemoveSubscriberMessageFilter, CloseHasSub, CloseClearFilters,
           CloseOne, Working
    <3>4. QED
      BY <2>3, <3>1, <3>2, <3>3 DEF HasSetting
  <2>4. QED
    BY <2>1, <2>2, <2>3
<1>5. ASSUME \A u \in Threads : ~Toggling(u)' /\ pc'[u] # "closeOne" PROVE Agree'
  <2>1. ASSUME NEW u \in Threads, Toggling(u) \/ pc[u] = "closeOne" PROVE u = t
    BY <1>1, <1>5, <2>1 DEF Toggling, ClosePCs
  <2>2. CASE Toggling(t)
    <3>1. Step(t) /\ pc'[t] = "idle" /\ pc[t] \in {"get", "use"}
      BY <1>5, <2>2, OwnOperation DEF Toggling, IPV6Inv
    <3>2. ToggleIPV6Support(t)
      BY <2>2, <3>1 DEF Step, Toggling, HasBindsOrConnections, DoBindOrConnect, Transfer, ZMQSocket, Goto,
         AddSubscriberMessageFilter, RemoveSubscriberMessageFilter, CloseHasSub, CloseClearFilters,
         CloseOne, Working, TypeOK
    <3>3. ASSUME NEW v, v = op[t].arg PROVE Agree'
      <4>1. NextType(t, "get") /\ \A j \in 1..next[t] : HasSetting(AllSocketTypes[j], v)'
        BY <3>2, <3>3, ToggleRound
      <4>2. next[t] = 4
        BY <3>1, <4>1, AllTypes DEF NextType, TypeOK
      <4>3. SocketTypes = {AllSocketTypes[1], AllSocketTypes[2], AllSocketTypes[3], AllSocketTypes[4]}
        BY DEF SocketTypes, AllSocketTypes
      <4>4. \A st \in SocketTypes : HasSetting(st, v)'
        BY <4>1, <4>2, <4>3
      <4>5. QED
        BY <4>4 DEF Agree
    <3>4. QED
      BY <3>3
  <2>3. CASE pc[t] = "closeOne"
    <3>1. CloseOne(t)
      BY <2>3, OwnOperation DEF Step, HasBindsOrConnections, DoBindOrConnect, Transfer, ZMQSocket,
         AddSubscriberMessageFilter, RemoveSubscriberMessageFilter, ToggleIPV6Support, CloseHasSub,
         CloseClearFilters, Working
    <3>2. pc'[t] = "idle"
      BY <1>5, <3>1 DEF CloseOne, NextType, Return, TypeOK
    <3>3. \A h \in Handles : ~zmq'[h].open
      BY <2>3, <3>2, LastRound
    <3>4. QED
      BY <3>3 DEF Agree
  <2>4. CASE ~Toggling(t) /\ pc[t] # "closeOne"
    <3>1. Agree
      BY <2>1, <2>4 DEF IPV6Inv
    <3>2. ~CloseOne(t) /\ ~ToggleIPV6Support(t)
      BY <2>4 DEF CloseOne, ToggleIPV6Support, Working, Toggling
    <3>3. QED
      BY <3>1, <3>2, SettingSteps, AgreeKept
  <2>5. QED
    BY <2>2, <2>3, <2>4
<1>6. ASSUME NEW u \in Threads, pc'[u] = "closeOne" PROVE Uniform'
  <2>1. u = t
    BY <1>1, <1>6 DEF ClosePCs
  <2>2. CASE pc[t] = "closeOne"
    <3>1. CloseOne(t) /\ Type(t) \in SocketTypes
      BY <2>2, OwnOperation, TypeType DEF Step, HasBindsOrConnections, DoBindOrConnect, Transfer, ZMQSocket,
         AddSubscriberMessageFilter, RemoveSubscriberMessageFilter, ToggleIPV6Support, CloseHasSub,
         CloseClearFilters, Working
    <3>2. zmq' = zmq \/ zmq' = [zmq EXCEPT ![socket[Type(t)]] = Closed]
      BY <3>1 DEF CloseOne, CloseSocket
    <3>3. Closed.open = FALSE
      BY DEF Closed, Opened
    <3>4. \A h \in Handles : zmq'[h] = zmq[h] \/ zmq'[h] = Closed
      BY <3>2 DEF TypeOK
    <3>5. PICK v : \A h \in Handles : zmq[h].open => zmq[h].ipv6 = v
      BY <2>2 DEF IPV6Inv, Uniform
    <3>6. \A h \in Handles : zmq'[h].open => zmq'[h].ipv6 = v
      BY <3>3, <3>4, <3>5
    <3>7. QED
      BY <3>6 DEF Uniform
  <2>3. CASE pc[t] # "closeOne"
    <3>1. CloseHasSub(t) \/ CloseClearFilters(t)
      <4>1. ASSUME Return(t) PROVE FALSE
        BY <1>6, <2>1, <4>1 DEF Return, TypeOK
      <4>2. ASSUME NextType(t, "get") PROVE FALSE
        BY <1>6, <2>1, <4>1, <4>2 DEF NextType, TypeOK
      <4>3. QED
        BY <1>6, <2>1, <2>3, <4>1, <4>2 DEF Step, Call, HasBindsOrConnections, DoBindOrConnect, Transfer, ZMQSocket,
           AddSubscriberMessageFilter, RemoveSubscriberMessageFilter, ToggleIPV6Support, CloseOne,
           Goto, TypeOK
    <3>2. Closing(t) /\ pc[t] \in {"hasSub", "clear"}
      BY <1>1, <3>1 DEF ThreadOK, ClosePCs, CloseHasSub, CloseClearFilters
    <3>3. \A w \in Threads : ~Toggling(w) /\ pc[w] # "closeOne"
      BY <2>3, <3>2 DEF QuietInv, Toggling, Closing
    <3>4. Agree
      BY <3>3 DEF IPV6Inv
    <3>5. SameSettings
      BY <3>2, SettingSteps DEF ZMQSocket, CloseOne, ToggleIPV6Support, Working
    <3>6. Uniform
      BY <3>4, AgreeUniform
    <3>7. QED
      BY <3>5, <3>6 DEF Uniform, SameSettings
  <2>4. QED
    BY <2>2, <2>3
<1>7. QED
  BY <1>3, <1>4, <1>5, <1>6 DEF IPV6Inv

(* If no operation overlaps a close, no socket refuses the option, and one  *)
(* thread at most changes the setting, all open sockets have the same IPv6  *)
(* setting between operations: the toggle creates all four sockets, so that *)
(* none can appear later without it, and closing closes all of them         *)
(* (HelperFunctions.cpp:240-252, GlobalData.cpp:166-210).                   *)
THEOREM QuiescentIPV6Uniform ==
  ASSUME QuiescentClose, "toggleIPV6" \notin Refusable, OneToggles
  PROVE  Spec => []IPV6Uniform
<1>1. Init => IPV6Inv
  <2> SUFFICES ASSUME Init PROVE IPV6Inv
    OBVIOUS
  <2>1. \A t \in Threads : pc[t] = "idle"
    BY DEF Init
  <2>2. \A h \in Handles : ~zmq[h].open
    BY DEF Init, Closed, Opened
  <2>3. QED
    BY <2>1, <2>2 DEF IPV6Inv, Toggling, Agree
<1> DEFINE Inv == TypeOK /\ RegistryOwnsSockets /\ QuietInv
<1>2. Inv /\ Inv' /\ IPV6Inv /\ [Next]_vars => IPV6Inv'
  <2> SUFFICES ASSUME Inv, Inv', IPV6Inv, [Next]_vars PROVE IPV6Inv'
    OBVIOUS
  <2>1. CASE UNCHANGED vars
    BY <2>1 DEF vars, IPV6Inv, Toggling, HasSetting, Agree, Uniform
  <2>2. ASSUME NEW t \in Threads, Step(t) \/ \E o \in Program[t] : Call(t, o) PROVE IPV6Inv'
    BY <2>2, IPV6Step
  <2>3. QED
    BY <2>1, <2>2 DEF Next
<1>3. Inv /\ IPV6Inv => IPV6Uniform
  <2> SUFFICES ASSUME Inv, IPV6Inv, \A t \in Threads : pc[t] = "idle" PROVE Uniform
    BY DEF IPV6Uniform, Uniform
  <2>1. Agree
    BY DEF IPV6Inv, Toggling
  <2>2. QED
    BY <2>1, AgreeUniform
<1>4. Spec => []Inv
  BY QuietInvariance, PTL
<1>5. QED
  BY <1>1, <1>2, <1>3, <1>4, PTL DEF Spec
-----------------------------------------------------------------------------
(* The connection service *)

SomeoneCloses == \E t \in Threads : Closing(t)

\* the variables of ConnectionService, as Connections substitutes them
Attached == [st \in SocketTypes |-> {e[2] : e \in View(st).endpoints}]
Subscribed == View("Subscriber").subs
IPV6 == [st \in SocketTypes |-> View(st).ipv6]
Doing == [t \in Threads |-> IF pc[t] = "idle" THEN {} ELSE {op[t]}]
Unset == [t \in Threads |->
            IF pc[t] # "idle" /\ op[t].kind = "toggleIPV6"
            THEN {AllSocketTypes[i] : i \in next[t]..Len(AllSocketTypes)} ELSE {}]

\* closed sockets are attached to nothing, only the heartbeat looks at a list
ClearInv ==
  /\ \A h \in Handles : ~zmq[h].open => zmq[h].endpoints = {}
  /\ \A t \in Threads : pc[t] = "check" => op[t].kind = "heartbeat"

\* neither an IPv6 setting nor a close is refused
SettingsSucceed == Refusable \cap {"toggleIPV6", "close"} = {}

ConnectionInv == SettingsSucceed /\ TypeOK /\ RegistryOwnsSockets /\ QuietInv /\ ClearInv

\* what the socket of each type is bound or connected to
Attachments == [st \in SocketTypes |-> {e \in Endpoints : <<st, e>> \in AttachedTo(st)}]

\* the setting of a socket that may not have been created
Setting(st) == IF socket[st] = NoSocket THEN FALSE ELSE zmq[socket[st]].ipv6

\* what callers see, in terms of the registry
SeesRegistry ==
  /\ Attached = [st \in SocketTypes |-> IF SomeoneCloses THEN {} ELSE Attachments[st]]
  /\ Subscribed = IF SomeoneCloses THEN {} ELSE Subscriptions
  /\ IPV6 = [st \in SocketTypes |-> IF SomeoneCloses THEN FALSE ELSE Setting(st)]

(* Callers see the attachments and the subscriptions of the sockets.        *)
LEMMA ViewOfRegistry == ConnectionInv => SeesRegistry
<1> SUFFICES ASSUME ConnectionInv PROVE SeesRegistry
  OBVIOUS
<1>1. \A st : Opened(st).endpoints = {} /\ Opened(st).subs = {} /\ Opened(st).ipv6 = FALSE
  BY DEF Opened
<1>2. \A st : View(st) = IF socket[st] = NoSocket \/ SomeoneCloses THEN Opened(st) ELSE zmq[socket[st]]
  BY DEF View, SomeoneCloses
<1>3. ASSUME NEW st \in SocketTypes
      PROVE  {e[2] : e \in View(st).endpoints} = IF SomeoneCloses THEN {} ELSE Attachments[st]
  <2>1. ~SomeoneCloses => View(st).endpoints = AttachedTo(st)
    BY <1>1, <1>2 DEF AttachedTo
  <2>2. AttachedTo(st) \subseteq {st} \X Endpoints
    BY DEF ConnectionInv, QuietInv, OwnEndpoints
  <2>3. {e[2] : e \in AttachedTo(st)} = {e \in Endpoints : <<st, e>> \in AttachedTo(st)}
    <3>1. ASSUME NEW x \in Endpoints, <<st, x>> \in AttachedTo(st)
          PROVE  \E e \in AttachedTo(st) : x = e[2]
      <4>1. <<st, x>>[2] = x
        OBVIOUS
      <4>2. QED
        BY <3>1, <4>1
    <3>2. ASSUME NEW e \in AttachedTo(st)
          PROVE  e[2] \in Endpoints /\ <<st, e[2]>> \in AttachedTo(st)
      BY <2>2, <3>2
    <3>3. QED
      BY <3>1, <3>2
  <2>4. QED
    BY <1>1, <1>2, <2>1, <2>3 DEF Attachments
<1>4. Attached = [st \in SocketTypes |-> IF SomeoneCloses THEN {} ELSE Attachments[st]]
  BY <1>3 DEF Attached
<1>5. Subscribed = IF SomeoneCloses THEN {} ELSE Subscriptions
  BY <1>1, <1>2 DEF Subscribed, Subscriptions
<1>6. IPV6 = [st \in SocketTypes |-> IF SomeoneCloses THEN FALSE ELSE Setting(st)]
  BY <1>1, <1>2 DEF IPV6, Setting
<1>7. QED
  BY <1>4, <1>5, <1>6 DEF SeesRegistry

(* And after a step.                                                        *)
LEMMA ViewOfRegistryAfter == ConnectionInv' => SeesRegistry'
  BY ViewOfRegistry, PTL

(* Closed sockets stay attached to nothing.                                 *)
LEMMA ClearStep ==
  ASSUME TypeOK, RegistryOwnsSockets, QuietInv, ClearInv, [Next]_vars
  PROVE  ClearInv'
<1>1. CASE UNCHANGED vars
  BY <1>1 DEF vars, ClearInv
<1>2. ASSUME NEW t \in Threads, Step(t) \/ \E o \in Program[t] : Call(t, o)
      PROVE  ClearInv'
  <2> DEFINE Clear(z) == ~z.open => z.endpoints = {}
  <2>1. \A h \in Handles : zmq[h] \in ZmqSockets /\ Clear(zmq[h])
    BY DEF TypeOK, ClearInv
  <2>2. \A st : Clear(Opened(st))
    BY DEF Opened
  <2>3. Clear(Closed)
    BY DEF Closed, Opened
  <2>4. ASSUME NEW z \in ZmqSockets, Clear(z), NEW E, NEW F, NEW b
        PROVE  /\ z.open => Clear([z EXCEPT !.endpoints = E])
               /\ Clear([z EXCEPT !.subs = F]) /\ Clear([z EXCEPT !.ipv6 = b])
    BY <2>4 DEF ZmqSockets
  <2> HIDE DEF Clear
  <2>5. \A h \in Handles : Clear(zmq'[h])
    <3>1. CASE UNCHANGED zmq
      BY <2>1, <3>1
    <3>2. ASSUME NEW p, NEW z, zmq' = [zmq EXCEPT ![p] = z], p \in Handles => Clear(z)
          PROVE  \A h \in Handles : Clear(zmq'[h])
      <4>1. \A h \in Handles : zmq'[h] = IF h = p THEN z ELSE zmq[h]
        BY <3>2 DEF TypeOK
      <4>2. QED
        BY <2>1, <3>2, <4>1
    <3>3. CASE ZMQSocket(t)
      <4>1. UNCHANGED zmq \/ \E p \in Handles : zmq' = [zmq EXCEPT ![p] = Opened(Type(t))]
        BY <3>3 DEF ZMQSocket
      <4>2. QED
        BY <2>2, <3>1, <3>2, <4>1
    <3>4. CASE DoBindOrConnect(t) \/ ToggleIPV6Support(t)
      <4> DEFINE p == ptr[t]
      <4>1. \/ UNCHANGED zmq
            \/ /\ zmq[p].open
               /\ zmq' = [zmq EXCEPT ![p] = [zmq[p] EXCEPT !.endpoints = zmq[p].endpoints \cup {<<op[t].st, op[t].arg>>}]]
            \/ zmq' = [zmq EXCEPT ![p] = [zmq[p] EXCEPT !.ipv6 = op[t].arg]]
        BY <3>4 DEF DoBindOrConnect, ToggleIPV6Support, CanAttach, Usable
      <4> HIDE DEF p
      <4>2. ASSUME NEW E, zmq[p].open, zmq' = [zmq EXCEPT ![p] = [zmq[p] EXCEPT !.endpoints = E]]
            PROVE  \A h \in Handles : Clear(zmq'[h])
        BY <2>1, <2>4, <3>2, <4>2
      <4>3. ASSUME NEW b, zmq' = [zmq EXCEPT ![p] = [zmq[p] EXCEPT !.ipv6 = b]]
            PROVE  \A h \in Handles : Clear(zmq'[h])
        BY <2>1, <2>4, <3>2, <4>3
      <4>4. QED
        BY <3>1, <4>1, <4>2, <4>3
    <3>5. CASE AddSubscriberMessageFilter(t) \/ RemoveSubscriberMessageFilter(t) \/ CloseClearFilters(t)
      <4> DEFINE p == ptr[t]
      <4>1. \/ UNCHANGED zmq
            \/ \E F : zmq' = [zmq EXCEPT ![p] = [zmq[p] EXCEPT !.subs = F]]
        BY <3>5 DEF AddSubscriberMessageFilter, RemoveSubscriberMessageFilter, CloseClearFilters,
           Unsubscribe, UnsubscribeFails
      <4> HIDE DEF p
      <4>2. QED
        BY <2>1, <2>4, <3>1, <3>2, <4>1
    <3>6. CASE CloseOne(t)
      BY <2>1, <2>3, <3>6 DEF CloseOne, CloseSocket, TypeOK
    <3>7. QED
      BY <1>2, <3>1, <3>2, <3>3, <3>4, <3>5, <3>6 DEF Step, Call, HasBindsOrConnections,
         Transfer, CloseHasSub
  <2>6. \A u \in Threads : pc'[u] = "check" => op'[u].kind = "heartbeat"
    <3>1. \A u \in Threads : u # t => pc'[u] = pc[u] /\ op'[u] = op[u]
      BY <1>2, OthersKept
    <3>2. pc'[t] = "check" => op'[t].kind = "heartbeat"
      BY <1>2 DEF Step, Call, HasBindsOrConnections, ZMQSocket, DoBindOrConnect, Transfer,
         AddSubscriberMessageFilter, RemoveSubscriberMessageFilter, ToggleIPV6Support,
         CloseHasSub, CloseClearFilters, CloseOne, NextType, Return, Goto, TypeOK
    <3>3. QED
      BY <3>1, <3>2 DEF ClearInv
  <2>7. QED
    BY <2>5, <2>6 DEF ClearInv, Clear
<1>3. QED
  BY <1>1, <1>2 DEF Next

(* A bind is possible if no socket is bound to the endpoint.                *)
LEMMA AttachPossible ==
  ASSUME ConnectionInv, NEW t \in Threads, Working(t, "attach")
  PROVE  CanAttach(t) <=> (op[t].st \in Binding => \A st \in Binding : op[t].arg \notin Attachments[st])
<1>1. op[t] \in Operations /\ op[t].st \in SocketTypes
  BY OperationTypes DEF ConnectionInv, TypeOK
<1>2. ptr[t] = socket[op[t].st] /\ ptr[t] # NoSocket
  BY TypeCases DEF ConnectionInv, QuietInv, ThreadOK, Working
<1>3. Usable(t)
  BY <1>1, <1>2, OwnSocket DEF Usable, ConnectionInv
<1>4. Binding \subseteq SocketTypes
  BY DEF Binding, SocketTypes
<1>5. ASSUME NEW e \in Endpoints, NEW st \in Binding
      PROVE  e \in Attachments[st] <=> \E h \in Handles : <<st, e>> \in zmq[h].endpoints
  <2>1. e \in Attachments[st] <=> <<st, e>> \in AttachedTo(st)
    BY <1>4 DEF Attachments
  <2>2. ASSUME <<st, e>> \in AttachedTo(st) PROVE \E h \in Handles : <<st, e>> \in zmq[h].endpoints
    BY <1>4, <2>2, OwnSocket DEF AttachedTo, ConnectionInv
  <2>3. ASSUME NEW h \in Handles, <<st, e>> \in zmq[h].endpoints PROVE <<st, e>> \in AttachedTo(st)
    <3>1. zmq[h].open /\ zmq[h].st \in SocketTypes
      BY <2>3 DEF ConnectionInv, ClearInv, TypeOK, ZmqSockets
    <3>2. socket[zmq[h].st] = h /\ h # NoSocket
      BY <3>1, SocketAssumption DEF ConnectionInv, RegistryOwnsSockets
    <3>3. <<st, e>> \in AttachedTo(zmq[h].st)
      BY <2>3, <3>2 DEF AttachedTo
    <3>4. st = zmq[h].st
      BY <3>1, <3>3 DEF ConnectionInv, QuietInv, OwnEndpoints
    <3>5. QED
      BY <3>3, <3>4
  <2>4. QED
    BY <2>1, <2>2, <2>3
<1>6. op[t].arg \in Endpoints
  BY <1>1, OperationTypes DEF Working
<1>7. QED
  BY <1>3, <1>5, <1>6 DEF CanAttach

(* Steps that create a socket, or that change another option than the       *)
(* setting, do not change it.                                               *)
LEMMA SettingSame ==
  ASSUME TypeOK, RegistryOwnsSockets, SameSettings \/ \E s \in SocketTypes : Created(s)
  PROVE  \A st \in SocketTypes : Setting(st)' = Setting(st)
<1> SUFFICES ASSUME NEW st \in SocketTypes PROVE Setting(st)' = Setting(st)
  OBVIOUS
<1>1. CASE SameSettings
  BY <1>1, OwnSocket DEF SameSettings, Setting
<1>2. ASSUME NEW s \in SocketTypes, NEW h \in Handles, ~zmq[h].open, socket[s] = NoSocket,
             zmq' = [zmq EXCEPT ![h] = Opened(s)], socket' = [socket EXCEPT ![s] = h]
      PROVE  Setting(st)' = Setting(st)
  <2>1. CASE st = s
    <3>1. socket'[st] = h /\ zmq'[h].ipv6 = FALSE
      BY <1>2, <2>1 DEF TypeOK, Opened
    <3>2. QED
      BY <1>2, <2>1, <3>1 DEF Setting
  <2>2. CASE st # s /\ socket[st] = NoSocket
    BY <1>2, <2>2 DEF TypeOK, Setting
  <2>3. CASE st # s /\ socket[st] # NoSocket
    <3>1. socket[st] \in Handles /\ socket[st] # h
      BY <1>2, <2>3, OwnSocket
    <3>2. QED
      BY <1>2, <2>3, <3>1 DEF TypeOK, Setting
  <2>4. QED
    BY <2>1, <2>2, <2>3
<1>3. QED
  BY <1>1, <1>2 DEF Created

\* while no thread closes, callers see the registry itself
SeesItself ==
  Attached = Attachments /\ Subscribed = Subscriptions /\ IPV6 = [st \in SocketTypes |-> Setting(st)]

(* They do.                                                                 *)
LEMMA CalmView == TypeOK /\ SeesRegistry /\ ~SomeoneCloses => SeesItself
<1> SUFFICES ASSUME TypeOK, SeesRegistry, ~SomeoneCloses PROVE SeesItself
  OBVIOUS
<1>1. Attachments = [st \in SocketTypes |-> Attachments[st]]
  BY DEF Attachments
<1>2. QED
  BY <1>1 DEF SeesRegistry, SeesItself

(* And after a step.                                                        *)
LEMMA CalmViewAfter == TypeOK' /\ SeesRegistry' /\ ~SomeoneCloses' => SeesItself'
  BY CalmView, PTL

(* Only the thread that takes a step can be closing.                        *)
LEMMA OnlyCloser ==
  ASSUME QuiescentClose, TypeOK, QuietInv, NEW t \in Threads, Step(t) \/ \E o \in Program[t] : Call(t, o)
  PROVE  (SomeoneCloses <=> Closing(t)) /\ (SomeoneCloses' <=> Closing(t)')
<1>1. ASSUME NEW u \in Threads, u # t PROVE ~Closing(u) /\ ~Closing(u)'
  <2>1. ~Closing(u)
    BY <1>1, NobodyElseCloses
  <2>2. pc'[u] = pc[u] /\ op'[u] = op[u]
    BY <1>1, OthersKept
  <2>3. QED
    BY <2>1, <2>2 DEF Closing
<1>2. QED
  BY <1>1 DEF SomeoneCloses

\* the operation of a thread ends
Ends(t) == Doing' = [Doing EXCEPT ![t] = {}] /\ Unset' = [Unset EXCEPT ![t] = {}]

(* A thread that returns has no operation any more.                         *)
LEMMA ReturnEnds ==
  ASSUME TypeOK, NEW t \in Threads, Step(t), Return(t)
  PROVE  Ends(t) /\ pc'[t] = "idle"
<1>1. \A u \in Threads : u # t => pc'[u] = pc[u] /\ op'[u] = op[u] /\ next'[u] = next[u]
  BY OthersKept
<1>2. pc'[t] = "idle"
  BY DEF Return, TypeOK
<1>3. Doing' = [Doing EXCEPT ![t] = {}]
  BY <1>1, <1>2 DEF Doing
<1>4. Unset' = [Unset EXCEPT ![t] = {}]
  BY <1>1, <1>2 DEF Unset
<1>5. QED
  BY <1>2, <1>3, <1>4 DEF Ends

(* A thread that goes on still has its operation.                           *)
LEMMA GoesOn ==
  ASSUME TypeOK, NEW t \in Threads, Step(t), pc[t] # "idle", pc'[t] # "idle", op'[t] = op[t],
         op[t].kind = "toggleIPV6" => next'[t] = next[t]
  PROVE  UNCHANGED <<Doing, Unset>>
<1>1. \A u \in Threads : u # t => pc'[u] = pc[u] /\ op'[u] = op[u] /\ next'[u] = next[u]
  BY OthersKept
<1>2. Doing' = Doing
  BY <1>1 DEF Doing
<1>3. Unset' = Unset
  BY <1>1 DEF Unset
<1>4. QED
  BY <1>2, <1>3

(* What a thread does is its operation.                                     *)
LEMMA DoesOperation ==
  ASSUME NEW t \in Threads, pc[t] # "idle"
  PROVE  op[t] \in Doing[t]
  BY DEF Doing

\* the variables of the connection service
viewVars == <<<<Attached, Subscribed, IPV6>>, Doing, Unset>>

(* The steps of the connection service, in these terms: none.               *)
LEMMA ServiceStutters ==
  ASSUME UNCHANGED viewVars
  PROVE  UNCHANGED Connections!vars
  BY DEF viewVars, Connections!vars, Connections!connections, Attached, Subscribed, IPV6, Doing, Unset

(* An operation returns.                                                    *)
LEMMA ServiceReturns ==
  ASSUME NEW t \in Threads, NEW o \in Doing[t], o.kind \in {"transfer", "heartbeat", "close"},
         Ends(t), UNCHANGED <<Attached, Subscribed, IPV6>>
  PROVE  Connections!Next
<1>1. Connections!Return(t, o)
  BY Zenon DEF Connections!Return, Connections!End, Connections!connections, Ends, Attached,
     Subscribed, IPV6, Doing, Unset
<1>2. QED
  BY <1>1, Zenon DEF Connections!Next, Doing

(* An endpoint is bound or connected to, or refused.                        *)
LEMMA ServiceAttaches ==
  ASSUME NEW t \in Threads, NEW o \in Doing[t], o.kind = "attach",
         IF o.st \in Binding /\ \E st \in Binding : o.arg \in Attached[st]
         THEN UNCHANGED Attached
         ELSE Attached' = [Attached EXCEPT ![o.st] = Attached[o.st] \cup {o.arg}],
         Ends(t), UNCHANGED <<Subscribed, IPV6>>
  PROVE  Connections!Next
<1>1. Connections!Attach(t, o)
  BY Zenon DEF Connections!Attach, Connections!End, Ends, Attached, Subscribed, IPV6, Doing, Unset
<1>2. QED
  BY <1>1, Zenon DEF Connections!Next, Doing

\* may a filter be refused, or its removal?
FiltersRefusable == Refusable \cap {"addFilter", "removeFilter"} # {}

(* A filter is added, or refused.                                           *)
LEMMA ServiceAddsFilter ==
  ASSUME NEW t \in Threads, NEW o \in Doing[t], o.kind = "addFilter",
         Subscribed' = Subscribed \cup {o.arg} \/ (FiltersRefusable /\ UNCHANGED Subscribed),
         Ends(t), UNCHANGED <<Attached, IPV6>>
  PROVE  Connections!Next
<1>1. Connections!AddFilter(t, o)
  BY Zenon DEF Connections!AddFilter, Connections!End, FiltersRefusable, Ends, Attached, Subscribed, IPV6, Doing, Unset
<1>2. QED
  BY <1>1, Zenon DEF Connections!Next, Doing

(* A filter, or all of them, are removed, or some are kept.                 *)
LEMMA ServiceRemovesFilter ==
  ASSUME NEW t \in Threads, NEW o \in Doing[t], o.kind = "removeFilter",
         \E kept \in SUBSET ((IF o.arg = Nothing THEN Subscribed ELSE {o.arg}) \cap Subscribed) :
           /\ kept # {} => FiltersRefusable
           /\ Subscribed' = (Subscribed \ (IF o.arg = Nothing THEN Subscribed ELSE {o.arg})) \cup kept,
         Ends(t), UNCHANGED <<Attached, IPV6>>
  PROVE  Connections!Next
<1>1. Connections!RemoveFilter(t, o)
  BY Zenon DEF Connections!RemoveFilter, Connections!End, FiltersRefusable, Ends, Attached, Subscribed, IPV6, Doing, Unset
<1>2. QED
  BY <1>1, Zenon DEF Connections!Next, Doing

(* A socket gets the IPv6 setting.                                          *)
LEMMA ServiceSets ==
  ASSUME NEW t \in Threads, NEW o \in Doing[t], o.kind = "toggleIPV6",
         NEW st \in SocketTypes, st \in Unset[t],
         IPV6' = [IPV6 EXCEPT ![st] = o.arg],
         IF Unset[t] = {st} THEN Ends(t)
         ELSE Unset' = [Unset EXCEPT ![t] = Unset[t] \ {st}] /\ UNCHANGED Doing,
         UNCHANGED <<Attached, Subscribed>>
  PROVE  Connections!Next
<1>1. Connections!Set(t, o, st)
  BY Zenon DEF Connections!Set, Connections!End, Ends, Attached, Subscribed, IPV6, Doing, Unset
<1>2. QED
  BY <1>1, Zenon DEF Connections!Next, Doing

\* an operation may begin
Begins(t, o) ==
  /\ Doing[t] = {}
  /\ \A u \in Threads : \A p \in Doing[u] : p.kind # "close"
  /\ Doing' = [Doing EXCEPT ![t] = {o}]
  /\ Unset' = [Unset EXCEPT ![t] = IF o.kind = "toggleIPV6" THEN SocketTypes ELSE {}]

(* An operation other than a close is called.                               *)
LEMMA ServiceCalls ==
  ASSUME NEW t \in Threads, NEW o \in Program[t], o.kind # "close", Begins(t, o),
         UNCHANGED <<Attached, Subscribed, IPV6>>
  PROVE  Connections!Next
<1>1. Connections!Call(t, o)
  BY Zenon DEF Connections!Call, Connections!Begin, Connections!connections, Begins, Attached,
     Subscribed, IPV6, Doing, Unset
<1>2. QED
  BY <1>1, Zenon DEF Connections!Next

(* A close is called, and has its effect.                                   *)
LEMMA ServiceCloses ==
  ASSUME NEW t \in Threads, NEW o \in Program[t], o.kind = "close", Begins(t, o),
         \A u \in Threads : Doing[u] = {},
         Attached' = [st \in SocketTypes |-> {}], Subscribed' = {},
         IPV6' = [st \in SocketTypes |-> FALSE]
  PROVE  Connections!Next
<1>1. Connections!Close(t, o)
  BY Zenon DEF Connections!Close, Connections!Begin, Connections!NoConnections, Begins, Attached,
     Subscribed, IPV6, Doing, Unset
<1>2. QED
  BY <1>1, Zenon DEF Connections!Next
-----------------------------------------------------------------------------
(* How the steps of the registry look to the callers *)

\* the assumptions of the steps
Before == QuiescentClose /\ ConnectionInv /\ SeesRegistry
After == TypeOK' /\ SeesRegistry'

(* While a thread closes, callers see nothing of what it does.              *)
LEMMA ClosingHidden ==
  ASSUME Before, After, NEW t \in Threads, Step(t), Closing(t), Closing(t)'
  PROVE  UNCHANGED <<Attached, Subscribed, IPV6>>
<1>1. SomeoneCloses /\ SomeoneCloses'
  BY DEF SomeoneCloses
<1>2. QED
  BY <1>1 DEF Before, After, SeesRegistry

(* While none does, they see what becomes of the attachments, the filters   *)
(* and the settings.                                                        *)
LEMMA CalmStep ==
  ASSUME Before, After, NEW t \in Threads, Step(t) \/ \E o \in Program[t] : Call(t, o),
         ~Closing(t), ~Closing(t)'
  PROVE  SeesItself /\ SeesItself' /\ Attached' = Attachments' /\ Subscribed' = Subscriptions'
<1>1. ~SomeoneCloses /\ ~SomeoneCloses'
  BY OnlyCloser DEF Before, ConnectionInv
<1>2. SeesItself /\ SeesItself'
  BY <1>1, CalmView, CalmViewAfter DEF Before, After, ConnectionInv
<1>3. QED
  BY <1>2 DEF SeesItself

(* And no setting changes but by a toggle.                                  *)
LEMMA CalmSettings ==
  ASSUME Before, After, NEW t \in Threads, Step(t) \/ \E o \in Program[t] : Call(t, o),
         ~Closing(t), ~Closing(t)', ~ToggleIPV6Support(t), ~CloseOne(t)
  PROVE  UNCHANGED IPV6
<1>1. SameSettings \/ \E s \in SocketTypes : Created(s)
  BY SettingSteps DEF Before, ConnectionInv
<1>2. \A st \in SocketTypes : Setting(st)' = Setting(st)
  BY <1>1, SettingSame DEF Before, ConnectionInv
<1>3. IPV6 = [st \in SocketTypes |-> Setting(st)] /\ IPV6' = [st \in SocketTypes |-> Setting(st)']
  BY CalmStep DEF SeesItself
<1>4. QED
  BY <1>2, <1>3

(* And nothing is attached but by a bind or connect.                        *)
LEMMA CalmAttachments ==
  ASSUME Before, NEW t \in Threads, Step(t) \/ \E o \in Program[t] : Call(t, o),
         ~DoBindOrConnect(t), ~CloseOne(t)
  PROVE  UNCHANGED Attachments
<1>1. SameAttached
  BY MatchStep DEF Before, ConnectionInv
<1>2. QED
  BY <1>1 DEF SameAttached, Attachments

(* And nothing is subscribed or unsubscribed but by the filter operations.  *)
LEMMA CalmSubscriptions ==
  ASSUME Before, NEW t \in Threads, Step(t) \/ \E o \in Program[t] : Call(t, o),
         ~AddSubscriberMessageFilter(t), ~RemoveSubscriberMessageFilter(t),
         ~CloseClearFilters(t), ~CloseOne(t)
  PROVE  UNCHANGED Subscriptions
  BY MatchStep DEF Before, ConnectionInv

(* A thread at work in a socket operation is not closing.                   *)
LEMMA WorkingCalm ==
  ASSUME TypeOK, QuietInv, NEW t \in Threads, pc[t] \in {"check", "get", "use"}
  PROVE  ~Closing(t) /\ (op[t].kind # "toggleIPV6" => next[t] = 1)
  BY DEF QuietInv, ThreadOK, ClosePCs

(* The call of an operation.                                                *)
LEMMA SeesCall ==
  ASSUME Before, After, NEW t \in Threads, NEW o \in Program[t], Call(t, o)
  PROVE  Connections!Next
<1> USE DEF Before, ConnectionInv
<1>1. /\ pc[t] = "idle" /\ op'[t] = o /\ next'[t] = next[t]
      /\ pc'[t] # "idle"
  BY DEF Call, TypeOK
<1>2. /\ \A u \in Threads : u # t => pc'[u] = pc[u] /\ op'[u] = op[u] /\ next'[u] = next[u]
  BY OthersKept
<1>3. next[t] = 1
  BY <1>1 DEF QuietInv, ThreadOK
<1>4. ~Closing(t) /\ (Closing(t)' <=> o.kind = "close")
  BY <1>1 DEF Closing
<1>5. Begins(t, o)
  <2>1. Doing[t] = {}
    BY <1>1 DEF Doing
  <2>2. ASSUME NEW u \in Threads, NEW p \in Doing[u] PROVE p.kind # "close"
    <3>1. ~Closing(u)
      BY <1>4, OnlyCloser DEF SomeoneCloses
    <3>2. QED
      BY <2>2, <3>1 DEF Doing, Closing
  <2>3. Doing' = [Doing EXCEPT ![t] = {o}]
    BY <1>1, <1>2 DEF Doing
  <2>4. {AllSocketTypes[i] : i \in 1..Len(AllSocketTypes)} = SocketTypes
    <3>1. SocketTypes = {AllSocketTypes[1], AllSocketTypes[2], AllSocketTypes[3], AllSocketTypes[4]}
      BY DEF SocketTypes, AllSocketTypes
    <3>2. QED
      BY <3>1, AllTypes
  <2>5. Unset' = [Unset EXCEPT ![t] = IF o.kind = "toggleIPV6" THEN SocketTypes ELSE {}]
    BY <1>1, <1>2, <1>3, <2>4 DEF Unset
  <2>6. QED
    BY <2>1, <2>2, <2>3, <2>5 DEF Begins
<1>6. CASE o.kind # "close"
  <2>1. UNCHANGED IPV6
    BY <1>1, <1>4, <1>6, CalmSettings DEF ToggleIPV6Support, CloseOne, Working
  <2>2. UNCHANGED Attachments
    BY <1>1, CalmAttachments DEF DoBindOrConnect, CloseOne, Working
  <2>3. UNCHANGED Subscriptions
    BY <1>1, CalmSubscriptions DEF AddSubscriberMessageFilter, RemoveSubscriberMessageFilter,
       CloseClearFilters, CloseOne, Working
  <2>4. UNCHANGED <<Attached, Subscribed>>
    BY <1>4, <1>6, <2>2, <2>3, CalmStep DEF SeesItself
  <2>5. QED
    BY <1>5, <1>6, <2>1, <2>4, ServiceCalls
<1>7. CASE o.kind = "close"
  <2>1. \A u \in Threads : Doing[u] = {}
    BY <1>7 DEF Call, Doing
  <2>2. SomeoneCloses'
    BY <1>4, <1>7 DEF SomeoneCloses
  <2>3. Attached' = [st \in SocketTypes |-> {}] /\ Subscribed' = {} /\ IPV6' = [st \in SocketTypes |-> FALSE]
    BY <2>2 DEF After, SeesRegistry
  <2>4. QED
    BY <1>5, <1>7, <2>1, <2>3, ServiceCloses
<1>8. QED
  BY <1>6, <1>7

(* The heartbeat that finds no bind returns, other looks change nothing.    *)
LEMMA SeesHasBinds ==
  ASSUME Before, After, NEW t \in Threads, HasBindsOrConnections(t)
  PROVE  Connections!Next \/ UNCHANGED Connections!vars
<1> USE DEF Before, ConnectionInv
<1>1. Step(t) /\ pc[t] = "check" /\ op[t].kind = "heartbeat"
  BY DEF Step, HasBindsOrConnections, ClearInv
<1>2. ~Closing(t) /\ UNCHANGED <<Attachments, Subscriptions>>
  BY <1>1, WorkingCalm, CalmAttachments, CalmSubscriptions DEF DoBindOrConnect,
     AddSubscriberMessageFilter, RemoveSubscriberMessageFilter, CloseClearFilters, CloseOne, Working
<1>3. CASE list["Publisher"] # {}
  <2>1. pc'[t] = "get" /\ op' = op /\ next' = next /\ UNCHANGED regVars
    BY <1>3 DEF HasBindsOrConnections, Goto, TypeOK
  <2>2. ~Closing(t)'
    BY <1>2, <2>1, <1>1 DEF Closing
  <2>3. UNCHANGED IPV6
    BY <1>1, <1>2, <2>2, CalmSettings DEF ToggleIPV6Support, CloseOne, Working
  <2>4. UNCHANGED <<Attached, Subscribed>>
    BY <1>1, <1>2, <2>1, <2>2, CalmStep DEF SeesItself
  <2>5. UNCHANGED <<Doing, Unset>>
    BY <1>1, <2>1, GoesOn
  <2>6. QED
    BY <2>3, <2>4, <2>5, ServiceStutters DEF viewVars
<1>4. CASE list["Publisher"] = {}
  <2>1. Return(t) /\ UNCHANGED regVars
    BY <1>4 DEF HasBindsOrConnections
  <2>2. Ends(t) /\ pc'[t] = "idle"
    BY <1>1, <2>1, ReturnEnds
  <2>3. ~Closing(t)'
    BY <2>2 DEF Closing
  <2>4. UNCHANGED IPV6
    BY <1>1, <1>2, <2>3, CalmSettings DEF ToggleIPV6Support, CloseOne, Working
  <2>5. UNCHANGED <<Attached, Subscribed>>
    BY <1>1, <1>2, <2>1, <2>3, CalmStep DEF SeesItself
  <2>6. op[t] \in Doing[t]
    BY <1>1, DoesOperation
  <2>7. QED
    BY <1>1, <2>2, <2>4, <2>5, <2>6, ServiceReturns
<1>5. QED
  BY <1>3, <1>4

(* Nobody sees that a socket is created, or its pointer fetched.            *)
LEMMA SeesZMQSocket ==
  ASSUME Before, After, NEW t \in Threads, ZMQSocket(t)
  PROVE  UNCHANGED Connections!vars
<1> USE DEF Before, ConnectionInv
<1>1. Step(t) /\ pc[t] \in {"get", "getSub"} /\ UNCHANGED <<op, next, list, filters>>
  BY DEF Step, ZMQSocket, Goto
<1>2. pc'[t] = IF pc[t] = "get" THEN "use" ELSE "clear"
  BY DEF ZMQSocket, Goto, TypeOK
<1>3. Closing(t)' <=> Closing(t)
  BY <1>1, <1>2 DEF Closing
<1>4. UNCHANGED <<Doing, Unset>>
  BY <1>1, <1>2, GoesOn
<1>5. CASE Closing(t)
  BY <1>1, <1>3, <1>4, <1>5, ClosingHidden, ServiceStutters DEF viewVars
<1>6. CASE ~Closing(t)
  <2>1. UNCHANGED IPV6
    BY <1>1, <1>3, <1>6, CalmSettings DEF ToggleIPV6Support, CloseOne, Working
  <2>2. UNCHANGED <<Attachments, Subscriptions>>
    BY <1>1, CalmAttachments, CalmSubscriptions DEF DoBindOrConnect, AddSubscriberMessageFilter,
       RemoveSubscriberMessageFilter, CloseClearFilters, CloseOne, Working
  <2>3. UNCHANGED <<Attached, Subscribed>>
    BY <1>1, <1>3, <1>6, <2>2, CalmStep DEF SeesItself
  <2>4. QED
    BY <1>4, <2>1, <2>3, ServiceStutters DEF viewVars
<1>7. QED
  BY <1>5, <1>6

(* What the steps at the socket have in common.                             *)
LEMMA WorkingStep ==
  ASSUME Before, After, NEW t \in Threads, Step(t), pc[t] = "use", Return(t)
  PROVE  /\ op[t] \in Doing[t] /\ Ends(t)
         /\ Attached = Attachments /\ Subscribed = Subscriptions
         /\ Attached' = Attachments' /\ Subscribed' = Subscriptions'
         /\ ~ToggleIPV6Support(t) => UNCHANGED IPV6
         /\ ~DoBindOrConnect(t) => UNCHANGED Attached
         /\ op[t].kind \notin {"addFilter", "removeFilter"} => UNCHANGED Subscribed
<1> USE DEF Before, ConnectionInv
<1>1. ~Closing(t)
  BY WorkingCalm
<1>2. Ends(t) /\ ~Closing(t)'
  BY ReturnEnds DEF Closing
<1>3. op[t] \in Doing[t]
  BY DoesOperation
<1>4. ~ToggleIPV6Support(t) => UNCHANGED IPV6
  BY <1>1, <1>2, CalmSettings DEF CloseOne
<1>5. ~DoBindOrConnect(t) => UNCHANGED Attachments
  BY CalmAttachments DEF CloseOne
<1>6. op[t].kind \notin {"addFilter", "removeFilter"} => UNCHANGED Subscriptions
  BY CalmSubscriptions DEF AddSubscriberMessageFilter, RemoveSubscriberMessageFilter,
     CloseClearFilters, CloseOne, Working
<1>7. QED
  BY <1>1, <1>2, <1>3, <1>4, <1>5, <1>6, CalmStep DEF SeesItself

(* A bind or connection takes effect as a whole or is refused.              *)
LEMMA SeesAttach ==
  ASSUME Before, After, NEW t \in Threads, DoBindOrConnect(t)
  PROVE  Connections!Next
<1> USE DEF Before, ConnectionInv
<1>1. Working(t, "attach") /\ pc[t] = "use" /\ op[t].kind = "attach" /\ Step(t) /\ Return(t)
      /\ ~ToggleIPV6Support(t)
  BY DEF DoBindOrConnect, Working, Step, ToggleIPV6Support
<1>2. /\ op[t] \in Doing[t] /\ Ends(t)
      /\ Attached = Attachments /\ Attached' = Attachments'
      /\ UNCHANGED <<Subscribed, IPV6>>
  BY <1>1, WorkingStep
<1>3. CanAttach(t) <=> ~(op[t].st \in Binding /\ \E st \in Binding : op[t].arg \in Attachments[st])
  BY <1>1, AttachPossible
<1>4. CASE ~CanAttach(t)
  <2>1. UNCHANGED Attachments
    BY <1>4 DEF DoBindOrConnect, Attachments, AttachedTo
  <2>2. QED
    BY <1>1, <1>2, <1>3, <1>4, <2>1, ServiceAttaches
<1>5. ASSUME CanAttach(t), NEW st, NEW e, st = op[t].st, e = op[t].arg
      PROVE  Connections!Next
  <2>1. op[t] \in Operations /\ e \in Endpoints /\ st \in SocketTypes
    BY <1>1, <1>5, OperationTypes DEF TypeOK
  <2>2. ptr[t] = socket[st] /\ ptr[t] # NoSocket
    BY <1>1, <1>5, TypeCases DEF QuietInv, ThreadOK
  <2>3. /\ zmq' = [zmq EXCEPT ![socket[st]].endpoints = @ \cup {<<st, e>>}]
        /\ list' = [list EXCEPT ![st] = @ \cup ({e} \ LongEndpoints)] /\ UNCHANGED <<socket, filters>>
    BY <1>5, <2>2 DEF DoBindOrConnect
  <2>4. /\ AttachedTo(st)' = AttachedTo(st) \cup {<<st, e>>}
        /\ \A s \in SocketTypes : s # st => AttachedTo(s)' = AttachedTo(s)
    BY <2>1, <2>2, <2>3, AttachMatch
  <2>5. Attachments' = [Attachments EXCEPT ![st] = Attachments[st] \cup {e}]
    <3>1. Attachments' = [s \in SocketTypes |-> {x \in Endpoints : <<s, x>> \in AttachedTo(s)'}]
      BY DEF Attachments
    <3>2. {x \in Endpoints : <<st, x>> \in AttachedTo(st)'} = Attachments[st] \cup {e}
      <4>1. {x \in Endpoints : <<st, x>> \in AttachedTo(st)'}
              = {x \in Endpoints : <<st, x>> \in AttachedTo(st)} \cup {e}
        BY <2>1, <2>4
      <4>2. QED
        BY <2>1, <4>1 DEF Attachments
    <3>3. ASSUME NEW s \in SocketTypes, s # st
          PROVE  {x \in Endpoints : <<s, x>> \in AttachedTo(s)'} = Attachments[s]
      BY <2>4, <3>3 DEF Attachments
    <3>4. Attachments = [s \in SocketTypes |-> Attachments[s]]
      BY DEF Attachments
    <3>5. QED
      BY <2>1, <3>1, <3>2, <3>3, <3>4
  <2>6. QED
    BY <1>1, <1>2, <1>3, <1>5, <2>5, ServiceAttaches
<1>6. QED
  BY <1>4, <1>5

(* A send or receive ends.                                                  *)
LEMMA SeesTransfer ==
  ASSUME Before, After, NEW t \in Threads, Transfer(t)
  PROVE  Connections!Next
<1>1. pc[t] = "use" /\ op[t].kind \in {"transfer", "heartbeat"} /\ Step(t) /\ Return(t)
      /\ ~ToggleIPV6Support(t) /\ ~DoBindOrConnect(t)
  BY DEF Transfer, Working, Step, ToggleIPV6Support, DoBindOrConnect
<1>2. QED
  BY <1>1, WorkingStep, ServiceReturns

(* A filter operation finds a subscriber socket.                            *)
LEMMA FilterPossible ==
  ASSUME TypeOK, RegistryOwnsSockets, QuietInv, NEW t \in Threads,
         \/ pc[t] = "use" /\ op[t].kind \in {"addFilter", "removeFilter"}
         \/ pc[t] = "clear"
  PROVE  CanSubscribe(t)
<1>1. op[t] \in Operations
  BY DEF TypeOK
<1>2. Type(t) = "Subscriber"
  <2>1. CASE pc[t] = "clear"
    <3>1. op[t].kind = "close"
      BY <2>1 DEF QuietInv, ThreadOK, ClosePCs, Closing
    <3>2. QED
      BY <2>1, <3>1, TypeCases
  <2>2. CASE pc[t] = "use" /\ op[t].kind \in {"addFilter", "removeFilter"}
    <3>1. op[t].st = "Subscriber"
      BY <1>1, <2>2 DEF Operations
    <3>2. QED
      BY <2>2, <3>1, TypeCases
  <2>3. QED
    BY <2>1, <2>2
<1>3. ptr[t] = socket["Subscriber"] /\ socket["Subscriber"] # NoSocket
  BY <1>2 DEF QuietInv, ThreadOK
<1>4. "Subscriber" \in SocketTypes
  BY DEF SocketTypes
<1>5. QED
  BY <1>3, <1>4, OwnSocket DEF CanSubscribe, Usable

(* What is known of the filters when an operation is at work on them.       *)
LEMMA FiltersAtWork ==
  ASSUME ConnectionInv, NEW t \in Threads, pc[t] = "use", op[t].kind \in {"addFilter", "removeFilter"}
  PROVE  /\ CanSubscribe(t) /\ ptr[t] = socket["Subscriber"] /\ socket["Subscriber"] # NoSocket
         /\ Subscriptions = zmq[ptr[t]].subs /\ Subscriptions \subseteq filters /\ filters \subseteq Filters
         /\ ~FiltersRefusable => Subscriptions = filters /\ RemovalsSucceed /\ ~MayRefuse(t)
<1> USE DEF ConnectionInv
<1>1. CanSubscribe(t)
  BY FilterPossible
<1>2. op[t].st = "Subscriber"
  BY DEF TypeOK, Operations
<1>3. ptr[t] = socket["Subscriber"] /\ socket["Subscriber"] # NoSocket
  BY <1>2, TypeCases DEF QuietInv, ThreadOK
<1>4. ~FiltersRefusable => RemovalsSucceed /\ ~MayRefuse(t)
  BY DEF FiltersRefusable, RemovalsSucceed, SettingsSucceed, MayRefuse
<1>5. QED
  BY <1>1, <1>3, <1>4 DEF Subscriptions, QuietInv, FiltersMatchSocket, TypeOK

(* Filters are added, or refused.                                           *)
LEMMA SeesAddFilter ==
  ASSUME Before, After, NEW t \in Threads, AddSubscriberMessageFilter(t)
  PROVE  Connections!Next
<1> USE DEF Before, ConnectionInv
<1>1. pc[t] = "use" /\ op[t].kind = "addFilter" /\ Step(t) /\ Return(t)
      /\ ~ToggleIPV6Support(t) /\ ~DoBindOrConnect(t) /\ UNCHANGED <<socket, list>>
  BY DEF AddSubscriberMessageFilter, Working, Step, ToggleIPV6Support, DoBindOrConnect
<1>2. /\ CanSubscribe(t) /\ ptr[t] = socket["Subscriber"] /\ socket["Subscriber"] # NoSocket
      /\ Subscriptions = zmq[ptr[t]].subs /\ Subscriptions \subseteq filters /\ filters \subseteq Filters
      /\ ~FiltersRefusable => Subscriptions = filters /\ RemovalsSucceed /\ ~MayRefuse(t)
  BY <1>1, FiltersAtWork
<1>3. op[t].arg \in Filters
  BY <1>1, OperationTypes DEF TypeOK
<1>4. CASE UNCHANGED <<zmq, filters>>
  <2>1. UNCHANGED Subscriptions
    BY <1>1, <1>4 DEF Subscriptions
  <2>2. FiltersRefusable \/ op[t].arg \in Subscriptions
    BY <1>2, <1>4 DEF AddSubscriberMessageFilter
  <2>3. QED
    BY <1>1, <2>1, <2>2, WorkingStep, ServiceAddsFilter
<1>5. CASE /\ zmq' = [zmq EXCEPT ![ptr[t]].subs = @ \cup {op[t].arg}]
           /\ filters' = filters \cup {op[t].arg} /\ op[t].arg \notin filters
  <2>1. Subscriptions' = Subscriptions \cup {op[t].arg}
    <3>1. ptr[t] \in Handles /\ zmq[ptr[t]] \in ZmqSockets
      BY <1>2, OwnSocket DEF TypeOK, SocketTypes
    <3>2. zmq'[ptr[t]].subs = zmq[ptr[t]].subs \cup {op[t].arg}
      BY <1>5, <3>1 DEF TypeOK, ZmqSockets
    <3>3. QED
      BY <1>1, <1>2, <3>2 DEF Subscriptions
  <2>2. QED
    BY <1>1, <2>1, WorkingStep, ServiceAddsFilter
<1>6. QED
  BY <1>4, <1>5 DEF AddSubscriberMessageFilter

(* Filters are removed, or some of them, or none.                           *)
LEMMA SeesRemoveFilter ==
  ASSUME Before, After, NEW t \in Threads, RemoveSubscriberMessageFilter(t)
  PROVE  Connections!Next
<1> USE DEF Before, ConnectionInv
<1>1. pc[t] = "use" /\ op[t].kind = "removeFilter" /\ Step(t) /\ Return(t)
      /\ ~ToggleIPV6Support(t) /\ ~DoBindOrConnect(t) /\ UNCHANGED <<socket, list>>
  BY DEF RemoveSubscriberMessageFilter, Working, Step, ToggleIPV6Support, DoBindOrConnect
<1>2. /\ CanSubscribe(t) /\ ptr[t] = socket["Subscriber"] /\ socket["Subscriber"] # NoSocket
      /\ Subscriptions = zmq[ptr[t]].subs /\ Subscriptions \subseteq filters /\ filters \subseteq Filters
      /\ ~FiltersRefusable => Subscriptions = filters /\ RemovalsSucceed /\ ~MayRefuse(t)
  BY <1>1, FiltersAtWork
<1> DEFINE fs == IF op[t].arg = Nothing THEN filters ELSE {op[t].arg} \cap filters
           gone == IF op[t].arg = Nothing THEN Subscriptions ELSE {op[t].arg}
<1>3. ASSUME NEW some \in SUBSET fs, zmq' = [zmq EXCEPT ![ptr[t]].subs = @ \ some]
      PROVE  Subscriptions' = Subscriptions \ some
  <2>1. ptr[t] \in Handles /\ zmq[ptr[t]] \in ZmqSockets
    BY <1>2, OwnSocket DEF TypeOK, SocketTypes
  <2>2. zmq'[ptr[t]].subs = zmq[ptr[t]].subs \ some
    BY <1>3, <2>1 DEF TypeOK, ZmqSockets
  <2>3. QED
    BY <1>1, <1>2, <2>2 DEF Subscriptions
<1>4. ASSUME NEW some \in SUBSET fs, some # fs => FiltersRefusable,
             Subscriptions' = Subscriptions \ some
      PROVE  Connections!Next
  <2> DEFINE kept == (gone \cap Subscriptions) \ some
  <2>1. kept \in SUBSET (gone \cap Subscriptions)
    OBVIOUS
  <2>2. kept # {} => FiltersRefusable
    BY <1>2, <1>4
  <2>3. Subscriptions' = (Subscriptions \ gone) \cup kept
    BY <1>2, <1>4
  <2>4. \E k \in SUBSET (gone \cap Subscriptions) :
          (k # {} => FiltersRefusable) /\ Subscriptions' = (Subscriptions \ gone) \cup k
    BY <2>1, <2>2, <2>3
  <2>5. QED
    BY <1>1, <2>4, WorkingStep, ServiceRemovesFilter
<1>5. CASE Unsubscribe(t, fs)
  BY <1>3, <1>4, <1>5 DEF Unsubscribe
<1>6. CASE UnsubscribeFails(t, fs)
  <2>1. PICK some \in SUBSET fs : zmq' = [zmq EXCEPT ![ptr[t]].subs = @ \ some]
    BY <1>2, <1>6 DEF UnsubscribeFails
  <2>2. FiltersRefusable
    BY <1>2, <1>6 DEF UnsubscribeFails
  <2>3. QED
    BY <1>3, <1>4, <2>1, <2>2
<1>7. CASE fs = {} /\ UNCHANGED <<zmq, filters>>
  <2>1. Subscriptions' = Subscriptions
    BY <1>1, <1>7 DEF Subscriptions
  <2>2. QED
    BY <1>4, <1>7, <2>1
<1>8. QED
  BY <1>5, <1>6, <1>7 DEF RemoveSubscriberMessageFilter

(* The loops visit every socket type once.                                  *)
LEMMA TypesDiffer ==
  \A i, j \in 1..4 : AllSocketTypes[i] = AllSocketTypes[j] => i = j
  BY DEF AllSocketTypes

(* One round of the toggle sets one socket that was not set yet.            *)
LEMMA SeesToggle ==
  ASSUME Before, After, NEW t \in Threads, ToggleIPV6Support(t)
  PROVE  Connections!Next
<1> USE DEF Before, ConnectionInv
<1> DEFINE n == next[t]
           st == AllSocketTypes[n]
           v == op[t].arg
<1>1. pc[t] = "use" /\ op[t].kind = "toggleIPV6" /\ Step(t) /\ UNCHANGED <<socket, list, filters>>
  BY DEF ToggleIPV6Support, Working, Step
<1>2. n \in 1..4 /\ st \in SocketTypes /\ Type(t) = st
  BY <1>1, AllTypes, TypeCases DEF TypeOK
<1>3. ptr[t] = socket[st] /\ ptr[t] # NoSocket
  BY <1>1, <1>2 DEF QuietInv, ThreadOK
<1>4. ptr[t] \in Handles /\ zmq[ptr[t]].open
  BY <1>2, <1>3, OwnSocket
<1>5. zmq' = [zmq EXCEPT ![ptr[t]].ipv6 = v] /\ NextType(t, "get")
  BY <1>1, <1>4 DEF ToggleIPV6Support, Usable, MayRefuse, SettingsSucceed
<1>6. /\ op[t] \in Doing[t]
      /\ Unset[t] = {AllSocketTypes[i] : i \in n..4}
  BY <1>1, AllTypes DEF Doing, Unset
<1>7. /\ zmq'[ptr[t]].ipv6 = v
      /\ \A h \in Handles : h # ptr[t] => zmq'[h] = zmq[h]
  <2>1. zmq[ptr[t]] \in ZmqSockets
    BY <1>4 DEF TypeOK
  <2>2. QED
    BY <1>4, <1>5, <2>1 DEF TypeOK, ZmqSockets
<1>8. ~Closing(t)
  BY <1>1, WorkingCalm
<1>9. ~Closing(t)'
  <2>1. CASE n < 4
    BY <1>1, <1>5, <2>1, AllTypes DEF NextType, Closing
  <2>2. CASE ~(n < 4)
    BY <1>1, <1>5, <2>2, AllTypes, ReturnEnds DEF NextType, Closing
  <2>3. QED
    BY <2>1, <2>2
<1>10. SeesItself /\ SeesItself' /\ UNCHANGED <<Attached, Subscribed>>
  <2>1. UNCHANGED <<Attachments, Subscriptions>>
    BY <1>1, CalmAttachments, CalmSubscriptions DEF DoBindOrConnect, AddSubscriberMessageFilter,
       RemoveSubscriberMessageFilter, CloseClearFilters, CloseOne, Working
  <2>2. QED
    BY <1>1, <1>8, <1>9, <2>1, CalmStep DEF SeesItself
<1>11. ASSUME NEW s \in SocketTypes PROVE Setting(s)' = IF s = st THEN v ELSE Setting(s)
  <2>1. CASE s = st
    BY <1>1, <1>3, <1>7, <2>1 DEF Setting
  <2>2. CASE s # st
    <3>1. socket[s] # NoSocket => socket[s] \in Handles /\ socket[s] # ptr[t]
      BY <1>2, <1>3, <2>2, OwnSocket
    <3>2. QED
      BY <1>1, <1>7, <2>2, <3>1 DEF Setting
  <2>3. QED
    BY <2>1, <2>2
<1>12. IPV6' = [IPV6 EXCEPT ![st] = v]
  <2>1. IPV6 = [s \in SocketTypes |-> Setting(s)] /\ IPV6' = [s \in SocketTypes |-> Setting(s)']
    BY <1>10 DEF SeesItself
  <2>2. QED
    BY <1>2, <1>11, <2>1
<1>13. CASE n < 4
  <2>1. /\ next' = [next EXCEPT ![t] = n + 1] /\ pc' = [pc EXCEPT ![t] = "get"] /\ op' = op
    BY <1>5, <1>13, AllTypes DEF NextType
  <2>2. next'[t] = n + 1 /\ pc'[t] = "get"
    BY <2>1 DEF TypeOK
  <2>3. \A u \in Threads : u # t => pc'[u] = pc[u] /\ next'[u] = next[u]
    BY <2>1 DEF TypeOK
  <2>4. Doing' = Doing
    BY <1>1, <2>1, <2>2, <2>3 DEF Doing
  <2>5. {AllSocketTypes[i] : i \in n + 1..4} = Unset[t] \ {st}
    BY <1>2, <1>6, TypesDiffer
  <2>6. Unset' = [Unset EXCEPT ![t] = Unset[t] \ {st}]
    <3>1. Unset' = [u \in Threads |-> IF u = t THEN {AllSocketTypes[i] : i \in n + 1..4} ELSE Unset[u]]
      BY <1>1, <2>1, <2>2, <2>3, AllTypes DEF Unset
    <3>2. QED
      BY <2>5, <3>1 DEF Unset
  <2>7. Unset[t] # {st} /\ st \in Unset[t]
    <3>1. AllSocketTypes[4] \in Unset[t] /\ AllSocketTypes[n] \in Unset[t]
      BY <1>2, <1>6
    <3>2. AllSocketTypes[4] # AllSocketTypes[n]
      BY <1>2, <1>13, TypesDiffer
    <3>3. QED
      BY <3>1, <3>2
  <2>8. QED
    BY <1>1, <1>2, <1>6, <1>10, <1>12, <2>4, <2>6, <2>7, ServiceSets
<1>14. CASE ~(n < 4)
  <2>1. Ends(t)
    BY <1>1, <1>5, <1>14, AllTypes, ReturnEnds DEF NextType
  <2>2. Unset[t] = {st}
    BY <1>2, <1>6, <1>14
  <2>3. QED
    BY <1>1, <1>2, <1>6, <1>10, <1>12, <2>1, <2>2, ServiceSets
<1>15. QED
  BY <1>13, <1>14

(* Nobody sees what CloseConnections does before the last socket is closed. *)
LEMMA SeesCloseHidden ==
  ASSUME Before, After, NEW t \in Threads,
         CloseHasSub(t) \/ CloseClearFilters(t) \/ (CloseOne(t) /\ next[t] < 4)
  PROVE  UNCHANGED Connections!vars
<1> USE DEF Before, ConnectionInv
<1>1. Step(t) /\ pc[t] \in {"hasSub", "clear", "closeOne"}
  BY DEF Step, CloseHasSub, CloseClearFilters, CloseOne
<1>2. Closing(t) /\ op[t].kind = "close" /\ pc[t] # "idle"
  BY <1>1 DEF QuietInv, ThreadOK, ClosePCs, Closing
<1>3. op' = op /\ pc'[t] # "idle"
  <2>1. CASE CloseHasSub(t)
    BY <2>1 DEF CloseHasSub, Goto, TypeOK
  <2>2. CASE CloseClearFilters(t)
    <3>1. CanSubscribe(t)
      BY <2>2, FilterPossible DEF CloseClearFilters
    <3>2. QED
      BY <1>2, <2>2, <3>1 DEF CloseClearFilters, UnsubscribeFails, MayRefuse, SettingsSucceed, Goto, TypeOK
  <2>3. CASE CloseOne(t) /\ next[t] < 4
    BY <2>3, AllTypes DEF CloseOne, NextType, TypeOK
  <2>4. QED
    BY <2>1, <2>2, <2>3
<1>4. Closing(t)'
  BY <1>2, <1>3 DEF Closing
<1>5. UNCHANGED <<Attached, Subscribed, IPV6>>
  BY <1>1, <1>2, <1>4, ClosingHidden
<1>6. UNCHANGED <<Doing, Unset>>
  BY <1>1, <1>2, <1>3, GoesOn
<1>7. QED
  BY <1>5, <1>6, ServiceStutters DEF viewVars

(* After the last socket is closed, callers see again what there is:        *)
(* nothing.                                                                 *)
LEMMA SeesCloseEnd ==
  ASSUME Before, After, NEW t \in Threads, CloseOne(t), ~(next[t] < 4)
  PROVE  Connections!Next
<1> USE DEF Before, ConnectionInv
<1>1. Step(t) /\ pc[t] = "closeOne" /\ UNCHANGED filters
  BY DEF Step, CloseOne
<1>2. Closing(t) /\ op[t].kind = "close" /\ pc[t] # "idle" /\ filters = {}
  BY <1>1 DEF QuietInv, ThreadOK, ClosePCs, Closing
<1>3. next[t] = 4 /\ Return(t)
  BY AllTypes DEF CloseOne, NextType, TypeOK
<1>4. Ends(t) /\ ~Closing(t)'
  BY <1>1, <1>3, ReturnEnds DEF Closing
<1>5. /\ Type(t) = AllSocketTypes[4]
      /\ \A j \in 1..3 : socket[AllSocketTypes[j]] = NoSocket
  BY <1>1, <1>3, TypeCases DEF QuietInv, ThreadOK
<1>6. ASSUME NEW s \in SocketTypes PROVE socket'[s] = NoSocket
  <2>1. s \in {AllSocketTypes[1], AllSocketTypes[2], AllSocketTypes[3], AllSocketTypes[4]}
    BY DEF SocketTypes, AllSocketTypes
  <2>2. socket[s] = NoSocket \/ s = Type(t)
    BY <1>5, <2>1
  <2>3. CloseSocket(Type(t)) /\ Type(t) \in SocketTypes
    BY TypeType DEF CloseOne
  <2>4. QED
    BY <2>2, <2>3 DEF CloseSocket, TypeOK
<1>7. SomeoneCloses /\ ~SomeoneCloses'
  BY <1>1, <1>2, <1>4, OnlyCloser
<1>8. /\ Attached = [s \in SocketTypes |-> {}] /\ Subscribed = {}
      /\ IPV6 = [s \in SocketTypes |-> FALSE]
  BY <1>7 DEF SeesRegistry
<1>9. SeesItself'
  BY <1>7, CalmViewAfter DEF After
<1>10. Attached' = [s \in SocketTypes |-> {}]
  <2>1. Attached' = Attachments'
    BY <1>9 DEF SeesItself
  <2>2. QED
    BY <1>6, <2>1 DEF Attachments, AttachedTo
<1>11. IPV6' = [s \in SocketTypes |-> FALSE]
  <2>1. IPV6' = [s \in SocketTypes |-> Setting(s)']
    BY <1>9 DEF SeesItself
  <2>2. \A s \in SocketTypes : Setting(s)' = FALSE
    BY <1>6 DEF Setting
  <2>3. QED
    BY <2>1, <2>2
<1>12. Subscribed' = {}
  BY <1>6, <1>9 DEF SeesItself, Subscriptions, SocketTypes
<1>13. op[t] \in Doing[t]
  BY <1>2, DoesOperation
<1>14. QED
  BY <1>2, <1>4, <1>8, <1>10, <1>11, <1>12, <1>13, ServiceReturns

(* Every step of the registry is a step of the connection service, or none. *)
LEMMA SeesStep ==
  Before /\ After /\ [Next]_vars => [Connections!Next]_(Connections!vars)
<1> SUFFICES ASSUME Before, After, [Next]_vars
             PROVE  Connections!Next \/ UNCHANGED Connections!vars
  OBVIOUS
<1>1. CASE UNCHANGED vars
  <2>1. UNCHANGED viewVars
    BY <1>1 DEF vars, viewVars, Attached, Subscribed, IPV6, Doing, Unset, View, Closing
  <2>2. QED
    BY <2>1, ServiceStutters
<1>2. ASSUME NEW t \in Threads, Step(t) PROVE Connections!Next \/ UNCHANGED Connections!vars
  BY <1>2, SeesHasBinds, SeesZMQSocket, SeesAttach, SeesTransfer, SeesAddFilter, SeesRemoveFilter,
     SeesToggle, SeesCloseHidden, SeesCloseEnd DEF Step
<1>3. ASSUME NEW t \in Threads, NEW o \in Program[t], Call(t, o) PROVE Connections!Next
  BY <1>3, SeesCall
<1>4. QED
  BY <1>1, <1>2, <1>3 DEF Next

(* If no operation overlaps a close, and no socket refuses the IPv6 setting *)
(* or to unsubscribe for a close, the registry implements the connection    *)
(* service: every operation takes effect at one moment and on the socket it *)
(* was meant for, a close at its call on all of them, although each is      *)
(* several critical sections, and filter operations may be refused          *)
(* (SocketWithMutex.h:6, GlobalData.cpp:92-210, 318-377).                   *)
THEOREM QuiescentImplementsConnections ==
  ASSUME QuiescentClose, Refusable \subseteq {"addFilter", "removeFilter"}
  PROVE  Spec => ImplementsConnections
<1> DEFINE Inv == TypeOK /\ RegistryOwnsSockets /\ QuietInv
<1>1. Spec => []Inv
  BY QuietInvariance
<1>2. Init => ClearInv
  BY DEF Init, ClearInv, Closed, Opened
<1>3. Inv /\ ClearInv /\ [Next]_vars => ClearInv'
  BY ClearStep
<1> SettingsSucceed
  BY DEF SettingsSucceed
<1>4. Inv /\ ClearInv => Before
  BY ViewOfRegistry DEF Before, ConnectionInv
<1>5. Inv' /\ ClearInv' => After
  <2>1. Inv /\ ClearInv => TypeOK /\ SeesRegistry
    BY ViewOfRegistry DEF ConnectionInv
  <2>2. Inv' /\ ClearInv' => TypeOK' /\ SeesRegistry'
    BY <2>1, PTL
  <2>3. QED
    BY <2>2 DEF After
<1>6. Init => Connections!Init
  <2> SUFFICES ASSUME Init PROVE Connections!Init
    OBVIOUS
  <2>1. \A t \in Threads : pc[t] = "idle"
    BY DEF Init
  <2>2. \A st \in SocketTypes : View(st) = Opened(st)
    BY DEF Init, View
  <2>3. \A st : Opened(st).endpoints = {} /\ Opened(st).subs = {} /\ Opened(st).ipv6 = FALSE
    BY DEF Opened
  <2>4. /\ Attached = [st \in SocketTypes |-> {}] /\ IPV6 = [st \in SocketTypes |-> FALSE]
        /\ Subscribed = {}
    BY <2>2, <2>3 DEF Attached, IPV6, Subscribed, SocketTypes
  <2>5. Doing = [t \in Threads |-> {}] /\ Unset = [t \in Threads |-> {}]
    BY <2>1 DEF Doing, Unset
  <2>6. QED
    BY <2>4, <2>5, Zenon DEF Connections!Init, Connections!NoConnections, Attached, IPV6, Subscribed,
       Doing, Unset
<1>7. QED
  BY <1>1, <1>2, <1>3, <1>4, <1>5, <1>6, SeesStep, PTL
     DEF Spec, ImplementsConnections, Connections!Spec
=============================================================================
