------------------------------- MODULE Sockets -------------------------------
(***************************************************************************)
(* The socket registry of the XOP (src/src/GlobalData.cpp): one lazily      *)
(* created ZeroMQ socket per socket type, the endpoints it is bound or      *)
(* connected to, and the subscriber's message filters.  Every XOP function  *)
(* and the heartbeat thread reach a socket with GET_SOCKET, which fetches   *)
(* the pointer under the socket's mutex, releases the mutex, and takes it   *)
(* again for the duration of the operation (SocketWithMutex.h:6).           *)
(*                                                                          *)
(* One action is one critical section of that mutex, so the mutexes need no *)
(* variable.  Handles are the addresses the library hands out; the address  *)
(* of a closed socket may be handed out again.                              *)
(***************************************************************************)
EXTENDS Naturals, Sequences, FiniteSets

CONSTANTS
  Threads,    \* callers: the main thread, preemptive threads, the heartbeat
  Program,    \* Program[t]: the operations thread t may perform
  Handles,    \* addresses of ZeroMQ sockets
  NoSocket,   \* nullptr
  Endpoints,  \* endpoints to bind or connect to
  Filters,    \* message filters other than the empty string
  Nothing,    \* no argument; for removeFilter the empty string: all filters
  LongEndpoints,   \* endpoints longer than the buffer of GetLastEndPoint
  QuiescentClose,  \* do the callers take care that no operation overlaps a close?
  Refusable        \* kinds of operations for which zmq_setsockopt may refuse
                   \* an option of an open socket of the right type

SocketTypes == {"Client", "Subscriber", "Publisher", "Server"}
AllSocketTypes == <<"Client", "Subscriber", "Publisher", "Server">>
Binding == {"Publisher", "Server"}   \* the others connect

\* attach: bind or connect; transfer: send or receive; heartbeat: a send if
\* there is a publisher bind; toggleIPV6: an option of all sockets;
\* close: CloseConnections
Operations ==
       [kind : {"attach"}, st : SocketTypes, arg : Endpoints]
  \cup [kind : {"transfer"}, st : SocketTypes, arg : {Nothing}]
  \cup [kind : {"heartbeat"}, st : {"Publisher"}, arg : {Nothing}]
  \cup [kind : {"addFilter"}, st : {"Subscriber"}, arg : Filters]
  \cup [kind : {"removeFilter"}, st : {"Subscriber"}, arg : Filters \cup {Nothing}]
  \cup [kind : {"toggleIPV6"}, st : {"Client"}, arg : BOOLEAN]
  \cup [kind : {"close"}, st : {"Client"}, arg : {Nothing}]

\* the kinds of operations that set options
OptionSetters == {"addFilter", "removeFilter", "toggleIPV6", "close"}

ASSUME SocketAssumption ==
  /\ NoSocket \notin Handles
  /\ Nothing \notin Filters
  /\ Program \in [Threads -> SUBSET Operations]
  /\ LongEndpoints \subseteq Endpoints
  /\ QuiescentClose \in BOOLEAN
  /\ Refusable \subseteq OptionSetters

VARIABLES
  socket,   \* m_zmq_socket of each socket type
  list,     \* m_list of each socket type
  filters,  \* m_subMessageFilters
  zmq,      \* the library's view of each handle
  op,       \* op[t]: the operation thread t performs
  pc,       \* pc[t]: how far it has come
  ptr,      \* ptr[t]: the pointer GET_SOCKET has fetched
  next      \* next[t]: index of a loop over AllSocketTypes

regVars == <<socket, list, filters, zmq>>
vars == <<regVars, op, pc, ptr, next>>

ZmqSockets == [open : BOOLEAN, st : SocketTypes, ipv6 : BOOLEAN,
               endpoints : SUBSET (SocketTypes \X Endpoints), subs : SUBSET Filters]
Opened(st) == [open |-> TRUE, st |-> st, ipv6 |-> FALSE, endpoints |-> {}, subs |-> {}]
Closed == [Opened("Client") EXCEPT !.open = FALSE]

NoOp == [kind |-> "close", st |-> "Client", arg |-> Nothing]
PCs == {"idle", "check", "get", "use", "hasSub", "getSub", "clear", "closeOne"}

Init ==
  /\ socket = [st \in SocketTypes |-> NoSocket]
  /\ list = [st \in SocketTypes |-> {}]
  /\ filters = {}
  /\ zmq = [h \in Handles |-> Closed]
  /\ op = [t \in Threads |-> NoOp]
  /\ pc = [t \in Threads |-> "idle"]
  /\ ptr = [t \in Threads |-> NoSocket]
  /\ next = [t \in Threads |-> 1]
-----------------------------------------------------------------------------
Goto(t, l) == pc' = [pc EXCEPT ![t] = l] /\ UNCHANGED <<op, next>>

Return(t) ==
  /\ pc' = [pc EXCEPT ![t] = "idle"]
  /\ op' = [op EXCEPT ![t] = NoOp]
  /\ ptr' = [ptr EXCEPT ![t] = NoSocket]
  /\ next' = [next EXCEPT ![t] = 1]

\* mutants: one round too many, one round too few
NextTypeTooFar(t, l) ==
  IF next[t] <= Len(AllSocketTypes)
  THEN /\ next' = [next EXCEPT ![t] = @ + 1]
       /\ pc' = [pc EXCEPT ![t] = l]
       /\ UNCHANGED <<op, ptr>>
  ELSE Return(t)
NextTypeTooShort(t, l) ==
  IF next[t] < Len(AllSocketTypes) - 1
  THEN /\ next' = [next EXCEPT ![t] = @ + 1]
       /\ pc' = [pc EXCEPT ![t] = l]
       /\ UNCHANGED <<op, ptr>>
  ELSE Return(t)

\* the next round of a loop over all socket types, or out of it
NextType(t, l) ==
  IF next[t] < Len(AllSocketTypes)
  THEN /\ next' = [next EXCEPT ![t] = @ + 1]
       /\ pc' = [pc EXCEPT ![t] = l]
       /\ UNCHANGED <<op, ptr>>
  ELSE Return(t)

\* the socket type thread t is working on
Type(t) ==
  CASE op[t].kind = "toggleIPV6" \/ pc[t] = "closeOne" -> AllSocketTypes[next[t]]
    [] pc[t] \in {"getSub", "clear"} -> "Subscriber"
    [] OTHER -> op[t].st

Closing(t) == pc[t] # "idle" /\ op[t].kind = "close"

Call(t, o) ==
  /\ pc[t] = "idle"
  /\ QuiescentClose => \A u \in Threads : IF o.kind = "close" THEN pc[u] = "idle" ELSE ~Closing(u)
  /\ op' = [op EXCEPT ![t] = o]
  /\ pc' = [pc EXCEPT ![t] = CASE o.kind = "close"     -> "hasSub"
                               [] o.kind = "heartbeat" -> "check"
                               [] OTHER                -> "get"]
  /\ UNCHANGED <<regVars, ptr, next>>

\* HasBindsOrConnections(Publisher) of the heartbeat thread
HasBindsOrConnections(t) ==
  /\ pc[t] = "check"
  /\ IF list["Publisher"] # {} THEN Goto(t, "get") /\ UNCHANGED ptr ELSE Return(t)
  /\ UNCHANGED regVars

\* the first half of GET_SOCKET
ZMQSocket(t) ==
  /\ pc[t] \in {"get", "getSub"}
  /\ LET st == Type(t) IN
     \/ /\ socket[st] # NoSocket
        /\ ptr' = [ptr EXCEPT ![t] = socket[st]]
        /\ UNCHANGED <<socket, zmq>>
     \/ /\ socket[st] = NoSocket
        /\ \E h \in Handles :
             /\ ~zmq[h].open
             /\ zmq' = [zmq EXCEPT ![h] = Opened(st)]
             /\ socket' = [socket EXCEPT ![st] = h]
             /\ ptr' = [ptr EXCEPT ![t] = h]
  /\ Goto(t, IF pc[t] = "get" THEN "use" ELSE "clear")
  /\ UNCHANGED <<list, filters>>
-----------------------------------------------------------------------------
(* The second half of GET_SOCKET and the operation itself.  A call with the *)
(* pointer of a closed socket fails with ENOTSOCK and ZEROMQ_ASSERT throws; *)
(* if the address was handed out again, the call acts on the other socket.  *)

Usable(t) == zmq[ptr[t]].open
Working(t, kind) == pc[t] = "use" /\ op[t].kind = kind
MayRefuse(t) == op[t].kind \in Refusable

\* an endpoint can be bound by one socket only
CanAttach(t) ==
  /\ Usable(t)
  /\ op[t].st \in Binding =>
       \A h \in Handles, st \in Binding : <<st, op[t].arg>> \notin zmq[h].endpoints

\* mutant: the endpoint is noted before it is known whether it is attached
DoBindOrConnectListsFirst(t) ==
  /\ Working(t, "attach")
  /\ IF CanAttach(t)
     THEN zmq' = [zmq EXCEPT ![ptr[t]].endpoints = @ \cup {<<op[t].st, op[t].arg>>}]
     ELSE UNCHANGED zmq
  /\ list' = [list EXCEPT ![op[t].st] = @ \cup ({op[t].arg} \ LongEndpoints)]
  /\ Return(t)
  /\ UNCHANGED <<socket, filters>>

\* zmq_bind or zmq_connect, and then the list: GetLastEndPoint, which says what
\* to note, throws if the endpoint does not fit into its buffer
DoBindOrConnect(t) ==
  /\ Working(t, "attach")
  /\ IF CanAttach(t)
     THEN /\ zmq' = [zmq EXCEPT ![ptr[t]].endpoints = @ \cup {<<op[t].st, op[t].arg>>}]
          /\ list' = [list EXCEPT ![op[t].st] = @ \cup ({op[t].arg} \ LongEndpoints)]
     ELSE UNCHANGED <<zmq, list>>
  /\ Return(t)
  /\ UNCHANGED <<socket, filters>>

Transfer(t) ==
  /\ Working(t, "transfer") \/ Working(t, "heartbeat")
  /\ Return(t)
  /\ UNCHANGED regVars

\* ZMQ_SUBSCRIBE and ZMQ_UNSUBSCRIBE fail for sockets of other types
CanSubscribe(t) == Usable(t) /\ zmq[ptr[t]].st = "Subscriber"

AddSubscriberMessageFilter(t) ==
  /\ Working(t, "addFilter")
  /\ \/ /\ op[t].arg \notin filters /\ CanSubscribe(t)
        /\ zmq' = [zmq EXCEPT ![ptr[t]].subs = @ \cup {op[t].arg}]
        /\ filters' = filters \cup {op[t].arg}
     \/ /\ op[t].arg \in filters \/ ~CanSubscribe(t) \/ MayRefuse(t)
        /\ UNCHANGED <<zmq, filters>>
  /\ Return(t)
  /\ UNCHANGED <<socket, list>>

\* the socket unsubscribes fs, one filter after the other, and then they are
\* no longer noted
Unsubscribe(t, fs) ==
  /\ CanSubscribe(t)
  /\ zmq' = [zmq EXCEPT ![ptr[t]].subs = @ \ fs]
  /\ filters' = filters \ fs

\* mutant: no filter is noted any longer although some are still subscribed
UnsubscribeFailsForgets(t, fs) ==
  /\ CanSubscribe(t) => MayRefuse(t)
  /\ \E some \in SUBSET fs \ {fs} :
       IF CanSubscribe(t) THEN zmq' = [zmq EXCEPT ![ptr[t]].subs = @ \ some]
       ELSE UNCHANGED zmq
  /\ filters' = filters \ fs

\* one of them is refused: the socket has unsubscribed those before it, but all
\* of them stay noted
UnsubscribeFails(t, fs) ==
  /\ CanSubscribe(t) => MayRefuse(t)
  /\ \E some \in SUBSET fs \ {fs} :
       IF CanSubscribe(t) THEN zmq' = [zmq EXCEPT ![ptr[t]].subs = @ \ some]
       ELSE UNCHANGED zmq
  /\ UNCHANGED filters

\* mutant: removing one filter removes all of them
RemoveFilterRemovesAll(t) ==
  /\ Working(t, "removeFilter")
  /\ \/ Unsubscribe(t, filters) \/ UnsubscribeFails(t, filters)
     \/ filters = {} /\ UNCHANGED <<zmq, filters>>
  /\ Return(t)
  /\ UNCHANGED <<socket, list>>

RemoveSubscriberMessageFilter(t) ==
  /\ Working(t, "removeFilter")
  /\ LET fs == IF op[t].arg = Nothing THEN filters ELSE {op[t].arg} \cap filters IN
       \/ Unsubscribe(t, fs) \/ UnsubscribeFails(t, fs)
       \/ fs = {} /\ UNCHANGED <<zmq, filters>>
  /\ Return(t)
  /\ UNCHANGED <<socket, list>>

\* mutant: only the first socket is set
ToggleIPV6First(t) ==
  /\ Working(t, "toggleIPV6")
  /\ IF Usable(t) THEN zmq' = [zmq EXCEPT ![ptr[t]].ipv6 = op[t].arg] ELSE UNCHANGED zmq
  /\ Return(t)
  /\ UNCHANGED <<socket, list, filters>>

ToggleIPV6Support(t) ==
  /\ Working(t, "toggleIPV6")
  /\ \E set \in {Usable(t), Usable(t) /\ ~MayRefuse(t)} :
       IF set
       THEN zmq' = [zmq EXCEPT ![ptr[t]].ipv6 = op[t].arg] /\ NextType(t, "get")
       ELSE UNCHANGED zmq /\ Return(t)
  /\ UNCHANGED <<socket, list, filters>>
-----------------------------------------------------------------------------
(* CloseConnections *)

CloseHasSub(t) ==
  /\ pc[t] = "hasSub"
  /\ Goto(t, IF socket["Subscriber"] # NoSocket THEN "getSub" ELSE "closeOne")
  /\ UNCHANGED <<regVars, ptr>>

\* RemoveSubscriberMessageFilter(""); if it throws, nothing is closed
CloseClearFilters(t) ==
  /\ pc[t] = "clear"
  /\ \E cleared \in BOOLEAN :
       IF cleared
       THEN /\ Unsubscribe(t, filters) \/ (filters = {} /\ UNCHANGED <<zmq, filters>>)
            /\ Goto(t, "closeOne") /\ UNCHANGED ptr
       ELSE UnsubscribeFails(t, filters) /\ Return(t)
  /\ UNCHANGED <<socket, list>>

\* mutant: the pointer of a closed socket is kept
CloseSocketKeepsPointer(st) ==
  IF socket[st] = NoSocket THEN UNCHANGED <<socket, list, zmq>>
  ELSE /\ zmq' = [zmq EXCEPT ![socket[st]] = Closed]
       /\ list' = [list EXCEPT ![st] = {}]
       /\ UNCHANGED socket

CloseSocket(st) ==
  IF socket[st] = NoSocket THEN UNCHANGED <<socket, list, zmq>>
  ELSE /\ zmq' = [zmq EXCEPT ![socket[st]] = Closed]
       /\ list' = [list EXCEPT ![st] = {}]
       /\ socket' = [socket EXCEPT ![st] = NoSocket]

CloseOne(t) ==
  /\ pc[t] = "closeOne"
  /\ CloseSocket(Type(t))
  /\ NextType(t, "closeOne")
  /\ UNCHANGED filters
-----------------------------------------------------------------------------
Step(t) ==
  \/ HasBindsOrConnections(t) \/ ZMQSocket(t)
  \/ DoBindOrConnect(t) \/ Transfer(t)
  \/ AddSubscriberMessageFilter(t) \/ RemoveSubscriberMessageFilter(t)
  \/ ToggleIPV6Support(t)
  \/ CloseHasSub(t) \/ CloseClearFilters(t) \/ CloseOne(t)

Next == \E t \in Threads : Step(t) \/ \E o \in Program[t] : Call(t, o)

Spec == Init /\ [][Next]_vars
-----------------------------------------------------------------------------
TypeOK ==
  /\ socket \in [SocketTypes -> Handles \cup {NoSocket}]
  /\ list \in [SocketTypes -> SUBSET Endpoints]
  /\ filters \subseteq Filters
  /\ zmq \in [Handles -> ZmqSockets]
  /\ op \in [Threads -> Operations]
  /\ pc \in [Threads -> PCs]
  /\ ptr \in [Threads -> Handles \cup {NoSocket}]
  /\ next \in [Threads -> 1..Len(AllSocketTypes)]

(* The registry owns exactly the library's open sockets: none leaks when    *)
(* threads race to create or close one, none is registered twice or under   *)
(* the wrong type, and no registered socket is closed (GlobalData.cpp:92-   *)
(* 112, 166-210).                                                           *)
RegistryOwnsSockets ==
  \A h \in Handles, st \in SocketTypes :
    (zmq[h].open /\ zmq[h].st = st) <=> socket[st] = h

\* what the socket of a type is bound or connected to
AttachedTo(st) == IF socket[st] = NoSocket THEN {} ELSE zmq[socket[st]].endpoints

\* the list of binds or connections of a type, which Start, the heartbeat and
\* CloseConnections rely on, lacks the endpoints that are too long, only these
ListMatchesSocket ==
  \A st \in SocketTypes :
    list[st] = {e \in Endpoints \ LongEndpoints : <<st, e>> \in AttachedTo(st)}

\* m_subMessageFilters, which decides between "duplicated", "missing" and
\* success, has all filters of the subscriber socket, and others only where
\* the library may have refused to unsubscribe
RemovalsSucceed == Refusable \cap {"removeFilter", "close"} = {}
FiltersMatchSocket ==
  IF socket["Subscriber"] = NoSocket THEN filters = {}
  ELSE /\ zmq[socket["Subscriber"]].subs \subseteq filters
       /\ RemovalsSucceed => zmq[socket["Subscriber"]].subs = filters

(* As long as no operation overlaps a close, what the registry has noted is *)
(* what the library's sockets do, but for two kinds of failures, and after  *)
(* these it errs to one side: what is listed is attached, and what is       *)
(* subscribed is noted (HelperFunctions.cpp:829-856, GlobalData.cpp:318-377).*)
RegistryMatchesSockets == ListMatchesSocket /\ FiltersMatchSocket

(* The pointer an operation is about to use is that of the type's current   *)
(* socket, not of one that was closed after GET_SOCKET had fetched it       *)
(* (SocketWithMutex.h:6-8).                                                 *)
NoStalePointer ==
  \A t \in Threads : pc[t] \in {"use", "clear"} => ptr[t] = socket[Type(t)]

(* When CloseConnections returns, no socket is left: binds are free again   *)
(* and connections are gone (tests/zmq_stop.ipf, StopsBinds).               *)
CloseClosesAll ==
  [][\A t \in Threads : (pc[t] = "closeOne" /\ pc'[t] = "idle") =>
       \A h \in Handles : ~zmq'[h].open]_vars

(* Between operations all open sockets agree on the IPv6 setting, as long   *)
(* as no socket refuses it and no operation overlaps a close: the toggle    *)
(* reaches the sockets that do not exist yet as well, and closing resets    *)
(* all of them together (HelperFunctions.cpp:240-252).                      *)
IPV6Uniform ==
  \A g, h \in Handles : (\A t \in Threads : pc[t] = "idle") =>
    (zmq[g].open /\ zmq[h].open => zmq[g].ipv6 = zmq[h].ipv6)

\* What callers see of a socket: one that was not created yet is like a new
\* one, and so is every socket from the call of CloseConnections on.
View(st) ==
  IF socket[st] = NoSocket \/ \E t \in Threads : Closing(t) THEN Opened(st) ELSE zmq[socket[st]]

(* As long as no operation overlaps a close, and neither an IPv6 setting nor *)
(* a close is refused, the socket functions implement the connection        *)
(* service: although GET_SOCKET is two critical sections and                *)
(* CloseConnections up to seven, every operation takes effect at one moment *)
(* and on the socket it was meant for, as a whole but for a removal of      *)
(* filters that is refused half way, and a close on all sockets             *)
(* (SocketWithMutex.h:6, GlobalData.cpp:92-210, 318-377).                   *)
Connections ==
  INSTANCE ConnectionService WITH
    FiltersRefusable <- Refusable \cap {"addFilter", "removeFilter"} # {},
    attached   <- [st \in SocketTypes |-> {e[2] : e \in View(st).endpoints}],
    subscribed <- View("Subscriber").subs,
    ipv6       <- [st \in SocketTypes |-> View(st).ipv6],
    doing      <- [t \in Threads |-> IF pc[t] = "idle" THEN {} ELSE {op[t]}],
    unset      <- [t \in Threads |->
                     IF pc[t] # "idle" /\ op[t].kind = "toggleIPV6"
                     THEN {AllSocketTypes[i] : i \in next[t]..Len(AllSocketTypes)} ELSE {}]
ImplementsConnections == Connections!Spec
=============================================================================
