-------------------------- MODULE EchoServerProofs --------------------------
(***************************************************************************)
(* Theorems about EchoServer, for any number of address families, handlers,   *)
(* descriptors, clients and failures: types, who holds a descriptor, whose    *)
(* slot is whose, what is echoed, and what a stop leaves.                     *)
(***************************************************************************)
EXTENDS EchoServer, TLAPS

(* The services echo_server has still to start or to stop *)

InTodo(s) == \E i \in 1..Len(todo) : todo[i] = s

Started == {"waiting", "ended"}

\* Services are started once, when all are off, and stopped once, when all have
\* been started; a TCP service is aborted before its handlers are.
LifeInv ==
    /\ todo \in Seq(Service)
    /\ \A i, j \in 1..Len(todo) : todo[i] = todo[j] => i = j
    /\ main \in {"init", "waiting"} => \A s \in Service : service[s] = "off"
    /\ main = "start" => \A s \in Service :
          service[s] \in (IF InTodo(s) THEN {"off"} ELSE Started)
    /\ main = "stop" => \A s \in Service :
          IF InTodo(s)
          THEN \/ service[s] \in Started
               \/ service[s] = "aborted" /\ s = Head(todo) /\ s[1] = "tcp"
          ELSE service[s] = "stopped"
    /\ main = "ended" => \/ \A s \in Service : service[s] = "stopped"
                         \/ \A s \in Service : service[s] \in Started

\* What is left to do once the head of the list is done.
LEMMA TailLeaves ==
    ASSUME LifeInv, todo # <<>>
    PROVE  /\ Tail(todo) \in Seq(Service) /\ Head(todo) \in Service /\ InTodo(Head(todo))
           /\ \A i, j \in 1..Len(Tail(todo)) : Tail(todo)[i] = Tail(todo)[j] => i = j
           /\ \A s : (\E i \in 1..Len(Tail(todo)) : Tail(todo)[i] = s)
                        <=> s # Head(todo) /\ InTodo(s)
<1>. DEFINE q == todo
<1>1. /\ q \in Seq(Service) /\ q # <<>>
      /\ \A i, j \in 1..Len(q) : q[i] = q[j] => i = j
    BY DEF LifeInv
<1>. HIDE DEF q
<1>2. /\ Len(q) \in Nat \ {0} /\ Len(Tail(q)) = Len(q) - 1 /\ Head(q) = q[1]
      /\ Tail(q) \in Seq(Service) /\ Head(q) \in Service /\ 1 \in 1..Len(q)
      /\ \A i \in 1..Len(Tail(q)) : Tail(q)[i] = q[i + 1]
    BY <1>1
<1>3. \A i, j \in 1..Len(Tail(q)) : Tail(q)[i] = Tail(q)[j] => i = j
    BY <1>1, <1>2
<1>4. ASSUME NEW i \in 1..Len(Tail(q)) PROVE q[i + 1] # q[1] /\ i + 1 \in 1..Len(q)
    BY <1>1, <1>2
<1>5. ASSUME NEW i \in 1..Len(q), q[i] # q[1] PROVE \E j \in 1..Len(Tail(q)) : Tail(q)[j] = q[i]
    <2>1. i - 1 \in 1..Len(Tail(q)) /\ Tail(q)[i - 1] = q[i]
        BY <1>1, <1>2, <1>5
    <2>. QED BY <2>1
<1>6. \A s : (\E i \in 1..Len(Tail(q)) : Tail(q)[i] = s)
                 <=> s # Head(q) /\ \E i \in 1..Len(q) : q[i] = s
    BY <1>2, <1>4, <1>5
<1>7. \E i \in 1..Len(q) : q[i] = Head(q)
    BY <1>2
<1>. QED BY <1>2, <1>3, <1>6, <1>7 DEF q, InTodo

LEMMA Joined ==
    ASSUME NEW S, NEW x \in Seq(S), NEW y \in Seq(S)
    PROVE  /\ x \o y \in Seq(S) /\ Len(x \o y) = Len(x) + Len(y)
           /\ \A i \in 1..(Len(x) + Len(y)) :
                 (x \o y)[i] = IF i <= Len(x) THEN x[i] ELSE y[i - Len(x)]
OBVIOUS

\* Both orders name every service once.
LEMMA OrderOf ==
    ASSUME NEW a \in {"tcp", "udp"}, NEW b \in {"tcp", "udp"}, a # b
    PROVE  LET q == Of(a) \o Of(b)
           IN  /\ q \in Seq(Service)
               /\ \A i, j \in 1..Len(q) : q[i] = q[j] => i = j
               /\ \A s \in Service : \E i \in 1..Len(q) : q[i] = s
<1>. DEFINE q == Of(a) \o Of(b)  n == Len(FamilyOrder)
<1>1. n \in Nat /\ DOMAIN FamilyOrder = 1..n
    BY OrderAssumption
<1>2. ASSUME NEW k \in {"tcp", "udp"}
      PROVE  /\ Of(k) \in Seq(Service) /\ Len(Of(k)) = n
             /\ \A i \in 1..n : Of(k)[i] = <<k, FamilyOrder[i]>>
    BY <1>1, OrderAssumption DEF Of, Service
<1>3. /\ q \in Seq(Service) /\ Len(q) = n + n
      /\ \A i \in 1..(n + n) : q[i] = IF i <= n THEN <<a, FamilyOrder[i]>>
                                                ELSE <<b, FamilyOrder[i - n]>>
    <2>. DEFINE x == Of(a)  y == Of(b)
    <2>1. /\ x \in Seq(Service) /\ Len(x) = n /\ y \in Seq(Service) /\ Len(y) = n
          /\ \A i \in 1..n : x[i] = <<a, FamilyOrder[i]>> /\ y[i] = <<b, FamilyOrder[i]>>
        BY <1>2
    <2>. HIDE DEF x, y, n
    <2>2. /\ x \o y \in Seq(Service) /\ Len(x \o y) = n + n
          /\ \A i \in 1..(n + n) : (x \o y)[i] = IF i <= n THEN x[i] ELSE y[i - n]
        <3>1. /\ x \o y \in Seq(Service) /\ Len(x \o y) = Len(x) + Len(y)
              /\ \A i \in 1..(Len(x) + Len(y)) :
                    (x \o y)[i] = IF i <= Len(x) THEN x[i] ELSE y[i - Len(x)]
            BY <2>1, Joined, Zenon
        <3>. QED BY <2>1, <3>1
    <2>3. \A i \in 1..(n + n) : IF i <= n THEN i \in 1..n ELSE i - n \in 1..n
        BY <1>1
    <2>. QED BY <2>1, <2>2, <2>3 DEF x, y
<1>. HIDE DEF q
<1>4. ASSUME NEW i \in 1..Len(q), NEW j \in 1..Len(q), q[i] = q[j] PROVE i = j
    <2>1. CASE i <= n /\ j <= n
        <3>1. FamilyOrder[i] = FamilyOrder[j] /\ i \in 1..n /\ j \in 1..n
            BY <1>1, <1>3, <1>4, <2>1
        <3>. QED BY <1>1, <3>1, OrderAssumption
    <2>2. CASE ~(i <= n) /\ ~(j <= n)
        <3>1. FamilyOrder[i - n] = FamilyOrder[j - n] /\ i - n \in 1..n /\ j - n \in 1..n
            BY <1>1, <1>3, <1>4, <2>2
        <3>2. i - n = j - n
            BY <1>1, <3>1, OrderAssumption
        <3>. QED BY <1>1, <3>2
    <2>. QED BY <1>1, <1>3, <1>4, <2>1, <2>2
<1>5. ASSUME NEW s \in Service PROVE \E i \in 1..Len(q) : q[i] = s
    <2>1. PICK k \in {"tcp", "udp"}, f \in Families : s = <<k, f>>
        BY DEF Service
    <2>2. PICK i \in 1..n : FamilyOrder[i] = f
        BY <1>1, OrderAssumption
    <2>3. CASE k = a
        BY <1>1, <1>3, <2>1, <2>2, <2>3
    <2>4. CASE k = b
        <3>1. i + n \in 1..(n + n) /\ ~(i + n <= n) /\ i + n - n = i
            BY <1>1
        <3>. QED BY <1>3, <2>1, <2>2, <2>4, <3>1
    <2>. QED BY <2>1, <2>3, <2>4
<1>. QED BY <1>3, <1>4, <1>5 DEF q

LEMMA Orders ==
    ASSUME NEW q \in {StartOrder, StopOrder}
    PROVE  /\ q \in Seq(Service)
           /\ \A i, j \in 1..Len(q) : q[i] = q[j] => i = j
           /\ \A s \in Service : \E i \in 1..Len(q) : q[i] = s
BY OrderOf DEF StartOrder, StopOrder

LEMMA LifeInit == Init => LifeInv
BY DEF Init, TcpInit, LifeInv, InTodo

LEMMA LifeNext == TypeOK /\ LifeInv /\ [Next]_vars => LifeInv'
<1>. SUFFICES ASSUME TypeOK, LifeInv, [Next]_vars PROVE LifeInv'
    OBVIOUS
<1>0. DOMAIN service = Service /\ service = [s \in Service |-> service[s]]
    BY DEF TypeOK, TcpTypeOK
<1>1. ASSUME main' = main, todo' = todo, service' = service PROVE LifeInv'
    BY <1>1 DEF LifeInv, InTodo
<1>2. ASSUME NEW s \in Service, service[s] = "waiting",
             service' = [service EXCEPT ![s] = "ended"], main' = main, todo' = todo
      PROVE  LifeInv'
    <2>1. \A t \in Service : service'[t] = service[t]
                              \/ (service[t] \in Started /\ service'[t] \in Started)
        BY <1>0, <1>2 DEF Started
    <2>. QED BY <1>2, <2>1 DEF LifeInv, InTodo, Started
<1>3. ASSUME main \in {"init", "waiting"}, main' = "start", todo' = StartOrder,
             service' = service
      PROVE  LifeInv'
    <2>. DEFINE q == StartOrder
    <2>1. /\ q \in Seq(Service) /\ \A i, j \in 1..Len(q) : q[i] = q[j] => i = j
          /\ \A s \in Service : \E i \in 1..Len(q) : q[i] = s
        BY Orders
    <2>. HIDE DEF q
    <2>2. todo' = q
        BY <1>3 DEF q
    <2>3. \A s \in Service : InTodo(s)' /\ service'[s] = "off"
        BY <1>3, <2>1, <2>2 DEF LifeInv, InTodo
    <2>4. todo' \in Seq(Service) /\ \A i, j \in 1..Len(todo') : todo'[i] = todo'[j] => i = j
        BY <2>1, <2>2
    <2>. QED BY <1>3, <2>3, <2>4 DEF LifeInv
<1>4. CASE StartNext
    <2>. DEFINE s == Head(todo)
    <2>1. /\ main' = "start" /\ main = "start" /\ todo' = Tail(todo) /\ todo # <<>>
          /\ \E at \in Started : service' = [service EXCEPT ![s] = at]
        BY <1>4 DEF StartNext, StartProto, StartProtoFails, Started
    <2>2. /\ todo' \in Seq(Service) /\ s \in Service
          /\ \A i, j \in 1..Len(todo') : todo'[i] = todo'[j] => i = j
          /\ \A t : InTodo(t)' <=> t # s /\ InTodo(t)
        <3>1. /\ Tail(todo) \in Seq(Service) /\ Head(todo) \in Service
              /\ \A i, j \in 1..Len(Tail(todo)) : Tail(todo)[i] = Tail(todo)[j] => i = j
              /\ \A t : (\E i \in 1..Len(Tail(todo)) : Tail(todo)[i] = t)
                            <=> t # Head(todo) /\ InTodo(t)
            BY <2>1, TailLeaves
        <3>2. \A t : InTodo(t)' <=> \E i \in 1..Len(Tail(todo)) : Tail(todo)[i] = t
            BY <2>1 DEF InTodo
        <3>. QED BY <2>1, <3>1, <3>2
    <2>. HIDE DEF s
    <2>3. ASSUME NEW t \in Service
          PROVE  service'[t] \in (IF InTodo(t)' THEN {"off"} ELSE Started)
        <3>1. service[t] \in (IF InTodo(t) THEN {"off"} ELSE Started)
            BY <2>1 DEF LifeInv
        <3>. QED BY <1>0, <2>1, <2>2, <3>1
    <2>. QED BY <2>1, <2>2, <2>3 DEF LifeInv
<1>5. CASE TakeQuitLock
    <2>1. main = "start" /\ todo = <<>> /\ service' = service
        BY <1>5 DEF TakeQuitLock
    <2>2. \A s \in Service : service'[s] \in Started
        BY <2>1 DEF LifeInv, InTodo
    <2>3. CASE connected
        <3>. DEFINE q == StopOrder
        <3>1. /\ q \in Seq(Service) /\ \A i, j \in 1..Len(q) : q[i] = q[j] => i = j
              /\ \A s \in Service : \E i \in 1..Len(q) : q[i] = s
            BY Orders
        <3>. HIDE DEF q
        <3>2. todo' = q /\ main' = "stop"
            BY <1>5, <2>3 DEF q, TakeQuitLock
        <3>3. \A s \in Service : InTodo(s)'
            BY <3>1, <3>2 DEF InTodo
        <3>. QED BY <2>2, <3>1, <3>2, <3>3 DEF LifeInv
    <2>4. CASE ~connected
        BY <1>5, <2>1, <2>2, <2>4 DEF LifeInv, TakeQuitLock
    <2>. QED BY <2>3, <2>4
<1>6. CASE StopNext
    <2>. DEFINE s == Head(todo)
    <2>1. main' = "stop" /\ main = "stop" /\ todo # <<>>
        BY <1>6 DEF StopNext
    <2>2. /\ Tail(todo) \in Seq(Service) /\ s \in Service
          /\ \A i, j \in 1..Len(Tail(todo)) : Tail(todo)[i] = Tail(todo)[j] => i = j
          /\ \A t : (\E i \in 1..Len(Tail(todo)) : Tail(todo)[i] = t) <=> t # s /\ InTodo(t)
          /\ InTodo(s)
        BY <2>1, TailLeaves
    <2>3. s = <<s[1], s[2]>> /\ s[1] \in {"tcp", "udp"}
        BY <2>2 DEF Service
    <2>. HIDE DEF s
    <2>4. ASSUME service' = [service EXCEPT ![s] = "stopped"], todo' = Tail(todo)
          PROVE  LifeInv'
        <3>1. \A t \in Service : InTodo(t)' <=> t # s /\ InTodo(t)
            BY <2>2, <2>4 DEF InTodo
        <3>2. ASSUME NEW t \in Service
              PROVE  IF InTodo(t)' THEN service'[t] \in Started ELSE service'[t] = "stopped"
            <4>1. IF InTodo(t) THEN service[t] \in Started \/ t = s ELSE service[t] = "stopped"
                BY <2>1 DEF LifeInv, s
            <4>. QED BY <1>0, <2>2, <2>4, <3>1, <4>1
        <3>. QED BY <2>1, <2>2, <2>4, <3>2 DEF LifeInv
    <2>5. CASE service[s] = "aborted"
        <3>1. s[1] = "tcp"
            BY <2>1, <2>2, <2>5 DEF LifeInv, Started
        <3>2. s = Tcp(s[2])
            BY <2>3, <3>1 DEF Tcp
        <3>. QED BY <1>6, <2>4, <2>5, <3>2 DEF StopNext, StopHandlers, s
    <2>6. CASE service[s] # "aborted" /\ s[1] # "tcp"
        BY <1>6, <2>4, <2>6 DEF StopNext, StopProto, s
    <2>7. CASE service[s] # "aborted" /\ s[1] = "tcp"
        <3>1. service' = [service EXCEPT ![s] = "aborted"] /\ todo' = todo
            BY <1>6, <2>7 DEF StopNext, StopProto, s
        <3>2. \A t \in Service : InTodo(t)' <=> InTodo(t)
            BY <3>1 DEF InTodo
        <3>3. ASSUME NEW t \in Service
              PROVE  IF InTodo(t)'
                     THEN \/ service'[t] \in Started
                          \/ service'[t] = "aborted" /\ t = s /\ t[1] = "tcp"
                     ELSE service'[t] = "stopped"
            BY <1>0, <2>1, <2>2, <2>7, <3>1, <3>2 DEF LifeInv, s
        <3>4. Head(todo') = s
            BY <3>1 DEF s
        <3>. QED BY <2>1, <3>1, <3>3, <3>4 DEF LifeInv
    <2>. QED BY <2>5, <2>6, <2>7
<1>7. CASE Return
    <2>1. \A s \in Service : service'[s] = "stopped"
        BY <1>7 DEF Return, LifeInv, InTodo, tcpVars
    <2>. QED BY <1>7, <2>1 DEF Return, LifeInv, tcpVars
<1>8. CASE TakeRunApp
    <2>1. CASE run_app > 0
        BY <1>3, <1>8, <2>1 DEF TakeRunApp, tcpVars
    <2>2. CASE ~(run_app > 0)
        <3>1. /\ main = "init" /\ main' = "waiting" /\ todo' = todo /\ service' = service
            BY <1>8, <2>2 DEF TakeRunApp, tcpVars
        <3>. QED BY <3>1 DEF LifeInv
    <2>. QED BY <2>1, <2>2
<1>9. CASE EventHandler
    <2>1. CASE main = "waiting"
        BY <1>3, <1>9, <2>1 DEF EventHandler, tcpVars
    <2>2. CASE main # "waiting"
        BY <1>1, <1>9, <2>2 DEF EventHandler, tcpVars
    <2>. QED BY <2>1, <2>2
<1>10. ASSUME NEW f \in Families, (AcceptFails(f) /\ UNCHANGED lifeVars) \/ UdpFails(f)
       PROVE  LifeInv'
    <2>1. Tcp(f) \in Service /\ <<"udp", f>> \in Service
        BY DEF Tcp, Service
    <2>. QED BY <1>2, <1>10, <2>1 DEF AcceptFails, UdpFails, lifeVars
<1>11. CASE \/ \E c \in Clients : ClientStep(c) /\ UNCHANGED lifeVars
            \/ \E f \in Families : (Accept(f) \/ Refuse(f)) /\ UNCHANGED lifeVars
            \/ \E h \in Handler : HandlerStep(h) /\ UNCHANGED lifeVars
            \/ LinkChanges \/ ShellQuit \/ ShellResends \/ ShellQuits \/ UNCHANGED vars
    <2>1. main' = main /\ todo' = todo /\ service' = service
        BY <1>11 DEF ClientStep, SendByte, HangUp, Accept, Refuse, HandlerStep, Receive,
                     ReceiveEnd, Send, SendFails, LinkChanges, ShellQuit, ShellResends,
                     ShellQuits, vars, tcpVars, lifeVars
    <2>. QED BY <1>1, <2>1
<1>12. \A f \in Families, i \in Slots : <<f, i>> \in Handler
    BY DEF Handler
<1>. QED BY <1>4, <1>5, <1>6, <1>7, <1>8, <1>9, <1>10, <1>11, <1>12
         DEF Next, TcpStep, MainStep

-----------------------------------------------------------------------------
(* What a step does to descriptors, slots and clients *)

Quiet == UNCHANGED <<open, sock, service, slotVars, client>>

ServiceEnds(s) ==
    /\ service[s] = "waiting" /\ service' = [service EXCEPT ![s] = "ended"]
    /\ UNCHANGED <<open, sock, slotVars, client>>

ServiceStarts(s) ==
    /\ service[s] = "off" /\ \E at \in Started : service' = [service EXCEPT ![s] = at]
    /\ \/ UNCHANGED <<open, sock>>
       \/ \E d \in Descriptors :
             FirstFree(d) /\ open' = open \cup {d} /\ sock' = [sock EXCEPT ![s] = d]
    /\ UNCHANGED <<slotVars, client>>

ServiceStops(s) ==
    /\ service[s] \in Started
    /\ service' = [service EXCEPT ![s] = IF s[1] = "tcp" THEN "aborted" ELSE "stopped"]
    /\ open' = open \ {sock[s]}
    /\ UNCHANGED <<sock, slotVars, client>>

HandlersStop(f) == service[Tcp(f)] = "aborted" /\ StopHandlers(f)

HandlerEnds(h) ==
    /\ handler[h] # "none" /\ Finish(h)
    /\ client' = [client EXCEPT ![peer[h]] = Gone]
    /\ UNCHANGED <<sock, service>>

LEMMA StepKinds ==
    ASSUME LifeInv, [Next]_vars
    PROVE  \/ Quiet
           \/ \E c \in Clients : ClientStep(c)
           \/ \E f \in Families : Accept(f) \/ Refuse(f) \/ HandlersStop(f)
           \/ \E s \in Service : ServiceEnds(s) \/ ServiceStarts(s) \/ ServiceStops(s)
           \/ \E h \in Handler : Receive(h) \/ Send(h) \/ HandlerEnds(h)
<1>1. ASSUME NEW f \in Families, NEW i \in Slots, HandlerStep(<<f, i>>)
      PROVE  \E h \in Handler : Receive(h) \/ Send(h) \/ HandlerEnds(h)
    <2>1. <<f, i>> \in Handler
        BY DEF Handler
    <2>. QED BY <1>1, <2>1 DEF HandlerStep, HandlerEnds, ReceiveEnd, SendFails
<1>2. ASSUME NEW f \in Families, AcceptFails(f) \/ UdpFails(f)
      PROVE  \E s \in Service : ServiceEnds(s)
    <2>1. Tcp(f) \in Service /\ <<"udp", f>> \in Service
        BY DEF Tcp, Service
    <2>. QED BY <1>2, <2>1 DEF AcceptFails, UdpFails, ServiceEnds
<1>3. CASE StartNext
    <2>1. Head(todo) \in Service /\ service[Head(todo)] = "off"
        <3>1. Head(todo) \in Service /\ InTodo(Head(todo)) /\ main = "start"
            BY <1>3, TailLeaves DEF StartNext
        <3>. QED BY <3>1 DEF LifeInv
    <2>2. ServiceStarts(Head(todo))
        BY <1>3, <2>1 DEF StartNext, StartProto, StartProtoFails, ServiceStarts, Started
    <2>. QED BY <2>1, <2>2
<1>4. CASE StopNext
    <2>1. /\ Head(todo) \in Service /\ InTodo(Head(todo)) /\ main = "stop"
        BY <1>4, TailLeaves DEF StopNext
    <2>2. CASE service[Head(todo)] = "aborted"
        <3>1. Head(todo)[1] = "tcp"
            BY <2>1, <2>2 DEF LifeInv, Started
        <3>2. Head(todo)[2] \in Families /\ Head(todo) = Tcp(Head(todo)[2])
            BY <2>1, <3>1 DEF Service, Tcp
        <3>. QED BY <1>4, <2>2, <3>2 DEF StopNext, HandlersStop
    <2>3. CASE service[Head(todo)] # "aborted"
        <3>1. service[Head(todo)] \in Started
            BY <2>1, <2>3 DEF LifeInv
        <3>. QED BY <1>4, <2>1, <2>3, <3>1 DEF StopNext, StopProto, ServiceStops
    <2>. QED BY <2>2, <2>3
<1>5. CASE \/ LinkChanges \/ EventHandler \/ ShellQuit \/ ShellResends \/ ShellQuits
           \/ TakeRunApp \/ TakeQuitLock \/ Return \/ UNCHANGED vars
    BY <1>5 DEF LinkChanges, EventHandler, ShellQuit, ShellResends, ShellQuits, TakeRunApp,
                TakeQuitLock, Return, vars, tcpVars, Quiet
<1>. QED BY <1>1, <1>2, <1>3, <1>4, <1>5 DEF Next, TcpStep, MainStep
-----------------------------------------------------------------------------
(* Type correctness *)

ClientType == [state : {"away", "served", "gone"}, sent : Nat, read : Nat,
               end : {"open", "shut", "broken"}, echoed : Seq(Nat)]

TableTypes ==
    /\ open \subseteq Descriptors
    /\ sock \in [Service -> Descriptors \cup {NONE}]
    /\ service \in [Service -> {"off", "waiting", "ended", "aborted", "stopped"}]

SlotTypes ==
    /\ accepted \in [Handler -> Descriptors \cup {NONE}]
    /\ in_use \in [Handler -> BOOLEAN]
    /\ handler \in [Handler -> {"none", "receiving", "sending"}]
    /\ peer \in [Handler -> Clients \cup {NONE}]

StreamTypes ==
    /\ buffer \in [Handler -> Seq(Nat)]
    /\ \A h \in Handler : Len(buffer[h]) <= BufferSize
    /\ client \in [Clients -> ClientType]

LifeTypes ==
    /\ quit_lock \in Nat /\ faults \in 0..MaxFaults
    /\ main \in {"init", "waiting", "start", "stop", "ended"}
    /\ todo \in Seq(Service) /\ run_app \in 0..1
    /\ connected \in BOOLEAN /\ want_to_quit \in BOOLEAN
    /\ shell \in {"idle", "resend", "quit"}
    /\ link \in {"up", "down"} /\ events \in Seq({"up", "down"})
    /\ changes \in 0..MaxEvents /\ quits \in 0..MaxQuits

LEMMA Types == TypeOK <=> TableTypes /\ SlotTypes /\ StreamTypes /\ LifeTypes
BY DEF TypeOK, TcpTypeOK, TableTypes, SlotTypes, StreamTypes, LifeTypes, ClientType

LEMMA GoneType == Gone \in ClientType /\ NewClient \in ClientType
<1>1. <<>> \in Seq(Nat)
    OBVIOUS
<1>2. Gone = [state |-> "gone", sent |-> 0, read |-> 0, end |-> "open", echoed |-> <<>>]
    BY DEF Gone, NewClient
<1>. QED BY <1>1, <1>2 DEF NewClient, ClientType

\* The fields of a client that change keep their types.
LEMMA ClientUpdates ==
    ASSUME NEW k \in ClientType, NEW n \in Nat, NEW b \in Seq(Nat)
    PROVE  /\ [k EXCEPT !.sent = @ + 1] \in ClientType
           /\ [k EXCEPT !.read = @ + n] \in ClientType
           /\ [k EXCEPT !.echoed = @ \o b] \in ClientType
           /\ [k EXCEPT !.state = "served"] \in ClientType
           /\ \A how \in {"shut", "broken"} : [k EXCEPT !.end = how] \in ClientType
<1>1. k.sent + 1 \in Nat /\ k.read + n \in Nat /\ k.echoed \o b \in Seq(Nat)
    BY DEF ClientType
<1>2. /\ [k EXCEPT !.sent = @ + 1] = [k EXCEPT !.sent = k.sent + 1]
      /\ [k EXCEPT !.read = @ + n] = [k EXCEPT !.read = k.read + n]
      /\ [k EXCEPT !.echoed = @ \o b] = [k EXCEPT !.echoed = k.echoed \o b]
    OBVIOUS
<1>3. \A x \in Nat, y \in Seq(Nat) :
          /\ [k EXCEPT !.sent = x] \in ClientType
          /\ [k EXCEPT !.read = x] \in ClientType
          /\ [k EXCEPT !.echoed = y] \in ClientType
    BY DEF ClientType
<1>4. [k EXCEPT !.state = "served"] \in ClientType
    BY DEF ClientType
<1>5. \A how \in {"shut", "broken"} : [k EXCEPT !.end = how] \in ClientType
    BY DEF ClientType
<1>. QED BY <1>1, <1>2, <1>3, <1>4, <1>5

LEMMA EchoTypeInit == Init => TypeOK
<1>. SUFFICES ASSUME Init PROVE TypeOK
    OBVIOUS
<1>1. TableTypes
    BY DEF Init, TcpInit, TableTypes
<1>2. SlotTypes
    BY DEF Init, TcpInit, SlotTypes
<1>3. StreamTypes
    <2>1. <<>> \in Seq(Nat) /\ Len(<<>>) <= BufferSize
        BY BoundAssumption
    <2>2. /\ buffer = [h \in Handler |-> <<>>]
          /\ client = [c \in Clients |-> NewClient]
        BY DEF Init, TcpInit
    <2>3. \A h \in Handler : buffer[h] = <<>>
        BY <2>2
    <2>4. buffer \in [Handler -> Seq(Nat)]
        BY <2>1, <2>2
    <2>5. \A h \in Handler : Len(buffer[h]) <= BufferSize
        BY <2>1, <2>3
    <2>6. client \in [Clients -> ClientType]
        BY <2>2, GoneType
    <2>. QED BY <2>4, <2>5, <2>6 DEF StreamTypes
<1>4. LifeTypes
    <2>1. events \in Seq({"up", "down"}) /\ todo \in Seq(Service)
        BY DEF Init
    <2>2. /\ link \in {"up", "down"} /\ main = "init" /\ run_app = 0 /\ shell = "idle"
          /\ connected = FALSE /\ want_to_quit = FALSE /\ changes = 0 /\ quits = 0
          /\ quit_lock = 0 /\ faults = 0
        BY DEF Init, TcpInit
    <2>3. /\ quit_lock \in Nat /\ faults \in 0..MaxFaults /\ run_app \in 0..1
          /\ changes \in 0..MaxEvents /\ quits \in 0..MaxQuits
        BY <2>2, BoundAssumption, LifeBoundAssumption
    <2>. QED BY <2>1, <2>2, <2>3, Zenon DEF LifeTypes
<1>. QED BY <1>1, <1>2, <1>3, <1>4, Types

LEMMA TableTypesNext == TypeOK /\ LifeInv /\ [Next]_vars => TableTypes'
<1>. SUFFICES ASSUME TableTypes, LifeInv, [Next]_vars PROVE TableTypes'
    BY Types
<1>. USE DEF TableTypes
<1>1. CASE \/ Quiet \/ \E c \in Clients : ClientStep(c)
           \/ \E f \in Families : Refuse(f)
           \/ \E h \in Handler : Receive(h) \/ Send(h)
    BY <1>1 DEF Quiet, ClientStep, SendByte, HangUp, Refuse, Receive, Send
<1>2. CASE \/ \E f \in Families : Accept(f)
           \/ \E h \in Handler : HandlerEnds(h)
    BY <1>2 DEF Accept, HandlerEnds, Finish
<1>3. CASE \E s \in Service : ServiceEnds(s) \/ ServiceStarts(s) \/ ServiceStops(s)
    BY <1>3 DEF ServiceEnds, ServiceStarts, ServiceStops, Started
<1>4. CASE \E f \in Families : HandlersStop(f)
    BY <1>4 DEF HandlersStop, StopHandlers
<1>. QED BY <1>1, <1>2, <1>3, <1>4, StepKinds

\* Client c gets slot i of family f and descriptor d.
Accepts(f, c, d, i) ==
    /\ client[c].state = "away" /\ service[Tcp(f)] = "waiting"
    /\ FirstFree(d) /\ accepted[<<f, i>>] = NONE
    /\ open' = open \cup {d}
    /\ accepted' = [accepted EXCEPT ![<<f, i>>] = d]
    /\ in_use' = [in_use EXCEPT ![<<f, i>>] = TRUE]
    /\ handler' = [handler EXCEPT ![<<f, i>>] = "receiving"]
    /\ peer' = [peer EXCEPT ![<<f, i>>] = c]
    /\ buffer' = [buffer EXCEPT ![<<f, i>>] = <<>>]
    /\ client' = [client EXCEPT ![c].state = "served"]
    /\ UNCHANGED <<sock, service>>

LEMMA AcceptEffect ==
    ASSUME NEW f \in Families, Accept(f)
    PROVE  \E c \in Clients, d \in Descriptors, i \in Slots :
              Accepts(f, c, d, i) /\ <<f, i>> \in Handler
<1>1. PICK c \in Connecting, d \in Descriptors, i \in Slots :
        /\ FirstFree(d) /\ GetFreeSlot(f, i)
        /\ open' = open \cup {d}
        /\ accepted' = [accepted EXCEPT ![<<f, i>>] = d]
        /\ in_use' = [in_use EXCEPT ![<<f, i>>] = TRUE]
        /\ handler' = [handler EXCEPT ![<<f, i>>] = "receiving"]
        /\ peer' = [peer EXCEPT ![<<f, i>>] = c]
        /\ buffer' = [buffer EXCEPT ![<<f, i>>] = <<>>]
        /\ client' = [client EXCEPT ![c].state = "served"]
    BY Zenon DEF Accept
<1>2. c \in Clients /\ client[c].state = "away"
    BY DEF Connecting
<1>3. <<f, i>> \in Handler
    BY DEF Handler
<1>4. service[Tcp(f)] = "waiting" /\ UNCHANGED <<sock, service>>
    BY DEF Accept
<1>5. accepted[<<f, i>>] = NONE
    BY <1>1 DEF GetFreeSlot
<1>6. Accepts(f, c, d, i)
    BY <1>1, <1>2, <1>4, <1>5 DEF Accepts
<1>. QED BY <1>2, <1>3, <1>6

LEMMA SlotTypesNext == TypeOK /\ LifeInv /\ [Next]_vars => SlotTypes'
<1>. SUFFICES ASSUME SlotTypes, LifeInv, [Next]_vars PROVE SlotTypes'
    BY Types
<1>. USE DEF SlotTypes
<1>1. CASE \/ Quiet \/ \E c \in Clients : ClientStep(c)
           \/ \E f \in Families : Refuse(f)
           \/ \E s \in Service : ServiceEnds(s) \/ ServiceStarts(s) \/ ServiceStops(s)
    BY <1>1 DEF Quiet, ClientStep, SendByte, HangUp, Refuse, ServiceEnds, ServiceStarts,
                ServiceStops, slotVars
<1>2. ASSUME NEW f \in Families, Accept(f) PROVE SlotTypes'
    <2>1. PICK c \in Clients, d \in Descriptors, i \in Slots : Accepts(f, c, d, i)
        BY <1>2, AcceptEffect
    <2>. QED BY <2>1 DEF Accepts
<1>3. ASSUME NEW h \in Handler, HandlerEnds(h) PROVE SlotTypes'
    BY <1>3 DEF HandlerEnds, Finish
<1>4. ASSUME NEW h \in Handler, Receive(h) \/ Send(h) PROVE SlotTypes'
    BY <1>4 DEF Receive, Send
<1>5. ASSUME NEW f \in Families, HandlersStop(f) PROVE SlotTypes'
    BY <1>5 DEF HandlersStop, StopHandlers
<1>. QED BY <1>1, <1>2, <1>3, <1>4, <1>5, StepKinds


\* A handler reads for a client that is being served.
Serving == \A h \in Handler : handler[h] # "none" =>
              peer[h] \in Clients /\ client[peer[h]].state = "served"

\* What Receive does to the stream of its client, with the bytes it reads.
LEMMA ReceiveEffect ==
    ASSUME StreamTypes, Serving, NEW h \in Handler, Receive(h)
    PROVE  LET c == peer[h] IN
           \E n \in 1..BufferSize :
              LET b == [j \in 1..n |-> client[c].read + j] IN
              /\ c \in Clients /\ client[c].state = "served"
              /\ client[c].read + n <= client[c].sent
              /\ Len(buffer[h]) + n <= BufferSize
              /\ client' = [client EXCEPT ![c].read = @ + n]
              /\ buffer' = [buffer EXCEPT ![h] = @ \o b]
              /\ b \in Seq(Nat) /\ Len(b) = n
              /\ buffer[h] \o b \in Seq(Nat)
              /\ Len(buffer[h] \o b) = Len(buffer[h]) + n
<1>. DEFINE c == peer[h]
<1>1. c \in Clients /\ client[c].state = "served"
    BY DEF Serving, Receive
<1>2. client[c].read \in Nat /\ client[c].sent \in Nat /\ buffer[h] \in Seq(Nat)
    BY <1>1 DEF StreamTypes, ClientType
<1>3. PICK n \in 1..BufferSize :
          /\ n <= Unread(c) /\ Len(buffer[h]) + n <= BufferSize
          /\ client' = [client EXCEPT ![c].read = @ + n]
          /\ buffer' = [buffer EXCEPT ![h] = @ \o [j \in 1..n |-> client[c].read + j]]
    BY Zenon DEF Receive
<1>. HIDE DEF c
<1>4. n \in Nat /\ client[c].read + n <= client[c].sent
    BY <1>2, <1>3, BoundAssumption DEF Unread
<1>. DEFINE b == [j \in 1..n |-> client[c].read + j]
<1>5. b \in Seq(Nat) /\ Len(b) = n
    BY <1>2, <1>4
<1>. HIDE DEF b
<1>6. buffer[h] \o b \in Seq(Nat) /\ Len(buffer[h] \o b) = Len(buffer[h]) + n
    BY <1>2, <1>5
<1>. QED BY <1>1, <1>3, <1>4, <1>5, <1>6, Zenon DEF b, c

LEMMA StreamTypesNext == TypeOK /\ Serving /\ LifeInv /\ [Next]_vars => StreamTypes'
<1>. SUFFICES ASSUME StreamTypes, Serving, LifeInv, [Next]_vars PROVE StreamTypes'
    BY Types
<1>1. CASE \/ Quiet
           \/ \E s \in Service : ServiceEnds(s) \/ ServiceStarts(s) \/ ServiceStops(s)
    BY <1>1 DEF Quiet, ServiceEnds, ServiceStarts, ServiceStops, slotVars, StreamTypes
<1>2. ASSUME NEW c \in Clients, ClientStep(c) PROVE StreamTypes'
    <2>1. PICK k \in ClientType : client' = [client EXCEPT ![c] = k]
        <3>1. CASE SendByte(c)
            <4>1. [client[c] EXCEPT !.sent = @ + 1] \in ClientType
                <5>1. client[c] \in ClientType /\ 0 \in Nat /\ <<>> \in Seq(Nat)
                    BY DEF StreamTypes
                <5>. QED BY <5>1, ClientUpdates, Zenon
            <4>2. client' = [client EXCEPT ![c].sent = @ + 1]
                BY <3>1 DEF SendByte
            <4>3. client' = [client EXCEPT ![c] = [client[c] EXCEPT !.sent = @ + 1]]
                BY <4>2, Zenon
            <4>. QED BY <4>1, <4>3
        <3>2. ASSUME NEW how \in {"shut", "broken"}, HangUp(c, how)
              PROVE  \E k \in ClientType : client' = [client EXCEPT ![c] = k]
            <4>1. [client[c] EXCEPT !.end = how] \in ClientType
                BY DEF StreamTypes, ClientType
            <4>. QED BY <3>2, <4>1 DEF HangUp
        <3>. QED BY <1>2, <3>1, <3>2 DEF ClientStep
    <2>2. buffer' = buffer
        BY <1>2 DEF ClientStep, SendByte, HangUp, slotVars
    <2>. QED BY <2>1, <2>2 DEF StreamTypes
<1>3. ASSUME NEW f \in Families, Accept(f) PROVE StreamTypes'
    <2>1. PICK c \in Clients, d \in Descriptors, i \in Slots : Accepts(f, c, d, i)
        BY <1>3, AcceptEffect
    <2>2. [client[c] EXCEPT !.state = "served"] \in ClientType
        BY DEF StreamTypes, ClientType
    <2>3. <<>> \in Seq(Nat) /\ Len(<<>>) <= BufferSize
        BY BoundAssumption
    <2>. QED BY <2>1, <2>2, <2>3 DEF StreamTypes, Accepts
<1>4. ASSUME NEW f \in Families, Refuse(f) PROVE StreamTypes'
    BY <1>4, GoneType DEF Refuse, slotVars, Connecting, StreamTypes
<1>5. ASSUME NEW f \in Families, HandlersStop(f) PROVE StreamTypes'
    BY <1>5, GoneType DEF HandlersStop, StopHandlers, StreamTypes
<1>6. ASSUME NEW h \in Handler, Receive(h) PROVE StreamTypes'
    <2>. DEFINE c == peer[h]
    <2>1. PICK n \in 1..BufferSize, b \in Seq(Nat) :
              /\ c \in Clients /\ Len(buffer[h] \o b) <= BufferSize
              /\ client' = [client EXCEPT ![c].read = @ + n]
              /\ buffer' = [buffer EXCEPT ![h] = @ \o b]
              /\ buffer[h] \o b \in Seq(Nat)
        BY <1>6, ReceiveEffect
    <2>2. [client[c] EXCEPT !.read = @ + n] \in ClientType
        <3>1. client[c] \in ClientType /\ n \in Nat
            BY <2>1, BoundAssumption DEF StreamTypes
        <3>2. <<>> \in Seq(Nat)
            OBVIOUS
        <3>. QED BY <3>1, <3>2, ClientUpdates, Zenon
    <2>. HIDE DEF c
    <2>. QED BY <2>1, <2>2 DEF StreamTypes
<1>7. ASSUME NEW h \in Handler, Send(h) PROVE StreamTypes'
    <2>. DEFINE c == peer[h]
    <2>1. c \in Clients
        BY <1>7 DEF Serving, Send
    <2>2. client[c].echoed \o buffer[h] \in Seq(Nat)
        BY <2>1 DEF StreamTypes, ClientType
    <2>3. [client[c] EXCEPT !.echoed = @ \o buffer[h]] \in ClientType
        BY <2>1, <2>2 DEF StreamTypes, ClientType
    <2>4. /\ client' = [client EXCEPT ![c].echoed = @ \o buffer[h]]
          /\ buffer' = [buffer EXCEPT ![h] = <<>>]
        BY <1>7 DEF Send
    <2>5. <<>> \in Seq(Nat) /\ Len(<<>>) <= BufferSize
        BY BoundAssumption
    <2>. HIDE DEF c
    <2>. QED BY <2>1, <2>3, <2>4, <2>5 DEF StreamTypes
<1>8. ASSUME NEW h \in Handler, HandlerEnds(h) PROVE StreamTypes'
    <2>1. <<>> \in Seq(Nat) /\ Len(<<>>) <= BufferSize
        BY BoundAssumption
    <2>2. buffer' = [buffer EXCEPT ![h] = <<>>] /\ client' = [client EXCEPT ![peer[h]] = Gone]
        BY <1>8 DEF HandlerEnds, Finish
    <2>. QED BY <2>1, <2>2, GoneType DEF StreamTypes
<1>. QED BY <1>1, <1>2, <1>3, <1>4, <1>5, <1>6, <1>7, <1>8, StepKinds

LEMMA CountersNext ==
    TypeOK /\ [Next]_vars => quit_lock' \in Nat /\ faults' \in 0..MaxFaults
<1>. SUFFICES ASSUME LifeTypes, [Next]_vars
              PROVE  quit_lock' \in Nat /\ faults' \in 0..MaxFaults
    BY Types
<1>0. /\ quit_lock \in Nat /\ quit_lock + 1 \in Nat
      /\ quit_lock > 0 => quit_lock - 1 \in Nat
      /\ faults \in 0..MaxFaults /\ (Fault => faults' \in 0..MaxFaults)
    BY BoundAssumption DEF LifeTypes, Fault
<1>1. CASE \/ \E c \in Clients : ClientStep(c)
           \/ LinkChanges \/ EventHandler \/ ShellQuit \/ ShellResends \/ TakeRunApp
           \/ StopNext \/ Return \/ UNCHANGED vars
    BY <1>0, <1>1 DEF ClientStep, SendByte, HangUp, LinkChanges, EventHandler, ShellQuit,
            ShellResends, TakeRunApp, StopNext, StopProto, StopHandlers, Return, vars, tcpVars
<1>2. CASE ShellQuits \/ TakeQuitLock
    BY <1>0, <1>2 DEF ShellQuits, TakeQuitLock, quit
<1>3. CASE StartNext
    BY <1>0, <1>3 DEF StartNext, StartProto, StartProtoFails, quit
<1>4. ASSUME NEW f \in Families, UdpFails(f) \/ AcceptFails(f) \/ Accept(f) \/ Refuse(f)
      PROVE  quit_lock' \in Nat /\ faults' \in 0..MaxFaults
    BY <1>0, <1>4 DEF UdpFails, AcceptFails, Accept, Refuse, quit
<1>5. ASSUME NEW h, HandlerStep(h)
      PROVE  quit_lock' \in Nat /\ faults' \in 0..MaxFaults
    BY <1>0, <1>5 DEF HandlerStep, Receive, ReceiveEnd, Send, SendFails
<1>. QED BY <1>1, <1>2, <1>3, <1>4, <1>5 DEF Next, TcpStep, MainStep

LEMMA LifeTypesNext == TypeOK /\ LifeInv' /\ [Next]_vars => LifeTypes'
<1>. SUFFICES ASSUME TypeOK, LifeTypes, LifeInv', [Next]_vars PROVE LifeTypes'
    BY Types
<1>0. /\ MaxEvents \in Nat /\ MaxQuits \in Nat /\ todo' \in Seq(Service)
      /\ quit_lock' \in Nat /\ faults' \in 0..MaxFaults
    BY CountersNext, LifeBoundAssumption DEF LifeInv
<1>1. ASSUME UNCHANGED lifeVars PROVE LifeTypes'
    BY <1>0, <1>1 DEF LifeTypes, lifeVars
<1>2. CASE LinkChanges
    BY <1>0, <1>2 DEF LifeTypes, LinkChanges
<1>3. CASE EventHandler
    <2>1. events' \in Seq({"up", "down"})
        BY <1>3 DEF LifeTypes, EventHandler
    <2>2. connected' \in BOOLEAN
        <3>1. connected' = (Head(events) = "up")
            BY <1>3 DEF EventHandler
        <3>2. (Head(events) = "up") \in BOOLEAN
            OBVIOUS
        <3>. QED BY <3>1, <3>2
    <2>3. /\ main' \in {main, "start"} /\ run_app' \in 0..1 /\ want_to_quit' = FALSE
          /\ shell' = shell /\ link' = link /\ changes' = changes /\ quits' = quits
        BY <1>3 DEF EventHandler
    <2>4. main' \in {"init", "waiting", "start", "stop", "ended"}
        BY <2>3 DEF LifeTypes
    <2>5. want_to_quit' \in BOOLEAN
        BY <2>3
    <2>6. /\ shell' \in {"idle", "resend", "quit"} /\ link' \in {"up", "down"}
          /\ changes' \in 0..MaxEvents /\ quits' \in 0..MaxQuits /\ run_app' \in 0..1
        BY <2>3 DEF LifeTypes
    <2>. QED BY <1>0, <2>1, <2>2, <2>4, <2>5, <2>6, Zenon DEF LifeTypes
<1>4. CASE ShellQuit \/ ShellResends \/ ShellQuits
    <2>1. /\ events' \in Seq({"up", "down"}) /\ quits' \in 0..MaxQuits
          /\ shell' \in {"idle", "resend", "quit"} /\ want_to_quit' \in BOOLEAN
        <3>1. CASE ShellQuit
            BY <1>0, <3>1 DEF LifeTypes, ShellQuit
        <3>2. CASE ShellResends
            BY <3>2 DEF LifeTypes, ShellResends
        <3>3. CASE ShellQuits
            BY <3>3 DEF LifeTypes, ShellQuits
        <3>. QED BY <1>4, <3>1, <3>2, <3>3
    <2>2. UNCHANGED <<main, run_app, connected, link, changes>>
        BY <1>4 DEF ShellQuit, ShellResends, ShellQuits
    <2>. QED BY <1>0, <2>1, <2>2 DEF LifeTypes
<1>5. CASE TakeRunApp \/ StartNext
    BY <1>0, <1>5 DEF LifeTypes, TakeRunApp, StartNext
<1>6. CASE TakeQuitLock \/ StopNext \/ Return
    BY <1>0, <1>6 DEF LifeTypes, TakeQuitLock, StopNext, Return
<1>7. ASSUME NEW f \in Families, UdpFails(f) PROVE LifeTypes'
    BY <1>1, <1>7 DEF UdpFails
<1>. QED BY <1>1, <1>2, <1>3, <1>4, <1>5, <1>6, <1>7 DEF Next, MainStep, vars

-----------------------------------------------------------------------------
(* Who holds which descriptor *)

\* A service has no socket before it starts.
HoldersInv ==
    /\ DescriptorsHaveOneHolder
    /\ \A s \in Service : service[s] = "off" => sock[s] = NONE

LEMMA HoldersInit == Init => HoldersInv
<1>. SUFFICES ASSUME Init PROVE HoldersInv
    OBVIOUS
<1>1. /\ open = {} /\ \A s \in Service : sock[s] = NONE
      /\ \A h \in Handler : accepted[h] = NONE
    BY DEF Init, TcpInit
<1>. QED BY <1>1 DEF HoldersInv, DescriptorsHaveOneHolder, HoldsSock, HoldsAccepted

\* The same, with every descriptor in use named by its holder.
LEMMA HoldersMeaning ==
    DescriptorsHaveOneHolder <=>
        /\ \A d \in open : \/ \E s \in Service : HoldsSock(s) /\ sock[s] = d
                           \/ \E h \in Handler : HoldsAccepted(h) /\ accepted[h] = d
        /\ \A s \in Service : HoldsSock(s) => sock[s] \in open
        /\ \A h \in Handler : HoldsAccepted(h) => accepted[h] \in open
        /\ \A s, t \in Service : HoldsSock(s) /\ HoldsSock(t) /\ sock[s] = sock[t] => s = t
        /\ \A g, h \in Handler :
              HoldsAccepted(g) /\ HoldsAccepted(h) /\ accepted[g] = accepted[h] => g = h
        /\ \A s \in Service, h \in Handler :
              HoldsSock(s) /\ HoldsAccepted(h) => sock[s] # accepted[h]
BY DEF DescriptorsHaveOneHolder

\* Holders change only by taking a free descriptor or by giving back their own.
LEMMA HoldersNext ==
    /\ TypeOK /\ LifeInv /\ HoldersInv /\ Serving /\ SlotsMatchHandlers
    /\ [Next]_vars
    => HoldersInv'
<1>. SUFFICES ASSUME TableTypes, SlotTypes, LifeInv, HoldersInv, SlotsMatchHandlers, [Next]_vars
              PROVE  HoldersInv'
    BY Types
<1>. DEFINE Meaning ==
        /\ \A d \in open : \/ \E s \in Service : HoldsSock(s) /\ sock[s] = d
                           \/ \E h \in Handler : HoldsAccepted(h) /\ accepted[h] = d
        /\ \A s \in Service : HoldsSock(s) => sock[s] \in open
        /\ \A h \in Handler : HoldsAccepted(h) => accepted[h] \in open
        /\ \A s, t \in Service : HoldsSock(s) /\ HoldsSock(t) /\ sock[s] = sock[t] => s = t
        /\ \A g, h \in Handler :
              HoldsAccepted(g) /\ HoldsAccepted(h) /\ accepted[g] = accepted[h] => g = h
        /\ \A s \in Service, h \in Handler :
              HoldsSock(s) /\ HoldsAccepted(h) => sock[s] # accepted[h]
<1>0. Meaning /\ (Meaning' => DescriptorsHaveOneHolder')
    <2>1. Meaning
        BY HoldersMeaning DEF HoldersInv
    <2>2. Meaning' => DescriptorsHaveOneHolder'
        BY DEF DescriptorsHaveOneHolder
    <2>. QED BY <2>1, <2>2
<1>t. \A h \in Handler : Tcp(h[1]) \in Service /\ Tcp(h[1])[1] = "tcp"
    BY DEF Handler, Tcp, Service
<1>o. \A s \in Service : service[s] = "off" => sock[s] = NONE
    BY DEF HoldersInv
<1>1. ASSUME UNCHANGED <<open, sock, accepted>>,
             \A s \in Service : \/ service'[s] = service[s]
                                \/ service[s] \in Started /\ service'[s] \in Started
      PROVE  HoldersInv'
    <2>1. \A s \in Service : HoldsSock(s)' <=> HoldsSock(s)
        BY <1>1 DEF HoldsSock, Started
    <2>2. \A h \in Handler : HoldsAccepted(h)' <=> HoldsAccepted(h)
        BY <1>1, <1>t DEF HoldsAccepted, Started
    <2>3. Meaning'
        BY <1>0, <1>1, <2>1, <2>2
    <2>. QED BY <1>0, <1>1, <1>o, <2>3 DEF HoldersInv, Started
<1>2. CASE \/ Quiet \/ \E c \in Clients : ClientStep(c)
           \/ \E f \in Families : Refuse(f)
           \/ \E h \in Handler : Receive(h) \/ Send(h)
    BY <1>1, <1>2 DEF Quiet, slotVars, ClientStep, SendByte, HangUp, Refuse, Receive, Send
<1>3. ASSUME NEW f \in Families, Accept(f) PROVE HoldersInv'
    <2>1. PICK c \in Clients, d \in Descriptors, i \in Slots :
             Accepts(f, c, d, i) /\ <<f, i>> \in Handler
        BY <1>3, AcceptEffect
    <2>. DEFINE x == <<f, i>>
    <2>2. /\ d \notin open /\ d # NONE /\ x \in Handler
          /\ open' = open \cup {d} /\ UNCHANGED <<sock, service>>
          /\ accepted[x] = NONE /\ service[Tcp(x[1])] = "waiting"
          /\ \A h \in Handler : accepted'[h] = IF h = x THEN d ELSE accepted[h]
        BY <2>1, DescriptorAssumption DEF Accepts, FirstFree, SlotTypes
    <2>. HIDE DEF x
    <2>3. \A s \in Service : HoldsSock(s)' <=> HoldsSock(s)
        BY <2>2 DEF HoldsSock
    <2>4. \A h \in Handler : HoldsAccepted(h)' <=> h = x \/ HoldsAccepted(h)
        BY <2>2 DEF HoldsAccepted
    <2>5. \A s \in Service : HoldsSock(s) => sock'[s] = sock[s] /\ sock[s] # d
        BY <1>0, <2>2
    <2>6. \A h \in Handler : HoldsAccepted(h) => accepted[h] # d
                                    /\ (h # x => accepted'[h] = accepted[h])
        BY <1>0, <2>2
    <2>7. ~HoldsAccepted(x)
        BY <2>2 DEF HoldsAccepted
    <2>8. Meaning'
        <3>1. /\ \A e \in open' : \/ \E s \in Service : HoldsSock(s)' /\ sock'[s] = e
                                \/ \E h \in Handler : HoldsAccepted(h)' /\ accepted'[h] = e
              /\ \A s \in Service : HoldsSock(s)' => sock'[s] \in open'
              /\ \A h \in Handler : HoldsAccepted(h)' => accepted'[h] \in open'
            BY <1>0, <2>2, <2>3, <2>4, <2>5, <2>6, <2>7
        <3>2. \A s, t \in Service :
                 HoldsSock(s)' /\ HoldsSock(t)' /\ sock'[s] = sock'[t] => s = t
            BY <1>0, <2>3, <2>5
        <3>3. \A g, h \in Handler :
                 HoldsAccepted(g)' /\ HoldsAccepted(h)' /\ accepted'[g] = accepted'[h] => g = h
            BY <1>0, <2>2, <2>4, <2>6
        <3>4. \A s \in Service, h \in Handler :
                 HoldsSock(s)' /\ HoldsAccepted(h)' => sock'[s] # accepted'[h]
            BY <1>0, <2>2, <2>3, <2>4, <2>5, <2>6
        <3>. QED BY <3>1, <3>2, <3>3, <3>4, Zenon
    <2>. QED BY <1>0, <1>o, <2>2, <2>8 DEF HoldersInv
<1>4. ASSUME NEW x \in Handler, HandlerEnds(x) PROVE HoldersInv'
    <2>1. /\ UNCHANGED <<sock, service>> /\ open' = open \ {accepted[x]}
          /\ \A h \in Handler : accepted'[h] = IF h = x THEN NONE ELSE accepted[h]
        BY <1>4 DEF HandlerEnds, Finish, SlotTypes
    <2>2. HoldsAccepted(x)
        BY <1>4 DEF HandlerEnds, HoldsAccepted, SlotsMatchHandlers
    <2>3. \A s \in Service : HoldsSock(s)' <=> HoldsSock(s)
        BY <2>1 DEF HoldsSock
    <2>4. \A h \in Handler : HoldsAccepted(h)' <=> h # x /\ HoldsAccepted(h)
        BY <2>1 DEF HoldsAccepted
    <2>5. Meaning'
        BY <1>0, <2>1, <2>2, <2>3, <2>4
    <2>. QED BY <1>0, <1>o, <2>1, <2>5 DEF HoldersInv
<1>5. ASSUME NEW x \in Service, ServiceEnds(x) PROVE HoldersInv'
    BY <1>1, <1>5 DEF ServiceEnds, slotVars, TableTypes, Started
<1>6. ASSUME NEW x \in Service, ServiceStarts(x) PROVE HoldersInv'
    <2>1. /\ service[x] = "off" /\ accepted' = accepted
          /\ \A s \in Service : IF s = x THEN service'[s] \in Started
                                          ELSE service'[s] = service[s]
        BY <1>6 DEF ServiceStarts, slotVars, TableTypes
    <2>2. \A h \in Handler : HoldsAccepted(h)' <=> HoldsAccepted(h)
        BY <1>t, <2>1 DEF HoldsAccepted, Started
    <2>3. CASE UNCHANGED <<open, sock>>
        <3>1. sock[x] = NONE
            BY <1>o, <2>1
        <3>2. \A s \in Service : HoldsSock(s)' <=> HoldsSock(s)
            BY <2>1, <2>3, <3>1 DEF HoldsSock, Started
        <3>3. Meaning'
            BY <1>0, <2>1, <2>2, <2>3, <3>2
        <3>. QED BY <1>0, <1>o, <2>1, <2>3, <3>3 DEF HoldersInv, Started
    <2>4. ASSUME NEW d \in Descriptors, FirstFree(d), open' = open \cup {d},
                 sock' = [sock EXCEPT ![x] = d]
          PROVE  HoldersInv'
        <3>1. /\ d \notin open /\ d # NONE
              /\ \A s \in Service : sock'[s] = IF s = x THEN d ELSE sock[s]
            BY <2>4, DescriptorAssumption DEF FirstFree, TableTypes
        <3>2. \A s \in Service : HoldsSock(s)' <=> s = x \/ HoldsSock(s)
            BY <2>1, <3>1 DEF HoldsSock, Started
        <3>3. ~HoldsSock(x) /\ accepted' = accepted
            BY <2>1 DEF HoldsSock
        <3>4. \A h \in Handler : HoldsAccepted(h) => accepted[h] # d
            BY <1>0, <3>1
        <3>5. \A s \in Service : HoldsSock(s) => sock[s] # d
            BY <1>0, <3>1
        <3>6. /\ \A e \in open' : \/ \E s \in Service : HoldsSock(s)' /\ sock'[s] = e
                                \/ \E h \in Handler : HoldsAccepted(h)' /\ accepted'[h] = e
              /\ \A s \in Service : HoldsSock(s)' => sock'[s] \in open'
              /\ \A h \in Handler : HoldsAccepted(h)' => accepted'[h] \in open'
            BY <1>0, <2>2, <2>4, <3>1, <3>2, <3>3
        <3>7. \A s, t \in Service :
                 HoldsSock(s)' /\ HoldsSock(t)' /\ sock'[s] = sock'[t] => s = t
            BY <1>0, <3>1, <3>2, <3>5
        <3>8. \A g, h \in Handler :
                 HoldsAccepted(g)' /\ HoldsAccepted(h)' /\ accepted'[g] = accepted'[h] => g = h
            BY <1>0, <2>2, <3>3
        <3>9. \A s \in Service, h \in Handler :
                 HoldsSock(s)' /\ HoldsAccepted(h)' => sock'[s] # accepted'[h]
            BY <1>0, <2>2, <3>1, <3>2, <3>3, <3>4
        <3>10. Meaning'
            BY <3>6, <3>7, <3>8, <3>9, Zenon
        <3>. QED BY <1>0, <1>o, <2>1, <3>1, <3>10 DEF HoldersInv, Started
    <2>. QED BY <1>6, <2>3, <2>4 DEF ServiceStarts
<1>7. ASSUME NEW x \in Service, ServiceStops(x) PROVE HoldersInv'
    <2>1. /\ service[x] \in Started /\ UNCHANGED <<sock, accepted>>
          /\ open' = open \ {sock[x]}
          /\ \A s \in Service :
                service'[s] = IF s = x THEN IF x[1] = "tcp" THEN "aborted" ELSE "stopped"
                                       ELSE service[s]
        BY <1>7 DEF ServiceStops, slotVars, TableTypes
    <2>2. \A h \in Handler : HoldsAccepted(h)' <=> HoldsAccepted(h)
        BY <1>t, <2>1 DEF HoldsAccepted, Started
    <2>3. \A s \in Service : HoldsSock(s)' <=> s # x /\ HoldsSock(s)
        BY <2>1 DEF HoldsSock
    <2>4. HoldsSock(x) \/ (sock[x] = NONE /\ NONE \notin open)
        BY <2>1, DescriptorAssumption DEF HoldsSock, TableTypes, Started
    <2>5. Meaning'
        BY <1>0, <2>1, <2>2, <2>3, <2>4
    <2>. QED BY <1>0, <1>o, <2>1, <2>5 DEF HoldersInv
<1>8. ASSUME NEW f \in Families, HandlersStop(f) PROVE HoldersInv'
    <2>1. /\ Tcp(f) \in Service /\ service[Tcp(f)] = "aborted" /\ UNCHANGED <<sock, accepted>>
          /\ open' = open \ {accepted[<<f, i>>] : i \in Slots}
          /\ \A s \in Service : service'[s] = IF s = Tcp(f) THEN "stopped" ELSE service[s]
        BY <1>8 DEF HandlersStop, StopHandlers, TableTypes, Tcp, Service
    <2>2. \A s \in Service : HoldsSock(s)' <=> HoldsSock(s)
        BY <2>1 DEF HoldsSock
    <2>3. \A h \in Handler : Tcp(h[1]) = Tcp(f) <=> \E i \in Slots : h = <<f, i>>
        BY DEF Tcp, Handler
    <2>4. \A h \in Handler : HoldsAccepted(h)' <=> Tcp(h[1]) # Tcp(f) /\ HoldsAccepted(h)
        BY <1>t, <2>1 DEF HoldsAccepted
    <2>5. \A i \in Slots : LET h == <<f, i>> IN
             h \in Handler /\ (HoldsAccepted(h) \/ (accepted[h] = NONE /\ NONE \notin open))
        BY <2>1, DescriptorAssumption DEF HoldsAccepted, Handler, TableTypes
    <2>6. \A d : d \in open' <=> d \in open /\ \A i \in Slots : d # accepted[<<f, i>>]
        BY <2>1
    <2>7. Meaning'
        BY <1>0, <2>1, <2>2, <2>3, <2>4, <2>5, <2>6
    <2>. QED BY <1>0, <1>o, <2>1, <2>7 DEF HoldersInv
<1>. QED BY <1>2, <1>3, <1>4, <1>5, <1>6, <1>7, <1>8, StepKinds

-----------------------------------------------------------------------------
(* Slots and handlers *)

SlotsInv == SlotsMatchHandlers /\ Serving

LEMMA SlotsInit == Init => SlotsInv
BY DEF Init, TcpInit, SlotsInv, SlotsMatchHandlers, Serving

\* Sending, hanging up, reading and echoing leave a client with its handler.
LEMMA StateKept ==
    ASSUME StreamTypes, NEW c \in Clients,
           \/ client' = [client EXCEPT ![c].sent = @ + 1]
           \/ \E how : client' = [client EXCEPT ![c].end = how]
           \/ \E n : client' = [client EXCEPT ![c].read = @ + n]
           \/ \E b : client' = [client EXCEPT ![c].echoed = @ \o b]
    PROVE  \A d \in Clients : client'[d].state = client[d].state
<1>1. client[c] \in ClientType
    BY DEF StreamTypes
<1>2. ASSUME NEW k, k.state = client[c].state, client' = [client EXCEPT ![c] = k]
      PROVE  \A d \in Clients : client'[d].state = client[d].state
    BY <1>2 DEF StreamTypes
<1>3. \A x : /\ [client[c] EXCEPT !.sent = x].state = client[c].state
             /\ [client[c] EXCEPT !.end = x].state = client[c].state
             /\ [client[c] EXCEPT !.read = x].state = client[c].state
             /\ [client[c] EXCEPT !.echoed = x].state = client[c].state
    BY <1>1 DEF ClientType
<1>4. CASE client' = [client EXCEPT ![c].sent = @ + 1]
    <2>1. client' = [client EXCEPT ![c] = [client[c] EXCEPT !.sent = client[c].sent + 1]]
        BY <1>4
    <2>. QED BY <1>2, <1>3, <2>1
<1>5. ASSUME NEW how, client' = [client EXCEPT ![c].end = how]
      PROVE  \A d \in Clients : client'[d].state = client[d].state
    <2>1. client' = [client EXCEPT ![c] = [client[c] EXCEPT !.end = how]]
        BY <1>5
    <2>. QED BY <1>2, <1>3, <2>1
<1>6. ASSUME NEW n, client' = [client EXCEPT ![c].read = @ + n]
      PROVE  \A d \in Clients : client'[d].state = client[d].state
    <2>1. client' = [client EXCEPT ![c] = [client[c] EXCEPT !.read = client[c].read + n]]
        BY <1>6
    <2>. QED BY <1>2, <1>3, <2>1
<1>7. ASSUME NEW b, client' = [client EXCEPT ![c].echoed = @ \o b]
      PROVE  \A d \in Clients : client'[d].state = client[d].state
    <2>1. client' = [client EXCEPT ![c] = [client[c] EXCEPT !.echoed = client[c].echoed \o b]]
        BY <1>7
    <2>. QED BY <1>2, <1>3, <2>1
<1>. QED BY <1>4, <1>5, <1>6, <1>7

LEMMA SlotsNext ==
    ASSUME TypeOK, LifeInv, SlotsInv, [Next]_vars
    PROVE  SlotsInv'
<1>0. TableTypes /\ SlotTypes /\ StreamTypes
    BY Types
<1>t. \A h \in Handler : Tcp(h[1]) \in Service
    BY DEF Handler, Tcp, Service
<1>. USE DEF SlotsInv, SlotsMatchHandlers, Serving
<1>1. ASSUME UNCHANGED <<accepted, in_use, peer>>,
             \A h \in Handler : handler'[h] = "none" <=> handler[h] = "none",
             \A c \in Clients : client[c].state = "served" => client'[c].state = "served",
             \A s \in Service : service'[s] = "stopped" <=> service[s] = "stopped"
      PROVE  SlotsInv'
    BY <1>1, <1>t
<1>2. CASE Quiet
    BY <1>1, <1>2 DEF Quiet, slotVars
<1>3. CASE \E s \in Service : ServiceEnds(s) \/ ServiceStarts(s)
    <2>1. \A s \in Service : service'[s] = "stopped" <=> service[s] = "stopped"
        BY <1>0, <1>3 DEF ServiceEnds, ServiceStarts, TableTypes, Started
    <2>. QED BY <1>1, <1>3, <2>1 DEF ServiceEnds, ServiceStarts, slotVars
<1>4. ASSUME NEW s \in Service, ServiceStops(s) PROVE SlotsInv'
    <2>1. \A h \in Handler : service'[Tcp(h[1])] = "stopped" <=> service[Tcp(h[1])] = "stopped"
        <3>1. \A h \in Handler : Tcp(h[1])[1] = "tcp"
            BY DEF Tcp
        <3>. QED BY <1>0, <1>4, <1>t, <3>1 DEF ServiceStops, TableTypes, Started
    <2>2. UNCHANGED <<accepted, in_use, handler, peer, client>>
        BY <1>4 DEF ServiceStops, slotVars
    <2>. QED BY <2>1, <2>2
<1>5. CASE \E c \in Clients : ClientStep(c)
    <2>1. UNCHANGED <<service, accepted, in_use, peer, handler>>
        BY <1>5 DEF ClientStep, SendByte, HangUp, slotVars
    <2>2. \A c \in Clients : client'[c].state = client[c].state
        <3>1. PICK c \in Clients : ClientStep(c)
            BY <1>5
        <3>2. \/ client' = [client EXCEPT ![c].sent = @ + 1]
              \/ \E how : client' = [client EXCEPT ![c].end = how]
            BY <3>1, Zenon DEF ClientStep, SendByte, HangUp
        <3>. QED BY <1>0, <3>2, StateKept
    <2>. QED BY <1>1, <2>1, <2>2
<1>6. CASE \E f \in Families : Refuse(f)
    <2>1. UNCHANGED <<service, accepted, in_use, peer, handler>>
        BY <1>6 DEF Refuse, slotVars
    <2>2. \A c \in Clients : client[c].state = "served" => client'[c].state = "served"
        BY <1>0, <1>6 DEF Refuse, Connecting, StreamTypes
    <2>. QED BY <1>1, <2>1, <2>2
<1>7. ASSUME NEW h \in Handler, Receive(h) \/ Send(h) PROVE SlotsInv'
    <2>1. UNCHANGED <<service, accepted, in_use, peer>>
        BY <1>7 DEF Receive, Send
    <2>2. \A g \in Handler : handler'[g] = "none" <=> handler[g] = "none"
        BY <1>0, <1>7 DEF Receive, Send, SlotTypes
    <2>3. \A c \in Clients : client'[c].state = client[c].state
        <3>1. peer[h] \in Clients
            BY <1>7 DEF Receive, Send
        <3>2. \/ \E n : client' = [client EXCEPT ![peer[h]].read = @ + n]
              \/ \E b : client' = [client EXCEPT ![peer[h]].echoed = @ \o b]
            BY <1>7, Zenon DEF Receive, Send
        <3>. QED BY <1>0, <3>1, <3>2, StateKept
    <2>. QED BY <1>1, <2>1, <2>2, <2>3
<1>8. ASSUME NEW f \in Families, Accept(f) PROVE SlotsInv'
    <2>1. PICK c \in Clients, d \in Descriptors, i \in Slots :
             Accepts(f, c, d, i) /\ <<f, i>> \in Handler
        BY <1>8, AcceptEffect
    <2>. DEFINE x == <<f, i>>
    <2>2. /\ x \in Handler /\ service' = service /\ service[Tcp(x[1])] = "waiting"
          /\ accepted[x] = NONE /\ d # NONE /\ client[c].state = "away"
        BY <2>1, DescriptorAssumption DEF Accepts
    <2>a. /\ accepted' = [accepted EXCEPT ![x] = d] /\ in_use' = [in_use EXCEPT ![x] = TRUE]
          /\ handler' = [handler EXCEPT ![x] = "receiving"] /\ peer' = [peer EXCEPT ![x] = c]
          /\ client' = [client EXCEPT ![c].state = "served"]
        BY <2>1, Zenon DEF Accepts
    <2>. HIDE DEF x
    <2>b. \A h \in Handler :
              IF h = x THEN /\ accepted'[h] = d /\ in_use'[h] = TRUE
                            /\ handler'[h] = "receiving" /\ peer'[h] = c
              ELSE /\ accepted'[h] = accepted[h] /\ in_use'[h] = in_use[h]
                   /\ handler'[h] = handler[h] /\ peer'[h] = peer[h]
        BY <1>0, <2>2, <2>a DEF SlotTypes
    <2>c. client'[c].state = "served" /\ \A k \in Clients : k # c => client'[k] = client[k]
        BY <1>0, <2>a DEF StreamTypes, ClientType
    <2>3. \A h \in Handler : handler[h] # "none" => peer[h] # c /\ h # x
        BY <2>2
    <2>4. Serving'
        BY <2>2, <2>3, <2>b, <2>c
    <2>5. /\ \A h \in Handler :
                handler'[h] # "none" <=>
                    service'[Tcp(h[1])] # "stopped" /\ accepted'[h] # NONE /\ in_use'[h]
          /\ \A h \in Handler : service'[Tcp(h[1])] # "stopped" /\ accepted'[h] # NONE
                                    => in_use'[h]
        BY <2>2, <2>b
    <2>6. \A g, h \in Handler :
             handler'[g] # "none" /\ handler'[h] # "none" /\ peer'[g] = peer'[h] => g = h
        BY <2>2, <2>3, <2>b, <2>c
    <2>. QED BY <2>4, <2>5, <2>6
<1>9. ASSUME NEW x \in Handler, HandlerEnds(x) PROVE SlotsInv'
    <2>1. /\ service' = service /\ handler[x] # "none"
          /\ \A c \in Clients : c # peer[x] => client'[c] = client[c]
          /\ \A h \in Handler :
                IF h = x THEN /\ accepted'[h] = NONE /\ handler'[h] = "none"
                ELSE /\ accepted'[h] = accepted[h] /\ in_use'[h] = in_use[h]
                     /\ handler'[h] = handler[h] /\ peer'[h] = peer[h]
        BY <1>0, <1>9 DEF HandlerEnds, Finish, SlotTypes, StreamTypes
    <2>2. \A h \in Handler : h # x /\ handler[h] # "none" => peer[h] # peer[x]
        BY <2>1
    <2>. QED BY <2>1, <2>2
<1>10. ASSUME NEW f \in Families, HandlersStop(f) PROVE SlotsInv'
    <2>1. \A h \in Handler : Tcp(h[1]) = Tcp(f) <=> h[1] = f
        BY DEF Tcp
    <2>2. /\ service[Tcp(f)] = "aborted" /\ UNCHANGED <<accepted, in_use, peer>>
          /\ \A h \in Handler : service'[Tcp(h[1])] = IF h[1] = f THEN "stopped"
                                                     ELSE service[Tcp(h[1])]
          /\ \A h \in Handler : handler'[h] = IF h[1] = f /\ in_use[h] THEN "none"
                                             ELSE handler[h]
        BY <1>0, <1>10, <1>t, <2>1 DEF HandlersStop, StopHandlers, TableTypes
    <2>4. ASSUME NEW h \in Handler, handler'[h] # "none"
          PROVE  peer[h] \in Clients /\ client'[peer[h]].state = "served"
        <3>1. handler[h] # "none" /\ h[1] # f /\ peer[h] \in Clients
            BY <2>2, <2>4
        <3>2. ~\E i \in Slots : accepted[<<f, i>>] # NONE /\ peer[<<f, i>>] = peer[h]
            <4>1. SUFFICES ASSUME NEW i \in Slots, accepted[<<f, i>>] # NONE,
                                  peer[<<f, i>>] = peer[h]
                           PROVE  FALSE
                OBVIOUS
            <4>2. <<f, i>> \in Handler /\ <<f, i>>[1] = f
                BY DEF Handler
            <4>3. handler[<<f, i>>] # "none"
                BY <2>2, <4>1, <4>2
            <4>. QED BY <3>1, <4>1, <4>2, <4>3
        <3>3. client'[peer[h]] = client[peer[h]]
            BY <1>10, <3>1, <3>2 DEF HandlersStop, StopHandlers
        <3>. QED BY <3>1, <3>3
    <2>. QED BY <2>2, <2>4
<1>. QED BY <1>2, <1>3, <1>4, <1>5, <1>6, <1>7, <1>8, <1>9, <1>10, StepKinds

-----------------------------------------------------------------------------
(* Bytes *)

\* What was echoed is the beginning of what was sent, and what was read since is
\* in the buffer b, in the order in which it was sent.
Clean(k) == /\ Len(k.echoed) <= k.read /\ k.read <= k.sent
            /\ \A i \in 1..Len(k.echoed) : k.echoed[i] = i
Pending(k, b) == /\ k.read = Len(k.echoed) + Len(b)
                 /\ \A j \in 1..Len(b) : b[j] = Len(k.echoed) + j

EchoInv ==
    /\ \A c \in Clients : Clean(client[c])
    /\ \A c \in Clients : client[c].state = "away" => client[c] = NewClient
    /\ \A h \in Handler : handler[h] # "none" => Pending(client[peer[h]], buffer[h])

LEMMA Unused == Clean(NewClient) /\ Clean(Gone) /\ Gone.state = "gone"
BY DEF Gone, NewClient, Clean

LEMMA EchoInit == Init => EchoInv
<1>. SUFFICES ASSUME Init PROVE EchoInv
    OBVIOUS
<1>1. /\ client = [c \in Clients |-> NewClient] /\ handler = [h \in Handler |-> "none"]
    BY DEF Init, TcpInit
<1>. QED BY <1>1, Unused, Zenon DEF EchoInv

\* Reading and echoing, with the fields they change.
LEMMA Reads ==
    ASSUME NEW k \in ClientType, NEW n \in Nat, NEW b \in Seq(Nat), NEW m \in ClientType,
           Clean(k), Pending(k, b), k.read + n <= k.sent,
           m = [k EXCEPT !.read = k.read + n],
           NEW e \in Seq(Nat), Len(e) = n, \A j \in 1..n : e[j] = k.read + j
    PROVE  Clean(m) /\ Pending(m, b \o e)
<1>1. /\ m.echoed = k.echoed /\ m.read = k.read + n /\ m.sent = k.sent
      /\ k.echoed \in Seq(Nat) /\ k.read \in Nat /\ k.sent \in Nat
    BY DEF ClientType
<1>. DEFINE l == Len(k.echoed)
<1>2. l \in Nat /\ l <= k.read /\ k.read = l + Len(b) /\ Len(b) \in Nat
    BY <1>1 DEF Clean, Pending
<1>3. Clean(m)
    BY <1>1, <1>2 DEF Clean
<1>4. /\ Len(b \o e) = Len(b) + n
      /\ \A j \in 1..(Len(b) + n) : (b \o e)[j] = IF j <= Len(b) THEN b[j] ELSE e[j - Len(b)]
    BY Joined
<1>5. \A j \in 1..Len(b) : b[j] = l + j
    BY DEF Pending
<1>. HIDE DEF l
<1>6. ASSUME NEW j \in 1..(Len(b) + n) PROVE (b \o e)[j] = l + j
    <2>1. CASE j <= Len(b)
        BY <1>2, <1>4, <1>5, <2>1
    <2>2. CASE ~(j <= Len(b))
        <3>1. j - Len(b) \in 1..n /\ k.read + (j - Len(b)) = l + j
            BY <1>2, <2>2
        <3>. QED BY <1>4, <2>2, <3>1
    <2>. QED BY <2>1, <2>2
<1>7. Pending(m, b \o e)
    <2>1. m.read = l + Len(b \o e)
        BY <1>1, <1>2, <1>4
    <2>. QED BY <1>1, <1>4, <1>6, <2>1 DEF Pending, l
<1>. QED BY <1>3, <1>7

LEMMA Echoes ==
    ASSUME NEW k \in ClientType, NEW b \in Seq(Nat), NEW m \in ClientType,
           Clean(k), Pending(k, b), m = [k EXCEPT !.echoed = k.echoed \o b]
    PROVE  Clean(m) /\ Pending(m, <<>>)
<1>1. /\ m.echoed = k.echoed \o b /\ m.read = k.read /\ m.sent = k.sent
      /\ k.echoed \in Seq(Nat) /\ k.read \in Nat /\ k.sent \in Nat
    BY DEF ClientType
<1>. DEFINE e == k.echoed
<1>2. /\ e \in Seq(Nat) /\ Len(e) \in Nat /\ Len(b) \in Nat
      /\ k.read = Len(e) + Len(b) /\ k.read <= k.sent
      /\ \A i \in 1..Len(e) : e[i] = i
      /\ \A j \in 1..Len(b) : b[j] = Len(e) + j
    BY <1>1 DEF Clean, Pending
<1>. HIDE DEF e
<1>3. /\ Len(e \o b) = Len(e) + Len(b)
      /\ \A i \in 1..(Len(e) + Len(b)) : (e \o b)[i] = IF i <= Len(e) THEN e[i]
                                                       ELSE b[i - Len(e)]
    BY <1>2, Joined
<1>4. ASSUME NEW i \in 1..(Len(e) + Len(b)) PROVE (e \o b)[i] = i
    <2>1. CASE i <= Len(e)
        BY <1>2, <1>3, <2>1
    <2>2. CASE ~(i <= Len(e))
        <3>1. i - Len(e) \in 1..Len(b) /\ Len(e) + (i - Len(e)) = i
            BY <1>2, <2>2
        <3>. QED BY <1>2, <1>3, <2>2, <3>1
    <2>. QED BY <2>1, <2>2
<1>5. m.echoed = e \o b
    BY <1>1 DEF e
<1>6. Len(<<>>) = 0
    OBVIOUS
<1>7. Clean(m)
    BY <1>1, <1>2, <1>3, <1>4, <1>5 DEF Clean
<1>8. Pending(m, <<>>)
    BY <1>1, <1>2, <1>3, <1>5, <1>6 DEF Pending
<1>. QED BY <1>7, <1>8

LEMMA EchoNext ==
    ASSUME TypeOK, StreamTypes', LifeInv, SlotsInv, EchoInv, [Next]_vars
    PROVE  EchoInv'
<1>0. TableTypes /\ SlotTypes /\ StreamTypes
    BY Types
<1>s. /\ Serving
      /\ \A g, h \in Handler :
             handler[g] # "none" /\ handler[h] # "none" /\ peer[g] = peer[h] => g = h
    BY DEF SlotsInv, SlotsMatchHandlers
<1>1. ASSUME UNCHANGED <<peer, buffer, handler, client>> PROVE EchoInv'
    BY <1>1 DEF EchoInv
<1>2. CASE \/ Quiet
           \/ \E s \in Service : ServiceEnds(s) \/ ServiceStarts(s) \/ ServiceStops(s)
    BY <1>1, <1>2 DEF Quiet, ServiceEnds, ServiceStarts, ServiceStops, slotVars
\* The client's record changes, and nobody's buffer or that of its own handler.
<1>3. ASSUME NEW c \in Clients, NEW m, client' = [client EXCEPT ![c] = m],
             Clean(m), m.state # "away",
             \A h \in Handler : handler'[h] # "none" =>
                IF peer'[h] = c THEN Pending(m, buffer'[h])
                ELSE handler[h] # "none" /\ peer'[h] = peer[h] /\ buffer'[h] = buffer[h]
      PROVE  EchoInv'
    <2>1. client'[c] = m /\ \A d \in Clients : d # c => client'[d] = client[d]
        BY <1>0, <1>3 DEF StreamTypes
    <2>2. \A h \in Handler : handler'[h] # "none" => Pending(client'[peer'[h]], buffer'[h])
        <3>1. SUFFICES ASSUME NEW h \in Handler, handler'[h] # "none"
                       PROVE  Pending(client'[peer'[h]], buffer'[h])
            OBVIOUS
        <3>2. CASE peer'[h] = c
            BY <1>3, <2>1, <3>1, <3>2
        <3>3. CASE peer'[h] # c
            <4>1. /\ handler[h] # "none" /\ peer'[h] = peer[h] /\ buffer'[h] = buffer[h]
                  /\ peer[h] \in Clients
                BY <1>3, <1>s, <3>1, <3>3 DEF Serving
            <4>2. client'[peer'[h]] = client[peer[h]]
                BY <2>1, <3>3, <4>1
            <4>3. Pending(client[peer[h]], buffer[h])
                BY <4>1 DEF EchoInv
            <4>. QED BY <4>1, <4>2, <4>3
        <3>. QED BY <3>2, <3>3
    <2>. QED BY <1>3, <2>1, <2>2 DEF EchoInv
<1>4. ASSUME NEW c \in Clients, ClientStep(c) PROVE EchoInv'
    <2>. DEFINE k == client[c]
    <2>1. k \in ClientType /\ Clean(k) /\ k.state = "served"
          /\ UNCHANGED <<peer, buffer, handler>>
        BY <1>0, <1>4 DEF StreamTypes, EchoInv, ClientStep, SendByte, HangUp, slotVars
    <2>2. ASSUME NEW m, client' = [client EXCEPT ![c] = m], m.echoed = k.echoed,
                 m.read = k.read, m.sent >= k.sent, m.sent \in Nat, m.state = k.state
          PROVE  EchoInv'
        <3>1. Clean(m)
            <4>1. /\ Len(k.echoed) <= k.read /\ k.read <= k.sent
                  /\ \A i \in 1..Len(k.echoed) : k.echoed[i] = i
                  /\ k.read \in Nat /\ k.sent \in Nat
                BY <2>1 DEF Clean, ClientType
            <4>2. k.read <= m.sent
                BY <2>2, <4>1
            <4>. QED BY <2>2, <4>1, <4>2 DEF Clean
        <3>2. \A h \in Handler : handler[h] # "none" /\ peer[h] = c => Pending(m, buffer[h])
            BY <2>2 DEF EchoInv, Pending
        <3>. QED BY <1>3, <2>1, <2>2, <3>1, <3>2
    <2>3. CASE SendByte(c)
        <3>. DEFINE m == [k EXCEPT !.sent = k.sent + 1]
        <3>1. client' = [client EXCEPT ![c] = m]
            BY <2>3 DEF SendByte
        <3>2. /\ m.echoed = k.echoed /\ m.read = k.read /\ m.state = k.state
              /\ m.sent >= k.sent /\ m.sent \in Nat
            BY <2>1 DEF ClientType
        <3>. HIDE DEF m, k
        <3>. QED BY <2>2, <3>1, <3>2
    <2>4. ASSUME NEW how, HangUp(c, how) PROVE EchoInv'
        <3>. DEFINE m == [k EXCEPT !.end = how]
        <3>1. client' = [client EXCEPT ![c] = m]
            BY <2>4 DEF HangUp
        <3>2. /\ m.echoed = k.echoed /\ m.read = k.read /\ m.state = k.state
              /\ m.sent >= k.sent /\ m.sent \in Nat
            BY <2>1 DEF ClientType
        <3>. HIDE DEF m, k
        <3>. QED BY <2>2, <3>1, <3>2
    <2>. QED BY <1>4, <2>3, <2>4 DEF ClientStep
<1>5. ASSUME NEW f \in Families, Refuse(f) PROVE EchoInv'
    <2>1. PICK c \in Connecting : client' = [client EXCEPT ![c] = Gone]
        BY <1>5 DEF Refuse
    <2>2. c \in Clients /\ client[c].state = "away" /\ UNCHANGED <<peer, buffer, handler>>
        BY <1>5 DEF Connecting, Refuse, slotVars
    <2>3. \A h \in Handler : handler[h] # "none" => peer[h] # c
        BY <1>s, <2>2 DEF Serving
    <2>4. Clean(Gone) /\ Gone.state # "away"
        BY Unused
    <2>. QED BY <1>3, <2>1, <2>2, <2>3, <2>4
<1>6. ASSUME NEW f \in Families, Accept(f) PROVE EchoInv'
    <2>1. PICK c \in Clients, d \in Descriptors, i \in Slots :
             Accepts(f, c, d, i) /\ <<f, i>> \in Handler
        BY <1>6, AcceptEffect
    <2>. DEFINE x == <<f, i>>  m == [NewClient EXCEPT !.state = "served"]
    <2>2. /\ client[c].state = "away" /\ client' = [client EXCEPT ![c].state = "served"]
          /\ handler' = [handler EXCEPT ![x] = "receiving"]
          /\ peer' = [peer EXCEPT ![x] = c] /\ buffer' = [buffer EXCEPT ![x] = <<>>]
        BY <2>1, Zenon DEF Accepts
    <2>3. client[c] = NewClient
        BY <2>2 DEF EchoInv
    <2>4. client' = [client EXCEPT ![c] = m]
        BY <2>2, <2>3
    <2>5. Clean(m) /\ m.state # "away" /\ Pending(m, <<>>)
        BY DEF Clean, Pending, NewClient
    <2>. HIDE DEF x, m
    <2>6. \A h \in Handler :
              IF h = x THEN peer'[h] = c /\ buffer'[h] = <<>>
              ELSE /\ handler'[h] = handler[h] /\ peer'[h] = peer[h]
                   /\ buffer'[h] = buffer[h]
        BY <1>0, <2>2 DEF SlotTypes, StreamTypes
    <2>7. \A h \in Handler : handler[h] # "none" => peer[h] # c
        BY <1>s, <2>2 DEF Serving
    <2>8. \A h \in Handler : handler'[h] # "none" =>
                IF peer'[h] = c THEN Pending(m, buffer'[h])
                ELSE handler[h] # "none" /\ peer'[h] = peer[h] /\ buffer'[h] = buffer[h]
        BY <2>5, <2>6, <2>7
    <2>. QED BY <1>3, <2>4, <2>5, <2>8
<1>7. ASSUME NEW h \in Handler, Receive(h) PROVE EchoInv'
    <2>. DEFINE c == peer[h]  k == client[c]
    <2>1. PICK n \in 1..BufferSize :
             LET b == [j \in 1..n |-> client[c].read + j] IN
              /\ c \in Clients /\ client[c].state = "served"
              /\ client[c].read + n <= client[c].sent
              /\ Len(buffer[h]) + n <= BufferSize
              /\ client' = [client EXCEPT ![c].read = @ + n]
              /\ buffer' = [buffer EXCEPT ![h] = @ \o b]
              /\ b \in Seq(Nat) /\ Len(b) = n
              /\ buffer[h] \o b \in Seq(Nat)
              /\ Len(buffer[h] \o b) = Len(buffer[h]) + n
        BY <1>0, <1>7, <1>s, ReceiveEffect
    <2>. DEFINE b == [j \in 1..n |-> k.read + j]  m == [k EXCEPT !.read = k.read + n]
    <2>2. /\ k \in ClientType /\ Clean(k) /\ n \in Nat /\ k.state = "served"
          /\ buffer[h] \in Seq(Nat) /\ k.read + n <= k.sent
        BY <1>0, <2>1, BoundAssumption DEF StreamTypes, EchoInv
    <2>3. /\ client' = [client EXCEPT ![c] = m] /\ buffer' = [buffer EXCEPT ![h] = @ \o b]
          /\ b \in Seq(Nat) /\ Len(b) = n
        BY <2>1
    <2>4. \A j \in 1..n : b[j] = k.read + j
        OBVIOUS
    <2>5. /\ handler[h] # "none" /\ peer' = peer
          /\ \A g \in Handler : g # h => handler'[g] = handler[g]
        <3>1. handler[h] = "receiving" /\ peer' = peer
            BY <1>7 DEF Receive
        <3>2. \E at : handler' = [handler EXCEPT ![h] = at]
            BY <1>7 DEF Receive
        <3>. QED BY <1>0, <3>1, <3>2 DEF SlotTypes
    <2>6. Pending(k, buffer[h])
        BY <2>5 DEF EchoInv
    <2>7. m \in ClientType /\ m.state = "served"
        <3>1. k.read + n \in Nat
            BY <2>2 DEF ClientType
        <3>. QED BY <2>2, <3>1 DEF ClientType
    <2>8. m = [k EXCEPT !.read = k.read + n]
        OBVIOUS
    <2>. HIDE DEF m, b, k
    <2>9. Clean(m) /\ Pending(m, buffer[h] \o b)
        BY <2>2, <2>3, <2>4, <2>6, <2>7, <2>8, Reads
    <2>10. \A g \in Handler : buffer'[g] = IF g = h THEN buffer[h] \o b ELSE buffer[g]
        BY <1>0, <2>3 DEF StreamTypes
    <2>11. \A g \in Handler : g # h /\ handler[g] # "none" => peer[g] # c
        BY <1>s, <2>5
    <2>12. c \in Clients /\ c = peer[h]
        BY <2>1
    <2>. HIDE DEF c
    <2>13. \A g \in Handler : handler'[g] # "none" =>
                IF peer'[g] = c THEN Pending(m, buffer'[g])
                ELSE handler[g] # "none" /\ peer'[g] = peer[g] /\ buffer'[g] = buffer[g]
        BY <2>5, <2>9, <2>10, <2>11, <2>12
    <2>. QED BY <1>3, <2>3, <2>7, <2>9, <2>12, <2>13
<1>8. ASSUME NEW h \in Handler, Send(h) PROVE EchoInv'
    <2>. DEFINE c == peer[h]  k == client[c]
    <2>1. /\ handler[h] # "none" /\ peer' = peer
          /\ client' = [client EXCEPT ![c].echoed = @ \o buffer[h]]
          /\ buffer' = [buffer EXCEPT ![h] = <<>>]
          /\ handler' = [handler EXCEPT ![h] = "receiving"]
        BY <1>8 DEF Send
    <2>2. c \in Clients /\ k.state = "served"
        BY <1>s, <2>1 DEF Serving
    <2>3. /\ k \in ClientType /\ Clean(k) /\ Pending(k, buffer[h]) /\ buffer[h] \in Seq(Nat)
        BY <1>0, <2>1, <2>2 DEF StreamTypes, EchoInv
    <2>. DEFINE m == [k EXCEPT !.echoed = k.echoed \o buffer[h]]
    <2>4. client' = [client EXCEPT ![c] = m]
        BY <2>1
    <2>5. m \in ClientType /\ m.state = "served"
        <3>1. k.echoed \o buffer[h] \in Seq(Nat)
            BY <2>3 DEF ClientType
        <3>. QED BY <2>2, <2>3, <3>1 DEF ClientType
    <2>6. m = [k EXCEPT !.echoed = k.echoed \o buffer[h]]
        OBVIOUS
    <2>. HIDE DEF m, k
    <2>7. Clean(m) /\ Pending(m, <<>>)
        BY <2>3, <2>5, <2>6, Echoes
    <2>8. \A g \in Handler : /\ buffer'[g] = IF g = h THEN <<>> ELSE buffer[g]
                             /\ g # h => handler'[g] = handler[g]
        BY <1>0, <2>1 DEF StreamTypes, SlotTypes
    <2>9. \A g \in Handler : g # h /\ handler[g] # "none" => peer[g] # c
        BY <1>s, <2>1
    <2>10. c = peer[h]
        OBVIOUS
    <2>. HIDE DEF c
    <2>11. \A g \in Handler : handler'[g] # "none" =>
                IF peer'[g] = c THEN Pending(m, buffer'[g])
                ELSE handler[g] # "none" /\ peer'[g] = peer[g] /\ buffer'[g] = buffer[g]
        BY <2>1, <2>7, <2>8, <2>9, <2>10
    <2>. QED BY <1>3, <2>2, <2>4, <2>5, <2>7, <2>11
<1>9. ASSUME NEW h \in Handler, HandlerEnds(h) PROVE EchoInv'
    <2>. DEFINE c == peer[h]
    <2>1. /\ handler[h] # "none" /\ client' = [client EXCEPT ![c] = Gone]
          /\ peer' = [peer EXCEPT ![h] = NONE] /\ buffer' = [buffer EXCEPT ![h] = <<>>]
          /\ handler' = [handler EXCEPT ![h] = "none"]
        BY <1>9 DEF HandlerEnds, Finish
    <2>2. c \in Clients
        BY <1>s, <2>1 DEF Serving
    <2>3. /\ handler'[h] = "none"
          /\ \A g \in Handler : g # h => /\ buffer'[g] = buffer[g] /\ peer'[g] = peer[g]
                                         /\ handler'[g] = handler[g]
        BY <1>0, <2>1 DEF StreamTypes, SlotTypes
    <2>4. \A g \in Handler : g # h /\ handler[g] # "none" => peer[g] # c
        BY <1>s, <2>1
    <2>5. Clean(Gone) /\ Gone.state # "away"
        BY Unused
    <2>. HIDE DEF c
    <2>6. \A g \in Handler : handler'[g] # "none" =>
                IF peer'[g] = c THEN Pending(Gone, buffer'[g])
                ELSE handler[g] # "none" /\ peer'[g] = peer[g] /\ buffer'[g] = buffer[g]
        BY <2>3, <2>4
    <2>. QED BY <1>3, <2>1, <2>2, <2>5, <2>6
<1>10. ASSUME NEW f \in Families, HandlersStop(f) PROVE EchoInv'
    <2>1. /\ UNCHANGED <<peer, buffer>>
          /\ \A h \in Handler : handler'[h] # "none" => handler[h] # "none"
        BY <1>10 DEF HandlersStop, StopHandlers
    <2>2. \A c \in Clients : client'[c] = client[c] \/ client'[c] = Gone
        BY <1>10 DEF HandlersStop, StopHandlers
    <2>3. \A h \in Handler : handler'[h] # "none" => Pending(client'[peer[h]], buffer[h])
        <3>1. SUFFICES ASSUME NEW h \in Handler, handler'[h] # "none"
                       PROVE  client'[peer[h]] = client[peer[h]]
            BY <2>1 DEF EchoInv
        <3>2. peer[h] \in Clients
            BY <1>s, <2>1, <3>1 DEF Serving
        <3>3. peer'[h] = peer[h] /\ client'[peer[h]].state = "served"
            BY <1>10, <2>1, <3>1, SlotsNext DEF SlotsInv, Serving
        <3>. QED BY <2>2, <3>2, <3>3, Unused
    <2>4. \A c \in Clients : Clean(client'[c]) /\
              (client'[c].state = "away" => client'[c] = NewClient)
        BY <2>2, Unused DEF EchoInv
    <2>. QED BY <2>1, <2>3, <2>4 DEF EchoInv
<1>. QED BY <1>2, <1>4, <1>5, <1>6, <1>7, <1>8, <1>9, <1>10, StepKinds

LEMMA PrefixMeaning == ASSUME StreamTypes, EchoInv PROVE EchoIsPrefix
<1>1. ASSUME NEW c \in Clients
      PROVE  /\ client[c].echoed = [i \in 1..Len(client[c].echoed) |-> i]
             /\ Len(client[c].echoed) <= client[c].read /\ client[c].read <= client[c].sent
    <2>. DEFINE e == client[c].echoed
    <2>1. e \in Seq(Nat) /\ \A i \in 1..Len(e) : e[i] = i
        BY DEF StreamTypes, ClientType, EchoInv, Clean
    <2>. HIDE DEF e
    <2>2. e = [i \in 1..Len(e) |-> i]
        BY <2>1
    <2>. QED BY <2>2 DEF e, EchoInv, Clean
<1>2. \A h \in Handler : handler[h] # "none" =>
          client[peer[h]].read = Len(client[peer[h]].echoed) + Len(buffer[h])
    BY DEF EchoInv, Pending
<1>. QED BY <1>1, <1>2 DEF EchoIsPrefix

-----------------------------------------------------------------------------
(* Theorems *)

Inv == TypeOK /\ LifeInv /\ HoldersInv /\ SlotsInv /\ EchoInv

LEMMA Invariance == Spec => []Inv
<1>1. Init => Inv
    BY EchoTypeInit, LifeInit, HoldersInit, SlotsInit, EchoInit DEF Inv
<1>2. Inv /\ [Next]_vars => Inv'
    <2>. SUFFICES ASSUME Inv, [Next]_vars PROVE Inv'
        OBVIOUS
    <2>1. LifeInv'
        BY LifeNext DEF Inv
    <2>2. TypeOK'
        <3>1. TableTypes' /\ SlotTypes' /\ StreamTypes' /\ LifeTypes'
            BY <2>1, TableTypesNext, SlotTypesNext, StreamTypesNext, LifeTypesNext
               DEF Inv, SlotsInv
        <3>. QED BY <3>1 DEF TypeOK, TcpTypeOK, TableTypes, SlotTypes, StreamTypes, LifeTypes,
                             ClientType
    <2>3. HoldersInv' /\ SlotsInv'
        BY HoldersNext, SlotsNext DEF Inv, SlotsInv
    <2>4. StreamTypes'
        BY <2>1, StreamTypesNext DEF Inv, SlotsInv
    <2>5. EchoInv'
        BY <2>4, EchoNext DEF Inv
    <2>. QED BY <2>1, <2>2, <2>3, <2>5 DEF Inv
<1>. QED BY <1>1, <1>2, PTL DEF Spec

\* In every execution of echo_server and its threads descriptors, slots, streams and
\* semaphores keep their types; recv_buffer is never written past its end.
THEOREM EchoTypeCorrect == Spec => []TypeOK
<1>1. Inv => TypeOK
    BY DEF Inv
<1>. QED BY <1>1, Invariance, PTL

\* However many services and handlers accept, fail and are stopped together, and
\* although a closed descriptor is used again at once, every descriptor in use has one
\* holder that will close it.
THEOREM HoldersCorrect == Spec => []DescriptorsHaveOneHolder
<1>1. Inv => DescriptorsHaveOneHolder
    BY HoldersMeaning DEF Inv, HoldersInv
<1>. QED BY <1>1, Invariance, PTL

\* A slot of accepted[] is taken exactly as long as its handler thread runs, marked for
\* stop_tcp, and no client has two handlers.
THEOREM SlotsCorrect == Spec => []SlotsMatchHandlers
<1>1. Inv => SlotsMatchHandlers
    BY DEF Inv, SlotsInv
<1>. QED BY <1>1, Invariance, PTL

\* handle_data echoes every client's own bytes, in order and without a gap, whatever the
\* portions in which they come and whoever used the buffer before.
THEOREM PrefixCorrect == Spec => []EchoIsPrefix
<1>1. Inv => EchoIsPrefix
    BY Types, PrefixMeaning DEF Inv
<1>. QED BY <1>1, Invariance, PTL

\* echo_server returns with every service, handler and descriptor stopped, freed and
\* closed, or (without a network) with none.
THEOREM StopCorrect == Spec => []StopsAllOrNothing
<1>1. Inv => StopsAllOrNothing
    <2>. SUFFICES ASSUME Inv, main = "ended", \A s \in Service : service[s] = "stopped"
                  PROVE  (\A h \in Handler : handler[h] = "none") /\ open = {}
        BY DEF Inv, LifeInv, Started, StopsAllOrNothing
    <2>1. \A h \in Handler : Tcp(h[1]) \in Service
        BY DEF Handler, Tcp, Service
    <2>2. \A h \in Handler : handler[h] = "none"
        BY <2>1 DEF Inv, SlotsInv, SlotsMatchHandlers
    <2>3. DescriptorsHaveOneHolder
        BY HoldersMeaning DEF Inv, HoldersInv
    <2>4. open = {}
        BY <2>1, <2>3 DEF DescriptorsHaveOneHolder, HoldsSock, HoldsAccepted
    <2>. QED BY <2>2, <2>4
<1>. QED BY <1>1, Invariance, PTL

=============================================================================
