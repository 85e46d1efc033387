--------------------------- MODULE RpmsgIpcProofs ---------------------------
(***************************************************************************)
(* Theorems about RpmsgIpc: types, the receive buffers and the order of the  *)
(* answers, for any number of buffers and messages.                          *)
(***************************************************************************)
EXTENDS RpmsgIpc, FiniteSetTheorems, TLAPS

Endpoint == {"cmd", "sc", "tty"}
Message == [buffer : Buffers, id : Nat, to : Endpoint, size : Nat]

BuffersOf(r) == {r[i].buffer : i \in DOMAIN r}
Distinct(r) == \A i, j \in DOMAIN r : r[i].buffer = r[j].buffer => i = j

\* A message put into the ring brings its buffer.
LEMMA AppendBuffer ==
    ASSUME NEW r \in Seq(Message), NEW m \in Message, Distinct(r),
           m.buffer \notin BuffersOf(r)
    PROVE  /\ Append(r, m) \in Seq(Message)
           /\ BuffersOf(Append(r, m)) = BuffersOf(r) \cup {m.buffer}
           /\ Distinct(Append(r, m))
<1>. DEFINE q == Append(r, m)
<1>1. /\ q \in Seq(Message) /\ Len(q) = Len(r) + 1 /\ DOMAIN q = 1..Len(r)+1
      /\ DOMAIN r = 1..Len(r) /\ Len(r) \in Nat
      /\ \A i \in 1..Len(r) : q[i] = r[i]
      /\ q[Len(r) + 1] = m
    OBVIOUS
<1>. HIDE DEF q
<1>2. BuffersOf(q) = BuffersOf(r) \cup {m.buffer}
    BY <1>1 DEF BuffersOf
<1>3. Distinct(q)
    BY <1>1 DEF Distinct, BuffersOf
<1>. QED BY <1>1, <1>2, <1>3 DEF q

\* Taking the oldest message out of the ring takes its buffer out, and only that.
LEMMA TailBuffer ==
    ASSUME NEW r \in Seq(Message), Distinct(r), r # <<>>
    PROVE  /\ Head(r) \in Message /\ Tail(r) \in Seq(Message)
           /\ Head(r).buffer \in BuffersOf(r)
           /\ BuffersOf(Tail(r)) = BuffersOf(r) \ {Head(r).buffer}
           /\ Distinct(Tail(r))
<1>. DEFINE q == Tail(r)  h == Head(r)
<1>1. /\ q \in Seq(Message) /\ h \in Message /\ h = r[1]
      /\ Len(r) \in Nat \ {0} /\ DOMAIN r = 1..Len(r) /\ DOMAIN q = 1..Len(r)-1
      /\ \A i \in 1..Len(r)-1 : q[i] = r[i+1]
    OBVIOUS
<1>. HIDE DEF q, h
<1>2. h.buffer \in BuffersOf(r)
    BY <1>1 DEF BuffersOf
<1>3. BuffersOf(q) = BuffersOf(r) \ {h.buffer}
    <2>1. ASSUME NEW b \in BuffersOf(q) PROVE b \in BuffersOf(r) \ {h.buffer}
        <3>1. PICK i \in 1..Len(r)-1 : b = r[i+1].buffer
            BY <1>1, <2>1 DEF BuffersOf
        <3>2. i + 1 \in DOMAIN r /\ 1 \in DOMAIN r /\ i + 1 # 1
            BY <1>1
        <3>. QED BY <1>1, <3>1, <3>2 DEF BuffersOf, Distinct
    <2>2. ASSUME NEW b \in BuffersOf(r) \ {h.buffer} PROVE b \in BuffersOf(q)
        <3>1. PICK i \in 1..Len(r) : b = r[i].buffer
            BY <1>1, <2>2 DEF BuffersOf
        <3>2. i - 1 \in 1..Len(r)-1 /\ q[i-1] = r[i]
            BY <1>1, <3>1
        <3>. QED BY <1>1, <3>1, <3>2 DEF BuffersOf
    <2>. QED BY <2>1, <2>2
<1>4. Distinct(q)
    <2>1. ASSUME NEW i \in DOMAIN q, NEW j \in DOMAIN q, q[i].buffer = q[j].buffer
          PROVE  i = j
        <3>1. i + 1 \in DOMAIN r /\ j + 1 \in DOMAIN r
              /\ r[i+1].buffer = r[j+1].buffer
            BY <1>1, <2>1
        <3>2. i + 1 = j + 1
            BY <3>1 DEF Distinct
        <3>. QED BY <1>1, <3>2
    <2>. QED BY <2>1 DEF Distinct
<1>. QED BY <1>1, <1>2, <1>3, <1>4 DEF q, h
-----------------------------------------------------------------------------
(* Types and buffers *)

BuffersInOnePlace ==
    /\ Buffers = avail \cup BuffersOf(ring) \cup held
    /\ avail \cap BuffersOf(ring) = {} /\ avail \cap held = {}
    /\ BuffersOf(ring) \cap held = {}
    /\ Distinct(ring)
    /\ tty_msg.size > 0 \/ thread["tty"] = "sending" => tty_msg.buffer \in held

\* TypeOK, with the messages of the ring and what keeps the client below its limit.
RpmsgType ==
    /\ TypeOK
    /\ ring \in Seq(Message)
    /\ thread["sc"] \in {"starting", "waiting", "woken"} => msg_cnt < ReplyLimit

\* The message whose acknowledgement waits is still in the ring.
AckingHasMessage == mng = "acking" => ring # <<>>

IInv == RpmsgType /\ BuffersInOnePlace /\ AckingHasMessage

LEMMA IInvInit == Init => IInv
<1>. SUFFICES ASSUME Init PROVE IInv
    OBVIOUS
<1>1. ring \in Seq(Message) /\ BuffersOf(ring) = {} /\ Distinct(ring)
    BY DEF Init, BuffersOf, Distinct
<1>2. sent \in Seq(Endpoint)
    BY DEF Init
<1>3. TypeOK
    <2>1. DOMAIN ring = {}
        BY DEF Init
    <2>2. /\ thread \in [Thread -> {"starting", "waiting", "woken", "sending", "ended"}]
          /\ sem \in [Thread \cup {"data"} -> 0..1]
        BY DEF Init
    <2>3. /\ tty_msg \in [buffer : Buffers \cup {NONE}, id : Nat, size : Nat]
          /\ tx \in 0..TxBuffers /\ msg_cnt \in 0..ReplyLimit
        BY RpmsgAssumption DEF Init, NoMessage
    <2>. QED BY <1>2, <2>1, <2>2, <2>3 DEF Init, TypeOK, Endpoint
<1>4. thread["tty"] = "starting" /\ thread["sc"] = "starting"
    BY DEF Init, Thread
<1>5. BuffersInOnePlace
    BY <1>1, <1>4 DEF Init, BuffersInOnePlace, NoMessage
<1>. QED BY <1>1, <1>3, <1>5, RpmsgAssumption DEF IInv, RpmsgType, AckingHasMessage, Init

Places == {"starting", "waiting", "woken", "sending", "ended"}
SemType(f) == f \in [Thread \cup {"data"} -> 0..1]

\* Giving and taking a semaphore moves one thread, and only between its waits.
LEMMA GiveType ==
    ASSUME thread \in [Thread -> Places], SemType(sem), NEW t \in Thread, Give(t)
    PROVE  /\ thread' \in [Thread -> Places] /\ SemType(sem')
           /\ \A u \in Thread :
                \/ thread'[u] = thread[u]
                \/ u = t /\ thread[u] = "waiting" /\ thread'[u] = "woken"
BY DEF Give, SemType, Thread, Places

LEMMA TakeAgainType ==
    ASSUME thread \in [Thread -> Places], SemType(sem), NEW t \in Thread, TakeAgain(t)
    PROVE  /\ thread' \in [Thread -> Places] /\ SemType(sem')
           /\ \A u \in Thread \ {t} : thread'[u] = thread[u]
           /\ thread'[t] \in {"woken", "waiting"}
BY DEF TakeAgain, SemType, Thread, Places

LEMMA TakeDataSemType ==
    ASSUME NEW before, SemType(before), TakeDataSem(before)
    PROVE  SemType(sem') /\ mng' \in {"dispatching", "waiting"}
BY DEF TakeDataSem, SemType

LEMMA RingParts ==
    ASSUME NEW r \in Seq(Message)
    PROVE  \A i \in DOMAIN r : r[i].buffer \in Buffers /\ r[i].id \in Nat
<1>1. \A i \in DOMAIN r : r[i] \in Message
    OBVIOUS
<1>. QED BY <1>1 DEF Message

LEMMA LinuxNext ==
    ASSUME IInv
    PROVE  /\ \A to \in Endpoint, size \in Nat : LinuxSends(to, size) => IInv'
           /\ LinuxReads \/ Interrupt => IInv'
<1>. USE DEF IInv, RpmsgType, AckingHasMessage, TypeOK, Places, SemType, Endpoint
<1>1. ASSUME NEW to \in Endpoint, NEW size \in Nat, LinuxSends(to, size) PROVE IInv'
    <2>. DEFINE m(b) == [buffer |-> b, id |-> Len(sent) + 1, to |-> to, size |-> size]
    <2>1. PICK b \in avail : avail' = avail \ {b} /\ ring' = Append(ring, m(b))
        BY <1>1 DEF LinuxSends
    <2>2. m(b) \in Message /\ m(b).buffer = b
        BY <1>1, <2>1 DEF Message
    <2>. HIDE DEF m
    <2>3. /\ ring' \in Seq(Message) /\ BuffersOf(ring') = BuffersOf(ring) \cup {b}
          /\ Distinct(ring')
        BY <2>1, <2>2, AppendBuffer DEF BuffersInOnePlace
    <2>4. sent' \in Seq(Endpoint)
        BY <1>1 DEF LinuxSends
    <2>5. TypeOK'
        BY <1>1, <2>1, <2>3, <2>4, RingParts
        DEF LinuxSends, messages, answers
    <2>6. BuffersInOnePlace'
        BY <1>1, <2>1, <2>3 DEF LinuxSends, messages, answers, BuffersInOnePlace
    <2>7. ring' # <<>>
        BY <2>1
    <2>. QED BY <1>1, <2>3, <2>5, <2>6, <2>7 DEF LinuxSends, messages
<1>2. CASE LinuxReads
    <2>1. tx' \in 0..TxBuffers
        BY <1>2, RpmsgAssumption DEF LinuxReads
    <2>2. TypeOK'
        BY <1>2, <2>1 DEF LinuxReads, linux, buffers, messages, answers
    <2>. QED BY <1>2, <2>2
             DEF LinuxReads, linux, buffers, messages, answers, BuffersInOnePlace
<1>3. CASE Interrupt
    <2>1. SemType(sem') /\ mng' \in {mng, "woken"}
        BY <1>3 DEF Interrupt, SemType
    <2>2. kicked' = FALSE
        BY <1>3 DEF Interrupt
    <2>. QED BY <1>3, <2>1, <2>2
             DEF Interrupt, buffers, messages, answers, BuffersInOnePlace
<1>. QED BY <1>1, <1>2, <1>3

\* The buffer that leaves the ring goes back to Linux, or is held.
LEMMA ReturnKeepsBuffers ==
    ASSUME IInv, ring # <<>>, ReturnBuffer, UNCHANGED <<held, tty_msg>>,
           thread'["tty"] = "sending" => thread["tty"] = "sending"
    PROVE  /\ BuffersInOnePlace' /\ ring' \in Seq(Message) /\ avail' \subseteq Buffers
           /\ \A i \in DOMAIN ring' : ring'[i].buffer \in Buffers /\ ring'[i].id \in Nat
<1>1. /\ Head(ring) \in Message /\ Head(ring).buffer \in BuffersOf(ring)
      /\ ring' \in Seq(Message) /\ Distinct(ring')
      /\ BuffersOf(ring') = BuffersOf(ring) \ {Head(ring).buffer}
    BY TailBuffer DEF IInv, RpmsgType, BuffersInOnePlace, ReturnBuffer
<1>2. avail' = avail \cup {Head(ring).buffer} /\ Head(ring).buffer \in Buffers
    BY <1>1 DEF ReturnBuffer, Next1, Message
<1>3. BuffersInOnePlace'
    BY <1>1, <1>2 DEF IInv, BuffersInOnePlace
<1>. QED BY <1>1, <1>2, <1>3, RingParts DEF IInv, RpmsgType, TypeOK

LEMMA MngNext == IInv /\ MngStep => IInv'
<1>. SUFFICES ASSUME IInv, MngStep PROVE IInv'
    OBVIOUS
<1>. USE DEF IInv, RpmsgType, AckingHasMessage, linux, buffers, messages, answers
<1>0. /\ thread \in [Thread -> Places] /\ SemType(sem)
      /\ "sc" \in Thread /\ "tty" \in Thread /\ "sc" # "tty"
    BY DEF TypeOK, Places, SemType, Thread
<1>1. CASE MngBoots
    <2>1. SemType(sem') /\ mng' \in {"dispatching", "waiting", "ended"}
        <3>. DEFINE given == [sem EXCEPT !["sc"] = 1, !["tty"] = 1]
        <3>1. SemType(given)
            BY <1>0 DEF SemType
        <3>2. UNCHANGED sem \/ TakeDataSem(given)
            BY <1>1 DEF MngBoots
        <3>. HIDE DEF given
        <3>3. CASE UNCHANGED sem
            BY <1>0, <1>1, <3>3 DEF MngBoots, TakeDataSem, SemType
        <3>4. CASE TakeDataSem(given)
            BY <3>1, <3>4, TakeDataSemType
        <3>. QED BY <3>2, <3>3, <3>4
    <2>2. endpoints' \subseteq Endpoint
        BY <1>1 DEF MngBoots, TypeOK, Endpoint
    <2>. QED BY <1>1, <2>1, <2>2
             DEF MngBoots, TypeOK, SemType, Endpoint, BuffersInOnePlace
<1>2. CASE MngWakes
    BY <1>2 DEF MngWakes, TypeOK, BuffersInOnePlace
<1>3. CASE DispatchClient
    <2>1. /\ thread' \in [Thread -> Places] /\ SemType(sem')
          /\ thread'["tty"] = thread["tty"]
          /\ thread'["sc"] = thread["sc"] \/ thread["sc"] = "waiting"
        BY <1>0, <1>3, GiveType DEF DispatchClient
    <2>2. /\ BuffersInOnePlace' /\ ring' \in Seq(Message) /\ avail' \subseteq Buffers
          /\ \A i \in DOMAIN ring' : ring'[i].buffer \in Buffers /\ ring'[i].id \in Nat
        BY <1>3, <2>1, ReturnKeepsBuffers DEF DispatchClient, Dispatching
    <2>3. sc_msg' \in Nat
        BY <1>3, TailBuffer DEF DispatchClient, Dispatching, Next1, Message, BuffersInOnePlace
    <2>. QED BY <1>3, <2>1, <2>2, <2>3 DEF DispatchClient, Dispatching, TypeOK, Places, SemType
<1>4. CASE DispatchTty
    <2>1. /\ thread' \in [Thread -> Places] /\ SemType(sem')
          /\ thread'["sc"] = thread["sc"]
          /\ thread'["tty"] = thread["tty"] \/ thread'["tty"] = "woken"
        BY <1>0, <1>4, GiveType DEF DispatchTty
    <2>2. /\ Head(ring) \in Message /\ Head(ring).buffer \in BuffersOf(ring)
          /\ ring' \in Seq(Message) /\ Distinct(ring')
          /\ BuffersOf(ring') = BuffersOf(ring) \ {Head(ring).buffer}
        BY <1>4, TailBuffer DEF BuffersInOnePlace, DispatchTty, Dispatching
    <2>3. /\ held' = held \cup {Head(ring).buffer} /\ tty_msg'.buffer = Head(ring).buffer
          /\ tty_msg' \in [buffer : Buffers \cup {NONE}, id : Nat, size : Nat]
          /\ held' \subseteq Buffers
        BY <1>4, <2>2 DEF DispatchTty, Next1, Message, TypeOK
    <2>4. BuffersInOnePlace'
        BY <1>4, <2>2, <2>3 DEF DispatchTty, BuffersInOnePlace
    <2>. QED BY <1>4, <2>1, <2>2, <2>3, <2>4, RingParts
             DEF DispatchTty, Dispatching, TypeOK, Places, SemType
<1>5. CASE DispatchNobody
    <2>1. /\ BuffersInOnePlace' /\ ring' \in Seq(Message) /\ avail' \subseteq Buffers
          /\ \A i \in DOMAIN ring' : ring'[i].buffer \in Buffers /\ ring'[i].id \in Nat
        BY <1>5, ReturnKeepsBuffers DEF DispatchNobody
    <2>. QED BY <1>5, <2>1 DEF DispatchNobody, TypeOK
<1>6. CASE DispatchCommand
    <2>1. CASE tx > 0
        <3>1. /\ BuffersInOnePlace' /\ ring' \in Seq(Message) /\ avail' \subseteq Buffers
              /\ \A i \in DOMAIN ring' : ring'[i].buffer \in Buffers /\ ring'[i].id \in Nat
            BY <1>6, <2>1, ReturnKeepsBuffers DEF DispatchCommand, Dispatching
        <3>2. tx' \in 0..TxBuffers
            BY <1>6, <2>1, RpmsgAssumption DEF DispatchCommand, TypeOK
        <3>. QED BY <1>6, <2>1, <3>1, <3>2 DEF DispatchCommand, Dispatching, TypeOK
    <2>2. CASE ~(tx > 0)
        BY <1>6, <2>2 DEF DispatchCommand, Dispatching, TypeOK, BuffersInOnePlace
    <2>. QED BY <2>1, <2>2
<1>7. CASE MngAcks
    <2>1. CASE ring # <<>>
        <3>1. /\ BuffersInOnePlace' /\ ring' \in Seq(Message) /\ avail' \subseteq Buffers
              /\ \A i \in DOMAIN ring' : ring'[i].buffer \in Buffers /\ ring'[i].id \in Nat
            BY <1>7, <2>1, ReturnKeepsBuffers DEF MngAcks
        <3>2. tx' \in 0..TxBuffers
            BY <1>7, RpmsgAssumption DEF MngAcks, TypeOK
        <3>. QED BY <1>7, <3>1, <3>2 DEF MngAcks, TypeOK
    <2>. QED BY <1>7, <2>1 DEF MngAcks
<1>8. CASE DispatchEnds
    <2>1. SemType(sem') /\ mng' \in {"dispatching", "waiting"}
        BY <1>0, <1>8, TakeDataSemType DEF DispatchEnds
    <2>. QED BY <1>8, <2>1 DEF DispatchEnds, TypeOK, SemType, BuffersInOnePlace
<1>. QED BY <1>1, <1>2, <1>3, <1>4, <1>5, <1>6, <1>7, <1>8 DEF MngStep

LEMMA ThreadNext ==
    ASSUME IInv, NEW t \in Thread, ThreadStep(t)
    PROVE  IInv'
<1>. USE DEF IInv, RpmsgType, AckingHasMessage, linux, buffers, messages, answers
<1>0. /\ thread \in [Thread -> Places] /\ SemType(sem)
      /\ "sc" \in Thread /\ "tty" \in Thread /\ "sc" # "tty"
    BY DEF TypeOK, Places, SemType, Thread
<1>1. CASE ThreadStarts(t)
    <2>1. /\ SemType(sem') /\ thread' \in [Thread -> Places]
          /\ \A u \in Thread : thread'[u] \in {thread[u], "waiting", "ended"}
          /\ thread'["sc"] # thread["sc"] => thread["sc"] = "starting"
        BY <1>0, <1>1 DEF ThreadStarts, Runs, SemType, Places
    <2>2. endpoints' \subseteq Endpoint
        BY <1>1 DEF ThreadStarts, TypeOK, Endpoint, Thread
    <2>. QED BY <1>0, <1>1, <2>1, <2>2
             DEF ThreadStarts, TypeOK, SemType, Places, Endpoint, BuffersInOnePlace
<1>2. ASSUME ClientRuns \/ ClientSends PROVE IInv'
    <2>1. tx' \in 0..TxBuffers
        BY <1>2, RpmsgAssumption DEF ClientRuns, ClientSends, ReplyClient, TypeOK
    <2>2. /\ msg_cnt' \in 0..ReplyLimit
          /\ thread' \in [Thread -> Places] /\ SemType(sem')
          /\ thread'["tty"] = thread["tty"]
          /\ thread'["sc"] \in {"starting", "waiting", "woken"} => msg_cnt' < ReplyLimit
          /\ endpoints' \subseteq Endpoint
        <3>1. ASSUME NEW count \in Nat, ClientLoops(count)
              PROVE  /\ thread' \in [Thread -> Places] /\ SemType(sem')
                     /\ thread'["tty"] = thread["tty"]
                     /\ thread'["sc"] \in {"starting", "waiting", "woken"}
                          => count < ReplyLimit
                     /\ endpoints' \subseteq Endpoint
            <4>1. CASE count < ReplyLimit
                BY <1>0, <3>1, <4>1, TakeAgainType DEF ClientLoops, TypeOK, Endpoint
            <4>2. CASE ~(count < ReplyLimit)
                BY <1>0, <3>1, <4>2 DEF ClientLoops, TypeOK, Endpoint, Places
            <4>. QED BY <4>1, <4>2
        <3>2. msg_cnt \in Nat /\ msg_cnt + 1 \in Nat /\ ReplyLimit \in Nat
            BY RpmsgAssumption DEF TypeOK
        <3>3. CASE ClientRuns
            <4>1. msg_cnt < ReplyLimit /\ msg_cnt' = msg_cnt + 1 /\ msg_cnt' \in 0..ReplyLimit
                BY <3>2, <3>3 DEF ClientRuns, Runs, TypeOK
            <4>2. CASE ClientLoops(msg_cnt + 1)
                BY <3>1, <3>2, <4>1, <4>2
            <4>3. CASE /\ thread' = [thread EXCEPT !["sc"] = "sending"]
                       /\ UNCHANGED <<sem, endpoints>>
                <5>1. /\ thread' \in [Thread -> Places] /\ thread'["sc"] = "sending"
                      /\ thread'["tty"] = thread["tty"]
                    BY <1>0, <4>3 DEF Places
                <5>. QED BY <1>0, <4>1, <4>3, <5>1 DEF TypeOK, Endpoint, SemType
            <4>. QED BY <3>3, <4>2, <4>3 DEF ClientRuns
        <3>4. CASE ClientSends
            <4>1. ClientLoops(msg_cnt) /\ msg_cnt' = msg_cnt
                BY <3>4 DEF ClientSends
            <4>2. msg_cnt' \in 0..ReplyLimit
                BY <4>1 DEF TypeOK
            <4>. QED BY <3>1, <3>2, <4>1, <4>2
        <3>. QED BY <1>2, <3>3, <3>4
    <2>3. UNCHANGED <<mng, linux, buffers, sc_msg, tty_msg, out>>
        BY <1>2 DEF ClientRuns, ClientSends
    <2>. QED BY <2>1, <2>2, <2>3 DEF TypeOK, SemType, Places, Endpoint, BuffersInOnePlace
<1>3. ASSUME FinishTty, tty_msg.buffer \in held, tx' \in 0..TxBuffers, out' \in Nat,
             UNCHANGED <<mng, endpoints, linux, ring, sc_msg, msg_cnt>>
      PROVE  IInv'
    <2>1. /\ thread' \in [Thread -> Places] /\ SemType(sem')
          /\ thread'["sc"] = thread["sc"] /\ thread'["tty"] \in {"woken", "waiting"}
        BY <1>0, <1>3, TakeAgainType DEF FinishTty
    <2>2. /\ tty_msg' \in [buffer : Buffers \cup {NONE}, id : Nat, size : Nat]
          /\ tty_msg'.size = 0
        BY <1>3 DEF FinishTty, NoMessage
    <2>3. /\ avail' \subseteq Buffers /\ held' \subseteq Buffers
          /\ avail' = avail \cup {tty_msg.buffer} /\ held' = held \ {tty_msg.buffer}
        BY <1>3 DEF FinishTty, TypeOK
    <2>4. BuffersInOnePlace'
        BY <1>3, <2>1, <2>2, <2>3 DEF BuffersInOnePlace
    <2>. QED BY <1>3, <2>1, <2>2, <2>3, <2>4 DEF TypeOK, SemType, Places
<1>4. CASE TtyRuns
    <2>1. tty_msg.buffer \in held
        BY <1>4 DEF TtyRuns, BuffersInOnePlace
    <2>2. CASE tx > 0
        <3>1. tx' \in 0..TxBuffers /\ out' \in Nat
            BY <1>4, <2>2, RpmsgAssumption DEF TtyRuns, ReplyTty, TypeOK
        <3>. QED BY <1>3, <1>4, <2>1, <2>2, <3>1 DEF TtyRuns
    <2>3. CASE ~(tx > 0)
        <3>1. thread' \in [Thread -> Places] /\ thread'["sc"] = thread["sc"] /\ out' \in Nat
            BY <1>0, <1>4, <2>3 DEF TtyRuns, Places, TypeOK
        <3>. QED BY <1>4, <2>1, <2>3, <3>1 DEF TtyRuns, TypeOK, Places, BuffersInOnePlace
    <2>. QED BY <2>2, <2>3
<1>5. CASE TtySkips
    <2>1. /\ thread' \in [Thread -> Places] /\ SemType(sem')
          /\ thread'["sc"] = thread["sc"] /\ thread'["tty"] \in {"woken", "waiting"}
        BY <1>0, <1>5, TakeAgainType DEF TtySkips
    <2>2. /\ tty_msg' \in [buffer : Buffers \cup {NONE}, id : Nat, size : Nat]
          /\ tty_msg'.size = 0
        BY <1>5 DEF TtySkips, NoMessage
    <2>. QED BY <1>5, <2>1, <2>2 DEF TtySkips, TypeOK, SemType, Places, BuffersInOnePlace
<1>6. CASE TtySends
    <2>1. tty_msg.buffer \in held
        BY <1>6 DEF TtySends, Runs, BuffersInOnePlace
    <2>2. tx' \in 0..TxBuffers /\ out' \in Nat
        BY <1>6, RpmsgAssumption DEF TtySends, ReplyTty, TypeOK
    <2>. QED BY <1>3, <1>6, <2>1, <2>2 DEF TtySends
<1>. QED BY <1>1, <1>2, <1>4, <1>5, <1>6 DEF ThreadStep

LEMMA IInvNext == IInv /\ [Next]_vars => IInv'
<1>. SUFFICES ASSUME IInv, [Next]_vars PROVE IInv'
    OBVIOUS
<1>1. CASE UNCHANGED vars
    BY <1>1 DEF vars, IInv, RpmsgType, TypeOK, BuffersInOnePlace, AckingHasMessage
<1>2. 24 \in Nat /\ 12 \in Nat /\ Sizes \subseteq Nat /\ {"cmd", "sc", "tty"} \subseteq Endpoint
    BY RpmsgAssumption DEF Endpoint
<1>. QED BY <1>1, <1>2, LinuxNext, MngNext, ThreadNext DEF Next

\* Every variable keeps its type: the semaphores stay binary, the client stops at
\* its limit, and no buffer is invented.
THEOREM RpmsgTypeCorrect == Spec => []TypeOK
BY IInvInit, IInvNext, PTL DEF Spec, IInv, RpmsgType
-----------------------------------------------------------------------------
(* The order of the answers *)

Values(s) == {s[i] : i \in DOMAIN s}
Before(s, id) == \A d \in Values(s) : d < id

\* The messages that were dispatched or answered.
Done == Values(acks) \cup Values(replies["tty"]) \cup Values(replies["sc"])
        \cup {sc_msg, tty_msg.id} \cup unlucky

OrderType ==
    /\ acks \in Seq(Nat) /\ replies \in [Thread -> Seq(Nat)]
    /\ unlucky \in SUBSET Nat /\ IsFiniteSet(unlucky)

\* The ring is in the order sent, and newer than what was dispatched.
RingOrder ==
    /\ \A i, j \in DOMAIN ring : i < j => ring[i].id < ring[j].id
    /\ \A i \in DOMAIN ring : ring[i].id <= Len(sent) /\ \A d \in Done : d < ring[i].id
    /\ \A d \in Done : d <= Len(sent)

TtyOrder ==
    /\ Increasing(replies["tty"])
    /\ tty_msg.size > 0 => Before(replies["tty"], tty_msg.id)
    /\ thread["tty"] = "sending" => Before(replies["tty"], out) /\ out <= tty_msg.id

\* The client owes at most two answers: two only after a message newer than every
\* answer, one after at most one answer to the present message.
ScOwes == thread["sc"] \in {"woken", "sending"}

ScOrder ==
    LET r == replies["sc"]
    IN  /\ \A i \in DOMAIN r : r[i] <= sc_msg
        /\ \A i, j \in DOMAIN r : i < j => r[i] <= r[j] /\ (j >= i + 2 => r[i] # r[j])
        /\ ScOwes \/ sem["sc"] = 1 => \A i \in DOMAIN r : i + 1 \in DOMAIN r => r[i] < sc_msg
        /\ ScOwes /\ sem["sc"] = 1 => Before(r, sc_msg)
        /\ thread["sc"] = "starting" => r = <<>>
        /\ mng = "boot" => thread["sc"] = "starting" /\ sem["sc"] = 0

OrderInv == OrderType /\ Increasing(acks) /\ RingOrder /\ TtyOrder /\ ScOrder

LEMMA AppendValues ==
    ASSUME NEW s \in Seq(Nat), NEW x \in Nat
    PROVE  Append(s, x) \in Seq(Nat) /\ Values(Append(s, x)) = Values(s) \cup {x}
<1>. DEFINE q == Append(s, x)
<1>1. /\ q \in Seq(Nat) /\ Len(s) \in Nat /\ DOMAIN s = 1..Len(s) /\ DOMAIN q = 1..Len(s)+1
      /\ \A i \in 1..Len(s) : q[i] = s[i]
      /\ q[Len(s) + 1] = x
    OBVIOUS
<1>. HIDE DEF q
<1>2. Values(q) = Values(s) \cup {x}
    BY <1>1 DEF Values
<1>. QED BY <1>1, <1>2 DEF q

LEMMA AppendIncreasing ==
    ASSUME NEW s \in Seq(Nat), NEW x \in Nat, Increasing(s), Before(s, x)
    PROVE  Increasing(Append(s, x))
<1>. DEFINE q == Append(s, x)
<1>1. /\ Len(s) \in Nat /\ DOMAIN s = 1..Len(s) /\ DOMAIN q = 1..Len(s)+1
      /\ \A i \in 1..Len(s) : q[i] = s[i]
      /\ q[Len(s) + 1] = x
    OBVIOUS
<1>. HIDE DEF q
<1>2. ASSUME NEW i \in DOMAIN q, NEW j \in DOMAIN q, i < j PROVE q[i] < q[j]
    <2>1. i \in 1..Len(s) /\ q[i] = s[i]
        BY <1>1, <1>2
    <2>2. CASE j = Len(s) + 1
        BY <1>1, <2>1, <2>2 DEF Before, Values
    <2>3. CASE j # Len(s) + 1
        <3>1. j \in 1..Len(s) /\ q[j] = s[j]
            BY <1>1, <1>2, <2>3
        <3>. QED BY <1>1, <1>2, <2>1, <3>1 DEF Increasing
    <2>. QED BY <2>2, <2>3
<1>3. Increasing(q)
    BY <1>2 DEF Increasing
<1>. QED BY <1>3 DEF q

\* What the order needs of the types.
LEMMA OrderTypes ==
    ASSUME IInv, OrderInv
    PROVE  /\ acks \in Seq(Nat) /\ replies["sc"] \in Seq(Nat) /\ replies["tty"] \in Seq(Nat)
           /\ sc_msg \in Nat /\ out \in Nat /\ tty_msg.id \in Nat /\ tty_msg.size \in Nat
           /\ unlucky \subseteq Nat /\ Done \subseteq Nat
           /\ Len(sent) \in Nat /\ sent \in Seq(Endpoint)
           /\ ring \in Seq(Message) /\ \A i \in DOMAIN ring : ring[i].id \in Nat
<1>1. "sc" \in Thread /\ "tty" \in Thread
    BY DEF Thread
<1>2. sent \in Seq(Endpoint)
    BY DEF IInv, RpmsgType, TypeOK, Endpoint
<1>3. /\ acks \in Seq(Nat) /\ replies["sc"] \in Seq(Nat) /\ replies["tty"] \in Seq(Nat)
      /\ sc_msg \in Nat /\ tty_msg.id \in Nat /\ unlucky \subseteq Nat
    BY <1>1 DEF IInv, RpmsgType, OrderInv, OrderType, TypeOK
<1>4. \A s \in Seq(Nat) : Values(s) \subseteq Nat
    BY DEF Values
<1>5. Done \subseteq Nat
    BY <1>3, <1>4 DEF Done
<1>. QED BY <1>2, <1>3, <1>5 DEF IInv, RpmsgType, TypeOK

\* A step that dispatches the oldest message makes at most that one done.
LEMMA RingOrderDispatch ==
    ASSUME IInv, OrderInv, ring # <<>>, ring' = Tail(ring), sent' = sent,
           Done' \subseteq Done \cup {Head(ring).id}
    PROVE  RingOrder'
<1>1. /\ Len(ring) \in Nat \ {0} /\ DOMAIN ring = 1..Len(ring)
      /\ DOMAIN ring' = 1..Len(ring)-1
      /\ \A i \in 1..Len(ring)-1 : ring'[i] = ring[i+1]
      /\ Head(ring) = ring[1]
    BY OrderTypes
<1>2. RingOrder
    BY DEF OrderInv
<1>3. ASSUME NEW i \in DOMAIN ring'
      PROVE  ring'[i].id <= Len(sent') /\ \A d \in Done' : d < ring'[i].id
    <2>1. i + 1 \in DOMAIN ring /\ 1 \in DOMAIN ring /\ 1 < i + 1 /\ ring'[i] = ring[i+1]
        BY <1>1, <1>3
    <2>. QED BY <1>1, <1>2, <2>1 DEF RingOrder
<1>4. ASSUME NEW i \in DOMAIN ring', NEW j \in DOMAIN ring', i < j
      PROVE  ring'[i].id < ring'[j].id
    <2>1. i + 1 \in DOMAIN ring /\ j + 1 \in DOMAIN ring /\ i + 1 < j + 1
          /\ ring'[i] = ring[i+1] /\ ring'[j] = ring[j+1]
        BY <1>1, <1>4
    <2>. QED BY <1>2, <2>1 DEF RingOrder
<1>5. \A d \in Done' : d <= Len(sent')
    <2>1. 1 \in DOMAIN ring
        BY <1>1
    <2>. QED BY <1>1, <1>2, <2>1 DEF RingOrder
<1>. QED BY <1>3, <1>4, <1>5 DEF RingOrder

LEMMA RingOrderSend ==
    ASSUME IInv, OrderInv, NEW m, NEW to \in Endpoint, m.id = Len(sent) + 1,
           ring' = Append(ring, m), sent' = Append(sent, to), Done' = Done
    PROVE  RingOrder'
<1>1. /\ Len(ring) \in Nat /\ DOMAIN ring = 1..Len(ring) /\ DOMAIN ring' = 1..Len(ring)+1
      /\ \A i \in 1..Len(ring) : ring'[i] = ring[i]
      /\ ring'[Len(ring)+1] = m
    BY OrderTypes
<1>2. RingOrder /\ Len(sent) \in Nat /\ Len(sent') = Len(sent) + 1 /\ Done \subseteq Nat
      /\ \A i \in DOMAIN ring : ring[i].id \in Nat
    BY OrderTypes DEF OrderInv
<1>3. ASSUME NEW i \in DOMAIN ring'
      PROVE  ring'[i].id <= Len(sent') /\ \A d \in Done' : d < ring'[i].id
    <2>1. CASE i \in DOMAIN ring
        BY <1>1, <1>2, <2>1 DEF RingOrder
    <2>2. CASE i = Len(ring) + 1
        BY <1>1, <1>2, <2>2 DEF RingOrder
    <2>. QED BY <1>1, <1>3, <2>1, <2>2
<1>4. ASSUME NEW i \in DOMAIN ring', NEW j \in DOMAIN ring', i < j
      PROVE  ring'[i].id < ring'[j].id
    <2>1. i \in DOMAIN ring
        BY <1>1, <1>4
    <2>2. CASE j \in DOMAIN ring
        BY <1>1, <1>2, <1>4, <2>1, <2>2 DEF RingOrder
    <2>3. CASE j = Len(ring) + 1
        BY <1>1, <1>2, <2>1, <2>3 DEF RingOrder
    <2>. QED BY <1>1, <1>4, <2>2, <2>3
<1>5. \A d \in Done' : d <= Len(sent')
    BY <1>2 DEF RingOrder
<1>. QED BY <1>3, <1>4, <1>5 DEF RingOrder

LEMMA RingOrderKept ==
    ASSUME IInv, OrderInv, UNCHANGED <<ring, sent>>, Done' \subseteq Done \cup {0}
    PROVE  RingOrder'
<1>1. /\ RingOrder /\ Len(sent) \in Nat /\ Done \subseteq Nat /\ sc_msg \in Done
      /\ \A i \in DOMAIN ring : ring[i].id \in Nat
    BY OrderTypes DEF OrderInv, Done
<1>. QED BY <1>1 DEF RingOrder

LEMMA ReplyEffect ==
    ASSUME IInv, OrderInv, NEW t \in Thread, NEW id \in Nat,
           replies' = [replies EXCEPT ![t] = Append(@, id)]
    PROVE  /\ replies' \in [Thread -> Seq(Nat)]
           /\ replies'[t] = Append(replies[t], id) /\ replies[t] \in Seq(Nat)
           /\ \A u \in Thread \ {t} : replies'[u] = replies[u]
           /\ Values(replies'[t]) = Values(replies[t]) \cup {id}
<1>1. replies \in [Thread -> Seq(Nat)]
    BY DEF OrderInv, OrderType
<1>2. /\ replies'[t] = Append(replies[t], id) /\ replies[t] \in Seq(Nat)
      /\ \A u \in Thread \ {t} : replies'[u] = replies[u]
    BY <1>1
<1>3. /\ Append(replies[t], id) \in Seq(Nat)
      /\ Values(Append(replies[t], id)) = Values(replies[t]) \cup {id}
    BY <1>2, AppendValues
<1>4. replies' \in [Thread -> Seq(Nat)]
    BY <1>1, <1>3
<1>. QED BY <1>2, <1>3, <1>4

\* The parts of the order that every step treats alike.
Recorded == OrderType /\ Increasing(acks) /\ RingOrder

LEMMA RecordedQuiet ==
    ASSUME IInv, OrderInv, UNCHANGED <<acks, replies, unlucky, sc_msg, ring, sent>>,
           tty_msg' = tty_msg \/ tty_msg' = NoMessage
    PROVE  Recorded'
<1>1. Done' \subseteq Done \cup {0}
    BY DEF Done, NoMessage
<1>. QED BY <1>1, RingOrderKept DEF Recorded, OrderInv, OrderType

\* A command is acknowledged, and its message taken out of the ring.
LEMMA RecordedAck ==
    ASSUME IInv, OrderInv, ring # <<>>, ring' = Tail(ring),
           acks' = Append(acks, Head(ring).id),
           UNCHANGED <<replies, unlucky, sc_msg, tty_msg, sent>>
    PROVE  Recorded'
<1>1. Head(ring).id \in Nat /\ acks \in Seq(Nat) /\ 1 \in DOMAIN ring /\ Head(ring) = ring[1]
    BY OrderTypes
<1>2. acks' \in Seq(Nat) /\ Values(acks') = Values(acks) \cup {Head(ring).id}
    BY <1>1, AppendValues
<1>3. Done' \subseteq Done \cup {Head(ring).id}
    BY <1>2 DEF Done
<1>4. Before(acks, Head(ring).id)
    BY <1>1 DEF OrderInv, RingOrder, Done, Before
<1>5. Increasing(acks')
    BY <1>1, <1>4, AppendIncreasing DEF OrderInv
<1>. QED BY <1>2, <1>3, <1>5, RingOrderDispatch DEF Recorded, OrderInv, OrderType, Increasing

LEMMA RecordedMng == IInv /\ OrderInv /\ MngStep => Recorded'
<1>. SUFFICES ASSUME IInv, OrderInv, MngStep PROVE Recorded'
    OBVIOUS
<1>0. ring # <<>> => Head(ring).id \in Nat
    BY OrderTypes
<1>1. CASE MngBoots \/ MngWakes \/ DispatchEnds
    BY <1>1, RecordedQuiet
       DEF MngBoots, MngWakes, DispatchEnds, linux, buffers, messages, answers
<1>2. CASE DispatchClient
    <2>1. ring # <<>> /\ ring' = Tail(ring) /\ sc_msg' = Head(ring).id
          /\ UNCHANGED <<tty_msg, acks, replies, unlucky, sent>>
        BY <1>2 DEF DispatchClient, Dispatching, ReturnBuffer, Next1, linux, answers
    <2>2. Done' \subseteq Done \cup {Head(ring).id}
        BY <2>1 DEF Done
    <2>. QED BY <2>1, <2>2, RingOrderDispatch DEF Recorded, OrderInv, OrderType
<1>3. CASE DispatchTty
    <2>1. ring # <<>> /\ ring' = Tail(ring) /\ tty_msg'.id = Head(ring).id
          /\ UNCHANGED <<sc_msg, acks, replies, sent>>
        BY <1>3 DEF DispatchTty, Dispatching, Next1, linux
    <2>. DEFINE more == Meets \cup (IF Head(ring).size = 0 THEN {Head(ring).id} ELSE {})
    <2>2. more \in SUBSET {tty_msg.id, Head(ring).id} /\ unlucky' = unlucky \cup more
        <3>1. unlucky' = unlucky \cup Meets \cup (IF Head(ring).size = 0 THEN {Head(ring).id} ELSE {})
            BY <1>3 DEF DispatchTty, Next1
        <3>. QED BY <3>1 DEF Meets, Next1
    <2>. HIDE DEF more
    <2>3. Done' \subseteq Done \cup {Head(ring).id}
        BY <2>1, <2>2 DEF Done
    <2>4. unlucky' \in SUBSET Nat
        BY <1>0, <2>1, <2>2, OrderTypes
    <2>5. IsFiniteSet(unlucky')
        <3>1. IsFiniteSet(unlucky) /\ IsFiniteSet({tty_msg.id}) /\ IsFiniteSet({Head(ring).id})
            BY FS_Singleton DEF OrderInv, OrderType
        <3>2. IsFiniteSet({tty_msg.id} \cup {Head(ring).id})
            BY <3>1, FS_Union
        <3>3. {tty_msg.id} \cup {Head(ring).id} = {tty_msg.id, Head(ring).id}
            OBVIOUS
        <3>4. IsFiniteSet(more)
            BY <2>2, <3>2, <3>3, FS_Subset
        <3>. QED BY <2>2, <3>1, <3>4, FS_Union
    <2>. QED BY <2>1, <2>3, <2>4, <2>5, RingOrderDispatch DEF Recorded, OrderInv, OrderType
<1>4. CASE DispatchNobody
    <2>1. ring # <<>> /\ ring' = Tail(ring)
          /\ UNCHANGED <<sc_msg, tty_msg, acks, replies, unlucky, sent>>
        BY <1>4 DEF DispatchNobody, ReturnBuffer, linux, messages, answers
    <2>2. Done' \subseteq Done \cup {Head(ring).id}
        BY <2>1 DEF Done
    <2>. QED BY <2>1, <2>2, RingOrderDispatch DEF Recorded, OrderInv, OrderType
<1>5. CASE DispatchCommand
    <2>1. CASE tx > 0
        BY <1>5, <2>1, RecordedAck
           DEF DispatchCommand, Dispatching, ReturnBuffer, Next1, linux, messages
    <2>2. CASE ~(tx > 0)
        BY <1>5, <2>2, RecordedQuiet DEF DispatchCommand, linux, messages
    <2>. QED BY <2>1, <2>2
<1>6. CASE MngAcks
    <2>1. ring # <<>>
        BY <1>6 DEF MngAcks, IInv, AckingHasMessage
    <2>2. CASE tx > 0
        BY <1>6, <2>1, <2>2, RecordedAck DEF MngAcks, ReturnBuffer, Next1, linux, messages
    <2>3. CASE ~(tx > 0)
        <3>1. ring' = Tail(ring) /\ UNCHANGED <<sc_msg, tty_msg, acks, replies, unlucky, sent>>
            BY <1>6, <2>3 DEF MngAcks, ReturnBuffer, linux, messages
        <3>2. Done' \subseteq Done \cup {Head(ring).id}
            BY <3>1 DEF Done
        <3>. QED BY <2>1, <3>1, <3>2, RingOrderDispatch DEF Recorded, OrderInv, OrderType
    <2>. QED BY <2>2, <2>3
<1>. QED BY <1>1, <1>2, <1>3, <1>4, <1>5, <1>6 DEF MngStep

\* An answer about a message that was dispatched.
LEMMA RecordedReply ==
    ASSUME IInv, OrderInv, NEW t \in Thread, NEW id \in Nat,
           \A bound \in Nat : (\A d \in Done : d < bound) => id < bound,
           replies' = [replies EXCEPT ![t] = Append(@, id)],
           UNCHANGED <<acks, unlucky, sc_msg, ring, sent>>,
           tty_msg' = tty_msg \/ tty_msg' = NoMessage
    PROVE  Recorded'
<1>1. /\ replies' \in [Thread -> Seq(Nat)]
      /\ Values(replies'["sc"]) \subseteq Values(replies["sc"]) \cup {id}
      /\ Values(replies'["tty"]) \subseteq Values(replies["tty"]) \cup {id}
    <2>1. \A u \in Thread : Values(replies'[u]) \subseteq Values(replies[u]) \cup {id}
        BY ReplyEffect
    <2>. QED BY <2>1, ReplyEffect DEF Thread
<1>2. Done' \subseteq Done \cup {id, 0}
    BY <1>1 DEF Done, NoMessage
<1>3. /\ RingOrder /\ Len(sent) \in Nat /\ Done \subseteq Nat /\ sc_msg \in Done
      /\ \A i \in DOMAIN ring : ring[i].id \in Nat
    BY OrderTypes DEF OrderInv, Done
<1>4. \A i \in DOMAIN ring : id < ring[i].id
    BY <1>3 DEF RingOrder
<1>5. id <= Len(sent)
    <2>1. Len(sent) + 1 \in Nat /\ \A d \in Done : d < Len(sent) + 1
        BY <1>3 DEF RingOrder
    <2>2. id < Len(sent) + 1
        BY <2>1
    <2>. QED BY <1>3, <2>2
<1>6. RingOrder'
    BY <1>2, <1>3, <1>4, <1>5 DEF RingOrder
<1>. QED BY <1>1, <1>6 DEF Recorded, OrderInv, OrderType

LEMMA RecordedThreads ==
    ASSUME IInv, OrderInv, NEW t \in Thread, ThreadStep(t)
    PROVE  Recorded'
<1>0. /\ "sc" \in Thread /\ "tty" \in Thread /\ sc_msg \in Nat /\ out \in Nat
      /\ tty_msg.id \in Nat /\ sc_msg \in Done /\ tty_msg.id \in Done /\ Done \subseteq Nat
    BY OrderTypes DEF Done, Thread
<1>1. CASE ThreadStarts(t) \/ TtySkips
    BY <1>1, RecordedQuiet
       DEF ThreadStarts, TtySkips, linux, buffers, messages, answers
<1>2. CASE ClientRuns
    <2>1. UNCHANGED <<acks, unlucky, sc_msg, tty_msg, ring, sent>>
        BY <1>2 DEF ClientRuns, linux, buffers
    <2>. QED BY <1>0, <1>2, <2>1, RecordedReply, RecordedQuiet DEF ClientRuns, ReplyClient
<1>3. CASE ClientSends
    <2>1. UNCHANGED <<acks, unlucky, sc_msg, tty_msg, ring, sent>>
        BY <1>3 DEF ClientSends, linux, buffers, messages
    <2>. QED BY <1>0, <1>3, <2>1, RecordedReply, RecordedQuiet DEF ClientSends, ReplyClient
<1>4. CASE TtyRuns
    <2>1. UNCHANGED <<acks, unlucky, sc_msg, ring, sent>>
        BY <1>4 DEF TtyRuns, linux
    <2>2. tty_msg' = tty_msg \/ tty_msg' = NoMessage
        BY <1>4 DEF TtyRuns, FinishTty
    <2>. QED BY <1>0, <1>4, <2>1, <2>2, RecordedReply, RecordedQuiet DEF TtyRuns, ReplyTty
<1>5. CASE TtySends
    <2>1. UNCHANGED <<acks, unlucky, sc_msg, ring, sent>>
        BY <1>5 DEF TtySends, linux
    <2>2. tty_msg' = NoMessage
        BY <1>5 DEF TtySends, FinishTty
    <2>3. out <= tty_msg.id
        BY <1>5 DEF TtySends, Runs, OrderInv, TtyOrder
    <2>4. \A bound \in Nat : (\A d \in Done : d < bound) => out < bound
        BY <1>0, <2>3
    <2>. QED BY <1>0, <1>5, <2>1, <2>2, <2>4, RecordedReply, RecordedQuiet DEF TtySends, ReplyTty
<1>. QED BY <1>1, <1>2, <1>3, <1>4, <1>5 DEF ThreadStep

LEMMA RecordedNext == IInv /\ OrderInv /\ [Next]_vars => Recorded'
<1>. SUFFICES ASSUME IInv, OrderInv, [Next]_vars PROVE Recorded'
    OBVIOUS
<1>1. CASE UNCHANGED vars
    BY <1>1, RecordedQuiet DEF vars
<1>2. CASE LinuxReads \/ Interrupt
    BY <1>2, RecordedQuiet DEF LinuxReads, Interrupt, linux, buffers, messages, answers
<1>3. ASSUME NEW to \in Endpoint, NEW size \in Nat, LinuxSends(to, size) PROVE Recorded'
    <2>1. PICK b \in avail :
              ring' = Append(ring, [buffer |-> b, id |-> Len(sent) + 1, to |-> to, size |-> size])
        BY <1>3 DEF LinuxSends
    <2>2. sent' = Append(sent, to) /\ UNCHANGED <<sc_msg, tty_msg, acks, replies, unlucky>>
        BY <1>3 DEF LinuxSends, messages, answers
    <2>3. RingOrder'
        <3>1. Done' = Done
            BY <2>2 DEF Done
        <3>. QED BY <2>1, <2>2, <3>1, RingOrderSend
    <2>. QED BY <2>2, <2>3 DEF Recorded, OrderInv, OrderType
<1>4. 24 \in Nat /\ 12 \in Nat /\ Sizes \subseteq Nat /\ {"cmd", "sc", "tty"} \subseteq Endpoint
    BY RpmsgAssumption DEF Endpoint
<1>. QED BY <1>1, <1>2, <1>3, <1>4, RecordedMng, RecordedThreads DEF Next

LEMMA TtyOrderNext == IInv /\ OrderInv /\ [Next]_vars => TtyOrder'
<1>. SUFFICES ASSUME IInv, OrderInv, [Next]_vars PROVE TtyOrder'
    OBVIOUS
<1>0. /\ replies["tty"] \in Seq(Nat) /\ out \in Nat /\ tty_msg.id \in Nat
      /\ TtyOrder /\ thread \in [Thread -> Places] /\ "tty" \in Thread /\ "sc" # "tty"
      /\ ring # <<>> => Head(ring).id \in Nat
    BY OrderTypes DEF OrderInv, IInv, RpmsgType, TypeOK, Places, Thread
<1>1. ASSUME UNCHANGED <<tty_msg, out>>, replies'["tty"] = replies["tty"],
             thread'["tty"] = "sending" => thread["tty"] = "sending"
      PROVE  TtyOrder'
    BY <1>0, <1>1 DEF TtyOrder
<1>2. CASE DispatchTty
    <2>1. /\ tty_msg'.id = Head(ring).id /\ ring # <<>> /\ UNCHANGED <<out, replies>>
          /\ thread'["tty"] = "sending" => thread["tty"] = "sending"
        BY <1>0, <1>2 DEF DispatchTty, Dispatching, Next1, Give
    <2>2. 1 \in DOMAIN ring /\ Head(ring) = ring[1]
        BY <2>1, OrderTypes
    <2>3. Before(replies["tty"], Head(ring).id) /\ tty_msg.id < Head(ring).id
        BY <2>2 DEF OrderInv, RingOrder, Done, Before
    <2>4. out <= tty_msg.id => out <= tty_msg'.id
        BY <1>0, <2>1, <2>3
    <2>. QED BY <1>0, <2>1, <2>3, <2>4 DEF TtyOrder
<1>3. ASSUME tty_msg' = NoMessage, thread'["tty"] # "sending", Increasing(replies["tty"])'
      PROVE  TtyOrder'
    BY <1>3 DEF TtyOrder, NoMessage
<1>4. FinishTty \/ TakeAgain("tty") => thread'["tty"] # "sending"
    BY <1>0 DEF FinishTty, TakeAgain
<1>5. CASE TtyRuns
    <2>1. Before(replies["tty"], tty_msg.id)
        BY <1>0, <1>5 DEF TtyRuns, TtyOrder
    <2>2. CASE tx > 0
        <3>1. replies'["tty"] = Append(replies["tty"], tty_msg.id)
            BY <1>0, <1>5, <2>2, ReplyEffect DEF TtyRuns, ReplyTty
        <3>2. Increasing(replies'["tty"])
            BY <1>0, <2>1, <3>1, AppendIncreasing DEF TtyOrder
        <3>. QED BY <1>3, <1>4, <1>5, <2>2, <3>2 DEF TtyRuns, FinishTty, Increasing
    <2>3. CASE ~(tx > 0)
        <3>1. UNCHANGED <<replies, tty_msg>> /\ out' = tty_msg.id
            BY <1>5, <2>3 DEF TtyRuns
        <3>. QED BY <1>0, <2>1, <3>1 DEF TtyOrder
    <2>. QED BY <2>2, <2>3
<1>6. CASE TtySkips
    <2>1. tty_msg' = NoMessage /\ UNCHANGED replies /\ TakeAgain("tty")
        BY <1>6 DEF TtySkips, answers
    <2>. QED BY <1>0, <1>3, <1>4, <2>1 DEF TtyOrder, Increasing
<1>7. CASE TtySends
    <2>1. tty_msg' = NoMessage /\ FinishTty /\ thread["tty"] = "sending"
        BY <1>7 DEF TtySends, FinishTty, Runs
    <2>2. CASE tx > 0
        <3>1. replies'["tty"] = Append(replies["tty"], out)
            BY <1>0, <1>7, <2>2, ReplyEffect DEF TtySends, ReplyTty
        <3>2. Increasing(replies'["tty"])
            BY <1>0, <2>1, <3>1, AppendIncreasing DEF TtyOrder
        <3>. QED BY <1>3, <1>4, <2>1, <3>2 DEF Increasing
    <2>3. CASE ~(tx > 0)
        <3>1. UNCHANGED replies
            BY <1>7, <2>3 DEF TtySends
        <3>. QED BY <1>0, <1>3, <1>4, <2>1, <3>1 DEF TtyOrder, Increasing
    <2>. QED BY <2>2, <2>3
<1>8. CASE ClientRuns \/ ClientSends
    <2>1. /\ UNCHANGED <<tty_msg, out>>
          /\ ReplyClient \/ UNCHANGED replies
          /\ (\E n \in {msg_cnt, msg_cnt + 1} : ClientLoops(n))
             \/ thread' = [thread EXCEPT !["sc"] = "sending"]
        BY <1>8 DEF ClientRuns, ClientSends, messages
    <2>2. thread'["tty"] = thread["tty"]
        BY <1>0, <2>1 DEF ClientLoops, TakeAgain
    <2>3. replies'["tty"] = replies["tty"]
        BY <2>1, OrderTypes, ReplyEffect DEF ReplyClient, Thread
    <2>. QED BY <1>1, <2>1, <2>2, <2>3
<1>9. CASE MngStep /\ ~DispatchTty
    <2>1. UNCHANGED <<tty_msg, out, replies>>
        BY <1>9 DEF MngStep, MngBoots, MngWakes, DispatchClient, DispatchNobody,
                    DispatchCommand, MngAcks, DispatchEnds, messages, answers
    <2>2. thread'["tty"] = thread["tty"]
        BY <1>0, <1>9 DEF MngStep, MngBoots, MngWakes, DispatchClient, DispatchNobody,
                    DispatchCommand, MngAcks, DispatchEnds, Give
    <2>. QED BY <1>1, <2>1, <2>2
<1>10. ASSUME NEW t \in Thread, ThreadStarts(t) PROVE TtyOrder'
    BY <1>0, <1>1, <1>10 DEF ThreadStarts, messages, answers
<1>11. CASE UNCHANGED vars
    BY <1>1, <1>11 DEF vars
<1>12. CASE LinuxReads \/ Interrupt \/ \E to \in Endpoint, size \in Nat : LinuxSends(to, size)
    BY <1>1, <1>12 DEF LinuxReads, Interrupt, LinuxSends, messages, answers
<1>13. 24 \in Nat /\ 12 \in Nat /\ Sizes \subseteq Nat /\ {"cmd", "sc", "tty"} \subseteq Endpoint
    BY RpmsgAssumption DEF Endpoint
<1>14. ASSUME NEW t \in Thread, ThreadStep(t) PROVE TtyOrder'
    BY <1>5, <1>6, <1>7, <1>8, <1>10, <1>14 DEF ThreadStep
<1>. QED BY <1>2, <1>9, <1>11, <1>12, <1>13, <1>14 DEF Next

\* The client's part of the order, when it answers or gives an answer up.
LEMMA ScOrderLoops ==
    ASSUME IInv, OrderInv, NEW count \in Nat, ClientLoops(count), ScOwes,
           UNCHANGED <<mng, sc_msg>>,
           replies'["sc"] = replies["sc"] \/ replies'["sc"] = Append(replies["sc"], sc_msg)
    PROVE  ScOrder'
<1>. DEFINE r == replies["sc"]  q == replies'["sc"]
<1>1. /\ r \in Seq(Nat) /\ sc_msg \in Nat /\ ScOrder /\ mng # "boot"
      /\ thread \in [Thread -> Places] /\ SemType(sem) /\ "sc" \in Thread
    BY OrderTypes DEF OrderInv, ScOrder, ScOwes, IInv, RpmsgType, TypeOK, Places, SemType, Thread
<1>2. \/ thread'["sc"] = "woken" /\ sem["sc"] = 1 /\ sem'["sc"] = 0
      \/ thread'["sc"] = "waiting" /\ sem'["sc"] = 0
      \/ thread'["sc"] = "ended" /\ sem'["sc"] = sem["sc"]
    BY <1>1 DEF ClientLoops, TakeAgain, SemType, Places
<1>3. /\ Len(r) \in Nat /\ DOMAIN r = 1..Len(r)
      /\ \A i \in DOMAIN r : r[i] \in Nat
    BY <1>1
<1>4. /\ \A i \in DOMAIN r : r[i] <= sc_msg
      /\ \A i, j \in DOMAIN r : i < j => r[i] <= r[j] /\ (j >= i + 2 => r[i] # r[j])
      /\ \A i \in DOMAIN r : i + 1 \in DOMAIN r => r[i] < sc_msg
      /\ sem["sc"] = 1 => \A i \in DOMAIN r : r[i] < sc_msg
    BY <1>1 DEF ScOrder, Before, Values
<1>5. CASE q = r
    <2>1. sem["sc"] = 1 => Before(q, sc_msg)
        BY <1>4, <1>5 DEF Before, Values
    <2>. QED BY <1>1, <1>2, <1>4, <1>5, <2>1 DEF ScOrder, ScOwes
<1>6. CASE q = Append(r, sc_msg)
    <2>1. /\ DOMAIN q = 1..Len(r)+1
          /\ \A i \in 1..Len(r) : q[i] = r[i]
          /\ q[Len(r) + 1] = sc_msg
        BY <1>1, <1>6
    <2>. HIDE DEF r, q
    <2>2. \A i \in DOMAIN q : q[i] <= sc_msg
        <3>1. ASSUME NEW i \in DOMAIN q PROVE q[i] <= sc_msg
            <4>1. CASE i \in DOMAIN r
                BY <1>3, <1>4, <2>1, <4>1
            <4>2. CASE i = Len(r) + 1
                BY <1>1, <2>1, <4>2
            <4>. QED BY <1>3, <2>1, <3>1, <4>1, <4>2
        <3>. QED BY <3>1
    <2>3. ASSUME NEW i \in DOMAIN q, NEW j \in DOMAIN q, i < j
          PROVE  q[i] <= q[j] /\ (j >= i + 2 => q[i] # q[j])
        <3>1. i \in DOMAIN r /\ q[i] = r[i]
            BY <1>3, <2>1, <2>3
        <3>2. CASE j \in DOMAIN r
            BY <1>3, <1>4, <2>1, <2>3, <3>1, <3>2
        <3>3. CASE j = Len(r) + 1
            <4>1. j >= i + 2 => i + 1 \in DOMAIN r
                BY <1>3, <3>1, <3>3
            <4>. QED BY <1>1, <1>3, <1>4, <2>1, <3>1, <3>3, <4>1
        <3>. QED BY <1>3, <2>1, <2>3, <3>2, <3>3
    <2>4. sem["sc"] = 1 => \A i \in DOMAIN q : i + 1 \in DOMAIN q => q[i] < sc_msg
        <3>1. ASSUME sem["sc"] = 1, NEW i \in DOMAIN q, i + 1 \in DOMAIN q
              PROVE  q[i] < sc_msg
            <4>1. i \in DOMAIN r /\ q[i] = r[i]
                BY <1>3, <2>1, <3>1
            <4>. QED BY <1>4, <3>1, <4>1
        <3>. QED BY <3>1
    <2>5. ~(ScOwes /\ sem["sc"] = 1)' /\ ((ScOwes \/ sem["sc"] = 1)' => sem["sc"] = 1)
        BY <1>2 DEF ScOwes
    <2>6. thread'["sc"] # "starting"
        BY <1>2
    <2>. QED BY <1>1, <2>2, <2>3, <2>4, <2>5, <2>6 DEF ScOrder, q
<1>. QED BY <1>5, <1>6

LEMMA ScOrderNext == IInv /\ OrderInv /\ [Next]_vars => ScOrder'
<1>. SUFFICES ASSUME IInv, OrderInv, [Next]_vars PROVE ScOrder'
    OBVIOUS
<1>0. /\ replies["sc"] \in Seq(Nat) /\ sc_msg \in Nat
      /\ ScOrder /\ thread \in [Thread -> Places] /\ SemType(sem)
      /\ "tty" \in Thread /\ "sc" \in Thread /\ "sc" # "tty"
    BY OrderTypes DEF OrderInv, IInv, RpmsgType, TypeOK, Places, SemType, Thread
<1>1. ASSUME sc_msg' = sc_msg, replies'["sc"] = replies["sc"], thread'["sc"] = thread["sc"],
             sem'["sc"] = sem["sc"], mng' = "boot" => mng = "boot"
      PROVE  ScOrder'
    BY <1>0, <1>1 DEF ScOrder, ScOwes
<1>2. ASSUME sc_msg' \in Nat, Before(replies["sc"], sc_msg'), replies' = replies, mng' # "boot",
             thread'["sc"] = "starting" => thread["sc"] = "starting"
      PROVE  ScOrder'
    <2>1. /\ \A i \in DOMAIN replies["sc"] : replies["sc"][i] < sc_msg'
          /\ \A i \in DOMAIN replies["sc"] : replies["sc"][i] \in Nat
        BY <1>0, <1>2 DEF Before, Values
    <2>. QED BY <1>0, <1>2, <2>1 DEF ScOrder
<1>3. ASSUME thread["sc"] = "starting", mng' # "boot", UNCHANGED <<sc_msg, replies>>,
             thread'["sc"] \notin {"woken", "sending"}
      PROVE  ScOrder'
    <2>1. replies["sc"] = <<>> /\ DOMAIN replies["sc"] = {}
        BY <1>0, <1>3 DEF ScOrder
    <2>. QED BY <1>3, <2>1 DEF ScOrder, ScOwes
<1>4. CASE DispatchClient
    <2>1. /\ sc_msg' = Head(ring).id /\ ring # <<>> /\ UNCHANGED <<mng, replies>>
          /\ mng = "dispatching"
          /\ thread'["sc"] = "starting" => thread["sc"] = "starting"
        BY <1>0, <1>4 DEF DispatchClient, Dispatching, Next1, Give, answers
    <2>2. 1 \in DOMAIN ring /\ Head(ring) = ring[1] /\ Head(ring).id \in Nat
        BY <2>1, OrderTypes
    <2>3. Before(replies["sc"], Head(ring).id)
        BY <2>2 DEF OrderInv, RingOrder, Done, Before
    <2>. QED BY <1>2, <2>1, <2>2, <2>3
<1>5. CASE MngBoots
    <2>1. /\ mng = "boot" /\ mng' # "boot" /\ UNCHANGED <<thread, sc_msg, replies>>
        BY <1>5 DEF MngBoots, TakeDataSem, messages, answers
    <2>2. thread["sc"] = "starting"
        BY <1>0, <2>1 DEF ScOrder
    <2>. QED BY <1>3, <2>1, <2>2
<1>6. CASE MngWakes \/ DispatchTty \/ DispatchNobody \/ DispatchCommand \/ MngAcks \/ DispatchEnds
    <2>1. UNCHANGED <<sc_msg, replies>>
        BY <1>6 DEF MngWakes, DispatchTty, DispatchNobody, DispatchCommand, MngAcks, DispatchEnds,
                    messages, answers
    <2>2. mng' # "boot" \/ mng' = mng
        BY <1>6 DEF MngWakes, DispatchTty, DispatchNobody, DispatchCommand, MngAcks, DispatchEnds,
                    TakeDataSem
    <2>3. thread'["sc"] = thread["sc"] /\ sem'["sc"] = sem["sc"]
        BY <1>0, <1>6 DEF MngWakes, DispatchTty, DispatchNobody, DispatchCommand, MngAcks,
                    DispatchEnds, TakeDataSem, Give, SemType
    <2>. QED BY <1>1, <2>1, <2>2, <2>3
<1>7. CASE ThreadStarts("sc")
    <2>1. /\ thread["sc"] = "starting" /\ sem["sc"] = 1 /\ UNCHANGED <<mng, sc_msg, replies>>
          /\ thread'["sc"] \in {"waiting", "ended"}
        BY <1>0, <1>7 DEF ThreadStarts, Runs, messages, answers
    <2>2. mng # "boot"
        BY <1>0, <2>1 DEF ScOrder
    <2>. QED BY <1>3, <2>1, <2>2
<1>8. CASE ThreadStarts("tty")
    BY <1>0, <1>1, <1>8 DEF ThreadStarts, messages, answers, SemType
<1>9. ASSUME ClientRuns \/ ClientSends PROVE ScOrder'
    <2>1. /\ ScOwes /\ UNCHANGED <<mng, sc_msg>> /\ msg_cnt \in Nat /\ msg_cnt + 1 \in Nat
        BY <1>9, RpmsgAssumption
           DEF ClientRuns, ClientSends, Runs, ScOwes, messages, IInv, RpmsgType, TypeOK
    <2>2. replies'["sc"] = replies["sc"] \/ replies'["sc"] = Append(replies["sc"], sc_msg)
        <3>1. ReplyClient \/ UNCHANGED replies
            BY <1>9 DEF ClientRuns, ClientSends
        <3>. QED BY <1>0, <3>1, ReplyEffect DEF ReplyClient
    <2>3. CASE \E n \in {msg_cnt, msg_cnt + 1} : ClientLoops(n)
        BY <2>1, <2>2, <2>3, ScOrderLoops
    <2>4. CASE thread' = [thread EXCEPT !["sc"] = "sending"] /\ UNCHANGED <<sem, replies>>
        BY <1>0, <2>1, <2>4 DEF ScOrder, ScOwes
    <2>. QED BY <1>9, <2>3, <2>4 DEF ClientRuns, ClientSends
<1>10. CASE TtyRuns \/ TtySkips \/ TtySends
    <2>1. UNCHANGED <<mng, sc_msg>>
        BY <1>10 DEF TtyRuns, TtySkips, TtySends
    <2>2. replies'["sc"] = replies["sc"]
        <3>1. (\E id \in Nat : ReplyTty(id)) \/ UNCHANGED replies
            BY <1>10, OrderTypes DEF TtyRuns, TtySkips, TtySends, answers
        <3>. QED BY <1>0, <3>1, ReplyEffect DEF ReplyTty
    <2>3. thread'["sc"] = thread["sc"] /\ sem'["sc"] = sem["sc"]
        BY <1>0, <1>10 DEF TtyRuns, TtySkips, TtySends, FinishTty, TakeAgain, SemType
    <2>. QED BY <1>1, <2>1, <2>2, <2>3
<1>11. CASE UNCHANGED vars
    BY <1>1, <1>11 DEF vars
<1>12. CASE LinuxReads \/ \E to \in Endpoint, size \in Nat : LinuxSends(to, size)
    BY <1>1, <1>12 DEF LinuxReads, LinuxSends, messages, answers
<1>13. CASE Interrupt
    BY <1>0, <1>1, <1>13 DEF Interrupt, messages, answers, SemType
<1>14. 24 \in Nat /\ 12 \in Nat /\ Sizes \subseteq Nat /\ {"cmd", "sc", "tty"} \subseteq Endpoint
    BY RpmsgAssumption DEF Endpoint
<1>15. ASSUME NEW t \in Thread, ThreadStep(t) PROVE ScOrder'
    BY <1>7, <1>8, <1>9, <1>10, <1>15 DEF ThreadStep, Thread
<1>16. MngStep => ScOrder'
    BY <1>4, <1>5, <1>6 DEF MngStep
<1>. QED BY <1>11, <1>12, <1>13, <1>14, <1>15, <1>16 DEF Next

LEMMA OrderInvInit == Init => OrderInv
<1>. SUFFICES ASSUME Init PROVE OrderInv
    OBVIOUS
<1>1. /\ <<>> \in Seq(Nat) /\ DOMAIN <<>> = {} /\ Values(<<>>) = {}
    BY DEF Values
<1>2. /\ acks = <<>> /\ ring = <<>> /\ replies["sc"] = <<>> /\ replies["tty"] = <<>>
      /\ thread["sc"] = "starting" /\ thread["tty"] = "starting" /\ sem["sc"] = 0
      /\ sent = <<>> /\ unlucky = {} /\ sc_msg = 0 /\ tty_msg = NoMessage
    BY DEF Init, Thread
<1>3. OrderType
    BY <1>1, <1>2, FS_EmptySet DEF Init, OrderType
<1>4. Done = {0}
    BY <1>1, <1>2 DEF Done, NoMessage
<1>5. Len(sent) = 0
    BY <1>2
<1>6. RingOrder
    BY <1>1, <1>2, <1>4, <1>5 DEF RingOrder
<1>. QED BY <1>1, <1>2, <1>3, <1>6 DEF OrderInv, TtyOrder, ScOrder, ScOwes, Increasing, NoMessage

\* Commands are acknowledged and tty messages answered in the order sent and at most
\* once; the client never answers an older message again, nor any a third time.
THEOREM AnswersCorrect == Spec => []AnswersInOrder
<1>1. OrderInv => AnswersInOrder
    BY DEF OrderInv, TtyOrder, ScOrder, AnswersInOrder
<1>2. IInv /\ OrderInv /\ [Next]_vars => OrderInv'
    BY RecordedNext, TtyOrderNext, ScOrderNext DEF OrderInv, Recorded
<1>. QED BY <1>1, <1>2, IInvInit, IInvNext, OrderInvInit, PTL DEF Spec
-----------------------------------------------------------------------------
(* Buffers kept for ever *)

\* A buffer that is kept for ever is accounted for by a message of its own.
LeakExplained ==
    /\ tty_msg.size = 0 /\ tty_msg.buffer # NONE => tty_msg.id \in unlucky
    /\ Cardinality(held \ {tty_msg.buffer}) <= Cardinality(unlucky)
    /\ tty_msg.buffer # NONE /\ tty_msg.id \in unlucky
          => Cardinality(held \ {tty_msg.buffer}) + 1 <= Cardinality(unlucky)

LEMMA LeakFinite ==
    ASSUME IInv, OrderInv
    PROVE  /\ IsFiniteSet(held) /\ IsFiniteSet(unlucky) /\ NONE \notin held
           /\ \A b : Cardinality(held \ {b}) \in Nat /\ IsFiniteSet(held \ {b})
           /\ Cardinality(held) \in Nat /\ Cardinality(unlucky) \in Nat
           /\ \A b : Cardinality(held) <= Cardinality(held \ {b}) + 1
<1>1. /\ held \in SUBSET Buffers /\ IsFiniteSet(Buffers) /\ NONE \notin Buffers
      /\ IsFiniteSet(unlucky)
    BY RpmsgAssumption DEF IInv, RpmsgType, TypeOK, OrderInv, OrderType
<1>2. IsFiniteSet(held)
    BY <1>1, FS_Subset
<1>3. \A b : IsFiniteSet(held \ {b})
            /\ Cardinality(held \ {b}) = IF b \in held THEN Cardinality(held) - 1
                                                       ELSE Cardinality(held)
    BY <1>2, FS_RemoveElement
<1>4. \A b : Cardinality(held \ {b}) \in Nat
    BY <1>3, FS_CardinalityType
<1>5. Cardinality(held) \in Nat /\ Cardinality(unlucky) \in Nat
    BY <1>1, <1>2, FS_CardinalityType
<1>6. ASSUME NEW b PROVE Cardinality(held) <= Cardinality(held \ {b}) + 1
    <2>1. /\ Cardinality(held) \in Nat /\ Cardinality(held \ {b}) \in Nat
          /\ Cardinality(held \ {b}) \in {Cardinality(held), Cardinality(held) - 1}
        BY <1>3, <1>4, <1>5
    <2>. QED BY <2>1
<1>. QED BY <1>1, <1>2, <1>3, <1>4, <1>5, <1>6

LEMMA LeakNext == IInv /\ OrderInv /\ LeakExplained /\ [Next]_vars => LeakExplained'
<1>. SUFFICES ASSUME IInv, OrderInv, LeakExplained, [Next]_vars PROVE LeakExplained'
    OBVIOUS
<1>1. ASSUME UNCHANGED <<held, tty_msg, unlucky>> PROVE LeakExplained'
    BY <1>1 DEF LeakExplained
<1>2. CASE DispatchTty
    <2>. DEFINE b == Head(ring).buffer  h == Head(ring).id
    <2>1. /\ ring # <<>> /\ tty_msg' = [buffer |-> b, id |-> h, size |-> Head(ring).size]
          /\ unlucky' = unlucky \cup Meets \cup (IF Head(ring).size = 0 THEN {h} ELSE {})
          /\ held' = held \cup {b}
        BY <1>2 DEF DispatchTty, Dispatching, Next1
    <2>2. Head(ring) \in Message /\ b \in BuffersOf(ring) /\ BuffersOf(ring) \cap held = {}
        BY <2>1, TailBuffer DEF IInv, RpmsgType, BuffersInOnePlace
    <2>3. b \in Buffers /\ b # NONE /\ h \in Nat
        BY <2>2, RpmsgAssumption DEF Message
    <2>4. tty_msg.id # h /\ h \notin unlucky
        <3>1. 1 \in DOMAIN ring /\ Head(ring) = ring[1]
            BY <2>1, OrderTypes
        <3>2. tty_msg.id < h /\ \A u \in unlucky : u < h
            BY <3>1 DEF OrderInv, RingOrder, Done
        <3>. QED BY <2>3, <3>2, OrderTypes
    <2>5. /\ tty_msg'.buffer = b /\ tty_msg'.id = h /\ tty_msg'.size = Head(ring).size
          /\ held' \ {tty_msg'.buffer} = held
        BY <2>1, <2>2
    <2>. HIDE DEF b, h
    <2>6. CASE tty_msg.buffer = NONE
        <3>1. /\ unlucky' = unlucky \/ unlucky' = unlucky \cup {h}
              /\ Head(ring).size = 0 => unlucky' = unlucky \cup {h}
            BY <2>1, <2>6 DEF Meets
        <3>2. held = held \ {tty_msg.buffer}
            BY <2>6, LeakFinite
        <3>3. Cardinality(held) <= Cardinality(unlucky)
            BY <2>6, <3>2 DEF LeakExplained
        <3>4. /\ Cardinality(unlucky \cup {h}) = Cardinality(unlucky) + 1
              /\ Cardinality(held) \in Nat /\ Cardinality(unlucky) \in Nat
            BY <2>4, LeakFinite, FS_AddElement
        <3>5. CASE unlucky' = unlucky
            <4>1. tty_msg'.size # 0 /\ tty_msg'.id \notin unlucky'
                BY <2>4, <2>5, <3>1, <3>5
            <4>. QED BY <2>5, <3>3, <3>5, <4>1 DEF LeakExplained
        <3>6. CASE unlucky' = unlucky \cup {h}
            <4>1. Cardinality(held) <= Cardinality(unlucky')
                  /\ Cardinality(held) + 1 <= Cardinality(unlucky')
                BY <3>3, <3>4, <3>6
            <4>. QED BY <2>5, <3>6, <4>1 DEF LeakExplained
        <3>. QED BY <3>1, <3>5, <3>6
    <2>7. CASE tty_msg.buffer # NONE
        <3>1. unlucky' = (unlucky \cup {tty_msg.id}) \cup {h}
            BY <2>1, <2>7 DEF Meets, Next1, h
        <3>2. /\ IsFiniteSet(unlucky \cup {tty_msg.id})
              /\ Cardinality(unlucky \cup {tty_msg.id})
                   = IF tty_msg.id \in unlucky THEN Cardinality(unlucky)
                                               ELSE Cardinality(unlucky) + 1
            BY LeakFinite, FS_AddElement
        <3>3. Cardinality(unlucky') = Cardinality(unlucky \cup {tty_msg.id}) + 1
            BY <2>4, <3>1, <3>2, FS_AddElement
        <3>4. /\ Cardinality(held) <= Cardinality(held \ {tty_msg.buffer}) + 1
              /\ Cardinality(held) \in Nat /\ Cardinality(unlucky) \in Nat
              /\ Cardinality(held \ {tty_msg.buffer}) \in Nat
            BY LeakFinite
        <3>5. Cardinality(held) + 1 <= Cardinality(unlucky')
            BY <2>7, <3>2, <3>3, <3>4 DEF LeakExplained
        <3>6. h \in unlucky' /\ Cardinality(unlucky') \in Nat
            BY <3>1, <3>2, <3>3, <3>4
        <3>7. Cardinality(held) <= Cardinality(unlucky')
            BY <3>4, <3>5, <3>6
        <3>. QED BY <2>5, <3>5, <3>6, <3>7 DEF LeakExplained
    <2>. QED BY <2>6, <2>7
<1>3. CASE TtyRuns \/ TtySends
    <2>1. CASE FinishTty
        <3>1. held' = held \ {tty_msg.buffer} /\ tty_msg' = NoMessage /\ unlucky' = unlucky
            BY <1>3, <2>1 DEF TtyRuns, TtySends, FinishTty
        <3>2. held' \ {NONE} = held \ {tty_msg.buffer}
            BY <3>1, LeakFinite
        <3>3. /\ Cardinality(held \ {tty_msg.buffer}) <= Cardinality(unlucky)
              /\ Cardinality(held \ {tty_msg.buffer}) \in Nat
            BY LeakFinite DEF LeakExplained
        <3>. QED BY <3>1, <3>2, <3>3 DEF LeakExplained, NoMessage
    <2>2. CASE UNCHANGED <<held, tty_msg>>
        BY <1>1, <1>3, <2>2 DEF TtyRuns, TtySends
    <2>. QED BY <1>3, <2>1, <2>2 DEF TtyRuns, TtySends
<1>4. CASE TtySkips
    <2>1. held' = held /\ tty_msg' = NoMessage /\ unlucky' = unlucky /\ tty_msg.size = 0
        BY <1>4 DEF TtySkips, buffers, answers
    <2>2. held \ {NONE} = held
        BY LeakFinite
    <2>3. /\ Cardinality(held) <= Cardinality(held \ {tty_msg.buffer}) + 1
          /\ Cardinality(held) \in Nat /\ Cardinality(unlucky) \in Nat
          /\ Cardinality(held \ {tty_msg.buffer}) \in Nat
        BY LeakFinite
    <2>4. Cardinality(held) <= Cardinality(unlucky)
        <3>1. CASE tty_msg.buffer = NONE
            BY <2>2, <3>1 DEF LeakExplained
        <3>2. CASE tty_msg.buffer # NONE
            BY <2>1, <2>3, <3>2 DEF LeakExplained
        <3>. QED BY <3>1, <3>2
    <2>. QED BY <2>1, <2>2, <2>3, <2>4 DEF LeakExplained, NoMessage
<1>5. CASE MngStep /\ ~DispatchTty
    BY <1>1, <1>5 DEF MngStep, MngBoots, MngWakes, DispatchClient, DispatchNobody,
            DispatchCommand, MngAcks, DispatchEnds, buffers, messages, answers
<1>6. ASSUME NEW t \in Thread, ThreadStarts(t) \/ ClientRuns \/ ClientSends PROVE LeakExplained'
    BY <1>1, <1>6 DEF ThreadStarts, ClientRuns, ClientSends, buffers, messages, answers
<1>7. CASE LinuxReads \/ Interrupt \/ UNCHANGED vars
    BY <1>1, <1>7 DEF LinuxReads, Interrupt, vars, buffers, messages, answers
<1>8. ASSUME NEW to, NEW size, LinuxSends(to, size) PROVE LeakExplained'
    BY <1>1, <1>8 DEF LinuxSends, messages, answers
<1>9. ASSUME NEW t \in Thread, ThreadStep(t) PROVE LeakExplained'
    BY <1>3, <1>4, <1>6, <1>9 DEF ThreadStep
<1>. QED BY <1>2, <1>5, <1>7, <1>8, <1>9 DEF Next

\* A receive buffer is in one place; the tty reads only a buffer it holds; and the
\* buffers it never gives back are no more than the messages that were empty or came
\* too close together.
THEOREM BuffersCorrect == Spec => []BuffersAccounted
<1>1. Init => LeakExplained
    <2>1. SUFFICES ASSUME Init PROVE LeakExplained
        OBVIOUS
    <2>2. held = {} /\ unlucky = {} /\ tty_msg = NoMessage /\ {} \ {NONE} = {}
        BY <2>1 DEF Init
    <2>. QED BY <2>2, FS_EmptySet DEF LeakExplained, NoMessage
<1>2. IInv /\ OrderInv /\ LeakExplained => BuffersAccounted
    <2>1. SUFFICES ASSUME IInv, OrderInv, LeakExplained PROVE BuffersAccounted
        OBVIOUS
    <2>2. Cardinality(held \ {tty_msg.buffer}) <= Cardinality(unlucky)
        <3>1. Cardinality(held \ {tty_msg.buffer}) \in Nat /\ Cardinality(unlucky) \in Nat
            BY <2>1, LeakFinite
        <3>. QED BY <2>1, <3>1 DEF LeakExplained
    <2>. QED BY <2>1, <2>2
             DEF IInv, BuffersInOnePlace, BuffersOf, Distinct, Filled, BuffersAccounted
<1>3. IInv /\ OrderInv /\ [Next]_vars => OrderInv'
    BY RecordedNext, TtyOrderNext, ScOrderNext DEF OrderInv, Recorded
<1>. QED BY <1>1, <1>2, <1>3, IInvInit, IInvNext, OrderInvInit, LeakNext, PTL DEF Spec

=============================================================================
