------------------------------ MODULE TcpEcho ------------------------------
(***************************************************************************)
(* tcp.c: per address family a thread that accepts connections and, per slot *)
(* of accepted[], a handler thread that echoes what its client sends.        *)
(*                                                                           *)
(* These threads are cooperative (THREAD_PRIORITY with the default           *)
(* CONFIG_NET_TC_THREAD_COOPERATIVE): one loses the processor only where it  *)
(* waits, in accept, recv or send.  An action is what it does from one wait  *)
(* to the next.  The sockets of udp.c are in the same struct data and come   *)
(* from the same table of descriptors.                                       *)
(***************************************************************************)
EXTENDS Integers, Sequences, FiniteSets

CONSTANTS
    Families,       \* the members of struct configs
    Slots,          \* 0 .. CONFIG_NET_SAMPLE_NUM_HANDLERS - 1
    BufferSize,     \* RECV_BUFFER_SIZE
    Descriptors,    \* what socket() and accept() may return
    Clients,        \* TCP clients; each connects once
    MaxBytes,       \* bound on what a client sends
    MaxFaults,      \* bound on the calls that fail for no reason modelled here
    NONE            \* no socket: a negative descriptor

Service == {"tcp", "udp"} \X Families
Tcp(f) == <<"tcp", f>>
Handler == Families \X Slots

ASSUME SlotAssumption == Slots \subseteq Nat
ASSUME DescriptorAssumption == Descriptors \subseteq Nat /\ NONE \notin Descriptors
ASSUME ClientAssumption == NONE \notin Clients
ASSUME BoundAssumption == BufferSize \in Nat \ {0} /\ {MaxBytes, MaxFaults} \subseteq Nat

VARIABLES
    open,       \* the descriptors in use
    sock,       \* tcp.sock and udp.sock of each family
    service,    \* where the service threads are
    accepted,   \* accepted[i].sock
    in_use,     \* tcp4_handler_in_use, tcp6_handler_in_use
    handler,    \* where the handler threads are
    buffer,     \* accepted[i].recv_buffer up to offset
    peer,       \* the client at the other end of accepted[i].sock
    quit_lock,  \* echo-server.c's semaphore
    client,     \* the clients, each with its connection
    faults      \* the number of calls that failed

slotVars == <<accepted, in_use, handler, buffer, peer>>
tcpVars == <<open, sock, service, slotVars, quit_lock, client, faults>>

\* A client's bytes are 1, 2, 3 ...; the handler has read a first part of them.
NewClient == [state |-> "away", sent |-> 0, read |-> 0, end |-> "open", echoed |-> <<>>]

\* A closed connection is forgotten.
Gone == [NewClient EXCEPT !.state = "gone"]

\* The descriptors are static zeroes in the code until start_tcp and the service
\* threads, which run before anything reads them, replace them.
TcpInit ==
    /\ open = {}
    /\ sock = [s \in Service |-> NONE]
    /\ service = [s \in Service |-> "off"]
    /\ accepted = [h \in Handler |-> NONE]
    /\ in_use = [h \in Handler |-> FALSE]
    /\ handler = [h \in Handler |-> "none"]
    /\ buffer = [h \in Handler |-> <<>>]
    /\ peer = [h \in Handler |-> NONE]
    /\ quit_lock = 0
    /\ client = [c \in Clients |-> NewClient]
    /\ faults = 0

\* The descriptor socket() or accept() returns: the first that is free.
FirstFree(d) == /\ d \in Descriptors \ open
                /\ \A e \in Descriptors \ open : d <= e

Fault == faults < MaxFaults /\ faults' = faults + 1

quit == quit_lock' = quit_lock + 1
-----------------------------------------------------------------------------
(* The clients *)

\* The network holds back nothing but may deliver bytes in any portions.
SendByte(c) ==
    /\ client[c].state = "served" /\ client[c].end = "open"
    /\ client[c].sent < MaxBytes
    /\ client' = [client EXCEPT ![c].sent = @ + 1]
    /\ UNCHANGED <<open, sock, service, slotVars, quit_lock, faults>>

\* A client shuts its side down or breaks the connection off.
HangUp(c, how) ==
    /\ client[c].state = "served" /\ client[c].end = "open"
    /\ client' = [client EXCEPT ![c].end = how]
    /\ UNCHANGED <<open, sock, service, slotVars, quit_lock, faults>>

ClientStep(c) == SendByte(c) \/ HangUp(c, "shut") \/ HangUp(c, "broken")
-----------------------------------------------------------------------------
(* The service threads *)

\* get_free_slot: the first slot without a socket.
GetFreeSlot(f, i) == /\ accepted[<<f, i>>] = NONE
                     /\ \A j \in Slots : j < i => accepted[<<f, j>>] # NONE

\* Any client may have connected to either family by the time accept returns.
Connecting == {c \in Clients : client[c].state = "away"}

\* Mutant: the handler's flag is not set.
AcceptUnmarked(f) ==
    /\ service[Tcp(f)] = "waiting"
    /\ \E c \in Connecting, d \in Descriptors, i \in Slots :
        /\ FirstFree(d) /\ GetFreeSlot(f, i)
        /\ open' = open \cup {d}
        /\ accepted' = [accepted EXCEPT ![<<f, i>>] = d]
        /\ handler' = [handler EXCEPT ![<<f, i>>] = "receiving"]
        /\ peer' = [peer EXCEPT ![<<f, i>>] = c]
        /\ buffer' = [buffer EXCEPT ![<<f, i>>] = <<>>]
        /\ client' = [client EXCEPT ![c].state = "served"]
    /\ UNCHANGED <<sock, service, in_use, quit_lock, faults>>

\* process_tcp: a connection gets a slot and a handler thread of its own ...
Accept(f) ==
    /\ service[Tcp(f)] = "waiting"
    /\ \E c \in Connecting, d \in Descriptors, i \in Slots :
        /\ FirstFree(d) /\ GetFreeSlot(f, i)
        /\ open' = open \cup {d}
        /\ accepted' = [accepted EXCEPT ![<<f, i>>] = d]
        /\ in_use' = [in_use EXCEPT ![<<f, i>>] = TRUE]
        /\ handler' = [handler EXCEPT ![<<f, i>>] = "receiving"]
        /\ peer' = [peer EXCEPT ![<<f, i>>] = c]
        /\ buffer' = [buffer EXCEPT ![<<f, i>>] = <<>>]
        /\ client' = [client EXCEPT ![c].state = "served"]
    /\ UNCHANGED <<sock, service, quit_lock, faults>>

\* Mutant: the connection that gets no slot is not closed.
RefuseKeepsOpen(f) ==
    /\ service[Tcp(f)] = "waiting"
    /\ \A i \in Slots : accepted[<<f, i>>] # NONE
    /\ \E c \in Connecting, d \in Descriptors :
        /\ FirstFree(d)
        /\ open' = open \cup {d}
        /\ client' = [client EXCEPT ![c] = Gone]
    /\ UNCHANGED <<sock, service, slotVars, quit_lock, faults>>

\* ... or, without a free slot, is closed as soon as it was accepted.
Refuse(f) ==
    /\ service[Tcp(f)] = "waiting"
    /\ \A i \in Slots : accepted[<<f, i>>] # NONE
    /\ \E c \in Connecting :
        /\ Descriptors \ open # {}
        /\ client' = [client EXCEPT ![c] = Gone]
    /\ UNCHANGED <<open, sock, service, slotVars, quit_lock, faults>>

\* Mutant: the thread ends without quit().
AcceptFailsSilently(f) ==
    /\ service[Tcp(f)] = "waiting"
    /\ \/ Descriptors \subseteq open /\ Connecting # {} /\ UNCHANGED faults
       \/ Fault
    /\ service' = [service EXCEPT ![Tcp(f)] = "ended"]
    /\ UNCHANGED <<open, sock, slotVars, client, quit_lock>>

\* accept fails, also for want of a descriptor: process_tcp4 and process_tcp6
\* leave their loop and end, and the handlers go on.
AcceptFails(f) ==
    /\ service[Tcp(f)] = "waiting"
    /\ \/ Descriptors \subseteq open /\ Connecting # {} /\ UNCHANGED faults
       \/ Fault
    /\ service' = [service EXCEPT ![Tcp(f)] = "ended"]
    /\ quit
    /\ UNCHANGED <<open, sock, slotVars, client>>
-----------------------------------------------------------------------------
(* handle_data *)

\* Closes its socket, frees its slot and returns.
Finish(h) ==
    /\ in_use' = [in_use EXCEPT ![h] = FALSE]
    /\ open' = open \ {accepted[h]}
    /\ accepted' = [accepted EXCEPT ![h] = NONE]
    /\ handler' = [handler EXCEPT ![h] = "none"]
    /\ buffer' = [buffer EXCEPT ![h] = <<>>]
    /\ peer' = [peer EXCEPT ![h] = NONE]

Unread(c) == client[c].sent - client[c].read

\* Mutant: the reply waits for more than there may ever be.
ReceiveWaitsForFull(h) ==
    LET c == peer[h] IN
    /\ handler[h] = "receiving" /\ client[c].end # "broken"
    /\ \E n \in 1..BufferSize :
        /\ n <= Unread(c) /\ Len(buffer[h]) + n <= BufferSize
        /\ client' = [client EXCEPT ![c].read = @ + n]
        /\ buffer' = [buffer EXCEPT ![h] = @ \o [j \in 1..n |-> client[c].read + j]]
        /\ handler' = [handler EXCEPT ![h] =
                          IF Len(buffer[h]) + n = BufferSize THEN "sending" ELSE @]
    /\ UNCHANGED <<open, sock, service, accepted, in_use, peer, quit_lock, faults>>

\* recv appends at offset.  The reply is sent when the buffer is full or a look
\* ahead says that there is nothing more; an end of the stream is not nothing.
Receive(h) ==
    LET c == peer[h] IN
    /\ handler[h] = "receiving" /\ client[c].end # "broken"
    /\ \E n \in 1..BufferSize :
        /\ n <= Unread(c) /\ Len(buffer[h]) + n <= BufferSize
        /\ client' = [client EXCEPT ![c].read = @ + n]
        /\ buffer' = [buffer EXCEPT ![h] = @ \o [j \in 1..n |-> client[c].read + j]]
        /\ handler' = [handler EXCEPT ![h] =
              IF \/ Len(buffer[h]) + n = BufferSize
                 \/ Unread(c) = n /\ client[c].end = "open"
              THEN "sending" ELSE @]
    /\ UNCHANGED <<open, sock, service, accepted, in_use, peer, quit_lock, faults>>

\* recv returns zero or an error.  Whatever the buffer holds is lost.
ReceiveEnd(h) ==
    LET c == peer[h] IN
    /\ handler[h] = "receiving"
    /\ client[c].end = "broken" \/ (client[c].end = "shut" /\ Unread(c) = 0)
    /\ Finish(h)
    /\ client' = [client EXCEPT ![c] = Gone]
    /\ UNCHANGED <<sock, service, quit_lock, faults>>

\* Mutant: offset is not reset after the reply.
SendKeepsOffset(h) ==
    /\ handler[h] = "sending" /\ client[peer[h]].end # "broken"
    /\ client' = [client EXCEPT ![peer[h]].echoed = @ \o buffer[h]]
    /\ handler' = [handler EXCEPT ![h] = "receiving"]
    /\ UNCHANGED <<open, sock, service, accepted, in_use, buffer, peer, quit_lock, faults>>

\* sendall writes the whole buffer, and the next read starts at its beginning.
Send(h) ==
    /\ handler[h] = "sending" /\ client[peer[h]].end # "broken"
    /\ client' = [client EXCEPT ![peer[h]].echoed = @ \o buffer[h]]
    /\ buffer' = [buffer EXCEPT ![h] = <<>>]
    /\ handler' = [handler EXCEPT ![h] = "receiving"]
    /\ UNCHANGED <<open, sock, service, accepted, in_use, peer, quit_lock, faults>>

\* sendall fails, after nothing or a part of the buffer.
SendFails(h) ==
    LET c == peer[h] IN
    /\ handler[h] = "sending"
    /\ IF client[c].end = "broken" THEN UNCHANGED faults ELSE Fault
    /\ Finish(h)
    /\ client' = [client EXCEPT ![c] = Gone]
    /\ UNCHANGED <<sock, service, quit_lock>>

\* A handler waiting in recv always has a way on once there is something for it.
HandlerStep(h) == Receive(h) \/ ReceiveEnd(h) \/ Send(h) \/ SendFails(h)

TcpStep(f) == \/ Accept(f) \/ Refuse(f) \/ AcceptFails(f)
              \/ \E i \in Slots : HandlerStep(<<f, i>>)
-----------------------------------------------------------------------------
(* start_tcp, start_udp: a service thread up to its first wait *)

\* The thread starts, creates its socket, binds it (and, for TCP, listens).
StartProto(s) ==
    /\ \E d \in Descriptors :
          FirstFree(d) /\ open' = open \cup {d} /\ sock' = [sock EXCEPT ![s] = d]
    /\ service' = [service EXCEPT ![s] = "waiting"]
    /\ UNCHANGED <<slotVars, quit_lock, client, faults>>

\* socket() returns no descriptor, or bind or listen fails and the socket stays
\* open: the thread calls quit() and ends.
StartProtoFails(s) ==
    /\ \/ /\ Descriptors \subseteq open
          /\ UNCHANGED <<open, sock, faults>>
       \/ Fault /\ UNCHANGED <<open, sock>>
       \/ /\ Fault
          /\ \E d \in Descriptors :
                FirstFree(d) /\ open' = open \cup {d} /\ sock' = [sock EXCEPT ![s] = d]
    /\ service' = [service EXCEPT ![s] = "ended"]
    /\ quit
    /\ UNCHANGED <<slotVars, client>>

\* stop_tcp, stop_udp: k_thread_abort and close, whatever the thread has come to.
StopProto(s) ==
    /\ service' = [service EXCEPT ![s] = IF s[1] = "tcp" THEN "aborted" ELSE "stopped"]
    /\ open' = open \ {sock[s]}
    /\ UNCHANGED <<sock, slotVars, quit_lock, client, faults>>

\* Mutant: the slots' sockets are left to their handlers.
StopHandlersOnly(f) ==
    /\ service' = [service EXCEPT ![Tcp(f)] = "stopped"]
    /\ handler' = [h \in Handler |-> IF h[1] = f /\ in_use[h] THEN "none" ELSE handler[h]]
    /\ client' = [c \in Clients |->
                    IF \E i \in Slots : in_use[<<f, i>>] /\ peer[<<f, i>>] = c
                    THEN Gone ELSE client[c]]
    /\ UNCHANGED <<open, sock, accepted, in_use, buffer, peer, quit_lock, faults>>

\* ... and then, slot by slot, the handlers of the family.  Its service thread is
\* gone, so that a slot changes only by its own handler's end.
StopHandlers(f) ==
    /\ service' = [service EXCEPT ![Tcp(f)] = "stopped"]
    /\ handler' = [h \in Handler |-> IF h[1] = f /\ in_use[h] THEN "none" ELSE handler[h]]
    /\ open' = open \ {accepted[<<f, i>>] : i \in Slots}
    /\ client' = [c \in Clients |->
                    IF \E i \in Slots : accepted[<<f, i>>] # NONE /\ peer[<<f, i>>] = c
                    THEN Gone ELSE client[c]]
    /\ UNCHANGED <<sock, accepted, in_use, buffer, peer, quit_lock, faults>>
-----------------------------------------------------------------------------
(* What must hold of sockets, slots and bytes *)

\* Every variable keeps its type: in_use goes with its handler, and what a handler
\* has of its client fits into the buffer.
TcpTypeOK ==
    /\ open \subseteq Descriptors
    /\ sock \in [Service -> Descriptors \cup {NONE}]
    /\ service \in [Service -> {"off", "waiting", "ended", "aborted", "stopped"}]
    /\ accepted \in [Handler -> Descriptors \cup {NONE}]
    /\ in_use \in [Handler -> BOOLEAN]
    /\ handler \in [Handler -> {"none", "receiving", "sending"}]
    /\ buffer \in [Handler -> Seq(Nat)]
    /\ \A h \in Handler : Len(buffer[h]) <= BufferSize
    /\ peer \in [Handler -> Clients \cup {NONE}]
    /\ quit_lock \in Nat
    /\ client \in [Clients -> [state : {"away", "served", "gone"}, sent : Nat, read : Nat,
                               end : {"open", "shut", "broken"}, echoed : Seq(Nat)]]
    /\ faults \in 0..MaxFaults

\* Who may still use, and will close, a descriptor: a service until it is
\* stopped, a slot until its family's slots are.
HoldsSock(s) == service[s] \in {"waiting", "ended"} /\ sock[s] # NONE
HoldsAccepted(h) == service[Tcp(h[1])] # "stopped" /\ accepted[h] # NONE

\* Descriptors are reused as soon as they are closed, and stopping closes them
\* while other services still accept.  Still every descriptor in use has a holder
\* that will close it, and no two have the same: nobody closes a connection that
\* is not his, and none leaks.
DescriptorsHaveOneHolder ==
    /\ open = {sock[s] : s \in {t \in Service : HoldsSock(t)}}
              \cup {accepted[h] : h \in {g \in Handler : HoldsAccepted(g)}}
    /\ \A s, t \in Service : HoldsSock(s) /\ HoldsSock(t) /\ sock[s] = sock[t] => s = t
    /\ \A g, h \in Handler :
          HoldsAccepted(g) /\ HoldsAccepted(h) /\ accepted[g] = accepted[h] => g = h
    /\ \A s \in Service, h \in Handler :
          HoldsSock(s) /\ HoldsAccepted(h) => sock[s] # accepted[h]

\* A slot is taken exactly as long as a handler thread runs on its stack, marked
\* for stop_tcp to abort, and two handlers never serve one client.
SlotsMatchHandlers ==
    /\ \A h \in Handler :
          handler[h] # "none" <=>
              service[Tcp(h[1])] # "stopped" /\ accepted[h] # NONE /\ in_use[h]
    /\ \A h \in Handler : service[Tcp(h[1])] # "stopped" /\ accepted[h] # NONE => in_use[h]
    /\ \A g, h \in Handler :
          handler[g] # "none" /\ handler[h] # "none" /\ peer[g] = peer[h] => g = h

\* What a client gets back is the beginning of what it sent, byte for byte, also
\* in a slot whose buffer an earlier client has used; the rest of what was read
\* is still in the buffer of its handler.
EchoIsPrefix ==
    /\ \A c \in Clients :
          /\ client[c].echoed = [i \in 1..Len(client[c].echoed) |-> i]
          /\ Len(client[c].echoed) <= client[c].read /\ client[c].read <= client[c].sent
    /\ \A h \in Handler : handler[h] # "none" =>
          client[peer[h]].read = Len(client[peer[h]].echoed) + Len(buffer[h])

\* Nothing waits in a buffer for bytes that may never come, and no slot is kept by
\* a client that is gone: one that keeps its connection open gets back all it has
\* sent, however its bytes are cut into portions, and one that hangs up is let go
\* (as it may be earlier, if its handler fails or is stopped).
EveryClientServed ==
    \A c \in Clients :
        client[c].state = "served" ~>
            \/ client[c].state = "gone"
            \/ client[c].end = "open" /\ Len(client[c].echoed) = client[c].sent

=============================================================================
