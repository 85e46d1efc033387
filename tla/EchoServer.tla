---------------------------- MODULE EchoServer -----------------------------
(***************************************************************************)
(* echo-server.c: waits for the network, starts the UDP and TCP services,    *)
(* waits for quit() and stops them.  Composed with TcpEcho; what the UDP     *)
(* services do with a datagram is VehicleIpc.                                *)
(*                                                                           *)
(* echo_server runs in the main thread (priority 0).  The network event      *)
(* thread and the services are cooperative and run before it; the shell is   *)
(* below it.                                                                 *)
(***************************************************************************)
EXTENDS TcpEcho

CONSTANTS
    FamilyOrder,    \* the families as start_tcp and stop_tcp take them
    MaxEvents,      \* bound on the changes of the network
    MaxQuits        \* bound on the shell's quit commands

ASSUME OrderAssumption ==
    /\ FamilyOrder \in Seq(Families)
    /\ \A f \in Families : \E i \in DOMAIN FamilyOrder : FamilyOrder[i] = f
    /\ \A i, j \in DOMAIN FamilyOrder : FamilyOrder[i] = FamilyOrder[j] => i = j
ASSUME LifeBoundAssumption == {MaxEvents, MaxQuits} \subseteq Nat

VARIABLES
    main,           \* where echo_server is
    todo,           \* the services it has still to start, or to stop
    run_app,        \* semaphore, at most one
    connected, want_to_quit,
    shell,          \* where cmd_sample_quit is
    link,           \* whether the network is up
    events,         \* network events raised and not yet handled
    changes,        \* the number of changes of the network so far
    quits           \* the number of quit commands so far

lifeVars == <<main, todo, run_app, connected, want_to_quit, shell, link, events,
              changes, quits>>
vars == <<tcpVars, lifeVars>>

Of(kind) == [i \in DOMAIN FamilyOrder |-> <<kind, FamilyOrder[i]>>]
StartOrder == Of("tcp") \o Of("udp")    \* start_udp_and_tcp
StopOrder  == Of("udp") \o Of("tcp")    \* stop_udp_and_tcp

\* init_app has registered the callback and asked for the network's state.
Init ==
    /\ TcpInit
    /\ main = "init" /\ todo = <<>> /\ run_app = 0
    /\ connected = FALSE /\ want_to_quit = FALSE /\ shell = "idle"
    /\ link \in {"up", "down"} /\ events = <<link>>
    /\ changes = 0 /\ quits = 0
-----------------------------------------------------------------------------
(* The network and its events *)

LinkChanges ==
    /\ changes < MaxEvents /\ changes' = changes + 1
    /\ link' \in {"up", "down"} \ {link}
    /\ events' = Append(events, link')
    /\ UNCHANGED <<tcpVars, main, todo, run_app, connected, want_to_quit, shell, quits>>

\* Mutant: a loss of the network is not noted down, and what it took back not given
\* again, since the next connection passes for the one there was.
EventHandlerOnlyNew ==
    /\ events # <<>> /\ events' = Tail(events)
    /\ want_to_quit' = FALSE
    /\ connected' = (connected \/ Head(events) = "up")
    /\ IF main = "waiting" THEN main' = "start" /\ todo' = StartOrder
                           ELSE UNCHANGED <<main, todo>>
    /\ run_app' = CASE Head(events) = "down" -> 0
                     [] Head(events) = "up" /\ main # "waiting" /\ ~connected -> 1
                     [] OTHER -> run_app
    /\ UNCHANGED <<tcpVars, shell, link, changes, quits>>

\* event_handler.  The first k_sem_give hands run_app over if echo_server waits
\* for it, a second one counts; k_sem_reset sets it to zero and makes whoever
\* waits for it return.  echo_server does not look at what k_sem_take returned,
\* so that any event ends its wait.
EventHandler ==
    /\ events # <<>> /\ events' = Tail(events)
    /\ want_to_quit' = FALSE
    /\ connected' = (Head(events) = "up")
    /\ IF main = "waiting" THEN main' = "start" /\ todo' = StartOrder
                           ELSE UNCHANGED <<main, todo>>
    /\ run_app' = IF Head(events) = "up" /\ (main # "waiting" \/ want_to_quit) THEN 1 ELSE 0
    /\ UNCHANGED <<tcpVars, shell, link, changes, quits>>
-----------------------------------------------------------------------------
(* cmd_sample_quit, in the shell's thread *)

\* The threads above the shell's have nothing to do.
ShellRuns(at) ==
    /\ shell = at /\ events = <<>>
    /\ main \in {"waiting", "ended"} \/ (main = "start" /\ todo = <<>> /\ quit_lock = 0)

ShellQuit ==
    /\ ShellRuns("idle") /\ quits < MaxQuits
    /\ want_to_quit' = TRUE /\ shell' = "resend" /\ quits' = quits + 1
    /\ UNCHANGED <<tcpVars, main, todo, run_app, connected, link, events, changes>>

\* conn_mgr_mon_resend_status raises the network's present state again.
ShellResends ==
    /\ ShellRuns("resend") /\ shell' = "quit"
    /\ events' = Append(events, link)
    /\ UNCHANGED <<tcpVars, main, todo, run_app, connected, want_to_quit, link,
                   changes, quits>>

ShellQuits ==
    /\ ShellRuns("quit") /\ shell' = "idle"
    /\ quit
    /\ UNCHANGED <<open, sock, service, slotVars, client, faults, main, todo, run_app,
                   connected, want_to_quit, link, events, changes, quits>>
-----------------------------------------------------------------------------
(* echo_server, when no network event is waiting to be handled *)

\* k_sem_take(&run_app)
TakeRunApp ==
    /\ main = "init" /\ events = <<>>
    /\ IF run_app > 0 THEN main' = "start" /\ todo' = StartOrder
                      ELSE main' = "waiting" /\ UNCHANGED todo
    /\ run_app' = 0
    /\ UNCHANGED <<tcpVars, connected, want_to_quit, shell, link, events, changes, quits>>

\* start_tcp, start_udp: k_thread_start lets the cooperative thread run at once.
StartNext ==
    /\ main = "start" /\ todo # <<>> /\ events = <<>>
    /\ StartProto(Head(todo)) \/ StartProtoFails(Head(todo))
    /\ todo' = Tail(todo)
    /\ UNCHANGED <<main, run_app, connected, want_to_quit, shell, link, events,
                   changes, quits>>

\* Mutant: nobody waits for quit_lock to be given.
TakeQuitLockAtOnce ==
    /\ main = "start" /\ todo = <<>> /\ events = <<>>
    /\ quit_lock' = quit_lock - 1
    /\ IF connected THEN main' = "stop" /\ todo' = StopOrder
                    ELSE main' = "ended" /\ UNCHANGED todo
    /\ UNCHANGED <<open, sock, service, slotVars, client, faults, run_app, connected,
                   want_to_quit, shell, link, events, changes, quits>>

\* k_sem_take(&quit_lock), and what follows depends on the network.
TakeQuitLock ==
    /\ main = "start" /\ todo = <<>> /\ events = <<>>
    /\ quit_lock > 0 /\ quit_lock' = quit_lock - 1
    /\ IF connected THEN main' = "stop" /\ todo' = StopOrder
                    ELSE main' = "ended" /\ UNCHANGED todo
    /\ UNCHANGED <<open, sock, service, slotVars, client, faults, run_app, connected,
                   want_to_quit, shell, link, events, changes, quits>>

StopNext ==
    /\ main = "stop" /\ todo # <<>>
    /\ IF service[Head(todo)] = "aborted"
       THEN StopHandlers(Head(todo)[2]) /\ todo' = Tail(todo)
       ELSE /\ StopProto(Head(todo))
            /\ todo' = IF Head(todo)[1] = "tcp" THEN todo ELSE Tail(todo)
    /\ UNCHANGED <<main, run_app, connected, want_to_quit, shell, link, events,
                   changes, quits>>

Return ==
    /\ main = "stop" /\ todo = <<>>
    /\ main' = "ended"
    /\ UNCHANGED <<tcpVars, todo, run_app, connected, want_to_quit, shell, link,
                   events, changes, quits>>

MainStep == TakeRunApp \/ StartNext \/ TakeQuitLock \/ StopNext \/ Return

\* process_udp4, process_udp6: recvfrom or sendto fails and the thread ends.
UdpFails(f) ==
    /\ service[<<"udp", f>>] = "waiting" /\ Fault
    /\ service' = [service EXCEPT ![<<"udp", f>>] = "ended"]
    /\ quit
    /\ UNCHANGED <<open, sock, slotVars, client, lifeVars>>

Next ==
    \/ \E c \in Clients : ClientStep(c) /\ UNCHANGED lifeVars
    \/ \E f \in Families : TcpStep(f) /\ UNCHANGED lifeVars
    \/ \E f \in Families : UdpFails(f)
    \/ LinkChanges \/ EventHandler
    \/ ShellQuit \/ ShellResends \/ ShellQuits
    \/ MainStep

Spec == Init /\ [][Next]_vars

\* The scheduler runs every thread that has something to do: the cooperative ones
\* give way at each wait, and the main thread runs when all of them wait.
FairSpec ==
    /\ Spec
    /\ WF_vars(EventHandler) /\ WF_vars(MainStep)
    /\ \A h \in Handler : WF_vars(HandlerStep(h) /\ UNCHANGED lifeVars)

-----------------------------------------------------------------------------
(* What the server must guarantee *)

\* Descriptors, threads and semaphores are in the states the code has for them.
TypeOK ==
    /\ TcpTypeOK
    /\ main \in {"init", "waiting", "start", "stop", "ended"}
    /\ todo \in Seq(Service) /\ run_app \in 0..1
    /\ connected \in BOOLEAN /\ want_to_quit \in BOOLEAN
    /\ shell \in {"idle", "resend", "quit"}
    /\ link \in {"up", "down"} /\ events \in Seq({"up", "down"})
    /\ changes \in 0..MaxEvents /\ quits \in 0..MaxQuits

\* A server that has ended has either stopped everything, down to the last
\* descriptor and handler of a connection accepted while it was stopping, or
\* (when the network was gone) nothing.
StopsAllOrNothing ==
    main = "ended" =>
        \/ /\ \A s \in Service : service[s] = "stopped"
           /\ \A h \in Handler : handler[h] = "none"
           /\ open = {}
        \/ \A s \in Service : service[s] \in {"waiting", "ended"}

\* One service thread that ends takes echo_server out of its wait, however many
\* others end before or meanwhile: quit_lock counts.
FailureEndsServer ==
    (\E s \in Service : service[s] = "ended") ~> main = "ended"

\* The services are started once the network stays up, whatever events and quit
\* commands came before: a permission taken back by a disconnection is given again.
ServesWhenConnected ==
    <>[](link = "up") => <>(main \notin {"init", "waiting"})

=============================================================================
