----------------------------- MODULE VehicleIpc -----------------------------
(***************************************************************************)
(* Driving over UDP: vehicle_ipc_msg_processor.c and the threads of udp.c,   *)
(* composed with VehicleControlManager.  Datagrams carry wire commands; the  *)
(* network loses, duplicates and reorders them.  Each service thread checks  *)
(* one, submits it, and answers with an acknowledgement; the first error on  *)
(* its socket ends it, and with it the whole server.                         *)
(***************************************************************************)
EXTENDS VehicleControlManager, FiniteSets

CONSTANTS
    Services,       \* the service threads, udp4 and udp6
    Datagrams,      \* what the operator may send
    MaxDelay,       \* a datagram is delivered within this time or never
    MaxDatagrams    \* bound on the datagrams sent

VEHICLE_WIRE_VERSION == 1

\* sizeof(vehicle_motion_command_wire_t)
WIRE_SIZE == 24

Byte == {n \in Nat : n <= 255}

ASSUME DatagramAssumption ==
    Datagrams \subseteq
        [length : Nat, magic : {"VCMD", "other"}, version : Byte,
         command_type : CommandTypes \cup {"unknown"}, linear_x : Int16,
         angular_z : Int16, speed_limit_pct : Byte, ttl_ms : UInt16]
ASSUME NetworkAssumption == MaxDelay \in Nat /\ MaxDatagrams \in Nat

VARIABLES
    network,        \* datagrams that may still be delivered
    service,        \* where each service thread is
    reply,          \* the acknowledgement it has prepared
    \* history
    sent,           \* the number of datagrams sent
    wanted_at,      \* when the operator last sent a motion command
    intent_at       \* when the command that is now active was sent

ipcVars == <<network, service, reply, sent, wanted_at, intent_at>>
allVars == <<vars, ipcVars>>

NoReply == [status |-> "none", refused |-> FALSE]

IpcInit ==
    /\ Init
    /\ network = {} /\ sent = 0 /\ wanted_at = 0 /\ intent_at = 0
    /\ service = [s \in Services |-> "receiving"]
    /\ reply = [s \in Services |-> NoReply]
-----------------------------------------------------------------------------
\* The operator sends a datagram to one of the services.
Send(d, s) ==
    /\ sent < MaxDatagrams /\ sent' = sent + 1
    /\ network' = network \cup
                    {[body |-> d, to |-> s, sent_at |-> uptime, number |-> sent]}
    /\ wanted_at' = IF d.command_type = "MOTION" THEN uptime ELSE wanted_at
    /\ UNCHANGED <<vars, service, reply, intent_at>>

\* Mutant: the speed limit is not checked.
StatusLimitUnchecked(w) ==
    IF w.length # WIRE_SIZE THEN "INVALID_LENGTH"
    ELSE IF w.magic # "VCMD" THEN "INVALID_MAGIC"
    ELSE IF w.version # VEHICLE_WIRE_VERSION THEN "INVALID_VERSION"
    ELSE IF {w.linear_x, w.angular_z} \subseteq Axis THEN "OK" ELSE "INVALID_RANGE"

\* vehicle_ipc_cmd_process: what the checks say of a datagram.
Status(w) ==
    IF w.length # WIRE_SIZE THEN "INVALID_LENGTH"
    ELSE IF w.magic # "VCMD" THEN "INVALID_MAGIC"
    ELSE IF w.version # VEHICLE_WIRE_VERSION THEN "INVALID_VERSION"
    ELSE IF w.speed_limit_pct > 100 THEN "INVALID_RANGE"
    ELSE IF {w.linear_x, w.angular_z} \subseteq Axis THEN "OK" ELSE "INVALID_RANGE"

\* convert_wire_to_vehicle_command; the sequence number is carried along and
\* looked at by nobody.
Convert(w) ==
    [version |-> w.version, command_type |-> w.command_type,
     linear_x |-> w.linear_x, angular_z |-> w.angular_z,
     speed_limit_pct |-> w.speed_limit_pct, ttl_ms |-> w.ttl_ms]

\* Whether vehicle_control_manager_handle_command returns -1.
Refused(cmd) ==
    \/ cmd.version # VEHICLE_COMMAND_VERSION
    \/ cmd.command_type = "MOTION" /\ emergency_stop_latched

\* vehicle_control_manager_submit_command calls the handler, drops its result
\* and returns 0, so that the REJECTED answer to another result is never sent.
Submit(cmd) ==
    \/ HandleCommand(cmd)
    \/ cmd.command_type = "unknown" /\ UNCHANGED vars

\* recvfrom and vehicle_ipc_cmd_process.  The command's time stamp is the time
\* of its arrival; a duplicate of the datagram may stay in the network.
Receive(s, m) ==
    /\ service[s] = "receiving" /\ m.to = s
    /\ network' \in {network, network \ {m}}
    /\ IF Status(m.body) = "OK" THEN Submit(Convert(m.body)) ELSE UNCHANGED vars
    /\ intent_at' = IF Status(m.body) = "OK" /\ m.body.command_type = "MOTION"
                       /\ ~emergency_stop_latched
                    THEN m.sent_at ELSE intent_at
    /\ reply' = [reply EXCEPT ![s] =
                    [status |-> Status(m.body),
                     refused |-> Status(m.body) = "OK"
                                    /\ Refused(Convert(m.body))]]
    /\ service' = [service EXCEPT ![s] = "replying"]
    /\ UNCHANGED <<sent, wanted_at>>

\* sendto succeeds and the loop goes on.
Reply(s) ==
    /\ service[s] = "replying"
    /\ service' = [service EXCEPT ![s] = "receiving"]
    /\ reply' = [reply EXCEPT ![s] = NoReply]
    /\ UNCHANGED <<vars, network, sent, wanted_at, intent_at>>

\* recvfrom or sendto fails: the thread's loops end and it calls quit().
SocketFails(s) ==
    /\ service[s] # "dead"
    /\ service' = [service EXCEPT ![s] = "dead"]
    /\ reply' = [reply EXCEPT ![s] = NoReply]
    /\ UNCHANGED <<vars, network, sent, wanted_at, intent_at>>

\* echo_server wakes up on quit() and, if the network is connected, stop_udp
\* aborts every service thread.
StopServices ==
    /\ \E s \in Services : service[s] = "dead"
    /\ service' = [s \in Services |-> "dead"]
    /\ reply' = [s \in Services |-> NoReply]
    /\ UNCHANGED <<vars, network, sent, wanted_at, intent_at>>

IpcUpdate == Update /\ UNCHANGED ipcVars

\* A datagram that is not delivered in time is lost.
IpcTick(d) ==
    /\ Tick(d)
    /\ network' = {m \in network : uptime' - m.sent_at <= MaxDelay}
    /\ UNCHANGED <<service, reply, sent, wanted_at, intent_at>>

IpcNext ==
    \/ \E s \in Services, d \in Datagrams : Send(d, s)
    \/ \E s \in Services : \E m \in network : Receive(s, m)
    \/ \E s \in Services : Reply(s) \/ SocketFails(s)
    \/ StopServices
    \/ IpcUpdate
    \/ \E d \in UptimeSteps : IpcTick(d)

IpcSpec == IpcInit /\ [][IpcNext]_allVars
-----------------------------------------------------------------------------
\* The manager's type invariant survives whatever bytes arrive, and the
\* services are in a state the code has.
IpcTypeOK ==
    /\ TypeOK
    /\ service \in [Services -> {"receiving", "replying", "dead"}]
    /\ \A s \in Services : reply[s] # NoReply <=> service[s] = "replying"
    /\ Cardinality(network) <= sent /\ sent <= MaxDatagrams
    /\ {wanted_at, intent_at} \subseteq 0..uptime

\* Every datagram's time stamp is that of its arrival, so delay adds to its
\* time-to-live, but to nothing more: what drives was asked for by the operator
\* no longer ago than both together, however datagrams overtake or repeat.
DrivesOnRecentIntent ==
    target_pct # AtZero => updated_at - intent_at <= active_cmd.ttl_ms + MaxDelay

LongestTtl == CHOOSE t \in {Accepted(Convert(d)).ttl_ms : d \in Datagrams} :
                \A d \in Datagrams : Accepted(Convert(d)).ttl_ms <= t

\* An operator who stops asking for motion, or whose server or network is gone,
\* leaves a vehicle at rest within a time that is known: a delivery, a lifetime
\* and a ramp of at least one percent an update.
SilenceStops ==
    uptime > wanted_at + MaxDelay + LongestTtl
                + SAFE_MAX_SPEED_LIMIT_PCT * MaxUpdateGap
        => current_pct = AtZero

\* An acknowledgement that says OK is about a command that was carried out: the
\* processor has an answer of its own, REJECTED, for one that was not.
OkMeansDone == \A s \in Services : reply[s].status = "OK" => ~reply[s].refused
=============================================================================
