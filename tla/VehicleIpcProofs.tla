-------------------------- MODULE VehicleIpcProofs --------------------------
(***************************************************************************)
(* Theorems about VehicleIpc: types, and on what the vehicle drives, for any  *)
(* number of services, any datagrams and any delay.                          *)
(***************************************************************************)
EXTENDS VehicleIpc, VehicleControlManagerProofs, FiniteSetTheorems, WellFoundedInduction

Statuses == {"INVALID_LENGTH", "INVALID_MAGIC", "INVALID_VERSION", "INVALID_RANGE", "OK"}

ServicesType ==
    /\ service \in [Services -> {"receiving", "replying", "dead"}]
    /\ reply \in [Services -> [status : Statuses \cup {"none"}, refused : BOOLEAN]]
    /\ \A s \in Services : reply[s].status = "none" => reply[s] = NoReply
    /\ \A s \in Services : reply[s] # NoReply <=> service[s] = "replying"

\* Every datagram that may still arrive was sent, and not long ago.
NetworkType ==
    /\ IsFiniteSet(network) /\ Cardinality(network) <= sent
    /\ sent \in Nat /\ sent <= MaxDatagrams
    /\ \A m \in network :
          /\ m.body \in Datagrams /\ m.sent_at \in Nat
          /\ m.sent_at <= uptime /\ uptime <= m.sent_at + MaxDelay

IpcInv == /\ TypeOK /\ ServicesType /\ NetworkType
          /\ wanted_at \in 0..uptime /\ intent_at \in 0..uptime

LEMMA StatusKind == \A w : Status(w) \in Statuses
BY DEF Status, Statuses

\* What the checks let through is a command the manager knows, or of no type.
LEMMA ConvertType ==
    ASSUME NEW w \in Datagrams, Status(w) = "OK", w.command_type # "unknown"
    PROVE  Convert(w) \in CommandType
<1>1. w.speed_limit_pct \in Percent
    <2>1. ~(w.speed_limit_pct > 100)
        BY DEF Status
    <2>2. w.speed_limit_pct \in Byte
        BY DatagramAssumption
    <2>. QED BY <2>1, <2>2 DEF Byte, Percent
<1>2. /\ w.version \in Nat /\ w.linear_x \in Int16 /\ w.angular_z \in Int16
      /\ w.ttl_ms \in UInt16 /\ w.command_type \in CommandTypes
    BY DatagramAssumption DEF Byte
<1>. QED BY <1>1, <1>2 DEF Convert, CommandType

LEMMA UnknownLeavesNoTrace ==
    ASSUME NEW cmd, cmd.command_type = "unknown", Submit(cmd)
    PROVE  UNCHANGED vars
BY DEF Submit, HandleCommand, SetSpeed, Stop, EmergencyStop, Motion, Ignored

\* Whatever arrives, the manager takes a step of its own.
LEMMA SubmitType ==
    ASSUME TypeOK, NEW w \in Datagrams, Status(w) = "OK", Submit(Convert(w))
    PROVE  TypeOK'
<1>1. CASE w.command_type = "unknown"
    <2>1. UNCHANGED vars
        BY <1>1, UnknownLeavesNoTrace DEF Convert
    <2>. QED BY <2>1, TypeNext
<1>2. CASE w.command_type # "unknown"
    <2>1. HandleCommand(Convert(w))
        BY <1>2 DEF Submit, Convert
    <2>. QED BY <1>2, <2>1, ConvertType, HandleType
<1>. QED BY <1>1, <1>2

LEMMA ManagerType == IpcInv /\ [IpcNext]_allVars => TypeOK' /\ uptime <= uptime'
<1>. SUFFICES ASSUME IpcInv, [IpcNext]_allVars PROVE TypeOK' /\ uptime <= uptime'
    OBVIOUS
<1>0. TypeOK /\ uptime \in Nat
    BY ClockAssumption DEF IpcInv, TypeOK
<1>1. ASSUME UNCHANGED vars PROVE TypeOK' /\ uptime <= uptime'
    BY <1>0, <1>1, TypeNext DEF vars
<1>2. ASSUME NEW s \in Services, NEW m \in network, Receive(s, m)
      PROVE  TypeOK' /\ uptime <= uptime'
    <2>1. CASE Status(m.body) = "OK"
        <3>1. m.body \in Datagrams /\ Submit(Convert(m.body))
            BY <1>2, <2>1 DEF IpcInv, NetworkType, Receive
        <3>2. uptime' = uptime
            BY <3>1 DEF Submit, HandleCommand, SetSpeed, Stop, EmergencyStop, Motion, Ignored, vars
        <3>. QED BY <1>0, <2>1, <3>1, <3>2, SubmitType
    <2>2. CASE Status(m.body) # "OK"
        BY <1>1, <1>2, <2>2 DEF Receive
    <2>. QED BY <2>1, <2>2
<1>3. CASE IpcUpdate
    <2>1. Update
        BY <1>3 DEF IpcUpdate
    <2>. QED BY <1>0, <2>1, TypeNext, UpdateEffect DEF Next
<1>4. ASSUME NEW d \in UptimeSteps, IpcTick(d) PROVE TypeOK' /\ uptime <= uptime'
    <2>1. Tick(d)
        BY <1>4 DEF IpcTick
    <2>. QED BY <1>0, <2>1, TypeNext, ClockAssumption DEF Next, Tick
<1>5. CASE (\E s \in Services, d \in Datagrams : Send(d, s))
           \/ (\E s \in Services : Reply(s) \/ SocketFails(s)) \/ StopServices \/ UNCHANGED allVars
    BY <1>1, <1>5 DEF Send, Reply, SocketFails, StopServices, allVars
<1>. QED BY <1>2, <1>3, <1>4, <1>5 DEF IpcNext

LEMMA ServicesNext == ServicesType /\ [IpcNext]_allVars => ServicesType'
<1>. SUFFICES ASSUME ServicesType, [IpcNext]_allVars PROVE ServicesType'
    OBVIOUS
<1>. USE DEF ServicesType, NoReply
<1>1. ASSUME NEW s \in Services, NEW m \in network, Receive(s, m) PROVE ServicesType'
    <2>. DEFINE r == [status |-> Status(m.body),
                      refused |-> Status(m.body) = "OK" /\ Refused(Convert(m.body))]
    <2>1. /\ reply' = [reply EXCEPT ![s] = r]
          /\ service' = [service EXCEPT ![s] = "replying"]
        BY <1>1 DEF Receive
    <2>2. r \in [status : Statuses \cup {"none"}, refused : BOOLEAN] /\ r.status # "none"
        <3>1. Status(m.body) \in Statuses /\ Status(m.body) # "none"
            BY StatusKind DEF Statuses
        <3>2. (Status(m.body) = "OK" /\ Refused(Convert(m.body))) \in BOOLEAN
            OBVIOUS
        <3>. QED BY <3>1, <3>2
    <2>3. NoReply.status = "none"
        OBVIOUS
    <2>. HIDE DEF r, NoReply
    <2>4. reply' \in [Services -> [status : Statuses \cup {"none"}, refused : BOOLEAN]]
          /\ service' \in [Services -> {"receiving", "replying", "dead"}]
        BY <2>1, <2>2
    <2>5. ASSUME NEW u \in Services
          PROVE  /\ reply'[u].status = "none" => reply'[u] = NoReply
                 /\ reply'[u] # NoReply <=> service'[u] = "replying"
        <3>1. CASE u = s
            BY <2>1, <2>2, <2>3, <3>1
        <3>2. CASE u # s
            BY <2>1, <3>2
        <3>. QED BY <3>1, <3>2
    <2>. QED BY <2>4, <2>5
<1>2. ASSUME NEW s \in Services, Reply(s) \/ SocketFails(s) PROVE ServicesType'
    <2>1. PICK at \in {"receiving", "dead"} : service' = [service EXCEPT ![s] = at]
        BY <1>2 DEF Reply, SocketFails
    <2>2. reply' = [reply EXCEPT ![s] = NoReply]
        BY <1>2 DEF Reply, SocketFails
    <2>3. NoReply \in [status : Statuses \cup {"none"}, refused : BOOLEAN]
        OBVIOUS
    <2>. HIDE DEF NoReply
    <2>4. reply' \in [Services -> [status : Statuses \cup {"none"}, refused : BOOLEAN]]
          /\ service' \in [Services -> {"receiving", "replying", "dead"}]
        BY <2>1, <2>2, <2>3
    <2>5. ASSUME NEW u \in Services
          PROVE  /\ reply'[u].status = "none" => reply'[u] = NoReply
                 /\ reply'[u] # NoReply <=> service'[u] = "replying"
        <3>1. CASE u = s
            BY <2>1, <2>2, <3>1
        <3>2. CASE u # s
            BY <2>1, <2>2, <3>2
        <3>. QED BY <3>1, <3>2
    <2>. QED BY <2>4, <2>5
<1>3. CASE StopServices
    BY <1>3 DEF StopServices
<1>4. ASSUME UNCHANGED <<service, reply>> PROVE ServicesType'
    BY <1>4
<1>5. CASE (\E s \in Services, d \in Datagrams : Send(d, s)) \/ IpcUpdate
           \/ (\E d \in UptimeSteps : IpcTick(d)) \/ UNCHANGED allVars
    BY <1>4, <1>5 DEF Send, IpcUpdate, IpcTick, allVars, ipcVars
<1>. QED BY <1>1, <1>2, <1>3, <1>5 DEF IpcNext

LEMMA NetworkNext ==
    ASSUME IpcInv, [IpcNext]_allVars
    PROVE  NetworkType' /\ wanted_at' \in 0..uptime' /\ intent_at' \in 0..uptime'
<1>0. /\ uptime \in Nat /\ uptime' \in Nat /\ uptime <= uptime'
      /\ MaxDelay \in Nat /\ sent \in Nat /\ NetworkType
      /\ wanted_at \in 0..uptime /\ intent_at \in 0..uptime
      /\ wanted_at \in 0..uptime' /\ intent_at \in 0..uptime' /\ uptime \in 0..uptime'
    <2>1. TypeOK' /\ uptime <= uptime'
        BY ManagerType
    <2>2. uptime \in Nat /\ uptime' \in Nat
        BY <2>1, ClockAssumption DEF IpcInv, TypeOK
    <2>. QED BY <2>1, <2>2, NetworkAssumption DEF IpcInv, NetworkType
<1>1. ASSUME network' \in SUBSET network, sent' = sent,
             \A m \in network' : uptime' <= m.sent_at + MaxDelay
      PROVE  NetworkType'
    <2>1. /\ IsFiniteSet(network') /\ Cardinality(network') <= Cardinality(network)
          /\ Cardinality(network) \in Nat /\ Cardinality(network') \in Nat
        BY <1>0, <1>1, FS_Subset, FS_CardinalityType DEF NetworkType
    <2>2. Cardinality(network') <= sent'
        BY <1>0, <1>1, <2>1 DEF NetworkType
    <2>3. \A m \in network' : m \in network /\ m.sent_at \in Nat /\ m.sent_at <= uptime'
        BY <1>0, <1>1 DEF NetworkType
    <2>. QED BY <1>0, <1>1, <2>1, <2>2, <2>3 DEF NetworkType
<1>2. ASSUME NEW s \in Services, NEW d \in Datagrams, Send(d, s)
      PROVE  NetworkType' /\ wanted_at' \in 0..uptime' /\ intent_at' \in 0..uptime'
    <2>. DEFINE m == [body |-> d, to |-> s, sent_at |-> uptime, number |-> sent]
    <2>1. /\ network' = network \cup {m} /\ sent' = sent + 1 /\ sent < MaxDatagrams
          /\ uptime' = uptime /\ intent_at' = intent_at
          /\ wanted_at' \in {uptime, wanted_at}
        BY <1>2 DEF Send, vars
    <2>2. m.body \in Datagrams /\ m.sent_at = uptime
        OBVIOUS
    <2>. HIDE DEF m
    <2>3. /\ IsFiniteSet(network')
          /\ Cardinality(network') \in {Cardinality(network), Cardinality(network) + 1}
          /\ Cardinality(network) \in Nat
        BY <1>0, <2>1, FS_AddElement, FS_CardinalityType DEF NetworkType
    <2>4. Cardinality(network') <= sent' /\ sent' \in Nat /\ sent' <= MaxDatagrams
        BY <1>0, <2>1, <2>3, NetworkAssumption DEF NetworkType
    <2>5. uptime <= uptime + MaxDelay /\ uptime <= uptime
        BY <1>0
    <2>. QED BY <1>0, <2>1, <2>2, <2>3, <2>4, <2>5 DEF NetworkType
<1>3. ASSUME NEW s \in Services, NEW m \in network, Receive(s, m)
      PROVE  NetworkType' /\ wanted_at' \in 0..uptime' /\ intent_at' \in 0..uptime'
    <2>1. /\ network' \in SUBSET network /\ sent' = sent /\ wanted_at' = wanted_at
          /\ intent_at' \in {m.sent_at, intent_at}
        BY <1>3 DEF Receive
    <2>2. uptime' = uptime
        BY <1>3 DEF Receive, Submit, HandleCommand, SetSpeed, Stop, EmergencyStop, Motion,
                    Ignored, vars
    <2>3. m.sent_at \in 0..uptime'
        BY <1>0, <2>2 DEF NetworkType
    <2>4. \A k \in network' : uptime' <= k.sent_at + MaxDelay
        BY <1>0, <2>1, <2>2 DEF NetworkType
    <2>. QED BY <1>0, <1>1, <2>1, <2>3, <2>4
<1>4. ASSUME NEW d \in UptimeSteps, IpcTick(d)
      PROVE  NetworkType' /\ wanted_at' \in 0..uptime' /\ intent_at' \in 0..uptime'
    <2>1. /\ network' = {m \in network : uptime' - m.sent_at <= MaxDelay}
          /\ UNCHANGED <<sent, wanted_at, intent_at>>
        BY <1>4 DEF IpcTick
    <2>2. \A m \in network' : uptime' <= m.sent_at + MaxDelay
        BY <1>0, <2>1 DEF NetworkType
    <2>3. network' \in SUBSET network
        BY <2>1
    <2>. QED BY <1>0, <1>1, <2>1, <2>2, <2>3
<1>5. CASE (\E s \in Services : Reply(s) \/ SocketFails(s)) \/ StopServices
           \/ IpcUpdate \/ UNCHANGED allVars
    <2>1. UNCHANGED <<network, sent, wanted_at, intent_at>>
        BY <1>5 DEF Reply, SocketFails, StopServices, IpcUpdate, allVars, ipcVars
    <2>2. uptime' = uptime
        BY <1>5, UpdateEffect
           DEF Reply, SocketFails, StopServices, IpcUpdate, allVars, vars, IpcInv
    <2>. QED BY <1>0, <1>1, <2>1, <2>2 DEF NetworkType
<1>. QED BY <1>2, <1>3, <1>4, <1>5 DEF IpcNext

LEMMA IpcInvInit == IpcInit => IpcInv
<1>. SUFFICES ASSUME IpcInit PROVE IpcInv
    OBVIOUS
<1>1. TypeOK
    BY TypeInit DEF IpcInit
<1>2. ServicesType
    BY DEF IpcInit, ServicesType, NoReply, Statuses
<1>3. NetworkType
    BY FS_EmptySet, NetworkAssumption DEF IpcInit, NetworkType
<1>. QED BY <1>1, <1>2, <1>3 DEF IpcInit, Init, IpcInv

LEMMA IpcInvNext == IpcInv /\ [IpcNext]_allVars => IpcInv'
BY ManagerType, ServicesNext, NetworkNext DEF IpcInv

\* Whatever bytes arrive, the manager's fields keep their types, a service has an
\* answer ready exactly while it replies, and the network invents no datagram.
THEOREM IpcTypeCorrect == IpcSpec => []IpcTypeOK
<1>1. IpcInv => IpcTypeOK
    BY DEF IpcInv, ServicesType, NetworkType, IpcTypeOK
<1>. QED BY <1>1, IpcInvInit, IpcInvNext, PTL DEF IpcSpec
-----------------------------------------------------------------------------
(* On what the vehicle drives *)

\* The active command was accepted soon after it was sent.
AcceptedSoon == accepted_at <= intent_at + MaxDelay

LEMMA IntentNext ==
    ASSUME MaxUptime < TimeMod, IpcInv, IpcInv', DeadManInvariant, AcceptedSoon,
           [IpcNext]_allVars
    PROVE  DeadManInvariant' /\ AcceptedSoon'
<1>0. /\ TypeOK /\ TypeOK' /\ uptime \in Nat /\ MaxDelay \in Nat
      /\ accepted_at \in Nat /\ intent_at \in Nat
    BY ClockAssumption, NetworkAssumption DEF IpcInv, TypeOK
<1>1. ASSUME [Next]_vars PROVE DeadManInvariant'
    BY <1>0, <1>1, DeadManNext
<1>2. ASSUME UNCHANGED <<accepted_at, intent_at>> PROVE AcceptedSoon'
    BY <1>2 DEF AcceptedSoon
<1>3. ASSUME NEW s \in Services, NEW m \in network, Receive(s, m), Status(m.body) = "OK"
      PROVE  DeadManInvariant' /\ AcceptedSoon'
    <2>. DEFINE cmd == Convert(m.body)
                intended == m.body.command_type = "MOTION" /\ ~emergency_stop_latched
    <2>1. /\ Submit(cmd) /\ intent_at' = IF intended THEN m.sent_at ELSE intent_at
          /\ cmd.command_type = m.body.command_type /\ cmd.version = VEHICLE_COMMAND_VERSION
        BY <1>3 DEF Receive, Convert, Status, VEHICLE_WIRE_VERSION, VEHICLE_COMMAND_VERSION
    <2>. HIDE DEF cmd
    <2>2. DeadManInvariant'
        BY <1>0, <1>1, <2>1, HandleDeadMan DEF Submit
    <2>3. CASE intended
        <3>1. accepted_at' = uptime
            BY <2>1, <2>3
               DEF Submit, HandleCommand, SetSpeed, Stop, EmergencyStop, Motion, Ignored
        <3>2. uptime <= m.sent_at + MaxDelay
            BY DEF IpcInv, NetworkType
        <3>. QED BY <2>1, <2>2, <2>3, <3>1, <3>2 DEF AcceptedSoon
    <2>4. CASE ~intended
        <3>1. accepted_at' = accepted_at
            BY <2>1, <2>4
               DEF Submit, HandleCommand, SetSpeed, Stop, EmergencyStop, Motion, Ignored,
                   vars, commandVars
        <3>. QED BY <1>2, <2>1, <2>2, <2>4, <3>1
    <2>. QED BY <2>3, <2>4
<1>4. ASSUME NEW s \in Services, NEW m \in network, Receive(s, m), Status(m.body) # "OK"
      PROVE  DeadManInvariant' /\ AcceptedSoon'
    BY <1>1, <1>2, <1>4 DEF Receive, vars, commandVars
<1>5. CASE IpcUpdate
    BY <1>0, <1>1, <1>2, <1>5, UpdateEffect DEF IpcUpdate, Next, ipcVars, commandVars
<1>6. ASSUME NEW d \in UptimeSteps, IpcTick(d) PROVE DeadManInvariant' /\ AcceptedSoon'
    BY <1>1, <1>2, <1>6 DEF IpcTick, Next, Tick, commandVars
<1>7. CASE (\E s \in Services, d \in Datagrams : Send(d, s))
           \/ (\E s \in Services : Reply(s) \/ SocketFails(s)) \/ StopServices \/ UNCHANGED allVars
    <2>1. UNCHANGED vars /\ intent_at' = intent_at
        BY <1>7 DEF Send, Reply, SocketFails, StopServices, allVars, ipcVars
    <2>. QED BY <1>1, <1>2, <2>1 DEF vars, commandVars
<1>. QED BY <1>3, <1>4, <1>5, <1>6, <1>7 DEF IpcNext

\* Before the counter wraps, the vehicle drives only on what the operator asked for
\* no longer ago than a delivery and a lifetime, however datagrams are lost, repeated
\* or overtake one another and whenever services die.
THEOREM RecentIntentCorrect ==
    ASSUME MaxUptime < TimeMod
    PROVE  IpcSpec => []DrivesOnRecentIntent
<1>1. IpcInit => DeadManInvariant /\ AcceptedSoon
    BY DeadManInit, NetworkAssumption DEF IpcInit, Init, AcceptedSoon
<1>2. IpcInv /\ IpcInv' /\ DeadManInvariant /\ AcceptedSoon /\ [IpcNext]_allVars
        => DeadManInvariant' /\ AcceptedSoon'
    BY IntentNext
<1>3. IpcInv /\ DeadManInvariant /\ AcceptedSoon => DrivesOnRecentIntent
    <2>. SUFFICES ASSUME IpcInv, DeadManInvariant, AcceptedSoon, target_pct # AtZero
                  PROVE  updated_at - intent_at <= active_cmd.ttl_ms + MaxDelay
        BY DEF DrivesOnRecentIntent
    <2>1. /\ updated_at \in Nat /\ accepted_at \in Nat /\ intent_at \in Nat
          /\ active_cmd.ttl_ms \in Nat /\ MaxDelay \in Nat
        BY ClockAssumption, NetworkAssumption DEF IpcInv, TypeOK, UInt16
    <2>2. updated_at - accepted_at <= active_cmd.ttl_ms
        BY DEF DeadManInvariant, OnlyFreshCommandsDrive
    <2>. QED BY <2>1, <2>2 DEF AcceptedSoon
<1>. QED BY <1>1, <1>2, <1>3, IpcInvInit, IpcInvNext, PTL DEF IpcSpec
-----------------------------------------------------------------------------
(* Silence stops *)

TtlOf(d) == Accepted(Convert(d)).ttl_ms

LEMMA LongestIsLongest ==
    ASSUME Datagrams # {}
    PROVE  LongestTtl \in UInt16 /\ \A d \in Datagrams : TtlOf(d) <= LongestTtl
<1>. DEFINE Ttls == {TtlOf(d) : d \in Datagrams}
            Rests == {65535 - t : t \in Ttls}
<1>1. \A d \in Datagrams : TtlOf(d) \in UInt16
    BY DatagramAssumption, ConfigIsUsable DEF TtlOf, Accepted, Convert
<1>2. Rests \subseteq Nat /\ Rests # {}
    BY <1>1 DEF UInt16
<1>3. PICK x \in Rests : \A y \in Rests : x <= y
    <2>. DEFINE Less == {p \in Nat \X Nat : p[1] < p[2]}
    <2>1. IsWellFoundedOn(Less, Nat)
        BY NatLessThanWellFounded DEF OpToRel
    <2>2. \A x, y \in Nat : ~(<<y, x>> \in Less) => x <= y
        OBVIOUS
    <2>. HIDE DEF Rests, Less
    <2>3. \E x \in Rests : \A y \in Rests : ~(<<y, x>> \in Less)
        BY <1>2, <2>1, WFMin, Zenon
    <2>. QED BY <1>2, <2>2, <2>3
<1>4. PICK t \in Ttls : x = 65535 - t
    OBVIOUS
<1>5. t \in UInt16 /\ \A d \in Datagrams : TtlOf(d) <= t
    <2>1. t \in UInt16
        BY <1>1
    <2>2. ASSUME NEW d \in Datagrams PROVE TtlOf(d) <= t
        <3>1. 65535 - TtlOf(d) \in Rests
            OBVIOUS
        <3>2. 65535 - t <= 65535 - TtlOf(d)
            BY <1>3, <1>4, <3>1
        <3>3. TtlOf(d) \in Nat /\ t \in Nat
            BY <1>1, <2>1 DEF UInt16
        <3>. QED BY <3>2, <3>3
    <2>. QED BY <2>1, <2>2
<1>6. \E l \in Ttls : \A d \in Datagrams : TtlOf(d) <= l
    BY <1>5
<1>7. LongestTtl = CHOOSE l \in Ttls : \A d \in Datagrams : TtlOf(d) <= l
    BY DEF LongestTtl, TtlOf
<1>8. LongestTtl \in Ttls /\ \A d \in Datagrams : TtlOf(d) <= LongestTtl
    BY <1>6, <1>7
<1>. QED BY <1>1, <1>8

\* When the vehicle is at rest at the latest, if the operator says no more.
RestTime == wanted_at + MaxDelay + LongestTtl + SAFE_MAX_SPEED_LIMIT_PCT * MaxUpdateGap

\* Every update of a lapsed command brings a wheel at least one percent closer to
\* rest, so that its speed bounds the time that is left.
RestInTime ==
    \A s \in Side : current_pct[s] # 0
        => updated_at + Abs(current_pct[s]) * MaxUpdateGap <= RestTime

SilenceInv ==
    /\ OutputWithinSafeLimit /\ RestInTime
    /\ uptime <= updated_at + MaxUpdateGap
    /\ intent_at <= wanted_at
    /\ \A m \in network : m.body.command_type = "MOTION" => m.sent_at <= wanted_at
    /\ has_active_motion_cmd => active_cmd.ttl_ms <= LongestTtl

LEMMA Ramps ==
    ASSUME NEW a \in Nat, NEW b \in Nat, NEW g \in Nat
    PROVE  /\ a <= b => a * g <= b * g
           /\ a + 1 <= b => a * g + g <= b * g
           /\ a >= 1 => g <= a * g
OBVIOUS

\* What an update leaves of a speed, under a command that drives and under one that
\* lapsed.
LEMMA UpdateSlows ==
    ASSUME TypeOK, Update, NEW s \in Side, current_pct'[s] # 0,
           CommandHasTimedOut \/ emergency_stop_latched
    PROVE  Abs(current_pct'[s]) + 1 <= Abs(current_pct[s])
<1>1. UpdateTimedOut
    BY DEF Update, UpdateLatched, UpdateDriving, AtZero
<1>2. /\ current_pct'[s] = SlewLimitMotorPct(current_pct[s], 0, StepUp(UpdateDt),
                                             StepDown(UpdateDt))
    BY <1>1 DEF UpdateTimedOut, Slewed, AtZero
<1>3. /\ StepUp(UpdateDt) \in Nat \ {0} /\ StepDown(UpdateDt) \in Nat \ {0}
      /\ current_pct[s] \in Int
    BY UpdateSteps DEF TypeOK
<1>. QED BY <1>2, <1>3, SlewArrives, Zenon

LEMMA SilenceUpdate ==
    ASSUME MaxUptime < TimeMod, Datagrams # {}, IpcInv, IpcInv', DeadManInvariant,
           AcceptedSoon, SilenceInv, IpcUpdate
    PROVE  SilenceInv'
<1>0. /\ Update /\ TypeOK /\ TypeOK' /\ UNCHANGED ipcVars
      /\ updated_at' = uptime /\ uptime' = uptime /\ UNCHANGED commandVars
      /\ has_active_motion_cmd' = has_active_motion_cmd
    BY UpdateEffect DEF IpcUpdate, IpcInv
<1>1. /\ uptime \in Nat /\ updated_at \in Nat /\ wanted_at \in Nat /\ intent_at \in Nat
      /\ MaxDelay \in Nat /\ LongestTtl \in Nat /\ MaxUpdateGap \in Nat
      /\ SAFE_MAX_SPEED_LIMIT_PCT \in Nat /\ accepted_at \in Nat
      /\ active_cmd.ttl_ms \in Nat
      /\ SAFE_MAX_SPEED_LIMIT_PCT * MaxUpdateGap \in Nat
      /\ \A s \in Side : current_pct[s] \in Int /\ current_pct'[s] \in Int
                         /\ Abs(current_pct[s]) \in Nat /\ Abs(current_pct'[s]) \in Nat
    <2>0. \A n \in Int : Abs(n) \in Nat
        BY DEF Abs
    <2>1. LongestTtl \in Nat /\ active_cmd.ttl_ms \in Nat
        BY LongestIsLongest, <1>0 DEF UInt16, TypeOK
    <2>2. \A s \in Side : current_pct[s] \in -100..100 /\ current_pct'[s] \in -100..100
        BY <1>0 DEF TypeOK
    <2>3. \A s \in Side : current_pct[s] \in Int /\ current_pct'[s] \in Int
        BY <2>2
    <2>4. /\ uptime \in Nat /\ updated_at \in Nat /\ wanted_at \in Nat
          /\ intent_at \in Nat /\ accepted_at \in Nat
        BY <1>0, ClockAssumption DEF IpcInv, TypeOK
    <2>5. /\ MaxDelay \in Nat /\ MaxUpdateGap \in Nat /\ SAFE_MAX_SPEED_LIMIT_PCT \in Nat
        BY ClockAssumption, NetworkAssumption, SafeMaxAssumption DEF Percent
    <2>6. SAFE_MAX_SPEED_LIMIT_PCT * MaxUpdateGap \in Nat
        BY <2>5
    <2>. QED BY <2>0, <2>1, <2>3, <2>4, <2>5, <2>6
<1>2. OutputWithinSafeLimit'
    BY <1>0, SafeLimitUpdate DEF SilenceInv
<1>. DEFINE G == MaxUpdateGap  M == SAFE_MAX_SPEED_LIMIT_PCT
<1>3. ASSUME NEW s \in Side, current_pct'[s] # 0
      PROVE  updated_at' + Abs(current_pct'[s]) * G <= RestTime
    <2>. DEFINE a == Abs(current_pct'[s])  b == Abs(current_pct[s])
    <2>0. a \in Nat /\ b \in Nat /\ a * G \in Nat /\ b * G \in Nat /\ M * G \in Nat
        BY <1>1
    <2>1. CASE CommandHasTimedOut \/ emergency_stop_latched
        <3>1. a + 1 <= b
            BY <1>0, <1>3, <2>1, UpdateSlows
        <3>2. current_pct[s] # 0
            BY <1>1, <2>0, <3>1 DEF Abs
        <3>3. updated_at + b * G <= RestTime /\ uptime <= updated_at + G
            BY <3>2 DEF SilenceInv, RestInTime
        <3>4. a * G + G <= b * G
            BY <1>1, <2>0, <3>1, Ramps
        <3>. HIDE DEF a, b
        <3>5. RestTime \in Nat
            BY <1>1 DEF RestTime
        <3>6. uptime + a * G <= RestTime
            <4>. DEFINE x == a * G  y == b * G
            <4>1. x \in Nat /\ y \in Nat /\ x + G <= y /\ updated_at + y <= RestTime
                BY <2>0, <3>3, <3>4
            <4>. HIDE DEF x, y
            <4>2. uptime + x <= RestTime
                BY <1>1, <3>3, <3>5, <4>1
            <4>. QED BY <4>2 DEF x
        <3>. QED BY <1>0, <3>6 DEF a
    <2>2. CASE ~CommandHasTimedOut /\ ~emergency_stop_latched
        <3>1. has_active_motion_cmd /\ uptime - accepted_at <= active_cmd.ttl_ms
            BY <1>0, <1>1, <2>2, TimeoutIsAge DEF DeadManInvariant
        <3>2. /\ active_cmd.ttl_ms <= LongestTtl /\ intent_at <= wanted_at
              /\ accepted_at <= intent_at + MaxDelay
            BY <3>1 DEF SilenceInv, AcceptedSoon
        <3>3. uptime <= wanted_at + MaxDelay + LongestTtl
            BY <1>1, <3>1, <3>2
        <3>4. a <= M
            BY <1>2 DEF OutputWithinSafeLimit
        <3>5. a * G <= M * G
            BY <1>1, <2>0, <3>4, Ramps
        <3>. HIDE DEF a, b
        <3>6. uptime + a * G <= RestTime
            <4>. DEFINE x == a * G  y == M * G
            <4>1. x \in Nat /\ y \in Nat /\ x <= y
                BY <2>0, <3>5
            <4>2. RestTime = wanted_at + MaxDelay + LongestTtl + y
                BY DEF RestTime
            <4>. HIDE DEF x, y
            <4>3. uptime + x <= RestTime
                BY <1>1, <3>3, <4>1, <4>2
            <4>. QED BY <4>3 DEF x
        <3>. QED BY <1>0, <3>6 DEF a
    <2>. QED BY <2>1, <2>2
<1>4. RestTime' = RestTime
    BY <1>0 DEF RestTime, ipcVars
<1>5. RestInTime'
    BY <1>3, <1>4 DEF RestInTime
<1>. QED BY <1>0, <1>1, <1>2, <1>5 DEF SilenceInv, ipcVars, commandVars

LEMMA SilenceInit == Datagrams # {} /\ IpcInit => SilenceInv
<1>. SUFFICES ASSUME Datagrams # {}, IpcInit PROVE SilenceInv
    OBVIOUS
<1>1. OutputWithinSafeLimit
    BY AtZeroWithin DEF IpcInit, Init, OutputWithinSafeLimit, Within
<1>2. RestInTime
    BY DEF IpcInit, Init, AtZero, RestInTime
<1>. QED BY <1>1, <1>2, ClockAssumption DEF IpcInit, Init, SilenceInv

\* What a datagram does to what the vehicle does without it.
LEMMA SilenceReceive ==
    ASSUME Datagrams # {}, IpcInv, SilenceInv,
           NEW s \in Services, NEW m \in network, Receive(s, m)
    PROVE  SilenceInv'
<1>. DEFINE cmd == Convert(m.body)
            fresh == Status(m.body) = "OK" /\ m.body.command_type = "MOTION"
                     /\ ~emergency_stop_latched
<1>0. /\ network' \subseteq network /\ wanted_at' = wanted_at
      /\ intent_at' = IF fresh THEN m.sent_at ELSE intent_at
      /\ Submit(cmd) \/ UNCHANGED vars
      /\ Status(m.body) = "OK" => Submit(cmd)
      /\ cmd.command_type = m.body.command_type
      /\ Status(m.body) = "OK" => cmd.version = VEHICLE_COMMAND_VERSION
      /\ Status(m.body) # "OK" => UNCHANGED vars
      /\ m.body \in Datagrams
    BY DEF Receive, Convert, Status, VEHICLE_WIRE_VERSION, VEHICLE_COMMAND_VERSION,
           IpcInv, NetworkType
<1>1. /\ Accepted(cmd).ttl_ms <= LongestTtl
      /\ m.body.command_type = "MOTION" => m.sent_at <= wanted_at
    BY <1>0, LongestIsLongest DEF TtlOf, SilenceInv
<1>. HIDE DEF cmd
<1>2. /\ uptime' = uptime /\ updated_at' = updated_at
      /\ current_pct' = current_pct \/ current_pct' = AtZero
      /\ target_pct' = target_pct \/ target_pct' = AtZero
    BY <1>0 DEF Submit, HandleCommand, SetSpeed, Stop, EmergencyStop, Motion, Ignored,
                vars, outputVars, updateVars
<1>3. OutputWithinSafeLimit'
    BY <1>2, SafeLimitKept DEF SilenceInv
<1>4. RestInTime'
    <2>1. RestTime' = RestTime
        BY <1>0 DEF RestTime
    <2>. QED BY <1>2, <2>1 DEF SilenceInv, RestInTime, AtZero
<1>5. intent_at' <= wanted_at'
    BY <1>0, <1>1 DEF SilenceInv
<1>6. has_active_motion_cmd' => active_cmd'.ttl_ms <= LongestTtl
    <2>1. \/ active_cmd' = Accepted(cmd)
          \/ active_cmd' = active_cmd /\ (has_active_motion_cmd' => has_active_motion_cmd)
        BY <1>0 DEF Submit, HandleCommand, SetSpeed, Stop, EmergencyStop, Motion, Ignored,
                    vars, commandVars
    <2>. QED BY <1>1, <2>1 DEF SilenceInv
<1>. QED BY <1>0, <1>2, <1>3, <1>4, <1>5, <1>6 DEF SilenceInv

\* What the operator asks for only puts the time of rest off.
LEMMA SilenceSend ==
    ASSUME Datagrams # {}, IpcInv, SilenceInv,
           NEW s \in Services, NEW d \in Datagrams, Send(d, s)
    PROVE  SilenceInv'
<1>. DEFINE m == [body |-> d, to |-> s, sent_at |-> uptime, number |-> sent]
<1>1. /\ network' = network \cup {m} /\ intent_at' = intent_at /\ UNCHANGED vars
      /\ wanted_at' = IF d.command_type = "MOTION" THEN uptime ELSE wanted_at
      /\ m.body = d /\ m.sent_at = uptime
    BY DEF Send
<1>2. /\ uptime \in Nat /\ wanted_at \in Nat /\ intent_at \in Nat /\ updated_at \in Nat
      /\ wanted_at <= uptime
      /\ \A k \in network : k.sent_at \in Nat
    BY ClockAssumption DEF IpcInv, TypeOK, NetworkType
<1>3. wanted_at' \in Nat /\ wanted_at <= wanted_at'
    BY <1>1, <1>2
<1>4. intent_at' <= wanted_at'
    BY <1>1, <1>2, <1>3 DEF SilenceInv
<1>5. ASSUME NEW k \in network', k.body.command_type = "MOTION" PROVE k.sent_at <= wanted_at'
    <2>. HIDE DEF m
    <2>1. CASE k = m
        BY <1>1, <1>2, <1>5, <2>1
    <2>2. CASE k \in network
        <3>1. k.sent_at <= wanted_at
            BY <1>5, <2>2 DEF SilenceInv
        <3>. QED BY <1>2, <1>3, <2>2, <3>1
    <2>. QED BY <1>1, <2>1, <2>2
<1>6. RestInTime'
    <2>1. /\ MaxDelay \in Nat /\ LongestTtl \in Nat /\ MaxUpdateGap \in Nat
          /\ SAFE_MAX_SPEED_LIMIT_PCT \in Nat
        BY ClockAssumption, NetworkAssumption, SafeMaxAssumption, LongestIsLongest
           DEF Percent, UInt16
    <2>2. SAFE_MAX_SPEED_LIMIT_PCT * MaxUpdateGap \in Nat
        BY <2>1
    <2>3. RestTime \in Nat /\ RestTime' \in Nat /\ RestTime <= RestTime'
        <3>. DEFINE y == SAFE_MAX_SPEED_LIMIT_PCT * MaxUpdateGap
        <3>1. RestTime = wanted_at + MaxDelay + LongestTtl + y
              /\ RestTime' = wanted_at' + MaxDelay + LongestTtl + y
            BY DEF RestTime
        <3>2. y \in Nat
            BY <2>2
        <3>3. /\ wanted_at \in Nat /\ wanted_at' \in Nat /\ wanted_at <= wanted_at'
              /\ MaxDelay \in Nat /\ LongestTtl \in Nat
            BY <1>2, <1>3, <2>1
        <3>4. \A a, b, c, k, r \in Nat :
                  a <= b => /\ a + c + k + r \in Nat /\ b + c + k + r \in Nat
                            /\ a + c + k + r <= b + c + k + r
            OBVIOUS
        <3>. HIDE DEF y
        <3>. QED BY <3>1, <3>2, <3>3, <3>4, Zenon
    <2>4. ASSUME NEW t \in Side, current_pct'[t] # 0
          PROVE  updated_at' + Abs(current_pct'[t]) * MaxUpdateGap <= RestTime'
        <3>. DEFINE x == Abs(current_pct[t]) * MaxUpdateGap
        <3>1. updated_at + x <= RestTime
            BY <1>1, <2>4 DEF SilenceInv, RestInTime, vars, outputVars
        <3>2. Abs(current_pct[t]) \in Nat
            <4>1. current_pct[t] \in -100..100
                BY DEF IpcInv, TypeOK
            <4>. QED BY <4>1 DEF Abs
        <3>3. x \in Nat
            BY <2>1, <3>2
        <3>. HIDE DEF x
        <3>4. updated_at + x <= RestTime'
            BY <1>2, <2>3, <3>1, <3>3
        <3>. QED BY <1>1, <3>4 DEF x, vars, outputVars, updateVars
    <2>. QED BY <2>4 DEF RestInTime
<1>7. OutputWithinSafeLimit'
    BY <1>1, SafeLimitKept DEF SilenceInv, vars, outputVars
<1>. QED BY <1>1, <1>4, <1>5, <1>6, <1>7 DEF SilenceInv, vars, commandVars, updateVars

LEMMA SilenceTick ==
    ASSUME IpcInv, SilenceInv, NEW d \in UptimeSteps, IpcTick(d)
    PROVE  SilenceInv'
<1>1. /\ network' \subseteq network /\ UNCHANGED <<wanted_at, intent_at, commandVars>>
      /\ UNCHANGED <<outputVars, updateVars, has_active_motion_cmd>>
      /\ uptime' <= updated_at + MaxUpdateGap
    BY DEF IpcTick, Tick
<1>2. OutputWithinSafeLimit'
    BY <1>1, SafeLimitKept DEF SilenceInv, outputVars
<1>3. RestInTime'
    BY <1>1 DEF SilenceInv, RestInTime, RestTime, outputVars, updateVars
<1>. QED BY <1>1, <1>2, <1>3 DEF SilenceInv, commandVars, updateVars

LEMMA SilenceNext ==
    ASSUME MaxUptime < TimeMod, Datagrams # {}, IpcInv, IpcInv', DeadManInvariant,
           AcceptedSoon, SilenceInv, [IpcNext]_allVars
    PROVE  SilenceInv'
<1>1. CASE (\E s \in Services : Reply(s) \/ SocketFails(s)) \/ StopServices
           \/ UNCHANGED allVars
    <2>1. UNCHANGED <<vars, network, wanted_at, intent_at>>
        BY <1>1 DEF Reply, SocketFails, StopServices, allVars, ipcVars
    <2>2. OutputWithinSafeLimit'
        BY <2>1, SafeLimitKept DEF SilenceInv, vars, outputVars
    <2>3. RestInTime'
        BY <2>1 DEF SilenceInv, RestInTime, RestTime, vars, outputVars, updateVars
    <2>. QED BY <2>1, <2>2, <2>3 DEF SilenceInv, vars, commandVars, updateVars
<1>. QED BY <1>1, SilenceReceive, SilenceSend, SilenceTick, SilenceUpdate DEF IpcNext

\* Before the counter wraps, an operator who falls silent leaves a vehicle at rest
\* within a delivery, a lifetime and a ramp, whatever the ramp rates, the datagrams
\* and the deaths of services.
THEOREM SilenceCorrect ==
    ASSUME MaxUptime < TimeMod, Datagrams # {}
    PROVE  IpcSpec => []SilenceStops
<1>1. IpcInit => DeadManInvariant /\ AcceptedSoon /\ SilenceInv
    BY DeadManInit, NetworkAssumption, SilenceInit DEF IpcInit, Init, AcceptedSoon
<1>2. IpcInv /\ IpcInv' /\ DeadManInvariant /\ AcceptedSoon /\ SilenceInv
            /\ [IpcNext]_allVars
        => DeadManInvariant' /\ AcceptedSoon' /\ SilenceInv'
    BY IntentNext, SilenceNext
<1>3. IpcInv /\ SilenceInv => SilenceStops
    <2>. SUFFICES ASSUME IpcInv, SilenceInv, uptime > RestTime,
                         NEW s \in Side, current_pct[s] # 0
                  PROVE  FALSE
        <3>1. ASSUME IpcInv, \A t \in Side : current_pct[t] = 0
              PROVE  current_pct = AtZero
            BY <3>1 DEF IpcInv, TypeOK, AtZero
        <3>. QED BY <3>1 DEF SilenceStops, RestTime
    <2>. DEFINE a == Abs(current_pct[s])  x == a * MaxUpdateGap
    <2>1. a \in Nat /\ a >= 1
        <3>1. current_pct[s] \in -100..100
            BY DEF IpcInv, TypeOK
        <3>. QED BY <3>1 DEF Abs
    <2>2. updated_at + x <= RestTime /\ uptime <= updated_at + MaxUpdateGap
        BY DEF SilenceInv, RestInTime
    <2>3. MaxUpdateGap \in Nat /\ uptime \in Nat /\ updated_at \in Nat
        BY ClockAssumption DEF IpcInv, TypeOK
    <2>4. MaxUpdateGap <= x /\ x \in Nat
        <3>. HIDE DEF a
        <3>. QED BY <2>1, <2>3, Ramps
    <2>5. RestTime \in Nat
        <3>1. /\ MaxDelay \in Nat /\ LongestTtl \in Nat /\ wanted_at \in Nat
              /\ SAFE_MAX_SPEED_LIMIT_PCT \in Nat
            BY ClockAssumption, NetworkAssumption, SafeMaxAssumption, LongestIsLongest
               DEF Percent, UInt16, IpcInv, TypeOK
        <3>2. SAFE_MAX_SPEED_LIMIT_PCT * MaxUpdateGap \in Nat
            BY <2>3, <3>1
        <3>. QED BY <3>1, <3>2 DEF RestTime
    <2>. HIDE DEF x
    <2>. QED BY <2>2, <2>3, <2>4, <2>5
<1>. QED BY <1>1, <1>2, <1>3, IpcInvInit, IpcInvNext, PTL DEF IpcSpec
=============================================================================
