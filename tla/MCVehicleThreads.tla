-------------------------- MODULE MCVehicleThreads --------------------------
(***************************************************************************)
(* Small instances of VehicleThreads: the ATSAMV71 build's three threads,    *)
(* with one motor per side.                                                  *)
(***************************************************************************)
EXTENDS VehicleThreads

Command(type, linear, angular, limit, ttl) ==
    [version |-> VEHICLE_COMMAND_VERSION, command_type |-> type,
     linear_x |-> linear, angular_z |-> angular, speed_limit_pct |-> limit,
     ttl_ms |-> ttl]

Forward == Command("MOTION", 1000, 0, 100, 20)
Turn    == Command("MOTION", -500, 1000, 0, 0)
Halt    == Command("STOP", 0, 0, 0, 0)
EStop   == Command("EMERGENCY_STOP", 0, 0, 0, 0)
Slower  == Command("SET_SPEED", 0, 0, 1, 0)

\* The Bluetooth thread sends no emergency stop; the UDP thread may send anything.
MCSubmitters == {"bt", "udp"}
MCCommandsOf == [bt |-> {Forward, Halt}, udp |-> {Turn, EStop, Slower}]

\* bluetooth_rx and the motor thread have priority 5, UDP is cooperative.
MCPriority   == [motor |-> 5, bt |-> 5, udp |-> -1]
MCMotorOrder == <<"left_motor", "right_motor">>
MCLeftMotors == {"left_motor"}

\* A motion command, a competing one and an emergency stop.
StopCommandsOf == [bt |-> {Forward}, udp |-> {EStop}]

\* Only the UDP thread, driving and stopping.
UdpOnly       == {"udp"}
UdpCommandsOf == [udp |-> {Forward, EStop}]

\* Full speed is two updates away, rest is one or two.
MCConfig ==
    [default_speed_limit_pct |-> 40, default_ttl_ms |-> 10,
     ramp_up_pct_per_sec |-> 50, ramp_down_pct_per_sec |-> 100,
     max_update_dt_ms |-> 20]

=============================================================================
