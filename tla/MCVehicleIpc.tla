---------------------------- MODULE MCVehicleIpc ----------------------------
(***************************************************************************)
(* Both services, commands that drive, stop and latch, and one datagram for  *)
(* each check that can fail.  Speeds and times are scaled down as in         *)
(* MCVehicleControlManager.                                                  *)
(***************************************************************************)
EXTENDS VehicleIpc, TLC

Datagram(type, linear, angular, limit, ttl) ==
    [length |-> WIRE_SIZE, magic |-> "VCMD", version |-> VEHICLE_WIRE_VERSION,
     command_type |-> type, linear_x |-> linear, angular_z |-> angular,
     speed_limit_pct |-> limit, ttl_ms |-> ttl]

Forward  == Datagram("MOTION", 1000, 0, 100, 20)
Backward == Datagram("MOTION", -1000, 500, 0, 0)

Rejected ==
    {[Forward EXCEPT !.length = 16], [Forward EXCEPT !.magic = "other"],
     [Forward EXCEPT !.version = 2], [Forward EXCEPT !.speed_limit_pct = 101],
     [Forward EXCEPT !.angular_z = 1001]}

Halt     == Datagram("STOP", 0, 0, 0, 0)
Latch    == Datagram("EMERGENCY_STOP", 0, 0, 0, 0)
Unknown  == Datagram("unknown", 0, 0, 0, 0)

MCDatagrams == {Forward, Backward, Halt, Latch, Unknown} \cup Rejected

\* What it takes to latch, to release the latch late and to drive again, and one
\* datagram that is rejected.
OrderDatagrams == {Forward, Halt, Latch, [Forward EXCEPT !.speed_limit_pct = 101]}

\* The services differ only in name.
ServiceSymmetry == Permutations(Services)

MCConfig ==
    [default_speed_limit_pct |-> 40, default_ttl_ms |-> 10,
     ramp_up_pct_per_sec |-> 100, ramp_down_pct_per_sec |-> 100,
     max_update_dt_ms |-> 20]
=============================================================================
