---------------------- MODULE MCVehicleControlManager ----------------------
(***************************************************************************)
(* Small instances of VehicleControlManager.  Speeds are scaled down (a safe *)
(* limit of a few percent instead of 25) so that a ramp takes several        *)
(* updates but few states; axes keep their real range.                       *)
(***************************************************************************)
EXTENDS VehicleControlManager

Command(type, linear, angular, limit, ttl) ==
    [version |-> VEHICLE_COMMAND_VERSION, command_type |-> type,
     linear_x |-> linear, angular_z |-> angular, speed_limit_pct |-> limit,
     ttl_ms |-> ttl]

Forward   == Command("MOTION", 1000, 0, 100, 20)
Backward  == Command("MOTION", -1000, 0, 0, 0)
PivotLeft == Command("MOTION", 0, 1000, 2, 30)
Arc       == Command("MOTION", 1200, -1000, 0, 20)

OtherCommands ==
    {Command("STOP", 0, 0, 0, 0), Command("EMERGENCY_STOP", 0, 0, 0, 0),
     Command("SET_SPEED", 0, 0, 1, 0), Command("HEARTBEAT", 0, 0, 0, 0),
     [Forward EXCEPT !.version = 2]}

MCCommands == {Forward, Backward, PivotLeft, Arc} \cup OtherCommands

\* Fewer motions where the time span is what matters.
FewCommands == {Forward, Backward} \cup OtherCommands

\* A full ramp up takes three updates at the 10 ms step; zero fields fall back
\* to their defaults.
MCConfig ==
    [default_speed_limit_pct |-> 40, default_ttl_ms |-> 10,
     ramp_up_pct_per_sec |-> 100, ramp_down_pct_per_sec |-> 200,
     max_update_dt_ms |-> 20]

=============================================================================
