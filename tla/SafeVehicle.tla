---------------------------- MODULE SafeVehicle ----------------------------
(***************************************************************************)
(* What the control manager promises to whoever stands beside the vehicle:  *)
(* it moves only while a motion command authorises it, it slows down when   *)
(* the authority is gone, it is at rest in an emergency stop, and it never   *)
(* jumps.  vehicle_control_manager.c is shown to implement this.             *)
(***************************************************************************)
EXTENDS VehicleArith

CONSTANTS
    SafeMax,        \* no wheel is ever commanded above this percentage
    MaxStepUp,      \* the most a wheel may gain in one step
    MaxStepDown     \* the most a wheel may lose in one step, emergency apart

VARIABLES
    mode,           \* "idle", "driving" or "estopped"
    speed           \* signed percentage per side

vars == <<mode, speed>>

Init == mode = "idle" /\ speed = [s \in Side |-> 0]

AtRest == \A s \in Side : speed[s] = 0

Faster(s) == Abs(speed'[s]) > Abs(speed[s])

\* A wheel never goes from one direction to the other without stopping.
Gentle == \A s \in Side :
    /\ ~DifferentSignNonzero(speed[s], speed'[s])
    /\ Abs(speed'[s]) <= SafeMax
    /\ IF Faster(s) THEN Abs(speed'[s]) - Abs(speed[s]) <= MaxStepUp
                    ELSE Abs(speed[s]) - Abs(speed'[s]) <= MaxStepDown

\* An operator's motion command: the only way to start driving.
Permit == mode # "estopped" /\ mode' = "driving" /\ UNCHANGED speed

\* While authorised the wheels follow the request.
Drive == mode = "driving" /\ mode' = "driving" /\ Gentle

\* Authority lapses or is withdrawn; from then on the wheels only slow down.
Coast == /\ mode # "estopped"
         /\ mode' = "idle"
         /\ Gentle /\ \A s \in Side : ~Faster(s)

EStop == mode' = "estopped" /\ speed' = [s \in Side |-> 0]

\* The latch is released with the vehicle at rest, and rest it stays.
Release == /\ mode = "estopped" /\ mode' = "idle"
           /\ AtRest /\ UNCHANGED speed

\* clear_emergency_stop also zeroes a vehicle that was not latched.
Clear == mode' = "idle" /\ speed' = [s \in Side |-> 0]

Next == Permit \/ Drive \/ Coast \/ EStop \/ Release \/ Clear

Spec == Init /\ [][Next]_vars

\* Without authority the vehicle comes to rest.
ComesToRest == (mode # "driving") ~> (AtRest \/ mode = "driving")

=============================================================================
