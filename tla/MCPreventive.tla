----------------------------- MODULE MCPreventive -----------------------------
(* An instance of Preventive for TLC. *)
EXTENDS Preventive

SensorTask == <<"INHERIT_PLAN", "SENSOR">>

(* Bound: a calendar plan has no sensor readings; the others are fixed, with one horizon
   and no lead, and run for three days. *)
Focus == IF plan.mode = "CALENDAR"
         THEN sensor = Unset /\ plan.direction = "EQUAL"
         ELSE /\ now <= 3
              /\ plan.policy = "FIXED" /\ plan.horizon = Min(Horizons) /\ plan.lead = 0
=============================================================================
