----------------------------- MODULE DeviceHals -----------------------------
(***************************************************************************)
(* The two HALs of the device, GPS and sensors.  They share nothing but    *)
(* the process, so each behaviour exercises one of them: the other's       *)
(* budget is 0.                                                            *)
(***************************************************************************)
EXTENDS GpsHal, SensorsHal

vars == <<gpsVars, sensorVars>>

Init == GpsInit /\ SensorInit /\ (budget.calls = 0) # (quota = 0)

Next ==
  \/ GpsStep /\ UNCHANGED sensorVars
  \/ SensorStep /\ UNCHANGED gpsVars

Spec == Init /\ [][Next]_vars

(* Threads run, sleeps end, a call goes on, a thread that waits for the      *)
(* semaphore gets it (its other user sleeps in between).  Calls and          *)
(* sentences need not come.                                                  *)
FairSpec ==
  /\ Spec
  /\ WF_gpsVars(StateThreadStep /\ UNCHANGED sensorVars)
  /\ SF_gpsVars(LockFix /\ UNCHANGED sensorVars)
  /\ WF_gpsVars(CallStep /\ UNCHANGED sensorVars)
  /\ \A t \in Timers : WF_gpsVars(TimerStep(t) /\ UNCHANGED sensorVars)
=============================================================================
