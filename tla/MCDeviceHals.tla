---------------------------- MODULE MCDeviceHals ----------------------------
EXTENDS DeviceHals

GpsBudget(calls, sentences, faults) ==
  [calls |-> calls, sentences |-> sentences, faults |-> faults]

\* Many calls without sentences, fewer with some; none at all for the sensors.
MCGpsBudgets ==
  {GpsBudget(0, 0, 0), GpsBudget(6, 0, 1), GpsBudget(5, 2, 0), GpsBudget(3, 4, 0)}
MCSensorBudgets == {0, 8}
=============================================================================
