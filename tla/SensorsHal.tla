----------------------------- MODULE SensorsHal -----------------------------
(***************************************************************************)
(* The sensors HAL of the BUG 2.0 (sensors_bug20_ml8953.c): a control and  *)
(* a data device that hand a descriptor of the accelerometer from one to   *)
(* the other, in a process that opens and closes descriptors of its own.   *)
(* Descriptors are numbers the kernel gives out again, the lowest first.   *)
(* Samples are left out: sensors_poll returns or fails.                    *)
(***************************************************************************)
EXTENDS Integers, FiniteSets

CONSTANTS
  Descriptors,   \* the numbers that may be in use
  SensorBudgets  \* bounds: how many calls and failures

ASSUME SensorAssumption == Descriptors \subseteq Nat \ {0} /\ IsFiniteSet(Descriptors)

VARIABLES
  table,      \* per descriptor: what it is open for
  sensor_fd, event_fd, control_fd,
  handle,     \* the descriptor in the native handle on its way to the data device
  devices,    \* the devices that are open
  quota,
  \* Of the properties only:
  touched,    \* the operations that read or closed a descriptor of someone else
  readFailed  \* sensors_poll has closed its descriptor

sensorVars == <<table, sensor_fd, event_fd, control_fd, handle, devices, quota, touched, readFailed>>

NoFd == -1
NoHandle == -2
Spend == quota > 0 /\ quota' = quota - 1
Free(tab) == {d \in Descriptors : tab[d] = "free"}
Lowest(s) == CHOOSE d \in s : \A e \in s : d <= e
\* The table after something is opened for what; only where there is room.
Opened(tab, what) == [tab EXCEPT ![Lowest(Free(tab))] = what]

\* close(d) by an operation that takes d for its own, open for what.
Closed(tab, d) == IF d = NoFd THEN tab ELSE [tab EXCEPT ![d] = "free"]
Touch(op, d, what) ==
  touched' = IF d # NoFd /\ table[d] \notin {what, "free"} THEN touched \cup {op} ELSE touched

-----------------------------------------------------------------------------
\* open_sensors, for the control and for the data device.
open_sensors(dev) ==
  /\ Spend /\ dev \notin devices
  /\ devices' = devices \cup {dev}
  /\ sensor_fd' = IF dev = "control" THEN NoFd ELSE sensor_fd
  /\ event_fd' = IF dev = "data" THEN NoFd ELSE event_fd
  /\ UNCHANGED <<table, control_fd, handle, touched, readFailed>>

(* The accelerometer may fail to open: the handle then holds -1. Nothing     *)
(* happens while a data descriptor is remembered.                           *)
control_open_data_source ==
  /\ Spend /\ "control" \in devices /\ handle = NoHandle
  /\ event_fd = NoFd
  /\ Cardinality(Free(table)) > 3
  /\ LET c0 == Lowest(Free(table))
         c1 == Lowest(Free(table) \ {c0})
         pair == IF control_fd = <<NoFd, NoFd>> THEN <<c0, c1>> ELSE control_fd
         tab == [table EXCEPT ![pair[1]] = "socket", ![pair[2]] = "socket"] IN
       /\ control_fd' = pair
       /\ \/ table' = Opened(tab, "accel") /\ sensor_fd' = Lowest(Free(tab))
          \/ table' = tab /\ sensor_fd' = NoFd
  /\ handle' = sensor_fd'
  /\ UNCHANGED <<event_fd, devices, touched, readFailed>>

\* Mutation of sensors_open: the handle is deleted and not closed.
sensors_open_keeps_handle ==
  /\ Spend /\ "data" \in devices /\ handle # NoHandle
  /\ IF handle = NoFd THEN event_fd' = NoFd /\ UNCHANGED table
     ELSE /\ event_fd' = Lowest(Free(table))
          /\ table' = Opened(table, "accel")
  /\ handle' = NoHandle
  /\ UNCHANGED <<sensor_fd, control_fd, devices, touched, readFailed>>

\* The descriptor is duplicated and the one in the handle closed: sensor_fd keeps its number.
sensors_open ==
  /\ Spend /\ "data" \in devices /\ handle # NoHandle
  /\ IF handle = NoFd THEN event_fd' = NoFd /\ UNCHANGED table
     ELSE /\ event_fd' = Lowest(Free(table))
          /\ table' = Closed(Opened(table, "accel"), handle)
  /\ handle' = NoHandle
  /\ UNCHANGED <<sensor_fd, control_fd, devices, touched, readFailed>>

\* A read that fails closes the descriptor, event_fd keeps its number.
sensors_poll ==
  /\ Spend /\ "data" \in devices
  /\ Touch("sensors_poll", event_fd, "accel")
  /\ \/ event_fd # NoFd /\ table[event_fd] # "free" /\ UNCHANGED <<table, readFailed>>
     \/ table' = Closed(table, event_fd) /\ readFailed' = (readFailed \/ event_fd # NoFd)
  /\ UNCHANGED <<sensor_fd, event_fd, control_fd, handle, devices>>

\* Mutation of sensors_close: event_fd is not reset.
sensors_close_keeps_fd ==
  /\ Spend /\ "data" \in devices
  /\ Touch("sensors_close", event_fd, "accel")
  /\ table' = Closed(table, event_fd)
  /\ UNCHANGED <<event_fd, sensor_fd, control_fd, handle, devices, readFailed>>

sensors_close ==
  /\ Spend /\ "data" \in devices
  /\ Touch("sensors_close", event_fd, "accel")
  /\ table' = Closed(table, event_fd) /\ event_fd' = NoFd
  /\ UNCHANGED <<sensor_fd, control_fd, handle, devices, readFailed>>

\* event_fd keeps its number, until the data device is opened again.
close_sensors ==
  /\ Spend /\ "data" \in devices
  /\ Touch("close_sensors", event_fd, "accel")
  /\ table' = Closed(table, event_fd)
  /\ devices' = devices \ {"data"}
  /\ UNCHANGED <<sensor_fd, event_fd, control_fd, handle, readFailed>>

(* control_close closes the socket pair, and sensor_fd whoever has that     *)
(* number now. The framework has passed the handle on before.               *)
control_close ==
  /\ Spend /\ "control" \in devices /\ handle = NoHandle
  /\ Touch("control_close", sensor_fd, "none")
  /\ table' = Closed(Closed(Closed(table, control_fd[1]), control_fd[2]), sensor_fd)
  /\ sensor_fd' = NoFd /\ control_fd' = <<NoFd, NoFd>>
  /\ devices' = devices \ {"control"}
  /\ UNCHANGED <<event_fd, handle, readFailed>>

\* The rest of the process.
OtherOpens ==
  /\ Spend /\ Cardinality(Free(table)) > 1
  /\ table' = Opened(table, "other")
  /\ UNCHANGED <<sensor_fd, event_fd, control_fd, handle, devices, touched, readFailed>>
OtherCloses ==
  /\ Spend /\ \E d \in Descriptors : table[d] = "other" /\ table' = Closed(table, d)
  /\ UNCHANGED <<sensor_fd, event_fd, control_fd, handle, devices, touched, readFailed>>

SensorInit ==
  /\ table = [d \in Descriptors |-> "free"]
  /\ sensor_fd = NoFd /\ event_fd = NoFd /\ control_fd = <<NoFd, NoFd>>
  /\ handle = NoHandle /\ devices = {} /\ quota \in SensorBudgets
  /\ touched = {} /\ readFailed = FALSE

SensorStep ==
  \/ \E dev \in {"control", "data"} : open_sensors(dev)
  \/ control_open_data_source \/ sensors_open \/ sensors_poll \/ sensors_close \/ close_sensors
  \/ control_close \/ OtherOpens \/ OtherCloses

-----------------------------------------------------------------------------
(* No operation reads or closes a descriptor of someone else, in whatever   *)
(* order the devices are opened, used and closed, but for two that use a    *)
(* number they have already given back: control_close with sensor_fd, which *)
(* sensors_open closed with the handle, and everything on event_fd after a  *)
(* read failed, since sensors_poll closes it without forgetting it.         *)
OwnDescriptors ==
  touched \subseteq {"control_close"}
    \cup IF readFailed THEN {"sensors_poll", "sensors_close", "close_sensors"} ELSE {}

(* With no data device and no handle on its way, no descriptor of the       *)
(* accelerometer is left open.                                              *)
AccelerometerClosed ==
  "data" \notin devices /\ handle = NoHandle => \A d \in Descriptors : table[d] # "accel"
=============================================================================
