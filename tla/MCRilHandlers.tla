---------------------------- MODULE MCRilHandlers ----------------------------
EXTENDS RilHandlers

Workload(requests, max, faults, events) ==
  [requests |-> requests, max |-> max, faults |-> faults, events |-> events]

\* Two files of one id in two directories, and one in the master file.
MCFiles == { [path |-> <<"3F00", "7F10">>, id |-> "6F3A"],
             [path |-> <<"3F00", "7FFF">>, id |-> "6F3A"],
             [path |-> <<"3F00">>, id |-> "2FE2"] }

MCWorkloads ==
  { Workload(SimpleKinds \ SimpleEvents, 1, 2, 1),
    Workload({"SIGNAL_STRENGTH", "GET_IMSI", "SCREEN_STATE"}, 2, 1, 1),
    Workload({"SMS_ACKNOWLEDGE", "GET_IMSI"}, 1, 1, 4),
    Workload({"SETUP_DATA_CALL", "DEACTIVATE_DATA_CALL"}, 2, 1, 0),
    Workload({"SETUP_DATA_CALL"}, 2, 0, 1),
    Workload({"SETUP_DATA_CALL", "GPRS_REGISTRATION_STATE", "LAST_DATA_CALL_FAIL_CAUSE"}, 2, 0, 0),
    Workload({"SCREEN_STATE"} \cup Registrations, 3, 1, 1),
    Workload({"SET_NETWORK_SELECTION_AUTOMATIC", "REGISTRATION_STATE"}, 2, 1, 1),
    Workload({"SIM_IO", "GET_SIM_STATUS"}, 2, 1, 1),
    Workload({"SIM_IO"}, 4, 1, 0) }
=============================================================================
