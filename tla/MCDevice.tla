------------------------------ MODULE MCDevice ------------------------------
(***************************************************************************)
(* The parts of the device beside its Modbus RTU slave, in one run.  They  *)
(* share no variable, so the run takes one of them at a time: a behaviour  *)
(* is one of that part, the others staying as they are at power-up.        *)
(***************************************************************************)
EXTENDS MCEepromBus, PulseStore, Settings, TcpModbus, Outputs, AnalogInputs, Ranges

VARIABLE part

Part == {"bus", "pulses", "settings", "tcp", "outputs", "analog", "ranges"}

DeviceInit ==
  /\ part \in Part
  /\ BusInit /\ PulseInit /\ SettingsInit /\ TcpInit /\ OutputsInit /\ AnalogInit
  /\ RangesInit /\ (part # "ranges" => range = "NO_USE")

DeviceNext ==
  /\ UNCHANGED part
  /\ \/ part = "bus" /\ BusNext /\ UNCHANGED <<pulseVars, settingsVars, tcpVars, outputsVars, analogVars, rangesVars>>
     \/ part = "pulses" /\ PulseNext /\ UNCHANGED <<busVars, settingsVars, tcpVars, outputsVars, analogVars, rangesVars>>
     \/ part = "settings" /\ SettingsNext /\ UNCHANGED <<busVars, pulseVars, tcpVars, outputsVars, analogVars, rangesVars>>
     \/ part = "tcp" /\ TcpNext /\ UNCHANGED <<busVars, pulseVars, settingsVars, outputsVars, analogVars, rangesVars>>
     \/ part = "outputs" /\ OutputsNext /\ UNCHANGED <<busVars, pulseVars, settingsVars, tcpVars, analogVars, rangesVars>>
     \/ part = "analog" /\ AnalogNext /\ UNCHANGED <<busVars, pulseVars, settingsVars, tcpVars, outputsVars, rangesVars>>
     \/ part = "ranges" /\ NextReading /\ UNCHANGED <<busVars, pulseVars, settingsVars, tcpVars, outputsVars, analogVars>>

(* The fairness of each part, for the part that moves.                     *)
DeviceFair ==
  /\ WF_pulseVars(part = "pulses" /\ StoreTask) /\ WF_pulseVars(part = "pulses" /\ ClearQuarter)
  /\ WF_settingsVars(part = "settings" /\ CommTask) /\ WF_settingsVars(part = "settings" /\ NetTask)
  /\ \A c \in Client : /\ WF_tcpVars(part = "tcp" /\ uip_polling(c))
                       /\ WF_tcpVars(part = "tcp" /\ Retransmit(c))
                       /\ WF_tcpVars(part = "tcp" /\ Take(c))
  /\ WF_outputsVars(part = "outputs" /\ KEY_Status_Scan)
  /\ SF_outputsVars(part = "outputs" /\ OutputsTask)
  /\ WF_outputsVars(part = "outputs" /\ StoreOutput)
  /\ WF_analogVars(part = "analog" /\ inputs_scan)

DeviceSpec ==
  /\ DeviceInit /\ DeviceFair
  /\ [][DeviceNext]_<<part, busVars, pulseVars, settingsVars, tcpVars, outputsVars, analogVars, rangesVars>>

(* Type invariant of all parts. *)
DeviceTypeOK ==
  /\ BusTypeOK /\ PulseTypeOK /\ SettingsTypeOK /\ TcpTypeOK /\ OutputsTypeOK
  /\ AnalogTypeOK /\ RangesTypeOK
=============================================================================
