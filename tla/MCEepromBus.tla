---------------------------- MODULE MCEepromBus ----------------------------
(* The three tasks that write to the EEPROM, for TLC. *)
EXTENDS EepromBus

(* Three tasks with a cell each, of the priorities of main.c. *)
MCPriority == [COMM |-> 3, STORE_EEP |-> 2, NET |-> 1]
MCWrites == [COMM |-> {[addr |-> 0, data |-> 101]}, STORE_EEP |-> {[addr |-> 1, data |-> 102]},
             NET |-> {[addr |-> 2, data |-> 103]}]
=============================================================================
