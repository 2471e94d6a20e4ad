--------------------------- MODULE MCModbusSerial ---------------------------
(* Frames for model checking ModbusSerial: one of each kind the receiver    *)
(* tells apart.                                                            *)
EXTENDS ModbusSerial

Request(fn, reg, len) ==
  [addr |-> OwnAddress, fn |-> fn, reg |-> reg, count |-> 2, data |-> 1,
   len |-> len, crc |-> TRUE]

ReadReq    == Request(READ_VARIABLES, AI_OFFSET0, 8)
WriteReq   == Request(WRITE_VARIABLES, AI_OFFSET0, 8)
SerialReq  == Request(WRITE_VARIABLES, SERIALNUMBER_LOWORD, 8)
BaudReq    == Request(WRITE_VARIABLES, BAUDRATE, 8)
MultiReq   == Request(MULTIPLE_WRITE, AI_OFFSET0, 11)
OnlineReq  == Request(CHECKONLINE, 1, 6)
\* a request for another slave on the line
ForeignReq == [ReadReq EXCEPT !.addr = OwnAddress + 1]
\* a multiple write whose byte count was damaged on the wire
WrapReq    == [MultiReq EXCEPT !.count = 248, !.crc = FALSE]

\* the sets of frames the configurations choose from
FramedRequests == {WriteReq, OnlineReq, MultiReq}
WriteRequests  == {WriteReq, SerialReq, BaudReq}
ReadRequests   == {ReadReq, ForeignReq}
BaudRequests   == {BaudReq, ReadReq}
WrapRequests   == {WrapReq}
=============================================================================
