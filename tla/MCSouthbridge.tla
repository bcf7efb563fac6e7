--------------------------- MODULE MCSouthbridge ---------------------------
(* Calls of the driver: every protocol, to each slave that takes it and to *)
(* an address that nobody has.                                             *)
EXTENDS Southbridge

Call(prot, read, addr, cmd, data0, block) ==
  [prot |-> prot, read |-> read, addr |-> addr, cmd |-> cmd, data0 |-> data0, data1 |-> 2,
   block |-> block, en |-> read, ack |-> "read"]

EepromCalls ==
  {Call(p, TRUE, "eeprom", 3, 0, <<>>) : p \in {"BYTE_DATA", "WORD_DATA", "BLOCK_DATA"}}
  \union {Call("BLOCK_DATA", FALSE, "eeprom", 3, 3, <<2, 1>>),
          Call("BLOCK_DATA", FALSE, "eeprom", 3, 2, <<2, 1>>),
          Call("WORD_DATA", FALSE, "eeprom", 3, 1, <<>>),
          Call("BYTE_DATA", FALSE, "eeprom", 3, 3, <<>>),
          Call("BYTE", FALSE, "eeprom", 0, 0, <<>>), Call("BYTE", TRUE, "eeprom", 0, 0, <<>>)}

SmcCalls ==
  {Call("BYTE_DATA", FALSE, "smc", c, 1, <<>>) : c \in {ScratchReg, ResponseReg}}
  \union {Call("BYTE_DATA", FALSE, "smc", PowerReg, v, <<>>) : v \in {PowerReset, PowerCycle, PowerShutdown}}
  \union {Call("BYTE_DATA", TRUE, "smc", ScratchReg, 0, <<>>), Call("QUICK", TRUE, "smc", 0, 0, <<>>),
          Call("BYTE", TRUE, "smc", 0, 0, <<>>), Call("BYTE", FALSE, "smc", 0, 0, <<>>)}

OtherCalls ==
  {Call("QUICK", FALSE, "eeprom", 0, 0, <<>>)}
  \union {Call(p, TRUE, "nobody", 0, 0, <<>>) : p \in {"WORD_DATA", "BLOCK_DATA", "PROCESS_CALL"}}

\* Every call that reads, and so interrupts, is acknowledged both ways.
MCCalls ==
  LET calls == EepromCalls \union SmcCalls \union OtherCalls
  IN  calls \union {[c EXCEPT !.ack = "all"] : c \in {c \in calls : c.en}}
=============================================================================
