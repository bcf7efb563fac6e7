------------------------------- MODULE Smbus -------------------------------
(***************************************************************************)
(* The SMBus of the southbridge: the bus (hw/i2c/core.c), the protocol of  *)
(* its slaves (hw/i2c/smbus.c) and two of them, the EEPROM and the system  *)
(* management controller (SMC), a byte on the wire at a time.  The master  *)
(* commands of smbus.c are scripts of bus operations.                      *)
(*                                                                         *)
(* A byte is a number below Bytes and addresses the whole EEPROM (256 in   *)
(* the code); a block has at most MaxBlock bytes (32 in the code).         *)
(***************************************************************************)
EXTENDS Integers, Sequences

CONSTANTS Bytes, MaxBlock

ASSUME SizesAssumption ==
  /\ Bytes \in Nat /\ MaxBlock \in Nat
  /\ 1 <= MaxBlock /\ MaxBlock + 1 < Bytes

VARIABLES
  current_dev,   \* the slave that the bus is talking to, or "none"
  slave,         \* of every slave, its SMBusDevice
  eeprom,        \* data and offset
  smc,           \* scratch, watchdog (its timer is armed), and of the machine
                 \* reset_requested and power
  bus,           \* what is left of the master's command, and what it received
  faults         \* a slave met an operation that it did not expect

busVars == <<current_dev, slave, eeprom, smc, bus, faults>>

Byte == 0 .. Bytes - 1
Slaves == {"eeprom", "smc"}
Modes == {"IDLE", "WRITE_DATA", "RECV_BYTE", "READ_DATA", "DONE", "CONFUSED"}

\* Commands of the SMC, and values of its power register.
ScratchReg == 0
PowerReg == 1
ResponseReg == 2
PowerReset == 1
PowerCycle == 2
PowerShutdown == 3

IdleSlave == [mode |-> "IDLE", data_buf |-> <<>>, reads |-> 0, command |-> 0]

\* One bus operation.
Op(op, arg) == [op |-> op, arg |-> arg]

BusTypeOK ==
  /\ current_dev \in Slaves \union {"none"}
  /\ \A d \in Slaves : slave[d].mode \in Modes /\ slave[d].command \in Byte
  /\ eeprom.data \in [Byte -> Byte] /\ eeprom.offset \in Byte
  /\ smc.scratch \in Byte /\ smc.watchdog \in BOOLEAN /\ smc.reset_requested \in BOOLEAN
  /\ smc.power \in {"on", "shutdown", "off"}

\* Reset handlers have run once: the watchdog is armed.
BusInit ==
  /\ current_dev = "none"
  /\ slave = [d \in Slaves |-> IdleSlave]
  /\ eeprom = [data |-> [b \in Byte |-> 0], offset |-> 0]
  /\ smc = [scratch |-> 0, watchdog |-> TRUE, reset_requested |-> FALSE, power |-> "on"]
  /\ bus = [todo |-> <<>>, got |-> <<>>]
  /\ faults = FALSE

-----------------------------------------------------------------------------
(* The slaves' callbacks. *)

\* Mutant: a write stops at the end of the memory.
eeprom_write_data_NoWrap(e, cmd, buf) ==
  [e EXCEPT !.data = [b \in Byte |-> IF b >= cmd /\ b - cmd < Len(buf) THEN buf[b - cmd + 1] ELSE e.data[b]]]

\* A write goes on at the start of the memory.
eeprom_write_data(e, cmd, buf) ==
  [e EXCEPT !.data = [b \in Byte |-> LET i == ((b - cmd + Bytes) % Bytes) + 1 IN
                                     IF i <= Len(buf) THEN buf[i] ELSE e.data[b]]]

\* Mutant: the response leaves the watchdog running.
smc_write_data_NoStop(m, cmd, value) ==
  CASE cmd = PowerReg /\ value \in {PowerReset, PowerCycle} -> [m EXCEPT !.reset_requested = TRUE]
    [] cmd = PowerReg /\ value = PowerShutdown -> [m EXCEPT !.power = "shutdown"]
    [] cmd = ScratchReg -> [m EXCEPT !.scratch = value]
    [] OTHER -> m

\* smc_write_data and smc_write_command.  The commands that only store a value
\* (LED, fan, error code, audio clamping) are ScratchReg's kind; the one that
\* completes the response stops the watchdog.  A warm and a cold reboot both
\* request a reset.  Other values of the power register fail an assertion, and
\* are not written (see CallsAssumption).
smc_write_data(m, cmd, value) ==
  CASE cmd = PowerReg /\ value \in {PowerReset, PowerCycle} -> [m EXCEPT !.reset_requested = TRUE]
    [] cmd = PowerReg /\ value = PowerShutdown -> [m EXCEPT !.power = "shutdown"]
    [] cmd = ResponseReg -> [m EXCEPT !.watchdog = FALSE]
    [] cmd = ScratchReg -> [m EXCEPT !.scratch = value]
    [] OTHER -> m

smc_read_data(m, cmd) == IF cmd = ScratchReg THEN m.scratch ELSE 0

\* smbus_do_write(d), with buf in the slave's buffer.
DoWrite(d, buf) ==
  CASE d = "eeprom" /\ Len(buf) = 1 -> eeprom' = [eeprom EXCEPT !.offset = buf[1]] /\ UNCHANGED smc
    [] d = "eeprom" /\ Len(buf) > 1 -> eeprom' = eeprom_write_data(eeprom, buf[1], Tail(buf)) /\ UNCHANGED smc
    [] d = "smc" /\ Len(buf) > 1 -> smc' = smc_write_data(smc, buf[1], buf[2]) /\ UNCHANGED eeprom
    [] OTHER -> UNCHANGED <<eeprom, smc>>

\* The offset that a read starts at: an EEPROM's first read sets it.
ReadOffset(s) == IF s.mode = "READ_DATA" /\ s.reads = 0 THEN s.command ELSE eeprom.offset

\* The byte that slave d gives, and what giving it changes.
Given(d) ==
  IF d = "eeprom" THEN eeprom.data[ReadOffset(slave[d])]
  ELSE IF slave[d].mode = "READ_DATA" THEN smc_read_data(smc, slave[d].command) ELSE 0

Give(d) ==
  IF d = "eeprom" THEN eeprom' = [eeprom EXCEPT !.offset = (ReadOffset(slave[d]) + 1) % Bytes]
                  ELSE UNCHANGED eeprom

-----------------------------------------------------------------------------
(* The operations of the bus, on the slave's side: smbus_i2c_event,        *)
(* smbus_i2c_send and smbus_i2c_recv.  The SMC asserts that it is written  *)
(* and read one byte at a time.                                            *)

Becomes(d, s) == slave' = [slave EXCEPT ![d] = s]
Confused(d) == Becomes(d, [slave[d] EXCEPT !.mode = "CONFUSED"]) /\ faults' = TRUE
               /\ UNCHANGED <<eeprom, smc>>

StartSend(d) ==
  IF slave[d].mode = "IDLE"
    THEN Becomes(d, [slave[d] EXCEPT !.mode = "WRITE_DATA"]) /\ UNCHANGED <<eeprom, smc, faults>>
    ELSE Confused(d)

StartRecv(d) ==
  LET s == slave[d] IN
  CASE s.mode = "IDLE" ->
         Becomes(d, [s EXCEPT !.mode = "RECV_BYTE"]) /\ UNCHANGED <<eeprom, smc, faults>>
    [] s.mode = "WRITE_DATA" /\ s.data_buf # <<>> ->
         /\ IF Len(s.data_buf) > 1 THEN DoWrite(d, s.data_buf) ELSE UNCHANGED <<eeprom, smc>>
         /\ Becomes(d, [s EXCEPT !.mode = "READ_DATA", !.command = s.data_buf[1], !.data_buf = <<>>])
         /\ UNCHANGED faults
    [] OTHER -> Confused(d)

\* The command that a slave remembers is read in READ_DATA mode only, which
\* sets it: IdleSlave forgets it.
Finish(d) ==
  LET s == slave[d] IN
  /\ IF s.mode = "WRITE_DATA" THEN DoWrite(d, s.data_buf) ELSE UNCHANGED <<eeprom, smc>>
  /\ faults' = (faults \/ s.mode = "READ_DATA"
                       \/ (d = "smc" /\ s.mode = "WRITE_DATA" /\ Len(s.data_buf) > 2))
  /\ Becomes(d, IdleSlave)

Nack(d) ==
  IF slave[d].mode \in {"DONE", "READ_DATA"}
    THEN Becomes(d, [slave[d] EXCEPT !.mode = "DONE"]) /\ UNCHANGED <<eeprom, smc, faults>>
    ELSE Confused(d)

Send(d, byte) ==
  IF slave[d].mode = "WRITE_DATA"
    THEN Becomes(d, [slave[d] EXCEPT !.data_buf = Append(@, byte)]) /\ UNCHANGED <<eeprom, smc, faults>>
    ELSE faults' = TRUE /\ UNCHANGED <<slave, eeprom, smc>>

\* recv_byte ends the read, read_data counts on; anything else reads 0.
Recv(d) ==
  LET s == slave[d] IN
  CASE s.mode = "RECV_BYTE" -> Becomes(d, [s EXCEPT !.mode = "DONE"]) /\ Give(d) /\ UNCHANGED <<smc, faults>>
    [] s.mode = "READ_DATA" ->
         /\ Becomes(d, [s EXCEPT !.reads = @ + 1]) /\ Give(d) /\ UNCHANGED smc
         /\ faults' = (faults \/ (d = "smc" /\ s.reads > 0))
    [] OTHER -> Confused(d)

-----------------------------------------------------------------------------
(***************************************************************************)
(* The master: a command c is [prot, read, addr, cmd, data0, block], the   *)
(* host's registers when the cycle starts.  A word write sends data0 only, *)
(* as a 16-bit value.                                                      *)
(***************************************************************************)
Sends(bytes) == [i \in 1 .. Len(bytes) |-> Op("send", bytes[i])]
Written(bytes) == <<Op("start", FALSE)>> \o Sends(bytes) \o <<Op("end", 0)>>
\* Mutant: a read is ended without a NACK.
Asked_NoNack(cmd, recvs) ==
  <<Op("start", FALSE), Op("send", cmd), Op("start", TRUE)>> \o recvs \o <<Op("end", 0)>>

Asked(cmd, recvs) ==
  <<Op("start", FALSE), Op("send", cmd), Op("start", TRUE)>> \o recvs \o <<Op("nack", 0), Op("end", 0)>>

\* smbus_write_block clips its length.
Clipped(n) == IF n > MaxBlock THEN MaxBlock ELSE n

Script(c) ==
  CASE c.prot = "QUICK" -> <<Op("start", c.read), Op("end", 0)>>
    [] c.prot = "BYTE" /\ c.read -> <<Op("start", TRUE), Op("recv", 0), Op("nack", 0), Op("end", 0)>>
    [] c.prot = "BYTE" /\ ~c.read -> Written(<<c.cmd>>)
    [] c.prot = "BYTE_DATA" /\ c.read -> Asked(c.cmd, <<Op("recv", 0)>>)
    [] c.prot = "BYTE_DATA" /\ ~c.read -> Written(<<c.cmd, c.data0>>)
    [] c.prot = "WORD_DATA" /\ c.read -> Asked(c.cmd, <<Op("recv", 0), Op("recv", 0)>>)
    [] c.prot = "WORD_DATA" /\ ~c.read -> Written(<<c.cmd, c.data0, 0>>)
    [] c.prot = "BLOCK_DATA" /\ c.read -> Asked(c.cmd, <<Op("length", 0)>>)
    [] c.prot = "BLOCK_DATA" /\ ~c.read ->
         Written(<<c.cmd, Clipped(c.data0)>> \o SubSeq(c.block, 1, Clipped(c.data0)))

\* smbus_read_block takes its first byte for the number of those that follow.
\* Without a slave it reads -1.
Follow(n) == IF n > MaxBlock THEN <<>> ELSE [i \in 1 .. n |-> Op("recv", 0)]

\* What the bus does while nothing has answered its address.
Unanswered(op) ==
  /\ bus' = [todo |-> Tail(bus.todo),
             got |-> IF op \in {"recv", "length"} THEN Append(bus.got, Bytes - 1) ELSE bus.got]
  /\ UNCHANGED <<current_dev, slave, eeprom, smc, faults>>

Answered(d, o) ==
  /\ CASE o.op = "start" -> IF o.arg THEN StartRecv(d) ELSE StartSend(d)
       [] o.op = "send" -> Send(d, o.arg)
       [] o.op \in {"recv", "length"} -> Recv(d)
       [] o.op = "nack" -> Nack(d)
       [] o.op = "end" -> Finish(d)
  /\ current_dev' = IF o.op = "end" THEN "none" ELSE d
  /\ bus' = [todo |-> (IF o.op = "length" THEN Follow(Given(d)) ELSE <<>>) \o Tail(bus.todo),
             got |-> IF o.op \in {"recv", "length"} THEN Append(bus.got, Given(d)) ELSE bus.got]

\* The next operation of the command, to slave addr if it is a start.
BusStep(addr) ==
  LET o == Head(bus.todo)
      d == IF o.op = "start" /\ addr \in Slaves THEN addr ELSE current_dev
  IN  /\ bus.todo # <<>>
      /\ IF d = "none" THEN Unanswered(o.op) ELSE Answered(d, o)
=============================================================================
