---------------------------- MODULE Southbridge ----------------------------
(***************************************************************************)
(* The southbridge around the SMBus: the AMD756 host controller            *)
(* (amd_smbus.c), the SMC's watchdog, and the reset and the shutdown of    *)
(* the machine (vl.c); with a guest that has a driver for the controller   *)
(* and may be reset at any point of it.                                    *)
(*                                                                         *)
(* A port write runs under the iothread lock, a bus cycle included, so     *)
(* timers and resets happen between the driver's steps.  GE_ABORT and the  *)
(* registers that are only read back are left out.                         *)
(***************************************************************************)
EXTENDS Smbus

CONSTANTS
  Calls,      \* the commands that the driver issues (see Smbus), with en and ack
  NoCall

Protocols == {"QUICK", "BYTE", "BYTE_DATA", "WORD_DATA", "PROCESS_CALL", "BLOCK_DATA"}

\* The statuses of GS_CLEAR_STS that a cycle sets.
Statuses == {"HCYC", "PRERR"}

\* The driver fills the block buffer with what it sends, and acknowledges with
\* the status that it has read or with all of GS_CLEAR_STS.  The SMC is only
\* written and read a byte at a time, and its power register is only given
\* values that it knows: the code asserts both.
ASSUME CallsAssumption ==
  \A c \in Calls :
    /\ c \in [prot : Protocols, read : BOOLEAN, addr : STRING, cmd : Byte, data0 : Byte,
              data1 : Byte, block : Seq(Byte), en : BOOLEAN, ack : {"read", "all"}]
    /\ Len(c.block) <= MaxBlock
    /\ c.prot = "BLOCK_DATA" /\ ~c.read => Clipped(c.data0) <= Len(c.block)
    /\ c.addr = "smc" =>
         /\ c.prot \in {"QUICK", "BYTE", "BYTE_DATA"}
         /\ c.prot = "BYTE_DATA" /\ ~c.read /\ c.cmd = PowerReg =>
              c.data0 \in {PowerReset, PowerCycle, PowerShutdown}

VARIABLES
  smb,        \* the controller: [ctl, stat, data0, data1, data, index]
  line,       \* the level of its interrupt
  over,       \* the last acknowledgement named a status that was not set
  drv,        \* the driver: [pc, call, result]
  before,     \* the EEPROM when the call started
  answered    \* the guest has answered the SMC since the last reset

hostVars == <<smb, line, over, drv, before, answered>>
vars == <<busVars, hostVars>>

TypeOK ==
  /\ BusTypeOK
  /\ smb.ctl \in BOOLEAN /\ smb.stat \subseteq Statuses
  /\ {smb.data0, smb.data1} \subseteq Byte
  /\ smb.data \in [1 .. MaxBlock -> Byte] /\ smb.index \in 0 .. MaxBlock - 1
  /\ line \in BOOLEAN /\ over \in BOOLEAN
  /\ drv.pc \in {"idle", "filled", "bus", "done", "acked", "fetched"}
  /\ drv.call \in Calls \union {NoCall}
  /\ before \in [Byte -> Byte] /\ answered \in BOOLEAN

NoImage == [b \in Byte |-> 0]

Init ==
  /\ BusInit
  /\ smb = [ctl |-> FALSE, stat |-> {}, data0 |-> 0, data1 |-> 0,
            data |-> [i \in 1 .. MaxBlock |-> 0], index |-> 0]
  /\ line = FALSE /\ over = FALSE
  /\ drv = [pc |-> "idle", call |-> NoCall, result |-> <<>>]
  /\ before = NoImage /\ answered = FALSE

-----------------------------------------------------------------------------
\* Mutants: any acknowledgement counts as a new status; the block buffer is
\* not rewound; its index wraps one byte late.
Raises_Any(val) == smb.ctl /\ val # {}
StatusWritten_KeepsIndex(s, val) == [s EXCEPT !.stat = IF val # {} THEN {} ELSE {"HCYC"}]
Wrap_OffByOne(i) == i % (MaxBlock + 1)

\* A write of val to GLOBAL_STATUS: raises the line if it names a status that
\* is not set, lowers it otherwise, and rewinds the block buffer.
Raises(val) == smb.ctl /\ val \ smb.stat # {}
StatusWritten(s, val) == [s EXCEPT !.stat = IF val # {} THEN {} ELSE {"HCYC"}, !.index = 0]

\* The block buffer after writes to HOST_BLOCK_DATA from index on, and what
\* reads of it give.
Wrap(i) == i % MaxBlock
Stored(s, bytes) ==
  [s EXCEPT !.data = [i \in 1 .. MaxBlock |->
                        LET k == Wrap(i - 1 - s.index + MaxBlock) + 1
                        IN  IF k <= Len(bytes) THEN bytes[k] ELSE s.data[i]],
            !.index = Wrap(s.index + Len(bytes))]
Fetched(s, n) == [k \in 1 .. n |-> s.data[Wrap(s.index + k - 1) + 1]]

-----------------------------------------------------------------------------
(* The driver. *)
Goto(l) == drv' = [drv EXCEPT !.pc = l]

\* It stops the controller, clears the status, and fills the registers.
Prepare(c) ==
  /\ drv.pc = "idle" /\ smc.power # "off"
  /\ smb' = Stored(StatusWritten([smb EXCEPT !.ctl = FALSE, !.data0 = c.data0, !.data1 = c.data1], {"HCYC"}),
                   c.block)
  /\ line' = FALSE /\ over' = FALSE
  /\ drv' = [pc |-> "filled", call |-> c, result |-> <<>>]
  /\ UNCHANGED <<busVars, before, answered>>

\* It writes GLOBAL_ENABLE, and amd756_smb_transaction begins...
Start ==
  /\ drv.pc = "filled" /\ Goto("bus")
  /\ smb' = [smb EXCEPT !.ctl = drv.call.en]
  /\ bus' = [todo |-> IF drv.call.prot = "PROCESS_CALL" THEN <<>>
                      ELSE Script([drv.call EXCEPT !.block = smb.data]),
             got |-> <<>>]
  /\ before' = eeprom.data
  /\ UNCHANGED <<current_dev, slave, eeprom, smc, faults, line, over, answered>>

OnBus == drv.pc = "bus" /\ BusStep(drv.call.addr) /\ UNCHANGED hostVars

\* ...and ends: the registers that a read fills, then the status and the line.
Received(s, c, got) ==
  IF ~c.read \/ c.prot \in {"QUICK", "PROCESS_CALL"} THEN s
  ELSE IF c.prot = "WORD_DATA" THEN [s EXCEPT !.data0 = got[1], !.data1 = got[2]]
  ELSE IF c.prot = "BLOCK_DATA"
    THEN [s EXCEPT !.data0 = IF c.addr \in Slaves /\ got[1] > MaxBlock THEN 0 ELSE got[1],
                   !.data = [i \in 1 .. MaxBlock |-> IF i < Len(got) THEN got[i + 1] ELSE @[i]]]
  ELSE [s EXCEPT !.data0 = got[1]]

Complete ==
  LET c == drv.call
      s == Received(smb, c, bus.got)
  IN  /\ drv.pc = "bus" /\ bus.todo = <<>> /\ Goto("done")
      /\ smb' = [s EXCEPT !.stat = @ \union {IF c.prot = "PROCESS_CALL" THEN "PRERR" ELSE "HCYC"}]
      /\ line' = (smb.ctl \/ line)
      /\ answered' = (answered \/ (c.addr = "smc" /\ c.prot = "BYTE_DATA" /\ ~c.read /\ c.cmd = ResponseReg))
      /\ bus' = [bus EXCEPT !.got = <<>>]
      /\ UNCHANGED <<current_dev, slave, eeprom, smc, faults, over, before>>

\* Polling or interrupted, it acknowledges.
Ack ==
  LET val == IF drv.call.ack = "all" THEN Statuses ELSE smb.stat IN
  /\ drv.pc = "done" /\ Goto("acked")
  /\ smb' = StatusWritten(smb, val)
  /\ line' = Raises(val)
  /\ over' = (val \ smb.stat # {})
  /\ UNCHANGED <<busVars, before, answered>>

\* It reads the data registers, and as many bytes of a block as there are.
Fetch ==
  LET n == IF drv.call.prot = "BLOCK_DATA" /\ drv.call.read THEN Clipped(smb.data0) ELSE 0 IN
  /\ drv.pc = "acked"
  /\ drv' = [drv EXCEPT !.pc = "fetched", !.result = <<smb.data0, smb.data1>> \o Fetched(smb, n)]
  /\ smb' = [smb EXCEPT !.index = Wrap(@ + n)]
  /\ UNCHANGED <<busVars, line, over, before, answered>>

Return ==
  /\ drv.pc = "fetched"
  /\ drv' = [pc |-> "idle", call |-> NoCall, result |-> <<>>]
  /\ before' = NoImage
  /\ UNCHANGED <<busVars, smb, line, over, answered>>

-----------------------------------------------------------------------------
(* The rest of the machine. *)

\* smc_watchdog_timer_cb
Expire ==
  /\ drv.pc # "bus" /\ smc.watchdog /\ smc.power # "off"
  /\ smc' = [smc EXCEPT !.watchdog = FALSE, !.reset_requested = TRUE]
  /\ UNCHANGED <<current_dev, slave, eeprom, bus, faults, hostVars>>

\* Mutant: the reset handler of the SMC does not arm the watchdog.
Reset_NoWatchdog ==
  /\ drv.pc # "bus" /\ smc.reset_requested /\ smc.power = "on"
  /\ smc' = [smc EXCEPT !.reset_requested = FALSE]
  /\ drv' = [pc |-> "idle", call |-> NoCall, result |-> <<>>]
  /\ answered' = FALSE /\ before' = NoImage
  /\ UNCHANGED <<current_dev, slave, eeprom, bus, faults, smb, line, over>>

\* The main loop resets the machine: the guest starts over and the SMC arms
\* its watchdog; the controller and the slaves have no reset handler.  It
\* looks for a shutdown first.
Reset ==
  /\ drv.pc # "bus" /\ smc.reset_requested /\ smc.power = "on"
  /\ smc' = [smc EXCEPT !.watchdog = TRUE, !.reset_requested = FALSE]
  /\ drv' = [pc |-> "idle", call |-> NoCall, result |-> <<>>]
  /\ answered' = FALSE /\ before' = NoImage
  /\ UNCHANGED <<current_dev, slave, eeprom, bus, faults, smb, line, over>>

\* The main loop ends at a request to shut down.
Shutdown ==
  /\ drv.pc # "bus" /\ smc.power = "shutdown"
  /\ smc' = [smc EXCEPT !.power = "off"]
  /\ drv' = [pc |-> "idle", call |-> NoCall, result |-> <<>>]
  /\ before' = NoImage
  /\ UNCHANGED <<current_dev, slave, eeprom, bus, faults, smb, line, over, answered>>

Off == smc.power = "off" /\ UNCHANGED vars

Next ==
  \/ \E c \in Calls : Prepare(c)
  \/ Start \/ OnBus \/ Complete \/ Ack \/ Fetch \/ Return
  \/ Expire \/ Reset \/ Shutdown \/ Off

Spec == Init /\ [][Next]_vars

\* The bus cycle is a loop of the VCPU thread.  The timer and the requests are
\* the main loop's: when it asks for the iothread lock, the VCPU thread that
\* has it stops for it after the port access (qemu_mutex_lock_iothread).
FairSpec ==
  /\ Spec /\ WF_vars(OnBus) /\ WF_vars(Complete)
  /\ SF_vars(Expire) /\ SF_vars(Reset) /\ SF_vars(Shutdown)

-----------------------------------------------------------------------------
\* Whatever the driver asks of the EEPROM or of nobody, and for what the SMC
\* takes (CallsAssumption), each slave is waiting for a start when the command
\* is over, none was ever confused, the SMC's asserts on lengths held, and
\* data_buf's "command + len + 32 bytes of data" was enough.
SlavesStayReady ==
  /\ ~faults
  /\ \A d \in Slaves : Len(slave[d].data_buf) <= MaxBlock + 2
  /\ bus.todo = <<>> => current_dev = "none" /\ \A d \in Slaves :
       slave[d].mode = "IDLE" /\ slave[d].data_buf = <<>> /\ slave[d].reads = 0

\* The reference: what a command does to the EEPROM's contents, and returns.
\* A word is written with 0 for its second byte, whatever HOST_DATA + 1 holds:
\* the controller passes smb_data0 for the 16-bit value.
Cell(a) == before[a % Bytes]
WrittenBytes(c) ==
  IF c.addr # "eeprom" \/ c.read \/ c.prot \in {"QUICK", "BYTE", "PROCESS_CALL"} THEN <<>>
  ELSE CASE c.prot = "BYTE_DATA" -> <<c.data0>>
         [] c.prot = "WORD_DATA" -> <<c.data0, 0>>
         [] c.prot = "BLOCK_DATA" -> <<Clipped(c.data0)>> \o SubSeq(c.block, 1, Clipped(c.data0))
WrittenTo(c) ==
  [b \in Byte |-> IF \E i \in 1 .. Len(WrittenBytes(c)) : b = (c.cmd + i - 1) % Bytes
                    THEN WrittenBytes(c)[CHOOSE i \in 1 .. Len(WrittenBytes(c)) : b = (c.cmd + i - 1) % Bytes]
                    ELSE before[b]]

\* The EEPROM holds what the calls wrote, and nothing else changes it.
WritesLand == drv.pc \in {"done", "acked", "fetched"} => eeprom.data = WrittenTo(drv.call)

\* A read returns what is stored: a byte, a word across the end of the
\* memory, or the block that the first byte gives the length of; even if the
\* machine was reset in the middle of an earlier block transfer.
ReadsReturn ==
  LET c == drv.call
      n == Cell(c.cmd)
  IN  drv.pc = "fetched" /\ c.addr = "eeprom" /\ c.read =>
        /\ c.prot \in {"BYTE_DATA", "WORD_DATA"} => drv.result[1] = Cell(c.cmd)
        /\ c.prot = "WORD_DATA" => drv.result[2] = Cell(c.cmd + 1)
        /\ c.prot = "BLOCK_DATA" => Tail(Tail(drv.result)) =
             [i \in 1 .. (IF n > MaxBlock THEN 0 ELSE n) |-> Cell(c.cmd + i)]

\* The interrupt of a finished cycle is up until the driver acknowledges it, a
\* reset of the guest in between included; and with no status set it is up only
\* since an acknowledgement that named a status that was not set, which raises
\* it and clears every status.
IrqHasCause ==
  /\ smb.ctl /\ smb.stat # {} => line
  /\ line => smb.ctl /\ (smb.stat # {} \/ over)

\* The machine is reset only on request of the guest or by the watchdog of a
\* boot that has not answered.
ResetIsEarned ==
  [][smc'.reset_requested /\ ~smc.reset_requested =>
       \/ ~answered
       \/ drv.pc = "bus" /\ drv.call.addr = "smc" /\ drv.call.cmd = PowerReg]_vars

\* A guest that never answers the SMC is reset again and again, unless it has
\* the machine shut down.
SilentGuestsReboot == <>[](~answered) => []<><<Reset>>_vars \/ <>(smc.power = "off")
=============================================================================
