-------------------------- MODULE SouthbridgeBus --------------------------
(* The commands on the SMBus, operation by operation, for every set of      *)
(* calls and every contents of the EEPROM.                                  *)
EXTENDS Southbridge, SequenceTheorems, TLAPS

(***************************************************************************)
(* The commands.  A command in progress is in one of a few phases, given   *)
(* by what is left of its script: what the addressed slave has stored and  *)
(* what the master has received are then known.                            *)
(***************************************************************************)
Asking == {"BYTE_DATA", "WORD_DATA", "BLOCK_DATA"}

\* The bytes after the command byte that a write sends, and all that it sends.
Payload(c) ==
  CASE c.prot = "BYTE_DATA" -> <<c.data0>>
    [] c.prot = "WORD_DATA" -> <<c.data0, 0>>
    [] c.prot = "BLOCK_DATA" -> <<Clipped(c.data0)>> \o SubSeq(c.block, 1, Clipped(c.data0))
    [] OTHER -> <<>>
ToSend(c) == IF c.prot = "QUICK" THEN <<>> ELSE <<c.cmd>> \o Payload(c)
Unsent(c, k) == SubSeq(ToSend(c), k + 1, Len(ToSend(c)))

\* The ends of scripts.
Recvs(m) == [i \in 1 .. m |-> Op("recv", 0)]
End == <<Op("end", 0)>>
NackEnd == <<Op("nack", 0)>> \o End
AskOps(c) ==
  CASE c.prot = "BYTE_DATA" -> Recvs(1)
    [] c.prot = "WORD_DATA" -> Recvs(2)
    [] c.prot = "BLOCK_DATA" -> <<Op("length", 0)>>
Turn(c) == <<Op("start", TRUE)>> \o (AskOps(c) \o NackEnd)

AllIdle == current_dev = "none" /\ slave = [d \in Slaves |-> IdleSlave]

\* The bus talks to the slave of the command, if there is one.
Talking(mode, buf, reads, command) ==
  IF drv.call.addr \in Slaves
    THEN /\ current_dev = drv.call.addr
         /\ slave = [d \in Slaves |->
              IF d = current_dev
                THEN [mode |-> mode, data_buf |-> buf, reads |-> reads, command |-> command]
                ELSE IdleSlave]
    ELSE AllIdle

\* How many bytes a read receives, and which.
Total(c) ==
  IF c.prot = "WORD_DATA" THEN 2
  ELSE IF c.prot = "BLOCK_DATA" /\ c.addr = "eeprom" /\ Cell(c.cmd) <= MaxBlock THEN 1 + Cell(c.cmd)
  ELSE 1
GotRight(c) ==
  /\ bus.got \in Seq(Byte)
  /\ c.addr = "eeprom" /\ c.prot \in Asking => \A i \in 1 .. Len(bus.got) : bus.got[i] = Cell(c.cmd + i - 1)
GotAll(c) ==
  c.read /\ c.prot \notin {"QUICK", "PROCESS_CALL"} => GotRight(c) /\ Len(bus.got) = Total(c)

Writes(c) == ~c.read /\ c.prot # "PROCESS_CALL"
Asks(c) == c.read /\ c.prot \in Asking

WriteStart(c) == Writes(c) /\ AllIdle /\ bus.todo = Written(ToSend(c))
Sending(c, k) == Writes(c) /\ Talking("WRITE_DATA", SubSeq(ToSend(c), 1, k), 0, 0)
                           /\ bus.todo = Sends(Unsent(c, k)) \o End
QuickStart(c) == c.read /\ c.prot = "QUICK" /\ AllIdle /\ bus.todo = <<Op("start", TRUE)>> \o End
ByteStart(c) == c.read /\ c.prot = "BYTE" /\ AllIdle
                       /\ bus.todo = <<Op("start", TRUE)>> \o (Recvs(1) \o NackEnd)
ByteRecv(c) == c.read /\ c.prot = "BYTE" /\ Talking("RECV_BYTE", <<>>, 0, 0)
                      /\ bus.todo = Recvs(1) \o NackEnd
ByteNack(c) == c.read /\ c.prot = "BYTE" /\ Talking("DONE", <<>>, 0, 0) /\ bus.todo = NackEnd
AskStart(c) == Asks(c) /\ AllIdle
                       /\ bus.todo = <<Op("start", FALSE)>> \o (<<Op("send", c.cmd)>> \o Turn(c))
AskSend(c) == Asks(c) /\ Talking("WRITE_DATA", <<>>, 0, 0) /\ bus.todo = <<Op("send", c.cmd)>> \o Turn(c)
AskTurn(c) == Asks(c) /\ Talking("WRITE_DATA", <<c.cmd>>, 0, 0) /\ bus.todo = Turn(c)
AskLength(c) == Asks(c) /\ c.prot = "BLOCK_DATA" /\ Talking("READ_DATA", <<>>, 0, c.cmd)
                        /\ bus.todo = <<Op("length", 0)>> \o NackEnd
Reading(c) ==
  /\ Asks(c) /\ Talking("READ_DATA", <<>>, Len(bus.got), c.cmd)
  /\ GotRight(c) /\ Len(bus.got) <= Total(c)
  /\ bus.todo = Recvs(Total(c) - Len(bus.got)) \o NackEnd
  /\ c.addr = "eeprom" /\ bus.got # <<>> => eeprom.offset = (c.cmd + Len(bus.got)) % Bytes
Ending(c) ==
  /\ c.read /\ GotAll(c) /\ bus.todo = End
  /\ \E mode \in {"RECV_BYTE", "DONE"}, n \in 0 .. MaxBlock + 1, command \in Byte :
       Talking(mode, <<>>, n, command)
Over(c) == AllIdle /\ bus.todo = <<>> /\ GotAll(c)

\* The command has done its work.
Landed(c) ==
  /\ eeprom.data = WrittenTo(c)
  /\ c.addr = "smc" /\ c.prot = "BYTE_DATA" /\ ~c.read /\ c.cmd = ResponseReg => smc.watchdog = FALSE

Underway(c) ==
  /\ eeprom.data = before
  /\ \/ /\ bus.got = <<>>
        /\ \/ WriteStart(c) \/ QuickStart(c) \/ ByteStart(c) \/ ByteRecv(c)
           \/ AskStart(c) \/ AskSend(c) \/ AskTurn(c) \/ AskLength(c)
           \/ \E k \in 0 .. Len(ToSend(c)) : Sending(c, k)
     \/ ByteNack(c) /\ GotAll(c)
     \/ Reading(c)
     \/ Ending(c)

\* The registers hold what the command read.
Delivered(c) ==
  c.addr = "eeprom" /\ c.read =>
    /\ c.prot \in {"BYTE_DATA", "WORD_DATA"} => smb.data0 = Cell(c.cmd)
    /\ c.prot = "WORD_DATA" => smb.data1 = Cell(c.cmd + 1)
    /\ c.prot = "BLOCK_DATA" =>
         /\ smb.data0 = (IF Cell(c.cmd) > MaxBlock THEN 0 ELSE Cell(c.cmd))
         /\ \A i \in 1 .. smb.data0 : smb.data[i] = Cell(c.cmd + i)

SmcTypes == [scratch : Byte, watchdog : BOOLEAN, reset_requested : BOOLEAN, power : {"on", "shutdown", "off"}]

HostTypes ==
  /\ smb \in [ctl : BOOLEAN, stat : SUBSET Statuses, data0 : Byte, data1 : Byte,
              data : [1 .. MaxBlock -> Byte], index : 0 .. MaxBlock - 1]
  /\ eeprom \in [data : [Byte -> Byte], offset : Byte]
  /\ smc \in SmcTypes
  /\ drv = [pc |-> drv.pc, call |-> drv.call, result |-> drv.result]
  /\ drv.pc \in {"idle", "filled", "bus", "done", "acked", "fetched"}
  /\ IF drv.pc = "idle" THEN drv.call = NoCall ELSE drv.call \in Calls
  /\ before \in [Byte -> Byte] /\ answered \in BOOLEAN
  /\ faults = FALSE

CommandInv ==
  /\ drv.pc # "bus" => AllIdle /\ bus = [todo |-> <<>>, got |-> <<>>]
  /\ drv.pc = "bus" => bus = [todo |-> bus.todo, got |-> bus.got]
                       /\ (Underway(drv.call) \/ (Over(drv.call) /\ Landed(drv.call)))
  /\ drv.pc = "filled" => \A i \in 1 .. Len(drv.call.block) : smb.data[i] = drv.call.block[i]
  /\ smc.watchdog = TRUE => answered = FALSE
  /\ drv.pc \in {"done", "acked"} => Delivered(drv.call)
  /\ drv.pc = "acked" => smb.index = 0

BusInv == HostTypes /\ CommandInv /\ WritesLand /\ ReadsReturn
-----------------------------------------------------------------------------
(* Addresses wrap around once.                                             *)

LEMMA ModSmall == ASSUME NEW N \in Nat, NEW x \in Nat, x < N PROVE x % N = x
OBVIOUS

LEMMA ModWrap == ASSUME NEW N \in Nat, NEW x \in Nat, N <= x, x < N + N PROVE x % N = x - N
OBVIOUS

LEMMA ModNext ==
  ASSUME NEW N \in Nat, NEW x \in Nat, x + 1 < N + N
  PROVE  ((x % N) + 1) % N = (x + 1) % N
  <1>1. CASE x + 1 < N
    BY <1>1, ModSmall
  <1>2. CASE x + 1 = N
    BY <1>2, ModSmall
  <1>3. CASE N < x + 1
    <2> DEFINE y == x + 1
    <2>1. N <= x /\ y \in Nat /\ N <= y /\ y < N + N /\ x - N \in Nat /\ x - N + 1 \in Nat /\ x - N + 1 < N
      BY <1>3
    <2>2. x % N = x - N
      BY <2>1, ModWrap
    <2> HIDE DEF y
    <2>3. y % N = y - N
      BY <2>1, ModWrap, Zenon
    <2>4. (x - N + 1) % N = x - N + 1
      BY <2>1, ModSmall, Zenon
    <2> QED BY <2>1, <2>2, <2>3, <2>4 DEF y
  <1> QED BY <1>1, <1>2, <1>3

LEMMA Address ==
  ASSUME NEW cmd \in Byte, NEW n \in 0 .. MaxBlock
  PROVE  /\ (cmd + n) % Bytes \in Byte /\ (cmd + (n + 1)) % Bytes \in Byte
         /\ n = 0 => (cmd + n) % Bytes = cmd
         /\ (((cmd + n) % Bytes) + 1) % Bytes = (cmd + (n + 1)) % Bytes
  <1> DEFINE x == cmd + n
  <1>1. /\ x \in Nat /\ x + 1 < Bytes + Bytes /\ Bytes \in Nat /\ Bytes > 0
        /\ (n = 0 => x = cmd /\ x < Bytes) /\ cmd + (n + 1) = x + 1
    BY SizesAssumption DEF Byte
  <1> HIDE DEF x
  <1>2. x % Bytes \in Byte /\ (x + 1) % Bytes \in Byte
    BY <1>1 DEF Byte
  <1>3. x < Bytes => x % Bytes = x
    BY <1>1, ModSmall, Zenon
  <1>4. ((x % Bytes) + 1) % Bytes = (x + 1) % Bytes
    BY <1>1, ModNext, Zenon
  <1> QED BY <1>1, <1>2, <1>3, <1>4, Zenon DEF x

LEMMA ByteTypes ==
  /\ 0 \in Byte /\ Bytes - 1 \in Byte /\ MaxBlock \in Byte /\ Byte \subseteq Nat
  /\ \A n \in Nat : n <= MaxBlock + 1 => n \in Byte
  /\ \A n \in Byte : Clipped(n) \in Byte /\ Clipped(n) <= MaxBlock
  /\ \A n \in Int : n % Bytes \in Byte
BY SizesAssumption DEF Byte, Clipped

(* Scripts are sequences of operations, taken from the front.              *)

Ops == [op : {"start", "send", "recv", "length", "nack", "end"}, arg : Byte \union BOOLEAN]

LEMMA Cons ==
  ASSUME NEW T, NEW x \in T, NEW s \in Seq(T)
  PROVE  /\ <<x>> \o s \in Seq(T) /\ <<x>> \o s # <<>>
         /\ Head(<<x>> \o s) = x /\ Tail(<<x>> \o s) = s
  <1>1. <<x>> \o s \in Seq(T) /\ Len(<<x>> \o s) = 1 + Len(s) /\ Head(<<x>> \o s) = x
    OBVIOUS
  <1>2. Tail(<<x>> \o s) = s
    BY <1>1, ConcatProperties, SeqEqual, HeadTailProperties
  <1> QED BY <1>1, <1>2

LEMMA OpTypes ==
  /\ \A b \in BOOLEAN : Op("start", b) \in Ops
  /\ \A b \in Byte : Op("send", b) \in Ops
  /\ Op("recv", 0) \in Ops /\ Op("length", 0) \in Ops /\ Op("nack", 0) \in Ops /\ Op("end", 0) \in Ops
  /\ End \in Seq(Ops) /\ NackEnd \in Seq(Ops)
  /\ \A m \in Nat : Recvs(m) \in Seq(Ops) /\ Len(Recvs(m)) = m
  /\ \A s \in Seq(Byte) : Sends(s) \in Seq(Ops) /\ Len(Sends(s)) = Len(s)
  <1>1. /\ \A b \in BOOLEAN : Op("start", b) \in Ops
        /\ \A b \in Byte : Op("send", b) \in Ops
        /\ Op("recv", 0) \in Ops /\ Op("length", 0) \in Ops /\ Op("nack", 0) \in Ops /\ Op("end", 0) \in Ops
    BY ByteTypes, Zenon DEF Op, Ops
  <1>2. End \in Seq(Ops) /\ NackEnd \in Seq(Ops)
    BY <1>1 DEF End, NackEnd
  <1>3. ASSUME NEW m \in Nat PROVE Recvs(m) \in Seq(Ops) /\ Len(Recvs(m)) = m
    BY <1>1 DEF Recvs
  <1>4. ASSUME NEW s \in Seq(Byte) PROVE Sends(s) \in Seq(Ops) /\ Len(Sends(s)) = Len(s)
    <2>1. \A i \in 1 .. Len(s) : Op("send", s[i]) \in Ops
      BY <1>1
    <2> QED BY <2>1 DEF Sends
  <1> QED BY <1>1, <1>2, <1>3, <1>4, Zenon

LEMMA RecvsCons ==
  ASSUME NEW m \in Nat \ {0}, NEW s \in Seq(Ops)
  PROVE  /\ Recvs(m) \o s = <<Op("recv", 0)>> \o (Recvs(m - 1) \o s)
         /\ Recvs(m - 1) \o s \in Seq(Ops)
  <1>1. Recvs(m) = <<Op("recv", 0)>> \o Recvs(m - 1)
    <2>1. /\ <<Op("recv", 0)>> \in Seq(Ops) /\ Recvs(m - 1) \in Seq(Ops) /\ Len(Recvs(m - 1)) = m - 1
          /\ Recvs(m) \in Seq(Ops) /\ Len(Recvs(m)) = m
      BY OpTypes
    <2>2. \A i \in 1 .. m : Recvs(m)[i] = (<<Op("recv", 0)>> \o Recvs(m - 1))[i]
      BY <2>1, ConcatProperties DEF Recvs
    <2> QED BY <2>1, <2>2, SeqEqual, ConcatProperties
  <1>2. <<Op("recv", 0)>> \in Seq(Ops) /\ Recvs(m - 1) \in Seq(Ops)
    BY OpTypes
  <1> QED BY <1>1, <1>2, ConcatAssociative, ConcatProperties

LEMMA RecvsNone == ASSUME NEW s \in Seq(Ops) PROVE Recvs(0) \o s = s
  <1>1. Recvs(0) = <<>>
    BY DEF Recvs
  <1> QED BY <1>1

LEMMA SendsCons ==
  ASSUME NEW r \in Seq(Byte), r # <<>>, NEW s \in Seq(Ops)
  PROVE  /\ Sends(r) \o s = <<Op("send", Head(r))>> \o (Sends(Tail(r)) \o s)
         /\ Sends(Tail(r)) \o s \in Seq(Ops)
  <1> DEFINE h == Op("send", Head(r))
             t == Tail(r)
  <1>1. Head(r) \in Byte /\ t \in Seq(Byte) /\ Len(t) = Len(r) - 1 /\ Head(r) = r[1]
    BY HeadTailProperties
  <1>2. h \in Ops /\ \A i \in 1 .. Len(r) : Op("send", r[i]) = IF i = 1 THEN h ELSE Op("send", t[i - 1])
    <2>1. h \in Ops
      BY <1>1, OpTypes, Zenon
    <2>2. \A i \in 1 .. Len(r) : i # 1 => t[i - 1] = r[i]
      BY <1>1, HeadTailProperties
    <2> QED BY <1>1, <2>1, <2>2, Zenon
  <1> HIDE DEF h, t
  <1>3. /\ Sends(t) \in Seq(Ops) /\ Len(Sends(t)) = Len(r) - 1
        /\ Sends(r) \in Seq(Ops) /\ Len(Sends(r)) = Len(r)
    BY <1>1, OpTypes, Zenon
  <1>4. <<h>> \in Seq(Ops) /\ <<h>> \o Sends(t) \in Seq(Ops) /\ Len(<<h>> \o Sends(t)) = Len(r)
    BY <1>2, <1>3
  <1>5. \A i \in 1 .. Len(r) : Sends(r)[i] = (<<h>> \o Sends(t))[i]
    <2> TAKE i \in 1 .. Len(r)
    <2>1. (<<h>> \o Sends(t))[i] = IF i = 1 THEN h ELSE Sends(t)[i - 1]
      BY <1>3, <1>4
    <2>2. i # 1 => Sends(t)[i - 1] = Op("send", t[i - 1])
      BY <1>1 DEF Sends
    <2> QED BY <1>2, <2>1, <2>2, Zenon DEF Sends
  <1>6. Sends(r) = <<h>> \o Sends(t)
    BY <1>3, <1>4, <1>5, SeqEqual, Zenon
  <1> QED BY <1>3, <1>4, <1>6, ConcatAssociative, ConcatProperties DEF h, t
-----------------------------------------------------------------------------
(* One operation on the bus, when nobody answers and when a slave does.    *)

LEMMA Unheard ==
  ASSUME drv.call.addr \notin Slaves, AllIdle, BusStep(drv.call.addr),
         NEW o \in Ops, NEW rest \in Seq(Ops), bus.todo = <<o>> \o rest
  PROVE  /\ bus' = [todo |-> rest,
                    got |-> IF o.op \in {"recv", "length"} THEN Append(bus.got, Bytes - 1) ELSE bus.got]
         /\ UNCHANGED <<current_dev, slave, eeprom, smc, faults>>
  <1>1. Head(bus.todo) = o /\ Tail(bus.todo) = rest
    BY Cons, Zenon
  <1> QED BY <1>1, Zenon DEF BusStep, AllIdle, Unanswered

LEMMA Heard ==
  ASSUME drv.call.addr \in Slaves, BusStep(drv.call.addr),
         NEW o \in Ops, NEW rest \in Seq(Ops), bus.todo = <<o>> \o rest,
         o.op = "start" \/ current_dev = drv.call.addr
  PROVE  /\ Answered(drv.call.addr, o)
         /\ o.op # "length" => bus'.todo = rest
         /\ o.op = "length" => bus'.todo = Follow(Given(drv.call.addr)) \o rest
         /\ bus' = [todo |-> bus'.todo, got |-> bus'.got]
         /\ bus'.got = IF o.op \in {"recv", "length"} THEN Append(bus.got, Given(drv.call.addr)) ELSE bus.got
         /\ current_dev' = IF o.op = "end" THEN "none" ELSE drv.call.addr
  <1>1. Head(bus.todo) = o /\ Tail(bus.todo) = rest
    BY Cons, Zenon
  <1>2. Answered(drv.call.addr, o)
    BY <1>1, Zenon DEF BusStep, Slaves
  <1>3. <<>> \o rest = rest
    OBVIOUS
  <1> QED BY <1>1, <1>2, <1>3, Zenon DEF Answered

SlaveRec(mode, buf, reads, command) ==
  [mode |-> mode, data_buf |-> buf, reads |-> reads, command |-> command]

LEMMA TalkingIs ==
  ASSUME drv.call.addr \in Slaves, NEW mode, NEW buf, NEW reads, NEW command,
         Talking(mode, buf, reads, command)
  PROVE  /\ current_dev = drv.call.addr
         /\ slave[drv.call.addr] = SlaveRec(mode, buf, reads, command)
         /\ slave = [d \in Slaves |-> IF d = drv.call.addr THEN SlaveRec(mode, buf, reads, command)
                                                         ELSE IdleSlave]
BY Zenon DEF Talking, SlaveRec

LEMMA BecomesTalking ==
  ASSUME drv.call.addr \in Slaves, UNCHANGED drv, current_dev' = drv.call.addr,
         slave \in [Slaves -> {slave[d] : d \in Slaves}],
         \A d \in Slaves : d # drv.call.addr => slave[d] = IdleSlave,
         NEW mode, NEW buf, NEW reads, NEW command,
         Becomes(drv.call.addr, SlaveRec(mode, buf, reads, command))
  PROVE  Talking(mode, buf, reads, command)'
  <1>1. slave' = [d \in Slaves |-> IF d = drv.call.addr THEN SlaveRec(mode, buf, reads, command)
                                                      ELSE IdleSlave]
    BY Zenon DEF Becomes
  <1> QED BY <1>1, Zenon DEF Talking, SlaveRec

\* A command starts with a write or with a read.
LEMMA StartStep ==
  ASSUME AllIdle, UNCHANGED drv, BusStep(drv.call.addr), NEW read \in BOOLEAN,
         NEW rest \in Seq(Ops), bus.todo = <<Op("start", read)>> \o rest
  PROVE  /\ Talking(IF read THEN "RECV_BYTE" ELSE "WRITE_DATA", <<>>, 0, 0)'
         /\ bus' = [todo |-> rest, got |-> bus.got] /\ UNCHANGED <<eeprom, smc, faults>>
  <1> DEFINE o == Op("start", read)
  <1>1. o \in Ops /\ o.op = "start" /\ o.arg = read
    BY OpTypes, Zenon DEF Op
  <1> HIDE DEF o
  <1>2. bus.todo = <<o>> \o rest
    BY Zenon DEF o
  <1>3. CASE drv.call.addr \notin Slaves
    <2>1. /\ bus' = [todo |-> rest, got |-> bus.got]
          /\ UNCHANGED <<current_dev, slave, eeprom, smc, faults>>
      BY <1>1, <1>2, <1>3, Unheard, Zenon
    <2> QED BY <1>3, <2>1, Zenon DEF Talking, AllIdle
  <1>4. CASE drv.call.addr \in Slaves
    <2>1. /\ Answered(drv.call.addr, o) /\ bus' = [todo |-> rest, got |-> bus.got]
          /\ current_dev' = drv.call.addr
      BY <1>1, <1>2, <1>4, Heard, Zenon
    <2>2. slave[drv.call.addr] = IdleSlave
      BY <1>4, Zenon DEF AllIdle
    <2>3. /\ Becomes(drv.call.addr, SlaveRec(IF read THEN "RECV_BYTE" ELSE "WRITE_DATA", <<>>, 0, 0))
          /\ UNCHANGED <<eeprom, smc, faults>>
      BY <1>1, <2>1, <2>2 DEF Answered, StartSend, StartRecv, IdleSlave, SlaveRec
    <2> QED BY <1>4, <2>1, <2>3, BecomesTalking, Zenon DEF AllIdle
  <1> QED BY <1>3, <1>4, Zenon

\* A slave that is written to stores the byte.
LEMMA SendStep ==
  ASSUME UNCHANGED drv, BusStep(drv.call.addr), NEW byte \in Byte, NEW buf,
         Talking("WRITE_DATA", buf, 0, 0),
         NEW rest \in Seq(Ops), bus.todo = <<Op("send", byte)>> \o rest
  PROVE  /\ Talking("WRITE_DATA", Append(buf, byte), 0, 0)'
         /\ bus' = [todo |-> rest, got |-> bus.got] /\ UNCHANGED <<eeprom, smc, faults>>
  <1> DEFINE o == Op("send", byte)
  <1>1. o \in Ops /\ o.op = "send" /\ o.arg = byte
    BY OpTypes, Zenon DEF Op
  <1> HIDE DEF o
  <1>2. bus.todo = <<o>> \o rest
    BY Zenon DEF o
  <1>3. CASE drv.call.addr \notin Slaves
    <2>1. AllIdle
      BY <1>3, Zenon DEF Talking
    <2>2. /\ bus' = [todo |-> rest, got |-> bus.got]
          /\ UNCHANGED <<current_dev, slave, eeprom, smc, faults>>
      BY <1>1, <1>2, <1>3, <2>1, Unheard, Zenon
    <2> QED BY <1>3, <2>1, <2>2, Zenon DEF Talking, AllIdle
  <1>4. CASE drv.call.addr \in Slaves
    <2>1. /\ Answered(drv.call.addr, o) /\ bus' = [todo |-> rest, got |-> bus.got]
          /\ current_dev' = drv.call.addr
      BY <1>1, <1>2, <1>4, Heard, TalkingIs, Zenon
    <2>2. slave[drv.call.addr] = SlaveRec("WRITE_DATA", buf, 0, 0)
      BY <1>4, TalkingIs
    <2>3. /\ Becomes(drv.call.addr, SlaveRec("WRITE_DATA", Append(buf, byte), 0, 0))
          /\ UNCHANGED <<eeprom, smc, faults>>
      <3>1. Send(drv.call.addr, byte)
        BY <1>1, <2>1, Zenon DEF Answered
      <3>2. /\ slave[drv.call.addr].mode = "WRITE_DATA"
            /\ [slave[drv.call.addr] EXCEPT !.data_buf = Append(@, byte)]
               = SlaveRec("WRITE_DATA", Append(buf, byte), 0, 0)
        <4>1. slave[drv.call.addr].mode = "WRITE_DATA" /\ slave[drv.call.addr].data_buf = buf
          BY <2>2 DEF SlaveRec
        <4> DEFINE b == Append(buf, byte)
        <4>2. [slave[drv.call.addr] EXCEPT !.data_buf = b] = SlaveRec("WRITE_DATA", b, 0, 0)
          <5> HIDE DEF b
          <5> QED BY <2>2 DEF SlaveRec
        <4> QED BY <4>1, <4>2, Zenon
      <3> QED BY <3>1, <3>2, Zenon DEF Send
    <2> QED BY <1>4, <2>1, <2>3, TalkingIs, BecomesTalking, Zenon
  <1> QED BY <1>3, <1>4, Zenon

\* A slave that has been sent a command alone turns to reading.
LEMMA TurnStep ==
  ASSUME UNCHANGED drv, BusStep(drv.call.addr), NEW cmd \in Byte, Talking("WRITE_DATA", <<cmd>>, 0, 0),
         NEW rest \in Seq(Ops), bus.todo = <<Op("start", TRUE)>> \o rest
  PROVE  /\ Talking("READ_DATA", <<>>, 0, cmd)'
         /\ bus' = [todo |-> rest, got |-> bus.got] /\ UNCHANGED <<eeprom, smc, faults>>
  <1> DEFINE o == Op("start", TRUE)
  <1>1. o \in Ops /\ o.op = "start" /\ o.arg = TRUE
    BY OpTypes, Zenon DEF Op
  <1> HIDE DEF o
  <1>2. bus.todo = <<o>> \o rest
    BY Zenon DEF o
  <1>3. CASE drv.call.addr \notin Slaves
    <2>1. AllIdle
      BY <1>3, Zenon DEF Talking
    <2>2. /\ bus' = [todo |-> rest, got |-> bus.got]
          /\ UNCHANGED <<current_dev, slave, eeprom, smc, faults>>
      BY <1>1, <1>2, <1>3, <2>1, Unheard, Zenon
    <2> QED BY <1>3, <2>1, <2>2, Zenon DEF Talking, AllIdle
  <1>4. CASE drv.call.addr \in Slaves
    <2>1. /\ Answered(drv.call.addr, o) /\ bus' = [todo |-> rest, got |-> bus.got]
          /\ current_dev' = drv.call.addr
      BY <1>1, <1>2, <1>4, Heard, Zenon
    <2>2. slave[drv.call.addr] = SlaveRec("WRITE_DATA", <<cmd>>, 0, 0)
      BY <1>4, TalkingIs
    <2>3. Len(<<cmd>>) = 1 /\ <<cmd>>[1] = cmd /\ <<cmd>> # <<>>
      BY Zenon
    <2>4. StartRecv(drv.call.addr)
      BY <1>1, <2>1, Zenon DEF Answered
    <2>5. /\ Becomes(drv.call.addr, SlaveRec("READ_DATA", <<>>, 0, cmd))
          /\ UNCHANGED <<eeprom, smc, faults>>
      <3>1. /\ slave[drv.call.addr].mode = "WRITE_DATA" /\ slave[drv.call.addr].data_buf = <<cmd>>
            /\ [slave[drv.call.addr] EXCEPT !.mode = "READ_DATA", !.command = cmd, !.data_buf = <<>>]
               = SlaveRec("READ_DATA", <<>>, 0, cmd)
        <4>1. slave[drv.call.addr].mode = "WRITE_DATA" /\ slave[drv.call.addr].data_buf = <<cmd>>
          BY <2>2 DEF SlaveRec
        <4>2. [slave[drv.call.addr] EXCEPT !.mode = "READ_DATA", !.command = cmd, !.data_buf = <<>>]
              = SlaveRec("READ_DATA", <<>>, 0, cmd)
          <5> DEFINE s == slave[drv.call.addr]
          <5>1. s = SlaveRec("WRITE_DATA", <<cmd>>, 0, 0)
            BY <2>2, Zenon
          <5> HIDE DEF s
          <5>2. [SlaveRec("WRITE_DATA", <<cmd>>, 0, 0) EXCEPT !.mode = "READ_DATA"]
                = SlaveRec("READ_DATA", <<cmd>>, 0, 0)
            BY DEF SlaveRec
          <5>3. [SlaveRec("READ_DATA", <<cmd>>, 0, 0) EXCEPT !.command = cmd]
                = SlaveRec("READ_DATA", <<cmd>>, 0, cmd)
            BY DEF SlaveRec
          <5>4. [SlaveRec("READ_DATA", <<cmd>>, 0, cmd) EXCEPT !.data_buf = <<>>]
                = SlaveRec("READ_DATA", <<>>, 0, cmd)
            BY DEF SlaveRec
          <5>5. [s EXCEPT !.mode = "READ_DATA", !.command = cmd, !.data_buf = <<>>]
                = [[[s EXCEPT !.mode = "READ_DATA"] EXCEPT !.command = cmd] EXCEPT !.data_buf = <<>>]
            BY Zenon
          <5> QED BY <5>1, <5>2, <5>3, <5>4, <5>5, Zenon DEF s
        <4> QED BY <4>1, <4>2, Zenon
      <3> QED BY <2>3, <2>4, <3>1 DEF StartRecv
    <2> QED BY <1>4, <2>1, <2>5, TalkingIs, BecomesTalking, Zenon
  <1> QED BY <1>3, <1>4, Zenon

\* A read of one byte; the EEPROM moves on.
LEMMA ByteStep ==
  ASSUME HostTypes, UNCHANGED drv, BusStep(drv.call.addr), Talking("RECV_BYTE", <<>>, 0, 0),
         bus.got = <<>>, NEW rest \in Seq(Ops), bus.todo = <<Op("recv", 0)>> \o rest
  PROVE  /\ Talking("DONE", <<>>, 0, 0)'
         /\ bus' = [todo |-> rest, got |-> bus'.got] /\ bus'.got \in Seq(Byte) /\ Len(bus'.got) = 1
         /\ eeprom' \in [data : [Byte -> Byte], offset : Byte] /\ eeprom'.data = eeprom.data
         /\ UNCHANGED <<smc, faults>>
  <1> DEFINE o == Op("recv", 0)
  <1>1. o \in Ops /\ o.op = "recv"
    BY OpTypes, Zenon DEF Op
  <1> HIDE DEF o
  <1>2. bus.todo = <<o>> \o rest
    BY Zenon DEF o
  <1>3. CASE drv.call.addr \notin Slaves
    <2>1. AllIdle
      BY <1>3, Zenon DEF Talking
    <2>2. /\ bus' = [todo |-> rest, got |-> Append(bus.got, Bytes - 1)]
          /\ UNCHANGED <<current_dev, slave, eeprom, smc, faults>>
      BY <1>1, <1>2, <1>3, <2>1, Unheard, Zenon
    <2>3. bus'.got \in Seq(Byte) /\ Len(bus'.got) = 1
      BY <2>2, ByteTypes
    <2> QED BY <1>3, <2>1, <2>2, <2>3, Zenon DEF Talking, AllIdle, HostTypes
  <1>4. CASE drv.call.addr \in Slaves
    <2>1. /\ Answered(drv.call.addr, o)
          /\ bus' = [todo |-> rest, got |-> Append(bus.got, Given(drv.call.addr))]
          /\ current_dev' = drv.call.addr
      BY <1>1, <1>2, <1>4, Heard, TalkingIs, Zenon
    <2>2. slave[drv.call.addr] = SlaveRec("RECV_BYTE", <<>>, 0, 0)
      BY <1>4, TalkingIs
    <2>3. Recv(drv.call.addr)
      BY <1>1, <2>1, Zenon DEF Answered
    <2>4. /\ Becomes(drv.call.addr, SlaveRec("DONE", <<>>, 0, 0))
          /\ Give(drv.call.addr) /\ UNCHANGED <<smc, faults>>
      BY <2>2, <2>3 DEF Recv, SlaveRec
    <2>5. ReadOffset(slave[drv.call.addr]) = eeprom.offset
      BY <2>2 DEF ReadOffset, SlaveRec
    <2>6. Given(drv.call.addr) \in Byte
      BY <2>2, <2>5, ByteTypes DEF Given, SlaveRec, HostTypes
    <2>7. eeprom' \in [data : [Byte -> Byte], offset : Byte] /\ eeprom'.data = eeprom.data
      <3>1. (eeprom.offset + 1) % Bytes \in Byte
        BY ByteTypes DEF HostTypes
      <3> QED BY <2>4, <2>5, <3>1 DEF Give, HostTypes
    <2>8. bus'.got \in Seq(Byte) /\ Len(bus'.got) = 1
      BY <2>1, <2>6
    <2> QED BY <1>4, <2>1, <2>4, <2>7, <2>8, TalkingIs, BecomesTalking, Zenon
  <1> QED BY <1>3, <1>4, Zenon

\* What giving byte b as the n+1st of a read does.
Reads(c, n, op, rest, b) ==
  /\ Talking("READ_DATA", <<>>, n + 1, c.cmd)'
  /\ bus' = [todo |-> IF op = "length" /\ c.addr \in Slaves THEN Follow(b) \o rest ELSE rest,
             got |-> Append(bus.got, b)]
  /\ eeprom' \in [data : [Byte -> Byte], offset : Byte] /\ eeprom'.data = eeprom.data
  /\ c.addr = "eeprom" => b = Cell(c.cmd + n) /\ eeprom'.offset = (c.cmd + (n + 1)) % Bytes
  /\ UNCHANGED <<smc, faults>>

\* A slave that is read gives its next byte: of the EEPROM, the next cell.
LEMMA ReadStep ==
  ASSUME HostTypes, UNCHANGED drv, BusStep(drv.call.addr), NEW c, c = drv.call, c.cmd \in Byte,
         eeprom.data = before, NEW n \in 0 .. MaxBlock, c.addr = "smc" => n = 0,
         Talking("READ_DATA", <<>>, n, c.cmd),
         c.addr = "eeprom" /\ n # 0 => eeprom.offset = (c.cmd + n) % Bytes,
         NEW op \in {"recv", "length"}, NEW rest \in Seq(Ops), bus.todo = <<Op(op, 0)>> \o rest
  PROVE  \E b \in Byte : Reads(c, n, op, rest, b)
  <1> DEFINE o == Op(op, 0)
  <1>1. o \in Ops /\ o.op = op
    BY OpTypes, Zenon DEF Op
  <1> HIDE DEF o
  <1>2. bus.todo = <<o>> \o rest
    BY Zenon DEF o
  <1>3. CASE c.addr \notin Slaves
    <2>1. AllIdle
      BY <1>3, Zenon DEF Talking
    <2>2. /\ bus' = [todo |-> rest, got |-> Append(bus.got, Bytes - 1)]
          /\ UNCHANGED <<current_dev, slave, eeprom, smc, faults>>
      BY <1>1, <1>2, <1>3, <2>1, Unheard, Zenon
    <2>3. Talking("READ_DATA", <<>>, n + 1, c.cmd)'
      BY <1>3, <2>1, <2>2, Zenon DEF Talking, AllIdle
    <2>4. Bytes - 1 \in Byte
      BY ByteTypes, Zenon
    <2> QED BY <1>3, <2>2, <2>3, <2>4, Zenon DEF HostTypes, Slaves, Reads
  <1>4. CASE c.addr \in Slaves
    <2>1. /\ Answered(c.addr, o) /\ current_dev' = c.addr
          /\ bus' = [todo |-> IF op = "length" THEN Follow(Given(c.addr)) \o rest ELSE rest,
                     got |-> Append(bus.got, Given(c.addr))]
      BY <1>1, <1>2, <1>4, Heard, TalkingIs, Zenon
    <2>2. slave[c.addr] = SlaveRec("READ_DATA", <<>>, n, c.cmd)
      BY <1>4, TalkingIs
    <2>3. slave[c.addr].mode = "READ_DATA" /\ slave[c.addr].reads = n /\ slave[c.addr].command = c.cmd
      BY <2>2 DEF SlaveRec
    <2>4. Recv(c.addr)
      BY <1>1, <2>1, Zenon DEF Answered
    <2>5. [slave[c.addr] EXCEPT !.reads = @ + 1] = SlaveRec("READ_DATA", <<>>, n + 1, c.cmd)
      <3> DEFINE r == n + 1
      <3>1. [SlaveRec("READ_DATA", <<>>, n, c.cmd) EXCEPT !.reads = r] = SlaveRec("READ_DATA", <<>>, r, c.cmd)
        <4> HIDE DEF r
        <4> QED BY DEF SlaveRec
      <3> QED BY <2>2, <2>3, <3>1, Zenon
    <2>6. /\ Becomes(c.addr, SlaveRec("READ_DATA", <<>>, n + 1, c.cmd))
          /\ Give(c.addr) /\ UNCHANGED <<smc, faults>>
      <3>1. /\ Becomes(c.addr, [slave[c.addr] EXCEPT !.reads = @ + 1])
            /\ Give(c.addr) /\ UNCHANGED smc
            /\ faults' = (faults \/ (c.addr = "smc" /\ slave[c.addr].reads > 0))
        BY <2>3, <2>4, Zenon DEF Recv
      <3>2. ~(c.addr = "smc" /\ slave[c.addr].reads > 0)
        BY <2>3
      <3>3. faults' = faults
        BY <3>1, <3>2, Zenon DEF HostTypes
      <3> QED BY <2>5, <3>1, <3>3, Zenon
    <2>7. Talking("READ_DATA", <<>>, n + 1, c.cmd)'
      BY <1>4, <2>1, <2>6, TalkingIs, BecomesTalking
    <2>8. CASE c.addr = "eeprom"
      <3>1. /\ (c.cmd + n) % Bytes \in Byte /\ (c.cmd + (n + 1)) % Bytes \in Byte
            /\ n = 0 => (c.cmd + n) % Bytes = c.cmd
            /\ (((c.cmd + n) % Bytes) + 1) % Bytes = (c.cmd + (n + 1)) % Bytes
        BY Address, Zenon
      <3>2. ReadOffset(slave[c.addr]) = (c.cmd + n) % Bytes
        BY <2>3, <2>8, <3>1, Zenon DEF ReadOffset
      <3>3. Given(c.addr) = Cell(c.cmd + n)
        BY <2>8, <3>2, Zenon DEF Given, Cell
      <3>4. Cell(c.cmd + n) \in Byte
        BY <3>1, Zenon DEF Cell, HostTypes
      <3>5. eeprom' = [eeprom EXCEPT !.offset = (c.cmd + (n + 1)) % Bytes]
        BY <2>6, <2>8, <3>1, <3>2, Zenon DEF Give
      <3>8. /\ eeprom' \in [data : [Byte -> Byte], offset : Byte] /\ eeprom'.data = eeprom.data
            /\ eeprom'.offset = (c.cmd + (n + 1)) % Bytes
        BY <3>1, <3>5, Zenon DEF HostTypes
      <3> QED BY <1>4, <2>1, <2>6, <2>7, <3>3, <3>4, <3>8, Zenon DEF Reads
    <2>9. CASE c.addr = "smc"
      <3>1. Given(c.addr) \in Byte
        BY <2>3, <2>9, ByteTypes, Zenon DEF Given, smc_read_data, HostTypes, SmcTypes
      <3>2. eeprom' = eeprom
        BY <2>6, <2>9, Zenon DEF Give
      <3> QED BY <1>4, <2>1, <2>6, <2>7, <2>9, <3>1, <3>2, Zenon DEF HostTypes, Reads
    <2> QED BY <1>4, <2>8, <2>9, Zenon DEF Slaves
  <1> QED BY <1>3, <1>4, Zenon

\* The master ends a read.
LEMMA NackStep ==
  ASSUME UNCHANGED drv, BusStep(drv.call.addr), NEW mode \in {"DONE", "READ_DATA"}, NEW n, NEW cmd,
         Talking(mode, <<>>, n, cmd), bus.todo = NackEnd
  PROVE  /\ Talking("DONE", <<>>, n, cmd)'
         /\ bus' = [todo |-> End, got |-> bus.got] /\ UNCHANGED <<eeprom, smc, faults>>
  <1> DEFINE o == Op("nack", 0)
  <1>1. o \in Ops /\ o.op = "nack" /\ End \in Seq(Ops)
    BY OpTypes, Zenon DEF Op
  <1> HIDE DEF o
  <1>2. bus.todo = <<o>> \o End
    BY Zenon DEF o, NackEnd
  <1>3. CASE drv.call.addr \notin Slaves
    <2>1. AllIdle
      BY <1>3, Zenon DEF Talking
    <2>2. /\ bus' = [todo |-> End, got |-> bus.got]
          /\ UNCHANGED <<current_dev, slave, eeprom, smc, faults>>
      BY <1>1, <1>2, <1>3, <2>1, Unheard, Zenon
    <2> QED BY <1>3, <2>1, <2>2, Zenon DEF Talking, AllIdle
  <1>4. CASE drv.call.addr \in Slaves
    <2>1. /\ Answered(drv.call.addr, o) /\ bus' = [todo |-> End, got |-> bus.got]
          /\ current_dev' = drv.call.addr
      BY <1>1, <1>2, <1>4, Heard, TalkingIs, Zenon
    <2>2. slave[drv.call.addr] = SlaveRec(mode, <<>>, n, cmd)
      BY <1>4, TalkingIs
    <2>3. /\ slave[drv.call.addr].mode = mode
          /\ [slave[drv.call.addr] EXCEPT !.mode = "DONE"] = SlaveRec("DONE", <<>>, n, cmd)
      BY <2>2 DEF SlaveRec
    <2>4. Nack(drv.call.addr)
      BY <1>1, <2>1, Zenon DEF Answered
    <2>5. Becomes(drv.call.addr, SlaveRec("DONE", <<>>, n, cmd)) /\ UNCHANGED <<eeprom, smc, faults>>
      BY <2>3, <2>4, Zenon DEF Nack
    <2> QED BY <1>4, <2>1, <2>5, TalkingIs, BecomesTalking, Zenon
  <1> QED BY <1>3, <1>4, Zenon

LEMMA EndReadStep ==
  ASSUME UNCHANGED drv, BusStep(drv.call.addr), HostTypes, NEW mode \in {"RECV_BYTE", "DONE"}, NEW n, NEW cmd,
         Talking(mode, <<>>, n, cmd), bus.todo = End
  PROVE  AllIdle' /\ bus' = [todo |-> <<>>, got |-> bus.got] /\ UNCHANGED <<eeprom, smc, faults>>
  <1> DEFINE o == Op("end", 0)
  <1>1. o \in Ops /\ o.op = "end" /\ <<>> \in Seq(Ops)
    BY OpTypes DEF Op
  <1> HIDE DEF o
  <1>2. bus.todo = <<o>> \o <<>>
    BY <1>1 DEF o, End
  <1>3. CASE drv.call.addr \notin Slaves
    <2>1. AllIdle
      BY <1>3, Zenon DEF Talking
    <2>2. /\ bus' = [todo |-> <<>>, got |-> bus.got]
          /\ UNCHANGED <<current_dev, slave, eeprom, smc, faults>>
      BY <1>1, <1>2, <1>3, <2>1, Unheard, Zenon
    <2> QED BY <2>1, <2>2, Zenon DEF AllIdle
  <1>4. CASE drv.call.addr \in Slaves
    <2>1. /\ Answered(drv.call.addr, o) /\ bus' = [todo |-> <<>>, got |-> bus.got]
          /\ current_dev' = "none"
      BY <1>1, <1>2, <1>4, Heard, TalkingIs, Zenon
    <2>2. slave[drv.call.addr].mode = mode
      <3>1. slave[drv.call.addr] = SlaveRec(mode, <<>>, n, cmd)
        BY <1>4, TalkingIs
      <3> QED BY <3>1 DEF SlaveRec
    <2>3. Finish(drv.call.addr)
      BY <1>1, <2>1, Zenon DEF Answered
    <2>4. Becomes(drv.call.addr, IdleSlave) /\ UNCHANGED <<eeprom, smc, faults>>
      BY <2>2, <2>3, Zenon DEF Finish, HostTypes
    <2>5. slave' = [d \in Slaves |-> IdleSlave]
      BY <1>4, <2>4, TalkingIs, Zenon DEF Becomes
    <2> QED BY <2>1, <2>4, <2>5, Zenon DEF AllIdle
  <1> QED BY <1>3, <1>4, Zenon

\* Where a byte of a write lands.
LEMMA Lands ==
  ASSUME NEW cmd \in Byte, NEW n \in 0 .. MaxBlock + 1, NEW b \in Byte
  PROVE  /\ ((b - cmd + Bytes) % Bytes) + 1 \in Nat \ {0}
         /\ \A j \in 1 .. n : b = (cmd + j - 1) % Bytes <=> j = ((b - cmd + Bytes) % Bytes) + 1
  <1> USE SizesAssumption DEF Byte
  <1>1. PICK i : i = ((b - cmd + Bytes) % Bytes) + 1
    BY Zenon
  <1>2. b >= cmd => i = b - cmd + 1
    <2> SUFFICES ASSUME b >= cmd PROVE i = b - cmd + 1
      BY Zenon
    <2> DEFINE x == b - cmd + Bytes
    <2>1. x \in Nat /\ Bytes <= x /\ x < Bytes + Bytes
      OBVIOUS
    <2> HIDE DEF x
    <2>2. x % Bytes = x - Bytes
      BY <2>1, ModWrap, Zenon
    <2> QED BY <1>1, <2>1, <2>2 DEF x
  <1>3. b < cmd => i = b - cmd + Bytes + 1
    <2>1. ASSUME b < cmd PROVE (b - cmd + Bytes) % Bytes = b - cmd + Bytes
      BY <2>1, ModSmall
    <2> QED BY <1>1, <2>1, Zenon
  <1>4. ASSUME NEW j \in 1 .. n PROVE b = (cmd + j - 1) % Bytes <=> j = i
    <2>1. CASE cmd + j - 1 < Bytes
      <3>1. (cmd + j - 1) % Bytes = cmd + j - 1
        BY <2>1, ModSmall
      <3> QED BY <1>2, <1>3, <2>1, <3>1
    <2>2. CASE cmd + j - 1 >= Bytes
      <3>1. (cmd + j - 1) % Bytes = cmd + j - 1 - Bytes
        BY <2>2, ModWrap
      <3> QED BY <1>2, <1>3, <2>2, <3>1
    <2> QED BY <2>1, <2>2
  <1>5. i \in Nat \ {0}
    BY <1>2, <1>3
  <1> QED BY <1>1, <1>4, <1>5, Zenon

LEMMA SentTypes ==
  ASSUME NEW c \in Calls, ~c.read
  PROVE  /\ Payload(c) \in Seq(Byte) /\ Len(Payload(c)) <= MaxBlock + 1
         /\ ToSend(c) \in Seq(Byte) /\ Len(ToSend(c)) <= MaxBlock + 2
         /\ c.addr = "smc" => Len(Payload(c)) <= 1
  <1> DEFINE n == Clipped(c.data0)
             blk == SubSeq(c.block, 1, n)
  <1>1. /\ c.prot \in Protocols /\ c.cmd \in Byte /\ c.data0 \in Byte /\ c.block \in Seq(Byte)
        /\ c.prot = "BLOCK_DATA" => n <= Len(c.block)
        /\ c.addr = "smc" => c.prot \in {"QUICK", "BYTE", "BYTE_DATA"}
    BY CallsAssumption, Zenon
  <1>2. n \in Byte /\ n <= MaxBlock /\ n \in Nat /\ MaxBlock \in Nat /\ MaxBlock >= 1 /\ 0 \in Byte
    BY <1>1, ByteTypes, SizesAssumption, Zenon
  <1> HIDE DEF n
  <1>3. c.prot = "BLOCK_DATA" => blk \in Seq(Byte) /\ Len(blk) = n
    <2>1. c.prot = "BLOCK_DATA" => \A i \in 1 .. n : c.block[i] \in Byte
      BY <1>1, <1>2
    <2> QED BY <1>2, <2>1, SubSeqProperties
  <1> HIDE DEF blk
  <1>4. /\ Payload(c) \in Seq(Byte) /\ Len(Payload(c)) <= MaxBlock + 1
        /\ c.addr = "smc" => Len(Payload(c)) <= 1
    <2>1. CASE c.prot = "BYTE_DATA"
      BY <1>1, <1>2, <2>1 DEF Payload
    <2>2. CASE c.prot = "WORD_DATA"
      BY <1>1, <1>2, <2>2 DEF Payload
    <2>3. CASE c.prot = "BLOCK_DATA"
      <3>1. Payload(c) = <<n>> \o blk
        BY <2>3, Zenon DEF Payload, n, blk
      <3>2. Payload(c) \in Seq(Byte) /\ Len(Payload(c)) = 1 + n
        BY <1>2, <1>3, <2>3, <3>1
      <3> QED BY <1>1, <1>2, <2>3, <3>2
    <2>4. CASE c.prot \notin Asking
      <3>1. Payload(c) = <<>>
        BY <2>4, Zenon DEF Payload, Asking
      <3> QED BY <1>2, <3>1
    <2> QED BY <2>1, <2>2, <2>3, <2>4, Zenon DEF Asking
  <1>5. ToSend(c) \in Seq(Byte) /\ Len(ToSend(c)) <= MaxBlock + 2
    <2>1. CASE c.prot = "QUICK"
      BY <1>2, <2>1 DEF ToSend
    <2>2. CASE c.prot # "QUICK"
      BY <1>1, <1>2, <1>4, <2>2 DEF ToSend
    <2> QED BY <2>1, <2>2, Zenon
  <1> QED BY <1>4, <1>5, Zenon

\* eeprom_write_data does what the reference says.
LEMMA WriteLands ==
  ASSUME NEW c, c.cmd \in Byte, WrittenBytes(c) \in Seq(Byte), Len(WrittenBytes(c)) <= MaxBlock + 1,
         eeprom \in [data : [Byte -> Byte], offset : Byte], eeprom.data = before
  PROVE  /\ eeprom_write_data(eeprom, c.cmd, WrittenBytes(c)) \in [data : [Byte -> Byte], offset : Byte]
         /\ eeprom_write_data(eeprom, c.cmd, WrittenBytes(c)).data = WrittenTo(c)
  <1> DEFINE bytes == WrittenBytes(c)
             Image == [b \in Byte |-> LET i == ((b - c.cmd + Bytes) % Bytes) + 1 IN
                                      IF i <= Len(bytes) THEN bytes[i] ELSE eeprom.data[b]]
  <1>1. bytes \in Seq(Byte) /\ Len(bytes) \in 0 .. MaxBlock + 1
    BY SizesAssumption
  <1>2. ASSUME NEW b \in Byte
        PROVE  /\ Image[b] \in Byte
               /\ Image[b] = IF \E i \in 1 .. Len(bytes) : b = (c.cmd + i - 1) % Bytes
                               THEN bytes[CHOOSE i \in 1 .. Len(bytes) : b = (c.cmd + i - 1) % Bytes]
                               ELSE before[b]
    <2> DEFINE i == ((b - c.cmd + Bytes) % Bytes) + 1
               At(j) == b = (c.cmd + j - 1) % Bytes
               J == CHOOSE j \in 1 .. Len(bytes) : At(j)
    <2>1. i \in Nat \ {0} /\ \A j \in 1 .. Len(bytes) : At(j) <=> j = i
      <3>1. PICK n \in 0 .. MaxBlock + 1 : n = Len(bytes)
        BY <1>1, Zenon
      <3>2. PICK cmd \in Byte : cmd = c.cmd
        BY Zenon
      <3>3. /\ ((b - cmd + Bytes) % Bytes) + 1 \in Nat \ {0}
            /\ \A j \in 1 .. n : b = (cmd + j - 1) % Bytes <=> j = ((b - cmd + Bytes) % Bytes) + 1
        BY Lands
      <3> QED BY <3>1, <3>2, <3>3, Zenon
    <2>2. Image[b] = IF i <= Len(bytes) THEN bytes[i] ELSE before[b]
      BY Zenon
    <2>3. before[b] \in Byte
      BY Zenon
    <2> HIDE DEF i, At, bytes, Image
    <2>4. /\ Image[b] \in Byte
          /\ Image[b] = IF \E j \in 1 .. Len(bytes) : At(j) THEN bytes[J] ELSE before[b]
      <3>1. CASE i <= Len(bytes)
        <4>1. i \in 1 .. Len(bytes) /\ At(i)
          BY <1>1, <2>1, <3>1
        <4>2. J \in 1 .. Len(bytes) /\ At(J)
          BY <4>1, Zenon
        <4>3. J = i
          BY <2>1, <4>2, Zenon
        <4> HIDE DEF J
        <4> QED BY <1>1, <2>2, <3>1, <4>1, <4>3
      <3>2. CASE ~(i <= Len(bytes))
        <4>1. ~ \E j \in 1 .. Len(bytes) : At(j)
          BY <1>1, <2>1, <3>2
        <4> HIDE DEF J
        <4> QED BY <2>2, <2>3, <3>2, <4>1, Zenon
      <3> QED BY <3>1, <3>2, Zenon
    <2> QED BY <2>4, Zenon DEF At
  <1>3. eeprom_write_data(eeprom, c.cmd, bytes) = [eeprom EXCEPT !.data = Image]
    BY Zenon DEF eeprom_write_data
  <1>4. Image = WrittenTo(c)
    BY <1>2, Zenon DEF WrittenTo
  <1>5. Image \in [Byte -> Byte]
    BY <1>2, Zenon
  <1> HIDE DEF Image
  <1> QED BY <1>3, <1>4, <1>5, Zenon

\* A command that sends no data leaves the EEPROM's contents.
LEMMA NothingWritten ==
  ASSUME NEW c, WrittenBytes(c) = <<>>, before \in [Byte -> Byte]
  PROVE  WrittenTo(c) = before
BY DEF WrittenTo

LEMMA SmcWrites ==
  ASSUME NEW m \in SmcTypes,
         NEW cmd \in Byte, NEW value \in Byte
  PROVE  LET w == smc_write_data(m, cmd, value) IN
         /\ w \in SmcTypes
         /\ w.watchdog = TRUE => m.watchdog = TRUE /\ cmd # ResponseReg
         /\ w.reset_requested = TRUE => m.reset_requested = TRUE \/ cmd = PowerReg
  <1> USE DEF PowerReg, ResponseReg, ScratchReg, PowerReset, PowerCycle, PowerShutdown
  <1>1. CASE cmd = PowerReg /\ value \in {PowerReset, PowerCycle}
    <2> DEFINE w == [m EXCEPT !.reset_requested = TRUE]
    <2>1. smc_write_data(m, cmd, value) = w
      BY <1>1 DEF smc_write_data
    <2>2. w \in SmcTypes /\ w.watchdog = m.watchdog
      BY Zenon DEF SmcTypes
    <2> HIDE DEF w
    <2> QED BY <1>1, <2>1, <2>2
  <1>2. CASE cmd = PowerReg /\ value = PowerShutdown
    <2> DEFINE w == [m EXCEPT !.power = "shutdown"]
    <2>1. smc_write_data(m, cmd, value) = w
      BY <1>2 DEF smc_write_data
    <2>2. w \in SmcTypes /\ w.watchdog = m.watchdog
      BY Zenon DEF SmcTypes
    <2> HIDE DEF w
    <2> QED BY <1>2, <2>1, <2>2
  <1>3. CASE cmd = ResponseReg
    <2> DEFINE w == [m EXCEPT !.watchdog = FALSE]
    <2>1. smc_write_data(m, cmd, value) = w
      BY <1>3 DEF smc_write_data
    <2>2. w \in SmcTypes /\ w.watchdog = FALSE /\ w.reset_requested = m.reset_requested
      BY Zenon DEF SmcTypes
    <2> HIDE DEF w
    <2> QED BY <2>1, <2>2, Zenon
  <1>4. CASE cmd = ScratchReg
    <2> DEFINE w == [m EXCEPT !.scratch = value]
    <2>1. smc_write_data(m, cmd, value) = w
      BY <1>4 DEF smc_write_data
    <2>2. w \in SmcTypes /\ w.watchdog = m.watchdog /\ w.reset_requested = m.reset_requested
      BY Zenon DEF SmcTypes
    <2> HIDE DEF w
    <2> QED BY <1>4, <2>1, <2>2
  <1>5. CASE /\ ~(cmd = PowerReg /\ value \in {PowerReset, PowerCycle, PowerShutdown})
             /\ cmd # ResponseReg /\ cmd # ScratchReg
    <2>1. smc_write_data(m, cmd, value) = m
      BY <1>5, Zenon DEF smc_write_data
    <2> QED BY <1>5, <2>1, Zenon
  <1> QED BY <1>1, <1>2, <1>3, <1>4, <1>5, Zenon

LEMMA SentIs ==
  ASSUME NEW c \in Calls, Writes(c)
  PROVE  /\ c.prot = "QUICK" => ToSend(c) = <<>> /\ WrittenBytes(c) = <<>>
         /\ c.prot # "QUICK" => /\ Len(ToSend(c)) = 1 + Len(Payload(c))
                                /\ ToSend(c)[1] = c.cmd /\ Tail(ToSend(c)) = Payload(c)
         /\ c.prot = "BYTE_DATA" => Len(ToSend(c)) = 2 /\ ToSend(c)[2] = c.data0
         /\ c.addr # "eeprom" => WrittenBytes(c) = <<>>
         /\ c.addr = "eeprom" => WrittenBytes(c) = Payload(c)
  <1>1. c.prot \in Protocols /\ c.cmd \in Byte /\ c.data0 \in Byte /\ c.read = FALSE
    BY CallsAssumption, Zenon DEF Writes
  <1>2. c.prot # "QUICK" => /\ Len(ToSend(c)) = 1 + Len(Payload(c))
                            /\ ToSend(c)[1] = c.cmd /\ Tail(ToSend(c)) = Payload(c)
    <2> SUFFICES ASSUME c.prot # "QUICK"
                 PROVE  /\ Len(ToSend(c)) = 1 + Len(Payload(c))
                        /\ ToSend(c)[1] = c.cmd /\ Tail(ToSend(c)) = Payload(c)
      BY Zenon
    <2>1. ToSend(c) = <<c.cmd>> \o Payload(c)
      BY Zenon DEF ToSend
    <2>2. Payload(c) \in Seq(Byte)
      BY <1>1, SentTypes, Zenon
    <2> QED BY <1>1, <2>1, <2>2, Cons
  <1>3. c.prot = "BYTE_DATA" => Len(ToSend(c)) = 2 /\ ToSend(c)[2] = c.data0
    BY <1>1 DEF ToSend, Payload
  <1>4. c.prot = "QUICK" => ToSend(c) = <<>> /\ WrittenBytes(c) = <<>>
    BY Zenon DEF ToSend, WrittenBytes
  <1>5. c.addr # "eeprom" => WrittenBytes(c) = <<>>
    BY Zenon DEF WrittenBytes
  <1>6. c.addr = "eeprom" => WrittenBytes(c) = Payload(c)
    BY <1>1, Zenon DEF WrittenBytes, Payload, Writes, Protocols
  <1> QED BY <1>2, <1>3, <1>4, <1>5, <1>6, Zenon

\* What smbus_do_write does with all that a command sent.
LEMMA DoWriteLands ==
  ASSUME HostTypes, UNCHANGED before, NEW c \in Calls, Writes(c), c.addr \in Slaves, eeprom.data = before,
         DoWrite(c.addr, ToSend(c))
  PROVE  /\ eeprom' \in [data : [Byte -> Byte], offset : Byte]
         /\ smc' \in SmcTypes
         /\ Landed(c)'
         /\ smc'.watchdog = TRUE => smc.watchdog = TRUE
         /\ smc'.reset_requested = TRUE =>
              smc.reset_requested = TRUE \/ (c.addr = "smc" /\ c.cmd = PowerReg)
  <1>1. /\ c.prot \in Protocols /\ c.cmd \in Byte /\ c.data0 \in Byte /\ c.read = FALSE
        /\ c.addr = "smc" => c.prot \in {"QUICK", "BYTE", "BYTE_DATA"}
    BY CallsAssumption, Zenon DEF Writes
  <1>2. /\ Payload(c) \in Seq(Byte) /\ Len(Payload(c)) <= MaxBlock + 1 /\ ToSend(c) \in Seq(Byte)
    BY <1>1, SentTypes, Zenon
  <1>3. WrittenTo(c)' = WrittenTo(c)
    BY Zenon DEF WrittenTo
  <1>4. CASE c.addr = "eeprom"
    <2>1. smc' = smc
      BY <1>4, Zenon DEF DoWrite
    <2>2. WrittenBytes(c) = Payload(c)
      BY <1>4, SentIs, Zenon
    <2>3. eeprom' \in [data : [Byte -> Byte], offset : Byte] /\ eeprom'.data = WrittenTo(c)
      <3>1. CASE c.prot = "QUICK"
        <4>1. ToSend(c) = <<>> /\ Len(ToSend(c)) = 0 /\ WrittenBytes(c) = <<>>
          BY <3>1, SentIs
        <4>2. eeprom' = eeprom
          BY <1>4, <4>1 DEF DoWrite
        <4> QED BY <4>1, <4>2, NothingWritten, Zenon DEF HostTypes
      <3>2. CASE c.prot # "QUICK" /\ Payload(c) = <<>>
        <4>0. Len(Payload(c)) = 0
          BY <3>2
        <4>1. Len(ToSend(c)) = 1 /\ ToSend(c)[1] = c.cmd
          <5>1. Len(ToSend(c)) = 1 + Len(Payload(c)) /\ ToSend(c)[1] = c.cmd
            BY <3>2, SentIs, Zenon
          <5> QED BY <4>0, <5>1
        <4>2. eeprom' = [eeprom EXCEPT !.offset = c.cmd]
          BY <1>4, <4>1 DEF DoWrite
        <4>3. WrittenTo(c) = before
          BY <2>2, <3>2, NothingWritten, Zenon DEF HostTypes
        <4> QED BY <1>1, <4>2, <4>3, Zenon DEF HostTypes
      <3>3. CASE c.prot # "QUICK" /\ Payload(c) # <<>>
        <4>1. Len(ToSend(c)) > 1 /\ Len(ToSend(c)) # 1 /\ ToSend(c)[1] = c.cmd /\ Tail(ToSend(c)) = Payload(c)
          BY <1>2, <3>3, SentIs
        <4>2. eeprom' = eeprom_write_data(eeprom, c.cmd, Payload(c))
          BY <1>4, <4>1, Zenon DEF DoWrite
        <4> QED BY <1>1, <1>2, <2>2, <4>2, WriteLands, Zenon DEF HostTypes
      <3> QED BY <3>1, <3>2, <3>3, Zenon
    <2> QED BY <1>3, <1>4, <2>1, <2>3, Zenon DEF Landed, HostTypes
  <1>5. CASE c.addr = "smc"
    <2>1. eeprom' = eeprom
      BY <1>5, Zenon DEF DoWrite
    <2>2. WrittenTo(c) = before
      BY <1>5, SentIs, NothingWritten, Zenon DEF HostTypes
    <2>3. CASE c.prot = "BYTE_DATA"
      <3>1. Len(ToSend(c)) = 2 /\ ToSend(c)[1] = c.cmd /\ ToSend(c)[2] = c.data0
        BY <2>3, SentIs, Zenon
      <3>2. smc' = smc_write_data(smc, c.cmd, c.data0)
        BY <1>5, <3>1 DEF DoWrite
      <3>3. /\ smc' \in SmcTypes
            /\ smc'.watchdog = TRUE => smc.watchdog = TRUE /\ c.cmd # ResponseReg
            /\ smc'.reset_requested = TRUE => smc.reset_requested = TRUE \/ c.cmd = PowerReg
        BY <1>1, <3>2, SmcWrites, Zenon DEF HostTypes
      <3> QED BY <1>3, <1>5, <2>1, <2>2, <3>3, Zenon DEF Landed, HostTypes, SmcTypes
    <2>4. CASE c.prot # "BYTE_DATA"
      <3>1. Len(ToSend(c)) <= 1 /\ Len(ToSend(c)) \in Nat
        <4>1. c.prot = "BYTE" => Payload(c) = <<>>
          BY Zenon DEF Payload
        <4> QED BY <1>1, <1>2, <1>5, <2>4, <4>1, SentIs
      <3>2. smc' = smc
        BY <1>5, <3>1 DEF DoWrite
      <3> QED BY <1>3, <1>5, <2>1, <2>2, <2>4, <3>2, Zenon DEF Landed, HostTypes
    <2> QED BY <2>3, <2>4, Zenon
  <1> QED BY <1>4, <1>5, Zenon DEF Slaves

LEMMA EndWriteStep ==
  ASSUME HostTypes, UNCHANGED <<drv, before>>, BusStep(drv.call.addr), NEW c \in Calls, c = drv.call, Writes(c),
         eeprom.data = before, Talking("WRITE_DATA", ToSend(c), 0, 0), bus.todo = End
  PROVE  /\ AllIdle' /\ bus' = [todo |-> <<>>, got |-> bus.got]
         /\ eeprom' \in [data : [Byte -> Byte], offset : Byte]
         /\ smc' \in SmcTypes
         /\ Landed(c)' /\ faults' = faults
         /\ smc'.watchdog = TRUE => smc.watchdog = TRUE
         /\ smc'.reset_requested = TRUE =>
              smc.reset_requested = TRUE \/ (c.addr = "smc" /\ c.cmd = PowerReg)
  <1> DEFINE o == Op("end", 0)
  <1>1. o \in Ops /\ o.op = "end" /\ <<>> \in Seq(Ops)
    BY OpTypes DEF Op
  <1> HIDE DEF o
  <1>2. bus.todo = <<o>> \o <<>>
    BY <1>1 DEF o, End
  <1>3. c.read = FALSE
    BY CallsAssumption, Zenon DEF Writes
  <1>4. CASE c.addr \notin Slaves
    <2>1. AllIdle
      BY <1>4, Zenon DEF Talking
    <2>2. /\ bus' = [todo |-> <<>>, got |-> bus.got]
          /\ UNCHANGED <<current_dev, slave, eeprom, smc, faults>>
      BY <1>1, <1>2, <1>4, <2>1, Unheard, Zenon
    <2>3. WrittenTo(c) = before
      BY <1>4, SentIs, NothingWritten, Zenon DEF HostTypes, Slaves
    <2>4. WrittenTo(c)' = WrittenTo(c)
      BY Zenon DEF WrittenTo
    <2>5. Landed(c)'
      BY <1>4, <2>2, <2>3, <2>4, Zenon DEF Landed, Slaves
    <2> QED BY <2>1, <2>2, <2>5, Zenon DEF AllIdle, HostTypes
  <1>5. CASE c.addr \in Slaves
    <2>1. Answered(c.addr, o) /\ bus' = [todo |-> <<>>, got |-> bus.got] /\ current_dev' = "none"
      BY <1>1, <1>2, <1>5, Heard, TalkingIs, Zenon
    <2>2. slave[c.addr].mode = "WRITE_DATA" /\ slave[c.addr].data_buf = ToSend(c)
      <3>1. slave[c.addr] = SlaveRec("WRITE_DATA", ToSend(c), 0, 0)
        BY <1>5, TalkingIs
      <3> QED BY <3>1 DEF SlaveRec
    <2>3. Finish(c.addr)
      BY <1>1, <2>1, Zenon DEF Answered
    <2>4. DoWrite(c.addr, ToSend(c)) /\ Becomes(c.addr, IdleSlave)
      BY <2>2, <2>3, Zenon DEF Finish
    <2>5. ~(c.addr = "smc" /\ Len(ToSend(c)) > 2)
      <3>1. c.addr = "smc" => Len(Payload(c)) <= 1 /\ Len(Payload(c)) \in Nat
        BY <1>3, SentTypes
      <3>2. CASE c.prot = "QUICK"
        BY <3>2, SentIs
      <3>3. CASE c.prot # "QUICK"
        <4>1. Len(ToSend(c)) = 1 + Len(Payload(c))
          BY <3>3, SentIs, Zenon
        <4> QED BY <3>1, <4>1
      <3> QED BY <3>2, <3>3, Zenon
    <2>6. faults' = faults
      <3>1. faults' = (faults \/ slave[c.addr].mode = "READ_DATA"
                 \/ (c.addr = "smc" /\ slave[c.addr].mode = "WRITE_DATA" /\ Len(slave[c.addr].data_buf) > 2))
        BY <2>3, Zenon DEF Finish
      <3> QED BY <2>2, <2>5, <3>1, Zenon DEF HostTypes
    <2>7. slave' = [d \in Slaves |-> IdleSlave]
      BY <1>5, <2>4, TalkingIs, Zenon DEF Becomes
    <2>8. /\ eeprom' \in [data : [Byte -> Byte], offset : Byte]
          /\ smc' \in SmcTypes
          /\ Landed(c)'
          /\ smc'.watchdog = TRUE => smc.watchdog = TRUE
          /\ smc'.reset_requested = TRUE =>
               smc.reset_requested = TRUE \/ (c.addr = "smc" /\ c.cmd = PowerReg)
      BY <1>5, <2>4, DoWriteLands, Zenon
    <2> QED BY <2>1, <2>6, <2>7, <2>8, Zenon DEF AllIdle
  <1> QED BY <1>4, <1>5, Zenon

-----------------------------------------------------------------------------
(* From one phase of a command to the next.                                *)

Progress(c) ==
  /\ eeprom' \in [data : [Byte -> Byte], offset : Byte]
  /\ smc' \in SmcTypes
  /\ faults' = faults /\ bus' = [todo |-> bus'.todo, got |-> bus'.got]
  /\ Underway(c)' \/ (Over(c)' /\ Landed(c)')
  /\ smc'.watchdog = TRUE => smc.watchdog = TRUE
  /\ smc'.reset_requested = TRUE =>
       smc.reset_requested = TRUE \/ (c.addr = "smc" /\ c.cmd = PowerReg)

\* An operation that changes neither the EEPROM's contents nor the SMC.
LEMMA QuietProgress ==
  ASSUME HostTypes, NEW c, eeprom.data = before, UNCHANGED before,
         eeprom' \in [data : [Byte -> Byte], offset : Byte], eeprom'.data = eeprom.data,
         UNCHANGED <<smc, faults>>, bus' = [todo |-> bus'.todo, got |-> bus'.got],
         \/ Underway(c)' \/ (Over(c)' /\ Landed(c)')
  PROVE  Progress(c)
BY Zenon DEF Progress, HostTypes

LEMMA WriteStartStep ==
  ASSUME HostTypes, UNCHANGED hostVars, BusStep(drv.call.addr), NEW c \in Calls, c = drv.call,
         eeprom.data = before, bus.got = <<>>, WriteStart(c)
  PROVE  Progress(c)
  <1>1. c.read = FALSE /\ ToSend(c) \in Seq(Byte)
    BY CallsAssumption, SentTypes, Zenon DEF WriteStart, Writes
  <1>2. /\ Op("start", FALSE) \in Ops /\ Sends(ToSend(c)) \in Seq(Ops) /\ End \in Seq(Ops)
        /\ Sends(ToSend(c)) \o End \in Seq(Ops)
    BY <1>1, OpTypes, ConcatProperties, Zenon
  <1>3. bus.todo = <<Op("start", FALSE)>> \o (Sends(ToSend(c)) \o End)
    <2> DEFINE o == Op("start", FALSE)
    <2>1. bus.todo = (<<o>> \o Sends(ToSend(c))) \o End /\ o \in Ops
      BY <1>2, Zenon DEF WriteStart, Written, End
    <2> HIDE DEF o
    <2>2. <<o>> \in Seq(Ops)
      BY <2>1
    <2>3. bus.todo = <<o>> \o (Sends(ToSend(c)) \o End)
      BY <1>2, <2>1, <2>2, ConcatAssociative
    <2> QED BY <2>3, Zenon DEF o
  <1>4. /\ Talking("WRITE_DATA", <<>>, 0, 0)'
        /\ bus' = [todo |-> Sends(ToSend(c)) \o End, got |-> bus.got] /\ UNCHANGED <<eeprom, smc, faults>>
    BY <1>2, <1>3, StartStep, Zenon DEF WriteStart, hostVars
  <1>5. SubSeq(ToSend(c), 1, 0) = <<>> /\ Unsent(c, 0) = ToSend(c) /\ 0 \in 0 .. Len(ToSend(c))
    BY <1>1, SubSeqEmpty, SubSeqFull DEF Unsent
  <1>6. Sending(c, 0)'
    BY <1>4, <1>5, Zenon DEF Sending, WriteStart
  <1>7. Underway(c)'
    BY <1>4, <1>5, <1>6, Zenon DEF Underway, hostVars
  <1> QED BY <1>4, <1>7, QuietProgress, Zenon DEF hostVars, HostTypes

LEMMA SendingStep ==
  ASSUME HostTypes, UNCHANGED hostVars, BusStep(drv.call.addr), NEW c \in Calls, c = drv.call,
         eeprom.data = before, bus.got = <<>>, NEW k \in 0 .. Len(ToSend(c)), Sending(c, k)
  PROVE  Progress(c)
  <1> DEFINE all == ToSend(c)
  <1>1. c.read = FALSE /\ all \in Seq(Byte) /\ Len(all) \in Nat /\ End \in Seq(Ops)
    BY CallsAssumption, SentTypes, OpTypes DEF Sending, Writes
  <1>2. Writes(c) /\ Talking("WRITE_DATA", SubSeq(all, 1, k), 0, 0) /\ bus.todo = Sends(Unsent(c, k)) \o End
    BY Zenon DEF Sending
  <1>3. CASE k = Len(all)
    <2>1. SubSeq(all, 1, k) = all
      BY <1>1, <1>3, SubSeqFull, Zenon
    <2>2. Unsent(c, k) = <<>>
      <3>1. SubSeq(all, Len(all) + 1, Len(all)) = <<>>
        BY <1>1, SubSeqEmpty
      <3> QED BY <1>3, <3>1, Zenon DEF Unsent
    <2>3. Sends(Unsent(c, k)) = <<>>
      BY <2>2 DEF Sends
    <2>4. bus.todo = End
      BY <1>1, <1>2, <2>3
    <2> HIDE DEF all
    <2>5. Talking("WRITE_DATA", ToSend(c), 0, 0)
      BY <1>2, <2>1, Zenon DEF all
    <2>6. /\ AllIdle' /\ bus' = [todo |-> <<>>, got |-> bus.got]
          /\ eeprom' \in [data : [Byte -> Byte], offset : Byte]
          /\ smc' \in SmcTypes
          /\ Landed(c)' /\ faults' = faults
          /\ smc'.watchdog = TRUE => smc.watchdog = TRUE
          /\ smc'.reset_requested = TRUE =>
               smc.reset_requested = TRUE \/ (c.addr = "smc" /\ c.cmd = PowerReg)
      BY <1>2, <2>4, <2>5, EndWriteStep, Zenon DEF hostVars
    <2>7. Over(c)'
      BY <1>1, <2>6, Zenon DEF Over, GotAll
    <2> QED BY <2>6, <2>7, Zenon DEF Progress
  <1>4. CASE k < Len(all)
    <2>1. k + 1 \in 1 .. Len(all) /\ Len(all) \in k + 1 .. Len(all) /\ k + 1 \in 0 .. Len(all)
      BY <1>1, <1>4
    <2>2. /\ Unsent(c, k) \in Seq(Byte) /\ Unsent(c, k) # <<>>
          /\ Head(Unsent(c, k)) = all[k + 1] /\ Tail(Unsent(c, k)) = Unsent(c, k + 1)
      <3>1. Head(Unsent(c, k)) = all[k + 1] /\ Tail(Unsent(c, k)) = Unsent(c, k + 1)
        BY <1>1, <2>1, HeadTailOfSubSeq, Zenon DEF Unsent
      <3>2. Unsent(c, k) \in Seq(Byte) /\ Len(Unsent(c, k)) = Len(all) - (k + 1) + 1
        BY <1>1, <2>1, SubSeqProperties DEF Unsent
      <3>3. Unsent(c, k) # <<>>
        BY <1>1, <1>4, <3>2
      <3> QED BY <3>1, <3>2, <3>3, Zenon
    <2>3. all[k + 1] \in Byte
      BY <1>1, <2>1
    <2>4. SubSeq(all, 1, k + 1) = Append(SubSeq(all, 1, k), all[k + 1])
      <3>1. 1 \in 1 .. Len(all) /\ k + 1 \in 1 .. Len(all) /\ k + 1 - 1 = k
        BY <1>1, <2>1
      <3>2. SubSeq(all, 1, k + 1) = SubSeq(all, 1, k) \o <<all[k + 1]>>
        BY <1>1, <3>1, SubSeqRecursiveSecond
      <3>3. SubSeq(all, 1, k) \in Seq(Byte)
        BY <1>1, <2>1, SubSeqProperties
      <3> HIDE DEF all
      <3> QED BY <2>3, <3>2, <3>3, AppendIsConcat, Zenon
    <2>5. /\ bus.todo = <<Op("send", all[k + 1])>> \o (Sends(Unsent(c, k + 1)) \o End)
          /\ Sends(Unsent(c, k + 1)) \o End \in Seq(Ops)
      <3>1. /\ Sends(Unsent(c, k)) \o End = <<Op("send", Head(Unsent(c, k)))>> \o (Sends(Tail(Unsent(c, k))) \o End)
            /\ Sends(Tail(Unsent(c, k))) \o End \in Seq(Ops)
        BY <1>1, <2>2, SendsCons, Zenon
      <3> QED BY <1>2, <2>2, <3>1, Zenon
    <2> HIDE DEF all
    <2>6. /\ Talking("WRITE_DATA", Append(SubSeq(all, 1, k), all[k + 1]), 0, 0)'
          /\ bus' = [todo |-> Sends(Unsent(c, k + 1)) \o End, got |-> bus.got]
          /\ UNCHANGED <<eeprom, smc, faults>>
      BY <1>2, <2>3, <2>5, SendStep, Zenon DEF hostVars
    <2>7. Sending(c, k + 1)'
      BY <1>2, <2>4, <2>6, Zenon DEF Sending, all
    <2>8. Underway(c)'
      BY <2>1, <2>6, <2>7, Zenon DEF Underway, hostVars, all
    <2> QED BY <2>6, <2>8, QuietProgress, Zenon DEF hostVars, HostTypes
  <1> QED BY <1>1, <1>3, <1>4

LEMMA QuickStartStep ==
  ASSUME HostTypes, UNCHANGED hostVars, BusStep(drv.call.addr), NEW c \in Calls, c = drv.call,
         eeprom.data = before, bus.got = <<>>, QuickStart(c)
  PROVE  Progress(c)
  <1>1. End \in Seq(Ops)
    BY OpTypes, Zenon
  <1>2. /\ Talking("RECV_BYTE", <<>>, 0, 0)' /\ bus' = [todo |-> End, got |-> bus.got]
        /\ UNCHANGED <<eeprom, smc, faults>>
    BY <1>1, StartStep, ZenonT(30) DEF QuickStart, hostVars
  <1>3. Ending(c)'
    <2>1. 0 \in 0 .. MaxBlock + 1 /\ 0 \in Byte
      BY SizesAssumption DEF Byte
    <2> QED BY <1>2, <2>1, Zenon DEF Ending, QuickStart, GotAll
  <1>4. Underway(c)'
    BY <1>2, <1>3, Zenon DEF Underway, hostVars
  <1> QED BY <1>2, <1>4, QuietProgress, Zenon DEF hostVars, HostTypes

LEMMA ByteStartStep ==
  ASSUME HostTypes, UNCHANGED hostVars, BusStep(drv.call.addr), NEW c \in Calls, c = drv.call,
         eeprom.data = before, bus.got = <<>>, ByteStart(c)
  PROVE  Progress(c)
  <1>1. Recvs(1) \o NackEnd \in Seq(Ops)
    BY OpTypes
  <1>2. /\ Talking("RECV_BYTE", <<>>, 0, 0)' /\ bus' = [todo |-> Recvs(1) \o NackEnd, got |-> bus.got]
        /\ UNCHANGED <<eeprom, smc, faults>>
    BY <1>1, StartStep, Zenon DEF ByteStart, hostVars
  <1>3. ByteRecv(c)'
    BY <1>2, Zenon DEF ByteRecv, ByteStart
  <1>4. Underway(c)'
    BY <1>2, <1>3, Zenon DEF Underway, hostVars
  <1> QED BY <1>2, <1>4, QuietProgress, Zenon DEF hostVars, HostTypes

LEMMA ByteRecvStep ==
  ASSUME HostTypes, UNCHANGED hostVars, BusStep(drv.call.addr), NEW c \in Calls, c = drv.call,
         eeprom.data = before, bus.got = <<>>, ByteRecv(c)
  PROVE  Progress(c)
  <1>1. bus.todo = <<Op("recv", 0)>> \o NackEnd /\ NackEnd \in Seq(Ops)
    <2>1. NackEnd \in Seq(Ops)
      BY OpTypes, Zenon
    <2>2. PICK m \in Nat \ {0} : m = 1 /\ m - 1 = 0
      OBVIOUS
    <2>3. Recvs(m) \o NackEnd = <<Op("recv", 0)>> \o (Recvs(m - 1) \o NackEnd)
      BY <2>1, RecvsCons, Zenon
    <2>4. Recvs(0) \o NackEnd = NackEnd
      BY <2>1, RecvsNone, Zenon
    <2> QED BY <2>1, <2>2, <2>3, <2>4, Zenon DEF ByteRecv
  <1>2. /\ Talking("DONE", <<>>, 0, 0)'
        /\ bus' = [todo |-> NackEnd, got |-> bus'.got] /\ bus'.got \in Seq(Byte) /\ Len(bus'.got) = 1
        /\ eeprom' \in [data : [Byte -> Byte], offset : Byte] /\ eeprom'.data = eeprom.data
        /\ UNCHANGED <<smc, faults>>
    BY <1>1, ByteStep, Zenon DEF ByteRecv, hostVars
  <1>3. GotAll(c)'
    BY <1>2, Zenon DEF GotAll, GotRight, ByteRecv, Asking, Total
  <1>4. ByteNack(c)'
    BY <1>2 DEF ByteNack, ByteRecv
  <1>5. Underway(c)'
    BY <1>2, <1>3, <1>4, Zenon DEF Underway, hostVars
  <1>6. bus' = [todo |-> bus'.todo, got |-> bus'.got]
    BY <1>2, Zenon
  <1> QED BY <1>2, <1>5, <1>6, QuietProgress, Zenon DEF hostVars

LEMMA GotAllKept ==
  ASSUME NEW c, GotAll(c), UNCHANGED before, bus'.got = bus.got
  PROVE  GotAll(c)'
BY Zenon DEF GotAll, GotRight, Total, Cell

LEMMA ByteNackStep ==
  ASSUME HostTypes, UNCHANGED hostVars, BusStep(drv.call.addr), NEW c \in Calls, c = drv.call,
         eeprom.data = before, ByteNack(c), GotAll(c)
  PROVE  Progress(c)
  <1>1. /\ Talking("DONE", <<>>, 0, 0)' /\ bus' = [todo |-> End, got |-> bus.got]
        /\ UNCHANGED <<eeprom, smc, faults>>
    BY NackStep, Zenon DEF ByteNack, hostVars
  <1>2. GotAll(c)'
    BY <1>1, GotAllKept, Zenon DEF hostVars
  <1>3. Ending(c)'
    <2>1. 0 \in 0 .. MaxBlock + 1 /\ 0 \in Byte
      BY SizesAssumption DEF Byte
    <2> QED BY <1>1, <1>2, <2>1, Zenon DEF Ending, ByteNack
  <1>4. Underway(c)'
    BY <1>1, <1>3, Zenon DEF Underway, hostVars
  <1> QED BY <1>1, <1>4, QuietProgress, Zenon DEF hostVars, HostTypes

LEMMA EndingStep ==
  ASSUME HostTypes, UNCHANGED hostVars, BusStep(drv.call.addr), NEW c \in Calls, c = drv.call,
         eeprom.data = before, Ending(c)
  PROVE  Progress(c)
  <1>1. /\ AllIdle' /\ bus' = [todo |-> <<>>, got |-> bus.got]
        /\ UNCHANGED <<eeprom, smc, faults>>
    BY EndReadStep, Zenon DEF Ending, hostVars
  <1>2. GotAll(c)'
    BY <1>1, GotAllKept, Zenon DEF hostVars, Ending
  <1>3. WrittenTo(c)' = before
    <2>1. WrittenBytes(c) = <<>>
      BY Zenon DEF WrittenBytes, Ending
    <2> QED BY <2>1 DEF WrittenTo, hostVars, HostTypes
  <1>4. Over(c)' /\ Landed(c)'
    BY <1>1, <1>2, <1>3, Zenon DEF Over, Landed, Ending
  <1> QED BY <1>1, <1>4, QuietProgress, Zenon DEF hostVars, HostTypes

LEMMA AskTypes ==
  ASSUME NEW c \in Calls, Asks(c)
  PROVE  /\ c.cmd \in Byte /\ AskOps(c) \in Seq(Ops) /\ AskOps(c) \o NackEnd \in Seq(Ops) /\ Turn(c) \in Seq(Ops)
         /\ NackEnd \in Seq(Ops)
  <1>1. c.cmd \in Byte /\ NackEnd \in Seq(Ops)
    BY CallsAssumption, OpTypes, Zenon
  <1>2. AskOps(c) \in Seq(Ops)
    <2>1. Recvs(1) \in Seq(Ops) /\ Recvs(2) \in Seq(Ops) /\ <<Op("length", 0)>> \in Seq(Ops)
      BY OpTypes
    <2> QED BY <2>1, Zenon DEF AskOps, Asks, Asking
  <1>3. AskOps(c) \o NackEnd \in Seq(Ops)
    BY <1>1, <1>2, ConcatProperties, Zenon
  <1>4. Turn(c) \in Seq(Ops)
    <2> DEFINE o == Op("start", TRUE)
    <2>1. o \in Ops
      BY OpTypes, Zenon
    <2> HIDE DEF o
    <2>2. <<o>> \o (AskOps(c) \o NackEnd) \in Seq(Ops)
      BY <1>3, <2>1, Cons, Zenon
    <2> QED BY <2>2, Zenon DEF Turn, o
  <1> QED BY <1>1, <1>2, <1>3, <1>4, Zenon

LEMMA TotalTypes ==
  ASSUME HostTypes, NEW c \in Calls, Asks(c)
  PROVE  /\ Total(c) \in 1 .. MaxBlock + 1 /\ Cell(c.cmd) \in Byte
         /\ c.prot = "BYTE_DATA" => Total(c) = 1
         /\ c.prot = "WORD_DATA" => Total(c) = 2
         /\ c.addr = "smc" => c.prot = "BYTE_DATA"
         /\ c.prot = "BLOCK_DATA" =>
              Total(c) = 1 + IF c.addr = "eeprom" /\ Cell(c.cmd) <= MaxBlock THEN Cell(c.cmd) ELSE 0
  <1>1. c.cmd \in Byte /\ (c.addr = "smc" => c.prot \in {"QUICK", "BYTE", "BYTE_DATA"})
    BY CallsAssumption, Zenon
  <1>2. Cell(c.cmd) \in Byte
    <2>1. c.cmd % Bytes = c.cmd
      BY <1>1, SizesAssumption, ModSmall DEF Byte
    <2> QED BY <1>1, <2>1, Zenon DEF Cell, HostTypes
  <1>3. Cell(c.cmd) \in Nat /\ MaxBlock \in Nat /\ MaxBlock >= 1
    BY <1>2, ByteTypes, SizesAssumption, Zenon
  <1> QED BY <1>1, <1>2, <1>3 DEF Total, Asks, Asking

LEMMA AskStartStep ==
  ASSUME HostTypes, UNCHANGED hostVars, BusStep(drv.call.addr), NEW c \in Calls, c = drv.call,
         eeprom.data = before, bus.got = <<>>, AskStart(c)
  PROVE  Progress(c)
  <1>1. c.cmd \in Byte /\ Turn(c) \in Seq(Ops)
    BY AskTypes, Zenon DEF AskStart
  <1>2. <<Op("send", c.cmd)>> \o Turn(c) \in Seq(Ops)
    <2>1. Op("send", c.cmd) \in Ops
      BY <1>1, OpTypes, Zenon
    <2> QED BY <1>1, <2>1, Cons, Zenon
  <1>3. /\ Talking("WRITE_DATA", <<>>, 0, 0)'
        /\ bus' = [todo |-> <<Op("send", c.cmd)>> \o Turn(c), got |-> bus.got]
        /\ UNCHANGED <<eeprom, smc, faults>>
    BY <1>2, StartStep, Zenon DEF AskStart, hostVars
  <1>4. AskSend(c)'
    BY <1>3, Zenon DEF AskSend, AskStart
  <1>5. Underway(c)'
    BY <1>3, <1>4, Zenon DEF Underway, hostVars
  <1> QED BY <1>3, <1>5, QuietProgress, ZenonT(30) DEF hostVars, HostTypes

LEMMA AskSendStep ==
  ASSUME HostTypes, UNCHANGED hostVars, BusStep(drv.call.addr), NEW c \in Calls, c = drv.call,
         eeprom.data = before, bus.got = <<>>, AskSend(c)
  PROVE  Progress(c)
  <1>1. c.cmd \in Byte /\ Turn(c) \in Seq(Ops)
    BY AskTypes, Zenon DEF AskSend
  <1>2. Append(<<>>, c.cmd) = <<c.cmd>>
    OBVIOUS
  <1>3. /\ Talking("WRITE_DATA", <<c.cmd>>, 0, 0)' /\ bus' = [todo |-> Turn(c), got |-> bus.got]
        /\ UNCHANGED <<eeprom, smc, faults>>
    BY <1>1, <1>2, SendStep, Zenon DEF AskSend, hostVars
  <1>4. AskTurn(c)'
    BY <1>3, Zenon DEF AskTurn, AskSend
  <1>5. Underway(c)'
    BY <1>3, <1>4, Zenon DEF Underway, hostVars
  <1> QED BY <1>3, <1>5, QuietProgress, Zenon DEF hostVars, HostTypes

LEMMA AskTurnStep ==
  ASSUME HostTypes, UNCHANGED hostVars, BusStep(drv.call.addr), NEW c \in Calls, c = drv.call,
         eeprom.data = before, bus.got = <<>>, AskTurn(c)
  PROVE  Progress(c)
  <1>1. c.cmd \in Byte /\ AskOps(c) \o NackEnd \in Seq(Ops) /\ Asks(c)
    BY AskTypes, Zenon DEF AskTurn
  <1>2. /\ Talking("READ_DATA", <<>>, 0, c.cmd)' /\ bus' = [todo |-> AskOps(c) \o NackEnd, got |-> bus.got]
        /\ UNCHANGED <<eeprom, smc, faults>>
    BY <1>1, TurnStep, Zenon DEF AskTurn, Turn, hostVars
  <1>3. CASE c.prot = "BLOCK_DATA"
    <2>1. AskLength(c)'
      BY <1>1, <1>2, <1>3 DEF AskLength, AskOps
    <2> QED BY <1>2, <2>1, QuietProgress, Zenon DEF Underway, hostVars, HostTypes
  <1>4. CASE c.prot \in {"BYTE_DATA", "WORD_DATA"}
    <2>1. AskOps(c) = Recvs(Total(c)) /\ Total(c) \in Nat
      BY <1>1, <1>4, TotalTypes DEF AskOps
    <2>2. Total(c)' = Total(c)
      BY Zenon DEF Total, Cell, hostVars
    <2>3. bus'.got = <<>> /\ Len(bus'.got) = 0 /\ bus'.got \in Seq(Byte) /\ Total(c) - 0 = Total(c)
      BY <1>2, <2>1
    <2>4. GotRight(c)'
      BY <2>3 DEF GotRight
    <2>5. bus'.todo = Recvs(Total(c) - Len(bus'.got)) \o NackEnd
      BY <1>2, <2>1, <2>3, Zenon
    <2>6. Reading(c)'
      BY <1>1, <1>2, <2>1, <2>2, <2>3, <2>4, <2>5 DEF Reading
    <2> QED BY <1>2, <2>6, QuietProgress, Zenon DEF Underway, hostVars, HostTypes
  <1> QED BY <1>1, <1>3, <1>4, Zenon DEF Asks, Asking

LEMMA AskLengthStep ==
  ASSUME HostTypes, UNCHANGED hostVars, BusStep(drv.call.addr), NEW c \in Calls, c = drv.call,
         eeprom.data = before, bus.got = <<>>, AskLength(c)
  PROVE  Progress(c)
  <1>1. c.cmd \in Byte /\ NackEnd \in Seq(Ops) /\ Asks(c) /\ c.prot = "BLOCK_DATA"
    BY AskTypes, Zenon DEF AskLength
  <1>2. /\ Total(c) \in 1 .. MaxBlock + 1 /\ c.addr # "smc"
        /\ Total(c) = 1 + IF c.addr = "eeprom" /\ Cell(c.cmd) <= MaxBlock THEN Cell(c.cmd) ELSE 0
    BY <1>1, TotalTypes, Zenon
  <1>3. 0 \in 0 .. MaxBlock /\ c.cmd + 0 = c.cmd /\ 0 + 1 = 1 /\ MaxBlock \in Nat
    BY <1>1, SizesAssumption DEF Byte
  <1>4. PICK b \in Byte :
         /\ Talking("READ_DATA", <<>>, 0 + 1, c.cmd)'
         /\ bus' = [todo |-> IF c.addr \in Slaves THEN Follow(b) \o NackEnd ELSE NackEnd,
                    got |-> Append(bus.got, b)]
         /\ eeprom' \in [data : [Byte -> Byte], offset : Byte] /\ eeprom'.data = eeprom.data
         /\ c.addr = "eeprom" => b = Cell(c.cmd + 0) /\ eeprom'.offset = (c.cmd + (0 + 1)) % Bytes
         /\ UNCHANGED <<smc, faults>>
    <2>1. PICK n \in 0 .. MaxBlock : n = 0
      BY <1>3, Zenon
    <2>2. PICK op \in {"recv", "length"} : op = "length"
      BY Zenon
    <2>0. PICK rest \in Seq(Ops) : rest = NackEnd
      BY <1>1, Zenon
    <2>3. /\ Talking("READ_DATA", <<>>, n, c.cmd) /\ bus.todo = <<Op(op, 0)>> \o rest
          /\ (c.addr = "smc" => n = 0) /\ UNCHANGED drv
          /\ (c.addr = "eeprom" /\ n # 0 => eeprom.offset = (c.cmd + n) % Bytes)
      BY <1>2, <2>0, <2>1, <2>2, Zenon DEF AskLength, hostVars
    <2>4. \E b \in Byte : Reads(c, n, op, rest, b)
      BY <1>1, <2>3, ReadStep, Zenon
    <2> QED BY <2>0, <2>1, <2>2, <2>4, Zenon DEF Reads
  <1>5. /\ bus'.got = <<b>> /\ Len(bus'.got) = 1 /\ bus'.got \in Seq(Byte) /\ bus'.got[1] = b
        /\ bus' = [todo |-> bus'.todo, got |-> bus'.got]
    <2>1. PICK q : q = IF c.addr \in Slaves THEN Follow(b) \o NackEnd ELSE NackEnd
      BY ZenonT(30)
    <2>2. bus' = [todo |-> q, got |-> Append(bus.got, b)]
      BY <1>4, <2>1, Zenon
    <2>3. Append(bus.got, b) = <<b>>
      OBVIOUS
    <2>4. bus'.got = <<b>> /\ bus' = [todo |-> bus'.todo, got |-> bus'.got]
      BY ONLY <2>2, <2>3, Zenon
    <2>5. Len(<<b>>) = 1 /\ <<b>> \in Seq(Byte) /\ <<b>>[1] = b
      BY ONLY b \in Byte
    <2> QED BY ONLY <2>4, <2>5, Zenon
  <1>6. UNCHANGED before /\ Total(c)' = Total(c)
    BY Zenon DEF Total, Cell, hostVars
  <1>7. GotRight(c)'
    <2>1. c.addr = "eeprom" => \A i \in 1 .. 1 : bus'.got[i] = Cell(c.cmd + i - 1)
      BY <1>1, <1>3, <1>4, <1>5 DEF Byte
    <2>2. c.addr = "eeprom" => \A i \in 1 .. Len(bus'.got) : bus'.got[i] = Cell(c.cmd + i - 1)'
      BY <1>5, <1>6, <2>1, Zenon DEF Cell
    <2> QED BY <1>5, <2>2 DEF GotRight
  <1>8. bus'.todo = Recvs(Total(c) - 1) \o NackEnd
    <2>1. CASE c.addr \notin Slaves
      <3>1. Total(c) - 1 = 0
        BY <1>2, <2>1 DEF Slaves
      <3>2. bus'.todo = NackEnd
        BY <1>4, <2>1, Zenon
      <3> QED BY <1>1, <3>1, <3>2, RecvsNone, Zenon
    <2>2. CASE c.addr \in Slaves
      <3>1. c.addr = "eeprom" /\ bus'.todo = Follow(b) \o NackEnd /\ b = Cell(c.cmd) /\ b \in Nat
        BY <1>2, <1>3, <1>4, <2>2, ByteTypes, Zenon DEF Slaves
      <3>2. Follow(b) = Recvs(Total(c) - 1)
        <4>1. CASE b <= MaxBlock
          <5>1. Total(c) - 1 = b /\ ~(b > MaxBlock)
            BY <1>2, <1>3, <3>1, <4>1
          <5> QED BY <5>1, Zenon DEF Follow, Recvs
        <4>2. CASE b > MaxBlock
          <5>1. Total(c) - 1 = 0
            BY <1>2, <1>3, <3>1, <4>2
          <5>2. Recvs(0) = <<>>
            BY DEF Recvs
          <5> QED BY <4>2, <5>1, <5>2, Zenon DEF Follow
        <4> QED BY <1>3, <3>1, <4>1, <4>2
      <3> QED BY <3>1, <3>2, Zenon
    <2> QED BY <2>1, <2>2, Zenon
  <1>9. Reading(c)'
    <2>1. Talking("READ_DATA", <<>>, 1, c.cmd)'
      BY <1>3, <1>4, Zenon
    <2>2. c.addr = "eeprom" => eeprom'.offset = (c.cmd + 1) % Bytes
      BY <1>3, <1>4, Zenon
    <2>3. Len(bus'.got) <= Total(c)
      BY <1>2, <1>5
    <2> QED BY <1>1, <1>5, <1>6, <1>7, <1>8, <2>1, <2>2, <2>3, Zenon DEF Reading
  <1>10. Underway(c)'
    BY <1>4, <1>6, <1>9, Zenon DEF Underway
  <1> QED BY <1>4, <1>5, <1>6, <1>10, QuietProgress, Zenon

LEMMA ReadingStep ==
  ASSUME HostTypes, UNCHANGED hostVars, BusStep(drv.call.addr), NEW c \in Calls, c = drv.call,
         eeprom.data = before, Reading(c)
  PROVE  Progress(c)
  <1>1. c.cmd \in Byte /\ NackEnd \in Seq(Ops) /\ Asks(c)
    BY AskTypes, Zenon DEF Reading
  <1>2. Total(c) \in 1 .. MaxBlock + 1 /\ MaxBlock \in Nat /\ (c.addr = "smc" => Total(c) = 1)
    BY <1>1, TotalTypes, SizesAssumption, Zenon
  <1>3. PICK n \in 0 .. MaxBlock + 1 : n = Len(bus.got) /\ n <= Total(c)
    BY <1>2 DEF Reading, GotRight
  <1>4. UNCHANGED <<drv, before>> /\ Total(c)' = Total(c)
    BY Zenon DEF Total, Cell, hostVars
  <1>5. CASE n = Total(c)
    <2>1. Talking("READ_DATA", <<>>, n, c.cmd) /\ bus.todo = NackEnd
      <3>1. Total(c) - Len(bus.got) = 0
        BY <1>2, <1>3, <1>5
      <3> QED BY <1>1, <1>3, <3>1, RecvsNone, Zenon DEF Reading
    <2>2. /\ Talking("DONE", <<>>, n, c.cmd)' /\ bus' = [todo |-> End, got |-> bus.got]
          /\ UNCHANGED <<eeprom, smc, faults>>
      BY <1>4, <2>1, NackStep, Zenon
    <2>3. GotAll(c)
      BY <1>3, <1>5, Zenon DEF Reading, GotAll
    <2>4. GotAll(c)'
      BY <1>4, <2>2, <2>3, GotAllKept
    <2>5. Ending(c)'
      BY <1>1, <2>2, <2>4, Zenon DEF Ending, Asks
    <2> QED BY <1>4, <2>2, <2>5, QuietProgress, Zenon DEF Underway, HostTypes
  <1>6. CASE n < Total(c)
    <2>1. n \in 0 .. MaxBlock /\ Total(c) - n \in Nat \ {0} /\ Total(c) - n - 1 = Total(c) - (n + 1) /\ n \in Nat
      BY <1>2, <1>3, <1>6
    <2>2. PICK m \in Nat \ {0} : m = Total(c) - n /\ m - 1 = Total(c) - (n + 1)
      BY <2>1, Zenon
    <2>3. PICK rest \in Seq(Ops) : rest = Recvs(m - 1) \o NackEnd
      BY <1>1, RecvsCons, Zenon
    <2>4. PICK op \in {"recv", "length"} : op = "recv"
      BY Zenon
    <2>5. bus.todo = <<Op(op, 0)>> \o rest
      <3>1. Recvs(m) \o NackEnd = <<Op("recv", 0)>> \o (Recvs(m - 1) \o NackEnd)
        BY <1>1, RecvsCons, Zenon
      <3> QED BY <1>3, <2>2, <2>3, <2>4, <3>1, Zenon DEF Reading
    <2>6. /\ Talking("READ_DATA", <<>>, n, c.cmd) /\ (c.addr = "smc" => n = 0)
          /\ (c.addr = "eeprom" /\ n # 0 => eeprom.offset = (c.cmd + n) % Bytes)
      <3>1. n # 0 => bus.got # <<>>
        BY <1>3
      <3> QED BY <1>2, <1>3, <1>6, <3>1 DEF Reading
    <2>7. PICK b \in Byte : Reads(c, n, op, rest, b)
      BY <1>1, <1>4, <2>1, <2>5, <2>6, ReadStep, Zenon
    <2>8. /\ bus' = [todo |-> rest, got |-> Append(bus.got, b)] /\ Talking("READ_DATA", <<>>, n + 1, c.cmd)'
          /\ eeprom' \in [data : [Byte -> Byte], offset : Byte] /\ eeprom'.data = eeprom.data
          /\ c.addr = "eeprom" => b = Cell(c.cmd + n) /\ eeprom'.offset = (c.cmd + (n + 1)) % Bytes
          /\ UNCHANGED <<smc, faults>>
      BY <2>4, <2>7, Zenon DEF Reads
    <2>9. bus.got \in Seq(Byte)
      BY Zenon DEF Reading, GotRight
    <2>10. /\ bus'.got = Append(bus.got, b) /\ bus'.got \in Seq(Byte) /\ Len(bus'.got) = n + 1
           /\ bus'.got[n + 1] = b /\ \A i \in 1 .. n : bus'.got[i] = bus.got[i]
      BY <1>3, <2>8, <2>9
    <2>11. GotRight(c)'
      <3>1. ASSUME c.addr = "eeprom", NEW i \in 1 .. n + 1 PROVE bus'.got[i] = Cell(c.cmd + i - 1)
        <4>1. CASE i = n + 1
          <5>1. c.cmd + i - 1 = c.cmd + n
            BY <1>1, <2>1, <4>1 DEF Byte
          <5> QED BY <2>8, <2>10, <3>1, <4>1, <5>1, Zenon
        <4>2. CASE i # n + 1
          <5>1. i \in 1 .. Len(bus.got) /\ i \in 1 .. n
            BY <1>3, <2>1, <4>2
          <5> QED BY <1>1, <2>10, <3>1, <5>1, Zenon DEF Reading, GotRight, Asks
        <4> QED BY <4>1, <4>2, Zenon
      <3>2. \A i : Cell(c.cmd + i - 1)' = Cell(c.cmd + i - 1)
        BY <1>4, Zenon DEF Cell
      <3> QED BY <2>10, <3>1, <3>2, ZenonT(30) DEF GotRight
    <2>12. bus'.todo = Recvs(Total(c) - Len(bus'.got)) \o NackEnd
      BY <2>2, <2>3, <2>8, <2>10, Zenon
    <2>13. Len(bus'.got) <= Total(c) /\ bus'.got # <<>>
      <3>1. Len(bus'.got) <= Total(c) /\ Len(bus'.got) # 0
        BY <1>2, <1>6, <2>1, <2>10
      <3>2. Len(<<>>) = 0
        BY Zenon
      <3> QED BY <3>1, <3>2, Zenon
    <2>14. Reading(c)'
      BY <1>1, <1>4, <2>8, <2>10, <2>11, <2>12, <2>13, Zenon DEF Reading
    <2>15. Underway(c)'
      BY <1>4, <2>8, <2>14, Zenon DEF Underway
    <2>16. bus' = [todo |-> bus'.todo, got |-> bus'.got]
      BY <2>8, Zenon
    <2> QED BY <1>4, <2>8, <2>15, <2>16, QuietProgress, Zenon
  <1> QED BY <1>2, <1>3, <1>5, <1>6

\* Every operation moves the command on.
LEMMA OnBusStep ==
  ASSUME HostTypes, CommandInv, OnBus
  PROVE  drv.call \in Calls /\ Progress(drv.call)
  <1>1. UNCHANGED hostVars /\ BusStep(drv.call.addr) /\ drv.pc = "bus"
    BY Zenon DEF OnBus
  <1>2. PICK c \in Calls : c = drv.call
    BY <1>1, Zenon DEF HostTypes
  <1>3. Underway(c)
    <2>1. bus.todo # <<>>
      BY <1>1, Zenon DEF BusStep
    <2> QED BY <1>1, <1>2, <2>1, Zenon DEF CommandInv, Over
  <1>4. eeprom.data = before
    BY <1>3 DEF Underway
  <1>5. Progress(c)
    <2>1. CASE bus.got = <<>> /\ \E k \in 0 .. Len(ToSend(c)) : Sending(c, k)
      BY <1>1, <1>2, <1>4, <2>1, SendingStep, Zenon
    <2>2. CASE bus.got = <<>> /\ (WriteStart(c) \/ QuickStart(c) \/ ByteStart(c) \/ ByteRecv(c))
      BY <1>1, <1>2, <1>4, <2>2, WriteStartStep, QuickStartStep, ByteStartStep, ByteRecvStep
    <2>3. CASE bus.got = <<>> /\ (AskStart(c) \/ AskSend(c) \/ AskTurn(c) \/ AskLength(c))
      BY <1>1, <1>2, <1>4, <2>3, AskStartStep, AskSendStep, AskTurnStep, AskLengthStep, Zenon
    <2>4. CASE (ByteNack(c) /\ GotAll(c)) \/ Reading(c) \/ Ending(c)
      BY <1>1, <1>2, <1>4, <2>4, ByteNackStep, ReadingStep, EndingStep, Zenon
    <2> QED BY <1>3, <2>1, <2>2, <2>3, <2>4, Zenon DEF Underway
  <1> QED BY <1>2, <1>5, Zenon
=============================================================================
