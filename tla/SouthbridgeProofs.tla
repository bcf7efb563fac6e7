------------------------- MODULE SouthbridgeProofs -------------------------
(* The southbridge for every set of calls: the commands on the SMBus, the  *)
(* controller's interrupt and the SMC's resets.                            *)
EXTENDS SouthbridgeBus

-----------------------------------------------------------------------------
(* The driver's steps.                                                     *)

LEMMA InitCommands == Init => BusInv
  <1> SUFFICES ASSUME Init PROVE BusInv
    BY Zenon
  <1>1. 0 \in Byte /\ 0 \in 0 .. MaxBlock - 1
    BY SizesAssumption DEF Byte
  <1>2. drv.pc = "idle" /\ drv.call = NoCall /\ drv = [pc |-> drv.pc, call |-> drv.call, result |-> drv.result]
    BY Zenon DEF Init
  <1>3. HostTypes
    BY <1>1, <1>2, Zenon DEF Init, BusInit, HostTypes, NoImage, SmcTypes
  <1>4. CommandInv
    BY <1>2, Zenon DEF Init, BusInit, CommandInv, AllIdle
  <1> QED BY <1>2, <1>3, <1>4, Zenon DEF BusInv, WritesLand, ReadsReturn

\* The registers of the controller after each of the driver's accesses.
SmbTypes == [ctl : BOOLEAN, stat : SUBSET Statuses, data0 : Byte, data1 : Byte,
             data : [1 .. MaxBlock -> Byte], index : 0 .. MaxBlock - 1]

LEMMA WrapTypes ==
  /\ \A i \in Int : Wrap(i) \in 0 .. MaxBlock - 1
  /\ \A i \in 0 .. MaxBlock - 1 : Wrap(i) = i
  /\ \A i \in 0 .. MaxBlock - 1 : Wrap(i + MaxBlock) = i
  <1>1. MaxBlock \in Nat /\ MaxBlock > 0
    BY SizesAssumption
  <1>2. ASSUME NEW i \in Int PROVE Wrap(i) \in 0 .. MaxBlock - 1
    BY <1>1 DEF Wrap
  <1>3. ASSUME NEW i \in 0 .. MaxBlock - 1 PROVE Wrap(i) = i
    BY <1>1, ModSmall DEF Wrap
  <1>4. ASSUME NEW i \in 0 .. MaxBlock - 1 PROVE Wrap(i + MaxBlock) = i
    <2>1. PICK x \in Nat : x = i + MaxBlock
      BY <1>1
    <2>2. x % MaxBlock = x - MaxBlock
      BY <1>1, <2>1, ModWrap
    <2> QED BY <1>1, <2>1, <2>2 DEF Wrap
  <1> QED BY <1>2, <1>3, <1>4, Zenon

LEMMA StatusTypes ==
  ASSUME NEW s \in SmbTypes, NEW val
  PROVE  /\ StatusWritten(s, val) \in SmbTypes /\ StatusWritten(s, val).index = 0
         /\ StatusWritten(s, val).data0 = s.data0 /\ StatusWritten(s, val).data1 = s.data1
         /\ StatusWritten(s, val).data = s.data
  <1>1. 0 \in 0 .. MaxBlock - 1
    BY SizesAssumption
  <1> DEFINE st == IF val # {} THEN {} ELSE {"HCYC"}
             s1 == [s EXCEPT !.stat = st]
             s2 == [s1 EXCEPT !.index = 0]
  <1>2. st \in SUBSET Statuses
    BY Zenon DEF Statuses
  <1>3. StatusWritten(s, val) = s2
    BY Zenon DEF StatusWritten
  <1> HIDE DEF st
  <1>4. s1 \in SmbTypes /\ s1.data0 = s.data0 /\ s1.data1 = s.data1 /\ s1.data = s.data
    BY <1>2, Zenon DEF SmbTypes
  <1> HIDE DEF s1
  <1>5. s2 \in SmbTypes /\ s2.index = 0 /\ s2.data0 = s1.data0 /\ s2.data1 = s1.data1 /\ s2.data = s1.data
    BY <1>1, <1>4, Zenon DEF SmbTypes
  <1> QED BY <1>3, <1>4, <1>5, Zenon

\* Filling the block buffer from its start.
LEMMA StoredTypes ==
  ASSUME NEW s \in SmbTypes, s.index = 0, NEW bytes \in Seq(Byte), Len(bytes) <= MaxBlock
  PROVE  /\ Stored(s, bytes) \in SmbTypes
         /\ \A i \in 1 .. Len(bytes) : Stored(s, bytes).data[i] = bytes[i]
  <1> DEFINE k(i) == Wrap(i - 1 - s.index + MaxBlock) + 1
             d == [i \in 1 .. MaxBlock |-> IF k(i) <= Len(bytes) THEN bytes[k(i)] ELSE s.data[i]]
             x == Wrap(s.index + Len(bytes))
             s1 == [s EXCEPT !.data = d]
             s2 == [s1 EXCEPT !.index = x]
  <1>1. MaxBlock \in Nat /\ Len(bytes) \in Nat /\ s.data \in [1 .. MaxBlock -> Byte]
    BY SizesAssumption DEF SmbTypes
  <1>2. ASSUME NEW i \in 1 .. MaxBlock PROVE k(i) = i
    <2>1. PICK j \in 0 .. MaxBlock - 1 : j = i - 1
      BY <1>1
    <2>2. i - 1 - s.index + MaxBlock = j + MaxBlock
      BY <1>1, <2>1
    <2>3. Wrap(j + MaxBlock) = j
      BY WrapTypes, Zenon
    <2> QED BY <1>1, <2>1, <2>2, <2>3
  <1>3. x \in 0 .. MaxBlock - 1
    BY <1>1, WrapTypes
  <1>4. Stored(s, bytes) = s2
    BY Zenon DEF Stored
  <1> HIDE DEF k, x
  <1>5. d \in [1 .. MaxBlock -> Byte] /\ \A i \in 1 .. Len(bytes) : d[i] = bytes[i]
    BY <1>1, <1>2
  <1> HIDE DEF d
  <1>6. s1 \in SmbTypes /\ s1.data = d
    BY <1>5, Zenon DEF SmbTypes
  <1> HIDE DEF s1
  <1>7. s2 \in SmbTypes /\ s2.data = s1.data
    BY <1>3, <1>6, Zenon DEF SmbTypes
  <1> QED BY <1>4, <1>5, <1>6, <1>7, Zenon

LEMMA PrepareStep ==
  ASSUME BusInv, NEW c \in Calls, Prepare(c)
  PROVE  BusInv'
  <1>1. HostTypes /\ CommandInv /\ smb \in SmbTypes
    BY Zenon DEF BusInv, HostTypes, SmbTypes
  <1>2. c.block \in Seq(Byte) /\ Len(c.block) <= MaxBlock /\ c.data0 \in Byte /\ c.data1 \in Byte
    BY CallsAssumption, Zenon
  <1>3. PICK s \in SmbTypes : s = [smb EXCEPT !.ctl = FALSE, !.data0 = c.data0, !.data1 = c.data1]
    <2>1. PICK s1 \in SmbTypes : s1 = [smb EXCEPT !.ctl = FALSE]
      BY <1>1, Zenon DEF SmbTypes
    <2>2. PICK s2 \in SmbTypes : s2 = [s1 EXCEPT !.data0 = c.data0]
      BY <1>2, Zenon DEF SmbTypes
    <2>3. PICK s3 \in SmbTypes : s3 = [s2 EXCEPT !.data1 = c.data1]
      BY <1>2, Zenon DEF SmbTypes
    <2> QED BY <2>1, <2>2, <2>3, Zenon
  <1>4. PICK t \in SmbTypes : t = StatusWritten(s, {"HCYC"}) /\ t.index = 0
    BY StatusTypes, Zenon
  <1>5. PICK u \in SmbTypes : u = Stored(t, c.block) /\ \A i \in 1 .. Len(c.block) : u.data[i] = c.block[i]
    BY <1>2, <1>4, StoredTypes, Zenon
  <1>6. smb' = u
    BY <1>3, <1>4, <1>5, Zenon DEF Prepare
  <1>7. /\ drv' = [pc |-> "filled", call |-> c, result |-> <<>>] /\ drv.pc = "idle"
        /\ UNCHANGED <<current_dev, slave, eeprom, smc, bus, faults, before, answered>>
    BY Zenon DEF Prepare, busVars
  <1>8. drv'.pc = "filled" /\ drv'.call = c /\ drv' = [pc |-> drv'.pc, call |-> drv'.call, result |-> drv'.result]
    BY <1>7, Zenon
  <1>9. HostTypes'
    BY <1>1, <1>6, <1>7, <1>8, Zenon DEF HostTypes, SmbTypes
  <1>10. CommandInv'
    BY <1>1, <1>5, <1>6, <1>7, <1>8 DEF CommandInv, AllIdle
  <1> QED BY <1>8, <1>9, <1>10, Zenon DEF BusInv, WritesLand, ReadsReturn

LEMMA Pair ==
  ASSUME NEW T, NEW x \in T, NEW y \in T
  PROVE  <<x>> \o <<y>> = <<x, y>> /\ <<x, y>> \in Seq(T)
  <1>1. /\ <<x>> \in Seq(T) /\ <<y>> \in Seq(T) /\ Len(<<x>>) = 1 /\ Len(<<y>>) = 1
        /\ <<x, y>> \in Seq(T) /\ Len(<<x, y>>) = 2
    OBVIOUS
  <1>2. /\ <<x>> \o <<y>> \in Seq(T) /\ Len(<<x>> \o <<y>>) = 2
        /\ (<<x>> \o <<y>>)[1] = x /\ (<<x>> \o <<y>>)[2] = y
    BY <1>1, ConcatProperties
  <1>3. \A i \in 1 .. 2 : (<<x>> \o <<y>>)[i] = <<x, y>>[i]
    BY <1>2
  <1> QED BY <1>1, <1>2, <1>3, SeqEqual, Zenon

LEMMA Triple ==
  ASSUME NEW T, NEW x \in T, NEW y \in T, NEW z \in T
  PROVE  <<x>> \o <<y, z>> = <<x, y, z>> /\ <<x, y, z>> \in Seq(T)
  <1>1. /\ <<x>> \in Seq(T) /\ <<y, z>> \in Seq(T) /\ Len(<<x>>) = 1 /\ Len(<<y, z>>) = 2
        /\ <<x, y, z>> \in Seq(T) /\ Len(<<x, y, z>>) = 3
    OBVIOUS
  <1>2. PICK s \in Seq(T) : s = <<x>> \o <<y, z>>
    BY <1>1, ConcatProperties, Zenon
  <1>3. Len(s) = 3 /\ s[1] = <<x>>[1] /\ s[2] = <<y, z>>[1] /\ s[3] = <<y, z>>[2]
    BY <1>1, <1>2, ConcatProperties
  <1>4. \A i \in 1 .. 3 : s[i] = <<x, y, z>>[i]
    BY <1>3
  <1> QED BY <1>1, <1>2, <1>3, <1>4, SeqEqual, Zenon

LEMMA Quadruple ==
  ASSUME NEW T, NEW w \in T, NEW x \in T, NEW y \in T, NEW z \in T
  PROVE  <<w>> \o <<x, y, z>> = <<w, x, y, z>>
  <1>1. /\ <<w>> \in Seq(T) /\ <<x, y, z>> \in Seq(T) /\ Len(<<w>>) = 1 /\ Len(<<x, y, z>>) = 3
        /\ <<w, x, y, z>> \in Seq(T) /\ Len(<<w, x, y, z>>) = 4
    OBVIOUS
  <1>2. PICK s \in Seq(T) : s = <<w>> \o <<x, y, z>>
    BY <1>1, ConcatProperties, Zenon
  <1>3. Len(s) = 4 /\ s[1] = <<w>>[1] /\ s[2] = <<x, y, z>>[1] /\ s[3] = <<x, y, z>>[2] /\ s[4] = <<x, y, z>>[3]
    BY <1>1, <1>2, ConcatProperties
  <1>4. \A i \in 1 .. 4 : s[i] = <<w, x, y, z>>[i]
    BY <1>3
  <1> QED BY <1>1, <1>2, <1>3, <1>4, SeqEqual, ZenonT(30)

\* The scripts of smbus.c are those of the phases.
LEMMA ScriptIs ==
  ASSUME NEW c \in Calls, NEW data \in [1 .. MaxBlock -> Byte], c.prot # "PROCESS_CALL",
         \A i \in 1 .. Len(c.block) : data[i] = c.block[i]
  PROVE  /\ ~c.read => Script([c EXCEPT !.block = data]) = Written(ToSend(c))
         /\ c.read /\ c.prot = "QUICK" =>
              Script([c EXCEPT !.block = data]) = <<Op("start", TRUE)>> \o End
         /\ c.read /\ c.prot = "BYTE" =>
              Script([c EXCEPT !.block = data]) = <<Op("start", TRUE)>> \o (Recvs(1) \o NackEnd)
         /\ c.read /\ c.prot \in Asking =>
              Script([c EXCEPT !.block = data]) = <<Op("start", FALSE)>> \o (<<Op("send", c.cmd)>> \o Turn(c))
  <1> DEFINE k == [c EXCEPT !.block = data]
  <1>1. c \in [prot : Protocols, read : BOOLEAN, addr : STRING, cmd : Byte, data0 : Byte,
               data1 : Byte, block : Seq(Byte), en : BOOLEAN, ack : {"read", "all"}]
        /\ Len(c.block) <= MaxBlock
        /\ (c.prot = "BLOCK_DATA" /\ ~c.read => Clipped(c.data0) <= Len(c.block))
    BY CallsAssumption, Zenon
  <1>2. /\ k.prot = c.prot /\ k.read = c.read /\ k.cmd = c.cmd /\ k.data0 = c.data0 /\ k.block = data
        /\ c.read \in BOOLEAN /\ c.prot \in Protocols /\ c.cmd \in Byte /\ c.data0 \in Byte
        /\ c.block \in Seq(Byte)
    BY <1>1, Zenon
  <1> HIDE DEF k
  <1>3. Recvs(1) = <<Op("recv", 0)>> /\ Recvs(2) = <<Op("recv", 0), Op("recv", 0)>>
    BY DEF Recvs
  <1>4. ~c.read => Script(k) = Written(ToSend(c))
    <2> SUFFICES ASSUME ~c.read PROVE Script(k) = Written(ToSend(c))
      BY Zenon
    <2>1. CASE c.prot = "QUICK"
      <3>1. Script(k) = <<Op("start", FALSE), Op("end", 0)>>
        BY <1>2, <2>1, Zenon DEF Script
      <3>2. Sends(<<>>) = <<>>
        BY DEF Sends
      <3> DEFINE o == Op("start", FALSE)
                 e == Op("end", 0)
      <3>3. Written(<<>>) = (<<o>> \o <<>>) \o <<e>> /\ Script(k) = <<o, e>> /\ o \in Ops /\ e \in Ops
        BY <3>1, <3>2, OpTypes, Zenon DEF Written
      <3> HIDE DEF o, e
      <3>4. <<o>> \o <<>> = <<o>> /\ <<o>> \o <<e>> = <<o, e>>
        <4>1. o \in Ops /\ e \in Ops /\ <<o>> \in Seq(Ops)
          BY <3>3
        <4>2. <<o>> \o <<>> = <<o>>
          BY <4>1, ConcatEmptySeq, Zenon
        <4>3. <<o>> \o <<e>> = <<o, e>>
          BY <4>1, Pair, Zenon
        <4> QED BY <4>2, <4>3, Zenon
      <3> QED BY <2>1, <3>3, <3>4, Zenon DEF ToSend
    <2>2. CASE c.prot = "BYTE"
      BY <1>2, <2>2 DEF Script, ToSend, Payload
    <2>3. CASE c.prot = "BYTE_DATA"
      <3>1. Script(k) = Written(<<c.cmd, c.data0>>)
        BY <1>2, <2>3, Zenon DEF Script
      <3>2. ToSend(c) = <<c.cmd>> \o <<c.data0>>
        BY <2>3, Zenon DEF ToSend, Payload
      <3> QED BY <1>2, <3>1, <3>2, Pair, Zenon
    <2>4. CASE c.prot = "WORD_DATA"
      <3>1. Script(k) = Written(<<c.cmd, c.data0, 0>>)
        BY <1>2, <2>4, Zenon DEF Script
      <3>2. ToSend(c) = <<c.cmd>> \o <<c.data0, 0>>
        BY <2>4, Zenon DEF ToSend, Payload
      <3>3. c.cmd \in Byte /\ c.data0 \in Byte /\ 0 \in Byte
        BY <1>2, ByteTypes, Zenon
      <3>4. <<c.cmd>> \o <<c.data0, 0>> = <<c.cmd, c.data0, 0>>
        BY <3>3, Triple
      <3> QED BY <3>1, <3>2, <3>4, Zenon
    <2>5. CASE c.prot = "BLOCK_DATA"
      <3> DEFINE n == Clipped(c.data0)
      <3>1. n \in Byte /\ n \in Nat /\ n <= Len(c.block) /\ MaxBlock \in Nat
        BY <1>1, <1>2, <2>5, ByteTypes, SizesAssumption, Zenon
      <3>2. Script(k) = Written(<<c.cmd, n>> \o SubSeq(data, 1, n))
        BY <1>2, <2>5, Zenon DEF Script
      <3>3. ToSend(c) = <<c.cmd>> \o (<<n>> \o SubSeq(c.block, 1, n))
        BY <2>5, Zenon DEF ToSend, Payload
      <3> HIDE DEF n
      <3>4. SubSeq(data, 1, n) = SubSeq(c.block, 1, n) /\ SubSeq(c.block, 1, n) \in Seq(Byte)
        <4>1. \A i \in 1 .. n : data[i] = c.block[i] /\ c.block[i] \in Byte
          BY <1>2, <3>1
        <4>2. data \in Seq(Byte) /\ Len(data) = MaxBlock /\ n <= MaxBlock
          BY <1>1, <1>2, <3>1
        <4>3. /\ SubSeq(data, 1, n) \in Seq(Byte) /\ Len(SubSeq(data, 1, n)) = n
              /\ \A i \in 1 .. n : SubSeq(data, 1, n)[i] = data[i]
          BY <3>1, <4>1, <4>2
        <4>4. /\ SubSeq(c.block, 1, n) \in Seq(Byte) /\ Len(SubSeq(c.block, 1, n)) = n
              /\ \A i \in 1 .. n : SubSeq(c.block, 1, n)[i] = c.block[i]
          BY <1>2, <3>1, <4>1
        <4> QED BY <4>1, <4>3, <4>4, SeqEqual
      <3>5. PICK blk \in Seq(Byte) : blk = SubSeq(c.block, 1, n)
        BY <3>4, Zenon
      <3>6. <<c.cmd, n>> \o blk = <<c.cmd>> \o (<<n>> \o blk)
        <4>1. c.cmd \in Byte /\ n \in Byte
          BY <1>2, <3>1, Zenon
        <4>2. <<c.cmd>> \in Seq(Byte) /\ <<n>> \in Seq(Byte) /\ <<c.cmd>> \o <<n>> = <<c.cmd, n>>
          BY <4>1, Pair
        <4>3. (<<c.cmd>> \o <<n>>) \o blk = <<c.cmd>> \o (<<n>> \o blk)
          BY <3>5, <4>2, ConcatAssociative
        <4> QED BY <4>2, <4>3, Zenon
      <3> QED BY <3>2, <3>3, <3>4, <3>5, <3>6, Zenon
    <2> QED BY <1>2, <2>1, <2>2, <2>3, <2>4, <2>5, Zenon DEF Protocols
  <1> DEFINE st == Op("start", TRUE)
             sf == Op("start", FALSE)
             sd == Op("send", c.cmd)
             rc == Op("recv", 0)
             ln == Op("length", 0)
             nk == Op("nack", 0)
             en == Op("end", 0)
  <1>5. /\ st \in Ops /\ sf \in Ops /\ sd \in Ops /\ rc \in Ops /\ ln \in Ops /\ nk \in Ops /\ en \in Ops
        /\ End = <<en>> /\ NackEnd = <<nk>> \o <<en>> /\ Recvs(1) = <<rc>> /\ Recvs(2) = <<rc, rc>>
    BY <1>2, <1>3, OpTypes, Zenon DEF End, NackEnd
  <1>6. c.read /\ c.prot = "QUICK" => Script(k) = <<st, en>>
    BY <1>2, Zenon DEF Script
  <1>7. c.read /\ c.prot = "BYTE" => Script(k) = <<st, rc, nk, en>>
    BY <1>2, Zenon DEF Script
  <1>8. ASSUME c.read, c.prot \in Asking
        PROVE  /\ Script(k) = <<sf, sd, st>> \o AskOps(c) \o <<nk, en>>
               /\ AskOps(c) \in {<<rc>>, <<rc, rc>>, <<ln>>} /\ Turn(c) = <<st>> \o (AskOps(c) \o NackEnd)
    BY <1>2, <1>5, <1>8, Zenon DEF Script, Asked, AskOps, Asking, Turn
  <1> HIDE DEF st, sf, sd, rc, ln, nk, en
  <1>9. c.read /\ c.prot = "QUICK" => Script(k) = <<st>> \o End
    BY <1>5, <1>6
  <1>10. c.read /\ c.prot = "BYTE" => Script(k) = <<st>> \o (Recvs(1) \o NackEnd)
    <2>1. <<nk>> \o <<en>> = <<nk, en>>
      BY <1>5, Pair, ZenonT(30)
    <2>2. <<rc>> \o <<nk, en>> = <<rc, nk, en>>
      BY <1>5, Triple
    <2>3. <<st>> \o <<rc, nk, en>> = <<st, rc, nk, en>>
      BY <1>5, Quadruple
    <2> QED BY <1>5, <1>7, <2>1, <2>2, <2>3, Zenon
  <1>11. c.read /\ c.prot \in Asking => Script(k) = <<sf>> \o (<<sd>> \o Turn(c))
    <2> SUFFICES ASSUME c.read, c.prot \in Asking PROVE Script(k) = <<sf>> \o (<<sd>> \o Turn(c))
      BY Zenon
    <2>1. PICK a \in Seq(Ops) : a = AskOps(c)
      <3>1. <<rc>> \in Seq(Ops) /\ <<ln>> \in Seq(Ops) /\ <<rc, rc>> \in Seq(Ops)
        BY <1>5, Pair
      <3> QED BY <1>8, <3>1, Zenon
    <2>2. NackEnd = <<nk, en>> /\ NackEnd \in Seq(Ops) /\ <<sf, sd, st>> \in Seq(Ops)
      <3>1. NackEnd = <<nk, en>>
        BY <1>5, Pair, ZenonT(30)
      <3>2. <<sf, sd, st>> \in Seq(Ops)
        BY <1>5, Triple, Zenon
      <3> QED BY <3>1, <3>2, OpTypes, Zenon
    <2>3. Script(k) = (<<sf, sd, st>> \o a) \o NackEnd
      BY <1>8, <2>1, <2>2, Zenon
    <2>4. Script(k) = <<sf, sd, st>> \o (a \o NackEnd) /\ a \o NackEnd \in Seq(Ops)
      BY <2>1, <2>2, <2>3, ConcatAssociative, ConcatProperties
    <2>5. Script(k) = <<sf>> \o (<<sd>> \o (<<st>> \o (a \o NackEnd)))
      <3>1. PICK u \in Seq(Ops) : u = a \o NackEnd
        BY <2>4, Zenon
      <3>2. sf \in Ops /\ sd \in Ops /\ st \in Ops
        BY <1>5, Zenon
      <3>3. <<sf, sd, st>> \o u = <<sf>> \o (<<sd>> \o (<<st>> \o u))
        <4>1. /\ <<sf>> \in Seq(Ops) /\ <<sd>> \in Seq(Ops) /\ <<st>> \in Seq(Ops) /\ <<sd, st>> \in Seq(Ops)
              /\ <<sf>> \o <<sd, st>> = <<sf, sd, st>> /\ <<sd>> \o <<st>> = <<sd, st>>
          BY <3>2, Pair, Triple
        <4>2. (<<sf>> \o <<sd, st>>) \o u = <<sf>> \o (<<sd, st>> \o u)
          BY <3>1, <4>1, ConcatAssociative, SMTT(30)
        <4>3. (<<sd>> \o <<st>>) \o u = <<sd>> \o (<<st>> \o u)
          BY <3>1, <4>1, ConcatAssociative
        <4> QED BY <4>1, <4>2, <4>3, Zenon
      <3> QED BY <2>4, <3>1, <3>3, Zenon
    <2> QED BY <1>8, <2>1, <2>5, Zenon
  <1> QED BY <1>4, <1>9, <1>10, <1>11, Zenon DEF k, st, sf, sd

LEMMA BeginStep == ASSUME BusInv, Start PROVE BusInv'
  <1>1. HostTypes /\ CommandInv /\ smb \in SmbTypes /\ drv.pc = "filled"
    BY Zenon DEF BusInv, HostTypes, SmbTypes, Start
  <1>2. PICK c \in Calls : c = drv.call
    BY <1>1, Zenon DEF HostTypes
  <1>3. c.en \in BOOLEAN /\ c.prot \in Protocols /\ c.read \in BOOLEAN
    BY CallsAssumption, Zenon
  <1>4. /\ drv'.pc = "bus" /\ drv'.call = c /\ drv' = [pc |-> drv'.pc, call |-> drv'.call, result |-> drv'.result]
        /\ smb' \in SmbTypes /\ before' = eeprom.data
        /\ UNCHANGED <<current_dev, slave, eeprom, smc, faults, answered>>
    BY <1>1, <1>2, <1>3, Zenon DEF HostTypes, Start, Goto, SmbTypes
  <1>5. HostTypes'
    BY <1>1, <1>2, <1>4, Zenon DEF HostTypes, SmbTypes
  <1>6. AllIdle /\ AllIdle'
    BY <1>1, <1>4, Zenon DEF CommandInv, AllIdle
  <1>7. Underway(c)' \/ (Over(c)' /\ Landed(c)')
    <2>1. CASE c.prot = "PROCESS_CALL"
      <3>1. bus' = [todo |-> <<>>, got |-> <<>>]
        BY <1>2, <2>1, Zenon DEF Start
      <3>2. WrittenBytes(c) = <<>>
        BY <2>1, Zenon DEF WrittenBytes
      <3>3. WrittenTo(c)' = eeprom'.data
        BY <1>1, <1>4, <3>2 DEF WrittenTo, HostTypes
      <3> QED BY <1>6, <2>1, <3>1, <3>3 DEF Over, GotAll, Landed
    <2>2. CASE c.prot # "PROCESS_CALL"
      <3>1. PICK data \in [1 .. MaxBlock -> Byte] : data = smb.data
        BY <1>1, Zenon DEF SmbTypes
      <3>2. bus'.todo = Script([c EXCEPT !.block = data]) /\ bus'.got = <<>>
        BY <1>2, <2>2, <3>1, Zenon DEF Start
      <3>3. \A i \in 1 .. Len(c.block) : data[i] = c.block[i]
        BY <1>1, <1>2, <3>1, SMTT(30) DEF CommandInv
      <3>4. /\ ~c.read => bus'.todo = Written(ToSend(c))
            /\ (c.read /\ c.prot = "QUICK" => bus'.todo = <<Op("start", TRUE)>> \o End)
            /\ (c.read /\ c.prot = "BYTE" => bus'.todo = <<Op("start", TRUE)>> \o (Recvs(1) \o NackEnd))
            /\ (c.read /\ c.prot \in Asking =>
                  bus'.todo = <<Op("start", FALSE)>> \o (<<Op("send", c.cmd)>> \o Turn(c)))
        BY <2>2, <3>2, <3>3, ScriptIs, Zenon
      <3>5. WriteStart(c)' \/ QuickStart(c)' \/ ByteStart(c)' \/ AskStart(c)'
        BY <1>3, <1>6, <2>2, <3>4, Zenon DEF WriteStart, QuickStart, ByteStart, AskStart, Writes, Asks, Asking, Protocols
      <3> QED BY <1>4, <3>2, <3>5, Zenon DEF Underway
    <2> QED BY <2>1, <2>2, Zenon
  <1>8. bus' = [todo |-> bus'.todo, got |-> bus'.got]
    BY Zenon DEF Start
  <1>9. CommandInv'
    BY <1>1, <1>4, <1>7, <1>8, Zenon DEF CommandInv
  <1> QED BY <1>4, <1>5, <1>9, Zenon DEF BusInv, WritesLand, ReadsReturn

\* A command that is not over has an operation left.
LEMMA Busy == ASSUME HostTypes, NEW c \in Calls, Underway(c) PROVE bus.todo # <<>>
  <1>1. \A s \in Seq(Ops) : s \o End # <<>> /\ s \o NackEnd # <<>>
    <2> TAKE s \in Seq(Ops)
    <2>1. End \in Seq(Ops) /\ NackEnd \in Seq(Ops) /\ Len(End) = 1 /\ Len(NackEnd) = 2
      <3> DEFINE nk == Op("nack", 0)
                 en == Op("end", 0)
      <3>1. End = <<en>> /\ NackEnd = <<nk>> \o <<en>> /\ en \in Ops /\ nk \in Ops
        BY OpTypes DEF End, NackEnd
      <3> HIDE DEF nk, en
      <3>2. <<nk>> \o <<en>> = <<nk, en>>
        BY <3>1, Pair, Zenon
      <3> QED BY <3>1, <3>2, OpTypes, Zenon
    <2>2. Len(s \o End) = Len(s) + Len(End) /\ Len(s \o NackEnd) = Len(s) + Len(NackEnd)
      BY <2>1, ConcatProperties, Zenon
    <2>3. Len(<<>>) = 0 /\ Len(s) \in Nat
      OBVIOUS
    <2> QED BY <2>1, <2>2, <2>3
  <1>2. CASE WriteStart(c) \/ \E k \in 0 .. Len(ToSend(c)) : Sending(c, k)
    <2>1. ToSend(c) \in Seq(Byte)
      BY <1>2, SentTypes, Zenon DEF WriteStart, Sending, Writes
    <2>2. CASE WriteStart(c)
      <3> DEFINE o == Op("start", FALSE)
      <3>1. bus.todo = (<<o>> \o Sends(ToSend(c))) \o End /\ o \in Ops
        BY <2>2, OpTypes, Zenon DEF WriteStart, Written, End
      <3> HIDE DEF o
      <3>2. <<o>> \o Sends(ToSend(c)) \in Seq(Ops)
        BY <2>1, <3>1, OpTypes, Cons
      <3> QED BY <1>1, <3>1, <3>2, Zenon
    <2>3. CASE \E k \in 0 .. Len(ToSend(c)) : Sending(c, k)
      <3>1. PICK k \in 0 .. Len(ToSend(c)) : Sending(c, k)
        BY <2>3, Zenon
      <3>2. Unsent(c, k) \in Seq(Byte)
        <4>1. \A i \in k + 1 .. Len(ToSend(c)) : ToSend(c)[i] \in Byte
          BY <2>1, <3>1
        <4> QED BY <2>1, <3>1, <4>1, SubSeqProperties DEF Unsent
      <3> QED BY <1>1, <3>1, <3>2, OpTypes, Zenon DEF Sending
    <2> QED BY <1>2, <2>2, <2>3, Zenon
  <1>3. CASE QuickStart(c) \/ ByteStart(c) \/ ByteRecv(c) \/ ByteNack(c) \/ Ending(c)
    <2>1. /\ Op("start", TRUE) \in Ops /\ Op("nack", 0) \in Ops /\ End \in Seq(Ops) /\ NackEnd \in Seq(Ops)
          /\ Recvs(1) \in Seq(Ops) /\ Recvs(1) \o NackEnd \in Seq(Ops) /\ <<>> \in Seq(Ops)
          /\ <<>> \o End = End /\ <<>> \o NackEnd = NackEnd
      <3>1. /\ Op("start", TRUE) \in Ops /\ Op("nack", 0) \in Ops /\ End \in Seq(Ops) /\ NackEnd \in Seq(Ops)
            /\ Recvs(1) \in Seq(Ops)
        BY OpTypes, Zenon
      <3>2. <<>> \in Seq(Ops) /\ <<>> \o End = End /\ <<>> \o NackEnd = NackEnd
        BY <3>1, ConcatEmptySeq
      <3>3. Recvs(1) \o NackEnd \in Seq(Ops)
        BY <3>1, ConcatProperties, Zenon
      <3> QED BY <3>1, <3>2, <3>3, Zenon
    <2>2. <<Op("start", TRUE)>> \o End # <<>> /\ <<Op("start", TRUE)>> \o (Recvs(1) \o NackEnd) # <<>>
      BY <2>1, Cons
    <2>3. End # <<>> /\ NackEnd # <<>> /\ Recvs(1) \o NackEnd # <<>>
      BY <1>1, <2>1, Zenon
    <2> QED BY <1>3, <2>2, <2>3, Zenon DEF QuickStart, ByteStart, ByteRecv, ByteNack, Ending
  <1>4. CASE AskStart(c) \/ AskSend(c) \/ AskTurn(c) \/ AskLength(c) \/ Reading(c)
    <2>1. Asks(c)
      BY <1>4, Zenon DEF AskStart, AskSend, AskTurn, AskLength, Reading
    <2>2. /\ c.cmd \in Byte /\ AskOps(c) \o NackEnd \in Seq(Ops) /\ Turn(c) \in Seq(Ops) /\ NackEnd \in Seq(Ops)
      BY <2>1, AskTypes, Zenon
    <2>3. /\ Op("start", FALSE) \in Ops /\ Op("start", TRUE) \in Ops
          /\ Op("send", c.cmd) \in Ops /\ Op("length", 0) \in Ops
      BY <2>2, OpTypes, Zenon
    <2>4. <<Op("send", c.cmd)>> \o Turn(c) # <<>> /\ <<Op("send", c.cmd)>> \o Turn(c) \in Seq(Ops)
      BY <2>2, <2>3, Cons, Zenon
    <2>5. <<Op("start", FALSE)>> \o (<<Op("send", c.cmd)>> \o Turn(c)) # <<>>
      BY <2>3, <2>4, Cons
    <2>6. Turn(c) # <<>> /\ <<Op("length", 0)>> \o NackEnd # <<>>
      BY <2>2, <2>3, Cons DEF Turn
    <2>7. CASE Reading(c)
      <3>1. Total(c) - Len(bus.got) \in Nat
        BY <2>1, <2>7, TotalTypes, SizesAssumption DEF Reading, GotRight
      <3> QED BY <1>1, <2>7, <3>1, OpTypes, Zenon DEF Reading
    <2> QED BY <1>4, <2>4, <2>5, <2>6, <2>7, Zenon DEF AskStart, AskSend, AskTurn, AskLength
  <1> QED BY <1>2, <1>3, <1>4, Zenon DEF Underway

LEMMA SetFields ==
  ASSUME NEW s \in SmbTypes
  PROVE  /\ \A b \in Byte : LET r == [s EXCEPT !.data0 = b] IN
              r \in SmbTypes /\ r.data0 = b /\ r.data1 = s.data1 /\ r.data = s.data
         /\ \A b \in Byte : LET r == [s EXCEPT !.data1 = b] IN
              r \in SmbTypes /\ r.data0 = s.data0 /\ r.data1 = b /\ r.data = s.data
         /\ \A d \in [1 .. MaxBlock -> Byte] : LET r == [s EXCEPT !.data = d] IN
              r \in SmbTypes /\ r.data0 = s.data0 /\ r.data1 = s.data1 /\ r.data = d
  <1>1. ASSUME NEW b \in Byte
        PROVE  /\ [s EXCEPT !.data0 = b] \in SmbTypes /\ [s EXCEPT !.data0 = b].data0 = b
               /\ [s EXCEPT !.data0 = b].data1 = s.data1 /\ [s EXCEPT !.data0 = b].data = s.data
    BY Zenon DEF SmbTypes
  <1>2. ASSUME NEW b \in Byte
        PROVE  /\ [s EXCEPT !.data1 = b] \in SmbTypes /\ [s EXCEPT !.data1 = b].data1 = b
               /\ [s EXCEPT !.data1 = b].data0 = s.data0 /\ [s EXCEPT !.data1 = b].data = s.data
    BY Zenon DEF SmbTypes
  <1>3. ASSUME NEW d \in [1 .. MaxBlock -> Byte]
        PROVE  /\ [s EXCEPT !.data = d] \in SmbTypes /\ [s EXCEPT !.data = d].data = d
               /\ [s EXCEPT !.data = d].data0 = s.data0 /\ [s EXCEPT !.data = d].data1 = s.data1
    BY Zenon DEF SmbTypes
  <1> QED BY <1>1, <1>2, <1>3, Zenon

\* What a read of the slaves leaves in the controller's registers.
LEMMA ReceivedTypes ==
  ASSUME NEW s \in SmbTypes, NEW c \in Calls, NEW got,
         c.read /\ c.prot \notin {"QUICK", "PROCESS_CALL"} => got \in Seq(Byte) /\ Len(got) >= 1,
         c.read /\ c.prot = "WORD_DATA" => Len(got) = 2
  PROVE  LET r == Received(s, c, got) IN
         /\ r \in SmbTypes
         /\ c.read /\ c.prot \in {"BYTE_DATA", "WORD_DATA"} => r.data0 = got[1]
         /\ c.read /\ c.prot = "WORD_DATA" => r.data1 = got[2]
         /\ c.read /\ c.prot = "BLOCK_DATA" /\ c.addr \in Slaves =>
              /\ r.data0 = IF got[1] > MaxBlock THEN 0 ELSE got[1]
              /\ \A i \in 1 .. MaxBlock : i < Len(got) => r.data[i] = got[i + 1]
  <1>1. c.read \in BOOLEAN /\ c.prot \in Protocols /\ 0 \in Byte
    BY CallsAssumption, ByteTypes, Zenon
  <1>2. CASE ~c.read \/ c.prot \in {"QUICK", "PROCESS_CALL"}
    BY <1>1, <1>2, Zenon DEF Received
  <1>3. CASE c.read /\ c.prot \notin {"QUICK", "PROCESS_CALL"}
    <2>1. got \in Seq(Byte) /\ Len(got) >= 1 /\ Len(got) \in Nat /\ got[1] \in Byte
      BY <1>3
    <2>2. CASE c.prot = "WORD_DATA"
      <3>1. got[2] \in Byte
        <4>1. Len(got) = 2
          BY <1>3, <2>2, Zenon
        <4> QED BY <2>1, <4>1
      <3>2. PICK s1 : s1 = [s EXCEPT !.data0 = got[1]]
        BY Zenon
      <3>3. s1 \in SmbTypes /\ s1.data0 = got[1]
        BY <2>1, <3>2, SetFields
      <3>4. PICK s2 : s2 = [s1 EXCEPT !.data1 = got[2]]
        BY Zenon
      <3>5. s2 \in SmbTypes /\ s2.data1 = got[2] /\ s2.data0 = s1.data0
        BY <3>1, <3>3, <3>4, SetFields, Zenon
      <3>6. Received(s, c, got) = s2
        BY <1>3, <2>2, <3>2, <3>4 DEF Received
      <3> QED BY <1>3, <2>2, <3>3, <3>5, <3>6, Zenon
    <2>3. CASE c.prot = "BLOCK_DATA"
      <3> DEFINE b == IF c.addr \in Slaves /\ got[1] > MaxBlock THEN 0 ELSE got[1]
                 d == [i \in 1 .. MaxBlock |-> IF i < Len(got) THEN got[i + 1] ELSE s.data[i]]
      <3>1. b \in Byte
        BY <1>1, <2>1, Zenon
      <3>2. d \in [1 .. MaxBlock -> Byte] /\ \A i \in 1 .. MaxBlock : i < Len(got) => d[i] = got[i + 1]
        <4>1. s.data \in [1 .. MaxBlock -> Byte] /\ MaxBlock \in Nat
          BY SizesAssumption, Zenon DEF SmbTypes
        <4>2. \A i \in 1 .. MaxBlock : i < Len(got) => got[i + 1] \in Byte
          BY <2>1, <4>1
        <4> QED BY <4>1, <4>2, Zenon
      <3>3. Received(s, c, got) = [s EXCEPT !.data0 = b, !.data = d]
        BY <1>3, <2>3, Zenon DEF Received
      <3>4. c.addr \in Slaves => b = IF got[1] > MaxBlock THEN 0 ELSE got[1]
        BY Zenon
      <3> HIDE DEF b, d
      <3>5. PICK s1 : s1 = [s EXCEPT !.data0 = b]
        BY Zenon
      <3>6. s1 \in SmbTypes /\ s1.data0 = b
        BY <3>1, <3>5, SetFields
      <3>7. PICK s2 : s2 = [s1 EXCEPT !.data = d]
        BY Zenon
      <3>8. s2 \in SmbTypes /\ s2.data = d /\ s2.data0 = s1.data0
        BY <3>2, <3>6, <3>7, SetFields
      <3>9. Received(s, c, got) = s2
        BY <3>3, <3>5, <3>7, Zenon
      <3> QED BY <2>3, <3>2, <3>4, <3>6, <3>8, <3>9, Zenon
    <2>4. CASE c.prot \notin {"WORD_DATA", "BLOCK_DATA"}
      <3>1. PICK s1 \in SmbTypes : s1 = [s EXCEPT !.data0 = got[1]] /\ s1.data0 = got[1]
        BY <2>1, SetFields, ZenonT(30)
      <3>2. Received(s, c, got) = s1
        BY <1>3, <2>4, <3>1 DEF Received
      <3> QED BY <2>4, <3>1, <3>2, Zenon
    <2> QED BY <2>2, <2>3, <2>4, Zenon
  <1> QED BY <1>1, <1>2, <1>3, Zenon

LEMMA CompleteStep == ASSUME BusInv, Complete PROVE BusInv'
  <1>1. HostTypes /\ CommandInv /\ drv.pc = "bus" /\ bus.todo = <<>>
    BY Zenon DEF BusInv, Complete
  <1>2. PICK c \in Calls : c = drv.call
    BY <1>1, Zenon DEF HostTypes
  <1>3. Over(c) /\ Landed(c)
    BY <1>1, <1>2, Busy, Zenon DEF CommandInv
  <1>4. PICK s \in SmbTypes : s = smb
    BY <1>1, Zenon DEF HostTypes, SmbTypes
  <1>5. PICK got : got = bus.got
    BY Zenon
  <1>6. c.read \in BOOLEAN /\ c.prot \in Protocols /\ c.cmd \in Byte
    BY CallsAssumption
  <1>7. c.read /\ c.prot \notin {"QUICK", "PROCESS_CALL"} =>
          GotRight(c) /\ got \in Seq(Byte) /\ Len(got) = Total(c) /\ Total(c) \in Nat \ {0}
    <2>1. c.read /\ c.prot \notin {"QUICK", "PROCESS_CALL"} => Total(c) \in Nat \ {0}
      <3>1. CASE c.prot \in Asking
        BY <1>1, <3>1, TotalTypes, SizesAssumption DEF Asks
      <3>2. CASE c.prot \notin Asking
        BY <3>2 DEF Total, Asking
      <3> QED BY <3>1, <3>2, Zenon
    <2> QED BY <1>3, <1>5, <2>1, Zenon DEF Over, GotAll, GotRight
  <1>8. c.read /\ c.prot = "WORD_DATA" => Len(got) = 2
    BY <1>7, Zenon DEF Total
  <1>9. PICK r \in SmbTypes :
          /\ r = Received(s, c, got)
          /\ c.read /\ c.prot \in {"BYTE_DATA", "WORD_DATA"} => r.data0 = got[1]
          /\ c.read /\ c.prot = "WORD_DATA" => r.data1 = got[2]
          /\ c.read /\ c.prot = "BLOCK_DATA" /\ c.addr \in Slaves =>
               /\ r.data0 = IF got[1] > MaxBlock THEN 0 ELSE got[1]
               /\ \A i \in 1 .. MaxBlock : i < Len(got) => r.data[i] = got[i + 1]
    BY <1>7, <1>8, ReceivedTypes
  <1>10. /\ smb' \in SmbTypes /\ smb'.data0 = r.data0 /\ smb'.data1 = r.data1 /\ smb'.data = r.data
    BY <1>2, <1>4, <1>5, <1>9, SMTT(30) DEF Complete, SmbTypes, Statuses
  <1>11. /\ drv'.pc = "done" /\ drv'.call = c /\ drv' = [pc |-> drv'.pc, call |-> drv'.call, result |-> drv'.result]
         /\ UNCHANGED <<current_dev, slave, eeprom, smc, faults, before>>
         /\ bus' = [todo |-> <<>>, got |-> <<>>]
         /\ answered' = (answered \/ (c.addr = "smc" /\ c.prot = "BYTE_DATA" /\ ~c.read /\ c.cmd = ResponseReg))
    BY <1>1, <1>2, Zenon DEF Complete, Goto, HostTypes, CommandInv
  <1>12. HostTypes'
    BY <1>1, <1>2, <1>10, <1>11 DEF HostTypes, SmbTypes
  <1>13. Delivered(c)'
    <2> SUFFICES ASSUME c.addr = "eeprom", c.read
                 PROVE  /\ c.prot \in {"BYTE_DATA", "WORD_DATA"} => smb'.data0 = Cell(c.cmd)
                        /\ c.prot = "WORD_DATA" => smb'.data1 = Cell(c.cmd + 1)
                        /\ c.prot = "BLOCK_DATA" =>
                             /\ smb'.data0 = (IF Cell(c.cmd) > MaxBlock THEN 0 ELSE Cell(c.cmd))
                             /\ \A i \in 1 .. smb'.data0 : smb'.data[i] = Cell(c.cmd + i)
      BY <1>11 DEF Delivered, Cell
    <2>1. CASE c.prot \in Asking
      <3>1. /\ \A i \in 1 .. Len(got) : got[i] = Cell(c.cmd + i - 1)
            /\ Len(got) \in Nat /\ Len(got) >= 1 /\ c.cmd \in Int
        <4>1. GotRight(c) /\ got \in Seq(Byte) /\ Len(got) \in Nat \ {0}
          BY <1>7, <2>1, Zenon DEF Asking
        <4>2. \A i \in 1 .. Len(got) : got[i] = Cell(c.cmd + i - 1)
          BY <1>5, <2>1, <4>1, Zenon DEF GotRight
        <4>3. c.cmd \in Int
          BY <1>6 DEF Byte
        <4> QED BY <4>1, <4>2, <4>3
      <3>2. got[1] = Cell(c.cmd)
        <4>1. c.cmd + 1 - 1 = c.cmd /\ 1 \in 1 .. Len(got)
          BY <3>1
        <4> QED BY <3>1, <4>1, Zenon
      <3>3. \A i \in 1 .. Len(got) - 1 : got[i + 1] = Cell(c.cmd + i)
        <4> TAKE i \in 1 .. Len(got) - 1
        <4>1. c.cmd + (i + 1) - 1 = c.cmd + i /\ i + 1 \in 1 .. Len(got)
          BY <3>1
        <4> QED BY <3>1, <4>1, Zenon
      <3>4. CASE c.prot = "BLOCK_DATA"
        <4>1. /\ Len(got) = 1 + (IF Cell(c.cmd) <= MaxBlock THEN Cell(c.cmd) ELSE 0)
              /\ Cell(c.cmd) \in Nat /\ MaxBlock \in Nat
          BY <1>1, <1>7, <2>1, <3>4, TotalTypes, ByteTypes, SizesAssumption, Zenon DEF Asks
        <4>2. /\ smb'.data0 = IF Cell(c.cmd) > MaxBlock THEN 0 ELSE Cell(c.cmd)
              /\ \A i \in 1 .. MaxBlock : i < Len(got) => smb'.data[i] = got[i + 1]
          BY <1>9, <1>10, <3>2, <3>4 DEF Slaves
        <4>3. \A i \in 1 .. smb'.data0 : smb'.data[i] = Cell(c.cmd + i)
          BY <3>3, <4>1, <4>2
        <4> QED BY <3>4, <4>2, <4>3, Zenon
      <3>5. CASE c.prot = "WORD_DATA"
        <4>1. got[2] = Cell(c.cmd + 1)
          <5>1. 1 \in 1 .. Len(got) - 1
            <6>1. Len(got) = 2
              BY <1>8, <3>5, Zenon
            <6> QED BY <6>1
          <5> QED BY <3>3, <5>1
        <4> QED BY <1>9, <1>10, <3>2, <3>5, <4>1, Zenon
      <3>6. CASE c.prot = "BYTE_DATA"
        BY <1>9, <1>10, <3>2, <3>6, Zenon
      <3> QED BY <2>1, <3>4, <3>5, <3>6, Zenon DEF Asking
    <2>2. CASE c.prot \notin Asking
      BY <2>2, Zenon DEF Asking
    <2> QED BY <2>1, <2>2, Zenon
  <1>14. eeprom'.data = WrittenTo(c)'
    BY <1>3, <1>11, Zenon DEF Landed, WrittenTo
  <1>15. smc'.watchdog = TRUE => answered' = FALSE
    BY <1>1, <1>3, <1>6, <1>11 DEF Landed, CommandInv, HostTypes
  <1>16. CommandInv'
    BY <1>3, <1>11, <1>13, <1>15, Zenon DEF CommandInv, Over, AllIdle
  <1> QED BY <1>11, <1>12, <1>14, <1>16, Zenon DEF BusInv, WritesLand, ReadsReturn

LEMMA AckStep == ASSUME BusInv, Ack PROVE BusInv'
  <1>1. HostTypes /\ CommandInv /\ WritesLand /\ drv.pc = "done"
    BY Zenon DEF BusInv, Ack
  <1>2. PICK s \in SmbTypes : s = smb
    BY <1>1, Zenon DEF HostTypes, SmbTypes
  <1>3. PICK val : val = IF drv.call.ack = "all" THEN Statuses ELSE smb.stat
    BY Zenon
  <1>4. /\ StatusWritten(s, val) \in SmbTypes /\ StatusWritten(s, val).index = 0
        /\ StatusWritten(s, val).data0 = s.data0 /\ StatusWritten(s, val).data1 = s.data1
        /\ StatusWritten(s, val).data = s.data
    BY StatusTypes, Zenon
  <1>5. /\ smb' \in SmbTypes /\ smb'.index = 0 /\ smb'.data0 = smb.data0 /\ smb'.data1 = smb.data1
        /\ smb'.data = smb.data
    BY <1>2, <1>3, <1>4, Zenon DEF Ack
  <1>6. /\ drv'.pc = "acked" /\ drv'.call = drv.call
        /\ drv' = [pc |-> drv'.pc, call |-> drv'.call, result |-> drv'.result]
        /\ UNCHANGED <<current_dev, slave, eeprom, smc, bus, faults, before, answered>>
    BY <1>1 DEF Ack, Goto, HostTypes, busVars
  <1>7. HostTypes'
    BY <1>1, <1>5, <1>6, Zenon DEF HostTypes, SmbTypes
  <1>8. Delivered(drv.call) /\ Delivered(drv.call)'
    BY <1>1, <1>5, <1>6 DEF CommandInv, Delivered, Cell
  <1>9. CommandInv'
    BY <1>1, <1>5, <1>6, <1>8, Zenon DEF CommandInv, AllIdle, Delivered
  <1>10. WritesLand'
    BY <1>1, <1>6 DEF WritesLand, WrittenTo
  <1> QED BY <1>6, <1>7, <1>9, <1>10, Zenon DEF BusInv, ReadsReturn

LEMMA TailTail ==
  ASSUME NEW T, NEW x \in T, NEW y \in T, NEW s \in Seq(T)
  PROVE  LET r == <<x, y>> \o s IN r[1] = x /\ r[2] = y /\ Tail(Tail(r)) = s
  <1>1. <<x>> \in Seq(T) /\ <<y>> \in Seq(T) /\ <<x>> \o <<y>> = <<x, y>> /\ <<x, y>> \in Seq(T)
    BY Pair
  <1>2. (<<x>> \o <<y>>) \o s = <<x>> \o (<<y>> \o s)
    BY <1>1, ConcatAssociative
  <1>3. PICK t \in Seq(T) : t = <<y>> \o s
    BY <1>1, ConcatProperties, Zenon
  <1>4. Tail(<<x>> \o t) = t
    BY <1>3, Cons, Zenon
  <1>5. Tail(<<y>> \o s) = s
    BY Cons, Zenon
  <1>6. (<<x, y>> \o s)[1] = x /\ (<<x, y>> \o s)[2] = y
    <2>1. Len(<<x, y>>) = 2 /\ <<x, y>>[1] = x /\ <<x, y>>[2] = y /\ Len(s) \in Nat
      OBVIOUS
    <2> QED BY <1>1, <2>1, ConcatProperties
  <1> QED BY <1>1, <1>2, <1>3, <1>4, <1>5, <1>6, Zenon

LEMMA FetchStep == ASSUME BusInv, Fetch PROVE BusInv'
  <1> DEFINE n == IF drv.call.prot = "BLOCK_DATA" /\ drv.call.read THEN Clipped(smb.data0) ELSE 0
  <1>1. HostTypes /\ CommandInv /\ WritesLand /\ drv.pc = "acked" /\ smb.index = 0
    BY Zenon DEF BusInv, Fetch, CommandInv
  <1>2. PICK c \in Calls : c = drv.call
    BY <1>1, Zenon DEF HostTypes
  <1>3. PICK s \in SmbTypes : s = smb
    BY <1>1, Zenon DEF HostTypes, SmbTypes
  <1>4. s.data0 \in Byte /\ s.data1 \in Byte /\ s.data \in [1 .. MaxBlock -> Byte] /\ s.index = 0
    BY <1>1, <1>3, Zenon DEF SmbTypes
  <1>5. n \in Nat /\ n <= MaxBlock
    <2>1. Clipped(s.data0) \in Nat /\ Clipped(s.data0) <= MaxBlock /\ 0 <= MaxBlock
      BY <1>4, SizesAssumption DEF Clipped, Byte
    <2> QED BY <1>3, <2>1, Zenon
  <1>6. /\ drv' = [drv EXCEPT !.pc = "fetched", !.result = <<s.data0, s.data1>> \o Fetched(s, n)]
        /\ smb' = [s EXCEPT !.index = Wrap(@ + n)]
        /\ UNCHANGED <<current_dev, slave, eeprom, smc, bus, faults, before, answered>>
    BY <1>3, Zenon DEF Fetch, busVars
  <1>7. c.prot = "BLOCK_DATA" /\ c.read => n = Clipped(s.data0)
    BY <1>2, <1>3, Zenon
  <1> HIDE DEF n
  <1>8. PICK m \in Nat : m = n
    BY <1>5, Zenon
  <1>9. Fetched(s, n) \in Seq(Byte) /\ Fetched(s, n) = [k \in 1 .. n |-> s.data[k]]
    <2>1. ASSUME NEW k \in 1 .. m PROVE Wrap(s.index + k - 1) + 1 = k /\ s.data[k] \in Byte
      <3>1. PICK j \in 0 .. MaxBlock - 1 : j = k - 1
        BY <1>5, <1>8, SizesAssumption
      <3>2. s.index + k - 1 = j /\ j + 1 = k
        BY <1>4, <3>1, SizesAssumption
      <3>3. Wrap(j) = j
        BY <3>1, WrapTypes, Zenon
      <3>4. k \in 1 .. MaxBlock
        BY <1>5, <1>8, SizesAssumption
      <3> QED BY <1>4, <3>2, <3>3, <3>4, Zenon
    <2>2. Fetched(s, n) = [k \in 1 .. m |-> s.data[k]]
      BY <1>8, <2>1, Zenon DEF Fetched
    <2> QED BY <1>8, <2>1, <2>2
  <1>10. PICK f \in Seq(Byte) : f = Fetched(s, n)
    BY <1>9, Zenon
  <1>11. PICK r : r = <<s.data0, s.data1>> \o f
    BY Zenon
  <1>12. r[1] = s.data0 /\ r[2] = s.data1 /\ Tail(Tail(r)) = f
    BY <1>4, <1>10, <1>11, TailTail, SMTT(30)
  <1>13. /\ drv'.pc = "fetched" /\ drv'.call = c /\ drv'.result = r
         /\ drv' = [pc |-> drv'.pc, call |-> drv'.call, result |-> drv'.result]
    BY <1>1, <1>2, <1>6, <1>10, <1>11, Zenon DEF HostTypes
  <1>14. smb' \in SmbTypes
    <2>1. PICK x \in 0 .. MaxBlock - 1 : x = Wrap(s.index + n)
      BY <1>4, <1>5, WrapTypes
    <2> QED BY <1>6, <2>1 DEF SmbTypes
  <1>15. HostTypes'
    BY <1>1, <1>2, <1>6, <1>13, <1>14, Zenon DEF HostTypes, SmbTypes
  <1>16. CommandInv'
    BY <1>1, <1>6, <1>13, Zenon DEF CommandInv, AllIdle
  <1>17. WritesLand'
    BY <1>1, <1>2, <1>6, <1>13 DEF WritesLand, WrittenTo
  <1>18. ReadsReturn'
    <2> SUFFICES ASSUME c.addr = "eeprom", c.read
                 PROVE  /\ c.prot \in {"BYTE_DATA", "WORD_DATA"} => r[1] = Cell(c.cmd)
                        /\ c.prot = "WORD_DATA" => r[2] = Cell(c.cmd + 1)
                        /\ c.prot = "BLOCK_DATA" => Tail(Tail(r)) =
                             [i \in 1 .. (IF Cell(c.cmd) > MaxBlock THEN 0 ELSE Cell(c.cmd)) |-> Cell(c.cmd + i)]
      <3>1. before' = before
        BY <1>6, Zenon
      <3>2. Cell(c.cmd)' = Cell(c.cmd) /\ Cell(c.cmd + 1)' = Cell(c.cmd + 1)
        BY <3>1, Zenon DEF Cell
      <3>3. [i \in 1 .. (IF Cell(c.cmd) > MaxBlock THEN 0 ELSE Cell(c.cmd)) |-> Cell(c.cmd + i)]'
              = [i \in 1 .. (IF Cell(c.cmd) > MaxBlock THEN 0 ELSE Cell(c.cmd)) |-> Cell(c.cmd + i)]
        BY <3>1, Zenon DEF Cell
      <3> QED BY <1>13, <3>2, <3>3, Zenon DEF ReadsReturn
    <2>1. Delivered(c)
      BY <1>1, <1>2, Zenon DEF CommandInv
    <2>2. c.prot \in {"BYTE_DATA", "WORD_DATA"} => r[1] = Cell(c.cmd)
      BY <1>3, <1>12, <2>1, Zenon DEF Delivered
    <2>3. c.prot = "WORD_DATA" => r[2] = Cell(c.cmd + 1)
      BY <1>3, <1>12, <2>1, Zenon DEF Delivered
    <2>4. ASSUME c.prot = "BLOCK_DATA"
          PROVE  Tail(Tail(r)) =
                   [i \in 1 .. (IF Cell(c.cmd) > MaxBlock THEN 0 ELSE Cell(c.cmd)) |-> Cell(c.cmd + i)]
      <3>1. /\ s.data0 = (IF Cell(c.cmd) > MaxBlock THEN 0 ELSE Cell(c.cmd))
            /\ \A i \in 1 .. s.data0 : s.data[i] = Cell(c.cmd + i)
        BY <1>3, <2>1, <2>4, Zenon DEF Delivered
      <3>2. Cell(c.cmd) \in Nat /\ MaxBlock \in Nat
        BY <1>1, <2>4, TotalTypes, ByteTypes, SizesAssumption, Zenon DEF Asks, Asking
      <3>3. n = s.data0
        BY <1>7, <2>4, <3>1, <3>2 DEF Clipped
      <3>4. Tail(Tail(r)) = [k \in 1 .. s.data0 |-> s.data[k]]
        BY <1>9, <1>10, <1>12, <3>3, Zenon
      <3>5. Tail(Tail(r)) = [i \in 1 .. s.data0 |-> Cell(c.cmd + i)]
        BY <3>1, <3>4, Zenon
      <3> QED BY <3>1, <3>5, Zenon
    <2> QED BY <2>2, <2>3, <2>4, Zenon
  <1> QED BY <1>15, <1>16, <1>17, <1>18, Zenon DEF BusInv

LEMMA OnBusKeeps == ASSUME BusInv, OnBus PROVE BusInv'
  <1>1. HostTypes /\ CommandInv /\ drv.pc = "bus" /\ UNCHANGED hostVars
    BY Zenon DEF BusInv, OnBus
  <1>2. drv.call \in Calls /\ Progress(drv.call)
    BY <1>1, OnBusStep, Zenon
  <1>3. PICK c \in Calls : c = drv.call
    BY <1>2, Zenon
  <1>4. UNCHANGED <<smb, drv, before, answered>> /\ Progress(c)
    BY <1>1, <1>2, <1>3 DEF hostVars
  <1>5. HostTypes'
    BY <1>1, <1>4, Zenon DEF HostTypes, Progress
  <1>6. CommandInv'
    BY <1>1, <1>3, <1>4, Zenon DEF CommandInv, Progress
  <1> QED BY <1>1, <1>4, <1>5, <1>6, Zenon DEF BusInv, WritesLand, ReadsReturn

\* The guest gives up its command, or the machine is reset.
LEMMA GivesUp ==
  ASSUME BusInv, drv' = [pc |-> "idle", call |-> NoCall, result |-> <<>>], before' = NoImage,
         drv.pc # "bus", UNCHANGED <<smb, current_dev, slave, eeprom, bus, faults>>,
         smc' \in SmcTypes,
         answered' \in BOOLEAN, smc'.watchdog = TRUE => answered' = FALSE
  PROVE  BusInv'
  <1>1. drv'.pc = "idle" /\ drv'.call = NoCall /\ drv' = [pc |-> drv'.pc, call |-> drv'.call, result |-> drv'.result]
    BY Zenon
  <1>2. before' \in [Byte -> Byte]
    BY ByteTypes, Zenon DEF NoImage
  <1>3. HostTypes'
    BY <1>1, <1>2 DEF BusInv, HostTypes
  <1>4. CommandInv'
    BY <1>1, Zenon DEF BusInv, CommandInv, AllIdle
  <1> QED BY <1>1, <1>3, <1>4, Zenon DEF BusInv, WritesLand, ReadsReturn

\* A step that leaves the controller, the driver and the bus alone.
LEMMA Aside ==
  ASSUME BusInv, UNCHANGED <<busVars, smb, drv, before, answered>>
  PROVE  BusInv'
  <1>1. UNCHANGED <<current_dev, slave, eeprom, smc, bus, faults, smb, drv, before, answered>>
    BY Zenon DEF busVars
  <1>2. HostTypes'
    BY <1>1, Zenon DEF BusInv, HostTypes
  <1>3. ASSUME NEW c PROVE (Underway(c) => Underway(c)') /\ (Over(c) => Over(c)') /\ (Landed(c) => Landed(c)')
    <2>1. AllIdle' = AllIdle /\ Total(c)' = Total(c)
      BY <1>1, Zenon DEF AllIdle, Total, Cell
    <2>2. GotRight(c) => GotRight(c)'
      BY <1>1, Zenon DEF GotRight, Cell
    <2>3. GotAll(c) => GotAll(c)'
      BY <1>1, <2>1, <2>2, Zenon DEF GotAll
    <2>4. ASSUME NEW mode, NEW buf, NEW reads, NEW command, Talking(mode, buf, reads, command)
          PROVE  Talking(mode, buf, reads, command)'
      BY <1>1, <2>1, <2>4 DEF Talking
    <2>5. Over(c) => Over(c)'
      BY <1>1, <2>1, <2>3, Zenon DEF Over
    <2>6. Landed(c) => Landed(c)'
      BY <1>1, Zenon DEF Landed, WrittenTo
    <2>7. /\ WriteStart(c) => WriteStart(c)'
          /\ QuickStart(c) => QuickStart(c)'
          /\ ByteStart(c) => ByteStart(c)'
          /\ AskStart(c) => AskStart(c)'
      BY <1>1, <2>1, Zenon DEF WriteStart, QuickStart, ByteStart, AskStart
    <2>8. /\ ByteRecv(c) => ByteRecv(c)'
          /\ ByteNack(c) => ByteNack(c)'
          /\ AskSend(c) => AskSend(c)'
          /\ AskTurn(c) => AskTurn(c)'
          /\ AskLength(c) => AskLength(c)'
          /\ \A k \in 0 .. Len(ToSend(c)) : Sending(c, k) => Sending(c, k)'
      BY <1>1, <2>4 DEF ByteRecv, ByteNack, AskSend, AskTurn, AskLength, Sending
    <2>9. Reading(c) => Reading(c)'
      <3> SUFFICES ASSUME Reading(c) PROVE Reading(c)'
        BY Zenon
      <3>1. PICK n : n = Len(bus.got)
        BY ZenonT(30)
      <3>2. Talking("READ_DATA", <<>>, n, c.cmd) /\ n' = n
        BY <3>1, Zenon DEF Reading
      <3>3. Talking("READ_DATA", <<>>, n, c.cmd)'
        BY <2>4, <3>2
      <3> QED BY <1>1, <2>1, <2>2, <3>1, <3>3, Zenon DEF Reading
    <2>10. Ending(c) => Ending(c)'
      <3> SUFFICES ASSUME Ending(c) PROVE Ending(c)'
        BY Zenon
      <3>1. PICK mode \in {"RECV_BYTE", "DONE"}, n \in 0 .. MaxBlock + 1, command \in Byte :
              Talking(mode, <<>>, n, command)
        BY Zenon DEF Ending
      <3>2. Talking(mode, <<>>, n, command)'
        BY <2>4, <3>1
      <3> QED BY <1>1, <2>3, <3>1, <3>2, Zenon DEF Ending
    <2>11. Underway(c) => Underway(c)'
      BY <1>1, <2>3, <2>7, <2>8, <2>9, <2>10 DEF Underway
    <2> QED BY <2>5, <2>6, <2>11, Zenon
  <1>4. CommandInv'
    <2>1. PICK c : c = drv.call
      BY Zenon
    <2>2. (Underway(c) => Underway(c)') /\ (Over(c) => Over(c)') /\ (Landed(c) => Landed(c)')
      BY <1>3, Zenon
    <2>3. Delivered(c) => Delivered(c)'
      BY <1>1, Zenon DEF Delivered, Cell
    <2>4. AllIdle' = AllIdle
      BY <1>1, Zenon DEF AllIdle
    <2> QED BY <1>1, <2>1, <2>2, <2>3, <2>4, Zenon DEF BusInv, CommandInv
  <1>5. WritesLand' /\ ReadsReturn'
    <2>1. WritesLand'
      BY <1>1, SMTT(30) DEF BusInv, WritesLand, WrittenTo
    <2>2. ReadsReturn'
      BY <1>1 DEF BusInv, ReadsReturn, Cell
    <2> QED BY <2>1, <2>2, Zenon
  <1> QED BY <1>2, <1>4, <1>5, Zenon DEF BusInv

LEMMA ExpireStep == ASSUME BusInv, Expire PROVE BusInv' /\ answered = FALSE
  <1>1. /\ UNCHANGED <<current_dev, slave, eeprom, bus, faults, smb, drv, before, answered>>
        /\ drv.pc # "bus" /\ smc.watchdog /\ smc' = [smc EXCEPT !.watchdog = FALSE, !.reset_requested = TRUE]
    BY Zenon DEF Expire, hostVars
  <1>2. smc' \in SmcTypes /\ smc'.watchdog = FALSE
    BY <1>1, Zenon DEF BusInv, HostTypes, SmcTypes
  <1>3. HostTypes'
    BY <1>1, <1>2, Zenon DEF BusInv, HostTypes
  <1>4. CommandInv'
    BY <1>1, <1>2, Zenon DEF BusInv, CommandInv, AllIdle, Delivered, Cell
  <1>5. WritesLand' /\ ReadsReturn'
    <2>1. WritesLand'
      BY <1>1 DEF BusInv, WritesLand, WrittenTo
    <2>2. ReadsReturn'
      BY <1>1, Zenon DEF BusInv, ReadsReturn, Cell
    <2> QED BY <2>1, <2>2, Zenon
  <1>6. smc.watchdog = TRUE
    BY <1>1, Zenon DEF BusInv, HostTypes
  <1> QED BY <1>3, <1>4, <1>5, <1>6, Zenon DEF BusInv, CommandInv

LEMMA NextCommands == BusInv /\ [Next]_vars => BusInv'
  <1> SUFFICES ASSUME BusInv, [Next]_vars PROVE BusInv'
    BY Zenon
  <1>1. ASSUME NEW c \in Calls, Prepare(c) PROVE BusInv'
    BY <1>1, PrepareStep, Zenon
  <1>2. CASE Start
    BY <1>2, BeginStep, Zenon
  <1>3. CASE OnBus
    BY <1>3, OnBusKeeps
  <1>4. CASE Complete
    BY <1>4, CompleteStep, Zenon
  <1>5. CASE Ack
    BY <1>5, AckStep, Zenon
  <1>6. CASE Fetch
    BY <1>6, FetchStep, Zenon
  <1>7. CASE Return
    <2>1. /\ drv' = [pc |-> "idle", call |-> NoCall, result |-> <<>>] /\ before' = NoImage /\ drv.pc = "fetched"
          /\ UNCHANGED <<smb, current_dev, slave, eeprom, bus, faults, smc, answered>>
      BY <1>7, Zenon DEF Return, busVars
    <2>2. /\ smc' \in SmcTypes
          /\ answered' \in BOOLEAN /\ (smc'.watchdog = TRUE => answered' = FALSE)
      BY <2>1, Zenon DEF BusInv, HostTypes, CommandInv
    <2> QED BY <2>1, <2>2, GivesUp, Zenon
  <1>8. CASE Expire
    BY <1>8, ExpireStep, Zenon
  <1>9. CASE Reset
    <2>1. /\ drv' = [pc |-> "idle", call |-> NoCall, result |-> <<>>] /\ before' = NoImage /\ drv.pc # "bus"
          /\ UNCHANGED <<smb, current_dev, slave, eeprom, bus, faults>> /\ answered' = FALSE
          /\ smc' = [smc EXCEPT !.watchdog = TRUE, !.reset_requested = FALSE]
      BY <1>9 DEF Reset
    <2>2. smc' \in SmcTypes
      BY <2>1, Zenon DEF BusInv, HostTypes, SmcTypes
    <2> QED BY <2>1, <2>2, GivesUp, Zenon
  <1>10. CASE Shutdown
    <2>1. /\ drv' = [pc |-> "idle", call |-> NoCall, result |-> <<>>] /\ before' = NoImage /\ drv.pc # "bus"
          /\ UNCHANGED <<smb, current_dev, slave, eeprom, bus, faults, answered>>
          /\ smc' = [smc EXCEPT !.power = "off"]
      BY <1>10 DEF Shutdown
    <2>2. smc' \in SmcTypes /\ smc'.watchdog = smc.watchdog
      BY <2>1, Zenon DEF BusInv, HostTypes, SmcTypes
    <2>3. answered' \in BOOLEAN /\ (smc'.watchdog = TRUE => answered' = FALSE)
      BY <2>1, <2>2, Zenon DEF BusInv, HostTypes, CommandInv
    <2> QED BY <2>1, <2>2, <2>3, GivesUp, Zenon
  <1>11. CASE UNCHANGED vars
    BY <1>11, Aside, Zenon DEF vars, hostVars
  <1> QED BY <1>1, <1>2, <1>3, <1>4, <1>5, <1>6, <1>7, <1>8, <1>9, <1>10, <1>11, Zenon DEF Next, Off

LEMMA CommandsInvariant == Spec => []BusInv
BY InitCommands, NextCommands, PTL DEF Spec

-----------------------------------------------------------------------------
(* The interrupt.                                                          *)

\* A cycle starts with no status set and the line down, and sets a status.
LineInv ==
  /\ line \in BOOLEAN /\ over \in BOOLEAN
  /\ drv.pc \in {"filled", "bus"} => line = FALSE /\ smb.stat = {}
  /\ drv.pc = "done" => smb.stat # {}

IrqInv == LineInv /\ IrqHasCause

LEMMA InitLines == Init => IrqInv
  <1> SUFFICES ASSUME Init PROVE IrqInv
    BY Zenon
  <1>1. line = FALSE /\ over = FALSE /\ smb.ctl = FALSE /\ drv.pc = "idle"
    BY Zenon DEF Init
  <1> QED BY <1>1, Zenon DEF IrqInv, LineInv, IrqHasCause

\* A write to GLOBAL_STATUS, and what filling the block buffer leaves alone.
LEMMA StatusCleared ==
  ASSUME NEW s \in SmbTypes, NEW val, val # {}
  PROVE  StatusWritten(s, val).ctl = s.ctl /\ StatusWritten(s, val).stat = {}
BY Zenon DEF StatusWritten, SmbTypes

LEMMA StoredQuiet ==
  ASSUME NEW s \in SmbTypes, NEW bytes
  PROVE  Stored(s, bytes).ctl = s.ctl /\ Stored(s, bytes).stat = s.stat
BY Zenon DEF Stored, SmbTypes

LEMMA ReceivedQuiet ==
  ASSUME NEW s \in SmbTypes, NEW c, NEW got
  PROVE  /\ {"ctl", "stat"} \subseteq DOMAIN Received(s, c, got)
         /\ Received(s, c, got).ctl = s.ctl /\ Received(s, c, got).stat = s.stat
BY Zenon DEF Received, SmbTypes

\* A step that leaves the interrupt alone.
LEMMA LineAside ==
  ASSUME IrqInv, UNCHANGED <<line, over>>, smb'.ctl = smb.ctl, smb'.stat = smb.stat,
         drv'.pc \in {"filled", "bus"} => drv.pc \in {"filled", "bus"},
         drv'.pc = "done" => drv.pc = "done"
  PROVE  IrqInv'
BY Zenon DEF IrqInv, LineInv, IrqHasCause

LEMMA NextLines == BusInv /\ IrqInv /\ [Next]_vars => IrqInv'
  <1> SUFFICES ASSUME BusInv, IrqInv, [Next]_vars PROVE IrqInv'
    BY Zenon
  <1>0. smb \in SmbTypes /\ drv = [pc |-> drv.pc, call |-> drv.call, result |-> drv.result]
    BY Zenon DEF BusInv, HostTypes, SmbTypes
  <1>1. ASSUME NEW c \in Calls, Prepare(c) PROVE IrqInv'
    <2>1. PICK s : s = [smb EXCEPT !.ctl = FALSE, !.data0 = c.data0, !.data1 = c.data1]
      BY Zenon
    <2>2. c.data0 \in Byte /\ c.data1 \in Byte
      BY CallsAssumption, Zenon
    <2>3. s \in SmbTypes /\ s.ctl = FALSE
      <3>1. PICK s1 \in SmbTypes : s1 = [smb EXCEPT !.ctl = FALSE]
        BY <1>0, Zenon DEF SmbTypes
      <3>2. PICK s2 \in SmbTypes : s2 = [s1 EXCEPT !.data0 = c.data0]
        BY <2>2, Zenon DEF SmbTypes
      <3>3. PICK s3 \in SmbTypes : s3 = [s2 EXCEPT !.data1 = c.data1]
        BY <2>2, Zenon DEF SmbTypes
      <3>4. s1.ctl = FALSE
        BY <1>0, <3>1, Zenon DEF SmbTypes
      <3>5. s2.ctl = s1.ctl /\ s3.ctl = s2.ctl
        BY <3>2, <3>3, Zenon DEF SmbTypes
      <3> QED BY <2>1, <3>1, <3>2, <3>3, <3>4, <3>5, Zenon
    <2>4. PICK t \in SmbTypes : t = StatusWritten(s, {"HCYC"}) /\ t.ctl = FALSE /\ t.stat = {}
      <3>1. {"HCYC"} # {}
        BY Zenon
      <3>2. StatusWritten(s, {"HCYC"}) \in SmbTypes
        BY <2>3, StatusTypes, Zenon
      <3>3. StatusWritten(s, {"HCYC"}).ctl = FALSE /\ StatusWritten(s, {"HCYC"}).stat = {}
        BY <2>3, <3>1, StatusCleared, Zenon
      <3> QED BY <3>2, <3>3, Zenon
    <2>5. smb' = Stored(t, c.block)
      BY <1>1, <2>1, <2>4, Zenon DEF Prepare
    <2>6. smb'.ctl = FALSE /\ smb'.stat = {}
      BY <2>4, <2>5, StoredQuiet, Zenon
    <2>7. line' = FALSE /\ over' = FALSE /\ drv'.pc = "filled"
      <3>1. line' = FALSE /\ over' = FALSE /\ drv' = [pc |-> "filled", call |-> c, result |-> <<>>]
        BY <1>1, Zenon DEF Prepare
      <3> QED BY <3>1, Zenon
    <2> QED BY <2>6, <2>7, Zenon DEF IrqInv, LineInv, IrqHasCause
  <1>2. CASE Start
    <2>1. smb'.stat = {} /\ line = FALSE /\ UNCHANGED <<line, over>> /\ drv'.pc = "bus"
      BY <1>0, <1>2, Zenon DEF Start, Goto, IrqInv, LineInv, SmbTypes
    <2> QED BY <2>1, Zenon DEF IrqInv, LineInv, IrqHasCause
  <1>3. CASE OnBus
    BY <1>3, LineAside, Zenon DEF OnBus, hostVars
  <1>4. CASE Complete
    <2>1. PICK s : s = Received(smb, drv.call, bus.got)
      BY Zenon
    <2>2. {"ctl", "stat"} \subseteq DOMAIN s /\ s.ctl = smb.ctl
      BY <1>0, <2>1, ReceivedQuiet, Zenon
    <2>3. PICK st : st # {} /\ smb' = [s EXCEPT !.stat = st]
      <3>1. smb' = [s EXCEPT !.stat = @ \union {IF drv.call.prot = "PROCESS_CALL" THEN "PRERR" ELSE "HCYC"}]
        BY <1>4, <2>1, Zenon DEF Complete
      <3> QED BY <3>1, Zenon
    <2>4. smb'.ctl = smb.ctl /\ smb'.stat # {}
      BY <2>2, <2>3, Zenon
    <2>5. drv.pc = "bus" /\ drv'.pc = "done" /\ line' = (smb.ctl \/ line) /\ over' = over
      BY <1>0, <1>4, Zenon DEF Complete, Goto
    <2> QED BY <2>4, <2>5, Zenon DEF IrqInv, LineInv, IrqHasCause
  <1>5. CASE Ack
    <2>1. PICK val : val = IF drv.call.ack = "all" THEN Statuses ELSE smb.stat
      BY Zenon
    <2>2. /\ smb' = StatusWritten(smb, val) /\ line' = Raises(val) /\ over' = (val \ smb.stat # {})
          /\ drv'.pc = "acked"
      BY <1>0, <1>5, <2>1, Zenon DEF Ack, Goto
    <2>3. val # {}
      <3>1. Statuses # {} /\ smb.stat # {}
        BY <1>5, Zenon DEF Ack, IrqInv, LineInv, Statuses
      <3> QED BY <2>1, <3>1, Zenon
    <2>4. smb'.ctl = smb.ctl /\ smb'.stat = {}
      BY <1>0, <2>2, <2>3, StatusCleared, Zenon
    <2> QED BY <2>2, <2>4, Zenon DEF IrqInv, LineInv, IrqHasCause, Raises
  <1>6. CASE Fetch
    <2>1. UNCHANGED <<line, over>> /\ smb'.ctl = smb.ctl /\ smb'.stat = smb.stat /\ drv'.pc = "fetched"
      BY <1>0, <1>6, Zenon DEF Fetch, SmbTypes
    <2> QED BY <2>1, LineAside, Zenon
  <1>7. CASE Return \/ Reset \/ Shutdown
    <2>1. UNCHANGED <<line, over, smb>> /\ drv'.pc = "idle"
      <3>1. UNCHANGED <<line, over, smb>> /\ drv' = [pc |-> "idle", call |-> NoCall, result |-> <<>>]
        BY <1>7, Zenon DEF Return, Reset, Shutdown
      <3> QED BY <3>1, Zenon
    <2> QED BY <2>1, LineAside, Zenon
  <1>8. CASE Expire \/ UNCHANGED vars
    BY <1>8, LineAside, Zenon DEF Expire, vars, hostVars
  <1> QED BY <1>1, <1>2, <1>3, <1>4, <1>5, <1>6, <1>7, <1>8, Zenon DEF Next, Off

LEMMA LinesInvariant == Spec => []IrqInv
BY InitLines, NextLines, CommandsInvariant, PTL DEF Spec

\* Whatever the driver calls and however it acknowledges, the SMBus interrupts
\* for every finished cycle until it is acknowledged, and without a status only
\* after an acknowledgement of a status that was not set.
THEOREM InterruptsCaused == Spec => []IrqHasCause
  <1>1. IrqInv => IrqHasCause
    BY Zenon DEF IrqInv
  <1> QED BY <1>1, LinesInvariant, PTL
-----------------------------------------------------------------------------
(* What follows.                                                           *)

SlaveTypes ==
  /\ current_dev \in Slaves \union {"none"}
  /\ \A d \in Slaves : /\ slave[d].mode \in Modes /\ slave[d].command \in Byte
                       /\ Len(slave[d].data_buf) <= MaxBlock + 2

LEMMA IdleTypes == AllIdle => SlaveTypes
  <1> SUFFICES ASSUME AllIdle PROVE SlaveTypes
    BY Zenon
  <1>1. ASSUME NEW d \in Slaves PROVE slave[d] = IdleSlave
    BY <1>1, Zenon DEF AllIdle
  <1>2. /\ IdleSlave.mode \in Modes /\ IdleSlave.command \in Byte /\ IdleSlave.data_buf = <<>>
        /\ Len(<<>>) <= MaxBlock + 2
    BY SizesAssumption, ByteTypes DEF IdleSlave, Modes
  <1> QED BY <1>1, <1>2, Zenon DEF AllIdle, SlaveTypes

LEMMA TalkingTypes ==
  ASSUME NEW mode \in Modes, NEW buf, Len(buf) <= MaxBlock + 2, NEW reads, NEW command \in Byte,
         Talking(mode, buf, reads, command)
  PROVE  SlaveTypes
  <1>1. CASE drv.call.addr \in Slaves
    <2>1. /\ current_dev = drv.call.addr
          /\ slave = [d \in Slaves |-> IF d = drv.call.addr THEN SlaveRec(mode, buf, reads, command)
                                                          ELSE IdleSlave]
      BY <1>1, TalkingIs
    <2>2. /\ IdleSlave.mode \in Modes /\ IdleSlave.command \in Byte /\ IdleSlave.data_buf = <<>>
          /\ Len(<<>>) <= MaxBlock + 2
      BY SizesAssumption, ByteTypes DEF IdleSlave, Modes
    <2>3. LET s == SlaveRec(mode, buf, reads, command) IN s.mode = mode /\ s.data_buf = buf /\ s.command = command
      BY Zenon DEF SlaveRec
    <2>4. ASSUME NEW d \in Slaves
          PROVE  /\ slave[d].mode \in Modes /\ slave[d].command \in Byte
                 /\ Len(slave[d].data_buf) <= MaxBlock + 2
      BY <2>1, <2>2, <2>3, Zenon
    <2> QED BY <1>1, <2>1, <2>4, Zenon DEF SlaveTypes
  <1>2. CASE drv.call.addr \notin Slaves
    BY <1>2, IdleTypes, Zenon DEF Talking
  <1> QED BY <1>1, <1>2, Zenon

LEMMA UnderwayTypes == ASSUME HostTypes, NEW c \in Calls, Underway(c) PROVE SlaveTypes
  <1>1. /\ c.cmd \in Byte /\ 0 \in Byte /\ Len(<<>>) <= MaxBlock + 2
        /\ {"WRITE_DATA", "RECV_BYTE", "READ_DATA", "DONE"} \subseteq Modes
    BY CallsAssumption, ByteTypes, SizesAssumption DEF Modes
  <1>2. CASE WriteStart(c) \/ QuickStart(c) \/ ByteStart(c) \/ AskStart(c)
    BY <1>2, IdleTypes, Zenon DEF WriteStart, QuickStart, ByteStart, AskStart
  <1>3. CASE ByteRecv(c) \/ ByteNack(c) \/ AskSend(c) \/ AskLength(c)
    BY <1>1, <1>3, TalkingTypes, Zenon DEF ByteRecv, ByteNack, AskSend, AskLength
  <1>4. CASE AskTurn(c)
    <2>1. PICK buf : buf = <<c.cmd>>
      BY Zenon
    <2>2. Len(buf) <= MaxBlock + 2
      BY <2>1, SizesAssumption
    <2> QED BY <1>1, <1>4, <2>1, <2>2, TalkingTypes, Zenon DEF AskTurn
  <1>5. CASE \E k \in 0 .. Len(ToSend(c)) : Sending(c, k)
    <2>1. PICK k \in 0 .. Len(ToSend(c)) : Sending(c, k)
      BY <1>5, Zenon
    <2>2. ToSend(c) \in Seq(Byte) /\ Len(ToSend(c)) <= MaxBlock + 2 /\ Len(ToSend(c)) \in Nat
      BY <2>1, SentTypes DEF Sending, Writes
    <2>3. PICK buf : buf = SubSeq(ToSend(c), 1, k)
      BY Zenon
    <2>4. Len(buf) <= MaxBlock + 2
      <3>1. \A i \in 1 .. k : ToSend(c)[i] \in Byte
        BY <2>1, <2>2
      <3>2. Len(SubSeq(ToSend(c), 1, k)) = IF 1 <= k THEN k - 1 + 1 ELSE 0
        BY <2>1, <2>2, <3>1, SubSeqProperties
      <3> QED BY <2>1, <2>2, <2>3, <3>2, SizesAssumption
    <2> QED BY <1>1, <2>1, <2>3, <2>4, TalkingTypes, Zenon DEF Sending
  <1>6. CASE Reading(c)
    <2>1. PICK n : n = Len(bus.got)
      BY Zenon
    <2> QED BY <1>1, <1>6, <2>1, TalkingTypes, Zenon DEF Reading
  <1>7. CASE Ending(c)
    BY <1>1, <1>7, TalkingTypes, Zenon DEF Ending
  <1> QED BY <1>2, <1>3, <1>4, <1>5, <1>6, <1>7, Zenon DEF Underway

LEMMA SlavesTyped == BusInv => SlaveTypes
  <1> SUFFICES ASSUME BusInv PROVE SlaveTypes
    BY Zenon
  <1>1. HostTypes /\ CommandInv
    BY Zenon DEF BusInv
  <1>2. CASE drv.pc = "bus"
    <2>1. PICK c \in Calls : c = drv.call
      BY <1>1, <1>2, Zenon DEF HostTypes
    <2>2. Underway(c) \/ Over(c)
      BY <1>1, <1>2, <2>1, Zenon DEF CommandInv
    <2> QED BY <1>1, <2>2, UnderwayTypes, IdleTypes, Zenon DEF Over
  <1>3. CASE drv.pc # "bus"
    BY <1>1, <1>3, IdleTypes, Zenon DEF CommandInv
  <1> QED BY <1>2, <1>3, Zenon

\* Whatever the driver calls, the buses, the slaves and the controller
\* keep their types: indices of the block buffer stay inside it and addresses
\* of the EEPROM inside its memory.
THEOREM SouthbridgeTypes == Spec => []TypeOK
  <1>1. ASSUME BusInv, IrqInv PROVE TypeOK
    <2>1. HostTypes /\ SlaveTypes /\ LineInv
      BY <1>1, SlavesTyped, Zenon DEF BusInv, IrqInv
    <2>2. BusTypeOK
      BY <2>1, Zenon DEF BusTypeOK, HostTypes, SlaveTypes, SmcTypes
    <2>3. drv.call \in Calls \union {NoCall}
      BY <2>1 DEF HostTypes
    <2> QED BY <2>1, <2>2, <2>3 DEF TypeOK, HostTypes, LineInv, SmcTypes, Statuses
  <1> QED BY <1>1, CommandsInvariant, LinesInvariant, PTL

\* Whatever the driver calls, at an address with a slave or without, no slave
\* is confused (smbus_i2c_event and its BADF messages), data_buf never
\* overflows, and every slave is idle once the command is over.
THEOREM SlavesReady == Spec => []SlavesStayReady
  <1>1. ASSUME BusInv PROVE SlavesStayReady
    <2>1. HostTypes /\ CommandInv /\ SlaveTypes
      BY <1>1, SlavesTyped DEF BusInv
    <2>2. ASSUME bus.todo = <<>> PROVE AllIdle
      <3>1. CASE drv.pc = "bus"
        <4>1. PICK c \in Calls : c = drv.call
          BY <2>1, <3>1 DEF HostTypes
        <4> QED BY <2>1, <2>2, <3>1, <4>1, Busy, Zenon DEF CommandInv, Over
      <3>2. CASE drv.pc # "bus"
        BY <2>1, <3>2, Zenon DEF CommandInv
      <3> QED BY <3>1, <3>2, Zenon
    <2>3. AllIdle => current_dev = "none" /\ \A d \in Slaves :
            slave[d].mode = "IDLE" /\ slave[d].data_buf = <<>> /\ slave[d].reads = 0
      BY DEF AllIdle, IdleSlave
    <2> QED BY <2>1, <2>2, <2>3, Zenon DEF SlavesStayReady, HostTypes, SlaveTypes
  <1> QED BY <1>1, CommandsInvariant, PTL

\* Whatever the driver calls, a command that has ended has left in the EEPROM
\* what eeprom_write_data was asked for, wrapping at the end of the memory,
\* and has changed nothing else.
THEOREM WritesKept == Spec => []WritesLand
  <1>1. BusInv => WritesLand
    BY Zenon DEF BusInv
  <1> QED BY <1>1, CommandsInvariant, PTL

\* Whatever was written before and wherever the machine was reset, the bytes,
\* words and blocks that the driver reads through amd_smbus.c are those that
\* the EEPROM holds.
THEOREM ReadsExact == Spec => []ReadsReturn
  <1>1. BusInv => ReadsReturn
    BY Zenon DEF BusInv
  <1> QED BY <1>1, CommandsInvariant, PTL

\* A reset is requested only by a command to the SMC's power register or, by
\* smc_watchdog_timer_cb, when the guest has not answered.
THEOREM ResetsEarned == Spec => ResetIsEarned
  <1>1. ASSUME BusInv, [Next]_vars
        PROVE  [smc'.reset_requested /\ ~smc.reset_requested =>
                  \/ ~answered
                  \/ drv.pc = "bus" /\ drv.call.addr = "smc" /\ drv.call.cmd = PowerReg]_vars
    <2> SUFFICES ASSUME smc'.reset_requested, ~smc.reset_requested
                 PROVE  \/ ~answered
                        \/ drv.pc = "bus" /\ drv.call.addr = "smc" /\ drv.call.cmd = PowerReg
      BY Zenon
    <2>1. smc \in SmcTypes
      BY <1>1, Zenon DEF BusInv, HostTypes
    <2>2. CASE OnBus
      <3>1. Progress(drv.call) /\ drv.pc = "bus"
        BY <1>1, <2>2, OnBusStep, Zenon DEF BusInv, OnBus
      <3> QED BY <2>1, <3>1, Zenon DEF Progress
    <2>3. CASE Expire
      BY <1>1, <2>3, ExpireStep, Zenon
    <2>4. CASE Reset
      BY <2>1, <2>4, Zenon DEF Reset, SmcTypes
    <2>5. CASE UNCHANGED smc
      BY <2>5, Zenon
    <2>6. CASE Shutdown
      BY <2>1, <2>6, Zenon DEF Shutdown, SmcTypes
    <2>7. OnBus \/ Expire \/ Reset \/ Shutdown \/ UNCHANGED smc
      BY <1>1, Zenon DEF Next, Prepare, Start, Complete, Ack, Fetch, Return, Off, vars, busVars
    <2> QED BY <2>2, <2>3, <2>4, <2>5, <2>6, <2>7, Zenon
  <1> QED BY <1>1, CommandsInvariant, PTL DEF Spec, ResetIsEarned
=============================================================================
