-------------------------- MODULE Nv2aFifoProofs --------------------------
(* Proofs about Nv2aFifo, for any threads, channels and pushbuffers: the   *)
(* types, the PGRAPH waits, CACHE1 and the context switch, and the         *)
(* refinement of CommandFifo.                                              *)
EXTENDS Nv2aFifo, TLAPS, SequenceTheorems

\* The guest enables the puller once: pfifo_puller_thread runs in one thread.
OneThread == \A t, u \in Threads : t = u

LEMMA NoCommandIsNone == NoCommand \notin Command
BY Zenon DEF NoCommand, Command, Kinds

\* TypeOK without the interrupt registers and the threads.
DataOK ==
  /\ iothread \in Threads \cup {Free, Cpu}
  /\ cacheLock \in Threads \cup {Free}
  /\ pgLock \in Threads \cup {Free}
  /\ pullEnabled \in BOOLEAN /\ pushEnabled \in BOOLEAN /\ aborted \in BOOLEAN
  /\ cache \in Seq(Command) /\ pushed \in Seq(Command) /\ retired \in Seq(Command)
  /\ bound \subseteq Subchannels
  /\ chid \in Channels /\ pgChannel \in Channels /\ trapped \in Channels
  /\ entry \in [Threads -> Channels]
  /\ dmaGet \in [Channels -> Nat] /\ dmaPut \in [Channels -> Nat]
  /\ \A c \in Channels : dmaGet[c] <= dmaPut[c] /\ dmaPut[c] <= Len(Stream[c])
  /\ channelValid \in BOOLEAN /\ fifoAccess \in BOOLEAN
  /\ read3d \in 0..MaxFlips
  /\ cpu \in CpuStates

LEMMA TypeParts ==
  /\ TypeOK <=> IrqTypeOK /\ ThreadsOK /\ DataOK
  /\ TypeOK' <=> IrqTypeOK' /\ ThreadsOK' /\ DataOK'
BY Zenon DEF TypeOK, DataOK

LEMMA InitType == Init => TypeOK
  <1> SUFFICES ASSUME Init PROVE TypeOK
    BY Zenon
  <1>1. IrqTypeOK
    BY Zenon DEF Init, IrqInit, IrqTypeOK, Masks, Units, PmcBits
  <1>2. ThreadsOK
    BY Zenon DEF Init, ThreadsOK, PC, Busy
  <1>3. DataOK
    <2>1. /\ dmaGet \in [Channels -> Nat] /\ dmaPut \in [Channels -> Nat]
          /\ \A c \in Channels : dmaGet[c] <= dmaPut[c] /\ dmaPut[c] <= Len(Stream[c])
          /\ read3d \in 0..MaxFlips
      BY StreamAssumption, FlipsAssumption DEF Init
    <2>2. cache \in Seq(Command) /\ pushed \in Seq(Command) /\ retired \in Seq(Command)
      BY DEF Init
    <2>3. entry \in [Threads -> Channels]
      BY ChannelsAssumption, Zenon DEF Init
    <2> QED BY <2>1, <2>2, <2>3, ChannelsAssumption, Zenon DEF Init, DataOK, CpuStates
  <1> QED BY <1>1, <1>2, <1>3, TypeParts, Zenon
-----------------------------------------------------------------------------
(* The interrupt tree.                                                     *)

\* Setting an interrupt of a unit, clearing some, or writing a mask.
LEMMA MaskUpdates ==
  ASSUME NEW m \in Masks, NEW u \in Units, NEW val \in SUBSET Sources[u]
  PROVE  /\ [m EXCEPT ![u] = @ \cup val] \in Masks
         /\ [m EXCEPT ![u] = val] \in Masks
  <1>1. Sources[u] \in SUBSET {"DMA_PUSHER", "VBLANK", "NOTIFY", "CONTEXT_SWITCH"}
    BY DEF Units, Sources
  <1> QED BY <1>1, Zenon DEF Masks

LEMMA MaskClear ==
  ASSUME NEW m \in Masks, NEW u \in Units, NEW val
  PROVE  [m EXCEPT ![u] = @ \ val] \in Masks
BY Zenon DEF Masks

LEMMA UpdateIrqType ==
  ASSUME IrqTypeOK, NEW pm \in SUBSET PmcBits, pending' \in Masks, enabled' \in Masks,
         pmcEnabled' \subseteq PmcBits, update_irq(pm)
  PROVE  IrqTypeOK'
  <1>1. pmcPending' \subseteq PmcBits
    BY Zenon DEF update_irq, Raising, PmcBits
  <1>2. irq' \in BOOLEAN
    BY Zenon DEF update_irq
  <1> QED BY <1>1, <1>2, Zenon DEF IrqTypeOK

LEMMA IrqUnchanged == IrqTypeOK /\ UNCHANGED irqVars => IrqTypeOK'
BY Zenon DEF IrqTypeOK, irqVars

\* The handlers of the interrupt registers.
LEMMA PmcWrites ==
  ASSUME IrqTypeOK, NEW val \in SUBSET PmcBits
  PROVE  /\ pmc_write_INTR_0(val) => IrqTypeOK'
         /\ pmc_write_INTR_EN_0(val) => IrqTypeOK'
  <1>1. ASSUME pmc_write_INTR_0(val) PROVE IrqTypeOK'
    <2>1. /\ pmcPending \ val \in SUBSET PmcBits /\ pending' \in Masks /\ enabled' \in Masks
          /\ pmcEnabled' \subseteq PmcBits /\ update_irq(pmcPending \ val)
      BY <1>1, Zenon DEF pmc_write_INTR_0, IrqTypeOK
    <2> QED BY <2>1, UpdateIrqType, Zenon
  <1>2. ASSUME pmc_write_INTR_EN_0(val) PROVE IrqTypeOK'
    <2>1. /\ pmcPending \in SUBSET PmcBits /\ pending' \in Masks /\ enabled' \in Masks
          /\ pmcEnabled' \subseteq PmcBits /\ update_irq(pmcPending)
      BY <1>2, Zenon DEF pmc_write_INTR_EN_0, IrqTypeOK
    <2> QED BY <2>1, UpdateIrqType, Zenon
  <1> QED BY <1>1, <1>2, Zenon

LEMMA UnitWrites ==
  ASSUME IrqTypeOK, NEW u \in Units, NEW val \in SUBSET Sources[u]
  PROVE  /\ unit_write_INTR_0(u, val) => IrqTypeOK'
         /\ unit_write_INTR_EN_0(u, val) => IrqTypeOK'
  <1>1. pending \in Masks /\ enabled \in Masks /\ pmcPending \in SUBSET PmcBits
        /\ pmcEnabled \in SUBSET PmcBits
    BY Zenon DEF IrqTypeOK
  <1>2. ASSUME unit_write_INTR_0(u, val) PROVE IrqTypeOK'
    <2>1. [pending EXCEPT ![u] = @ \ val] \in Masks
      BY <1>1, MaskClear, Zenon
    <2> QED BY <1>1, <1>2, <2>1, UpdateIrqType, Zenon DEF unit_write_INTR_0
  <1>3. ASSUME unit_write_INTR_EN_0(u, val) PROVE IrqTypeOK'
    <2>1. [enabled EXCEPT ![u] = val] \in Masks
      BY <1>1, MaskUpdates, Zenon
    <2> QED BY <1>1, <1>3, <2>1, UpdateIrqType, Zenon DEF unit_write_INTR_EN_0
  <1> QED BY <1>2, <1>3, Zenon

LEMMA PgraphWrites ==
  ASSUME IrqTypeOK, NEW val \in SUBSET Sources["PGRAPH"]
  PROVE  /\ pgraph_write_INTR(val) => IrqTypeOK'
         /\ pgraph_write_INTR_EN(val) => IrqTypeOK'
  <1>1. "PGRAPH" \in Units
    BY Zenon DEF Units
  <1>2. pending \in Masks /\ enabled \in Masks
    BY Zenon DEF IrqTypeOK
  <1>3. [pending EXCEPT !["PGRAPH"] = @ \ val] \in Masks /\ [enabled EXCEPT !["PGRAPH"] = val] \in Masks
    BY <1>1, <1>2, MaskClear, MaskUpdates, Zenon
  <1> QED BY <1>3, Zenon DEF pgraph_write_INTR, pgraph_write_INTR_EN, IrqTypeOK

\* An interrupt is raised, and update_irq called.
LEMMA RaiseType ==
  ASSUME IrqTypeOK, NEW u \in Units, NEW i \in Sources[u],
         pending' = [pending EXCEPT ![u] = @ \cup {i}],
         UNCHANGED <<enabled, pmcEnabled>>, update_irq(pmcPending)
  PROVE  IrqTypeOK'
  <1>1. [pending EXCEPT ![u] = @ \cup {i}] \in Masks
    BY MaskUpdates, Zenon DEF IrqTypeOK
  <1> QED BY <1>1, UpdateIrqType, Zenon DEF IrqTypeOK
-----------------------------------------------------------------------------
(* The threads.                                                            *)

\* A step of t within its command, or outside any.
LEMMA GotoType ==
  ASSUME ThreadsOK, NEW t \in Threads, NEW l \in PC, l \in Busy <=> pc[t] \in Busy,
         Goto(t, l), cmd' = cmd
  PROVE  ThreadsOK'
BY Zenon DEF ThreadsOK, Goto

LEMMA AssertType ==
  ASSUME ThreadsOK, DataOK, NEW t \in Threads, NEW b, NEW l \in PC,
         l \in Busy <=> pc[t] \in Busy, Assert(t, b, l), cmd' = cmd
  PROVE  ThreadsOK' /\ aborted' \in BOOLEAN
  <1>1. CASE b
    BY <1>1, GotoType, Zenon DEF Assert, DataOK
  <1>2. CASE ~b
    BY <1>2, Zenon DEF Assert, ThreadsOK
  <1> QED BY <1>1, <1>2, Zenon

LEMMA WaitPoints ==
  ASSUME NEW l \in DOMAIN Waits
  PROVE  /\ l \in PC /\ Waits[l] \in PC
         /\ Waits[l] \in Busy <=> l \in Busy
BY DEF Waits, PC, Busy

LEMMA WokenType ==
  ASSUME ThreadsOK, NEW C \in SUBSET DOMAIN Waits, pc' = Woken(C), cmd' = cmd
  PROVE  ThreadsOK'
  <1>1. \A t \in Threads : pc'[t] \in PC /\ (pc'[t] \in Busy <=> pc[t] \in Busy)
    BY WaitPoints, Zenon DEF Woken, ThreadsOK
  <1>2. pc' \in [Threads -> PC]
    BY <1>1, Zenon DEF Woken
  <1> QED BY <1>1, <1>2, Zenon DEF ThreadsOK

LEMMA SignalType == ThreadsOK /\ signal_cache_cond /\ cmd' = cmd => ThreadsOK'
  <1> SUFFICES ASSUME ThreadsOK, signal_cache_cond, cmd' = cmd PROVE ThreadsOK'
    BY Zenon
  <1>1. "relock" \in PC /\ "relock" \notin Busy /\ "cacheWait" \notin Busy
    BY Zenon DEF PC, Busy
  <1>2. CASE UNCHANGED pc
    BY <1>2, Zenon DEF ThreadsOK
  <1>3. CASE \E t \in Threads : pc[t] = "cacheWait" /\ pc' = [pc EXCEPT ![t] = "relock"]
    BY <1>1, <1>3, GotoType, Zenon DEF Goto
  <1> QED BY <1>2, <1>3, Zenon DEF signal_cache_cond

LEMMA ThreadsUnchanged == ThreadsOK /\ UNCHANGED threadVars => ThreadsOK'
BY Zenon DEF ThreadsOK, threadVars
-----------------------------------------------------------------------------
(* Every step keeps the types.                                             *)

LEMMA StreamType ==
  ASSUME NEW c \in Channels
  PROVE  Stream[c] \in Seq(Command) /\ Len(Stream[c]) \in Nat
BY StreamAssumption

LEMMA BeginType ==
  ASSUME TypeOK, NEW w \in CpuStates, MmioBegin(w)
  PROVE  TypeOK'
  <1>1. IrqTypeOK' /\ ThreadsOK'
    BY TypeParts, IrqUnchanged, ThreadsUnchanged, Zenon DEF MmioBegin
  <1>2. DataOK'
    BY TypeParts, Zenon DEF MmioBegin, DataOK, cacheVars, pushVars, pgVars, threadVars
  <1> QED BY <1>1, <1>2, TypeParts, Zenon

LEMMA IrqStepType ==
  ASSUME TypeOK, CpuFree, IrqTypeOK',
         UNCHANGED <<lockVars, pullEnabled, cacheVars, bound, pushVars, pgVars, cpu,
                     threadVars, aborted, retired>>
  PROVE  TypeOK'
  <1>1. ThreadsOK'
    BY TypeParts, ThreadsUnchanged, Zenon
  <1>2. DataOK'
    BY TypeParts, Zenon DEF DataOK, lockVars, cacheVars, pushVars, pgVars, threadVars
  <1> QED BY <1>1, <1>2, TypeParts, Zenon

LEMMA GuestType == TypeOK /\ Guest => TypeOK'
  <1> SUFFICES ASSUME TypeOK, Guest PROVE TypeOK'
    BY Zenon
  <1>0. IrqTypeOK /\ ThreadsOK /\ DataOK
    BY TypeParts, Zenon
  <1>1. ASSUME NEW b \in BOOLEAN, pfifo_write_PUSH0(b) PROVE TypeOK'
    <2>1. IrqTypeOK' /\ ThreadsOK'
      BY <1>0, <1>1, IrqUnchanged, ThreadsUnchanged, Zenon DEF pfifo_write_PUSH0
    <2>2. DataOK'
      BY <1>0, <1>1, Zenon DEF pfifo_write_PUSH0, DataOK, lockVars, cacheVars, pgVars, threadVars
    <2> QED BY <2>1, <2>2, TypeParts, Zenon
  <1>2. ASSUME NEW c \in Channels, pfifo_write_PUSH1(c) PROVE TypeOK'
    <2>1. IrqTypeOK' /\ ThreadsOK'
      BY <1>0, <1>2, IrqUnchanged, ThreadsUnchanged, Zenon DEF pfifo_write_PUSH1
    <2>2. DataOK'
      BY <1>0, <1>2, Zenon DEF pfifo_write_PUSH1, DataOK, lockVars, cacheVars, pgVars, threadVars
    <2> QED BY <2>1, <2>2, TypeParts, Zenon
  <1>3. CASE pfifo_write_PULL0_enable
    <2>1. "top" \in PC /\ "top" \notin Busy /\ "new" \notin Busy
      BY Zenon DEF PC, Busy
    <2>2. IrqTypeOK'
      BY <1>0, <1>3, IrqUnchanged, Zenon DEF pfifo_write_PULL0_enable
    <2>3. ThreadsOK'
      <3>1. PICK t \in Threads : pc[t] = "new" /\ pc' = [pc EXCEPT ![t] = "top"]
        BY <1>3, Zenon DEF pfifo_write_PULL0_enable
      <3>2. cmd' = cmd
        BY <1>3, Zenon DEF pfifo_write_PULL0_enable
      <3> QED BY <1>0, <2>1, <3>1, <3>2, GotoType, Zenon DEF Goto
    <2>4. DataOK'
      BY <1>0, <1>3, Zenon DEF pfifo_write_PULL0_enable, DataOK, lockVars, cacheVars, pushVars, pgVars
    <2> QED BY <2>2, <2>3, <2>4, TypeParts, Zenon
  <1>4. CASE pfifo_write_PULL0_disable
    <2>1. IrqTypeOK'
      BY <1>0, <1>4, IrqUnchanged, Zenon DEF pfifo_write_PULL0_disable
    <2>2. ThreadsOK'
      <3>1. {"cacheWait"} \in SUBSET DOMAIN Waits
        BY Zenon DEF Waits
      <3> QED BY <1>0, <1>4, <3>1, WokenType, Zenon DEF pfifo_write_PULL0_disable
    <2>3. DataOK'
      BY <1>0, <1>4, ZenonT(30) DEF pfifo_write_PULL0_disable, DataOK, lockVars, cacheVars, pushVars, pgVars
    <2> QED BY <2>1, <2>2, <2>3, TypeParts, Zenon
  <1>5. ASSUME NEW S \in SUBSET Subchannels, pfifo_write_ENGINE(S) PROVE TypeOK'
    <2>1. IrqTypeOK' /\ ThreadsOK'
      BY <1>0, <1>5, IrqUnchanged, ThreadsUnchanged, Zenon DEF pfifo_write_ENGINE
    <2>2. DataOK'
      BY <1>0, <1>5 DEF pfifo_write_ENGINE, DataOK, lockVars, cacheVars, pushVars, pgVars, threadVars
    <2> QED BY <2>1, <2>2, TypeParts, Zenon
  <1>6. ASSUME NEW c \in Channels, NEW n \in dmaPut[c] + 1 .. Len(Stream[c]),
               user_write_DMA_PUT(c, n)
        PROVE  TypeOK'
    <2>1. IrqTypeOK' /\ ThreadsOK'
      BY <1>0, <1>6, IrqUnchanged, ThreadsUnchanged, Zenon DEF user_write_DMA_PUT
    <2>2. dmaPut[c] \in Nat /\ n \in Nat /\ n <= Len(Stream[c]) /\ dmaPut[c] <= n
      BY <1>0, StreamType, SMTT(30) DEF DataOK
    <2>3. /\ dmaPut' \in [Channels -> Nat]
          /\ \A d \in Channels : dmaGet[d] <= dmaPut'[d] /\ dmaPut'[d] <= Len(Stream[d])
      <3>1. dmaPut' = [dmaPut EXCEPT ![c] = n] /\ dmaPut \in [Channels -> Nat]
        BY <1>0, <1>6, Zenon DEF DataOK, user_write_DMA_PUT
      <3>2. \A d \in Channels : dmaPut'[d] = IF d = c THEN n ELSE dmaPut[d]
        BY <3>1, Zenon
      <3>3. \A d \in Channels : /\ dmaGet[d] \in Nat /\ Len(Stream[d]) \in Nat
                                /\ dmaGet[d] <= dmaPut[d] /\ dmaPut[d] <= Len(Stream[d])
        BY <1>0, StreamType, Zenon DEF DataOK
      <3>4. dmaGet[c] <= n
        BY <2>2, <3>3
      <3> QED BY <2>2, <3>1, <3>2, <3>3, <3>4, Zenon
    <2>4. cpu' \in CpuStates /\ iothread' \in Threads \cup {Free, Cpu}
      BY <1>0, <1>6, Zenon DEF DataOK, user_write_DMA_PUT, CpuStates
    <2>5. DataOK'
      BY <1>0, <1>6, <2>3, <2>4, Zenon DEF user_write_DMA_PUT, DataOK, cacheVars, pgVars, threadVars
    <2> QED BY <2>1, <2>5, TypeParts, Zenon
  <1>7. ASSUME NEW w \in CpuStates, MmioBegin(w) PROVE TypeOK'
    BY <1>7, BeginType, Zenon
  <1>8. CASE pgraph_INCREMENT
    <2>1. IrqTypeOK' /\ ThreadsOK'
      BY <1>0, <1>8, IrqUnchanged, ThreadsUnchanged, Zenon DEF pgraph_INCREMENT
    <2>2. read3d' \in 0..MaxFlips
      BY <1>0, <1>8, FlipsAssumption DEF pgraph_INCREMENT, DataOK
    <2>3. DataOK'
      BY <1>0, <1>8, <2>2 DEF pgraph_INCREMENT, DataOK, lockVars, cacheVars, pushVars, threadVars
    <2> QED BY <2>1, <2>3, TypeParts, Zenon
  <1>9. CASE irq_pmc_INTR_0 \/ irq_pmc_INTR_EN_0
    <2>1. PICK val \in PmcMasks : IrqStep(pmc_write_INTR_0(val)) \/ IrqStep(pmc_write_INTR_EN_0(val))
      BY <1>9, Zenon DEF irq_pmc_INTR_0, irq_pmc_INTR_EN_0
    <2>2. val \in SUBSET PmcBits
      BY PmcMasksAssumption, Zenon
    <2>3. IrqTypeOK'
      BY <1>0, <2>1, <2>2, PmcWrites, Zenon DEF IrqStep
    <2> QED BY <2>1, <2>3, IrqStepType, Zenon DEF IrqStep
  <1>10. CASE irq_unit_INTR_0 \/ irq_unit_INTR_EN_0
    <2>4. PICK u \in {"PFIFO", "PCRTC"} : \E val \in SUBSET Sources[u] :
            IrqStep(unit_write_INTR_0(u, val)) \/ IrqStep(unit_write_INTR_EN_0(u, val))
      BY <1>10, Zenon DEF irq_unit_INTR_0, irq_unit_INTR_EN_0
    <2>1. PICK val \in SUBSET Sources[u] :
            IrqStep(unit_write_INTR_0(u, val)) \/ IrqStep(unit_write_INTR_EN_0(u, val))
      BY <2>4, Zenon
    <2>2. u \in Units
      BY Zenon DEF Units
    <2>3. IrqTypeOK'
      BY <1>0, <2>1, <2>2, UnitWrites, Zenon DEF IrqStep
    <2> QED BY <2>1, <2>3, IrqStepType, Zenon DEF IrqStep
  <1>11. CASE irq_pgraph_INTR_EN
    <2>1. PICK val \in SUBSET Sources["PGRAPH"] : IrqStep(pgraph_write_INTR_EN(val))
      BY <1>11, Zenon DEF irq_pgraph_INTR_EN
    <2>2. IrqTypeOK'
      BY <1>0, <2>1, PgraphWrites, Zenon DEF IrqStep
    <2> QED BY <2>1, <2>2, IrqStepType, Zenon DEF IrqStep
  <1>12. CASE irq_vblank
    <2>1. "PCRTC" \in Units /\ "VBLANK" \in Sources["PCRTC"]
      BY Zenon DEF Units, Sources
    <2>2. IrqTypeOK'
      BY <1>0, <1>12, <2>1, RaiseType, Zenon DEF irq_vblank, IrqStep, vblank
    <2> QED BY <1>12, <2>2, IrqStepType, Zenon DEF irq_vblank, IrqStep
  <1>13. /\ \A S \in SUBSET Sources["PGRAPH"] : [op |-> "INTR", val |-> S] \in CpuStates
         /\ \A b \in BOOLEAN : [op |-> "CTX_CONTROL", val |-> b] \in CpuStates
         /\ \A c \in Channels : [op |-> "CTX_USER", val |-> c] \in CpuStates
         /\ \A b \in BOOLEAN : [op |-> "FIFO", val |-> b] \in CpuStates
    BY Zenon DEF CpuStates
  <1>14. CASE SwitchDriver
    <2>1. trapped \in Channels /\ {"CONTEXT_SWITCH"} \in SUBSET Sources["PGRAPH"]
      BY <1>0, Zenon DEF DataOK, Sources
    <2> QED BY <1>7, <1>13, <1>14, <2>1, Zenon DEF SwitchDriver
  <1> QED
    BY <1>1, <1>2, <1>3, <1>4, <1>5, <1>6, <1>7, <1>8, <1>9, <1>10, <1>11, <1>12, <1>13,
       <1>14, Zenon DEF Guest

LEMMA CpuVal ==
  ASSUME cpu \in CpuStates
  PROVE  /\ cpu.op = "INTR" => cpu.val \in SUBSET Sources["PGRAPH"]
         /\ cpu.op \in {"CTX_CONTROL", "FIFO"} => cpu.val \in BOOLEAN
         /\ cpu.op = "CTX_USER" => cpu.val \in Channels
BY DEF CpuStates, Idle

LEMMA HandlerType == TypeOK /\ Handler => TypeOK'
  <1> SUFFICES ASSUME TypeOK, Handler PROVE TypeOK'
    BY Zenon
  <1>0. IrqTypeOK /\ ThreadsOK /\ DataOK
    BY TypeParts, Zenon
  <1>a. cpu \in CpuStates /\ Idle \in CpuStates
    BY <1>0, Zenon DEF DataOK, CpuStates
  <1>1. CASE run_pusher_word
    <2>1. IrqTypeOK' /\ ThreadsOK'
      BY <1>0, <1>1, IrqUnchanged, SignalType, Zenon DEF run_pusher_word
    <2>2. /\ chid \in Channels /\ dmaGet[chid] \in Nat /\ dmaPut[chid] \in Nat
          /\ dmaGet[chid] <= dmaPut[chid] /\ dmaPut[chid] <= Len(Stream[chid])
          /\ dmaGet[chid] # dmaPut[chid] /\ dmaGet \in [Channels -> Nat]
      BY <1>0, <1>1, Zenon DEF DataOK, run_pusher_word
    <2>3. dmaGet[chid] + 1 \in 1 .. Len(Stream[chid]) /\ dmaGet[chid] + 1 <= dmaPut[chid]
      BY <2>2, StreamType
    <2>4. Stream[chid][dmaGet[chid] + 1] \in Command
      BY <2>2, <2>3, StreamType
    <2>5. cache' \in Seq(Command) /\ pushed' \in Seq(Command)
      BY <1>0, <1>1, <2>4 DEF DataOK, run_pusher_word
    <2>6. dmaGet' = [dmaGet EXCEPT ![chid] = dmaGet[chid] + 1] /\ dmaPut' = dmaPut
      BY <1>1, Zenon DEF run_pusher_word
    <2>7. dmaGet' \in [Channels -> Nat] /\ \A c \in Channels : dmaGet'[c] <= dmaPut'[c]
      <3>1. \A c \in Channels : dmaGet[c] <= dmaPut[c]
        BY <1>0, Zenon DEF DataOK
      <3>2. \A c \in Channels : dmaGet'[c] = IF c = chid THEN dmaGet[chid] + 1 ELSE dmaGet[c]
        BY <2>2, <2>6, Zenon
      <3>3. dmaGet[chid] + 1 \in Nat
        BY <2>2
      <3> QED BY <2>2, <2>3, <2>6, <3>1, <3>2, <3>3, Zenon
    <2>8. DataOK'
      BY <1>0, <1>1, <2>5, <2>7, Zenon DEF run_pusher_word, DataOK, lockVars, pgVars
    <2> QED BY <2>1, <2>8, TypeParts, Zenon
  <1>2. CASE run_pusher_end
    <2>1. IrqTypeOK' /\ ThreadsOK'
      BY <1>0, <1>2, IrqUnchanged, ThreadsUnchanged, Zenon DEF run_pusher_end
    <2>2. DataOK'
      BY <1>0, <1>a, <1>2, Zenon DEF run_pusher_end, MmioEnd, DataOK, cacheVars, pushVars, pgVars, threadVars
    <2> QED BY <2>1, <2>2, TypeParts, Zenon
  <1>3. CASE pgraph_INTR
    <2>1. IrqTypeOK'
      <3>1. cpu.val \in SUBSET Sources["PGRAPH"] /\ pgraph_write_INTR(cpu.val)
        BY <1>a, <1>3, CpuVal, Zenon DEF pgraph_INTR, PgraphWrite
      <3> QED BY <1>0, <3>1, PgraphWrites, Zenon
    <2>2. ThreadsOK'
      <3>1. {"ctxWait", "notifyWait"} \in SUBSET DOMAIN Waits
        BY Zenon DEF Waits
      <3> QED BY <1>0, <1>3, <3>1, WokenType, Zenon DEF pgraph_INTR, PgraphWrite
    <2>3. DataOK'
      BY <1>0, <1>a, <1>3, Zenon DEF pgraph_INTR, PgraphWrite, MmioEnd, DataOK, cacheVars, pushVars, pgVars
    <2> QED BY <2>1, <2>2, <2>3, TypeParts, Zenon
  <1>4. CASE pgraph_CTX_CONTROL
    <2>1. IrqTypeOK' /\ ThreadsOK'
      BY <1>0, <1>4, IrqUnchanged, ThreadsUnchanged, Zenon DEF pgraph_CTX_CONTROL, PgraphWrite, threadVars
    <2>2. channelValid' \in BOOLEAN
      BY <1>a, <1>4, CpuVal, Zenon DEF pgraph_CTX_CONTROL, PgraphWrite
    <2>3. DataOK'
      BY <1>0, <1>a, <1>4, <2>2, Zenon DEF pgraph_CTX_CONTROL, PgraphWrite, MmioEnd, DataOK, cacheVars, pushVars
    <2> QED BY <2>1, <2>3, TypeParts, Zenon
  <1>5. CASE pgraph_CTX_USER
    <2>1. IrqTypeOK' /\ ThreadsOK'
      BY <1>0, <1>5, IrqUnchanged, ThreadsUnchanged, Zenon DEF pgraph_CTX_USER, PgraphWrite, threadVars
    <2>2. pgChannel' \in Channels
      BY <1>a, <1>5, CpuVal, Zenon DEF pgraph_CTX_USER, PgraphWrite
    <2>3. DataOK'
      BY <1>0, <1>a, <1>5, <2>2, Zenon DEF pgraph_CTX_USER, PgraphWrite, MmioEnd, DataOK, cacheVars, pushVars
    <2> QED BY <2>1, <2>3, TypeParts, Zenon
  <1>6. CASE pgraph_FIFO
    <2>1. IrqTypeOK'
      BY <1>0, <1>6, IrqUnchanged, Zenon DEF pgraph_FIFO
    <2>2. ThreadsOK'
      <3>1. {"accessWait"} \in SUBSET DOMAIN Waits
        BY Zenon DEF Waits
      <3> QED BY <1>0, <1>6, <3>1, WokenType, Zenon DEF pgraph_FIFO, PgraphWrite
    <2>3. fifoAccess' \in BOOLEAN
      BY <1>a, <1>6, CpuVal, Zenon DEF pgraph_FIFO, PgraphWrite
    <2>4. DataOK'
      BY <1>0, <1>a, <1>6, <2>3, Zenon DEF pgraph_FIFO, PgraphWrite, MmioEnd, DataOK, cacheVars, pushVars
    <2> QED BY <2>1, <2>2, <2>4, TypeParts, Zenon
  <1> QED BY <1>1, <1>2, <1>3, <1>4, <1>5, <1>6, Zenon DEF Handler

LEMMA LocalType ==
  ASSUME TypeOK, Local, ThreadsOK', aborted' \in BOOLEAN
  PROVE  TypeOK'
  <1>1. IrqTypeOK'
    BY TypeParts, IrqUnchanged, Zenon DEF Local
  <1>2. DataOK'
    BY TypeParts, Zenon DEF Local, DataOK, lockVars, cacheVars, pushVars, pgVars
  <1> QED BY <1>1, <1>2, TypeParts, Zenon

LEMMA TestLoopType ==
  ASSUME TypeOK, NEW t \in Threads, NEW b, NEW l0 \in PC, NEW w \in PC, NEW l \in PC,
         l0 \in Busy, w \in Busy, l \in Busy, TestLoop(t, l0, b, w, l)
  PROVE  TypeOK'
  <1>1. CASE b
    <2>1. Goto(t, w) /\ pc[t] \in Busy /\ cmd' = cmd
      BY <1>1, Zenon DEF TestLoop, At, Local
    <2> QED BY <2>1, GotoType, LocalType, TypeParts, Zenon DEF TestLoop, DataOK
  <1>2. CASE ~b
    <2>1. Goto(t, l) /\ pc[t] \in Busy /\ cmd' = cmd
      BY <1>2, Zenon DEF TestLoop, At, Local
    <2> QED BY <2>1, GotoType, LocalType, TypeParts, Zenon DEF TestLoop, DataOK
  <1> QED BY <1>1, <1>2, Zenon

\* The puller outside a command.
LEMMA FetchType ==
  ASSUME TypeOK, NEW t \in Threads,
         PullTop(t) \/ LockCache(t) \/ WaitCache(t) \/ CheckPull(t) \/ PopCommand(t)
  PROVE  TypeOK'
  <1>0. IrqTypeOK /\ ThreadsOK /\ DataOK
    BY TypeParts, Zenon
  <1>a. /\ {"top", "fetch", "dead", "testEmpty", "relock", "checkPull", "cacheWait", "dispatch"}
             \subseteq PC
        /\ \A l \in {"top", "fetch", "dead", "testEmpty", "relock", "checkPull", "cacheWait"} :
             l \notin Busy
        /\ "dispatch" \in Busy
    BY Zenon DEF PC, Busy, Waits
  <1>1. CASE PullTop(t)
    <2>1. ThreadsOK'
      BY <1>0, <1>a, <1>1, GotoType, Zenon DEF PullTop, At, Local
    <2> QED BY <1>0, <1>1, <2>1, LocalType, Zenon DEF PullTop, DataOK
  <1>2. CASE LockCache(t)
    <2>1. IrqTypeOK'
      BY <1>0, <1>2, IrqUnchanged, Zenon DEF LockCache
    <2>2. ThreadsOK'
      BY <1>0, <1>a, <1>2, GotoType, Zenon DEF LockCache, At
    <2>3. DataOK'
      BY <1>0, <1>2, Zenon DEF LockCache, DataOK, cacheVars, pushVars, pgVars
    <2> QED BY <2>1, <2>2, <2>3, TypeParts, Zenon
  <1>3. CASE WaitCache(t)
    <2>1. IrqTypeOK'
      BY <1>0, <1>3, IrqUnchanged, Zenon DEF WaitCache
    <2>2. ThreadsOK'
      BY <1>0, <1>a, <1>3, GotoType, Zenon DEF WaitCache, At
    <2>3. DataOK'
      BY <1>0, <1>3, Zenon DEF WaitCache, DataOK, cacheVars, pushVars, pgVars
    <2> QED BY <2>1, <2>2, <2>3, TypeParts, Zenon
  <1>4. CASE CheckPull(t)
    <2>1. IrqTypeOK'
      BY <1>0, <1>4, IrqUnchanged, Zenon DEF CheckPull
    <2>2. ThreadsOK'
      BY <1>0, <1>a, <1>4, GotoType, Zenon DEF CheckPull, At
    <2>3. cacheLock' \in Threads \cup {Free}
      BY <1>0, <1>4, Zenon DEF CheckPull, DataOK
    <2>4. DataOK'
      BY <1>0, <1>4, <2>3, Zenon DEF CheckPull, DataOK, cacheVars, pushVars, pgVars
    <2> QED BY <2>1, <2>2, <2>4, TypeParts, Zenon
  <1>5. CASE PopCommand(t)
    <2>1. IrqTypeOK'
      BY <1>0, <1>5, IrqUnchanged, Zenon DEF PopCommand
    <2>2. Head(cache) \in Command /\ cache' \in Seq(Command)
      BY <1>0, <1>5 DEF PopCommand, DataOK
    <2>3. ThreadsOK'
      BY <1>0, <1>a, <1>5, <2>2, NoCommandIsNone, Zenon DEF PopCommand, Goto, ThreadsOK
    <2>4. DataOK'
      BY <1>0, <1>5, <2>2, Zenon DEF PopCommand, DataOK, pushVars, pgVars
    <2> QED BY <2>1, <2>3, <2>4, TypeParts, Zenon
  <1> QED BY <1>1, <1>2, <1>3, <1>4, <1>5, Zenon

\* Where a command goes: on, to one of three points, or into a failed assert.
LEMMA DispatchOutcome ==
  ASSUME DataOK, NEW t \in Threads, Dispatch(t)
  PROVE  \/ /\ Goto(t, "assertChannel") /\ cmd[t].kind \in {"bind", "object"}
            /\ \E c \in Channels : entry' = [entry EXCEPT ![t] = c]
            /\ UNCHANGED aborted
         \/ Goto(t, "finish") /\ cmd[t].kind = "ignored" /\ UNCHANGED <<entry, aborted>>
         \/ Goto(t, "engine") /\ cmd[t].kind # "bind" /\ UNCHANGED <<entry, aborted>>
         \/ aborted' = TRUE /\ UNCHANGED <<pc, entry>>
  <1>1. CASE cmd[t].kind \in {"bind", "object"}
    <2>1. ramht_lookup(t)
      BY <1>1, Zenon DEF Dispatch
    <2> QED BY <1>1, <2>1, Zenon DEF ramht_lookup, DataOK
  <1>2. CASE cmd[t].kind = "ignored"
    BY <1>2, Zenon DEF Dispatch
  <1>3. CASE cmd[t].kind \notin {"bind", "object", "ignored"}
    BY <1>3, Zenon DEF Dispatch
  <1> QED BY <1>1, <1>2, <1>3, Zenon

\* The puller within a command.
LEMMA CommandType ==
  ASSUME TypeOK, NEW t \in Threads,
         \/ Dispatch(t) \/ AssertChannel(t) \/ ReadEngine(t) \/ CtxCheck(t) \/ CtxRaise(t)
         \/ CtxTest(t) \/ WaitFifoAccess(t) \/ MethodLock(t) \/ MethodExec(t)
         \/ NotifyIrq(t) \/ NotifyLock(t) \/ NotifyTest(t) \/ SemWait(t) \/ SemLock(t)
         \/ Finish(t)
  PROVE  TypeOK'
  <1>0. IrqTypeOK /\ ThreadsOK /\ DataOK
    BY TypeParts, Zenon
  <1> DEFINE L == {"dispatch", "assertChannel", "engine", "ctxCheck", "ctxRaise", "ctxTest",
                   "ctxWait", "access", "accessWait", "method", "exec", "notifyIrq",
                   "notifyLock", "notifyTest", "notifyWait", "semWait", "semLock", "finish"}
  <1>a. L \subseteq Busy /\ Busy \subseteq PC
    BY DEF PC, Busy, Waits
  <1>b. pc[t] \in Busy => cmd[t] \in Command
    BY <1>0, Zenon DEF ThreadsOK
  <1>c. ASSUME NEW l \in L, Goto(t, l), pc[t] \in L, cmd' = cmd PROVE ThreadsOK'
    BY <1>0, <1>a, <1>c, GotoType, Zenon
  <1>d. ASSUME NEW l \in L, NEW b, Assert(t, b, l), pc[t] \in L, cmd' = cmd
        PROVE  ThreadsOK' /\ aborted' \in BOOLEAN
    BY <1>0, <1>a, <1>d, AssertType, Zenon
  <1>1. CASE Dispatch(t)
    <2>1. pc[t] \in L /\ cmd' = cmd
      BY <1>1, Zenon DEF Dispatch, At
    <2>2. IrqTypeOK'
      BY <1>0, <1>1, IrqUnchanged, Zenon DEF Dispatch
    <2>3. ThreadsOK' /\ aborted' \in BOOLEAN
      BY <1>0, <1>c, <1>1, <2>1, DispatchOutcome, Zenon DEF DataOK, ThreadsOK
    <2>4. entry' \in [Threads -> Channels]
      BY <1>0, <1>1, DispatchOutcome, Zenon DEF DataOK
    <2>5. DataOK'
      BY <1>0, <1>1, <2>3, <2>4, Zenon DEF Dispatch, DataOK, lockVars, cacheVars, pushVars, pgVars
    <2> QED BY <2>2, <2>3, <2>5, TypeParts, Zenon
  <1>2. CASE AssertChannel(t)
    <2>1. pc[t] \in L /\ cmd' = cmd /\ Local
      BY <1>2, Zenon DEF AssertChannel, At, Local
    <2>2. ThreadsOK' /\ aborted' \in BOOLEAN
      BY <1>d, <1>2, <2>1, Zenon DEF AssertChannel
    <2> QED BY <2>1, <2>2, LocalType, Zenon
  <1>3. CASE ReadEngine(t)
    <2>1. pc[t] \in L /\ cmd' = cmd /\ Local
      BY <1>3, Zenon DEF ReadEngine, At, Local
    <2>2. ThreadsOK' /\ aborted' \in BOOLEAN
      BY <1>d, <1>3, <2>1, Zenon DEF ReadEngine
    <2> QED BY <2>1, <2>2, LocalType, Zenon
  <1>4. CASE CtxCheck(t)
    <2>1. IrqTypeOK'
      BY <1>0, <1>4, IrqUnchanged, Zenon DEF CtxCheck
    <2>2. ThreadsOK'
      BY <1>c, <1>4, Zenon DEF CtxCheck, At
    <2>3. trapped' \in Channels
      BY <1>0, <1>4, Zenon DEF CtxCheck, DataOK
    <2>4. DataOK'
      BY <1>0, <1>4, <2>3, Zenon DEF CtxCheck, DataOK, lockVars, cacheVars, pushVars
    <2> QED BY <2>1, <2>2, <2>4, TypeParts, Zenon
  <1>5. CASE CtxRaise(t)
    <2>1. "PGRAPH" \in Units /\ "CONTEXT_SWITCH" \in Sources["PGRAPH"]
      BY Zenon DEF Units, Sources
    <2>2. IrqTypeOK'
      BY <1>0, <1>5, <2>1, RaiseType, Zenon DEF CtxRaise
    <2>3. ThreadsOK'
      BY <1>c, <1>5, Zenon DEF CtxRaise, At
    <2>4. DataOK'
      BY <1>0, <1>5, Zenon DEF CtxRaise, DataOK, lockVars, cacheVars, pushVars, pgVars
    <2> QED BY <2>2, <2>3, <2>4, TypeParts, Zenon
  <1>6. CASE CtxTest(t) \/ WaitFifoAccess(t) \/ NotifyTest(t) \/ SemLock(t)
    BY <1>6, <1>a, TestLoopType, ZenonT(30) DEF CtxTest, WaitFifoAccess, NotifyTest, SemLock
  <1>7. CASE MethodLock(t)
    <2>1. IrqTypeOK'
      BY <1>0, <1>7, IrqUnchanged, Zenon DEF MethodLock
    <2>2. ThreadsOK' /\ aborted' \in BOOLEAN
      BY <1>d, <1>7, Zenon DEF MethodLock, At
    <2>3. DataOK'
      BY <1>0, <1>7, <2>2, Zenon DEF MethodLock, DataOK, cacheVars, pushVars, pgVars
    <2> QED BY <2>1, <2>2, <2>3, TypeParts, Zenon
  <1>8. CASE MethodExec(t)
    <2>1. "PGRAPH" \in Units /\ {"NOTIFY"} \in SUBSET Sources["PGRAPH"]
      BY Zenon DEF Units, Sources
    <2>2. [pending EXCEPT !["PGRAPH"] = @ \cup {"NOTIFY"}] \in Masks
      BY <1>0, <2>1, MaskUpdates, Zenon DEF IrqTypeOK
    <2>3. IrqTypeOK'
      BY <1>0, <1>8, <2>2, Zenon DEF MethodExec, IrqTypeOK
    <2>4. ThreadsOK'
      BY <1>c, <1>8, Zenon DEF MethodExec, At
    <2>5. DataOK'
      BY <1>0, <1>8, Zenon DEF MethodExec, DataOK, cacheVars, pushVars
    <2> QED BY <2>3, <2>4, <2>5, TypeParts, Zenon
  <1>9. CASE NotifyIrq(t)
    <2>1. IrqTypeOK'
      BY <1>0, <1>9, UpdateIrqType, Zenon DEF NotifyIrq, IrqTypeOK
    <2>2. ThreadsOK'
      BY <1>c, <1>9, Zenon DEF NotifyIrq, At
    <2>3. DataOK'
      BY <1>0, <1>9, Zenon DEF NotifyIrq, DataOK, cacheVars, pushVars, pgVars
    <2> QED BY <2>1, <2>2, <2>3, TypeParts, Zenon
  <1>10. CASE NotifyLock(t)
    <2>1. IrqTypeOK'
      BY <1>0, <1>10, IrqUnchanged, ZenonT(30) DEF NotifyLock
    <2>2. ThreadsOK'
      BY <1>c, <1>10, ZenonT(30) DEF NotifyLock, At
    <2>3. DataOK'
      BY <1>0, <1>10, Zenon DEF NotifyLock, DataOK, cacheVars, pushVars, pgVars
    <2> QED BY <2>1, <2>2, <2>3, TypeParts, Zenon
  <1>11. CASE SemWait(t)
    <2>1. IrqTypeOK'
      BY <1>0, <1>11, IrqUnchanged, Zenon DEF SemWait
    <2>2. ThreadsOK'
      BY <1>c, <1>11, Zenon DEF SemWait, At
    <2>3. read3d' \in 0..MaxFlips
      BY <1>0, <1>11, FlipsAssumption DEF SemWait, DataOK
    <2>4. DataOK'
      BY <1>0, <1>11, <2>3 DEF SemWait, DataOK, lockVars, cacheVars, pushVars
    <2> QED BY <2>1, <2>2, <2>4, TypeParts, Zenon
  <1>12. CASE Finish(t)
    <2>1. IrqTypeOK'
      BY <1>0, <1>12, IrqUnchanged, Zenon DEF Finish
    <2>2. cmd[t] \in Command
      BY <1>a, <1>b, <1>12, Zenon DEF Finish, At
    <2>3. "top" \in PC /\ "top" \notin Busy
      BY Zenon DEF PC, Busy
    <2>4. ThreadsOK'
      BY <1>0, <1>12, <2>3, Zenon DEF Finish, Goto, ThreadsOK
    <2>5. retired' \in Seq(Command) /\ bound' \subseteq Subchannels
      BY <1>0, <1>12, <2>2 DEF Finish, DataOK, Command
    <2>7. entry' \in [Threads -> Channels]
      BY <1>0, <1>12, ChannelsAssumption, Zenon DEF Finish, DataOK
    <2>6. DataOK'
      BY <1>0, <1>12, <2>5, <2>7, Zenon DEF Finish, DataOK, lockVars, cacheVars, pushVars, pgVars
    <2> QED BY <2>1, <2>4, <2>6, TypeParts, Zenon
  <1> QED BY <1>1, <1>2, <1>3, <1>4, <1>5, <1>6, <1>7, <1>8, <1>9, <1>10, <1>11, <1>12, Zenon

LEMMA SpuriousType == \A t \in Threads : TypeOK /\ SpuriousWake(t) => TypeOK'
  <1> SUFFICES ASSUME NEW t \in Threads, TypeOK, SpuriousWake(t) PROVE TypeOK'
    BY Zenon
  <1>1. ThreadsOK'
    BY TypeParts, WaitPoints, GotoType, ZenonT(30) DEF SpuriousWake, Goto
  <1>2. IrqTypeOK'
    BY TypeParts, IrqUnchanged, ZenonT(30) DEF SpuriousWake
  <1>3. DataOK'
    BY TypeParts, Zenon DEF SpuriousWake, DataOK, lockVars, cacheVars, pushVars, pgVars
  <1> QED BY <1>1, <1>2, <1>3, TypeParts, Zenon

LEMMA TypeStep == TypeOK /\ [Next]_vars => TypeOK'
  <1> SUFFICES ASSUME TypeOK, [Next]_vars PROVE TypeOK'
    BY Zenon
  <1>1. ASSUME NEW t \in Threads, Puller(t) PROVE TypeOK'
    BY <1>1, FetchType, CommandType, Zenon DEF Puller
  <1>2. CASE UNCHANGED vars
    <2>1. IrqTypeOK' /\ ThreadsOK'
      BY <1>2, TypeParts, IrqUnchanged, ThreadsUnchanged, Zenon DEF vars
    <2>2. DataOK'
      BY <1>2, TypeParts, Zenon DEF vars, DataOK, lockVars, cacheVars, pushVars, pgVars, threadVars
    <2> QED BY <2>1, <2>2, TypeParts, Zenon
  <1> QED BY <1>1, <1>2, GuestType, HandlerType, SpuriousType, Zenon DEF Next, Halted

\* Types, for any number of puller threads and any pushbuffers: a thread has a
\* command exactly while it is at work on one, the pusher never runs past PUT, and
\* FLIP_STALL never takes a semaphore that was not posted.
THEOREM TypeCorrect == Spec => []TypeOK
  <1> QED BY InitType, TypeStep, PTL DEF Spec
-----------------------------------------------------------------------------
(* WaitsJustified.                                                         *)

Asleep == {"ctxWait", "notifyWait", "accessWait"}

\* A step after which nobody new sleeps in PGRAPH and that takes away no reason
\* to sleep.
Quiet ==
  /\ \A t \in Threads : pc'[t] \in Asleep => pc'[t] = pc[t]
  /\ pending["PGRAPH"] \subseteq pending'["PGRAPH"]
  /\ fifoAccess' = fifoAccess

LEMMA QuietKeeps == WaitsJustified /\ Quiet => WaitsJustified'
BY DEF WaitsJustified, Quiet, Asleep

LEMMA PcUnchanged ==
  ASSUME UNCHANGED <<pc, pending, fifoAccess>>
  PROVE  Quiet
BY Zenon DEF Quiet

LEMMA GotoQuiet ==
  ASSUME ThreadsOK, NEW t \in Threads, NEW l, l \notin Asleep, Goto(t, l),
         pending["PGRAPH"] \subseteq pending'["PGRAPH"], fifoAccess' = fifoAccess
  PROVE  Quiet
BY Zenon DEF ThreadsOK, Goto, Quiet

LEMMA AssertQuiet ==
  ASSUME ThreadsOK, NEW t \in Threads, NEW b, NEW l, l \notin Asleep, Assert(t, b, l),
         UNCHANGED <<pending, fifoAccess>>
  PROVE  Quiet
  <1>1. CASE b
    BY <1>1, GotoQuiet, Zenon DEF Assert
  <1>2. CASE ~b
    BY <1>2, PcUnchanged, Zenon DEF Assert
  <1> QED BY <1>1, <1>2, Zenon

\* update_irq's callers keep PGRAPH's interrupts, or add one.
LEMMA IrqQuiet ==
  ASSUME IrqTypeOK, UNCHANGED <<pc, fifoAccess>>,
         \/ UNCHANGED pending
         \/ \E u \in {"PFIFO", "PCRTC"} : \E S : pending' = [pending EXCEPT ![u] = S]
  PROVE  Quiet
  <1>1. CASE UNCHANGED pending
    BY <1>1, PcUnchanged, Zenon
  <1>2. CASE \E u \in {"PFIFO", "PCRTC"} : \E S : pending' = [pending EXCEPT ![u] = S]
    <2>1. PICK u \in {"PFIFO", "PCRTC"} : \E S : pending' = [pending EXCEPT ![u] = S]
      BY <1>2, Zenon
    <2>2. pending'["PGRAPH"] = pending["PGRAPH"]
      BY <2>1, Zenon DEF IrqTypeOK, Masks, Units
    <2> QED BY <2>2, Zenon DEF Quiet
  <1> QED BY <1>1, <1>2, Zenon

LEMMA GuestQuiet == TypeOK /\ Guest => Quiet
  <1> SUFFICES ASSUME TypeOK, Guest PROVE Quiet
    BY Zenon
  <1>0. IrqTypeOK /\ ThreadsOK
    BY TypeParts, Zenon
  <1>1. ASSUME NEW b, pfifo_write_PUSH0(b) PROVE Quiet
    BY <1>1, PcUnchanged, Zenon DEF pfifo_write_PUSH0, irqVars, pgVars, threadVars
  <1>2. ASSUME NEW c, pfifo_write_PUSH1(c) PROVE Quiet
    BY <1>2, PcUnchanged, Zenon DEF pfifo_write_PUSH1, irqVars, pgVars, threadVars
  <1>3. CASE pfifo_write_PULL0_enable
    <2>1. PICK t \in Threads : Goto(t, "top")
      BY <1>3, Zenon DEF pfifo_write_PULL0_enable, Goto
    <2>2. UNCHANGED <<pending, fifoAccess>>
      BY <1>3, Zenon DEF pfifo_write_PULL0_enable, irqVars, pgVars
    <2> QED BY <1>0, <2>1, <2>2, GotoQuiet, Zenon DEF Asleep
  <1>4. CASE pfifo_write_PULL0_disable
    <2>1. \A t \in Threads : pc'[t] \in Asleep => pc'[t] = pc[t]
      BY <1>4 DEF pfifo_write_PULL0_disable, Woken, Waits, Asleep
    <2> QED BY <1>4, <2>1, Zenon DEF pfifo_write_PULL0_disable, Quiet, irqVars, pgVars
  <1>5. ASSUME NEW S, pfifo_write_ENGINE(S) PROVE Quiet
    BY <1>5, PcUnchanged, Zenon DEF pfifo_write_ENGINE, irqVars, pgVars, threadVars
  <1>6. ASSUME NEW c, NEW n, user_write_DMA_PUT(c, n) PROVE Quiet
    BY <1>6, PcUnchanged, Zenon DEF user_write_DMA_PUT, irqVars, pgVars, threadVars
  <1>7. ASSUME NEW w, MmioBegin(w) PROVE Quiet
    BY <1>7, PcUnchanged, Zenon DEF MmioBegin, irqVars, pgVars, threadVars
  <1>8. CASE pgraph_INCREMENT
    BY <1>8, PcUnchanged, Zenon DEF pgraph_INCREMENT, irqVars, threadVars
  <1>9. CASE irq_pmc_INTR_0 \/ irq_pmc_INTR_EN_0 \/ irq_pgraph_INTR_EN
    BY <1>9, PcUnchanged, Zenon
       DEF irq_pmc_INTR_0, irq_pmc_INTR_EN_0, irq_pgraph_INTR_EN, IrqStep, pmc_write_INTR_0,
           pmc_write_INTR_EN_0, pgraph_write_INTR_EN, pgVars, threadVars
  <1>10. CASE irq_unit_INTR_0 \/ irq_unit_INTR_EN_0 \/ irq_vblank
    <2>1. UNCHANGED <<pc, fifoAccess>>
      BY <1>10, Zenon DEF irq_unit_INTR_0, irq_unit_INTR_EN_0, irq_vblank, IrqStep, pgVars, threadVars
    <2>2. \/ UNCHANGED pending
          \/ \E u \in {"PFIFO", "PCRTC"} : \E S : pending' = [pending EXCEPT ![u] = S]
      BY <1>10, Zenon DEF irq_unit_INTR_0, irq_unit_INTR_EN_0, irq_vblank, IrqStep,
                   unit_write_INTR_0, unit_write_INTR_EN_0, vblank
    <2> QED BY <1>0, <2>1, <2>2, IrqQuiet, Zenon
  <1> QED
    BY <1>1, <1>2, <1>3, <1>4, <1>5, <1>6, <1>7, <1>8, <1>9, <1>10, Zenon
       DEF Guest, SwitchDriver

\* The two broadcasts wake everybody who slept for what the write takes away.
LEMMA HandlerJustified == TypeOK /\ WaitsJustified /\ Handler => WaitsJustified'
  <1> SUFFICES ASSUME TypeOK, WaitsJustified, Handler PROVE WaitsJustified'
    BY Zenon
  <1>0. IrqTypeOK /\ ThreadsOK
    BY TypeParts, Zenon
  <1>1. CASE run_pusher_word
    <2>1. UNCHANGED <<pending, fifoAccess>> /\ signal_cache_cond
      BY <1>1, Zenon DEF run_pusher_word, irqVars, pgVars
    <2>2. Quiet
      <3>1. CASE UNCHANGED pc
        BY <2>1, <3>1, PcUnchanged, Zenon
      <3>2. CASE \E t \in Threads : Goto(t, "relock")
        BY <1>0, <2>1, <3>2, GotoQuiet, Zenon DEF Asleep
      <3> QED BY <2>1, <3>1, <3>2, Zenon DEF signal_cache_cond, Goto
    <2> QED BY <2>2, QuietKeeps, Zenon
  <1>2. CASE run_pusher_end
    BY <1>2, PcUnchanged, QuietKeeps, Zenon DEF run_pusher_end, irqVars, pgVars, threadVars
  <1>3. CASE pgraph_INTR
    <2>1. \A t \in Threads : pc'[t] \in Asleep => pc'[t] = "accessWait" /\ pc[t] = "accessWait"
      BY <1>3 DEF pgraph_INTR, Woken, Waits, Asleep
    <2>2. fifoAccess' = fifoAccess
      BY <1>3, Zenon DEF pgraph_INTR, pgVars
    <2> QED BY <2>1, <2>2, Zenon DEF WaitsJustified, Asleep
  <1>4. CASE pgraph_CTX_CONTROL \/ pgraph_CTX_USER
    BY <1>4, PcUnchanged, QuietKeeps, Zenon DEF pgraph_CTX_CONTROL, pgraph_CTX_USER, irqVars
  <1>5. CASE pgraph_FIFO
    <2>1. \A t \in Threads : pc'[t] \in Asleep => pc'[t] = pc[t] /\ pc'[t] # "accessWait"
      BY <1>5 DEF pgraph_FIFO, Woken, Waits, Asleep
    <2>2. pending' = pending
      BY <1>5, Zenon DEF pgraph_FIFO, irqVars
    <2> QED BY <2>1, <2>2, Zenon DEF WaitsJustified, Asleep
  <1> QED BY <1>1, <1>2, <1>3, <1>4, <1>5, Zenon DEF Handler

\* The steps that go to sleep test the condition under the lock that guards it.
LEMMA TestJustified ==
  ASSUME TypeOK, WaitsJustified, NEW t \in Threads,
         CtxTest(t) \/ WaitFifoAccess(t) \/ NotifyLock(t) \/ NotifyTest(t) \/ SemLock(t)
  PROVE  WaitsJustified'
  <1>0. pc \in [Threads -> PC]
    BY TypeParts, Zenon DEF ThreadsOK
  <1>1. UNCHANGED <<pending, fifoAccess>>
    BY Zenon DEF CtxTest, WaitFifoAccess, NotifyLock, NotifyTest, SemLock, TestLoop, Local, irqVars, pgVars
  <1>2. \A u \in Threads : u # t => pc'[u] = pc[u]
    BY <1>0, Zenon DEF CtxTest, WaitFifoAccess, NotifyLock, NotifyTest, SemLock, TestLoop, Goto
  <1>3. /\ pc'[t] = "ctxWait" => "CONTEXT_SWITCH" \in pending["PGRAPH"]
        /\ pc'[t] = "notifyWait" => "NOTIFY" \in pending["PGRAPH"]
        /\ pc'[t] = "accessWait" => ~fifoAccess
    BY <1>0, Zenon DEF CtxTest, WaitFifoAccess, NotifyLock, NotifyTest, SemLock, TestLoop, Goto
  <1> QED BY <1>1, <1>2, <1>3, Zenon DEF WaitsJustified

LEMMA PullerJustified ==
  ASSUME TypeOK, WaitsJustified, NEW t \in Threads, Puller(t)
  PROVE  WaitsJustified'
  <1>0. IrqTypeOK /\ ThreadsOK
    BY TypeParts, Zenon
  <1>1. CASE PullTop(t)
    BY <1>0, <1>1, GotoQuiet, QuietKeeps, Zenon DEF PullTop, Local, irqVars, pgVars, Asleep
  <1>2. CASE LockCache(t)
    BY <1>0, <1>2, GotoQuiet, QuietKeeps, Zenon DEF LockCache, irqVars, pgVars, Asleep
  <1>3. CASE WaitCache(t)
    BY <1>0, <1>3, GotoQuiet, QuietKeeps, Zenon DEF WaitCache, irqVars, pgVars, Asleep
  <1>4. CASE CheckPull(t)
    BY <1>0, <1>4, GotoQuiet, QuietKeeps, Zenon DEF CheckPull, irqVars, pgVars, Asleep
  <1>5. CASE PopCommand(t)
    BY <1>0, <1>5, GotoQuiet, QuietKeeps, Zenon DEF PopCommand, irqVars, pgVars, Asleep
  <1>6. CASE Dispatch(t)
    <2>1. \/ UNCHANGED pc
          \/ Goto(t, "assertChannel")
          \/ Goto(t, "finish")
          \/ Goto(t, "engine")
      BY <1>6, TypeParts, DispatchOutcome, Zenon
    <2>2. UNCHANGED <<pending, fifoAccess>>
      BY <1>6, Zenon DEF Dispatch, irqVars, pgVars
    <2>3. Quiet
      BY <1>0, <2>1, <2>2, PcUnchanged, GotoQuiet, Zenon DEF Asleep
    <2> QED BY <2>3, QuietKeeps, Zenon
  <1>7. CASE AssertChannel(t) \/ ReadEngine(t)
    BY <1>0, <1>7, AssertQuiet, QuietKeeps DEF AssertChannel, ReadEngine, Local, irqVars, pgVars, Asleep
  <1>8. CASE CtxCheck(t)
    BY <1>0, <1>8, GotoQuiet, QuietKeeps, Zenon DEF CtxCheck, irqVars, Asleep
  <1>9. CASE CtxRaise(t)
    <2>1. pending["PGRAPH"] \subseteq pending'["PGRAPH"]
      BY <1>0, <1>9, Zenon DEF CtxRaise, IrqTypeOK, Masks, Units
    <2> QED BY <1>0, <1>9, <2>1, GotoQuiet, QuietKeeps, Zenon DEF CtxRaise, pgVars, Asleep
  <1>10. CASE MethodLock(t)
    BY <1>0, <1>10, AssertQuiet, QuietKeeps, Zenon DEF MethodLock, irqVars, pgVars, Asleep
  <1>11. CASE MethodExec(t)
    <2>1. pending["PGRAPH"] \subseteq pending'["PGRAPH"]
      BY <1>0, <1>11 DEF MethodExec, IrqTypeOK, Masks, Units
    <2> QED BY <1>0, <1>11, <2>1, GotoQuiet, QuietKeeps, Zenon DEF MethodExec, Asleep
  <1>12. CASE NotifyIrq(t)
    BY <1>0, <1>12, GotoQuiet, QuietKeeps, Zenon DEF NotifyIrq, pgVars, Asleep
  <1>13. CASE SemWait(t)
    BY <1>0, <1>13, GotoQuiet, QuietKeeps, Zenon DEF SemWait, irqVars, Asleep
  <1>14. CASE Finish(t)
    BY <1>0, <1>14, GotoQuiet, QuietKeeps, Zenon DEF Finish, irqVars, pgVars, Asleep
  <1> QED
    BY <1>1, <1>2, <1>3, <1>4, <1>5, <1>6, <1>7, <1>8, <1>9, <1>10, <1>11, <1>12, <1>13,
       <1>14, TestJustified DEF Puller

LEMMA SpuriousQuiet ==
  ASSUME TypeOK, NEW t \in Threads, SpuriousWake(t)
  PROVE  Quiet
  <1>1. Waits[pc[t]] \notin Asleep
    BY DEF SpuriousWake, Waits, Asleep
  <1> QED BY <1>1, TypeParts, GotoQuiet, Zenon DEF SpuriousWake, Goto, irqVars, pgVars

LEMMA JustifiedStep == TypeOK /\ WaitsJustified /\ [Next]_vars => WaitsJustified'
  <1> SUFFICES ASSUME TypeOK, WaitsJustified, [Next]_vars PROVE WaitsJustified'
    BY Zenon
  <1>1. CASE UNCHANGED vars
    BY <1>1, PcUnchanged, QuietKeeps, Zenon DEF vars, irqVars, pgVars, threadVars
  <1> QED
    BY <1>1, GuestQuiet, HandlerJustified, PullerJustified, SpuriousQuiet, QuietKeeps, Zenon
       DEF Next, Halted

\* No lost wakeup in PGRAPH, for any number of puller threads and whatever the
\* guest writes: the broadcasts of pgraph_write and the loops around
\* qemu_cond_wait leave no thread asleep for something that has happened.
THEOREM NoLostWakeup == Spec => []WaitsJustified
  <1>1. Init => WaitsJustified
    BY Zenon DEF Init, WaitsJustified
  <1> QED BY <1>1, TypeCorrect, JustifiedStep, PTL DEF Spec
-----------------------------------------------------------------------------
(* CacheIsServed.                                                          *)

Started == PC \ {"new", "dead"}
Awake == Started \ {"cacheWait"}

\* While pulling is enabled some thread has not died: a puller thread leaves its
\* loop only when it finds pulling disabled.
ServedInv ==
  /\ CacheIsServed
  /\ pullEnabled => \E t \in Threads : pc[t] \in Started

LEMMA AwakeServes ==
  ASSUME NEW t \in Threads, pc'[t] \in Awake
  PROVE  ServedInv'
BY Zenon DEF ServedInv, CacheIsServed, Awake, Started

LEMMA GotoServes ==
  ASSUME ThreadsOK, NEW t \in Threads, NEW l \in Awake, Goto(t, l)
  PROVE  ServedInv'
  <1>1. pc'[t] \in Awake
    BY Zenon DEF ThreadsOK, Goto
  <1> QED BY <1>1, AwakeServes, Zenon

LEMMA StillServed ==
  ASSUME ServedInv, UNCHANGED <<pc, pullEnabled, cache>>
  PROVE  ServedInv'
BY Zenon DEF ServedInv, CacheIsServed

LEMMA DisabledServes == pullEnabled' = FALSE => ServedInv'
BY Zenon DEF ServedInv, CacheIsServed

LEMMA AssertServes ==
  ASSUME ThreadsOK, ServedInv, NEW t \in Threads, NEW b, NEW l \in Awake,
         Assert(t, b, l), UNCHANGED <<pullEnabled, cache>>
  PROVE  ServedInv'
  <1>1. CASE b
    BY <1>1, GotoServes, Zenon DEF Assert
  <1>2. CASE ~b
    BY <1>2, StillServed, Zenon DEF Assert
  <1> QED BY <1>1, <1>2, Zenon

LEMMA WokenServes ==
  ASSUME ThreadsOK, ServedInv, NEW C \in SUBSET DOMAIN Waits, pc' = Woken(C),
         UNCHANGED <<pullEnabled, cache>>
  PROVE  ServedInv'
  <1>1. \A l \in DOMAIN Waits : Waits[l] \in Awake
    BY DEF Waits, PC, Awake, Started
  <1>2. \A t \in Threads : /\ pc[t] \in Awake => pc'[t] \in Awake
                           /\ pc[t] \in Started => pc'[t] \in Started
    BY <1>1, Zenon DEF Woken, Awake, Started
  <1> QED BY <1>2, Zenon DEF ServedInv, CacheIsServed, Awake, Started

\* The pusher signals while it still holds cache_lock: with no thread asleep, the
\* one that has not died is awake.
LEMMA PushServes ==
  ASSUME ThreadsOK, ServedInv, signal_cache_cond, UNCHANGED pullEnabled
  PROVE  ServedInv'
  <1>1. CASE \E t \in Threads : pc[t] = "cacheWait" /\ pc' = [pc EXCEPT ![t] = "relock"]
    <2>1. PICK t \in Threads : pc' = [pc EXCEPT ![t] = "relock"]
      BY <1>1, Zenon
    <2>2. "relock" \in Awake
      BY Zenon DEF Awake, Started, PC
    <2> QED BY <2>1, <2>2, GotoServes, Zenon DEF Goto
  <1>2. CASE (\A t \in Threads : pc[t] # "cacheWait") /\ UNCHANGED pc
    <2>1. \A t \in Threads : pc[t] \in Started => pc'[t] \in Awake
      BY <1>2, Zenon DEF Awake
    <2> QED BY <2>1, Zenon DEF ServedInv, CacheIsServed, Awake, Started
  <1> QED BY <1>1, <1>2, Zenon DEF signal_cache_cond

LEMMA GuestServes == TypeOK /\ ServedInv /\ Guest => ServedInv'
  <1> SUFFICES ASSUME TypeOK, ServedInv, Guest PROVE ServedInv'
    BY Zenon
  <1>1. CASE pfifo_write_PULL0_enable
    <2>1. "top" \in Awake
      BY Zenon DEF Awake, Started, PC
    <2> QED BY <1>1, <2>1, TypeParts, GotoServes, ZenonT(30) DEF pfifo_write_PULL0_enable, Goto
  <1>2. CASE pfifo_write_PULL0_disable
    BY <1>2, DisabledServes, Zenon DEF pfifo_write_PULL0_disable
  <1>3. \/ pfifo_write_PULL0_enable \/ pfifo_write_PULL0_disable
        \/ UNCHANGED <<pc, pullEnabled, cache>>
    BY Zenon DEF Guest, IrqStep, irq_pmc_INTR_0, irq_pmc_INTR_EN_0, irq_unit_INTR_0,
           irq_unit_INTR_EN_0, irq_pgraph_INTR_EN, irq_vblank, pfifo_write_PUSH0,
           pfifo_write_PUSH1, pfifo_write_ENGINE, user_write_DMA_PUT, MmioBegin,
           SwitchDriver, pgraph_INCREMENT, threadVars, cacheVars
  <1> QED BY <1>1, <1>2, <1>3, StillServed, Zenon

LEMMA HandlerServes == TypeOK /\ ServedInv /\ Handler => ServedInv'
  <1> SUFFICES ASSUME TypeOK, ServedInv, Handler PROVE ServedInv'
    BY Zenon
  <1>1. CASE run_pusher_word
    BY <1>1, TypeParts, PushServes, Zenon DEF run_pusher_word
  <1>2. CASE pgraph_INTR
    <2>1. {"ctxWait", "notifyWait"} \in SUBSET DOMAIN Waits
      BY Zenon DEF Waits
    <2> QED BY <1>2, <2>1, TypeParts, WokenServes, Zenon DEF pgraph_INTR, PgraphWrite, cacheVars
  <1>3. CASE pgraph_FIFO
    <2>1. {"accessWait"} \in SUBSET DOMAIN Waits
      BY Zenon DEF Waits
    <2> QED BY <1>3, <2>1, TypeParts, WokenServes, Zenon DEF pgraph_FIFO, PgraphWrite, cacheVars
  <1>4. CASE run_pusher_end \/ pgraph_CTX_CONTROL \/ pgraph_CTX_USER
    BY <1>4, StillServed, Zenon DEF run_pusher_end, pgraph_CTX_CONTROL, pgraph_CTX_USER,
       PgraphWrite, cacheVars, threadVars
  <1> QED BY <1>1, <1>2, <1>3, <1>4, Zenon DEF Handler

LEMMA PullerServes ==
  ASSUME TypeOK, ServedInv, NEW t \in Threads, Puller(t)
  PROVE  ServedInv'
  <1> USE TypeParts
  <1>1. CASE PullTop(t)
    <2>1. CASE pullEnabled
      BY <1>1, <2>1, GotoServes, Zenon DEF PullTop, Awake, Started, PC
    <2>2. CASE ~pullEnabled
      BY <1>1, <2>2, DisabledServes, Zenon DEF PullTop, Local, DataOK
    <2> QED BY <2>1, <2>2, Zenon
  <1>2. CASE WaitCache(t)
    <2>1. pc'[t] \in Started
      BY <1>2, Zenon DEF WaitCache, Goto, ThreadsOK, Started, PC, Waits
    <2>2. cache' = <<>>
      BY <1>2, Zenon DEF WaitCache, cacheVars
    <2> QED BY <2>1, <2>2, Zenon DEF ServedInv, CacheIsServed
  <1>3. CASE CheckPull(t)
    <2>1. CASE pullEnabled
      BY <1>3, <2>1, GotoServes, Zenon DEF CheckPull, Awake, Started, PC
    <2>2. CASE ~pullEnabled
      BY <1>3, <2>2, DisabledServes, Zenon DEF CheckPull, DataOK
    <2> QED BY <2>1, <2>2, Zenon
  <1>6. CASE Dispatch(t)
    <2>1. {"assertChannel", "finish", "engine"} \subseteq Awake
      BY Zenon DEF Awake, Started, PC
    <2>2. UNCHANGED <<pullEnabled, cache>>
      BY <1>6, Zenon DEF Dispatch, cacheVars
    <2>3. UNCHANGED pc \/ \E l \in Awake : Goto(t, l)
      BY <1>6, <2>1, DispatchOutcome, Zenon
    <2> QED BY <2>2, <2>3, GotoServes, StillServed, Zenon
  <1>4. CASE AssertChannel(t) \/ ReadEngine(t) \/ MethodLock(t)
    <2>1. {"engine", "ctxCheck", "access", "exec"} \subseteq Awake
      BY Zenon DEF Awake, Started, PC
    <2>2. UNCHANGED <<pullEnabled, cache>>
      BY <1>4, Zenon DEF AssertChannel, ReadEngine, MethodLock, Local, cacheVars
    <2>3. \/ \E l \in Awake : Goto(t, l)
          \/ \E b : \E l \in Awake : Assert(t, b, l)
      BY <1>4, <2>1, Zenon DEF AssertChannel, ReadEngine, MethodLock
    <2> QED BY <2>2, <2>3, GotoServes, AssertServes, Zenon
  <1>5. CASE LockCache(t) \/ PopCommand(t) \/ CtxCheck(t) \/ CtxRaise(t) \/ CtxTest(t)
             \/ WaitFifoAccess(t) \/ MethodExec(t) \/ NotifyIrq(t) \/ NotifyLock(t)
             \/ NotifyTest(t) \/ SemWait(t) \/ SemLock(t) \/ Finish(t)
    <2>1. {"testEmpty", "checkPull", "dispatch", "access", "ctxRaise", "ctxTest", "ctxWait",
           "accessWait", "method", "notifyIrq", "semWait", "finish", "notifyLock",
           "notifyWait", "semLock", "top"} \subseteq Awake
      BY SMTT(30) DEF Awake, Started, PC, Waits
    <2>2. \E l \in Awake : Goto(t, l)
      BY <1>5, <2>1, Zenon DEF LockCache, PopCommand, CtxCheck, CtxRaise, CtxTest, WaitFifoAccess,
         MethodExec, NotifyIrq, NotifyLock, NotifyTest, SemWait, SemLock, Finish, TestLoop
    <2> QED BY <2>2, GotoServes, Zenon
  <1> QED BY <1>1, <1>2, <1>3, <1>4, <1>5, <1>6, Zenon DEF Puller

LEMMA ServedStep == TypeOK /\ ServedInv /\ [Next]_vars => ServedInv'
  <1> SUFFICES ASSUME TypeOK, ServedInv, [Next]_vars PROVE ServedInv'
    BY Zenon
  <1>1. ASSUME NEW t \in Threads, SpuriousWake(t) PROVE ServedInv'
    <2>1. Waits[pc[t]] \in Awake
      BY <1>1 DEF SpuriousWake, Waits, Awake, Started, PC
    <2> QED BY <1>1, <2>1, TypeParts, GotoServes, Zenon DEF SpuriousWake, Goto
  <1>2. CASE UNCHANGED vars
    BY <1>2, StillServed, Zenon DEF vars, threadVars, cacheVars
  <1> QED BY <1>1, <1>2, GuestServes, HandlerServes, PullerServes, Zenon DEF Next, Halted

\* A command in CACHE1 is never left to sleeping threads while pulling is enabled:
\* pfifo_run_pusher signals cache_cond under cache_lock, a puller goes to sleep
\* only with the cache empty, and it leaves its loop only when pulling is disabled.
THEOREM QueuedCommandsServed == Spec => []CacheIsServed
  <1>1. Init => ServedInv
    BY Zenon DEF Init, ServedInv, CacheIsServed
  <1>2. ServedInv => CacheIsServed
    BY Zenon DEF ServedInv
  <1> QED BY <1>1, <1>2, TypeCorrect, ServedStep, PTL DEF Spec
-----------------------------------------------------------------------------
(* SwitchLoadsChannel.                                                     *)

Loaded == {"access", "accessWait", "method", "exec", "finish"}
Asked == {"ctxTest", "ctxWait"}
Switching == Asked \cup {"ctxRaise"}
Other == {"engine", "notifyIrq", "notifyLock", "notifyTest", "notifyWait", "semWait", "semLock"}

IsAsked == "CONTEXT_SWITCH" \in pending["PGRAPH"]
IsLoaded == channelValid /\ pgChannel = trapped

\* The driver loads contexts in SwitchDriver only.
OnlySwitches == GuestOps \cap {"CTX_CONTROL", "CTX_USER", "INTR"} = {}

\* The CPU thread is in one of SwitchDriver's writes: the interrupt it serves is
\* still there, and it writes what TRAPPED_ADDR names.
DriverInv ==
  cpu.op \in {"CTX_USER", "CTX_CONTROL", "INTR"} =>
    /\ IsAsked
    /\ cpu.op = "CTX_USER" => cpu.val = trapped
    /\ cpu.op = "CTX_CONTROL" => cpu.val = TRUE
    /\ cpu.op = "INTR" => IsLoaded

\* What the only puller thread t knows.
ThreadInv(t) ==
  /\ pc[t] \in Loaded /\ cmd[t].kind = "bind" => channelValid /\ pgChannel = entry[t]
  /\ pc[t] \in Switching => trapped = entry[t]
  /\ pc[t] \in Asked /\ ~IsAsked => IsLoaded
  /\ pc[t] \in Other => cmd[t].kind # "bind"
  /\ IsAsked => pc[t] \in Asked
  /\ DriverInv

SwitchInv == \A t \in Threads : ThreadInv(t)

Contexts == <<cmd, entry, trapped, channelValid, pgChannel>>

\* Two points between which t learns and forgets nothing.
SamePlace(l, m) ==
  /\ l \in Loaded <=> m \in Loaded
  /\ l \in Switching <=> m \in Switching
  /\ l \in Asked <=> m \in Asked
  /\ l \in Other <=> m \in Other

\* A step that is no business of the context switch.
LEMMA SwitchKept ==
  ASSUME NEW t \in Threads, ThreadInv(t), SamePlace(pc[t], pc'[t]), UNCHANGED Contexts,
         IsAsked' <=> IsAsked, cpu' = cpu \/ cpu'.op \in {"idle", "push", "FIFO"}
  PROVE  ThreadInv(t)'
  <1>1. IsLoaded' <=> IsLoaded
    BY Zenon DEF IsLoaded, Contexts
  <1>2. DriverInv'
    <2>1. CASE cpu' = cpu
      BY <1>1, <2>1, Zenon DEF ThreadInv, DriverInv, Contexts
    <2>2. CASE cpu'.op \in {"idle", "push", "FIFO"}
      BY <2>2, Zenon DEF DriverInv
    <2> QED BY <2>1, <2>2, Zenon
  <1> QED BY <1>1, <1>2, Zenon DEF ThreadInv, SamePlace, Contexts

LEMMA WakesInPlace ==
  ASSUME NEW l \in DOMAIN Waits
  PROVE  SamePlace(l, Waits[l])
BY DEF Waits, SamePlace, Loaded, Switching, Asked, Other

LEMMA WokenInPlace ==
  ASSUME NEW C \in SUBSET DOMAIN Waits, pc' = Woken(C), NEW t \in Threads
  PROVE  SamePlace(pc[t], pc'[t])
  <1>1. CASE pc[t] \in C
    BY <1>1, WakesInPlace, Zenon DEF Woken
  <1>2. CASE pc[t] \notin C
    BY <1>2, Zenon DEF Woken, SamePlace
  <1> QED BY <1>1, <1>2, Zenon

LEMMA GuestSwitch ==
  ASSUME OnlySwitches, TypeOK, NEW t \in Threads, ThreadInv(t), Guest
  PROVE  ThreadInv(t)'
  <1>0. pc \in [Threads -> PC] /\ IrqTypeOK
    BY TypeParts, Zenon DEF ThreadsOK
  <1>a. SamePlace(pc[t], pc[t])
    BY Zenon DEF SamePlace
  <1>1. CASE pfifo_write_PULL0_enable
    <2>1. SamePlace(pc[t], pc'[t])
      BY <1>0, <1>1, Zenon
         DEF pfifo_write_PULL0_enable, SamePlace, Loaded, Switching, Asked, Other
    <2>2. UNCHANGED <<Contexts, pending, cpu>>
      BY <1>1, Zenon DEF pfifo_write_PULL0_enable, Contexts, pgVars, irqVars
    <2> QED BY <2>1, <2>2, SwitchKept, Zenon DEF IsAsked
  <1>2. CASE pfifo_write_PULL0_disable
    <2>1. {"cacheWait"} \in SUBSET DOMAIN Waits
      BY Zenon DEF Waits
    <2>2. SamePlace(pc[t], pc'[t])
      BY <1>2, <2>1, WokenInPlace, Zenon DEF pfifo_write_PULL0_disable
    <2>3. UNCHANGED <<Contexts, pending, cpu>>
      BY <1>2, Zenon DEF pfifo_write_PULL0_disable, Contexts, pgVars, irqVars
    <2> QED BY <2>2, <2>3, SwitchKept, Zenon DEF IsAsked
  <1>3. ASSUME UNCHANGED <<pc, Contexts, pending>>, cpu' = cpu \/ cpu'.op \in {"idle", "push", "FIFO"}
        PROVE  ThreadInv(t)'
    BY <1>a, <1>3, SwitchKept, Zenon DEF IsAsked
  <1>4. CASE \/ \E b \in BOOLEAN : pfifo_write_PUSH0(b)
             \/ \E c \in Channels : pfifo_write_PUSH1(c)
             \/ \E S \in SUBSET Subchannels : pfifo_write_ENGINE(S)
             \/ pgraph_INCREMENT
    BY <1>3, <1>4, Zenon DEF pfifo_write_PUSH0, pfifo_write_PUSH1, pfifo_write_ENGINE,
       pgraph_INCREMENT, Contexts, pgVars, irqVars, threadVars
  <1>5. ASSUME NEW c, NEW n, user_write_DMA_PUT(c, n) PROVE ThreadInv(t)'
    <2>1. UNCHANGED <<pc, Contexts, pending>>
      BY <1>5, Zenon DEF user_write_DMA_PUT, Contexts, pgVars, irqVars, threadVars
    <2>2. cpu' = cpu \/ cpu'.op = "push"
      BY <1>5, SMT DEF user_write_DMA_PUT
    <2> QED BY <1>3, <2>1, <2>2, Zenon
  <1>6. ASSUME NEW b, MmioBegin([op |-> "FIFO", val |-> b]) PROVE ThreadInv(t)'
    BY <1>3, <1>6, Zenon DEF MmioBegin, Contexts, pgVars, irqVars, threadVars
  <1>7. CASE irq_pmc_INTR_0 \/ irq_pmc_INTR_EN_0 \/ irq_pgraph_INTR_EN
    <2>1. UNCHANGED <<pc, Contexts, cpu>>
      BY <1>7, Zenon DEF irq_pmc_INTR_0, irq_pmc_INTR_EN_0, irq_pgraph_INTR_EN, IrqStep, Contexts,
                  pgVars, threadVars
    <2>2. UNCHANGED pending
      BY <1>7, Zenon DEF irq_pmc_INTR_0, irq_pmc_INTR_EN_0, irq_pgraph_INTR_EN, IrqStep,
                   pmc_write_INTR_0, pmc_write_INTR_EN_0, pgraph_write_INTR_EN
    <2> QED BY <1>3, <2>1, <2>2, Zenon
  <1>8. CASE irq_unit_INTR_0 \/ irq_unit_INTR_EN_0 \/ irq_vblank
    <2>1. UNCHANGED <<pc, Contexts, cpu>>
      BY <1>8, Zenon DEF irq_unit_INTR_0, irq_unit_INTR_EN_0, irq_vblank, IrqStep, Contexts,
                  pgVars, threadVars
    <2>2. \/ UNCHANGED pending
          \/ \E u \in {"PFIFO", "PCRTC"} : \E S : pending' = [pending EXCEPT ![u] = S]
      BY <1>8, Zenon DEF irq_unit_INTR_0, irq_unit_INTR_EN_0, irq_vblank, IrqStep,
                   unit_write_INTR_0, unit_write_INTR_EN_0, vblank
    <2>3. pending'["PGRAPH"] = pending["PGRAPH"]
      BY <1>0, <2>2, Zenon DEF IrqTypeOK, Masks, Units
    <2> QED BY <1>a, <2>1, <2>3, SwitchKept, Zenon DEF IsAsked
  <1>9. CASE SwitchDriver
    <2>1. UNCHANGED <<pc, Contexts, pending>>
      BY <1>9, Zenon DEF SwitchDriver, MmioBegin, Contexts, pgVars, irqVars, threadVars
    <2>2. DriverInv'
      <3>1. \/ cpu' = [op |-> "CTX_USER", val |-> trapped]
            \/ cpu' = [op |-> "CTX_CONTROL", val |-> TRUE]
            \/ IsLoaded /\ cpu' = [op |-> "INTR", val |-> {"CONTEXT_SWITCH"}]
        BY <1>9, Zenon DEF SwitchDriver, MmioBegin, IsLoaded
      <3>2. IsAsked' /\ trapped' = trapped /\ (IsLoaded' <=> IsLoaded)
        BY <1>9, <2>1, Zenon DEF SwitchDriver, IsAsked, IsLoaded, Contexts
      <3> QED BY <3>1, <3>2, SMT DEF DriverInv
    <2> QED BY <2>1, <2>2, Zenon DEF ThreadInv, IsAsked, IsLoaded, Contexts
  <1> QED
    BY <1>1, <1>2, <1>4, <1>5, <1>6, <1>7, <1>8, <1>9, Zenon DEF Guest, OnlySwitches

\* The driver's own writes come while t waits; clearing the interrupt lets it go.
LEMMA HandlerSwitch ==
  ASSUME OnlySwitches, TypeOK, NEW t \in Threads, ThreadInv(t), Handler
  PROVE  ThreadInv(t)'
  <1>0. pc \in [Threads -> PC] /\ IrqTypeOK /\ cpu \in CpuStates
    BY TypeParts, Zenon DEF ThreadsOK, DataOK
  <1>a. SamePlace(pc[t], pc[t])
    BY Zenon DEF SamePlace
  <1>b. Idle.op = "idle"
    BY Zenon DEF Idle
  <1>1. CASE run_pusher_word
    <2>1. SamePlace(pc[t], pc'[t])
      BY <1>0, <1>1, Zenon
         DEF run_pusher_word, signal_cache_cond, SamePlace, Loaded, Switching, Asked, Other
    <2>2. UNCHANGED <<Contexts, pending, cpu>>
      BY <1>1, Zenon DEF run_pusher_word, Contexts, pgVars, irqVars
    <2> QED BY <2>1, <2>2, SwitchKept, Zenon DEF IsAsked
  <1>2. CASE run_pusher_end
    <2>1. UNCHANGED <<pc, Contexts, pending>> /\ cpu' = Idle
      BY <1>2, Zenon DEF run_pusher_end, MmioEnd, Contexts, pgVars, irqVars, threadVars
    <2> QED BY <1>a, <1>b, <2>1, SwitchKept, Zenon DEF IsAsked
  <1>3. CASE pgraph_FIFO
    <2>1. {"accessWait"} \in SUBSET DOMAIN Waits
      BY Zenon DEF Waits
    <2>2. SamePlace(pc[t], pc'[t])
      BY <1>3, <2>1, WokenInPlace, Zenon DEF pgraph_FIFO
    <2>3. UNCHANGED <<Contexts, pending>> /\ cpu' = Idle
      BY <1>3, Zenon DEF pgraph_FIFO, PgraphWrite, MmioEnd, Contexts, irqVars
    <2> QED BY <1>b, <2>2, <2>3, SwitchKept, Zenon DEF IsAsked
  <1>4. CASE pgraph_INTR
    <2>1. IsLoaded /\ IsAsked /\ pc[t] \in Asked
      BY <1>4, Zenon DEF pgraph_INTR, PgraphWrite, ThreadInv, DriverInv
    <2>2. {"ctxWait", "notifyWait"} \in SUBSET DOMAIN Waits
      BY Zenon DEF Waits
    <2>3. SamePlace(pc[t], pc'[t])
      BY <1>4, <2>2, WokenInPlace, Zenon DEF pgraph_INTR
    <2>4. UNCHANGED Contexts /\ cpu' = Idle
      BY <1>4, Zenon DEF pgraph_INTR, PgraphWrite, MmioEnd, Contexts, pgVars
    <2>5. pc'[t] \in Asked /\ pc'[t] \notin Loaded /\ pc'[t] \notin Other
      BY <2>1, <2>3, Zenon DEF SamePlace, Asked, Loaded, Other
    <2>6. IsLoaded' /\ DriverInv'
      BY <1>b, <2>1, <2>4, Zenon DEF IsLoaded, Contexts, DriverInv
    <2> QED BY <2>1, <2>3, <2>4, <2>5, <2>6, Zenon DEF ThreadInv, SamePlace, Contexts, Switching
  <1>5. CASE pgraph_CTX_CONTROL \/ pgraph_CTX_USER
    <2>1. IsAsked /\ pc[t] \in Asked
      BY <1>5, Zenon DEF pgraph_CTX_CONTROL, pgraph_CTX_USER, PgraphWrite, ThreadInv, DriverInv
    <2>2. UNCHANGED <<pc, cmd, entry, trapped, pending>> /\ cpu' = Idle
      BY <1>5, Zenon DEF pgraph_CTX_CONTROL, pgraph_CTX_USER, PgraphWrite, MmioEnd, irqVars
    <2>3. IsAsked' /\ DriverInv'
      BY <1>b, <2>1, <2>2, Zenon DEF IsAsked, DriverInv
    <2>4. pc'[t] \in Asked /\ pc'[t] \notin Loaded /\ pc'[t] \notin Other
      BY <2>1, <2>2, Zenon DEF Asked, Loaded, Other
    <2> QED BY <2>2, <2>3, <2>4, Zenon DEF ThreadInv
  <1> QED BY <1>1, <1>2, <1>3, <1>4, <1>5, Zenon DEF Handler

\* Outside the waits for a switch no interrupt is pending, and so no write of the
\* driver's is under way: what t needs for its next point is all there is to show.
LEMMA GoesOn ==
  ASSUME ThreadsOK, NEW t \in Threads, ThreadInv(t), pc[t] \notin Asked,
         NEW l, l \notin Switching, Goto(t, l), cpu' = cpu, ~IsAsked',
         l \in Loaded /\ cmd'[t].kind = "bind" => channelValid' /\ pgChannel' = entry'[t],
         l \in Other => cmd'[t].kind # "bind"
  PROVE  ThreadInv(t)'
  <1>1. pc'[t] = l
    BY Zenon DEF ThreadsOK, Goto
  <1>2. DriverInv'
    BY Zenon DEF ThreadInv, DriverInv
  <1> QED BY <1>1, <1>2, Zenon DEF ThreadInv, Switching

LEMMA PullerSwitch ==
  ASSUME TypeOK, NEW t \in Threads, ThreadInv(t), Puller(t)
  PROVE  ThreadInv(t)'
  <1>0. pc \in [Threads -> PC] /\ IrqTypeOK /\ ThreadsOK /\ DataOK
    BY TypeParts, Zenon DEF ThreadsOK
  <1>a. SamePlace(pc[t], pc[t])
    BY Zenon DEF SamePlace
  <1>b. UNCHANGED pending => (IsAsked' <=> IsAsked)
    BY Zenon DEF IsAsked
  <1>c. pc[t] \notin Asked => ~IsAsked
    BY Zenon DEF ThreadInv
  <1>1. CASE PullTop(t) \/ LockCache(t) \/ WaitCache(t) \/ CheckPull(t) \/ PopCommand(t) \/ Finish(t)
    <2>1. pc[t] \in {"top", "fetch", "relock", "testEmpty", "checkPull", "finish"}
      BY <1>1, Zenon DEF PullTop, LockCache, WaitCache, CheckPull, PopCommand, Finish, At
    <2>2. \E l \in {"fetch", "dead", "testEmpty", "checkPull", "cacheWait", "dispatch", "top"} : Goto(t, l)
      BY <1>1, Zenon DEF PullTop, LockCache, WaitCache, CheckPull, PopCommand, Finish
    <2>3. UNCHANGED <<pending, cpu>>
      BY <1>1, Zenon DEF PullTop, LockCache, WaitCache, CheckPull, PopCommand, Finish, Local, irqVars
    <2> QED BY <1>0, <1>b, <1>c, <2>1, <2>2, <2>3, GoesOn, Zenon DEF Asked, Switching, Loaded, Other
  <1>2. CASE Dispatch(t)
    <2>1. pc[t] = "dispatch" /\ UNCHANGED <<pending, cpu, cmd, trapped, channelValid, pgChannel>>
      BY <1>2, Zenon DEF Dispatch, At, irqVars, pgVars
    <2>2. CASE UNCHANGED <<pc, entry>>
      BY <1>a, <1>b, <2>1, <2>2, SwitchKept, Zenon DEF Contexts
    <2>3. CASE Goto(t, "assertChannel")
      BY <1>0, <1>b, <1>c, <2>1, <2>3, GoesOn, Zenon DEF Asked, Switching, Loaded, Other
    <2>4. CASE Goto(t, "finish") /\ cmd[t].kind = "ignored"
      BY <1>0, <1>b, <1>c, <2>1, <2>4, GoesOn, Zenon DEF Asked, Switching, Loaded, Other
    <2>5. CASE Goto(t, "engine") /\ cmd[t].kind # "bind"
      BY <1>0, <1>b, <1>c, <2>1, <2>5, GoesOn, Zenon DEF Asked, Switching, Loaded, Other
    <2> QED BY <1>0, <1>2, <2>2, <2>3, <2>4, <2>5, DispatchOutcome, Zenon
  <1>3. CASE AssertChannel(t) \/ ReadEngine(t)
    <2>1. UNCHANGED <<pending, cpu, Contexts>>
      BY <1>3, Zenon DEF AssertChannel, ReadEngine, Local, Contexts, irqVars, pgVars
    <2>2. CASE UNCHANGED pc
      BY <1>a, <1>b, <2>1, <2>2, SwitchKept, Zenon
    <2>3. CASE pc[t] = "assertChannel" /\ Goto(t, IF cmd[t].kind = "bind" THEN "ctxCheck" ELSE "engine")
      BY <1>0, <1>b, <1>c, <2>1, <2>3, GoesOn, Zenon DEF Contexts, Asked, Switching, Loaded, Other
    <2>4. CASE pc[t] = "engine" /\ Goto(t, "access")
      <3>1. cmd'[t].kind # "bind"
        BY <2>1, <2>4, Zenon DEF ThreadInv, Other, Contexts
      <3> QED BY <1>0, <1>b, <1>c, <2>1, <2>4, <3>1, GoesOn, Zenon DEF Asked, Switching, Loaded, Other
    <2> QED BY <1>3, <2>2, <2>3, <2>4, Zenon DEF AssertChannel, ReadEngine, Assert, At
  <1>4. CASE CtxCheck(t)
    <2>1. /\ pc[t] = "ctxCheck" /\ UNCHANGED <<pending, cpu, cmd, entry, channelValid, pgChannel>>
          /\ ~IsAsked /\ ~IsAsked'
      BY <1>b, <1>c, <1>4, Zenon DEF CtxCheck, At, Asked, irqVars
    <2>2. CASE channelValid /\ pgChannel = entry[t]
      BY <1>0, <1>4, <2>1, <2>2, GoesOn, Zenon DEF CtxCheck, Asked, Switching, Loaded, Other
    <2>3. CASE ~(channelValid /\ pgChannel = entry[t])
      <3>1. pc'[t] = "ctxRaise" /\ trapped' = entry'[t]
        BY <1>0, <1>4, <2>1, <2>3, Zenon DEF CtxCheck, Goto
      <3>2. DriverInv'
        BY <2>1, Zenon DEF ThreadInv, DriverInv
      <3> QED BY <2>1, <3>1, <3>2, Zenon DEF ThreadInv, Loaded, Asked, Other
    <2> QED BY <2>2, <2>3, Zenon
  <1>5. CASE CtxRaise(t)
    <2>1. pc[t] = "ctxRaise" /\ pc'[t] = "ctxTest" /\ UNCHANGED <<cpu, Contexts>>
      BY <1>0, <1>5, Zenon DEF CtxRaise, At, Goto, Contexts, pgVars
    <2>2. IsAsked'
      BY <1>0, <1>5, Zenon DEF CtxRaise, IsAsked, IrqTypeOK, Masks, Units
    <2>3. trapped' = entry'[t]
      BY <2>1, Zenon DEF ThreadInv, Switching, Contexts
    <2>4. DriverInv'
      BY <1>c, <2>1, Zenon DEF ThreadInv, DriverInv, Asked
    <2> QED BY <2>1, <2>2, <2>3, <2>4, Zenon DEF ThreadInv, Loaded, Asked, Other
  <1>6. CASE CtxTest(t)
    <2>1. pc[t] = "ctxTest" /\ UNCHANGED <<pending, cpu, Contexts>>
      BY <1>6, Zenon DEF CtxTest, TestLoop, At, Local, Contexts, irqVars, pgVars
    <2>2. CASE IsAsked
      <3>1. pc'[t] = "ctxWait"
        BY <1>0, <1>6, <2>2, Zenon DEF CtxTest, TestLoop, Goto, IsAsked
      <3>2. SamePlace(pc[t], pc'[t])
        BY <2>1, <3>1, Zenon DEF SamePlace, Loaded, Asked, Switching, Other
      <3> QED BY <1>b, <2>1, <3>2, SwitchKept, Zenon
    <2>3. CASE ~IsAsked
      <3>1. pc'[t] = "access"
        BY <1>0, <1>6, <2>3, Zenon DEF CtxTest, TestLoop, Goto, IsAsked
      <3>2. IsLoaded /\ trapped = entry[t]
        BY <2>1, <2>3, Zenon DEF ThreadInv, Asked, Switching
      <3>3. channelValid' /\ pgChannel' = entry'[t]
        BY <2>1, <3>2, Zenon DEF IsLoaded, Contexts
      <3>4. ~IsAsked' /\ DriverInv'
        BY <1>b, <2>1, <2>3, Zenon DEF ThreadInv, DriverInv
      <3> QED BY <3>1, <3>3, <3>4, Zenon DEF ThreadInv, Asked, Switching, Other
    <2> QED BY <2>2, <2>3, Zenon
  <1>7. CASE WaitFifoAccess(t) \/ MethodLock(t)
    <2>1. UNCHANGED <<pending, cpu, Contexts>>
      BY <1>7, Zenon DEF WaitFifoAccess, MethodLock, TestLoop, Local, Contexts, irqVars, pgVars
    <2>2. CASE UNCHANGED pc
      BY <1>a, <1>b, <2>1, <2>2, SwitchKept, Zenon
    <2>3. CASE pc[t] \in {"access", "method"} /\ \E l \in {"accessWait", "method", "exec"} : Goto(t, l)
      <3>1. pc'[t] \in {"accessWait", "method", "exec"}
        BY <1>0, <2>3, Zenon DEF Goto
      <3>2. SamePlace(pc[t], pc'[t])
        BY <2>3, <3>1, Zenon DEF SamePlace, Loaded, Asked, Switching, Other
      <3> QED BY <1>b, <2>1, <3>2, SwitchKept, Zenon
    <2> QED BY <1>7, <2>2, <2>3, Zenon DEF WaitFifoAccess, MethodLock, TestLoop, Assert, At
  <1>8. CASE MethodExec(t)
    <2>1. pc[t] = "exec" /\ UNCHANGED <<cpu, cmd, entry, channelValid, pgChannel>>
      BY <1>8, Zenon DEF MethodExec, At
    <2>2. ~IsAsked'
      <3>1. \/ pending' = pending
            \/ pending' = [pending EXCEPT !["PGRAPH"] = @ \cup {"NOTIFY"}]
        BY <1>8, Zenon DEF MethodExec
      <3>2. pending'["PGRAPH"] \subseteq pending["PGRAPH"] \cup {"NOTIFY"}
        BY <1>0, <3>1, Zenon DEF IrqTypeOK, Masks, Units
      <3> QED BY <1>c, <2>1, <3>2, Zenon DEF IsAsked, Asked
    <2>3. CASE Goto(t, "finish")
      BY <1>0, <2>1, <2>2, <2>3, GoesOn, Zenon DEF ThreadInv, Asked, Switching, Loaded, Other
    <2>4. CASE (Goto(t, "notifyIrq") \/ Goto(t, "semWait")) /\ cmd[t].kind # "bind"
      BY <1>0, <2>1, <2>2, <2>4, GoesOn, Zenon DEF Asked, Switching, Loaded, Other
    <2> QED BY <1>8, <2>3, <2>4, SMT DEF MethodExec
  <1>9. CASE NotifyIrq(t) \/ NotifyLock(t) \/ NotifyTest(t) \/ SemWait(t) \/ SemLock(t)
    <2>1. pc[t] \in {"notifyIrq", "notifyLock", "notifyTest", "semWait", "semLock"}
      BY <1>9, Zenon DEF NotifyIrq, NotifyLock, NotifyTest, SemWait, SemLock, TestLoop, At
    <2>2. \E l \in {"notifyLock", "notifyWait", "semLock", "finish"} : Goto(t, l)
      BY <1>9, Zenon DEF NotifyIrq, NotifyLock, NotifyTest, SemWait, SemLock, TestLoop
    <2>3. UNCHANGED <<pending, cpu, cmd>>
      BY <1>9, Zenon DEF NotifyIrq, NotifyLock, NotifyTest, SemWait, SemLock, TestLoop, Local, irqVars
    <2>4. cmd'[t].kind # "bind"
      BY <2>1, <2>3, Zenon DEF ThreadInv, Other
    <2> QED BY <1>0, <1>b, <1>c, <2>1, <2>2, <2>3, <2>4, GoesOn, Zenon DEF Asked, Switching, Loaded
  <1> QED BY <1>1, <1>2, <1>3, <1>4, <1>5, <1>6, <1>7, <1>8, <1>9, Zenon DEF Puller

LEMMA SwitchStep ==
  ASSUME OneThread, OnlySwitches, TypeOK, SwitchInv, [Next]_vars
  PROVE  SwitchInv'
  <1> SUFFICES ASSUME NEW t \in Threads PROVE ThreadInv(t)'
    BY Zenon DEF SwitchInv
  <1>0. ThreadInv(t) /\ \A u \in Threads : u = t
    BY Zenon DEF SwitchInv, OneThread
  <1>1. CASE SpuriousWake(t)
    <2>1. pc'[t] = Waits[pc[t]] /\ pc[t] \in DOMAIN Waits
      BY <1>1, TypeParts, Zenon DEF SpuriousWake, ThreadsOK
    <2>2. UNCHANGED <<Contexts, pending, cpu>>
      BY <1>1, Zenon DEF SpuriousWake, Contexts, pgVars, irqVars
    <2> QED BY <1>0, <2>1, <2>2, WakesInPlace, SwitchKept, Zenon DEF IsAsked
  <1>2. CASE UNCHANGED vars
    <2>1. UNCHANGED <<Contexts, pending, cpu, pc>>
      BY <1>2, Zenon DEF vars, Contexts, pgVars, irqVars, threadVars
    <2> QED BY <1>0, <2>1, SwitchKept, Zenon DEF IsAsked, SamePlace
  <1> QED
    BY <1>0, <1>1, <1>2, GuestSwitch, HandlerSwitch, PullerSwitch, Zenon DEF Next, Halted

\* With one puller thread and a driver that loads the channel TRAPPED_ADDR names
\* before it clears CONTEXT_SWITCH, pgraph_context_switch returns with the channel
\* of the object loaded, and it stays loaded until the SET_OBJECT is done.
THEOREM SwitchesLoad ==
  ASSUME OneThread, OnlySwitches PROVE Spec => []SwitchLoadsChannel
  <1>1. Init => SwitchInv
    <2> SUFFICES ASSUME Init, NEW t \in Threads PROVE ThreadInv(t)
      BY Zenon DEF SwitchInv
    <2>1. pc[t] = "new" /\ cpu.op = "idle" /\ pending["PGRAPH"] = {}
      BY Zenon DEF Init, Idle, IrqInit, Units
    <2> QED BY <2>1, Zenon DEF ThreadInv, DriverInv, IsAsked, Loaded, Asked, Switching, Other
  <1>2. TypeOK /\ SwitchInv /\ [Next]_vars => SwitchInv'
    BY SwitchStep, Zenon
  <1>3. SwitchInv => SwitchLoadsChannel
    BY Zenon DEF SwitchInv, ThreadInv, SwitchLoadsChannel, Loaded
  <1> QED BY <1>1, <1>2, <1>3, TypeCorrect, PTL DEF Spec
-----------------------------------------------------------------------------
(* With one puller thread, Nv2aFifo implements CommandFifo and keeps the   *)
(* order of the commands.                                                  *)

Queue == InFlight \o cache
-----------------------------------------------------------------------------
(* Sequences.                                                              *)

LEMMA ConsHeadTail ==
  ASSUME NEW S, NEW s \in Seq(S), s # <<>>
  PROVE  <<Head(s)>> \o Tail(s) = s
  <1>1. Head(s) \in S /\ Tail(s) \in Seq(S) /\ Len(Tail(s)) = Len(s) - 1
        /\ \A i \in 1 .. Len(Tail(s)) : Tail(s)[i] = s[i + 1]
    BY HeadTailProperties, Zenon
  <1>2. <<Head(s)>> \in Seq(S) /\ Len(<<Head(s)>>) = 1
    BY <1>1
  <1>3. /\ <<Head(s)>> \o Tail(s) \in Seq(S)
        /\ Len(<<Head(s)>> \o Tail(s)) = Len(s)
        /\ \A i \in 1 .. Len(s) : (<<Head(s)>> \o Tail(s))[i] = s[i]
    BY <1>1, <1>2, ConcatProperties
  <1> QED BY <1>3, SeqEqual, Zenon

LEMMA HeadTailCons ==
  ASSUME NEW S, NEW c \in S, NEW s \in Seq(S)
  PROVE  /\ <<c>> \o s # <<>>
         /\ Head(<<c>> \o s) = c
         /\ Tail(<<c>> \o s) = s
  <1>1. <<c>> \in Seq(S) /\ Len(<<c>>) = 1
    OBVIOUS
  <1>2. /\ <<c>> \o s \in Seq(S) /\ Len(<<c>> \o s) = 1 + Len(s)
        /\ \A i \in 1 .. 1 + Len(s) : (<<c>> \o s)[i] = IF i <= 1 THEN <<c>>[i] ELSE s[i - 1]
    BY <1>1, ConcatProperties, Zenon
  <1>3. <<c>> \o s # <<>> /\ Head(<<c>> \o s) = c
    BY <1>2
  <1>4. /\ Tail(<<c>> \o s) \in Seq(S) /\ Len(Tail(<<c>> \o s)) = Len(s)
        /\ \A i \in 1 .. Len(s) : Tail(<<c>> \o s)[i] = s[i]
    BY <1>2, <1>3, HeadTailProperties
  <1> QED BY <1>3, <1>4, SeqEqual, Zenon

LEMMA ConcatAppend ==
  ASSUME NEW S, NEW r \in Seq(S), NEW s \in Seq(S), NEW c \in S
  PROVE  r \o Append(s, c) = Append(r \o s, c)
  <1>1. <<c>> \in Seq(S) /\ Append(s, c) = s \o <<c>>
    BY AppendIsConcat
  <1>2. r \o s \in Seq(S)
    BY ConcatProperties, Zenon
  <1>3. Append(r \o s, c) = (r \o s) \o <<c>>
    BY <1>2, AppendIsConcat, Zenon
  <1> QED BY <1>1, <1>3, ConcatAssociative
-----------------------------------------------------------------------------
(* The command in flight.                                                  *)

LEMMA FlightType == ThreadsOK => InFlight \in Seq(Command)
  <1> SUFFICES ASSUME ThreadsOK PROVE InFlight \in Seq(Command)
    BY Zenon
  <1>1. CASE \E t \in Threads : pc[t] \in Busy
    <2> DEFINE u == CHOOSE t \in Threads : pc[t] \in Busy
    <2>1. u \in Threads /\ pc[u] \in Busy
      BY <1>1, Zenon
    <2>2. cmd[u] \in Command
      BY <2>1, Zenon DEF ThreadsOK
    <2>3. InFlight = <<cmd[u]>>
      BY <1>1, Zenon DEF InFlight
    <2> QED BY <2>2, <2>3
  <1>2. CASE ~\E t \in Threads : pc[t] \in Busy
    BY <1>2 DEF InFlight
  <1> QED BY <1>1, <1>2, Zenon

\* With one thread it is the command of that thread.
LEMMA FlightIs ==
  ASSUME OneThread, NEW t \in Threads
  PROVE  /\ pc[t] \in Busy => InFlight = <<cmd[t]>>
         /\ pc[t] \notin Busy => InFlight = <<>>
         /\ pc'[t] \in Busy => InFlight' = <<cmd'[t]>>
         /\ pc'[t] \notin Busy => InFlight' = <<>>
  <1>1. \A u \in Threads : u = t
    BY Zenon DEF OneThread
  <1>2. ASSUME pc[t] \in Busy PROVE InFlight = <<cmd[t]>>
    <2>1. (CHOOSE u \in Threads : pc[u] \in Busy) = t
      BY <1>1, <1>2, Zenon
    <2> QED BY <1>2, <2>1, Zenon DEF InFlight
  <1>3. ASSUME pc[t] \notin Busy PROVE InFlight = <<>>
    BY <1>1, <1>3, Zenon DEF InFlight
  <1>4. ASSUME pc'[t] \in Busy PROVE InFlight' = <<cmd'[t]>>
    <2>1. (CHOOSE u \in Threads : pc'[u] \in Busy) = t
      BY <1>1, <1>4, Zenon
    <2> QED BY <1>4, <2>1, Zenon DEF InFlight
  <1>5. ASSUME pc'[t] \notin Busy PROVE InFlight' = <<>>
    BY <1>1, <1>5, Zenon DEF InFlight
  <1> QED BY <1>2, <1>3, <1>4, <1>5, Zenon

\* A thread is busy exactly if it has a command, so steps that leave cmd alone
\* leave the command in flight.
LEMMA FlightKept ==
  ASSUME OneThread, ThreadsOK, ThreadsOK', cmd' = cmd
  PROVE  InFlight' = InFlight
  <1>1. \A t \in Threads : pc'[t] \in Busy <=> pc[t] \in Busy
    BY Zenon DEF ThreadsOK
  <1>2. CASE Threads = {}
    BY <1>2, Zenon DEF InFlight
  <1>3. CASE Threads # {}
    <2>1. PICK t \in Threads : TRUE
      BY <1>3, Zenon
    <2> QED BY <1>1, <2>1, FlightIs
  <1> QED BY <1>2, <1>3, Zenon
-----------------------------------------------------------------------------
(* Every step pushes a command, retires one, or changes neither.           *)

Pushes ==
  \E c \in Command : /\ Queue' = Append(Queue, c)
                     /\ pushed' = Append(pushed, c)
                     /\ retired' = retired

Retires ==
  /\ Queue # <<>>
  /\ retired' = Append(retired, Head(Queue))
  /\ Queue' = Tail(Queue)
  /\ pushed' = pushed

Invisible == UNCHANGED <<Queue, pushed, retired>>

LEMMA OthersInvisible ==
  ASSUME OneThread, TypeOK, TypeOK', UNCHANGED <<cmd, cache, pushed, retired>>
  PROVE  Invisible
BY TypeParts, FlightKept, Zenon DEF Invisible, Queue

LEMMA WordPushes ==
  ASSUME OneThread, TypeOK, TypeOK', run_pusher_word
  PROVE  Pushes
  <1> DEFINE c == Stream[chid][dmaGet[chid] + 1]
  <1>1. cache' = Append(cache, c) /\ pushed' = Append(pushed, c) /\ retired' = retired /\ cmd' = cmd
    BY Zenon DEF run_pusher_word
  <1>2. c \in Command
    <2>1. /\ chid \in Channels /\ dmaGet[chid] \in Nat /\ dmaPut[chid] \in Nat
          /\ dmaGet[chid] <= dmaPut[chid] /\ dmaPut[chid] <= Len(Stream[chid])
          /\ dmaGet[chid] # dmaPut[chid]
      BY TypeParts, Zenon DEF DataOK, run_pusher_word
    <2>2. dmaGet[chid] + 1 \in 1 .. Len(Stream[chid])
      BY <2>1, StreamType
    <2> QED BY <2>1, <2>2, StreamType
  <1>3. InFlight' = InFlight /\ InFlight \in Seq(Command) /\ cache \in Seq(Command)
    BY <1>1, TypeParts, FlightKept, FlightType, Zenon DEF DataOK
  <1>4. InFlight \o Append(cache, c) = Append(InFlight \o cache, c)
    BY <1>2, <1>3, ConcatAppend
  <1> QED BY <1>1, <1>2, <1>3, <1>4, Zenon DEF Pushes, Queue

LEMMA PopInvisible ==
  ASSUME OneThread, TypeOK, NEW t \in Threads, PopCommand(t)
  PROVE  Invisible
  <1>1. pc[t] = "testEmpty" /\ cache # <<>> /\ cache \in Seq(Command) /\ ThreadsOK
    BY TypeParts, Zenon DEF PopCommand, At, DataOK
  <1>2. pc'[t] = "dispatch" /\ cmd'[t] = Head(cache) /\ cache' = Tail(cache)
    BY <1>1, Zenon DEF PopCommand, Goto, ThreadsOK
  <1>3. "testEmpty" \notin Busy /\ "dispatch" \in Busy
    BY Zenon DEF Busy, PC
  <1>4. InFlight = <<>> /\ InFlight' = <<Head(cache)>>
    BY <1>1, <1>2, <1>3, FlightIs, Zenon
  <1>5. <<Head(cache)>> \o Tail(cache) = cache /\ <<>> \o cache = cache
    BY <1>1, ConsHeadTail, ConcatEmptySeq, Zenon
  <1>6. Queue' = Queue
    BY <1>2, <1>4, <1>5, Zenon DEF Queue
  <1> QED BY <1>6, Zenon DEF PopCommand, Invisible

LEMMA FinishRetires ==
  ASSUME OneThread, TypeOK, NEW t \in Threads, Finish(t)
  PROVE  Retires
  <1>1. pc[t] = "finish" /\ cache \in Seq(Command) /\ ThreadsOK
    BY TypeParts, Zenon DEF Finish, At, DataOK
  <1>2. pc'[t] = "top" /\ cache' = cache /\ pushed' = pushed /\ retired' = Append(retired, cmd[t])
    BY <1>1, Zenon DEF Finish, Goto, ThreadsOK, cacheVars
  <1>3. "finish" \in Busy /\ "top" \notin Busy
    BY Zenon DEF Busy, PC
  <1>4. cmd[t] \in Command
    BY <1>1, <1>3, Zenon DEF ThreadsOK
  <1>5. InFlight = <<cmd[t]>> /\ InFlight' = <<>>
    BY <1>1, <1>2, <1>3, FlightIs, Zenon
  <1>6. Queue = <<cmd[t]>> \o cache /\ Queue' = cache
    BY <1>1, <1>2, <1>5, ConcatEmptySeq, Zenon DEF Queue
  <1>7. Queue # <<>> /\ Head(Queue) = cmd[t] /\ Tail(Queue) = cache
    BY <1>1, <1>4, <1>6, HeadTailCons
  <1> QED BY <1>2, <1>6, <1>7, Zenon DEF Retires

LEMMA FifoStep ==
  ASSUME OneThread, TypeOK, TypeOK', [Next]_vars
  PROVE  Pushes \/ Retires \/ Invisible
  <1>1. CASE Guest
    <2>1. UNCHANGED <<cmd, cache, pushed, retired>>
      BY <1>1, Zenon DEF Guest, pfifo_write_PUSH0, pfifo_write_PUSH1, pfifo_write_PULL0_enable,
           pfifo_write_PULL0_disable, pfifo_write_ENGINE, user_write_DMA_PUT, MmioBegin,
           SwitchDriver, pgraph_INCREMENT, irq_pmc_INTR_0, irq_pmc_INTR_EN_0, irq_unit_INTR_0,
           irq_unit_INTR_EN_0, irq_pgraph_INTR_EN, irq_vblank, IrqStep, cacheVars, threadVars
    <2> QED BY <2>1, OthersInvisible, Zenon
  <1>2. CASE Handler
    <2>1. run_pusher_word \/ UNCHANGED <<cmd, cache, pushed, retired>>
      BY <1>2, Zenon DEF Handler, run_pusher_end, pgraph_INTR, pgraph_CTX_CONTROL, pgraph_CTX_USER,
                  pgraph_FIFO, PgraphWrite, cacheVars, threadVars
    <2> QED BY <2>1, WordPushes, OthersInvisible, Zenon
  <1>3. ASSUME NEW t \in Threads, Puller(t) PROVE Pushes \/ Retires \/ Invisible
    <2>1. PopCommand(t) \/ Finish(t) \/ UNCHANGED <<cmd, cache, pushed, retired>>
      BY <1>3, ZenonT(30) DEF Puller, PullTop, LockCache, WaitCache, CheckPull, Dispatch, AssertChannel,
                  ReadEngine, CtxCheck, CtxRaise, CtxTest, WaitFifoAccess, MethodLock,
                  MethodExec, NotifyIrq, NotifyLock, NotifyTest, SemWait, SemLock, TestLoop,
                  Local, cacheVars
    <2> QED BY <2>1, PopInvisible, FinishRetires, OthersInvisible, SMTT(30)
  <1>4. ASSUME NEW t \in Threads, SpuriousWake(t) PROVE Invisible
    BY <1>4, OthersInvisible, Zenon DEF SpuriousWake, cacheVars
  <1>5. CASE UNCHANGED vars
    BY <1>5, OthersInvisible, Zenon DEF vars, cacheVars, threadVars
  <1> QED BY <1>1, <1>2, <1>3, <1>4, <1>5, Zenon DEF Next, Halted
-----------------------------------------------------------------------------
(* The theorems.                                                           *)

LEMMA InitEmpty ==
  ASSUME Init
  PROVE  InFlight = <<>> /\ cache = <<>> /\ retired = <<>> /\ pushed = <<>>
  <1>1. \A t \in Threads : pc[t] \notin Busy
    BY Zenon DEF Init, Busy
  <1> QED BY <1>1, Zenon DEF Init, InFlight

\* The CPU thread and the puller thread implement a FIFO of commands: every step
\* appends a command, retires the first one, or is invisible.
THEOREM FifoImplemented == ASSUME OneThread PROVE Spec => ImplementsFifo
  <1>1. Init => Fifo!Init
    BY InitEmpty DEF Fifo!Init
  <1>2. TypeOK /\ TypeOK' /\ [Next]_vars
          => [Fifo!Push \/ Fifo!Retire]_<<InFlight \o cache, retired>>
    BY FifoStep, Zenon DEF Pushes, Retires, Invisible, Queue, Fifo!Push, Fifo!Retire
  <1> QED BY <1>1, <1>2, TypeCorrect, PTL DEF Spec, ImplementsFifo, Fifo!Spec

InOrder == pushed = retired \o Queue

LEMMA SeqTypes ==
  ASSUME TypeOK
  PROVE  /\ retired \in Seq(Command) /\ cache \in Seq(Command)
         /\ InFlight \in Seq(Command) /\ Queue \in Seq(Command)
  <1>1. retired \in Seq(Command) /\ cache \in Seq(Command) /\ InFlight \in Seq(Command)
    BY TypeParts, FlightType, Zenon DEF DataOK
  <1> QED BY <1>1, ConcatProperties, Zenon DEF Queue

LEMMA OrderIsQueue == TypeOK => (FifoOrder <=> InOrder)
  <1> SUFFICES ASSUME TypeOK PROVE FifoOrder <=> InOrder
    BY Zenon
  <1>1. (retired \o InFlight) \o cache = retired \o (InFlight \o cache)
    BY SeqTypes, ConcatAssociative, SMTT(30)
  <1> QED BY <1>1, Zenon DEF FifoOrder, InOrder, Queue

LEMMA OrderStep ==
  ASSUME OneThread, TypeOK, TypeOK', InOrder, [Next]_vars
  PROVE  InOrder'
  <1>1. pushed = retired \o Queue /\ retired \in Seq(Command) /\ Queue \in Seq(Command)
    BY SeqTypes, Zenon DEF InOrder
  <1>2. CASE Pushes
    <2>1. PICK c \in Command : /\ Queue' = Append(Queue, c)
                               /\ pushed' = Append(pushed, c)
                               /\ retired' = retired
      BY <1>2, Zenon DEF Pushes
    <2>2. retired \o Append(Queue, c) = Append(retired \o Queue, c)
      BY <1>1, ConcatAppend
    <2> QED BY <1>1, <2>1, <2>2, Zenon DEF InOrder
  <1>3. CASE Retires
    <2>1. Head(Queue) \in Command /\ Tail(Queue) \in Seq(Command) /\ Queue # <<>>
      BY <1>1, <1>3, HeadTailProperties, Zenon DEF Retires
    <2>2. <<Head(Queue)>> \in Seq(Command) /\ Append(retired, Head(Queue)) = retired \o <<Head(Queue)>>
      BY <1>1, <2>1, AppendIsConcat
    <2>3. Append(retired, Head(Queue)) \o Tail(Queue) = retired \o (<<Head(Queue)>> \o Tail(Queue))
      BY <1>1, <2>1, <2>2, ConcatAssociative, SMTT(30)
    <2>4. <<Head(Queue)>> \o Tail(Queue) = Queue
      BY <1>1, <2>1, ConsHeadTail, Zenon
    <2> QED BY <1>1, <1>3, <2>3, <2>4, Zenon DEF Retires, InOrder
  <1>4. CASE Invisible
    BY <1>1, <1>4, Zenon DEF Invisible, InOrder
  <1> QED BY <1>2, <1>3, <1>4, FifoStep, Zenon

\* No command is lost, duplicated or overtaken on its way from the pusher to
\* PGRAPH, whatever the guest writes meanwhile.
THEOREM OrderKept == ASSUME OneThread PROVE Spec => []FifoOrder
  <1>1. Init => InOrder
    BY InitEmpty, ConcatEmptySeq DEF InOrder, Queue
  <1>2. TypeOK /\ TypeOK' /\ InOrder /\ [Next]_vars => InOrder'
    BY OrderStep, Zenon
  <1> QED BY <1>1, <1>2, OrderIsQueue, TypeCorrect, PTL DEF Spec
=============================================================================
