----------------------------- MODULE Nv2aFifo -----------------------------
(***************************************************************************)
(* PFIFO's CACHE1 and the PGRAPH handshake of hw/xbox/nv2a_gpu.c.          *)
(*                                                                         *)
(* The guest's MMIO accesses run on the CPU thread under the iothread      *)
(* lock; one of them, the write of DMA_PUT, runs the pusher, which appends *)
(* the commands of the pushbuffer to the cache.  Writing PULL0 starts a    *)
(* detached puller thread that takes commands from the cache and executes  *)
(* them in PGRAPH, waiting on the guest where a context switch, a notify,  *)
(* a flip or a closed FIFO access asks for it.                             *)
(*                                                                         *)
(* iothread, cache_lock and pgraph.lock are held across steps and are      *)
(* variables.  pull_lock never is: no section it guards blocks, so each is *)
(* one atomic step.  A wait on a condition variable is a pc of its own; a  *)
(* broadcast or a signal moves the waiter to the pc that reacquires.       *)
(***************************************************************************)
EXTENDS Nv2aIrq, Sequences

CONSTANTS
  Threads,      \* puller threads that can be created
  Channels,     \* channel ids
  Subchannels,
  Stream,       \* Stream[c]: the commands in the pushbuffer of channel c
  GuestOps,     \* registers the guest writes
  PmcMasks,     \* values it writes to NV_PMC_INTR_0 and NV_PMC_INTR_EN_0
  MaxFlips      \* bound on posted READ_3D increments

Free == "free"
Cpu == "cpu"

\* The code paths a command can take through the puller and pgraph_method:
\* method 0, methods 0x180..0x1ff, NO_OPERATION with a parameter, FLIP_STALL,
\* any other method from 0x100 up, and methods 1..0xff.
Kinds == {"bind", "object", "notify", "flip", "method", "ignored"}
Command == [kind : Kinds, sub : Subchannels, chan : Channels]

NoCommand == [kind |-> "none"]

ASSUME ThreadsAssumption == Free \notin Threads /\ Cpu \notin Threads
ASSUME ChannelsAssumption == Channels \subseteq Nat /\ 0 \in Channels
ASSUME StreamAssumption == Stream \in [Channels -> Seq(Command)]
ASSUME PmcMasksAssumption == PmcMasks \subseteq SUBSET PmcBits
ASSUME FlipsAssumption == MaxFlips \in Nat

VARIABLES
  iothread, cacheLock, pgLock,  \* lock holders
  pullEnabled,                  \* cache1.pull_enabled, under pull_lock
  cache,                        \* cache1.cache
  bound,                        \* subchannels whose bound_engines is ENGINE_GRAPHICS
  chid,                         \* cache1.channel_id
  pushEnabled,                  \* cache1.push_enabled; DMA access is on throughout
  dmaGet, dmaPut,               \* user.channel_control[], counted in commands
  channelValid, pgChannel,      \* pgraph.channel_valid, pgraph.channel_id
  trapped,                      \* pgraph.trapped_channel_id
  fifoAccess,                   \* pgraph.fifo_access
  read3d,                       \* pgraph.read_3d, a semaphore
  cpu,                          \* the MMIO write the CPU thread is in
  pc, cmd, entry,               \* of each puller thread: control, command, and the
                                \* channel_id of the RAMHT entry it has found
  aborted,                      \* an assert failed and QEMU is gone
  pushed, retired               \* history: commands pushed, commands done

lockVars == <<iothread, cacheLock, pgLock>>
cacheVars == <<cache, pushed>>
pushVars == <<chid, pushEnabled, dmaGet, dmaPut>>
pgVars == <<channelValid, pgChannel, trapped, fifoAccess, read3d>>
threadVars == <<pc, cmd, entry>>
vars == <<irqVars, lockVars, pullEnabled, cacheVars, bound, pushVars, pgVars,
          cpu, threadVars, aborted, retired>>

Idle == [op |-> "idle"]

\* What the CPU thread can be in the middle of, iothread held.
CpuStates ==
  {Idle, [op |-> "push"]}
    \cup [op : {"INTR"}, val : SUBSET Sources["PGRAPH"]]
    \cup [op : {"CTX_CONTROL", "FIFO"}, val : BOOLEAN]
    \cup [op : {"CTX_USER"}, val : Channels]

\* Control points of a puller thread.  Waits maps each condition wait to the
\* point that takes the mutex again and repeats the test.
Waits == [cacheWait |-> "relock", ctxWait |-> "ctxTest",
          accessWait |-> "access", notifyWait |-> "notifyTest"]
PC == {"new", "top", "fetch", "testEmpty", "relock", "checkPull", "dispatch",
       "assertChannel", "engine", "ctxCheck", "ctxRaise", "ctxTest", "access",
       "method", "exec", "notifyIrq", "notifyLock", "notifyTest", "semWait",
       "semLock", "finish", "dead"} \cup DOMAIN Waits

\* The thread has taken a command from the cache and not finished it.
Busy == PC \ {"new", "top", "fetch", "testEmpty", "relock", "checkPull",
              "cacheWait", "dead"}

Init ==
  /\ IrqInit
  /\ iothread = Free /\ cacheLock = Free /\ pgLock = Free
  /\ pullEnabled = FALSE
  /\ cache = <<>> /\ pushed = <<>> /\ retired = <<>>
  /\ bound = {}
  /\ chid = 0
  /\ pushEnabled = FALSE
  /\ dmaGet = [c \in Channels |-> 0] /\ dmaPut = [c \in Channels |-> 0]
  /\ channelValid = FALSE
  /\ pgChannel = 0 /\ trapped = 0
  /\ fifoAccess = FALSE
  /\ read3d = 0
  /\ cpu = Idle
  /\ pc = [t \in Threads |-> "new"]
  /\ cmd = [t \in Threads |-> NoCommand] /\ entry = [t \in Threads |-> 0]
  /\ aborted = FALSE
-----------------------------------------------------------------------------
(* Condition variables.                                                    *)

\* qemu_cond_broadcast on the condition whose waiters are at the points C.
Woken(C) == [t \in Threads |-> IF pc[t] \in C THEN Waits[pc[t]] ELSE pc[t]]

\* Mutant: the pusher does not signal.
signal_cache_cond_Dropped == UNCHANGED pc

\* qemu_cond_signal(cache_cond): wakes one waiter, if there is one.
signal_cache_cond ==
  \/ \E t \in Threads : pc[t] = "cacheWait" /\ pc' = [pc EXCEPT ![t] = "relock"]
  \/ (\A t \in Threads : pc[t] # "cacheWait") /\ UNCHANGED pc

\* POSIX lets a condition wait return for no reason.
SpuriousWake(t) ==
  /\ pc[t] \in DOMAIN Waits
  /\ pc' = [pc EXCEPT ![t] = Waits[pc[t]]]
  /\ UNCHANGED <<irqVars, lockVars, pullEnabled, cacheVars, bound, pushVars,
                 pgVars, cpu, cmd, entry, aborted, retired>>
-----------------------------------------------------------------------------
(* The CPU thread: MMIO writes, each under the iothread lock.  A handler   *)
(* that takes no other lock, or pull_lock only, is one step.  The others   *)
(* take iothread in MmioBegin and can block with it held.                  *)

CpuFree == cpu.op = "idle" /\ iothread = Free

MmioBegin(w) ==
  /\ CpuFree
  /\ cpu' = w
  /\ iothread' = Cpu
  /\ UNCHANGED <<irqVars, cacheLock, pgLock, pullEnabled, cacheVars, bound,
                 pushVars, pgVars, threadVars, aborted, retired>>

MmioEnd == cpu' = Idle /\ iothread' = Free

\* NV_PFIFO_CACHE1_PUSH0 and PUSH1: neither runs the pusher.
pfifo_write_PUSH0(val) ==
  /\ CpuFree
  /\ pushEnabled' = val
  /\ UNCHANGED <<irqVars, lockVars, pullEnabled, cacheVars, bound, chid, dmaGet,
                 dmaPut, pgVars, cpu, threadVars, aborted, retired>>

pfifo_write_PUSH1(c) ==
  /\ CpuFree
  /\ chid' = c
  /\ UNCHANGED <<irqVars, lockVars, pullEnabled, cacheVars, bound, pushEnabled,
                 dmaGet, dmaPut, pgVars, cpu, threadVars, aborted, retired>>

\* NV_PFIFO_CACHE1_PULL0: enabling starts a thread, disabling broadcasts
\* cache_cond, holding pull_lock but not cache_lock.
pfifo_write_PULL0_enable ==
  /\ CpuFree
  /\ ~pullEnabled
  /\ pullEnabled' = TRUE
  /\ \E t \in Threads : pc[t] = "new" /\ pc' = [pc EXCEPT ![t] = "top"]
  /\ UNCHANGED <<irqVars, lockVars, cacheVars, bound, pushVars, pgVars, cpu, cmd, entry,
                 aborted, retired>>

pfifo_write_PULL0_disable ==
  /\ CpuFree
  /\ pullEnabled
  /\ pullEnabled' = FALSE
  /\ pc' = Woken({"cacheWait"})
  /\ UNCHANGED <<irqVars, lockVars, cacheVars, bound, pushVars, pgVars, cpu, cmd, entry,
                 aborted, retired>>

\* NV_PFIFO_CACHE1_ENGINE, under pull_lock.
pfifo_write_ENGINE(S) ==
  /\ CpuFree
  /\ bound' = S
  /\ UNCHANGED <<irqVars, lockVars, pullEnabled, cacheVars, pushVars, pgVars, cpu,
                 threadVars, aborted, retired>>

\* NV_USER_DMA_PUT of channel c.  The pusher that it runs serves chid.
user_write_DMA_PUT(c, n) ==
  /\ CpuFree
  /\ dmaPut' = [dmaPut EXCEPT ![c] = n]
  /\ IF pushEnabled THEN cpu' = [op |-> "push"] /\ iothread' = Cpu
                    ELSE UNCHANGED <<cpu, iothread>>
  /\ UNCHANGED <<irqVars, cacheLock, pgLock, pullEnabled, cacheVars, bound, chid,
                 pushEnabled, dmaGet, pgVars, threadVars, aborted, retired>>

\* Mutant: QSIMPLEQ_INSERT_HEAD for QSIMPLEQ_INSERT_TAIL.
run_pusher_word_InsertHead ==
  /\ cpu.op = "push"
  /\ dmaGet[chid] # dmaPut[chid]
  /\ cacheLock = Free
  /\ LET c == Stream[chid][dmaGet[chid] + 1] IN
       /\ cache' = <<c>> \o cache
       /\ pushed' = Append(pushed, c)
  /\ dmaGet' = [dmaGet EXCEPT ![chid] = @ + 1]
  /\ signal_cache_cond
  /\ UNCHANGED <<irqVars, lockVars, pullEnabled, bound, chid, pushEnabled, dmaPut,
                 pgVars, cpu, cmd, entry, aborted, retired>>

\* One turn of pfifo_run_pusher's loop for a data word: the command goes to the
\* tail of the cache, under cache_lock, and one waiter is signalled.
run_pusher_word ==
  /\ cpu.op = "push"
  /\ dmaGet[chid] # dmaPut[chid]
  /\ cacheLock = Free
  /\ LET c == Stream[chid][dmaGet[chid] + 1] IN
       /\ cache' = Append(cache, c)
       /\ pushed' = Append(pushed, c)
  /\ dmaGet' = [dmaGet EXCEPT ![chid] = @ + 1]
  /\ signal_cache_cond
  /\ UNCHANGED <<irqVars, lockVars, pullEnabled, bound, chid, pushEnabled, dmaPut,
                 pgVars, cpu, cmd, entry, aborted, retired>>

\* Mutant: the handler returns only when the puller has drained the cache.
run_pusher_end_Drains ==
  /\ cpu.op = "push"
  /\ dmaGet[chid] = dmaPut[chid]
  /\ cache = <<>>
  /\ MmioEnd
  /\ UNCHANGED <<irqVars, cacheLock, pgLock, pullEnabled, cacheVars, bound,
                 pushVars, pgVars, threadVars, aborted, retired>>

run_pusher_end ==
  /\ cpu.op = "push"
  /\ dmaGet[chid] = dmaPut[chid]
  /\ MmioEnd
  /\ UNCHANGED <<irqVars, cacheLock, pgLock, pullEnabled, cacheVars, bound,
                 pushVars, pgVars, threadVars, aborted, retired>>

\* The PGRAPH registers written under pgraph.lock, iothread being held.
PgraphWrite(op) ==
  /\ cpu.op = op
  /\ pgLock = Free
  /\ MmioEnd
  /\ UNCHANGED <<cacheLock, pgLock, pullEnabled, cacheVars, bound, pushVars, cmd, entry,
                 aborted, retired>>

\* Mutant: the interrupt is cleared without a broadcast.
pgraph_INTR_NoBroadcast ==
  /\ PgraphWrite("INTR")
  /\ pgraph_write_INTR(cpu.val)
  /\ UNCHANGED <<pgVars, pc>>

pgraph_INTR ==
  /\ PgraphWrite("INTR")
  /\ pgraph_write_INTR(cpu.val)
  /\ pc' = Woken({"ctxWait", "notifyWait"})
  /\ UNCHANGED pgVars

pgraph_CTX_CONTROL ==
  /\ PgraphWrite("CTX_CONTROL")
  /\ channelValid' = cpu.val
  /\ UNCHANGED <<irqVars, pgChannel, trapped, fifoAccess, read3d, pc>>

\* CTX_USER, and CTX_TRIGGER with READ_IN, which loads the same register.
pgraph_CTX_USER ==
  /\ PgraphWrite("CTX_USER")
  /\ pgChannel' = cpu.val
  /\ UNCHANGED <<irqVars, channelValid, trapped, fifoAccess, read3d, pc>>

pgraph_FIFO ==
  /\ PgraphWrite("FIFO")
  /\ fifoAccess' = cpu.val
  /\ pc' = Woken({"accessWait"})
  /\ UNCHANGED <<irqVars, channelValid, pgChannel, trapped, read3d>>

\* NV_PGRAPH_INCREMENT posts the semaphore, without pgraph.lock.
pgraph_INCREMENT ==
  /\ CpuFree
  /\ read3d < MaxFlips
  /\ read3d' = read3d + 1
  /\ UNCHANGED <<irqVars, lockVars, pullEnabled, cacheVars, bound, pushVars,
                 channelValid, pgChannel, trapped, fifoAccess, cpu, threadVars,
                 aborted, retired>>

\* The interrupt registers that need no lock but iothread, and the refresh of
\* the display, which the main loop runs under iothread too.
IrqStep(A) ==
  /\ CpuFree
  /\ A
  /\ UNCHANGED <<lockVars, pullEnabled, cacheVars, bound, pushVars, pgVars, cpu,
                 threadVars, aborted, retired>>

irq_pmc_INTR_0 == \E val \in PmcMasks : IrqStep(pmc_write_INTR_0(val))
irq_pmc_INTR_EN_0 == \E val \in PmcMasks : IrqStep(pmc_write_INTR_EN_0(val))
irq_unit_INTR_0 ==
  \E u \in {"PFIFO", "PCRTC"} : \E val \in SUBSET Sources[u] :
    IrqStep(unit_write_INTR_0(u, val))
irq_unit_INTR_EN_0 ==
  \E u \in {"PFIFO", "PCRTC"} : \E val \in SUBSET Sources[u] :
    IrqStep(unit_write_INTR_EN_0(u, val))
irq_pgraph_INTR_EN ==
  \E val \in SUBSET Sources["PGRAPH"] : IrqStep(pgraph_write_INTR_EN(val))
irq_vblank == IrqStep(vblank)

\* A driver that loads contexts only when it is interrupted for it: it reads
\* TRAPPED_ADDR, loads that channel, and only then clears the interrupt.
SwitchDriver ==
  /\ "CONTEXT_SWITCH" \in pending["PGRAPH"]
  /\ \/ MmioBegin([op |-> "CTX_USER", val |-> trapped])
     \/ MmioBegin([op |-> "CTX_CONTROL", val |-> TRUE])
     \/ /\ channelValid /\ pgChannel = trapped
        /\ MmioBegin([op |-> "INTR", val |-> {"CONTEXT_SWITCH"}])

\* The MMIO writes of the guest, restricted to the registers in GuestOps.
Guest ==
  \/ "PUSH0" \in GuestOps /\ \E b \in BOOLEAN : pfifo_write_PUSH0(b)
  \/ "PUSH1" \in GuestOps /\ \E c \in Channels : pfifo_write_PUSH1(c)
  \/ "PULL0" \in GuestOps /\ (pfifo_write_PULL0_enable \/ pfifo_write_PULL0_disable)
  \/ "ENGINE" \in GuestOps /\ \E S \in SUBSET Subchannels : pfifo_write_ENGINE(S)
  \/ "DMA_PUT" \in GuestOps
     /\ \E c \in Channels : \E n \in dmaPut[c] + 1 .. Len(Stream[c]) :
          user_write_DMA_PUT(c, n)
  \/ "INTR" \in GuestOps
     /\ \E S \in SUBSET Sources["PGRAPH"] : MmioBegin([op |-> "INTR", val |-> S])
  \/ "CTX_CONTROL" \in GuestOps
     /\ \E b \in BOOLEAN : MmioBegin([op |-> "CTX_CONTROL", val |-> b])
  \/ "CTX_USER" \in GuestOps
     /\ \E c \in Channels : MmioBegin([op |-> "CTX_USER", val |-> c])
  \/ "SWITCH" \in GuestOps /\ SwitchDriver
  \/ "FIFO" \in GuestOps /\ \E b \in BOOLEAN : MmioBegin([op |-> "FIFO", val |-> b])
  \/ "INCREMENT" \in GuestOps /\ pgraph_INCREMENT
  \/ "PMC" \in GuestOps /\ (irq_pmc_INTR_0 \/ irq_pmc_INTR_EN_0)
  \/ "PCRTC" \in GuestOps /\ (irq_unit_INTR_0 \/ irq_unit_INTR_EN_0 \/ irq_vblank)
  \/ "INTR_EN" \in GuestOps /\ irq_pgraph_INTR_EN

\* The rest of a handler that MmioBegin or user_write_DMA_PUT started.
Handler ==
  \/ run_pusher_word \/ run_pusher_end
  \/ pgraph_INTR \/ pgraph_CTX_CONTROL \/ pgraph_CTX_USER \/ pgraph_FIFO
-----------------------------------------------------------------------------
(* pfifo_puller_thread.                                                    *)

At(t, l) == pc[t] = l
Goto(t, l) == pc' = [pc EXCEPT ![t] = l]

\* Assert(t, b, l): assert(b), then on to l.
Assert(t, b, l) ==
  IF b THEN Goto(t, l) /\ UNCHANGED aborted
       ELSE aborted' = TRUE /\ UNCHANGED pc

\* Only the control of t changes.
Local == UNCHANGED <<irqVars, lockVars, pullEnabled, cacheVars, bound, pushVars,
                     pgVars, cpu, cmd, entry, retired>>

\* Top of the loop, under pull_lock.
PullTop(t) ==
  /\ At(t, "top")
  /\ Goto(t, IF pullEnabled THEN "fetch" ELSE "dead")
  /\ Local /\ UNCHANGED aborted

\* qemu_mutex_lock(&cache_lock), before the loop or when a wait returns.
LockCache(t) ==
  /\ \/ At(t, "fetch") /\ Goto(t, "testEmpty")
     \/ At(t, "relock") /\ Goto(t, "checkPull")
  /\ cacheLock = Free
  /\ cacheLock' = t
  /\ UNCHANGED <<irqVars, iothread, pgLock, pullEnabled, cacheVars, bound, pushVars,
                 pgVars, cpu, cmd, entry, aborted, retired>>

\* while (QSIMPLEQ_EMPTY): wait, releasing cache_lock.
WaitCache(t) ==
  /\ At(t, "testEmpty")
  /\ cache = <<>>
  /\ cacheLock' = Free
  /\ Goto(t, "cacheWait")
  /\ UNCHANGED <<irqVars, iothread, pgLock, pullEnabled, cacheVars, bound, pushVars,
                 pgVars, cpu, cmd, entry, aborted, retired>>

\* After a wait, with cache_lock held: was it to tell us we should die?
CheckPull(t) ==
  /\ At(t, "checkPull")
  /\ IF pullEnabled THEN Goto(t, "testEmpty") /\ UNCHANGED cacheLock
                    ELSE Goto(t, "dead") /\ cacheLock' = Free
  /\ UNCHANGED <<irqVars, iothread, pgLock, pullEnabled, cacheVars, bound, pushVars,
                 pgVars, cpu, cmd, entry, aborted, retired>>

\* Mutant: the command is copied, not removed.
PopCommand_Peeks(t) ==
  /\ At(t, "testEmpty")
  /\ cache # <<>>
  /\ cmd' = [cmd EXCEPT ![t] = Head(cache)]
  /\ cacheLock' = Free
  /\ Goto(t, "dispatch")
  /\ UNCHANGED <<irqVars, iothread, pgLock, pullEnabled, cacheVars, bound, pushVars,
                 pgVars, cpu, entry, aborted, retired>>

\* Take the first command and release cache_lock.
PopCommand(t) ==
  /\ At(t, "testEmpty")
  /\ cache # <<>>
  /\ cmd' = [cmd EXCEPT ![t] = Head(cache)]
  /\ cache' = Tail(cache)
  /\ cacheLock' = Free
  /\ Goto(t, "dispatch")
  /\ UNCHANGED <<irqVars, iothread, pgLock, pullEnabled, pushed, bound, pushVars,
                 pgVars, cpu, entry, aborted, retired>>

\* ramht_lookup goes by the hash of the handle and of the channel id of CACHE1 at
\* this moment, and compares neither with the entry.  The driver has put the
\* object where the hash with the channel of the command leads.  After a write of
\* PUSH1 the hash leads elsewhere: the entry there is not valid, and the assert
\* fails, or it belongs to any channel.
ramht_lookup(t) ==
  \/ /\ entry' \in {[entry EXCEPT ![t] = c] :
                      c \in IF chid = cmd[t].chan THEN {chid} ELSE Channels}
     /\ Goto(t, "assertChannel")
     /\ UNCHANGED aborted
  \/ chid # cmd[t].chan /\ aborted' = TRUE /\ UNCHANGED <<pc, entry>>

\* Which path the command takes.
Dispatch(t) ==
  /\ At(t, "dispatch")
  /\ CASE cmd[t].kind \in {"bind", "object"} -> ramht_lookup(t)
       [] cmd[t].kind = "ignored" -> Goto(t, "finish") /\ UNCHANGED <<entry, aborted>>
       [] OTHER -> Goto(t, "engine") /\ UNCHANGED <<entry, aborted>>
  /\ UNCHANGED <<irqVars, lockVars, pullEnabled, cacheVars, bound, pushVars, pgVars,
                 cpu, cmd, retired>>

\* assert(entry.channel_id == state->channel_id) reads the channel id again.
AssertChannel(t) ==
  /\ At(t, "assertChannel")
  /\ Assert(t, chid = entry[t], IF cmd[t].kind = "bind" THEN "ctxCheck" ELSE "engine")
  /\ Local

\* bound_engines[subchannel], under pull_lock.
ReadEngine(t) ==
  /\ At(t, "engine")
  /\ Assert(t, cmd[t].sub \in bound, "access")
  /\ Local

\* Mutant: the trap reports the channel that is loaded, not the one needed.
CtxCheck_TrapsLoaded(t) ==
  /\ At(t, "ctxCheck")
  /\ pgLock = Free
  /\ IF channelValid /\ pgChannel = entry[t]
     THEN Goto(t, "access") /\ UNCHANGED trapped
     ELSE Goto(t, "ctxRaise") /\ trapped' = pgChannel
  /\ UNCHANGED <<irqVars, lockVars, pullEnabled, cacheVars, bound, pushVars,
                 channelValid, pgChannel, fifoAccess, read3d, cpu, cmd, entry, aborted,
                 retired>>

\* pgraph_context_switch, first section under pgraph.lock.
CtxCheck(t) ==
  /\ At(t, "ctxCheck")
  /\ pgLock = Free
  /\ IF channelValid /\ pgChannel = entry[t]
     THEN Goto(t, "access") /\ UNCHANGED trapped
     ELSE Goto(t, "ctxRaise") /\ trapped' = entry[t]
  /\ UNCHANGED <<irqVars, lockVars, pullEnabled, cacheVars, bound, pushVars,
                 channelValid, pgChannel, fifoAccess, read3d, cpu, cmd, entry, aborted,
                 retired>>

\* Second section, under iothread but not pgraph.lock.
CtxRaise(t) ==
  /\ At(t, "ctxRaise")
  /\ iothread = Free
  /\ pending' = [pending EXCEPT !["PGRAPH"] = @ \cup {"CONTEXT_SWITCH"}]
  /\ UNCHANGED <<enabled, pmcEnabled>>
  /\ update_irq(pmcPending)
  /\ Goto(t, "ctxTest")
  /\ UNCHANGED <<lockVars, pullEnabled, cacheVars, bound, pushVars, pgVars, cpu, cmd, entry,
                 aborted, retired>>

\* A test of a condition loop under pgraph.lock: wait at w while b holds, else l.
TestLoop(t, l0, b, w, l) ==
  /\ At(t, l0)
  /\ pgLock = Free
  /\ Goto(t, IF b THEN w ELSE l)
  /\ Local /\ UNCHANGED aborted

CtxTest(t) ==
  TestLoop(t, "ctxTest", "CONTEXT_SWITCH" \in pending["PGRAPH"], "ctxWait", "access")

\* pgraph_wait_fifo_access.  The lock is released before pgraph_method takes it.
WaitFifoAccess(t) == TestLoop(t, "access", ~fifoAccess, "accessWait", "method")

\* pgraph_method takes the lock and asserts that a channel is loaded.
MethodLock(t) ==
  /\ At(t, "method")
  /\ pgLock = Free
  /\ Assert(t, channelValid, "exec")
  /\ pgLock' = IF channelValid THEN t ELSE Free
  /\ UNCHANGED <<irqVars, iothread, cacheLock, pullEnabled, cacheVars, bound,
                 pushVars, pgVars, cpu, cmd, entry, retired>>

\* The body of pgraph_method and its unlock.  NO_OPERATION records the trap and
\* sets NOTIFY; FLIP_STALL goes on to wait for the semaphore; both have released
\* the lock.  SET_OBJECT and the drawing methods are done.
MethodExec(t) ==
  /\ At(t, "exec")
  /\ pgLock' = Free
  /\ IF cmd[t].kind = "notify"
     THEN /\ pending' = [pending EXCEPT !["PGRAPH"] = @ \cup {"NOTIFY"}]
          /\ trapped' = pgChannel
     ELSE UNCHANGED <<pending, trapped>>
  /\ Goto(t, CASE cmd[t].kind = "notify" -> "notifyIrq"
               [] cmd[t].kind = "flip" -> "semWait"
               [] OTHER -> "finish")
  /\ UNCHANGED <<enabled, pmcPending, pmcEnabled, irq, iothread, cacheLock,
                 pullEnabled, cacheVars, bound, pushVars, channelValid, pgChannel,
                 fifoAccess, read3d, cpu, cmd, entry, aborted, retired>>

\* NO_OPERATION, iothread taken: update_irq, then pgraph.lock with iothread held.
NotifyIrq(t) ==
  /\ At(t, "notifyIrq")
  /\ iothread = Free
  /\ iothread' = t
  /\ UNCHANGED <<pending, enabled, pmcEnabled>>
  /\ update_irq(pmcPending)
  /\ Goto(t, "notifyLock")
  /\ UNCHANGED <<cacheLock, pgLock, pullEnabled, cacheVars, bound, pushVars, pgVars,
                 cpu, cmd, entry, aborted, retired>>

\* pgraph.lock taken, iothread released, first test of the loop.
NotifyLock(t) ==
  /\ At(t, "notifyLock")
  /\ pgLock = Free
  /\ iothread' = Free
  /\ Goto(t, IF "NOTIFY" \in pending["PGRAPH"] THEN "notifyWait" ELSE "finish")
  /\ UNCHANGED <<irqVars, cacheLock, pgLock, pullEnabled, cacheVars, bound, pushVars,
                 pgVars, cpu, cmd, entry, aborted, retired>>

NotifyTest(t) ==
  TestLoop(t, "notifyTest", "NOTIFY" \in pending["PGRAPH"], "notifyWait", "finish")

\* Mutant: the semaphore is taken without waiting for a post.
SemWait_NoWait(t) ==
  /\ At(t, "semWait")
  /\ read3d' = read3d - 1
  /\ Goto(t, "semLock")
  /\ UNCHANGED <<irqVars, lockVars, pullEnabled, cacheVars, bound, pushVars,
                 channelValid, pgChannel, trapped, fifoAccess, cpu, cmd, entry, aborted,
                 retired>>

\* FLIP_STALL: wait for READ_3D with no lock held, then lock and unlock.
SemWait(t) ==
  /\ At(t, "semWait")
  /\ read3d > 0
  /\ read3d' = read3d - 1
  /\ Goto(t, "semLock")
  /\ UNCHANGED <<irqVars, lockVars, pullEnabled, cacheVars, bound, pushVars,
                 channelValid, pgChannel, trapped, fifoAccess, cpu, cmd, entry, aborted,
                 retired>>

SemLock(t) == TestLoop(t, "semLock", FALSE, "semLock", "finish")

\* The engine bookkeeping under pull_lock; the command is freed, and the entry,
\* a local of the loop's body, is gone.
Finish(t) ==
  /\ At(t, "finish")
  /\ bound' = IF cmd[t].kind = "bind" THEN bound \cup {cmd[t].sub} ELSE bound
  /\ retired' = Append(retired, cmd[t])
  /\ cmd' = [cmd EXCEPT ![t] = NoCommand] /\ entry' = [entry EXCEPT ![t] = 0]
  /\ Goto(t, "top")
  /\ UNCHANGED <<irqVars, lockVars, pullEnabled, cacheVars, pushVars, pgVars, cpu,
                 aborted>>

Puller(t) ==
  \/ PullTop(t) \/ LockCache(t) \/ WaitCache(t) \/ CheckPull(t) \/ PopCommand(t)
  \/ Dispatch(t) \/ AssertChannel(t) \/ ReadEngine(t)
  \/ CtxCheck(t) \/ CtxRaise(t) \/ CtxTest(t) \/ WaitFifoAccess(t)
  \/ MethodLock(t) \/ MethodExec(t) \/ NotifyIrq(t) \/ NotifyLock(t)
  \/ NotifyTest(t) \/ SemWait(t) \/ SemLock(t) \/ Finish(t)

\* After a failed assert nothing runs any more.
Halted == aborted /\ UNCHANGED vars

Next ==
  \/ ~aborted /\ (Guest \/ Handler \/ \E t \in Threads : Puller(t) \/ SpuriousWake(t))
  \/ Halted

Spec == Init /\ [][Next]_vars

\* A runnable thread runs, and a mutex that keeps being released is eventually
\* acquired by a thread that waits for it.
HostFairness ==
  /\ \A t \in Threads : SF_vars(~aborted /\ Puller(t))
  /\ SF_vars(~aborted /\ Handler)

\* A guest whose driver keeps servicing the GPU: it acknowledges PGRAPH's
\* interrupts and advances the flips again and again, and does not close the FIFO
\* access for ever (nor reopen and close it so fast that the puller never sees
\* it open).
GuestFairness ==
  /\ SF_vars(~aborted /\ MmioBegin([op |-> "INTR", val |-> Sources["PGRAPH"]]))
  /\ SF_vars(~aborted /\ pgraph_INCREMENT)
  /\ <>[]fifoAccess

HostSpec == Spec /\ HostFairness

\* The display is refreshed again and again, by a timer of the main loop.
DisplaySpec == HostSpec /\ SF_vars(~aborted /\ irq_vblank)
-----------------------------------------------------------------------------
(* Properties.                                                             *)

ThreadsOK ==
  /\ pc \in [Threads -> PC]
  /\ cmd \in [Threads -> Command \cup {NoCommand}]
  /\ \A t \in Threads : (pc[t] \in Busy) <=> (cmd[t] # NoCommand)

\* Every variable has its type, a thread has a command exactly while it is
\* between taking one from the cache and freeing it (ThreadsOK), the pusher never
\* runs past PUT, and FLIP_STALL never takes a semaphore that was not posted.
TypeOK ==
  /\ IrqTypeOK
  /\ ThreadsOK
  /\ iothread \in Threads \cup {Free, Cpu}
  /\ cacheLock \in Threads \cup {Free}
  /\ pgLock \in Threads \cup {Free}
  /\ pullEnabled \in BOOLEAN /\ pushEnabled \in BOOLEAN /\ aborted \in BOOLEAN
  /\ cache \in Seq(Command) /\ pushed \in Seq(Command) /\ retired \in Seq(Command)
  /\ bound \subseteq Subchannels
  /\ chid \in Channels /\ pgChannel \in Channels /\ trapped \in Channels
  /\ entry \in [Threads -> Channels]
  /\ dmaGet \in [Channels -> Nat] /\ dmaPut \in [Channels -> Nat]
  /\ \A c \in Channels : dmaGet[c] <= dmaPut[c] /\ dmaPut[c] <= Len(Stream[c])
  /\ channelValid \in BOOLEAN /\ fifoAccess \in BOOLEAN
  /\ read3d \in 0..MaxFlips
  /\ cpu \in CpuStates

\* The commands taken from the cache and not finished; with one puller thread,
\* at most one.
InFlight ==
  IF \E t \in Threads : pc[t] \in Busy
  THEN <<cmd[CHOOSE t \in Threads : pc[t] \in Busy]>> ELSE <<>>

\* With one puller thread no command is lost, duplicated or overtaken between
\* the pusher and PGRAPH, whatever registers the guest writes meanwhile.
FifoOrder == pushed = retired \o InFlight \o cache

\* No lost wakeup in PGRAPH: a thread asleep on interrupt_cond or on
\* fifo_access_cond sleeps only while what it waits for has not happened.
WaitsJustified ==
  \A t \in Threads :
    /\ pc[t] = "ctxWait" => "CONTEXT_SWITCH" \in pending["PGRAPH"]
    /\ pc[t] = "notifyWait" => "NOTIFY" \in pending["PGRAPH"]
    /\ pc[t] = "accessWait" => ~fifoAccess

\* No lost wakeup in CACHE1: while pulling is enabled, a queued command always
\* has a puller thread that is awake or at work.
CacheIsServed ==
  pullEnabled /\ cache # <<>> =>
    \E t \in Threads : pc[t] \in PC \ {"new", "dead", "cacheWait"}

\* A puller that goes on from pgraph_context_switch finds the channel of its
\* object loaded, and keeps it until the SET_OBJECT is done: for a driver that
\* loads what TRAPPED_ADDR names before it clears the interrupt, whenever it
\* does so, wherever the wait is woken, and whatever it writes to PUSH1 (one
\* puller thread).
SwitchLoadsChannel ==
  \A t \in Threads :
    pc[t] \in {"access", "accessWait", "method", "exec", "finish"} /\ cmd[t].kind = "bind"
      => channelValid /\ pgChannel = entry[t]

\* Nv2aFifo implements CommandFifo (one puller thread): every step of the two
\* threads is a push, a retirement, or invisible.
Fifo == INSTANCE CommandFifo WITH queue <- InFlight \o cache, done <- retired
ImplementsFifo == Fifo!Spec

\* An MMIO write never blocks the guest for good: whatever the puller thread is
\* doing or waiting for, and however the guest behaves, the handler returns.
MmioCompletes == cpu.op # "idle" ~> (cpu.op = "idle" \/ aborted)

\* With a guest that services the GPU, every pushed command is executed in the
\* end, unless the guest disables pulling or an assert fails.
CommandsRetire ==
  GuestFairness => (pushed # retired ~> (pushed = retired \/ ~pullEnabled \/ aborted))

\* The puller is asleep until the guest clears CONTEXT_SWITCH, which the guest
\* has enabled in PGRAPH and, with PGRAPH, in PMC.
Unheard(t) ==
  /\ pc[t] = "ctxWait"
  /\ "CONTEXT_SWITCH" \in pending["PGRAPH"] \cap enabled["PGRAPH"]
  /\ "PGRAPH" \in pmcEnabled

\* A puller that waits for a context switch is heard: the PCI line goes up, in
\* whatever order the interrupt was raised and the masks were written.  (Writes
\* of PGRAPH's INTR and INTR_EN do not call update_irq; the display's refresh does.)
WaitIsSignalled == \A t \in Threads : Unheard(t) ~> (irq \/ ~Unheard(t) \/ aborted)

\* "the puller thread should die, wake it up.": after PULL0 is cleared, a puller
\* thread ends (or is enabled again).
PullerDies ==
  \A t \in Threads :
    (~pullEnabled /\ pc[t] # "new") ~> (pc[t] = "dead" \/ pullEnabled \/ aborted)
=============================================================================
