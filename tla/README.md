# Verification of xqemu

This directory holds TLA+ models of the device emulation that turns QEMU into
an original Xbox (`src/hw/xbox/`) and of the event loop and thread pool it runs
on, the TLC runs that check them on small instances, and TLAPS proofs of all
their safety properties.

## The system and its parts

The repository is QEMU 2.0 with a machine of its own. The generic part (TCG, the
block layer, migration, the other machines) is upstream code; the part that is
this repository's own is the machine in `hw/xbox/`.

| part | source | state | operations |
|---|---|---|---|
| PFIFO CACHE1 | `nv2a_gpu.c` | command queue, `pull_enabled`, `bound_engines`, `channel_id` | MMIO writes of PUSH0, PUSH1, PULL0, ENGINE, DMA_*; the puller thread |
| DMA pusher | `nv2a_gpu.c` | GET and PUT per channel, method, count, subroutine, error | `pfifo_run_pusher`, run by a write of DMA_PUT or by lifting a suspension |
| PGRAPH handshake | `nv2a_gpu.c` | loaded channel, trapped address, FIFO access, `read_3d` | `pgraph_context_switch`, `pgraph_wait_fifo_access`, the waits of `pgraph_method`, `pgraph_write` |
| interrupt tree | `nv2a_gpu.c` | pending and enabled masks of PFIFO, PCRTC, PGRAPH, PMC; the PCI line | `update_irq` and its callers |
| PGRAPH drawing | `nv2a_gpu.c` | the Kelvin object, OpenGL state | the other methods of `pgraph_method` |
| resource cache | `nv2a_gpu_cache.h` | pixel buffers, textures, framebuffers, dirty bits | look-up, upload, download, removal; the CPU's stores |
| shader translators | `nv2a_gpu_vsh.c`, `nv2a_gpu_psh.c` | none | program to GLSL text |
| audio processor | `mcpx_apu.c` | voice lists in guest memory, interrupt registers, frame timer | register writes, front-end methods, `se_frame` |
| SMBus, EEPROM | `hw/i2c/core.c`, `smbus.c`, `smbus_eeprom.c` | mode and buffer of each slave, memory | bus operations, the master's commands |
| SMBus controller | `amd_smbus.c` | status, control, data and block index | byte port reads and writes |
| system management controller | `smbus_xbox_smc.c` | watchdog, LED, tray, interrupt reason | commands, timers, buttons, reset |
| video encoder, temperature sensor | `smbus_cx25871.c`, `smbus_adm1032.c` | registers | byte reads and writes |
| LPC bridge | `xbox_pci.c` | routing registers in PCI configuration space | `xbox_lpc_set_irq`, `xbox_lpc_set_acpi_irq` |
| Super I/O | `lpc47m157.c` | configuration mode, registers, active serial ports | index and data port |
| game controller | `xid.c` | report in `in_state` | key events, USB requests |
| stubs and glue | `nvnet.c`, `mcpx_aci.c`, `acpi_xbox.c`, `xbox.c`, `chihiro.c` | none of their own | wiring at start |
| event loop | `async.c`, `aio-posix.c`, `main-loop.c` | bottom halves, handlers, notifiers | `qemu_bh_schedule`, `aio_poll`, `main_loop_wait` |
| thread pool | `thread-pool.c` | request list, semaphore, thread counters | submit, cancel, free; the worker threads |
| boot emulation | `mcpx_rom.c`, `bootloader.c`, `rc4.h` | CPU registers and memory | straight-line code at reset |

### How they interact, and what is hard

The guest's MMIO accesses run on the CPU thread under the *iothread* lock. A
write of `NV_USER_DMA_PUT` runs the pusher to its end inside that handler; it
reads words of the channel's pushbuffer and appends commands to the cache under
`cache_lock`, signalling `cache_cond` for each. Setting PULL0 creates a detached
thread, the puller. It pops a command, looks up its object under the current
channel id, and calls PGRAPH, where it may wait for the guest four times: until
the guest has loaded the context (`interrupt_cond`), until FIFO access is open
(`fifo_access_cond`), until a notify is acknowledged (`interrupt_cond` again) and
until a flip is done (`read_3d`). Both waits on interrupts take the iothread
lock to raise the interrupt first, one of them while going on to take
`pgraph.lock`. The guest's side of each wait is an MMIO write that takes
`pgraph.lock` under iothread.

The surfaces the GPU draws to have up to three copies, in guest memory, in pixel
buffers and in OpenGL textures. The puller thread moves them by dirty bits that
the CPU thread's stores set at any moment.

Block I/O runs in worker threads. A worker reports a finished request through a
notifier, which either the main loop or an `aio_poll` of the CPU thread sees.
Threads are created by a bottom half and by the threads that start, and a
semaphore counts the requests they may take.

In the southbridge a port write runs a whole SMBus cycle, slaves included, while
timers and resets happen between port writes. The watchdog of the SMC and the
guest's answer to it race, and a reset finds the controller in any state.

So the hard behaviours are: a wakeup that falls between a test and a wait; the
order of the locks; a channel switch while commands are queued, popped or half
fetched; pulling disabled and enabled again while a thread is in the middle of a
command; PMC and the PCI line going stale; the pusher's state surviving PUTs
that cut commands in two; a notification cleared by the wrong reader; a copy
that is stale when it is used; a reset in the middle of a protocol.
`PROJECT.json` lists each with its line.

## Modules

| module | models | kind |
|---|---|---|
| `Nv2aIrq` | the interrupt registers and the bodies of the handlers that write them | component |
| `Nv2aFifo` | the CPU thread and the puller threads with their locks and waits; uses `Nv2aIrq` | component, composed |
| `CommandFifo` | what CACHE1 promises: a FIFO | abstract specification |
| `MCNv2aFifo` | pushbuffers for the runs of `Nv2aFifo` | model |
| `Nv2aFifoProofs` | the types of `Nv2aFifo`, the wakeups of PGRAPH and of the cache, context switches; `Nv2aFifo` implements `CommandFifo` | proofs |
| `Pusher` | `pfifo_run_pusher`, one turn of its loop a step, and its registers | component |
| `PusherMeaning` | what a pushbuffer means, read a command at a time, and the guests of the run | reference definition |
| `MCPusher` | two pushbuffers | model |
| `PusherProofs` | types, the method register; the pusher decodes what `PusherMeaning` reads | proofs |
| `Apu` | the audio processor: registers, front-end methods, the frame of the setup engine | component |
| `ApuProofs` | what a frame reports; `Apu` implements `VoiceLists` | proofs |
| `AioContext` | bottom halves, handlers, `aio_poll` and the main loop, with the iothread lock | component |
| `ThreadPool` | the thread pool and its workers, on an `AioContext` | component, composed |
| `MCThreadPool` | the order of the handlers and bottom halves for the runs | model |
| `ThreadPoolLemmas` | the pool's invariant, its lists and counts, and the steps of the workers | proofs (lemmas) |
| `ThreadPoolProofs` | the pool's tokens, threads, completions, waits and types; uses `ThreadPoolLemmas` | proofs |
| `ResourceCache` | `nv2a_gpu_cache.h` with the surface, draw and texture methods and the CPU's stores | component |
| `MCResourceCache` | a zeta and two color surfaces that overlap | model |
| `ResourceCacheProofs` | the copies of the surfaces behave as one memory | proofs |
| `Smbus` | the bus, the protocol of its slaves, EEPROM and SMC | component |
| `Southbridge` | the SMBus controller, watchdog, reset and shutdown, with a driver; uses `Smbus` | component, composed |
| `MCSouthbridge` | the driver's calls | model |
| `SouthbridgeBus` | what each bus operation does to a command in progress | proofs (lemmas) |
| `SouthbridgeProofs` | the interrupt, contents of transfers, slaves and resets; uses `SouthbridgeBus` | proofs |
| `VoiceLists` | what the voice lists promise: three sequences without a common voice | abstract specification |

### Nv2aFifo

`iothread`, `cacheLock` and `pgLock` hold the owner of the lock that is held
across steps. `pull_lock` guards only sections that do not block, so each such
section is one atomic step and the lock needs no variable. `pc[t]` is the place
of puller thread `t`; a `qemu_cond_wait` is a place of its own (`cacheWait`,
`ctxWait`, `accessWait`, `notifyWait`), a signal or a broadcast moves a waiter to
the place that takes the mutex again, and `SpuriousWake` does so for no reason.
A section under `pgraph.lock` that does not block is one step that needs the lock
free. MMIO handlers that take only iothread (or iothread and `pull_lock`) are one
step; the others begin with `MmioBegin` or `user_write_DMA_PUT` and block in the
middle, iothread held, until `pgLock` or `cacheLock` is free.

A command is its path through the code: `bind` (method 0), `object` (methods
0x180 to 0x1ff, whose parameter is looked up), `notify`, `flip`, `method` and
`ignored`. `ramht_lookup` hashes the channel id of CACHE1 into its key, so a
look-up is sure to find the object's entry only while that is the channel that
pushed the command; after a PUSH1 it finds an invalid entry, or one of any channel. The assert after it reads the channel id again (`AssertChannel`). A
failed assert sets `aborted`, after which nothing moves. `SwitchDriver` is the
guest's handler of context switches: it loads the channel that TRAPPED_ADDR names
and then clears the interrupt.
`pushEnabled` stands for PUSH0 with DMA access on and no suspension; `Pusher`
models the three separately. `pushed` and `retired` are history variables.

### Pusher

A word is a natural number, decoded with the masks of the code. The entries that
the pusher appends are kept in `emitted`. `SwitchChannel` is a driver's channel
switch: it reads DMA_STATE and DMA_SUBROUTINE, writes PUSH1, and writes back
what it had read for the other channel. The registers that no code reads back
(`*_shadow`, `dcount`) are left out.

`PusherMeaning` says what a pushbuffer means without the loop: `Read[n][c]` is where
channel c's buffer stands after its first n commands, whether it is in a
subroutine, and the entries so far. A whole command is one step of it, PUT,
suspensions and channel switches do not occur in it, and it is a function of n, so
a buffer that jumps backwards has a reading for every n. `Readings` are those of
the n in the constant `Commands`.

### Apu

MMIO handlers and the frame timer hold the iothread lock, so a handler is one
step. `se_frame` is a loop over links in guest memory that nothing bounds; it
takes one step per turn, and the guest is kept out until it is done. `link` and
`active` are guest memory, the rest registers. `Unlink` and `WriteVoice` are the
driver's: it takes an idle voice out when the interrupt tells it, and turns on
only voices that are in no list. `Linked`, the voices in the lists, is the least
set that has the tops and with a voice its successor; `Walk` is a list as a
sequence, which the refinement of `VoiceLists` uses. Without the second rule `VOICE_ON` would link a
voice to itself and the frame would not end. `decoded` keeps FEDECMETH and
FEDECPARAM only as far as the handler of the idle trap uses them.

### AioContext and ThreadPool

`bql` is the holder of the iothread lock. `aio_poll` runs on either thread: `at`
is its place, `walk` the handlers or bottom halves that the present walk has not
reached, `revents` what the last poll found, `ready` the notifiers that are set.
The main thread's `prepare`, `ppoll` and `check` are separate steps, since it
gives the lock up around `ppoll`. Worker `w` is at `pc[w]`; a section under
`pool->lock` is one step, and a wait on a condition variable is a value of
`call`. `head` is the list of all requests, `scan` the rest of the walk of
`event_notifier_ready`, which a callback restarts. A callback may schedule a
bottom half of its own (`completion_bh`).

### ResourceCache

Memory is in pages with a value each. `want` is what one coherent memory would
hold, against which the copies are compared. A draw is split at its two
`bind_texture_2d` and its `pgraph_bind_textures`, so the CPU's stores fall
between them; a clear binds no textures. A failed assert sets `failed`. The guest
of the passing run is *cautious* (`CautiousDraw`, `InUse`): it keeps the CPU off
the surfaces in use and samples no surface it draws to. A texture unit is set to
two blocks, the one whose dirty bits the code tests and the one it reads, since
the code computes them in two ways.

### Smbus and Southbridge

A master command is a script of bus operations and each is one step on the
slave's side. A slave that meets an unexpected operation sets `faults`, as do the
SMC's asserts. The driver prepares the registers, starts the cycle, acknowledges
it with the status it read or with every status, and reads the result; `Expire`,
`Reset` and `Shutdown` fall between any two of these. A write of the SMC's power
register asks for a reset (RESET and CYCLE) or for a shutdown, which the main loop
serves later. The driver's calls respect what the SMC asserts (`CallsAssumption`).
A status write that names a status which is not set raises the line and clears
its cause, as in the code; `over` remembers that it happened.

## Runs

| run | checks | distinct states |
|---|---|---|
| `fifo_threads` | `TypeOK`, `FifoOrder`, `WaitsJustified`, `ImplementsFifo` (refinement of `CommandFifo`), `MmioCompletes` and `CommandsRetire` (liveness) | 116 000 |
| `fifo_switch` | `CacheIsServed`, `SwitchLoadsChannel` | 1 396 000 |
| `fifo_irq` | `WaitIsSignalled` (liveness) | 69 000 |
| `pusher` | `TypeOK`, `MethodNeverWraps`, `StreamIsDecoded`, `EndMeansAll` | 368 000 |
| `apu` | `TypeOK`, `ImplementsLists` (refinement of `VoiceLists`), `FrameReports` (action property), `FrameEnds` and `OffVoicesLeave` (liveness) | 81 000 |
| `thread_pool` | `TypeOK`, `TokensMatch`, `ThreadsCounted`, `QueueHasWorker`, `CompletionIsSeen`, `WaitersAreWoken`, `CancelIsFinal` (action property), `RequestsComplete` (liveness) | 358 000 |
| `resource_cache` | `TypeOK`, `AssertsHold`, `LastWriteWins`, `HitsAreFresh`, `WaitShowsAll` (action property) | 855 000, up to symmetry |
| `southbridge` | `TypeOK`, `SlavesStayReady`, `WritesLand`, `ReadsReturn`, `IrqHasCause`, `ResetIsEarned` (action property), `SilentGuestsReboot` (liveness) | 310 000 |

`fifo_threads` shows that one puller and the CPU thread together are a FIFO of
commands, that a thread never sleeps in PGRAPH once what it waits for has
happened, that every MMIO handler returns, and that a serviced GPU executes all
it was given. `fifo_switch` shows, while the guest switches channels at any moment,
that queued commands have a puller which is awake, and that the puller never goes
on from `pgraph_context_switch` with the context of another channel. `fifo_irq` has
the guest write the masks while the puller raises interrupts: the PCI line comes
up for a puller that waits, if only at the next refresh of the display.
`pusher` has two
kinds of guest, chosen at the start: a driver, for which the pushbuffers are cut
at every PUT and switch and the entries compared with a command-at-a-time
reading, and one that writes the pusher's registers at will. `apu` moves voices
in and out of the lists while frames run.

`thread_pool` shows that tokens and requests match whatever times out or is
canceled, and that every request completes, although the main loop may sleep
through a bottom half. `resource_cache` shows that, for a cautious guest, the
three copies of the surfaces behave as one memory. `southbridge` shows that
reads return what is stored and that every slave is ready for the next command
even if the machine is reset in the middle of a driver's sequence, that the
interrupt has a cause, and that the watchdog reboots the guests that do not answer
the SMC, again and again until one shuts down, and no others.

Four runs end in a counterexample, because the code does not do what a comment
of it says:

* `fifo_puller_dies`: the broadcast of PULL0 can be lost;
* `bh_lost`: the CPU thread runs `aio_poll` while the main loop is in `ppoll`; a
  handler schedules a bottom half, and the handler of `ctx->notifier`, the last in
  the list, clears the notification in the same dispatch. The main loop sleeps on
  until a timer or another descriptor wakes it;
* `cache_sync`: a guest that draws, waits for idle and then writes the surface
  with the CPU ends the emulator at the next surface method, as the download
  takes every bound target for drawn;
* `texture_stale`: a guest samples an image, draws into its memory, changes the
  surface and samples the image again. The write-back of the target sets the dirty
  bits and resets them at once, so the unit finds nothing changed and keeps the
  image of before.

### Disagreements without a run

TLC has found counterexamples in `Nv2aFifo` to the first four of these; the others
were met while modelling. No run checks them, and their properties are not among
the definitions:

* acknowledging a PGRAPH interrupt (`nv2a_gpu.c:5051`) does not call `update_irq`,
  so `PMC_INTR_0`, which "Shows which functional units have pending IRQ"
  (`nv2a_gpu.c:4332`), goes on showing it;
* `update_irq` (`nv2a_gpu.c:1321`) uses `&&` where the masks should be
  intersected, against "Selects which functional units can cause IRQs"
  (`nv2a_gpu.c:4336`);
* PULL0 cleared and set again quickly (`nv2a_gpu.c:4679`) gives two pullers;
* an empty CACHE1_STATUS (`nv2a_gpu.c:4522`) does not mean that the last command
  has been looked up, and a PUSH1 written then can make the asserts at
  `nv2a_gpu.c:4115` and 4117 fail;
* a status write that names a status which is not set raises the SMBus line and
  clears the status (`amd_smbus.c:152`), so the line is up without a cause;
* a word write sends 0 for its high byte, whatever HOST_DATA + 1 holds
  (`amd_smbus.c:118`);
* the dirty bits tested for a texture are those of pitch * height bytes
  (`nv2a_gpu.c:1693`), while what is read of a swizzled texture follows from the
  logarithms of its size;
* a PIRQ that is not routed drives input 0 of the PIC, the timer's
  (`xbox_pci.c:91`); the internal interrupts and ACPI's test for 0.

### Bounds

`Threads` is the number of times PULL0 can be set, one in every run: the FIFO,
context switches and the liveness properties speak of *the* puller. The pushbuffers have
four commands (every kind of wait), two and three (two channels), or one (interrupts). `GuestOps`
selects the registers the guest writes in a run, so that a run spends its states
on the interleavings it is about. `MaxFlips` bounds the posts of `read_3d` that
are not yet taken; the code waits for one at a time. In `Pusher`, the two
pushbuffers contain every kind of word, PUT may be set to any word, and
`MaxEmitted` stops writes of GET once that many entries were appended for the
channel, or the guest could replay a pushbuffer for ever. Neither buffer has more
than six commands, so `Commands` is 0..6. Two voices are
enough for one idle report to overwrite another, and for a voice to be turned on
behind another and taken out. A voice between two others needs three; that case is
covered by the theorems `ListsImplemented` and `FramesReport`, for any number.

The guest of `pusher` that writes at will submits whole pushbuffers only. Two
workers and two requests are enough for a token to be taken for another's
request, for a thread to be created by another, and for a cancellation to race a
worker; the pool is freed once. `MaySpin` is false: the main loop does not reach the
1000 turns without a wait after which it gives the lock up anyway. (The proofs
leave it open, and with it true TLC finds no error either, in 930 000 states.)
Three pages hold
a zeta surface, a color surface, and a larger color surface that overlaps it and
whose second page is the image of the texture unit; two values tell a stale page
from a fresh one, and are interchangeable. The EEPROM has 4 bytes and a block
at most 2, so that commands wrap at the end of the memory, and blocks reach their
limit. Only the CPU thread submits requests to the pool.

### Fairness

`HostFairness` says that the host schedules its threads and that a mutex which is
released again and again is acquired by a thread waiting for it; the host's
scheduler and mutexes give that. `MmioCompletes` needs no more: the guest may do
anything. `GuestFairness` describes a driver that services the GPU: it
acknowledges the interrupts it gets, it advances the flips, and from some moment
on it leaves the FIFO access open. Without it the puller may rightly wait for
ever, so `CommandsRetire` assumes it. `WaitIsSignalled` assumes instead that the
display is refreshed (`DisplaySpec`): the display's timer calls `gfx_update`, which
raises the vertical blank and calls `update_irq` (`nv2a_gpu.c:5766`).

In `ThreadPool` the host schedules its threads, the functions of requests end, and
the CPU thread finishes what it began but need not begin anything. The main
loop's `ppoll` ends in any case, as the emulated timer and the display give it a
deadline, and the loop then gets the lock (strong fairness, see below);
`RequestsComplete` depends on both, which is why a lost notification delays a
request and does not stop it. In `Southbridge` the bus cycle is a loop of the CPU thread. The timer,
the reset and the shutdown get strong fairness, because the CPU thread keeps taking the lock
for port writes: when the main loop asks for it, `qemu_mutex_lock_iothread` sets
`iothread_requesting_mutex` and the CPU thread stops for it
(`qemu_tcg_wait_io_event`).

The main loop runs timers that are due and finishes a handler it started, so
frames get weak fairness. `OffVoicesLeave` assumes a driver that keeps the engine,
the trap and the interrupt on, serves the interrupt (strong fairness: an
acknowledgement may take the chance away, the next frame gives it back), and in
the end sends no further methods, which would overwrite FEDECPARAM. It also
assumes that SECTL is not rewritten more often than every 10 ms, as each such
write postpones the frame.

## Proofs

Every safety property that a run checks is also proved for all values of the
constants. The constants
are subject only to the named assumptions next to their declarations; a
theorem that needs more says so in its hypotheses.

### Nv2aFifo

* `Nv2aFifoProofs!TypeCorrect`: `Spec => []TypeOK`. `TypeOK` is inductive: besides
  the types it says that a thread has a command exactly at the places of `Busy`
  (so `Finish` never retires nothing), that GET never passes PUT and PUT never
  passes the end (so `run_pusher_word` reads a command), and that the semaphore
  count never goes below zero. There is one lemma per group of actions; the
  interrupt registers are handled once for all callers of `update_irq`.
* `NoLostWakeup`: `Spec => []WaitsJustified`, for any number of
  threads. Most steps are `Quiet`: nobody goes to sleep, no PGRAPH interrupt is
  acknowledged, FIFO access stays. The others are the two guest writes that end a
  wait, whose broadcast leaves nobody asleep on that condition, and the tests
  before a wait, which read the condition under the lock that guards it.
* `QueuedCommandsServed`: `Spec => []CacheIsServed`, for any number of threads.
  The inductive `ServedInv` adds that while pulling is enabled some thread has
  been started and has not left its loop. A thread goes to sleep only on an empty
  cache, and the pusher's signal after each append wakes one if all sleep.
  (TLC has checked `ServedInv` with two threads, too: 5.3 million states.)
* `SwitchesLoad`: `Spec => []SwitchLoadsChannel`, if there is one thread (`OneThread`)
  and the guest writes CTX_USER, CTX_CONTROL and INTR only in its handler
  (`OnlySwitches`). The inductive `SwitchInv` follows the thread through
  `pgraph_context_switch`: until the interrupt is cleared TRAPPED_ADDR names the
  channel of its object, and once it is cleared that channel is loaded.
* `FifoImplemented` and `OrderKept` assume `OneThread`:
  `Spec => ImplementsFifo`, `Spec => []FifoOrder`.
  The abstract queue is the command in flight followed by the cache. A thread
  holds a command exactly at the places of `Busy` (from `TypeOK`), so popping moves
  the head of the cache into an empty flight and shows no change;
  `run_pusher_word` appends, `Finish` removes the head, and no other step touches
  either part. The assumption is needed: with two pullers (there can be two, see
  above) a second command can overtake the first, and the second context switch
  overwrites the trapped address of the first.

### Pusher

* `PusherProofs!PusherTypes` and `MethodSafe`: `Spec => []TypeOK` and
  `Spec => []MethodNeverWraps`, for any words. The two are inductive together: a
  header gives a method below 2^13 and a count below 2^11, so method + 4 * count
  is below 2^14; each data word moves 4 from one summand to the other; a
  DMA_STATE write gives both from 11-bit fields, for which the same sum works.
  The invariant also covers the saved registers, which come back later.
* `StreamDecoded` and `EndDecoded`: `GuestsSpec => []StreamIsDecoded` and
  `GuestsSpec => []EndMeansAll`, for any pushbuffers, if `Commands = Nat` (readings of
  any length count) and under two assumptions on what the driver writes:
  `CommandsFit`, an increasing command that is read does not run past method 2^13,
  and `BuffersFit`, the DMA object ends below 2^29. A channel switch keeps the rest
  of a command in DMA_STATE, whose method has 11 bits of words, and the return
  address in the 29 bits of DMA_SUBROUTINE; what does not fit is lost there.
  The inductive `Decoding` says of every channel where it stands in some reading
  (`Position`): at the header of the next command, k words into a command with k of
  its entries appended, or, after a failed assert, at a word that ends the reading.
  It speaks of the registers of the current channel and of those saved for the
  others, which `RestoredAlike` relates across a switch. There is a lemma per form
  of a word. `ReadIs` is the recursive equation of `Read`: a solution exists for
  every length and any two agree, both by `NatMin`.

### Apu

For any finite set of voices.

* `ApuTypes`: `Spec => []TypeOK`.
* `FramesReport`: `Spec => FrameReports`. The inductive `FrameInv` says of a frame
  under way that there is a set `V` of voices it has visited: those of `V` that are
  not active are reported, `V` has the tops of the lists done so far, and what
  follows a voice of `V` is in `V` or is the cursor. When the last list ends, `V`
  is closed under the links, and so it is `Linked`, the least such set.
* `ListsImplemented`: `Spec => ImplementsLists`. The inductive `ListsInv` says that
  three sequences exist that have no voice twice and along which the tops and
  links are strung. What the methods do to pointers is then inserting a voice
  into a sequence or removing one, and `WalkIs` shows that following the links
  gives the sequence back. That lemma speaks of a recursive function for every
  length: `TurnsExist` shows that the function's equations have a solution,
  `TurnsFind` what a solution finds from each place of a list on. Both take a
  smallest index at which that fails (`NatMin`, from the library's well-foundedness
  of `<`), so no induction rule with an operator parameter is needed.

### ThreadPool

For any number of workers and requests: `TokenPerRequest`, `CountersExact`,
`RequestsHaveWorkers`, `CompletionsReachLoop`, `NoSignalMissed` (the five state
invariants) and `CancelTheorem` (`Spec => CancelIsFinal`). All rest on the
inductive `PoolInv` (theorem `PoolInvariant`). It adds that the two lists hold
exactly the elements that their states say, once each; that an active request is
run by exactly one worker; and that a call which waits has the iothread lock, so
no callback can release its request. The counters are restated with one operator,
`Count`, and one lemma says what moving a worker does to it.

`PoolTypeCorrect` is `Spec => []TypeOK`, in any order of the bottom halves. The types of
the event loop are not inductive: that `scheduled` has only bottom halves that are
listed and not deleted depends on which are there when one is scheduled. `LoopInv`
adds that the block layer's always is and the pool's is until the pool stops, and
which handlers there are, as the pool's is unlinked once. `WithoutList` shows that
freeing the deleted bottom halves leaves exactly the others; it speaks of a
recursive function and goes by a smallest index again.

### ResourceCache

`CacheTypes`, `CacheAsserts`, `LastWriteKept`, `CacheHits` and `WaitTheorem` say
that the five properties of the run hold for any surfaces, pages,
images and values, whatever is evicted, under the hypotheses `Guarded`:

* `Cautious`: the guest keeps to `CautiousDraw` and `InUse` (see above). This is a
  constant of the model, true in the passing run;
* `SurfacesApart`: no zeta surface overlaps a color surface. If one did, the sync
  of the one would mark the other, and the code asserts that it does not;
* `OneFormat`: no pixels are rendered to in two formats. `bind_texture_2d` keeps a
  texture for each format, and only an upload tells the others that the pixels
  have changed ("Inform all users by removing the pixels from their buffer
  list"); a download does not. So a surface drawn in one format, then in another
  of the same layout, then in the first again shows what it had the first time.
  TLC finds that counterexample to `LastWriteWins` when two textures share their
  pixels.

The instance of the run satisfies all three. The inductive `CacheInv` adds to the
properties where the newest contents are. Outside the bound targets memory has
them (`MemoryInv`); a bound target has its buffer and shows them (`TargetInv`).
Cached pixels do not overlap and, while clean, equal memory (`PixelsInv`), and so
does a cached texture that still has its buffer (`TextureInv`).

### Southbridge

For any set of calls, EEPROM size and block limit (`SizesAssumption`,
`CallsAssumption`: the driver does not call the SMC in a way that the code's
asserts forbid).

* `InterruptsCaused`: `Spec => []IrqHasCause`, however the driver acknowledges. The
  strengthening says that a cycle starts with the line down and that a finished one
  has a status.
* `SouthbridgeTypes`, `SlavesReady`, `WritesKept`, `ReadsExact` and `ResetsEarned`
  rest on `BusInv`. A command in progress is in one of a few phases, given by the
  rest of its script: sending, asking for a length, reading, ending. In each the
  invariant says exactly what the addressed slave holds, what the master has
  received, and how far the EEPROM differs from `before`. `SouthbridgeBus` has a
  lemma for each operation in each phase; `SouthbridgeProofs` puts them together
  with the driver's steps, the watchdog and the reset. Addresses wrap at most
  once in a command, because a block and its length byte are shorter than the
  memory.

### Only model-checked

Everything that depends on fairness is beyond the prover: `MmioCompletes`,
`CommandsRetire`, `WaitIsSignalled`, `FrameEnds`, `OffVoicesLeave`, `RequestsComplete`,
`SilentGuestsReboot`.

### How the leaves are proved

Most leaves cite Zenon. A leaf without a prover is tried by SMT and then by Zenon,
and the SMT encoding of each leaf takes longer the more leaves of the module were
encoded before it, up to a fixed limit; so it is kept for the leaves that need
arithmetic, functions or sequences. Leaves with large numbers cite SMT, as Zenon
writes numbers in unary.

## Not modelled

The other drawing methods of PGRAPH, the shader translators and the texture formats
produce OpenGL calls and text: the state they change is the GPU driver's. Image
blits are left out; they write guest memory without setting a dirty bit
(`nv2a_gpu.c:2732`), so a surface cached before one stays as it was. Draws that
write no surface are excluded by a guard, as they meet an `assert(0)`
(`nv2a_gpu.c:2449`).

Mipmap levels beyond the first and the conversion of pixels are left out of the
cache. The callback of `foreach_remove` returns its `exists` reversed
(`nv2a_gpu_cache.h:237`); the model follows the code.

Of the event loop, idle bottom halves, timers of the context and write handlers
are left out, and a completion callback that itself waits in `aio_poll`
(`thread-pool.c:190`): another request that is already done, and whose
notification `event_notifier_ready` has cleared, is not seen by that wait. Of
the SMC, the LED's timer, tray, version string and the reporting of
events, which nothing calls, and the debug version DBX, which has no watchdog. Of
the SMBus controller, GE_ABORT. The LPC bridge forwards interrupt levels to the
PIC input that a register names and keeps no state but those registers; a line
that is rerouted while it is up leaves its old input up. Of the pusher, the
asserts that the channel is in DMA mode. Of the audio processor, FEMEMDATA's write to guest memory and registers that are only read back.

The video encoder, the temperature sensor, the Super I/O and the game controller
are register files with one actor. The rest of QEMU (TCG, block layer, migration,
the other machines) is upstream code and by far the largest part of the
repository; the models use it as the environment: the iothread lock, timers,
dirty bits, reset. The other register blocks of the GPU (PTIMER, PFB, PRAMDAC,
PVIDEO) have no transitions of their own, and its debugger only writes to an
OpenGL debugger. Boot emulation is straight-line code without concurrent actors.
`nvnet.c`, `acpi_xbox.c` and `mcpx_aci.c` are stubs or wiring.

## Plan

Vertex submission in `pgraph_method`: inline arrays, elements and their limits.
