------------------------------- MODULE Pusher -------------------------------
(***************************************************************************)
(* The DMA pusher of CACHE1: pfifo_run_pusher of hw/xbox/nv2a_gpu.c and    *)
(* the registers that control it.  It runs inside the guest's MMIO write,  *)
(* so no other handler runs between two turns of its loop; each turn is a  *)
(* step here.  Its output, the entries it appends to the cache, is kept    *)
(* whole in emitted, by the channel that was current: Nv2aFifo models how  *)
(* the puller consumes it.                                                 *)
(***************************************************************************)
EXTENDS Integers, Sequences

CONSTANTS
  Channels,  \* channel ids
  Buffer,    \* Buffer[c]: the words of channel c's pushbuffer
  DmaLen,    \* DmaLen[c]: limit of its DMA object, in bytes
  RegValues, \* values the guest writes to DMA_STATE and DMA_SUBROUTINE
  MaxEmitted \* bound: no GET write after so many entries of the channel

ASSUME ChannelsAssumption == Channels \subseteq Nat /\ 0 \in Channels
ASSUME BufferAssumption == Buffer \in [Channels -> Seq(Nat)]
ASSUME DmaLenAssumption ==
  DmaLen \in [Channels -> Nat] /\ \A c \in Channels : DmaLen[c] <= 4 * Len(Buffer[c])

VARIABLES
  chid,     \* cache1.channel_id
  ctl,      \* user.channel_control[c]: dma_get and dma_put
  s,        \* the pusher state of cache1
  running,  \* pfifo_run_pusher is in its loop
  aborted,  \* an assert failed
  saved,    \* registers the guest saved for a channel it switched away from
  emitted   \* emitted[c]: the entries put in the cache for channel c

vars == <<chid, ctl, s, running, aborted, saved, emitted>>

Bit11 == 2048   \* the METHOD_COUNT field, and METHOD in words
Bit14 == 16384  \* unsigned int method : 14
Field11 == 0 .. Bit11 - 1
Field14 == 0 .. Bit14 - 1

-----------------------------------------------------------------------------
(* Decoding a word, by the masks the code tests.                           *)

Type(w) == w \div 2^29                                 \* bits 31..29
Low2(w) == w % 4                                       \* bits 1..0
Bits16_17(w) == (w \div 2^16) % 4

IsOldJump(w) == Type(w) = 1 /\ Low2(w) = 0             \* & 0xe0000003
IsJump(w) == Low2(w) = 1
IsCall(w) == Low2(w) = 2
IsReturn(w) == w = 2^17
IsIncreasing(w) == Type(w) = 0 /\ Bits16_17(w) = 0 /\ Low2(w) = 0   \* & 0xe0030003
IsNonIncreasing(w) == Type(w) = 2 /\ Bits16_17(w) = 0 /\ Low2(w) = 0

OldJumpTarget(w) == w % 2^29
Target(w) == w - Low2(w)
Method(w) == w % 2^13
Subchannel(w) == (w \div 2^13) % 8
Count_Unmasked(w) == w \div 2^18   \* mutant: no mask
Count(w) == (w \div 2^18) % Bit11
-----------------------------------------------------------------------------
NoError == "NONE"
Errors == {NoError, "CALL", "RETURN", "RESERVED_CMD", "PROTECTION"}

Reset == [push_enabled |-> FALSE, dma_push_enabled |-> FALSE,
          dma_push_suspended |-> FALSE, nonincreasing |-> FALSE, method |-> 0,
          subchannel |-> 0, method_count |-> 0,
          subroutine_active |-> FALSE, subroutine_return |-> 0, error |-> NoError]

\* The fields of DMA_STATE and DMA_SUBROUTINE.
Regs == [nonincreasing : BOOLEAN, method : Field11, subchannel : 0..7,
         method_count : Field11, error : Errors, subroutine_return : Nat,
         subroutine_active : BOOLEAN]

ASSUME RegValuesAssumption == RegValues \subseteq Regs
ASSUME MaxEmittedAssumption == MaxEmitted \in Nat

\* What DMA_STATE and DMA_SUBROUTINE read back as, within their masks.
SavedRegs(st) == [nonincreasing |-> st.nonincreasing,
                  method |-> (st.method \div 4) % Bit11,
                  subchannel |-> st.subchannel,
                  method_count |-> st.method_count % Bit11,
                  error |-> st.error,
                  subroutine_return |-> Target(st.subroutine_return) % 2^29,
                  subroutine_active |-> st.subroutine_active]

Init ==
  /\ chid = 0
  /\ ctl = [c \in Channels |-> [get |-> 0, put |-> 0]]
  /\ s = Reset
  /\ running = FALSE
  /\ aborted = FALSE
  /\ saved = [c \in Channels |-> SavedRegs(Reset)]
  /\ emitted = [c \in Channels |-> <<>>]
-----------------------------------------------------------------------------
(* The loop of pfifo_run_pusher.                                           *)

Get == ctl[chid].get
SetGet(a) == ctl' = [ctl EXCEPT ![chid].get = a]
Word == Buffer[chid][Get \div 4 + 1]

\* A turn of the loop that may read the word at dma_get.
Fetch == running /\ Get # ctl[chid].put /\ Get < DmaLen[chid]

\* A break with an error: after the loop, assert(false) ends the program, so the
\* suspension and the DMA_PUSHER interrupt behind it are never reached.
Fail(e) ==
  /\ s' = [s EXCEPT !.error = e]
  /\ running' = FALSE
  /\ aborted' = TRUE
  /\ UNCHANGED <<chid, saved, emitted>>

run_pusher_protection ==
  /\ running /\ Get # ctl[chid].put /\ Get >= DmaLen[chid]
  /\ Fail("PROTECTION")
  /\ UNCHANGED ctl

\* A data word of the current command becomes a cache entry.
Entry(m, sub, non, w) ==
  [method |-> m, subchannel |-> sub, nonincreasing |-> non, parameter |-> w]

run_pusher_data ==
  /\ Fetch
  /\ s.method_count > 0
  /\ SetGet(Get + 4)
  /\ emitted' = [emitted EXCEPT ![chid] =
                    Append(@, Entry(s.method, s.subchannel, s.nonincreasing, Word))]
  /\ s' = [s EXCEPT !.method = IF s.nonincreasing THEN @ ELSE (@ + 4) % Bit14,
                    !.method_count = @ - 1]
  /\ UNCHANGED <<chid, running, aborted, saved>>

\* The first word of a command.
Header == Fetch /\ s.method_count = 0

run_pusher_jump ==
  /\ Header
  /\ \/ IsOldJump(Word) /\ SetGet(OldJumpTarget(Word))
     \/ IsJump(Word) /\ SetGet(Target(Word))
  /\ UNCHANGED <<chid, s, running, aborted, saved, emitted>>

run_pusher_call ==
  /\ Header /\ IsCall(Word) /\ ~s.subroutine_active
  /\ SetGet(Target(Word))
  /\ s' = [s EXCEPT !.subroutine_return = Get + 4,
                    !.subroutine_active = TRUE]
  /\ UNCHANGED <<chid, running, aborted, saved, emitted>>

run_pusher_return ==
  /\ Header /\ IsReturn(Word) /\ s.subroutine_active
  /\ SetGet(s.subroutine_return)
  /\ s' = [s EXCEPT !.subroutine_active = FALSE]
  /\ UNCHANGED <<chid, running, aborted, saved, emitted>>

\* Mutant: the method is masked by the width of the register, not of the field.
run_pusher_methods_FieldWidth ==
  /\ Header /\ (IsIncreasing(Word) \/ IsNonIncreasing(Word))
  /\ SetGet(Get + 4)
  /\ s' = [s EXCEPT !.method = Word % Bit14,
                    !.subchannel = Subchannel(Word), !.method_count = Count(Word),
                    !.nonincreasing = IsNonIncreasing(Word)]
  /\ UNCHANGED <<chid, running, aborted, saved, emitted>>

run_pusher_methods ==
  /\ Header /\ (IsIncreasing(Word) \/ IsNonIncreasing(Word))
  /\ SetGet(Get + 4)
  /\ s' = [s EXCEPT !.method = Method(Word),
                    !.subchannel = Subchannel(Word), !.method_count = Count(Word),
                    !.nonincreasing = IsNonIncreasing(Word)]
  /\ UNCHANGED <<chid, running, aborted, saved, emitted>>

\* A nested call, a return outside a subroutine, and every other word.
ErrorOf(w) ==
  CASE IsCall(w) -> "CALL" [] IsReturn(w) -> "RETURN" [] OTHER -> "RESERVED_CMD"

run_pusher_error ==
  /\ Header
  /\ ~IsOldJump(Word) /\ ~IsJump(Word)
  /\ IsCall(Word) => s.subroutine_active
  /\ IsReturn(Word) => ~s.subroutine_active
  /\ ~IsIncreasing(Word) /\ ~IsNonIncreasing(Word)
  /\ Fail(ErrorOf(Word))
  /\ SetGet(Get + 4)

run_pusher_end ==
  /\ running /\ Get = ctl[chid].put
  /\ running' = FALSE
  /\ UNCHANGED <<chid, ctl, s, aborted, saved, emitted>>

Loop ==
  \/ run_pusher_protection \/ run_pusher_data \/ run_pusher_jump \/ run_pusher_call
  \/ run_pusher_return \/ run_pusher_methods \/ run_pusher_error \/ run_pusher_end
-----------------------------------------------------------------------------
(* The guest's register writes; none while the pusher runs.                *)

\* pfifo_run_pusher up to its loop, in pusher state st.  The channels are all
\* in DMA mode, as two of its asserts want; a failure of the third, on a
\* pending error, is aborted.
RunPusher(st) ==
  LET runs == st.push_enabled /\ st.dma_push_enabled /\ ~st.dma_push_suspended IN
  /\ running' = (runs /\ st.error = NoError)
  /\ aborted' = (runs /\ st.error # NoError)

\* Mutant: a PUT written while the pusher is off is taken as already fetched.
user_write_DMA_PUT_Skips(c, put) ==
  /\ ~running
  /\ ctl' = [ctl EXCEPT ![c].put = put, ![c].get = IF s.push_enabled THEN @ ELSE put]
  /\ RunPusher(s)
  /\ UNCHANGED <<chid, s, saved, emitted>>

\* The write of NV_USER_DMA_PUT of channel c; the pusher serves chid.
user_write_DMA_PUT(c, put) ==
  /\ ~running
  /\ ctl' = [ctl EXCEPT ![c].put = put]
  /\ RunPusher(s)
  /\ UNCHANGED <<chid, s, saved, emitted>>

pfifo_write_PUSH0(val) ==
  /\ ~running
  /\ s' = [s EXCEPT !.push_enabled = val]
  /\ UNCHANGED <<chid, ctl, running, aborted, saved, emitted>>

\* Clearing STATUS while suspended runs the pusher.
pfifo_write_DMA_PUSH(access, status) ==
  /\ ~running
  /\ s' = [s EXCEPT !.dma_push_enabled = access, !.dma_push_suspended = status]
  /\ IF s.dma_push_suspended /\ ~status THEN RunPusher(s')
                                        ELSE UNCHANGED <<running, aborted>>
  /\ UNCHANGED <<chid, ctl, saved, emitted>>

\* The CACHE1 windows to the channel's GET and PUT: no kick, even of a PUT.
pfifo_write_DMA_PUT(put) ==
  /\ ~running
  /\ ctl' = [ctl EXCEPT ![chid].put = put]
  /\ UNCHANGED <<chid, s, running, aborted, saved, emitted>>

pfifo_write_DMA_GET(get) ==
  /\ ~running
  /\ Len(emitted[chid]) < MaxEmitted
  /\ ctl' = [ctl EXCEPT ![chid].get = get]
  /\ UNCHANGED <<chid, s, running, aborted, saved, emitted>>

pfifo_write_PUSH1(c) ==
  /\ ~running
  /\ chid' = c
  /\ UNCHANGED <<ctl, s, running, aborted, saved, emitted>>

\* DMA_STATE and DMA_SUBROUTINE written with the fields of r.
Restored(st, r) ==
  [st EXCEPT !.nonincreasing = r.nonincreasing, !.method = r.method * 4,
             !.subchannel = r.subchannel, !.method_count = r.method_count,
             !.error = r.error, !.subroutine_return = r.subroutine_return,
             !.subroutine_active = r.subroutine_active]

pfifo_write_DMA_STATE(r) ==
  /\ ~running
  /\ s' = Restored(s, r)
  /\ UNCHANGED <<chid, ctl, running, aborted, saved, emitted>>

\* Mutant: the command in progress is not restored.
SwitchChannel_NoRestore(c) ==
  /\ ~running
  /\ c # chid
  /\ saved' = [saved EXCEPT ![chid] = SavedRegs(s)]
  /\ chid' = c
  /\ UNCHANGED <<ctl, s, running, aborted, emitted>>

\* A driver's channel switch, in one step, for no write of it runs the pusher:
\* it reads DMA_STATE and DMA_SUBROUTINE, writes PUSH1 (and DMA_INSTANCE), and
\* writes back what it read when it left channel c.
SwitchChannel(c) ==
  /\ ~running
  /\ c # chid
  /\ saved' = [saved EXCEPT ![chid] = SavedRegs(s)]
  /\ chid' = c
  /\ s' = Restored(s, saved[c])
  /\ UNCHANGED <<ctl, running, aborted, emitted>>

Offsets(c) == {4 * n : n \in 0 .. Len(Buffer[c])}

\* What a driver does, and what it could do besides.
Driver ==
  \/ \E c \in Channels : \E put \in Offsets(c) : user_write_DMA_PUT(c, put)
  \/ \E val \in BOOLEAN : pfifo_write_PUSH0(val)
  \/ \E access, status \in BOOLEAN : pfifo_write_DMA_PUSH(access, status)
  \/ \E put \in Offsets(chid) : pfifo_write_DMA_PUT(put)
  \/ \E c \in Channels : SwitchChannel(c)

Guest ==
  \/ Driver
  \/ \E get \in Offsets(chid) : pfifo_write_DMA_GET(get)
  \/ \E c \in Channels : pfifo_write_PUSH1(c)
  \/ \E r \in RegValues : pfifo_write_DMA_STATE(r)

Halted == aborted /\ UNCHANGED vars

DriverNext == (~aborted /\ (Loop \/ Driver)) \/ Halted
Next == (~aborted /\ (Loop \/ Guest)) \/ Halted

Spec == Init /\ [][Next]_vars
DriverSpec == Init /\ [][DriverNext]_vars
-----------------------------------------------------------------------------
(* Properties.                                                             *)

PusherState == [push_enabled : BOOLEAN, dma_push_enabled : BOOLEAN,
                dma_push_suspended : BOOLEAN, nonincreasing : BOOLEAN,
                method : Field14, subchannel : 0..7,
                method_count : Field11, error : Errors,
                subroutine_active : BOOLEAN, subroutine_return : Nat]

CacheEntry == [method : Field14, subchannel : 0..7, nonincreasing : BOOLEAN, parameter : Nat]

\* Types: the counters stay within the widths of the header fields, although
\* method_count is a 24-bit field and method a 14-bit one.
TypeOK ==
  /\ chid \in Channels
  /\ ctl \in [Channels -> [get : Nat, put : Nat]]
  /\ s \in PusherState
  /\ running \in BOOLEAN /\ aborted \in BOOLEAN
  /\ saved \in [Channels -> Regs]
  /\ emitted \in [Channels -> Seq(CacheEntry)]

\* The 14-bit method register never wraps, whatever the pushbuffer holds and
\* wherever the guest switches channels: the rest of the command always fits.
MethodNeverWraps == ~s.nonincreasing => s.method + 4 * s.method_count < Bit14
=============================================================================
