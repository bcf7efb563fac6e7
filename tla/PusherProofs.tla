---------------------------- MODULE PusherProofs ----------------------------
(***************************************************************************)
(* Proofs about Pusher for every pushbuffer: its counters stay within      *)
(* their fields, and a driver gets what PusherMeaning reads.               *)
(***************************************************************************)
EXTENDS PusherMeaning, SequenceTheorems, NaturalsInduction, WellFoundedInduction, TLAPS

Bit13 == 8192
Field13 == 0 .. Bit13 - 1

LEMMA FieldIs ==
  /\ \A x : x \in Field11 <=> x \in Nat /\ x < 2048
  /\ \A x : x \in Field13 <=> x \in Nat /\ x < 8192
  /\ \A x : x \in Field14 <=> x \in Nat /\ x < 16384
  /\ Bit11 = 2048 /\ Bit13 = 8192 /\ Bit14 = 16384
  <1>1. \A b \in Nat : \A x : x \in 0 .. b - 1 <=> x \in Nat /\ x < b
    OBVIOUS
  <1>2. Bit11 \in Nat /\ Bit13 \in Nat /\ Bit14 \in Nat
    BY DEF Bit11, Bit13, Bit14
  <1>3. /\ \A x : x \in Field11 <=> x \in Nat /\ x < Bit11
        /\ \A x : x \in Field13 <=> x \in Nat /\ x < Bit13
        /\ \A x : x \in Field14 <=> x \in Nat /\ x < Bit14
    BY <1>1, <1>2 DEF Field11, Field13, Field14
  <1>4. Bit11 = 2048 /\ Bit13 = 8192 /\ Bit14 = 16384
    BY DEF Bit11, Bit13, Bit14
  <1> QED BY <1>3, <1>4

LEMMA DecodeTypes ==
  ASSUME NEW w \in Nat
  PROVE  /\ Method(w) \in Field13
         /\ Subchannel(w) \in 0 .. 7
         /\ Count(w) \in Field11
         /\ Target(w) \in Nat
         /\ OldJumpTarget(w) \in Nat
  <1>1. /\ 2^13 = 8192 /\ 2^18 = 262144 /\ 2^29 = 536870912
    BY SMT
  <1>2. Method(w) \in Field13
    <2>1. w % 8192 \in Nat /\ w % 8192 < 8192
      BY SMT
    <2> QED BY <1>1, <2>1, FieldIs, SMT DEF Method
  <1>3. Count(w) \in Field11
    <2>1. (w \div 262144) % 2048 \in Nat /\ (w \div 262144) % 2048 < 2048
      BY SMT
    <2> QED BY <1>1, <2>1, FieldIs, SMT DEF Count
  <1>4. Subchannel(w) \in 0 .. 7
    BY <1>1, SMT DEF Subchannel
  <1>5. Target(w) \in Nat /\ OldJumpTarget(w) \in Nat
    BY <1>1, SMT DEF Target, Low2, OldJumpTarget
  <1> QED BY <1>2, <1>3, <1>4, <1>5, SMT

\* A GET below the DMA limit is that of a word, as DmaLenAssumption has it.
LEMMA FetchedWord ==
  ASSUME TypeOK, Fetch
  PROVE  Get \div 4 + 1 \in 1 .. Len(Buffer[chid]) /\ Word \in Nat
  <1>1. chid \in Channels /\ Get \in Nat
    BY Zenon DEF TypeOK, Get
  <1>2. Buffer[chid] \in Seq(Nat) /\ DmaLen[chid] \in Nat /\ DmaLen[chid] <= 4 * Len(Buffer[chid])
    BY <1>1, BufferAssumption, DmaLenAssumption, Zenon
  <1>3. Get < DmaLen[chid]
    BY DEF Fetch
  <1>4. Get \div 4 + 1 \in 1 .. Len(Buffer[chid])
    BY <1>1, <1>2, <1>3
  <1> QED BY <1>2, <1>4 DEF Word

\* MethodNeverWraps is inductive with the types, and with the bound on the
\* registers a switched-out channel left behind that the masks of DMA_STATE give.
IInv == TypeOK /\ MethodNeverWraps

\* What a command of n words whose method is m needs of the 14-bit register.
LEMMA RestoredFits ==
  ASSUME NEW m \in Field11, NEW n \in Field11
  PROVE  m * 4 \in Field14 /\ m * 4 + 4 * n < Bit14
  <1>1. m \in Nat /\ m < 2048 /\ n \in Nat /\ n < 2048
    BY FieldIs
  <1>2. m * 4 \in Nat /\ m * 4 < 16384 /\ m * 4 + 4 * n < 16384
    BY ONLY <1>1
  <1> QED BY <1>2, FieldIs

\* The same of a header, whose method field has 13 bits...
LEMMA HeaderFits ==
  ASSUME NEW m \in Field13, NEW n \in Field11
  PROVE  m \in Field14 /\ m + 4 * n < Bit14
  <1>1. m \in Nat /\ m < 8192 /\ n \in Nat /\ n < 2048
    BY FieldIs
  <1>2. m < 16384 /\ m + 4 * n < 16384
    BY ONLY <1>1
  <1> QED BY <1>1, <1>2, FieldIs

\* ...and of the word after one that fits.
LEMMA NextMethod ==
  ASSUME NEW m \in Field14, NEW n \in Field11, n > 0
  PROVE  /\ n - 1 \in Field11
         /\ (m + 4) % Bit14 \in Field14
         /\ m + 4 * n < Bit14 => ((m + 4) % Bit14) + 4 * (n - 1) < Bit14
  <1>1. m \in Nat /\ m < 16384 /\ n \in Nat /\ n < 2048
    BY FieldIs
  <1>2. n - 1 \in Nat /\ n - 1 < 2048
    BY <1>1
  <1>3. (m + 4) % 16384 \in Nat /\ (m + 4) % 16384 < 16384
    BY <1>1
  <1>4. ASSUME m + 4 * n < 16384 PROVE ((m + 4) % 16384) + 4 * (n - 1) < 16384
    <2>1. \A k \in Nat : k < 16384 => k % 16384 = k
      OBVIOUS
    <2>2. m + 4 \in Nat /\ m + 4 < 16384
      BY <1>1, <1>4
    <2> QED BY <1>1, <1>4, <2>1, <2>2
  <1> QED BY <1>2, <1>3, <1>4, FieldIs

LEMMA FieldsAreNat == Field11 \subseteq Nat /\ Field14 \subseteq Nat
  BY FieldIs

LEMMA MaskFits ==
  ASSUME NEW m \in Nat
  PROVE  (m \div 4) % Bit11 \in Field11 /\ m % Bit11 \in Field11
  <1>1. /\ (m \div 4) % 2048 \in Nat /\ (m \div 4) % 2048 < 2048
        /\ m % 2048 \in Nat /\ m % 2048 < 2048
    OBVIOUS
  <1> QED BY <1>1, FieldIs

LEMMA OffsetMask ==
  ASSUME NEW m \in Nat
  PROVE  m % 2^29 \in Nat
  <1>1. 2^29 \in Nat \ {0}
    BY SMT
  <1> QED BY <1>1, SMT

LEMMA SavedType ==
  ASSUME NEW st \in PusherState
  PROVE  SavedRegs(st) \in Regs
  <1>1. /\ st.method \in Field14
        /\ st.method_count \in Field11
        /\ st.subroutine_return \in Nat
    BY Zenon DEF PusherState
  <1>2. (st.method \div 4) % Bit11 \in Field11 /\ st.method_count % Bit11 \in Field11
    <2>1. st.method \in Nat /\ st.method_count \in Nat
      BY <1>1, FieldsAreNat, Zenon
    <2> QED BY <2>1, MaskFits, Zenon
  <1>4. Target(st.subroutine_return) % 2^29 \in Nat
    <2>1. Target(st.subroutine_return) \in Nat
      BY <1>1, DecodeTypes, Zenon
    <2> QED BY <2>1, OffsetMask, Zenon
  <1> QED BY <1>2, <1>4, Zenon DEF SavedRegs, Regs, PusherState

LEMMA RestoredType ==
  ASSUME NEW st \in PusherState, NEW r \in Regs
  PROVE  /\ Restored(st, r) \in PusherState
         /\ Restored(st, r).method + 4 * Restored(st, r).method_count < Bit14
  <1>1. r.method \in Field11 /\ r.method_count \in Field11
    BY Zenon DEF Regs
  <1>2. r.method * 4 \in Field14 /\ r.method * 4 + 4 * r.method_count < Bit14
    BY <1>1, RestoredFits, Zenon
  <1>3. /\ Restored(st, r).method = r.method * 4
        /\ Restored(st, r).method_count = r.method_count
    BY Zenon DEF Restored, PusherState
  <1>4. Restored(st, r) \in PusherState
    BY <1>2, Zenon DEF Restored, PusherState, Regs
  <1> QED BY <1>2, <1>3, <1>4, Zenon

LEMMA InitIInv == Init => IInv
  <1>1. Reset \in PusherState
    <2>1. 0 \in Field11 /\ 0 \in Field14
      BY FieldIs
    <2> QED BY <2>1 DEF Reset, PusherState, Errors, NoError
  <1>2. Reset.method + 4 * Reset.method_count < Bit14
    BY DEF Reset, Bit14
  <1>3. Init => TypeOK
    <2> SUFFICES ASSUME Init PROVE TypeOK
      BY Zenon
    <2>1. emitted \in [Channels -> Seq(CacheEntry)]
      BY DEF Init
    <2>2. saved \in [Channels -> Regs]
      BY <1>1, SavedType, Zenon DEF Init
    <2>3. ctl \in [Channels -> [get : Nat, put : Nat]]
      BY Zenon DEF Init
    <2> QED BY <1>1, <2>1, <2>2, <2>3, ChannelsAssumption, Zenon DEF Init, TypeOK
  <1> QED BY <1>2, <1>3, Zenon DEF Init, IInv, MethodNeverWraps

\* One turn of the loop of pfifo_run_pusher.
LEMMA LoopIInv == IInv /\ Loop => IInv'
  <1> SUFFICES ASSUME IInv, Loop PROVE IInv'
    BY Zenon
  <1>1. /\ chid \in Channels /\ Get \in Nat /\ ctl \in [Channels -> [get : Nat, put : Nat]]
        /\ s \in PusherState /\ s.method \in Field14 /\ s.method_count \in Field11
        /\ s.subroutine_return \in Nat /\ s.subchannel \in 0..7
    BY Zenon DEF IInv, TypeOK, Get, PusherState
  <1>0. Get + 4 \in Nat
    BY <1>1
  <1>2. \A a \in Nat : [ctl EXCEPT ![chid].get = a] \in [Channels -> [get : Nat, put : Nat]]
    BY <1>1, Zenon
  <1>3. Fetch => Word \in Nat
    BY FetchedWord, Zenon DEF IInv
  <1>4. \A e \in Errors : Fail(e) /\ ctl' \in [Channels -> [get : Nat, put : Nat]] => IInv'
    <2> SUFFICES ASSUME NEW e \in Errors, Fail(e), ctl' \in [Channels -> [get : Nat, put : Nat]]
                 PROVE IInv'
      BY Zenon
    <2>1. s' \in PusherState /\ s'.method = s.method /\ s'.method_count = s.method_count
          /\ s'.nonincreasing = s.nonincreasing
      BY <1>1, Zenon DEF Fail, PusherState
    <2> QED BY <2>1, Zenon DEF Fail, IInv, TypeOK, MethodNeverWraps
  <1>5. CASE run_pusher_protection
    BY <1>4, <1>5, Zenon DEF run_pusher_protection, Errors, IInv, TypeOK
  <1>6. CASE run_pusher_data
    <2>1. Word \in Nat /\ s.method_count > 0
      BY <1>3, <1>6, Zenon DEF run_pusher_data
    <2>2. ctl' \in [Channels -> [get : Nat, put : Nat]]
      BY <1>0, <1>2, <1>6, Zenon DEF run_pusher_data, SetGet
    <2> DEFINE e == Entry(s.method, s.subchannel, s.nonincreasing, Word)
               m == IF s.nonincreasing THEN s.method ELSE (s.method + 4) % Bit14
               n == s.method_count - 1
    <2>3. emitted' \in [Channels -> Seq(CacheEntry)]
      <3>1. e \in CacheEntry
        BY <1>1, <2>1, Zenon DEF Entry, CacheEntry, PusherState
      <3>2. emitted' = [emitted EXCEPT ![chid] = Append(@, e)]
        BY <1>6, Zenon DEF run_pusher_data
      <3>3. emitted \in [Channels -> Seq(CacheEntry)]
        BY Zenon DEF IInv, TypeOK
      <3> HIDE DEF e
      <3>4. Append(emitted[chid], e) \in Seq(CacheEntry)
        BY <1>1, <3>1, <3>3
      <3> QED BY <1>1, <3>2, <3>3, <3>4, Zenon
    <2>4. m \in Field14 /\ n \in Field11
      BY <1>1, <2>1, NextMethod, Zenon
    <2>5. ~s.nonincreasing => m + 4 * n < Bit14
      BY <1>1, <2>1, NextMethod, Zenon DEF IInv, MethodNeverWraps
    <2>6. s' = [s EXCEPT !.method = m, !.method_count = n]
      BY <1>6, Zenon DEF run_pusher_data
    <2> HIDE DEF e, m, n
    <2>7. /\ s' \in PusherState
          /\ s'.method = m /\ s'.method_count = n /\ s'.nonincreasing = s.nonincreasing
      BY <1>1, <2>4, <2>6, Zenon DEF PusherState
    <2> QED BY <1>6, <2>2, <2>3, <2>5, <2>7, Zenon DEF run_pusher_data, IInv, TypeOK, MethodNeverWraps
  <1>7. CASE run_pusher_jump
    <2>1. Word \in Nat
      BY <1>3, <1>7, Zenon DEF run_pusher_jump, Header
    <2>2. ctl' \in [Channels -> [get : Nat, put : Nat]]
      <3>1. OldJumpTarget(Word) \in Nat /\ Target(Word) \in Nat
        BY <2>1, DecodeTypes, Zenon
      <3>2. SetGet(OldJumpTarget(Word)) \/ SetGet(Target(Word))
        BY <1>7, Zenon DEF run_pusher_jump
      <3> QED BY <1>2, <3>1, <3>2, Zenon DEF SetGet
    <2> QED BY <1>7, <2>2, Zenon DEF run_pusher_jump, IInv, TypeOK, MethodNeverWraps
  <1>8. CASE run_pusher_call
    <2>1. Word \in Nat
      BY <1>3, <1>8, Zenon DEF run_pusher_call, Header
    <2>2. ctl' \in [Channels -> [get : Nat, put : Nat]]
      <3>1. Target(Word) \in Nat
        BY <2>1, DecodeTypes, Zenon
      <3> QED BY <1>2, <1>8, <3>1, Zenon DEF run_pusher_call, SetGet
    <2>3. /\ s' \in PusherState
          /\ s'.method = s.method /\ s'.method_count = s.method_count
          /\ s'.nonincreasing = s.nonincreasing
      BY <1>0, <1>1, <1>8, Zenon DEF run_pusher_call, PusherState
    <2> QED BY <1>8, <2>2, <2>3, Zenon DEF run_pusher_call, IInv, TypeOK, MethodNeverWraps
  <1>9. CASE run_pusher_return
    <2>1. ctl' \in [Channels -> [get : Nat, put : Nat]]
      BY <1>1, <1>2, <1>9, Zenon DEF run_pusher_return, SetGet
    <2>2. /\ s' \in PusherState
          /\ s'.method = s.method /\ s'.method_count = s.method_count
          /\ s'.nonincreasing = s.nonincreasing
      BY <1>1, <1>9, Zenon DEF run_pusher_return, PusherState
    <2> QED BY <1>9, <2>1, <2>2, Zenon DEF run_pusher_return, IInv, TypeOK, MethodNeverWraps
  <1>10. CASE run_pusher_methods
    <2>1. Word \in Nat
      BY <1>3, <1>10, Zenon DEF run_pusher_methods, Header
    <2>2. ctl' \in [Channels -> [get : Nat, put : Nat]]
      BY <1>0, <1>2, <1>10, Zenon DEF run_pusher_methods, SetGet
    <2>3. Method(Word) \in Field13 /\ Count(Word) \in Field11 /\ Subchannel(Word) \in 0..7
      BY <2>1, DecodeTypes, Zenon
    <2>6. IsNonIncreasing(Word) \in BOOLEAN
      BY Zenon DEF IsNonIncreasing
    <2>4. Method(Word) \in Field14 /\ Method(Word) + 4 * Count(Word) < Bit14
      BY <2>3, HeaderFits, Zenon
    <2>5. /\ s' \in PusherState
          /\ s'.method = Method(Word) /\ s'.method_count = Count(Word)
      BY <1>1, <1>10, <2>3, <2>4, <2>6, Zenon DEF run_pusher_methods, PusherState
    <2> QED BY <1>10, <2>2, <2>4, <2>5, Zenon DEF run_pusher_methods, IInv, TypeOK, MethodNeverWraps
  <1>11. CASE run_pusher_error
    <2>1. ctl' \in [Channels -> [get : Nat, put : Nat]]
      BY <1>0, <1>2, <1>11, Zenon DEF run_pusher_error, SetGet
    <2> QED BY <1>4, <1>11, <2>1, Zenon DEF run_pusher_error, ErrorOf, Errors
  <1>12. CASE run_pusher_end
    BY <1>12, Zenon DEF run_pusher_end, IInv, TypeOK, MethodNeverWraps
  <1> QED BY <1>5, <1>6, <1>7, <1>8, <1>9, <1>10, <1>11, <1>12, Zenon DEF Loop

LEMMA OffsetsAreNat == \A c \in Channels : Offsets(c) \subseteq Nat
  <1> SUFFICES ASSUME NEW c \in Channels, NEW n \in 0 .. Len(Buffer[c]) PROVE 4 * n \in Nat
    BY Zenon DEF Offsets
  <1>1. Buffer[c] \in Seq(Nat)
    BY BufferAssumption, Zenon
  <1>2. Len(Buffer[c]) \in Nat
    BY <1>1
  <1> QED BY <1>2

\* A register write of the guest.
LEMMA GuestIInv == IInv /\ Guest => IInv'
  <1> SUFFICES ASSUME IInv, Guest PROVE IInv'
    BY Zenon
  <1> USE DEF IInv, MethodNeverWraps
  <1>1. /\ chid \in Channels /\ ctl \in [Channels -> [get : Nat, put : Nat]]
        /\ s \in PusherState /\ saved \in [Channels -> Regs]
    BY Zenon DEF TypeOK
  <1>2. \A c \in Channels, a \in Nat :
          /\ [ctl EXCEPT ![c].put = a] \in [Channels -> [get : Nat, put : Nat]]
          /\ [ctl EXCEPT ![c].get = a] \in [Channels -> [get : Nat, put : Nat]]
    BY <1>1, Zenon
  <1>3. ASSUME NEW c \in Channels, NEW put \in Offsets(c), user_write_DMA_PUT(c, put)
        PROVE  IInv'
    <2>1. ctl' \in [Channels -> [get : Nat, put : Nat]]
      BY <1>2, <1>3, OffsetsAreNat, Zenon DEF user_write_DMA_PUT
    <2>2. running' \in BOOLEAN /\ aborted' \in BOOLEAN
      BY <1>3, Zenon DEF user_write_DMA_PUT, RunPusher
    <2> QED BY <1>3, <2>1, <2>2, Zenon DEF user_write_DMA_PUT, TypeOK
  <1>4. ASSUME NEW val \in BOOLEAN, pfifo_write_PUSH0(val)
        PROVE  IInv'
    <2>1. /\ s' \in PusherState
          /\ s'.method = s.method /\ s'.method_count = s.method_count
          /\ s'.nonincreasing = s.nonincreasing
      BY <1>1, <1>4, Zenon DEF pfifo_write_PUSH0, PusherState
    <2> QED BY <1>4, <2>1, Zenon DEF pfifo_write_PUSH0, TypeOK
  <1>5. ASSUME NEW access \in BOOLEAN, NEW status \in BOOLEAN, pfifo_write_DMA_PUSH(access, status)
        PROVE  IInv'
    <2>1. /\ s' \in PusherState
          /\ s'.method = s.method /\ s'.method_count = s.method_count
          /\ s'.nonincreasing = s.nonincreasing
      BY <1>1, <1>5, Zenon DEF pfifo_write_DMA_PUSH, PusherState
    <2>2. running' \in BOOLEAN /\ aborted' \in BOOLEAN
      BY <1>5, Zenon DEF pfifo_write_DMA_PUSH, RunPusher, TypeOK
    <2> QED BY <1>5, <2>1, <2>2, Zenon DEF pfifo_write_DMA_PUSH, TypeOK
  <1>6. ASSUME NEW put \in Offsets(chid), pfifo_write_DMA_PUT(put)
        PROVE  IInv'
    <2>1. ctl' \in [Channels -> [get : Nat, put : Nat]]
      BY <1>1, <1>2, <1>6, OffsetsAreNat, Zenon DEF pfifo_write_DMA_PUT
    <2> QED BY <1>6, <2>1, Zenon DEF pfifo_write_DMA_PUT, TypeOK
  <1>7. ASSUME NEW c \in Channels, SwitchChannel(c)
        PROVE  IInv'
    <2>1. s' = Restored(s, saved[c]) /\ saved[c] \in Regs
      BY <1>1, <1>7, Zenon DEF SwitchChannel
    <2>2. s' \in PusherState /\ s'.method + 4 * s'.method_count < Bit14
      BY <1>1, <2>1, RestoredType, Zenon
    <2>3. SavedRegs(s) \in Regs
      BY <1>1, SavedType, Zenon
    <2>4. saved' \in [Channels -> Regs]
      BY <1>1, <1>7, <2>3, Zenon DEF SwitchChannel
    <2> QED BY <1>7, <2>2, <2>4, Zenon DEF SwitchChannel, TypeOK
  <1>8. ASSUME NEW get \in Offsets(chid), pfifo_write_DMA_GET(get)
        PROVE  IInv'
    <2>1. ctl' \in [Channels -> [get : Nat, put : Nat]]
      BY <1>1, <1>2, <1>8, OffsetsAreNat, Zenon DEF pfifo_write_DMA_GET
    <2> QED BY <1>8, <2>1, Zenon DEF pfifo_write_DMA_GET, TypeOK
  <1>9. ASSUME NEW c \in Channels, pfifo_write_PUSH1(c)
        PROVE  IInv'
    BY <1>9, Zenon DEF pfifo_write_PUSH1, TypeOK
  <1>10. ASSUME NEW r \in RegValues, pfifo_write_DMA_STATE(r)
         PROVE  IInv'
    <2>1. s' = Restored(s, r) /\ r \in Regs
      BY <1>10, RegValuesAssumption, Zenon DEF pfifo_write_DMA_STATE
    <2>2. s' \in PusherState /\ s'.method + 4 * s'.method_count < Bit14
      BY <1>1, <2>1, RestoredType, Zenon
    <2> QED BY <1>10, <2>2, Zenon DEF pfifo_write_DMA_STATE, TypeOK
  <1> QED BY <1>3, <1>4, <1>5, <1>6, <1>7, <1>8, <1>9, <1>10, Zenon DEF Guest, Driver

LEMMA StepIInv == IInv /\ [Next]_vars => IInv'
  <1>1. IInv /\ Halted => IInv'
    BY Zenon DEF Halted, vars, IInv, TypeOK, MethodNeverWraps
  <1>2. IInv /\ UNCHANGED vars => IInv'
    BY Zenon DEF vars, IInv, TypeOK, MethodNeverWraps
  <1> QED BY <1>1, <1>2, LoopIInv, GuestIInv, Zenon DEF Next

LEMMA PusherInvariant == Spec => []IInv
BY InitIInv, StepIInv, PTL DEF Spec

\* The pusher's state keeps its type for every pushbuffer, every DMA limit and
\* every guest: method, subchannel and method_count stay within the fields of
\* the registers that hold them, before and after a switch of channels.
THEOREM PusherTypes == Spec => []TypeOK
  <1>1. IInv => TypeOK
    BY Zenon DEF IInv
  <1> QED BY <1>1, PusherInvariant, PTL

\* The method register never wraps, switching channels or writing DMA_STATE in
\* the middle of a command included.
THEOREM MethodSafe == Spec => []MethodNeverWraps
  <1>1. IInv => MethodNeverWraps
    BY Zenon DEF IInv
  <1> QED BY <1>1, PusherInvariant, PTL
-----------------------------------------------------------------------------
(* Readings.  What Read computes is shown from the least number of commands *)
(* for which it would not hold.                                             *)

LEMMA NatMin == ASSUME NEW T \in SUBSET Nat, T # {} PROVE \E n \in T : \A m \in T : n <= m
  <1> DEFINE R == OpToRel(<, Nat)
  <1>1. IsWellFoundedOn(R, Nat)
    BY NatLessThanWellFounded, Zenon
  <1>2. ASSUME NEW x \in Nat, NEW y \in Nat, y < x PROVE <<y, x>> \in R
    BY <1>2, Zenon DEF OpToRel
  <1> HIDE DEF R
  <1>3. PICK n \in T : \A m \in T : ~(<<m, n>> \in R)
    BY <1>1, WFMin, Zenon
  <1>4. ASSUME NEW m \in T PROVE n <= m
    <2>1. n \in Nat /\ m \in Nat /\ ~(<<m, n>> \in R)
      BY <1>3, Zenon
    <2>2. ~(m < n)
      BY <2>1, <1>2, Zenon
    <2> QED BY <2>1, <2>2
  <1> QED BY <1>4, Zenon

Start == [at |-> 0, ret |-> -1, out |-> <<>>]
Onward(c, m) == IF Over(c, m) THEN m ELSE Obey(c, m)
ReadStep(f, n) == [c \in Channels |-> IF n = 0 THEN Start ELSE Onward(c, f[n - 1][c])]
Reads(f, k) == f = [n \in 0 .. k |-> ReadStep(f, n)]

LEMMA ReadsExist == ASSUME NEW k \in Nat PROVE \E f : Reads(f, k)
  <1> DEFINE T == {n \in Nat : ~\E f : Reads(f, n)}
  <1> SUFFICES ASSUME T # {} PROVE FALSE
    BY Zenon
  <1>1. PICK n \in T : \A m \in T : n <= m
    BY NatMin, Zenon
  <1>2. n \in Nat /\ ~\E f : Reads(f, n)
    BY Zenon
  <1>3. CASE n = 0
    <2> DEFINE f == [m \in 0 .. 0 |-> [c \in Channels |-> Start]]
    <2>1. Reads(f, 0)
      BY DEF Reads, ReadStep
    <2> QED BY <1>2, <1>3, <2>1, Zenon
  <1>4. CASE n # 0
    <2>1. n - 1 \in Nat /\ n - 1 \notin T
      BY <1>1, <1>2, <1>4
    <2>2. PICK f : Reads(f, n - 1)
      BY <2>1, Zenon
    <2> DEFINE g == [m \in 0 .. n |-> IF m = n THEN ReadStep(f, n) ELSE f[m]]
    <2>3. ASSUME NEW m \in 0 .. n PROVE g[m] = ReadStep(g, m)
      <3>1. m = 0 \/ (m # 0 /\ m - 1 \in 0 .. n /\ m - 1 # n /\ m - 1 \in 0 .. n - 1)
        BY <1>2, <1>4
      <3>2. m # 0 => g[m - 1] = f[m - 1]
        BY <3>1, Zenon
      <3>3. ReadStep(g, m) = ReadStep(f, m)
        <4>1. PICK q : q = g
          BY Zenon
        <4>2. m = 0 \/ q[m - 1] = f[m - 1]
          BY <3>2, <4>1, Zenon
        <4>3. ReadStep(q, m) = ReadStep(f, m)
          BY ONLY <4>2, Zenon DEF ReadStep
        <4> QED BY <4>1, <4>3, Zenon
      <3>4. m # n => m \in 0 .. n - 1
        BY <1>2, <1>4
      <3>5. m # n => f[m] = ReadStep(f, m)
        BY <2>2, <3>4, Zenon DEF Reads
      <3> QED BY <3>3, <3>5, Zenon
    <2>4. Reads(g, n)
      BY <2>3, Zenon DEF Reads
    <2> QED BY <1>2, <2>4, Zenon
  <1> QED BY <1>3, <1>4, Zenon

LEMMA ReadsAgree ==
  ASSUME NEW j \in Nat, NEW k \in Nat, NEW f, NEW g, Reads(f, j), Reads(g, k),
         NEW n \in Nat, n <= j, n <= k
  PROVE  f[n] = g[n]
  <1> DEFINE T == {m \in 0 .. n : f[m] # g[m]}
  <1> SUFFICES ASSUME T # {} PROVE FALSE
    OBVIOUS
  <1>0. T \in SUBSET Nat
    OBVIOUS
  <1>1. PICK m \in T : \A x \in T : m <= x
    BY <1>0, NatMin, Zenon
  <1>2. m \in 0 .. n /\ m \in 0 .. j /\ m \in 0 .. k /\ f[m] # g[m]
    OBVIOUS
  <1>3. f[m] = ReadStep(f, m) /\ g[m] = ReadStep(g, m)
    BY <1>2, Zenon DEF Reads
  <1>4. m = 0 \/ f[m - 1] = g[m - 1]
    <2>1. m # 0 => m - 1 \in 0 .. n /\ m - 1 < m
      BY <1>2
    <2> QED BY <1>1, <1>2, <2>1
  <1>5. ReadStep(f, m) = ReadStep(g, m)
    BY ONLY <1>4, Zenon DEF ReadStep
  <1> QED BY <1>2, <1>3, <1>5, Zenon

LEMMA ReadIs ==
  /\ \A c \in Channels : Read[0][c] = Start
  /\ \A n \in Nat, c \in Channels : Read[n + 1][c] = Onward(c, Read[n][c])
  <1> DEFINE F(n) == CHOOSE f : Reads(f, n)
             g == [n \in Nat |-> F(n)[n]]
  <1>1. \A n \in Nat : Reads(F(n), n)
    BY ReadsExist, Zenon
  <1> HIDE DEF F
  <1>2. ASSUME NEW n \in Nat PROVE g[n] = ReadStep(g, n)
    <2>1. F(n)[n] = ReadStep(F(n), n)
      BY <1>1 DEF Reads
    <2>2. n = 0 \/ F(n)[n - 1] = g[n - 1]
      <3>1. CASE n # 0
        <4>1. n - 1 \in Nat /\ n - 1 <= n /\ n - 1 <= n - 1
          BY <3>1
        <4>2. Reads(F(n), n) /\ Reads(F(n - 1), n - 1)
          BY <1>1, <4>1, Zenon
        <4>3. F(n)[n - 1] = F(n - 1)[n - 1]
          BY <4>1, <4>2, ReadsAgree
        <4> QED BY <4>1, <4>3, Zenon
      <3> QED BY <3>1, Zenon
    <2>3. PICK p, q : p = F(n) /\ q = g
      BY Zenon
    <2>4. ReadStep(p, n) = ReadStep(q, n)
      <3>1. n = 0 \/ p[n - 1] = q[n - 1]
        BY <2>2, <2>3, Zenon
      <3> QED BY ONLY <3>1, Zenon DEF ReadStep
    <2>5. g[n] = F(n)[n]
      BY Zenon
    <2> QED BY <2>1, <2>3, <2>4, <2>5, Zenon
  <1>3. g = [n \in Nat |-> ReadStep(g, n)]
    BY <1>2, Zenon
  <1>4. \E f : f = [n \in Nat |-> ReadStep(f, n)]
    BY <1>3, Zenon
  <1>5. Read = [n \in Nat |-> ReadStep(Read, n)]
    <2>1. Read = CHOOSE f : f = [n \in Nat |-> ReadStep(f, n)]
      BY Zenon DEF Read, ReadStep, Onward, Start
    <2> QED BY <1>4, <2>1, Zenon
  <1>6. \A n \in Nat : Read[n] = ReadStep(Read, n)
    BY <1>5, Zenon
  <1>7. \A n \in Nat : n + 1 \in Nat /\ n + 1 # 0 /\ (n + 1) - 1 = n
    OBVIOUS
  <1>8. ASSUME NEW n \in Nat, NEW c \in Channels PROVE Read[n + 1][c] = Onward(c, Read[n][c])
    <2>1. PICK k \in Nat : k = n + 1 /\ k # 0 /\ k - 1 = n
      BY <1>7, Zenon
    <2>2. Read[k] = ReadStep(Read, k)
      BY <1>6, Zenon
    <2>3. Read[k][c] = Onward(c, Read[k - 1][c])
      BY <2>1, <2>2, Zenon DEF ReadStep
    <2> QED BY <2>1, <2>3, Zenon
  <1> QED BY <1>6, <1>8, Zenon DEF ReadStep

\* The forms of a header word are disjoint.
LEMMA Forms ==
  ASSUME NEW w \in Nat
  PROVE  /\ IsJump(w) => ~IsOldJump(w) /\ ~IsCall(w) /\ ~IsReturn(w)
                         /\ ~IsIncreasing(w) /\ ~IsNonIncreasing(w)
         /\ IsOldJump(w) => ~IsCall(w) /\ ~IsReturn(w) /\ ~IsIncreasing(w) /\ ~IsNonIncreasing(w)
         /\ IsCall(w) => ~IsReturn(w) /\ ~IsIncreasing(w) /\ ~IsNonIncreasing(w)
         /\ IsReturn(w) => ~IsIncreasing(w) /\ ~IsNonIncreasing(w)
         /\ IsIncreasing(w) => ~IsNonIncreasing(w)
  <1>1. IsReturn(w) => Low2(w) = 0 /\ Type(w) = 0 /\ Bits16_17(w) = 2
    <2>1. 2^17 = 131072 /\ 2^16 = 65536 /\ 2^29 = 536870912
      BY SMT
    <2> QED BY <2>1, SMT DEF IsReturn, Low2, Type, Bits16_17
  <1> QED BY <1>1, SMT DEF IsJump, IsOldJump, IsCall, IsIncreasing, IsNonIncreasing

\* The word offsets of the jumps, and the method of a command
LEMMA Offsets4 ==
  ASSUME NEW w \in Nat
  PROVE  /\ w \div 4 \in Nat /\ 4 * (w \div 4) = Target(w)
         /\ OldJumpTarget(w) \div 4 \in Nat
         /\ IsOldJump(w) => 4 * (OldJumpTarget(w) \div 4) = OldJumpTarget(w)
         /\ IsIncreasing(w) \/ IsNonIncreasing(w) => 4 * (Method(w) \div 4) = Method(w)
  <1>1. w \div 4 \in Nat /\ 4 * (w \div 4) = w - (w % 4)
    BY SMT
  <1>2. ASSUME w % 4 = 0 PROVE (w % 536870912) % 4 = 0 /\ (w % 8192) % 4 = 0
    <2>1. PICK a \in Nat : w = 4 * a
      BY <1>1, <1>2, SMT
    <2>2. PICK p \in Nat, q \in Nat : w % 536870912 = w - 536870912 * p /\ w % 8192 = w - 8192 * q
      <3>1. w \div 536870912 \in Nat /\ w \div 8192 \in Nat
        BY SMT
      <3>2. w % 536870912 = w - 536870912 * (w \div 536870912) /\ w % 8192 = w - 8192 * (w \div 8192)
        BY SMT
      <3> QED BY <3>1, <3>2, SMT
    <2>3. w % 536870912 = 4 * (a - 134217728 * p) /\ w % 8192 = 4 * (a - 2048 * q)
      BY <2>1, <2>2, SMT
    <2>4. \A x \in Int : (4 * x) % 4 = 0
      BY SMT
    <2> QED BY <2>3, <2>4, SMT
  <1>3. w % 536870912 \in Nat /\ w % 8192 \in Nat
    BY SMT
  <1>4. 2^29 = 536870912 /\ 2^13 = 8192
    BY SMT
  <1>5. \A x \in Nat : x \div 4 \in Nat /\ (x % 4 = 0 => 4 * (x \div 4) = x)
    BY SMT
  <1> QED BY <1>1, <1>2, <1>3, <1>4, <1>5, SMT
      DEF Target, OldJumpTarget, Low2, Method, IsOldJump, IsIncreasing, IsNonIncreasing

Reading == [at : Int, ret : Int, out : Seq(CacheEntry)]

LEMMA HeaderWord ==
  ASSUME NEW c \in Channels, NEW m \in Reading, ~Over(c, m)
  PROVE  /\ Len(Buffer[c]) \in Nat /\ Buffer[c] \in Seq(Nat)
         /\ m.at \in 0 .. Len(Buffer[c]) - 1 /\ m.at + 1 \in 1 .. Len(Buffer[c])
         /\ Buffer[c][m.at + 1] \in Nat
  <1>1. Buffer[c] \in Seq(Nat)
    BY BufferAssumption, Zenon
  <1>2. Len(Buffer[c]) \in Nat /\ \A i \in 1 .. Len(Buffer[c]) : Buffer[c][i] \in Nat
    BY <1>1
  <1>3. m.at \in 0 .. Len(Buffer[c]) - 1
    BY Zenon DEF Over
  <1> QED BY <1>1, <1>2, <1>3

Size(c, i) ==
  IF i + Count(Buffer[c][i]) <= Len(Buffer[c]) THEN Count(Buffer[c][i]) ELSE Len(Buffer[c]) - i
EntryAt(c, i, k) ==
  LET w == Buffer[c][i] IN
  Entry(IF IsNonIncreasing(w) THEN Method(w) ELSE Method(w) + 4 * (k - 1),
        Subchannel(w), IsNonIncreasing(w), Buffer[c][i + k])

LEMMA EntriesAre ==
  ASSUME NEW c \in Channels, NEW i \in Nat, i \in 1 .. Len(Buffer[c])
  PROVE  /\ Size(c, i) \in Nat /\ Size(c, i) <= Count(Buffer[c][i])
         /\ Size(c, i) <= Len(Buffer[c]) - i
         /\ Entries(c, i) = [k \in 1 .. Size(c, i) |-> EntryAt(c, i, k)]
         /\ Entries(c, i) \in Seq(CacheEntry)
         /\ Len(Entries(c, i)) = Size(c, i)
  <1>1. Buffer[c] \in Seq(Nat) /\ Len(Buffer[c]) \in Nat
    <2>1. Buffer[c] \in Seq(Nat)
      BY BufferAssumption, Zenon
    <2> QED BY <2>1
  <1>2. \A j \in 1 .. Len(Buffer[c]) : Buffer[c][j] \in Nat
    BY <1>1
  <1>3. PICK w \in Nat : w = Buffer[c][i]
    BY <1>2, Zenon
  <1>4. Method(w) \in Field13 /\ Subchannel(w) \in 0 .. 7 /\ Count(w) \in Field11
    BY DecodeTypes, Zenon
  <1>5. Size(c, i) \in Nat /\ Size(c, i) <= Count(w) /\ Size(c, i) <= Len(Buffer[c]) - i
    <2>0. Count(w) \in Nat
      BY <1>4, FieldsAreNat, Zenon
    <2>1. PICK n \in Nat, k \in Nat : n = Len(Buffer[c]) /\ k = Count(w) /\ i \in 1 .. n
      BY <1>1, <2>0, Zenon
    <2>2. Size(c, i) = IF i + k <= n THEN k ELSE n - i
      BY <1>3, <2>1, Zenon DEF Size
    <2> QED BY <2>1, <2>2
  <1>6. ASSUME NEW k \in Nat, 1 <= k, k <= Size(c, i) PROVE EntryAt(c, i, k) \in CacheEntry
    <2>1. i + k \in 1 .. Len(Buffer[c])
      BY <1>1, <1>5, <1>6
    <2>2. Buffer[c][i + k] \in Nat
      BY <1>2, <2>1
    <2>3. /\ Count(w) \in Nat /\ Count(w) < 2048
          /\ Method(w) \in Nat /\ Method(w) < 8192
      BY <1>4, FieldIs
    <2>6. /\ Method(w) < 16384
          /\ Method(w) + 4 * (k - 1) \in Nat /\ Method(w) + 4 * (k - 1) < 16384
      BY <1>5, <1>6, <2>3
    <2>4. Method(w) \in Field14 /\ Method(w) + 4 * (k - 1) \in Field14
      BY <2>3, <2>6, FieldIs
    <2>5. IsNonIncreasing(w) \in BOOLEAN
      BY Zenon DEF IsNonIncreasing
    <2> QED BY <1>3, <1>4, <2>2, <2>4, <2>5, Zenon DEF EntryAt, Entry, CacheEntry
  <1>7. Entries(c, i) = [k \in 1 .. Size(c, i) |-> EntryAt(c, i, k)]
    BY Zenon DEF Entries, Size, EntryAt
  <1>8. Entries(c, i) \in [1 .. Size(c, i) -> CacheEntry]
    BY <1>6, <1>7
  <1>9. Entries(c, i) \in Seq(CacheEntry) /\ Len(Entries(c, i)) = Size(c, i)
    <2>1. PICK n \in Nat : n = Size(c, i)
      BY <1>5, Zenon
    <2>2. PICK q : q = Entries(c, i)
      BY Zenon
    <2>3. q \in [1 .. n -> CacheEntry] /\ DOMAIN q = 1 .. n
      BY <1>8, <2>1, <2>2, Zenon
    <2>4. q \in Seq(CacheEntry) /\ Len(q) = n
      BY ONLY <2>3, n \in Nat
    <2> QED BY <2>1, <2>2, <2>4, Zenon
  <1> QED BY <1>3, <1>5, <1>7, <1>9, Zenon

\* Obey, form by form
ObeyForms(c, m, w) ==
  /\ IsJump(w) => Obey(c, m) = [m EXCEPT !.at = w \div 4]
  /\ IsOldJump(w) => Obey(c, m) = [m EXCEPT !.at = OldJumpTarget(w) \div 4]
  /\ IsCall(w) => Obey(c, m) = IF m.ret = -1 THEN [m EXCEPT !.at = w \div 4, !.ret = m.at + 1]
                                             ELSE [m EXCEPT !.at = -1]
  /\ IsReturn(w) => Obey(c, m) = [m EXCEPT !.at = m.ret, !.ret = -1]
  /\ IsIncreasing(w) \/ IsNonIncreasing(w) =>
       Obey(c, m) = [m EXCEPT !.at = m.at + 1 + Count(w), !.out = m.out \o Entries(c, m.at + 1)]
  /\ ~IsJump(w) /\ ~IsOldJump(w) /\ ~IsCall(w) /\ ~IsReturn(w) /\ ~IsIncreasing(w)
     /\ ~IsNonIncreasing(w) => Obey(c, m) = [m EXCEPT !.at = -1]

LEMMA ObeyIs ==
  ASSUME NEW c \in Channels, NEW m \in Reading, NEW w \in Nat, w = Buffer[c][m.at + 1]
  PROVE  ObeyForms(c, m, w)
  <1>1. Obey(c, m) =
          CASE IsJump(w) -> [m EXCEPT !.at = w \div 4]
            [] IsOldJump(w) -> [m EXCEPT !.at = OldJumpTarget(w) \div 4]
            [] IsCall(w) /\ m.ret = -1 -> [m EXCEPT !.at = w \div 4, !.ret = m.at + 1]
            [] IsReturn(w) -> [m EXCEPT !.at = m.ret, !.ret = -1]
            [] IsIncreasing(w) \/ IsNonIncreasing(w) ->
                 [m EXCEPT !.at = m.at + 1 + Count(w), !.out = m.out \o Entries(c, m.at + 1)]
            [] OTHER -> [m EXCEPT !.at = -1]
    BY Zenon DEF Obey
  <1>2. /\ IsJump(w) => ~IsOldJump(w) /\ ~IsCall(w) /\ ~IsReturn(w)
                        /\ ~IsIncreasing(w) /\ ~IsNonIncreasing(w)
        /\ IsOldJump(w) => ~IsCall(w) /\ ~IsReturn(w) /\ ~IsIncreasing(w) /\ ~IsNonIncreasing(w)
        /\ IsCall(w) => ~IsReturn(w) /\ ~IsIncreasing(w) /\ ~IsNonIncreasing(w)
        /\ IsReturn(w) => ~IsIncreasing(w) /\ ~IsNonIncreasing(w)
    BY Forms, Zenon
  <1> QED BY ONLY <1>1, <1>2, Zenon DEF ObeyForms

LEMMA ObeyType ==
  ASSUME NEW c \in Channels, NEW m \in Reading, ~Over(c, m)
  PROVE  Obey(c, m) \in Reading
  <1>1. PICK w \in Nat : w = Buffer[c][m.at + 1]
    BY HeaderWord, Zenon
  <1>2. m.at \in Int /\ m.ret \in Int /\ m.out \in Seq(CacheEntry)
    BY Zenon DEF Reading
  <1>3. w \div 4 \in Int /\ OldJumpTarget(w) \div 4 \in Int /\ m.at + 1 \in Int /\ -1 \in Int
    <2>1. w \div 4 \in Nat /\ OldJumpTarget(w) \div 4 \in Nat
      BY Offsets4, Zenon
    <2> QED BY <1>2, <2>1
  <1>4. m.at + 1 + Count(w) \in Int
    <2>1. Count(w) \in Nat
      BY DecodeTypes, FieldsAreNat, Zenon
    <2> QED BY <1>2, <2>1
  <1>5. m.out \o Entries(c, m.at + 1) \in Seq(CacheEntry)
    <2>1. m.at + 1 \in Nat /\ m.at + 1 \in 1 .. Len(Buffer[c])
      BY HeaderWord
    <2>2. Entries(c, m.at + 1) \in Seq(CacheEntry)
      BY <2>1, EntriesAre, Zenon
    <2> QED BY <1>2, <2>2, ConcatProperties, Zenon
  <1>6. \/ Obey(c, m) = [m EXCEPT !.at = w \div 4]
        \/ Obey(c, m) = [m EXCEPT !.at = OldJumpTarget(w) \div 4]
        \/ Obey(c, m) = [m EXCEPT !.at = w \div 4, !.ret = m.at + 1]
        \/ Obey(c, m) = [m EXCEPT !.at = m.ret, !.ret = -1]
        \/ Obey(c, m) = [m EXCEPT !.at = m.at + 1 + Count(w), !.out = m.out \o Entries(c, m.at + 1)]
        \/ Obey(c, m) = [m EXCEPT !.at = -1]
    <2>1. ObeyForms(c, m, w)
      BY <1>1, ObeyIs, Zenon
    <2> QED BY ONLY <2>1, Zenon DEF ObeyForms
  <1> QED BY ONLY <1>2, <1>3, <1>4, <1>5, <1>6, m \in Reading, Zenon DEF Reading

LEMMA ReadTypes == \A n \in Nat, c \in Channels : Read[n][c] \in Reading
  <1> DEFINE T == {n \in Nat : \E c \in Channels : Read[n][c] \notin Reading}
  <1> SUFFICES ASSUME T # {} PROVE FALSE
    BY Zenon
  <1>1. PICK n \in T : \A x \in T : n <= x
    BY NatMin, Zenon
  <1>2. n \in Nat
    BY Zenon
  <1>3. PICK c \in Channels : Read[n][c] \notin Reading
    BY <1>1, Zenon
  <1>4. CASE n = 0
    <2>1. Start \in Reading
      <3>1. <<>> \in Seq(CacheEntry)
        OBVIOUS
      <3> QED BY <3>1 DEF Start, Reading
    <2> QED BY <1>3, <1>4, <2>1, ReadIs, Zenon
  <1>5. CASE n # 0
    <2>1. PICK k \in Nat : n = k + 1
      <3>1. n - 1 \in Nat /\ n = (n - 1) + 1
        BY <1>2, <1>5
      <3> QED BY <3>1, Zenon
    <2>2. k \notin T
      BY <1>1, <2>1
    <2>3. Read[k][c] \in Reading
      BY <2>2, Zenon
    <2>4. Onward(c, Read[k][c]) \in Reading
      BY <2>3, ObeyType, Zenon DEF Onward
    <2>5. Read[k + 1][c] = Onward(c, Read[k][c])
      BY ReadIs, Zenon
    <2> QED BY <1>3, <2>1, <2>4, <2>5, Zenon
  <1> QED BY <1>4, <1>5, Zenon
-----------------------------------------------------------------------------
(* Where a channel is in its pushbuffer, as its registers st, its GET g and *)
(* the entries o it has in the cache tell: between two commands of the      *)
(* reading, k words into a command, or at a word that ended the program.    *)

Returns(st, m) ==
  /\ st.subroutine_active <=> m.ret # -1
  /\ m.ret # -1 => m.ret \in Nat /\ m.ret < 2^27 /\ st.subroutine_return = 4 * m.ret

Aligned(st, g, o, m) == st.method_count = 0 /\ g = 4 * m.at /\ o = m.out /\ Returns(st, m)

Midway(c, st, g, o, m, k) ==
  LET i == m.at + 1
      w == Buffer[c][i]
  IN /\ ~Over(c, m)
     /\ IsIncreasing(w) \/ IsNonIncreasing(w)
     /\ k < Count(w) /\ i + k <= Len(Buffer[c])
     /\ g = 4 * (i + k)
     /\ o = m.out \o SubSeq(Entries(c, i), 1, k)
     /\ st.method_count = Count(w) - k
     /\ st.subchannel = Subchannel(w) /\ st.nonincreasing = IsNonIncreasing(w)
     /\ st.method = IF IsNonIncreasing(w) THEN Method(w) ELSE Method(w) + 4 * k
     /\ Returns(st, m)

Position(c, st, g, o, ab) ==
  \E n \in Nat :
    \/ Aligned(st, g, o, Read[n][c])
    \/ \E k \in Nat : Midway(c, st, g, o, Read[n][c], k)
    \/ ab /\ o = Read[n][c].out /\ Over(c, Read[n][c])

\* CommandsFit, when Commands are all
CommandsFitAll ==
  \A n \in Nat, c \in Channels : \A m, w :
    m = Read[n][c] /\ ~Over(c, m) /\ w = Buffer[c][m.at + 1] /\ IsIncreasing(w)
    => Method(w) + 4 * Count(w) <= 8192

\* The registers of a channel that is not current are those saved for it.
Live(c) == IF c = chid THEN s ELSE Restored(s, saved[c])

Decoding == \A c \in Channels : Position(c, Live(c), ctl[c].get, emitted[c], aborted)

Alike(a, b) ==
  /\ a.method_count = b.method_count /\ a.method = b.method
  /\ a.subchannel = b.subchannel /\ a.nonincreasing = b.nonincreasing
  /\ a.subroutine_active = b.subroutine_active /\ a.subroutine_return = b.subroutine_return

LEMMA AlikePosition ==
  ASSUME NEW c \in Channels, NEW a, NEW b, Alike(a, b), NEW g, NEW o,
         NEW ab \in BOOLEAN, NEW ac \in BOOLEAN, ab => ac, Position(c, a, g, o, ab)
  PROVE  Position(c, b, g, o, ac)
  <1>1. \A m : Returns(a, m) => Returns(b, m)
    BY Zenon DEF Alike, Returns
  <1>2. \A m : Aligned(a, g, o, m) => Aligned(b, g, o, m)
    BY <1>1, Zenon DEF Alike, Aligned
  <1>3. \A m, k : Midway(c, a, g, o, m, k) => Midway(c, b, g, o, m, k)
    BY <1>1 DEF Alike, Midway
  <1> QED BY <1>2, <1>3, Zenon DEF Position

\* The next step of a reading that is not over
LEMMA ReadNext ==
  ASSUME NEW n \in Nat, NEW c \in Channels, NEW m, m = Read[n][c], ~Over(c, m)
  PROVE  m \in Reading /\ Read[n + 1][c] = Obey(c, m) /\ n + 1 \in Nat
  BY ReadIs, ReadTypes DEF Onward

\* The pusher fetches the first word of a command.
AtHeader(c, st, g, o, n, m, w) ==
  /\ m \in Reading /\ m = Read[n][c] /\ ~Over(c, m)
  /\ g = 4 * m.at /\ o = m.out /\ Returns(st, m)
  /\ w \in Nat /\ w = Buffer[c][m.at + 1] /\ w = Buffer[c][g \div 4 + 1]
  /\ n + 1 \in Nat /\ Read[n + 1][c] = Obey(c, m) /\ ObeyForms(c, m, w)

LEMMA HeaderPosition ==
  ASSUME NEW c \in Channels, NEW st, NEW g \in Nat, NEW o,
         Position(c, st, g, o, FALSE), st.method_count = 0, g < DmaLen[c]
  PROVE  \E n \in Nat : AtHeader(c, st, g, o, n, Read[n][c], Buffer[c][g \div 4 + 1])
  <1>1. PICK n \in Nat : \/ Aligned(st, g, o, Read[n][c])
                         \/ \E k \in Nat : Midway(c, st, g, o, Read[n][c], k)
    BY Zenon DEF Position
  <1>2. PICK m \in Reading : m = Read[n][c]
    BY ReadTypes, Zenon
  <1>3. Aligned(st, g, o, m)
    <2>1. ASSUME NEW k \in Nat, Midway(c, st, g, o, m, k) PROVE FALSE
      <3>1. PICK w \in Nat : w = Buffer[c][m.at + 1]
        BY <1>2, <2>1, HeaderWord, ZenonT(30) DEF Midway
      <3>2. k < Count(w) /\ Count(w) - k = 0
        BY <2>1, <3>1, Zenon DEF Midway
      <3>3. Count(w) \in Nat
        BY DecodeTypes, FieldsAreNat, Zenon
      <3> QED BY <3>2, <3>3
    <2> QED BY <1>1, <1>2, <2>1, Zenon
  <1>4. g = 4 * m.at /\ o = m.out /\ Returns(st, m) /\ m.at \in Int
    BY <1>3, Zenon DEF Aligned, Reading
  <1>5. Len(Buffer[c]) \in Nat /\ DmaLen[c] \in Nat /\ DmaLen[c] <= 4 * Len(Buffer[c])
    <2>1. Buffer[c] \in Seq(Nat)
      BY BufferAssumption, Zenon
    <2> QED BY <2>1, DmaLenAssumption
  <1>6. m.at \in 0 .. Len(Buffer[c]) - 1 /\ g \div 4 = m.at
    BY <1>4, <1>5, SMTT(30)
  <1>7. ~Over(c, m)
    BY <1>6, Zenon DEF Over
  <1>8. PICK w \in Nat : w = Buffer[c][m.at + 1]
    BY <1>7, HeaderWord, Zenon
  <1>9. ObeyForms(c, m, w)
    BY <1>8, ObeyIs, Zenon
  <1>10. n + 1 \in Nat /\ Read[n + 1][c] = Obey(c, m)
    BY <1>2, <1>7, ReadNext, Zenon
  <1>11. AtHeader(c, st, g, o, n, m, w)
    BY <1>2, <1>4, <1>6, <1>7, <1>8, <1>9, <1>10, Zenon DEF AtHeader
  <1> QED BY <1>2, <1>6, <1>8, <1>11, Zenon

\* Between two commands after command n + 1
LEMMA NextAligned ==
  ASSUME NEW c \in Channels, NEW st, NEW g, NEW o, NEW n \in Nat, n + 1 \in Nat,
         Aligned(st, g, o, Read[n + 1][c])
  PROVE  Position(c, st, g, o, FALSE)
  BY Zenon DEF Position

LEMMA JumpPosition ==
  ASSUME NEW c \in Channels, NEW st, NEW g, NEW o, NEW n \in Nat, NEW m, NEW w,
         AtHeader(c, st, g, o, n, m, w), st.method_count = 0, NEW h,
         (IsJump(w) /\ h = Target(w)) \/ (IsOldJump(w) /\ h = OldJumpTarget(w))
  PROVE  Position(c, st, h, o, FALSE)
  <1>1. w \in Nat /\ m \in Reading /\ ObeyForms(c, m, w) /\ Read[n + 1][c] = Obey(c, m)
    BY Zenon DEF AtHeader
  <1>2. PICK j : /\ 4 * j = h
                 /\ (IsJump(w) /\ j = w \div 4) \/ (IsOldJump(w) /\ j = OldJumpTarget(w) \div 4)
    <2>1. 4 * (w \div 4) = Target(w) /\ (IsOldJump(w) => 4 * (OldJumpTarget(w) \div 4) = OldJumpTarget(w))
      BY <1>1, Offsets4, Zenon
    <2> QED BY <2>1, Zenon
  <1>3. Read[n + 1][c] = [m EXCEPT !.at = j]
    BY <1>1, <1>2, Zenon DEF ObeyForms
  <1>4. Aligned(st, h, o, [m EXCEPT !.at = j])
    BY <1>1, <1>2, Zenon DEF AtHeader, Aligned, Returns, Reading
  <1> QED BY <1>3, <1>4, NextAligned, Zenon DEF AtHeader

LEMMA CallPosition ==
  ASSUME NEW c \in Channels, NEW st, NEW g \in Nat, NEW o, NEW n \in Nat, NEW m, NEW w,
         AtHeader(c, st, g, o, n, m, w), IsCall(w), ~st.subroutine_active, g < DmaLen[c],
         NEW su, su.method_count = 0, su.subroutine_active = TRUE, su.subroutine_return = g + 4
  PROVE  Position(c, su, Target(w), o, FALSE)
  <1>1. w \in Nat /\ m \in Reading /\ ObeyForms(c, m, w) /\ Read[n + 1][c] = Obey(c, m)
    BY Zenon DEF AtHeader
  <1>2. m.ret = -1 /\ g = 4 * m.at /\ o = m.out /\ m.at \in Int
    BY ZenonT(30) DEF AtHeader, Returns, Reading
  <1>3. 4 * (w \div 4) = Target(w)
    BY <1>1, Offsets4, Zenon
  <1>4. Read[n + 1][c] = [m EXCEPT !.at = w \div 4, !.ret = m.at + 1]
    BY <1>1, <1>2, SMT DEF ObeyForms
  <1>5. m.at + 1 \in Nat /\ m.at + 1 < 2^27 /\ m.at + 1 # -1 /\ g + 4 = 4 * (m.at + 1)
    <2>1. DmaLen[c] \in Nat /\ DmaLen[c] + 4 <= 2^29
      BY BuffersFit, DmaLenAssumption, SMT
    <2>2. 2^29 = 536870912 /\ 2^27 = 134217728
      BY SMT
    <2> QED BY <1>2, <2>1, <2>2, SMT
  <1>6. PICK r : r = [m EXCEPT !.at = w \div 4, !.ret = m.at + 1]
    BY Zenon
  <1>7. r.at = w \div 4 /\ r.ret = m.at + 1 /\ r.out = m.out
    BY <1>1, <1>6, Zenon DEF Reading
  <1>8. Returns(su, r)
    BY <1>5, <1>7, Zenon DEF Returns
  <1>9. Aligned(su, Target(w), o, r)
    BY <1>2, <1>3, <1>7, <1>8, Zenon DEF Aligned
  <1> QED BY <1>4, <1>6, <1>9, NextAligned, Zenon DEF AtHeader

LEMMA ReturnPosition ==
  ASSUME NEW c \in Channels, NEW st, NEW g, NEW o, NEW n \in Nat, NEW m, NEW w,
         AtHeader(c, st, g, o, n, m, w), IsReturn(w), st.subroutine_active,
         NEW su, su.method_count = 0, su.subroutine_active = FALSE
  PROVE  Position(c, su, st.subroutine_return, o, FALSE)
  <1>1. w \in Nat /\ m \in Reading /\ ObeyForms(c, m, w) /\ Read[n + 1][c] = Obey(c, m)
    BY Zenon DEF AtHeader
  <1>2. st.subroutine_return = 4 * m.ret /\ o = m.out
    BY Zenon DEF AtHeader, Returns
  <1>3. PICK r : r = [m EXCEPT !.at = m.ret, !.ret = -1]
    BY Zenon
  <1>4. Read[n + 1][c] = r
    BY <1>1, <1>3, Zenon DEF ObeyForms
  <1>5. r.at = m.ret /\ r.ret = -1 /\ r.out = m.out
    BY <1>1, <1>3, Zenon DEF Reading
  <1>6. Aligned(su, st.subroutine_return, o, r)
    BY <1>2, <1>5, Zenon DEF Aligned, Returns
  <1> QED BY <1>4, <1>6, NextAligned, Zenon DEF AtHeader

LEMMA ErrorPosition ==
  ASSUME NEW c \in Channels, NEW st, NEW g, NEW o, NEW n \in Nat, NEW m, NEW w,
         AtHeader(c, st, g, o, n, m, w), ~IsJump(w), ~IsOldJump(w),
         IsCall(w) => st.subroutine_active, IsReturn(w) => ~st.subroutine_active,
         ~IsIncreasing(w), ~IsNonIncreasing(w), NEW su, NEW h
  PROVE  Position(c, su, h, o, TRUE)
  <1>1. w \in Nat /\ m \in Reading /\ ObeyForms(c, m, w) /\ Read[n + 1][c] = Obey(c, m)
    BY Zenon DEF AtHeader
  <1>2. (IsCall(w) => m.ret # -1) /\ (IsReturn(w) => m.ret = -1)
    BY ZenonT(30) DEF AtHeader, Returns
  <1>4. Obey(c, m).at = -1 /\ Obey(c, m).out = m.out
    <2>1. CASE IsReturn(w)
      <3>1. Obey(c, m) = [m EXCEPT !.at = m.ret, !.ret = -1]
        BY <1>1, <2>1, Zenon DEF ObeyForms
      <3> QED BY <1>1, <1>2, <2>1, <3>1, Zenon DEF Reading
    <2>2. CASE ~IsReturn(w)
      <3>1. Obey(c, m) = [m EXCEPT !.at = -1]
        BY <1>1, <1>2, <2>2, Zenon DEF ObeyForms
      <3> QED BY <1>1, <3>1, Zenon DEF Reading
    <2> QED BY <2>1, <2>2, Zenon
  <1>5. Over(c, Read[n + 1][c])
    <2>1. -1 \notin 0 .. Len(Buffer[c]) - 1
      OBVIOUS
    <2> QED BY <1>1, <1>4, <2>1, Zenon DEF Over
  <1>6. o = Read[n + 1][c].out /\ n + 1 \in Nat
    BY <1>1, <1>4, ZenonT(30) DEF AtHeader
  <1> QED BY <1>5, <1>6, Zenon DEF Position

\* A command's header: the entries of the command are all to come.
LEMMA MethodsPosition ==
  ASSUME NEW c \in Channels, NEW st, NEW g \in Nat, NEW o, NEW n \in Nat, NEW m, NEW w,
         AtHeader(c, st, g, o, n, m, w), IsIncreasing(w) \/ IsNonIncreasing(w),
         NEW su, su.method = Method(w), su.subchannel = Subchannel(w),
         su.method_count = Count(w), su.nonincreasing = IsNonIncreasing(w),
         su.subroutine_active = st.subroutine_active,
         su.subroutine_return = st.subroutine_return
  PROVE  Position(c, su, g + 4, o, FALSE)
  <1>1. w \in Nat /\ m \in Reading /\ ObeyForms(c, m, w) /\ Read[n + 1][c] = Obey(c, m)
        /\ ~Over(c, m) /\ w = Buffer[c][m.at + 1] /\ m = Read[n][c] /\ n + 1 \in Nat
    BY Zenon DEF AtHeader
  <1>0. g = 4 * m.at /\ o = m.out /\ Returns(st, m)
    BY ZenonT(30) DEF AtHeader
  <1>2. g = 4 * m.at /\ o = m.out /\ m.at \in Int /\ m.out \in Seq(CacheEntry)
    BY ONLY <1>0, <1>1, Zenon DEF Reading
  <1>3. Returns(su, m)
    BY <1>0, Zenon DEF Returns
  <1>4. PICK i \in Nat : i = m.at + 1 /\ i \in 1 .. Len(Buffer[c]) /\ Len(Buffer[c]) \in Nat
    <2>1. Len(Buffer[c]) \in Nat /\ m.at + 1 \in 1 .. Len(Buffer[c])
      BY <1>1, HeaderWord, Zenon
    <2> QED BY ONLY <2>1
  <1>5. Count(w) \in Nat /\ Method(w) \in Nat
    <2>1. Count(w) \in Field11 /\ Method(w) \in Field13
      BY <1>1, DecodeTypes, Zenon
    <2> QED BY <2>1, FieldIs
  <1>6. CASE Count(w) = 0
    <2>1. Size(c, i) \in Nat /\ Size(c, i) <= Count(w) /\ Entries(c, i) \in Seq(CacheEntry)
          /\ Len(Entries(c, i)) = Size(c, i)
      BY <1>1, <1>4, EntriesAre, ZenonT(30)
    <2>2. Entries(c, i) = <<>>
      <3>1. Len(Entries(c, i)) = 0
        BY <1>6, <2>1
      <3> QED BY <2>1, <3>1
    <2>3. m.out \o Entries(c, i) = m.out
      BY <1>2, <2>2
    <2>4. PICK r : r = [m EXCEPT !.at = m.at + 1 + Count(w), !.out = m.out \o Entries(c, m.at + 1)]
      BY Zenon
    <2>5. Read[n + 1][c] = r
      BY <1>1, <2>4, Zenon DEF ObeyForms
    <2>6. r.at = m.at + 1 + Count(w) /\ r.out = m.out /\ r.ret = m.ret
      BY <1>1, <1>4, <2>3, <2>4, ZenonT(30) DEF Reading
    <2>7. g + 4 = 4 * r.at
      BY <1>2, <1>6, <2>6
    <2>8. Aligned(su, g + 4, o, r)
      BY <1>2, <1>3, <1>6, <2>6, <2>7, Zenon DEF Aligned, Returns
    <2> QED BY <1>1, <2>5, <2>8, NextAligned, Zenon
  <1>7. CASE Count(w) # 0
    <2>1. 0 < Count(w) /\ i + 0 <= Len(Buffer[c]) /\ g + 4 = 4 * (i + 0) /\ Count(w) - 0 = Count(w)
          /\ Method(w) + 4 * 0 = Method(w)
      <3>1. PICK l \in Nat, x \in Nat, y \in Nat, a \in Int :
              l = Len(Buffer[c]) /\ x = Count(w) /\ y = Method(w) /\ a = m.at
        BY ONLY <1>2, <1>4, <1>5, Zenon
      <3>2. i = a + 1 /\ i \in 1 .. l /\ x # 0 /\ g = 4 * a
        BY <1>2, <1>4, <1>7, <3>1, Zenon
      <3>3. 0 < x /\ i + 0 <= l /\ g + 4 = 4 * (i + 0) /\ x - 0 = x /\ y + 4 * 0 = y
        BY ONLY <3>2, i \in Nat, l \in Nat, x \in Nat, y \in Nat, a \in Int, g \in Nat
      <3> QED BY <3>1, <3>3, Zenon
    <2>2. o = m.out \o SubSeq(Entries(c, i), 1, 0)
      <3>1. SubSeq(Entries(c, i), 1, 0) = <<>>
        BY SubSeqEmpty
      <3> QED BY <1>2, <3>1
    <2>3. Midway(c, su, g + 4, o, m, 0)
      BY <1>1, <1>3, <1>4, <2>1, <2>2, ZenonT(30) DEF Midway
    <2> QED BY <1>1, <2>3, ZenonT(30) DEF Position
  <1> QED BY <1>6, <1>7, Zenon

\* A data word: k words into a command, and then k + 1, or after it.
LEMMA DataPosition ==
  ASSUME NEW c \in Channels, NEW st \in PusherState, NEW g \in Nat, NEW o,
         Position(c, st, g, o, FALSE), st.method_count > 0, g < DmaLen[c],
         NEW su, su.method = IF st.nonincreasing THEN st.method ELSE (st.method + 4) % Bit14,
         su.method_count = st.method_count - 1,
         su.subchannel = st.subchannel, su.nonincreasing = st.nonincreasing,
         su.subroutine_active = st.subroutine_active,
         su.subroutine_return = st.subroutine_return, CommandsFitAll
  PROVE  Position(c, su, g + 4,
                  Append(o, Entry(st.method, st.subchannel, st.nonincreasing, Buffer[c][g \div 4 + 1])),
                  FALSE)
  <1>1. PICK n \in Nat : \/ Aligned(st, g, o, Read[n][c])
                         \/ \E k \in Nat : Midway(c, st, g, o, Read[n][c], k)
    BY Zenon DEF Position
  <1>2. PICK m \in Reading : m = Read[n][c]
    BY ReadTypes, Zenon
  <1>3. PICK k \in Nat : Midway(c, st, g, o, m, k)
    BY <1>1, <1>2, SMTT(30) DEF Aligned
  <1>4. ~Over(c, m)
    BY <1>3, Zenon DEF Midway
  <1>5. m.at \in Int /\ m.out \in Seq(CacheEntry)
    BY Zenon DEF Reading
  <1>6. PICK i \in Nat : i = m.at + 1 /\ i \in 1 .. Len(Buffer[c]) /\ Len(Buffer[c]) \in Nat
    BY <1>4, HeaderWord
  <1>7. PICK w \in Nat : w = Buffer[c][i]
    BY <1>4, <1>6, HeaderWord, Zenon
  <1>8. /\ IsIncreasing(w) \/ IsNonIncreasing(w)
        /\ k < Count(w) /\ i + k <= Len(Buffer[c]) /\ g = 4 * (i + k)
        /\ o = m.out \o SubSeq(Entries(c, i), 1, k)
    BY <1>3, <1>6, <1>7, Zenon DEF Midway
  <1>9. /\ st.method_count = Count(w) - k
        /\ st.subchannel = Subchannel(w) /\ st.nonincreasing = IsNonIncreasing(w)
        /\ st.method = IF IsNonIncreasing(w) THEN Method(w) ELSE Method(w) + 4 * k
        /\ Returns(st, m)
    BY <1>3, <1>6, <1>7 DEF Midway
  <1>10. Count(w) \in Nat /\ Count(w) < 2048 /\ Method(w) \in Nat /\ Method(w) < 8192
    <2>1. Count(w) \in Field11 /\ Method(w) \in Field13
      BY DecodeTypes, Zenon
    <2> QED BY <2>1, FieldIs
  <1>11. g \div 4 = i + k /\ i + k + 1 <= Len(Buffer[c])
    <2>1. PICK d \in Nat, l \in Nat : d = DmaLen[c] /\ l = Len(Buffer[c]) /\ d <= 4 * l
      BY <1>6, DmaLenAssumption, Zenon
    <2>2. g = 4 * (i + k) /\ g < d /\ d <= 4 * l
      BY <1>8, <2>1
    <2>3. g \div 4 = i + k /\ i + k + 1 <= l
      BY ONLY <2>2, i \in Nat, k \in Nat, l \in Nat, d \in Nat, g \in Nat
    <2> QED BY <2>1, <2>3, Zenon
  <1>12. PICK z \in Nat : /\ z = Size(c, i) /\ k + 1 <= z
                          /\ Entries(c, i) = [x \in 1 .. z |-> EntryAt(c, i, x)]
                          /\ Entries(c, i) \in Seq(CacheEntry) /\ Len(Entries(c, i)) = z
                          /\ k + 1 = Count(w) => z = k + 1
    <2>1. /\ Size(c, i) \in Nat
          /\ Entries(c, i) = [x \in 1 .. Size(c, i) |-> EntryAt(c, i, x)]
          /\ Entries(c, i) \in Seq(CacheEntry) /\ Len(Entries(c, i)) = Size(c, i)
      BY <1>6, EntriesAre, Zenon
    <2>2. Size(c, i) = IF i + Count(w) <= Len(Buffer[c]) THEN Count(w) ELSE Len(Buffer[c]) - i
      BY <1>7, Zenon DEF Size
    <2>3. k + 1 <= Size(c, i) /\ (k + 1 = Count(w) => Size(c, i) = k + 1)
      <3>1. PICK l \in Nat, x \in Nat : l = Len(Buffer[c]) /\ x = Count(w)
        BY <1>6, <1>10
      <3>2. k < x /\ i + k + 1 <= l
        BY <1>8, <1>11, <3>1, Zenon
      <3>3. PICK y : y = IF i + x <= l THEN x ELSE l - i
        BY Zenon
      <3>4. k + 1 <= y /\ (k + 1 = x => y = k + 1)
        BY ONLY <3>2, <3>3, i \in Nat, k \in Nat, l \in Nat, x \in Nat
      <3> QED BY <2>2, <3>1, <3>3, <3>4
    <2> QED BY <2>1, <2>3, ZenonT(30)
  <1>13. PICK e : e = Entry(st.method, st.subchannel, st.nonincreasing, Buffer[c][g \div 4 + 1])
    BY Zenon
  <1>14. e = Entries(c, i)[k + 1]
    <2>1. k + 1 \in 1 .. z /\ (k + 1) - 1 = k /\ i + (k + 1) = i + k + 1
      BY <1>12
    <2>2. Entries(c, i)[k + 1] = EntryAt(c, i, k + 1)
      BY <1>12, <2>1, Zenon
    <2>3. EntryAt(c, i, k + 1) =
            Entry(IF IsNonIncreasing(w) THEN Method(w) ELSE Method(w) + 4 * k,
                  Subchannel(w), IsNonIncreasing(w), Buffer[c][i + k + 1])
      BY <1>7, <2>1, Zenon DEF EntryAt
    <2> QED BY <1>9, <1>11, <1>13, <2>2, <2>3, Zenon
  <1>15. Append(o, e) = m.out \o SubSeq(Entries(c, i), 1, k + 1)
    <2>1. PICK E \in Seq(CacheEntry) : E = Entries(c, i) /\ Len(E) = z
      BY <1>12, Zenon
    <2>2. k + 1 \in 1 .. Len(E) /\ 1 \in 1 .. Len(E) /\ k + 1 \in 1 .. Len(E) /\ (k + 1) - 1 = k
      BY <1>12, <2>1
    <2>3. SubSeq(E, 1, k + 1) = SubSeq(E, 1, k) \o <<E[k + 1]>>
      BY <2>2, SubSeqRecursiveSecond, ZenonT(30)
    <2>4. E[k + 1] \in CacheEntry
      BY <2>2, ElementOfSeq, Zenon
    <2>5. SubSeq(E, 1, k) \in Seq(CacheEntry)
      <3>1. \A x \in 1 .. k : E[x] \in CacheEntry
        BY <2>1, <2>2, ElementOfSeq
      <3> QED BY <3>1, SubSeqProperties
    <2>6. <<E[k + 1]>> \in Seq(CacheEntry)
      BY <2>4
    <2>7. m.out \o SubSeq(E, 1, k) \in Seq(CacheEntry)
      BY <1>5, <2>5, ConcatProperties, Zenon
    <2>8. Append(m.out \o SubSeq(E, 1, k), E[k + 1]) = (m.out \o SubSeq(E, 1, k)) \o <<E[k + 1]>>
      BY <2>4, <2>7, AppendIsConcat, Zenon
    <2>9. (m.out \o SubSeq(E, 1, k)) \o <<E[k + 1]>> = m.out \o (SubSeq(E, 1, k) \o <<E[k + 1]>>)
      <3>1. PICK x, y, u \in Seq(CacheEntry) :
              x = m.out /\ y = SubSeq(E, 1, k) /\ u = <<E[k + 1]>>
        BY ONLY <1>5, <2>5, <2>6, Zenon
      <3>2. (x \o y) \o u = x \o (y \o u)
        BY ONLY ConcatAssociative, x \in Seq(CacheEntry), y \in Seq(CacheEntry), u \in Seq(CacheEntry)
      <3> QED BY ONLY <3>1, <3>2, Zenon
    <2> QED BY <1>8, <1>14, <2>1, <2>3, <2>8, <2>9, ZenonT(30)
  <1>16. Returns(su, m)
    BY <1>9, Zenon DEF Returns
  <1>17. g + 4 = 4 * (i + (k + 1)) /\ su.method_count = Count(w) - (k + 1)
    <2>1. PICK x \in Nat : x = Count(w)
      BY <1>10
    <2>2. su.method_count = (x - k) - 1
      BY <1>9, <2>1, Zenon
    <2>3. (x - k) - 1 = x - (k + 1) /\ 4 * (i + k) + 4 = 4 * (i + (k + 1))
      BY ONLY i \in Nat, k \in Nat, x \in Nat, SMTT(30)
    <2> QED BY <1>8, <2>1, <2>2, <2>3, Zenon
  <1>18. CASE k + 1 < Count(w)
    <2>1. su.method = IF IsNonIncreasing(w) THEN Method(w) ELSE Method(w) + 4 * (k + 1)
      <3>1. CASE IsNonIncreasing(w)
        BY <1>9, <3>1
      <3>2. CASE ~IsNonIncreasing(w)
        <4>1. Method(w) + 4 * Count(w) <= 8192
          <5>1. IsIncreasing(w) /\ w = Buffer[c][m.at + 1]
            BY <1>6, <1>7, <1>8, <3>2
          <5> QED BY <1>2, <1>4, <5>1 DEF CommandsFitAll
        <4>2. (Method(w) + 4 * k) + 4 \in Nat /\ (Method(w) + 4 * k) + 4 < 16384
              /\ (Method(w) + 4 * k) + 4 = Method(w) + 4 * (k + 1)
          BY <1>10, <1>18, <4>1
        <4>3. \A x \in Nat : x < 16384 => x % 16384 = x
          OBVIOUS
        <4>4. su.method = ((Method(w) + 4 * k) + 4) % 16384
          BY <1>9, <3>2, FieldIs
        <4> QED BY <3>2, <4>2, <4>3, <4>4
      <3> QED BY <3>1, <3>2, Zenon
    <2>2. i + (k + 1) <= Len(Buffer[c])
      BY <1>6, <1>11
    <2>3. Midway(c, su, g + 4, Append(o, e), m, k + 1)
      BY <1>4, <1>6, <1>7, <1>8, <1>9, <1>15, <1>16, <1>17, <1>18, <2>1, <2>2, ZenonT(30) DEF Midway
    <2>4. k + 1 \in Nat
      OBVIOUS
    <2> QED BY <1>2, <1>13, <2>3, <2>4, Zenon DEF Position
  <1>19. CASE k + 1 = Count(w)
    <2>1. SubSeq(Entries(c, i), 1, k + 1) = Entries(c, i)
      <3>1. Len(Entries(c, i)) = k + 1
        BY <1>12, <1>19, Zenon
      <3> QED BY <1>12, <3>1, SubSeqFull, Zenon
    <2>2. ObeyForms(c, m, w) /\ Read[n + 1][c] = Obey(c, m) /\ n + 1 \in Nat
      <3>1. w = Buffer[c][m.at + 1]
        BY <1>6, <1>7, Zenon
      <3>2. ObeyForms(c, m, w)
        BY <3>1, ObeyIs, Zenon
      <3>3. Read[n + 1][c] = Obey(c, m)
        BY <1>2, <1>4, ReadNext
      <3> QED BY <3>2, <3>3, SMTT(30)
    <2>3. PICK r : r = [m EXCEPT !.at = m.at + 1 + Count(w), !.out = m.out \o Entries(c, m.at + 1)]
      BY Zenon
    <2>4. Read[n + 1][c] = r
      BY <1>8, <2>2, <2>3, Zenon DEF ObeyForms
    <2>5. r.at = m.at + 1 + Count(w) /\ r.out = m.out \o Entries(c, i) /\ r.ret = m.ret
      BY <1>6, <2>3, Zenon DEF Reading
    <2>6. g + 4 = 4 * r.at /\ su.method_count = 0
      <3>1. r.at = i + (k + 1)
        BY <1>5, <1>6, <1>19, <2>5, Zenon
      <3>2. Count(w) - (k + 1) = 0
        BY <1>19
      <3> QED BY <1>17, <3>1, <3>2, ZenonT(30)
    <2>7. Returns(su, r)
      BY <1>16, <2>5, Zenon DEF Returns
    <2>8. Aligned(su, g + 4, Append(o, e), r)
      BY <1>15, <2>1, <2>5, <2>6, <2>7, Zenon DEF Aligned
    <2> QED BY <1>13, <2>2, <2>4, <2>8, NextAligned, ZenonT(30)
  <1>20. k + 1 < Count(w) \/ k + 1 = Count(w)
    <2>1. PICK x \in Nat : x = Count(w) /\ k < x
      BY <1>8, <1>10
    <2> QED BY ONLY <2>1, k \in Nat, x \in Nat
  <1> QED BY <1>18, <1>19, <1>20, ZenonT(30)

\* A channel switch and the switch back leave a channel where it was: the
\* method, kept in words in 11 bits, and the return address, kept in 29 bits,
\* come back whole.
LEMMA SwitchPosition ==
  ASSUME NEW c \in Channels, NEW st \in PusherState, NEW z \in PusherState, NEW g, NEW o,
         NEW ab \in BOOLEAN, Position(c, st, g, o, ab), CommandsFitAll
  PROVE  Position(c, Restored(z, SavedRegs(st)), g, o, ab)
  <1>1. PICK t : t = Restored(z, SavedRegs(st))
    BY Zenon
  <1>2. /\ t.method_count = st.method_count % Bit11 /\ t.method = ((st.method \div 4) % Bit11) * 4
        /\ t.subchannel = st.subchannel /\ t.nonincreasing = st.nonincreasing
        /\ t.subroutine_active = st.subroutine_active
        /\ t.subroutine_return = Target(st.subroutine_return) % 2^29
    BY <1>1 DEF Restored, SavedRegs, PusherState
  <1>3. t.method_count = st.method_count
    <2>1. st.method_count \in Field11
      BY DEF PusherState
    <2>2. PICK x \in Nat : x = st.method_count /\ x < 2048
      BY <2>1, FieldIs
    <2>3. x % 2048 = x
      BY <2>2
    <2> QED BY <1>2, <2>2, <2>3, FieldIs
  <1>4. ASSUME NEW m, Returns(st, m) PROVE Returns(t, m)
    <2>1. CASE m.ret = -1
      BY <1>2, <1>4, <2>1, Zenon DEF Returns
    <2>2. CASE m.ret # -1
      <3>1. PICK x \in Nat : x = m.ret /\ x < 2^27 /\ st.subroutine_return = 4 * x
        BY <1>4, <2>2, SMT DEF Returns
      <3>2. (4 * x) % 4 = 0 /\ 4 * x \in Nat /\ 4 * x < 536870912
        BY <3>1, SMT
      <3>3. Target(4 * x) = 4 * x
        BY <3>2, SMT DEF Target, Low2
      <3>4. (4 * x) % 536870912 = 4 * x
        BY <3>2, SMT
      <3>5. Target(st.subroutine_return) % 2^29 = 4 * x
        BY <3>1, <3>3, <3>4, SMT
      <3> QED BY <1>2, <1>4, <2>2, <3>1, <3>5, SMT DEF Returns
    <2> QED BY <2>1, <2>2, SMT
  <1>5. ASSUME NEW m, Aligned(st, g, o, m) PROVE Aligned(t, g, o, m)
    BY <1>3, <1>4, <1>5 DEF Aligned
  <1>6. ASSUME NEW n \in Nat, NEW k \in Nat, Midway(c, st, g, o, Read[n][c], k)
        PROVE  Midway(c, t, g, o, Read[n][c], k)
    <2>1. PICK m \in Reading : m = Read[n][c]
      BY ReadTypes, Zenon
    <2>2. Midway(c, st, g, o, m, k)
      BY <1>6, <2>1, Zenon
    <2>3. ~Over(c, m)
      BY <2>2, Zenon DEF Midway
    <2>4. PICK w \in Nat : w = Buffer[c][m.at + 1]
      BY <2>3, HeaderWord, Zenon
    <2>5. /\ IsIncreasing(w) \/ IsNonIncreasing(w)
          /\ k < Count(w)
          /\ st.method = IF IsNonIncreasing(w) THEN Method(w) ELSE Method(w) + 4 * k
      BY <2>2, <2>4 DEF Midway
    <2>6. PICK x \in Nat, y \in Nat : x = Method(w) /\ y = Count(w) /\ x < 8192
      <3>1. Count(w) \in Field11 /\ Method(w) \in Field13
        BY DecodeTypes
      <3> QED BY <3>1, FieldIs
    <2>7. PICK q \in Nat : q = x \div 4 /\ x = 4 * q
      <3>1. 4 * (x \div 4) = x
        BY <2>5, <2>6, Offsets4
      <3>2. x \div 4 \in Nat
        OBVIOUS
      <3> QED BY <3>1, <3>2
    <2>8. PICK p \in Nat : st.method = 4 * p /\ p < 2048
      <3>1. CASE IsNonIncreasing(w)
        <4>1. st.method = 4 * q /\ q < 2048
          BY <2>5, <2>6, <2>7, <3>1
        <4> QED BY <4>1
      <3>2. CASE ~IsNonIncreasing(w)
        <4>1. IsIncreasing(w)
          BY <2>5, <3>2, SMTT(30)
        <4>2. Method(w) + 4 * Count(w) <= 8192
          BY <2>1, <2>3, <2>4, <4>1 DEF CommandsFitAll
        <4>3. x + 4 * y <= 8192 /\ k < y
          BY <2>5, <2>6, <4>2
        <4>4. q + k \in Nat /\ x + 4 * k = 4 * (q + k) /\ q + k < 2048
          BY ONLY <2>7, <4>3, q \in Nat, x \in Nat, y \in Nat, k \in Nat
        <4>5. st.method = 4 * (q + k)
          BY <2>5, <2>6, <3>2, <4>4
        <4> QED BY <4>4, <4>5
      <3> QED BY <3>1, <3>2
    <2>9. ((4 * p) \div 4) % 2048 = p /\ p * 4 = 4 * p
      BY <2>8
    <2>10. t.method = st.method
      BY <1>2, <2>8, <2>9, FieldIs, SMTT(30)
    <2>11. Returns(st, m)
      BY <2>2 DEF Midway
    <2>12. Returns(t, m)
      BY <1>4, <2>11, Zenon
    <2>13. Midway(c, t, g, o, m, k)
      BY ONLY <1>2, <1>3, <2>2, <2>10, <2>12, Zenon DEF Midway
    <2> QED BY <2>1, <2>13, Zenon
  <1> QED BY <1>1, <1>5, <1>6 DEF Position
-----------------------------------------------------------------------------
(* Every step of the loop and of a driver keeps each channel in its place. *)

LEMMA RestoredAlike ==
  ASSUME NEW a \in PusherState, NEW b \in PusherState, NEW r
  PROVE  Alike(Restored(a, r), Restored(b, r))
  BY Zenon DEF Alike, Restored, PusherState

LEMMA StillPosition ==
  ASSUME NEW c \in Channels, NEW a, NEW b, Alike(a, b), NEW g, NEW o, NEW ac,
         Position(c, a, g, o, FALSE)
  PROVE  Position(c, b, g, o, ac)
  <1>1. Position(c, b, g, o, FALSE)
    BY AlikePosition, ZenonT(30)
  <1> QED BY <1>1, Zenon DEF Position

\* A step that moves at most the current channel
LEMMA CurrentMoves ==
  ASSUME IInv, IInv', Decoding, ~aborted, chid' = chid, saved' = saved,
         \A c \in Channels : c # chid => ctl'[c].get = ctl[c].get /\ emitted'[c] = emitted[c],
         Position(chid, s', ctl'[chid].get, emitted'[chid], aborted')
  PROVE  Decoding'
  <1>1. s \in PusherState /\ s' \in PusherState /\ aborted = FALSE /\ aborted' \in BOOLEAN
    BY Zenon DEF IInv, TypeOK
  <1>2. ASSUME NEW c \in Channels, c # chid
        PROVE  Position(c, Restored(s', saved'[c]), ctl'[c].get, emitted'[c], aborted')
    <2>1. Position(c, Restored(s, saved[c]), ctl[c].get, emitted[c], FALSE)
      BY <1>1, <1>2, Zenon DEF Decoding, Live
    <2>2. Alike(Restored(s, saved[c]), Restored(s', saved[c]))
      BY <1>1, RestoredAlike, Zenon
    <2>3. PICK a, b, ac : a = Restored(s, saved[c]) /\ b = Restored(s', saved[c]) /\ ac = aborted'
      BY Zenon
    <2>4. Position(c, b, ctl[c].get, emitted[c], ac)
      BY <2>1, <2>2, <2>3, StillPosition, ZenonT(30)
    <2> QED BY <1>2, <2>3, <2>4, Zenon
  <1>3. \A c \in Channels : Position(c, Live(c)', ctl'[c].get, emitted'[c], aborted')
    BY <1>2, Zenon DEF Live
  <1> QED BY <1>3, Zenon DEF Decoding

\* A step that moves no channel
LEMMA NoneMoves ==
  ASSUME IInv, IInv', Decoding, ~aborted, chid' = chid, saved' = saved, emitted' = emitted,
         \A c \in Channels : ctl'[c].get = ctl[c].get, Alike(s, s')
  PROVE  Decoding'
  <1>1. aborted = FALSE /\ aborted' \in BOOLEAN /\ chid \in Channels
    BY Zenon DEF IInv, TypeOK
  <1>2. Position(chid, s, ctl[chid].get, emitted[chid], FALSE)
    BY <1>1, Zenon DEF Decoding, Live
  <1>3. Position(chid, s', ctl[chid].get, emitted[chid], aborted')
    <2>1. PICK b, ac : b = s' /\ ac = aborted'
      BY Zenon
    <2>2. Position(chid, b, ctl[chid].get, emitted[chid], ac)
      BY <1>1, <1>2, <2>1, StillPosition, Zenon
    <2> QED BY <2>1, <2>2, Zenon
  <1>4. Position(chid, s', ctl'[chid].get, emitted'[chid], aborted')
    BY <1>1, <1>3, Zenon
  <1> QED BY <1>4, CurrentMoves, Zenon

\* A turn of the loop.
LEMMA LoopDecoding ==
  ASSUME IInv, IInv', Decoding, CommandsFitAll, ~aborted, Loop
  PROVE  Decoding'
  <1>1. /\ chid \in Channels /\ Get \in Nat /\ ctl \in [Channels -> [get : Nat, put : Nat]]
        /\ s \in PusherState /\ aborted = FALSE /\ emitted \in [Channels -> Seq(CacheEntry)]
    BY Zenon DEF IInv, TypeOK, Get
  <1>2. Position(chid, s, Get, emitted[chid], FALSE)
    BY <1>1, ZenonT(30) DEF Decoding, Live, Get
  <1>3. ASSUME NEW a, SetGet(a)
        PROVE  ctl'[chid].get = a /\ \A c \in Channels : c # chid => ctl'[c].get = ctl[c].get
    BY <1>1, <1>3, Zenon DEF SetGet
  <1>4. ASSUME Header
        PROVE  /\ \E n \in Nat : AtHeader(chid, s, Get, emitted[chid], n, Read[n][chid], Word)
               /\ s.method_count = 0 /\ Get < DmaLen[chid]
    <2>1. s.method_count = 0 /\ Get < DmaLen[chid]
      BY <1>4, Zenon DEF Header, Fetch
    <2>2. \E n \in Nat : AtHeader(chid, s, Get, emitted[chid], n, Read[n][chid],
                                  Buffer[chid][Get \div 4 + 1])
      BY <1>1, <1>2, <2>1, HeaderPosition, Zenon
    <2> QED BY <2>1, <2>2, Zenon DEF Word
  <1>5. CASE run_pusher_protection
    <2>1. Alike(s, s') /\ chid' = chid /\ saved' = saved /\ emitted' = emitted /\ ctl' = ctl
      BY <1>1, <1>5, Zenon DEF run_pusher_protection, Fail, Alike, PusherState
    <2> QED BY <2>1, NoneMoves, Zenon
  <1>6. CASE run_pusher_data
    <2>1. s.method_count > 0 /\ Get < DmaLen[chid] /\ SetGet(Get + 4)
          /\ chid' = chid /\ saved' = saved /\ aborted' = FALSE
      BY <1>1, <1>6, Zenon DEF run_pusher_data, Fetch
    <2>2. PICK e : e = Entry(s.method, s.subchannel, s.nonincreasing, Buffer[chid][Get \div 4 + 1])
      BY Zenon
    <2>3. emitted' = [emitted EXCEPT ![chid] = Append(@, e)]
      BY <1>6, <2>2, Zenon DEF run_pusher_data, Word
    <2>4. emitted'[chid] = Append(emitted[chid], e)
          /\ \A c \in Channels : c # chid => emitted'[c] = emitted[c]
      BY <1>1, <2>3, Zenon
    <2>5. /\ s'.method = IF s.nonincreasing THEN s.method ELSE (s.method + 4) % Bit14
          /\ s'.method_count = s.method_count - 1
          /\ s'.subchannel = s.subchannel /\ s'.nonincreasing = s.nonincreasing
          /\ s'.subroutine_active = s.subroutine_active
          /\ s'.subroutine_return = s.subroutine_return
      BY <1>1, <1>6, Zenon DEF run_pusher_data, PusherState
    <2>6. Position(chid, s', Get + 4, Append(emitted[chid], e), FALSE)
      <3>1. PICK st \in PusherState, g \in Nat : st = s /\ g = Get
        BY <1>1, Zenon
      <3>2. PICK o, su : o = emitted[chid] /\ su = s'
        BY Zenon
      <3>3. Position(chid, su, g + 4, Append(o, e), FALSE)
        BY <1>1, <1>2, <2>1, <2>2, <2>5, <3>1, <3>2, DataPosition, Zenon
      <3> QED BY <3>1, <3>2, <3>3, Zenon
    <2> QED BY <1>3, <2>1, <2>4, <2>6, CurrentMoves, Zenon
  <1>7. CASE run_pusher_jump
    <2>1. Header /\ s' = s /\ chid' = chid /\ saved' = saved /\ aborted' = FALSE /\ emitted' = emitted
      BY <1>1, <1>7, Zenon DEF run_pusher_jump
    <2>2. PICK n \in Nat : AtHeader(chid, s, Get, emitted[chid], n, Read[n][chid], Word)
      BY <1>4, <2>1, Zenon
    <2>3. PICK h : /\ SetGet(h)
                   /\ (IsJump(Word) /\ h = Target(Word)) \/ (IsOldJump(Word) /\ h = OldJumpTarget(Word))
      BY <1>7, Zenon DEF run_pusher_jump
    <2>4. Position(chid, s, h, emitted[chid], FALSE)
      BY <1>1, <1>4, <2>1, <2>2, <2>3, JumpPosition, Zenon
    <2> QED BY <1>3, <2>1, <2>3, <2>4, CurrentMoves, Zenon
  <1>8. CASE run_pusher_call
    <2>1. Header /\ chid' = chid /\ saved' = saved /\ aborted' = FALSE /\ emitted' = emitted
          /\ IsCall(Word) /\ ~s.subroutine_active /\ SetGet(Target(Word))
      BY <1>1, <1>8, Zenon DEF run_pusher_call
    <2>2. PICK n \in Nat : AtHeader(chid, s, Get, emitted[chid], n, Read[n][chid], Word)
      BY <1>4, <2>1
    <2>3. s'.method_count = 0 /\ s'.subroutine_active = TRUE /\ s'.subroutine_return = Get + 4
      BY <1>1, <1>4, <1>8, <2>1 DEF run_pusher_call, PusherState
    <2>4. Position(chid, s', Target(Word), emitted[chid], FALSE)
      BY <1>1, <1>4, <2>1, <2>2, <2>3, CallPosition, Zenon
    <2> QED BY <1>3, <2>1, <2>4, CurrentMoves, Zenon
  <1>9. CASE run_pusher_return
    <2>1. Header /\ chid' = chid /\ saved' = saved /\ aborted' = FALSE /\ emitted' = emitted
          /\ IsReturn(Word) /\ s.subroutine_active /\ SetGet(s.subroutine_return)
      BY <1>1, <1>9, Zenon DEF run_pusher_return
    <2>2. PICK n \in Nat : AtHeader(chid, s, Get, emitted[chid], n, Read[n][chid], Word)
      BY <1>4, <2>1, Zenon
    <2>3. s'.method_count = 0 /\ s'.subroutine_active = FALSE
      BY <1>1, <1>4, <1>9, <2>1 DEF run_pusher_return, PusherState
    <2>4. Position(chid, s', s.subroutine_return, emitted[chid], FALSE)
      BY <1>1, <2>1, <2>2, <2>3, ReturnPosition, Zenon
    <2> QED BY <1>3, <2>1, <2>4, CurrentMoves, Zenon
  <1>10. CASE run_pusher_methods
    <2>1. Header /\ chid' = chid /\ saved' = saved /\ aborted' = FALSE /\ emitted' = emitted
          /\ (IsIncreasing(Word) \/ IsNonIncreasing(Word)) /\ SetGet(Get + 4)
      BY <1>1, <1>10, Zenon DEF run_pusher_methods
    <2>2. PICK n \in Nat : AtHeader(chid, s, Get, emitted[chid], n, Read[n][chid], Word)
      BY <1>4, <2>1, Zenon
    <2>3. /\ s'.method = Method(Word) /\ s'.subchannel = Subchannel(Word)
          /\ s'.method_count = Count(Word) /\ s'.nonincreasing = IsNonIncreasing(Word)
          /\ s'.subroutine_active = s.subroutine_active
          /\ s'.subroutine_return = s.subroutine_return
      BY <1>1, <1>10, Zenon DEF run_pusher_methods, PusherState
    <2>4. Position(chid, s', Get + 4, emitted[chid], FALSE)
      BY <1>1, <2>1, <2>2, <2>3, MethodsPosition, ZenonT(30)
    <2> QED BY <1>3, <2>1, <2>4, CurrentMoves, Zenon
  <1>11. CASE run_pusher_error
    <2>1. Header /\ chid' = chid /\ saved' = saved /\ aborted' = TRUE /\ emitted' = emitted
          /\ SetGet(Get + 4)
      BY <1>11, Zenon DEF run_pusher_error, Fail
    <2>2. PICK n \in Nat : AtHeader(chid, s, Get, emitted[chid], n, Read[n][chid], Word)
      BY <1>4, <2>1
    <2>3. /\ ~IsJump(Word) /\ ~IsOldJump(Word) /\ ~IsIncreasing(Word) /\ ~IsNonIncreasing(Word)
          /\ IsCall(Word) => s.subroutine_active
          /\ IsReturn(Word) => ~s.subroutine_active
      BY <1>11 DEF run_pusher_error
    <2>4. Position(chid, s', Get + 4, emitted[chid], TRUE)
      BY <1>1, <2>2, <2>3, ErrorPosition, Zenon
    <2> QED BY <1>3, <2>1, <2>4, CurrentMoves, ZenonT(30)
  <1>12. CASE run_pusher_end
    <2>1. Alike(s, s') /\ chid' = chid /\ saved' = saved /\ emitted' = emitted /\ ctl' = ctl
      BY <1>12, Zenon DEF run_pusher_end, Alike
    <2> QED BY <2>1, NoneMoves, Zenon
  <1> QED BY <1>5, <1>6, <1>7, <1>8, <1>9, <1>10, <1>11, <1>12 DEF Loop

\* A register write of a driver, and its switch of channels.
LEMMA DriverDecoding ==
  ASSUME IInv, IInv', Decoding, CommandsFitAll, ~aborted, Driver
  PROVE  Decoding'
  <1>1. /\ chid \in Channels /\ ctl \in [Channels -> [get : Nat, put : Nat]]
        /\ s \in PusherState /\ s' \in PusherState /\ aborted = FALSE
        /\ saved \in [Channels -> Regs]
    BY Zenon DEF IInv, TypeOK
  <1>2. ASSUME NEW c \in Channels, NEW put
        PROVE  \A d \in Channels : [ctl EXCEPT ![c].put = put][d].get = ctl[d].get
    BY <1>1, Zenon
  <1>3. Alike(s, s)
    BY Zenon DEF Alike
  <1>4. ASSUME NEW c \in Channels, NEW put \in Offsets(c), user_write_DMA_PUT(c, put) PROVE Decoding'
    <2>1. chid' = chid /\ saved' = saved /\ emitted' = emitted /\ s' = s
          /\ ctl' = [ctl EXCEPT ![c].put = put]
      BY <1>4, Zenon DEF user_write_DMA_PUT
    <2>2. \A d \in Channels : ctl'[d].get = ctl[d].get
      BY <1>2, <2>1
    <2> QED BY <1>3, <2>1, <2>2, NoneMoves, Zenon
  <1>5. ASSUME NEW val \in BOOLEAN, pfifo_write_PUSH0(val) PROVE Decoding'
    <2>1. chid' = chid /\ saved' = saved /\ emitted' = emitted /\ ctl' = ctl /\ Alike(s, s')
      BY <1>1, <1>5, Zenon DEF pfifo_write_PUSH0, Alike, PusherState
    <2> QED BY <2>1, NoneMoves, Zenon
  <1>6. ASSUME NEW access \in BOOLEAN, NEW status \in BOOLEAN, pfifo_write_DMA_PUSH(access, status)
        PROVE  Decoding'
    <2>1. chid' = chid /\ saved' = saved /\ emitted' = emitted /\ ctl' = ctl /\ Alike(s, s')
      BY <1>1, <1>6, Zenon DEF pfifo_write_DMA_PUSH, Alike, PusherState
    <2> QED BY <2>1, NoneMoves, Zenon
  <1>7. ASSUME NEW put \in Offsets(chid), pfifo_write_DMA_PUT(put) PROVE Decoding'
    <2>1. chid' = chid /\ saved' = saved /\ emitted' = emitted /\ s' = s
          /\ ctl' = [ctl EXCEPT ![chid].put = put]
      BY <1>7, Zenon DEF pfifo_write_DMA_PUT
    <2>2. \A d \in Channels : ctl'[d].get = ctl[d].get
      BY <1>1, <1>2, <2>1, Zenon
    <2> QED BY <1>3, <2>1, <2>2, NoneMoves, Zenon
  <1>8. ASSUME NEW c \in Channels, SwitchChannel(c) PROVE Decoding'
    <2>1. /\ c # chid /\ saved' = [saved EXCEPT ![chid] = SavedRegs(s)] /\ chid' = c
          /\ s' = Restored(s, saved[c]) /\ ctl' = ctl /\ emitted' = emitted /\ aborted' = FALSE
      BY <1>1, <1>8, Zenon DEF SwitchChannel
    <2>2. ASSUME NEW d \in Channels PROVE Position(d, Live(d)', ctl[d].get, emitted[d], FALSE)
      <3>1. Position(d, Live(d), ctl[d].get, emitted[d], FALSE)
        BY <1>1, Zenon DEF Decoding
      <3>2. CASE d = c
        <4>1. Live(d)' = Live(d)
          BY <2>1, <3>2 DEF Live
        <4> QED BY <3>1, <4>1, Zenon
      <3>3. CASE d = chid
        <4>1. Live(d)' = Restored(s', SavedRegs(s)) /\ Live(d) = s
          BY <1>1, <2>1, <3>3, Zenon DEF Live
        <4>2. PICK z \in PusherState : z = s'
          BY <1>1
        <4>3. Position(d, s, ctl[d].get, emitted[d], FALSE)
          BY <3>1, <4>1, Zenon
        <4>4. Position(d, Restored(z, SavedRegs(s)), ctl[d].get, emitted[d], FALSE)
          BY <1>1, <4>3, SwitchPosition, Zenon
        <4> QED BY <4>1, <4>2, <4>4, Zenon
      <3>4. CASE d # c /\ d # chid
        <4>1. Live(d)' = Restored(s', saved[d]) /\ Live(d) = Restored(s, saved[d])
          BY <1>1, <2>1, <3>4, Zenon DEF Live
        <4>2. Alike(Restored(s, saved[d]), Restored(s', saved[d]))
          BY <1>1, RestoredAlike, Zenon
        <4>3. PICK a, b : a = Restored(s, saved[d]) /\ b = Restored(s', saved[d])
          OBVIOUS
        <4>4. Position(d, b, ctl[d].get, emitted[d], FALSE)
          BY <3>1, <4>1, <4>2, <4>3, StillPosition, Zenon
        <4> QED BY <4>1, <4>3, <4>4, Zenon
      <3> QED BY <3>2, <3>3, <3>4, Zenon
    <2>3. \A d \in Channels : Position(d, Live(d)', ctl'[d].get, emitted'[d], aborted')
      BY <2>1, <2>2, Zenon
    <2> QED BY <2>3, Zenon DEF Decoding
  <1> QED BY <1>4, <1>5, <1>6, <1>7, <1>8, Zenon DEF Driver

LEMMA InitDecoding == Init => Decoding
  <1> SUFFICES ASSUME Init, NEW c \in Channels
               PROVE  Position(c, Live(c), ctl[c].get, emitted[c], aborted)
    BY Zenon DEF Decoding
  <1>1. Live(c).method_count = 0 /\ Live(c).subroutine_active = FALSE
    <2>1. CASE c = chid
      BY <2>1, Zenon DEF Init, Live, Reset
    <2>2. CASE c # chid
      <3>1. Live(c) = Restored(Reset, SavedRegs(Reset))
        BY <2>2, Zenon DEF Init, Live
      <3>2. 0 % Bit11 = 0
        BY DEF Bit11
      <3> QED BY <3>1, <3>2, Zenon DEF Restored, SavedRegs, Reset
    <2> QED BY <2>1, <2>2, Zenon
  <1>2. ctl[c].get = 0 /\ emitted[c] = <<>>
    BY Zenon DEF Init
  <1>3. PICK m : m = Read[0][c]
    BY Zenon
  <1>4. m = Start
    BY <1>3, ReadIs, Zenon
  <1>5. m.at = 0 /\ m.ret = -1 /\ m.out = <<>>
    BY <1>4, Zenon DEF Start
  <1>6. Aligned(Live(c), 0, <<>>, m)
    BY <1>1, <1>5 DEF Aligned, Returns
  <1> QED BY <1>2, <1>3, <1>6 DEF Position

\* The invariant of a machine that a driver programs.
Told == IInv /\ (~wild => Decoding)

LEMMA WildIsNext == WildNext => Next
  <1> SUFFICES ASSUME WildNext PROVE Next
    BY Zenon
  <1>1. \A c \in Channels : 4 * Len(Buffer[c]) \in Offsets(c)
    <2> SUFFICES ASSUME NEW c \in Channels PROVE 4 * Len(Buffer[c]) \in Offsets(c)
      BY Zenon
    <2>1. Buffer[c] \in Seq(Nat)
      BY BufferAssumption, Zenon
    <2>2. Len(Buffer[c]) \in 0 .. Len(Buffer[c])
      BY <2>1
    <2> QED BY <2>2, Zenon DEF Offsets
  <1>2. CASE ~aborted
    <2>1. ASSUME NEW c \in Channels, user_write_DMA_PUT(c, 4 * Len(Buffer[c])) PROVE Driver
      BY <1>1, <2>1, Zenon DEF Driver
    <2>2. ASSUME pfifo_write_PUSH0(TRUE) PROVE Driver
      BY <2>2, Zenon DEF Driver
    <2>3. ASSUME NEW status \in BOOLEAN, pfifo_write_DMA_PUSH(TRUE, status) PROVE Driver
      BY <2>3, Zenon DEF Driver
    <2> QED BY <1>2, <2>1, <2>2, <2>3, Zenon DEF WildNext, Next, Guest, Halted
  <1>3. CASE aborted
    BY <1>3, Zenon DEF WildNext, Next
  <1> QED BY <1>2, <1>3, Zenon

LEMMA StepTold == CommandsFitAll /\ Told /\ [GuestsNext]_<<vars, wild>> => Told'
  <1> SUFFICES ASSUME CommandsFitAll, Told, [GuestsNext]_<<vars, wild>> PROVE Told'
    BY Zenon
  <1>1. CASE UNCHANGED <<vars, wild>>
    BY <1>1, Zenon DEF Told, IInv, TypeOK, MethodNeverWraps, Decoding, Live, vars
  <1>2. CASE wild /\ WildNext /\ UNCHANGED wild
    BY <1>2, WildIsNext, StepIInv, Zenon DEF Told
  <1>3. CASE ~wild /\ DriverNext /\ UNCHANGED wild
    <2>1. DriverNext => Next
      BY Zenon DEF DriverNext, Next, Guest
    <2>2. IInv /\ IInv' /\ Decoding
      BY <1>3, <2>1, StepIInv DEF Told
    <2>3. Decoding'
      <3>1. CASE ~aborted /\ (Loop \/ Driver)
        BY <2>2, <3>1, LoopDecoding, DriverDecoding, Zenon
      <3>2. CASE Halted
        BY <2>2, <3>2, Zenon DEF Halted, vars, Decoding, Live
      <3> QED BY <1>3, <3>1, <3>2, Zenon DEF DriverNext
    <2> QED BY <2>2, <2>3, Zenon DEF Told
  <1> QED BY <1>1, <1>2, <1>3, Zenon DEF GuestsNext
-----------------------------------------------------------------------------
LEMMA PrefixOfConcat ==
  ASSUME NEW a \in Seq(CacheEntry), NEW e \in Seq(CacheEntry), NEW k \in Nat, k <= Len(e),
         NEW o, o = a \o SubSeq(e, 1, k)
  PROVE  Len(o) <= Len(a \o e) /\ o = SubSeq(a \o e, 1, Len(o))
  <1>1. PICK q : q = SubSeq(e, 1, k)
    BY Zenon
  <1>2. \A i \in 1 .. k : e[i] \in CacheEntry
    BY ElementOfSeq
  <1>3. q \in Seq(CacheEntry) /\ Len(q) = k /\ \A i \in 1 .. k : q[i] = e[i]
    <2>1. /\ SubSeq(e, 1, k) \in Seq(CacheEntry)
          /\ Len(SubSeq(e, 1, k)) = IF 1 <= k THEN k - 1 + 1 ELSE 0
          /\ \A i \in 1 .. k - 1 + 1 : SubSeq(e, 1, k)[i] = e[1 + i - 1]
      BY <1>2, SubSeqProperties
    <2>2. (IF 1 <= k THEN k - 1 + 1 ELSE 0) = k /\ k - 1 + 1 = k /\ \A i \in 1 .. k : 1 + i - 1 = i
      OBVIOUS
    <2> QED BY <1>1, <2>1, <2>2, Zenon
  <1>4. PICK b : b = a \o e
    BY ZenonT(30)
  <1>5. /\ b \in Seq(CacheEntry) /\ Len(b) = Len(a) + Len(e)
        /\ \A i \in 1 .. Len(a) + Len(e) : b[i] = IF i <= Len(a) THEN a[i] ELSE e[i - Len(a)]
    BY <1>4, ConcatProperties, Zenon
  <1>6. /\ o \in Seq(CacheEntry) /\ Len(o) = Len(a) + k
        /\ \A i \in 1 .. Len(a) + k : o[i] = IF i <= Len(a) THEN a[i] ELSE q[i - Len(a)]
    BY <1>1, <1>3, ConcatProperties
  <1>7. PICK x \in Nat, y \in Nat, n \in Nat : x = Len(a) /\ y = Len(e) /\ k <= y /\ n = x + k
    BY Len(a) \in Nat, Len(e) \in Nat
  <1>8. n <= Len(b) /\ Len(o) = n /\ Len(b) \in Nat
    BY <1>5, <1>6, <1>7
  <1>9. \A i \in 1 .. n : o[i] = b[i] /\ b[i] \in CacheEntry
    <2> SUFFICES ASSUME NEW i \in 1 .. n PROVE o[i] = b[i] /\ b[i] \in CacheEntry
      BY Zenon
    <2>1. i \in 1 .. Len(a) + k /\ i \in 1 .. Len(a) + Len(e) /\ i \in 1 .. Len(b)
      BY <1>5, <1>7
    <2>2. b[i] \in CacheEntry
      BY <1>5, <2>1, ElementOfSeq, Zenon
    <2>3. i > Len(a) => i - Len(a) \in 1 .. k
      BY <1>7
    <2> QED BY <1>3, <1>5, <1>6, <1>7, <2>1, <2>2, <2>3
  <1>10. PICK p : p = SubSeq(b, 1, n)
    BY ZenonT(30)
  <1>11. p \in Seq(CacheEntry) /\ Len(p) = n /\ \A i \in 1 .. n : p[i] = b[i]
    <2>1. /\ SubSeq(b, 1, n) \in Seq(CacheEntry)
          /\ Len(SubSeq(b, 1, n)) = IF 1 <= n THEN n - 1 + 1 ELSE 0
          /\ \A i \in 1 .. n - 1 + 1 : SubSeq(b, 1, n)[i] = b[1 + i - 1]
      BY <1>9, SubSeqProperties
    <2>2. (IF 1 <= n THEN n - 1 + 1 ELSE 0) = n /\ n - 1 + 1 = n /\ \A i \in 1 .. n : 1 + i - 1 = i
      OBVIOUS
    <2> QED BY <1>10, <2>1, <2>2, Zenon
  <1>12. o = p
    BY <1>6, <1>8, <1>9, <1>11, SeqEqual, Zenon
  <1> QED BY <1>4, <1>8, <1>10, <1>12, Zenon

\* What a channel has emitted is a beginning of a reading of its pushbuffer,
\* and the reading is over if GET is at the end.
LEMMA PositionMeans ==
  ASSUME NEW c \in Channels, NEW st, NEW g, NEW o, NEW ab, Position(c, st, g, o, ab)
  PROVE  \E n \in Nat :
           /\ Len(o) <= Len(Read[n][c].out) /\ o = SubSeq(Read[n][c].out, 1, Len(o))
           /\ g = 4 * Len(Buffer[c]) => Over(c, Read[n][c]) /\ o = Read[n][c].out
  <1>0. Len(Buffer[c]) \in Nat
    <2>1. Buffer[c] \in Seq(Nat)
      BY BufferAssumption, Zenon
    <2> QED BY <2>1
  <1>1. PICK n \in Nat : \/ Aligned(st, g, o, Read[n][c])
                         \/ \E k \in Nat : Midway(c, st, g, o, Read[n][c], k)
                         \/ ab /\ o = Read[n][c].out /\ Over(c, Read[n][c])
    BY Zenon DEF Position
  <1>2. PICK m \in Reading : m = Read[n][c]
    BY ReadTypes, Zenon
  <1>3. m.at \in Int /\ m.out \in Seq(CacheEntry)
    BY Zenon DEF Reading
  <1>4. Len(m.out) <= Len(m.out) /\ m.out = SubSeq(m.out, 1, Len(m.out))
    <2>1. Len(m.out) \in Nat
      BY <1>3, SMTT(30)
    <2> QED BY <1>3, <2>1, SubSeqFull
  <1>5. CASE Aligned(st, g, o, m)
    <2>1. o = m.out /\ g = 4 * m.at
      BY <1>5, Zenon DEF Aligned
    <2>2. g = 4 * Len(Buffer[c]) => Over(c, m)
      <3>1. g = 4 * Len(Buffer[c]) => m.at = Len(Buffer[c])
        BY <1>0, <1>3, <2>1
      <3>2. Len(Buffer[c]) \notin 0 .. Len(Buffer[c]) - 1
        BY <1>0
      <3> QED BY <3>1, <3>2, Zenon DEF Over
    <2> QED BY <1>2, <1>4, <2>1, <2>2, Zenon
  <1>6. CASE o = m.out /\ Over(c, m)
    BY <1>2, <1>4, <1>6, Zenon
  <1>7. ASSUME NEW k \in Nat, Midway(c, st, g, o, m, k)
        PROVE  /\ n + 1 \in Nat
               /\ Len(o) <= Len(Read[n + 1][c].out) /\ o = SubSeq(Read[n + 1][c].out, 1, Len(o))
               /\ g = 4 * Len(Buffer[c]) => Over(c, Read[n + 1][c]) /\ o = Read[n + 1][c].out
    <2>1. ~Over(c, m)
      BY <1>7, ZenonT(30) DEF Midway
    <2>2. PICK i \in Nat : i = m.at + 1 /\ i \in 1 .. Len(Buffer[c])
      BY <2>1, HeaderWord, SMTT(30)
    <2>3. PICK w \in Nat : w = Buffer[c][i]
      BY <2>1, <2>2, HeaderWord, Zenon
    <2>4. /\ IsIncreasing(w) \/ IsNonIncreasing(w)
          /\ k < Count(w) /\ i + k <= Len(Buffer[c]) /\ g = 4 * (i + k)
          /\ o = m.out \o SubSeq(Entries(c, i), 1, k)
      BY <1>7, <2>2, <2>3, Zenon DEF Midway
    <2>5. PICK l \in Nat, y \in Nat : l = Len(Buffer[c]) /\ y = Count(w)
      <3>1. Count(w) \in Nat
        BY DecodeTypes, FieldsAreNat, ZenonT(30)
      <3> QED BY <1>0, <3>1
    <2>6. PICK e \in Seq(CacheEntry), z \in Nat :
            e = Entries(c, i) /\ Len(e) = z /\ z = IF i + y <= l THEN y ELSE l - i
      <3>1. Size(c, i) = IF i + y <= l THEN y ELSE l - i
        BY <2>3, <2>5, SMTT(30) DEF Size
      <3>2. Size(c, i) \in Nat /\ Entries(c, i) \in Seq(CacheEntry) /\ Len(Entries(c, i)) = Size(c, i)
        BY <2>2, EntriesAre
      <3> QED BY ONLY <3>1, <3>2, Zenon
    <2>7. k <= z /\ (g = 4 * l => z = k /\ i + y > l)
      <3>1. k < y /\ i + k <= l /\ g = 4 * (i + k)
        BY <2>4, <2>5, Zenon
      <3> QED BY ONLY <2>6, <3>1, i \in Nat, k \in Nat, l \in Nat, y \in Nat
    <2>8. PICK r : r = [m EXCEPT !.at = m.at + 1 + Count(w), !.out = m.out \o Entries(c, m.at + 1)]
      BY Zenon
    <2>9. Read[n + 1][c] = r
      <3>1. w = Buffer[c][m.at + 1]
        BY <2>2, <2>3, Zenon
      <3>2. ObeyForms(c, m, w)
        BY <3>1, ObeyIs, Zenon
      <3>3. Read[n + 1][c] = Obey(c, m)
        BY <1>2, <2>1, ReadNext
      <3> QED BY <2>4, <2>8, <3>2, <3>3 DEF ObeyForms
    <2>10. r.at = i + y /\ r.out = m.out \o e
      <3>1. r.at = m.at + 1 + Count(w) /\ r.out = m.out \o Entries(c, m.at + 1)
        BY <2>8, Zenon DEF Reading
      <3> QED BY ONLY <2>2, <2>5, <2>6, <3>1, Zenon
    <2>11. o = m.out \o SubSeq(e, 1, k)
      BY <2>4, <2>6, Zenon
    <2>12. Len(o) <= Len(m.out \o e) /\ o = SubSeq(m.out \o e, 1, Len(o))
      <3>1. PICK a \in Seq(CacheEntry) : a = m.out
        BY <1>3, Zenon
      <3>2. k <= Len(e) /\ o = a \o SubSeq(e, 1, k)
        BY <2>6, <2>7, <2>11, <3>1
      <3>3. Len(o) <= Len(a \o e) /\ o = SubSeq(a \o e, 1, Len(o))
        BY ONLY <3>2, a \in Seq(CacheEntry), e \in Seq(CacheEntry), k \in Nat, PrefixOfConcat
      <3> QED BY ONLY <3>1, <3>3, Zenon
    <2>13. ASSUME g = 4 * l PROVE Over(c, r) /\ o = m.out \o e
      <3>1. Len(e) = k /\ i + y > l
        BY <2>6, <2>7, <2>13, Zenon
      <3>2. SubSeq(e, 1, k) = e
        BY <3>1, SubSeqFull, Zenon
      <3>3. i + y \notin 0 .. l - 1
        BY <3>1
      <3> QED BY <2>5, <2>10, <2>11, <3>2, <3>3, Zenon DEF Over
    <2>14. n + 1 \in Nat
      OBVIOUS
    <2> QED BY ONLY <2>5, <2>9, <2>10, <2>12, <2>13, <2>14, Zenon
  <1> QED BY <1>1, <1>2, <1>5, <1>6, <1>7, Zenon

LEMMA ToldInvariant ==
  ASSUME Commands = Nat
  PROVE  GuestsSpec => []Told
  <1>1. CommandsFitAll
    <2> SUFFICES ASSUME NEW n \in Nat, NEW c \in Channels, NEW m, m = Read[n][c], ~Over(c, m),
                        NEW w, w = Buffer[c][m.at + 1], IsIncreasing(w)
                 PROVE  Method(w) + 4 * Count(w) <= 8192
      BY SMTT(30) DEF CommandsFitAll
    <2>1. m \in Readings[c]
      BY Zenon DEF Readings
    <2>2. Method(w) + 4 * Count(w) <= 2^13
      BY <2>1, CommandsFit, Zenon
    <2> QED BY <2>2, SMTT(30)
  <1>2. GuestsInit => Told
    BY InitIInv, InitDecoding, Zenon DEF GuestsInit, Told
  <1>3. Told /\ [GuestsNext]_<<vars, wild>> => Told'
    BY <1>1, StepTold, Zenon
  <1> QED BY <1>2, <1>3, PTL DEF GuestsSpec

\* What the pusher appends for a channel is a beginning of what its pushbuffer
\* means (StreamIsDecoded), for any number of channels and any pushbuffers that
\* keep within CommandsFit and BuffersFit: however PUT writes, suspensions and
\* channel switches cut commands and subroutines into pieces, no turn of the loop
\* of pfifo_run_pusher loses, repeats or misreads a word.
THEOREM StreamDecoded ==
  ASSUME Commands = Nat
  PROVE  GuestsSpec => []StreamIsDecoded
  <1>1. Told => StreamIsDecoded
    <2> SUFFICES ASSUME Told, ~wild, NEW c \in Channels
                 PROVE  \E m \in Readings[c] :
                          Len(emitted[c]) <= Len(m.out) /\ emitted[c] = SubSeq(m.out, 1, Len(emitted[c]))
      BY ZenonT(30) DEF StreamIsDecoded
    <2>1. Position(c, Live(c), ctl[c].get, emitted[c], aborted)
      BY Zenon DEF Told, Decoding
    <2>2. PICK n \in Nat : /\ Len(emitted[c]) <= Len(Read[n][c].out)
                           /\ emitted[c] = SubSeq(Read[n][c].out, 1, Len(emitted[c]))
      BY <2>1, PositionMeans
    <2>3. Read[n][c] \in Readings[c]
      BY Zenon DEF Readings
    <2> QED BY <2>2, <2>3, Zenon
  <1> QED BY <1>1, ToldInvariant, PTL

\* ...and it is all of it once the channel's GET is at the end (EndMeansAll):
\* nothing of a pushbuffer is skipped by the pusher's last turn.
THEOREM EndDecoded ==
  ASSUME Commands = Nat
  PROVE  GuestsSpec => []EndMeansAll
  <1>1. Told => EndMeansAll
    <2> SUFFICES ASSUME Told, ~wild, NEW c \in Channels, ctl[c].get = 4 * Len(Buffer[c])
                 PROVE  \E m \in Readings[c] : Over(c, m) /\ emitted[c] = m.out
      BY Zenon DEF EndMeansAll
    <2>1. Position(c, Live(c), ctl[c].get, emitted[c], aborted)
      BY Zenon DEF Told, Decoding
    <2>2. PICK n \in Nat : Over(c, Read[n][c]) /\ emitted[c] = Read[n][c].out
      BY <2>1, PositionMeans, SMTT(30)
    <2>3. Read[n][c] \in Readings[c]
      BY Zenon DEF Readings
    <2> QED BY <2>2, <2>3, Zenon
  <1> QED BY <1>1, ToldInvariant, PTL
=============================================================================
