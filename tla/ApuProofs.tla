----------------------------- MODULE ApuProofs -----------------------------
(* Proofs about Apu, for any finite set of voices.                         *)
EXTENDS Apu, SequenceTheorems, FiniteSetTheorems, TLAPS

LEMMA InitTypes == Init => TypeOK
  <1> SUFFICES ASSUME Init PROVE TypeOK
    BY Zenon
  <1>1. link \in [Voice -> Handle] /\ feav \in [lst : {Inherit} \cup Lists, value : Handle]
    BY Zenon DEF Init, Handle
  <1>2. forced \in BOOLEAN /\ irq \in BOOLEAN /\ timer \in BOOLEAN /\ aborted \in BOOLEAN
    BY Zenon DEF Init
  <1>3. top \in [Lists -> Handle] /\ cur \in [Lists -> Handle] /\ decoded \in Handle
    BY Zenon DEF Init, Handle
  <1>4. active \subseteq Voice /\ ists \subseteq Bits /\ ien \subseteq Bits /\ reported \subseteq Voice
    BY Zenon DEF Init
  <1>5. frame \in 0..3
    BY DEF Init
  <1> QED BY <1>1, <1>2, <1>3, <1>4, <1>5, Zenon DEF TypeOK

LEMMA IrqTypes ==
  ASSUME TypeOK, NEW st \in SUBSET Bits, update_irq(st)
  PROVE  irq' \in BOOLEAN /\ ists' \subseteq Bits /\ ien' \subseteq Bits
BY Zenon DEF TypeOK, update_irq, Bits

LEMMA IdleVoiceTypes ==
  ASSUME TypeOK, NEW v \in Voice, fe_IDLE_VOICE(v)
  PROVE  /\ decoded' \in Handle /\ reported' \subseteq Voice /\ aborted' \in BOOLEAN
         /\ irq' \in BOOLEAN /\ ists' \subseteq Bits /\ ien' \subseteq Bits
  <1>1. decoded' \in Handle /\ reported' \subseteq Voice /\ aborted' \in BOOLEAN
    BY Zenon DEF fe_IDLE_VOICE, TypeOK, Handle
  <1>2. CASE forced
    <2>1. ists \cup {"FETINT"} \in SUBSET Bits
      BY Zenon DEF TypeOK, Bits
    <2> QED BY <1>1, <1>2, <2>1, IrqTypes, Zenon DEF fe_IDLE_VOICE
  <1>3. CASE ~forced
    BY <1>1, <1>3, Zenon DEF fe_IDLE_VOICE, irqVars, TypeOK
  <1> QED BY <1>2, <1>3, Zenon

LEMMA FrameTypes == TypeOK /\ Frame => TypeOK'
  <1> SUFFICES ASSUME TypeOK, Frame PROVE TypeOK'
    BY Zenon
  <1>1. CASE se_frame_begin
    BY <1>1 DEF se_frame_begin, TypeOK, memVars, irqVars, Lists
  <1>2. CASE se_frame_voice
    <2>1. frame \in Lists /\ cur[frame] \in Voice
      BY <1>2 DEF se_frame_voice, TypeOK, Lists, Handle
    <2>2. /\ decoded' \in Handle /\ reported' \subseteq Voice /\ aborted' \in BOOLEAN
          /\ irq' \in BOOLEAN /\ ists' \subseteq Bits /\ ien' \subseteq Bits
      BY <1>2, <2>1, IdleVoiceTypes, Zenon DEF se_frame_voice, TypeOK, irqVars
    <2>3. cur' \in [Lists -> Handle]
      BY <1>2, <2>1, Zenon DEF se_frame_voice, TypeOK
    <2> QED BY <1>2, <2>2, <2>3, Zenon DEF se_frame_voice, TypeOK, memVars
  <1>3. CASE se_frame_list
    BY <1>3 DEF se_frame_list, TypeOK, memVars, irqVars, Lists
  <1> QED BY <1>1, <1>2, <1>3, Zenon DEF Frame

LEMMA GuestTypes == TypeOK /\ Guest => TypeOK'
  <1> SUFFICES ASSUME TypeOK, Guest PROVE TypeOK'
    BY Zenon
  <1>1. ASSUME NEW val, apu_write_ISTS(val) PROVE TypeOK'
    <2>1. ists \ val \in SUBSET Bits
      BY Zenon DEF TypeOK
    <2> QED BY <1>1, <2>1, IrqTypes, Zenon DEF apu_write_ISTS, TypeOK, memVars
  <1>2. ASSUME NEW val \in {{}, Bits}, apu_write_IEN(val) PROVE TypeOK'
    BY <1>2, Zenon DEF apu_write_IEN, TypeOK, memVars
  <1>3. ASSUME NEW b \in BOOLEAN, apu_write_FETFORCE1(b) \/ apu_write_SECTL(b) PROVE TypeOK'
    BY <1>3, Zenon DEF apu_write_FETFORCE1, apu_write_SECTL, TypeOK, memVars, irqVars
  <1>4. ASSUME NEW l \in {Inherit} \cup Lists, NEW h \in Handle, fe_SET_ANTECEDENT_VOICE(l, h)
        PROVE  TypeOK'
    BY <1>4, Zenon DEF fe_SET_ANTECEDENT_VOICE, TypeOK, memVars, irqVars, Handle
  <1>5. ASSUME NEW v \in Voice, fe_VOICE_ON(v) PROVE TypeOK'
    <2>1. feav.lst \in {Inherit} \cup Lists /\ feav.value \in Handle
      BY Zenon DEF TypeOK
    <2>2. link' \in [Voice -> Handle] /\ top' \in [Lists -> Handle]
      BY <1>5, <2>1 DEF fe_VOICE_ON, TypeOK, memVars, Handle
    <2> QED BY <1>5, <2>2, Zenon DEF fe_VOICE_ON, TypeOK, memVars, irqVars, Handle
  <1>6. ASSUME NEW v \in Voice, fe_VOICE_OFF(v) \/ WriteVoice(v) PROVE TypeOK'
    BY <1>6, Zenon DEF fe_VOICE_OFF, WriteVoice, TypeOK, irqVars, Handle
  <1>7. CASE fe_SET_CURRENT_VOICE
    BY <1>7, Zenon DEF fe_SET_CURRENT_VOICE, TypeOK, memVars, irqVars, Handle
  <1>8. CASE Unlink
    <2>1. decoded \in Voice
      BY <1>8, Zenon DEF Unlink, Linked
    <2>2. link' \in [Voice -> Handle] /\ top' \in [Lists -> Handle]
      BY <1>8, <2>1, Zenon DEF Unlink, TypeOK
    <2> QED BY <1>8, <2>2, Zenon DEF Unlink, TypeOK, irqVars
  <1>9. None \in Handle /\ Inherit \in {Inherit} \cup Lists /\ Lists \subseteq {Inherit} \cup Lists
    BY Zenon DEF Handle
  <1> QED BY <1>1, <1>2, <1>3, <1>4, <1>5, <1>6, <1>7, <1>8, <1>9, Zenon
          DEF Guest, Registers, FrontEnd, VoiceOn

LEMMA NextTypes == TypeOK /\ [Next]_vars => TypeOK'
  <1> SUFFICES ASSUME TypeOK, [Next]_vars PROVE TypeOK'
    BY Zenon
  <1>1. CASE UNCHANGED vars
    BY <1>1, Zenon DEF vars, memVars, irqVars, TypeOK
  <1> QED BY <1>1, FrameTypes, GuestTypes, Zenon DEF Next, Halted

\* The registers, the lists in guest memory and se_frame's place in them keep their
\* types: in particular the frame never goes past the third list.
THEOREM ApuTypes == Spec => []TypeOK
BY InitTypes, NextTypes, PTL DEF Spec
-----------------------------------------------------------------------------
(* se_frame.                                                               *)

LEMMA LinkedIs ==
  ASSUME NEW v
  PROVE  v \in Linked <=> v \in Voice /\ \A S \in SUBSET Voice : Closed(S) => v \in S
BY Zenon DEF Linked

\* The tops, and the link of a voice in the lists, are in the lists.
LEMMA LinkedTop == ASSUME TypeOK, NEW l \in Lists PROVE top[l] \in Linked \cup {None}
BY LinkedIs, Zenon DEF TypeOK, Handle, Closed

LEMMA LinkedLink == ASSUME TypeOK, NEW v \in Linked PROVE link[v] \in Linked \cup {None}
BY LinkedIs, Zenon DEF TypeOK, Handle, Closed

LEMMA LinkedKept == UNCHANGED <<link, top>> => Linked' = Linked
BY Zenon DEF Linked, Closed

\* The voices V that the frame has visited: those in the lists before the current
\* one, and in the current one up to the voice that comes next.
Visited(V) ==
  /\ reported = V \ active
  /\ V \subseteq Linked
  /\ cur[frame] \in Linked \cup {None}
  /\ \A l \in 1 .. frame : top[l] \in V \cup {None, cur[frame]}
  /\ \A v \in V : link[v] \in V \cup {None, cur[frame]}

FrameInv ==
  /\ frame = 0 => reported = {}
  /\ ~aborted /\ reported # {} /\ Bits \subseteq ien => irq
  /\ frame # 0 => \E V \in SUBSET Voice : Visited(V)

LEMMA FrameBegins == TypeOK /\ FrameInv /\ se_frame_begin => FrameInv'
  <1> SUFFICES ASSUME TypeOK, FrameInv, se_frame_begin PROVE FrameInv'
    BY Zenon
  <1>1. frame' = 1 /\ cur'[1] = top[1] /\ reported' = {} /\ UNCHANGED <<link, top, active>>
    BY DEF se_frame_begin, FrameInv, TypeOK, Lists, memVars
  <1>2. Linked' = Linked
    BY <1>1, LinkedKept, Zenon
  <1>3. top[1] \in Linked \cup {None}
    BY LinkedTop DEF Lists
  <1>4. Visited({})'
    BY <1>1, <1>2, <1>3 DEF Visited
  <1> QED BY <1>1, <1>4, Zenon DEF FrameInv

LEMMA FrameVisits == TypeOK /\ FrameInv /\ se_frame_voice => FrameInv'
  <1> SUFFICES ASSUME TypeOK, FrameInv, se_frame_voice PROVE FrameInv'
    BY Zenon
  <1>1. frame \in Lists /\ frame # 0 /\ frame' = frame /\ cur[frame] # None
    BY DEF se_frame_voice, TypeOK, Lists
  <1>2. PICK V \in SUBSET Voice : Visited(V)
    BY <1>1, Zenon DEF FrameInv
  <1>3. PICK v : v = cur[frame]
    BY Zenon
  <1>4. v \in Linked /\ v \in Voice
    BY <1>1, <1>2, <1>3, Zenon DEF Visited, Linked
  <1>5. cur'[frame'] = link[v] /\ UNCHANGED <<link, top, active>>
    BY <1>1, <1>3, Zenon DEF se_frame_voice, TypeOK, memVars
  <1>6. Linked' = Linked
    BY <1>5, LinkedKept, Zenon
  <1>7. reported' = (V \cup {v}) \ active
    BY <1>2, <1>3, Zenon DEF se_frame_voice, fe_IDLE_VOICE, Visited
  <1>8. link[v] \in Linked \cup {None}
    BY <1>4, LinkedLink, Zenon
  <1>9. Visited(V \cup {v})'
    BY <1>1, <1>2, <1>3, <1>4, <1>5, <1>6, <1>7, <1>8, Zenon DEF Visited
  <1>10. ~aborted' /\ reported' # {} /\ Bits \subseteq ien' => irq'
    <2>1. CASE v \in active
      BY <1>3, <2>1, Zenon DEF se_frame_voice, FrameInv, irqVars
    <2>2. CASE v \notin active
      BY <1>3, <2>2, Zenon DEF se_frame_voice, fe_IDLE_VOICE, update_irq, Bits
    <2> QED BY <2>1, <2>2, Zenon
  <1> QED BY <1>1, <1>4, <1>9, <1>10, Zenon DEF FrameInv

LEMMA FrameMovesOn == TypeOK /\ FrameInv /\ se_frame_list => FrameInv'
  <1> SUFFICES ASSUME TypeOK, FrameInv, se_frame_list PROVE FrameInv'
    BY Zenon
  <1>1. frame \in 1 .. 3 /\ cur[frame] = None /\ UNCHANGED <<link, top, active>>
    BY DEF se_frame_list, TypeOK, memVars
  <1>2. CASE frame < 3
    <2>1. PICK V \in SUBSET Voice : Visited(V)
      BY <1>1 DEF FrameInv
    <2>2. frame + 1 \in Lists /\ frame' = frame + 1 /\ cur'[frame + 1] = top[frame + 1]
      BY <1>1, <1>2 DEF se_frame_list, Lists
    <2>3. Linked' = Linked
      BY <1>1, LinkedKept, Zenon
    <2>4. top[frame + 1] \in Linked \cup {None}
      BY <2>2, LinkedTop, Zenon
    <2>5. reported' = reported /\ UNCHANGED irqVars /\ aborted' = aborted
      BY <1>2, Zenon DEF se_frame_list
    <2>6. \A l \in 1 .. frame' : top[l] \in V \cup {None, cur'[frame']}
      BY <1>1, <2>1, <2>2 DEF Visited
    <2>7. Visited(V)'
      BY <1>1, <2>1, <2>2, <2>3, <2>4, <2>5, <2>6, Zenon DEF Visited
    <2> QED BY <1>1, <2>2, <2>5, <2>7 DEF FrameInv, irqVars
  <1>3. CASE ~(frame < 3)
    BY <1>1, <1>3, Zenon DEF se_frame_list, FrameInv
  <1> QED BY <1>2, <1>3, Zenon

LEMMA GuestOutside == FrameInv /\ Guest => FrameInv'
  <1> SUFFICES ASSUME FrameInv, Guest PROVE FrameInv'
    BY Zenon
  <1>1. frame = 0 /\ reported = {} /\ UNCHANGED <<frame, reported>>
    BY Zenon DEF Guest, FrameInv, Registers, FrontEnd, VoiceOn, Unlink, WriteVoice, apu_write_ISTS,
           apu_write_IEN, apu_write_FETFORCE1, apu_write_SECTL, fe_SET_ANTECEDENT_VOICE,
           fe_VOICE_ON, fe_VOICE_OFF, fe_SET_CURRENT_VOICE
  <1> QED BY <1>1, Zenon DEF FrameInv

LEMMA FrameInvStep == TypeOK /\ FrameInv /\ [Next]_vars => FrameInv'
  <1> SUFFICES ASSUME TypeOK, FrameInv, [Next]_vars PROVE FrameInv'
    BY Zenon
  <1>1. CASE UNCHANGED vars
    <2>1. UNCHANGED <<link, top, active, cur, frame, reported, ien, irq, aborted>>
      BY <1>1, Zenon DEF vars, memVars, irqVars
    <2>2. \A V : Visited(V) => Visited(V)'
      BY <2>1, LinkedKept, Zenon DEF Visited
    <2> QED BY <2>1, <2>2, Zenon DEF FrameInv
  <1> QED BY <1>1, FrameBegins, FrameVisits, FrameMovesOn, GuestOutside, Zenon DEF Next, Halted, Frame

LEMMA FrameCovers ==
  ASSUME TypeOK, FrameInv, Next, frame # 0, frame' = 0
  PROVE  /\ reported = Linked \ active
         /\ reported # {} /\ Bits \subseteq ien => irq
  <1>1. ~aborted /\ se_frame_list /\ frame = 3
    BY DEF Next, Halted, Frame, Guest, se_frame_begin, se_frame_voice, se_frame_list, vars,
           TypeOK
  <1>2. PICK V \in SUBSET Voice : Visited(V)
    BY <1>1, Zenon DEF FrameInv
  <1>3. Closed(V)
    BY <1>1, <1>2, Zenon DEF Visited, Closed, se_frame_list, Lists
  <1>4. Linked = V
    BY <1>2, <1>3, LinkedIs, Zenon DEF Visited
  <1> QED BY <1>1, <1>2, <1>4, Zenon DEF FrameInv, Visited

\* se_frame, walking links in guest memory that may have been changed since the last
\* frame, gives SE2FE_IDLE_VOICE every voice of the three lists that is not active,
\* and no other voice, and leaves the interrupt asserted if the driver enabled it.
THEOREM FramesReport == Spec => FrameReports
  <1>1. Init => FrameInv
    BY Zenon DEF Init, FrameInv
  <1>2. TypeOK /\ FrameInv /\ [Next]_vars
          => [frame # 0 /\ frame' = 0 =>
                /\ reported = Linked \ active
                /\ reported # {} /\ Bits \subseteq ien => irq]_vars
    BY FrameCovers, Zenon
  <1> QED BY <1>1, <1>2, ApuTypes, FrameInvStep, PTL DEF Spec, FrameReports
-----------------------------------------------------------------------------
(* The lists.                                                              *)

\* The least-number principle.
LEMMA NatMin == ASSUME NEW T \in SUBSET Nat, T # {} PROVE \E n \in T : \A m \in T : n <= m
  <1> DEFINE R == OpToRel(<, Nat)
  <1>1. IsWellFoundedOn(R, Nat)
    BY NatLessThanWellFounded, Zenon
  <1>2. ASSUME NEW x \in Nat, NEW y \in Nat, y < x PROVE <<y, x>> \in R
    BY <1>2, Zenon DEF OpToRel
  <1> HIDE DEF R
  <1>3. PICK n \in T : \A m \in T : ~(<<m, n>> \in R)
    BY <1>1, WFMin, Zenon
  <1>4. ASSUME NEW m \in T PROVE n <= m
    <2>1. n \in Nat /\ m \in Nat /\ ~(<<m, n>> \in R)
      BY <1>3, Zenon
    <2>2. ~(m < n)
      BY <2>1, <1>2, Zenon
    <2> QED BY <2>1, <2>2
  <1> QED BY <1>4, Zenon

\* The handle at place i of a list: 0xFFFF after the last voice.
Nth(s, i) == IF i \in 1 .. Len(s) THEN s[i] ELSE None

\* The links in memory string the voices of s together, from the top of list l.
Strung(s, l) ==
  /\ top[l] = Nth(s, 1)
  /\ \A i \in 1 .. Len(s) : link[s[i]] = Nth(s, i + 1)

\* No voice is twice in the lists L.
Distinct(L) ==
  \A l, m \in Lists : \A i \in 1 .. Len(L[l]), j \in 1 .. Len(L[m]) :
    L[l][i] = L[m][j] => l = m /\ i = j

Shape(L) == Distinct(L) /\ \A l \in Lists : Strung(L[l], l)

Shapes == [Lists -> Seq(Voice)]
ListsInv == \E L \in Shapes : Shape(L)

\* The recursion of Walk, which at most n turns of the loop define.
Turn(f, n) ==
  [h \in Handle |-> IF n = 0 \/ h = None THEN <<>> ELSE <<h>> \o f[n - 1][link[h]]]
Turns(f, k) == f = [n \in 0 .. k |-> Turn(f, n)]

LEMMA TurnsExist == ASSUME NEW k \in Nat PROVE \E f : Turns(f, k)
  <1> DEFINE T == {n \in Nat : ~\E f : Turns(f, n)}
  <1> SUFFICES ASSUME T # {} PROVE FALSE
    BY Zenon
  <1>1. PICK n \in T : \A m \in T : n <= m
    BY NatMin, Zenon
  <1>2. n \in Nat /\ ~\E f : Turns(f, n)
    BY Zenon
  <1>3. CASE n = 0
    <2> DEFINE f == [m \in 0 .. 0 |-> [h \in Handle |-> <<>>]]
    <2>1. Turns(f, 0)
      BY DEF Turns, Turn
    <2> QED BY <1>2, <1>3, <2>1, Zenon
  <1>4. CASE n # 0
    <2>1. n - 1 \in Nat /\ n - 1 \notin T
      BY <1>1, <1>2, <1>4
    <2>2. PICK f : Turns(f, n - 1)
      BY <2>1, Zenon
    <2> DEFINE g == [m \in 0 .. n |-> IF m = n THEN Turn(f, n) ELSE f[m]]
    <2>3. ASSUME NEW m \in 0 .. n PROVE g[m] = Turn(g, m)
      <3>1. m = 0 \/ (m # 0 /\ m - 1 \in 0 .. n /\ m - 1 # n /\ m - 1 \in 0 .. n - 1)
        BY <1>2, <1>4
      <3>2. m # 0 => g[m - 1] = f[m - 1]
        BY <3>1, Zenon
      <3>3. Turn(g, m) = Turn(f, m)
        <4>1. PICK q : q = g
          BY Zenon
        <4>2. m = 0 \/ q[m - 1] = f[m - 1]
          BY <3>2, <4>1, Zenon
        <4>3. Turn(q, m) = Turn(f, m)
          BY ONLY <4>2, Zenon DEF Turn
        <4> QED BY <4>1, <4>3, Zenon
      <3>4. m # n => m \in 0 .. n - 1
        BY <1>2, <1>4
      <3>5. m # n => f[m] = Turn(f, m)
        BY <2>2, <3>4, Zenon DEF Turns
      <3> QED BY <3>3, <3>5, Zenon
    <2>4. Turns(g, n)
      BY <2>3, Zenon DEF Turns
    <2> QED BY <1>2, <2>4, Zenon
  <1> QED BY <1>3, <1>4, Zenon

\* From place i of a list on, enough turns find the rest of it.
LEMMA TurnsFind ==
  ASSUME NEW l \in Lists, NEW s \in Seq(Voice), Strung(s, l),
         NEW k \in Nat, NEW f, Turns(f, k)
  PROVE  \A n \in 0 .. k : \A i \in 1 .. Len(s) + 1 :
           Len(s) + 1 <= n + i => f[n][Nth(s, i)] = SubSeq(s, i, Len(s))
  <1> DEFINE Wrong(n, i) == Len(s) + 1 <= n + i /\ f[n][Nth(s, i)] # SubSeq(s, i, Len(s))
             T == {n \in 0 .. k : \E i \in 1 .. Len(s) + 1 : Wrong(n, i)}
  <1> SUFFICES ASSUME T # {} PROVE FALSE
    BY Zenon
  <1>1. T \in SUBSET Nat /\ Len(s) \in Nat
    OBVIOUS
  <1>2. PICK n \in T : \A m \in T : n <= m
    BY <1>1, NatMin, Zenon
  <1>3. PICK i \in 1 .. Len(s) + 1 : Wrong(n, i)
    BY Zenon
  <1>4. n \in 0 .. k /\ n \in Nat /\ i \in Nat
    BY <1>1
  <1>5. f[n] = Turn(f, n)
    BY <1>4, Zenon DEF Turns
  <1>6. CASE i = Len(s) + 1
    <2>1. Nth(s, i) = None
      BY <1>1, <1>6 DEF Nth
    <2>2. f[n][None] = <<>>
      BY <1>5, Zenon DEF Turn, Handle
    <2>3. SubSeq(s, i, Len(s)) = <<>>
      BY <1>1, <1>4, <1>6, SubSeqEmpty
    <2> QED BY <1>3, <2>1, <2>2, <2>3, Zenon
  <1>7. CASE i # Len(s) + 1
    <2>1. i \in 1 .. Len(s) /\ i + 1 \in 1 .. Len(s) + 1 /\ Len(s) \in i .. Len(s)
      BY <1>1, <1>4, <1>7
    <2>2. s[i] \in Voice
      BY <2>1, ElementOfSeq, Zenon
    <2>3. Nth(s, i) = s[i] /\ s[i] # None /\ s[i] \in Handle
      BY <2>1, <2>2, VoiceAssumption, Zenon DEF Nth, Handle
    <2>4. n # 0 /\ n - 1 \in 0 .. k /\ n - 1 < n /\ Len(s) + 1 <= (n - 1) + (i + 1)
      <3>1. Len(s) + 1 <= n + i
        BY <1>3, Zenon
      <3> QED BY ONLY <1>1, <1>4, <2>1, <3>1, k \in Nat
    <2>5. n - 1 \notin T
      BY <1>2, <1>4, <2>4, SMTT(30)
    <2>6. f[n - 1][Nth(s, i + 1)] = SubSeq(s, i + 1, Len(s))
      BY <2>1, <2>4, <2>5, Zenon
    <2>7. link[s[i]] = Nth(s, i + 1)
      BY <2>1, Zenon DEF Strung
    <2>8. f[n][s[i]] = <<s[i]>> \o f[n - 1][link[s[i]]]
      BY <1>5, <2>3, <2>4, Zenon DEF Turn
    <2>9. SubSeq(s, i, Len(s)) = <<s[i]>> \o SubSeq(s, i + 1, Len(s))
      BY <2>1, SubSeqRecursiveFirst, Zenon
    <2> QED BY <1>3, <2>3, <2>6, <2>7, <2>8, <2>9, Zenon
  <1> QED BY <1>6, <1>7, Zenon

LEMMA ShapeTypes ==
  ASSUME NEW L \in Shapes, NEW l \in Lists
  PROVE  /\ L[l] \in Seq(Voice) /\ Len(L[l]) \in Nat
         /\ \A i \in 1 .. Len(L[l]) : L[l][i] \in Voice /\ L[l][i] # None
  <1>1. L[l] \in Seq(Voice)
    BY Zenon DEF Shapes
  <1> QED BY <1>1, ElementOfSeq, VoiceAssumption

LEMMA LengthBound ==
  ASSUME NEW L \in Shapes, Distinct(L), NEW l \in Lists
  PROVE  Len(L[l]) <= Cardinality(Voice)
  <1>1. PICK s \in Seq(Voice) : s = L[l]
    BY ShapeTypes, Zenon
  <1>2. s \in [1 .. Len(s) -> Voice] /\ DOMAIN s = 1 .. Len(s) /\ Len(s) \in Nat
    BY LenProperties, Zenon
  <1>3. \A i, j \in 1 .. Len(s) : s[i] = s[j] => i = j
    BY <1>1 DEF Distinct
  <1>4. s \in Injection(1 .. Len(s), Voice)
    BY <1>2, <1>3, Zenon DEF Injection, IsInjective
  <1>5. Cardinality(1 .. Len(s)) <= Cardinality(Voice)
    BY <1>4, VoiceAssumption, FS_Injection, Zenon
  <1>6. Cardinality(1 .. Len(s)) = Len(s)
    <2>1. PICK n \in Nat : n = Len(s)
      BY <1>2, Zenon
    <2>2. 1 \in Int /\ n \in Int
      OBVIOUS
    <2>3. Cardinality(1 .. n) = IF 1 > n THEN 0 ELSE n - 1 + 1
      BY ONLY <2>2, FS_Interval, Zenon
    <2>4. (IF 1 > n THEN 0 ELSE n - 1 + 1) = n
      OBVIOUS
    <2> QED BY <2>1, <2>3, <2>4, Zenon
  <1> QED BY <1>1, <1>5, <1>6, Zenon

LEMMA WalkIs ==
  ASSUME NEW L \in Shapes, Shape(L), NEW l \in Lists
  PROVE  Walk(l) = L[l]
  <1>1. PICK s \in Seq(Voice) : s = L[l]
    BY ShapeTypes, Zenon
  <1>2. PICK k \in Nat : k = Cardinality(Voice) + 1
    BY VoiceAssumption, FS_CardinalityType
  <1>3. Len(s) \in Nat /\ Len(s) + 1 <= k /\ k \in 0 .. k
    BY <1>1, <1>2, LengthBound, VoiceAssumption, FS_CardinalityType DEF Shape
  <1>4. Strung(s, l)
    BY <1>1, Zenon DEF Shape
  <1>5. Walk(l) = (CHOOSE f : Turns(f, k))[k][top[l]]
    BY <1>2, Zenon DEF Walk, Turns, Turn
  <1>6. PICK f : f = CHOOSE g : Turns(g, k)
    BY Zenon
  <1>7. Turns(f, k)
    BY <1>6, TurnsExist, Zenon
  <1>8. 1 \in 1 .. Len(s) + 1 /\ Len(s) + 1 <= k + 1
    BY <1>3
  <1>9. f[k][Nth(s, 1)] = SubSeq(s, 1, Len(s))
    BY <1>3, <1>4, <1>7, <1>8, TurnsFind
  <1> QED BY <1>1, <1>4, <1>5, <1>6, <1>9, SubSeqFull, Zenon DEF Strung

In(L) == {v \in Voice : \E l \in Lists : \E i \in 1 .. Len(L[l]) : L[l][i] = v}

LEMMA LinkedAre ==
  ASSUME NEW L \in Shapes, Shape(L)
  PROVE  Linked = In(L)
  <1>1. Closed(In(L))
    <2>1. ASSUME NEW l \in Lists PROVE top[l] \in In(L) \cup {None}
      <3>1. top[l] = Nth(L[l], 1)
        BY Zenon DEF Shape, Strung
      <3> QED BY <3>1, ShapeTypes, Zenon DEF Nth, In
    <2>2. ASSUME NEW v \in In(L) PROVE link[v] \in In(L) \cup {None}
      <3>1. PICK l \in Lists : \E i \in 1 .. Len(L[l]) : L[l][i] = v
        BY <2>2, Zenon DEF In
      <3>2. PICK i \in 1 .. Len(L[l]) : L[l][i] = v
        BY <3>1, Zenon
      <3>3. link[v] = Nth(L[l], i + 1)
        BY <3>2, Zenon DEF Shape, Strung
      <3> QED BY <3>3, ShapeTypes, Zenon DEF Nth, In
    <2> QED BY <2>1, <2>2, Zenon DEF Closed
  <1>2. ASSUME NEW S \in SUBSET Voice, Closed(S), NEW l \in Lists
        PROVE  \A i \in 1 .. Len(L[l]) : L[l][i] \in S
    <2> DEFINE T == {i \in 1 .. Len(L[l]) : L[l][i] \notin S}
    <2>1. SUFFICES ASSUME T # {} PROVE FALSE
      BY Zenon
    <2>2. PICK n \in T : \A m \in T : n <= m
      <3>1. T \in SUBSET Nat
        BY ShapeTypes
      <3> QED BY <2>1, <3>1, NatMin, Zenon
    <2>3. n \in 1 .. Len(L[l]) /\ L[l][n] \notin S /\ L[l][n] # None /\ n \in Nat /\ Len(L[l]) \in Nat
      BY <2>2, ShapeTypes
    <2>4. CASE n = 1
      <3>1. top[l] = L[l][1]
        BY <2>3, <2>4, Zenon DEF Shape, Strung, Nth
      <3> QED BY <1>2, <2>3, <2>4, <3>1, Zenon DEF Closed
    <2>5. CASE n # 1
      <3>1. n - 1 \in 1 .. Len(L[l]) /\ (n - 1) + 1 = n
        BY <2>3, <2>5
      <3>2. L[l][n - 1] \in S
        BY <2>2, <2>3, <3>1
      <3>3. link[L[l][n - 1]] = L[l][n]
        BY <2>3, <3>1, Zenon DEF Shape, Strung, Nth
      <3> QED BY <1>2, <2>3, <3>2, <3>3, Zenon DEF Closed
    <2> QED BY <2>4, <2>5, Zenon
  <1>3. In(L) \in SUBSET Voice
    BY Zenon DEF In
  <1>4. Linked \subseteq In(L)
    BY <1>1, <1>3, LinkedIs, Zenon
  <1>5. In(L) \subseteq Linked
    BY <1>2, LinkedIs, Zenon DEF In
  <1> QED BY <1>4, <1>5, Zenon
-----------------------------------------------------------------------------
(* One voice more or less in a list.                                       *)

Insert(s, i, v) == SubSeq(s, 1, i) \o <<v>> \o SubSeq(s, i + 1, Len(s))
Remove(s, i) == SubSeq(s, 1, i - 1) \o SubSeq(s, i + 1, Len(s))

Inserted(t, s, i, v) ==
  /\ t \in Seq(Voice) /\ Len(t) = Len(s) + 1
  /\ \A j \in 1 .. Len(t) :
       t[j] = IF j <= i THEN s[j] ELSE IF j = i + 1 THEN v ELSE s[j - 1]
Removed(t, s, i) ==
  /\ t \in Seq(Voice) /\ Len(t) = Len(s) - 1
  /\ \A j \in 1 .. Len(t) : t[j] = IF j < i THEN s[j] ELSE s[j + 1]

LEMMA Shifted ==
  ASSUME NEW d \in Int, NEW n \in Int, NEW j \in Int, d < j, j <= d + n
  PROVE  \E k \in 1 .. n : j = d + k
  <1>1. j - d \in 1 .. n /\ j = d + (j - d)
    OBVIOUS
  <1> QED BY <1>1, Zenon

LEMMA InsertIs ==
  ASSUME NEW s \in Seq(Voice), NEW i \in 0 .. Len(s), NEW v \in Voice, NEW t,
         t = Insert(s, i, v)
  PROVE  Inserted(t, s, i, v)
  <1>1. PICK a : a = SubSeq(s, 1, i)
    BY Zenon
  <1>2. PICK b : b = SubSeq(s, i + 1, Len(s))
    BY Zenon
  <1>3. Len(s) \in Nat /\ i \in Nat
    OBVIOUS
  <1>4. a \in Seq(Voice) /\ Len(a) = i /\ \A j \in 1 .. i : a[j] = s[j]
    BY <1>1, <1>3
  <1>5. b \in Seq(Voice) /\ Len(b) = Len(s) - i /\ \A j \in 1 .. Len(b) : b[j] = s[i + j]
    BY <1>2, <1>3
  <1>6. PICK c : c = a \o <<v>>
    BY Zenon
  <1>7. c \in Seq(Voice) /\ Len(c) = i + 1 /\ c[i + 1] = v /\ \A j \in 1 .. i : c[j] = s[j]
    BY <1>3, <1>4, <1>6
  <1>8. t = c \o b
    BY <1>1, <1>2, <1>6, Zenon DEF Insert
  <1>9. t \in Seq(Voice) /\ Len(t) = Len(s) + 1
    <2>1. b \in Seq(Voice) /\ c \in Seq(Voice)
      BY <1>5, <1>7, Zenon
    <2>2. t \in Seq(Voice) /\ Len(t) = Len(c) + Len(b)
      BY ONLY <1>8, <2>1, ConcatProperties, Zenon
    <2> QED BY <1>3, <1>5, <1>7, <2>2
  <1>10. \A j \in 1 .. i + 1 : t[j] = c[j]
    BY <1>3, <1>5, <1>7, <1>8
  <1>11. \A j \in 1 .. Len(b) : t[i + 1 + j] = b[j]
    BY <1>3, <1>5, <1>7, <1>8
  <1>12. ASSUME NEW j \in 1 .. Len(t)
         PROVE  t[j] = IF j <= i THEN s[j] ELSE IF j = i + 1 THEN v ELSE s[j - 1]
    <2>1. CASE j <= i + 1
      BY <1>3, <1>7, <1>9, <1>10, <2>1
    <2>2. CASE ~(j <= i + 1)
      <3>1. PICK k \in 1 .. Len(b) : j = i + 1 + k
        <4>1. Len(b) \in Int /\ i + 1 \in Int /\ j \in Int
          BY <1>3, <1>5, <1>9
        <4>2. i + 1 < j /\ j <= i + 1 + Len(b)
          BY <1>3, <1>5, <1>9, <2>2
        <4> QED BY <4>1, <4>2, Shifted, Zenon
      <3>2. t[j] = s[i + k] /\ i + k = j - 1 /\ ~(j <= i) /\ j # i + 1
        BY <1>3, <1>5, <1>11, <3>1, <2>2
      <3> QED BY <3>2, Zenon
    <2> QED BY <2>1, <2>2, Zenon
  <1> QED BY <1>9, <1>12, Zenon DEF Inserted

LEMMA RemoveIs ==
  ASSUME NEW s \in Seq(Voice), NEW i \in 1 .. Len(s), NEW t, t = Remove(s, i)
  PROVE  Removed(t, s, i)
  <1>1. PICK a : a = SubSeq(s, 1, i - 1)
    BY Zenon
  <1>2. PICK b : b = SubSeq(s, i + 1, Len(s))
    BY Zenon
  <1>3. Len(s) \in Nat /\ i \in Nat /\ i - 1 \in Nat
    OBVIOUS
  <1>4. a \in Seq(Voice) /\ Len(a) = i - 1 /\ \A j \in 1 .. i - 1 : a[j] = s[j]
    BY <1>1, <1>3
  <1>5. b \in Seq(Voice) /\ Len(b) = Len(s) - i /\ \A j \in 1 .. Len(b) : b[j] = s[i + j]
    BY <1>2, <1>3
  <1>6. t = a \o b
    BY <1>1, <1>2, Zenon DEF Remove
  <1>7. t \in Seq(Voice) /\ Len(t) = Len(s) - 1
    BY <1>3, <1>4, <1>5, <1>6
  <1>8. \A j \in 1 .. i - 1 : t[j] = a[j]
    BY <1>3, <1>4, <1>5, <1>6
  <1>9. \A j \in 1 .. Len(b) : t[i - 1 + j] = b[j]
    BY <1>3, <1>4, <1>5, <1>6
  <1>10. ASSUME NEW j \in 1 .. Len(t) PROVE t[j] = IF j < i THEN s[j] ELSE s[j + 1]
    <2>1. CASE j < i
      BY <1>3, <1>4, <1>7, <1>8, <2>1
    <2>2. CASE ~(j < i)
      <3>1. PICK k \in 1 .. Len(b) : j = i - 1 + k
        <4>1. Len(b) \in Int /\ i - 1 \in Int /\ j \in Int
          BY <1>3, <1>5, <1>7
        <4>2. i - 1 < j /\ j <= i - 1 + Len(b)
          BY <1>3, <1>5, <1>7, <2>2
        <4> QED BY <4>1, <4>2, Shifted, Zenon
      <3>2. t[j] = s[i + k] /\ i + k = j + 1
        BY <1>3, <1>5, <1>9, <3>1
      <3> QED BY <2>2, <3>2, Zenon
    <2> QED BY <2>1, <2>2, Zenon
  <1> QED BY <1>7, <1>10, Zenon DEF Removed

LEMMA InsertNth ==
  ASSUME NEW s \in Seq(Voice), NEW i \in 0 .. Len(s), NEW v, NEW t, Inserted(t, s, i, v),
         NEW a \in Nat, a >= 1
  PROVE  /\ a <= i => Nth(t, a) = Nth(s, a)
         /\ a = i + 1 => Nth(t, a) = v
         /\ a > i + 1 => Nth(t, a) = Nth(s, a - 1)
  <1>1. Len(s) \in Nat /\ i \in Nat /\ i <= Len(s) /\ Len(t) = Len(s) + 1
    BY DEF Inserted
  <1>2. \A j \in 1 .. Len(t) :
          t[j] = IF j <= i THEN s[j] ELSE IF j = i + 1 THEN v ELSE s[j - 1]
    BY Zenon DEF Inserted
  <1>3. CASE a <= i
    <2>1. a \in 1 .. Len(t) /\ a \in 1 .. Len(s) /\ ~(a > i + 1) /\ a # i + 1
      BY <1>1, <1>3
    <2> QED BY <1>2, <1>3, <2>1, Zenon DEF Nth
  <1>4. CASE a = i + 1
    <2>1. a \in 1 .. Len(t) /\ ~(a <= i) /\ ~(a > i + 1)
      BY <1>1, <1>4
    <2> QED BY <1>2, <1>4, <2>1, Zenon DEF Nth
  <1>5. CASE a > i + 1
    <2>1. ~(a <= i) /\ a # i + 1 /\ (a \in 1 .. Len(t) <=> a - 1 \in 1 .. Len(s))
      BY <1>1, <1>5
    <2> QED BY <1>2, <1>5, <2>1, Zenon DEF Nth
  <1> QED BY <1>1, <1>3, <1>4, <1>5, Zenon

LEMMA RemoveNth ==
  ASSUME NEW s \in Seq(Voice), NEW i \in 1 .. Len(s), NEW t, Removed(t, s, i),
         NEW a \in Nat, a >= 1
  PROVE  /\ a < i => Nth(t, a) = Nth(s, a)
         /\ ~(a < i) => Nth(t, a) = Nth(s, a + 1)
  <1>1. Len(s) \in Nat /\ i \in Nat /\ i <= Len(s) /\ Len(t) = Len(s) - 1
    BY DEF Removed
  <1>2. \A j \in 1 .. Len(t) : t[j] = IF j < i THEN s[j] ELSE s[j + 1]
    BY Zenon DEF Removed
  <1>3. CASE a < i
    <2>1. a \in 1 .. Len(t) /\ a \in 1 .. Len(s)
      BY <1>1, <1>3
    <2> QED BY <1>2, <1>3, <2>1, Zenon DEF Nth
  <1>4. CASE ~(a < i)
    <2>1. a \in 1 .. Len(t) <=> a + 1 \in 1 .. Len(s)
      BY <1>1, <1>4
    <2> QED BY <1>2, <1>4, <2>1, Zenon DEF Nth
  <1> QED BY <1>3, <1>4, Zenon

\* Where the voices of the lists were before a voice was inserted or removed.
LEMMA InsertDistinct ==
  ASSUME NEW L \in Shapes, Distinct(L), NEW l \in Lists, NEW i \in 0 .. Len(L[l]),
         NEW v \in Voice, v \notin In(L), NEW M, M = [L EXCEPT ![l] = Insert(L[l], i, v)]
  PROVE  M \in Shapes /\ Distinct(M)
  <1>1. PICK s \in Seq(Voice) : s = L[l]
    BY ShapeTypes, Zenon
  <1>2. PICK t : t = Insert(s, i, v)
    BY Zenon
  <1>3. /\ t \in Seq(Voice) /\ Len(t) = Len(s) + 1
        /\ \A j \in 1 .. Len(t) :
             t[j] = IF j <= i THEN s[j] ELSE IF j = i + 1 THEN v ELSE s[j - 1]
    <2>1. Inserted(t, s, i, v)
      BY <1>1, <1>2, InsertIs, Zenon
    <2> QED BY <2>1, Zenon DEF Inserted
  <1>4. M \in Shapes /\ M[l] = t /\ \A m \in Lists : m # l => M[m] = L[m]
    BY <1>1, <1>2, <1>3, Zenon DEF Shapes
  <1>5. ASSUME NEW m \in Lists, NEW a \in 1 .. Len(M[m])
        PROVE  \/ m = l /\ a = i + 1 /\ M[m][a] = v
               \/ \E b \in 1 .. Len(L[m]) :
                    M[m][a] = L[m][b] /\ a = IF m = l /\ b > i THEN b + 1 ELSE b
    <2>1. CASE m # l
      BY <1>4, <2>1, Zenon
    <2>2. CASE m = l
      <3>1. a \in 1 .. Len(t) /\ M[m] = t /\ L[m] = s /\ Len(s) \in Nat /\ i \in 0 .. Len(s)
        BY <1>1, <1>4, <2>2
      <3>2. CASE a <= i
        BY <1>3, <2>2, <3>1, <3>2
      <3>3. CASE a = i + 1
        BY <1>3, <2>2, <3>1, <3>3
      <3>4. CASE a > i + 1
        <4>1. a - 1 \in 1 .. Len(s) /\ a - 1 > i /\ a = (a - 1) + 1
          BY <1>3, <3>1, <3>4
        <4>2. t[a] = s[a - 1]
          BY <1>3, <3>1, <3>4
        <4> QED BY <2>2, <3>1, <4>1, <4>2, Zenon
      <3> QED BY <3>1, <3>2, <3>3, <3>4
    <2> QED BY <2>1, <2>2, Zenon
  <1>6. ASSUME NEW m \in Lists, NEW n \in Lists, NEW a \in 1 .. Len(M[m]), NEW b \in 1 .. Len(M[n]),
               M[m][a] = M[n][b]
        PROVE  m = n /\ a = b
    <2>1. CASE M[m][a] = v
      <3>1. \A k \in Lists : \A c \in 1 .. Len(L[k]) : L[k][c] # v
        BY Zenon DEF In
      <3> QED BY <1>5, <1>6, <2>1, <3>1, SMTT(30)
    <2>2. CASE M[m][a] # v
      <3>1. PICK c \in 1 .. Len(L[m]) :
              M[m][a] = L[m][c] /\ a = IF m = l /\ c > i THEN c + 1 ELSE c
        BY <1>5, <2>2, Zenon
      <3>2. PICK d \in 1 .. Len(L[n]) :
              M[n][b] = L[n][d] /\ b = IF n = l /\ d > i THEN d + 1 ELSE d
        BY <1>5, <1>6, <2>2, Zenon
      <3>3. m = n /\ c = d
        BY <1>6, <3>1, <3>2 DEF Distinct
      <3> QED BY <3>1, <3>2, <3>3, Zenon
    <2> QED BY <2>1, <2>2, Zenon
  <1> QED BY <1>4, <1>6, Zenon DEF Distinct

LEMMA RemoveDistinct ==
  ASSUME NEW L \in Shapes, Distinct(L), NEW l \in Lists, NEW i \in 1 .. Len(L[l]),
         NEW M, M = [L EXCEPT ![l] = Remove(L[l], i)]
  PROVE  M \in Shapes /\ Distinct(M)
  <1>1. PICK s \in Seq(Voice) : s = L[l]
    BY ShapeTypes, Zenon
  <1>2. PICK t : t = Remove(s, i)
    BY Zenon
  <1>3. /\ t \in Seq(Voice) /\ Len(t) = Len(s) - 1
        /\ \A j \in 1 .. Len(t) : t[j] = IF j < i THEN s[j] ELSE s[j + 1]
    <2>1. Removed(t, s, i)
      BY <1>1, <1>2, RemoveIs, Zenon
    <2> QED BY <2>1, Zenon DEF Removed
  <1>4. M \in Shapes /\ M[l] = t /\ \A m \in Lists : m # l => M[m] = L[m]
    BY <1>1, <1>2, <1>3, Zenon DEF Shapes
  <1>5. ASSUME NEW m \in Lists, NEW a \in 1 .. Len(M[m])
        PROVE  \E b \in 1 .. Len(L[m]) :
                 M[m][a] = L[m][b] /\ b = IF m = l /\ a >= i THEN a + 1 ELSE a
    <2>1. CASE m # l
      BY <1>4, <2>1, Zenon
    <2>2. CASE m = l
      <3>1. a \in 1 .. Len(t) /\ M[m] = t /\ L[m] = s /\ Len(s) \in Nat /\ i \in 1 .. Len(s)
        BY <1>1, <1>4, <2>2
      <3>2. CASE a < i
        BY <1>3, <2>2, <3>1, <3>2
      <3>3. CASE a >= i
        <4>1. a + 1 \in 1 .. Len(s) /\ t[a] = s[a + 1]
          BY <1>3, <3>1, <3>3
        <4> QED BY <2>2, <3>1, <3>3, <4>1, Zenon
      <3> QED BY <3>1, <3>2, <3>3
    <2> QED BY <2>1, <2>2, Zenon
  <1>6. ASSUME NEW m \in Lists, NEW n \in Lists, NEW a \in 1 .. Len(M[m]), NEW b \in 1 .. Len(M[n]),
               M[m][a] = M[n][b]
        PROVE  m = n /\ a = b
    <2>1. PICK c \in 1 .. Len(L[m]) : M[m][a] = L[m][c] /\ c = IF m = l /\ a >= i THEN a + 1 ELSE a
      BY <1>5, Zenon
    <2>2. PICK d \in 1 .. Len(L[n]) : M[n][b] = L[n][d] /\ d = IF n = l /\ b >= i THEN b + 1 ELSE b
      BY <1>5, Zenon
    <2>3. m = n /\ c = d
      BY <1>6, <2>1, <2>2 DEF Distinct
    <2> QED BY <2>1, <2>2, <2>3
  <1> QED BY <1>4, <1>6, Zenon DEF Distinct

\* A new voice v linked in after place i of list l, or at its top.
LinksIn(L, l, i, v) ==
  /\ link'[v] = Nth(L[l], i + 1)
  /\ i # 0 => link'[L[l][i]] = v
  /\ top'[l] = IF i = 0 THEN v ELSE top[l]
  /\ \A m \in Lists : m # l => top'[m] = top[m]
  /\ \A u \in Voice : u # v /\ (i # 0 => u # L[l][i]) => link'[u] = link[u]

\* What led to v leads past it.
LinksOut(L, v) ==
  /\ \A m \in Lists : top'[m] = IF top[m] = v THEN link[v] ELSE top[m]
  /\ \A u \in In(L) : link'[u] = IF link[u] = v THEN link[v] ELSE link[u]

LEMMA InsertShape ==
  ASSUME NEW L \in Shapes, Shape(L), NEW l \in Lists, NEW i \in 0 .. Len(L[l]),
         NEW v \in Voice, v \notin In(L), LinksIn(L, l, i, v),
         NEW M, M = [L EXCEPT ![l] = Insert(L[l], i, v)]
  PROVE  M \in Shapes /\ Shape(M)'
  <1>0. /\ link'[v] = Nth(L[l], i + 1)
        /\ i # 0 => link'[L[l][i]] = v
        /\ top'[l] = IF i = 0 THEN v ELSE top[l]
        /\ \A m \in Lists : m # l => top'[m] = top[m]
        /\ \A u \in Voice : u # v /\ (i # 0 => u # L[l][i]) => link'[u] = link[u]
    BY Zenon DEF LinksIn
  <1>1. PICK s \in Seq(Voice) : s = L[l]
    BY ShapeTypes, Zenon
  <1>2. PICK t : t = Insert(s, i, v)
    BY Zenon
  <1> Inserted(t, s, i, v)
    BY <1>1, <1>2, InsertIs, Zenon
  <1>3. /\ t \in Seq(Voice) /\ Len(t) = Len(s) + 1
        /\ \A j \in 1 .. Len(t) :
             t[j] = IF j <= i THEN s[j] ELSE IF j = i + 1 THEN v ELSE s[j - 1]
    BY Zenon DEF Inserted
  <1>4. M \in Shapes /\ Distinct(M)
    BY InsertDistinct, Zenon DEF Shape
  <1>5. M[l] = t /\ \A m \in Lists : m # l => M[m] = L[m]
    BY <1>1, <1>2, Zenon DEF Shapes
  <1>6. Len(s) \in Nat /\ i \in 0 .. Len(s) /\ i \in Nat
    BY <1>1
  <1>7. \A m \in Lists : \A a \in 1 .. Len(L[m]) : L[m][a] \in Voice /\ L[m][a] # v
    BY ShapeTypes, Zenon DEF In
  <1>8. ASSUME NEW m \in Lists, m # l PROVE Strung(M[m], m)'
    <2>1. ASSUME NEW a \in 1 .. Len(L[m]) PROVE link'[L[m][a]] = Nth(L[m], a + 1)
      <3>1. i # 0 => L[m][a] # L[l][i]
        BY <1>8 DEF Shape, Distinct
      <3>2. link'[L[m][a]] = link[L[m][a]]
        BY <1>0, <1>7, <3>1, Zenon
      <3> QED BY <3>2, Zenon DEF Shape, Strung
    <2>2. top'[m] = Nth(L[m], 1)
      BY <1>0, <1>8, Zenon DEF Shape, Strung
    <2> QED BY <1>5, <1>8, <2>1, <2>2, Zenon DEF Strung
  <1>9. Strung(t, l)'
    <2>1. top'[l] = Nth(t, 1)
      <3>1. CASE i = 0
        BY <1>0, <1>3, <1>6, <3>1 DEF Nth
      <3>2. CASE i # 0
        <4>1. top[l] = Nth(s, 1)
          BY <1>1, Zenon DEF Shape, Strung
        <4>2. Nth(t, 1) = Nth(s, 1)
          <5>1. 1 \in Nat /\ 1 >= 1 /\ 1 <= i
            BY <1>6, <3>2
          <5> QED BY <1>6, <5>1, InsertNth
        <4> QED BY <1>0, <3>2, <4>1, <4>2, Zenon
      <3> QED BY <3>1, <3>2, Zenon
    <2>2. ASSUME NEW a \in 1 .. Len(t) PROVE link'[t[a]] = Nth(t, a + 1)
      <3>1. CASE a <= i /\ a # i
        <4>1. t[a] = s[a] /\ Nth(t, a + 1) = s[a + 1] /\ Nth(s, a + 1) = s[a + 1] /\ a \in 1 .. Len(s)
          BY <1>3, <1>6, <3>1 DEF Nth
        <4>2. s[a] # s[i]
          <5>1. i \in 1 .. Len(s) /\ a # i
            BY <1>6, <3>1
          <5> QED BY <1>1, <4>1, <5>1, Zenon DEF Shape, Distinct
        <4>3. link'[s[a]] = link[s[a]]
          BY <1>0, <1>1, <1>7, <4>1, <4>2, Zenon
        <4>4. link[s[a]] = Nth(s, a + 1)
          BY <1>1, <4>1, Zenon DEF Shape, Strung
        <4> QED BY <4>1, <4>3, <4>4, Zenon
      <3>2. CASE a = i
        BY <1>0, <1>1, <1>3, <1>6, <3>2 DEF Nth
      <3>3. CASE a = i + 1
        <4>1. t[a] = v
          BY <1>3, <1>6, <3>3
        <4>2. Nth(t, a + 1) = Nth(s, i + 1)
          <5>1. a + 1 \in Nat /\ a + 1 >= 1 /\ a + 1 > i + 1 /\ (a + 1) - 1 = i + 1
            BY <1>6, <3>3
          <5> QED BY <1>6, <5>1, InsertNth
        <4> QED BY <1>0, <1>1, <4>1, <4>2, Zenon
      <3>4. CASE a > i + 1
        <4>0. t[a] = s[a - 1] /\ a - 1 \in 1 .. Len(s) /\ a - 1 # i
          BY <1>3, <1>6, <3>4
        <4>1. Nth(t, a + 1) = Nth(s, a)
          <5>1. a + 1 \in Nat /\ a + 1 >= 1 /\ a + 1 > i + 1 /\ (a + 1) - 1 = a
            BY <1>6, <3>4
          <5> QED BY <1>6, <5>1, InsertNth
        <4>2. i # 0 => s[a - 1] # s[i]
          <5>1. i # 0 => i \in 1 .. Len(s)
            BY <1>6
          <5> QED BY <1>1, <4>0, <5>1 DEF Shape, Distinct
        <4>3. link'[s[a - 1]] = link[s[a - 1]]
          BY <1>0, <1>1, <1>7, <4>0, <4>2, Zenon
        <4>4. link[s[a - 1]] = Nth(s, a)
          <5>1. PICK k \in 1 .. Len(s) : k = a - 1
            BY <4>0, Zenon
          <5>2. link[s[k]] = Nth(s, k + 1)
            BY <1>1, Zenon DEF Shape, Strung
          <5>3. k + 1 = a
            BY <1>6, <5>1
          <5> QED BY <5>1, <5>2, <5>3, Zenon
        <4> QED BY <4>0, <4>1, <4>3, <4>4, Zenon
      <3> QED BY <1>3, <1>6, <3>1, <3>2, <3>3, <3>4
    <2> QED BY <2>1, <2>2, Zenon DEF Strung
  <1>10. \A m \in Lists : Strung(M[m], m)'
    BY <1>5, <1>8, <1>9, Zenon
  <1> QED BY <1>4, <1>10, Zenon DEF Shape, Distinct

LEMMA RemoveShape ==
  ASSUME NEW L \in Shapes, Shape(L), NEW l \in Lists, NEW i \in 1 .. Len(L[l]),
         NEW v, v = L[l][i], LinksOut(L, v), NEW M, M = [L EXCEPT ![l] = Remove(L[l], i)]
  PROVE  M \in Shapes /\ Shape(M)'
  <1>0. /\ \A m \in Lists : top'[m] = IF top[m] = v THEN link[v] ELSE top[m]
        /\ \A u \in In(L) : link'[u] = IF link[u] = v THEN link[v] ELSE link[u]
    BY Zenon DEF LinksOut
  <1>1. PICK s \in Seq(Voice) : s = L[l]
    BY ShapeTypes, Zenon
  <1>2. PICK t : t = Remove(s, i)
    BY Zenon
  <1> Removed(t, s, i)
    BY <1>1, <1>2, RemoveIs, Zenon
  <1>3. /\ t \in Seq(Voice) /\ Len(t) = Len(s) - 1
        /\ \A j \in 1 .. Len(t) : t[j] = IF j < i THEN s[j] ELSE s[j + 1]
    BY Zenon DEF Removed
  <1>4. M \in Shapes /\ Distinct(M)
    BY RemoveDistinct, Zenon DEF Shape
  <1>5. M[l] = t /\ \A m \in Lists : m # l => M[m] = L[m]
    BY <1>1, <1>2, Zenon DEF Shapes
  <1>6. Len(s) \in Nat /\ i \in 1 .. Len(s) /\ i \in Nat /\ v = s[i]
    BY <1>1
  <1>7. \A m \in Lists : \A a \in 1 .. Len(L[m]) : L[m][a] \in In(L)
    BY ShapeTypes, Zenon DEF In
  <1>8. v # None /\ link[v] = Nth(s, i + 1)
    BY <1>1, <1>6, ShapeTypes, Zenon DEF Shape, Strung
  <1>9. ASSUME NEW m \in Lists, NEW a \in Nat, ~(m = l /\ a = i) PROVE Nth(L[m], a) # v
    BY <1>1, <1>6, <1>8, <1>9 DEF Nth, Shape, Distinct
  <1>10. ASSUME NEW m \in Lists, m # l PROVE Strung(M[m], m)'
    <2>1. ASSUME NEW a \in 1 .. Len(L[m]) PROVE link'[L[m][a]] = Nth(L[m], a + 1)
      <3>1. link[L[m][a]] = Nth(L[m], a + 1) /\ a + 1 \in Nat
        BY ShapeTypes DEF Shape, Strung
      <3>2. Nth(L[m], a + 1) # v
        BY <1>9, <1>10, <3>1, Zenon
      <3> QED BY <1>0, <1>7, <3>1, <3>2, Zenon
    <2>2. top'[m] = Nth(L[m], 1)
      <3>1. top[m] = Nth(L[m], 1) /\ Nth(L[m], 1) # v
        BY <1>9, <1>10, Zenon DEF Shape, Strung
      <3> QED BY <1>0, <3>1, Zenon
    <2> QED BY <1>5, <1>10, <2>1, <2>2, Zenon DEF Strung
  <1>11. Strung(t, l)'
    <2>1. top'[l] = Nth(t, 1)
      <3>1. top[l] = Nth(s, 1)
        BY <1>1, Zenon DEF Shape, Strung
      <3>2. CASE i = 1
        <4>1. top[l] = v /\ Nth(t, 1) = Nth(s, 2)
          BY <1>3, <1>6, <3>1, <3>2 DEF Nth
        <4> QED BY <1>0, <1>8, <3>2, <4>1
      <3>3. CASE i # 1
        <4>1. Nth(s, 1) # v
          BY <1>1, <1>9, <3>3, Zenon
        <4>2. Nth(t, 1) = Nth(s, 1)
          <5>1. 1 \in Nat /\ 1 >= 1 /\ 1 < i
            BY <1>6, <3>3
          <5> QED BY <1>6, <5>1, RemoveNth
        <4> QED BY <1>0, <3>1, <4>1, <4>2, Zenon
      <3> QED BY <3>2, <3>3, Zenon
    <2>2. ASSUME NEW a \in 1 .. Len(t) PROVE link'[t[a]] = Nth(t, a + 1)
      <3>1. CASE a < i
        <4>1. t[a] = s[a] /\ a \in 1 .. Len(s) /\ a + 1 \in Nat
          BY <1>3, <1>6, <3>1
        <4>2. link[s[a]] = Nth(s, a + 1) /\ s[a] \in In(L)
          BY <1>1, <1>7, <4>1, Zenon DEF Shape, Strung
        <4>3. CASE a + 1 = i
          <5>1. Nth(s, a + 1) = v /\ Nth(t, a + 1) = Nth(s, i + 1)
            BY <1>3, <1>6, <4>3 DEF Nth
          <5> QED BY <1>0, <1>8, <4>1, <4>2, <5>1
        <4>4. CASE a + 1 # i
          <5>1. Nth(s, a + 1) # v
            BY <1>1, <1>9, <4>1, <4>4, Zenon
          <5>2. Nth(t, a + 1) = Nth(s, a + 1)
            BY <1>3, <1>6, <3>1, <4>4 DEF Nth
          <5> QED BY <1>0, <4>1, <4>2, <5>1, <5>2, Zenon
        <4> QED BY <4>3, <4>4, Zenon
      <3>2. CASE ~(a < i)
        <4>1. t[a] = s[a + 1] /\ a + 1 \in 1 .. Len(s) /\ a + 2 \in Nat /\ a + 2 # i /\ (a + 1) + 1 = a + 2
          BY <1>3, <1>6, <3>2, SMTT(30)
        <4>2. link[s[a + 1]] = Nth(s, a + 2) /\ s[a + 1] \in In(L)
          BY <1>1, <1>7, <4>1, Zenon DEF Shape, Strung
        <4>3. Nth(s, a + 2) # v
          BY <1>1, <1>9, <4>1, Zenon
        <4>4. Nth(t, a + 1) = Nth(s, a + 2)
          <5>1. a + 1 \in Nat /\ a + 1 >= 1 /\ ~(a + 1 < i) /\ (a + 1) + 1 = a + 2
            BY <1>6, <3>2
          <5> QED BY <1>6, <5>1, RemoveNth
        <4> QED BY <1>0, <4>1, <4>2, <4>3, <4>4, Zenon
      <3> QED BY <3>1, <3>2, Zenon
    <2> QED BY <2>1, <2>2, Zenon DEF Strung
  <1>12. \A m \in Lists : Strung(M[m], m)'
    BY <1>5, <1>10, <1>11, Zenon
  <1> QED BY <1>4, <1>12, Zenon DEF Shape, Distinct
-----------------------------------------------------------------------------
(* The steps.                                                              *)

\* What VoiceLists lets a step do to the lists.
Moves(L, M) ==
  \/ M = L
  \/ \E l \in Lists :
       \/ \E v \in Voice \ In(L) : \E i \in 0 .. Len(L[l]) :
            M = [L EXCEPT ![l] = Insert(L[l], i, v)]
       \/ \E i \in 1 .. Len(L[l]) : M = [L EXCEPT ![l] = Remove(L[l], i)]

LEMMA StillShape ==
  ASSUME NEW L \in Shapes, Shape(L), UNCHANGED <<link, top>>
  PROVE  \E M \in Shapes : Shape(M)' /\ Moves(L, M)
  <1>1. Shape(L)'
    BY Zenon DEF Shape, Strung, Distinct
  <1> QED BY <1>1, Zenon DEF Moves

LEMMA OnMoves ==
  ASSUME TypeOK, NEW L \in Shapes, Shape(L), VoiceOn
  PROVE  \E M \in Shapes : Shape(M)' /\ Moves(L, M)
  <1>1. PICK v \in Voice \ Linked :
          (feav.lst = Inherit => feav.value \in Linked \cup {None}) /\ fe_VOICE_ON(v)
    BY Zenon DEF VoiceOn
  <1>2. v \in Voice /\ v \notin In(L) /\ Linked = In(L)
    BY LinkedAre, Zenon
  <1>3. link \in [Voice -> Handle] /\ top \in [Lists -> Handle]
        /\ feav.lst \in {Inherit} \cup Lists
    BY Zenon DEF TypeOK
  <1>4. CASE feav.lst # Inherit
    <2>1. PICK l \in Lists : l = feav.lst
      BY <1>3, <1>4, Zenon
    <2>2. link' = [link EXCEPT ![v] = top[l]] /\ top' = [top EXCEPT ![l] = v]
      BY <1>1, <1>4, <2>1, Zenon DEF fe_VOICE_ON
    <2>3. 0 \in 0 .. Len(L[l]) /\ 0 + 1 = 1
      BY ShapeTypes
    <2>4. link'[v] = Nth(L[l], 0 + 1)
      BY <1>2, <1>3, <2>2, <2>3, Zenon DEF Shape, Strung
    <2>5. top'[l] = v /\ (\A m \in Lists : m # l => top'[m] = top[m])
          /\ \A u \in Voice : u # v => link'[u] = link[u]
      BY <1>2, <1>3, <2>2, Zenon
    <2>6. PICK M : M = [L EXCEPT ![l] = Insert(L[l], 0, v)]
      BY Zenon
    <2>7. M \in Shapes /\ Shape(M)'
      <3>1. LinksIn(L, l, 0, v)
        BY <2>3, <2>4, <2>5, Zenon DEF LinksIn
      <3> QED BY <1>2, <2>3, <2>6, <3>1, InsertShape, Zenon
    <2> QED BY <1>2, <2>3, <2>6, <2>7, Zenon DEF Moves
  <1>5. CASE feav.lst = Inherit /\ feav.value = None
    <2>1. UNCHANGED <<link, top>>
      BY <1>1, <1>5 DEF fe_VOICE_ON, memVars
    <2> QED BY <2>1, StillShape, Zenon
  <1>6. CASE feav.lst = Inherit /\ feav.value # None
    <2>1. PICK u : u = feav.value
      BY Zenon
    <2>2. u \in In(L) /\ u \in Voice /\ u # v
      BY <1>1, <1>2, <1>6, <2>1 DEF In
    <2>3. PICK l \in Lists : \E i \in 1 .. Len(L[l]) : L[l][i] = u
      BY <2>2, Zenon DEF In
    <2>4. PICK i \in 1 .. Len(L[l]) : L[l][i] = u
      BY <2>3, Zenon
    <2>5. link' = [link EXCEPT ![v] = link[u], ![u] = v] /\ top' = top
      BY <1>1, <1>6, <2>1 DEF fe_VOICE_ON
    <2>6. i \in 0 .. Len(L[l]) /\ i # 0
      BY ShapeTypes
    <2>7. link'[v] = link[u] /\ link'[u] = v
          /\ \A w \in Voice : w # v /\ w # u => link'[w] = link[w]
      BY <1>2, <1>3, <2>2, <2>5, Zenon
    <2>8. link'[v] = Nth(L[l], i + 1)
      BY <2>4, <2>7, Zenon DEF Shape, Strung
    <2>9. PICK M : M = [L EXCEPT ![l] = Insert(L[l], i, v)]
      BY Zenon
    <2>10. M \in Shapes /\ Shape(M)'
      <3>1. LinksIn(L, l, i, v)
        BY <2>4, <2>5, <2>6, <2>7, <2>8, Zenon DEF LinksIn
      <3> QED BY <1>2, <2>6, <2>9, <3>1, InsertShape, Zenon
    <2> QED BY <1>2, <2>6, <2>9, <2>10, Zenon DEF Moves
  <1> QED BY <1>4, <1>5, <1>6, Zenon

LEMMA UnlinkMoves ==
  ASSUME TypeOK, NEW L \in Shapes, Shape(L), Unlink
  PROVE  \E M \in Shapes : Shape(M)' /\ Moves(L, M)
  <1>1. PICK v : v = decoded
    BY Zenon
  <1>2. Linked = In(L) /\ In(L) \subseteq Voice
    BY LinkedAre, Zenon DEF In
  <1>3. v \in In(L)
    BY <1>1, <1>2, Zenon DEF Unlink
  <1>4. PICK l \in Lists : \E i \in 1 .. Len(L[l]) : L[l][i] = v
    BY <1>3, Zenon DEF In
  <1>5. PICK i \in 1 .. Len(L[l]) : v = L[l][i]
    BY <1>4, Zenon
  <1>6. \A m \in Lists : top'[m] = IF top[m] = v THEN link[v] ELSE top[m]
    BY <1>1, Zenon DEF Unlink
  <1>7. \A u \in In(L) : link'[u] = IF link[u] = v THEN link[v] ELSE link[u]
    BY <1>1, <1>2, Zenon DEF Unlink
  <1>8. PICK M : M = [L EXCEPT ![l] = Remove(L[l], i)]
    BY Zenon
  <1>9. M \in Shapes /\ Shape(M)'
    <2>1. LinksOut(L, v)
      BY <1>6, <1>7, Zenon DEF LinksOut
    <2> QED BY <1>5, <1>8, <2>1, RemoveShape, Zenon
  <1> QED BY <1>8, <1>9, Zenon DEF Moves

LEMMA NextMoves ==
  ASSUME TypeOK, NEW L \in Shapes, Shape(L), [Next]_vars
  PROVE  \E M \in Shapes : Shape(M)' /\ Moves(L, M)
  <1>1. VoiceOn \/ Unlink \/ UNCHANGED <<link, top>>
    BY Zenon DEF Next, Halted, Frame, Guest, Registers, FrontEnd, WriteVoice, apu_write_ISTS,
           apu_write_IEN, apu_write_FETFORCE1, apu_write_SECTL, fe_SET_ANTECEDENT_VOICE,
           fe_VOICE_OFF, fe_SET_CURRENT_VOICE, se_frame_begin, se_frame_voice, se_frame_list,
           vars, memVars
  <1> QED BY <1>1, OnMoves, UnlinkMoves, StillShape, Zenon
-----------------------------------------------------------------------------
(* The refinement.                                                         *)

Image == [l \in Lists |-> Walk(l)]

LEMMA ImageIs == \A L \in Shapes : Shape(L) => Image = L
  <1> SUFFICES ASSUME NEW L \in Shapes, Shape(L) PROVE Image = L
    BY Zenon
  <1>1. L = [l \in Lists |-> L[l]]
    BY Zenon DEF Shapes
  <1> QED BY <1>1, WalkIs, Zenon DEF Image

LEMMA ImageNext == (\A L \in Shapes : Shape(L) => Image = L)'
BY ImageIs, PTL

LEMMA ImageMembers ==
  ASSUME NEW L \in Shapes
  PROVE  In(L) = UNION {{L[l][i] : i \in DOMAIN L[l]} : l \in Lists}
  <1>1. \A l \in Lists : DOMAIN L[l] = 1 .. Len(L[l])
    BY ShapeTypes, LenProperties, Zenon
  <1> QED BY <1>1, ShapeTypes DEF In

LEMMA InsertFirst ==
  ASSUME NEW s \in Seq(Voice), NEW v \in Voice
  PROVE  Insert(s, 0, v) = <<v>> \o s
  <1>1. SubSeq(s, 1, 0) = <<>> /\ SubSeq(s, 0 + 1, Len(s)) = s
    BY SubSeqEmpty, SubSeqFull
  <1>2. <<v>> \in Seq(Voice)
    OBVIOUS
  <1>3. <<>> \o <<v>> = <<v>>
    BY <1>2, ConcatEmptySeq, Zenon
  <1> QED BY <1>1, <1>3, Zenon DEF Insert

LEMMA MovesAreSteps ==
  ASSUME NEW L \in Shapes, NEW M \in Shapes, Moves(L, M), Image = L, Image' = M
  PROVE  [Abstract!Next]_Image
  <1>1. CASE M = L
    BY <1>1, Zenon
  <1>2. CASE M # L
    <2>1. Abstract!Members = In(L)
      BY ImageMembers, Zenon DEF Abstract!Members, Abstract!Elements, Image
    <2>2. PICK l \in Lists :
            \/ \E v \in Voice \ In(L) : \E i \in 0 .. Len(L[l]) :
                 M = [L EXCEPT ![l] = Insert(L[l], i, v)]
            \/ \E i \in 1 .. Len(L[l]) : M = [L EXCEPT ![l] = Remove(L[l], i)]
      BY <1>2, Zenon DEF Moves
    <2>3. DOMAIN L[l] = 1 .. Len(L[l]) /\ L[l] \in Seq(Voice)
      BY ShapeTypes, LenProperties, Zenon
    <2>4. ASSUME NEW v \in Voice \ In(L), M = [L EXCEPT ![l] = Insert(L[l], 0, v)]
          PROVE  Abstract!On(l, v)
      BY <2>1, <2>3, <2>4, InsertFirst, Zenon DEF Abstract!On, Image
    <2>5. ASSUME NEW v \in Voice \ In(L), NEW i \in 1 .. Len(L[l]),
                 M = [L EXCEPT ![l] = Insert(L[l], i, v)]
          PROVE  Abstract!OnAfter(l, i, v)
      BY <2>1, <2>5, Zenon DEF Abstract!OnAfter, Insert, Image
    <2>6. ASSUME NEW i \in 1 .. Len(L[l]), M = [L EXCEPT ![l] = Remove(L[l], i)]
          PROVE  Abstract!TakeOut(l, i)
      BY <2>6, Zenon DEF Abstract!TakeOut, Remove, Image
    <2>7. \A i \in 0 .. Len(L[l]) : i = 0 \/ i \in 1 .. Len(L[l])
      BY <2>3
    <2>8. Abstract!Next
      BY <1>2, <2>2, <2>3, <2>4, <2>5, <2>6, <2>7, Zenon DEF Abstract!Next, Image
    <2> QED BY <2>8, Zenon
  <1> QED BY <1>1, <1>2, Zenon

LEMMA InitLists == Init => ListsInv /\ Image = [l \in Lists |-> <<>>]
  <1> SUFFICES ASSUME Init PROVE ListsInv /\ Image = [l \in Lists |-> <<>>]
    BY Zenon
  <1>1. PICK L : L = [l \in Lists |-> <<>>]
    BY Zenon
  <1>2. L \in Shapes /\ \A l \in Lists : L[l] = <<>> /\ Len(L[l]) = 0
    BY <1>1 DEF Shapes
  <1>3. \A l \in Lists : top[l] = None
    BY Zenon DEF Init
  <1>4. Shape(L)
    BY <1>2, <1>3 DEF Shape, Strung, Distinct, Nth
  <1> QED BY <1>1, <1>2, <1>4, ImageIs, Zenon DEF ListsInv

LEMMA ListsStep == TypeOK /\ ListsInv /\ [Next]_vars => ListsInv' /\ [Abstract!Next]_Image
  <1> SUFFICES ASSUME TypeOK, ListsInv, [Next]_vars PROVE ListsInv' /\ [Abstract!Next]_Image
    BY Zenon
  <1>1. PICK L \in Shapes : Shape(L)
    BY Zenon DEF ListsInv
  <1>2. PICK M \in Shapes : Shape(M)' /\ Moves(L, M)
    BY <1>1, NextMoves, Zenon
  <1>3. Image = L /\ Image' = M
    BY <1>1, <1>2, ImageIs, ImageNext, Zenon
  <1>4. [Abstract!Next]_Image
    BY <1>2, <1>3, MovesAreSteps
  <1> QED BY <1>2, <1>4, Zenon DEF ListsInv

\* The links that fe_VOICE_ON and the driver leave in guest memory are at all times
\* three lists that share no voice and have no cycle, for any number of voices: each
\* change of a link or of a top inserts one voice into a list or takes one out.
THEOREM ListsImplemented == Spec => ImplementsLists
  <1>1. Init => Abstract!Init
    BY InitLists, Zenon DEF Abstract!Init, Image
  <1>2. Init => ListsInv
    BY InitLists, Zenon
  <1>3. TypeOK /\ ListsInv /\ [Next]_vars
          => ListsInv' /\ [Abstract!Next]_[l \in Lists |-> Walk(l)]
    BY ListsStep, Zenon DEF Image
  <1> QED BY <1>1, <1>2, <1>3, ApuTypes, PTL DEF Spec, ImplementsLists, Abstract!Spec
=============================================================================
