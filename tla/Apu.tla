-------------------------------- MODULE Apu --------------------------------
(***************************************************************************)
(* The audio processor, hw/xbox/mcpx_apu.c: the registers, the front-end   *)
(* methods that link voices into three lists kept in guest memory, and the *)
(* setup engine's frame, which walks the lists and reports idle voices.    *)
(*                                                                         *)
(* MMIO handlers and the frame timer run under the iothread lock, so each  *)
(* handler is one step; the frame, a loop over a list that need not end,   *)
(* takes one step per turn, and nothing else runs until it is done.        *)
(***************************************************************************)
EXTENDS Naturals, Sequences, FiniteSets

CONSTANTS
  Voice,  \* voice handles
  None    \* the handle 0xFFFF

ASSUME VoiceAssumption == None \notin Voice /\ IsFiniteSet(Voice)

Lists == 1..3  \* 2D, 3D and MP, as numbered in FEAV
Inherit == 0
Handle == Voice \cup {None}

VARIABLES
  link,      \* TAR_PITCH_LINK of each voice, in guest memory: the next voice
  active,    \* voices with PAR_STATE_ACTIVE_VOICE set, in guest memory
  top, cur,  \* TVL* and CVL*: first and current voice of each list
  feav,      \* FEAV: list and antecedent voice
  decoded,   \* FEDECPARAM if FEDECMETH is SE2FE_IDLE_VOICE; None for another method
  forced,    \* FETFORCE1_SE2FE_IDLE_VOICE
  ists, ien, \* bits of ISTS and IEN
  irq,       \* the PCI line
  timer,     \* frame_timer is pending
  frame,     \* the list se_frame is in, or 0
  reported,  \* history: voices given to SE2FE_IDLE_VOICE in this frame
  aborted    \* an assert failed

memVars == <<link, active>>
irqVars == <<ists, ien, irq>>
vars == <<memVars, top, cur, feav, decoded, forced, irqVars, timer, frame,
          reported, aborted>>

Bits == {"GINT", "FETINT"}

\* After the driver has emptied the lists (TVL* = 0xFFFF) and before it starts
\* the setup engine, which writes CVL* before it reads them; the rest is as the
\* device was created.
Init ==
  /\ link \in [Voice -> {None}]
  /\ active = {}
  /\ top = [l \in Lists |-> None] /\ cur = [l \in Lists |-> None]
  /\ feav \in [lst : {Inherit}, value : Voice]  \* zero, which is a voice
  /\ decoded = None
  /\ forced = FALSE
  /\ ists = {} /\ ien = {} /\ irq = FALSE
  /\ timer = FALSE
  /\ frame = 0 /\ reported = {}
  /\ aborted = FALSE
-----------------------------------------------------------------------------
(* The lists.                                                              *)

\* The voices of list l, in order; if the links close a cycle, one more than there
\* are voices.
Walk(l) ==
  LET from[n \in 0 .. Cardinality(Voice) + 1] ==
        [h \in Handle |-> IF n = 0 \/ h = None THEN <<>> ELSE <<h>> \o from[n - 1][link[h]]]
  IN  from[Cardinality(Voice) + 1][top[l]]

\* The voices in the lists: what every set has that has the tops and, with a voice,
\* the voice it is linked to.
Closed(S) ==
  /\ \A l \in Lists : top[l] \in S \cup {None}
  /\ \A v \in S : link[v] \in S \cup {None}
Linked ==
  LET C == {S \in SUBSET Voice : Closed(S)} IN {v \in Voice : \A S \in C : v \in S}
-----------------------------------------------------------------------------
(* Registers.                                                              *)

\* update_irq, with ISTS holding st: the global bit follows the other one.
update_irq(st) ==
  LET up == "GINT" \in ien /\ (st \ {"GINT"}) \cap ien # {} IN
  /\ ists' = IF up THEN st \cup {"GINT"} ELSE st \ {"GINT"}
  /\ irq' = up
  /\ UNCHANGED ien

apu_write_ISTS(val) ==
  /\ update_irq(ists \ val)
  /\ UNCHANGED <<memVars, top, cur, feav, decoded, forced, timer, frame,
                 reported, aborted>>

\* A plain register: update_irq is not called.
apu_write_IEN(val) ==
  /\ ien' = val
  /\ UNCHANGED <<memVars, top, cur, feav, decoded, forced, ists, irq, timer,
                 frame, reported, aborted>>

apu_write_FETFORCE1(b) ==
  /\ forced' = b
  /\ UNCHANGED <<memVars, top, cur, feav, decoded, irqVars, timer, frame,
                 reported, aborted>>

apu_write_SECTL(on) ==
  /\ timer' = on
  /\ UNCHANGED <<memVars, top, cur, feav, decoded, forced, irqVars, frame, reported,
                 aborted>>
-----------------------------------------------------------------------------
(* Front-end methods, from vp_write.                                       *)

fe_SET_ANTECEDENT_VOICE(l, h) ==
  /\ decoded' = None
  /\ feav' = [lst |-> l, value |-> h]
  /\ UNCHANGED <<memVars, top, cur, forced, irqVars, timer, frame, reported,
                 aborted>>

\* Mutant: the antecedent is linked to the voice before its own link is read.
fe_VOICE_ON_Swapped(v) ==
  /\ decoded' = None
  /\ IF feav.lst # Inherit
     THEN /\ link' = [link EXCEPT ![v] = top[feav.lst]]
          /\ top' = [top EXCEPT ![feav.lst] = v]
          /\ UNCHANGED <<active, aborted>>
     ELSE IF feav.value = None
     THEN aborted' = TRUE /\ UNCHANGED <<memVars, top>>
     ELSE /\ link' = [link EXCEPT ![feav.value] = v, ![v] = v]
          /\ active' = active \cup {v}
          /\ UNCHANGED <<top, aborted>>
  /\ UNCHANGED <<cur, feav, forced, irqVars, timer, frame, reported>>

\* At the top of a list the voice is linked but not made active.
fe_VOICE_ON(v) ==
  /\ decoded' = None
  /\ IF feav.lst # Inherit
     THEN /\ link' = [link EXCEPT ![v] = top[feav.lst]]
          /\ top' = [top EXCEPT ![feav.lst] = v]
          /\ UNCHANGED <<active, aborted>>
     ELSE IF feav.value = None
     THEN aborted' = TRUE /\ UNCHANGED <<memVars, top>>
     ELSE /\ link' = [link EXCEPT ![v] = link[feav.value], ![feav.value] = v]
          /\ active' = active \cup {v}
          /\ UNCHANGED <<top, aborted>>
  /\ UNCHANGED <<cur, feav, forced, irqVars, timer, frame, reported>>

fe_VOICE_OFF(v) ==
  /\ decoded' = None
  /\ active' = active \ {v}
  /\ UNCHANGED <<link, top, cur, feav, forced, irqVars, timer, frame, reported,
                 aborted>>

\* FECV, like FECTL, is written by the device and read only by the guest: left out.
fe_SET_CURRENT_VOICE ==
  /\ decoded' = None
  /\ UNCHANGED <<memVars, top, cur, feav, forced, irqVars, timer, frame,
                 reported, aborted>>

\* Mutant: update_irq is not called.
fe_IDLE_VOICE_Silent(v) ==
  /\ decoded' = v
  /\ reported' = reported \cup {v}
  /\ IF forced THEN ists' = ists \cup {"FETINT"} /\ UNCHANGED <<ien, irq, aborted>>
               ELSE aborted' = TRUE /\ UNCHANGED irqVars

\* SE2FE_IDLE_VOICE: a trap, if the driver asked for it.
fe_IDLE_VOICE(v) ==
  /\ decoded' = v
  /\ reported' = reported \cup {v}
  /\ IF forced THEN update_irq(ists \cup {"FETINT"}) /\ UNCHANGED aborted
               ELSE aborted' = TRUE /\ UNCHANGED irqVars
-----------------------------------------------------------------------------
(* se_frame.                                                               *)

\* The timer fires and is set again, whatever SECTL says.
se_frame_begin ==
  /\ frame = 0 /\ timer
  /\ timer' = TRUE
  /\ frame' = 1
  /\ cur' = [cur EXCEPT ![1] = top[1]]
  /\ UNCHANGED <<memVars, top, feav, decoded, forced, irqVars, reported, aborted>>

\* Mutant: the walk ends at a voice that is not active.
se_frame_voice_Stops ==
  /\ frame # 0 /\ cur[frame] # None
  /\ IF cur[frame] \in active
     THEN /\ UNCHANGED <<decoded, irqVars, reported, aborted>>
          /\ cur' = [cur EXCEPT ![frame] = link[@]]
     ELSE fe_IDLE_VOICE(cur[frame]) /\ cur' = [cur EXCEPT ![frame] = None]
  /\ UNCHANGED <<memVars, top, feav, forced, timer, frame>>

se_frame_voice ==
  /\ frame # 0 /\ cur[frame] # None
  /\ IF cur[frame] \in active THEN UNCHANGED <<decoded, irqVars, reported, aborted>>
                              ELSE fe_IDLE_VOICE(cur[frame])
  /\ cur' = [cur EXCEPT ![frame] = link[@]]
  /\ UNCHANGED <<memVars, top, feav, forced, timer, frame>>

\* Mutant: list <= 3.
se_frame_list_Overruns ==
  /\ frame # 0 /\ cur[frame] = None
  /\ frame' = frame + 1
  /\ cur' = [l \in Lists |-> IF l = frame + 1 THEN top[l] ELSE cur[l]]
  /\ reported' = IF frame < 3 THEN reported ELSE {}
  /\ UNCHANGED <<memVars, top, feav, decoded, forced, irqVars, timer, aborted>>

se_frame_list ==
  /\ frame # 0 /\ cur[frame] = None
  /\ frame' = IF frame < 3 THEN frame + 1 ELSE 0
  /\ cur' = [l \in Lists |-> IF l = frame + 1 THEN top[l] ELSE cur[l]]
  /\ reported' = IF frame < 3 THEN reported ELSE {}
  /\ UNCHANGED <<memVars, top, feav, decoded, forced, irqVars, timer, aborted>>

Frame == se_frame_begin \/ se_frame_voice \/ se_frame_list
-----------------------------------------------------------------------------
(* The driver.  It turns on only voices that are in no list, after a voice *)
(* that is in one, and takes idle voices out when it is told of them.      *)

\* It prepares the structure of a voice in memory.
WriteVoice(v) ==
  /\ v \notin active /\ v \notin Linked
  /\ active' = active \cup {v}
  /\ UNCHANGED <<link, top, cur, feav, decoded, forced, irqVars, timer, frame,
                 reported, aborted>>

\* The interrupt handler takes the reported voice out of its list, with one write
\* to TVL* or to the link of the voice before it.
Unlink ==
  LET v == decoded IN
  /\ irq
  /\ v \in Linked /\ v \notin active
  /\ top' = [l \in Lists |-> IF top[l] = v THEN link[v] ELSE top[l]]
  /\ LET before == {u \in Linked : link[u] = v} IN
     link' = [u \in Voice |-> IF u \in before THEN link[v] ELSE link[u]]
  /\ UNCHANGED <<active, cur, feav, decoded, forced, irqVars, timer, frame,
                 reported, aborted>>

VoiceOn ==
  \E v \in Voice \ Linked :
    /\ feav.lst = Inherit => feav.value \in Linked \cup {None}
    /\ fe_VOICE_ON(v)

\* The global bit of ISTS is computed anew, so writing it makes no difference.
Registers ==
  \/ \E val \in {{}, {"FETINT"}} : apu_write_ISTS(val)
  \/ \E val \in {{}, Bits} : apu_write_IEN(val)
  \/ \E b \in BOOLEAN : apu_write_FETFORCE1(b) \/ apu_write_SECTL(b)

\* vp_write.
FrontEnd ==
  \/ \E l \in Lists : fe_SET_ANTECEDENT_VOICE(l, None)
  \/ \E h \in Handle : fe_SET_ANTECEDENT_VOICE(Inherit, h)
  \/ VoiceOn
  \/ \E v \in Voice : fe_VOICE_OFF(v)
  \/ fe_SET_CURRENT_VOICE

Guest ==
  /\ frame = 0
  /\ Registers \/ FrontEnd \/ Unlink \/ \E v \in Voice : WriteVoice(v)

Halted == aborted /\ UNCHANGED vars

Next == (~aborted /\ (Frame \/ Guest)) \/ Halted

Spec == Init /\ [][Next]_vars

\* The main loop runs its timers, and a handler it starts it also finishes.
Fairness == WF_vars(~aborted /\ Frame)
FairSpec == Spec /\ Fairness
-----------------------------------------------------------------------------
(* Properties.                                                             *)

\* Types; the frame never goes past the third list.
TypeOK ==
  /\ link \in [Voice -> Handle] /\ active \subseteq Voice
  /\ top \in [Lists -> Handle] /\ cur \in [Lists -> Handle]
  /\ feav \in [lst : {Inherit} \cup Lists, value : Handle]
  /\ decoded \in Handle
  /\ forced \in BOOLEAN /\ irq \in BOOLEAN /\ timer \in BOOLEAN
  /\ ists \subseteq Bits /\ ien \subseteq Bits
  /\ frame \in 0..3 /\ reported \subseteq Voice /\ aborted \in BOOLEAN

\* The links in guest memory are always three lists without a common voice and
\* without a cycle, changed only as VoiceLists says.
Abstract == INSTANCE VoiceLists WITH lists <- [l \in Lists |-> Walk(l)]
ImplementsLists == Abstract!Spec

\* A frame reports every voice that is linked and not active, and leaves the line
\* asserted if it reported one and the driver has enabled the interrupt.
FrameReports ==
  [][frame # 0 /\ frame' = 0 =>
       /\ reported = Linked \ active
       /\ reported # {} /\ Bits \subseteq ien => irq]_vars

\* se_frame returns.
FrameEnds == frame # 0 ~> (frame = 0 \/ aborted)

\* A driver that keeps the setup engine, the trap and the interrupt on, serves the
\* interrupt, and in the end no longer calls the front end.
Serving ==
  /\ <>[](timer /\ forced /\ ien = Bits)
  /\ <>[][~FrontEnd]_vars
  /\ SF_vars(frame = 0 /\ ~aborted /\ Unlink)

\* A voice that was turned off leaves its list in the end, although FEDECPARAM
\* holds only the last of the idle voices of a frame.
OffVoicesLeave ==
  Serving => \A v \in Voice : v \in Linked \ active ~> (v \notin Linked \ active \/ aborted)
=============================================================================
