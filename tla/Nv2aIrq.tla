------------------------------ MODULE Nv2aIrq ------------------------------
(***************************************************************************)
(* The interrupt tree of the NV2A: every unit has a set of pending and a   *)
(* set of enabled interrupts, PMC collects one bit per unit, and one PCI   *)
(* line goes to the guest.  This module holds the registers and the bodies *)
(* of the handlers that write them (hw/xbox/nv2a_gpu.c); Nv2aFifo puts     *)
(* them together with the locks and threads that run them.                 *)
(***************************************************************************)
EXTENDS Naturals

Units == {"PFIFO", "PCRTC", "PGRAPH"}

\* The interrupts the code can raise in each unit.
Sources == [PFIFO |-> {"DMA_PUSHER"}, PCRTC |-> {"VBLANK"},
            PGRAPH |-> {"NOTIFY", "CONTEXT_SWITCH"}]

\* Bits of NV_PMC_INTR_0.  Nothing ever sets the PTIMER bit.
PmcBits == Units \cup {"PTIMER"}

VARIABLES
  pending,     \* <unit>.pending_interrupts
  enabled,     \* <unit>.enabled_interrupts
  pmcPending,  \* pmc.pending_interrupts
  pmcEnabled,  \* pmc.enabled_interrupts
  irq          \* level of the PCI interrupt line

irqVars == <<pending, enabled, pmcPending, pmcEnabled, irq>>

\* A set of its own interrupts for each unit.
Masks == {m \in [Units -> SUBSET {"DMA_PUSHER", "VBLANK", "NOTIFY", "CONTEXT_SWITCH"}] :
            \A u \in Units : m[u] \subseteq Sources[u]}

IrqTypeOK ==
  /\ pending \in Masks
  /\ enabled \in Masks
  /\ pmcPending \subseteq PmcBits
  /\ pmcEnabled \subseteq PmcBits
  /\ irq \in BOOLEAN

IrqInit ==
  /\ pending = [u \in Units |-> {}]
  /\ enabled = [u \in Units |-> {}]
  /\ pmcPending = {}
  /\ pmcEnabled = {}
  /\ irq = FALSE

\* The units with an interrupt that is both pending and enabled.
Raising(p, e) == {u \in Units : p[u] \cap e[u] # {}}

\* update_irq recomputes the three unit bits of PMC, keeps the others of pm, and
\* drives the line.  It reads the unit registers as its caller left them.
update_irq(pm) ==
  /\ pmcPending' = (pm \ Units) \cup Raising(pending', enabled')
  /\ irq' = (pmcPending' # {} /\ pmcEnabled' # {})

\* pmc_write: the written bits are cleared, then update_irq runs.
pmc_write_INTR_0(val) ==
  /\ UNCHANGED <<pending, enabled, pmcEnabled>>
  /\ update_irq(pmcPending \ val)

pmc_write_INTR_EN_0(val) ==
  /\ pmcEnabled' = val
  /\ UNCHANGED <<pending, enabled>>
  /\ update_irq(pmcPending)

\* pfifo_write and pcrtc_write of INTR_0 and INTR_EN_0.
unit_write_INTR_0(u, val) ==
  /\ pending' = [pending EXCEPT ![u] = @ \ val]
  /\ UNCHANGED <<enabled, pmcEnabled>>
  /\ update_irq(pmcPending)

unit_write_INTR_EN_0(u, val) ==
  /\ enabled' = [enabled EXCEPT ![u] = val]
  /\ UNCHANGED <<pending, pmcEnabled>>
  /\ update_irq(pmcPending)

\* pgraph_write of INTR and INTR_EN: neither calls update_irq.
pgraph_write_INTR(val) ==
  /\ pending' = [pending EXCEPT !["PGRAPH"] = @ \ val]
  /\ UNCHANGED <<enabled, pmcPending, pmcEnabled, irq>>

pgraph_write_INTR_EN(val) ==
  /\ enabled' = [enabled EXCEPT !["PGRAPH"] = val]
  /\ UNCHANGED <<pending, pmcPending, pmcEnabled, irq>>

\* Mutant: the refresh leaves PMC to the next register write.
vblank_NoUpdate ==
  /\ pending' = [pending EXCEPT !["PCRTC"] = @ \cup {"VBLANK"}]
  /\ UNCHANGED <<enabled, pmcPending, pmcEnabled, irq>>

\* nv2a_gpu_vga_gfx_update: the display refresh raises VBLANK.
vblank ==
  /\ pending' = [pending EXCEPT !["PCRTC"] = @ \cup {"VBLANK"}]
  /\ UNCHANGED <<enabled, pmcEnabled>>
  /\ update_irq(pmcPending)
=============================================================================
