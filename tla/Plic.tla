-------------------------------- MODULE Plic --------------------------------
(***************************************************************************)
(* The interrupt controller of src/plic.c.  It has no priorities, enables  *)
(* or threshold: a source that is pending and not being served raises both *)
(* external bits of mip; the guest claims the lowest-numbered one and      *)
(* completes it when it is done.  Sources are numbered as the guest sees   *)
(* them, from 1; source i is bit i - 1 of the words of the code.           *)
(***************************************************************************)
EXTENDS Mip

CONSTANT Sources     \* the sources with a device behind them

\* main gives numbers 1 to 31 to the elements of plic_irq.
ASSUME SourcesAssumption == Sources \subseteq 1 .. 31

VARIABLES
    plic_pending_irq,   \* sources whose line is up
    plic_served_irq     \* sources claimed and not completed

plicVars == <<plic_pending_irq, plic_served_irq>>

\* What a claim may return.
Claimable == plic_pending_irq \ plic_served_irq

\* Sources are numbered, and a claim takes the first.
FirstClaimable(i) == i \in Claimable /\ \A j \in Claimable : i <= j

PlicInit == plic_pending_irq = {} /\ plic_served_irq = {}

\* Mutant: the S-mode bit is left up.
plic_update_mip_LeavesSEIP ==
    IF Claimable' # {} THEN set_mip({MEIP, SEIP}) ELSE reset_mip({MEIP})

\* Mutant: S mode is not told.
plic_update_mip_OnlyM ==
    IF Claimable' # {} THEN set_mip({MEIP}) ELSE reset_mip({MEIP, SEIP})

\* plic_update_mip, after the words have changed.
plic_update_mip ==
    IF Claimable' # {} THEN set_mip({MEIP, SEIP}) ELSE reset_mip({MEIP, SEIP})

\* A device moves its line.
plic_set_irq(i, level) ==
    /\ plic_pending_irq' = IF level THEN plic_pending_irq \union {i} ELSE plic_pending_irq \ {i}
    /\ UNCHANGED plic_served_irq
    /\ plic_update_mip

\* Mutant: the claim marks the source by its guest number, not by its bit.
plic_claim_OffByOne(i) ==
    /\ FirstClaimable(i)
    /\ plic_served_irq' = plic_served_irq \union {i + 1}
    /\ UNCHANGED plic_pending_irq
    /\ plic_update_mip

\* A read of the claim register.  It answers 0, and changes nothing, when no
\* source may be claimed.
plic_claim(i) ==
    /\ FirstClaimable(i)
    /\ plic_served_irq' = plic_served_irq \union {i}
    /\ UNCHANGED plic_pending_irq
    /\ plic_update_mip

\* Mutant: a completion does not look at the lines again.
plic_complete_NoUpdate(i) ==
    /\ i \in 1 .. 32
    /\ plic_served_irq' = plic_served_irq \ {i}
    /\ UNCHANGED <<plic_pending_irq, mip, power_down_flag>>

\* A write of i to the same register; 1 to 32 name a bit of the word.
plic_complete(i) ==
    /\ i \in 1 .. 32
    /\ plic_served_irq' = plic_served_irq \ {i}
    /\ UNCHANGED plic_pending_irq
    /\ plic_update_mip

-----------------------------------------------------------------------------
\* The words name sources, and no source is served that never was one.
PlicTypeOK == plic_pending_irq \subseteq Sources /\ plic_served_irq \subseteq Sources

\* The external bit of M mode says exactly that a claim will return a source:
\* a line that goes up while its source is served, or that stays up over the
\* completion, is neither announced early nor forgotten.
ExternalBitFollowsPlic == MEIP \in mip <=> Claimable # {}
=============================================================================
