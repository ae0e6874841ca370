---- MODULE EntrySlot ----
(***************************************************************************)
(* What the paper broker promises about the one slot of a market: an entry *)
(* (a plan and a symbol) takes the slot at most once, and once it has lost *)
(* the slot it never comes back, whatever happens to orders, positions and *)
(* the process.  An entry that takes the slot may displace its holder.     *)
(***************************************************************************)
CONSTANTS Entries, NoEntry

VARIABLES holder, used

slotVars == <<holder, used>>

SlotInit == holder = NoEntry /\ used = {}

Take(e) == /\ e \notin used
           /\ holder' = e
           /\ used' = used \cup {e}

Release == /\ holder # NoEntry
           /\ holder' = NoEntry
           /\ UNCHANGED used

SlotNext == Release \/ \E e \in Entries : Take(e)

SlotSpec == SlotInit /\ [][SlotNext]_slotVars

\* The process dies while e takes the slot: e has been used and does not have it.
Forfeit(e) == /\ e \notin used
              /\ holder' = NoEntry
              /\ used' = used \cup {e}

CrashingSlotSpec ==
    SlotInit /\ [][SlotNext \/ \E e \in Entries : Forfeit(e)]_slotVars
====
