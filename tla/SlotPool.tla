------------------------------ MODULE SlotPool ------------------------------
(***************************************************************************)
(* What the lists of th_vec and of mq_table (emu/thread_xsb.c) promise     *)
(* their users: a pool of slots.  A slot is handed out to one user at a    *)
(* time, and the slot that was given back first is handed out first, so    *)
(* that the ids of a slot come round as late as possible.                  *)
(***************************************************************************)
EXTENDS Naturals, Sequences

CONSTANTS
    Slots,    \* the entries of the table
    Initial,  \* the free list when the table is set up
    Taken,    \* the slots that are in use then
    Pinned    \* entries that are never given back: the main thread's

VARIABLES
    free,  \* the free slots, the next to hand out first
    used   \* the slots handed out

poolVars == <<free, used>>

PoolTypeOK ==
    /\ free \in Seq(Slots)
    /\ used \subseteq Slots

PoolInit ==
    /\ free = Initial
    /\ used = Taken

Take ==
    /\ free # <<>>
    /\ free' = Tail(free)
    /\ used' = used \cup {Head(free)}

GiveBack(p) ==
    /\ p \in used \ Pinned
    /\ free' = Append(free, p)
    /\ used' = used \ {p}

PoolNext == Take \/ \E p \in Slots : GiveBack(p)

Pool == PoolInit /\ [][PoolNext]_poolVars
=============================================================================
