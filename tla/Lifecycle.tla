----------------------------- MODULE Lifecycle -----------------------------
(***************************************************************************)
(* What the lifecycle manager promises about the packs' worlds: one pack   *)
(* at a time owns the machine, only the owner's world is played, and the   *)
(* machine is handed to another pack, or to nobody, only when the owner's  *)
(* world is in the backup store with all that was played.                  *)
(***************************************************************************)
CONSTANTS Packs, None

VARIABLES
    owner,  \* the pack that recovery would resume, or None
    saved   \* packs whose newest world is in the store (or that have none)

Init == owner = None /\ saved = Packs

\* A player asks for a pack while nothing is active.
Claim(p) == owner = None /\ owner' = p /\ UNCHANGED saved

\* The owner's server runs: the backup falls behind.
Play == owner # None /\ saved' = saved \ {owner} /\ UNCHANGED owner

\* The owner's world is backed up.
Backup == owner # None /\ saved' = saved \cup {owner} /\ UNCHANGED owner

\* The machine goes to the next pack (a switch) or to nobody (an idle stop).
Handover(p) == owner \in saved /\ owner' = p /\ UNCHANGED saved

Next ==
    \/ \E p \in Packs : Claim(p)
    \/ Play
    \/ Backup
    \/ \E p \in Packs \cup {None} : Handover(p)

Spec == Init /\ [][Next]_<<owner, saved>>
=============================================================================
