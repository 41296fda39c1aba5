---------------------------- MODULE AtomicStore ----------------------------
(***************************************************************************)
(* What the update store promises: one value, changed by whole edits.      *)
(*                                                                         *)
(*   val   what a reader sees, or would see if the daemon were started now *)
(*   safe  what would be left after a power failure                        *)
(***************************************************************************)
EXTENDS StoreData

CONSTANT Stamps         \* the stamps callers may give a change

VARIABLES val, safe

absVars == <<val, safe>>

AbsInit == val \in StoreData /\ safe = val

\* One whole edit becomes visible.  It may or may not be safe at once.
Change ==
    /\ \E kind \in EditKinds, when \in Stamps :
           val' = trim(edit(val, kind, when))
    /\ safe' \in {safe, val'}

\* The value readers see reaches the disk for good.
Settle == safe' = val /\ UNCHANGED val

\* A power failure: readers are left with the safe value.
PowerFailure == val' = safe /\ UNCHANGED safe

\* The file was damaged, or belongs to a newer build: nothing is left.
Lose == val' = EmptyData /\ safe' \in {safe, EmptyData}

AbsNext == Change \/ Settle \/ PowerFailure \/ Lose

AbsSpec == AbsInit /\ [][AbsNext]_absVars
============================================================================
