----------------------------- MODULE ChangeLog -----------------------------
(***************************************************************************)
(* What the change collector promises: it remembers the last Size changes, *)
(* newest first, until the process ends.                                   *)
(***************************************************************************)
EXTENDS Integers, Sequences

CONSTANTS Size, Records

VARIABLE recent

Init == recent = <<>>

\* A change comes in front; the oldest one falls off a full log.
Add ==
    /\ Len(recent') = IF Len(recent) < Size THEN Len(recent) + 1 ELSE Size
    /\ recent'[1] \in Records
    /\ \A i \in 2..Len(recent') : recent'[i] = recent[i - 1]

Forget == recent' = <<>>

Spec == Init /\ [][Add \/ Forget]_recent
=============================================================================
