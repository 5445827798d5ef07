-------------------------------- MODULE Maps --------------------------------
(***************************************************************************)
(* Finite maps that grow and shrink: Go maps, and the objects the API      *)
(* server or a watch cache holds, by name.                                 *)
(***************************************************************************)
\* Adds or overwrites one entry.
Extend(f, s, v) == [t \in DOMAIN f \cup {s} |-> IF t = s THEN v ELSE f[t]]

\* Deletes one entry.
Drop(f, s) == [t \in DOMAIN f \ {s} |-> f[t]]
=============================================================================
