------------------------------ MODULE Records ------------------------------
(***************************************************************************)
(* Objects and tables as functions, and how the code merges them.          *)
(***************************************************************************)

(* { ...g, ...f }: what f has, and the rest of g. *)
f ++ g == [k \in DOMAIN f \cup DOMAIN g |-> IF k \in DOMAIN f THEN f[k] ELSE g[k]]

(* { [k]: v } *)
Entry(k, v) == [x \in {k} |-> v]
=============================================================================
