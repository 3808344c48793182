-------------------------------- MODULE Maps --------------------------------
(* Go maps as functions. *)

\* at[key] = v: the key is there then, whether it was or not.
Put(at, key, v) == [k \in DOMAIN at \cup {key} |-> IF k = key THEN v ELSE at[k]]
=============================================================================
