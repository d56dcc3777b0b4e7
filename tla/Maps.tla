-------------------------------- MODULE Maps --------------------------------
(* Finite maps, as std::unordered_map is used in the code. *)

EmptyMap == [x \in {} |-> x]
Put(f, k, v) == [x \in DOMAIN f \cup {k} |-> IF x = k THEN v ELSE f[x]]
Without(f, K) == [x \in DOMAIN f \ K |-> f[x]]
=============================================================================
