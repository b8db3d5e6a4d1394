------------------------------- MODULE Dicts -------------------------------
(***************************************************************************)
(* Python dictionaries as functions whose domain is the set of keys that   *)
(* are present.  A key that maps to None is present; a deleted key is not. *)
(***************************************************************************)

\* d[k] = v
Put(d, k, v) == [x \in DOMAIN d \cup {k} |-> IF x = k THEN v ELSE d[x]]

\* del d[k], and the guarded form "if k in d: del d[k]"
Remove(d, k) == [x \in DOMAIN d \ {k} |-> d[x]]

\* {}
EmptyDict == [x \in {} |-> x]

\* d is a dictionary with keys in K and values in V.
IsDict(d, K, V) == DOMAIN d \subseteq K /\ d \in [DOMAIN d -> V]
=============================================================================
