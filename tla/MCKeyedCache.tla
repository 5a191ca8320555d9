---------------------------- MODULE MCKeyedCache ----------------------------
(* Small instances of KeyedCache.                                          *)
EXTENDS KeyedCache, TLC

\* invalidate_all removes everything; invalidate_table removes the entries of
\* one key in every kind.
AllItems == {Items}
OneTable == {InSlot1 \in SUBSET Items : \E k \in Keys : InSlot1 = {i \in Items : i[2] = k}}
AllOrOneTable == AllItems \cup OneTable
=============================================================================
