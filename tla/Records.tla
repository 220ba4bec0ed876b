------------------------------- MODULE Records -------------------------------
(***************************************************************************)
(* Maps and lists of the configuration modules.  A JSON object, the query  *)
(* of a link or the options of a location is a function whose domain is    *)
(* the keys it has; an array is a sequence.                                *)
(***************************************************************************)
EXTENDS Naturals, Sequences, FiniteSets, SequencesExt

None == [k \in {} |-> k]                            \* the empty map
Has(f, k) == k \in DOMAIN f
Get(f, k, default) == IF Has(f, k) THEN f[k] ELSE default
Put(f, k, v) == [x \in DOMAIN f \cup {k} |-> IF x = k THEN v ELSE f[x]]
Without(f, ks) == Restrict(f, DOMAIN f \ ks)
Filled(f, ks) == {k \in ks : Get(f, k, "") # ""}    \* given, and not empty

\* Both maps in one; f wins where both have a key.
f ++ g == [k \in DOMAIN f \cup DOMAIN g |-> IF k \in DOMAIN f THEN f[k] ELSE g[k]]

(***************************************************************************)
(* The items of a list that pass a filter, in their order: those at the    *)
(* positions I.                                                            *)
(***************************************************************************)
InOrder(I) ==
  CHOOSE p \in [1 .. Cardinality(I) -> I] :
    \A m, n \in 1 .. Cardinality(I) : m < n => p[m] < p[n]

Picked(s, I) == [n \in 1 .. Cardinality(I) |-> s[InOrder(I)[n]]]

IsList(s) == s \in Seq(ToSet(s))
=============================================================================
