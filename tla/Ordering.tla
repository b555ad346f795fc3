------------------------------ MODULE Ordering ------------------------------
(* The order in which std::map and std::set are walked: by key.            *)
EXTENDS Integers, FiniteSets

\* The place of id among ids, from 0.
Rank(ids, id) == Cardinality({j \in ids : j < id})
=============================================================================
