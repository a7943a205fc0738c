-------------------------- MODULE MCDagAlgorithms --------------------------
(***************************************************************************)
(* Instances of DagAlgorithms for TLC.                                     *)
(***************************************************************************)
EXTENDS DagAlgorithms, SequencesExt

\* Every list of at most three steps whose DependsOn lists hold at most two
\* names, repeated or unknown (0) names included.
MCShortLists ==
    UNION {[1..n -> BoundedSeq(0..n, 2)] : n \in 0..3}

\* Every dependency relation on four steps none of which depends on itself, each
\* DependsOn list in ascending order.
MCFourSteps ==
    {list \in [1..4 -> {SetToSortSeq(S, <) : S \in SUBSET (1..4)}] :
       \A i \in 1..4 : ~Contains(list[i], i)}

MCLists == MCShortLists \cup MCFourSteps

=============================================================================
