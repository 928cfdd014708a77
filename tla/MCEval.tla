------------------------------- MODULE MCEval -------------------------------
(* EvalStore and its properties, with values for TLC.                      *)
EXTENDS EvalStoreProps, TLC

\* Every round is labelled, hence sealed when it comes in.
Labelled == {<<m, m>> : m \in Models}

Symmetric == Permutations(Workers) \cup Permutations(Votes)
=============================================================================
