------------------------------ MODULE MCSession ------------------------------
(* SessionManager and its properties, with values for TLC.                 *)
EXTENDS SessionManagerProps, TLC

\* An upstream that serves the model it is asked for.
Honest == [m \in Models |-> {m}]

Symmetric == Permutations(Clients) \cup Permutations(Models)
=============================================================================
