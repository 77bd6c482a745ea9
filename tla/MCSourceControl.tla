-------------------------- MODULE MCSourceControl --------------------------
(***************************************************************************)
(* An instance of SourceControl for TLC.                                    *)
(***************************************************************************)
EXTENDS SourceControl, TLC

\* Depends comes first, then the fields in the order create-hwe.py adds them.
Order == <<"Depends", "Conflicts", "Provides", "Replaces">>
FieldsAbove == [f \in {Order[i] : i \in 1..4} |->
              {Order[i] : i \in {j \in 1..4 : \A k \in 1..j : Order[k] # f}}]

Symmetry == Permutations(Stems)
=============================================================================
