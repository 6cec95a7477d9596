-------------------------- MODULE MCKnowledgeBase --------------------------
(***************************************************************************)
(* Instances of KnowledgeBase for TLC.                                     *)
(***************************************************************************)
EXTENDS KnowledgeBase, TLC
Interchangeable ==
  Permutations(Policies) \cup Permutations(Users) \cup Permutations(Indexes)
=============================================================================
