-------------------------- MODULE MCFinancialFacts --------------------------
(***************************************************************************)
(* Instances of FinancialFacts for TLC.                                    *)
(***************************************************************************)
EXTENDS FinancialFacts, TLC
=============================================================================
