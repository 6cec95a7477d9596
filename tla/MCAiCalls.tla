----------------------------- MODULE MCAiCalls -----------------------------
(* An LLM job and an embedding job of two attempts each: the second one follows a *)
(* crash, a failure or a lost lease of the first, which may go on.  The attempts  *)
(* of the LLM job have one operation, two repairs as in the approved policy, and  *)
(* a budget that is spent before the last of them.                                *)
EXTENDS AiCalls

MCSize == [n \in 1..Repairs + 1 |-> 1]
MCCalls == Runs \X (1..Repairs + 1)
=============================================================================
