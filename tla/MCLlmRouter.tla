---------------------------- MODULE MCLlmRouter ----------------------------
(* A worker model with a chain of two, and an Anthropic model with none, on   *)
(* two providers; the models of the chain are called as fallbacks only.       *)
EXTENDS LlmRouter

CONSTANTS minimax, kimi, glm5, opus

MCProviderOf == [m \in Models |-> IF m = opus THEN "anthropic" ELSE "minimax"]
MCChainFrom  == [m \in Models |-> IF m = minimax THEN <<kimi, glm5>> ELSE <<>>]
=============================================================================
