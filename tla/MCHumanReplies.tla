--------------------------- MODULE MCHumanReplies ---------------------------
(* Four askers on tasks of their own: two agents and two escalation chains.  *)
EXTENDS HumanReplies

CONSTANTS a, b, c, d, A, B, C, D

MCTaskOf == [x \in {a, b, c, d} |->
                CASE x = a -> A [] x = b -> B [] x = c -> C [] x = d -> D]
=============================================================================
