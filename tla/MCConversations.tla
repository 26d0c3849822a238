-------------------------- MODULE MCConversations --------------------------
(* Model-checking values for Conversations.  Sends are interchangeable in the *)
(* safety properties, and so are arrivals and recipients.                     *)
EXTENDS Conversations, TLC

Interchangeable == Permutations(Sends) \cup Permutations(Arrivals) \cup Permutations(Recipients)
=============================================================================
