--------------------------- MODULE MCConversations ---------------------------
(* Small instances of Conversations. *)
EXTENDS Conversations, TLC

Symmetry == Permutations(ConversationIds) \cup Permutations(Requests)
=============================================================================
