---------------------------- MODULE MCFactMatch ----------------------------
(* FactMatch over the knowledge base of MCKnowledgeBase. *)
EXTENDS FactMatch, MCKnowledgeBase

=============================================================================
