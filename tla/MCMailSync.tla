----------------------------- MODULE MCMailSync -----------------------------
(* A small instance of MailSync for TLC: a conversation of two messages and  *)
(* one of a single message that arrives between them.                        *)
EXTENDS MailSync, TLC

MCConversationOf == (1 :> "a") @@ (2 :> "b") @@ (3 :> "a")
=============================================================================
