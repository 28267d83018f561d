---------------------------- MODULE MCChatPanel -----------------------------
(* The panel, two replicas and either backend, and everything that may fail. *)
EXTENDS ChatPanel
=============================================================================
