-------------------------- MODULE MCChatLifecycle --------------------------
(***************************************************************************)
(* Small instances of ChatLifecycle: one chat, since tasks of different     *)
(* chats share nothing but the order of the list, and up to three tasks.    *)
(***************************************************************************)
EXTENDS ChatLifecycle, TLC
=============================================================================
