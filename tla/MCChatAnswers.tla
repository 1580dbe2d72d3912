---- MODULE MCChatAnswers ----
(* Two answers, one of them orchestrated, and the slots they compete for. *)
EXTENDS ChatAnswers

CONSTANTS plain, routed
MCAnswers == {plain, routed}
MCRouted == {routed}
====
