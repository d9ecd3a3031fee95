------------------------------ MODULE MCWebhook ------------------------------
(* A small instance of Webhook. *)
EXTENDS Webhook, TLC

CONSTANT s1 \* the one sender

(* Two numbers of one label, and a kind of channel that is not allowed. *)
Labels == (1 :> "WhatsApp") @@ (35 :> "WhatsApp") @@ (31 :> "Instagram Direct")

(* Two messages of two sessions, one without an identifier but with two    *)
(* files, one of them empty; a payload that does not say that it is        *)
(* incoming, one without a sender, and two that are refused.               *)
Payloads ==
  {[idMessageHey |-> "i1", clientId |-> s1, session |-> 1, channel |-> 35, incoming |-> TRUE],
   [clientId |-> s1, session |-> 2, channel |-> 1, incoming |-> TRUE,
    temporal |-> {[name |-> "f", urlFileshare |-> "u"], [name |-> "g"]}],
   [idMessageHey |-> "i3", clientId |-> s1, session |-> 1, channel |-> 1],
   [idMessageHey |-> "i4", session |-> 1, channel |-> 1, incoming |-> TRUE],
   [idMessageHey |-> "i5", clientId |-> s1, session |-> 1, channel |-> 31, incoming |-> TRUE],
   [idMessageHey |-> "i6", clientId |-> s1, session |-> 2, incoming |-> TRUE]}

OneSender == {s1}

OneOrTwo == {1, 2}
=============================================================================
