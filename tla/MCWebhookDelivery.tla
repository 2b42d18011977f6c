------------------------- MODULE MCWebhookDelivery -------------------------
(* The instance of WebhookDelivery that TLC checks.  The workers are alike, *)
(* and so are the two events.                                               *)
EXTENDS WebhookDelivery, TLC

CONSTANT shop   \* a webhook

MCSubscribed == [w \in {shop} |-> Events]
Alike == Permutations(Workers) \union Permutations(Events)
=============================================================================
