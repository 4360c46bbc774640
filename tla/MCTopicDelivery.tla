--------------------------- MODULE MCTopicDelivery ---------------------------
(* The instance of TopicDelivery that TLC checks is in TopicDelivery.cfg. *)
EXTENDS TopicDelivery
==============================================================================
