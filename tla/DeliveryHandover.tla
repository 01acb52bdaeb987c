---------------------------- MODULE DeliveryHandover ----------------------------
(* Delivery implements Handover: the refinement mapping.                    *)
EXTENDS Delivery

(* How far a consumer is with an event: its row in message_consumer_inbox,  *)
(* and, while that says "processing", what the consumer remembers.          *)
Claim(c, e) ==
  CASE inbox[c][e] = "none"     -> "none"
    [] inbox[c][e] = "consumed" -> "finished"
    [] OTHER                    -> IF e \notin taken[c] THEN "lost"
                                   ELSE IF e \in done[c] THEN "run" ELSE "accepted"

Claims == [c \in Consumers |-> [e \in Events |-> Claim(c, e)]]

Promise == INSTANCE Handover WITH status <- outbox, claim <- Claims

(* However often an event is published and its copies are delivered, given  *)
(* back, expired or forgotten, in whatever order rows and copies are        *)
(* updated: no handler gets an event that is not committed to the outbox,   *)
(* or gets it twice without having given it back, or after it was lost; and *)
(* a row is settled once.                                                   *)
ImplementsHandover == Promise!HSpec
=============================================================================
