-------------------------------- MODULE Handover --------------------------------
(***************************************************************************)
(* What lib/message_hub.py promises of an event, to the code that enqueues  *)
(* it and to the handlers of one consumer group.  There are no copies,     *)
(* dispatchers, transactions or acknowledgements here: only what became of  *)
(* the row of the event, and what each consumer has had to do with it.      *)
(*                                                                         *)
(* A consumer accepts an event only after it was committed to the outbox,   *)
(* runs its handler at most once for each time it accepts it, and accepts   *)
(* it again only after giving it back.  An event it lost while it had it    *)
(* does not come to it again: at most once, not at least once.              *)
(***************************************************************************)

CONSTANTS Events, Consumers

VARIABLES status,    \* of the row of each event in the outbox
          claim      \* how far each consumer is with each event

hvars == <<status, claim>>

HInit ==
  /\ status = [e \in Events |-> "absent"]
  /\ claim = [c \in Consumers |-> [e \in Events |-> "none"]]

(* An event is committed to the outbox; rows that wait are settled for      *)
(* good, published or given up.                                            *)
Post(e) == status[e] = "absent" /\ status' = [status EXCEPT ![e] = "pending"]

Close ==
  /\ status' \in [Events -> {"absent", "pending", "published", "failed"}]
  /\ \A e \in Events :
       status'[e] # status[e] => status[e] = "pending" /\ status'[e] \in {"published", "failed"}

Advance(c, e, from, to) == claim[c][e] \in from /\ claim' = [claim EXCEPT ![c][e] = to]

Held == {"accepted", "run"}

Accept(c, e)   == status[e] # "absent" /\ Advance(c, e, {"none"}, "accepted")
Run(c, e)      == Advance(c, e, {"accepted"}, "run")
Finish(c, e)   == Advance(c, e, {"run"}, "finished")
GiveBack(c, e) == Advance(c, e, Held, "none")

(* A consumer loses all it has.                                            *)
Lose(c) == claim' = [claim EXCEPT ![c] = [e \in Events |-> IF @[e] \in Held THEN "lost" ELSE @[e]]]

HNext ==
  \/ /\ UNCHANGED claim
     /\ Close \/ \E e \in Events : Post(e)
  \/ /\ UNCHANGED status
     /\ \E c \in Consumers :
          \/ \E e \in Events : Accept(c, e) \/ Run(c, e) \/ Finish(c, e) \/ GiveBack(c, e)
          \/ Lose(c)

HSpec == HInit /\ [][HNext]_hvars
=============================================================================
