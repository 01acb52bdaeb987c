-------------------------------- MODULE Delivery --------------------------------
(***************************************************************************)
(* The way of an event from the transactional outbox to the handler of a   *)
(* consumer: message_outbox, the OutboxDispatcher loops, one RocketMQ       *)
(* consumer group, and the consumers of that group with their rows of       *)
(* message_consumer_inbox (lib/message_hub.py).                             *)
(*                                                                         *)
(* A directed inbox is a group of one consumer, the work pool a group of    *)
(* all runtimes.  A broker message is one published copy of an event; a     *)
(* copy is visible in the queue of the group, or handed to a consumer and   *)
(* invisible until it is acknowledged, given back or its invisibility ends. *)
(*                                                                         *)
(* Left out: what the event says, the audit rows, the batch size and        *)
(* the order within a batch, and the length of the backoff (a row whose     *)
(* next_retry_at has not come is one the dispatcher does not select).       *)
(***************************************************************************)
EXTENDS Integers, FiniteSets, Sequences

CONSTANTS Events,            (* message_outbox.event_id                      *)
          Consumers,         (* consumer names of the group                  *)
          Dispatchers,       (* processes that run OutboxDispatcher.run      *)
          MaxRetries,        (* OutboxDispatcher.max_retries                 *)
          MaxMessages,       (* max_messages of the subscription             *)
          SteadyConsumers,   (* consumers that never lose their memory       *)
          SteadyDispatchers  (* dispatchers the database never fails         *)

ASSUME DeliveryAssumption ==
  /\ IsFiniteSet(Events)
  /\ MaxRetries \in Nat \ {0}
  /\ MaxMessages \in Nat \ {0}
  /\ SteadyConsumers \subseteq Consumers
  /\ SteadyDispatchers \subseteq Dispatchers

VARIABLES
  outbox,    (* status of each outbox row                                    *)
  retries,   (* retry_count of each outbox row                               *)
  batch,     (* what each dispatcher did, in its open transaction, with the  *)
             (* rows it locked                                               *)
  dead,      (* dispatcher tasks ended by an exception                       *)
  queue,     (* number of visible copies of each event in the group          *)
  inbox,     (* message_consumer_inbox.result of each consumer and event     *)
  popped,    (* copies a consumer took from the broker in one poll and has   *)
             (* not looked at yet                                            *)
  taken,     (* events it claimed and has not settled                        *)
  fresh,     (* those of them whose copy is still invisible to the others    *)
  done,      (* those whose handler has run                                  *)
  handlings, (* history: times a handler ran since the last retry()          *)
  served     (* history: events some consumer has handled                    *)

rows   == <<outbox, retries, batch, dead>>
memory == <<popped, taken, fresh, done>>
vars   == <<rows, queue, inbox, memory, handlings, served>>

RowStatus == {"absent", "pending", "published", "failed"}
Outcome   == {"none", "locked", "sent", "raised"}

NoBatch == [e \in Events |-> "none"]

DInit ==
  /\ outbox = [e \in Events |-> "absent"]
  /\ retries = [e \in Events |-> 0]
  /\ batch = [d \in Dispatchers |-> NoBatch]
  /\ dead = {}
  /\ queue = [e \in Events |-> 0]
  /\ inbox = [c \in Consumers |-> [e \in Events |-> "none"]]
  /\ popped = [c \in Consumers |-> << >>]
  /\ taken = [c \in Consumers |-> {}]
  /\ fresh = [c \in Consumers |-> {}]
  /\ done = [c \in Consumers |-> {}]
  /\ handlings = [c \in Consumers |-> [e \in Events |-> 0]]
  /\ served = {}
-----------------------------------------------------------------------------
(* The outbox.                                                             *)

(* enqueue_outbox_event, committed with the transaction that called it.    *)
Enqueue(e) ==
  /\ outbox[e] = "absent"
  /\ outbox' = [outbox EXCEPT ![e] = "pending"]
  /\ UNCHANGED <<retries, batch, dead, queue, inbox, memory, handlings, served>>

(* Mutant: rows are selected without a lock.                               *)
RowNeverLocked(e) == FALSE

RowLocked(e) == \E d \in Dispatchers : batch[d][e] # "none"

(* dispatch_once locks a batch of due rows, FOR UPDATE SKIP LOCKED.        *)
SelectBatch(d, S) ==
  /\ d \notin dead
  /\ batch[d] = NoBatch
  /\ S # {}
  /\ \A e \in S : outbox[e] = "pending" /\ ~ RowLocked(e)
  /\ batch' = [batch EXCEPT ![d] = [e \in Events |-> IF e \in S THEN "locked" ELSE "none"]]
  /\ UNCHANGED <<outbox, retries, dead, queue, inbox, memory, handlings, served>>

Arrives(e) == queue' = [queue EXCEPT ![e] = @ + 1]

(* Mutant: the row is marked although the broker did not take the copy.    *)
PublishUnconfirmed(d, e) ==
  /\ batch[d][e] = "locked"
  /\ Arrives(e) \/ UNCHANGED queue
  /\ batch' = [batch EXCEPT ![d][e] = "sent"]
  /\ UNCHANGED <<outbox, retries, dead, inbox, memory, handlings, served>>

(* The broker takes the copy and says so, takes it and the answer is lost, *)
(* or does not take it.                                                    *)
PublishRecord(d, e) ==
  /\ batch[d][e] = "locked"
  /\ \/ Arrives(e) /\ batch' = [batch EXCEPT ![d][e] = "sent"]
     \/ Arrives(e) /\ batch' = [batch EXCEPT ![d][e] = "raised"]
     \/ UNCHANGED queue /\ batch' = [batch EXCEPT ![d][e] = "raised"]
  /\ UNCHANGED <<outbox, retries, dead, inbox, memory, handlings, served>>

StatusAfter(e, outcome) ==
  CASE outcome = "sent"   -> "published"
    [] outcome = "raised" -> IF retries[e] + 1 >= MaxRetries THEN "failed" ELSE "pending"
    [] OTHER              -> outbox[e]

(* Mutant: a failed attempt is not counted.                                *)
CommitUncounted(d) ==
  /\ batch[d] # NoBatch
  /\ \A e \in Events : batch[d][e] # "locked"
  /\ outbox' = [e \in Events |-> StatusAfter(e, batch[d][e])]
  /\ batch' = [batch EXCEPT ![d] = NoBatch]
  /\ UNCHANGED <<retries, dead, queue, inbox, memory, handlings, served>>

(* The updates of all the rows of the batch are committed together.        *)
CommitBatch(d) ==
  /\ batch[d] # NoBatch
  /\ \A e \in Events : batch[d][e] # "locked"
  /\ outbox' = [e \in Events |-> StatusAfter(e, batch[d][e])]
  /\ retries' = [e \in Events |-> IF batch[d][e] = "raised" THEN retries[e] + 1 ELSE retries[e]]
  /\ batch' = [batch EXCEPT ![d] = NoBatch]
  /\ UNCHANGED <<dead, queue, inbox, memory, handlings, served>>

(* A statement on the database raises: the transaction is rolled back, and *)
(* run(), which catches nothing, ends.  The process goes on without it.    *)
DispatcherDies(d) ==
  /\ d \notin dead \cup SteadyDispatchers
  /\ dead' = dead \cup {d}
  /\ batch' = [batch EXCEPT ![d] = NoBatch]
  /\ UNCHANGED <<outbox, retries, queue, inbox, memory, handlings, served>>
-----------------------------------------------------------------------------
(* A consumer.                                                             *)

(* Mutant: an event still in processing may be claimed again.              *)
ClaimableAgain(c, e) == inbox[c][e] # "consumed"

(* The insertion of _claim_delivery finds no row.                          *)
Claimable(c, e) == inbox[c][e] = "none"

Batches == UNION {[1..n -> Events] : n \in 1..MaxMessages}

Copies(b, e) == Cardinality({i \in DOMAIN b : b[i] = e})

(* receive(), which is called when the batch before it is settled, takes   *)
(* up to max_messages copies from the broker ...                           *)
Pop(c, b) ==
  /\ popped[c] = << >>
  /\ taken[c] = {}
  /\ \A e \in Events : Copies(b, e) <= queue[e]
  /\ popped' = [popped EXCEPT ![c] = b]
  /\ queue' = [e \in Events |-> queue[e] - Copies(b, e)]
  /\ UNCHANGED <<rows, inbox, taken, fresh, done, handlings, served>>

(* ... and claims the event of each, or acknowledges it as a duplicate.    *)
Examine(c) ==
  /\ popped[c] # << >>
  /\ LET e == Head(popped[c])
     IN  \/ /\ Claimable(c, e)
            /\ inbox' = [inbox EXCEPT ![c][e] = "processing"]
            /\ taken' = [taken EXCEPT ![c] = @ \cup {e}]
            /\ fresh' = [fresh EXCEPT ![c] = @ \cup {e}]
         \/ ~ Claimable(c, e) /\ UNCHANGED <<inbox, taken, fresh>>
  /\ popped' = [popped EXCEPT ![c] = Tail(@)]
  /\ UNCHANGED <<rows, queue, done, handlings, served>>

(* The handler runs, for one event of the batch after the other.           *)
Handling(c, e) == popped[c] = << >> /\ e \in taken[c] /\ done[c] \subseteq {e}

Handle(c, e) ==
  /\ Handling(c, e)
  /\ e \notin done[c]
  /\ done' = [done EXCEPT ![c] = {e}]
  /\ handlings' = [handlings EXCEPT ![c][e] = @ + 1]
  /\ served' = served \cup {e}
  /\ UNCHANGED <<rows, queue, inbox, popped, taken, fresh>>

Settles(c, e) ==
  /\ taken' = [taken EXCEPT ![c] = @ \ {e}]
  /\ fresh' = [fresh EXCEPT ![c] = @ \ {e}]
  /\ done' = [done EXCEPT ![c] = {}]
  /\ UNCHANGED popped

(* ack(): the inbox row, then the copy.                                    *)
Ack(c, e) ==
  /\ e \in done[c]
  /\ inbox[c][e] = "processing"
  /\ inbox' = [inbox EXCEPT ![c][e] = "consumed"]
  /\ Settles(c, e)
  /\ UNCHANGED <<rows, queue, handlings, served>>

(* ack() has committed the inbox row when the broker call raises.          *)
AckRaises(c, e) ==
  /\ e \in done[c]
  /\ inbox[c][e] = "processing"
  /\ inbox' = [inbox EXCEPT ![c][e] = "consumed"]
  /\ UNCHANGED <<rows, queue, memory, handlings, served>>

(* The copy of e becomes visible again, if it is not already.              *)
Returns(c, e) ==
  queue' = IF e \in fresh[c] THEN [queue EXCEPT ![e] = @ + 1] ELSE queue

(* Mutant: the inbox row stays.                                            *)
RetryKeepsRow(c, e) ==
  /\ Handling(c, e)
  /\ Returns(c, e)
  /\ Settles(c, e)
  /\ UNCHANGED <<rows, inbox, handlings, served>>

(* Mutant: the row is deleted, consumed or not.                            *)
RetryDeletesAny(c, e) ==
  /\ Handling(c, e)
  /\ inbox' = [inbox EXCEPT ![c][e] = "none"]
  /\ handlings' = [handlings EXCEPT ![c][e] = 0]
  /\ Returns(c, e)
  /\ Settles(c, e)
  /\ UNCHANGED <<rows, served>>

(* retry(), after the handler or ack() raised: the claim is undone, unless *)
(* it was consumed, and the copy made visible again.                       *)
Retry(c, e) ==
  /\ Handling(c, e)
  /\ IF inbox[c][e] = "processing"
     THEN /\ inbox' = [inbox EXCEPT ![c][e] = "none"]
          /\ handlings' = [handlings EXCEPT ![c][e] = 0]
     ELSE UNCHANGED <<inbox, handlings>>
  /\ Returns(c, e)
  /\ Settles(c, e)
  /\ UNCHANGED <<rows, served>>

(* The invisibility of a copy ends (receipt_timeout) while its event is    *)
(* still in the hands of the consumer.                                     *)
Expire(c, e) ==
  /\ e \in fresh[c]
  /\ Returns(c, e)
  /\ fresh' = [fresh EXCEPT ![c] = @ \ {e}]
  /\ UNCHANGED <<rows, inbox, popped, taken, done, handlings, served>>

(* The consumer loses what it had been given: its process ends, receive()  *)
(* raises after some of the batch was claimed, or retry() raises.          *)
Forget(c) ==
  /\ c \notin SteadyConsumers
  /\ popped[c] # << >> \/ taken[c] # {}
  /\ queue' = [e \in Events |-> queue[e] + Copies(popped[c], e)
                                + (IF e \in fresh[c] THEN 1 ELSE 0)]
  /\ popped' = [popped EXCEPT ![c] = << >>]
  /\ taken' = [taken EXCEPT ![c] = {}]
  /\ fresh' = [fresh EXCEPT ![c] = {}]
  /\ done' = [done EXCEPT ![c] = {}]
  /\ UNCHANGED <<rows, inbox, handlings, served>>
-----------------------------------------------------------------------------
DNext ==
  \/ \E e \in Events : Enqueue(e)
  \/ \E d \in Dispatchers :
       \/ \E S \in SUBSET Events : SelectBatch(d, S)
       \/ \E e \in Events : PublishRecord(d, e)
       \/ CommitBatch(d)
       \/ DispatcherDies(d)
  \/ \E c \in Consumers :
       \/ \E b \in Batches : Pop(c, b)
       \/ Examine(c)
       \/ \E e \in Events : Handle(c, e)
       \/ \E e \in Events : Ack(c, e)
       \/ \E e \in Events : AckRaises(c, e)
       \/ \E e \in Events : Retry(c, e)
       \/ \E e \in Events : Expire(c, e)
       \/ Forget(c)

DSpec == DInit /\ [][DNext]_vars

(* Fairness.  A dispatcher that lives selects every due row and finishes   *)
(* its batch; the broker delivers what stays in its queue to some consumer *)
(* of the group; a consumer goes on with its batch; and a handler that is  *)
(* run again and again does not raise for ever.                            *)
DFairness ==
  /\ \A d \in Dispatchers, e \in Events :
       /\ WF_vars(\E S \in SUBSET Events : e \in S /\ SelectBatch(d, S))
       /\ WF_vars(PublishRecord(d, e))
  /\ \A d \in Dispatchers : WF_vars(CommitBatch(d))
  /\ \A e \in Events :
       /\ SF_vars(\E c \in Consumers, b \in Batches : b[1] = e /\ Pop(c, b))
       /\ SF_vars(\E c \in Consumers : Handle(c, e))
  /\ \A c \in Consumers :
       /\ WF_vars(Examine(c))
       /\ WF_vars(\E e \in Events : Handle(c, e) \/ Ack(c, e) \/ Retry(c, e))

DFairSpec == DSpec /\ DFairness
-----------------------------------------------------------------------------
(* Rows, copies and the consumers' memory have their shape; a consumer     *)
(* handles one event at a time, among those it was given.                  *)
DTypeOK ==
  /\ outbox \in [Events -> RowStatus]
  /\ retries \in [Events -> 0..MaxRetries]
  /\ batch \in [Dispatchers -> [Events -> Outcome]]
  /\ dead \subseteq Dispatchers
  /\ queue \in [Events -> Nat]
  /\ inbox \in [Consumers -> [Events -> {"none", "processing", "consumed"}]]
  /\ popped \in [Consumers -> Seq(Events)]
  /\ taken \in [Consumers -> SUBSET Events]
  /\ fresh \in [Consumers -> SUBSET Events]
  /\ done \in [Consumers -> SUBSET Events]
  /\ handlings \in [Consumers -> [Events -> Nat]]
  /\ served \subseteq Events
  /\ \A c \in Consumers : done[c] \subseteq taken[c] /\ fresh[c] \subseteq taken[c]

(* However often an event is published, delivered again after its          *)
(* invisibility ended or given back after a crash, a consumer's handler    *)
(* runs for it once, until it asks for the event again with retry().       *)
HandledOnce == \A c \in Consumers, e \in Events : handlings[c][e] <= 1

InFlight(e) ==
  \/ queue[e] > 0
  \/ \E c \in Consumers : e \in taken[c] \/ \E i \in DOMAIN popped[c] : popped[c][i] = e

(* A published event that nobody handled and that will not be delivered    *)
(* again has left a row "processing" by which the loss can be found.       *)
LossLeavesTrace ==
  \A e \in Events :
    outbox[e] = "published" /\ e \notin served /\ ~ InFlight(e) =>
      \E c \in Consumers : inbox[c][e] = "processing"

(* Several dispatchers that work on the outbox at once, and whose publish  *)
(* calls may raise, never take back a row's final status.                  *)
RowStatusIsFinal ==
  [][\A e \in Events : outbox[e] \in {"published", "failed"} => outbox'[e] = outbox[e]]_vars

(* An event committed to the outbox is published, or given up after        *)
(* max_retries attempts.                                                   *)
RowsSettle == \A e \in Events : outbox[e] = "pending" ~> outbox[e] \in {"published", "failed"}

(* A published event is handled by some consumer of the group, although    *)
(* copies are duplicated and delivered late and handlers and               *)
(* acknowledgements raise.                                                 *)
PublishedIsHandled == \A e \in Events : outbox[e] = "published" ~> e \in served
=============================================================================
