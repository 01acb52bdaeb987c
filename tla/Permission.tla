------------------------------- MODULE Permission -------------------------------
(***************************************************************************)
(* Permission for the tool calls of one agent (middlewares/                 *)
(* permission_middleware.py with lib/message_hub.py): a dangerous call      *)
(* writes a request, the lead decides it, and the response comes back to    *)
(* the permission consumer of the agent's process.                          *)
(*                                                                         *)
(* The calls of one turn of the agent run concurrently.  They share the     *)
(* cache of responses, and in the message bus the subscription with its one *)
(* pending poll of the broker.                                              *)
(*                                                                         *)
(* The inbox of the consumer is taken as Delivery shows it: a response is   *)
(* taken once, is taken again only after retry(), and those claimed by a    *)
(* call that raises are lost.                                               *)
(*                                                                         *)
(* Left out: the rules that tell which tool calls are dangerous, the event  *)
(* that announces the request (the lead reads the audit table), and the     *)
(* agent's process, which when killed takes all its calls with it.          *)
(***************************************************************************)
EXTENDS Integers, FiniteSets

CONSTANTS Calls,         (* dangerous tool calls; each is its own request    *)
          Polls,         (* asyncio tasks that poll the broker               *)
          NoPoll,        (* pending_receive is None                          *)
          MaxDecisions,  (* bounds the decisions the lead takes              *)
          MaxFaults      (* bounds the failures of broker and database       *)

ASSUME PermissionAssumption ==
  /\ NoPoll \notin Polls
  /\ MaxDecisions \in Nat
  /\ MaxFaults \in Nat

VARIABLES
  audit,      (* permission_audit_log.decision of each request               *)
  sent,       (* responses that decide_permission put on their way           *)
  mail,       (* those the consumer can still be given                       *)
  poll,       (* status and result of each poll                              *)
  pending,    (* subscription.pending_receive                                *)
  responses,  (* self._responses                                             *)
  call,       (* the coroutine of each tool call                             *)
  faults      (* number of failures so far                                   *)

bus  == <<mail, poll, pending>>
vars == <<audit, sent, bus, responses, call, faults>>

Decision  == {"approved", "rejected"}
Response  == [request : Calls, decision : Decision, n : Nat]

Unused    == [status |-> "unused", batch |-> {}]

NotCalled == [pc |-> "idle", late |-> FALSE, awaits |-> NoPoll, batch |-> {}]

(* "look" is the top of the loop of _wait_for_permission_decision,         *)
(* "receive" the asyncio.wait of receive(), "store" the loop over its      *)
(* result.                                                                 *)
Waiting == {"look", "receive", "store"}
(* "raised" is the end by a failure of broker or database, "robbed" that   *)
(* by the exception of a call whose poll another call took.                *)
Ended   == {"ran", "refused", "timeout", "raised", "robbed"}

PInit ==
  /\ audit = [c \in Calls |-> "none"]
  /\ sent = {}
  /\ mail = {}
  /\ poll = [p \in Polls |-> Unused]
  /\ pending = NoPoll
  /\ responses = [c \in Calls |-> "none"]
  /\ call = [c \in Calls |-> NotCalled]
  /\ faults = 0

Goes(c, place) == call' = [call EXCEPT ![c].pc = place]

Fault == faults < MaxFaults /\ faults' = faults + 1
-----------------------------------------------------------------------------
(* create_permission_request.                                              *)
Request(c) ==
  /\ call[c].pc = "idle"
  /\ audit' = [audit EXCEPT ![c] = "open"]
  /\ Goes(c, "look")
  /\ UNCHANGED <<sent, bus, responses, faults>>

(* decide_permission, for any request there is.                            *)
Decide(c, decision) ==
  /\ audit[c] # "none"
  /\ Cardinality(sent) < MaxDecisions
  /\ LET response == [request |-> c, decision |-> decision, n |-> Cardinality(sent)]
     IN  /\ audit' = [audit EXCEPT ![c] = decision]
         /\ sent' = sent \cup {response}
         /\ mail' = mail \cup {response}
  /\ UNCHANGED <<poll, pending, responses, call, faults>>

(* The deadline, 300 s after the wait began, passes.                       *)
RunsLate(c) ==
  /\ call[c].pc \in Waiting
  /\ ~ call[c].late
  /\ call' = [call EXCEPT ![c].late = TRUE]
  /\ UNCHANGED <<audit, sent, bus, responses, faults>>
-----------------------------------------------------------------------------
(* One turn of _wait_for_permission_decision, by a call without await      *)
(* between them: the cache, then the deadline, then the poll that is       *)
(* pending or a new one.                                                   *)

(* Mutant: whatever response is in the cache is taken.                     *)
AnyResponse(c) ==
  IF \E o \in Calls : responses[o] # "none"
  THEN responses[CHOOSE o \in Calls : responses[o] # "none"] ELSE "none"

CachedResponse(c) == responses[c]

(* Mutant: the loop has no deadline.                                       *)
DeadlineNever(c) == FALSE

DeadlinePassed(c) == call[c].late

Answered(c) ==
  /\ call[c].pc = "look"
  /\ CachedResponse(c) # "none"
  /\ responses' = [responses EXCEPT ![c] = "none"]
  /\ Goes(c, IF CachedResponse(c) = "approved" THEN "ran" ELSE "refused")
  /\ UNCHANGED <<audit, sent, bus, faults>>

TimesOut(c) ==
  /\ call[c].pc = "look"
  /\ CachedResponse(c) = "none"
  /\ DeadlinePassed(c)
  /\ Goes(c, "timeout")
  /\ UNCHANGED <<audit, sent, bus, responses, faults>>

(* A poll nothing refers to any more.                                      *)
Free(p) == /\ poll[p].status # "running"
           /\ p # pending
           /\ \A c \in Calls : call[c].awaits # p

Awaits(c, p) == call' = [call EXCEPT ![c] = [@ EXCEPT !.pc = "receive", !.awaits = p]]

BeginReceive(c) ==
  /\ call[c].pc = "look"
  /\ CachedResponse(c) = "none"
  /\ ~ DeadlinePassed(c)
  /\ \/ pending # NoPoll /\ Awaits(c, pending) /\ UNCHANGED <<poll, pending>>
     \/ /\ pending = NoPoll
        /\ \E p \in Polls :
             /\ Free(p)
             /\ poll' = [poll EXCEPT ![p] = [status |-> "running", batch |-> {}]]
             /\ pending' = p
             /\ Awaits(c, p)
  /\ UNCHANGED <<audit, sent, mail, responses, faults>>
-----------------------------------------------------------------------------
(* The poll of the broker ends with responses or none, or fails.  The      *)
(* responses of a poll that is not pending any more return to the broker.  *)
PollEnds(p, M) ==
  /\ poll[p].status = "running"
  /\ M \subseteq mail
  /\ poll' = [poll EXCEPT ![p] = IF p = pending THEN [status |-> "done", batch |-> M]
                                               ELSE Unused]
  /\ UNCHANGED <<audit, sent, mail, pending, responses, call, faults>>

PollFails(p) ==
  /\ poll[p].status = "running"
  /\ Fault
  /\ poll' = [poll EXCEPT ![p].status = "failed"]
  /\ UNCHANGED <<audit, sent, mail, pending, responses, call>>

(* asyncio.wait ends before the poll: receive() returns nothing.           *)
GivesUp(c) ==
  /\ call[c].pc = "receive"
  /\ poll[call[c].awaits].status = "running"
  /\ call' = [call EXCEPT ![c] = [@ EXCEPT !.pc = "look", !.awaits = NoPoll]]
  /\ UNCHANGED <<audit, sent, bus, responses, faults>>

(* The poll the call waits for has ended, and the call takes the result of *)
(* the poll that is pending NOW.  When another call has taken that, none   *)
(* is pending, or a new one, which is dropped: either has no result, and   *)
(* the call ends by an exception.                                          *)
WaitIsOver(c) == call[c].pc = "receive" /\ poll[call[c].awaits].status # "running"

Pending(status) == pending # NoPoll /\ poll[pending].status = status

EndsBy(c, place) == call' = [call EXCEPT ![c] = [@ EXCEPT !.pc = place, !.awaits = NoPoll]]

Resume(c) ==
  /\ WaitIsOver(c)
  /\ pending' = NoPoll
  /\ IF Pending("done")
     THEN LET M == poll[pending].batch \cap mail
          IN  /\ mail' = mail \ M
              /\ poll' = [poll EXCEPT ![pending] = Unused]
              /\ call' = [call EXCEPT ![c] = [@ EXCEPT !.pc = "store", !.awaits = NoPoll,
                                                       !.batch = M]]
     ELSE /\ EndsBy(c, IF Pending("failed") THEN "raised" ELSE "robbed")
          /\ UNCHANGED <<mail, poll>>
  /\ UNCHANGED <<audit, sent, responses, faults>>

(* The inbox cannot be written for one of the responses: those already     *)
(* claimed are not handed out, and will not be again.                      *)
ClaimRaises(c) ==
  /\ WaitIsOver(c)
  /\ Pending("done")
  /\ Fault
  /\ \E M \in SUBSET (poll[pending].batch \cap mail) : mail' = mail \ M
  /\ poll' = [poll EXCEPT ![pending] = Unused]
  /\ pending' = NoPoll
  /\ EndsBy(c, "raised")
  /\ UNCHANGED <<audit, sent, responses>>

(* Mutant: a response to another call is dropped.                          *)
StoreOwn(c, m) ==
  IF m.request = c THEN [responses EXCEPT ![c] = m.decision] ELSE responses

Store(c, m) == [responses EXCEPT ![m.request] = m.decision]

(* Each response is put in the cache, then acknowledged.                   *)
StoreResponse(c, m) ==
  /\ call[c].pc = "store"
  /\ m \in call[c].batch
  /\ responses' = Store(c, m)
  /\ call' = [call EXCEPT ![c].batch = @ \ {m}]
  /\ UNCHANGED <<audit, sent, bus, faults>>

(* ack() raises: retry() makes the response available again and the call   *)
(* ends.                                                                   *)
AckRaises(c, m) ==
  /\ call[c].pc = "store"
  /\ m \in call[c].batch
  /\ Fault
  /\ responses' = Store(c, m)
  /\ mail' = mail \cup {m}
  /\ call' = [call EXCEPT ![c] = [@ EXCEPT !.pc = "raised", !.batch = {}]]
  /\ UNCHANGED <<audit, sent, poll, pending>>

Stored(c) ==
  /\ call[c].pc = "store"
  /\ call[c].batch = {}
  /\ Goes(c, "look")
  /\ UNCHANGED <<audit, sent, bus, responses, faults>>
-----------------------------------------------------------------------------
PNext ==
  \/ \E c \in Calls :
       \/ Request(c)
       \/ \E decision \in Decision : Decide(c, decision)
       \/ RunsLate(c)
       \/ Answered(c)
       \/ TimesOut(c)
       \/ BeginReceive(c)
       \/ GivesUp(c)
       \/ Resume(c)
       \/ ClaimRaises(c)
       \/ \E m \in call[c].batch : StoreResponse(c, m) \/ AckRaises(c, m)
       \/ Stored(c)
  \/ \E p \in Polls :
       \/ \E M \in SUBSET mail : PollEnds(p, M)
       \/ PollFails(p)

PSpec == PInit /\ [][PNext]_vars

(* Fairness.  A coroutine that can go on is resumed, a poll ends within    *)
(* its await_duration, and polled again and again the broker hands out     *)
(* what is there.                                                          *)
Proceeds(c) ==
  \/ Answered(c) \/ TimesOut(c) \/ BeginReceive(c) \/ GivesUp(c) \/ Resume(c) \/ Stored(c)
  \/ \E m \in call[c].batch : StoreResponse(c, m)

PFairness ==
  /\ \A c \in Calls : WF_vars(Proceeds(c)) /\ WF_vars(Resume(c))
  /\ \A p \in Polls : WF_vars(\E M \in SUBSET mail : PollEnds(p, M))
  /\ \A c \in Calls : SF_vars(\E p \in Polls, M \in SUBSET mail :
                                (\E m \in M : m.request = c) /\ PollEnds(p, M))

PFairSpec == PSpec /\ PFairness
-----------------------------------------------------------------------------
PTypeOK ==
  /\ audit \in [Calls -> {"none", "open"} \cup Decision]
  /\ sent \subseteq Response
  /\ mail \subseteq sent
  /\ poll \in [Polls -> [status : {"unused", "running", "done", "failed"}, batch : SUBSET sent]]
  /\ pending \in Polls \cup {NoPoll}
  /\ responses \in [Calls -> {"none"} \cup Decision]
  /\ call \in [Calls -> [pc     : {"idle"} \cup Waiting \cup Ended,
                         late   : BOOLEAN,
                         awaits : Polls \cup {NoPoll},
                         batch  : SUBSET sent]]
  /\ faults \in 0..MaxFaults

(* A dangerous tool call runs only if the lead approved that very call:    *)
(* not on a response to another call of the same turn, not because the     *)
(* wait timed out or the message bus failed.                               *)
RunsOnlyIfApproved ==
  \A c \in Calls : call[c].pc = "ran" =>
    \E m \in sent : m.request = c /\ m.decision = "approved"

(* A call that found its poll taken by another one has ended by an         *)
(* exception, and the agent's turn with it.                                *)
TurnBroken ==
  \E c, o \in Calls : c # o /\ call[c].pc = "robbed" /\ call[o].pc # "idle"

(* A decision is heard by the call that waits for it, also when another    *)
(* call of the turn received the response, unless the deadline passes, or  *)
(* broker or database failed.  The code does not keep this for two calls   *)
(* that wait for one poll when it ends: then one of them breaks the turn,  *)
(* which is excepted here.  A call that waits alone is heard.              *)
DecisionIsHeard ==
  \A c \in Calls :
    audit[c] \in Decision /\ call[c].pc \in Waiting
      ~> \/ call[c].pc \in {"ran", "refused"}
         \/ call[c].late \/ faults > 0 \/ TurnBroken

(* While nothing fails, the decision a call waits for is not lost: it can   *)
(* still be received, is in the hands of a call that is storing what it     *)
(* received, whoever that is, or is in the cache.                           *)
DecisionIsKept ==
  \A c \in Calls :
    audit[c] \in Decision /\ call[c].pc \in Waiting /\ faults = 0 =>
      \/ responses[c] # "none"
      \/ \E m \in mail : m.request = c
      \/ \E o \in Calls : \E m \in call[o].batch : m.request = c

(* A call past its deadline ends.                                          *)
WaitEnds == \A c \in Calls : call[c].late ~> call[c].pc \in Ended

=============================================================================
