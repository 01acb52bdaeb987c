---------------------------- MODULE PermissionProofs ----------------------------
(***************************************************************************)
(* Proofs about Permission for any number of tool calls, polls, decisions   *)
(* and failures.                                                            *)
(***************************************************************************)
EXTENDS Permission, FiniteSetTheorems, TLAPS

(* Only what the lead sent gets into the cache; this with the type          *)
(* invariant, which says the same of mail and batches, makes                *)
(* RunsOnlyIfApproved inductive.                                            *)
CacheHoldsResponses ==
  \A c \in Calls : responses[c] # "none" =>
    \E m \in sent : m.request = c /\ m.decision = responses[c]

PermissionInv ==
  /\ PTypeOK
  /\ IsFiniteSet(sent)
  /\ CacheHoldsResponses
  /\ RunsOnlyIfApproved

(* The initial state has neither requests nor responses.                    *)
LEMMA InitEstablishesInv == PInit => PermissionInv
<1> SUFFICES ASSUME PInit PROVE PermissionInv
  OBVIOUS
<1>1. PTypeOK
  BY PermissionAssumption DEF PInit, PTypeOK, Unused, NotCalled
<1>2. IsFiniteSet(sent)
  BY FS_EmptySet DEF PInit
<1>3. CacheHoldsResponses
  BY DEF PInit, CacheHoldsResponses
<1>4. RunsOnlyIfApproved
  BY DEF PInit, RunsOnlyIfApproved, NotCalled
<1> QED
  BY <1>1, <1>2, <1>3, <1>4 DEF PermissionInv

(* A step that leaves the responses sent and the cache alone, and lets no   *)
(* call run, keeps what is said of them.                                    *)
LEMMA QuietStep ==
  ASSUME PermissionInv, PTypeOK', UNCHANGED <<sent, responses>>,
         \A c \in Calls : call'[c].pc = "ran" => call[c].pc = "ran"
  PROVE  PermissionInv'
BY DEF PermissionInv, CacheHoldsResponses, RunsOnlyIfApproved

(* Every step keeps the invariant.                                          *)
LEMMA NextKeepsInv == PermissionInv /\ [PNext]_vars => PermissionInv'
<1> SUFFICES ASSUME PermissionInv, [PNext]_vars PROVE PermissionInv'
  OBVIOUS
<1> USE PermissionAssumption
<1>type. PTypeOK
  BY DEF PermissionInv
<1>1. ASSUME NEW c \in Calls, Request(c) PROVE PermissionInv'
  <2>1. PTypeOK'
    BY <1>1, <1>type DEF PTypeOK, Request, Goes, bus, Waiting
  <2> QED
    BY <1>1, <1>type, <2>1, QuietStep DEF PTypeOK, Request, Goes
<1>2. ASSUME NEW c \in Calls, NEW decision \in Decision, Decide(c, decision)
      PROVE  PermissionInv'
  <2> DEFINE m == [request |-> c, decision |-> decision, n |-> Cardinality(sent)]
  <2>1. IsFiniteSet(sent) /\ Cardinality(sent) \in Nat
    BY FS_CardinalityType DEF PermissionInv
  <2>2. m \in Response
    BY <2>1 DEF Response
  <2>3. sent' = sent \cup {m} /\ mail' = mail \cup {m}
    BY <1>2 DEF Decide
  <2> HIDE DEF m
  <2>4. PTypeOK'
    <3>1. audit' \in [Calls -> {"none", "open"} \cup Decision]
      BY <1>2, <1>type DEF Decide, PTypeOK
    <3>2. /\ sent' \subseteq Response
          /\ mail' \subseteq sent'
      BY <2>2, <2>3, <1>type DEF PTypeOK
    <3>3. UNCHANGED <<poll, pending, responses, call, faults>>
      BY <1>2 DEF Decide
    <3>4. poll' \in [Polls -> [status : {"unused", "running", "done", "failed"}, batch : SUBSET sent']]
      BY <2>3, <3>3, <1>type DEF PTypeOK
    <3>5. call' \in [Calls -> [pc : {"idle"} \cup Waiting \cup Ended, late : BOOLEAN,
                               awaits : Polls \cup {NoPoll}, batch : SUBSET sent']]
      BY <2>3, <3>3, <1>type DEF PTypeOK
    <3> QED
      BY <3>1, <3>2, <3>3, <3>4, <3>5, <1>type DEF PTypeOK
  <2>5. IsFiniteSet(sent')
    BY <2>1, <2>3, FS_AddElement
  <2>6. sent \subseteq sent' /\ UNCHANGED <<responses, call>>
    BY <1>2, <2>3 DEF Decide
  <2>7. CacheHoldsResponses' /\ RunsOnlyIfApproved'
    BY <2>6 DEF PermissionInv, CacheHoldsResponses, RunsOnlyIfApproved
  <2> QED
    BY <2>4, <2>5, <2>7 DEF PermissionInv
<1>3. ASSUME NEW c \in Calls, RunsLate(c) PROVE PermissionInv'
  <2>1. PTypeOK'
    BY <1>3, <1>type DEF PTypeOK, RunsLate, bus
  <2> QED
    BY <1>3, <1>type, <2>1, QuietStep DEF PTypeOK, RunsLate
<1>4. ASSUME NEW c \in Calls, Answered(c) PROVE PermissionInv'
  <2>1. PTypeOK'
    BY <1>4, <1>type DEF PTypeOK, Answered, Goes, bus, Ended
  <2>2. UNCHANGED sent /\ responses' = [responses EXCEPT ![c] = "none"]
    BY <1>4 DEF Answered
  <2>3. CacheHoldsResponses'
    BY <2>2, <1>type DEF PermissionInv, CacheHoldsResponses, PTypeOK
  <2>4. call'[c].pc = "ran" => responses[c] = "approved"
    BY <1>4, <1>type DEF Answered, Goes, CachedResponse, PTypeOK
  <2>5. \A o \in Calls \ {c} : call'[o] = call[o]
    BY <1>4, <1>type DEF Answered, Goes, PTypeOK
  <2>6. RunsOnlyIfApproved'
    BY <2>2, <2>4, <2>5 DEF PermissionInv, CacheHoldsResponses, RunsOnlyIfApproved
  <2> QED
    BY <2>1, <2>2, <2>3, <2>6 DEF PermissionInv
<1>5. ASSUME NEW c \in Calls, TimesOut(c) PROVE PermissionInv'
  <2>1. PTypeOK'
    BY <1>5, <1>type DEF PTypeOK, TimesOut, Goes, bus, Ended
  <2> QED
    BY <1>5, <1>type, <2>1, QuietStep DEF PTypeOK, TimesOut, Goes
<1>6. ASSUME NEW c \in Calls, BeginReceive(c) PROVE PermissionInv'
  <2>1. PICK p \in Polls \cup {NoPoll} : Awaits(c, p)
    BY <1>6, <1>type DEF BeginReceive, PTypeOK
  <2>2. PTypeOK'
    <3>1. UNCHANGED <<audit, sent, mail, responses, faults>>
      BY <1>6 DEF BeginReceive
    <3>2. pending' \in Polls \cup {NoPoll}
      BY <1>6, <1>type DEF BeginReceive, PTypeOK
    <3>3. poll' \in [Polls -> [status : {"unused", "running", "done", "failed"}, batch : SUBSET sent]]
      <4>1. CASE UNCHANGED poll
        BY <4>1, <1>type DEF PTypeOK
      <4>2. CASE \E q \in Polls : poll' = [poll EXCEPT ![q] = [status |-> "running", batch |-> {}]]
        BY <4>2, <1>type DEF PTypeOK
      <4> QED
        BY <1>6, <4>1, <4>2 DEF BeginReceive
    <3>4. call' \in [Calls -> [pc : {"idle"} \cup Waiting \cup Ended, late : BOOLEAN,
                               awaits : Polls \cup {NoPoll}, batch : SUBSET sent]]
      BY <2>1, <1>type DEF PTypeOK, Awaits, Waiting
    <3> QED
      BY <3>1, <3>2, <3>3, <3>4, <1>type DEF PTypeOK
  <2> QED
    BY <1>6, <1>type, <2>1, <2>2, QuietStep DEF PTypeOK, BeginReceive, Awaits
<1>7. ASSUME NEW c \in Calls, GivesUp(c) PROVE PermissionInv'
  <2>1. PTypeOK'
    BY <1>7, <1>type DEF PTypeOK, GivesUp, bus, Waiting
  <2> QED
    BY <1>7, <1>type, <2>1, QuietStep DEF PTypeOK, GivesUp
<1>8. ASSUME NEW c \in Calls, Resume(c) PROVE PermissionInv'
  <2>1. CASE pending # NoPoll /\ poll[pending].status = "done"
    <3> DEFINE M == poll[pending].batch \cap mail
    <3>1. M \in SUBSET sent /\ pending \in Polls
      BY <2>1, <1>type DEF PTypeOK
    <3>2. /\ call' = [call EXCEPT ![c] = [@ EXCEPT !.pc = "store", !.awaits = NoPoll, !.batch = M]]
          /\ poll' = [poll EXCEPT ![pending] = Unused]
          /\ mail' = mail \ M
          /\ pending' = NoPoll
          /\ UNCHANGED <<audit, sent, responses, faults>>
      BY <1>8, <2>1 DEF Resume, Pending
    <3> HIDE DEF M
    <3>3. PTypeOK'
      BY <3>1, <3>2, <1>type DEF PTypeOK, Unused, Waiting
    <3> QED
      BY <3>2, <3>3, <1>type, QuietStep DEF PTypeOK
  <2>2. CASE ~ (pending # NoPoll /\ poll[pending].status = "done")
    <3>1. /\ \E place \in {"raised", "robbed"} : EndsBy(c, place)
          /\ pending' = NoPoll
          /\ UNCHANGED <<mail, poll, audit, sent, responses, faults>>
      BY <1>8, <2>2 DEF Resume, Pending
    <3>2. call' \in [Calls -> [pc : {"idle"} \cup Waiting \cup Ended, late : BOOLEAN,
                               awaits : Polls \cup {NoPoll}, batch : SUBSET sent]]
      BY <3>1, <1>type DEF PTypeOK, Ended, EndsBy
    <3>3. PTypeOK'
      BY <3>1, <3>2, <1>type DEF PTypeOK
    <3> QED
      BY <3>1, <3>3, <1>type, QuietStep DEF PTypeOK, EndsBy
  <2> QED
    BY <2>1, <2>2
<1>14. ASSUME NEW c \in Calls, ClaimRaises(c) PROVE PermissionInv'
  <2>1. /\ mail' \subseteq mail /\ poll' = [poll EXCEPT ![pending] = Unused]
        /\ pending' = NoPoll /\ faults < MaxFaults /\ faults' = faults + 1
        /\ EndsBy(c, "raised")
        /\ UNCHANGED <<audit, sent, responses>>
    BY <1>14 DEF ClaimRaises, Fault
  <2>2. call' \in [Calls -> [pc : {"idle"} \cup Waiting \cup Ended, late : BOOLEAN,
                             awaits : Polls \cup {NoPoll}, batch : SUBSET sent]]
    BY <2>1, <1>type DEF PTypeOK, Ended, EndsBy
  <2>3. poll' \in [Polls -> [status : {"unused", "running", "done", "failed"}, batch : SUBSET sent]]
    BY <2>1, <1>type DEF PTypeOK, Unused
  <2>4. PTypeOK'
    BY <2>1, <2>2, <2>3, <1>type DEF PTypeOK
  <2> QED
    BY <2>1, <2>4, <1>type, QuietStep DEF PTypeOK, EndsBy
<1>9. ASSUME NEW c \in Calls, NEW m \in call[c].batch, StoreResponse(c, m) \/ AckRaises(c, m)
      PROVE  PermissionInv'
  <2>1. m \in sent /\ m \in Response
    BY <1>type DEF PTypeOK
  <2>2. m.request \in Calls /\ m.decision \in Decision
    BY <2>1 DEF Response
  <2>3. UNCHANGED sent /\ responses' = [responses EXCEPT ![m.request] = m.decision]
    BY <1>9 DEF StoreResponse, AckRaises, Store
  <2>4. PTypeOK'
    <3>1. CASE StoreResponse(c, m)
      BY <3>1, <2>2, <2>3, <1>type DEF PTypeOK, StoreResponse, bus
    <3>2. CASE AckRaises(c, m)
      <4>1. mail' \subseteq sent /\ UNCHANGED <<audit, sent, poll, pending>>
        BY <3>2, <2>1, <1>type DEF PTypeOK, AckRaises
      <4>2. faults' \in 0..MaxFaults
        BY <3>2, <1>type DEF PTypeOK, AckRaises, Fault
      <4>3. responses' \in [Calls -> {"none"} \cup Decision]
        BY <2>2, <2>3, <1>type DEF PTypeOK
      <4>4. call' \in [Calls -> [pc : {"idle"} \cup Waiting \cup Ended, late : BOOLEAN,
                                 awaits : Polls \cup {NoPoll}, batch : SUBSET sent]]
        BY <3>2, <1>type DEF PTypeOK, AckRaises, Ended
      <4> QED
        BY <4>1, <4>2, <4>3, <4>4, <1>type DEF PTypeOK
    <3> QED
      BY <1>9, <3>1, <3>2
  <2>5. CacheHoldsResponses'
    BY <2>1, <2>2, <2>3, <1>type DEF PermissionInv, CacheHoldsResponses, PTypeOK
  <2>6. \A o \in Calls : call'[o].pc = "ran" => call[o].pc = "ran"
    BY <1>9, <1>type DEF StoreResponse, AckRaises, PTypeOK
  <2>7. RunsOnlyIfApproved'
    BY <2>3, <2>6 DEF PermissionInv, RunsOnlyIfApproved
  <2> QED
    BY <2>3, <2>4, <2>5, <2>7 DEF PermissionInv
<1>10. ASSUME NEW c \in Calls, Stored(c) PROVE PermissionInv'
  <2>1. PTypeOK'
    BY <1>10, <1>type DEF PTypeOK, Stored, Goes, bus, Waiting
  <2> QED
    BY <1>10, <1>type, <2>1, QuietStep DEF PTypeOK, Stored, Goes
<1>11. ASSUME NEW p \in Polls, NEW M \in SUBSET mail, PollEnds(p, M) PROVE PermissionInv'
  <2>1. PTypeOK'
    BY <1>11, <1>type DEF PTypeOK, PollEnds, Unused
  <2> QED
    BY <1>11, <2>1, QuietStep DEF PollEnds
<1>12. ASSUME NEW p \in Polls, PollFails(p) PROVE PermissionInv'
  <2>1. PTypeOK'
    BY <1>12, <1>type DEF PTypeOK, PollFails, Fault
  <2> QED
    BY <1>12, <2>1, QuietStep DEF PollFails
<1>13. ASSUME UNCHANGED vars PROVE PermissionInv'
  BY <1>13 DEF vars, bus, PermissionInv, PTypeOK, CacheHoldsResponses, RunsOnlyIfApproved
<1> QED
  BY <1>1, <1>2, <1>3, <1>4, <1>5, <1>6, <1>7, <1>8, <1>9, <1>10, <1>11, <1>12, <1>13, <1>14 DEF PNext

(* The inductive invariant holds of every behaviour.                        *)
LEMMA PermissionInvHolds == PSpec => []PermissionInv
BY InitEstablishesInv, NextKeepsInv, PTL DEF PSpec

(* The tables, the bus and the coroutines keep their shape; in particular   *)
(* nothing is in the mail or in a batch that decide_permission did not send.*)
THEOREM PermissionTypeCorrect == PSpec => []PTypeOK
<1>1. PermissionInv => PTypeOK
  BY DEF PermissionInv
<1> QED
  BY <1>1, PermissionInvHolds, PTL

(* A dangerous tool call runs only on an approval of its own request,       *)
(* however many calls share the cache and the poll, whatever fails, and     *)
(* however often the lead decides.                                          *)
THEOREM RunsOnlyIfApprovedCorrect == PSpec => []RunsOnlyIfApproved
<1>1. PermissionInv => RunsOnlyIfApproved
  BY DEF PermissionInv
<1> QED
  BY <1>1, PermissionInvHolds, PTL
-----------------------------------------------------------------------------
(* Where the decision of a request can be.                                  *)
InMail(c)  == \E m \in mail : m.request = c
InHand(c)  == \E o \in Calls : \E m \in call[o].batch : m.request = c
Kept(c)    == responses[c] # "none" \/ InMail(c) \/ InHand(c)

(* Only a call that stores has responses in its hands: it loses none by     *)
(* going on.                                                                *)
HandsFull == \A c \in Calls : call[c].batch # {} => call[c].pc = "store"

KeptInv == HandsFull /\ DecisionIsKept

(* Every step keeps the decisions until they are heard.                     *)
LEMMA StepKeepsDecisions == PermissionInv /\ KeptInv /\ [PNext]_vars => KeptInv'
<1> SUFFICES ASSUME PermissionInv, KeptInv, [PNext]_vars PROVE KeptInv'
  OBVIOUS
<1>type. PTypeOK
  BY DEF PermissionInv
<1>kept. \A c \in Calls : audit[c] \in Decision /\ call[c].pc \in Waiting /\ faults = 0 => Kept(c)
  BY DEF KeptInv, DecisionIsKept, Kept, InMail, InHand
(* What a step has to do with a call and with the response to it.           *)
<1>same. ASSUME UNCHANGED audit, faults' = faults,
                \A c \in Calls : /\ call'[c].pc \in Waiting => call[c].pc \in Waiting \/ audit[c] = "open"
                                 /\ Kept(c) /\ call'[c].pc \in Waiting => Kept(c)'
         PROVE  DecisionIsKept'
  <2>1. "open" \notin Decision
    BY DEF Decision
  <2> QED
    BY <1>kept, <1>same, <2>1 DEF DecisionIsKept, Kept, InMail, InHand
<1>1. ASSUME NEW c \in Calls, Request(c) PROVE KeptInv'
  <2>1. /\ audit' = [audit EXCEPT ![c] = "open"]
        /\ call' = [call EXCEPT ![c].pc = "look"] /\ call[c].pc = "idle"
        /\ UNCHANGED <<mail, responses, faults>>
    BY <1>1 DEF Request, Goes, bus
  <2>2. \A o \in Calls : /\ call'[o].batch = call[o].batch
                         /\ o # c => call'[o] = call[o] /\ audit'[o] = audit[o]
    BY <2>1, <1>type DEF PTypeOK
  <2>3. audit'[c] \notin Decision /\ call[c].batch = {}
    BY <2>1, <1>type DEF PTypeOK, Decision, KeptInv, HandsFull
  <2>4. HandsFull'
    BY <2>2, <2>3 DEF KeptInv, HandsFull
  <2>5. \A o \in Calls : Kept(o) => Kept(o)'
    BY <2>1, <2>2 DEF Kept, InMail, InHand
  <2>6. DecisionIsKept'
    BY <1>kept, <2>1, <2>2, <2>3, <2>5 DEF DecisionIsKept, Kept, InMail, InHand
  <2> QED
    BY <2>4, <2>6 DEF KeptInv
<1>2. ASSUME NEW c \in Calls, NEW decision \in Decision, Decide(c, decision) PROVE KeptInv'
  <2> DEFINE m == [request |-> c, decision |-> decision, n |-> Cardinality(sent)]
  <2>1. /\ audit' = [audit EXCEPT ![c] = decision] /\ mail' = mail \cup {m}
        /\ UNCHANGED <<responses, call, faults>>
    BY <1>2 DEF Decide
  <2>2. m.request = c
    OBVIOUS
  <2> HIDE DEF m
  <2>3. InMail(c)' /\ \A o \in Calls : Kept(o) => Kept(o)'
    BY <2>1, <2>2 DEF Kept, InMail, InHand
  <2>4. \A o \in Calls \ {c} : audit'[o] = audit[o]
    BY <2>1, <1>type DEF PTypeOK
  <2>5. \A o \in Calls : audit'[o] \in Decision /\ call'[o].pc \in Waiting /\ faults' = 0 => Kept(o)'
    BY <1>kept, <2>1, <2>3, <2>4 DEF Kept
  <2> QED
    BY <2>1, <2>5 DEF KeptInv, HandsFull, DecisionIsKept, Kept, InMail, InHand
<1>3. ASSUME NEW c \in Calls,
             RunsLate(c) \/ TimesOut(c) \/ BeginReceive(c) \/ GivesUp(c) \/ Stored(c)
      PROVE  KeptInv'
  <2>1. UNCHANGED <<audit, mail, responses, faults>>
    BY <1>3 DEF RunsLate, TimesOut, BeginReceive, GivesUp, Stored, bus
  <2>2. /\ call[c].pc \in Waiting
        /\ \A o \in Calls : call'[o].batch = call[o].batch /\ (o # c => call'[o] = call[o])
        /\ call'[c].pc = call[c].pc \/ call[c].batch = {}
    <3>1. CASE RunsLate(c)
      BY <3>1, <1>type DEF RunsLate, PTypeOK
    <3>2. CASE TimesOut(c)
      BY <3>2, <1>type DEF TimesOut, Goes, PTypeOK, Waiting, KeptInv, HandsFull
    <3>3. CASE BeginReceive(c)
      <4>1. PICK p : Awaits(c, p)
        BY <3>3 DEF BeginReceive
      <4>2. call[c].pc = "look" /\ call[c].batch = {}
        BY <3>3 DEF BeginReceive, KeptInv, HandsFull
      <4>3. \A o \in Calls : call'[o].batch = call[o].batch /\ (o # c => call'[o] = call[o])
        BY <4>1, <1>type DEF Awaits, PTypeOK
      <4> QED
        BY <4>2, <4>3 DEF Waiting
    <3>4. CASE GivesUp(c)
      BY <3>4, <1>type DEF GivesUp, PTypeOK, Waiting, KeptInv, HandsFull
    <3>5. CASE Stored(c)
      BY <3>5, <1>type DEF Stored, Goes, PTypeOK, Waiting
    <3> QED
      BY <1>3, <3>1, <3>2, <3>3, <3>4, <3>5
  <2>3. HandsFull'
    BY <2>2 DEF KeptInv, HandsFull
  <2>4. \A o \in Calls : Kept(o) => Kept(o)'
    BY <2>1, <2>2 DEF Kept, InMail, InHand
  <2> QED
    BY <1>same, <2>1, <2>2, <2>3, <2>4 DEF KeptInv
<1>4. ASSUME NEW c \in Calls, Answered(c) PROVE KeptInv'
  <2>1. /\ UNCHANGED <<audit, mail, faults>> /\ call[c].pc = "look"
        /\ responses' = [responses EXCEPT ![c] = "none"]
    BY <1>4 DEF Answered, bus
  <2>2. /\ \A o \in Calls : call'[o].batch = call[o].batch /\ (o # c => call'[o] = call[o])
        /\ call'[c].pc \notin Waiting
    BY <1>4, <1>type DEF Answered, Goes, PTypeOK, Waiting
  <2>3. HandsFull'
    BY <2>1, <2>2 DEF KeptInv, HandsFull
  <2>4. \A o \in Calls \ {c} : Kept(o) => Kept(o)'
    BY <2>1, <2>2, <1>type DEF Kept, InMail, InHand, PTypeOK
  <2> QED
    BY <1>same, <2>1, <2>2, <2>3, <2>4 DEF KeptInv
(* What leaves the mail is in the hands of the call that took it.           *)
<1>5. ASSUME NEW c \in Calls, Resume(c) PROVE KeptInv'
  <2>1. PICK M : /\ M \subseteq mail /\ mail' = mail \ M
                 /\ call' = [call EXCEPT ![c] = [@ EXCEPT !.pc = "store", !.awaits = NoPoll,
                                                          !.batch = M]]
                 \/ /\ M = {} /\ mail' = mail
                    /\ \E place \in Ended : EndsBy(c, place)
    BY <1>5 DEF Resume, Ended
  <2>2. UNCHANGED <<audit, responses, faults>> /\ call[c].pc = "receive" /\ call[c].batch = {}
    BY <1>5 DEF Resume, WaitIsOver, KeptInv, HandsFull
  <2>3. /\ \A o \in Calls \ {c} : call'[o] = call[o]
        /\ call'[c].batch = M /\ (M = {} \/ call'[c].pc = "store")
    <3>1. call \in [Calls -> [pc : {"idle"} \cup Waiting \cup Ended, late : BOOLEAN,
                              awaits : Polls \cup {NoPoll}, batch : SUBSET sent]]
      BY <1>type DEF PTypeOK
    <3>2. CASE call' = [call EXCEPT ![c] = [@ EXCEPT !.pc = "store", !.awaits = NoPoll, !.batch = M]]
      BY <3>1, <3>2
    <3>3. CASE M = {} /\ \E place \in Ended : EndsBy(c, place)
      BY <2>2, <3>1, <3>3 DEF EndsBy
    <3> QED
      BY <2>1, <3>2, <3>3
  <2>4. HandsFull'
    BY <2>3 DEF KeptInv, HandsFull
  <2>5. mail \subseteq mail' \cup M
    BY <2>1
  <2>6. ASSUME NEW o \in Calls, Kept(o) PROVE Kept(o)'
    <3>1. CASE InMail(o)
      BY <2>3, <2>5, <3>1 DEF Kept, InMail, InHand
    <3>2. CASE InHand(o)
      BY <2>2, <2>3, <3>2 DEF Kept, InHand
    <3> QED
      BY <2>2, <2>6, <3>1, <3>2 DEF Kept
  <2>7. call[c].pc \in Waiting
    BY <2>2 DEF Waiting
  <2> QED
    BY <1>same, <2>2, <2>3, <2>4, <2>6, <2>7 DEF KeptInv
(* What leaves the hands is in the cache.                                   *)
<1>6. ASSUME NEW c \in Calls, NEW m \in call[c].batch, StoreResponse(c, m) PROVE KeptInv'
  <2>1. m.request \in Calls /\ m.decision \in Decision
    BY <1>type DEF PTypeOK, Response
  <2>2. /\ UNCHANGED <<audit, mail, faults>> /\ call[c].pc = "store"
        /\ responses' = [responses EXCEPT ![m.request] = m.decision]
        /\ call' = [call EXCEPT ![c].batch = @ \ {m}]
    BY <1>6 DEF StoreResponse, Store, bus
  <2>3. /\ \A o \in Calls \ {c} : call'[o] = call[o]
        /\ call'[c].pc = call[c].pc /\ call'[c].batch = call[c].batch \ {m}
    BY <2>2, <1>type DEF PTypeOK
  <2>4. /\ responses'[m.request] # "none"
        /\ \A o \in Calls \ {m.request} : responses'[o] = responses[o]
    BY <2>1, <2>2, <1>type DEF PTypeOK, Decision
  <2>5. HandsFull'
    BY <2>2, <2>3 DEF KeptInv, HandsFull
  <2>6. ASSUME NEW o \in Calls, Kept(o) PROVE Kept(o)'
    <3>1. CASE o = m.request
      BY <2>4, <3>1 DEF Kept
    <3>2. CASE o # m.request /\ InHand(o)
      BY <2>3, <3>2 DEF Kept, InHand
    <3> QED
      BY <2>2, <2>4, <2>6, <3>1, <3>2 DEF Kept, InMail
  <2> QED
    BY <1>same, <2>2, <2>3, <2>5, <2>6 DEF KeptInv
<1>10. ASSUME NEW c \in Calls, ClaimRaises(c) PROVE KeptInv'
  <2>1. faults' # 0
    BY <1>10, <1>type DEF ClaimRaises, Fault, PTypeOK
  <2>2. call[c].batch = {}
    BY <1>10 DEF ClaimRaises, WaitIsOver, KeptInv, HandsFull
  <2>3. HandsFull'
    BY <1>10, <2>2, <1>type DEF ClaimRaises, EndsBy, KeptInv, HandsFull, PTypeOK
  <2> QED
    BY <2>1, <2>3 DEF KeptInv, DecisionIsKept
<1>7. ASSUME NEW c \in Calls, NEW m \in call[c].batch, AckRaises(c, m) PROVE KeptInv'
  <2>1. faults' # 0
    BY <1>7, <1>type DEF AckRaises, Fault, PTypeOK
  <2>2. HandsFull'
    BY <1>7, <1>type DEF AckRaises, KeptInv, HandsFull, PTypeOK
  <2> QED
    BY <2>1, <2>2 DEF KeptInv, DecisionIsKept
<1>8. ASSUME NEW p \in Polls, (\E M \in SUBSET mail : PollEnds(p, M)) \/ PollFails(p) PROVE KeptInv'
  <2>1. UNCHANGED <<audit, mail, responses, call>>
    BY <1>8 DEF PollEnds, PollFails
  <2>2. faults' = faults \/ faults' # 0
    BY <1>8, <1>type DEF PollEnds, PollFails, Fault, PTypeOK
  <2> QED
    BY <2>1, <2>2 DEF KeptInv, HandsFull, DecisionIsKept
<1>9. CASE UNCHANGED vars
  BY <1>9 DEF vars, bus, KeptInv, HandsFull, DecisionIsKept
<1> QED
  BY <1>1, <1>2, <1>3, <1>4, <1>5, <1>6, <1>7, <1>8, <1>9, <1>10 DEF PNext

(* While broker and database do not fail, no decision is lost on its way to *)
(* the call that waits for it, whichever call of the turn receives it: what *)
(* DecisionIsHeard needs besides fairness.                                  *)
THEOREM DecisionIsKeptCorrect == PSpec => []DecisionIsKept
<1>1. PInit => KeptInv
  BY DEF PInit, KeptInv, HandsFull, DecisionIsKept, NotCalled, Decision, Waiting
<1>2. KeptInv => DecisionIsKept
  BY DEF KeptInv
<1> QED
  BY <1>1, <1>2, StepKeepsDecisions, PermissionInvHolds, PTL DEF PSpec
=============================================================================
