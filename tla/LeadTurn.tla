------------------------------ MODULE LeadTurn ------------------------------
(* A lead's turn as a whole (create_coding_agent, run_streaming in           *)
(* src/cli.py): the conversation and its model calls (ModelCall) with the    *)
(* memories it reads, changes and makes (MemoryStore).  The other agents     *)
(* share the memories; of their turns there remains what MemoryStore has.    *)
EXTENDS MemoryStore, ModelCall

CONSTANT Lead       \* the agent whose conversation is modelled

ASSUME LeadAssumption == Lead \in Agents

leadVars == <<memVars, callVars>>

LeadTypeOK == MemTypeOK /\ CallTypeOK

LeadInit == MemInit /\ CallInit

\* The user's message starts the graph: before_agent comes first.
StartTurn == UserSays /\ BeginTurn(Lead)

\* What the pipeline and the recovery do before there is an answer.
AskModel ==
    /\ \/ \E over, auto \in BOOLEAN : BeforeModel(over, auto)
       \/ \E n \in 1 .. MaxCalls : CallSucceeds(n)
       \/ CallTruncated
       \/ CallExceeds
       \/ CompactForRetry
       \/ \E e \in Errors : RetryFails(e) /\ phase' # "idle"
    /\ UNCHANGED memVars

\* An answer without calls ends the turn.  The first call's answer is whole; one
\* that was continued is called whole by the recovery unless the continuation
\* failed, and one of a retry may be cut off again.
EndTurn(whole) ==
    /\ \/ CallSucceeds(0) /\ whole
       \/ ContinuationEnds
       \/ RetrySucceeds
       \/ FallbackSucceeds
    /\ FinalAnswer(Lead, whole)

\* The tools of an answer, and the end of all of them.
MemoryTool(s) ==
    /\ phase = "tools" /\ Owner[s] = Lead
    /\ \E i \in Ids : BeginDelete(s, i) \/ \E text \in Texts : BeginUpdate(s, i, text)
    /\ UNCHANGED callVars

AllToolsEnd == ToolsEnd /\ Quiet(Lead) /\ UNCHANGED memVars

\* An error nobody catches ends the process, as does the user.
FailTurn ==
    /\ \/ CallFails
       \/ CompactionFails
       \/ \E e \in Errors : RetryFails(e) /\ phase' = "idle"
       \/ FallbackFails
       \/ Killed
    /\ Die(Lead)

KilledWhileExtracting == phase = "idle" /\ Die(Lead) /\ UNCHANGED callVars

\* The steps of calls of the repository that are under way, of every agent, and
\* the extraction.
MemoryStep ==
    /\ \/ \E s \in Slots : \/ Remove(s)
                           \/ SaveLooksUp(s)
                           \/ SavePuts(s)
                           \/ AccessFails(s)
                           \/ AccessRaises(s)
                           \/ \E i \in Ids, text \in Texts : ItemUpdates(s, i, text)
                           \/ \E i \in Ids, kind \in Kinds, text \in Texts :
                                  ItemCreates(s, i, kind, text)
       \/ \E a \in Agents : EndExtraction(a)
    /\ UNCHANGED callVars

\* The turns of the other agents.
OthersTurn ==
    /\ \E a \in Agents \ {Lead} :
          \/ BeginTurn(a)
          \/ \E whole \in BOOLEAN : FinalAnswer(a, whole)
          \/ Die(a)
          \/ \E s \in SlotsOf(a), i \in Ids :
                BeginDelete(s, i) \/ \E text \in Texts : BeginUpdate(s, i, text)
    /\ UNCHANGED callVars

LeadNext ==
    \/ StartTurn
    \/ AskModel
    \/ \E whole \in BOOLEAN : EndTurn(whole)
    \/ \E s \in Slots : MemoryTool(s)
    \/ AllToolsEnd
    \/ FailTurn
    \/ KilledWhileExtracting
    \/ MemoryStep
    \/ OthersTurn

LeadSpec == LeadInit /\ [][LeadNext]_leadVars
=============================================================================
