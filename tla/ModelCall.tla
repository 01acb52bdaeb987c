----------------------------- MODULE ModelCall -----------------------------
(* The conversation of one thread and the calls of the model in it, as the  *)
(* compression of the context                                               *)
(* (src/middlewares/context_compression_middleware.py) and the recovery     *)
(* from errors (src/middlewares/error_recovery_middleware.py) shape them.   *)
(*                                                                          *)
(* What a message says is left out; of an answer there remains how many     *)
(* tool calls it holds, of a result to which answer it belongs.  If a list  *)
(* is over the limit of tokens is open at every estimate.  The node's       *)
(* update of "messages" goes through LangGraph's reducer, which is external:*)
(* messages with an id replace what has that id, the others are appended,   *)
(* and nothing is removed.                                                  *)
EXTENDS Naturals, Sequences, FiniteSets

CONSTANTS
    MaxCalls,       \* bound: tool calls in one answer
    MaxHistory,     \* bound: messages of the conversation
    MaxMessages,    \* max_message_count (50)
    RecentResults,  \* recent_tool_results_keep (3)
    KeptByAuto,     \* messages an automatic summary leaves (10)
    KeptByReactive, \* messages an emergency summary leaves (5)
    MaxRetries,     \* max_retries (5)
    Threshold       \* consecutive_529_threshold (3)

ASSUME CallAssumption ==
    /\ {MaxCalls, MaxHistory, MaxMessages, RecentResults} \subseteq Nat
    /\ {KeptByAuto, KeptByReactive, MaxRetries, Threshold} \subseteq Nat \ {0}

VARIABLES
    history,        \* the messages of the thread's state
    phase,          \* where the turn stands
    sent,           \* the list of the last call of the model
    unavailable,    \* _consecutive_529_count
    attempts,       \* attempts of _call_with_retry
    outcomes,       \* history: how the attempts of this request ended
    interrupted     \* history: a turn of this thread was broken off

callVars == <<history, phase, sent, unavailable, attempts, outcomes, interrupted>>

Errors == {"529", "429", "other"}

\* A message: who it is from, and for an answer the number of its calls.  A
\* message of the state is identified by its place; one the pipeline has made
\* has no id (0).
Message(id, from, calls) == [id |-> id, from |-> from, calls |-> calls]
User(id)     == Message(id, "user", 0)
Answer(id,n) == Message(id, "model", n)
Result(id)   == Message(id, "tool", 0)
Note         == User(0)

CallTypeOK ==
    /\ \A i \in DOMAIN history :
          history[i] \in [id : {i}, from : {"user", "model", "tool"}, calls : 0 .. MaxCalls]
    /\ phase \in {"idle", "before", "call", "tools", "continue", "compact", "retry",
                  "fallback"}
    /\ unavailable \in 0 .. Threshold
    /\ attempts \in 0 .. MaxRetries
    /\ outcomes \in Seq(Errors)
    /\ interrupted \in BOOLEAN

CallInit ==
    /\ history = << >>
    /\ phase = "idle"
    /\ sent = << >>
    /\ unavailable = 0
    /\ attempts = 0
    /\ outcomes = << >>
    /\ interrupted = FALSE

-----------------------------------------------------------------------------
(* Compression: abefore_model.                                              *)

LastOf(s, n) == SubSeq(s, IF Len(s) > n THEN Len(s) - n + 1 ELSE 1, Len(s))

\* _snip_compact: the two ends of a long list, and a note between them.
Snip(s) ==
    LET half == MaxMessages \div 2
    IN IF Len(s) <= MaxMessages THEN s
       ELSE SubSeq(s, 1, half) \o <<Note>> \o LastOf(s, half)

\* _micro_compact: results but for the last few become notes.
Results(s) == {i \in DOMAIN s : s[i].from = "tool"}
OldResults(s) ==
    {i \in Results(s) : Cardinality({j \in Results(s) : j > i}) >= RecentResults}
\* Mutant: the note takes the place of the result in the state too.
MicroInPlace(s) == [i \in DOMAIN s |-> IF i \in OldResults(s) THEN User(s[i].id) ELSE s[i]]
Micro(s)        == [i \in DOMAIN s |-> IF i \in OldResults(s) THEN Note ELSE s[i]]

\* _auto_compact: a summary and the last messages, if that is short enough.
AutoCompact(s) == <<Note>> \o LastOf(s, KeptByAuto)

\* reactive_compact: a summary and the last messages; if the first of them is a
\* result, the answer before it is kept too.
\* Mutant: the answer is not kept.
TailStartsAnywhere(s) == IF Len(s) > KeptByReactive THEN Len(s) - KeptByReactive + 1 ELSE 1
TailStart(s) ==
    LET first == IF Len(s) > KeptByReactive THEN Len(s) - KeptByReactive + 1 ELSE 1
    IN IF /\ first > 1
          /\ s[first].from = "tool" /\ s[first - 1].from = "model" /\ s[first - 1].calls > 0
       THEN first - 1 ELSE first
Reactive(s) == <<Note>> \o SubSeq(s, TailStart(s), Len(s))

\* The reducer of "messages": what has the id of an old message replaces it,
\* what has none is appended, and every other message stays.
Merge(old, new) ==
    LET added == Cardinality({k \in DOMAIN new : new[k].id = 0})
        Kept(i) == IF \E k \in DOMAIN new : new[k].id = i
                   THEN new[CHOOSE k \in DOMAIN new : new[k].id = i]
                   ELSE old[i]
    IN [i \in DOMAIN old |-> Kept(i)] \o [i \in 1 .. added |-> User(Len(old) + i)]

\* The steps in their order.  A list that is over the limit is summed up; if
\* that fails, or leaves it over the limit (auto = FALSE), the emergency
\* summary follows.
Compacted(s, over, auto) ==
    LET short == Micro(Snip(s))
    IN CASE ~over         -> short
         [] over /\ auto  -> AutoCompact(short)
         [] over /\ ~auto -> Reactive(short)

\* awrap_model_call of the recovery forgets what the call before has counted.
\* Mutant: it goes on counting.
CountGoesOn  == unavailable
CountAtStart == 0

BeforeModel(over, auto) ==
    /\ phase = "before"
    /\ history' = Merge(history, Compacted(history, over, auto))
    /\ Len(history') <= MaxHistory
    /\ phase' = "call"
    /\ sent' = history'
    /\ unavailable' = CountAtStart
    /\ attempts' = 0
    /\ outcomes' = << >>
    /\ UNCHANGED interrupted

-----------------------------------------------------------------------------
(* The turn.                                                                *)

UserSays ==
    /\ phase = "idle"
    /\ Len(history) < MaxHistory
    /\ history' = Append(history, User(Len(history) + 1))
    /\ phase' = "before"
    /\ UNCHANGED <<sent, unavailable, attempts, outcomes, interrupted>>

\* An answer is added; the tools are called, or the turn is over.
Answered(n) ==
    /\ Len(history) < MaxHistory
    /\ history' = Append(history, Answer(Len(history) + 1, n))
    /\ phase' = IF n > 0 THEN "tools" ELSE "idle"
    /\ sent' = << >> /\ attempts' = 0 /\ outcomes' = << >>
    /\ UNCHANGED <<unavailable, interrupted>>

\* The calls of an answer run side by side, their results arrive together.
ToolsEnd ==
    /\ phase = "tools"
    /\ LET n == history[Len(history)].calls
       IN /\ Len(history) + n <= MaxHistory
          /\ history' = history \o [i \in 1 .. n |-> Result(Len(history) + i)]
    /\ phase' = "before"
    /\ UNCHANGED <<sent, unavailable, attempts, outcomes, interrupted>>

\* An exception leaves the graph, or the process is killed; the thread can be
\* resumed with another message of the user.  The middleware keeps its count of
\* 529 answers; a new process starts without any.
BreakOff ==
    /\ phase' = "idle"
    /\ sent' = << >> /\ attempts' = 0 /\ outcomes' = << >>
    /\ UNCHANGED history

Killed ==
    /\ phase # "idle"
    /\ BreakOff
    /\ unavailable' = 0
    /\ interrupted' = (interrupted \/ phase = "tools")

-----------------------------------------------------------------------------
(* Recovery: awrap_model_call.                                              *)

\* The first call is answered.
CallSucceeds(n) == phase = "call" /\ Answered(n)

\* It is answered up to the limit of tokens; the calls of the answer are
\* dropped, and a second model continues it, which may fail: the partial text
\* is the answer then.
CallTruncated ==
    /\ phase = "call"
    /\ phase' = "continue"
    /\ sent' = sent \o <<Answer(0, 0), Note>>
    /\ UNCHANGED <<history, unavailable, attempts, outcomes, interrupted>>

ContinuationEnds == phase = "continue" /\ Answered(0)

\* The context is too long.
CallExceeds ==
    /\ phase = "call"
    /\ phase' = "compact"
    /\ UNCHANGED <<history, sent, unavailable, attempts, outcomes, interrupted>>

\* Every other error of the first call is raised, a temporary one too.
CallFails ==
    /\ phase = "call"
    /\ BreakOff
    /\ UNCHANGED <<unavailable, interrupted>>

\* _handle_context_exceeded: the summary is made or raises.
CompactForRetry ==
    /\ phase = "compact"
    /\ sent' = Reactive(sent)
    /\ phase' = "retry"
    /\ UNCHANGED <<history, unavailable, attempts, outcomes, interrupted>>

\* The emergency summary raises, here or before the call.
CompactionFails ==
    /\ phase \in {"before", "compact"}
    /\ BreakOff
    /\ UNCHANGED <<unavailable, interrupted>>

\* _call_with_retry: an attempt with the primary model.  It is asked without
\* the tools, as is the fallback model, so the answer calls none.
RetrySucceeds == phase = "retry" /\ Answered(0)

\* Another temporary error breaks the row.
Count(e) == IF e = "529" THEN unavailable + 1 ELSE 0

\* Mutant: one attempt too many.
AttemptsLate == attempts = MaxRetries
AttemptsUsed == attempts + 1 = MaxRetries

\* An error that is not temporary ends the request, and so does the last attempt;
\* a row of 529 answers leads to the fallback model first.
RetryFails(e) ==
    /\ phase = "retry"
    /\ IF e = "other" \/ (AttemptsUsed /\ ~(e = "529" /\ Count(e) >= Threshold))
       THEN /\ BreakOff
            /\ unavailable' = IF e = "other" THEN unavailable ELSE Count(e)
       ELSE /\ unavailable' = Count(e)
            /\ attempts' = attempts + 1
            /\ outcomes' = Append(outcomes, e)
            /\ phase' = IF e = "529" /\ Count(e) >= Threshold THEN "fallback" ELSE "retry"
            /\ UNCHANGED <<history, sent>>
    /\ UNCHANGED interrupted

\* The fallback model is asked once.
FallbackSucceeds == phase = "fallback" /\ Answered(0)
FallbackFails ==
    phase = "fallback" /\ BreakOff /\ UNCHANGED <<unavailable, interrupted>>

-----------------------------------------------------------------------------
CallNext ==
    \/ UserSays
    \/ \E over, auto \in BOOLEAN : BeforeModel(over, auto)
    \/ \E n \in 0 .. MaxCalls : CallSucceeds(n)
    \/ RetrySucceeds
    \/ FallbackSucceeds
    \/ ToolsEnd
    \/ Killed
    \/ CallTruncated
    \/ ContinuationEnds
    \/ CallExceeds
    \/ CallFails
    \/ CompactForRetry
    \/ CompactionFails
    \/ \E e \in Errors : RetryFails(e)
    \/ FallbackFails

CallSpec == CallInit /\ [][CallNext]_callVars

-----------------------------------------------------------------------------
(* Properties.                                                              *)

\* The results that stand in front of all answers of a list.
Answers(s) == {i \in DOMAIN s : s[i].from = "model"}
Orphans(s) == {i \in Results(s) : \A j \in Answers(s) : j > i}

\* A provider refuses a list in which a call has no result or a result no call:
\* the results of an answer's calls follow it at once.
Complete(s, j) == \A k \in 1 .. s[j].calls : j + k \in Results(s)
FollowsAnswer(s, i) == \E j \in Answers(s) : i \in j + 1 .. j + s[j].calls
WellFormed(s) ==
    /\ \A j \in Answers(s) : Complete(s, j)
    /\ \A i \in Results(s) : FollowsAnswer(s, i)

\* Whatever the pipeline trims, replaces and summarises, and however often, the
\* model is called with each call next to its results, unless a turn of the
\* thread was killed while its tools ran: then the conversation has a call
\* without a result for good (abefore_model, run_streaming).
CallsMeetTheirResults ==
    phase = "call" /\ ~interrupted => WellFormed(sent)

\* The list of a retry after an overflow holds each kept call next to its
\* results too; what it may lack is a part of one answer with several calls,
\* whose last results then stand at the head of the list (reactive_compact).
RetryCutsOneAnswer ==
    phase = "retry" /\ ~interrupted =>
        /\ \A j \in Answers(sent) : Complete(sent, j)
        /\ \A i \in Results(sent) : FollowsAnswer(sent, i) \/ i \in Orphans(sent)
        /\ Orphans(sent) # {} =>
              \E j \in Answers(history) :
                  /\ {sent[i].id : i \in Orphans(sent)} \subseteq j + 2 .. j + history[j].calls

\* The fallback model is asked after as many 529 answers in a row as the
\* threshold says, in this request and with no other answer in between, and the
\* primary model is not asked again once it has given that many.
FallbackAfterStreak ==
    LET streak == /\ Len(outcomes) >= Threshold
                  /\ \A i \in DOMAIN outcomes :
                        i > Len(outcomes) - Threshold => outcomes[i] = "529"
    IN /\ phase = "fallback" => streak
       /\ phase = "retry" => ~streak
=============================================================================
