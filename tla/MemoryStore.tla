---------------------------- MODULE MemoryStore ----------------------------
(* The long-term memories of a project and of a user                        *)
(* (src/lib/memories.py), the tools with which a lead changes them on the   *)
(* user's request (src/lib/memory_tools.py), and the extraction of new      *)
(* memories at the end of a turn (src/middlewares/memory_saver.py,          *)
(* src/middlewares/memory_management_middleware.py).                        *)
(*                                                                          *)
(* A memory of the project is a file that is replaced atomically under the  *)
(* lock of the directory, a memory of the user a row of the store.  One     *)
(* locked access, or one statement, is a step; the calls of the tools are   *)
(* made of several.  An agent is a lead process; the tool calls of one      *)
(* answer run in slots, at the same time.                                   *)
EXTENDS Naturals, FiniteSets

CONSTANTS
    Agents,         \* lead processes that share the memories
    Slots,          \* tool calls that run at the same time
    Owner,          \* Owner[s]: the agent of a slot
    Ids,            \* ids of memories, each used once
    ProjectIds,     \* those of the project's memories
    Kinds,          \* types of memory
    Texts,          \* descriptions
    None,
    MaxItems        \* bound: items of one extraction (items[:20])

ASSUME MemoryAssumption ==
    /\ Owner \in [Slots -> Agents]
    /\ ProjectIds \subseteq Ids
    /\ MaxItems \in Nat
    /\ None \notin Ids

VARIABLES
    store,      \* store[i]: the memory i, or None
    turn,       \* where an agent's turn stands
    written,    \* memory_management_written
    known,      \* MemorySaver: the candidates, brought up to date with every save
    items,      \* items of the extraction still to come
    stage,      \* where the call of a slot stands
    op,         \* the call of a slot
    changed,    \* history: a tool call of this turn has changed a memory and said so
    used,       \* history: ids given to a memory
    buried      \* history: ids deleted while no save had looked them up

memVars == <<store, turn, written, known, items, stage, op, changed, used, buried>>

Memory == [kind : Kinds, text : Texts]
Op     == [act : {"update", "delete", "extract", "create"}, id : Ids,
           kind : Kinds, text : Texts]

MemTypeOK ==
    /\ store \in [Ids -> Memory \cup {None}]
    /\ turn \in [Agents -> {"idle", "work", "extract"}]
    /\ written \in [Agents -> BOOLEAN]
    /\ known \in [Agents -> [Ids -> Memory \cup {None}]]
    /\ items \in [Agents -> 0 .. MaxItems]
    /\ stage \in [Slots -> {"idle", "save", "put", "remove"}]
    /\ op \in [Slots -> Op \cup {None}]
    /\ changed \in [Agents -> BOOLEAN]
    /\ used \in SUBSET Ids
    /\ buried \in SUBSET Ids

MemInit ==
    /\ store = [i \in Ids |-> None]
    /\ turn = [a \in Agents |-> "idle"]
    /\ written = [a \in Agents |-> FALSE]
    /\ known = [a \in Agents |-> [i \in Ids |-> None]]
    /\ items = [a \in Agents |-> 0]
    /\ stage = [s \in Slots |-> "idle"]
    /\ op = [s \in Slots |-> None]
    /\ changed = [a \in Agents |-> FALSE]
    /\ used = {}
    /\ buried = {}

SlotsOf(a) == {s \in Slots : Owner[s] = a}
Quiet(a)   == \A s \in SlotsOf(a) : stage[s] = "idle"

Become(s, st, o) ==
    /\ stage' = [stage EXCEPT ![s] = st]
    /\ op' = [op EXCEPT ![s] = o]

-----------------------------------------------------------------------------
(* The turn.                                                                *)

\* abefore_agent forgets what the last turn has written.
BeginTurn(a) ==
    /\ turn[a] = "idle" /\ Quiet(a)
    /\ turn' = [turn EXCEPT ![a] = "work"]
    /\ written' = [written EXCEPT ![a] = FALSE]
    /\ changed' = [changed EXCEPT ![a] = FALSE]
    /\ UNCHANGED <<store, known, items, stage, op, used, buried>>

\* aafter_model, on the last answer of the turn: an answer that was not cut
\* off (whole) makes new memories, unless the user has had one written.
MayExtract(a) == ~written[a]

FinalAnswer(a, whole) ==
    /\ turn[a] = "work" /\ Quiet(a)
    /\ IF whole /\ MayExtract(a)
       THEN /\ turn' = [turn EXCEPT ![a] = "extract"]
            /\ known' = [known EXCEPT ![a] = store]
            /\ items' = [items EXCEPT ![a] = MaxItems]
       ELSE /\ turn' = [turn EXCEPT ![a] = "idle"]
            /\ UNCHANGED <<known, items>>
    /\ UNCHANGED <<store, written, stage, op, changed, used, buried>>

EndExtraction(a) ==
    /\ turn[a] = "extract" /\ Quiet(a)
    /\ turn' = [turn EXCEPT ![a] = "idle"]
    /\ known' = [known EXCEPT ![a] = [i \in Ids |-> None]]
    /\ items' = [items EXCEPT ![a] = 0]
    /\ UNCHANGED <<store, written, stage, op, changed, used, buried>>

\* The process dies: what its calls had not yet written is lost.
Die(a) ==
    /\ turn[a] # "idle"
    /\ turn' = [turn EXCEPT ![a] = "idle"]
    /\ known' = [known EXCEPT ![a] = [i \in Ids |-> None]]
    /\ items' = [items EXCEPT ![a] = 0]
    /\ stage' = [s \in Slots |-> IF Owner[s] = a THEN "idle" ELSE stage[s]]
    /\ op' = [s \in Slots |-> IF Owner[s] = a THEN None ELSE op[s]]
    /\ UNCHANGED <<store, written, changed, used, buried>>

-----------------------------------------------------------------------------
(* The tools.                                                               *)

\* memory_update looks the memory up for its type, then calls save.
BeginUpdate(s, i, text) ==
    /\ turn[Owner[s]] = "work" /\ stage[s] = "idle"
    /\ store[i] # None
    /\ Become(s, "save", [act |-> "update", id |-> i, kind |-> store[i].kind,
                          text |-> text])
    /\ UNCHANGED <<store, turn, written, known, items, changed, used, buried>>

\* delete looks the memory up first.
BeginDelete(s, i) ==
    /\ turn[Owner[s]] = "work" /\ stage[s] = "idle"
    /\ store[i] # None
    /\ Become(s, "remove", [act |-> "delete", id |-> i, kind |-> store[i].kind,
                            text |-> store[i].text])
    /\ UNCHANGED <<store, turn, written, known, items, changed, used, buried>>

\* The state update of a tool call that succeeded; any_written keeps it.
Report(a, wrote) ==
    /\ written' = [written EXCEPT ![a] = TRUE]
    /\ changed' = [changed EXCEPT ![a] = @ \/ wrote]

\* Mutant: a deletion is not reported.
ReportNothing(s, wrote) ==
    /\ changed' = [changed EXCEPT ![Owner[s]] = @ \/ wrote]
    /\ UNCHANGED written
ReportDelete(s, wrote) == Report(Owner[s], wrote)

\* A memory that is there is deleted, and no save has looked it up before.
BuriedWith(i) ==
    IF store[i] # None /\ \A t \in Slots : stage[t] = "put" => op[t].id # i
    THEN buried \cup {i}
    ELSE buried

\* _delete_project_record reads the file again under the lock and raises if it
\* is not there; the row of a user's memory is deleted, be it there or not.
Remove(s) ==
    /\ stage[s] = "remove"
    /\ LET i == op[s].id IN
        /\ store' = [store EXCEPT ![i] = None]
        /\ buried' = BuriedWith(i)
        /\ IF i \in ProjectIds /\ store[i] = None
           THEN UNCHANGED <<written, changed>>
           ELSE ReportDelete(s, store[i] # None)
    /\ Become(s, "idle", None)
    /\ UNCHANGED <<turn, known, items, used>>

-----------------------------------------------------------------------------
(* save, in two steps: a known memory is looked up under the lock and, in   *)
(* the code, written under the lock taken a second time.                    *)

\* Mutant: save trusts its caller that the memory is there.
SaveTrusts(s) == TRUE
SaveFinds(s) == store[op[s].id] # None /\ store[op[s].id].kind = op[s].kind

SaveLooksUp(s) ==
    /\ stage[s] = "save"
    /\ IF SaveFinds(s)
       THEN Become(s, "put", op[s])
       ELSE Become(s, "idle", None)
    /\ UNCHANGED <<store, turn, written, known, items, changed, used, buried>>

SavePuts(s) ==
    /\ stage[s] = "put"
    /\ LET a == Owner[s]
           r == [kind |-> op[s].kind, text |-> op[s].text]
       IN /\ store' = [store EXCEPT ![op[s].id] = r]
          /\ IF op[s].act = "update"
             THEN Report(a, TRUE) /\ UNCHANGED known
             ELSE /\ known' = [known EXCEPT ![a][op[s].id] = r]
                  /\ UNCHANGED <<written, changed>>
    /\ Become(s, "idle", None)
    /\ UNCHANGED <<turn, items, used, buried>>

\* The disk or the database refuses; the tool, or the loop, catches it.
AccessFails(s) ==
    /\ stage[s] # "idle"
    /\ Become(s, "idle", None)
    /\ UNCHANGED <<store, turn, written, known, items, changed, used, buried>>

\* The database commits, and the call raises all the same: the tool says that it
\* has failed, and the loop does not take the memory among the known ones.
AccessRaises(s) ==
    /\ stage[s] \in {"remove", "put"} /\ op[s].id \notin ProjectIds
    /\ LET i == op[s].id
           r == [kind |-> op[s].kind, text |-> op[s].text]
       IN IF stage[s] = "remove"
          THEN store' = [store EXCEPT ![i] = None] /\ buried' = BuriedWith(i)
          ELSE store' = [store EXCEPT ![i] = r] /\ UNCHANGED buried
    /\ Become(s, "idle", None)
    /\ UNCHANGED <<turn, written, known, items, changed, used>>

-----------------------------------------------------------------------------
(* extract_and_save, item by item; it runs when no tool call does.          *)

TakeItem(a) ==
    /\ turn[a] = "extract" /\ Quiet(a)
    /\ items[a] > 0
    /\ items' = [items EXCEPT ![a] = @ - 1]
    /\ UNCHANGED <<store, turn, written, known, changed, buried>>

\* An item with an id must be one of the candidates, and of its type.
ItemUpdates(s, i, text) ==
    /\ TakeItem(Owner[s])
    /\ known[Owner[s]][i] # None
    /\ Become(s, "save", [act |-> "extract", id |-> i,
                          kind |-> known[Owner[s]][i].kind, text |-> text])
    /\ UNCHANGED used

\* An item without an id becomes a new memory, unless it is known.
IsKnown(a, kind, text) ==
    \E i \in Ids : known[a][i] = [kind |-> kind, text |-> text]

ItemCreates(s, i, kind, text) ==
    /\ TakeItem(Owner[s])
    /\ i \notin used
    /\ ~IsKnown(Owner[s], kind, text)
    /\ Become(s, "put", [act |-> "create", id |-> i, kind |-> kind, text |-> text])
    /\ used' = used \cup {i}

-----------------------------------------------------------------------------
MemNext ==
    \/ \E a \in Agents : \/ BeginTurn(a)
                         \/ \E whole \in BOOLEAN : FinalAnswer(a, whole)
                         \/ EndExtraction(a)
                         \/ Die(a)
    \/ \E s \in Slots :
         \/ \E i \in Ids, text \in Texts : BeginUpdate(s, i, text)
         \/ \E i \in Ids : BeginDelete(s, i)
         \/ Remove(s)
         \/ SaveLooksUp(s)
         \/ SavePuts(s)
         \/ AccessFails(s)
         \/ AccessRaises(s)
         \/ \E i \in Ids, text \in Texts : ItemUpdates(s, i, text)
         \/ \E i \in Ids, kind \in Kinds, text \in Texts : ItemCreates(s, i, kind, text)

MemSpec == MemInit /\ [][MemNext]_memVars

-----------------------------------------------------------------------------
(* Properties.                                                              *)

\* A memory that was deleted does not come back: not from an extraction that
\* listed it before, and not from an update that began before.  Only a save
\* that had looked it up already when it was deleted writes it once more
\* (save takes the lock for its look and for its write separately).
DeletedStaysDeleted == \A i \in buried : store[i] = None

\* When the user has had a memory changed in a turn, the answer of that turn
\* is not made into memories, so what was corrected or deleted is not derived
\* again from the same conversation (memory_management_written).  A call that
\* says it has failed does not count, although the database may have committed.
ExplicitChangeComesLast ==
    \A a \in Agents : turn[a] = "extract" => ~changed[a]
=============================================================================
