----------------------------- MODULE CodeGraph -----------------------------
(* The code graph of lib/code_graph.py: an index of the project's source    *)
(* files in a SQLite cache, brought up to date at the start of every call   *)
(* and then read by search, query and impact; and the cache of embedding    *)
(* vectors beside it (lib/_code_graph_embeddings.py).                       *)
(*                                                                          *)
(* A file lock admits one call at a time, of any process, so the callers    *)
(* are not told apart.  The files on the disk and the commits of git change *)
(* while a call runs.  What a text defines and uses (_parse_file with       *)
(* tree-sitter) is given by the constants Defs and Uses; a node is named by *)
(* its file, the class around it and its own name.  Line numbers and the    *)
(* rank of the results are left out, and no answer is cut by its limit.     *)
(* CONTAINS edges are left out too: of the answers only that of impact      *)
(* reads them, in the snapshot, so that the code's answer may name more (a  *)
(* file or class around what has changed) than the model's, never less.     *)
EXTENDS Naturals, FiniteSets

CONSTANTS
  Files,        \* source files, named as an import names them
  Texts,        \* what a file may contain
  Defs,         \* Defs[t]: the symbols a text defines
  Uses,         \* Uses[t]: its calls, references, bases and imports
  BatchSize,    \* nodes embedded by one request (MAX_BATCH_SIZE)
  MaxEdits,     \* bound: changes of the files on the disk
  MaxCommits    \* bound: commits of git

Gone   == "gone"
Unread == "unread"
NoHead == MaxCommits + 1
TopLevel == [scope |-> "", name |-> ""]
NoNode == [file |-> "", scope |-> "", name |-> ""]
Contents == Texts \cup {Gone}

ASSUME GraphAssumption ==
  /\ BatchSize \in Nat \ {0} /\ MaxEdits \in Nat /\ MaxCommits \in Nat
  /\ IsFiniteSet(Files) /\ {"", Gone, Unread} \cap (Files \cup Texts) = {}
  /\ \A t \in Texts : TopLevel \notin Defs[t]
  /\ \A t \in Texts : \A u \in Uses[t] : u.by \in Defs[t] \cup {TopLevel}

VARIABLES
  disk,       \* disk[f]: what the file contains now
  edits,      \* changes made so far
  head,       \* the commit git is at
  files,      \* files[f]: the text the index was built from (content_hash)
  nodes,      \* table nodes
  edges,      \* table edges
  snap,       \* metadata impact_snapshot: old nodes and who used them
  vectors,    \* table node_embeddings: node and the text it was computed from
  call,       \* the call in progress
  answer,     \* the nodes of the last answer
  owed        \* history: <<f, n>>, n used a symbol of f when f was re-indexed

disks  == <<disk, edits, head>>
index  == <<files, nodes, edges, snap>>
cgVars == <<disk, edits, head, files, nodes, edges, snap, vectors, call, answer, owed>>

NoCall == [action |-> "none", stage |-> "idle", found |-> [f \in Files |-> Unread]]
NoSnap == [head |-> NoHead, nodes |-> {}, incoming |-> {}]

CgInit ==
  /\ disk \in [Files -> Contents] /\ edits = 0 /\ head = 0
  /\ files = [f \in Files |-> Gone] /\ nodes = {} /\ edges = {}
  /\ snap = NoSnap /\ vectors = {} /\ call = NoCall /\ answer = {} /\ owed = {}
----------------------------------------------------------------------------
(* Nodes and edges.                                                         *)

NodeOf(f, d) == [file |-> f, scope |-> d.scope, name |-> d.name]
FileNode(f) == NodeOf(f, TopLevel)

NodesOf(f, t) ==
  IF t = Gone THEN {} ELSE {NodeOf(f, d) : d \in Defs[t] \cup {TopLevel}}

EdgesOf(f, t) ==
  IF t = Gone THEN {}
  ELSE {[file |-> f, source |-> NodeOf(f, u.by), kind |-> u.kind,
         raw |-> u.name, target |-> NoNode] : u \in Uses[t]}

(* parent_qualified: the class around a method, the file around the rest.   *)
Parent(n) ==
  IF n = FileNode(n.file) THEN NoNode
  ELSE IF n.scope = "" THEN FileNode(n.file)
  ELSE [file |-> n.file, scope |-> "", name |-> n.scope]

TheOnly(S) == IF Cardinality(S) = 1 THEN CHOOSE n \in S : TRUE ELSE NoNode

(* _resolve_edges: an import means a file; any other name means the only    *)
(* symbol of that name beside the user, in its file, or in the project.     *)
Meant(ns, file, source, kind, raw) ==
  LET named  == {n \in ns : n.name = raw}
      local  == {n \in named : n.file = file}
      beside == {n \in local : /\ source \in ns
                               /\ Parent(source) # NoNode
                               /\ Parent(n) = Parent(source)}
  IN IF kind = "IMPORTS" THEN IF FileNode(raw) \in ns THEN FileNode(raw) ELSE NoNode
     ELSE IF TheOnly(beside) # NoNode THEN TheOnly(beside)
     ELSE IF TheOnly(local) # NoNode THEN TheOnly(local)
     ELSE TheOnly(named)

Lookup(ns, e) == Meant(ns, e.file, e.source, e.kind, e.raw)

Aimed(e, n) == [e EXCEPT !.target = n]

Resolve(ns, es) == {Aimed(e, Lookup(ns, e)) : e \in es}

(* Mutant: an edge that has found its target keeps it.                      *)
ResolveNew(ns, es) ==
  {IF e.target = NoNode THEN Aimed(e, Lookup(ns, e)) ELSE e : e \in es}

Relinked(ns, es) == Resolve(ns, es)
----------------------------------------------------------------------------
(* The world outside.                                                       *)

Edit(f, t) ==
  /\ edits < MaxEdits /\ t # disk[f]
  /\ disk' = [disk EXCEPT ![f] = t]
  /\ edits' = edits + 1
  /\ UNCHANGED <<head, index, vectors, call, answer, owed>>

GitCommit ==
  /\ head < MaxCommits
  /\ head' = head + 1
  /\ UNCHANGED <<disk, edits, index, vectors, call, answer, owed>>

(* _create_schema of a newer version finds an older cache and empties it.   *)
Upgrade ==
  /\ call = NoCall
  /\ files' = [f \in Files |-> Gone] /\ nodes' = {} /\ edges' = {}
  /\ snap' = NoSnap /\ vectors' = {} /\ owed' = {}
  /\ UNCHANGED <<disks, call, answer>>
----------------------------------------------------------------------------
(* One call: list the files, read each, update the index, answer.           *)

Begin(a) ==
  /\ call = NoCall
  /\ call' = [action |-> a, stage |-> "read",
              found |-> [f \in Files |-> IF disk[f] = Gone THEN Gone ELSE Unread]]
  /\ answer' = {}
  /\ UNCHANGED <<disks, index, vectors, owed>>

(* A listed file that is gone by now is left as the index has it.           *)
ReadFile(f) ==
  /\ call.stage = "read" /\ call.found[f] = Unread
  /\ call' = [call EXCEPT !.found[f] = IF disk[f] = Gone THEN files[f] ELSE disk[f]]
  /\ UNCHANGED <<disks, index, vectors, answer, owed>>

(* An exception (a file that vanished under its reader, a parser that       *)
(* fails) or the death of the process, at any point: the transaction is     *)
(* rolled back, the lock released; the batches embedded so far stay.        *)
Fail ==
  /\ call # NoCall
  /\ call' = NoCall
  /\ UNCHANGED <<disks, index, vectors, answer, owed>>

Affected == {f \in Files : call.found[f] # files[f]}
OldNodes == {n \in nodes : n.file \in Affected}
OldUsers == {e \in edges : e.target \in OldNodes}

(* Mutant: every refresh starts its own snapshot.                           *)
SnapshotOfLast == [head |-> head, nodes |-> OldNodes, incoming |-> OldUsers]

(* The snapshot is kept until git moves to another commit.                  *)
Snapshot ==
  IF snap.head = head
  THEN [snap EXCEPT !.nodes = @ \cup OldNodes, !.incoming = @ \cup OldUsers]
  ELSE [head |-> head, nodes |-> OldNodes, incoming |-> OldUsers]

(* The rest of _refresh.  The only thing it reads outside the cache is the  *)
(* commit git is at; the cache is updated in one transaction, and deleting  *)
(* a file's row takes its nodes, its edges and, by a trigger, the vectors   *)
(* of its nodes with it.                                                    *)
Refresh ==
  LET kept  == {e \in edges : e.file \notin Affected}
      fresh == UNION {EdgesOf(f, call.found[f]) : f \in Affected}
  IN /\ call.stage = "read" /\ \A f \in Files : call.found[f] # Unread
     /\ files' = call.found
     /\ nodes' = (nodes \ OldNodes) \cup UNION {NodesOf(f, call.found[f]) : f \in Affected}
     /\ edges' = IF Affected = {} THEN edges ELSE Relinked(nodes', kept \cup fresh)
     /\ snap' = Snapshot
     /\ vectors' = {v \in vectors : v.node \notin OldNodes}
     /\ owed' = (IF snap.head = head THEN owed ELSE {})
                   \cup {<<e.target.file, e.source>> : e \in OldUsers}
     /\ call' = [call EXCEPT !.stage = IF call.action = "semantic" THEN "embed" ELSE "answer",
                             !.found = NoCall.found]
     /\ UNCHANGED <<disks, answer>>
----------------------------------------------------------------------------
(* refresh_embeddings: nodes whose cached vector is not of their present    *)
(* text are embedded in batches, each committed by itself.                  *)
VectorOf(n) == [node |-> n, text |-> files[n.file]]
Missing == {n \in nodes : VectorOf(n) \notin vectors}

(* The batches follow the order of the names, which CHOOSE stands for.      *)
NextBatch ==
  LET size == IF Cardinality(Missing) < BatchSize THEN Cardinality(Missing) ELSE BatchSize
  IN CHOOSE B \in SUBSET Missing : Cardinality(B) = size

EmbedBatch ==
  /\ call.stage = "embed" /\ Missing # {}
  /\ NextBatch \subseteq Missing
  /\ vectors' = {v \in vectors : v.node \notin NextBatch} \cup {VectorOf(n) : n \in NextBatch}
  /\ UNCHANGED <<disks, index, call, answer, owed>>

Embedded ==
  /\ call.stage = "embed" /\ Missing = {}
  /\ call' = [call EXCEPT !.stage = IF nodes = {} THEN "answer" ELSE "compare"]
  /\ UNCHANGED <<disks, index, vectors, answer, owed>>

(* A hybrid search whose provider fails, in a batch or on the query itself  *)
(* after the last one, falls back to the words.                             *)
EmbeddingFails ==
  /\ call.stage = "embed"
  /\ call' = [call EXCEPT !.stage = "answer"]
  /\ UNCHANGED <<disks, index, vectors, answer, owed>>
----------------------------------------------------------------------------
(* Answers.                                                                 *)

Reply(ns) ==
  /\ answer' = ns
  /\ call' = NoCall
  /\ UNCHANGED <<disks, index, vectors, owed>>

Search(x) ==
  /\ call.stage = "answer" /\ call.action \in {"search", "semantic"}
  /\ Reply({n \in nodes : n.name = x})

SemanticSearch ==
  /\ call.stage = "compare"
  /\ Reply({n \in nodes : \E v \in vectors : v.node = n})

Users(S, kinds) == {e.source : e \in {d \in edges : d.target \in S /\ d.kind \in kinds}}

Query(relation, n) ==
  /\ call.stage = "answer" /\ call.action = "query" /\ n \in nodes
  /\ Reply(nodes \cap
       CASE relation = "children_of"   -> {m \in nodes : Parent(m) = n}
         [] relation = "callers_of"    -> Users({n}, {"CALLS"})
         [] relation = "importers_of"  -> Users({n}, {"IMPORTS"})
         [] relation = "inheritors_of" -> Users({n}, {"INHERITS"})
         [] relation = "references_to" -> Users({n}, {"REFERENCES"})
         [] relation = "callees_of" ->
              {e.target : e \in {d \in edges : d.source = n /\ d.kind = "CALLS"}})

Relations == {"children_of", "callers_of", "importers_of", "inheritors_of",
              "references_to", "callees_of"}
Dependencies == {"CALLS", "IMPORTS", "INHERITS", "REFERENCES"}

(* _impact: the symbols of the changed files, those they had under this     *)
(* commit, and who depends on them in at most two steps.  A source that is  *)
(* no node any more is neither reported nor followed.                       *)
Impacted(S) ==
  LET before(R) == {e.source : e \in {d \in snap.incoming : d.target \in R}}
      hop(R) == (Users(R, Dependencies) \cup before(R)) \cap nodes
      first  == hop(S) \ S
  IN first \cup hop(first)

Impact(F) ==
  LET seeds == {n \in nodes \cup snap.nodes : n.file \in F}
  IN /\ call.stage = "answer" /\ call.action = "impact"
     /\ Reply(seeds \cup Impacted(seeds))

Answering ==
  \/ \E x \in UNION {{d.name : d \in Defs[t]} : t \in Texts} : Search(x)
  \/ SemanticSearch
  \/ \E relation \in Relations, n \in nodes : Query(relation, n)
  \/ \E F \in SUBSET Files : Impact(F)

Requests == {"search", "semantic", "query", "impact"}

CgNext ==
  \/ \E f \in Files, t \in Contents : Edit(f, t)
  \/ GitCommit
  \/ Upgrade
  \/ \E a \in Requests : Begin(a)
  \/ \E f \in Files : ReadFile(f)
  \/ Fail
  \/ Refresh
  \/ EmbedBatch \/ Embedded \/ EmbeddingFails
  \/ Answering

CgSpec == CgInit /\ [][CgNext]_cgVars
----------------------------------------------------------------------------
(* Type invariant: a call has read a text, or found none, for every file it *)
(* is done with, and the index knows a text or none of every file.          *)
CgTypeOK ==
  /\ disk \in [Files -> Contents] /\ files \in [Files -> Contents]
  /\ edits \in 0..MaxEdits /\ head \in 0..MaxCommits
  /\ call \in [action : Requests \cup {"none"},
               stage : {"idle", "read", "embed", "compare", "answer"},
               found : [Files -> Contents \cup {Unread}]]

NodesIn(texts) == UNION {NodesOf(f, texts[f]) : f \in Files}
EdgesIn(texts) == UNION {EdgesOf(f, texts[f]) : f \in Files}

NodesMatch == nodes = NodesIn(files)
EdgesMatch == edges = Resolve(nodes, EdgesIn(files))
VectorsMatch == \A v \in vectors : v.node \in nodes /\ v.text = files[v.node.file]

(* However the files changed between and during the calls that updated it,  *)
(* and whichever of these calls failed, the index is what building it anew  *)
(* from the texts it knows would give: an edge from an untouched file is    *)
(* resolved again when the symbol it names appears, moves, becomes          *)
(* ambiguous or goes; and no vector outlives the text it was computed from. *)
IndexIsRebuild == NodesMatch /\ EdgesMatch /\ VectorsMatch

(* An impact answer about a file names every symbol that used, whenever the *)
(* file was re-indexed under this commit, a symbol the file had then, as    *)
(* long as that user exists, and the symbols that use it now: also when the *)
(* used symbol is gone, when other calls have refreshed the index since,    *)
(* and when the call that re-indexed the file died before it answered.      *)
ImpactIsComplete ==
  [][\A F \in SUBSET Files : Impact(F) =>
       \A p \in owed : p[1] \in F /\ p[2] \in nodes =>
         {p[2]} \cup (Users({p[2]}, Dependencies) \cap nodes) \subseteq answer']_cgVars
============================================================================
