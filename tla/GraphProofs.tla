---------------------------- MODULE GraphProofs ----------------------------
(* Proofs about CodeGraph, for any set of files, of texts and of symbols, and *)
(* any number of edits, commits, calls and failures; and about Decomposer,    *)
(* for every list of tasks a model may answer with.                           *)
EXTENDS CodeGraph, Decomposer, TLAPS, FiniteSetTheorems, FunctionTheorems
-----------------------------------------------------------------------------
(* The code graph.                                                           *)

(* An edge of a text, before it is resolved.                                 *)
LEMMA EdgeShape ==
  ASSUME NEW f, NEW t, NEW u \in EdgesOf(f, t)
  PROVE  u = [file |-> f, source |-> u.source, kind |-> u.kind,
              raw |-> u.raw, target |-> NoNode]
BY DEF EdgesOf

(* What an edge is resolved to does not depend on what it was resolved to    *)
(* before (_resolve_edges).                                                  *)
LEMMA Retarget ==
  ASSUME NEW f, NEW t, NEW u \in EdgesOf(f, t), NEW b
  PROVE  /\ Aimed(u, b).file = f
         /\ \A ns : Lookup(ns, Aimed(u, b)) = Lookup(ns, u)
         /\ \A c : Aimed(Aimed(u, b), c) = Aimed(u, c)
<1> DEFINE x == Aimed(u, b)
<1>1. u = [file |-> f, source |-> u.source, kind |-> u.kind, raw |-> u.raw, target |-> NoNode]
  BY EdgeShape
<1>2. x = [file |-> f, source |-> u.source, kind |-> u.kind, raw |-> u.raw, target |-> b]
  BY <1>1 DEF Aimed
<1> HIDE DEF x
<1>3. x.file = f /\ u.file = f /\ x.source = u.source /\ x.kind = u.kind /\ x.raw = u.raw
  BY <1>1, <1>2
<1>4. ASSUME NEW ns PROVE Lookup(ns, x) = Lookup(ns, u)
  BY <1>3 DEF Lookup
<1>5. ASSUME NEW c PROVE Aimed(x, c) = Aimed(u, c)
  BY <1>1, <1>2 DEF Aimed
<1> QED
  BY <1>3, <1>4, <1>5 DEF x

(* A node of a text names the file.                                          *)
LEMMA NodeShape ==
  ASSUME NEW f, NEW t, NEW n \in NodesOf(f, t)
  PROVE  n.file = f
BY DEF NodesOf, NodeOf

LEMMA TypeInit == CgInit => CgTypeOK
<1> SUFFICES ASSUME CgInit PROVE CgTypeOK
  OBVIOUS
<1>1. files \in [Files -> Contents]
  BY DEF CgInit, Contents
<1>2. [f \in Files |-> Unread] \in [Files -> Contents \cup {Unread}]
  OBVIOUS
<1>3. NoCall \in [action : Requests \cup {"none"},
                  stage : {"idle", "read", "embed", "compare", "answer"},
                  found : [Files -> Contents \cup {Unread}]]
  BY <1>2 DEF NoCall
<1>4. 0 \in 0..MaxEdits /\ 0 \in 0..MaxCommits
  <2>1. MaxEdits \in Nat /\ MaxCommits \in Nat
    BY GraphAssumption
  <2> QED
    BY <2>1
<1> QED
  BY <1>1, <1>3, <1>4 DEF CgInit, CgTypeOK

(* Every step keeps the types: in particular the texts a call has read are   *)
(* texts, and there is one for every file when the index is updated.         *)
LEMMA TypeKept == CgTypeOK /\ [CgNext]_cgVars => CgTypeOK'
<1> SUFFICES ASSUME CgTypeOK, [CgNext]_cgVars PROVE CgTypeOK'
  OBVIOUS
<1>0. MaxEdits \in Nat /\ MaxCommits \in Nat
  BY GraphAssumption
<1>1. ASSUME NEW f \in Files, NEW t \in Contents, Edit(f, t) PROVE CgTypeOK'
  <2>1. disk' \in [Files -> Contents]
    BY <1>1 DEF CgTypeOK, Edit
  <2>2. edits' \in 0..MaxEdits
    BY <1>0, <1>1 DEF CgTypeOK, Edit
  <2> QED
    BY <1>1, <2>1, <2>2 DEF CgTypeOK, Edit, index
<1>2. CASE GitCommit
  <2>1. head' \in 0..MaxCommits
    BY <1>0, <1>2 DEF CgTypeOK, GitCommit
  <2> QED
    BY <1>2, <2>1 DEF CgTypeOK, GitCommit, index
<1>3. CASE Upgrade
  <2>1. files' \in [Files -> Contents]
    BY <1>3 DEF Upgrade, Contents
  <2> QED
    BY <1>3, <2>1 DEF CgTypeOK, Upgrade, disks
<1>4. ASSUME NEW a \in Requests, Begin(a) PROVE CgTypeOK'
  <2> DEFINE found == [f \in Files |-> IF disk[f] = Gone THEN Gone ELSE Unread]
  <2>1. found \in [Files -> Contents \cup {Unread}]
    BY DEF Contents
  <2>2. call' = [action |-> a, stage |-> "read", found |-> found]
    BY <1>4 DEF Begin
  <2> HIDE DEF found
  <2>3. call' \in [action : Requests \cup {"none"},
                   stage : {"idle", "read", "embed", "compare", "answer"},
                   found : [Files -> Contents \cup {Unread}]]
    BY <2>1, <2>2
  <2> QED
    BY <1>4, <2>3 DEF CgTypeOK, Begin, disks, index
<1>5. ASSUME NEW f \in Files, ReadFile(f) PROVE CgTypeOK'
  <2> DEFINE t == IF disk[f] = Gone THEN files[f] ELSE disk[f]
             found == [call.found EXCEPT ![f] = t]
  <2>1. t \in Contents
    BY DEF CgTypeOK
  <2>2. found \in [Files -> Contents \cup {Unread}]
    BY <2>1 DEF CgTypeOK
  <2>3. call' = [call EXCEPT !.found = found]
    BY <1>5 DEF ReadFile, CgTypeOK
  <2> HIDE DEF found
  <2> QED
    BY <1>5, <2>2, <2>3 DEF CgTypeOK, ReadFile, disks, index
<1>6. CASE Fail
  <2>1. NoCall.found \in [Files -> Contents \cup {Unread}]
    BY DEF NoCall
  <2> QED
    BY <1>6, <2>1 DEF CgTypeOK, Fail, disks, index, NoCall
<1>7. CASE Refresh
  <2>1. files' \in [Files -> Contents]
    BY <1>7 DEF Refresh, CgTypeOK
  <2>2. NoCall.found \in [Files -> Contents \cup {Unread}]
    BY DEF NoCall
  <2>3. PICK s \in {"embed", "answer"} : call' = [call EXCEPT !.stage = s, !.found = NoCall.found]
    BY <1>7 DEF Refresh
  <2>4. call' \in [action : Requests \cup {"none"},
                   stage : {"idle", "read", "embed", "compare", "answer"},
                   found : [Files -> Contents \cup {Unread}]]
    BY <2>2, <2>3 DEF CgTypeOK
  <2> QED
    BY <1>7, <2>1, <2>4 DEF CgTypeOK, Refresh, disks
<1>8. CASE EmbedBatch
  BY <1>8 DEF CgTypeOK, EmbedBatch, disks, index
<1>9. CASE Embedded \/ EmbeddingFails
  <2>1. PICK s \in {"compare", "answer"} : call' = [call EXCEPT !.stage = s]
    BY <1>9 DEF Embedded, EmbeddingFails
  <2> QED
    BY <1>9, <2>1 DEF CgTypeOK, Embedded, EmbeddingFails, disks, index
<1>10. ASSUME NEW ns, Reply(ns) PROVE CgTypeOK'
  <2>1. NoCall.found \in [Files -> Contents \cup {Unread}]
    BY DEF NoCall
  <2> QED
    BY <1>10, <2>1 DEF CgTypeOK, Reply, disks, index, NoCall
<1>11. CASE Answering
  BY <1>10, <1>11 DEF Answering, Search, SemanticSearch, Query, Impact
<1>12. CASE UNCHANGED cgVars
  BY <1>12 DEF CgTypeOK, cgVars, disks, index
<1> QED
  BY <1>1, <1>2, <1>3, <1>4, <1>5, <1>6, <1>7, <1>8, <1>9, <1>11, <1>12 DEF CgNext

(* Type correctness of the index and of the call in progress.                *)
THEOREM GraphTypeCorrect == CgSpec => []CgTypeOK
BY TypeInit, TypeKept, PTL DEF CgSpec

LEMMA RebuildInit == CgInit => IndexIsRebuild
<1> SUFFICES ASSUME CgInit PROVE IndexIsRebuild
  OBVIOUS
<1>1. NodesIn(files) = {} /\ EdgesIn(files) = {}
  BY DEF CgInit, NodesIn, EdgesIn, NodesOf, EdgesOf
<1> QED
  BY <1>1 DEF CgInit, IndexIsRebuild, NodesMatch, EdgesMatch, VectorsMatch, Resolve

(* A refresh makes the nodes those of the texts it has read.                 *)
LEMMA RefreshNodes ==
  ASSUME CgTypeOK, NodesMatch, Refresh
  PROVE  nodes' = NodesIn(files')
<1> DEFINE found == call.found
<1>1. /\ nodes' = (nodes \ OldNodes) \cup UNION {NodesOf(f, found[f]) : f \in Affected}
      /\ files' = found
  BY DEF Refresh
<1>2. ASSUME NEW n \in nodes' PROVE n \in NodesIn(found)
  <2>1. CASE n \in nodes \ OldNodes
    <3>1. PICK f \in Files : n \in NodesOf(f, files[f])
      BY <2>1 DEF NodesMatch, NodesIn
    <3>2. n.file = f
      BY <3>1, NodeShape
    <3>3. found[f] = files[f]
      BY <2>1, <3>2 DEF OldNodes, Affected
    <3> QED
      BY <3>1, <3>3 DEF NodesIn
  <2>2. CASE n \in UNION {NodesOf(f, found[f]) : f \in Affected}
    BY <2>2 DEF NodesIn, Affected
  <2> QED
    BY <1>1, <1>2, <2>1, <2>2
<1>3. ASSUME NEW n \in NodesIn(found) PROVE n \in nodes'
  <2>1. PICK f \in Files : n \in NodesOf(f, found[f])
    BY DEF NodesIn
  <2>2. CASE f \in Affected
    BY <1>1, <2>1, <2>2
  <2>3. CASE f \notin Affected
    <3>1. n \in nodes
      BY <2>1, <2>3 DEF NodesMatch, NodesIn, Affected
    <3>2. n.file = f
      BY <2>1, NodeShape
    <3> QED
      BY <1>1, <3>1, <3>2, <2>3 DEF OldNodes
  <2> QED
    BY <2>2, <2>3
<1> QED
  BY <1>1, <1>2, <1>3

(* A refresh resolves the edges of untouched files anew, with the same       *)
(* outcome as those of the files it has read.                                *)
LEMMA RefreshEdges ==
  ASSUME CgTypeOK, EdgesMatch, Refresh, Affected # {}
  PROVE  edges' = Resolve(nodes', EdgesIn(files'))
<1> DEFINE found == call.found
           kept  == {e \in edges : e.file \notin Affected}
           fresh == UNION {EdgesOf(f, found[f]) : f \in Affected}
<1>1. edges' = Resolve(nodes', kept \cup fresh) /\ files' = found
  BY DEF Refresh, Relinked
<1>2. ASSUME NEW x \in kept \cup fresh
      PROVE  \E u \in EdgesIn(found) :
               Aimed(x, Lookup(nodes', x)) = Aimed(u, Lookup(nodes', u))
  <2>1. CASE x \in fresh
    <3>1. x \in EdgesIn(found)
      BY <2>1 DEF EdgesIn, Affected
    <3> QED
      BY <3>1
  <2>2. CASE x \in kept
    <3>1. PICK u \in EdgesIn(files) : x = Aimed(u, Lookup(nodes, u))
      BY <2>2 DEF EdgesMatch, Resolve
    <3>2. PICK f \in Files : u \in EdgesOf(f, files[f])
      BY <3>1 DEF EdgesIn
    <3>3. /\ x.file = f
          /\ \A ns : Lookup(ns, x) = Lookup(ns, u)
          /\ \A c : Aimed(x, c) = Aimed(u, c)
      BY <3>1, <3>2, Retarget
    <3>4. u \in EdgesIn(found)
      BY <2>2, <3>2, <3>3 DEF EdgesIn, Affected
    <3> QED
      BY <3>3, <3>4
  <2> QED
    BY <2>1, <2>2
<1>3. ASSUME NEW u \in EdgesIn(found)
      PROVE  \E x \in kept \cup fresh :
               Aimed(x, Lookup(nodes', x)) = Aimed(u, Lookup(nodes', u))
  <2>1. PICK f \in Files : u \in EdgesOf(f, found[f])
    BY DEF EdgesIn
  <2>2. CASE f \in Affected
    <3>1. u \in fresh
      BY <2>1, <2>2
    <3> QED
      BY <3>1
  <2>3. CASE f \notin Affected
    <3>1. u \in EdgesIn(files)
      BY <2>1, <2>3 DEF EdgesIn, Affected
    <3> DEFINE x == Aimed(u, Lookup(nodes, u))
    <3>2. x \in edges
      BY <3>1 DEF EdgesMatch, Resolve
    <3>3. /\ x.file = f
          /\ \A ns : Lookup(ns, x) = Lookup(ns, u)
          /\ \A c : Aimed(x, c) = Aimed(u, c)
      BY <2>1, Retarget
    <3>4. x \in kept
      BY <3>2, <3>3, <2>3
    <3> QED
      BY <3>3, <3>4
  <2> QED
    BY <2>2, <2>3
<1> DEFINE U == kept \cup fresh
           V == EdgesIn(found)
           Put(e) == Aimed(e, Lookup(nodes', e))
<1>4. {Put(e) : e \in U} = {Put(e) : e \in V}
  <2>1. \A x \in U : \E u \in V : Put(x) = Put(u)
    BY <1>2
  <2>2. \A u \in V : \E x \in U : Put(x) = Put(u)
    BY <1>3
  <2> HIDE DEF U, V, Put
  <2> QED
    BY <2>1, <2>2
<1> QED
  BY <1>1, <1>4 DEF Resolve

(* A refresh keeps the vectors of untouched files only.                      *)
LEMMA RefreshVectors ==
  ASSUME CgTypeOK, NodesMatch, VectorsMatch, Refresh
  PROVE  VectorsMatch'
<1> SUFFICES ASSUME NEW v \in vectors' PROVE v.node \in nodes' /\ v.text = files'[v.node.file]
  BY DEF VectorsMatch
<1>1. v \in vectors /\ v.node \in nodes /\ v.node \notin OldNodes /\ v.text = files[v.node.file]
  BY DEF Refresh, VectorsMatch
<1>2. PICK f \in Files : v.node \in NodesOf(f, files[f])
  BY <1>1 DEF NodesMatch, NodesIn
<1>3. v.node.file = f
  BY <1>2, NodeShape
<1>4. call.found[f] = files[f]
  BY <1>1, <1>3 DEF OldNodes, Affected
<1> QED
  BY <1>1, <1>3, <1>4 DEF Refresh

(* Every step keeps the index a rebuild.                                     *)
LEMMA RebuildKept == CgTypeOK /\ IndexIsRebuild /\ [CgNext]_cgVars => IndexIsRebuild'
<1> SUFFICES ASSUME CgTypeOK, NodesMatch, EdgesMatch, VectorsMatch, [CgNext]_cgVars
             PROVE  IndexIsRebuild'
  BY DEF IndexIsRebuild
<1>1. ASSUME UNCHANGED <<files, nodes, edges, vectors>> PROVE IndexIsRebuild'
  BY <1>1 DEF IndexIsRebuild, NodesMatch, EdgesMatch, VectorsMatch, NodesIn, EdgesIn
<1>2. CASE Upgrade
  <2>1. NodesIn(files') = {} /\ EdgesIn(files') = {}
    BY <1>2 DEF Upgrade, NodesIn, EdgesIn, NodesOf, EdgesOf
  <2> QED
    BY <1>2, <2>1 DEF Upgrade, IndexIsRebuild, NodesMatch, EdgesMatch, VectorsMatch, Resolve
<1>3. CASE Refresh
  <2>1. NodesMatch'
    BY <1>3, RefreshNodes DEF NodesMatch
  <2>2. VectorsMatch'
    BY <1>3, RefreshVectors
  <2>3. CASE Affected # {}
    BY <1>3, <2>1, <2>2, <2>3, RefreshEdges DEF IndexIsRebuild, EdgesMatch
  <2>4. CASE Affected = {}
    <3>1. files' = files
      <4>1. \A f \in Files : call.found[f] = files[f]
        BY <2>4 DEF Affected
      <4> QED
        BY <1>3, <4>1 DEF Refresh, CgTypeOK
    <3>2. nodes' = nodes
      BY <3>1, <2>1 DEF NodesMatch, NodesIn
    <3>3. edges' = edges
      BY <1>3, <2>4 DEF Refresh
    <3> QED
      BY <2>1, <2>2, <3>1, <3>2, <3>3 DEF IndexIsRebuild, EdgesMatch, EdgesIn
  <2> QED
    BY <2>3, <2>4
<1>4. CASE EmbedBatch
  <2>1. UNCHANGED <<files, nodes, edges>>
    BY <1>4 DEF EmbedBatch, index
  <2>2. ASSUME NEW v \in vectors' PROVE v.node \in nodes /\ v.text = files[v.node.file]
    BY <1>4, <2>2 DEF EmbedBatch, Missing, VectorOf, VectorsMatch
  <2> QED
    BY <2>1, <2>2 DEF IndexIsRebuild, NodesMatch, EdgesMatch, VectorsMatch, NodesIn, EdgesIn
<1>5. ASSUME CgNext, ~Upgrade, ~Refresh, ~EmbedBatch
      PROVE  UNCHANGED <<files, nodes, edges, vectors>>
  BY <1>5 DEF CgNext, Edit, GitCommit, Begin, ReadFile, Fail, Embedded, EmbeddingFails,
     Answering, Search, SemanticSearch, Query, Impact, Reply, index
<1>6. CASE UNCHANGED cgVars
  BY <1>1, <1>6 DEF cgVars
<1> QED
  BY <1>1, <1>2, <1>3, <1>4, <1>5, <1>6

(* However files change and calls fail, the index is what building it anew   *)
(* from the texts it knows would give (_refresh, _resolve_edges,             *)
(* refresh_embeddings).                                                      *)
THEOREM IndexIsRebuildCorrect == CgSpec => []IndexIsRebuild
BY TypeInit, TypeKept, RebuildInit, RebuildKept, PTL DEF CgSpec

(* What the history remembers is in the snapshot that _impact reads.         *)
OwedIsKept ==
  /\ snap = [head |-> snap.head, nodes |-> snap.nodes, incoming |-> snap.incoming]
  /\ \A p \in owed : \E e \in snap.incoming :
       e.target \in snap.nodes /\ e.target.file = p[1] /\ e.source = p[2]

LEMMA OwedInit == CgInit => OwedIsKept
BY DEF CgInit, OwedIsKept, NoSnap

LEMMA OwedKept == OwedIsKept /\ [CgNext]_cgVars => OwedIsKept'
<1> SUFFICES ASSUME OwedIsKept, [CgNext]_cgVars PROVE OwedIsKept'
  OBVIOUS
<1>1. CASE Upgrade
  BY <1>1 DEF Upgrade, OwedIsKept, NoSnap
<1>2. CASE Refresh
  <2>1. /\ snap' = [head |-> snap'.head, nodes |-> snap'.nodes, incoming |-> snap'.incoming]
        /\ OldUsers \subseteq snap'.incoming /\ OldNodes \subseteq snap'.nodes
        /\ snap.head = head => snap.incoming \subseteq snap'.incoming
                               /\ snap.nodes \subseteq snap'.nodes
    <3>1. CASE snap.head = head
      <4> DEFINE ns == snap.nodes \cup OldNodes
                 es == snap.incoming \cup OldUsers
      <4>1. snap' = [snap EXCEPT !.nodes = ns, !.incoming = es]
        BY <1>2, <3>1 DEF Refresh, Snapshot
      <4> HIDE DEF ns, es
      <4>2. snap = [head |-> snap.head, nodes |-> snap.nodes, incoming |-> snap.incoming]
        BY DEF OwedIsKept
      <4>3. snap' = [head |-> snap.head, nodes |-> ns, incoming |-> es]
        BY <4>1, <4>2
      <4> QED
        BY <4>3 DEF ns, es
    <3>2. CASE snap.head # head
      BY <1>2, <3>2 DEF Refresh, Snapshot
    <3> QED
      BY <3>1, <3>2
  <2>2. ASSUME NEW p \in owed' PROVE \E e \in snap'.incoming :
          e.target \in snap'.nodes /\ e.target.file = p[1] /\ e.source = p[2]
    <3>1. CASE snap.head = head /\ p \in owed
      BY <2>1, <3>1 DEF OwedIsKept
    <3>2. CASE \E e \in OldUsers : p = <<e.target.file, e.source>>
      <4>1. PICK e \in OldUsers : p = <<e.target.file, e.source>>
        BY <3>2
      <4>2. e.target \in OldNodes
        BY DEF OldUsers
      <4> QED
        BY <2>1, <4>1, <4>2
    <3> QED
      BY <1>2, <2>2, <3>1, <3>2 DEF Refresh
  <2> QED
    BY <2>1, <2>2 DEF OwedIsKept
<1>3. CASE CgNext /\ ~Upgrade /\ ~Refresh
  <2>1. UNCHANGED <<snap, owed>>
    BY <1>3 DEF CgNext, Edit, GitCommit, Begin, ReadFile, Fail, EmbedBatch, Embedded,
       EmbeddingFails, Answering, Search, SemanticSearch, Query, Impact, Reply, index
  <2> QED
    BY <2>1 DEF OwedIsKept
<1>4. CASE UNCHANGED cgVars
  BY <1>4 DEF cgVars, index, OwedIsKept
<1> QED
  BY <1>1, <1>2, <1>3, <1>4

(* Two steps from the symbols of the files reach the users of the past, the  *)
(* first step, and their users, the second (_impact).                        *)
LEMMA ImpactStep ==
  ASSUME OwedIsKept, NEW F \in SUBSET Files, Impact(F),
         NEW p \in owed, p[1] \in F, p[2] \in nodes
  PROVE  {p[2]} \cup (Users({p[2]}, Dependencies) \cap nodes) \subseteq answer'
<1> DEFINE S == {n \in nodes \cup snap.nodes : n.file \in F}
           before(R) == {e.source : e \in {d \in snap.incoming : d.target \in R}}
           hop(R) == (Users(R, Dependencies) \cup before(R)) \cap nodes
           first == hop(S) \ S
<1>1. answer' = S \cup first \cup hop(first)
  BY DEF Impact, Reply, Impacted
<1>2. p[2] \in hop(S)
  <2>1. PICK e \in snap.incoming :
          e.target \in snap.nodes /\ e.target.file = p[1] /\ e.source = p[2]
    BY DEF OwedIsKept
  <2>2. e.target \in S
    BY <2>1
  <2> QED
    BY <2>1, <2>2
<1>3. ASSUME NEW R, p[2] \in R PROVE Users({p[2]}, Dependencies) \cap nodes \subseteq hop(R)
  BY <1>3 DEF Users
<1> HIDE DEF S, hop
<1>4. hop(S) \subseteq S \cup first
  OBVIOUS
<1>5. CASE p[2] \in S
  BY <1>1, <1>3, <1>4, <1>5
<1>6. CASE p[2] \in first
  BY <1>1, <1>3, <1>6
<1> QED
  BY <1>2, <1>4, <1>5, <1>6

(* An impact answer leaves out nobody who used the file under this commit,   *)
(* whichever calls refreshed the index and died in between.                  *)
THEOREM ImpactIsCompleteCorrect == CgSpec => ImpactIsComplete
<1> DEFINE Complete == \A F \in SUBSET Files : Impact(F) =>
       \A p \in owed : p[1] \in F /\ p[2] \in nodes =>
         {p[2]} \cup (Users({p[2]}, Dependencies) \cap nodes) \subseteq answer'
<1>1. OwedIsKept /\ [CgNext]_cgVars => [Complete]_cgVars
  BY ImpactStep
<1>2. CgSpec => []OwedIsKept
  BY OwedInit, OwedKept, PTL DEF CgSpec
<1> HIDE DEF Complete
<1>3. CgSpec => [][Complete]_cgVars
  BY <1>1, <1>2, PTL DEF CgSpec
<1> QED
  BY <1>3 DEF ImpactIsComplete, Complete
-----------------------------------------------------------------------------
(* The check of a plan.                                                      *)

(* Each task of a group waits for one of the group.                          *)
Stuck(p, S) == \A n \in S : \E b \in S : n \in Blocked(p, b)

(* An answer is a list.                                                      *)
LEMMA PlanShape ==
  ASSUME NEW p \in Answers
  PROVE  DOMAIN p = 1..Len(p) /\ Len(p) \in Nat
BY DecomposerAssumption

(* The tasks of a list are told apart when there are as many ids as tasks.   *)
LEMMA UniqueMeansDistinct ==
  ASSUME NEW p \in Answers
  PROVE  IdsAreUnique(p) <=> \A i, j \in DOMAIN p : p[i].id = p[j].id => i = j
<1> DEFINE f == [i \in DOMAIN p |-> p[i].id]
<1>1. f \in Surjection(DOMAIN p, Ids(p))
  BY DEF Surjection, Ids
<1>2. IsFiniteSet(DOMAIN p) /\ Cardinality(DOMAIN p) = Len(p)
  <2>1. DOMAIN p = 1..Len(p) /\ Len(p) \in Nat
    BY PlanShape
  <2>2. IsFiniteSet(1..Len(p)) /\ Cardinality(1..Len(p)) = IF 1 <= Len(p) THEN Len(p) - 1 + 1 ELSE 0
    BY <2>1, FS_Interval
  <2> QED
    BY <2>1, <2>2
<1>3. Cardinality(Ids(p)) = Cardinality(DOMAIN p) <=> f \in Injection(DOMAIN p, Ids(p))
  BY <1>1, <1>2, FS_Surjection
<1>4. f \in Injection(DOMAIN p, Ids(p)) <=> \A i, j \in DOMAIN p : f[i] = f[j] => i = j
  BY <1>1 DEF Injection, IsInjective, Surjection
<1> QED
  BY <1>2, <1>3, <1>4 DEF IdsAreUnique

(* Sound, said of ids: no group of tasks is stuck.                           *)
LEMMA SoundMeansNoneStuck ==
  ASSUME NEW p \in Answers
  PROVE  Sound(p) <=> /\ p # << >> /\ IdsAreUnique(p) /\ ReferencesExist(p)
                      /\ \A S \in SUBSET Ids(p) : Stuck(p, S) => S = {}
<1> DEFINE Waits(S) == \A i \in S : \E j \in S : p[j].id \in p[i].blockedBy
<1>1. Sound(p) <=> /\ p # << >> /\ IdsAreUnique(p) /\ ReferencesExist(p)
                   /\ \A S \in SUBSET DOMAIN p : Waits(S) => S = {}
  <2> DEFINE Free(S) == \E i \in S : \A j \in S : p[j].id \notin p[i].blockedBy
  <2>1. \A S \in SUBSET DOMAIN p : Waits(S) <=> ~Free(S)
    OBVIOUS
  <2>2. Sound(p) <=> /\ p # << >> /\ IdsAreUnique(p) /\ ReferencesExist(p)
                     /\ \A S \in (SUBSET DOMAIN p) \ {{}} : Free(S)
    BY UniqueMeansDistinct DEF Sound, ReferencesExist
  <2> HIDE DEF Waits, Free
  <2>3. \A S : S \in (SUBSET DOMAIN p) \ {{}} <=> S \in SUBSET DOMAIN p /\ S # {}
    OBVIOUS
  <2>4. (\A S \in SUBSET DOMAIN p : Waits(S) => S = {})
          <=> \A S \in (SUBSET DOMAIN p) \ {{}} : Free(S)
    BY <2>1, <2>3, ZenonT(20)
  <2> QED
    BY <2>2, <2>4
<1>2. ASSUME NEW S \in SUBSET DOMAIN p, Waits(S), S # {}
      PROVE  \E T \in SUBSET Ids(p) : Stuck(p, T) /\ T # {}
  <2> DEFINE T == {p[i].id : i \in S}
  <2>1. T \in SUBSET Ids(p) /\ T # {}
    BY <1>2 DEF Ids
  <2>2. ASSUME NEW i \in S PROVE \E b \in T : p[i].id \in Blocked(p, b)
    BY <1>2 DEF Blocked
  <2> QED
    BY <2>1, <2>2 DEF Stuck
<1>3. ASSUME IdsAreUnique(p), NEW T \in SUBSET Ids(p), Stuck(p, T), T # {}
      PROVE  \E S \in SUBSET DOMAIN p : Waits(S) /\ S # {}
  <2> DEFINE S == {i \in DOMAIN p : p[i].id \in T}
  <2>1. S \in SUBSET DOMAIN p /\ S # {}
    BY <1>3 DEF Ids
  <2>2. ASSUME NEW i \in S PROVE \E j \in S : p[j].id \in p[i].blockedBy
    <3>1. PICK b \in T : p[i].id \in Blocked(p, b)
      BY <1>3, <2>2 DEF Stuck
    <3>2. PICK k \in DOMAIN p : b \in p[k].blockedBy /\ p[k].id = p[i].id
      BY <3>1 DEF Blocked
    <3>3. k = i
      BY <1>3, <2>2, <3>2, UniqueMeansDistinct
    <3>4. PICK j \in DOMAIN p : p[j].id = b
      BY <1>3, <3>1 DEF Ids
    <3> QED
      BY <3>1, <3>2, <3>3, <3>4
  <2> QED
    BY <2>1, <2>2
<1> HIDE DEF Waits
<1> QED
  BY <1>1, <1>2, <1>3

(* The colours, the path and the tasks that are done with.                   *)
OnPath(n) == \E i \in 1..Len(path) : path[i] = n
Chain == \A i \in 1..Len(path) : i < Len(path) => path[i + 1] \in Blocked(plan, path[i])
Simple == \A i, j \in 1..Len(path) : path[i] = path[j] => i = j
Done(n) == colour[n] = "black"
DoneIsClosed == \A n \in Ids(plan) : Done(n) => \A m \in Blocked(plan, n) : Done(m)
NoneDoneIsStuck == \A S \in SUBSET Ids(plan) : (\A n \in S : Done(n)) /\ Stuck(plan, S) => S = {}

WalkTypeOK ==
  /\ colour \in [Ids(plan) -> {"white", "grey", "black"}]
  /\ path \in Seq(Ids(plan))

WalkInv ==
  /\ plan # << >>
  /\ WalkTypeOK
  /\ \A n \in Ids(plan) : colour[n] = "grey" <=> OnPath(n)
  /\ Chain /\ Simple
  /\ DoneIsClosed /\ NoneDoneIsStuck

DcInv ==
  /\ stage \in {"ask", "walk", "judged", "saved", "failed"}
  /\ stage \in {"walk", "judged", "saved"} => plan \in Answers
  /\ passed \in BOOLEAN
  /\ stage = "walk" => WalkInv
  /\ VerdictIsRight

(* The adjacency list of a task holds tasks of the plan.                     *)
LEMMA BlockedAreTasks == \A p, n : Blocked(p, n) \subseteq Ids(p)
BY DEF Blocked, Ids

(* What Last, Front and Append do at the end of a path.                      *)
LEMMA PathEnds ==
  ASSUME NEW S, NEW s \in Seq(S)
  PROVE  /\ Len(s) \in Nat
         /\ s # << >> => /\ Len(s) > 0 /\ Last(s) = s[Len(s)] /\ Last(s) \in S
                         /\ Front(s) \in Seq(S) /\ Len(Front(s)) = Len(s) - 1
                         /\ \A i \in 1..Len(s) - 1 : Front(s)[i] = s[i]
         /\ \A e \in S : /\ Append(s, e) \in Seq(S) /\ Len(Append(s, e)) = Len(s) + 1
                         /\ \A i \in 1..Len(s) : Append(s, e)[i] = s[i]
                         /\ Append(s, e)[Len(s) + 1] = e
<1>1. Len(s) \in Nat
  OBVIOUS
<1>2. ASSUME s # << >>
      PROVE  /\ Len(s) > 0 /\ Last(s) = s[Len(s)] /\ Last(s) \in S
             /\ Front(s) \in Seq(S) /\ Len(Front(s)) = Len(s) - 1
             /\ \A i \in 1..Len(s) - 1 : Front(s)[i] = s[i]
  <2>1. Len(s) > 0
    BY <1>2
  <2>2. Last(s) = s[Len(s)] /\ Last(s) \in S
    BY <2>1 DEF Last
  <2>3. Front(s) = SubSeq(s, 1, Len(s) - 1)
    BY DEF Front
  <2>4. PICK n \in Nat : n = Len(s) - 1
    BY <1>1, <2>1
  <2>5. n <= Len(s)
    BY <1>1, <2>4
  <2>6. SubSeq(s, 1, n) \in Seq(S) /\ Len(SubSeq(s, 1, n)) = n
    BY <1>1, <2>5
  <2>7. \A i \in 1..n : SubSeq(s, 1, n)[i] = s[i]
    BY <1>1, <2>5
  <2> QED
    BY <2>1, <2>2, <2>3, <2>4, <2>6, <2>7
<1>3. ASSUME NEW e \in S
      PROVE  /\ Append(s, e) \in Seq(S) /\ Len(Append(s, e)) = Len(s) + 1
             /\ \A i \in 1..Len(s) : Append(s, e)[i] = s[i]
             /\ Append(s, e)[Len(s) + 1] = e
  OBVIOUS
<1> QED
  BY <1>1, <1>2, <1>3

(* The walk does not leave the plan.                                         *)
LEMMA AheadAreTasks == Ahead \subseteq Ids(plan)
BY BlockedAreTasks DEF Ahead

(* A task entered for the first time lengthens the path.                     *)
LEMMA EnterKeeps == ASSUME WalkInv, Enter PROVE WalkInv'
<1>1. PICK n \in Ids(plan) : /\ n \in Ahead /\ colour[n] = "white"
                             /\ colour' = [colour EXCEPT ![n] = "grey"]
                             /\ path' = Append(path, n)
  BY AheadAreTasks DEF Enter
<1>2. plan' = plan
  BY DEF Enter
<1>3. /\ Len(path) \in Nat /\ path' \in Seq(Ids(plan)) /\ Len(path') = Len(path) + 1
      /\ \A i \in 1..Len(path) : path'[i] = path[i] /\ path[i] \in Ids(plan)
      /\ path'[Len(path')] = n
  BY <1>1, PathEnds DEF WalkInv, WalkTypeOK
<1>4. ~OnPath(n)
  BY <1>1 DEF WalkInv
<1>5. /\ colour' \in [Ids(plan) -> {"white", "grey", "black"}]
      /\ \A m \in Ids(plan) : colour'[m] = IF m = n THEN "grey" ELSE colour[m]
  BY <1>1 DEF WalkInv, WalkTypeOK
<1>6. \A m : OnPath(m)' <=> OnPath(m) \/ m = n
  BY <1>3 DEF OnPath
<1>7. \A m \in Ids(plan) : colour'[m] = "grey" <=> OnPath(m)'
  BY <1>5, <1>6 DEF WalkInv
<1>8. Chain'
  <2> SUFFICES ASSUME NEW i \in 1..Len(path'), i < Len(path')
               PROVE  path'[i + 1] \in Blocked(plan, path'[i])
    BY <1>2 DEF Chain
  <2>1. CASE i < Len(path)
    <3>1. path[i + 1] \in Blocked(plan, path[i])
      BY <2>1 DEF WalkInv, Chain
    <3> QED
      BY <1>3, <2>1, <3>1
  <2>2. CASE ~(i < Len(path))
    <3>1. i = Len(path) /\ i + 1 = Len(path') /\ Len(path) > 0
      BY <1>3, <2>2
    <3>2. path # << >>
      BY <3>1
    <3>3. n \in Blocked(plan, path[Len(path)])
      BY <1>1, <3>2, PathEnds DEF Ahead, WalkInv, WalkTypeOK
    <3> QED
      BY <1>3, <3>1, <3>3
  <2> QED
    BY <2>1, <2>2
<1>9. Simple'
  <2> SUFFICES ASSUME NEW i \in 1..Len(path'), NEW j \in 1..Len(path'), path'[i] = path'[j]
               PROVE  i = j
    BY DEF Simple
  <2>1. CASE i \in 1..Len(path) /\ j \in 1..Len(path)
    BY <1>3, <2>1 DEF WalkInv, Simple
  <2>2. CASE ~(i \in 1..Len(path) /\ j \in 1..Len(path))
    BY <1>3, <1>4, <2>2 DEF OnPath
  <2> QED
    BY <2>1, <2>2
<1>10. \A m \in Ids(plan) : Done(m)' <=> Done(m)
  BY <1>1, <1>5 DEF Done
<1>11. DoneIsClosed'
  BY <1>2, <1>10, BlockedAreTasks DEF WalkInv, DoneIsClosed
<1>12. NoneDoneIsStuck'
  BY <1>2, <1>10 DEF WalkInv, NoneDoneIsStuck
<1> QED
  BY <1>2, <1>3, <1>5, <1>7, <1>8, <1>9, <1>11, <1>12 DEF WalkInv, WalkTypeOK

(* A task that is done with waits for no other that is: it would have been   *)
(* done with before.                                                         *)
LEMMA LeaveKeeps == ASSUME WalkInv, Leave PROVE WalkInv'
<1> DEFINE n == Last(path)
<1>1. plan' = plan /\ path # << >> /\ path' = Front(path)
      /\ colour' = [colour EXCEPT ![n] = "black"]
  BY DEF Leave
<1>2. \A m \in Blocked(plan, n) : Done(m)
  BY <1>1 DEF Leave, Ahead, Done
<1>3. /\ Len(path) \in Nat /\ Len(path) > 0 /\ n = path[Len(path)] /\ n \in Ids(plan)
      /\ path' \in Seq(Ids(plan)) /\ Len(path') = Len(path) - 1
      /\ \A i \in 1..Len(path') : path'[i] = path[i]
  BY <1>1, PathEnds DEF WalkInv, WalkTypeOK
<1> HIDE DEF n
<1>4. colour[n] = "grey"
  BY <1>3 DEF WalkInv, OnPath
<1>5. /\ colour' \in [Ids(plan) -> {"white", "grey", "black"}]
      /\ \A m \in Ids(plan) : colour'[m] = IF m = n THEN "black" ELSE colour[m]
  BY <1>1, <1>3 DEF WalkInv, WalkTypeOK
<1>6. \A m : OnPath(m)' <=> OnPath(m) /\ m # n
  <2> SUFFICES ASSUME NEW m PROVE OnPath(m)' <=> OnPath(m) /\ m # n
    OBVIOUS
  <2>1. ASSUME NEW i \in 1..Len(path'), path'[i] = m PROVE OnPath(m) /\ m # n
    <3>1. i \in 1..Len(path) /\ i # Len(path) /\ path[i] = m /\ Len(path) \in 1..Len(path)
      BY <1>3, <2>1
    <3> QED
      BY <1>3, <3>1 DEF OnPath, WalkInv, Simple
  <2>2. ASSUME NEW i \in 1..Len(path), path[i] = m, m # n PROVE OnPath(m)'
    <3>1. i \in 1..Len(path') /\ path'[i] = m
      BY <1>3, <2>2
    <3> QED
      BY <3>1 DEF OnPath
  <2> QED
    BY <2>1, <2>2 DEF OnPath
<1>7. \A m \in Ids(plan) : colour'[m] = "grey" <=> OnPath(m)'
  BY <1>5, <1>6 DEF WalkInv
<1>8. Chain' /\ Simple'
  <2>1. 1..Len(path') \subseteq 1..Len(path)
    BY <1>3
  <2>2. \A i \in 1..Len(path') : i < Len(path') => i + 1 \in 1..Len(path') /\ i < Len(path)
    BY <1>3
  <2> QED
    <3>1. Chain'
      <4> SUFFICES ASSUME NEW i \in 1..Len(path'), i < Len(path')
                   PROVE  path'[i + 1] \in Blocked(plan, path'[i])
        BY <1>1 DEF Chain
      <4>1. path[i + 1] \in Blocked(plan, path[i])
        BY <2>1, <2>2 DEF WalkInv, Chain
      <4> QED
        BY <1>3, <2>2, <4>1
    <3>2. Simple'
      BY <1>3, <2>1 DEF WalkInv, Simple
    <3> QED
      BY <3>1, <3>2
<1>9. \A m \in Ids(plan) : Done(m)' <=> Done(m) \/ m = n
  BY <1>5 DEF Done
<1>10. DoneIsClosed'
  BY <1>1, <1>2, <1>9, BlockedAreTasks DEF WalkInv, DoneIsClosed
<1>11. ASSUME NEW S \in SUBSET Ids(plan), \A m \in S : Done(m) \/ m = n, Stuck(plan, S), n \in S
       PROVE  FALSE
  <2>1. PICK b \in S : n \in Blocked(plan, b)
    BY <1>11 DEF Stuck
  <2>2. CASE b = n
    BY <1>2, <1>4, <2>1, <2>2 DEF Done
  <2>3. CASE Done(b)
    BY <1>4, <1>11, <2>1, <2>3 DEF WalkInv, DoneIsClosed, Done
  <2> QED
    BY <1>11, <2>2, <2>3
<1>12. NoneDoneIsStuck'
  <2> SUFFICES ASSUME NEW S \in SUBSET Ids(plan), \A m \in S : Done(m)', Stuck(plan, S)
               PROVE  S = {}
    BY <1>1 DEF NoneDoneIsStuck
  <2>1. \A m \in S : Done(m) \/ m = n
    BY <1>9
  <2>2. n \notin S
    BY <1>11, <2>1
  <2> QED
    BY <2>1, <2>2 DEF WalkInv, NoneDoneIsStuck
<1> QED
  BY <1>1, <1>3, <1>5, <1>7, <1>8, <1>10, <1>12 DEF WalkInv, WalkTypeOK

(* From a grey task on, the tasks of the path wait for each other.           *)
LEMMA CycleIsStuck ==
  ASSUME WalkInv, plan \in Answers, NEW n \in Ahead, colour[n] = "grey"
  PROVE  ~Sound(plan)
<1>1. n \in Ids(plan) /\ OnPath(n)
  BY AheadAreTasks DEF WalkInv
<1>2. PICK k \in 1..Len(path) : path[k] = n
  BY <1>1 DEF OnPath
<1>3. Len(path) \in Nat /\ path # << >>
  BY <1>2, PathEnds DEF WalkInv, WalkTypeOK
<1>4. n \in Blocked(plan, path[Len(path)])
  BY <1>3, PathEnds DEF Ahead, WalkInv, WalkTypeOK
<1> DEFINE S == {path[i] : i \in k..Len(path)}
<1>5. S \in SUBSET Ids(plan)
  <2>1. \A i \in k..Len(path) : i \in 1..Len(path)
    BY <1>2, <1>3
  <2>2. \A i \in 1..Len(path) : path[i] \in Ids(plan)
    BY DEF WalkInv, WalkTypeOK
  <2> QED
    BY <2>1, <2>2
<1>6. n \in S
  BY <1>2, <1>3
<1>7. ASSUME NEW i \in k..Len(path) PROVE \E b \in S : path[i] \in Blocked(plan, b)
  <2>1. CASE i = k
    BY <1>2, <1>3, <1>4, <2>1
  <2>2. CASE i # k
    <3>1. i - 1 \in k..Len(path) /\ i - 1 \in 1..Len(path) /\ i - 1 < Len(path) /\ (i - 1) + 1 = i
      BY <1>2, <1>3, <1>7, <2>2
    <3>2. path[i] \in Blocked(plan, path[i - 1])
      BY <3>1 DEF WalkInv, Chain
    <3> QED
      BY <3>1, <3>2
  <2> QED
    BY <2>1, <2>2
<1>8. Stuck(plan, S)
  BY <1>7 DEF Stuck
<1> QED
  BY <1>5, <1>6, <1>8, SoundMeansNoneStuck

(* A plan of which no group is stuck has a task that waits for none.         *)
LEMMA WalkThroughMeansSound ==
  ASSUME WalkInv, plan \in Answers, path = << >>, \A n \in Ahead : Done(n)
  PROVE  /\ IdsAreUnique(plan) /\ ReferencesExist(plan) => Sound(plan)
         /\ Sound(plan) => IdsAreUnique(plan) /\ ReferencesExist(plan) /\ HasRoot(plan)
<1>1. \A S \in SUBSET Ids(plan) : Stuck(plan, S) => S = {}
  BY DEF Ahead, WalkInv, NoneDoneIsStuck
<1>2. ASSUME Sound(plan) PROVE HasRoot(plan)
  <2>1. DOMAIN plan # {}
    <3>1. Len(plan) # 0
      BY DecomposerAssumption DEF WalkInv
    <3> QED
      BY <3>1, PlanShape
  <2>2. PICK i \in DOMAIN plan : \A j \in DOMAIN plan : plan[j].id \notin plan[i].blockedBy
    BY <1>2, <2>1 DEF Sound
  <2>3. plan[i].blockedBy \subseteq Ids(plan)
    BY <1>2 DEF Sound
  <2>4. plan[i].blockedBy = {}
    BY <2>2, <2>3 DEF Ids
  <2> QED
    BY <2>4 DEF HasRoot, Roots
<1> QED
  BY <1>1, <1>2, SoundMeansNoneStuck DEF WalkInv

(* Before the first step nothing is coloured.                                *)
LEMMA WalkBegins ==
  ASSUME NEW p \in Answers, p # << >>, plan' = p,
         colour' = [n \in Ids(p) |-> "white"], path' = << >>
  PROVE  WalkInv'
<1>1. path' \in Seq(Ids(p)) /\ 1..Len(path') = {}
  OBVIOUS
<1>2. \A n \in Ids(p) : colour'[n] = "white"
  OBVIOUS
<1>3. Chain' /\ Simple' /\ \A n : ~OnPath(n)'
  BY <1>1 DEF Chain, Simple, OnPath
<1>4. DoneIsClosed' /\ NoneDoneIsStuck'
  BY <1>2 DEF DoneIsClosed, NoneDoneIsStuck, Done
<1> QED
  BY <1>1, <1>2, <1>3, <1>4 DEF WalkInv, WalkTypeOK

(* A verdict is right when it is given, and the plan stays until the next.   *)
LEMMA DcStep == DcInv /\ [DcNext]_dcVars => DcInv'
<1> SUFFICES ASSUME DcInv, [DcNext]_dcVars PROVE DcInv'
  OBVIOUS
<1>1. CASE Enter
  BY <1>1, EnterKeeps DEF DcInv, Enter, VerdictIsRight
<1>2. CASE Leave
  BY <1>2, LeaveKeeps DEF DcInv, Leave, VerdictIsRight
<1>3. CASE CycleFound
  BY <1>3, CycleIsStuck DEF DcInv, CycleFound, VerdictIsRight
<1>4. CASE WalkEnds
  <2>1. \A n \in Ahead : Done(n)
    BY <1>4 DEF WalkEnds, Done
  <2>2. passed' <=> Sound(plan)
    BY <1>4, <2>1, WalkThroughMeansSound DEF DcInv, WalkEnds
  <2> QED
    BY <1>4, <2>2 DEF DcInv, WalkEnds, VerdictIsRight, IdsAreUnique, ReferencesExist, HasRoot
<1>5. CASE Judge
  <2>1. PICK p \in Answers :
          /\ plan' = p
          /\ IF p = << >>
             THEN stage' = "judged"
             ELSE stage' = "walk" /\ colour' = [n \in Ids(p) |-> "white"] /\ path' = << >>
    BY <1>5 DEF Judge
  <2>2. p = << >> => ~Sound(p)
    BY DEF Sound
  <2>3. stage' = "walk" => WalkInv'
    BY <2>1, WalkBegins
  <2> QED
    BY <1>5, <2>1, <2>2, <2>3 DEF DcInv, Judge, VerdictIsRight
<1>6. CASE Garbled \/ Retry \/ GiveUp
  BY <1>6 DEF DcInv, Garbled, Retry, GiveUp, VerdictIsRight
<1>7. CASE Save
  BY <1>7 DEF DcInv, Save, VerdictIsRight
<1>8. CASE UNCHANGED dcVars
  <2>1. UNCHANGED <<plan, stage, passed, colour, path>>
    BY <1>8 DEF dcVars, search
  <2>2. ASSUME WalkInv PROVE WalkInv'
    <3>1. WalkTypeOK'
      BY <2>1, <2>2 DEF WalkInv, WalkTypeOK
    <3>2. \A n \in Ids(plan)' : (colour[n] = "grey")' <=> OnPath(n)'
      BY <2>1, <2>2 DEF WalkInv, OnPath
    <3>3. Chain' /\ Simple'
      BY <2>1, <2>2 DEF WalkInv, Chain, Simple
    <3>4. DoneIsClosed'
      BY <2>1, <2>2 DEF WalkInv, DoneIsClosed, Done
    <3>5. NoneDoneIsStuck'
      BY <2>1, <2>2 DEF WalkInv, NoneDoneIsStuck, Done
    <3>6. (plan # << >>)'
      BY <2>1, <2>2 DEF WalkInv
    <3> QED
      BY <3>1, <3>2, <3>3, <3>4, <3>5, <3>6 DEF WalkInv
  <2> QED
    BY <2>1, <2>2 DEF DcInv, VerdictIsRight
<1> QED
  BY <1>1, <1>2, <1>3, <1>4, <1>5, <1>6, <1>7, <1>8 DEF DcNext

(* For every list of tasks: validate_dag passes it if and only if no group   *)
(* of its tasks waits for itself, whatever order detect_cycles walks in.     *)
THEOREM VerdictIsRightCorrect == DcSpec => []VerdictIsRight
<1>1. DcInit => DcInv
  BY DEF DcInit, DcInv, VerdictIsRight
<1>2. DcInv => VerdictIsRight
  BY DEF DcInv
<1> QED
  BY <1>1, <1>2, DcStep, PTL DEF DcSpec
=============================================================================
