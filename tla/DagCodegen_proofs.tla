-------------------------- MODULE DagCodegen_proofs --------------------------
(* The sort of DagCodegen and the wiring of its body, for every finite graph. *)
EXTENDS DagCodegen, FiniteSetTheorems, SequenceTheorems, TLAPS

\* A set of naturals that is not empty has a least element.
LEMMA Least ==
    ASSUME NEW S \in SUBSET Nat, S # {}
    PROVE  \E m \in S : \A n \in S : m <= n
  <1> DEFINE R == OpToRel(<, Nat)
  <1>1. IsWellFoundedOn(R, Nat)
    BY NatLessThanWellFounded
  <1> HIDE DEF R
  <1>2. PICK m \in S : \A n \in S : ~ (<<n, m>> \in R)
    BY <1>1, WFMin
  <1>3. \A n \in S : ~ (n < m)
    BY <1>2 DEF R, OpToRel
  <1> QED
    BY <1>3

\* The links of a document are finitely many (its edges are a list).
LEMMA LinksFinite ==
    ASSUME edges \in Seq(Edge), NEW S, NEW n
    PROVE  IsFiniteSet(Links(S, n)) /\ Cardinality(Links(S, n)) \in Nat
  <1>1. DOMAIN edges = 1 .. Len(edges) /\ Len(edges) \in Nat
    BY LenProperties
  <1>2. IsFiniteSet(DOMAIN edges)
    BY <1>1, FS_Interval
  <1>3. Links(S, n) \in SUBSET DOMAIN edges
    BY DEF Links
  <1> QED
    BY <1>2, <1>3, FS_Subset, FS_CardinalityType

\* What a pop subtracts is what the popped node's links were.
LEMMA LinksWithout ==
    ASSUME edges \in Seq(Edge), NEW S, NEW m \in S, NEW n
    PROVE  /\ Cardinality(Links(S \ {m}, n))
                = Cardinality(Links(S, n)) - Cardinality(Links({m}, n))
           /\ Cardinality(Links(S \ {m}, n)) \in Nat
  <1>1. Links(S \ {m}, n) = Links(S, n) \ Links({m}, n)
    BY DEF Links
  <1>2. Links(S, n) \cap Links({m}, n) = Links({m}, n)
    BY DEF Links
  <1>3. IsFiniteSet(Links(S, n)) /\ IsFiniteSet(Links({m}, n))
    BY LinksFinite
  <1> QED
    BY <1>1, <1>2, <1>3, FS_Difference, LinksFinite

\* No links, no predecessors.
LEMMA NoLinks ==
    ASSUME edges \in Seq(Edge), NEW S, NEW n
    PROVE  Cardinality(Links(S, n)) = 0 <=> Links(S, n) = {}
  BY LinksFinite, FS_EmptySet

Popped == {order[k] : k \in DOMAIN order}

Once == \A j, k \in DOMAIN order : order[j] = order[k] => j = k

\* What _topo_order keeps true: counts and ready nodes are those of the graph that is left.
SortInv ==
    /\ TypeOK
    /\ Once
    /\ LinearExtension
    /\ pc = "validate" => order = <<>>
    /\ pc = "sort" =>
          /\ Distinct
          /\ \A n \in Nodes : indegree[n] = Cardinality(Links(Nodes \ Popped, n))
          /\ ready = {n \in Nodes \ Popped : indegree[n] = 0}
    /\ pc = "cycle" => Cyclic
    /\ Ordered => Distinct /\ Popped = Nodes

\* The sort has placed all nodes when it has placed as many as there are.
LEMMA PlacedAll ==
    ASSUME order \in Seq(Nodes), Once
    PROVE  Popped = Nodes <=> Len(order) = NodeCount
  <1>1. /\ DOMAIN order = 1 .. Len(order) /\ Len(order) \in Nat
        /\ order \in [1 .. Len(order) -> Nodes]
    BY LenProperties
  <1>2. IsFiniteSet(1 .. Len(order)) /\ Cardinality(1 .. Len(order)) = Len(order)
    BY <1>1, FS_Interval
  <1>3. IsFiniteSet(Nodes) /\ Cardinality(Nodes) = NodeCount
    BY CodegenAssumption, FS_Interval DEF Nodes
  <1>4. order \in Bijection(1 .. Len(order), Popped)
    BY <1>1 DEF Popped, Once, Bijection, Injection, Surjection, IsInjective
  <1>5. ExistsBijection(1 .. Len(order), Popped)
    BY <1>4 DEF ExistsBijection
  <1>6. Cardinality(Popped) = Len(order)
    BY <1>2, <1>5, FS_Bijection
  <1>7. Popped \in SUBSET Nodes
    BY <1>1 DEF Popped
  <1> QED
    BY <1>3, <1>6, <1>7, FS_Subset

LEMMA InitSorted == Init => SortInv
  <1> SUFFICES ASSUME Init PROVE SortInv
    OBVIOUS
  <1>1. edges \in Seq(Edge)
    <2>1. PICK k \in 0 .. MaxEdges : edges \in [1 .. k -> Edge]
      BY DEF Init
    <2> QED
      BY <2>1, CodegenAssumption, SeqDef
  <1>2. TypeOK
    BY <1>1 DEF Init, TypeOK, Binding, Unbound, Nodes
  <1>3. order = <<>> /\ pc = "validate" /\ DOMAIN order = {}
    BY DEF Init
  <1> QED
    BY <1>2, <1>3 DEF SortInv, Once, LinearExtension, Ordered, Sections

LEMMA ValidateSorts ==
    ASSUME SortInv, Validate
    PROVE  SortInv'
  <1>1. TypeOK /\ order = <<>> /\ edges \in Seq(Edge)
    BY DEF SortInv, Validate, TypeOK
  <1>2. Popped = {}
    BY <1>1 DEF Popped
  <1>3. Nodes \ Popped = Nodes
    BY <1>2
  <1>4. \A n \in Nodes : Counted(n) \in Nat
    BY <1>1, LinksFinite DEF Counted
  <1>5. CASE Distinct
    <2>1. /\ pc' = "sort" /\ indegree' = [n \in Nodes |-> Counted(n)]
          /\ ready' = {n \in Nodes : Counted(n) = 0}
          /\ UNCHANGED <<style, taskId, edges, order, at, scope, made, wired>>
      BY <1>5 DEF Validate, document, running
    <2>2. TypeOK'
      BY <1>1, <1>4, <2>1 DEF TypeOK, Sections
    <2>3. Distinct' /\ Popped' = Popped
      BY <1>5, <2>1 DEF Distinct, Popped
    <2>4. \A n \in Nodes : indegree'[n] = Cardinality(Links(Nodes \ Popped, n)')
      BY <1>3, <2>1, <2>3 DEF Counted, Links
    <2>5. ready' = {n \in Nodes \ Popped' : indegree'[n] = 0}
      BY <1>3, <2>1, <2>3
    <2>6. (Once /\ LinearExtension)'
      BY <2>1 DEF SortInv, Once, LinearExtension, Links
    <2> QED
      BY <2>1, <2>2, <2>3, <2>4, <2>5, <2>6 DEF SortInv, Ordered, Sections
  <1>6. CASE ~Distinct
    <2>1. /\ pc' = "refused"
          /\ UNCHANGED <<style, taskId, edges, indegree, ready, order, at, scope, made, wired>>
      BY <1>6 DEF Validate, document, running
    <2> QED
      BY <1>1, <2>1 DEF SortInv, TypeOK, Once, LinearExtension, Links, Ordered, Sections
  <1> QED
    BY <1>5, <1>6

\* The next node is ready: all its predecessors are placed and it is not.
LEMMA NextNode ==
    ASSUME SortInv, pc = "sort", ready # {}
    PROVE  /\ FirstOf(ready) \in Nodes \ Popped
           /\ Links(Nodes \ Popped, FirstOf(ready)) = {}
  <1>1. ready \in SUBSET Nat /\ ready \subseteq Nodes
    BY CodegenAssumption DEF SortInv, TypeOK, Nodes
  <1>2. \E n \in ready : \A m \in ready : n <= m
    BY <1>1, Least
  <1>3. FirstOf(ready) \in ready
    BY <1>2 DEF FirstOf
  <1>4. FirstOf(ready) \in Nodes \ Popped /\ indegree[FirstOf(ready)] = 0
    BY <1>3 DEF SortInv
  <1>5. Cardinality(Links(Nodes \ Popped, FirstOf(ready))) = 0
    BY <1>4 DEF SortInv
  <1> QED
    BY <1>4, <1>5, NoLinks DEF SortInv, TypeOK

\* A pop leaves the counts of the smaller graph, and frees what it leaves without links.
LEMMA PopSorts ==
    ASSUME SortInv, Pop
    PROVE  SortInv'
  <1> DEFINE n == FirstOf(ready)
             rest == Nodes \ Popped
             left == [m \in Nodes |-> indegree[m] - Cardinality(Links({n}, m))]
  <1>1. /\ pc = "sort" /\ ready # {} /\ order' = Append(order, n) /\ indegree' = left
        /\ ready' = (ready \ {n}) \cup {m \in Nodes : Links({n}, m) # {} /\ left[m] = 0}
        /\ UNCHANGED <<style, taskId, edges, pc, at, scope, made, wired>>
    BY DEF Pop, Freed, document, running
  <1>2. TypeOK /\ edges \in Seq(Edge) /\ order \in Seq(Nodes)
    BY DEF SortInv, TypeOK
  <1>3. n \in rest /\ Links(rest, n) = {}
    BY <1>1, NextNode
  <1>4. DOMAIN order = 1 .. Len(order) /\ Len(order) \in Nat /\ \A k \in DOMAIN order : order[k] \in Nodes
    BY <1>2, LenProperties, ElementOfSeq
  <1> HIDE DEF n
  <1>5. /\ order' \in Seq(Nodes) /\ Len(order') = Len(order) + 1
        /\ \A k \in DOMAIN order : order'[k] = order[k]
        /\ order'[Len(order) + 1] = n
        /\ DOMAIN order' = 1 .. Len(order) + 1
    BY <1>1, <1>2, <1>3, <1>4, AppendProperties, LenProperties
  <1>6. Popped' = Popped \cup {n} /\ Nodes \ Popped' = rest \ {n}
    <2>1. Popped' = {order'[k] : k \in 1 .. Len(order) + 1}
      BY <1>5 DEF Popped
    <2>2. Popped' \subseteq Popped \cup {n}
      BY <2>1, <1>4, <1>5 DEF Popped
    <2>3. Popped \cup {n} \subseteq Popped'
      BY <2>1, <1>4, <1>5 DEF Popped
    <2> QED
      BY <2>2, <2>3
  <1>7. \A m \in Nodes : left[m] = Cardinality(Links(rest \ {n}, m)) /\ left[m] \in Nat
    <2> TAKE m \in Nodes
    <2>1. indegree[m] = Cardinality(Links(rest, m))
      BY <1>1 DEF SortInv
    <2>2. left[m] = Cardinality(Links(rest, m)) - Cardinality(Links({n}, m))
      BY <2>1
    <2> HIDE DEF left, rest
    <2> QED
      BY <1>2, <1>3, <2>2, LinksWithout
  <1>8. ready' = {m \in rest \ {n} : left[m] = 0}
    <2>1. \A m \in rest \ {n} : m \in ready => left[m] = 0
      <3> SUFFICES ASSUME NEW m \in rest \ {n}, m \in ready PROVE left[m] = 0
        OBVIOUS
      <3>1. Links(rest, m) = {}
        BY <1>1, <1>2, NoLinks DEF SortInv
      <3>2. Links(rest \ {n}, m) = {}
        BY <3>1 DEF Links
      <3> QED
        BY <1>2, <1>7, <3>2, NoLinks
    <2>2. \A m \in rest \ {n} : left[m] = 0 /\ m \notin ready => Links({n}, m) # {}
      <3> SUFFICES ASSUME NEW m \in rest \ {n}, left[m] = 0, Links({n}, m) = {} PROVE m \in ready
        OBVIOUS
      <3>1. Links(rest \ {n}, m) = Links(rest, m)
        BY DEF Links
      <3>2. indegree[m] = 0
        BY <1>1, <1>7, <3>1 DEF SortInv
      <3> QED
        BY <1>1, <3>2 DEF SortInv
    <2>3. \A m \in Nodes : Links({n}, m) # {} /\ left[m] = 0 => m \in rest \ {n}
      <3> SUFFICES ASSUME NEW m \in Nodes, Links({n}, m) # {}, m \notin rest \ {n} PROVE FALSE
        OBVIOUS
      <3>1. PICK i \in DOMAIN edges : edges[i].source = n /\ edges[i].target = m
        BY DEF Links
      <3>2. CASE m = n
        BY <1>3, <3>1, <3>2 DEF Links
      <3>3. CASE m \in Popped
        <4>1. PICK k \in DOMAIN order : order[k] = m
          BY <3>3 DEF Popped
        <4>2. i \in Links(Nodes, order[k])
          BY <1>3, <3>1, <4>1 DEF Links
        <4>3. PICK j \in 1 .. k - 1 : order[j] = edges[i].source
          BY <4>1, <4>2 DEF SortInv, LinearExtension
        <4>4. n \in Popped
          BY <1>4, <3>1, <4>1, <4>3 DEF Popped
        <4> QED
          BY <1>3, <4>4
      <3> QED
        BY <3>2, <3>3
    <2>4. ready = {m \in rest : indegree[m] = 0}
      BY <1>1 DEF SortInv
    <2>5. ready \subseteq rest /\ rest \subseteq Nodes
      BY <2>4
    <2> HIDE DEF left, rest
    <2> QED
      BY <1>1, <2>1, <2>2, <2>3, <2>5
  <1>9. TypeOK'
    <2>1. indegree' \in [Nodes -> Nat]
      BY <1>1, <1>7
    <2>2. ready' \subseteq Nodes
      BY <1>8
    <2> QED
      BY <1>1, <1>2, <1>5, <2>1, <2>2 DEF TypeOK
  <1>10. Once'
    <2>1. \A k \in DOMAIN order : order[k] # n
      BY <1>3 DEF Popped
    <2> QED
      BY <1>4, <1>5, <2>1 DEF SortInv, Once
  <1>11. LinearExtension'
    <2> SUFFICES ASSUME NEW k \in 1 .. Len(order) + 1, NEW i \in Links(Nodes, order'[k])
                 PROVE  \E j \in 1 .. k - 1 : order'[j] = edges[i].source
      BY <1>1, <1>5 DEF LinearExtension, Links
    <2>1. CASE k \in DOMAIN order
      <3>1. PICK j \in 1 .. k - 1 : order[j] = edges[i].source
        BY <1>5, <2>1 DEF SortInv, LinearExtension
      <3> QED
        BY <1>4, <1>5, <2>1, <3>1
    <2>2. CASE k = Len(order) + 1
      <3>1. i \in Links(Nodes, n) /\ i \notin Links(rest, n)
        BY <1>3, <1>5, <2>2
      <3>2. edges[i].source \in Popped
        BY <3>1 DEF Links
      <3>3. PICK j \in DOMAIN order : order[j] = edges[i].source
        BY <3>2 DEF Popped
      <3> QED
        BY <1>4, <1>5, <2>2, <3>3
    <2> QED
      BY <1>4, <2>1, <2>2
  <1>12. Distinct' /\ \A m \in Nodes : indegree'[m] = Cardinality(Links(Nodes \ Popped, m)')
    <2>1. Distinct'
      BY <1>1 DEF SortInv, Distinct
    <2>2. \A m \in Nodes : Links(Nodes \ Popped, m)' = Links(rest \ {n}, m)
      BY <1>1, <1>6 DEF Links
    <2> QED
      BY <1>1, <1>7, <2>1, <2>2
  <1>13. ready' = {m \in Nodes \ Popped' : indegree'[m] = 0}
    BY <1>1, <1>6, <1>8
  <1> QED
    BY <1>1, <1>9, <1>10, <1>11, <1>12, <1>13 DEF SortInv, Ordered, Sections

\* When nothing is ready, what is left is a set in which every node has a predecessor.
LEMMA SortedSorts ==
    ASSUME SortInv, Sorted
    PROVE  SortInv'
  <1>1. /\ pc = "sort" /\ ready = {} /\ pc' = IF Len(order) # NodeCount THEN "cycle" ELSE "define"
        /\ UNCHANGED <<style, taskId, edges, indegree, ready, order, at, scope, made, wired>>
    BY DEF Sorted, document, sorting, running
  <1>2. TypeOK /\ edges \in Seq(Edge) /\ order \in Seq(Nodes) /\ Once
    BY DEF SortInv, TypeOK
  <1>3. TypeOK'
    BY <1>1, <1>2 DEF TypeOK, Sections
  <1>4. (Once /\ LinearExtension)' /\ Popped' = Popped
    BY <1>1 DEF SortInv, Once, LinearExtension, Links, Popped
  <1>5. CASE Len(order) # NodeCount
    <2> DEFINE rest == Nodes \ Popped
    <2>1. rest # {}
      <3>1. Popped \subseteq Nodes
        BY <1>2, LenProperties, ElementOfSeq DEF Popped
      <3> QED
        BY <1>2, <1>5, <3>1, PlacedAll
    <2>2. \A n \in rest : Links(rest, n) # {}
      <3> SUFFICES ASSUME NEW n \in rest, Links(rest, n) = {} PROVE FALSE
        OBVIOUS
      <3>1. indegree[n] = 0
        BY <1>1, <1>2, NoLinks DEF SortInv
      <3> QED
        BY <1>1, <3>1 DEF SortInv
    <2>3. Cyclic
      <3> HIDE DEF rest
      <3>1. rest \in SUBSET Nodes
        BY DEF rest
      <3> QED
        BY <2>1, <2>2, <3>1 DEF Cyclic
    <2>4. Cyclic' <=> Cyclic
      BY <1>1 DEF Cyclic, Links
    <2> QED
      BY <1>1, <1>3, <1>4, <1>5, <2>3, <2>4 DEF SortInv, Ordered, Sections
  <1>6. CASE Len(order) = NodeCount
    <2>1. Popped = Nodes
      BY <1>2, <1>6, PlacedAll
    <2>2. Distinct'
      BY <1>1 DEF SortInv, Distinct
    <2> QED
      BY <1>1, <1>3, <1>4, <1>6, <2>1, <2>2 DEF SortInv
  <1> QED
    BY <1>5, <1>6

\* An order in which no node comes before a predecessor leaves no room for a cycle.
LEMMA OrderedIsAcyclic ==
    ASSUME order \in Seq(Nodes), Popped = Nodes, LinearExtension
    PROVE  ~Cyclic
  <1> SUFFICES ASSUME NEW S \in SUBSET Nodes, S # {}, \A n \in S : Links(S, n) # {}
               PROVE  FALSE
    BY DEF Cyclic
  <1>1. DOMAIN order = 1 .. Len(order) /\ Len(order) \in Nat
    BY LenProperties
  <1> DEFINE places == {k \in DOMAIN order : order[k] \in S}
  <1>2. places \in SUBSET Nat /\ places # {}
    BY <1>1 DEF Popped
  <1> HIDE DEF places
  <1>3. PICK k \in places : \A j \in places : k <= j
    BY <1>2, Least
  <1>4. k \in DOMAIN order /\ order[k] \in S
    BY DEF places
  <1>5. PICK i \in DOMAIN edges : edges[i].source \in S /\ edges[i].target = order[k]
    BY <1>4 DEF Links
  <1>6. i \in Links(Nodes, order[k])
    BY <1>5 DEF Links
  <1>7. PICK j \in 1 .. k - 1 : order[j] = edges[i].source
    BY <1>4, <1>6 DEF LinearExtension
  <1>8. j \in places
    BY <1>1, <1>4, <1>5, <1>7 DEF places
  <1> QED
    BY <1>1, <1>3, <1>4, <1>7, <1>8

-----------------------------------------------------------------------------
(* The body.  The steps of Render leave the sort's result alone. *)

LEMMA RenderKeepsOrder ==
    ASSUME SortInv, TypeOK', Render
    PROVE  SortInv'
  <1>1. /\ pc \in Sections /\ pc' \in Sections \cup {"imported", "broken"}
        /\ UNCHANGED <<style, taskId, edges, order>>
    BY DEF Render, Section, Define, Call, NoCall, Wire, NoWire, document, sorting, Sections
  <1>2. (Once /\ LinearExtension /\ Distinct)' /\ Popped' = Nodes
    BY <1>1 DEF SortInv, Once, LinearExtension, Links, Popped, Ordered, Distinct
  <1> QED
    BY <1>1, <1>2 DEF SortInv, Sections, Ordered

LEMMA BodyNamesBound ==
    ASSUME TypeOK, NEW n \in Nodes
    PROVE  /\ taskId[n] \in BodyNames /\ Handle(n) \in BodyNames
           /\ Called(n) => Instance[taskId[n]] \in BodyNames
  BY DEF TypeOK, BodyNames, Handle, Called

LEMMA RenderTypes ==
    ASSUME SortInv, Render
    PROVE  TypeOK'
  <1>1. /\ TypeOK /\ order \in Seq(Nodes) /\ edges \in Seq(Edge) /\ at \in Nat
    BY DEF SortInv, TypeOK
  <1>2. \A k \in DOMAIN order : order[k] \in Nodes
    BY <1>1, LenProperties, ElementOfSeq
  <1>3. CASE Define
    <2> DEFINE n == order[at]
    <2>1. n \in Nodes
      BY <1>2, <1>3 DEF Define
    <2> HIDE DEF n
    <2>2. Function(n) \in Binding /\ Task(n) \in Binding
      BY <2>1 DEF Function, Task, Binding
    <2>3. taskId[n] \in BodyNames
      BY <1>1, <2>1, BodyNamesBound
    <2>4. /\ scope' = [scope EXCEPT ![taskId[n]] = IF Called(n) THEN Function(n) ELSE Task(n)]
          /\ made' = (IF Called(n) THEN made ELSE made \cup {n}) /\ at' = at + 1
          /\ UNCHANGED <<style, taskId, edges, pc, indegree, ready, order, wired>>
      BY <1>3 DEF Define, n, document, sorting
    <2>5. scope' \in [BodyNames -> Binding]
      BY <1>1, <2>2, <2>3, <2>4 DEF TypeOK
    <2> QED
      BY <1>1, <2>1, <2>4, <2>5 DEF TypeOK
  <1>4. CASE Call
    <2> DEFINE n == order[at]
               callee == scope[taskId[n]]
    <2>1. n \in Nodes /\ Called(n)
      BY <1>2, <1>4 DEF Call
    <2> HIDE DEF n
    <2>2. taskId[n] \in BodyNames /\ Instance[taskId[n]] \in BodyNames
      BY <1>1, <2>1, BodyNamesBound
    <2>3. callee \in Binding
      BY <1>1, <2>2 DEF TypeOK
    <2>4. CASE callee.kind = "function"
      <3>1. callee.node \in Nodes /\ Task(callee.node) \in Binding
        BY <2>3, <2>4 DEF Binding, Task
      <3>2. /\ scope' = [scope EXCEPT ![Instance[taskId[n]]] = Task(callee.node)]
            /\ made' = made \cup {callee.node} /\ at' = at + 1
            /\ UNCHANGED <<style, taskId, edges, pc, indegree, ready, order, wired>>
        BY <1>4, <2>4 DEF Call, n, document, sorting
      <3> HIDE DEF callee
      <3>3. scope' \in [BodyNames -> Binding]
        BY <1>1, <2>2, <3>1, <3>2 DEF TypeOK
      <3> QED
        BY <1>1, <3>1, <3>2, <3>3 DEF TypeOK
    <2>5. CASE callee.kind # "function"
      <3>1. pc' = "broken" /\ UNCHANGED <<style, taskId, edges, indegree, ready, order, wired, at, scope, made>>
        BY <1>4, <2>5 DEF Call, n, document, sorting
      <3> QED
        BY <1>1, <3>1 DEF TypeOK
    <2> QED
      BY <2>4, <2>5
  <1>5. CASE Wire
    <2> DEFINE e == edges[at]
               from == scope[Handle(e.source)]
               to == scope[Handle(e.target)]
    <2>1. e.source \in Nodes /\ e.target \in Nodes
      BY <1>5 DEF Wire, Known
    <2> HIDE DEF e
    <2>2. from \in Binding /\ to \in Binding
      BY <1>1, <2>1, BodyNamesBound DEF TypeOK
    <2>3. CASE from.kind = "task" /\ to.kind = "task"
      <3>1. from.node \in Nodes /\ to.node \in Nodes
        BY <2>2, <2>3 DEF Binding
      <3>2. /\ wired' = wired \cup {<<from.node, to.node>>} /\ at' = at + 1
            /\ UNCHANGED <<style, taskId, edges, pc, indegree, ready, order, scope, made>>
        BY <1>5, <2>3 DEF Wire, e, document, sorting
      <3> HIDE DEF from, to
      <3> QED
        BY <1>1, <3>1, <3>2 DEF TypeOK
    <2>4. CASE ~(from.kind = "task" /\ to.kind = "task")
      <3>1. pc' = "broken" /\ UNCHANGED <<style, taskId, edges, indegree, ready, order, wired, at, scope, made>>
        BY <1>5, <2>4 DEF Wire, e, document, sorting
      <3> QED
        BY <1>1, <3>1 DEF TypeOK
    <2> QED
      BY <2>3, <2>4
  <1>6. CASE NoCall \/ NoWire
    BY <1>1, <1>6 DEF TypeOK, NoCall, NoWire, document, sorting
  <1>7. CASE \/ Section("define", Len(order), "call") \/ Section("call", Len(order), "wire")
             \/ Section("wire", Len(edges), "imported")
    BY <1>1, <1>7 DEF TypeOK, Section, Sections, document, sorting
  <1> QED
    BY <1>3, <1>4, <1>5, <1>6, <1>7 DEF Render

-----------------------------------------------------------------------------
LEMMA StepSorts ==
    ASSUME SortInv, [Next]_vars
    PROVE  SortInv'
  <1>1. CASE Validate
    BY <1>1, ValidateSorts
  <1>2. CASE Pop
    BY <1>2, PopSorts
  <1>3. CASE Sorted
    BY <1>3, SortedSorts
  <1>4. CASE Render
    BY <1>4, RenderTypes, RenderKeepsOrder
  <1>5. CASE UNCHANGED vars
    <2>1. UNCHANGED <<style, taskId, edges, pc, indegree, ready, order, at, scope, made, wired>>
      BY <1>5 DEF vars, document, sorting, running
    <2>2. (TypeOK /\ Once /\ LinearExtension)' /\ Popped' = Popped
      BY <2>1 DEF SortInv, TypeOK, Once, LinearExtension, Links, Popped
    <2>3. Cyclic' = Cyclic /\ Distinct' = Distinct /\ Ordered' = Ordered
      BY <2>1 DEF Cyclic, Links, Distinct, Ordered
    <2>4. \A n \in Nodes : Links(Nodes \ Popped, n)' = Links(Nodes \ Popped, n)
      BY <2>1, <2>2 DEF Links
    <2> QED
      BY <2>1, <2>2, <2>3, <2>4 DEF SortInv
  <1> QED
    BY <1>1, <1>2, <1>3, <1>4, <1>5 DEF Next

\* SortInv holds throughout: the counts of _topo_order are those of the graph that is left.
THEOREM SortInvHolds == Spec => []SortInv
  BY InitSorted, StepSorts, PTL DEF Spec

\* The state of the sort and of the body is well-typed: no count goes below zero, no
\* node is placed that is not in the document.
THEOREM CodegenTypes == Spec => []TypeOK
  <1>1. SortInv => TypeOK
    BY DEF SortInv
  <1> QED
    BY <1>1, SortInvHolds, PTL

\* _topo_order places no node before one of its predecessors, whatever the graph.
THEOREM OrderRespectsEdges == Spec => []LinearExtension
  <1>1. SortInv => LinearExtension
    BY DEF SortInv
  <1> QED
    BY <1>1, SortInvHolds, PTL

\* _topo_order answers None exactly for the cyclic graphs, and otherwise with all nodes.
THEOREM CyclesAreRefused == Spec => []CycleRefused
  <1>1. SortInv => CycleRefused
    <2> SUFFICES ASSUME SortInv PROVE CycleRefused
      OBVIOUS
    <2>1. Ordered => ~Cyclic
      BY OrderedIsAcyclic DEF SortInv, TypeOK
    <2>2. Ordered => \A n \in Nodes : \E k \in DOMAIN order : order[k] = n
      BY DEF SortInv, Popped
    <2> QED
      BY <2>1, <2>2 DEF CycleRefused, SortInv
  <1> QED
    BY <1>1, SortInvHolds, PTL

-----------------------------------------------------------------------------
(* The dependencies.  Where no made name is a chosen one, each section leaves *)
(* the names of the earlier ones alone.                                       *)

Defined(n) == IF Called(n) THEN Function(n) ELSE Task(n)

\* The nodes whose line of the section has been run.
Passed == {order[j] : j \in {i \in DOMAIN order : i < at}}

Linked == {<<edges[i].source, edges[i].target>> : i \in {j \in DOMAIN edges : j < at /\ Known(edges[j])}}

RunInv ==
    NamesApart =>
        /\ pc # "broken"
        /\ pc \in {"validate", "sort"} => at = 1 /\ made = {} /\ wired = {}
        /\ pc = "define" =>
              /\ \A n \in Passed : scope[taskId[n]] = Defined(n)
              /\ made = {n \in Passed : ~Called(n)} /\ wired = {}
        /\ pc = "call" =>
              /\ \A n \in Nodes : scope[taskId[n]] = Defined(n)
              /\ \A n \in Passed : scope[Handle(n)] = Task(n)
              /\ made = {n \in Nodes : ~Called(n)} \cup Passed /\ wired = {}
        /\ pc = "wire" =>
              /\ \A n \in Nodes : scope[Handle(n)] = Task(n)
              /\ made = Nodes /\ wired = Linked
        /\ pc = "imported" => made = Nodes /\ wired = Drawn

\* Before the first line nothing has been run, after the last everything.
LEMMA PassedAtEnds ==
    ASSUME SortInv
    PROVE  /\ at = 1 => Passed = {} /\ Linked = {}
           /\ Ordered /\ at > Len(order) => Passed = Nodes
           /\ at > Len(edges) => Linked = Drawn
  <1>1. /\ DOMAIN order = 1 .. Len(order) /\ Len(order) \in Nat
        /\ DOMAIN edges = 1 .. Len(edges) /\ Len(edges) \in Nat /\ at \in Nat
    BY LenProperties DEF SortInv, TypeOK
  <1>2. at = 1 => Passed = {} /\ Linked = {}
    BY <1>1 DEF Passed, Linked
  <1>3. Ordered /\ at > Len(order) => Passed = Nodes
    <2> SUFFICES ASSUME Ordered, at > Len(order) PROVE Passed = Nodes
      OBVIOUS
    <2>1. {i \in DOMAIN order : i < at} = DOMAIN order
      BY <1>1
    <2> QED
      BY <2>1 DEF SortInv, Passed, Popped
  <1>4. at > Len(edges) => Linked = Drawn
    <2> SUFFICES ASSUME at > Len(edges) PROVE Linked = Drawn
      OBVIOUS
    <2>1. {j \in DOMAIN edges : j < at /\ Known(edges[j])} = {j \in DOMAIN edges : Known(edges[j])}
      BY <1>1
    <2> QED
      BY <2>1 DEF Linked, Drawn
  <1> QED
    BY <1>2, <1>3, <1>4

\* Running the line of order[at] adds that node.
LEMMA PassedGrows ==
    ASSUME SortInv, at \in DOMAIN order, at' = at + 1, UNCHANGED order
    PROVE  Passed' = Passed \cup {order[at]}
  <1>1. DOMAIN order = 1 .. Len(order) /\ Len(order) \in Nat /\ at \in Nat
    BY LenProperties DEF SortInv, TypeOK
  <1>2. {i \in DOMAIN order : i < at + 1} = {i \in DOMAIN order : i < at} \cup {at}
    BY <1>1
  <1>3. Passed' = {order[j] : j \in {i \in DOMAIN order : i < at + 1}}
    BY DEF Passed
  <1> QED
    BY <1>2, <1>3 DEF Passed

\* Handles are distinct when names are apart, and a handle names nobody else's definition.
LEMMA HandlesApart ==
    ASSUME SortInv, Distinct, NamesApart, NEW m \in Nodes, NEW n \in Nodes
    PROVE  /\ Handle(m) = Handle(n) => m = n
           /\ Called(m) => Handle(m) # taskId[n]
  BY CodegenAssumption DEF SortInv, TypeOK, Distinct, NamesApart, Handle, Called

LEMMA DefineRuns ==
    ASSUME SortInv, RunInv, NamesApart, Define
    PROVE  RunInv'
  <1> DEFINE n == order[at]
  <1>1. /\ pc = "define" /\ at \in DOMAIN order /\ at' = at + 1
        /\ scope' = [scope EXCEPT ![taskId[n]] = Defined(n)]
        /\ made' = (IF Called(n) THEN made ELSE made \cup {n})
        /\ UNCHANGED <<style, taskId, edges, pc, order, wired>>
    BY DEF Define, Defined, document, sorting
  <1>2. n \in Nodes /\ Passed \subseteq Nodes /\ TypeOK /\ Distinct
    BY <1>1, LenProperties, ElementOfSeq DEF SortInv, TypeOK, Passed, Ordered, Sections
  <1>3. Passed' = Passed \cup {n}
    BY <1>1, PassedGrows
  <1> HIDE DEF n
  <1>4. \A m \in Nodes : (Called(m)' <=> Called(m)) /\ (Defined(m) = Defined(m)')
    BY <1>1 DEF Called, Defined, Function, Task
  <1>5. \A m \in Passed : scope[taskId[m]] = Defined(m)
    BY <1>1 DEF RunInv
  <1>6. \A m \in Passed' : scope'[taskId'[m]] = Defined(m)'
    <2> SUFFICES ASSUME NEW m \in Passed' PROVE scope'[taskId[m]] = Defined(m)
      BY <1>1, <1>2, <1>3, <1>4
    <2>1. taskId[m] \in BodyNames /\ scope \in [BodyNames -> Binding] /\ m \in Nodes
      BY <1>2, <1>3, BodyNamesBound DEF TypeOK
    <2>2. CASE m = n
      BY <1>1, <2>1, <2>2
    <2>3. CASE m # n
      <3>1. taskId[m] # taskId[n]
        BY <1>2, <2>1, <2>3 DEF Distinct
      <3> QED
        BY <1>1, <1>3, <1>5, <2>1, <2>3, <3>1
    <2> QED
      BY <2>2, <2>3
  <1>7. made' = {m \in Passed' : ~Called(m)'} /\ wired' = {}
    <2>1. made = {m \in Passed : ~Called(m)} /\ wired = {}
      BY <1>1 DEF RunInv
    <2> QED
      BY <1>1, <1>2, <1>3, <1>4, <2>1
  <1> QED
    BY <1>1, <1>6, <1>7 DEF RunInv

LEMMA CallRuns ==
    ASSUME SortInv, RunInv, NamesApart, Call
    PROVE  RunInv'
  <1> DEFINE n == order[at]
  <1>1. /\ pc = "call" /\ at \in DOMAIN order /\ Called(n)
        /\ UNCHANGED <<style, taskId, edges, order, wired>>
    BY DEF Call, document, sorting
  <1>2. n \in Nodes /\ Passed \subseteq Nodes /\ TypeOK /\ Distinct
    BY <1>1, LenProperties, ElementOfSeq DEF SortInv, TypeOK, Passed, Ordered, Sections
  <1>3. /\ \A m \in Nodes : scope[taskId[m]] = Defined(m)
        /\ \A m \in Passed : scope[Handle(m)] = Task(m)
        /\ made = {m \in Nodes : ~Called(m)} \cup Passed /\ wired = {}
    BY <1>1 DEF RunInv
  <1>4. scope[taskId[n]] = Function(n)
    BY <1>1, <1>2, <1>3 DEF Defined
  <1>5. /\ scope' = [scope EXCEPT ![Handle(n)] = Task(n)] /\ made' = made \cup {n}
        /\ at' = at + 1 /\ pc' = pc
    BY <1>1, <1>4 DEF Call, Function, Handle
  <1>6. Passed' = Passed \cup {n}
    BY <1>1, <1>5, PassedGrows
  <1> HIDE DEF n
  <1>7. \A m \in Nodes : (Called(m)' <=> Called(m)) /\ (Defined(m) = Defined(m)') /\ (Handle(m)' = Handle(m))
    BY <1>1 DEF Called, Defined, Function, Task, Handle
  <1>8. ASSUME NEW m \in Nodes
        PROVE  scope'[taskId[m]] = Defined(m)
    <2>1. taskId[m] \in BodyNames /\ Handle(n) # taskId[m]
      BY <1>1, <1>2, BodyNamesBound, HandlesApart
    <2> QED
      BY <1>2, <1>3, <1>5, <2>1 DEF TypeOK
  <1>9. ASSUME NEW m \in Passed \cup {n}
        PROVE  scope'[Handle(m)] = Task(m)
    <2>1. m \in Nodes /\ Handle(m) \in BodyNames /\ (m # n => Handle(m) # Handle(n))
      BY <1>2, BodyNamesBound, HandlesApart
    <2> QED
      BY <1>2, <1>3, <1>5, <2>1 DEF TypeOK
  <1>10. made' = {m \in Nodes : ~Called(m)'} \cup Passed' /\ wired' = {}
    BY <1>1, <1>3, <1>5, <1>6, <1>7
  <1>11. /\ \A m \in Nodes : scope'[taskId'[m]] = Defined(m)'
         /\ \A m \in Passed' : scope'[Handle(m)'] = Task(m)
    BY <1>1, <1>2, <1>6, <1>7, <1>8, <1>9
  <1> QED
    BY <1>1, <1>5, <1>10, <1>11 DEF RunInv, Task

LEMMA NoCallRuns ==
    ASSUME SortInv, RunInv, NamesApart, NoCall
    PROVE  RunInv'
  <1> DEFINE n == order[at]
  <1>1. /\ pc = "call" /\ at \in DOMAIN order /\ ~Called(n) /\ at' = at + 1
        /\ UNCHANGED <<style, taskId, edges, pc, order, scope, made, wired>>
    BY DEF NoCall, document, sorting
  <1>2. n \in Nodes
    BY <1>1, LenProperties, ElementOfSeq DEF SortInv, TypeOK
  <1>3. Passed' = Passed \cup {n}
    BY <1>1, PassedGrows
  <1> HIDE DEF n
  <1>4. /\ \A m \in Nodes : scope[taskId[m]] = Defined(m)
        /\ \A m \in Passed : scope[Handle(m)] = Task(m)
        /\ made = {m \in Nodes : ~Called(m)} \cup Passed /\ wired = {}
    BY <1>1 DEF RunInv
  <1>5. Handle(n) = taskId[n] /\ Defined(n) = Task(n)
    BY <1>1 DEF Handle, Defined
  <1>6. \A m \in Passed \cup {n} : scope[Handle(m)] = Task(m)
    BY <1>2, <1>4, <1>5
  <1>7. /\ \A m \in Nodes : (Called(m)' <=> Called(m)) /\ (Defined(m)' = Defined(m))
        /\ \A m \in Passed \cup {n} : Handle(m)' = Handle(m)
    BY <1>1 DEF Called, Defined, Function, Task, Handle
  <1>8. made' = {m \in Nodes : ~Called(m)'} \cup Passed' /\ wired' = {}
    BY <1>1, <1>2, <1>3, <1>4, <1>7
  <1>9. /\ \A m \in Nodes : scope'[taskId'[m]] = Defined(m)'
        /\ \A m \in Passed' : scope'[Handle(m)'] = Task(m)
    BY <1>1, <1>3, <1>4, <1>6, <1>7
  <1> QED
    BY <1>1, <1>8, <1>9 DEF RunInv, Task

LEMMA WireRuns ==
    ASSUME SortInv, RunInv, NamesApart, Wire \/ NoWire
    PROVE  RunInv'
  <1>1. /\ pc = "wire" /\ at \in DOMAIN edges
        /\ UNCHANGED <<style, taskId, edges, order, scope, made>>
    BY DEF Wire, NoWire, document, sorting
  <1>2. DOMAIN edges = 1 .. Len(edges) /\ Len(edges) \in Nat /\ at \in Nat
    BY LenProperties DEF SortInv, TypeOK
  <1>3. (\A m \in Nodes : scope[Handle(m)] = Task(m)) /\ made = Nodes /\ wired = Linked
    BY <1>1 DEF RunInv
  <1>4. \A m \in Nodes : scope'[Handle(m)'] = Task(m)
    BY <1>1, <1>3 DEF Handle, Called
  <1>5. at' = at + 1 /\ pc' = pc /\ wired' = Linked'
    <2>1. {j \in DOMAIN edges : j < at + 1 /\ Known(edges[j])}
             = {j \in DOMAIN edges : j < at /\ Known(edges[j])}
                  \cup {j \in {at} : Known(edges[j])}
      BY <1>1, <1>2
    <2>2. CASE Wire
      <3>1. Known(edges[at]) /\ edges[at].source \in Nodes /\ edges[at].target \in Nodes
        BY <2>2 DEF Wire, Known
      <3>2. /\ at' = at + 1 /\ pc' = pc
            /\ wired' = wired \cup {<<edges[at].source, edges[at].target>>}
        <4>1. /\ scope[Handle(edges[at].source)] = [kind |-> "task", node |-> edges[at].source]
              /\ scope[Handle(edges[at].target)] = [kind |-> "task", node |-> edges[at].target]
          BY <1>3, <3>1 DEF Task
        <4> QED
          BY <2>2, <4>1 DEF Wire
      <3>3. Linked' = {<<edges[i].source, edges[i].target>> :
                          i \in {j \in DOMAIN edges : j < at + 1 /\ Known(edges[j])}}
        BY <1>1, <3>2 DEF Linked, Known
      <3> QED
        BY <1>3, <2>1, <3>1, <3>2, <3>3 DEF Linked
    <2>3. CASE NoWire
      <3>1. ~Known(edges[at]) /\ at' = at + 1 /\ pc' = pc /\ wired' = wired
        BY <2>3 DEF NoWire
      <3>2. Linked' = {<<edges[i].source, edges[i].target>> :
                          i \in {j \in DOMAIN edges : j < at + 1 /\ Known(edges[j])}}
        BY <1>1, <3>1 DEF Linked, Known
      <3> QED
        BY <1>3, <2>1, <3>1, <3>2 DEF Linked
    <2> QED
      BY <2>2, <2>3
  <1> QED
    BY <1>1, <1>3, <1>4, <1>5 DEF RunInv, Task

LEMMA SectionRuns ==
    ASSUME SortInv, RunInv, NamesApart, SortInv',
           \/ Section("define", Len(order), "call") \/ Section("call", Len(order), "wire")
           \/ Section("wire", Len(edges), "imported")
    PROVE  RunInv'
  <1>1. /\ at' = 1 /\ UNCHANGED <<style, taskId, edges, order, scope, made, wired>>
        /\ \/ pc = "define" /\ pc' = "call" /\ at > Len(order)
           \/ pc = "call" /\ pc' = "wire" /\ at > Len(order)
           \/ pc = "wire" /\ pc' = "imported" /\ at > Len(edges)
    BY DEF Section, document, sorting
  <1>2. Ordered
    BY <1>1 DEF Ordered, Sections
  <1>3. Passed' = {} /\ Linked' = {} /\ (pc # "wire" => Passed = Nodes) /\ (pc = "wire" => Linked = Drawn)
    <2>1. Passed' = {} /\ Linked' = {}
      <3>1. \A j \in DOMAIN order' : ~(j < 1)
        BY LenProperties DEF SortInv, TypeOK
      <3>2. \A j \in DOMAIN edges' : ~(j < 1)
        BY LenProperties DEF SortInv, TypeOK
      <3> QED
        BY <1>1, <3>1, <3>2 DEF Passed, Linked
    <2> QED
      BY <1>1, <1>2, <2>1, PassedAtEnds
  <1>4. /\ \A m \in Nodes : (Called(m)' <=> Called(m)) /\ (Defined(m)' = Defined(m)) /\ (Handle(m)' = Handle(m))
        /\ Drawn' = Drawn
    BY <1>1 DEF Called, Defined, Function, Task, Handle, Drawn, Known
  <1>5. CASE pc = "define"
    BY <1>1, <1>3, <1>4, <1>5 DEF RunInv
  <1>6. CASE pc = "call"
    BY <1>1, <1>3, <1>4, <1>6 DEF RunInv, Task
  <1>7. CASE pc = "wire"
    BY <1>1, <1>3, <1>4, <1>7 DEF RunInv
  <1> QED
    BY <1>1, <1>5, <1>6, <1>7

LEMMA StepRuns ==
    ASSUME SortInv, RunInv, SortInv', [Next]_vars
    PROVE  RunInv'
  <1> SUFFICES ASSUME NamesApart' PROVE RunInv'
    BY DEF RunInv
  <1>1. NamesApart
    BY DEF Next, vars, document, NamesApart, Handle, Called, Validate, Pop, Sorted, Render,
           Section, Define, Call, NoCall, Wire, NoWire
  <1>2. CASE Validate
    <2>1. /\ pc = "validate" /\ pc' \in {"sort", "refused"} /\ UNCHANGED <<at, made, wired>>
      BY <1>2 DEF Validate, running
    <2> QED
      BY <1>1, <2>1 DEF RunInv
  <1>3. CASE Pop
    <2>1. pc = "sort" /\ UNCHANGED <<pc, at, made, wired>>
      BY <1>3 DEF Pop, running
    <2> QED
      BY <1>1, <2>1 DEF RunInv
  <1>4. CASE Sorted
    <2>1. /\ pc = "sort" /\ pc' \in {"cycle", "define"}
          /\ UNCHANGED <<style, taskId, order, at, made, wired>>
      BY <1>4 DEF Sorted, running, sorting, document
    <2>2. at = 1 /\ made = {} /\ wired = {}
      BY <1>1, <2>1 DEF RunInv
    <2>3. Passed' = {}
      <3>1. \A j \in DOMAIN order : ~(j < 1)
        BY LenProperties DEF SortInv, TypeOK
      <3> QED
        BY <2>1, <2>2, <3>1 DEF Passed
    <2> QED
      BY <2>1, <2>2, <2>3 DEF RunInv
  <1>5. CASE Define
    BY <1>1, <1>5, DefineRuns
  <1>6. CASE Call
    BY <1>1, <1>6, CallRuns
  <1>7. CASE NoCall
    BY <1>1, <1>7, NoCallRuns
  <1>8. CASE Wire \/ NoWire
    BY <1>1, <1>8, WireRuns
  <1>9. CASE \/ Section("define", Len(order), "call") \/ Section("call", Len(order), "wire")
             \/ Section("wire", Len(edges), "imported")
    BY <1>1, <1>9, SectionRuns
  <1>10. CASE UNCHANGED vars
    <2>1. UNCHANGED <<style, taskId, edges, pc, order, at, scope, made, wired>>
      BY <1>10 DEF vars, document, sorting, running
    <2> QED
      BY <1>1, <2>1 DEF RunInv, Passed, Linked, Known, Drawn, Defined, Function, Task, Handle, Called
  <1> QED
    BY <1>2, <1>3, <1>4, <1>5, <1>6, <1>7, <1>8, <1>9, <1>10 DEF Next, Render

\* Where no made name is a chosen one, Airflow gets the drawn tasks and dependencies: in
\* both styles, for every graph. The clash is the only way in which they can differ.
THEOREM WiringIsDrawing == Spec => []WiredAsDrawn
  <1>1. Init => RunInv
    BY DEF Init, RunInv
  <1>2. RunInv => WiredAsDrawn
    BY DEF RunInv, WiredAsDrawn, SameTaskGraph
  <1>3. SortInv /\ RunInv /\ [Next]_vars => RunInv'
    BY StepSorts, StepRuns
  <1> QED
    BY <1>1, <1>2, <1>3, InitSorted, StepSorts, PTL DEF Spec

-----------------------------------------------------------------------------
(* Ties. *)

Placed(k) == {order[j] : j \in 1 .. k - 1}

\* Each place went to the first of the nodes that could have had it.
Greedy ==
    \A k \in DOMAIN order : \A m \in Nodes \ Placed(k) :
        Links(Nodes \ Placed(k), m) = {} => order[k] <= m

LEMMA PopIsGreedy ==
    ASSUME SortInv, Greedy, Pop
    PROVE  Greedy'
  <1> DEFINE n == FirstOf(ready)
  <1>1. /\ pc = "sort" /\ ready # {} /\ order' = Append(order, n)
        /\ edges' = edges
    BY DEF Pop, document
  <1>2. TypeOK /\ edges \in Seq(Edge) /\ order \in Seq(Nodes)
    BY DEF SortInv, TypeOK
  <1>3. n \in Nodes
    BY <1>1, NextNode
  <1>4. \A m \in ready : n <= m
    <2>1. ready \in SUBSET Nat
      BY CodegenAssumption DEF SortInv, TypeOK, Nodes
    <2>2. \E l \in ready : \A m \in ready : l <= m
      BY <1>1, <2>1, Least
    <2> QED
      BY <2>2 DEF FirstOf
  <1> HIDE DEF n
  <1>5. /\ DOMAIN order = 1 .. Len(order) /\ Len(order) \in Nat
        /\ DOMAIN order' = 1 .. Len(order) + 1
        /\ \A k \in DOMAIN order : order'[k] = order[k]
        /\ order'[Len(order) + 1] = n
    BY <1>1, <1>2, <1>3, AppendProperties, LenProperties
  <1>6. ASSUME NEW k \in 1 .. Len(order) + 1
        PROVE  {order'[j] : j \in 1 .. k - 1} = Placed(k)
    <2>1. \A j \in 1 .. k - 1 : order'[j] = order[j]
      BY <1>5
    <2> QED
      BY <2>1 DEF Placed
  <1>7. Placed(Len(order) + 1) = Popped
    BY <1>5 DEF Placed, Popped
  <1>8. SUFFICES ASSUME NEW k \in 1 .. Len(order) + 1, NEW m \in Nodes \ Placed(k),
                        Links(Nodes \ Placed(k), m) = {}
                 PROVE  order'[k] <= m
    <2>1. \A k \in DOMAIN order' : Placed(k)' = Placed(k)
      BY <1>5, <1>6 DEF Placed
    <2>2. \A k \in DOMAIN order' : \A m \in Nodes :
             Links(Nodes \ Placed(k), m)' = Links(Nodes \ Placed(k), m)
      BY <1>1, <2>1 DEF Links
    <2> QED
      BY <1>5, <2>1, <2>2 DEF Greedy
  <1>9. CASE k \in DOMAIN order
    BY <1>5, <1>8, <1>9 DEF Greedy
  <1>10. CASE k = Len(order) + 1
    <2>1. m \in Nodes \ Popped /\ Links(Nodes \ Popped, m) = {}
      BY <1>7, <1>8, <1>10
    <2>2. indegree[m] = 0
      BY <1>1, <1>2, <2>1, NoLinks DEF SortInv
    <2>3. m \in ready
      BY <1>1, <2>1, <2>2 DEF SortInv
    <2> QED
      BY <1>4, <1>5, <1>10, <2>3
  <1> QED
    BY <1>5, <1>8, <1>9, <1>10

LEMMA StepIsGreedy ==
    ASSUME SortInv, Greedy, [Next]_vars
    PROVE  Greedy'
  <1>1. CASE Pop
    BY <1>1, PopIsGreedy
  <1>2. CASE ~Pop
    <2>1. UNCHANGED <<order, edges>>
      BY <1>2 DEF Next, vars, document, sorting, Validate, Sorted, Render,
                  Section, Define, Call, NoCall, Wire, NoWire
    <2> QED
      BY <2>1 DEF Greedy, Placed, Links
  <1> QED
    BY <1>1, <1>2

\* Where a topological order first differs from a greedy one, the greedy one is smaller.
LEMMA GreedyIsFirst ==
    ASSUME SortInv, Greedy, Ordered, NEW p \in [Nodes -> Nodes], p # order,
           \A n \in Nodes : \E k \in Nodes : p[k] = n,
           \A i \in DOMAIN edges : \A j, k \in Nodes :
               p[j] = edges[i].target /\ p[k] = edges[i].source => ~(j <= k)
    PROVE  Before(order, p)
  <1>1. order \in Seq(Nodes) /\ Len(order) = NodeCount
    BY PlacedAll DEF SortInv, TypeOK
  <1>2. order \in [Nodes -> Nodes] /\ Nodes \in SUBSET Nat /\ Nodes = 1 .. NodeCount
    <2>1. order \in [1 .. Len(order) -> Nodes]
      BY <1>1, LenProperties
    <2>2. Nodes = 1 .. NodeCount
      BY DEF Nodes
    <2>3. Nodes \in SUBSET Nat
      BY <2>2, CodegenAssumption
    <2> QED
      BY <1>1, <2>1, <2>2, <2>3
  <1>3. \A j, k \in Nodes : p[j] = p[k] => j = k
    <2>1. IsFiniteSet(Nodes)
      BY CodegenAssumption, FS_Interval DEF Nodes
    <2>2. p \in Surjection(Nodes, Nodes)
      BY DEF Surjection
    <2>3. p \in Injection(Nodes, Nodes)
      BY <2>1, <2>2, FS_SurjSameCardinalityImpliesInj
    <2> QED
      BY <2>3 DEF Injection, IsInjective
  <1> DEFINE differ == {k \in Nodes : order[k] # p[k]}
  <1>4. differ # {}
    <2>1. order = [k \in Nodes |-> order[k]] /\ p = [k \in Nodes |-> p[k]]
      BY <1>2
    <2> QED
      BY <2>1
  <1>5. differ \in SUBSET Nat
    BY <1>2
  <1>6. PICK k \in differ : \A j \in differ : k <= j
    BY <1>4, <1>5, Least
  <1>7. \A j \in 1 .. k - 1 : j \in Nodes /\ p[j] = order[j] /\ j < k
    <2> SUFFICES ASSUME NEW j \in 1 .. k - 1 PROVE j \in Nodes /\ p[j] = order[j] /\ j < k
      OBVIOUS
    <2>1. k \in Nat /\ k <= NodeCount
      BY <1>2, <1>6, CodegenAssumption
    <2>2. j \in Nodes /\ j < k
      BY <1>2, <2>1, CodegenAssumption
    <2> QED
      BY <1>2, <1>6, <2>1, <2>2
  <1>8. p[k] \in Nodes \ Placed(k)
    <2> SUFFICES ASSUME NEW j \in 1 .. k - 1, p[k] = order[j] PROVE FALSE
      BY <1>6 DEF Placed
    <2> QED
      BY <1>2, <1>3, <1>6, <1>7
  <1>9. Links(Nodes \ Placed(k), p[k]) = {}
    <2> SUFFICES ASSUME NEW i \in DOMAIN edges, edges[i].source \in Nodes \ Placed(k),
                        edges[i].target = p[k]
                 PROVE  FALSE
      BY DEF Links
    <2>1. PICK l \in Nodes : p[l] = edges[i].source
      OBVIOUS
    <2>2. ~(k <= l)
      BY <1>6, <2>1
    <2>3. l \in 1 .. k - 1
      BY <1>2, <1>6, <2>2 DEF Nodes
    <2> QED
      BY <1>7, <2>1, <2>3 DEF Placed
  <1>10. order[k] <= p[k]
    BY <1>1, <1>2, <1>6, <1>8, <1>9 DEF Greedy
  <1>11. order[k] \in Nat /\ p[k] \in Nat /\ order[k] # p[k]
    BY <1>2, <1>6
  <1> QED
    BY <1>6, <1>7, <1>10, <1>11 DEF Before

\* Of all topological orders of the document, _topo_order returns the first.
THEOREM TiesByDocument == Spec => []StableOrder
  <1>1. Init => Greedy
    BY DEF Init, Greedy
  <1>2. SortInv /\ Greedy => StableOrder
    <2> SUFFICES ASSUME SortInv, Greedy, Ordered, NEW p \in [Nodes -> Nodes]
                 PROVE  \/ p = order
                        \/ \E n \in Nodes : \A k \in Nodes : p[k] # n
                        \/ \E i \in DOMAIN edges : \E j, k \in Nodes :
                              j <= k /\ p[j] = edges[i].target /\ p[k] = edges[i].source
                        \/ Before(order, p)
      BY DEF StableOrder, Ordered, Sections
    <2> QED
      BY GreedyIsFirst
  <1>3. SortInv /\ Greedy /\ [Next]_vars => Greedy'
    BY StepIsGreedy
  <1> QED
    BY <1>1, <1>2, <1>3, InitSorted, StepSorts, PTL DEF Spec
=============================================================================
