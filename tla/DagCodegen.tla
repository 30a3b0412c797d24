----------------------------- MODULE DagCodegen -----------------------------
(***************************************************************************)
(* What codegen.py makes of a drawn graph: the refusal of duplicate names, *)
(* Kahn's sort, the three sections of the generated body (definitions,     *)
(* instantiations, wiring) and, since the dependencies of the tasks are    *)
(* what Python computes when Airflow runs those lines, that run too.       *)
(*                                                                         *)
(* A node is its position in the document; node ids are distinct, as the   *)
(* editor makes them.  A line is what it does to the names of the body;    *)
(* the text of a template stays out.                                       *)
(***************************************************************************)
EXTENDS Naturals, Sequences, FiniteSets

CONSTANTS
    NodeCount,      \* nodes of the document
    MaxEdges,       \* bound of the model: edges of the document
    Names,          \* task_ids an author may choose, none of them a name the file imports
    NativeNames,    \* those given to a native (@task) node: its kind goes with its name
    Instance        \* the name that holds the task a native node's function makes

ASSUME CodegenAssumption ==
    /\ NodeCount \in Nat /\ MaxEdges \in Nat
    /\ NativeNames \subseteq Names
    /\ \A name \in NativeNames : Instance[name] # name
    /\ \A name, other \in NativeNames : Instance[name] = Instance[other] => name = other

Nodes == 1 .. NodeCount

\* An edge may name a node that was deleted.
Ghost == 0

Edge == [source: Nodes \cup {Ghost}, target: Nodes \cup {Ghost}]

VARIABLES
    style, taskId, edges,      \* the document
    pc,
    indegree, ready, order,    \* _topo_order
    at,                        \* the line, within its section, that Python runs next
    scope,                     \* what each name of the body stands for
    made, wired                \* the tasks and dependencies Airflow gets

document == <<style, taskId, edges>>
sorting == <<indegree, ready, order>>
running == <<at, scope, made, wired>>
vars == <<document, pc, sorting, running>>

BodyNames == Names \cup {Instance[name] : name \in NativeNames}

\* Nothing, the function of a native node before it is called, or a task.
Unbound == [kind |-> "unbound", node |-> Ghost]
Function(n) == [kind |-> "function", node |-> n]
Task(n) == [kind |-> "task", node |-> n]
Binding == [kind: {"unbound"}, node: {Ghost}] \cup [kind: {"function", "task"}, node: Nodes]

Sections == {"define", "call", "wire"}

TypeOK ==
    /\ style \in {"taskflow", "traditional"}
    /\ taskId \in [Nodes -> Names]
    /\ edges \in Seq(Edge)
    /\ pc \in {"validate", "refused", "sort", "cycle", "imported", "broken"} \cup Sections
    /\ indegree \in [Nodes -> Nat]
    /\ ready \subseteq Nodes
    /\ order \in Seq(Nodes)
    /\ at \in Nat \ {0}
    /\ scope \in [BodyNames -> Binding]
    /\ made \subseteq Nodes
    /\ wired \subseteq Nodes \X Nodes

Init ==
    /\ style \in {"taskflow", "traditional"}
    /\ taskId \in [Nodes -> Names]
    /\ edges \in UNION {[1 .. k -> Edge] : k \in 0 .. MaxEdges}
    /\ pc = "validate"
    /\ indegree = [n \in Nodes |-> 0] /\ ready = {} /\ order = <<>>
    /\ at = 1 /\ scope = [name \in BodyNames |-> Unbound]
    /\ made = {} /\ wired = {}

-----------------------------------------------------------------------------
(* _validate_identifiers and _topo_order. *)

Distinct == \A m, n \in Nodes : taskId[m] = taskId[n] => m = n

\* The edges, each for itself, that lead from a node of S to n.
Links(S, n) == {i \in DOMAIN edges : edges[i].source \in S /\ edges[i].target = n}

\* Mutant: parallel edges count once.
SourcesCounted(n) == Cardinality({m \in Nodes : Links({m}, n) # {}})

Counted(n) == Cardinality(Links(Nodes, n))

Validate ==
    /\ pc = "validate"
    /\ IF Distinct
       THEN /\ pc' = "sort"
            /\ indegree' = [n \in Nodes |-> Counted(n)]
            /\ ready' = {n \in Nodes : Counted(n) = 0}
       ELSE pc' = "refused" /\ UNCHANGED <<indegree, ready>>
    /\ UNCHANGED <<document, order, running>>

\* Mutant: the last of the ready nodes.
LastOf(S) == CHOOSE n \in S : \A m \in S : m <= n

FirstOf(S) == CHOOSE n \in S : \A m \in S : n <= m

\* Mutant: ready as soon as one predecessor is out.
FreedByOne(n, left) == {m \in Nodes : Links({n}, m) # {}}

\* The nodes whose last predecessor was n.
Freed(n, left) == {m \in Nodes : Links({n}, m) # {} /\ left[m] = 0}

Pop ==
    LET n == FirstOf(ready)
        left == [m \in Nodes |-> indegree[m] - Cardinality(Links({n}, m))]
    IN  /\ pc = "sort" /\ ready # {}
        /\ order' = Append(order, n)
        /\ indegree' = left
        /\ ready' = (ready \ {n}) \cup Freed(n, left)
        /\ UNCHANGED <<document, pc, running>>

\* Mutant: what could not be ordered is dropped.
SortedAnyway ==
    /\ pc = "sort" /\ ready = {}
    /\ pc' = "define"
    /\ UNCHANGED <<document, sorting, running>>

Sorted ==
    /\ pc = "sort" /\ ready = {}
    /\ pc' = IF Len(order) # NodeCount THEN "cycle" ELSE "define"
    /\ UNCHANGED <<document, sorting, running>>

-----------------------------------------------------------------------------
(* _render writes a line for each node into the definitions, a line for each *)
(* native node into the instantiations and a line for each edge into the     *)
(* wiring; Python runs them from first to last.  A constructor, or the call  *)
(* of a function, makes a task; nothing but a function can be called.        *)

\* A node that is defined as a function, to be called for its task.
Called(n) == style = "taskflow" /\ taskId[n] \in NativeNames

\* Mutant: the function stands for its task.
HandleIsTaskId(n) == taskId[n]

\* The name under which the wiring finds the task of n.
Handle(n) == IF Called(n) THEN Instance[taskId[n]] ELSE taskId[n]

\* The section ends.
Section(from, last, to) ==
    /\ pc = from /\ at > last
    /\ pc' = to /\ at' = 1
    /\ UNCHANGED <<document, sorting, scope, made, wired>>

Define ==
    LET n == order[at]
    IN  /\ pc = "define" /\ at \in DOMAIN order
        /\ scope' = [scope EXCEPT ![taskId[n]] = IF Called(n) THEN Function(n) ELSE Task(n)]
        /\ made' = IF Called(n) THEN made ELSE made \cup {n}
        /\ at' = at + 1
        /\ UNCHANGED <<document, pc, sorting, wired>>

Call ==
    LET n == order[at]
        callee == scope[taskId[n]]
    IN  /\ pc = "call" /\ at \in DOMAIN order /\ Called(n)
        /\ IF callee.kind = "function"
           THEN /\ scope' = [scope EXCEPT ![Instance[taskId[n]]] = Task(callee.node)]
                /\ made' = made \cup {callee.node}
                /\ at' = at + 1 /\ UNCHANGED pc
           ELSE pc' = "broken" /\ UNCHANGED <<at, scope, made>>
        /\ UNCHANGED <<document, sorting, wired>>

NoCall ==
    /\ pc = "call" /\ at \in DOMAIN order /\ ~Called(order[at])
    /\ at' = at + 1
    /\ UNCHANGED <<document, pc, sorting, scope, made, wired>>

Known(e) == e.source \in Nodes /\ e.target \in Nodes

\* The code sorts these lines; they commute.
Wire ==
    LET e == edges[at]
        from == scope[Handle(e.source)]
        to == scope[Handle(e.target)]
    IN  /\ pc = "wire" /\ at \in DOMAIN edges /\ Known(e)
        /\ IF from.kind = "task" /\ to.kind = "task"
           THEN wired' = wired \cup {<<from.node, to.node>>} /\ at' = at + 1 /\ UNCHANGED pc
           ELSE pc' = "broken" /\ UNCHANGED <<at, wired>>
        /\ UNCHANGED <<document, sorting, scope, made>>

NoWire ==
    /\ pc = "wire" /\ at \in DOMAIN edges /\ ~Known(edges[at])
    /\ at' = at + 1
    /\ UNCHANGED <<document, pc, sorting, scope, made, wired>>

Render ==
    \/ Define \/ Section("define", Len(order), "call")
    \/ Call \/ NoCall \/ Section("call", Len(order), "wire")
    \/ Wire \/ NoWire \/ Section("wire", Len(edges), "imported")

Next == Validate \/ Pop \/ Sorted \/ Render

Spec == Init /\ [][Next]_vars

-----------------------------------------------------------------------------
(* Properties. *)

Ordered == pc \in Sections \cup {"imported", "broken"}

\* Nothing is placed before one of its predecessors: _topo_order returns a
\* topological order, parallel edges, self-loops and dangling edges included.
LinearExtension ==
    \A k \in DOMAIN order : \A i \in Links(Nodes, order[k]) :
        \E j \in 1 .. k - 1 : order[j] = edges[i].source

\* Some nodes each have a predecessor among them.
Cyclic == \E S \in SUBSET Nodes : S # {} /\ \A n \in S : Links(S, n) # {}

\* _topo_order answers None for the cyclic graphs and for no others; what goes on to
\* be rendered has every node.
CycleRefused ==
    /\ pc = "cycle" => Cyclic
    /\ Ordered => ~Cyclic /\ \A n \in Nodes : \E k \in DOMAIN order : order[k] = n

Before(p, q) ==
    \E k \in Nodes : p[k] < q[k] /\ \A j \in 1 .. k - 1 : p[j] = q[j]

\* "Returns nodes in a deterministic topological order ... Ties break by original node
\* order": of all topological orders, the first one.
StableOrder ==
    pc = "define" /\ at = 1 =>
        \A p \in [Nodes -> Nodes] :
            \/ p = order
            \/ \E n \in Nodes : \A k \in Nodes : p[k] # n
            \/ \E i \in DOMAIN edges : \E j, k \in Nodes :
                  j <= k /\ p[j] = edges[i].target /\ p[k] = edges[i].source
            \/ Before(order, p)

Drawn == {<<edges[i].source, edges[i].target>> : i \in {j \in DOMAIN edges : Known(edges[j])}}

\* Airflow gets the drawn tasks with the drawn dependencies, whatever the style: "the
\* same IR must produce the same tasks + dependency edges".
SameTaskGraph ==
    pc \in {"imported", "broken"} => pc = "imported" /\ made = Nodes /\ wired = Drawn

\* No name made for an instance is another node's task_id.
NamesApart == \A m, n \in Nodes : m # n => Handle(m) # taskId[n]

\* A clash of a made name with a chosen one is the only thing that can spoil the graph.
WiredAsDrawn == NamesApart => SameTaskGraph
=============================================================================
