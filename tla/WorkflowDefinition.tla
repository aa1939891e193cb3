------------------------- MODULE WorkflowDefinition -------------------------
(***************************************************************************)
(* The graph of a workflow: what validate_workflow admits, and what a run  *)
(* makes of it.  A definition is a record of its nodes, their kinds, the   *)
(* source of each condition and the edges.  A set of nodes and of edges    *)
(* has no duplicates, so that DuplicateNode and DuplicateEdge have nothing *)
(* to find, and the limits on a node's parameters are left out.            *)
(***************************************************************************)
EXTENDS Naturals, FiniteSets

CONSTANT Drafted   \* the definitions that the editor may hand over

VARIABLE draft     \* the one it has handed over, a set of at most one

OutEdges(d, n) == {e \in d.edges : e.from = n}
InEdges(d, n)  == {e \in d.edges : e.to = n}
Starts(d)      == {n \in d.nodes : d.kind[n] = "start"}
TheStart(d)    == CHOOSE n \in Starts(d) : TRUE

Targets(edges) == {e.to : e \in edges}
Branches(edges, branch) == {e \in edges : e.branch = branch}

EdgesKnown(d) == \A e \in d.edges : e.from \in d.nodes /\ e.to \in d.nodes /\ e.from # e.to

StartEdges(d, n) ==
    /\ InEdges(d, n) = {} /\ Cardinality(OutEdges(d, n)) = 1
    /\ \A e \in OutEdges(d, n) : e.branch = "success"

ConditionBranches(d, n) ==
    LET out == OutEdges(d, n)
    IN  /\ Cardinality(out) = 2 /\ Cardinality(Targets(out)) = 2
        /\ Branches(out, "true") # {} /\ Branches(out, "false") # {}
        /\ d.source[n] \in d.nodes \ {n}

OrdinaryEdges(d, n) ==
    /\ Cardinality(OutEdges(d, n)) <= 1
    /\ \A e \in OutEdges(d, n) : e.branch = "success"

NodeEdges(d, n) ==
    CASE d.kind[n] = "start"     -> StartEdges(d, n)
      [] d.kind[n] = "stop"      -> OutEdges(d, n) = {}
      [] d.kind[n] = "condition" -> ConditionBranches(d, n)
      [] OTHER                   -> OrdinaryEdges(d, n)

\* Mutant: only a cycle that nothing leaves is one.
HasClosedCycle(d) == \A n \in d.nodes : OutEdges(d, n) # {}

\* Kahn's algorithm: nodes without an incoming edge are taken away, round by
\* round; there is a cycle if some are left.
HasCycle(d) ==
    LET left[k \in Nat] ==
            IF k = 0 THEN d.nodes
            ELSE {n \in left[k - 1] : \E e \in InEdges(d, n) : e.from \in left[k - 1]}
    IN  left[Cardinality(d.nodes)] # {}

ReachableFrom(d, start) ==
    LET reached[k \in Nat] ==
            IF k = 0 THEN {start}
            ELSE reached[k - 1] \cup {e.to : e \in {x \in d.edges : x.from \in reached[k - 1]}}
    IN  reached[Cardinality(d.nodes)]

HasTerminal(d) ==
    \E n \in ReachableFrom(d, TheStart(d)) :
        OutEdges(d, n) = {} /\ d.kind[n] \notin {"start", "condition"}

Valid(d) ==
    /\ Cardinality(Starts(d)) = 1
    /\ EdgesKnown(d)
    /\ \A n \in d.nodes : NodeEdges(d, n)
    /\ ~HasCycle(d)
    /\ ReachableFrom(d, TheStart(d)) = d.nodes
    /\ HasTerminal(d)

-----------------------------------------------------------------------------
(* What a run does with the graph                                           *)

\* next_node, where a condition has taken the branch it is given here
NextNodes(d, n, taken) ==
    Targets(Branches(OutEdges(d, n), IF d.kind[n] = "condition" THEN taken[n] ELSE "success"))

\* The nodes of a run in order, as a function of the step; {} after the last one.
Walk(d, taken) ==
    LET at[k \in Nat] ==
            IF k = 0 THEN {TheStart(d)}
            ELSE UNION {NextNodes(d, n, taken) : n \in at[k - 1]}
    IN  [k \in 0..Cardinality(d.nodes) |-> at[k]]

Taken(d) == [{n \in d.nodes : d.kind[n] = "condition"} -> {"true", "false"}]

\* Whatever the conditions decide: one node at a time, the last one has no way
\* on and is not a condition, and the run ends; no node is there for nothing.
Runs(d) ==
    LET last == Cardinality(d.nodes)
    IN  /\ \A taken \in Taken(d) :
               LET walk == Walk(d, taken)
               IN  /\ walk[last] = {}
                   /\ \A k \in 0..last : Cardinality(walk[k]) <= 1
                   /\ \A k \in 1..last : \A n \in walk[k - 1] :
                          walk[k] = {} => OutEdges(d, n) = {} /\ d.kind[n] # "condition"
        /\ \A n \in d.nodes : \E taken \in Taken(d) : \E k \in 0..last : n \in Walk(d, taken)[k]

-----------------------------------------------------------------------------
(* Properties                                                               *)

\* Every definition that is admitted can be run: WorkflowService never meets a
\* node twice, an ambiguous edge or a condition without the branch it takes.
AdmittedRuns == \A d \in draft : Valid(d) => Runs(d)

=============================================================================
