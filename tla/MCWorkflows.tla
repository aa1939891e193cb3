---------------------------- MODULE MCWorkflows ----------------------------
(***************************************************************************)
(* Workflows for TLC.  The run of one: a step, a condition on its result,  *)
(* an upload with a restore point on one branch, and a stop node where the *)
(* branches meet; the graphs of four nodes that are drawn for the          *)
(* validation; and guarded uploads to one path with their rollback, where  *)
(* a retry of an upload and a later upload to the same path make the same  *)
(* sequence of restore points.  A variable that never changes tells the    *)
(* run from its restore points: the rollback of a run asks for its status  *)
(* alone, and WorkflowRestore has the run's own part in it.                *)
(***************************************************************************)
EXTENDS WorkflowRun, WorkflowDefinition, WorkflowRestore, TLC

CONSTANTS start, work, branch, upload, stop, somePath

VARIABLE subject

Nodes == {start, work, branch, upload, stop}
Kinds == start :> "start" @@ work :> "step" @@ branch :> "condition"
           @@ upload :> "guarded" @@ stop :> "stop"
Sources == [n \in Nodes |-> work]
Edges == {[from |-> start,  to |-> work,   branch |-> "success"],
          [from |-> work,   to |-> branch, branch |-> "success"],
          [from |-> branch, to |-> upload, branch |-> "true"],
          [from |-> branch, to |-> stop,   branch |-> "false"],
          [from |-> upload, to |-> stop,   branch |-> "success"]}

\* The run's own graph is one that is admitted.
ASSUME Valid([nodes |-> Node, kind |-> Kind, source |-> Source, edges |-> Edge])

DrawnNodes == {start, work, branch, upload}
To(m, b)   == [to |-> m, branch |-> b]
\* What the editor may give a node that is not the start: a kind and edges
Drawn ==
    {[kind |-> "step", out |-> {}], [kind |-> "stop", out |-> {}]}
    \cup {[kind |-> k, out |-> {To(m, "success")}] : k \in {"step", "stop"}, m \in DrawnNodes}
    \cup {[kind |-> k, out |-> {To(m, "true")}] : k \in {"step", "condition"}, m \in DrawnNodes}
    \cup {[kind |-> "condition", out |-> {To(m, "true"), To(k, "false")}] : m, k \in DrawnNodes}
FromStart == {[kind |-> "start", out |-> ways] :
                 ways \in {{}, {To(work, "success")}, {To(start, "success")}}}
Draft(drawn) ==
    [nodes  |-> DrawnNodes,
     kind   |-> [n \in DrawnNodes |-> drawn[n].kind],
     source |-> [n \in DrawnNodes |-> start],
     edges  |-> UNION {{[from |-> n, to |-> o.to, branch |-> o.branch] : o \in drawn[n].out} :
                           n \in DrawnNodes}]
Drafts == {Draft(start :> s @@ work :> a @@ branch :> b @@ upload :> c) :
              s \in FromStart, a, b, c \in Drawn}

-----------------------------------------------------------------------------
Once == <<somePath>>
Twice == <<somePath, somePath>>
Symmetry == Permutations(Roller)

mcVars == <<vars, draft, restoreVars, subject>>

\* Either the workflow above is run, or a drawn graph is looked at, or the
\* restore points of a run are made and rolled back.
MCInit ==
    /\ Init /\ RestoreInit
    /\ \/ subject = "run" /\ draft = {} /\ original = [p \in Path |-> Before]
       \/ subject = "draft" /\ draft \in {{d} : d \in Drafted} /\ original = [p \in Path |-> Before]
       \/ subject = "restore" /\ draft = {}

OfRun(A) == subject = "run" /\ A /\ UNCHANGED <<draft, restoreVars, subject>>
OfRestore(A) == subject = "restore" /\ A /\ UNCHANGED <<vars, draft, subject>>

MCNext == OfRun(Next) \/ OfRestore(RestoreNext)
MCFairSpec == MCInit /\ [][MCNext]_mcVars /\ \A c \in Caller : WF_mcVars(OfRun(Proceed(c)))
=============================================================================
