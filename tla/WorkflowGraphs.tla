--------------------------- MODULE WorkflowGraphs ---------------------------
(***************************************************************************)
(* The workflow definitions of the small instances.                        *)
(***************************************************************************)
EXTENDS WorkflowExecutor, TLC

\* The ways the engine treats a node, one kind and tool for each.
Plain   == <<"automated", "unset">>
Unknown == <<"automated", "unregistered">>
Tool    == <<"automated", "registered">>
Manual  == <<"manual", "unset">>
Gate    == <<"gate.approve", "unset">>
Send    == <<"submission", "unset">>

Roles == {Plain, Unknown, Tool, Manual, Gate, Send}

DefinitionOf(edges, role) ==
    [edges |-> edges, kind |-> [n \in Node |-> role[n][1]],
                      tool |-> [n \in Node |-> role[n][2]]]

\* Every acyclic graph over Node with every assignment of roles.
AcyclicGraphs == {edges \in SUBSET (Node \X Node) : Acyclic([edges |-> edges])}

AllDefinitions ==
    {DefinitionOf(edges, role) : edges \in AcyclicGraphs, role \in [Node -> Roles]}

\* Three nodes in a row, two that are joined, or one that forks.
Chain(x, y, z) == {<<x, y>>, <<y, z>>}
Join(x, y, z)  == {<<x, z>>, <<y, z>>}
Fork(x, y, z)  == {<<x, y>>, <<x, z>>}

\* Two people work in parallel, one of them at a gate, and a person, a tool or
\* a placeholder takes over from both.
JoinDefinitions(x, y, z) ==
    {DefinitionOf(Join(x, y, z), (x :> Gate) @@ (y :> second) @@ (z :> third))
        : second \in {Manual, Gate}, third \in {Manual, Tool, Plain}}

\* The three shapes with every assignment of roles.
ShapeDefinitions(x, y, z) ==
    {DefinitionOf(edges, role)
        : edges \in {Chain(x, y, z), Join(x, y, z), Fork(x, y, z)},
          role \in [Node -> Roles]}
=============================================================================
