---------------------------- MODULE TemplateRunMC ----------------------------
(***************************************************************************)
(* The shipped templates and two forks of Origin, with footprints from a   *)
(* single bay to a hall no catalogue section spans.                        *)
(***************************************************************************)
EXTENDS TemplateRun, TLC

MCTemplates == ShippedTemplateSet \cup {RewiredOrigin, RewiredWithLoads}

LOCAL Plan(width, depth, storeys, roof) ==
    [width |-> width, depth |-> depth, storeys |-> storeys, roof |-> roof]

\* Decimetres.  12.5 m and 15 m are rounding ties, 20 m and 24 m the bounds of a
\* bay; the last three have no occupied floor, one, and no floor at all.
MCGeometries == {Plan(w, 200, s, TRUE) : w \in {105, 125, 240, 411}, s \in {1, 6}}
                \cup {Plan(30, 35, 1, TRUE)}
                \cup {Plan(225, 150, 0, TRUE), Plan(225, 150, 2, FALSE), Plan(225, 150, 0, FALSE)}

MCLoads == {[dead |-> 60, live |-> 50]}

MCExported == {Plan(225, 150, 2, FALSE)}

MCSymmetry == Permutations(Exporter)
=============================================================================
