----------------------------- MODULE GridEngine -----------------------------
(***************************************************************************)
(* The structural grid engine of Verolas Origin: workflow/origin/grid.py   *)
(* with the catalogues of workflow/origin/sections.py.  Pure operators.    *)
(*                                                                         *)
(* The code computes with floats.  Here a footprint is in decimetres, a    *)
(* bay in centimetres, a load in hundredths of kN/m2, a moment or an axial *)
(* force in tenths of kNm or kN, each rounded down.  A section is its rank *)
(* in its catalogue.  The members the code lays out in loops over i and j  *)
(* are kept as groups of equal members: interior, edge and corner ones.    *)
(***************************************************************************)
EXTENDS Integers, Sequences, FiniteSets

LOCAL INSTANCE FiniteSetsExt

Larger(a, b) == IF a > b THEN a ELSE b
Smaller(a, b) == IF a < b THEN a ELSE b

\* Python's round: to the nearest integer, a tie to the even one.
RoundHalfEven(a, b) ==
    LET q == a \div b
        r == a % b
    IN IF 2 * r < b \/ (2 * r = b /\ q % 2 = 0) THEN q ELSE q + 1

-----------------------------------------------------------------------------
(* The catalogues, lightest section first: design moments of the beams and *)
(* design axial resistances of the columns.                                *)

RcSections == [beam |-> <<4200, 6800, 9500>>, column |-> <<14500, 26000, 41000>>]
CltSections == [beam |-> <<720, 1300, 2300>>,  column |-> <<9000, 17000, 27000>>]

\* What the loader makes of the 90 IPE, HEA, HEB and HEM profiles: sorted by
\* mass per metre, at S355, the axial resistance with flexural buckling.
EuSteelMoments ==
    <<82, 140, 216, 314, 440, 295, 591, 424, 370, 783, 616, 1013, 586, 870,
      1301, 871, 1153, 1718, 837, 2231, 1525, 1257, 2855, 2018, 1709, 1245,
      3617, 2643, 2281, 1753, 4640, 3265, 2936, 2395, 3948, 6042, 3738, 4910,
      3136, 7789, 4555, 5779, 5446, 4029, 6568, 9894, 7412, 6635, 5037,
      12468, 9095, 7629, 8548, 11417, 9525, 14019, 11474, 7515, 16408, 14136,
      8960, 18992, 17093, 10529, 21783, 19848, 24964, 22809, 30881, 25986,
      14477, 29561, 15744, 16749, 17711, 38376, 19777, 36317, 22475, 25184,
      45511, 28162, 31141, 44659, 34282, 37417, 52753, 44339, 51262, 58824>>

EuSteelAxials ==
    <<170, 314, 540, 853, 1273, 2315, 1842, 3703, 2876, 2558, 5689, 3565,
      5069, 8122, 4775, 7948, 10723, 6716, 6694, 9124, 13751, 11579, 11460,
      17505, 15608, 10797, 14421, 21825, 20191, 15875, 17549, 25502, 24965,
      21795, 29332, 21470, 30285, 34650, 28034, 26232, 34952, 38296, 39781,
      34801, 41051, 31426, 43857, 46061, 41731, 37912, 48664, 49830, 52704,
      54384, 55620, 60217, 60687, 58237, 64301, 66697, 65923, 68456, 72837,
      73691, 72772, 77213, 77947, 81717, 84681, 86315, 94997, 91821, 97653,
      98675, 99375, 94152, 101093, 99168, 103678, 105895, 100950, 108521,
      110761, 109252, 113386, 115567, 116655, 120668, 125157, 130092>>

SystemIds == {"rc_flat_slab", "steel_mrf", "clt_hybrid"}

\* sections_for: the candidates of a system and a role, lightest first.
SectionsFor(system, role) ==
    CASE system = "rc_flat_slab" -> RcSections[role]
      [] system = "clt_hybrid"   -> CltSections[role]
      [] system = "steel_mrf"    -> IF role = "beam" THEN EuSteelMoments ELSE EuSteelAxials

Passing(catalogue, demand) == {s \in DOMAIN catalogue : catalogue[s] >= demand}

\* smallest_passing_beam and smallest_passing_column, or heaviest.
SmallestOrHeaviest(catalogue, demand) ==
    LET passing == Passing(catalogue, demand) IN
    IF passing = {} THEN Len(catalogue)
    ELSE CHOOSE s \in passing : \A t \in passing : s <= t

\* _pick_beam and _pick_column: the lightest section that passes, one rank
\* above it, or the first from there on that is used to at most 65 percent.
Pick(catalogue, demand, strategy) ==
    LET smallest == SmallestOrHeaviest(catalogue, demand)
        roomy    == {s \in smallest..Len(catalogue) : 100 * demand <= 65 * catalogue[s]}
    IN CASE strategy = "efficient" -> smallest
         [] strategy = "middle"    -> Smaller(smallest + 1, Len(catalogue))
         [] strategy = "robust"    -> IF roomy = {} THEN Len(catalogue)
                                      ELSE CHOOSE s \in roomy : \A t \in roomy : s <= t

-----------------------------------------------------------------------------
Variants == <<[variant |-> "optimized", system |-> "rc_flat_slab",
               strategy |-> "efficient", target |-> 100],
              [variant |-> "balanced", system |-> "steel_mrf",
               strategy |-> "middle", target |-> 75],
              [variant |-> "conservative", system |-> "clt_hybrid",
               strategy |-> "robust", target |-> 55]>>

SlabSelfWeight == [rc_flat_slab |-> 65, steel_mrf |-> 30, clt_hybrid |-> 10]

MaxBay == 120
MinBay == 35

\* Faulty: the nearest count, without the loops that keep the bay in bounds.
ColsForTargetUnbounded(span, target) == Larger(1, RoundHalfEven(span, target))

\* _cols_for_target: the two loops stop at the first count whose bay is at most
\* MaxBay, and at the first below it whose bay is at least MinBay.
ColsForTarget(span, target) ==
    LET nearest  == Larger(1, RoundHalfEven(span, target))
        narrowed == Larger(nearest, (span + MaxBay - 1) \div MaxBay)
    IN Larger(1, Smaller(narrowed, span \div MinBay))

\* Geometry as the engine uses it: the footprint of the first occupied floor
\* (taken to be the same on every floor), how many floors are not the roof, and
\* whether there is a roof floor.
Occupied(geometry) ==
    IF geometry.storeys = 0 /\ geometry.roof THEN 1 ELSE geometry.storeys

HasFloors(geometry) == geometry.storeys > 0 \/ geometry.roof

\* Loads in tenths of kN/m2: the defaults of the code.
DefaultLoads == [dead |-> 45, live |-> 20]

FactoredLoad(system, loads) ==
    (135 * (loads.dead + SlabSelfWeight[system])) \div 10 + 15 * loads.live

BeamMoment(load, tributary, bay) ==
    (((load * tributary) \div 100) * ((bay * bay) \div 100)) \div 8000

ColumnForce(load, area, floors) == (load * area * floors) \div 1000

\* _design_members: a beam at the edge of the grid carries half a bay, an edge
\* column half of a bay's area and a corner column a quarter.
DemandGroups(cols, bay, floors, load) ==
    LET Beams(axis, along, across, n, rows) ==
            {[role |-> "beam", place |-> <<axis, "edge">>, count |-> floors * n * 2,
              demand |-> BeamMoment(load, across \div 2, along)],
             [role |-> "beam", place |-> <<axis, "interior">>,
              count |-> floors * n * (rows - 1),
              demand |-> BeamMoment(load, across, along)]}
        Columns(place, share, n) ==
            {[role |-> "column", place |-> <<"grid", place>>, count |-> n,
              demand |-> ColumnForce(load, ((bay.x * bay.y) \div 100) \div share, floors)]}
    IN {g \in Beams("ew", bay.x, bay.y, cols.x, cols.y)
              \cup Beams("ns", bay.y, bay.x, cols.y, cols.x)
              \cup Columns("corner", 4, 4)
              \cup Columns("edge", 2, 2 * (cols.x - 1) + 2 * (cols.y - 1))
              \cup Columns("interior", 1, (cols.x - 1) * (cols.y - 1)) : g.count > 0}

DesignMembers(variant, cols, bay, floors, load) ==
    {[role |-> g.role, place |-> g.place, count |-> g.count, demand |-> g.demand,
      section |-> Pick(SectionsFor(variant.system, g.role), g.demand, variant.strategy)] :
     g \in DemandGroups(cols, bay, floors, load)}

Capacity(system, member) == SectionsFor(system, member.role)[member.section]

\* A member's D/C ratio rounded to three places, in thousandths.
Dcr(system, member) == RoundHalfEven(1000 * member.demand, Capacity(system, member))

\* Faulty: the worst member is looked for among the columns alone.
WorstColumnDcr(system, members) ==
    LET all == {Dcr(system, m) : m \in {n \in members : n.role = "column"}} IN
    CHOOSE d \in all : \A e \in all : e <= d

\* _worst_case_from_members
WorstDcr(system, members) ==
    LET all == {Dcr(system, m) : m \in members} IN CHOOSE d \in all : \A e \in all : e <= d

\* How many members a set of groups, or of rows of a schedule, stands for.
Number(S) == MapThenSumSet(LAMBDA g : g.count, S)

\* _dcr_from_members: the share of the members in each band, in thousandths; the
\* bands are cut on the ratio before it is rounded.
DcrDistribution(system, members) ==
    LET Under(m, percent) == 100 * m.demand < percent * Capacity(system, m)
        Share(S)  == RoundHalfEven(1000 * Number(S), Number(members))
        fits == {m \in members : m.demand <= Capacity(system, m)}
    IN [under_60   |-> Share({m \in fits : Under(m, 60)}),
        under_80   |-> Share({m \in fits : ~Under(m, 60) /\ Under(m, 80)}),
        within_100 |-> Share({m \in fits : ~Under(m, 80)}),
        over_100   |-> Share(members \ fits)]

\* _schedule_from_members: one row per section and role.
Schedule(members) ==
    {[role |-> r[1], section |-> r[2],
      count |-> Number({m \in members : m.role = r[1] /\ m.section = r[2]})] :
     r \in {<<m.role, m.section>> : m \in members}}

\* _constructibility_from_schedule
UniqueSizes(schedule, role) == Cardinality({row \in schedule : row.role = role})

\* _caveats_from_geometry, one tag per sentence the code would write.
Caveats(system, bay, geometry, members) ==
    LET worst == WorstDcr(system, members)
        slabs == (geometry.storeys + (IF geometry.roof THEN 1 ELSE 0))
                 * geometry.width * geometry.depth
        tags  == {t \in {"long_span", "lateral", "punching", "acoustic", "moisture",
                         "overload", "headroom"} :
                    \/ t = "long_span" /\ Larger(bay.x, bay.y) > 850
                    \/ t = "lateral" /\ Occupied(geometry) >= 6
                    \/ t = "punching" /\ slabs > 150000 /\ system = "rc_flat_slab"
                    \/ t = "acoustic" /\ system = "steel_mrf"
                    \/ t = "moisture" /\ system = "clt_hybrid"
                    \/ t = "overload" /\ worst > 1000
                    \/ t = "headroom" /\ worst > 900 /\ worst <= 1000}
    IN IF tags = {} THEN {"no_red_flags"} ELSE tags

\* _build_option.
BuildOption(variant, geometry, loads) ==
    LET cols == [x |-> ColsForTarget(geometry.width, variant.target),
                 y |-> ColsForTarget(geometry.depth, variant.target)]
        bay  == [x |-> (10 * geometry.width) \div cols.x,
                 y |-> (10 * geometry.depth) \div cols.y]
        members == DesignMembers(variant, cols, bay, Occupied(geometry),
                                 FactoredLoad(variant.system, loads))
    IN [variant |-> variant.variant, system |-> variant.system, cols |-> cols, bay |-> bay,
        members |-> members,
        schedule |-> Schedule(members),
        unique_sizes |-> UniqueSizes(Schedule(members), "beam")
                         + UniqueSizes(Schedule(members), "column"),
        dcr |-> DcrDistribution(variant.system, members),
        caveats |-> Caveats(variant.system, bay, geometry, members)]

\* Faulty: an option that repeats the bay grid of the one before is left out.
GenerateOptionsApart(geometry, loads) ==
    LET all == [v \in DOMAIN Variants |-> BuildOption(Variants[v], geometry, loads)] IN
    IF ~HasFloors(geometry) THEN <<>>
    ELSE SelectSeq(all, LAMBDA o : \A v \in {2, 3} : o = all[v] => o.cols # all[v - 1].cols)

\* generate_options: no option without a floor.
GenerateOptions(geometry, loads) ==
    IF ~HasFloors(geometry) THEN <<>>
    ELSE [v \in DOMAIN Variants |-> BuildOption(Variants[v], geometry, loads)]
=============================================================================
