---------------------------- MODULE PkgtkProofs ----------------------------
(* Theorems about the tools of pkgtk: what the checks of a ball map prove of  *)
(* the graph, what diff, crosscheck and template add to them, and what lint   *)
(* and escape say of a deck.                                                  *)
EXTENDS Pkgtk, FiniteSetTheorems, SequenceTheorems, TLAPS

-----------------------------------------------------------------------------
(* Induction on numbers, from the order of Nat being well founded: a set that *)
(* holds 0 and with each number the next holds every number.                 *)

LEMMA NatSetInduction ==
    ASSUME NEW S, 0 \in S, \A n \in Nat : n \in S => n + 1 \in S
    PROVE  Nat \subseteq S
<1> DEFINE T == Nat \ S
<1>1. SUFFICES ASSUME T # {} PROVE FALSE
    OBVIOUS
<1>2. PICK x \in T : \A y \in T : ~ (<<y, x>> \in OpToRel(<, Nat))
    BY <1>1, NatLessThanWellFounded, WFMin
<1>3. x \in Nat /\ x # 0
    OBVIOUS
<1>4. x - 1 \in Nat /\ x - 1 < x
    BY <1>3
<1>5. <<x - 1, x>> \in OpToRel(<, Nat)
    BY <1>3, <1>4 DEF OpToRel
<1>6. x - 1 \in S
    BY <1>2, <1>4, <1>5
<1>7. x \in S
    <2>1. (x - 1) + 1 = x
        BY <1>3
    <2> QED BY <1>4, <1>6, <2>1
<1> QED BY <1>7

\* Every non-empty set of numbers has a smallest one.
LEMMA Smallest ==
    ASSUME NEW S \in SUBSET Nat, S # {}
    PROVE  \E x \in S : \A y \in S : x <= y
<1>1. PICK x \in S : \A y \in S : ~ (<<y, x>> \in OpToRel(<, Nat))
    BY NatLessThanWellFounded, WFMin
<1>2. ASSUME NEW y \in S PROVE x <= y
    <2>1. x \in Nat /\ y \in Nat
        OBVIOUS
    <2>2. <<y, x>> \notin OpToRel(<, Nat)
        BY <1>1
    <2>3. ~ (y < x)
        BY <2>1, <2>2 DEF OpToRel
    <2> QED BY <2>1, <2>3
<1> QED BY <1>2

\* Min and Max of a set of indices.
LEMMA MinOfIndices ==
    ASSUME NEW S \in SUBSET Nat, S # {}
    PROVE  Min(S) \in S /\ \A y \in S : Min(S) <= y
BY Smallest DEF Min

LEMMA MaxOfIndices ==
    ASSUME NEW N \in Nat, NEW S \in SUBSET (0..N), S # {}
    PROVE  Max(S) \in S /\ \A y \in S : Max(S) >= y
<1> DEFINE T == {N - x : x \in S}
<1>1. T \in SUBSET Nat /\ T # {}
    <2>1. \A x \in S : N - x \in Nat
        OBVIOUS
    <2>2. PICK x \in S : TRUE
        OBVIOUS
    <2>3. N - x \in T
        OBVIOUS
    <2> QED BY <2>1, <2>3
<1>2. PICK t \in T : \A u \in T : t <= u
    BY <1>1, Smallest
<1>3. PICK x \in S : t = N - x
    BY <1>2
<1>4. ASSUME NEW y \in S PROVE x >= y
    <2>1. N - y \in T /\ x \in Int /\ y \in Int
        OBVIOUS
    <2>2. N - x <= N - y
        BY <1>2, <1>3, <2>1
    <2> QED BY <2>1, <2>2
<1>5. \E z \in S : \A y \in S : z >= y
    BY <1>4
<1> QED BY <1>5 DEF Max

-----------------------------------------------------------------------------
(* A function that is defined along 0..N exists, and has the type of its     *)
(* first value if every step keeps that type.                               *)

Steps(V, N) == [V \X (1..N) -> V]
IsRecursion(f, V, first, N, Step) ==
    /\ f \in [0..N -> V]
    /\ f[0] = first /\ \A k \in 1..N : f[k] = Step[<<f[k - 1], k>>]

LEMMA Recursion ==
    ASSUME NEW V, NEW first \in V, NEW N \in Nat, NEW Step \in Steps(V, N)
    PROVE  \E f : IsRecursion(f, V, first, N, Step)
<1>0. Step \in [V \X (1..N) -> V]
    BY DEF Steps
<1> DEFINE Upto(n) == \E f \in [0..n -> V] :
                /\ f[0] = first
                /\ \A k \in 1..n : f[k] = Step[<<f[k - 1], k>>]
           S == {n \in Nat : n <= N => Upto(n)}
<1>1. 0 \in S
    <2> DEFINE h == [k \in 0..0 |-> first]
    <2>1. h \in [0..0 -> V] /\ h[0] = first
        OBVIOUS
    <2>2. \A k \in 1..0 : h[k] = Step[<<h[k - 1], k>>]
        OBVIOUS
    <2> HIDE DEF h
    <2>3. Upto(0)
        BY <2>1, <2>2
    <2> QED BY <2>3
<1>2. ASSUME NEW n \in Nat, n \in S PROVE n + 1 \in S
    <2>1. SUFFICES ASSUME n + 1 <= N PROVE Upto(n + 1)
        OBVIOUS
    <2>2. PICK f \in [0..n -> V] : f[0] = first /\ \A k \in 1..n : f[k] = Step[<<f[k - 1], k>>]
        BY <1>2, <2>1
    <2> DEFINE h == [k \in 0..(n + 1) |-> IF k = n + 1 THEN Step[<<f[n], n + 1>>] ELSE f[k]]
    <2>3. f[n] \in V /\ n + 1 \in 1..N
        BY <2>1
    <2>4. Step[<<f[n], n + 1>>] \in V
        BY <1>0, <2>3
    <2>5. h \in [0..(n + 1) -> V]
        <3>1. ASSUME NEW k \in 0..(n + 1), k # n + 1 PROVE f[k] \in V
            BY <3>1
        <3> QED BY <2>4, <3>1
    <2>6. h[0] = first
        BY <2>2
    <2>7. ASSUME NEW k \in 1..(n + 1) PROVE h[k] = Step[<<h[k - 1], k>>]
        <3>1. k - 1 \in 0..n /\ k - 1 # n + 1
            OBVIOUS
        <3>2. h[k - 1] = f[k - 1]
            BY <3>1
        <3>3. CASE k = n + 1
            <4>1. h[n + 1] = Step[<<f[n], n + 1>>]
                BY <2>3
            <4>2. k - 1 = n
                BY <3>3
            <4> QED BY <3>2, <3>3, <4>1, <4>2
        <3>4. CASE k # n + 1
            <4>1. k \in 1..n /\ k \in 0..(n + 1)
                BY <3>4
            <4>2. h[k] = f[k]
                BY <3>4, <4>1
            <4> QED BY <2>2, <3>2, <4>1, <4>2
        <3> QED BY <3>3, <3>4
    <2> HIDE DEF h
    <2> QED BY <2>5, <2>6, <2>7
<1> HIDE DEF S
<1>3. Nat \subseteq S
    BY <1>1, <1>2, NatSetInduction
<1>4. N \in S
    BY <1>3
<1> QED BY <1>4 DEF S, IsRecursion

LEMMA RecursionKeeps ==
    ASSUME NEW V, NEW N \in Nat, NEW W, W[0] \in V,
           \A k \in 1..N : W[k - 1] \in V => W[k] \in V
    PROVE  W[N] \in V
<1> DEFINE T == {k \in Nat : k <= N => W[k] \in V}
<1>1. 0 \in T
    OBVIOUS
<1>2. ASSUME NEW k \in Nat, k \in T PROVE k + 1 \in T
    <2>1. SUFFICES ASSUME k + 1 <= N PROVE W[k + 1] \in V
        OBVIOUS
    <2>2. k + 1 \in 1..N /\ (k + 1) - 1 = k /\ k <= N
        BY <2>1
    <2>3. W[(k + 1) - 1] \in V
        BY <1>2, <2>2
    <2> QED BY <2>2, <2>3
<1> HIDE DEF T
<1>3. Nat \subseteq T
    BY <1>1, <1>2, NatSetInduction
<1> QED BY <1>3 DEF T

-----------------------------------------------------------------------------
(* The recursive definitions of the model: a set of nodes that no edge leaves *)
(* holds what is reachable from each of its nodes, and what is kept of a list *)
(* is a list of its elements.                                                *)

Grown(g, X) == X \cup UNION {Neighbors(g, m) : m \in X}

\* The rounds of a search that starts at n.
Rounds(W, g, n) ==
    /\ Reachable(g, n) = W[Len(g.nodes)]
    /\ W[0] = {n}
    /\ \A k \in 1..Len(g.nodes) : W[k] = Grown(g, W[k - 1])

LEMMA ReachableInRounds ==
    ASSUME NEW g, Len(g.nodes) \in Nat, NEW n \in NodesOf(g)
    PROVE  \E W : Rounds(W, g, n)
<1> DEFINE N == Len(g.nodes)
           V == SUBSET NodesOf(g)
           Grow(X) == X \cup UNION {Neighbors(g, m) : m \in X}
           Step == [p \in V \X (1..N) |-> Grow(p[1])]
           Eqn(w) == w = [k \in 0..N |-> IF k = 0 THEN {n} ELSE Grow(w[k - 1])]
           W == CHOOSE w : Eqn(w)
<1>1. Reachable(g, n) = W[N]
    BY DEF Reachable
<1>2. {n} \in V /\ \A X \in V : Grow(X) \in V
    BY DEF Neighbors
<1>3. \A X : Grow(X) = Grown(g, X)
    BY DEF Grown
<1> HIDE DEF Grow, V, N
<1>4. Step \in Steps(V, N) /\ N \in Nat
    BY <1>2 DEF N, Steps
<1> HIDE DEF Step
<1>5. PICK f : IsRecursion(f, V, {n}, N, Step)
    BY <1>2, <1>4, Recursion
<1>6. ASSUME NEW k \in 1..N PROVE f[k] = Grow(f[k - 1])
    <2>1. <<f[k - 1], k>> \in V \X (1..N)
        BY <1>4, <1>5 DEF IsRecursion
    <2> QED BY <1>5, <2>1 DEF Step, IsRecursion
<1>7. Eqn(f)
    BY <1>4, <1>5, <1>6 DEF IsRecursion
<1>8. Eqn(W)
    BY <1>7
<1> HIDE DEF W
<1>9. W[0] = {n}
    BY <1>4, <1>8
<1>10. ASSUME NEW k \in 1..N PROVE W[k] = Grown(g, W[k - 1])
    <2>1. k \in 0..N /\ k # 0
        BY <1>4
    <2>2. W[k] = Grow(W[k - 1])
        BY <1>8, <2>1
    <2> QED BY <1>3, <2>2
<1> QED BY <1>1, <1>9, <1>10 DEF N, Rounds

LEMMA ReachableIsClosed ==
    ASSUME NEW g, Len(g.nodes) \in Nat, NEW n \in NodesOf(g),
           NEW S, n \in S, \A x \in S : Neighbors(g, x) \subseteq S
    PROVE  Reachable(g, n) \subseteq S
<1>1. PICK W : Rounds(W, g, n)
    BY ReachableInRounds
<1>2. \A X \in SUBSET S : Grown(g, X) \in SUBSET S
    BY DEF Grown
<1>3. W[0] \in SUBSET S
    BY <1>1 DEF Rounds
<1>4. \A k \in 1..Len(g.nodes) : W[k - 1] \in SUBSET S => W[k] \in SUBSET S
    BY <1>1, <1>2 DEF Rounds
<1>5. W[Len(g.nodes)] \in SUBSET S
    BY <1>3, <1>4, RecursionKeeps
<1> QED BY <1>1, <1>5 DEF Rounds

LEMMA CompleteType ==
    ASSUME NEW S, NEW netlist \in Seq(S)
    PROVE  Complete(netlist) \in Seq(S)
<1> DEFINE N == Len(netlist)
           V == Seq(S)
           Next1(X, k) == IF netlist[k].complete THEN Append(X, netlist[k]) ELSE X
           Step == [p \in V \X (1..N) |-> Next1(p[1], p[2])]
           Eqn(w) == w = [k \in 0..N |-> IF k = 0 THEN << >> ELSE Next1(w[k - 1], k)]
           W == CHOOSE w : Eqn(w)
<1>1. Complete(netlist) = W[N]
    BY DEF Complete
<1>2. << >> \in V /\ N \in Nat /\ \A X \in V, k \in 1..N : Next1(X, k) \in V
    OBVIOUS
<1> HIDE DEF Next1, V, N
<1>3. Step \in Steps(V, N)
    BY <1>2 DEF Steps
<1> HIDE DEF Step
<1>4. PICK f : IsRecursion(f, V, << >>, N, Step)
    BY <1>2, <1>3, Recursion
<1>5. ASSUME NEW k \in 1..N PROVE f[k] = Next1(f[k - 1], k)
    <2>1. <<f[k - 1], k>> \in V \X (1..N)
        BY <1>2, <1>4 DEF IsRecursion
    <2> QED BY <1>4, <2>1 DEF Step, IsRecursion
<1>6. Eqn(f)
    BY <1>2, <1>4, <1>5 DEF IsRecursion
<1>7. Eqn(W)
    BY <1>6
<1> HIDE DEF W
<1>8. W[0] \in V
    BY <1>2, <1>7
<1>9. ASSUME NEW k \in 1..N, W[k - 1] \in V PROVE W[k] \in V
    <2>1. W[k] = Next1(W[k - 1], k)
        BY <1>2, <1>7
    <2> QED BY <1>2, <1>9, <2>1
<1> QED BY <1>1, <1>2, <1>8, <1>9, RecursionKeeps DEF V

LEMMA OnePerType ==
    ASSUME NEW S, NEW nodes \in Seq(S)
    PROVE  OnePer(nodes) \in Seq(S)
<1> DEFINE N == Len(nodes)
           V == Seq(S)
           Next1(X, k) == IF nodes[k] \in ToSet(X) THEN X ELSE Append(X, nodes[k])
           Step == [p \in V \X (1..N) |-> Next1(p[1], p[2])]
           Eqn(w) == w = [k \in 0..N |-> IF k = 0 THEN << >> ELSE Next1(w[k - 1], k)]
           W == CHOOSE w : Eqn(w)
<1>1. OnePer(nodes) = W[N]
    BY DEF OnePer
<1>2. << >> \in V /\ N \in Nat /\ \A X \in V, k \in 1..N : Next1(X, k) \in V
    OBVIOUS
<1> HIDE DEF Next1, V, N
<1>3. Step \in Steps(V, N)
    BY <1>2 DEF Steps
<1> HIDE DEF Step
<1>4. PICK f : IsRecursion(f, V, << >>, N, Step)
    BY <1>2, <1>3, Recursion
<1>5. ASSUME NEW k \in 1..N PROVE f[k] = Next1(f[k - 1], k)
    <2>1. <<f[k - 1], k>> \in V \X (1..N)
        BY <1>2, <1>4 DEF IsRecursion
    <2> QED BY <1>4, <2>1 DEF Step, IsRecursion
<1>6. Eqn(f)
    BY <1>2, <1>4, <1>5 DEF IsRecursion
<1>7. Eqn(W)
    BY <1>6
<1> HIDE DEF W
<1>8. W[0] \in V
    BY <1>2, <1>7
<1>9. ASSUME NEW k \in 1..N, W[k - 1] \in V PROVE W[k] \in V
    <2>1. W[k] = Next1(W[k - 1], k)
        BY <1>2, <1>7
    <2> QED BY <1>2, <1>9, <2>1
<1> QED BY <1>1, <1>2, <1>8, <1>9, RecursionKeeps DEF V


-----------------------------------------------------------------------------
(* Graphs: a list of nodes, of which there are finitely many.                *)

IsGraph(g) == g.nodes \in Seq(NodesOf(g))

\* A list is one of its own elements.
LEMMA OwnElements ==
    ASSUME NEW S, NEW q \in Seq(S)
    PROVE  q \in Seq({q[i] : i \in DOMAIN q})
<1>1. Len(q) \in Nat /\ q \in [1..Len(q) -> S]
    OBVIOUS
<1>2. q \in [1..Len(q) -> {q[i] : i \in DOMAIN q}]
    BY <1>1
<1> QED BY <1>1, <1>2, SeqDef

\* What is ingested from a netlist: pads and nets, then a ball for each complete row.
BallOfRow(r) == Node(r.ball, "ball", r.net, Designator[r.ball])

LEMMA ParsedParts ==
    ASSUME NEW S, NEW n \in Seq(S)
    PROVE  \E U : \E front, balls \in Seq(U) :
             /\ ParseAif(n).nodes = front \o balls
             /\ balls = [i \in DOMAIN Complete(n) |-> BallOfRow(Complete(n)[i])]
<1> DEFINE netlist == Complete(n)
           U == {Node(r.pad, "die_pad", r.pad, NoGrid) : r \in S}
                \cup {Node("net_" \o r.net, "substrate_net", r.net, NoGrid) : r \in S}
                \cup {BallOfRow(r) : r \in S}
           pads  == [i \in DOMAIN netlist |-> Node(netlist[i].pad, "die_pad", netlist[i].pad, NoGrid)]
           nets  == [i \in DOMAIN netlist |->
                        Node("net_" \o netlist[i].net, "substrate_net", netlist[i].net, NoGrid)]
           balls == [i \in DOMAIN netlist |-> BallOfRow(netlist[i])]
<1>1. ParseAif(n).nodes = OnePer(pads) \o OnePer(nets) \o balls
    BY DEF ParseAif, BallOfRow
<1>0. balls = [i \in DOMAIN Complete(n) |-> BallOfRow(Complete(n)[i])]
    OBVIOUS
<1>2. netlist \in Seq(S)
    BY CompleteType
<1> HIDE DEF netlist
<1>3. Len(netlist) \in Nat /\ DOMAIN netlist = 1..Len(netlist)
    BY <1>2
<1>4. ASSUME NEW i \in DOMAIN netlist PROVE netlist[i] \in S
    BY <1>2, <1>3
<1>5. pads \in Seq(U)
    <2>1. pads \in [1..Len(netlist) -> U]
        BY <1>3, <1>4
    <2> HIDE DEF pads, U
    <2> QED BY <1>3, <2>1, SeqDef
<1>6. nets \in Seq(U)
    <2>1. nets \in [1..Len(netlist) -> U]
        BY <1>3, <1>4
    <2> HIDE DEF nets, U
    <2> QED BY <1>3, <2>1, SeqDef
<1>7. balls \in Seq(U)
    <2>1. balls \in [1..Len(netlist) -> U]
        BY <1>3, <1>4
    <2> HIDE DEF balls, U
    <2> QED BY <1>3, <2>1, SeqDef
<1> HIDE DEF pads, nets, balls, U
<1>8. OnePer(pads) \in Seq(U) /\ OnePer(nets) \in Seq(U)
    BY <1>5, <1>6, OnePerType
<1> DEFINE front == OnePer(pads) \o OnePer(nets)
<1>9. front \in Seq(U)
    BY <1>8
<1>10. ParseAif(n).nodes = front \o balls
    BY <1>1
<1> HIDE DEF front
<1> QED BY <1>0, <1>7, <1>9, <1>10

LEMMA ParsedIsGraph ==
    ASSUME NEW S, NEW n \in Seq(S)
    PROVE  IsGraph(ParseAif(n))
<1>1. PICK U : \E front, balls \in Seq(U) : ParseAif(n).nodes = front \o balls
    BY ParsedParts
<1>2. ParseAif(n).nodes \in Seq(U)
    BY <1>1
<1> QED BY <1>2, OwnElements DEF IsGraph, NodesOf

LEMMA GraphsAreGraphs ==
    ASSUME NEW d \in DOMAIN CaseOf, NEW g \in GraphsOf(d)
    PROVE  IsGraph(g)
<1>1. CASE g \in CaseOf[d].revisions \cup CaseOf[d].successors
    BY <1>1, FilesAssumption DEF IsGraph
<1>2. CASE \E n \in CaseOf[d].netlists : g = ParseAif(n)
    BY <1>2, FilesAssumption, ParsedIsGraph
<1> QED BY <1>1, <1>2 DEF GraphsOf

LEMMA GraphIsFinite ==
    ASSUME NEW g, IsGraph(g)
    PROVE  /\ Len(g.nodes) \in Nat /\ DOMAIN g.nodes = 1..Len(g.nodes)
           /\ IsFiniteSet(NodesOf(g))
           /\ \A S \in SUBSET NodesOf(g) : IsFiniteSet(S) /\ Cardinality(S) \in Nat
<1>1. Len(g.nodes) \in Nat /\ DOMAIN g.nodes = 1..Len(g.nodes)
    BY DEF IsGraph
<1>2. IsFiniteSet(DOMAIN g.nodes)
    BY <1>1, FS_Interval
<1>3. IsFiniteSet(NodesOf(g))
    <2>1. g.nodes \in Surjection(DOMAIN g.nodes, NodesOf(g))
        BY <1>1 DEF IsGraph, NodesOf, Surjection
    <2> QED BY <1>2, <2>1, FS_Surjection
<1>4. ASSUME NEW S \in SUBSET NodesOf(g) PROVE IsFiniteSet(S) /\ Cardinality(S) \in Nat
    BY <1>3, FS_Subset, FS_CardinalityType
<1> QED BY <1>1, <1>3, <1>4

\* A finite set that has no two elements, as the checks count them.
LEMMA FewerThanTwo ==
    ASSUME NEW S, IsFiniteSet(S), ~ (Cardinality(S) >= 2)
    PROVE  /\ \A x, y \in S : x = y
           /\ S # {} => Cardinality(S) = 1
<1>1. Cardinality(S) \in Nat
    BY FS_CardinalityType
<1>2. ASSUME NEW x \in S, NEW y \in S PROVE x = y
    <2>1. SUFFICES ASSUME x # y PROVE FALSE
        OBVIOUS
    <2>2. IsFiniteSet(S \ {x}) /\ Cardinality(S \ {x}) = Cardinality(S) - 1
        BY FS_RemoveElement
    <2>3. Cardinality(S \ {x}) = 0
        BY <1>1, <2>2, FS_CardinalityType
    <2>4. S \ {x} = {}
        BY <2>2, <2>3, FS_EmptySet
    <2> QED BY <2>1, <2>4
<1>3. ASSUME S # {} PROVE Cardinality(S) = 1
    <2>1. PICK x \in S : TRUE
        BY <1>3
    <2>2. S = {x}
        BY <1>2
    <2> QED BY <2>2, FS_Singleton
<1> QED BY <1>2, <1>3

-----------------------------------------------------------------------------
(* What it means that each check finds nothing.                              *)

LEMMA CleanGraph ==
    ASSUME NEW g, NEW c, NEW s, VerifyGraph(g, c, s) = "clean"
    PROVE  ValidGraph(g) /\ ~ ChecksRaise(g, c) /\ RunAll(g, c, s) = {}
BY DEF VerifyGraph

LEMMA CleanBijection ==
    ASSUME NEW g, NEW c, CheckBijection(g, c) = {}
    PROVE  /\ \A b \in Balls(g) : ~ (Cardinality(NetsOfBall(g, b)) >= 2)
           /\ \A n \in Nets(g) :
                \/ n.role \in {"gnd", "pwr"} \/ n.name \in c.allow
                \/ ~ (Cardinality(BallsOfNet(g, n)) >= 2)
<1>1. ASSUME NEW b \in Balls(g), Cardinality(NetsOfBall(g, b)) >= 2 PROVE FALSE
    <2>1. <<"multi_assignment", b.id>> \in CheckBijection(g, c)
        BY <1>1 DEF CheckBijection
    <2> QED BY <2>1
<1>2. ASSUME NEW n \in Nets(g), n.role \notin {"gnd", "pwr"}, n.name \notin c.allow,
             Cardinality(BallsOfNet(g, n)) >= 2
      PROVE  FALSE
    <2>1. <<"multi_ball_signal", n.name>> \in CheckBijection(g, c)
        BY <1>2 DEF CheckBijection
    <2> QED BY <2>1
<1> QED BY <1>1, <1>2

Grounded(g, c, s, i) ==
    ~ (Cardinality(GroundsOf(g, i, s)) <
           RequiredGrounds(c.grounds[i], Cardinality(InsideOf(g, i, s))))

LEMMA CleanGrounds ==
    ASSUME NEW g, NEW c, NEW s, CheckGrounds(g, c, s) = {}, NEW i \in DOMAIN c.grounds
    PROVE  Grounded(g, c, s, i)
<1>1. SUFFICES ASSUME ~ Grounded(g, c, s, i) PROVE FALSE
    OBVIOUS
<1>2. <<"grounds_missing", i, Cardinality(GroundsOf(g, i, s)),
        RequiredGrounds(c.grounds[i], Cardinality(InsideOf(g, i, s)))>> \in CheckGrounds(g, c, s)
    BY <1>1 DEF CheckGrounds, Grounded
<1> QED BY <1>2

LEMMA CleanFloating ==
    ASSUME NEW g, CheckFloating(g) = {}
    PROVE  /\ \A p \in Pads(g) : Reachable(g, p) \cap Balls(g) # {}
           /\ \A b \in Balls(g) : b.role = "nc" <=> NetsOfBall(g, b) = {}
<1>1. ASSUME NEW p \in Pads(g), Reachable(g, p) \cap Balls(g) = {} PROVE FALSE
    <2>1. <<"floating_pad", p.id>> \in CheckFloating(g)
        BY <1>1 DEF CheckFloating
    <2> QED BY <2>1
<1>2. ASSUME NEW b \in Balls(g), b.role = "nc", NetsOfBall(g, b) # {} PROVE FALSE
    <2>1. <<"nc_collision", b.id>> \in CheckFloating(g)
        BY <1>2 DEF CheckFloating
    <2> QED BY <2>1
<1>3. ASSUME NEW b \in Balls(g), b.role # "nc", NetsOfBall(g, b) = {} PROVE FALSE
    <2>1. <<"no_net", b.id>> \in CheckFloating(g)
        BY <1>3 DEF CheckFloating
    <2> QED BY <2>1
<1> QED BY <1>1, <1>2, <1>3

LEMMA CleanDuplicates ==
    ASSUME NEW g, CheckDuplicates(g) = {}, NEW b \in Balls(g), b.grid # NoGrid
    PROVE  ~ (Cardinality({x \in Balls(g) : x.grid = b.grid}) >= 2)
<1>1. SUFFICES ASSUME Cardinality({x \in Balls(g) : x.grid = b.grid}) >= 2 PROVE FALSE
    OBVIOUS
<1>2. b.grid \in {x.grid : x \in Balls(g)} \ {NoGrid}
    OBVIOUS
<1>3. <<"ball_grid", b.grid>> \in CheckDuplicates(g)
    BY <1>1, <1>2 DEF CheckDuplicates
<1> QED BY <1>3

\* A ball of a graph that verifies has one net, or none if it is nc.
LEMMA OneNet ==
    ASSUME NEW g, IsGraph(g), NEW c, NEW s, VerifyGraph(g, c, s) = "clean", NEW b \in Balls(g)
    PROVE  /\ Cardinality(NetsOfBall(g, b)) = IF b.role = "nc" THEN 0 ELSE 1
           /\ \A m, n \in NetsOfBall(g, b) : m = n
<1>1. CheckBijection(g, c) = {} /\ CheckFloating(g) = {}
    BY CleanGraph DEF RunAll
<1>2. ~ (Cardinality(NetsOfBall(g, b)) >= 2)
    BY <1>1, CleanBijection
<1>3. IsFiniteSet(NetsOfBall(g, b))
    BY GraphIsFinite DEF NetsOfBall, Neighbors
<1>4. b.role = "nc" <=> NetsOfBall(g, b) = {}
    BY <1>1, CleanFloating
<1> QED BY <1>2, <1>3, <1>4, FewerThanTwo, FS_EmptySet

\* No two balls of a graph that verifies share a position.
LEMMA OneBall ==
    ASSUME NEW g, IsGraph(g), NEW c, NEW s, VerifyGraph(g, c, s) = "clean",
           NEW a \in Balls(g), NEW b \in Balls(g), a.grid = b.grid, a.grid # NoGrid
    PROVE  a = b
<1>1. ~ (Cardinality({x \in Balls(g) : x.grid = b.grid}) >= 2)
    BY CleanGraph, CleanDuplicates DEF RunAll
<1>2. IsFiniteSet({x \in Balls(g) : x.grid = b.grid})
    BY GraphIsFinite DEF Balls, OfKind
<1> QED BY <1>1, <1>2, FewerThanTwo

\* No die pad of a graph that verifies is cut off from the balls.
LEMMA NoneCutOff ==
    ASSUME NEW g, IsGraph(g), NEW c, NEW s, VerifyGraph(g, c, s) = "clean",
           NEW p \in Pads(g)
    PROVE  ~ CutOff(g, p)
<1>1. SUFFICES ASSUME NEW S \in SUBSET (NodesOf(g) \ Balls(g)), p \in S,
                      \A x \in S : Neighbors(g, x) \subseteq S
               PROVE  FALSE
    BY DEF CutOff
<1>2. Reachable(g, p) \cap Balls(g) # {}
    BY CleanGraph, CleanFloating DEF RunAll
<1>3. p \in NodesOf(g) /\ Len(g.nodes) \in Nat
    BY GraphIsFinite DEF Pads, OfKind
<1>4. Reachable(g, p) \subseteq S
    BY <1>1, <1>3, ReachableIsClosed
<1> QED BY <1>2, <1>4

\* As many rounds as the graph has nodes are enough: a round that is not the last one
\* adds a node.
LEMMA ReachableIsStable ==
    ASSUME NEW g, IsGraph(g), NEW n \in NodesOf(g)
    PROVE  /\ n \in Reachable(g, n) /\ Reachable(g, n) \subseteq NodesOf(g)
           /\ \A x \in Reachable(g, n) : Neighbors(g, x) \subseteq Reachable(g, n)
<1> DEFINE N == Len(g.nodes)
<1>1. N \in Nat
    BY GraphIsFinite
<1>a. PICK W : Rounds(W, g, n)
    BY <1>1, ReachableInRounds
<1>2. /\ Reachable(g, n) = W[N]
      /\ W[0] = {n}
      /\ \A k \in 1..N : W[k] = Grown(g, W[k - 1])
    BY <1>a DEF Rounds
<1> HIDE DEF N
<1> DEFINE Good(k) == /\ n \in W[k] /\ W[k] \subseteq NodesOf(g)
                      /\ Grown(g, W[k]) = W[k] \/ Cardinality(W[k]) >= k + 1
           T == {k \in Nat : k <= N => Good(k)}
<1>3. 0 \in T
    BY <1>2, FS_Singleton
<1>4. ASSUME NEW k \in Nat, k \in T PROVE k + 1 \in T
    <2>1. SUFFICES ASSUME k + 1 <= N PROVE Good(k + 1)
        OBVIOUS
    <2>2. Good(k) /\ k + 1 \in 1..N /\ (k + 1) - 1 = k
        BY <1>1, <1>4, <2>1
    <2>3. W[k + 1] = Grown(g, W[k])
        BY <1>2, <2>2
    <2>4. n \in W[k + 1] /\ W[k + 1] \subseteq NodesOf(g) /\ W[k] \subseteq W[k + 1]
        BY <2>2, <2>3 DEF Grown, Neighbors
    <2>5. CASE Grown(g, W[k]) = W[k]
        BY <2>3, <2>4, <2>5
    <2>6. CASE Grown(g, W[k]) # W[k]
        <3>1. /\ IsFiniteSet(W[k + 1])
              /\ Cardinality(W[k]) \in Nat /\ Cardinality(W[k + 1]) \in Nat
            BY <2>2, <2>4, GraphIsFinite
        <3>2. /\ Cardinality(W[k]) <= Cardinality(W[k + 1])
              /\ Cardinality(W[k]) # Cardinality(W[k + 1])
            BY <2>3, <2>4, <2>6, <3>1, FS_Subset
        <3>3. Cardinality(W[k]) >= k + 1
            BY <2>2, <2>6
        <3>4. Cardinality(W[k + 1]) >= (k + 1) + 1
            BY <3>1, <3>2, <3>3
        <3> QED BY <2>4, <3>4
    <2> QED BY <2>5, <2>6
<1> HIDE DEF T
<1>5. Nat \subseteq T
    BY <1>3, <1>4, NatSetInduction
<1>6. Good(N)
    BY <1>1, <1>5 DEF T
<1>7. ~ (Cardinality(W[N]) >= N + 1)
    <2>1. Cardinality(NodesOf(g)) <= N
        <3>1. g.nodes \in Surjection(DOMAIN g.nodes, NodesOf(g)) /\ DOMAIN g.nodes = 1..N
            BY GraphIsFinite DEF IsGraph, NodesOf, Surjection, N
        <3>2. IsFiniteSet(1..N) /\ Cardinality(1..N) = N
            BY <1>1, FS_Interval
        <3> QED BY <3>1, <3>2, FS_Surjection
    <2>2. Cardinality(W[N]) <= Cardinality(NodesOf(g))
        BY <1>6, GraphIsFinite, FS_Subset
    <2>3. Cardinality(W[N]) \in Nat /\ Cardinality(NodesOf(g)) \in Nat
        BY <1>6, GraphIsFinite
    <2> QED BY <1>1, <2>1, <2>2, <2>3
<1>8. Grown(g, W[N]) = W[N]
    BY <1>6, <1>7
<1> QED BY <1>2, <1>6, <1>8 DEF Grown

\* Whatever the graph, verify reports the die pads that are cut off from every ball
\* and no others (checks/rules.py, check_floating with common.py, reachable).
THEOREM FloatingIsCutOff ==
    ASSUME NEW d \in DOMAIN CaseOf, NEW g \in GraphsOf(d)
    PROVE  {p \in Pads(g) : Reachable(g, p) \cap Balls(g) = {}} = {p \in Pads(g) : CutOff(g, p)}
<1>1. IsGraph(g) /\ Len(g.nodes) \in Nat
    BY GraphsAreGraphs, GraphIsFinite
<1>2. ASSUME NEW p \in Pads(g), CutOff(g, p) PROVE Reachable(g, p) \cap Balls(g) = {}
    <2>1. PICK S \in SUBSET (NodesOf(g) \ Balls(g)) :
              p \in S /\ \A x \in S : Neighbors(g, x) \subseteq S
        BY <1>2 DEF CutOff
    <2>2. Reachable(g, p) \subseteq S
        BY <1>1, <2>1, ReachableIsClosed DEF Pads, OfKind
    <2> QED BY <2>2
<1>3. ASSUME NEW p \in Pads(g), Reachable(g, p) \cap Balls(g) = {} PROVE CutOff(g, p)
    <2>1. p \in NodesOf(g)
        BY DEF Pads, OfKind
    <2>2. /\ p \in Reachable(g, p) /\ Reachable(g, p) \subseteq NodesOf(g)
          /\ \A x \in Reachable(g, p) : Neighbors(g, x) \subseteq Reachable(g, p)
        BY <1>1, <2>1, ReachableIsStable
    <2>3. Reachable(g, p) \in SUBSET (NodesOf(g) \ Balls(g))
        BY <1>3, <2>2
    <2> QED BY <2>2, <2>3 DEF CutOff
<1> QED BY <1>2, <1>3

-----------------------------------------------------------------------------
(* The invariant: what verify last said is what it says of the graph under    *)
(* some order, the signed-off revision verified, a graph that was ingested is *)
(* that of its netlist, an answer is that of the files as they are, and every *)
(* rule of the deck comes from a candidate that its acceptor could accept.   *)

MapInv == desk # None => desk \in DOMAIN CaseOf /\ graph \in GraphsOf(desk)

VerdictInv ==
    /\ verdict = "none" => report = {}
    /\ verdict # "none" =>
         /\ desk # None
         /\ \E s \in Orders : /\ verdict = VerifyGraph(graph, CaseOf[desk].config, s)
                              /\ report = Reported(graph, CaseOf[desk].config, s)

BaseInv ==
    base # None =>
        /\ desk # None /\ base \in GraphsOf(desk)
        /\ \E s \in Orders : VerifyGraph(base, CaseOf[desk].config, s) = "clean"

RowsInv ==
    rows # << >> => desk # None /\ rows \in CaseOf[desk].netlists /\ graph = ParseAif(rows)

Answered(tool, what, said) == answer = [tool |-> tool, asked |-> what, says |-> said]

LintSays(layers) ==
    IF Rule!LintRaises(Rules, layers) THEN [raised |-> TRUE]
    ELSE [raised |-> FALSE, checked |-> Rule!Checked(Rules),
          skipped |-> Rule!Skipped(Rules)]

EscapeSays(region) ==
    CASE Rule!EscapeRaises(Rules) -> "raised"
      [] ~ Rule!EscapeRaises(Rules) /\ Rule!Feasible(Rules, region) -> "feasible"
      [] OTHER -> "infeasible"

MapAnswer ==
    /\ desk # None
    /\ \/ base # None /\ Answered("diff", << >>, RunDiff(base, graph))
       \/ \E s \in Orders, sheet \in CaseOf[desk].sheets, columns \in 0..2 :
            Answered("crosscheck", <<sheet, columns>>, CrossCheck(graph, s, sheet, columns))
       \/ \E t \in CaseOf[desk].templates : Answered("template", t, CheckTemplate(graph, t))

DeckAnswer ==
    \/ \E l \in LayerMaps : Answered("lint", l, LintSays(l))
    \/ \E r \in Regions : Answered("escape", r, EscapeSays(r))

AnswerInv == answer = NoAnswer \/ MapAnswer \/ DeckAnswer

Decided == [battery |-> "accept", human |-> "review"]
Entry == [rule : {c[1].rule : c \in Candidates} \ {None}, by : DOMAIN Decided]

DeckInv ==
    /\ deck \in Seq(Entry) /\ Len(deck) <= MaxRules
    /\ \A i \in DOMAIN deck : \E c \in Candidates :
         c[1].rule = deck[i].rule /\ Rule!Decide(c[1], c[2]) = Decided[deck[i].by]

Inv == MapInv /\ VerdictInv /\ BaseInv /\ RowsInv /\ AnswerInv /\ DeckInv

LEMMA InvInit == Init => Inv
<1> SUFFICES ASSUME Init PROVE Inv
    OBVIOUS
<1>1. MapInv
    BY DEF Init, MapInv, GraphsOf
<1>2. DeckInv
    BY MaxRulesAssumption DEF Init, DeckInv
<1>3. VerdictInv /\ BaseInv /\ RowsInv /\ AnswerInv
    BY DEF Init, VerdictInv, BaseInv, RowsInv, AnswerInv
<1> QED BY <1>1, <1>2, <1>3 DEF Inv

\* A step that only writes an answer.
LEMMA AnswerStep ==
    ASSUME Inv, UNCHANGED <<desk, graph, rows, base, verdict, report, deck>>, AnswerInv'
    PROVE  Inv'
BY DEF Inv, MapInv, VerdictInv, BaseInv, RowsInv, DeckInv

\* The answer to a question about files that a step leaves alone.
LEMMA NoAnswerStep ==
    ASSUME answer = NoAnswer, UNCHANGED answer
    PROVE  AnswerInv'
BY DEF AnswerInv, NoAnswer

LEMMA InvStep == Inv /\ [Next]_vars => Inv'
<1> SUFFICES ASSUME Inv, [Next]_vars PROVE Inv'
    OBVIOUS
<1>1. ASSUME answer = NoAnswer, desk # None, NEW n \in CaseOf[desk].netlists, Ingest(n)
      PROVE  Inv'
    <2>1. /\ graph' = ParseAif(n) /\ rows' = n /\ verdict' = "none" /\ report' = {}
          /\ UNCHANGED <<desk, base, answer, deck>>
        BY <1>1 DEF Ingest, Put
    <2>2. MapInv' /\ RowsInv'
        BY <1>1, <2>1 DEF Inv, MapInv, RowsInv, GraphsOf
    <2>3. VerdictInv' /\ BaseInv' /\ DeckInv'
        BY <2>1 DEF Inv, VerdictInv, BaseInv, DeckInv
    <2>4. AnswerInv'
        BY <1>1, <2>1, NoAnswerStep
    <2> QED BY <2>2, <2>3, <2>4 DEF Inv
<1>2. ASSUME answer = NoAnswer, desk # None, NEW g \in CaseOf[desk].successors, Edit(g)
      PROVE  Inv'
    <2>1. /\ graph' = g /\ rows' = << >> /\ verdict' = "none" /\ report' = {}
          /\ UNCHANGED <<desk, base, answer, deck>>
        BY <1>2 DEF Edit, Put
    <2>2. MapInv' /\ RowsInv'
        BY <1>2, <2>1 DEF Inv, MapInv, RowsInv, GraphsOf
    <2>3. VerdictInv' /\ BaseInv' /\ DeckInv'
        BY <2>1 DEF Inv, VerdictInv, BaseInv, DeckInv
    <2>4. AnswerInv'
        BY <1>2, <2>1, NoAnswerStep
    <2> QED BY <2>2, <2>3, <2>4 DEF Inv
<1>3. ASSUME answer = NoAnswer, desk # None, NEW s \in Orders, Verify(s)
      PROVE  Inv'
    <2>1. /\ verdict' = VerifyGraph(graph, CaseOf[desk].config, s)
          /\ report' = Reported(graph, CaseOf[desk].config, s)
          /\ UNCHANGED <<desk, graph, rows, base, answer, deck>>
        BY <1>3 DEF Verify
    <2>2. VerdictInv'
        <3>1. verdict' # "none"
            BY <2>1 DEF VerifyGraph
        <3> QED BY <1>3, <2>1, <3>1 DEF VerdictInv
    <2>3. MapInv' /\ RowsInv' /\ BaseInv' /\ DeckInv'
        BY <2>1 DEF Inv, MapInv, RowsInv, BaseInv, DeckInv
    <2>4. AnswerInv'
        BY <1>3, <2>1, NoAnswerStep
    <2> QED BY <2>2, <2>3, <2>4 DEF Inv
<1>4. ASSUME answer = NoAnswer, desk # None, SignOff
      PROVE  Inv'
    <2>1. verdict = "clean" /\ base' = graph /\ UNCHANGED <<desk, graph, rows, verdict, report, answer, deck>>
        BY <1>4 DEF SignOff
    <2>2. BaseInv'
        BY <1>4, <2>1 DEF Inv, MapInv, VerdictInv, BaseInv
    <2>3. MapInv' /\ RowsInv' /\ VerdictInv' /\ DeckInv'
        BY <2>1 DEF Inv, MapInv, RowsInv, VerdictInv, DeckInv
    <2>4. AnswerInv'
        BY <1>4, <2>1, NoAnswerStep
    <2> QED BY <2>2, <2>3, <2>4 DEF Inv
<1>5. ASSUME desk # None, Diff PROVE Inv'
    <2>1. /\ base # None /\ answer' = [tool |-> "diff", asked |-> << >>, says |-> RunDiff(base, graph)]
          /\ UNCHANGED <<desk, graph, rows, base, verdict, report, deck>>
        BY <1>5 DEF Diff, Says
    <2>2. MapAnswer'
        BY <1>5, <2>1 DEF MapAnswer, Answered
    <2> QED BY <2>1, <2>2, AnswerStep DEF AnswerInv
<1>6. ASSUME desk # None, NEW s \in Orders, NEW sheet \in CaseOf[desk].sheets,
             NEW columns \in 0..2, Compare(s, sheet, columns)
      PROVE  Inv'
    <2>1. /\ answer' = [tool |-> "crosscheck", asked |-> <<sheet, columns>>,
                        says |-> CrossCheck(graph, s, sheet, columns)]
          /\ UNCHANGED <<desk, graph, rows, base, verdict, report, deck>>
        BY <1>6 DEF Compare, Says
    <2>2. MapAnswer'
        BY <1>6, <2>1 DEF MapAnswer, Answered
    <2> QED BY <2>1, <2>2, AnswerStep DEF AnswerInv
<1>7. ASSUME desk # None, NEW t \in CaseOf[desk].templates, Template(t) PROVE Inv'
    <2>1. /\ answer' = [tool |-> "template", asked |-> t, says |-> CheckTemplate(graph, t)]
          /\ UNCHANGED <<desk, graph, rows, base, verdict, report, deck>>
        BY <1>7 DEF Template, Says
    <2>2. MapAnswer'
        BY <1>7, <2>1 DEF MapAnswer, Answered
    <2> QED BY <2>1, <2>2, AnswerStep DEF AnswerInv
<1>8. ASSUME answer = NoAnswer, NEW c \in Candidates, NEW by \in DOMAIN Decided,
             Free, Rule!Decide(c[1], c[2]) = Decided[by], Accept(c[1], by)
      PROVE  Inv'
    <2>1. /\ deck' = IF c[1].rule = None THEN deck
                     ELSE Append(deck, [rule |-> c[1].rule, by |-> by])
          /\ UNCHANGED <<desk, graph, rows, base, verdict, report, answer>>
        BY <1>8 DEF Accept
    <2>2. MapInv' /\ RowsInv' /\ VerdictInv' /\ BaseInv'
        BY <2>1 DEF Inv, MapInv, RowsInv, VerdictInv, BaseInv
    <2>3. DeckInv'
        <3>1. CASE c[1].rule = None
            BY <2>1, <3>1 DEF Inv, DeckInv
        <3>2. CASE c[1].rule # None
            <4> DEFINE e == [rule |-> c[1].rule, by |-> by]
            <4>1. e \in Entry /\ deck \in Seq(Entry) /\ Len(deck) < MaxRules
                BY <1>8, <3>2 DEF Entry, Inv, DeckInv, Free
            <4>2. deck' = Append(deck, e)
                BY <2>1, <3>2
            <4>3. e.rule = c[1].rule /\ e.by = by
                OBVIOUS
            <4> HIDE DEF e
            <4>4. deck' \in Seq(Entry) /\ Len(deck') = Len(deck) + 1 /\ Len(deck') <= MaxRules
                BY <4>1, <4>2, MaxRulesAssumption
            <4>5. ASSUME NEW i \in DOMAIN deck'
                  PROVE  \E x \in Candidates : /\ x[1].rule = deck'[i].rule
                                               /\ Rule!Decide(x[1], x[2]) = Decided[deck'[i].by]
                <5>1. CASE i = Len(deck) + 1
                    <6>1. deck'[i] = e
                        BY <4>1, <4>2, <5>1
                    <6> QED BY <1>8, <4>3, <6>1
                <5>2. CASE i # Len(deck) + 1
                    <6>1. i \in DOMAIN deck /\ deck'[i] = deck[i]
                        BY <4>1, <4>2, <4>4, <5>2
                    <6> QED BY <6>1 DEF Inv, DeckInv
                <5> QED BY <5>1, <5>2
            <4> QED BY <4>4, <4>5 DEF DeckInv
        <3> QED BY <3>1, <3>2
    <2>4. AnswerInv'
        BY <1>8, <2>1, NoAnswerStep
    <2> QED BY <2>2, <2>3, <2>4 DEF Inv
<1>9. ASSUME NEW l \in LayerMaps, Lint(l) PROVE Inv'
    <2>1. /\ answer' = [tool |-> "lint", asked |-> l, says |-> LintSays(l)]
          /\ UNCHANGED <<desk, graph, rows, base, verdict, report, deck>>
        BY <1>9 DEF Lint, Says, LintSays
    <2>2. LintSays(l)' = LintSays(l)
        BY <2>1 DEF LintSays, Rules
    <2>3. DeckAnswer'
        BY <2>1, <2>2 DEF DeckAnswer, Answered
    <2> QED BY <2>1, <2>3, AnswerStep DEF AnswerInv
<1>10. ASSUME NEW r \in Regions, Escape(r) PROVE Inv'
    <2>1. /\ answer' = [tool |-> "escape", asked |-> r, says |-> EscapeSays(r)]
          /\ UNCHANGED <<desk, graph, rows, base, verdict, report, deck>>
        BY <1>10 DEF Escape, Says, EscapeSays
    <2>2. EscapeSays(r)' = EscapeSays(r)
        BY <2>1 DEF EscapeSays, Rules
    <2>3. DeckAnswer'
        BY <2>1, <2>2 DEF DeckAnswer, Answered
    <2> QED BY <2>1, <2>3, AnswerStep DEF AnswerInv
<1>11. CASE Noted
    BY <1>11, AnswerStep DEF Noted, AnswerInv, NoAnswer
<1>12. CASE UNCHANGED vars
    <2>1. UNCHANGED <<desk, graph, rows, base, verdict, report, answer, deck>>
        BY <1>12 DEF vars
    <2>2. MapAnswer' <=> MapAnswer
        BY <2>1 DEF MapAnswer, Answered
    <2>3. DeckAnswer' <=> DeckAnswer
        BY <2>1 DEF DeckAnswer, Answered, LintSays, EscapeSays, Rules
    <2>4. AnswerInv'
        BY <2>1, <2>2, <2>3 DEF Inv, AnswerInv
    <2> QED BY <2>1, <2>4, AnswerStep
<1>13. ASSUME answer = NoAnswer, MapStep PROVE Inv'
    BY <1>1, <1>2, <1>3, <1>4, <1>5, <1>6, <1>7, <1>13 DEF MapStep
<1>14. ASSUME answer = NoAnswer, NEW c \in Candidates, Extract(c[1], c[2]) \/ Review(c[1], c[2])
       PROVE  Inv'
    <2>1. CASE Extract(c[1], c[2])
        BY <1>8, <1>14, <2>1 DEF Extract, Decided
    <2>2. CASE Review(c[1], c[2])
        BY <1>8, <1>14, <2>2 DEF Review, Decided
    <2> QED BY <1>14, <2>1, <2>2
<1>15. ASSUME answer = NoAnswer, DeckStep PROVE Inv'
    BY <1>9, <1>10, <1>14, <1>15 DEF DeckStep
<1> QED BY <1>11, <1>12, <1>13, <1>15 DEF Next

\* The inductive invariant holds in every state of the tools.
THEOREM PkgtkInvHolds == Spec => []Inv
<1>1. Init => Inv
    BY InvInit
<1>2. Inv /\ [Next]_vars => Inv'
    BY InvStep
<1> QED BY <1>1, <1>2, PTL DEF Spec

\* The desk, the graph, the verdict and the deck keep their types, and what was
\* signed off is a valid graph (verify.py, graph.py, review of a deck).
THEOREM TypeCorrect == Spec => []TypeOK
<1>1. ASSUME Inv PROVE TypeOK
    <2>1. desk \in DOMAIN CaseOf \cup {None} /\ (desk # None => graph \in GraphsOf(desk))
        BY <1>1 DEF Inv, MapInv
    <2>2. verdict \in {"none", "clean", "dirty", "raised"}
        BY <1>1 DEF Inv, VerdictInv, VerifyGraph
    <2>5. verdict = "dirty" <=> report # {}
        BY <1>1 DEF Inv, VerdictInv, Reported, VerifyGraph
    <2>3. base # None => ValidGraph(base)
        BY <1>1, CleanGraph DEF Inv, BaseInv
    <2>4. ASSUME NEW i \in DOMAIN deck PROVE deck[i].by \in {"battery", "human"}
        <3>1. deck[i] \in Entry
            BY <1>1 DEF Inv, DeckInv
        <3> QED BY <3>1 DEF Entry, Decided
    <2> QED BY <1>1, <2>1, <2>2, <2>3, <2>4, <2>5 DEF TypeOK, Inv, DeckInv
<1> QED BY <1>1, PkgtkInvHolds, PTL

-----------------------------------------------------------------------------
(* What holds of a graph that verifies.                                      *)

\* Where verify exits 0, a template that is met is met by every ball.
LEMMA TemplateOfClean ==
    ASSUME NEW g, IsGraph(g), NEW c, NEW s, VerifyGraph(g, c, s) = "clean",
           NEW t, CheckTemplate(g, t) = "met", NEW p \in DOMAIN t
    PROVE  /\ \E b \in Balls(g) : b.grid = p
           /\ \A b \in Balls(g) : b.grid = p =>
                b.role = RoleAlias(t[p]) \/ (b.role = Absent /\ t[p] = "nc")
<1> DEFINE at == {i \in DOMAIN g.nodes :
                    g.nodes[i].kind = "ball" /\ g.nodes[i].grid = p /\ p # NoGrid}
<1>1. BallRoleAt(g, p) = RoleAlias(t[p]) /\ BallRoleAt(g, p) # "missing"
    BY CleanGraph DEF CheckTemplate
<1>2. at # {}
    BY <1>1 DEF BallRoleAt
<1>3. Len(g.nodes) \in Nat /\ DOMAIN g.nodes = 1..Len(g.nodes)
    BY GraphIsFinite
<1>4. Max(at) \in at
    <2>1. at \in SUBSET (0..Len(g.nodes))
        BY <1>3
    <2> HIDE DEF at
    <2> QED BY <1>2, <1>3, <2>1, MaxOfIndices
<1> DEFINE last == g.nodes[Max(at)]
<1>5. last \in Balls(g) /\ last.grid = p /\ p # NoGrid
    BY <1>4 DEF Balls, OfKind, NodesOf
<1>6. \A b \in Balls(g) : b.grid = p => b = last
    BY <1>5, OneBall
<1>7. BallRoleAt(g, p) = IF last.role = Absent THEN "nc" ELSE last.role
    BY <1>2 DEF BallRoleAt
<1>8. last.role = RoleAlias(t[p]) \/ (last.role = Absent /\ t[p] = "nc")
    <2>1. RoleAlias(t[p]) = "nc" => t[p] = "nc"
        BY DEF RoleAlias
    <2> QED BY <1>1, <1>7, <2>1
<1> QED BY <1>5, <1>6, <1>8

\* A template that is met on a graph that verifies is met by every ball at its
\* positions (template_check.py:37-57).
THEOREM MetByEveryBall == Spec => []TemplateIsMet
<1>1. ASSUME Inv PROVE TemplateIsMet
    <2>1. SUFFICES ASSUME answer.tool = "template", answer.says = "met", verdict = "clean",
                          NEW p \in DOMAIN answer.asked
                   PROVE  /\ \E b \in Balls(graph) : b.grid = p
                          /\ \A b \in Balls(graph) : b.grid = p =>
                               \/ b.role = RoleAlias(answer.asked[p])
                               \/ b.role = Absent /\ answer.asked[p] = "nc"
        BY DEF TemplateIsMet
    <2>2. desk \in DOMAIN CaseOf /\ IsGraph(graph)
        BY <1>1, <2>1, GraphsAreGraphs DEF Inv, MapInv, VerdictInv
    <2>3. PICK s \in Orders : VerifyGraph(graph, CaseOf[desk].config, s) = "clean"
        BY <1>1, <2>1 DEF Inv, VerdictInv
    <2>4. PICK t \in CaseOf[desk].templates :
                answer.asked = t /\ CheckTemplate(graph, t) = "met"
        BY <1>1, <2>1 DEF Inv, AnswerInv, NoAnswer, MapAnswer, DeckAnswer, Answered
    <2>5. p \in DOMAIN t
        BY <2>1, <2>4
    <2> QED BY <2>2, <2>3, <2>4, <2>5, TemplateOfClean
<1> QED BY <1>1, PkgtkInvHolds, PTL

-----------------------------------------------------------------------------
(* The deck: what lint and escape say of the rules that were accepted.       *)

\* An answer of lint that is not a traceback is that of a deck that loads.
LEMMA LintAnswer ==
    ASSUME Inv, answer.tool = "lint", ~ answer.says.raised
    PROVE  /\ ~ Rule!LoadRaises(Rules)
           /\ answer.says.checked = Rule!Checked(Rules)
           /\ answer.says.skipped = Rule!Skipped(Rules)
<1>1. PICK l \in LayerMaps : Answered("lint", l, LintSays(l))
    BY DEF Inv, AnswerInv, NoAnswer, MapAnswer, DeckAnswer, Answered
<1>2. answer.says = LintSays(l)
    BY <1>1 DEF Answered
<1>3. ~ Rule!LintRaises(Rules, l)
    BY <1>2 DEF LintSays
<1> QED BY <1>2, <1>3 DEF LintSays, Rule!LintRaises

\* The rules of the deck, and what became of their candidates.
LEMMA RuleOfDeck ==
    ASSUME Inv, NEW i \in DOMAIN deck
    PROVE  /\ deck[i].rule \in Rule!ToSet(Rules) /\ i \in DOMAIN Rules /\ Rules[i] = deck[i].rule
           /\ deck[i].by \in {"battery", "human"}
           /\ \E c \in Candidates :
                /\ c[1].rule = deck[i].rule /\ deck[i].rule # None
                /\ Rule!Decide(c[1], c[2]) = IF deck[i].by = "battery" THEN "accept" ELSE "review"
<1>1. deck[i] \in Entry
    BY DEF Inv, DeckInv
<1>2. deck[i].by \in {"battery", "human"} /\ deck[i].rule # None
    BY <1>1 DEF Entry, Decided
<1>3. i \in DOMAIN Rules /\ Rules[i] = deck[i].rule /\ deck[i].rule \in Rule!ToSet(Rules)
    BY DEF Rules, Rule!ToSet
<1> QED BY <1>2, <1>3 DEF Inv, DeckInv, Decided

\* A rule of the deck that is neither checked nor named as skipped is one that
\* coverage.py calls manual or unimplemented (cli/check.py:40-46, lint/coverage.py:24-47).
THEOREM GapsAreThoseOfCoverage == Spec => []GapsAreKnown
<1>1. ASSUME Inv PROVE GapsAreKnown
    <2>1. SUFFICES ASSUME answer.tool = "lint", ~ answer.says.raised, NEW i \in DOMAIN deck
                   PROVE  \/ \E x \in answer.says.checked : x.id = deck[i].rule.id
                          \/ deck[i].rule.id \in answer.says.skipped
                          \/ \E x \in Rule!Coverage(Rules) :
                               x.id = deck[i].rule.id /\ x.status # "implemented"
        BY DEF GapsAreKnown
    <2> DEFINE r == deck[i].rule
    <2>2. r \in Rule!ToSet(Rules)
        BY <1>1, RuleOfDeck
    <2> HIDE DEF r
    <2>3. CASE Rule!Status(r) # "implemented"
        <3>1. [id |-> r.id, status |-> Rule!Status(r)] \in Rule!Coverage(Rules)
            BY <2>2 DEF Rule!Coverage
        <3> QED BY <2>3, <3>1 DEF r
    <2>4. CASE Rule!Status(r) = "implemented"
        <3>1. r.parameter \in Rule!IMPLEMENTED /\ r.parameter \in Rule!DISPATCH
            BY <2>4 DEF Rule!Status, Rule!IMPLEMENTED_PARAMETERS, Rule!IMPLEMENTED, Rule!DISPATCH
        <3>2. CASE r.kind = "scalar"
            <4>1. [id |-> r.id, um |-> Rule!ScalarUm(r)] \in Rule!Checked(Rules)
                BY <2>2, <3>1, <3>2 DEF Rule!Checked, Rule!Scalars, Rule!ToCheck
            <4> QED BY <1>1, <2>1, <4>1, LintAnswer DEF r
        <3>3. CASE r.kind # "scalar"
            <4>1. r.id \in Rule!Skipped(Rules)
                BY <2>2, <3>1, <3>3 DEF Rule!Skipped, Rule!Scalars, Rule!ToCheck
            <4> QED BY <1>1, <2>1, <4>1, LintAnswer DEF r
        <3> QED BY <3>2, <3>3
    <2> QED BY <2>3, <2>4
<1> QED BY <1>1, PkgtkInvHolds, PTL

\* A scalar rule that raises no flag of the battery and has a unit has one that the
\* battery and lint know, and a length within the window of its parameter.
LEMMA UnflaggedIsPlausible ==
    ASSUME NEW c, NEW second, c.rule # None, c.rule.kind = "scalar", c.rule.units # "none",
           c.rule.parameter \in DOMAIN Rule!PLAUSIBLE,
           Rule!Flags(c, second) \cap {"REVIEW unknown units", "REJECT implausible"} = {}
    PROVE  /\ c.rule.units \in {"um", "mm", "nm"}
           /\ Rule!Length(c.rule.number, c.rule.units) \in
                Rule!PLAUSIBLE[c.rule.parameter].lo .. Rule!PLAUSIBLE[c.rule.parameter].hi
<1>1. Rule!PhysicsFlags(c) \subseteq Rule!Flags(c, second)
    BY DEF Rule!Flags
<1>2. "REVIEW unknown units" \notin Rule!PhysicsFlags(c) /\ "REJECT implausible" \notin Rule!PhysicsFlags(c)
    BY <1>1
<1>3. <<c.rule.units, Rule!PLAUSIBLE[c.rule.parameter].canon>> \in Rule!TO
    BY <1>2 DEF Rule!PhysicsFlags, Rule!Absent
<1>4. c.rule.units \in {"um", "mm", "nm"}
    BY <1>3 DEF Rule!TO
<1>5. Rule!Length(c.rule.number, c.rule.units) \in
        Rule!PLAUSIBLE[c.rule.parameter].lo .. Rule!PLAUSIBLE[c.rule.parameter].hi
    BY <1>2, <1>3 DEF Rule!PhysicsFlags, Rule!Absent
<1> QED BY <1>4, <1>5

\* A rule that the battery accepted on its own is checked at the length its number
\* and unit say, within the window of its parameter (battery.py:60-161, cli/check.py:23-46).
THEOREM BatteryAndLintAgree == Spec => []AcceptedIsChecked
<1>1. ASSUME Inv PROVE AcceptedIsChecked
    <2>1. SUFFICES ASSUME answer.tool = "lint", ~ answer.says.raised, NEW i \in DOMAIN deck,
                          deck[i].by = "battery", deck[i].rule.parameter \in Rule!IMPLEMENTED,
                          deck[i].rule.id \notin answer.says.skipped
                   PROVE  \E x \in {x \in answer.says.checked : x.id = deck[i].rule.id} :
                            /\ x.um = Rule!Length(deck[i].rule.number, deck[i].rule.units)
                            /\ x.um >= Rule!PLAUSIBLE[deck[i].rule.parameter].lo
                            /\ x.um <= Rule!PLAUSIBLE[deck[i].rule.parameter].hi
        BY DEF AcceptedIsChecked
    <2> DEFINE r == deck[i].rule
    <2>2. r \in Rule!ToSet(Rules) /\ i \in DOMAIN Rules /\ Rules[i] = r
        BY <1>1, RuleOfDeck
    <2>3. PICK c \in Candidates : c[1].rule = r /\ r # None /\ Rule!Decide(c[1], c[2]) = "accept"
        BY <1>1, <2>1, RuleOfDeck
    <2>4. r.kind = "scalar"
        <3>1. SUFFICES ASSUME r.kind # "scalar" PROVE FALSE
            OBVIOUS
        <3>2. r \in Rule!ToCheck(Rules) \ Rule!Scalars(Rules)
            BY <2>1, <2>2, <3>1 DEF Rule!ToCheck, Rule!Scalars
        <3> QED BY <1>1, <2>1, <3>2, LintAnswer DEF Rule!Skipped
    <2>5. r.units # "none"
        <3>1. Rule!ValidRule(Rules[i])
            BY <1>1, <2>1, <2>2, LintAnswer DEF Rule!LoadRaises
        <3> QED BY <2>2, <2>4, <3>1 DEF Rule!ValidRule, Rule!Absent
    <2>6. r.parameter \in DOMAIN Rule!PLAUSIBLE /\ r.parameter \in Rule!DISPATCH
        BY <2>1 DEF Rule!PLAUSIBLE, Rule!DISPATCH, Rule!IMPLEMENTED
    <2>7. Rule!Flags(c[1], c[2]) = {}
        BY <2>3 DEF Rule!Decide
    <2>8. /\ r.units \in {"um", "mm", "nm"}
          /\ Rule!Length(r.number, r.units) \in
               Rule!PLAUSIBLE[r.parameter].lo .. Rule!PLAUSIBLE[r.parameter].hi
        BY <2>3, <2>4, <2>5, <2>6, <2>7, UnflaggedIsPlausible
    <2> DEFINE x == [id |-> r.id, um |-> Rule!ScalarUm(r)]
    <2>9. x \in answer.says.checked
        <3>1. x \in Rule!Checked(Rules)
            BY <2>1, <2>2, <2>4, <2>6 DEF Rule!Checked, Rule!Scalars, Rule!ToCheck
        <3> QED BY <1>1, <2>1, <3>1, LintAnswer
    <2>10. x.um = Rule!Length(r.number, r.units)
        BY <2>8 DEF Rule!ScalarUm
    <2>11. /\ x.um >= Rule!PLAUSIBLE[r.parameter].lo
           /\ x.um <= Rule!PLAUSIBLE[r.parameter].hi
        BY <2>8, <2>10
    <2> QED BY <2>9, <2>10, <2>11
<1> QED BY <1>1, PkgtkInvHolds, PTL

LEMMA DivBelow ==
    ASSUME NEW a \in Int, NEW b \in Int, b > 0
    PROVE  a \div b \in Int /\ b * (a \div b) <= a
OBVIOUS

\* In a deck in um that is not refused, the line and the space are of a rule whose
\* number is within its window, which is above 0.
LEMMA LineInWindow ==
    ASSUME Inv, ~ Rule!EscapeRaises(Rules), \A i \in DOMAIN deck : deck[i].rule.units = "um",
           NEW p \in {"trace_width_min", "spacing_min"}
    PROVE  Rule!Line(Rules, p, "signal") \in Nat \ {0}
<1> DEFINE found == {i \in DOMAIN Rules : /\ Rules[i].parameter = p
                                          /\ Rules[i].kind = "scalar"
                                          /\ Rules[i].layer \in {Rule!Absent, "signal"}}
<1>1. Rule!Line(Rules, p, "signal") = IF found = {} THEN 0 ELSE Rules[Rule!Min(found)].number
    BY DEF Rule!Line
<1>2. found # {}
    BY <1>1 DEF Rule!EscapeRaises
<1>3. found \in SUBSET Nat
    BY DEF Inv, DeckInv, Rules
<1>4. Rule!Min(found) \in found
    <2> HIDE DEF found
    <2> QED BY <1>2, <1>3, Smallest DEF Rule!Min
<1>5. PICK i \in DOMAIN Rules : /\ Rules[i].parameter = p /\ Rules[i].kind = "scalar"
                                /\ Rule!Line(Rules, p, "signal") = Rules[i].number
    BY <1>1, <1>2, <1>4
<1>6. i \in DOMAIN deck /\ Rules[i] = deck[i].rule
    BY DEF Rules
<1> DEFINE r == deck[i].rule
<1>7. PICK c \in Candidates : /\ c[1].rule = r /\ r # None
                              /\ Rule!Decide(c[1], c[2]) \in {"accept", "review"}
    BY <1>6, RuleOfDeck
<1>8. r.number \in Int /\ r.units = "um" /\ r.parameter = p /\ r.kind = "scalar"
    BY <1>5, <1>6, <1>7, NumbersAssumption
<1>9. "REJECT implausible" \notin Rule!PhysicsFlags(c[1])
    BY <1>7 DEF Rule!Decide, Rule!Flags, Rule!Rejections
<1>10. /\ p \in DOMAIN Rule!PLAUSIBLE /\ Rule!PLAUSIBLE[p].canon = "um"
       /\ Rule!PLAUSIBLE[p].lo \in Nat \ {0} /\ Rule!PLAUSIBLE[p].hi \in Nat
    BY SMT DEF Rule!PLAUSIBLE, Rule!Window
<1>11. <<"um", "um">> \in Rule!TO
    BY DEF Rule!TO
<1>12. Rule!Length(r.number, "um") \in Rule!PLAUSIBLE[p].lo .. Rule!PLAUSIBLE[p].hi
    BY <1>7, <1>8, <1>9, <1>10, <1>11 DEF Rule!PhysicsFlags, Rule!Absent
<1>13. Rule!Length(r.number, "um") = r.number
    BY <1>8 DEF Rule!Length, Rule!Factor
<1> QED BY <1>5, <1>6, <1>8, <1>10, <1>12, <1>13

\* A region that escape calls feasible has, in each channel, room for so many tracks
\* that the demand fits (escape.py:23-69).
THEOREM FeasibleHasRoom == Spec => []FeasibleFits
<1>1. ASSUME Inv PROVE FeasibleFits
    <2> DEFINE line == Rule!Line(Rules, "trace_width_min", "signal")
               space == Rule!Line(Rules, "spacing_min", "signal")
    <2>1. SUFFICES ASSUME answer.tool = "escape", answer.says = "feasible",
                          \A i \in DOMAIN deck : deck[i].rule.units = "um"
                   PROVE  \E n \in 0..answer.asked.demand :
                            /\ RoomFor(n, answer.asked, line, space)
                            /\ answer.asked.demand <= answer.asked.channels * n
        BY DEF FeasibleFits
    <2>2. PICK r \in Regions : answer.asked = r /\ EscapeSays(r) = "feasible"
        BY <1>1, <2>1 DEF Inv, AnswerInv, NoAnswer, MapAnswer, DeckAnswer, Answered
    <2>3. ~ Rule!EscapeRaises(Rules) /\ Rule!Feasible(Rules, r)
        BY <2>2 DEF EscapeSays
    <2>4. line \in Nat \ {0} /\ space \in Nat \ {0}
        BY <1>1, <2>1, <2>3, LineInWindow
    <2>5. r.pitch \in Int /\ r.land \in Int /\ r.channels \in Nat /\ r.demand \in Nat
        BY NumbersAssumption
    <2> DEFINE gap == r.pitch - r.land - space
               q == gap \div (line + space)
               n == Rule!NTracks(r, line, space)
    <2>6. r.demand <= r.channels * n
        BY <2>3 DEF Rule!Feasible
    <2> HIDE DEF line, space
    <2>7. q \in Int /\ (line + space) * q <= gap
        BY <2>4, <2>5, DivBelow
    <2>8. n = IF q > 0 THEN q ELSE 0
        <3> HIDE DEF q
        <3>1. Rule!Max({0, q}) = IF q > 0 THEN q ELSE 0
            BY <2>7 DEF Rule!Max
        <3> QED BY <3>1 DEF Rule!NTracks, q
    <2> DEFINE m == IF n < r.demand THEN n ELSE r.demand
    <2>9. n \in Nat /\ m \in 0..r.demand
        BY <2>5, <2>7, <2>8
    <2>10. RoomFor(m, r, line, space)
        <3>1. CASE m = 0
            BY <3>1 DEF RoomFor
        <3>2. CASE m # 0
            <4>1. m \in Nat /\ m <= q /\ q \in Nat
                BY <2>5, <2>7, <2>8, <2>9, <3>2
            <4> HIDE DEF m, q, n
            <4>2. m * (line + space) <= q * (line + space)
                BY <2>4, <4>1
            <4>3. q * (line + space) <= gap
                BY <2>4, <2>7, <4>1
            <4> DEFINE need == m * (line + space)
            <4>4. need \in Int /\ need <= gap
                BY <2>4, <2>5, <4>1, <4>2, <4>3
            <4> HIDE DEF need
            <4>5. r.land + space + need <= r.pitch
                BY <2>4, <2>5, <4>4
            <4> QED BY <4>5 DEF RoomFor, need
        <3> QED BY <3>1, <3>2
    <2>11. r.demand <= r.channels * m
        <3>1. CASE m = n
            BY <2>6, <3>1
        <3>2. CASE m = r.demand /\ r.channels >= 1
            BY <2>5, <3>2
        <3>3. CASE m = r.demand /\ r.channels = 0
            <4>1. r.channels * n = 0
                BY <2>9, <3>3
            <4> QED BY <2>5, <2>6, <3>3, <4>1
        <3> QED BY <2>5, <3>1, <3>2, <3>3
    <2> QED BY <2>2, <2>9, <2>10, <2>11
<1> QED BY <1>1, PkgtkInvHolds, PTL

-----------------------------------------------------------------------------
(* The order in which a process lists neighbours makes no difference where    *)
(* there is but one to list.                                                 *)

Ranks(s, g) == \A n \in NodesOf(g) : s[n.id] \in Nat

LEMMA OrdersRank ==
    ASSUME NEW s \in Orders, NEW d \in DOMAIN CaseOf, NEW g \in GraphsOf(d)
    PROVE  Ranks(s, g)
BY SeedsAssumption DEF Ranks

LEMMA FirstOfOne ==
    ASSUME NEW S, NEW s, NEW x \in S, \A y \in S : y = x, s[x.id] \in Int
    PROVE  First(S, s) = x
<1>1. S = {x}
    OBVIOUS
<1>2. \E n \in S : \A m \in S : s[n.id] <= s[m.id]
    BY <1>1
<1> QED BY <1>1, <1>2 DEF First

\* The interface and the role of a ball with at most one net.
LEMMA AttributesOfBall ==
    ASSUME NEW g, NEW b, \A m, n \in NetsOfBall(g, b) : m = n, NEW s, Ranks(s, g)
    PROVE  /\ \A n \in NetsOfBall(g, b) :
                /\ BallInterface(g, b, s) = IF b.interface # Absent THEN b.interface ELSE n.interface
                /\ BallRole(g, b, s) = IF b.role # Absent THEN b.role ELSE n.role
           /\ NetsOfBall(g, b) = {} =>
                BallInterface(g, b, s) = b.interface /\ BallRole(g, b, s) = b.role
<1>1. ASSUME NEW n \in NetsOfBall(g, b)
      PROVE  BallInterface(g, b, s) = IF b.interface # Absent THEN b.interface ELSE n.interface
    <2> DEFINE nets == {m \in NetsOfBall(g, b) : m.interface # Absent}
    <2>1. s[n.id] \in Int
        BY DEF Ranks, NetsOfBall, Neighbors
    <2>2. CASE n.interface # Absent
        <3>1. n \in nets /\ \A y \in nets : y = n
            BY <2>2
        <3>2. First(nets, s) = n
            BY <2>1, <3>1, FirstOfOne
        <3> QED BY <3>1, <3>2 DEF BallInterface
    <2>3. CASE n.interface = Absent
        <3>1. nets = {}
            BY <2>3
        <3> QED BY <2>3, <3>1 DEF BallInterface
    <2> QED BY <2>2, <2>3
<1>2. ASSUME NEW n \in NetsOfBall(g, b)
      PROVE  BallRole(g, b, s) = IF b.role # Absent THEN b.role ELSE n.role
    <2>1. s[n.id] \in Int
        BY DEF Ranks, NetsOfBall, Neighbors
    <2>2. First(NetsOfBall(g, b), s) = n
        BY <2>1, FirstOfOne
    <2> QED BY <2>2 DEF BallRole
<1>3. ASSUME NetsOfBall(g, b) = {}
      PROVE  BallInterface(g, b, s) = b.interface /\ BallRole(g, b, s) = b.role
    BY <1>3 DEF BallInterface, BallRole
<1> QED BY <1>1, <1>2, <1>3

\* Of the things that a process may list first, one is listed first.
LEMMA FirstIsOne ==
    ASSUME NEW g, NEW s, Ranks(s, g), NEW S \in SUBSET NodesOf(g), S # {}
    PROVE  First(S, s) \in S
<1> DEFINE R == {s[n.id] : n \in S}
<1>1. R \in SUBSET Nat /\ R # {}
    <2>1. \A n \in S : s[n.id] \in Nat
        BY DEF Ranks
    <2>2. PICK n \in S : TRUE
        OBVIOUS
    <2>3. s[n.id] \in R
        OBVIOUS
    <2> QED BY <2>1, <2>3
<1>2. PICK x \in R : \A y \in R : x <= y
    <2> HIDE DEF R
    <2> QED BY <1>1, Smallest
<1>3. PICK n \in S : x = s[n.id]
    BY <1>2
<1>4. \A m \in S : s[n.id] <= s[m.id]
    BY <1>2, <1>3
<1> QED BY <1>3, <1>4 DEF First

\* What a process takes for the interface of a ball is one it may be given.
LEMMA InterfaceIsOne ==
    ASSUME NEW g, NEW b, NEW s, Ranks(s, g)
    PROVE  IF InterfacesOf(g, b) = {} THEN BallInterface(g, b, s) = Absent
           ELSE BallInterface(g, b, s) \in InterfacesOf(g, b)
<1> DEFINE nets == {n \in NetsOfBall(g, b) : n.interface # Absent}
<1>1. CASE b.interface # Absent
    BY <1>1 DEF InterfacesOf, BallInterface
<1>2. CASE b.interface = Absent /\ nets = {}
    <2>1. InterfacesOf(g, b) = {}
        BY <1>2 DEF InterfacesOf
    <2> QED BY <1>2, <2>1 DEF BallInterface
<1>3. CASE b.interface = Absent /\ nets # {}
    <2>1. nets \in SUBSET NodesOf(g)
        BY DEF NetsOfBall, Neighbors
    <2>2. First(nets, s) \in nets
        <3> HIDE DEF nets
        <3> QED BY <1>3, <2>1, FirstIsOne
    <2>3. BallInterface(g, b, s) = First(nets, s).interface
        BY <1>3 DEF BallInterface
    <2>4. First(nets, s).interface \in InterfacesOf(g, b)
        BY <1>3, <2>2 DEF InterfacesOf
    <2> QED BY <2>3, <2>4
<1> QED BY <1>1, <1>2, <1>3

LEMMA RoleIsOne ==
    ASSUME NEW g, NEW b, NEW s, Ranks(s, g), NetsOfBall(g, b) # {}
    PROVE  BallRole(g, b, s) \in RolesOf(g, b)
<1>1. NetsOfBall(g, b) \in SUBSET NodesOf(g)
    BY DEF NetsOfBall, Neighbors
<1>2. First(NetsOfBall(g, b), s) \in NetsOfBall(g, b)
    BY <1>1, FirstIsOne
<1> QED BY <1>2 DEF BallRole, RolesOf

\* Where no ball wavers the grounds of an interface are the same in every process.
LEMMA SameGrounds ==
    ASSUME NEW g, NEW s, Ranks(s, g), NEW t, Ranks(t, g), NEW i, i # Absent, ~ Wavers(g, i)
    PROVE  InsideOf(g, i, s) = InsideOf(g, i, t) /\ GroundsOf(g, i, s) = GroundsOf(g, i, t)
<1>1. ASSUME NEW b \in Balls(g), NEW r, NEW u, Ranks(r, g), Ranks(u, g),
             BallInterface(g, b, r) = i
      PROVE  BallInterface(g, b, u) = i /\ BallRole(g, b, u) = BallRole(g, b, r)
    <2>1. i \in InterfacesOf(g, b)
        BY <1>1, InterfaceIsOne
    <2>2. /\ \A x, y \in InterfacesOf(g, b) : x = y
          /\ \A x, y \in RolesOf(g, b) : x = y
        BY <2>1 DEF Wavers
    <2>3. BallInterface(g, b, u) \in InterfacesOf(g, b)
        BY <1>1, <2>1, InterfaceIsOne
    <2>4. BallInterface(g, b, u) = i
        BY <2>1, <2>2, <2>3
    <2>5. CASE NetsOfBall(g, b) = {}
        BY <2>4, <2>5 DEF BallRole
    <2>6. CASE NetsOfBall(g, b) # {}
        <3>1. BallRole(g, b, u) \in RolesOf(g, b) /\ BallRole(g, b, r) \in RolesOf(g, b)
            BY <1>1, <2>6, RoleIsOne
        <3> QED BY <2>2, <2>4, <3>1
    <2> QED BY <2>5, <2>6
<1>2. \A b \in Balls(g) : BallInterface(g, b, s) = i <=> BallInterface(g, b, t) = i
    BY <1>1
<1>3. \A b \in Balls(g) : BallInterface(g, b, s) = i => BallRole(g, b, s) = BallRole(g, b, t)
    BY <1>1
<1>4. InsideOf(g, i, s) = InsideOf(g, i, t)
    BY <1>2 DEF InsideOf
<1> QED BY <1>2, <1>3, <1>4 DEF GroundsOf, InsideOf

LEMMA GroundsMayDiffer ==
    ASSUME NEW g, NEW c, Absent \notin DOMAIN c.grounds, NEW s, Ranks(s, g), NEW t, Ranks(t, g),
           NEW v \in CheckGrounds(g, c, s), v \notin CheckGrounds(g, c, t)
    PROVE  MayDiffer(g, v)
<1> DEFINE Entry1(i, r) == <<"grounds_missing", i, Cardinality(GroundsOf(g, i, r)),
                            RequiredGrounds(c.grounds[i], Cardinality(InsideOf(g, i, r)))>>
<1>1. PICK i \in DOMAIN c.grounds : v = Entry1(i, s) /\ ~ Grounded(g, c, s, i)
    BY DEF CheckGrounds, Grounded
<1>2. SUFFICES ASSUME ~ Wavers(g, i) PROVE FALSE
    BY <1>1 DEF MayDiffer
<1>3. InsideOf(g, i, s) = InsideOf(g, i, t) /\ GroundsOf(g, i, s) = GroundsOf(g, i, t)
    BY <1>1, <1>2, SameGrounds
<1>4. Entry1(i, t) = Entry1(i, s) /\ ~ Grounded(g, c, t, i)
    BY <1>1, <1>3 DEF Grounded
<1>5. Entry1(i, t) \in CheckGrounds(g, c, t)
    BY <1>4 DEF CheckGrounds, Grounded
<1> QED BY <1>1, <1>4, <1>5

\* The position that is taken of a net whose balls have one position.
LEMMA GridOfOnePosition ==
    ASSUME NEW g, IsGraph(g), NEW s, Ranks(s, g), NEW t, Ranks(t, g), NEW name, ~ Spread(g, name)
    PROVE  BallGridOfNet(g, name, s) = BallGridOfNet(g, name, t)
<1> DEFINE gridded(n) == {b \in BallsOfNet(g, n) : b.grid # NoGrid}
           found == {i \in DOMAIN g.nodes :
                       /\ g.nodes[i].kind = "substrate_net" /\ g.nodes[i].name = name
                       /\ gridded(g.nodes[i]) # {}}
           n == g.nodes[Min(found)]
           Grid(r) == IF found = {} THEN NoGrid ELSE First(gridded(n), r).grid
<1>1. BallGridOfNet(g, name, s) = Grid(s) /\ BallGridOfNet(g, name, t) = Grid(t)
    BY DEF BallGridOfNet
<1>2. ASSUME found # {} PROVE First(gridded(n), s).grid = First(gridded(n), t).grid
    <2>1. found \in SUBSET Nat
        BY GraphIsFinite
    <2>2. Min(found) \in found
        <3> HIDE DEF found
        <3> QED BY <1>2, <2>1, MinOfIndices
    <2>3. n \in Nets(g) /\ n.name = name /\ gridded(n) # {}
        BY <2>2 DEF Nets, OfKind, NodesOf
    <2> HIDE DEF n, found
    <2>4. gridded(n) \in SUBSET NodesOf(g)
        BY DEF BallsOfNet, Neighbors
    <2>5. First(gridded(n), s) \in gridded(n) /\ First(gridded(n), t) \in gridded(n)
        <3> HIDE DEF gridded
        <3> QED BY <2>3, <2>4, FirstIsOne
    <2> QED BY <2>3, <2>5 DEF Spread
<1> QED BY <1>1, <1>2

LEMMA PairsMayDiffer ==
    ASSUME NEW g, IsGraph(g), NEW c, NEW s, Ranks(s, g), NEW t, Ranks(t, g),
           NEW v \in CheckDiffpairs(g, c, s), v \notin CheckDiffpairs(g, c, t)
    PROVE  /\ MayDiffer(g, v)
           /\ c.adjacency
           /\ \E p \in Positives(g) : Spread(g, p) \/ Spread(g, PartnerOf[p])
<1> DEFINE At(p, r) == BallGridOfNet(g, p, r)
           Apart(p, r) == Distance(At(p, r), At(PartnerOf[p], r), Alphabet(c))
           Far(p, r) == /\ c.adjacency
                        /\ PartnerOf[p] \in Names(g)
                        /\ At(p, r) # NoGrid /\ At(PartnerOf[p], r) # NoGrid
                        /\ Apart(p, r) # 1
           Lone == {<<"missing_partner", p>> : p \in {p \in Positives(g) : PartnerOf[p] \notin Names(g)}}
           Wide(r) == {<<"not_adjacent", p, Apart(p, r)>> : p \in {p \in Positives(g) : Far(p, r)}}
<1>1. CheckDiffpairs(g, c, s) = Lone \cup Wide(s) /\ CheckDiffpairs(g, c, t) = Lone \cup Wide(t)
    BY DEF CheckDiffpairs
<1>2. v \in Wide(s) /\ v \notin Wide(t)
    <2> HIDE DEF Lone, Wide
    <2> QED BY <1>1
<1>3. PICK p \in Positives(g) : v = <<"not_adjacent", p, Apart(p, s)>> /\ Far(p, s)
    BY <1>2
<1>4. SUFFICES ASSUME ~ (Spread(g, p) \/ Spread(g, PartnerOf[p])) PROVE FALSE
    BY <1>3 DEF MayDiffer
<1>5. At(p, s) = At(p, t) /\ At(PartnerOf[p], s) = At(PartnerOf[p], t)
    BY <1>4, GridOfOnePosition
<1>6. Far(p, t) /\ Apart(p, t) = Apart(p, s)
    BY <1>3, <1>5
<1> HIDE DEF Far, Apart
<1> QED BY <1>2, <1>3, <1>6

\* What two processes report differently is what may differ.
LEMMA ReportsMayDiffer ==
    ASSUME NEW g, IsGraph(g), NEW c, Absent \notin DOMAIN c.grounds,
           NEW s, Ranks(s, g), NEW t, Ranks(t, g),
           NEW v \in Reported(g, c, s), v \notin RunAll(g, c, t)
    PROVE  MayDiffer(g, v)
<1>1. v \in RunAll(g, c, s)
    BY DEF Reported
<1>2. \/ v \in CheckGrounds(g, c, s) /\ v \notin CheckGrounds(g, c, t)
      \/ v \in CheckDiffpairs(g, c, s) /\ v \notin CheckDiffpairs(g, c, t)
    BY <1>1 DEF RunAll
<1> QED BY <1>2, GroundsMayDiffer, PairsMayDiffer

\* A ball that wavers has two nets, which is a violation of its own.
LEMMA CleanIsSettled ==
    ASSUME NEW g, IsGraph(g), NEW c, NEW s, RunAll(g, c, s) = {}, NEW i
    PROVE  ~ Wavers(g, i)
<1>1. SUFFICES ASSUME NEW b \in Balls(g),
                      \/ \E x, y \in InterfacesOf(g, b) : x # y
                      \/ \E x, y \in RolesOf(g, b) : x # y
               PROVE  FALSE
    BY DEF Wavers
<1>2. \A m, n \in NetsOfBall(g, b) : m = n
    <2>1. ~ (Cardinality(NetsOfBall(g, b)) >= 2)
        BY CleanBijection DEF RunAll
    <2>2. IsFiniteSet(NetsOfBall(g, b))
        BY GraphIsFinite DEF NetsOfBall, Neighbors
    <2> QED BY <2>1, <2>2, FewerThanTwo
<1>3. \A x, y \in InterfacesOf(g, b) : x = y
    BY <1>2 DEF InterfacesOf
<1>4. \A x, y \in RolesOf(g, b) : x = y
    BY <1>2 DEF RolesOf
<1> QED BY <1>1, <1>3, <1>4

\* A graph that verifies in one process verifies in the next, but for adjacency.
LEMMA CleanInEvery ==
    ASSUME NEW g, IsGraph(g), NEW c, Absent \notin DOMAIN c.grounds,
           NEW s, Ranks(s, g), NEW t, Ranks(t, g), RunAll(g, c, s) = {}, RunAll(g, c, t) # {}
    PROVE  c.adjacency /\ \E p \in Positives(g) : Spread(g, p) \/ Spread(g, PartnerOf[p])
<1>1. PICK v \in RunAll(g, c, t) : TRUE
    OBVIOUS
<1>2. \/ v \in CheckGrounds(g, c, t) /\ v \notin CheckGrounds(g, c, s)
      \/ v \in CheckDiffpairs(g, c, t) /\ v \notin CheckDiffpairs(g, c, s)
    BY <1>1 DEF RunAll
<1>3. CASE v \in CheckGrounds(g, c, t) /\ v \notin CheckGrounds(g, c, s)
    <2>1. MayDiffer(g, v)
        BY <1>3, GroundsMayDiffer
    <2>2. v[1] = "grounds_missing"
        BY <1>3 DEF CheckGrounds
    <2> QED BY <2>1, <2>2, CleanIsSettled DEF MayDiffer
<1>4. CASE v \in CheckDiffpairs(g, c, t) /\ v \notin CheckDiffpairs(g, c, s)
    BY <1>4, PairsMayDiffer
<1> QED BY <1>2, <1>3, <1>4

\* No tool leaves the desk.
LEMMA DeskStays == [Next]_vars => desk' = desk
BY DEF Next, MapStep, DeckStep, Noted, Ingest, Edit, Put, Verify, SignOff, Diff, Compare,
       Template, Extract, Review, Accept, Lint, Escape, Says, vars

\* Two processes that verify the same graph list the same violations, whatever order
\* of ids they hash to, but for the grounds of an interface whose balls have nets that
\* disagree and the adjacency of a net with several positions (common.py:88-98).
THEOREM VerdictStable == Spec => VerdictIsStable
<1>1. ASSUME Inv, Inv', [Next]_vars PROVE VerifyAgain
    <2> DEFINE c == CaseOf[desk].config
               g == graph
    <2>1. SUFFICES ASSUME verdict # "none", verdict' # "none", graph' = graph
                   PROVE  /\ \A v \in (report \ report') \cup (report' \ report) : MayDiffer(g, v)
                          /\ \/ verdict' = verdict
                             \/ /\ c.adjacency
                                /\ \E p \in Positives(g) : Spread(g, p) \/ Spread(g, PartnerOf[p])
        BY DEF VerifyAgain
    <2>2. desk' = desk /\ desk # None /\ desk \in DOMAIN CaseOf /\ graph \in GraphsOf(desk)
        BY <1>1, <2>1, DeskStays DEF Inv, MapInv, VerdictInv
    <2>3. PICK s \in Orders : verdict = VerifyGraph(g, c, s) /\ report = Reported(g, c, s)
        BY <1>1, <2>1 DEF Inv, VerdictInv
    <2>4. PICK t \in Orders : /\ verdict' = VerifyGraph(graph', CaseOf[desk'].config, t)
                              /\ report' = Reported(graph', CaseOf[desk'].config, t)
        BY <1>1, <2>1 DEF Inv, VerdictInv
    <2>5. verdict' = VerifyGraph(g, c, t) /\ report' = Reported(g, c, t)
        BY <2>1, <2>2, <2>4
    <2>6. IsGraph(g) /\ Ranks(s, g) /\ Ranks(t, g) /\ Absent \notin DOMAIN c.grounds
        BY <2>2, GraphsAreGraphs, OrdersRank, GroundsAssumption
    <2> HIDE DEF c, g
    <2>7. ASSUME NEW r \in {s, t}, NEW u \in {s, t},
                 NEW v \in Reported(g, c, r), v \notin Reported(g, c, u)
          PROVE  MayDiffer(g, v)
        <3>1. Ranks(r, g) /\ Ranks(u, g)
            BY <2>6
        <3>2. VerifyGraph(g, c, r) = "dirty"
            BY <2>7 DEF Reported
        <3>3. v \notin RunAll(g, c, u)
            BY <2>7, <3>2 DEF Reported, VerifyGraph
        <3> QED BY <2>6, <2>7, <3>1, <3>3, ReportsMayDiffer
    <2>8. \A v \in (report \ report') \cup (report' \ report) : MayDiffer(g, v)
        BY <2>3, <2>5, <2>7
    <2>9. ASSUME verdict' # verdict
          PROVE  c.adjacency /\ \E p \in Positives(g) : Spread(g, p) \/ Spread(g, PartnerOf[p])
        <3>1. \/ RunAll(g, c, s) = {} /\ RunAll(g, c, t) # {}
              \/ RunAll(g, c, t) = {} /\ RunAll(g, c, s) # {}
            BY <2>3, <2>5, <2>9 DEF VerifyGraph
        <3> QED BY <2>6, <3>1, CleanInEvery
    <2> QED BY <2>8, <2>9
<1> QED BY <1>1, PkgtkInvHolds, PTL DEF VerdictIsStable, Spec

-----------------------------------------------------------------------------
(* Rows of letters: two rows with one index are the same row.                *)

LetterOf(row, alphabet, k) == CHOOSE p \in DOMAIN alphabet : alphabet[p] = row[k]

\* The index of each prefix of a row.
IsIndex(w, row, alphabet) ==
    /\ w \in [0..Len(row) -> Nat]
    /\ w[0] = 0
    /\ \A k \in 1..Len(row) : w[k] = w[k - 1] * Len(alphabet) + LetterOf(row, alphabet, k)

Spelt(row, alphabet) ==
    row \in Seq(ToSet(row)) /\ alphabet \in Seq(ToSet(alphabet)) /\ InAlphabet(row, alphabet)

LEMMA LetterIsSpelt ==
    ASSUME NEW row, NEW alphabet, Spelt(row, alphabet), NEW k \in 1..Len(row)
    PROVE  /\ LetterOf(row, alphabet, k) \in 1..Len(alphabet)
           /\ alphabet[LetterOf(row, alphabet, k)] = row[k]
<1>1. row[k] \in ToSet(row)
    BY DEF ToSet, Spelt
<1>2. row[k] \in ToSet(alphabet)
    BY <1>1 DEF Spelt, InAlphabet
<1>3. \E p \in DOMAIN alphabet : alphabet[p] = row[k]
    BY <1>2 DEF ToSet
<1>4. DOMAIN alphabet = 1..Len(alphabet)
    BY DEF Spelt
<1> QED BY <1>3, <1>4 DEF LetterOf

LEMMA IndexExists ==
    ASSUME NEW row, NEW alphabet, Spelt(row, alphabet)
    PROVE  \E w : IsIndex(w, row, alphabet) /\ RowIndex(row, alphabet) = w[Len(row)] - 1
<1> DEFINE N == Len(row)
           B == Len(alphabet)
           Grow(x, k) == x * B + LetterOf(row, alphabet, k)
           Step == [p \in Nat \X (1..N) |-> Grow(p[1], p[2])]
           Eqn(w) == w = [k \in 0..N |-> IF k = 0 THEN 0 ELSE Grow(w[k - 1], k)]
           W == CHOOSE w : Eqn(w)
<1>1. RowIndex(row, alphabet) = W[N] - 1
    BY DEF RowIndex, LetterOf
<1>2. N \in Nat /\ B \in Nat
    BY DEF Spelt
<1>3. ASSUME NEW x \in Nat, NEW k \in 1..N PROVE Grow(x, k) \in Nat
    <2>1. LetterOf(row, alphabet, k) \in Nat
        BY <1>2, LetterIsSpelt
    <2>2. x * B \in Nat
        BY <1>2
    <2> QED BY <2>1, <2>2
<1> HIDE DEF N, B, Grow
<1>4. Step \in Steps(Nat, N)
    BY <1>3 DEF Steps
<1> HIDE DEF Step
<1>5. PICK f : IsRecursion(f, Nat, 0, N, Step)
    BY <1>2, <1>4, Recursion
<1>6. ASSUME NEW k \in 1..N PROVE f[k] = Grow(f[k - 1], k)
    <2>1. <<f[k - 1], k>> \in Nat \X (1..N)
        BY <1>2, <1>5 DEF IsRecursion
    <2> QED BY <1>5, <2>1 DEF Step, IsRecursion
<1>7. Eqn(f)
    BY <1>2, <1>5, <1>6 DEF IsRecursion
<1>8. Eqn(W)
    BY <1>7
<1> HIDE DEF W
<1>9. W[0] = 0 /\ \A k \in 1..N : W[k] = Grow(W[k - 1], k)
    BY <1>2, <1>8
<1>10. \A k \in 0..N : W[k] \in Nat
    <2>1. ASSUME NEW n \in 0..N PROVE W[n] \in Nat
        <3>1. \A k \in 1..n : W[k - 1] \in Nat => W[k] \in Nat
            BY <1>2, <1>3, <1>9
        <3>2. n \in Nat /\ W[0] \in Nat
            BY <1>2, <1>9
        <3> QED BY <3>1, <3>2, RecursionKeeps
    <2> QED BY <2>1
<1>11. W \in [0..N -> Nat]
    BY <1>8, <1>10
<1> QED BY <1>1, <1>9, <1>11 DEF IsIndex, N, B, Grow

LEMMA SameDigit ==
    ASSUME NEW a \in Nat, NEW b \in Nat, NEW B \in Nat, NEW d \in 1..B, NEW e \in 1..B,
           a * B + d = b * B + e
    PROVE  a = b /\ d = e
<1>1. ASSUME NEW x \in Nat, NEW y \in Nat, NEW u \in 1..B, NEW v \in 1..B, x < y
      PROVE  x * B + u < y * B + v
    <2>1. y * B >= (x + 1) * B
        BY <1>1
    <2>2. (x + 1) * B = x * B + B
        OBVIOUS
    <2>3. x * B \in Int /\ y * B \in Int
        OBVIOUS
    <2> HIDE <1>1
    <2> QED BY <2>1, <2>2, <2>3
<1>2. a = b
    <2>1. ~ (a < b)
        BY <1>1
    <2>2. ~ (b < a)
        BY <1>1
    <2> QED BY <2>1, <2>2
<1>3. d = e
    <2>1. a * B \in Int
        OBVIOUS
    <2> QED BY <1>2, <2>1
<1> QED BY <1>2, <1>3

\* Prefixes with the same index have the same length and the same letters.
LEMMA SamePrefix ==
    ASSUME NEW alphabet, NEW p, Spelt(p, alphabet), NEW q, Spelt(q, alphabet),
           NEW v, IsIndex(v, p, alphabet), NEW w, IsIndex(w, q, alphabet),
           v[Len(p)] = w[Len(q)]
    PROVE  p = q
<1> DEFINE Same(m) == \A j \in 0..Len(q) : v[m] = w[j] => m = j /\ \A k \in 1..m : p[k] = q[k]
           T == {m \in Nat : m <= Len(p) => Same(m)}
           B == Len(alphabet)
<1>0. Len(p) \in Nat /\ Len(q) \in Nat /\ B \in Nat
    BY DEF Spelt
<1>1. ASSUME NEW j \in 1..Len(q)
      PROVE  /\ j - 1 \in 0..Len(q) /\ w[j - 1] \in Nat /\ LetterOf(q, alphabet, j) \in 1..B
             /\ w[j] = w[j - 1] * B + LetterOf(q, alphabet, j)
             /\ w[j] > 0
    <2>1. j - 1 \in 0..Len(q) /\ w[j - 1] \in Nat /\ LetterOf(q, alphabet, j) \in 1..B
        <3>1. j - 1 \in 0..Len(q)
            BY <1>0
        <3>2. w[j - 1] \in Nat
            BY <3>1 DEF IsIndex
        <3>3. LetterOf(q, alphabet, j) \in 1..B
            BY LetterIsSpelt
        <3> QED BY <3>1, <3>2, <3>3
    <2>2. w[j] = w[j - 1] * B + LetterOf(q, alphabet, j)
        BY DEF IsIndex
    <2>3. w[j - 1] * B \in Nat
        BY <1>0, <2>1
    <2> QED BY <1>0, <2>1, <2>2, <2>3
<1>2. 0 \in T
    <2>1. v[0] = 0
        BY DEF IsIndex
    <2>2. ASSUME NEW j \in 0..Len(q), v[0] = w[j] PROVE j = 0
        BY <1>0, <1>1, <2>1, <2>2
    <2> QED BY <2>2
<1>3. ASSUME NEW m \in Nat, m \in T PROVE m + 1 \in T
    <2>1. SUFFICES ASSUME m + 1 <= Len(p), NEW j \in 0..Len(q), v[m + 1] = w[j]
                   PROVE  m + 1 = j /\ \A k \in 1..(m + 1) : p[k] = q[k]
        OBVIOUS
    <2>2. m + 1 \in 1..Len(p) /\ (m + 1) - 1 = m /\ m \in 0..Len(p) /\ m <= Len(p)
        BY <1>0, <2>1
    <2>3. /\ v[m] \in Nat /\ LetterOf(p, alphabet, m + 1) \in 1..B
          /\ v[m + 1] = v[m] * B + LetterOf(p, alphabet, m + 1)
        BY <2>2, LetterIsSpelt DEF IsIndex
    <2>4. v[m + 1] > 0
        <3>1. v[m] * B \in Nat
            BY <1>0, <2>3
        <3> QED BY <1>0, <2>3, <3>1
    <2>5. j \in 1..Len(q)
        <3>1. w[0] = 0
            BY DEF IsIndex
        <3> QED BY <1>0, <2>1, <2>4, <3>1
    <2>6. /\ j - 1 \in 0..Len(q) /\ w[j - 1] \in Nat /\ LetterOf(q, alphabet, j) \in 1..B
          /\ w[j] = w[j - 1] * B + LetterOf(q, alphabet, j)
        BY <1>1, <2>5
    <2>7. v[m] = w[j - 1] /\ LetterOf(p, alphabet, m + 1) = LetterOf(q, alphabet, j)
        <3>1. v[m] * B + LetterOf(p, alphabet, m + 1) = w[j - 1] * B + LetterOf(q, alphabet, j)
            BY <2>1, <2>3, <2>6
        <3> DEFINE a == v[m]
                   b == w[j - 1]
                   d == LetterOf(p, alphabet, m + 1)
                   e == LetterOf(q, alphabet, j)
        <3>2. a \in Nat /\ b \in Nat /\ B \in Nat /\ d \in 1..B /\ e \in 1..B
            BY <1>0, <2>3, <2>6
        <3>3. a * B + d = b * B + e
            BY <3>1
        <3> HIDE DEF a, b, d, e, B
        <3>4. a = b /\ d = e
            BY <3>2, <3>3, SameDigit
        <3> QED BY <3>4 DEF a, b, d, e
    <2>8. m = j - 1 /\ \A k \in 1..m : p[k] = q[k]
        BY <1>3, <2>2, <2>6, <2>7
    <2>9. p[m + 1] = q[j] /\ m + 1 = j
        <3>1. alphabet[LetterOf(p, alphabet, m + 1)] = p[m + 1]
            BY <2>2, LetterIsSpelt
        <3>2. alphabet[LetterOf(q, alphabet, j)] = q[j]
            BY <2>5, LetterIsSpelt
        <3> QED BY <2>7, <2>8, <3>1, <3>2
    <2>10. ASSUME NEW k \in 1..(m + 1) PROVE p[k] = q[k]
        <3>1. CASE k = m + 1
            BY <2>9, <3>1
        <3>2. CASE k # m + 1
            BY <2>8, <3>2
        <3> QED BY <3>1, <3>2
    <2> QED BY <2>9, <2>10
<1> HIDE DEF T
<1>4. Nat \subseteq T
    BY <1>2, <1>3, NatSetInduction
<1>5. Same(Len(p))
    <2>1. Len(p) \in T
        BY <1>0, <1>4
    <2> QED BY <1>0, <2>1 DEF T
<1>6. Len(p) = Len(q) /\ \A k \in 1..Len(p) : p[k] = q[k]
    BY <1>0, <1>5
<1>7. p \in Seq(ToSet(p)) /\ q \in Seq(ToSet(q))
    BY DEF Spelt
<1> QED BY <1>6, <1>7, SeqEqual

\* Two rows of an alphabet, of whatever lengths, never get the same number: row_index is
\* the bijective base its docstring speaks of, also past the last single letter
\* (checks/common.py).
THEOREM RowIndexInjective ==
    ASSUME NEW alphabet, NEW p, Spelt(p, alphabet), NEW q, Spelt(q, alphabet),
           RowIndex(p, alphabet) = RowIndex(q, alphabet)
    PROVE  p = q
<1>1. PICK v : IsIndex(v, p, alphabet) /\ RowIndex(p, alphabet) = v[Len(p)] - 1
    BY IndexExists
<1>2. PICK w : IsIndex(w, q, alphabet) /\ RowIndex(q, alphabet) = w[Len(q)] - 1
    BY IndexExists
<1>3. v[Len(p)] \in Nat /\ w[Len(q)] \in Nat
    <2>1. Len(p) \in 0..Len(p) /\ Len(q) \in 0..Len(q)
        BY DEF Spelt
    <2> QED BY <1>1, <1>2, <2>1 DEF IsIndex
<1>4. v[Len(p)] = w[Len(q)]
    <2>1. v[Len(p)] - 1 = w[Len(q)] - 1
        BY <1>1, <1>2
    <2> QED BY <1>3, <2>1
<1> QED BY <1>1, <1>2, <1>4, SamePrefix

-----------------------------------------------------------------------------
(* What verify proves of a graph: the conjuncts of CleanMeansSound.          *)

Positioned(g) ==
    \A b \in Balls(g) : b.grid # NoGrid => b.grid \in Seq(ToSet(b.grid[1])) \X Int

\* A ball that is not nc is at no depopulated position, though the check looks at the
\* last ball of a position only.
LEMMA CleanDepop ==
    ASSUME NEW g, IsGraph(g), Positioned(g), NEW c, NEW s, VerifyGraph(g, c, s) = "clean",
           NEW b \in Balls(g), b.role # "nc", b.grid # NoGrid
    PROVE  ~ Depopulates(c, g, b.grid)
<1> DEFINE A == Alphabet(c)
           gridded == {i \in DOMAIN g.nodes : g.nodes[i].kind = "ball" /\ g.nodes[i].grid # NoGrid}
           row(i)  == RowIndex(g.nodes[i].grid[1], A)
           col(i)  == g.nodes[i].grid[2]
           kept    == {i \in gridded : \A j \in gridded : row(j) = row(i) /\ col(j) = col(i) => j <= i}
           rows1   == {row(i) : i \in gridded}
           cols1   == {col(i) : i \in gridded}
<1>1. Len(g.nodes) \in Nat /\ DOMAIN g.nodes = 1..Len(g.nodes)
    BY GraphIsFinite
<1>2. PICK j \in gridded : g.nodes[j] = b
    BY DEF Balls, OfKind, NodesOf
<1> DEFINE same == {i \in gridded : row(i) = row(j) /\ col(i) = col(j)}
           k == Max(same)
<1>3. k \in same /\ \A i \in same : k >= i
    <2>1. same \in SUBSET (0..Len(g.nodes)) /\ same # {}
        BY <1>1, <1>2
    <2> HIDE DEF same
    <2> QED BY <1>1, <2>1, MaxOfIndices
<1> HIDE DEF k
<1>4. k \in gridded /\ k \in Nat /\ row(k) = row(j) /\ col(k) = col(j)
    BY <1>1, <1>3
<1>5. k \in kept
    <2>1. ASSUME NEW i \in gridded, row(i) = row(k), col(i) = col(k) PROVE i <= k
        <3>1. i \in same /\ i \in Nat
            BY <1>1, <1>4, <2>1
        <3> HIDE DEF same
        <3> QED BY <1>3, <1>4, <3>1
    <2> QED BY <1>4, <2>1
<1> HIDE DEF same
<1>6. A \in Seq(ToSet(A))
    BY PositionsAssumption DEF Alphabet
<1>7. ASSUME NEW i \in gridded
      PROVE  /\ g.nodes[i] \in Balls(g) /\ Spelt(g.nodes[i].grid[1], A)
             /\ g.nodes[i].grid = <<g.nodes[i].grid[1], g.nodes[i].grid[2]>>
    <2>1. g.nodes[i] \in Balls(g) /\ g.nodes[i].grid # NoGrid
        BY DEF Balls, OfKind, NodesOf
    <2>2. g.nodes[i].grid \in Seq(ToSet(g.nodes[i].grid[1])) \X Int
        BY <2>1 DEF Positioned
    <2>3. InAlphabet(g.nodes[i].grid[1], A)
        BY <2>1, CleanGraph DEF ChecksRaise
    <2> QED BY <1>6, <2>1, <2>2, <2>3 DEF Spelt
<1>8. g.nodes[k] = b
    <2>1. g.nodes[k].grid[1] = g.nodes[j].grid[1]
        BY <1>4, <1>7, RowIndexInjective
    <2>2. g.nodes[k].grid = g.nodes[j].grid
        BY <1>4, <1>7, <2>1
    <2> QED BY <1>2, <1>4, <1>7, <2>2, OneBall
<1>9. ~ IsDepop(row(k), col(k), Max(rows1), Max(cols1), c.depop)
    <2>1. SUFFICES ASSUME IsDepop(row(k), col(k), Max(rows1), Max(cols1), c.depop) PROVE FALSE
        OBVIOUS
    <2>2. CheckDepop(g, c) = {}
        BY CleanGraph DEF RunAll
    <2>3. <<"not_nc", g.nodes[k].grid>> \in CheckDepop(g, c)
        BY <1>5, <1>8, <2>1 DEF CheckDepop
    <2> QED BY <2>2, <2>3
<1> DEFINE taken == {x.grid : x \in Balls(g)} \ {NoGrid}
<1>10. rows1 = {RowIndex(q[1], A) : q \in taken} /\ cols1 = {q[2] : q \in taken}
    <2>1. taken = {g.nodes[i].grid : i \in gridded}
        BY DEF Balls, OfKind, NodesOf
    <2> HIDE DEF taken, gridded
    <2> QED BY <2>1
<1>11. row(k) = RowIndex(b.grid[1], A) /\ col(k) = b.grid[2]
    BY <1>8
<1> HIDE DEF row, col, rows1, cols1, taken
<1> QED BY <1>9, <1>10, <1>11 DEF Depopulates, taken

\* The grounds that the check counts of a graph that verifies are balls on ground nets
\* and balls that call themselves grounds, whatever the order.
LEMMA CleanGroundsOf ==
    ASSUME desk # None, desk \in DOMAIN CaseOf, graph \in GraphsOf(desk), NEW s \in Orders,
           VerifyGraph(graph, CaseOf[desk].config, s) = "clean",
           NEW i \in DOMAIN CaseOf[desk].config.grounds, SelfStyled(i) = {}
    PROVE  Cardinality(OnGround(i)) >=
             Owed(CaseOf[desk].config.grounds[i], Cardinality(Inside(i)))
<1> DEFINE c == CaseOf[desk].config
           req == c.grounds[i]
           inside  == InsideOf(graph, i, s)
           grounds == GroundsOf(graph, i, s)
<1>1. IsGraph(graph) /\ Ranks(s, graph) /\ i # Absent
    BY GraphsAreGraphs, OrdersRank, GroundsAssumption
<1>2. \A b \in Balls(graph) : \A m, n \in NetsOfBall(graph, b) : m = n
    BY <1>1, OneNet
<1>3. Inside(i) = inside
    <2>1. ASSUME NEW b \in Balls(graph)
          PROVE  BallInterface(graph, b, s) = i <=>
                    IF b.interface # Absent THEN b.interface = i
                    ELSE \E n \in NetsOfBall(graph, b) : n.interface = i
        <3>1. CASE NetsOfBall(graph, b) = {}
            BY <1>1, <1>2, <3>1, AttributesOfBall
        <3>2. CASE NetsOfBall(graph, b) # {}
            <4>1. PICK n \in NetsOfBall(graph, b) : TRUE
                BY <3>2
            <4>2. BallInterface(graph, b, s) = IF b.interface # Absent THEN b.interface ELSE n.interface
                BY <1>1, <1>2, AttributesOfBall
            <4>3. \A m \in NetsOfBall(graph, b) : m = n
                BY <1>2
            <4> QED BY <4>2, <4>3
        <3> QED BY <3>1, <3>2
    <2> QED BY <2>1 DEF Inside, InsideOf
<1>4. grounds \subseteq OnGround(i)
    <2>1. SUFFICES ASSUME NEW b \in grounds PROVE b \in OnGround(i)
        OBVIOUS
    <2>2. b \in Balls(graph) /\ b \in Inside(i) /\ BallRole(graph, b, s) = "gnd"
        BY <1>3 DEF GroundsOf, InsideOf
    <2>3. CASE b.role = "gnd"
        BY <2>2, <2>3 DEF SelfStyled
    <2>4. CASE b.role # "gnd" /\ NetsOfBall(graph, b) = {}
        BY <1>1, <1>2, <2>2, <2>4, AttributesOfBall
    <2>5. CASE b.role # "gnd" /\ NetsOfBall(graph, b) # {}
        <3>1. PICK n \in NetsOfBall(graph, b) : TRUE
            BY <2>5
        <3>2. BallRole(graph, b, s) = IF b.role # Absent THEN b.role ELSE n.role
            BY <1>1, <1>2, <2>2, AttributesOfBall
        <3>3. n.role = "gnd"
            BY <2>2, <2>5, <3>2
        <3> QED BY <2>2, <3>3 DEF OnGround
    <2> QED BY <2>3, <2>4, <2>5
<1>5. ~ (Cardinality(grounds) < RequiredGrounds(req, Cardinality(inside)))
    <2>1. CheckGrounds(graph, c, s) = {}
        BY CleanGraph DEF RunAll
    <2>2. Grounded(graph, c, s, i)
        BY <2>1, CleanGrounds
    <2> QED BY <2>2 DEF Grounded
<1>6. Cardinality(grounds) \in Nat /\ Cardinality(inside) \in Nat
    BY <1>1, GraphIsFinite DEF Balls, OfKind, InsideOf, GroundsOf
<1>7. Cardinality(OnGround(i)) \in Nat /\ Cardinality(grounds) <= Cardinality(OnGround(i))
    <2>1. IsFiniteSet(OnGround(i)) /\ Cardinality(OnGround(i)) \in Nat
        BY <1>1, GraphIsFinite DEF OnGround, Inside, Balls, OfKind
    <2> HIDE DEF grounds
    <2> QED BY <1>4, <2>1, FS_Subset
<1>8. /\ RequiredGrounds(req, Cardinality(inside)) \in Int
      /\ Owed(req, Cardinality(inside)) \in Int
      /\ RequiredGrounds(req, Cardinality(inside)) >= Owed(req, Cardinality(inside))
    <2>1. \/ req.kind = "min" /\ req.n \in Int
          \/ req.kind = "ratio" /\ req.num \in Int /\ req.den \in Nat \ {0}
          \/ req.kind = "none"
        BY GroundsAssumption
    <2> HIDE DEF req, inside
    <2>2. CASE req.kind = "ratio" /\ req.num \in Int /\ req.den \in Nat \ {0}
        <3> DEFINE a == Cardinality(inside) * req.num
                   of == <<Cardinality(inside), req.num, req.den>>
                   q == a \div req.den
        <3>1. a \in Int
            BY <1>6, <2>2
        <3>2. /\ RequiredGrounds(req, Cardinality(inside)) = q + Missed(of)
              /\ Owed(req, Cardinality(inside)) = q - (IF of \in DOMAIN Rounding THEN 1 ELSE 0)
            BY <2>2 DEF RequiredGrounds, Owed
        <3> HIDE DEF a, of
        <3>3. q \in Int
            BY <2>2, <3>1, DivBelow
        <3> HIDE DEF q
        <3>4. CASE of \in DOMAIN Rounding
            <4>1. Missed(of) \in {-1, 1}
                BY <3>4, RoundingAssumption DEF Missed
            <4> QED BY <3>2, <3>3, <3>4, <4>1
        <3>5. CASE of \notin DOMAIN Rounding
            <4>1. Missed(of) = 0
                BY <3>5 DEF Missed
            <4> QED BY <3>2, <3>3, <3>5, <4>1
        <3> QED BY <3>4, <3>5
    <2> QED BY <2>1, <2>2 DEF RequiredGrounds, Owed
<1> HIDE DEF req, inside, grounds
<1>9. Cardinality(OnGround(i)) >= Owed(req, Cardinality(inside))
    BY <1>5, <1>6, <1>7, <1>8
<1> QED BY <1>3, <1>9 DEF req

\* Where verify exits 0: no die pad is cut off, every ball has its one net, no signal
\* net has several balls, no two balls a position, no ball but nc is depopulated, and
\* every interface has on ground nets the balls it is owed, unless one of its balls calls
\* itself a ground on another net (rules.py).
THEOREM CleanIsSound == Spec => []CleanMeansSound
<1>1. ASSUME Inv PROVE CleanMeansSound
    <2> DEFINE c == CaseOf[desk].config
    <2>1. SUFFICES ASSUME verdict = "clean"
                   PROVE  /\ \A p \in Pads(graph) : ~ CutOff(graph, p)
                          /\ \A b \in Balls(graph) :
                               Cardinality(NetsOfBall(graph, b)) = IF b.role = "nc" THEN 0 ELSE 1
                          /\ \A n \in Nets(graph) :
                               \/ n.role \in {"gnd", "pwr"} \/ n.name \in c.allow
                               \/ Cardinality(BallsOfNet(graph, n)) <= 1
                          /\ \A a, b \in Balls(graph) : a.grid = b.grid /\ a.grid # NoGrid => a = b
                          /\ \A b \in Balls(graph) : b.role # "nc" /\ b.grid # NoGrid =>
                               b.grid \notin CaseOf[desk].depopulated
                          /\ \A i \in DOMAIN c.grounds :
                               \/ SelfStyled(i) # {}
                               \/ Cardinality(OnGround(i)) >=
                                    Owed(c.grounds[i], Cardinality(Inside(i)))
        BY DEF CleanMeansSound
    <2>2. desk # None /\ desk \in DOMAIN CaseOf /\ graph \in GraphsOf(desk) /\ IsGraph(graph)
        BY <1>1, <2>1, GraphsAreGraphs DEF Inv, MapInv, VerdictInv
    <2>3. PICK s \in Orders : VerifyGraph(graph, CaseOf[desk].config, s) = "clean"
        BY <1>1, <2>1 DEF Inv, VerdictInv
    <2> HIDE DEF c
    <2>4. \A p \in Pads(graph) : ~ CutOff(graph, p)
        BY <2>2, <2>3, NoneCutOff
    <2>5. \A b \in Balls(graph) :
            Cardinality(NetsOfBall(graph, b)) = IF b.role = "nc" THEN 0 ELSE 1
        BY <2>2, <2>3, OneNet
    <2>6. ASSUME NEW n \in Nets(graph), n.role \notin {"gnd", "pwr"}, n.name \notin c.allow
          PROVE  Cardinality(BallsOfNet(graph, n)) <= 1
        <3>1. ~ (Cardinality(BallsOfNet(graph, n)) >= 2)
            BY <2>3, <2>6, CleanGraph, CleanBijection DEF RunAll, c
        <3>2. Cardinality(BallsOfNet(graph, n)) \in Nat
            BY <2>2, GraphIsFinite DEF BallsOfNet, Neighbors
        <3> QED BY <3>1, <3>2
    <2>7. \A a, b \in Balls(graph) : a.grid = b.grid /\ a.grid # NoGrid => a = b
        BY <2>2, <2>3, OneBall
    <2>8. ASSUME NEW b \in Balls(graph), b.role # "nc", b.grid # NoGrid
          PROVE  b.grid \notin CaseOf[desk].depopulated
        <3>1. Positioned(graph)
            BY <2>2, PositionsAssumption DEF Positioned
        <3>2. ~ Depopulates(CaseOf[desk].config, graph, b.grid)
            BY <2>2, <2>3, <2>8, <3>1, CleanDepop
        <3> QED BY <2>2, <3>2, DepopulatedAssumption
    <2>9. \A i \in DOMAIN c.grounds :
            \/ SelfStyled(i) # {}
            \/ Cardinality(OnGround(i)) >= Owed(c.grounds[i], Cardinality(Inside(i)))
        BY <2>2, <2>3, CleanGroundsOf DEF c
    <2> QED BY <2>4, <2>5, <2>6, <2>7, <2>8, <2>9
<1> QED BY <1>1, PkgtkInvHolds, PTL

-----------------------------------------------------------------------------
(* What crosscheck adds: a sheet that agrees is a listing of the balls.      *)

LEMMA AgreedSheet ==
    ASSUME NEW g, NEW edge, NEW sheet, NEW columns, CrossCheck(g, edge, sheet, columns) = "agreed"
    PROVE  /\ \A b, d \in Balls(g) : BallKey(b) = BallKey(d) => b = d
           /\ Listed(sheet) = FirstRows(sheet)
           /\ \A i \in Listed(sheet) : \E b \in Balls(g) : sheet[i].ball = BallKey(b)
           /\ \A b \in Balls(g) : \E i \in Listed(sheet) : sheet[i].ball = BallKey(b)
           /\ \A i \in Listed(sheet), b \in Balls(g) : sheet[i].ball = BallKey(b) =>
                /\ Canon(NetOfBall(g, b, edge)) = Canon(sheet[i].net)
                /\ columns # 0 /\ b.xy # Absent => sheet[i].xy # "off"
<1> DEFINE balls == {BallKey(b) : b \in Balls(g)}
           rows1 == {sheet[i] : i \in FirstRows(sheet)}
           met   == {m \in Balls(g) \X rows1 : BallKey(m[1]) = m[2].ball}
<1>1. CrossFindings(g, edge, sheet, columns) = {} /\ ~ DbRaises(g)
    BY DEF CrossCheck
<1>2. \A b, d \in Balls(g) : BallKey(b) = BallKey(d) => b = d
    BY <1>1 DEF DbRaises
<1>3. /\ {<<"missing_in_db", p>> : p \in {r.ball : r \in rows1} \ balls} = {}
      /\ {<<"missing_in_sheet", p>> : p \in balls \ {r.ball : r \in rows1}} = {}
      /\ {<<"net_mismatch", m[2].ball>> : m \in {m \in met :
                Canon(NetOfBall(g, m[1], edge)) # Canon(m[2].net)}} = {}
      /\ {<<"coord_mismatch", m[2].ball>> : m \in {m \in met :
                columns # 0 /\ m[1].xy # Absent /\ m[2].xy = "off"}} = {}
      /\ {<<"duplicate", sheet[i].ball>> : i \in Listed(sheet) \ FirstRows(sheet)} = {}
    BY <1>1 DEF CrossFindings
<1>4. Listed(sheet) = FirstRows(sheet)
    <2>1. Listed(sheet) \ FirstRows(sheet) = {}
        BY <1>3
    <2> QED BY <2>1 DEF FirstRows
<1>5. balls = {r.ball : r \in rows1}
    <2> HIDE DEF balls, rows1
    <2> QED BY <1>3
<1>6. ASSUME NEW i \in Listed(sheet) PROVE \E b \in Balls(g) : sheet[i].ball = BallKey(b)
    <2>1. sheet[i].ball \in balls
        BY <1>4, <1>5
    <2> QED BY <2>1
<1>7. ASSUME NEW b \in Balls(g) PROVE \E i \in Listed(sheet) : sheet[i].ball = BallKey(b)
    <2>1. BallKey(b) \in {r.ball : r \in rows1}
        BY <1>5
    <2> QED BY <1>4, <2>1
<1>8. ASSUME NEW i \in Listed(sheet), NEW b \in Balls(g), sheet[i].ball = BallKey(b)
      PROVE  /\ Canon(NetOfBall(g, b, edge)) = Canon(sheet[i].net)
             /\ columns # 0 /\ b.xy # Absent => sheet[i].xy # "off"
    <2> DEFINE m == <<b, sheet[i]>>
    <2>1. m \in met /\ m[1] = b /\ m[2] = sheet[i]
        BY <1>4, <1>8
    <2> HIDE DEF m, met
    <2>2. Canon(NetOfBall(g, m[1], edge)) = Canon(m[2].net)
        BY <1>3, <2>1
    <2>3. columns # 0 /\ m[1].xy # Absent => m[2].xy # "off"
        BY <1>3, <2>1
    <2> QED BY <2>1, <2>2, <2>3
<1> QED BY <1>2, <1>4, <1>6, <1>7, <1>8

\* Its rows and the balls are as many.
LEMMA AsManyRows ==
    ASSUME NEW g, IsGraph(g), NEW edge, NEW sheet, sheet \in Seq(ToSet(sheet)), NEW columns,
           CrossCheck(g, edge, sheet, columns) = "agreed"
    PROVE  Cardinality(Listed(sheet)) = Cardinality(Balls(g))
<1> DEFINE f == [b \in Balls(g) |-> CHOOSE i \in Listed(sheet) : sheet[i].ball = BallKey(b)]
<1>1. ASSUME NEW b \in Balls(g) PROVE f[b] \in Listed(sheet) /\ sheet[f[b]].ball = BallKey(b)
    <2>1. \E i \in Listed(sheet) : sheet[i].ball = BallKey(b)
        BY AgreedSheet
    <2> QED BY <2>1
<1>2. f \in [Balls(g) -> Listed(sheet)]
    BY <1>1
<1> HIDE DEF f
<1>3. \A a, b \in Balls(g) : f[a] = f[b] => a = b
    BY <1>1, AgreedSheet
<1>4. ASSUME NEW i \in Listed(sheet) PROVE \E b \in Balls(g) : f[b] = i
    <2>1. PICK b \in Balls(g) : sheet[i].ball = BallKey(b)
        BY AgreedSheet
    <2>2. f[b] \in FirstRows(sheet) /\ i \in FirstRows(sheet) /\ sheet[f[b]].ball = sheet[i].ball
        BY <1>1, <2>1, AgreedSheet
    <2>3. f[b] <= i /\ i <= f[b]
        BY <2>2 DEF FirstRows
    <2>4. f[b] \in Nat /\ i \in Nat
        BY <2>2 DEF FirstRows, Listed
    <2> QED BY <2>3, <2>4
<1>5. f \in Bijection(Balls(g), Listed(sheet))
    BY <1>2, <1>3, <1>4 DEF Bijection, Injection, Surjection, IsInjective
<1>6. ExistsBijection(Balls(g), Listed(sheet))
    BY <1>5 DEF ExistsBijection
<1>7. IsFiniteSet(Balls(g))
    BY GraphIsFinite DEF Balls, OfKind
<1> QED BY <1>6, <1>7, FS_Bijection

\* A sheet that agrees with a graph that verifies is its listing: in every row a ball
\* of the graph with its net up to the aliases, and no ball left out
\* (pinmap_crosscheck.py:138-294).
THEOREM AgreedIsTheMap == Spec => []AgreedSheetIsTheMap
<1>1. ASSUME Inv PROVE AgreedSheetIsTheMap
    <2> SUFFICES ASSUME answer.tool = "crosscheck", answer.says = "agreed", verdict = "clean"
                 PROVE  AgreedSheetIsTheMap
        BY DEF AgreedSheetIsTheMap
    <2>1. desk # None /\ desk \in DOMAIN CaseOf /\ graph \in GraphsOf(desk) /\ IsGraph(graph)
        BY <1>1, GraphsAreGraphs DEF Inv, MapInv, VerdictInv
    <2>2. PICK s \in Orders : VerifyGraph(graph, CaseOf[desk].config, s) = "clean"
        BY <1>1 DEF Inv, VerdictInv
    <2>3. PICK edge \in Orders, sheet \in CaseOf[desk].sheets, columns \in 0..2 :
                /\ answer.asked = <<sheet, columns>>
                /\ CrossCheck(graph, edge, sheet, columns) = "agreed"
        BY <1>1 DEF Inv, AnswerInv, NoAnswer, MapAnswer, DeckAnswer, Answered
    <2>4. answer.asked[1] = sheet /\ answer.asked[2] = columns
        BY <2>3
    <2>5. sheet \in Seq(ToSet(sheet)) /\ Ranks(edge, graph)
        BY <2>1, FilesAssumption, OrdersRank
    <2> DEFINE netsOf(b) == IF NetsOfBall(graph, b) = {} THEN {Absent}
                            ELSE {NetName(n) : n \in NetsOfBall(graph, b)}
    <2>6. ASSUME NEW b \in Balls(graph), NEW t \in netsOf(b) PROVE t = NetOfBall(graph, b, edge)
        <3>1. CASE NetsOfBall(graph, b) = {}
            BY <2>6, <3>1 DEF NetOfBall
        <3>2. CASE NetsOfBall(graph, b) # {}
            <4>1. PICK n \in NetsOfBall(graph, b) : t = NetName(n)
                BY <2>6, <3>2
            <4>2. \A m \in NetsOfBall(graph, b) : m = n
                BY <2>1, <2>2, OneNet
            <4>3. edge[n.id] \in Int
                BY <2>5 DEF Ranks, NetsOfBall, Neighbors
            <4>4. First(NetsOfBall(graph, b), edge) = n
                BY <4>2, <4>3, FirstOfOne
            <4> QED BY <3>2, <4>1, <4>4 DEF NetOfBall
        <3> QED BY <3>1, <3>2
    <2>7. ASSUME NEW i \in Listed(sheet)
          PROVE  \E b \in Balls(graph) :
                    /\ sheet[i].ball = BallKey(b)
                    /\ \A t \in netsOf(b) : Canon(t) = Canon(sheet[i].net)
                    /\ columns # 0 /\ b.xy # Absent => sheet[i].xy # "off"
        <3>1. PICK b \in Balls(graph) : sheet[i].ball = BallKey(b)
            BY <2>3, AgreedSheet
        <3>2. /\ Canon(NetOfBall(graph, b, edge)) = Canon(sheet[i].net)
              /\ columns # 0 /\ b.xy # Absent => sheet[i].xy # "off"
            BY <2>3, <3>1, AgreedSheet
        <3>3. \A t \in netsOf(b) : Canon(t) = Canon(sheet[i].net)
            BY <2>6, <3>2
        <3> QED BY <3>1, <3>2, <3>3
    <2>8. Cardinality(Listed(sheet)) = Cardinality(Balls(graph))
        BY <2>1, <2>3, <2>5, AsManyRows
    <2> QED BY <2>4, <2>7, <2>8 DEF AgreedSheetIsTheMap, Listed
<1> QED BY <1>1, PkgtkInvHolds, PTL

-----------------------------------------------------------------------------
(* What an ingest adds: no position is listed twice.                         *)

LEMMA ListedOnce ==
    ASSUME NEW S, NEW n \in Seq(S), NEW c, NEW s, VerifyGraph(ParseAif(n), c, s) = "clean",
           NEW i \in DOMAIN Complete(n), NEW j \in DOMAIN Complete(n),
           Designator[Complete(n)[i].ball] = Designator[Complete(n)[j].ball],
           Designator[Complete(n)[i].ball] # NoGrid
    PROVE  i = j
<1> DEFINE g == ParseAif(n)
           netlist == Complete(n)
<1>1. PICK U : \E front, balls \in Seq(U) :
             /\ g.nodes = front \o balls
             /\ balls = [k \in DOMAIN netlist |-> BallOfRow(netlist[k])]
    BY ParsedParts
<1>2. PICK front \in Seq(U), balls \in Seq(U) :
             /\ g.nodes = front \o balls
             /\ balls = [k \in DOMAIN netlist |-> BallOfRow(netlist[k])]
    BY <1>1
<1>3. IsGraph(g)
    BY ParsedIsGraph
<1>4. ValidGraph(g)
    BY CleanGraph
<1> HIDE DEF g, netlist
<1>5. ASSUME NEW k \in DOMAIN netlist
      PROVE  /\ Len(front) \in Nat /\ k \in Nat
             /\ Len(front) + k \in DOMAIN g.nodes
             /\ g.nodes[Len(front) + k] = BallOfRow(netlist[k])
    <2>1. k \in DOMAIN balls /\ balls[k] = BallOfRow(netlist[k])
        BY <1>2
    <2>2. Len(front) \in Nat /\ k \in 1..Len(balls) /\ Len(balls) \in Nat
        BY <1>2, <2>1
    <2>3. /\ Len(front \o balls) = Len(front) + Len(balls)
          /\ DOMAIN (front \o balls) = 1..Len(front \o balls)
          /\ (front \o balls)[Len(front) + k] = balls[k]
        BY <1>2, <2>2
    <2> QED BY <1>2, <2>1, <2>2, <2>3
<1>6. ASSUME NEW k \in DOMAIN netlist
      PROVE  /\ BallOfRow(netlist[k]) \in Balls(g)
             /\ BallOfRow(netlist[k]).grid = Designator[netlist[k].ball]
    <2>1. BallOfRow(netlist[k]).kind = "ball"
        BY DEF BallOfRow, Node
    <2>2. BallOfRow(netlist[k]) \in NodesOf(g)
        BY <1>5 DEF NodesOf
    <2>3. BallOfRow(netlist[k]).grid = Designator[netlist[k].ball]
        BY DEF BallOfRow, Node
    <2> QED BY <2>1, <2>2, <2>3 DEF Balls, OfKind
<1>7. i \in DOMAIN netlist /\ j \in DOMAIN netlist
    BY DEF netlist
<1>8. BallOfRow(netlist[i]) = BallOfRow(netlist[j])
    <2>1. Designator[netlist[i].ball] = Designator[netlist[j].ball] /\ Designator[netlist[i].ball] # NoGrid
        BY DEF netlist
    <2>2. VerifyGraph(g, c, s) = "clean"
        BY DEF g
    <2> QED BY <1>3, <1>6, <1>7, <2>1, <2>2, OneBall
<1>9. Len(front) + i = Len(front) + j
    <2> DEFINE k == Len(front) + i
               m == Len(front) + j
    <2>1. k \in DOMAIN g.nodes /\ m \in DOMAIN g.nodes /\ g.nodes[k] = g.nodes[m]
        BY <1>5, <1>7, <1>8
    <2> HIDE DEF k, m
    <2>2. k = m
        BY <1>4, <2>1 DEF ValidGraph
    <2> QED BY <2>2 DEF k, m
<1> QED BY <1>5, <1>7, <1>9

\* A netlist that lists a position twice, in whatever case, never becomes a graph that
\* verifies (aif.py:64-108).
THEOREM NoPinTwice == Spec => []NoPinListedTwice
<1>1. ASSUME Inv PROVE NoPinListedTwice
    <2>1. SUFFICES ASSUME verdict = "clean",
                          NEW i \in DOMAIN Complete(rows), NEW j \in DOMAIN Complete(rows),
                          Designator[Complete(rows)[i].ball] = Designator[Complete(rows)[j].ball],
                          Designator[Complete(rows)[i].ball] # NoGrid
                   PROVE  i = j
        BY DEF NoPinListedTwice
    <2>2. rows # << >>
        <3>1. SUFFICES ASSUME rows = << >> PROVE FALSE
            OBVIOUS
        <3>2. rows \in Seq({})
            BY <3>1
        <3>3. Complete(rows) \in Seq({})
            BY <3>2, CompleteType
        <3>4. DOMAIN Complete(rows) = {}
            <4>1. Len(Complete(rows)) \in Nat /\ DOMAIN Complete(rows) = 1..Len(Complete(rows))
                BY <3>3
            <4>2. \A k \in 1..Len(Complete(rows)) : Complete(rows)[k] \in {}
                BY <3>3
            <4> QED BY <4>1, <4>2
        <3> QED BY <3>4
    <2>3. desk \in DOMAIN CaseOf /\ rows \in CaseOf[desk].netlists /\ graph = ParseAif(rows)
        BY <1>1, <2>2 DEF Inv, MapInv, RowsInv
    <2>4. rows \in Seq(ToSet(rows))
        BY <2>3, FilesAssumption
    <2>5. PICK s \in Orders : VerifyGraph(graph, CaseOf[desk].config, s) = "clean"
        BY <1>1, <2>1 DEF Inv, VerdictInv
    <2> QED BY <2>1, <2>3, <2>4, <2>5, ListedOnce
<1> QED BY <1>1, PkgtkInvHolds, PTL

-----------------------------------------------------------------------------
(* What diff adds: a net that can be told by its position has not moved.     *)

LEMMA OnlyPosition ==
    ASSUME NEW p
    PROVE  FirstInText({p}) = p
BY DEF FirstInText

\* A net of a graph that verifies, with a die pad to itself, has a ball.
LEMMA PlainHasBall ==
    ASSUME NEW g, IsGraph(g), NEW c, NEW s, VerifyGraph(g, c, s) = "clean", NEW n \in Nets(g),
           Neighbors(g, n) \cap Pads(g) # {},
           \A p \in Neighbors(g, n) \cap Pads(g) : Neighbors(g, p) = {n},
           Neighbors(g, n) \subseteq Pads(g) \cup Balls(g)
    PROVE  BallsOfNet(g, n) # {}
<1>1. SUFFICES ASSUME BallsOfNet(g, n) = {} PROVE FALSE
    OBVIOUS
<1>2. PICK p \in Pads(g) : p \in Neighbors(g, n)
    OBVIOUS
<1> DEFINE S == {n} \cup Neighbors(g, n)
<1>3. Neighbors(g, n) \subseteq Pads(g)
    BY <1>1 DEF BallsOfNet
<1>4. S \in SUBSET (NodesOf(g) \ Balls(g))
    BY <1>3 DEF Pads, Nets, Balls, OfKind
<1>5. \A x \in S : Neighbors(g, x) \subseteq S
    BY <1>3
<1> HIDE DEF S
<1>6. p \in S
    BY <1>2 DEF S
<1>7. CutOff(g, p)
    BY <1>4, <1>5, <1>6 DEF CutOff
<1> QED BY <1>7, NoneCutOff

\* Its one position is the one that diff compares.
LEMMA PlainPosition ==
    ASSUME NEW g, IsGraph(g), NEW c, NEW s, VerifyGraph(g, c, s) = "clean",
           NEW name, name # Absent, Plain(g, name)
    PROVE  name \in PlacedNames(g) /\ Assigned(g, name) = {NetPos(g, name)}
<1>1. PICK n \in Nets(g) :
        /\ n.name = name
        /\ \A m \in Nets(g) : m.name = name => m = n
        /\ Cardinality(BallsOfNet(g, n)) <= 1
        /\ \A b \in BallsOfNet(g, n) : b.grid # NoGrid
        /\ Neighbors(g, n) \cap Pads(g) # {}
        /\ \A p \in Neighbors(g, n) \cap Pads(g) : Neighbors(g, p) = {n}
        /\ Neighbors(g, n) \subseteq Pads(g) \cup Balls(g)
    BY DEF Plain
<1>2. BallsOfNet(g, n) # {}
    BY <1>1, PlainHasBall
<1>3. \A x, y \in BallsOfNet(g, n) : x = y
    <2>1. IsFiniteSet(BallsOfNet(g, n)) /\ Cardinality(BallsOfNet(g, n)) \in Nat
        BY GraphIsFinite DEF BallsOfNet, Neighbors
    <2>2. ~ (Cardinality(BallsOfNet(g, n)) >= 2)
        BY <1>1, <2>1
    <2> QED BY <2>1, <2>2, FewerThanTwo
<1>4. PICK b \in BallsOfNet(g, n) : b.grid # NoGrid
    BY <1>1, <1>2
<1>5. GridsOfNet(g, n) = {b.grid}
    BY <1>3, <1>4 DEF GridsOfNet
<1>6. Assigned(g, name) = {b.grid}
    <2>1. {m \in Nets(g) : m.name = name} = {n}
        BY <1>1
    <2>2. {GridsOfNet(g, m) : m \in {m \in Nets(g) : m.name = name}} = {{b.grid}}
        BY <1>5, <2>1
    <2> QED BY <2>2 DEF Assigned
<1>7. n \in Placed(g) /\ name \in PlacedNames(g)
    BY <1>1, <1>5 DEF Placed, PlacedNames
<1> DEFINE at == {i \in DOMAIN g.nodes :
                /\ g.nodes[i].kind = "substrate_net" /\ g.nodes[i].name # Absent
                /\ g.nodes[i] \in Placed(g) /\ g.nodes[i].name = name}
<1>8. Max(at) \in at
    <2>1. at \in SUBSET (0..Len(g.nodes)) /\ Len(g.nodes) \in Nat
        BY GraphIsFinite
    <2>2. at # {}
        <3>1. PICK i \in DOMAIN g.nodes : g.nodes[i] = n
            BY DEF Nets, OfKind, NodesOf
        <3>2. i \in at
            BY <1>1, <1>7, <3>1 DEF Nets, OfKind
        <3> QED BY <3>2
    <2> HIDE DEF at
    <2> QED BY <2>1, <2>2, MaxOfIndices
<1>9. g.nodes[Max(at)] = n
    BY <1>1, <1>8 DEF Placed
<1>10. NetPos(g, name) = FirstInText(GridsOfNet(g, g.nodes[Max(at)]))
    BY DEF NetPos, LastNet
<1> QED BY <1>5, <1>6, <1>7, <1>9, <1>10, OnlyPosition

\* Where diff finds no change between a signed-off revision and one that verifies,
\* no net that can be told by its position has moved (diff/engine.py).
THEOREM SameMeansSamePlaces == Spec => []EcoIsComplete
<1>1. ASSUME Inv PROVE EcoIsComplete
    <2>1. SUFFICES ASSUME answer.tool = "diff", answer.says = "same", verdict = "clean",
                          NEW name \in Names(base) \cup Names(graph),
                          Plain(base, name), Plain(graph, name)
                   PROVE  Assigned(base, name) = Assigned(graph, name)
        BY DEF EcoIsComplete
    <2>2. base # None /\ RunDiff(base, graph) = "same"
        BY <1>1, <2>1 DEF Inv, AnswerInv, NoAnswer, MapAnswer, DeckAnswer, Answered
    <2>3. desk \in DOMAIN CaseOf /\ IsGraph(graph) /\ IsGraph(base)
        BY <1>1, <2>1, <2>2, GraphsAreGraphs DEF Inv, MapInv, VerdictInv, BaseInv
    <2>4. PICK s \in Orders : VerifyGraph(graph, CaseOf[desk].config, s) = "clean"
        BY <1>1, <2>1 DEF Inv, VerdictInv
    <2>5. PICK t \in Orders : VerifyGraph(base, CaseOf[desk].config, t) = "clean"
        BY <1>1, <2>2 DEF Inv, BaseInv
    <2>6. name # Absent
        BY <2>1 DEF Names
    <2>7. name \in PlacedNames(graph) /\ Assigned(graph, name) = {NetPos(graph, name)}
        BY <2>1, <2>3, <2>4, <2>6, PlainPosition
    <2>8. name \in PlacedNames(base) /\ Assigned(base, name) = {NetPos(base, name)}
        BY <2>1, <2>3, <2>5, <2>6, PlainPosition
    <2>9. NetPos(base, name) = NetPos(graph, name)
        <3>1. DiffGraphs(base, graph) = {}
            BY <2>2 DEF RunDiff
        <3>2. SUFFICES ASSUME NetPos(base, name) # NetPos(graph, name) PROVE FALSE
            OBVIOUS
        <3>3. <<"net_moved", name>> \in DiffGraphs(base, graph)
            BY <2>7, <2>8, <3>2 DEF DiffGraphs
        <3> QED BY <3>1, <3>3
    <2> QED BY <2>7, <2>8, <2>9
<1> QED BY <1>1, PkgtkInvHolds, PTL
=============================================================================
