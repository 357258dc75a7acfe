------------------------------- MODULE BallMap ------------------------------
(* checks/common.py and checks/rules.py: the checks of pkgtk verify on a      *)
(* connectivity graph.  A graph is the list of its nodes, in the order of the *)
(* file, and the set of its edges {source, target}; a violation is its rule,  *)
(* the node, net, group or position it is located at and, where the order in  *)
(* which a process lists a set can change them, the numbers it reports.      *)
EXTENDS Integers, SequencesExt

CONSTANTS
    PartnerOf,      \* the pair pattern: the name it expands a positive name to
    Full, Jedec,    \* the two alphabets, each the sequence of its letters
    Rounding        \* by how much int(balls * ratio), a product of floats, misses the
                    \* quotient, for the <<balls, num, den>> where it does

Absent == "none"
NoGrid == << >>

NodesOf(g)      == {g.nodes[i] : i \in DOMAIN g.nodes}
OfKind(g, kind) == {n \in NodesOf(g) : n.kind = kind}
Balls(g)        == OfKind(g, "ball")
Nets(g)         == OfKind(g, "substrate_net")
Pads(g)         == OfKind(g, "die_pad")

\* The validators of ConnectivityGraph: unique ids, edges between known nodes.
ValidGraph(g) ==
    /\ \A i, j \in DOMAIN g.nodes : g.nodes[i].id = g.nodes[j].id => i = j
    /\ \A e \in g.edges : e \subseteq {n.id : n \in NodesOf(g)}

Neighbors(g, n)  == {m \in NodesOf(g) : {n.id, m.id} \in g.edges}
NetsOfBall(g, b) == Neighbors(g, b) \cap Nets(g)
BallsOfNet(g, n) == Neighbors(g, n) \cap Balls(g)

Reachable(g, n) ==
    LET within[k \in 0..Len(g.nodes)] ==
            IF k = 0 THEN {n}
                     ELSE within[k - 1] \cup UNION {Neighbors(g, m) : m \in within[k - 1]}
    IN within[Len(g.nodes)]

\* neighbors() lists a set of strings: the hash seed of the process gives the order.
First(S, seed) == CHOOSE n \in S : \A m \in S : seed[n.id] <= seed[m.id]

BallInterface(g, b, seed) ==
    LET nets == {n \in NetsOfBall(g, b) : n.interface # Absent} IN
    IF b.interface # Absent THEN b.interface
    ELSE IF nets = {} THEN Absent ELSE First(nets, seed).interface

BallRole(g, b, seed) ==
    IF b.role # Absent THEN b.role
    ELSE IF NetsOfBall(g, b) = {} THEN Absent ELSE First(NetsOfBall(g, b), seed).role

Alphabet(c) == IF c.alphabet = "jedec" THEN Jedec ELSE Full

InAlphabet(row, alphabet) == ToSet(row) \subseteq ToSet(alphabet)

RowIndex(row, alphabet) ==
    LET Letter(k) == CHOOSE p \in DOMAIN alphabet : alphabet[p] = row[k]
        index[k \in 0..Len(row)] ==
            IF k = 0 THEN 0 ELSE index[k - 1] * Len(alphabet) + Letter(k)
    IN index[Len(row)] - 1

\* Mutant: a ball may have several nets.
SignalFanOut(g, c) ==
    {<<"multi_ball_signal", n.name>> : n \in {n \in Nets(g) :
            /\ n.role \notin {"gnd", "pwr"}
            /\ n.name \notin c.allow
            /\ Cardinality(BallsOfNet(g, n)) >= 2}}

CheckBijection(g, c) ==
    {<<"multi_assignment", b.id>> : b \in {b \in Balls(g) : Cardinality(NetsOfBall(g, b)) >= 2}}
    \cup {<<"multi_ball_signal", n.name>> : n \in {n \in Nets(g) :
            /\ n.role \notin {"gnd", "pwr"}
            /\ n.name \notin c.allow
            /\ Cardinality(BallsOfNet(g, n)) >= 2}}

\* A requirement is a minimum, or a ratio of the balls of the interface.
Missed(of) == IF of \in DOMAIN Rounding THEN Rounding[of] ELSE 0

RequiredGrounds(req, balls) ==
    CASE req.kind = "min"   -> req.n
      [] req.kind = "ratio" -> (balls * req.num) \div req.den + Missed(<<balls, req.num, req.den>>)
      [] req.kind = "none"  -> 0

InsideOf(g, i, seed)  == {b \in Balls(g) : BallInterface(g, b, seed) = i}
GroundsOf(g, i, seed) == {b \in InsideOf(g, i, seed) : BallRole(g, b, seed) = "gnd"}

CheckGrounds(g, c, seed) ==
    LET actual(i)   == Cardinality(GroundsOf(g, i, seed))
        required(i) == RequiredGrounds(c.grounds[i], Cardinality(InsideOf(g, i, seed)))
    IN {<<"grounds_missing", i, actual(i), required(i)>> :
            i \in {i \in DOMAIN c.grounds : actual(i) < required(i)}}

\* The first net of that name, in the order of the file, that has a ball with a grid.
BallGridOfNet(g, name, seed) ==
    LET gridded(n) == {b \in BallsOfNet(g, n) : b.grid # NoGrid}
        found == {i \in DOMAIN g.nodes :
                    /\ g.nodes[i].kind = "substrate_net" /\ g.nodes[i].name = name
                    /\ gridded(g.nodes[i]) # {}}
    IN IF found = {} THEN NoGrid ELSE First(gridded(g.nodes[Min(found)]), seed).grid

Distance(p, q, alphabet) ==
    LET Abs(x) == IF x < 0 THEN - x ELSE x
    IN Max({Abs(RowIndex(p[1], alphabet) - RowIndex(q[1], alphabet)), Abs(p[2] - q[2])})

Names(g) == {n.name : n \in {n \in Nets(g) : n.name # Absent}}
Positives(g) == Names(g) \cap DOMAIN PartnerOf

CheckDiffpairs(g, c, seed) ==
    LET at(s) == BallGridOfNet(g, s, seed)
        apart(p) == Distance(at(p), at(PartnerOf[p]), Alphabet(c))
    IN {<<"missing_partner", p>> : p \in {p \in Positives(g) : PartnerOf[p] \notin Names(g)}}
       \cup {<<"not_adjacent", p, apart(p)>> : p \in {p \in Positives(g) :
            /\ c.adjacency
            /\ PartnerOf[p] \in Names(g)
            /\ at(p) # NoGrid /\ at(PartnerOf[p]) # NoGrid
            /\ apart(p) # 1}}

CheckMatchgroups(g, c) ==
    LET groups == {n.group : n \in NodesOf(g)} \ {Absent}
        members(m)    == {n \in NodesOf(g) : n.group = m}
        interfaces(m) == {n.interface : n \in members(m)} \ {Absent}
        domains(m)    == {n.domain : n \in members(m)} \ {Absent}
    IN {<<"incomplete", m>> : m \in {m \in groups \cap DOMAIN c.counts :
            Cardinality(members(m)) # c.counts[m]}}
       \cup {<<"interface_split", m>> : m \in {m \in groups : Cardinality(interfaces(m)) >= 2}}
       \cup {<<"domain_split", m>> : m \in {m \in groups : Cardinality(domains(m)) >= 2}}

CheckDomains(g, c) ==
    {<<"crossing", n.name>> : n \in {n \in Nets(g) :
        /\ n.name \notin c.bridges /\ n.domain # "bridge"
        /\ Cardinality({b.domain : b \in BallsOfNet(g, n)} \ {Absent}) >= 2}}

\* Mutant: die pads are not looked at.
FloatingBalls(g) ==
    {<<"nc_collision", b.id>> : b \in {b \in Balls(g) : b.role = "nc" /\ NetsOfBall(g, b) # {}}}
    \cup {<<"no_net", b.id>> : b \in {b \in Balls(g) : b.role # "nc" /\ NetsOfBall(g, b) = {}}}

CheckFloating(g) ==
    {<<"floating_pad", p.id>> : p \in {p \in Pads(g) : Reachable(g, p) \cap Balls(g) = {}}}
    \cup {<<"nc_collision", b.id>> : b \in {b \in Balls(g) : b.role = "nc" /\ NetsOfBall(g, b) # {}}}
    \cup {<<"no_net", b.id>> : b \in {b \in Balls(g) : b.role # "nc" /\ NetsOfBall(g, b) = {}}}

\* Mutant: only the names of pads are compared.
DuplicatePads(g) ==
    {<<"die_pad", s>> : s \in {s \in {p.name : p \in Pads(g)} \ {Absent} :
        Cardinality({p \in Pads(g) : p.name = s}) >= 2}}

CheckDuplicates(g) ==
    LET balls(p) == {b \in Balls(g) : b.grid = p}
        pads(s)  == {p \in Pads(g) : p.name = s}
    IN {<<"ball_grid", p>> : p \in {p \in {b.grid : b \in Balls(g)} \ {NoGrid} :
            Cardinality(balls(p)) >= 2}}
       \cup {<<"die_pad", s>> : s \in {s \in {p.name : p \in Pads(g)} \ {Absent} :
            Cardinality(pads(s)) >= 2}}

\* is_depop: rows count from 0, columns from 1.
IsDepop(row, col, rmax, cmax, depop) ==
    LET outer(w) == <<row < w \/ row > rmax - w, col - 1 < w \/ col - 1 > cmax - 1 - w>> IN
    CASE depop.kind = "corner" -> depop.n > 0 /\ outer(depop.n)[1] /\ outer(depop.n)[2]
      [] depop.kind = "ring"   -> depop.n > 0 /\ (outer(depop.n)[1] \/ outer(depop.n)[2])
      [] depop.kind = "list"   -> <<row, col>> \in depop.positions

\* The grid is a dict: of two balls at one position the last of the file is kept.
CheckDepop(g, c) ==
    LET gridded == {i \in DOMAIN g.nodes : g.nodes[i].kind = "ball" /\ g.nodes[i].grid # NoGrid}
        row(i)  == RowIndex(g.nodes[i].grid[1], Alphabet(c))
        col(i)  == g.nodes[i].grid[2]
        kept    == {i \in gridded : \A j \in gridded : row(j) = row(i) /\ col(j) = col(i) => j <= i}
    IN {<<"not_nc", g.nodes[i].grid>> : i \in {i \in kept :
            /\ g.nodes[i].role # "nc"
            /\ IsDepop(row(i), col(i), Max({row(j) : j \in gridded}),
                       Max({col(j) : j \in gridded}), c.depop)}}

RunAll(g, c, seed) ==
    CheckBijection(g, c) \cup CheckGrounds(g, c, seed) \cup CheckDiffpairs(g, c, seed)
    \cup CheckMatchgroups(g, c) \cup CheckDomains(g, c) \cup CheckFloating(g)
    \cup CheckDuplicates(g) \cup CheckDepop(g, c)

\* row_index raises on a letter outside the alphabet: check_depop asks it of every ball.
ChecksRaise(g, c) == \E b \in Balls(g) : b.grid # NoGrid /\ ~ InAlphabet(b.grid[1], Alphabet(c))

\* Mutant: the graph is read without its validators.
VerifyUnvalidated(g, c, seed) ==
    IF ChecksRaise(g, c) THEN "raised" ELSE IF RunAll(g, c, seed) = {} THEN "clean" ELSE "dirty"

\* pkgtk verify: exit 0, exit 1 with a report, or a traceback.
VerifyGraph(g, c, seed) ==
    IF ~ ValidGraph(g) \/ ChecksRaise(g, c) THEN "raised"
    ELSE IF RunAll(g, c, seed) = {} THEN "clean" ELSE "dirty"

Reported(g, c, seed) == IF VerifyGraph(g, c, seed) = "dirty" THEN RunAll(g, c, seed) ELSE {}
=============================================================================
