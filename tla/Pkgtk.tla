-------------------------------- MODULE Pkgtk -------------------------------
(* The tools of the pkgtk command line around one ball map and around one     *)
(* rule deck.  Each tool is a process that reads its files, answers and ends, *)
(* with a hash seed of its own; between two tools a designer may put another  *)
(* revision in place.  At the map desk a graph is ingested, verified, signed  *)
(* off, diffed and held against a sheet or a template; at the deck desk rules *)
(* are extracted, reviewed, linted and used for escape routing.              *)
EXTENDS EcoDiff, MapSources

CONSTANTS
    Cases,      \* Cases[d]: a map desk, its run config and the files that come up;
                \* successors are the revisions that may follow a signed-off one
    Seeds,      \* orders in which a process may list a set of ids
    Candidates, \* extractions with what a second extraction found, if there was one
    LayerMaps, Regions,
    MaxRules,   \* bound: rules in a deck
    None

\* TLC evaluates a definition once, and what the .cfg puts for a constant at each use.
CaseOf == Cases
Orders == Seeds

\* The graphs that may come up at a desk.
GraphsOf(d) ==
    CaseOf[d].revisions \cup CaseOf[d].successors
    \cup {ParseAif(n) : n \in CaseOf[d].netlists}

ASSUME NoneAssumption == None \notin DOMAIN Cases
ASSUME MaxRulesAssumption == MaxRules \in Nat
\* A graph file holds a list of nodes, a netlist and a sheet a list of rows.
ASSUME FilesAssumption ==
    \A d \in DOMAIN CaseOf :
        /\ \A g \in CaseOf[d].revisions \cup CaseOf[d].successors : g.nodes \in Seq(NodesOf(g))
        /\ \A n \in CaseOf[d].netlists \cup CaseOf[d].sheets : n \in Seq(ToSet(n))
\* The alphabets are lists, and a position is a row of letters and a column.
ASSUME PositionsAssumption ==
    /\ Full \in Seq(ToSet(Full)) /\ Jedec \in Seq(ToSet(Jedec))
    /\ \A d \in DOMAIN CaseOf : \A g \in GraphsOf(d) : \A b \in Balls(g) :
         b.grid # NoGrid => b.grid \in Seq(ToSet(b.grid[1])) \X Int
\* A requirement of grounds is a number of balls or a fraction of them, which a product
\* of floats misses by one at most.
ASSUME RoundingAssumption == \A of \in DOMAIN Rounding : Rounding[of] \in {-1, 1}
ASSUME GroundsAssumption ==
    \A d \in DOMAIN CaseOf : Absent \notin DOMAIN CaseOf[d].config.grounds /\
      \A i \in DOMAIN CaseOf[d].config.grounds :
        LET req == CaseOf[d].config.grounds[i] IN
        \/ req.kind = "min" /\ req.n \in Int
        \/ req.kind = "ratio" /\ req.num \in Int /\ req.den \in Nat \ {0}
        \/ req.kind = "none"
\* A hash order ranks every node id.
ASSUME SeedsAssumption ==
    /\ Orders # {}
    /\ \A s \in Orders, d \in DOMAIN CaseOf :
         \A g \in GraphsOf(d) : \A n \in NodesOf(g) : s[n.id] \in Nat
\* What a desk lists as depopulated its config depopulates, in every graph.
Depopulates(c, g, p) ==
    LET taken == {b.grid : b \in Balls(g)} \ {NoGrid}
        row(q) == RowIndex(q[1], Alphabet(c))
    IN IsDepop(row(p), p[2], Max({row(q) : q \in taken}), Max({q[2] : q \in taken}), c.depop)
ASSUME DepopulatedAssumption ==
    \A d \in DOMAIN CaseOf : \A g \in GraphsOf(d), p \in CaseOf[d].depopulated :
        (\E b \in Balls(g) : b.grid = p) => Depopulates(CaseOf[d].config, g, p)
ASSUME NumbersAssumption ==
    /\ \A c \in Candidates : c[1].rule = None \/ c[1].rule.number \in Int
    /\ \A r \in Regions : r.pitch \in Int /\ r.land \in Int /\ r.channels \in Nat /\ r.demand \in Nat

Rule == INSTANCE RuleDeck

VARIABLES
    desk,      \* the map desk, None at the deck desk
    graph,     \* the graph file
    rows,      \* history: the netlist it was ingested from, << >> if it was not
    base,      \* the revision that was last signed off
    verdict,   \* what verify last said of the graph
    report,    \* the violations it listed
    answer,    \* the last answer of another tool, with what it was asked
    deck       \* the rules, each with who accepted it: the battery or a human

vars == <<desk, graph, rows, base, verdict, report, answer, deck>>

NoAnswer == [tool |-> "none", says |-> "none"]

Init ==
    /\ \/ desk \in DOMAIN CaseOf /\ graph \in CaseOf[desk].revisions
       \/ desk = None /\ graph = None
    /\ rows = << >>
    /\ base = None
    /\ verdict = "none" /\ report = {}
    /\ answer = NoAnswer
    /\ deck = << >>

Put(g, netlist) ==
    /\ graph' = g
    /\ rows' = netlist
    /\ verdict' = "none" /\ report' = {}
    /\ UNCHANGED <<desk, base, answer, deck>>

\* A netlist that raises leaves no graph.  Both happen to a revision at rest, the
\* signed-off one or that of the start: from any other they lead to the same states.
Ingest(netlist) ==
    /\ base \in {None, graph} /\ rows = << >>
    /\ ~ AifRaises(netlist)
    /\ Put(ParseAif(netlist), netlist)

\* A designer or an agent writes another revision.
Edit(g) == base = graph /\ Put(g, << >>)

Verify(seed) ==
    /\ verdict' = VerifyGraph(graph, CaseOf[desk].config, seed)
    /\ report' = Reported(graph, CaseOf[desk].config, seed)
    /\ UNCHANGED <<desk, graph, rows, base, answer, deck>>

\* A verified graph becomes the revision the next ones are compared with.
SignOff ==
    /\ verdict = "clean"
    /\ base' = graph
    /\ UNCHANGED <<desk, graph, rows, verdict, report, answer, deck>>

\* The other tools only read.
Says(tool, what, said) ==
    /\ answer' = [tool |-> tool, asked |-> what, says |-> said]
    /\ UNCHANGED <<desk, graph, rows, base, verdict, report, deck>>

Diff ==
    /\ base # None
    /\ Says("diff", << >>, RunDiff(base, graph))

Compare(edge, sheet, columns) ==
    Says("crosscheck", <<sheet, columns>>, CrossCheck(graph, edge, sheet, columns))

Template(roles) == Says("template", roles, CheckTemplate(graph, roles))

Accept(c, by) ==
    /\ deck' = IF c.rule = None THEN deck ELSE Append(deck, [rule |-> c.rule, by |-> by])
    /\ UNCHANGED <<desk, graph, rows, base, verdict, report, answer>>

Free == desk = None /\ Len(deck) < MaxRules

Extract(c, second) == Free /\ Rule!Decide(c, second) = "accept" /\ Accept(c, "battery")

\* What goes to the review table may be accepted there, or dropped.
Review(c, second) == Free /\ Rule!Decide(c, second) = "review" /\ Accept(c, "human")

Rules == [i \in DOMAIN deck |-> deck[i].rule]

\* The coverage that run_lint returns is dropped: main prints the violations of the
\* rules it checked and names those it skipped.
Lint(layers) ==
    /\ desk = None
    /\ Says("lint", layers,
            IF Rule!LintRaises(Rules, layers) THEN [raised |-> TRUE]
            ELSE [raised |-> FALSE, checked |-> Rule!Checked(Rules),
                  skipped |-> Rule!Skipped(Rules)])

Escape(region) ==
    /\ desk = None
    /\ Says("escape", region,
            CASE Rule!EscapeRaises(Rules) -> "raised"
              [] ~ Rule!EscapeRaises(Rules) /\ Rule!Feasible(Rules, region) -> "feasible"
              [] OTHER -> "infeasible")

MapStep ==
    /\ desk # None
    /\ \/ \E n \in CaseOf[desk].netlists : Ingest(n)
       \/ \E g \in CaseOf[desk].successors : Edit(g)
       \/ \E s \in Orders : Verify(s)
       \/ SignOff
       \/ Diff
       \/ \E s \in Orders, sheet \in CaseOf[desk].sheets, columns \in 0..2 :
            Compare(s, sheet, columns)
       \/ \E t \in CaseOf[desk].templates : Template(t)

DeckStep ==
    \/ \E c \in Candidates : Extract(c[1], c[2]) \/ Review(c[1], c[2])
    \/ \E l \in LayerMaps : Lint(l)
    \/ \E r \in Regions : Escape(r)

\* An answer is read before the next tool is used.
Noted ==
    /\ answer # NoAnswer
    /\ answer' = NoAnswer
    /\ UNCHANGED <<desk, graph, rows, base, verdict, report, deck>>

Next ==
    \/ answer = NoAnswer /\ (MapStep \/ DeckStep)
    \/ Noted
Spec == Init /\ [][Next]_vars

-----------------------------------------------------------------------------
TypeOK ==
    /\ desk \in DOMAIN CaseOf \cup {None}
    /\ desk # None => graph \in GraphsOf(desk)
    /\ verdict \in {"none", "clean", "dirty", "raised"}
    /\ verdict = "dirty" <=> report # {}
    /\ base # None => ValidGraph(base)
    /\ \A i \in DOMAIN deck : deck[i].by \in {"battery", "human"} /\ Len(deck) <= MaxRules

\* A node is cut off from the balls by a set of other nodes that no edge leaves.
CutOff(g, n) ==
    \E S \in SUBSET (NodesOf(g) \ Balls(g)) :
        n \in S /\ \A x \in S : Neighbors(g, x) \subseteq S

\* The interface of a ball, its own or that of one of its nets, the balls of a net
\* that is a ground, and those that only call themselves one.
Inside(i) ==
    {b \in Balls(graph) : IF b.interface # Absent THEN b.interface = i
                          ELSE \E n \in NetsOfBall(graph, b) : n.interface = i}
OnGround(i)   == {b \in Inside(i) : \E n \in NetsOfBall(graph, b) : n.role = "gnd"}
SelfStyled(i) == {b \in Inside(i) : b.role = "gnd"} \ OnGround(i)

\* What a requirement owes an interface of so many balls: the minimum, or the floor
\* of the ratio but for a ball that the product of floats loses.
Owed(req, balls) ==
    CASE req.kind = "min"   -> req.n
      [] req.kind = "ratio" -> (balls * req.num) \div req.den
                               - (IF <<balls, req.num, req.den>> \in DOMAIN Rounding THEN 1 ELSE 0)
      [] req.kind = "none"  -> 0

\* Where verify exits 0, no die pad is cut off from the balls, every ball has
\* exactly one net, or none if it is nc, a signal net has one ball unless it may
\* have more, no position has two balls, each ball in a depopulated position is nc
\* (the check looks at one ball per position only), and every interface has on nets
\* that are grounds the balls its requirement owes it, whichever net a process lists
\* first, unless a ball calls itself gnd on another net, which the check counts.
CleanMeansSound ==
    verdict = "clean" =>
        /\ \A p \in Pads(graph) : ~ CutOff(graph, p)
        /\ \A b \in Balls(graph) :
             Cardinality(NetsOfBall(graph, b)) = IF b.role = "nc" THEN 0 ELSE 1
        /\ \A n \in Nets(graph) :
             \/ n.role \in {"gnd", "pwr"} \/ n.name \in CaseOf[desk].config.allow
             \/ Cardinality(BallsOfNet(graph, n)) <= 1
        /\ \A a, b \in Balls(graph) : a.grid = b.grid /\ a.grid # NoGrid => a = b
        /\ \A b \in Balls(graph) : b.role # "nc" /\ b.grid # NoGrid =>
             b.grid \notin CaseOf[desk].depopulated
        /\ \A i \in DOMAIN CaseOf[desk].config.grounds :
             \/ SelfStyled(i) # {}
             \/ Cardinality(OnGround(i)) >=
                  Owed(CaseOf[desk].config.grounds[i], Cardinality(Inside(i)))

\* The interfaces and roles that a ball may be given, by the order of its nets; the
\* interface that a ball may or may not be in or be a ground of; and a net of which
\* one of several positions is taken.
InterfacesOf(g, b) ==
    IF b.interface # Absent THEN {b.interface}
    ELSE {n.interface : n \in NetsOfBall(g, b)} \ {Absent}
RolesOf(g, b) == IF b.role # Absent THEN {b.role} ELSE {n.role : n \in NetsOfBall(g, b)}

Wavers(g, i) ==
    \E b \in Balls(g) :
        /\ i \in InterfacesOf(g, b)
        /\ \/ \E x, y \in InterfacesOf(g, b) : x # y
           \/ \E x, y \in RolesOf(g, b) : x # y

Spread(g, s) ==
    \E n \in Nets(g) : \E a, b \in BallsOfNet(g, n) :
        n.name = s /\ a.grid # NoGrid /\ b.grid # NoGrid /\ a.grid # b.grid

\* What may come out otherwise in another process.
MayDiffer(g, v) ==
    \/ v[1] = "grounds_missing" /\ Wavers(g, v[2])
    \/ v[1] = "not_adjacent" /\ (Spread(g, v[2]) \/ Spread(g, PartnerOf[v[2]]))

\* Two processes that verify the same graph list the same violations with the same
\* numbers, in whatever order they list the neighbours of a node; only the grounds of
\* an interface with a ball of two nets that disagree and the adjacency of a pair of
\* which a net has two positions may come out otherwise, and only the latter may turn
\* a clean graph into a dirty one.
VerifyAgain ==
    verdict # "none" /\ verdict' # "none" /\ graph' = graph =>
        /\ \A v \in (report \ report') \cup (report' \ report) : MayDiffer(graph, v)
        /\ \/ verdict' = verdict
           \/ /\ CaseOf[desk].config.adjacency
              /\ \E p \in Positives(graph) : Spread(graph, p) \/ Spread(graph, PartnerOf[p])
VerdictIsStable == [][VerifyAgain]_vars

\* The positions a net has, and the nets one can tell by their position: one node
\* with at most one ball, and with die pads that are on no other net.
Assigned(g, s) == UNION {GridsOfNet(g, n) : n \in {n \in Nets(g) : n.name = s}}
Plain(g, s) ==
    \E n \in Nets(g) :
        /\ n.name = s
        /\ \A m \in Nets(g) : m.name = s => m = n
        /\ Cardinality(BallsOfNet(g, n)) <= 1
        /\ \A b \in BallsOfNet(g, n) : b.grid # NoGrid
        /\ Neighbors(g, n) \cap Pads(g) # {}
        /\ \A p \in Neighbors(g, n) \cap Pads(g) : Neighbors(g, p) = {n}
        /\ Neighbors(g, n) \subseteq Pads(g) \cup Balls(g)

\* Where diff finds no change between a signed-off revision and one that verifies,
\* every net they can tell by its position is in the same place: the changes that
\* diff cannot see (a net that lost its ball) are those verify reports.
EcoIsComplete ==
    answer.tool = "diff" /\ answer.says = "same" /\ verdict = "clean" =>
        \A s \in Names(base) \cup Names(graph) :
            Plain(base, s) /\ Plain(graph, s) => Assigned(base, s) = Assigned(graph, s)

\* A netlist that lists a ball twice, in whatever case, never becomes a graph that
\* verifies: the ingest raises or the check of duplicates reports it.
NoPinListedTwice ==
    verdict = "clean" =>
        LET listed == Complete(rows) IN
        \A i, j \in DOMAIN listed :
            Designator[listed[i].ball] = Designator[listed[j].ball]
            /\ Designator[listed[i].ball] # NoGrid => i = j

\* A sheet that agrees with a graph that verifies names, in every one of its rows,
\* a ball of the graph and the net of that ball up to the aliases (the id of a net
\* that has no name), leaves no ball out and, where coordinates were asked for, has
\* those of every ball that has any in the graph.
AgreedSheetIsTheMap ==
    answer.tool = "crosscheck" /\ answer.says = "agreed" /\ verdict = "clean" =>
        LET sheet == answer.asked[1]
            named == {i \in DOMAIN sheet : sheet[i].ball # NoGrid}
            netsOf(b) == IF NetsOfBall(graph, b) = {} THEN {Absent}
                         ELSE {NetName(n) : n \in NetsOfBall(graph, b)}
        IN /\ \A i \in named : \E b \in Balls(graph) :
                /\ sheet[i].ball = BallKey(b)
                /\ \A s \in netsOf(b) : Canon(s) = Canon(sheet[i].net)
                /\ answer.asked[2] # 0 /\ b.xy # Absent => sheet[i].xy # "off"
           /\ Cardinality(named) = Cardinality(Balls(graph))

\* Where a template is met by a graph that verifies, every ball at one of its
\* positions has the role it asks for, not only the last of the file.
TemplateIsMet ==
    answer.tool = "template" /\ answer.says = "met" /\ verdict = "clean" =>
        \A p \in DOMAIN answer.asked :
            /\ \E b \in Balls(graph) : b.grid = p
            /\ \A b \in Balls(graph) : b.grid = p =>
                 \/ b.role = RoleAlias(answer.asked[p])
                 \/ b.role = Absent /\ answer.asked[p] = "nc"

\* A rule that the battery accepted on its own is checked at the length its number
\* and unit say, within the window of its parameter, or lint says that it was not.
AcceptedIsChecked ==
    answer.tool = "lint" /\ ~ answer.says.raised =>
        \A i \in DOMAIN deck :
            LET r == deck[i].rule
                at == {x \in answer.says.checked : x.id = r.id}
            IN deck[i].by = "battery" /\ r.parameter \in Rule!IMPLEMENTED =>
                 \/ r.id \in answer.says.skipped
                 \/ \E x \in at : /\ x.um = Rule!Length(r.number, r.units)
                                  /\ x.um >= Rule!PLAUSIBLE[r.parameter].lo
                                  /\ x.um <= Rule!PLAUSIBLE[r.parameter].hi

\* A rule that lint neither checks nor names as skipped is one that coverage.py
\* classifies as manual or unimplemented: the three lists of parameters agree.  The
\* command does not say so, and exits 0.
GapsAreKnown ==
    answer.tool = "lint" /\ ~ answer.says.raised =>
        \A i \in DOMAIN deck :
            \/ \E x \in answer.says.checked : x.id = deck[i].rule.id
            \/ deck[i].rule.id \in answer.says.skipped
            \/ \E x \in Rule!Coverage(Rules) :
                 x.id = deck[i].rule.id /\ x.status # "implemented"

\* A region that is said to be feasible is, for a deck in um: there are so many
\* tracks in each channel that the demand fits, and they fit between two lands with
\* a space on both sides.
RoomFor(n, region, line, space) ==
    n = 0 \/ region.land + space + n * (line + space) <= region.pitch

FeasibleFits ==
    answer.tool = "escape" /\ answer.says = "feasible"
    /\ (\A i \in DOMAIN deck : deck[i].rule.units = "um") =>
        \E n \in 0..answer.asked.demand :
            /\ RoomFor(n, answer.asked, Rule!Line(Rules, "trace_width_min", "signal"),
                                        Rule!Line(Rules, "spacing_min", "signal"))
            /\ answer.asked.demand <= answer.asked.channels * n
=============================================================================
