------------------------------- MODULE MCPkgtk ------------------------------
(* Small desks, each with the graphs one group of checks can tell apart.      *)
EXTENDS Pkgtk, TLC

A == <<"A">>
H == <<"H">>
J == <<"J">>
AA == <<"A", "A">>

MCFull  == <<"A", "H", "I", "J">>
MCJedec == <<"A", "H", "J">>
MCPartnerOf == "D_P" :> "D_N"
MCCanonical == "VSS" :> "GND"
MCUnprefixed == ("net_S" :> "S") @@ ("net_GND" :> "GND")
\* Of 50 balls int(50 * 0.58) is 28, not 29: the smallest case of two decimals.
MCRounding == <<50, 58, 100>> :> 0 - 1
MCDesignator == ("a1" :> <<A, 1>>) @@ ("A1" :> <<A, 1>>) @@ ("A2" :> <<A, 2>>) @@ ("fid" :> << >>)

Thing(id, kind) ==
    [id |-> id, kind |-> kind, name |-> id, grid |-> << >>, xy |-> "none", role |-> "none",
     domain |-> "none", interface |-> "none", group |-> "none"]
Pad(id)       == Thing(id, "die_pad")
Bump(id)      == Thing(id, "bump")
Net(id)       == Thing(id, "substrate_net")
Ball(id, grid, role) == [Thing(id, "ball") EXCEPT !.grid = grid, !.role = role]

Graph(nodes, edges) == [nodes |-> nodes, edges |-> edges]
Config == [allow |-> {}, bridges |-> {}, grounds |-> << >>, adjacency |-> FALSE,
           alphabet |-> "full", counts |-> << >>,
           depop |-> [kind |-> "corner", n |-> 0, positions |-> {}]]
Desk(config, revisions) ==
    [config |-> config, depopulated |-> {}, revisions |-> revisions, successors |-> {},
     netlists |-> {}, sheets |-> {}, templates |-> {}]
WithSuccessors(d) == [d EXCEPT !.successors = d.revisions]

\* The ids of the neighbours whose order matters, either way round.
Ids == <<"P1", "Q", "X", "Y", "Z", "N", "M", "D_P", "D_N", "B1", "B2", "B3",
         "a1", "A1", "A2", "fid", "net_S", "net_GND", "S", "T", "GND">>
       \o [k \in 1..50 |-> "b" \o ToString(k)]
Place(i) == CHOOSE k \in DOMAIN Ids : Ids[k] = i
MCSeeds == {[i \in ToSet(Ids) |-> Place(i)], [i \in ToSet(Ids) |-> 100 - Place(i)]}

\* Two balls and two nets wired in every way, a pad behind a bump, and a corner of
\* which either ball, or both, may sit.
Wires == {{"P1", "X"}, {"X", "N"}, {"N", "B1"}, {"N", "B2"}, {"M", "B2"}}
WiredDesk ==
    [Desk([Config EXCEPT !.depop = [kind |-> "list", n |-> 0, positions |-> {<<0, 1>>}]],
          {Graph(s, e) : s \in {<<Pad("P1"), Bump("X"), Net("N"), Net("M"), b, c>> :
                                   b \in {Ball("B1", <<A, 1>>, r) : r \in {"none", "nc"}},
                                   c \in {Ball("B2", <<A, p>>, r) : p \in 1..2, r \in {"none", "nc", "signal"}}}
                              \cup {<<Pad("P1"), Bump("X"), Net("N"), Net("M"), Ball("B2", <<A, 1>>, r), Ball("B1", <<A, 1>>, "nc")>> :
                                   r \in {"none", "nc"}},
                         e \in SUBSET Wires})
     EXCEPT !.depopulated = {<<A, 1>>},
            !.templates = {(<<A, p>>) :> "nc" : p \in 1..3} \cup {(<<A, 2>>) :> "sig"}]

\* An interface that needs a ground, with balls that take their role and interface
\* from one of two nets.
GroundDesk ==
    Desk([Config EXCEPT !.grounds = [I |-> [kind |-> "min", n |-> 1, num |-> 0, den |-> 1],
                                     K |-> [kind |-> "ratio", n |-> 0, num |-> 1, den |-> 2]]],
         {Graph(<<[Net("N") EXCEPT !.role = r, !.interface = i], [Net("M") EXCEPT !.role = "gnd", !.interface = j],
                  Ball("B1", <<A, 1>>, "none"), Ball("B2", <<A, 2>>, q)>>, e) :
              r \in {"none", "gnd"}, i \in {"I", "K"}, j \in {"I", "none"}, q \in {"none", "gnd"},
              e \in SUBSET {{"N", "B1"}, {"M", "B1"}, {"N", "B2"}}})

\* An interface of fifty balls of which 58 in a hundred have to be grounds.
RatioDesk ==
    Desk([Config EXCEPT !.allow = {"N"},
                        !.grounds = [I |-> [kind |-> "ratio", n |-> 0, num |-> 58, den |-> 100]]],
         {Graph(<<[Net("N") EXCEPT !.interface = "I"], [Net("M") EXCEPT !.role = "gnd", !.interface = "I"]>>
                \o [k \in 1..50 |-> Ball("b" \o ToString(k), <<A, k>>, "none")],
                {{"b" \o ToString(k), IF k <= n THEN "M" ELSE "N"} : k \in 1..50}) : n \in 27..29})

\* A pair with the rows of either alphabet and a net that may have two balls.
PairDesk(alphabet) ==
    Desk([Config EXCEPT !.adjacency = TRUE, !.alphabet = alphabet, !.allow = {"D_P"}],
         {Graph(<<Net("D_P"), [Net("D_N") EXCEPT !.name = s], Ball("B1", <<H, 1>>, "none"),
                  Ball("B2", <<J, c>>, "none"), Ball("B3", <<row, 1>>, "none")>>,
                {{"D_P", "B1"}, {"D_N", "B2"}} \cup e) :
              s \in {"D_N", "other"}, c \in {1, 3}, row \in {J, A, AA, <<"I">>},
              e \in {{{"D_P", "B3"}}, {{"D_N", "B3"}}, {}}})

\* Two nets on three positions, one of which sorts before another as text only; a
\* net may be gone, lose its ball, share its pad, change its domain, or have the name of
\* the other.
EcoDesk ==
    LET ball(id, p, n) == Ball(id, p, IF n = "nc" THEN "nc" ELSE "none")
        nodes(f, here, t) ==
            <<Pad("P1"), Pad("Q"), Net("S")>>
            \o (IF here THEN <<t>> ELSE << >>)
            \o <<ball("X", <<A, 2>>, f[1]), ball("Y", <<A, 10>>, f[2]), ball("Z", <<H, 1>>, f[3])>>
        edges(f, here, pads) ==
            {{<<"X", "Y", "Z">>[k], f[k]} : k \in {k \in 1..3 : f[k] # "nc"}}
            \cup {{"P1", "S"}, {"Q", IF here THEN "T" ELSE "S"}}
            \cup (IF pads THEN {} ELSE {{"Q", "S"}})
    IN Desk([Config EXCEPT !.allow = {"T"}],
        {Graph(nodes(f, TRUE, t), edges(f, TRUE, TRUE)) :
            f \in [1..3 -> {"S", "T", "nc"}],
            t \in {Net("T"), [Net("T") EXCEPT !.name = "S"]}}
        \cup {Graph(nodes(f, TRUE, [Net("T") EXCEPT !.domain = "core"]), edges(f, TRUE, TRUE)) :
                f \in [1..3 -> {"S", "T"}]}
        \cup {Graph(nodes(f, TRUE, Net("T")), edges(f, TRUE, FALSE)) : f \in [1..3 -> {"S", "T", "nc"}]}
        \cup {Graph(nodes(f, FALSE, << >>), edges(f, FALSE, TRUE)) : f \in [1..3 -> {"S", "nc"}]})

\* Groups and domains, which no edge has a part in.
GroupDesk ==
    Desk([Config EXCEPT !.counts = [m |-> 2]],
         {Graph(<<[Net("N") EXCEPT !.group = "m", !.interface = i, !.domain = d],
                  [Net("M") EXCEPT !.group = h, !.interface = "I", !.domain = "core"],
                  [Ball("B1", <<A, 1>>, "none") EXCEPT !.domain = "core"],
                  [Ball("B2", <<A, 2>>, "gnd") EXCEPT !.domain = d]>>,
                {{"N", "B1"}, {n, "B2"}}) :
              i \in {"I", "K"}, d \in {"core", "io", "bridge"}, h \in {"m", "none"}, n \in {"N", "M"}})

\* Netlists of two rows with tokens that differ in case only or are not positions,
\* and sheets that list a ball twice, misname its net or misplace it.
Row(net, pad, ball, complete, padReads, ballReads) ==
    [net |-> net, pad |-> pad, ball |-> ball, complete |-> complete,
     padReads |-> padReads, ballReads |-> ballReads]
SheetRow(ball, net, xy) == [ball |-> ball, net |-> net, xy |-> xy]

Netlists ==
    {<<Row("S", "P1", "A1", TRUE, TRUE, TRUE), Row(n, "Q", b, TRUE, TRUE, TRUE)>> :
        n \in {"S", "GND"}, b \in {"a1", "A1", "A2", "fid"}}
    \cup {<<Row("S", "P1", "A1", TRUE, TRUE, TRUE), Row("S", p, b, c, k, l)>> :
        p \in {"P1", "A1"}, b \in {"A1", "A2"}, c \in BOOLEAN, k \in BOOLEAN, l \in BOOLEAN}
Sheets ==
    {<<SheetRow(<<A, 1>>, "S", "same"), SheetRow(b, n, "same")>> :
        b \in {<<A, 1>>, <<A, 2>>, <<"fid">>, << >>}, n \in {"S", "VSS"}}
    \cup {<<SheetRow(<<A, 1>>, "VSS", x)>> : x \in {"same", "off", "blank", "text"}}
    \cup {<<SheetRow(<<A, 1>>, "S", x), SheetRow(<<A, 2>>, "VSS", y)>> : x, y \in {"same", "off"}}
SourceDesk ==
    [Desk([Config EXCEPT !.allow = {"S"}],
          {Graph(<<[Net("net_S") EXCEPT !.name = s], [Net("net_GND") EXCEPT !.name = "GND"],
                   Ball("B1", <<A, 1>>, "none"), [Ball("B2", g, q) EXCEPT !.xy = xy]>>, e) :
              s \in {"S", "none"}, g \in {<<A, 1>>, <<A, 2>>}, q \in {"nc", "none"}, xy \in {"given", "none"},
              e \in SUBSET {{"net_S", "B1"}, {"net_GND", "B1"}, {"net_GND", "B2"}}})
     EXCEPT !.netlists = Netlists, !.sheets = Sheets]

\* The graph of a file that was edited by hand: one id is used twice.
TwiceDesk ==
    Desk([Config EXCEPT !.allow = {"S"}],
         {Graph(<<Net("S"), Ball("B1", <<A, 1>>, "none"), Ball(id, <<A, 2>>, "none")>>,
                {{"S", "B1"}, {"S", id}}) : id \in {"B1", "B2"}})

\* Three rows and three columns, a ball at either end and one anywhere.
DepopDesk(kind, positions) ==
    [Desk([Config EXCEPT !.alphabet = "jedec", !.depop = [kind |-> kind, n |-> 1, positions |-> {}]],
          {Graph(<<Net("N"), Net("M"), Net("S"), Ball("B1", <<A, 1>>, f[1]), Ball("B2", <<J, 3>>, f[2]),
                   Ball("B3", <<row, col>>, f[3])>>,
                 {{<<"N", "M", "S">>[k], <<"B1", "B2", "B3">>[k]} : k \in {k \in 1..3 : f[k] # "nc"}}) :
               f \in [1..3 -> {"none", "nc"}], row \in {A, H, J}, col \in 1..3})
     EXCEPT !.depopulated = positions]
Grid == {A, H, J} \X (1..3)

MCCases ==
    [twice |-> TwiceDesk, corner |-> DepopDesk("corner", {A, J} \X {1, 3}),
     ring |-> DepopDesk("ring", Grid \ {<<H, 2>>}), wired |-> WiredDesk, ground |-> GroundDesk, ratio |-> RatioDesk,
     full |-> PairDesk("full"), jedec |-> PairDesk("jedec"), eco |-> WithSuccessors(EcoDesk),
     group |-> WithSuccessors(GroupDesk), source |-> SourceDesk]

\* A sound extraction, and those that differ from it in one thing or two.
ARule(id, parameter, number) ==
    [id |-> id, parameter |-> parameter, kind |-> "scalar", number |-> number, units |-> "um",
     parses |-> TRUE, monotonic |-> TRUE, manual |-> FALSE, condition |-> "none", layer |-> "none"]
Candidate(r) ==
    [rule |-> r, confident |-> TRUE, noted |-> FALSE, tableUnits |-> "none", minmax |-> "none",
     cell |-> "text", notOffered |-> FALSE]
Width == ARule("w", "trace_width_min", 20000)
Space == ARule("s", "spacing_min", 15000)

RuleVariants ==
    {[Width EXCEPT !.units = u, !.number = n] : u \in {"um", "mm", "nm", "mil", "none"}, n \in {20, 20000, 2000000}}
    \cup {[Width EXCEPT !.kind = k, !.parses = b, !.monotonic = m] : k \in {"expression", "piecewise"}, b \in BOOLEAN, m \in BOOLEAN}
    \cup {[Width EXCEPT !.condition = "free text", !.manual = m, !.layer = "signal"] : m \in BOOLEAN}
    \cup {Space, [Space EXCEPT !.layer = "plane"], [Space EXCEPT !.parameter = "degas_to_trace_clearance_min", !.id = "d"],
          [Space EXCEPT !.parameter = "copper_to_edge_min", !.id = "e"],
          [Space EXCEPT !.parameter = "copper_balance_window", !.id = "c"],
          [Space EXCEPT !.parameter = "annular_ring_min", !.id = "a"],
          [Space EXCEPT !.parameter = "ball_grid", !.id = "b"]}

MCCandidates ==
    {<<Candidate(r), None>> : r \in RuleVariants}
    \cup {<<[Candidate(Width) EXCEPT !.noted = TRUE, !.confident = c], s>> : c \in BOOLEAN, s \in {None, Candidate(Space)}}
    \cup {<<[Candidate(Width) EXCEPT !.cell = "dash", !.notOffered = o], None>> : o \in BOOLEAN}
    \cup {<<[Candidate(Width) EXCEPT !.tableUnits = u, !.minmax = m], None>> : u \in {"um", "mm"}, m \in {"min", "max"}}
    \cup {<<Candidate(None), s>> : s \in {None, Candidate(Width)}}

MCLayerMaps == {{"signal", "plane", "outline", "degas"}, {"signal", "plane"}}
MCRegions == {[pitch |-> 800000, land |-> l, channels |-> c, demand |-> d] :
                 l \in {450000, 780000}, c \in {1, 2}, d \in {1, 8, 17, 20}}
=============================================================================
