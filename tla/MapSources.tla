------------------------------ MODULE MapSources ----------------------------
(* Where a ball map comes from and what it is held against: an AIF netlist    *)
(* (ingest/aif.py), a pin-map sheet (scripts/pinmap_crosscheck.py) and an     *)
(* interface template (oracles/template_check.py).                           *)
EXTENDS BallMap

CONSTANTS
    Designator,   \* the grid a ball token spells in upper case, or NoGrid
    Canonical,    \* the alias file: the names it renames, and to what
    Unprefixed    \* the id of a net without the prefix net_

Node(id, kind, name, grid) ==
    [id |-> id, kind |-> kind, name |-> name, grid |-> grid,
     xy |-> IF kind = "substrate_net" THEN Absent ELSE "given",
     role |-> Absent, domain |-> Absent, interface |-> Absent, group |-> Absent]

\* A row of the NETLIST section: complete if it has seven columns; a pad reads if its
\* coordinates convert, a ball if its coordinates do and its column is not 0.
Complete(rows) ==
    LET kept[k \in 0..Len(rows)] ==
            IF k = 0 THEN << >>
            ELSE IF rows[k].complete THEN Append(kept[k - 1], rows[k]) ELSE kept[k - 1]
    IN kept[Len(rows)]

\* The nodes of rows in order, the first row of each id for those kept once.
OnePer(nodes) ==
    LET seen[k \in 0..Len(nodes)] ==
            IF k = 0 THEN << >>
            ELSE IF nodes[k] \in ToSet(seen[k - 1]) THEN seen[k - 1]
            ELSE Append(seen[k - 1], nodes[k])
    IN seen[Len(nodes)]

ParseAif(rows) ==
    LET netlist == Complete(rows)
        all(node(_)) == [i \in DOMAIN netlist |-> node(netlist[i])]
    IN [nodes |-> OnePer(all(LAMBDA r : Node(r.pad, "die_pad", r.pad, NoGrid)))
                  \o OnePer(all(LAMBDA r : Node("net_" \o r.net, "substrate_net", r.net, NoGrid)))
                  \o all(LAMBDA r : Node(r.ball, "ball", r.net, Designator[r.ball])),
        edges |-> UNION {{{r.pad, "net_" \o r.net}, {"net_" \o r.net, r.ball}} : r \in ToSet(netlist)}]

\* A number that does not convert and a node id used twice raise; the coordinates of
\* a pad are looked at in its first row only.
AifRaises(rows) ==
    LET netlist == Complete(rows) IN
    \/ \E i \in DOMAIN netlist :
         \/ ~ netlist[i].ballReads
         \/ ~ netlist[i].padReads /\ \A j \in 1..i - 1 : netlist[j].pad # netlist[i].pad
    \/ ~ ValidGraph(ParseAif(rows))

\* ball_designator: a ball's grid, or the end of its id; an empty cell is NoGrid.
BallKey(b) == IF b.grid # NoGrid THEN b.grid ELSE <<b.id>>

\* load_db: a net without a name goes by its id, and a ball of several nets has that
\* of the last edge in the file, edge.
NetName(n) == IF n.name = Absent THEN Unprefixed[n.id] ELSE n.name

NetOfBall(g, b, edge) ==
    IF NetsOfBall(g, b) = {} THEN Absent ELSE NetName(First(NetsOfBall(g, b), edge))

DbRaises(g) == \E b, d \in Balls(g) : b # d /\ BallKey(b) = BallKey(d)

\* load_sheet: rows without a ball are skipped, later rows of a ball only counted.
Listed(sheet) == {i \in DOMAIN sheet : sheet[i].ball # NoGrid}
\* Mutant: a ball that was listed before is not told from the others.
EveryRow(sheet) == Listed(sheet)

FirstRows(sheet) ==
    {i \in Listed(sheet) : \A j \in Listed(sheet) : sheet[j].ball = sheet[i].ball => i <= j}

\* With one column of "x, y" a blank cell is an error, with two columns it reads as
\* a number that no distance exceeds.
CoordError(row, columns) ==
    \/ row.xy = "text" /\ columns # 0
    \/ row.xy = "blank" /\ columns = 1

Canon(name) == IF name \in DOMAIN Canonical THEN Canonical[name] ELSE name

\* crosscheck and the findings of main.
CrossFindings(g, edge, sheet, columns) ==
    LET balls == {BallKey(b) : b \in Balls(g)}
        rows  == {sheet[i] : i \in FirstRows(sheet)}
        met   == {m \in Balls(g) \X rows : BallKey(m[1]) = m[2].ball}
    IN {<<"missing_in_db", p>> : p \in {r.ball : r \in rows} \ balls}
       \cup {<<"missing_in_sheet", p>> : p \in balls \ {r.ball : r \in rows}}
       \cup {<<"net_mismatch", m[2].ball>> : m \in {m \in met :
                Canon(NetOfBall(g, m[1], edge)) # Canon(m[2].net)}}
       \cup {<<"coord_mismatch", m[2].ball>> : m \in {m \in met :
                columns # 0 /\ m[1].xy # Absent /\ m[2].xy = "off"}}
       \cup {<<"duplicate", sheet[i].ball>> : i \in Listed(sheet) \ FirstRows(sheet)}
       \cup {<<"coord_error", sheet[i].ball>> : i \in {i \in Listed(sheet) :
                CoordError(sheet[i], columns)}}

CrossCheck(g, edge, sheet, columns) ==
    IF ~ ValidGraph(g) \/ DbRaises(g) THEN "raised"
    ELSE IF CrossFindings(g, edge, sheet, columns) = {} THEN "agreed" ELSE "differs"

RoleAlias(role) == IF role = "sig" THEN "signal" ELSE role

\* _ball_roles: a dict, in which the last ball of a position is kept; "missing" is the
\* None of a position that is not in it.
BallRoleAt(g, p) ==
    LET at == {i \in DOMAIN g.nodes :
                  g.nodes[i].kind = "ball" /\ g.nodes[i].grid = p /\ p # NoGrid}
        role == g.nodes[Max(at)].role
    IN IF at = {} THEN "missing" ELSE IF role = Absent THEN "nc" ELSE role

\* Mutant: a position without a ball is passed over.
TemplateWhereFound(g, template) ==
    IF ~ ValidGraph(g) THEN "raised"
    ELSE IF \A p \in DOMAIN template : BallRoleAt(g, p) \in {"missing", RoleAlias(template[p])}
         THEN "met" ELSE "mismatch"

CheckTemplate(g, template) ==
    IF ~ ValidGraph(g) THEN "raised"
    ELSE IF \A p \in DOMAIN template :
              BallRoleAt(g, p) # "missing" /\ BallRoleAt(g, p) = RoleAlias(template[p])
         THEN "met" ELSE "mismatch"
=============================================================================
