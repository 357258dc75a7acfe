------------------------------- MODULE EcoDiff ------------------------------
(* diff/engine.py: the changes pkgtk diff sees between two revisions.  Each   *)
(* is its class and the net, position or group it is reported under.         *)
EXTENDS BallMap

\* Without --config pkgtk diff knows no counts of match groups.
NoConfig == [allow |-> {}, bridges |-> {}, grounds |-> << >>, adjacency |-> FALSE,
             alphabet |-> "full", counts |-> << >>,
             depop |-> [kind |-> "corner", n |-> 0, positions |-> {}]]

\* The characters of a position: its letters, above all digits, then its column.
Characters(p, alphabet) ==
    [i \in DOMAIN p[1] |-> 10 + CHOOSE k \in DOMAIN alphabet : alphabet[k] = p[1][i]]
    \o IF p[2] < 10 THEN <<p[2]>> ELSE <<p[2] \div 10, p[2] % 10>>

\* The order of two strings: A10 is before A2.
TextBefore(s, t) ==
    \E k \in 1..(Len(t)) :
        /\ SubSeq(s, 1, k - 1) = SubSeq(t, 1, k - 1)
        /\ Len(s) = k - 1 \/ (Len(s) >= k /\ s[k] < t[k])

FirstInText(positions) ==
    CHOOSE p \in positions : \A q \in positions :
        q = p \/ TextBefore(Characters(p, Full), Characters(q, Full))

GridsOfNet(g, n) == {b.grid : b \in BallsOfNet(g, n)} \ {NoGrid}

\* _View: dictionaries that a later net of the file overwrites.
LastNet(g, named(_)) ==
    g.nodes[Max({i \in DOMAIN g.nodes :
        /\ g.nodes[i].kind = "substrate_net" /\ g.nodes[i].name # Absent
        /\ named(g.nodes[i])})]

Placed(g)       == {n \in Nets(g) : n.name # Absent /\ GridsOfNet(g, n) # {}}
NetNamed(g, s)  == LastNet(g, LAMBDA n : n.name = s)
NetPos(g, s)    == FirstInText(GridsOfNet(g, LastNet(g, LAMBDA n : n \in Placed(g) /\ n.name = s)))
PosNet(g, p)    == LastNet(g, LAMBDA n : n \in Placed(g) /\ FirstInText(GridsOfNet(g, n)) = p).name
PlacedNames(g)  == {n.name : n \in Placed(g)}
Positions(g)    == {FirstInText(GridsOfNet(g, n)) : n \in Placed(g)}
BrokenGroups(g) == {v[2] : v \in CheckMatchgroups(g, NoConfig)}

DiffGraphs(a, b) ==
    LET both == Names(a) \cap Names(b) IN
    {<<"added", s>> : s \in Names(b) \ Names(a)}
    \cup {<<"removed", s>> : s \in Names(a) \ Names(b)}
    \cup {<<"net_moved", s>> : s \in {s \in PlacedNames(a) \cap PlacedNames(b) :
            NetPos(a, s) # NetPos(b, s)}}
    \cup {<<"domain_changed", s>> : s \in {s \in both :
            NetNamed(a, s).domain # NetNamed(b, s).domain}}
    \cup {<<"ball_repurposed", p>> : p \in {p \in Positions(a) \cap Positions(b) :
            PosNet(a, p) # PosNet(b, p)}}
    \cup {<<"pair_broken", s>> : s \in {s \in Positives(a) :
            PartnerOf[s] \in Names(a) \ Names(b) /\ s \in Names(b)}}
    \cup {<<"match_group_broken", m>> : m \in BrokenGroups(b) \ BrokenGroups(a)}

\* pkgtk diff: exit 0 or 1, or a traceback.
RunDiff(a, b) ==
    IF ~ ValidGraph(a) \/ ~ ValidGraph(b) THEN "raised"
    ELSE IF DiffGraphs(a, b) = {} THEN "same" ELSE "changed"
=============================================================================
