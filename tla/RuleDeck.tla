------------------------------ MODULE RuleDeck ------------------------------
(* A design rule from its extraction to its use: the paranoia battery         *)
(* (llm/battery.py), the deck and its coverage (lint/deck.py, coverage.py),   *)
(* the lint dispatch (cli/check.py, lint/engine.py) and the escape oracle     *)
(* (oracles/escape.py).  A number is in thousandths of its unit, a length in  *)
(* nm; the geometry of a check is KLayout's.                                 *)
EXTENDS Integers, SequencesExt

CONSTANT None   \* no rule: the marker of a value that is not offered

Absent == "none"

\* The length a number is, by the factor of its unit.
Factor == [um |-> <<1, 1>>, mm |-> <<1000, 1>>, nm |-> <<1, 1000>>, mil |-> <<254, 10>>]
Length(number, units) == (number * Factor[units][1]) \div Factor[units][2]

Window(lo, hi, canon) == [lo |-> lo, hi |-> hi, canon |-> canon]

PLAUSIBLE ==
    [trace_width_min |-> Window(1000, 1000000, "um"),
     spacing_min |-> Window(1000, 1000000, "um"),
     degas_to_trace_clearance_min |-> Window(1000, 1000000, "um"),
     annular_ring_min |-> Window(1000, 1000000, "um"),
     copper_to_edge_min |-> Window(10000, 5000000, "um"),
     copper_balance_window |-> Window(100000, 50000000, "mm"),
     degas_coverage_window |-> Window(100000, 50000000, "mm")]

\* The conversions of _TO, the parameters that end in _min, and the vocabularies
\* of coverage.py, engine.py and its dispatch, which are kept in sync by hand.
\* TOWithMil is a mutant: a unit that the battery knows and lint does not.
TOWithMil == {<<"um", "um">>, <<"mm", "um">>, <<"nm", "um">>, <<"mil", "um">>, <<"mm", "mm">>, <<"um", "mm">>}
TO == {<<"um", "um">>, <<"mm", "um">>, <<"nm", "um">>, <<"mm", "mm">>, <<"um", "mm">>}
Minimums == {"trace_width_min", "spacing_min", "degas_to_trace_clearance_min",
             "annular_ring_min", "copper_to_edge_min"}
IMPLEMENTED_PARAMETERS ==
    {"trace_width_min", "spacing_min", "degas_to_trace_clearance_min", "copper_to_edge_min"}
IMPLEMENTED == {"trace_width_min", "spacing_min", "degas_to_trace_clearance_min", "copper_to_edge_min"}
DISPATCH == {"trace_width_min", "spacing_min", "degas_to_trace_clearance_min", "copper_to_edge_min"}

PhysicsFlags(c) ==
    LET r == c.rule
        window == PLAUSIBLE[r.parameter]
        units == IF r.units = Absent THEN window.canon ELSE r.units
        known == <<units, window.canon>> \in TO
        scalar == r.kind = "scalar" /\ r.parameter \in DOMAIN PLAUSIBLE
    IN {f \in {"REJECT unparseable", "REVIEW non monotonic", "REVIEW unknown units",
               "REJECT implausible", "REVIEW direction"} :
        \/ f = "REJECT unparseable" /\ r.kind \in {"expression", "piecewise"} /\ ~ r.parses
        \/ f = "REVIEW non monotonic" /\ r.kind = "piecewise" /\ ~ r.monotonic
        \/ f = "REVIEW unknown units" /\ scalar /\ ~ known
        \/ f = "REJECT implausible" /\ scalar /\ known
             /\ Length(r.number, units) \notin window.lo..window.hi
        \/ f = "REVIEW direction" /\ r.parameter \in Minimums /\ c.minmax = "max"}

\* The flags of run_battery.  A candidate without a rule marks a value not offered.
Flags(c, second) ==
    IF c.rule = None
    THEN {f \in {"REVIEW disagreement"} : second # None /\ second.rule # None}
    ELSE PhysicsFlags(c) \cup
       {f \in {"REVIEW header", "REJECT unbound note", "REJECT dash", "REVIEW disagreement"} :
        \/ f = "REVIEW header" /\ c.tableUnits # Absent
             /\ c.rule.units \notin {Absent, c.tableUnits}
        \/ f = "REJECT unbound note" /\ c.noted /\ c.rule.condition = Absent /\ ~ c.rule.manual
        \/ f = "REJECT dash" /\ c.cell = "dash" /\ ~ c.notOffered
        \/ f = "REVIEW disagreement" /\ second # None /\ second.rule # c.rule}

Rejections == {"REJECT unparseable", "REJECT implausible", "REJECT unbound note", "REJECT dash"}

Decide(c, second) ==
    IF Flags(c, second) \cap Rejections # {} THEN "reject"
    ELSE IF Flags(c, second) # {} \/ ~ c.confident THEN "review" ELSE "accept"

\* RuleIR and load_deck: a rule that does not validate, or an id used twice, raises.
ValidRule(r) ==
    /\ r.kind = "scalar" => r.units # Absent
    /\ r.kind # "scalar" => r.parses
    /\ r.condition = "free text" => r.manual

LoadRaises(deck) ==
    \/ \E i \in DOMAIN deck : ~ ValidRule(deck[i])
    \/ \E i, j \in DOMAIN deck : i # j /\ deck[i].id = deck[j].id

Status(r) ==
    IF r.manual THEN "manual"
    ELSE IF r.parameter \in IMPLEMENTED_PARAMETERS THEN "implemented" ELSE "unimplemented"

Coverage(deck) == {[id |-> r.id, status |-> Status(r)] : r \in ToSet(deck)}

\* _scalar_um: a unit without a factor counts as um.
ScalarUm(r) == Length(r.number, IF r.units \in {"um", "mm", "nm"} THEN r.units ELSE "um")

\* The layer classes whose absence from the map is a KeyError.
LayersOf(r) ==
    CASE r.parameter = "degas_to_trace_clearance_min" -> {"signal", "degas"}
      [] r.parameter = "copper_to_edge_min" -> {"outline"}
      [] OTHER -> {IF r.layer = Absent THEN "signal" ELSE r.layer}

ToCheck(deck) == {r \in ToSet(deck) : r.parameter \in IMPLEMENTED}
Scalars(deck) == {r \in ToCheck(deck) : r.kind = "scalar"}

LintRaises(deck, layers) ==
    LoadRaises(deck) \/ \E r \in Scalars(deck) : r.parameter \in DISPATCH /\ ~ LayersOf(r) \subseteq layers

\* run_lint: the rules that were checked, at which length, and those skipped.  Every
\* violation is hard, whatever the severity of its rule.
Skipped(deck) == {r.id : r \in ToCheck(deck) \ Scalars(deck)}
Checked(deck) == {[id |-> r.id, um |-> ScalarUm(r)] : r \in {r \in Scalars(deck) : r.parameter \in DISPATCH}}

\* line_space_from_deck: the number of the first scalar rule of the class, whatever
\* its unit; 0 where the deck has none.
Line(deck, parameter, class) ==
    LET found == {i \in DOMAIN deck : /\ deck[i].parameter = parameter
                                      /\ deck[i].kind = "scalar"
                                      /\ deck[i].layer \in {Absent, class}}
    IN IF found = {} THEN 0 ELSE deck[Min(found)].number

EscapeRaises(deck) ==
    \/ LoadRaises(deck)
    \/ \E p \in {"trace_width_min", "spacing_min"} : Line(deck, p, "signal") = 0

\* Mutant: no space beside the last track.
NTracksTight(region, line, space) == Max({0, (region.pitch - region.land) \div (line + space)})

\* A region: its pitch and land, its channels times layers, and the demand.
NTracks(region, line, space) ==
    Max({0, (region.pitch - region.land - space) \div (line + space)})

Feasible(deck, region) ==
    region.demand <= region.channels *
        NTracks(region, Line(deck, "trace_width_min", "signal"), Line(deck, "spacing_min", "signal"))
=============================================================================
