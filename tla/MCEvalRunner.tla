----------------------------- MODULE MCEvalRunner ---------------------------
(* Two runners that may be given the same output directory, and task lists    *)
(* that bring every grader before and after another.                         *)
EXTENDS EvalRunner

CONSTANTS r1, r2

Diagnose == [family |-> "diagnose", mutation |-> "nc_collision"]
Fix      == [family |-> "fix", mutation |-> "nc_collision"]
EcoDiff  == [family |-> "ecodiff", mutation |-> "diffpair"]

Wrote(out) == [inputs |-> "made", out |-> out]
Findings(triples) == Wrote([kind |-> "findings", triples |-> triples, form |-> "asked"])
Graph(counts, verify, form) == Wrote([kind |-> "graph", counts |-> counts, verify |-> verify, form |-> form])
Eco(nets) == Wrote([kind |-> "eco", nets |-> nets, classes |-> "expected", form |-> "asked"])

\* Of each family a right answer and some that are wrong, each in a way of its own: a
\* finding too few, a grader that raises, a form not asked for, wrong counts, a verify
\* that hangs, an answer that is none, an input altered.
MCLeaves == [
    diagnose |-> {Findings({"seeded"}), Findings({}), Findings({"seeded", "named", "nameless"})},
    fix      |-> {Graph("clean", "clean", "other"), Graph("clean", "hangs", "asked"),
                  Graph("off", "clean", "other"), Wrote([kind |-> "uncountable"])},
    ecodiff  |-> {Eco("expected"), [Eco("expected") EXCEPT !.inputs = "altered"], Eco("other"),
                  Wrote([kind |-> "unusable"])}]

\* One task list for all, or two without a task in common.
MCPlans == {[r \in Runners |-> <<Fix, EcoDiff>>],
            [r \in Runners |-> IF r = r2 THEN <<Diagnose>> ELSE <<Fix>>]}
=============================================================================
