------------------------------- MODULE Graders ------------------------------
(* evals/graders.py: what a grader says of the directory an agent leaves     *)
(* behind.  A directory is the state of its graded inputs and of the one      *)
(* file the task asks for.  What is in that file is reduced to what a grader  *)
(* can tell apart.                                                           *)
EXTENDS Integers, FiniteSets

Families == {"diagnose", "fix", "ecodiff"}

\* The findings a diagnose task expects, and some it does not: a rule id that
\* is a string and one that is missing, which Python cannot sort.
Expected == {"seeded"}
Spurious == {"named", "nameless"}

\* No answer, or one that is not JSON or not of the right shape.
Unusable == [kind : {"absent", "unusable"}]

\* An unhashable finding has a list where a string belongs; the nodes of an
\* uncountable graph are a number.  The graph of a fix task has the node and edge
\* counts of the clean design or not, and verify exits 0, exits otherwise or hangs
\* on it; the lists of an ecodiff are those expected, or something else.  An answer
\* also has the form its task asks for or another one: the smallest edit that leaves
\* the rest alone, one object per violation, classes listed once.
Forms == {"asked", "other"}
Outputs(family) ==
    CASE family = "diagnose" ->
            Unusable \cup [kind : {"findings"}, triples : SUBSET (Expected \cup Spurious), form : Forms]
                     \cup [kind : {"unhashable"}]
      [] family = "fix" ->
            Unusable \cup [kind : {"graph"}, counts : {"clean", "off"},
                           verify : {"clean", "dirty", "hangs"}, form : Forms]
                     \cup [kind : {"uncountable"}]
      [] family = "ecodiff" ->
            Unusable \cup [kind : {"eco"}, nets : {"expected", "other"},
                           classes : {"expected", "other"}, form : Forms]

WorkDir(family) == [inputs : {"made", "altered"}, out : Outputs(family)]

\* A task as it is generated: the answer is not written, or is the defective graph.
Generated(family) ==
    [inputs |-> "made",
     out |-> IF family = "fix" THEN [kind |-> "graph", counts |-> "off", verify |-> "dirty", form |-> "other"]
                               ELSE [kind |-> "absent"]]

InputReasons(w) == IF w.inputs = "made" THEN {} ELSE {"input altered"}

\* sorted() of findings in which a string meets None.
Unsortable(findings) == Cardinality(findings) > 1

DiagnoseReasons(out) ==
    {r \in {"missing", "spurious"} :
        \/ r = "missing" /\ ~ Expected \subseteq out.triples
        \/ r = "spurious" /\ ~ out.triples \subseteq Expected}

EcoReasons(out) ==
    {r \in {"nets", "classes"} :
        \/ r = "nets" /\ out.nets # "expected"
        \/ r = "classes" /\ out.classes # "expected"}

CountReasons(out) == IF out.counts = "clean" THEN {} ELSE {"counts"}

\* What a grader finds when it loads the answer; for a fix, before verify.
LoadReasons(out) ==
    CASE out.kind = "findings"  -> DiagnoseReasons(out)
      [] out.kind = "eco"       -> EcoReasons(out)
      [] out.kind = "graph"     -> CountReasons(out)
      [] out \in Unusable          -> {out.kind}

\* A grader that raises: a list in a set, the sorting of a message, len(5).
GraderRaises(out) ==
    \/ out.kind \in {"unhashable", "uncountable"}
    \/ out.kind = "findings" /\ Unsortable(out.triples \ Expected)

\* pkgtk verify is run on a graph that loaded as an object, whatever its counts.
NeedsVerify(out)   == out.kind = "graph"
VerifyReasons(out) == IF out.kind = "graph" /\ out.verify = "clean" THEN {} ELSE {"verify"}

\* What the prompt of a task asks for.
Solved(family, w) ==
    /\ w.inputs = "made"
    /\ w.out \in CASE family = "diagnose" ->
                        {[kind |-> "findings", triples |-> Expected, form |-> "asked"]}
                   [] family = "fix" ->
                        {[kind |-> "graph", counts |-> "clean", verify |-> "clean", form |-> "asked"]}
                   [] family = "ecodiff" ->
                        {[kind |-> "eco", nets |-> "expected", classes |-> "expected", form |-> "asked"]}

\* The grader makes sets of what is listed, and counts nodes and edges: it takes any
\* form for the one that was asked for.
AsGraded(w) ==
    IF w.out.kind \in {"findings", "graph", "eco"} THEN [w EXCEPT !.out.form = "asked"] ELSE w
=============================================================================
