--------------------------- MODULE EvalRunnerProofs -------------------------
(* Theorems about the eval runner, for any runners, plans and agents: a pass  *)
(* is earned and stays earned, and reports tell of their own runner's tasks.  *)
EXTENDS EvalRunner, FiniteSetTheorems, TLAPS

\* A runner that has generated all of its tasks, at a task or writing its reports.
AtTask  == {"version", "run", "waits", "grade", "verify", "append"}
Persist == {"json", "write json", "md", "write md"}
Past    == AtTask \cup Persist \cup {"done"}

Owns(r) == \A i \in 1..Len(plan[r]) : owner[plan[r][i]] = r

\* The rows of a runner are about the first tasks of its plan, which are its own.
RowsInv(r) ==
    /\ pc[r] \in Past => Owns(r)
    /\ Len(rows[r]) <= Len(plan[r])
    /\ \A i \in 1..Len(rows[r]) : rows[r][i].task = plan[r][i] /\ owner[plan[r][i]] = r
    /\ pc[r] \in {"off", "build", "version", "dry"} => rows[r] = << >>
    /\ pc[r] \in AtTask => Len(rows[r]) < Len(plan[r])
    /\ pc[r] \in Persist \cup {"done"} => rows[r] # << >>

\* A verdict without reasons so far, and the rows that say passed.  Nothing is said of
\* a task in which an agent that ended by itself left a process.
HalfSolved(family, w) ==
    family = "fix" /\ w.inputs = "made" /\ w.out.kind = "graph" /\ w.out.counts = "clean"
Earned(t, W, D) == t \in D \/ Solved(t.family, AsGraded(W[t]))
VerdictInv(r) ==
    /\ pc[r] = "verify" /\ reasons[r] = {} =>
         Current(r) \in detached \/ HalfSolved(Current(r).family, work[Current(r)])
    /\ pc[r] = "append" /\ reasons[r] = {} => Earned(Current(r), work, detached)
    /\ \A i \in 1..Len(rows[r]) : rows[r][i].passed => Earned(plan[r][i], work, detached)

\* A process outlives the agent it was killed with in a task that has failed, or will.
Lost(r, i) ==
    \/ i <= Len(rows[r]) /\ ~ rows[r][i].passed
    \/ /\ i = Len(rows[r]) + 1
       /\ pc[r] = "dead" \/ (pc[r] \in {"grade", "waits", "verify", "append"} /\ reasons[r] # {})
StraysInv ==
    \A t \in strays : \E r \in Runners : \E i \in 1..Len(plan[r]) :
        t = plan[r][i] /\ owner[t] = r /\ Lost(r, i)
WaitsInv(r) == pc[r] = "waits" => reasons[r] # {}

\* What a report that a runner wrote holds, wherever the runner is; another runner may
\* have written since.
By(f, r) == f.state = "whole" /\ f.by = r
ReportInv(r) ==
    /\ By(json, r) \/ By(md, r) => rows[r] # << >>
    /\ By(json, r) =>
         /\ pc[r] \in AtTask \cup {"done", "md", "write md"} => json.rows = rows[r]
         /\ pc[r] = "json" => json.rows = Front(rows[r])
         /\ pc[r] # "write json"
    /\ By(md, r) =>
         /\ pc[r] \in AtTask \cup {"done"} => md.rows = rows[r]
         /\ pc[r] \in {"json", "write json", "md"} => md.rows = Front(rows[r])
         /\ pc[r] # "write md"
    /\ pc[r] \in {"write json", "md", "write md"} => json # Absent

\* Only who has generated its whole plan reports.
Reporters == \A f \in {json, md} : f.state = "whole" => Owns(f.by)

Inv ==
    /\ TypeOK
    /\ \A r \in Runners : RowsInv(r) /\ VerdictInv(r) /\ WaitsInv(r) /\ ReportInv(r)
    /\ StraysInv
    /\ Reporters
    /\ ReportsAgree

-----------------------------------------------------------------------------
(* Plans.                                                                    *)

LEMMA PlanFacts ==
    ASSUME plan \in Plans, NEW r \in Runners
    PROVE  /\ Len(plan[r]) \in Nat /\ Len(plan[r]) > 0
           /\ DOMAIN plan[r] = 1..Len(plan[r])
           /\ \A i \in 1..Len(plan[r]) : plan[r][i] \in Tasks /\ plan[r][i].family \in Families
           /\ \A i, j \in 1..Len(plan[r]) : plan[r][i] = plan[r][j] => i = j
<1> DEFINE T == [family : Families, mutation : STRING]
<1>1. plan[r] \in Seq(T) /\ plan[r] # << >> /\ IsInjective(plan[r])
    BY PlansAssumption
<1>2. DOMAIN plan[r] = 1..Len(plan[r]) /\ Len(plan[r]) \in Nat /\ Len(plan[r]) > 0
    BY <1>1
<1>3. \A i \in 1..Len(plan[r]) : plan[r][i].family \in Families
    <2>1. \A t \in T : t.family \in Families
        OBVIOUS
    <2> HIDE DEF T
    <2>2. \A i \in 1..Len(plan[r]) : plan[r][i] \in T
        BY <1>1
    <2> QED
        BY <2>1, <2>2
<1>4. \A i \in 1..Len(plan[r]) : plan[r][i] \in Tasks
    <2>1. Range(plan[r]) \subseteq Tasks
        BY DEF Tasks
    <2> QED
        BY <1>2, <2>1 DEF Range
<1> QED
    BY <1>1, <1>2, <1>3, <1>4 DEF IsInjective

LEMMA TaskFamilies == \A t \in Tasks : t.family \in Families
<1> DEFINE T == [family : Families, mutation : STRING]
<1>1. /\ \A p \in Plans, r \in Runners : p[r] \in Seq(T)
      /\ \A t \in T : t.family \in Families
    BY PlansAssumption
<1> HIDE DEF T
<1>2. \A p \in Plans, r \in Runners : Range(p[r]) \subseteq T
    BY <1>1 DEF Range
<1> QED
    BY <1>1, <1>2 DEF Tasks

\* A runner that has made as many tasks as its plan has made all of them.
LEMMA MadeFacts ==
    ASSUME plan \in Plans, NEW r \in Runners
    PROVE  /\ Cardinality(Made(r)) \in Nat /\ Cardinality(Made(r)) <= Len(plan[r])
           /\ Cardinality(Made(r)) = Len(plan[r]) => Owns(r)
           /\ Cardinality(Made(r)) < Len(plan[r]) => ToMake(r) \in Range(plan[r])
<1>1. Len(plan[r]) \in Nat /\ DOMAIN plan[r] = 1..Len(plan[r])
    BY PlanFacts
<1>2. IsFiniteSet(1..Len(plan[r])) /\ Cardinality(1..Len(plan[r])) = Len(plan[r])
    <2>1. 1 \in Int /\ Len(plan[r]) \in Int
        BY <1>1
    <2>2. /\ IsFiniteSet(1..Len(plan[r]))
          /\ Cardinality(1..Len(plan[r])) = IF 1 > Len(plan[r]) THEN 0 ELSE Len(plan[r]) - 1 + 1
        BY ONLY <2>1, FS_Interval
    <2> QED
        BY <1>1, <2>2
<1>3. plan[r] \in Surjection(1..Len(plan[r]), Range(plan[r]))
    <2>1. plan[r] \in [1..Len(plan[r]) -> Range(plan[r])]
        BY <1>1, PlansAssumption DEF Range
    <2> QED
        BY <1>1, <2>1 DEF Surjection, Range
<1>4. IsFiniteSet(Range(plan[r])) /\ Cardinality(Range(plan[r])) <= Len(plan[r]) /\ Cardinality(Range(plan[r])) \in Nat
    BY <1>2, <1>3, FS_Surjection, FS_CardinalityType
<1>5. Made(r) \in SUBSET Range(plan[r])
    BY DEF Made
<1>6. /\ Cardinality(Made(r)) \in Nat /\ Cardinality(Made(r)) <= Cardinality(Range(plan[r]))
      /\ Cardinality(Made(r)) = Cardinality(Range(plan[r])) => Made(r) = Range(plan[r])
    BY <1>4, <1>5, FS_Subset, FS_CardinalityType
<1>7. Made(r) = Range(plan[r]) => Owns(r)
    BY <1>1 DEF Made, Owns, Range
<1>8. Cardinality(Made(r)) < Len(plan[r]) => ToMake(r) \in Range(plan[r])
    BY <1>1, <1>6 DEF ToMake, Range
<1> QED
    BY <1>1, <1>4, <1>6, <1>7, <1>8

-----------------------------------------------------------------------------
(* Graders.                                                                  *)

\* A grader without a reason has found the task solved, or half of a fix.
LEMMA GradeIsSound ==
    ASSUME NEW f \in Families, NEW w \in WorkDir(f), ~ GraderRaises(w.out),
           InputReasons(w) = {}, LoadReasons(w.out) = {}
    PROVE  IF NeedsVerify(w.out) THEN HalfSolved(f, w) ELSE Solved(f, AsGraded(w))
<1>0. w.inputs = "made" /\ w.out \in Outputs(f) /\ w = [inputs |-> w.inputs, out |-> w.out]
    BY DEF InputReasons, WorkDir
<1>1. w.out \notin Unusable
    <2>1. ASSUME w.out \in Unusable
          PROVE  LoadReasons(w.out) = {w.out.kind}
        BY <2>1 DEF Unusable, LoadReasons
    <2> QED
        BY <2>1
<1>2. CASE f = "diagnose"
    <2>1. CASE w.out \in [kind : {"findings"}, triples : SUBSET (Expected \cup Spurious), form : Forms]
        <3>1. LoadReasons(w.out) = DiagnoseReasons(w.out)
            BY <2>1 DEF LoadReasons
        <3>2. w.out.triples = Expected
            BY <3>1 DEF DiagnoseReasons
        <3>3. /\ ~ NeedsVerify(w.out)
              /\ [w.out EXCEPT !.form = "asked"] = [kind |-> "findings", triples |-> Expected, form |-> "asked"]
            BY <2>1, <3>2 DEF NeedsVerify
        <3>4. AsGraded(w) = [inputs |-> w.inputs, out |-> [w.out EXCEPT !.form = "asked"]]
            BY <1>0, <2>1 DEF AsGraded
        <3> QED
            BY <1>0, <1>2, <3>3, <3>4 DEF Solved
    <2>2. CASE w.out \in [kind : {"unhashable"}]
        BY <2>2 DEF GraderRaises
    <2> QED
        BY <1>0, <1>1, <1>2, <2>1, <2>2 DEF Outputs
<1>3. CASE f = "fix"
    <2>1. CASE w.out \in [kind : {"graph"}, counts : {"clean", "off"}, verify : {"clean", "dirty", "hangs"}, form : Forms]
        <3>1. LoadReasons(w.out) = CountReasons(w.out)
            BY <2>1 DEF LoadReasons
        <3>2. w.out.counts = "clean" /\ NeedsVerify(w.out)
            BY <2>1, <3>1 DEF CountReasons, NeedsVerify
        <3> QED
            BY <1>0, <1>3, <2>1, <3>2 DEF HalfSolved
    <2>2. CASE w.out \in [kind : {"uncountable"}]
        BY <2>2 DEF GraderRaises
    <2> QED
        BY <1>0, <1>1, <1>3, <2>1, <2>2 DEF Outputs
<1>4. CASE f = "ecodiff"
    <2>1. w.out \in [kind : {"eco"}, nets : {"expected", "other"}, classes : {"expected", "other"}, form : Forms]
        BY <1>0, <1>1, <1>4 DEF Outputs
    <2>2. LoadReasons(w.out) = EcoReasons(w.out)
        BY <2>1 DEF LoadReasons
    <2>3. w.out.nets = "expected" /\ w.out.classes = "expected"
        BY <2>2 DEF EcoReasons
    <2>4. /\ ~ NeedsVerify(w.out)
          /\ [w.out EXCEPT !.form = "asked"]
               = [kind |-> "eco", nets |-> "expected", classes |-> "expected", form |-> "asked"]
        BY <2>1, <2>3 DEF NeedsVerify
    <2>5. AsGraded(w) = [inputs |-> w.inputs, out |-> [w.out EXCEPT !.form = "asked"]]
        BY <1>0, <2>1 DEF AsGraded
    <2> QED
        BY <1>0, <1>4, <2>4, <2>5 DEF Solved
<1> QED
    BY <1>2, <1>3, <1>4 DEF Families

\* A verify that exits 0 completes a fix.
LEMMA VerifyIsSound ==
    ASSUME NEW f \in Families, NEW w \in WorkDir(f), HalfSolved(f, w),
           VerifyReasons(w.out) = {}
    PROVE  Solved(f, AsGraded(w))
<1>1. w.inputs = "made" /\ w.out \in Outputs("fix") /\ f = "fix"
    BY DEF HalfSolved, WorkDir
<1>2. w.out \in [kind : {"graph"}, counts : {"clean", "off"}, verify : {"clean", "dirty", "hangs"}, form : Forms]
    BY <1>1 DEF Outputs, Unusable, HalfSolved
<1>3. w.out.verify = "clean" /\ w.out.counts = "clean"
    BY DEF VerifyReasons, HalfSolved
<1>4. /\ w = [inputs |-> w.inputs, out |-> w.out]
      /\ [w.out EXCEPT !.form = "asked"]
           = [kind |-> "graph", counts |-> "clean", verify |-> "clean", form |-> "asked"]
    BY <1>2, <1>3 DEF WorkDir
<1>5. AsGraded(w) = [inputs |-> w.inputs, out |-> [w.out EXCEPT !.form = "asked"]]
    BY <1>2, <1>4 DEF AsGraded
<1> QED
    BY <1>1, <1>4, <1>5 DEF Solved

\* What graders say is a set of reasons.
LEMMA ReasonsOf ==
    ASSUME NEW f \in Families, NEW w \in WorkDir(f)
    PROVE  /\ InputReasons(w) \subseteq Reasons /\ VerifyReasons(w.out) \subseteq Reasons
           /\ ~ GraderRaises(w.out) => LoadReasons(w.out) \subseteq Reasons
<1>1. InputReasons(w) \subseteq Reasons /\ VerifyReasons(w.out) \subseteq Reasons
    BY DEF InputReasons, VerifyReasons, Reasons
<1>2. w.out \in Outputs(f)
    BY DEF WorkDir
<1>3. CASE w.out \in Unusable
    <2>1. LoadReasons(w.out) = {w.out.kind} /\ w.out.kind \in {"absent", "unusable"}
        BY <1>3 DEF LoadReasons, Unusable
    <2> QED
        BY <1>1, <2>1 DEF Reasons
<1>4. CASE w.out.kind = "findings"
    <2>1. LoadReasons(w.out) = DiagnoseReasons(w.out)
        BY <1>4 DEF LoadReasons, Unusable
    <2> QED
        BY <1>1, <2>1 DEF DiagnoseReasons, Reasons
<1>5. CASE w.out.kind = "eco"
    <2>1. LoadReasons(w.out) = EcoReasons(w.out)
        BY <1>5 DEF LoadReasons, Unusable
    <2> QED
        BY <1>1, <2>1 DEF EcoReasons, Reasons
<1>6. CASE w.out.kind = "graph"
    <2>1. LoadReasons(w.out) = CountReasons(w.out)
        BY <1>6 DEF LoadReasons, Unusable
    <2> QED
        BY <1>1, <2>1 DEF CountReasons, Reasons
<1>7. CASE w.out.kind \in {"unhashable", "uncountable"}
    BY <1>1, <1>7 DEF GraderRaises
<1>8. \/ w.out \in Unusable
      \/ w.out.kind \in {"findings", "eco", "graph", "unhashable", "uncountable"}
    BY <1>2 DEF Outputs, Families
<1> QED
    BY <1>1, <1>3, <1>4, <1>5, <1>6, <1>7, <1>8

-----------------------------------------------------------------------------
(* Types, and what a step of a runner leaves alone.                          *)

LEMMA CurrentFacts ==
    ASSUME TypeOK, NEW r \in Runners, RowsInv(r), pc[r] \in AtTask
    PROVE  /\ Len(rows[r]) \in Nat /\ Len(rows[r]) + 1 \in 1..Len(plan[r])
           /\ Current(r) = plan[r][Len(rows[r]) + 1]
           /\ Current(r) \in Tasks /\ Current(r).family \in Families
           /\ work[Current(r)] \in WorkDir(Current(r).family)
<1>1. Len(rows[r]) \in Nat /\ Len(rows[r]) < Len(plan[r]) /\ Len(plan[r]) \in Nat
    BY PlanFacts DEF TypeOK, RowsInv
<1>2. Len(rows[r]) + 1 \in 1..Len(plan[r])
    BY <1>1
<1> QED
    BY <1>1, <1>2, PlanFacts DEF Current, TypeOK

RowOf(r) == [task |-> Current(r), passed |-> reasons[r] = {}]
Frame(r) ==
    /\ plan' = plan /\ detached \subseteq detached'
    /\ \A q \in Runners \ {r} : pc'[q] = pc[q] /\ reasons'[q] = reasons[q] /\ rows'[q] = rows[q]
    /\ \A t \in Tasks : owner'[t] = owner[t] \/ owner[t] = None
    /\ \A t \in Tasks : work'[t] = work[t] \/ (pc[r] = "run" /\ t = Current(r))
    /\ \/ rows'[r] = rows[r]
       \/ pc[r] = "append" /\ pc'[r] = "json" /\ rows'[r] = Append(rows[r], RowOf(r))

LEMMA GoType ==
    ASSUME TypeOK, NEW r \in Runners, NEW from, NEW to \in PCs, Go(r, from, to)
    PROVE  /\ pc' \in [Runners -> PCs] /\ pc[r] = from /\ pc'[r] = to
           /\ \A q \in Runners \ {r} : pc'[q] = pc[q]
BY DEF TypeOK, Go

LEMMA ReasonsType ==
    ASSUME TypeOK, NEW r \in Runners, NEW S \in SUBSET Reasons, reasons' = [reasons EXCEPT ![r] = S]
    PROVE  /\ reasons' \in [Runners -> SUBSET Reasons] /\ reasons'[r] = S
           /\ \A q \in Runners \ {r} : reasons'[q] = reasons[q]
BY DEF TypeOK

\* Making tasks, and steps that only move the runner.
LEMMA MakingType ==
    ASSUME TypeOK, NEW r \in Runners,
           Begin(r) \/ MakeTask(r) \/ CannotMake(r) \/ Built(r) \/ Version(r) \/ Drain(r) \/ Die(r)
    PROVE  TypeOK' /\ Frame(r)
<1>1. ASSUME NEW from, NEW to \in PCs, Go(r, from, to), UNCHANGED <<plan, owner, work, strays, detached, reasons, rows, json, md>>
      PROVE  TypeOK' /\ Frame(r)
    <2>1. pc' \in [Runners -> PCs] /\ \A q \in Runners \ {r} : pc'[q] = pc[q]
        BY <1>1, GoType
    <2> QED
        BY <1>1, <2>1 DEF TypeOK, Frame
<1>2. CASE Begin(r)
    BY <1>1, <1>2 DEF Begin, PCs, Ended
<1>3. CASE MakeTask(r)
    <2>1. ToMake(r) \in Tasks
        <3>1. Range(plan[r]) \subseteq Tasks
            BY DEF Tasks, TypeOK
        <3> QED
            BY <1>3, <3>1, MadeFacts DEF MakeTask, TypeOK
    <2>2. /\ owner' \in [Tasks -> Runners \cup {None}]
          /\ \A t \in Tasks : owner'[t] = owner[t] \/ owner[t] = None
        BY <1>3, <2>1 DEF MakeTask, TypeOK
    <2>3. pc' \in [Runners -> PCs] /\ \A q \in Runners \ {r} : pc'[q] = pc[q]
        BY <1>3, GoType DEF MakeTask, PCs
    <2> QED
        BY <1>3, <2>2, <2>3 DEF MakeTask, TypeOK, Frame
<1>4. CASE CannotMake(r) \/ Built(r) \/ Version(r) \/ Drain(r)
    BY <1>1, <1>4 DEF CannotMake, Built, Version, Drain, PCs, Ended
<1>5. CASE Die(r)
    <2>1. pc' \in [Runners -> PCs] /\ \A q \in Runners \ {r} : pc'[q] = pc[q]
        BY <1>5 DEF Die, TypeOK, PCs, Ended
    <2> QED
        BY <1>5, <2>1 DEF Die, TypeOK, Frame
<1> QED
    BY <1>2, <1>3, <1>4, <1>5

\* The work on a task, and its verdict.
LEMMA TaskType ==
    ASSUME TypeOK, NEW r \in Runners, RowsInv(r),
           AgentEnds(r) \/ AgentTimesOut(r) \/ Grade(r) \/ Verify(r) \/ Append1(r)
    PROVE  TypeOK' /\ Frame(r)
<1>0. pc[r] \in {"run", "grade", "verify", "append"}
    BY DEF AgentEnds, AgentTimesOut, Grade, Verify, Append1, Go
<1>1. /\ Current(r) \in Tasks /\ Current(r).family \in Families
      /\ work[Current(r)] \in WorkDir(Current(r).family)
    BY <1>0, CurrentFacts DEF AtTask
<1>2. reasons[r] \in SUBSET Reasons
    BY DEF TypeOK
<1>3. ASSUME NEW to \in PCs, NEW from, Go(r, from, to), UNCHANGED <<plan, owner, rows, json, md>>,
             NEW S \in SUBSET Reasons, reasons' = [reasons EXCEPT ![r] = S],
             strays' \subseteq Tasks, detached \subseteq detached', detached' \subseteq Tasks,
             work' = work \/ (pc[r] = "run" /\ \E w \in Leaves[Current(r).family] : work' = [work EXCEPT ![Current(r)] = w])
      PROVE  TypeOK' /\ Frame(r)
    <2>1. pc' \in [Runners -> PCs] /\ \A q \in Runners \ {r} : pc'[q] = pc[q]
        BY <1>3, GoType
    <2>2. reasons' \in [Runners -> SUBSET Reasons] /\ \A q \in Runners \ {r} : reasons'[q] = reasons[q]
        BY <1>3, ReasonsType
    <2> DEFINE Typed ==
            /\ work' \in [Tasks -> UNION {WorkDir(f) : f \in Families}]
            /\ \A t \in Tasks : work'[t] \in WorkDir(t.family)
            /\ \A t \in Tasks : work'[t] = work[t] \/ (pc[r] = "run" /\ t = Current(r))
    <2>3. Typed
        <3>1. CASE work' = work
            BY <3>1 DEF TypeOK
        <3>2. ASSUME pc[r] = "run", NEW w \in Leaves[Current(r).family], work' = [work EXCEPT ![Current(r)] = w]
              PROVE  Typed
            <4>1. w \in WorkDir(Current(r).family) /\ w \in UNION {WorkDir(f) : f \in Families}
                BY <1>1, <3>2, LeavesAssumption
            <4> QED
                BY <1>1, <3>2, <4>1 DEF TypeOK
        <3> QED
            BY <1>3, <3>1, <3>2
    <2> QED
        BY <1>3, <2>1, <2>2, <2>3 DEF TypeOK, Frame
<1>4. reasons = [reasons EXCEPT ![r] = reasons[r]]
    BY DEF TypeOK
<1>5. CASE AgentEnds(r)
    <2>0. detached \subseteq detached' /\ detached' \subseteq Tasks
        BY <1>1, <1>5 DEF AgentEnds, TypeOK
    <2>1. CASE Go(r, "run", "grade") /\ Leave(r) /\ reasons' = reasons
        BY <1>2, <1>3, <1>4, <1>5, <2>0, <2>1 DEF AgentEnds, Leave, PCs, TypeOK, Go
    <2>2. CASE Go(r, "run", "append") /\ reasons' = [reasons EXCEPT ![r] = {"harness"}] /\ work' = work
        BY <1>3, <1>5, <2>0, <2>2 DEF AgentEnds, PCs, TypeOK, Reasons
    <2> QED
        BY <1>5, <2>1, <2>2 DEF AgentEnds
<1>6. CASE AgentTimesOut(r)
    <2>1. strays' \subseteq Tasks
        BY <1>1, <1>6 DEF AgentTimesOut, TypeOK
    <2>2. PICK to \in {"grade", "waits"} : Go(r, "run", to)
        BY <1>6 DEF AgentTimesOut
    <2>3. to \in PCs /\ {"timeout"} \in SUBSET Reasons
        BY DEF PCs, Reasons
    <2> QED
        BY <1>3, <1>6, <2>1, <2>2, <2>3 DEF AgentTimesOut, Leave, TypeOK, Go
<1>7. CASE Grade(r)
    <2>1. CASE GraderRaises(work[Current(r)].out)
        BY <1>3, <1>7, <2>1 DEF Grade, PCs, Reasons, TypeOK
    <2>2. CASE ~ GraderRaises(work[Current(r)].out)
        <3>1. PICK to \in {"verify", "append"} : Go(r, "grade", to)
            BY <1>7, <2>2 DEF Grade
        <3> DEFINE S == reasons[r] \cup InputReasons(work[Current(r)])
                                   \cup LoadReasons(work[Current(r)].out)
        <3>2. S \in SUBSET Reasons
            BY <1>1, <1>2, <2>2, ReasonsOf
        <3>3. reasons' = [reasons EXCEPT ![r] = S] /\ UNCHANGED <<plan, owner, work, strays, detached, rows, json, md>>
            BY <1>7, <2>2 DEF Grade
        <3> HIDE DEF S
        <3> QED
            BY <1>3, <3>1, <3>2, <3>3 DEF PCs, TypeOK
    <2> QED BY <2>1, <2>2
<1>8. CASE Verify(r)
    <2> DEFINE out == work[Current(r)].out
               S == IF out.kind = "graph" /\ out.verify = "hangs" THEN {"harness"}
                    ELSE reasons[r] \cup VerifyReasons(out)
    <2>1. S \in SUBSET Reasons
        BY <1>1, <1>2, ReasonsOf DEF Reasons
    <2>2. PICK to \in {"append", "waits"} :
              /\ reasons' = [reasons EXCEPT ![r] = S] /\ Go(r, "verify", to)
              /\ UNCHANGED <<plan, owner, work, strays, detached, rows, json, md>>
        BY <1>8 DEF Verify
    <2> HIDE DEF S
    <2> QED
        BY <1>3, <2>1, <2>2 DEF PCs, TypeOK
<1>9. CASE Append1(r)
    <2>1. RowOf(r) \in Row
        BY <1>1 DEF RowOf, Row
    <2>2. /\ pc' \in [Runners -> PCs] /\ pc'[r] = "json" /\ pc[r] = "append"
          /\ \A q \in Runners \ {r} : pc'[q] = pc[q]
        BY <1>9, GoType DEF Append1, PCs
    <2>3. reasons' \in [Runners -> SUBSET Reasons] /\ \A q \in Runners \ {r} : reasons'[q] = reasons[q]
        <3>1. {} \in SUBSET Reasons /\ reasons' = [reasons EXCEPT ![r] = {}]
            BY <1>9 DEF Append1
        <3> QED
            BY <3>1, ReasonsType
    <2>4. rows' = [rows EXCEPT ![r] = Append(rows[r], RowOf(r))]
        BY <1>9 DEF Append1, RowOf
    <2>5. Append(rows[r], RowOf(r)) \in Seq(Row) /\ rows \in [Runners -> Seq(Row)]
        BY <2>1 DEF TypeOK
    <2>6. /\ rows' \in [Runners -> Seq(Row)] /\ rows'[r] = Append(rows[r], RowOf(r))
          /\ \A q \in Runners \ {r} : rows'[q] = rows[q]
        BY <2>4, <2>5
    <2> QED
        BY <1>9, <2>2, <2>3, <2>6 DEF Append1, TypeOK, Frame
<1> QED
    BY <1>5, <1>6, <1>7, <1>8, <1>9

LEMMA PersistType ==
    ASSUME TypeOK, NEW r \in Runners, PersistJson(r) \/ PersistMd(r)
    PROVE  TypeOK' /\ Frame(r)
<1>1. PICK from \in PCs, to \in PCs : Go(r, from, to)
    BY DEF PersistJson, PersistMd, PCs, Ended
<1>2. pc' \in [Runners -> PCs] /\ \A q \in Runners \ {r} : pc'[q] = pc[q]
    BY <1>1, GoType
<1>3. Whole(r) \in Report
    BY DEF TypeOK, Whole, Report
<1>4. json' \in {Absent, Torn, Mixed} \cup Report /\ md' \in {Absent, Torn, Mixed} \cup Report
    BY <1>3 DEF PersistJson, PersistMd, Written, TypeOK
<1>5. UNCHANGED <<plan, owner, work, strays, detached, reasons, rows>>
    BY DEF PersistJson, PersistMd
<1> QED
    BY <1>2, <1>4, <1>5 DEF TypeOK, Frame

RunnerStep(r) == Begin(r) \/ Step(r) \/ Drain(r) \/ Die(r)

LEMMA TypeStep ==
    ASSUME TypeOK, NEW r \in Runners, RowsInv(r), RunnerStep(r)
    PROVE  TypeOK' /\ Frame(r)
BY MakingType, TaskType, PersistType DEF RunnerStep, Step

-----------------------------------------------------------------------------
(* Rows.                                                                     *)

LEMMA OwnerStays ==
    ASSUME TypeOK, NEW r \in Runners, Frame(r), NEW t \in Tasks, NEW q \in Runners, owner[t] = q
    PROVE  owner'[t] = q
BY NoneAssumption DEF Frame

\* What a step does to the runner's own place and rows.
LEMMA OwnRows ==
    ASSUME TypeOK, NEW r \in Runners, RowsInv(r), RunnerStep(r), TypeOK', Frame(r)
    PROVE  RowsInv(r)'
<1>0. /\ Len(plan[r]) \in Nat /\ plan' = plan /\ rows[r] \in Seq(Row) /\ rows'[r] \in Seq(Row)
      /\ \A i \in 1..Len(plan[r]) : plan[r][i] \in Tasks
    BY PlanFacts DEF TypeOK, Frame
<1>1. Owns(r) => Owns(r)'
    BY <1>0, OwnerStays DEF Owns
<1>2. \A i \in 1..Len(rows[r]) : rows[r][i].task = plan[r][i] /\ owner'[plan[r][i]] = r
    BY <1>0, OwnerStays DEF RowsInv
<1>3. CASE Append1(r)
    <2>1. pc[r] = "append" /\ pc'[r] = "json" /\ rows'[r] = Append(rows[r], RowOf(r))
        <3>1. pc[r] = "append" /\ pc'[r] = "json"
            BY <1>3 DEF Append1, Go, TypeOK
        <3>2. rows' = [rows EXCEPT ![r] = Append(@, RowOf(r))] /\ rows \in [Runners -> Seq(Row)]
            BY <1>3 DEF Append1, RowOf, TypeOK
        <3> QED
            BY <3>1, <3>2
    <2>2. /\ Len(rows[r]) < Len(plan[r]) /\ Owns(r) /\ Len(rows[r]) \in Nat
          /\ Current(r) = plan[r][Len(rows[r]) + 1]
        BY <1>0, <2>1, CurrentFacts DEF RowsInv, AtTask, Past
    <2>3. Len(rows'[r]) = Len(rows[r]) + 1 /\ rows'[r][Len(rows[r]) + 1] = RowOf(r)
        BY <1>0, <2>1
    <2>4. ASSUME NEW i \in 1..Len(rows'[r])
          PROVE  rows'[r][i].task = plan[r][i] /\ owner'[plan[r][i]] = r
        <3>1. CASE i = Len(rows[r]) + 1
            <4>1. i \in 1..Len(plan[r])
                BY <1>0, <2>2, <2>3, <3>1
            <4> QED
                BY <1>1, <1>0, <2>2, <2>3, <3>1, <4>1 DEF RowOf, Owns
        <3>2. CASE i # Len(rows[r]) + 1
            <4>1. i \in 1..Len(rows[r]) /\ rows'[r][i] = rows[r][i]
                BY <1>0, <2>1, <2>2, <2>3, <3>2
            <4> QED
                BY <1>2, <4>1
        <3> QED BY <3>1, <3>2
    <2> QED
        BY <1>0, <1>1, <2>1, <2>2, <2>3, <2>4 DEF RowsInv, AtTask, Persist, Past
<1>4. ASSUME rows'[r] = rows[r],
             pc'[r] \in Past => Owns(r),
             pc'[r] \in {"off", "build", "version", "dry"} => rows[r] = << >>,
             pc'[r] \in AtTask => Len(rows[r]) < Len(plan[r]),
             pc'[r] \in Persist \cup {"done"} => rows[r] # << >>
      PROVE  RowsInv(r)'
    BY <1>0, <1>1, <1>2, <1>4 DEF RowsInv
<1>5. CASE Begin(r) \/ MakeTask(r) \/ CannotMake(r) \/ Die(r)
    <2>1. rows'[r] = rows[r]
        BY <1>5 DEF Begin, MakeTask, CannotMake, Die
    <2>2. pc'[r] \in {"build", "dead"} /\ (pc'[r] = "build" => rows[r] = << >>)
        BY <1>5 DEF Begin, MakeTask, CannotMake, Die, Go, TypeOK, RowsInv
    <2> QED
        BY <1>4, <2>1, <2>2 DEF Past, AtTask, Persist
<1>6. CASE Built(r)
    <2>1. rows'[r] = rows[r] /\ rows[r] = << >> /\ pc'[r] \in {"version", "dry"} /\ Owns(r)
        BY <1>6, MadeFacts DEF Built, Go, TypeOK, RowsInv
    <2>2. Len(plan[r]) > 0 /\ Len(rows[r]) = 0
        BY <2>1, PlanFacts DEF TypeOK
    <2> QED
        BY <1>4, <2>1, <2>2 DEF Past, AtTask, Persist
<1>7. CASE Version(r) \/ AgentEnds(r) \/ AgentTimesOut(r) \/ Grade(r) \/ Verify(r) \/ Drain(r)
    <2>1. /\ rows'[r] = rows[r] /\ pc[r] \in AtTask
          /\ pc'[r] \in {"run", "waits", "grade", "verify", "append", "dead"}
        BY <1>7 DEF Version, AgentEnds, AgentTimesOut, Grade, Verify, Drain, Go, TypeOK, AtTask
    <2> QED
        BY <1>4, <2>1 DEF Past, AtTask, Persist, RowsInv
<1>8. CASE PersistJson(r) \/ PersistMd(r)
    <2>1. /\ rows'[r] = rows[r] /\ pc[r] \in Persist
          /\ \/ pc'[r] \in Persist \cup {"done"}
             \/ pc'[r] = "run" /\ Len(rows[r]) # Len(plan[r])
        BY <1>8 DEF PersistJson, PersistMd, Go, TypeOK, Persist
    <2>2. Owns(r) /\ rows[r] # << >> /\ Len(rows[r]) <= Len(plan[r])
        BY <2>1 DEF RowsInv, Past
    <2>3. Len(rows[r]) # Len(plan[r]) => Len(rows[r]) < Len(plan[r])
        BY <1>0, <2>2
    <2> QED
        BY <1>4, <2>1, <2>2, <2>3 DEF Past, AtTask, Persist
<1> QED
    BY <1>3, <1>5, <1>6, <1>7, <1>8 DEF RunnerStep, Step

LEMMA OtherRows ==
    ASSUME TypeOK, NEW r \in Runners, Frame(r), NEW q \in Runners \ {r}, RowsInv(q)
    PROVE  RowsInv(q)'
<1>0. /\ Len(plan[q]) \in Nat /\ Len(rows[q]) \in Nat /\ plan' = plan
      /\ \A i \in 1..Len(plan[q]) : plan[q][i] \in Tasks
    BY PlanFacts DEF TypeOK, Frame
<1>1. pc'[q] = pc[q] /\ rows'[q] = rows[q]
    BY DEF Frame
<1>2. Owns(q) => Owns(q)'
    BY <1>0, OwnerStays DEF Owns
<1>3. \A i \in 1..Len(rows[q]) : rows[q][i].task = plan[q][i] /\ owner'[plan[q][i]] = q
    BY <1>0, OwnerStays DEF RowsInv
<1> QED
    BY <1>0, <1>1, <1>2, <1>3 DEF RowsInv

-----------------------------------------------------------------------------
(* Verdicts.                                                                 *)

\* A step of a runner leaves alone what it has a row about, and what others own.
LEMMA WorkStays ==
    ASSUME TypeOK, NEW r \in Runners, RowsInv(r), Frame(r)
    PROVE  /\ \A i \in 1..Len(plan[r]) : i # Len(rows[r]) + 1 => work'[plan[r][i]] = work[plan[r][i]]
           /\ \A t \in Tasks : owner[t] # r => work'[t] = work[t]
<1>0. \A i \in 1..Len(plan[r]) : plan[r][i] \in Tasks
    BY PlanFacts DEF TypeOK
<1>1. CASE pc[r] = "run"
    <2>1. /\ Len(rows[r]) + 1 \in 1..Len(plan[r]) /\ Current(r) = plan[r][Len(rows[r]) + 1]
          /\ owner[Current(r)] = r
        BY <1>1, CurrentFacts DEF AtTask, RowsInv, Past, Owns
    <2>2. \A i \in 1..Len(plan[r]) : plan[r][i] = Current(r) => i = Len(rows[r]) + 1
        BY <2>1, PlanFacts DEF TypeOK
    <2> QED
        BY <1>0, <2>1, <2>2 DEF Frame
<1>2. CASE pc[r] # "run"
    BY <1>0, <1>2 DEF Frame
<1> QED BY <1>1, <1>2

LEMMA OwnVerdict ==
    ASSUME TypeOK, NEW r \in Runners, RowsInv(r), VerdictInv(r), WaitsInv(r),
           RunnerStep(r), TypeOK', Frame(r)
    PROVE  VerdictInv(r)' /\ WaitsInv(r)'
<1>0. /\ Len(plan[r]) \in Nat /\ plan' = plan /\ detached \subseteq detached'
      /\ rows[r] \in Seq(Row) /\ rows'[r] \in Seq(Row)
      /\ Len(rows[r]) \in Nat /\ Len(rows[r]) <= Len(plan[r])
    BY PlanFacts DEF TypeOK, Frame, RowsInv
<1>1. \A i \in 1..Len(rows[r]) : rows[r][i].passed => Earned(plan[r][i], work', detached')
    <2>1. ASSUME NEW i \in 1..Len(rows[r]), rows[r][i].passed
          PROVE  Earned(plan[r][i], work', detached')
        <3>1. i \in 1..Len(plan[r]) /\ i # Len(rows[r]) + 1 /\ Earned(plan[r][i], work, detached)
            BY <1>0, <2>1 DEF VerdictInv
        <3>2. work'[plan[r][i]] = work[plan[r][i]]
            BY <3>1, WorkStays
        <3> QED
            BY <1>0, <3>1, <3>2 DEF Earned
    <2> QED BY <2>1
<1>2. CASE Append1(r)
    <2>1. /\ pc[r] = "append" /\ pc'[r] = "json" /\ work' = work /\ detached' = detached
          /\ rows'[r] = Append(rows[r], RowOf(r))
        BY <1>2 DEF Append1, Go, TypeOK, Frame
    <2>2. /\ Len(rows'[r]) = Len(rows[r]) + 1 /\ rows'[r][Len(rows[r]) + 1] = RowOf(r)
          /\ \A i \in 1..Len(rows[r]) : rows'[r][i] = rows[r][i]
        BY <1>0, <2>1
    <2>3. RowOf(r).passed => Earned(plan[r][Len(rows[r]) + 1], work', detached')
        BY <1>0, <2>1 DEF RowOf, VerdictInv, Current, Earned
    <2>4. \A i \in 1..Len(rows'[r]) : i \in 1..Len(rows[r]) \/ i = Len(rows[r]) + 1
        BY <1>0, <2>2
    <2>5. \A i \in 1..Len(rows'[r]) : rows'[r][i].passed => Earned(plan[r][i], work', detached')
        BY <1>1, <2>2, <2>3, <2>4
    <2> QED
        BY <1>0, <2>1, <2>5 DEF VerdictInv, WaitsInv
<1>3. ASSUME rows'[r] = rows[r],
             pc'[r] = "verify" /\ reasons'[r] = {} =>
                 Current(r) \in detached \/ HalfSolved(Current(r).family, work'[Current(r)]),
             pc'[r] = "append" /\ reasons'[r] = {} => Earned(Current(r), work', detached'),
             pc'[r] = "waits" => reasons'[r] # {}
      PROVE  VerdictInv(r)' /\ WaitsInv(r)'
    <2>1. Current(r)' = Current(r)
        BY <1>0, <1>3 DEF Current
    <2>2. \A i \in 1..Len(rows'[r]) : rows'[r][i].passed => Earned(plan'[r][i], work', detached')
        BY <1>0, <1>1, <1>3
    <2> QED
        BY <1>0, <1>3, <2>1, <2>2 DEF VerdictInv, WaitsInv
<1>4. CASE Grade(r)
    <2> DEFINE w == work[Current(r)]
    <2>1. /\ pc[r] = "grade" /\ rows'[r] = rows[r] /\ work' = work /\ detached' = detached
          /\ Current(r)' = Current(r)
        BY <1>4 DEF Grade, Current
    <2>2. Current(r).family \in Families /\ w \in WorkDir(Current(r).family)
        BY <2>1, CurrentFacts DEF AtTask
    <2>3. CASE GraderRaises(w.out)
        <3>1. reasons'[r] = {"harness"} /\ pc'[r] = "append"
            BY <1>4, <2>3 DEF Grade, Go, TypeOK
        <3> QED
            BY <1>3, <2>1, <3>1
    <2>4. CASE ~ GraderRaises(w.out)
        <3>1. /\ reasons'[r] = reasons[r] \cup InputReasons(w) \cup LoadReasons(w.out)
              /\ pc'[r] = IF NeedsVerify(w.out) THEN "verify" ELSE "append"
            BY <1>4, <2>4 DEF Grade, Go, TypeOK
        <3>2. reasons'[r] = {} => IF NeedsVerify(w.out) THEN HalfSolved(Current(r).family, w)
                                                        ELSE Solved(Current(r).family, AsGraded(w))
            BY <2>2, <2>4, <3>1, GradeIsSound
        <3>3. reasons'[r] = {} /\ pc'[r] = "append" => Earned(Current(r), work', detached')
            BY <2>1, <3>1, <3>2 DEF Earned
        <3> QED
            BY <1>3, <2>1, <3>1, <3>2, <3>3
    <2> QED BY <2>3, <2>4
<1>5. CASE Verify(r)
    <2> DEFINE w == work[Current(r)]
    <2>1. /\ pc[r] = "verify" /\ pc'[r] \in {"append", "waits"} /\ rows'[r] = rows[r]
          /\ work' = work /\ detached' = detached /\ Current(r)' = Current(r)
        BY <1>5 DEF Verify, Go, TypeOK, Current
    <2>2. Current(r).family \in Families /\ w \in WorkDir(Current(r).family)
        BY <2>1, CurrentFacts DEF AtTask
    <2>3. /\ reasons'[r] = IF w.out.kind = "graph" /\ w.out.verify = "hangs"
                              THEN {"harness"} ELSE reasons[r] \cup VerifyReasons(w.out)
          /\ pc'[r] = "waits" => reasons'[r] = {"harness"}
        BY <1>5 DEF Verify, Go, TypeOK
    <2>4. reasons'[r] = {} => /\ reasons[r] = {} /\ VerifyReasons(w.out) = {}
                              /\ Current(r) \in detached \/ HalfSolved(Current(r).family, w)
        BY <2>1, <2>3 DEF VerdictInv
    <2>5. reasons'[r] = {} => Current(r) \in detached \/ Solved(Current(r).family, AsGraded(w))
        BY <2>2, <2>4, VerifyIsSound
    <2>6. reasons'[r] = {} => Earned(Current(r), work', detached')
        BY <2>1, <2>5 DEF Earned
    <2> QED
        BY <1>3, <2>1, <2>3, <2>6
<1>6. CASE AgentEnds(r) \/ AgentTimesOut(r) \/ Drain(r)
    <2>1. /\ rows'[r] = rows[r] /\ pc'[r] \in {"grade", "append", "waits"}
          /\ pc'[r] = "append" => reasons'[r] = {"harness"}
          /\ pc'[r] = "waits" => reasons'[r] = {"timeout"}
        BY <1>6 DEF AgentEnds, AgentTimesOut, Drain, Go, TypeOK
    <2> QED
        BY <1>3, <2>1
<1>7. CASE \/ Begin(r) \/ MakeTask(r) \/ CannotMake(r) \/ Built(r) \/ Version(r)
           \/ PersistJson(r) \/ PersistMd(r) \/ Die(r)
    <2>1. rows'[r] = rows[r] /\ pc'[r] \notin {"verify", "append", "waits"}
        BY <1>7 DEF Begin, MakeTask, CannotMake, Built, Version, PersistJson, PersistMd, Die, Go, TypeOK
    <2> QED
        BY <1>3, <2>1
<1> QED
    BY <1>2, <1>4, <1>5, <1>6, <1>7 DEF RunnerStep, Step

LEMMA OtherVerdict ==
    ASSUME TypeOK, NEW r \in Runners, RowsInv(r), Frame(r),
           NEW q \in Runners \ {r}, RowsInv(q), VerdictInv(q), WaitsInv(q)
    PROVE  VerdictInv(q)' /\ WaitsInv(q)'
<1>0. /\ Len(plan[q]) \in Nat /\ plan' = plan /\ Len(rows[q]) \in Nat /\ Len(rows[q]) <= Len(plan[q])
      /\ \A i \in 1..Len(plan[q]) : plan[q][i] \in Tasks
      /\ pc'[q] = pc[q] /\ reasons'[q] = reasons[q] /\ rows'[q] = rows[q]
      /\ detached \subseteq detached'
    BY PlanFacts DEF TypeOK, Frame, RowsInv
<1>1. \A i \in 1..Len(rows[q]) : Earned(plan[q][i], work, detached) => Earned(plan[q][i], work', detached')
    <2>1. \A i \in 1..Len(rows[q]) : work'[plan[q][i]] = work[plan[q][i]]
        BY <1>0, WorkStays DEF RowsInv
    <2> QED
        BY <1>0, <2>1 DEF Earned
<1>2. Current(q)' = Current(q)
    BY <1>0 DEF Current
<1>3. pc[q] \in {"verify", "append"} => work'[Current(q)] = work[Current(q)]
    <2>1. pc[q] \in {"verify", "append"} => Current(q) \in Tasks /\ owner[Current(q)] = q
        BY CurrentFacts DEF AtTask, Past, RowsInv, Owns
    <2> QED
        BY <2>1, WorkStays
<1>4. pc[q] = "append" => (Earned(Current(q), work, detached) => Earned(Current(q), work', detached'))
    BY <1>0, <1>2, <1>3 DEF Earned
<1>5. \A i \in 1..Len(rows'[q]) : rows'[q][i].passed => Earned(plan'[q][i], work', detached')
    BY <1>0, <1>1 DEF VerdictInv
<1> QED
    BY <1>0, <1>2, <1>3, <1>4, <1>5 DEF VerdictInv, WaitsInv

-----------------------------------------------------------------------------
(* What outlives an agent.                                                   *)

LEMMA LostStays ==
    ASSUME TypeOK, NEW r \in Runners, RowsInv(r), RunnerStep(r), TypeOK', Frame(r),
           NEW i \in 1..Len(plan[r]), Lost(r, i)
    PROVE  Lost(r, i)'
<1>0. rows[r] \in Seq(Row) /\ rows'[r] \in Seq(Row) /\ Len(rows[r]) \in Nat /\ i \in Nat /\ i >= 1
    BY PlanFacts DEF TypeOK
<1>1. CASE i <= Len(rows[r]) /\ ~ rows[r][i].passed
    <2>1. i <= Len(rows'[r]) /\ rows'[r][i] = rows[r][i]
        BY <1>0, <1>1 DEF Frame
    <2> QED
        BY <1>1, <2>1 DEF Lost
<1>2. CASE i = Len(rows[r]) + 1 /\ pc[r] = "dead"
    BY <1>2 DEF RunnerStep, Step, Begin, MakeTask, CannotMake, Built, Version, AgentEnds,
                AgentTimesOut, Grade, Verify, Drain, Append1, PersistJson, PersistMd, Die, Go, Ended
<1>3. CASE i = Len(rows[r]) + 1 /\ pc[r] \in {"grade", "waits", "verify", "append"} /\ reasons[r] # {}
    <2>1. CASE Append1(r)
        <3>1. rows'[r] = Append(rows[r], RowOf(r))
            BY <2>1 DEF Append1, Go, TypeOK, Frame
        <3>2. i <= Len(rows'[r]) /\ rows'[r][i] = RowOf(r)
            BY <1>0, <1>3, <3>1
        <3>3. ~ RowOf(r).passed
            BY <1>3 DEF RowOf
        <3>4. ~ rows'[r][i].passed
            BY <3>2, <3>3
        <3> QED
            BY <3>2, <3>4 DEF Lost
    <2>2. CASE Grade(r)
        <3>1. /\ rows'[r] = rows[r] /\ pc'[r] \in {"verify", "append"}
              /\ reasons'[r] = {"harness"} \/ reasons[r] \subseteq reasons'[r]
            BY <2>2 DEF Grade, Go, TypeOK
        <3> QED
            BY <1>3, <3>1 DEF Lost
    <2>3. CASE Verify(r)
        <3>1. /\ rows'[r] = rows[r] /\ pc'[r] \in {"append", "waits"}
              /\ reasons'[r] = {"harness"} \/ reasons[r] \subseteq reasons'[r]
            BY <2>3 DEF Verify, Go, TypeOK
        <3> QED
            BY <1>3, <3>1 DEF Lost
    <2>4. CASE Die(r)
        BY <1>3, <2>4 DEF Die, Lost, TypeOK
    <2>5. CASE Drain(r)
        BY <1>3, <2>5 DEF Drain, Lost, Go, TypeOK
    <2> QED
        BY <1>3, <2>1, <2>2, <2>3, <2>4, <2>5
           DEF RunnerStep, Step, Begin, MakeTask, CannotMake, Built, Version, AgentEnds,
               AgentTimesOut, PersistJson, PersistMd, Go
<1> QED
    BY <1>1, <1>2, <1>3 DEF Lost

LEMMA StraysStep ==
    ASSUME TypeOK, NEW r \in Runners, RowsInv(r), RunnerStep(r), TypeOK', Frame(r), StraysInv
    PROVE  StraysInv'
<1>0. plan' = plan /\ \A q \in Runners : \A i \in 1..Len(plan[q]) : plan[q][i] \in Tasks
    BY PlanFacts DEF TypeOK, Frame
<1>1. ASSUME NEW t \in strays
      PROVE  \E q \in Runners : \E i \in 1..Len(plan[q]) : t = plan[q][i] /\ owner'[t] = q /\ Lost(q, i)'
    <2>1. PICK q \in Runners : \E i \in 1..Len(plan[q]) : t = plan[q][i] /\ owner[t] = q /\ Lost(q, i)
        BY <1>1 DEF StraysInv
    <2>0. PICK i \in 1..Len(plan[q]) : t = plan[q][i] /\ owner[t] = q /\ Lost(q, i)
        BY <2>1
    <2>2. owner'[t] = q
        BY <1>0, <2>0, OwnerStays
    <2>3. Lost(q, i)'
        <3>1. CASE q = r
            BY <2>0, <3>1, LostStays
        <3>2. CASE q # r
            BY <2>0, <3>2 DEF Frame, Lost
        <3> QED BY <3>1, <3>2
    <2> QED BY <2>0, <2>2, <2>3
<1>2. CASE AgentTimesOut(r)
    <2>1. /\ pc[r] = "run" /\ pc'[r] \in {"grade", "waits"} /\ reasons'[r] = {"timeout"} /\ rows'[r] = rows[r]
          /\ owner' = owner /\ strays' \subseteq strays \cup {Current(r)}
        BY <1>2 DEF AgentTimesOut, Go, TypeOK
    <2>2. /\ Len(rows[r]) + 1 \in 1..Len(plan[r]) /\ Current(r) = plan[r][Len(rows[r]) + 1]
          /\ owner[Current(r)] = r
        BY <2>1, CurrentFacts DEF AtTask, RowsInv, Past, Owns
    <2>3. Lost(r, Len(rows[r]) + 1)'
        BY <2>1 DEF Lost
    <2> QED
        BY <1>0, <1>1, <2>1, <2>2, <2>3 DEF StraysInv
<1>3. CASE ~ AgentTimesOut(r)
    <2>1. strays' = strays
        BY <1>3 DEF RunnerStep, Step, Begin, MakeTask, CannotMake, Built, Version, AgentEnds,
                    Grade, Verify, Drain, Append1, PersistJson, PersistMd, Die
    <2> QED
        BY <1>0, <1>1, <2>1 DEF StraysInv
<1> QED BY <1>2, <1>3

\* It works in a task that did not pass, so no verdict is about what it changes.
LEMMA StrayStep ==
    ASSUME TypeOK, \A r \in Runners : RowsInv(r) /\ VerdictInv(r) /\ WaitsInv(r), StraysInv,
           NEW t \in Tasks, Stray(t)
    PROVE  TypeOK' /\ StraysInv' /\ \A r \in Runners : RowsInv(r)' /\ VerdictInv(r)' /\ WaitsInv(r)'
<1>1. /\ t \in strays \cup detached
      /\ UNCHANGED <<plan, pc, owner, strays, detached, reasons, rows, json, md>>
    BY DEF Stray
<1>2. t.family \in Families
    BY TaskFamilies
<1>3. /\ work' \in [Tasks -> UNION {WorkDir(f) : f \in Families}]
      /\ \A u \in Tasks : work'[u] \in WorkDir(u.family)
      /\ \A u \in Tasks \ {t} : work'[u] = work[u]
    <2>1. PICK w \in Leaves[t.family] : work' = [work EXCEPT ![t] = w]
        BY DEF Stray
    <2>2. w \in WorkDir(t.family) /\ w \in UNION {WorkDir(f) : f \in Families}
        BY <1>2, <2>1, LeavesAssumption
    <2> QED
        BY <2>1, <2>2 DEF TypeOK
<1>4. TypeOK'
    BY <1>1, <1>3 DEF TypeOK
<1>5. StraysInv'
    BY <1>1 DEF StraysInv, Lost
<1>6. ASSUME NEW r \in Runners
      PROVE  RowsInv(r)' /\ VerdictInv(r)' /\ WaitsInv(r)'
    <2>0. /\ RowsInv(r) /\ VerdictInv(r) /\ WaitsInv(r)
          /\ Len(rows[r]) \in Nat /\ Len(rows[r]) <= Len(plan[r]) /\ Len(plan[r]) \in Nat
          /\ \A i \in 1..Len(plan[r]) : plan[r][i] \in Tasks
        BY PlanFacts DEF TypeOK, RowsInv
    <2>1. RowsInv(r)' /\ WaitsInv(r)'
        BY <1>1, <2>0 DEF RowsInv, WaitsInv, Owns
    <2>2. \A j \in 1..Len(plan[r]) : plan[r][j] = t /\ owner[t] = r /\ t \notin detached => Lost(r, j)
        <3>1. ASSUME NEW j \in 1..Len(plan[r]), plan[r][j] = t, owner[t] = r, t \notin detached
              PROVE  Lost(r, j)
            <4>1. PICK q \in Runners : \E i \in 1..Len(plan[q]) : t = plan[q][i] /\ owner[t] = q /\ Lost(q, i)
                BY <1>1, <3>1 DEF StraysInv
            <4>2. PICK i \in 1..Len(plan[r]) : t = plan[r][i] /\ Lost(r, i)
                BY <3>1, <4>1
            <4>3. i = j
                BY <3>1, <4>2, PlanFacts DEF TypeOK
            <4> QED BY <4>2, <4>3
        <3> QED BY <3>1
    <2>3. ASSUME NEW j \in 1..Len(rows[r]), rows[r][j].passed
          PROVE  Earned(plan[r][j], work', detached')
        <3>1. j \in 1..Len(plan[r]) /\ owner[plan[r][j]] = r /\ Earned(plan[r][j], work, detached)
            BY <2>0, <2>3 DEF RowsInv, VerdictInv
        <3>2. plan[r][j] # t \/ t \in detached
            BY <2>0, <2>2, <2>3, <3>1 DEF Lost
        <3>3. plan[r][j] \in detached \/ work'[plan[r][j]] = work[plan[r][j]]
            BY <1>3, <2>0, <3>1, <3>2
        <3> QED
            BY <1>1, <3>1, <3>3 DEF Earned
    <2>4. Current(r)' = Current(r)
        BY <1>1 DEF Current
    <2>5. ASSUME pc[r] \in {"verify", "append"}, reasons[r] = {}
          PROVE  Current(r) \in detached \/ work'[Current(r)] = work[Current(r)]
        <3>1. /\ Len(rows[r]) + 1 \in 1..Len(plan[r]) /\ Current(r) = plan[r][Len(rows[r]) + 1]
              /\ owner[Current(r)] = r /\ Current(r) \in Tasks
            BY <2>0, <2>5, CurrentFacts DEF AtTask, RowsInv, Past, Owns
        <3>2. Current(r) # t \/ t \in detached
            BY <2>0, <2>2, <2>5, <3>1 DEF Lost
        <3> QED
            BY <1>3, <3>1, <3>2
    <2>6. pc[r] = "append" /\ reasons[r] = {} => Earned(Current(r), work', detached')
        BY <1>1, <2>0, <2>4, <2>5 DEF VerdictInv, Earned
    <2>7. pc[r] = "verify" /\ reasons[r] = {} =>
              Current(r) \in detached \/ HalfSolved(Current(r).family, work'[Current(r)])
        BY <1>1, <2>0, <2>4, <2>5 DEF VerdictInv
    <2>8. \A j \in 1..Len(rows'[r]) : rows'[r][j].passed => Earned(plan'[r][j], work', detached')
        BY <1>1, <2>3
    <2>9. VerdictInv(r)'
        BY <1>1, <2>4, <2>6, <2>7, <2>8 DEF VerdictInv
    <2> QED BY <2>1, <2>9
<1> QED BY <1>4, <1>5, <1>6

-----------------------------------------------------------------------------
(* Reports.                                                                  *)

\* Two runners that have generated their plans have no task in common.
LEMMA OneOwner ==
    ASSUME plan \in Plans, NEW r \in Runners, NEW q \in Runners, Owns(r), Owns(q), r # q
    PROVE  Range(plan[r]) \cap Range(plan[q]) = {}
BY PlanFacts DEF Owns, Range

\* What a runner that writes, or moves on, knows of the reports it wrote.
LEMMA OwnReport ==
    ASSUME TypeOK, NEW r \in Runners, RowsInv(r), ReportInv(r), RunnerStep(r), Frame(r), TypeOK'
    PROVE  ReportInv(r)'
<1>0. rows[r] \in Seq(Row) /\ pc[r] \in PCs
    BY DEF TypeOK
<1>1. CASE Begin(r) \/ MakeTask(r) \/ CannotMake(r) \/ Die(r)
    <2>1. /\ pc'[r] \in {"build", "dead"} /\ rows' = rows /\ json' = json /\ md' = md
          /\ pc'[r] = "build" => rows[r] = << >>
        BY <1>1 DEF Begin, MakeTask, CannotMake, Die, Go, TypeOK, RowsInv
    <2> QED
        BY <2>1 DEF ReportInv, AtTask, By
<1>2. CASE Built(r)
    <2>1. /\ rows[r] = << >> /\ rows' = rows /\ json' = json /\ md' = md
          /\ pc'[r] \in {"version", "dry"}
        BY <1>2 DEF Built, Go, TypeOK, RowsInv
    <2> QED
        BY <2>1 DEF ReportInv, By
<1>3. CASE Version(r) \/ AgentEnds(r) \/ AgentTimesOut(r) \/ Grade(r) \/ Verify(r) \/ Drain(r)
    <2>1. /\ rows' = rows /\ json' = json /\ md' = md /\ pc[r] \in AtTask
          /\ pc'[r] \in {"run", "waits", "grade", "verify", "append", "dead"}
        BY <1>3 DEF Version, AgentEnds, AgentTimesOut, Grade, Verify, Drain, Go, TypeOK, AtTask
    <2> QED
        BY <2>1 DEF ReportInv, AtTask, By
<1>4. CASE Append1(r)
    <2>1. /\ rows'[r] = Append(rows[r], RowOf(r)) /\ json' = json /\ md' = md
          /\ pc[r] = "append" /\ pc'[r] = "json"
        BY <1>4 DEF Append1, Go, TypeOK, Frame
    <2>2. RowOf(r) \in Row
        BY <2>1, CurrentFacts DEF RowOf, Row, AtTask
    <2>3. Front(rows'[r]) = rows[r] /\ rows'[r] # << >>
        BY <1>0, <2>1, <2>2 DEF Front
    <2>4. Front(rows[r])' = rows[r]
        BY <2>3 DEF Front
    <2> QED
        BY <2>1, <2>3, <2>4 DEF ReportInv, AtTask, By
<1>5. CASE PersistJson(r) \/ PersistMd(r)
    <2>0. rows' = rows /\ rows[r] # << >>
        BY <1>5 DEF PersistJson, PersistMd, Go, RowsInv, Persist
    <2>1. Front(rows[r])' = Front(rows[r])
        BY <2>0 DEF Front
    <2>2. /\ By(Whole(r), r) /\ Whole(r).rows = rows[r] /\ Whole(r) # Absent
          /\ \A f \in {Torn, Mixed} : ~ By(f, r) /\ f # Absent
        BY DEF By, Whole, Torn, Mixed, Absent
    <2>3. CASE pc[r] = "json" /\ pc'[r] = "write json" /\ json' = Torn /\ md' = md
        BY <2>0, <2>1, <2>2, <2>3 DEF ReportInv, AtTask, By
    <2>4. CASE pc[r] = "write json" /\ pc'[r] = "md" /\ json' \in {Whole(r), Mixed} /\ md' = md
        BY <2>0, <2>1, <2>2, <2>4 DEF ReportInv, AtTask, By
    <2>5. CASE pc[r] = "md" /\ pc'[r] = "write md" /\ json' = json /\ md' = Torn
        BY <2>0, <2>1, <2>2, <2>5 DEF ReportInv, AtTask, By
    <2>6. CASE pc[r] = "write md" /\ pc'[r] \in {"done", "run"} /\ json' = json /\ md' \in {Whole(r), Mixed}
        BY <2>0, <2>1, <2>2, <2>6 DEF ReportInv, AtTask, By
    <2> QED
        BY <1>5, <2>3, <2>4, <2>5, <2>6 DEF PersistJson, PersistMd, Written, Go, TypeOK
<1> QED
    BY <1>1, <1>2, <1>3, <1>4, <1>5 DEF RunnerStep, Step

LEMMA OwnsStays ==
    ASSUME TypeOK, NEW r \in Runners, Frame(r), NEW q \in Runners, Owns(q)
    PROVE  Owns(q)'
<1>1. plan' = plan /\ \A i \in 1..Len(plan[q]) : plan[q][i] \in Tasks
    BY PlanFacts DEF TypeOK, Frame
<1> QED
    BY <1>1, OwnerStays DEF Owns

LEMMA ReportBy ==
    ASSUME TypeOK, NEW f \in {json, md}, f.state = "whole"
    PROVE  f.by \in Runners /\ f.rows \in Seq(Row)
BY DEF TypeOK, Report, Absent, Torn, Mixed

\* A step that does not write keeps what is said of the reports.
LEMMA QuietReports ==
    ASSUME TypeOK, NEW r \in Runners, Frame(r), json' = json, md' = md, Reporters, ReportsAgree
    PROVE  /\ Reporters' /\ ReportsAgree'
           /\ \A q \in Runners \ {r} : ReportInv(q) => ReportInv(q)'
<1>1. Reporters'
    BY OwnsStays, ReportBy DEF Reporters
<1>2. ReportsAgree'
    BY DEF ReportsAgree, InOrder, Frame
<1>3. ASSUME NEW q \in Runners \ {r}, ReportInv(q)
      PROVE  ReportInv(q)'
    <2>1. pc'[q] = pc[q] /\ rows'[q] = rows[q] /\ Front(rows[q])' = Front(rows[q])
        BY DEF Frame, Front
    <2> QED
        BY <1>3, <2>1 DEF ReportInv, By
<1> QED BY <1>1, <1>2, <1>3

\* A step that writes leaves a text of a runner that has generated its plan.
LEMMA WrittenReports ==
    ASSUME TypeOK, NEW r \in Runners, RowsInv(r), ReportInv(r), Frame(r),
           PersistJson(r) \/ PersistMd(r), Reporters, ReportsAgree,
           \A q \in Runners : ReportInv(q)
    PROVE  /\ Reporters' /\ ReportsAgree'
           /\ \A q \in Runners \ {r} : ReportInv(q)'
<1>0. /\ pc[r] \in Persist /\ Owns(r) /\ rows[r] # << >>
      /\ UNCHANGED <<plan, owner, work, strays, detached, reasons, rows>>
      /\ \A q \in Runners : Owns(q)' = Owns(q)
    BY DEF PersistJson, PersistMd, Go, Persist, RowsInv, Past, Owns
<1>1. /\ Whole(r).state = "whole" /\ Whole(r).by = r /\ Whole(r).rows = rows[r] /\ Whole(r) # Absent
      /\ \A f \in {Torn, Mixed} : f.state \notin {"whole", "absent"}
    BY DEF Whole, Torn, Mixed, Absent
<1>2. Reporters'
    <2>1. json' \in {json, Torn, Mixed, Whole(r)} /\ md' \in {md, Torn, Mixed, Whole(r)}
        BY DEF PersistJson, PersistMd, Written
    <2>2. \A f \in {json, md, Torn, Mixed, Whole(r)} : f.state = "whole" => f.by \in Runners /\ Owns(f.by)
        BY <1>0, <1>1, ReportBy DEF Reporters
    <2> QED
        BY <1>0, <2>1, <2>2 DEF Reporters
<1>3. ASSUME NEW q \in Runners \ {r}
      PROVE  ReportInv(q)'
    <2>1. /\ pc'[q] = pc[q] /\ rows'[q] = rows[q] /\ Front(rows[q])' = Front(rows[q])
        BY <1>0 DEF Frame, Front
    <2>2. \A f \in {Torn, Mixed, Whole(r)} : ~ By(f, q) /\ f # Absent
        BY <1>1, <1>3 DEF By, Absent
    <2>3. CASE json' \in {Torn, Mixed, Whole(r)} /\ md' = md
        BY <1>3, <2>1, <2>2, <2>3 DEF ReportInv, By
    <2>4. CASE md' \in {Torn, Mixed, Whole(r)} /\ json' = json
        BY <1>3, <2>1, <2>2, <2>4 DEF ReportInv, By
    <2> QED
        BY <2>3, <2>4 DEF PersistJson, PersistMd, Written
<1>4. InOrder(Whole(r)) /\ InOrder(Torn) /\ InOrder(Mixed) /\ InOrder(json) /\ InOrder(md)
    <2>1. rows[r] \in Seq(Row) /\ Len(plan[r]) \in Nat
        BY PlanFacts DEF TypeOK
    <2>2. Len(rows[r]) \in 1..Len(plan[r]) /\ DOMAIN rows[r] = 1..Len(rows[r])
        BY <1>0, <2>1 DEF RowsInv
    <2> QED
        BY <1>1, <2>2 DEF InOrder, RowsInv, ReportsAgree
<1>5. ASSUME NEW f \in {json, md}, f.state = "whole", f.by # r
      PROVE  Range(plan[f.by]) \cap Range(plan[r]) = {} /\ Range(plan[r]) \cap Range(plan[f.by]) = {}
    BY <1>0, <1>5, ReportBy, OneOwner DEF Reporters, TypeOK
<1>6. ReportsAgree'
    <2>0. \A f : InOrder(f)' <=> InOrder(f)
        BY <1>0 DEF InOrder
    <2>1. CASE json' = Torn /\ md' = md
        BY <1>1, <1>4, <2>0, <2>1 DEF ReportsAgree
    <2>2. CASE pc[r] = "write json" /\ json' \in {Whole(r), Mixed} /\ md' = md
        <3>1. md.state = "whole" /\ md.by = r => md.rows = Front(rows[r])
            BY <2>2 DEF ReportInv, By
        <3> QED
            BY <1>0, <1>1, <1>4, <1>5, <2>0, <2>2, <3>1 DEF ReportsAgree
    <2>3. CASE pc[r] = "md" /\ json' = json /\ md' = Torn
        <3>1. json # Absent
            BY <2>3 DEF ReportInv
        <3> QED
            BY <1>1, <1>4, <2>0, <2>3, <3>1 DEF ReportsAgree, TypeOK, Report, Absent, Torn, Mixed
    <2>4. CASE pc[r] = "write md" /\ json' = json /\ md' \in {Whole(r), Mixed}
        <3>1. json.state = "whole" /\ json.by = r => json.rows = rows[r]
            BY <2>4 DEF ReportInv, By
        <3>2. json # Absent
            BY <2>4 DEF ReportInv
        <3> QED
            BY <1>0, <1>1, <1>4, <1>5, <2>0, <2>4, <3>1, <3>2 DEF ReportsAgree, TypeOK, Report, Absent, Torn, Mixed
    <2> QED
        BY <2>1, <2>2, <2>3, <2>4 DEF PersistJson, PersistMd, Written, Go
<1> QED BY <1>2, <1>3, <1>6

-----------------------------------------------------------------------------
(* Initially, and at every step.                                             *)

LEMMA InvInit == Init => Inv
<1> SUFFICES ASSUME Init
             PROVE  Inv
    OBVIOUS
<1>0. plan \in Plans /\ \A r \in Runners : Len(plan[r]) \in Nat /\ Len(plan[r]) > 0
    BY PlanFacts DEF Init
<1>1. TypeOK
    <2>1. \A f \in Families : Generated(f) \in WorkDir(f)
        BY DEF Families, Generated, WorkDir, Outputs, Unusable, Forms
    <2>2. work = [t \in Tasks |-> Generated(t.family)]
        BY DEF Init
    <2>3. /\ work \in [Tasks -> UNION {WorkDir(f) : f \in Families}]
          /\ \A t \in Tasks : work[t] \in WorkDir(t.family)
        BY <2>1, <2>2, TaskFamilies
    <2>4. << >> \in Seq(Row) /\ {} \in SUBSET Reasons
        OBVIOUS
    <2> QED
        BY <2>3, <2>4 DEF Init, TypeOK, PCs
<1>2. \A r \in Runners : RowsInv(r) /\ VerdictInv(r) /\ WaitsInv(r) /\ ReportInv(r)
    BY <1>0 DEF Init, RowsInv, VerdictInv, WaitsInv, ReportInv, Past, AtTask, Persist, By, Absent
<1>3. StraysInv /\ Reporters
    BY DEF Init, StraysInv, Reporters, Absent
<1>4. ReportsAgree
    BY DEF Init, ReportsAgree, InOrder, Absent
<1> QED
    BY <1>1, <1>2, <1>3, <1>4 DEF Inv

LEMMA RunnerKeepsInv ==
    ASSUME Inv, NEW r \in Runners, RunnerStep(r)
    PROVE  Inv'
<1>0. TypeOK /\ RowsInv(r) /\ VerdictInv(r) /\ WaitsInv(r) /\ ReportInv(r) /\ Reporters
    BY DEF Inv
<1>1. TypeOK' /\ Frame(r)
    BY <1>0, TypeStep
<1>2. RowsInv(r)' /\ VerdictInv(r)' /\ WaitsInv(r)' /\ ReportInv(r)'
    BY <1>0, <1>1, OwnRows, OwnVerdict, OwnReport
<1>3. ASSUME NEW q \in Runners \ {r}
      PROVE  RowsInv(q)' /\ VerdictInv(q)' /\ WaitsInv(q)'
    BY <1>0, <1>1, <1>3, OtherRows, OtherVerdict DEF Inv
<1>4. StraysInv'
    BY <1>0, <1>1, StraysStep DEF Inv
<1>5. Reporters' /\ ReportsAgree' /\ \A q \in Runners \ {r} : ReportInv(q)'
    <2>1. CASE PersistJson(r) \/ PersistMd(r)
        BY <1>0, <1>1, <2>1, WrittenReports DEF Inv
    <2>2. CASE ~ (PersistJson(r) \/ PersistMd(r))
        <3>1. json' = json /\ md' = md
            BY <2>2 DEF RunnerStep, Step, Begin, MakeTask, CannotMake, Built, Version, AgentEnds,
                        AgentTimesOut, Grade, Verify, Drain, Append1, Die
        <3> QED
            BY <1>0, <1>1, <3>1, QuietReports DEF Inv
    <2> QED BY <2>1, <2>2
<1> QED
    BY <1>1, <1>2, <1>3, <1>4, <1>5 DEF Inv

LEMMA InvStep == Inv /\ [Next]_vars => Inv'
<1> SUFFICES ASSUME Inv, [Next]_vars
             PROVE  Inv'
    OBVIOUS
<1>1. ASSUME NEW r \in Runners, RunnerStep(r)
      PROVE  Inv'
    BY <1>1, RunnerKeepsInv
<1>2. ASSUME NEW t \in Tasks, Stray(t)
      PROVE  Inv'
    <2>1. TypeOK' /\ StraysInv' /\ \A r \in Runners : RowsInv(r)' /\ VerdictInv(r)' /\ WaitsInv(r)'
        BY <1>2, StrayStep DEF Inv
    <2>2. UNCHANGED <<plan, pc, owner, reasons, rows, json, md>>
        BY <1>2 DEF Stray
    <2>3. \A r \in Runners : Front(rows[r])' = Front(rows[r])
        BY <2>2 DEF Front
    <2>4. Reporters' /\ ReportsAgree'
        BY <2>2 DEF Inv, Reporters, Owns, ReportsAgree, InOrder
    <2>5. \A r \in Runners : ReportInv(r)'
        BY <2>2, <2>3 DEF Inv, ReportInv, By
    <2> QED
        BY <2>1, <2>4, <2>5 DEF Inv
<1>3. CASE UNCHANGED vars
    <2>1. TypeOK'
        BY <1>3 DEF Inv, TypeOK, vars
    <2>2. \A r \in Runners : /\ Current(r)' = Current(r) /\ Front(rows[r])' = Front(rows[r])
                             /\ Owns(r)' = Owns(r)
        BY <1>3 DEF Current, Front, Owns, vars
    <2>3. ASSUME NEW r \in Runners
          PROVE  RowsInv(r)' /\ VerdictInv(r)' /\ WaitsInv(r)' /\ ReportInv(r)'
        <3>1. RowsInv(r) /\ VerdictInv(r) /\ WaitsInv(r) /\ ReportInv(r)
            BY DEF Inv
        <3>2. RowsInv(r)' /\ WaitsInv(r)'
            BY <1>3, <2>2, <3>1 DEF RowsInv, WaitsInv, vars
        <3>3. VerdictInv(r)'
            BY <1>3, <2>2, <3>1 DEF VerdictInv, vars
        <3>4. ReportInv(r)'
            BY <1>3, <2>2, <3>1 DEF ReportInv, By, vars
        <3> QED BY <3>2, <3>3, <3>4
    <2>4. StraysInv' /\ Reporters'
        BY <1>3, <2>2 DEF Inv, StraysInv, Lost, Reporters, Owns, vars
    <2>5. ReportsAgree'
        BY <1>3 DEF Inv, ReportsAgree, InOrder, vars
    <2> QED
        BY <2>1, <2>3, <2>4, <2>5 DEF Inv
<1> QED
    BY <1>1, <1>2, <1>3 DEF Next, RunnerStep

\* Of every runner and at every moment: its rows are about its own tasks in their
\* order, a verdict without reasons is true, what outlives a killed agent works in a
\* task that did not pass, and the reports it wrote are where the runner is.
THEOREM EvalInvHolds == Spec => []Inv
    BY InvInit, InvStep, PTL DEF Spec

\* The variables of a runner, its tasks and the reports keep their types.
THEOREM TypeCorrect == Spec => []TypeOK
<1>1. Inv => TypeOK
    BY DEF Inv
<1> QED
    BY <1>1, EvalInvHolds, PTL

\* A row that says passed is about a directory that is solved and stays so, whatever
\* agents, and what outlives the killed ones, do afterwards: up to the form no grader
\* looks at, and in every task in which an agent that ended by itself left nothing behind.
THEOREM PassedAreSolved == Spec => []PassedMeansSolved
<1>1. Inv => PassedMeansSolved
    <2> SUFFICES ASSUME Inv, NEW r \in Runners, NEW i \in DOMAIN rows[r], rows[r][i].passed,
                        rows[r][i].task \notin detached
                 PROVE  Solved(rows[r][i].task.family, AsGraded(work[rows[r][i].task]))
        BY DEF PassedMeansSolved
    <2>1. rows[r] \in Seq(Row) /\ RowsInv(r) /\ VerdictInv(r)
        BY DEF Inv, TypeOK
    <2>2. i \in 1..Len(rows[r])
        BY <2>1
    <2> QED
        BY <2>1, <2>2 DEF RowsInv, VerdictInv, Earned
<1> QED
    BY <1>1, EvalInvHolds, PTL

\* A report tells only of tasks that its runner generated, however many runners
\* were given the same directory.
THEOREM ReportsAreOwn == Spec => []ReportIsOwn
<1>1. Inv => ReportIsOwn
    <2> SUFFICES ASSUME Inv, NEW f \in {json, md}, f.state = "whole", NEW i \in DOMAIN f.rows
                 PROVE  owner[f.rows[i].task] = f.by
        BY DEF ReportIsOwn
    <2>1. /\ f.by \in Runners /\ f.rows \in Seq(Row) /\ Owns(f.by) /\ InOrder(f)
          /\ Len(plan[f.by]) \in Nat
        BY ReportBy, PlanFacts DEF Inv, Reporters, ReportsAgree, TypeOK
    <2>2. i \in 1..Len(f.rows) /\ i \in 1..Len(plan[f.by]) /\ f.rows[i].task = plan[f.by][i]
        BY <2>1 DEF InOrder
    <2> QED
        BY <2>1, <2>2 DEF Owns
<1> QED
    BY <1>1, EvalInvHolds, PTL

\* Each report tells of its runner's tasks in their order, without a gap; two of one
\* runner differ by the last row at most, and two runners that write into one directory
\* have no task in common.
THEOREM ReportsAlwaysAgree == Spec => []ReportsAgree
<1>1. Inv => ReportsAgree
    BY DEF Inv
<1> QED
    BY <1>1, EvalInvHolds, PTL
=============================================================================
