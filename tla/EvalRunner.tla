----------------------------- MODULE EvalRunner -----------------------------
(* evals/run_eval.py and evals/task_gen.py: runners that generate tasks into  *)
(* one output directory, let an agent work on each, grade it, and rewrite     *)
(* report.json and report.md after each.                                     *)
EXTENDS Naturals, Sequences, SequencesExt, Graders

CONSTANTS
    Runners,    \* processes given the same --out
    Plans,      \* the task lists that --families and --limit select, one per runner
    Leaves,     \* Leaves[f]: how agents and their children may leave a task of family f
    None

Tasks == UNION {Range(p[r]) : p \in Plans, r \in Runners}

ASSUME PlansAssumption ==
    /\ Plans \subseteq [Runners -> Seq([family : Families, mutation : STRING])]
    /\ \A p \in Plans, r \in Runners : p[r] # << >> /\ IsInjective(p[r])
ASSUME LeavesAssumption == \A f \in Families : Leaves[f] # {} /\ Leaves[f] \subseteq WorkDir(f)
ASSUME NoneAssumption == None \notin Runners

VARIABLES
    plan,      \* plan[r]: the task list of a runner
    pc,        \* where a runner is; dead: it ended early, by itself or not
    owner,     \* owner[t]: the runner that made directory t, or None
    work,      \* work[t]: the working directory of task t
    strays,    \* tasks in which a process outlived an agent that was killed
    detached,  \* tasks in which one outlived an agent that ended by itself
    reasons,   \* the failed criteria of the task being graded; harness: it raised
    rows,      \* the rows of a runner, in memory
    json, md   \* the reports: by whom and with which rows, or a state of the file

vars == <<plan, pc, owner, work, strays, detached, reasons, rows, json, md>>

Row == [task : Tasks, passed : BOOLEAN]
Reasons == {"input altered", "missing", "spurious", "nets", "classes", "counts", "absent",
            "unusable", "verify", "timeout", "harness"}
Absent == [state |-> "absent"]
Torn   == [state |-> "torn"]     \* truncated, and not yet written
Mixed  == [state |-> "mixed"]    \* one text over the tail of another
Report == [state : {"whole"}, by : Runners, rows : Seq(Row)]
Whole(r) == [state |-> "whole", by |-> r, rows |-> rows[r]]

Ended == {"dry", "dead", "done"}
PCs == Ended \cup {"off", "build", "version", "run", "waits", "grade", "verify", "append",
                   "json", "write json", "md", "write md"}

TypeOK ==
    /\ plan \in Plans
    /\ pc \in [Runners -> PCs]
    /\ owner \in [Tasks -> Runners \cup {None}]
    /\ work \in [Tasks -> UNION {WorkDir(f) : f \in Families}]
    /\ \A t \in Tasks : work[t] \in WorkDir(t.family)
    /\ strays \subseteq Tasks
    /\ detached \subseteq Tasks
    /\ reasons \in [Runners -> SUBSET Reasons]
    /\ rows \in [Runners -> Seq(Row)]
    /\ json \in {Absent, Torn, Mixed} \cup Report
    /\ md \in {Absent, Torn, Mixed} \cup Report

Init ==
    /\ plan \in Plans
    /\ pc = [r \in Runners |-> "off"]
    /\ owner = [t \in Tasks |-> None]
    /\ work = [t \in Tasks |-> Generated(t.family)]
    /\ strays = {}
    /\ detached = {}
    /\ reasons = [r \in Runners |-> {}]
    /\ rows = [r \in Runners |-> << >>]
    /\ json = Absent
    /\ md = Absent

Go(r, from, to) == pc[r] = from /\ pc' = [pc EXCEPT ![r] = to]

\* The task a runner is at: the next to generate, the next to run.
Made(r)    == {t \in Range(plan[r]) : owner[t] = r}
Current(r) == plan[r][Len(rows[r]) + 1]
ToMake(r)  == plan[r][Cardinality(Made(r)) + 1]

-----------------------------------------------------------------------------
(* Generation.                                                               *)

OutIsEmpty == \A t \in Tasks : owner[t] = None

\* build_tasks refuses an output directory with anything in it.
Begin(r) ==
    /\ IF OutIsEmpty THEN Go(r, "off", "build") ELSE Go(r, "off", "dead")
    /\ UNCHANGED <<plan, owner, work, strays, detached, reasons, rows, json, md>>

\* Mutant: mkdir(exist_ok=True).
MakeTaskAnyway(r) ==
    /\ Cardinality(Made(r)) < Len(plan[r])
    /\ Go(r, "build", "build")
    /\ owner' = [owner EXCEPT ![ToMake(r)] = r]
    /\ UNCHANGED <<plan, work, strays, detached, reasons, rows, json, md>>

\* _init_task and its writes: mkdir(exist_ok=False) lets one runner have it.
MakeTask(r) ==
    /\ Cardinality(Made(r)) < Len(plan[r])
    /\ owner[ToMake(r)] = None
    /\ Go(r, "build", "build")
    /\ owner' = [owner EXCEPT ![ToMake(r)] = r]
    /\ UNCHANGED <<plan, work, strays, detached, reasons, rows, json, md>>

\* Another runner has made the directory, or the seeded defect is not caught.
CannotMake(r) ==
    /\ Cardinality(Made(r)) < Len(plan[r])
    /\ Go(r, "build", "dead")
    /\ UNCHANGED <<plan, owner, work, strays, detached, reasons, rows, json, md>>

Built(r) ==
    /\ Cardinality(Made(r)) = Len(plan[r])
    /\ \/ Go(r, "build", "version")
       \/ Go(r, "build", "dry")
    /\ UNCHANGED <<plan, owner, work, strays, detached, reasons, rows, json, md>>

\* codex --version, outside any try.
Version(r) ==
    /\ \/ Go(r, "version", "run")
       \/ Go(r, "version", "dead")
    /\ UNCHANGED <<plan, owner, work, strays, detached, reasons, rows, json, md>>

-----------------------------------------------------------------------------
(* One task.                                                                 *)

\* The agent leaves its task in some state, and may leave processes behind.
Leave(r) == \E w \in Leaves[Current(r).family] : work' = [work EXCEPT ![Current(r)] = w]

\* The agent ends by itself, with any exit code, or codex cannot be started.
AgentEnds(r) ==
    /\ \/ /\ Go(r, "run", "grade")
          /\ Leave(r)
          /\ detached' \in {detached, detached \cup {Current(r)}}
          /\ UNCHANGED reasons
       \/ /\ Go(r, "run", "append")
          /\ reasons' = [reasons EXCEPT ![r] = {"harness"}]
          /\ UNCHANGED <<work, detached>>
    /\ UNCHANGED <<plan, owner, strays, rows, json, md>>

\* Mutant: a timeout is not a reason.
AgentTimesOutUnmarked(r) ==
    /\ Go(r, "run", "grade")
    /\ Leave(r)
    /\ strays' \in {strays, strays \cup {Current(r)}}
    /\ UNCHANGED <<plan, owner, detached, reasons, rows, json, md>>

\* subprocess.run kills codex, not what codex started; on Windows it then reads the
\* pipes to their end, and waits while a process that was left behind holds them.
AgentTimesOut(r) ==
    /\ \/ Go(r, "run", "grade") /\ strays' \in {strays, strays \cup {Current(r)}}
       \/ Go(r, "run", "waits") /\ strays' = strays \cup {Current(r)}
    /\ Leave(r)
    /\ reasons' = [reasons EXCEPT ![r] = {"timeout"}]
    /\ UNCHANGED <<plan, owner, detached, rows, json, md>>

Grade(r) ==
    /\ pc[r] = "grade"
    /\ LET w == work[Current(r)] IN
       IF GraderRaises(w.out)
       THEN /\ reasons' = [reasons EXCEPT ![r] = {"harness"}]
            /\ Go(r, "grade", "append")
       ELSE /\ reasons' = [reasons EXCEPT ![r] = @ \cup InputReasons(w) \cup LoadReasons(w.out)]
            /\ Go(r, "grade", IF NeedsVerify(w.out) THEN "verify" ELSE "append")
    /\ UNCHANGED <<plan, owner, work, strays, detached, rows, json, md>>

\* Mutant: verify has no timeout.
VerifyWaits(r) ==
    /\ Go(r, "verify", "append")
    /\ LET out == work[Current(r)].out IN
       /\ ~ (out.kind = "graph" /\ out.verify = "hangs")
       /\ reasons' = [reasons EXCEPT ![r] = @ \cup VerifyReasons(out)]
    /\ UNCHANGED <<plan, owner, work, strays, detached, rows, json, md>>

\* pkgtk verify reads graph.json again, and is itself killed after 120 s.
Verify(r) ==
    /\ pc[r] = "verify"
    /\ LET out == work[Current(r)].out IN
       IF out.kind = "graph" /\ out.verify = "hangs"
       THEN /\ \E next \in {"append", "waits"} : Go(r, "verify", next)
            /\ reasons' = [reasons EXCEPT ![r] = {"harness"}]
       ELSE /\ Go(r, "verify", "append")
            /\ reasons' = [reasons EXCEPT ![r] = @ \cup VerifyReasons(out)]
    /\ UNCHANGED <<plan, owner, work, strays, detached, rows, json, md>>

\* Who held the pipes has let go of them.
Drain(r) ==
    /\ Go(r, "waits", IF reasons[r] = {"harness"} THEN "append" ELSE "grade")
    /\ UNCHANGED <<plan, owner, work, strays, detached, reasons, rows, json, md>>

\* Mutants: the row of a harness error has no verdict; report.json is passed over.
AppendUnjudged(r) ==
    /\ Go(r, "append", "json")
    /\ rows' = [rows EXCEPT ![r] = Append(@,
            IF reasons[r] = {"harness"} THEN [task |-> Current(r)]
                                        ELSE [task |-> Current(r), passed |-> reasons[r] = {}])]
    /\ reasons' = [reasons EXCEPT ![r] = {}]
    /\ UNCHANGED <<plan, owner, work, strays, detached, json, md>>
AppendThenMd(r) ==
    /\ Go(r, "append", "md")
    /\ rows' = [rows EXCEPT ![r] = Append(@, [task |-> Current(r), passed |-> reasons[r] = {}])]
    /\ reasons' = [reasons EXCEPT ![r] = {}]
    /\ UNCHANGED <<plan, owner, work, strays, detached, json, md>>

Append1(r) ==
    /\ Go(r, "append", "json")
    /\ rows' = [rows EXCEPT ![r] = Append(@, [task |-> Current(r), passed |-> reasons[r] = {}])]
    /\ reasons' = [reasons EXCEPT ![r] = {}]
    /\ UNCHANGED <<plan, owner, work, strays, detached, json, md>>

-----------------------------------------------------------------------------
(* _persist: write_text truncates, then writes; report.json before report.md. *)

\* A text is written from the start of the file: over what another runner wrote
\* since the file was truncated, whose tail stays if it is longer.
Written(file, r) == IF file = Torn THEN {Whole(r)} ELSE {Whole(r), Mixed}

PersistJson(r) ==
    /\ \/ Go(r, "json", "write json") /\ json' = Torn
       \/ Go(r, "write json", "md")   /\ json' \in Written(json, r)
    /\ UNCHANGED <<plan, owner, work, strays, detached, reasons, rows, md>>

PersistMd(r) ==
    /\ \/ Go(r, "md", "write md") /\ md' = Torn
       \/ /\ Go(r, "write md", IF Len(rows[r]) = Len(plan[r]) THEN "done" ELSE "run")
          /\ md' \in Written(md, r)
    /\ UNCHANGED <<plan, owner, work, strays, detached, reasons, rows, json>>

-----------------------------------------------------------------------------
(* A crash, Ctrl-C, or an error outside the try, anywhere.                    *)
Die(r) ==
    /\ pc[r] \notin Ended \cup {"off"}
    /\ pc' = [pc EXCEPT ![r] = "dead"]
    /\ UNCHANGED <<plan, owner, work, strays, detached, reasons, rows, json, md>>

\* What outlived an agent goes on in its working directory.
Stray(t) ==
    /\ t \in strays \cup detached
    /\ \E w \in Leaves[t.family] : work' = [work EXCEPT ![t] = w]
    /\ UNCHANGED <<plan, pc, owner, strays, detached, reasons, rows, json, md>>

Step(r) ==
    \/ MakeTask(r) \/ CannotMake(r) \/ Built(r) \/ Version(r)
    \/ AgentEnds(r) \/ AgentTimesOut(r) \/ Grade(r) \/ Verify(r) \/ Append1(r)
    \/ PersistJson(r) \/ PersistMd(r)

Next ==
    \/ \E r \in Runners : Begin(r) \/ Step(r) \/ Drain(r) \/ Die(r)
    \/ \E t \in Tasks : Stray(t)

\* Nothing is asked of an agent or of what it leaves behind, which may hold its pipes
\* for ever: the runner's own timeouts move it on.
Fairness == \A r \in Runners : WF_vars(Step(r))

Spec == Init /\ [][Next]_vars /\ Fairness
-----------------------------------------------------------------------------
(* Properties.                                                               *)

\* A row that says passed is about a directory that is solved, whatever a killed agent
\* left running there does (run_eval.py:157, graders.py) -- unless an agent that ended
\* by itself left a process behind, and up to what no grader looks at.
PassedMeansSolved ==
    \A r \in Runners : \A i \in DOMAIN rows[r] :
        LET t == rows[r][i].task IN
        rows[r][i].passed /\ t \notin detached => Solved(t.family, AsGraded(work[t]))

\* A report holds only rows about tasks that its runner generated, although two
\* runners may find the same --out empty (task_gen.py:101, :195).
ReportIsOwn ==
    \A f \in {json, md} : f.state = "whole" =>
        \A i \in DOMAIN f.rows : owner[f.rows[i].task] = f.by

\* Each report tells of its runner's tasks in their order, without a gap.  Two reports
\* of one runner differ by the last row at most, and two runners write into one output
\* directory only if they have no task in common (run_eval.py:216, :244-251).
InOrder(f) == f.state = "whole" =>
    /\ Len(f.rows) \in 1..Len(plan[f.by])
    /\ \A i \in DOMAIN f.rows : f.rows[i].task = plan[f.by][i]
ReportsAgree ==
    /\ InOrder(json) /\ InOrder(md)
    /\ md.state # "absent" => json.state # "absent"
    /\ json.state = "whole" /\ md.state = "whole" =>
          IF json.by = md.by THEN md.rows \in {json.rows, Front(json.rows)}
          ELSE Range(plan[json.by]) \cap Range(plan[md.by]) = {}

\* A runner that got to its first task, and is not killed, reports on every task,
\* whatever its agents do (run_eval.py:139-157, :255-264) -- unless they leave a process
\* that holds its pipes, or another runner reports into the same directory.
Rival(r) == \E q \in Runners \ {r} : Made(q) = Range(plan[q])
EveryTaskIsReported ==
    \A r \in Runners :
        pc[r] = "run" ~>
            \/ pc[r] \in {"dead", "waits"}
            \/ /\ pc[r] = "done"
               /\ \/ json = Whole(r) /\ Len(rows[r]) = Len(plan[r])
                  \/ Rival(r)

\* "a crash or Ctrl-C never discards paid runs" (evals/README.md:47): of a runner
\* that was killed, every task but the one in work is in a report that can be read.
PaidRunsAreKept ==
    \A r \in Runners : pc[r] = "dead" /\ Len(rows[r]) > 1 =>
        /\ json.state = "whole"
        /\ Len(json.rows) >= Len(rows[r]) - 1
=============================================================================
