------------------------------ MODULE FixLoop -------------------------------
(***************************************************************************)
(* demo/loop/run_iteration.py and the tools it runs one after the other:   *)
(* harness processes that each run iterations (edit, export, solve,        *)
(* analyze, judge) in numbered directories of one workspace.  A tool is a  *)
(* process; what it leaves behind is what it wrote to the directory and    *)
(* its exit code.  A harness may be killed between any two steps.          *)
(***************************************************************************)
EXTENDS EditJobs

CONSTANTS
    Harnesses,     \* processes running run_iteration.py
    Iters,         \* iteration directories of the workspace
    Commands,      \* command lines the harnesses are run with
    Delivered,     \* the design handed to every iteration
    None           \* no file, no baseline

\* run_iteration has no other edits: it passes on neither add-plane nor delete-plane.
IterEdits == {"none", "add-via", "resize-plane"}
Args == [iter : Iters, edit : IterEdits, base : Iters \cup {None}]

ASSUME CommandsAssumption == Commands \subseteq Args
ASSUME DeliveredAssumption == Delivered \in Design /\ Delivered.new = 0

VARIABLES
    dir,           \* dir[i]: the artifacts in the directory of iteration i
    pc,            \* pc[h]: the next step of harness h, "off" when it has ended
    arg,           \* arg[h]: the command line of h's run; kept when it exits with 0
    judged,        \* judged[h]: loop_check's exit code, "none" if it did not run
    exit,          \* exit[h]: the exit code of h's last run
    (* history, read by the properties only *)
    intruded,      \* iterations two harnesses found empty at the same time
    failed         \* harnesses one of whose stages ended with a code it may not

vars == <<dir, pc, arg, judged, exit, intruded, failed>>

-----------------------------------------------------------------------------

\* verdict.json: the design that was solved, the mask and the physics gate.
Verdict == [of : Design, mask_pass : BOOLEAN, gate : BOOLEAN]
Judgement == [fixed : BOOLEAN, regressed : BOOLEAN]

ASSUME NoneAssumption == None \notin Design \cup Iters \cup Args \cup Verdict \cup Judgement

File == Design \cup {None}

\* The copy of the design and its .lck, the XML, the EDB, the newest touchstone,
\* verdict.json, judge.json, and manifest.json.
Directory == [design : File, lck : BOOLEAN, xml : File, aedb : File, snp : File,
              verdict : Verdict \cup {None}, judge : Judgement \cup {None},
              manifest : {"none", "failed", "complete"}]

\* A directory that is not there, or holds only a PREDICTION.md.
Empty == [design |-> None, lck |-> FALSE, xml |-> None, aedb |-> None, snp |-> None,
          verdict |-> None, judge |-> None, manifest |-> "none"]

Steps == {"off", "check", "copy", "edit", "verify", "export", "translate", "solver",
          "analyze", "judge", "finish"}

TypeOK ==
    /\ dir \in [Iters -> Directory]
    /\ pc \in [Harnesses -> Steps]
    /\ arg \in [Harnesses -> Commands \cup {None}]
    /\ judged \in [Harnesses -> {"none", "0", "1", "2"}]
    /\ exit \in [Harnesses -> {"none", "0", "1", "2"}]
    /\ intruded \in SUBSET Iters
    /\ failed \in SUBSET Harnesses

Init ==
    /\ dir = [i \in Iters |-> Empty]
    /\ pc = [h \in Harnesses |-> "off"]
    /\ arg = [h \in Harnesses |-> None]
    /\ judged = [h \in Harnesses |-> "none"]
    /\ exit = [h \in Harnesses |-> "none"]
    /\ intruded = {}
    /\ failed = {}

\* The directory h works in, and the design h is to solve there.
Here(h) == dir[arg[h].iter]
Wanted(h) == IF arg[h].edit = "none" THEN Delivered ELSE Commanded(arg[h].edit, Delivered)

Goto(h, label) == pc' = [pc EXCEPT ![h] = label] /\ UNCHANGED <<arg, exit>>

\* The run is over without an exit code of 0, and forgets what it was.
Stop(h, code) ==
    /\ pc' = [pc EXCEPT ![h] = "off"]
    /\ arg' = [arg EXCEPT ![h] = None]
    /\ exit' = [exit EXCEPT ![h] = code]

\* What a step writes to h's directory.
Writes(h, content) == dir' = [dir EXCEPT ![arg[h].iter] = content]

\* A stage before the analysis fails: the manifest is written and the run ends.
Fail(h, content) ==
    /\ Writes(h, [content EXCEPT !.manifest = "failed"])
    /\ Stop(h, "1")

Pass(h, content, next) == Writes(h, content) /\ Goto(h, next)

-----------------------------------------------------------------------------

Start(h, a) ==
    /\ pc[h] = "off"
    /\ arg' = [arg EXCEPT ![h] = a]
    /\ judged' = [judged EXCEPT ![h] = "none"]
    /\ pc' = [pc EXCEPT ![h] = "check"]
    /\ exit' = [exit EXCEPT ![h] = "none"]
    /\ failed' = failed \ {h}
    /\ UNCHANGED <<dir, intruded>>

\* The harness is killed, between two tools or with the one it was running.
Kill(h) ==
    /\ pc[h] # "off"
    /\ Stop(h, "none")
    /\ judged' = [judged EXCEPT ![h] = "none"]
    /\ failed' = failed \ {h}
    /\ UNCHANGED <<dir, intruded>>

\* h gets in, and so may another harness that has not written anything yet.
Enter(h) ==
    /\ Goto(h, "copy")
    /\ intruded' = intruded \cup
          {i \in {arg[h].iter} : \E g \in Harnesses : pc[g] = "copy" /\ arg[g].iter = i}

\* Faulty variant: only an iteration with a manifest counts as one that ran.
CheckManifest(h) ==
    /\ pc[h] = "check"
    /\ IF Here(h).manifest # "none" THEN Stop(h, "2") /\ UNCHANGED intruded ELSE Enter(h)
    /\ UNCHANGED <<dir, judged, failed>>

\* The directory may hold nothing but a PREDICTION.md.
CheckDir(h) ==
    /\ pc[h] = "check"
    /\ IF Here(h) # Empty THEN Stop(h, "2") /\ UNCHANGED intruded ELSE Enter(h)
    /\ UNCHANGED <<dir, judged, failed>>

\* mkdir with exist_ok, and the copy of the design over whatever is there.
CopyDesign(h) ==
    /\ pc[h] = "copy"
    /\ Writes(h, [Here(h) EXCEPT !.design = Delivered])
    /\ Goto(h, IF arg[h].edit = "none" THEN "export" ELSE "edit")
    /\ UNCHANGED <<judged, intruded, failed>>

\* apply_edit: resize-plane without --old-rect and a locked design end at once;
\* otherwise the edit job runs, and its exit saves the design before anything
\* is verified.
EditSession(h) ==
    LET d == Here(h).design
        e == arg[h].edit
    IN
    /\ pc[h] = "edit"
    /\ \/ Fail(h, Here(h))
       \/ /\ e # "resize-plane" /\ ~Here(h).lck
          /\ \E job \in Job(e, d) \cup PartOfJob(e, d) :
             \E saved \in {d, job.db} :
                \/ \E lock \in BOOLEAN :
                      Fail(h, [Here(h) EXCEPT !.design = saved, !.lck = @ \/ lock])
                \/ /\ EditAccepted(0, job.log)
                   /\ Pass(h, [Here(h) EXCEPT !.design = saved], "verify")
    /\ UNCHANGED <<judged, intruded, failed>>

\* Faulty variant: the edit stage's exit code is not looked at.
VerifyIgnored(h) ==
    /\ pc[h] = "verify"
    /\ Pass(h, Here(h), "export")
    /\ UNCHANGED <<judged, intruded, failed>>

\* apply_edit: the second session counts what is in the saved design.
VerifySession(h) ==
    /\ pc[h] = "verify"
    /\ \/ \E lock \in BOOLEAN : Fail(h, [Here(h) EXCEPT !.lck = @ \/ lock])
       \/ /\ VerifyAccepted(arg[h].edit, 0, {Managed(arg[h].edit, Here(h).design)})
          /\ Pass(h, Here(h), "export")
    /\ UNCHANGED <<judged, intruded, failed>>

\* export_design: a locked design is refused; the XML may be there and still
\* fail the verification of its content.
Export(h) ==
    /\ pc[h] = "export"
    /\ \/ Fail(h, Here(h))
       \/ /\ ~Here(h).lck
          /\ LET exported == [Here(h) EXCEPT !.xml = Here(h).design] IN
             Fail(h, exported) \/ Pass(h, exported, "translate")
    /\ UNCHANGED <<judged, intruded, failed>>

\* build_and_solve, the EDB: the old one is removed, the XML translated (in two
\* attempts), ports and setup added.  Any of it may fail.
Translate(h) ==
    /\ pc[h] = "translate"
    /\ \/ \E left \in {None, Here(h).xml} : Fail(h, [Here(h) EXCEPT !.aedb = left])
       \/ Pass(h, [Here(h) EXCEPT !.aedb = Here(h).xml], "solver")
    /\ UNCHANGED <<judged, intruded, failed>>

\* build_and_solve, the solver: it may fail or be killed at its timeout, having
\* written a touchstone or not.  With rc 0 the newest touchstone is taken.
Solve(h) ==
    /\ pc[h] = "solver"
    /\ \E newest \in {Here(h).snp, Here(h).aedb} :
          LET content == [Here(h) EXCEPT !.snp = newest] IN
          \/ Fail(h, content)
          \/ newest # None /\ Pass(h, content, "analyze")
    /\ UNCHANGED <<judged, intruded, failed>>

Analyzed(h) == IF arg[h].base = None THEN "finish" ELSE "judge"

\* analyze writes the verdict, or ends without one: with 2 on a port the
\* touchstone does not have, with 1 on an exception.  The run goes on.
Analyze(h) ==
    /\ pc[h] = "analyze"
    /\ Goto(h, Analyzed(h))
    /\ \/ UNCHANGED dir /\ failed' \in {failed, failed \cup {h}}
       \/ /\ \E v \in Verdict :
                v.of = Here(h).snp /\ Writes(h, [Here(h) EXCEPT !.verdict = v])
          /\ UNCHANGED failed
    /\ UNCHANGED <<judged, intruded>>

\* Faulty variant: the physics gate of the solve is not asked.
JudgementNoGate(before, after) ==
    [fixed     |-> ~before.mask_pass /\ after.mask_pass,
     regressed |-> before.mask_pass /\ ~after.mask_pass]

\* loop_check, the referee.
JudgementOf(before, after) ==
    [fixed     |-> ~before.mask_pass /\ after.mask_pass /\ after.gate,
     regressed |-> before.mask_pass /\ ~after.mask_pass]

\* loop_check ends with 2 if a verdict is missing, with 1 on an exception (it may
\* come before judge.json is written), else with its judgement.
Judge(h) ==
    LET before == dir[arg[h].base].verdict
        after  == Here(h).verdict
        found  == before # None /\ after # None
        j      == JudgementOf(before, after)
    IN
    /\ pc[h] = "judge"
    /\ Goto(h, "finish")
    /\ \/ ~found /\ judged' = [judged EXCEPT ![h] = "2"] /\ UNCHANGED dir
       \/ found /\ judged' = [judged EXCEPT ![h] = "1"] /\ UNCHANGED dir
       \/ /\ found
          /\ judged' = [judged EXCEPT ![h] = IF j.fixed /\ ~j.regressed THEN "0" ELSE "1"]
          /\ Writes(h, [Here(h) EXCEPT !.judge = j])
    /\ failed' = IF found THEN failed ELSE failed \cup {h}
    /\ UNCHANGED intruded

\* The manifest, and the exit code: the referee's, or 0 without a baseline.
Finish(h) ==
    /\ pc[h] = "finish"
    /\ Writes(h, [Here(h) EXCEPT !.manifest = "complete"])
    /\ IF arg[h].base = None \/ judged[h] = "0"
       THEN /\ pc' = [pc EXCEPT ![h] = "off"]
            /\ exit' = [exit EXCEPT ![h] = "0"]
            /\ UNCHANGED <<arg, judged, failed>>
       ELSE /\ Stop(h, "1")
            /\ judged' = [judged EXCEPT ![h] = "none"]
            /\ failed' = failed \ {h}
    /\ UNCHANGED intruded

Stage(h) ==
    \/ CheckDir(h) \/ CopyDesign(h)
    \/ EditSession(h) \/ VerifySession(h)
    \/ Export(h) \/ Translate(h) \/ Solve(h)
    \/ Analyze(h) \/ Judge(h) \/ Finish(h)

Next == \E h \in Harnesses : (\E a \in Commands : Start(h, a)) \/ Kill(h) \/ Stage(h)

Spec == Init /\ [][Next]_vars

-----------------------------------------------------------------------------
(* Properties.  Two harnesses that find the same directory empty before       *)
(* either has written to it both get in: what an iteration guarantees, it    *)
(* guarantees for directories without such an intruder.                      *)

\* The judgement and the verdicts on disk that prove the fix h was to make.
Proof(h) ==
    /\ Here(h).judge = [fixed |-> TRUE, regressed |-> FALSE]
    /\ Here(h).verdict = [of |-> Wanted(h), mask_pass |-> TRUE, gate |-> TRUE]
    /\ dir[arg[h].base].verdict # None
    /\ ~dir[arg[h].base].verdict.mask_pass

\* The solver only ever runs on the design with the commanded edit in it: no edit
\* that failed, was half saved or was not verified reaches it (apply_edit.py:8-9).
OnlyVerifiedIsSolved ==
    \A h \in Harnesses :
        pc[h] = "solver" /\ arg[h].iter \notin intruded => Here(h).aedb = Wanted(h)

\* A run with a baseline that exits 0 has proved a fix, and the proof stays on
\* disk: the commanded design was solved, its solve passed the physics gate and
\* meets the mask, and the baseline, another iteration, does not.
FixIsProven ==
    \A h \in Harnesses :
        exit[h] = "0" /\ arg[h].base # None /\ {arg[h].iter, arg[h].base} \cap intruded = {} =>
            Here(h).manifest = "complete" /\ Proof(h)

\* Evidence is never overwritten, nor an iteration that ended or was killed taken
\* up again: what is exported, solved, analyzed and judged stays as it is, and
\* after the manifest nothing in the directory changes.
EvidenceIsKept ==
    [][\A i \in Iters \ intruded' :
          /\ \A f \in {"xml", "snp", "verdict", "judge"} :
                dir[i][f] # None => dir'[i][f] = dir[i][f]
          /\ dir[i].xml # None => dir'[i].design = dir[i].design
          /\ dir[i].manifest # "none" => dir'[i] = dir[i]]_vars

\* run_iteration.py:8-9: exit code 1 is "any stage failed or fix not proven", so
\* after an exit with 0 no stage has failed.
ExitZeroMeansNoStageFailed == \A h \in Harnesses : exit[h] = "0" => h \notin failed

(***************************************************************************)
(* The inductive invariant.                                                *)
(***************************************************************************)

\* h is past the check of its directory; it has written to it.
Inside(h)  == pc[h] \notin {"off", "check"}
Working(h) == Inside(h) /\ pc[h] # "copy"

\* Without an intruder a directory has one harness in it, which found it empty,
\* and none once its manifest is written.
OwnInv(h) ==
    /\ \A g \in Harnesses : Inside(g) /\ arg[g].iter = arg[h].iter => g = h
    /\ Here(h).manifest = "none"
    /\ pc[h] = "copy" => Here(h) = Empty

\* What h finds in its directory at each of its steps, and what is not there yet.
ArtifactsInv(h) ==
    /\ pc[h] = "edit" => Here(h).design = Delivered
    /\ pc[h] = "verify" => Here(h).design \in {Delivered, Wanted(h)}
    /\ pc[h] \in {"export", "translate", "solver", "analyze", "judge", "finish"} =>
          Here(h).design = Wanted(h)
    /\ IF pc[h] \in {"edit", "verify", "export"}
       THEN Here(h).xml = None ELSE Here(h).xml = Wanted(h)
    /\ pc[h] = "solver" => Here(h).aedb = Wanted(h)
    /\ IF pc[h] \in {"analyze", "judge", "finish"}
       THEN Here(h).snp = Wanted(h) ELSE Here(h).snp = None
    /\ pc[h] \notin {"judge", "finish"} => Here(h).verdict = None
    /\ pc[h] # "finish" => Here(h).judge = None
    /\ Here(h).verdict # None => Here(h).verdict.of = Wanted(h)

\* What a run knows of itself at each of its steps.
RunInv(h) ==
    /\ pc[h] # "off" \/ exit[h] = "0" => arg[h] # None
    /\ pc[h] # "off" => exit[h] = "none"
    /\ pc[h] \notin {"off", "finish"} => judged[h] = "none"
    /\ pc[h] = "judge" => arg[h].base # None
    /\ pc[h] \in {"edit", "verify"} => arg[h].edit # "none"
    /\ Working(h) => arg[h].edit # "resize-plane" \/ pc[h] = "edit"

\* What the referee said is what the verdicts on disk say.
JudgedInv(h) ==
    pc[h] = "finish" /\ arg[h].base # None /\ judged[h] = "0" /\ arg[h].base \notin intruded =>
        Proof(h)

\* One harness per directory, each artifact made from the one before it, and the
\* referee's word backed by the verdicts: inductive, and the properties follow.
Inv ==
    /\ TypeOK
    /\ FixIsProven
    /\ \A h \in Harnesses :
          /\ RunInv(h)
          /\ Working(h) => Here(h).design # None
          /\ Inside(h) /\ arg[h].iter \notin intruded => OwnInv(h)
          /\ Working(h) /\ arg[h].iter \notin intruded => ArtifactsInv(h) /\ JudgedInv(h)
=============================================================================
