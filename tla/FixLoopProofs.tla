---------------------------- MODULE FixLoopProofs ----------------------------
(***************************************************************************)
(* Proofs about the iteration harness, for any number of harnesses and     *)
(* iterations, any command lines and any bound on copies.                  *)
(***************************************************************************)
EXTENDS FixLoop, EditJobsProofs

(* ---------------------------------------------------------------------- *)
(* The invariant, harness by harness.                                     *)

Proven(h) ==
    exit[h] = "0" /\ arg[h].base # None /\ {arg[h].iter, arg[h].base} \cap intruded = {} =>
        Here(h).manifest = "complete" /\ Proof(h)

Own(h) ==
    /\ RunInv(h)
    /\ Working(h) => Here(h).design # None
    /\ Inside(h) /\ arg[h].iter \notin intruded => OwnInv(h)
    /\ Working(h) /\ arg[h].iter \notin intruded => ArtifactsInv(h) /\ JudgedInv(h)
    /\ Proven(h)

\* The invariant is type correctness and what holds of each harness.
LEMMA InvParts == Inv <=> TypeOK /\ \A h \in Harnesses : Own(h)
BY DEF Inv, Own, Proven, FixIsProven

\* A harness that is running, or has exited with 0, has one of the command lines.
LEMMA HasCommand ==
    ASSUME TypeOK, NEW h \in Harnesses, arg[h] # None
    PROVE  /\ arg[h] \in Commands /\ arg[h] \in Args
           /\ arg[h].iter \in Iters /\ arg[h].edit \in IterEdits
           /\ arg[h].base \in Iters \cup {None}
           /\ Here(h) \in Directory
BY CommandsAssumption DEF TypeOK, Args, Here

\* What a step of h leaves alone: the other harnesses, all directories but its
\* own, and in its own that there is a design and, without an intruder, a verdict
\* that is there; and h is not let in where another harness is, unless that makes
\* it an intruder.
Leaves(h) ==
    /\ \A g \in Harnesses \ {h} : /\ pc'[g] = pc[g] /\ arg'[g] = arg[g]
                                  /\ judged'[g] = judged[g] /\ exit'[g] = exit[g]
    /\ intruded \subseteq intruded'
    /\ \A i \in Iters : dir'[i] = dir[i] \/ (Inside(h) /\ i = arg[h].iter)
    /\ \A i \in Iters : dir[i].design # None => dir'[i].design # None
    /\ \A i \in Iters \ intruded' : dir[i].verdict # None => dir'[i].verdict = dir[i].verdict
    /\ \A g \in Harnesses \ {h} :
          Inside(g) /\ Inside(h)' /\ arg[g].iter = arg'[h].iter =>
              \/ Inside(h) /\ arg'[h].iter = arg[h].iter
              \/ arg'[h].iter \in intruded'

\* Such a step keeps the invariant of every other harness.
LEMMA OthersKept ==
    ASSUME Inv, NEW h \in Harnesses, Leaves(h), NEW g \in Harnesses \ {h}
    PROVE  Own(g)'
<1>0. TypeOK /\ Own(g) /\ Own(h)
    BY InvParts
<1>1. /\ pc'[g] = pc[g] /\ arg'[g] = arg[g] /\ judged'[g] = judged[g] /\ exit'[g] = exit[g]
      /\ intruded \subseteq intruded'
      /\ Inside(g)' <=> Inside(g)
      /\ Working(g)' <=> Working(g)
      /\ Wanted(g)' = Wanted(g)
    BY DEF Leaves, Inside, Working, Wanted
<1>2. RunInv(g)'
    BY <1>0, <1>1 DEF Own, RunInv
<1>8. Working(g)' => Here(g)'.design # None
    <2> SUFFICES ASSUME Working(g) PROVE Here(g)'.design # None
        BY <1>1
    <2>1. Here(g).design # None /\ arg[g] # None
        BY <1>0 DEF Own, RunInv, Working, Inside
    <2>2. arg[g].iter \in Iters
        BY <1>0, <2>1, HasCommand
    <2> QED
        BY <1>1, <2>1, <2>2 DEF Leaves, Here
<1>3. ASSUME Inside(g), arg[g].iter \notin intruded'
      PROVE  Here(g)' = Here(g) /\ OwnInv(g)
    <2>1. OwnInv(g)
        BY <1>0, <1>1, <1>3 DEF Own
    <2>2. arg[g] # None
        BY <1>0, <1>3 DEF Own, RunInv, Inside
    <2>3. arg[g].iter \in Iters
        BY <1>0, <2>2, HasCommand
    <2>4. ~(Inside(h) /\ arg[g].iter = arg[h].iter)
        BY <2>1 DEF OwnInv
    <2>5. dir'[arg[g].iter] = dir[arg[g].iter]
        BY <2>3, <2>4 DEF Leaves
    <2> QED
        BY <1>1, <2>1, <2>5 DEF Here
<1>4. Inside(g)' /\ arg'[g].iter \notin intruded' => OwnInv(g)'
    <2> SUFFICES ASSUME Inside(g), arg[g].iter \notin intruded' PROVE OwnInv(g)'
        BY <1>1
    <2>1. Here(g)' = Here(g) /\ OwnInv(g)
        BY <1>3
    <2>2. ASSUME NEW k \in Harnesses, Inside(k)', arg'[k].iter = arg[g].iter PROVE k = g
        <3>1. CASE k = h
            <4>1. Inside(h) /\ arg'[h].iter = arg[h].iter
                BY <2>2, <3>1 DEF Leaves
            <4> QED BY <2>1, <2>2, <3>1, <4>1 DEF OwnInv
        <3>2. CASE k # h
            <4>1. Inside(k) /\ arg[k].iter = arg[g].iter
                BY <2>2, <3>2 DEF Leaves, Inside
            <4> QED BY <2>1, <4>1 DEF OwnInv
        <3> QED BY <3>1, <3>2
    <2> QED
        BY <1>1, <2>1, <2>2 DEF OwnInv
<1>5. ASSUME arg[g] # None, arg[g].base # None, arg[g].base \notin intruded',
             Proof(g), Here(g)' = Here(g)
      PROVE  Proof(g)'
    <2>1. arg[g].base \in Iters
        BY <1>0, <1>5, HasCommand
    <2>2. dir'[arg[g].base].verdict = dir[arg[g].base].verdict
        BY <1>5, <2>1 DEF Proof, Leaves
    <2> QED
        BY <1>1, <1>5, <2>2 DEF Proof
<1>6. Working(g)' /\ arg'[g].iter \notin intruded' => ArtifactsInv(g)' /\ JudgedInv(g)'
    <2> SUFFICES ASSUME Working(g), arg[g].iter \notin intruded'
                 PROVE  ArtifactsInv(g)' /\ JudgedInv(g)'
        BY <1>1
    <2>1. Here(g)' = Here(g)
        BY <1>3 DEF Working
    <2>2. ArtifactsInv(g) /\ JudgedInv(g)
        BY <1>0, <1>1 DEF Own
    <2>3. ArtifactsInv(g)'
        BY <1>1, <2>1, <2>2 DEF ArtifactsInv
    <2>4. arg[g] # None
        BY <1>0 DEF Own, RunInv, Working, Inside
    <2>5. JudgedInv(g)'
        BY <1>1, <1>5, <2>1, <2>2, <2>4 DEF JudgedInv
    <2> QED BY <2>3, <2>5
<1>7. Proven(g)'
    <2> SUFFICES ASSUME exit[g] = "0", arg[g].base # None,
                        {arg[g].iter, arg[g].base} \cap intruded' = {}
                 PROVE  (Here(g).manifest = "complete" /\ Proof(g))'
        BY <1>1 DEF Proven
    <2>1. Here(g).manifest = "complete" /\ Proof(g)
        BY <1>0, <1>1 DEF Own, Proven
    <2>2. arg[g] # None
        BY <1>0 DEF Own, RunInv
    <2>3. arg[g].iter \in Iters
        BY <1>0, <2>2, HasCommand
    <2>4. ~(Inside(h) /\ arg[g].iter = arg[h].iter)
        BY <1>0, <1>1, <2>1 DEF Own, OwnInv, Here
    <2>5. Here(g)' = Here(g)
        BY <1>1, <2>3, <2>4 DEF Leaves, Here
    <2> QED
        BY <1>5, <2>1, <2>2, <2>5
<1> QED
    BY <1>2, <1>4, <1>6, <1>7, <1>8 DEF Own

\* So it is enough to look at the harness that takes the step.
LEMMA OneSteps ==
    ASSUME Inv, NEW h \in Harnesses, Leaves(h), TypeOK', Own(h)'
    PROVE  Inv'
<1>1. \A g \in Harnesses : Own(g)'
    BY OthersKept
<1> QED
    BY <1>1 DEF Inv, Own, Proven, FixIsProven

(* ---------------------------------------------------------------------- *)
(* The two ways a stage ends.                                             *)

Outcomes == {"none", "0", "1", "2"}

\* h writes content to its directory.
LEMMA Written ==
    ASSUME Inv, NEW h \in Harnesses, Inside(h), NEW content \in Directory, Writes(h, content)
    PROVE  /\ arg[h] # None /\ arg[h].iter \in Iters
           /\ dir' \in [Iters -> Directory]
           /\ dir'[arg[h].iter] = content
           /\ \A i \in Iters \ {arg[h].iter} : dir'[i] = dir[i]
<1>1. arg[h] # None /\ arg[h].iter \in Iters
    BY HasCommand DEF Inv, RunInv, Inside
<1> QED
    BY <1>1 DEF Writes, Inv, TypeOK

\* What a step of h that writes to its directory leaves alone.
LEMMA WriteLeaves ==
    ASSUME Inv, NEW h \in Harnesses, Inside(h), NEW content \in Directory, Writes(h, content),
           \A g \in Harnesses \ {h} : /\ pc'[g] = pc[g] /\ arg'[g] = arg[g]
                                      /\ judged'[g] = judged[g] /\ exit'[g] = exit[g],
           UNCHANGED intruded, content.design # None,
           arg[h].iter \notin intruded =>
               (Here(h).verdict # None => content.verdict = Here(h).verdict),
           pc'[h] = "off" \/ arg'[h] = arg[h]
    PROVE  Leaves(h)
<1>1. /\ arg[h].iter \in Iters
      /\ dir'[arg[h].iter] = content
      /\ \A i \in Iters \ {arg[h].iter} : dir'[i] = dir[i]
    BY Written
<1> QED
    BY <1>1 DEF Leaves, Here, Inside

\* A stage that fails keeps the invariant: the run is over.
LEMMA FailKeepsInv ==
    ASSUME Inv, NEW h \in Harnesses,
           pc[h] \in {"edit", "verify", "export", "translate", "solver"},
           NEW content \in Directory,
           content.verdict = Here(h).verdict, content.design # None,
           Fail(h, content), UNCHANGED <<judged, intruded, failed>>
    PROVE  Inv'
<1> DEFINE c == [content EXCEPT !.manifest = "failed"]
<1>1. c \in Directory /\ c.verdict = Here(h).verdict /\ c.design # None /\ Writes(h, c)
    BY DEF Directory, Fail
<1>2. Inside(h) /\ TypeOK /\ RunInv(h)
    BY DEF Inside, Inv
<1>3. /\ pc' \in [Harnesses -> Steps] /\ pc'[h] = "off"
      /\ arg' \in [Harnesses -> Commands \cup {None}]
      /\ exit' \in [Harnesses -> Outcomes] /\ exit'[h] = "1"
      /\ \A g \in Harnesses \ {h} : pc'[g] = pc[g] /\ arg'[g] = arg[g] /\ exit'[g] = exit[g]
    BY <1>2 DEF Fail, Stop, TypeOK, Steps, Outcomes
<1>4. Leaves(h)
    <2> HIDE DEF c
    <2> QED BY <1>1, <1>2, <1>3, WriteLeaves
<1>5. TypeOK'
    <2>1. dir' \in [Iters -> Directory]
        <3> HIDE DEF c
        <3> QED BY <1>1, <1>2, Written
    <2> QED BY <1>2, <1>3, <2>1 DEF TypeOK, Outcomes
<1>6. Own(h)'
    BY <1>2, <1>3 DEF Own, RunInv, Inside, Working, Proven
<1> QED
    BY <1>4, <1>5, <1>6, OneSteps

\* A stage that passes keeps it, if what it wrote is what the next stage expects.
LEMMA PassKeepsInv ==
    ASSUME Inv, NEW h \in Harnesses, pc[h] \notin {"off", "check"},
           NEW content \in Directory, NEW next \in Steps \ {"off", "check", "copy"},
           Pass(h, content, next),
           judged' \in [Harnesses -> Outcomes],
           \A g \in Harnesses \ {h} : judged'[g] = judged[g],
           failed' \in SUBSET Harnesses, UNCHANGED intruded,
           RunInv(h)', content.design # None,
           arg[h].iter \notin intruded =>
               /\ content.manifest = "none"
               /\ Here(h).verdict # None => content.verdict = Here(h).verdict
               /\ ArtifactsInv(h)' /\ JudgedInv(h)'
    PROVE  Inv'
<1>1. Inside(h) /\ TypeOK /\ RunInv(h) /\ Writes(h, content)
    BY DEF Inside, Inv, Pass
<1>2. /\ pc' \in [Harnesses -> Steps] /\ pc'[h] = next
      /\ UNCHANGED <<arg, exit>>
      /\ \A g \in Harnesses \ {h} : pc'[g] = pc[g]
    BY <1>1 DEF Pass, Goto, TypeOK
<1>3. Leaves(h)
    BY <1>1, <1>2, WriteLeaves
<1>4. /\ dir' \in [Iters -> Directory]
      /\ Here(h)' = content
    BY <1>1, <1>2, Written DEF Here
<1>5. TypeOK'
    BY <1>1, <1>2, <1>4 DEF TypeOK, Outcomes
<1>6. arg[h].iter \notin intruded => OwnInv(h)'
    <2> SUFFICES ASSUME arg[h].iter \notin intruded PROVE OwnInv(h)'
        OBVIOUS
    <2>1. OwnInv(h)
        BY <1>1 DEF Inv
    <2>2. \A g \in Harnesses : Inside(g)' /\ arg'[g].iter = arg'[h].iter => g = h
        BY <1>2, <2>1 DEF OwnInv, Inside
    <2> QED
        BY <1>2, <1>4, <2>2 DEF OwnInv
<1>7. Own(h)'
    BY <1>1, <1>2, <1>4, <1>6 DEF Own, Proven, RunInv
<1> QED
    BY <1>3, <1>5, <1>7, OneSteps

(* ---------------------------------------------------------------------- *)
(* Every step keeps the invariant.                                        *)

\* The invariant holds in an empty workspace.
LEMMA InitInv == Init => Inv
<1> SUFFICES ASSUME Init PROVE Inv
    OBVIOUS
<1>1. TypeOK
    BY DEF Init, TypeOK, Empty, Directory, File, Steps
<1>2. \A h \in Harnesses : Own(h)
    BY DEF Init, Own, RunInv, Inside, Working, Proven
<1> QED
    BY <1>1, <1>2, InvParts

\* A run begins, or is killed: no directory changes, and nothing is claimed.
LEMMA StartOrKill ==
    ASSUME Inv, NEW h \in Harnesses, (\E a \in Commands : Start(h, a)) \/ Kill(h)
    PROVE  Inv'
<1>1. TypeOK
    BY DEF Inv
<1>2. CASE \E a \in Commands : Start(h, a)
    <2> PICK a \in Commands : Start(h, a)
        BY <1>2
    <2>1. a # None
        BY CommandsAssumption, NoneAssumption
    <2>2. TypeOK'
        BY <1>1 DEF Start, TypeOK, Steps
    <2>3. Leaves(h)
        BY <1>1 DEF Start, TypeOK, Leaves, Inside
    <2>4. Own(h)'
        BY <1>1, <2>1 DEF Start, TypeOK, Own, RunInv, Inside, Working, Proven
    <2> QED BY <2>2, <2>3, <2>4, OneSteps
<1>3. CASE Kill(h)
    <2>1. TypeOK'
        BY <1>1, <1>3 DEF Kill, Stop, TypeOK, Steps
    <2>2. Leaves(h)
        BY <1>1, <1>3 DEF Kill, Stop, TypeOK, Leaves, Inside
    <2>3. Own(h)'
        BY <1>1, <1>3 DEF Kill, Stop, TypeOK, Own, RunInv, Inside, Working, Proven
    <2> QED BY <2>1, <2>2, <2>3, OneSteps
<1> QED BY <1>2, <1>3

\* Whoever finds the directory empty is alone in it, or it counts as intruded.
LEMMA CheckDirKeepsInv ==
    ASSUME Inv, NEW h \in Harnesses, CheckDir(h)
    PROVE  Inv'
<1>1. TypeOK /\ RunInv(h) /\ arg[h] # None /\ pc[h] = "check"
    BY DEF Inv, CheckDir, RunInv
<1>2. CASE Here(h) # Empty
    <2>1. Stop(h, "2") /\ UNCHANGED <<intruded, dir, judged, failed>>
        BY <1>2 DEF CheckDir
    <2>2. TypeOK'
        BY <1>1, <2>1 DEF Stop, TypeOK, Steps
    <2>3. Leaves(h)
        BY <1>1, <2>1 DEF Stop, TypeOK, Leaves, Inside
    <2>4. Own(h)'
        BY <1>1, <2>1 DEF Stop, TypeOK, Own, RunInv, Inside, Working, Proven
    <2> QED BY <2>2, <2>3, <2>4, OneSteps
<1>3. CASE Here(h) = Empty
    <2>1. Enter(h) /\ UNCHANGED <<dir, judged, failed>>
        BY <1>3 DEF CheckDir
    <2>2. arg[h].iter \in Iters
        BY <1>1, HasCommand
    <2>3. /\ pc' = [pc EXCEPT ![h] = "copy"] /\ UNCHANGED <<arg, exit>>
          /\ intruded \subseteq intruded' /\ intruded' \in SUBSET Iters
        BY <1>1, <2>1, <2>2 DEF Enter, Goto, TypeOK
    <2>4. ASSUME NEW g \in Harnesses \ {h}, Inside(g), arg[g].iter = arg[h].iter
          PROVE  arg[h].iter \in intruded'
        <3>1. CASE arg[g].iter \in intruded
            BY <2>3, <2>4, <3>1
        <3>2. CASE arg[g].iter \notin intruded
            <4>1. OwnInv(g)
                BY <2>4, <3>2 DEF Inv
            <4>2. pc[g] = "copy"
                BY <1>3, <2>4, <4>1 DEF Inv, Working, Here, Empty
            <4> QED
                BY <2>1, <2>2, <2>4, <4>2 DEF Enter
        <3> QED BY <3>1, <3>2
    <2>5. TypeOK'
        BY <1>1, <2>1, <2>3 DEF TypeOK, Steps
    <2>6. Leaves(h)
        <3>1. \A g \in Harnesses \ {h} :
                 Inside(g) /\ Inside(h)' /\ arg[g].iter = arg'[h].iter =>
                     arg'[h].iter \in intruded'
            BY <2>3, <2>4
        <3> QED
            BY <1>1, <2>1, <2>3, <3>1 DEF TypeOK, Leaves
    <2>7. arg[h].iter \notin intruded' => OwnInv(h)'
        <3> SUFFICES ASSUME arg[h].iter \notin intruded' PROVE OwnInv(h)'
            OBVIOUS
        <3>1. \A g \in Harnesses : Inside(g)' /\ arg'[g].iter = arg'[h].iter => g = h
            BY <2>3, <2>4 DEF Inside
        <3>2. Here(h)' = Empty /\ pc'[h] = "copy"
            BY <1>1, <1>3, <2>1, <2>3 DEF Here, TypeOK
        <3> QED
            BY <3>1, <3>2 DEF OwnInv, Empty
    <2>8. Own(h)'
        BY <1>1, <2>1, <2>3, <2>7 DEF Own, RunInv, Inside, Working, Proven, TypeOK
    <2> QED BY <2>5, <2>6, <2>8, OneSteps
<1> QED BY <1>2, <1>3

\* What is known of h at a stage.
LEMMA AtStage ==
    ASSUME Inv, NEW h \in Harnesses, Inside(h)
    PROVE  /\ TypeOK /\ RunInv(h)
           /\ arg[h] # None /\ arg[h].iter \in Iters /\ arg[h].edit \in IterEdits
           /\ Here(h) \in Directory
           /\ pc[h] # "copy" => Here(h).design # None
           /\ arg[h].iter \notin intruded => OwnInv(h)
           /\ pc[h] # "copy" /\ arg[h].iter \notin intruded => ArtifactsInv(h) /\ JudgedInv(h)
BY HasCommand DEF Inv, RunInv, Inside, Working

\* A stage that passes without touching the referee's word.
LEMMA QuietPass ==
    ASSUME Inv, NEW h \in Harnesses,
           pc[h] \in {"copy", "edit", "verify", "export", "translate", "solver", "analyze"},
           NEW content \in Directory, NEW next \in Steps \ {"off", "check", "copy"},
           Pass(h, content, next), UNCHANGED <<judged, intruded>>, failed' \in SUBSET Harnesses,
           next \in {"judge", "finish"} => pc[h] = "analyze",
           next = "judge" => arg[h].base # None,
           next \in {"edit", "verify"} => arg[h].edit # "none",
           arg[h].edit # "resize-plane" \/ next = "edit",
           content.design # None,
           arg[h].iter \notin intruded =>
               /\ content.manifest = "none"
               /\ Here(h).verdict # None => content.verdict = Here(h).verdict
               /\ ArtifactsInv(h)'
    PROVE  Inv'
<1>1. TypeOK /\ RunInv(h)
    BY AtStage DEF Inside
<1>2. pc'[h] = next /\ UNCHANGED <<arg, exit>>
    BY <1>1 DEF Pass, Goto, TypeOK
<1>3. judged[h] = "none" /\ arg[h] # None /\ exit[h] = "none"
    BY <1>1 DEF RunInv
<1>4. RunInv(h)'
    BY <1>2, <1>3 DEF RunInv, Inside, Working
<1>5. JudgedInv(h)'
    BY <1>3 DEF JudgedInv
<1>6. judged' \in [Harnesses -> Outcomes] /\ \A g \in Harnesses \ {h} : judged'[g] = judged[g]
    BY <1>1 DEF TypeOK, Outcomes
<1> QED
    BY <1>4, <1>5, <1>6, PassKeepsInv

\* Where a stage that passes leaves h.
LEMMA Passed ==
    ASSUME Inv, NEW h \in Harnesses, Inside(h), NEW content \in Directory, NEW next,
           Pass(h, content, next)
    PROVE  /\ pc'[h] = next /\ arg' = arg /\ Here(h)' = content
           /\ Wanted(h)' = Wanted(h)
<1>1. TypeOK /\ arg[h].iter \in Iters
    BY AtStage
<1> QED
    BY <1>1 DEF Pass, Writes, Goto, TypeOK, Here, Wanted

\* The copy of the design into the directory h found empty.
LEMMA CopyDesignKeepsInv ==
    ASSUME Inv, NEW h \in Harnesses, CopyDesign(h)
    PROVE  Inv'
<1> DEFINE c == [Here(h) EXCEPT !.design = Delivered]
           next == IF arg[h].edit = "none" THEN "export" ELSE "edit"
<1>1. Inside(h) /\ pc[h] = "copy"
    BY DEF CopyDesign, Inside
<1>2. Here(h) \in Directory /\ arg[h].edit \in IterEdits
    BY <1>1, AtStage
<1>3. c \in Directory /\ Pass(h, c, next) /\ UNCHANGED <<judged, intruded, failed>>
    BY <1>2, DeliveredAssumption DEF CopyDesign, Pass, Directory, File
<1>10. c.design # None
    BY <1>2, DeliveredAssumption, NoneAssumption DEF Directory
<1>4. pc'[h] = next /\ Here(h)' = c /\ Wanted(h)' = Wanted(h)
    BY <1>1, <1>3, Passed
<1>5. arg[h].iter \notin intruded => c = [Empty EXCEPT !.design = Delivered]
    BY <1>1, AtStage DEF OwnInv
<1>6. next = "export" => Wanted(h) = Delivered
    BY DEF Wanted
<1>7. arg[h].iter \notin intruded =>
          /\ c.manifest = "none" /\ Here(h).verdict = None
          /\ ArtifactsInv(h)'
    BY <1>1, <1>4, <1>5, <1>6, <1>2, DeliveredAssumption, NoneAssumption, AtStage
       DEF ArtifactsInv, Empty, OwnInv, Directory
<1>8. next \in {"export", "edit"} /\ TypeOK
    BY <1>1, AtStage
<1>9. /\ next \in Steps \ {"off", "check", "copy"}
      /\ next \notin {"judge", "finish", "verify"}
      /\ next = "edit" => arg[h].edit # "none"
      /\ arg[h].edit # "resize-plane" \/ next = "edit"
      /\ failed' \in SUBSET Harnesses
    BY <1>3, <1>8 DEF Steps, TypeOK
<1> QED
    <2> HIDE DEF c, next
    <2> QED BY <1>1, <1>3, <1>7, <1>9, <1>10, QuietPass

\* The edit job saves the delivered design, or the commanded one if its log is
\* accepted; which of the two is for the verification to find out.
LEMMA EditSessionKeepsInv ==
    ASSUME Inv, NEW h \in Harnesses, EditSession(h)
    PROVE  Inv'
<1> DEFINE d == Here(h).design
           e == arg[h].edit
<1>1. Inside(h) /\ pc[h] = "edit" /\ UNCHANGED <<judged, intruded, failed>>
    BY DEF EditSession, Inside
<1>2. /\ Here(h) \in Directory /\ e \in IterEdits /\ TypeOK /\ RunInv(h)
      /\ d \in Design /\ d # None
    BY <1>1, AtStage DEF Directory, File
<1>3. CASE Fail(h, Here(h))
    BY <1>1, <1>2, <1>3, FailKeepsInv
<1>4. ASSUME e # "resize-plane",
             NEW job \in Job(e, d) \cup PartOfJob(e, d),
             NEW saved \in {d, job.db},
             \/ \E lock \in BOOLEAN :
                   Fail(h, [Here(h) EXCEPT !.design = saved, !.lck = @ \/ lock])
             \/ /\ EditAccepted(0, job.log)
                /\ Pass(h, [Here(h) EXCEPT !.design = saved], "verify")
      PROVE  Inv'
    <2>1. e \in Edits /\ e = "add-via"
        BY <1>1, <1>2, <1>4 DEF RunInv, IterEdits, Edits
    <2>2. saved \in Design /\ saved # None
        BY <1>2, <1>4, <2>1, JobType, NoneAssumption
    <2>3. CASE \E lock \in BOOLEAN :
                  Fail(h, [Here(h) EXCEPT !.design = saved, !.lck = @ \/ lock])
        <3> PICK lock \in BOOLEAN :
                  Fail(h, [Here(h) EXCEPT !.design = saved, !.lck = @ \/ lock])
            BY <2>3
        <3> DEFINE c == [Here(h) EXCEPT !.design = saved, !.lck = @ \/ lock]
        <3>1. c \in Directory /\ c.verdict = Here(h).verdict /\ c.design # None
            BY <1>2, <2>2 DEF Directory, File
        <3> QED
            BY <1>1, <3>1, FailKeepsInv
    <2>4. CASE /\ EditAccepted(0, job.log)
               /\ Pass(h, [Here(h) EXCEPT !.design = saved], "verify")
        <3> DEFINE c == [Here(h) EXCEPT !.design = saved]
        <3>1. /\ Pass(h, c, "verify")
              /\ c \in Directory /\ c.design = saved /\ c.verdict = Here(h).verdict
              /\ c.manifest = Here(h).manifest
              /\ c.xml = Here(h).xml /\ c.snp = Here(h).snp /\ c.judge = Here(h).judge
            BY <1>2, <2>2, <2>4 DEF Directory, File
        <3>2. pc'[h] = "verify" /\ Here(h)' = c /\ Wanted(h)' = Wanted(h)
            BY <1>1, <3>1, Passed
        <3>3. job.db = Commanded(e, d)
            BY <1>2, <2>1, <2>4, AcceptedJob
        <3>4. ASSUME arg[h].iter \notin intruded
              PROVE  c.manifest = "none" /\ ArtifactsInv(h)'
            <4>1. OwnInv(h) /\ ArtifactsInv(h)
                BY <1>1, <3>4, AtStage
            <4>2. saved \in {Delivered, Wanted(h)}
                BY <1>1, <1>4, <2>1, <3>3, <4>1 DEF ArtifactsInv, Wanted
            <4> QED
                BY <1>1, <3>1, <3>2, <4>1, <4>2 DEF ArtifactsInv, OwnInv
        <3>5. "verify" \in Steps \ {"off", "check", "copy"} /\ failed' \in SUBSET Harnesses
            BY <1>1, <1>2 DEF Steps, TypeOK
        <3> QED
            <4> HIDE DEF c
            <4> QED BY <1>1, <2>1, <2>2, <3>1, <3>4, <3>5, QuietPass
    <2> QED BY <1>4, <2>3, <2>4
<1> QED
    BY <1>3, <1>4 DEF EditSession

\* The verification accepts the commanded design only.
LEMMA VerifySessionKeepsInv ==
    ASSUME Inv, NEW h \in Harnesses, VerifySession(h)
    PROVE  Inv'
<1> DEFINE d == Here(h).design
           e == arg[h].edit
<1>1. Inside(h) /\ pc[h] = "verify" /\ UNCHANGED <<judged, intruded, failed>>
    BY DEF VerifySession, Inside
<1>2. /\ Here(h) \in Directory /\ e \in IterEdits /\ TypeOK /\ RunInv(h)
      /\ d # None
    BY <1>1, AtStage
<1>3. CASE \E lock \in BOOLEAN : Fail(h, [Here(h) EXCEPT !.lck = @ \/ lock])
    <2> PICK lock \in BOOLEAN : Fail(h, [Here(h) EXCEPT !.lck = @ \/ lock])
        BY <1>3
    <2> DEFINE c == [Here(h) EXCEPT !.lck = @ \/ lock]
    <2>1. c \in Directory /\ c.verdict = Here(h).verdict /\ c.design # None
        BY <1>2 DEF Directory
    <2> QED
        BY <1>1, <2>1, FailKeepsInv
<1>4. CASE /\ VerifyAccepted(e, 0, {Managed(e, d)})
           /\ Pass(h, Here(h), "export")
    <2>1. e = "add-via"
        BY <1>1, <1>2 DEF RunInv, Working, Inside, IterEdits
    <2>2. Mentions(1, d.new)
        BY <1>4, <2>1 DEF VerifyAccepted, Managed, Expected
    <2>3. d # Delivered
        BY <2>2, DeliveredAssumption DEF Mentions
    <2>4. pc'[h] = "export" /\ Here(h)' = Here(h) /\ Wanted(h)' = Wanted(h)
        BY <1>1, <1>2, <1>4, Passed
    <2>5. ASSUME arg[h].iter \notin intruded
          PROVE  Here(h).manifest = "none" /\ ArtifactsInv(h)'
        <3>1. OwnInv(h) /\ ArtifactsInv(h)
            BY <1>1, <2>5, AtStage
        <3> QED
            BY <1>1, <2>3, <2>4, <3>1 DEF ArtifactsInv, OwnInv
    <2>6. "export" \in Steps \ {"off", "check", "copy"} /\ failed' \in SUBSET Harnesses
        BY <1>1, <1>2 DEF Steps, TypeOK
    <2> QED
        BY <1>1, <1>2, <1>4, <2>1, <2>5, <2>6, QuietPass
<1> QED
    BY <1>3, <1>4 DEF VerifySession

\* The XML is made from the design in the directory.
LEMMA ExportKeepsInv ==
    ASSUME Inv, NEW h \in Harnesses, Export(h)
    PROVE  Inv'
<1> DEFINE c == [Here(h) EXCEPT !.xml = Here(h).design]
<1>1. Inside(h) /\ pc[h] = "export" /\ UNCHANGED <<judged, intruded, failed>>
    BY DEF Export, Inside
<1>2. /\ Here(h) \in Directory /\ TypeOK /\ RunInv(h) /\ Here(h).design # None
    BY <1>1, AtStage
<1>3. /\ c \in Directory /\ c.verdict = Here(h).verdict /\ c.design = Here(h).design
      /\ c.xml = Here(h).design /\ c.snp = Here(h).snp /\ c.judge = Here(h).judge
      /\ c.manifest = Here(h).manifest
    BY <1>2 DEF Directory
<1>4. CASE Fail(h, Here(h)) \/ Fail(h, c)
    <2> HIDE DEF c
    <2> QED BY <1>1, <1>2, <1>3, <1>4, FailKeepsInv
<1>5. CASE Pass(h, c, "translate")
    <2> HIDE DEF c
    <2>1. pc'[h] = "translate" /\ Here(h)' = c /\ Wanted(h)' = Wanted(h)
        BY <1>1, <1>3, <1>5, Passed
    <2>2. ASSUME arg[h].iter \notin intruded
          PROVE  c.manifest = "none" /\ ArtifactsInv(h)'
        <3>1. OwnInv(h) /\ ArtifactsInv(h)
            BY <1>1, <2>2, AtStage
        <3> QED
            BY <1>1, <1>3, <2>1, <3>1 DEF ArtifactsInv, OwnInv
    <2>3. "translate" \in Steps \ {"off", "check", "copy"} /\ failed' \in SUBSET Harnesses
        BY <1>1, <1>2 DEF Steps, TypeOK
    <2>4. arg[h].edit # "resize-plane"
        BY <1>1, <1>2 DEF RunInv, Working, Inside
    <2> QED
        BY <1>1, <1>2, <1>3, <1>5, <2>2, <2>3, <2>4, QuietPass
<1> QED
    BY <1>4, <1>5 DEF Export

\* The EDB is made from the XML.
LEMMA TranslateKeepsInv ==
    ASSUME Inv, NEW h \in Harnesses, Translate(h)
    PROVE  Inv'
<1>1. Inside(h) /\ pc[h] = "translate" /\ UNCHANGED <<judged, intruded, failed>>
    BY DEF Translate, Inside
<1>2. /\ Here(h) \in Directory /\ TypeOK /\ RunInv(h) /\ Here(h).design # None
    BY <1>1, AtStage
<1>3. ASSUME NEW left \in {None, Here(h).xml}
      PROVE  LET c == [Here(h) EXCEPT !.aedb = left] IN
             /\ c \in Directory /\ c.verdict = Here(h).verdict /\ c.design = Here(h).design
             /\ c.xml = Here(h).xml /\ c.aedb = left /\ c.snp = Here(h).snp
             /\ c.judge = Here(h).judge /\ c.manifest = Here(h).manifest
    BY <1>2 DEF Directory, File
<1>4. CASE \E left \in {None, Here(h).xml} : Fail(h, [Here(h) EXCEPT !.aedb = left])
    <2> PICK left \in {None, Here(h).xml} : Fail(h, [Here(h) EXCEPT !.aedb = left])
        BY <1>4
    <2> QED
        BY <1>1, <1>2, <1>3, FailKeepsInv
<1>5. CASE Pass(h, [Here(h) EXCEPT !.aedb = Here(h).xml], "solver")
    <2> DEFINE c == [Here(h) EXCEPT !.aedb = Here(h).xml]
    <2>1. /\ c \in Directory /\ c.verdict = Here(h).verdict /\ c.design = Here(h).design
          /\ c.xml = Here(h).xml /\ c.aedb = Here(h).xml /\ c.snp = Here(h).snp
          /\ c.judge = Here(h).judge /\ c.manifest = Here(h).manifest
          /\ Pass(h, c, "solver")
        BY <1>3, <1>5
    <2> HIDE DEF c
    <2>2. pc'[h] = "solver" /\ Here(h)' = c /\ Wanted(h)' = Wanted(h)
        BY <1>1, <2>1, Passed
    <2>3. ASSUME arg[h].iter \notin intruded
          PROVE  c.manifest = "none" /\ ArtifactsInv(h)'
        <3>1. OwnInv(h) /\ ArtifactsInv(h)
            BY <1>1, <2>3, AtStage
        <3> QED
            BY <1>1, <2>1, <2>2, <3>1 DEF ArtifactsInv, OwnInv
    <2>4. "solver" \in Steps \ {"off", "check", "copy"} /\ failed' \in SUBSET Harnesses
        BY <1>1, <1>2 DEF Steps, TypeOK
    <2>5. arg[h].edit # "resize-plane"
        BY <1>1, <1>2 DEF RunInv, Working, Inside
    <2> QED
        BY <1>1, <1>2, <2>1, <2>3, <2>4, <2>5, QuietPass
<1> QED
    BY <1>4, <1>5 DEF Translate

\* The touchstone is the one of this solve, since there was none before.
LEMMA SolveKeepsInv ==
    ASSUME Inv, NEW h \in Harnesses, Solve(h)
    PROVE  Inv'
<1>1. Inside(h) /\ pc[h] = "solver" /\ UNCHANGED <<judged, intruded, failed>>
    BY DEF Solve, Inside
<1>2. /\ Here(h) \in Directory /\ TypeOK /\ RunInv(h) /\ Here(h).design # None
    BY <1>1, AtStage
<1> PICK newest \in {Here(h).snp, Here(h).aedb} :
        LET c == [Here(h) EXCEPT !.snp = newest] IN
        Fail(h, c) \/ (newest # None /\ Pass(h, c, "analyze"))
    BY DEF Solve
<1> DEFINE c == [Here(h) EXCEPT !.snp = newest]
<1>3. /\ c \in Directory /\ c.verdict = Here(h).verdict /\ c.design = Here(h).design
      /\ c.xml = Here(h).xml /\ c.aedb = Here(h).aedb /\ c.snp = newest
      /\ c.judge = Here(h).judge /\ c.manifest = Here(h).manifest
      /\ Fail(h, c) \/ (newest # None /\ Pass(h, c, "analyze"))
    BY <1>2 DEF Directory
<1> HIDE DEF c
<1>4. CASE Fail(h, c)
    BY <1>1, <1>2, <1>3, <1>4, FailKeepsInv
<1>5. CASE newest # None /\ Pass(h, c, "analyze")
    <2>1. pc'[h] = "analyze" /\ Here(h)' = c /\ Wanted(h)' = Wanted(h)
        BY <1>1, <1>3, <1>5, Passed
    <2>2. ASSUME arg[h].iter \notin intruded
          PROVE  c.manifest = "none" /\ ArtifactsInv(h)'
        <3>1. OwnInv(h) /\ ArtifactsInv(h)
            BY <1>1, <2>2, AtStage
        <3>2. newest = Wanted(h)
            BY <1>1, <1>5, <3>1 DEF ArtifactsInv
        <3> QED
            BY <1>1, <1>3, <2>1, <3>1, <3>2 DEF ArtifactsInv, OwnInv
    <2>3. "analyze" \in Steps \ {"off", "check", "copy"} /\ failed' \in SUBSET Harnesses
        BY <1>1, <1>2 DEF Steps, TypeOK
    <2>4. arg[h].edit # "resize-plane"
        BY <1>1, <1>2 DEF RunInv, Working, Inside
    <2> QED
        BY <1>1, <1>2, <1>3, <1>5, <2>2, <2>3, <2>4, QuietPass
<1> QED
    BY <1>3, <1>4, <1>5

\* The verdict is that of the solve, and the first in its directory.
LEMMA AnalyzeKeepsInv ==
    ASSUME Inv, NEW h \in Harnesses, Analyze(h)
    PROVE  Inv'
<1> DEFINE next == Analyzed(h)
<1>1. Inside(h) /\ pc[h] = "analyze" /\ UNCHANGED <<judged, intruded>> /\ Goto(h, next)
    BY DEF Analyze, Inside
<1>2. /\ Here(h) \in Directory /\ TypeOK /\ RunInv(h) /\ Here(h).design # None
      /\ arg[h].iter \in Iters
    BY <1>1, AtStage
<1>3. /\ next \in {"judge", "finish"}
      /\ next = "judge" => arg[h].base # None
      /\ next \in Steps \ {"off", "check", "copy"}
      /\ arg[h].edit # "resize-plane"
      /\ failed' \in SUBSET Harnesses
    BY <1>1, <1>2 DEF Analyze, Analyzed, Steps, RunInv, Working, Inside, TypeOK
<1>4. ASSUME NEW c \in Directory, Writes(h, c),
             c.verdict = Here(h).verdict \/ (c.verdict # None /\ c.verdict.of = Here(h).snp),
             c.design = Here(h).design, c.xml = Here(h).xml, c.snp = Here(h).snp,
             c.judge = Here(h).judge, c.manifest = Here(h).manifest
      PROVE  Inv'
    <2> HIDE DEF next
    <2>1. Pass(h, c, next)
        BY <1>1, <1>4 DEF Pass
    <2>2. pc'[h] = next /\ Here(h)' = c /\ Wanted(h)' = Wanted(h)
        BY <1>1, <2>1, Passed
    <2>3. ASSUME arg[h].iter \notin intruded
          PROVE  c.manifest = "none" /\ Here(h).verdict = None /\ ArtifactsInv(h)'
        <3>1. OwnInv(h) /\ ArtifactsInv(h)
            BY <1>1, <2>3, AtStage
        <3>2. c.manifest = "none" /\ Here(h).verdict = None
            BY <1>1, <1>4, <3>1 DEF ArtifactsInv, OwnInv
        <3>3. ArtifactsInv(h)'
            BY <1>1, <1>3, <1>4, <2>2, <3>1, <3>2 DEF ArtifactsInv
        <3> QED BY <3>2, <3>3
    <2> QED
        BY <1>1, <1>2, <1>3, <1>4, <2>1, <2>3, QuietPass
<1>5. CASE UNCHANGED dir
    <2>1. Writes(h, Here(h))
        BY <1>2, <1>5 DEF Writes, Here, TypeOK
    <2> QED BY <1>2, <1>4, <2>1
<1>6. CASE \E v \in Verdict : v.of = Here(h).snp /\ Writes(h, [Here(h) EXCEPT !.verdict = v])
    <2> PICK v \in Verdict : v.of = Here(h).snp /\ Writes(h, [Here(h) EXCEPT !.verdict = v])
        BY <1>6
    <2> DEFINE c == [Here(h) EXCEPT !.verdict = v]
    <2>1. v # None
        BY NoneAssumption
    <2>2. /\ c \in Directory /\ c.verdict = v /\ Writes(h, c)
          /\ c.design = Here(h).design /\ c.xml = Here(h).xml /\ c.snp = Here(h).snp
          /\ c.judge = Here(h).judge /\ c.manifest = Here(h).manifest
        BY <1>2 DEF Directory
    <2> HIDE DEF c
    <2> QED
        BY <1>4, <2>1, <2>2
<1> QED
    BY <1>1, <1>5, <1>6 DEF Analyze

\* The referee's 0 is backed by the two verdicts it read.
LEMMA JudgeKeepsInv ==
    ASSUME Inv, NEW h \in Harnesses, Judge(h)
    PROVE  Inv'
<1> DEFINE before == dir[arg[h].base].verdict
           after  == Here(h).verdict
           j      == JudgementOf(before, after)
           found  == before # None /\ after # None
<1>1. /\ Inside(h) /\ pc[h] = "judge" /\ Goto(h, "finish") /\ UNCHANGED intruded
      /\ failed' \in {failed, failed \cup {h}}
    BY DEF Judge, Inside
<1>2. /\ Here(h) \in Directory /\ TypeOK /\ RunInv(h) /\ Here(h).design # None
      /\ arg[h].iter \in Iters
    BY <1>1, AtStage
<1>3. arg[h].base \in Iters
    BY <1>1, <1>2, HasCommand DEF RunInv
<1>4. ASSUME NEW c \in Directory, Writes(h, c), NEW word \in Outcomes,
             judged' = [judged EXCEPT ![h] = word],
             \/ word # "0" /\ c = Here(h)
             \/ /\ found
                /\ word = IF j.fixed /\ ~j.regressed THEN "0" ELSE "1"
                /\ c = [Here(h) EXCEPT !.judge = j]
      PROVE  Inv'
    <2>1. Pass(h, c, "finish")
        BY <1>1, <1>4 DEF Pass
    <2>2. /\ pc'[h] = "finish" /\ Here(h)' = c /\ Wanted(h)' = Wanted(h)
          /\ UNCHANGED <<arg, exit>>
        BY <1>1, <1>4, <2>1, Passed DEF Goto
    <2>3. /\ c.verdict = Here(h).verdict /\ c.design = Here(h).design /\ c.xml = Here(h).xml
          /\ c.snp = Here(h).snp /\ c.manifest = Here(h).manifest
        BY <1>2, <1>4 DEF Directory
    <2>4. /\ judged' \in [Harnesses -> Outcomes] /\ judged'[h] = word
          /\ \A g \in Harnesses \ {h} : judged'[g] = judged[g]
          /\ failed' \in SUBSET Harnesses
        BY <1>1, <1>2, <1>4 DEF TypeOK, Outcomes
    <2>5. RunInv(h)'
        BY <1>1, <1>2, <2>2 DEF RunInv, Working, Inside
    <2>6. dir'[arg[h].base].verdict = before
        BY <1>1, <1>3, <1>4, <2>3, Written DEF Here
    <2>7. ASSUME arg[h].iter \notin intruded
          PROVE  c.manifest = "none" /\ ArtifactsInv(h)' /\ JudgedInv(h)'
        <3>1. OwnInv(h) /\ ArtifactsInv(h)
            BY <1>1, <2>7, AtStage
        <3>2. c.manifest = "none" /\ ArtifactsInv(h)'
            BY <1>1, <2>2, <2>3, <3>1 DEF ArtifactsInv, OwnInv
        <3>3. ASSUME word = "0" PROVE Proof(h)'
            <4>1. /\ found /\ j.fixed /\ ~j.regressed
                  /\ c = [Here(h) EXCEPT !.judge = j]
                BY <1>4, <3>3
            <4>2. after \in Verdict /\ before \in Verdict
                BY <1>2, <1>3, <4>1 DEF Directory, TypeOK
            <4>3. ~before.mask_pass /\ after.mask_pass /\ after.gate
                BY <4>1 DEF JudgementOf
            <4>4. after = [of |-> Wanted(h), mask_pass |-> TRUE, gate |-> TRUE]
                BY <3>1, <4>1, <4>2, <4>3 DEF ArtifactsInv, Verdict
            <4>5. j = [fixed |-> TRUE, regressed |-> FALSE]
                BY <4>2, <4>3 DEF JudgementOf, Verdict
            <4>6. c.judge = j
                BY <1>2, <4>1 DEF Directory
            <4> QED
                BY <2>2, <2>3, <2>6, <4>1, <4>3, <4>4, <4>5, <4>6 DEF Proof
        <3> QED
            BY <2>4, <3>2, <3>3 DEF JudgedInv
    <2>8. "finish" \in Steps \ {"off", "check", "copy"}
        BY DEF Steps
    <2> QED
        BY <1>1, <1>2, <2>1, <2>3, <2>4, <2>5, <2>7, <2>8, PassKeepsInv
<1>5. CASE /\ UNCHANGED dir
           /\ judged' \in {[judged EXCEPT ![h] = "1"], [judged EXCEPT ![h] = "2"]}
    <2>1. Writes(h, Here(h))
        BY <1>2, <1>5 DEF Writes, Here, TypeOK
    <2> HIDE DEF j, found
    <2> QED
        BY <1>2, <1>4, <1>5, <2>1 DEF Outcomes
<1>6. CASE /\ found
           /\ judged' = [judged EXCEPT ![h] = IF j.fixed /\ ~j.regressed THEN "0" ELSE "1"]
           /\ Writes(h, [Here(h) EXCEPT !.judge = j])
    <2>1. before \in Verdict /\ after \in Verdict
        BY <1>2, <1>3, <1>6 DEF Directory, TypeOK
    <2>2. j \in Judgement
        BY <2>1 DEF JudgementOf, Judgement, Verdict
    <2>3. [Here(h) EXCEPT !.judge = j] \in Directory
        <3> HIDE DEF j
        <3> QED BY <1>2, <2>2 DEF Directory
    <2> HIDE DEF j, found
    <2> QED
        BY <1>4, <1>6, <2>3 DEF Outcomes
<1> QED
    BY <1>5, <1>6 DEF Judge

\* The manifest closes the directory; an exit with 0 rests on the referee's 0.
LEMMA FinishKeepsInv ==
    ASSUME Inv, NEW h \in Harnesses, Finish(h)
    PROVE  Inv'
<1> DEFINE c == [Here(h) EXCEPT !.manifest = "complete"]
<1>1. Inside(h) /\ pc[h] = "finish" /\ UNCHANGED intruded /\ Writes(h, c)
    BY DEF Finish, Inside
<1>2. /\ Here(h) \in Directory /\ TypeOK /\ RunInv(h) /\ Here(h).design # None
      /\ arg[h] # None /\ arg[h].iter \in Iters
    BY <1>1, AtStage
<1>3. /\ c \in Directory /\ c.manifest = "complete" /\ c.design = Here(h).design
      /\ c.verdict = Here(h).verdict /\ c.judge = Here(h).judge
    BY <1>2 DEF Directory
<1> HIDE DEF c
<1>4. /\ pc' = [pc EXCEPT ![h] = "off"]
      /\ \/ /\ arg[h].base = None \/ judged[h] = "0"
            /\ exit' = [exit EXCEPT ![h] = "0"] /\ UNCHANGED <<arg, judged, failed>>
         \/ /\ arg' = [arg EXCEPT ![h] = None] /\ exit' = [exit EXCEPT ![h] = "1"]
            /\ judged' = [judged EXCEPT ![h] = "none"] /\ failed' = failed \ {h}
    BY DEF Finish, Stop
<1>5. /\ \A g \in Harnesses \ {h} : /\ pc'[g] = pc[g] /\ arg'[g] = arg[g]
                                    /\ judged'[g] = judged[g] /\ exit'[g] = exit[g]
      /\ pc'[h] = "off"
    BY <1>2, <1>4 DEF TypeOK
<1>6. Leaves(h)
    BY <1>1, <1>2, <1>3, <1>5, WriteLeaves
<1>7. dir' \in [Iters -> Directory] /\ dir'[arg[h].iter] = c
      /\ \A i \in Iters \ {arg[h].iter} : dir'[i] = dir[i]
    BY <1>1, <1>3, Written
<1>8. TypeOK'
    BY <1>1, <1>2, <1>4, <1>7 DEF TypeOK, Steps
<1>9. Proven(h)'
    <2> SUFFICES ASSUME exit'[h] = "0", arg'[h].base # None,
                        {arg'[h].iter, arg'[h].base} \cap intruded = {}
                 PROVE  (Here(h).manifest = "complete" /\ Proof(h))'
        BY <1>1 DEF Proven
    <2>1. arg' = arg /\ judged[h] = "0"
        BY <1>2, <1>4 DEF TypeOK
    <2>2. JudgedInv(h)
        BY <1>1, <2>1, AtStage
    <2>3. Proof(h)
        BY <1>1, <2>1, <2>2 DEF JudgedInv
    <2>4. arg[h].base \in Iters
        BY <1>2, <2>1, HasCommand
    <2>5. dir'[arg[h].base].verdict = dir[arg[h].base].verdict
        BY <1>3, <1>7, <2>4 DEF Here
    <2>6. Here(h)' = c /\ Wanted(h)' = Wanted(h)
        BY <1>7, <2>1 DEF Here, Wanted
    <2> QED
        BY <1>3, <2>1, <2>3, <2>5, <2>6 DEF Proof
<1>10. Own(h)'
    BY <1>2, <1>4, <1>5, <1>9 DEF Own, RunInv, Inside, Working, TypeOK
<1> QED
    BY <1>6, <1>8, <1>10, OneSteps

\* A step that changes nothing keeps the invariant.
LEMMA StutterKeepsInv ==
    ASSUME Inv, UNCHANGED vars
    PROVE  Inv'
BY DEF vars, Inv, TypeOK, FixIsProven, Proof, RunInv, OwnInv, ArtifactsInv, JudgedInv,
       Inside, Working, Here, Wanted

\* The invariant is inductive.
LEMMA InvNext == Inv /\ [Next]_vars => Inv'
<1> SUFFICES ASSUME Inv, [Next]_vars PROVE Inv'
    OBVIOUS
<1>1. CASE UNCHANGED vars
    BY <1>1, StutterKeepsInv
<1>2. CASE Next
    <2> PICK h \in Harnesses : (\E a \in Commands : Start(h, a)) \/ Kill(h) \/ Stage(h)
        BY <1>2 DEF Next
    <2>1. CASE (\E a \in Commands : Start(h, a)) \/ Kill(h)
        BY <2>1, StartOrKill
    <2>2. CASE Stage(h)
        BY <2>2, CheckDirKeepsInv, CopyDesignKeepsInv, EditSessionKeepsInv,
           VerifySessionKeepsInv, ExportKeepsInv, TranslateKeepsInv, SolveKeepsInv,
           AnalyzeKeepsInv, JudgeKeepsInv, FinishKeepsInv
           DEF Stage
    <2> QED BY <2>1, <2>2
<1> QED BY <1>1, <1>2

(* ---------------------------------------------------------------------- *)
(* What is never overwritten.                                             *)

\* new holds the evidence that old does.
Extended(old, new) ==
    /\ old.xml # None => new.xml = old.xml /\ new.design = old.design
    /\ old.snp # None => new.snp = old.snp
    /\ old.verdict # None => new.verdict = old.verdict
    /\ old.judge # None => new.judge = old.judge

\* A stage of h writes at most to its own directory, and only adds to it.
WritesMore(h) ==
    /\ UNCHANGED intruded
    /\ \E c \in Directory :
          Writes(h, c) /\ (arg[h].iter \notin intruded => Extended(Here(h), c))

\* The part of EvidenceIsKept that is about one step.
Kept ==
    \A i \in Iters \ intruded' :
        /\ \A f \in {"xml", "snp", "verdict", "judge"} :
              dir[i][f] # None => dir'[i][f] = dir[i][f]
        /\ dir[i].xml # None => dir'[i].design = dir[i].design
        /\ dir[i].manifest # "none" => dir'[i] = dir[i]

\* Adding to a directory keeps the evidence in it: the one who writes is alone
\* there, and there is no manifest yet.
LEMMA MoreIsKept ==
    ASSUME Inv, NEW h \in Harnesses, Inside(h), WritesMore(h)
    PROVE  Kept
<1> PICK c \in Directory :
        Writes(h, c) /\ (arg[h].iter \notin intruded => Extended(Here(h), c))
    BY DEF WritesMore
<1>1. /\ arg[h].iter \in Iters /\ dir'[arg[h].iter] = c
      /\ \A i \in Iters \ {arg[h].iter} : dir'[i] = dir[i]
    BY Written
<1>2. ASSUME arg[h].iter \notin intruded
      PROVE  Extended(dir[arg[h].iter], c) /\ dir[arg[h].iter].manifest = "none"
    BY <1>2, AtStage DEF OwnInv, Here
<1>3. UNCHANGED intruded
    BY DEF WritesMore
<1> QED
    BY <1>1, <1>2, <1>3 DEF Kept, Extended

\* The edit and its verification: nothing has been exported yet.
LEMMA EditWritesMore ==
    ASSUME Inv, NEW h \in Harnesses, CopyDesign(h) \/ EditSession(h) \/ VerifySession(h)
    PROVE  WritesMore(h)
<1>1. pc[h] \in {"copy", "edit", "verify"} /\ Inside(h) /\ UNCHANGED intruded
    BY DEF CopyDesign, EditSession, VerifySession, Inside
<1>2. /\ Here(h) \in Directory /\ arg[h].edit \in IterEdits
      /\ TypeOK /\ RunInv(h)
    BY <1>1, AtStage
<1>3. arg[h].iter \notin intruded =>
          Here(h).xml = None /\ Here(h).snp = None /\ Here(h).verdict = None
          /\ Here(h).judge = None
    BY <1>1, AtStage DEF OwnInv, ArtifactsInv, Empty
<1>4. ASSUME NEW c \in Directory, Writes(h, c) PROVE WritesMore(h)
    BY <1>1, <1>3, <1>4 DEF WritesMore, Extended
<1>5. CASE CopyDesign(h)
    <2>1. [Here(h) EXCEPT !.design = Delivered] \in Directory
        BY <1>2, DeliveredAssumption DEF Directory, File
    <2> QED BY <1>4, <1>5, <2>1 DEF CopyDesign
<1>6. ASSUME NEW content \in Directory, Fail(h, content) PROVE WritesMore(h)
    <2>1. [content EXCEPT !.manifest = "failed"] \in Directory
        BY DEF Directory
    <2> QED BY <1>4, <1>6, <2>1 DEF Fail
<1>7. CASE EditSession(h)
    <2>1. CASE Fail(h, Here(h))
        BY <1>2, <1>6, <2>1
    <2>2. ASSUME arg[h].edit # "resize-plane",
                 NEW job \in Job(arg[h].edit, Here(h).design)
                             \cup PartOfJob(arg[h].edit, Here(h).design),
                 NEW saved \in {Here(h).design, job.db},
                 \/ \E lock \in BOOLEAN :
                       Fail(h, [Here(h) EXCEPT !.design = saved, !.lck = @ \/ lock])
                 \/ Pass(h, [Here(h) EXCEPT !.design = saved], "verify")
          PROVE  WritesMore(h)
        <3>1. arg[h].edit \in Edits /\ Here(h).design \in Design
            BY <1>1, <1>2, <1>7, <2>2, AtStage
               DEF EditSession, RunInv, IterEdits, Edits, Directory, File
        <3>2. saved \in Design
            BY <2>2, <3>1, JobType
        <3>3. /\ [Here(h) EXCEPT !.design = saved] \in Directory
              /\ \A lock \in BOOLEAN :
                    [Here(h) EXCEPT !.design = saved, !.lck = @ \/ lock] \in Directory
            BY <1>2, <3>2 DEF Directory, File
        <3> QED BY <1>4, <1>6, <2>2, <3>3 DEF Pass
    <2> QED BY <1>7, <2>1, <2>2 DEF EditSession
<1>8. CASE VerifySession(h)
    <2>1. \A lock \in BOOLEAN : [Here(h) EXCEPT !.lck = @ \/ lock] \in Directory
        BY <1>2 DEF Directory
    <2> QED BY <1>2, <1>4, <1>6, <1>8, <2>1 DEF VerifySession, Pass
<1> QED BY <1>5, <1>7, <1>8

\* Export, translation and solve: each finds what it makes missing.
LEMMA SolveWritesMore ==
    ASSUME Inv, NEW h \in Harnesses, Export(h) \/ Translate(h) \/ Solve(h)
    PROVE  WritesMore(h)
<1>1. pc[h] \in {"export", "translate", "solver"} /\ Inside(h) /\ UNCHANGED intruded
    BY DEF Export, Translate, Solve, Inside
<1>2. Here(h) \in Directory
    BY <1>1, AtStage
<1>3. arg[h].iter \notin intruded =>
          /\ pc[h] = "export" => Here(h).xml = None
          /\ Here(h).snp = None /\ Here(h).verdict = None /\ Here(h).judge = None
    BY <1>1, AtStage DEF ArtifactsInv
<1>4. ASSUME NEW c \in Directory, Fail(h, c) \/ \E next : Pass(h, c, next),
             c.design = Here(h).design,
             pc[h] # "export" => c.xml = Here(h).xml
      PROVE  WritesMore(h)
    <2>1. CASE Fail(h, c)
        <3> DEFINE d == [c EXCEPT !.manifest = "failed"]
        <3>1. d \in Directory /\ d.design = c.design /\ d.xml = c.xml /\ Writes(h, d)
            BY <2>1 DEF Directory, Fail
        <3> HIDE DEF d
        <3> QED BY <1>1, <1>3, <1>4, <3>1 DEF WritesMore, Extended
    <2>2. CASE \E next : Pass(h, c, next)
        BY <1>1, <1>3, <1>4, <2>2 DEF WritesMore, Extended, Pass
    <2> QED BY <1>4, <2>1, <2>2
<1>5. CASE Export(h)
    <2> DEFINE c == [Here(h) EXCEPT !.xml = Here(h).design]
    <2>1. c \in Directory /\ c.design = Here(h).design
        BY <1>2 DEF Directory
    <2>2. Fail(h, Here(h)) \/ Fail(h, c) \/ Pass(h, c, "translate")
        BY <1>5 DEF Export
    <2>3. pc[h] = "export"
        BY <1>5 DEF Export
    <2> HIDE DEF c
    <2> QED BY <1>2, <1>4, <2>1, <2>2, <2>3
<1>6. CASE Translate(h)
    <2>1. ASSUME NEW left \in {None, Here(h).xml}
          PROVE  LET c == [Here(h) EXCEPT !.aedb = left] IN
                 c \in Directory /\ c.design = Here(h).design /\ c.xml = Here(h).xml
        BY <1>2 DEF Directory, File
    <2> QED BY <1>4, <1>6, <2>1 DEF Translate
<1>7. CASE Solve(h)
    <2>1. ASSUME NEW newest \in {Here(h).snp, Here(h).aedb}
          PROVE  LET c == [Here(h) EXCEPT !.snp = newest] IN
                 c \in Directory /\ c.design = Here(h).design /\ c.xml = Here(h).xml
        BY <1>2 DEF Directory
    <2> QED BY <1>4, <1>7, <2>1 DEF Solve
<1> QED BY <1>5, <1>6, <1>7

\* Analysis, judgement and manifest: there was no verdict and no judgement.
LEMMA JudgeWritesMore ==
    ASSUME Inv, NEW h \in Harnesses, Analyze(h) \/ Judge(h) \/ Finish(h)
    PROVE  WritesMore(h)
<1>1. pc[h] \in {"analyze", "judge", "finish"} /\ Inside(h) /\ UNCHANGED intruded
    BY DEF Analyze, Judge, Finish, Inside
<1>2. Here(h) \in Directory /\ TypeOK /\ RunInv(h) /\ arg[h].iter \in Iters
    BY <1>1, AtStage
<1>3. arg[h].iter \notin intruded =>
          /\ pc[h] = "analyze" => Here(h).verdict = None
          /\ pc[h] = "judge" => Here(h).judge = None
    BY <1>1, AtStage DEF ArtifactsInv
<1>4. CASE UNCHANGED dir
    <2>1. Writes(h, Here(h))
        BY <1>2, <1>4 DEF Writes, Here, TypeOK
    <2> QED BY <1>1, <1>2, <2>1 DEF WritesMore, Extended
<1>5. CASE pc[h] = "analyze" /\ \E v \in Verdict : Writes(h, [Here(h) EXCEPT !.verdict = v])
    <2> PICK v \in Verdict : Writes(h, [Here(h) EXCEPT !.verdict = v])
        BY <1>5
    <2> DEFINE c == [Here(h) EXCEPT !.verdict = v]
    <2>1. /\ c \in Directory /\ Writes(h, c) /\ c.design = Here(h).design
          /\ c.xml = Here(h).xml /\ c.snp = Here(h).snp /\ c.judge = Here(h).judge
        BY <1>2 DEF Directory
    <2> HIDE DEF c
    <2> QED BY <1>1, <1>3, <1>5, <2>1 DEF WritesMore, Extended
<1>6. CASE pc[h] = "judge" /\ \E j \in Judgement : Writes(h, [Here(h) EXCEPT !.judge = j])
    <2> PICK j \in Judgement : Writes(h, [Here(h) EXCEPT !.judge = j])
        BY <1>6
    <2> DEFINE c == [Here(h) EXCEPT !.judge = j]
    <2>1. /\ c \in Directory /\ Writes(h, c) /\ c.design = Here(h).design
          /\ c.xml = Here(h).xml /\ c.snp = Here(h).snp /\ c.verdict = Here(h).verdict
        BY <1>2 DEF Directory
    <2> HIDE DEF c
    <2> QED BY <1>1, <1>3, <1>6, <2>1 DEF WritesMore, Extended
<1>7. CASE Finish(h)
    <2> DEFINE c == [Here(h) EXCEPT !.manifest = "complete"]
    <2>1. /\ c \in Directory /\ Writes(h, c) /\ c.design = Here(h).design
          /\ c.xml = Here(h).xml /\ c.snp = Here(h).snp /\ c.judge = Here(h).judge
          /\ c.verdict = Here(h).verdict
        BY <1>2, <1>7 DEF Directory, Finish
    <2> HIDE DEF c
    <2> QED BY <1>1, <2>1 DEF WritesMore, Extended
<1>8. CASE Analyze(h)
    BY <1>4, <1>5, <1>8 DEF Analyze
<1>9. CASE Judge(h) /\ ~UNCHANGED dir
    <2> DEFINE before == dir[arg[h].base].verdict
               j      == JudgementOf(before, Here(h).verdict)
    <2>1. /\ pc[h] = "judge" /\ before # None /\ Here(h).verdict # None
          /\ Writes(h, [Here(h) EXCEPT !.judge = j])
        BY <1>9 DEF Judge
    <2>2. arg[h].base \in Iters
        BY <1>2, <2>1, HasCommand DEF RunInv
    <2>3. before \in Verdict /\ Here(h).verdict \in Verdict
        BY <1>2, <2>1, <2>2 DEF Directory, TypeOK
    <2>4. j \in Judgement
        BY <2>3 DEF JudgementOf, Judgement, Verdict
    <2> HIDE DEF j
    <2> QED BY <1>6, <2>1, <2>4
<1> QED BY <1>4, <1>7, <1>8, <1>9

\* No step overwrites evidence.
LEMMA NextKeeps ==
    ASSUME Inv, [Next]_vars
    PROVE  Kept
<1>1. CASE UNCHANGED dir
    BY <1>1 DEF Kept
<1>2. CASE UNCHANGED vars
    BY <1>1, <1>2 DEF vars
<1>3. CASE Next
    <2> PICK h \in Harnesses : (\E a \in Commands : Start(h, a)) \/ Kill(h) \/ Stage(h)
        BY <1>3 DEF Next
    <2>1. CASE (\E a \in Commands : Start(h, a)) \/ Kill(h) \/ CheckDir(h)
        BY <1>1, <2>1 DEF Start, Kill, CheckDir
    <2>2. CASE CopyDesign(h) \/ EditSession(h) \/ VerifySession(h)
        BY <2>2, EditWritesMore, MoreIsKept
           DEF CopyDesign, EditSession, VerifySession, Inside
    <2>3. CASE Export(h) \/ Translate(h) \/ Solve(h)
        BY <2>3, SolveWritesMore, MoreIsKept DEF Export, Translate, Solve, Inside
    <2>4. CASE Analyze(h) \/ Judge(h) \/ Finish(h)
        BY <2>4, JudgeWritesMore, MoreIsKept DEF Analyze, Judge, Finish, Inside
    <2> QED BY <2>1, <2>2, <2>3, <2>4 DEF Stage
<1> QED BY <1>2, <1>3

(* ---------------------------------------------------------------------- *)
(* Theorems.                                                              *)

\* One harness per directory and each artifact made from the one before it, for
\* any number of harnesses, iterations and command lines.
THEOREM InvHolds == Spec => []Inv
BY InitInv, InvNext, PTL DEF Spec

\* A run with a baseline that exits 0 has a fix proved by what is on disk
\* (run_iteration.py's exit code, loop_check's judgement), and it stays proved.
THEOREM FixesAreProven == Spec => []FixIsProven
<1>1. Inv => FixIsProven
    BY DEF Inv
<1> QED BY <1>1, InvHolds, PTL

\* Only the design with the commanded edit in it reaches the solver: an edit that
\* failed, was half saved or was not verified ends the run before.
THEOREM OnlyVerifiedSolved == Spec => []OnlyVerifiedIsSolved
<1>1. Inv => OnlyVerifiedIsSolved
    BY DEF Inv, OnlyVerifiedIsSolved, Working, Inside, ArtifactsInv
<1> QED BY <1>1, InvHolds, PTL

\* What an iteration exported, solved, analyzed and judged is never overwritten,
\* by another run, after a kill or by a second harness that comes in later.
THEOREM EvidenceKept == Spec => EvidenceIsKept
<1>1. Inv /\ [Next]_vars => [Kept]_vars
    BY NextKeeps
<1>2. Spec => [][Kept]_vars
    BY <1>1, InvHolds, PTL DEF Spec
<1> QED BY <1>2 DEF EvidenceIsKept, Kept
=============================================================================
