--------------------------- MODULE ApplyEditProofs ---------------------------
(* What ApplyEdit guarantees for designs with any number of objects at one   *)
(* place: its type invariant, and that an edit which exits 0 is the edit that *)
(* was commanded.  Both rest on the inductive invariant Inv of ApplyEdit.     *)
EXTENDS ApplyEdit, EditJobsProofs

\* An edit whose target was vacant and that passed its verification was made.
LEMMA VerifiedEdit ==
    ASSUME Inv, pc = "verify", before.new = 0,
           NEW n, n = Managed(edit, design), Mentions(Expected(edit), n)
    PROVE  design = Commanded(edit, before)
<1>1. edit \in Edits /\ design \in Design /\ before \in Design
    BY DEF Inv, TypeOK
<1>2. CASE design = Commanded(edit, before)
    BY <1>2
<1>3. CASE edit = "delete-plane" /\ design.new = before.new
    <2>1. design.old = 0
        BY <1>1, <1>3 DEF Mentions, Managed, Expected, Design
    <2> QED
        BY <1>1, <1>3, <2>1 DEF Commanded, Design
<1>4. CASE design = before
    <2>1. CASE edit = "delete-plane"
        BY <1>3, <1>4, <2>1
    <2>2. CASE edit # "delete-plane"
        <3>1. n = 0
            BY <1>4, <2>2 DEF Managed
        <3>2. Expected(edit) = 1
            BY <2>2 DEF Expected
        <3> QED
            BY <3>1, <3>2 DEF Mentions
    <2> QED BY <2>1, <2>2
<1> QED
    BY <1>2, <1>3, <1>4 DEF Inv, EditedInv

\* The invariant holds at the start.
LEMMA InitInv == Init => Inv
<1> SUFFICES ASSUME Init PROVE Inv
    OBVIOUS
<1>1. 0..FirstCopies \subseteq 0..MaxCopies
    BY MaxCopiesAssumption, FirstCopiesAssumption
<1>2. design \in Design /\ before \in Design
    BY <1>1 DEF Init, Design
<1>3. log \in [edit : SUBSET EditLines, verify : SUBSET (0..MaxCopies)]
    BY DEF Init
<1>4. TypeOK
    BY <1>2, <1>3 DEF Init, TypeOK
<1> QED
    BY <1>4 DEF Init, Inv, VerifiedIsCommanded, EditedInv

\* Every step keeps the invariant.
LEMMA InvNext == Inv /\ [Next]_vars => Inv'
<1> SUFFICES ASSUME Inv, [Next]_vars PROVE Inv'
    OBVIOUS
<1>t. TypeOK
    BY DEF Inv
<1>1. ASSUME NEW e \in Edits, Invoke(e) PROVE Inv'
    BY <1>1, <1>t DEF Invoke, Inv, TypeOK, VerifiedIsCommanded, EditedInv
<1>2. CASE CloseHolder
    BY <1>2, <1>t DEF CloseHolder, Inv, TypeOK, VerifiedIsCommanded, EditedInv
<1>3. CASE StraySaves
    <2>1. lck /\ pc \notin {"edit", "verify"} /\ exit # "0"
        BY <1>3 DEF StraySaves, Inv
    <2>2. TypeOK'
        BY <1>3, <1>t DEF StraySaves, TypeOK
    <2> QED
        BY <1>3, <2>1, <2>2 DEF StraySaves, Inv, VerifiedIsCommanded, EditedInv
<1>4. CASE Start
    <2>1. CASE Return("2")
        BY <1>4, <2>1, <1>t DEF Start, Return, Inv, TypeOK, VerifiedIsCommanded, EditedInv
    <2>2. CASE ~lck /\ pc' = "edit" /\ UNCHANGED exit
        BY <1>4, <2>2, <1>t DEF Start, Inv, TypeOK, VerifiedIsCommanded, EditedInv
    <2> QED BY <1>4, <2>1, <2>2 DEF Start
<1>5. CASE EditSession
    <2>1. PICK job \in Job(edit, design) \cup PartOfJob(edit, design) :
              \/ TimesOut("edit", job) /\ Return("1")
              \/ \E rc \in {0, 1} :
                    /\ Ends("edit", job, rc)
                    /\ IF EditAccepted(rc, log'["edit"])
                       THEN pc' = "verify" /\ UNCHANGED exit
                       ELSE Return("1")
        BY <1>5 DEF EditSession
    <2>2. job.db \in Design /\ job.log \in SUBSET EditLines
        BY <1>t, <2>1, JobType DEF TypeOK
    <2>3. ASSUME log' = [log EXCEPT !["edit"] = Unlink(@) \cup job.log]
          PROVE  log'["edit"] = job.log /\ log' \in [edit : SUBSET EditLines,
                                                     verify : SUBSET (0..MaxCopies)]
        BY <1>t, <2>2, <2>3 DEF TypeOK, Unlink
    <2>4. pc = "edit" /\ design = before /\ UNCHANGED <<edit, before>> /\ ~lck /\ stray = None
          /\ exit = "none"
        BY <1>5 DEF EditSession, Inv
    <2>5. CASE TimesOut("edit", job) /\ Return("1")
        <3>1. TypeOK'
            BY <1>t, <2>2, <2>3, <2>4, <2>5 DEF TimesOut, Return, TypeOK
        <3> QED
            BY <2>4, <2>5, <3>1 DEF TimesOut, Return, Inv, VerifiedIsCommanded, EditedInv
    <2>6. ASSUME NEW rc \in {0, 1}, Ends("edit", job, rc),
                 IF EditAccepted(rc, log'["edit"])
                 THEN pc' = "verify" /\ UNCHANGED exit
                 ELSE Return("1")
          PROVE  Inv'
        <3>1. log'["edit"] = job.log
            BY <2>3, <2>6 DEF Ends
        <3>2. TypeOK'
            BY <1>t, <2>2, <2>3, <2>4, <2>6 DEF Ends, Return, TypeOK
        <3>3. CASE EditAccepted(rc, job.log)
            <4>1. \/ edit = "delete-plane" /\ job.db.new = design.new
                  \/ job.db = Commanded(edit, design) /\ (edit = "resize-plane" => design.old = 1)
                BY <1>t, <2>1, <3>3, AcceptedJob DEF TypeOK
            <4>2. EditedInv'
                BY <2>4, <2>6, <4>1 DEF Ends, EditedInv
            <4> QED
                BY <2>4, <2>6, <3>1, <3>2, <3>3, <4>2 DEF Ends, Inv, VerifiedIsCommanded
        <3>4. CASE ~EditAccepted(rc, job.log)
            BY <2>4, <2>6, <3>1, <3>2, <3>4
               DEF Ends, Return, Inv, VerifiedIsCommanded, EditedInv
        <3> QED BY <3>3, <3>4
    <2> QED BY <2>1, <2>5, <2>6
<1>6. CASE VerifySession
    <2>1. PICK lines \in {{Managed(edit, design)}, {}} :
              LET job == [db |-> design, log |-> lines] IN
              \/ TimesOut("verify", job) /\ Return("1")
              \/ \E rc \in {0, 1} :
                    /\ Ends("verify", job, rc)
                    /\ Return(IF VerifyAccepted(edit, rc, log'["verify"]) THEN "0" ELSE "1")
        BY <1>6 DEF VerifySession
    <2> DEFINE job == [db |-> design, log |-> lines]
    <2>2. lines \in SUBSET (0..MaxCopies)
        BY <1>t DEF TypeOK, Managed, Design
    <2>3. ASSUME log' = [log EXCEPT !["verify"] = Unlink(@) \cup job.log]
          PROVE  log'["verify"] = lines /\ log' \in [edit : SUBSET EditLines,
                                                     verify : SUBSET (0..MaxCopies)]
        BY <1>t, <2>2, <2>3 DEF TypeOK, Unlink
    <2>4. pc = "verify" /\ UNCHANGED <<edit, before>> /\ ~lck /\ stray = None
        BY <1>6 DEF VerifySession, Inv
    <2>5. CASE TimesOut("verify", job) /\ Return("1")
        <3>1. TypeOK'
            BY <1>t, <2>3, <2>4, <2>5 DEF TimesOut, Return, TypeOK
        <3> QED
            BY <2>4, <2>5, <3>1 DEF TimesOut, Return, Inv, VerifiedIsCommanded, EditedInv
    <2>6. ASSUME NEW rc \in {0, 1}, Ends("verify", job, rc),
                 Return(IF VerifyAccepted(edit, rc, log'["verify"]) THEN "0" ELSE "1")
          PROVE  Inv'
        <3>1. log'["verify"] = lines /\ design' = design
            BY <2>3, <2>6 DEF Ends
        <3>2. TypeOK'
            BY <1>t, <2>3, <2>4, <2>6 DEF Ends, Return, TypeOK
        <3>3. VerifiedIsCommanded'
            <4> SUFFICES ASSUME exit' = "0", before.new = 0
                         PROVE  design = Commanded(edit, before)
                BY <2>4, <3>1 DEF VerifiedIsCommanded
            <4>1. VerifyAccepted(edit, rc, lines)
                BY <2>6, <3>1 DEF Return
            <4>2. PICK n \in lines : Mentions(Expected(edit), n)
                BY <4>1 DEF VerifyAccepted
            <4>3. n = Managed(edit, design)
                BY <4>2
            <4> QED
                BY <2>4, <4>2, <4>3, VerifiedEdit
        <3> QED
            BY <2>4, <2>6, <3>2, <3>3 DEF Ends, Return, Inv, EditedInv
    <2> QED BY <2>1, <2>5, <2>6
<1>7. CASE UNCHANGED vars
    BY <1>7 DEF vars, Inv, TypeOK, VerifiedIsCommanded, EditedInv
<1> QED
    BY <1>1, <1>2, <1>3, <1>4, <1>5, <1>6, <1>7 DEF Next

\* A session that may still save holds the .lck, and an accepted edit log leaves
\* three designs: inductive, for every bound on the copies of an object.
THEOREM InvHolds == Spec => []Inv
BY InitInv, InvNext, PTL DEF Spec

\* An edit of a vacant place that exits 0 is the edit that was commanded: no old
\* log, half-done job or session left behind by a timeout makes it otherwise.
THEOREM VerifiedEditsAreCommanded == Spec => []VerifiedIsCommanded
<1>1. Inv => VerifiedIsCommanded
    BY DEF Inv
<1> QED
    BY InvHolds, <1>1, PTL
=============================================================================
