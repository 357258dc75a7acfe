----------------------------- MODULE ApplyEdit ------------------------------
(***************************************************************************)
(* demo/loop/apply_edit.py: one design file, edited by calls of the tool   *)
(* that an agent makes one after the other.  A call runs the edit job in a *)
(* headless session, whose exit saves the design, and then verifies it in  *)
(* a session of its own.  A session that outlives its timeout keeps the    *)
(* design's .lck and may still save what it did.                           *)
(***************************************************************************)
EXTENDS EditJobs

CONSTANTS
    None,          \* no session was left behind
    FirstCopies    \* bound: matches at one place in the design as it was delivered

ASSUME NoneAssumption == None \notin Design
ASSUME FirstCopiesAssumption == FirstCopies \in 0..MaxCopies

VARIABLES
    design,        \* the saved design
    lck,           \* the design's .lck file exists
    stray,         \* the design a session left behind by a timeout may still save
    pc,            \* "idle" between calls, else the next step of the call
    edit,          \* the command of the current or the last call
    exit,          \* the exit code of the last call, "none" before it ends
    log,           \* log[t]: lines of loop_edit.log and of loop_verify.log
    before         \* history: the design when the call looked at its .lck

vars == <<design, lck, stray, pc, edit, exit, log, before>>

Tags == {"edit", "verify"}

TypeOK ==
    /\ design \in Design /\ before \in Design
    /\ lck \in BOOLEAN
    /\ stray \in Design \cup {None}
    /\ pc \in {"idle", "start", "edit", "verify"}
    /\ edit \in Edits
    /\ exit \in {"none", "0", "1", "2"}
    /\ log \in [edit : SUBSET EditLines, verify : SUBSET (0..MaxCopies)]

Init ==
    /\ design \in [old : 0..FirstCopies, new : 0..FirstCopies] /\ before = design
    /\ lck = FALSE
    /\ stray = None
    /\ pc = "idle"
    /\ edit \in Edits
    /\ exit = "none"
    /\ log = [edit |-> {}, verify |-> {}]

-----------------------------------------------------------------------------
(* The agent. *)

Invoke(e) ==
    /\ pc = "idle"
    /\ pc' = "start" /\ edit' = e /\ exit' = "none"
    /\ UNCHANGED <<design, lck, stray, log, before>>

\* The agent closes the holder of the .lck, as the tool tells it to.
CloseHolder ==
    /\ pc = "idle" /\ lck
    /\ lck' = FALSE /\ stray' = None
    /\ UNCHANGED <<design, pc, edit, exit, log, before>>

\* A session left behind comes to its own exit, which saves the design.
StraySaves ==
    /\ stray # None
    /\ design' = stray /\ stray' = None /\ lck' = FALSE
    /\ UNCHANGED <<pc, edit, exit, log, before>>

-----------------------------------------------------------------------------
(* The call. *)

Return(code) == pc' = "idle" /\ exit' = code

\* Faulty variant: the .lck is not looked at.
StartUnchecked ==
    /\ pc = "start"
    /\ Return("2") \/ (pc' = "edit" /\ UNCHANGED exit)
    /\ before' = design
    /\ UNCHANGED <<design, lck, stray, edit, log>>

\* A missing argument and a locked design are usage errors.
Start ==
    /\ pc = "start"
    /\ Return("2") \/ (~lck /\ pc' = "edit" /\ UNCHANGED exit)
    /\ before' = design
    /\ UNCHANGED <<design, lck, stray, edit, log>>

\* Faulty variant: the job log of an earlier call is left in place.
KeepLog(lines) == lines

\* run_headless deletes the log before the session; the job then appends to it.
Unlink(lines) == {}

\* The session of job ends by itself: its exit saves the design, or fails to.
Ends(tag, job, rc) ==
    /\ design' \in {design, job.db}
    /\ log' = [log EXCEPT ![tag] = Unlink(@) \cup job.log]
    /\ UNCHANGED <<lck, stray>>

\* The session is killed at its timeout: the design was saved or not, the .lck
\* may stay, and with it a session that has yet to save.
TimesOut(tag, job) ==
    /\ design' \in {design, job.db}
    /\ log' = [log EXCEPT ![tag] = Unlink(@) \cup job.log]
    /\ \/ UNCHANGED <<lck, stray>>
       \/ lck' = TRUE /\ stray' \in {None, job.db}

\* edit_and_verify, first session.
EditSession ==
    /\ pc = "edit"
    /\ \E job \in Job(edit, design) \cup PartOfJob(edit, design) :
          \/ TimesOut("edit", job) /\ Return("1")
          \/ \E rc \in {0, 1} :
                /\ Ends("edit", job, rc)
                /\ IF EditAccepted(rc, log'["edit"])
                   THEN pc' = "verify" /\ UNCHANGED exit
                   ELSE Return("1")
    /\ UNCHANGED <<edit, before>>

\* edit_and_verify, second session: it opens the saved design afresh, and may
\* stop before it has said anything.
VerifySession ==
    /\ pc = "verify"
    /\ \E lines \in {{Managed(edit, design)}, {}} :
          LET job == [db |-> design, log |-> lines] IN
          \/ TimesOut("verify", job) /\ Return("1")
          \/ \E rc \in {0, 1} :
                /\ Ends("verify", job, rc)
                /\ Return(IF VerifyAccepted(edit, rc, log'["verify"]) THEN "0" ELSE "1")
    /\ UNCHANGED <<edit, before>>

Next ==
    \/ \E e \in Edits : Invoke(e)
    \/ CloseHolder \/ StraySaves
    \/ Start \/ EditSession \/ VerifySession

Spec == Init /\ [][Next]_vars

-----------------------------------------------------------------------------
(* Properties. *)

\* An edit whose target was vacant and that exits 0 is saved exactly as it was
\* commanded, and stays so until the next call: no log of an earlier call, no
\* half-done job and no session left behind by a timeout makes it otherwise.
VerifiedIsCommanded ==
    exit = "0" /\ before.new = 0 => design = Commanded(edit, before)

\* PLAYBOOK.md:71-73: the tool "fails loudly if the shape/via isn't exactly as
\* commanded", so a call that exits 0 leaves exactly the number it commanded.
CountIsExact == exit = "0" => Managed(edit, design) = Expected(edit)

(***************************************************************************)
(* The inductive invariant.                                                *)
(***************************************************************************)

\* What the design can be once the edit job's log was accepted: what was
\* commanded, the design as it was, or a deletion that stopped half-way.
EditedInv ==
    pc = "verify" =>
        \/ design = before
        \/ edit = "delete-plane" /\ design.new = before.new
        \/ design = Commanded(edit, before) /\ (edit = "resize-plane" => before.old = 1)

\* A session that may still save holds the .lck, so a call that got past its
\* start has the design to itself, and so has the next until it is locked out.
\* These facts are inductive and give VerifiedIsCommanded.
Inv ==
    /\ TypeOK
    /\ VerifiedIsCommanded
    /\ stray # None => lck
    /\ pc \in {"edit", "verify"} \/ exit = "0" => ~lck
    /\ pc \in {"start", "edit", "verify"} => exit = "none"
    /\ pc = "edit" => design = before
    /\ EditedInv
=============================================================================
