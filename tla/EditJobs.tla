------------------------------ MODULE EditJobs ------------------------------
(* The SKILL jobs of demo/loop/apply_edit.py: what one headless session does *)
(* to a design and to its job log.  A design is reduced to the numbers the   *)
(* jobs count: the shapes that match the old rectangle, and the shapes or    *)
(* vias at the place the command names.                                      *)
EXTENDS Naturals

CONSTANT MaxCopies     \* bound: shapes or vias at one place

ASSUME MaxCopiesAssumption == MaxCopies \in Nat \ {0}

Design == [old : 0..MaxCopies, new : 0..MaxCopies]

Edits == {"add-plane", "resize-plane", "delete-plane", "add-via"}

\* The lines a job writes: "ok" for RESULT:, "fail" for RESULT: FAIL.
EditLines == {"ok", "fail"}

Created(d) == IF d.new < MaxCopies THEN {[d EXCEPT !.new = d.new + 1]} ELSE {}

\* CREATE_IL, ADDVIA_IL: the object is created, or the call returns nil.
CreateJob(d) ==
    {[db |-> r, log |-> {"ok"}] : r \in Created(d)} \cup {[db |-> d, log |-> {"fail"}]}

\* DELETE_IL deletes every match, and says so one by one.
DeleteJob(d) ==
    {[db |-> [d EXCEPT !.old = 0], log |-> IF d.old = 0 THEN {"fail"} ELSE {"ok"}]}

\* RESIZE_IL deletes every match first, and only then asks if there was one.
ResizeJob(d) ==
    LET gone == [d EXCEPT !.old = 0] IN
    IF d.old = 1 THEN CreateJob(gone) ELSE {[db |-> gone, log |-> {"fail"}]}

Job(e, d) ==
    CASE e \in {"add-plane", "add-via"} -> CreateJob(d)
      [] e = "delete-plane"             -> DeleteJob(d)
      [] e = "resize-plane"             -> ResizeJob(d)

\* A job that stops in the middle: some deletions done, nothing said but the
\* deletions DELETE_IL logs.
PartOfJob(e, d) ==
    IF e \in {"add-plane", "add-via"}
    THEN {[db |-> r, log |-> {}] : r \in Created(d) \cup {d}}
    ELSE {[db |-> [d EXCEPT !.old = n],
           log |-> IF e = "delete-plane" /\ n < d.old THEN {"ok"} ELSE {}] : n \in 0..d.old}

\* What the verification job of e counts, and the count it is held against.
Managed(e, d) == IF e = "delete-plane" THEN d.old ELSE d.new
Expected(e)   == IF e = "delete-plane" THEN 0 ELSE 1

\* The test f"managed_count={expect}" in vlog, on the line that reports n: it
\* looks for a substring, and 10..19 begin with 1.
Mentions(expect, n) == n = expect \/ (expect = 1 /\ n \in 10..19)

\* What a job log must hold for its session to count: the edit, the verification.
EditAccepted(rc, log)      == rc = 0 /\ log # {} /\ "fail" \notin log
VerifyAccepted(e, rc, log) == rc = 0 /\ \E n \in log : Mentions(Expected(e), n)

\* The design e asks for, made from d.
Commanded(e, d) ==
    CASE e \in {"add-plane", "add-via"} -> [d EXCEPT !.new = d.new + 1]
      [] e = "delete-plane"             -> [d EXCEPT !.old = 0]
      [] e = "resize-plane"             -> [old |-> 0, new |-> d.new + 1]
=============================================================================
