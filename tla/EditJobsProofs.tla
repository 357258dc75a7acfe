--------------------------- MODULE EditJobsProofs ---------------------------
(* Facts about the jobs of the edit tool, for any bound on the objects at one *)
(* place, cited by the proofs about the edit tool and the iteration harness.  *)
EXTENDS EditJobs, TLAPS

\* A job, whole or stopped in the middle, leaves a design and a readable log.
LEMMA JobType ==
    ASSUME NEW e \in Edits, NEW d \in Design, NEW job \in Job(e, d) \cup PartOfJob(e, d)
    PROVE  job.db \in Design /\ job.log \in SUBSET EditLines
<1>1. Created(d) \subseteq Design
    BY MaxCopiesAssumption DEF Created, Design
<1>2. ASSUME NEW x \in Design, NEW j \in CreateJob(x)
      PROVE  j.db \in Design /\ j.log \in SUBSET EditLines
    <2>1. Created(x) \subseteq Design
        BY MaxCopiesAssumption DEF Created, Design
    <2> QED
        BY <2>1 DEF CreateJob, EditLines
<1>3. [d EXCEPT !.old = 0] \in Design
    BY MaxCopiesAssumption DEF Design
<1>4. CASE job \in Job(e, d)
    <2>1. CASE e \in {"add-plane", "add-via"}
        BY <1>2, <1>4, <2>1 DEF Job
    <2>2. CASE e = "delete-plane"
        BY <1>3, <1>4, <2>2 DEF Job, DeleteJob, EditLines
    <2>3. CASE e = "resize-plane"
        <3>1. job \in ResizeJob(d)
            BY <1>4, <2>3 DEF Job
        <3>2. CASE d.old = 1
            BY <1>2, <1>3, <3>1, <3>2 DEF ResizeJob
        <3>3. CASE d.old # 1
            BY <1>3, <3>1, <3>3 DEF ResizeJob, EditLines
        <3> QED BY <3>2, <3>3
    <2> QED
        BY <2>1, <2>2, <2>3 DEF Edits
<1>5. CASE job \in PartOfJob(e, d)
    <2>1. CASE e \in {"add-plane", "add-via"}
        BY <1>1, <1>5, <2>1 DEF PartOfJob
    <2>2. CASE e \notin {"add-plane", "add-via"}
        <3>1. PICK n \in 0..d.old :
                  job = [db |-> [d EXCEPT !.old = n],
                         log |-> IF e = "delete-plane" /\ n < d.old THEN {"ok"} ELSE {}]
            BY <1>5, <2>2 DEF PartOfJob
        <3>2. [d EXCEPT !.old = n] \in Design
            BY MaxCopiesAssumption DEF Design
        <3> QED
            BY <3>1, <3>2 DEF EditLines
    <2> QED BY <2>1, <2>2
<1> QED BY <1>4, <1>5

\* A job whose log is accepted did what was commanded; a deletion may have
\* stopped half-way.
LEMMA AcceptedJob ==
    ASSUME NEW e \in Edits, NEW d \in Design, NEW job \in Job(e, d) \cup PartOfJob(e, d),
           NEW rc, EditAccepted(rc, job.log)
    PROVE  \/ e = "delete-plane" /\ job.db.new = d.new
           \/ job.db = Commanded(e, d) /\ (e = "resize-plane" => d.old = 1)
<1>0. job.log # {} /\ "fail" \notin job.log
    BY DEF EditAccepted
<1>1. ASSUME NEW x \in Design, job \in CreateJob(x)
      PROVE  job.db = [x EXCEPT !.new = x.new + 1]
    <2>1. job \in {[db |-> r, log |-> {"ok"}] : r \in Created(x)}
        BY <1>0, <1>1 DEF CreateJob
    <2> QED
        BY <2>1 DEF Created
<1>2. CASE e \in {"add-plane", "add-via"}
    <2>1. job \notin PartOfJob(e, d)
        BY <1>0, <1>2 DEF PartOfJob
    <2>2. job \in CreateJob(d)
        BY <1>2, <2>1 DEF Job
    <2>3. job.db = [d EXCEPT !.new = d.new + 1]
        BY <1>1, <2>2
    <2> QED
        BY <1>2, <2>3 DEF Commanded
<1>3. CASE e = "delete-plane"
    <2>1. CASE job \in Job(e, d)
        BY <1>3, <2>1 DEF Job, DeleteJob, Design
    <2>2. CASE job \in PartOfJob(e, d)
        BY <1>3, <2>2 DEF PartOfJob, Design
    <2> QED BY <1>3, <2>1, <2>2
<1>4. CASE e = "resize-plane"
    <2>1. job \notin PartOfJob(e, d)
        BY <1>0, <1>4 DEF PartOfJob
    <2>2. job \in ResizeJob(d)
        BY <1>4, <2>1 DEF Job
    <2>3. d.old = 1
        BY <1>0, <2>2 DEF ResizeJob
    <2>4. job \in CreateJob([d EXCEPT !.old = 0])
        BY <2>2, <2>3 DEF ResizeJob
    <2>5. [d EXCEPT !.old = 0] \in Design
        BY MaxCopiesAssumption DEF Design
    <2>6. job.db = [[d EXCEPT !.old = 0] EXCEPT !.new = [d EXCEPT !.old = 0].new + 1]
        BY <1>1, <2>4, <2>5
    <2>7. job.db = [old |-> 0, new |-> d.new + 1]
        BY <2>6 DEF Design
    <2> QED
        BY <1>4, <2>3, <2>7 DEF Commanded
<1> QED BY <1>2, <1>3, <1>4 DEF Edits
=============================================================================
