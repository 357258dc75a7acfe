------------------------------ MODULE Registry ------------------------------
(***************************************************************************)
(* The model registry of pkgtk (models/registry.py, cli/models.py): client *)
(* processes that share one SQLite file.  A command is a sequence of       *)
(* statements; SQLite makes each statement, and each commit, atomic, and   *)
(* gives the file to one writer at a time from its first INSERT or UPDATE  *)
(* to its commit.  A process may end at any point, which rolls its open    *)
(* transaction back.                                                       *)
(***************************************************************************)
EXTENDS IntakeGate

CONSTANTS
    Keys,        \* (part, rev, corner, model_type) tuples
    Clients,     \* processes that open the registry file
    Files,       \* model files that may be handed to an intake
    Serial,      \* TRUE: nobody starts a command on a key another is working on
    None         \* no client, no key

ASSUME SerialAssumption == Serial \in BOOLEAN
ASSUME NoneAssumption == None \notin Clients \cup Keys
\* The ibischk reports are those of one golden-parser run.
ASSUME FilesAssumption ==
    \A f \in Files : f.kind = "touchstone" \/ (f.kind = "ibis" /\ WellFormedReport(f.report))

VARIABLES
    (* the database *)
    row,         \* row[k]: the committed state and note of k
    writer,      \* the client whose transaction holds the write lock, or None
    (* the clients *)
    pc,          \* pc[c]: what c does next
    call,        \* call[c]: the locals of the command c is executing
    (* history, read by the properties only *)
    wrote,       \* clients whose command has committed something
    overtaken,   \* clients whose key another client changed since they checked it
    vetted       \* keys for which a file was delivered that meets the intake spec
                 \* but, possibly, for the clauses no gate tests

db == <<row, writer>>
history == <<wrote, overtaken, vetted>>
vars == <<row, writer, pc, call, wrote, overtaken, vetted>>

-----------------------------------------------------------------------------

Librarian == INSTANCE Librarian WITH state <- [k \in Keys |-> row[k].state]

States  == Librarian!States
ALLOWED == Librarian!ALLOWED

Notes == {"", "intake passed", "intake pass-with-flags", "intake reject"}
Write == [state : States, note : Notes]

NoRow     == [state |-> "absent", note |-> ""]
Requested == [state |-> "requested", note |-> ""]
Received  == [state |-> "received", note |-> ""]

\* Faulty variant: the decision is stored where the state belongs.
IntakeWriteAsDecision(d) == [state |-> d, note |-> ""]

\* The write an intake with decision d ends with.
IntakeWrite(d) ==
    CASE d = "pass"            -> [state |-> "validated", note |-> "intake passed"]
      [] d = "pass-with-flags" -> [state |-> "received", note |-> "intake pass-with-flags"]
      [] OTHER                 -> [state |-> "received", note |-> "intake reject"]

\* The locals of a command: the write it is about to make, the one it ends with.
NoCall == [cmd |-> "none", key |-> None, verdict |-> "none", step |-> NoRow, final |-> NoRow]

Exists(k) == row[k].state # "absent"

Working(c) == pc[c] \notin {"closed", "idle", "raised"}

\* The write lock is free for c: nobody holds it, or c's own open transaction.
LockFree(c) == writer \in {None, c}

\* pc: "idle" after a command that returned, "raised" after one that raised.
TypeOK ==
    /\ row \in [Keys -> Write \cup {NoRow}]
    /\ writer \in Clients \cup {None}
    /\ pc \in [Clients -> {"closed", "idle", "raised", "insert", "inserted", "gate",
                           "look", "check", "update", "updated"}]
    /\ call \in [Clients -> [cmd : {"none", "add", "transition", "intake"},
                             key : Keys \cup {None},
                             verdict : Decisions \cup {"none"},
                             step : Write \cup {NoRow},
                             final : Write \cup {NoRow}]]
    /\ wrote \in SUBSET Clients
    /\ overtaken \in SUBSET Clients
    /\ vetted \in SUBSET Keys

Init ==
    /\ row = [k \in Keys |-> NoRow]
    /\ writer = None
    /\ pc = [c \in Clients |-> "closed"]
    /\ call = [c \in Clients |-> NoCall]
    /\ wrote = {}
    /\ overtaken = {}
    /\ vetted = {}

-----------------------------------------------------------------------------
(* A process opens the file: _migrate creates the table if it is missing. *)

Open(c) ==
    /\ pc[c] = "closed"
    /\ pc' = [pc EXCEPT ![c] = "idle"]
    /\ UNCHANGED <<db, call, history>>

\* The locals of a command are gone when it ends.
Leave(c, how) ==
    /\ pc' = [pc EXCEPT ![c] = how]
    /\ call' = [call EXCEPT ![c] = NoCall]
    /\ wrote' = wrote \ {c}

\* A process ends: it is done, an exception was not caught, or it was killed.
Exit(c) ==
    /\ pc[c] # "closed"
    /\ Leave(c, "closed")
    /\ writer' = IF writer = c THEN None ELSE writer
    /\ overtaken' = overtaken \ {c}
    /\ UNCHANGED <<row, vetted>>

-----------------------------------------------------------------------------
(* The commands a client can be given. *)

Call(c, k, locals, first) ==
    /\ pc[c] \in {"idle", "raised"}
    /\ Serial => \A d \in Clients : ~(Working(d) /\ call[d].key = k)
    /\ pc' = [pc EXCEPT ![c] = first]
    /\ call' = [call EXCEPT ![c] = locals]
    /\ UNCHANGED <<db, history>>

CallAdd(c, k) == Call(c, k, [NoCall EXCEPT !.cmd = "add", !.key = k], "insert")

CallTransition(c, k, s) ==
    LET w == [state |-> s, note |-> ""] IN
    Call(c, k, [cmd |-> "transition", key |-> k, verdict |-> "none",
                step |-> w, final |-> w], "check")

CallIntake(c, k) == Call(c, k, [NoCall EXCEPT !.cmd = "intake", !.key = k], "gate")

-----------------------------------------------------------------------------
(* The statements of the commands. *)

Goto(c, label) == pc' = [pc EXCEPT ![c] = label] /\ UNCHANGED wrote

\* Faulty variant: INSERT OR REPLACE.
InsertOrReplace(c) ==
    /\ pc[c] = "insert"
    /\ LockFree(c)
    /\ writer' = c
    /\ Goto(c, "inserted")
    /\ UNCHANGED <<row, call, overtaken, vetted>>

\* add: INSERT, refused by the UNIQUE constraint when the key is there.  A
\* refused INSERT leaves the transaction it began open.
Insert(c) ==
    /\ pc[c] = "insert"
    /\ LockFree(c)
    /\ writer' = c
    /\ IF Exists(call[c].key)
       THEN Leave(c, "raised")
       ELSE Goto(c, "inserted") /\ UNCHANGED call
    /\ UNCHANGED <<row, overtaken, vetted>>

\* Faulty variant: an empty note leaves the old one in place.
CommitKeepingNote(c, w) ==
    LET k == call[c].key IN
    /\ row' = [row EXCEPT ![k] =
                  [w EXCEPT !.note = IF w.note = "" THEN row[k].note ELSE w.note]]
    /\ writer' = None
    /\ overtaken' = overtaken

\* COMMIT: w becomes the row of c's key and the write lock is given back.
CommitWrite(c, w) ==
    /\ row' = [row EXCEPT ![call[c].key] = w]
    /\ writer' = None
    /\ overtaken' = {d \in Clients \ {c} :
                        d \in overtaken \/ (pc[d] = "update" /\ call[d].key = call[c].key)}

CommitAdd(c) ==
    /\ pc[c] = "inserted"
    /\ CommitWrite(c, Requested)
    /\ Leave(c, "idle")
    /\ UNCHANGED vetted

\* intake: the gate reads the file and answers v, or raises.
Judge(c, f, v) ==
    /\ IF v = "raise"
       THEN Leave(c, "raised")
       ELSE /\ call' = [call EXCEPT ![c].verdict = v, ![c].final = IntakeWrite(v)]
            /\ Goto(c, "look")
    /\ vetted' = IF MeetsTestedClauses(f) THEN vetted \cup {call[c].key} ELSE vetted

\* intake: the gate runs first, before the key is looked up.
Gate(c) ==
    /\ pc[c] = "gate"
    /\ \E f \in Files : \E v \in Verdicts(f) : Judge(c, f, v)
    /\ UNCHANGED <<db, overtaken>>

\* intake: a requested key is first moved to received, in a commit of its own.
Look(c) ==
    LET state == row[call[c].key].state IN
    /\ pc[c] = "look"
    /\ IF ~Exists(call[c].key)
       THEN Leave(c, "raised")
       ELSE /\ call' = [call EXCEPT ![c].step =
                           IF state = "requested" THEN Received ELSE call[c].final]
            /\ Goto(c, "check")
    /\ UNCHANGED <<db, overtaken, vetted>>

\* Faulty variant: the row is read, the table is not consulted.
CheckExistsOnly(c) ==
    /\ pc[c] = "check"
    /\ IF Exists(call[c].key) THEN Goto(c, "update") /\ UNCHANGED call ELSE Leave(c, "raised")
    /\ UNCHANGED <<db, overtaken, vetted>>

\* transition: the SELECT and the test against ALLOWED.
Check(c) ==
    LET state == row[call[c].key].state IN
    /\ pc[c] = "check"
    /\ IF Exists(call[c].key) /\ call[c].step.state \in ALLOWED[state]
       THEN Goto(c, "update") /\ UNCHANGED call
       ELSE Leave(c, "raised")
    /\ UNCHANGED <<db, overtaken, vetted>>

\* Faulty variant: the UPDATE does not wait for the other writer.
UpdateUnlocked(c) ==
    /\ pc[c] = "update"
    /\ Goto(c, "updated")
    /\ UNCHANGED <<db, call, overtaken, vetted>>

\* transition: the UPDATE, by key alone: the state just read is not in its WHERE.
Update(c) ==
    /\ pc[c] = "update"
    /\ LockFree(c)
    /\ writer' = c
    /\ Goto(c, "updated")
    /\ UNCHANGED <<row, call, overtaken, vetted>>

\* Faulty variant: the command returns without conn.commit().
CommitForgotten(c) ==
    /\ pc[c] = "updated"
    /\ Leave(c, "idle")
    /\ UNCHANGED <<db, overtaken, vetted>>

Commit(c) ==
    /\ pc[c] = "updated"
    /\ CommitWrite(c, call[c].step)
    /\ IF call[c].step = call[c].final
       THEN Leave(c, "idle")
       ELSE /\ call' = [call EXCEPT ![c].step = call[c].final]
            /\ pc' = [pc EXCEPT ![c] = "check"]
            /\ wrote' = wrote \cup {c}
    /\ UNCHANGED vetted

\* Faulty variant: connect() with no timeout waits for the lock for ever.
LockedForever(c) == FALSE

\* SQLite gives up on a lock another client holds for longer than the default
\* timeout of connect(): the statement raises "database is locked", also in the
\* second transition of an intake.
Locked(c) ==
    /\ pc[c] \in {"insert", "update"}
    /\ ~LockFree(c)
    /\ Leave(c, "raised")
    /\ overtaken' = overtaken \ {c}
    /\ UNCHANGED <<db, vetted>>

-----------------------------------------------------------------------------

Run(c) ==
    \/ Insert(c) \/ CommitAdd(c)
    \/ Gate(c) \/ Look(c) \/ Check(c) \/ Update(c) \/ Commit(c) \/ Locked(c)

Ask(c) == \E k \in Keys :
    \/ CallAdd(c, k)
    \/ CallIntake(c, k)
    \/ \E s \in States : CallTransition(c, k, s)

Next == \E c \in Clients : Open(c) \/ Exit(c) \/ Ask(c) \/ Run(c)

\* A started command is straight-line code: it keeps running unless it is killed.
Fairness == \A c \in Clients : WF_vars(Run(c))

Spec == Init /\ [][Next]_vars /\ Fairness

-----------------------------------------------------------------------------
(* Properties. *)

LegalMove(k) ==
    row'[k].state # row[k].state =>
        \/ ~Exists(k) /\ row'[k] = Requested
        \/ Exists(k) /\ row'[k].state \in ALLOWED[row[k].state]

\* A committed change of state is legal, unless another client's commit on the
\* same key fell between this client's check (transition's SELECT) and its
\* UPDATE: the unguarded window is that one, whatever else is interleaved,
\* rolled back or locked out.
IllegalNeedsRace ==
    [][\A k \in Keys :
          \/ LegalMove(k)
          \/ \E c \in overtaken : pc[c] = "updated" /\ call[c].key = k]_vars

\* The note and the state of a row were written together by one client: a row
\* noted "intake passed" is validated, and a file was delivered for its key that
\* meets every clause of the intake spec but, possibly, the two of Untested; a row
\* noted as flagged or rejected is held at received.
NoteFits(w, k) ==
    /\ w.note = "intake passed" => w.state = "validated" /\ k \in vetted
    /\ w.note \in {"intake reject", "intake pass-with-flags"} => w.state = "received"

NotesTellTheState == \A k \in Keys : NoteFits(row[k], k)

\* A key in the registry stays there through every restart, and of the clients
\* that add the same key at most one is told it succeeded.
RowsAreKept ==
    [][\A k \in Keys : Exists(k) =>
          /\ row'[k].state # "absent"
          /\ \A c \in Clients : call[c].cmd = "add" /\ call[c].key = k
                                    => pc'[c] # "idle"]_vars

\* Every command comes to an end, also when another client sits on the write
\* lock (a refused add leaves its transaction open).
CommandsReturn == \A c \in Clients : Working(c) ~> ~Working(c)

\* As long as no two commands overlap on a key, the registry is the abstract
\* librarian: every commit is one legal move, crashes included.
RefinesLibrarian == Librarian!Spec

\* As long as no two commands overlap on a key, one that returns leaves what was
\* asked for: an add a new row, a transition its state, an intake the state and the
\* note of its gate's verdict.  One that raises has changed nothing, in the step and
\* before it, with one exception: an intake that another client's lock shut out of
\* its second write leaves its key at received, without a word of the verdict.
CommandContract ==
    [][\A c \in Clients : Working(c) =>
          LET after == row'[call[c].key] IN
          /\ pc'[c] = "raised" =>
                /\ UNCHANGED row
                /\ c \in wrote => ~LockFree(c) /\ call[c].cmd = "intake" /\ after = Received
          /\ pc'[c] = "idle" =>
                CASE call[c].cmd = "add"        -> after = Requested
                  [] call[c].cmd = "transition" -> after = call[c].final
                  [] call[c].cmd = "intake"     -> after = IntakeWrite(call[c].verdict)]_vars

(***************************************************************************)
(* The inductive invariant.                                                *)
(***************************************************************************)

\* The statements at which a command holds a write it has not committed.
Writing(c) == pc[c] \in {"check", "update", "updated"}

\* What the locals of a command hold at each of its statements.
LocalsInv(c) ==
    /\ IF Working(c) THEN call[c].key \in Keys ELSE call[c] = NoCall
    /\ pc[c] \in {"insert", "inserted"} <=> call[c].cmd = "add"
    /\ pc[c] \in {"gate", "look"} => call[c].cmd = "intake"
    /\ Writing(c) => call[c].cmd \in {"transition", "intake"} /\ call[c].step \in Write
    /\ Writing(c) /\ call[c].cmd = "transition" => call[c].step = call[c].final
    /\ pc[c] = "look" \/ (Writing(c) /\ call[c].cmd = "intake") =>
          /\ call[c].verdict \in Decisions
          /\ call[c].final = IntakeWrite(call[c].verdict)
    /\ pc[c] = "look" \/ Writing(c) => NoteFits(call[c].final, call[c].key)
    /\ Writing(c) => call[c].step \in {Received, call[c].final}

\* Who is about to commit holds the write lock; an insert is still possible, and
\* a checked move still legal unless another client's commit overtook it.
LockInv(c) ==
    /\ pc[c] \in {"inserted", "updated"} => writer = c
    /\ pc[c] = "inserted" => ~Exists(call[c].key)
    /\ pc[c] \in {"update", "updated"} /\ c \notin overtaken =>
          /\ Exists(call[c].key)
          /\ call[c].step.state \in ALLOWED[row[call[c].key].state]

\* An intake that has made its first commit is on its second write, and finds
\* the key as it left it if commands do not overlap on a key.
WroteInv(c) ==
    c \in wrote => /\ Writing(c)
                   /\ call[c].cmd = "intake"
                   /\ call[c].step = call[c].final
                   /\ Serial => row[call[c].key] = Received

SerialInv ==
    Serial => /\ overtaken = {}
              /\ \A c, d \in Clients :
                    Working(c) /\ Working(d) /\ call[c].key = call[d].key => c = d

\* The lock is held by whoever commits, what was checked still holds unless it
\* was overtaken, and an interrupted or running intake is between its two
\* commits: the facts the other properties rest on, and they are inductive.
Inv ==
    /\ TypeOK
    /\ NotesTellTheState
    /\ SerialInv
    /\ \A c \in Clients : LocalsInv(c) /\ LockInv(c) /\ WroteInv(c)

\* models/registry.py:3 and docs/models-spec.md: "Illegal transitions raise", so no
\* committed change is ever one that ALLOWED does not hold.
IllegalTransitionsRaise == [][\A k \in Keys : LegalMove(k)]_vars
=============================================================================
