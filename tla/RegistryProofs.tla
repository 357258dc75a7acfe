--------------------------- MODULE RegistryProofs ---------------------------
(***************************************************************************)
(* Proofs about the model registry, for any number of keys, clients and    *)
(* model files.                                                            *)
(***************************************************************************)
EXTENDS Registry, TLAPS

USE DEF States, ALLOWED, Librarian!States, Librarian!ALLOWED

(* ---------------------------------------------------------------------- *)
(* The gates.                                                             *)

\* A gate answers one of the three decisions or raises, whatever the file.
LEMMA VerdictsType == ASSUME NEW f PROVE Verdicts(f) \subseteq Decisions \cup {"raise"}
  BY DEF Verdicts, TsVerdicts, IbisVerdicts, Band, IbisDecision, Decisions

\* A gate passes only a file that meets every clause of the intake spec but,
\* possibly, the two it does not test: the bands, the summary line and the sanity
\* checks leave no other way to "pass".
LEMMA PassMeetsSpec ==
  ASSUME NEW f \in Files, "pass" \in Verdicts(f)
  PROVE  MeetsTestedClauses(f)
<1>1. CASE f.kind = "touchstone"
  <2>1. "pass" \in TsVerdicts(f)
    BY <1>1 DEF Verdicts
  <2>2. /\ f.readable /\ f.pairs # "no" /\ f.finite /\ f.frequencies # "not_increasing"
        /\ "pass" \in {Band(f.sigma)}
    BY <2>1 DEF TsVerdicts
  <2>3. f.sigma <= 1001
    BY <2>2 DEF Band
  <2>4. \A c \in Clauses : TouchstoneFault(f, c) => c \in Untested
    BY <2>2, <2>3 DEF TouchstoneFault, Untested
  <2> QED BY <1>1, <2>4 DEF MeetsTestedClauses, Unmet
<1>2. CASE f.kind # "touchstone"
  <2>0. SUFFICES f.exe /\ ~Tagged(f.report, "ERROR") /\ ~Tagged(f.report, "WARNING")
    BY <1>2 DEF MeetsTestedClauses, Unmet, IbisFault
  <2>1. f.kind = "ibis" /\ WellFormedReport(f.report)
    BY <1>2, FilesAssumption
  <2>2. f.exe /\ "pass" \in {IbisDecision(f.report)}
    BY <1>2 DEF Verdicts, IbisVerdicts
  <2>3. ~AnyErrors(f.report) /\ ~AnyWarnings(f.report)
    BY <2>2 DEF IbisDecision
  <2>4. CASE Summaries(f.report) = {}
    BY <2>2, <2>3, <2>4 DEF AnyErrors, AnyWarnings
  <2>5. CASE Summaries(f.report) # {}
    <3>1. PICK i \in Summaries(f.report) : TRUE
      BY <2>5
    <3>2. \A j \in Summaries(f.report) : j = i
      BY <2>1, <3>1 DEF WellFormedReport
    <3>3. i \in Nat
      BY <2>1, <3>1 DEF WellFormedReport, Summaries
    <3>4. \A j \in Summaries(f.report) : j <= i
      BY <3>2, <3>3
    <3>5. ~(f.report[i].errors > 0) /\ ~(f.report[i].warnings > 0)
      BY <2>3, <3>1, <3>4 DEF AnyErrors, AnyWarnings
    <3> QED BY <2>1, <2>2, <3>1, <3>5 DEF WellFormedReport
  <2> QED BY <2>4, <2>5
<1> QED BY <1>1, <1>2

(* ---------------------------------------------------------------------- *)
(* Type correctness.                                                      *)

\* Every decision of a gate ends in one write, to received or validated.
LEMMA IntakeWriteType ==
  ASSUME NEW v \in Decisions
  PROVE  IntakeWrite(v) \in Write /\ IntakeWrite(v).state \in {"received", "validated"}
  BY DEF IntakeWrite, Decisions, Write, Notes

Rows == Write \cup {NoRow}
Calls == [cmd : {"none", "add", "transition", "intake"}, key : Keys \cup {None},
          verdict : Decisions \cup {"none"}, step : Rows, final : Rows]

\* The empty locals have the type of locals.
LEMMA NoCallType == NoCall \in Calls
  BY DEF NoCall, Calls, Rows

\* The command c begins on k, and what its locals are then.
Begins(c, k, m, first) ==
    /\ Call(c, k, m, first)
    /\ m.key = k
    /\ \/ first = "insert" /\ m.cmd = "add"
       \/ first = "gate" /\ m.cmd = "intake"
       \/ /\ first = "check" /\ m.cmd = "transition"
          /\ m.step = m.final /\ m.step \in Write /\ m.step.note = ""

\* A command begins at its first statement, with its locals filled in.
LEMMA AskBegins ==
  ASSUME NEW c \in Clients, Ask(c)
  PROVE  \E k \in Keys : \E m \in Calls : \E first \in {"insert", "gate", "check"} :
            Begins(c, k, m, first)
<1> USE DEF Calls, Rows
<1> PICK k \in Keys : CallAdd(c, k) \/ CallIntake(c, k)
                        \/ \E s \in States : CallTransition(c, k, s)
  BY DEF Ask
<1>1. CASE CallAdd(c, k)
  <2> DEFINE m == [NoCall EXCEPT !.cmd = "add", !.key = k]
  <2>1. m \in Calls /\ m.key = k /\ m.cmd = "add"
    BY DEF NoCall
  <2>2. Begins(c, k, m, "insert")
    BY <1>1, <2>1 DEF CallAdd, Begins
  <2> QED BY <2>1, <2>2
<1>2. CASE CallIntake(c, k)
  <2> DEFINE m == [NoCall EXCEPT !.cmd = "intake", !.key = k]
  <2>1. m \in Calls /\ m.key = k /\ m.cmd = "intake"
    BY DEF NoCall
  <2>2. Begins(c, k, m, "gate")
    BY <1>2, <2>1 DEF CallIntake, Begins
  <2> QED BY <2>1, <2>2
<1>3. CASE \E s \in States : CallTransition(c, k, s)
  <2> PICK s \in States : CallTransition(c, k, s)
    BY <1>3
  <2> DEFINE w == [state |-> s, note |-> ""]
             m == [cmd |-> "transition", key |-> k, verdict |-> "none",
                   step |-> w, final |-> w]
  <2>1. w \in Write
    BY DEF Write, Notes
  <2>2. m \in Calls /\ Begins(c, k, m, "check")
    BY <2>1 DEF CallTransition, Begins
  <2> QED BY <2>2
<1> QED BY <1>1, <1>2, <1>3

\* What the locals hold at each statement of a command.
Locals(c) ==
    /\ Working(c) => call[c].key \in Keys
    /\ pc[c] = "look" => call[c].final \in Write
    /\ pc[c] \in {"check", "update", "updated"} =>
          call[c].step \in Write /\ call[c].final \in Write

TInv == TypeOK /\ \A c \in Clients : Locals(c)

\* The types, and what the locals hold, are kept by every step.
LEMMA TypeInvariant == Spec => []TInv
<1> USE DEF TInv, Rows, Calls
<1>1. Init => TInv
  BY NoCallType DEF Init, TypeOK, Locals, Working
<1>2. TInv /\ [Next]_vars => TInv'
  <2> SUFFICES ASSUME TInv, [Next]_vars
               PROVE  TInv'
    OBVIOUS
  <2>0. CASE UNCHANGED vars
    BY <2>0 DEF vars, TypeOK, Locals, Working
  <2> SUFFICES ASSUME NEW c \in Clients, Open(c) \/ Exit(c) \/ Ask(c) \/ Run(c)
               PROVE  TInv'
    BY <2>0 DEF Next
  <2>1. CASE Open(c)
    BY <2>1 DEF Open, db, history, TypeOK, Locals, Working
  <2>2. CASE Exit(c)
    BY <2>2, NoCallType DEF Exit, Leave, TypeOK, Locals, Working
  <2>3. CASE Ask(c)
    <3> PICK k \in Keys : \E m \in Calls : \E f \in {"insert", "gate", "check"} : Begins(c, k, m, f)
      BY <2>3, AskBegins
    <3> PICK m \in Calls : \E f \in {"insert", "gate", "check"} : Begins(c, k, m, f)
      OBVIOUS
    <3> PICK f \in {"insert", "gate", "check"} : Begins(c, k, m, f)
      OBVIOUS
    <3> QED BY DEF Begins, Call, db, history, TypeOK, Locals, Working
  <2>4. CASE Run(c)
    <3>1. CASE Insert(c)
      BY <3>1, NoCallType DEF Insert, Leave, Goto, TypeOK, Locals, Working
    <3>2. CASE CommitAdd(c)
      BY <3>2, NoCallType DEF CommitAdd, CommitWrite, Requested, Write, Notes, Leave,
                              TypeOK, Locals, Working
    <3>3. CASE Gate(c)
      <4> PICK f \in Files : \E v \in Verdicts(f) : Judge(c, f, v)
        BY <3>3 DEF Gate
      <4> PICK v \in Verdicts(f) : Judge(c, f, v)
        OBVIOUS
      <4>1. /\ IF v = "raise"
               THEN Leave(c, "raised")
               ELSE /\ call' = [call EXCEPT ![c].verdict = v, ![c].final = IntakeWrite(v)]
                    /\ Goto(c, "look")
            /\ vetted' \in {vetted, vetted \cup {call[c].key}}
        BY DEF Judge
      <4>2. v \in Decisions \cup {"raise"}
        BY VerdictsType
      <4>3. call[c].key \in Keys /\ vetted' \in SUBSET Keys
        BY <3>3, <4>1 DEF Gate, TypeOK, Locals, Working
      <4>4. CASE v = "raise"
        BY <3>3, <4>1, <4>3, <4>4, NoCallType DEF Gate, Leave, db, TypeOK, Locals, Working
      <4>5. CASE v # "raise"
        BY <3>3, <4>1, <4>2, <4>3, <4>5, IntakeWriteType
           DEF Gate, Goto, db, TypeOK, Locals, Working
      <4> QED BY <4>4, <4>5
    <3>4. CASE Look(c)
      <4>1. call[c].key \in Keys /\ call[c].final \in Write /\ Received \in Write
        BY <3>4 DEF Look, Locals, Working, Received, Write, Notes
      <4>2. PICK w \in Write :
              Leave(c, "raised") \/ (call' = [call EXCEPT ![c].step = w] /\ Goto(c, "check"))
        BY <3>4, <4>1 DEF Look
      <4>3. CASE Leave(c, "raised")
        BY <3>4, <4>1, <4>3, NoCallType DEF Look, Leave, db, TypeOK, Locals, Working
      <4>4. CASE call' = [call EXCEPT ![c].step = w] /\ Goto(c, "check")
        BY <3>4, <4>1, <4>4 DEF Look, Goto, db, TypeOK, Locals, Working
      <4> QED BY <4>2, <4>3, <4>4
    <3>5. CASE Check(c)
      BY <3>5, NoCallType DEF Check, Leave, Goto, db, TypeOK, Locals, Working
    <3>6. CASE Update(c)
      BY <3>6 DEF Update, Goto, TypeOK, Locals, Working
    <3>7. CASE Commit(c)
      BY <3>7, NoCallType DEF Commit, CommitWrite, Leave, TypeOK, Locals, Working
    <3>8. CASE Locked(c)
      BY <3>8, NoCallType DEF Locked, Leave, db, TypeOK, Locals, Working
    <3> QED BY <2>4, <3>1, <3>2, <3>3, <3>4, <3>5, <3>6, <3>7, <3>8 DEF Run
  <2> QED BY <2>1, <2>2, <2>3, <2>4
<1> QED BY <1>1, <1>2, PTL DEF Spec

\* The variables of the registry keep their types.
THEOREM TypeCorrect == Spec => []TypeOK
<1>1. TInv => TypeOK
  BY DEF TInv
<1> QED BY <1>1, TypeInvariant, PTL

(* ---------------------------------------------------------------------- *)
(* The invariant.  Each action is taken by one client c: a lemma says what *)
(* it leaves alone of the others, and one per action that it keeps Inv.    *)

\* A step of c changes neither the program counter nor the locals of another
\* client, and puts no other client among those that wrote.
Alone(c) == \A d \in Clients \ {c} :
    /\ pc'[d] = pc[d]
    /\ call'[d] = call[d]
    /\ d \in wrote' <=> d \in wrote

\* A step of c moves only c.
LEMMA StepsAreOwn ==
  ASSUME TypeOK, NEW c \in Clients, Open(c) \/ Exit(c) \/ Ask(c) \/ Run(c)
  PROVE  Alone(c) /\ vetted \subseteq vetted'
<1>1. CASE Open(c)
  BY <1>1 DEF Open, Alone, TypeOK, history
<1>2. CASE Exit(c) \/ Locked(c)
  BY <1>2 DEF Exit, Locked, Leave, Alone, TypeOK
<1>3. CASE Ask(c)
  BY <1>3 DEF Ask, CallAdd, CallIntake, CallTransition, Call, Alone, TypeOK, history
<1>4. CASE Insert(c) \/ CommitAdd(c)
  BY <1>4 DEF Insert, CommitAdd, Leave, Goto, Alone, TypeOK
<1>5. CASE Gate(c)
  BY <1>5 DEF Gate, Judge, Leave, Goto, Alone, TypeOK
<1>6. CASE Look(c) \/ Check(c)
  BY <1>6 DEF Look, Check, Leave, Goto, Alone, TypeOK
<1>7. CASE Update(c) \/ Commit(c)
  BY <1>7 DEF Update, Commit, Leave, Goto, Alone, TypeOK
<1> QED BY <1>1, <1>2, <1>3, <1>4, <1>5, <1>6, <1>7 DEF Run

\* What Inv says of the rows and of the clients other than c.
OthersInv(c) == \A d \in Clients \ {c} : LocalsInv(d) /\ LockInv(d) /\ WroteInv(d)

\* A step of c that changes no row, and takes or frees no lock but c's, keeps it.
LEMMA QuietSteps ==
  ASSUME Inv, NEW c \in Clients, Alone(c), vetted \subseteq vetted', UNCHANGED row,
         UNCHANGED writer \/ writer \in {None, c},
         overtaken' \ {c} = overtaken \ {c}
  PROVE  NotesTellTheState' /\ OthersInv(c)'
<1>1. NotesTellTheState'
  BY DEF Inv, NotesTellTheState, NoteFits
<1>2. SUFFICES ASSUME NEW d \in Clients \ {c}
               PROVE  (LocalsInv(d) /\ LockInv(d) /\ WroteInv(d))'
  BY <1>1 DEF OthersInv
<1>3. pc'[d] = pc[d] /\ call'[d] = call[d] /\ (d \in wrote' <=> d \in wrote)
  BY <1>2 DEF Alone
<1>4. LocalsInv(d) /\ LockInv(d) /\ WroteInv(d)
  BY DEF Inv
<1>5. LocalsInv(d)'
  BY <1>3, <1>4 DEF LocalsInv, Working, Writing, NoteFits
<1>6. LockInv(d)'
  <2>1. d \in overtaken' <=> d \in overtaken
    OBVIOUS
  <2>2. pc[d] \in {"inserted", "updated"} => writer' = d
    BY <1>4, NoneAssumption DEF LockInv
  <2> QED BY <1>3, <1>4, <2>1, <2>2 DEF LockInv, Exists
<1>7. WroteInv(d)'
  BY <1>3, <1>4 DEF WroteInv, Writing
<1> QED BY <1>5, <1>6, <1>7

\* A commit of c keeps it: whoever is about to write the same key is overtaken,
\* and nobody else is past taking the lock.
LEMMA CommitSteps ==
  ASSUME Inv, NEW c \in Clients, Alone(c), UNCHANGED vetted,
         pc[c] \in {"inserted", "updated"},
         NEW w \in Write, CommitWrite(c, w), NoteFits(w, call[c].key)
  PROVE  NotesTellTheState' /\ OthersInv(c)'
<1> DEFINE k == call[c].key
<1>1. k \in Keys /\ row' = [row EXCEPT ![k] = w] /\ writer' = None
  BY DEF Inv, LocalsInv, Working, CommitWrite
<1>2. row \in [Keys -> Write \cup {NoRow}]
  BY DEF Inv, TypeOK
<1>3. NotesTellTheState'
  BY <1>1, <1>2 DEF Inv, NotesTellTheState, NoteFits
<1>4. SUFFICES ASSUME NEW d \in Clients \ {c}
               PROVE  (LocalsInv(d) /\ LockInv(d) /\ WroteInv(d))'
  BY <1>3 DEF OthersInv
<1>5. pc'[d] = pc[d] /\ call'[d] = call[d] /\ (d \in wrote' <=> d \in wrote)
  BY <1>4 DEF Alone
<1>6. LocalsInv(d) /\ LockInv(d) /\ WroteInv(d)
  BY DEF Inv
<1>7. LocalsInv(d)'
  BY <1>5, <1>6 DEF LocalsInv, Working, Writing, NoteFits
<1>8. pc[d] \notin {"inserted", "updated"}
  BY <1>4 DEF Inv, LockInv
<1>9. LockInv(d)'
  <2>1. SUFFICES ASSUME pc[d] = "update", d \notin overtaken'
                 PROVE  row'[call[d].key] = row[call[d].key] /\ d \notin overtaken
    BY <1>5, <1>6, <1>8 DEF LockInv, Exists
  <2>2. call[d].key # k /\ d \notin overtaken
    BY <1>4, <2>1 DEF CommitWrite
  <2>3. call[d].key \in Keys
    BY <1>6, <2>1 DEF LocalsInv, Working
  <2> QED BY <1>1, <1>2, <2>2, <2>3
<1>10. WroteInv(d)'
  <2>1. SUFFICES ASSUME d \in wrote, Serial
                 PROVE  row'[call[d].key] = row[call[d].key]
    BY <1>5, <1>6 DEF WroteInv, Writing
  <2>2. Working(d) /\ Working(c) /\ call[d].key \in Keys
    BY <1>6, <2>1 DEF WroteInv, Writing, Working, LocalsInv
  <2>3. call[d].key # k
    BY <1>4, <2>1, <2>2 DEF Inv, SerialInv
  <2> QED BY <1>1, <1>2, <2>2, <2>3
<1> QED BY <1>7, <1>9, <1>10

\* The invariant holds at the start.
LEMMA InitInv == Init => Inv
<1> SUFFICES ASSUME Init
             PROVE  Inv
  OBVIOUS
<1>1. TypeOK
  BY NoCallType DEF Init, TypeOK, Calls, Rows
<1>2. NotesTellTheState /\ SerialInv
  BY DEF Init, NotesTellTheState, NoteFits, NoRow, SerialInv, Working
<1>3. ASSUME NEW c \in Clients
      PROVE  LocalsInv(c) /\ LockInv(c) /\ WroteInv(c)
  BY DEF Init, LocalsInv, LockInv, WroteInv, Working, Writing, NoCall
<1> QED BY <1>1, <1>2, <1>3 DEF Inv

\* No two commands come to overlap on a key by a step within a command.
LEMMA SerialSteps ==
  ASSUME Inv, NEW c \in Clients, Alone(c), Serial => overtaken' = {},
         Working(c)' => Working(c) /\ call'[c].key = call[c].key
  PROVE  SerialInv'
BY DEF Inv, SerialInv, Working, Alone

\* Under Serial a commit overtakes nobody.
LEMMA SerialCommit ==
  ASSUME Inv, Serial, NEW c \in Clients, NEW w, CommitWrite(c, w), Working(c)
  PROVE  overtaken' = {}
BY DEF Inv, SerialInv, CommitWrite, Working

\* Inv at a client that is not executing a command.
LEMMA AtRest ==
  ASSUME NEW c \in Clients, pc'[c] \in {"closed", "idle", "raised"},
         call'[c] = NoCall, c \notin wrote'
  PROVE  (LocalsInv(c) /\ LockInv(c) /\ WroteInv(c))'
BY DEF LocalsInv, LockInv, WroteInv, Working, Writing, NoCall

\* A command that ends leaves no locals behind.
LEMMA Leaves ==
  ASSUME TypeOK, NEW c \in Clients, NEW how \in {"closed", "idle", "raised"}, Leave(c, how)
  PROVE  pc'[c] = how /\ call'[c] = NoCall /\ c \notin wrote'
BY DEF Leave, TypeOK

\* Every step keeps the invariant, case by case.
LEMMA InvNext ==
  ASSUME Inv, TypeOK', [Next]_vars
  PROVE  Inv'
<1>0. CASE UNCHANGED vars
  <2>1. NotesTellTheState' /\ SerialInv'
    BY <1>0 DEF vars, Inv, NotesTellTheState, NoteFits, SerialInv, Working
  <2>2. ASSUME NEW c \in Clients
        PROVE  (LocalsInv(c) /\ LockInv(c) /\ WroteInv(c))'
    <3>1. LocalsInv(c) /\ LockInv(c) /\ WroteInv(c)
      BY DEF Inv
    <3>2. LocalsInv(c)'
      BY <1>0, <3>1 DEF vars, LocalsInv, Working, Writing, NoteFits
    <3>3. LockInv(c)'
      BY <1>0, <3>1 DEF vars, LockInv, Exists
    <3>4. WroteInv(c)'
      BY <1>0, <3>1 DEF vars, WroteInv, Writing
    <3> QED BY <3>2, <3>3, <3>4
  <2> QED BY <2>1, <2>2 DEF Inv
<1> SUFFICES ASSUME NEW c \in Clients, Open(c) \/ Exit(c) \/ Ask(c) \/ Run(c)
             PROVE  Inv'
  BY <1>0 DEF Next
<1>a. TypeOK /\ Alone(c) /\ vetted \subseteq vetted' /\ LocalsInv(c) /\ LockInv(c) /\ WroteInv(c)
  BY StepsAreOwn DEF Inv
<1>b. SUFFICES /\ NotesTellTheState' /\ OthersInv(c)'
               /\ SerialInv'
               /\ (LocalsInv(c) /\ LockInv(c) /\ WroteInv(c))'
  BY DEF Inv, OthersInv
<1>1. CASE Open(c)
  <2>1. NotesTellTheState' /\ OthersInv(c)'
    BY <1>1, <1>a, QuietSteps DEF Open, db, history
  <2>2. pc'[c] = "idle" /\ ~Working(c) /\ ~Working(c)'
    BY <1>1, <1>a DEF Open, TypeOK, Working
  <2>3. SerialInv'
    BY <1>1, <1>a, <2>2, SerialSteps DEF Open, history, Inv, SerialInv
  <2>4. call'[c] = NoCall /\ c \notin wrote'
    BY <1>1, <1>a, <2>2 DEF Open, history, LocalsInv, WroteInv, Working, Writing
  <2> QED BY <2>1, <2>2, <2>3, <2>4, AtRest
<1>2. CASE Exit(c) \/ Locked(c)
  <2>1. PICK how \in {"closed", "raised"} :
           Leave(c, how) /\ UNCHANGED row /\ overtaken' = overtaken \ {c}
    BY <1>2 DEF Exit, Locked, db
  <2>2. NotesTellTheState' /\ OthersInv(c)'
    BY <1>2, <1>a, <2>1, QuietSteps DEF Exit, Locked, db
  <2>3. pc'[c] = how /\ call'[c] = NoCall /\ c \notin wrote'
    BY <1>a, <2>1, Leaves
  <2>4. SerialInv'
    BY <1>a, <2>1, <2>3, SerialSteps DEF Working, Inv, SerialInv
  <2> QED BY <2>1, <2>2, <2>3, <2>4, AtRest
<1>3. CASE Ask(c)
  <2> PICK k \in Keys : \E m \in Calls : \E f \in {"insert", "gate", "check"} : Begins(c, k, m, f)
    BY <1>3, AskBegins
  <2> PICK locals \in Calls : \E f \in {"insert", "gate", "check"} : Begins(c, k, locals, f)
    OBVIOUS
  <2> PICK first \in {"insert", "gate", "check"} : Begins(c, k, locals, first)
    OBVIOUS
  <2>1. /\ Call(c, k, locals, first)
        /\ locals.key = k
        /\ \/ first = "insert" /\ locals.cmd = "add"
           \/ first = "gate" /\ locals.cmd = "intake"
           \/ /\ first = "check" /\ locals.cmd = "transition"
              /\ locals.step = locals.final /\ locals.step \in Write /\ locals.step.note = ""
    BY DEF Begins
  <2>2. /\ pc[c] \in {"idle", "raised"} /\ pc'[c] = first /\ call'[c] = locals
        /\ UNCHANGED <<row, writer, wrote, overtaken, vetted>>
    BY <1>a, <2>1 DEF Call, TypeOK, db, history
  <2>3. NotesTellTheState' /\ OthersInv(c)'
    BY <1>a, <2>2, QuietSteps
  <2>4. SerialInv'
    <3>1. Serial => \A d \in Clients \ {c} : ~(Working(d) /\ call[d].key = k)
      BY <2>1 DEF Call
    <3>2. SUFFICES ASSUME Serial, NEW d \in Clients, NEW e \in Clients, d # e,
                          Working(d)', Working(e)', call'[d].key = call'[e].key
                   PROVE  FALSE
      BY <1>a, <2>2 DEF Inv, SerialInv
    <3>3. CASE d = c
      BY <1>a, <2>1, <2>2, <3>1, <3>2, <3>3 DEF Working, Alone
    <3>4. CASE e = c
      BY <1>a, <2>1, <2>2, <3>1, <3>2, <3>4 DEF Working, Alone
    <3>5. CASE d # c /\ e # c
      BY <1>a, <3>2, <3>5 DEF Working, Alone, Inv, SerialInv
    <3> QED BY <3>3, <3>4, <3>5
  <2>5. c \notin wrote'
    BY <1>a, <2>2 DEF WroteInv, Working, Writing
  <2>6. LocalsInv(c)'
    BY <2>1, <2>2 DEF LocalsInv, Working, Writing, NoteFits
  <2> QED BY <2>1, <2>2, <2>3, <2>4, <2>5, <2>6 DEF LockInv, WroteInv
<1>4. CASE Insert(c)
  <2>1. /\ UNCHANGED <<row, overtaken, vetted>> /\ writer' = c
        /\ writer \in {None, c} /\ pc[c] = "insert"
    BY <1>4 DEF Insert, LockFree
  <2>2. NotesTellTheState' /\ OthersInv(c)'
    BY <1>a, <2>1, QuietSteps
  <2>3. CASE Leave(c, "raised")
    <3>1. pc'[c] = "raised" /\ call'[c] = NoCall /\ c \notin wrote'
      BY <1>a, <2>3, Leaves
    <3>2. SerialInv'
      BY <1>a, <2>1, <3>1, SerialSteps DEF Working, Inv, SerialInv
    <3> QED BY <2>2, <3>1, <3>2, AtRest
  <2>4. CASE ~Exists(call[c].key) /\ Goto(c, "inserted") /\ UNCHANGED call
    <3>1. pc'[c] = "inserted" /\ UNCHANGED <<call, wrote>>
      BY <1>a, <2>4 DEF Goto, TypeOK
    <3>2. SerialInv'
      BY <1>a, <2>1, <3>1, SerialSteps DEF Working, Inv, SerialInv
    <3>3. (LocalsInv(c) /\ LockInv(c) /\ WroteInv(c))'
      BY <1>a, <2>1, <2>4, <3>1 DEF LocalsInv, LockInv, WroteInv, Working, Writing, Exists
    <3> QED BY <2>2, <3>2, <3>3
  <2> QED BY <1>4, <2>3, <2>4 DEF Insert
<1>5. CASE CommitAdd(c)
  <2>1. CommitWrite(c, Requested) /\ UNCHANGED vetted /\ pc[c] = "inserted"
    BY <1>5 DEF CommitAdd
  <2>2. Requested \in Write /\ NoteFits(Requested, call[c].key)
    BY DEF Requested, Write, Notes, NoteFits
  <2>3. NotesTellTheState' /\ OthersInv(c)'
    BY <1>a, <2>1, <2>2, CommitSteps
  <2>4. pc'[c] = "idle" /\ call'[c] = NoCall /\ c \notin wrote'
    BY <1>5, <1>a, Leaves DEF CommitAdd
  <2>5. SerialInv'
    BY <1>a, <2>1, <2>4, SerialSteps, SerialCommit DEF Working
  <2> QED BY <2>3, <2>4, <2>5, AtRest
<1>6. CASE Gate(c)
  <2> PICK f \in Files : \E v \in Verdicts(f) : Judge(c, f, v)
    BY <1>6 DEF Gate
  <2> PICK v \in Verdicts(f) : Judge(c, f, v)
    OBVIOUS
  <2>1. UNCHANGED <<row, writer, overtaken>> /\ pc[c] = "gate"
    BY <1>6 DEF Gate, db
  <2>2. NotesTellTheState' /\ OthersInv(c)'
    BY <1>a, <2>1, QuietSteps
  <2>3. CASE v = "raise"
    <3>1. pc'[c] = "raised" /\ call'[c] = NoCall /\ c \notin wrote'
      BY <1>a, <2>3, Leaves DEF Judge
    <3>2. SerialInv'
      BY <1>a, <2>1, <3>1, SerialSteps DEF Working, Inv, SerialInv
    <3> QED BY <2>2, <3>1, <3>2, AtRest
  <2>4. CASE v # "raise"
    <3>1. v \in Decisions
      BY <2>4, VerdictsType
    <3>2. /\ call' = [call EXCEPT ![c].verdict = v, ![c].final = IntakeWrite(v)]
          /\ pc' = [pc EXCEPT ![c] = "look"] /\ UNCHANGED wrote
      BY <2>4 DEF Judge, Goto
    <3>3. /\ pc'[c] = "look" /\ call'[c].verdict = v /\ call'[c].final = IntakeWrite(v)
          /\ call'[c].key = call[c].key /\ call'[c].cmd = call[c].cmd
      BY <1>a, <3>2 DEF TypeOK
    <3>4. v = "pass" => call[c].key \in vetted'
      BY <2>4, PassMeetsSpec DEF Judge
    <3>5. NoteFits(IntakeWrite(v), call[c].key)'
      BY <3>1, <3>3, <3>4 DEF NoteFits, IntakeWrite, Decisions
    <3>6. SerialInv'
      BY <1>a, <2>1, <3>3, SerialSteps DEF Working, Inv, SerialInv
    <3>7. LocalsInv(c)'
      BY <1>a, <2>1, <3>1, <3>3, <3>5 DEF LocalsInv, Working, Writing
    <3>8. c \notin wrote'
      BY <1>a, <2>1, <3>2 DEF WroteInv, Writing
    <3> QED BY <2>2, <3>3, <3>6, <3>7, <3>8 DEF LockInv, WroteInv
  <2> QED BY <2>3, <2>4
<1>7. CASE Look(c)
  <2>1. UNCHANGED <<row, writer, overtaken, vetted>> /\ pc[c] = "look"
    BY <1>7 DEF Look, db
  <2>2. NotesTellTheState' /\ OthersInv(c)'
    BY <1>a, <2>1, QuietSteps
  <2>3. CASE Leave(c, "raised")
    <3>1. pc'[c] = "raised" /\ call'[c] = NoCall /\ c \notin wrote'
      BY <1>a, <2>3, Leaves
    <3>2. SerialInv'
      BY <1>a, <2>1, <3>1, SerialSteps DEF Working, Inv, SerialInv
    <3> QED BY <2>2, <3>1, <3>2, AtRest
  <2> PICK w \in {Received, call[c].final} :
         Leave(c, "raised") \/ (call' = [call EXCEPT ![c].step = w] /\ Goto(c, "check"))
    BY <1>7 DEF Look
  <2>4. CASE call' = [call EXCEPT ![c].step = w] /\ Goto(c, "check")
    <3>1. /\ pc'[c] = "check" /\ UNCHANGED wrote /\ call'[c].step = w
          /\ call'[c].key = call[c].key /\ call'[c].cmd = call[c].cmd
          /\ call'[c].verdict = call[c].verdict /\ call'[c].final = call[c].final
      BY <1>a, <2>4 DEF Goto, TypeOK
    <3>2. SerialInv'
      BY <1>a, <2>1, <3>1, SerialSteps DEF Working, Inv, SerialInv
    <3>3. call[c].cmd = "intake" /\ call[c].verdict \in Decisions
          /\ call[c].final = IntakeWrite(call[c].verdict)
          /\ NoteFits(call[c].final, call[c].key) /\ call[c].key \in Keys
      BY <1>a, <2>1 DEF LocalsInv, Working
    <3>4. w \in Write
      <4>1. Received \in Write
        BY DEF Received, Write, Notes
      <4>2. call[c].final \in Write
        BY <3>3, IntakeWriteType
      <4> QED BY <4>1, <4>2
    <3>5. LocalsInv(c)'
      BY <2>1, <3>1, <3>3, <3>4 DEF LocalsInv, Working, Writing, NoteFits
    <3>6. c \notin wrote'
      BY <1>a, <2>1, <3>1 DEF WroteInv, Writing
    <3> QED BY <2>2, <3>1, <3>2, <3>5, <3>6 DEF LockInv, WroteInv
  <2> QED BY <2>3, <2>4
<1>8. CASE Check(c)
  <2>1. UNCHANGED <<row, writer, overtaken, vetted>> /\ pc[c] = "check"
    BY <1>8 DEF Check, db
  <2>2. NotesTellTheState' /\ OthersInv(c)'
    BY <1>a, <2>1, QuietSteps
  <2>3. CASE Leave(c, "raised")
    <3>1. pc'[c] = "raised" /\ call'[c] = NoCall /\ c \notin wrote'
      BY <1>a, <2>3, Leaves
    <3>2. SerialInv'
      BY <1>a, <2>1, <3>1, SerialSteps DEF Working, Inv, SerialInv
    <3> QED BY <2>2, <3>1, <3>2, AtRest
  <2>4. CASE /\ Exists(call[c].key)
             /\ call[c].step.state \in ALLOWED[row[call[c].key].state]
             /\ Goto(c, "update") /\ UNCHANGED call
    <3>1. pc'[c] = "update" /\ UNCHANGED <<call, wrote>>
      BY <1>a, <2>4 DEF Goto, TypeOK
    <3>2. SerialInv'
      BY <1>a, <2>1, <3>1, SerialSteps DEF Working, Inv, SerialInv
    <3>3. LocalsInv(c)' /\ WroteInv(c)'
      BY <1>a, <2>1, <3>1 DEF LocalsInv, WroteInv, Working, Writing, NoteFits
    <3>4. LockInv(c)'
      BY <2>1, <2>4, <3>1 DEF LockInv, Exists
    <3> QED BY <2>2, <3>2, <3>3, <3>4
  <2> QED BY <1>8, <2>3, <2>4 DEF Check
<1>9. CASE Update(c)
  <2>1. /\ UNCHANGED <<row, call, overtaken, vetted, wrote>> /\ writer' = c
        /\ writer \in {None, c} /\ pc[c] = "update" /\ pc'[c] = "updated"
    BY <1>9, <1>a DEF Update, LockFree, Goto, TypeOK
  <2>2. NotesTellTheState' /\ OthersInv(c)'
    BY <1>a, <2>1, QuietSteps
  <2>3. SerialInv'
    BY <1>a, <2>1, SerialSteps DEF Working, Inv, SerialInv
  <2>4. LocalsInv(c)' /\ WroteInv(c)'
    BY <1>a, <2>1 DEF LocalsInv, WroteInv, Working, Writing, NoteFits
  <2>5. LockInv(c)'
    BY <1>a, <2>1 DEF LockInv, Exists
  <2> QED BY <2>2, <2>3, <2>4, <2>5
<1>10. CASE Commit(c)
  <2>1. CommitWrite(c, call[c].step) /\ UNCHANGED vetted /\ pc[c] = "updated"
    BY <1>10 DEF Commit
  <2>2. /\ call[c].step \in Write /\ call[c].key \in Keys
        /\ call[c].step \in {Received, call[c].final}
        /\ NoteFits(call[c].final, call[c].key)
    BY <1>a, <2>1 DEF LocalsInv, Working, Writing
  <2>3. NoteFits(call[c].step, call[c].key)
    <3>1. NoteFits(Received, call[c].key)
      BY DEF NoteFits, Received
    <3> QED BY <2>2, <3>1
  <2>4. NotesTellTheState' /\ OthersInv(c)'
    BY <1>a, <2>1, <2>2, <2>3, CommitSteps
  <2>5. CASE call[c].step = call[c].final /\ Leave(c, "idle")
    <3>1. pc'[c] = "idle" /\ call'[c] = NoCall /\ c \notin wrote'
      BY <1>a, <2>5, Leaves
    <3>2. SerialInv'
      BY <1>a, <2>1, <3>1, SerialSteps, SerialCommit DEF Working
    <3> QED BY <2>4, <3>1, <3>2, AtRest
  <2>6. CASE /\ call[c].step # call[c].final
             /\ call' = [call EXCEPT ![c].step = call[c].final]
             /\ pc' = [pc EXCEPT ![c] = "check"]
             /\ wrote' = wrote \cup {c}
    <3>1. /\ pc'[c] = "check" /\ call'[c].step = call[c].final
          /\ call'[c].key = call[c].key /\ call'[c].cmd = call[c].cmd
          /\ call'[c].verdict = call[c].verdict /\ call'[c].final = call[c].final
      BY <1>a, <2>6 DEF TypeOK
    <3>2. call[c].step = Received /\ call[c].cmd = "intake"
          /\ call[c].verdict \in Decisions /\ call[c].final = IntakeWrite(call[c].verdict)
      BY <1>a, <2>1, <2>2, <2>6 DEF LocalsInv, Working, Writing
    <3>3. SerialInv'
      BY <1>a, <2>1, <3>1, SerialSteps, SerialCommit DEF Working
    <3>4. LocalsInv(c)'
      BY <2>1, <2>2, <3>1, <3>2, IntakeWriteType DEF LocalsInv, Working, Writing, NoteFits
    <3>5. row'[call[c].key] = Received
      BY <1>a, <2>1, <2>2, <3>2 DEF CommitWrite, TypeOK
    <3> QED BY <2>4, <3>1, <3>2, <3>3, <3>4, <3>5 DEF LockInv, WroteInv, Writing
  <2> QED BY <1>10, <2>5, <2>6 DEF Commit
<1> QED BY <1>1, <1>2, <1>3, <1>4, <1>5, <1>6, <1>7, <1>8, <1>9, <1>10 DEF Run

\* The inductive invariant holds, whatever the clients do and wherever they stop.
THEOREM InvHolds == Spec => []Inv
<1>1. TInv => TypeOK
  BY DEF TInv
<1> QED BY <1>1, TypeInvariant, InitInv, InvNext, PTL DEF Spec

(* ---------------------------------------------------------------------- *)
(* The properties.                                                        *)

\* A row's note tells its state, and "intake passed" a file that meets
\* every clause of the intake spec but, possibly, the two no gate tests.
THEOREM NotesHold == Spec => []NotesTellTheState
<1>1. Inv => NotesTellTheState
  BY DEF Inv
<1> QED BY <1>1, InvHolds, PTL

\* Which steps change a row, and how.
LEMMA RowChanges ==
  ASSUME Inv, [Next]_vars, row' # row
  PROVE  \E c \in Clients :
            /\ call[c].key \in Keys
            /\ \/ CommitAdd(c) /\ row' = [row EXCEPT ![call[c].key] = Requested]
               \/ /\ Commit(c) /\ call[c].step \in Write
                  /\ row' = [row EXCEPT ![call[c].key] = call[c].step]
<1>1. PICK c \in Clients : Open(c) \/ Exit(c) \/ Ask(c) \/ Run(c)
  BY DEF Next, vars
<1>2. ~Open(c) /\ ~Exit(c)
  BY DEF Open, Exit, db
<1>3. ~Ask(c)
  BY DEF Ask, CallAdd, CallIntake, CallTransition, Call, db
<1>4. ~Insert(c) /\ ~Gate(c) /\ ~Look(c) /\ ~Check(c) /\ ~Update(c) /\ ~Locked(c)
  BY DEF Insert, Gate, Look, Check, Update, Locked, db
<1>5. CommitAdd(c) \/ Commit(c)
  BY <1>1, <1>2, <1>3, <1>4 DEF Run
<1>6. LocalsInv(c)
  BY DEF Inv
<1> QED BY <1>5, <1>6 DEF CommitAdd, Commit, CommitWrite, LocalsInv, Working, Writing

\* A change of state is legal unless the commit that makes it was overtaken.
LEMMA LegalOrOvertaken ==
  ASSUME Inv, [Next]_vars, NEW k \in Keys
  PROVE  LegalMove(k) \/ \E c \in overtaken : pc[c] = "updated" /\ call[c].key = k
<1> SUFFICES ASSUME row'[k].state # row[k].state
             PROVE  LegalMove(k) \/ \E c \in overtaken : pc[c] = "updated" /\ call[c].key = k
  BY DEF LegalMove
<1>1. PICK c \in Clients :
            /\ call[c].key \in Keys
            /\ \/ CommitAdd(c) /\ row' = [row EXCEPT ![call[c].key] = Requested]
               \/ /\ Commit(c) /\ call[c].step \in Write
                  /\ row' = [row EXCEPT ![call[c].key] = call[c].step]
  BY RowChanges
<1>2. call[c].key = k /\ row \in [Keys -> Write \cup {NoRow}] /\ LockInv(c)
  BY <1>1 DEF Inv, TypeOK
<1>3. CASE CommitAdd(c)
  BY <1>1, <1>2, <1>3 DEF CommitAdd, Commit, LockInv, LegalMove
<1>4. CASE Commit(c) /\ c \notin overtaken
  BY <1>1, <1>2, <1>4 DEF CommitAdd, Commit, LockInv, LegalMove
<1>5. CASE Commit(c) /\ c \in overtaken
  BY <1>2, <1>5 DEF Commit
<1> QED BY <1>1, <1>3, <1>4, <1>5

\* Without an overtaking commit no illegal move is ever committed, for any number
\* of clients and keys: the window between SELECT and UPDATE is the only one.
THEOREM IllegalMovesNeedARace == Spec => IllegalNeedsRace
<1>1. Inv /\ [Next]_vars =>
        [\A k \in Keys :
           \/ LegalMove(k)
           \/ \E c \in overtaken : pc[c] = "updated" /\ call[c].key = k]_vars
  BY LegalOrOvertaken
<1> QED BY <1>1, InvHolds, PTL DEF Spec, IllegalNeedsRace

\* No row is ever lost, and a key is added once.
THEOREM RowsAreKeptAlways == Spec => RowsAreKept
<1> DEFINE A == \A k \in Keys : Exists(k) =>
                  /\ row'[k].state # "absent"
                  /\ \A c \in Clients : call[c].cmd = "add" /\ call[c].key = k
                                            => pc'[c] # "idle"
<1>1. ASSUME Inv, [Next]_vars, NEW k \in Keys, Exists(k)
      PROVE  row'[k].state # "absent"
  <2>1. CASE row' = row
    BY <1>1, <2>1 DEF Exists
  <2>2. CASE row' # row
    <3>1. \A w \in Write : w.state # "absent"
      BY DEF Write
    <3>2. Requested \in Write
      BY DEF Requested, Write, Notes
    <3>3. row \in [Keys -> Write \cup {NoRow}]
      BY <1>1 DEF Inv, TypeOK
    <3> QED BY <1>1, <2>2, <3>1, <3>2, <3>3, RowChanges DEF Exists
  <2> QED BY <2>1, <2>2
<1>2. ASSUME Inv, Next, NEW k \in Keys, Exists(k),
             NEW c \in Clients, call[c].cmd = "add", call[c].key = k
      PROVE  pc'[c] # "idle"
  <2>1. pc[c] = "insert"
    BY <1>2 DEF Inv, LocalsInv, LockInv
  <2>2. PICK d \in Clients : Open(d) \/ Exit(d) \/ Ask(d) \/ Run(d)
    BY <1>2 DEF Next
  <2>3. TypeOK
    BY <1>2 DEF Inv
  <2>4. CASE d # c
    BY <2>1, <2>2, <2>3, <2>4, StepsAreOwn DEF Alone
  <2>5. CASE d = c
    <3>1. Insert(c) \/ Exit(c) \/ Locked(c)
      BY <2>1, <2>2, <2>5 DEF Open, Ask, CallAdd, CallIntake, CallTransition, Call, Run,
            CommitAdd, Gate, Look, Check, Update, Commit
    <3> QED BY <2>1, <2>3, <3>1 DEF Insert, Exit, Locked, Leave, Goto, TypeOK
  <2> QED BY <2>4, <2>5
<1>3. Inv /\ [Next]_vars => [A]_vars
  BY <1>1, <1>2
<1> QED BY <1>3, InvHolds, PTL DEF Spec, RowsAreKept

\* If commands on the same key do not overlap, the registry implements the
\* abstract librarian, with any number of clients working on different keys and
\* with processes ending anywhere.
THEOREM SerialRefinement == Serial => (Spec => RefinesLibrarian)
<1> SUFFICES ASSUME Serial
             PROVE  Spec => RefinesLibrarian
  OBVIOUS
<1> DEFINE abs == [k \in Keys |-> row[k].state]
<1>1. Init => Librarian!Init
  <2> SUFFICES ASSUME Init
               PROVE  abs = [k \in Keys |-> "absent"]
    BY DEF Librarian!Init
  <2>1. \A k \in Keys : row[k].state = "absent"
    BY DEF Init, NoRow
  <2> QED BY <2>1
<1>2. ASSUME Inv, [Next]_vars
      PROVE  Librarian!Next \/ abs' = abs
  <2>1. CASE row' = row
    BY <2>1
  <2>2. CASE row' # row
    <3>1. PICK c \in Clients :
                /\ call[c].key \in Keys
                /\ \/ CommitAdd(c) /\ row' = [row EXCEPT ![call[c].key] = Requested]
                   \/ /\ Commit(c) /\ call[c].step \in Write
                      /\ row' = [row EXCEPT ![call[c].key] = call[c].step]
      BY <1>2, <2>2, RowChanges
    <3> DEFINE k == call[c].key
    <3>2. /\ row \in [Keys -> Write \cup {NoRow}] /\ LockInv(c) /\ overtaken = {}
      BY <1>2 DEF Inv, TypeOK, SerialInv
    <3>3. CASE CommitAdd(c) /\ row' = [row EXCEPT ![k] = Requested]
      <4>1. row[k].state = "absent"
        BY <3>2, <3>3 DEF CommitAdd, LockInv, Exists
      <4>2. abs' = [abs EXCEPT ![k] = "requested"]
        BY <3>1, <3>2, <3>3 DEF Requested
      <4> QED BY <3>1, <4>1, <4>2 DEF Librarian!Next, Librarian!Add
    <3>4. CASE /\ Commit(c) /\ call[c].step \in Write
               /\ row' = [row EXCEPT ![k] = call[c].step]
      <4>1. row[k].state # "absent" /\ call[c].step.state \in ALLOWED[row[k].state]
        BY <3>2, <3>4 DEF Commit, LockInv, Exists
      <4>2. abs' = [abs EXCEPT ![k] = call[c].step.state]
        BY <3>1, <3>2, <3>4
      <4>3. abs[k] = row[k].state
        BY <3>1
      <4> DEFINE s == call[c].step.state
      <4>4. abs[k] # "absent" /\ s \in ALLOWED[abs[k]] /\ abs' = [abs EXCEPT ![k] = s]
        BY <4>1, <4>2, <4>3
      <4>5. k \in Keys
        BY <3>1
      <4> QED BY <4>4, <4>5 DEF Librarian!Next, Librarian!Move
    <3> QED BY <3>1, <3>3, <3>4
  <2> QED BY <2>1, <2>2
<1>3. Inv /\ [Next]_vars => [Librarian!Next]_abs
  BY <1>2
<1> QED BY <1>1, <1>3, InvHolds, PTL DEF Spec, RefinesLibrarian, Librarian!Spec

\* If commands on the same key do not overlap, a command that returns has done what
\* it was asked, and one that raises has changed nothing, unless it is an intake
\* that was locked out of its second write, whose key is then at received.
THEOREM SerialContract == Serial => (Spec => CommandContract)
<1> SUFFICES ASSUME Serial
             PROVE  Spec => CommandContract
  OBVIOUS
<1> DEFINE Done(c) ==
      LET after == row'[call[c].key] IN
      /\ pc'[c] = "raised" =>
            /\ UNCHANGED row
            /\ c \in wrote => ~LockFree(c) /\ call[c].cmd = "intake" /\ after = Received
      /\ pc'[c] = "idle" =>
            CASE call[c].cmd = "add"        -> after = Requested
              [] call[c].cmd = "transition" -> after = call[c].final
              [] call[c].cmd = "intake"     -> after = IntakeWrite(call[c].verdict)
<1>1. ASSUME Inv, Next, NEW c \in Clients, Working(c)
      PROVE  Done(c)
  <2>1. PICK d \in Clients : Open(d) \/ Exit(d) \/ Ask(d) \/ Run(d)
    BY <1>1 DEF Next
  <2>2. TypeOK /\ LocalsInv(c) /\ LockInv(c) /\ WroteInv(c)
    BY <1>1 DEF Inv
  <2>3. CASE d # c
    BY <1>1, <2>1, <2>2, <2>3, StepsAreOwn DEF Alone, Working
  <2>4. CASE d = c
    <3>1. ~Open(c) /\ ~Ask(c)
      BY <1>1 DEF Open, Ask, CallAdd, CallIntake, CallTransition, Call, Working
    <3>2. CASE Exit(c) \/ Update(c)
      BY <2>2, <3>2 DEF Exit, Update, Leave, Goto, TypeOK
    <3>7. CASE Locked(c)
      <4>1. pc'[c] = "raised" /\ UNCHANGED row /\ ~LockFree(c)
        BY <2>2, <3>7 DEF Locked, Leave, TypeOK, db
      <4>2. c \in wrote => call[c].cmd = "intake" /\ row[call[c].key] = Received
        BY <2>2 DEF WroteInv
      <4> QED BY <4>1, <4>2
    <3>3. CASE Insert(c) \/ Gate(c) \/ Look(c)
      BY <2>2, <3>3 DEF Insert, Gate, Judge, Look, Leave, Goto, TypeOK, db,
                        WroteInv, Writing
    <3>4. CASE CommitAdd(c)
      <4>1. call[c].cmd = "add" /\ call[c].key \in Keys /\ pc'[c] = "idle"
        BY <2>2, <3>4 DEF CommitAdd, Leave, TypeOK, LocalsInv, Working
      <4> QED BY <2>2, <3>4, <4>1 DEF CommitAdd, CommitWrite, TypeOK
    <3>5. CASE Check(c)
      <4>1. pc[c] = "check" /\ UNCHANGED row /\ pc'[c] # "idle"
        BY <2>2, <3>5 DEF Check, Leave, Goto, TypeOK, db
      <4>2. c \in wrote => Exists(call[c].key)
                             /\ call[c].step.state \in ALLOWED[row[call[c].key].state]
        <5> SUFFICES ASSUME c \in wrote
                     PROVE  Exists(call[c].key)
                             /\ call[c].step.state \in ALLOWED[row[call[c].key].state]
          OBVIOUS
        <5>1. row[call[c].key] = Received /\ call[c].step = IntakeWrite(call[c].verdict)
              /\ call[c].verdict \in Decisions
          BY <2>2, <4>1 DEF WroteInv, Writing, LocalsInv
        <5>2. call[c].step.state \in {"received", "validated"}
          BY <5>1, IntakeWriteType
        <5>3. Received.state = "received"
          BY DEF Received
        <5>4. ALLOWED["received"] = {"received", "validated"}
          OBVIOUS
        <5> QED BY <5>1, <5>2, <5>3, <5>4 DEF Exists
      <4>3. c \in wrote => pc'[c] = "update"
        BY <2>2, <3>5, <4>2 DEF Check, Goto, TypeOK
      <4> QED BY <4>1, <4>3
    <3>6. CASE Commit(c)
      <4>1. /\ pc[c] = "updated" /\ call[c].key \in Keys
            /\ call[c].cmd \in {"transition", "intake"}
            /\ call[c].cmd = "intake" => call[c].final = IntakeWrite(call[c].verdict)
        BY <2>2, <3>6 DEF Commit, LocalsInv, Working, Writing
      <4>2. pc'[c] \in {"idle", "check"}
        BY <2>2, <3>6 DEF Commit, Leave, TypeOK
      <4>3. pc'[c] = "idle" => row'[call[c].key] = call[c].final
        BY <2>2, <3>6, <4>1 DEF Commit, CommitWrite, TypeOK
      <4> QED BY <4>1, <4>2, <4>3
    <3> QED BY <2>1, <2>4, <3>1, <3>2, <3>3, <3>4, <3>5, <3>6, <3>7 DEF Run
  <2> QED BY <2>3, <2>4
<1>2. Inv /\ [Next]_vars => [\A c \in Clients : Working(c) => Done(c)]_vars
  BY <1>1
<1> QED BY <1>2, InvHolds, PTL DEF Spec, CommandContract
=============================================================================
