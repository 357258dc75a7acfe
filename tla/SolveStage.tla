------------------------------ MODULE SolveStage ----------------------------
(* demo/loop/build_and_solve.py: jobs that translate an XML into an EDB, set  *)
(* it up, solve it and collect the touchstone, while other jobs on the        *)
(* machine share the one EDB_RPC_Server.                                     *)
EXTENDS Naturals, Sequences

CONSTANTS
    Jobs,
    Dir,        \* Dir[j]: the work directory of job j; a later job may reuse it
    None

ASSUME NoneAssumption == None \notin Jobs

VARIABLES
    pc,         \* where a job is
    attempt,    \* opens tried so far
    session,    \* the job's session with the RPC server
    built,      \* what the job has set up in its session
    aedb,       \* aedb[w]: the EDB in directory w: who made it, and what was saved in it
    top,        \* top[w]: the jobs whose solves left touchstones in w, oldest first
    deep,       \* deep[w]: those whose solves left them in a directory under w
    out,        \* what a job answers
    left        \* the jobs that left a session at the server which nobody holds

snp == <<top, deep>>
vars == <<pc, attempt, session, built, aedb, snp, out, left>>

Dirs == {Dir[j] : j \in Jobs}
Parts == {"stubs", "ports", "setup"}
NoEdb == [by |-> None, parts |-> {}]

\* What a job exits with: not 0, or 0 and the touchstone of some job.
NoAnswer == [ok |-> "none"]
Failed == [ok |-> "no"]
Found(j) == [ok |-> "yes", of |-> j]

TypeOK ==
    /\ pc \in [Jobs -> {"off", "open", "nets", "place", "stitch", "terminals",
                        "save", "close", "hung", "solve", "collect", "ended"}]
    /\ attempt \in [Jobs -> 0..2]
    /\ session \in [Jobs -> {"none", "live", "killed"}]
    /\ built \in [Jobs -> SUBSET Parts]
    /\ aedb \in [Dirs -> [by : Jobs \cup {None}, parts : SUBSET Parts]]
    /\ top \in [Dirs -> Seq(Jobs)]
    /\ deep \in [Dirs -> Seq(Jobs)]
    /\ out \in [Jobs -> {NoAnswer, Failed} \cup {Found(j) : j \in Jobs}]
    /\ left \in SUBSET Jobs

Init ==
    /\ pc = [j \in Jobs |-> "off"]
    /\ attempt = [j \in Jobs |-> 0]
    /\ session = [j \in Jobs |-> "none"]
    /\ built = [j \in Jobs |-> {}]
    /\ aedb = [w \in Dirs |-> NoEdb]
    /\ top = [w \in Dirs |-> << >>]
    /\ deep = [w \in Dirs |-> << >>]
    /\ out = [j \in Jobs |-> NoAnswer]
    /\ left = {}

Go(j, from, to) == pc[j] = from /\ pc' = [pc EXCEPT ![j] = to]
End(j, from, answer) ==
    /\ Go(j, from, "ended")
    /\ out' = [out EXCEPT ![j] = answer]
    /\ attempt' = [attempt EXCEPT ![j] = 0]
    /\ built' = [built EXCEPT ![j] = {}]
Build(j, part) == built' = [built EXCEPT ![j] = @ \cup {part}]

\* edb.close(): the sessions of any siblings may go with the job's own.
Close(j) ==
    \E hit \in SUBSET {k \in Jobs \ {j} : session[k] = "live"} :
       session' = [k \in Jobs |-> IF k = j THEN "none"
                                  ELSE IF k \in hit THEN "killed" ELSE session[k]]

\* Mutant: a failure returns without close.
FailOpen(j, from) ==
    /\ End(j, from, Failed)
    /\ UNCHANGED <<session, aedb, snp, left>>

\* A stage that fails, with a message of its own or through the handler of the
\* whole setup, closes; the handler also gets a close that raised.  What its own
\* close raises is swallowed, and the session may stay; on a session that was
\* killed it raises and reaches nobody.
Fail(j, from) ==
    /\ End(j, from, Failed)
    /\ \/ session[j] = "live" /\ Close(j) /\ left' \in {left, left \cup {j}}
       \/ session[j] # "live" /\ session' = [session EXCEPT ![j] = "none"] /\ UNCHANGED left
    /\ UNCHANGED <<aedb, snp>>

-----------------------------------------------------------------------------
(* Translation.                                                              *)

\* Arguments, environment, then a fresh start: the stale EDB is removed.  Stale
\* touchstones are not.
Start(j) ==
    /\ \A k \in Jobs \ {j} : Dir[k] = Dir[j] => pc[k] \in {"off", "ended"}
    /\ \/ /\ Go(j, "off", "open")
          /\ aedb' = [aedb EXCEPT ![Dir[j]] = NoEdb]
          /\ UNCHANGED <<attempt, built, out>>
       \/ End(j, "off", Failed) /\ UNCHANGED aedb
    /\ UNCHANGED <<session, snp, left>>

Opened(j) ==
    /\ Go(j, "open", "nets")
    /\ session' = [session EXCEPT ![j] = "live"]
    /\ aedb' = [aedb EXCEPT ![Dir[j]] = [by |-> j, parts |-> {}]]

\* Mutants: one attempt more than the loop has; a loop without a bound.
OpenOnceMore(j) ==
    /\ \/ Opened(j)
       \/ attempt[j] <= 1 /\ Go(j, "open", "open") /\ UNCHANGED <<session, aedb>>
    /\ attempt' = [attempt EXCEPT ![j] = @ + 1]
    /\ UNCHANGED <<built, out, snp, left>>
OpenForever(j) ==
    /\ \/ Opened(j)
       \/ /\ \E part \in {NoEdb, [by |-> j, parts |-> {}]} : aedb' = [aedb EXCEPT ![Dir[j]] = part]
          /\ Go(j, "open", "open")
          /\ UNCHANGED session
    /\ UNCHANGED <<attempt, built, out, snp, left>>

\* A constructor that raises, or never returns, may have opened a session: edb is
\* still None, and nobody can close it.
MayLeave(j) == left' \in {left, left \cup {j}}

\* Edb(edbpath=xml): a failed open may leave a part of an EDB, which the second
\* attempt removes.
Open(j) ==
    /\ \/ /\ Opened(j)
          /\ attempt' = [attempt EXCEPT ![j] = @ + 1]
          /\ UNCHANGED <<built, out, left>>
       \/ /\ \E part \in {NoEdb, [by |-> j, parts |-> {}]} : aedb' = [aedb EXCEPT ![Dir[j]] = part]
          /\ IF attempt[j] = 0
             THEN /\ Go(j, "open", "open")
                  /\ attempt' = [attempt EXCEPT ![j] = 1]
                  /\ UNCHANGED <<built, out>>
             ELSE End(j, "open", Failed)
          /\ MayLeave(j)
          /\ UNCHANGED session
    /\ UNCHANGED snp

\* No call before the solver has a timeout: any may never return.
Hang(j) ==
    /\ \E call \in {"open", "nets", "place", "stitch", "terminals", "save", "close"} :
          /\ Go(j, call, "hung")
          /\ IF call = "open" THEN MayLeave(j) ELSE UNCHANGED left
    /\ UNCHANGED <<attempt, session, built, aedb, snp, out>>

\* Somebody kills a job that hangs, and what session it has stays.
Kill(j) ==
    /\ End(j, "hung", Failed)
    /\ session' = [session EXCEPT ![j] = "none"]
    /\ left' = IF session[j] = "live" THEN left \cup {j} ELSE left
    /\ UNCHANGED <<aedb, snp>>

-----------------------------------------------------------------------------
(* Setup: any call to the server may raise, and does on a killed session --    *)
(* except that on_copper, position and the barrel fixup swallow it.           *)

Live(j) == session[j] = "live"

\* The netlist and the dielectrics.
Nets(j) ==
    \/ /\ Live(j)
       /\ Go(j, "nets", "place")
       /\ UNCHANGED <<attempt, session, built, aedb, snp, out, left>>
    \/ Fail(j, "nets")

\* The points of the ports, where a point that cannot be read is not on copper and
\* a void that cannot be read is not there, then copper barrels, where one that
\* cannot be set is printed and passed over: neither needs the session.
Place(j) ==
    \/ /\ Go(j, "place", "stitch")
       /\ UNCHANGED <<attempt, session, built, aedb, snp, out, left>>
    \/ Fail(j, "place")

\* Up to twelve stub vias per --stitch, at sites that are on copper twice.
Stitch(j) ==
    \/ /\ Go(j, "stitch", "terminals")
       /\ IF Live(j) THEN Build(j, "stubs") ELSE UNCHANGED built
       /\ UNCHANGED <<attempt, session, aedb, snp, out, left>>
    \/ Fail(j, "stitch")

\* Mutant: the siwave setup is left out.
PortsOnly(j) ==
    \/ /\ Live(j)
       /\ Go(j, "terminals", "save")
       /\ built' = [built EXCEPT ![j] = @ \cup {"ports"}]
       /\ UNCHANGED <<attempt, session, aedb, snp, out, left>>
    \/ Fail(j, "terminals")

\* Terminals, port, siwave setup and exec file.
Terminals(j) ==
    \/ /\ Live(j)
       /\ Go(j, "terminals", "save")
       /\ built' = [built EXCEPT ![j] = @ \cup {"ports", "setup"}]
       /\ UNCHANGED <<attempt, session, aedb, snp, out, left>>
    \/ Fail(j, "terminals")

Save(j) ==
    \/ /\ Live(j)
       /\ Go(j, "save", "close")
       /\ aedb' = [aedb EXCEPT ![Dir[j]].parts = built[j]]
       /\ UNCHANGED <<attempt, session, built, snp, out, left>>
    \/ Fail(j, "save")

CloseEdb(j) ==
    \/ /\ Live(j)
       /\ Go(j, "close", "solve")
       /\ Close(j)
       /\ UNCHANGED <<attempt, built, aedb, snp, out, left>>
    \/ Fail(j, "close")

-----------------------------------------------------------------------------
(* The solver, and its touchstone.                                           *)

\* With -useSubdir the touchstone is in the directory or under it.
Write(j) ==
    \/ top' = [top EXCEPT ![Dir[j]] = Append(@, j)] /\ UNCHANGED deep
    \/ deep' = [deep EXCEPT ![Dir[j]] = Append(@, j)] /\ UNCHANGED top

\* siwave_ng: a timeout or a return code other than 0 fails, whatever was written.
\* At the timeout the solver is killed, and its pipes are read to their end: a
\* child of the solver that holds them is waited for.
Solve(j) ==
    /\ \/ /\ \E next \in {"collect", "hung"} : Go(j, "solve", next)
          /\ UNCHANGED <<attempt, built, out>>
       \/ End(j, "solve", Failed)
    /\ Write(j) \/ UNCHANGED snp
    /\ UNCHANGED <<session, aedb, left>>

\* Mutant: the first of the listing.
Oldest(s) == s[1]

\* The newest of a listing by modification time.
Newest(s) == s[Len(s)]

\* The directories under w are looked into when w itself has no touchstone.
Listing(w) == IF top[w] # << >> THEN top[w] ELSE deep[w]

Collect(j) ==
    /\ IF Listing(Dir[j]) = << >>
       THEN End(j, "collect", Failed)
       ELSE End(j, "collect", Found(Newest(Listing(Dir[j]))))
    /\ UNCHANGED <<session, aedb, snp, left>>

-----------------------------------------------------------------------------
Setup(j) ==
    Nets(j) \/ Place(j) \/ Stitch(j) \/ Terminals(j) \/ Save(j) \/ CloseEdb(j)

Step(j) == Open(j) \/ Setup(j) \/ Hang(j) \/ Solve(j) \/ Collect(j)

Next == \E j \in Jobs : Start(j) \/ Step(j) \/ Kill(j)

\* A job's calls return, or hang.
Fairness == \A j \in Jobs : WF_vars(Step(j))

Spec == Init /\ [][Next]_vars /\ Fairness

-----------------------------------------------------------------------------
(* Properties.                                                               *)

\* What reaches the solver was made by this job and set up to the end: no stub
\* is missing because a sibling's close took the session (build_and_solve.py:91).
SolvedIsSetUp ==
    \A j \in Jobs : pc[j] \in {"solve", "collect"} =>
        /\ aedb[Dir[j]].by = j
        /\ {"stubs", "ports", "setup"} \subseteq aedb[Dir[j]].parts

\* No job answers, or starts the solver, with a session it never tried to close
\* (build_and_solve.py:114, :182, :189, :239, :263-269), and who gets to the solver
\* has left none behind but that of a first open that failed (:96-107).
SessionsAreClosed ==
    \A j \in Jobs :
        /\ pc[j] \in {"solve", "collect", "ended"} => session[j] = "none"
        /\ pc[j] \in {"solve", "collect"} /\ j \in left => attempt[j] = 2

\* The touchstone a job answers with is of its directory and from its own solve,
\* unless the directory kept one from an earlier job and the solver wrote none, or
\* wrote it further down than that one is (build_and_solve.py:285-287).
Has(listing, j) == \E i \in DOMAIN listing : listing[i] = j
TouchstoneIsOwn ==
    \A j, k \in Jobs : out[j] = Found(k) /\ k # j =>
        /\ Dir[k] = Dir[j]
        /\ ~Has(top[Dir[j]], j)
        /\ Has(deep[Dir[j]], j) => Has(top[Dir[j]], k)

\* A job that started ends, after at most two opens, whatever its
\* siblings close, unless one of its own calls never returns.
JobsEnd == \A j \in Jobs : pc[j] = "open" ~> pc[j] \in {"ended", "hung"}
=============================================================================
