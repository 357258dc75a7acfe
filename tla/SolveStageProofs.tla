-------------------------- MODULE SolveStageProofs --------------------------
(* Theorems about build_and_solve.py, for any number of jobs in any           *)
(* directories: what is solved is set up, sessions are closed, and the       *)
(* touchstone that is named is the job's own.                                *)
EXTENDS SolveStage, TLAPS

AtWork(j) == pc[j] \notin {"off", "ended"}

\* A directory has one job at work in it.
Alone == \A j, k \in Jobs : AtWork(j) /\ AtWork(k) /\ Dir[j] = Dir[k] => j = k

\* A touchstone is in the directory of its job.
Placed(listings) == \A w \in Dirs, k \in Jobs : Has(listings[w], k) => Dir[k] = w
InPlace == Placed(top) /\ Placed(deep)

\* A job at its open has tried once at most, and has left no session but with a
\* failed one; a session begins with a successful open and ends with the last close.
SessionOf(j) ==
    /\ pc[j] = "off" => attempt[j] = 0
    /\ pc[j] = "open" => attempt[j] \in {0, 1}
    /\ pc[j] \in {"off", "open", "solve", "collect", "ended"} => session[j] = "none"
    /\ j \in left => \/ pc[j] \in {"hung", "ended"}
                     \/ pc[j] = "open" /\ attempt[j] = 1
                     \/ pc[j] # "open" /\ attempt[j] = 2

\* What a session that was not killed has set up, and what was saved of it.
Needed == {"stubs", "ports", "setup"}
ProgressOf(j) ==
    /\ AtWork(j) /\ pc[j] \notin {"open", "hung"} => aedb[Dir[j]].by = j
    /\ pc[j] \in {"terminals", "save"} /\ Live(j) => "stubs" \in built[j]
    /\ pc[j] = "save" /\ Live(j) => Needed \subseteq built[j]
    /\ pc[j] \in {"close", "solve", "collect"} => Needed \subseteq aedb[Dir[j]].parts

\* A job's touchstone is there after its solve only, and is the newest at its level
\* until the job has collected it.
TouchstoneOf(j) ==
    /\ pc[j] \notin {"hung", "collect", "ended"} => ~Has(top[Dir[j]], j) /\ ~Has(deep[Dir[j]], j)
    /\ pc[j] = "collect" =>
          /\ Has(top[Dir[j]], j) => Newest(top[Dir[j]]) = j
          /\ Has(deep[Dir[j]], j) => Newest(deep[Dir[j]]) = j
    /\ pc[j] # "ended" => out[j] = NoAnswer
    /\ \A k \in Jobs \ {j} : out[j] = Found(k) =>
          /\ Dir[k] = Dir[j]
          /\ ~Has(top[Dir[j]], j)
          /\ Has(deep[Dir[j]], j) => Has(top[Dir[j]], k)

JobInv(j) == SessionOf(j) /\ ProgressOf(j) /\ TouchstoneOf(j)

Inv ==
    /\ TypeOK
    /\ Alone
    /\ InPlace
    /\ \A j \in Jobs : JobInv(j)

-----------------------------------------------------------------------------
States  == {"none", "live", "killed"}
Places  == {"off", "open", "nets", "place", "stitch", "terminals",
            "save", "close", "hung", "solve", "collect", "ended"}
Answers == {NoAnswer, Failed} \cup {Found(j) : j \in Jobs}
Edbs    == [Dirs -> [by : Jobs \cup {None}, parts : SUBSET Parts]]

\* The three kinds of answer are told apart, and a touchstone names one job.
LEMMA AnswersDiffer ==
    /\ NoAnswer # Failed
    /\ \A k : Found(k) # NoAnswer /\ Found(k) # Failed
    /\ \A k, m : Found(k) = Found(m) => k = m
<1>1. NoAnswer.ok = "none" /\ Failed.ok = "no"
    BY DEF NoAnswer, Failed
<1>2. ASSUME NEW k PROVE Found(k).ok = "yes" /\ Found(k).of = k
    BY DEF Found
<1> QED
    BY <1>1, <1>2

\* A job adds its touchstone to the listing of its directory, or nothing.
Wrote(new, old, j) == new \in {old, [old EXCEPT ![Dir[j]] = Append(old[Dir[j]], j)]}

LEMMA WroteEffect ==
    ASSUME NEW j \in Jobs, NEW old \in [Dirs -> Seq(Jobs)], NEW new, Wrote(new, old, j)
    PROVE  /\ new \in [Dirs -> Seq(Jobs)]
           /\ \A w \in Dirs \ {Dir[j]} : new[w] = old[w]
           /\ \A w \in Dirs, k \in Jobs : Has(old[w], k) => Has(new[w], k)
           /\ \A w \in Dirs, k \in Jobs \ {j} : Has(new[w], k) => Has(old[w], k)
           /\ ~Has(old[Dir[j]], j) /\ Has(new[Dir[j]], j) => Newest(new[Dir[j]]) = j
           /\ Placed(old) => Placed(new)
<1>1. Dir[j] \in Dirs /\ old[Dir[j]] \in Seq(Jobs)
    BY DEF Dirs
<1>2. CASE new = old
    BY <1>2
<1>3. CASE new = [old EXCEPT ![Dir[j]] = Append(old[Dir[j]], j)]
    <2> DEFINE s == old[Dir[j]]
               t == Append(s, j)
    <2>1. t \in Seq(Jobs) /\ Len(t) = Len(s) + 1 /\ t[Len(t)] = j
        BY <1>1
    <2>2. /\ DOMAIN s = 1..Len(s) /\ DOMAIN t = 1..(Len(s) + 1) /\ Len(s) \in Nat
          /\ \A i \in 1..Len(s) : t[i] = s[i]
        BY <1>1
    <2>3. new \in [Dirs -> Seq(Jobs)] /\ new[Dir[j]] = t
          /\ \A w \in Dirs \ {Dir[j]} : new[w] = old[w]
        BY <1>1, <1>3, <2>1
    <2>4. /\ \A k : Has(s, k) => Has(t, k)
          /\ \A k : k # j /\ Has(t, k) => Has(s, k)
        BY <2>1, <2>2 DEF Has
    <2>5. /\ \A w \in Dirs, k \in Jobs : Has(old[w], k) => Has(new[w], k)
          /\ \A w \in Dirs, k \in Jobs \ {j} : Has(new[w], k) => Has(old[w], k)
        BY <2>3, <2>4
    <2>6. Newest(new[Dir[j]]) = j
        BY <2>1, <2>3 DEF Newest
    <2>7. Placed(old) => Placed(new)
        <3>1. ASSUME Placed(old), NEW w \in Dirs, NEW k \in Jobs, Has(new[w], k)
              PROVE  Dir[k] = w
            <4>1. CASE k = j /\ w = Dir[j]
                BY <4>1
            <4>2. CASE k # j
                BY <3>1, <2>5, <4>2 DEF Placed
            <4>3. CASE w # Dir[j]
                BY <3>1, <2>3, <4>3 DEF Placed
            <4> QED BY <4>1, <4>2, <4>3
        <3> QED
            BY <3>1 DEF Placed
    <2> QED
        BY <2>3, <2>5, <2>6, <2>7
<1> QED
    BY <1>2, <1>3 DEF Wrote

\* A close ends the job's session, and at most kills those of its siblings.
LEMMA CloseEffect ==
    ASSUME TypeOK, NEW j \in Jobs, Close(j)
    PROVE  /\ session' \in [Jobs -> States]
           /\ session'[j] = "none"
           /\ \A k \in Jobs \ {j} : \/ session'[k] = session[k]
                                    \/ session[k] = "live" /\ session'[k] = "killed"
<1>1. session \in [Jobs -> States]
    BY DEF TypeOK, States
<1>2. PICK hit \in SUBSET {k \in Jobs \ {j} : session[k] = "live"} :
          session' = [k \in Jobs |-> IF k = j THEN "none"
                                     ELSE IF k \in hit THEN "killed" ELSE session[k]]
    BY DEF Close
<1> QED
    BY <1>1, <1>2 DEF States

\* What a step of job j may change of the others: their sessions.
Frame(j) ==
    /\ \A k \in Jobs \ {j} :
         /\ pc'[k] = pc[k] /\ attempt'[k] = attempt[k]
         /\ built'[k] = built[k] /\ out'[k] = out[k]
         /\ session'[k] = session[k] \/ (session[k] = "live" /\ session'[k] = "killed")
         /\ k \in left' <=> k \in left
    /\ \A w \in Dirs \ {Dir[j]} : aedb'[w] = aedb[w]
    /\ Wrote(top', top, j) /\ Wrote(deep', deep, j)

\* What each action of a job keeps.
Keeps(j) == TypeOK' /\ Frame(j) /\ JobInv(j)'

\* A job ends with an answer: no session of its own is left to close.
LEMMA EndKeeps ==
    ASSUME TypeOK, NEW j \in Jobs, NEW from, NEW answer \in Answers,
           End(j, from, answer),
           session' \in [Jobs -> States], session'[j] = "none",
           \A k \in Jobs \ {j} : \/ session'[k] = session[k]
                                 \/ session[k] = "live" /\ session'[k] = "killed",
           left' \in {left, left \cup {j}},
           aedb' \in Edbs, \A w \in Dirs \ {Dir[j]} : aedb'[w] = aedb[w],
           Wrote(top', top, j), Wrote(deep', deep, j),
           \A k \in Jobs \ {j} : answer = Found(k) =>
              /\ Dir[k] = Dir[j]
              /\ ~Has(top'[Dir[j]], j)
              /\ Has(deep'[Dir[j]], j) => Has(top'[Dir[j]], k)
    PROVE  Keeps(j)
<1>1. pc' \in [Jobs -> Places] /\ pc'[j] = "ended" /\ built' \in [Jobs -> SUBSET Parts]
    BY DEF TypeOK, Places, Go, End
<1>2. out' \in [Jobs -> Answers] /\ out'[j] = answer
    <2>1. out \in [Jobs -> Answers] /\ out' = [out EXCEPT ![j] = answer]
        BY DEF TypeOK, Answers, End
    <2> QED
        BY <2>1
<1>3. top' \in [Dirs -> Seq(Jobs)] /\ deep' \in [Dirs -> Seq(Jobs)]
    <2>1. top \in [Dirs -> Seq(Jobs)] /\ deep \in [Dirs -> Seq(Jobs)]
        BY DEF TypeOK
    <2> QED
        BY <2>1, WroteEffect
<1>4. attempt' \in [Jobs -> 0..2] /\ left' \in SUBSET Jobs
    BY DEF TypeOK, End
<1>5. TypeOK'
    BY <1>1, <1>2, <1>3, <1>4 DEF TypeOK, Places, Answers, States, Edbs
<1>6. Frame(j)
    BY DEF Go, End, TypeOK, Frame
<1>7. JobInv(j)'
    BY <1>1, <1>2 DEF JobInv, SessionOf, ProgressOf, TouchstoneOf, AtWork
<1> QED
    BY <1>5, <1>6, <1>7 DEF Keeps

LEMMA FailedIsAnAnswer == Failed \in Answers /\ \A k : Failed # Found(k)
BY AnswersDiffer DEF Answers

\* A failure leaves the job ended, without a session that nobody tried to close.
LEMMA FailKeeps ==
    ASSUME TypeOK, NEW j \in Jobs, NEW from, Fail(j, from)
    PROVE  Keeps(j)
<1>1. /\ session' \in [Jobs -> States]
      /\ session'[j] = "none"
      /\ \A k \in Jobs \ {j} : \/ session'[k] = session[k]
                               \/ session[k] = "live" /\ session'[k] = "killed"
    <2>1. CASE Close(j)
        BY <2>1, CloseEffect
    <2>2. CASE session' = [session EXCEPT ![j] = "none"]
        BY <2>2 DEF TypeOK, States
    <2> QED
        BY <2>1, <2>2 DEF Fail
<1>2. End(j, from, Failed) /\ left' \in {left, left \cup {j}}
    BY DEF Fail
<1>3. aedb' \in Edbs /\ aedb' = aedb /\ Wrote(top', top, j) /\ Wrote(deep', deep, j)
    BY DEF Fail, TypeOK, Edbs, snp, Wrote
<1> QED
    BY <1>1, <1>2, <1>3, FailedIsAnAnswer, EndKeeps

\* Nothing is written.
LEMMA NothingWritten ==
    ASSUME TypeOK, NEW j \in Jobs, UNCHANGED snp
    PROVE  /\ Wrote(top', top, j) /\ Wrote(deep', deep, j)
           /\ top' = top /\ deep' = deep
BY DEF snp, Wrote

\* A step within the setup, on the session the job has.
LEMMA SetupKeeps ==
    ASSUME TypeOK, NEW j \in Jobs, JobInv(j), Setup(j)
    PROVE  Keeps(j)
<1> DEFINE Moves(from, to) == Go(j, from, to) /\ UNCHANGED <<attempt, session, snp, out, left>>
<1>1. ASSUME NEW from, Fail(j, from)
      PROVE  Keeps(j)
    BY <1>1, FailKeeps
<1>2. ASSUME NEW from \in {"nets", "place", "stitch", "terminals", "save"},
             NEW to \in {"place", "stitch", "terminals", "save", "close"},
             Moves(from, to),
             built' \in [Jobs -> SUBSET Parts], aedb' \in Edbs,
             \A k \in Jobs \ {j} : built'[k] = built[k],
             \A w \in Dirs \ {Dir[j]} : aedb'[w] = aedb[w],
             ProgressOf(j)'
      PROVE  Keeps(j)
    <2>1. pc' \in [Jobs -> Places] /\ pc[j] = from /\ pc'[j] = to
        BY <1>2 DEF TypeOK, Places, Go
    <2>2. top' = top /\ deep' = deep /\ Wrote(top', top, j) /\ Wrote(deep', deep, j)
        BY <1>2, NothingWritten
    <2>3. TypeOK'
        BY <1>2, <2>1, <2>2 DEF TypeOK, Places, Edbs
    <2>4. Frame(j)
        BY <1>2, <2>2 DEF Frame, Go, TypeOK
    <2>5. SessionOf(j)'
        BY <1>2, <2>1 DEF SessionOf, JobInv
    <2>6. TouchstoneOf(j)'
        BY <1>2, <2>1, <2>2 DEF TouchstoneOf, JobInv
    <2> QED
        BY <1>2, <2>3, <2>4, <2>5, <2>6 DEF Keeps, JobInv
<1>3. CASE Nets(j)
    <2>1. CASE Moves("nets", "place") /\ UNCHANGED <<built, aedb>>
        <3>1. ProgressOf(j)'
            BY <2>1 DEF JobInv, ProgressOf, TypeOK, Go, AtWork
        <3> QED
            BY <1>2, <2>1, <3>1 DEF TypeOK, Edbs
    <2> QED
        BY <1>1, <1>3, <2>1 DEF Nets
<1>4. CASE Place(j)
    <2>1. CASE Moves("place", "stitch") /\ UNCHANGED <<built, aedb>>
        <3>1. ProgressOf(j)'
            BY <2>1 DEF JobInv, ProgressOf, TypeOK, Go, AtWork
        <3> QED
            BY <1>2, <2>1, <3>1 DEF TypeOK, Edbs
    <2> QED
        BY <1>1, <1>4, <2>1 DEF Place
<1>5. CASE Stitch(j)
    <2>1. CASE /\ Moves("stitch", "terminals") /\ UNCHANGED aedb
               /\ IF Live(j) THEN Build(j, "stubs") ELSE UNCHANGED built
        <3>1. built' \in [Jobs -> SUBSET Parts] /\ \A k \in Jobs \ {j} : built'[k] = built[k]
            <4>0. "stubs" \in Parts
                BY DEF Parts
            <4>1. CASE Live(j)
                BY <2>1, <4>0, <4>1 DEF TypeOK, Build
            <4>2. CASE ~Live(j)
                BY <2>1, <4>2 DEF TypeOK
            <4> QED BY <4>1, <4>2
        <3>2. Live(j) => "stubs" \in built'[j]
            BY <2>1 DEF TypeOK, Build
        <3>3. ProgressOf(j)'
            BY <2>1, <3>2 DEF JobInv, ProgressOf, TypeOK, Go, AtWork, Live
        <3> QED
            BY <1>2, <2>1, <3>1, <3>3 DEF TypeOK, Edbs
    <2> QED
        BY <1>1, <1>5, <2>1 DEF Stitch
<1>6. CASE Terminals(j)
    <2>1. CASE /\ Live(j) /\ Moves("terminals", "save") /\ UNCHANGED aedb
               /\ built' = [built EXCEPT ![j] = @ \cup {"ports", "setup"}]
        <3>1. built' \in [Jobs -> SUBSET Parts] /\ \A k \in Jobs \ {j} : built'[k] = built[k]
            BY <2>1 DEF TypeOK, Parts
        <3>2. built'[j] = built[j] \cup {"ports", "setup"}
            BY <2>1 DEF TypeOK
        <3>3. ProgressOf(j)'
            BY <2>1, <3>2 DEF JobInv, ProgressOf, TypeOK, Go, AtWork, Live, Needed
        <3> QED
            BY <1>2, <2>1, <3>1, <3>3 DEF TypeOK, Edbs
    <2> QED
        BY <1>1, <1>6, <2>1 DEF Terminals
<1>7. CASE Save(j)
    <2>1. CASE /\ Live(j) /\ Moves("save", "close") /\ UNCHANGED built
               /\ aedb' = [aedb EXCEPT ![Dir[j]].parts = built[j]]
        <3>1. Dir[j] \in Dirs /\ built[j] \in SUBSET Parts
            BY DEF Dirs, TypeOK
        <3>2. aedb' \in Edbs /\ \A w \in Dirs \ {Dir[j]} : aedb'[w] = aedb[w]
            BY <2>1, <3>1 DEF TypeOK, Edbs
        <3>3. aedb'[Dir[j]].by = aedb[Dir[j]].by /\ aedb'[Dir[j]].parts = built[j]
            BY <2>1, <3>1 DEF TypeOK
        <3>4. ProgressOf(j)'
            BY <2>1, <3>3 DEF JobInv, ProgressOf, TypeOK, Go, AtWork, Live
        <3> QED
            BY <1>2, <2>1, <3>2, <3>4 DEF TypeOK
    <2> QED
        BY <1>1, <1>7, <2>1 DEF Save
<1>8. CASE CloseEdb(j)
    <2>1. CASE Go(j, "close", "solve") /\ Close(j) /\ UNCHANGED <<attempt, built, aedb, snp, out, left>>
        <3>1. /\ session' \in [Jobs -> States]
              /\ session'[j] = "none"
              /\ \A k \in Jobs \ {j} : \/ session'[k] = session[k]
                                       \/ session[k] = "live" /\ session'[k] = "killed"
            BY <2>1, CloseEffect
        <3>2. pc' \in [Jobs -> Places] /\ pc[j] = "close" /\ pc'[j] = "solve"
            BY <2>1 DEF TypeOK, Places, Go
        <3>3. top' = top /\ deep' = deep /\ Wrote(top', top, j) /\ Wrote(deep', deep, j)
            BY <2>1, NothingWritten
        <3>4. TypeOK'
            BY <2>1, <3>1, <3>2, <3>3 DEF TypeOK, Places, States
        <3>5. Frame(j)
            BY <2>1, <3>1, <3>3 DEF Frame, Go, TypeOK
        <3>6. JobInv(j)'
            BY <2>1, <3>1, <3>2, <3>3 DEF JobInv, SessionOf, ProgressOf, TouchstoneOf, AtWork
        <3> QED
            BY <3>4, <3>5, <3>6 DEF Keeps
    <2> QED
        BY <1>1, <1>8, <2>1 DEF CloseEdb
<1> QED
    BY <1>3, <1>4, <1>5, <1>6, <1>7, <1>8 DEF Setup

\* A new job removes the EDB of the directory, or refuses its command line.
LEMMA StartKeeps ==
    ASSUME TypeOK, NEW j \in Jobs, JobInv(j), Start(j)
    PROVE  Keeps(j)
<1>1. Dir[j] \in Dirs
    BY DEF Dirs
<1>2. /\ pc[j] = "off" /\ session' = session /\ session[j] = "none" /\ left' = left
      /\ top' = top /\ deep' = deep /\ Wrote(top', top, j) /\ Wrote(deep', deep, j)
    BY NothingWritten DEF Start, Go, End, JobInv, SessionOf
<1>3. CASE Go(j, "off", "open") /\ aedb' = [aedb EXCEPT ![Dir[j]] = NoEdb] /\ UNCHANGED <<attempt, built, out>>
    <2>1. pc' \in [Jobs -> Places] /\ pc'[j] = "open"
        BY <1>3 DEF TypeOK, Places, Go
    <2>2. TypeOK'
        BY <1>1, <1>2, <1>3, <2>1 DEF TypeOK, Places, NoEdb
    <2>3. Frame(j)
        BY <1>1, <1>2, <1>3 DEF Frame, Go, TypeOK
    <2>4. JobInv(j)'
        BY <1>2, <1>3, <2>1 DEF JobInv, SessionOf, ProgressOf, TouchstoneOf, AtWork
    <2> QED
        BY <2>2, <2>3, <2>4 DEF Keeps
<1>4. CASE End(j, "off", Failed) /\ UNCHANGED aedb
    BY <1>2, <1>4, FailedIsAnAnswer, EndKeeps DEF TypeOK, Edbs, States
<1> QED
    BY <1>3, <1>4 DEF Start

\* An open makes the EDB, is tried again, or ends the job; a failed one may leave a
\* session.
LEMMA OpenKeeps ==
    ASSUME TypeOK, NEW j \in Jobs, JobInv(j), Open(j)
    PROVE  Keeps(j)
<1>0. Dir[j] \in Dirs
    BY DEF Dirs
<1>1. /\ pc[j] = "open" /\ session[j] = "none" /\ out[j] = NoAnswer
      /\ attempt[j] \in {0, 1} /\ (j \in left => attempt[j] = 1)
      /\ top' = top /\ deep' = deep /\ Wrote(top', top, j) /\ Wrote(deep', deep, j)
    BY NothingWritten DEF Open, Opened, Go, End, JobInv, SessionOf, TouchstoneOf
<1>2. ASSUME NEW part \in {NoEdb, [by |-> j, parts |-> {}]}
      PROVE  /\ [aedb EXCEPT ![Dir[j]] = part] \in Edbs
             /\ [aedb EXCEPT ![Dir[j]] = part][Dir[j]] = part
             /\ \A w \in Dirs \ {Dir[j]} : [aedb EXCEPT ![Dir[j]] = part][w] = aedb[w]
    <2>1. part \in [by : Jobs \cup {None}, parts : SUBSET Parts]
        BY DEF NoEdb
    <2> QED
        BY <1>0, <2>1 DEF TypeOK, Edbs
<1>3. CASE Opened(j) /\ attempt' = [attempt EXCEPT ![j] = @ + 1] /\ UNCHANGED <<built, out, left>>
    <2>1. aedb' \in Edbs /\ aedb'[Dir[j]].by = j /\ \A w \in Dirs \ {Dir[j]} : aedb'[w] = aedb[w]
        BY <1>2, <1>3 DEF Opened
    <2>2. /\ pc' \in [Jobs -> Places] /\ pc'[j] = "nets"
          /\ session' \in [Jobs -> States] /\ \A k \in Jobs \ {j} : session'[k] = session[k]
        BY <1>3 DEF TypeOK, Places, States, Opened, Go
    <2>3. attempt' \in [Jobs -> 0..2] /\ (j \in left' => attempt'[j] = 2)
        <3>1. attempt \in [Jobs -> 0..2]
            BY DEF TypeOK
        <3> QED
            BY <1>1, <1>3, <3>1
    <2>4. TypeOK'
        BY <1>1, <1>3, <2>1, <2>2, <2>3 DEF TypeOK, Places, States, Edbs
    <2>5. Frame(j)
        BY <1>1, <1>3, <2>1, <2>2 DEF Frame, Opened, Go, TypeOK
    <2>6. JobInv(j)'
        BY <1>1, <1>3, <2>1, <2>2, <2>3 DEF JobInv, SessionOf, ProgressOf, TouchstoneOf, AtWork
    <2> QED
        BY <2>4, <2>5, <2>6 DEF Keeps
<1>4. ASSUME NEW part \in {NoEdb, [by |-> j, parts |-> {}]}, aedb' = [aedb EXCEPT ![Dir[j]] = part],
             MayLeave(j), UNCHANGED session
      PROVE  /\ Go(j, "open", "open") /\ attempt' = [attempt EXCEPT ![j] = 1] /\ UNCHANGED <<built, out>>
                => Keeps(j)
             /\ End(j, "open", Failed) => Keeps(j)
    <2>1. aedb' \in Edbs /\ \A w \in Dirs \ {Dir[j]} : aedb'[w] = aedb[w]
        BY <1>2, <1>4
    <2>2. CASE Go(j, "open", "open") /\ attempt' = [attempt EXCEPT ![j] = 1] /\ UNCHANGED <<built, out>>
        <3>1. pc' \in [Jobs -> Places] /\ pc'[j] = "open" /\ attempt' \in [Jobs -> 0..2] /\ attempt'[j] = 1
            BY <2>2 DEF TypeOK, Places, Go
        <3>2. TypeOK'
            BY <1>1, <1>4, <2>1, <2>2, <3>1 DEF TypeOK, Places, Edbs, MayLeave
        <3>3. Frame(j)
            BY <1>1, <1>4, <2>1, <2>2 DEF Frame, Go, TypeOK, MayLeave
        <3>4. JobInv(j)'
            BY <1>1, <1>4, <2>2, <3>1 DEF JobInv, SessionOf, ProgressOf, TouchstoneOf, AtWork
        <3> QED
            BY <3>2, <3>3, <3>4 DEF Keeps
    <2>3. CASE End(j, "open", Failed)
        BY <1>1, <1>4, <2>1, <2>3, FailedIsAnAnswer, EndKeeps DEF TypeOK, States, MayLeave
    <2> QED
        BY <2>2, <2>3
<1> QED
    BY <1>3, <1>4 DEF Open

\* A call that does not return leaves the job as it is.
LEMMA HangKeeps ==
    ASSUME TypeOK, NEW j \in Jobs, JobInv(j), Hang(j)
    PROVE  Keeps(j)
<1>1. PICK call \in {"open", "nets", "place", "stitch", "terminals", "save", "close"} :
          Go(j, call, "hung") /\ left' \in {left, left \cup {j}}
    BY DEF Hang, MayLeave
<1>2. pc' \in [Jobs -> Places] /\ pc[j] = call /\ pc'[j] = "hung"
    BY <1>1 DEF TypeOK, Places, Go
<1>3. /\ top' = top /\ deep' = deep /\ Wrote(top', top, j) /\ Wrote(deep', deep, j)
      /\ UNCHANGED <<attempt, session, built, aedb, out>>
    BY NothingWritten DEF Hang
<1>4. TypeOK'
    BY <1>1, <1>2, <1>3 DEF TypeOK, Places
<1>5. Frame(j)
    BY <1>1, <1>3 DEF Frame, Go, TypeOK
<1>6. JobInv(j)'
    BY <1>1, <1>2, <1>3 DEF JobInv, SessionOf, ProgressOf, TouchstoneOf, AtWork
<1> QED
    BY <1>4, <1>5, <1>6 DEF Keeps

\* Nobody holds the session of a job that was killed.
LEMMA KillKeeps ==
    ASSUME TypeOK, NEW j \in Jobs, JobInv(j), Kill(j)
    PROVE  Keeps(j)
<1>1. /\ session' \in [Jobs -> States] /\ session'[j] = "none"
      /\ \A k \in Jobs \ {j} : session'[k] = session[k]
    BY DEF Kill, TypeOK, States
<1>2. End(j, "hung", Failed) /\ left' \in {left, left \cup {j}}
    BY DEF Kill
<1>3. aedb' \in Edbs /\ aedb' = aedb /\ Wrote(top', top, j) /\ Wrote(deep', deep, j)
    BY NothingWritten DEF Kill, TypeOK, Edbs
<1> QED
    BY <1>1, <1>2, <1>3, FailedIsAnAnswer, EndKeeps

\* The solver leaves a touchstone or none, whatever the stage makes of its end.
LEMMA SolveKeeps ==
    ASSUME TypeOK, NEW j \in Jobs, JobInv(j), Solve(j)
    PROVE  Keeps(j)
<1>0. Dir[j] \in Dirs /\ top \in [Dirs -> Seq(Jobs)] /\ deep \in [Dirs -> Seq(Jobs)]
    BY DEF Dirs, TypeOK
<1>1. /\ pc[j] = "solve" /\ session' = session /\ session[j] = "none" /\ aedb' = aedb /\ left' = left
      /\ ~Has(top[Dir[j]], j) /\ ~Has(deep[Dir[j]], j) /\ out[j] = NoAnswer
    BY DEF Solve, Go, End, JobInv, SessionOf, TouchstoneOf
<1>2. Wrote(top', top, j) /\ Wrote(deep', deep, j)
    BY DEF Solve, Write, Wrote, snp
<1>3. /\ top' \in [Dirs -> Seq(Jobs)] /\ deep' \in [Dirs -> Seq(Jobs)]
      /\ Has(top'[Dir[j]], j) => Newest(top'[Dir[j]]) = j
      /\ Has(deep'[Dir[j]], j) => Newest(deep'[Dir[j]]) = j
    BY <1>0, <1>1, <1>2, WroteEffect
<1>4. ASSUME NEW next \in {"collect", "hung"}, Go(j, "solve", next), UNCHANGED <<attempt, built, out>>
      PROVE  Keeps(j)
    <2>1. pc' \in [Jobs -> Places] /\ pc'[j] = next
        BY <1>4 DEF TypeOK, Places, Go
    <2>2. TypeOK'
        BY <1>1, <1>3, <1>4, <2>1 DEF TypeOK, Places
    <2>3. Frame(j)
        BY <1>1, <1>2, <1>4 DEF Frame, Go, TypeOK
    <2>4. out'[j] = NoAnswer /\ \A k : NoAnswer # Found(k)
        BY <1>1, <1>4, AnswersDiffer
    <2>5. JobInv(j)'
        BY <1>1, <1>3, <1>4, <2>1, <2>4 DEF JobInv, SessionOf, ProgressOf, TouchstoneOf, AtWork
    <2> QED
        BY <2>2, <2>3, <2>5 DEF Keeps
<1>5. CASE End(j, "solve", Failed)
    BY <1>1, <1>2, <1>5, FailedIsAnAnswer, EndKeeps DEF TypeOK, Edbs, States
<1> QED
    BY <1>4, <1>5 DEF Solve

\* The newest touchstone of a listing is the job's own if the listing has it.
LEMMA CollectKeeps ==
    ASSUME TypeOK, InPlace, NEW j \in Jobs, JobInv(j), Collect(j)
    PROVE  Keeps(j)
<1>0. Dir[j] \in Dirs /\ top[Dir[j]] \in Seq(Jobs) /\ deep[Dir[j]] \in Seq(Jobs)
    BY DEF Dirs, TypeOK
<1>1. /\ pc[j] = "collect" /\ UNCHANGED <<session, aedb, left>> /\ session[j] = "none"
      /\ top' = top /\ deep' = deep /\ Wrote(top', top, j) /\ Wrote(deep', deep, j)
    BY NothingWritten DEF Collect, Go, End, JobInv, SessionOf
<1>2. CASE End(j, "collect", Failed)
    BY <1>1, <1>2, FailedIsAnAnswer, EndKeeps DEF TypeOK, Edbs, States
<1>3. ASSUME Listing(Dir[j]) # << >>, End(j, "collect", Found(Newest(Listing(Dir[j]))))
      PROVE  Keeps(j)
    <2> DEFINE s == Listing(Dir[j])
               k == Newest(s)
    <2>1. s \in Seq(Jobs) /\ (s = top[Dir[j]] \/ (top[Dir[j]] = << >> /\ s = deep[Dir[j]]))
        BY <1>0 DEF Listing
    <2>2. Len(s) \in DOMAIN s /\ k = s[Len(s)] /\ k \in Jobs
        BY <1>3, <2>1 DEF Newest
    <2>3. Has(s, k)
        BY <2>2 DEF Has
    <2>4. Dir[k] = Dir[j]
        BY <1>0, <2>1, <2>2, <2>3 DEF InPlace, Placed
    <2>5. Found(k) \in Answers
        BY <2>2 DEF Answers
    <2>6. ASSUME k # j
          PROVE  ~Has(top[Dir[j]], j) /\ (Has(deep[Dir[j]], j) => Has(top[Dir[j]], k))
        <3>1. ~Has(s, j)
            BY <1>1, <2>1, <2>6 DEF JobInv, TouchstoneOf
        <3>2. CASE s = top[Dir[j]]
            BY <2>3, <3>1, <3>2
        <3>3. CASE top[Dir[j]] = << >> /\ s = deep[Dir[j]]
            BY <3>1, <3>3 DEF Has
        <3> QED
            BY <2>1, <3>2, <3>3
    <2>7. \A m \in Jobs \ {j} : Found(k) = Found(m) =>
              /\ Dir[m] = Dir[j]
              /\ ~Has(top[Dir[j]], j)
              /\ Has(deep[Dir[j]], j) => Has(top[Dir[j]], m)
        BY <2>4, <2>6, AnswersDiffer
    <2> HIDE DEF k
    <2> QED
        BY <1>1, <1>3, <2>5, <2>7, EndKeeps DEF TypeOK, Edbs, States, k
<1> QED
    BY <1>2, <1>3 DEF Collect

-----------------------------------------------------------------------------
Acts(j) == Start(j) \/ Step(j) \/ Kill(j)

LEMMA ActKeeps ==
    ASSUME TypeOK, InPlace, NEW j \in Jobs, JobInv(j), Acts(j)
    PROVE  Keeps(j)
BY StartKeeps, OpenKeeps, SetupKeeps, HangKeeps, SolveKeeps, CollectKeeps, KillKeeps DEF Step, Acts

\* A step starts a job in a directory of its own, or is of a job at work.
LEMMA ActIsAlone ==
    ASSUME Alone, NEW j \in Jobs, Acts(j)
    PROVE  \A k \in Jobs \ {j} : AtWork(k) => Dir[k] # Dir[j]
<1>1. CASE Start(j)
    BY <1>1 DEF Start, AtWork
<1>2. CASE Step(j) \/ Kill(j)
    <2>1. AtWork(j)
        BY <1>2 DEF Step, Open, Opened, Setup, Hang, Kill, Solve, Collect, Nets, Place, Stitch,
                    Terminals, Save, CloseEdb, Fail, End, Go, AtWork
    <2> QED
        BY <2>1 DEF Alone
<1> QED BY <1>1, <1>2 DEF Acts

\* The step of a job leaves the invariant of the others.
LEMMA OthersKeep ==
    ASSUME TypeOK, Alone, NEW j \in Jobs, Acts(j), Frame(j),
           NEW k \in Jobs \ {j}, JobInv(k)
    PROVE  JobInv(k)'
<1>0. Dir[k] \in Dirs /\ Dir[j] \in Dirs /\ top \in [Dirs -> Seq(Jobs)] /\ deep \in [Dirs -> Seq(Jobs)]
    BY DEF Dirs, TypeOK
<1>1. /\ pc'[k] = pc[k] /\ attempt'[k] = attempt[k] /\ built'[k] = built[k] /\ out'[k] = out[k]
      /\ session'[k] = session[k] \/ (session[k] = "live" /\ session'[k] = "killed")
      /\ k \in left' <=> k \in left
    BY DEF Frame
<1>2. /\ \A w \in Dirs \ {Dir[j]} : top'[w] = top[w] /\ deep'[w] = deep[w]
      /\ \A w \in Dirs, m \in Jobs : Has(top[w], m) => Has(top'[w], m)
      /\ Has(top'[Dir[k]], k) => Has(top[Dir[k]], k)
      /\ Has(deep'[Dir[k]], k) => Has(deep[Dir[k]], k)
    <2>1. Wrote(top', top, j) /\ Wrote(deep', deep, j)
        BY DEF Frame
    <2> DEFINE Effect(new, old) ==
                   /\ \A w \in Dirs \ {Dir[j]} : new[w] = old[w]
                   /\ \A w \in Dirs, m \in Jobs : Has(old[w], m) => Has(new[w], m)
                   /\ \A w \in Dirs, m \in Jobs \ {j} : Has(new[w], m) => Has(old[w], m)
    <2>2. ASSUME NEW old \in [Dirs -> Seq(Jobs)], NEW new, Wrote(new, old, j)
          PROVE  Effect(new, old)
        BY <2>2, WroteEffect
    <2> HIDE DEF Effect
    <2>3. Effect(top', top) /\ Effect(deep', deep)
        BY <1>0, <2>1, <2>2
    <2> USE DEF Effect
    <2> QED
        BY <1>0, <2>3
<1>3. AtWork(k) => /\ aedb'[Dir[k]] = aedb[Dir[k]]
                   /\ top'[Dir[k]] = top[Dir[k]] /\ deep'[Dir[k]] = deep[Dir[k]]
    BY <1>0, <1>2, ActIsAlone DEF Frame
<1>4. SessionOf(k)'
    BY <1>1 DEF JobInv, SessionOf
<1>5. ProgressOf(k)'
    BY <1>1, <1>3 DEF JobInv, ProgressOf, AtWork, Live
<1>6. TouchstoneOf(k)'
    <2>1. /\ pc'[k] \notin {"hung", "collect", "ended"} =>
                 ~Has(top'[Dir[k]], k) /\ ~Has(deep'[Dir[k]], k)
          /\ pc'[k] # "ended" => out'[k] = NoAnswer
        BY <1>1, <1>2 DEF JobInv, TouchstoneOf
    <2>2. pc'[k] = "collect" =>
              /\ Has(top'[Dir[k]], k) => Newest(top'[Dir[k]]) = k
              /\ Has(deep'[Dir[k]], k) => Newest(deep'[Dir[k]]) = k
        BY <1>1, <1>3 DEF JobInv, TouchstoneOf, AtWork
    <2>3. ASSUME NEW m \in Jobs \ {k}, out'[k] = Found(m)
          PROVE  /\ Dir[m] = Dir[k]
                 /\ ~Has(top'[Dir[k]], k)
                 /\ Has(deep'[Dir[k]], k) => Has(top'[Dir[k]], m)
        BY <1>0, <1>1, <1>2, <2>3 DEF JobInv, TouchstoneOf
    <2> QED
        BY <2>1, <2>2, <2>3 DEF TouchstoneOf
<1> QED
    BY <1>4, <1>5, <1>6 DEF JobInv

LEMMA InvInit == Init => Inv
<1> SUFFICES ASSUME Init PROVE Inv
    OBVIOUS
<1> USE DEF Init
<1>1. TypeOK
    BY DEF TypeOK, NoEdb
<1>2. Alone /\ InPlace
    <2>1. \A w \in Dirs, k \in Jobs : ~Has(top[w], k) /\ ~Has(deep[w], k)
        BY DEF Has
    <2> QED
        BY <2>1 DEF Alone, InPlace, Placed, AtWork
<1>3. ASSUME NEW j \in Jobs
      PROVE  JobInv(j)
    <2>1. Dir[j] \in Dirs
        BY DEF Dirs
    <2>2. top[Dir[j]] = << >> /\ deep[Dir[j]] = << >>
        BY <2>1
    <2>3. ~Has(top[Dir[j]], j) /\ ~Has(deep[Dir[j]], j)
        BY <2>2 DEF Has
    <2> QED
        BY <2>3, AnswersDiffer DEF JobInv, SessionOf, ProgressOf, TouchstoneOf, AtWork
<1> QED
    BY <1>1, <1>2, <1>3 DEF Inv

LEMMA InvStep == Inv /\ [Next]_vars => Inv'
<1> SUFFICES ASSUME Inv, [Next]_vars PROVE Inv'
    OBVIOUS
<1>1. CASE UNCHANGED vars
    BY <1>1 DEF vars, snp, Inv, TypeOK, Alone, InPlace, Placed, JobInv, SessionOf, ProgressOf,
                TouchstoneOf, AtWork, Live
<1>2. ASSUME NEW j \in Jobs, Acts(j)
      PROVE  Inv'
    <2>1. TypeOK' /\ Frame(j) /\ JobInv(j)'
        BY <1>2, ActKeeps DEF Inv, Keeps
    <2>2. \A k \in Jobs : JobInv(k)'
        BY <1>2, <2>1, OthersKeep DEF Inv
    <2>3. Alone'
        <3>1. \A k \in Jobs \ {j} : (AtWork(k)' <=> AtWork(k)) /\ (AtWork(k) => Dir[k] # Dir[j])
            BY <1>2, <2>1, ActIsAlone DEF Frame, AtWork, Inv
        <3> QED
            BY <3>1 DEF Alone, Inv
    <2>4. InPlace'
        <3>1. top \in [Dirs -> Seq(Jobs)] /\ deep \in [Dirs -> Seq(Jobs)] /\ Placed(top) /\ Placed(deep)
            BY DEF Inv, TypeOK, InPlace
        <3>2. Placed(top') /\ Placed(deep')
            BY <2>1, <3>1, WroteEffect DEF Frame
        <3> QED
            BY <3>2 DEF InPlace, Placed
    <2> QED
        BY <2>1, <2>2, <2>3, <2>4 DEF Inv
<1> QED
    BY <1>1, <1>2 DEF Next, Acts

-----------------------------------------------------------------------------
(* The invariant and the properties it implies.                              *)

\* The inductive invariant: directories are not shared by jobs at work, a session
\* that was not killed has all that was set up in it, touchstones are in place.
THEOREM SolveInvHolds == Spec => []Inv
<1>1. Init => Inv
    BY InvInit
<1>2. Inv /\ [Next]_vars => Inv'
    BY InvStep
<1> QED
    BY <1>1, <1>2, PTL DEF Spec

\* The variables of the jobs, their sessions and directories keep their types.
THEOREM TypeCorrect == Spec => []TypeOK
<1>1. Inv => TypeOK
    BY DEF Inv
<1> QED
    BY <1>1, SolveInvHolds, PTL

\* Whatever siblings close, and whenever, what is solved was made by this job and
\* has its stubs, ports and setup (build_and_solve.py:91).
THEOREM SolvedIsAlwaysSetUp == Spec => []SolvedIsSetUp
<1>1. Inv => SolvedIsSetUp
    BY DEF Inv, JobInv, ProgressOf, AtWork, Needed, SolvedIsSetUp
<1> QED
    BY <1>1, SolveInvHolds, PTL

\* Whoever answers or solves has tried to close its session, and a job that solves has
\* left no other than that of a failed first open (build_and_solve.py:96-107, :263-269).
THEOREM NoSessionOutlivesItsJob == Spec => []SessionsAreClosed
<1>1. Inv => SessionsAreClosed
    BY DEF Inv, JobInv, SessionOf, SessionsAreClosed
<1> QED
    BY <1>1, SolveInvHolds, PTL

\* A job that names a touchstone of another worked in its directory and has none of its
\* own at the level it was searched for at (build_and_solve.py:285-287).
THEOREM TouchstonesAreOwn == Spec => []TouchstoneIsOwn
<1>1. Inv => TouchstoneIsOwn
    BY DEF Inv, JobInv, TouchstoneOf, TouchstoneIsOwn
<1> QED
    BY <1>1, SolveInvHolds, PTL
=============================================================================
