---------------------------- MODULE CassetteProofs --------------------------
(* Theorems about the cassette, for any recorders, replayers, requests and    *)
(* responses: a call returns what the model gave for this very request, whole *)
(* unless a put was cut short or overlapped; and nothing else is not whole.   *)
EXTENDS Cassette, TLAPS

\* What a process that is at work on a request has: the request, a response to it
\* that the model gave, a file that was opened.
ProcessInv(u) ==
    /\ pc[u] # "idle" => req[u] \in Requests /\ Len(log[u]) < calls
    /\ pc[u] \in {"put", "write"} => resp[u] \in answered[req[u]]
    /\ pc[u] = "write" => file[Key(req[u])] \in Seq(answered[req[u]])

\* Whatever is in the file of a request is of responses to this request.
FileInv == \A q \in Requests : file[Key(q)] \in {None} \cup Seq(answered[q])

\* A key that is not hurt has no writer, or one with an empty file before it.
Quiet(k) ==
    \/ WritersAt(k) = {} /\ (file[k] = None \/ Whole(file[k], Responses))
    \/ \E u \in Users : WritersAt(k) = {u} /\ file[k] = << >>
WritersInv == \A k \in Keys \ hurt : Quiet(k)

\* A text that may be returned: of one answer, or mixed at a key that is hurt.
Answer(q, text, A, H) == Whole(text, A[q]) \/ (Key(q) \in H /\ text \in Seq(A[q]))

Inv ==
    /\ TypeOK
    /\ \A u \in Users : ProcessInv(u)
    /\ FileInv
    /\ ReturnsAreAnswers
    /\ WritersInv

-----------------------------------------------------------------------------
(* Keys, and what is written into files.                                     *)

LEMMA KeysAreExact ==
    /\ \A q \in Requests : Key(q) \in Keys
    /\ \A p, q \in Requests : Key(p) = Key(q) => p = q
<1>1. ASSUME NEW p \in Requests, NEW q \in Requests, Key(p) = Key(q)
      PROVE  p = q
    <2>1. p.prompt = q.prompt /\ p.schema = q.schema
        BY <1>1 DEF Key
    <2> QED
        BY <2>1 DEF Requests
<1> QED
    BY <1>1 DEF Keys

LEMMA SeqGrows ==
    ASSUME NEW A, NEW B, A \subseteq B, NEW s \in Seq(A)
    PROVE  s \in Seq(B)
<1>1. Len(s) \in Nat /\ s \in [1..Len(s) -> A]
    OBVIOUS
<1>2. s \in [1..Len(s) -> B]
    BY <1>1
<1> QED
    BY <1>1, <1>2

LEMMA TextIsOf ==
    ASSUME NEW r \in Responses
    PROVE  /\ Len(Text(r)) = Size[r] /\ Size[r] \in Nat \ {0}
           /\ Text(r) # None /\ Text(r) \in Readable
           /\ \A A : (r \in A => Text(r) \in Seq(A)) /\ (Text(r) \in Seq(A) => r \in A)
<1>1. Size[r] \in Nat \ {0}
    BY SizeAssumption
<1>2. Text(r) \in [1..Size[r] -> {r}]
    BY DEF Text
<1>3. Text(r) \in Seq({r}) /\ Len(Text(r)) = Size[r]
    BY <1>1, <1>2 DEF Text
<1>4. ASSUME NEW A, r \in A
      PROVE  Text(r) \in Seq(A)
    BY <1>3, <1>4, SeqGrows
<1>5. ASSUME NEW A, Text(r) \in Seq(A)
      PROVE  r \in A
    <2>1. 1 \in 1..Size[r] /\ Text(r)[1] = r
        BY <1>1 DEF Text
    <2>2. Text(r)[1] \in A
        BY <1>3, <1>5, <2>1
    <2> QED
        BY <2>1, <2>2
<1>6. Text(r) # None /\ Text(r) \in Readable
    BY NoneAssumption, ReadableAssumption DEF Parses
<1> QED
    BY <1>1, <1>3, <1>4, <1>5, <1>6

LEMMA OverIsOf ==
    ASSUME NEW A, NEW f \in Seq(A), NEW text \in Seq(A)
    PROVE  Over(f, text) \in Seq(A)
<1> DEFINE n == IF Len(f) > Len(text) THEN Len(f) ELSE Len(text)
<1>1. n \in Nat
    OBVIOUS
<1>2. ASSUME NEW i \in 1..n
      PROVE  (IF i <= Len(text) THEN text[i] ELSE f[i]) \in A
    <2>1. CASE i <= Len(text)
        BY <2>1
    <2>2. CASE ~ (i <= Len(text))
        <3>1. i \in 1..Len(f)
            BY <2>2
        <3> QED
            BY <2>2, <3>1
    <2> QED BY <2>1, <2>2
<1>3. Over(f, text) \in [1..n -> A]
    BY <1>2 DEF Over
<1> QED
    BY <1>1, <1>3

LEMMA OverEmpty ==
    ASSUME NEW r \in Responses
    PROVE  Over(<< >>, Text(r)) = Text(r)
<1>1. Len(Text(r)) = Size[r] /\ Size[r] \in Nat \ {0}
    BY TextIsOf
<1>2. Over(<< >>, Text(r)) = [i \in 1..Size[r] |-> IF i <= Size[r] THEN Text(r)[i] ELSE << >>[i]]
    BY <1>1 DEF Over
<1> QED
    BY <1>1, <1>2 DEF Text

LEMMA PrefixIsOf ==
    ASSUME NEW A, NEW s \in Seq(A), NEW n \in 0..Len(s)
    PROVE  SubSeq(s, 1, n) \in Seq(A)
OBVIOUS

-----------------------------------------------------------------------------
(* What a step keeps, all but the writers.                                   *)

\* A step of process u leaves the others' calls, takes no answer back, puts into a
\* file what was answered to its request, and logs at most one response, to the
\* request it is at.
Logs(u) == \E text \in Readable :
    /\ req[u] \in Requests /\ Answer(req[u], text, answered, hurt)
    /\ log'[u] = Append(log[u], [req |-> req[u], resp |-> text])
Frame(u) ==
    /\ \A v \in Users \ {u} :
         pc'[v] = pc[v] /\ req'[v] = req[v] /\ resp'[v] = resp[v] /\ log'[v] = log[v]
    /\ \A q \in Requests : answered[q] \subseteq answered'[q]
    /\ \A q \in Requests : \/ file'[Key(q)] = file[Key(q)]
                           \/ file'[Key(q)] \in Seq(answered[q])
    /\ calls <= calls' /\ hurt \subseteq hurt'
    /\ log'[u] \in {log[u], << >>} \/ Logs(u)

Keeps(u) == TypeOK' /\ ProcessInv(u)' /\ Frame(u)

Places == {"idle", "get", "read", "ask", "put", "write"}

LEMMA EndsEffect ==
    ASSUME TypeOK, NEW u \in Users, NEW from, Ends(u, from)
    PROVE  /\ pc' \in [Users -> Places] /\ pc[u] = from /\ pc'[u] = "idle"
           /\ req' \in [Users -> Requests \cup {None}]
           /\ resp' \in [Users -> Responses \cup {None}]
           /\ \A v \in Users \ {u} : pc'[v] = pc[v] /\ req'[v] = req[v] /\ resp'[v] = resp[v]
BY DEF TypeOK, Places, Ends, Go

\* A call that ends without a response.
LEMMA RaisesKeeps ==
    ASSUME TypeOK, NEW u \in Users, NEW from, Ends(u, from),
           log' \in {log, [log EXCEPT ![u] = << >>]}, UNCHANGED <<calls, answered>>,
           file' \in [Keys -> {None} \cup Seq(Responses)],
           \A q \in Requests : \/ file'[Key(q)] = file[Key(q)]
                              \/ file'[Key(q)] \in Seq(answered[q]),
           hurt \subseteq hurt', hurt' \subseteq Keys
    PROVE  Keeps(u)
<1>1. /\ pc' \in [Users -> Places] /\ pc[u] = from /\ pc'[u] = "idle"
      /\ req' \in [Users -> Requests \cup {None}]
      /\ resp' \in [Users -> Responses \cup {None}]
      /\ \A v \in Users \ {u} : pc'[v] = pc[v] /\ req'[v] = req[v] /\ resp'[v] = resp[v]
    BY EndsEffect
<1>2. /\ log' \in [Users -> Seq(Entry)] /\ log'[u] \in {log[u], << >>}
      /\ \A v \in Users \ {u} : log'[v] = log[v]
    <2>1. log \in [Users -> Seq(Entry)] /\ << >> \in Seq(Entry)
        BY DEF TypeOK
    <2>2. CASE log' = log
        BY <2>1, <2>2
    <2>3. CASE log' = [log EXCEPT ![u] = << >>]
        BY <2>1, <2>3
    <2> QED
        BY <2>2, <2>3
<1>3. \A v \in Users : Len(log'[v]) <= calls'
    BY <1>2, BoundAssumption DEF TypeOK
<1>4. TypeOK'
    BY <1>1, <1>2, <1>3 DEF TypeOK, Places
<1>5. ProcessInv(u)'
    BY <1>1 DEF ProcessInv
<1>6. Frame(u)
    BY <1>1, <1>2, BoundAssumption DEF Frame, TypeOK
<1> QED
    BY <1>4, <1>5, <1>6 DEF Keeps

\* A call that returns a response that was given to its request.
LEMMA ReturnsKeeps ==
    ASSUME TypeOK, NEW u \in Users, ProcessInv(u), NEW from, NEW text \in Readable,
           Returns(u, from, text), from # "idle", Answer(req[u], text, answered, hurt),
           UNCHANGED <<calls, answered, hurt>>,
           file' \in [Keys -> {None} \cup Seq(Responses)],
           \A q \in Requests : \/ file'[Key(q)] = file[Key(q)]
                              \/ file'[Key(q)] \in Seq(answered[q])
    PROVE  Keeps(u)
<1>1. /\ pc' \in [Users -> Places] /\ pc[u] = from /\ pc'[u] = "idle"
      /\ req' \in [Users -> Requests \cup {None}]
      /\ resp' \in [Users -> Responses \cup {None}]
      /\ \A v \in Users \ {u} : pc'[v] = pc[v] /\ req'[v] = req[v] /\ resp'[v] = resp[v]
    BY EndsEffect DEF Returns
<1>2. req[u] \in Requests /\ Len(log[u]) < calls
    BY <1>1 DEF ProcessInv, TypeOK
<1> DEFINE entry == [req |-> req[u], resp |-> text]
<1>3. entry \in Entry
    BY <1>2 DEF Entry
<1>4. /\ log' = [log EXCEPT ![u] = Append(log[u], entry)]
      /\ log[u] \in Seq(Entry) /\ log \in [Users -> Seq(Entry)]
    BY DEF Returns, TypeOK
<1>5. Append(log[u], entry) \in Seq(Entry) /\ Len(Append(log[u], entry)) = Len(log[u]) + 1
    BY <1>3, <1>4
<1>6. /\ log' \in [Users -> Seq(Entry)] /\ log'[u] = Append(log[u], entry)
      /\ \A v \in Users \ {u} : log'[v] = log[v]
    BY <1>4, <1>5
<1>7. \A v \in Users : Len(log'[v]) <= calls'
    BY <1>2, <1>4, <1>5, <1>6, BoundAssumption DEF TypeOK
<1>8. TypeOK'
    BY <1>1, <1>6, <1>7 DEF TypeOK, Places
<1>9. ProcessInv(u)'
    BY <1>1 DEF ProcessInv
<1>10. Frame(u)
    BY <1>1, <1>2, <1>6, BoundAssumption DEF Frame, Logs, TypeOK
<1> QED
    BY <1>8, <1>9, <1>10 DEF Keeps

\* A call that goes on.
LEMMA GoesOnKeeps ==
    ASSUME TypeOK, NEW u \in Users, NEW from, NEW to \in Places, Go(u, from, to), UNCHANGED log,
           \A v \in Users \ {u} : req'[v] = req[v] /\ resp'[v] = resp[v],
           req' \in [Users -> Requests \cup {None}], resp' \in [Users -> Responses \cup {None}],
           answered' \in [Requests -> SUBSET Responses],
           \A q \in Requests : answered[q] \subseteq answered'[q],
           file' \in [Keys -> {None} \cup Seq(Responses)],
           \A q \in Requests : \/ file'[Key(q)] = file[Key(q)]
                              \/ file'[Key(q)] \in Seq(answered[q]),
           calls' \in 0..MaxCalls, calls <= calls', hurt \subseteq hurt', hurt' \subseteq Keys, ProcessInv(u)'
    PROVE  Keeps(u)
<1>1. pc' \in [Users -> Places] /\ \A v \in Users \ {u} : pc'[v] = pc[v]
    BY DEF TypeOK, Places, Go
<1>2. \A v \in Users : Len(log'[v]) <= calls'
    BY BoundAssumption DEF TypeOK
<1>3. TypeOK'
    BY <1>1, <1>2 DEF TypeOK, Places
<1>4. Frame(u)
    BY <1>1 DEF Frame
<1> QED
    BY <1>3, <1>4 DEF Keeps

LEMMA StepKeeps ==
    ASSUME TypeOK, FileInv, WritersInv, NEW u \in Users, ProcessInv(u),
           Complete(u) \/ Step(u) \/ Die(u)
    PROVE  Keeps(u)
<1> DEFINE q == req[u]
           k == Key(req[u])
<1>0. /\ file \in [Keys -> {None} \cup Seq(Responses)]
      /\ answered \in [Requests -> SUBSET Responses]
      /\ calls \in 0..MaxCalls /\ hurt \subseteq Keys
      /\ req \in [Users -> Requests \cup {None}] /\ resp \in [Users -> Responses \cup {None}]
    BY DEF TypeOK
<1>1. CASE Complete(u)
    <2>1. PICK p \in Requests : req' = [req EXCEPT ![u] = p]
        BY <1>1 DEF Complete
    <2>2. PICK to \in {"ask", "get"} : Go(u, "idle", to)
        BY <1>1 DEF Complete
    <2>3. calls' = calls + 1 /\ calls < MaxCalls /\ UNCHANGED <<file, resp, log, answered, hurt>>
        BY <1>1 DEF Complete
    <2>4. calls' \in 0..MaxCalls /\ calls <= calls'
        BY <1>0, <2>3, BoundAssumption
    <2>5. req'[u] = p /\ req' \in [Users -> Requests \cup {None}] /\ \A v \in Users \ {u} : req'[v] = req[v]
        BY <1>0, <2>1
    <2>6. pc'[u] = to
        BY <2>2 DEF Go, TypeOK
    <2>7. Len(log'[u]) < calls'
        <3>1. log[u] \in Seq(Entry) /\ Len(log[u]) <= calls
            BY DEF TypeOK
        <3> QED
            BY <1>0, <2>3, <3>1, BoundAssumption
    <2>8. ProcessInv(u)'
        BY <2>2, <2>5, <2>6, <2>7 DEF ProcessInv
    <2> QED
        BY <1>0, <2>2, <2>3, <2>4, <2>5, <2>8, GoesOnKeeps DEF Places
<1>2. CASE Get(u)
    <2>1. CASE file[k] = None
        BY <1>0, <1>2, <2>1, RaisesKeeps DEF Get
    <2>2. CASE file[k] # None
        <3>1. Go(u, "get", "read") /\ UNCHANGED <<req, resp, file, log, calls, answered, hurt>>
            BY <1>2, <2>2 DEF Get
        <3>2. ProcessInv(u)'
            BY <3>1 DEF ProcessInv, Go, TypeOK
        <3> QED
            BY <1>0, <3>1, <3>2, BoundAssumption, GoesOnKeeps DEF Places
    <2> QED BY <2>1, <2>2
<1>3. CASE Read(u)
    <2>1. ASSUME Parses(file[k]), Returns(u, "read", file[k])
          PROVE  Keeps(u)
        <3>1. q \in Requests /\ k \in Keys
            BY <2>1, KeysAreExact DEF ProcessInv, Returns, Ends, Go
        <3>2. file[k] \in Readable /\ file[k] # None /\ file[k] # << >>
            BY <2>1, NoneAssumption, ReadableAssumption DEF Parses
        <3>3. file[k] \in Seq(answered[q])
            BY <3>1, <3>2 DEF FileInv
        <3>4. k \notin hurt => Whole(file[k], answered[q])
            <4>1. k \notin hurt => Whole(file[k], Responses)
                BY <3>1, <3>2 DEF WritersInv, Quiet
            <4> QED
                BY <3>3, <4>1, TextIsOf DEF Whole
        <3>5. Answer(q, file[k], answered, hurt)
            BY <3>3, <3>4 DEF Answer
        <3> QED
            BY <1>0, <1>3, <2>1, <3>2, <3>5, ReturnsKeeps DEF Read
    <2>2. CASE Ends(u, "read") /\ UNCHANGED log
        BY <1>0, <1>3, <2>2, RaisesKeeps DEF Read
    <2> QED
        BY <1>3, <2>1, <2>2 DEF Read
<1>4. CASE Ask(u)
    <2>1. CASE Ends(u, "ask") /\ UNCHANGED answered
        BY <1>0, <1>4, <2>1, RaisesKeeps DEF Ask
    <2>2. ASSUME NEW r \in Responses, Go(u, "ask", "put"), resp' = [resp EXCEPT ![u] = r],
                 answered' = [answered EXCEPT ![q] = @ \cup {r}], UNCHANGED req
          PROVE  Keeps(u)
        <3>1. q \in Requests /\ Len(log[u]) < calls
            BY <2>2 DEF ProcessInv, Go
        <3>2. /\ answered' \in [Requests -> SUBSET Responses] /\ r \in answered'[q]
              /\ \A p \in Requests : answered[p] \subseteq answered'[p]
            BY <1>0, <2>2, <3>1
        <3>3. resp' \in [Users -> Responses \cup {None}] /\ resp'[u] = r
              /\ \A v \in Users \ {u} : resp'[v] = resp[v]
            BY <1>0, <2>2
        <3>4. UNCHANGED <<file, log, calls, hurt>> /\ pc'[u] = "put"
            BY <1>4, <2>2 DEF Ask, Go, TypeOK
        <3>5. ProcessInv(u)'
            BY <2>2, <3>1, <3>2, <3>3, <3>4 DEF ProcessInv
        <3> QED
            BY <1>0, <2>2, <3>2, <3>3, <3>4, <3>5, BoundAssumption, GoesOnKeeps DEF Places
    <2> QED
        BY <1>4, <2>1, <2>2 DEF Ask
<1>5. CASE Put(u)
    <2>1. CASE Ends(u, "put") /\ UNCHANGED <<file, hurt>>
        BY <1>0, <1>5, <2>1, RaisesKeeps DEF Put
    <2>2. CASE /\ Go(u, "put", "write") /\ file' = [file EXCEPT ![k] = << >>]
               /\ hurt' = (IF WritersAt(k) = {} THEN hurt ELSE hurt \cup {k})
               /\ UNCHANGED <<req, resp, log, calls, answered>>
        <3>1. q \in Requests /\ Len(log[u]) < calls /\ resp[u] \in answered[q] /\ k \in Keys
            BY <2>2, KeysAreExact DEF ProcessInv, Go
        <3>2. /\ file' \in [Keys -> {None} \cup Seq(Responses)] /\ file'[k] = << >>
              /\ \A p \in Requests : \/ file'[Key(p)] = file[Key(p)]
                                     \/ file'[Key(p)] \in Seq(answered[p])
            BY <1>0, <2>2, <3>1, KeysAreExact
        <3>3. pc'[u] = "write" /\ hurt \subseteq hurt' /\ hurt' \subseteq Keys
            BY <1>0, <2>2, <3>1 DEF Go, TypeOK
        <3>4. ProcessInv(u)'
            BY <2>2, <3>1, <3>2, <3>3 DEF ProcessInv
        <3> QED
            BY <1>0, <2>2, <3>2, <3>3, <3>4, BoundAssumption, GoesOnKeeps DEF Places
    <2> QED
        BY <1>5, <2>1, <2>2 DEF Put
<1>6. ASSUME NEW text \in Seq(answered[q]), pc[u] = "write", file' = [file EXCEPT ![k] = Over(@, text)]
      PROVE  /\ file' \in [Keys -> {None} \cup Seq(Responses)]
             /\ \A p \in Requests : \/ file'[Key(p)] = file[Key(p)]
                                    \/ file'[Key(p)] \in Seq(answered[p])
    <2>1. q \in Requests /\ k \in Keys /\ file[k] \in Seq(answered[q])
        BY <1>6, KeysAreExact DEF ProcessInv
    <2>2. Over(file[k], text) \in Seq(answered[q])
        BY <2>1, OverIsOf
    <2>3. Over(file[k], text) \in Seq(Responses)
        BY <1>0, <2>1, <2>2, SeqGrows
    <2> QED
        BY <1>0, <1>6, <2>1, <2>2, <2>3, KeysAreExact
<1>7. CASE Write(u)
    <2>1. q \in Requests /\ resp[u] \in answered[q] /\ pc[u] = "write" /\ resp[u] \in Responses
        BY <1>0, <1>7 DEF Write, Returns, Ends, Go, ProcessInv
    <2>2. Text(resp[u]) \in Seq(answered[q])
        BY <2>1, TextIsOf
    <2>3. file' = [file EXCEPT ![k] = Over(@, Text(resp[u]))]
        BY <1>7 DEF Write
    <2>4. /\ file' \in [Keys -> {None} \cup Seq(Responses)]
          /\ \A p \in Requests : \/ file'[Key(p)] = file[Key(p)]
                                 \/ file'[Key(p)] \in Seq(answered[p])
        BY <1>6, <2>1, <2>2, <2>3
    <2>5. Text(resp[u]) \in Readable /\ Answer(q, Text(resp[u]), answered, hurt)
        BY <2>1, TextIsOf DEF Answer, Whole
    <2> QED
        BY <1>7, <2>1, <2>4, <2>5, ReturnsKeeps DEF Write
<1>8. CASE WriteFails(u)
    <2>1. /\ q \in Requests /\ resp[u] \in answered[q] /\ pc[u] = "write" /\ resp[u] \in Responses
          /\ k \in Keys
        BY <1>0, <1>8, KeysAreExact DEF WriteFails, Ends, Go, ProcessInv
    <2>2. /\ Text(resp[u]) \in Seq(answered[q])
          /\ Len(Text(resp[u])) = Size[resp[u]] /\ Size[resp[u]] \in Nat \ {0}
        BY <2>1, TextIsOf
    <2>3. PICK n \in 0..(Size[resp[u]] - 1) :
              file' = [file EXCEPT ![k] = Over(@, SubSeq(Text(resp[u]), 1, n))]
        BY <1>8 DEF WriteFails
    <2>4. SubSeq(Text(resp[u]), 1, n) \in Seq(answered[q])
        <3>1. n \in 0..Len(Text(resp[u]))
            BY <2>2, <2>3
        <3> QED
            BY <2>2, <3>1, PrefixIsOf
    <2>5. /\ file' \in [Keys -> {None} \cup Seq(Responses)]
          /\ \A p \in Requests : \/ file'[Key(p)] = file[Key(p)]
                                 \/ file'[Key(p)] \in Seq(answered[p])
        BY <1>6, <2>1, <2>3, <2>4
    <2>6. hurt \subseteq hurt' /\ hurt' \subseteq Keys
        BY <1>0, <1>8, <2>1 DEF WriteFails
    <2> QED
        BY <1>8, <2>5, <2>6, RaisesKeeps DEF WriteFails
<1>9. CASE Die(u)
    <2>1. pc[u] # "idle" /\ k \in Keys
        BY <1>9, KeysAreExact DEF Die, ProcessInv
    <2>2. hurt \subseteq hurt' /\ hurt' \subseteq Keys
        BY <1>0, <1>9, <2>1 DEF Die
    <2> QED
        BY <1>0, <1>9, <2>2, RaisesKeeps DEF Die
<1> QED
    BY <1>1, <1>2, <1>3, <1>4, <1>5, <1>7, <1>8, <1>9 DEF Step

-----------------------------------------------------------------------------
(* The writers of a key.                                                     *)

\* A step that neither begins nor ends a write at a key leaves it as it was.
LEMMA QuietStays ==
    ASSUME NEW k \in Keys, Quiet(k), NEW u \in Users,
           \A v \in Users \ {u} : pc'[v] = pc[v] /\ req'[v] = req[v],
           ~ (pc[u] = "write" /\ Key(req[u]) = k), ~ (pc'[u] = "write" /\ Key(req'[u]) = k),
           file'[k] = file[k]
    PROVE  Quiet(k)'
<1>1. WritersAt(k)' = WritersAt(k)
    BY DEF WritersAt
<1> QED
    BY <1>1 DEF Quiet

LEMMA QuietStep ==
    ASSUME TypeOK, NEW u \in Users, ProcessInv(u), Complete(u) \/ Step(u) \/ Die(u), Frame(u),
           NEW k \in Keys, k \notin hurt', k \notin hurt => Quiet(k)
    PROVE  Quiet(k)'
<1>0. /\ \A v \in Users \ {u} : pc'[v] = pc[v] /\ req'[v] = req[v]
      /\ file \in [Keys -> {None} \cup Seq(Responses)]
    BY DEF Frame, TypeOK
<1>1. CASE Complete(u) \/ Get(u) \/ Read(u) \/ Ask(u)
    <2>1. pc[u] # "write" /\ pc'[u] # "write" /\ UNCHANGED <<file, hurt>>
        BY <1>1 DEF Complete, Get, Read, Ask, Returns, Ends, Go, TypeOK
    <2> QED
        BY <1>0, <2>1, QuietStays
<1>2. CASE Put(u)
    <2>1. CASE Ends(u, "put") /\ UNCHANGED <<file, hurt>>
        <3>1. pc[u] # "write" /\ pc'[u] # "write"
            BY <2>1 DEF Ends, Go, TypeOK
        <3> QED
            BY <1>0, <2>1, <3>1, QuietStays
    <2>2. CASE /\ Go(u, "put", "write") /\ file' = [file EXCEPT ![Key(req[u])] = << >>]
               /\ hurt' = (IF WritersAt(Key(req[u])) = {} THEN hurt ELSE hurt \cup {Key(req[u])})
               /\ req' = req
        <3>1. pc[u] = "put" /\ pc'[u] = "write" /\ Key(req[u]) \in Keys /\ k \notin hurt
            BY <2>2, KeysAreExact DEF Go, TypeOK, ProcessInv
        <3>2. CASE Key(req[u]) # k
            <4>1. file'[k] = file[k]
                BY <1>0, <2>2, <3>1, <3>2
            <4> QED
                BY <1>0, <2>2, <3>1, <3>2, <4>1, QuietStays
        <3>3. CASE Key(req[u]) = k
            <4>1. WritersAt(k) = {} /\ file'[k] = << >>
                BY <1>0, <2>2, <3>1, <3>3
            <4>2. WritersAt(k)' = {u}
                BY <1>0, <2>2, <3>1, <3>3, <4>1 DEF WritersAt
            <4> QED
                BY <4>1, <4>2 DEF Quiet
        <3> QED BY <3>2, <3>3
    <2> QED
        BY <1>2, <2>1, <2>2 DEF Put
<1>3. CASE Write(u)
    <2>1. /\ pc[u] = "write" /\ pc'[u] = "idle" /\ hurt' = hurt
          /\ file' = [file EXCEPT ![Key(req[u])] = Over(@, Text(resp[u]))]
          /\ Key(req[u]) \in Keys /\ resp[u] \in Responses
        BY <1>3, KeysAreExact DEF Write, Returns, Ends, Go, TypeOK, ProcessInv
    <2>2. CASE Key(req[u]) # k
        <3>1. file'[k] = file[k]
            BY <1>0, <2>1, <2>2
        <3> QED
            BY <1>0, <2>1, <2>2, <3>1, QuietStays
    <2>3. CASE Key(req[u]) = k
        <3>1. u \in WritersAt(k)
            BY <2>1, <2>3 DEF WritersAt
        <3>2. WritersAt(k) = {u} /\ file[k] = << >>
            BY <2>1, <3>1 DEF Quiet
        <3>3. file'[k] = Text(resp[u])
            BY <1>0, <2>1, <2>3, <3>2, OverEmpty
        <3>4. WritersAt(k)' = {}
            <4>1. ASSUME NEW v \in Users, pc'[v] = "write", Key(req'[v]) = k
                  PROVE  FALSE
                <5>1. v # u
                    BY <2>1, <4>1
                <5>2. v \in WritersAt(k)
                    BY <1>0, <4>1, <5>1 DEF WritersAt
                <5> QED BY <3>2, <5>1, <5>2
            <4> QED
                BY <4>1 DEF WritersAt
        <3> QED
            BY <2>1, <3>3, <3>4 DEF Quiet, Whole
    <2> QED BY <2>2, <2>3
<1>4. CASE WriteFails(u) \/ Die(u)
    <2>1. /\ pc'[u] = "idle" /\ k \notin hurt
          /\ pc[u] = "write" => Key(req[u]) \in hurt'
          /\ file' = file \/ \E f : file' = [file EXCEPT ![Key(req[u])] = f]
          /\ file' = file \/ pc[u] = "write"
        BY <1>4 DEF WriteFails, Die, Ends, Go, TypeOK
    <2>2. file'[k] = file[k]
        BY <1>0, <2>1
    <2> QED
        BY <1>0, <2>1, <2>2, QuietStays
<1> QED
    BY <1>1, <1>2, <1>3, <1>4 DEF Step

-----------------------------------------------------------------------------
(* The invariant and the properties it implies.                              *)

LEMMA InvInit == Init => Inv
<1> SUFFICES ASSUME Init PROVE Inv
    OBVIOUS
<1> USE DEF Init
<1>1. TypeOK
    BY BoundAssumption DEF TypeOK
<1>2. (\A u \in Users : ProcessInv(u)) /\ ReturnsAreAnswers
    BY DEF ProcessInv, ReturnsAreAnswers
<1>3. FileInv
    BY KeysAreExact DEF FileInv
<1>4. WritersInv
    BY DEF WritersInv, Quiet, WritersAt
<1> QED
    BY <1>1, <1>2, <1>3, <1>4 DEF Inv

LEMMA InvStep == Inv /\ [Next]_vars => Inv'
<1> SUFFICES ASSUME Inv, [Next]_vars PROVE Inv'
    OBVIOUS
<1>1. CASE UNCHANGED vars
    BY <1>1 DEF vars, Inv, TypeOK, ProcessInv, FileInv, ReturnsAreAnswers, WritersInv, Quiet,
                WritersAt
<1>2. ASSUME NEW u \in Users, Complete(u) \/ Step(u) \/ Die(u)
      PROVE  Inv'
    <2>1. TypeOK' /\ ProcessInv(u)' /\ Frame(u)
        BY <1>2, StepKeeps DEF Inv, Keeps
    <2>2. /\ \A q \in Requests : answered[q] \subseteq answered'[q] /\ answered'[q] \subseteq Responses
          /\ log \in [Users -> Seq(Entry)]
        BY <2>1 DEF Frame, Inv, TypeOK
    <2>3. ASSUME NEW v \in Users \ {u}
          PROVE  ProcessInv(v)'
        <3>1. /\ ProcessInv(v)
              /\ pc'[v] = pc[v] /\ req'[v] = req[v] /\ resp'[v] = resp[v] /\ log'[v] = log[v]
            BY <2>1 DEF Inv, Frame
        <3>2. pc[v] # "idle" => req[v] \in Requests /\ Len(log[v]) < calls'
            <4>1. Len(log[v]) \in Nat /\ calls \in Nat /\ calls' \in Nat /\ calls <= calls'
                BY <2>1, <2>2, BoundAssumption DEF Frame, Inv, TypeOK
            <4> QED
                BY <3>1, <4>1 DEF ProcessInv
        <3>3. pc[v] \in {"put", "write"} => resp[v] \in answered'[req[v]]
            BY <2>2, <3>1, <3>2 DEF ProcessInv
        <3>4. pc[v] = "write" => file'[Key(req[v])] \in Seq(answered'[req[v]])
            <4>1. pc[v] = "write" => file'[Key(req[v])] \in Seq(answered[req[v]])
                BY <2>1, <3>1, <3>2 DEF ProcessInv, Frame
            <4> QED
                BY <2>2, <3>2, <4>1, SeqGrows
        <3> QED
            BY <3>1, <3>2, <3>3, <3>4 DEF ProcessInv
    <2>4. FileInv'
        <3>1. ASSUME NEW q \in Requests
              PROVE  file'[Key(q)] \in {None} \cup Seq(answered'[q])
            <4>1. file'[Key(q)] \in {None} \cup Seq(answered[q])
                BY <2>1 DEF Frame, FileInv, Inv
            <4> QED
                BY <2>2, <4>1, SeqGrows
        <3> QED
            BY <3>1 DEF FileInv
    <2>5. ReturnsAreAnswers'
        <3>1. ASSUME NEW p \in Requests, NEW text, Answer(p, text, answered, hurt)
              PROVE  Answer(p, text, answered', hurt')
            <4>1. answered[p] \subseteq answered'[p] /\ hurt \subseteq hurt'
                BY <2>1, <2>2 DEF Frame
            <4>2. text \in Seq(answered[p]) => text \in Seq(answered'[p])
                BY <4>1, SeqGrows
            <4> QED
                BY <3>1, <4>1, <4>2 DEF Answer, Whole
        <3>2. ASSUME NEW v \in Users, NEW i \in DOMAIN log[v]
              PROVE  log[v][i].req \in Requests /\ Answer(log[v][i].req, log[v][i].resp, answered', hurt')
            <4>1. log[v][i] \in Entry
                BY <2>2, <3>2
            <4>2. Answer(log[v][i].req, log[v][i].resp, answered, hurt)
                BY <3>2 DEF Inv, ReturnsAreAnswers, Answer
            <4> QED
                BY <3>1, <4>1, <4>2 DEF Entry
        <3>3. ASSUME NEW v \in Users, NEW i \in DOMAIN log'[v]
              PROVE  Answer(log'[v][i].req, log'[v][i].resp, answered', hurt')
            <4>1. log[v] \in Seq(Entry)
                BY <2>2
            <4>2. CASE log'[v] = log[v]
                BY <3>2, <3>3, <4>2
            <4>3. ASSUME v = u, NEW text \in Readable, req[u] \in Requests,
                         Answer(req[u], text, answered, hurt),
                         log'[u] = Append(log[u], [req |-> req[u], resp |-> text])
                  PROVE  Answer(log'[v][i].req, log'[v][i].resp, answered', hurt')
                <5>1. i \in 1..(Len(log[u]) + 1)
                    BY <3>3, <4>1, <4>3
                <5>2. CASE i = Len(log[u]) + 1
                    <6>1. log'[v][i] = [req |-> req[u], resp |-> text]
                        BY <4>1, <4>3, <5>2
                    <6> QED
                        BY <3>1, <4>3, <6>1
                <5>3. CASE i # Len(log[u]) + 1
                    <6>1. i \in DOMAIN log[u] /\ log'[v][i] = log[u][i]
                        BY <4>1, <4>3, <5>1, <5>3
                    <6> QED
                        BY <3>2, <6>1
                <5> QED BY <5>2, <5>3
            <4>4. log'[v] # << >>
                BY <3>3
            <4> QED
                BY <2>1, <4>2, <4>3, <4>4 DEF Frame, Logs
        <3> QED
            BY <3>3 DEF ReturnsAreAnswers, Answer
    <2>6. WritersInv'
        BY <1>2, <2>1, QuietStep DEF Inv, WritersInv
    <2> QED
        BY <2>1, <2>3, <2>4, <2>5, <2>6 DEF Inv
<1> QED
    BY <1>1, <1>2 DEF Next

\* The inductive invariant: what is in the file of a request is of responses to it,
\* and a key that is not hurt has one writer at most.
THEOREM CassetteInvHolds == Spec => []Inv
<1>1. Init => Inv
    BY InvInit
<1>2. Inv /\ [Next]_vars => Inv'
    BY InvStep
<1> QED
    BY <1>1, <1>2, PTL DEF Spec

\* The variables of the processes and the recordings keep their types.
THEOREM TypeCorrect == Spec => []TypeOK
<1>1. Inv => TypeOK
    BY DEF Inv
<1> QED
    BY <1>1, CassetteInvHolds, PTL

\* A call returns only what the model gave for this very request, however many record
\* and wherever they are killed: whole, or mixed of several such answers at a key whose
\* puts were cut short or overlapped (cassette.py:33-37, provider.py:50-61).
THEOREM ReturnedIsAnswered == Spec => []ReturnsAreAnswers
<1>1. Inv => ReturnsAreAnswers
    BY DEF Inv
<1> QED
    BY <1>1, CassetteInvHolds, PTL

\* Only a put that was cut short or overlapped leaves a file that is not whole
\* (cassette.py:42-45).
THEOREM UnhurtIsWhole == Spec => []WholeUnlessHurt
<1>1. Inv => WholeUnlessHurt
    BY DEF Inv, WritersInv, Quiet, WholeUnlessHurt
<1> QED
    BY <1>1, CassetteInvHolds, PTL
=============================================================================
