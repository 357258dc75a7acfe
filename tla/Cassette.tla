------------------------------- MODULE Cassette -----------------------------
(* llm/cassette.py and llm/provider.py: processes that record the responses   *)
(* of a live model into one cassette directory, or replay them from it.       *)
EXTENDS Naturals, Sequences

CONSTANTS
    Recorders,    \* processes with PKGTK_LLM_LIVE=1
    Replayers,    \* processes without
    Prompts,      \* model, system and messages of a request
    Schemas,
    Responses,
    Size,         \* Size[r]: how long the JSON of response r is
    Readable,     \* texts that json.loads accepts, mixtures of responses among them
    MaxCalls,     \* bound: calls of all processes
    None

Users == Recorders \cup Replayers
Requests == [prompt : Prompts, schema : Schemas]

ASSUME UsersAssumption == Recorders \cap Replayers = {}
ASSUME SizeAssumption == Size \in [Responses -> Nat \ {0}]
ASSUME BoundAssumption == MaxCalls \in Nat
\* The text of a response, its characters named by the response; json.loads makes a
\* response of it, or of a mixture that happens to be JSON, and raises otherwise.
Text(r) == [i \in 1..Size[r] |-> r]
Parses(f) == f \in Readable
Whole(f, answers) == \E r \in answers : f = Text(r)

ASSUME ReadableAssumption ==
    /\ Readable \subseteq Seq(Responses) \ {<< >>}
    /\ \A r \in Responses : Parses(Text(r))
ASSUME NoneAssumption ==
    None \notin Requests \cup Responses \cup {<< >>} \cup Readable

\* Mutant: the schema is left out of the hash.
KeyOfPrompt(q) == <<q.prompt>>

\* cassette_key: a hash of everything the model sees.
Key(q) == <<q.prompt, q.schema>>
Keys == {Key(q) : q \in Requests}

VARIABLES
    file,        \* file[k]: None, or its characters, each named by the response it is of
    pc, req, resp,   \* a process, the request it is at, the response it has
    log,         \* the token log of a process: the texts its calls returned
    calls,       \* calls begun
    answered,    \* history: what the live model gave for each request
    hurt         \* history: keys at which a put was cut short, or two overlapped

vars == <<file, pc, req, resp, log, calls, answered, hurt>>

Entry == [req : Requests, resp : Readable]

TypeOK ==
    /\ file \in [Keys -> {None} \cup Seq(Responses)]
    /\ pc \in [Users -> {"idle", "get", "read", "ask", "put", "write"}]
    /\ req \in [Users -> Requests \cup {None}]
    /\ resp \in [Users -> Responses \cup {None}]
    /\ log \in [Users -> Seq(Entry)]
    /\ \A u \in Users : Len(log[u]) <= calls
    /\ calls \in 0..MaxCalls
    /\ answered \in [Requests -> SUBSET Responses]
    /\ hurt \subseteq Keys

Init ==
    /\ file = [k \in Keys |-> None]
    /\ pc = [u \in Users |-> "idle"]
    /\ req = [u \in Users |-> None]
    /\ resp = [u \in Users |-> None]
    /\ log = [u \in Users |-> << >>]
    /\ calls = 0
    /\ answered = [q \in Requests |-> {}]
    /\ hurt = {}

\* A write over what is in a file: what lies beyond it stays.
Over(f, text) ==
    [i \in 1..(IF Len(f) > Len(text) THEN Len(f) ELSE Len(text)) |->
        IF i <= Len(text) THEN text[i] ELSE f[i]]

Go(u, from, to) == pc[u] = from /\ pc' = [pc EXCEPT ![u] = to]

\* A call that returns or raises.
Ends(u, from) ==
    /\ Go(u, from, "idle")
    /\ req' = [req EXCEPT ![u] = None]
    /\ resp' = [resp EXCEPT ![u] = None]

\* Mutant: a call is logged by complete and by put.
ReturnsTwice(u, from, text) ==
    /\ Ends(u, from)
    /\ LET entry == [req |-> req[u], resp |-> text] IN log' = [log EXCEPT ![u] = @ \o <<entry, entry>>]

Returns(u, from, text) ==
    /\ Ends(u, from)
    /\ log' = [log EXCEPT ![u] = Append(@, [req |-> req[u], resp |-> text])]

WritersAt(k) == {u \in Users : pc[u] = "write" /\ Key(req[u]) = k}

-----------------------------------------------------------------------------
\* complete: the mode is the process's.
Complete(u) ==
    /\ calls < MaxCalls
    /\ Go(u, "idle", IF u \in Recorders THEN "ask" ELSE "get")
    /\ \E q \in Requests : req' = [req EXCEPT ![u] = q]
    /\ calls' = calls + 1
    /\ UNCHANGED <<file, resp, log, answered, hurt>>

\* Mutant: a miss is waited for.
GetWaits(u) ==
    /\ file[Key(req[u])] # None
    /\ Go(u, "get", "read")
    /\ UNCHANGED <<req, resp, file, log, calls, answered, hurt>>

\* Replay: CacheMiss without a file, and whatever json.loads says with one.
Get(u) ==
    /\ pc[u] = "get"
    /\ IF file[Key(req[u])] = None
       THEN Ends(u, "get")
       ELSE Go(u, "get", "read") /\ UNCHANGED <<req, resp>>
    /\ UNCHANGED <<file, log, calls, answered, hurt>>

Read(u) ==
    /\ pc[u] = "read"
    /\ \/ Parses(file[Key(req[u])]) /\ Returns(u, "read", file[Key(req[u])])
       \/ ~ Parses(file[Key(req[u])]) /\ Ends(u, "read") /\ UNCHANGED log
    /\ UNCHANGED <<file, calls, answered, hurt>>

\* Live: there is no provider, the API raises, or it answers.
Ask(u) ==
    /\ \/ Ends(u, "ask") /\ UNCHANGED answered
       \/ \E r \in Responses :
            /\ Go(u, "ask", "put")
            /\ resp' = [resp EXCEPT ![u] = r]
            /\ answered' = [answered EXCEPT ![req[u]] = @ \cup {r}]
            /\ UNCHANGED req
    /\ UNCHANGED <<file, log, calls, hurt>>

\* Mutant: the file is opened for update, not truncated.
PutInPlace(u) ==
    LET k == Key(req[u]) IN
    /\ Go(u, "put", "write")
    /\ file' = [file EXCEPT ![k] = IF @ = None THEN << >> ELSE @]
    /\ hurt' = IF WritersAt(k) = {} THEN hurt ELSE hurt \cup {k}
    /\ UNCHANGED <<req, resp, log, calls, answered>>

\* put opens the file, which truncates it; the directory or the file may be refused.
Put(u) ==
    LET k == Key(req[u]) IN
    /\ \/ /\ Go(u, "put", "write")
          /\ file' = [file EXCEPT ![k] = << >>]
          /\ hurt' = IF WritersAt(k) = {} THEN hurt ELSE hurt \cup {k}
          /\ UNCHANGED <<req, resp>>
       \/ Ends(u, "put") /\ UNCHANGED <<file, hurt>>
    /\ UNCHANGED <<log, calls, answered>>

\* The text is written at once; what is logged was written.
Write(u) ==
    /\ Returns(u, "write", Text(resp[u]))
    /\ file' = [file EXCEPT ![Key(req[u])] = Over(@, Text(resp[u]))]
    /\ UNCHANGED <<calls, answered, hurt>>

\* A part of the text is written, and the process raises (a full disk).
WriteFails(u) ==
    LET k == Key(req[u]) IN
    /\ Ends(u, "write")
    /\ \E n \in 0..(Size[resp[u]] - 1) :
            file' = [file EXCEPT ![k] = Over(@, SubSeq(Text(resp[u]), 1, n))]
    /\ hurt' = hurt \cup {k}
    /\ UNCHANGED <<log, calls, answered>>

\* A process that is killed, and the one started in its place.
Die(u) ==
    /\ pc[u] # "idle"
    /\ Ends(u, pc[u])
    /\ log' = [log EXCEPT ![u] = << >>]
    /\ hurt' = IF pc[u] = "write" THEN hurt \cup {Key(req[u])} ELSE hurt
    /\ UNCHANGED <<file, calls, answered>>

Step(u) ==
    /\ pc[u] # "idle"
    /\ Get(u) \/ Read(u) \/ Ask(u) \/ Put(u) \/ Write(u) \/ WriteFails(u)

Next == \E u \in Users : Complete(u) \/ Step(u) \/ Die(u)

\* A call is straight-line code; the SDK bounds its retries and its waiting.
Fairness == \A u \in Users : WF_vars(Step(u))

Spec == Init /\ [][Next]_vars /\ Fairness

-----------------------------------------------------------------------------
(* Properties.                                                               *)

\* A call returns a whole response, one the live model gave for this very request,
\* whoever recorded it, however many record at once, and wherever they were killed --
\* unless a put at its key was cut short or overlapped another: then it may be a mixture
\* of such responses, never of another request's (cassette.py:33-37, provider.py:50-61).
ReturnsAreAnswers ==
    \A u \in Users : \A i \in DOMAIN log[u] :
        LET q == log[u][i].req
            text == log[u][i].resp
        IN \/ Whole(text, answered[q])
           \/ Key(q) \in hurt /\ text \in Seq(answered[q])

\* A key whose puts were neither cut short nor overlapping has no file, a whole
\* one, or one put at work on an empty one (cassette.py:42-45).
WholeUnlessHurt ==
    \A k \in Keys \ hurt :
        \/ file[k] = None
        \/ \E u \in Users : WritersAt(k) = {u} /\ file[k] = << >>
        \/ WritersAt(k) = {} /\ Whole(file[k], Responses)

\* Every call returns or raises.
CallsEnd == \A u \in Users : pc[u] # "idle" ~> pc[u] = "idle"

=============================================================================
