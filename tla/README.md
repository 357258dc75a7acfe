# A verification development of packagent

packagent (`pkgtk`) is a toolkit for IC-package engineering: ball-map checks,
ECO diffs, layout lint, intake gates for vendor models, an LLM extraction layer,
and a loop in which an agent edits a package design, solves it and judges the
result. Most of it is sequential code over files. What is hard in it is what
happens when several processes share those files, when a tool times out or a
process is killed between two steps, and when a verdict is read that belongs to
something else. That is where this development starts.

The reader is assumed to have the repository; paths below are relative to it.

## 1. The system

| Component | State it keeps | Operations | What makes it correct |
|---|---|---|---|
| Model registry `src/pkgtk/models/registry.py` | SQLite table `models`: one row per (part, rev, corner, model type) with a lifecycle state and a note | `add`, `transition`, `intake`, queries | rows are never lost, moves follow `ALLOWED`, a row's note tells its state, a command that raises has changed nothing (but an intake locked out of its second write) |
| Intake gates `models/ts_gate.py`, `models/ibis_gate.py` | none | file or report to verdict | only files that meet `docs/models-spec.md` pass |
| Models CLI `cli/models.py` | one process, one command | add, intake, status, chase | its process may end anywhere |
| Edit tool `demo/loop/apply_edit.py` | design file, its `.lck`, job logs | four edits, each a headless session followed by a verifying session | exit 0 means the commanded design is the one saved |
| Iteration harness `demo/loop/run_iteration.py` | one directory per iteration | check, copy, edit, export, solve, analyze, judge, manifest | evidence is never overwritten; exit 0 with a baseline is a proven fix |
| Export, build and solve, analyze, referee `demo/loop/*.py` | artifacts in the iteration's directory | one process each | each artifact is made from the one before it |
| Ball-map checks `checks/` | none | graph and config to violations | same list for the same input (where it is not, is said), nothing missed |
| ECO diff `diff/` | none | two graphs to changes | every changed ball is reported |
| Lint `lint/`, `cli/check.py` | none | layout and deck to violations | the parameters that are checked and those that are said not to be are all there are |
| Pin-map cross-check `scripts/pinmap_crosscheck.py` | none | graph and sheet to findings | agreement is agreement of every row |
| LLM battery, cassette, provider `llm/` | recorded responses, one file per request | decide; record, replay | the documented acceptance rule; a recording is complete or absent |
| Schemas, AIF ingest `schemas/`, `ingest/` | none | validation, evaluation, parsing | nothing dropped or duplicated silently |
| Oracles `oracles/` | none | escape capacity, templates, cavity impedance | formulas as documented |
| Agent evals `evals/` | a report, rewritten after each task | generate, run, grade, persist | results survive a crash, a timeout never passes |
| Benchmarks, generators, scripts, demo data | none | batch scripts | outside the core |

They interact as follows. An agent or a person runs `pkgtk models` processes
against one registry file; an intake calls a gate. An agent runs `apply_edit`
directly, or `run_iteration`, which runs `apply_edit`, `export_design`,
`build_and_solve`, `analyze` and `loop_check` one after the other as child
processes, looks at their exit codes, and otherwise communicates with them only
through files. `analyze` uses the Touchstone gate of the intake. Checks, diff,
ingest, the pin-map cross-check and the template oracle share the connectivity
graph; battery, lint, coverage and the escape oracle share the rule deck: each is
pure, and what matters is what one tool's answer allows one to conclude about the
file the next one reads. The eval runner starts agents in directories it
generated, grades what they leave with the checks and the diff, and rewrites its
reports. Extractions reach a live model, or recordings of it, through the cassette.

`PROJECT.json` lists every component with what is modelled of it, every hazard
with its line, and the lines each definition stands for.

## 2. The modules

| Module | Models | Extended or used by |
|---|---|---|
| `Librarian` | the abstract registry: one state per key, moving along `ALLOWED` | `Registry` (refinement) |
| `IntakeGate` | both gates as operators, and the intake spec they are held against | `Registry` |
| `Registry` | the registry, statement by statement, with its client processes | `MCRegistry`, `RegistryProofs` |
| `EditJobs` | what one headless job does to a design and its log | `ApplyEdit`, `FixLoop` |
| `EditJobsProofs` | what a job makes of a design, and what an accepted log says of it | `ApplyEditProofs`, `FixLoopProofs` |
| `ApplyEdit` | a sequence of edit calls on one design file | `ApplyEditProofs` |
| `FixLoop` | harnesses running iterations in one workspace | `MCFixLoop`, `FixLoopProofs` |
| `Graders` | the three graders of the evals: what they say of a directory, when they raise | `EvalRunner` |
| `EvalRunner` | runners of agent evals in one output directory | `MCEvalRunner`, `EvalRunnerProofs` |
| `SolveStage` | solve jobs that share the RPC server and reuse directories | `MCSolveStage`, `SolveStageProofs` |
| `Cassette` | processes that record and replay model responses | `MCCassette`, `CassetteProofs` |
| `BallMap` | the eight ball-map checks and the graph validators, as operators | `EcoDiff`, `MapSources`, `Pkgtk` |
| `EcoDiff` | the diff engine | `Pkgtk` |
| `MapSources` | AIF ingest, pin-map cross-check, template compliance | `Pkgtk` |
| `RuleDeck` | battery, deck, coverage, lint dispatch, escape capacity | `Pkgtk` |
| `Pkgtk` | the tools one after another around a ball map, and around a deck | `MCPkgtk`, `PkgtkProofs` |
| `MCRegistry`, `MCFixLoop`, `MCEvalRunner`, `MCSolveStage`, `MCCassette`, `MCPkgtk` | small instances | the runs |
| `RegistryProofs`, `ApplyEditProofs`, `FixLoopProofs`, `EvalRunnerProofs`, `SolveStageProofs`, `CassetteProofs`, `PkgtkProofs` | theorems | |

### Registry

`row` is the committed table, `writer` the client whose transaction holds
SQLite's RESERVED lock. A client is a process: `closed`, `idle` after a command
that returned, `raised` after one that raised (a caller of the Python API may go
on from there; the CLI process exits), or at a statement of a command. `call`
holds the command's locals: the write it is about to make (`step`) and the one it
ends with (`final`); an intake of a requested key has two.

    add          insert -> inserted -> idle             Insert, CommitAdd
    transition   check -> update -> updated -> idle     Check, Update, Commit
    intake       gate -> look -> check -> update -> updated [-> check ...] -> idle

`Insert`, `Update` and the commits are separate steps because they are separate
statements in `registry.py` and another process can run between them; SQLite
makes each of them atomic. A writer that meets a foreign lock either waits or,
when `connect`'s default timeout is over, gets "database is locked" (`Locked`),
an exception of the command like any other: it is raised to the caller, who may go
on, also from the second write of an intake, whose first is then committed. `Exit`
is a process that ends anywhere, whose open transaction is rolled back. Three details that matter and are easily left out:
the gate runs before the key is looked up; the UPDATE's WHERE names the key
and not the state that was read; a refused INSERT leaves its transaction open,
and with it the lock, until the process ends.

The gates are total operators from a file to the set of verdicts it can get, with
`"raise"` among them: a file with NaN has two possible outcomes, since
`np.linalg.svd` is called before the finite flag is acted on and its behaviour
depends on the LAPACK it is linked with. Singular values are in thousandths. The
reference beside them is `docs/models-spec.md`, clause by clause (`Clauses`,
`Unmet`); two of its clauses no line of the gate tests (`Untested`: the pairs of
each row, frequencies below zero), and what the properties promise of a validated
row is the others (`MeetsTestedClauses`).

The variables `wrote`, `overtaken` and `vetted` are history: no guard reads
them.

### EditJobs, ApplyEdit

A design is two numbers: the shapes that match the old rectangle (`old`) and the
objects at the place the command names (`new`). The jobs are what the SKILL
templates do to them, including that `resize-plane` deletes before it counts, and
`PartOfJob` is a job that stops in the middle. A session's exit saves the
design, or fails to; a session that is killed at its timeout has saved or not, may
leave the `.lck`, and may still be alive and save later (`stray`, `StraySaves`).
`Mentions` is the code's substring test, not equality.

### FixLoop

A harness is `run_iteration.py`; each stage is one step, because it is one child
process whose effects the harness sees only through files and the exit code. A
stage's outcomes are those of the tool: what it can have written, crossed with
success or failure. The contents of the artifacts are reduced to the design they
were made from (`xml`, `aedb`, `snp`, `verdict.of`), and the numerics (does the
solve meet the mask, does it pass the physics gate) are free. `Kill` ends a
harness between any two stages. `intruded` is history: the iterations that two
harnesses found empty before either had written to it, the window between the
check of the directory and the copy of the design into it
(`run_iteration.py:69-80`).

### Graders, EvalRunner

A task's directory (`work`) is the state of its graded inputs and of the one file
it asks for; what an agent can leave there is reduced to what a grader can tell
apart, including the answers on which a grader raises: a finding with a list
where a string belongs, findings that Python cannot sort, a graph whose nodes are
a number. One thing no grader can tell apart is kept as well, because the prompts
ask for it (`Forms`): the smallest edit that leaves unrelated nodes alone, a list
without repetitions. `Solved` is what the prompt asks for; `AsGraded` forgets the
form.

Each runner has its own task list (`plan`), since `--families` and `--limit` are
arguments of each. It goes from `off` through generation (`Begin`, `MakeTask`,
`Built`), `codex --version`, and, for each task, agent, grader, `pkgtk verify`
(for a fix), the new row, and the two reports, each of which is truncated before it
is written. `mkdir(exist_ok=False)` is what divides the directories between two
runners that found `--out` empty; `CannotMake` is the one that comes second, and the
generator that does not see its own defect. Runners without a task in common both go
on, and write over each other's reports: `Written` is a text that starts at the
beginning of a file somebody else may have written since it was truncated (`Mixed`).
What an agent started may outlive it, whether it was killed at its timeout
(`strays`) or ended by itself (`detached`), and goes on writing (`Stray`). A runner
whose agent or `pkgtk verify` was killed may have to wait for whoever still holds
the pipes (`waits`, `Drain`): on Windows the killing branch of `subprocess.run` reads
them to the end. `Die` is a crash anywhere, and every error outside the `try`.

### SolveStage

A job is `build_and_solve.py`: arguments and the fresh start, at most two opens,
the stages of the setup, the solver, the touchstone. `session` is the session that
its variable `edb` stands for; `Close` is `edb.close()`, which may take the sessions
of siblings with it. A session nobody stands for is in `left`: that of a
constructor that raised after it had opened one (`Open`), that of a handler whose own
close raised (`Fail`), and that of a job that was killed (`Kill`). On a killed session
every call raises, except those the code swallows: a point that cannot be read is
not on copper, a barrel that cannot be set is printed, a via whose position cannot be
read is passed over. So a job that lost its session during the stitches goes on, with
fewer of them, and the question is whether anything later stops it. No call before
the solver has a timeout, so each of them may hang (`Hang`), and so may the reading of
a killed solver's pipes. Jobs in one directory follow one another (`Start`). What
is on disk is `aedb`, and the touchstones: `top` in the work directory, `deep` in the
directories under it, each in the order of modification times. `Listing` is the search
in two steps: the directories are looked into only when nothing lies at the top.

### Cassette

`file[k]` is the text stored under a key, one element for each piece of the
response it belongs to, so that torn and mixed texts can be told from whole
ones. `Readable` is the set of texts `json.loads` accepts: every whole response, and
whichever mixtures of responses happen to be JSON, about which nothing else is
assumed. `put` truncates and then writes; a process can be killed, or fail, between
the two or in the middle of the text, and another can read or write in between.
`Key` is the hash, taken as collision-free. `answered` and `hurt` are history.

### BallMap, EcoDiff, MapSources, RuleDeck, Pkgtk

The pure tools are operators, close to the code: a graph is the sequence of its
nodes and the set of its edges, so that "the first" and "the last of the file" mean
what they mean there; `First(S, seed)` is the first element of a Python set of
ids, whose order changes with the hash seed; dictionaries that a later entry
overwrites are maxima over indices (`LastNet`, `CheckDepop`, `BallRoleAt`);
`RowIndex`, `Reachable` and the loops of the ingest are recursive functions, one value
per iteration; exceptions are answers ("raised"). Numbers are in thousandths and lengths
in nm, so that the conversions of units are exact. Where the code multiplies floats
and truncates (`rules.py:78`), `Rounding` names the products that come out one off.
A violation is its rule, the thing it is located at and, for the two rules in which
the order of a set can change them, the numbers it reports; how often a violation is
listed is decided by the graph, so that equal sets are equal lists. A node has an
`xy` or not, and the cross-check looks at coordinates where it has; `Unprefixed` is
the name it gives a net that has none.

`Pkgtk` is the life of one graph file or one deck. At a map desk a revision is
ingested or edited, verified (`verdict` and `report` are the exit code and the list),
signed off as the base of the next diff, diffed, and held against a sheet or a template; at the deck desk candidates are decided by the
battery, or reviewed by a human, and the deck is linted and used for escape.
`Noted` puts an answer aside, and every tool is used after the last answer was put
aside: an answer does not change what the next tool does, so nothing is lost, and
the states stay few. `Ingest` and `Edit` start from a revision at rest, for the
same reason; `Edit` writes one of the desk's `successors` (a desk at which no
question about diff is asked has none). `Lint` answers what the command prints: which
rules were checked and which were skipped, and not the coverage, which it drops.
Each property is an implication from answers to a fact stated independently of
the tools' own operators (connectedness as a closed set, the nets of a ball, the
room between two lands).

## 3. The runs

| Run | Instance | What it shows |
|---|---|---|
| `registry_shared` | 1 key, 2 clients, all files, any overlap | Without any discipline among clients: rows are kept and a key is added once (`RowsAreKept`); notes and states belong together and "intake passed" means that a file was delivered that meets every clause of the spec a gate tests (`NotesTellTheState`); an illegal move needs another client's commit exactly between SELECT and UPDATE (`IllegalNeedsRace`); every command ends, also behind a lock that is held for ever (`CommandsReturn`) |
| `registry_serial` | 2 keys, 2 clients, no overlap on a key | The registry implements `Librarian` (`RefinesLibrarian`); one that returns has done what was asked, and one that raises has changed nothing, but for an intake locked out of its second write by another client, whose key is at received (`CommandContract`) |
| `registry_race` (violation) | as `registry_shared` | "Illegal transitions raise" (`registry.py:3-4`) fails when clients share a key |
| `edit_calls` | up to 3 copies | exit 0 on a vacant target means the commanded design is saved, whatever earlier calls, timeouts and strays left (`VerifiedIsCommanded`) |
| `edit_retries` (violation) | up to 10 copies | ten objects verify as one (`apply_edit.py:211`) |
| `fixloop_proof` | 2 harnesses, 2 iterations, 4 command lines | only verified designs are solved, exit 0 with a baseline is a proof that stays on disk, evidence is never overwritten |
| `fixloop_exit` (violation) | 1 harness | a baseline run whose analysis failed exits 0 (`run_iteration.py:149`) |
| `eval_report` | 2 runners, one task list of 2 tasks for both or two disjoint ones | a pass is about a directory that is solved, up to its form, and stays so, unless an agent that ended by itself left a process in it (`PassedMeansSolved`); a report is about tasks its runner generated (`ReportIsOwn`); each report tells its runner's story without a gap, two of one runner differ by the last row at most, and two runners both write only if they have no task in common (`ReportsAgree`); a runner that lives reports every task whatever its agents do, unless one of them holds its pipes or a rival writes the same report (`EveryTaskIsReported`) |
| `eval_crash` (violation) | 1 runner | paid runs are lost by a crash during `write_text` (`run_eval.py:246`) |
| `solve_sessions` | 2 jobs side by side, a third in a used directory | what reaches the solver was set up to the end by this job, also when a sibling's close took its session in the middle (`SolvedIsSetUp`); no job ends or solves with a session it never tried to close, and one that solves has left none but that of a failed first open (`SessionsAreClosed`); a foreign touchstone is answered only where the solver wrote none, or one further down (`TouchstoneIsOwn`); jobs end, or hang in a call (`JobsEnd`) |
| `cassette_replay` | 2 recorders, 1 replayer, a prompt with and without schema, 4 calls | a call raises or returns what the model answered to this very request: whole, or, at a key whose puts overlapped or were cut short, pieces of such answers that together are JSON (`ReturnsAreAnswers`); a file nobody was interrupted on is whole (`WholeUnlessHurt`); calls end (`CallsEnd`) |
| `pkgtk_tools` | 11 map desks, 1 deck desk | what a clean, an unchanged, an agreed, a met, an accepted and a feasible answer allow one to conclude; which rules lint leaves out (`GapsAreKnown`); in what two processes may differ on one graph (`VerdictIsStable`) |

`SolvedIsSetUp` deserves a word, because it is not obvious from the code: the
stitches swallow a lost session, and what stops the job is that the terminals,
which come next, do not. Several properties name an exception, each of them
reachable in its run and listed among the disagreements of section 5:

- `EcoIsComplete`: the diff does not see a net that lost its ball, and for nets of
  several balls it compares the first in text order only; the property is about a
  verified revision and the nets that have one ball (`Plain`).
- `FeasibleFits` is conditioned on a deck in um, because the escape oracle does not
  convert.
- `CleanMeansSound` counts as grounds the balls on nets that are grounds, as
  `docs/checks-spec.md:42` does; the check counts a ball that calls itself gnd on
  another net as well, so an interface with such a ball is excepted (`SelfStyled`), and
  one ball less is owed where the product of floats loses one (`Owed`). The interface
  of a ball is its own or that of one of its nets, which the spec leaves open.
- `VerdictIsStable` compares the lists with their numbers, and excepts the grounds of
  an interface with a ball that wavers between two nets (`Wavers`) and the adjacency
  of a pair of which a net has several positions (`Spread`). A verdict can
  change with the latter only, because a ball of two nets is a violation by itself.
- `AgreedSheetIsTheMap` speaks of the coordinates of balls that have an `xy`.
- `GapsAreKnown` says that the lists of parameters of lint and of the coverage leave no
  hole between them, and no more: the command does not tell its reader.

`Inv` in a passing run is the inductive invariant of its module (it contains
`TypeOK`): TLC checked it before it was used in a proof. The inductive invariants of
`EvalRunnerProofs`, `SolveStageProofs`, `CassetteProofs` and `PkgtkProofs` were checked
on the same instances, and are kept out of the runs because their conjuncts that say
something about the code are properties of the runs already.

### Bounds, and why they are enough

- Registry: two clients give every pairwise race; the proofs cover any number.
  One key suffices where the question is about one key; the serial run has two,
  so that clients do run concurrently. The files are Touchstone files on both
  sides of each threshold (1001, 1002, 1050, 1051 thousandths) with at most one
  defect, and every IBIS report of at most two lines that does not contradict
  itself: with a summary, without, errors, warnings, neither.
- `MaxCopies` bounds the objects at one place: 3 distinguishes none, one and
  several, for `old` and `new`; 10 is the first count that `Mentions` confuses.
- FixLoop: two iterations are a baseline and a fix; the command lines are a
  baseline, a re-solve without an edit, an added via, and a plane resize. Two
  harnesses are enough for an intruder and for a baseline that is still being
  produced; they are interchangeable, hence the symmetry. `MaxCopies` is 2.

- EvalRunner: two runners give the shared directory. They have one list of a fix and
  an ecodiff task, where `mkdir` lets one of them through and there is a first and a
  later row, or two lists of one task without a task in common, where both
  go on; the three graders are each used. What agents leave (`MCLeaves`) is, per
  family, a right answer and wrong ones that differ from it in one way each.
- SolveStage: each job has at most one sibling at a time in another directory and
  one predecessor in its own, which are the two relations the code has. The two
  listings give every order of a top and a deep touchstone of two jobs.
- Cassette: responses of one and of two characters are what a longer text under a
  shorter one needs, and of one layout, so that a piece of each makes JSON in two of the
  mixtures (`MCReadable`); `MaxCalls` = 4 gives a recording, one that overwrites it, one
  that is cut short, and a replay of it.
- Pkgtk: each desk has all graphs that one group of checks can tell apart: at most
  three balls, two or three nets, two pads, and a bump; rows of one and two letters
  in both alphabets with a letter the smaller one lacks; columns of one and two
  digits, so that text order differs from numeric order; one interface of fifty balls,
  the smallest whose ratio in hundredths the float product misses; netlists and sheets of two
  rows; decks of at most two rules (`MaxRules`), from candidates that differ from a
  sound one in one thing or two. The hash seed is one of two opposite orders, which
  decides every choice between two neighbours either way.

### Fairness

`Registry` states weak fairness of `Run(c)`, the statements of a
command that has begun. The code is straight-line and every statement of it
returns: SQLite's wait for a lock is bounded by `connect`'s default timeout, and
the golden parser is assumed to end (`run_ibischk` has no timeout, see the
hazards). Nothing is assumed about clients starting commands or ending, nor that
a lock is ever released: `Locked` is what keeps `CommandsReturn` true.

`EvalRunner`, `SolveStage` and `Cassette` state weak fairness of the steps of a
process that has begun. A runner's own timeouts move it past an agent and past
`pkgtk verify`; `codex --version` has none and is assumed to return (and is asked
before the first task, where `EveryTaskIsReported` starts). `Drain` is not among the
fair steps: nobody makes a process that was left behind let go of the pipes, and
`EveryTaskIsReported` allows a runner to wait. In `SolveStage` a fair job takes some
step, and `Hang` is one of them at every call without a timeout: fairness says that a
call returns or does not, and `JobsEnd` allows a job to hang. The client library of the
live model bounds its retries and its waiting. Nothing is assumed of agents, strays,
siblings' closes, or of anybody starting a call or killing a job. `Pkgtk` states none:
its tools are single steps.

### Assumptions

- SQLite: a statement is atomic; one writer at a time from the first INSERT or
  UPDATE to the commit; readers see the last committed row; the rollback at the
  end of a process is complete. A caller that goes on after "database is locked" is
  taken to hold no read lock: what it reads inside the transaction that the failed
  statement opened is modelled as read outside one. A commit that fails because a
  reader is active, and a migration that fails, are not modelled.
- IBIS reports come from one run of the golden parser and do not contradict
  themselves (`FilesAssumption`): with a wrong summary line the gate believes it.
- Transitions through the API carry an empty note, the default.
- APD: a session that can still save holds the `.lck`, and the agent closes the
  holder before it removes the `.lck`. Calls on one design follow one another.
- EvalRunner: no defect's expected findings are unsortable among themselves; the
  agent reaches no other task's directory (its sandbox) and not the reports. A task is
  the same directory for every runner that has it in its list: it is
  named by the task id.
- SolveStage: what a sibling's close takes is a session, never the files of another
  directory; `siwave_ng` writes one touchstone, into the work directory or a directory
  under it, or none.
- Cassette: no two requests have the same hash, and a text is handed to the system
  in one piece (one buffer); a longer text would be written in several.
  `ReadableAssumption`: a response is JSON, and nothing is not.
- Pkgtk: files are replaced whole between tools. A signed-off revision is one
  verify called clean: without that discipline there is nothing to compare with.
  The named assumptions are types that pydantic or pandas enforce where a file is
  loaded, or facts of Python: a file holds a list (`FilesAssumption`), an alphabet
  is a string and a position a row of letters and a column (`PositionsAssumption`), a
  requirement of grounds is a minimum or a fraction whose denominator is not 0
  (`GroundsAssumption`), a hash order ranks every id (`SeedsAssumption`), numbers of
  rules and regions are numbers (`NumbersAssumption`), and a product of floats is one
  off at most (`RoundingAssumption`). `DepopulatedAssumption` is
  about the reference and not about the code: what a desk lists as depopulated, and
  `CleanMeansSound` speaks of, must be what the desk's config depopulates in its
  graphs. None bounds the size of a graph, a netlist, a sheet or a deck.
- FixLoop: the guarantees are for iterations without an intruder, and say so in
  their statements. A child process that survives its killed harness, and a
  session left behind in an intruded directory, are not modelled.

## 4. What is proved

`RegistryProofs`, for any sets of keys, clients and files:

- `TypeCorrect`, and `InvHolds`: `Inv` is inductive. It is needed because none of
  the properties is: that a commit is legal depends on what `Check` found and on
  whether another commit came between (`LockInv`), a note on what the gate said
  (`LocalsInv`), the second commit of an intake on the first (`WroteInv`).
- `NotesHold`, `IllegalMovesNeedARace`, `RowsAreKeptAlways` without any
  discipline, and `SerialRefinement` and `SerialContract` from `Serial`.
- The lemma `PassMeetsSpec` is the gate's half of `NotesHold`: no file reaches
  "pass" except one that meets every clause of the intake spec but, possibly, the two of
  `Untested`. It rests on `FilesAssumption`.
- `SerialContract` holds with its exception: where nothing overlaps on the key, a
  command that raises after it has committed is an intake, and the lock it could not
  get is another client's.

The argument: a step belongs to one client and leaves the others' locals alone
(`StepsAreOwn`); a step that commits nothing keeps the others' part of the
invariant (`QuietSteps`); a commit keeps it because everyone about to write the
same key is then overtaken, and nobody else can be past taking the lock
(`CommitSteps`). The properties follow from `Inv` by looking at the two steps
that change a row.

`ApplyEditProofs`, for any bounds on copies: `InvHolds`, and
`VerifiedEditsAreCommanded`. Its invariant says that a session that may still save
holds the `.lck`, so a call that got past `Start` has the design to itself, and
that an accepted edit log leaves three possible designs (`EditedInv`), of which
the verification rejects all but the commanded one.

`FixLoopProofs`, for any number of harnesses and iterations, any command lines
and any bound on copies: `InvHolds`, `FixesAreProven`, `OnlyVerifiedSolved` and
`EvidenceKept`. None of the properties is inductive: that a solve is of the
commanded design depends on what every earlier stage found in the directory
(`ArtifactsInv`), that an exit with 0 is a proof on the referee having read the
verdicts that are still there (`JudgedInv`), and both on nobody else being in the
directory (`OwnInv`). The argument: a stage of one harness changes nothing of
another's but may share its directory with it (`Leaves`); since `OwnInv` rules
that out where there is no intruder, the other harnesses keep their part of the
invariant (`OthersKept`), and one lemma per stage shows that the one who steps
keeps its own. The check of the directory is where an intruder is counted
(`CheckDirKeepsInv`): whoever is already in an empty directory has not copied
yet. `EvidenceKept` follows because each stage finds what it makes missing. The
edit stages rest on two lemmas shared with `ApplyEdit` (`EditJobsProofs`): an
accepted log means the commanded design, except for a deletion that stopped half
way.

`EvalRunnerProofs`, for any runners, any task lists without a repetition, one for each,
and whatever agents may leave (`PlansAssumption`, `LeavesAssumption`): `TypeCorrect`,
`PassedAreSolved`, `ReportsAreOwn` and `ReportsAlwaysAgree`. A pass is not stable by
itself, since what outlived an agent goes on writing, so the invariant says where
such a process can be: in a task whose row says failed, or will (`StraysInv`, which
rests on the timeout being a reason before the grader is asked, and on a runner that
waits having one, `WaitsInv`), or in one that an agent left by itself, of which nothing
is said (`Earned`); and what a verdict without reasons has established so far
(`VerdictInv`). That two runners do not mix their rows rests on the directories: a
runner past generation owns every one of its plan (`RowsInv`; `MadeFacts` counts them),
so two of them have no task in common (`OneOwner`). A report is where the runner that
wrote it is between its two, whoever has written since (`By`, `ReportInv`), and only a
runner past generation has written one (`Reporters`). Three lemmas about graders carry
the rest: `GradeIsSound`, `VerifyIsSound` and `ReasonsOf`.

`SolveStageProofs`, for any number of jobs in any directories: `TypeCorrect`,
`SolvedIsAlwaysSetUp`, `NoSessionOutlivesItsJob` and `TouchstonesAreOwn`. Its
invariant says that a directory has one job at work in it (`Alone`), that a job before
its first success has left no session but with a failed open (`SessionOf`), that a job
whose session is live at a stage has built what comes before that stage, and that what
was saved when the session is closed has everything the solver needs
(`ProgressOf`); a lost session is caught because the terminals raise on it, whatever
the stitches swallowed. A job's touchstone appears with its own solve and is the
newest at its level until it is collected (`TouchstoneOf`), and every touchstone is in
the directory of its job (`InPlace`). A step of a job touches the others'
sessions only, and only by killing them (`Frame`).

`CassetteProofs`, for any recorders, replayers, requests and responses
and any set of readable texts (`SizeAssumption`, `ReadableAssumption`, `NoneAssumption`):
`TypeCorrect`, `ReturnedIsAnswered` and
`UnhurtIsWhole`. The invariant says that every piece of a file, torn or mixed, is
of a response to the request of its key (`FileInv`), so whatever parses is made of such
responses, and that a key nobody hurt has no writer or one before an empty file
(`WritersInv`), so what parses there is one response, whole. That files of different requests are apart is `KeysAreExact`.

`PkgtkProofs`, for any desks with graphs, netlists, sheets and decks of any size, any
hash orders, and any deck bound: `PkgtkInvHolds`, `TypeCorrect`, and one theorem for each
property of `Pkgtk`. The invariant ties every word a tool has said to the files it was
said of: `verdict` is that of the graph under some hash order (`VerdictInv`), the
signed-off revision is one that verified (`BaseInv`), an ingested graph is that of its
netlist (`RowsInv`), the report is the list that goes with the verdict, an answer is that of the files as they still are (`AnswerInv`), and a
rule in the deck comes from a candidate that its acceptor could accept (`DeckInv`). No
property is inductive without it: each concludes from two answers, given at different
steps, to one state of the files. With it, each property is a fact about operators:

- what verify proves. `CleanIsSound` goes check by check (`OneNet`, `OneBall`,
  `NoneCutOff`, `CleanDepop`, `CleanGroundsOf`). The grounds that
  the check counts depend on the hash order; on a graph that verifies they do not, since
  no ball has two nets, and they are balls on ground nets and self-styled ones. `CleanDepop` needs the check of duplicates: the
  check of depopulated positions looks at the last ball of a position only.
- what the order in which a process lists a set can change, on any graph. The first of
  a set of one does not depend on it, so neither do the grounds of an interface none of
  whose balls wavers (`SameGrounds`) nor the position of a net that has one
  (`GridOfOnePosition`); no other check asks for a first. So whatever two processes list
  differently may differ (`ReportsMayDiffer`), and where one list is empty the other has
  adjacency in it at most, which is `VerdictStable`.
- what the other tools add to it. `AgreedIsTheMap` counts: rows map to balls one to
  one (`AsManyRows`). `NoPinTwice` follows a row of the netlist into the parsed graph
  (`ParsedParts`, `ListedOnce`). `SameMeansSamePlaces` rests on a net that is `Plain`
  having a ball at all in a graph that verifies (`PlainHasBall`: its pad would
  be cut off otherwise), and so one position, which the diff compares (`PlainPosition`).
- what battery and deck promise lint and escape. `BatteryAndLintAgree` joins the
  battery's window (`UnflaggedIsPlausible`) to lint's conversion; `FeasibleHasRoom` is the
  arithmetic of the integer division (`DivBelow`). `GapsAreThoseOfCoverage` compares the
  parameters lint dispatches on with those `classify` calls implemented.
- two theorems about algorithms, for every input. `FloatingIsCutOff`: the search of
  `reachable` finds exactly what is connected, so `check_floating` reports the pads that
  are cut off and no others. A round that is not the last adds a node, so as many rounds
  as there are nodes are enough (`ReachableIsStable`). `RowIndexInjective`: rows of letters
  of whatever lengths never share an index.

The last group, and much of the rest, is induction over data: along the nodes of a
graph, the rows of a netlist, the letters of a row. The library's induction theorems take an
operator, which the provers cannot instantiate; `NatSetInduction` derives induction for
a *set* of numbers from the order of Nat being well founded
(`NatLessThanWellFounded`, `WFMin`), `Recursion` from it that a function defined along
`0..N` exists and has its type, and `RecursionKeeps` that what each step keeps holds at
the end. The recursions of the model are functions for that reason: no
module that `PkgtkProofs` extends reaches a RECURSIVE operator.

Model-checked only: the liveness properties `CommandsReturn`, `EveryTaskIsReported`,
`JobsEnd` and `CallsEnd` (liveness under fairness is outside the prover), and the four
violations, which are about particular behaviours. Every invariant and every action
property that a passing run checks is a theorem.

## 5. Disagreements found

1. `transition` is check-then-act over two statements: two processes can commit a
   move that `ALLOWED` does not hold (`registry_race`).
2. The verification counts by substring: ten copies pass for one
   (`edit_retries`).
3. A failed analysis of a baseline run exits 0 (`fixloop_exit`).
4. A crash while `report.json` is rewritten loses the rows of paid runs
   (`eval_crash`).

Without a run of their own, but listed with their lines and the words they disagree
with in `PROJECT.json`; each is an exception a property names, or a place where the
model follows the code and not its document:

- Intake: frequencies below zero and rows of another width pass the Touchstone gate
  (`ts_gate.py:130`, `:66`); an intake locked out of its second write leaves a received
  row that says nothing of the verdict (`registry.py:103`).
- Evals: what an agent left behind can write after the grader has looked
  (`run_eval.py:138`); a fix that touches unrelated nodes passes (`graders.py:134`);
  two runners with other families under one `--out` overwrite each other's
  report (`run_eval.py:216`); on Windows a process that holds the pipes stops the run
  (`run_eval.py:140`).
- Solve stage: nothing before the solver is timeboxed (`build_and_solve.py:100`); a
  constructor or a close that raises leaves a session (`:106`, `:268`); only the open
  is retried (`:104`); a stale touchstone at the top hides the solve's own
  further down (`:285`).
- Recordings: two answers of one layout can blend into one nobody gave
  (`cassette.py:44`).
- Checks: the lists are not byte-stable (`common.py:90`); a ball that calls itself gnd
  counts on any net (`rules.py:43`); the ratio of grounds is a truncated product of
  floats (`rules.py:78`).
- Lint: the coverage is computed and dropped, so a rule nobody checks passes in silence
  (`cli/check.py:67`); every violation is hard whatever its rule's severity
  (`engine.py:47`); degas voids are a layer and not derived (`engine.py:95`).
- The others: the battery accepts without a second extraction (`battery.py:149`); short
  netlist rows vanish (`aif.py:83`); the escape oracle does not convert units
  (`escape.py:33`); `pair_broken` sees one of the two partners (`diff/engine.py:96`);
  coordinates of a ball without an `xy`, and blank ones in two columns, agree with
  anything (`pinmap_crosscheck.py:167`, `:116`).

Met while reading, without a run of their own: `run_iteration --edit
resize-plane` never passes `--old-rect`, which `apply_edit.py:251-253` requires,
so the usage example at `run_iteration.py:12-13` cannot succeed (in `FixLoop` the
resize fails at the edit stage, a conjunct of `Inv`). `PLAYBOOK.md:63` has the
prediction written to `prediction.md`; on a case-sensitive file system only
`PREDICTION.md` is exempt (`run_iteration.py:72`). Others are noted with the
hazards in `PROJECT.json`.

## 6. Not modelled, and the plan

- Floating-point physics (`pdn_cavity`, peak finding, passivity numerics, the
  demo's plots), KLayout geometry and the text of prompts and reports are outside
  what these tools decide. With the geometry go lint's violations and its exit code.
- `schemas/expr.py`: an expression parses or does not; its evaluation has no caller
  among the tools modelled (lint and escape take scalar rules only).
- Benchmarks, the synthetic generators and most scripts are sequential batch code
  over the checks; `extracta_to_graph` and `golden_guard` keep no state.
- A check that is given a missing `--config` silently uses defaults
  (`verify.py:18`), and a layer map that names an empty layer lints clean
  (`engine.py:39`): both are visible in the code and no document promises
  otherwise.

Proofs to follow: that the checks report nothing else (the converse of `CleanIsSound`,
which `FloatingIsCutOff` is for one check), that every row index is some row's (the other half
of the bijection), and abstract specifications of the eval runner and of the
iteration harness that theirs refine, as `Librarian` is for the registry.
