---------------------------- MODULE IntakeGate ----------------------------
(***************************************************************************)
(* The two gates an intake runs: the Touchstone gate (models/ts_gate.py)   *)
(* and the reader of an ibischk report (models/ibis_gate.py).  A model     *)
(* file is reduced to what its verdict depends on; singular values are in  *)
(* thousandths.                                                            *)
(***************************************************************************)
EXTENDS Naturals, Sequences

Decisions == {"pass", "pass-with-flags", "reject"}

\* A Touchstone file: can it be parsed; has every data row the N^2 pairs of its
\* extension, or do only the numbers of the whole file divide into such rows; are
\* all entries finite; what do the frequencies do; and the largest singular value
\* over all of them.  The last three are those of the rows the gate makes.
TouchstoneFile(Sigmas) ==
    [kind : {"touchstone"}, readable : BOOLEAN,
     pairs : {"per_row", "in_total", "no"}, finite : BOOLEAN,
     frequencies : {"increasing", "from_negative", "not_increasing"}, sigma : Sigmas]

\* A line of an ibischk report: a tagged line, or a summary with its counts.
ReportLine(Counts) ==
    [tag : {"ERROR", "WARNING", "NOTE"}, errors : {0}, warnings : {0}]
        \cup [tag : {"summary"}, errors : Counts, warnings : Counts]

IbisModel(Reports) == [kind : {"ibis"}, exe : BOOLEAN, report : Reports]

-----------------------------------------------------------------------------

Band(sigma) == IF sigma <= 1001 THEN "pass"
               ELSE IF sigma <= 1050 THEN "pass-with-flags"
               ELSE "reject"

\* The verdicts gate() can return for a Touchstone file; "raise" is an
\* exception out of it.  A port-count mismatch is a verdict, any other parse
\* error is raised.  The numbers are counted over the file and not by row, and the
\* frequencies are compared with each other only.  With a NaN or an infinity in the
\* data the singular value decomposition fails or answers NaN, depending on the
\* linked LAPACK.
TsVerdicts(f) ==
    IF ~f.readable THEN {"raise"}
    ELSE IF f.pairs = "no" THEN {"reject"}
    ELSE IF ~f.finite THEN {"raise", "reject"}
    ELSE IF f.frequencies = "not_increasing" THEN {"reject"}
    ELSE {Band(f.sigma)}

Summaries(report) == {i \in DOMAIN report : report[i].tag = "summary"}

Tagged(report, tag) == \E i \in DOMAIN report : report[i].tag = tag

\* The last summary line decides; the tagged lines only when there is none.
AnyErrors(report) ==
    \/ \E i \in Summaries(report) :
          (\A j \in Summaries(report) : j <= i) /\ report[i].errors > 0
    \/ Summaries(report) = {} /\ Tagged(report, "ERROR")

AnyWarnings(report) ==
    \/ \E i \in Summaries(report) :
          (\A j \in Summaries(report) : j <= i) /\ report[i].warnings > 0
    \/ Summaries(report) = {} /\ Tagged(report, "WARNING")

IbisDecision(report) == IF AnyErrors(report) THEN "reject"
                        ELSE IF AnyWarnings(report) THEN "pass-with-flags"
                        ELSE "pass"

\* run_ibischk raises when no executable is configured.
IbisVerdicts(f) == IF f.exe THEN {IbisDecision(f.report)} ELSE {"raise"}

Verdicts(f) == IF f.kind = "touchstone" THEN TsVerdicts(f) ELSE IbisVerdicts(f)

-----------------------------------------------------------------------------
(***************************************************************************)
(* The reference: docs/models-spec.md on which file may be validated.      *)
(***************************************************************************)

\* A report of the golden parser: at most one summary, at the end, that does
\* not contradict the lines above it.
WellFormedReport(report) ==
    \A i \in Summaries(report) :
        /\ i = Len(report)
        /\ (report[i].errors > 0)   <=> Tagged(report, "ERROR")
        /\ (report[i].warnings > 0) <=> Tagged(report, "WARNING")

Clauses == {"readable", "pairs_in_total", "pairs_per_row", "finite", "strictly_increasing",
            "non_negative", "passive", "no_errors", "no_warnings"}

\* A Touchstone file does not meet clause c of the sanity battery or the banding.
TouchstoneFault(f, c) ==
    \/ c = "readable"            /\ ~f.readable
    \/ c = "pairs_in_total"      /\ f.pairs = "no"
    \/ c = "pairs_per_row"       /\ f.pairs # "per_row"
    \/ c = "finite"              /\ ~f.finite
    \/ c = "strictly_increasing" /\ f.frequencies = "not_increasing"
    \/ c = "non_negative"        /\ f.frequencies = "from_negative"
    \/ c = "passive"             /\ ~(f.sigma <= 1001)

\* An IBIS model has no report, or one that is not "clean".
IbisFault(f, c) ==
    \/ c = "readable"    /\ ~f.exe
    \/ c = "no_errors"   /\ Tagged(f.report, "ERROR")
    \/ c = "no_warnings" /\ Tagged(f.report, "WARNING")

Unmet(f) ==
    {c \in Clauses : IF f.kind = "touchstone" THEN TouchstoneFault(f, c) ELSE IbisFault(f, c)}

\* The clauses of models-spec.md no line of the gate tests: N^2 pairs in every
\* data row (ts_gate.py:66 divides the total), and no frequency below zero
\* (ts_gate.py:130 looks at differences only).
Untested == {"pairs_per_row", "non_negative"}

\* Delivered with nothing wrong but, possibly, what nobody looks at.
MeetsTestedClauses(f) == Unmet(f) \subseteq Untested
=============================================================================
