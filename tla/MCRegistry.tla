----------------------------- MODULE MCRegistry -----------------------------
(* The registry on a few keys and clients, and the files handed to intakes:  *)
(* Touchstone files around the two thresholds with at most one defect, and   *)
(* the ibischk reports of at most two lines that do not contradict           *)
(* themselves.                                                               *)
EXTENDS Registry, FiniteSets

Sound == [readable |-> TRUE, pairs |-> "per_row", finite |-> TRUE, frequencies |-> "increasing"]

Defects(f) == {d \in DOMAIN Sound : f[d] # Sound[d]}

MCFiles ==
    {f \in TouchstoneFile({1001, 1002, 1050, 1051}) : Cardinality(Defects(f)) <= 1}
        \cup IbisModel({r \in UNION {[1..n -> ReportLine({0, 1})] : n \in 0..2} :
                           WellFormedReport(r)})
=============================================================================
