-------------------------- MODULE MCReportingMonths --------------------------
(* A small instance of ReportingMonths. *)
EXTENDS ReportingMonths, TLC

CONSTANTS s1, s2, p1, p2, d1, d2, bal, tmpl, ev, v1, v2, r1

MCSessions == {s1, s2}
MCPeriods == {p1, p2}
MCDates == {d1, d2}
MCValues == {v1, v2}
SymmetrySessions == Permutations(MCSessions)
Symmetry ==
  Permutations(MCSessions) \cup Permutations(MCPeriods) \cup Permutations(MCDates) \cup
  Permutations(MCValues)
=============================================================================
