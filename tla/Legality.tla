------------------------------- MODULE Legality -------------------------------
(***************************************************************************)
(* The legality table of cli.c: the timing boundaries a benchmark may ask  *)
(* for with each backend, and what each one reports.                       *)
(***************************************************************************)

KERNEL_COLUMNS == {"k1_ms", "k2_ms", "k3_ms"}

Row(backend, boundary, columns, transfers, needsCuda, default, step) ==
  [backend |-> backend, boundary |-> boundary, columns |-> columns, transfers |-> transfers,
   needsCuda |-> needsCuda, default |-> default, step |-> step]
LegalityTable ==
  { Row("cpu", "host-host", {}, FALSE, FALSE, TRUE, 1),
    Row("cpu", "gpu-origin", {"d2h_ms", "cpu_ms"}, TRUE, TRUE, FALSE, 1),
    Row("cpu-avx2", "host-host", {}, FALSE, FALSE, TRUE, 1),
    Row("cuda", "resident", KERNEL_COLUMNS, FALSE, TRUE, FALSE, 1),
    Row("cuda", "host-origin", KERNEL_COLUMNS \cup {"h2d_ms", "d2h_ms"}, TRUE, TRUE, TRUE, 1),
    Row("cuda", "resident-graph", {"capture"}, FALSE, TRUE, FALSE, 0),
    Row("cuda", "gpu-origin", KERNEL_COLUMNS \cup {"d2h_ms"}, TRUE, TRUE, FALSE, 1) }

\* resolve_bench: the row named on the command line, or the default one.
RowsFor(r) ==
  {row \in LegalityTable :
     /\ row.backend = r.backend
     /\ IF r.boundary = "none" THEN row.default ELSE row.boundary = r.boundary}
BenchRow(r) == CHOOSE row \in RowsFor(r) : TRUE
=============================================================================
