------------------------------- MODULE MCHistoryV2 -------------------------------
(* Instances of HistoryV2: what a small regression reports of its runs. *)
EXTENDS HistoryV2

CONSTANTS uart, spi, s1, s2, s3

Report(name, seed, ts, status, cov, rerun) ==
    [name |-> name, seed |-> seed, ts |-> ts, status |-> status, cov |-> cov,
     rerun |-> rerun]

MCTests == {uart, spi}

\* Two tests, three seeds, times whose differences take one and two bytes.
MCReports == {Report(uart, s1, 1, "ok", TRUE, FALSE),
              Report(uart, s2, 200, "error", TRUE, FALSE),
              Report(spi, s3, 1, "fail", FALSE, TRUE)}

==============================================================================
