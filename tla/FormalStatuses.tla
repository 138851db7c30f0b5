----------------------------- MODULE FormalStatuses -----------------------------
(***************************************************************************)
(* What formal verification says of a bin, and what the answers of several *)
(* runs come to (covsight.core.api.enums.formal_status).                   *)
(***************************************************************************)
EXTENDS Integers, Sequences, FiniteSetsExt

\* By how much they tell.
FormalStatus == << "none", "assumption", "vacuous", "inconclusive", "proof", "failure",
                   "conflict" >>

Rank(status) == CHOOSE i \in DOMAIN FormalStatus : FormalStatus[i] = status

\* merge_formal_statuses: a proof and a failure are a conflict, otherwise the
\* most informative status wins.
MergedStatus(ss) ==
    IF {"proof", "failure"} \subseteq ss THEN "conflict"
    ELSE FormalStatus[Max({1} \cup {Rank(s) : s \in ss})]

==============================================================================
