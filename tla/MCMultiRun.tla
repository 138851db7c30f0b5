------------------------------ MODULE MCMultiRun ------------------------------
(* Instances of MultiRun: the uploads of a small regression.  *)
EXTENDS MultiRun, TLC

CONSTANTS start, good, again, bad, wide

\* good, again and bad fit the archive's design; good passes, again is a passing
\* rerun, bad fails; wide is a run of another design.
MCUploads == {start, good, again, bad, wide}
RaceUploads == {start, good, bad}
MCBins == [u \in Uploads |-> IF u = wide THEN {0, 1} ELSE {0}]
MCStatus == [u \in Uploads |-> IF u = bad THEN "fail"
                               ELSE IF u \in {good, again} THEN "pass" ELSE "none"]
MCRerun == [u \in Uploads |-> u = again]

WriterSymmetry == Permutations(Writers)

==============================================================================
