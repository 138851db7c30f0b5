---------------------------- MODULE MCParquetDataset ----------------------------
(* Instances of ParquetDataset: two designs, three uploads of one of them. *)
EXTENDS ParquetDataset

CONSTANTS cpu0, cpu1, cpu0b, dsp, merge, cpu, other

\* cpu0b is a second upload of run 0, dsp a run of another design, and merge a
\* merge of runs of some other dataset.
MCUploads == {cpu0, cpu1, cpu0b, dsp, merge}
MCRunOf == [u \in Uploads |-> IF u \in {cpu0, cpu0b} THEN 0
                              ELSE IF u = cpu1 THEN 1
                              ELSE IF u = merge THEN Merged ELSE 2]
MCDesignOf == [u \in Uploads |-> IF u = dsp THEN other ELSE cpu]

MCTables == << "counts", "test_cover_assoc" >>
MCDefTables == << "scopes", "coveritems" >>

==============================================================================
