-------------------------- MODULE MCCommittedTraces --------------------------
(* One or two original traces, compositions of one to four cosets, both    *)
(* settings of the cache, and up to three rows of a table.                 *)
EXTENDS CommittedTraces, FiniteSetsExt

MCShapes == [full : BOOLEAN, fft : BOOLEAN, widths : {<<1>>, <<2>>, <<1, 2>>}, degree : {1, 2, 4}]

MCRowsToFetch ==
  LET rows == 0 .. NCosets * TraceLength - 1
  IN {SetToSortSeq(s, <) : s \in UNION {kSubset(k, rows) : k \in 0..3}}
=============================================================================
