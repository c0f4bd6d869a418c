------------------------- MODULE MCDownloadPipeline -------------------------
EXTENDS DownloadPipeline, TLC

CONSTANTS p1, h1

\* Nothing allowed; files at p1 go to d1, or to d2.
Off == [allowed |-> FALSE, sources |-> {}, dest |-> "d1"]
ToD1 == [allowed |-> TRUE, sources |-> {p1}, dest |-> "d1"]
ToD2 == [allowed |-> TRUE, sources |-> {p1}, dest |-> "d2"]

NothingAllowed == {Off}
TwoPolicies == {Off, ToD1}
ThreePolicies == {Off, ToD1, ToD2}
FilesAtP1 == [h \in Hashes |-> p1]

PipelineSymmetry ==
  Permutations(Tasks) \cup Permutations(Calls) \cup Permutations(MonitorKeys)
=============================================================================
