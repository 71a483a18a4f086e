----------------------------- MODULE MCBatchJob -----------------------------
(* Instances of BatchJob: a transcription and a normalization over one or  *)
(* two segments.                                                           *)
EXTENDS BatchJob

MCSegments    == {1, 2}
MCOneSegment  == {1}
MCJobs        == {"t", "n"}
MCTranscribes == {"t"}
MCNone        == {}
MCOneJob      == {"t"}
=============================================================================
