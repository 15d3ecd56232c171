----------------------------- MODULE MCBlindExam -----------------------------
(* Small instances of the examination. *)
EXTENDS BlindExamRefines, TLC

CONSTANTS m, n, p1, p2, r1, r2, prediction, probes, manifest

MCPolicy == <<p1, p2>>
OnlyPolicy == {MCPolicy}
NoFile == <<>>
OnlyNoFile == {NoFile}
RunnerSymmetry == Permutations(Runners)
MCOrder == <<prediction, probes, manifest>>
ShortOrder == <<probes, manifest>>
OnlyProbes == <<probes>>
MCRecorded == <<prediction, probes>>
=============================================================================
