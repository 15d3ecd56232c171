--------------------------- MODULE BlindExamRefines ---------------------------
(***************************************************************************)
(* The tools of the examination implement HeldOutExam when each output     *)
(* directory belongs to one examination: it is begun with the packet a     *)
(* machine-first run has loaded and closed, its seal is                    *)
(* E0_OUTPUT_SEAL.json, and the record attests its packet, its seal    *)
(* and the packet its artifact digests are derived from.                   *)
(***************************************************************************)
EXTENDS BlindExam

BegunWith(d) == IF d \in begun THEN packet[d].input ELSE None

\* Artifacts not derived from the seal of the record are Torn.
Attested ==
  IF record \in Records
    THEN [packet |-> record.packet, seal |-> record.seal,
          artifacts |-> IF record.sealed = DerivedSet(record.seal) THEN record.seal ELSE Torn]
    ELSE None

Promise == INSTANCE HeldOutExam WITH
  Exams <- Dirs,
  Packets <- Inputs,
  begunWith <- [d \in Dirs |-> BegunWith(d)],
  seal <- [d \in Dirs |-> output[d].seal],
  verified <- emitted,
  attested <- Attested

\* Every step of a tool, of its failure and of its operator is a step the abstract
\* examination allows, or none: whatever is repeated, killed or under way together, an
\* examination has one packet, and only what was verified of it is attested
\* (tools/unit003_blind_acquire.py write_first_seal_record).
ImplementsExam == Promise!Spec
=============================================================================
