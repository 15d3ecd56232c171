----------------------------- MODULE VbeProgram ------------------------------
(***************************************************************************)
(* The version-bound-effect profile: the consequence a source requires in   *)
(* each bounded world, and the target programs tools/vbe_compile.py builds, *)
(* as the four components discriminator, operative signature, mechanism and *)
(* interpreter.                                                             *)
(*                                                                         *)
(* An instance has a current coordinate with a domain of versions, a        *)
(* reviewed version, and a target pattern.  The reviewed version is, for    *)
(* the source, a literal or a coordinate with a domain of its own; for the  *)
(* target it is always the anchor.  A component is a name for its           *)
(* expression; EffectOf evaluates the program in a world.                   *)
(***************************************************************************)
EXTENDS Naturals, FiniteSets

CONSTANTS Versions, None

ASSUME NoneIsNoVersion == None \notin Versions

Patterns == {"PRESERVED_COMPARE", "OMITTED_REVIEWED_GUARD", "WRONG_VALIDATOR_REJECT_PATH"}

Worlds == [current : Versions, reviewed : Versions, extra : BOOLEAN]
Instances ==
  [domain : SUBSET Versions, reviewed : SUBSET Versions, extra : SUBSET BOOLEAN,
   admissible : SUBSET Worlds, anchor : Versions, pattern : Patterns]

\* The bounded worlds.  A literal reviewed version is a coordinate with the anchor for its
\* domain; an instance without the otherwise-effect coordinate has {TRUE} there.
WorldsOf(inst) ==
  {w \in inst.admissible :
     w.current \in inst.domain /\ w.reviewed \in inst.reviewed /\ w.extra \in inst.extra}

Consequences == {"success", "stale"}
Effects      == Consequences \cup {"outside"}

RequiredIn(inst, w) == IF w.current = w.reviewed THEN "success" ELSE "stale"

Programs ==
  [discriminator : {"match", "current", "literal"},
   signature     : {"compared", "unguarded", "constant"},
   mechanism     : {"compare", "guard", "reject", "accept"},
   interpreter   : {"kinds", "merged", "rejected", "success"}]

ProgramOf ==
  [PRESERVED_COMPARE |->
     [discriminator |-> "match", signature |-> "compared",
      mechanism |-> "compare", interpreter |-> "kinds"],
   OMITTED_REVIEWED_GUARD |->
     [discriminator |-> "current", signature |-> "unguarded",
      mechanism |-> "guard", interpreter |-> "merged"],
   WRONG_VALIDATOR_REJECT_PATH |->
     [discriminator |-> "literal", signature |-> "constant",
      mechanism |-> "reject", interpreter |-> "rejected"]]

\* Do two worlds look the same to the discriminator?
SameToDiscriminator(inst, program, v, w) ==
  \/ program.discriminator = "literal"
  \/ program.discriminator = "current" /\ v.current = w.current
  \/ program.discriminator = "match" /\ (v.current = inst.anchor <=> w.current = inst.anchor)

\* The operative signature is all the mechanism sees of a world; a mechanism that does
\* not look at a field finds the value that makes no difference there.
SignatureOf(inst, program, w) ==
  [current  |-> IF program.signature = "constant" THEN None ELSE w.current,
   reviewed |-> IF program.signature = "unguarded" THEN None ELSE inst.anchor,
   extra    |-> program.signature = "unguarded" => w.extra]

NativeKind(program, z) ==
  LET stale == \/ program.mechanism = "reject"
               \/ program.mechanism = "compare" /\ z.current # z.reviewed
               \/ program.mechanism = "guard" /\ z.reviewed # None /\ z.current # z.reviewed
  IN  IF stale THEN "stale"
      ELSE IF program.mechanism = "guard" /\ ~z.extra THEN "other" ELSE "accept"

\* "kinds", "merged" and "rejected" are the interpreters of the three patterns, "success"
\* the literal of a mutation.  A native result that the interpreter does not know lies outside the consequences; the
\* interpreter of a target without a guard also wants the reviewed version to be merged.
Interpreted(inst, program, kind, merged) ==
  LET accepted == /\ kind = "accept"
                  /\ \/ program.interpreter = "kinds"
                     \/ program.interpreter = "merged" /\ merged = inst.anchor
  IN  IF program.interpreter = "success" \/ accepted THEN "success"
      ELSE IF kind = "stale" THEN "stale" ELSE "outside"

EffectOf(inst, program, w) ==
  LET z == SignatureOf(inst, program, w)
  IN  Interpreted(inst, program, NativeKind(program, z), z.current)

----------------------------------------------------------------------------
(* What the frozen core says of a program, and the product status. *)

Mismatches(inst, program) ==
  {w \in WorldsOf(inst) : EffectOf(inst, program, w) # RequiredIn(inst, w)}

\* D1: the discriminator tells apart what the source tells apart.
Discriminates(inst, program) ==
  \A v, w \in WorldsOf(inst) :
    SameToDiscriminator(inst, program, v, w) => RequiredIn(inst, v) = RequiredIn(inst, w)

ProductStatus(exact, discriminates) ==
  IF ~exact THEN "REGRESSION" ELSE IF discriminates THEN "PRESERVED" ELSE "INCOMPLETE"
=============================================================================
