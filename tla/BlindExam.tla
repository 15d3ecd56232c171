------------------------------ MODULE BlindExam ------------------------------
(***************************************************************************)
(* The machine-first examination of a held-out unit:                        *)
(* tools/unit003_blind_acquire.py selects evidence by path, acquires the    *)
(* selected files into a packet directory and, at the end, records the      *)
(* first seal; tools/risu_e0_machine_first.py (risu_e0/machine_first.py)    *)
(* loads the packet, writes the semantic artifacts and their seal into an   *)
(* output directory and verifies it.                                        *)
(*                                                                         *)
(* The tools are separate processes that meet in files.  Fetches fail,      *)
(* processes are killed and started again, and some run side by side.       *)
(***************************************************************************)
EXTENDS Naturals, Sequences

CONSTANTS
  Paths,       \* paths of evidence files
  Selections,  \* the selections verify_selection accepts: sequences of paths
  Policy,      \* the one build_selection computes from the pinned tree
  RunIds,
  Dirs,        \* an examination d has a packet and an output directory
  Order,       \* the artifacts in the order they are written
  RunOnly,     \* those that depend on the run id and on no evidence
  Recorded,    \* those the record hashes once more, in that order
  Acquirers, Runners, Recorders,   \* processes of each tool
  OwnOutput,   \* does a tool get the two directories of one examination?
  Overlap,     \* may tools run side by side?
  HandEdits,   \* does somebody edit selections and packets?
  None, Torn

Elements(s) == {s[n] : n \in DOMAIN s}
Artifacts == Elements(Order)
Tools == Runners \cup Recorders

\* A MACHINE_INPUT.json, and with it everything a digest of a packet binds: the
\* evidence rows are the rows of the selection with the digests of their blobs.
Inputs == [run : RunIds, selection : Selections]
\* An artifact: what of the packet it was derived from.
Contents == [run : RunIds, selection : Selections \cup {None}]
\* An evidence file holds the blob of the pinned revision or other bytes.
FileStates == {"exact", "other", None}

Packets == [input : Inputs \cup {None, Torn}, files : [Paths -> FileStates]]
\* A seal lists the digests of all artifacts derived from one input: it is
\* represented by that input.
Outputs ==
  [artifact : [Artifacts -> Contents \cup {None, Torn}], seal : Inputs \cup {None, Torn},
   extra : BOOLEAN]
Records ==
  [selection : Selections, packet : Inputs, seal : Inputs,
   sealed : [Artifacts -> Contents \cup {None, Torn}],
   copied : [Elements(Recorded) -> Contents \cup {None, Torn}]]

AcquirerPcs == {"idle", "empty", "rows"}
ToolPcs ==
  {"idle", "input", "rows", "write", "present", "seal", "hash", "manifest", "report", "copy"}

ASSUME ExamConstants ==
  /\ Selections \subseteq Seq(Paths) /\ Policy \in Selections
  /\ Order \in Seq(Artifacts) /\ Recorded \in Seq(Artifacts) /\ RunOnly \subseteq Artifacts
  /\ OwnOutput \in BOOLEAN /\ Overlap \in BOOLEAN /\ HandEdits \in BOOLEAN
  /\ Runners \cap Recorders = {}
  /\ Order # <<>>
  /\ None # Torn /\ "exact" # None /\ "other" # None
  /\ {None, Torn} \cap (Inputs \cup Contents \cup RunIds \cup Selections \cup Records) = {}

VARIABLES
  selection,  \* ROUND0_SELECTION.json
  packet,     \* the packet directories
  output,     \* the output directories
  record,     \* FIRST_SEAL_RECORD.json
  acquirer,   \* the acquire processes: arguments and progress
  tool,       \* the machine-first and record processes
  begun,      \* history: the packet directories a machine-first run has loaded
  admitted,   \* history: the inputs artifacts were built from
  emitted     \* history: the first seal of an output directory that verified

files == <<selection, packet, output, record>>
history == <<begun, admitted, emitted>>
vars == <<files, acquirer, tool, history>>

IdleAcquirer == [pc |-> "idle", dir |-> None, run |-> None, selection |-> <<>>, row |-> 1]
NothingRead == [a \in Artifacts |-> None]
NothingCopied == [a \in Elements(Recorded) |-> None]
IdleTool ==
  [pc |-> "idle", dir |-> None, out |-> None, loads |-> 0, row |-> 1, input |-> None,
   run |-> None, seal |-> None, read |-> NothingRead, selection |-> None,
   copied |-> NothingCopied]

Init ==
  /\ selection = None /\ record = None
  /\ packet = [d \in Dirs |-> [input |-> None, files |-> [p \in Paths |-> None]]]
  /\ output \in [Dirs -> [artifact : {NothingRead}, seal : {None}, extra : BOOLEAN]]
  /\ acquirer = [a \in Acquirers |-> IdleAcquirer]
  /\ tool = [t \in Tools |-> IdleTool]
  /\ begun = {} /\ admitted = {}
  /\ emitted = [d \in Dirs |-> None]

-----------------------------------------------------------------------------
Quiet == (\A a \in Acquirers : acquirer[a].pc = "idle") /\ (\A t \in Tools : tool[t].pc = "idle")
MayStart == Overlap \/ Quiet

Derived(a, i) == [run |-> i.run, selection |-> IF a \in RunOnly THEN None ELSE i.selection]
DerivedSet(i) == [a \in Artifacts |-> Derived(a, i)]

\* Mutant: the selection is not verified before content is fetched.
AnySelection(s) == s # None

\* verify_selection
VerifiedSelection(s) == s \in Selections
Present(d) == {p \in Paths : packet[d].files[p] # None}

-----------------------------------------------------------------------------
(* unit003_blind_acquire.py select *)

Select ==
  /\ MayStart
  /\ selection' \in {Policy, Torn}
  /\ UNCHANGED <<packet, output, record, acquirer, tool, history>>

-----------------------------------------------------------------------------
(* unit003_blind_acquire.py acquire *)

AcquirerAt(a, pc) == acquirer[a].pc = pc
AcquirerGoes(a, pc) == acquirer' = [acquirer EXCEPT ![a].pc = pc]
AcquirerEnds(a) == acquirer' = [acquirer EXCEPT ![a] = IdleAcquirer]
OnlyAcquirer == UNCHANGED <<selection, output, record, tool, history>>

Acquire(a) ==
  /\ AcquirerAt(a, "idle") /\ MayStart
  /\ VerifiedSelection(selection)
  /\ \E d \in Dirs, r \in RunIds :
       acquirer' = [acquirer EXCEPT
         ![a] = [pc |-> "empty", dir |-> d, run |-> r, selection |-> selection, row |-> 1]]
  /\ OnlyAcquirer /\ UNCHANGED packet

\* Mutant: a packet directory is used again.
RequireAnyDirectory(a) ==
  /\ AcquirerAt(a, "empty")
  /\ AcquirerGoes(a, "rows")
  /\ OnlyAcquirer /\ UNCHANGED packet

\* "packet directory must be absent or empty"
RequireEmptyDirectory(a) ==
  /\ AcquirerAt(a, "empty")
  /\ LET d == acquirer[a].dir IN
       IF packet[d].input = None /\ Present(d) = {}
         THEN AcquirerGoes(a, "rows")
         ELSE AcquirerEnds(a)
  /\ OnlyAcquirer /\ UNCHANGED packet

\* One selected file: its bytes have the blob digest of the row, or the fetch fails.
AcquireRow(a) ==
  /\ AcquirerAt(a, "rows") /\ acquirer[a].row \in DOMAIN acquirer[a].selection
  /\ \/ /\ LET c == acquirer[a] IN
             packet' = [packet EXCEPT ![c.dir].files[c.selection[c.row]] = "exact"]
        /\ acquirer' = [acquirer EXCEPT ![a].row = @ + 1]
     \/ AcquirerEnds(a) /\ UNCHANGED packet
  /\ OnlyAcquirer

WriteMachineInput(a) ==
  /\ AcquirerAt(a, "rows") /\ acquirer[a].row \notin DOMAIN acquirer[a].selection
  /\ LET c == acquirer[a] IN
       packet' = [packet EXCEPT ![c.dir].input = [run |-> c.run, selection |-> c.selection]]
  /\ AcquirerEnds(a)
  /\ OnlyAcquirer

\* The process is killed; the file it was writing may be cut short.
KillAcquirer(a) ==
  /\ ~AcquirerAt(a, "idle")
  /\ LET c == acquirer[a] IN
       \/ UNCHANGED packet
       \/ /\ c.pc = "rows" /\ c.row \in DOMAIN c.selection
          /\ packet' = [packet EXCEPT ![c.dir].files[c.selection[c.row]] = "other"]
       \/ /\ c.pc = "rows" /\ c.row \notin DOMAIN c.selection
          /\ packet' = [packet EXCEPT ![c.dir].input = Torn]
  /\ AcquirerEnds(a)
  /\ OnlyAcquirer

AcquirerNext(a) ==
  \/ Acquire(a) \/ RequireEmptyDirectory(a) \/ AcquireRow(a)
  \/ WriteMachineInput(a) \/ KillAcquirer(a)

-----------------------------------------------------------------------------
(* load_machine_packet, for both tools *)

ToolAt(t, pc) == tool[t].pc = pc
ToolGoes(t, pc) == tool' = [tool EXCEPT ![t] = [@ EXCEPT !.pc = pc]]
ToolEnds(t) == tool' = [tool EXCEPT ![t] = IdleTool]
\* An exception the tool turns into exit 20.
ToolFails(t) == ToolEnds(t) /\ UNCHANGED history
OnlyTool == UNCHANGED <<selection, packet, acquirer>>
OnlyReads == OnlyTool /\ UNCHANGED <<output, record>>

LoadInput(t) ==
  /\ ToolAt(t, "input")
  /\ LET i == packet[tool[t].dir].input IN
       IF i \in Inputs
         THEN /\ tool' = [tool EXCEPT ![t] = [@ EXCEPT !.pc = "rows", !.input = i, !.row = 1]]
              /\ UNCHANGED history
         ELSE ToolFails(t)
  /\ OnlyReads

LoadRow(t) ==
  /\ ToolAt(t, "rows")
  /\ LET c == tool[t] IN
       /\ c.row \in DOMAIN c.input.selection
       /\ IF packet[c.dir].files[c.input.selection[c.row]] = "exact"
            THEN tool' = [tool EXCEPT ![t].row = @ + 1] /\ UNCHANGED history
            ELSE ToolFails(t)
  /\ OnlyReads

\* Every file of the directory is declared.  A machine-first run loads the packet
\* twice: main for the run id it reports, write_semantic_outputs for the artifacts.
CloseLoad(t) ==
  /\ ToolAt(t, "rows") /\ tool[t].row \notin DOMAIN tool[t].input.selection
  /\ LET c == tool[t] IN
       IF packet[c.dir].input = None \/ Present(c.dir) # Elements(c.input.selection)
         THEN ToolFails(t)
         ELSE IF t \in Recorders
         THEN ToolGoes(t, "present") /\ UNCHANGED history
         ELSE IF c.loads = 0
         THEN /\ tool' = [tool EXCEPT ![t] =
                     [@ EXCEPT !.pc = "input", !.loads = 1, !.run = c.input.run]]
              /\ begun' = begun \cup {c.dir}
              /\ UNCHANGED <<admitted, emitted>>
         ELSE /\ tool' = [tool EXCEPT ![t] = [@ EXCEPT !.pc = "write", !.loads = 2, !.row = 1]]
              /\ admitted' = admitted \cup {c.input}
              /\ UNCHANGED <<begun, emitted>>
  /\ OnlyReads

-----------------------------------------------------------------------------
(* verify_output_dir, for both tools *)

\* Mutant: other files in the directory are not looked for.
Complete(t) ==
  LET o == output[tool[t].out] IN
    /\ \A a \in Artifacts : o.artifact[a] # None
    /\ o.seal # None

CompleteAndClosed(t) ==
  LET o == output[tool[t].out] IN
    /\ \A a \in Artifacts : o.artifact[a] # None
    /\ o.seal # None
    /\ ~o.extra

RequirePresent(t) ==
  /\ ToolAt(t, "present")
  /\ IF CompleteAndClosed(t) THEN ToolGoes(t, "seal") /\ UNCHANGED history ELSE ToolFails(t)
  /\ OnlyReads

ReadSeal(t) ==
  /\ ToolAt(t, "seal")
  /\ LET s == output[tool[t].out].seal IN
       IF s \in Inputs
         THEN /\ tool' = [tool EXCEPT ![t] = [@ EXCEPT !.pc = "hash", !.seal = s, !.row = 1]]
              /\ UNCHANGED history
         ELSE ToolFails(t)
  /\ OnlyReads

HashArtifact(t) ==
  /\ ToolAt(t, "hash") /\ tool[t].row \in DOMAIN Order
  /\ LET a == Order[tool[t].row] IN
       tool' = [tool EXCEPT ![t] =
         [@ EXCEPT !.read[a] = output[tool[t].out].artifact[a], !.row = tool[t].row + 1]]
  /\ OnlyReads /\ UNCHANGED history

\* Mutant: the seal binds what was hashed before the manifest was built.
CompareHashesBeforeManifest(t) ==
  /\ ToolAt(t, "hash") /\ tool[t].row \notin DOMAIN Order
  /\ LET s == DerivedSet(tool[t].seal) IN
       IF \A a \in Artifacts \ {Order[Len(Order)]} : tool[t].read[a] = s[a]
         THEN ToolGoes(t, "manifest") /\ UNCHANGED history
         ELSE ToolFails(t)
  /\ OnlyReads

CompareHashes(t) ==
  /\ ToolAt(t, "hash") /\ tool[t].row \notin DOMAIN Order
  /\ IF tool[t].read = DerivedSet(tool[t].seal)
       THEN ToolGoes(t, "manifest") /\ UNCHANGED history
       ELSE ToolFails(t)
  /\ OnlyReads

\* The manifest, the last artifact, is read once more.
ReadManifest(t) ==
  /\ ToolAt(t, "manifest")
  /\ LET c == tool[t] IN
       IF output[c.out].artifact[Order[Len(Order)]] = Torn
         THEN ToolFails(t)
         ELSE /\ tool' = [tool EXCEPT ![t] =
                     [@ EXCEPT !.pc = IF t \in Runners THEN "report" ELSE "copy", !.row = 1]]
              /\ emitted' = [emitted EXCEPT ![c.out] = IF @ = None THEN c.seal ELSE @]
              /\ UNCHANGED <<begun, admitted>>
  /\ OnlyReads

-----------------------------------------------------------------------------
(* risu_e0_machine_first.py *)

Directories(d) == IF OwnOutput THEN {d} ELSE Dirs

StartRun(t) ==
  /\ ToolAt(t, "idle") /\ MayStart
  /\ \E d \in Dirs : \E o \in Directories(d) :
       tool' = [tool EXCEPT ![t] = [IdleTool EXCEPT !.pc = "input", !.dir = d, !.out = o]]
  /\ OnlyReads /\ UNCHANGED history

WriteArtifact(t) ==
  /\ ToolAt(t, "write") /\ tool[t].row \in DOMAIN Order
  /\ LET c == tool[t]
         a == Order[c.row]
     IN output' = [output EXCEPT ![c.out].artifact[a] = Derived(a, c.input)]
  /\ tool' = [tool EXCEPT ![t].row = @ + 1]
  /\ OnlyTool /\ UNCHANGED <<record, history>>

\* Mutant: the seal names the run of the invocation and not that of the packet.
WriteSealOfAnyRun(t) ==
  /\ ToolAt(t, "write") /\ tool[t].row \notin DOMAIN Order
  /\ \E r \in RunIds :
       output' = [output EXCEPT ![tool[t].out].seal = [tool[t].input EXCEPT !.run = r]]
  /\ ToolGoes(t, "present")
  /\ OnlyTool /\ UNCHANGED <<record, history>>

WriteSeal(t) ==
  /\ ToolAt(t, "write") /\ tool[t].row \notin DOMAIN Order
  /\ output' = [output EXCEPT ![tool[t].out].seal = tool[t].input]
  /\ ToolGoes(t, "present")
  /\ OnlyTool /\ UNCHANGED <<record, history>>

\* The timing sidecar, which no tool reads, is written or not; the run reports success.
Report(t) ==
  /\ ToolAt(t, "report")
  /\ ToolEnds(t)
  /\ OnlyReads /\ UNCHANGED history

\* The process is killed; the file it was writing may be cut short.
KillRun(t) ==
  /\ ~ToolAt(t, "idle")
  /\ LET c == tool[t] IN
       \/ UNCHANGED output
       \/ /\ c.pc = "write" /\ c.row \in DOMAIN Order
          /\ output' = [output EXCEPT ![c.out].artifact[Order[c.row]] = Torn]
       \/ /\ c.pc = "write" /\ c.row \notin DOMAIN Order
          /\ output' = [output EXCEPT ![c.out].seal = Torn]
  /\ ToolEnds(t)
  /\ OnlyTool /\ UNCHANGED <<record, history>>

RunnerNext(t) ==
  \/ StartRun(t) \/ LoadInput(t) \/ LoadRow(t) \/ CloseLoad(t)
  \/ WriteArtifact(t) \/ WriteSeal(t)
  \/ RequirePresent(t) \/ ReadSeal(t) \/ HashArtifact(t) \/ CompareHashes(t)
  \/ ReadManifest(t) \/ Report(t) \/ KillRun(t)

-----------------------------------------------------------------------------
(* unit003_blind_acquire.py record *)

StartRecord(t) ==
  /\ ToolAt(t, "idle") /\ MayStart
  /\ VerifiedSelection(selection)
  /\ \E d \in Dirs : \E o \in Directories(d) :
       tool' = [tool EXCEPT ![t] = [IdleTool EXCEPT !.pc = "input", !.dir = d, !.out = o,
                                                    !.selection = selection]]
  /\ OnlyReads /\ UNCHANGED history

\* The prediction, the probe plan and the requests are read again and hashed.
CopyArtifact(t) ==
  /\ ToolAt(t, "copy") /\ tool[t].row \in DOMAIN Recorded
  /\ LET a == Recorded[tool[t].row] IN
       tool' = [tool EXCEPT ![t] =
         [@ EXCEPT !.copied[a] = output[tool[t].out].artifact[a], !.row = tool[t].row + 1]]
  /\ OnlyReads /\ UNCHANGED history

WriteRecord(t) ==
  /\ ToolAt(t, "copy") /\ tool[t].row \notin DOMAIN Recorded
  /\ LET c == tool[t] IN
       record' = [selection |-> c.selection, packet |-> c.input, seal |-> c.seal,
                  sealed |-> c.read, copied |-> c.copied]
  /\ ToolEnds(t)
  /\ OnlyTool /\ UNCHANGED <<output, history>>

KillRecord(t) ==
  /\ ~ToolAt(t, "idle")
  /\ \/ UNCHANGED record
     \/ ToolAt(t, "copy") /\ tool[t].row \notin DOMAIN Recorded /\ record' = Torn
  /\ ToolEnds(t)
  /\ OnlyTool /\ UNCHANGED <<output, history>>

RecorderNext(t) ==
  \/ StartRecord(t) \/ LoadInput(t) \/ LoadRow(t) \/ CloseLoad(t)
  \/ RequirePresent(t) \/ ReadSeal(t) \/ HashArtifact(t) \/ CompareHashes(t)
  \/ ReadManifest(t) \/ CopyArtifact(t) \/ WriteRecord(t) \/ KillRecord(t)

-----------------------------------------------------------------------------
(* Surroundings *)

\* A directory in which no machine-first run has begun is emptied, so that a failed
\* acquisition can be repeated.
ClearPacket(d) ==
  /\ Quiet /\ d \notin begun
  /\ packet' = [packet EXCEPT ![d] = [input |-> None, files |-> [p \in Paths |-> None]]]
  /\ UNCHANGED <<selection, output, record, acquirer, tool, history>>

\* Somebody puts other files into a packet directory, or edits the selection.
EditPacket(d) ==
  /\ HandEdits
  /\ \/ \E p \in Paths, f \in FileStates : packet' = [packet EXCEPT ![d].files[p] = f]
     \/ \E i \in Inputs \cup {Torn} : packet' = [packet EXCEPT ![d].input = i]
  /\ UNCHANGED <<selection, output, record, acquirer, tool, history>>

EditSelection ==
  /\ HandEdits
  /\ selection' \in Selections
  /\ UNCHANGED <<packet, output, record, acquirer, tool, history>>

Next ==
  \/ Select \/ EditSelection
  \/ \E a \in Acquirers : AcquirerNext(a)
  \/ \E t \in Runners : RunnerNext(t)
  \/ \E t \in Recorders : RecorderNext(t)
  \/ \E d \in Dirs : ClearPacket(d) \/ EditPacket(d)

Spec == Init /\ [][Next]_vars

-----------------------------------------------------------------------------
(* Properties *)

TypeOK ==
  /\ selection \in Selections \cup {None, Torn}
  /\ packet \in [Dirs -> Packets]
  /\ output \in [Dirs -> Outputs]
  /\ record \in Records \cup {None, Torn}
  /\ acquirer \in [Acquirers -> [pc : AcquirerPcs, dir : Dirs \cup {None},
       run : RunIds \cup {None}, selection : Seq(Paths), row : Nat]]
  /\ tool \in [Tools -> [pc : ToolPcs, dir : Dirs \cup {None}, out : Dirs \cup {None},
       loads : 0..2, row : Nat, input : Inputs \cup {None}, run : RunIds \cup {None},
       seal : Inputs \cup {None}, read : [Artifacts -> Contents \cup {None, Torn}],
       selection : Selections \cup {None},
       copied : [Elements(Recorded) -> Contents \cup {None, Torn}]]]
  /\ begun \subseteq Dirs /\ admitted \subseteq Inputs
  /\ emitted \in [Dirs -> Inputs \cup {None}]

\* What a verification accepted, and what a record says was sealed, is the complete
\* artifact set of one packet that a run loaded and closed, whatever else was written
\* into the directory meanwhile, and whoever was killed on the way.
OneRun(seal, read) == seal \in admitted /\ read = DerivedSet(seal)
VerifiedIsOneRun ==
  /\ \A t \in Tools :
       tool[t].pc \in {"manifest", "report", "copy"} => OneRun(tool[t].seal, tool[t].read)
  /\ record \in Records => OneRun(record.seal, record.sealed)

\* When a machine-first run is about to exit 0, its directory holds the complete set
\* of one run, the one it reports, with its seal and nothing foreign
\* (protocols/RISU_DIFF_E0_MACHINE_FIRST_FREEZE_v0.1.json: exit 0 is "valid complete
\* machine-first artifact set emitted"), whatever earlier runs left there.
ExitZeroNamesACompleteSet ==
  \A t \in Runners :
    ToolAt(t, "report") =>
      LET o == output[tool[t].out] IN
        /\ o.seal \in Inputs /\ o.seal.run = tool[t].run
        /\ o.artifact = DerivedSet(o.seal) /\ ~o.extra

\* A first seal record describes one examination: the packet it names is the one the
\* sealed artifacts were derived from, and the artifacts it hashes once more are the
\* sealed ones, unless a run killed meanwhile had just cut one of them short.
RecordBinds ==
  record \in Records =>
    /\ record.packet = record.seal
    /\ \A a \in Elements(Recorded) : record.copied[a] \in {record.sealed[a], Torn}

\* A packet does not change once a machine-first run has loaded it
\* (experiments/unit003-blind-machine-first/EXAM_PROTOCOL_EFFECTIVE_001.json:22).
PacketImmutableOnceBegun ==
  [][\A d \in begun : packet'[d] = packet[d]]_vars

\* The first seal of an output directory that verified is never replaced by the seal
\* of another run, by no repeated or killed run
\* (experiments/unit003-blind-machine-first/EXAM_PROTOCOL_EFFECTIVE_001.json:24).
EmittedSealStands ==
  [][\A d \in Dirs : emitted[d] # None => output'[d].seal \in {emitted[d], Torn}]_vars
=============================================================================
