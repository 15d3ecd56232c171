--------------------------- MODULE BlindExam_proofs ---------------------------
(* Theorems about the machine-first examination, for every set of artifacts,     *)
(* selections, directories and processes.                                        *)
EXTENDS BlindExamRefines, SequenceTheorems, TLAPS

AcquirerTypes ==
  [pc : AcquirerPcs, dir : Dirs \cup {None}, run : RunIds \cup {None}, selection : Seq(Paths),
   row : Nat]
ToolTypes ==
  [pc : ToolPcs, dir : Dirs \cup {None}, out : Dirs \cup {None}, loads : 0..2, row : Nat,
   input : Inputs \cup {None}, run : RunIds \cup {None}, seal : Inputs \cup {None},
   read : [Artifacts -> Contents \cup {None, Torn}], selection : Selections \cup {None},
   copied : [Elements(Recorded) -> Contents \cup {None, Torn}]]

\* What a process uses was set by an earlier step.
AcquirerReady(a) ==
  acquirer[a].pc # "idle" =>
    /\ acquirer[a].dir \in Dirs /\ acquirer[a].run \in RunIds
    /\ acquirer[a].selection \in Selections
Loaded == {"rows", "write", "present", "seal", "hash", "manifest", "report", "copy"}
Sealed == {"hash", "manifest", "report", "copy"}
Usable(t, x) ==
  /\ x.pc # "idle" =>
       /\ x.dir \in Dirs /\ x.out \in Dirs
       /\ OwnOutput => x.out = x.dir
       /\ t \in Recorders => x.selection \in Selections
  /\ x.pc \in Loaded => x.input \in Inputs
  /\ x.pc \in Sealed => x.seal \in Inputs
  /\ x.pc = "copy" => t \in Recorders
  /\ x.pc = "write" => t \in Runners
ToolReady(t) == Usable(t, tool[t])

Ready == (\A a \in Acquirers : AcquirerReady(a)) /\ (\A t \in Tools : ToolReady(t))
TypeInv == TypeOK /\ Ready

ToolNext(t) == (t \in Runners /\ RunnerNext(t)) \/ (t \in Recorders /\ RecorderNext(t))

-----------------------------------------------------------------------------
(* Shapes *)

LEMMA ElementsOfOrder ==
  /\ \A n \in DOMAIN Order : Order[n] \in Artifacts
  /\ \A n \in DOMAIN Recorded : Recorded[n] \in Elements(Recorded)
  /\ Elements(Recorded) \subseteq Artifacts
<1>1. ASSUME NEW n \in DOMAIN Recorded PROVE Recorded[n] \in Artifacts
  BY ExamConstants, ElementOfSeq
<1> QED
  BY <1>1 DEF Artifacts, Elements

LEMMA SelectionRows ==
  ASSUME NEW s \in Selections PROVE s \in Seq(Paths) /\ \A n \in DOMAIN s : s[n] \in Paths
<1>1. s \in Seq(Paths)
  BY ExamConstants
<1> QED
  BY <1>1, ElementOfSeq

LEMMA IdleShapes ==
  /\ IdleTool \in ToolTypes /\ IdleTool.pc = "idle"
  /\ IdleAcquirer \in AcquirerTypes /\ IdleAcquirer.pc = "idle"
<1>1. <<>> \in Seq(Paths)
  OBVIOUS
<1>2. NothingRead \in [Artifacts -> Contents \cup {None, Torn}]
  BY DEF NothingRead
<1>3. NothingCopied \in [Elements(Recorded) -> Contents \cup {None, Torn}]
  BY DEF NothingCopied
<1> QED
  BY <1>1, <1>2, <1>3 DEF IdleTool, IdleAcquirer, ToolTypes, AcquirerTypes, ToolPcs, AcquirerPcs

LEMMA TypeSplit ==
  TypeOK <=>
    /\ selection \in Selections \cup {None, Torn} /\ packet \in [Dirs -> Packets]
    /\ output \in [Dirs -> Outputs] /\ record \in Records \cup {None, Torn}
    /\ acquirer \in [Acquirers -> AcquirerTypes] /\ tool \in [Tools -> ToolTypes]
    /\ begun \subseteq Dirs /\ admitted \subseteq Inputs /\ emitted \in [Dirs -> Inputs \cup {None}]
BY DEF TypeOK, AcquirerTypes, ToolTypes

LEMMA DerivedTyped ==
  ASSUME NEW i \in Inputs, NEW a \in Artifacts PROVE Derived(a, i) \in Contents
BY DEF Derived, Contents, Inputs

\* The record of a tool is all of `tool` that a step of the tool changes.
LEMMA ToolFrame ==
  ASSUME TypeInv, NEW t \in Tools, NEW x \in ToolTypes, tool' = [tool EXCEPT ![t] = x],
         Usable(t, x), UNCHANGED <<selection, packet, acquirer>>,
         output' \in [Dirs -> Outputs], record' \in Records \cup {None, Torn},
         begun' \subseteq Dirs, admitted' \subseteq Inputs,
         emitted' \in [Dirs -> Inputs \cup {None}]
  PROVE  TypeInv'
<1>1. tool' \in [Tools -> ToolTypes] /\ tool'[t] = x
  BY TypeSplit DEF TypeInv
<1>2. TypeOK'
  BY <1>1, TypeSplit DEF TypeInv, TypeOK, AcquirerTypes, ToolTypes
<1>3. ASSUME NEW u \in Tools PROVE ToolReady(u)'
  <2>1. CASE u = t
    BY <2>1, <1>1 DEF ToolReady, Usable
  <2>2. CASE u # t
    <3>1. tool'[u] = tool[u]
      BY <2>2, TypeSplit DEF TypeInv
    <3>2. ToolReady(u)
      BY DEF TypeInv, Ready
    <3> QED
      BY <3>1, <3>2 DEF ToolReady, Usable
  <2> QED
    BY <2>1, <2>2
<1>4. \A a \in Acquirers : AcquirerReady(a)'
  BY DEF TypeInv, Ready, AcquirerReady
<1> QED
  BY <1>2, <1>3, <1>4 DEF TypeInv, Ready

LEMMA AcquirerFrame ==
  ASSUME TypeInv, NEW a \in Acquirers, NEW x \in AcquirerTypes,
         acquirer' = [acquirer EXCEPT ![a] = x], AcquirerReady(a)',
         UNCHANGED <<selection, output, record, tool, history>>, packet' \in [Dirs -> Packets]
  PROVE  TypeInv'
<1>1. acquirer' \in [Acquirers -> AcquirerTypes]
  BY TypeSplit DEF TypeInv
<1>2. TypeOK'
  BY <1>1, TypeSplit DEF TypeInv, TypeOK, AcquirerTypes, ToolTypes, history
<1>3. ASSUME NEW b \in Acquirers PROVE AcquirerReady(b)'
  <2>1. CASE b = a
    BY <2>1
  <2>2. CASE b # a
    <3>1. acquirer'[b] = acquirer[b]
      BY <2>2, TypeSplit DEF TypeInv
    <3>2. AcquirerReady(b)
      BY DEF TypeInv, Ready
    <3> QED
      BY <3>1, <3>2 DEF AcquirerReady
  <2> QED
    BY <2>1, <2>2
<1>4. \A t \in Tools : ToolReady(t)'
  BY DEF TypeInv, Ready, ToolReady, Usable
<1> QED
  BY <1>2, <1>3, <1>4 DEF TypeInv, Ready

-----------------------------------------------------------------------------
(* Types *)

LEMMA TypeInit == Init => TypeInv
<1> SUFFICES ASSUME Init PROVE TypeInv
  OBVIOUS
<1>1. packet \in [Dirs -> Packets]
  BY DEF Init, Packets, FileStates
<1>2. output \in [Dirs -> Outputs]
  <2>1. NothingRead \in [Artifacts -> Contents \cup {None, Torn}]
    BY DEF NothingRead
  <2> QED
    BY <2>1 DEF Init, Outputs
<1>3. TypeOK
  BY <1>1, <1>2, IdleShapes, TypeSplit DEF Init
<1> QED
  BY <1>3, IdleShapes DEF Init, TypeInv, Ready, AcquirerReady, ToolReady, Usable, Loaded, Sealed

LEMMA AcquirerTyped ==
  ASSUME TypeInv, NEW a \in Acquirers, AcquirerNext(a) PROVE TypeInv'
<1>1. acquirer \in [Acquirers -> AcquirerTypes] /\ packet \in [Dirs -> Packets]
  BY TypeSplit DEF TypeInv
<1>2. AcquirerReady(a)
  BY DEF TypeInv, Ready
<1>3. UNCHANGED <<selection, output, record, tool, history>>
  BY DEF AcquirerNext, Acquire, RequireEmptyDirectory, AcquireRow, WriteMachineInput,
         KillAcquirer, OnlyAcquirer
<1>4. /\ \A p \in Paths, f \in FileStates, d \in Dirs :
            [packet EXCEPT ![d].files[p] = f] \in [Dirs -> Packets]
      /\ \A i \in Inputs \cup {None, Torn}, d \in Dirs :
            [packet EXCEPT ![d].input = i] \in [Dirs -> Packets]
  BY <1>1 DEF Packets
<1>5. /\ "exact" \in FileStates /\ "other" \in FileStates
  BY DEF FileStates
<1>6. ASSUME acquirer[a].pc = "rows", acquirer[a].row \in DOMAIN acquirer[a].selection
      PROVE  acquirer[a].selection[acquirer[a].row] \in Paths /\ acquirer[a].dir \in Dirs
  BY <1>2, <1>6, SelectionRows DEF AcquirerReady
<1>7. CASE AcquirerEnds(a) /\ packet' \in [Dirs -> Packets]
  <2>1. acquirer'[a] = IdleAcquirer
    BY <1>1, <1>7 DEF AcquirerEnds
  <2>2. AcquirerReady(a)'
    BY <2>1, IdleShapes DEF AcquirerReady
  <2> QED
    BY <2>2, <1>3, <1>7, IdleShapes, AcquirerFrame DEF AcquirerEnds
<1>8. CASE Acquire(a)
  <2>1. PICK d \in Dirs, r \in RunIds :
          acquirer' = [acquirer EXCEPT
            ![a] = [pc |-> "empty", dir |-> d, run |-> r, selection |-> selection, row |-> 1]]
    BY <1>8 DEF Acquire
  <2> DEFINE x == [pc |-> "empty", dir |-> d, run |-> r, selection |-> selection, row |-> 1]
  <2>2. selection \in Selections /\ selection \in Seq(Paths)
    BY <1>8, SelectionRows DEF Acquire, VerifiedSelection
  <2>3. x \in AcquirerTypes
    BY <2>2 DEF AcquirerTypes, AcquirerPcs
  <2>4. acquirer'[a] = x
    BY <2>1, <1>1
  <2>5. AcquirerReady(a)'
    BY <2>2, <2>4 DEF AcquirerReady
  <2>6. packet' \in [Dirs -> Packets]
    BY <1>1, <1>8 DEF Acquire
  <2> QED
    BY <2>1, <2>3, <2>5, <2>6, <1>3, AcquirerFrame
<1>9. CASE /\ packet' \in [Dirs -> Packets]
           /\ acquirer[a].pc # "idle"
           /\ \/ AcquirerGoes(a, "rows")
              \/ acquirer' = [acquirer EXCEPT ![a].row = @ + 1]
  <2> DEFINE x == acquirer'[a]
  <2>0. acquirer[a] \in AcquirerTypes
    BY <1>1
  <2>9. /\ acquirer' = [acquirer EXCEPT ![a] = x]
        /\ \/ x = [acquirer[a] EXCEPT !.pc = "rows"]
           \/ x = [acquirer[a] EXCEPT !.row = @ + 1]
    BY <1>1, <1>9 DEF AcquirerGoes
  <2>1. /\ x \in AcquirerTypes /\ acquirer' = [acquirer EXCEPT ![a] = x]
        /\ x.dir = acquirer[a].dir /\ x.run = acquirer[a].run
        /\ x.selection = acquirer[a].selection
    BY <2>0, <2>9 DEF AcquirerTypes, AcquirerPcs
  <2>2. AcquirerReady(a)'
    BY <2>1, <1>2, <1>9 DEF AcquirerReady
  <2> QED
    BY <2>1, <2>2, <1>3, <1>9, AcquirerFrame
<1>10. CASE RequireEmptyDirectory(a)
  BY <1>10, <1>1, <1>7, <1>9 DEF RequireEmptyDirectory, AcquirerAt
<1>11. CASE AcquireRow(a)
  BY <1>11, <1>1, <1>4, <1>5, <1>6, <1>7, <1>9 DEF AcquireRow, AcquirerAt
<1>12. CASE WriteMachineInput(a)
  <2>1. [run |-> acquirer[a].run, selection |-> acquirer[a].selection] \in Inputs
    BY <1>12, <1>2 DEF WriteMachineInput, AcquirerAt, AcquirerReady, Inputs
  <2>2. acquirer[a].dir \in Dirs
    BY <1>12, <1>2 DEF WriteMachineInput, AcquirerAt, AcquirerReady
  <2>3. packet' \in [Dirs -> Packets]
    BY <1>12, <2>1, <2>2, <1>4 DEF WriteMachineInput
  <2> QED
    BY <2>3, <1>7, <1>12 DEF WriteMachineInput
<1>13. CASE KillAcquirer(a)
  <2>1. acquirer[a].dir \in Dirs
    BY <1>13, <1>2 DEF KillAcquirer, AcquirerAt, AcquirerReady
  <2>2. packet' \in [Dirs -> Packets]
    BY <1>13, <2>1, <1>1, <1>4, <1>5, <1>6 DEF KillAcquirer
  <2> QED
    BY <2>2, <1>7, <1>13 DEF KillAcquirer
<1> QED
  BY <1>8, <1>10, <1>11, <1>12, <1>13 DEF AcquirerNext

\* A step of a tool moves to a typed record and leaves the rest typed.
LEMMA ToolTyped == ASSUME TypeInv, NEW t \in Tools, ToolNext(t) PROVE TypeInv'
<1>1. /\ tool \in [Tools -> ToolTypes] /\ output \in [Dirs -> Outputs]
      /\ record \in Records \cup {None, Torn} /\ packet \in [Dirs -> Packets]
      /\ begun \subseteq Dirs /\ admitted \subseteq Inputs
      /\ emitted \in [Dirs -> Inputs \cup {None}]
  BY TypeSplit DEF TypeInv
<1>2. Usable(t, tool[t]) /\ tool[t] \in ToolTypes
  BY <1>1 DEF TypeInv, Ready, ToolReady
<1>3. tool[t].row \in Nat /\ (tool[t].pc # "idle" => tool[t].dir \in Dirs /\ tool[t].out \in Dirs)
  BY <1>2 DEF ToolTypes, Usable
<1>4. UNCHANGED <<selection, packet, acquirer>>
  BY DEF ToolNext, RunnerNext, RecorderNext, StartRun, LoadInput, LoadRow, CloseLoad,
         WriteArtifact, WriteSeal, RequirePresent, ReadSeal, HashArtifact, CompareHashes,
         ReadManifest, Report, KillRun, StartRecord, CopyArtifact, WriteRecord, KillRecord,
         OnlyReads, OnlyTool
<1>h. UNCHANGED history => /\ begun' \subseteq Dirs /\ admitted' \subseteq Inputs
                           /\ emitted' \in [Dirs -> Inputs \cup {None}]
  BY <1>1 DEF history
<1>o. OnlyReads => output' \in [Dirs -> Outputs] /\ record' \in Records \cup {None, Torn}
  BY <1>1 DEF OnlyReads
<1>n. 1 \in 0..2 /\ 2 \in 0..2 /\ 1 \in Nat /\ tool[t].row + 1 \in Nat
  BY <1>3
\* The row, and with it what is read next, moves.
<1>r. /\ [tool[t] EXCEPT !.row = @ + 1] \in ToolTypes /\ Usable(t, [tool[t] EXCEPT !.row = @ + 1])
      /\ [tool EXCEPT ![t].row = @ + 1]
            = [tool EXCEPT ![t] = [tool[t] EXCEPT !.row = @ + 1]]
  <2> DEFINE k == tool[t].row + 1
             x == [tool[t] EXCEPT !.row = k]
  <2>1. k \in Nat
    BY <1>n
  <2>2. [tool EXCEPT ![t].row = @ + 1] = [tool EXCEPT ![t] = x]
    BY <1>1
  <2> HIDE DEF k
  <2>3. x \in ToolTypes
    BY <2>1, <1>2 DEF ToolTypes
  <2>4. Usable(t, x)
    BY <1>2 DEF ToolTypes, Usable
  <2> QED
    BY <2>2, <2>3, <2>4 DEF k
<1>5. ASSUME ToolEnds(t), UNCHANGED history, output' \in [Dirs -> Outputs],
             record' \in Records \cup {None, Torn}
      PROVE  TypeInv'
  <2>1. Usable(t, IdleTool)
    BY IdleShapes DEF Usable, Loaded, Sealed
  <2> QED
    BY <2>1, <1>4, <1>5, <1>h, IdleShapes, ToolFrame DEF ToolEnds
<1>6. ASSUME ToolFails(t), OnlyReads PROVE TypeInv'
  BY <1>5, <1>6, <1>o DEF ToolFails
<1>7. ASSUME NEW x \in ToolTypes, tool' = [tool EXCEPT ![t] = x], Usable(t, x),
             UNCHANGED history, OnlyReads
      PROVE  TypeInv'
  BY <1>4, <1>7, <1>h, <1>o, ToolFrame
<1>8. CASE t \in Runners /\ StartRun(t)
  <2>1. PICK d \in Dirs : \E o \in Directories(d) :
          tool' = [tool EXCEPT ![t] = [IdleTool EXCEPT !.pc = "input", !.dir = d, !.out = o]]
    BY <1>8 DEF StartRun
  <2>2. PICK o \in Directories(d) :
          tool' = [tool EXCEPT ![t] = [IdleTool EXCEPT !.pc = "input", !.dir = d, !.out = o]]
    BY <2>1
  <2> DEFINE x == [IdleTool EXCEPT !.pc = "input", !.dir = d, !.out = o]
  <2>3. o \in Dirs /\ (OwnOutput => o = d)
    BY DEF Directories
  <2>4. x \in ToolTypes /\ x.pc = "input" /\ x.dir = d /\ x.out = o
    BY <2>3, IdleShapes DEF ToolTypes, ToolPcs
  <2>6. t \notin Recorders
    BY <1>8, ExamConstants
  <2>7. Usable(t, x)
    BY <2>3, <2>4, <2>6 DEF Usable, Loaded, Sealed
  <2> QED
    BY <2>2, <2>4, <2>7, <1>7, <1>8 DEF StartRun
<1>9. CASE t \in Recorders /\ StartRecord(t)
  <2>1. PICK d \in Dirs : \E o \in Directories(d) :
          tool' = [tool EXCEPT ![t] = [IdleTool EXCEPT !.pc = "input", !.dir = d, !.out = o,
                                                       !.selection = selection]]
    BY <1>9 DEF StartRecord
  <2>2. PICK o \in Directories(d) :
          tool' = [tool EXCEPT ![t] = [IdleTool EXCEPT !.pc = "input", !.dir = d, !.out = o,
                                                       !.selection = selection]]
    BY <2>1
  <2> DEFINE x == [IdleTool EXCEPT !.pc = "input", !.dir = d, !.out = o,
                                   !.selection = selection]
  <2>3. o \in Dirs /\ (OwnOutput => o = d) /\ selection \in Selections
    BY <1>9 DEF Directories, StartRecord, VerifiedSelection
  <2>4. x \in ToolTypes /\ x.pc = "input" /\ x.dir = d /\ x.out = o /\ x.selection = selection
    BY <2>3, IdleShapes DEF ToolTypes, ToolPcs
  <2>7. Usable(t, x)
    BY <2>3, <2>4 DEF Usable, Loaded, Sealed
  <2> QED
    BY <2>2, <2>4, <2>7, <1>7, <1>9 DEF StartRecord
<1>10. CASE LoadInput(t)
  <2> DEFINE i == packet[tool[t].dir].input
             x == [tool[t] EXCEPT !.pc = "rows", !.input = i, !.row = 1]
  <2>1. CASE i \in Inputs
    <3>1. tool' = [tool EXCEPT ![t] = x] /\ UNCHANGED history /\ OnlyReads /\ tool[t].pc = "input"
      BY <1>10, <2>1, <1>1 DEF LoadInput, ToolAt
    <3>2. x \in ToolTypes
      BY <2>1, <1>2 DEF ToolTypes, ToolPcs
    <3>3. Usable(t, x)
      BY <2>1, <3>1, <1>2 DEF ToolTypes, Usable, Loaded, Sealed
    <3> QED
      BY <3>1, <3>2, <3>3, <1>7
  <2>2. CASE i \notin Inputs
    BY <1>10, <2>2, <1>6 DEF LoadInput
  <2> QED
    BY <2>1, <2>2
<1>11. CASE LoadRow(t)
  <2>1. CASE tool' = [tool EXCEPT ![t].row = @ + 1] /\ UNCHANGED history
    <3>1. tool' = [tool EXCEPT ![t] = [tool[t] EXCEPT !.row = @ + 1]]
      BY <2>1, <1>r
    <3> QED
      BY <3>1, <2>1, <1>r, <1>7, <1>11 DEF LoadRow
  <2>2. CASE ToolFails(t)
    BY <2>2, <1>6, <1>11 DEF LoadRow
  <2> QED
    BY <2>1, <2>2, <1>11 DEF LoadRow
<1>12. CASE CloseLoad(t)
  <2>1. tool[t].pc = "rows" /\ tool[t].input \in Inputs /\ tool[t].input.run \in RunIds
    BY <1>12, <1>2 DEF CloseLoad, ToolAt, Usable, Loaded, Inputs
  <2>2. CASE ToolFails(t)
    BY <2>2, <1>12, <1>6 DEF CloseLoad
  <2>3. CASE t \in Recorders /\ ToolGoes(t, "present") /\ UNCHANGED history
    <3> DEFINE x == [tool[t] EXCEPT !.pc = "present"]
    <3>1. x \in ToolTypes
      BY <1>2 DEF ToolTypes, ToolPcs
    <3>2. Usable(t, x)
      BY <2>1, <1>2 DEF ToolTypes, Usable, Loaded, Sealed
    <3>3. tool' = [tool EXCEPT ![t] = x]
      BY <2>3, <1>1 DEF ToolGoes
    <3> QED
      BY <3>1, <3>2, <3>3, <2>3, <1>7, <1>12 DEF CloseLoad
  <2>4. CASE /\ t \notin Recorders
             /\ tool' = [tool EXCEPT ![t] =
                           [@ EXCEPT !.pc = "input", !.loads = 1, !.run = tool[t].input.run]]
             /\ begun' = begun \cup {tool[t].dir} /\ UNCHANGED <<admitted, emitted>>
    <3> DEFINE x == [tool[t] EXCEPT !.pc = "input", !.loads = 1, !.run = tool[t].input.run]
    <3>1. x \in ToolTypes
      BY <2>1, <1>2, <1>n DEF ToolTypes, ToolPcs
    <3>2. Usable(t, x)
      BY <2>1, <2>4, <1>2 DEF ToolTypes, Usable, Loaded, Sealed
    <3>3. tool' = [tool EXCEPT ![t] = x]
      BY <2>4, <1>1
    <3>4. begun' \subseteq Dirs
      BY <2>1, <2>4, <1>1, <1>3
    <3> QED
      BY <3>1, <3>2, <3>3, <3>4, <2>4, <1>1, <1>4, <1>12, <1>o, ToolFrame DEF CloseLoad
  <2>5. CASE /\ t \notin Recorders
             /\ tool' = [tool EXCEPT ![t] = [@ EXCEPT !.pc = "write", !.loads = 2, !.row = 1]]
             /\ admitted' = admitted \cup {tool[t].input} /\ UNCHANGED <<begun, emitted>>
    <3> DEFINE x == [tool[t] EXCEPT !.pc = "write", !.loads = 2, !.row = 1]
    <3>1. x \in ToolTypes
      BY <1>2, <1>n DEF ToolTypes, ToolPcs
    <3>2. t \in Runners
      BY <2>5 DEF Tools
    <3>3. Usable(t, x)
      BY <3>2, <2>1, <2>5, <1>2 DEF ToolTypes, Usable, Loaded, Sealed
    <3>4. tool' = [tool EXCEPT ![t] = x]
      BY <2>5, <1>1
    <3> QED
      BY <3>1, <3>3, <3>4, <2>1, <2>5, <1>1, <1>4, <1>12, <1>o, ToolFrame DEF CloseLoad
  <2> QED
    BY <2>2, <2>3, <2>4, <2>5, <1>12 DEF CloseLoad
\* Writing one file of an output directory keeps the directories typed.
<1>13. ASSUME tool[t].pc = "write"
       PROVE  /\ \A a \in Artifacts, c \in Contents \cup {None, Torn} :
                   [output EXCEPT ![tool[t].out].artifact[a] = c] \in [Dirs -> Outputs]
              /\ \A i \in Inputs \cup {None, Torn} :
                   [output EXCEPT ![tool[t].out].seal = i] \in [Dirs -> Outputs]
              /\ tool[t].input \in Inputs
  BY <1>13, <1>1, <1>2, <1>3 DEF Outputs, Usable, Loaded
<1>14. CASE WriteArtifact(t)
  <2>2. Order[tool[t].row] \in Artifacts /\ tool[t].pc = "write"
    BY <1>14, ElementsOfOrder DEF WriteArtifact, ToolAt
  <2>3. Derived(Order[tool[t].row], tool[t].input) \in Contents
    BY <2>2, <1>13, DerivedTyped
  <2>4. output' \in [Dirs -> Outputs]
    BY <2>2, <2>3, <1>13, <1>14 DEF WriteArtifact
  <2>5. tool' = [tool EXCEPT ![t].row = @ + 1]
    BY <1>14 DEF WriteArtifact
  <2>6. tool' = [tool EXCEPT ![t] = [tool[t] EXCEPT !.row = @ + 1]]
    BY <2>5, <1>r
  <2>7. UNCHANGED history /\ UNCHANGED record
    BY <1>14 DEF WriteArtifact
  <2> QED
    BY <2>4, <2>6, <2>7, <1>1, <1>r, <1>4, <1>h, ToolFrame
<1>15. CASE WriteSeal(t)
  <2> DEFINE x == [tool[t] EXCEPT !.pc = "present"]
  <2>1. tool[t].pc = "write" /\ tool[t].input \in Inputs
    BY <1>15, <1>13 DEF WriteSeal, ToolAt
  <2>2. x \in ToolTypes
    BY <1>2 DEF ToolTypes, ToolPcs
  <2>3. Usable(t, x)
    BY <2>1, <1>2 DEF ToolTypes, Usable, Loaded, Sealed
  <2>4. output' \in [Dirs -> Outputs]
    BY <2>1, <1>13, <1>15 DEF WriteSeal
  <2>5. tool' = [tool EXCEPT ![t] = x] /\ UNCHANGED history /\ UNCHANGED record
    BY <1>1, <1>15 DEF WriteSeal, ToolGoes
  <2> QED
    BY <2>2, <2>3, <2>4, <2>5, <1>1, <1>4, <1>h, ToolFrame
<1>16. CASE RequirePresent(t)
  <2> DEFINE x == [tool[t] EXCEPT !.pc = "seal"]
  <2>1. CASE ToolGoes(t, "seal") /\ UNCHANGED history
    <3>1. x \in ToolTypes
      BY <1>2 DEF ToolTypes, ToolPcs
    <3>2. Usable(t, x)
      BY <1>2, <1>16 DEF RequirePresent, ToolAt, ToolTypes, Usable, Loaded, Sealed
    <3>3. tool' = [tool EXCEPT ![t] = x]
      BY <1>1, <2>1 DEF ToolGoes
    <3> QED
      BY <3>1, <3>2, <3>3, <2>1, <1>7, <1>16 DEF RequirePresent
  <2> QED
    BY <2>1, <1>6, <1>16 DEF RequirePresent
<1>17. CASE ReadSeal(t)
  <2> DEFINE s == output[tool[t].out].seal
             x == [tool[t] EXCEPT !.pc = "hash", !.seal = s, !.row = 1]
  <2>1. CASE s \in Inputs
    <3>1. x \in ToolTypes
      BY <2>1, <1>2 DEF ToolTypes, ToolPcs
    <3>2. Usable(t, x)
      BY <2>1, <1>2, <1>17 DEF ReadSeal, ToolAt, ToolTypes, Usable, Loaded, Sealed
    <3>3. tool' = [tool EXCEPT ![t] = x] /\ UNCHANGED history
      BY <1>1, <1>17, <2>1 DEF ReadSeal
    <3> QED
      BY <3>1, <3>2, <3>3, <1>7, <1>17 DEF ReadSeal
  <2>2. CASE s \notin Inputs
    BY <2>2, <1>6, <1>17 DEF ReadSeal
  <2> QED
    BY <2>1, <2>2
<1>18. ASSUME tool[t].pc # "idle", NEW a \in Artifacts
       PROVE  output[tool[t].out].artifact[a] \in Contents \cup {None, Torn}
  BY <1>18, <1>1, <1>3 DEF Outputs
<1>19. CASE HashArtifact(t)
  <2> DEFINE a == Order[tool[t].row]
             c == output[tool[t].out].artifact[a]
             f == [tool[t].read EXCEPT ![a] = c]
             k == tool[t].row + 1
             x == [tool[t] EXCEPT !.read = f, !.row = k]
  <2>1. a \in Artifacts /\ c \in Contents \cup {None, Torn}
    BY <1>18, <1>19, ElementsOfOrder DEF HashArtifact, ToolAt
  <2>2. f \in [Artifacts -> Contents \cup {None, Torn}]
    BY <2>1, <1>2 DEF ToolTypes
  <2>3. [tool EXCEPT ![t] = [@ EXCEPT !.read[a] = c, !.row = tool[t].row + 1]] = [tool EXCEPT ![t] = x]
    <3>1. [tool[t] EXCEPT !.read[a] = c, !.row = tool[t].row + 1] = x
      BY <1>2 DEF ToolTypes
    <3> QED
      BY <3>1, <1>1
  <2>4. tool' = [tool EXCEPT ![t] = x] /\ UNCHANGED history /\ OnlyReads
    BY <2>3, <1>19 DEF HashArtifact
  <2>5. k \in Nat
    BY <1>n
  <2> HIDE DEF a, c, f, k
  <2>6. x \in ToolTypes
    BY <2>2, <2>5, <1>2 DEF ToolTypes
  <2>7. Usable(t, x)
    BY <1>2 DEF ToolTypes, Usable
  <2> QED
    BY <2>4, <2>6, <2>7, <1>7
<1>20. CASE CompareHashes(t)
  <2> DEFINE x == [tool[t] EXCEPT !.pc = "manifest"]
  <2>1. CASE ToolGoes(t, "manifest") /\ UNCHANGED history
    <3>1. x \in ToolTypes
      BY <1>2 DEF ToolTypes, ToolPcs
    <3>2. Usable(t, x)
      BY <1>2, <1>20 DEF CompareHashes, ToolAt, ToolTypes, Usable, Loaded, Sealed
    <3>3. tool' = [tool EXCEPT ![t] = x]
      BY <1>1, <2>1 DEF ToolGoes
    <3> QED
      BY <3>1, <3>2, <3>3, <2>1, <1>7, <1>20 DEF CompareHashes
  <2> QED
    BY <2>1, <1>6, <1>20 DEF CompareHashes
<1>21. CASE ReadManifest(t)
  <2> DEFINE x == [tool[t] EXCEPT !.pc = IF t \in Runners THEN "report" ELSE "copy", !.row = 1]
  <2>1. CASE /\ tool' = [tool EXCEPT ![t] =
                     [@ EXCEPT !.pc = IF t \in Runners THEN "report" ELSE "copy", !.row = 1]]
             /\ emitted' = [emitted EXCEPT
                     ![tool[t].out] = IF @ = None THEN tool[t].seal ELSE @]
             /\ UNCHANGED <<begun, admitted>>
    <3>1. tool[t].pc = "manifest" /\ tool[t].seal \in Inputs
      BY <1>2, <1>21 DEF ReadManifest, ToolAt, Usable, Sealed
    <3>2. x \in ToolTypes
      <4>1. (IF t \in Runners THEN "report" ELSE "copy") \in ToolPcs
        BY DEF ToolPcs
      <4> QED
        BY <4>1, <1>2, <1>n DEF ToolTypes
    <3>3. Usable(t, x)
      BY <3>1, <1>2 DEF ToolTypes, Usable, Loaded, Sealed, Tools
    <3>4. tool' = [tool EXCEPT ![t] = x]
      BY <1>1, <2>1
    <3>5. emitted' \in [Dirs -> Inputs \cup {None}]
      BY <3>1, <2>1, <1>1, <1>3
    <3> QED
      BY <3>2, <3>3, <3>4, <3>5, <2>1, <1>1, <1>4, <1>o, <1>21, ToolFrame DEF ReadManifest
  <2> QED
    BY <2>1, <1>6, <1>21 DEF ReadManifest
<1>22. CASE Report(t)
  BY <1>22, <1>5, <1>o DEF Report
<1>23. CASE KillRun(t)
  <2>1. CASE /\ tool[t].pc = "write" /\ tool[t].row \in DOMAIN Order
             /\ output' = [output EXCEPT ![tool[t].out].artifact[Order[tool[t].row]] = Torn]
    BY <2>1, <1>5, <1>13, <1>1, <1>23, ElementsOfOrder DEF KillRun
  <2>2. CASE tool[t].pc = "write" /\ output' = [output EXCEPT ![tool[t].out].seal = Torn]
    BY <2>2, <1>5, <1>13, <1>1, <1>23 DEF KillRun
  <2>3. CASE UNCHANGED output
    BY <2>3, <1>5, <1>1, <1>23 DEF KillRun
  <2> QED
    BY <2>1, <2>2, <2>3, <1>23 DEF KillRun
<1>24. CASE CopyArtifact(t)
  <2> DEFINE a == Recorded[tool[t].row]
             c == output[tool[t].out].artifact[a]
             f == [tool[t].copied EXCEPT ![a] = c]
             k == tool[t].row + 1
             x == [tool[t] EXCEPT !.copied = f, !.row = k]
  <2>1. a \in Elements(Recorded) /\ c \in Contents \cup {None, Torn}
    BY <1>18, <1>24, ElementsOfOrder DEF CopyArtifact, ToolAt
  <2>2. f \in [Elements(Recorded) -> Contents \cup {None, Torn}]
    BY <2>1, <1>2 DEF ToolTypes
  <2>3. [tool EXCEPT ![t] = [@ EXCEPT !.copied[a] = c, !.row = tool[t].row + 1]] = [tool EXCEPT ![t] = x]
    <3>1. [tool[t] EXCEPT !.copied[a] = c, !.row = tool[t].row + 1] = x
      BY <1>2 DEF ToolTypes
    <3> QED
      BY <3>1, <1>1
  <2>4. tool' = [tool EXCEPT ![t] = x] /\ UNCHANGED history /\ OnlyReads
    BY <2>3, <1>24 DEF CopyArtifact
  <2>5. k \in Nat
    BY <1>n
  <2> HIDE DEF a, c, f, k
  <2>6. x \in ToolTypes
    BY <2>2, <2>5, <1>2 DEF ToolTypes
  <2>7. Usable(t, x)
    BY <1>2 DEF ToolTypes, Usable
  <2> QED
    BY <2>4, <2>6, <2>7, <1>7
<1>25. CASE WriteRecord(t)
  <2>1. /\ tool[t].selection \in Selections /\ tool[t].input \in Inputs /\ tool[t].seal \in Inputs
    BY <1>2, <1>25 DEF WriteRecord, ToolAt, Usable, Loaded, Sealed
  <2>2. record' \in Records
    BY <2>1, <1>2, <1>25 DEF WriteRecord, ToolTypes, Records
  <2> QED
    BY <2>2, <1>1, <1>5, <1>25 DEF WriteRecord
<1>26. CASE KillRecord(t)
  BY <1>1, <1>5, <1>26 DEF KillRecord
<1> QED
  BY <1>8, <1>9, <1>10, <1>11, <1>12, <1>14, <1>15, <1>16, <1>17, <1>19, <1>20, <1>21, <1>22,
     <1>23, <1>24, <1>25, <1>26 DEF ToolNext, RunnerNext, RecorderNext

LEMMA SurroundingsTyped ==
  ASSUME TypeInv, \/ Select \/ EditSelection
                  \/ \E d \in Dirs : ClearPacket(d) \/ EditPacket(d)
  PROVE  TypeInv'
<1>1. packet \in [Dirs -> Packets]
  BY TypeSplit DEF TypeInv
<1>2. UNCHANGED <<output, record, acquirer, tool, history>>
  BY DEF Select, EditSelection, ClearPacket, EditPacket
<1>3. selection' \in Selections \cup {None, Torn}
  BY ExamConstants, TypeSplit DEF TypeInv, Select, EditSelection, ClearPacket, EditPacket
<1>4. packet' \in [Dirs -> Packets]
  <2>1. \A d \in Dirs : packet[d] \in Packets
    BY <1>1
  <2>2. CASE Select \/ EditSelection
    BY <2>2, <1>1 DEF Select, EditSelection
  <2>3. ASSUME NEW d \in Dirs, ClearPacket(d) PROVE packet' \in [Dirs -> Packets]
    <3>1. [input |-> None, files |-> [p \in Paths |-> None]] \in Packets
      BY DEF Packets, FileStates
    <3> QED
      BY <3>1, <2>3, <1>1 DEF ClearPacket
  <2>4. ASSUME NEW d \in Dirs, EditPacket(d) PROVE packet' \in [Dirs -> Packets]
    <3>1. CASE \E p \in Paths, f \in FileStates : packet' = [packet EXCEPT ![d].files[p] = f]
      BY <3>1, <1>1 DEF Packets
    <3>2. CASE \E i \in Inputs \cup {Torn} : packet' = [packet EXCEPT ![d].input = i]
      BY <3>2, <1>1 DEF Packets
    <3> QED
      BY <3>1, <3>2, <2>4 DEF EditPacket
  <2> QED
    BY <2>2, <2>3, <2>4
<1>5. TypeOK'
  BY <1>2, <1>3, <1>4 DEF TypeInv, TypeOK, history
<1>6. Ready'
  BY <1>2 DEF TypeInv, Ready, AcquirerReady, ToolReady, Usable
<1> QED
  BY <1>5, <1>6 DEF TypeInv

LEMMA TypeStep == TypeInv /\ [Next]_vars => TypeInv'
<1> SUFFICES ASSUME TypeInv, [Next]_vars PROVE TypeInv'
  OBVIOUS
<1>1. CASE UNCHANGED vars
  BY <1>1 DEF TypeInv, TypeOK, Ready, AcquirerReady, ToolReady, Usable, vars, files, history
<1>2. CASE Next
  BY <1>2, AcquirerTyped, ToolTyped, SurroundingsTyped DEF Next, ToolNext, Tools
<1> QED
  BY <1>1, <1>2

\* Every reachable state is well typed: whatever a process holds, an input, a seal or a
\* selection, was read from a file that had that form.
THEOREM ExamTypeCorrect == Spec => []TypeOK
<1>1. TypeInv => TypeOK
  BY DEF TypeInv
<1> QED
  BY <1>1, TypeInit, TypeStep, PTL DEF Spec

-----------------------------------------------------------------------------
(* What was verified is one run *)

Verified == {"manifest", "report", "copy"}
\* What a process writes, and what it read of a seal, comes from an admitted input.
Bound(x, ins) ==
  /\ x.pc = "write" => x.input \in ins
  /\ x.pc \in Sealed => x.seal \in ins
  /\ x.pc \in Verified => x.read = DerivedSet(x.seal)
SealsAdmitted == \A d \in Dirs : output[d].seal \in Inputs => output[d].seal \in admitted
RecordOneRun == record \in Records => OneRun(record.seal, record.sealed)
SealInv == SealsAdmitted /\ RecordOneRun /\ \A t \in Tools : Bound(tool[t], admitted)

LEMMA SealInit == Init => SealInv
<1> SUFFICES ASSUME Init PROVE SealInv
  OBVIOUS
<1>1. SealsAdmitted /\ RecordOneRun
  BY ExamConstants DEF Init, SealsAdmitted, RecordOneRun
<1>2. \A t \in Tools : tool[t].pc = "idle"
  BY IdleShapes DEF Init
<1> QED
  BY <1>1, <1>2 DEF SealInv, Bound, Sealed, Verified

LEMMA SealFrame ==
  ASSUME TypeInv, SealInv, NEW t \in Tools, NEW x, tool' = [tool EXCEPT ![t] = x],
         admitted \subseteq admitted', Bound(x, admitted'), SealsAdmitted', RecordOneRun'
  PROVE  SealInv'
<1>1. ASSUME NEW u \in Tools PROVE Bound(tool'[u], admitted')
  <2>1. tool'[t] = x /\ (u # t => tool'[u] = tool[u])
    BY TypeSplit DEF TypeInv
  <2>2. Bound(tool[u], admitted)
    BY DEF SealInv
  <2> QED
    BY <2>1, <2>2 DEF Bound
<1> QED
  BY <1>1 DEF SealInv, Bound, DerivedSet, Derived

LEMMA SealTool == ASSUME TypeInv, SealInv, NEW t \in Tools, ToolNext(t) PROVE SealInv'
<1>1. tool \in [Tools -> ToolTypes] /\ output \in [Dirs -> Outputs] /\ admitted \subseteq Inputs
  BY TypeSplit DEF TypeInv
<1>2. Usable(t, tool[t]) /\ tool[t] \in ToolTypes /\ Bound(tool[t], admitted)
  BY <1>1 DEF TypeInv, Ready, ToolReady, SealInv
<1>3. OnlyReads /\ admitted \subseteq admitted' => SealsAdmitted' /\ RecordOneRun'
  BY DEF OnlyReads, SealInv, SealsAdmitted, RecordOneRun, OneRun, DerivedSet, Derived
<1>h. UNCHANGED history => admitted \subseteq admitted' /\ admitted' = admitted
  BY DEF history
<1>4. ASSUME ToolEnds(t), UNCHANGED history, SealsAdmitted', RecordOneRun' PROVE SealInv'
  <2>1. Bound(IdleTool, admitted')
    BY IdleShapes DEF Bound, Sealed, Verified
  <2> QED
    BY <2>1, <1>4, <1>h, SealFrame DEF ToolEnds
<1>5. ASSUME ToolFails(t), OnlyReads PROVE SealInv'
  BY <1>3, <1>4, <1>5, <1>h DEF ToolFails
<1>6. ASSUME NEW x, tool' = [tool EXCEPT ![t] = x], Bound(x, admitted'),
             UNCHANGED history, OnlyReads
      PROVE  SealInv'
  BY <1>3, <1>6, <1>h, SealFrame
\* Before the seal is read, nothing that a process holds is claimed to be verified.
<1>7. ASSUME OnlyReads, admitted \subseteq admitted',
             NEW x, tool' = [tool EXCEPT ![t] = x], x.pc \in {"input", "rows", "present", "seal"}
      PROVE  SealInv'
  <2>1. Bound(x, admitted')
    BY <1>7 DEF Bound, Sealed, Verified
  <2> QED
    BY <2>1, <1>3, <1>7, SealFrame
<1>8. CASE StartRun(t) \/ StartRecord(t)
  <2>1. PICK x : /\ tool' = [tool EXCEPT ![t] = x] /\ x.pc = "input"
    <3>1. \A d \in Dirs, o \in Dirs :
            /\ [IdleTool EXCEPT !.pc = "input", !.dir = d, !.out = o].pc = "input"
            /\ [IdleTool EXCEPT !.pc = "input", !.dir = d, !.out = o,
                                !.selection = selection].pc = "input"
      BY IdleShapes DEF ToolTypes
    <3>2. \A d \in Dirs : Directories(d) \subseteq Dirs
      BY DEF Directories
    <3>3. CASE StartRun(t)
      BY <3>1, <3>2, <3>3 DEF StartRun
    <3>4. CASE StartRecord(t)
      <4>1. PICK d \in Dirs : \E o \in Directories(d) :
              tool' = [tool EXCEPT ![t] = [IdleTool EXCEPT !.pc = "input", !.dir = d, !.out = o,
                                                           !.selection = selection]]
        BY <3>4 DEF StartRecord
      <4>2. PICK o \in Directories(d) :
              tool' = [tool EXCEPT ![t] = [IdleTool EXCEPT !.pc = "input", !.dir = d, !.out = o,
                                                           !.selection = selection]]
        BY <4>1
      <4> QED
        BY <4>2, <3>1, <3>2
    <3> QED
      BY <3>3, <3>4, <1>8
  <2>2. OnlyReads /\ UNCHANGED history
    BY <1>8 DEF StartRun, StartRecord
  <2> QED
    BY <2>1, <2>2, <1>7, <1>h
<1>9. CASE LoadInput(t)
  <2> DEFINE i == packet[tool[t].dir].input
             x == [tool[t] EXCEPT !.pc = "rows", !.input = i, !.row = 1]
  <2>1. CASE tool' = [tool EXCEPT ![t] = x] /\ UNCHANGED history
    <3>1. x.pc = "rows"
      BY <1>2 DEF ToolTypes
    <3> QED
      BY <3>1, <2>1, <1>7, <1>9, <1>h DEF LoadInput
  <2>2. CASE ToolFails(t)
    BY <2>2, <1>5, <1>9 DEF LoadInput
  <2> QED
    BY <2>1, <2>2, <1>1, <1>9 DEF LoadInput
<1>10. CASE LoadRow(t)
  <2>1. CASE tool' = [tool EXCEPT ![t].row = @ + 1] /\ UNCHANGED history
    <3> DEFINE x == tool'[t]
    <3>1. tool' = [tool EXCEPT ![t] = x] /\ x.pc = "rows"
      BY <2>1, <1>1, <1>2, <1>10 DEF LoadRow, ToolAt, ToolTypes
    <3> QED
      BY <3>1, <2>1, <1>7, <1>10, <1>h DEF LoadRow
  <2>2. CASE ToolFails(t)
    BY <2>2, <1>5, <1>10 DEF LoadRow
  <2> QED
    BY <2>1, <2>2, <1>10 DEF LoadRow
<1>11. CASE CloseLoad(t)
  <2>1. CASE ToolFails(t)
    BY <2>1, <1>5, <1>11 DEF CloseLoad
  <2>2. CASE ToolGoes(t, "present") /\ UNCHANGED history
    <3> DEFINE x == [tool[t] EXCEPT !.pc = "present"]
    <3>1. tool' = [tool EXCEPT ![t] = x] /\ x.pc = "present"
      BY <2>2, <1>1, <1>2 DEF ToolGoes, ToolTypes
    <3> QED
      BY <3>1, <2>2, <1>7, <1>11, <1>h DEF CloseLoad
  <2>3. CASE /\ tool' = [tool EXCEPT ![t] =
                           [@ EXCEPT !.pc = "input", !.loads = 1, !.run = tool[t].input.run]]
             /\ UNCHANGED <<admitted, emitted>>
    <3> DEFINE x == [tool[t] EXCEPT !.pc = "input", !.loads = 1, !.run = tool[t].input.run]
    <3>1. tool' = [tool EXCEPT ![t] = x] /\ x.pc = "input"
      BY <2>3, <1>1, <1>2 DEF ToolTypes
    <3> QED
      BY <3>1, <2>3, <1>7, <1>11 DEF CloseLoad
  <2>4. CASE /\ tool' = [tool EXCEPT ![t] = [@ EXCEPT !.pc = "write", !.loads = 2, !.row = 1]]
             /\ admitted' = admitted \cup {tool[t].input}
    <3> DEFINE x == [tool[t] EXCEPT !.pc = "write", !.loads = 2, !.row = 1]
    <3>1. tool' = [tool EXCEPT ![t] = x]
      BY <2>4, <1>1
    <3>2. x.pc = "write" /\ x.input = tool[t].input
      BY <1>2 DEF ToolTypes
    <3>3. Bound(x, admitted')
      BY <3>2, <2>4 DEF Bound, Sealed, Verified
    <3> QED
      BY <3>1, <3>3, <2>4, <1>3, <1>11, SealFrame DEF CloseLoad
  <2> QED
    BY <2>1, <2>2, <2>3, <2>4, <1>11 DEF CloseLoad
<1>12. CASE WriteArtifact(t)
  <2> DEFINE x == tool'[t]
  <2>1. tool' = [tool EXCEPT ![t] = x] /\ x.pc = "write" /\ x.input = tool[t].input
    BY <1>1, <1>2, <1>12 DEF WriteArtifact, ToolAt, ToolTypes
  <2>2. Bound(x, admitted')
    BY <2>1, <1>2, <1>h, <1>12 DEF WriteArtifact, ToolAt, Bound, Sealed, Verified
  <2>3. \A d \in Dirs : output'[d].seal = output[d].seal
    BY <1>1, <1>12 DEF WriteArtifact, Outputs
  <2>4. SealsAdmitted' /\ RecordOneRun'
    BY <2>3, <1>h, <1>12
       DEF WriteArtifact, SealInv, SealsAdmitted, RecordOneRun, OneRun, DerivedSet, Derived
  <2> QED
    BY <2>1, <2>2, <2>4, <1>h, <1>12, SealFrame DEF WriteArtifact
<1>13. CASE WriteSeal(t)
  <2> DEFINE x == [tool[t] EXCEPT !.pc = "present"]
  <2>1. tool' = [tool EXCEPT ![t] = x] /\ x.pc = "present"
    BY <1>1, <1>2, <1>13 DEF WriteSeal, ToolGoes, ToolTypes
  <2>2. Bound(x, admitted')
    BY <2>1 DEF Bound, Sealed, Verified
  <2>3. tool[t].input \in admitted
    BY <1>2, <1>13 DEF WriteSeal, ToolAt, Bound
  <2>4. \A d \in Dirs : output'[d].seal \in {output[d].seal, tool[t].input}
    BY <1>1, <1>13 DEF WriteSeal, Outputs
  <2>5. SealsAdmitted' /\ RecordOneRun'
    BY <2>3, <2>4, <1>h, <1>13
       DEF WriteSeal, SealInv, SealsAdmitted, RecordOneRun, OneRun, DerivedSet, Derived
  <2> QED
    BY <2>1, <2>2, <2>5, <1>h, <1>13, SealFrame DEF WriteSeal
<1>14. CASE RequirePresent(t)
  <2> DEFINE x == [tool[t] EXCEPT !.pc = "seal"]
  <2>1. CASE ToolGoes(t, "seal") /\ UNCHANGED history
    <3>1. tool' = [tool EXCEPT ![t] = x] /\ x.pc = "seal"
      BY <2>1, <1>1, <1>2 DEF ToolGoes, ToolTypes
    <3> QED
      BY <3>1, <2>1, <1>7, <1>14, <1>h DEF RequirePresent
  <2> QED
    BY <2>1, <1>5, <1>14 DEF RequirePresent
<1>15. CASE ReadSeal(t)
  <2> DEFINE s == output[tool[t].out].seal
             x == [tool[t] EXCEPT !.pc = "hash", !.seal = s, !.row = 1]
  <2>1. CASE s \in Inputs
    <3>1. s \in admitted
      BY <2>1, <1>2, <1>15 DEF ReadSeal, ToolAt, Usable, SealInv, SealsAdmitted
    <3>2. x.pc = "hash" /\ x.seal = s
      BY <1>2 DEF ToolTypes
    <3>3. tool' = [tool EXCEPT ![t] = x] /\ UNCHANGED history
      BY <1>1, <1>15, <2>1 DEF ReadSeal
    <3>4. Bound(x, admitted')
      BY <3>1, <3>2, <3>3, <1>h DEF Bound, Verified
    <3> QED
      BY <3>3, <3>4, <1>6, <1>15 DEF ReadSeal
  <2>2. CASE s \notin Inputs
    BY <2>2, <1>5, <1>15 DEF ReadSeal
  <2> QED
    BY <2>1, <2>2
<1>16. CASE HashArtifact(t)
  <2> DEFINE x == tool'[t]
  <2>1. tool' = [tool EXCEPT ![t] = x] /\ x.pc = "hash" /\ x.seal = tool[t].seal
    BY <1>1, <1>2, <1>16 DEF HashArtifact, ToolAt, ToolTypes
  <2>2. Bound(x, admitted')
    BY <2>1, <1>2, <1>h, <1>16 DEF HashArtifact, ToolAt, Bound, Sealed, Verified
  <2> QED
    BY <2>1, <2>2, <1>6, <1>16 DEF HashArtifact
<1>17. CASE CompareHashes(t)
  <2> DEFINE x == [tool[t] EXCEPT !.pc = "manifest"]
  <2>1. CASE ToolGoes(t, "manifest") /\ UNCHANGED history /\ tool[t].read = DerivedSet(tool[t].seal)
    <3>1. tool' = [tool EXCEPT ![t] = x]
      BY <2>1, <1>1 DEF ToolGoes
    <3>2. x.pc = "manifest" /\ x.seal = tool[t].seal /\ x.read = tool[t].read
      BY <1>2 DEF ToolTypes
    <3>3. Bound(x, admitted')
      BY <3>2, <2>1, <1>2, <1>h, <1>17
         DEF CompareHashes, ToolAt, Bound, Sealed, Verified
    <3> QED
      BY <3>1, <3>3, <2>1, <1>6, <1>17 DEF CompareHashes
  <2> QED
    BY <2>1, <1>5, <1>17 DEF CompareHashes
<1>18. CASE ReadManifest(t)
  <2> DEFINE q == IF t \in Runners THEN "report" ELSE "copy"
             x == [tool[t] EXCEPT !.pc = q, !.row = 1]
  <2>1. CASE /\ tool' = [tool EXCEPT ![t] = [@ EXCEPT !.pc = q, !.row = 1]]
             /\ UNCHANGED <<begun, admitted>>
    <3>1. tool' = [tool EXCEPT ![t] = x]
      BY <2>1, <1>1
    <3>2. x.pc = q /\ x.seal = tool[t].seal /\ x.read = tool[t].read
      BY <1>2 DEF ToolTypes
    <3>3. Bound(x, admitted')
      BY <3>2, <2>1, <1>2, <1>18 DEF ReadManifest, ToolAt, Bound, Sealed, Verified
    <3> QED
      BY <3>1, <3>3, <2>1, <1>3, <1>18, SealFrame DEF ReadManifest
  <2> QED
    BY <2>1, <1>5, <1>18 DEF ReadManifest
<1>19. CASE Report(t)
  BY <1>3, <1>4, <1>h, <1>19 DEF Report
<1>20. CASE KillRun(t)
  <2>1. \A d \in Dirs : output'[d].seal \in {output[d].seal, Torn}
    BY <1>1, <1>20 DEF KillRun, Outputs
  <2>2. SealsAdmitted' /\ RecordOneRun'
    BY <2>1, <1>h, <1>20, ExamConstants
       DEF KillRun, SealInv, SealsAdmitted, RecordOneRun, OneRun, DerivedSet, Derived
  <2> QED
    BY <2>2, <1>4, <1>20 DEF KillRun
<1>21. CASE CopyArtifact(t)
  <2> DEFINE x == tool'[t]
  <2>1. /\ tool' = [tool EXCEPT ![t] = x] /\ x.pc = "copy" /\ x.seal = tool[t].seal
        /\ x.read = tool[t].read
    BY <1>1, <1>2, <1>21 DEF CopyArtifact, ToolAt, ToolTypes
  <2>2. Bound(x, admitted')
    BY <2>1, <1>2, <1>h, <1>21 DEF CopyArtifact, ToolAt, Bound, Sealed, Verified
  <2> QED
    BY <2>1, <2>2, <1>6, <1>21 DEF CopyArtifact
<1>22. CASE WriteRecord(t)
  <2>1. OneRun(tool[t].seal, tool[t].read)
    BY <1>2, <1>22 DEF WriteRecord, ToolAt, Bound, Sealed, Verified, OneRun
  <2>2. record'.seal = tool[t].seal /\ record'.sealed = tool[t].read
    BY <1>22 DEF WriteRecord
  <2>3. SealsAdmitted' /\ RecordOneRun'
    BY <2>1, <2>2, <1>h, <1>22
       DEF WriteRecord, SealInv, SealsAdmitted, RecordOneRun, OneRun, DerivedSet, Derived
  <2> QED
    BY <2>3, <1>4, <1>22 DEF WriteRecord
<1>23. CASE KillRecord(t)
  <2>1. SealsAdmitted' /\ RecordOneRun'
    BY <1>h, <1>23, ExamConstants
       DEF KillRecord, SealInv, SealsAdmitted, RecordOneRun, OneRun, DerivedSet, Derived
  <2> QED
    BY <2>1, <1>4, <1>23 DEF KillRecord
<1> QED
  BY <1>8, <1>9, <1>10, <1>11, <1>12, <1>13, <1>14, <1>15, <1>16, <1>17, <1>18, <1>19, <1>20,
     <1>21, <1>22, <1>23 DEF ToolNext, RunnerNext, RecorderNext

LEMMA SealStep == TypeInv /\ SealInv /\ [Next]_vars => SealInv'
<1> SUFFICES ASSUME TypeInv, SealInv, [Next]_vars PROVE SealInv'
  OBVIOUS
<1>1. ASSUME UNCHANGED <<output, record, tool, admitted>> PROVE SealInv'
  BY <1>1 DEF SealInv, SealsAdmitted, RecordOneRun, Bound, OneRun, DerivedSet, Derived
<1>2. CASE UNCHANGED vars
  BY <1>1, <1>2 DEF vars, files, history
<1>3. CASE Select \/ EditSelection \/ \E d \in Dirs : ClearPacket(d) \/ EditPacket(d)
  BY <1>1, <1>3 DEF Select, EditSelection, ClearPacket, EditPacket, history
<1>4. ASSUME NEW a \in Acquirers, AcquirerNext(a) PROVE SealInv'
  BY <1>1, <1>4 DEF AcquirerNext, Acquire, RequireEmptyDirectory, AcquireRow, WriteMachineInput,
     KillAcquirer, OnlyAcquirer, history
<1>5. CASE Next
  BY <1>3, <1>4, <1>5, SealTool DEF Next, ToolNext, Tools
<1> QED
  BY <1>2, <1>5

\* A verification accepts, and a record holds, only the complete artifact set of one run,
\* with any number of processes writing into any directories and killed at any moment.
THEOREM ExamVerifiedIsOneRun == Spec => []VerifiedIsOneRun
<1>1. TypeInv /\ SealInv => VerifiedIsOneRun
  BY DEF SealInv, RecordOneRun, Bound, Sealed, Verified, OneRun, VerifiedIsOneRun
<1> QED
  BY <1>1, TypeInit, TypeStep, SealInit, SealStep, PTL DEF Spec

-----------------------------------------------------------------------------
(* Packets *)

\* A packet directory is filled while its MACHINE_INPUT.json is missing, and no run
\* begins before it is there.
PacketInv ==
  /\ \A a \in Acquirers : acquirer[a].pc = "rows" => packet[acquirer[a].dir].input = None
  /\ \A d \in begun : packet[d].input # None
OneAcquirer == \A a, b \in Acquirers : a = b

LEMMA BegunStep ==
  ASSUME TypeInv, NEW t \in Tools, ToolNext(t)
  PROVE  \A d \in begun' : d \in begun \/ packet[d].input # None
<1>1. CASE CloseLoad(t)
  BY <1>1 DEF CloseLoad, ToolFails, history
<1>2. CASE ~CloseLoad(t)
  BY <1>2 DEF ToolNext, RunnerNext, RecorderNext, StartRun, LoadInput, LoadRow, WriteArtifact,
     WriteSeal, RequirePresent, ReadSeal, HashArtifact, CompareHashes, ReadManifest, Report,
     KillRun, StartRecord, CopyArtifact, WriteRecord, KillRecord, ToolFails, history
<1> QED
  BY <1>1, <1>2

LEMMA ToolLeavesPackets ==
  ASSUME NEW t \in Tools, ToolNext(t) PROVE UNCHANGED <<packet, acquirer>>
BY DEF ToolNext, RunnerNext, RecorderNext, StartRun, LoadInput, LoadRow, CloseLoad,
       WriteArtifact, WriteSeal, RequirePresent, ReadSeal, HashArtifact, CompareHashes,
       ReadManifest, Report, KillRun, StartRecord, CopyArtifact, WriteRecord, KillRecord,
       OnlyReads, OnlyTool

\* An acquirer writes only a packet without a MACHINE_INPUT.json.
LEMMA AcquirerWrites ==
  ASSUME TypeInv, PacketInv, NEW a \in Acquirers, AcquirerNext(a), NEW d \in Dirs
  PROVE  /\ packet'[d] = packet[d] \/ (packet[d].input = None /\ acquirer[a].pc = "rows")
         /\ packet'[d].input # packet[d].input => acquirer'[a].pc = "idle"
<1>1. packet \in [Dirs -> Packets] /\ acquirer \in [Acquirers -> AcquirerTypes]
  BY TypeSplit DEF TypeInv
<1>2. AcquirerReady(a) /\ IdleAcquirer.pc = "idle"
  BY IdleShapes DEF TypeInv, Ready
<1>3. CASE Acquire(a) \/ RequireEmptyDirectory(a)
  BY <1>3 DEF Acquire, RequireEmptyDirectory
<1>4. CASE AcquireRow(a)
  BY <1>1, <1>2, <1>4 DEF AcquireRow, AcquirerAt, PacketInv, Packets, AcquirerReady
<1>5. CASE WriteMachineInput(a)
  BY <1>1, <1>2, <1>5 DEF WriteMachineInput, AcquirerAt, AcquirerEnds, PacketInv, Packets,
     AcquirerReady
<1>6. CASE KillAcquirer(a)
  BY <1>1, <1>2, <1>6 DEF KillAcquirer, AcquirerAt, AcquirerEnds, PacketInv, Packets,
     AcquirerReady
<1> QED
  BY <1>3, <1>4, <1>5, <1>6 DEF AcquirerNext

\* It starts to fill a directory only when there is no MACHINE_INPUT.json.
LEMMA AcquirerRows ==
  ASSUME TypeInv, PacketInv, NEW a \in Acquirers, AcquirerNext(a), acquirer'[a].pc = "rows"
  PROVE  packet'[acquirer'[a].dir].input = None
<1>1. packet \in [Dirs -> Packets] /\ acquirer \in [Acquirers -> AcquirerTypes]
  BY TypeSplit DEF TypeInv
<1>2. AcquirerReady(a) /\ IdleAcquirer.pc = "idle" /\ acquirer[a] \in AcquirerTypes
  BY <1>1, IdleShapes DEF TypeInv, Ready
<1>3. CASE Acquire(a)
  BY <1>1, <1>3 DEF Acquire
<1>4. CASE RequireEmptyDirectory(a)
  BY <1>1, <1>2, <1>4
     DEF RequireEmptyDirectory, AcquirerAt, AcquirerGoes, AcquirerEnds, AcquirerTypes
<1>5. CASE AcquireRow(a)
  <2>1. acquirer'[a].dir = acquirer[a].dir /\ acquirer[a].dir \in Dirs
    BY <1>1, <1>2, <1>5 DEF AcquireRow, AcquirerAt, AcquirerEnds, AcquirerTypes, AcquirerReady
  <2>2. packet[acquirer[a].dir].input = None
    BY <1>5 DEF AcquireRow, AcquirerAt, PacketInv
  <2> QED
    BY <2>1, <2>2, <1>1, <1>5 DEF AcquireRow, Packets
<1>6. CASE WriteMachineInput(a) \/ KillAcquirer(a)
  BY <1>1, <1>2, <1>6 DEF WriteMachineInput, KillAcquirer, AcquirerEnds
<1> QED
  BY <1>3, <1>4, <1>5, <1>6 DEF AcquirerNext

LEMMA PacketStep ==
  ASSUME ~HandEdits, OneAcquirer, TypeInv, PacketInv, [Next]_vars
  PROVE  PacketInv' /\ \A d \in begun : packet'[d] = packet[d]
<1>1. /\ packet \in [Dirs -> Packets] /\ acquirer \in [Acquirers -> AcquirerTypes]
      /\ begun \subseteq Dirs
  BY TypeSplit DEF TypeInv
<1>2. CASE UNCHANGED <<packet, acquirer, begun>>
  BY <1>2 DEF PacketInv
<1>3. CASE Select
  BY <1>2, <1>3 DEF Select, history
<1>4. ASSUME NEW t \in Tools, ToolNext(t) PROVE PacketInv' /\ UNCHANGED packet
  BY <1>4, BegunStep, ToolLeavesPackets DEF PacketInv
<1>5. ASSUME NEW d \in Dirs, ClearPacket(d)
      PROVE  PacketInv' /\ \A e \in begun : packet'[e] = packet[e]
  BY <1>1, <1>5 DEF ClearPacket, Quiet, PacketInv, history
<1>6. ASSUME NEW a \in Acquirers, AcquirerNext(a)
      PROVE  PacketInv' /\ \A d \in begun : packet'[d] = packet[d]
  <2>1. \A d \in begun : packet'[d] = packet[d]
    BY <1>1, <1>6, AcquirerWrites DEF PacketInv
  <2>2. begun' = begun
    BY <1>6 DEF AcquirerNext, Acquire, RequireEmptyDirectory, AcquireRow, WriteMachineInput,
       KillAcquirer, OnlyAcquirer, history
  <2>3. \A b \in Acquirers : acquirer'[b].pc = "rows" => packet'[acquirer'[b].dir].input = None
    BY <1>6, AcquirerRows DEF OneAcquirer
  <2> QED
    BY <2>1, <2>2, <2>3 DEF PacketInv
<1>7. ~EditSelection /\ \A d \in Dirs : ~EditPacket(d)
  BY DEF EditSelection, EditPacket
<1> QED
  BY <1>2, <1>3, <1>4, <1>5, <1>6, <1>7 DEF Next, ToolNext, Tools, vars, files, history

\* When nobody edits by hand and acquisitions do not overlap each other, no packet
\* changes after a machine-first run has loaded it: not by an acquisition repeated after
\* a failure, and not by one that starts while the run is under way.
THEOREM ExamPacketImmutable ==
  ASSUME ~HandEdits, OneAcquirer PROVE Spec => PacketImmutableOnceBegun
<1>1. Init => PacketInv
  BY IdleShapes DEF Init, PacketInv
<1>2. TypeInv /\ PacketInv /\ [Next]_vars => PacketInv'
  BY PacketStep
<1>3. TypeInv /\ PacketInv /\ [Next]_vars => [\A d \in begun : packet'[d] = packet[d]]_vars
  BY PacketStep
<1> QED
  BY <1>1, <1>2, <1>3, TypeInit, TypeStep, PTL DEF Spec, PacketImmutableOnceBegun

-----------------------------------------------------------------------------
(* Emitted seals *)

\* From its second load on, a run holds the packet of its directory; what a process
\* read of a seal is the packet of the same examination.
Steady(x, b, p, o) ==
  /\ (x.pc # "idle" /\ x.loads # 0) => x.dir \in b
  /\ (x.pc = "rows" /\ x.loads # 0) => x.input = p[x.dir].input
  /\ x.pc = "write" => x.dir \in b /\ x.input = p[x.dir].input
  /\ x.pc \in Sealed =>
       x.out \in b /\ x.seal = p[x.out].input /\ o[x.out].seal # None
SealsCurrent ==
  \A d \in Dirs : output[d].seal \in Inputs => d \in begun /\ output[d].seal = packet[d].input
EmittedCurrent ==
  \A d \in Dirs : emitted[d] # None =>
    d \in begun /\ emitted[d] = packet[d].input /\ output[d].seal # None
ToolsSteady == \A t \in Tools : Steady(tool[t], begun, packet, output)
EmitInv == ToolsSteady /\ SealsCurrent /\ EmittedCurrent

LEMMA EmitInit == Init => EmitInv
<1> SUFFICES ASSUME Init PROVE EmitInv
  OBVIOUS
<1>1. \A t \in Tools : tool[t].pc = "idle"
  BY IdleShapes DEF Init
<1> QED
  BY <1>1, ExamConstants
     DEF Init, EmitInv, ToolsSteady, SealsCurrent, EmittedCurrent, Steady, Sealed

LEMMA EmitFrame ==
  ASSUME TypeInv, EmitInv, NEW t \in Tools, NEW x, tool' = [tool EXCEPT ![t] = x],
         UNCHANGED packet, begun \subseteq begun',
         \A d \in Dirs : output[d].seal # None => output'[d].seal # None,
         Steady(x, begun', packet', output'), SealsCurrent', EmittedCurrent'
  PROVE  EmitInv'
<1>1. ASSUME NEW u \in Tools PROVE Steady(tool'[u], begun', packet', output')
  <2>1. tool'[t] = x /\ (u # t => tool'[u] = tool[u])
    BY TypeSplit DEF TypeInv
  <2>2. Steady(tool[u], begun, packet, output) /\ Usable(u, tool[u])
    BY DEF EmitInv, ToolsSteady, TypeInv, Ready, ToolReady
  <2>3. tool[u].pc \in Sealed => tool[u].out \in Dirs
    BY <2>2 DEF Usable, Sealed
  <2> QED
    BY <2>1, <2>2, <2>3 DEF Steady
<1> QED
  BY <1>1 DEF EmitInv, ToolsSteady, Steady

LEMMA EmitTool ==
  ASSUME OwnOutput, TypeInv, EmitInv, NEW t \in Tools, ToolNext(t) PROVE EmitInv'
<1>1. tool \in [Tools -> ToolTypes] /\ output \in [Dirs -> Outputs] /\ begun \subseteq Dirs
  BY TypeSplit DEF TypeInv
<1>2. /\ Usable(t, tool[t]) /\ tool[t] \in ToolTypes
      /\ Steady(tool[t], begun, packet, output)
  BY <1>1 DEF TypeInv, Ready, ToolReady, EmitInv, ToolsSteady
<1>3. /\ tool[t].pc # "idle" => tool[t].out = tool[t].dir /\ tool[t].out \in Dirs
      /\ UNCHANGED packet
  BY <1>2, ToolLeavesPackets DEF Usable
<1>o. OnlyReads => /\ \A d \in Dirs : output'[d].seal = output[d].seal
                   /\ output' = output
  BY DEF OnlyReads
<1>h. UNCHANGED history => begun \subseteq begun' /\ begun' = begun /\ emitted' = emitted
  BY DEF history
\* A step that writes no seal and emits nothing.
<1>4. ASSUME begun \subseteq begun', emitted' = emitted,
             \A d \in Dirs : output'[d].seal = output[d].seal
      PROVE  SealsCurrent' /\ EmittedCurrent'
  BY <1>3, <1>4 DEF EmitInv, SealsCurrent, EmittedCurrent
<1>5. ASSUME ToolEnds(t), UNCHANGED history,
             \A d \in Dirs : output[d].seal # None => output'[d].seal # None,
             SealsCurrent', EmittedCurrent'
      PROVE  EmitInv'
  <2>1. Steady(IdleTool, begun', packet', output')
    BY IdleShapes DEF Steady, Sealed
  <2> QED
    BY <2>1, <1>3, <1>5, <1>h, EmitFrame DEF ToolEnds
<1>6. ASSUME ToolFails(t), OnlyReads PROVE EmitInv'
  BY <1>4, <1>5, <1>6, <1>h, <1>o DEF ToolFails
<1>7. ASSUME NEW x, tool' = [tool EXCEPT ![t] = x], Steady(x, begun', packet', output'),
             begun \subseteq begun', emitted' = emitted, OnlyReads
      PROVE  EmitInv'
  BY <1>3, <1>4, <1>7, <1>o, EmitFrame
<1>8. CASE StartRun(t) \/ StartRecord(t)
  <2>1. PICK x : tool' = [tool EXCEPT ![t] = x] /\ x.pc = "input" /\ x.loads = 0
    <3>1. \A d \in Dirs, o \in Dirs :
            /\ [IdleTool EXCEPT !.pc = "input", !.dir = d, !.out = o].pc = "input"
            /\ [IdleTool EXCEPT !.pc = "input", !.dir = d, !.out = o].loads = 0
            /\ [IdleTool EXCEPT !.pc = "input", !.dir = d, !.out = o,
                                !.selection = selection].pc = "input"
            /\ [IdleTool EXCEPT !.pc = "input", !.dir = d, !.out = o,
                                !.selection = selection].loads = 0
      BY DEF IdleTool
    <3>2. \A d \in Dirs : Directories(d) \subseteq Dirs
      BY DEF Directories
    <3>3. CASE StartRun(t)
      <4>1. PICK d \in Dirs : \E o \in Directories(d) :
              tool' = [tool EXCEPT ![t] = [IdleTool EXCEPT !.pc = "input", !.dir = d, !.out = o]]
        BY <3>3 DEF StartRun
      <4>2. PICK o \in Directories(d) :
              tool' = [tool EXCEPT ![t] = [IdleTool EXCEPT !.pc = "input", !.dir = d, !.out = o]]
        BY <4>1
      <4> QED
        BY <4>2, <3>1, <3>2
    <3>4. CASE StartRecord(t)
      <4>1. PICK d \in Dirs : \E o \in Directories(d) :
              tool' = [tool EXCEPT ![t] = [IdleTool EXCEPT !.pc = "input", !.dir = d, !.out = o,
                                                           !.selection = selection]]
        BY <3>4 DEF StartRecord
      <4>2. PICK o \in Directories(d) :
              tool' = [tool EXCEPT ![t] = [IdleTool EXCEPT !.pc = "input", !.dir = d, !.out = o,
                                                           !.selection = selection]]
        BY <4>1
      <4> QED
        BY <4>2, <3>1, <3>2
    <3> QED
      BY <3>3, <3>4, <1>8
  <2>2. Steady(x, begun', packet', output')
    BY <2>1 DEF Steady, Sealed
  <2>3. OnlyReads /\ UNCHANGED history
    BY <1>8 DEF StartRun, StartRecord
  <2> QED
    BY <2>1, <2>2, <2>3, <1>7, <1>h
<1>9. CASE LoadInput(t)
  <2> DEFINE i == packet[tool[t].dir].input
             x == [tool[t] EXCEPT !.pc = "rows", !.input = i, !.row = 1]
  <2>1. CASE tool' = [tool EXCEPT ![t] = x] /\ UNCHANGED history
    <3>1. x.pc = "rows" /\ x.input = i /\ x.dir = tool[t].dir /\ x.loads = tool[t].loads
      BY <1>2 DEF ToolTypes
    <3>2. Steady(x, begun', packet', output')
      BY <3>1, <2>1, <1>2, <1>3, <1>h, <1>9 DEF LoadInput, ToolAt, Steady, Sealed
    <3> QED
      BY <3>2, <2>1, <1>7, <1>9, <1>h DEF LoadInput
  <2>2. CASE ToolFails(t)
    BY <2>2, <1>6, <1>9 DEF LoadInput
  <2> QED
    BY <2>1, <2>2, <1>1, <1>9 DEF LoadInput
<1>10. CASE LoadRow(t)
  <2>1. CASE tool' = [tool EXCEPT ![t].row = @ + 1] /\ UNCHANGED history
    <3> DEFINE x == tool'[t]
    <3>1. /\ tool' = [tool EXCEPT ![t] = x] /\ x.pc = "rows"
          /\ x.input = tool[t].input /\ x.dir = tool[t].dir /\ x.loads = tool[t].loads
      BY <2>1, <1>1, <1>2, <1>10 DEF LoadRow, ToolAt, ToolTypes
    <3>2. Steady(x, begun', packet', output')
      BY <3>1, <2>1, <1>2, <1>3, <1>h, <1>10 DEF LoadRow, ToolAt, Steady, Sealed
    <3> QED
      BY <3>1, <3>2, <2>1, <1>7, <1>10, <1>h DEF LoadRow
  <2>2. CASE ToolFails(t)
    BY <2>2, <1>6, <1>10 DEF LoadRow
  <2> QED
    BY <2>1, <2>2, <1>10 DEF LoadRow
<1>11. CASE CloseLoad(t)
  <2>1. CASE ToolFails(t)
    BY <2>1, <1>6, <1>11 DEF CloseLoad
  <2>2. CASE ToolGoes(t, "present") /\ UNCHANGED history
    <3> DEFINE x == [tool[t] EXCEPT !.pc = "present"]
    <3>1. tool' = [tool EXCEPT ![t] = x]
      BY <2>2, <1>1 DEF ToolGoes
    <3>2. x.pc = "present" /\ x.dir = tool[t].dir /\ x.loads = tool[t].loads
      BY <1>2 DEF ToolTypes
    <3>3. Steady(x, begun', packet', output')
      BY <3>2, <2>2, <1>2, <1>h, <1>11 DEF CloseLoad, ToolAt, Steady, Sealed
    <3> QED
      BY <3>1, <3>3, <2>2, <1>7, <1>11, <1>h DEF CloseLoad
  <2>3. CASE /\ tool' = [tool EXCEPT ![t] =
                           [@ EXCEPT !.pc = "input", !.loads = 1, !.run = tool[t].input.run]]
             /\ begun' = begun \cup {tool[t].dir} /\ UNCHANGED <<admitted, emitted>>
    <3> DEFINE x == [tool[t] EXCEPT !.pc = "input", !.loads = 1, !.run = tool[t].input.run]
    <3>1. tool' = [tool EXCEPT ![t] = x]
      BY <2>3, <1>1
    <3>2. x.pc = "input" /\ x.dir = tool[t].dir
      BY <1>2 DEF ToolTypes
    <3>3. Steady(x, begun', packet', output')
      BY <3>2, <2>3 DEF Steady, Sealed
    <3> QED
      BY <3>1, <3>3, <2>3, <1>7, <1>11 DEF CloseLoad
  <2>4. CASE /\ tool' = [tool EXCEPT ![t] = [@ EXCEPT !.pc = "write", !.loads = 2, !.row = 1]]
             /\ tool[t].loads # 0 /\ UNCHANGED <<begun, emitted>>
    <3> DEFINE x == [tool[t] EXCEPT !.pc = "write", !.loads = 2, !.row = 1]
    <3>1. tool' = [tool EXCEPT ![t] = x]
      BY <2>4, <1>1
    <3>2. x.pc = "write" /\ x.dir = tool[t].dir /\ x.input = tool[t].input
      BY <1>2 DEF ToolTypes
    <3>3. tool[t].dir \in begun /\ tool[t].input = packet[tool[t].dir].input
      BY <2>4, <1>2, <1>11 DEF CloseLoad, ToolAt, Steady
    <3>4. Steady(x, begun', packet', output')
      BY <3>2, <3>3, <2>4, <1>3 DEF Steady, Sealed
    <3> QED
      BY <3>1, <3>4, <2>4, <1>7, <1>11 DEF CloseLoad
  <2> QED
    BY <2>1, <2>2, <2>3, <2>4, <1>11 DEF CloseLoad
<1>12. CASE WriteArtifact(t)
  <2> DEFINE x == tool'[t]
  <2>1. /\ tool' = [tool EXCEPT ![t] = x] /\ x.pc = "write" /\ x.input = tool[t].input
        /\ x.dir = tool[t].dir
    BY <1>1, <1>2, <1>12 DEF WriteArtifact, ToolAt, ToolTypes
  <2>2. \A d \in Dirs : output'[d].seal = output[d].seal
    BY <1>1, <1>12 DEF WriteArtifact, Outputs
  <2>3. Steady(x, begun', packet', output')
    BY <2>1, <1>2, <1>3, <1>h, <1>12 DEF WriteArtifact, ToolAt, Steady, Sealed
  <2>4. UNCHANGED history
    BY <1>12 DEF WriteArtifact
  <2> QED
    BY <2>1, <2>2, <2>3, <2>4, <1>3, <1>4, <1>h, EmitFrame
<1>13. CASE WriteSeal(t)
  <2> DEFINE x == [tool[t] EXCEPT !.pc = "present"]
  <2>1. tool' = [tool EXCEPT ![t] = x] /\ UNCHANGED history /\ tool[t].pc = "write"
    BY <1>1, <1>13 DEF WriteSeal, ToolGoes, ToolAt
  <2>2. x.pc = "present" /\ x.dir = tool[t].dir
    BY <1>2 DEF ToolTypes
  <2>3. /\ tool[t].out \in begun /\ tool[t].input = packet[tool[t].out].input
        /\ tool[t].input \in Inputs
    BY <2>1, <1>2, <1>3 DEF Steady, Usable, Loaded
  <2>4. Steady(x, begun', packet', output')
    BY <2>1, <2>2, <2>3, <1>3, <1>h DEF Steady, Sealed
  <2>5. \A d \in Dirs : output'[d].seal = IF d = tool[t].out THEN tool[t].input ELSE output[d].seal
    BY <1>1, <1>13 DEF WriteSeal, Outputs
  <2>6. tool[t].input # None
    BY <2>3, ExamConstants
  <2>7. SealsCurrent' /\ EmittedCurrent'
    BY <2>1, <2>3, <2>5, <2>6, <1>3, <1>h DEF EmitInv, SealsCurrent, EmittedCurrent
  <2> QED
    BY <2>1, <2>4, <2>5, <2>6, <2>7, <1>3, <1>h, EmitFrame
<1>14. CASE RequirePresent(t)
  <2> DEFINE x == [tool[t] EXCEPT !.pc = "seal"]
  <2>1. CASE ToolGoes(t, "seal") /\ UNCHANGED history
    <3>1. tool' = [tool EXCEPT ![t] = x]
      BY <2>1, <1>1 DEF ToolGoes
    <3>2. x.pc = "seal" /\ x.dir = tool[t].dir /\ x.loads = tool[t].loads
      BY <1>2 DEF ToolTypes
    <3>3. Steady(x, begun', packet', output')
      BY <3>2, <2>1, <1>2, <1>h, <1>14 DEF RequirePresent, ToolAt, Steady, Sealed
    <3> QED
      BY <3>1, <3>3, <2>1, <1>7, <1>14, <1>h DEF RequirePresent
  <2> QED
    BY <2>1, <1>6, <1>14 DEF RequirePresent
<1>15. CASE ReadSeal(t)
  <2> DEFINE s == output[tool[t].out].seal
             x == [tool[t] EXCEPT !.pc = "hash", !.seal = s, !.row = 1]
  <2>1. CASE s \in Inputs
    <3>1. tool' = [tool EXCEPT ![t] = x] /\ UNCHANGED history /\ tool[t].pc = "seal" /\ OnlyReads
      BY <1>1, <1>15, <2>1 DEF ReadSeal, ToolAt
    <3>2. /\ x.pc = "hash" /\ x.seal = s /\ x.out = tool[t].out /\ x.dir = tool[t].dir
          /\ x.loads = tool[t].loads
      BY <1>2 DEF ToolTypes
    <3>3. s # None /\ tool[t].out \in begun /\ s = packet[tool[t].out].input
      BY <2>1, <3>1, <1>3, ExamConstants DEF EmitInv, SealsCurrent
    <3>4. Steady(x, begun', packet', output')
      BY <3>1, <3>2, <3>3, <1>2, <1>3, <1>h, <1>o DEF Steady
    <3> QED
      BY <3>1, <3>4, <1>7, <1>h
  <2>2. CASE s \notin Inputs
    BY <2>2, <1>6, <1>15 DEF ReadSeal
  <2> QED
    BY <2>1, <2>2
\* From the seal to the end of the verification nothing changes that Steady speaks of.
<1>16. ASSUME NEW x, tool[t].pc \in Sealed, x.pc \in Sealed, x.out = tool[t].out,
              x.seal = tool[t].seal, x.dir = tool[t].dir, x.loads = tool[t].loads, begun' = begun,
              OnlyReads
       PROVE  Steady(x, begun', packet', output')
  BY <1>2, <1>3, <1>16, <1>o DEF Steady, Sealed
<1>17. CASE HashArtifact(t)
  <2> DEFINE x == tool'[t]
  <2>1. /\ tool' = [tool EXCEPT ![t] = x] /\ x.pc = "hash" /\ x.seal = tool[t].seal
        /\ x.out = tool[t].out /\ x.dir = tool[t].dir /\ x.loads = tool[t].loads
    BY <1>1, <1>2, <1>17 DEF HashArtifact, ToolAt, ToolTypes
  <2>2. OnlyReads /\ UNCHANGED history /\ tool[t].pc = "hash"
    BY <1>17 DEF HashArtifact, ToolAt
  <2> QED
    BY <2>1, <2>2, <1>7, <1>16, <1>h DEF Sealed
<1>18. CASE CompareHashes(t)
  <2> DEFINE x == [tool[t] EXCEPT !.pc = "manifest"]
  <2>1. CASE ToolGoes(t, "manifest") /\ UNCHANGED history
    <3>1. tool' = [tool EXCEPT ![t] = x] /\ OnlyReads /\ tool[t].pc = "hash"
      BY <2>1, <1>1, <1>18 DEF ToolGoes, CompareHashes, ToolAt
    <3>2. /\ x.pc = "manifest" /\ x.seal = tool[t].seal
          /\ x.out = tool[t].out /\ x.dir = tool[t].dir /\ x.loads = tool[t].loads
      BY <1>2 DEF ToolTypes
    <3>3. x.pc \in Sealed /\ tool[t].pc \in Sealed
      BY <3>1, <3>2 DEF Sealed
    <3> HIDE DEF x
    <3>4. Steady(x, begun', packet', output')
      BY <3>1, <3>2, <3>3, <2>1, <1>16, <1>h
    <3> QED
      BY <3>1, <3>4, <2>1, <1>7, <1>h
  <2> QED
    BY <2>1, <1>6, <1>18 DEF CompareHashes
<1>19. CASE ReadManifest(t)
  <2> DEFINE q == IF t \in Runners THEN "report" ELSE "copy"
             x == [tool[t] EXCEPT !.pc = q, !.row = 1]
  <2>1. CASE /\ tool' = [tool EXCEPT ![t] = [@ EXCEPT !.pc = q, !.row = 1]]
             /\ emitted' = [emitted EXCEPT ![tool[t].out] = IF @ = None THEN tool[t].seal ELSE @]
             /\ UNCHANGED <<begun, admitted>>
    <3>1. tool' = [tool EXCEPT ![t] = x] /\ OnlyReads /\ tool[t].pc = "manifest"
      BY <2>1, <1>1, <1>19 DEF ReadManifest, ToolAt
    <3>2. /\ x.pc = q /\ x.seal = tool[t].seal
          /\ x.out = tool[t].out /\ x.dir = tool[t].dir /\ x.loads = tool[t].loads
      BY <1>2 DEF ToolTypes
    <3>3. Steady(x, begun', packet', output')
      <4>1. x.pc \in Sealed /\ tool[t].pc \in Sealed
        BY <3>1, <3>2 DEF Sealed
      <4> HIDE DEF x
      <4> QED
        BY <4>1, <3>1, <3>2, <2>1, <1>16
    <3>4. /\ tool[t].out \in begun /\ tool[t].seal = packet[tool[t].out].input
          /\ output[tool[t].out].seal # None
      BY <3>1, <1>2 DEF Steady, Sealed
    <3>5. \A d \in Dirs : emitted'[d] = emitted[d] \/ (d = tool[t].out /\ emitted'[d] = tool[t].seal)
      BY <2>1, TypeSplit DEF TypeInv
    <3>6. SealsCurrent' /\ EmittedCurrent'
      BY <3>1, <3>4, <3>5, <2>1, <1>3, <1>o DEF EmitInv, SealsCurrent, EmittedCurrent
    <3> QED
      BY <3>1, <3>3, <3>6, <2>1, <1>3, <1>o, EmitFrame
  <2> QED
    BY <2>1, <1>6, <1>19 DEF ReadManifest
<1>20. CASE Report(t)
  BY <1>4, <1>5, <1>h, <1>o, <1>20 DEF Report
<1>21. CASE KillRun(t)
  <2>1. \A d \in Dirs : output'[d].seal \in {output[d].seal, Torn}
    BY <1>1, <1>21 DEF KillRun, Outputs
  <2>2. ToolEnds(t) /\ UNCHANGED history
    BY <1>21 DEF KillRun
  <2>3. SealsCurrent' /\ EmittedCurrent'
    BY <2>1, <2>2, <1>3, <1>h, ExamConstants DEF EmitInv, SealsCurrent, EmittedCurrent
  <2> QED
    BY <2>1, <2>2, <2>3, <1>5, ExamConstants
<1>22. CASE CopyArtifact(t)
  <2> DEFINE x == tool'[t]
  <2>1. /\ tool' = [tool EXCEPT ![t] = x] /\ x.pc = "copy" /\ x.seal = tool[t].seal
        /\ x.out = tool[t].out /\ x.dir = tool[t].dir /\ x.loads = tool[t].loads
    BY <1>1, <1>2, <1>22 DEF CopyArtifact, ToolAt, ToolTypes
  <2>2. OnlyReads /\ UNCHANGED history /\ tool[t].pc = "copy"
    BY <1>22 DEF CopyArtifact, ToolAt
  <2> QED
    BY <2>1, <2>2, <1>7, <1>16, <1>h DEF Sealed
<1>23. CASE WriteRecord(t) \/ KillRecord(t)
  <2>1. ToolEnds(t) /\ UNCHANGED history /\ \A d \in Dirs : output'[d].seal = output[d].seal
    BY <1>23 DEF WriteRecord, KillRecord
  <2> QED
    BY <2>1, <1>4, <1>5, <1>h
<1> QED
  BY <1>8, <1>9, <1>10, <1>11, <1>12, <1>13, <1>14, <1>15, <1>17, <1>18, <1>19, <1>20,
     <1>21, <1>22, <1>23 DEF ToolNext, RunnerNext, RecorderNext

LEMMA EmitStep ==
  ASSUME ~HandEdits, OneAcquirer, OwnOutput, TypeInv, PacketInv, EmitInv, [Next]_vars
  PROVE  EmitInv'
<1>1. \A d \in begun : packet'[d] = packet[d]
  BY PacketStep
<1>2. ASSUME UNCHANGED <<output, tool, begun, emitted>> PROVE EmitInv'
  <2>1. ASSUME NEW t \in Tools PROVE Steady(tool'[t], begun', packet', output')
    <3>1. Steady(tool[t], begun, packet, output)
      BY DEF EmitInv, ToolsSteady
    <3> QED
      BY <3>1, <1>1, <1>2 DEF Steady, Sealed
  <2>2. SealsCurrent' /\ EmittedCurrent'
    BY <1>1, <1>2 DEF EmitInv, SealsCurrent, EmittedCurrent
  <2> QED
    BY <2>1, <2>2 DEF EmitInv, ToolsSteady, Steady
<1>3. CASE UNCHANGED vars
  BY <1>2, <1>3 DEF vars, files, history
<1>4. CASE Select \/ EditSelection \/ \E d \in Dirs : ClearPacket(d) \/ EditPacket(d)
  BY <1>2, <1>4 DEF Select, EditSelection, ClearPacket, EditPacket, history
<1>5. ASSUME NEW a \in Acquirers, AcquirerNext(a) PROVE EmitInv'
  BY <1>2, <1>5 DEF AcquirerNext, Acquire, RequireEmptyDirectory, AcquireRow, WriteMachineInput,
     KillAcquirer, OnlyAcquirer, history
<1>6. CASE Next
  BY <1>4, <1>5, <1>6, EmitTool DEF Next, ToolNext, Tools
<1> QED
  BY <1>3, <1>6

LEMMA EmittedStands ==
  ASSUME TypeInv, EmitInv, TypeInv', EmitInv', [Next]_vars, \A d \in begun : packet'[d] = packet[d],
         \A d \in Dirs : emitted[d] # None => emitted'[d] = emitted[d]
  PROVE  \A d \in Dirs : emitted[d] # None => output'[d].seal \in {emitted[d], Torn}
<1> SUFFICES ASSUME NEW d \in Dirs, emitted[d] # None
             PROVE  output'[d].seal \in {emitted[d], Torn}
  OBVIOUS
<1>1. emitted'[d] # None /\ emitted'[d] = packet'[d].input /\ output'[d].seal # None
  BY DEF EmitInv, EmittedCurrent
<1>2. output'[d].seal \in Inputs \cup {None, Torn}
  BY TypeSplit DEF TypeInv, TypeOK, Outputs
<1>3. output'[d].seal \in Inputs => output'[d].seal = packet'[d].input
  BY DEF EmitInv, SealsCurrent
<1> QED
  BY <1>1, <1>2, <1>3

\* The first emitted seal of a directory is kept in the history.
LEMMA EmittedKept ==
  ASSUME TypeInv, [Next]_vars
  PROVE  \A d \in Dirs : emitted[d] # None => emitted'[d] = emitted[d]
<1>1. emitted \in [Dirs -> Inputs \cup {None}]
  BY TypeSplit DEF TypeInv
<1>2. ASSUME NEW t \in Tools, ToolNext(t)
      PROVE  \A d \in Dirs : emitted[d] # None => emitted'[d] = emitted[d]
  <2>1. CASE ReadManifest(t)
    BY <1>1, <2>1 DEF ReadManifest, ToolFails, history
  <2>2. CASE ~ReadManifest(t)
    BY <1>2, <2>2 DEF ToolNext, RunnerNext, RecorderNext, StartRun, LoadInput, LoadRow, CloseLoad,
       WriteArtifact, WriteSeal, RequirePresent, ReadSeal, HashArtifact, CompareHashes, Report,
       KillRun, StartRecord, CopyArtifact, WriteRecord, KillRecord, ToolFails, history
  <2> QED
    BY <2>1, <2>2
<1>3. ASSUME NEW a \in Acquirers, AcquirerNext(a) PROVE UNCHANGED emitted
  BY <1>3 DEF AcquirerNext, Acquire, RequireEmptyDirectory, AcquireRow, WriteMachineInput,
     KillAcquirer, OnlyAcquirer, history
<1>4. CASE Select \/ EditSelection \/ \E d \in Dirs : ClearPacket(d) \/ EditPacket(d)
  BY <1>4 DEF Select, EditSelection, ClearPacket, EditPacket, history
<1> QED
  BY <1>2, <1>3, <1>4 DEF Next, ToolNext, Tools, vars, files, history

\* When each output directory belongs to one examination, nobody edits by hand and
\* acquisitions do not overlap each other, the first seal that verified is never replaced
\* by another one, whichever runs are repeated, killed or under way together.
THEOREM ExamEmittedSealStands ==
  ASSUME ~HandEdits, OneAcquirer, OwnOutput PROVE Spec => EmittedSealStands
<1> DEFINE Inv == TypeInv /\ PacketInv /\ EmitInv
           Stands == \A d \in Dirs : emitted[d] # None => output'[d].seal \in {emitted[d], Torn}
<1>1. Init => Inv
  BY IdleShapes, TypeInit, EmitInit DEF Init, PacketInv
<1>2. Inv /\ [Next]_vars => Inv'
  BY TypeStep, PacketStep, EmitStep
<1>3. Inv /\ [Next]_vars => Stands
  BY <1>2, EmittedKept, EmittedStands, PacketStep
<1>4. Inv /\ [Next]_vars => [Stands]_vars
  BY <1>3
<1> HIDE DEF Inv, Stands
<1>5. Spec => [][Stands]_vars
  BY <1>1, <1>2, <1>4, PTL DEF Spec
<1> QED
  BY <1>5 DEF EmittedSealStands, Stands
-----------------------------------------------------------------------------
(* Records and exit 0 *)

\* How the record of a process changes in a step: it ends, it starts, or it goes on with
\* the directories it was started for.
Moves(c, x) ==
  \/ x = IdleTool
  \/ c.pc = "idle" /\ x.pc = "input" /\ x.loads = 0 /\ MayStart
  \/ /\ c.pc = "input" /\ x.pc = "rows" /\ x.dir = c.dir /\ x.out = c.out
     /\ x.input = packet[c.dir].input /\ x.loads = c.loads /\ x.run = c.run
  \/ /\ c.pc = "rows" /\ x.pc = "input" /\ x.dir = c.dir /\ x.out = c.out
     /\ x.loads = 1 /\ x.run = c.input.run
  \/ /\ c.pc \in Loaded /\ x.pc \in Loaded /\ x.dir = c.dir /\ x.out = c.out
     /\ x.input = c.input /\ x.run = c.run
     /\ x.loads = c.loads \/ (c.loads # 0 /\ x.loads # 0)

\* From which state it enters each of the later ones.
Late == {"seal"} \cup Sealed
Phases(t, c, x) ==
  /\ x.pc = "write" =>
       \/ c.pc = "rows" /\ x.row = 1 /\ x.loads # 0 /\ OnlyReads
       \/ WriteArtifact(t) /\ c.pc = "write" /\ x.row = c.row + 1
  /\ x.pc = "present" => (t \in Recorders /\ OnlyReads) \/ WriteSeal(t)
  /\ x.pc = "seal" => c.pc = "present" /\ CompleteAndClosed(t) /\ OnlyReads
  /\ x.pc \in Sealed =>
       /\ OnlyReads
       /\ \/ c.pc = "seal" /\ x.pc = "hash"
          \/ c.pc \in Sealed /\ x.seal = c.seal
  /\ x.pc = "copy" =>
       \/ c.pc = "manifest" /\ x.row = 1
       \/ /\ c.pc = "copy" /\ c.row \in DOMAIN Recorded /\ x.row = c.row + 1
          /\ x.copied = [c.copied EXCEPT ![Recorded[c.row]] =
                                            output[c.out].artifact[Recorded[c.row]]]

LEMMA ToolMoves ==
  ASSUME TypeInv, NEW t \in Tools, ToolNext(t), NEW c, NEW x, c = tool[t], x = tool'[t]
  PROVE  /\ tool' = [tool EXCEPT ![t] = x]
         /\ \A u \in Tools : u # t => tool'[u] = tool[u]
         /\ Moves(c, x) /\ Phases(t, c, x)
<1>1. tool \in [Tools -> ToolTypes] /\ c \in ToolTypes
  BY TypeSplit DEF TypeInv
<1> DEFINE Frame == /\ tool' = [tool EXCEPT ![t] = x]
                    /\ \A u \in Tools : u # t => tool'[u] = tool[u]
           Goal == Frame /\ Moves(c, x) /\ Phases(t, c, x)
<1>2. ASSUME NEW y, tool' = [tool EXCEPT ![t] = y] PROVE Frame /\ x = y
  BY <1>1, <1>2
<1>3. ASSUME ToolEnds(t) PROVE Goal
  <2>1. Frame /\ x = IdleTool
    BY <1>2, <1>3 DEF ToolEnds
  <2> QED
    BY <2>1, IdleShapes DEF Moves, Phases, Sealed
<1>4. ASSUME ToolFails(t) PROVE Goal
  BY <1>3, <1>4 DEF ToolFails
<1>5. ASSUME NEW q, ToolGoes(t, q) PROVE Frame /\ x = [c EXCEPT !.pc = q]
  <2>1. tool' = [tool EXCEPT ![t] = [c EXCEPT !.pc = q]]
    BY <1>1, <1>5 DEF ToolGoes
  <2> QED
    BY <2>1, <1>2
<1>6. ASSUME tool' = [tool EXCEPT ![t].row = @ + 1] PROVE Frame /\ x = [c EXCEPT !.row = c.row + 1]
  <2>1. tool' = [tool EXCEPT ![t] = [c EXCEPT !.row = c.row + 1]]
    BY <1>1, <1>6 DEF ToolTypes
  <2> QED
    BY <2>1, <1>2
<1>7. CASE StartRun(t)
  <2>1. PICK d \in Dirs : \E o \in Directories(d) :
          tool' = [tool EXCEPT ![t] = [IdleTool EXCEPT !.pc = "input", !.dir = d, !.out = o]]
    BY <1>7 DEF StartRun
  <2>2. PICK o \in Directories(d) :
          tool' = [tool EXCEPT ![t] = [IdleTool EXCEPT !.pc = "input", !.dir = d, !.out = o]]
    BY <2>1
  <2>3. Frame /\ x = [IdleTool EXCEPT !.pc = "input", !.dir = d, !.out = o]
    BY <2>2, <1>2
  <2> QED
    BY <2>3, <1>7 DEF StartRun, ToolAt, IdleTool, Moves, Phases, Sealed
<1>8. CASE StartRecord(t)
  <2>1. PICK d \in Dirs : \E o \in Directories(d) :
          tool' = [tool EXCEPT ![t] = [IdleTool EXCEPT !.pc = "input", !.dir = d, !.out = o,
                                                       !.selection = selection]]
    BY <1>8 DEF StartRecord
  <2>2. PICK o \in Directories(d) :
          tool' = [tool EXCEPT ![t] = [IdleTool EXCEPT !.pc = "input", !.dir = d, !.out = o,
                                                       !.selection = selection]]
    BY <2>1
  <2>3. Frame /\ x = [IdleTool EXCEPT !.pc = "input", !.dir = d, !.out = o,
                                      !.selection = selection]
    BY <2>2, <1>2
  <2> QED
    BY <2>3, <1>8 DEF StartRecord, ToolAt, IdleTool, Moves, Phases, Sealed
<1>9. CASE LoadInput(t)
  <2> DEFINE i == packet[c.dir].input
  <2>1. CASE tool' = [tool EXCEPT ![t] = [@ EXCEPT !.pc = "rows", !.input = i, !.row = 1]]
    <3>1. tool' = [tool EXCEPT ![t] = [c EXCEPT !.pc = "rows", !.input = i, !.row = 1]]
      BY <2>1, <1>1
    <3>2. x = [c EXCEPT !.pc = "rows", !.input = i, !.row = 1] /\ Frame
      BY <3>1, <1>2
    <3>3. c.pc = "input"
      BY <1>9 DEF LoadInput, ToolAt
    <3>4. x.pc = "rows" /\ Moves(c, x)
      BY <3>2, <3>3, <1>1 DEF ToolTypes, Moves
    <3> QED
      BY <3>2, <3>4 DEF Phases, Sealed
  <2> QED
    BY <2>1, <1>4, <1>9 DEF LoadInput
<1>10. CASE LoadRow(t)
  <2>1. CASE tool' = [tool EXCEPT ![t].row = @ + 1]
    <3>1. Frame /\ x = [c EXCEPT !.row = c.row + 1] /\ c.pc = "rows"
      BY <2>1, <1>6, <1>10 DEF LoadRow, ToolAt
    <3>2. x.pc = "rows" /\ Moves(c, x)
      BY <3>1, <1>1 DEF ToolTypes, Moves, Loaded
    <3> QED
      BY <3>1, <3>2 DEF Phases, Sealed
  <2> QED
    BY <2>1, <1>4, <1>10 DEF LoadRow
<1>11. CASE CloseLoad(t)
  <2>1. c.pc = "rows" /\ OnlyReads
    BY <1>11 DEF CloseLoad, ToolAt
  <2>2. CASE ToolGoes(t, "present") /\ t \in Recorders
    <3>1. Frame /\ x = [c EXCEPT !.pc = "present"]
      BY <2>2, <1>5
    <3>2. x.pc = "present" /\ Moves(c, x)
      BY <3>1, <2>1, <1>1 DEF ToolTypes, Moves, Loaded
    <3> QED
      BY <3>1, <3>2, <2>1, <2>2 DEF Phases, Sealed
  <2>3. CASE tool' = [tool EXCEPT ![t] = [@ EXCEPT !.pc = "input", !.loads = 1,
                                                   !.run = c.input.run]]
    <3>1. tool' = [tool EXCEPT ![t] = [c EXCEPT !.pc = "input", !.loads = 1,
                                                !.run = c.input.run]]
      BY <2>3, <1>1
    <3>2. x = [c EXCEPT !.pc = "input", !.loads = 1, !.run = c.input.run] /\ Frame
      BY <3>1, <1>2
    <3>3. x.pc = "input" /\ Moves(c, x)
      BY <3>2, <2>1, <1>1 DEF ToolTypes, Moves
    <3> QED
      BY <3>2, <3>3 DEF Phases, Sealed
  <2>4. CASE /\ c.loads # 0
             /\ tool' = [tool EXCEPT ![t] = [@ EXCEPT !.pc = "write", !.loads = 2, !.row = 1]]
    <3>1. tool' = [tool EXCEPT ![t] = [c EXCEPT !.pc = "write", !.loads = 2, !.row = 1]]
      BY <2>4, <1>1
    <3>2. x = [c EXCEPT !.pc = "write", !.loads = 2, !.row = 1] /\ Frame
      BY <3>1, <1>2
    <3>3. x.pc = "write" /\ x.row = 1 /\ x.loads # 0 /\ Moves(c, x)
      BY <3>2, <2>1, <2>4, <1>1 DEF ToolTypes, Loaded, Moves
    <3> QED
      BY <3>2, <3>3, <2>1 DEF Phases, Sealed
  <2> QED
    BY <2>2, <2>3, <2>4, <1>4, <1>11 DEF CloseLoad
<1>12. CASE WriteArtifact(t)
  <2>1. Frame /\ x = [c EXCEPT !.row = c.row + 1] /\ c.pc = "write"
    BY <1>6, <1>12 DEF WriteArtifact, ToolAt
  <2>2. x.pc = "write" /\ x.row = c.row + 1 /\ Moves(c, x)
    BY <2>1, <1>1 DEF ToolTypes, Moves, Loaded
  <2> QED
    BY <2>1, <2>2, <1>12 DEF Phases, Sealed
<1>13. CASE WriteSeal(t)
  <2>1. Frame /\ x = [c EXCEPT !.pc = "present"] /\ c.pc = "write"
    BY <1>5, <1>13 DEF WriteSeal, ToolAt
  <2>2. x.pc = "present" /\ Moves(c, x)
    BY <2>1, <1>1 DEF ToolTypes, Moves, Loaded
  <2> QED
    BY <2>1, <2>2, <1>13 DEF Phases, Sealed
<1>14. CASE RequirePresent(t)
  <2>1. CASE ToolGoes(t, "seal") /\ CompleteAndClosed(t)
    <3>1. Frame /\ x = [c EXCEPT !.pc = "seal"] /\ c.pc = "present" /\ OnlyReads
      BY <2>1, <1>5, <1>14 DEF RequirePresent, ToolAt
    <3>2. x.pc = "seal" /\ Moves(c, x)
      BY <3>1, <1>1 DEF ToolTypes, Moves, Loaded
    <3> QED
      BY <3>1, <3>2, <2>1 DEF Phases, Sealed
  <2> QED
    BY <2>1, <1>4, <1>14 DEF RequirePresent
<1>15. CASE ReadSeal(t)
  <2> DEFINE s == output[c.out].seal
  <2>1. CASE tool' = [tool EXCEPT ![t] = [@ EXCEPT !.pc = "hash", !.seal = s, !.row = 1]]
    <3>1. tool' = [tool EXCEPT ![t] = [c EXCEPT !.pc = "hash", !.seal = s, !.row = 1]]
      BY <2>1, <1>1
    <3>2. x = [c EXCEPT !.pc = "hash", !.seal = s, !.row = 1] /\ Frame
      BY <3>1, <1>2
    <3>3. c.pc = "seal" /\ OnlyReads
      BY <1>15 DEF ReadSeal, ToolAt
    <3>4. x.pc = "hash" /\ Moves(c, x)
      BY <3>2, <3>3, <1>1 DEF ToolTypes, Moves, Loaded
    <3> QED
      BY <3>2, <3>3, <3>4 DEF Phases, Sealed
  <2> QED
    BY <2>1, <1>4, <1>15 DEF ReadSeal
<1>16. CASE HashArtifact(t)
  <2> DEFINE a == Order[c.row]
             f == output[c.out].artifact[a]
  <2>1. tool' = [tool EXCEPT ![t] = [c EXCEPT !.read[a] = f, !.row = c.row + 1]]
    BY <1>1, <1>16 DEF HashArtifact
  <2>2. x = [c EXCEPT !.read[a] = f, !.row = c.row + 1] /\ Frame
    BY <2>1, <1>2
  <2>3. c.pc = "hash" /\ OnlyReads
    BY <1>16 DEF HashArtifact, ToolAt
  <2> HIDE DEF f
  <2>4. x.pc = "hash" /\ x.seal = c.seal /\ Moves(c, x)
    BY <2>2, <2>3, <1>1 DEF ToolTypes, Moves, Loaded
  <2> QED
    BY <2>2, <2>3, <2>4 DEF Phases, Sealed
<1>17. CASE CompareHashes(t)
  <2>1. CASE ToolGoes(t, "manifest")
    <3>1. Frame /\ x = [c EXCEPT !.pc = "manifest"] /\ c.pc = "hash" /\ OnlyReads
      BY <2>1, <1>5, <1>17 DEF CompareHashes, ToolAt
    <3>2. x.pc = "manifest" /\ x.seal = c.seal /\ Moves(c, x)
      BY <3>1, <1>1 DEF ToolTypes, Moves, Loaded
    <3> QED
      BY <3>1, <3>2 DEF Phases, Sealed
  <2> QED
    BY <2>1, <1>4, <1>17 DEF CompareHashes
<1>18. CASE ReadManifest(t)
  <2> DEFINE q == IF t \in Runners THEN "report" ELSE "copy"
  <2>1. CASE tool' = [tool EXCEPT ![t] = [@ EXCEPT !.pc = q, !.row = 1]]
    <3>1. tool' = [tool EXCEPT ![t] = [c EXCEPT !.pc = q, !.row = 1]]
      BY <2>1, <1>1
    <3>2. x = [c EXCEPT !.pc = q, !.row = 1] /\ Frame
      BY <3>1, <1>2
    <3>3. c.pc = "manifest" /\ OnlyReads /\ q \in {"report", "copy"}
      BY <1>18 DEF ReadManifest, ToolAt
    <3> HIDE DEF q
    <3>4. x.pc = q /\ x.row = 1 /\ x.seal = c.seal /\ Moves(c, x)
      BY <3>2, <3>3, <1>1 DEF ToolTypes, Moves, Loaded
    <3> QED
      BY <3>2, <3>3, <3>4 DEF Phases, Sealed
  <2> QED
    BY <2>1, <1>4, <1>18 DEF ReadManifest
<1>19. CASE CopyArtifact(t)
  <2> DEFINE a == Recorded[c.row]
             f == output[c.out].artifact[a]
  <2>1. tool' = [tool EXCEPT ![t] = [c EXCEPT !.copied[a] = f, !.row = c.row + 1]]
    BY <1>1, <1>19 DEF CopyArtifact
  <2>2. x = [c EXCEPT !.copied[a] = f, !.row = c.row + 1] /\ Frame
    BY <2>1, <1>2
  <2>3. c.pc = "copy" /\ c.row \in DOMAIN Recorded /\ OnlyReads
    BY <1>19 DEF CopyArtifact, ToolAt
  <2>4. /\ x.pc = "copy" /\ x.seal = c.seal /\ x.row = c.row + 1
        /\ x.copied = [c.copied EXCEPT ![a] = f] /\ Moves(c, x)
    <3> HIDE DEF f
    <3> QED
      BY <2>2, <2>3, <1>1 DEF ToolTypes, Moves, Loaded
  <2> QED
    BY <2>2, <2>3, <2>4 DEF Phases, Sealed
<1>20. CASE Report(t) \/ KillRun(t) \/ WriteRecord(t) \/ KillRecord(t)
  BY <1>3, <1>20 DEF Report, KillRun, WriteRecord, KillRecord
<1> QED
  BY <1>7, <1>8, <1>9, <1>10, <1>11, <1>12, <1>13, <1>14, <1>15, <1>16, <1>17, <1>18, <1>19,
     <1>20 DEF ToolNext, RunnerNext, RecorderNext

\* The packet a process works on stays as it was when the process read it, and a run that
\* has closed its first load reports the run of that packet.
Holds(x, p) ==
  /\ x.pc \in Loaded => x.input = p[x.dir].input
  /\ (x.pc # "idle" /\ x.loads # 0) =>
       p[x.dir].input \in Inputs /\ x.run = p[x.dir].input.run
HoldInv == \A t \in Tools : Holds(tool[t], packet)

LEMMA HoldInit == Init => HoldInv
BY IdleShapes DEF Init, HoldInv, Holds, Loaded

LEMMA HoldTool == ASSUME TypeInv, HoldInv, NEW t \in Tools, ToolNext(t) PROVE HoldInv'
<1> DEFINE c == tool[t]
           x == tool'[t]
<1>1. Holds(c, packet) /\ Usable(t, c)
  BY DEF HoldInv, TypeInv, Ready, ToolReady
<1>2. packet' = packet
  BY ToolLeavesPackets
<1>3. Moves(c, x) /\ \A u \in Tools : u # t => tool'[u] = tool[u]
  BY ToolMoves
<1> HIDE DEF c, x
<1>4. Holds(x, packet)
  BY <1>1, <1>3, IdleShapes DEF Moves, Holds, Usable, Loaded
<1>5. ASSUME NEW u \in Tools PROVE Holds(tool'[u], packet')
  BY <1>2, <1>3, <1>4 DEF HoldInv, x
<1> QED
  BY <1>5 DEF HoldInv, Holds

LEMMA HoldStep ==
  ASSUME ~HandEdits, OneAcquirer, TypeInv, PacketInv, HoldInv, [Next]_vars PROVE HoldInv'
<1>1. ASSUME UNCHANGED <<packet, tool>> PROVE HoldInv'
  BY <1>1 DEF HoldInv, Holds
<1>2. CASE UNCHANGED vars \/ Select \/ EditSelection
  BY <1>1, <1>2 DEF vars, files, Select, EditSelection
<1>3. ASSUME NEW a \in Acquirers, AcquirerNext(a) PROVE HoldInv'
  <2>1. tool' = tool
    BY <1>3 DEF AcquirerNext, Acquire, RequireEmptyDirectory, AcquireRow, WriteMachineInput,
       KillAcquirer, OnlyAcquirer
  <2>2. ASSUME NEW t \in Tools PROVE Holds(tool'[t], packet')
    <3>1. Holds(tool[t], packet) /\ Usable(t, tool[t])
      BY DEF HoldInv, TypeInv, Ready, ToolReady
    <3>2. \A d \in Dirs : packet'[d] = packet[d] \/ packet[d].input = None
      BY <1>3, AcquirerWrites
    <3>3. None \notin Inputs
      BY ExamConstants
    <3> QED
      BY <2>1, <3>1, <3>2, <3>3 DEF Holds, Usable, Loaded
  <2> QED
    BY <2>2 DEF HoldInv, Holds
\* A packet directory is cleared only when no process is under way.
<1>4. ASSUME NEW d \in Dirs, ClearPacket(d) PROVE HoldInv'
  <2>1. tool' = tool /\ \A t \in Tools : tool[t].pc = "idle"
    BY <1>4 DEF ClearPacket, Quiet
  <2> QED
    BY <2>1 DEF HoldInv, Holds, Loaded
<1>5. \A d \in Dirs : ~EditPacket(d)
  BY DEF EditPacket
<1>6. CASE Next
  BY <1>2, <1>3, <1>4, <1>5, <1>6, HoldTool DEF Next, ToolNext, Tools
<1> QED
  BY <1>2, <1>6

\* The files of an output directory that a step of a tool changes.
Writes(c, x) ==
  \/ output' = output
  \/ /\ c.pc = "write" /\ c.row \in DOMAIN Order
     /\ \/ output' = [output EXCEPT ![c.out].artifact[Order[c.row]] =
                                        Derived(Order[c.row], c.input)]
        \/ output' = [output EXCEPT ![c.out].artifact[Order[c.row]] = Torn] /\ x = IdleTool
  \/ /\ c.pc = "write" /\ c.row \notin DOMAIN Order
     /\ \/ output' = [output EXCEPT ![c.out].seal = c.input]
        \/ output' = [output EXCEPT ![c.out].seal = Torn] /\ x = IdleTool

LEMMA ToolWrites ==
  ASSUME TypeInv, NEW t \in Tools, ToolNext(t), NEW c, NEW x, c = tool[t], x = tool'[t]
  PROVE  Writes(c, x) /\ (output' # output => c.pc = "write" /\ t \in Runners)
<1>1. tool \in [Tools -> ToolTypes]
  BY TypeSplit DEF TypeInv
<1>2. Usable(t, c)
  BY DEF TypeInv, Ready, ToolReady
<1>3. CASE WriteArtifact(t) \/ WriteSeal(t)
  BY <1>2, <1>3 DEF WriteArtifact, WriteSeal, ToolAt, Writes, Usable
<1>4. CASE KillRun(t)
  BY <1>1, <1>2, <1>4 DEF KillRun, ToolEnds, Writes, Usable
<1>5. CASE ~WriteArtifact(t) /\ ~WriteSeal(t) /\ ~KillRun(t)
  BY <1>5 DEF ToolNext, RunnerNext, RecorderNext, StartRun, LoadInput, LoadRow, CloseLoad,
     RequirePresent, ReadSeal, HashArtifact, CompareHashes, ReadManifest, Report, StartRecord,
     CopyArtifact, WriteRecord, KillRecord, OnlyReads, Writes
<1> QED
  BY <1>3, <1>4, <1>5

\* The artifacts of a directory are derived from the packet of its examination; a process
\* that verifies finds all of them, and what a recorder hashes once more is what its seal
\* lists or was cut short.
ArtifactsCurrent ==
  \A d \in Dirs, a \in Artifacts :
    output[d].artifact[a] \in Contents =>
      d \in begun /\ output[d].artifact[a] = Derived(a, packet[d].input)
Copying(x, o) ==
  /\ x.pc \in Late => \A a \in Artifacts : o[x.out].artifact[a] # None
  /\ x.pc = "copy" =>
       /\ x.row \in Nat \ {0}
       /\ \A k \in DOMAIN Recorded :
            k < x.row => x.copied[Recorded[k]] \in {Derived(Recorded[k], x.seal), Torn}
CopyInv == ArtifactsCurrent /\ (\A t \in Tools : Copying(tool[t], output)) /\ RecordBinds

LEMMA CopyInit == Init => CopyInv
<1> SUFFICES ASSUME Init PROVE CopyInv
  OBVIOUS
<1>1. ArtifactsCurrent
  BY ExamConstants DEF Init, ArtifactsCurrent, NothingRead
<1>2. \A t \in Tools : Copying(tool[t], output)
  BY IdleShapes DEF Init, Copying, Late, Sealed
<1>3. RecordBinds
  BY ExamConstants DEF Init, RecordBinds
<1> QED
  BY <1>1, <1>2, <1>3 DEF CopyInv

LEMMA ArtifactsStay ==
  ASSUME TypeInv, NEW t \in Tools, ToolNext(t), NEW d \in Dirs, NEW a \in Artifacts
  PROVE  \/ output'[d].artifact[a] = output[d].artifact[a]
         \/ output'[d].artifact[a] = Torn
         \/ /\ tool[t].pc = "write" /\ tool[t].out = d /\ tool[t].input \in Inputs
            /\ output'[d].artifact[a] = Derived(a, tool[t].input)
            /\ output'[d].artifact[a] \in Contents
<1>1. /\ output \in [Dirs -> Outputs] /\ Usable(t, tool[t]) /\ Writes(tool[t], tool'[t])
  BY ToolWrites, TypeSplit DEF TypeInv, Ready, ToolReady
<1>2. tool[t].pc = "write" => tool[t].input \in Inputs
  BY <1>1 DEF Usable, Loaded
<1>3. tool[t].input \in Inputs => Derived(a, tool[t].input) \in Contents
  BY DerivedTyped
<1> QED
  BY <1>1, <1>2, <1>3 DEF Writes, Outputs

LEMMA ArtifactsTool ==
  ASSUME OwnOutput, TypeInv, EmitInv, CopyInv, NEW t \in Tools, ToolNext(t)
  PROVE  ArtifactsCurrent' /\ \A d \in Dirs, a \in Artifacts :
           output[d].artifact[a] # None => output'[d].artifact[a] # None
<1>1. packet' = packet /\ begun \subseteq begun'
  <2>1. CASE CloseLoad(t)
    BY <2>1, ToolLeavesPackets DEF CloseLoad, ToolFails, history
  <2>2. CASE ~CloseLoad(t)
    BY <2>2, ToolLeavesPackets DEF ToolNext, RunnerNext, RecorderNext, StartRun, LoadInput,
       LoadRow, WriteArtifact, WriteSeal, RequirePresent, ReadSeal, HashArtifact, CompareHashes,
       ReadManifest, Report, KillRun, StartRecord, CopyArtifact, WriteRecord, KillRecord,
       ToolFails, history
  <2> QED
    BY <2>1, <2>2
<1>2. Torn # None /\ Torn \notin Contents /\ None \notin Contents
  BY ExamConstants
<1>3. tool[t].pc = "write" =>
        tool[t].out = tool[t].dir /\ tool[t].dir \in begun /\ tool[t].input = packet[tool[t].dir].input
  BY DEF EmitInv, ToolsSteady, Steady, TypeInv, Ready, ToolReady, Usable
<1>4. ASSUME NEW d \in Dirs, NEW a \in Artifacts
      PROVE  /\ output[d].artifact[a] # None => output'[d].artifact[a] # None
             /\ output'[d].artifact[a] \in Contents =>
                  d \in begun' /\ output'[d].artifact[a] = Derived(a, packet'[d].input)
  <2>1. \/ output'[d].artifact[a] = output[d].artifact[a]
        \/ output'[d].artifact[a] = Torn
        \/ /\ tool[t].pc = "write" /\ tool[t].out = d /\ tool[t].input \in Inputs
           /\ output'[d].artifact[a] = Derived(a, tool[t].input)
           /\ output'[d].artifact[a] \in Contents
    BY ArtifactsStay
  <2> QED
    BY <2>1, <1>1, <1>2, <1>3 DEF CopyInv, ArtifactsCurrent
<1> QED
  BY <1>4 DEF ArtifactsCurrent, Derived

LEMMA CopyTool ==
  ASSUME OwnOutput, TypeInv, SealInv, EmitInv, HoldInv, CopyInv, NEW t \in Tools, ToolNext(t)
  PROVE  CopyInv'
<1> DEFINE c == tool[t]
           x == tool'[t]
<1>1. ArtifactsCurrent' /\ \A d \in Dirs, a \in Artifacts :
        output[d].artifact[a] # None => output'[d].artifact[a] # None
  BY ArtifactsTool
<1>2. /\ \A u \in Tools : u # t => tool'[u] = tool[u]
      /\ Moves(c, x) /\ Phases(t, c, x)
  BY ToolMoves
<1>3. /\ tool \in [Tools -> ToolTypes] /\ c \in ToolTypes /\ output \in [Dirs -> Outputs]
      /\ Usable(t, c) /\ Steady(c, begun, packet, output) /\ Copying(c, output)
      /\ Holds(c, packet) /\ Bound(c, admitted)
  BY TypeSplit
     DEF TypeInv, Ready, ToolReady, EmitInv, ToolsSteady, CopyInv, HoldInv, SealInv
<1>4. x.pc \in Late => c.pc # "idle" /\ x.out = c.out /\ c.out \in Dirs /\ output' = output
  BY <1>2, <1>3, IdleShapes DEF Moves, Phases, Late, Loaded, Sealed, Usable, OnlyReads
\* Nothing is missing from what a verification has found complete.
<1>5. x.pc \in Late => \A a \in Artifacts : output'[x.out].artifact[a] # None
  <2>1. CASE x.pc = "seal"
    BY <2>1, <1>2, <1>4 DEF Phases, CompleteAndClosed, Late
  <2>2. CASE x.pc \in Sealed
    <3>1. c.pc \in Late
      BY <2>2, <1>2 DEF Phases, Late
    <3> QED
      BY <3>1, <2>2, <1>3, <1>4 DEF Copying, Late
  <2> QED
    BY <2>1, <2>2 DEF Late
<1>6. x.pc = "copy" =>
        /\ x.row \in Nat \ {0}
        /\ \A k \in DOMAIN Recorded :
             k < x.row => x.copied[Recorded[k]] \in {Derived(Recorded[k], x.seal), Torn}
  <2>1. SUFFICES ASSUME x.pc = "copy"
                 PROVE  /\ x.row \in Nat \ {0}
                        /\ \A k \in DOMAIN Recorded :
                             k < x.row =>
                               x.copied[Recorded[k]] \in {Derived(Recorded[k], x.seal), Torn}
    OBVIOUS
  <2>2. \A k \in DOMAIN Recorded : k \in Nat \ {0}
    BY ExamConstants
  <2>3. CASE c.pc = "manifest" /\ x.row = 1
    BY <2>2, <2>3
  <2>4. CASE /\ c.pc = "copy" /\ c.row \in DOMAIN Recorded /\ x.row = c.row + 1
             /\ x.copied = [c.copied EXCEPT ![Recorded[c.row]] =
                                               output[c.out].artifact[Recorded[c.row]]]
    <3> DEFINE a == Recorded[c.row]
               f == output[c.out].artifact[a]
    <3>1. a \in Artifacts /\ a \in Elements(Recorded) /\ c.out \in Dirs
      BY <2>4, <1>3, ElementsOfOrder DEF Usable
    <3>2. f # None /\ f \in Contents \cup {None, Torn}
      BY <3>1, <2>4, <1>3 DEF Copying, Late, Sealed, Outputs
    <3>3. f \in Contents => f = Derived(a, c.seal)
      <4>1. c.seal = packet[c.out].input
        BY <2>4, <1>3 DEF Steady, Sealed
      <4> QED
        BY <4>1, <3>1 DEF CopyInv, ArtifactsCurrent
    <3>4. f \in {Derived(a, c.seal), Torn}
      BY <3>2, <3>3
    <3>5. x.seal = c.seal
      BY <2>1, <2>4, <1>2 DEF Phases, Sealed
    <3>6. c.copied \in [Elements(Recorded) -> Contents \cup {None, Torn}] /\ c.row \in Nat \ {0}
      BY <1>3, <2>4 DEF ToolTypes, Copying
    <3>7. ASSUME NEW k \in DOMAIN Recorded, k < x.row
          PROVE  x.copied[Recorded[k]] \in {Derived(Recorded[k], x.seal), Torn}
      <4>1. Recorded[k] \in Elements(Recorded)
        BY ElementsOfOrder
      <4>2. k < c.row \/ k = c.row
        BY <2>2, <2>4, <3>6, <3>7
      <4>3. CASE Recorded[k] = a
        <5>1. x.copied[Recorded[k]] = f
          BY <4>1, <4>3, <3>6, <2>4
        <5> QED
          BY <5>1, <4>3, <3>4, <3>5
      <4>4. CASE Recorded[k] # a
        <5>1. x.copied[Recorded[k]] = c.copied[Recorded[k]] /\ k < c.row
          BY <4>1, <4>2, <4>4, <3>6, <2>4
        <5> QED
          BY <5>1, <3>5, <2>4, <1>3 DEF Copying
      <4> QED
        BY <4>3, <4>4
    <3>8. x.row \in Nat \ {0}
      BY <2>4, <3>6
    <3> HIDE DEF a, f
    <3> QED
      BY <3>7, <3>8
  <2> QED
    BY <2>1, <2>3, <2>4, <1>2 DEF Phases
<1>7. ASSUME NEW u \in Tools PROVE Copying(tool'[u], output')
  <2>1. CASE u = t
    BY <2>1, <1>5, <1>6 DEF Copying
  <2>2. CASE u # t
    <3>1. tool'[u] = tool[u] /\ Copying(tool[u], output) /\ Usable(u, tool[u])
      BY <2>2, <1>2 DEF CopyInv, TypeInv, Ready, ToolReady
    <3>2. tool[u].pc \in Late => tool[u].out \in Dirs
      BY <3>1 DEF Late, Sealed, Usable
    <3> QED
      BY <3>1, <3>2, <1>1 DEF Copying
  <2> QED
    BY <2>1, <2>2
\* The record is written from what the recorder holds.
<1>8. RecordBinds'
  <2>1. CASE WriteRecord(t)
    <3>1. c.pc = "copy" /\ c.row \notin DOMAIN Recorded
      BY <2>1 DEF WriteRecord, ToolAt
    <3>2. /\ record'.packet = c.input /\ record'.seal = c.seal /\ record'.sealed = c.read
          /\ record'.copied = c.copied
      BY <2>1 DEF WriteRecord
    <3>3. c.input = c.seal
      BY <3>1, <1>3 DEF Holds, Steady, Usable, Loaded, Sealed
    <3>4. c.read = DerivedSet(c.seal)
      BY <3>1, <1>3 DEF Bound, Verified
    <3>5. ASSUME NEW a \in Elements(Recorded) PROVE c.copied[a] \in {c.read[a], Torn}
      <4>1. PICK k \in DOMAIN Recorded : a = Recorded[k]
        BY DEF Elements
      <4>2. c.row \in Nat \ {0} /\ Recorded \in Seq(Artifacts)
        BY <3>1, <1>3, ExamConstants DEF Copying
      <4>3. k < c.row
        BY <3>1, <4>2
      <4>4. c.copied[a] \in {Derived(a, c.seal), Torn}
        BY <3>1, <4>1, <4>3, <1>3 DEF Copying
      <4>5. c.read[a] = Derived(a, c.seal)
        BY <3>4, ElementsOfOrder DEF DerivedSet
      <4> QED
        BY <4>4, <4>5
    <3> QED
      BY <3>2, <3>3, <3>5 DEF RecordBinds
  <2>2. CASE KillRecord(t)
    BY <2>2, ExamConstants DEF KillRecord, CopyInv, RecordBinds
  <2>3. CASE ~WriteRecord(t) /\ ~KillRecord(t)
    <3>1. record' = record
      BY <2>3 DEF ToolNext, RunnerNext, RecorderNext, StartRun, LoadInput, LoadRow, CloseLoad,
         WriteArtifact, WriteSeal, RequirePresent, ReadSeal, HashArtifact, CompareHashes,
         ReadManifest, Report, KillRun, StartRecord, CopyArtifact, OnlyReads
    <3> QED
      BY <3>1 DEF CopyInv, RecordBinds
  <2> QED
    BY <2>1, <2>2, <2>3
<1> QED
  BY <1>1, <1>7, <1>8 DEF CopyInv, Copying, Derived

LEMMA CopyStep ==
  ASSUME ~HandEdits, OneAcquirer, OwnOutput, TypeInv, SealInv, PacketInv, EmitInv, HoldInv, CopyInv,
         [Next]_vars
  PROVE  CopyInv'
<1>1. \A d \in begun : packet'[d] = packet[d]
  BY PacketStep
<1>2. ASSUME UNCHANGED <<output, record, tool, begun>> PROVE CopyInv'
  <2>1. ArtifactsCurrent'
    BY <1>1, <1>2 DEF CopyInv, ArtifactsCurrent, Derived
  <2>2. (\A t \in Tools : Copying(tool'[t], output')) /\ RecordBinds'
    BY <1>2 DEF CopyInv, RecordBinds
  <2> QED
    BY <2>1, <2>2 DEF CopyInv, Copying, Derived
<1>3. CASE UNCHANGED vars
  BY <1>2, <1>3 DEF vars, files, history
<1>4. CASE Select \/ EditSelection \/ \E d \in Dirs : ClearPacket(d) \/ EditPacket(d)
  BY <1>2, <1>4 DEF Select, EditSelection, ClearPacket, EditPacket, history
<1>5. ASSUME NEW a \in Acquirers, AcquirerNext(a) PROVE CopyInv'
  BY <1>2, <1>5 DEF AcquirerNext, Acquire, RequireEmptyDirectory, AcquireRow, WriteMachineInput,
     KillAcquirer, OnlyAcquirer, history
<1>6. CASE Next
  BY <1>4, <1>5, <1>6, CopyTool DEF Next, ToolNext, Tools
<1> QED
  BY <1>3, <1>6

\* A first seal record describes one examination, however many runs and recorders are under
\* way and killed together, when each output directory belongs to one examination, nobody
\* edits by hand and acquisitions do not overlap each other.
THEOREM ExamRecordBinds ==
  ASSUME ~HandEdits, OneAcquirer, OwnOutput PROVE Spec => []RecordBinds
<1> DEFINE Inv == TypeInv /\ SealInv /\ PacketInv /\ EmitInv /\ HoldInv /\ CopyInv
<1>1. Init => Inv
  BY IdleShapes, TypeInit, SealInit, EmitInit, HoldInit, CopyInit DEF Init, PacketInv
<1>2. Inv /\ [Next]_vars => Inv'
  BY TypeStep, SealStep, PacketStep, EmitStep, HoldStep, CopyStep
<1>3. Inv => RecordBinds
  BY DEF CopyInv
<1> HIDE DEF Inv
<1> QED
  BY <1>1, <1>2, <1>3, PTL DEF Spec

-----------------------------------------------------------------------------
(* Exit 0 *)

\* Machine-first runs do not overlap each other.
RunnersApart == ~Overlap \/ \A t, u \in Runners : t = u
Alone == \A t, u \in Runners : t # u => tool[t].pc = "idle" \/ tool[u].pc = "idle"
\* A run has written what it has passed, and finds it unchanged to its end.
Written(x, o) ==
  /\ x.pc = "write" =>
       /\ x.row \in Nat \ {0}
       /\ \A k \in DOMAIN Order :
            k < x.row => o[x.out].artifact[Order[k]] = Derived(Order[k], x.input)
  /\ x.pc \in {"present"} \cup Late =>
       o[x.out].artifact = DerivedSet(x.input) /\ o[x.out].seal = x.input
  /\ x.pc \in Late => ~o[x.out].extra
  /\ x.pc \in {"write", "present"} \cup Late => x.loads # 0
WrittenInv == Alone /\ \A t \in Runners : Written(tool[t], output)

LEMMA WrittenInit == Init => WrittenInv
<1> SUFFICES ASSUME Init PROVE WrittenInv
  OBVIOUS
<1>1. \A t \in Tools : tool[t].pc = "idle"
  BY IdleShapes DEF Init
<1> QED
  BY <1>1 DEF WrittenInv, Alone, Written, Late, Sealed, Tools

LEMMA AloneStep ==
  ASSUME RunnersApart, TypeInv, WrittenInv, NEW t \in Tools, ToolNext(t) PROVE Alone'
<1>1. /\ \A u \in Tools : u # t => tool'[u] = tool[u]
      /\ Moves(tool[t], tool'[t])
  BY ToolMoves
<1>2. tool'[t].pc # "idle" => tool[t].pc # "idle" \/ MayStart
  BY <1>1, IdleShapes DEF Moves, Loaded
<1>3. MayStart /\ ~Overlap => \A u \in Tools : tool[u].pc = "idle"
  BY DEF MayStart, Quiet
<1> QED
  BY <1>1, <1>2, <1>3 DEF RunnersApart, WrittenInv, Alone, Tools

LEMMA WrittenTool ==
  ASSUME RunnersApart, TypeInv, WrittenInv, NEW t \in Tools, ToolNext(t) PROVE WrittenInv'
<1> DEFINE c == tool[t]
           x == tool'[t]
<1>1. /\ \A u \in Tools : u # t => tool'[u] = tool[u]
      /\ Moves(c, x) /\ Phases(t, c, x)
  BY ToolMoves
<1>2. Writes(c, x) /\ (output' # output => c.pc = "write" /\ t \in Runners)
  BY ToolWrites
<1>3. /\ tool \in [Tools -> ToolTypes] /\ c \in ToolTypes /\ output \in [Dirs -> Outputs]
      /\ Usable(t, c) /\ (t \in Runners => t \notin Recorders)
  BY ExamConstants, TypeSplit DEF TypeInv, Ready, ToolReady
<1>4. \A k \in DOMAIN Order : k \in Nat \ {0}
  BY ExamConstants
<1>5. c.pc # "idle" => c.out \in Dirs
  BY <1>3 DEF Usable
<1>6. ASSUME t \in Runners PROVE Written(x, output')
  <2>1. Written(c, output)
    BY <1>6 DEF WrittenInv
  <2>2. CASE x.pc = "write"
    <3>1. CASE c.pc = "rows" /\ x.row = 1 /\ x.loads # 0
      BY <2>2, <3>1, <1>4 DEF Written, Late, Sealed
    <3>2. CASE WriteArtifact(t) /\ c.pc = "write" /\ x.row = c.row + 1
      <4>1. /\ output' = [output EXCEPT ![c.out].artifact[Order[c.row]] =
                                            Derived(Order[c.row], c.input)]
            /\ c.row \in DOMAIN Order /\ c.out \in Dirs
        BY <3>2, <1>5 DEF WriteArtifact
      <4>2. x.out = c.out /\ x.input = c.input /\ x.loads # 0
        BY <2>1, <2>2, <3>2, <1>1, IdleShapes DEF Moves, Written
      <4>3. ASSUME NEW k \in DOMAIN Order, k < x.row
            PROVE  output'[c.out].artifact[Order[k]] = Derived(Order[k], c.input)
        <5>1. Order[k] \in Artifacts /\ Order[c.row] \in Artifacts
          BY <4>1, ElementsOfOrder
        <5>2. k < c.row \/ k = c.row
          BY <3>2, <4>1, <4>3, <1>4
        <5>3. CASE Order[k] = Order[c.row]
          BY <5>1, <5>3, <4>1, <1>3 DEF Outputs
        <5>4. CASE Order[k] # Order[c.row]
          <6>1. k < c.row
            BY <5>2, <5>4
          <6>2. output[c.out].artifact[Order[k]] = Derived(Order[k], c.input)
            BY <6>1, <2>1, <3>2 DEF Written
          <6> QED
            BY <6>2, <5>1, <5>4, <4>1, <1>3 DEF Outputs
        <5> QED
          BY <5>3, <5>4
      <4>4. x.row \in Nat \ {0}
        BY <3>2, <4>1, <1>4
      <4> HIDE DEF c, x
      <4> QED
        BY <2>2, <4>2, <4>3, <4>4 DEF Written, Late, Sealed
    <3> QED
      BY <2>2, <3>1, <3>2, <1>1 DEF Phases
  <2>3. CASE x.pc = "present"
    <3>1. WriteSeal(t)
      BY <2>3, <1>1, <1>3, <1>6 DEF Phases
    <3>2. /\ c.pc = "write" /\ c.row \notin DOMAIN Order /\ c.out \in Dirs
          /\ output' = [output EXCEPT ![c.out].seal = c.input]
      BY <3>1, <1>5 DEF WriteSeal, ToolAt
    <3>3. x.out = c.out /\ x.input = c.input /\ x.loads # 0
      BY <2>1, <2>3, <3>2, <1>1, IdleShapes DEF Moves, Written
    <3>4. ASSUME NEW a \in Artifacts PROVE output[c.out].artifact[a] = Derived(a, c.input)
      <4>1. PICK k \in DOMAIN Order : a = Order[k]
        BY DEF Artifacts, Elements
      <4>2. c.row \in Nat \ {0} /\ Order \in Seq(Artifacts)
        BY <2>1, <3>2, ExamConstants DEF Written
      <4>3. k < c.row
        BY <3>2, <4>2
      <4> QED
        BY <4>1, <4>3, <2>1, <3>2 DEF Written
    <3>5. output[c.out].artifact = DerivedSet(c.input)
      BY <3>2, <3>4, <1>3 DEF Outputs, DerivedSet
    <3>6. output'[c.out].artifact = DerivedSet(c.input) /\ output'[c.out].seal = c.input
      BY <3>2, <3>5, <1>3 DEF Outputs
    <3> HIDE DEF c, x
    <3> QED
      BY <2>3, <3>3, <3>6 DEF Written, Late, Sealed
  <2>4. CASE x.pc \in Late
    <3>1. OnlyReads /\ c.pc \in {"present"} \cup Late
      BY <2>4, <1>1 DEF Phases, Late
    <3>2. x.out = c.out /\ x.input = c.input /\ x.loads # 0 /\ output' = output
      BY <2>1, <2>4, <3>1, <1>1, IdleShapes DEF Moves, Written, Late, Sealed, OnlyReads
    <3>3. ~output[c.out].extra
      <4>1. CASE x.pc = "seal"
        BY <4>1, <1>1 DEF Phases, CompleteAndClosed
      <4>2. CASE x.pc \in Sealed
        <5>1. c.pc \in Late
          BY <4>2, <1>1 DEF Phases, Late
        <5> QED
          BY <5>1, <2>1 DEF Written
      <4> QED
        BY <4>1, <4>2, <2>4 DEF Late
    <3>4. x.pc # "write"
      BY <2>4 DEF Late, Sealed
    <3>5. output[c.out].artifact = DerivedSet(c.input) /\ output[c.out].seal = c.input
      BY <3>1, <2>1 DEF Written
    <3> HIDE DEF c, x
    <3> QED
      BY <3>2, <3>3, <3>4, <3>5 DEF Written
  <2>5. CASE x.pc \notin {"write", "present"} \cup Late
    BY <2>5 DEF Written
  <2> QED
    BY <2>2, <2>3, <2>4, <2>5
<1>7. ASSUME NEW u \in Runners PROVE Written(tool'[u], output')
  <2>1. CASE u = t
    BY <2>1, <1>6
  <2>2. CASE u # t
    <3>1. tool'[u] = tool[u] /\ Written(tool[u], output)
      BY <2>2, <1>1 DEF WrittenInv, Tools
\* Nobody else writes while a run is under way.
    <3>2. CASE output' = output
      BY <3>1, <3>2
    <3>3. CASE output' # output
      <4>1. tool[u].pc = "idle"
        BY <2>2, <3>3, <1>2 DEF WrittenInv, Alone
      <4> QED
        BY <3>1, <4>1 DEF Written, Late, Sealed
    <3> QED
      BY <3>2, <3>3
  <2> QED
    BY <2>1, <2>2
<1> QED
  BY <1>7, AloneStep DEF WrittenInv, Written, DerivedSet, Derived

LEMMA WrittenStep ==
  ASSUME RunnersApart, TypeInv, WrittenInv, [Next]_vars PROVE WrittenInv'
<1>1. ASSUME UNCHANGED <<output, tool>> PROVE WrittenInv'
  BY <1>1 DEF WrittenInv, Alone, Written, DerivedSet, Derived
<1>2. CASE UNCHANGED vars
  BY <1>1, <1>2 DEF vars, files
<1>3. CASE Select \/ EditSelection \/ \E d \in Dirs : ClearPacket(d) \/ EditPacket(d)
  BY <1>1, <1>3 DEF Select, EditSelection, ClearPacket, EditPacket
<1>4. ASSUME NEW a \in Acquirers, AcquirerNext(a) PROVE WrittenInv'
  BY <1>1, <1>4 DEF AcquirerNext, Acquire, RequireEmptyDirectory, AcquireRow, WriteMachineInput,
     KillAcquirer, OnlyAcquirer
<1>5. CASE Next
  BY <1>3, <1>4, <1>5, WrittenTool DEF Next, ToolNext, Tools
<1> QED
  BY <1>2, <1>5

\* When machine-first runs do not overlap each other, acquisitions neither, and nobody edits
\* by hand, a run that is about to exit 0 leaves the complete and closed set of the run it
\* reports, whatever was left in the directory, and in whichever directory it writes.
THEOREM ExamExitZero ==
  ASSUME ~HandEdits, OneAcquirer, RunnersApart PROVE Spec => []ExitZeroNamesACompleteSet
<1> DEFINE Inv == TypeInv /\ PacketInv /\ HoldInv /\ WrittenInv
<1>1. Init => Inv
  BY IdleShapes, TypeInit, HoldInit, WrittenInit DEF Init, PacketInv
<1>2. Inv /\ [Next]_vars => Inv'
  BY TypeStep, PacketStep, HoldStep, WrittenStep
<1>3. Inv => ExitZeroNamesACompleteSet
  <2> SUFFICES ASSUME Inv, NEW t \in Runners, ToolAt(t, "report")
               PROVE  LET o == output[tool[t].out] IN
                        /\ o.seal \in Inputs /\ o.seal.run = tool[t].run
                        /\ o.artifact = DerivedSet(o.seal) /\ ~o.extra
    BY DEF ExitZeroNamesACompleteSet
  <2>1. tool[t].pc = "report" /\ Holds(tool[t], packet) /\ Written(tool[t], output)
    BY DEF ToolAt, HoldInv, WrittenInv, Tools
  <2>2. tool[t].input \in Inputs
    BY <2>1 DEF TypeInv, Ready, ToolReady, Usable, Loaded, Tools
  <2> QED
    BY <2>1, <2>2 DEF Holds, Written, Late, Sealed, Loaded
<1> HIDE DEF Inv
<1> QED
  BY <1>1, <1>2, <1>3, PTL DEF Spec

-----------------------------------------------------------------------------
(* The examination implements HeldOutExam *)

\* Recording is entered from the manifest, which a verification has read.
LEMMA CopyFromManifest ==
  ASSUME TypeInv, NEW t \in Tools, ToolNext(t), tool[t].pc = "manifest", tool'[t].pc = "copy"
  PROVE  ReadManifest(t)
<1>1. tool'[t] # IdleTool
  BY IdleShapes
<1>2. tool \in [Tools -> ToolTypes]
  BY TypeSplit DEF TypeInv
<1>3. ~KillRun(t) /\ ~KillRecord(t)
  BY <1>1, <1>2 DEF KillRun, KillRecord, ToolEnds
<1> QED
  BY <1>3 DEF ToolNext, RunnerNext, RecorderNext, StartRun, LoadInput, LoadRow, CloseLoad,
     WriteArtifact, WriteSeal, RequirePresent, ReadSeal, HashArtifact, CompareHashes, Report,
     StartRecord, CopyArtifact, WriteRecord, ToolAt

\* What is being recorded has verified.
Copies(x, e) == x.pc = "copy" => e[x.out] # None
AttestInv == \A t \in Tools : Copies(tool[t], emitted)

LEMMA AttestInit == Init => AttestInv
BY IdleShapes DEF Init, AttestInv, Copies

LEMMA AttestTool ==
  ASSUME TypeInv, EmitInv, AttestInv, [Next]_vars, NEW t \in Tools, ToolNext(t) PROVE AttestInv'
<1> DEFINE c == tool[t]
           x == tool'[t]
<1>1. /\ \A d \in Dirs : emitted[d] # None => emitted'[d] = emitted[d]
      /\ emitted \in [Dirs -> Inputs \cup {None}] /\ tool \in [Tools -> ToolTypes]
  BY EmittedKept, TypeSplit DEF TypeInv
<1>2. /\ Moves(c, x) /\ Phases(t, c, x) /\ \A u \in Tools : u # t => tool'[u] = tool[u]
  BY ToolMoves
<1>3. \A u \in Tools : Usable(u, tool[u]) /\ Copies(tool[u], emitted)
  BY DEF TypeInv, Ready, ToolReady, AttestInv
<1>4. x.pc = "copy" => x.out = c.out /\ c.out \in Dirs
  BY <1>2, <1>3, IdleShapes DEF Moves, Phases, Usable, Loaded
<1>5. c.pc = "manifest" /\ x.pc = "copy" => emitted'[c.out] # None
  <2> SUFFICES ASSUME c.pc = "manifest", x.pc = "copy" PROVE emitted'[c.out] # None
    OBVIOUS
  <2>1. ReadManifest(t) /\ c.out \in Dirs /\ c.seal \in Inputs /\ None \notin Inputs
    BY CopyFromManifest, <1>3, ExamConstants DEF Usable, Sealed
  <2>2. x # IdleTool
    BY IdleShapes
  <2> QED
    BY <2>1, <2>2, <1>1 DEF ReadManifest, ToolFails, ToolEnds
<1> HIDE DEF c, x
<1>6. Copies(x, emitted')
  <2>1. x.pc = "copy" => c.pc \in {"manifest", "copy"}
    BY <1>2 DEF Phases
  <2>2. c.pc = "copy" => emitted[c.out] # None
    BY <1>3 DEF Copies, c
  <2> QED
    BY <2>1, <2>2, <1>1, <1>4, <1>5 DEF Copies
<1>7. ASSUME NEW u \in Tools PROVE Copies(tool'[u], emitted')
  <2>1. CASE u = t
    BY <2>1, <1>6 DEF x
  <2>2. CASE u # t
    BY <2>2, <1>1, <1>2, <1>3 DEF Copies, Usable
  <2> QED
    BY <2>1, <2>2
<1> QED
  BY <1>7 DEF AttestInv, Copies

LEMMA AttestStep ==
  ASSUME TypeInv, EmitInv, AttestInv, [Next]_vars PROVE AttestInv'
<1>1. CASE UNCHANGED <<tool, emitted>>
  BY <1>1 DEF AttestInv, Copies
<1>2. CASE Select \/ EditSelection \/ \E d \in Dirs : ClearPacket(d) \/ EditPacket(d)
  BY <1>1, <1>2 DEF Select, EditSelection, ClearPacket, EditPacket, history
<1>3. ASSUME NEW a \in Acquirers, AcquirerNext(a) PROVE AttestInv'
  BY <1>1, <1>3 DEF AcquirerNext, Acquire, RequireEmptyDirectory, AcquireRow, WriteMachineInput,
     KillAcquirer, OnlyAcquirer, history
<1> QED
  BY <1>1, <1>2, <1>3, AttestTool DEF Next, ToolNext, Tools, vars, files, history

LEMMA ExamRefineInit == Init => Promise!Init
<1> SUFFICES ASSUME Init PROVE Promise!Init
  OBVIOUS
<1>1. None \notin Records
  BY ExamConstants
<1>2. \A d \in Dirs : BegunWith(d) = None /\ output[d].seal = None
  BY DEF Init, BegunWith
<1> QED
  BY <1>1, <1>2 DEF Init, Promise!Init, Attested

\* The parts of the mapping that a step leaves alone.
LEMMA BegunWithStays ==
  ASSUME begun' = begun, \A d \in begun : packet'[d] = packet[d]
  PROVE  [d \in Dirs |-> BegunWith(d)]' = [d \in Dirs |-> BegunWith(d)]
BY DEF BegunWith

LEMMA SealsStay ==
  ASSUME \A d \in Dirs : output'[d].seal = output[d].seal
  PROVE  [d \in Dirs |-> output[d].seal]' = [d \in Dirs |-> output[d].seal]
OBVIOUS

LEMMA AttestedStays == ASSUME record' = record PROVE Attested' = Attested
BY DEF Attested, DerivedSet, Derived

\* A step of a tool that leaves the files and the history of the examination alone.
LEMMA ExamStutter ==
  ASSUME begun' = begun, \A d \in begun : packet'[d] = packet[d],
         \A d \in Dirs : output'[d].seal = output[d].seal, emitted' = emitted, record' = record
  PROVE  UNCHANGED Promise!vars
BY BegunWithStays, SealsStay, AttestedStays DEF Promise!vars

\* Closing the first load begins the examination with the packet that was loaded.
LEMMA CloseLoadBegins ==
  ASSUME TypeInv, HoldInv, NEW t \in Tools, CloseLoad(t)
  PROVE  [Promise!Next]_(Promise!vars)
<1> DEFINE d == tool[t].dir
<1>1. /\ UNCHANGED <<packet, output, record>> /\ emitted' = emitted
      /\ begun' = begun \/ begun' = begun \cup {d}
  BY DEF CloseLoad, OnlyReads, OnlyTool, ToolFails, history
<1>2. tool[t].pc = "rows" /\ Usable(t, tool[t]) /\ Holds(tool[t], packet)
  BY DEF CloseLoad, ToolAt, TypeInv, Ready, ToolReady, HoldInv
<1>3. d \in Dirs /\ packet[d].input \in Inputs
  BY <1>2 DEF Usable, Loaded, Holds
<1>4. CASE begun' = begun \/ d \in begun
  <2>1. begun' = begun
    BY <1>1, <1>4
  <2> QED
    BY <2>1, <1>1, ExamStutter
<1>5. CASE begun' = begun \cup {d} /\ d \notin begun
  <2>1. BegunWith(d) = None
    BY <1>5 DEF BegunWith
  <2>2. ASSUME NEW e \in Dirs
        PROVE  BegunWith(e)' = IF e = d THEN packet[d].input ELSE BegunWith(e)
    BY <1>1, <1>5 DEF BegunWith
  <2>3. [e \in Dirs |-> BegunWith(e)]' =
          [[e \in Dirs |-> BegunWith(e)] EXCEPT ![d] = packet[d].input]
    BY <2>2
  <2>4. [e \in Dirs |-> output[e].seal]' = [e \in Dirs |-> output[e].seal] /\ Attested' = Attested
    BY <1>1, SealsStay, AttestedStays
  <2>5. Promise!Begin(d, packet[d].input)
    BY <2>1, <2>3, <2>4, <1>1, <1>3 DEF Promise!Begin
  <2> QED
    BY <2>5, <1>3 DEF Promise!Next
<1> QED
  BY <1>1, <1>4, <1>5

\* What a run writes as the seal of its directory is the packet the examination was begun
\* with, whole or cut short.
LEMMA SealWritten ==
  ASSUME TypeInv, NEW o \in Dirs, o \in begun, packet[o].input \in Inputs,
         NEW s \in {packet[o].input, Torn}, output' = [output EXCEPT ![o].seal = s],
         UNCHANGED <<packet, record, begun, emitted>>
  PROVE  [Promise!Next]_(Promise!vars)
<1>1. output \in [Dirs -> Outputs]
  BY TypeSplit DEF TypeInv
<1>2. BegunWith(o) = packet[o].input /\ None \notin Inputs
  BY ExamConstants DEF BegunWith
<1>3. [d \in Dirs |-> output[d].seal]' = [[d \in Dirs |-> output[d].seal] EXCEPT ![o] = s]
  BY <1>1 DEF Outputs
<1>4. [d \in Dirs |-> BegunWith(d)]' = [d \in Dirs |-> BegunWith(d)] /\ Attested' = Attested
  BY BegunWithStays, AttestedStays
<1>5. Promise!Seal(o)
  BY <1>2, <1>3, <1>4 DEF Promise!Seal
<1> QED
  BY <1>5 DEF Promise!Next

LEMMA RunSeals ==
  ASSUME OwnOutput, TypeInv, EmitInv, NEW t \in Tools, WriteSeal(t) \/ KillRun(t)
  PROVE  [Promise!Next]_(Promise!vars)
<1> DEFINE o == tool[t].out
<1>1. UNCHANGED <<packet, record, begun, emitted>>
  BY DEF WriteSeal, KillRun, OnlyTool, history
<1>2. Usable(t, tool[t]) /\ Steady(tool[t], begun, packet, output)
  BY DEF TypeInv, Ready, ToolReady, EmitInv, ToolsSteady
<1>3. output \in [Dirs -> Outputs]
  BY TypeSplit DEF TypeInv
<1>4. CASE \A d \in Dirs : output'[d].seal = output[d].seal
  BY <1>1, <1>4, ExamStutter
<1>5. ASSUME NEW s \in {tool[t].input, Torn}, output' = [output EXCEPT ![o].seal = s],
             tool[t].pc = "write"
      PROVE  [Promise!Next]_(Promise!vars)
  <2>1. o \in Dirs /\ o \in begun /\ packet[o].input = tool[t].input /\ tool[t].input \in Inputs
    BY <1>2, <1>5 DEF Usable, Steady, Loaded
  <2> QED
    BY <2>1, <1>1, <1>5, SealWritten
<1>6. CASE WriteSeal(t)
  BY <1>5, <1>6 DEF WriteSeal, ToolAt
<1>7. CASE KillRun(t)
  <2>1. CASE output' = output
    BY <2>1, <1>4
  <2>2. CASE \E a : output' = [output EXCEPT ![o].artifact[a] = Torn]
    BY <2>2, <1>3, <1>4 DEF Outputs
  <2>3. CASE tool[t].pc = "write" /\ output' = [output EXCEPT ![o].seal = Torn]
    BY <2>3, <1>5
  <2> QED
    BY <2>1, <2>2, <2>3, <1>7 DEF KillRun
<1> QED
  BY <1>6, <1>7

LEMMA ManifestVerifies ==
  ASSUME TypeInv, EmitInv, NEW t \in Tools, ReadManifest(t)
  PROVE  [Promise!Next]_(Promise!vars)
<1> DEFINE o == tool[t].out
<1>1. UNCHANGED <<packet, record, output, begun>>
  BY DEF ReadManifest, OnlyReads, OnlyTool, ToolFails, history
<1>2. tool[t].pc = "manifest" /\ Usable(t, tool[t]) /\ Steady(tool[t], begun, packet, output)
  BY DEF ReadManifest, ToolAt, TypeInv, Ready, ToolReady, EmitInv, ToolsSteady
<1>3. emitted \in [Dirs -> Inputs \cup {None}]
  BY TypeSplit DEF TypeInv
<1>4. /\ o \in Dirs /\ o \in begun /\ output[o].seal # None
      /\ tool[t].seal = BegunWith(o)
  BY <1>2 DEF Usable, Steady, Sealed, BegunWith
<1>5. CASE emitted' = emitted
  BY <1>1, <1>5, ExamStutter
<1>6. CASE emitted[o] = None /\ emitted' = [emitted EXCEPT ![o] = tool[t].seal]
  <2>1. /\ [d \in Dirs |-> BegunWith(d)]' = [d \in Dirs |-> BegunWith(d)] /\ Attested' = Attested
        /\ [d \in Dirs |-> output[d].seal]' = [d \in Dirs |-> output[d].seal]
    BY <1>1, BegunWithStays, AttestedStays, SealsStay
  <2>2. Promise!Verify(o)
    BY <2>1, <1>4, <1>6 DEF Promise!Verify
  <2> QED
    BY <2>2, <1>4 DEF Promise!Next
<1>7. \/ emitted' = emitted
      \/ emitted[o] = None /\ emitted' = [emitted EXCEPT ![o] = tool[t].seal]
  BY <1>3, <1>4 DEF ReadManifest, ToolFails, history
<1> QED
  BY <1>5, <1>6, <1>7

LEMMA RecordAttests ==
  ASSUME OwnOutput, TypeInv, SealInv, EmitInv, HoldInv, AttestInv, NEW t \in Tools, WriteRecord(t),
         t \in Recorders
  PROVE  [Promise!Next]_(Promise!vars)
<1> DEFINE c == tool[t]
           o == c.out
<1>1. UNCHANGED <<packet, output, begun, emitted>>
  BY DEF WriteRecord, OnlyTool, history
<1>2. /\ c.pc = "copy" /\ Usable(t, c) /\ Steady(c, begun, packet, output)
      /\ Holds(c, packet) /\ Bound(c, admitted) /\ Copies(c, emitted) /\ c \in ToolTypes
  BY TypeSplit DEF WriteRecord, ToolAt, TypeInv, Ready, ToolReady, EmitInv, ToolsSteady, HoldInv,
     SealInv, AttestInv
<1>3. /\ o \in Dirs /\ emitted[o] # None /\ emitted[o] = packet[o].input
      /\ c.input = packet[o].input /\ c.seal = packet[o].input /\ c.read = DerivedSet(c.seal)
  BY <1>2 DEF Usable, Steady, Holds, Bound, Copies, EmitInv, EmittedCurrent, Loaded, Sealed, Verified
<1>4. record' \in Records /\ c.selection \in Selections
  BY <1>2 DEF WriteRecord, Usable, Loaded, Sealed, ToolTypes, Records
<1>5. record'.packet = c.input /\ record'.seal = c.seal /\ record'.sealed = c.read
  BY DEF WriteRecord
<1> HIDE DEF c
<1>6. Attested' = [packet |-> emitted[o], seal |-> emitted[o], artifacts |-> emitted[o]]
  <2>1. DerivedSet(record.seal)' = DerivedSet(c.seal)
    BY <1>5 DEF DerivedSet, Derived
  <2> QED
    BY <2>1, <1>3, <1>4, <1>5 DEF Attested
<1>7. /\ [d \in Dirs |-> BegunWith(d)]' = [d \in Dirs |-> BegunWith(d)]
      /\ [d \in Dirs |-> output[d].seal]' = [d \in Dirs |-> output[d].seal]
  BY <1>1, BegunWithStays, SealsStay
<1>8. Promise!Attest(o)
  BY <1>1, <1>3, <1>6, <1>7 DEF Promise!Attest
<1> QED
  BY <1>3, <1>8 DEF Promise!Next

LEMMA KilledRecordDestroys ==
  ASSUME NEW t \in Tools, KillRecord(t) PROVE [Promise!Next]_(Promise!vars)
<1>1. UNCHANGED <<packet, output, begun, emitted>>
  BY DEF KillRecord, OnlyTool, history
<1>2. CASE record' = record
  BY <1>1, <1>2, ExamStutter
<1>3. CASE record' = Torn
  <2>1. Torn \notin Records
    BY ExamConstants
  <2>2. Attested' = None
    BY <2>1, <1>3 DEF Attested
  <2>3. /\ [d \in Dirs |-> BegunWith(d)]' = [d \in Dirs |-> BegunWith(d)]
        /\ [d \in Dirs |-> output[d].seal]' = [d \in Dirs |-> output[d].seal]
    BY <1>1, BegunWithStays, SealsStay
  <2>4. Promise!Destroy
    BY <2>2, <2>3, <1>1 DEF Promise!Destroy
  <2> QED
    BY <2>4 DEF Promise!Next
<1> QED
  BY <1>2, <1>3 DEF KillRecord

LEMMA ExamToolRefines ==
  ASSUME ~HandEdits, OneAcquirer, OwnOutput, TypeInv, SealInv, PacketInv, EmitInv, HoldInv, AttestInv,
         [Next]_vars, NEW t \in Tools, ToolNext(t)
  PROVE  [Promise!Next]_(Promise!vars)
<1>1. \A d \in begun : packet'[d] = packet[d]
  BY PacketStep
<1>2. output \in [Dirs -> Outputs]
  BY TypeSplit DEF TypeInv
<1>3. CASE WriteArtifact(t)
  <2>1. \A d \in Dirs : output'[d].seal = output[d].seal
    BY <1>2, <1>3 DEF WriteArtifact, Outputs
  <2> QED
    BY <2>1, <1>1, <1>3, ExamStutter DEF WriteArtifact, history
<1>4. CASE CloseLoad(t)
  BY <1>4, CloseLoadBegins
<1>5. CASE WriteSeal(t) \/ KillRun(t)
  BY <1>5, RunSeals
<1>6. CASE ReadManifest(t)
  BY <1>6, ManifestVerifies
<1>7. CASE t \in Recorders /\ WriteRecord(t)
  BY <1>7, RecordAttests
<1>8. CASE KillRecord(t)
  BY <1>8, KilledRecordDestroys
<1>9. CASE \/ StartRun(t) \/ LoadInput(t) \/ LoadRow(t) \/ RequirePresent(t) \/ ReadSeal(t)
           \/ HashArtifact(t) \/ CompareHashes(t) \/ Report(t) \/ StartRecord(t) \/ CopyArtifact(t)
  <2>1. UNCHANGED <<output, record, begun, emitted>>
    BY <1>9 DEF StartRun, LoadInput, LoadRow, RequirePresent, ReadSeal, HashArtifact,
       CompareHashes, Report, StartRecord, CopyArtifact, OnlyReads, ToolFails, history
  <2> QED
    BY <2>1, <1>1, ExamStutter
<1> QED
  BY <1>3, <1>4, <1>5, <1>6, <1>7, <1>8, <1>9 DEF ToolNext, RunnerNext, RecorderNext

LEMMA ExamRefineStep ==
  ASSUME ~HandEdits, OneAcquirer, OwnOutput, TypeInv, SealInv, PacketInv, EmitInv, HoldInv, AttestInv,
         [Next]_vars
  PROVE  [Promise!Next]_(Promise!vars)
<1>1. \A d \in begun : packet'[d] = packet[d]
  BY PacketStep
<1>2. CASE UNCHANGED <<output, record, begun, emitted>>
  BY <1>1, <1>2, ExamStutter
<1>3. CASE Select \/ EditSelection \/ \E d \in Dirs : ClearPacket(d) \/ EditPacket(d)
  BY <1>2, <1>3 DEF Select, EditSelection, ClearPacket, EditPacket, history
<1>4. ASSUME NEW a \in Acquirers, AcquirerNext(a) PROVE [Promise!Next]_(Promise!vars)
  BY <1>2, <1>4 DEF AcquirerNext, Acquire, RequireEmptyDirectory, AcquireRow, WriteMachineInput,
     KillAcquirer, OnlyAcquirer, history
<1>5. ASSUME NEW t \in Tools, ToolNext(t) PROVE [Promise!Next]_(Promise!vars)
  BY <1>5, ExamToolRefines
<1>6. CASE UNCHANGED vars
  BY <1>2, <1>6 DEF vars, files, history
<1> QED
  BY <1>3, <1>4, <1>5, <1>6 DEF Next, ToolNext, Tools

\* When each output directory belongs to one examination, nobody edits by hand and
\* acquisitions do not overlap each other, the tools implement HeldOutExam: an examination
\* keeps the packet it was begun with, every seal of it is the seal of that packet or was
\* cut short, and a record attests only an examination that verified, with its one packet.
THEOREM ExamImplementsPromise ==
  ASSUME ~HandEdits, OneAcquirer, OwnOutput PROVE Spec => ImplementsExam
<1> DEFINE Inv == TypeInv /\ SealInv /\ PacketInv /\ EmitInv /\ HoldInv /\ AttestInv
<1>1. Init => Inv
  BY IdleShapes, TypeInit, SealInit, EmitInit, HoldInit, AttestInit DEF Init, PacketInv
<1>2. Inv /\ [Next]_vars => Inv'
  BY TypeStep, SealStep, PacketStep, EmitStep, HoldStep, AttestStep
<1>3. Inv /\ [Next]_vars => [Promise!Next]_(Promise!vars)
  BY ExamRefineStep
<1> HIDE DEF Inv
<1> QED
  BY <1>1, <1>2, <1>3, ExamRefineInit, PTL DEF Spec, ImplementsExam, Promise!Spec
=============================================================================
