---------------------------- MODULE UntrimProofs ----------------------------
(***************************************************************************)
(* Proofs about the command that untrims a model and about the lines its   *)
(* second stage cuts a quad mesh along:                                    *)
(*  - Pipeline, for every set of models, every number of processes, and    *)
(*    with or without failing writes;                                      *)
(*  - PatchLines, for every manifold quad mesh: each port of a singularity *)
(*    is the end of one straight line, and a line that arrives finds the   *)
(*    port it strikes.                                                     *)
(***************************************************************************)
EXTENDS Pipeline, PatchLines, RecursionTheorems, TLAPS

(* There are six files, one per step. *)
LEMMA SixSteps == Steps = 1 .. 6
  BY DEF Steps, File

LEMMA FirstStepType == ASSUME NEW p \in Processes PROVE First(p) \in Steps
  <1>1. p.run_from \in 0 .. 4 /\ p.cmd \in Commands
    BY DEF Processes
  <1>2. FirstStep \in [0 .. 4 -> Steps]
    BY SixSteps DEF FirstStep, Stl, Fix, Patch, Pat, Out
  <1>. QED  BY <1>1, <1>2, SixSteps DEF First, Patch

(* A running process is a process. *)
LEMMA RunningType == TypeOK /\ Running => proc \in Processes
  BY DEF TypeOK, Running, NoProcess

-----------------------------------------------------------------------------
LEMMA PipelineInitTypeOK == PipelineInit => TypeOK
  BY SixSteps, PipelineAssumption DEF PipelineInit, TypeOK, Contents, NoFile

LEMMA InputType == TypeOK /\ Running /\ proc.step \in Steps => Input \in Contents
  <1> SUFFICES ASSUME TypeOK, Running PROVE Input \in Contents
    OBVIOUS
  <1>1. proc \in Processes
    BY RunningType
  <1>2. proc.step \in 1 .. 6 /\ proc.model \in Models
    BY <1>1, SixSteps DEF Processes
  <1>3. CASE ReadsModel
    BY <1>2, <1>3 DEF Input, Contents, NoFile
  <1>4. CASE ~ReadsModel
    <2>1. proc.step - 1 \in Steps
      BY <1>2, <1>4, SixSteps DEF ReadsModel, Stl
    <2>. QED  BY <1>4, <2>1 DEF Input, TypeOK
  <1>. QED  BY <1>3, <1>4

LEMMA PipelineStepTypeOK == TypeOK /\ [PipelineNext]_pipeline_vars => TypeOK'
  <1> SUFFICES ASSUME TypeOK, [PipelineNext]_pipeline_vars PROVE TypeOK'
    OBVIOUS
  <1> USE DEF TypeOK
  <1>1. ASSUME NEW m \in Models, NEW r \in 0 .. UnknownStage, StartUntrim(m, r)
        PROVE  TypeOK'
    <2>1. runs' \in 0 .. MaxRuns
      BY <1>1, PipelineAssumption DEF StartUntrim
    <2>2. CASE proc' = NoProcess
      BY <1>1, <2>1, <2>2 DEF StartUntrim
    <2>3. CASE r \in 0 .. 4 /\ Start("untrim", m, r) /\ exit' = "none"
      <3>1. FirstStep[r] \in Steps /\ (r # 0 => FirstStep[r] - 1 \in Steps)
        BY <2>3, SixSteps DEF FirstStep, Stl, Fix, Patch, Pat, Out
      <3>2. proc' \in Processes
        BY <2>3, <3>1 DEF Start, Processes, Commands, Contents
      <3>. QED  BY <1>1, <2>1, <2>3, <3>2 DEF StartUntrim
    <2>. QED  BY <1>1, <2>2, <2>3 DEF StartUntrim, UnknownStage
  <1>2. ASSUME NEW m \in Models, StartStl2cad(m)
        PROVE  TypeOK'
    <2>1. runs' \in 0 .. MaxRuns
      BY <1>2, PipelineAssumption DEF StartStl2cad
    <2>2. proc' \in Processes
      BY <1>2, SixSteps DEF StartStl2cad, Start, Processes, Commands, Contents, Patch
    <2>. QED  BY <1>2, <2>1, <2>2 DEF StartStl2cad
  <1>3. ASSUME Running, NEW t \in SUBSET Troubles, Advance(t),
               disk' \in [Steps -> Contents], UNCHANGED runs
        PROVE  TypeOK'
    <2>1. proc \in Processes
      BY <1>3, RunningType
    <2>2. proc' \in Processes
      <3>1. proc.trouble \union t \in SUBSET Troubles /\ proc.step \in 1 .. 6
        BY <1>3, <2>1, SixSteps DEF Processes
      <3>2. CASE proc.step = Out
        <4>1. proc' = [proc EXCEPT !.phase = "ended", !.trouble = @ \union t]
          BY <1>3, <3>2 DEF Advance
        <4>. QED  BY <2>1, <3>1, <4>1 DEF Processes
      <3>3. CASE proc.step # Out
        <4>1. proc' = [proc EXCEPT !.step = @ + 1, !.phase = "read", !.trouble = @ \union t]
          BY <1>3, <3>3 DEF Advance
        <4>2. proc.step + 1 \in Steps
          BY <3>1, <3>3, SixSteps DEF Out
        <4>. QED  BY <2>1, <3>1, <4>1, <4>2 DEF Processes
      <3>. QED  BY <3>2, <3>3
    <2>. QED  BY <1>3, <2>2 DEF Advance, Contents, NoFile
  <1>4. ASSUME Running, NEW how \in {"failed", "aborted", "crashed"}, End(how),
               UNCHANGED <<disk, runs>>
        PROVE  TypeOK'
    BY <1>4, RunningType DEF End, Processes, Contents, NoFile
  <1>5. ASSUME Running, NEW result \in Contents, NEW t \in SUBSET Troubles,
               Computed(result, t)
        PROVE  TypeOK'
    BY <1>5, RunningType DEF Computed, Processes
  <1>6. CASE Compute
    <2>1. Input \in Contents
      BY <1>6, RunningType, InputType DEF Compute, Processes
    <2>2. [Input EXCEPT !.sound = FALSE] \in Contents
      BY <2>1, <1>6 DEF Compute, Contents
    <2>. QED  BY <1>6, <2>1, <2>2, <1>5 DEF Compute, Troubles
  <1>7. CASE NoInput
    <2>1. [from |-> proc.model, sound |-> FALSE] \in Contents
      BY <1>7, RunningType DEF NoInput, Processes, Contents
    <2>. QED  BY <1>7, <2>1, <1>3, <1>4, <1>5 DEF NoInput, Troubles
  <1>8. CASE Open
    <2>1. [from |-> mem.from, sound |-> FALSE] \in Contents
      BY DEF Contents, NoFile
    <2>. QED  BY <1>8, <2>1, RunningType DEF Open, Processes
  <1>9. CASE OpenFails
    BY <1>9, <1>3 DEF OpenFails, Troubles
  <1>10. CASE Write
    BY <1>10, <1>3, RunningType DEF Write, Troubles, Processes
  <1>11. CASE Crash
    BY <1>11, <1>4 DEF Crash
  <1>12. CASE UNCHANGED pipeline_vars
    BY <1>12 DEF pipeline_vars
  <1>. QED
    BY <1>1, <1>2, <1>6, <1>7, <1>8, <1>9, <1>10, <1>11, <1>12 DEF PipelineNext

(* The state stays well typed, whatever the models and the number of runs. *)
THEOREM TypeCorrect == PipelineSpec => []TypeOK
  BY PipelineInitTypeOK, PipelineStepTypeOK, PTL DEF PipelineSpec

-----------------------------------------------------------------------------
(***************************************************************************)
(* Why a run that had no trouble is faithful: what a resumed run starts    *)
(* from stays on disk under it, the steps it completed are computed from   *)
(* there, and so is what it holds in memory and is about to write.         *)
(***************************************************************************)
StartedOn(p) ==
  /\ p.step >= First(p)
  /\ p.cmd = "stl2cad" => p.run_from = 0
  /\ p.run_from = 0 => p.origin = [from |-> p.model, sound |-> TRUE]
  /\ p.run_from # 0 => disk[First(p) - 1] = p.origin

Carries(p) ==
  p.trouble = {} =>
    /\ \A i \in First(p) .. p.step - 1 : disk[i] = p.origin
    /\ p.phase \in {"open", "write"} => mem = p.origin

EndedWell ==
  exit = "ok" => /\ proc \in Processes
                 /\ proc.phase = "ended" /\ proc.step = Out
                 /\ proc.trouble = {} => disk[Out] = proc.origin

FaithfulInv ==
  /\ TypeOK
  /\ proc # NoProcess => StartedOn(proc) /\ Carries(proc)
  /\ EndedWell

LEMMA InitFaithful == PipelineInit => FaithfulInv
  BY PipelineInitTypeOK DEF PipelineInit, FaithfulInv, EndedWell

LEMMA RunningFaithful ==
  FaithfulInv /\ Running =>
    /\ TypeOK /\ proc \in Processes /\ proc # NoProcess
    /\ proc.step \in 1 .. 6 /\ First(proc) \in 1 .. proc.step
    /\ StartedOn(proc) /\ Carries(proc) /\ exit # "ok"
  <1> SUFFICES ASSUME FaithfulInv, Running
               PROVE  /\ TypeOK /\ proc \in Processes /\ proc # NoProcess
                      /\ proc.step \in 1 .. 6 /\ First(proc) \in 1 .. proc.step
                      /\ StartedOn(proc) /\ Carries(proc) /\ exit # "ok"
    OBVIOUS
  <1>1. TypeOK /\ proc \in Processes
    BY RunningType DEF FaithfulInv
  <1>2. proc # NoProcess
    BY DEF Running, NoProcess
  <1>3. StartedOn(proc) /\ Carries(proc)
    BY <1>2 DEF FaithfulInv
  <1>4. proc.step \in 1 .. 6
    BY <1>1, SixSteps DEF Processes
  <1>5. First(proc) \in 1 .. 6 /\ First(proc) <= proc.step
    BY <1>1, <1>3, SixSteps, FirstStepType DEF StartedOn
  <1>6. exit # "ok"
    BY DEF FaithfulInv, EndedWell, Running
  <1>. QED  BY <1>1, <1>2, <1>3, <1>4, <1>5, <1>6

(* What a step of a run without trouble reads is what it should read. *)
LEMMA InputIsOrigin ==
  FaithfulInv /\ Running /\ proc.trouble = {} /\ Input # NoFile => Input = proc.origin
  <1> SUFFICES ASSUME FaithfulInv, Running, proc.trouble = {}, Input # NoFile
               PROVE  Input = proc.origin
    OBVIOUS
  <1>1. /\ proc \in Processes /\ proc.step \in 1 .. 6
        /\ First(proc) \in 1 .. proc.step /\ StartedOn(proc) /\ Carries(proc)
    BY RunningFaithful
  <1>2. proc.run_from \in 0 .. 4 /\ proc.cmd \in Commands
    BY <1>1 DEF Processes
  <1>3. CASE ReadsModel
    <2>1. proc.run_from = 0
      BY <1>1, <1>2, <1>3 DEF ReadsModel, StartedOn, First, FirstStep, Stl, Fix, Patch, Pat, Out
    <2>. QED  BY <1>1, <1>3, <2>1 DEF Input, StartedOn
  <1>4. CASE ~ReadsModel /\ proc.step = First(proc)
    <2>1. proc.run_from # 0
      BY <1>1, <1>2, <1>4 DEF ReadsModel, First, FirstStep, Commands, StartedOn, Stl
    <2>. QED  BY <1>1, <1>4, <2>1 DEF Input, StartedOn
  <1>5. CASE ~ReadsModel /\ proc.step # First(proc)
    <2>1. proc.step - 1 \in First(proc) .. proc.step - 1
      BY <1>1, <1>5
    <2>. QED  BY <1>1, <1>5, <2>1 DEF Input, Carries
  <1>. QED  BY <1>3, <1>4, <1>5

(* A process of the same command line, at the same step or a later one, on a *)
(* disk that differs only at its step, is started on the same files.         *)
LEMMA StaysStartedOn ==
  ASSUME FaithfulInv, Running, proc' \in Processes,
         UNCHANGED <<proc.cmd, proc.model, proc.run_from, proc.origin>>,
         proc'.step >= proc.step,
         \A i \in 1 .. proc.step - 1 : disk'[i] = disk[i]
  PROVE  First(proc') = First(proc) /\ StartedOn(proc)'
  <1>1. /\ proc \in Processes /\ proc.step \in 1 .. 6
        /\ First(proc) \in 1 .. proc.step /\ StartedOn(proc)
    BY RunningFaithful
  <1>2. First(proc') = First(proc)
    BY DEF First
  <1>3. proc'.step \in 1 .. 6
    BY SixSteps DEF Processes
  <1>4. First(proc') - 1 \in 1 .. proc.step - 1 \/ First(proc') = 1
    BY <1>1, <1>2
  <1>5. First(proc) = 1 => proc.run_from = 0
    BY <1>1 DEF First, FirstStep, Processes, Stl, Fix, Patch, Pat, Out
  <1>. QED  BY <1>1, <1>2, <1>3, <1>4, <1>5 DEF StartedOn

(* Going on with the next stage keeps the invariant when the file of this    *)
(* stage is its origin, or something went wrong.                             *)
LEMMA AdvanceFaithful ==
  ASSUME FaithfulInv, Running, TypeOK', NEW t \in SUBSET Troubles, Advance(t),
         \A i \in 1 .. proc.step - 1 : disk'[i] = disk[i],
         proc.trouble \union t = {} => disk'[proc.step] = proc.origin
  PROVE  FaithfulInv'
  <1>1. /\ proc \in Processes /\ proc.step \in 1 .. 6 /\ exit # "ok"
        /\ First(proc) \in 1 .. proc.step /\ Carries(proc)
    BY RunningFaithful
  <1>2. /\ UNCHANGED <<proc.cmd, proc.model, proc.run_from, proc.origin>>
        /\ proc'.trouble = proc.trouble \union t
        /\ proc.step = Out => proc'.step = Out /\ proc'.phase = "ended" /\ exit' = "ok"
        /\ proc.step # Out => /\ proc'.step = proc.step + 1 /\ proc'.phase = "read"
                              /\ exit' = exit
    BY <1>1 DEF Advance, Processes
  <1>3. proc' \in Processes
    <2>1. proc' # NoProcess
      BY <1>1 DEF Advance, Processes, NoProcess
    <2>. QED  BY <2>1 DEF TypeOK
  <1>4. proc'.step >= proc.step /\ proc'.step <= proc.step + 1
    BY <1>1, <1>2
  <1>5. First(proc') = First(proc) /\ StartedOn(proc)'
    BY <1>2, <1>3, <1>4, StaysStartedOn
  <1>6. Carries(proc)'
    <2> SUFFICES ASSUME proc'.trouble = {}
                 PROVE  \A i \in First(proc') .. proc'.step - 1 : disk'[i] = proc'.origin
      BY <1>2, <1>1, <1>3 DEF Carries
    <2>1. \A i \in First(proc) .. proc.step - 1 : disk'[i] = proc.origin
      BY <1>1, <1>2 DEF Carries
    <2>2. disk'[proc.step] = proc.origin
      BY <1>2
    <2>. QED  BY <1>1, <1>2, <1>4, <1>5, <2>1, <2>2
  <1>7. EndedWell'
    BY <1>1, <1>2, <1>3 DEF EndedWell
  <1>. QED  BY <1>5, <1>6, <1>7 DEF FaithfulInv

(* So does moving to the next phase of the same stage.                       *)
LEMMA PhaseFaithful ==
  ASSUME FaithfulInv, Running, TypeOK', proc' \in Processes,
         UNCHANGED <<proc.cmd, proc.model, proc.run_from, proc.origin, proc.step>>,
         exit' = exit,
         \A i \in 1 .. proc.step - 1 : disk'[i] = disk[i],
         proc'.trouble = {} => proc.trouble = {} /\ mem' = proc.origin
  PROVE  FaithfulInv'
  <1>1. /\ proc \in Processes /\ proc.step \in 1 .. 6 /\ exit # "ok"
        /\ First(proc) \in 1 .. proc.step /\ Carries(proc)
    BY RunningFaithful
  <1>2. First(proc') = First(proc) /\ StartedOn(proc)'
    BY <1>1, StaysStartedOn
  <1>3. Carries(proc)'
    BY <1>1, <1>2 DEF Carries
  <1>4. EndedWell'
    BY <1>1 DEF EndedWell
  <1>. QED  BY <1>2, <1>3, <1>4 DEF FaithfulInv

LEMMA ComputedFaithful ==
  ASSUME FaithfulInv, Running, TypeOK', NEW result, NEW t \in SUBSET Troubles,
         Computed(result, t),
         proc.trouble \union t = {} => result = proc.origin
  PROVE  FaithfulInv'
  <1>1. proc \in Processes
    BY RunningFaithful
  <1>2. /\ proc' \in Processes
        /\ UNCHANGED <<proc.cmd, proc.model, proc.run_from, proc.origin, proc.step>>
        /\ proc'.trouble = proc.trouble \union t
    BY <1>1 DEF Computed, Processes
  <1>3. mem' = result /\ disk' = disk /\ exit' = exit
    BY DEF Computed
  <1>. QED  BY <1>2, <1>3, PhaseFaithful

LEMMA EndFaithful ==
  ASSUME FaithfulInv, Running, TypeOK', NEW how, how # "ok", End(how), disk' = disk
  PROVE  FaithfulInv'
  <1>1. /\ proc \in Processes /\ proc.step \in 1 .. 6
        /\ First(proc) \in 1 .. proc.step /\ Carries(proc)
    BY RunningFaithful
  <1>2. /\ UNCHANGED <<proc.cmd, proc.model, proc.run_from, proc.origin, proc.step>>
        /\ proc'.trouble = proc.trouble /\ proc'.phase = "ended" /\ exit' = how
    BY <1>1 DEF Processes, End
  <1>3. proc' \in Processes
    BY <1>1 DEF Processes, End
  <1>4. First(proc') = First(proc) /\ StartedOn(proc)'
    BY <1>1, <1>2, <1>3, StaysStartedOn
  <1>5. Carries(proc)'
    BY <1>1, <1>2, <1>4 DEF Carries
  <1>6. EndedWell'
    BY <1>2 DEF EndedWell
  <1>. QED  BY <1>4, <1>5, <1>6 DEF FaithfulInv

(* A process that starts has completed nothing yet.                          *)
LEMMA StartFaithful ==
  ASSUME FaithfulInv, TypeOK', NEW cmd \in Commands, NEW m \in Models, NEW r \in 0 .. 4,
         cmd = "stl2cad" => r = 0,
         Start(cmd, m, r), exit' = "none", disk' = disk
  PROVE  FaithfulInv'
  <1>1. /\ proc'.cmd = cmd /\ proc'.model = m /\ proc'.run_from = r
        /\ proc'.phase = "read" /\ proc'.step = First(proc')
        /\ proc'.origin = IF r = 0 THEN [from |-> m, sound |-> TRUE]
                                   ELSE disk[FirstStep[r] - 1]
    BY DEF Start, First
  <1>2. First(proc') \in 1 .. 6
    BY <1>1, SixSteps DEF First, FirstStep, Stl, Fix, Patch, Pat, Out
  <1>3. r # 0 => First(proc') = FirstStep[r]
    BY <1>1 DEF First
  <1>4. StartedOn(proc)'
    BY <1>1, <1>2, <1>3 DEF StartedOn
  <1>5. Carries(proc)'
    BY <1>1, <1>2 DEF Carries
  <1>6. EndedWell'
    BY DEF EndedWell
  <1>. QED  BY <1>4, <1>5, <1>6 DEF FaithfulInv

LEMMA StepFaithful == FaithfulInv /\ [PipelineNext]_pipeline_vars => FaithfulInv'
  <1> SUFFICES ASSUME FaithfulInv, [PipelineNext]_pipeline_vars PROVE FaithfulInv'
    OBVIOUS
  <1>1. TypeOK /\ TypeOK'
    BY PipelineStepTypeOK DEF FaithfulInv
  <1>2. ASSUME NEW m \in Models, NEW r \in 0 .. UnknownStage, StartUntrim(m, r)
        PROVE  FaithfulInv'
    <2>1. CASE proc' = NoProcess /\ exit' = "refused"
      BY <1>1, <2>1 DEF FaithfulInv, EndedWell
    <2>2. CASE r \in 0 .. 4 /\ Start("untrim", m, r) /\ exit' = "none"
      BY <1>1, <1>2, <2>2, StartFaithful DEF StartUntrim, Commands
    <2>. QED  BY <1>2, <2>1, <2>2 DEF StartUntrim, UnknownStage
  <1>3. ASSUME NEW m \in Models, StartStl2cad(m)
        PROVE  FaithfulInv'
    BY <1>1, <1>3, StartFaithful DEF StartStl2cad, Commands
  <1>4. CASE Compute
    <2>1. Running /\ Input # NoFile /\ proc \in Processes
      BY <1>4, RunningFaithful DEF Compute
    <2>2. CASE Computed(Input, {})
      BY <1>1, <2>1, <2>2, InputIsOrigin, ComputedFaithful
    <2>3. CASE Computed([Input EXCEPT !.sound = FALSE], {"fit"})
      BY <1>1, <2>1, <2>3, ComputedFaithful DEF Troubles
    <2>. QED  BY <1>4, <2>2, <2>3 DEF Compute
  <1>5. CASE NoInput
    <2>1. Running
      BY <1>5 DEF NoInput
    <2>2. CASE Advance({"skip"}) /\ disk' = disk
      BY <1>1, <2>1, <2>2, AdvanceFaithful DEF Troubles
    <2>3. CASE End("failed") /\ disk' = disk
      BY <1>1, <2>1, <2>3, EndFaithful
    <2>4. CASE Computed([from |-> proc.model, sound |-> FALSE], {"skip"})
      BY <1>1, <2>1, <2>4, ComputedFaithful DEF Troubles
    <2>5. CASE End("aborted") /\ disk' = disk
      BY <1>1, <2>1, <2>5, EndFaithful
    <2>. QED  BY <1>5, <2>2, <2>3, <2>4, <2>5 DEF NoInput
  <1>6. CASE Open
    <2>1. /\ Running /\ proc \in Processes /\ Carries(proc) /\ proc.phase = "open"
          /\ proc.step \in 1 .. 6
      BY <1>6, RunningFaithful DEF Open
    <2>2. /\ proc' \in Processes
          /\ UNCHANGED <<proc.cmd, proc.model, proc.run_from, proc.origin, proc.step,
                        proc.trouble>>
      BY <1>6, <2>1 DEF Open, Processes
    <2>3. \A i \in 1 .. proc.step - 1 : disk'[i] = disk[i]
      BY <1>1, <1>6, <2>1, SixSteps DEF Open, TypeOK
    <2>4. proc'.trouble = {} => proc.trouble = {} /\ mem' = proc.origin
      BY <1>6, <2>2, <2>1 DEF Open, Carries
    <2>. QED  BY <1>1, <1>6, <2>1, <2>2, <2>3, <2>4, PhaseFaithful DEF Open
  <1>7. CASE OpenFails
    BY <1>1, <1>7, AdvanceFaithful DEF OpenFails, Troubles
  <1>8. CASE Write
    <2>1. /\ Running /\ proc \in Processes /\ Carries(proc) /\ proc.phase = "write"
          /\ proc.step \in 1 .. 6
      BY <1>8, RunningFaithful DEF Write
    <2>2. disk'[proc.step] = mem /\ \A i \in 1 .. proc.step - 1 : disk'[i] = disk[i]
      BY <1>1, <1>8, <2>1, SixSteps DEF Write, TypeOK
    <2>. QED  BY <1>1, <1>8, <2>1, <2>2, AdvanceFaithful DEF Write, Carries
  <1>9. CASE Crash
    BY <1>1, <1>9, EndFaithful DEF Crash
  <1>10. CASE UNCHANGED pipeline_vars
    BY <1>10 DEF pipeline_vars, FaithfulInv, TypeOK, StartedOn, Carries, EndedWell, First
  <1>. QED
    BY <1>2, <1>3, <1>4, <1>5, <1>6, <1>7, <1>8, <1>9, <1>10 DEF PipelineNext

LEMMA FaithfulInvariant == PipelineSpec => []FaithfulInv
  BY InitFaithful, StepFaithful, PTL DEF PipelineSpec

(* A process that returned 0 with nothing gone wrong on the way left a STEP  *)
(* file computed from what it was started on, in whatever state the earlier  *)
(* processes left the directory.                                             *)
THEOREM QuietRunsAreFaithful == PipelineSpec => []QuietRunIsFaithful
  <1>1. FaithfulInv => QuietRunIsFaithful
    BY DEF FaithfulInv, EndedWell, QuietRunIsFaithful
  <1>. QED  BY FaithfulInvariant, <1>1, PTL

(* Wherever a process without trouble stops, its completed steps are on disk.*)
THEOREM StepsSurvive == PipelineSpec => []CompletedStepsSurvive
  <1>1. FaithfulInv => CompletedStepsSurvive
    BY DEF FaithfulInv, Carries, CompletedStepsSurvive
  <1>. QED  BY FaithfulInvariant, <1>1, PTL

(* No stage touches a file of a stage before the one it was started at.      *)
THEOREM EarlierFilesAreKept == PipelineSpec => ResumeKeepsEarlierFiles
  <1>1. FaithfulInv /\ [PipelineNext]_pipeline_vars
          => [/\ Running => \A i \in 1 .. First(proc) - 1 : disk'[i] = disk[i]
              /\ ~Running => disk' = disk]_pipeline_vars
    <2> SUFFICES ASSUME FaithfulInv, PipelineNext
                 PROVE  /\ Running => \A i \in 1 .. First(proc) - 1 : disk'[i] = disk[i]
                        /\ ~Running => disk' = disk
      BY DEF pipeline_vars
    <2>1. CASE ~Running
      BY <2>1 DEF PipelineNext, StartUntrim, StartStl2cad, Compute, NoInput, Open, OpenFails, Write, Crash
    <2>2. CASE Running
      <3>1. proc.step \in 1 .. 6 /\ First(proc) \in 1 .. proc.step /\ TypeOK
        BY <2>2, RunningFaithful
      <3>2. disk' = disk \/ \E c : disk' = [disk EXCEPT ![proc.step] = c]
        BY <2>2 DEF PipelineNext, StartUntrim, StartStl2cad, Compute, Computed, NoInput, Open,
                    OpenFails, Write, Crash
      <3>. QED  BY <2>2, <3>1, <3>2, SixSteps DEF TypeOK
    <2>. QED  BY <2>1, <2>2
  <1>. QED  BY FaithfulInvariant, <1>1, PTL DEF PipelineSpec, ResumeKeepsEarlierFiles

-----------------------------------------------------------------------------
(***************************************************************************)
(* Turning around a vertex: from a neighbour to the next one.  Around a    *)
(* regular vertex four turns come back, and two go straight on.            *)
(***************************************************************************)
LEMMA FollowingFacts ==
  \A i \in 1 .. 4 :
    /\ Following(i) \in 1 .. 4 /\ Preceding(i) \in 1 .. 4
    /\ Following(i) # i /\ Following(Following(i)) # i
    /\ Following(Following(Following(Following(i)))) = i
    /\ Following(Preceding(i)) = i /\ Preceding(Following(i)) = i
  <1>. SUFFICES ASSUME NEW i \in {1, 2, 3, 4}
                PROVE  /\ Following(i) \in 1 .. 4 /\ Preceding(i) \in 1 .. 4
                       /\ Following(i) # i /\ Following(Following(i)) # i
                       /\ Following(Following(Following(Following(i)))) = i
                       /\ Following(Preceding(i)) = i /\ Preceding(Following(i)) = i
    OBVIOUS
  <1>1. /\ Following(1) = 2 /\ Following(2) = 3 /\ Following(3) = 4 /\ Following(4) = 1
        /\ Preceding(1) = 4 /\ Preceding(2) = 1 /\ Preceding(3) = 2 /\ Preceding(4) = 3
    BY DEF Following, Preceding
  <1>. QED  BY <1>1

LEMMA FaceFacts ==
  ASSUME NEW F \in Meshes
  PROVE  /\ IsFiniteSet(F)
         /\ \A f \in F : \A i \in 1 .. 4 : f[i] \in Nat
         /\ \A f \in F : \A i, j \in 1 .. 4 : f[i] = f[j] => i = j
         /\ \A f, g \in F : \A i, j \in 1 .. 4 :
              f[i] = g[j] /\ f[Following(i)] = g[Following(j)] => f = g /\ i = j
  <1>1. Manifold(F)
    BY MeshesAssumption
  <1>. QED  BY <1>1 DEF Manifold

(* The vertex after an edge in its face.                                     *)
LEMMA TurnIs ==
  ASSUME NEW F \in Meshes, NEW f \in F, NEW i \in 1 .. 4
  PROVE  /\ <<f[i], f[Following(i)]>> \in DirectedEdges(F)
         /\ Turns(F, DirectedEdges(F))[<<f[i], f[Following(i)]>>] = f[Following(Following(i))]
  <1> DEFINE e == <<f[i], f[Following(i)]>>
             w == f[Following(Following(i))]
             IsNext(x) == \E g \in F, j \in 1 .. 4 :
                            <<g[j], g[Following(j)]>> = e /\ g[Following(Following(j))] = x
  <1>1. e \in DirectedEdges(F)
    BY DEF DirectedEdges
  <1>2. w \in Vertices(F)
    BY FollowingFacts DEF Vertices
  <1>3. IsNext(w)
    OBVIOUS
  <1>4. ASSUME NEW x, IsNext(x) PROVE x = w
    <2>1. PICK g \in F, j \in 1 .. 4 : <<g[j], g[Following(j)]>> = e /\ g[Following(Following(j))] = x
      BY <1>4
    <2>. QED  BY <2>1, FaceFacts
  <1>5. Turns(F, DirectedEdges(F))[e] = CHOOSE x \in Vertices(F) : IsNext(x)
    BY <1>1, Zenon DEF Turns
  <1> HIDE DEF e, w, IsNext
  <1>6. (CHOOSE x \in Vertices(F) : IsNext(x)) = w
    BY <1>2, <1>3, <1>4
  <1>. QED  BY <1>1, <1>5, <1>6 DEF e, w

LEMMA TurnFacts ==
  ASSUME NEW F \in Meshes, NEW D, D = DirectedEdges(F), NEW T, T = Turns(F, D)
  PROVE  /\ \A e \in D : \E f \in F, i \in 1 .. 4 :
              e = <<f[i], f[Following(i)]>> /\ T[e] = f[Following(Following(i))]
         /\ \A u, v : <<u, v>> \in D =>
              /\ u \in Vertices(F) /\ v \in Vertices(F) /\ u # v
              /\ <<v, T[<<u, v>>]>> \in D /\ T[<<u, v>>] # u
         /\ \A u, v, w : <<u, v>> \in D /\ <<w, v>> \in D /\ T[<<u, v>>] = T[<<w, v>>] => u = w
  <1>1. ASSUME NEW e \in D
        PROVE  \E f \in F, i \in 1 .. 4 :
                 e = <<f[i], f[Following(i)]>> /\ T[e] = f[Following(Following(i))]
    <2>1. PICK f \in F, i \in 1 .. 4 : e = <<f[i], f[Following(i)]>>
      BY DEF DirectedEdges
    <2>. QED  BY <2>1, TurnIs
  <1>2. ASSUME NEW u, NEW v, <<u, v>> \in D
        PROVE  /\ u \in Vertices(F) /\ v \in Vertices(F) /\ u # v
               /\ <<v, T[<<u, v>>]>> \in D /\ T[<<u, v>>] # u
    <2>1. PICK f \in F, i \in 1 .. 4 :
            <<u, v>> = <<f[i], f[Following(i)]>> /\ T[<<u, v>>] = f[Following(Following(i))]
      BY <1>1, <1>2
    <2>2. u = f[i] /\ v = f[Following(i)]
      BY <2>1
    <2>3. u \in Vertices(F) /\ v \in Vertices(F)
      BY <2>2, FollowingFacts DEF Vertices
    <2>4. u # v /\ T[<<u, v>>] # u
      BY <2>1, <2>2, FollowingFacts, FaceFacts
    <2>5. <<v, T[<<u, v>>]>> \in D
      BY <2>1, <2>2, FollowingFacts, TurnIs
    <2>. QED  BY <2>3, <2>4, <2>5
  <1>3. ASSUME NEW u, NEW v, NEW w, <<u, v>> \in D, <<w, v>> \in D, T[<<u, v>>] = T[<<w, v>>]
        PROVE  u = w
    <2>1. PICK f \in F, i \in 1 .. 4 :
            <<u, v>> = <<f[i], f[Following(i)]>> /\ T[<<u, v>>] = f[Following(Following(i))]
      BY <1>1, <1>3
    <2>2. PICK g \in F, j \in 1 .. 4 :
            <<w, v>> = <<g[j], g[Following(j)]>> /\ T[<<w, v>>] = g[Following(Following(j))]
      BY <1>1, <1>3
    <2>3. /\ u = f[i] /\ w = g[j] /\ f[Following(i)] = g[Following(j)]
          /\ f[Following(Following(i))] = g[Following(Following(j))]
      BY <1>3, <2>1, <2>2
    <2>4. f = g /\ Following(i) = Following(j)
      BY <2>3, FollowingFacts, FaceFacts
    <2>5. i = j
      BY <2>4, FollowingFacts
    <2>. QED  BY <2>3, <2>4, <2>5
  <1>. QED  BY <1>1, <1>2, <1>3

(* A turn around four neighbours that leaves no part of them to itself.      *)
LEMMA FourTurns ==
  ASSUME NEW N, IsFiniteSet(N), Cardinality(N) = 4, NEW r \in [N -> N],
         \A x, y \in N : r[x] = r[y] => x = y,
         \A S \in SUBSET N : S # {} /\ (\A x \in S : r[x] \in S) => S = N,
         NEW u \in N
  PROVE  /\ r[u] # u /\ r[r[u]] # u /\ r[r[r[u]]] # u
         /\ r[r[r[r[u]]]] = u
  <1> DEFINE a == r[u]
             b == r[a]
             c == r[b]
             S1 == {u}
             S2 == S1 \union {a}
             S3 == S2 \union {b}
             S4 == S3 \union {c}
  <1>1. a \in N /\ b \in N /\ c \in N /\ r[c] \in N
    OBVIOUS
  <1>2. \A S, x : IsFiniteSet(S) =>
             /\ IsFiniteSet(S \union {x})
             /\ Cardinality(S \union {x}) = IF x \in S THEN Cardinality(S) ELSE Cardinality(S) + 1
    BY FS_AddElement
  <1>3. IsFiniteSet(S1) /\ Cardinality(S1) = 1
    BY FS_Singleton
  <1>4. a # u
    <2>1. ASSUME a = u PROVE FALSE
      <3>1. S1 \in SUBSET N /\ S1 # {} /\ \A x \in S1 : r[x] \in S1
        BY <2>1
      <3>2. S1 = N
        BY <3>1
      <3> HIDE DEF S1
      <3>. QED  BY <1>3, <3>2
    <2>. QED  BY <2>1
  <1> HIDE DEF a, b, c
  <1>5. IsFiniteSet(S2) /\ Cardinality(S2) = 2
    <2>1. a \notin S1
      BY <1>4
    <2> HIDE DEF S1
    <2>. QED  BY <1>2, <1>3, <2>1
  <1>6. b # u /\ b # a
    <2>1. ASSUME b = u PROVE FALSE
      <3>1. S2 \in SUBSET N /\ S2 # {} /\ \A x \in S2 : r[x] \in S2
        BY <1>1, <2>1 DEF a, b
      <3>2. S2 = N
        BY <3>1
      <3> HIDE DEF S2
      <3>. QED  BY <1>5, <3>2
    <2>2. b # a
      BY <1>1, <1>4 DEF a, b
    <2>. QED  BY <2>1, <2>2
  <1>7. IsFiniteSet(S3) /\ Cardinality(S3) = 3
    <2>1. b \notin S2
      BY <1>6
    <2> HIDE DEF S2
    <2>. QED  BY <1>2, <1>5, <2>1
  <1>8. c # u /\ c # a /\ c # b
    <2>1. ASSUME c = u PROVE FALSE
      <3>1. S3 \in SUBSET N /\ S3 # {} /\ \A x \in S3 : r[x] \in S3
        BY <1>1, <2>1 DEF a, b, c
      <3>2. S3 = N
        BY <3>1
      <3> HIDE DEF S3
      <3>. QED  BY <1>7, <3>2
    <2>2. c # a /\ c # b
      BY <1>1, <1>4, <1>6 DEF a, b, c
    <2>. QED  BY <2>1, <2>2
  <1>9. S4 = N
    <2>1. c \notin S3
      BY <1>6, <1>8
    <2>2. S4 \in SUBSET N
      BY <1>1
    <2>3. Cardinality(S4) = 3 + 1
      <3> HIDE DEF S3
      <3>. QED  BY ONLY <1>2, <1>7, <2>1
    <2> HIDE DEF S4
    <2>. QED  BY <2>2, <2>3, FS_Subset
  <1>10. r[c] # a /\ r[c] # b /\ r[c] # c
    BY <1>1, <1>4, <1>6, <1>8 DEF a, b, c
  <1>11. r[c] = u
    BY <1>1, <1>9, <1>10
  <1>. QED  BY <1>4, <1>6, <1>8, <1>11 DEF a, b, c

-----------------------------------------------------------------------------
(***************************************************************************)
(* What the lines depend on of the lists of a mesh: the neighbours, and    *)
(* that going straight on at a regular vertex can be undone.               *)
(***************************************************************************)
GoesStraight(m, u, v) ==
  /\ Straight(m, u, v) \in m.adj_compact[v] /\ Straight(m, u, v) # u
  /\ Straight(m, Straight(m, u, v), v) = u
  /\ \A f \in m.F_compact :
       ~ {{u, v}, {v, Straight(m, u, v)}} \subseteq {{f[i], f[Following(i)]} : i \in 1 .. 4}

GoodMesh(m) ==
  /\ DOMAIN m.adj_compact \in SUBSET Nat /\ IsFiniteSet(DOMAIN m.adj_compact)
  /\ m.boundary_o \subseteq DOMAIN m.adj_compact
  /\ m.singularity \subseteq DOMAIN m.adj_compact \ m.boundary_o
  /\ m.boundary_singularity \subseteq m.boundary_o
  /\ \A e \in m.boundaryvertex : e[1] \in m.boundary_o /\ e[2] \in m.boundary_o
  /\ \A v \in DOMAIN m.adj_compact :
       /\ m.adj_compact[v] \in SUBSET (DOMAIN m.adj_compact \ {v})
       /\ \A u \in m.adj_compact[v] : v \in m.adj_compact[u]
       /\ v \notin m.boundary_o \union m.singularity =>
            Cardinality(m.adj_compact[v]) = 4 /\ \A u \in m.adj_compact[v] : GoesStraight(m, u, v)

LEMMA FiniteVertices ==
  ASSUME NEW F \in Meshes
  PROVE  Vertices(F) \in SUBSET Nat /\ IsFiniteSet(Vertices(F))
  <1> DEFINE P == F \X (1 .. 4)
             at4 == [p \in P |-> p[1][p[2]]]
  <1>1. IsFiniteSet(F) /\ \A f \in F : \A i \in 1 .. 4 : f[i] \in Nat
    BY FaceFacts
  <1>2. IsFiniteSet(1 .. 4)
    <2>1. \A k \in Int : IsFiniteSet(1 .. k)
      BY FS_Interval
    <2>2. 4 \in Int
      OBVIOUS
    <2>. QED  BY ONLY <2>1, <2>2, Zenon
  <1>3. IsFiniteSet(P)
    BY <1>1, <1>2, FS_Product
  <1>4. \A p \in P : at4[p] = p[1][p[2]] /\ at4[p] \in Vertices(F)
    BY DEF Vertices
  <1>5. \A v \in Vertices(F) : \E p \in P : v = at4[p]
    <2> SUFFICES ASSUME NEW v \in Vertices(F) PROVE \E p \in P : v = at4[p]
      OBVIOUS
    <2>1. PICK f \in F, i \in 1 .. 4 : v = f[i]
      BY DEF Vertices
    <2>2. <<f, i>> \in P /\ v = at4[<<f, i>>]
      BY <2>1
    <2>. QED  BY <2>2
  <1>6. at4 \in Surjection(P, Vertices(F))
    <2>1. at4 \in [P -> Vertices(F)]
      BY <1>4
    <2> HIDE DEF at4, P
    <2>. QED  BY <1>5, <2>1 DEF Surjection
  <1>7. IsFiniteSet(Vertices(F))
    <2> HIDE DEF at4, P
    <2>. QED  BY <1>3, <1>6, FS_Surjection
  <1>8. Vertices(F) \in SUBSET Nat
    BY <1>1 DEF Vertices
  <1>. QED  BY <1>7, <1>8

(* The neighbours of an inner vertex are joined to it in both directions.    *)
LEMMA InnerNeighbors ==
  ASSUME NEW F \in Meshes, NEW D, D = DirectedEdges(F), NEW B, B = Ends(BoundaryEdges(D)),
         NEW v \in Vertices(F) \ B
  PROVE  /\ \A u : <<u, v>> \in D <=> <<v, u>> \in D
         /\ \A u : u \in Adjacent(D, B, v) <=> <<v, u>> \in D
  <1>1. ASSUME NEW u, <<u, v>> \in D PROVE <<v, u>> \in D
    <2>1. SUFFICES ASSUME <<v, u>> \notin D PROVE FALSE
      OBVIOUS
    <2>2. <<u, v>> \in BoundaryEdges(D) /\ <<u, v>>[2] = v
      BY <1>1, <2>1 DEF BoundaryEdges
    <2>. QED  BY <2>2 DEF Ends
  <1>2. ASSUME NEW u, <<v, u>> \in D PROVE <<u, v>> \in D
    <2>1. SUFFICES ASSUME <<u, v>> \notin D PROVE FALSE
      OBVIOUS
    <2>2. <<v, u>> \in BoundaryEdges(D) /\ <<v, u>>[1] = v
      BY <1>2, <2>1 DEF BoundaryEdges
    <2>. QED  BY <2>2 DEF Ends
  <1>3. ASSUME NEW u, u \in Adjacent(D, B, v) PROVE <<v, u>> \in D
    <2>1. PICK d \in D : d[1] = v /\ u = d[2]
      BY <1>3 DEF Adjacent
    <2>2. d = <<d[1], d[2]>>
      BY DEF DirectedEdges
    <2>. QED  BY <2>1, <2>2
  <1>4. ASSUME NEW u, <<v, u>> \in D PROVE u \in Adjacent(D, B, v)
    BY <1>4 DEF Adjacent
  <1>. QED  BY <1>1, <1>2, <1>3, <1>4

(* The neighbours of a vertex of the boundary are joined to it in some       *)
(* direction.                                                                *)
LEMMA BorderNeighbors ==
  ASSUME NEW F \in Meshes, NEW D, D = DirectedEdges(F), NEW B, NEW v \in B
  PROVE  \A u : u \in Adjacent(D, B, v) <=> <<v, u>> \in D \/ <<u, v>> \in D
  <1>1. \A d \in D : d = <<d[1], d[2]>>
    BY DEF DirectedEdges
  <1>2. ASSUME NEW u, u \in Adjacent(D, B, v) PROVE <<v, u>> \in D \/ <<u, v>> \in D
    <2>1. (\E d \in D : d[1] = v /\ u = d[2]) \/ (\E d \in D : d[2] = v /\ u = d[1])
      BY <1>2 DEF Adjacent
    <2>. QED  BY <1>1, <2>1
  <1>3. ASSUME NEW u, <<v, u>> \in D \/ <<u, v>> \in D PROVE u \in Adjacent(D, B, v)
    <2>1. CASE <<v, u>> \in D
      BY <2>1 DEF Adjacent
    <2>2. CASE <<u, v>> \in D
      BY <2>2 DEF Adjacent
    <2>. QED  BY <1>3, <2>1, <2>2
  <1>. QED  BY <1>2, <1>3

(* The lists of a mesh.                                                      *)
LEMMA MeshFields ==
  ASSUME NEW F \in Meshes, NEW m, m = MeshOf(F), NEW D, D = DirectedEdges(F)
  PROVE  /\ m.F_compact = F /\ m.turn = Turns(F, D)
         /\ m.boundaryvertex = BoundaryEdges(D) /\ m.boundary_o = Ends(BoundaryEdges(D))
         /\ DOMAIN m.adj_compact = Vertices(F)
         /\ \A v \in Vertices(F) : m.adj_compact[v] = Adjacent(D, m.boundary_o, v)
         /\ m.singularity = Singular(m.boundary_o, m.adj_compact)
         /\ m.boundary_singularity = BoundarySingular(m.boundary_o, m.adj_compact)
         /\ \A u, v : Straight(m, u, v) = m.turn[<<m.turn[<<u, v>>], v>>]
  BY DEF MeshOf, Straight

(* An inner vertex that is not singular has four neighbours and one straight *)
(* way on from each.                                                         *)
LEMMA RegularGoesStraight ==
  ASSUME NEW F \in Meshes, NEW m, m = MeshOf(F),
         NEW v \in Vertices(F) \ (m.boundary_o \union m.singularity)
  PROVE  /\ Cardinality(m.adj_compact[v]) = 4
         /\ \A u \in m.adj_compact[v] : GoesStraight(m, u, v)
  <1> DEFINE D == DirectedEdges(F)
             T == Turns(F, D)
             B == Ends(BoundaryEdges(D))
             N == m.adj_compact[v]
             r == [x \in N |-> T[<<x, v>>]]
  <1>1. m.boundary_o = B /\ m.turn = T /\ N = Adjacent(D, B, v) /\ m.F_compact = F
    BY MeshFields
  <1>2. \A x : /\ x \in N <=> <<v, x>> \in D
               /\ x \in N <=> <<x, v>> \in D
    <2> HIDE DEF N
    <2>. QED  BY <1>1, InnerNeighbors
  <1>3. N = {e[2] : e \in {d \in D : d[1] = v}}
    <2> HIDE DEF N, B
    <2>. QED  BY <1>1 DEF Adjacent
  <1> HIDE DEF N
  <1>4. IsFiniteSet(N)
    <2>1. N \subseteq Vertices(F)
      BY <1>2, TurnFacts
    <2>. QED  BY <2>1, FiniteVertices, FS_Subset
  <1>5. /\ Cardinality(N) > 2
        /\ \A S \in SUBSET N : S # {} /\ (\A x \in S : T[<<x, v>>] \in S) => S = N
    <2>1. Manifold(F) /\ v \in Vertices(F) \ B
      BY <1>1, MeshesAssumption
    <2>. QED  BY <1>3, <2>1 DEF Manifold
  <1>6. Cardinality(N) = 4
    <2>1. m.singularity = Singular(B, m.adj_compact) /\ DOMAIN m.adj_compact = Vertices(F)
      <3> HIDE DEF B
      <3>. QED  BY <1>1, MeshFields
    <2>2. ~ (Cardinality(N) = 3 \/ Cardinality(N) > 4)
      <3> HIDE DEF B
      <3>. QED  BY <1>1, <2>1 DEF Singular, N
    <2>3. Cardinality(N) \in Nat
      BY <1>4, FS_CardinalityType
    <2>. QED  BY <1>5, <2>2, <2>3
  <1>7. \A x \in N : r[x] = T[<<x, v>>] /\ r[x] \in N
    BY <1>2, TurnFacts
  <1>8. r \in [N -> N]
    BY <1>7
  <1> HIDE DEF r
  <1>9. \A x, y \in N : r[x] = r[y] => x = y
    <2> SUFFICES ASSUME NEW x \in N, NEW y \in N, r[x] = r[y] PROVE x = y
      OBVIOUS
    <2>1. \A x1, y1 : <<x1, v>> \in D /\ <<y1, v>> \in D /\ T[<<x1, v>>] = T[<<y1, v>>] => x1 = y1
      BY TurnFacts
    <2>2. <<x, v>> \in D /\ <<y, v>> \in D
      BY <1>2
    <2>3. T[<<x, v>>] = T[<<y, v>>]
      BY <1>7
    <2>. QED  BY ONLY <2>1, <2>2, <2>3
  <1>10. \A S \in SUBSET N : S # {} /\ (\A x \in S : r[x] \in S) => S = N
    BY <1>5, <1>7
  <1>11. \A x \in N : /\ r[x] # x /\ r[r[x]] # x /\ r[r[r[x]]] # x
                      /\ r[r[r[r[x]]]] = x
    BY <1>4, <1>6, <1>8, <1>9, <1>10, FourTurns
  <1>12. \A x \in N : Straight(m, x, v) = r[r[x]]
    <2>1. \A x : Straight(m, x, v) = T[<<T[<<x, v>>], v>>]
      BY <1>1 DEF Straight
    <2>. QED  BY <1>7, <2>1
  <1>13. ASSUME NEW u \in N, NEW f \in F, NEW w, w = r[r[u]],
                {{u, v}, {v, w}} \subseteq {{f[i], f[Following(i)]} : i \in 1 .. 4}
         PROVE  FALSE
    <2>0. w \in N /\ w # u /\ w # r[u] /\ r[w] # u
      BY <1>7, <1>11, <1>13
    <2>1. PICK i \in 1 .. 4 : {u, v} = {f[i], f[Following(i)]}
      BY <1>13
    <2>2. PICK j \in 1 .. 4 : {v, w} = {f[j], f[Following(j)]}
      BY <1>13
    <2>3. /\ Following(i) \in 1 .. 4 /\ Following(j) \in 1 .. 4
          /\ \A k, l \in 1 .. 4 : Following(k) = Following(l) => k = l
      BY FollowingFacts
    <2>4. \A k, l \in 1 .. 4 : f[k] = f[l] => k = l
      BY FaceFacts
    <2>5. \A k \in 1 .. 4 : T[<<f[k], f[Following(k)]>>] = f[Following(Following(k))]
      BY TurnIs
    <2>6. u # v /\ w # v
      <3>1. \A x : <<x, v>> \in D => x # v
        BY TurnFacts
      <3>. QED  BY <1>2, <2>0, <3>1
    <2>7. CASE u = f[i] /\ v = f[Following(i)]
      <3>1. r[u] = f[Following(Following(i))]
        BY <1>7, <2>5, <2>7
      <3>2. CASE v = f[j] /\ w = f[Following(j)]
        BY <2>0, <2>3, <2>4, <2>7, <3>1, <3>2
      <3>3. CASE w = f[j] /\ v = f[Following(j)]
        BY <2>0, <2>3, <2>4, <2>7, <3>3
      <3>. QED  BY <2>2, <2>6, <3>2, <3>3
    <2>8. CASE v = f[i] /\ u = f[Following(i)]
      <3>1. CASE v = f[j] /\ w = f[Following(j)]
        BY <2>0, <2>4, <2>8, <3>1
      <3>2. CASE w = f[j] /\ v = f[Following(j)]
        <4>1. r[w] = f[Following(Following(j))]
          BY <1>7, <2>0, <2>5, <3>2
        <4>2. Following(j) = i
          BY <2>3, <2>4, <2>8, <3>2
        <4>. QED  BY <2>0, <2>8, <4>1, <4>2
      <3>. QED  BY <2>2, <2>6, <3>1, <3>2
    <2>. QED  BY <2>1, <2>6, <2>7, <2>8
  <1>14. \A u \in N : GoesStraight(m, u, v)
    <2> SUFFICES ASSUME NEW u \in N PROVE GoesStraight(m, u, v)
      OBVIOUS
    <2> DEFINE w == r[r[u]]
    <2>1. w \in N /\ w # u /\ r[r[w]] = u
      BY <1>7, <1>11
    <2>2. Straight(m, u, v) = w /\ Straight(m, w, v) = u
      BY <1>12, <2>1
    <2>3. \A f \in F : ~ {{u, v}, {v, w}} \subseteq {{f[i], f[Following(i)]} : i \in 1 .. 4}
      BY <1>13
    <2>4. /\ Straight(m, u, v) \in m.adj_compact[v] /\ Straight(m, u, v) # u
          /\ Straight(m, Straight(m, u, v), v) = u
      BY <2>1, <2>2 DEF N
    <2>5. \A f \in m.F_compact :
            ~ {{u, v}, {v, Straight(m, u, v)}} \subseteq {{f[i], f[Following(i)]} : i \in 1 .. 4}
      <3>1. m.F_compact = F
        BY <1>1
      <3>2. Straight(m, u, v) = w
        BY <2>2
      <3> HIDE DEF w
      <3>. QED  BY ONLY <2>3, <3>1, <3>2
    <2>. QED  BY ONLY <2>4, <2>5 DEF GoesStraight
  <1>. QED  BY <1>6, <1>14 DEF N

LEMMA MeshIsGood ==
  ASSUME NEW F \in Meshes, NEW m, m = MeshOf(F)
  PROVE  GoodMesh(m)
  <1> DEFINE D == DirectedEdges(F)
             V == Vertices(F)
             B == m.boundary_o
             adj == m.adj_compact
  <1>1. /\ m.boundaryvertex = BoundaryEdges(D) /\ B = Ends(BoundaryEdges(D))
        /\ DOMAIN adj = V /\ \A v \in V : adj[v] = Adjacent(D, B, v)
        /\ m.singularity = Singular(B, adj) /\ m.boundary_singularity = BoundarySingular(B, adj)
    BY MeshFields
  <1> HIDE DEF B, adj
  <1>2. \A u, v : <<u, v>> \in D => u \in V /\ v \in V /\ u # v
    BY TurnFacts
  <1>3. \A e \in BoundaryEdges(D) : e \in D /\ e = <<e[1], e[2]>> /\ e[1] \in B /\ e[2] \in B
    BY <1>1 DEF BoundaryEdges, Ends, DirectedEdges
  <1>4. B \subseteq V
    <2>1. \A b \in B : \E e \in BoundaryEdges(D) : b = e[1] \/ b = e[2]
      BY <1>1 DEF Ends
    <2> HIDE DEF D, V
    <2>. QED  BY <1>2, <1>3, <2>1
  <1>5. \A v \in V : \A u : u \in adj[v] <=> <<v, u>> \in D \/ <<u, v>> \in D
    <2> SUFFICES ASSUME NEW v \in V, NEW u
                 PROVE  u \in adj[v] <=> <<v, u>> \in D \/ <<u, v>> \in D
      OBVIOUS
    <2>1. CASE v \in B
      BY <1>1, <2>1, BorderNeighbors
    <2>2. CASE v \notin B
      BY <1>1, <2>2, InnerNeighbors
    <2>. QED  BY <2>1, <2>2
  <1>6. Singular(B, adj) \subseteq V \ B /\ BoundarySingular(B, adj) \subseteq B
    BY <1>1 DEF Singular, BoundarySingular
  <1>7. \A v \in V : adj[v] \in SUBSET (V \ {v}) /\ \A u \in adj[v] : v \in adj[u]
    <2> HIDE DEF D, V
    <2>. QED  BY <1>2, <1>5
  <1>8. \A v \in V : v \notin B \union m.singularity =>
          Cardinality(adj[v]) = 4 /\ \A u \in adj[v] : GoesStraight(m, u, v)
    BY RegularGoesStraight DEF B, adj
  <1>9. V \in SUBSET Nat /\ IsFiniteSet(V)
    BY FiniteVertices
  <1> HIDE DEF D, V
  <1>10. /\ DOMAIN adj \in SUBSET Nat /\ IsFiniteSet(DOMAIN adj)
         /\ B \subseteq DOMAIN adj /\ m.singularity \subseteq DOMAIN adj \ B
         /\ m.boundary_singularity \subseteq B
         /\ \A e \in m.boundaryvertex : e[1] \in B /\ e[2] \in B
    BY <1>1, <1>3, <1>4, <1>6, <1>9
  <1>11. \A v \in DOMAIN adj :
           /\ adj[v] \in SUBSET (DOMAIN adj \ {v})
           /\ \A u \in adj[v] : v \in adj[u]
           /\ v \notin B \union m.singularity =>
                Cardinality(adj[v]) = 4 /\ \A u \in adj[v] : GoesStraight(m, u, v)
    BY <1>1, <1>7, <1>8
  <1>. QED  BY <1>10, <1>11 DEF GoodMesh, B, adj

-----------------------------------------------------------------------------
(***************************************************************************)
(* Straight lines on a mesh.  A line is determined by the port it starts   *)
(* from, can be run backwards, and never comes back to its own port.       *)
(***************************************************************************)
SingularOf(m) == m.singularity \union m.boundary_singularity
RegularOf(m) == DOMAIN m.adj_compact \ (m.boundary_o \union SingularOf(m))

Runs(m, l) ==
  /\ l \in Seq(DOMAIN m.adj_compact) /\ Len(l) >= 2
  /\ l[1] \in SingularOf(m)
  /\ \A j \in 1 .. Len(l) - 1 : l[j + 1] \in m.adj_compact[l[j]]
  /\ \A j \in 2 .. Len(l) - 1 : l[j] \in RegularOf(m) /\ l[j + 1] = Straight(m, l[j - 1], l[j])

FullLine(m, l) == Runs(m, l) /\ Last(l) \in SingularOf(m) \union m.boundary_o

Backwards(l) == [j \in 1 .. Len(l) |-> l[Len(l) + 1 - j]]

StartsAt(l, s, a) == l[1] = s /\ l[2] = a
StopsAt(l, s, a) == Last(l) = s /\ l[Len(l) - 1] = a

(* Going straight on at a regular vertex.                                    *)
LEMMA OnRegular ==
  ASSUME NEW m, GoodMesh(m), NEW v \in RegularOf(m), NEW u \in m.adj_compact[v]
  PROVE  GoesStraight(m, u, v)
  BY DEF GoodMesh, RegularOf, SingularOf

LEMMA BackwardsIs ==
  ASSUME NEW S, NEW l \in Seq(S)
  PROVE  /\ Backwards(l) \in Seq(S) /\ Len(Backwards(l)) = Len(l)
         /\ \A j \in 1 .. Len(l) : Backwards(l)[j] = l[Len(l) + 1 - j]
  <1>1. Len(l) \in Nat /\ \A j \in 1 .. Len(l) : l[j] \in S
    OBVIOUS
  <1>2. \A j \in 1 .. Len(l) : Len(l) + 1 - j \in 1 .. Len(l)
    BY <1>1
  <1>3. Backwards(l) \in [1 .. Len(l) -> S]
    BY <1>1, <1>2 DEF Backwards
  <1>. QED  BY <1>1, <1>2, <1>3 DEF Backwards

LEMMA BackwardsRuns ==
  ASSUME NEW m, GoodMesh(m), NEW l, FullLine(m, l), Last(l) \in SingularOf(m)
  PROVE  FullLine(m, Backwards(l))
  <1> DEFINE b == Backwards(l)
             n == Len(l)
             V == DOMAIN m.adj_compact
  <1>1. l \in Seq(V) /\ n \in Nat /\ n >= 2 /\ \A j \in 1 .. n : l[j] \in V
    BY DEF FullLine, Runs
  <1>2. b \in Seq(V) /\ Len(b) = n /\ \A j \in 1 .. n : b[j] = l[n + 1 - j]
    BY <1>1, BackwardsIs
  <1> HIDE DEF b
  <1>3. b[1] = Last(l) /\ Last(b) = l[1]
    BY <1>1, <1>2 DEF Last
  <1>4. \A v \in V : \A u \in m.adj_compact[v] : v \in m.adj_compact[u]
    BY DEF GoodMesh
  <1>5. ASSUME NEW j \in 1 .. n - 1 PROVE b[j + 1] \in m.adj_compact[b[j]]
    <2> DEFINE k == n - j
    <2>1. k \in 1 .. n - 1 /\ k \in 1 .. n /\ b[j + 1] = l[k] /\ b[j] = l[k + 1]
      <3>1. /\ k \in 1 .. n - 1 /\ k \in 1 .. n /\ j + 1 \in 1 .. n /\ j \in 1 .. n
            /\ n + 1 - (j + 1) = k /\ n + 1 - j = k + 1
        BY <1>1
      <3>2. b[j + 1] = l[n + 1 - (j + 1)] /\ b[j] = l[n + 1 - j]
        BY <1>2, <3>1
      <3>. QED  BY <3>1, <3>2
    <2>2. l[k + 1] \in m.adj_compact[l[k]]
      BY <2>1 DEF FullLine, Runs
    <2>. QED  BY <1>1, <1>4, <2>1, <2>2
  <1>6. ASSUME NEW j \in 2 .. n - 1
        PROVE  b[j] \in RegularOf(m) /\ b[j + 1] = Straight(m, b[j - 1], b[j])
    <2> DEFINE k == n + 1 - j
    <2>1. k \in 2 .. n - 1 /\ k \in 1 .. n /\ k - 1 \in 1 .. n - 1 /\ k - 1 \in 1 .. n
      BY <1>1
    <2>2. b[j] = l[k] /\ b[j - 1] = l[k + 1] /\ b[j + 1] = l[k - 1]
      <3>1. /\ j \in 1 .. n /\ j - 1 \in 1 .. n /\ j + 1 \in 1 .. n
            /\ n + 1 - (j - 1) = k + 1 /\ n + 1 - (j + 1) = k - 1
        BY <1>1
      <3>2. /\ b[j] = l[n + 1 - j] /\ b[j - 1] = l[n + 1 - (j - 1)]
            /\ b[j + 1] = l[n + 1 - (j + 1)]
        BY <1>2, <3>1
      <3>. QED  BY <3>1, <3>2
    <2>3. l[k] \in RegularOf(m) /\ l[k + 1] = Straight(m, l[k - 1], l[k])
      BY <2>1 DEF FullLine, Runs
    <2>4. l[k - 1] \in m.adj_compact[l[k]]
      <3>1. l[(k - 1) + 1] \in m.adj_compact[l[k - 1]]
        BY <2>1 DEF FullLine, Runs
      <3>2. (k - 1) + 1 = k
        BY <2>1
      <3>. QED  BY <1>1, <1>4, <2>1, <3>1, <3>2
    <2> HIDE DEF k
    <2>5. Straight(m, Straight(m, l[k - 1], l[k]), l[k]) = l[k - 1]
      BY <2>3, <2>4, OnRegular DEF GoesStraight
    <2>. QED  BY <2>2, <2>3, <2>5
  <1>7. Runs(m, b)
    BY <1>1, <1>2, <1>3, <1>5, <1>6 DEF Runs
  <1>8. l[1] \in SingularOf(m)
    BY DEF FullLine, Runs
  <1>. QED  BY <1>3, <1>7, <1>8 DEF FullLine, b

(* Two lines from one port agree as far as both go.                          *)
LEMMA CommonWay ==
  ASSUME NEW m, NEW k, Runs(m, k), NEW l, Runs(m, l), k[1] = l[1], k[2] = l[2]
  PROVE  \A j \in Nat : j >= 1 /\ j <= Len(k) /\ j <= Len(l) => k[j] = l[j]
  <1> DEFINE T == {j \in Nat : j >= 1 /\ j <= Len(k) /\ j <= Len(l) /\ k[j] # l[j]}
  <1> SUFFICES ASSUME T # {} PROVE FALSE
    OBVIOUS
  <1>1. PICK j \in T : \A i \in T : j <= i
    <2>1. T \in SUBSET Nat
      OBVIOUS
    <2> HIDE DEF T
    <2>. QED  BY <2>1, LeastNatural
  <1>2. Len(k) \in Nat /\ Len(l) \in Nat
    BY DEF Runs
  <1>3. j \in Nat /\ j >= 3 /\ j <= Len(k) /\ j <= Len(l)
    BY <1>1
  <1>4. j - 1 \notin T /\ j - 2 \notin T /\ j - 1 \in Nat /\ j - 2 \in Nat
    <2> HIDE DEF T
    <2>. QED  BY <1>1, <1>3
  <1>5. k[j - 1] = l[j - 1] /\ k[j - 2] = l[j - 2]
    BY <1>2, <1>3, <1>4
  <1>6. /\ j - 1 \in 2 .. Len(k) - 1 /\ j - 1 \in 2 .. Len(l) - 1
        /\ (j - 1) + 1 = j /\ (j - 1) - 1 = j - 2
    BY <1>2, <1>3
  <1>7. /\ k[(j - 1) + 1] = Straight(m, k[(j - 1) - 1], k[j - 1])
        /\ l[(j - 1) + 1] = Straight(m, l[(j - 1) - 1], l[j - 1])
    BY <1>6 DEF Runs
  <1>. QED  BY <1>5, <1>6, <1>7

(* A line does not go on where another one from its port ends.               *)
LEMMA NotLonger ==
  ASSUME NEW m, GoodMesh(m), NEW k, FullLine(m, k), NEW l, FullLine(m, l),
         k[1] = l[1], k[2] = l[2]
  PROVE  ~(Len(k) < Len(l))
  <1> SUFFICES ASSUME Len(k) < Len(l) PROVE FALSE
    OBVIOUS
  <1>1. Len(k) \in Nat /\ Len(l) \in Nat /\ Len(k) >= 2
    BY DEF FullLine, Runs
  <1>2. k[Len(k)] = l[Len(k)]
    BY <1>1, CommonWay DEF FullLine
  <1>3. l[Len(k)] \in RegularOf(m)
    <2>1. Len(k) \in 2 .. Len(l) - 1
      BY <1>1
    <2>. QED  BY <2>1 DEF FullLine, Runs
  <1>. QED  BY <1>2, <1>3 DEF FullLine, Last, RegularOf

LEMMA SameLine ==
  ASSUME NEW m, GoodMesh(m), NEW k, FullLine(m, k), NEW l, FullLine(m, l),
         k[1] = l[1], k[2] = l[2]
  PROVE  Len(k) = Len(l) /\ \A j \in 1 .. Len(l) : k[j] = l[j]
  <1>1. Len(k) \in Nat /\ Len(l) \in Nat
    BY DEF FullLine, Runs
  <1>2. Len(k) = Len(l)
    BY <1>1, NotLonger
  <1>. QED  BY <1>1, <1>2, CommonWay DEF FullLine

LEMMA NotOwnEnd ==
  ASSUME NEW m, GoodMesh(m), NEW l, FullLine(m, l)
  PROVE  ~StopsAt(l, l[1], l[2])
  <1> SUFFICES ASSUME StopsAt(l, l[1], l[2]) PROVE FALSE
    OBVIOUS
  <1> DEFINE n == Len(l)
             b == Backwards(l)
             V == DOMAIN m.adj_compact
  <1>1. l \in Seq(V) /\ n \in Nat /\ n >= 2 /\ l[1] \in SingularOf(m)
    BY DEF FullLine, Runs
  <1>2. \A j \in 1 .. n : l[j] \in V
    BY <1>1
  <1>3. b \in Seq(V) /\ Len(b) = n /\ \A j \in 1 .. n : b[j] = l[n + 1 - j]
    BY <1>1, BackwardsIs
  <1>4. FullLine(m, b)
    BY <1>1, BackwardsRuns DEF StopsAt
  <1> HIDE DEF b
  <1>5. b[1] = l[1] /\ b[2] = l[2]
    <2>1. b[1] = l[n] /\ b[2] = l[n - 1]
      BY <1>1, <1>3
    <2>. QED  BY <2>1 DEF StopsAt, Last
  <1>6. \A j \in 1 .. n : l[j] = l[n + 1 - j]
    <2>1. \A j \in 1 .. Len(l) : b[j] = l[j]
      BY <1>4, <1>5, SameLine
    <2>. QED  BY <1>3, <2>1
  <1>7. \A v \in V : m.adj_compact[v] \in SUBSET (V \ {v}) /\ \A u \in m.adj_compact[v] : v \in m.adj_compact[u]
    BY DEF GoodMesh
  <1>8. PICK k \in Nat : n = 2 * k \/ n = 2 * k + 1
    <2>1. n \div 2 \in Nat /\ (n = 2 * (n \div 2) \/ n = 2 * (n \div 2) + 1)
      BY <1>1
    <2>. QED  BY <2>1
  <1>9. CASE n = 2 * k
    <2>1. k \in 1 .. n - 1 /\ k \in 1 .. n /\ n + 1 - k = k + 1
      BY <1>1, <1>9
    <2>2. l[k] = l[k + 1]
      BY <1>6, <2>1
    <2>3. l[k + 1] \in m.adj_compact[l[k]]
      BY <2>1 DEF FullLine, Runs
    <2>. QED  BY <1>2, <1>7, <2>1, <2>2, <2>3
  <1>10. CASE n = 2 * k + 1
    <2>1. /\ k \in 1 .. n - 1 /\ k \in 1 .. n /\ k + 1 \in 2 .. n - 1 /\ k + 1 \in 1 .. n
          /\ n + 1 - k = k + 2 /\ (k + 1) + 1 = k + 2 /\ (k + 1) - 1 = k
      BY <1>1, <1>10
    <2>2. l[k] = l[k + 2]
      BY <1>6, <2>1
    <2>3. l[k + 1] \in RegularOf(m) /\ l[(k + 1) + 1] = Straight(m, l[(k + 1) - 1], l[k + 1])
      BY <2>1 DEF FullLine, Runs
    <2>4. l[k] \in m.adj_compact[l[k + 1]]
      <3>1. l[k + 1] \in m.adj_compact[l[k]]
        BY <2>1 DEF FullLine, Runs
      <3>. QED  BY <1>2, <1>7, <2>1, <3>1
    <2>5. Straight(m, l[k], l[k + 1]) # l[k]
      BY <2>3, <2>4, OnRegular DEF GoesStraight
    <2>. QED  BY <2>1, <2>2, <2>3, <2>5
  <1>. QED  BY <1>8, <1>9, <1>10

(* A line that shares the far port of another one shares its near port.      *)
LEMMA SharedPort ==
  ASSUME NEW m, GoodMesh(m), NEW k, FullLine(m, k), NEW l, FullLine(m, l),
         NEW v \in SingularOf(m), NEW b, StopsAt(k, v, b),
         StartsAt(l, v, b) \/ StopsAt(l, v, b)
  PROVE  StartsAt(l, k[1], k[2]) \/ StopsAt(l, k[1], k[2])
  <1> DEFINE K == Backwards(k)
             L == Backwards(l)
             V == DOMAIN m.adj_compact
  <1>1. /\ k \in Seq(V) /\ Len(k) \in Nat /\ Len(k) >= 2
        /\ l \in Seq(V) /\ Len(l) \in Nat /\ Len(l) >= 2
    BY DEF FullLine, Runs
  <1>2. /\ Len(K) = Len(k) /\ \A j \in 1 .. Len(k) : K[j] = k[Len(k) + 1 - j]
        /\ Len(L) = Len(l) /\ \A j \in 1 .. Len(l) : L[j] = l[Len(l) + 1 - j]
    BY <1>1, BackwardsIs
  <1>3. FullLine(m, K)
    BY BackwardsRuns DEF StopsAt
  <1>4. StopsAt(l, v, b) => FullLine(m, L)
    BY BackwardsRuns DEF StopsAt
  <1> HIDE DEF K, L
  <1>5. /\ K[1] = k[Len(k)] /\ K[2] = k[Len(k) - 1]
        /\ K[Len(k)] = k[1] /\ K[Len(k) - 1] = k[2]
        /\ L[1] = l[Len(l)] /\ L[2] = l[Len(l) - 1]
        /\ L[Len(l)] = l[1] /\ L[Len(l) - 1] = l[2]
    <2>1. ASSUME NEW n \in Nat, n >= 2
          PROVE  /\ 1 \in 1 .. n /\ 2 \in 1 .. n /\ n \in 1 .. n /\ n - 1 \in 1 .. n
                 /\ n + 1 - 1 = n /\ n + 1 - 2 = n - 1 /\ n + 1 - n = 1 /\ n + 1 - (n - 1) = 2
      BY <2>1
    <2>2. /\ K[1] = k[Len(k) + 1 - 1] /\ K[2] = k[Len(k) + 1 - 2]
          /\ K[Len(k)] = k[Len(k) + 1 - Len(k)]
          /\ K[Len(k) - 1] = k[Len(k) + 1 - (Len(k) - 1)]
      BY <1>1, <1>2, <2>1
    <2>3. /\ L[1] = l[Len(l) + 1 - 1] /\ L[2] = l[Len(l) + 1 - 2]
          /\ L[Len(l)] = l[Len(l) + 1 - Len(l)]
          /\ L[Len(l) - 1] = l[Len(l) + 1 - (Len(l) - 1)]
      BY <1>1, <1>2, <2>1
    <2>. QED  BY <1>1, <2>1, <2>2, <2>3
  <1>6. Len(k) \in 1 .. Len(k) /\ Len(k) - 1 \in 1 .. Len(k)
    BY <1>1
  <1>7. K[1] = v /\ K[2] = b
    BY <1>5 DEF StopsAt, Last
  <1>8. CASE StartsAt(l, v, b)
    <2>1. Len(l) = Len(K) /\ \A j \in 1 .. Len(K) : l[j] = K[j]
      BY <1>3, <1>7, <1>8, SameLine DEF StartsAt
    <2>. QED  BY <1>2, <1>5, <1>6, <2>1 DEF StopsAt, Last
  <1>9. CASE StopsAt(l, v, b)
    <2>1. L[1] = v /\ L[2] = b
      BY <1>5, <1>9 DEF StopsAt, Last
    <2>2. Len(L) = Len(K) /\ \A j \in 1 .. Len(K) : L[j] = K[j]
      BY <1>3, <1>4, <1>7, <1>9, <2>1, SameLine
    <2>. QED  BY <1>2, <1>5, <1>6, <2>2 DEF StartsAt
  <1>. QED  BY <1>8, <1>9

-----------------------------------------------------------------------------
(***************************************************************************)
(* How often the lines of a bag end at a port.                             *)
(***************************************************************************)
Hits(l, s, a) == (IF StartsAt(l, s, a) THEN 1 ELSE 0) + (IF StopsAt(l, s, a) THEN 1 ELSE 0)

Weighted(bag, s, a) == [l \in DOMAIN bag |-> bag[l] * Hits(l, s, a)]

EndsOf(bag, s, a) == SumOver(Weighted(bag, s, a), DOMAIN bag)

IsBagOfLines(bag) == IsFiniteSet(DOMAIN bag) /\ bag \in [DOMAIN bag -> Nat \ {0}]

LEMMA LineEndsAtIs ==
  \A s, a : LineEndsAt(s, a) = EndsOf(patch_line, s, a)
  <1> SUFFICES ASSUME NEW s, NEW a PROVE LineEndsAt(s, a) = EndsOf(patch_line, s, a)
    OBVIOUS
  <1> DEFINE w == Weighted(patch_line, s, a)
             S == DOMAIN patch_line
             Step1(g) == [x \in SUBSET S |->
                            IF x = {} THEN 0
                            ELSE patch_line[AnyOf(x)] * Hits(AnyOf(x), s, a) + g[x \ {AnyOf(x)}]]
             Step2(g) == [x \in SUBSET S |-> IF x = {} THEN 0 ELSE w[AnyOf(x)] + g[x \ {AnyOf(x)}]]
  <1>1. LineEndsAt(s, a) = (CHOOSE g : g = Step1(g))[S]
    BY DEF LineEndsAt, Times, MapThenSumSet, MapThenFoldSet, AnyOf, Hits, StartsAt, StopsAt
  <1>2. EndsOf(patch_line, s, a) = (CHOOSE g : g = Step2(g))[S]
    BY DEF EndsOf, SumOver, MapThenSumSet, MapThenFoldSet, AnyOf
  <1>3. \A g : Step1(g) = Step2(g)
    <2>1. \A x \in SUBSET S : x # {} => w[AnyOf(x)] = patch_line[AnyOf(x)] * Hits(AnyOf(x), s, a)
      BY DEF AnyOf, Weighted
    <2> HIDE DEF w
    <2>. QED  BY <2>1
  <1> HIDE DEF Step1, Step2, S
  <1>. QED  BY <1>1, <1>2, <1>3

LEMMA HitsType ==
  \A l, s, a : Hits(l, s, a) \in Nat /\ (Hits(l, s, a) = 0 <=> ~StartsAt(l, s, a) /\ ~StopsAt(l, s, a))
  BY DEF Hits

LEMMA WeightedType ==
  ASSUME NEW bag, IsBagOfLines(bag), NEW s, NEW a
  PROVE  /\ Weighted(bag, s, a) \in [DOMAIN bag -> Nat]
         /\ \A l \in DOMAIN bag : /\ Weighted(bag, s, a)[l] = bag[l] * Hits(l, s, a)
                                  /\ Weighted(bag, s, a)[l] = 0 <=> Hits(l, s, a) = 0
  <1>1. \A x \in Nat \ {0}, y \in Nat : x * y \in Nat /\ (x * y = 0 <=> y = 0)
    OBVIOUS
  <1>2. \A l \in DOMAIN bag : bag[l] \in Nat \ {0} /\ Hits(l, s, a) \in Nat
    BY HitsType DEF IsBagOfLines
  <1>. QED  BY <1>1, <1>2 DEF Weighted

(* No line ends at a port exactly when their number there is 0.              *)
LEMMA EndsOfZero ==
  ASSUME NEW bag, IsBagOfLines(bag), NEW s, NEW a
  PROVE  /\ EndsOf(bag, s, a) \in Nat
         /\ EndsOf(bag, s, a) = 0 <=> \A l \in DOMAIN bag : ~StartsAt(l, s, a) /\ ~StopsAt(l, s, a)
  <1> DEFINE w == Weighted(bag, s, a)
             S == DOMAIN bag
             zero == [l \in S |-> 0]
  <1>1. w \in [S -> Int] /\ \A l \in S : w[l] \in Nat /\ (w[l] = 0 <=> Hits(l, s, a) = 0)
    BY WeightedType
  <1>2. IsFiniteSet(S)
    BY DEF IsBagOfLines
  <1>3. zero \in [S -> Int] /\ \A l \in S : zero[l] = 0
    OBVIOUS
  <1> HIDE DEF w, zero, S
  <1>4. \A R \in SUBSET S : IsFiniteSet(R) => SumOver(zero, R) = 0
    <2> SUFFICES ASSUME NEW R \in SUBSET S, IsFiniteSet(R) PROVE SumOver(zero, R) = 0
      OBVIOUS
    <2>1. SumOver(zero, R) = 0 * Cardinality(R) /\ Cardinality(R) \in Nat
      BY <1>3, SumOverConstant
    <2>. QED  BY <2>1
  <1>5. \A R \in SUBSET S : IsFiniteSet(R) => SumOver(w, R) \in Nat
    <2> SUFFICES ASSUME NEW R \in SUBSET S, IsFiniteSet(R) PROVE SumOver(w, R) \in Nat
      OBVIOUS
    <2>1. \A l \in R : zero[l] <= w[l]
      BY <1>1, <1>3
    <2>2. SumOver(zero, R) <= SumOver(w, R)
      BY <1>1, <1>3, <2>1, SumOverAtMost
    <2>3. SumOver(w, R) \in Int
      BY <1>1, SumOverOne
    <2>. QED  BY <1>4, <2>2, <2>3
  <1>6. ASSUME NEW l \in S, Hits(l, s, a) # 0 PROVE SumOver(w, S) # 0
    <2>1. SumOver(w, S) = w[l] + SumOver(w, S \ {l})
      BY <1>1, <1>2, SumOverOne
    <2>2. SumOver(w, S \ {l}) \in Nat
      BY <1>2, <1>5, FS_RemoveElement
    <2>. QED  BY <1>1, <1>6, <2>1, <2>2
  <1>7. ASSUME \A l \in S : Hits(l, s, a) = 0 PROVE SumOver(w, S) = 0
    <2>1. \A l \in S : w[l] = zero[l]
      BY <1>1, <1>3, <1>7
    <2>2. SumOver(w, S) = SumOver(zero, S)
      BY <1>1, <1>2, <1>3, <2>1, SumOverSame
    <2>. QED  BY <1>2, <1>4, <2>2
  <1>. QED  BY <1>2, <1>5, <1>6, <1>7, HitsType DEF EndsOf, w, S

MoreEnds(old, new, l) == \A s, a : EndsOf(new, s, a) = EndsOf(old, s, a) + Hits(l, s, a)

(* One more line in the bag.                                                 *)
LEMMA OneMoreLine ==
  ASSUME NEW bag, IsBagOfLines(bag), NEW l
  PROVE  /\ IsBagOfLines(bag (+) Once(l)) /\ DOMAIN (bag (+) Once(l)) = DOMAIN bag \union {l}
         /\ MoreEnds(bag, bag (+) Once(l), l)
  <1> DEFINE new == bag (+) Once(l)
             S == DOMAIN bag
             N == DOMAIN new
  <1>1. N = S \union {l} /\ \A k \in N : new[k] = (IF k \in S THEN bag[k] ELSE 0) + (IF k = l THEN 1 ELSE 0)
    BY DEF Once, SetToBag, (+)
  <1>2. \A k \in S : bag[k] \in Nat \ {0}
    BY DEF IsBagOfLines
  <1>3. IsFiniteSet(S) /\ IsFiniteSet(N)
    BY <1>1, FS_AddElement DEF IsBagOfLines
  <1>4. new \in [N -> Nat \ {0}]
    <2>1. new = [k \in N |-> new[k]]
      BY DEF (+)
    <2>2. \A k \in N : new[k] \in Nat \ {0}
      BY <1>1, <1>2
    <2> HIDE DEF N
    <2>. QED  BY <2>1, <2>2
  <1>5. IsBagOfLines(new)
    BY <1>3, <1>4 DEF IsBagOfLines
  <1>6. ASSUME NEW s, NEW a PROVE EndsOf(new, s, a) = EndsOf(bag, s, a) + Hits(l, s, a)
    <2> DEFINE f == Weighted(bag, s, a)
               g == Weighted(new, s, a)
    <2>1. /\ f \in [S -> Int] /\ \A k \in S : f[k] = bag[k] * Hits(k, s, a)
          /\ g \in [N -> Int] /\ \A k \in N : g[k] = new[k] * Hits(k, s, a)
      BY <1>5, WeightedType
    <2>2. \A k : Hits(k, s, a) \in Nat
      BY HitsType
    <2>0. EndsOf(new, s, a) = SumOver(g, N) /\ EndsOf(bag, s, a) = SumOver(f, S)
      BY DEF EndsOf
    <2> HIDE DEF f, g, S, N
    <2>3. \A k \in S : k # l => g[k] = f[k]
      BY <1>1, <1>2, <2>1
    <2>4. SumOver(g, N) = g[l] + SumOver(g, N \ {l})
      <3>1. l \in N /\ N \in SUBSET N /\ IsFiniteSet(N) /\ g \in [N -> Int]
        BY <1>1, <1>3, <2>1
      <3>. QED  BY ONLY <3>1, SumOverOne
    <2>5. N \ {l} = S \ {l} /\ IsFiniteSet(S \ {l})
      BY <1>1, <1>3, FS_RemoveElement
    <2>6. SumOver(g, S \ {l}) = SumOver(f, S \ {l})
      <3>1. \A k \in S \ {l} : g[k] = f[k]
        BY <2>3
      <3>2. S \ {l} \in SUBSET N /\ S \ {l} \in SUBSET S
        BY <1>1
      <3>. QED  BY <2>1, <2>5, <3>1, <3>2, SumOverSame
    <2>7. SumOver(f, S \ {l}) \in Int
      BY <2>1, <2>5, SumOverOne
    <2>8. CASE l \in S
      <3>1. SumOver(f, S) = f[l] + SumOver(f, S \ {l})
        BY <1>3, <2>1, <2>8, SumOverOne
      <3>2. new[l] = bag[l] + 1
        BY <1>1, <2>8
      <3>3. \A x, h \in Nat : (x + 1) * h = x * h + h
        OBVIOUS
      <3>4. g[l] = f[l] + Hits(l, s, a) /\ f[l] \in Int
        BY <1>1, <1>2, <2>1, <2>2, <2>8, <3>2, <3>3
      <3>5. SumOver(g, N) = g[l] + SumOver(f, S \ {l}) /\ SumOver(f, S \ {l}) \in Int
        BY <2>4, <2>5, <2>6, <2>7
      <3>6. Hits(l, s, a) \in Int
        BY <2>2
      <3>. QED  BY ONLY <2>0, <3>1, <3>4, <3>5, <3>6
    <2>9. CASE l \notin S
      <3>1. S \ {l} = S
        BY <2>9
      <3>2. new[l] = 1
        BY <1>1, <2>9
      <3>3. g[l] = Hits(l, s, a) /\ Hits(l, s, a) \in Int
        BY <1>1, <2>1, <2>2, <3>2
      <3>4. SumOver(g, N \ {l}) = SumOver(f, S) /\ SumOver(f, S) \in Int
        BY <2>5, <2>6, <2>7, <3>1
      <3>5. SumOver(g, N) = SumOver(f, S) + Hits(l, s, a)
        BY ONLY <2>4, <3>3, <3>4
      <3>. QED  BY ONLY <2>0, <3>5
    <2>. QED  BY <2>8, <2>9
  <1>. QED  BY <1>1, <1>5, <1>6 DEF MoreEnds

-----------------------------------------------------------------------------
(***************************************************************************)
(* The tally of the ports.  D are the ports that a line is still due from, *)
(* C that of the line that is being traced.  A port along the boundary has *)
(* no line, a chord one from each end that has been visited, and any other *)
(* port one line as soon as it is neither in D nor in C.                   *)
(***************************************************************************)
AlongOf(m, s, a) == {<<s, a>>, <<a, s>>} \intersect m.boundaryvertex # {}
ChordOf(m, s, a) == {s, a} \subseteq m.boundary_singularity
Own(m, s, a) == ~AlongOf(m, s, a) /\ ~ChordOf(m, s, a)

Tally(m, bag, D, C) ==
  \A s \in SingularOf(m) : \A a \in m.adj_compact[s] :
    EndsOf(bag, s, a) =
      IF AlongOf(m, s, a) THEN 0
      ELSE IF ChordOf(m, s, a)
           THEN (IF <<s, a>> \in D THEN 0 ELSE 1) + (IF <<a, s>> \in D THEN 0 ELSE 1)
      ELSE IF <<s, a>> \in D \union C THEN 0 ELSE 1

LinesOf(m, bag) == IsBagOfLines(bag) /\ \A l \in DOMAIN bag : FullLine(m, l)

(* The two ends of a line lead to neighbours.                                *)
LEMMA EndsArePorts ==
  ASSUME NEW m, GoodMesh(m), NEW l, FullLine(m, l)
  PROVE  /\ l[1] \in SingularOf(m) /\ l[2] \in m.adj_compact[l[1]]
         /\ Last(l) \in DOMAIN m.adj_compact /\ l[Len(l) - 1] \in m.adj_compact[Last(l)]
  <1> DEFINE n == Len(l)
  <1>1. n \in Nat /\ n >= 2 /\ l \in Seq(DOMAIN m.adj_compact)
    BY DEF FullLine, Runs
  <1>2. \A j \in 1 .. n : l[j] \in DOMAIN m.adj_compact
    BY <1>1
  <1>3. l[1] \in SingularOf(m) /\ l[1 + 1] \in m.adj_compact[l[1]]
    BY <1>1 DEF FullLine, Runs
  <1>4. l[(n - 1) + 1] \in m.adj_compact[l[n - 1]]
    BY <1>1 DEF FullLine, Runs
  <1>5. (n - 1) + 1 = n /\ n - 1 \in 1 .. n /\ n \in 1 .. n /\ 1 + 1 = 2
    BY <1>1
  <1>. QED  BY <1>2, <1>3, <1>4, <1>5 DEF GoodMesh, Last

(* A line that is due arrives at a port another line is due from.            *)
LEMMA ArrivesAtDue ==
  ASSUME NEW m, GoodMesh(m), NEW bag, LinesOf(m, bag), NEW D, NEW C, Tally(m, bag, D, C),
         NEW l, FullLine(m, l), C \subseteq {<<l[1], l[2]>>}, <<l[1], l[2]>> \in D \union C,
         Own(m, l[1], l[2]), Last(l) \in SingularOf(m), Own(m, Last(l), l[Len(l) - 1])
  PROVE  /\ <<Last(l), l[Len(l) - 1]>> \in D
         /\ <<Last(l), l[Len(l) - 1]>> # <<l[1], l[2]>>
         /\ EndsOf(bag, Last(l), l[Len(l) - 1]) = 0
  <1> DEFINE v == Last(l)
             b == l[Len(l) - 1]
  <1>1. /\ l[1] \in SingularOf(m) /\ l[2] \in m.adj_compact[l[1]]
        /\ v \in SingularOf(m) /\ b \in m.adj_compact[v]
    BY EndsArePorts
  <1>2. EndsOf(bag, l[1], l[2]) = 0
    BY <1>1 DEF Tally, Own
  <1>3. IsBagOfLines(bag) /\ \A k \in DOMAIN bag : FullLine(m, k)
    BY DEF LinesOf
  <1>4. \A k \in DOMAIN bag : ~StartsAt(k, l[1], l[2]) /\ ~StopsAt(k, l[1], l[2])
    BY <1>2, <1>3, EndsOfZero
  <1>5. \A k \in DOMAIN bag : ~StartsAt(k, v, b) /\ ~StopsAt(k, v, b)
    <2>1. StopsAt(l, v, b)
      BY DEF StopsAt
    <2> HIDE DEF v, b
    <2>. QED  BY <1>1, <1>3, <1>4, <2>1, SharedPort
  <1>6. EndsOf(bag, v, b) = 0
    BY <1>3, <1>5, EndsOfZero
  <1>7. <<v, b>> # <<l[1], l[2]>>
    <2>1. ~StopsAt(l, l[1], l[2])
      BY NotOwnEnd
    <2>. QED  BY <2>1 DEF StopsAt
  <1>8. <<v, b>> \in D \union C
    <2> HIDE DEF v, b
    <2>1. Own(m, v, b)
      BY DEF v, b
    <2>2. EndsOf(bag, v, b) = IF <<v, b>> \in D \union C THEN 0 ELSE 1
      BY <1>1, <2>1 DEF Tally, Own
    <2>. QED  BY <1>6, <2>2
  <1>. QED  BY <1>6, <1>7, <1>8

LEMMA HitsIs ==
  ASSUME NEW l, NEW s, NEW a
  PROVE  Hits(l, s, a) = (IF <<s, a>> = <<l[1], l[2]>> THEN 1 ELSE 0)
                         + (IF <<s, a>> = <<Last(l), l[Len(l) - 1]>> THEN 1 ELSE 0)
  BY DEF Hits, StartsAt, StopsAt

LEMMA OwnOpposite ==
  ASSUME NEW m, NEW s, NEW a
  PROVE  /\ AlongOf(m, s, a) <=> AlongOf(m, a, s)
         /\ ChordOf(m, s, a) <=> ChordOf(m, a, s)
  BY DEF AlongOf, ChordOf

(* A line is finished.                                                       *)
LEMMA TallyFinish ==
  ASSUME NEW m, GoodMesh(m), NEW bag, LinesOf(m, bag), NEW D, NEW C, Tally(m, bag, D, C),
         NEW l, FullLine(m, l), C \subseteq {<<l[1], l[2]>>}, <<l[1], l[2]>> \in D \union C,
         Own(m, l[1], l[2]), Last(l) \in SingularOf(m) => Own(m, Last(l), l[Len(l) - 1]),
         NEW new, new = bag (+) Once(l)
  PROVE  /\ LinesOf(m, new)
         /\ Tally(m, new, D \ {<<l[1], l[2]>>, <<Last(l), l[Len(l) - 1]>>}, {})
         /\ Last(l) \in SingularOf(m) => /\ <<Last(l), l[Len(l) - 1]>> \in D
                                         /\ <<Last(l), l[Len(l) - 1]>> # <<l[1], l[2]>>
  <1> DEFINE q == <<l[1], l[2]>>
             e == <<Last(l), l[Len(l) - 1]>>
  <1>1. /\ IsBagOfLines(new) /\ DOMAIN new = DOMAIN bag \union {l}
        /\ \A s, a : EndsOf(new, s, a) = EndsOf(bag, s, a) + Hits(l, s, a)
    <2>1. IsBagOfLines(bag)
      BY DEF LinesOf
    <2>2. /\ IsBagOfLines(new) /\ DOMAIN new = DOMAIN bag \union {l}
          /\ MoreEnds(bag, new, l)
      BY <2>1, OneMoreLine
    <2>. QED  BY <2>2 DEF MoreEnds
  <1>2. Last(l) \in SingularOf(m) => e \in D /\ e # q /\ EndsOf(bag, Last(l), l[Len(l) - 1]) = 0
    BY ArrivesAtDue
  <1>3. l[1] \in SingularOf(m) /\ l[2] \in m.adj_compact[l[1]]
    BY EndsArePorts
  <1>4. EndsOf(bag, l[1], l[2]) = 0
    BY <1>3 DEF Tally, Own
  <1>5. ASSUME NEW s \in SingularOf(m), NEW a \in m.adj_compact[s]
        PROVE  EndsOf(new, s, a) =
                 IF AlongOf(m, s, a) THEN 0
                 ELSE IF ChordOf(m, s, a)
                      THEN (IF <<s, a>> \in D \ {q, e} THEN 0 ELSE 1)
                           + (IF <<a, s>> \in D \ {q, e} THEN 0 ELSE 1)
                 ELSE IF <<s, a>> \in (D \ {q, e}) \union {} THEN 0 ELSE 1
    <2>1. Hits(l, s, a) = (IF <<s, a>> = q THEN 1 ELSE 0) + (IF <<s, a>> = e THEN 1 ELSE 0)
      BY HitsIs
    <2>2. EndsOf(new, s, a) = EndsOf(bag, s, a) + Hits(l, s, a)
      BY <1>1
    <2>3. CASE <<s, a>> = q
      <3>1. s = l[1] /\ a = l[2] /\ q # e
        BY <1>2, <1>3, <2>3
      <3>2. EndsOf(new, s, a) = 1 /\ ~AlongOf(m, s, a) /\ ~ChordOf(m, s, a)
        BY <1>4, <2>1, <2>2, <2>3, <3>1 DEF Own
      <3>. QED  BY <2>3, <3>2
    <2>4. CASE <<s, a>> = e
      <3>1. s = Last(l) /\ a = l[Len(l) - 1] /\ e # q
        BY <1>2, <2>4
      <3>2. EndsOf(new, s, a) = 1 /\ ~AlongOf(m, s, a) /\ ~ChordOf(m, s, a)
        BY <1>2, <2>1, <2>2, <2>4, <3>1 DEF Own
      <3>. QED  BY <2>4, <3>2
    <2>5. CASE <<s, a>> # q /\ <<s, a>> # e
      <3>1. EndsOf(new, s, a) = EndsOf(bag, s, a)
        <4>1. EndsOf(bag, s, a) \in Nat
          BY EndsOfZero DEF LinesOf
        <4>. QED  BY <2>1, <2>2, <2>5, <4>1
      <3>2. <<s, a>> \in D \union C <=> <<s, a>> \in D \ {q, e}
        BY <2>5
      <3>3. <<s, a>> \in D <=> <<s, a>> \in D \ {q, e}
        BY <2>5
      <3>4. ChordOf(m, s, a) /\ ~AlongOf(m, s, a) => (<<a, s>> \in D <=> <<a, s>> \in D \ {q, e})
        <4>1. ASSUME ChordOf(m, s, a), ~AlongOf(m, s, a) PROVE <<a, s>> # q /\ <<a, s>> # e
          <5>1. ChordOf(m, a, s) /\ a \in SingularOf(m)
            BY <4>1 DEF ChordOf, SingularOf
          <5>. QED  BY <5>1 DEF Own
        <4>. QED  BY <4>1
      <3> HIDE DEF q, e
      <3>. QED  BY <3>1, <3>2, <3>3, <3>4 DEF Tally
    <2>. QED  BY <2>3, <2>4, <2>5
  <1>6. LinesOf(m, new)
    BY <1>1 DEF LinesOf
  <1>7. Tally(m, new, D \ {q, e}, {})
    <2> HIDE DEF q, e
    <2>. QED  BY <1>5 DEF Tally
  <1>. QED  BY <1>2, <1>6, <1>7

(* A line is begun.                                                          *)
LEMMA TallyStart ==
  ASSUME NEW m, NEW bag, NEW D, Tally(m, bag, D, {}), NEW s0, NEW p, <<s0, p>> \in D, Own(m, s0, p)
  PROVE  Tally(m, bag, D \ {<<s0, p>>}, {<<s0, p>>})
  <1> DEFINE q == <<s0, p>>
  <1>1. ASSUME NEW s \in SingularOf(m), NEW a \in m.adj_compact[s]
        PROVE  EndsOf(bag, s, a) =
                 IF AlongOf(m, s, a) THEN 0
                 ELSE IF ChordOf(m, s, a)
                      THEN (IF <<s, a>> \in D \ {q} THEN 0 ELSE 1)
                           + (IF <<a, s>> \in D \ {q} THEN 0 ELSE 1)
                 ELSE IF <<s, a>> \in (D \ {q}) \union {q} THEN 0 ELSE 1
    <2>1. <<s, a>> \in D \union {} <=> <<s, a>> \in (D \ {q}) \union {q}
      OBVIOUS
    <2>2. ChordOf(m, s, a) => <<s, a>> # q /\ <<a, s>> # q
      BY OwnOpposite DEF Own
    <2>3. ChordOf(m, s, a) => /\ <<s, a>> \in D <=> <<s, a>> \in D \ {q}
                              /\ <<a, s>> \in D <=> <<a, s>> \in D \ {q}
      BY <2>2
    <2> HIDE DEF q
    <2>. QED  BY <2>1, <2>3 DEF Tally
  <1> HIDE DEF q
  <1>2. Tally(m, bag, D \ {q}, {q})
    BY <1>1 DEF Tally
  <1>. QED  BY <1>2 DEF q

(* A port along the boundary is passed over.                                 *)
LEMMA TallySkip ==
  ASSUME NEW m, NEW bag, NEW D, Tally(m, bag, D, {}), NEW s0, NEW p, AlongOf(m, s0, p)
  PROVE  Tally(m, bag, D \ {<<s0, p>>}, {})
  <1> DEFINE q == <<s0, p>>
  <1>1. ASSUME NEW s \in SingularOf(m), NEW a \in m.adj_compact[s]
        PROVE  EndsOf(bag, s, a) =
                 IF AlongOf(m, s, a) THEN 0
                 ELSE IF ChordOf(m, s, a)
                      THEN (IF <<s, a>> \in D \ {q} THEN 0 ELSE 1)
                           + (IF <<a, s>> \in D \ {q} THEN 0 ELSE 1)
                 ELSE IF <<s, a>> \in (D \ {q}) \union {} THEN 0 ELSE 1
    <2>1. ~AlongOf(m, s, a) => <<s, a>> # q /\ <<a, s>> # q
      BY OwnOpposite
    <2>2. ~AlongOf(m, s, a) => /\ <<s, a>> \in D <=> <<s, a>> \in D \ {q}
                               /\ <<s, a>> \in D \union {} <=> <<s, a>> \in (D \ {q}) \union {}
                               /\ <<a, s>> \in D <=> <<a, s>> \in D \ {q}
      BY <2>1
    <2> HIDE DEF q
    <2>. QED  BY <2>2 DEF Tally
  <1> HIDE DEF q
  <1>2. Tally(m, bag, D \ {q}, {})
    BY <1>1 DEF Tally
  <1>. QED  BY <1>2 DEF q

(* A chord is traced from one of its ends.                                   *)
LEMMA TallyChord ==
  ASSUME NEW m, NEW bag, LinesOf(m, bag), NEW D, Tally(m, bag, D, {}),
         NEW s0, NEW p, <<s0, p>> \in D, s0 # p, ~AlongOf(m, s0, p), ChordOf(m, s0, p),
         NEW new, new = bag (+) Once(<<s0, p>>)
  PROVE  Tally(m, new, D \ {<<s0, p>>}, {})
  <1> DEFINE q == <<s0, p>>
             e == <<p, s0>>
  <1>1. \A s, a : EndsOf(new, s, a) = EndsOf(bag, s, a) + Hits(q, s, a)
    <2>1. IsBagOfLines(bag) /\ new = bag (+) Once(q)
      BY DEF LinesOf
    <2> HIDE DEF q
    <2>2. MoreEnds(bag, new, q)
      BY <2>1, OneMoreLine
    <2>. QED  BY <2>2 DEF MoreEnds
  <1>2. \A s, a : Hits(q, s, a) = (IF <<s, a>> = q THEN 1 ELSE 0) + (IF <<s, a>> = e THEN 1 ELSE 0)
    <2>1. q[1] = s0 /\ q[2] = p /\ Last(q) = p /\ q[Len(q) - 1] = s0
      BY DEF Last
    <2>. QED  BY <2>1, HitsIs
  <1>3. \A s, a : EndsOf(bag, s, a) \in Nat
    BY EndsOfZero DEF LinesOf
  <1>4. q # e /\ q \in D
    OBVIOUS
  <1>5. ASSUME NEW s \in SingularOf(m), NEW a \in m.adj_compact[s]
        PROVE  EndsOf(new, s, a) =
                 IF AlongOf(m, s, a) THEN 0
                 ELSE IF ChordOf(m, s, a)
                      THEN (IF <<s, a>> \in D \ {q} THEN 0 ELSE 1)
                           + (IF <<a, s>> \in D \ {q} THEN 0 ELSE 1)
                 ELSE IF <<s, a>> \in (D \ {q}) \union {} THEN 0 ELSE 1
    <2>1. EndsOf(bag, s, a) =
            IF AlongOf(m, s, a) THEN 0
            ELSE IF ChordOf(m, s, a)
                 THEN (IF <<s, a>> \in D THEN 0 ELSE 1) + (IF <<a, s>> \in D THEN 0 ELSE 1)
            ELSE IF <<s, a>> \in D \union {} THEN 0 ELSE 1
      BY DEF Tally
    <2>2. CASE <<s, a>> = q
      <3>1. /\ ~AlongOf(m, s, a) /\ ChordOf(m, s, a) /\ <<a, s>> = e /\ <<s, a>> # e
            /\ EndsOf(new, s, a) = EndsOf(bag, s, a) + 1
        BY <1>1, <1>2, <1>4, <2>2
      <3>. QED  BY <1>4, <2>1, <2>2, <3>1
    <2>3. CASE <<s, a>> = e
      <3>1. /\ ~AlongOf(m, s, a) /\ ChordOf(m, s, a) /\ <<a, s>> = q /\ <<s, a>> # q
            /\ EndsOf(new, s, a) = EndsOf(bag, s, a) + 1
        BY <1>1, <1>2, <1>4, <2>3, OwnOpposite
      <3>. QED  BY <1>4, <2>1, <2>3, <3>1
    <2>4. CASE <<s, a>> # q /\ <<s, a>> # e
      <3>1. <<a, s>> # q /\ EndsOf(new, s, a) = EndsOf(bag, s, a)
        BY <1>1, <1>2, <1>3, <2>4
      <3> HIDE DEF q, e
      <3>. QED  BY <2>1, <2>4, <3>1
    <2>. QED  BY <2>2, <2>3, <2>4
  <1>6. Tally(m, new, D \ {q}, {})
    <2> HIDE DEF q, e
    <2>. QED  BY <1>5 DEF Tally
  <1>. QED  BY <1>6

-----------------------------------------------------------------------------
(***************************************************************************)
(* The inductive invariant.                                                *)
(***************************************************************************)
Dues(m, free, ahead, here, open) ==
  {e \in Nat \X Nat :
     /\ e[1] \in SingularOf(m) /\ e[2] \in free[e[1]]
     /\ e[1] \in ahead \/ (e[1] = here /\ e[2] \in open)}

DueFrom(m, D, s) == {a \in m.adj_compact[s] : <<s, a>> \in D}

Inner == pc \in {"inner", "innerline"}
Drawing == pc \in {"innerline", "borderline"}
Visited == IF Inner THEN mesh.singularity ELSE mesh.boundary_singularity

(* The singularities that will be visited, in this pass or the next.         *)
Ahead == todo \union (IF Inner THEN mesh.boundary_singularity ELSE {})

DuePorts == Dues(mesh, ports, Ahead, at, left)
CurrentPort == IF Drawing THEN {<<line[1], line[2]>>} ELSE {}

Shape ==
  /\ pc \in {"inner", "innerline", "border", "borderline", "loops", "done"}
  /\ \E F \in Meshes : mesh = MeshOf(F)
  /\ ports \in [AllSingular -> SUBSET Nat] /\ \A s \in AllSingular : ports[s] \subseteq mesh.adj_compact[s]
  /\ assist \in [DOMAIN mesh.adj_compact -> Int]
  /\ todo \subseteq Visited /\ at \in Visited \union {-1} /\ at \notin todo
  /\ left \subseteq (IF at = -1 THEN {} ELSE mesh.adj_compact[at])
  /\ Laid => todo = {} /\ Unstruck = {}

Begun ==
  Drawing => /\ Runs(mesh, line) /\ Last(line) \in RegularOf(mesh)
             /\ line[1] = at /\ line[2] \notin left

(* An inner singularity expects the lines that are due from it.              *)
Expected ==
  Inner => \A s \in mesh.singularity : assist[s] = Cardinality(DueFrom(mesh, DuePorts, s))

IInv ==
  /\ Shape /\ Begun /\ Expected
  /\ LinesOf(mesh, patch_line)
  /\ Tally(mesh, patch_line, DuePorts, CurrentPort)

(* The mesh is good, and what is visited is one kind of its singularities.   *)
LEMMA ShapeFacts ==
  ASSUME Shape
  PROVE  /\ GoodMesh(mesh) /\ AllSingular = SingularOf(mesh)
         /\ AllSingular \subseteq DOMAIN mesh.adj_compact
         /\ Visited \subseteq AllSingular
         /\ Inner => Visited \intersect mesh.boundary_o = {}
         /\ \A v \in DOMAIN mesh.adj_compact :
              /\ v \in Nat
              /\ mesh.adj_compact[v] \subseteq Nat /\ IsFiniteSet(mesh.adj_compact[v])
  <1>1. GoodMesh(mesh)
    BY MeshIsGood DEF Shape
  <1>2. \A v \in DOMAIN mesh.adj_compact :
          /\ v \in Nat
          /\ mesh.adj_compact[v] \subseteq Nat /\ IsFiniteSet(mesh.adj_compact[v])
    <2>1. /\ DOMAIN mesh.adj_compact \in SUBSET Nat /\ IsFiniteSet(DOMAIN mesh.adj_compact)
          /\ \A v \in DOMAIN mesh.adj_compact : mesh.adj_compact[v] \subseteq DOMAIN mesh.adj_compact
      BY <1>1 DEF GoodMesh
    <2>. QED  BY <2>1, FS_Subset
  <1>. QED  BY <1>1, <1>2 DEF GoodMesh, AllSingular, SingularOf, Visited

(* An edge with an inner end is neither on the boundary nor a chord.         *)
LEMMA OwnInner ==
  ASSUME NEW m, GoodMesh(m), NEW s, NEW a, s \notin m.boundary_o \/ a \notin m.boundary_o
  PROVE  Own(m, s, a)
  BY DEF GoodMesh, Own, AlongOf, ChordOf

Struck(free, v, b) == IF v \in DOMAIN free THEN [free EXCEPT ![v] = @ \ {b}] ELSE free

(* A port that is struck is no longer due.                                   *)
LEMMA DuesStruck ==
  ASSUME NEW m, NEW free \in [SingularOf(m) -> SUBSET Nat], NEW v, NEW b,
         NEW ahead, NEW here, NEW open
  PROVE  /\ Struck(free, v, b) \in [SingularOf(m) -> SUBSET Nat]
         /\ \A s \in SingularOf(m) : Struck(free, v, b)[s] \subseteq free[s]
         /\ Dues(m, Struck(free, v, b), ahead, here, open)
              = Dues(m, free, ahead, here, open) \ {<<v, b>>}
  <1> DEFINE new == Struck(free, v, b)
  <1>1. /\ new \in [SingularOf(m) -> SUBSET Nat]
        /\ \A s \in SingularOf(m) : new[s] = IF s = v THEN free[s] \ {b} ELSE free[s]
    BY DEF Struck
  <1> HIDE DEF new
  <1>2. \A e \in Nat \X Nat : e[1] \in SingularOf(m) =>
          (e[2] \in new[e[1]] <=> e[2] \in free[e[1]] /\ e # <<v, b>>)
    BY <1>1
  <1>3. Dues(m, new, ahead, here, open)
          = Dues(m, free, ahead, here, open) \ {<<v, b>>}
    BY <1>2 DEF Dues
  <1>. QED  BY <1>1, <1>3 DEF new

(* The lines due from one singularity.                                       *)
LEMMA DueFromLess ==
  ASSUME NEW m, GoodMesh(m), NEW D, NEW s0 \in DOMAIN m.adj_compact,
         NEW a0 \in m.adj_compact[s0], <<s0, a0>> \in D, NEW s \in DOMAIN m.adj_compact
  PROVE  /\ Cardinality(DueFrom(m, D, s)) \in Nat
         /\ Cardinality(DueFrom(m, D \ {<<s0, a0>>}, s))
              = IF s = s0 THEN Cardinality(DueFrom(m, D, s)) - 1 ELSE Cardinality(DueFrom(m, D, s))
  <1>1. IsFiniteSet(DueFrom(m, D, s))
    <2>1. DueFrom(m, D, s) \subseteq DOMAIN m.adj_compact
      BY DEF DueFrom, GoodMesh
    <2>. QED  BY <2>1, FS_Subset DEF GoodMesh
  <1>2. Cardinality(DueFrom(m, D, s)) \in Nat
    BY <1>1, FS_CardinalityType
  <1>3. CASE s = s0
    <2>1. /\ DueFrom(m, D \ {<<s0, a0>>}, s) = DueFrom(m, D, s) \ {a0}
          /\ a0 \in DueFrom(m, D, s)
      BY <1>3 DEF DueFrom
    <2>2. Cardinality(DueFrom(m, D, s) \ {a0}) = Cardinality(DueFrom(m, D, s)) - 1
      BY <1>1, <2>1, FS_RemoveElement
    <2>. QED  BY <1>2, <1>3, <2>1, <2>2
  <1>4. CASE s # s0
    <2>1. DueFrom(m, D \ {<<s0, a0>>}, s) = DueFrom(m, D, s)
      BY <1>4 DEF DueFrom
    <2>. QED  BY <1>2, <1>4, <2>1
  <1>. QED  BY <1>3, <1>4

-----------------------------------------------------------------------------
(***************************************************************************)
(* The initial states, and the steps that trace no line.                   *)
(***************************************************************************)
LEMMA InitIInv ==
  ASSUME Init
  PROVE  IInv
  <1>1. PICK F \in Meshes : mesh = MeshOf(F)
    BY DEF Init
  <1>2. GoodMesh(mesh)
    BY <1>1, MeshIsGood
  <1>3. /\ AllSingular = SingularOf(mesh) /\ AllSingular \subseteq DOMAIN mesh.adj_compact
        /\ pc = "inner" /\ todo = mesh.singularity /\ at = -1 /\ left = {}
        /\ ports = [v \in AllSingular |-> mesh.adj_compact[v]]
        /\ \A v \in DOMAIN mesh.adj_compact : v \in Nat /\ mesh.adj_compact[v] \subseteq Nat
    BY <1>2 DEF Init, AllSingular, SingularOf, GoodMesh
  <1>4. assist \in [DOMAIN mesh.adj_compact -> Int]
    <2>1. \A v \in DOMAIN mesh.adj_compact : Cardinality(mesh.adj_compact[v]) \in Nat
      <3>1. \A v \in DOMAIN mesh.adj_compact : IsFiniteSet(mesh.adj_compact[v])
        BY <1>2, FS_Subset DEF GoodMesh
      <3>. QED  BY <3>1, FS_CardinalityType
    <2>. QED  BY <2>1 DEF Init
  <1>5. Shape
    <2>1. /\ ports \in [AllSingular -> SUBSET Nat]
          /\ \A s \in AllSingular : ports[s] \subseteq mesh.adj_compact[s]
      BY <1>3
    <2>2. at \notin todo
      BY <1>2, <1>3 DEF GoodMesh
    <2>. QED  BY <1>1, <1>3, <1>4, <2>1, <2>2 DEF Shape, Visited, Inner, Laid
  <1>6. \A s \in SingularOf(mesh) : \A a \in mesh.adj_compact[s] : <<s, a>> \in DuePorts
    <2> SUFFICES ASSUME NEW s \in SingularOf(mesh), NEW a \in mesh.adj_compact[s]
                 PROVE  <<s, a>> \in DuePorts
      OBVIOUS
    <2>1. /\ <<s, a>> \in Nat \X Nat /\ a \in ports[s] /\ Inner
          /\ s \in Ahead
      BY <1>3 DEF Inner, SingularOf, Ahead
    <2>. QED  BY <2>1 DEF DuePorts, Dues
  <1>7. Begun /\ CurrentPort = {}
    BY <1>3 DEF Begun, Drawing, CurrentPort
  <1>8. Expected
    <2> SUFFICES ASSUME NEW s \in mesh.singularity
                 PROVE  assist[s] = Cardinality(DueFrom(mesh, DuePorts, s))
      BY DEF Expected
    <2>1. s \in SingularOf(mesh) /\ s \in DOMAIN mesh.adj_compact /\ s \notin mesh.boundary_o
      BY <1>2, <1>3 DEF SingularOf, GoodMesh
    <2>2. DueFrom(mesh, DuePorts, s) = mesh.adj_compact[s]
      BY <1>6, <2>1 DEF DueFrom
    <2>3. Cardinality(mesh.adj_compact[s]) # 4
      <3>1. mesh.singularity = Singular(mesh.boundary_o, mesh.adj_compact)
        BY <1>1, MeshFields
      <3>. QED  BY <3>1 DEF Singular
    <2>4. assist[s] = Cardinality(mesh.adj_compact[s])
      BY <2>1, <2>3 DEF Init
    <2>. QED  BY <2>2, <2>4
  <1>9. LinesOf(mesh, patch_line) /\ IsBagOfLines(patch_line) /\ DOMAIN patch_line = {}
    <2>1. DOMAIN patch_line = {} /\ patch_line \in [{} -> Nat \ {0}]
      BY DEF Init, EmptyBag, SetToBag
    <2>. QED  BY <2>1, FS_EmptySet DEF LinesOf, IsBagOfLines
  <1>10. Tally(mesh, patch_line, DuePorts, CurrentPort)
    <2>1. \A s, a : EndsOf(patch_line, s, a) = 0
      BY <1>9, EndsOfZero
    <2>2. ASSUME NEW s \in SingularOf(mesh), NEW a \in mesh.adj_compact[s], ChordOf(mesh, s, a)
          PROVE  <<a, s>> \in DuePorts
      <3>1. a \in SingularOf(mesh) /\ s \in mesh.adj_compact[a]
        BY <1>2, <1>3, <2>2 DEF ChordOf, SingularOf, GoodMesh
      <3>. QED  BY <1>6, <3>1
    <2>3. ASSUME NEW s \in SingularOf(mesh), NEW a \in mesh.adj_compact[s]
          PROVE  0 = IF AlongOf(mesh, s, a) THEN 0
                     ELSE IF ChordOf(mesh, s, a)
                          THEN (IF <<s, a>> \in DuePorts THEN 0 ELSE 1)
                               + (IF <<a, s>> \in DuePorts THEN 0 ELSE 1)
                     ELSE IF <<s, a>> \in DuePorts \union CurrentPort THEN 0 ELSE 1
      <3>1. <<s, a>> \in DuePorts /\ <<s, a>> \in DuePorts \union CurrentPort
        BY <1>6
      <3>. QED  BY <2>2, <3>1
    <2>. QED  BY <2>1, <2>3 DEF Tally
  <1>. QED  BY <1>5, <1>7, <1>8, <1>9, <1>10 DEF IInv

(* A step that leaves the lines, and the ports they are due from.            *)
LEMMA SameTally ==
  ASSUME IInv, mesh' = mesh, patch_line' = patch_line, DuePorts' = DuePorts,
         ~Drawing, ~Drawing'
  PROVE  /\ Begun' /\ LinesOf(mesh, patch_line)' /\ Tally(mesh, patch_line, DuePorts, CurrentPort)'
         /\ assist' = assist /\ (Inner' => Inner) => Expected'
  <1>1. CurrentPort = {} /\ CurrentPort' = {}
    BY DEF CurrentPort
  <1>2. Begun'
    BY DEF Begun
  <1>3. LinesOf(mesh, patch_line)'
    BY DEF IInv
  <1>4. Tally(mesh, patch_line, DuePorts, CurrentPort)'
    BY <1>1 DEF IInv
  <1>5. assist' = assist /\ (Inner' => Inner) => Expected'
    BY DEF IInv, Expected
  <1>. QED  BY <1>2, <1>3, <1>4, <1>5

LEMMA NextSingularityIInv ==
  ASSUME IInv, NextSingularity
  PROVE  IInv'
  <1>1. Shape /\ Expected
    BY DEF IInv
  <1>2. /\ GoodMesh(mesh) /\ AllSingular = SingularOf(mesh)
        /\ AllSingular \subseteq DOMAIN mesh.adj_compact /\ Visited \subseteq AllSingular
        /\ \A v \in DOMAIN mesh.adj_compact :
              v \in Nat /\ mesh.adj_compact[v] \subseteq Nat /\ IsFiniteSet(mesh.adj_compact[v])
    BY <1>1, ShapeFacts
  <1>3. /\ pc \in {"inner", "border"} /\ Unstruck = {} /\ pc' = pc /\ mesh' = mesh
        /\ ports' = ports /\ assist' = assist /\ patch_line' = patch_line
        /\ todo' = todo \ {at'}
        /\ left' = IF pc = "inner" /\ assist[at'] = 0 THEN {} ELSE mesh.adj_compact[at']
    BY DEF NextSingularity
  <1>4. at' \in todo
    <2>1. todo \in SUBSET Nat /\ todo # {}
      BY <1>1, <1>2 DEF NextSingularity, Shape
    <2>2. PICK n \in todo : \A k \in todo : n <= k
      BY <2>1, LeastNatural
    <2>. QED  BY <2>2 DEF NextSingularity, Min
  <1>5. at' \in Visited /\ at' \in AllSingular /\ at' \in Nat
    BY <1>1, <1>2, <1>4 DEF Shape
  <1>6. Shape'
    <2>1. Visited' = Visited /\ ~Laid' /\ AllSingular' = AllSingular
      BY <1>3 DEF Visited, Inner, Laid, AllSingular
    <2>2. todo' \subseteq Visited' /\ at' \in Visited' \union {-1} /\ at' \notin todo'
      BY <1>1, <1>3, <1>5, <2>1 DEF Shape
    <2>3. left' \subseteq mesh.adj_compact[at'] /\ at' # -1
      BY <1>3, <1>5
    <2>. QED  BY <1>1, <1>3, <2>1, <2>2, <2>3 DEF Shape
  <1>7. DuePorts' = DuePorts
    <2>1. Inner' <=> Inner
      BY <1>3 DEF Inner
    <2>2. ASSUME NEW e \in Nat \X Nat, e[1] \in SingularOf(mesh), e[2] \in ports[e[1]]
          PROVE  e[1] \in todo \/ (e[1] = at /\ e[2] \in left)
                   <=> e[1] \in todo' \/ (e[1] = at' /\ e[2] \in left')
      <3>1. ~(e[1] = at /\ e[2] \in left)
        BY <1>3, <2>2 DEF Unstruck
      <3>2. ASSUME e[1] = at', e[2] \notin left' PROVE e[1] \notin todo
        <4>1. e[2] \in mesh.adj_compact[at']
          BY <1>1, <1>2, <2>2, <3>2 DEF Shape
        <4>2. pc = "inner" /\ assist[at'] = 0
          BY <1>3, <3>2, <4>1
        <4>3. at' \in mesh.singularity /\ Inner
          BY <1>5, <4>2 DEF Visited, Inner
        <4>4. Cardinality(DueFrom(mesh, DuePorts, at')) = 0
          BY <1>1, <4>2, <4>3 DEF Expected
        <4>5. IsFiniteSet(DueFrom(mesh, DuePorts, at'))
          <5>1. DueFrom(mesh, DuePorts, at') \subseteq mesh.adj_compact[at']
            BY DEF DueFrom
          <5>. QED  BY <1>2, <1>5, <5>1, FS_Subset
        <4>6. e[2] \notin DueFrom(mesh, DuePorts, at')
          BY <4>4, <4>5, FS_EmptySet
        <4>7. e = <<at', e[2]>>
          BY <3>2
        <4>8. e \notin DuePorts
          BY <4>1, <4>6, <4>7 DEF DueFrom
        <4>. QED  BY <2>2, <4>8 DEF DuePorts, Dues, Ahead
      <3>. QED  BY <1>3, <1>4, <3>1, <3>2
    <2>. QED  BY <1>3, <2>1, <2>2 DEF DuePorts, Dues, Ahead, SingularOf
  <1>8. ~Drawing /\ ~Drawing' /\ (Inner' => Inner)
    BY <1>3 DEF Drawing, Inner
  <1>. QED  BY <1>3, <1>6, <1>7, <1>8, SameTally DEF IInv

LEMMA BoundaryPassIInv ==
  ASSUME IInv, BoundaryPass
  PROVE  IInv'
  <1>1. Shape
    BY DEF IInv
  <1>2. /\ GoodMesh(mesh) /\ AllSingular = SingularOf(mesh)
        /\ AllSingular \subseteq DOMAIN mesh.adj_compact
        /\ \A v \in DOMAIN mesh.adj_compact : v \in Nat
    BY <1>1, ShapeFacts
  <1>3. /\ pc = "inner" /\ pc' = "border" /\ Unstruck = {} /\ todo = {} /\ mesh' = mesh
        /\ ports' = ports /\ assist' = assist /\ patch_line' = patch_line
        /\ todo' = mesh.boundary_singularity /\ at' = -1 /\ left' = {}
    BY DEF BoundaryPass
  <1>4. -1 \notin mesh.boundary_singularity
    BY <1>2 DEF AllSingular
  <1>5. Shape'
    <2>1. Visited' = mesh.boundary_singularity /\ ~Laid' /\ AllSingular' = AllSingular
      BY <1>3 DEF Visited, Inner, Laid, AllSingular
    <2>2. todo' \subseteq Visited' /\ at' \in Visited' \union {-1} /\ at' \notin todo'
      BY <1>3, <1>4, <2>1
    <2>. QED  BY <1>1, <1>3, <2>1, <2>2 DEF Shape
  <1>6. DuePorts' = DuePorts
    <2>1. Inner /\ ~Inner'
      BY <1>3 DEF Inner
    <2>2. ASSUME NEW e \in Nat \X Nat, e[1] \in SingularOf(mesh), e[2] \in ports[e[1]]
          PROVE  ~(e[1] = at /\ e[2] \in left) /\ e[1] # at'
      BY <1>3, <2>2 DEF Unstruck
    <2>. QED  BY <1>3, <2>1, <2>2 DEF DuePorts, Dues, Ahead, SingularOf
  <1>7. ~Drawing /\ ~Drawing' /\ ~Inner'
    BY <1>3 DEF Drawing, Inner
  <1>. QED  BY <1>3, <1>5, <1>6, <1>7, SameTally DEF IInv

(* The loops of the boundary come after the lines.                           *)
LEMMA LaidIInv ==
  ASSUME IInv, CutLines \/ StartLoop \/ FollowLoop \/ CloseLoop \/ LinesDone \/ UNCHANGED vars
  PROVE  IInv'
  <1>1. Shape
    BY DEF IInv
  <1>2. mesh' = mesh /\ UNCHANGED <<todo, at, left, ports, assist, line, patch_line>>
    BY DEF CutLines, StartLoop, FollowLoop, CloseLoop, LinesDone, vars, tracing
  <1>3. CASE pc' = pc
    <2>1. /\ Shape' = Shape /\ Begun' = Begun /\ Expected' = Expected
          /\ DuePorts' = DuePorts /\ CurrentPort' = CurrentPort
      BY <1>2, <1>3 DEF Shape, Visited, Inner, AllSingular, Laid, Unstruck, Begun, Drawing,
                        Expected, DuePorts, Ahead, CurrentPort
    <2>. QED  BY <1>2, <2>1 DEF IInv
  <1>4. CASE pc' # pc
    <2>1. /\ pc \in {"border", "loops"} /\ pc' \in {"loops", "done"}
          /\ todo = {} /\ Unstruck = {}
      BY <1>1, <1>4 DEF CutLines, StartLoop, FollowLoop, CloseLoop, LinesDone, vars, Shape, Laid
    <2>2. ~Inner /\ ~Inner' /\ ~Drawing /\ ~Drawing'
      BY <2>1 DEF Inner, Drawing
    <2>3. Shape'
      BY <1>1, <1>2, <2>1, <2>2 DEF Shape, Visited, AllSingular, Laid, Unstruck
    <2>4. DuePorts' = DuePorts
      BY <1>2, <2>2 DEF DuePorts, Ahead
    <2>. QED  BY <1>2, <2>2, <2>3, <2>4, SameTally DEF IInv
  <1>. QED  BY <1>3, <1>4

-----------------------------------------------------------------------------
(***************************************************************************)
(* What the steps that trace lines have in common.                         *)
(***************************************************************************)
(* A port of the singularity that is visited.                                *)
LEMMA PortFacts ==
  ASSUME IInv, pc \in {"inner", "border"}, NEW p \in Unstruck
  PROVE  /\ Shape /\ GoodMesh(mesh) /\ AllSingular = SingularOf(mesh)
         /\ at \in Visited /\ at \in AllSingular /\ at \in DOMAIN mesh.adj_compact
         /\ at \notin todo /\ at \notin Ahead
         /\ p \in left /\ p \in ports[at] /\ p \in mesh.adj_compact[at]
         /\ p \in DOMAIN mesh.adj_compact /\ p # at /\ at \in mesh.adj_compact[p]
         /\ <<at, p>> \in DuePorts /\ ~Drawing /\ CurrentPort = {}
  <1>1. Shape
    BY DEF IInv
  <1>2. /\ GoodMesh(mesh) /\ AllSingular = SingularOf(mesh)
        /\ AllSingular \subseteq DOMAIN mesh.adj_compact /\ Visited \subseteq AllSingular
        /\ Inner => Visited \intersect mesh.boundary_o = {}
        /\ \A v \in DOMAIN mesh.adj_compact : v \in Nat
    BY <1>1, ShapeFacts
  <1>3. at # -1 /\ p \in left /\ p \in ports[at]
    BY DEF Unstruck
  <1>4. at \in Visited /\ at \notin todo /\ p \in mesh.adj_compact[at]
    BY <1>1, <1>3 DEF Shape
  <1>5. at \in AllSingular /\ at \in DOMAIN mesh.adj_compact
    BY <1>2, <1>4
  <1>6. p \in DOMAIN mesh.adj_compact /\ p # at /\ at \in mesh.adj_compact[p]
    BY <1>2, <1>4, <1>5 DEF GoodMesh
  <1>7. at \notin Ahead
    BY <1>2, <1>4 DEF GoodMesh, Ahead
  <1>8. <<at, p>> \in DuePorts
    BY <1>2, <1>3, <1>5, <1>6 DEF DuePorts, Dues
  <1>9. ~Drawing /\ CurrentPort = {}
    BY DEF Drawing, CurrentPort
  <1>. QED  BY <1>1, <1>2, <1>3, <1>4, <1>5, <1>6, <1>7, <1>8, <1>9

(* An edge between two ends of lines is a line.                              *)
LEMMA EdgeLine ==
  ASSUME NEW m, GoodMesh(m), NEW s \in SingularOf(m), NEW p \in m.adj_compact[s]
  PROVE  /\ <<s, p>>[1] = s /\ <<s, p>>[2] = p /\ Len(<<s, p>>) = 2 /\ Last(<<s, p>>) = p
         /\ Runs(m, <<s, p>>)
         /\ p \in SingularOf(m) \union m.boundary_o => FullLine(m, <<s, p>>)
  <1>1. <<s, p>>[1] = s /\ <<s, p>>[2] = p /\ Len(<<s, p>>) = 2 /\ Last(<<s, p>>) = p
    BY DEF Last
  <1>2. <<s, p>> \in Seq(DOMAIN m.adj_compact)
    <2>1. s \in DOMAIN m.adj_compact /\ p \in DOMAIN m.adj_compact
      BY DEF GoodMesh, SingularOf
    <2>2. ASSUME NEW S, NEW x \in S, NEW y \in S PROVE <<x, y>> \in Seq(S)
      OBVIOUS
    <2>. QED  BY <2>1, <2>2
  <1>3. Runs(m, <<s, p>>)
    BY <1>1, <1>2 DEF Runs
  <1>. QED  BY <1>1, <1>3 DEF FullLine

LEMMA ShapeStep ==
  ASSUME Shape, mesh' = mesh, todo' = todo, at' = at, left' \subseteq left,
         ports' \in [AllSingular -> SUBSET Nat], \A s \in AllSingular : ports'[s] \subseteq ports[s],
         assist' \in [DOMAIN mesh.adj_compact -> Int],
         pc' \in {"inner", "innerline", "border", "borderline"}, Inner' <=> Inner
  PROVE  Shape'
  <1>1. Visited' = Visited /\ AllSingular' = AllSingular /\ ~Laid'
    BY DEF Visited, AllSingular, Laid
  <1>2. \A s \in AllSingular : ports'[s] \subseteq mesh.adj_compact[s]
    BY DEF Shape
  <1>3. todo' \subseteq Visited' /\ at' \in Visited' \union {-1} /\ at' \notin todo'
    BY <1>1 DEF Shape
  <1>4. left' \subseteq (IF at' = -1 THEN {} ELSE mesh'.adj_compact[at'])
    BY DEF Shape
  <1>5. \E F \in Meshes : mesh' = MeshOf(F)
    BY DEF Shape
  <1>. QED  BY <1>1, <1>2, <1>3, <1>4, <1>5 DEF Shape

LEMMA DuesStep ==
  ASSUME mesh' = mesh, todo' = todo, at' = at, Inner' <=> Inner
  PROVE  DuePorts' = Dues(mesh, ports', Ahead, at, left')
  <1>1. Ahead' = Ahead
    BY DEF Ahead
  <1>. QED  BY <1>1 DEF DuePorts

LEMMA DuesStrike ==
  ASSUME Shape, NEW v, NEW b
  PROVE  /\ Struck(ports, v, b) \in [AllSingular -> SUBSET Nat]
         /\ \A s \in AllSingular : Struck(ports, v, b)[s] \subseteq ports[s]
         /\ Dues(mesh, Struck(ports, v, b), Ahead, at, left) = DuePorts \ {<<v, b>>}
  <1>1. AllSingular = SingularOf(mesh) /\ ports \in [SingularOf(mesh) -> SUBSET Nat]
    BY ShapeFacts DEF Shape
  <1>. QED  BY <1>1, DuesStruck DEF DuePorts

(* The loop at the singularity reaches a port.                               *)
LEMMA DuesReach ==
  ASSUME mesh' = mesh, todo' = todo, at' = at, Inner' <=> Inner,
         at \notin Ahead, NEW p, left' = left \ {p}
  PROVE  DuePorts' = Dues(mesh, ports', Ahead, at, left) \ {<<at, p>>}
  <1>1. DuePorts' = Dues(mesh, ports', Ahead, at, left')
    BY DuesStep
  <1>2. at \notin Ahead /\ left' = left \ {p}
    OBVIOUS
  <1>3. Dues(mesh, ports', Ahead, at, left') = Dues(mesh, ports', Ahead, at, left) \ {<<at, p>>}
    <2>1. \A e \in Nat \X Nat : e = <<at, p>> <=> e[1] = at /\ e[2] = p
      OBVIOUS
    <2>. QED  BY ONLY <1>2, <2>1 DEF Dues
  <1>. QED  BY ONLY <1>1, <1>3

(* A line that was due, or was being traced, is finished.                    *)
LEMMA FinishStep ==
  ASSUME IInv, mesh' = mesh, NEW l, FullLine(mesh, l), CurrentPort \subseteq {<<l[1], l[2]>>},
         <<l[1], l[2]>> \in DuePorts \union CurrentPort, Own(mesh, l[1], l[2]),
         Last(l) \in SingularOf(mesh) => Own(mesh, Last(l), l[Len(l) - 1]),
         patch_line' = patch_line (+) Once(l), ~Drawing',
         DuePorts' = DuePorts \ {<<l[1], l[2]>>, <<Last(l), l[Len(l) - 1]>>}
  PROVE  /\ Begun' /\ LinesOf(mesh, patch_line)' /\ Tally(mesh, patch_line, DuePorts, CurrentPort)'
         /\ Last(l) \in SingularOf(mesh) => /\ <<Last(l), l[Len(l) - 1]>> \in DuePorts
                                            /\ <<Last(l), l[Len(l) - 1]>> # <<l[1], l[2]>>
  <1>1. /\ GoodMesh(mesh) /\ LinesOf(mesh, patch_line)
        /\ Tally(mesh, patch_line, DuePorts, CurrentPort)
    BY ShapeFacts DEF IInv
  <1>2. CurrentPort' = {}
    BY DEF CurrentPort
  <1>3. /\ LinesOf(mesh, patch_line')
        /\ Tally(mesh, patch_line', DuePorts \ {<<l[1], l[2]>>, <<Last(l), l[Len(l) - 1]>>}, {})
        /\ Last(l) \in SingularOf(mesh) => /\ <<Last(l), l[Len(l) - 1]>> \in DuePorts
                                           /\ <<Last(l), l[Len(l) - 1]>> # <<l[1], l[2]>>
    BY <1>1, TallyFinish
  <1>4. Begun'
    BY DEF Begun
  <1>. QED  BY <1>2, <1>3, <1>4

(* Two lines fewer are due.                                                  *)
LEMMA TwoLess ==
  ASSUME NEW m, GoodMesh(m), NEW D, NEW s0 \in DOMAIN m.adj_compact, NEW a0 \in m.adj_compact[s0],
         NEW s1 \in DOMAIN m.adj_compact, NEW a1 \in m.adj_compact[s1], s0 # s1,
         <<s0, a0>> \in D, <<s1, a1>> \in D, NEW s \in DOMAIN m.adj_compact
  PROVE  /\ Cardinality(DueFrom(m, D, s)) \in Nat
         /\ Cardinality(DueFrom(m, D \ {<<s0, a0>>, <<s1, a1>>}, s))
              = IF s \in {s0, s1} THEN Cardinality(DueFrom(m, D, s)) - 1
                ELSE Cardinality(DueFrom(m, D, s))
  <1>1. PICK E : E = D \ {<<s0, a0>>}
    OBVIOUS
  <1>2. /\ Cardinality(DueFrom(m, D, s)) \in Nat
        /\ Cardinality(DueFrom(m, E, s))
             = IF s = s0 THEN Cardinality(DueFrom(m, D, s)) - 1 ELSE Cardinality(DueFrom(m, D, s))
    BY <1>1, DueFromLess
  <1>3. <<s1, a1>> \in E /\ E \ {<<s1, a1>>} = D \ {<<s0, a0>>, <<s1, a1>>}
    BY <1>1
  <1>4. Cardinality(DueFrom(m, E \ {<<s1, a1>>}, s))
          = IF s = s1 THEN Cardinality(DueFrom(m, E, s)) - 1 ELSE Cardinality(DueFrom(m, E, s))
    <2>1. /\ GoodMesh(m) /\ s1 \in DOMAIN m.adj_compact /\ a1 \in m.adj_compact[s1]
          /\ <<s1, a1>> \in E /\ s \in DOMAIN m.adj_compact
      BY <1>3
    <2>. QED  BY ONLY <2>1, DueFromLess
  <1>. QED  BY ONLY <1>2, <1>3, <1>4, s0 # s1

-----------------------------------------------------------------------------
(* The port of an inner singularity leads to another one.                    *)
LEMMA JoinSingularitiesIInv ==
  ASSUME IInv, pc = "inner", NEW p \in Unstruck, left' = left \ {p}, JoinSingularities(p),
         UNCHANGED <<mesh, todo, at>>
  PROVE  IInv'
  <1> DEFINE q == <<at, p>>
             e == <<p, at>>
  <1>1. /\ Shape /\ GoodMesh(mesh) /\ AllSingular = SingularOf(mesh)
        /\ at \in Visited /\ at \in AllSingular /\ at \in DOMAIN mesh.adj_compact
        /\ at \notin todo /\ at \notin Ahead
        /\ p \in DOMAIN mesh.adj_compact /\ p # at /\ at \in mesh.adj_compact[p]
        /\ p \in mesh.adj_compact[at] /\ q \in DuePorts /\ CurrentPort = {}
    BY PortFacts
  <1>2. /\ Inner /\ pc' = "inner" /\ Inner' /\ ~Drawing'
        /\ p \in mesh.singularity /\ p \in SingularOf(mesh)
        /\ ports' = Struck(ports, p, at) /\ patch_line' = patch_line (+) Once(q)
        /\ assist' = [assist EXCEPT ![at] = @ - 1, ![p] = @ - 1]
    BY DEF JoinSingularities, Finish, Strike, Struck, Inner, Drawing, SingularOf
  <1>3. at \notin mesh.boundary_o
    BY <1>1, <1>2, ShapeFacts
  <1>4. Own(mesh, at, p) /\ Own(mesh, p, at)
    BY <1>1, <1>3, OwnInner
  <1>5. /\ ports' \in [AllSingular -> SUBSET Nat]
        /\ \A s \in AllSingular : ports'[s] \subseteq ports[s]
        /\ Dues(mesh, ports', Ahead, at, left) = DuePorts \ {e}
    <2> HIDE DEF q
    <2>. QED  BY <1>1, <1>2, DuesStrike
  <1>6. DuePorts' = DuePorts \ {q, e}
    <2>1. DuePorts' = Dues(mesh, ports', Ahead, at, left) \ {<<at, p>>}
      BY <1>1, <1>2, DuesReach
    <2>. QED  BY <1>5, <2>1
  <1>7. Shape'
    <2>1. assist' \in [DOMAIN mesh.adj_compact -> Int]
      BY <1>1, <1>2 DEF Shape
    <2>. QED  BY <1>1, <1>2, <1>5, <2>1, ShapeStep
  <1>8. /\ Begun' /\ LinesOf(mesh, patch_line)' /\ Tally(mesh, patch_line, DuePorts, CurrentPort)'
        /\ e \in DuePorts /\ e # q
    <2>1. /\ q[1] = at /\ q[2] = p /\ Len(q) = 2 /\ Last(q) = p /\ q[Len(q) - 1] = at
          /\ FullLine(mesh, q)
      BY <1>1, <1>2, EdgeLine
    <2>2. /\ <<q[1], q[2]>> = q /\ <<Last(q), q[Len(q) - 1]>> = e
      BY <2>1
    <2>3. /\ Own(mesh, q[1], q[2]) /\ Own(mesh, Last(q), q[Len(q) - 1])
          /\ Last(q) \in SingularOf(mesh)
      BY <1>2, <1>4, <2>1
    <2> HIDE DEF q, e
    <2>. QED  BY <1>1, <1>2, <1>6, <2>1, <2>2, <2>3, FinishStep
  <1>9. Expected'
    <2> SUFFICES ASSUME NEW s \in mesh.singularity
                 PROVE  assist'[s] = Cardinality(DueFrom(mesh, DuePorts \ {q, e}, s))
      BY <1>6 DEF Expected
    <2>1. s \in DOMAIN mesh.adj_compact
      BY <1>1 DEF GoodMesh
    <2>2. /\ Cardinality(DueFrom(mesh, DuePorts, s)) \in Nat
          /\ Cardinality(DueFrom(mesh, DuePorts \ {q, e}, s))
               = IF s \in {at, p} THEN Cardinality(DueFrom(mesh, DuePorts, s)) - 1
                 ELSE Cardinality(DueFrom(mesh, DuePorts, s))
      BY <1>1, <1>8, <2>1, TwoLess
    <2>5. assist[s] = Cardinality(DueFrom(mesh, DuePorts, s))
      BY <1>2 DEF IInv, Expected
    <2>6. assist'[s] = IF s = at \/ s = p THEN assist[s] - 1 ELSE assist[s]
      BY <1>1, <1>2, <2>1 DEF Shape
    <2> HIDE DEF q, e
    <2>. QED  BY <2>2, <2>5, <2>6
  <1>. QED  BY <1>7, <1>8, <1>9 DEF IInv

(* One that leads to the boundary.                                           *)
LEMMA JoinBoundaryIInv ==
  ASSUME IInv, pc = "inner", NEW p \in Unstruck, left' = left \ {p}, JoinBoundary(p),
         UNCHANGED <<mesh, todo, at>>
  PROVE  IInv'
  <1> DEFINE q == <<at, p>>
             e == <<p, at>>
  <1>1. /\ Shape /\ GoodMesh(mesh) /\ AllSingular = SingularOf(mesh)
        /\ at \in Visited /\ at \in AllSingular /\ at \in DOMAIN mesh.adj_compact
        /\ at \notin todo /\ at \notin Ahead
        /\ p \in DOMAIN mesh.adj_compact /\ p # at /\ at \in mesh.adj_compact[p]
        /\ p \in mesh.adj_compact[at] /\ q \in DuePorts /\ CurrentPort = {}
    BY PortFacts
  <1>2. /\ Inner /\ pc' = "inner" /\ Inner' /\ ~Drawing' /\ p \in mesh.boundary_o
        /\ ports' = [Strike(p, at) EXCEPT ![at] = @ \ {p}] /\ patch_line' = patch_line (+) Once(q)
        /\ assist' = [assist EXCEPT ![at] = @ - 1]
    BY DEF JoinBoundary, Finish, Inner, Drawing
  <1>3. at \notin mesh.boundary_o
    BY <1>1, <1>2, ShapeFacts
  <1>4. Own(mesh, at, p) /\ Own(mesh, p, at)
    BY <1>1, <1>3, OwnInner
  <1>5. /\ ports' \in [AllSingular -> SUBSET Nat]
        /\ \A s \in AllSingular : ports'[s] \subseteq ports[s]
        /\ Dues(mesh, ports', Ahead, at, left) = DuePorts \ {q, e}
    <2>1. PICK free : free = Strike(p, at)
      OBVIOUS
    <2>2. free = Struck(ports, p, at)
      BY <2>1 DEF Strike, Struck
    <2>3. /\ free \in [AllSingular -> SUBSET Nat] /\ \A s \in AllSingular : free[s] \subseteq ports[s]
          /\ Dues(mesh, free, Ahead, at, left) = DuePorts \ {e}
      <3> HIDE DEF q
      <3>. QED  BY <1>1, <2>2, DuesStrike
    <2>4. ports' = Struck(free, at, p)
      BY <1>1, <1>2, <2>1, <2>3 DEF Struck
    <2>5. free \in [SingularOf(mesh) -> SUBSET Nat]
      BY <1>1, <2>3
    <2>6. /\ ports' \in [SingularOf(mesh) -> SUBSET Nat]
          /\ \A s \in SingularOf(mesh) : ports'[s] \subseteq free[s]
          /\ Dues(mesh, ports', Ahead, at, left) = Dues(mesh, free, Ahead, at, left) \ {<<at, p>>}
      BY ONLY <2>4, <2>5, DuesStruck
    <2>. QED  BY <1>1, <2>3, <2>6
  <1>6. DuePorts' = DuePorts \ {q, e}
    <2>1. DuePorts' = Dues(mesh, ports', Ahead, at, left) \ {<<at, p>>}
      BY <1>1, <1>2, DuesReach
    <2>. QED  BY <1>5, <2>1
  <1>7. Shape'
    <2>1. assist' \in [DOMAIN mesh.adj_compact -> Int]
      BY <1>1, <1>2 DEF Shape
    <2>. QED  BY <1>1, <1>2, <1>5, <2>1, ShapeStep
  <1>8. Begun' /\ LinesOf(mesh, patch_line)' /\ Tally(mesh, patch_line, DuePorts, CurrentPort)'
    <2>1. /\ q[1] = at /\ q[2] = p /\ Len(q) = 2 /\ Last(q) = p /\ q[Len(q) - 1] = at
          /\ FullLine(mesh, q)
      BY <1>1, <1>2, EdgeLine
    <2>2. <<q[1], q[2]>> = q /\ <<Last(q), q[Len(q) - 1]>> = e
      BY <2>1
    <2>3. Own(mesh, q[1], q[2]) /\ Own(mesh, Last(q), q[Len(q) - 1])
      BY <1>4, <2>1
    <2> HIDE DEF q, e
    <2>. QED  BY <1>1, <1>2, <1>6, <2>1, <2>2, <2>3, FinishStep
  <1>9. Expected'
    <2> SUFFICES ASSUME NEW s \in mesh.singularity
                 PROVE  assist'[s] = Cardinality(DueFrom(mesh, DuePorts \ {q, e}, s))
      BY <1>6 DEF Expected
    <2>1. s \in DOMAIN mesh.adj_compact /\ s # p
      BY <1>1, <1>2 DEF GoodMesh
    <2>2. DueFrom(mesh, DuePorts \ {q, e}, s) = DueFrom(mesh, DuePorts \ {q}, s)
      BY <2>1 DEF DueFrom
    <2>3. /\ Cardinality(DueFrom(mesh, DuePorts, s)) \in Nat
          /\ Cardinality(DueFrom(mesh, DuePorts \ {q}, s))
               = IF s = at THEN Cardinality(DueFrom(mesh, DuePorts, s)) - 1
                 ELSE Cardinality(DueFrom(mesh, DuePorts, s))
      <3>1. PICK D : D = DuePorts
        OBVIOUS
      <3>2. /\ GoodMesh(mesh) /\ at \in DOMAIN mesh.adj_compact /\ p \in mesh.adj_compact[at]
            /\ <<at, p>> \in D /\ s \in DOMAIN mesh.adj_compact /\ q = <<at, p>>
        BY <1>1, <2>1, <3>1
      <3>. QED  BY ONLY <3>1, <3>2, DueFromLess, ZenonT(40)
    <2>4. assist[s] = Cardinality(DueFrom(mesh, DuePorts, s))
      BY <1>2 DEF IInv, Expected
    <2>5. assist'[s] = IF s = at THEN assist[s] - 1 ELSE assist[s]
      BY <1>1, <1>2, <2>1 DEF Shape
    <2> HIDE DEF q, e
    <2>. QED  BY <2>2, <2>3, <2>4, <2>5
  <1>. QED  BY <1>7, <1>8, <1>9 DEF IInv

(* A line is begun.                                                          *)
LEMMA StartStep ==
  ASSUME IInv, CurrentPort = {}, NEW p \in mesh.adj_compact[at], at \in SingularOf(mesh),
         p \in RegularOf(mesh), <<at, p>> \in DuePorts, mesh' = mesh, at' = at,
         patch_line' = patch_line, line' = <<at, p>>, Drawing', left' = left \ {p},
         DuePorts' = DuePorts \ {<<at, p>>}
  PROVE  Begun' /\ LinesOf(mesh, patch_line)' /\ Tally(mesh, patch_line, DuePorts, CurrentPort)'
  <1>1. /\ GoodMesh(mesh) /\ LinesOf(mesh, patch_line) /\ Tally(mesh, patch_line, DuePorts, {})
    BY ShapeFacts DEF IInv
  <1>2. line'[1] = at /\ line'[2] = p /\ Last(line') = p /\ Runs(mesh, line')
    BY <1>1, EdgeLine
  <1>3. Begun'
    BY <1>2 DEF Begun
  <1>4. Own(mesh, at, p)
    BY <1>1, OwnInner DEF RegularOf
  <1>5. CurrentPort' = {<<at, p>>}
    BY <1>2 DEF CurrentPort
  <1>6. Tally(mesh, patch_line, DuePorts \ {<<at, p>>}, {<<at, p>>})
    BY <1>1, <1>4, TallyStart
  <1>. QED  BY <1>1, <1>3, <1>5, <1>6

(* A port of an inner singularity leads to a regular vertex.                 *)
LEMMA LeaveSingularityIInv ==
  ASSUME IInv, pc = "inner", NEW p \in Unstruck, left' = left \ {p}, LeaveSingularity(p),
         UNCHANGED <<mesh, todo, at>>
  PROVE  IInv'
  <1>1. /\ Shape /\ GoodMesh(mesh) /\ AllSingular = SingularOf(mesh)
        /\ at \in Visited /\ at \in AllSingular /\ at \in DOMAIN mesh.adj_compact
        /\ at \notin todo /\ at \notin Ahead
        /\ p \in DOMAIN mesh.adj_compact /\ p # at /\ at \in mesh.adj_compact[p]
        /\ p \in mesh.adj_compact[at] /\ <<at, p>> \in DuePorts /\ CurrentPort = {}
    BY PortFacts
  <1>2. /\ Inner /\ pc' = "innerline" /\ Inner' /\ Drawing' /\ line' = <<at, p>>
        /\ p \notin mesh.singularity \union mesh.boundary_o
        /\ ports' = ports /\ patch_line' = patch_line
        /\ assist' = [assist EXCEPT ![at] = @ - 1, ![p] = IF @ # 0 THEN @ - 1 ELSE @]
    BY DEF LeaveSingularity, Inner, Drawing
  <1>3. p \in RegularOf(mesh)
    BY <1>1, <1>2 DEF RegularOf, SingularOf, GoodMesh
  <1>4. DuePorts' = DuePorts \ {<<at, p>>}
    <2>1. DuePorts' = Dues(mesh, ports', Ahead, at, left) \ {<<at, p>>}
      BY <1>1, <1>2, DuesReach
    <2>. QED  BY <1>2, <2>1 DEF DuePorts
  <1>5. Shape'
    <2>1. assist' \in [DOMAIN mesh.adj_compact -> Int]
      BY <1>1, <1>2 DEF Shape
    <2>2. /\ ports' \in [AllSingular -> SUBSET Nat]
          /\ \A s \in AllSingular : ports'[s] \subseteq ports[s]
      BY <1>1, <1>2 DEF Shape
    <2>. QED  BY <1>1, <1>2, <2>1, <2>2, ShapeStep
  <1>6. Begun' /\ LinesOf(mesh, patch_line)' /\ Tally(mesh, patch_line, DuePorts, CurrentPort)'
    BY <1>1, <1>2, <1>3, <1>4, StartStep
  <1>7. Expected'
    <2> SUFFICES ASSUME NEW s \in mesh.singularity
                 PROVE  assist'[s] = Cardinality(DueFrom(mesh, DuePorts \ {<<at, p>>}, s))
      BY <1>4 DEF Expected
    <2>1. s \in DOMAIN mesh.adj_compact /\ s # p
      BY <1>1, <1>2 DEF GoodMesh
    <2>2. /\ Cardinality(DueFrom(mesh, DuePorts, s)) \in Nat
          /\ Cardinality(DueFrom(mesh, DuePorts \ {<<at, p>>}, s))
               = IF s = at THEN Cardinality(DueFrom(mesh, DuePorts, s)) - 1
                 ELSE Cardinality(DueFrom(mesh, DuePorts, s))
      BY <1>1, <2>1, DueFromLess
    <2>3. assist[s] = Cardinality(DueFrom(mesh, DuePorts, s))
      BY <1>2 DEF IInv, Expected
    <2>4. assist'[s] = IF s = at THEN assist[s] - 1 ELSE assist[s]
      BY <1>1, <1>2, <2>1 DEF Shape
    <2>. QED  BY <2>2, <2>3, <2>4
  <1>. QED  BY <1>5, <1>6, <1>7 DEF IInv

LEMMA TracePortIInv ==
  ASSUME IInv, TracePort
  PROVE  IInv'
  <1>1. PICK p \in Unstruck : /\ left' = left \ {p}
                              /\ JoinSingularities(p) \/ JoinBoundary(p) \/ LeaveSingularity(p)
    BY DEF TracePort
  <1>2. pc = "inner" /\ UNCHANGED <<mesh, todo, at>>
    BY DEF TracePort
  <1>. QED  BY <1>1, <1>2, JoinSingularitiesIInv, JoinBoundaryIInv, LeaveSingularityIInv

-----------------------------------------------------------------------------
(* The line that is traced, with one more vertex.                            *)
LEMMA Extended ==
  ASSUME IInv, Drawing, NEW v, v = Straight(mesh, line[Len(line) - 1], Last(line)),
         NEW l, l = Append(line, v)
  PROVE  /\ Shape /\ GoodMesh(mesh) /\ AllSingular = SingularOf(mesh)
         /\ at \in AllSingular /\ at \in Visited /\ at \notin Ahead
         /\ Last(line) \in RegularOf(mesh) /\ line[2] \in RegularOf(mesh) /\ line[1] = at
         /\ v \in DOMAIN mesh.adj_compact /\ v \in mesh.adj_compact[Last(line)]
         /\ Last(line) \in mesh.adj_compact[v] /\ line[2] \in mesh.adj_compact[at]
         /\ l[1] = at /\ l[2] = line[2] /\ Last(l) = v /\ l[Len(l) - 1] = Last(line)
         /\ Runs(mesh, l)
         /\ v \in SingularOf(mesh) \union mesh.boundary_o => FullLine(mesh, l)
         /\ Own(mesh, at, line[2]) /\ Own(mesh, v, Last(line))
         /\ CurrentPort = {<<at, line[2]>>} /\ <<at, line[2]>> \notin DuePorts
  <1> DEFINE n == Len(line)
             V == DOMAIN mesh.adj_compact
  <1>1. /\ Shape /\ GoodMesh(mesh) /\ AllSingular = SingularOf(mesh)
        /\ Inner => Visited \intersect mesh.boundary_o = {}
        /\ AllSingular \subseteq V /\ V \subseteq Nat
    BY ShapeFacts DEF IInv
  <1>2. /\ Runs(mesh, line) /\ Last(line) \in RegularOf(mesh) /\ line[1] = at /\ line[2] \notin left
    BY DEF IInv, Begun
  <1>3. /\ line \in Seq(V) /\ n \in Nat /\ n >= 2 /\ at \in SingularOf(mesh)
        /\ \A j \in 1 .. n - 1 : line[j + 1] \in mesh.adj_compact[line[j]]
        /\ \A j \in 2 .. n - 1 : line[j] \in RegularOf(mesh) /\ line[j + 1] = Straight(mesh, line[j - 1], line[j])
    BY <1>2 DEF Runs
  <1>4. at \in Visited /\ at \notin Ahead
    <2>1. at # -1 /\ at \in Visited /\ at \notin todo
      BY <1>1, <1>3 DEF Shape
    <2>. QED  BY <1>1, <2>1 DEF Ahead, GoodMesh
  <1>5. \A j \in 1 .. n : line[j] \in V
    BY <1>3
  <1>6. /\ Last(line) = line[n] /\ Last(line) \in V /\ Last(line) \in mesh.adj_compact[line[n - 1]]
        /\ line[n - 1] \in mesh.adj_compact[Last(line)]
    <2>1. n - 1 \in 1 .. n - 1 /\ (n - 1) + 1 = n /\ n \in 1 .. n /\ n - 1 \in 1 .. n
      BY <1>3
    <2>2. line[(n - 1) + 1] \in mesh.adj_compact[line[n - 1]] /\ line[n - 1] \in V /\ line[n] \in V
      BY <1>3, <1>5, <2>1
    <2>. QED  BY <1>1, <2>1, <2>2 DEF Last, GoodMesh
  <1>7. /\ v \in mesh.adj_compact[Last(line)] /\ v \in V /\ Last(line) \in mesh.adj_compact[v]
    <2>1. v \in mesh.adj_compact[Last(line)]
      BY <1>1, <1>2, <1>6, OnRegular DEF GoesStraight
    <2>. QED  BY <1>1, <1>6, <2>1 DEF GoodMesh
  <1>8. /\ l \in Seq(V) /\ Len(l) = n + 1 /\ l[n + 1] = v
        /\ \A j \in 1 .. n : l[j] = line[j]
    <2>1. ASSUME NEW S, NEW s \in Seq(S), NEW x \in S
          PROVE  /\ Append(s, x) \in Seq(S) /\ Len(Append(s, x)) = Len(s) + 1
                 /\ Append(s, x)[Len(s) + 1] = x
                 /\ \A j \in 1 .. Len(s) : Append(s, x)[j] = s[j]
      OBVIOUS
    <2>2. line \in Seq(V) /\ v \in V
      BY <1>3, <1>7
    <2>3. /\ Append(line, v) \in Seq(V) /\ Len(Append(line, v)) = Len(line) + 1
          /\ Append(line, v)[Len(line) + 1] = v
          /\ \A j \in 1 .. Len(line) : Append(line, v)[j] = line[j]
      <3> HIDE DEF V
      <3>. QED  BY ONLY <2>1, <2>2
    <2>. QED  BY ONLY <2>3, l = Append(line, v)
  <1>9. /\ l[1] = at /\ l[2] = line[2] /\ Last(l) = v /\ l[Len(l) - 1] = Last(line)
    <2>1. 1 \in 1 .. n /\ 2 \in 1 .. n /\ n \in 1 .. n /\ (n + 1) - 1 = n
      BY <1>3
    <2>. QED  BY <1>2, <1>6, <1>8, <2>1 DEF Last
  <1>10. Runs(mesh, l)
    <2>1. ASSUME NEW j \in 1 .. Len(l) - 1 PROVE l[j + 1] \in mesh.adj_compact[l[j]]
      <3>1. CASE j = n
        BY <1>3, <1>6, <1>7, <1>8, <3>1
      <3>2. CASE j # n
        <4>1. j \in 1 .. n - 1 /\ j \in 1 .. n /\ j + 1 \in 1 .. n
          BY <1>3, <1>8, <2>1, <3>2
        <4>. QED  BY <1>3, <1>8, <4>1
      <3>. QED  BY <3>1, <3>2
    <2>2. ASSUME NEW j \in 2 .. Len(l) - 1
          PROVE  l[j] \in RegularOf(mesh) /\ l[j + 1] = Straight(mesh, l[j - 1], l[j])
      <3>1. CASE j = n
        <4>1. n \in 1 .. n /\ n - 1 \in 1 .. n
          BY <1>3
        <4>2. l[j] = Last(line) /\ l[j - 1] = line[n - 1] /\ l[j + 1] = v
          BY <1>6, <1>8, <3>1, <4>1
        <4>. QED  BY <1>2, <4>2
      <3>2. CASE j # n
        <4>1. j \in 2 .. n - 1 /\ j \in 1 .. n /\ j + 1 \in 1 .. n /\ j - 1 \in 1 .. n
          BY <1>3, <1>8, <2>2, <3>2
        <4>2. l[j] = line[j] /\ l[j - 1] = line[j - 1] /\ l[j + 1] = line[j + 1]
          BY <1>8, <4>1
        <4>. QED  BY <1>3, <4>1, <4>2
      <3>. QED  BY <3>1, <3>2
    <2>3. Len(l) >= 2 /\ l[1] \in SingularOf(mesh)
      BY <1>3, <1>8, <1>9
    <2>. QED  BY <1>8, <2>1, <2>2, <2>3 DEF Runs
  <1>11. line[2] \in RegularOf(mesh) /\ line[2] \in mesh.adj_compact[at]
    <2>1. CASE n = 2
      BY <1>2, <1>3, <1>6, <2>1
    <2>2. CASE n # 2
      <3>1. 2 \in 2 .. n - 1 /\ 1 \in 1 .. n - 1 /\ 1 + 1 = 2
        <4>1. n \in Nat /\ n >= 2
          BY <1>3
        <4> HIDE DEF n
        <4>. QED  BY <2>2, <4>1
      <3>2. line[1 + 1] \in mesh.adj_compact[line[1]]
        BY <1>3, <3>1
      <3>. QED  BY <1>2, <1>3, <3>1, <3>2
    <2>. QED  BY <2>1, <2>2
  <1>12. Own(mesh, at, line[2]) /\ Own(mesh, v, Last(line))
    BY <1>1, <1>2, <1>11, OwnInner DEF RegularOf
  <1>13. CurrentPort = {<<at, line[2]>>} /\ <<at, line[2]>> \notin DuePorts
    BY <1>2, <1>4 DEF CurrentPort, DuePorts, Dues
  <1>. QED
    BY <1>1, <1>2, <1>3, <1>4, <1>6, <1>7, <1>9, <1>10, <1>11, <1>12, <1>13 DEF FullLine

(* It arrives.                                                               *)
LEMMA ArriveStep ==
  ASSUME IInv, Drawing, NEW v, v = Straight(mesh, line[Len(line) - 1], Last(line)),
         v \in SingularOf(mesh) \union mesh.boundary_o, ports' = Strike(v, Last(line)),
         patch_line' = patch_line (+) Once(Append(line, v)),
         UNCHANGED <<mesh, todo, at, left>>, ~Drawing', Inner' <=> Inner,
         pc' \in {"inner", "innerline", "border", "borderline"},
         assist' \in [DOMAIN mesh.adj_compact -> Int]
  PROVE  /\ Shape' /\ Begun' /\ LinesOf(mesh, patch_line)'
         /\ Tally(mesh, patch_line, DuePorts, CurrentPort)'
         /\ DuePorts' = DuePorts \ {<<v, Last(line)>>}
         /\ v \in SingularOf(mesh) => <<v, Last(line)>> \in DuePorts
  <1>1. PICK l : l = Append(line, v)
    OBVIOUS
  <1>2. /\ Shape /\ GoodMesh(mesh) /\ AllSingular = SingularOf(mesh)
        /\ l[1] = at /\ l[2] = line[2] /\ Last(l) = v /\ l[Len(l) - 1] = Last(line)
        /\ FullLine(mesh, l)
        /\ Own(mesh, at, line[2]) /\ Own(mesh, v, Last(line))
        /\ CurrentPort = {<<at, line[2]>>} /\ <<at, line[2]>> \notin DuePorts
    BY <1>1, Extended
  <1>3. ports' = Struck(ports, v, Last(line))
    BY DEF Strike, Struck
  <1>4. /\ ports' \in [AllSingular -> SUBSET Nat]
        /\ \A s \in AllSingular : ports'[s] \subseteq ports[s]
        /\ Dues(mesh, ports', Ahead, at, left) = DuePorts \ {<<v, Last(line)>>}
    BY <1>2, <1>3, DuesStrike
  <1>5. DuePorts' = DuePorts \ {<<v, Last(line)>>}
    <2>1. DuePorts' = Dues(mesh, ports', Ahead, at, left')
      BY DuesStep
    <2>. QED  BY <1>4, <2>1
  <1>6. Shape'
    BY <1>2, <1>4, ShapeStep
  <1>7. DuePorts' = DuePorts \ {<<l[1], l[2]>>, <<Last(l), l[Len(l) - 1]>>}
    BY <1>2, <1>5
  <1>8. /\ CurrentPort \subseteq {<<l[1], l[2]>>} /\ <<l[1], l[2]>> \in DuePorts \union CurrentPort
        /\ Own(mesh, l[1], l[2]) /\ Own(mesh, Last(l), l[Len(l) - 1])
        /\ patch_line' = patch_line (+) Once(l) /\ mesh' = mesh
    BY <1>1, <1>2
  <1>9. /\ Begun' /\ LinesOf(mesh, patch_line)' /\ Tally(mesh, patch_line, DuePorts, CurrentPort)'
        /\ Last(l) \in SingularOf(mesh) => <<Last(l), l[Len(l) - 1]>> \in DuePorts
    BY <1>2, <1>7, <1>8, FinishStep
  <1>. QED  BY <1>2, <1>5, <1>6, <1>9

(* It goes on.                                                               *)
LEMMA GoOnIInv ==
  ASSUME IInv, Drawing, NEW v, v = Straight(mesh, line[Len(line) - 1], Last(line)),
         v \notin mesh.singularity \union mesh.boundary_o, GoStraight(v),
         UNCHANGED <<pc, mesh, todo, at, left>>
  PROVE  IInv'
  <1>1. PICK l : l = Append(line, v)
    OBVIOUS
  <1>2. /\ Shape /\ GoodMesh(mesh) /\ AllSingular = SingularOf(mesh)
        /\ v \in DOMAIN mesh.adj_compact /\ line[1] = at
        /\ l[1] = at /\ l[2] = line[2] /\ Last(l) = v /\ Runs(mesh, l)
    BY <1>1, Extended
  <1>3. /\ line' = l /\ ports' = ports /\ patch_line' = patch_line
        /\ assist' = IF assist[v] # 0 THEN [assist EXCEPT ![v] = @ - 1] ELSE assist
    BY <1>1 DEF GoStraight, Pass
  <1>4. /\ (Inner' <=> Inner) /\ (Drawing' <=> Drawing)
        /\ pc' \in {"inner", "innerline", "border", "borderline"}
    BY DEF Inner, Drawing
  <1>5. v \in RegularOf(mesh)
    BY <1>2 DEF RegularOf, SingularOf, GoodMesh
  <1>6. Begun' /\ CurrentPort' = CurrentPort
    BY <1>2, <1>3, <1>4, <1>5 DEF IInv, Begun, CurrentPort
  <1>7. DuePorts' = DuePorts
    BY <1>3, <1>4, DuesStep DEF DuePorts
  <1>8. assist' \in [DOMAIN mesh.adj_compact -> Int]
    BY <1>2, <1>3 DEF Shape
  <1>9. Shape'
    <2>1. /\ ports' \in [AllSingular -> SUBSET Nat]
          /\ \A s \in AllSingular : ports'[s] \subseteq ports[s]
      BY <1>2, <1>3 DEF Shape
    <2>. QED  BY <1>2, <1>4, <1>8, <2>1, ShapeStep
  <1>10. Expected'
    <2> SUFFICES ASSUME Inner, NEW s \in mesh.singularity
                 PROVE  assist'[s] = Cardinality(DueFrom(mesh, DuePorts, s))
      BY <1>4, <1>7 DEF Expected
    <2>1. s \in DOMAIN mesh.adj_compact /\ s # v
      BY <1>2 DEF GoodMesh
    <2>2. assist'[s] = assist[s]
      BY <1>2, <1>3, <2>1 DEF Shape
    <2>. QED  BY <2>2 DEF IInv, Expected
  <1>. QED  BY <1>3, <1>6, <1>7, <1>9, <1>10 DEF IInv

LEMMA ExtendLineIInv ==
  ASSUME IInv, ExtendLine
  PROVE  IInv'
  <1>1. PICK v : v = Straight(mesh, line[Len(line) - 1], Last(line)) /\
                 (\/ ReachBoundary(v) /\ pc' = "inner"
                  \/ ReachSingularity(v) /\ pc' = "inner"
                  \/ /\ v \notin mesh.singularity \union mesh.boundary_o
                     /\ GoStraight(v) /\ UNCHANGED pc)
    BY DEF ExtendLine
  <1>2. /\ pc = "innerline" /\ UNCHANGED <<mesh, todo, at, left>> /\ Inner /\ Drawing
        /\ Shape /\ GoodMesh(mesh)
        /\ v \in DOMAIN mesh.adj_compact /\ Last(line) \in mesh.adj_compact[v]
    BY <1>1, Extended DEF ExtendLine, Inner, Drawing
  <1>3. \A s \in mesh.singularity : s \in DOMAIN mesh.adj_compact /\ s \notin mesh.boundary_o
    BY <1>2 DEF GoodMesh
  <1>4. \A s \in mesh.singularity : assist[s] = Cardinality(DueFrom(mesh, DuePorts, s))
    BY <1>2 DEF IInv, Expected
  <1>5. CASE ReachBoundary(v) /\ pc' = "inner"
    <2>1. /\ v \in mesh.boundary_o /\ ports' = Strike(v, Last(line)) /\ assist' = assist
          /\ patch_line' = patch_line (+) Once(Append(line, v))
          /\ ~Drawing' /\ Inner' /\ pc' = "inner"
          /\ assist' \in [DOMAIN mesh.adj_compact -> Int]
      BY <1>2, <1>5 DEF ReachBoundary, Finish, Drawing, Inner, Shape
    <2>2. /\ Shape' /\ Begun' /\ LinesOf(mesh, patch_line)'
          /\ Tally(mesh, patch_line, DuePorts, CurrentPort)'
          /\ DuePorts' = DuePorts \ {<<v, Last(line)>>}
      BY <1>1, <1>2, <2>1, ArriveStep
    <2>3. \A s \in mesh.singularity : DueFrom(mesh, DuePorts', s) = DueFrom(mesh, DuePorts, s)
      BY <1>3, <2>1, <2>2 DEF DueFrom
    <2>4. Expected'
      BY <1>2, <1>4, <2>1, <2>3 DEF Expected
    <2>. QED  BY <2>2, <2>4 DEF IInv
  <1>6. CASE ReachSingularity(v) /\ pc' = "inner"
    <2>1. /\ v \in mesh.singularity /\ v \in SingularOf(mesh)
          /\ ports' = Strike(v, Last(line)) /\ assist' = [assist EXCEPT ![v] = @ - 1]
          /\ patch_line' = patch_line (+) Once(Append(line, v))
          /\ ~Drawing' /\ Inner' /\ pc' = "inner"
          /\ assist' \in [DOMAIN mesh.adj_compact -> Int]
      BY <1>2, <1>6 DEF ReachSingularity, Finish, Drawing, Inner, Shape, SingularOf
    <2>2. /\ Shape' /\ Begun' /\ LinesOf(mesh, patch_line)'
          /\ Tally(mesh, patch_line, DuePorts, CurrentPort)'
          /\ DuePorts' = DuePorts \ {<<v, Last(line)>>} /\ <<v, Last(line)>> \in DuePorts
      BY <1>1, <1>2, <2>1, ArriveStep
    <2>3. Expected'
      <3> SUFFICES ASSUME NEW s \in mesh.singularity
                   PROVE  assist'[s] = Cardinality(DueFrom(mesh, DuePorts \ {<<v, Last(line)>>}, s))
        BY <1>2, <2>2 DEF Expected
      <3>1. s \in DOMAIN mesh.adj_compact
        BY <1>3
      <3>2. /\ Cardinality(DueFrom(mesh, DuePorts, s)) \in Nat
            /\ Cardinality(DueFrom(mesh, DuePorts \ {<<v, Last(line)>>}, s))
                 = IF s = v THEN Cardinality(DueFrom(mesh, DuePorts, s)) - 1
                   ELSE Cardinality(DueFrom(mesh, DuePorts, s))
        BY <1>2, <2>2, <3>1, DueFromLess
      <3>3. assist'[s] = IF s = v THEN assist[s] - 1 ELSE assist[s]
        BY <1>2, <2>1, <3>1 DEF Shape
      <3>. QED  BY <1>4, <3>2, <3>3
    <2>. QED  BY <2>2, <2>3 DEF IInv
  <1>7. CASE v \notin mesh.singularity \union mesh.boundary_o /\ GoStraight(v) /\ UNCHANGED pc
    BY <1>1, <1>2, <1>7, GoOnIInv
  <1>. QED  BY <1>1, <1>5, <1>6, <1>7

-----------------------------------------------------------------------------
(* In the second pass no line is due from an inner singularity.              *)
LEMMA BorderDues ==
  ASSUME IInv, ~Inner, NEW v \in mesh.singularity, NEW b
  PROVE  <<v, b>> \notin DuePorts
  <1>1. /\ Shape /\ GoodMesh(mesh) /\ Ahead = todo /\ Visited = mesh.boundary_singularity
        /\ \A u \in DOMAIN mesh.adj_compact : u \in Nat
    BY ShapeFacts DEF IInv, Ahead, Visited
  <1>2. v \notin mesh.boundary_singularity /\ v # -1
    BY <1>1 DEF GoodMesh
  <1>3. v \notin Ahead /\ v # at
    BY <1>1, <1>2 DEF Shape
  <1>. QED  BY <1>3 DEF DuePorts, Dues

LEMMA SkipBoundaryEdgeIInv ==
  ASSUME IInv, pc = "border", NEW p \in Unstruck, left' = left \ {p}, SkipBoundaryEdge(p),
         UNCHANGED <<mesh, todo, at>>
  PROVE  IInv'
  <1>1. /\ Shape /\ GoodMesh(mesh) /\ AllSingular = SingularOf(mesh)
        /\ at \notin Ahead /\ CurrentPort = {}
    BY PortFacts
  <1>2. /\ ~Inner /\ pc' = "border" /\ ~Inner' /\ ~Drawing'
        /\ ports' = Struck(ports, at, p) /\ patch_line' = patch_line /\ assist' = assist
        /\ AlongOf(mesh, at, p)
    BY DEF SkipBoundaryEdge, Strike, Struck, Inner, Drawing, AlongOf
  <1>3. /\ ports' \in [AllSingular -> SUBSET Nat]
        /\ \A s \in AllSingular : ports'[s] \subseteq ports[s]
        /\ Dues(mesh, ports', Ahead, at, left) = DuePorts \ {<<at, p>>}
    BY <1>1, <1>2, DuesStrike
  <1>4. DuePorts' = DuePorts \ {<<at, p>>}
    <2>1. DuePorts' = Dues(mesh, ports', Ahead, at, left) \ {<<at, p>>}
      BY <1>1, <1>2, DuesReach
    <2>. QED  BY <1>3, <2>1
  <1>5. Shape'
    <2>1. assist' \in [DOMAIN mesh.adj_compact -> Int]
      BY <1>1, <1>2 DEF Shape
    <2>. QED  BY <1>1, <1>2, <1>3, <2>1, ShapeStep
  <1>6. Begun' /\ Expected' /\ CurrentPort' = {}
    BY <1>2 DEF Begun, Expected, CurrentPort
  <1>7. Tally(mesh, patch_line, DuePorts \ {<<at, p>>}, {})
    <2>1. Tally(mesh, patch_line, DuePorts, {})
      BY <1>1 DEF IInv
    <2>. QED  BY <1>2, <2>1, TallySkip
  <1>8. LinesOf(mesh, patch_line)' /\ Tally(mesh, patch_line, DuePorts, CurrentPort)'
    BY <1>2, <1>4, <1>6, <1>7 DEF IInv
  <1>. QED  BY <1>5, <1>6, <1>8 DEF IInv

LEMMA JoinChordIInv ==
  ASSUME IInv, pc = "border", NEW p \in Unstruck, left' = left \ {p}, JoinChord(p),
         UNCHANGED <<mesh, todo, at>>
  PROVE  IInv'
  <1> DEFINE q == <<at, p>>
  <1>1. /\ Shape /\ GoodMesh(mesh) /\ AllSingular = SingularOf(mesh)
        /\ at \in Visited /\ at \in AllSingular /\ at \notin Ahead
        /\ p # at /\ p \in mesh.adj_compact[at] /\ q \in DuePorts /\ CurrentPort = {}
    BY PortFacts
  <1>2. /\ ~Inner /\ pc' = "border" /\ ~Inner' /\ ~Drawing' /\ p \in mesh.boundary_o
        /\ ports' = ports /\ patch_line' = patch_line (+) Once(q) /\ assist' = assist
        /\ ~AlongOf(mesh, at, p)
    BY DEF JoinChord, Finish, Inner, Drawing, AlongOf
  <1>3. at \in mesh.boundary_singularity
    BY <1>1, <1>2 DEF Visited
  <1>4. DuePorts' = DuePorts \ {q}
    <2>1. DuePorts' = Dues(mesh, ports', Ahead, at, left) \ {<<at, p>>}
      BY <1>1, <1>2, DuesReach
    <2>. QED  BY <1>2, <2>1 DEF DuePorts
  <1>5. Shape'
    <2>1. assist' \in [DOMAIN mesh.adj_compact -> Int]
      BY <1>1, <1>2 DEF Shape
    <2>2. /\ ports' \in [AllSingular -> SUBSET Nat]
          /\ \A s \in AllSingular : ports'[s] \subseteq ports[s]
      BY <1>1, <1>2 DEF Shape
    <2>. QED  BY <1>1, <1>2, <2>1, <2>2, ShapeStep
  <1>6. Expected'
    BY <1>2 DEF Expected
  <1>7. /\ q[1] = at /\ q[2] = p /\ Len(q) = 2 /\ Last(q) = p /\ q[Len(q) - 1] = at
        /\ FullLine(mesh, q)
    BY <1>1, <1>2, EdgeLine
  <1>8. CASE ChordOf(mesh, at, p)
    <2>1. /\ LinesOf(mesh, patch_line) /\ Tally(mesh, patch_line, DuePorts, {})
      BY <1>1 DEF IInv
    <2>2. Tally(mesh, patch_line', DuePorts \ {q}, {})
      BY <1>1, <1>2, <1>8, <2>1, TallyChord
    <2>3. LinesOf(mesh, patch_line')
      <3> HIDE DEF q
      <3>1. IsBagOfLines(patch_line') /\ DOMAIN patch_line' = DOMAIN patch_line \union {q}
        BY <1>2, <2>1, OneMoreLine DEF LinesOf
      <3>. QED  BY <1>7, <2>1, <3>1 DEF LinesOf
    <2>4. Begun' /\ CurrentPort' = {}
      BY <1>2 DEF Begun, CurrentPort
    <2> HIDE DEF q
    <2>. QED  BY <1>4, <1>5, <1>6, <2>2, <2>3, <2>4 DEF IInv
  <1>9. CASE ~ChordOf(mesh, at, p)
    <2>1. p \notin SingularOf(mesh)
      BY <1>1, <1>2, <1>3, <1>9 DEF ChordOf, SingularOf, GoodMesh
    <2>2. DuePorts' = DuePorts \ {<<q[1], q[2]>>, <<Last(q), q[Len(q) - 1]>>}
      <3>1. <<p, at>> \notin DuePorts
        BY <2>1 DEF DuePorts, Dues
      <3>. QED  BY <1>4, <1>7, <3>1
    <2>3. Own(mesh, q[1], q[2]) /\ <<q[1], q[2]>> = q
      BY <1>2, <1>7, <1>9 DEF Own
    <2>4. Last(q) \notin SingularOf(mesh)
      BY <1>7, <2>1
    <2> HIDE DEF q
    <2>5. Begun' /\ LinesOf(mesh, patch_line)' /\ Tally(mesh, patch_line, DuePorts, CurrentPort)'
      BY <1>1, <1>2, <1>7, <2>2, <2>3, <2>4, FinishStep
    <2>. QED  BY <1>5, <1>6, <2>5 DEF IInv
  <1>. QED  BY <1>8, <1>9

LEMMA LeaveBoundaryIInv ==
  ASSUME IInv, pc = "border", NEW p \in Unstruck, left' = left \ {p}, LeaveBoundary(p),
         UNCHANGED <<mesh, todo, at>>
  PROVE  IInv'
  <1>1. /\ Shape /\ GoodMesh(mesh) /\ AllSingular = SingularOf(mesh)
        /\ at \in AllSingular /\ at \notin Ahead
        /\ p \in DOMAIN mesh.adj_compact /\ p \in mesh.adj_compact[at]
        /\ <<at, p>> \in DuePorts /\ CurrentPort = {}
    BY PortFacts
  <1>2. /\ ~Inner /\ pc' = "borderline" /\ ~Inner' /\ Drawing' /\ line' = <<at, p>>
        /\ p \notin mesh.boundary_o /\ ports' = ports /\ patch_line' = patch_line
        /\ assist' = IF assist[p] # 0 THEN [assist EXCEPT ![p] = @ - 1] ELSE assist
    BY DEF LeaveBoundary, Pass, Inner, Drawing
  <1>3. p \in RegularOf(mesh)
    <2>1. ASSUME p \in mesh.singularity PROVE FALSE
      <3>1. PICK l : l = <<at, p>>
        OBVIOUS
      <3>2. p \in SingularOf(mesh)
        BY <2>1 DEF SingularOf
      <3>3. /\ l[1] = at /\ l[2] = p /\ Last(l) = p /\ l[Len(l) - 1] = at /\ FullLine(mesh, l)
        BY <1>1, <3>1, <3>2, EdgeLine
      <3>4. Own(mesh, l[1], l[2]) /\ Own(mesh, Last(l), l[Len(l) - 1])
        BY <1>1, <1>2, <3>3, OwnInner
      <3>5. /\ LinesOf(mesh, patch_line) /\ Tally(mesh, patch_line, DuePorts, CurrentPort)
            /\ CurrentPort \subseteq {<<l[1], l[2]>>} /\ <<l[1], l[2]>> \in DuePorts \union CurrentPort
            /\ Last(l) \in SingularOf(mesh)
        BY <1>1, <3>2, <3>3 DEF IInv
      <3>6. <<Last(l), l[Len(l) - 1]>> \in DuePorts
        BY <1>1, <3>3, <3>4, <3>5, ArrivesAtDue
      <3>. QED  BY <1>2, <2>1, <3>3, <3>6, BorderDues
    <2>. QED  BY <1>1, <1>2, <2>1 DEF RegularOf, SingularOf, GoodMesh
  <1>4. DuePorts' = DuePorts \ {<<at, p>>}
    <2>1. DuePorts' = Dues(mesh, ports', Ahead, at, left) \ {<<at, p>>}
      BY <1>1, <1>2, DuesReach
    <2>. QED  BY <1>2, <2>1 DEF DuePorts
  <1>5. Shape'
    <2>1. assist' \in [DOMAIN mesh.adj_compact -> Int]
      BY <1>1, <1>2 DEF Shape
    <2>2. /\ ports' \in [AllSingular -> SUBSET Nat]
          /\ \A s \in AllSingular : ports'[s] \subseteq ports[s]
      BY <1>1, <1>2 DEF Shape
    <2>. QED  BY <1>1, <1>2, <2>1, <2>2, ShapeStep
  <1>6. Begun' /\ LinesOf(mesh, patch_line)' /\ Tally(mesh, patch_line, DuePorts, CurrentPort)'
    BY <1>1, <1>2, <1>3, <1>4, StartStep
  <1>7. Expected'
    BY <1>2 DEF Expected
  <1>. QED  BY <1>5, <1>6, <1>7 DEF IInv

LEMMA TraceBoundaryPortIInv ==
  ASSUME IInv, TraceBoundaryPort
  PROVE  IInv'
  <1>1. PICK p \in Unstruck : /\ left' = left \ {p}
                              /\ SkipBoundaryEdge(p) \/ JoinChord(p) \/ LeaveBoundary(p)
    BY DEF TraceBoundaryPort
  <1>2. pc = "border" /\ UNCHANGED <<mesh, todo, at>>
    BY DEF TraceBoundaryPort
  <1>. QED  BY <1>1, <1>2, SkipBoundaryEdgeIInv, JoinChordIInv, LeaveBoundaryIInv

(* A line that reaches a singularity reaches a port that is due.             *)
LEMMA LineReachesDue ==
  ASSUME IInv, Drawing, NEW v, v = Straight(mesh, line[Len(line) - 1], Last(line)),
         v \in SingularOf(mesh)
  PROVE  <<v, Last(line)>> \in DuePorts
  <1>1. PICK l : l = Append(line, v)
    OBVIOUS
  <1>2. /\ GoodMesh(mesh) /\ l[1] = at /\ l[2] = line[2] /\ Last(l) = v /\ l[Len(l) - 1] = Last(line)
        /\ FullLine(mesh, l)
        /\ Own(mesh, at, line[2]) /\ Own(mesh, v, Last(line)) /\ CurrentPort = {<<at, line[2]>>}
    BY <1>1, Extended
  <1>3. /\ LinesOf(mesh, patch_line) /\ Tally(mesh, patch_line, DuePorts, CurrentPort)
        /\ CurrentPort \subseteq {<<l[1], l[2]>>} /\ <<l[1], l[2]>> \in DuePorts \union CurrentPort
        /\ Last(l) \in SingularOf(mesh) /\ Own(mesh, l[1], l[2]) /\ Own(mesh, Last(l), l[Len(l) - 1])
    BY <1>2 DEF IInv
  <1>4. <<Last(l), l[Len(l) - 1]>> \in DuePorts
    BY <1>2, <1>3, ArrivesAtDue
  <1>. QED  BY <1>2, <1>4

LEMMA ExtendBoundaryLineIInv ==
  ASSUME IInv, ExtendBoundaryLine
  PROVE  IInv'
  <1>1. PICK v : v = Straight(mesh, line[Len(line) - 1], Last(line)) /\
                 (\/ ReachBoundary(v) /\ pc' = "border"
                  \/ PassIntoSingularity(v) /\ pc' = "border"
                  \/ /\ v \notin mesh.singularity \union mesh.boundary_o
                     /\ GoStraight(v) /\ UNCHANGED pc)
    BY DEF ExtendBoundaryLine
  <1>2. /\ pc = "borderline" /\ UNCHANGED <<mesh, todo, at, left>> /\ ~Inner /\ Drawing
    BY DEF ExtendBoundaryLine, Inner, Drawing
  <1>3. CASE ReachBoundary(v) /\ pc' = "border"
    <2>1. /\ v \in mesh.boundary_o /\ ports' = Strike(v, Last(line)) /\ assist' = assist
          /\ patch_line' = patch_line (+) Once(Append(line, v))
          /\ ~Drawing' /\ ~Inner' /\ pc' = "border"
          /\ assist' \in [DOMAIN mesh.adj_compact -> Int]
      BY <1>3 DEF ReachBoundary, Finish, Drawing, Inner, IInv, Shape
    <2>2. /\ Shape' /\ Begun' /\ LinesOf(mesh, patch_line)'
          /\ Tally(mesh, patch_line, DuePorts, CurrentPort)'
      BY <1>1, <1>2, <2>1, ArriveStep
    <2>. QED  BY <2>1, <2>2 DEF IInv, Expected
  <1>4. ~PassIntoSingularity(v)
    <2> SUFFICES ASSUME v \in mesh.singularity PROVE FALSE
      BY DEF PassIntoSingularity
    <2>1. <<v, Last(line)>> \in DuePorts
      BY <1>1, <1>2, LineReachesDue DEF SingularOf
    <2>. QED  BY <1>2, <2>1, BorderDues
  <1>5. CASE v \notin mesh.singularity \union mesh.boundary_o /\ GoStraight(v) /\ UNCHANGED pc
    BY <1>1, <1>2, <1>5, GoOnIInv
  <1>. QED  BY <1>1, <1>3, <1>4, <1>5

-----------------------------------------------------------------------------
LEMMA NextIInv ==
  ASSUME IInv, [Next]_vars
  PROVE  IInv'
  BY NextSingularityIInv, BoundaryPassIInv, TracePortIInv, ExtendLineIInv, TraceBoundaryPortIInv,
     ExtendBoundaryLineIInv, LaidIInv DEF Next

(* The invariant of the tracing: the ports that lines are still due from, and *)
(* that of the line being traced, are exactly those of the singularities'    *)
(* ports that no line ends at; chords and boundary edges aside.              *)
THEOREM TracingIsTallied == Spec => []IInv
  <1>1. Init => IInv
    BY InitIInv
  <1>2. IInv /\ [Next]_vars => IInv'
    BY NextIInv
  <1>. QED  BY <1>1, <1>2, PTL DEF Spec

(* A line that reaches a singularity finds its port unstruck.                *)
LEMMA DueUnstruck ==
  ASSUME NEW v, NEW b, <<v, b>> \in DuePorts
  PROVE  b \in ports[v]
  BY DEF DuePorts, Dues

LEMMA StrikesFound ==
  ASSUME IInv
  PROVE  StrikesFindTheirPort
  <1>1. ASSUME pc = "inner", NEW p \in Unstruck, p \in DOMAIN ports PROVE at \in ports[p]
    <2>1. /\ Shape /\ GoodMesh(mesh) /\ AllSingular = SingularOf(mesh)
          /\ at \in Visited /\ at \in AllSingular
          /\ p \in mesh.adj_compact[at] /\ <<at, p>> \in DuePorts /\ CurrentPort = {}
      BY <1>1, PortFacts
    <2>2. p \in SingularOf(mesh) /\ at \notin mesh.boundary_o
      BY <1>1, <2>1, ShapeFacts DEF Shape, Inner
    <2>3. PICK l : l = <<at, p>>
      OBVIOUS
    <2>4. /\ l[1] = at /\ l[2] = p /\ Last(l) = p /\ l[Len(l) - 1] = at /\ FullLine(mesh, l)
      BY <2>1, <2>2, <2>3, EdgeLine
    <2>5. Own(mesh, l[1], l[2]) /\ Own(mesh, Last(l), l[Len(l) - 1])
      BY <2>1, <2>2, <2>4, OwnInner
    <2>6. /\ LinesOf(mesh, patch_line) /\ Tally(mesh, patch_line, DuePorts, CurrentPort)
          /\ CurrentPort \subseteq {<<l[1], l[2]>>} /\ <<l[1], l[2]>> \in DuePorts \union CurrentPort
          /\ Last(l) \in SingularOf(mesh)
      BY <2>1, <2>2, <2>4 DEF IInv
    <2>7. <<Last(l), l[Len(l) - 1]>> \in DuePorts
      BY <2>1, <2>4, <2>5, <2>6, ArrivesAtDue
    <2>. QED  BY <2>4, <2>7, DueUnstruck
  <1>2. ASSUME Drawing, NEW v, v = Straight(mesh, line[Len(line) - 1], Last(line)), v \in DOMAIN ports
        PROVE  Last(line) \in ports[v]
    <2>1. v \in SingularOf(mesh)
      BY <1>2, ShapeFacts DEF IInv, Shape
    <2>2. <<v, Last(line)>> \in DuePorts
      BY <1>2, <2>1, LineReachesDue
    <2>. QED  BY <2>2, DueUnstruck
  <1>. QED  BY <1>1, <1>2 DEF StrikesFindTheirPort, Drawing

(* Every line that reaches a singularity strikes a port that is there: the   *)
(* end of std::find is never taken for a place in the list.                  *)
THEOREM StrikesAlwaysFind == Spec => []StrikesFindTheirPort
  BY TracingIsTallied, StrikesFound, PTL

(* A full line runs straight.                                                *)
LEMMA FullIsStraight ==
  ASSUME GoodMesh(mesh), AllSingular = SingularOf(mesh), NEW l, FullLine(mesh, l)
  PROVE  IsStraight(l)
  <1> DEFINE n == Len(l)
  <1>0. l \in Seq(DOMAIN mesh.adj_compact)
    BY DEF FullLine, Runs
  <1>. n \in Nat
    BY <1>0
  <1>1. /\ n >= 2 /\ l[1] \in SingularOf(mesh)
        /\ \A j \in 1 .. n - 1 : l[j + 1] \in mesh.adj_compact[l[j]]
        /\ \A j \in 2 .. n - 1 : l[j] \in RegularOf(mesh) /\ l[j + 1] = Straight(mesh, l[j - 1], l[j])
        /\ Last(l) \in SingularOf(mesh) \union mesh.boundary_o
    BY DEF FullLine, Runs
  <1>2. \A j \in 1 .. n : l[j] \in DOMAIN mesh.adj_compact
    BY <1>0
  <1>3. Head(l) = l[1]
    BY <1>0
  <1>4. ASSUME NEW j \in Inside(l)
        PROVE  /\ l[j] \in Regular /\ {l[j - 1], l[j + 1]} \subseteq mesh.adj_compact[l[j]]
               /\ \A f \in mesh.F_compact :
                    ~ {{l[j - 1], l[j]}, {l[j], l[j + 1]}} \subseteq {{f[i], f[Following(i)]} : i \in 1 .. 4}
    <2>1. /\ j \in 2 .. n - 1 /\ j - 1 \in 1 .. n - 1 /\ (j - 1) + 1 = j /\ j - 1 \in 1 .. n
          /\ j \in 1 .. n - 1
      BY <1>1, <1>4 DEF Inside
    <2>2. l[j] \in RegularOf(mesh) /\ l[j + 1] = Straight(mesh, l[j - 1], l[j])
      BY <1>1, <2>1
    <2>3. l[j - 1] \in mesh.adj_compact[l[j]]
      <3>1. l[(j - 1) + 1] \in mesh.adj_compact[l[j - 1]] /\ l[j - 1] \in DOMAIN mesh.adj_compact
        BY <1>1, <1>2, <2>1
      <3>. QED  BY <2>1, <3>1 DEF GoodMesh
    <2>4. GoesStraight(mesh, l[j - 1], l[j])
      BY <2>2, <2>3, OnRegular
    <2>5. l[j] \in Regular
      BY <2>2 DEF Regular, RegularOf
    <2>. QED  BY <2>2, <2>3, <2>4, <2>5 DEF GoesStraight
  <1>. QED  BY <1>1, <1>3, <1>4 DEF IsStraight

LEMMA LinesSeparate ==
  ASSUME IInv
  PROVE  LinesAreTheSeparatrices
  <1>1. /\ Shape /\ GoodMesh(mesh) /\ AllSingular = SingularOf(mesh)
        /\ LinesOf(mesh, patch_line) /\ Tally(mesh, patch_line, DuePorts, CurrentPort)
        /\ AllSingular \subseteq Nat
    <2>1. /\ Shape /\ LinesOf(mesh, patch_line) /\ Tally(mesh, patch_line, DuePorts, CurrentPort)
      BY DEF IInv
    <2>2. /\ GoodMesh(mesh) /\ AllSingular = SingularOf(mesh)
          /\ AllSingular \subseteq DOMAIN mesh.adj_compact
          /\ \A v \in DOMAIN mesh.adj_compact : v \in Nat
      BY <2>1, ShapeFacts
    <2>. QED  BY <2>1, <2>2
  <1>2. \A l \in DOMAIN patch_line : IsStraight(l)
    BY <1>1, FullIsStraight DEF LinesOf
  <1>3. ASSUME Laid, NEW s \in AllSingular, NEW a \in mesh.adj_compact[s]
        PROVE  LineEndsAt(s, a) =
                 IF {<<s, a>>, <<a, s>>} \intersect mesh.boundaryvertex # {} THEN 0
                 ELSE IF Chord(s, a) THEN 2 ELSE 1
    <2>1. todo = {} /\ Unstruck = {} /\ ~Inner /\ CurrentPort = {}
      BY <1>1, <1>3 DEF Shape, Laid, Inner, CurrentPort, Drawing
    <2>2. DuePorts = {}
      <3>1. Ahead = {}
        BY <2>1 DEF Ahead
      <3>2. ASSUME NEW e \in Nat \X Nat, e[1] = at, e[2] \in left, e[2] \in ports[e[1]]
            PROVE  FALSE
        <4>1. at # -1
          BY <3>2
        <4>. QED  BY <2>1, <3>2, <4>1 DEF Unstruck
      <3>. QED  BY <3>1, <3>2 DEF DuePorts, Dues
    <2>3. EndsOf(patch_line, s, a) =
            IF AlongOf(mesh, s, a) THEN 0 ELSE IF ChordOf(mesh, s, a) THEN 2 ELSE 1
      BY <1>1, <2>1, <2>2 DEF Tally
    <2>4. LineEndsAt(s, a) = EndsOf(patch_line, s, a)
      BY LineEndsAtIs
    <2>. QED  BY <2>3, <2>4 DEF AlongOf, ChordOf, Chord
  <1>. QED  BY <1>2, <1>3 DEF LinesAreTheSeparatrices

(* The lines are the separatrices of the mesh: each runs straight, and when  *)
(* all are traced each port of a singularity is the end of exactly one.      *)
THEOREM SeparatricesTraced == Spec => []LinesAreTheSeparatrices
  BY TracingIsTallied, LinesSeparate, PTL
=============================================================================
