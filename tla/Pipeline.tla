------------------------------ MODULE Pipeline ------------------------------
(***************************************************************************)
(* The two commands that turn a model into an untrimmed NURBS STEP file,   *)
(* and the temporary directory they share:                                 *)
(*                                                                         *)
(*  - "untrim"  CmdMergeFit::run, stages 0 to 4, started at run_from;      *)
(*  - "stl2cad" CmdReconstructCAD::Run, from a triangle mesh of the user.  *)
(*                                                                         *)
(* Every stage reads the file its predecessor left in temp_dir and writes  *)
(* its own, so the directory is the only state that outlives a process.    *)
(* A process may stop at any point: an abort, an uncaught exception, a     *)
(* kill.  The next process, on the same or on another model, finds what    *)
(* was left.                                                               *)
(*                                                                         *)
(* The contents of a file are abstracted to the model they were computed   *)
(* from and to whether they are sound: written to the end, from sound      *)
(* input, by a stage that succeeded.                                       *)
(***************************************************************************)
EXTENDS Naturals, Sequences

CONSTANTS
  Models,       \* the CAD files a user works on
  Unreadable,   \* those among them CADModelIO::Load returns a null model for
  MaxRuns,      \* bound: processes started on the directory
  WritesFail    \* may an output file fail to open (directory not writable)?

ASSUME PipelineAssumption ==
  /\ Unreadable \subseteq Models
  /\ MaxRuns \in Nat
  /\ WritesFail \in BOOLEAN

VARIABLES
  disk,   \* File -> what the file holds, or NoFile
  proc,   \* the running process: its command, argument and program counter
  mem,    \* what the current step has read and computed, not yet written
  exit,   \* how the last process ended
  runs    \* processes started so far

pipeline_vars == <<disk, proc, mem, exit, runs>>

(***************************************************************************)
(* The files, in the order the stages write them.  Step i reads File[i-1]  *)
(* (step 1 reads the CAD file) and writes File[i].                         *)
(***************************************************************************)
File == <<"tri.stl", "tri.obj", "tri_fix.obj", "patch.txt", "surf.pat", "out.step">>
Steps == 1 .. Len(File)
Stl == 1
Obj == 2
Fix == 3
Patch == 4
Pat == 5
Out == 6

NoFile == [from |-> "none", sound |-> FALSE]
Contents == [from : Models \union {NoFile.from}, sound : BOOLEAN]

(* run_from -> the first step the process executes *)
FirstStep == [r \in 0 .. 4 |-> CASE r = 0 -> Stl [] r = 1 -> Fix [] r = 2 -> Patch
                                 [] r = 3 -> Pat [] r = 4 -> Out]

UnknownStage == 5   \* stands for every value of run_from that names no stage

(* run_from -> the file whose existence is tested before starting (0: none). *)
(* Stage 4 tests patch.txt, as stage 3 does.                                 *)
CheckedFile == [r \in 0 .. 4 |-> CASE r = 0 -> 0 [] r = 1 -> Obj [] r = 2 -> Fix
                                   [] r = 3 -> Patch [] r = 4 -> Patch]

(***************************************************************************)
(* A process: its command line, the step it is in, and three phases per    *)
(* step, since a crash may separate them: the input is read and computed   *)
(* on, the output file is opened (which truncates it), the data is written.*)
(* origin (what the result should be computed from) and trouble (what went *)
(* wrong without stopping the process) are history: the code keeps neither.*)
(***************************************************************************)
Commands == {"untrim", "stl2cad"}
Troubles == {"skip", "fit", "open"}
Processes == [cmd : Commands, model : Models, run_from : 0 .. 4, step : Steps,
              phase : {"read", "open", "write", "ended"}, origin : Contents,
              trouble : SUBSET Troubles]
NoProcess == [phase |-> "ended"]

Running == proc.phase # "ended"
First(p) == IF p.cmd = "stl2cad" THEN Patch ELSE FirstStep[p.run_from]

-----------------------------------------------------------------------------
PipelineInit ==
  /\ disk = [i \in Steps |-> NoFile]
  /\ proc = NoProcess
  /\ mem = NoFile
  /\ exit = "none"
  /\ runs = 0

Start(cmd, m, r) ==
  proc' = [cmd |-> cmd, model |-> m, run_from |-> r, phase |-> "read", trouble |-> {},
           step |-> IF cmd = "stl2cad" THEN Patch ELSE FirstStep[r],
           origin |-> IF r = 0 THEN [from |-> m, sound |-> TRUE]
                               ELSE disk[FirstStep[r] - 1]]

(* CmdMergeFit::run up to its first stage: a missing start file, or a value  *)
(* of run_from that names no stage, refuses the run, and the process returns *)
(* 1 with nothing changed.                                                   *)
StartUntrim(m, r) ==
  /\ ~Running /\ runs < MaxRuns
  /\ runs' = runs + 1
  /\ IF r = UnknownStage \/ (CheckedFile[r] # 0 /\ disk[CheckedFile[r]] = NoFile)
     THEN exit' = "refused" /\ proc' = NoProcess
     ELSE exit' = "none" /\ Start("untrim", m, r)
  /\ UNCHANGED <<disk, mem>>

(* CmdReconstructCAD::Run starts by loading the mesh file the user names.    *)
StartStl2cad(m) ==
  /\ ~Running /\ runs < MaxRuns
  /\ runs' = runs + 1
  /\ exit' = "none"
  /\ Start("stl2cad", m, 0)
  /\ UNCHANGED <<disk, mem>>

-----------------------------------------------------------------------------
(* The process leaves the step it is in and goes on with the next stage, or  *)
(* returns 0 after the last one; t is what went wrong in the step.           *)
Advance(t) ==
  /\ proc' = IF proc.step = Out
             THEN [proc EXCEPT !.phase = "ended", !.trouble = @ \union t]
             ELSE [proc EXCEPT !.step = @ + 1, !.phase = "read", !.trouble = @ \union t]
  /\ exit' = IF proc.step = Out THEN "ok" ELSE exit
  /\ mem' = NoFile

End(how) ==
  /\ proc' = [proc EXCEPT !.phase = "ended"]
  /\ exit' = how
  /\ mem' = NoFile

ReadsModel == proc.step = Stl \/ (proc.cmd = "stl2cad" /\ proc.step = Patch)
(* Faulty variant: the quad mesh is generated from the mesh before fixing.   *)
InputUnfixed ==
  IF ~ReadsModel THEN disk[IF proc.step = Patch THEN Obj ELSE proc.step - 1]
  ELSE IF proc.model \in Unreadable THEN NoFile
  ELSE [from |-> proc.model, sound |-> TRUE]

(* What the step reads: the model the user named, or the previous file.      *)
Input == IF ~ReadsModel THEN disk[proc.step - 1]
         ELSE IF proc.model \in Unreadable THEN NoFile
         ELSE [from |-> proc.model, sound |-> TRUE]

Computed(result, t) ==
  /\ mem' = result
  /\ proc' = [proc EXCEPT !.phase = "open", !.trouble = @ \union t]
  /\ UNCHANGED <<disk, exit, runs>>

(* A stage that finds its input computes on it.  Only fitting reports a      *)
(* failure of its own (fit_grid could not solve), and what it has is written *)
(* all the same.                                                             *)
Compute ==
  /\ Running /\ proc.phase = "read"
  /\ Input # NoFile
  /\ \/ Computed(Input, {})
     \/ proc.step = Pat /\ Computed([Input EXCEPT !.sound = FALSE], {"fit"})

(* A stage that does not find its input:                                     *)
(*  - triangular and ConvertStlToObj return without writing, and so does     *)
(*    generate_quad_mesh_from_tri_mesh; CmdMergeFit ignores what they return,*)
(*    CmdReconstructCAD returns 1;                                           *)
(*  - load::Loader and GenerateShell::Read go on with the empty mesh, or an  *)
(*    unset patch number;                                                    *)
(*  - MultiPatchFit::initialize aborts when no patch was read.               *)
NoInput ==
  /\ Running /\ proc.phase = "read"
  /\ Input = NoFile
  /\ \/ /\ proc.step \in {Stl, Obj, Patch} /\ proc.cmd = "untrim"
        /\ Advance({"skip"})
        /\ UNCHANGED <<disk, runs>>
     \/ /\ proc.step = Patch /\ proc.cmd = "stl2cad"
        /\ End("failed")
        /\ UNCHANGED <<disk, runs>>
     \/ /\ proc.step \in {Fix, Out}
        /\ Computed([from |-> proc.model, sound |-> FALSE], {"skip"})
     \/ /\ proc.step = Pat
        /\ End("aborted")
        /\ UNCHANGED <<disk, runs>>

(* Faulty variant: the triangle mesh is fixed in place.                      *)
OpenInPlace ==
  /\ Running /\ proc.phase = "open"
  /\ disk' = [disk EXCEPT ![IF proc.step = Fix THEN Obj ELSE proc.step] =
                             [from |-> mem.from, sound |-> FALSE]]
  /\ proc' = [proc EXCEPT !.phase = "write"]
  /\ UNCHANGED <<mem, exit, runs>>

(* Opening the output truncates the file.                                    *)
Open ==
  /\ Running /\ proc.phase = "open"
  /\ disk' = [disk EXCEPT ![proc.step] = [from |-> mem.from, sound |-> FALSE]]
  /\ proc' = [proc EXCEPT !.phase = "write"]
  /\ UNCHANGED <<mem, exit, runs>>

(* No writer reports a file it could not open to the commands.               *)
OpenFails ==
  /\ WritesFail
  /\ Running /\ proc.phase = "open"
  /\ Advance({"open"})
  /\ UNCHANGED <<disk, runs>>

(* Faulty variant: the process goes on before the data reached the file.     *)
WriteUnflushed ==
  /\ Running /\ proc.phase = "write"
  /\ Advance({})
  /\ UNCHANGED <<disk, runs>>

(* The data is written and the stage returns to the command.                 *)
Write ==
  /\ Running /\ proc.phase = "write"
  /\ disk' = [disk EXCEPT ![proc.step] = mem]
  /\ Advance({})
  /\ UNCHANGED runs

(* Any stage may stop the process: an abort, an exception, a signal.         *)
Crash ==
  /\ Running
  /\ End("crashed")
  /\ UNCHANGED <<disk, runs>>

PipelineNext ==
  \/ \E m \in Models, r \in 0 .. UnknownStage : StartUntrim(m, r)
  \/ \E m \in Models : StartStl2cad(m)
  \/ Compute \/ NoInput \/ Open \/ OpenFails \/ Write \/ Crash

PipelineSpec == PipelineInit /\ [][PipelineNext]_pipeline_vars

-----------------------------------------------------------------------------
TypeOK ==
  /\ disk \in [Steps -> Contents]
  /\ proc \in Processes \union {NoProcess}
  /\ mem \in Contents
  /\ exit \in {"none", "ok", "refused", "failed", "aborted", "crashed"}
  /\ runs \in 0 .. MaxRuns

(* A process that returned 0 with nothing gone wrong on the way left a STEP  *)
(* file computed from the model it was given or, resumed by run_from, from   *)
(* the file it resumed on, and as sound as that file: whatever torn and      *)
(* stale files earlier processes left in the directory.                      *)
QuietRunIsFaithful ==
  exit = "ok" /\ proc.trouble = {} => disk[Out] = proc.origin

(* Wherever a process that had no trouble stops, the steps it completed are  *)
(* on disk and computed from its own origin: run_from can name the stage     *)
(* that was interrupted.                                                     *)
CompletedStepsSurvive ==
  proc # NoProcess /\ proc.trouble = {} =>
    \A i \in First(proc) .. proc.step - 1 : disk[i] = proc.origin

(* Resuming at a stage never touches what the earlier stages left, so a run  *)
(* can be resumed again from an earlier stage; a refused run touches nothing.*)
ResumeKeepsEarlierFiles ==
  [][/\ Running => \A i \in 1 .. First(proc) - 1 : disk'[i] = disk[i]
     /\ ~Running => disk' = disk]_pipeline_vars

-----------------------------------------------------------------------------
(* What CmdMergeFit::run prints before it returns 0, "Successfully done      *)
(* merging and fitting the surface!", for a run of the whole pipeline: the   *)
(* STEP file is the surface of the model it was given.                       *)
SuccessIsAboutThisModel ==
  exit = "ok" /\ proc.cmd = "untrim" /\ proc.run_from = 0 => disk[Out].from = proc.model

(* What stage 4 is started on, by its message "The patch info of the fitted  *)
(* surface does not exist!": a fitted surface is there to be read.           *)
Stage4FindsTheFittedSurface ==
  Running /\ proc.cmd = "untrim" /\ proc.run_from = 4 /\ proc.phase = "read"
    => disk[Pat] # NoFile
=============================================================================
