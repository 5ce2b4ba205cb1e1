------------------------------ MODULE Pipeline ------------------------------
(***************************************************************************)
(* One request of the playground (internal/bpipeline/pipeline.go): the     *)
(* submitted source goes through bosc, bas and bld and the program is run, *)
(* all under one deadline.  Configured as "local" the pipeline starts each *)
(* command itself; as "runner" (or sandbox, a runner too) it starts        *)
(* bplay-runner, which starts the command (module Runner).  The deadline   *)
(* of the request kills whatever process the pipeline started, and only    *)
(* that one.                                                               *)
(***************************************************************************)
EXTENDS Runner, Sequences

VARIABLES
  mode,       \* Config.Mode
  ppc,        \* what the pipeline does next
  stage,      \* the stage it is at
  pctx,       \* the request's context: "none" before it exists, then "live",
              \* "deadline" or "canceled"
  pdeadline,  \* when it expires
  workdir,    \* whether the working directory exists
  step,       \* the StepResult of the stage
  status,     \* the status of the response
  exits       \* how each stage's command really ended

requestVars == <<mode, ppc, stage, pctx, pdeadline, workdir, step, status, exits>>
allVars == <<now, runnerVars, requestVars>>

Stages == <<"bosc", "bas", "bld", "run">>

statusForStage ==
  [bosc |-> "compile_error", bas |-> "assemble_error", bld |-> "link_error",
   run |-> "runtime_error"]

Respond(st) == ppc' = "responded" /\ status' = st /\ workdir' = FALSE

(* MkdirTemp, and the source and stdin files.                              *)
MakeWorkdir ==
  /\ ppc = "mkdir"
  /\ \/ ppc' = "write" /\ workdir' = TRUE /\ UNCHANGED status
     \/ Respond("internal_error")
  /\ UNCHANGED <<now, runnerVars, mode, stage, pctx, pdeadline, step, exits>>

WriteFiles ==
  /\ ppc = "write"
  /\ \/ /\ ppc' = "launch" /\ pctx' = "live" /\ pdeadline' = now + Timeout
        /\ UNCHANGED <<workdir, status>>
     \/ Respond("internal_error") /\ UNCHANGED <<pctx, pdeadline>>
  /\ UNCHANGED <<now, runnerVars, mode, stage, step, exits>>

StepOf(exit, timeout) == [exit |-> exit, timedOut |-> timeout]
CtxTimeout == mode = "runner" /\ pctx = "deadline"

(* Run of exec.Cmd fails at once when the context is done, or when the     *)
(* program (in local mode also the stdin file) cannot be opened.           *)
Launch ==
  /\ ppc = "launch"
  /\ \/ /\ pctx = "live" /\ ppc' = "wait"
        /\ IF mode = "runner" THEN Begin
           ELSE /\ child' = "running" /\ code' = 0 /\ cause' = "none"
                /\ UNCHANGED <<rpc, rdeadline, expired, cgroup, timedOut, result>>
        /\ UNCHANGED step
     \/ /\ ppc' = "judge" /\ step' = StepOf(-1, CtxTimeout)
        /\ UNCHANGED runnerVars
  /\ UNCHANGED <<now, mode, stage, pctx, pdeadline, workdir, status, exits>>

(* The goroutine of os/exec that kills the started process when the        *)
(* context is done; a process that has just ended well counts as killed    *)
(* too, as in WatchKill.                                                   *)
CtxKill ==
  /\ ppc = "wait" /\ pctx # "live"
  /\ \/ /\ mode = "runner" /\ rpc # "killed" /\ rpc' = "killed"
        /\ UNCHANGED <<rdeadline, expired, child, code, cause, cgroup, timedOut, result>>
     \/ /\ mode = "local"
        /\ \/ child = "running" /\ KillChild("deadline")
           \/ child = "ended" /\ code = 0 /\ code' = -1 /\ UNCHANGED <<child, cause>>
        /\ UNCHANGED <<rpc, rdeadline, expired, cgroup, timedOut, result>>
  /\ UNCHANGED <<now, requestVars>>

(* Mutant of Collect: the stage returns at the deadline, without waiting.  *)
ReturnsEarly ==
  /\ ppc = "wait" /\ ppc' = "judge"
  /\ mode = "local"
  /\ \/ child = "ended" /\ step' = StepOf(code, FALSE)
     \/ pctx # "live" /\ step' = StepOf(-1, FALSE)
  /\ exits' = Append(exits, code)
  /\ UNCHANGED <<now, runnerVars, mode, stage, pctx, pdeadline, workdir, status>>

(* runCommand and runCommandViaRunner once the process has ended.          *)
Collect ==
  /\ ppc = "wait" /\ ppc' = "judge"
  /\ \/ mode = "runner" /\ rpc = "killed" /\ step' = StepOf(-1, CtxTimeout)
     \/ /\ mode = "runner" /\ rpc = "exited"
        /\ step' = StepOf(IF result.timedOut THEN -1 ELSE result.exit, result.timedOut)
     \/ mode = "local" /\ child = "ended" /\ step' = StepOf(code, FALSE)
  /\ exits' = Append(exits, code)
  /\ UNCHANGED <<now, runnerVars, mode, stage, pctx, pdeadline, workdir, status>>

(* Mutant of Judge: a stage that fails does not stop the pipeline.         *)
GoesOn ==
  /\ ppc = "judge"
  /\ IF pctx = "deadline" \/ step.timedOut THEN Respond("timeout") /\ UNCHANGED stage
     ELSE IF stage = Len(Stages) THEN /\ Respond(IF step.exit = 0 THEN "ok" ELSE statusForStage[Stages[stage]])
                                      /\ UNCHANGED stage
     ELSE ppc' = "launch" /\ stage' = stage + 1 /\ UNCHANGED <<workdir, status>>
  /\ UNCHANGED <<now, runnerVars, mode, pctx, pdeadline, step, exits>>

(* Mutant of Judge: the exit code is looked at before the deadline.        *)
ExitFirst ==
  /\ ppc = "judge"
  /\ IF step.exit # 0 THEN Respond(statusForStage[Stages[stage]]) /\ UNCHANGED stage
     ELSE IF pctx = "deadline" \/ step.timedOut THEN Respond("timeout") /\ UNCHANGED stage
     ELSE IF stage = Len(Stages) THEN Respond("ok") /\ UNCHANGED stage
     ELSE ppc' = "launch" /\ stage' = stage + 1 /\ UNCHANGED <<workdir, status>>
  /\ UNCHANGED <<now, runnerVars, mode, pctx, pdeadline, step, exits>>

(* What Run makes of a stage's result.                                     *)
Judge ==
  /\ ppc = "judge"
  /\ IF pctx = "deadline" \/ step.timedOut THEN Respond("timeout") /\ UNCHANGED stage
     ELSE IF step.exit # 0 THEN Respond(statusForStage[Stages[stage]]) /\ UNCHANGED stage
     ELSE IF stage = Len(Stages) THEN Respond("ok") /\ UNCHANGED stage
     ELSE ppc' = "launch" /\ stage' = stage + 1 /\ UNCHANGED <<workdir, status>>
  /\ UNCHANGED <<now, runnerVars, mode, pctx, pdeadline, step, exits>>

Pending == ppc # "responded" /\ pctx = "live"

Deadline ==
  /\ Pending /\ now >= pdeadline /\ pctx' = "deadline"
  /\ UNCHANGED <<now, runnerVars, mode, ppc, stage, pdeadline, workdir, step, status, exits>>

Cancel ==
  /\ Pending /\ pctx' = "canceled"
  /\ UNCHANGED <<now, runnerVars, mode, ppc, stage, pdeadline, workdir, step, status, exits>>

PipelineInit ==
  /\ now = 0 /\ rpc = "off" /\ rdeadline = 0 /\ expired = FALSE
  /\ child = "none" /\ code = 0 /\ cause = "none" /\ cgroup = FALSE
  /\ timedOut = FALSE /\ result = NoResult
  /\ mode \in {"local", "runner"} /\ ppc = "mkdir" /\ stage = 1 /\ pctx = "none" /\ pdeadline = 0
  /\ workdir = FALSE /\ step = StepOf(0, FALSE) /\ status = "none" /\ exits = <<>>

(* What the scheduler and the timers are bound to do.                      *)
Pipelined == MakeWorkdir \/ WriteFiles \/ Launch \/ CtxKill \/ Collect \/ Judge
Running   == (RunnerSteps \/ RunnerExpires \/ WatchKill) /\ UNCHANGED requestVars

(* Time is counted from the moment the request's context exists.           *)
Clock == Tick /\ pctx # "none" /\ UNCHANGED requestVars

PipelineNext ==
  \/ Pipelined \/ Deadline \/ Cancel
  \/ Running \/ Clock
  \/ ChildEnds /\ UNCHANGED requestVars

(* The pipeline, the runner and the clock make progress and the timer of   *)
(* the request fires.  A command may run for ever, a client may stay.      *)
PipelineSpec ==
  /\ PipelineInit /\ [][PipelineNext]_allVars
  /\ WF_allVars(Pipelined) /\ WF_allVars(Running) /\ WF_allVars(Deadline)
  /\ WF_allVars(Clock)

-----------------------------------------------------------------------------
Responded == ppc = "responded"

(* The status is true to what happened: ok means that all four commands    *)
(* ended with status 0; timeout that the limit had passed; and once the    *)
(* deadline of the request has fired no stage is blamed for it.            *)
StatusTrue ==
  Responded =>
    /\ status = "ok" => exits = <<0, 0, 0, 0>>
    /\ status = "timeout" => now >= pdeadline
    /\ pctx = "deadline" => status = "timeout"

(* A request that is run locally leaves nothing behind: when it is         *)
(* answered no command of it is running and its directory is gone.         *)
NothingLeft == Responded /\ mode = "local" => child # "running" /\ ~workdir

(* When the answer is `timeout', the command that overran was killed.      *)
KilledOnTimeout == Responded /\ status = "timeout" => child # "running"

(* The pipeline implements the promise made to a client (module Request):  *)
(* whichever way it starts its commands, and however a deadline, a client  *)
(* that leaves and a command that ends race with each other; also when a   *)
(* command never ends, the answer comes.                                   *)
Promise == INSTANCE Request WITH
  Blame <- [i \in DOMAIN Stages |-> statusForStage[Stages[i]]],
  results <- exits, late <- pctx # "none" /\ now >= pdeadline, dir <- workdir, answer <- status
ImplementsRequest == Promise!RequestSpec
=============================================================================
