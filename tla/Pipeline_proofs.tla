-------------------------- MODULE Pipeline_proofs ---------------------------
(***************************************************************************)
(* Theorems about the playground's runner and pipeline (modules Runner and *)
(* Pipeline) and the safety part of the refinement of module Request, for  *)
(* every time limit, with and without a cgroup.                            *)
(***************************************************************************)
EXTENDS Pipeline, TLAPS

Exits == {-1, 0, 1}
Reasons == {"none", "stdin_open", "sandbox", "cgroup", "limits", "start", "exec", "oom", "timeout"}
Results == [exit : Exits, timedOut : BOOLEAN, killed : BOOLEAN, reason : Reasons]

(* The types of the runner's and of the request's variables.               *)
RunnerType ==
  /\ now \in Nat /\ rdeadline \in Nat
  /\ rpc \in {"off", "open", "cgroup", "limits", "start", "join", "select",
              "report", "cleanup", "exited", "killed"}
  /\ expired \in BOOLEAN /\ cgroup \in BOOLEAN /\ timedOut \in BOOLEAN
  /\ child \in {"none", "running", "ended"} /\ code \in Exits
  /\ result \in Results

RequestType ==
  /\ mode \in {"local", "runner"}
  /\ ppc \in {"mkdir", "write", "launch", "wait", "judge", "responded"}
  /\ pctx \in {"none", "live", "deadline", "canceled"} /\ pdeadline \in Nat
  /\ stage \in 1 .. 4 /\ workdir \in BOOLEAN /\ exits \in Seq(Exits)
  /\ step \in [exit : Exits, timedOut : BOOLEAN]

(* Where the runner is says what has become of the command and the cgroup. *)
ChildPhase ==
  /\ rpc = "off" => ~cgroup
  /\ rpc \in {"open", "cgroup"} => child = "none" /\ ~cgroup
  /\ rpc \in {"limits", "start"} => child = "none"
  /\ rpc = "report" => child = "ended"
  /\ rpc = "cleanup" => child # "running"
  /\ rpc = "exited" => child # "running" /\ ~cgroup

(* The result is true from the moment it is made.                          *)
ResultTrue ==
  /\ expired \/ timedOut \/ result.timedOut => now >= rdeadline
  /\ rpc \in {"cleanup", "exited"} =>
       /\ result.exit = 0 => child = "ended" /\ code = 0
       /\ child = "ended" /\ code = -1 => result.killed

(* A runner's deadline is never before that of the request it serves.      *)
Deadlines ==
  /\ ppc \in {"mkdir", "write"} => pctx = "none" /\ rpc = "off"
  /\ ppc \in {"launch", "wait", "judge"} => pctx # "none"
  /\ pctx # "none" => pdeadline <= now + Timeout
  /\ pctx = "deadline" => now >= pdeadline
  /\ rpc # "off" => pctx # "none" /\ rdeadline >= pdeadline

(* Which process the pipeline is waiting for.                              *)
Waiting ==
  /\ mode = "local" => rpc = "off" /\ (ppc # "wait" => child # "running")
  /\ mode = "runner" /\ ppc = "wait" => rpc # "off"
  /\ workdir <=> ppc \in {"write", "launch", "wait", "judge"}
  /\ status = "none" <=> ppc # "responded"

(* All stages before the present one have succeeded.                       *)
StagesWell ==
  /\ ppc \in {"mkdir", "write"} => exits = <<>> /\ stage = 1
  /\ ppc \in {"launch", "wait"} => Len(exits) = stage - 1
  /\ ppc \in {"launch", "wait", "judge"} =>
       /\ Len(exits) \in {stage - 1, stage}
       /\ \A i \in 1 .. stage - 1 : exits[i] = 0
  /\ ppc = "judge" =>
       /\ step.exit = 0 => Len(exits) = stage /\ exits[stage] = 0
       /\ step.timedOut => now >= pdeadline

PipeInv ==
  /\ RunnerType /\ RequestType /\ ChildPhase /\ ResultTrue
  /\ Deadlines /\ Waiting /\ StagesWell /\ StatusTrue

(* What an early return of run leaves: the result of a killed command.     *)
FailedResult(r) == r \in Results /\ r.exit = -1 /\ r.timedOut = FALSE /\ r.killed = TRUE

LEMMA FailResult ==
  ASSUME NEW why \in Reasons
  PROVE  Fail(why) => rpc' = "cleanup" /\ FailedResult(result')
  BY DEF Fail, Failure, FailedResult, Results, Exits

LEMMA NoResultType ==
   NoResult \in Results /\ NoResult.exit = 0 /\ NoResult.timedOut = FALSE
  BY DEF NoResult, Results, Exits, Reasons

LEMMA ReportResult ==
  ASSUME RunnerType, Report
  PROVE  /\ result' \in Results /\ result'.exit = code /\ result'.timedOut = timedOut
         /\ code = -1 => result'.killed
  <1>1. Reason \in Reasons
    BY DEF Reason, Reasons
  <1>4. code = -1 => Reason # "none"
    BY DEF Reason
  <1>2. result' = [exit |-> code, timedOut |-> timedOut, killed |-> Reason # "none", reason |-> Reason]
    BY DEF Report, exitCode
  <1>3. (Reason # "none") \in BOOLEAN
    OBVIOUS
  <1> QED BY <1>1, <1>2, <1>3, <1>4 DEF RunnerType, Results, Exits

LEMMA StepType ==
  ASSUME NEW e \in Exits, NEW t \in BOOLEAN
  PROVE  StepOf(e, t) \in [exit : Exits, timedOut : BOOLEAN] /\ StepOf(e, t).exit = e /\ StepOf(e, t).timedOut = t
  BY DEF StepOf, Exits

LEMMA InitPipe == PipelineInit => PipeInv
  <1> SUFFICES ASSUME PipelineInit PROVE PipeInv
    OBVIOUS
  <1> USE RunnerConstants DEF PipelineInit
  <1>1. step \in [exit : Exits, timedOut : BOOLEAN]
    BY StepType DEF Exits
  <1>2. RunnerType
    BY NoResultType DEF RunnerType, Exits
  <1>3. RequestType
    <2>1. <<>> \in Seq(Exits) /\ 1 \in 1 .. 4 /\ 0 \in Nat
      OBVIOUS
    <2> QED BY <1>1, <2>1, Zenon DEF RequestType
  <1>4. ChildPhase /\ ResultTrue
    BY NoResultType DEF ChildPhase, ResultTrue
  <1>5. Deadlines /\ Waiting /\ StagesWell /\ StatusTrue
    BY DEF Deadlines, Waiting, StagesWell, StatusTrue, Responded
  <1> QED BY <1>2, <1>3, <1>4, <1>5 DEF PipeInv

(* The five steps of run that may return early, with the early return      *)
(* summarised.                                                             *)
LEMMA EarlyReturns ==
  /\ OpenStdin => \/ rpc' = "cgroup" /\ UNCHANGED result
                  \/ rpc' = "cleanup" /\ FailedResult(result')
  /\ SetupCgroup => \/ rpc' = "limits" /\ cgroup' = UseCgroup /\ UNCHANGED result
                    \/ rpc' = "cleanup" /\ FailedResult(result') /\ UNCHANGED cgroup
  /\ ApplyLimits => \/ rpc' = "start" /\ UNCHANGED result
                    \/ rpc' = "cleanup" /\ FailedResult(result')
  /\ Start => \/ child' = "running" /\ rpc' \in {"join", "select"} /\ UNCHANGED result
              \/ rpc' = "cleanup" /\ FailedResult(result') /\ UNCHANGED child
  /\ Join => \/ rpc' = "select" /\ UNCHANGED <<result, child, code, cause>>
             \/ rpc' = "cleanup" /\ FailedResult(result') /\ KillChild("setup")
  <1>1. \A why \in Reasons : Fail(why) => rpc' = "cleanup" /\ FailedResult(result')
    BY FailResult
  <1>2. {"stdin_open", "sandbox", "cgroup", "limits", "start"} \subseteq Reasons
    BY DEF Reasons
  <1>3. "stdin_open" \in Reasons /\ "sandbox" \in Reasons /\ "cgroup" \in Reasons /\ "limits" \in Reasons /\ "start" \in Reasons
    BY <1>2
  <1>4. OpenStdin => \/ rpc' = "cgroup" /\ UNCHANGED result
                     \/ rpc' = "cleanup" /\ FailedResult(result')
    BY <1>1, <1>2, Zenon DEF OpenStdin
  <1>5. SetupCgroup => \/ rpc' = "limits" /\ cgroup' = UseCgroup /\ UNCHANGED result
                       \/ rpc' = "cleanup" /\ FailedResult(result') /\ UNCHANGED cgroup
    BY <1>1, <1>3, Zenon DEF SetupCgroup
  <1>6. ApplyLimits => \/ rpc' = "start" /\ UNCHANGED result
                       \/ rpc' = "cleanup" /\ FailedResult(result')
    BY <1>1, <1>3, Zenon DEF ApplyLimits
  <1>7. Start => \/ child' = "running" /\ rpc' \in {"join", "select"} /\ UNCHANGED result
                 \/ rpc' = "cleanup" /\ FailedResult(result') /\ UNCHANGED child
    BY <1>1, <1>3, Zenon DEF Start
  <1>8. Join => \/ rpc' = "select" /\ UNCHANGED <<result, child, code, cause>>
                \/ rpc' = "cleanup" /\ FailedResult(result') /\ KillChild("setup")
    BY <1>1, <1>3, Zenon DEF Join
  <1> QED BY <1>4, <1>5, <1>6, <1>7, <1>8, Zenon

(* What the runner's activities do leaves the request's own variables and  *)
(* the clock alone; only the runner's part of the invariant is at stake.   *)
LEMMA RunnerInv ==
  ASSUME PipeInv, RunnerSteps \/ RunnerExpires \/ WatchKill \/ ChildEnds, UNCHANGED requestVars
  PROVE  PipeInv'
  <1> USE RunnerConstants DEF PipeInv, RunnerType, RequestType, ChildPhase, ResultTrue,
      Deadlines, Waiting, StagesWell, StatusTrue, Responded, requestVars, Exits
  <1>1. CASE OpenStdin
    BY <1>1, EarlyReturns DEF OpenStdin, FailedResult
  <1>2. CASE SetupCgroup
    BY <1>2, EarlyReturns DEF SetupCgroup, FailedResult
  <1>3. CASE ApplyLimits
    BY <1>3, EarlyReturns DEF ApplyLimits, FailedResult
  <1>4. CASE Start
    BY <1>4, EarlyReturns DEF Start, FailedResult
  <1>5. CASE Join
    BY <1>5, EarlyReturns DEF Join, FailedResult, KillChild
  <1>6. CASE SelectDone
    BY <1>6 DEF SelectDone
  <1>7. CASE SelectTimeout
    BY <1>7 DEF SelectTimeout, KillChild
  <1>8. CASE Report
    BY <1>8, ReportResult DEF Report
  <1>9. CASE Cleanup
    <2>1. cgroup' = FALSE
      BY <1>9 DEF Cleanup
    <2> QED BY <1>9, <2>1 DEF Cleanup
  <1>10. CASE RunnerExpires
    BY <1>10 DEF RunnerExpires, Alive
  <1>11. CASE WatchKill
    BY <1>11 DEF WatchKill, KillChild
  <1>12. CASE ChildEnds
    BY <1>12 DEF ChildEnds
  <1> QED BY <1>1, <1>2, <1>3, <1>4, <1>5, <1>6, <1>7, <1>8, <1>9, <1>10, <1>11, <1>12 DEF RunnerSteps

(* Four commands that ended well are the sequence of four zeros.           *)
LEMMA FourZeros ==
  ASSUME NEW s \in Seq(Exits), Len(s) = 4, \A i \in 1 .. 4 : s[i] = 0
  PROVE  s = <<0, 0, 0, 0>>
  OBVIOUS

LEMMA RunnerUntouched ==
  ASSUME RunnerType, ChildPhase, ResultTrue, UNCHANGED <<now, runnerVars>>
  PROVE  RunnerType' /\ ChildPhase' /\ ResultTrue'
  BY DEF RunnerType, ChildPhase, ResultTrue, runnerVars

LEMMA TimeoutNat == Timeout \in Nat /\ Timeout > 0
  BY RunnerConstants

(* The status that blames a stage is none of the others.                   *)
LEMMA BlameStatus ==
  ASSUME NEW s \in 1 .. 4
  PROVE  statusForStage[Stages[s]] \in {"compile_error", "assemble_error", "link_error", "runtime_error"}
  <1>1. CASE s = 1  BY <1>1 DEF statusForStage, Stages
  <1>2. CASE s = 2  BY <1>2 DEF statusForStage, Stages
  <1>3. CASE s = 3  BY <1>3 DEF statusForStage, Stages
  <1>4. CASE s = 4  BY <1>4 DEF statusForStage, Stages
  <1> QED BY <1>1, <1>2, <1>3, <1>4

(* What Run makes of a stage's result, by outcome.                         *)
LEMMA JudgeOutcomes ==
  ASSUME RequestType, Judge
  PROVE  /\ ppc = "judge" /\ UNCHANGED <<now, runnerVars, mode, pctx, pdeadline, step, exits>>
         /\ \/ (pctx = "deadline" \/ step.timedOut) /\ Respond("timeout") /\ UNCHANGED stage
            \/ /\ pctx # "deadline" /\ ~step.timedOut /\ step.exit # 0 /\ UNCHANGED stage
               /\ Respond(statusForStage[Stages[stage]])
            \/ /\ pctx # "deadline" /\ ~step.timedOut /\ step.exit = 0 /\ stage = 4 /\ UNCHANGED stage
               /\ Respond("ok")
            \/ /\ pctx # "deadline" /\ ~step.timedOut /\ step.exit = 0 /\ stage # 4 /\ ppc' = "launch"
               /\ stage' = stage + 1 /\ UNCHANGED <<workdir, status>>
  <1>1. Len(Stages) = 4
    BY DEF Stages
  <1> QED BY <1>1, Zenon DEF Judge

(* Preparing the request, the timer of the request, a client that leaves,  *)
(* the clock and the kill at the deadline.                                 *)
LEMMA PrepareInv ==
  ASSUME PipeInv, MakeWorkdir \/ WriteFiles \/ CtxKill \/ Deadline \/ Cancel \/ Clock
  PROVE  PipeInv'
  <1> USE TimeoutNat DEF PipeInv, RunnerType, RequestType, ChildPhase, ResultTrue,
      Deadlines, Waiting, StagesWell, StatusTrue, Responded, runnerVars, requestVars, Exits
  <1>1. CASE MakeWorkdir
    <2>1. RunnerType'  BY <1>1 DEF MakeWorkdir, Respond
    <2>2. RequestType'  BY <1>1 DEF MakeWorkdir, Respond
    <2>3. ChildPhase' /\ ResultTrue'  BY <1>1 DEF MakeWorkdir, Respond
    <2>4. Deadlines'  BY <1>1 DEF MakeWorkdir, Respond
    <2>5. Waiting'  BY <1>1 DEF MakeWorkdir, Respond
    <2>6. StagesWell'  BY <1>1 DEF MakeWorkdir, Respond
    <2>7. StatusTrue'  BY <1>1 DEF MakeWorkdir, Respond
    <2> QED BY <2>1, <2>2, <2>3, <2>4, <2>5, <2>6, <2>7
  <1>2. CASE WriteFiles
    <2>1. CASE ppc' = "responded"
      BY <1>2, <2>1 DEF WriteFiles, Respond
    <2>2. CASE ppc' # "responded"
      <3>1. /\ ppc' = "launch" /\ pctx' = "live" /\ pdeadline' = now + Timeout
            /\ UNCHANGED <<workdir, status, stage, exits, step, mode, runnerVars, now>>
        BY <1>2, <2>2 DEF WriteFiles, Respond
      <3>2. ppc = "write" /\ exits = <<>> /\ Len(exits) = 0 /\ stage = 1 /\ rpc = "off" /\ workdir
        BY <1>2 DEF WriteFiles
      <3>3. StagesWell'  BY <3>1, <3>2
      <3>4. RunnerType'  BY <3>1, <3>2, <3>3
      <3>5. RequestType'  BY <3>1, <3>2, <3>3
      <3>6. ChildPhase' /\ ResultTrue'  BY <3>1, <3>2, <3>3
      <3>7. Deadlines'  BY <3>1, <3>2, <3>3
      <3>8. Waiting'  BY <3>1, <3>2, <3>3
      <3>9. StagesWell'  BY <3>1, <3>2, <3>3
      <3>10. StatusTrue'  BY <3>1, <3>2, <3>3
      <3> QED BY <3>4, <3>5, <3>6, <3>7, <3>8, <3>9, <3>10
    <2> QED BY <2>1, <2>2
  <1>3. CASE CtxKill
    BY <1>3 DEF CtxKill, KillChild
  <1>4. CASE Deadline
    BY <1>4 DEF Deadline, Pending
  <1>5. CASE Cancel
    BY <1>5 DEF Cancel, Pending
  <1>6. CASE Clock
    BY <1>6 DEF Clock, Tick
  <1> QED BY <1>1, <1>2, <1>3, <1>4, <1>5, <1>6

(* Starting a stage's process: a runner, the command itself, or neither.   *)
LEMMA LaunchInv ==
  ASSUME PipeInv, Launch
  PROVE  PipeInv'
  <1> USE TimeoutNat DEF PipeInv, RunnerType, RequestType, ChildPhase, ResultTrue,
      Deadlines, Waiting, StagesWell, StatusTrue, Responded, runnerVars, requestVars, Exits
  <1>1. CASE pctx = "live" /\ mode = "runner" /\ Begin /\ ppc' = "wait" /\ UNCHANGED step
    <2>1. result' \in Results /\ result'.timedOut = FALSE
      BY <1>1, NoResultType DEF Begin
    <2>2. RunnerType'
      <3>1. now' \in Nat /\ rdeadline' \in Nat /\ code' \in {-1, 0, 1}
        BY <1>1 DEF Launch, Begin
      <3>2. rpc' = "open" /\ expired' = FALSE /\ child' = "none" /\ cgroup' = FALSE /\ timedOut' = FALSE
        BY <1>1 DEF Begin
      <3> QED BY <2>1, <3>1, <3>2
    <2>3. RequestType'  BY <1>1, <2>1 DEF Launch, Begin
    <2>4. ChildPhase' /\ ResultTrue'  BY <1>1, <2>1 DEF Launch, Begin
    <2>5. Deadlines'  BY <1>1, <2>1 DEF Launch, Begin
    <2>6. Waiting'  BY <1>1, <2>1 DEF Launch, Begin
    <2>7. StagesWell'  BY <1>1, <2>1 DEF Launch, Begin
    <2>8. StatusTrue'  BY <1>1, <2>1 DEF Launch, Begin
    <2> QED BY <2>2, <2>3, <2>4, <2>5, <2>6, <2>7, <2>8
  <1>2. CASE ppc' = "judge" /\ step' = StepOf(-1, CtxTimeout) /\ UNCHANGED runnerVars
    <2>1. CtxTimeout \in BOOLEAN /\ (CtxTimeout => now >= pdeadline)
      BY DEF CtxTimeout
    <2>2. step' \in [exit : Exits, timedOut : BOOLEAN] /\ step'.exit = -1 /\ step'.timedOut = CtxTimeout
      BY <1>2, <2>1, StepType
    <2>3. StagesWell'  BY <1>2, <2>1, <2>2 DEF Launch
    <2> QED BY <1>2, <2>2, <2>3 DEF Launch
  <1>3. CASE /\ pctx = "live" /\ mode = "local" /\ ppc' = "wait" /\ child' = "running" /\ code' = 0
             /\ UNCHANGED <<step, rpc, rdeadline, expired, cgroup, timedOut, result>>
    BY <1>3 DEF Launch
  <1> QED BY <1>1, <1>2, <1>3 DEF Launch

(* The step of a stage that reports success is that of a command that      *)
(* ended with status 0; one that reports a timeout comes after the limit.  *)
LEMMA CollectStep ==
  ASSUME PipeInv, Collect
  PROVE  /\ step' \in [exit : Exits, timedOut : BOOLEAN]
         /\ step'.exit = 0 => code = 0
         /\ step'.timedOut => now >= pdeadline
  <1> USE DEF PipeInv, RunnerType, RequestType, ResultTrue, Deadlines, Waiting
  <1>1. CASE mode = "runner" /\ rpc = "killed" /\ step' = StepOf(-1, CtxTimeout)
    <2>1. CtxTimeout \in BOOLEAN /\ (CtxTimeout => now >= pdeadline)
      BY DEF CtxTimeout
    <2> QED BY <1>1, <2>1, StepType DEF Exits
  <1>2. CASE /\ mode = "runner" /\ rpc = "exited"
             /\ step' = StepOf(IF result.timedOut THEN -1 ELSE result.exit, result.timedOut)
    <2>1. result.exit \in Exits /\ result.timedOut \in BOOLEAN
      BY DEF Results
    <2>2. CASE result.timedOut
      <3>1. step' = StepOf(-1, TRUE)
        BY <1>2, <2>1, <2>2
      <3>2. now >= pdeadline
        BY <1>2, <2>2
      <3>3. step' \in [exit : Exits, timedOut : BOOLEAN] /\ step'.exit = -1
        <4>1. -1 \in Exits
          BY DEF Exits
        <4> QED BY <3>1, <4>1, StepType, Zenon
      <3> QED BY <3>2, <3>3
    <2>3. CASE ~result.timedOut
      <3>1. step' = StepOf(result.exit, FALSE)
        BY <1>2, <2>1, <2>3
      <3>2. result.exit = 0 => code = 0
        BY <1>2
      <3> QED BY <2>1, <3>1, <3>2, StepType DEF Exits
    <2> QED BY <2>2, <2>3
  <1>3. CASE mode = "local" /\ child = "ended" /\ step' = StepOf(code, FALSE)
    BY <1>3, StepType
  <1> QED BY <1>1, <1>2, <1>3 DEF Collect

LEMMA CollectInv ==
  ASSUME PipeInv, Collect
  PROVE  PipeInv'
  <1> USE DEF PipeInv, RunnerType, RequestType, ChildPhase, ResultTrue,
      Deadlines, Waiting, StatusTrue, Responded, runnerVars, requestVars
  <1>1. exits \in Seq(Exits) /\ code \in Exits /\ stage \in 1 .. 4 /\ exits' = Append(exits, code)
    BY DEF Collect
  <1>2. /\ exits' \in Seq(Exits) /\ Len(exits') = Len(exits) + 1 /\ exits'[Len(exits) + 1] = code
        /\ \A i \in 1 .. Len(exits) : exits'[i] = exits[i]
    BY <1>1
  <1>3. Len(exits) = stage - 1 /\ \A i \in 1 .. stage - 1 : exits[i] = 0
    BY DEF Collect, StagesWell
  <1>4. Len(exits') = stage /\ exits'[stage] = code /\ \A i \in 1 .. stage - 1 : exits'[i] = 0
    BY <1>1, <1>2, <1>3
  <1>5. StagesWell'  BY <1>4, CollectStep DEF Collect, StagesWell
  <1>6. RunnerType'  BY <1>2, <1>5, CollectStep DEF Collect
  <1>7. RequestType'  BY <1>2, <1>5, CollectStep DEF Collect
  <1>8. ChildPhase' /\ ResultTrue'  BY <1>2, <1>5, CollectStep DEF Collect
  <1>9. Deadlines'  BY <1>2, <1>5, CollectStep DEF Collect
  <1>10. Waiting'  BY <1>2, <1>5, CollectStep DEF Collect
  <1>11. StagesWell'  BY <1>2, <1>5, CollectStep DEF Collect
  <1>12. StatusTrue'  BY <1>2, <1>5, CollectStep DEF Collect
  <1> QED BY <1>6, <1>7, <1>8, <1>9, <1>10, <1>11, <1>12

LEMMA JudgeInv ==
  ASSUME PipeInv, Judge
  PROVE  PipeInv'
  <1>0. RunnerType' /\ ChildPhase' /\ ResultTrue'
    BY RunnerUntouched DEF Judge, PipeInv
  <1> USE JudgeOutcomes DEF PipeInv, RunnerType, RequestType, ChildPhase, ResultTrue,
      Deadlines, Waiting, StagesWell, StatusTrue, Responded, runnerVars, Exits, Respond
  <1>1. CASE (pctx = "deadline" \/ step.timedOut) /\ Respond("timeout") /\ UNCHANGED stage
    <2>2. RequestType'  BY <1>1
    <2>4. Deadlines'  BY <1>1
    <2>5. Waiting'  BY <1>1
    <2>6. StagesWell'  BY <1>1
    <2>7. StatusTrue'  BY <1>1
    <2> QED BY <1>0, <2>2, <2>4, <2>5, <2>6, <2>7
  <1>2. CASE pctx # "deadline" /\ UNCHANGED stage /\ Respond(statusForStage[Stages[stage]])
    <2>1. status' \notin {"none", "ok", "timeout"}
      BY <1>2, BlameStatus
    <2>3. RequestType'  BY <1>2, <2>1
    <2>5. Deadlines'  BY <1>2, <2>1
    <2>6. Waiting'  BY <1>2, <2>1
    <2>7. StagesWell'  BY <1>2, <2>1
    <2>8. StatusTrue'  BY <1>2, <2>1
    <2> QED BY <1>0, <2>3, <2>5, <2>6, <2>7, <2>8
  <1>3. CASE pctx # "deadline" /\ step.exit = 0 /\ stage = 4 /\ UNCHANGED stage /\ Respond("ok")
    <2>1. exits = <<0, 0, 0, 0>>
      <3>1. exits \in Seq(Exits) /\ Len(exits) = 4
        BY <1>3
      <3>2. (\A i \in 1 .. 3 : exits[i] = 0) /\ exits[4] = 0
        <4>1. stage - 1 = 3
          BY <1>3
        <4> QED BY <1>3, <4>1
      <3>3. \A i \in 1 .. 4 : i \in 1 .. 3 \/ i = 4
        OBVIOUS
      <3> QED BY <3>1, <3>2, <3>3, FourZeros
    <2>3. RequestType'  BY <1>3, <2>1
    <2>5. Deadlines'  BY <1>3, <2>1
    <2>6. Waiting'  BY <1>3, <2>1
    <2>7. StagesWell'  BY <1>3, <2>1
    <2>8. StatusTrue'  BY <1>3, <2>1
    <2> QED BY <1>0, <2>3, <2>5, <2>6, <2>7, <2>8
  <1>4. CASE step.exit = 0 /\ stage # 4 /\ ppc' = "launch" /\ stage' = stage + 1 /\ UNCHANGED <<workdir, status>>
    BY <1>4
  <1> QED BY <1>1, <1>2, <1>3, <1>4

(* Every step preserves the invariant.                                     *)
LEMMA NextPipe == PipeInv /\ [PipelineNext]_allVars => PipeInv'
  <1> SUFFICES ASSUME PipeInv, [PipelineNext]_allVars PROVE PipeInv'
    OBVIOUS
  <1>1. CASE UNCHANGED allVars
    BY <1>1 DEF allVars, runnerVars, requestVars, PipeInv, RunnerType, RequestType, ChildPhase,
       ResultTrue, Deadlines, Waiting, StagesWell, StatusTrue, Responded
  <1> QED BY <1>1, RunnerInv, PrepareInv, LaunchInv, CollectInv, JudgeInv
          DEF PipelineNext, Pipelined, Running

(* The invariant holds of every behaviour of the pipeline, for every time  *)
(* limit, with and without a cgroup, in both modes.                        *)
THEOREM PipelineInvariant == PipelineSpec => []PipeInv
  BY InitPipe, NextPipe, PTL DEF PipelineSpec

(* The status of the response is true to what happened to the commands,    *)
(* and once the deadline of the request has fired no stage is blamed.      *)
THEOREM StatusCorrect == PipelineSpec => []StatusTrue
  <1>1. PipeInv => StatusTrue
    BY DEF PipeInv
  <1> QED BY <1>1, PipelineInvariant, PTL

(* A request run locally leaves neither a command nor its directory.       *)
THEOREM NothingIsLeft == PipelineSpec => []NothingLeft
  <1>1. PipeInv => NothingLeft
    BY DEF PipeInv, Waiting, RequestType, NothingLeft, Responded
  <1> QED BY <1>1, PipelineInvariant, PTL

(* Every path through run that ends leaves neither a command nor a cgroup, *)
(* unless the runner itself was killed.                                    *)
THEOREM RunnerCleansUp == PipelineSpec => []RunnerCleans
  <1>1. PipeInv => RunnerCleans
    BY DEF PipeInv, ChildPhase, RunnerCleans
  <1> QED BY <1>1, PipelineInvariant, PTL

(* What the runner reports of a command is what became of it.              *)
THEOREM ReportCorrect == PipelineSpec => []ReportTrue
  <1>1. PipeInv => ReportTrue
    BY DEF PipeInv, ResultTrue, ReportTrue
  <1> QED BY <1>1, PipelineInvariant, PTL

-----------------------------------------------------------------------------
(* The refinement of Request, step by step: a command that ends is a       *)
(* RunStage, the clock passing the deadline an Overrun, the response an    *)
(* Answer; everything else changes nothing a client can see.               *)
Late == pctx # "none" /\ now >= pdeadline

LEMMA LateStays ==
  ASSUME RunnerType, RequestType, UNCHANGED <<now, pdeadline>>, (pctx = "none") <=> (pctx' = "none")
  PROVE  Late' = Late
  BY DEF Late

LEMMA Stutters ==
  ASSUME UNCHANGED <<exits, workdir, status>>, Late' = Late
  PROVE  UNCHANGED Promise!requestState
  BY DEF Promise!requestState, Late

Blame == [i \in DOMAIN Stages |-> statusForStage[Stages[i]]]

LEMMA BlameStages ==
  DOMAIN Blame = 1 .. 4 /\ Len(Blame) = 4 /\ \A s \in 1 .. 4 : Blame[s] = statusForStage[Stages[s]]
  <1>1. DOMAIN Stages = 1 .. 4
    BY DEF Stages
  <1> QED BY <1>1 DEF Blame

LEMMA PrepareStep ==
  ASSUME PipeInv, MakeWorkdir
  PROVE  Promise!RequestNext
  <1>1. Late' = Late
    BY LateStays DEF PipeInv, MakeWorkdir
  <1>2. status = "none" /\ exits = <<>>
    BY DEF PipeInv, Waiting, StagesWell, MakeWorkdir
  <1>3. CASE ppc' = "write"
    BY <1>1, <1>2, <1>3 DEF MakeWorkdir, Respond, Promise!RequestNext, Promise!Prepare, Late
  <1>4. CASE ppc' = "responded"
    BY <1>1, <1>2, <1>4 DEF MakeWorkdir, Respond, Promise!RequestNext, Promise!Answer, Promise!Allowed, Late
  <1> QED BY <1>3, <1>4 DEF MakeWorkdir, Respond

LEMMA WriteStep ==
  ASSUME PipeInv, WriteFiles
  PROVE  [Promise!RequestNext]_(Promise!requestState)
  <1>1. ~Late' /\ ~Late
    BY TimeoutNat DEF Late, PipeInv, RunnerType, Deadlines, WriteFiles
  <1>2. status = "none" /\ exits = <<>>
    BY DEF PipeInv, Waiting, StagesWell, WriteFiles
  <1>3. CASE ppc' = "launch"
    <2>1. Late' = Late
      BY <1>1 DEF Late
    <2> QED BY <1>3, <2>1, Stutters DEF WriteFiles, Respond
  <1>4. CASE ppc' = "responded"
    BY <1>1, <1>2, <1>4 DEF WriteFiles, Respond, Promise!RequestNext, Promise!Answer, Promise!Allowed, Late
  <1> QED BY <1>3, <1>4 DEF WriteFiles, Respond

LEMMA CollectRefines ==
  ASSUME PipeInv, Collect
  PROVE  Promise!RunStage
  <1>1. Late' = Late
    BY LateStays DEF PipeInv, Collect
  <1>2. status = "none" /\ workdir /\ code \in {-1, 0, 1}
    BY DEF PipeInv, Waiting, RunnerType, RequestType, Collect, Exits
  <1>3. Len(exits) < Len(Blame) /\ \A i \in DOMAIN exits : exits[i] = 0
    <2>1. Len(exits) = stage - 1 /\ stage \in 1 .. 4 /\ DOMAIN exits = 1 .. Len(exits)
      BY DEF PipeInv, StagesWell, RequestType, Collect
    <2>2. \A i \in 1 .. stage - 1 : exits[i] = 0
      BY DEF PipeInv, StagesWell, Collect
    <2> QED BY <2>1, <2>2, BlameStages
  <1>4. exits' = Append(exits, code) /\ UNCHANGED <<workdir, status>>
    BY DEF Collect
  <1> QED BY <1>1, <1>2, <1>3, <1>4 DEF Promise!RunStage, Promise!AllWell, Late, Blame

LEMMA JudgeRefines ==
  ASSUME PipeInv, Judge
  PROVE  [Promise!RequestNext]_(Promise!requestState)
  <1>1. Late' = Late
    BY LateStays, JudgeOutcomes DEF PipeInv
  <1>2. status = "none" /\ workdir /\ stage \in 1 .. 4 /\ exits \in Seq(Exits) /\ ppc = "judge"
    BY JudgeOutcomes DEF PipeInv, Waiting, RequestType
  <1>3. UNCHANGED exits
    BY JudgeOutcomes DEF PipeInv
  <1>4. CASE (pctx = "deadline" \/ step.timedOut) /\ Respond("timeout")
    <2>1. Late
      BY <1>2, <1>4 DEF PipeInv, Deadlines, StagesWell, Late
    <2>2. Promise!Allowed("timeout")
      BY <2>1 DEF Promise!Allowed, Late
    <2> QED BY <1>1, <1>2, <1>3, <1>4, <2>2 DEF Respond, Promise!RequestNext, Promise!Answer, Late
  <1>5. CASE Respond(statusForStage[Stages[stage]])
    <2>1. Promise!Blamable(stage)
      <3>1. Len(exits) \in {stage - 1, stage} /\ \A i \in 1 .. stage - 1 : exits[i] = 0
        BY <1>2 DEF PipeInv, StagesWell
      <3>2. DOMAIN SubSeq(exits, 1, stage - 1) = 1 .. stage - 1
        BY <1>2, <3>1
      <3>3. \A i \in 1 .. stage - 1 : SubSeq(exits, 1, stage - 1)[i] = exits[i]
        BY <1>2, <3>1
      <3> QED BY <1>2, <3>1, <3>2, <3>3 DEF Promise!Blamable, Promise!AllWell
    <2>2. status' = Blame[stage] /\ stage \in DOMAIN Blame
      BY <1>2, <1>5, BlameStages DEF Respond
    <2>3. Promise!Allowed(Blame[stage])
      BY <2>1, <2>2 DEF Promise!Allowed, Blame
    <2> QED BY <1>1, <1>2, <1>3, <1>5, <2>2, <2>3 DEF Respond, Promise!RequestNext, Promise!Answer, Late, Blame
  <1>6. CASE step.exit = 0 /\ stage = 4 /\ Respond("ok")
    <2>1. Len(exits) = 4 /\ exits[4] = 0 /\ \A i \in 1 .. 3 : exits[i] = 0
      <3>1. stage - 1 = 3 /\ stage = 4
        BY <1>6
      <3> QED BY <1>2, <1>6, <3>1 DEF PipeInv, StagesWell
    <2>2. \A i \in DOMAIN exits : exits[i] = 0
      <3>1. DOMAIN exits = 1 .. 4 /\ \A i \in 1 .. 4 : i \in 1 .. 3 \/ i = 4
        BY <1>2, <2>1
      <3> QED BY <2>1, <3>1
    <2>3. Promise!Allowed("ok")
      BY <2>1, <2>2, BlameStages DEF Promise!Allowed, Promise!AllWell, Blame
    <2> QED BY <1>1, <1>2, <1>3, <1>6, <2>3 DEF Respond, Promise!RequestNext, Promise!Answer, Late
  <1>7. CASE UNCHANGED <<workdir, status>>
    BY <1>1, <1>3, <1>7, Stutters
  <1> QED BY <1>4, <1>5, <1>6, <1>7, JudgeOutcomes DEF PipeInv

LEMMA ClockRefines ==
  ASSUME PipeInv, Clock
  PROVE  [Promise!RequestNext]_(Promise!requestState)
  <1>1. UNCHANGED <<exits, workdir, status>> /\ (Late => Late')
    BY DEF Clock, Tick, requestVars, Late, PipeInv, RunnerType, RequestType
  <1>2. CASE ~Late /\ Late'
    BY <1>1, <1>2 DEF Promise!RequestNext, Promise!Overrun, Late
  <1>3. CASE Late' = Late
    BY <1>1, <1>3, Stutters
  <1> QED BY <1>1, <1>2, <1>3 DEF Late

LEMMA OthersStutter ==
  ASSUME PipeInv,
         \/ Launch \/ CtxKill \/ Deadline \/ Cancel \/ Running
         \/ (ChildEnds /\ UNCHANGED requestVars) \/ UNCHANGED allVars
  PROVE  UNCHANGED Promise!requestState
  <1>1. UNCHANGED <<exits, workdir, status>>
    BY DEF Launch, CtxKill, Deadline, Cancel, Running, allVars, requestVars
  <1>2. UNCHANGED <<now, pdeadline>> /\ ((pctx = "none") <=> (pctx' = "none"))
    <2>1. RunnerSteps \/ RunnerExpires \/ WatchKill \/ ChildEnds => now' = now
      BY DEF RunnerSteps, OpenStdin, SetupCgroup, ApplyLimits, Start, Join, SelectDone,
         SelectTimeout, Report, Cleanup, RunnerExpires, WatchKill, ChildEnds
    <2> QED BY <2>1 DEF Launch, CtxKill, Deadline, Cancel, Pending, Running, allVars, requestVars
  <1> QED BY <1>1, <1>2, LateStays, Stutters DEF PipeInv

(* The safety part of ImplementsRequest: an initial state of the pipeline  *)
(* is one of Request, and every step of it one step of Request or none.    *)
THEOREM RequestSafety ==
  PipelineSpec => Promise!RequestInit /\ [][Promise!RequestNext]_(Promise!requestState)
  <1>1. PipelineInit => Promise!RequestInit
    BY DEF PipelineInit, Promise!RequestInit
  <1>2. PipeInv /\ [PipelineNext]_allVars => [Promise!RequestNext]_(Promise!requestState)
    BY PrepareStep, WriteStep, CollectRefines, JudgeRefines, ClockRefines, OthersStutter
       DEF PipelineNext, Pipelined, Promise!RequestNext
  <1> QED BY <1>1, <1>2, PipelineInvariant, PTL DEF PipelineSpec
=============================================================================
