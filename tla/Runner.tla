------------------------------- MODULE Runner -------------------------------
(***************************************************************************)
(* bplay-runner (cmd/bplay-runner/main.go): one process that runs one      *)
(* command under limits and reports what became of it.  Three activities   *)
(* share the command: the main goroutine (rpc), the goroutine of os/exec   *)
(* that kills the command when the context expires, and the command        *)
(* itself.  Commands are the toolchain's programs and a compiled program;  *)
(* none of them creates processes.                                         *)
(***************************************************************************)
EXTENDS Integers

CONSTANTS
  Timeout,    \* the wall-clock limit, in ticks
  MaxTime,    \* bound: the clock stops here
  UseCgroup   \* whether the runner was given -cgroup-root

ASSUME RunnerConstants ==
  Timeout \in Nat \ {0} /\ MaxTime \in Nat /\ MaxTime >= Timeout /\ UseCgroup \in BOOLEAN

VARIABLES
  now,        \* the wall clock
  rpc,        \* what the runner does next; "killed" once it got SIGKILL
  rdeadline,  \* when its context expires
  expired,    \* whether the context is done
  child,      \* the command: "none", "running" or "ended"
  code,       \* what Wait says of it: its exit status, -1 if it was killed
  cause,      \* what ended it: "itself", "memory" (which memory.events tells),
              \* "setup" (it could not be confined) or "deadline"
  cgroup,     \* whether the cgroup directory exists
  timedOut,   \* run's variable of that name
  result      \* the runnerResult, NoResult before there is one

runnerVars == <<rpc, rdeadline, expired, child, code, cause, cgroup, timedOut, result>>

NoResult == [exit |-> 0, timedOut |-> FALSE, killed |-> FALSE, reason |-> "none"]
Failure(why) == [exit |-> -1, timedOut |-> FALSE, killed |-> TRUE, reason |-> why]

Alive == rpc \notin {"off", "exited", "killed"}

(* An early return of run: the deferred cleanup of the cgroup comes next.  *)
Fail(why) ==
  /\ result' = Failure(why) /\ rpc' = "cleanup"

Begin ==
  /\ rpc' = "open" /\ rdeadline' = now + Timeout /\ expired' = FALSE
  /\ child' = "none" /\ code' = 0 /\ cause' = "none" /\ cgroup' = FALSE
  /\ timedOut' = FALSE /\ result' = NoResult

(* Open the stdin file; in sandbox mode, also find the sandbox's command.   *)
OpenStdin ==
  /\ rpc = "open"
  /\ \/ rpc' = "cgroup" /\ UNCHANGED result
     \/ \E why \in {"stdin_open", "sandbox"} : Fail(why)
  /\ UNCHANGED <<now, rdeadline, expired, child, code, cause, cgroup, timedOut>>

SetupCgroup ==
  /\ rpc = "cgroup"
  /\ \/ rpc' = "limits" /\ cgroup' = UseCgroup /\ UNCHANGED result
     \/ UseCgroup /\ Fail("cgroup") /\ UNCHANGED cgroup
  /\ UNCHANGED <<now, rdeadline, expired, child, code, cause, timedOut>>

ApplyLimits ==
  /\ rpc = "limits"
  /\ \/ rpc' = "start" /\ UNCHANGED result
     \/ Fail("limits")
  /\ UNCHANGED <<now, rdeadline, expired, child, code, cause, cgroup, timedOut>>

(* cmd.Start refuses when the context is already done.                     *)
Start ==
  /\ rpc = "start"
  /\ \/ /\ ~expired
        /\ child' = "running" /\ rpc' = IF UseCgroup THEN "join" ELSE "select"
        /\ UNCHANGED result
     \/ Fail("start") /\ UNCHANGED child
  /\ UNCHANGED <<now, rdeadline, expired, code, cause, cgroup, timedOut>>

(* SIGKILL to the command and its process group.                           *)
KillChild(why) ==
  /\ child' = "ended"
  /\ code' = IF child = "running" THEN -1 ELSE code
  /\ cause' = IF child = "running" THEN why ELSE cause

(* Mutant of Join: the command is left running when it cannot be confined. *)
JoinLeaves ==
  /\ rpc = "join"
  /\ \/ rpc' = "select" /\ UNCHANGED <<result, child, code, cause>>
     \/ Fail("cgroup") /\ UNCHANGED <<child, code, cause>>
  /\ UNCHANGED <<now, rdeadline, expired, cgroup, timedOut>>

(* addProcess; on failure the command is killed and waited for.            *)
Join ==
  /\ rpc = "join"
  /\ \/ rpc' = "select" /\ UNCHANGED <<result, child, code, cause>>
     \/ Fail("cgroup") /\ KillChild("setup")
  /\ UNCHANGED <<now, rdeadline, expired, cgroup, timedOut>>

(* select: the command's end and the context's end may both be ready.      *)
SelectDone ==
  /\ rpc = "select" /\ child = "ended"
  /\ rpc' = "report"
  /\ UNCHANGED <<now, rdeadline, expired, child, code, cause, cgroup, timedOut, result>>

SelectTimeout ==
  /\ rpc = "select" /\ expired
  /\ timedOut' = TRUE /\ KillChild("deadline") /\ rpc' = "report"
  /\ UNCHANGED <<now, rdeadline, expired, cgroup, result>>

(* Mutant of exitCode: a command killed by a signal counts as a success.   *)
SignalIsSuccess(c) == IF c > 0 THEN c ELSE 0

exitCode(c) == c

(* killReason says oom (or pids); the last test of run overwrites it.      *)
Reason ==
  IF code = -1 /\ ~timedOut THEN "exec"
  ELSE IF UseCgroup /\ cause = "memory" /\ code # 0 THEN "oom"
  ELSE IF timedOut THEN "timeout" ELSE "none"

Report ==
  /\ rpc = "report" /\ rpc' = "cleanup"
  /\ result' = [exit |-> exitCode(code), timedOut |-> timedOut,
                killed |-> Reason # "none", reason |-> Reason]
  /\ UNCHANGED <<now, rdeadline, expired, child, code, cause, cgroup, timedOut>>

(* The deferred cleanup: the directory goes once no process is in it.      *)
Cleanup ==
  /\ rpc = "cleanup" /\ rpc' = "exited"
  /\ cgroup' = (cgroup /\ child = "running")
  /\ UNCHANGED <<now, rdeadline, expired, child, code, cause, timedOut, result>>

RunnerSteps ==
  \/ OpenStdin \/ SetupCgroup \/ ApplyLimits \/ Start \/ Join
  \/ SelectDone \/ SelectTimeout \/ Report \/ Cleanup

(* The context's timer.                                                    *)
RunnerExpires ==
  /\ Alive /\ ~expired /\ now >= rdeadline /\ expired' = TRUE
  /\ UNCHANGED <<now, rpc, rdeadline, child, code, cause, cgroup, timedOut, result>>

(* The goroutine of os/exec that kills the command when the context is     *)
(* done.  If the command has just ended well and was not waited for, Wait  *)
(* returns the context's error instead of success.                         *)
WatchKill ==
  /\ rpc \in {"join", "select"} /\ expired
  /\ \/ child = "running" /\ KillChild("deadline")
     \/ child = "ended" /\ code = 0 /\ code' = -1 /\ UNCHANGED <<child, cause>>
  /\ UNCHANGED <<now, rpc, rdeadline, expired, cgroup, timedOut, result>>

(* The command ends by itself, by a limit on itself, or by the cgroup's    *)
(* memory limit once it is in the cgroup.                                  *)
ChildEnds ==
  /\ child = "running" /\ child' = "ended"
  /\ \/ code' \in {0, 1, -1} /\ cause' = "itself"
     \/ cgroup /\ rpc # "join" /\ code' = -1 /\ cause' = "memory"
  /\ UNCHANGED <<now, rpc, rdeadline, expired, cgroup, timedOut, result>>

Tick ==
  /\ now < MaxTime /\ now' = now + 1 /\ UNCHANGED runnerVars

RunnerInit ==
  /\ now = 0 /\ rpc = "open" /\ rdeadline = Timeout /\ expired = FALSE
  /\ child = "none" /\ code = 0 /\ cause = "none" /\ cgroup = FALSE
  /\ timedOut = FALSE /\ result = NoResult

RunnerNext == RunnerSteps \/ RunnerExpires \/ WatchKill \/ ChildEnds \/ Tick

(* The clock runs, the runner's goroutines are scheduled and its timer     *)
(* fires; the command itself may run for ever.                             *)
RunnerSpec ==
  /\ RunnerInit /\ [][RunnerNext]_<<now, runnerVars>>
  /\ WF_<<now, runnerVars>>(Tick) /\ WF_<<now, runnerVars>>(RunnerSteps)
  /\ WF_<<now, runnerVars>>(RunnerExpires)

-----------------------------------------------------------------------------
(* A runner that was not killed itself leaves nothing behind: when it      *)
(* exits the command is not running and its cgroup is gone, whichever of   *)
(* the early returns of run it took.                                       *)
RunnerCleans == rpc = "exited" => child # "running" /\ ~cgroup

(* The report is true to what happened: success means the command ended    *)
(* with status 0, a timeout that the limit had passed.                     *)
ReportTrue ==
  rpc = "exited" =>
    /\ result.exit = 0 => child = "ended" /\ code = 0
    /\ result.timedOut => now >= rdeadline
    /\ child = "ended" /\ code = -1 => result.killed
=============================================================================
