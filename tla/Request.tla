------------------------------- MODULE Request -------------------------------
(***************************************************************************)
(* What the playground promises a client about one request, whatever the   *)
(* pipeline is made of: commands run one after the other, each only when   *)
(* all before it succeeded; there is one answer, it blames the command     *)
(* that failed first or could not be started, and it comes.                *)
(***************************************************************************)
EXTENDS Integers, Sequences

CONSTANT Blame     \* the status that blames a stage, by stage

VARIABLES
  results,   \* how the commands that were run have ended
  late,      \* whether the time allowed has passed
  dir,       \* whether files of the request exist
  answer     \* "none", or the status sent to the client

requestState == <<results, late, dir, answer>>

AllWell(rs) == \A i \in DOMAIN rs : rs[i] = 0

RequestInit == results = <<>> /\ ~late /\ ~dir /\ answer = "none"

Prepare ==
  /\ answer = "none" /\ results = <<>> /\ dir' = TRUE
  /\ UNCHANGED <<results, late, answer>>

RunStage ==
  /\ answer = "none" /\ dir
  /\ AllWell(results) /\ Len(results) < Len(Blame)
  /\ \E code \in {-1, 0, 1} : results' = Append(results, code)
  /\ UNCHANGED <<late, dir, answer>>

Overrun ==
  /\ ~late /\ late' = TRUE
  /\ UNCHANGED <<results, dir, answer>>

(* A stage is to blame that ended badly, was stopped, or did not start.    *)
Blamable(s) ==
  /\ Len(results) \in {s - 1, s} /\ dir
  /\ AllWell(SubSeq(results, 1, s - 1))

Allowed(a) ==
  \/ a = "ok" /\ AllWell(results) /\ Len(results) = Len(Blame)
  \/ a = "timeout" /\ late
  \/ a = "internal_error" /\ results = <<>>
  \/ \E s \in DOMAIN Blame : a = Blame[s] /\ Blamable(s)

Answer ==
  /\ answer = "none"
  /\ \E a \in {"ok", "timeout", "internal_error"} \cup {Blame[s] : s \in DOMAIN Blame} :
       Allowed(a) /\ answer' = a
  /\ dir' = FALSE
  /\ UNCHANGED <<results, late>>

RequestNext == Prepare \/ RunStage \/ Overrun \/ Answer

(* An answer is never put off for ever.                                    *)
RequestSpec == RequestInit /\ [][RequestNext]_requestState /\ WF_requestState(Answer)
=============================================================================
