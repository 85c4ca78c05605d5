----------------------------- MODULE RunStates -----------------------------
(***************************************************************************)
(* The run-state graph of the research orchestrator: the states a research *)
(* run can be in and the moves transition_run accepts.  Every other module *)
(* of the project takes its states from here.                              *)
(***************************************************************************)

WorkStates ==
    {"CREATED", "PREPARING", "HONEYDEW_DRAFTING_PROTOCOL",
     "BEAKER_DRAFTING_CONTRACT", "HONEYDEW_REVIEWING_CONTRACT",
     "BEAKER_PLANNING", "BEAKER_IMPLEMENTING", "BEAKER_FINALIZING",
     "HONEYDEW_REVIEWING", "BEAKER_REVISING", "JOB_QUEUED", "JOB_RUNNING",
     "BEAKER_ANALYZING", "HONEYDEW_VERIFYING", "HONEYDEW_WRITING_REPORT"}

\* The run waits on a human; its active-runtime clock is stopped.
HUMAN_WAIT_STATES ==
    {"AWAITING_PROTOCOL_APPROVAL", "AWAITING_CONTRACT_PROMOTION",
     "AWAITING_EXECUTION_APPROVAL", "AWAITING_FINAL_ACCEPTANCE"}

TERMINAL_STATES == {"COMPLETE", "FAILED", "CANCELLED", "TIMED_OUT"}

RunState == WorkStates \cup HUMAN_WAIT_STATES \cup {"PAUSED"} \cup TERMINAL_STATES

\* Every phase past PREPARING can be paused, cancelled, failed or timed out.
Interruptions == {"PAUSED", "CANCELLED", "FAILED", "TIMED_OUT"}

\* The phases a run may move on to, interruptions aside.
Successors(s) ==
    CASE s = "CREATED" -> {"PREPARING"}
      [] s = "PREPARING" ->
           {"HONEYDEW_DRAFTING_PROTOCOL", "AWAITING_PROTOCOL_APPROVAL"}
      [] s = "HONEYDEW_DRAFTING_PROTOCOL" -> {"AWAITING_PROTOCOL_APPROVAL"}
      [] s = "AWAITING_PROTOCOL_APPROVAL" ->
           {"HONEYDEW_DRAFTING_PROTOCOL", "BEAKER_DRAFTING_CONTRACT",
            "BEAKER_PLANNING"}
      [] s = "BEAKER_DRAFTING_CONTRACT" ->
           {"HONEYDEW_REVIEWING_CONTRACT", "BEAKER_PLANNING"}
      [] s = "HONEYDEW_REVIEWING_CONTRACT" ->
           {"BEAKER_DRAFTING_CONTRACT", "AWAITING_CONTRACT_PROMOTION"}
      [] s = "AWAITING_CONTRACT_PROMOTION" ->
           {"BEAKER_DRAFTING_CONTRACT", "BEAKER_PLANNING"}
      [] s = "BEAKER_PLANNING" ->
           {"BEAKER_DRAFTING_CONTRACT", "BEAKER_IMPLEMENTING"}
      [] s = "BEAKER_IMPLEMENTING" ->
           {"BEAKER_PLANNING", "BEAKER_DRAFTING_CONTRACT", "BEAKER_FINALIZING",
            "BEAKER_REVISING", "HONEYDEW_REVIEWING"}
      [] s = "BEAKER_FINALIZING" ->
           {"BEAKER_DRAFTING_CONTRACT", "BEAKER_REVISING", "HONEYDEW_REVIEWING"}
      [] s = "HONEYDEW_REVIEWING" ->
           {"BEAKER_DRAFTING_CONTRACT", "BEAKER_REVISING",
            "AWAITING_EXECUTION_APPROVAL"}
      [] s = "BEAKER_REVISING" ->
           {"BEAKER_DRAFTING_CONTRACT", "HONEYDEW_REVIEWING"}
      [] s = "AWAITING_EXECUTION_APPROVAL" ->
           {"BEAKER_DRAFTING_CONTRACT", "JOB_QUEUED", "BEAKER_REVISING"}
      [] s = "JOB_QUEUED" -> {"JOB_RUNNING", "BEAKER_ANALYZING"}
      [] s = "JOB_RUNNING" -> {"BEAKER_ANALYZING"}
      [] s = "BEAKER_ANALYZING" -> {"HONEYDEW_VERIFYING", "BEAKER_REVISING"}
      [] s = "HONEYDEW_VERIFYING" ->
           {"BEAKER_REVISING", "HONEYDEW_WRITING_REPORT"}
      [] s = "HONEYDEW_WRITING_REPORT" -> {"AWAITING_FINAL_ACCEPTANCE"}
      [] s = "AWAITING_FINAL_ACCEPTANCE" ->
           {"COMPLETE", "HONEYDEW_WRITING_REPORT"}
      [] OTHER -> {}

(***************************************************************************)
(* The moves validate_transition accepts.  A paused run may move to any    *)
(* state but PAUSED and the terminal states other than CANCELLED; a        *)
(* terminal run may not move.                                              *)
(***************************************************************************)
TRANSITIONS(s) ==
    IF s \in TERMINAL_STATES THEN {}
    ELSE IF s = "PAUSED"
         THEN RunState \ {"PAUSED", "COMPLETE", "FAILED", "TIMED_OUT"}
         ELSE Successors(s) \cup
              (IF s = "CREATED" THEN {"CANCELLED", "FAILED"}
               ELSE IF s = "PREPARING" THEN Interruptions \ {"TIMED_OUT"}
               ELSE Interruptions)

ValidTransition(s, t) == t \in TRANSITIONS(s)
=============================================================================
