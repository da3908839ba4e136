------------------------------ MODULE AgentLoop ------------------------------
(***************************************************************************)
(* The autonomous loop of src/agent/core/agent_loop.c: one task, its state *)
(* machine (state.c), the recovery policy (verification.c), the row the    *)
(* task has in the database, and what cancels or resumes it from outside   *)
(* (src/agent/main.c, src/agent/api/server.c).                             *)
(*                                                                         *)
(* The model is a nondeterministic choice of action in every iteration; a  *)
(* plan is the sequence of its steps' verification specs.  The process may *)
(* crash anywhere; what survives is the saved row.                         *)
(***************************************************************************)
EXTENDS Integers, Sequences

CONSTANTS
  MaxIter,      \* task->max_iterations
  MaxRetries,   \* cfg.max_retries
  MaxRepair,    \* cfg.max_repair_attempts
  MaxReflections,
  Plans,        \* the plans the model may come up with
  ToolErrors,   \* the error classes the tools report
  Crashes       \* may the process die?

Classes == {"TOOL_ERROR", "TIMEOUT", "INVALID_ARGUMENT", "MODEL_ERROR",
            "PARSER_ERROR", "PERMISSION_ERROR", "FILE_NOT_FOUND",
            "COMPILATION_ERROR", "TEST_FAILURE", "NETWORK_ERROR"}

(* A step has no verification spec, asks for exit code 0, or names a check *)
(* of the workspace or of the last observation.                            *)
Specs == {"none", "exit_zero", "check"}

ASSUME AgentAssumption ==
  /\ MaxIter \in Nat \ {0} /\ MaxRetries \in Nat /\ MaxRepair \in Nat
  /\ MaxReflections \in Nat \ {0}
  /\ Plans # {} /\ \A p \in Plans : p \in Seq(Specs) /\ p # <<>>
  /\ ToolErrors \subseteq Classes
  /\ Crashes \in BOOLEAN

States == {"IDLE", "ANALYZING", "PLANNING", "EXECUTING", "OBSERVING", "VERIFYING",
           "RECOVERING", "COMPLETED", "FAILED", "WAITING_USER"}
Terminal == {"COMPLETED", "FAILED"}

VARIABLES
  task,      \* AgentTask in memory
  db,        \* its row in the tasks table
  at,        \* "none", or where loop_setup_and_run is
  opt,       \* RunOptions: "run", "plan_only" or "dry_run"
  attempts,  \* L->step_attempts
  lastExit,  \* L->last_exit_code = 0 ?  (0 or 1)
  used,      \* L->refl.used
  outcome    \* what the last run returned

vars == <<task, db, at, opt, attempts, lastExit, used, outcome>>

(* task_create *)
NewTask == [state |-> "IDLE", plan |-> <<>>, cur |-> 0, iter |-> 0,
            success |-> 0, ask |-> 0, answer |-> 0]

-----------------------------------------------------------------------------
(* allowed() in state.c. *)
Allowed(s) ==
  CASE s = "IDLE" -> {"ANALYZING", "FAILED"}
    [] s = "ANALYZING" -> {"PLANNING", "EXECUTING", "WAITING_USER", "COMPLETED", "FAILED"}
    [] s = "PLANNING" -> {"EXECUTING", "WAITING_USER", "FAILED", "COMPLETED"}
    [] s = "EXECUTING" -> {"OBSERVING", "WAITING_USER", "VERIFYING", "COMPLETED", "FAILED"}
    [] s = "OBSERVING" -> {"EXECUTING", "VERIFYING", "RECOVERING", "PLANNING",
                           "COMPLETED", "FAILED"}
    [] s = "VERIFYING" -> {"COMPLETED", "PLANNING", "EXECUTING", "RECOVERING", "FAILED"}
    [] s = "RECOVERING" -> {"EXECUTING", "PLANNING", "WAITING_USER", "FAILED"}
    [] s = "WAITING_USER" -> {"ANALYZING", "PLANNING", "EXECUTING", "FAILED"}
    [] OTHER -> {}

(* agent_state_transition: an illegal move is logged and ignored. *)
Move(s, t) == IF t \in Allowed(s) THEN t ELSE s

(* recovery_strategy_for2 *)
Strategy(c, n) ==
  CASE c \in {"TIMEOUT", "NETWORK_ERROR", "TOOL_ERROR"} ->
         IF n < MaxRetries THEN "RETRY" ELSE "REPLAN"
    [] c \in {"COMPILATION_ERROR", "TEST_FAILURE"} ->
         IF MaxRepair > 0 /\ n >= MaxRepair THEN "ABORT" ELSE "REPLAN"
    [] c \in {"INVALID_ARGUMENT", "PARSER_ERROR"} ->
         IF n < MaxRetries THEN "REPLAN" ELSE "ASK_USER"
    [] c = "FILE_NOT_FOUND" -> "REPLAN"
    [] c = "PERMISSION_ERROR" -> "ASK_USER"
    [] c = "MODEL_ERROR" -> IF n < MaxRetries THEN "RETRY" ELSE "ABORT"
    [] OTHER -> "ABORT"

(* verify_step and verify_check: the possible verdicts on the current step. *)
Verdicts(t, exit) ==
  IF t.cur >= Len(t.plan) THEN {TRUE}
  ELSE CASE t.plan[t.cur + 1] = "none" -> {TRUE}
         [] t.plan[t.cur + 1] = "exit_zero" -> {exit = 0}
         [] OTHER -> BOOLEAN

Save(t) == db' = t

(* A return of loop_body and the tail of loop_setup_and_run, which saves. *)
Finish(t, o) ==
  /\ task' = t
  /\ Save(t)
  /\ outcome' = o
  /\ at' = "none"

Continue(t) ==
  /\ task' = t
  /\ at' = "loop"
  /\ UNCHANGED <<db, outcome>>

-----------------------------------------------------------------------------
(* agent_loop_run on a new task; agent_loop_resume on a saved one. *)

StartLoop(t, o) ==
  /\ task' = t
  /\ Save(t)
  /\ at' = "setup"
  /\ opt' = o
  /\ attempts' = 0 /\ lastExit' = 0 /\ used' = 0
  /\ outcome' = "none"

Run(o) ==
  /\ at = "none"
  /\ db.state = "IDLE" /\ db.plan = <<>> /\ outcome = "none"
  /\ StartLoop(NewTask, o)

(* Mutant: the answered question is not cleared. *)
Resume_KeepsQuestion(o) ==
  /\ at = "none"
  /\ db.state # "IDLE" \/ outcome = "crashed"
  /\ StartLoop([db EXCEPT !.state = IF @ \in Terminal THEN "EXECUTING" ELSE @], o)

(* Mutant: every resume starts with a fresh budget. *)
Resume_FreshBudget(o) ==
  /\ at = "none"
  /\ db.state # "IDLE" \/ outcome = "crashed"
  /\ StartLoop([db EXCEPT !.ask = 0, !.iter = 0,
                          !.state = IF @ \in Terminal THEN "EXECUTING" ELSE @], o)

Resume(o) ==
  /\ at = "none"
  /\ db.state # "IDLE" \/ outcome = "crashed"
  /\ StartLoop([db EXCEPT !.ask = 0,
                          !.state = IF @ \in Terminal THEN "EXECUTING" ELSE @], o)

(* POST /v1/tasks/:id/cancel, between two runs. *)
Cancel ==
  /\ at = "none"
  /\ db.state # "IDLE" \/ outcome = "crashed"
  /\ db' = [db EXCEPT !.state = "FAILED", !.answer = 1]
  /\ outcome' = "cancelled"
  /\ UNCHANGED <<task, at, opt, attempts, lastExit, used>>

Crash ==
  /\ Crashes
  /\ at # "none"
  /\ at' = "none"
  /\ outcome' = "crashed"
  /\ UNCHANGED <<task, db, opt, attempts, lastExit, used>>

(* No plan yet: plan, with a one-step fallback, and save. *)
SetupPlan ==
  /\ at = "setup"
  /\ task.plan = <<>>
  /\ \E p \in Plans \cup {<<"none">>} :
       LET t == [task EXCEPT !.state = Move(Move(@, "ANALYZING"), "PLANNING"),
                             !.plan = p, !.cur = 0]
       IN  task' = t /\ Save(t)
  /\ at' = "ready"
  /\ UNCHANGED <<opt, attempts, lastExit, used, outcome>>

(* Resuming: the saved plan is parsed again. *)
SetupReload ==
  /\ at = "setup"
  /\ task.plan # <<>>
  /\ at' = "ready"
  /\ UNCHANGED <<task, db, opt, attempts, lastExit, used, outcome>>

PlanOnly ==
  /\ at = "ready"
  /\ opt = "plan_only"
  /\ Finish([task EXCEPT !.answer = 1, !.state = Move(@, "COMPLETED")], "completed")
  /\ UNCHANGED <<opt, attempts, lastExit, used>>

EnterLoop ==
  /\ at = "ready"
  /\ opt # "plan_only"
  /\ Continue([task EXCEPT !.state = Move(@, "EXECUTING")])
  /\ UNCHANGED <<opt, attempts, lastExit, used>>

-----------------------------------------------------------------------------
(* loop_body: one iteration is one choice of the model. *)

Iterating == at = "loop" /\ task.iter < MaxIter

(* What every iteration does first. *)
Iterated == [task EXCEPT !.iter = @ + 1]

(* do_recovery and the three ways the loop takes its answer; s is the      *)
(* state the failure was noticed in.                                       *)
Recover(c, s) ==
  LET strat == Strategy(c, attempts + 1)
      t == [Iterated EXCEPT !.state = s]
  IN  /\ attempts' = attempts + 1
      /\ \/ /\ strat \in {"ABORT", "ASK_USER"}
            /\ IF strat = "ABORT"
               THEN Finish([t EXCEPT !.state = Move(@, "FAILED"), !.answer = 1], "failed")
               ELSE Finish([t EXCEPT !.state = Move(@, "WAITING_USER"), !.ask = 1], "needs_user")
         \/ /\ strat \in {"RETRY", "REPLAN"}
            /\ Continue(t)

(* The model failed, or its text is no valid action. *)
BadAction ==
  /\ Iterating
  /\ Recover("PARSER_ERROR", task.state)
  /\ used' = 0
  /\ UNCHANGED <<opt, lastExit>>

FinalRejected ==
  /\ Iterating
  /\ FALSE \in Verdicts(task, lastExit)
  /\ attempts < MaxRetries
  /\ attempts' = attempts + 1
  /\ Continue([Iterated EXCEPT !.state = Move(Move(@, "VERIFYING"), "EXECUTING")])
  /\ used' = 0
  /\ UNCHANGED <<opt, lastExit>>

FinalAccepted ==
  /\ Iterating
  /\ TRUE \in Verdicts(task, lastExit) \/ attempts >= MaxRetries
  /\ Finish([Iterated EXCEPT !.state = Move(Move(@, "VERIFYING"), "COMPLETED"),
                             !.success = 1, !.answer = 1], "completed")
  /\ used' = 0
  /\ UNCHANGED <<opt, attempts, lastExit>>

AskUser ==
  /\ Iterating
  /\ Finish([Iterated EXCEPT !.state = Move(@, "WAITING_USER"), !.ask = 1], "needs_user")
  /\ used' = 0
  /\ UNCHANGED <<opt, attempts, lastExit>>

(* reflection_reset opens every iteration, reflection_allowed follows. *)
Reflect ==
  /\ Iterating
  /\ used' = (IF 0 < MaxReflections THEN 1 ELSE 0)
  /\ Continue(Iterated)
  /\ UNCHANGED <<opt, attempts, lastExit>>

(* Mutant: a new plan costs no iteration. *)
Replan_Free ==
  /\ Iterating
  /\ \E p \in Plans :
       Continue([task EXCEPT !.plan = p, !.cur = 0,
                             !.state = Move(@, "EXECUTING")])
  /\ attempts' = 0 /\ used' = 0
  /\ UNCHANGED <<opt, lastExit>>

(* A new plan in mid-run is not saved before the next step is done; a plan *)
(* with no usable step is dropped.                                         *)
Replan ==
  /\ Iterating
  /\ \/ /\ \E p \in Plans :
             Continue([Iterated EXCEPT !.plan = p, !.cur = 0,
                                       !.state = Move(@, "EXECUTING")])
        /\ attempts' = 0
     \/ /\ Continue([Iterated EXCEPT !.state = Move(@, "EXECUTING")])
        /\ UNCHANGED attempts
  /\ used' = 0
  /\ UNCHANGED <<opt, lastExit>>

Advanced(t) == IF t.cur < Len(t.plan) THEN [t EXCEPT !.cur = @ + 1] ELSE t

DryRun ==
  /\ Iterating
  /\ opt = "dry_run"
  /\ LET t == Advanced(Iterated)
     IN  IF t.cur >= Len(t.plan)
         THEN Finish([t EXCEPT !.answer = 1, !.state = Move(@, "COMPLETED")], "completed")
         ELSE Continue(t)
  /\ used' = 0
  /\ UNCHANGED <<opt, attempts, lastExit>>

(* The tool runs; its effects are in the world before anything is saved. *)
RunTool ==
  /\ Iterating
  /\ opt # "dry_run"
  /\ task' = [task EXCEPT !.state = Move(@, "EXECUTING")]
  /\ at' = "tool"
  /\ UNCHANGED <<db, opt, attempts, lastExit, used, outcome>>

(* A failed shell command leaves its exit code behind, other failures not. *)
ToolFails ==
  /\ at = "tool"
  /\ \E c \in ToolErrors :
       /\ Recover(c, Move(Move(task.state, "OBSERVING"), "RECOVERING"))
       /\ lastExit' \in {lastExit} \cup (IF c \in {"TOOL_ERROR", "TIMEOUT"} THEN {1} ELSE {})
  /\ used' = 0
  /\ UNCHANGED opt

StepPassed ==
  /\ at = "tool"
  /\ lastExit' \in {lastExit, 0}
  /\ TRUE \in Verdicts(task, lastExit')
  /\ LET t == [Advanced(Iterated) EXCEPT !.state = Move(Move(@, "OBSERVING"), "VERIFYING")]
     IN  task' = t /\ Save(t)
  /\ at' = "loop"
  /\ attempts' = 0 /\ used' = 0
  /\ UNCHANGED <<opt, outcome>>

StepFailed ==
  /\ at = "tool"
  /\ lastExit' \in {lastExit, 0}
  /\ FALSE \in Verdicts(task, lastExit')
  /\ LET moveOn == attempts + 1 > MaxRetries
         t == [Iterated EXCEPT !.state =
                 Move(Move(Move(@, "OBSERVING"), "VERIFYING"), "EXECUTING")]
     IN  /\ Continue(IF moveOn THEN Advanced(t) ELSE t)
         /\ attempts' = (IF moveOn THEN 0 ELSE attempts + 1)
  /\ used' = 0
  /\ UNCHANGED opt

OutOfIterations ==
  /\ at = "loop"
  /\ task.iter >= MaxIter
  /\ Finish([task EXCEPT !.state = Move(@, "FAILED"), !.answer = 1], "max_iters")
  /\ UNCHANGED <<opt, attempts, lastExit, used>>

Iteration ==
  \/ BadAction \/ FinalRejected \/ FinalAccepted \/ AskUser \/ Reflect \/ Replan
  \/ DryRun \/ RunTool \/ ToolFails \/ StepPassed \/ StepFailed \/ OutOfIterations

LoopStep == SetupPlan \/ SetupReload \/ PlanOnly \/ EnterLoop \/ Iteration

Init ==
  /\ task = NewTask /\ db = NewTask
  /\ at = "none" /\ opt = "run" /\ outcome = "none"
  /\ attempts = 0 /\ lastExit = 0 /\ used = 0

Options == {"run", "plan_only", "dry_run"}

Next ==
  \/ \E o \in Options : Run(o) \/ Resume(o)
  \/ Cancel
  \/ Crash
  \/ LoopStep

Spec == Init /\ [][Next]_vars

(* The loop is one thread that calls into the model and the tools, and     *)
(* both come back (tools run under a timeout).                             *)
FairSpec == Spec /\ WF_vars(LoopStep)

-----------------------------------------------------------------------------
(* A question is pending in the database only between the run that asked   *)
(* and the next one: no run, and no crash of a run, leaves the question of *)
(* an earlier one behind.                                                  *)
NoStaleQuestion ==
  at # "none" \/ outcome \in {"crashed", "completed", "failed", "max_iters"} => db.ask = 0

(* The iteration budget is not given back: a crash, a cancel or a resume   *)
(* never lowers the saved count, and max_iterations bounds the sum over    *)
(* all the runs of a task.                                                 *)
BudgetKept ==
  [][db'.iter >= db.iter /\ db'.iter <= MaxIter]_vars

(* Every run comes back, whatever the model says (the loop is bounded by   *)
(* max_iterations, not by the model's good will).                          *)
RunReturns == at # "none" ~> at = "none"
=============================================================================
