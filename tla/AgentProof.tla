----------------------------- MODULE AgentProof -----------------------------
(***************************************************************************)
(* The agent: what its loop (AgentLoop) keeps of a task across runs,       *)
(* crashes and resumes, for every plan, every limit and every error class; *)
(* and what its file tools (Workspace) keep of the files, for every set of *)
(* files and texts, every policy and any number of processes; that no      *)
(* backup is lost, as long as no process starts in the second in which the *)
(* one before it took a backup.                                            *)
(***************************************************************************)
EXTENDS AgentLoop, Workspace, TLAPS

-----------------------------------------------------------------------------
(*                        The loop of the agent                            *)
-----------------------------------------------------------------------------
Task == [state : States, plan : Seq(Specs), cur : Nat, iter : Nat,
         success : {0, 1}, ask : {0, 1}, answer : {0, 1}]

Returned == {"crashed", "completed", "failed", "max_iters"}

(* The inductive invariant: while a run is going on no question is open,   *)
(* the saved count is not ahead of the one in memory, and a tool runs only *)
(* inside the budget.                                                      *)
AgentInv ==
  /\ task \in Task /\ db \in Task
  /\ at \in {"none", "setup", "ready", "loop", "tool"}
  /\ attempts \in Nat
  /\ task.iter <= MaxIter /\ db.iter <= MaxIter
  /\ at # "none" => task.ask = 0 /\ db.ask = 0 /\ db.iter <= task.iter
  /\ at = "tool" => task.iter < MaxIter
  /\ outcome \in Returned => db.ask = 0
  /\ at = "none" /\ outcome = "none" => db.iter = 0

(* What every step does: the invariant, and the saved count never falls. *)
StepKeeps == AgentInv' /\ db'.iter >= db.iter

(* The task a step leaves behind while its run goes on. *)
Carries(t) == t \in Task /\ t.ask = 0 /\ t.iter >= task.iter /\ t.iter <= MaxIter

-----------------------------------------------------------------------------
(* A transition, legal or ignored, leads to a state. *)
LEMMA MoveTyped ==
  ASSUME NEW s \in States, NEW t \in States
  PROVE  Move(s, t) \in States
BY DEF Move

(* The iteration goes on. *)
LEMMA ContinueKeeps ==
  ASSUME AgentInv, at # "none", NEW t, Carries(t), Continue(t), attempts' \in Nat
  PROVE  StepKeeps
BY DEF AgentInv, Carries, Continue, StepKeeps, Task

(* The run saves the task and goes on. *)
LEMMA SavesKeeps ==
  ASSUME AgentInv, at # "none", NEW t, Carries(t), task' = t, db' = t,
         at' \in {"ready", "loop"}, attempts' \in Nat, outcome' = outcome
  PROVE  StepKeeps
BY DEF AgentInv, Carries, StepKeeps, Task

(* The run returns. *)
LEMMA FinishKeeps ==
  ASSUME AgentInv, at # "none", NEW t \in Task, t.iter >= task.iter, t.iter <= MaxIter,
         NEW o \in Returned \cup {"needs_user"}, o # "needs_user" => t.ask = 0,
         Finish(t, o), attempts' \in Nat
  PROVE  StepKeeps
BY DEF AgentInv, Returned, Finish, Save, StepKeeps, Task

(* One more iteration. *)
LEMMA IteratedFacts ==
  ASSUME AgentInv, Iterating \/ at = "tool"
  PROVE  /\ Carries(Iterated) /\ at # "none" /\ MaxIter \in Nat
         /\ Iterated.state = task.state
<1>1. task \in Task /\ task.ask = 0 /\ at # "none" /\ MaxIter \in Nat
  BY AgentAssumption DEF AgentInv, Iterating, AgentAssumption
<1>2. PICK n \in Nat : n = task.iter
  BY <1>1 DEF Task
<1>3. n < MaxIter
  BY <1>2 DEF AgentInv, Iterating
<1>4. Iterated = [task EXCEPT !.iter = n + 1]
  BY <1>2 DEF Iterated
<1>5. /\ Iterated \in Task /\ Iterated.ask = 0 /\ Iterated.iter = n + 1
      /\ Iterated.state = task.state
  BY <1>1, <1>4 DEF Task
<1> QED BY <1>1, <1>2, <1>3, <1>5 DEF Carries

(* A change of state and of the plan. *)
LEMMA StateChanged ==
  ASSUME AgentInv, NEW t, Carries(t), NEW s \in States
  PROVE  Carries([t EXCEPT !.state = s])
BY DEF Carries, Task

(* A task that its run hands back: with an answer or a question. *)
LEMMA HandedBack ==
  ASSUME AgentInv, NEW t, Carries(t), NEW s \in States
  PROVE  /\ Carries([t EXCEPT !.state = s, !.answer = 1])
         /\ Carries([t EXCEPT !.answer = 1, !.state = s])
         /\ Carries([t EXCEPT !.state = s, !.success = 1, !.answer = 1])
         /\ LET a == [t EXCEPT !.state = s, !.ask = 1]
            IN  a \in Task /\ a.iter = t.iter
<1>0. 1 \in {0, 1}
  OBVIOUS
<1>1. /\ Carries([t EXCEPT !.state = s, !.answer = 1])
      /\ Carries([t EXCEPT !.answer = 1, !.state = s])
  BY Zenon, <1>0 DEF Carries, Task
<1>2. Carries([t EXCEPT !.state = s, !.success = 1, !.answer = 1])
  BY Zenon, <1>0 DEF Carries, Task
<1>3. LET a == [t EXCEPT !.state = s, !.ask = 1]
      IN  a \in Task /\ a.iter = t.iter
  BY Zenon, <1>0 DEF Carries, Task
<1> QED BY Zenon, <1>1, <1>2, <1>3

(* Another plan. *)
LEMMA PlanChanged ==
  ASSUME AgentInv, NEW t, Carries(t), NEW s \in States, NEW p \in Plans \cup {<<"none">>}
  PROVE  /\ Carries([t EXCEPT !.state = s, !.plan = p, !.cur = 0])
         /\ Carries([t EXCEPT !.plan = p, !.cur = 0, !.state = s])
<1>1. p \in Seq(Specs)
  <2>1. CASE p \in Plans
    BY Zenon, <2>1, AgentAssumption DEF AgentAssumption
  <2>2. <<"none">> \in Seq(Specs)
    BY DEF Specs
  <2> QED BY Zenon, <2>1, <2>2
<1> QED BY Zenon, <1>1 DEF Carries, Task

(* The next step of the plan. *)
LEMMA AdvancedFacts ==
  ASSUME AgentInv, NEW t, Carries(t)
  PROVE  Carries(Advanced(t)) /\ Advanced(t).state = t.state
<1>1. t \in Task /\ t.cur + 1 \in Nat
  BY DEF Carries, Task
<1>2. CASE Advanced(t) = t
  BY Zenon, <1>2
<1>3. CASE Advanced(t) = [t EXCEPT !.cur = t.cur + 1]
  BY <1>1, <1>3 DEF Carries, Task
<1> QED BY Zenon, <1>2, <1>3 DEF Advanced

-----------------------------------------------------------------------------
(* A run starts or is resumed: the saved task, with no question. *)
LEMMA StartKeeps ==
  ASSUME AgentInv, NEW o \in Options, Run(o) \/ Resume(o)
  PROVE  StepKeeps
<1>1. CASE Run(o)
  <2>1. NewTask \in Task /\ NewTask.iter = 0 /\ NewTask.ask = 0
    BY DEF NewTask, Task, States
  <2>2. db.iter = 0 /\ MaxIter \in Nat
    BY <1>1, AgentAssumption DEF Run, AgentInv, AgentAssumption
  <2> QED BY <1>1, <2>1, <2>2 DEF Run, StartLoop, Save, AgentInv, StepKeeps, Returned
<1>2. CASE Resume(o)
  <2>1. PICK s \in States : StartLoop([db EXCEPT !.ask = 0, !.state = s], o)
    <3>1. db.state \in States /\ "EXECUTING" \in States
      BY DEF AgentInv, Task, States
    <3> QED BY Zenon, <1>2, <3>1 DEF Resume
  <2> DEFINE t == [db EXCEPT !.ask = 0, !.state = s]
  <2>2. t \in Task /\ t.ask = 0 /\ t.iter = db.iter /\ t.iter \in Nat
    <3>1. 0 \in {0, 1}
      OBVIOUS
    <3> QED BY Zenon, <3>1 DEF AgentInv, Task
  <2>3. task' = t /\ db' = t /\ at' = "setup" /\ attempts' = 0 /\ outcome' = "none"
    BY Zenon, <2>1 DEF StartLoop, Save
  <2> HIDE DEF t
  <2> QED BY <2>2, <2>3 DEF AgentInv, StepKeeps, Returned
<1> QED BY <1>1, <1>2

(* The task is cancelled, or the process dies. *)
LEMMA OutsideKeeps ==
  ASSUME AgentInv, Cancel \/ Crash
  PROVE  StepKeeps
<1>1. CASE Cancel
  <2> DEFINE t == [db EXCEPT !.state = "FAILED", !.answer = 1]
  <2>1. t \in Task /\ t.ask = db.ask /\ t.iter = db.iter /\ t.iter \in Nat
    <3>1. 1 \in {0, 1} /\ "FAILED" \in States
      BY DEF States
    <3> QED BY Zenon, <3>1 DEF AgentInv, Task
  <2>2. db' = t /\ outcome' = "cancelled" /\ at = "none" /\ UNCHANGED <<task, at, attempts>>
    BY Zenon, <1>1 DEF Cancel
  <2> HIDE DEF t
  <2> QED BY <2>1, <2>2 DEF AgentInv, StepKeeps, Returned
<1>2. CASE Crash
  <2>1. db.iter \in Nat
    BY DEF AgentInv, Task
  <2> QED BY <1>2, <2>1 DEF Crash, AgentInv, StepKeeps, Returned
<1> QED BY <1>1, <1>2

(* The task is planned, its saved plan read again, the loop entered. *)
LEMMA SetupKeeps ==
  ASSUME AgentInv, SetupPlan \/ SetupReload \/ PlanOnly \/ EnterLoop
  PROVE  StepKeeps
<1>1. at # "none" /\ Carries(task) /\ task.state \in States
  <2>1. at # "none"
    BY Zenon DEF SetupPlan, SetupReload, PlanOnly, EnterLoop
  <2>2. task \in Task /\ task.state \in States /\ task.iter \in Nat
    BY Zenon DEF AgentInv, Task
  <2>3. task.iter >= task.iter
    BY <2>2
  <2> QED BY Zenon, <2>1, <2>2, <2>3 DEF AgentInv, Carries
<1>2. {"ANALYZING", "PLANNING", "EXECUTING", "COMPLETED"} \subseteq States
  BY DEF States
<1>3. CASE SetupPlan
  <2>1. PICK s \in States, p \in Plans \cup {<<"none">>} :
           LET t == [task EXCEPT !.state = s, !.plan = p, !.cur = 0]
           IN  task' = t /\ db' = t
    BY Zenon, <1>1, <1>2, <1>3, MoveTyped DEF SetupPlan, Save
  <2> DEFINE t == [task EXCEPT !.state = s, !.plan = p, !.cur = 0]
  <2>2. Carries(t)
    BY Zenon, <1>1, PlanChanged
  <2>3. at' \in {"ready", "loop"} /\ attempts' \in Nat /\ outcome' = outcome
    <3>1. at' \in {"ready", "loop"} /\ outcome' = outcome /\ attempts' \in {attempts, 0}
      BY Zenon, <1>3 DEF SetupPlan
    <3> QED BY <3>1 DEF AgentInv
  <2> HIDE DEF t
  <2>4. task' = t /\ db' = t
    BY Zenon, <2>1 DEF t
  <2> QED BY Zenon, <1>1, <2>2, <2>3, <2>4, SavesKeeps
<1>4. CASE SetupReload
  <2>1. db.iter \in Nat
    BY DEF AgentInv, Task
  <2> QED BY <1>4, <2>1 DEF SetupReload, AgentInv, StepKeeps
<1>5. CASE PlanOnly
  <2>1. PICK s \in States : Finish([task EXCEPT !.answer = 1, !.state = s], "completed")
    BY Zenon, <1>1, <1>2, <1>5, MoveTyped DEF PlanOnly
  <2> DEFINE t == [task EXCEPT !.answer = 1, !.state = s]
  <2>2. Carries(t)
    BY Zenon, <1>1, HandedBack
  <2>3. attempts' \in Nat
    BY <1>5 DEF PlanOnly, AgentInv
  <2> HIDE DEF t
  <2>4. Finish(t, "completed") /\ "completed" \in Returned \cup {"needs_user"}
    BY <2>1 DEF t, Returned
  <2> QED BY Zenon, <1>1, <2>2, <2>3, <2>4, FinishKeeps DEF Carries
<1>6. CASE EnterLoop
  <2>1. PICK s \in States : Continue([task EXCEPT !.state = s])
    BY Zenon, <1>1, <1>2, <1>6, MoveTyped DEF EnterLoop
  <2>2. Carries([task EXCEPT !.state = s])
    BY Zenon, <1>1, StateChanged
  <2>3. attempts' \in Nat
    BY <1>6 DEF EnterLoop, AgentInv
  <2> QED BY Zenon, <1>1, <2>1, <2>2, <2>3, ContinueKeeps
<1> QED BY Zenon, <1>3, <1>4, <1>5, <1>6

(* The three ways the loop takes the answer of do_recovery. *)
LEMMA RecoverKeeps ==
  ASSUME AgentInv, Iterating \/ at = "tool", NEW c, NEW s \in States, Recover(c, s)
  PROVE  StepKeeps
<1> DEFINE t == [Iterated EXCEPT !.state = s]
<1>1. Carries(Iterated) /\ at # "none"
  BY Zenon, IteratedFacts
<1>2. Carries(t)
  BY Zenon, <1>1, StateChanged
<1>3. attempts' \in Nat
  BY DEF Recover, AgentInv
<1>4. t.state \in States /\ {"FAILED", "WAITING_USER"} \subseteq States
  BY <1>2 DEF Carries, Task, States
<1> HIDE DEF t
<1>5. CASE Continue(t)
  BY Zenon, <1>1, <1>2, <1>3, <1>5, ContinueKeeps
<1>6. CASE \E r \in States : Finish([t EXCEPT !.state = r, !.answer = 1], "failed")
  <2>1. PICK r \in States : Finish([t EXCEPT !.state = r, !.answer = 1], "failed")
    BY Zenon, <1>6
  <2>2. Carries([t EXCEPT !.state = r, !.answer = 1])
    BY Zenon, <1>2, HandedBack
  <2>3. "failed" \in Returned \cup {"needs_user"}
    BY DEF Returned
  <2> QED BY Zenon, <1>1, <1>3, <2>1, <2>2, <2>3, FinishKeeps DEF Carries
<1>7. CASE \E r \in States : Finish([t EXCEPT !.state = r, !.ask = 1], "needs_user")
  <2>1. PICK r \in States : Finish([t EXCEPT !.state = r, !.ask = 1], "needs_user")
    BY Zenon, <1>7
  <2> DEFINE a == [t EXCEPT !.state = r, !.ask = 1]
  <2>2. a \in Task /\ a.iter = t.iter
    BY Zenon, <1>2, HandedBack
  <2>3. a.iter >= task.iter /\ a.iter <= MaxIter
    BY Zenon, <1>2, <2>2 DEF Carries
  <2>4. "needs_user" \in Returned \cup {"needs_user"}
    OBVIOUS
  <2> QED BY Zenon, <1>1, <1>3, <2>1, <2>2, <2>3, <2>4, FinishKeeps
<1> QED BY Zenon, <1>4, <1>5, <1>6, <1>7, MoveTyped DEF Recover, t

(* An iteration that goes on without the tool. *)
LEMMA GoOnKeeps ==
  ASSUME AgentInv, FinalRejected \/ Reflect \/ Replan
  PROVE  StepKeeps
<1>1. Iterating
  BY Zenon DEF FinalRejected, Reflect, Replan
<1>2. Carries(Iterated) /\ at # "none"
  BY Zenon, <1>1, IteratedFacts
<1>3. Iterated.state \in States /\ {"VERIFYING", "EXECUTING"} \subseteq States
  BY Zenon, <1>2 DEF Carries, Task, States
<1>4. attempts' \in Nat
  <2>1. attempts \in Nat /\ attempts' \in {attempts, attempts + 1, 0}
    BY Zenon DEF AgentInv, FinalRejected, Reflect, Replan
  <2> QED BY <2>1
<1>5. CASE Continue(Iterated)
  BY Zenon, <1>2, <1>4, <1>5, ContinueKeeps
<1>6. CASE \E s \in States : Continue([Iterated EXCEPT !.state = s])
  <2>1. PICK s \in States : Continue([Iterated EXCEPT !.state = s])
    BY Zenon, <1>6
  <2>2. Carries([Iterated EXCEPT !.state = s])
    BY Zenon, <1>2, StateChanged
  <2> QED BY Zenon, <1>2, <1>4, <2>1, <2>2, ContinueKeeps
<1>7. CASE \E p \in Plans, s \in States :
             Continue([Iterated EXCEPT !.plan = p, !.cur = 0, !.state = s])
  <2>1. PICK p \in Plans, s \in States :
           Continue([Iterated EXCEPT !.plan = p, !.cur = 0, !.state = s])
    BY Zenon, <1>7
  <2>2. Carries([Iterated EXCEPT !.plan = p, !.cur = 0, !.state = s])
    BY Zenon, <1>2, PlanChanged
  <2> QED BY Zenon, <1>2, <1>4, <2>1, <2>2, ContinueKeeps
<1> QED BY Zenon, <1>3, <1>5, <1>6, <1>7, MoveTyped DEF FinalRejected, Reflect, Replan

(* An iteration that ends the run. *)
LEMMA EndKeeps ==
  ASSUME AgentInv, FinalAccepted \/ AskUser
  PROVE  StepKeeps
<1>1. Iterating
  BY Zenon DEF FinalAccepted, AskUser
<1>2. Carries(Iterated) /\ at # "none"
  BY Zenon, <1>1, IteratedFacts
<1>3. Iterated.state \in States /\ {"VERIFYING", "COMPLETED", "WAITING_USER"} \subseteq States
  BY Zenon, <1>2 DEF Carries, Task, States
<1>4. attempts' \in Nat
  BY Zenon DEF AgentInv, FinalAccepted, AskUser
<1>5. CASE FinalAccepted
  <2>1. PICK s \in States :
           Finish([Iterated EXCEPT !.state = s, !.success = 1, !.answer = 1], "completed")
    BY Zenon, <1>3, <1>5, MoveTyped DEF FinalAccepted
  <2>2. Carries([Iterated EXCEPT !.state = s, !.success = 1, !.answer = 1])
    BY Zenon, <1>2, HandedBack
  <2>3. "completed" \in Returned \cup {"needs_user"}
    BY DEF Returned
  <2> QED BY Zenon, <1>2, <1>4, <2>1, <2>2, <2>3, FinishKeeps DEF Carries
<1>6. CASE AskUser
  <2>1. PICK s \in States : Finish([Iterated EXCEPT !.state = s, !.ask = 1], "needs_user")
    BY Zenon, <1>3, <1>6, MoveTyped DEF AskUser
  <2> DEFINE a == [Iterated EXCEPT !.state = s, !.ask = 1]
  <2>2. a \in Task /\ a.iter = Iterated.iter
    BY Zenon, <1>2, HandedBack
  <2>3. a.iter >= task.iter /\ a.iter <= MaxIter
    BY Zenon, <1>2, <2>2 DEF Carries
  <2>4. "needs_user" \in Returned \cup {"needs_user"}
    OBVIOUS
  <2> QED BY Zenon, <1>2, <1>4, <2>1, <2>2, <2>3, <2>4, FinishKeeps
<1> QED BY Zenon, <1>5, <1>6

(* The tool is called: only inside the budget. *)
LEMMA RunToolKeeps ==
  ASSUME AgentInv, RunTool
  PROVE  StepKeeps
<1>1. task \in Task /\ task.state \in States /\ "EXECUTING" \in States /\ db.iter \in Nat
  BY DEF AgentInv, Task, States
<1>2. PICK s \in States : task' = [task EXCEPT !.state = s]
  BY Zenon, <1>1, MoveTyped DEF RunTool
<1>3. task' \in Task /\ task'.ask = task.ask /\ task'.iter = task.iter
  BY Zenon, <1>1, <1>2 DEF Task
<1>4. Iterating /\ at' = "tool" /\ UNCHANGED <<db, attempts, outcome>>
  BY Zenon DEF RunTool
<1> QED BY <1>1, <1>3, <1>4 DEF AgentInv, StepKeeps, Iterating

(* A dry run notes the call and steps on. *)
LEMMA DryRunKeeps ==
  ASSUME AgentInv, DryRun
  PROVE  StepKeeps
<1> DEFINE t == Advanced(Iterated)
<1>1. Iterating /\ attempts' \in Nat
  BY DEF DryRun, AgentInv
<1>2. Carries(Iterated) /\ at # "none"
  BY Zenon, <1>1, IteratedFacts
<1>3. Carries(t)
  BY Zenon, <1>2, AdvancedFacts
<1>4. t.state \in States /\ "COMPLETED" \in States
  BY <1>3 DEF Carries, Task, States
<1>5. Continue(t) \/ \E s \in States : Finish([t EXCEPT !.answer = 1, !.state = s], "completed")
  BY Zenon, <1>4, MoveTyped DEF DryRun
<1> HIDE DEF t
<1>6. CASE Continue(t)
  BY Zenon, <1>1, <1>2, <1>3, <1>6, ContinueKeeps
<1>7. CASE \E s \in States : Finish([t EXCEPT !.answer = 1, !.state = s], "completed")
  <2>1. PICK s \in States : Finish([t EXCEPT !.answer = 1, !.state = s], "completed")
    BY Zenon, <1>7
  <2>2. Carries([t EXCEPT !.answer = 1, !.state = s])
    BY Zenon, <1>3, HandedBack
  <2>3. "completed" \in Returned \cup {"needs_user"}
    BY DEF Returned
  <2> QED BY Zenon, <1>1, <1>2, <2>1, <2>2, <2>3, FinishKeeps DEF Carries
<1> QED BY Zenon, <1>5, <1>6, <1>7

(* The tool has come back with a result that passes its check, or not. *)
LEMMA StepDoneKeeps ==
  ASSUME AgentInv, StepPassed \/ StepFailed
  PROVE  StepKeeps
<1>1. at = "tool"
  BY Zenon DEF StepPassed, StepFailed
<1>2. Carries(Iterated) /\ at # "none"
  BY Zenon, <1>1, IteratedFacts
<1>3. {"OBSERVING", "VERIFYING", "EXECUTING"} \subseteq States
  BY DEF States
<1>4. CASE StepPassed
  <2> DEFINE b == Advanced(Iterated)
  <2>1. Carries(b)
    BY Zenon, <1>2, AdvancedFacts
  <2>2. b.state \in States
    BY Zenon, <2>1 DEF Carries, Task
  <2>3. PICK s \in States : task' = [b EXCEPT !.state = s] /\ db' = [b EXCEPT !.state = s]
    BY Zenon, <1>3, <1>4, <2>2, MoveTyped DEF StepPassed, Save
  <2> HIDE DEF b
  <2>4. Carries([b EXCEPT !.state = s])
    BY Zenon, <2>1, StateChanged
  <2>5. attempts' \in Nat /\ at' \in {"ready", "loop"} /\ outcome' = outcome
    BY <1>4 DEF StepPassed
  <2> QED BY Zenon, <1>2, <2>3, <2>4, <2>5, SavesKeeps
<1>5. CASE StepFailed
  <2>1. Iterated.state \in States
    BY Zenon, <1>2 DEF Carries, Task
  <2>2. PICK s \in States :
           LET t == [Iterated EXCEPT !.state = s] IN Continue(t) \/ Continue(Advanced(t))
    BY Zenon, <1>3, <1>5, <2>1, MoveTyped DEF StepFailed
  <2> DEFINE t == [Iterated EXCEPT !.state = s]
  <2>3. Carries(t)
    BY Zenon, <1>2, StateChanged
  <2>4. attempts' \in Nat
    <3>1. attempts \in Nat /\ attempts' \in {attempts + 1, 0}
      BY Zenon, <1>5 DEF AgentInv, StepFailed
    <3> QED BY <3>1
  <2>5. Continue(t) \/ Continue(Advanced(t))
    BY Zenon, <2>2
  <2> HIDE DEF t
  <2>6. Carries(Advanced(t))
    BY Zenon, <2>3, AdvancedFacts
  <2> QED BY Zenon, <1>2, <2>3, <2>4, <2>5, <2>6, ContinueKeeps
<1> QED BY Zenon, <1>4, <1>5

(* max_iterations is used up. *)
LEMMA OutOfIterationsKeeps ==
  ASSUME AgentInv, OutOfIterations
  PROVE  StepKeeps
<1>1. at # "none" /\ attempts' \in Nat
  BY Zenon DEF OutOfIterations, AgentInv
<1>2. task \in Task /\ task.state \in States /\ task.iter \in Nat /\ "FAILED" \in States
  BY Zenon DEF AgentInv, Task, States
<1>3. task.iter >= task.iter
  BY <1>2
<1>4. Carries(task)
  BY Zenon, <1>1, <1>2, <1>3 DEF Carries, AgentInv
<1>5. PICK s \in States : Finish([task EXCEPT !.state = s, !.answer = 1], "max_iters")
  BY Zenon, <1>2, MoveTyped DEF OutOfIterations
<1>6. Carries([task EXCEPT !.state = s, !.answer = 1])
  BY Zenon, <1>4, HandedBack
<1>7. "max_iters" \in Returned \cup {"needs_user"}
  BY DEF Returned
<1> QED BY Zenon, <1>1, <1>5, <1>6, <1>7, FinishKeeps DEF Carries

(* Every step. *)
LEMMA AgentStep ==
  ASSUME AgentInv, Next
  PROVE  StepKeeps
<1>1. task.state \in States /\ {"OBSERVING", "RECOVERING"} \subseteq States
  BY Zenon DEF AgentInv, Task, States
<1>2. CASE BadAction
  BY Zenon, <1>1, <1>2, RecoverKeeps DEF BadAction
<1>3. CASE ToolFails
  BY Zenon, <1>1, <1>3, MoveTyped, RecoverKeeps DEF ToolFails
<1> QED BY Zenon, <1>2, <1>3, StartKeeps, OutsideKeeps, SetupKeeps, GoOnKeeps, EndKeeps,
           RunToolKeeps, DryRunKeeps, StepDoneKeeps, OutOfIterationsKeeps
        DEF Next, LoopStep, Iteration

(* The invariant holds of every run, resume, cancel and crash. *)
THEOREM AgentInvariant == Spec => []AgentInv
<1>1. Init => AgentInv
  <2> SUFFICES ASSUME Init PROVE AgentInv
    OBVIOUS
  <2>1. NewTask \in Task /\ NewTask.iter = 0 /\ NewTask.ask = 0
    BY DEF NewTask, Task, States
  <2> HIDE DEF NewTask
  <2> QED BY <2>1, AgentAssumption DEF Init, AgentInv, AgentAssumption
<1>2. AgentInv /\ [Next]_vars => AgentInv'
  <2>1. ASSUME AgentInv, UNCHANGED vars PROVE AgentInv'
    BY Zenon, <2>1 DEF AgentInv, vars
  <2> QED BY Zenon, <2>1, AgentStep DEF StepKeeps
<1> QED BY <1>1, <1>2, PTL DEF Spec

(* agent_loop_resume clears the question, and every return and every save  *)
(* in between writes the row: no question of an earlier run stays.         *)
THEOREM NeverStaleQuestion == Spec => []NoStaleQuestion
<1>1. AgentInv => NoStaleQuestion
  BY DEF AgentInv, NoStaleQuestion, Returned
<1> QED BY <1>1, AgentInvariant, PTL

(* The saved iteration count never falls and never exceeds max_iterations, *)
(* over all the runs of a task.                                            *)
THEOREM BudgetAlwaysKept == Spec => BudgetKept
<1>1. AgentInv /\ AgentInv' /\ [Next]_vars => [db'.iter >= db.iter /\ db'.iter <= MaxIter]_vars
  BY Zenon, AgentStep DEF StepKeeps, AgentInv
<1> QED BY <1>1, AgentInvariant, PTL DEF Spec, BudgetKept

-----------------------------------------------------------------------------
(*                        Files and their backups                          *)
-----------------------------------------------------------------------------
Stored == Held \cup {None}

WorkspaceTypeOK ==
  /\ pc \in {"idle", "backup", "write", "rename", "append", "remove", "copy", "done"}
  /\ disk \in [Files -> Stored] /\ latest \in [Files -> Stored]
  /\ pc \in {"backup", "write", "rename", "append", "remove", "copy"} => op.file \in Files
  /\ pc \in {"write", "rename", "append", "backup", "copy"} => op.new \in Stored
  /\ seqno \in Nat /\ now \in Nat

(* A backup's name tells when it was taken and the base of its file. *)
NamesInv ==
  \A n \in DOMAIN backups :
    /\ n[2] \in Nat /\ n[3] \in Nat /\ n[3] <= now
    /\ backups[n].mt = n[3] /\ backups[n].content \in Stored
    /\ backups[n].of \in Files /\ n[1] = BaseOf[backups[n].of]

(* The name n under which f was last backed up: no backup of f is from a   *)
(* later second, and n holds the latest text, unless another file of the   *)
(* same base has taken the name since.                                     *)
LastName(n, f) ==
  /\ n[1] = BaseOf[f]
  /\ \A m \in DOMAIN backups : backups[m].of = f => m[3] <= n[3]
  /\ backups[n].of = f => backups[n].content = latest[f]

LatestInv ==
  \A f \in Files : (\E m \in DOMAIN backups : backups[m].of = f)
                     => \E n \in DOMAIN backups : LastName(n, f)

(* What a call in progress knows of its file. *)
CallInv ==
  /\ pc = "backup" => op.old = disk[op.file]
  /\ pc \in {"backup", "write", "rename"} => op.new # Partial
  /\ pc = "copy" => op.file \in inPlace

(* The inductive invariant. *)
WorkspaceInv ==
  /\ WorkspaceTypeOK
  /\ NamesInv
  /\ LatestInv
  /\ CallInv
  /\ WholeText
  /\ RollbackRestoresLatest
-----------------------------------------------------------------------------
(* The backup directory is left alone while the clock may advance. *)
LEMMA BackupsKept ==
  ASSUME WorkspaceInv, UNCHANGED <<backups, latest>>, now' = now \/ now' = now + 1
  PROVE  NamesInv' /\ LatestInv'
<1>1. NamesInv'
  BY DEF WorkspaceInv, WorkspaceTypeOK, NamesInv
<1>2. LatestInv'
  BY Zenon DEF WorkspaceInv, LatestInv, LastName
<1> QED BY <1>1, <1>2

(* A call begins. *)
LEMMA BeginKeeps ==
  ASSUME WorkspaceInv, NEW t, NEW f \in Files, NEW md, NEW c \in Contents \cup {None}, NEW p,
         p \in {"done", "backup", "append", "write"}, Begin(t, f, md, c, p)
  PROVE  WorkspaceInv'
<1>1. /\ op'.file = f /\ op'.new = c /\ op'.old = disk[f] /\ pc' = p
      /\ UNCHANGED <<disk, backups, latest, owed, inPlace, seqno, now>>
  BY DEF Begin, store
<1>2. WorkspaceTypeOK'
  BY <1>1 DEF WorkspaceInv, WorkspaceTypeOK, Stored, Held
<1>3. NamesInv' /\ LatestInv'
  BY <1>1, BackupsKept
<1>4. c # Partial
  BY WorkspaceAssumption DEF WorkspaceAssumption, None, Partial
<1>5. CallInv'
  BY <1>1, <1>4 DEF CallInv
<1>6. WholeText' /\ RollbackRestoresLatest'
  BY <1>1 DEF WorkspaceInv, WholeText, RollbackRestoresLatest
<1> QED BY <1>2, <1>3, <1>5, <1>6 DEF WorkspaceInv

(* A shell command rewrites or removes a file. *)
LEMMA ShellKeeps ==
  ASSUME WorkspaceInv, NEW f \in Files, NEW c \in Contents \cup {None}, CallShell(f, c)
  PROVE  WorkspaceInv'
<1>1. /\ disk' = [disk EXCEPT ![f] = c] /\ pc' = "done"
      /\ UNCHANGED <<backups, latest, owed, inPlace, seqno, now>>
  BY DEF CallShell
<1>2. c # Partial /\ c \in Stored
  BY WorkspaceAssumption DEF WorkspaceAssumption, None, Partial, Stored, Held
<1>3. WorkspaceTypeOK'
  BY <1>1, <1>2 DEF WorkspaceInv, WorkspaceTypeOK
<1>4. NamesInv' /\ LatestInv'
  BY <1>1, BackupsKept
<1>5. WholeText'
  BY <1>1, <1>2 DEF WorkspaceInv, WorkspaceTypeOK, WholeText
<1>6. CallInv' /\ RollbackRestoresLatest'
  BY <1>1 DEF CallInv, RollbackRestoresLatest
<1> QED BY <1>3, <1>4, <1>5, <1>6 DEF WorkspaceInv

(* A backup, under a new name or over another. *)
LEMMA CopyKeeps ==
  ASSUME WorkspaceInv, NEW f \in Files, NEW c \in Stored, Copy(f, BackupName(f), c), now' = now
  PROVE  NamesInv' /\ LatestInv' /\ latest' \in [Files -> Stored]
<1>0. PICK name : name = BackupName(f)
  BY Zenon
<1>1. name[1] = BaseOf[f] /\ name[2] \in Nat /\ name[3] = now /\ now \in Nat
  BY <1>0 DEF BackupName, WorkspaceInv, WorkspaceTypeOK
<1>2. /\ name \in DOMAIN backups' /\ DOMAIN backups \subseteq DOMAIN backups'
      /\ \A n \in DOMAIN backups' : n = name \/ n \in DOMAIN backups
      /\ backups'[name].of = f /\ backups'[name].mt = now /\ backups'[name].content = c
      /\ \A n \in DOMAIN backups : n # name => backups'[n] = backups[n]
      /\ latest' = [latest EXCEPT ![f] = c]
  BY <1>0 DEF Copy
<1>3. /\ latest' \in [Files -> Stored] /\ latest'[f] = c
      /\ \A g \in Files : g # f => latest'[g] = latest[g]
  BY <1>2 DEF WorkspaceInv, WorkspaceTypeOK
<1>4. ASSUME NEW n \in DOMAIN backups'
      PROVE  /\ n[2] \in Nat /\ n[3] \in Nat /\ n[3] <= now
             /\ backups'[n].mt = n[3] /\ backups'[n].content \in Stored
             /\ backups'[n].of \in Files /\ n[1] = BaseOf[backups'[n].of]
  <2>1. CASE n = name
    BY <1>1, <1>2, <2>1
  <2>2. CASE n # name
    BY Zenon, <1>2, <2>2 DEF WorkspaceInv, NamesInv
  <2> QED BY Zenon, <2>1, <2>2
<1>5. LastName(name, f)'
  <2>1. \A m \in DOMAIN backups' : m[3] <= name[3]
    BY Zenon, <1>1, <1>4
  <2> QED BY Zenon, <1>1, <1>2, <1>3, <2>1 DEF LastName
<1>6. ASSUME NEW g \in Files, g # f, NEW m \in DOMAIN backups', backups'[m].of = g
      PROVE  \E n \in DOMAIN backups' : LastName(n, g)'
  <2>1. \A k \in DOMAIN backups' : backups'[k].of = g =>
          k \in DOMAIN backups /\ backups'[k] = backups[k] /\ backups[k].of = g
    BY Zenon, <1>2, <1>6
  <2>2. PICK n \in DOMAIN backups : LastName(n, g)
    BY Zenon, <1>6, <2>1 DEF WorkspaceInv, LatestInv
  <2>3. /\ n[1] = BaseOf[g] /\ (backups[n].of = g => backups[n].content = latest[g])
        /\ \A k \in DOMAIN backups : backups[k].of = g => k[3] <= n[3]
    BY Zenon, <2>2 DEF LastName
  <2>4. LastName(n, g)'
    BY Zenon, <1>2, <1>3, <1>6, <2>1, <2>3 DEF LastName
  <2> QED BY Zenon, <1>2, <2>4
<1>7. LatestInv'
  <2> SUFFICES ASSUME NEW g \in Files, NEW m \in DOMAIN backups', backups'[m].of = g
               PROVE  \E n \in DOMAIN backups' : LastName(n, g)'
    BY Zenon DEF LatestInv, LastName
  <2> QED BY Zenon, <1>2, <1>5, <1>6
<1> QED BY Zenon, <1>3, <1>4, <1>7 DEF NamesInv

(* sandbox_backup: a copy, part of one, or none. *)
LEMMA TakeBackupKeeps ==
  ASSUME WorkspaceInv, TakeBackup
  PROVE  WorkspaceInv'
<1> DEFINE f == op.file
<1>1. /\ pc = "backup" /\ seqno' = seqno + 1 /\ UNCHANGED <<disk, now, op, inPlace>>
      /\ pc' \in {"append", "remove", "write"}
  BY DEF TakeBackup, AfterBackup
<1>2. f \in Files /\ disk[f] \in Stored /\ Partial \in Stored
  BY <1>1 DEF WorkspaceInv, WorkspaceTypeOK, Stored, Held
<1>3. NamesInv' /\ LatestInv' /\ latest' \in [Files -> Stored]
  <2>1. CASE \E c \in Stored : Copy(f, BackupName(f), c)
    BY Zenon, <1>1, <1>2, <2>1, CopyKeeps
  <2>2. CASE UNCHANGED <<backups, latest>>
    BY Zenon, <1>1, <2>2, BackupsKept DEF WorkspaceInv, WorkspaceTypeOK
  <2> QED BY Zenon, <1>2, <2>1, <2>2 DEF TakeBackup
<1>4. WorkspaceTypeOK'
  BY <1>1, <1>3 DEF WorkspaceInv, WorkspaceTypeOK
<1>5. CallInv' /\ WholeText'
  BY <1>1 DEF WorkspaceInv, CallInv, WholeText
<1>6. RollbackRestoresLatest'
  BY <1>1 DEF RollbackRestoresLatest
<1> QED BY <1>3, <1>4, <1>5, <1>6 DEF WorkspaceInv

(* A step of the call in progress that changes at most its own file. *)
LEMMA FileStepKeeps ==
  ASSUME WorkspaceInv, WriteTmp \/ Rename \/ AppendTo \/ Remove \/ Return \/ RollbackCopied
  PROVE  WorkspaceInv'
<1>1. /\ UNCHANGED <<backups, seqno, now, latest, owed>>
      /\ pc' \in {"rename", "done", "idle"} /\ (pc' = "rename" => pc = "write" /\ op' = op)
      /\ inPlace \subseteq inPlace'
  BY DEF WriteTmp, Rename, AppendTo, Remove, Return, RollbackCopied, store
<1>2. \/ disk' = disk
      \/ /\ pc \in {"rename", "append", "remove", "copy"}
         /\ \E c \in Stored :
              /\ disk' = [disk EXCEPT ![op.file] = c]
              /\ c = Partial => op.file \in inPlace'
  <2> Partial \in Stored /\ None \in Stored /\ None # Partial
    BY DEF Stored, Held, None, Partial
  <2>1. CASE WriteTmp \/ Return
    BY Zenon, <2>1 DEF WriteTmp, Return, store
  <2>2. CASE Rename
    BY Zenon, <2>2 DEF Rename, WorkspaceInv, WorkspaceTypeOK, CallInv
  <2>3. CASE AppendTo
    BY Zenon, <2>3 DEF AppendTo, WorkspaceInv, WorkspaceTypeOK
  <2>4. CASE Remove
    BY Zenon, <2>4 DEF Remove
  <2>5. CASE RollbackCopied
    BY Zenon, <2>5 DEF RollbackCopied, WorkspaceInv, WorkspaceTypeOK, CallInv
  <2> QED BY Zenon, <2>1, <2>2, <2>3, <2>4, <2>5
<1>3. disk' \in [Files -> Stored] /\ WholeText'
  <2>1. CASE disk' = disk
    BY Zenon, <1>1, <2>1 DEF WorkspaceInv, WorkspaceTypeOK, WholeText
  <2>2. CASE disk' # disk
    <3>1. PICK c \in Stored :
             /\ disk' = [disk EXCEPT ![op.file] = c]
             /\ c = Partial => op.file \in inPlace'
      BY Zenon, <1>2, <2>2
    <3>2. op.file \in Files
      BY <1>2, <2>2 DEF WorkspaceInv, WorkspaceTypeOK
    <3> QED BY <1>1, <3>1, <3>2 DEF WorkspaceInv, WorkspaceTypeOK, WholeText
  <2> QED BY <2>1, <2>2
<1>4. WorkspaceTypeOK'
  BY <1>1, <1>3 DEF WorkspaceInv, WorkspaceTypeOK
<1>5. NamesInv' /\ LatestInv'
  BY <1>1, BackupsKept
<1>6. CallInv' /\ RollbackRestoresLatest'
  BY <1>1 DEF WorkspaceInv, CallInv, RollbackRestoresLatest
<1> QED BY <1>3, <1>4, <1>5, <1>6 DEF WorkspaceInv

(* The newest candidate is the file's most recent backup. *)
LEMMA NewestIsLatest ==
  ASSUME WorkspaceInv, NEW f \in Files, NEW n \in Newest(Candidates(f)),
         \A m \in Candidates(f) : backups[m].of = f,
         \A m, k \in Candidates(f) : backups[m].mt = backups[k].mt => m = k
  PROVE  backups[n].content = latest[f]
<1>1. n \in Candidates(f) /\ \A m \in Candidates(f) : backups[m].mt <= backups[n].mt
  BY Zenon DEF Newest
<1>2. n \in DOMAIN backups /\ backups[n].of = f
  BY Zenon, <1>1 DEF Candidates
<1>3. PICK k \in DOMAIN backups : LastName(k, f)
  BY Zenon, <1>2 DEF WorkspaceInv, LatestInv
<1>4. k[1] = BaseOf[f] /\ n[3] <= k[3] /\ (backups[k].of = f => backups[k].content = latest[f])
  BY Zenon, <1>2, <1>3 DEF LastName
<1>5. k \in Candidates(f)
  BY Zenon, <1>4, WorkspaceAssumption DEF Candidates
<1>6. /\ backups[k].mt = k[3] /\ backups[n].mt = n[3] /\ k[3] \in Nat /\ n[3] \in Nat
      /\ backups[k].mt <= backups[n].mt
  BY Zenon, <1>1, <1>2, <1>5 DEF WorkspaceInv, NamesInv
<1>7. backups[k].mt = backups[n].mt
  BY <1>4, <1>6
<1> QED BY Zenon, <1>1, <1>4, <1>5, <1>7

(* sandbox_rollback, up to the truncation. *)
LEMMA RollbackKeeps ==
  ASSUME WorkspaceInv, NEW f \in Files, Rollback(f)
  PROVE  WorkspaceInv'
<1>1. PICK n \in Newest(Candidates(f)) :
        op' = [tool |-> "rollback", file |-> f, mode |-> "rollback",
               new |-> backups[n].content, old |-> disk[f]]
  BY Zenon DEF Rollback
<1>2. /\ op'.file = f /\ op'.new = backups[n].content /\ pc' = "copy"
      /\ disk' = [disk EXCEPT ![f] = Partial] /\ inPlace' = inPlace \cup {f}
      /\ UNCHANGED <<backups, latest, owed, seqno, now>>
  BY <1>1 DEF Rollback
<1>3. n \in DOMAIN backups /\ backups[n].content \in Stored
  BY Zenon DEF Newest, Candidates, WorkspaceInv, NamesInv
<1>4. WorkspaceTypeOK'
  BY <1>2, <1>3 DEF WorkspaceInv, WorkspaceTypeOK, Stored, Held
<1>5. NamesInv' /\ LatestInv'
  BY Zenon, <1>2, BackupsKept
<1>6. CallInv' /\ WholeText'
  BY <1>2 DEF WorkspaceInv, WorkspaceTypeOK, CallInv, WholeText
<1>7. Candidates(f)' = Candidates(f)
  BY Zenon, <1>2 DEF Candidates
<1>8. RollbackRestoresLatest'
  <2> SUFFICES ASSUME \A m \in Candidates(f) : backups[m].of = f,
                      \A m, k \in Candidates(f) : backups[m].mt = backups[k].mt => m = k
               PROVE  op'.new = latest[f]
    BY Zenon, <1>2, <1>7 DEF RollbackRestoresLatest, Candidates
  <2> QED BY Zenon, <1>2, NewestIsLatest
<1> QED BY Zenon, <1>4, <1>5, <1>6, <1>8 DEF WorkspaceInv

(* A second passes. *)
LEMMA TickKeeps ==
  ASSUME WorkspaceInv, Tick
  PROVE  WorkspaceInv'
<1>1. now' = now + 1 /\ UNCHANGED <<disk, backups, seqno, owed, latest, inPlace, op, pc>>
  BY DEF Tick, store
<1>2. WorkspaceTypeOK'
  BY <1>1 DEF WorkspaceInv, WorkspaceTypeOK
<1>3. NamesInv' /\ LatestInv'
  BY Zenon, <1>1, BackupsKept
<1>4. CallInv' /\ WholeText' /\ RollbackRestoresLatest'
  BY Zenon, <1>1 DEF WorkspaceInv, CallInv, WholeText, RollbackRestoresLatest, Candidates
<1> QED BY Zenon, <1>2, <1>3, <1>4 DEF WorkspaceInv

(* Another process. *)
LEMMA RestartKeeps ==
  ASSUME WorkspaceInv, Restart
  PROVE  WorkspaceInv'
<1>1. seqno' = 0 /\ pc' = "idle" /\ UNCHANGED <<disk, backups, now, owed, latest, inPlace>>
  BY DEF Restart
<1>2. WorkspaceTypeOK'
  BY <1>1 DEF WorkspaceInv, WorkspaceTypeOK
<1>3. NamesInv' /\ LatestInv'
  BY Zenon, <1>1, BackupsKept
<1>4. CallInv' /\ WholeText' /\ RollbackRestoresLatest'
  BY <1>1 DEF WorkspaceInv, CallInv, WholeText, RollbackRestoresLatest
<1> QED BY Zenon, <1>2, <1>3, <1>4 DEF WorkspaceInv

-----------------------------------------------------------------------------
(* The invariant, and what it says. *)

(* An empty backup directory and a workspace of whole files. *)
LEMMA InitKeeps ==
  ASSUME WorkspaceInit PROVE WorkspaceInv
<1>1. Partial \notin Contents /\ Partial # None
  BY WorkspaceAssumption DEF WorkspaceAssumption, Partial, None
<1>2. DOMAIN backups = {}
  BY DEF WorkspaceInit
<1>3. WorkspaceTypeOK
  BY DEF WorkspaceInit, WorkspaceTypeOK, Stored, Held
<1>4. NamesInv /\ LatestInv
  BY <1>2 DEF NamesInv, LatestInv
<1>5. CallInv /\ WholeText /\ RollbackRestoresLatest
  BY <1>1 DEF WorkspaceInit, CallInv, WholeText, RollbackRestoresLatest
<1> QED BY <1>3, <1>4, <1>5 DEF WorkspaceInv

(* A step that changes nothing. *)
LEMMA StutterKeeps ==
  ASSUME WorkspaceInv, UNCHANGED workspaceVars PROVE WorkspaceInv'
<1>1. WorkspaceTypeOK' /\ NamesInv' /\ CallInv' /\ WholeText'
  BY Zenon DEF workspaceVars, WorkspaceInv, WorkspaceTypeOK, NamesInv, CallInv, WholeText
<1>2. LatestInv' /\ RollbackRestoresLatest'
  BY Zenon DEF workspaceVars, WorkspaceInv, LatestInv, LastName, RollbackRestoresLatest, Candidates
<1> QED BY Zenon, <1>1, <1>2 DEF WorkspaceInv

(* Every step keeps the invariant. *)
LEMMA NextKeeps ==
  ASSUME WorkspaceInv, WorkspaceNext PROVE WorkspaceInv'
<1> None \in Contents \cup {None} /\ Contents \subseteq Contents \cup {None}
  OBVIOUS
<1>1. CASE \E f \in Files : CallRead(f) \/ CallDelete(f)
  <2>1. PICK f \in Files : CallRead(f) \/ CallDelete(f)
    BY Zenon, <1>1
  <2>2. CASE CallRead(f)
    BY Zenon, <2>2, BeginKeeps DEF CallRead
  <2>3. CASE CallDelete(f)
    BY Zenon, <2>3, BeginKeeps DEF CallDelete
  <2> QED BY Zenon, <2>1, <2>2, <2>3
<1>2. CASE \E f \in Files : Rollback(f)
  BY Zenon, <1>2, RollbackKeeps
<1>3. CASE \E f \in Files, c \in Contents : CallEdit(f, c)
  BY Zenon, <1>3, BeginKeeps DEF CallEdit
<1>4. CASE \E f \in Files, c \in Contents \cup {None} : CallShell(f, c)
  BY Zenon, <1>4, ShellKeeps
<1>5. CASE \E f \in Files, c \in Contents, md \in {"overwrite", "append", "create"} :
             CallWrite(f, md, c)
  <2>1. PICK f \in Files, c \in Contents, md \in {"overwrite", "append", "create"} :
          CallWrite(f, md, c)
    BY Zenon, <1>5
  <2>2. PICK p \in {"backup", "append", "write"} : Begin("write_file", f, md, c, p)
    BY <2>1 DEF CallWrite
  <2> QED BY Zenon, <2>2, BeginKeeps
<1>6. CASE TakeBackup
  BY Zenon, <1>6, TakeBackupKeeps
<1>7. CASE WriteTmp \/ Rename \/ AppendTo \/ Remove \/ Return \/ RollbackCopied
  BY Zenon, <1>7, FileStepKeeps
<1>8. CASE Tick
  BY Zenon, <1>8, TickKeeps
<1>9. CASE Restart
  BY Zenon, <1>9, RestartKeeps
<1> QED BY Zenon, <1>1, <1>2, <1>3, <1>4, <1>5, <1>6, <1>7, <1>8, <1>9 DEF WorkspaceNext

(* The invariant holds of the file tools and the sandbox, whatever fails,  *)
(* wherever a process dies and whenever the next one starts.               *)
THEOREM WorkspaceInvariant == WorkspaceSpec => []WorkspaceInv
<1>1. WorkspaceInv /\ [WorkspaceNext]_workspaceVars => WorkspaceInv'
  BY Zenon, NextKeeps, StutterKeeps
<1> QED BY <1>1, InitKeeps, PTL DEF WorkspaceSpec

(* write_entire_file's temporary file and rename: no failure and no death  *)
(* of the process leaves part of a text in a file that was neither         *)
(* appended to nor rolled back.                                            *)
THEOREM AlwaysWholeText == WorkspaceSpec => []WholeText
<1>1. WorkspaceInv => WholeText
  BY Zenon DEF WorkspaceInv
<1> QED BY <1>1, WorkspaceInvariant, PTL

(* sandbox_rollback restores the most recent backup when the candidates    *)
(* are the file's own and of different seconds, also when backups have     *)
(* overwritten each other.                                                 *)
THEOREM RollbackAlwaysLatest == WorkspaceSpec => []RollbackRestoresLatest
<1>1. WorkspaceInv => RollbackRestoresLatest
  BY Zenon DEF WorkspaceInv
<1> QED BY <1>1, WorkspaceInvariant, PTL

-----------------------------------------------------------------------------
(* The name that sandbox_backup gives next is not taken: a backup of this  *)
(* second has a lower number.                                              *)
FreshInv == \A n \in DOMAIN backups : n[3] = now => n[2] < seqno

VersionsInv == FreshInv /\ VersionsKept

(* A backup saves a version and overwrites none. *)
LEMMA BackupSaves ==
  ASSUME WorkspaceInv, VersionsInv, TakeBackup
  PROVE  VersionsInv'
<1> DEFINE f == op.file
           name == BackupName(f)
<1>1. /\ f \in Files /\ op.old = disk[f] /\ seqno' = seqno + 1 /\ now' = now /\ seqno \in Nat
  BY DEF TakeBackup, WorkspaceInv, WorkspaceTypeOK, CallInv
<1>2. name[1] = BaseOf[f] /\ name[2] = seqno /\ name[3] = now
  BY DEF BackupName
<1>3. CASE UNCHANGED <<backups, owed>>
  <2>1. FreshInv'
    BY <1>1, <1>3 DEF VersionsInv, FreshInv, WorkspaceInv, NamesInv
  <2> QED BY Zenon, <1>3, <2>1 DEF VersionsInv, VersionsKept
<1>4. ASSUME NEW c, Copy(f, name, c),
             \/ owed' = owed
             \/ owed' = owed \cup {[file |-> f, content |-> op.old]} /\ c = disk[f]
      PROVE  VersionsInv'
  <2>1. /\ name \in DOMAIN backups' /\ \A n \in DOMAIN backups' : n = name \/ n \in DOMAIN backups
        /\ backups'[name].of = f /\ backups'[name].content = c
        /\ \A n \in DOMAIN backups : n \in DOMAIN backups' /\ (n # name => backups'[n] = backups[n])
    BY <1>4 DEF Copy
  <2> HIDE DEF name
  <2>2. \A n \in DOMAIN backups : n # name
    BY <1>1, <1>2 DEF VersionsInv, FreshInv
  <2>3. FreshInv'
    BY <1>1, <1>2, <2>1 DEF VersionsInv, FreshInv, WorkspaceInv, NamesInv
  <2>4. ASSUME NEW v \in owed'
        PROVE  \E n \in DOMAIN backups' : n[1] = BaseOf[v.file] /\ backups'[n].of = v.file
                                          /\ backups'[n].content = v.content
    <3>1. CASE v \in owed
      <4>1. PICK n \in DOMAIN backups : n[1] = BaseOf[v.file] /\ backups[n].of = v.file
                                        /\ backups[n].content = v.content
        BY Zenon, <3>1 DEF VersionsInv, VersionsKept
      <4> QED BY Zenon, <2>1, <2>2, <4>1
    <3>2. CASE v \notin owed
      <4>1. v.file = f /\ v.content = c
        BY <1>1, <1>4, <3>2
      <4> QED BY Zenon, <1>2, <2>1, <4>1
    <3> QED BY Zenon, <3>1, <3>2
  <2> QED BY Zenon, <2>3, <2>4 DEF VersionsInv, VersionsKept
<1> QED BY Zenon, <1>3, <1>4 DEF TakeBackup

(* Every other step leaves the backup directory alone. *)
LEMMA VersionsStep ==
  ASSUME SameSecond = FALSE, WorkspaceInv, VersionsInv, [WorkspaceNext]_workspaceVars
  PROVE  VersionsInv'
<1>1. CASE UNCHANGED <<backups, owed, seqno, now>>
  BY Zenon, <1>1 DEF VersionsInv, FreshInv, VersionsKept
<1>2. CASE Tick
  <2>1. now' = now + 1 /\ backups' = backups /\ owed' = owed
    BY <1>2 DEF Tick, store
  <2>2. FreshInv'
    BY <2>1 DEF FreshInv, WorkspaceInv, WorkspaceTypeOK, NamesInv
  <2> QED BY Zenon, <2>1, <2>2 DEF VersionsInv, VersionsKept
<1>3. CASE Restart
  <2>1. (\A n \in DOMAIN backups : n[3] < now) /\ now' = now /\ backups' = backups /\ owed' = owed
    BY <1>3 DEF Restart
  <2>2. FreshInv'
    BY <2>1 DEF FreshInv, WorkspaceInv, WorkspaceTypeOK, NamesInv
  <2> QED BY Zenon, <2>1, <2>2 DEF VersionsInv, VersionsKept
<1>4. CASE TakeBackup
  BY Zenon, <1>4, BackupSaves
<1>5. CASE WriteTmp \/ Rename \/ AppendTo \/ Remove \/ Return \/ RollbackCopied
  BY Zenon, <1>1, <1>5 DEF WriteTmp, Rename, AppendTo, Remove, Return, RollbackCopied, store
<1>6. CASE UNCHANGED workspaceVars
  BY Zenon, <1>1, <1>6 DEF workspaceVars
<1>7. ASSUME NEW f \in Files,
             CallRead(f) \/ CallDelete(f) \/ Rollback(f)
               \/ \E c \in Contents \cup {None} : CallEdit(f, c) \/ CallShell(f, c)
                    \/ \E md \in {"overwrite", "append", "create"} : CallWrite(f, md, c)
      PROVE  VersionsInv'
  BY Zenon, <1>1, <1>7 DEF CallRead, CallDelete, Rollback, CallEdit, CallShell, CallWrite,
                           Begin, store
<1> QED BY Zenon, <1>2, <1>3, <1>4, <1>5, <1>6, <1>7 DEF WorkspaceNext

(* sandbox_backup never gives a backup the name of another: a version it   *)
(* saved stays, whatever files share a base name and however many          *)
(* processes run, if none starts in the second of its predecessor's last   *)
(* backup (a name is base name, count and second, and the count restarts). *)
THEOREM VersionsAlwaysKept ==
  ASSUME SameSecond = FALSE PROVE WorkspaceSpec => []VersionsKept
<1>1. WorkspaceInit => VersionsInv
  BY DEF WorkspaceInit, VersionsInv, FreshInv, VersionsKept
<1>2. WorkspaceInv /\ VersionsInv /\ [WorkspaceNext]_workspaceVars => VersionsInv'
  BY Zenon, VersionsStep
<1>3. VersionsInv => VersionsKept
  BY Zenon DEF VersionsInv
<1> QED BY <1>1, <1>2, <1>3, WorkspaceInvariant, PTL DEF WorkspaceSpec
=============================================================================
