--------------------------- MODULE GenTaskRestarts ---------------------------
(***************************************************************************)
(* The Evergreen _gen task that runs evergreen_generate_resmoke_tasks.py,  *)
(* over its executions.  One execution runs the script (GenerateSubSuites  *)
(* .run, modelled in detail by module SuiteGen and here only by whether it *)
(* writes configuration files or raises), then Evergreen's generate.tasks  *)
(* command, then the rest of the task, which may fail or time out.  A     *)
(* finished execution may be restarted, successful or not.                *)
(*                                                                         *)
(* Evergreen is not code of this repository.  Its generate.tasks is        *)
(* modelled from the docstring of should_tasks_be_generated: on a          *)
(* restarted task it has no effect, taken here in its weakest form, once   *)
(* tasks have already been generated for the task.                        *)
(***************************************************************************)
EXTENDS Integers, Sequences

CONSTANT MaxExecutions   \* executions Evergreen runs (the first and restarts)

VARIABLES
    execs,       \* execs[e + 1]: status of execution e: "running", "success", "failed"
    step,        \* where the current execution is: "run", "generate", "rest"
    written,     \* executions whose script wrote configuration files
    applied_by   \* the execution whose generate.tasks created the tasks, or -1

vars == <<execs, step, written, applied_by>>

\* task.execution: the number of the current execution.
Current == Len(execs) - 1

\* should_tasks_be_generated: the loop over executions 0 .. execution - 1
\* returns False at the first successful one.
ShouldTasksBeGenerated(ex, execution) ==
    \A i \in 0..(execution - 1) : ex[i + 1] # "success"

Init ==
    /\ execs = <<"running">>
    /\ step = "run"
    /\ written = {}
    /\ applied_by = -1

\* GenerateSubSuites.run: return early if an earlier execution succeeded;
\* otherwise either write the configuration files (write_file_dict) or
\* raise (an HTTP error other than 503), which fails the execution.
Run ==
    /\ step = "run"
    /\ IF ShouldTasksBeGenerated(execs, Current)
       THEN \/ /\ written' = written \cup {Current}
               /\ step' = "generate" /\ UNCHANGED execs
            \/ /\ execs' = [execs EXCEPT ![Current + 1] = "failed"]
               /\ UNCHANGED <<step, written>>
       ELSE step' = "generate" /\ UNCHANGED <<execs, written>>
    /\ UNCHANGED applied_by

\* generate.tasks: creates the tasks from this execution's files unless
\* tasks were already generated for the task; a no-op otherwise.
GenerateTasks ==
    /\ step = "generate" /\ execs[Current + 1] = "running"
    /\ applied_by' =
         IF Current \in written /\ applied_by = -1 THEN Current ELSE applied_by
    /\ step' = "rest"
    /\ UNCHANGED <<execs, written>>

\* The execution ends: the commands after generate.tasks succeed or fail,
\* or the execution fails or times out before reaching generate.tasks.
Finish ==
    /\ execs[Current + 1] = "running" /\ step # "run"
    /\ \E ok \in BOOLEAN :
          execs' = [execs EXCEPT ![Current + 1] =
                      IF ok /\ step = "rest" THEN "success" ELSE "failed"]
    /\ UNCHANGED <<step, written, applied_by>>

\* A user restarts the finished task: a new execution begins.
Restart ==
    /\ execs[Current + 1] # "running" /\ Len(execs) < MaxExecutions
    /\ execs' = Append(execs, "running")
    /\ step' = "run"
    /\ UNCHANGED <<written, applied_by>>

Next == Run \/ GenerateTasks \/ Finish \/ Restart

Spec == Init /\ [][Next]_vars
-----------------------------------------------------------------------------
\* should_tasks_be_generated, docstring: on a restarted task generate.tasks
\* no-ops, so configuration files written then "will just be confusing to
\* the user (since that would not be used)".  No execution writes files
\* after tasks have been generated for the task.
WrittenFilesAreUsed ==
    \A e \in written : applied_by = -1 \/ e <= applied_by
=============================================================================
