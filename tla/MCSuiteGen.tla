----------------------------- MODULE MCSuiteGen -----------------------------
(* Three tests listed by the suite, one excluded by its config and one     *)
(* only in the history; runtimes that fit together, that do not, that sit *)
(* on a whole minute and one longer than the 10-minute target.            *)
EXTENDS SuiteGen

CONSTANTS a, b, c, x, z, tk, X, Y, v

MCTestOrder == <<a, b, c>>
MCSourceExcludes == {x}
MCStaleTests == {z}
MCRuntimes == {0, 300, 330, 700}

(* This task tk depends on task X.  The build holds X's sub-suites and     *)
(* _misc, X's own _gen task, the tasks of a family X_Y whose name starts   *)
(* with X, and the tasks of an unrelated Y.                                *)
MCTaskName == <<tk, "gen">>
MCDependsOn == <<<<X>>>>
MCBuildTasks ==
    {<<"compile">>, <<X, "gen">>, <<X, "0", v>>, <<X, "1", v>>, <<X, "misc", v>>,
     <<X, Y, "gen">>, <<X, Y, "0", v>>, <<X, Y, "misc", v>>, <<Y, "0", v>>}

(* resmoke_args: an option of no interest and the --repeat alias; a       *)
(* --repeatTests count; a --repeatSuites count larger than the 3 the      *)
(* timeouts allow for.                                                     *)
MCResmokeArgs == <<[opt |-> "--storageEngine", val |-> 0], [opt |-> "--repeat", val |-> 3]>>
MCResmokeArgsRepeatTests == <<[opt |-> "--repeatTests", val |-> 2]>>
MCResmokeArgsRepeatSuites == <<[opt |-> "--repeatSuites", val |-> 4]>>
=============================================================================
