------------------------------ MODULE SuiteGen ------------------------------
(***************************************************************************)
(* GenerateSubSuites.run of buildscripts/evergreen_generate_resmoke_tasks.py *)
(* for one resmoke suite: decide whether to generate at all, ask Evergreen *)
(* for the test history, split the tests into sub-suites                   *)
(* (divide_tests_into_suites, one action per loop iteration, or           *)
(* calculate_fallback_suites), then render one resmoke config per         *)
(* sub-suite, the _misc config and one Evergreen task per config.          *)
(*                                                                         *)
(* Tests are model values; runtimes are whole seconds.  A rendered config  *)
(* is abstracted to the set of tests resmoke runs from it (its selector    *)
(* roots minus its exclude_files), a task to that set and its timeouts.    *)
(***************************************************************************)
EXTENDS Naturals, Sequences, SequencesExt, FiniteSets, TLC, ResmokeParser

CONSTANTS
    TestOrder,         \* list_tests(): the suite's tests, in order
    SourceExcludes,    \* the source config's selector.exclude_files
    StaleTests,        \* tests in the history that no longer exist on disk
    Runtimes,          \* average runtimes the history may report (seconds)
    TargetResmokeTime, \* config target_resmoke_time (minutes)
    MaxSubSuites,      \* config max_sub_suites, 0 for None
    MaxTestsPerSuite,  \* config max_tests_per_suite, 0 for None
    FallbackNumSubSuites, \* config fallback_num_sub_suites
    RepeatSuites,      \* config resmoke_repeat_suites
    UseDefaultTimeouts, \* config use_default_timeouts
    TaskName,          \* config task_name, as its "_"-separated parts
    PriorExecutions,   \* bound on the earlier executions of this task
    Variant,           \* config build_variant
    DependsOn,         \* config depends_on split on ",", <<>> for None
    IsPatch,           \* config is_patch
    BuildTasks,        \* display names of the tasks of this build
    ResmokeArgs,       \* config resmoke_args: its options, [opt, val], in order
    SuiteMentionsRepeat \* whether the suite's name contains "repeat"

AllTests == ToSet(TestOrder)
\* The source config's roots select the suite's tests and the excluded ones.
SourceRoots == AllTests \cup SourceExcludes
\* Tests the history may name: the suite's, ones its config now excludes
\* (still on disk) and deleted ones.
HistTests == SourceRoots \cup StaleTests

ASSUME /\ AllTests \cap (SourceExcludes \cup StaleTests) = {}
       /\ FallbackNumSubSuites \in Nat
       /\ MaxSubSuites \in Nat /\ MaxTestsPerSuite \in Nat

MIN_TIMEOUT_SECONDS == 300

VARIABLES
    phase,          \* where run() is
    tests_runtimes, \* the filtered history divide_tests_into_suites splits
    idx,            \* divide_tests_into_suites: next position in it
    last,           \* last_test_processed, as the 1-based position
    current,        \* current_suite
    suites,         \* the list of Suite objects
    current_index,  \* the class attribute Suite._current_index
    test_list,      \* self.test_list
    tasks           \* the generated tasks, sub-suites then _misc

vars == <<phase, tests_runtimes, idx, last, current, suites, current_index,
          test_list, tasks>>

\* Mutant: self.index not taken from the class counter.
NewSuiteIndexZero(i) == [index |-> 0, tests |-> <<>>, total |-> 0, max |-> 0, with_info |-> 0]

\* Suite.__init__: takes the next class-wide index.
NewSuite(i) == [index |-> i, tests |-> <<>>, total |-> 0, max |-> 0, with_info |-> 0]

\* Suite.add_test.
AddTest(s, t, rt) ==
    [s EXCEPT !.tests = Append(@, t), !.total = @ + rt,
              !.with_info = IF rt # 0 THEN @ + 1 ELSE @,
              !.max = IF rt > @ THEN rt ELSE @]

\* Suite.should_overwrite_timeout: runtime info for every test.
ShouldOverwriteTimeout(s) == Len(s.tests) = s.with_info

\* Mutant: the test-count limit compared with > instead of + 1 >.
NewSuiteNeededOffByOne(s, rt) ==
    \/ s.total + rt > TargetResmokeTime * 60
    \/ MaxTestsPerSuite # 0 /\ Len(s.tests) > MaxTestsPerSuite

\* _new_suite_needed.
NewSuiteNeeded(s, rt) ==
    \/ s.total + rt > TargetResmokeTime * 60
    \/ MaxTestsPerSuite # 0 /\ Len(s.tests) + 1 > MaxTestsPerSuite

\* divide_remaining_tests_among_suites: round robin from the first suite.
RECURSIVE DivideRemaining(_, _, _)
DivideRemaining(rem, ss, i) ==
    IF rem = <<>> THEN ss
    ELSE DivideRemaining(Tail(rem),
                         [ss EXCEPT ![i] = AddTest(@, Head(rem).test, Head(rem).runtime)],
                         IF i + 1 > Len(ss) THEN 1 ELSE i + 1)

\* calculate_fallback_suites: FallbackNumSubSuites new suites, test i of
\* list_tests() to suite i % n with runtime 0.
FallbackSuites(ci) ==
    LET n == FallbackNumSubSuites
        L == Len(TestOrder)
        Count(j) == IF j > L THEN 0 ELSE (L - j) \div n + 1
    IN  [j \in 1..n |->
            [NewSuite(ci + j - 1) EXCEPT
                !.tests = [k \in 1..Count(j) |-> TestOrder[(k - 1) * n + j]]]]

\* Mutant: only the os.path.exists test.
FilterExistingTestsOnDiskOnly(h) == SelectSeq(h, LAMBDA e : e.test \in SourceRoots)

\* filter_existing_tests: keep the history entries of tests that exist
\* and are listed by the suite.
FilterExistingTests(h) ==
    SelectSeq(h, LAMBDA e : e.test \in SourceRoots /\ e.test \in AllTests)

\* What get_tests_runtimes may return: distinct tests in any order, each
\* with a runtime.  Entries the filter drops carry one runtime only.
RuntimeChoices(t) == IF t \in AllTests THEN Runtimes ELSE {0}
Histories ==
    UNION {{[i \in DOMAIN p |-> [test |-> p[i], runtime |-> rt[i]]] :
               rt \in {r \in [DOMAIN p -> Runtimes] :
                         \A i \in DOMAIN p : r[i] \in RuntimeChoices(p[i])}} :
           p \in SetToAllKPermutations(HistTests)}

\* calculate_timeout and its round_to_minute, for whole seconds.
RoundToMinute(runtime) == runtime + (60 - (runtime % 60))
CalculateTimeout(avg_runtime, scaling_factor) ==
    Max({MIN_TIMEOUT_SECONDS, RoundToMinute(avg_runtime)}) * scaling_factor

\* EvergreenConfigGenerator._get_timeout_command, with 0 for None; the
\* arguments are None unless should_overwrite_timeout (_generate_all_tasks).
DefaultTimeout == [kind |-> "default", timeout |-> 0, exec_timeout |-> 0]
GetTimeoutCommand(max_test_runtime, expected_suite_runtime) ==
    IF (max_test_runtime # 0 \/ expected_suite_runtime # 0) /\ ~UseDefaultTimeouts
    THEN [kind         |-> "overridden",
          timeout      |-> IF max_test_runtime # 0
                           THEN CalculateTimeout(max_test_runtime, 3) * RepeatSuites
                           ELSE 0,
          exec_timeout |-> IF expected_suite_runtime # 0
                           THEN CalculateTimeout(expected_suite_runtime, 3) * RepeatSuites
                           ELSE 0]
    ELSE DefaultTimeout

\* update_suite_config, as the tests resmoke runs from the result: a falsy
\* roots list keeps the source roots; excludes, when given, extend the
\* source's exclude_files, and when not given exclude_files is deleted.
UpdateSuiteConfig(roots, excludes) ==
    (IF roots # <<>> THEN ToSet(roots) ELSE SourceRoots)
      \ (IF excludes # <<>> THEN SourceExcludes \cup ToSet(excludes) ELSE {})

(* Task names are written as the sequence of their "_"-separated parts; a *)
(* part is a model value or a string, and a part that starts with a digit *)
(* is written as a numeral.                                                *)
Numerals == {ToString(n) : n \in 0..99}

\* remove_gen_suffix, giving ConfigOptions.task.
RemoveGenSuffix(name) ==
    IF name # <<>> /\ Last(name) = "gen" THEN Front(name) ELSE name
Task == RemoveGenSuffix(TaskName)

\* Suite.name: name_generated_task(source_name, self.index,
\* Suite._current_index), the total read from the class counter when the
\* name is asked for.
SuiteName(s) == <<"suite", s.index, current_index>>
MiscName == <<"suite_misc">>

\* render_suite_files: one config per suite under the file name of
\* suite.name (a later suite of the same name overwrites an earlier one),
\* and the _misc config excluding test_list.
RenderSuiteFiles(ss, tl) ==
    LET names     == {SuiteName(ss[i]) : i \in DOMAIN ss}
        LastOf(n) == Max({i \in DOMAIN ss : SuiteName(ss[i]) = n})
    IN  (MiscName :> UpdateSuiteConfig(<<>>, tl))
          @@ [n \in names |-> UpdateSuiteConfig(ss[LastOf(n)].tests, <<>>)]

\* Mutant: the regular expression without the "_(\d|misc)" that follows.
IsTaskDependencyPrefixOnly(task, possible) ==
    Len(possible) >= Len(task) /\ SubSeq(possible, 1, Len(task)) = task

\* _is_task_dependency: re.match("{task}_(\d|misc)", possible), a match
\* at the start of the name.
IsTaskDependency(task, possible) ==
    /\ Len(possible) > Len(task)
    /\ SubSeq(possible, 1, Len(task)) = task
    /\ possible[Len(task) + 1] \in Numerals \cup {"misc"}

\* _add_dependencies: compile, and outside patch builds every task of the
\* build that _get_tasks_for_depends_on picks for a depends_on entry.
AddDependencies ==
    {<<"compile">>}
      \cup IF IsPatch THEN {}
           ELSE {b \in BuildTasks : \E i \in DOMAIN DependsOn :
                                      IsTaskDependency(DependsOn[i], b)}

\* `w in s` for Python strings.
HasSubstring(s, w) ==
    \E i \in 0..(Len(s) - Len(w)) : SubSeq(s, i + 1, i + Len(w)) = w

\* string_contains_any_of_args over the string _generate_resmoke_args
\* builds.  A word is in the string if it is in the suite's name (the
\* values of --suite and --originSuite) or in an option's name.
StringContainsAnyOfArgs(args, words) ==
    \E w \in words :
        \/ SuiteMentionsRepeat /\ HasSubstring("repeat", w)
        \/ \E i \in DOMAIN args : HasSubstring(args[i].opt, w)

\* "--suite={suite_file}.yml --originSuite={suite} {resmoke_args}".
SuiteArgs(suite_file) ==
    <<[opt |-> "--suite", val |-> suite_file], [opt |-> "--originSuite", val |-> Task]>>
      \o ResmokeArgs

\* Mutant: resmoke_args is not searched for repeat options.
GenerateResmokeArgsUnchecked(suite_file) ==
    SuiteArgs(suite_file)
      \o IF RepeatSuites # 0 THEN <<[opt |-> "--repeatSuites", val |-> RepeatSuites]>>
         ELSE <<>>

\* _generate_resmoke_args: the suite options and resmoke_args, then
\* --repeatSuites=<repeat_suites> unless repeat_suites is 0 or the string
\* already says "repeatSuites" or "repeat".
GenerateResmokeArgs(suite_file) ==
    SuiteArgs(suite_file)
      \o IF RepeatSuites # 0
            /\ ~StringContainsAnyOfArgs(SuiteArgs(suite_file), {"repeatSuites", "repeat"})
         THEN <<[opt |-> "--repeatSuites", val |-> RepeatSuites]>>
         ELSE <<>>

\* resmoke's parser: the options that store dest repeat_suites (--repeat
\* and --repeatSuites), the last occurrence winning; unset (None), the
\* suite runs once.
RepeatSuitesOptions == {o \in DOMAIN RunOptions : RunOptions[o] = "repeat_suites"}
ParsedRepeatSuites(args) ==
    LET ns == Parse("run", args).ns
    IN  IF "repeat_suites" \in DOMAIN ns THEN ns["repeat_suites"] ELSE 1

\* _generate_task for the i-th suite (_generate_all_tasks): it runs the
\* config file named by suite.name; timeouts only when every test of the
\* suite has runtime information.
SuiteTask(files, s, i) ==
    [name     |-> Task \o <<ToString(i - 1), Variant>>,
     runs     |-> files[SuiteName(s)],
     timeouts |-> IF ShouldOverwriteTimeout(s) THEN GetTimeoutCommand(s.max, s.total)
                  ELSE DefaultTimeout,
     deps     |-> AddDependencies,
     file     |-> SuiteName(s),
     args     |-> GenerateResmokeArgs(SuiteName(s))]

\* The _misc task.
MiscTask(files) ==
    [name |-> Task \o <<"misc", Variant>>, runs |-> files[MiscName],
     timeouts |-> DefaultTimeout, deps |-> AddDependencies,
     file |-> MiscName, args |-> GenerateResmokeArgs(MiscName)]

-----------------------------------------------------------------------------
Init ==
    /\ phase = "start"
    /\ tests_runtimes = <<>>
    /\ idx = 1
    /\ last = 0
    /\ current = NewSuite(0)
    /\ suites = <<>>
    /\ current_index = 0
    /\ test_list = <<>>
    /\ tasks = <<>>

\* should_tasks_be_generated: whether executions 0 .. task.execution - 1
\* of this task (TRUE for a success) all failed.
ShouldTasksBeGenerated(executions) == \A i \in DOMAIN executions : ~executions[i]

\* run() begins with should_tasks_be_generated: if an earlier execution of
\* this task succeeded, nothing is generated.
Start ==
    /\ phase = "start"
    /\ \E executions \in UNION {[1..n -> BOOLEAN] : n \in 0..PriorExecutions} :
          phase' = IF ShouldTasksBeGenerated(executions) THEN "calc" ELSE "skipped"
    /\ UNCHANGED <<tests_runtimes, idx, last, current, suites, current_index,
                   test_list, tasks>>

\* calculate_fallback_suites: with fallback_num_sub_suites = 0 no Suite is
\* made and `suites[idx % num_suites]` raises ZeroDivisionError on the
\* first test, which escapes run().
UseFallback ==
    /\ test_list' = TestOrder
    /\ IF FallbackNumSubSuites = 0 /\ TestOrder # <<>>
       THEN /\ phase' = "exception"
            /\ UNCHANGED <<suites, current_index>>
       ELSE /\ suites' = FallbackSuites(current_index)
            /\ current_index' = current_index + FallbackNumSubSuites
            /\ phase' = "render"
    /\ UNCHANGED <<tests_runtimes, idx, last, current, tasks>>

\* calculate_suites: a 503 or an empty history falls back, any other HTTP
\* error escapes run(); a history is filtered and, if anything is left,
\* split by divide_tests_into_suites (its set-up is done here).
Calculate ==
    /\ phase = "calc"
    /\ \/ UseFallback
       \/ /\ phase' = "error"
          /\ UNCHANGED <<tests_runtimes, idx, last, current, suites,
                         current_index, test_list, tasks>>
       \/ \E h \in Histories :
             LET f == FilterExistingTests(h) IN
             IF f = <<>> THEN UseFallback
             ELSE /\ tests_runtimes' = f
                  /\ test_list' = [i \in DOMAIN f |-> f[i].test]
                  /\ suites' = <<>>
                  /\ current' = NewSuite(current_index)
                  /\ current_index' = current_index + 1
                  /\ idx' = 1
                  /\ last' = Len(f) + 1
                  /\ phase' = "split"
                  /\ UNCHANGED tasks

\* Mutant: the cap tested with > instead of >=.
MaxSuitesReachedLate(n) == MaxSubSuites # 0 /\ n > MaxSubSuites

\* `max_suites and len(suites) >= max_suites`.
MaxSuitesReached(n) == MaxSubSuites # 0 /\ n >= MaxSubSuites

\* Mutant: the remainder sliced from one past last_test_processed.
RemainderFromNext(trs, l) == SubSeq(trs, l + 1, Len(trs))

\* tests_runtimes[last_test_processed:].
Remainder(trs, l) == SubSeq(trs, l, Len(trs))

\* One iteration of the for loop of divide_tests_into_suites.  When a new
\* suite is needed and the current one is not empty, it is closed and a
\* new Suite taken; if that reaches max_suites the loop breaks, the new
\* Suite is dropped unused and the test is left for the remainder.
SplitStep ==
    /\ phase = "split" /\ idx <= Len(tests_runtimes)
    /\ LET e == tests_runtimes[idx] IN
       IF NewSuiteNeeded(current, e.runtime) /\ Len(current.tests) > 0
       THEN /\ suites' = Append(suites, current)
            /\ current_index' = current_index + 1
            /\ IF MaxSuitesReached(Len(suites) + 1)
               THEN /\ current' = NewSuite(current_index)
                    /\ last' = idx
                    /\ phase' = "remaining"
                    /\ UNCHANGED idx
               ELSE /\ current' = AddTest(NewSuite(current_index), e.test, e.runtime)
                    /\ idx' = idx + 1
                    /\ UNCHANGED <<last, phase>>
       ELSE /\ current' = AddTest(current, e.test, e.runtime)
            /\ idx' = idx + 1
            /\ UNCHANGED <<suites, current_index, last, phase>>
    /\ UNCHANGED <<tests_runtimes, test_list, tasks>>

\* After the loop: a non-empty current suite is kept, and if max_suites cut
\* the loop short the rest is dealt round robin to the suites.
SplitFinish ==
    /\ \/ phase = "split" /\ idx > Len(tests_runtimes)
       \/ phase = "remaining"
    /\ LET ss == IF Len(current.tests) > 0 THEN Append(suites, current) ELSE suites
       IN  suites' =
             IF MaxSubSuites # 0 /\ last <= Len(tests_runtimes)
             THEN DivideRemaining(Remainder(tests_runtimes, last), ss, 1)
             ELSE ss
    /\ phase' = "render"
    /\ UNCHANGED <<tests_runtimes, idx, last, current, current_index, test_list, tasks>>

\* render_suite_files and render_evergreen_config: a config and a task for
\* every suite, then the _misc config excluding test_list and its task;
\* write_file_dict writes them all.
Render ==
    /\ phase = "render"
    /\ LET files == RenderSuiteFiles(suites, test_list)
       IN  tasks' = [i \in DOMAIN suites |-> SuiteTask(files, suites[i], i)]
                      \o <<MiscTask(files)>>
    /\ phase' = "done"
    /\ UNCHANGED <<tests_runtimes, idx, last, current, suites, current_index, test_list>>

Next == Start \/ Calculate \/ SplitStep \/ SplitFinish \/ Render

Spec == Init /\ [][Next]_vars

-----------------------------------------------------------------------------
Phases == {"start", "calc", "split", "remaining", "render", "done",
           "skipped", "error", "exception"}

IsSuite(s) ==
    /\ ToSet(s.tests) \subseteq AllTests
    /\ s.with_info \in 0..Len(s.tests)
    /\ s.max \in Runtimes \cup {0}
    /\ s.total \in Nat

TypeOK ==
    /\ phase \in Phases
    /\ idx \in 1..(Len(tests_runtimes) + 1)
    /\ last \in 0..(Len(tests_runtimes) + 1)
    /\ IsSuite(current)
    /\ \A i \in DOMAIN suites : IsSuite(suites[i])
    /\ current_index \in Nat
    /\ ToSet(test_list) \subseteq AllTests
    /\ \A i \in DOMAIN tasks : tasks[i].timeouts.kind \in {"default", "overridden"}

\* The number of generated tasks that run test t.
RunCount(t) == Cardinality({i \in DOMAIN tasks : t \in tasks[i].runs})

\* After run() has written its files, every test of the suite is run by
\* exactly one generated task (a sub-suite or _misc), and no task runs a
\* test the source suite excludes or that no longer exists: the split,
\* the round-robin remainder after max_sub_suites and the _misc excludes
\* (self.test_list) together cover the suite once.
EveryTestRunsOnce ==
    phase = "done" =>
        \A t \in SourceRoots \cup StaleTests :
            RunCount(t) = IF t \in AllTests THEN 1 ELSE 0

\* divide_tests_into_suites, docstring: unless max_suites was reached, a
\* suite fits in the target time or holds a single (long) test, and it
\* holds at most max_tests_per_suite tests.
SplitWithinLimits ==
    phase = "done" /\ tests_runtimes # <<>> /\ last > Len(tests_runtimes) =>
        \A i \in DOMAIN suites :
            /\ suites[i].total <= TargetResmokeTime * 60 \/ Len(suites[i].tests) = 1
            /\ MaxTestsPerSuite # 0 => Len(suites[i].tests) <= MaxTestsPerSuite

\* A split by history never makes more than max_sub_suites sub-suites,
\* whatever the runtimes: the loop breaks on reaching the cap and the
\* suite closed after the loop cannot exceed it.
SuiteCountCapped ==
    phase = "done" /\ tests_runtimes # <<>> /\ MaxSubSuites # 0 =>
        Len(suites) <= MaxSubSuites

\* The name of a task generated for task d in this build variant: one of
\* its sub-suites (d_<index>_<variant>) or its _misc task.
IsGeneratedFor(d, b) ==
    \/ b = d \o <<"misc", Variant>>
    \/ /\ Len(b) = Len(d) + 2 /\ SubSeq(b, 1, Len(d)) = d
       /\ b[Len(d) + 1] \in Numerals /\ b[Len(b)] = Variant

\* _add_dependencies: in a mainline build every generated task (sub-suites
\* and _misc) waits for compile and for exactly the tasks generated for
\* each depends_on entry, not for that entry's _gen task nor for another
\* task family whose name only starts with the entry; in a patch build it
\* waits for compile alone.
DependsOnGenerated ==
    phase = "done" =>
        \A i \in DOMAIN tasks :
            tasks[i].deps =
                {<<"compile">>}
                  \cup {b \in BuildTasks : ~IsPatch /\ \E j \in DOMAIN DependsOn :
                                             IsGeneratedFor(DependsOn[j], b)}

\* _generate_resmoke_args: every generated task runs its suite
\* resmoke_repeat_suites times, unless the task's resmoke_args already
\* give a suite repeat count (--repeatSuites or its alias --repeat), which
\* then stands: the appended option neither overrides nor is dropped.
SuiteRepeatsAsConfigured ==
    phase = "done" =>
        \A i \in DOMAIN tasks :
            ParsedRepeatSuites(tasks[i].args) =
                IF \E j \in DOMAIN ResmokeArgs :
                       Resolve(OptionsOf("run"), ResmokeArgs[j].opt) \in RepeatSuitesOptions
                THEN ParsedRepeatSuites(ResmokeArgs)
                ELSE RepeatSuites

\* The generated task runs resmoke.py run with _generate_resmoke_args, in
\* an Evergreen task.  The --suite it passes is not an option of the run
\* parser: argparse reads it as the abbreviation of --suites, and only
\* while no other option starts with --suite (the comment above
\* --originSuite).  Every generated task's command line parses, and
\* resmoke runs the config file generated for the task and reports the
\* suite it was split from.
EmittedOptionsResolve ==
    phase = "done" =>
        \A i \in DOMAIN tasks :
            LET p == ParseCommandLine("run", tasks[i].args, TRUE)
            IN  /\ p.obj = "TestRunnerEvg"
                /\ p.ns["suite_files"] = tasks[i].file
                /\ p.ns["origin_suite"] = Task

\* round_to_minute's docstring: "Round the given seconds up to the nearest
\* minute."  A sub-suite task's timeout is its longest test's runtime
\* rounded up to a whole minute, at least MIN_TIMEOUT_SECONDS, times the
\* factor 3 and repeat_suites (calculate_timeout in _get_timeout_command).
CeilMinute(runtime) == ((runtime + 59) \div 60) * 60
TimeoutRoundedUp ==
    phase = "done" =>
        \A i \in DOMAIN suites :
            tasks[i].timeouts.kind = "overridden" /\ suites[i].max # 0 =>
                tasks[i].timeouts.timeout =
                    Max({MIN_TIMEOUT_SECONDS, CeilMinute(suites[i].max)}) * 3 * RepeatSuites

\* _get_timeout_command scales the timeouts by repeat_suites so that the
\* repeated runs fit: a sub-suite task's exec_timeout is at least its
\* expected runtime times the number of times resmoke runs the suite.
TimeoutCoversRepeats ==
    phase = "done" =>
        \A i \in DOMAIN suites :
            tasks[i].timeouts.exec_timeout # 0 =>
                tasks[i].timeouts.exec_timeout >=
                    suites[i].total * ParsedRepeatSuites(tasks[i].args)
=============================================================================
