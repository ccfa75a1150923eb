# TLA+ models of the lock-introspection and suite-splitting build scripts

This directory holds TLA+ models of the scripts under `src/buildscripts/`,
the TLC configurations that check them, and `PROJECT.json`. That file
lists every component, run, mutant, finding and hazard, and maps each
definition to the source lines it translates.

## The system

The repository has three programs. The generator writes resmoke arguments
that resmoke's parser reads. The gdb script shares nothing with the other
two.

1. **`gdb/mongo_lock.py`: the waits-for graph deadlock detector.** It runs
   inside gdb against a stopped `mongod`. It has four parts:
   - `get_threads_info` builds a dict from each thread's LWP to its
     `Thread` object.
   - For every thread, `get_locks` calls two functions:
     - `find_mutex_holder` handles a thread inside `std::mutex::lock()`.
       It reads the mutex's `__owner` LWP. It adds the edges thread → mutex
       and mutex → owner. When the owner is not in the dict, a placeholder
       thread keyed by the LWP stands in.
     - `find_lock_manager_holders` handles a thread inside a
       `LockerImpl<>` method. It walks the resource's `grantedList` and adds
       the edges thread → lock → holder.
   - A `gdb.error` is caught per thread, and that thread is skipped.
   - `mongodb_waitsfor_graph` then:
     - prunes the nodes that have no edge (`remove_nodes_without_edge`);
     - runs `detect_cycle` (a depth-first search with a shared visited set
       and path list);
     - prints the graph, with the cycle highlighted, through `to_graph`.

   `mongodb-show-locks` runs the same lookups with `graph=None` and only
   prints: the `if graph:` branches add no edge, and a lock holder that
   `find_thread` cannot find prints as `None` instead of raising.
2. **`evergreen_generate_resmoke_tasks.py`: the sub-suite generator.**
   `GenerateSubSuites.run` works in four steps:
   - It first asks whether generation is still needed
     (`should_tasks_be_generated`).
   - It fetches the test-runtime history from Evergreen and filters it to
     tests that exist and belong to the suite.
   - It splits the tests into sub-suites. This is done either by runtime
     (`divide_tests_into_suites`, capped by `max_sub_suites`, with a
     round-robin remainder) or, when there is no history or Evergreen
     answers 503, by `calculate_fallback_suites`.
   - It renders the output: one resmoke config and one Evergreen task per
     sub-suite, plus a `_misc` config that excludes every test already
     placed. Task timeouts come from `calculate_timeout`. Each task's
     `resmoke_args` are the config's, followed by `--repeatSuites=N`
     unless they already contain the word "repeat"
     (`_generate_resmoke_args`).
   - Before all of this, `main` reads its options from the Evergreen
     expansions file through `ConfigOptions`. The values are strings.
     `_lookup` raises `KeyError` for a missing required key, returns the
     default or `None` for other missing keys, and applies `int` to the
     keys in `CONFIG_FORMAT_FN`.
   - The script is the first command of an Evergreen `_gen` task. Its
     files feed Evergreen's `generate.tasks`. The task may fail after
     that, and a user may restart it.
3. **`resmokelib/parser.py`: resmoke's command-line parser.** This
   parser reads the command line of every generated task.
   - `_make_parser` has four subcommands: `run`, `list-suites`,
     `find-suites` and `hang-analyzer`. `run` has its own options plus
     the "Evergreen options" and "Benchmark" groups.
   - argparse resolves a long option from its first letters: a string
     that is a prefix of exactly one option stands for that option.
     The generator relies on this. It writes `--suite=<file>.yml`, and
     only the abbreviation makes that mean `--suites`.
   - The comment above `--originSuite` says no option starting with
     `--suite` is added, because that would make `--suite` ambiguous.
   - `parse_command_line` dispatches the parsed subcommand to
     `TestRunner`, `TestRunnerEvg` or `HangAnalyzer`. It raises
     `RuntimeError` when there is no subcommand.

## Modules

| Module | Models | Kind |
|---|---|---|
| `GraphOps` | the `Graph` class as operators on a graph value: `AddNode`, `AddEdge`, `FindFromNode`, `RemoveNodesWithoutEdge`, RECURSIVE `DepthFirstSearch`/`VisitNext`/`DetectFrom`, `DetectCycle`, `ToGraph` | pure operators |
| `GraphEngine` | the graph driven by every sequence of `add_node`, `add_edge` and `remove_nodes_without_edge` calls; it has reference definitions (`ReachableFrom`, `HasCycleRef`, `IsSimpleCycle`) that the DFS is checked against | state machine |
| `Subject` | the inspected process: glibc mutexes (lock word and `__owner`), the lock manager's `grantedList` with S/X modes, and where each thread stands. It also defines the ground truth `Deadlocked` (the threads on a cycle of the blocked-on relation). This code is not in the repository, so the module is modelled from the spec | state machine (`spec_modelled`) |
| `WaitsForGraph` | composes `Subject` with `GraphOps`. The process moves while no command runs. A command is `StartPass(EmptyGraph)` (mongodb-waitsfor-graph) or `StartPass(NoGraph)` (mongodb-show-locks), both `get_threads_info`; then one `LocksFor` step per thread (one iteration of `get_locks`, through `Inspect`); then `Finish` (prune, detect, render) or `FinishShow`; then `Resume`. It also holds the refinement mapping to `WaitsForReport` | composition |
| `WaitsForReport` | the abstract command: `Begin` enumerates some threads; `End` ends at once with an outcome that `Allowed` accepts, given the waits-for facts (`Facts`) of the stopped process. It reuses `Subject` for the process and the community `Graphs!HasCycle` for cycles | abstract spec (`spec_modelled`) |
| `SuiteGen` | `GenerateSubSuites.run`: `Start` (`should_tasks_be_generated` over up to 2 earlier executions), `Calculate` (503, other HTTP error, history or empty history), one `SplitStep` per iteration of `divide_tests_into_suites`, `SplitFinish` and `Render`. `Render` writes configs into a dict keyed by `Suite.name` (`RenderSuiteFiles`). Each task runs the file named by its suite and carries its `_add_dependencies` and its resmoke arguments (`GenerateResmokeArgs`, `StringContainsAnyOfArgs`), with `ParsedRepeatSuites` giving the repeat count resmoke's parser reads from them. Output configs are abstracted to the set of tests resmoke runs from them | state machine |
| `GenTaskRestarts` | the executions of the `_gen` task. `Run` is `GenerateSubSuites.run` reduced to its effect: it skips after an earlier successful execution (`ShouldTasksBeGenerated`), or writes the configuration files, or raises. `GenerateTasks`, `Finish` and `Restart` are Evergreen's: `generate.tasks` creates the tasks from this execution's files unless tasks were already generated, the rest of the task succeeds or fails, and a user restarts a finished task | state machine (Evergreen `spec_modelled`) |
| `ConfigOptions` | `ConfigOptions._lookup` (`LookupMissing`, `Format`), `REQUIRED_CONFIG_KEYS`, `DEFAULT_CONFIG_VALUES`, `CONFIG_FORMAT_FN`, `split_if_exists` (RECURSIVE `SplitComma`), the properties `depends_on`, `is_patch` and `repeat_suites`. `FromFile` reads an expansions file with any subset of the keys set to any of the values. A Python value is a record `[ty, val]`, so strings, ints, booleans, `None` and exceptions stay apart | state machine |
| `ResmokeParser` | `parser.py` as operators on a command line, a subcommand and a sequence of `[opt, val]`: one option table per argument group and subparser (`RunOptions`, `EvergreenOptions`, `BenchmarkOptions`, `ListSuitesOptions`, `FindSuitesOptions`, `HangAnalyzerOptions`), `StoreConst`, `AppendDests`, `OptionChoices`, `DefaultsOf`, `RequiredOf`; `Resolve` is argparse's exact-or-unique-prefix rule; `Parse` folds the actions over the options (last occurrence wins, `append` accumulates) or exits; `ParseCommandLine` dispatches. `SuiteGen` extends it and parses every generated task's arguments with it | pure operators |
| `MCGraphEngine`, `MCWaitsForGraph`, `MCSuiteGen`, `MCConfigOptions` | model values and bounds for TLC | MC |

Notes on how the models correspond to the code:

- The Python graph dict keeps insertion order. It is modelled as
  `[order, entry]`.
- A node is a record `[key, str]`, mirroring `key()` and `__str__`. Both
  parts are tuples that keep the different kinds apart:
  - a thread key holds its pthread id;
  - a placeholder's key holds its LWP;
  - a lock's key holds its address.
- The DFS is written functionally. Each call returns the grown visited set
  and the cycle it found. This equals the Python version, because a call
  that finds nothing pops its own key again.
- Task names in `SuiteGen` are sequences of their `_`-separated parts. A
  part that starts with a digit is a numeral. The `_is_task_dependency`
  regex `{task}_(\d|misc)` then compares parts instead of characters.
  `Suite.name` is the triple of arguments passed to `name_generated_task`
  (not under `src/`). The model takes it as one name per index, which
  holds for any formatting that writes the index.
- `string_contains_any_of_args` is a substring test on the argument
  string. The model keeps it as one: `HasSubstring` runs over each option
  name, and the constant `SuiteMentionsRepeat` says whether the suite's
  name (part of the string) contains "repeat".
- Exceptions other than `gdb.error` are the outcome `crash`:
  - `KeyError` from `thread_dict[...]`;
  - `AttributeError` from `None.key()`.

## Runs

| Run | Expect | What it shows |
|---|---|---|
| `graph_engine` | pass | Any graph built from 4 keys with up to 4 edges stays well formed. `detect_cycle` returns a simple cycle that really exists, and returns one whenever the graph has a cycle. Pruning drops exactly the nodes that have no edges. |
| `waitsfor_pass` | pass | 2 threads, 2 mutexes and 1 S/X resource, with `get_threads_info` allowed to miss threads and `gdb.error` allowed at either lookup. Every real deadlock is reported when no thread was skipped. A pass never crashes when every thread was enumerated, even when `__owner` is read as 0 or as a stale value. |
| `waitsfor_refinement` | pass | `DetectorRefined`: each command, over any stopped state of 2 threads, 1 mutex and 1 S/X lock, is a step of `WaitsForReport`. A crash happens only if `get_threads_info` missed a thread. The graph holds every fact of each thread inspected without a `gdb.error`, and no edge that is not a fact. It names a cycle exactly when those edges have one. |
| `waitsfor_false_cycle` | violation | A reported cycle need not be a deadlock. A thread stopped inside `LockerImpl` or `lock()` just after it acquired is drawn as waiting on itself. |
| `waitsfor_crash` | violation | A thread missing from `thread_dict` makes the whole command die with `KeyError` or `AttributeError`. |
| `suitegen_pass` | pass | For every history (3 tests, an excluded test, a deleted test, runtimes 0/300/330/700 s) and every fallback, each test runs in exactly one generated task. With `max_sub_suites = 2` the cap holds. When the split is not capped, each suite fits the 10-minute target or holds a single test, and holds at most 2 tests. Every task waits for `compile` and, in a mainline build, for exactly the tasks generated for `depends_on`: not that task's `_gen`, and not a task family whose name only starts with it. With `--repeat=3` in `resmoke_args`, every task repeats its suite 3 times: the appended `--repeatSuites` neither overrides the alias nor goes missing. Every task's command line parses as `resmoke.py run` reads it (`EmittedOptionsResolve`). `--suite` resolves to `--suites`, so the task runs the config generated for it, and `--originSuite` names the suite it was split from. Its mutant adds an Evergreen option starting with `--suite`, and then every task exits with status 2. |
| `suitegen_empty_suite` | violation | `fallback_num_sub_suites = 4` with 3 tests produces an empty sub-suite, and that sub-suite runs the whole source suite, including its excluded tests. |
| `suitegen_repeat_tests` | violation | `resmoke_args` of `--repeatTests=2` with `resmoke_repeat_suites = 2`: the word "repeat" is in the string, so `--repeatSuites=2` is not appended and every task runs its suite once. The timeouts are still doubled. |
| `suitegen_repeat_timeout` | violation | `resmoke_args` of `--repeatSuites=4`, which `_generate_resmoke_args` leaves in force: resmoke runs the suite 4 times, but the timeouts are scaled by `resmoke_repeat_suites = 1`. A 300 s sub-suite gets an `exec_timeout` of 1080 s for 1200 s of tests. |
| `suitegen_timeout_rounding` | violation | `TimeoutRoundedUp`: the docstring of `round_to_minute` says it rounds up to the nearest minute. The code adds `60 - runtime % 60`, so a sub-suite whose longest test takes 300 s gets a 1080 s timeout, where the docstring's rounding gives 900 s. |
| `gentask_unused_files` | violation | Execution 0 writes its files, its `generate.tasks` creates the tasks, and then it fails. On restart, `should_tasks_be_generated` sees no successful execution, so execution 1 writes files that `generate.tasks` ignores. That is what its docstring says it avoids. |
| `configoptions_flags` | violation | `use_default_timeouts` set to `"0"` or `"false"` in the expansions file is a non-empty string, so it reads as true and the tasks get the default timeouts. `is_patch` is parsed with `strtobool`; these flags are not. |
Every property of a passing run has a mutant in `PROJECT.json`. A mutant
is a plausible bug in the code's definition, and TLC finds the property
violated under it. Examples:

- an off-by-one in the `max_suites` cap or in the remainder slice;
- a dropped `in all_tests` filter;
- the DFS path test made after the visited test;
- an `__owner` lookup without the placeholder;
- `_generate_resmoke_args` without its "repeat" test.

### Bounds

**Waits-for graph.** Two threads and two mutexes are enough for every
two-party deadlock through mutexes. One resource with S and X modes gives:

- shared-grant cycles;
- mixed mutex/lock-manager cycles;
- the granted-but-not-returned window behind the false cycle.

The refinement run uses one mutex. Mutex cycles need two, but
`waitsfor_pass` covers those. One mutex still gives the mixed
mutex/lock-manager cycles, the `__owner` = 0 window and a missing holder.
With two mutexes the refinement also holds, but takes about 3.5 minutes.

The graph engine's 4 keys allow cycles of every length up to 4, and
4 edges allow a 4-cycle together with branches.

**Suite generator.** Three tests with a cap of 2 tests per suite and 2
sub-suites force the `max_sub_suites` break and the round-robin
remainder. The runtimes cover:

- a test longer than the target;
- two tests that do not fit together;
- a runtime on a whole minute;
- a runtime of 0 (no info).

**Generator task.** Three executions let an execution's `generate.tasks`
take effect, that execution fail, and a restart follow.

**Configuration.** Four keys are used: the required int
`fallback_num_sub_suites`, the optional int `max_sub_suites`, the flag
`use_default_timeouts` and `depends_on`. Each may be unset or take one of
seven values: `""`, `"0"`, `"2"`, `"false"`, `"true"`, `"X,Y"` and
`",X"`. Together that is every mix of a missing required key, a value
`int` rejects, a boolean string and a list with an empty part: 4096
files.

**Resmoke arguments.** The two repeat cases need one option each. The
passing run puts `--repeat` after an unrelated option, so that the
"last occurrence wins" rule matters. Every generated command line goes
through the whole option table of `run` (70 option strings), so
`Resolve` meets the exact match (`--repeat`, a prefix of five other
options) as well as the abbreviation (`--suite`).

## Fairness and liveness

No run checks a liveness property. Once a command is invoked, gdb runs
its Python code to the end while the process stays stopped, and
`get_locks` is a single pass over the threads with no retry. A property
that "a started command returns" would therefore hold by the shape of
`LocksFor` (each step removes a thread from `todo`), whatever the code
did, so the project does not check it. Starting a command
(`StartPass`), letting the process run (`ProcessStep`) and continuing
after a command (`Resume`) are the user's choices and are not fair.

`WaitsForReport.ASpec` is `ASafe /\ WF_avars(End)`. `DetectorRefined`
checks only `AR!ASafe`: TLC cannot evaluate `ENABLED` of an action
whose variables are substituted by the refinement mapping, and the
fairness part holds by the same shape argument.

`GenTaskRestarts` has no fairness. Restarts are a user's choice, and the
only property it checks is a safety property.

The generator is one sequential script, and it stops. Its cfg sets
`CHECK_DEADLOCK FALSE` because `done`, `skipped`, `error` and
`exception` are where the script exits.

## Refinement

`WaitsForGraph` defines `AR == INSTANCE WaitsForReport WITH ...`:

- `apc` is `busy` while `get_locks` runs;
- `acmd` is `show` when the graph is `None`;
- `enumerated` is `thread_dict`;
- `skipped` is the threads left out of the dict, then after the command
  also those a `gdb.error` cut short;
- `aoutcome` maps a report's graph keys to abstract vertices (`AbsKey`),
  and the printed cycle of `str()` values back to the keys it was printed
  from (`KeyOfStr`).

The abstract `End` allows any set of edges between the facts of the
fully inspected threads and the facts of all threads. A thread cut short
by a `gdb.error` may leave some of its edges in the graph.

## Not modelled

- gdb frame and symbol lookup (`find_frame`, `find_func_block`). This is
  debugger I/O. It is abstracted to which lock frame a thread is in.
- Formatting and dot syntax in `to_graph`, the text of task names
  (`name_generated_task` is not under `src/`), resmoke-argument text,
  distros and the display task.
- YAML parsing, `write_file`, `write_file_dict` and `read_yaml`. These
  are file I/O.
- In `resmokelib/parser.py`:
  - the `type=` conversions: values are taken as already converted;
  - help text;
  - `to_local_args`, which is commented out;
  - `configure_resmoke.validate_and_update_config`, which is not under
    `src/`.
- Two behaviours are modelled, but no run checks them, because the
  project keeps to twelve runs. The model reaches each one, and
  `PROJECT.json` lists each as a hazard with a note:
  - `to_graph` never draws a detected cycle red: `detect_cycle` returns
    `str()` values, and `to_graph` compares keys.
  - `fallback_num_sub_suites = 0` raises `ZeroDivisionError` in the
    fallback split.
- `teststats` and `list_tests`. These are not under `src/` and are model
  inputs.

## Plan for later work

1. **`WaitsForGraph`:** add lock-manager upgrades and conflict (queued)
   lists to `Subject`, and check `DeadlockReported` for deadlocks that
   persist across passes.
2. **`SuiteGen`:** let `IsPatch` and `DependsOn` range over their values
   inside one run, instead of fixing them per cfg.
3. **Composition:** feed `ConfigOptions`' typed options into `SuiteGen`'s
   constants. Then the flags and the repeat count come from an expansions
   file instead of being fixed per cfg.
