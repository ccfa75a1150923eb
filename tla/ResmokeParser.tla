---------------------------- MODULE ResmokeParser ----------------------------
(***************************************************************************)
(* buildscripts/resmokelib/parser.py: the argparse parser of resmoke.py    *)
(* and parse_command_line.  The parser has no state; its definitions are  *)
(* operators on a command line.                                            *)
(*                                                                         *)
(* A command line is a subcommand and a sequence of options [opt, val],    *)
(* opt as written (before any "=") and val the value given with it.  An   *)
(* option table maps each option string of a subparser to its dest, as    *)
(* add_argument declares it.  The parsed Namespace is a function from     *)
(* dests to values that omits the dests whose value is None.               *)
(*                                                                         *)
(* The options are resolved the way argparse does it with allow_abbrev    *)
(* (the default _make_parser keeps): an option string of the table        *)
(* matches itself; otherwise it stands for the one option it is a prefix  *)
(* of, and is an error if it is a prefix of several or of none.  An error *)
(* is parser.error, which exits with status 2.  The values' type= and     *)
(* choices= checks are not modelled: values are taken as converted.        *)
(***************************************************************************)
EXTENDS Integers, Sequences, SequencesExt, FiniteSets

\* A table from a set of <<option string, dest>> pairs.
Table(pairs) == [o \in {p[1] : p \in pairs} |-> (CHOOSE p \in pairs : p[1] = o)[2]]

\* _add_run: the options added to the run parser itself.
RunOptions == Table({
    <<"--suites", "suite_files">>, <<"--log", "logger_file">>,
    <<"--archiveFile", "archive_file">>, <<"--archiveLimitMb", "archive_limit_mb">>,
    <<"--archiveLimitTests", "archive_limit_tests">>, <<"--basePort", "base_port">>,
    <<"--buildloggerUrl", "buildlogger_url">>,
    <<"--continueOnFailure", "continue_on_failure">>,
    <<"--dbpathPrefix", "dbpath_prefix">>, <<"--dbtest", "dbtest_executable">>,
    <<"--excludeWithAnyTags", "exclude_with_any_tags">>,
    <<"--genny", "genny_executable">>, <<"--spawnUsing", "spawn_using">>,
    <<"--includeWithAnyTags", "include_with_any_tags">>, <<"-n", "dry_run">>,
    <<"--dryRun", "dry_run">>, <<"-j", "jobs">>, <<"--jobs", "jobs">>,
    <<"--mongo", "mongo_executable">>, <<"--mongod", "mongod_executable">>,
    <<"--mongodSetParameters", "mongod_set_parameters">>,
    <<"--mongos", "mongos_executable">>,
    <<"--mongosSetParameters", "mongos_set_parameters">>,
    <<"--nojournal", "no_journal">>,
    <<"--numClientsPerFixture", "num_clients_per_fixture">>,
    <<"--perfReportFile", "perf_report_file">>,
    <<"--shellConnString", "shell_conn_string">>, <<"--shellPort", "shell_port">>,
    <<"--repeat", "repeat_suites">>, <<"--repeatSuites", "repeat_suites">>,
    <<"--repeatTests", "repeat_tests">>, <<"--repeatTestsMax", "repeat_tests_max">>,
    <<"--repeatTestsMin", "repeat_tests_min">>,
    <<"--repeatTestsSecs", "repeat_tests_secs">>,
    <<"--reportFailureStatus", "report_failure_status">>,
    <<"--reportFile", "report_file">>, <<"--seed", "seed">>,
    <<"--serviceExecutor", "service_executor">>,
    <<"--transportLayer", "transport_layer">>,
    <<"--shellReadMode", "shell_read_mode">>, <<"--shellWriteMode", "shell_write_mode">>,
    <<"--shuffle", "shuffle">>, <<"--shuffleMode", "shuffle">>,
    <<"--staggerJobs", "stagger_jobs">>,
    <<"--majorityReadConcern", "majority_read_concern">>,
    <<"--flowControl", "flow_control">>,
    <<"--flowControlTicketOverride", "flow_control_tickets">>,
    <<"--storageEngine", "storage_engine">>,
    <<"--storageEngineCacheSizeGB", "storage_engine_cache_size_gb">>,
    <<"--tagFile", "tag_file">>,
    <<"--wiredTigerCollectionConfigString", "wt_coll_config">>,
    <<"--wiredTigerEngineConfigString", "wt_engine_config">>,
    <<"--wiredTigerIndexConfigString", "wt_index_config">>,
    <<"--executor", "executor_file">>})

\* Mutant: an Evergreen option whose name starts with --suite, which the
\* comment above --originSuite says is avoided.
EvergreenOptionsWithSuitePrefix ==
    Table({<<"--suiteName", "suite_name">>, <<"--originSuite", "origin_suite">>,
           <<"--taskId", "task_id">>})

\* _add_run: the "Evergreen options" argument group.
EvergreenOptions == Table({
    <<"--buildId", "build_id">>, <<"--distroId", "distro_id">>,
    <<"--executionNumber", "execution_number">>, <<"--gitRevision", "git_revision">>,
    <<"--originSuite", "origin_suite">>, <<"--patchBuild", "patch_build">>,
    <<"--projectName", "project_name">>, <<"--revisionOrderId", "revision_order_id">>,
    <<"--taskName", "task_name">>, <<"--taskId", "task_id">>,
    <<"--variantName", "variant_name">>, <<"--versionId", "version_id">>})

\* _add_run: the "Benchmark/Benchrun test options" argument group.
BenchmarkOptions == Table({
    <<"--benchmarkFilter", "benchmark_filter">>,
    <<"--benchmarkListTests", "benchmark_list_tests">>,
    <<"--benchmarkMinTimeSecs", "benchmark_min_time_secs">>,
    <<"--benchmarkRepetitions", "benchmark_repetitions">>})

\* _add_list_suites and _add_find_suites.
ListSuitesOptions == Table({<<"--log", "logger_file">>})
FindSuitesOptions == Table({<<"--log", "logger_file">>, <<"--suites", "suite_files">>})

\* _add_hang_analyzer.
HangAnalyzerOptions == Table({
    <<"-m", "process_match">>, <<"--process-match", "process_match">>,
    <<"-p", "process_names">>, <<"--process-names", "process_names">>,
    <<"-g", "go_process_names">>, <<"--go-process-names", "go_process_names">>,
    <<"-d", "process_ids">>, <<"--process-ids", "process_ids">>,
    <<"-c", "dump_core">>, <<"--dump-core", "dump_core">>,
    <<"-s", "max_core_dumps_size">>, <<"--max-core-dumps-size", "max_core_dumps_size">>,
    <<"-o", "debugger_output">>, <<"--debugger-output", "debugger_output">>})

\* The options declared with action="store_const" or "store_true", and
\* the constant each stores; and the dests declared with action="append".
StoreConst ==
    ("-n" :> "tests") @@ ("--continueOnFailure" :> TRUE) @@ ("--nojournal" :> TRUE)
    @@ ("--shuffle" :> "on") @@ ("--patchBuild" :> TRUE)
    @@ ("--benchmarkListTests" :> TRUE) @@ ("-c" :> TRUE) @@ ("--dump-core" :> TRUE)
AppendDests == {"exclude_with_any_tags", "include_with_any_tags", "debugger_output"}

\* The options declared with choices=.
OptionChoices ==
    ("--spawnUsing" :> {"python", "jasper"}) @@ ("--dryRun" :> {"off", "tests"})
    @@ ("--reportFailureStatus" :> {"fail", "silentfail"})
    @@ ("--shellReadMode" :> {"commands", "compatibility", "legacy"})
    @@ ("--shellWriteMode" :> {"commands", "compatibility", "legacy"})
    @@ ("--shuffleMode" :> {"on", "off", "auto"}) @@ ("--staggerJobs" :> {"on", "off"})
    @@ ("--majorityReadConcern" :> {"on", "off"}) @@ ("--flowControl" :> {"on", "off"})
    @@ ("-m" :> {"contains", "exact"}) @@ ("--process-match" :> {"contains", "exact"})
    @@ ("-o" :> {"file", "stdout"}) @@ ("--debugger-output" :> {"file", "stdout"})

\* _check_value: an option's value is one of its choices, if it has any.
ValidChoice(o) == o.opt \in DOMAIN OptionChoices => o.val \in OptionChoices[o.opt]

\* _make_parser: the subcommands, each with its option table.
Subcommands == {"run", "list-suites", "find-suites", "hang-analyzer"}
OptionsOf(cmd) ==
    CASE cmd = "run"         -> RunOptions @@ EvergreenOptions @@ BenchmarkOptions
      [] cmd = "list-suites" -> ListSuitesOptions
      [] cmd = "find-suites" -> FindSuitesOptions
      [] OTHER               -> HangAnalyzerOptions

\* The Namespace a subparser starts from: set_defaults, default= and the
\* False of store_true.  None is left out.
DefaultsOf(cmd) ==
    CASE cmd = "run" ->
           ("dry_run" :> "off") @@ ("shuffle" :> "auto") @@ ("stagger_jobs" :> "off")
           @@ ("suite_files" :> "with_server") @@ ("majority_read_concern" :> "on")
           @@ ("logger_file" :> "console") @@ ("continue_on_failure" :> FALSE)
           @@ ("no_journal" :> FALSE) @@ ("patch_build" :> FALSE)
           @@ ("benchmark_list_tests" :> FALSE)
      [] cmd \in {"list-suites", "find-suites"} -> ("logger_file" :> "console")
      [] OTHER ->
           ("process_match" :> "contains") @@ ("dump_core" :> FALSE)
           @@ ("max_core_dumps_size" :> 10000)

\* The dests a subparser requires (required=True).
RequiredOf(cmd) == IF cmd = "find-suites" THEN {"suite_files"} ELSE {}

\* ArgumentParser._parse_optional with allow_abbrev: the option string an
\* option on the command line stands for, or "ambiguous" / "unrecognized".
Resolve(table, opt) ==
    LET matches == {o \in DOMAIN table : IsPrefix(opt, o)}
    IN  CASE opt \in DOMAIN table     -> opt
          [] Cardinality(matches) = 1 -> CHOOSE o \in matches : TRUE
          [] matches = {}             -> "unrecognized"
          [] OTHER                    -> "ambiguous"

\* One option's action on the Namespace: store its value or its constant,
\* or append the value to the dest's list.
TakeAction(table, ns, o) ==
    LET d == table[o.opt]
        v == IF o.opt \in DOMAIN StoreConst THEN StoreConst[o.opt] ELSE o.val
    IN  IF d \in AppendDests
        THEN (d :> ((IF d \in DOMAIN ns THEN ns[d] ELSE <<>>) \o <<v>>)) @@ ns
        ELSE (d :> v) @@ ns

\* _parse: parser.parse_args of the subcommand and its options, the
\* Namespace or "SystemExit".  No subcommand ("") leaves command None.
Parse(cmd, args) ==
    LET table    == OptionsOf(cmd)
        resolved == [i \in DOMAIN args |-> [args[i] EXCEPT !.opt = Resolve(table, @)]]
        ns       == FoldLeft(LAMBDA acc, o : TakeAction(table, acc, o),
                             DefaultsOf(cmd), resolved)
    IN  CASE cmd = "" /\ args = <<>> -> [ok |-> TRUE, ns |-> <<>>]
          [] \/ cmd \notin Subcommands
             \/ \E i \in DOMAIN resolved : resolved[i].opt \notin DOMAIN table
                                         \/ ~ValidChoice(resolved[i])
             \/ ~(RequiredOf(cmd) \subseteq DOMAIN ns) -> [ok |-> FALSE, ns |-> <<>>]
          [] OTHER -> [ok |-> TRUE, ns |-> ns]

\* parse_command_line: the subcommand object, "SystemExit" when parsing
\* failed, "RuntimeError" for no subcommand.  evg: whether
\* _config.EVERGREEN_TASK_ID is set.
ParseCommandLine(cmd, args, evg) ==
    LET p == Parse(cmd, args)
    IN  [obj |-> CASE ~p.ok -> "SystemExit"
                   [] cmd \in {"find-suites", "list-suites", "run"} ->
                         IF evg THEN "TestRunnerEvg" ELSE "TestRunner"
                   [] cmd = "hang-analyzer" -> "HangAnalyzer"
                   [] OTHER -> "RuntimeError",
         ns  |-> p.ns]
=============================================================================
