---------------------------- MODULE ConfigOptions ----------------------------
(***************************************************************************)
(* ConfigOptions of evergreen_generate_resmoke_tasks.py: the options the   *)
(* generator reads from the Evergreen expansions file, whose values are    *)
(* strings.  One step reads the options GenerateSubSuites uses; each read  *)
(* is ConfigOptions._lookup with REQUIRED_CONFIG_KEYS,                     *)
(* DEFAULT_CONFIG_VALUES and CONFIG_FORMAT_FN, or a property built on it.  *)
(*                                                                         *)
(* A Python value is a record [ty, val]; an exception is [ty |-> "raise",  *)
(* val |-> its class].                                                     *)
(***************************************************************************)
EXTENDS Integers, Sequences, SequencesExt, TLC

CONSTANTS
    Keys,    \* the configuration keys that may be set
    Values   \* the strings they may be set to

Str(s) == [ty |-> "str", val |-> s]
PInt(n) == [ty |-> "int", val |-> n]
PBool(b) == [ty |-> "bool", val |-> b]
PList(l) == [ty |-> "list", val |-> l]
PNone == [ty |-> "none", val |-> "None"]
Raise(e) == [ty |-> "raise", val |-> e]

\* Python truthiness.
Truthy(v) ==
    CASE v.ty = "str"  -> v.val # ""
      [] v.ty = "int"  -> v.val # 0
      [] v.ty = "bool" -> v.val
      [] v.ty = "list" -> v.val # <<>>
      [] OTHER         -> FALSE

REQUIRED_CONFIG_KEYS ==
    {"build_variant", "fallback_num_sub_suites", "project", "task_id", "task_name"}

DEFAULT_CONFIG_VALUES ==
    ("generated_config_dir" :> Str("generated_resmoke_config"))
    @@ ("max_tests_per_suite" :> PInt(100)) @@ ("resmoke_args" :> Str(""))
    @@ ("resmoke_repeat_suites" :> PInt(1)) @@ ("run_multiple_jobs" :> Str("true"))
    @@ ("target_resmoke_time" :> PInt(60))
    @@ ("use_default_timeouts" :> PBool(FALSE)) @@ ("use_large_distro" :> PBool(FALSE))

\* CONFIG_FORMAT_FN: every entry is int.
CONFIG_FORMAT_FN ==
    {"fallback_num_sub_suites", "max_sub_suites", "max_tests_per_suite",
     "target_resmoke_time"}

\* int() of a value: decimal literals (within the bound) parse, other
\* strings raise ValueError, int(None) raises TypeError.
PyIntBound == 99
IntOf(v) ==
    CASE v.ty = "int" -> v
      [] v.ty = "str" /\ \E n \in -PyIntBound..PyIntBound : ToString(n) = v.val ->
            PInt(CHOOSE n \in -PyIntBound..PyIntBound : ToString(n) = v.val)
      [] v.ty = "str" -> Raise("ValueError")
      [] v.ty = "none" -> Raise("TypeError")
      [] OTHER -> v

\* distutils strtobool: 1, 0, or ValueError.
StrToBool(s) ==
    CASE s \in {"y", "yes", "t", "true", "on", "1"} -> PInt(1)
      [] s \in {"n", "no", "f", "false", "off", "0"} -> PInt(0)
      [] OTHER -> Raise("ValueError")

\* _lookup of an item not in the config.
LookupMissing(item) ==
    CASE item \in REQUIRED_CONFIG_KEYS -> Raise("KeyError")
      [] item \in DOMAIN DEFAULT_CONFIG_VALUES -> DEFAULT_CONFIG_VALUES[item]
      [] OTHER -> PNone

\* _lookup of an item in the config: its format applied, if it has one.
Format(item, s) == IF item \in CONFIG_FORMAT_FN THEN IntOf(Str(s)) ELSE Str(s)

\* ConfigOptions._lookup.
Lookup(config, item) ==
    IF item \notin DOMAIN config THEN LookupMissing(item) ELSE Format(item, config[item])

\* str.split(",").
RECURSIVE SplitComma(_)
SplitComma(s) ==
    IF \A i \in 1..Len(s) : SubSeq(s, i, i) # ","
    THEN <<s>>
    ELSE LET i == Min({j \in 1..Len(s) : SubSeq(s, j, j) = ","})
         IN  <<SubSeq(s, 1, i - 1)>> \o SplitComma(SubSeq(s, i + 1, Len(s)))

\* split_if_exists.
SplitIfExists(v) == IF Truthy(v) THEN PList(SplitComma(v.val)) ELSE PNone

\* The properties depends_on, is_patch and repeat_suites.
DependsOn(config) == SplitIfExists(Lookup(config, "depends_on"))
IsPatch(config) ==
    IF "is_patch" \in DOMAIN config /\ config["is_patch"] # ""
    THEN StrToBool(config["is_patch"]) ELSE PNone
RepeatSuites(config) == IntOf(Lookup(config, "resmoke_repeat_suites"))

\* What GenerateSubSuites reads.
Options(config) ==
    [fallback_num_sub_suites |-> Lookup(config, "fallback_num_sub_suites"),
     max_sub_suites          |-> Lookup(config, "max_sub_suites"),
     max_tests_per_suite     |-> Lookup(config, "max_tests_per_suite"),
     target_resmoke_time     |-> Lookup(config, "target_resmoke_time"),
     use_default_timeouts    |-> Lookup(config, "use_default_timeouts"),
     use_large_distro        |-> Lookup(config, "use_large_distro"),
     is_patch                |-> IsPatch(config),
     depends_on              |-> DependsOn(config),
     repeat_suites           |-> RepeatSuites(config)]

Configs == UNION {[S -> Values] : S \in SUBSET Keys}

VARIABLES
    loaded,  \* whether from_file has read the expansions file
    config,  \* the file's key-value pairs
    opts     \* the options as GenerateSubSuites reads them

vars == <<loaded, config, opts>>

Init ==
    /\ loaded = FALSE
    /\ config = [k \in {} |-> ""]
    /\ opts = Options(config)

\* ConfigOptions.from_file, then the reads of the options.
FromFile ==
    /\ ~loaded
    /\ \E c \in Configs : config' = c /\ opts' = Options(c)
    /\ loaded' = TRUE

Next == FromFile

Spec == Init /\ [][Next]_vars
-----------------------------------------------------------------------------
\* is_patch shows how the expansions' boolean strings are meant: through
\* strtobool.  In a configuration whose options read without an
\* exception, use_default_timeouts and use_large_distro set to a string
\* strtobool reads as false leave the option off.
BooleanOptionsHonoured ==
    loaded /\ (\A o \in DOMAIN opts : opts[o].ty # "raise") =>
        \A a \in {"use_default_timeouts", "use_large_distro"} :
            a \in DOMAIN config /\ StrToBool(config[a]).ty = "int"
            /\ StrToBool(config[a]).val = 0 => ~Truthy(opts[a])
=============================================================================
