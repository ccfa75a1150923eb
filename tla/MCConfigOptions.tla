--------------------------- MODULE MCConfigOptions ---------------------------
(* Expansions files that set any of four keys: a required int, an         *)
(* optional int, a flag and the comma-separated depends_on, to the empty   *)
(* string, integers, the two boolean strings and lists with an empty part. *)
EXTENDS ConfigOptions

MCKeys == {"fallback_num_sub_suites", "max_sub_suites", "use_default_timeouts", "depends_on"}
MCValues == {"", "0", "2", "false", "true", "X,Y", ",X"}
=============================================================================
