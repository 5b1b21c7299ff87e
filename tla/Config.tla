------------------------------- MODULE Config -------------------------------
(* cmd/gateway/config.go, and what main.go and uploader.New still change of  *)
(* the values.  Of the settings that are treated alike one is kept: eth_rpc  *)
(* for the strings (private_key is required like it, listen and data_dir     *)
(* have defaults), batch_max for the integers without a check of their own.  *)
(* nodes is the number of endpoints, and a string a number, 0 the empty one. *)
EXTENDS Integers

CONSTANTS
  UintMod,      \* 2^64: ZGS_EXPECTED_REPLICA is parsed signed, kept unsigned
  Millisecond   \* time.Millisecond, in nanoseconds

ASSUME ConfigAssumption == UintMod \in Nat /\ UintMod > 1 /\ Millisecond \in Nat \ {0}

defaultConfig ==
  [eth_rpc |-> 0, nodes |-> 0, cache_max_bytes |-> 10, batch_max |-> 20,
   flush_interval_ms |-> 3000, expected_replica |-> 0]

Settings == DOMAIN defaultConfig

(* The values given for some of the settings replace those of cfg. *)
Overlay(cfg, given) == [s \in Settings |-> IF s \in DOMAIN given THEN given[s] ELSE cfg[s]]

envInt(s, v) == IF s = "expected_replica" THEN v % UintMod ELSE v
applyEnvOverrides(cfg, env) == Overlay(cfg, [s \in DOMAIN env |-> envInt(s, env[s])])

(* Mutant: a flush interval of zero passes. *)
validateLoose(cfg) ==
  cfg.nodes > 0 /\ cfg.eth_rpc # 0 /\ cfg.flush_interval_ms >= 0 /\ cfg.cache_max_bytes >= 0

validate(cfg) ==
  cfg.nodes > 0 /\ cfg.eth_rpc # 0 /\ cfg.flush_interval_ms > 0 /\ cfg.cache_max_bytes >= 0

(* file: how reading it went, and the settings in it; explicit: its path was *)
(* given; env: the settings in it, and whether one of its integers does not  *)
(* parse.  The result is the configuration, or that main exits.              *)
loadConfig(explicit, file, env) ==
  LET read == CASE file.read = "ok" -> TRUE
                [] file.read = "missing" -> ~explicit
                [] file.read \in {"unreadable", "malformed"} -> FALSE
      cfg == applyEnvOverrides(Overlay(defaultConfig, file.keys), env.keys)
  IN  IF read /\ env.parses /\ validate(cfg)
      THEN [ok |-> TRUE, cfg |-> cfg]
      ELSE [ok |-> FALSE, cfg |-> defaultConfig]

(* main: the flush interval is a time.Duration, nanoseconds in an int64.     *)
flushInterval(cfg) ==
  LET ns == (cfg.flush_interval_ms * Millisecond) % UintMod
  IN  IF 2 * ns < UintMod THEN ns ELSE ns - UintMod

(* main: an expected replica of 0 is the number of nodes. *)
Replica(cfg) == IF cfg.expected_replica = 0 THEN cfg.nodes ELSE cfg.expected_replica

(* uploader.New *)
BatchMaxOf(cfg) == IF cfg.batch_max <= 0 THEN 10 ELSE cfg.batch_max
=============================================================================
