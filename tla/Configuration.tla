--------------------------- MODULE Configuration ---------------------------
(***************************************************************************)
(* longctx_daemon/config.py and the commands of cli.py that write the       *)
(* configuration file: defaults, file and environment, what is refused, and *)
(* which projects a configuration adds and removes.                         *)
(*                                                                          *)
(* A configuration is a record of the fields some rule looks at; the rest   *)
(* of a section stands in one field.  A file is what it sets and the        *)
(* sections it has.                                                         *)
(***************************************************************************)
EXTENDS Integers, Sequences, FiniteSets, SequencesExt

default_config ==
    [auto_discover |-> TRUE, include |-> {}, exclude |-> {}, sentinels |-> {"git"}, port |-> 8765,
     embedder |-> "bge", chunk_size |-> 2048, chunk_overlap |-> 128, relevance_floor |-> 50,
     project_floors |-> [p \in {} |-> 0], queue_size |-> 10000, level |-> "INFO"]

(* _ENV_OVERRIDES; the floors, sentinels and the queue have no variable. *)
Overridable == {"auto_discover", "include", "exclude", "port", "embedder", "chunk_size",
                "chunk_overlap", "level"}
Internal == {"LONGCTX_TS", "LONGCTX_TS_LANGUAGES"}
Sections == {"corpus", "server", "index", "watcher", "cleanup", "search", "logging"}

Failed == [ok |-> FALSE]
Loaded(cfg) == [ok |-> TRUE, cfg |-> cfg]

(* r over the fields of d: what r sets, else what d has. *)
Over(r, d) == [f \in DOMAIN d |-> IF f \in DOMAIN r THEN r[f] ELSE d[f]]

(* Unknown top-level sections are refused, and so, not told apart from them, *)
(* are malformed TOML and a section that is no table; missing fields are      *)
(* defaults.                                                                  *)
_config_from_dict(file) ==
    IF file.sections \subseteq Sections THEN Loaded(Over(file.fields, default_config)) ELSE Failed

(* An unknown LONGCTX_ variable is refused, and so is a value its coercer     *)
(* cannot parse: env gives a variable <<v>> when it parses to v, else <<>>.   *)
_apply_env_overrides(cfg, env) ==
    LET set == DOMAIN env \cap Overridable
    IN IF DOMAIN env \subseteq Overridable \cup Internal /\ \A v \in set : env[v] # <<>>
       THEN Loaded(Over([v \in set |-> Head(env[v])], cfg)) ELSE Failed

MaxPort == 65535

_validate(cfg) ==
    /\ cfg.auto_discover \/ cfg.include # {}
    /\ ~(cfg.auto_discover /\ cfg.include # {} /\ cfg.exclude # {})
    /\ cfg.auto_discover => cfg.sentinels # {}
    /\ cfg.port \in 1 .. MaxPort
    /\ cfg.chunk_size > 0 /\ cfg.chunk_overlap \in 0 .. cfg.chunk_size - 1
    /\ cfg.relevance_floor \in 0 .. 100
    /\ \A p \in DOMAIN cfg.project_floors : cfg.project_floors[p] \in 0 .. 100
    /\ cfg.queue_size > 0
    /\ cfg.level \in {"DEBUG", "INFO", "WARN", "WARNING", "ERROR", "CRITICAL"}

(* load_config: file, then environment, then the rules. *)
load_config(file, env) ==
    LET base == IF file.exists THEN _config_from_dict(file) ELSE Loaded(default_config)
        cfg == IF base.ok THEN _apply_env_overrides(base.cfg, env) ELSE Failed
    IN IF cfg.ok /\ _validate(cfg.cfg) THEN cfg ELSE Failed

(* write_config: every field, and nothing the file had besides. *)
write_config(cfg) == [exists |-> TRUE, sections |-> Sections, fields |-> cfg]

-----------------------------------------------------------------------------
(* reconcile: a discovered project is [name, ignored]; ignored ones have a   *)
(* .longctxignore.                                                           *)

Names(discovered) == {d.name : d \in discovered}

(* Mutant: the deny list keeps nothing out, it only removes. *)
AddIgnoresDeny(cfg, discovered, indexed) ==
    {d.name : d \in {e \in discovered : ~e.ignored /\ e.name \notin indexed}}

Deny(cfg, discovered) ==
    IF cfg.auto_discover THEN cfg.include \cup cfg.exclude ELSE Names(discovered) \ cfg.include

projects_to_add(cfg, discovered, indexed) ==
    {d.name : d \in {e \in discovered : ~e.ignored /\ e.name \notin indexed
                                        /\ e.name \notin Deny(cfg, discovered)}}

projects_to_remove(cfg, discovered, indexed) ==
    {n \in indexed : n \notin Names(discovered) \/ n \in Deny(cfg, discovered)}

(* What the index has after a reload applied the difference. *)
reconcile(cfg, discovered, indexed) ==
    (indexed \cup projects_to_add(cfg, discovered, indexed))
       \ projects_to_remove(cfg, discovered, indexed)

-----------------------------------------------------------------------------
(* The commands that write. *)

(* _interactive_pick_projects: answers toggle, select all or none, until one *)
(* accepts; `quit` writes nothing.                                           *)
Answer(discovered, picked, a) ==
    CASE a.kind = "all" -> Names(discovered)
      [] a.kind = "none" -> {}
      [] a.kind = "toggle" -> (picked \ a.names) \cup (a.names \ picked)
      [] OTHER -> picked

_interactive_pick_projects(discovered, answers) ==
    FoldLeft(LAMBDA picked, a : Answer(discovered, picked, a),
             {d.name : d \in {e \in discovered : ~e.ignored}}, answers)

(* _cmd_init: the flags, then, when it is interactive and discovers, the     *)
(* complement of the pick as deny list.                                      *)
_cmd_init(args, discovered, answers, file) ==
    LET picked == _interactive_pick_projects(discovered, answers)
        asked == args.interactive /\ discovered # {}
        include == IF asked /\ args.auto_discover THEN Names(discovered) \ picked ELSE args.include
        cfg == [default_config EXCEPT !.auto_discover = args.auto_discover, !.include = include]
        quit == asked /\ \E i \in DOMAIN answers : answers[i].kind = "quit"
        refused == (file.exists /\ ~args.force) \/ (~args.auto_discover /\ args.include = {})
    IN IF refused \/ quit \/ ~_validate(cfg) THEN file ELSE write_config(cfg)

(* _persist_floor_to_config: what was loaded, environment and all, with the  *)
(* new floor, is written back.                                               *)
_persist_floor_to_config(file, env, project, floor) ==
    LET old == load_config(file, env)
        base == IF file.exists THEN old ELSE Loaded(default_config)
        new == IF project = "" THEN [base.cfg EXCEPT !.relevance_floor = floor]
               ELSE [base.cfg EXCEPT !.project_floors =
                       [p \in DOMAIN @ \cup {project} |-> IF p = project THEN floor ELSE @[p]]]
    IN IF base.ok THEN write_config(new) ELSE file

(* _persist_project_to_config appends a [[projects]] block. *)
_persist_project_to_config(file) ==
    [file EXCEPT !.exists = TRUE, !.sections = @ \cup {"projects"}]

(* _load_searcher_config_from_user_config: a file that does not load counts  *)
(* as none; the floor of a search is the project's, else the global one.     *)
SearchFloor(file, env, project) ==
    LET cfg == load_config(file, env)
    IN IF ~file.exists \/ ~cfg.ok THEN default_config.relevance_floor
       ELSE IF project \in DOMAIN cfg.cfg.project_floors THEN cfg.cfg.project_floors[project]
       ELSE cfg.cfg.relevance_floor
=============================================================================
