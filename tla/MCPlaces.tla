------------------------------ MODULE MCPlaces ------------------------------
(***************************************************************************)
(* Calls of the functions of PathRules, Retention, Configuration and        *)
(* PackRegistry.                                                            *)
(***************************************************************************)
EXTENDS Retention, Configuration, PackRegistry

-----------------------------------------------------------------------------
(* A tree with a src directory, a nested one and one outside the root. *)

Files == [d \in {<<"r">>, <<"r", "src">>, <<"r", "a">>, <<"r", "a", "b">>, <<"x">>} |->
            CASE d = <<"r">> -> <<"f1", "f2">> [] d = <<"r", "src">> -> <<"f3">>
              [] d = <<"r", "a">> -> <<"f4">> [] d = <<"r", "a", "b">> -> <<"f5">>
              [] OTHER -> <<"f6">>]

Trees ==
    {[dirs |-> <<<<"r", "a">>, <<"r", "src">>, <<"r", "a", "b">>>>, files |-> Files, skip |-> s,
      bad |-> b, small |-> 2,
      ignores |-> [d \in DOMAIN Files |-> IF d = <<"r">> THEN i ELSE IF d = <<"r", "a">> THEN j ELSE {}]] :
        s \in {{}, {<<"r", "a">>}, {<<"r", "a", "b">>}}, b \in {{}, {"f1"}, {"f5"}},
        i \in {{}, {"f1", "f5"}}, j \in {{}, {"f5"}}}

Mentions ==
    [dir : {<<"r", "a">>}, isFile : {TRUE}, file : {"f4"}]
    \cup [dir : {<<"r", "src">>, <<"x">>}, isFile : {FALSE}, file : {"none"}]
    \cup [dir : {<<"x">>}, isFile : {TRUE}, file : {"f6"}]

(* Places an agent may start in, and the rules on them. *)
Places == {<<"home">>, <<"home", "u">>, <<"home", "u", "p">>, <<"home", "u", "p", "q">>, <<"etc", "d">>}

Rules ==
    [exact : {{<<"home">>, <<"home", "u">>}, {}}, parents : {{<<"etc">>}, {<<"home", "u", "p", "q">>}},
     exists : {Places, Places \ {<<"home", "u", "p", "q">>}}, git : SUBSET Places, generic : {{"q"}}]

PathCalls ==
    {[kind |-> "walk", tree |-> t, mentioned |-> m, cap |-> n] :
       t \in Trees, m \in UNION {[1..k -> Mentions] : k \in 0..2}, n \in 0..6}
    \cup {[kind |-> "learn", rules |-> r, cwd |-> d] : r \in Rules, d \in Places}

-----------------------------------------------------------------------------
(* Caches of three projects. *)

Budgets ==
    {[projects |-> {[name |-> n, bytes |-> b[n], scanned |-> s[n], session |-> n = 2, missing |-> n = 3] :
                      n \in 1..3},
      size |-> b[1] + b[2] + b[3], budget |-> limit, pinned |-> p, queried |-> q, now |-> 4, max_age |-> 2] :
        b \in [1..3 -> 0..2], s \in {<<1, 2, 2>>, <<2, 1, 0>>}, limit \in {0, 1, 3}, p \in {{}, {1}, {2, 3}},
        q \in [1..3 -> {0, 3}]}

CleanArgs == [idle : BOOLEAN, orphans : BOOLEAN, missing : BOOLEAN, replay : BOOLEAN,
              budget : BOOLEAN, all : BOOLEAN, yes : BOOLEAN]

RetentionCalls ==
    {[kind |-> "evict", b |-> b] : b \in Budgets}
    \cup {[kind |-> "clean", b |-> b, args |-> a] :
            b \in {x \in Budgets : x.pinned = {} /\ x.queried = <<0, 0, 0>> /\ x.size > 3}, a \in CleanArgs}

-----------------------------------------------------------------------------
(* Configurations *)

Found == {{}, {[name |-> "p", ignored |-> FALSE], [name |-> "q", ignored |-> FALSE]},
          {[name |-> "p", ignored |-> FALSE], [name |-> "q", ignored |-> TRUE],
           [name |-> "s", ignored |-> FALSE]}}

Floors == {[p \in {} |-> 0], [p \in {"q"} |-> 30]}

SetFields ==
    {[auto_discover |-> a, include |-> i, exclude |-> e, sentinels |-> s, relevance_floor |-> f,
      project_floors |-> g] :
        a \in BOOLEAN, i \in {{}, {"p"}, {"q", "s"}}, e \in {{}, {"s"}}, s \in {{}, {"git"}},
        f \in {0, 50, 120}, g \in Floors}

ConfigFiles ==
    [exists : {TRUE}, sections : {Sections, {"corpus"}, {"corpus", "unknown"}}, fields : SetFields]
    \cup {[exists |-> FALSE, sections |-> {}, fields |-> [f \in {} |-> 0]]}

Environments == {[v \in {} |-> <<>>], [v \in {"port"} |-> <<9000>>], [v \in {"port"} |-> <<>>],
                 [v \in {"auto_discover"} |-> <<FALSE>>], [v \in {"LONGCTX_TS"} |-> <<1>>],
                 [v \in {"AUTO_LEARN"} |-> <<1>>]}

Answers == [kind : {"all", "none", "quit"}, names : {{}}] \cup [kind : {"toggle"}, names : {{"p"}, {"q"}}]
Picks == UNION {[1..n -> Answers] : n \in 0..2}

InitArgs == [interactive : BOOLEAN, auto_discover : BOOLEAN, include : {{}, {"p"}}, force : BOOLEAN]

ConfigCalls ==
    {[kind |-> "load", file |-> f, env |-> v, project |-> p, floor |-> 60] :
       f \in ConfigFiles, v \in Environments, p \in {"", "q"}}
    \cup {[kind |-> "reload", file |-> f, found |-> d, indexed |-> n] :
            f \in ConfigFiles, d \in Found, n \in SUBSET {"p", "q", "t"}}
    \cup {[kind |-> "init", args |-> a, found |-> d, picks |-> k, file |-> f] :
            a \in InitArgs, d \in Found, k \in Picks,
            f \in {x \in ConfigFiles : ~x.exists \/ x = write_config(default_config)}}

-----------------------------------------------------------------------------
(* Packs: places on disk which may want the same name, below the root that is *)
(* scanned or elsewhere, and the entries the registry may hold.               *)

Place(p, b, w, u, v, n) == [path |-> p, base |-> b, corpus |-> w, under |-> u, valid |-> v, chunks |-> n]

Disk == {<<>>,
         <<Place(1, "m", "", TRUE, TRUE, 5), Place(2, "n", "wiki-en", TRUE, TRUE, 7)>>,
         <<Place(2, "m", "", TRUE, FALSE, 0), Place(1, "m", "", TRUE, TRUE, 6)>>,
         <<Place(1, "m", "", TRUE, TRUE, 5), Place(2, "m", "", TRUE, TRUE, 8)>>,
         <<Place(1, "m", "", TRUE, TRUE, 5), Place(2, "m", "", FALSE, TRUE, 8)>>,
         <<Place(4, "n", "", FALSE, TRUE, 7)>>,
         <<Place(1, "My Pack", "", TRUE, TRUE, 5), Place(4, "n", "", FALSE, TRUE, 7)>>}

(* The user's commands before the scan, some on directories since gone. *)
Gone == Place(3, "old", "", TRUE, TRUE, 9)
Moved == Place(3, "m", "", TRUE, TRUE, 9)

UserCommands ==
    [op : {"register"}, dir : {Gone, Moved} \cup UNION {Range(d) : d \in Disk}, name : {"", "mine"},
     dedup : {"auto", "yes"}]
    \cup [op : {"unregister", "mark_used", "refresh"}, name : {"m", "mine"}]

PackCalls ==
    {c \in [kind : {"packs"}, root : BOOLEAN, disk : Disk, ops : UNION {[1..n -> UserCommands] : n \in 0..2}] :
       c.root \/ \A d \in Range(c.disk) : ~d.under}
=============================================================================
