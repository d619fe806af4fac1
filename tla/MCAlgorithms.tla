---------------------------- MODULE MCAlgorithms ----------------------------
(***************************************************************************)
(* The functions of the system over bounded inputs: each state is one batch *)
(* of events, one call, the turns of one session so far, or one prompt.     *)
(*                                                                          *)
(* Events: all histories of up to MaxLen changes on a few paths.            *)
(* Searches: rankings of three chunks by two lexical queries and a dense    *)
(* one, and the limits on what is taken from them.                          *)
(* Sessions: turns that mention files of two sub-projects side by side, of  *)
(* which the second has a package of its own.                               *)
(* Prompts: up to three mentions of files and directories of these.         *)
(* The calls of the other functions are in MCText and MCPlaces.             *)
(***************************************************************************)
EXTENDS Algorithms, MCText, MCPlaces, Batches, ScopeTracker, Prompts

CONSTANT MaxLen     \* bound: events in a batch

(* The chunks: ids 1 and 2 are of one document; 3 is the largest. *)
MCIds == {1, 2, 3}
Corpus == [tokens |-> <<1, 2, 3>>, root |-> <<0, 0, 1>>, cosine |-> <<60, 80, 60>>, boost |-> <<0, 1, 1>>]

SomeRankings == {<<>>} \cup UNION {{s \in [1..n -> MCIds] : IsInjective(s)} : n \in 1..3}

SearchFor(lex, dense, suppress, max_results, max_tokens, dedup, floor, exists, code) ==
    [kind |-> "search", lex |-> lex, dense |-> <<dense>>, weights |-> [bm25 |-> 1, dense |-> 1],
     suppress |-> suppress, max_results |-> max_results, max_tokens |-> max_tokens,
     dedup |-> dedup, floor |-> floor, exists |-> exists, code_signal |-> code,
     auto_policy |-> FALSE, default_floor |-> 50, tokens |-> Corpus.tokens, root |-> Corpus.root,
     cosine |-> Corpus.cosine, boost |-> Corpus.boost]

(* Searches whose rankings differ in every way, without limits, and searches *)
(* with every combination of limits.                                         *)
MCSearches ==
    {SearchFor(<<l1, l2>>, d, {}, 3, 9, FALSE, 0, MCIds, FALSE) : l1, l2, d \in SomeRankings}
    \cup {SearchFor(<<l>>, d, suppress, n, budget, dedup, floor, exists, code) :
            l \in {<<>>, <<1, 2, 3>>, <<3, 1, 2>>}, d \in {<<>>, <<2>>, <<2, 3, 1>>, <<3, 2, 1>>},
            suppress \in SUBSET MCIds,
            exists \in {MCIds, {1, 3}}, n \in 1..2, budget \in {2, 4}, dedup \in BOOLEAN,
            code \in BOOLEAN, floor \in {0, 70}}

(* Queries for the routing: which names they mention, where they come from   *)
(* and what else is indexed.                                                 *)
MCNames == {"app", "core", "lib", "new"}
MCRoutes ==
    [kind : {"route"}, cued : SUBSET {"app"}, bare : SUBSET {"core", "app"}, identifier : BOOLEAN,
     natural : BOOLEAN, words : {1, 5}, chars : {4, 40}, project : {NoProject, "core"},
     sticky : {NoProject, "lib"}, cwd : {NoCwd, <<"h", "core", "x">>, <<"h", "lib">>},
     indexed : {<<>>, <<"app">>, <<"app", "core">>, <<"core", "lib">>},
     roots : {NoRoots, "core" :> <<"h", "core">> @@ "lib" :> <<"h">>}, chunks : {1, 40}]

dirA == <<"/", "data", "a">>
dirB == <<"/", "data", "b">>
dirP == Append(dirB, "p")
MCMentionable ==
    {Append(dirA, "1"), Append(dirA, "2"), Append(dirB, "1"), Append(dirB, "2"), Append(dirP, "1")}
MCSentinelDirs == {dirA, <<"/", "data">>, dirP}
MCDirPaths == {<<"/">>, <<"/", "data">>, dirA, dirB, dirP}
MCExisting == MCMentionable \cup MCDirPaths
MCLexRank(d) == Len(d) + IF Len(d) > 2 /\ d[3] = "b" THEN 1 ELSE 0

(* Files and directories, named in full or relative to /data; some mentions   *)
(* are of no path on disk, or not recognised as paths.                        *)
Full(path, ext) == [absolute |-> TRUE, path |-> path, ext |-> ext]
Short(path, ext) == [absolute |-> FALSE, path |-> path, ext |-> ext]
MCMentions ==
    {Full(Append(dirA, "1"), TRUE), Full(Append(dirB, "1"), TRUE), Full(Append(dirP, "1"), TRUE),
     Full(dirP, FALSE), Full(<<"/", "etc", "a", "1">>, TRUE), Short(<<"a", "1">>, TRUE),
     Short(<<"b", "p", "1">>, TRUE), Short(<<"b", "p">>, FALSE), Short(<<"1">>, TRUE),
     Short(<<"a", "3">>, TRUE)}
MCGiven ==
    [mentions : UNION {[1..n -> MCMentions] : n \in 0..3}, explicit_root : {NoDir},
     default_scope : {NoDir, <<"/", "data">>, dirA}]
    \cup [mentions : {<<m>> : m \in MCMentions}, explicit_root : {dirB}, default_scope : {NoDir}]

Init == BatchInit /\ AlgInit /\ TrackerInit /\ PromptInit

NoBatch == events = <<>> /\ before = {}

AnEvent == /\ Len(events) < MaxLen /\ call = NoCall /\ TrackerInit /\ PromptInit /\ BatchNext
           /\ UNCHANGED <<call, tvars, prompt>>

ACall == NoBatch /\ TrackerInit /\ PromptInit /\ AlgNext /\ UNCHANGED <<bvars, tvars, prompt>>

ATurn == NoBatch /\ call = NoCall /\ PromptInit /\ TrackerNext /\ UNCHANGED <<bvars, call, prompt>>

APrompt == NoBatch /\ call = NoCall /\ TrackerInit /\ PromptNext /\ UNCHANGED <<bvars, call, tvars>>

Next == AnEvent \/ ACall \/ ATurn \/ APrompt

Spec == Init /\ [][Next]_<<bvars, call, tvars, prompt>>
=============================================================================
