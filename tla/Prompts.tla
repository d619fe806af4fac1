------------------------------- MODULE Prompts -------------------------------
(***************************************************************************)
(* What one prompt is about: a state is the prompt that was given to        *)
(* detect_scope and detect_scopes (longctx-svc: scope/detect.py), with the  *)
(* directory its caller works in, if it says so.                            *)
(***************************************************************************)
EXTENDS ScopeDetect

CONSTANTS
    Given,       \* the prompts: [mentions, explicit_root, default_scope]
    Existing     \* the paths that exist

VARIABLE prompt  \* the prompt given, or NoPrompt

NoPrompt == [mentions |-> <<>>, explicit_root |-> NoDir, default_scope |-> NoDir]

Mention == [absolute : BOOLEAN, path : Seq(STRING), ext : BOOLEAN]
Prompt == [mentions : Seq(Mention), explicit_root : Seq(STRING), default_scope : Seq(STRING)]

ASSUME GivenAssumption == Given \subseteq Prompt /\ NoDir \notin SentinelDirs

PromptInit == prompt = NoPrompt

PromptNext == prompt = NoPrompt /\ prompt' \in Given

PromptSpec == PromptInit /\ [][PromptNext]_prompt

-----------------------------------------------------------------------------
(* Properties *)

PathsNamed == extract_paths_from_prefill(prompt.mentions, prompt.default_scope, Existing)

(* r holds the sentinel nearest to p. *)
Nearest(p, r) ==
    /\ r \in SentinelDirs \cap Upwards(p)
    /\ \A d \in SentinelDirs \cap Upwards(p) : d \in Ancestors(r) \cup {r}

(* The mentions r is the nearest root of. *)
Owned(r) == {k \in DOMAIN PathsNamed : Nearest(PathsNamed[k], r)}

(* detect_scope: unless the scope is given, it is the nearest root of most    *)
(* mentions, of as many the one first met.  Its last refinement ("a deeper    *)
(* shared sub-directory that ALSO has a sentinel, prefer that") never finds   *)
(* one: it would have been the nearest root of each of the mentions already.  *)
(* (A file named in full and relative to the working directory counts twice.) *)
DetectIsNearestRoot ==
    LET found == detect_scope(prompt.explicit_root, PathsNamed)
        r == found.root
    IN IF prompt.explicit_root # NoDir THEN r = prompt.explicit_root
       ELSE /\ r = NoDir <=> \A o \in SentinelDirs : Owned(o) = {}
            /\ r # NoDir =>
                 /\ Owned(r) # {}
                 /\ \A o \in SentinelDirs \ {r} :
                      \/ Cardinality(Owned(o)) < Cardinality(Owned(r))
                      \/ /\ Cardinality(Owned(o)) = Cardinality(Owned(r))
                         /\ \E k \in Owned(r) : \A j \in Owned(o) : k < j

(* detect_scopes gives every mention that has a root to that root alone, and  *)
(* the scope of detect_scope is one of its roots.                             *)
ScopesShareOut ==
    LET scopes == detect_scopes(PathsNamed)
        r == detect_scope(NoDir, PathsNamed).root
    IN /\ \A o \in DOMAIN scopes : scopes[o] # <<>> /\ \A p \in Range(scopes[o]) : Nearest(p, o)
       /\ \A p \in Range(PathsNamed), o \in SentinelDirs : Nearest(p, o) => o \in DOMAIN scopes /\ p \in Range(scopes[o])
       /\ r # NoDir => r \in DOMAIN scopes

(* A prompt that names existing files below the working directory relative to *)
(* it is about the same paths as one that names them in full, if each has an  *)
(* extension and a directory between ("a/b.py": a lone "b.py" is not found).  *)
Shortened(m, work) ==
    [absolute |-> FALSE, path |-> SubSeq(m.path, Len(work) + 1, Len(m.path)), ext |-> m.ext]

RelativeIsFull ==
    LET ms == prompt.mentions
        work == prompt.default_scope
        short == [k \in DOMAIN ms |-> Shortened(ms[k], work)]
    IN (work # NoDir /\ \A k \in DOMAIN ms :
            /\ ms[k].absolute /\ Recognised(ms[k]) /\ ms[k].ext /\ ms[k].path \in Existing
            /\ work \in Ancestors(ms[k].path) /\ Len(ms[k].path) > Len(work) + 1)
         => extract_paths_from_prefill(short, work, Existing) = PathsNamed

(* DetectIsNearestRoot, ScopesShareOut and RelativeIsFull: the directory a    *)
(* prompt is taken to be about.                                               *)
ScopeIsNearest == DetectIsNearestRoot /\ ScopesShareOut /\ RelativeIsFull
=============================================================================
