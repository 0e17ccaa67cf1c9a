------------------------------- MODULE DataDirs --------------------------------
(* Where the assistants keep their sessions (src/data_dirs.c): the candidate    *)
(* paths of each provider, the one a sync scans and the directories the watcher *)
(* watches.  A path is a sequence of names; the table of providers is a         *)
(* constant, and its quirks are data as they are in the code.                   *)
EXTENDS Naturals, SequencesExt

CONSTANTS
    Table,          \* the providers: name, envSuffix, trimProjects, defaults
    MaxCandidates,  \* MAX_CANDIDATES
    MaxRoots        \* MAX_ROOTS of src/watcher.c

ASSUME DataDirsConstants == MaxCandidates \in Nat /\ MaxRoots \in Nat

\* The variable is not set, which no list of paths is.
Unset == << <<"unset">> >>

\* A file system has directories and files, and the parent of everything in it.
FileSystem(fs) ==
    /\ fs.dirs \intersect fs.files = {}
    /\ \A p \in fs.dirs \union fs.files : Len(p) > 1 => Front(p) \in fs.dirs

PathExists(fs, path) == path \in fs.dirs \union fs.files

\* trim_projects_segment: a trailing "projects" gives way to its parent.
TrimProjectsSegment(path) ==
    IF Len(path) > 1 /\ Last(path) = "projects" THEN Front(path) ELSE path

\* split_configured: the entries of the environment variable that are not blank.
SplitConfigured(p, value) ==
    LET entries == SelectSeq(value, LAMBDA e : e # <<>>)
        kept == SubSeq(entries, 1, IF Len(entries) < MaxCandidates
                                   THEN Len(entries) ELSE MaxCandidates)
    IN  [i \in DOMAIN kept |->
            (IF p.trimProjects THEN TrimProjectsSegment(kept[i]) ELSE kept[i])
                \o p.envSuffix]

\* candidates_for: a variable that is set replaces the defaults, even if nothing
\* in it is a path.
CandidatesFor(p, env) ==
    IF env[p.name] = Unset THEN p.defaults ELSE SplitConfigured(p, env[p.name])

\* data_dirs_resolve_with: the first candidate of each provider that exists.
FirstExisting(candidates, fs) ==
    {i \in DOMAIN candidates :
        /\ PathExists(fs, candidates[i])
        /\ \A j \in 1..(i - 1) : ~PathExists(fs, candidates[j])}

Resolve(env, fs) ==
    UNION {{[provider |-> p.name, dir |-> CandidatesFor(p, env)[i]] :
               i \in FirstExisting(CandidatesFor(p, env), fs)} : p \in Table}

\* watchable_dir: a file is watched through its directory.
WatchableDir(path, fs) ==
    IF path \in fs.dirs THEN {path}
    ELSE IF path \in fs.files /\ Len(path) > 1 THEN {Front(path)} ELSE {}

\* Watches what the sync would scan at this moment.
WatchPaths_Resolved(env, fs) ==
    UNION {WatchableDir(r.dir, fs) : r \in Resolve(env, fs)}

\* data_dirs_watch_paths_with: every candidate is watched, not only the first.
WatchPaths(env, fs) ==
    UNION {UNION {WatchableDir(c, fs) : c \in ToSet(CandidatesFor(p, env))} : p \in Table}

\* watcher_start opens no more than its roots; which of the paths are left out
\* depends on how their names sort.
RootsOf(paths) ==
    IF Cardinality(paths) <= MaxRoots THEN {paths}
    ELSE {some \in SUBSET paths : Cardinality(some) = MaxRoots}
===============================================================================
