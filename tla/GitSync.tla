------------------------------ MODULE GitSync ------------------------------
(***************************************************************************)
(* How the repositories come to disk: config.Load, then for each Run the   *)
(* workspace and, concurrently, syncRepo of every repository               *)
(* (internal/scan/runner.go), while what is upstream changes and the       *)
(* process may be stopped at any point.  With git_cache_dir the clones are *)
(* kept from run to run and from process to process; otherwise each run    *)
(* has a temporary directory of its own.                                   *)
(*                                                                         *)
(* A commit is known by its URL, its branch and its number there.  git is  *)
(* modelled by what each command needs and leaves.  When the context is    *)
(* done exec.CommandContext kills the command: it leaves its lock file and *)
(* half its work behind, as it does when the whole process is killed.      *)
(* A directory is the path that leads to it from the one workDir is in.    *)
(* How many repositories sync at once is the subject of ScanRunner.        *)
(***************************************************************************)
EXTENDS Naturals, SequencesExt

CONSTANTS
  Urls, Branches,
  Files,        \* what the configuration file may say, over time
  SafeChars,    \* letters, digits, "-", "_" and "."
  MaxStops,     \* bound: ends of the process
  MaxFailures,  \* bound: commands that fail for want of the network
  MaxChanges    \* bound: changes upstream

None == "none"   \* no URL, no branch

\* A name, and each step of a path within the repository, is what it is spelled of.
Repo == [name : Seq(STRING), url : Urls, path : Seq(Seq(STRING))]

ASSUME FilesAreConfigs == Files \subseteq [repos : Seq(Repo), cache : BOOLEAN]
ASSUME DashIsSafe == "-" \in SafeChars /\ SafeChars \subseteq STRING
ASSUME SomeBranch == Branches # {}
ASSUME NoneIsNone == None \notin Urls \cup Branches
ASSUME BoundsAreNatural ==
  MaxStops \in Nat /\ MaxFailures \in Nat /\ MaxChanges \in Nat

VARIABLES
  up,        \* the process runs
  config,    \* what it has loaded
  running,   \* a Run is in progress
  pc,        \* where the sync of each configured repository is
  disk,      \* the clones in git_cache_dir (TRUE) and in the run's own directory
  nested,    \* whether workDir has become a clone itself; disk then no longer
             \* says what is in the directories inside it
  remote,    \* what is upstream
  shown,     \* history: the commits that were upstream during this Run, and
             \* whether on the default branch
  scanned,   \* history: what each repository's files were in this Run
  stops, failures, changes   \* what of the bounds is used up

procVars == <<up, config, running, pc>>
counters == <<stops, failures, changes>>
vars == <<procVars, disk, nested, remote, shown, scanned, counters>>

Commit == [url : Urls, branch : Branches, number : Nat \ {0}]

\* Files that are no commit's, or nobody knows which.
Others == [url |-> None, branch |-> None, number |-> 0]

\* A clone directory.  branch: the only one its refspec fetches, if it has one.
\* fetched: FETCH_HEAD, if any.  tree: the commits its files are of, which is one
\* unless checking them out was cut short.
Clone == [git : BOOLEAN, origin : Urls \cup {None}, branch : Branches \cup {None},
          fetched : SUBSET Commit, tree : SUBSET Commit,
          locks : SUBSET {"config", "shallow", "index"}]

Empty == [git |-> FALSE, origin |-> None, branch |-> None, fetched |-> {},
          tree |-> {}, locks |-> {}]

Phase == {"waiting", "clone", "set-url", "fetch", "reset", "scan", "done", "failed"}

-----------------------------------------------------------------------------
(* The configuration.                                                       *)

\* The directory of a repository: other characters become dashes.
SafeName(name) ==
  [k \in DOMAIN name |-> IF name[k] \in SafeChars THEN name[k] ELSE "-"]

\* A wrong Accepted: it is the names that must differ.
AcceptedByName(c) ==
  /\ c.repos # <<>>
  /\ \A i \in DOMAIN c.repos : c.repos[i].name # <<>>
  /\ \A i, j \in DOMAIN c.repos : i # j => c.repos[i].name # c.repos[j].name
\* Load refuses the file otherwise.
Accepted(c) ==
  /\ c.repos # <<>>
  /\ \A i \in DOMAIN c.repos : c.repos[i].name # <<>>
  /\ \A i, j \in DOMAIN c.repos :
       i # j => SafeName(c.repos[i].name) # SafeName(c.repos[j].name)

Slots  == DOMAIN config.repos
Url(i) == config.repos[i].url

\* filepath.Join cleans what it joins: "." stays, ".." goes up.
Dot == <<".">>
Up  == <<".", ".">>
Enter(dir, step) ==
  IF step = Dot THEN dir
  ELSE IF step = Up /\ dir # <<>> /\ Last(dir) # Up THEN Front(dir)
  ELSE Append(dir, step)

Join(dir, path) == FoldLeft(Enter, dir, path)

WorkDir == <<<<"w">>>>
Above   == <<>>

\* The directory of every name that a configuration has.
Names == UNION {{c.repos[i].name : i \in DOMAIN c.repos} : c \in Files}
DirOf == [name \in Names |-> Enter(WorkDir, SafeName(name))]
Dirs  == {DirOf[name] : name \in Names}

Dest(i) == DirOf[config.repos[i].name]
Here(i) == disk[config.cache][Dest(i)]

\* SafeName keeps dots: two names stand for directories around all the others.
Around(dir) == dir \in {WorkDir, Above}

\* The sync has its directory to itself.
Apart(i) == ~Around(Dest(i)) /\ ~nested[config.cache]

\* Path is joined as it is, and what it leads to may be in another clone.
ScanPath(i) == Join(Dest(i), config.repos[i].path)
Holding(dir) == {d \in Dirs : ~Around(d) /\ IsPrefix(d, dir)}

TypeOK ==
  /\ up \in BOOLEAN /\ running \in BOOLEAN
  /\ config \in Files
  /\ pc \in [Slots -> Phase]
  /\ disk \in [BOOLEAN -> [Dirs -> Clone]]
  /\ nested \in [BOOLEAN -> BOOLEAN]
  /\ remote \in [Urls -> [head : Branches, live : SUBSET Branches,
                          tip : [Branches -> Nat \ {0}]]]
  /\ shown \in SUBSET (Commit \X BOOLEAN)
  /\ scanned \in [Slots -> SUBSET (Commit \cup {Others})]
  /\ stops \in Nat /\ failures \in Nat /\ changes \in Nat

Init ==
  /\ up = TRUE /\ running = FALSE
  /\ config \in Files /\ Accepted(config)
  /\ pc = [i \in Slots |-> "waiting"]
  /\ disk = [kept \in BOOLEAN |-> [d \in Dirs |-> Empty]]
  /\ nested = [kept \in BOOLEAN |-> FALSE]
  /\ LET b == CHOOSE x \in Branches : TRUE IN  \* they are all alike
     remote = [u \in Urls |-> [head |-> b, live |-> {b}, tip |-> [x \in Branches |-> 1]]]
  /\ shown = {}
  /\ scanned = [i \in Slots |-> {}]
  /\ stops = 0 /\ failures = 0 /\ changes = 0

-----------------------------------------------------------------------------
(* Upstream.                                                                *)

Tip(u, b) == [url |-> u, branch |-> b, number |-> remote[u].tip[b]]
Tips == UNION {{<<Tip(u, b), b = remote[u].head>> : b \in remote[u].live} : u \in Urls}

\* A branch, new or not, gets a commit; it may become the default branch, and
\* then the one that was may be deleted.
Change(u) ==
  /\ changes < MaxChanges
  /\ changes' = changes + 1
  /\ \E b \in Branches, head \in Branches, live \in SUBSET Branches :
       /\ head \in {remote[u].head, b}
       /\ live = remote[u].live \cup {b}
          \/ (head # remote[u].head /\ live = (remote[u].live \ {remote[u].head}) \cup {b})
       /\ remote' = [remote EXCEPT ![u] =
            [head |-> head, live |-> live, tip |-> [remote[u].tip EXCEPT ![b] = @ + 1]]]
  /\ shown' = shown \cup Tips'
  /\ UNCHANGED <<procVars, disk, nested, scanned, stops, failures>>

-----------------------------------------------------------------------------
(* The process and its runs.                                                *)

Boot ==
  /\ ~up
  /\ \E c \in Files :
       /\ Accepted(c)
       /\ config' = c
       /\ pc' = [i \in DOMAIN c.repos |-> "waiting"]
       /\ scanned' = [i \in DOMAIN c.repos |-> {}]
  /\ up' = TRUE
  /\ UNCHANGED <<running, disk, nested, remote, shown, counters>>

\* setupWorkspace: a temporary directory is a new one.
BeginRun ==
  /\ up /\ ~running
  /\ running' = TRUE
  /\ pc' = [i \in Slots |-> "waiting"]
  /\ scanned' = [i \in Slots |-> {}]
  /\ disk' = [disk EXCEPT ![FALSE] = [d \in Dirs |-> Empty]]
  /\ nested' = [nested EXCEPT ![FALSE] = FALSE]
  /\ shown' = Tips
  /\ UNCHANGED <<up, config, remote, counters>>

At(i, phase) == running /\ pc[i] = phase /\ Apart(i)

\* The directory is left as clone and its sync goes on to phase.
To(i, phase, clone) ==
  /\ pc' = [pc EXCEPT ![i] = phase]
  /\ disk' = [disk EXCEPT ![config.cache][Dest(i)] = clone]
  /\ UNCHANGED <<up, config, running, nested, remote, shown, scanned, counters>>

\* A wrong SyncRepo: what is there is cloned again.
SyncRepoAnew(clone) == "clone"
\* Only whether there is a .git is asked.
SyncRepo(clone) == IF clone.git THEN "set-url" ELSE "clone"

Sync(i) == At(i, "waiting") /\ To(i, SyncRepo(Here(i)), Here(i))

\* git clone wants its directory empty and takes the default branch.
Cloned(u) == [git |-> TRUE, origin |-> u, branch |-> remote[u].head,
              fetched |-> {}, tree |-> {Tip(u, remote[u].head)}, locks |-> {}]

CloneRepo(i) ==
  /\ At(i, "clone")
  /\ IF Here(i) = Empty THEN To(i, "scan", Cloned(Url(i)))
                        ELSE To(i, "failed", Here(i))

SetURL(i) ==
  /\ At(i, "set-url")
  /\ IF Here(i).origin = None \/ "config" \in Here(i).locks
     THEN To(i, "failed", Here(i))
     ELSE To(i, "fetch", [Here(i) EXCEPT !.origin = Url(i)])

\* A refspec that was never written makes git fetch the default branch.
Fetches(clone) ==
  IF clone.branch = None THEN remote[clone.origin].head ELSE clone.branch

\* A wrong AfterFetch: what fails to be fetched is reset to all the same.
AfterFetchAny(ok) == "reset"
AfterFetch(ok) == IF ok THEN "reset" ELSE "failed"

Fetch(i) ==
  /\ At(i, "fetch")
  /\ LET clone == Here(i)
         b  == Fetches(clone)
         ok == "shallow" \notin clone.locks /\ b \in remote[clone.origin].live
     IN To(i, AfterFetch(ok), IF ok THEN [clone EXCEPT !.fetched = {Tip(clone.origin, b)}]
                                    ELSE clone)

\* reset --hard FETCH_HEAD makes every file the commit's, whatever was there.
Reset(i) ==
  /\ At(i, "reset")
  /\ IF "index" \in Here(i).locks \/ Here(i).fetched = {}
     THEN To(i, "failed", Here(i))
     ELSE To(i, "scan", [Here(i) EXCEPT !.tree = Here(i).fetched])

\* git clone removes what it has made.
NetworkFails(i) ==
  /\ At(i, "clone") \/ At(i, "fetch")
  /\ failures < MaxFailures
  /\ failures' = failures + 1
  /\ pc' = [pc EXCEPT ![i] = IF pc[i] = "fetch" THEN AfterFetch(FALSE) ELSE "failed"]
  /\ UNCHANGED <<up, config, running, disk, nested, remote, shown, scanned, stops,
                 changes>>

Turns(i, phase) ==
  /\ pc' = [pc EXCEPT ![i] = phase]
  /\ UNCHANGED <<up, config, running, disk, remote, shown, scanned, counters>>

\* git clone refuses a directory with something in it: workDir with another's
\* directory, and always the one workDir is in, which is assumed not to be a
\* clone of its own.
Refuse(i) ==
  /\ running /\ pc[i] = "waiting" /\ Around(Dest(i))
  /\ Turns(i, "failed") /\ UNCHANGED nested

\* A clone in workDir comes before any other, and the others then come inside it.
Nest(i) ==
  /\ running /\ pc[i] = "waiting" /\ Dest(i) = WorkDir
  /\ \A d \in Dirs : disk[config.cache][d] = Empty
  /\ Turns(i, "scan")
  /\ nested' = [nested EXCEPT ![config.cache] = TRUE]

\* Of clones within each other it is not told what becomes of a sync.
SyncNested(i) ==
  /\ running /\ nested[config.cache]
  /\ pc[i] \notin {"scan", "done", "failed"}
  /\ \E phase \in {"scan", "failed"} : Turns(i, phase)
  /\ UNCHANGED nested

\* scanDir has read the files, another clone's as they were at one moment.
Reads(i) ==
  IF nested[config.cache] \/ Holding(ScanPath(i)) = {} THEN {Others}
  ELSE UNION {disk[config.cache][d].tree : d \in Holding(ScanPath(i))}

Scan(i) ==
  /\ running /\ pc[i] = "scan"
  /\ pc' = [pc EXCEPT ![i] = "done"]
  /\ scanned' = [scanned EXCEPT ![i] = Reads(i)]
  /\ UNCHANGED <<up, config, running, disk, nested, remote, shown, counters>>

\* A temporary directory is removed; the next is another.
EndRun ==
  /\ running /\ \A i \in Slots : pc[i] \in {"done", "failed"}
  /\ running' = FALSE
  /\ UNCHANGED <<up, config, pc, disk, nested, remote, shown, scanned, counters>>

\* What a command that is killed may leave.
Partial(i) ==
  LET clone == Here(i)
      head == remote[Url(i)].head
      begun(origin, branch, locks) ==
        [Empty EXCEPT !.git = TRUE, !.origin = origin, !.branch = branch, !.locks = locks]
      held(lock) == [clone EXCEPT !.locks = @ \cup {lock}]
  IN CASE At(i, "clone") ->
            {clone, begun(None, None, {}), begun(Url(i), None, {"config"}),
             begun(Url(i), None, {"shallow"}), begun(Url(i), None, {}),
             begun(Url(i), head, {"index"}), begun(Url(i), head, {})}
       [] At(i, "set-url") ->
            {clone, held("config"), [clone EXCEPT !.origin = Url(i)]}
       [] At(i, "fetch") -> {clone, held("shallow")}
       [] At(i, "reset") ->
            {clone, [held("index") EXCEPT !.tree = @ \cup clone.fetched],
             [clone EXCEPT !.tree = clone.fetched]}
       [] OTHER -> {clone}

Left(d) ==
  IF \E i \in Slots : Dest(i) = d
  THEN UNION {Partial(i) : i \in {k \in Slots : Dest(k) = d}}
  ELSE {disk[config.cache][d]}

\* The process ends: a one-shot scan is over, a signal has it stop, or it is
\* killed, and with it every git command.
Stop ==
  /\ up /\ stops < MaxStops
  /\ stops' = stops + 1
  /\ up' = FALSE /\ running' = FALSE
  /\ shown' = {}
  /\ pc' = [i \in Slots |-> "waiting"]
  /\ scanned' = [i \in Slots |-> {}]
  /\ \E left \in [Dirs -> UNION {Left(d) : d \in Dirs}] :
       /\ \A d \in Dirs : left[d] \in Left(d)
       /\ disk' = [disk EXCEPT ![config.cache] = left]
  /\ UNCHANGED <<config, nested, remote, failures, changes>>

Step(i) ==
  \/ Sync(i) \/ CloneRepo(i) \/ SetURL(i) \/ Fetch(i) \/ Reset(i) \/ Scan(i)
  \/ Refuse(i) \/ Nest(i) \/ SyncNested(i)

Next ==
  \/ \E u \in Urls : Change(u)
  \/ Boot \/ BeginRun \/ EndRun \/ Stop
  \/ \E i \in Slots : Step(i) \/ NetworkFails(i)

Spec == Init /\ [][Next]_vars

\* Runs come again (the scheduler of serve, or a CronJob), a process that ended is
\* started again, and commands end: git is assumed not to hang.  A sync has few
\* steps in a Run, so it is enough that one of them goes on while any can.
FairSpec ==
  /\ Spec
  /\ WF_vars(Boot) /\ WF_vars(BeginRun) /\ WF_vars(EndRun)
  /\ WF_vars(\E i \in Slots : Step(i))

-----------------------------------------------------------------------------
(* Properties.                                                              *)

\* One commit, which the repository has had at its URL since the Run began, and on the
\* default branch unless a kept clone decides on the branch.
Upstream(i, commits) ==
  \E one \in shown :
    /\ commits = {one[1]} /\ one[1].url = Url(i)
    /\ config.cache \/ one[2]

\* The directory of one repository of an accepted configuration is not in that of
\* another, unless the other one's name is "." or "..", which Load lets pass.
DirsApart ==
  \A i, j \in Slots : i # j /\ IsPrefix(Dest(i), Dest(j)) => Around(Dest(i))

\* What a sync has done so far, whatever its directory held when it began; once it
\* is done the files stay what they are while they are scanned.
SyncExact ==
  running => \A i \in Slots : Apart(i) =>
    LET clone == Here(i) IN
    /\ pc[i] \in {"set-url", "fetch", "reset"} => clone.git
    /\ pc[i] = "clone" => clone = Empty
    /\ pc[i] \in {"fetch", "reset"} => clone.origin = Url(i)
    /\ pc[i] = "reset" => Upstream(i, clone.fetched)
    /\ pc[i] = "scan" => Upstream(i, clone.tree)

\* A directory without .git is empty, whatever was killed in it, and a temporary
\* one is never fetched into; a clone of the workDir itself was there first.
CleanStart ==
  /\ \A kept \in BOOLEAN, d \in Dirs :
       nested[kept] \/ disk[kept][d].git \/ disk[kept][d] = Empty
  /\ running /\ ~config.cache => \A i \in Slots : Apart(i) =>
       /\ pc[i] = "waiting" => Here(i) = Empty
       /\ pc[i] \notin {"set-url", "fetch", "reset"}

\* The syncs of a Run keep out of each other's way unless a repository is named "."
\* or "..", and each has what it needs at every command (config.go:76,
\* runner.go:69, :261).
GitInv == TypeOK /\ DirsApart /\ SyncExact /\ CleanStart

\* What is scanned as a repository is one whole commit that its configured URL
\* had during this Run, whatever URLs, kills and failures left in the directory
\* before, if its path does not lead out of its directory and no clone is around
\* that (runner.go:80, :280).
ScannedIsUpstream ==
  \A i \in Slots :
    pc[i] = "done" /\ Apart(i) /\ IsPrefix(Dest(i), ScanPath(i))
      => Upstream(i, scanned[i])

\* What no later sync repairs: no remote, a lock file, or a refspec for a branch
\* that is gone.
Broken(i) ==
  LET clone == Here(i) IN
  /\ clone.git
  /\ \/ clone.origin = None
     \/ clone.locks # {}
     \/ clone.branch # None /\ clone.branch \notin remote[Url(i)].live

\* Every repository that has its directory to itself is scanned again and again
\* unless its kept clone is broken in one of those ways; an interrupted sync that
\* leaves none of them is made up for by the next (runner.go:262).
SyncsUnlessBroken ==
  \A d \in {e \in Dirs : ~Around(e)} :
    []<>(\A i \in Slots : Dest(i) = d /\ Apart(i) => pc[i] = "done" \/ Broken(i))
=============================================================================
