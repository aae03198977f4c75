-------------------------- MODULE RepositoryCache --------------------------
(***************************************************************************)
(* The repositories of tasks on their way into a workspace and into the    *)
(* index: _populate in minion/runtime/workspace.py, then                   *)
(* _preindex_workspace in minion/orchestrator.py with ensure_index in      *)
(* minion/runtime/code_index.py, for executions of several processes that  *)
(* share a cache volume.                                                   *)
(*                                                                         *)
(* A job is one repository of one execution.  The jobs of an execution     *)
(* populate one after the other; once all have, they index side by side    *)
(* and report through the one database session of the execution.           *)
(*                                                                         *)
(* A job is at a place: an await, or, in Writing, one of the synchronous   *)
(* steps of the build, during which nothing else of its process runs.      *)
(***************************************************************************)
EXTENDS FileLock, MirrorCache, CodeIndex

CONSTANTS
  Jobs,
  Procs,
  Task,       \* Task[j]: the task whose execution job j belongs to
  Repo,       \* Repo[j]: its repository
  Home,       \* Home[j]: the process of the execution
  MaxTrouble  \* bound: cancellations and crashes

Populating == {"idle", "mirror_lock", "fetching", "mirror_release", "cloning"}
Building == {"listing", "parsing", "writing", "publishing"}
Writing == {"parsing", "writing", "publishing"}
Places == Populating \cup Building \cup
  {"furnished", "index_lock", "index_release", "appending", "over"}

Results == {"none", "ready", "degraded", "failed", "cancelled"}

ASSUME LocksAssumption == Locks = {"mirror", "index"} \X Repos

ASSUME JobsAssumption ==
  /\ Repo \in [Jobs -> Repos]
  /\ Home \in [Jobs -> Procs]
  /\ None \notin Jobs
  /\ None \notin Procs
  \* The jobs of an execution run in one process.
  /\ \A j, k \in Jobs : Task[j] = Task[k] => Home[j] = Home[k]

ASSUME BoundsAssumption == MaxVersion \in Nat /\ MaxTrouble \in Nat

ASSUME TreeAssumption == Tree \in [Repos -> [Versions -> SUBSET Contents]]

VARIABLES
  at,         \* at[j]: the place of job j
  result,     \* result[j]: how it ends, as far as that is decided
  asked,      \* asked[j]: the version upstream when it asked for the mirror
  fetch,      \* fetch[j]: its git process
  base,       \* base[j]: the version its workspace was cloned at
  todo,       \* todo[j]: the contents it has yet to index
  current,    \* current[j]: the content whose object it writes
  orphans,    \* threads that still acquire a lock for a cancelled job
  strays,     \* git processes nobody waits for
  trouble     \* cancellations and crashes so far

fileVars == <<objects, manifests>>
buildVars == <<todo, current>>
workVars == <<asked, fetch, base>>
surroundings == <<orphans, strays, trouble>>
vars == <<holder, upstream, mirror, objects, manifests, at, result, asked, fetch,
          base, todo, current, orphans, strays, trouble>>

MirrorLock(j) == <<"mirror", Repo[j]>>
IndexLock(j) == <<"index", Repo[j]>>

Together(j) == {k \in Jobs : Task[k] = Task[j]}
Busy(p) == \E j \in Jobs : Home[j] = p /\ at[j] \in Writing

NoProcess == [repo |-> None, version |-> 0, clone |-> FALSE]

Init ==
  /\ LockInit
  /\ MirrorInit
  /\ IndexInit(Repos, Versions)
  /\ at = [j \in Jobs |-> "idle"]
  /\ result = [j \in Jobs |-> "none"]
  /\ asked = [j \in Jobs |-> 0]
  /\ fetch = [j \in Jobs |-> NoProcess]
  /\ base = [j \in Jobs |-> 0]
  /\ todo = [j \in Jobs |-> {}]
  /\ current = [j \in Jobs |-> None]
  /\ orphans = {}
  /\ strays = {}
  /\ trouble = 0

Go(j, place) == at' = [at EXCEPT ![j] = place]
Decide(j, how) == result' = [result EXCEPT ![j] = how]
-----------------------------------------------------------------------------
(* Into the workspace *)

\* _populate comes to the repository of j and asks for the lock of its mirror.
Start(j) ==
  /\ at[j] = "idle"
  /\ \A k \in Together(j) : at[k] \in {"idle", "furnished"}
  /\ Go(j, "mirror_lock")
  /\ asked' = [asked EXCEPT ![j] = upstream[Repo[j]]]
  /\ UNCHANGED <<holder, upstream, mirror, fileVars, result, fetch, base,
                 buildVars, surroundings>>

\* Deviation: a mirror that is there is used as it is.
FetchMirrorOnce(j) ==
  /\ at[j] = "mirror_lock"
  /\ Obtain(MirrorLock(j), HeldBy(j, Home[j]))
  /\ fetch' = [fetch EXCEPT ![j] = GitProcess(Repo[j])]
  /\ BeginFetch(Repo[j])
  /\ Go(j, IF mirror[Repo[j]].state = "absent" THEN "fetching" ELSE "mirror_release")
  /\ UNCHANGED <<upstream, fileVars, result, asked, base, buildVars, surroundings>>

FetchMirror(j) ==
  /\ at[j] = "mirror_lock"
  /\ Obtain(MirrorLock(j), HeldBy(j, Home[j]))
  /\ fetch' = [fetch EXCEPT ![j] = GitProcess(Repo[j])]
  /\ BeginFetch(Repo[j])
  /\ Go(j, "fetching")
  /\ UNCHANGED <<upstream, fileVars, result, asked, base, buildVars, surroundings>>

FetchEnds(j) ==
  /\ at[j] = "fetching"
  /\ EndFetch(fetch[j])
  /\ fetch' = [fetch EXCEPT ![j] = NoProcess]
  /\ Go(j, "mirror_release")
  /\ UNCHANGED <<holder, upstream, fileVars, result, asked, base, buildVars,
                 surroundings>>

\* Git processes whose directory has been removed can only fail.
InPlace(processes) == {g \in processes : mirror'[g.repo].state # "absent"}

FetchBreaks(j) ==
  /\ at[j] = "fetching"
  /\ BreakFetch(fetch[j])
  /\ strays' = InPlace(strays)
  /\ fetch' = [fetch EXCEPT ![j] = NoProcess]
  /\ Go(j, "mirror_release")
  /\ Decide(j, "failed")
  /\ UNCHANGED <<holder, upstream, fileVars, asked, base, buildVars, orphans, trouble>>

\* An error while populating ends the execution.
FailTask(j) ==
  /\ at' = [k \in Jobs |-> IF k \in Together(j) THEN "over" ELSE at[k]]
  /\ result' = [k \in Jobs |->
       IF k \in Together(j) /\ result[k] # "cancelled" THEN "failed" ELSE result[k]]

ReleaseMirror(j) ==
  /\ at[j] = "mirror_release"
  /\ LetGo(MirrorLock(j))
  /\ \/ /\ result[j] = "none"
        /\ Go(j, "cloning")
        /\ UNCHANGED result
     \/ /\ result[j] # "none"
        /\ FailTask(j)
  /\ UNCHANGED <<upstream, mirror, fileVars, asked, fetch, base,
                 buildVars, surroundings>>

\* The lock of the mirror is not to be had in 120 seconds, ...
MirrorTimesOut(j) ==
  /\ at[j] = "mirror_lock"
  /\ holder[MirrorLock(j)] # Free
  /\ FailTask(j)
  /\ UNCHANGED <<holder, upstream, mirror, fileVars, asked, fetch, base,
                 buildVars, surroundings>>

\* ... or the clone, from a mirror somebody broke or for a reason of its own,
\* fails.
CloneFails(j) ==
  /\ at[j] = "cloning"
  /\ FailTask(j)
  /\ UNCHANGED <<holder, upstream, mirror, fileVars, asked, fetch, base,
                 buildVars, surroundings>>

\* The workspace is cloned from the mirror, after its lock was given back.
Clone(j) ==
  /\ at[j] = "cloning"
  /\ mirror[Repo[j]].state = "whole"
  /\ base' = [base EXCEPT ![j] = mirror[Repo[j]].version]
  /\ Go(j, "furnished")
  /\ UNCHANGED <<holder, upstream, mirror, fileVars, result, asked, fetch,
                 buildVars, surroundings>>
-----------------------------------------------------------------------------
(* Into the index *)

SessionBusy(j) == \E k \in Together(j) \ {j} : at[k] = "appending"

\* The append of repository.indexed.  While another job of the execution is in
\* its append the session may refuse; so it does to the append of the handler,
\* and the exception ends the execution.
Report(j, how) ==
  \/ /\ Go(j, "appending")
     /\ Decide(j, how)
  \/ /\ SessionBusy(j)
     /\ Go(j, "over")
     /\ Decide(j, "failed")

\* Deviation: a manifest that exists is reported without being read.
LookUpUnread(j) ==
  /\ at[j] = "furnished"
  /\ \A k \in Together(j) : at[k] \notin Populating
  /\ ~Busy(Home[j])
  /\ \/ /\ manifests[Repo[j]][base[j]] # "absent"
        /\ Report(j, "ready")
     \/ /\ manifests[Repo[j]][base[j]] = "absent"
        /\ Go(j, "index_lock")
        /\ UNCHANGED result
  /\ UNCHANGED <<holder, upstream, mirror, fileVars, workVars, buildVars, surroundings>>

\* ensure_index, up to the acquisition of the lock.
LookUp(j) ==
  /\ at[j] = "furnished"
  /\ \A k \in Together(j) : at[k] \notin Populating
  /\ ~Busy(Home[j])
  /\ \/ /\ manifests[Repo[j]][base[j]] = "whole"
        /\ Report(j, "ready")
     \/ /\ manifests[Repo[j]][base[j]] = "absent"
        /\ Go(j, "index_lock")
        /\ UNCHANGED result
     \* The manifest is torn, or git fails.
     \/ Report(j, "degraded")
  /\ UNCHANGED <<holder, upstream, mirror, fileVars, workVars, buildVars, surroundings>>

\* Deviation: what was seen before the lock was had is believed.
LockIndexUnchecked(j) ==
  /\ at[j] = "index_lock"
  /\ ~Busy(Home[j])
  /\ Obtain(IndexLock(j), HeldBy(j, Home[j]))
  /\ Go(j, "listing")
  /\ UNCHANGED <<upstream, mirror, fileVars, result, workVars, buildVars,
                 surroundings>>

\* With the lock, the manifest is looked up again.
LockIndex(j) ==
  /\ at[j] = "index_lock"
  /\ ~Busy(Home[j])
  /\ Obtain(IndexLock(j), HeldBy(j, Home[j]))
  /\ \/ /\ manifests[Repo[j]][base[j]] = "absent"
        /\ Go(j, "listing")
        /\ UNCHANGED result
     \/ /\ manifests[Repo[j]][base[j]] # "absent"
        /\ Go(j, "index_release")
        /\ Decide(j, IF manifests[Repo[j]][base[j]] = "whole"
                     THEN "ready" ELSE "degraded")
  /\ UNCHANGED <<upstream, mirror, fileVars, workVars, buildVars, surroundings>>

\* Deviation: the lock is waited for without a timeout.
IndexTimesOutNever(j) == FALSE /\ UNCHANGED vars

IndexTimesOut(j) ==
  /\ at[j] = "index_lock"
  /\ ~Busy(Home[j])
  /\ holder[IndexLock(j)] # Free
  /\ Report(j, "degraded")
  /\ UNCHANGED <<holder, upstream, mirror, fileVars, workVars, buildVars, surroundings>>

ListFiles(j) ==
  /\ at[j] = "listing"
  /\ ~Busy(Home[j])
  /\ \/ /\ Go(j, "parsing")
        /\ todo' = [todo EXCEPT ![j] = Tree[Repo[j]][base[j]]]
        /\ UNCHANGED result
     \* git fails
     \/ /\ Go(j, "index_release")
        /\ Decide(j, "degraded")
        /\ UNCHANGED todo
  /\ UNCHANGED <<holder, upstream, mirror, fileVars, workVars, current, surroundings>>

\* Deviation: an object that is there is taken for good without being read.
ReuseObjectUnread(j) ==
  /\ at[j] = "parsing"
  /\ \E c \in todo[j] :
       /\ objects[Repo[j]][c] # "absent"
       /\ todo' = [todo EXCEPT ![j] = @ \ {c}]
  /\ UNCHANGED <<holder, upstream, mirror, fileVars, at, result, workVars, current,
                 surroundings>>

ReuseObject(j) ==
  /\ at[j] = "parsing"
  /\ \E c \in todo[j] :
       /\ objects[Repo[j]][c] = "whole"
       /\ todo' = [todo EXCEPT ![j] = @ \ {c}]
  /\ UNCHANGED <<holder, upstream, mirror, fileVars, at, result, workVars, current,
                 surroundings>>

\* Deviation: only errors of the operating system are caught.
MeetTornObjectUncaught(j) ==
  /\ at[j] = "parsing"
  /\ \E c \in todo[j] : objects[Repo[j]][c] = "torn"
  /\ todo' = [todo EXCEPT ![j] = {}]
  /\ Go(j, "index_release")
  /\ Decide(j, "failed")
  /\ UNCHANGED <<holder, upstream, mirror, fileVars, workVars, current, surroundings>>

MeetTornObject(j) ==
  /\ at[j] = "parsing"
  /\ \E c \in todo[j] : objects[Repo[j]][c] = "torn"
  /\ todo' = [todo EXCEPT ![j] = {}]
  /\ Go(j, "index_release")
  /\ Decide(j, "degraded")
  /\ UNCHANGED <<holder, upstream, mirror, fileVars, workVars, current, surroundings>>

StoreObject(j) ==
  \/ /\ at[j] = "parsing"
     /\ \E c \in todo[j] :
          /\ objects[Repo[j]][c] = "absent"
          /\ OpenObject(Repo[j], c)
          /\ current' = [current EXCEPT ![j] = c]
          /\ todo' = [todo EXCEPT ![j] = @ \ {c}]
     /\ Go(j, "writing")
     /\ UNCHANGED <<holder, upstream, mirror, manifests, result, workVars, surroundings>>
  \/ /\ at[j] = "writing"
     /\ WriteObject(Repo[j], current[j])
     /\ current' = [current EXCEPT ![j] = None]
     /\ Go(j, "parsing")
     /\ UNCHANGED <<holder, upstream, mirror, manifests, result, workVars, todo,
                    surroundings>>

StoreManifest(j) ==
  \/ /\ at[j] = "parsing"
     /\ todo[j] = {}
     /\ OpenManifest(Repo[j], base[j])
     /\ Go(j, "publishing")
     /\ UNCHANGED <<holder, upstream, mirror, objects, result, workVars, buildVars,
                    surroundings>>
  \/ /\ at[j] = "publishing"
     /\ WriteManifest(Repo[j], base[j])
     /\ Go(j, "index_release")
     /\ Decide(j, "ready")
     /\ UNCHANGED <<holder, upstream, mirror, objects, workVars, buildVars, surroundings>>

ReleaseIndex(j) ==
  /\ at[j] = "index_release"
  /\ ~Busy(Home[j])
  /\ LetGo(IndexLock(j))
  /\ \/ /\ result[j] = "cancelled"
        /\ Go(j, "over")
        /\ UNCHANGED result
     \/ /\ result[j] # "cancelled"
        /\ Report(j, result[j])
  /\ UNCHANGED <<upstream, mirror, fileVars, workVars, buildVars, surroundings>>

AppendEnds(j) ==
  /\ at[j] = "appending"
  /\ ~Busy(Home[j])
  /\ Go(j, "over")
  /\ UNCHANGED <<holder, upstream, mirror, fileVars, result, workVars, buildVars,
                 surroundings>>

\* A failing append is caught once: the handler reports a degraded index.
AppendFails(j) ==
  /\ at[j] = "appending"
  /\ ~Busy(Home[j])
  /\ \/ /\ result[j] = "ready"
        /\ Decide(j, "degraded")
        /\ UNCHANGED at
     \/ /\ result[j] = "degraded"
        /\ Decide(j, "failed")
        /\ Go(j, "over")
  /\ UNCHANGED <<holder, upstream, mirror, fileVars, workVars, buildVars, surroundings>>
-----------------------------------------------------------------------------
(* The surroundings *)

\* Where a job is when an exception reaches it: the lock it holds is released
\* in a finally block, and gather cancels every job of the execution.
AfterCancel(place) ==
  CASE place = "fetching" -> "mirror_release"
    [] place = "listing" -> "index_release"
    [] place \in {"mirror_release", "index_release"} -> place
    [] OTHER -> "over"

\* The git processes nobody waits for once the given jobs are cut off.
LeftBehind(jobs) ==
  InPlace(strays \cup {fetch[j] : j \in {k \in jobs : at[k] = "fetching"}})

\* The thread that acquires a lock and the git process of a cancelled job go on.
Cancel(j) ==
  LET cancelled == {k \in Together(j) : at[k] # "over"} IN
  /\ trouble < MaxTrouble
  /\ cancelled # {}
  /\ ~Busy(Home[j])
  /\ at' = [k \in Jobs |-> IF k \in cancelled THEN AfterCancel(at[k]) ELSE at[k]]
  /\ result' = [k \in Jobs |-> IF k \in cancelled THEN "cancelled" ELSE result[k]]
  /\ orphans' = orphans
       \cup {<<MirrorLock(k), Home[k]>> : k \in {k \in cancelled : at[k] = "mirror_lock"}}
       \cup {<<IndexLock(k), Home[k]>> : k \in {k \in cancelled : at[k] = "index_lock"}}
  /\ fetch' = [k \in Jobs |-> IF k \in cancelled THEN NoProcess ELSE fetch[k]]
  /\ trouble' = trouble + 1
  /\ UNCHANGED <<holder, upstream, mirror, fileVars, asked, base, buildVars>>
  /\ strays' = LeftBehind(cancelled)

OrphanEnds(o) ==
  /\ \/ Obtain(o[1], LostIn(o[2]))
     \/ holder[o[1]] # Free /\ UNCHANGED holder
  /\ orphans' = orphans \ {o}
  /\ UNCHANGED <<upstream, mirror, fileVars, at, result, workVars, buildVars, strays,
                 trouble>>

StrayEnds(g) ==
  /\ EndFetch(g) \/ BreakFetch(g)
  /\ strays' = InPlace(strays \ {g})
  /\ UNCHANGED <<holder, upstream, fileVars, at, result, workVars, buildVars, orphans,
                 trouble>>

\* The entries of the executions of process p are delivered again: to be
\* provisioned again, or, once the task was RUNNING, with the workspace they
\* had; but not that of a cancelled task.
AfterCrash(j) ==
  CASE \E k \in Together(j) : result[k] = "cancelled" -> "over"
    [] /\ \A k \in Together(j) : result[k] # "cancelled"
       /\ \E k \in Together(j) : at[k] \in Populating -> "idle"
    [] OTHER -> "furnished"

Crash(p) ==
  LET lost == {j \in Jobs : Home[j] = p /\ \E k \in Together(j) : at[k] # "over"} IN
  /\ trouble < MaxTrouble
  /\ lost # {}
  /\ at' = [j \in Jobs |-> IF j \in lost THEN AfterCrash(j) ELSE at[j]]
  /\ result' = [j \in Jobs |->
       IF j \in lost /\ AfterCrash(j) # "over" THEN "none" ELSE result[j]]
  /\ holder' = WithoutProcess(p)
  /\ orphans' = {o \in orphans : o[2] # p}
  /\ fetch' = [j \in Jobs |-> IF j \in lost THEN NoProcess ELSE fetch[j]]
  /\ todo' = [j \in Jobs |-> IF j \in lost THEN {} ELSE todo[j]]
  /\ current' = [j \in Jobs |-> IF j \in lost THEN None ELSE current[j]]
  /\ trouble' = trouble + 1
  /\ UNCHANGED <<upstream, mirror, fileVars, asked, base>>
  /\ strays' = LeftBehind(lost)

PushUpstream(r) ==
  /\ Push(r)
  /\ UNCHANGED <<holder, mirror, fileVars, at, result, workVars, buildVars, surroundings>>
-----------------------------------------------------------------------------
Populate(j) ==
  /\ ~Busy(Home[j])
  /\ \/ Start(j) \/ FetchMirror(j) \/ FetchEnds(j) \/ FetchBreaks(j)
     \/ ReleaseMirror(j) \/ MirrorTimesOut(j) \/ Clone(j) \/ CloneFails(j)

EnsureIndex(j) ==
  \/ LookUp(j) \/ LockIndex(j) \/ IndexTimesOut(j) \/ ListFiles(j)
  \/ ReuseObject(j) \/ MeetTornObject(j) \/ StoreObject(j) \/ StoreManifest(j)
  \/ ReleaseIndex(j) \/ AppendEnds(j) \/ AppendFails(j)

Step(j) == Populate(j) \/ EnsureIndex(j)

Next ==
  \/ \E j \in Jobs : Step(j)
  \/ \E j \in Jobs : Cancel(j)
  \/ \E p \in Procs : Crash(p)
  \/ \E o \in orphans : OrphanEnds(o)
  \/ \E g \in strays : StrayEnds(g)
  \/ \E r \in Repos : PushUpstream(r)

Spec == Init /\ [][Next]_vars

\* Processes run their coroutines, git processes end (run_exec kills them after
\* 600 seconds) and locks are had or given up; nothing is assumed of the rest.
FairSpec == Spec /\ \A j \in Jobs : WF_vars(Step(j))
-----------------------------------------------------------------------------
(* What it promises *)

GitProcesses == [repo : Repos, version : Versions, clone : BOOLEAN]

\* The types of everything above.
CacheTypeOK ==
  /\ holder \in [Locks -> [job : Jobs \cup {None}, process : Procs \cup {None}]]
  /\ upstream \in [Repos -> Versions]
  /\ mirror \in [Repos -> [state : {"absent", "partial", "whole"}, version : Versions]]
  /\ objects \in [Repos -> [Contents -> FileStates]]
  /\ manifests \in [Repos -> [Versions -> FileStates]]
  /\ at \in [Jobs -> Places]
  /\ result \in [Jobs -> Results]
  /\ asked \in [Jobs -> Versions]
  /\ fetch \in [Jobs -> GitProcesses \cup {NoProcess}]
  /\ base \in [Jobs -> Versions]
  /\ todo \in [Jobs -> SUBSET Contents]
  /\ current \in [Jobs -> Contents \cup {None}]
  /\ orphans \subseteq Locks \X Procs
  /\ strays \subseteq GitProcesses
  /\ trouble \in 0 .. MaxTrouble

\* However locks are lost, orphaned and timed out, only one job builds an index
\* of a repository, and it has the lock (code_index.py:383).
BuildersAlone ==
  \A j \in Jobs : at[j] \in Building =>
    /\ holder[IndexLock(j)] = HeldBy(j, Home[j])
    /\ \A k \in Jobs : Repo[k] = Repo[j] /\ at[k] \in Building => k = j

\* No manifest that can be read refers to an object that cannot.
ManifestsAreBacked ==
  \A r \in Repos, v \in Versions :
    manifests[r][v] = "whole" => \A c \in Tree[r][v] : objects[r][c] = "whole"

\* What a reader that takes no lock has found whole stays so: nobody opens a
\* finished manifest or object for writing again (code_index.py:373, 386, 407).
FinishedFilesStand ==
  [][/\ \A r \in Repos, v \in Versions :
          manifests[r][v] = "whole" => manifests'[r][v] = "whole"
     /\ \A r \in Repos, c \in Contents :
          objects[r][c] = "whole" => objects'[r][c] = "whole"]_vars

\* An index that is reported ready is there for the queries of the agent.
ReadyIsReadable ==
  \A j \in Jobs : result[j] = "ready" => manifests[Repo[j]][base[j]] = "whole"

\* A crash in mid-write leaves torn files, but neither a finished manifest nor a
\* report of success depends on one (code_index.py:373-451).
IndexIsSound == ManifestsAreBacked /\ ReadyIsReadable

\* A workspace has what the remote had when its execution asked for the mirror,
\* whoever else updates, breaks or half clones it (workspace.py:144-175).
WorkspaceIsFresh ==
  \A j \in Jobs : at[j] \notin Populating \cup {"over"} => base[j] >= asked[j]

\* Every job comes to an end, also when a lock is lost for good.
JobsEnd == \A j \in Jobs : <>[](at[j] = "over")

\* orchestrator.py:204: a damaged cache "must not make an otherwise runnable
\* engineering task fail".  Once the repositories of an execution are in place,
\* neither a torn file, nor a lock that is lost, nor git fails it; an error of
\* the database does, and the clash of two appends in its session is one.
IndexingSparesTheTask ==
  [][\A j \in Jobs :
       /\ at[j] \in Building \cup {"furnished", "index_lock", "index_release"}
       /\ \A k \in Together(j) : at[k] \notin Populating
       /\ ~SessionBusy(j)
       => result'[j] # "failed"]_vars
=============================================================================
