----------------------- MODULE RepositoryCacheProofs -----------------------
(***************************************************************************)
(* Proofs about RepositoryCache, for any repositories, executions,         *)
(* processes, contents and bounds.                                         *)
(***************************************************************************)
EXTENDS RepositoryCache, TLAPS

\* Where a job has one of the locks.
WithMirror == {"fetching", "mirror_release"}
WithIndex == Building \cup {"index_release"}

\* A git process that is awaited works on the mirror of its job, and what is
\* being written is the object of some content.
AtWork ==
  \A j \in Jobs :
    /\ at[j] = "fetching" => fetch[j] \in GitProcesses /\ fetch[j].repo = Repo[j]
    /\ at[j] = "writing" => current[j] \in Contents
-----------------------------------------------------------------------------
(***************************************************************************)
(* What the operators of the locks, mirrors and files do.                  *)
(***************************************************************************)
Holders == [job : Jobs \cup {None}, process : Procs \cup {None}]
Mirrors == [state : {"absent", "partial", "whole"}, version : Versions]

LEMMA OfJob ==
  ASSUME NEW j \in Jobs
  PROVE  /\ MirrorLock(j) \in Locks
         /\ IndexLock(j) \in Locks
         /\ Repo[j] \in Repos
         /\ Home[j] \in Procs
         /\ HeldBy(j, Home[j]) \in Holders
         /\ Free \in Holders
BY LocksAssumption, JobsAssumption
   DEF MirrorLock, IndexLock, HeldBy, Free, Holders

LEMMA ObtainEffect ==
  ASSUME NEW l \in Locks, NEW owner \in Holders,
         holder \in [Locks -> Holders], Obtain(l, owner)
  PROVE  /\ holder' \in [Locks -> Holders]
         /\ holder[l] = Free
         /\ holder'[l] = owner
         /\ \A m \in Locks : m # l => holder'[m] = holder[m]
BY DEF Obtain

LEMMA LetGoEffect ==
  ASSUME NEW l \in Locks, holder \in [Locks -> Holders], LetGo(l)
  PROVE  /\ holder' \in [Locks -> Holders]
         /\ \A m \in Locks : m # l => holder'[m] = holder[m]
<1>1. PICK after \in {Free, LostIn(holder[l].process)} :
        holder' = [holder EXCEPT ![l] = after]
  BY DEF LetGo
<1>2. after \in Holders
  BY DEF Holders, Free, LostIn
<1>. QED
  BY <1>1, <1>2

LEMMA GitProcessTyped ==
  ASSUME NEW r \in Repos, upstream \in [Repos -> Versions]
  PROVE  /\ GitProcess(r) \in GitProcesses
         /\ GitProcess(r).repo = r
         /\ GitProcess(r).version = upstream[r]
BY DEF GitProcess, GitProcesses

LEMMA BeginFetchEffect ==
  ASSUME NEW r \in Repos, mirror \in [Repos -> Mirrors], BeginFetch(r)
  PROVE  /\ mirror' \in [Repos -> Mirrors]
         /\ mirror'[r].version = mirror[r].version
         /\ mirror[r].state = "absent" => mirror'[r].state = "partial"
         /\ mirror[r].state # "absent" => mirror'[r].state = mirror[r].state
         /\ \A q \in Repos : q # r => mirror'[q] = mirror[q]
<1>1. mirror[r] \in Mirrors
  OBVIOUS
<1>2. DEFINE begun == [mirror[r] EXCEPT !.state =
                         IF mirror[r].state = "absent" THEN "partial"
                         ELSE mirror[r].state]
<1>3. mirror' = [mirror EXCEPT ![r] = begun]
  BY DEF BeginFetch
<1>4. /\ begun \in Mirrors
      /\ begun.version = mirror[r].version
      /\ begun.state = IF mirror[r].state = "absent" THEN "partial"
                       ELSE mirror[r].state
  BY <1>1 DEF Mirrors, FileStates
<1> HIDE DEF begun
<1>. QED
  BY <1>3, <1>4

LEMMA EndFetchEffect ==
  ASSUME NEW g \in GitProcesses, mirror \in [Repos -> Mirrors], EndFetch(g)
  PROVE  /\ mirror' \in [Repos -> Mirrors]
         /\ mirror'[g.repo].state = "whole"
         /\ mirror'[g.repo].version >= g.version
         /\ mirror'[g.repo].version >= mirror[g.repo].version
         /\ mirror[g.repo].state # "absent"
         /\ \A q \in Repos : q # g.repo => mirror'[q] = mirror[q]
<1>1. /\ g.repo \in Repos
      /\ g.version \in Versions
      /\ mirror[g.repo].version \in Versions
  BY DEF GitProcesses, Mirrors
<1>2. DEFINE newer == Newer(mirror[g.repo].version, g.version)
<1>3. newer \in Versions /\ newer >= g.version /\ newer >= mirror[g.repo].version
  BY <1>1, BoundsAssumption DEF Newer, Versions
<1>4. /\ mirror' = [mirror EXCEPT ![g.repo] = [state |-> "whole", version |-> newer]]
      /\ mirror[g.repo].state # "absent"
  BY DEF EndFetch
<1> HIDE DEF newer
<1>5. [state |-> "whole", version |-> newer] \in Mirrors
  BY <1>3 DEF Mirrors, FileStates
<1>. QED
  BY <1>1, <1>3, <1>4, <1>5

LEMMA BreakFetchEffect ==
  ASSUME NEW g \in GitProcesses, mirror \in [Repos -> Mirrors], BreakFetch(g)
  PROVE  /\ mirror' \in [Repos -> Mirrors]
         /\ mirror'[g.repo] = mirror[g.repo] \/ mirror'[g.repo].state = "absent"
         /\ \A q \in Repos : q # g.repo => mirror'[q] = mirror[q]
<1>1. g.repo \in Repos
  BY DEF GitProcesses
<1>2. [state |-> "absent", version |-> 0] \in Mirrors
  BY BoundsAssumption DEF Mirrors, FileStates, Versions
<1>. QED
  BY <1>1, <1>2 DEF BreakFetch

\* A file that is opened or written is so, and no other is touched.
LEMMA ObjectEffect ==
  ASSUME NEW r \in Repos, NEW c \in Contents, NEW state \in FileStates,
         objects \in [Repos -> [Contents -> FileStates]],
         objects' = [objects EXCEPT ![r][c] = state]
  PROVE  /\ objects' \in [Repos -> [Contents -> FileStates]]
         /\ objects'[r][c] = state
         /\ \A q \in Repos, d \in Contents :
              <<q, d>> # <<r, c>> => objects'[q][d] = objects[q][d]
OBVIOUS

LEMMA ManifestEffect ==
  ASSUME NEW r \in Repos, NEW v \in Versions, NEW state \in FileStates,
         manifests \in [Repos -> [Versions -> FileStates]],
         manifests' = [manifests EXCEPT ![r][v] = state]
  PROVE  /\ manifests' \in [Repos -> [Versions -> FileStates]]
         /\ manifests'[r][v] = state
         /\ \A q \in Repos, w \in Versions :
              <<q, w>> # <<r, v>> => manifests'[q][w] = manifests[q][w]
OBVIOUS
-----------------------------------------------------------------------------
(***************************************************************************)
(* Types.                                                                  *)
(***************************************************************************)
LEMMA LeftBehindIs ==
  ASSUME NEW jobs, jobs \subseteq Jobs
  PROVE  \A g \in LeftBehind(jobs) :
           /\ mirror'[g.repo].state # "absent"
           /\ g \in strays \/ \E k \in jobs : at[k] = "fetching" /\ g = fetch[k]
BY DEF LeftBehind, InPlace

LEMMA CancelEffect ==
  ASSUME NEW j \in Jobs, Cancel(j)
  PROVE  /\ orphans' \subseteq orphans \cup (Locks \X Procs)
         /\ \A g \in strays' :
              /\ mirror'[g.repo].state # "absent"
              /\ g \in strays \/ \E k \in Together(j) : at[k] = "fetching" /\ g = fetch[k]
<1> DEFINE cancelled == {k \in Together(j) : at[k] # "over"}
<1>1. strays' = LeftBehind(cancelled)
  BY DEF Cancel
<1>2. cancelled \subseteq Jobs
  BY DEF Together
<1>3. orphans' = orphans
       \cup {<<MirrorLock(k), Home[k]>> : k \in {k \in cancelled : at[k] = "mirror_lock"}}
       \cup {<<IndexLock(k), Home[k]>> : k \in {k \in cancelled : at[k] = "index_lock"}}
  BY DEF Cancel
<1>4. ASSUME NEW k \in Jobs
      PROVE  /\ <<MirrorLock(k), Home[k]>> \in Locks \X Procs
             /\ <<IndexLock(k), Home[k]>> \in Locks \X Procs
  BY OfJob
<1>5. orphans' \subseteq orphans \cup (Locks \X Procs)
  BY <1>2, <1>3, <1>4
<1>6. \A g \in strays' :
        /\ mirror'[g.repo].state # "absent"
        /\ g \in strays \/ \E k \in cancelled : at[k] = "fetching" /\ g = fetch[k]
  BY <1>1, <1>2, LeftBehindIs
<1>. QED
  BY <1>5, <1>6 DEF Together

LEMMA TypeInit == Init => CacheTypeOK /\ AtWork
BY BoundsAssumption DEF Init, LockInit, MirrorInit, IndexInit, Free, NoProcess,
   Versions, CacheTypeOK, AtWork, GitProcesses, FileStates, Results, Places, Populating, Building, Writing

LEMMA TypeStep ==
  ASSUME CacheTypeOK, AtWork, [Next]_vars
  PROVE  CacheTypeOK' /\ AtWork'
<1> USE BoundsAssumption, TreeAssumption, JobsAssumption, OfJob DEF Versions
<1>0. /\ holder \in [Locks -> Holders]
      /\ mirror \in [Repos -> Mirrors]
  BY DEF CacheTypeOK, Holders, Mirrors
<1>1. ASSUME NEW j \in Jobs, Start(j)
      PROVE  CacheTypeOK' /\ AtWork'
  BY <1>1 DEF Start, Go, fileVars, buildVars, workVars, surroundings,
      CacheTypeOK, AtWork, GitProcesses, FileStates, Results, Places,
      Populating, Building, Writing, Free, HeldBy, LostIn, NoProcess,
      AfterCancel, AfterCrash, WithoutProcess
<1>2. ASSUME NEW j \in Jobs, FetchMirror(j)
      PROVE  CacheTypeOK' /\ AtWork'
  <2>1. holder' \in [Locks -> Holders]
    BY <1>2, <1>0, ObtainEffect DEF FetchMirror
  <2>2. mirror' \in [Repos -> Mirrors]
    BY <1>2, <1>0, BeginFetchEffect DEF FetchMirror
  <2>3. GitProcess(Repo[j]) \in GitProcesses /\ GitProcess(Repo[j]).repo = Repo[j]
    BY GitProcessTyped DEF CacheTypeOK
  <2>4. at' \in [Jobs -> Places] /\ result' \in [Jobs -> Results]
    BY <1>2 DEF FetchMirror, Go, CacheTypeOK, Places, Populating, Building,
        Writing, Results
  <2>5. fetch' \in [Jobs -> GitProcesses \cup {NoProcess}]
    BY <1>2, <2>3 DEF FetchMirror, CacheTypeOK
  <2>6. AtWork'
    BY <1>2, <2>3 DEF FetchMirror, AtWork, Go, CacheTypeOK, fileVars, buildVars,
        workVars, surroundings
  <2>. QED
    BY <1>2, <2>1, <2>2, <2>3, <2>4, <2>5, <2>6 DEF FetchMirror, fileVars,
        buildVars, workVars, surroundings, CacheTypeOK, Holders, Mirrors
<1>3. ASSUME NEW j \in Jobs, FetchEnds(j)
      PROVE  CacheTypeOK' /\ AtWork'
  BY <1>3 DEF FetchEnds, EndFetch, Newer, Go, fileVars, buildVars, workVars,
      surroundings, CacheTypeOK, AtWork, GitProcesses, FileStates, Results,
      Places, Populating, Building, Writing, Free, HeldBy, LostIn, NoProcess,
      AfterCancel, AfterCrash, WithoutProcess
<1>4. ASSUME NEW j \in Jobs, FetchBreaks(j)
      PROVE  CacheTypeOK' /\ AtWork'
  <2>1. mirror' \in [Repos -> Mirrors]
    BY <1>4, <1>0, BreakFetchEffect DEF FetchBreaks, AtWork
  <2>2. strays' \subseteq GitProcesses
    BY <1>4 DEF FetchBreaks, InPlace, CacheTypeOK
  <2>3. at' \in [Jobs -> Places] /\ result' \in [Jobs -> Results]
    BY <1>4 DEF FetchBreaks, Go, Decide, CacheTypeOK, Places, Populating,
        Building, Writing, Results
  <2>4. fetch' \in [Jobs -> GitProcesses \cup {NoProcess}]
    BY <1>4 DEF FetchBreaks, CacheTypeOK
  <2>5. AtWork'
    BY <1>4 DEF FetchBreaks, AtWork, Go, CacheTypeOK, fileVars, buildVars,
        workVars, surroundings
  <2>. QED
    BY <1>4, <2>1, <2>2, <2>3, <2>4, <2>5 DEF FetchBreaks, fileVars, buildVars,
        workVars, surroundings, CacheTypeOK, Holders, Mirrors
<1>5. ASSUME NEW j \in Jobs, ReleaseMirror(j)
      PROVE  CacheTypeOK' /\ AtWork'
  <2>1. holder' \in [Locks -> Holders]
    BY <1>5, <1>0, LetGoEffect DEF ReleaseMirror
  <2>2. at' \in [Jobs -> Places] /\ result' \in [Jobs -> Results]
    BY <1>5 DEF ReleaseMirror, FailTask, Go, CacheTypeOK, Places, Populating,
        Building, Writing, Results
  <2>3. AtWork'
    BY <1>5 DEF ReleaseMirror, FailTask, Go, CacheTypeOK, AtWork, fileVars,
        buildVars, workVars, surroundings
  <2>. QED
    BY <1>5, <2>1, <2>2, <2>3 DEF ReleaseMirror, fileVars, buildVars, workVars,
        surroundings, CacheTypeOK, Holders, Mirrors
<1>6. ASSUME NEW j \in Jobs, MirrorTimesOut(j)
      PROVE  CacheTypeOK' /\ AtWork'
  BY <1>6 DEF MirrorTimesOut, FailTask, fileVars, buildVars, workVars,
      surroundings, CacheTypeOK, AtWork, GitProcesses, FileStates, Results,
      Places, Populating, Building, Writing, Free, HeldBy, LostIn, NoProcess,
      AfterCancel, AfterCrash, WithoutProcess
<1>7. ASSUME NEW j \in Jobs, Clone(j)
      PROVE  CacheTypeOK' /\ AtWork'
  BY <1>7 DEF Clone, Go, fileVars, buildVars, workVars, surroundings,
      CacheTypeOK, AtWork, GitProcesses, FileStates, Results, Places,
      Populating, Building, Writing, Free, HeldBy, LostIn, NoProcess,
      AfterCancel, AfterCrash, WithoutProcess
<1>8. ASSUME NEW j \in Jobs, CloneFails(j)
      PROVE  CacheTypeOK' /\ AtWork'
  BY <1>8 DEF CloneFails, FailTask, fileVars, buildVars, workVars,
      surroundings, CacheTypeOK, AtWork, GitProcesses, FileStates, Results,
      Places, Populating, Building, Writing, Free, HeldBy, LostIn, NoProcess,
      AfterCancel, AfterCrash, WithoutProcess
<1>9. ASSUME NEW j \in Jobs, LookUp(j)
      PROVE  CacheTypeOK' /\ AtWork'
  BY <1>9 DEF LookUp, Report, Go, Decide, fileVars, buildVars, workVars,
      surroundings, CacheTypeOK, AtWork, GitProcesses, FileStates, Results,
      Places, Populating, Building, Writing, Free, HeldBy, LostIn, NoProcess,
      AfterCancel, AfterCrash, WithoutProcess
<1>10. ASSUME NEW j \in Jobs, LockIndex(j)
      PROVE  CacheTypeOK' /\ AtWork'
  BY <1>10 DEF LockIndex, Obtain, Go, Decide, fileVars, buildVars, workVars,
      surroundings, CacheTypeOK, AtWork, GitProcesses, FileStates, Results,
      Places, Populating, Building, Writing, Free, HeldBy, LostIn, NoProcess,
      AfterCancel, AfterCrash, WithoutProcess
<1>11. ASSUME NEW j \in Jobs, IndexTimesOut(j)
      PROVE  CacheTypeOK' /\ AtWork'
  BY <1>11 DEF IndexTimesOut, Report, Go, Decide, fileVars, buildVars,
      workVars, surroundings, CacheTypeOK, AtWork, GitProcesses, FileStates,
      Results, Places, Populating, Building, Writing, Free, HeldBy, LostIn,
      NoProcess, AfterCancel, AfterCrash, WithoutProcess
<1>12. ASSUME NEW j \in Jobs, ListFiles(j)
      PROVE  CacheTypeOK' /\ AtWork'
  <2>1. Tree[Repo[j]][base[j]] \in SUBSET Contents
    BY DEF CacheTypeOK
  <2>2. todo' \in [Jobs -> SUBSET Contents]
    BY <1>12, <2>1 DEF ListFiles, CacheTypeOK
  <2>3. at' \in [Jobs -> Places] /\ result' \in [Jobs -> Results]
    BY <1>12 DEF ListFiles, Decide, Go, CacheTypeOK, Places, Populating,
        Building, Writing, Results
  <2>4. AtWork'
    BY <1>12 DEF ListFiles, Decide, Go, CacheTypeOK, AtWork, fileVars, buildVars,
        workVars, surroundings
  <2>. QED
    BY <1>12, <2>1, <2>2, <2>3, <2>4 DEF ListFiles, fileVars, buildVars,
        workVars, surroundings, CacheTypeOK, Holders, Mirrors
<1>13. ASSUME NEW j \in Jobs, ReuseObject(j)
      PROVE  CacheTypeOK' /\ AtWork'
  BY <1>13 DEF ReuseObject, fileVars, buildVars, workVars, surroundings,
      CacheTypeOK, AtWork, GitProcesses, FileStates, Results, Places,
      Populating, Building, Writing, Free, HeldBy, LostIn, NoProcess,
      AfterCancel, AfterCrash, WithoutProcess
<1>14. ASSUME NEW j \in Jobs, MeetTornObject(j)
      PROVE  CacheTypeOK' /\ AtWork'
  BY <1>14 DEF MeetTornObject, Go, Decide, fileVars, buildVars, workVars,
      surroundings, CacheTypeOK, AtWork, GitProcesses, FileStates, Results,
      Places, Populating, Building, Writing, Free, HeldBy, LostIn, NoProcess,
      AfterCancel, AfterCrash, WithoutProcess
<1>15. ASSUME NEW j \in Jobs, StoreObject(j)
      PROVE  CacheTypeOK' /\ AtWork'
  <2>1. CASE at[j] = "parsing"
    <3>1. PICK c \in todo[j] :
            /\ OpenObject(Repo[j], c)
            /\ current' = [current EXCEPT ![j] = c]
            /\ todo' = [todo EXCEPT ![j] = @ \ {c}]
      BY <1>15, <2>1 DEF StoreObject
    <3>2. c \in Contents
      BY DEF CacheTypeOK
    <3>3. objects' \in [Repos -> [Contents -> FileStates]]
      BY <3>1, <3>2, ObjectEffect DEF OpenObject, CacheTypeOK, FileStates
    <3>4. at' = [at EXCEPT ![j] = "writing"] /\ UNCHANGED fetch
      BY <1>15, <2>1 DEF StoreObject, Go, workVars
    <3>5. AtWork'
      BY <3>1, <3>2, <3>4 DEF CacheTypeOK, AtWork
    <3>. QED
      BY <1>15, <2>1, <3>1, <3>2, <3>3, <3>4, <3>5
         DEF StoreObject, CacheTypeOK, Places, Building, workVars, surroundings
  <2>2. CASE at[j] = "writing"
    <3>1. objects' \in [Repos -> [Contents -> FileStates]]
      BY <1>15, <2>2, ObjectEffect
         DEF StoreObject, WriteObject, CacheTypeOK, FileStates, AtWork
    <3>2. AtWork'
      BY <1>15, <2>2 DEF StoreObject, Go, CacheTypeOK, AtWork, workVars
    <3>. QED
      BY <1>15, <2>2, <3>1, <3>2
         DEF StoreObject, Go, CacheTypeOK, Places, Building, workVars, surroundings
  <2>. QED
    BY <1>15, <2>1, <2>2 DEF StoreObject
<1>16. ASSUME NEW j \in Jobs, StoreManifest(j)
      PROVE  CacheTypeOK' /\ AtWork'
  <2>1. manifests' \in [Repos -> [Versions -> FileStates]]
    BY <1>16, ManifestEffect DEF StoreManifest, OpenManifest, WriteManifest,
        CacheTypeOK, FileStates
  <2>2. at' \in [Jobs -> Places] /\ result' \in [Jobs -> Results]
    BY <1>16 DEF StoreManifest, Decide, Go, CacheTypeOK, Places, Populating,
        Building, Writing, Results
  <2>3. AtWork'
    BY <1>16 DEF StoreManifest, Decide, Go, CacheTypeOK, AtWork, fileVars,
        buildVars, workVars, surroundings
  <2>. QED
    BY <1>16, <2>1, <2>2, <2>3 DEF StoreManifest, fileVars, buildVars, workVars,
        surroundings, CacheTypeOK, Holders, Mirrors
<1>17. ASSUME NEW j \in Jobs, ReleaseIndex(j)
      PROVE  CacheTypeOK' /\ AtWork'
  <2>1. holder' \in [Locks -> Holders]
    BY <1>17, <1>0, LetGoEffect DEF ReleaseIndex
  <2>2. at' \in [Jobs -> Places] /\ result' \in [Jobs -> Results]
    BY <1>17 DEF ReleaseIndex, Report, Decide, Go, CacheTypeOK, Places,
        Populating, Building, Writing, Results
  <2>3. AtWork'
    BY <1>17 DEF ReleaseIndex, Report, Decide, Go, CacheTypeOK, AtWork, fileVars,
        buildVars, workVars, surroundings
  <2>. QED
    BY <1>17, <2>1, <2>2, <2>3 DEF ReleaseIndex, fileVars, buildVars, workVars,
        surroundings, CacheTypeOK, Holders, Mirrors
<1>18. ASSUME NEW j \in Jobs, AppendEnds(j)
      PROVE  CacheTypeOK' /\ AtWork'
  BY <1>18 DEF AppendEnds, Go, fileVars, buildVars, workVars, surroundings,
      CacheTypeOK, AtWork, GitProcesses, FileStates, Results, Places,
      Populating, Building, Writing, Free, HeldBy, LostIn, NoProcess,
      AfterCancel, AfterCrash, WithoutProcess
<1>19. ASSUME NEW j \in Jobs, AppendFails(j)
      PROVE  CacheTypeOK' /\ AtWork'
  BY <1>19 DEF AppendFails, Go, Decide, fileVars, buildVars, workVars,
      surroundings, CacheTypeOK, AtWork, GitProcesses, FileStates, Results,
      Places, Populating, Building, Writing, Free, HeldBy, LostIn, NoProcess,
      AfterCancel, AfterCrash, WithoutProcess
<1>20. ASSUME NEW j \in Jobs, Cancel(j)
      PROVE  CacheTypeOK' /\ AtWork'
  <2>1. orphans' \subseteq Locks \X Procs
    BY <1>20, CancelEffect DEF CacheTypeOK
  <2>2. strays' \subseteq GitProcesses
    BY <1>20, CancelEffect DEF CacheTypeOK, AtWork, Together
  <2>3. at' \in [Jobs -> Places] /\ result' \in [Jobs -> Results]
    BY <1>20 DEF Cancel, AfterCancel, CacheTypeOK, Places, Populating, Building,
        Results
  <2>4. fetch' \in [Jobs -> GitProcesses \cup {NoProcess}] /\ trouble' \in 0 .. MaxTrouble
    BY <1>20 DEF Cancel, CacheTypeOK
  <2>5. AtWork'
    BY <1>20 DEF Cancel, AfterCancel, CacheTypeOK, AtWork, buildVars
  <2>. QED
    BY <1>20, <2>1, <2>2, <2>3, <2>4, <2>5 DEF Cancel, fileVars, buildVars,
        workVars, surroundings, CacheTypeOK, Holders, Mirrors
<1>21. ASSUME NEW p \in Procs, Crash(p)
      PROVE  CacheTypeOK' /\ AtWork'
  BY <1>21 DEF Crash, LeftBehind, InPlace, fileVars, buildVars, workVars,
      surroundings, CacheTypeOK, AtWork, GitProcesses, FileStates, Results,
      Places, Populating, Building, Writing, Free, HeldBy, LostIn, NoProcess,
      AfterCancel, AfterCrash, WithoutProcess
<1>22. ASSUME NEW o \in orphans, OrphanEnds(o)
      PROVE  CacheTypeOK' /\ AtWork'
  <2>1. o \in Locks \X Procs
    BY DEF CacheTypeOK
  <2>2. o[1] \in Locks /\ LostIn(o[2]) \in Holders
    BY <2>1 DEF LostIn, Holders
  <2>3. holder' \in [Locks -> Holders]
    BY <1>22, <1>0, <2>2, ObtainEffect DEF OrphanEnds
  <2>4. AtWork'
    BY <1>22 DEF OrphanEnds, AtWork, workVars, buildVars
  <2>. QED
    BY <1>22, <2>1, <2>2, <2>3, <2>4 DEF OrphanEnds, fileVars, buildVars,
        workVars, surroundings, CacheTypeOK, Holders, Mirrors
<1>23. ASSUME NEW g \in strays, StrayEnds(g)
      PROVE  CacheTypeOK' /\ AtWork'
  <2>1. g \in GitProcesses
    BY DEF CacheTypeOK
  <2>2. mirror' \in [Repos -> Mirrors]
    BY <2>1, <1>23, <1>0, EndFetchEffect, BreakFetchEffect DEF StrayEnds
  <2>3. strays' \subseteq GitProcesses
    BY <1>23 DEF StrayEnds, InPlace, CacheTypeOK
  <2>4. AtWork'
    BY <1>23 DEF StrayEnds, AtWork, workVars, buildVars
  <2>. QED
    BY <1>23, <2>1, <2>2, <2>3, <2>4 DEF StrayEnds, fileVars, buildVars,
        workVars, surroundings, CacheTypeOK, Holders, Mirrors
<1>24. ASSUME NEW r \in Repos, PushUpstream(r)
      PROVE  CacheTypeOK' /\ AtWork'
  BY <1>24 DEF PushUpstream, Push, fileVars, buildVars, workVars,
      surroundings, CacheTypeOK, AtWork, GitProcesses, FileStates, Results,
      Places, Populating, Building, Writing, Free, HeldBy, LostIn, NoProcess,
      AfterCancel, AfterCrash, WithoutProcess
<1>25. CASE UNCHANGED vars
  BY <1>25 DEF vars, CacheTypeOK, AtWork, GitProcesses, FileStates, Results,
      Places, Populating, Building, Writing, Free, HeldBy, LostIn, NoProcess,
      AfterCancel, AfterCrash, WithoutProcess
<1>. QED
  BY <1>1, <1>2, <1>3, <1>4, <1>5, <1>6, <1>7, <1>8, <1>9, <1>10, <1>11,
      <1>12, <1>13, <1>14, <1>15, <1>16, <1>17, <1>18, <1>19, <1>20, <1>21,
      <1>22, <1>23, <1>24, <1>25 DEF Next, Step, Populate, EnsureIndex

\* Locks, mirrors, files and jobs keep their types, and a job awaits a git
\* process at its own mirror only.
THEOREM CacheTypeCorrect == Spec => [](CacheTypeOK /\ AtWork)
<1>1. Init => CacheTypeOK /\ AtWork
  BY TypeInit
<1>2. CacheTypeOK /\ AtWork /\ [Next]_vars => (CacheTypeOK /\ AtWork)'
  BY TypeStep
<1>. QED
  BY <1>1, <1>2, PTL DEF Spec
-----------------------------------------------------------------------------
(***************************************************************************)
(* Locks: whoever is where a lock is needed has it.                        *)
(***************************************************************************)
HasLocks(j) ==
  /\ at[j] \in WithMirror => holder[MirrorLock(j)] = HeldBy(j, Home[j])
  /\ at[j] \in WithIndex => holder[IndexLock(j)] = HeldBy(j, Home[j])

LocksHeld == \A j \in Jobs : HasLocks(j)

LEMMA LocksDiffer ==
  ASSUME NEW j \in Jobs, NEW k \in Jobs
  PROVE  /\ MirrorLock(j) # IndexLock(k)
         /\ MirrorLock(j) = MirrorLock(k) <=> Repo[j] = Repo[k]
         /\ IndexLock(j) = IndexLock(k) <=> Repo[j] = Repo[k]
BY DEF MirrorLock, IndexLock

LEMMA OwnersDiffer ==
  ASSUME NEW j \in Jobs, NEW k \in Jobs, NEW p, NEW q
  PROVE  /\ HeldBy(j, p) # Free
         /\ HeldBy(j, p) = HeldBy(k, q) => j = k
         /\ HeldBy(j, p).process = p
BY JobsAssumption DEF HeldBy, Free

\* Jobs of one execution crash together.
LEMMA TogetherIs ==
  ASSUME NEW j \in Jobs, NEW k \in Jobs
  PROVE  /\ j \in Together(j)
         /\ Together(j) \subseteq Jobs
         /\ k \in Together(j) => Together(k) = Together(j) /\ Home[k] = Home[j]
BY JobsAssumption DEF Together

LEMMA LocksStep ==
  ASSUME CacheTypeOK, LocksHeld, [Next]_vars, NEW k \in Jobs
  PROVE  HasLocks(k)'
<1>0. /\ holder \in [Locks -> Holders]
      /\ at \in [Jobs -> Places]
      /\ k \in Jobs
      /\ HasLocks(k)
  BY DEF CacheTypeOK, Holders, LocksHeld
<1> USE OfJob
<1>1. ASSUME NEW j \in Jobs, Start(j)
      PROVE  HasLocks(k)'
  BY <1>1, <1>0 DEF Start, Go, fileVars, buildVars, workVars, surroundings,
      HasLocks, WithMirror, WithIndex, Building, Go
<1>2. ASSUME NEW j \in Jobs, FetchMirror(j)
      PROVE  HasLocks(k)'
  <2>1. /\ holder[MirrorLock(j)] = Free
        /\ holder'[MirrorLock(j)] = HeldBy(j, Home[j])
        /\ \A m \in Locks : m # MirrorLock(j) => holder'[m] = holder[m]
    BY <1>2, <1>0, ObtainEffect DEF FetchMirror
  <2>2. CASE k = j
    BY <1>2, <1>0, <2>1, <2>2, LocksDiffer DEF FetchMirror, HasLocks,
        WithMirror, WithIndex, Building, Go, Decide
  <2>3. CASE k # j
    BY <1>2, <1>0, <2>1, <2>3, OwnersDiffer DEF FetchMirror, HasLocks,
        WithMirror, WithIndex, Building, Go, Decide
  <2>. QED
    BY <2>2, <2>3
<1>3. ASSUME NEW j \in Jobs, FetchEnds(j)
      PROVE  HasLocks(k)'
  BY <1>3, <1>0 DEF FetchEnds, EndFetch, Newer, Go, fileVars, buildVars,
      workVars, surroundings, HasLocks, WithMirror, WithIndex, Building, Go
<1>4. ASSUME NEW j \in Jobs, FetchBreaks(j)
      PROVE  HasLocks(k)'
  BY <1>4, <1>0 DEF FetchBreaks, BreakFetch, InPlace, Go, Decide, fileVars,
      buildVars, workVars, surroundings, HasLocks, WithMirror, WithIndex,
      Building, Go
<1>5. ASSUME NEW j \in Jobs, ReleaseMirror(j)
      PROVE  HasLocks(k)'
  <2>1. \A m \in Locks : m # MirrorLock(j) => holder'[m] = holder[m]
    BY <1>5, <1>0, LetGoEffect DEF ReleaseMirror
  <2>2. holder[MirrorLock(j)] = HeldBy(j, Home[j])
    BY <1>5 DEF ReleaseMirror, LocksHeld, HasLocks, WithMirror, WithIndex
  <2>3. CASE k = j
    BY <1>5, <1>0, <2>1, <2>3, LocksDiffer, TogetherIs DEF ReleaseMirror,
        HasLocks, WithMirror, WithIndex, Building, Go, FailTask
  <2>4. CASE k # j
    BY <1>5, <1>0, <2>1, <2>2, <2>4, LocksDiffer, OwnersDiffer DEF
        ReleaseMirror, HasLocks, WithMirror, WithIndex, Building, Go, FailTask
  <2>. QED
    BY <2>3, <2>4
<1>6. ASSUME NEW j \in Jobs, MirrorTimesOut(j)
      PROVE  HasLocks(k)'
  BY <1>6, <1>0 DEF MirrorTimesOut, FailTask, fileVars, buildVars, workVars,
      surroundings, HasLocks, WithMirror, WithIndex, Building, Go
<1>7. ASSUME NEW j \in Jobs, Clone(j)
      PROVE  HasLocks(k)'
  BY <1>7, <1>0 DEF Clone, Go, fileVars, buildVars, workVars, surroundings,
      HasLocks, WithMirror, WithIndex, Building, Go
<1>8. ASSUME NEW j \in Jobs, CloneFails(j)
      PROVE  HasLocks(k)'
  BY <1>8, <1>0 DEF CloneFails, FailTask, fileVars, buildVars, workVars,
      surroundings, HasLocks, WithMirror, WithIndex, Building, Go
<1>9. ASSUME NEW j \in Jobs, LookUp(j)
      PROVE  HasLocks(k)'
  BY <1>9, <1>0 DEF LookUp, Report, Go, Decide, fileVars, buildVars, workVars,
      surroundings, HasLocks, WithMirror, WithIndex, Building, Go
<1>10. ASSUME NEW j \in Jobs, LockIndex(j)
      PROVE  HasLocks(k)'
  <2>1. /\ holder[IndexLock(j)] = Free
        /\ holder'[IndexLock(j)] = HeldBy(j, Home[j])
        /\ \A m \in Locks : m # IndexLock(j) => holder'[m] = holder[m]
    BY <1>10, <1>0, ObtainEffect DEF LockIndex
  <2>2. CASE k = j
    BY <1>10, <1>0, <2>1, <2>2, LocksDiffer DEF LockIndex, HasLocks, WithMirror,
        WithIndex, Building, Go, Decide
  <2>3. CASE k # j
    BY <1>10, <1>0, <2>1, <2>3, OwnersDiffer DEF LockIndex, HasLocks, WithMirror,
        WithIndex, Building, Go, Decide
  <2>. QED
    BY <2>2, <2>3
<1>11. ASSUME NEW j \in Jobs, IndexTimesOut(j)
      PROVE  HasLocks(k)'
  BY <1>11, <1>0 DEF IndexTimesOut, Report, Go, Decide, fileVars, buildVars,
      workVars, surroundings, HasLocks, WithMirror, WithIndex, Building, Go
<1>12. ASSUME NEW j \in Jobs, ListFiles(j)
      PROVE  HasLocks(k)'
  BY <1>12, <1>0 DEF ListFiles, Go, Decide, fileVars, buildVars, workVars,
      surroundings, HasLocks, WithMirror, WithIndex, Building, Go
<1>13. ASSUME NEW j \in Jobs, ReuseObject(j)
      PROVE  HasLocks(k)'
  BY <1>13, <1>0 DEF ReuseObject, fileVars, buildVars, workVars, surroundings,
      HasLocks, WithMirror, WithIndex, Building, Go
<1>14. ASSUME NEW j \in Jobs, MeetTornObject(j)
      PROVE  HasLocks(k)'
  BY <1>14, <1>0 DEF MeetTornObject, Go, Decide, fileVars, buildVars,
      workVars, surroundings, HasLocks, WithMirror, WithIndex, Building, Go
<1>15. ASSUME NEW j \in Jobs, StoreObject(j)
      PROVE  HasLocks(k)'
  BY <1>15, <1>0 DEF StoreObject, OpenObject, WriteObject, Go, fileVars,
      buildVars, workVars, surroundings, HasLocks, WithMirror, WithIndex,
      Building, Go
<1>16. ASSUME NEW j \in Jobs, StoreManifest(j)
      PROVE  HasLocks(k)'
  BY <1>16, <1>0 DEF StoreManifest, OpenManifest, WriteManifest, Go, Decide,
      fileVars, buildVars, workVars, surroundings, HasLocks, WithMirror,
      WithIndex, Building, Go
<1>17. ASSUME NEW j \in Jobs, ReleaseIndex(j)
      PROVE  HasLocks(k)'
  <2>1. \A m \in Locks : m # IndexLock(j) => holder'[m] = holder[m]
    BY <1>17, <1>0, LetGoEffect DEF ReleaseIndex
  <2>2. holder[IndexLock(j)] = HeldBy(j, Home[j])
    BY <1>17 DEF ReleaseIndex, LocksHeld, HasLocks, WithMirror, WithIndex
  <2>3. CASE k = j
    BY <1>17, <1>0, <2>1, <2>3, LocksDiffer, TogetherIs DEF ReleaseIndex,
        HasLocks, WithMirror, WithIndex, Building, Go, Report, Decide
  <2>4. CASE k # j
    BY <1>17, <1>0, <2>1, <2>2, <2>4, LocksDiffer, OwnersDiffer DEF ReleaseIndex,
        HasLocks, WithMirror, WithIndex, Building, Go, Report, Decide
  <2>. QED
    BY <2>3, <2>4
<1>18. ASSUME NEW j \in Jobs, AppendEnds(j)
      PROVE  HasLocks(k)'
  BY <1>18, <1>0 DEF AppendEnds, Go, fileVars, buildVars, workVars,
      surroundings, HasLocks, WithMirror, WithIndex, Building, Go
<1>19. ASSUME NEW j \in Jobs, AppendFails(j)
      PROVE  HasLocks(k)'
  BY <1>19, <1>0 DEF AppendFails, Go, Decide, fileVars, buildVars, workVars,
      surroundings, HasLocks, WithMirror, WithIndex, Building, Go
<1>20. ASSUME NEW j \in Jobs, Cancel(j)
      PROVE  HasLocks(k)'
  BY <1>20, <1>0, TogetherIs DEF Cancel, AfterCancel, Busy, Writing, HasLocks, WithMirror, WithIndex, Building, Go
<1>21. ASSUME NEW p \in Procs, Crash(p)
      PROVE  HasLocks(k)'
  <2>1. CASE Home[k] = p
    BY <1>21, <1>0, <2>1, TogetherIs DEF Crash, AfterCrash, HasLocks, WithMirror,
        WithIndex, Building, Go
  <2>2. CASE Home[k] # p
    BY <1>21, <1>0, <2>2, OwnersDiffer DEF Crash, WithoutProcess, HasLocks,
        WithMirror, WithIndex, Building, Go
  <2>. QED
    BY <2>1, <2>2
<1>22. ASSUME NEW o \in orphans, OrphanEnds(o)
      PROVE  HasLocks(k)'
  <2>1. o \in Locks \X Procs
    BY DEF CacheTypeOK
  <2>2. o[1] \in Locks /\ LostIn(o[2]) \in Holders
    BY <2>1 DEF LostIn, Holders
  <2>3. \A m \in Locks : holder[m] # Free => holder'[m] = holder[m]
    BY <1>22, <1>0, <2>2, ObtainEffect DEF OrphanEnds
  <2>. QED
    BY <1>22, <1>0, <2>3, OwnersDiffer DEF OrphanEnds, HasLocks
<1>23. ASSUME NEW g \in strays, StrayEnds(g)
      PROVE  HasLocks(k)'
  BY <1>23, <1>0 DEF StrayEnds, EndFetch, BreakFetch, InPlace, Newer,
      fileVars, buildVars, workVars, surroundings, HasLocks, WithMirror,
      WithIndex, Building, Go
<1>24. ASSUME NEW r \in Repos, PushUpstream(r)
      PROVE  HasLocks(k)'
  BY <1>24, <1>0 DEF PushUpstream, Push, fileVars, buildVars, workVars,
      surroundings, HasLocks, WithMirror, WithIndex, Building, Go
<1>25. CASE UNCHANGED vars
  BY <1>25, <1>0 DEF vars, HasLocks, WithMirror, WithIndex, Building, Go
<1>. QED
  BY <1>1, <1>2, <1>3, <1>4, <1>5, <1>6, <1>7, <1>8, <1>9, <1>10, <1>11,
      <1>12, <1>13, <1>14, <1>15, <1>16, <1>17, <1>18, <1>19, <1>20, <1>21,
      <1>22, <1>23, <1>24, <1>25 DEF Next, Step, Populate, EnsureIndex

LEMMA LocksExclude ==
  ASSUME LocksHeld
  PROVE  /\ \A j, k \in Jobs : /\ at[j] \in WithIndex
                               /\ at[k] \in WithIndex
                               /\ Repo[j] = Repo[k]
                               => j = k
         /\ \A j, k \in Jobs : /\ at[j] \in WithMirror
                               /\ at[k] \in WithMirror
                               /\ Repo[j] = Repo[k]
                               => j = k
         /\ BuildersAlone
<1>1. ASSUME NEW j \in Jobs, NEW k \in Jobs, Repo[j] = Repo[k]
      PROVE  /\ at[j] \in WithIndex /\ at[k] \in WithIndex => j = k
             /\ at[j] \in WithMirror /\ at[k] \in WithMirror => j = k
  BY <1>1, LocksDiffer, OwnersDiffer DEF LocksHeld, HasLocks
<1>. QED
  BY <1>1 DEF BuildersAlone, LocksHeld, HasLocks, WithIndex

LEMMA LocksInit == Init => LocksHeld
BY JobsAssumption DEF Init, LocksHeld, HasLocks, WithMirror, WithIndex, Building

\* Of however many executions and processes, one job at a time builds an index
\* of a repository, and it has the lock.
THEOREM BuildersExcludeEachOther == Spec => []BuildersAlone
<1>1. Init => LocksHeld
  BY LocksInit
<1>2. CacheTypeOK /\ LocksHeld /\ [Next]_vars => LocksHeld'
  BY LocksStep DEF LocksHeld
<1>3. LocksHeld => BuildersAlone
  BY LocksExclude
<1>. QED
  BY <1>1, <1>2, <1>3, CacheTypeCorrect, PTL DEF Spec
-----------------------------------------------------------------------------
(***************************************************************************)
(* Mirrors and workspaces: a job that has updated its mirror finds in it   *)
(* what the remote had when it asked, or finds nothing it could clone.     *)
(***************************************************************************)
Asked(j) ==
  /\ asked[j] <= upstream[Repo[j]]
  /\ at[j] = "fetching" => asked[j] <= fetch[j].version

StraysInPlace == \A g \in strays : mirror[g.repo].state # "absent"

\* It relies on its mirror.
Awaits(j) == at[j] = "cloning" \/ (at[j] = "mirror_release" /\ result[j] = "none")

\* A mirror somebody else is still cloning may yet become whole, by any of the
\* git processes at work on it.
AwaitedIsFresh(j) ==
  Awaits(j) =>
    /\ mirror[Repo[j]].state = "whole" => mirror[Repo[j]].version >= asked[j]
    /\ mirror[Repo[j]].state = "partial" =>
         /\ \A g \in strays : g.repo = Repo[j] => g.version >= asked[j]
         /\ \A k \in Jobs : at[k] = "fetching" /\ Repo[k] = Repo[j]
                              => fetch[k].version >= asked[j]

\* Also one that is over, while its execution may yet come back to it.
Furnished(j) ==
  /\ at[j] \notin Populating \cup {"over"} => base[j] >= asked[j]
  /\ /\ at[j] = "over"
     /\ \E k \in Together(j) : at[k] # "over"
     /\ \A k \in Together(j) : result[k] # "cancelled"
     => base[j] >= asked[j]

Fresh ==
  /\ StraysInPlace
  /\ \A j \in Jobs : Asked(j) /\ AwaitedIsFresh(j) /\ Furnished(j)

LEMMA Typed ==
  ASSUME CacheTypeOK
  PROVE  /\ holder \in [Locks -> Holders]
         /\ upstream \in [Repos -> Versions]
         /\ mirror \in [Repos -> Mirrors]
         /\ at \in [Jobs -> Places]
         /\ result \in [Jobs -> Results]
         /\ asked \in [Jobs -> Versions]
         /\ fetch \in [Jobs -> GitProcesses \cup {NoProcess}]
         /\ base \in [Jobs -> Versions]
         /\ strays \subseteq GitProcesses
BY DEF CacheTypeOK, Holders, Mirrors

LEMMA AskedStep ==
  ASSUME CacheTypeOK, [Next]_vars, NEW k \in Jobs, Asked(k)
  PROVE  Asked(k)'
<1>0. Repo[k] \in Repos
  BY OfJob
<1> USE Typed, BoundsAssumption DEF Versions
<1>1. ASSUME NEW j \in Jobs, Start(j)
      PROVE  Asked(k)'
  BY <1>1, <1>0 DEF Start, Go, fileVars, buildVars, workVars, surroundings,
      Asked, Go
<1>2. ASSUME NEW j \in Jobs, FetchMirror(j)
      PROVE  Asked(k)'
  BY <1>2, <1>0, GitProcessTyped, OfJob DEF FetchMirror, Go, fileVars,
      buildVars, workVars, surroundings, Asked, Go
<1>3. ASSUME NEW j \in Jobs, FetchEnds(j)
      PROVE  Asked(k)'
  BY <1>3, <1>0 DEF FetchEnds, Go, fileVars, buildVars, workVars,
      surroundings, Asked, Go
<1>4. ASSUME NEW j \in Jobs, FetchBreaks(j)
      PROVE  Asked(k)'
  BY <1>4, <1>0 DEF FetchBreaks, Go, Decide, fileVars, buildVars, workVars,
      surroundings, Asked, Go
<1>5. ASSUME NEW j \in Jobs, ReleaseMirror(j)
      PROVE  Asked(k)'
  BY <1>5, <1>0 DEF ReleaseMirror, FailTask, Go, fileVars, buildVars,
      workVars, surroundings, Asked, Go
<1>6. ASSUME NEW j \in Jobs, MirrorTimesOut(j)
      PROVE  Asked(k)'
  BY <1>6, <1>0 DEF MirrorTimesOut, FailTask, fileVars, buildVars, workVars,
      surroundings, Asked, Go
<1>7. ASSUME NEW j \in Jobs, Clone(j)
      PROVE  Asked(k)'
  BY <1>7, <1>0 DEF Clone, Go, fileVars, buildVars, workVars, surroundings,
      Asked, Go
<1>8. ASSUME NEW j \in Jobs, CloneFails(j)
      PROVE  Asked(k)'
  BY <1>8, <1>0 DEF CloneFails, FailTask, fileVars, buildVars, workVars,
      surroundings, Asked, Go
<1>9. ASSUME NEW j \in Jobs, LookUp(j)
      PROVE  Asked(k)'
  BY <1>9, <1>0 DEF LookUp, Report, Go, Decide, fileVars, buildVars, workVars,
      surroundings, Asked, Go
<1>10. ASSUME NEW j \in Jobs, LockIndex(j)
      PROVE  Asked(k)'
  BY <1>10, <1>0 DEF LockIndex, Go, Decide, fileVars, buildVars, workVars,
      surroundings, Asked, Go
<1>11. ASSUME NEW j \in Jobs, IndexTimesOut(j)
      PROVE  Asked(k)'
  BY <1>11, <1>0 DEF IndexTimesOut, Report, Go, Decide, fileVars, buildVars,
      workVars, surroundings, Asked, Go
<1>12. ASSUME NEW j \in Jobs, ListFiles(j)
      PROVE  Asked(k)'
  BY <1>12, <1>0 DEF ListFiles, Go, Decide, fileVars, buildVars, workVars,
      surroundings, Asked, Go
<1>13. ASSUME NEW j \in Jobs, ReuseObject(j)
      PROVE  Asked(k)'
  BY <1>13, <1>0 DEF ReuseObject, fileVars, buildVars, workVars, surroundings,
      Asked, Go
<1>14. ASSUME NEW j \in Jobs, MeetTornObject(j)
      PROVE  Asked(k)'
  BY <1>14, <1>0 DEF MeetTornObject, Go, Decide, fileVars, buildVars,
      workVars, surroundings, Asked, Go
<1>15. ASSUME NEW j \in Jobs, StoreObject(j)
      PROVE  Asked(k)'
  BY <1>15, <1>0 DEF StoreObject, Go, fileVars, buildVars, workVars,
      surroundings, Asked, Go
<1>16. ASSUME NEW j \in Jobs, StoreManifest(j)
      PROVE  Asked(k)'
  BY <1>16, <1>0 DEF StoreManifest, Go, Decide, fileVars, buildVars, workVars,
      surroundings, Asked, Go
<1>17. ASSUME NEW j \in Jobs, ReleaseIndex(j)
      PROVE  Asked(k)'
  BY <1>17, <1>0 DEF ReleaseIndex, Report, Go, Decide, fileVars, buildVars,
      workVars, surroundings, Asked, Go
<1>18. ASSUME NEW j \in Jobs, AppendEnds(j)
      PROVE  Asked(k)'
  BY <1>18, <1>0 DEF AppendEnds, Go, fileVars, buildVars, workVars,
      surroundings, Asked, Go
<1>19. ASSUME NEW j \in Jobs, AppendFails(j)
      PROVE  Asked(k)'
  BY <1>19, <1>0 DEF AppendFails, Go, Decide, fileVars, buildVars, workVars,
      surroundings, Asked, Go
<1>20. ASSUME NEW j \in Jobs, Cancel(j)
      PROVE  Asked(k)'
  BY <1>20, <1>0 DEF Cancel, fileVars, buildVars, workVars, surroundings,
      Asked, Go, AfterCancel
<1>21. ASSUME NEW p \in Procs, Crash(p)
      PROVE  Asked(k)'
  BY <1>21, <1>0 DEF Crash, fileVars, buildVars, workVars, surroundings,
      Asked, Go, AfterCrash
<1>22. ASSUME NEW o \in orphans, OrphanEnds(o)
      PROVE  Asked(k)'
  BY <1>22, <1>0 DEF OrphanEnds, fileVars, buildVars, workVars, surroundings,
      Asked, Go
<1>23. ASSUME NEW g \in strays, StrayEnds(g)
      PROVE  Asked(k)'
  BY <1>23, <1>0 DEF StrayEnds, fileVars, buildVars, workVars, surroundings,
      Asked, Go
<1>24. ASSUME NEW r \in Repos, PushUpstream(r)
      PROVE  Asked(k)'
  BY <1>24, <1>0 DEF PushUpstream, Push, fileVars, buildVars, workVars,
      surroundings, Asked, Go
<1>25. CASE UNCHANGED vars
  BY <1>25, <1>0 DEF vars, Asked, Go
<1>. QED
  BY <1>1, <1>2, <1>3, <1>4, <1>5, <1>6, <1>7, <1>8, <1>9, <1>10, <1>11,
      <1>12, <1>13, <1>14, <1>15, <1>16, <1>17, <1>18, <1>19, <1>20, <1>21,
      <1>22, <1>23, <1>24, <1>25 DEF Next, Step, Populate, EnsureIndex

LEMMA StraysStep ==
  ASSUME CacheTypeOK, AtWork, StraysInPlace, [Next]_vars
  PROVE  StraysInPlace'
<1>0. \A g \in strays : g.repo \in Repos
  BY Typed DEF GitProcesses
<1>1. ASSUME NEW j \in Jobs, Start(j)
      PROVE  StraysInPlace'
  BY <1>1 DEF Start, Go, fileVars, buildVars, workVars, surroundings,
      StraysInPlace
<1>2. ASSUME NEW j \in Jobs, FetchMirror(j)
      PROVE  StraysInPlace'
  BY <1>2, <1>0, Typed, OfJob, BeginFetchEffect DEF FetchMirror, surroundings, StraysInPlace
<1>3. ASSUME NEW j \in Jobs, FetchEnds(j)
      PROVE  StraysInPlace'
  BY <1>3, <1>0, Typed, OfJob, EndFetchEffect DEF FetchEnds, AtWork, surroundings, StraysInPlace
<1>4. ASSUME NEW j \in Jobs, FetchBreaks(j)
      PROVE  StraysInPlace'
  BY <1>4 DEF FetchBreaks, InPlace, StraysInPlace
<1>5. ASSUME NEW j \in Jobs, ReleaseMirror(j)
      PROVE  StraysInPlace'
  BY <1>5 DEF ReleaseMirror, FailTask, Go, fileVars, buildVars, workVars,
      surroundings, StraysInPlace
<1>6. ASSUME NEW j \in Jobs, MirrorTimesOut(j)
      PROVE  StraysInPlace'
  BY <1>6 DEF MirrorTimesOut, FailTask, fileVars, buildVars, workVars,
      surroundings, StraysInPlace
<1>7. ASSUME NEW j \in Jobs, Clone(j)
      PROVE  StraysInPlace'
  BY <1>7 DEF Clone, Go, fileVars, buildVars, workVars, surroundings,
      StraysInPlace
<1>8. ASSUME NEW j \in Jobs, CloneFails(j)
      PROVE  StraysInPlace'
  BY <1>8 DEF CloneFails, FailTask, fileVars, buildVars, workVars,
      surroundings, StraysInPlace
<1>9. ASSUME NEW j \in Jobs, LookUp(j)
      PROVE  StraysInPlace'
  BY <1>9 DEF LookUp, Report, Go, Decide, fileVars, buildVars, workVars,
      surroundings, StraysInPlace
<1>10. ASSUME NEW j \in Jobs, LockIndex(j)
      PROVE  StraysInPlace'
  BY <1>10 DEF LockIndex, Go, Decide, fileVars, buildVars, workVars,
      surroundings, StraysInPlace
<1>11. ASSUME NEW j \in Jobs, IndexTimesOut(j)
      PROVE  StraysInPlace'
  BY <1>11 DEF IndexTimesOut, Report, Go, Decide, fileVars, buildVars,
      workVars, surroundings, StraysInPlace
<1>12. ASSUME NEW j \in Jobs, ListFiles(j)
      PROVE  StraysInPlace'
  BY <1>12 DEF ListFiles, Go, Decide, fileVars, buildVars, workVars,
      surroundings, StraysInPlace
<1>13. ASSUME NEW j \in Jobs, ReuseObject(j)
      PROVE  StraysInPlace'
  BY <1>13 DEF ReuseObject, fileVars, buildVars, workVars, surroundings,
      StraysInPlace
<1>14. ASSUME NEW j \in Jobs, MeetTornObject(j)
      PROVE  StraysInPlace'
  BY <1>14 DEF MeetTornObject, Go, Decide, fileVars, buildVars, workVars,
      surroundings, StraysInPlace
<1>15. ASSUME NEW j \in Jobs, StoreObject(j)
      PROVE  StraysInPlace'
  BY <1>15 DEF StoreObject, Go, fileVars, buildVars, workVars, surroundings,
      StraysInPlace
<1>16. ASSUME NEW j \in Jobs, StoreManifest(j)
      PROVE  StraysInPlace'
  BY <1>16 DEF StoreManifest, Go, Decide, fileVars, buildVars, workVars,
      surroundings, StraysInPlace
<1>17. ASSUME NEW j \in Jobs, ReleaseIndex(j)
      PROVE  StraysInPlace'
  BY <1>17 DEF ReleaseIndex, Report, Go, Decide, fileVars, buildVars,
      workVars, surroundings, StraysInPlace
<1>18. ASSUME NEW j \in Jobs, AppendEnds(j)
      PROVE  StraysInPlace'
  BY <1>18 DEF AppendEnds, Go, fileVars, buildVars, workVars, surroundings,
      StraysInPlace
<1>19. ASSUME NEW j \in Jobs, AppendFails(j)
      PROVE  StraysInPlace'
  BY <1>19 DEF AppendFails, Go, Decide, fileVars, buildVars, workVars,
      surroundings, StraysInPlace
<1>20. ASSUME NEW j \in Jobs, Cancel(j)
      PROVE  StraysInPlace'
  BY <1>20 DEF Cancel, LeftBehind, InPlace, StraysInPlace
<1>21. ASSUME NEW p \in Procs, Crash(p)
      PROVE  StraysInPlace'
  BY <1>21 DEF Crash, LeftBehind, InPlace, StraysInPlace
<1>22. ASSUME NEW o \in orphans, OrphanEnds(o)
      PROVE  StraysInPlace'
  BY <1>22 DEF OrphanEnds, fileVars, buildVars, workVars, surroundings,
      StraysInPlace
<1>23. ASSUME NEW g \in strays, StrayEnds(g)
      PROVE  StraysInPlace'
  BY <1>23 DEF StrayEnds, InPlace, StraysInPlace
<1>24. ASSUME NEW r \in Repos, PushUpstream(r)
      PROVE  StraysInPlace'
  BY <1>24 DEF PushUpstream, Push, fileVars, buildVars, workVars,
      surroundings, StraysInPlace
<1>25. CASE UNCHANGED vars
  BY <1>25 DEF vars, StraysInPlace
<1>. QED
  BY <1>1, <1>2, <1>3, <1>4, <1>5, <1>6, <1>7, <1>8, <1>9, <1>10, <1>11,
      <1>12, <1>13, <1>14, <1>15, <1>16, <1>17, <1>18, <1>19, <1>20, <1>21,
      <1>22, <1>23, <1>24, <1>25 DEF Next, Step, Populate, EnsureIndex

\* Which results a job can have where.
Stages(j) ==
  /\ result[j] = "cancelled" => at[j] \in {"over", "mirror_release", "index_release"}
  /\ at[j] \in Building \cup {"idle", "mirror_lock", "fetching", "cloning",
                              "furnished", "index_lock"}
     => result[j] = "none"
  /\ at[j] = "index_release" => result[j] \in {"ready", "degraded", "cancelled"}
  /\ at[j] = "appending" => result[j] \in {"ready", "degraded"}
  /\ result[j] = "ready" => at[j] \in {"index_release", "appending", "over"}

LEMMA StagesStep ==
  ASSUME CacheTypeOK, [Next]_vars, NEW k \in Jobs, Stages(k)
  PROVE  Stages(k)'
<1>0. /\ Stages(k)
      /\ at \in [Jobs -> Places]
      /\ result \in [Jobs -> Results]
      /\ Together(k) \subseteq Jobs
      /\ k \in Together(k)
      /\ \A j \in Jobs : k \in Together(j) => j \in Together(k)
      /\ \A j \in Jobs : j \in Together(k) => Home[j] = Home[k]
  BY Typed, TogetherIs
<1>1. ASSUME NEW j \in Jobs, Start(j)
      PROVE  Stages(k)'
  BY <1>1, <1>0 DEF Start, Go, fileVars, buildVars, workVars, surroundings,
      Stages, Building, Places, Results, Populating, Writing
<1>2. ASSUME NEW j \in Jobs, FetchMirror(j)
      PROVE  Stages(k)'
  BY <1>2, <1>0 DEF FetchMirror, Go, fileVars, buildVars, workVars,
      surroundings, Stages, Building, Places, Results, Populating, Writing
<1>3. ASSUME NEW j \in Jobs, FetchEnds(j)
      PROVE  Stages(k)'
  BY <1>3, <1>0 DEF FetchEnds, Go, fileVars, buildVars, workVars,
      surroundings, Stages, Building, Places, Results, Populating, Writing
<1>4. ASSUME NEW j \in Jobs, FetchBreaks(j)
      PROVE  Stages(k)'
  BY <1>4, <1>0 DEF FetchBreaks, Go, Decide, fileVars, buildVars, workVars,
      surroundings, Stages, Building, Places, Results, Populating, Writing
<1>5. ASSUME NEW j \in Jobs, ReleaseMirror(j)
      PROVE  Stages(k)'
  BY <1>5, <1>0 DEF ReleaseMirror, FailTask, Go, fileVars, buildVars,
      workVars, surroundings, Stages, Building, Places, Results, Populating,
      Writing
<1>6. ASSUME NEW j \in Jobs, MirrorTimesOut(j)
      PROVE  Stages(k)'
  BY <1>6, <1>0 DEF MirrorTimesOut, FailTask, fileVars, buildVars, workVars,
      surroundings, Stages, Building, Places, Results, Populating, Writing
<1>7. ASSUME NEW j \in Jobs, Clone(j)
      PROVE  Stages(k)'
  BY <1>7, <1>0 DEF Clone, Go, fileVars, buildVars, workVars, surroundings,
      Stages, Building, Places, Results, Populating, Writing
<1>8. ASSUME NEW j \in Jobs, CloneFails(j)
      PROVE  Stages(k)'
  BY <1>8, <1>0 DEF CloneFails, FailTask, fileVars, buildVars, workVars,
      surroundings, Stages, Building, Places, Results, Populating, Writing
<1>9. ASSUME NEW j \in Jobs, LookUp(j)
      PROVE  Stages(k)'
  BY <1>9, <1>0 DEF LookUp, Report, Go, Decide, fileVars, buildVars, workVars,
      surroundings, Stages, Building, Places, Results, Populating, Writing
<1>10. ASSUME NEW j \in Jobs, LockIndex(j)
      PROVE  Stages(k)'
  BY <1>10, <1>0 DEF LockIndex, Go, Decide, fileVars, buildVars, workVars,
      surroundings, Stages, Building, Places, Results, Populating, Writing
<1>11. ASSUME NEW j \in Jobs, IndexTimesOut(j)
      PROVE  Stages(k)'
  BY <1>11, <1>0 DEF IndexTimesOut, Report, Go, Decide, fileVars, buildVars,
      workVars, surroundings, Stages, Building, Places, Results, Populating,
      Writing
<1>12. ASSUME NEW j \in Jobs, ListFiles(j)
      PROVE  Stages(k)'
  BY <1>12, <1>0 DEF ListFiles, Go, Decide, fileVars, buildVars, workVars,
      surroundings, Stages, Building, Places, Results, Populating, Writing
<1>13. ASSUME NEW j \in Jobs, ReuseObject(j)
      PROVE  Stages(k)'
  BY <1>13, <1>0 DEF ReuseObject, fileVars, buildVars, workVars, surroundings,
      Stages, Building, Places, Results, Populating, Writing
<1>14. ASSUME NEW j \in Jobs, MeetTornObject(j)
      PROVE  Stages(k)'
  BY <1>14, <1>0 DEF MeetTornObject, Go, Decide, fileVars, buildVars,
      workVars, surroundings, Stages, Building, Places, Results, Populating,
      Writing
<1>15. ASSUME NEW j \in Jobs, StoreObject(j)
      PROVE  Stages(k)'
  BY <1>15, <1>0 DEF StoreObject, Go, fileVars, buildVars, workVars,
      surroundings, Stages, Building, Places, Results, Populating, Writing
<1>16. ASSUME NEW j \in Jobs, StoreManifest(j)
      PROVE  Stages(k)'
  BY <1>16, <1>0 DEF StoreManifest, Go, Decide, fileVars, buildVars, workVars,
      surroundings, Stages, Building, Places, Results, Populating, Writing
<1>17. ASSUME NEW j \in Jobs, ReleaseIndex(j)
      PROVE  Stages(k)'
  BY <1>17, <1>0 DEF ReleaseIndex, Report, Go, Decide, fileVars, buildVars,
      workVars, surroundings, Stages, Building, Places, Results, Populating,
      Writing
<1>18. ASSUME NEW j \in Jobs, AppendEnds(j)
      PROVE  Stages(k)'
  BY <1>18, <1>0 DEF AppendEnds, Go, fileVars, buildVars, workVars,
      surroundings, Stages, Building, Places, Results, Populating, Writing
<1>19. ASSUME NEW j \in Jobs, AppendFails(j)
      PROVE  Stages(k)'
  BY <1>19, <1>0 DEF AppendFails, Go, Decide, fileVars, buildVars, workVars,
      surroundings, Stages, Building, Places, Results, Populating, Writing
<1>20. ASSUME NEW j \in Jobs, Cancel(j)
      PROVE  Stages(k)'
  BY <1>20, <1>0 DEF Cancel, fileVars, buildVars, workVars, surroundings,
      Stages, Building, Places, Results, Populating, Writing, AfterCancel,
      Busy
<1>21. ASSUME NEW p \in Procs, Crash(p)
      PROVE  Stages(k)'
  BY <1>21, <1>0 DEF Crash, fileVars, buildVars, workVars, surroundings,
      Stages, Building, Places, Results, Populating, Writing, AfterCrash
<1>22. ASSUME NEW o \in orphans, OrphanEnds(o)
      PROVE  Stages(k)'
  BY <1>22, <1>0 DEF OrphanEnds, fileVars, buildVars, workVars, surroundings,
      Stages, Building, Places, Results, Populating, Writing
<1>23. ASSUME NEW g \in strays, StrayEnds(g)
      PROVE  Stages(k)'
  BY <1>23, <1>0 DEF StrayEnds, fileVars, buildVars, workVars, surroundings,
      Stages, Building, Places, Results, Populating, Writing
<1>24. ASSUME NEW r \in Repos, PushUpstream(r)
      PROVE  Stages(k)'
  BY <1>24, <1>0 DEF PushUpstream, Push, fileVars, buildVars, workVars,
      surroundings, Stages, Building, Places, Results, Populating, Writing
<1>25. CASE UNCHANGED vars
  BY <1>25, <1>0 DEF vars, Stages, Building, Places, Results, Populating,
      Writing
<1>. QED
  BY <1>1, <1>2, <1>3, <1>4, <1>5, <1>6, <1>7, <1>8, <1>9, <1>10, <1>11,
      <1>12, <1>13, <1>14, <1>15, <1>16, <1>17, <1>18, <1>19, <1>20, <1>21,
      <1>22, <1>23, <1>24, <1>25 DEF Next, Step, Populate, EnsureIndex

\* A step of one job.
LEMMA FurnishedStays ==
  ASSUME NEW j \in Jobs, NEW k \in Jobs, Furnished(k),
         at[j] # "over",
         \A m \in Jobs : m # j => at'[m] = at[m] /\ result'[m] = result[m],
         result[j] = "cancelled" => result'[j] = "cancelled",
         k # j => asked'[k] = asked[k] /\ base'[k] = base[k],
         k = j => \/ at'[j] \in Populating
                  \/ base'[j] >= asked'[j]
                  \/ /\ at[j] \notin Populating
                     /\ asked'[j] = asked[j]
                     /\ base'[j] = base[j]
  PROVE  Furnished(k)'
<1>1. Together(k) \subseteq Jobs /\ k \in Together(k)
  BY TogetherIs
<1>2. CASE k = j
  BY <1>1, <1>2 DEF Furnished, Populating
<1>3. CASE k # j
  <2>1. /\ at'[k] = at[k]
        /\ asked'[k] = asked[k]
        /\ base'[k] = base[k]
    BY <1>3
  <2>2. \A m \in Together(k) : at'[m] # "over" => at[m] # "over"
    BY <1>1
  <2>3. \A m \in Together(k) : result[m] = "cancelled" => result'[m] = "cancelled"
    BY <1>1
  <2>. QED
    BY <2>1, <2>2, <2>3 DEF Furnished, Together
<1>. QED
  BY <1>2, <1>3

LEMMA FurnishedStep ==
  ASSUME CacheTypeOK, \A j \in Jobs : Furnished(j) /\ Stages(j), [Next]_vars,
         NEW k \in Jobs, AwaitedIsFresh(k)
  PROVE  Furnished(k)'
<1>0. /\ Furnished(k)
      /\ Together(k) \subseteq Jobs
      /\ k \in Together(k)
      /\ \A j \in Jobs : j \in Together(k) => Together(j) = Together(k) /\ Home[j] = Home[k]
      /\ \A j \in Jobs : k \in Together(j) => j \in Together(k)
      /\ at \in [Jobs -> Places]
      /\ result \in [Jobs -> Results]
      /\ asked \in [Jobs -> Versions]
      /\ base \in [Jobs -> Versions]
  BY Typed, TogetherIs
<1>1. ASSUME NEW j \in Jobs, Start(j)
      PROVE  Furnished(k)'
  BY <1>1, <1>0, FurnishedStays DEF Start, Go, Stages, Populating, Building,
      fileVars, buildVars, workVars, surroundings
<1>2. ASSUME NEW j \in Jobs, FetchMirror(j)
      PROVE  Furnished(k)'
  BY <1>2, <1>0, FurnishedStays DEF FetchMirror, Go, Stages, Populating,
      Building, fileVars, buildVars, workVars, surroundings
<1>3. ASSUME NEW j \in Jobs, FetchEnds(j)
      PROVE  Furnished(k)'
  BY <1>3, <1>0, FurnishedStays DEF FetchEnds, Go, Stages, Populating, Building,
      fileVars, buildVars, workVars, surroundings
<1>4. ASSUME NEW j \in Jobs, FetchBreaks(j)
      PROVE  Furnished(k)'
  BY <1>4, <1>0, FurnishedStays DEF FetchBreaks, Go, Decide, Stages, Populating,
      Building, fileVars, buildVars, workVars, surroundings
<1>5. ASSUME NEW j \in Jobs, ReleaseMirror(j)
      PROVE  Furnished(k)'
  BY <1>5, <1>0 DEF ReleaseMirror, FailTask, Go, fileVars, buildVars,
      workVars, surroundings, Furnished, Populating, Building, Writing
<1>6. ASSUME NEW j \in Jobs, MirrorTimesOut(j)
      PROVE  Furnished(k)'
  BY <1>6, <1>0 DEF MirrorTimesOut, FailTask, fileVars, buildVars, workVars,
      surroundings, Furnished, Populating, Building, Writing
<1>7. ASSUME NEW j \in Jobs, Clone(j)
      PROVE  Furnished(k)'
  <2>1. asked'[j] = asked[j] /\ at[j] = "cloning"
    BY <1>7 DEF Clone
  <2>2. k = j => base'[j] >= asked'[j]
    BY <1>7, <1>0, <2>1 DEF Clone, AwaitedIsFresh, Awaits
  <2>3. k # j => asked'[k] = asked[k] /\ base'[k] = base[k]
    BY <1>7, <1>0 DEF Clone
  <2>4. \A m \in Jobs : m # j => at'[m] = at[m] /\ result'[m] = result[m]
    BY <1>7, <1>0 DEF Clone, Go
  <2>5. result'[j] = result[j]
    BY <1>7 DEF Clone
  <2>. QED
    BY <2>1, <2>2, <2>3, <2>4, <2>5, FurnishedStays
<1>8. ASSUME NEW j \in Jobs, CloneFails(j)
      PROVE  Furnished(k)'
  BY <1>8, <1>0 DEF CloneFails, FailTask, fileVars, buildVars, workVars,
      surroundings, Furnished, Populating, Building, Writing
<1>9. ASSUME NEW j \in Jobs, LookUp(j)
      PROVE  Furnished(k)'
  BY <1>9, <1>0, FurnishedStays DEF LookUp, Report, Go, Decide, Stages,
      Populating, Building, fileVars, buildVars, workVars, surroundings
<1>10. ASSUME NEW j \in Jobs, LockIndex(j)
      PROVE  Furnished(k)'
  BY <1>10, <1>0, FurnishedStays DEF LockIndex, Go, Decide, Stages, Populating,
      Building, fileVars, buildVars, workVars, surroundings
<1>11. ASSUME NEW j \in Jobs, IndexTimesOut(j)
      PROVE  Furnished(k)'
  BY <1>11, <1>0, FurnishedStays DEF IndexTimesOut, Report, Go, Decide, Stages,
      Populating, Building, fileVars, buildVars, workVars, surroundings
<1>12. ASSUME NEW j \in Jobs, ListFiles(j)
      PROVE  Furnished(k)'
  BY <1>12, <1>0, FurnishedStays DEF ListFiles, Go, Decide, Stages, Populating,
      Building, fileVars, buildVars, workVars, surroundings
<1>13. ASSUME NEW j \in Jobs, ReuseObject(j)
      PROVE  Furnished(k)'
  BY <1>13, <1>0, FurnishedStays DEF ReuseObject, Stages, Populating, Building,
      fileVars, buildVars, workVars, surroundings
<1>14. ASSUME NEW j \in Jobs, MeetTornObject(j)
      PROVE  Furnished(k)'
  BY <1>14, <1>0, FurnishedStays DEF MeetTornObject, Go, Decide, Stages,
      Populating, Building, fileVars, buildVars, workVars, surroundings
<1>15. ASSUME NEW j \in Jobs, StoreObject(j)
      PROVE  Furnished(k)'
  BY <1>15, <1>0, FurnishedStays DEF StoreObject, Go, Stages, Populating,
      Building, fileVars, buildVars, workVars, surroundings
<1>16. ASSUME NEW j \in Jobs, StoreManifest(j)
      PROVE  Furnished(k)'
  BY <1>16, <1>0, FurnishedStays DEF StoreManifest, Go, Decide, Stages,
      Populating, Building, fileVars, buildVars, workVars, surroundings
<1>17. ASSUME NEW j \in Jobs, ReleaseIndex(j)
      PROVE  Furnished(k)'
  BY <1>17, <1>0, FurnishedStays DEF ReleaseIndex, Report, Go, Decide, Stages,
      Populating, Building, fileVars, buildVars, workVars, surroundings
<1>18. ASSUME NEW j \in Jobs, AppendEnds(j)
      PROVE  Furnished(k)'
  BY <1>18, <1>0, FurnishedStays DEF AppendEnds, Go, Stages, Populating,
      Building, fileVars, buildVars, workVars, surroundings
<1>19. ASSUME NEW j \in Jobs, AppendFails(j)
      PROVE  Furnished(k)'
  BY <1>19, <1>0, FurnishedStays DEF AppendFails, Go, Decide, Stages, Populating,
      Building, fileVars, buildVars, workVars, surroundings
<1>20. ASSUME NEW j \in Jobs, Cancel(j)
      PROVE  Furnished(k)'
  <2>1. CASE k \in Together(j)
    <3>1. Together(j) = Together(k)
      BY <1>0, <2>1
    <3>2. \A m \in Together(k) : at[m] # "over" => result'[m] = "cancelled"
      BY <1>20, <1>0, <3>1 DEF Cancel
    <3>3. \A m \in Together(k) : at'[m] # "over" => at[m] # "over"
      BY <1>20, <1>0, <3>1 DEF Cancel, AfterCancel
    <3>4. at'[k] \notin Populating \cup {"over"} => at[k] \notin Populating \cup {"over"}
      BY <1>20, <1>0 DEF Cancel, AfterCancel, Populating
    <3>5. asked' = asked /\ base' = base
      BY <1>20 DEF Cancel
    <3>. QED
      BY <1>0, <3>2, <3>3, <3>4, <3>5 DEF Furnished, Together
  <2>2. CASE k \notin Together(j)
    <3>1. \A m \in Together(k) : at'[m] = at[m] /\ result'[m] = result[m]
      BY <1>20, <1>0, <2>2 DEF Cancel, Together
    <3>2. asked' = asked /\ base' = base
      BY <1>20 DEF Cancel
    <3>. QED
      BY <1>0, <3>1, <3>2 DEF Furnished, Together
  <2>. QED
    BY <2>1, <2>2
<1>21. ASSUME NEW p \in Procs, Crash(p)
      PROVE  Furnished(k)'
  <2>1. asked' = asked /\ base' = base
    BY <1>21 DEF Crash
  <2>2. CASE \/ Home[k] # p
             \/ \A m \in Together(k) : at[m] = "over"
    <3>1. \A m \in Together(k) : at'[m] = at[m] /\ result'[m] = result[m]
      BY <1>21, <1>0, <2>2 DEF Crash
    <3>. QED
      BY <1>0, <2>1, <3>1 DEF Furnished, Together
  <2>3. CASE /\ Home[k] = p
             /\ \E m \in Together(k) : at[m] # "over"
    <3>1. \A m \in Together(k) :
            /\ at'[m] = AfterCrash(m)
            /\ result'[m] = IF AfterCrash(m) = "over" THEN result[m] ELSE "none"
      BY <1>21, <1>0, <2>3 DEF Crash
    <3>2. CASE \E m \in Together(k) : result[m] = "cancelled"
      <4>1. \A m \in Together(k) : AfterCrash(m) = "over"
        BY <1>0, <3>2 DEF AfterCrash
      <4>. QED
        BY <1>0, <3>1, <3>2, <4>1 DEF Furnished, Together
    <3>3. CASE /\ \A m \in Together(k) : result[m] # "cancelled"
               /\ \E m \in Together(k) : at[m] \in Populating
      <4>1. AfterCrash(k) = "idle"
        BY <1>0, <3>3 DEF AfterCrash
      <4>. QED
        BY <1>0, <3>1, <4>1 DEF Furnished, Populating
    <3>4. CASE /\ \A m \in Together(k) : result[m] # "cancelled"
               /\ \A m \in Together(k) : at[m] \notin Populating
      <4>1. AfterCrash(k) = "furnished"
        BY <1>0, <3>4 DEF AfterCrash
      <4>2. base[k] >= asked[k]
        BY <1>0, <2>3, <3>4 DEF Furnished
      <4>. QED
        BY <1>0, <2>1, <3>1, <4>1, <4>2 DEF Furnished, Populating
    <3>. QED
      BY <3>2, <3>3, <3>4
  <2>. QED
    BY <2>2, <2>3
<1>22. ASSUME NEW o \in orphans, OrphanEnds(o)
      PROVE  Furnished(k)'
  BY <1>22, <1>0 DEF OrphanEnds, fileVars, buildVars, workVars, surroundings,
      Furnished, Populating, Building, Writing
<1>23. ASSUME NEW g \in strays, StrayEnds(g)
      PROVE  Furnished(k)'
  BY <1>23, <1>0 DEF StrayEnds, fileVars, buildVars, workVars, surroundings,
      Furnished, Populating, Building, Writing
<1>24. ASSUME NEW r \in Repos, PushUpstream(r)
      PROVE  Furnished(k)'
  BY <1>24, <1>0 DEF PushUpstream, Push, fileVars, buildVars, workVars,
      surroundings, Furnished, Populating, Building, Writing
<1>25. CASE UNCHANGED vars
  BY <1>25, <1>0 DEF vars, Furnished, Populating, Building, Writing
<1>. QED
  BY <1>1, <1>2, <1>3, <1>4, <1>5, <1>6, <1>7, <1>8, <1>9, <1>10, <1>11,
      <1>12, <1>13, <1>14, <1>15, <1>16, <1>17, <1>18, <1>19, <1>20, <1>21,
      <1>22, <1>23, <1>24, <1>25 DEF Next, Step, Populate, EnsureIndex

\* A step that does nothing to the mirror of k and lets no new git process at it.
LEMMA AwaitedStays ==
  ASSUME AtWork, NEW k \in Jobs, AwaitedIsFresh(k),
         Awaits(k)' => Awaits(k),
         asked'[k] = asked[k],
         mirror'[Repo[k]] = mirror[Repo[k]],
         \A g \in strays' :
           g \in strays \/ \E m \in Jobs : at[m] = "fetching" /\ g = fetch[m],
         \A m \in Jobs : at'[m] = "fetching" =>
                           at[m] = "fetching" /\ fetch'[m] = fetch[m]
  PROVE  AwaitedIsFresh(k)'
<1>a. \A m \in Jobs : at[m] = "fetching" => fetch[m].repo = Repo[m]
  BY DEF AtWork
<1>. QED
  BY <1>a DEF AwaitedIsFresh

LEMMA AwaitedStep ==
  ASSUME CacheTypeOK, AtWork, LocksHeld, StraysInPlace, [Next]_vars,
         NEW k \in Jobs, Asked(k), AwaitedIsFresh(k), Stages(k)
  PROVE  AwaitedIsFresh(k)'
<1>0. /\ at \in [Jobs -> Places]
      /\ result \in [Jobs -> Results]
      /\ asked \in [Jobs -> Versions]
      /\ fetch \in [Jobs -> GitProcesses \cup {NoProcess}]
      /\ \A j \in Jobs : Together(j) \subseteq Jobs /\ j \in Together(j)
      /\ Repo[k] \in Repos
  BY Typed, TogetherIs, OfJob
<1>a. /\ \A r \in Repos : mirror[r].version \in Nat /\ upstream[r] \in Nat
      /\ asked[k] \in Nat
      /\ \A g \in GitProcesses : g.version \in Nat /\ g.repo \in Repos
      /\ \A j \in Jobs : at[j] = "fetching" =>
           fetch[j] \in GitProcesses /\ fetch[j].repo = Repo[j]
      /\ strays \subseteq GitProcesses
  BY Typed, BoundsAssumption DEF Versions, Mirrors, GitProcesses, AtWork
<1>1. ASSUME NEW j \in Jobs, Start(j)
      PROVE  AwaitedIsFresh(k)'
  <2>1. CASE k = j
    BY <1>1, <1>0, <2>1 DEF Start, Go, AwaitedIsFresh, Awaits
  <2>2. CASE k # j
    BY <1>1, <1>0, <2>2, AwaitedStays DEF Start, Go, Awaits, workVars, surroundings
  <2>. QED
    BY <2>1, <2>2
<1>2. ASSUME NEW j \in Jobs, FetchMirror(j)
      PROVE  AwaitedIsFresh(k)'
  <2>1. /\ BeginFetch(Repo[j])
        /\ Obtain(MirrorLock(j), HeldBy(j, Home[j]))
        /\ at' = [at EXCEPT ![j] = "fetching"]
        /\ fetch' = [fetch EXCEPT ![j] = GitProcess(Repo[j])]
        /\ UNCHANGED <<result, asked, strays>>
    BY <1>2 DEF FetchMirror, Go, surroundings
  <2>2. CASE k = j
    BY <1>0, <2>1, <2>2 DEF AwaitedIsFresh, Awaits
  <2>3. CASE k # j /\ Repo[j] # Repo[k]
    <3>1. mirror'[Repo[k]] = mirror[Repo[k]]
      BY <1>0, <2>1, <2>3, OfJob, Typed, BeginFetchEffect
    <3>2. \A m \in Jobs : m # j => at'[m] = at[m] /\ fetch'[m] = fetch[m]
      BY <1>0, <2>1
    <3>. QED
      BY <1>0, <1>a, <2>1, <2>3, <3>1, <3>2 DEF AwaitedIsFresh, Awaits
  <2>4. CASE k # j /\ Repo[j] = Repo[k]
    <3>1. \A m \in Jobs : at'[m] = "fetching" /\ Repo[m] = Repo[k] => m = j
      <4>1. holder[MirrorLock(j)] = Free
        BY <2>1 DEF Obtain
      <4>. QED
        BY <1>0, <2>1, <2>4, <4>1, LocksDiffer, OwnersDiffer
           DEF LocksHeld, HasLocks, WithMirror
    <3>2. fetch'[j].version = upstream[Repo[k]]
      BY <1>0, <2>1, <2>4, GitProcessTyped, Typed
    <3>3. /\ mirror'[Repo[k]].version = mirror[Repo[k]].version
          /\ mirror[Repo[k]].state = "absent" => mirror'[Repo[k]].state = "partial"
          /\ mirror[Repo[k]].state # "absent" =>
               mirror'[Repo[k]].state = mirror[Repo[k]].state
      BY <1>0, <2>1, <2>4, Typed, BeginFetchEffect
    <3>4. at'[k] = at[k]
      BY <1>0, <2>1, <2>4
    <3>. QED
      BY <1>0, <1>a, <2>1, <3>1, <3>2, <3>3, <3>4
         DEF AwaitedIsFresh, Awaits, Asked, StraysInPlace
  <2>. QED
    BY <2>2, <2>3, <2>4
<1>3. ASSUME NEW j \in Jobs, FetchEnds(j)
      PROVE  AwaitedIsFresh(k)'
  <2>1. /\ EndFetch(fetch[j])
        /\ at[j] = "fetching"
        /\ at' = [at EXCEPT ![j] = "mirror_release"]
        /\ fetch' = [fetch EXCEPT ![j] = NoProcess]
        /\ UNCHANGED <<result, asked, strays>>
    BY <1>3 DEF FetchEnds, Go, surroundings
  <2>2. /\ mirror'[Repo[j]].state = "whole"
        /\ mirror'[Repo[j]].version \in Nat
        /\ mirror'[Repo[j]].version >= fetch[j].version
        /\ mirror'[Repo[j]].version >= mirror[Repo[j]].version
        /\ mirror[Repo[j]].state # "absent"
        /\ \A q \in Repos : q # Repo[j] => mirror'[q] = mirror[q]
    <3>1. fetch[j] \in GitProcesses /\ fetch[j].repo = Repo[j]
      BY <1>a, <2>1
    <3>2. mirror \in [Repos -> Mirrors]
      BY Typed
    <3>. QED
      BY <2>1, <3>1, <3>2, OfJob, EndFetchEffect, BoundsAssumption
         DEF Mirrors, Versions
  <2>3. mirror[Repo[j]].state \in {"partial", "whole"}
    BY <2>2, OfJob, Typed DEF Mirrors
  <2>4. CASE Repo[k] = Repo[j]
    <3>1. CASE k = j
      BY <1>0, <1>a, <2>1, <2>2, <3>1 DEF AwaitedIsFresh, Asked
    <3>2. CASE k # j
      BY <1>0, <1>a, <2>1, <2>2, <2>3, <2>4, <3>2 DEF AwaitedIsFresh, Awaits
    <3>. QED
      BY <3>1, <3>2
  <2>5. CASE Repo[k] # Repo[j]
    <3>1. k # j /\ mirror'[Repo[k]] = mirror[Repo[k]]
      BY <1>0, <2>2, <2>5
    <3>2. Awaits(k)' => Awaits(k)
      BY <1>0, <2>1, <3>1 DEF Awaits
    <3>3. \A m \in Jobs : at'[m] = "fetching" =>
                            at[m] = "fetching" /\ fetch'[m] = fetch[m]
      BY <1>0, <2>1
    <3>. QED
      BY <2>1, <3>1, <3>2, <3>3, AwaitedStays
  <2>. QED
    BY <2>4, <2>5
<1>4. ASSUME NEW j \in Jobs, FetchBreaks(j)
      PROVE  AwaitedIsFresh(k)'
  <2>1. /\ BreakFetch(fetch[j])
        /\ at[j] = "fetching"
        /\ at' = [at EXCEPT ![j] = "mirror_release"]
        /\ fetch' = [fetch EXCEPT ![j] = NoProcess]
        /\ result' = [result EXCEPT ![j] = "failed"]
        /\ UNCHANGED asked
        /\ strays' \subseteq strays
    BY <1>4 DEF FetchBreaks, Go, Decide, InPlace
  <2>2. \/ mirror'[Repo[k]] = mirror[Repo[k]]
        \/ mirror'[Repo[k]].state = "absent"
    <3>1. fetch[j] \in GitProcesses
      BY <1>a, <2>1
    <3>2. mirror \in [Repos -> Mirrors]
      BY Typed
    <3>. QED
      BY <1>0, <2>1, <3>1, <3>2, BreakFetchEffect
  <2>3. Awaits(k)' => Awaits(k)
    BY <1>0, <2>1 DEF Awaits
  <2>4. \A m \in Jobs : at'[m] = "fetching" =>
                          at[m] = "fetching" /\ fetch'[m] = fetch[m]
    BY <1>0, <2>1
  <2>. QED
    BY <2>1, <2>2, <2>3, <2>4, AwaitedStays DEF AwaitedIsFresh
<1>5. ASSUME NEW j \in Jobs, ReleaseMirror(j)
      PROVE  AwaitedIsFresh(k)'
  BY <1>5, <1>0, AwaitedStays DEF Awaits, Stages, Building, ReleaseMirror,
      FailTask, Go, fileVars, buildVars, workVars, surroundings
<1>6. ASSUME NEW j \in Jobs, MirrorTimesOut(j)
      PROVE  AwaitedIsFresh(k)'
  BY <1>6, <1>0, AwaitedStays DEF Awaits, Stages, Building, MirrorTimesOut,
      FailTask, fileVars, buildVars, workVars, surroundings
<1>7. ASSUME NEW j \in Jobs, Clone(j)
      PROVE  AwaitedIsFresh(k)'
  BY <1>7, <1>0, AwaitedStays DEF Awaits, Stages, Building, Clone, Go, fileVars,
      buildVars, workVars, surroundings
<1>8. ASSUME NEW j \in Jobs, CloneFails(j)
      PROVE  AwaitedIsFresh(k)'
  BY <1>8, <1>0, AwaitedStays DEF Awaits, Stages, Building, CloneFails,
      FailTask, fileVars, buildVars, workVars, surroundings
<1>9. ASSUME NEW j \in Jobs, LookUp(j)
      PROVE  AwaitedIsFresh(k)'
  BY <1>9, <1>0, AwaitedStays DEF Awaits, Stages, Building, LookUp, Report, Go,
      Decide, fileVars, buildVars, workVars, surroundings
<1>10. ASSUME NEW j \in Jobs, LockIndex(j)
      PROVE  AwaitedIsFresh(k)'
  BY <1>10, <1>0, AwaitedStays DEF Awaits, Stages, Building, LockIndex, Go,
      Decide, fileVars, buildVars, workVars, surroundings
<1>11. ASSUME NEW j \in Jobs, IndexTimesOut(j)
      PROVE  AwaitedIsFresh(k)'
  BY <1>11, <1>0, AwaitedStays DEF Awaits, Stages, Building, IndexTimesOut,
      Report, Go, Decide, fileVars, buildVars, workVars, surroundings
<1>12. ASSUME NEW j \in Jobs, ListFiles(j)
      PROVE  AwaitedIsFresh(k)'
  BY <1>12, <1>0, AwaitedStays DEF Awaits, Stages, Building, ListFiles, Go,
      Decide, fileVars, buildVars, workVars, surroundings
<1>13. ASSUME NEW j \in Jobs, ReuseObject(j)
      PROVE  AwaitedIsFresh(k)'
  BY <1>13, <1>0, AwaitedStays DEF Awaits, Stages, Building, ReuseObject,
      fileVars, buildVars, workVars, surroundings
<1>14. ASSUME NEW j \in Jobs, MeetTornObject(j)
      PROVE  AwaitedIsFresh(k)'
  BY <1>14, <1>0, AwaitedStays DEF Awaits, Stages, Building, MeetTornObject, Go,
      Decide, fileVars, buildVars, workVars, surroundings
<1>15. ASSUME NEW j \in Jobs, StoreObject(j)
      PROVE  AwaitedIsFresh(k)'
  BY <1>15, <1>0, AwaitedStays DEF Awaits, Stages, Building, StoreObject, Go,
      fileVars, buildVars, workVars, surroundings
<1>16. ASSUME NEW j \in Jobs, StoreManifest(j)
      PROVE  AwaitedIsFresh(k)'
  BY <1>16, <1>0, AwaitedStays DEF Awaits, Stages, Building, StoreManifest, Go,
      Decide, fileVars, buildVars, workVars, surroundings
<1>17. ASSUME NEW j \in Jobs, ReleaseIndex(j)
      PROVE  AwaitedIsFresh(k)'
  BY <1>17, <1>0, AwaitedStays DEF Awaits, Stages, Building, ReleaseIndex,
      Report, Go, Decide, fileVars, buildVars, workVars, surroundings
<1>18. ASSUME NEW j \in Jobs, AppendEnds(j)
      PROVE  AwaitedIsFresh(k)'
  BY <1>18, <1>0, AwaitedStays DEF Awaits, Stages, Building, AppendEnds, Go,
      fileVars, buildVars, workVars, surroundings
<1>19. ASSUME NEW j \in Jobs, AppendFails(j)
      PROVE  AwaitedIsFresh(k)'
  BY <1>19, <1>0, AwaitedStays DEF Awaits, Stages, Building, AppendFails, Go,
      Decide, fileVars, buildVars, workVars, surroundings
<1>20. ASSUME NEW j \in Jobs, Cancel(j)
      PROVE  AwaitedIsFresh(k)'
  <2>1. UNCHANGED <<asked, mirror>>
    BY <1>20 DEF Cancel
  <2>2. Awaits(k)' => Awaits(k)
    BY <1>20, <1>0 DEF Cancel, AfterCancel, Awaits
  <2>3. \A m \in Jobs : at'[m] = "fetching" =>
                          at[m] = "fetching" /\ fetch'[m] = fetch[m]
    BY <1>20, <1>0 DEF Cancel, AfterCancel
  <2>. QED
    BY <1>20, <1>0, <2>1, <2>2, <2>3, CancelEffect, AwaitedStays
<1>21. ASSUME NEW p \in Procs, Crash(p)
      PROVE  AwaitedIsFresh(k)'
  <2> DEFINE lost == {j \in Jobs : Home[j] = p /\ \E m \in Together(j) : at[m] # "over"}
  <2>1. UNCHANGED <<asked, mirror>>
    BY <1>21 DEF Crash
  <2>2. Awaits(k)' => Awaits(k)
    BY <1>21, <1>0 DEF Crash, AfterCrash, Awaits
  <2>3. \A m \in Jobs : at'[m] = "fetching" =>
                          at[m] = "fetching" /\ fetch'[m] = fetch[m]
    BY <1>21, <1>0 DEF Crash, AfterCrash
  <2>4. strays' = LeftBehind(lost) /\ lost \subseteq Jobs
    BY <1>21 DEF Crash
  <2> HIDE DEF lost
  <2>. QED
    BY <2>1, <2>2, <2>3, <2>4, LeftBehindIs, AwaitedStays
<1>22. ASSUME NEW o \in orphans, OrphanEnds(o)
      PROVE  AwaitedIsFresh(k)'
  BY <1>22, <1>0, AwaitedStays DEF Awaits, Stages, Building, OrphanEnds,
      fileVars, buildVars, workVars, surroundings
<1>23. ASSUME NEW g \in strays, StrayEnds(g)
      PROVE  AwaitedIsFresh(k)'
  <2>0. g \in GitProcesses /\ g.repo \in Repos /\ mirror \in [Repos -> Mirrors]
    BY <1>a, Typed
  <2>1. /\ strays' \subseteq strays
        /\ UNCHANGED <<at, result, asked, fetch>>
    BY <1>23 DEF StrayEnds, InPlace, workVars
  <2>2. CASE EndFetch(g)
    <3>1. /\ mirror'[g.repo].state = "whole"
          /\ mirror'[g.repo].version \in Nat
          /\ mirror'[g.repo].version >= g.version
          /\ mirror'[g.repo].version >= mirror[g.repo].version
          /\ mirror[g.repo].state # "absent"
          /\ \A q \in Repos : q # g.repo => mirror'[q] = mirror[q]
      BY <2>0, <2>2, EndFetchEffect, BoundsAssumption DEF Mirrors, Versions
    <3>2. mirror[g.repo].state \in {"partial", "whole"}
      BY <2>0, <3>1 DEF Mirrors
    <3>3. CASE g.repo = Repo[k]
      BY <1>0, <1>a, <2>0, <2>1, <3>1, <3>2, <3>3 DEF AwaitedIsFresh, Awaits
    <3>4. CASE g.repo # Repo[k]
      BY <1>0, <2>1, <3>1, <3>4, AwaitedStays DEF Awaits
    <3>. QED
      BY <3>3, <3>4
  <2>3. CASE BreakFetch(g)
    <3>1. \/ mirror'[Repo[k]] = mirror[Repo[k]]
          \/ mirror'[Repo[k]].state = "absent"
      BY <1>0, <2>0, <2>3, BreakFetchEffect
    <3>. QED
      BY <2>1, <3>1, AwaitedStays DEF AwaitedIsFresh, Awaits
  <2>. QED
    BY <1>23, <2>2, <2>3 DEF StrayEnds
<1>24. ASSUME NEW r \in Repos, PushUpstream(r)
      PROVE  AwaitedIsFresh(k)'
  BY <1>24, <1>0, AwaitedStays DEF Awaits, Stages, Building, PushUpstream, Push,
      fileVars, buildVars, workVars, surroundings
<1>25. CASE UNCHANGED vars
  BY <1>25, <1>0, AwaitedStays DEF vars, AwaitedIsFresh, Awaits
<1>. QED
  BY <1>1, <1>2, <1>3, <1>4, <1>5, <1>6, <1>7, <1>8, <1>9, <1>10, <1>11,
      <1>12, <1>13, <1>14, <1>15, <1>16, <1>17, <1>18, <1>19, <1>20, <1>21,
      <1>22, <1>23, <1>24, <1>25 DEF Next, Step, Populate, EnsureIndex

LEMMA FreshInit == Init => Fresh /\ \A j \in Jobs : Stages(j)
<1> SUFFICES ASSUME Init
             PROVE  Fresh /\ \A j \in Jobs : Stages(j)
  OBVIOUS
<1>1. StraysInPlace
  BY DEF Init, StraysInPlace
<1>2. ASSUME NEW j \in Jobs
      PROVE  Asked(j) /\ AwaitedIsFresh(j) /\ Furnished(j) /\ Stages(j)
  <2>1. Repo[j] \in Repos
    BY OfJob
  <2>. QED
    BY <2>1, TogetherIs DEF Init, MirrorInit, Asked, AwaitedIsFresh, Awaits, Furnished,
       Stages, Populating, Building
<1>. QED
  BY <1>1, <1>2 DEF Fresh

LEMMA FreshStep ==
  ASSUME CacheTypeOK, AtWork, LocksHeld, Fresh, \A j \in Jobs : Stages(j), [Next]_vars
  PROVE  Fresh' /\ \A j \in Jobs : Stages(j)'
<1>1. StraysInPlace'
  BY StraysStep DEF Fresh
<1>2. ASSUME NEW k \in Jobs
      PROVE  Asked(k)' /\ AwaitedIsFresh(k)' /\ Furnished(k)' /\ Stages(k)'
  <2>1. Asked(k) /\ AwaitedIsFresh(k) /\ StraysInPlace
    BY DEF Fresh
  <2>2. \A j \in Jobs : Furnished(j) /\ Stages(j)
    BY DEF Fresh
  <2>. QED
    BY <2>1, <2>2, AskedStep, AwaitedStep, FurnishedStep, StagesStep
<1>. QED
  BY <1>1, <1>2 DEF Fresh

\* A workspace never lags behind what its remote had when it was asked for,
\* over stray, killed and overlapping git processes.
THEOREM WorkspacesAreFresh == Spec => []WorkspaceIsFresh
<1>1. Init => LocksHeld /\ Fresh /\ \A j \in Jobs : Stages(j)
  BY FreshInit, LocksInit
<1>2. /\ CacheTypeOK /\ AtWork /\ LocksHeld /\ Fresh /\ \A j \in Jobs : Stages(j)
      /\ [Next]_vars
      => LocksHeld' /\ Fresh' /\ (\A j \in Jobs : Stages(j))'
  BY LocksStep, FreshStep DEF LocksHeld
<1>3. Fresh => WorkspaceIsFresh
  BY DEF Fresh, Furnished, WorkspaceIsFresh
<1>. QED
  BY <1>1, <1>2, <1>3, CacheTypeCorrect, PTL DEF Spec
-----------------------------------------------------------------------------
(***************************************************************************)
(* The index: what a build relies on stays as it is, since nobody builds   *)
(* beside it.                                                              *)
(***************************************************************************)
Manifest(j) == manifests[Repo[j]][base[j]]

\* The objects of all contents of the commit but the given ones are there.
StoredBut(j, rest) ==
  \A c \in Tree[Repo[j]][base[j]] \ rest : objects[Repo[j]][c] = "whole"

Builds(j) ==
  /\ at[j] \in {"listing", "parsing", "writing"} => Manifest(j) = "absent"
  /\ at[j] = "publishing" => Manifest(j) = "torn" /\ StoredBut(j, {})
  /\ at[j] = "parsing" => StoredBut(j, todo[j])
  /\ at[j] = "writing" => /\ objects[Repo[j]][current[j]] = "torn"
                          /\ StoredBut(j, todo[j] \cup {current[j]})

\* Only two actions touch the files.
LEMMA FilesChange ==
  ASSUME [Next]_vars
  PROVE  \/ UNCHANGED fileVars
         \/ \E j \in Jobs : StoreObject(j) \/ StoreManifest(j)
<1>1. ASSUME NEW j \in Jobs, Start(j)
      PROVE  UNCHANGED fileVars \/ \E i \in Jobs : StoreObject(i) \/ StoreManifest(i)
  BY <1>1 DEF Start
<1>2. ASSUME NEW j \in Jobs, FetchMirror(j)
      PROVE  UNCHANGED fileVars \/ \E i \in Jobs : StoreObject(i) \/ StoreManifest(i)
  BY <1>2 DEF FetchMirror
<1>3. ASSUME NEW j \in Jobs, FetchEnds(j)
      PROVE  UNCHANGED fileVars \/ \E i \in Jobs : StoreObject(i) \/ StoreManifest(i)
  BY <1>3 DEF FetchEnds
<1>4. ASSUME NEW j \in Jobs, FetchBreaks(j)
      PROVE  UNCHANGED fileVars \/ \E i \in Jobs : StoreObject(i) \/ StoreManifest(i)
  BY <1>4 DEF FetchBreaks
<1>5. ASSUME NEW j \in Jobs, ReleaseMirror(j)
      PROVE  UNCHANGED fileVars \/ \E i \in Jobs : StoreObject(i) \/ StoreManifest(i)
  BY <1>5 DEF ReleaseMirror
<1>6. ASSUME NEW j \in Jobs, MirrorTimesOut(j)
      PROVE  UNCHANGED fileVars \/ \E i \in Jobs : StoreObject(i) \/ StoreManifest(i)
  BY <1>6 DEF MirrorTimesOut
<1>7. ASSUME NEW j \in Jobs, Clone(j)
      PROVE  UNCHANGED fileVars \/ \E i \in Jobs : StoreObject(i) \/ StoreManifest(i)
  BY <1>7 DEF Clone
<1>8. ASSUME NEW j \in Jobs, CloneFails(j)
      PROVE  UNCHANGED fileVars \/ \E i \in Jobs : StoreObject(i) \/ StoreManifest(i)
  BY <1>8 DEF CloneFails
<1>9. ASSUME NEW j \in Jobs, LookUp(j)
      PROVE  UNCHANGED fileVars \/ \E i \in Jobs : StoreObject(i) \/ StoreManifest(i)
  BY <1>9 DEF LookUp
<1>10. ASSUME NEW j \in Jobs, LockIndex(j)
      PROVE  UNCHANGED fileVars \/ \E i \in Jobs : StoreObject(i) \/ StoreManifest(i)
  BY <1>10 DEF LockIndex
<1>11. ASSUME NEW j \in Jobs, IndexTimesOut(j)
      PROVE  UNCHANGED fileVars \/ \E i \in Jobs : StoreObject(i) \/ StoreManifest(i)
  BY <1>11 DEF IndexTimesOut
<1>12. ASSUME NEW j \in Jobs, ListFiles(j)
      PROVE  UNCHANGED fileVars \/ \E i \in Jobs : StoreObject(i) \/ StoreManifest(i)
  BY <1>12 DEF ListFiles
<1>13. ASSUME NEW j \in Jobs, ReuseObject(j)
      PROVE  UNCHANGED fileVars \/ \E i \in Jobs : StoreObject(i) \/ StoreManifest(i)
  BY <1>13 DEF ReuseObject
<1>14. ASSUME NEW j \in Jobs, MeetTornObject(j)
      PROVE  UNCHANGED fileVars \/ \E i \in Jobs : StoreObject(i) \/ StoreManifest(i)
  BY <1>14 DEF MeetTornObject
<1>15. ASSUME NEW j \in Jobs, StoreObject(j)
      PROVE  UNCHANGED fileVars \/ \E i \in Jobs : StoreObject(i) \/ StoreManifest(i)
  BY <1>15
<1>16. ASSUME NEW j \in Jobs, StoreManifest(j)
      PROVE  UNCHANGED fileVars \/ \E i \in Jobs : StoreObject(i) \/ StoreManifest(i)
  BY <1>16
<1>17. ASSUME NEW j \in Jobs, ReleaseIndex(j)
      PROVE  UNCHANGED fileVars \/ \E i \in Jobs : StoreObject(i) \/ StoreManifest(i)
  BY <1>17 DEF ReleaseIndex
<1>18. ASSUME NEW j \in Jobs, AppendEnds(j)
      PROVE  UNCHANGED fileVars \/ \E i \in Jobs : StoreObject(i) \/ StoreManifest(i)
  BY <1>18 DEF AppendEnds
<1>19. ASSUME NEW j \in Jobs, AppendFails(j)
      PROVE  UNCHANGED fileVars \/ \E i \in Jobs : StoreObject(i) \/ StoreManifest(i)
  BY <1>19 DEF AppendFails
<1>20. ASSUME NEW j \in Jobs, Cancel(j)
      PROVE  UNCHANGED fileVars \/ \E i \in Jobs : StoreObject(i) \/ StoreManifest(i)
  BY <1>20 DEF Cancel
<1>21. ASSUME NEW p \in Procs, Crash(p)
      PROVE  UNCHANGED fileVars \/ \E i \in Jobs : StoreObject(i) \/ StoreManifest(i)
  BY <1>21 DEF Crash
<1>22. ASSUME NEW o \in orphans, OrphanEnds(o)
      PROVE  UNCHANGED fileVars \/ \E i \in Jobs : StoreObject(i) \/ StoreManifest(i)
  BY <1>22 DEF OrphanEnds
<1>23. ASSUME NEW g \in strays, StrayEnds(g)
      PROVE  UNCHANGED fileVars \/ \E i \in Jobs : StoreObject(i) \/ StoreManifest(i)
  BY <1>23 DEF StrayEnds
<1>24. ASSUME NEW r \in Repos, PushUpstream(r)
      PROVE  UNCHANGED fileVars \/ \E i \in Jobs : StoreObject(i) \/ StoreManifest(i)
  BY <1>24 DEF PushUpstream
<1>25. CASE UNCHANGED vars
  BY <1>25 DEF vars, fileVars
<1>. QED
  BY <1>1, <1>2, <1>3, <1>4, <1>5, <1>6, <1>7, <1>8, <1>9, <1>10, <1>11,
      <1>12, <1>13, <1>14, <1>15, <1>16, <1>17, <1>18, <1>19, <1>20, <1>21,
      <1>22, <1>23, <1>24, <1>25 DEF Next, Step, Populate, EnsureIndex

\* Writing an object changes that object, which was not whole; writing a
\* manifest changes that manifest, which was not whole, and completes it only
\* when all its objects are.
LEMMA StoreEffect ==
  ASSUME CacheTypeOK, AtWork, NEW j \in Jobs, Builds(j)
  PROVE  /\ StoreObject(j) =>
              /\ UNCHANGED manifests
              /\ at[j] \in Building
              /\ \E c \in Contents :
                   /\ objects[Repo[j]][c] # "whole"
                   /\ \A q \in Repos, d \in Contents :
                        <<q, d>> # <<Repo[j], c>> => objects'[q][d] = objects[q][d]
         /\ StoreManifest(j) =>
              /\ UNCHANGED objects
              /\ at[j] \in Building
              /\ Manifest(j) # "whole"
              /\ \A q \in Repos, w \in Versions :
                   <<q, w>> # <<Repo[j], base[j]>> => manifests'[q][w] = manifests[q][w]
              /\ at[j] = "parsing" => manifests'[Repo[j]][base[j]] = "torn"
              /\ at[j] = "publishing" => /\ manifests'[Repo[j]][base[j]] = "whole"
                                         /\ StoredBut(j, {})
<1>0. /\ Repo[j] \in Repos
      /\ base[j] \in Versions
      /\ todo[j] \subseteq Contents
      /\ objects \in [Repos -> [Contents -> FileStates]]
      /\ manifests \in [Repos -> [Versions -> FileStates]]
      /\ {"absent", "torn", "whole"} \subseteq FileStates
  BY OfJob DEF CacheTypeOK, FileStates
<1>1. ASSUME StoreObject(j), at[j] = "parsing"
      PROVE  \E c \in Contents :
               /\ objects[Repo[j]][c] # "whole"
               /\ \A q \in Repos, d \in Contents :
                    <<q, d>> # <<Repo[j], c>> => objects'[q][d] = objects[q][d]
  <2>1. PICK c \in todo[j] : objects[Repo[j]][c] = "absent" /\ OpenObject(Repo[j], c)
    BY <1>1 DEF StoreObject
  <2>2. /\ c \in Contents /\ "torn" \in FileStates
        /\ objects' = [objects EXCEPT ![Repo[j]][c] = "torn"]
    BY <1>0, <2>1 DEF OpenObject, FileStates
  <2>3. \A q \in Repos, d \in Contents :
          <<q, d>> # <<Repo[j], c>> => objects'[q][d] = objects[q][d]
    BY <1>0, <2>2, ObjectEffect
  <2>. QED
    BY <2>1, <2>2, <2>3
<1>2. ASSUME StoreObject(j), at[j] = "writing"
      PROVE  \E c \in Contents :
               /\ objects[Repo[j]][c] # "whole"
               /\ \A q \in Repos, d \in Contents :
                    <<q, d>> # <<Repo[j], c>> => objects'[q][d] = objects[q][d]
  <2>1. /\ current[j] \in Contents
        /\ objects[Repo[j]][current[j]] = "torn"
        /\ WriteObject(Repo[j], current[j])
    BY <1>2 DEF StoreObject, AtWork, Builds
  <2>2. /\ current[j] \in Contents /\ "whole" \in FileStates
        /\ objects' = [objects EXCEPT ![Repo[j]][current[j]] = "whole"]
    BY <1>0, <2>1 DEF WriteObject, FileStates
  <2>3. \A q \in Repos, d \in Contents :
          <<q, d>> # <<Repo[j], current[j]>> => objects'[q][d] = objects[q][d]
    BY <1>0, <2>2, ObjectEffect
  <2>. QED
    BY <2>1, <2>2, <2>3
<1>3. StoreObject(j) => at[j] \in {"parsing", "writing"} /\ UNCHANGED manifests
  BY DEF StoreObject
<1>4. ASSUME StoreManifest(j)
      PROVE  /\ UNCHANGED objects
             /\ at[j] \in {"parsing", "publishing"}
             /\ Manifest(j) # "whole"
             /\ \A q \in Repos, w \in Versions :
                  <<q, w>> # <<Repo[j], base[j]>> => manifests'[q][w] = manifests[q][w]
             /\ at[j] = "parsing" => manifests'[Repo[j]][base[j]] = "torn"
             /\ at[j] = "publishing" => manifests'[Repo[j]][base[j]] = "whole"
  <2>1. CASE at[j] = "parsing"
    BY <1>0, <1>4, <2>1, ManifestEffect DEF StoreManifest, OpenManifest, Builds
  <2>2. CASE at[j] = "publishing"
    BY <1>0, <1>4, <2>2, ManifestEffect DEF StoreManifest, WriteManifest, Builds
  <2>. QED
    BY <1>4, <2>1, <2>2 DEF StoreManifest
<1>. QED
  BY <1>1, <1>2, <1>3, <1>4 DEF Builds, Building

LEMMA FilesStand ==
  ASSUME CacheTypeOK, AtWork, \A j \in Jobs : Builds(j), [Next]_vars
  PROVE  /\ \A r \in Repos, v \in Versions :
              manifests[r][v] = "whole" => manifests'[r][v] = "whole"
         /\ \A r \in Repos, c \in Contents :
              objects[r][c] = "whole" => objects'[r][c] = "whole"
<1>1. CASE UNCHANGED fileVars
  BY <1>1 DEF fileVars
<1>2. ASSUME NEW j \in Jobs, StoreObject(j)
      PROVE  /\ UNCHANGED manifests
             /\ \A r \in Repos, c \in Contents :
                  objects[r][c] = "whole" => objects'[r][c] = "whole"
  BY <1>2, StoreEffect
<1>3. ASSUME NEW j \in Jobs, StoreManifest(j)
      PROVE  /\ UNCHANGED objects
             /\ \A r \in Repos, v \in Versions :
                  manifests[r][v] = "whole" => manifests'[r][v] = "whole"
  BY <1>3, StoreEffect DEF Manifest
<1>. QED
  BY <1>1, <1>2, <1>3, FilesChange

LEMMA BackedStep ==
  ASSUME CacheTypeOK, AtWork, \A j \in Jobs : Builds(j), ManifestsAreBacked,
         [Next]_vars
  PROVE  ManifestsAreBacked'
<1>1. SUFFICES ASSUME NEW r \in Repos, NEW v \in Versions, manifests'[r][v] = "whole",
                      NEW c \in Tree[r][v]
               PROVE  objects'[r][c] = "whole"
  BY DEF ManifestsAreBacked
<1>2. c \in Contents
  BY TreeAssumption
<1>3. objects[r][c] = "whole"
  <2>1. CASE manifests[r][v] = "whole"
    BY <2>1 DEF ManifestsAreBacked
  <2>2. CASE manifests[r][v] # "whole"
    <3>1. PICK j \in Jobs : StoreManifest(j)
      BY <1>1, <2>2, FilesChange, StoreEffect DEF fileVars
    <3>2. r = Repo[j] /\ v = base[j]
      BY <1>1, <2>2, <3>1, StoreEffect
    <3>3. at[j] \in {"parsing", "publishing"}
      BY <3>1 DEF StoreManifest
    <3>. QED
      BY <1>1, <3>1, <3>2, <3>3, StoreEffect DEF StoredBut
  <2>. QED
    BY <2>1, <2>2
<1>. QED
  BY <1>2, <1>3, FilesStand

\* A build goes on undisturbed where its files stay as they are.
LEMMA BuildsStays ==
  ASSUME CacheTypeOK, AtWork, NEW k \in Jobs, Builds(k),
         at'[k] \in Building => /\ at'[k] = at[k]
                                /\ base'[k] = base[k]
                                /\ todo'[k] = todo[k]
                                /\ current'[k] = current[k],
         at[k] \in Building =>
           /\ \A c \in Contents : objects'[Repo[k]][c] = objects[Repo[k]][c]
           /\ \A v \in Versions : manifests'[Repo[k]][v] = manifests[Repo[k]][v]
  PROVE  Builds(k)'
<1>1. CASE at'[k] \notin Building
  BY <1>1 DEF Builds, Building
<1>2. CASE at'[k] \in Building
  <2>1. /\ Repo[k] \in Repos
        /\ base[k] \in Versions
        /\ Tree[Repo[k]][base[k]] \subseteq Contents
        /\ at[k] = "writing" => current[k] \in Contents
    BY OfJob, TreeAssumption DEF CacheTypeOK, AtWork
  <2>. QED
    BY <1>2, <2>1 DEF Builds, Manifest, StoredBut
<1>. QED
  BY <1>1, <1>2

LEMMA BuildsStep ==
  ASSUME CacheTypeOK, AtWork, LocksHeld, \A j \in Jobs : Builds(j) /\ Stages(j),
         [Next]_vars, NEW k \in Jobs
  PROVE  Builds(k)'
<1>0. /\ at \in [Jobs -> Places]
      /\ base \in [Jobs -> Versions]
      /\ todo \in [Jobs -> SUBSET Contents]
      /\ current \in [Jobs -> Contents \cup {None}]
      /\ Builds(k)
      /\ Repo[k] \in Repos
      /\ Tree[Repo[k]][base[k]] \subseteq Contents
      /\ Together(k) \subseteq Jobs
      /\ k \in Together(k)
      /\ \A j \in Jobs : k \in Together(j) => Home[j] = Home[k]
  BY OfJob, TreeAssumption, TogetherIs DEF CacheTypeOK
<1>1. ASSUME NEW j \in Jobs, Start(j)
      PROVE  Builds(k)'
  BY <1>1, <1>0, BuildsStays DEF Start, Go, Building, fileVars, buildVars,
      workVars, surroundings
<1>2. ASSUME NEW j \in Jobs, FetchMirror(j)
      PROVE  Builds(k)'
  BY <1>2, <1>0, BuildsStays DEF FetchMirror, Go, Building, fileVars, buildVars,
      workVars, surroundings
<1>3. ASSUME NEW j \in Jobs, FetchEnds(j)
      PROVE  Builds(k)'
  BY <1>3, <1>0, BuildsStays DEF FetchEnds, Go, Building, fileVars, buildVars,
      workVars, surroundings
<1>4. ASSUME NEW j \in Jobs, FetchBreaks(j)
      PROVE  Builds(k)'
  BY <1>4, <1>0, BuildsStays DEF FetchBreaks, Go, Decide, Building, fileVars,
      buildVars, workVars, surroundings
<1>5. ASSUME NEW j \in Jobs, ReleaseMirror(j)
      PROVE  Builds(k)'
  BY <1>5, <1>0, BuildsStays DEF ReleaseMirror, FailTask, Go, Building,
      fileVars, buildVars, workVars, surroundings
<1>6. ASSUME NEW j \in Jobs, MirrorTimesOut(j)
      PROVE  Builds(k)'
  BY <1>6, <1>0, BuildsStays DEF MirrorTimesOut, FailTask, Building, fileVars,
      buildVars, workVars, surroundings
<1>7. ASSUME NEW j \in Jobs, Clone(j)
      PROVE  Builds(k)'
  BY <1>7, <1>0, BuildsStays DEF Clone, Go, Building, fileVars, buildVars,
      workVars, surroundings
<1>8. ASSUME NEW j \in Jobs, CloneFails(j)
      PROVE  Builds(k)'
  BY <1>8, <1>0, BuildsStays DEF CloneFails, FailTask, Building, fileVars,
      buildVars, workVars, surroundings
<1>9. ASSUME NEW j \in Jobs, LookUp(j)
      PROVE  Builds(k)'
  BY <1>9, <1>0, BuildsStays DEF LookUp, Report, Go, Decide, Building, fileVars,
      buildVars, workVars, surroundings
<1>10. ASSUME NEW j \in Jobs, LockIndex(j)
      PROVE  Builds(k)'
  <2>1. CASE k = j
    BY <1>10, <1>0, <2>1 DEF LockIndex, Go, Builds, Manifest, StoredBut, fileVars, buildVars, workVars, surroundings
  <2>2. CASE k # j
    BY <1>10, <1>0, <2>2, BuildsStays DEF LockIndex, Go, fileVars, buildVars, workVars, surroundings
  <2>. QED
    BY <2>1, <2>2
<1>11. ASSUME NEW j \in Jobs, IndexTimesOut(j)
      PROVE  Builds(k)'
  BY <1>11, <1>0, BuildsStays DEF IndexTimesOut, Report, Go, Decide, Building,
      fileVars, buildVars, workVars, surroundings
<1>12. ASSUME NEW j \in Jobs, ListFiles(j)
      PROVE  Builds(k)'
  <2>1. CASE k = j
    BY <1>12, <1>0, <2>1 DEF ListFiles, Go, Builds, Manifest, StoredBut, fileVars, buildVars, workVars, surroundings
  <2>2. CASE k # j
    BY <1>12, <1>0, <2>2, BuildsStays DEF ListFiles, Go, fileVars, buildVars, workVars, surroundings
  <2>. QED
    BY <2>1, <2>2
<1>13. ASSUME NEW j \in Jobs, ReuseObject(j)
      PROVE  Builds(k)'
  <2>1. CASE k = j
    BY <1>13, <1>0, <2>1 DEF ReuseObject, Go, Builds, Manifest, StoredBut, fileVars, buildVars, workVars, surroundings
  <2>2. CASE k # j
    BY <1>13, <1>0, <2>2, BuildsStays DEF ReuseObject, Go, fileVars, buildVars, workVars, surroundings
  <2>. QED
    BY <2>1, <2>2
<1>14. ASSUME NEW j \in Jobs, MeetTornObject(j)
      PROVE  Builds(k)'
  BY <1>14, <1>0, BuildsStays DEF MeetTornObject, Go, Decide, Building, fileVars,
      buildVars, workVars, surroundings
<1>15. ASSUME NEW j \in Jobs, StoreObject(j)
      PROVE  Builds(k)'
  <2>1. CASE k # j
    <3>1. UNCHANGED manifests /\ at[j] \in Building
      BY <1>15, StoreEffect
    <3>2. at[k] \in Building => Repo[k] # Repo[j]
      BY <2>1, <3>1, LocksExclude DEF WithIndex
    <3>3. at[k] \in Building =>
            \A c \in Contents : objects'[Repo[k]][c] = objects[Repo[k]][c]
      BY <1>15, <1>0, <3>2, StoreEffect
    <3>. QED
      BY <1>15, <1>0, <2>1, <3>1, <3>3, BuildsStays DEF StoreObject, Go, workVars
  <2>2. CASE k = j /\ at[j] = "parsing"
    <3>1. PICK c \in todo[k] :
            /\ objects[Repo[k]][c] = "absent"
            /\ OpenObject(Repo[k], c)
            /\ current' = [current EXCEPT ![k] = c]
            /\ todo' = [todo EXCEPT ![k] = @ \ {c}]
      BY <1>15, <2>2 DEF StoreObject
    <3>2. /\ at' = [at EXCEPT ![k] = "writing"]
          /\ UNCHANGED <<manifests, base>>
      BY <1>15, <2>2 DEF StoreObject, Go, workVars
    <3>3. /\ c \in Contents
          /\ objects'[Repo[k]][c] = "torn"
          /\ \A d \in Contents : d # c => objects'[Repo[k]][d] = objects[Repo[k]][d]
      <4>1. /\ c \in Contents /\ "torn" \in FileStates
            /\ objects' = [objects EXCEPT ![Repo[k]][c] = "torn"]
            /\ objects \in [Repos -> [Contents -> FileStates]]
        BY <1>0, <3>1 DEF OpenObject, FileStates, CacheTypeOK
      <4>. QED
        BY <1>0, <4>1, ObjectEffect
    <3>4. /\ current'[k] = c
          /\ todo'[k] \cup {current'[k]} = todo[k]
          /\ at'[k] = "writing"
          /\ base'[k] = base[k]
      BY <1>0, <3>1, <3>2
    <3>5. \A d \in Tree[Repo[k]][base[k]] \ todo[k] :
            d \in Contents /\ d # c /\ objects'[Repo[k]][d] = "whole"
      BY <1>0, <2>2, <3>1, <3>3 DEF Builds, StoredBut
    <3>. QED
      BY <1>0, <2>2, <3>2, <3>3, <3>4, <3>5 DEF Builds, StoredBut, Manifest
  <2>3. CASE k = j /\ at[j] = "writing"
    <3>1. /\ WriteObject(Repo[k], current[k])
          /\ at' = [at EXCEPT ![k] = "parsing"]
          /\ UNCHANGED <<manifests, base, todo>>
      BY <1>15, <2>3 DEF StoreObject, Go, workVars
    <3>2. /\ objects'[Repo[k]][current[k]] = "whole"
          /\ \A d \in Contents :
               d # current[k] => objects'[Repo[k]][d] = objects[Repo[k]][d]
      <4>1. /\ current[k] \in Contents /\ "whole" \in FileStates
            /\ objects' = [objects EXCEPT ![Repo[k]][current[k]] = "whole"]
            /\ objects \in [Repos -> [Contents -> FileStates]]
        BY <2>3, <3>1 DEF WriteObject, FileStates, CacheTypeOK, AtWork
      <4>. QED
        BY <1>0, <4>1, ObjectEffect
    <3>. QED
      BY <1>0, <2>3, <3>1, <3>2 DEF Builds, StoredBut, Manifest
  <2>. QED
    BY <1>15, <2>1, <2>2, <2>3 DEF StoreObject
<1>16. ASSUME NEW j \in Jobs, StoreManifest(j)
      PROVE  Builds(k)'
  <2>1. UNCHANGED objects /\ at[j] \in Building
    BY <1>16, StoreEffect
  <2>2. CASE k # j
    <3>1. at[k] \in Building => Repo[k] # Repo[j]
      BY <2>1, <2>2, LocksExclude DEF WithIndex
    <3>2. at[k] \in Building =>
            \A v \in Versions : manifests'[Repo[k]][v] = manifests[Repo[k]][v]
      BY <1>16, <1>0, <3>1, StoreEffect
    <3>. QED
      BY <1>16, <1>0, <2>1, <2>2, <3>2, BuildsStays
         DEF StoreManifest, Go, workVars, buildVars
  <2>3. CASE k = j /\ at[j] = "parsing"
    <3>1. /\ todo[k] = {}
          /\ at'[k] = "publishing"
          /\ UNCHANGED base
      BY <1>16, <1>0, <2>3 DEF StoreManifest, Go, workVars
    <3>2. manifests'[Repo[k]][base[k]] = "torn"
      BY <1>16, <2>3, StoreEffect
    <3>. QED
      BY <1>0, <2>1, <2>3, <3>1, <3>2 DEF Builds, StoredBut, Manifest
  <2>4. CASE k = j /\ at[j] = "publishing"
    BY <1>16, <1>0, <2>4 DEF StoreManifest, Go, Builds, Building
  <2>. QED
    BY <1>16, <2>2, <2>3, <2>4 DEF StoreManifest
<1>17. ASSUME NEW j \in Jobs, ReleaseIndex(j)
      PROVE  Builds(k)'
  BY <1>17, <1>0, BuildsStays DEF ReleaseIndex, Report, Go, Decide, Building,
      fileVars, buildVars, workVars, surroundings
<1>18. ASSUME NEW j \in Jobs, AppendEnds(j)
      PROVE  Builds(k)'
  BY <1>18, <1>0, BuildsStays DEF AppendEnds, Go, Building, fileVars, buildVars,
      workVars, surroundings
<1>19. ASSUME NEW j \in Jobs, AppendFails(j)
      PROVE  Builds(k)'
  BY <1>19, <1>0, BuildsStays DEF AppendFails, Go, Decide, Building, fileVars,
      buildVars, workVars, surroundings
<1>20. ASSUME NEW j \in Jobs, Cancel(j)
      PROVE  Builds(k)'
  BY <1>20, <1>0, BuildsStays DEF Cancel, AfterCancel, Building, Busy, Writing,
      fileVars, buildVars, workVars, surroundings
<1>21. ASSUME NEW p \in Procs, Crash(p)
      PROVE  Builds(k)'
  BY <1>21, <1>0, BuildsStays DEF Crash, AfterCrash, Building, fileVars,
      buildVars, workVars, surroundings
<1>22. ASSUME NEW o \in orphans, OrphanEnds(o)
      PROVE  Builds(k)'
  BY <1>22, <1>0, BuildsStays DEF OrphanEnds, Building, fileVars, buildVars,
      workVars, surroundings
<1>23. ASSUME NEW g \in strays, StrayEnds(g)
      PROVE  Builds(k)'
  BY <1>23, <1>0, BuildsStays DEF StrayEnds, Building, fileVars, buildVars,
      workVars, surroundings
<1>24. ASSUME NEW r \in Repos, PushUpstream(r)
      PROVE  Builds(k)'
  BY <1>24, <1>0, BuildsStays DEF PushUpstream, Push, Building, fileVars,
      buildVars, workVars, surroundings
<1>25. CASE UNCHANGED vars
  BY <1>25, <1>0, BuildsStays DEF vars, Building
<1>. QED
  BY <1>1, <1>2, <1>3, <1>4, <1>5, <1>6, <1>7, <1>8, <1>9, <1>10, <1>11,
      <1>12, <1>13, <1>14, <1>15, <1>16, <1>17, <1>18, <1>19, <1>20, <1>21,
      <1>22, <1>23, <1>24, <1>25 DEF Next, Step, Populate, EnsureIndex

\* What is reported ready is there.
Readable(j) == result[j] = "ready" => Manifest(j) = "whole"

LEMMA ReadableStep ==
  ASSUME CacheTypeOK, AtWork, \A j \in Jobs : Builds(j), [Next]_vars,
         NEW k \in Jobs, Readable(k), Stages(k)
  PROVE  Readable(k)'
<1>0. /\ at \in [Jobs -> Places]
      /\ base \in [Jobs -> Versions]
      /\ result \in [Jobs -> Results]
      /\ k \in Jobs
      /\ Repo[k] \in Repos
      /\ base[k] \in Versions
      /\ Readable(k)
      /\ Manifest(k) = "whole" => manifests'[Repo[k]][base[k]] = "whole"
  BY OfJob, FilesStand DEF CacheTypeOK, Manifest
<1>1. ASSUME NEW j \in Jobs, Start(j)
      PROVE  Readable(k)'
  BY <1>1, <1>0 DEF Start, Go, fileVars, buildVars, workVars, surroundings,
      Readable, Manifest, Stages, Building
<1>2. ASSUME NEW j \in Jobs, FetchMirror(j)
      PROVE  Readable(k)'
  BY <1>2, <1>0 DEF FetchMirror, Go, fileVars, buildVars, workVars,
      surroundings, Readable, Manifest, Stages, Building
<1>3. ASSUME NEW j \in Jobs, FetchEnds(j)
      PROVE  Readable(k)'
  BY <1>3, <1>0 DEF FetchEnds, Go, fileVars, buildVars, workVars,
      surroundings, Readable, Manifest, Stages, Building
<1>4. ASSUME NEW j \in Jobs, FetchBreaks(j)
      PROVE  Readable(k)'
  BY <1>4, <1>0 DEF FetchBreaks, Go, Decide, fileVars, buildVars, workVars,
      surroundings, Readable, Manifest, Stages, Building
<1>5. ASSUME NEW j \in Jobs, ReleaseMirror(j)
      PROVE  Readable(k)'
  BY <1>5, <1>0 DEF ReleaseMirror, FailTask, Go, fileVars, buildVars,
      workVars, surroundings, Readable, Manifest, Stages, Building
<1>6. ASSUME NEW j \in Jobs, MirrorTimesOut(j)
      PROVE  Readable(k)'
  BY <1>6, <1>0 DEF MirrorTimesOut, FailTask, fileVars, buildVars, workVars,
      surroundings, Readable, Manifest, Stages, Building
<1>7. ASSUME NEW j \in Jobs, Clone(j)
      PROVE  Readable(k)'
  BY <1>7, <1>0 DEF Clone, Go, fileVars, buildVars, workVars, surroundings,
      Readable, Manifest, Stages, Building
<1>8. ASSUME NEW j \in Jobs, CloneFails(j)
      PROVE  Readable(k)'
  BY <1>8, <1>0 DEF CloneFails, FailTask, fileVars, buildVars, workVars,
      surroundings, Readable, Manifest, Stages, Building
<1>9. ASSUME NEW j \in Jobs, LookUp(j)
      PROVE  Readable(k)'
  BY <1>9, <1>0 DEF LookUp, Report, Go, Decide, fileVars, buildVars, workVars,
      surroundings, Readable, Manifest, Stages, Building
<1>10. ASSUME NEW j \in Jobs, LockIndex(j)
      PROVE  Readable(k)'
  BY <1>10, <1>0 DEF LockIndex, Go, Decide, fileVars, buildVars, workVars,
      surroundings, Readable, Manifest, Stages, Building
<1>11. ASSUME NEW j \in Jobs, IndexTimesOut(j)
      PROVE  Readable(k)'
  BY <1>11, <1>0 DEF IndexTimesOut, Report, Go, Decide, fileVars, buildVars,
      workVars, surroundings, Readable, Manifest, Stages, Building
<1>12. ASSUME NEW j \in Jobs, ListFiles(j)
      PROVE  Readable(k)'
  BY <1>12, <1>0 DEF ListFiles, Go, Decide, fileVars, buildVars, workVars,
      surroundings, Readable, Manifest, Stages, Building
<1>13. ASSUME NEW j \in Jobs, ReuseObject(j)
      PROVE  Readable(k)'
  BY <1>13, <1>0 DEF ReuseObject, fileVars, buildVars, workVars, surroundings,
      Readable, Manifest, Stages, Building
<1>14. ASSUME NEW j \in Jobs, MeetTornObject(j)
      PROVE  Readable(k)'
  BY <1>14, <1>0 DEF MeetTornObject, Go, Decide, fileVars, buildVars,
      workVars, surroundings, Readable, Manifest, Stages, Building
<1>15. ASSUME NEW j \in Jobs, StoreObject(j)
      PROVE  Readable(k)'
  BY <1>15, <1>0 DEF StoreObject, Go, fileVars, buildVars, workVars,
      surroundings, Readable, Manifest, Stages, Building
<1>16. ASSUME NEW j \in Jobs, StoreManifest(j)
      PROVE  Readable(k)'
  <2>1. CASE k = j /\ at[j] = "publishing"
    BY <1>16, <1>0, <2>1, StoreEffect DEF StoreManifest, Readable, Manifest, workVars
  <2>2. CASE k # j \/ at[j] # "publishing"
    <3>1. result'[k] = result[k] /\ base'[k] = base[k]
      BY <1>16, <1>0, <2>2 DEF StoreManifest, Decide, workVars
    <3>. QED
      BY <1>0, <3>1 DEF Readable, Manifest
  <2>. QED
    BY <2>1, <2>2
<1>17. ASSUME NEW j \in Jobs, ReleaseIndex(j)
      PROVE  Readable(k)'
  BY <1>17, <1>0 DEF ReleaseIndex, Report, Go, Decide, fileVars, buildVars,
      workVars, surroundings, Readable, Manifest, Stages, Building
<1>18. ASSUME NEW j \in Jobs, AppendEnds(j)
      PROVE  Readable(k)'
  BY <1>18, <1>0 DEF AppendEnds, Go, fileVars, buildVars, workVars,
      surroundings, Readable, Manifest, Stages, Building
<1>19. ASSUME NEW j \in Jobs, AppendFails(j)
      PROVE  Readable(k)'
  BY <1>19, <1>0 DEF AppendFails, Go, Decide, fileVars, buildVars, workVars,
      surroundings, Readable, Manifest, Stages, Building
<1>20. ASSUME NEW j \in Jobs, Cancel(j)
      PROVE  Readable(k)'
  BY <1>20, <1>0 DEF Cancel, fileVars, buildVars, workVars, surroundings,
      Readable, Manifest, Stages, Building
<1>21. ASSUME NEW p \in Procs, Crash(p)
      PROVE  Readable(k)'
  BY <1>21, <1>0 DEF Crash, fileVars, buildVars, workVars, surroundings,
      Readable, Manifest, Stages, Building
<1>22. ASSUME NEW o \in orphans, OrphanEnds(o)
      PROVE  Readable(k)'
  BY <1>22, <1>0 DEF OrphanEnds, fileVars, buildVars, workVars, surroundings,
      Readable, Manifest, Stages, Building
<1>23. ASSUME NEW g \in strays, StrayEnds(g)
      PROVE  Readable(k)'
  BY <1>23, <1>0 DEF StrayEnds, fileVars, buildVars, workVars, surroundings,
      Readable, Manifest, Stages, Building
<1>24. ASSUME NEW r \in Repos, PushUpstream(r)
      PROVE  Readable(k)'
  BY <1>24, <1>0 DEF PushUpstream, Push, fileVars, buildVars, workVars,
      surroundings, Readable, Manifest, Stages, Building
<1>25. CASE UNCHANGED vars
  BY <1>25, <1>0 DEF vars, Readable, Manifest, Stages, Building
<1>. QED
  BY <1>1, <1>2, <1>3, <1>4, <1>5, <1>6, <1>7, <1>8, <1>9, <1>10, <1>11,
      <1>12, <1>13, <1>14, <1>15, <1>16, <1>17, <1>18, <1>19, <1>20, <1>21,
      <1>22, <1>23, <1>24, <1>25 DEF Next, Step, Populate, EnsureIndex

IndexInv ==
  /\ CacheTypeOK
  /\ AtWork
  /\ LocksHeld
  /\ ManifestsAreBacked
  /\ \A j \in Jobs : Stages(j) /\ Builds(j) /\ Readable(j)

\* The build under way has its objects behind it, and what is finished rests on
\* what is finished.
THEOREM IndexInvariant == Spec => []IndexInv
<1>1. Init => IndexInv
  <2>1. Init => \A j \in Jobs : Builds(j) /\ Readable(j)
    BY DEF Init, Builds, Readable
  <2>2. Init => ManifestsAreBacked
    BY DEF Init, IndexInit, ManifestsAreBacked
  <2>. QED
    BY <2>1, <2>2, TypeInit, LocksInit, FreshInit DEF IndexInv
<1>2. IndexInv /\ [Next]_vars => IndexInv'
  BY TypeStep, LocksStep, StagesStep, BuildsStep, BackedStep, ReadableStep
     DEF IndexInv, LocksHeld
<1>. QED
  BY <1>1, <1>2, PTL DEF Spec

\* Whatever crashes and cancels leave behind, a finished manifest refers to
\* finished objects only, and what was reported ready can be read.
THEOREM IndexIsAlwaysSound == Spec => []IndexIsSound
<1>1. IndexInv => IndexIsSound
  BY DEF IndexInv, IndexIsSound, ReadyIsReadable, Readable, Manifest
<1>. QED
  BY <1>1, IndexInvariant, PTL

\* Readers need no lock: a file that is finished is never opened again.
THEOREM FilesStandForever == Spec => FinishedFilesStand
<1>1. IndexInv /\ [Next]_vars =>
        [/\ \A r \in Repos, v \in Versions :
              manifests[r][v] = "whole" => manifests'[r][v] = "whole"
         /\ \A r \in Repos, c \in Contents :
              objects[r][c] = "whole" => objects'[r][c] = "whole"]_vars
  BY FilesStand DEF IndexInv
<1>. QED
  BY <1>1, IndexInvariant, PTL DEF Spec, FinishedFilesStand

\* What happens to a job that indexes while no other one of its execution is in
\* an append.
Spared(j) ==
  /\ at[j] \in Building \cup {"furnished", "index_lock", "index_release"}
  /\ \A k \in Together(j) : at[k] \notin Populating
  /\ ~SessionBusy(j)
  => result'[j] # "failed"

LEMMA SparedStep ==
  ASSUME IndexInv, [Next]_vars, NEW k \in Jobs,
         at[k] \in Building \cup {"furnished", "index_lock", "index_release"},
         \A m \in Together(k) : at[m] \notin Populating,
         ~SessionBusy(k)
  PROVE  result'[k] # "failed"
<1>0. /\ at \in [Jobs -> Places]
      /\ result \in [Jobs -> Results]
      /\ k \in Together(k)
      /\ Together(k) \subseteq Jobs
      /\ \A j \in Jobs : k \in Together(j) => j \in Together(k)
      /\ result[k] # "failed"
      /\ Stages(k)
  BY TogetherIs DEF IndexInv, CacheTypeOK, Stages
<1>1. ASSUME NEW j \in Jobs, Start(j)
      PROVE  result'[k] # "failed"
  BY <1>1, <1>0 DEF Start, Go, fileVars, buildVars, workVars, surroundings,
      Stages, Populating, Building
<1>2. ASSUME NEW j \in Jobs, FetchMirror(j)
      PROVE  result'[k] # "failed"
  BY <1>2, <1>0 DEF FetchMirror, Go, fileVars, buildVars, workVars,
      surroundings, Stages, Populating, Building
<1>3. ASSUME NEW j \in Jobs, FetchEnds(j)
      PROVE  result'[k] # "failed"
  BY <1>3, <1>0 DEF FetchEnds, Go, fileVars, buildVars, workVars,
      surroundings, Stages, Populating, Building
<1>4. ASSUME NEW j \in Jobs, FetchBreaks(j)
      PROVE  result'[k] # "failed"
  BY <1>4, <1>0 DEF FetchBreaks, Go, Decide, fileVars, buildVars, workVars,
      surroundings, Stages, Populating, Building
<1>5. ASSUME NEW j \in Jobs, ReleaseMirror(j)
      PROVE  result'[k] # "failed"
  BY <1>5, <1>0 DEF ReleaseMirror, FailTask, Go, fileVars, buildVars,
      workVars, surroundings, Stages, Populating, Building
<1>6. ASSUME NEW j \in Jobs, MirrorTimesOut(j)
      PROVE  result'[k] # "failed"
  BY <1>6, <1>0 DEF MirrorTimesOut, FailTask, fileVars, buildVars, workVars,
      surroundings, Stages, Populating, Building
<1>7. ASSUME NEW j \in Jobs, Clone(j)
      PROVE  result'[k] # "failed"
  BY <1>7, <1>0 DEF Clone, Go, fileVars, buildVars, workVars, surroundings,
      Stages, Populating, Building
<1>8. ASSUME NEW j \in Jobs, CloneFails(j)
      PROVE  result'[k] # "failed"
  BY <1>8, <1>0 DEF CloneFails, FailTask, fileVars, buildVars, workVars,
      surroundings, Stages, Populating, Building
<1>9. ASSUME NEW j \in Jobs, LookUp(j)
      PROVE  result'[k] # "failed"
  BY <1>9, <1>0 DEF LookUp, Report, Go, Decide, fileVars, buildVars, workVars,
      surroundings, Stages, Populating, Building
<1>10. ASSUME NEW j \in Jobs, LockIndex(j)
      PROVE  result'[k] # "failed"
  BY <1>10, <1>0 DEF LockIndex, Go, Decide, fileVars, buildVars, workVars,
      surroundings, Stages, Populating, Building
<1>11. ASSUME NEW j \in Jobs, IndexTimesOut(j)
      PROVE  result'[k] # "failed"
  BY <1>11, <1>0 DEF IndexTimesOut, Report, Go, Decide, fileVars, buildVars,
      workVars, surroundings, Stages, Populating, Building
<1>12. ASSUME NEW j \in Jobs, ListFiles(j)
      PROVE  result'[k] # "failed"
  BY <1>12, <1>0 DEF ListFiles, Go, Decide, fileVars, buildVars, workVars,
      surroundings, Stages, Populating, Building
<1>13. ASSUME NEW j \in Jobs, ReuseObject(j)
      PROVE  result'[k] # "failed"
  BY <1>13, <1>0 DEF ReuseObject, fileVars, buildVars, workVars, surroundings,
      Stages, Populating, Building
<1>14. ASSUME NEW j \in Jobs, MeetTornObject(j)
      PROVE  result'[k] # "failed"
  BY <1>14, <1>0 DEF MeetTornObject, Go, Decide, fileVars, buildVars,
      workVars, surroundings, Stages, Populating, Building
<1>15. ASSUME NEW j \in Jobs, StoreObject(j)
      PROVE  result'[k] # "failed"
  BY <1>15, <1>0 DEF StoreObject, Go, fileVars, buildVars, workVars,
      surroundings, Stages, Populating, Building
<1>16. ASSUME NEW j \in Jobs, StoreManifest(j)
      PROVE  result'[k] # "failed"
  BY <1>16, <1>0 DEF StoreManifest, Go, Decide, fileVars, buildVars, workVars,
      surroundings, Stages, Populating, Building
<1>17. ASSUME NEW j \in Jobs, ReleaseIndex(j)
      PROVE  result'[k] # "failed"
  BY <1>17, <1>0 DEF ReleaseIndex, Report, Go, Decide, fileVars, buildVars,
      workVars, surroundings, Stages, Populating, Building
<1>18. ASSUME NEW j \in Jobs, AppendEnds(j)
      PROVE  result'[k] # "failed"
  BY <1>18, <1>0 DEF AppendEnds, Go, fileVars, buildVars, workVars,
      surroundings, Stages, Populating, Building
<1>19. ASSUME NEW j \in Jobs, AppendFails(j)
      PROVE  result'[k] # "failed"
  BY <1>19, <1>0 DEF AppendFails, Go, Decide, fileVars, buildVars, workVars,
      surroundings, Stages, Populating, Building
<1>20. ASSUME NEW j \in Jobs, Cancel(j)
      PROVE  result'[k] # "failed"
  BY <1>20, <1>0 DEF Cancel, fileVars, buildVars, workVars, surroundings,
      Stages, Populating, Building
<1>21. ASSUME NEW p \in Procs, Crash(p)
      PROVE  result'[k] # "failed"
  BY <1>21, <1>0 DEF Crash, fileVars, buildVars, workVars, surroundings,
      Stages, Populating, Building
<1>22. ASSUME NEW o \in orphans, OrphanEnds(o)
      PROVE  result'[k] # "failed"
  BY <1>22, <1>0 DEF OrphanEnds, fileVars, buildVars, workVars, surroundings,
      Stages, Populating, Building
<1>23. ASSUME NEW g \in strays, StrayEnds(g)
      PROVE  result'[k] # "failed"
  BY <1>23, <1>0 DEF StrayEnds, fileVars, buildVars, workVars, surroundings,
      Stages, Populating, Building
<1>24. ASSUME NEW r \in Repos, PushUpstream(r)
      PROVE  result'[k] # "failed"
  BY <1>24, <1>0 DEF PushUpstream, Push, fileVars, buildVars, workVars,
      surroundings, Stages, Populating, Building
<1>25. CASE UNCHANGED vars
  BY <1>25, <1>0 DEF vars, Stages, Populating, Building
<1>. QED
  BY <1>1, <1>2, <1>3, <1>4, <1>5, <1>6, <1>7, <1>8, <1>9, <1>10, <1>11,
      <1>12, <1>13, <1>14, <1>15, <1>16, <1>17, <1>18, <1>19, <1>20, <1>21,
      <1>22, <1>23, <1>24, <1>25 DEF Next, Step, Populate, EnsureIndex

\* However many repositories it has, an execution is failed by no torn file, by
\* no lock and not by git once they are in place.
THEOREM TasksAreSpared == Spec => IndexingSparesTheTask
<1>1. IndexInv /\ [Next]_vars => [\A j \in Jobs : Spared(j)]_vars
  BY SparedStep DEF Spared
<1>. QED
  BY <1>1, IndexInvariant, PTL DEF Spec, IndexingSparesTheTask, Spared
=============================================================================
