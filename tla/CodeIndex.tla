----------------------------- MODULE CodeIndex -----------------------------
(***************************************************************************)
(* The files of the repository index (minion/runtime/code_index.py): one    *)
(* object per content of a file and one manifest per commit, in a cache    *)
(* that the processes of all hosts share.  Both are written in place, so   *)
(* between the opening of a file for writing and the end of the write, and *)
(* for ever after a crash in between, a file is torn: reading it raises.   *)
(*                                                                         *)
(* What a file of a repository says (symbols, imports, preview) is left    *)
(* out; a manifest is torn or lists the contents of its commit.            *)
(***************************************************************************)
CONSTANTS
  Contents,   \* contents of indexable files
  Tree        \* Tree[r][v]: the contents of the files of version v

VARIABLES
  objects,    \* objects[r][c]: the object file of content c
  manifests   \* manifests[r][v]: the manifest file of the commit v

FileStates == {"absent", "torn", "whole"}

IndexInit(Repos, Versions) ==
  /\ objects = [r \in Repos |-> [c \in Contents |-> "absent"]]
  /\ manifests = [r \in Repos |-> [v \in Versions |-> "absent"]]

\* write_text opens the file, which empties it ...
OpenObject(r, c) == objects' = [objects EXCEPT ![r][c] = "torn"]
OpenManifest(r, v) == manifests' = [manifests EXCEPT ![r][v] = "torn"]

\* ... and writes it.
WriteObject(r, c) == objects' = [objects EXCEPT ![r][c] = "whole"]
WriteManifest(r, v) == manifests' = [manifests EXCEPT ![r][v] = "whole"]
=============================================================================
