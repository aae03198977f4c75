--------------------------- MODULE SkillSelection ---------------------------
(***************************************************************************)
(* The skills of a task (minion/runtime/skills.py): found in the built-in, *)
(* the user's and the repositories' directories, suggested for an          *)
(* instruction, and rendered into the prompt.                              *)
(*                                                                         *)
(* A skill file has a name (a number, in the order of names), a priority,  *)
(* keywords, marker files and a size; loads says whether _load_skill       *)
(* makes a skill of it.  A scope is the sequence of files in one           *)
(* directory, and the scopes come in the order they are scanned.           *)
(***************************************************************************)
EXTENDS Ranking

CONSTANTS
  MaxActiveSkills,  \* max_active
  NoteSize          \* the length of "...[skill truncated]"

\* What a directory has: of two files of one name the later counts.
Scan(scope) ==
  LET sound == {i \in DOMAIN scope : scope[i].loads} IN
  [n \in {scope[i].name : i \in sound} |->
     scope[Max({i \in sound : scope[i].name = n})]]

\* The skills, with what is found put over them.
Updated(skills, found) ==
  [n \in DOMAIN skills \cup DOMAIN found |->
     IF n \in DOMAIN found THEN found[n] ELSE skills[n]]

\* Deviation: what is found first stays.
DiscoverFirst(scopes) ==
  LET skills[i \in 0 .. Len(scopes)] ==
        IF i = 0 THEN <<>> ELSE Updated(Scan(scopes[i]), skills[i - 1])
  IN skills[Len(scopes)]

\* A later scope overrides an earlier one.
Discover(scopes) ==
  LET skills[i \in 0 .. Len(scopes)] ==
        IF i = 0 THEN <<>> ELSE Updated(skills[i - 1], Scan(scopes[i]))
  IN skills[Len(scopes)]

\* words are the keywords the instruction contains, marks the marker files
\* that some repository has.
Score(skill, words, marks) ==
  skill.priority
  + (IF skill.keywords \cap words # {} THEN 20 ELSE 0)
  + 30 * Cardinality(skill.markers \cap marks)

AutoActivate(scopes, words, marks) ==
  LET skills == Discover(scopes)
      score == [n \in DOMAIN skills |-> Score(skills[n], words, marks)]
      scored == {n \in DOMAIN skills : score[n] > skills[n].priority}
  IN First(MaxActiveSkills, Ranked(score, scored))

\* One skill more: the rest of it that does not fit is cut off, and then there
\* is no room for another one.
AddChunk(text, skill) ==
  LET cut == skill.size > text.room
      shown == Min({skill.size, text.room})
  IN [chunks |-> Append(text.chunks, [skill |-> skill, shown |-> shown]),
      room |-> text.room - shown - (IF cut THEN NoteSize ELSE 0)]

\* The loop over the active names; one that is not known is passed over.
Render(scopes, names, room) ==
  LET skills == Discover(scopes)
      active == First(MaxActiveSkills, names)
      text[i \in 0 .. Len(active)] ==
        IF i = 0 THEN [chunks |-> <<>>, room |-> room]
        ELSE IF text[i - 1].room <= 0 \/ active[i] \notin DOMAIN skills
             THEN text[i - 1]
             ELSE AddChunk(text[i - 1], skills[active[i]])
  IN text[Len(active)].chunks
=============================================================================
