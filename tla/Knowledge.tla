----------------------------- MODULE Knowledge -----------------------------
(***************************************************************************)
(* What reaches the agent of its repositories and its skills: one question *)
(* and its answer, for any question of a bounded stock.                    *)
(***************************************************************************)
EXTENDS RepositoryQueries, SkillSelection

CONSTANTS
  Repositories,  \* the files of a repository, and their ranks
  Catalogs,      \* the skills in the scopes
  Situations,    \* what an instruction and the repositories contain
  Rooms,         \* values of max_render_chars
  Numbers,       \* the limits and depths a model may ask for
  Nothing

ASSUME LimitsAssumption ==
  /\ {Limit, MaxActiveSkills, NoteSize} \subseteq Nat \ {0}
  /\ Depth \in Nat
  /\ Numbers \subseteq Int
  /\ Rooms \subseteq Nat

FileFacts ==
  [stem : Names, symbols : Seq(Names), imports : SUBSET Names,
   preview : SUBSET Names]

ASSUME RepositoriesAssumption ==
  \A r \in Repositories :
    r.files \in Seq(FileFacts) /\ r.rank \in [DOMAIN r.files -> Nat]

SkillFiles ==
  [name : Int, scope : STRING, priority : Int, keywords : SUBSET STRING,
   markers : SUBSET STRING, size : Nat, loads : BOOLEAN]

ASSUME SkillsAssumption ==
  /\ Catalogs \subseteq Seq(Seq(SkillFiles))
  /\ \A s \in Situations : IsFiniteSet(s.marks)

VARIABLES question, answer

vars == <<question, answer>>

Init == question = Nothing /\ answer = Nothing

AskImpact ==
  /\ question = Nothing
  /\ \E r \in Repositories, target \in Names, depth \in Numbers :
       /\ question' = [about |-> "impact", files |-> r.files, target |-> target,
                       depth |-> depth]
       /\ answer' = ImpactAnalysis(r.files, r.rank, target, depth)

AskSearch ==
  /\ question = Nothing
  /\ \E r \in Repositories, query \in Names, limit \in Numbers :
       /\ question' = [about |-> "search", repository |-> r, query |-> query,
                       limit |-> limit]
       /\ answer' = Search(r.files, r.rank, query, limit)

\* The skills of a task that begins: suggested, then rendered.
AskSkills ==
  /\ question = Nothing
  /\ \E scopes \in Catalogs, s \in Situations, room \in Rooms :
       /\ question' = [about |-> "skills", scopes |-> scopes, situation |-> s,
                       room |-> room]
       /\ answer' = Render(scopes, AutoActivate(scopes, s.words, s.marks), room)

Next == AskImpact \/ AskSearch \/ AskSkills

Spec == Init /\ [][Next]_vars
-----------------------------------------------------------------------------
\* There are k imports that lead from f to one of the target files.
Leads(files, f, targets, k) ==
  \E path \in [0 .. k -> DOMAIN files] :
    /\ path[0] = f
    /\ path[k] \in targets
    /\ \A i \in 0 .. k - 1 : path[i] \in Importers(files, path[i + 1])

\* The files that are k imports away from the target files, and no fewer.
Distant(files, targets, k) ==
  {f \in DOMAIN files :
     /\ Leads(files, f, targets, k)
     /\ \A i \in 0 .. k - 1 : ~Leads(files, f, targets, i)}

\* Layer k of an impact analysis has exactly the files that are k imports away
\* from what was asked for, over cycles and files of the same name, as deep as
\* was asked for and allowed, and every file is reported once
\* (code_index.py:610-636).
ImpactIsExact ==
  question # Nothing /\ question.about = "impact" =>
    LET deepest == Clamped(question.depth, 0, Depth)
        layer(k) == IF k \in DOMAIN answer.layers THEN ToSet(answer.layers[k]) ELSE {}
    IN /\ Len(answer.layers) <= deepest
       /\ \A k \in 1 .. deepest :
            layer(k) = Distant(question.files, answer.matched, k)
       /\ answer.impacted =
            UNION {Distant(question.files, answer.matched, k) : k \in 1 .. deepest}

Mentions(file, query) ==
  \/ In(query, file.stem)
  \/ \E name \in ToSet(file.symbols) \cup file.imports \cup file.preview :
       In(query, name)

\* A search returns files that mention the query, none of them twice, as many as
\* there are up to the limit, at least one, and a file that defines the very
\* name never yields to one of no greater rank that merely imports it or shows
\* it in its preview (code_index.py:504-549).
SearchFindsDefinitions ==
  question # Nothing /\ question.about = "search" =>
    LET files == question.repository.files
        rank == question.repository.rank
        mentioning == {f \in DOMAIN files : Mentions(files[f], question.query)}
        defines(f) == question.query \in ToSet(files[f].symbols)
        alludes(f) ==
          /\ ~In(question.query, files[f].stem)
          /\ \A s \in ToSet(files[f].symbols) : ~In(question.query, s)
        place(f) == IF f \in ToSet(answer)
                    THEN CHOOSE i \in DOMAIN answer : answer[i] = f
                    ELSE Len(answer) + 1
    IN /\ ToSet(answer) \subseteq mentioning
       /\ Cardinality(ToSet(answer)) = Len(answer)
       /\ Len(answer) = Min({Cardinality(mentioning),
                             Clamped(question.limit, 1, Limit)})
       /\ \A f, g \in mentioning :
            defines(f) /\ alludes(g) /\ rank[f] >= rank[g] => place(f) <= place(g)

\* Every chunk shows a skill that applies, in the version of the most specific
\* scope that has a sound one, and of the last such file there; none is shown
\* twice, all are whole but perhaps the last, and they are within the room.  One
\* that applies is left out only for want of room or of places, and then for
\* others that score no less.
Serves(chunks, scopes, situation, room) ==
  LET score(s) == Score(s, situation.words, situation.marks)
      applies(s) == score(s) > s.priority
      sound(i) == {k \in DOMAIN scopes[i] : scopes[i][k].loads}
      overridden(i, k) ==
        \E j \in DOMAIN scopes : \E l \in sound(j) :
          /\ j > i \/ (j = i /\ l > k)
          /\ scopes[j][l].name = scopes[i][k].name
      valid == UNION {{scopes[i][k] : k \in {l \in sound(i) : ~overridden(i, l)}} :
                        i \in DOMAIN scopes}
      shown == {chunks[i].skill : i \in DOMAIN chunks}
      used[i \in 0 .. Len(chunks)] ==
        IF i = 0 THEN 0 ELSE used[i - 1] + chunks[i].shown
      inAll == used[Len(chunks)]
  IN /\ shown \subseteq {s \in valid : applies(s)}
     /\ Cardinality(shown) = Len(chunks)
     /\ \A i \in DOMAIN chunks :
          i < Len(chunks) => chunks[i].shown = chunks[i].skill.size
     /\ inAll <= room
     /\ \A s \in valid \ shown : applies(s) =>
          /\ Len(chunks) = MaxActiveSkills \/ inAll = room
          /\ \A t \in shown : score(t) >= score(s)

\* The prompt of a task has the skills that it needs, as far as there is room
\* (skills.py:156-275).
SkillsReachThePrompt ==
  question # Nothing /\ question.about = "skills" =>
    Serves(answer, question.scopes, question.situation, question.room)
=============================================================================
