------------------------- MODULE RepositoryQueries -------------------------
(***************************************************************************)
(* What the tools of the agent are told from a manifest of the index       *)
(* (search and impact_analysis in minion/runtime/code_index.py).           *)
(*                                                                         *)
(* A file is a number, in the order of the paths, with the name it is      *)
(* known by, the names of its symbols in their order, the tokens it        *)
(* imports and the words of its preview.  Names contain names; how a token *)
(* is spelt, and the seven spellings under which a file is looked up, are  *)
(* left out, and ranks, floats in the code, are natural numbers.           *)
(***************************************************************************)
EXTENDS Ranking

CONSTANTS
  Names,       \* names, tokens and words
  Within,      \* the pairs of a name and another one that contains it
  Limit,       \* search returns at most that many files (50)
  Depth        \* impact_analysis goes at most that deep (5)

In(name, longer) == name = longer \/ <<name, longer>> \in Within

Clamped(n, low, high) == Max({low, Min({n, high})})

\* A token is resolved to every file it may mean, and never to its own file.
DependencyEdges(files) ==
  [f \in DOMAIN files |->
     {g \in DOMAIN files \ {f} : files[g].stem \in files[f].imports}]

Importers(files, f) == {g \in DOMAIN files : f \in DependencyEdges(files)[g]}

\* The files impact_analysis starts from.
TargetFiles(files, target) ==
  {f \in DOMAIN files :
     In(target, files[f].stem) \/ target \in ToSet(files[f].symbols)}

\* Deviation: a file is taken into every layer it imports from.
NextLayerRepeated(files, layers) ==
  LET next == (UNION {Importers(files, f) : f \in Last(layers)}) \ layers[1]
  IN IF next = {} THEN layers ELSE Append(layers, next)

\* The importers of the last layer that have not been seen, until there are
\* none.
NextLayer(files, layers) ==
  LET seen == UNION ToSet(layers)
      next == (UNION {Importers(files, f) : f \in Last(layers)}) \ seen
  IN IF next = {} THEN layers ELSE Append(layers, next)

\* The loop, which begins with the files asked for.
Layers(files, targets) ==
  LET layers[n \in 0 .. Depth] ==
        IF n = 0 THEN <<targets>> ELSE NextLayer(files, layers[n - 1])
  IN layers

ImpactLayers(files, targets, depth) ==
  Tail(Layers(files, targets)[Clamped(depth, 0, Depth)])

ImpactAnalysis(files, rank, target, depth) ==
  LET layers == ImpactLayers(files, TargetFiles(files, target), depth) IN
  [matched |-> TargetFiles(files, target),
   layers |-> [i \in DOMAIN layers |-> Ranked(rank, layers[i])],
   impacted |-> UNION ToSet(layers)]

If(condition, points) == IF condition THEN points ELSE 0

Occurrences(seq, Test(_)) == Cardinality({i \in DOMAIN seq : Test(seq[i])})

\* What a file scores in a search, beside its rank.
Points(file, query) ==
  If(In(query, file.stem), 8) + If(query = file.stem, 8)
  + 15 * Occurrences(file.symbols, LAMBDA s : s = query)
  + 7 * Occurrences(file.symbols, LAMBDA s : s # query /\ In(query, s))
  + If(\E i \in file.imports : In(query, i), 4)
  + If(\E w \in file.preview : In(query, w), 2)

\* Deviation: a limit of zero is taken at its word.
SearchMaybeNone(files, rank, query, limit) ==
  LET hits == {f \in DOMAIN files : Points(files[f], query) > 0}
      score == [f \in hits |-> 5 * rank[f] + Points(files[f], query)]
  IN First(Clamped(limit, 0, Limit), Ranked(score, hits))

Search(files, rank, query, limit) ==
  LET hits == {f \in DOMAIN files : Points(files[f], query) > 0}
      score == [f \in hits |-> 5 * rank[f] + Points(files[f], query)]
  IN First(Clamped(limit, 1, Limit), Ranked(score, hits))
=============================================================================
