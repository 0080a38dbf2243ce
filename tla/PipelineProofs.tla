--------------------------- MODULE PipelineProofs ---------------------------
(***************************************************************************)
(* Proofs about the way of a request, for any connections and threads, any *)
(* set of requests and upgrades, any limit, window and lag.                *)
(***************************************************************************)
EXTENDS Pipeline, SequenceTheorems, WellFoundedInduction, TLAPS

-----------------------------------------------------------------------------
(* The least and the greatest of a set of indices; the prefixes of a path. *)

LEMMA MinOfSet ==
    ASSUME NEW S, S \subseteq Nat, S # {}
    PROVE  Min(S) \in S /\ \A y \in S : Min(S) <= y
<1>1. \E x \in S : \A y \in S : ~(<<y, x>> \in OpToRel(<, Nat))
  BY NatLessThanWellFounded, WFMin
<1>2. \A x, y \in S : <<y, x>> \in OpToRel(<, Nat) <=> y < x
  BY DEF OpToRel
<1>3. \E x \in S : \A y \in S : x <= y
  <2>1. PICK x \in S : \A y \in S : ~(<<y, x>> \in OpToRel(<, Nat))
    BY <1>1
  <2>2. \A y \in S : y \in Nat /\ ~(y < x)
    BY <1>2, <2>1
  <2> QED
    BY <2>2
<1> QED
  BY <1>3 DEF Min

LEMMA MaxOfSet ==
    ASSUME NEW n \in Nat, NEW S, S \subseteq 0..n, S # {}
    PROVE  Max(S) \in S /\ \A y \in S : y <= Max(S)
<1> DEFINE below == {n - x : x \in S}
<1>1. below \subseteq Nat /\ below # {}
  <2>1. \A x \in S : n - x \in Nat
    OBVIOUS
  <2> QED
    BY <2>1
<1>2. PICK x \in S : n - x = Min(below)
  BY <1>1, MinOfSet
<1>3. \A y \in S : n - x <= n - y
  <2>1. \A z \in below : Min(below) <= z
    BY <1>1, MinOfSet
  <2>2. \A y \in S : n - y \in below
    OBVIOUS
  <2> QED
    BY <1>2, <2>1, <2>2
<1>4. \A y \in S : y <= x
  BY <1>3
<1> QED
  BY <1>4 DEF Max

LEMMA PrefixProperties ==
    ASSUME NEW S, NEW path \in Seq(S), NEW node \in Prefixes(path)
    PROVE  /\ node \in Seq(S)
           /\ Len(node) \in 0..Len(path)
           /\ \A i \in 1..Len(node) : node[i] = path[i]
           /\ Len(node) = Len(path) => node = path
<1>1. PICK n \in 0..Len(path) : node = SubSeq(path, 1, n)
  BY DEF Prefixes
<1>2. \A i \in 1..n : path[i] \in S
  BY <1>1, ElementOfSeq
<1>3. /\ node \in Seq(S)
      /\ Len(node) = n
      /\ \A i \in 1..n : node[i] = path[i]
  BY <1>1, <1>2, SubSeqProperties
<1> QED
  BY <1>1, <1>3, SubSeqFull

LEMMA FullIsPrefix ==
    ASSUME NEW S, NEW path \in Seq(S)
    PROVE  path \in Prefixes(path)
BY SubSeqFull, LenProperties DEF Prefixes

LEMMA PrefixIsPrefix ==
    ASSUME NEW S, NEW path \in Seq(S), NEW node \in Prefixes(path)
    PROVE  IsPrefix(node, path)
<1>1. PICK n \in 0..Len(path) : node = SubSeq(path, 1, n)
  BY DEF Prefixes
<1>2. \A i \in 1..n : path[i] \in S
  BY <1>1, ElementOfSeq
<1>3. node \in Seq(S) /\ Len(node) = n
  BY <1>1, <1>2, SubSeqProperties
<1>4. SubSeq(node, 1, Len(node)) = node /\ Len(node) <= Len(path)
  BY <1>3, SubSeqFull, LenProperties
<1> QED
  BY <1>1, <1>3, <1>4 DEF IsPrefix

LEMMA FrontOfAppend ==
    ASSUME NEW S, NEW node \in Seq(S), NEW x \in S
    PROVE  Front(Append(node, x)) = node
<1> DEFINE whole == Append(node, x)
<1>1. /\ whole \in Seq(S) /\ Len(whole) = Len(node) + 1 /\ Len(node) \in Nat
      /\ \A i \in 1..Len(node) : whole[i] = node[i] /\ node[i] \in S
  BY AppendProperties, LenProperties, ElementOfSeq
<1> HIDE DEF whole
<1>2. Front(whole) = SubSeq(whole, 1, Len(node))
  BY <1>1 DEF Front
<1>3. /\ SubSeq(whole, 1, Len(node)) \in Seq(S)
      /\ Len(SubSeq(whole, 1, Len(node))) = Len(node)
      /\ \A i \in 1..Len(node) : SubSeq(whole, 1, Len(node))[i] = node[i]
  BY <1>1, SubSeqProperties
<1> QED
  BY <1>2, <1>3, SeqEqual DEF whole

LEMMA EmptyIsPrefix ==
    ASSUME NEW S, NEW path \in Seq(S)
    PROVE  <<>> \in Prefixes(path)
<1>1. SubSeq(path, 1, 0) = <<>>
  BY SubSeqEmpty
<1> QED
  BY <1>1, LenProperties DEF Prefixes

-----------------------------------------------------------------------------
(* The trie of any route table: patterns of any segments, in any order, with *)
(* repetitions, with "#" anywhere.                                           *)

LEMMA NodeOfPattern ==
    ASSUME NEW S, NEW pattern \in Seq(S)
    PROVE  LET node == NodeOf(pattern)
           IN  /\ node \in Seq(S)
               /\ \A i \in 1..Len(node) - 1 : node[i] # Wild
               /\ \/ node = pattern /\ \A i \in 1..Len(pattern) : pattern[i] # Wild
                  \/ /\ Len(node) > 0 /\ node[Len(node)] = Wild
                     /\ Wild \in {pattern[i] : i \in 1..Len(pattern)}
<1> DEFINE wilds == {i \in 1..Len(pattern) : pattern[i] = Wild}
<1>1. CASE wilds = {}
  <2>1. NodeOf(pattern) = pattern
    BY <1>1 DEF NodeOf
  <2> QED
    BY <1>1, <2>1
<1>2. CASE wilds # {}
  <2>1. NodeOf(pattern) = SubSeq(pattern, 1, Min(wilds))
    BY <1>2 DEF NodeOf
  <2>2. Min(wilds) \in wilds /\ \A i \in wilds : Min(wilds) <= i
    <3>1. wilds \subseteq Nat
      OBVIOUS
    <3> HIDE DEF wilds
    <3> QED
      BY <1>2, <3>1, MinOfSet
  <2> DEFINE m == Min(wilds)
  <2>3. m \in 1..Len(pattern) /\ pattern[m] = Wild
    BY <2>2
  <2>4. \A i \in 1..Len(pattern) : i < m => pattern[i] # Wild
    BY <2>2, <2>3
  <2>5. \A i \in 1..m : pattern[i] \in S
    BY <2>3, ElementOfSeq
  <2> HIDE DEF m
  <2>6. /\ SubSeq(pattern, 1, m) \in Seq(S)
        /\ Len(SubSeq(pattern, 1, m)) = m
        /\ \A i \in 1..m : SubSeq(pattern, 1, m)[i] = pattern[i]
    BY <2>3, <2>5, SubSeqProperties
  <2>7. NodeOf(pattern) = SubSeq(pattern, 1, m)
    BY <2>1 DEF m
  <2> HIDE DEF wilds
  <2> QED
    BY <2>3, <2>4, <2>6, <2>7
<1> QED
  BY <1>1, <1>2

\* The way to a pattern's node has no "#" before its end.
LEMMA WildOnlyAtNode ==
    ASSUME NEW S, NEW pattern \in Seq(S), NEW node \in Prefixes(NodeOf(pattern)),
           Len(node) # 0, node[Len(node)] = Wild
    PROVE  node = NodeOf(pattern)
<1>1. /\ NodeOf(pattern) \in Seq(S)
      /\ \A i \in 1..Len(NodeOf(pattern)) - 1 : NodeOf(pattern)[i] # Wild
  BY NodeOfPattern
<1>2. /\ Len(node) \in 0..Len(NodeOf(pattern))
      /\ \A i \in 1..Len(node) : node[i] = NodeOf(pattern)[i]
      /\ Len(node) = Len(NodeOf(pattern)) => node = NodeOf(pattern)
  BY <1>1, PrefixProperties
<1> QED
  BY <1>1, <1>2, LenProperties

\* The trie of the first n patterns: every index is at the node of its pattern,
\* no node keeps an older index than the last inserted there, and a node of a
\* "#" has one.
Holds(trie, patterns, n) ==
    /\ <<>> \in DOMAIN trie
    /\ \A node \in DOMAIN trie :
          \/ trie[node] = NoRoute
          \/ trie[node] \in 1..n /\ NodeOf(patterns[trie[node]]) = node
    /\ \A node \in DOMAIN trie :
          Len(node) # 0 /\ node[Len(node)] = Wild => trie[node] # NoRoute
    /\ \A j \in 1..n :
          NodeOf(patterns[j]) \in DOMAIN trie /\ trie[NodeOf(patterns[j])] >= j

LEMMA HoldsEmpty ==
    ASSUME NEW patterns
    PROVE  Holds(EmptyTrie, patterns, 0)
<1>1. DOMAIN EmptyTrie = {<<>>} /\ EmptyTrie[<<>>] = NoRoute /\ Len(<<>>) = 0
  BY DEF EmptyTrie
<1> QED
  BY <1>1 DEF Holds

LEMMA HoldsInsert ==
    ASSUME NEW S, NEW patterns \in Seq(Seq(S)), NEW n \in 1..Len(patterns),
           NEW trie, Holds(trie, patterns, n - 1)
    PROVE  Holds(Insert(trie, patterns[n], n), patterns, n)
<1> DEFINE at == NodeOf(patterns[n])
           new == Insert(trie, patterns[n], n)
<1>1. patterns[n] \in Seq(S) /\ at \in Seq(S)
  BY ElementOfSeq, NodeOfPattern
<1>2. at \in Prefixes(at)
  BY <1>1, FullIsPrefix
<1>3. /\ DOMAIN new = DOMAIN trie \cup Prefixes(at)
      /\ \A node \in DOMAIN new :
            new[node] = IF node = at THEN n ELSE IF node \in DOMAIN trie THEN trie[node] ELSE NoRoute
  BY Zenon DEF Insert
<1>4. ASSUME NEW node \in Prefixes(at), Len(node) # 0, node[Len(node)] = Wild PROVE node = at
  BY <1>1, <1>4, WildOnlyAtNode
<1> HIDE DEF new
<1>5. n \in Nat /\ n # NoRoute
  BY LenProperties DEF NoRoute
<1>6. ASSUME NEW node \in DOMAIN new
      PROVE  \/ new[node] = NoRoute
             \/ new[node] \in 1..n /\ NodeOf(patterns[new[node]]) = node
  <2>1. CASE node = at
    BY <1>3, <1>5, <2>1
  <2>2. CASE node # at /\ node \in DOMAIN trie
    BY <1>3, <1>5, <2>2 DEF Holds
  <2>3. CASE node # at /\ node \notin DOMAIN trie
    BY <1>3, <2>3
  <2> QED
    BY <2>1, <2>2, <2>3
<1>7. ASSUME NEW node \in DOMAIN new, Len(node) # 0, node[Len(node)] = Wild
      PROVE  new[node] # NoRoute
  <2>1. node = at \/ node \in DOMAIN trie
    BY <1>3, <1>4, <1>7
  <2> QED
    BY <1>3, <1>5, <1>7, <2>1 DEF Holds
<1>8. ASSUME NEW j \in 1..n
      PROVE  NodeOf(patterns[j]) \in DOMAIN new /\ new[NodeOf(patterns[j])] >= j
  <2>1. CASE NodeOf(patterns[j]) = at
    BY <1>2, <1>3, <1>5, <2>1
  <2>2. CASE NodeOf(patterns[j]) # at
    <3>1. j \in 1..n - 1
      BY <1>5, <2>2
    <3> QED
      BY <1>3, <2>2, <3>1 DEF Holds
  <2> QED
    BY <2>1, <2>2
<1>9. <<>> \in DOMAIN new
  BY <1>3 DEF Holds
<1>10. Holds(new, patterns, n)
  BY <1>6, <1>7, <1>8, <1>9 DEF Holds
<1> QED
  BY <1>10 DEF new

\* The tries that Router::addRoute makes, one after the other.
Built(tries, patterns) ==
    /\ tries[0] = EmptyTrie
    /\ \A n \in 1..Len(patterns) : tries[n] = Insert(tries[n - 1], patterns[n], n)

LEMMA BuiltHolds ==
    ASSUME NEW S, NEW patterns \in Seq(Seq(S)), NEW tries, Built(tries, patterns)
    PROVE  Holds(tries[Len(patterns)], patterns, Len(patterns))
<1> DEFINE bad == {n \in 0..Len(patterns) : ~Holds(tries[n], patterns, n)}
<1>1. Len(patterns) \in Nat
  BY LenProperties
<1>2. ASSUME bad # {} PROVE FALSE
  <2>1. Min(bad) \in bad /\ \A n \in bad : Min(bad) <= n
    <3>1. bad \subseteq Nat
      BY <1>1
    <3> HIDE DEF bad
    <3> QED
      BY <1>2, <3>1, MinOfSet
  <2> DEFINE n == Min(bad)
  <2>2. n \in 0..Len(patterns) /\ ~Holds(tries[n], patterns, n)
    BY <2>1
  <2>3. n # 0
    BY <2>2, HoldsEmpty DEF Built
  <2>4. n \in 1..Len(patterns) /\ n - 1 \in 0..Len(patterns) /\ ~(n <= n - 1)
    BY <1>1, <2>2, <2>3
  <2>5. Holds(tries[n - 1], patterns, n - 1)
    BY <2>1, <2>4
  <2> HIDE DEF n
  <2>6. tries[n] = Insert(tries[n - 1], patterns[n], n)
    BY <2>4 DEF Built
  <2> QED
    BY <2>2, <2>4, <2>5, <2>6, HoldsInsert
<1>3. Len(patterns) \in 0..Len(patterns)
  BY <1>1
<1> QED
  BY <1>2, <1>3

\* Trie::match never leaves the nodes, and goes as deep as the path allows.
LEMMA DeepestIn ==
    ASSUME NEW S, NEW path \in Seq(S), NEW trie, <<>> \in DOMAIN trie
    PROVE  /\ Deepest(trie, path) \in Prefixes(path) \cap DOMAIN trie
           /\ \A other \in Prefixes(path) \cap DOMAIN trie :
                 Len(other) <= Len(Deepest(trie, path))
<1> DEFINE nodes == Prefixes(path) \cap DOMAIN trie
           lengths == {Len(node) : node \in nodes}
<1>1. Len(path) \in Nat
  BY LenProperties
<1>2. <<>> \in nodes
  BY EmptyIsPrefix
<1>3. lengths \subseteq 0..Len(path) /\ lengths # {}
  <2>1. ASSUME NEW node \in Prefixes(path) PROVE Len(node) \in 0..Len(path)
    BY PrefixProperties
  <2> QED
    BY <1>2, <2>1
<1>4. Max(lengths) \in lengths /\ \A m \in lengths : m <= Max(lengths)
  <2> HIDE DEF lengths
  <2> QED
    BY <1>1, <1>3, MaxOfSet
<1>5. \E node \in nodes : \A other \in nodes : Len(other) <= Len(node)
  BY <1>4
<1> HIDE DEF nodes
<1>6. Deepest(trie, path) = CHOOSE node \in nodes : \A other \in nodes : Len(other) <= Len(node)
  BY Zenon DEF Deepest, nodes
<1>7. /\ Deepest(trie, path) \in nodes
      /\ \A other \in nodes : Len(other) <= Len(Deepest(trie, path))
  BY <1>5, <1>6, Zenon
<1> QED
  BY <1>7 DEF nodes

\* Whatever routes are registered, and in whatever order: the route that a path
\* gets has a pattern that means the path, and it is the last one that was
\* registered at its node.
THEOREM AnyTableRoutesAsMeant ==
    ASSUME NEW S, Wild \in S, NEW patterns \in Seq(Seq(S)),
           NEW tries, Built(tries, patterns), NEW path \in Seq(S),
           Match(tries[Len(patterns)], path) # NoRoute
    PROVE  LET i == Match(tries[Len(patterns)], path)
           IN  /\ i \in 1..Len(patterns)
               /\ Means(patterns[i], path)
               /\ \A j \in 1..Len(patterns) :
                     NodeOf(patterns[j]) = NodeOf(patterns[i]) => j <= i
<1> DEFINE trie == tries[Len(patterns)]
           node == Deepest(trie, path)
           wild == Append(node, Wild)
           i == Match(trie, path)
<1>1. Holds(trie, patterns, Len(patterns))
  BY BuiltHolds
<1> HIDE DEF trie
<1>2. node \in Prefixes(path) /\ node \in DOMAIN trie
  BY <1>1, DeepestIn DEF Holds
<1>3. i = IF wild \in DOMAIN trie THEN trie[wild]
          ELSE IF node = path THEN trie[node] ELSE NoRoute
  BY Zenon DEF Match
<1>4. i # NoRoute
  BY DEF trie
<1> HIDE DEF i, node
<1>5. PICK at \in DOMAIN trie : i = trie[at] /\ (at = wild \/ at = path)
  BY <1>2, <1>3, <1>4
<1>6. i \in 1..Len(patterns) /\ NodeOf(patterns[i]) = at
  BY <1>1, <1>4, <1>5 DEF Holds
<1>7. patterns[i] \in Seq(S)
  BY <1>6, ElementOfSeq
<1>8. \A j \in 1..Len(patterns) : NodeOf(patterns[j]) = at => j <= i
  BY <1>1, <1>5 DEF Holds
<1>9. node \in Seq(S) /\ Len(node) \in 0..Len(path) /\ (\A k \in 1..Len(node) : node[k] = path[k])
  BY <1>2, PrefixProperties
<1>10. Means(patterns[i], path)
  <2>1. CASE at = wild
    <3>1. wild \in Seq(S) /\ Len(wild) = Len(node) + 1 /\ wild[Len(wild)] = Wild
      BY <1>9, AppendProperties
    <3>2. Wild \in {patterns[i][k] : k \in 1..Len(patterns[i])}
      <4> HIDE DEF wild
      <4>1. NodeOf(patterns[i]) = wild /\ Len(wild) \in 1..Len(wild)
        BY <1>6, <1>9, <2>1, <3>1
      <4>2. CASE wild = patterns[i]
        BY <3>1, <4>1, <4>2
      <4>3. CASE wild # patterns[i]
        BY <1>7, <4>1, <4>3, NodeOfPattern
      <4> QED
        BY <4>2, <4>3
    <3>3. Front(wild) = node
      BY <1>9, FrontOfAppend
    <3>4. IsPrefix(node, path)
      BY <1>2, PrefixIsPrefix
    <3> QED
      BY <1>6, <2>1, <3>2, <3>3, <3>4, Zenon DEF Means
  <2>2. CASE at = path /\ patterns[i] # path
    <3>1. Wild \in {patterns[i][k] : k \in 1..Len(patterns[i])}
      BY <1>6, <1>7, <2>2, NodeOfPattern
    <3>2. IsPrefix(Front(path), path)
      <4>1. Len(path) > 0
        BY <1>6, <1>7, <2>2, NodeOfPattern
      <4>2. Len(path) - 1 \in 0..Len(path)
        BY <4>1, LenProperties
      <4>3. Front(path) \in Prefixes(path)
        BY <4>2, Zenon DEF Front, Prefixes
      <4> QED
        BY <4>3, PrefixIsPrefix
    <3> QED
      BY <1>6, <2>2, <3>1, <3>2, Zenon DEF Means
  <2>3. CASE at = path /\ patterns[i] = path
    BY <2>3 DEF Means
  <2> QED
    BY <1>5, <2>1, <2>2, <2>3
<1> QED
  BY <1>6, <1>8, <1>10 DEF i, trie

\* A route whose pattern has no "#" is found at its path, whatever was registered
\* besides: only a "#" right below it comes first.
THEOREM RegisteredPathsAreFound ==
    ASSUME NEW S, Wild \in S, NEW patterns \in Seq(Seq(S)),
           NEW tries, Built(tries, patterns),
           NEW r \in 1..Len(patterns), Wild \notin {patterns[r][k] : k \in 1..Len(patterns[r])}
    PROVE  LET path == patterns[r]
               i == Match(tries[Len(patterns)], path)
               below == {m \in 1..Len(patterns) : NodeOf(patterns[m]) = Append(path, Wild)}
           IN  /\ i \in 1..Len(patterns)
               /\ IF below = {} THEN i >= r /\ patterns[i] = path ELSE i \in below
<1> DEFINE trie == tries[Len(patterns)]
           path == patterns[r]
           wild == Append(path, Wild)
           i == Match(trie, path)
           below == {m \in 1..Len(patterns) : NodeOf(patterns[m]) = wild}
<1>1. Holds(trie, patterns, Len(patterns))
  BY BuiltHolds
<1>2. path \in Seq(S)
  BY ElementOfSeq
<1>3. NodeOf(path) = path
  BY <1>2, NodeOfPattern
<1> HIDE DEF trie
<1>4. path \in DOMAIN trie /\ trie[path] >= r /\ path \in Prefixes(path)
  BY <1>1, <1>2, <1>3, FullIsPrefix DEF Holds
<1>5. Deepest(trie, path) = path
  <2> DEFINE node == Deepest(trie, path)
  <2>1. node \in Prefixes(path) /\ Len(path) <= Len(node)
    BY <1>1, <1>2, <1>4, DeepestIn DEF Holds
  <2>2. Len(node) \in 0..Len(path) /\ (Len(node) = Len(path) => node = path)
    BY <1>2, <2>1, PrefixProperties
  <2> HIDE DEF node
  <2>3. node = path
    BY <1>2, <2>1, <2>2, LenProperties
  <2> QED
    BY <2>3 DEF node
<1>6. i = IF wild \in DOMAIN trie THEN trie[wild] ELSE trie[path]
  BY <1>5, Zenon DEF Match
<1> HIDE DEF i
<1>7. wild \in Seq(S) /\ Len(wild) # 0 /\ wild[Len(wild)] = Wild
  BY <1>2, AppendProperties, LenProperties
<1>8. r \in Nat /\ r > NoRoute
  BY LenProperties DEF NoRoute
<1> HIDE DEF wild
<1>9. CASE wild \in DOMAIN trie
  <2>1. i = trie[wild] /\ i # NoRoute
    BY <1>1, <1>6, <1>7, <1>9 DEF Holds
  <2>2. i \in below
    BY <1>1, <1>9, <2>1 DEF Holds
  <2> QED
    BY <2>2 DEF i, trie, wild
<1>10. CASE wild \notin DOMAIN trie
  <2>1. below = {}
    BY <1>1, <1>10 DEF Holds
  <2>2. i = trie[path] /\ i # NoRoute
    BY <1>4, <1>6, <1>8, <1>10 DEF NoRoute
  <2>3. i \in 1..Len(patterns) /\ NodeOf(patterns[i]) = path /\ i >= r
    BY <1>1, <1>4, <2>2 DEF Holds
  <2>4. patterns[i] = path
    <3>1. patterns[i] \in Seq(S)
      BY <2>3, ElementOfSeq
    <3>2. Len(path) > 0 => path[Len(path)] # Wild
      BY <1>2, LenProperties
    <3> QED
      BY <2>3, <3>1, <3>2, NodeOfPattern
  <2> QED
    BY <2>1, <2>3, <2>4 DEF i, trie, wild
<1> QED
  BY <1>9, <1>10

-----------------------------------------------------------------------------
(* The trie of the five routes.                                            *)

WildPath == <<Wild>>
RootPath == <<>>

LEMMA Patterns ==
    /\ LoginPath \in Seq(Segments) /\ Len(LoginPath) = 3
    /\ LogoutPath \in Seq(Segments) /\ Len(LogoutPath) = 3
    /\ StreamPath \in Seq(Segments) /\ Len(StreamPath) = 3
    /\ WildPath \in Seq(Segments) /\ Len(WildPath) = 1 /\ WildPath[1] = Wild
    /\ RootPath \in Seq(Segments) /\ Len(RootPath) = 0
    /\ Wild \in Segments
BY PipelineAssumption DEF LoginPath, LogoutPath, StreamPath, WildPath, RootPath, Wild

LEMMA NoWildInside ==
    \A i \in 1..3 : LoginPath[i] # Wild /\ LogoutPath[i] # Wild /\ StreamPath[i] # Wild
BY DEF LoginPath, LogoutPath, StreamPath, Wild

LEMMA PatternsDiffer ==
    /\ LoginPath # LogoutPath /\ LoginPath # StreamPath /\ LogoutPath # StreamPath
    /\ WildPath \notin {LoginPath, LogoutPath, StreamPath, RootPath}
    /\ RootPath \notin {LoginPath, LogoutPath, StreamPath}
<1>1. LoginPath # LogoutPath /\ LoginPath # StreamPath /\ LogoutPath # StreamPath
  BY DEF LoginPath, LogoutPath, StreamPath
<1>2. Len(WildPath) # 3 /\ Len(RootPath) # 3 /\ Len(WildPath) # Len(RootPath)
  BY Patterns
<1> QED
  BY <1>1, <1>2, Patterns, Zenon

\* A pattern without "#" is stored at its own node, "/#" at that of "#".
LEMMA NodesOfRoutes ==
    \A pattern \in {LoginPath, LogoutPath, WildPath, RootPath, StreamPath} :
        NodeOf(pattern) = pattern
<1>1. ASSUME NEW p \in {LoginPath, LogoutPath, StreamPath} PROVE NodeOf(p) = p
  <2>1. {i \in 1..Len(p) : p[i] = Wild} = {}
    BY <1>1, Patterns, NoWildInside
  <2> QED
    BY <2>1 DEF NodeOf
<1>2. NodeOf(RootPath) = RootPath
  <2>1. {i \in 1..Len(RootPath) : RootPath[i] = Wild} = {}
    BY Patterns
  <2> QED
    BY <2>1 DEF NodeOf
<1>3. NodeOf(WildPath) = WildPath
  <2>1. {i \in 1..Len(WildPath) : WildPath[i] = Wild} = {1}
    BY Patterns
  <2>2. Min({1}) = 1
    BY DEF Min
  <2>3. SubSeq(WildPath, 1, 1) = WildPath
    BY SubSeqFull, Patterns
  <2> QED
    BY <2>1, <2>2, <2>3 DEF NodeOf
<1> QED
  BY <1>1, <1>2, <1>3

Nodes == {RootPath} \cup Prefixes(LoginPath) \cup Prefixes(LogoutPath)
            \cup Prefixes(WildPath) \cup Prefixes(RootPath) \cup Prefixes(StreamPath)

Patterns5 == {LoginPath, LogoutPath, WildPath, RootPath, StreamPath}

LEMMA InsertedNodes ==
    ASSUME NEW trie, NEW index, NEW pattern \in Patterns5
    PROVE  DOMAIN Insert(trie, pattern, index) = DOMAIN trie \cup Prefixes(pattern)
BY NodesOfRoutes, Zenon DEF Insert, Patterns5

LEMMA InsertedIndex ==
    ASSUME NEW trie, NEW index, NEW pattern \in Patterns5
    PROVE  Insert(trie, pattern, index)[pattern] = index
<1>1. NodeOf(pattern) = pattern
  BY NodesOfRoutes DEF Patterns5
<1>2. pattern \in Prefixes(pattern)
  BY Patterns, FullIsPrefix DEF Patterns5
<1> QED
  BY <1>1, <1>2, Zenon DEF Insert

LEMMA KeptIndex ==
    ASSUME NEW trie, NEW index, NEW pattern \in Patterns5,
           NEW node \in DOMAIN trie, node # pattern
    PROVE  Insert(trie, pattern, index)[node] = trie[node]
<1>1. NodeOf(pattern) = pattern
  BY NodesOfRoutes DEF Patterns5
<1> QED
  BY <1>1, Zenon DEF Insert

LEMMA NewNode ==
    ASSUME NEW trie, NEW index, NEW pattern \in Patterns5,
           NEW node \in Prefixes(pattern), node # pattern, node \notin DOMAIN trie
    PROVE  Insert(trie, pattern, index)[node] = NoRoute
<1>1. NodeOf(pattern) = pattern
  BY NodesOfRoutes DEF Patterns5
<1> QED
  BY <1>1, Zenon DEF Insert

\* What RouteTrie is: every node is on the way to a pattern, and holds the
\* index of the route whose pattern ends there.
LEMMA RouteNodes ==
    /\ DOMAIN RouteTrie = Nodes
    /\ RouteTrie[LoginPath] = 1
    /\ RouteTrie[LogoutPath] = 2
    /\ RouteTrie[WildPath] = 3
    /\ RouteTrie[RootPath] = 4
    /\ RouteTrie[StreamPath] = 5
    /\ \A node \in Nodes \ Patterns5 : RouteTrie[node] = NoRoute
<1> DEFINE T1 == Insert(EmptyTrie, LoginPath, 1)
           T2 == Insert(T1, LogoutPath, 2)
           T3 == Insert(T2, WildPath, 3)
           T4 == Insert(T3, RootPath, 4)
           T5 == Insert(T4, StreamPath, 5)
           Bare(trie) == \A node \in DOMAIN trie \ Patterns5 : trie[node] = NoRoute
<1>1. RouteTrie = T5
  <2>1. /\ Routes[1].pattern = LoginPath /\ Routes[2].pattern = LogoutPath
        /\ Routes[3].pattern = WildPath /\ Routes[4].pattern = RootPath
        /\ Routes[5].pattern = StreamPath
    BY DEF Routes, WildPath, RootPath
  <2> QED
    BY <2>1, Zenon DEF RouteTrie
<1>2. DOMAIN EmptyTrie = {RootPath} /\ EmptyTrie[RootPath] = NoRoute
  BY DEF EmptyTrie, RootPath
<1>3. ASSUME NEW trie, NEW index, NEW pattern \in Patterns5, Bare(trie)
      PROVE  Bare(Insert(trie, pattern, index))
  <2> SUFFICES ASSUME NEW node \in DOMAIN Insert(trie, pattern, index), node \notin Patterns5
               PROVE  Insert(trie, pattern, index)[node] = NoRoute
    OBVIOUS
  <2>1. DOMAIN Insert(trie, pattern, index) = DOMAIN trie \cup Prefixes(pattern)
    BY InsertedNodes, Zenon
  <2>2. CASE node \in DOMAIN trie
    BY <1>3, <2>2, KeptIndex, Zenon
  <2>3. CASE node \notin DOMAIN trie
    <3>1. node \in Prefixes(pattern)
      BY <2>1, <2>3
    <3> QED
      BY <2>3, <3>1, NewNode, Zenon
  <2> QED
    BY <2>2, <2>3
<1>4. /\ LoginPath \in Patterns5 /\ LogoutPath \in Patterns5 /\ WildPath \in Patterns5
      /\ RootPath \in Patterns5 /\ StreamPath \in Patterns5
  BY DEF Patterns5
<1>5. Bare(T5)
  <2>1. Bare(EmptyTrie)
    BY <1>2, <1>4
  <2> HIDE DEF Bare
  <2> QED
    BY <1>3, <1>4, <2>1, Zenon
<1> HIDE DEF T1, T2, T3, T4
<1>6. /\ DOMAIN T1 = {RootPath} \cup Prefixes(LoginPath)
      /\ DOMAIN T2 = DOMAIN T1 \cup Prefixes(LogoutPath)
      /\ DOMAIN T3 = DOMAIN T2 \cup Prefixes(WildPath)
      /\ DOMAIN T4 = DOMAIN T3 \cup Prefixes(RootPath)
      /\ DOMAIN T5 = DOMAIN T4 \cup Prefixes(StreamPath)
  BY <1>2, <1>4, InsertedNodes, Zenon DEF T1, T2, T3, T4
<1>7. /\ LoginPath \in DOMAIN T1 /\ LogoutPath \in DOMAIN T2 /\ WildPath \in DOMAIN T3
      /\ RootPath \in DOMAIN T4
  BY <1>6, Patterns, FullIsPrefix
<1>8. /\ LoginPath \in DOMAIN T2 /\ LoginPath \in DOMAIN T3 /\ LoginPath \in DOMAIN T4
      /\ LogoutPath \in DOMAIN T3 /\ LogoutPath \in DOMAIN T4 /\ WildPath \in DOMAIN T4
  BY <1>6, <1>7
<1>9. T5[LoginPath] = 1
  BY <1>4, <1>7, <1>8, PatternsDiffer, InsertedIndex, KeptIndex DEF T1, T2, T3, T4
<1>10. T5[LogoutPath] = 2
  BY <1>4, <1>7, <1>8, PatternsDiffer, InsertedIndex, KeptIndex DEF T2, T3, T4
<1>11. T5[WildPath] = 3
  BY <1>4, <1>7, <1>8, PatternsDiffer, InsertedIndex, KeptIndex DEF T3, T4
<1>12. T5[RootPath] = 4
  BY <1>4, <1>7, <1>8, PatternsDiffer, InsertedIndex, KeptIndex DEF T4
<1>13. T5[StreamPath] = 5
  BY <1>4, InsertedIndex
<1>14. DOMAIN T5 = Nodes
  BY <1>6 DEF Nodes
<1> QED
  BY <1>1, <1>5, <1>9, <1>10, <1>11, <1>12, <1>13, <1>14

\* RouteTrie is one of the tries that the general theorems are about.
LEMMA RouteTrieIsBuilt ==
    \E tries : /\ Built(tries, [i \in 1..5 |-> Routes[i].pattern])
               /\ tries[5] = RouteTrie
<1> DEFINE p == [i \in 1..5 |-> Routes[i].pattern]
           T1 == Insert(EmptyTrie, p[1], 1)
           T2 == Insert(T1, p[2], 2)
           T3 == Insert(T2, p[3], 3)
           T4 == Insert(T3, p[4], 4)
           T5 == Insert(T4, p[5], 5)
           tries == [n \in 0..5 |-> IF n = 0 THEN EmptyTrie ELSE IF n = 1 THEN T1
                                    ELSE IF n = 2 THEN T2 ELSE IF n = 3 THEN T3
                                    ELSE IF n = 4 THEN T4 ELSE T5]
<1>1. /\ p[1] = Routes[1].pattern /\ p[2] = Routes[2].pattern /\ p[3] = Routes[3].pattern
      /\ p[4] = Routes[4].pattern /\ p[5] = Routes[5].pattern /\ Len(p) = 5
  OBVIOUS
<1> HIDE DEF p
<1>2. RouteTrie = T5
  BY <1>1, Zenon DEF RouteTrie
<1> HIDE DEF T1, T2, T3, T4, T5
<1>3. /\ tries[0] = EmptyTrie /\ tries[1] = T1 /\ tries[2] = T2
      /\ tries[3] = T3 /\ tries[4] = T4 /\ tries[5] = T5
  OBVIOUS
<1> HIDE DEF tries
<1>4. /\ tries[1] = Insert(tries[0], p[1], 1) /\ tries[2] = Insert(tries[1], p[2], 2)
      /\ tries[3] = Insert(tries[2], p[3], 3) /\ tries[4] = Insert(tries[3], p[4], 4)
      /\ tries[5] = Insert(tries[4], p[5], 5)
  BY <1>3, Zenon DEF T1, T2, T3, T4, T5
<1>5. ASSUME NEW n \in 1..Len(p) PROVE tries[n] = Insert(tries[n - 1], p[n], n)
  <2>1. n \in {1, 2, 3, 4, 5}
    BY <1>1
  <2> QED
    BY <1>4, <2>1
<1>6. Built(tries, p)
  BY <1>3, <1>5 DEF Built
<1> QED
  BY <1>2, <1>3, <1>6 DEF p

\* Nodes are at most three segments deep, only one ends in "#", and all others
\* but the root begin with "api".
LEMMA NodeProperties ==
    ASSUME NEW node \in Nodes
    PROVE  /\ node \in Seq(Segments)
           /\ Len(node) \in 0..3
           /\ Len(node) # 0 /\ node[Len(node)] = Wild => node = WildPath
           /\ Len(node) # 0 => node[1] \in {"api", Wild}
<1>0. ASSUME NEW p, p \in Seq(Segments), node \in Prefixes(p)
      PROVE  /\ node \in Seq(Segments)
             /\ Len(node) \in 0..Len(p)
             /\ \A k \in 1..Len(node) : node[k] = p[k]
             /\ Len(node) = Len(p) => node = p
  BY <1>0, PrefixProperties
<1>1. ASSUME NEW p \in {LoginPath, LogoutPath, StreamPath}, node \in Prefixes(p)
      PROVE  /\ node \in Seq(Segments)
             /\ Len(node) \in 0..3
             /\ \A i \in 1..Len(node) : node[i] # Wild
             /\ Len(node) # 0 => node[1] = "api"
  <2>1. p \in Seq(Segments) /\ Len(p) = 3 /\ \A i \in 1..3 : p[i] # Wild
    BY <1>1, Patterns, NoWildInside
  <2>3. p[1] = "api"
    BY <1>1 DEF LoginPath, LogoutPath, StreamPath
  <2>2. /\ node \in Seq(Segments)
        /\ Len(node) \in 0..Len(p)
        /\ \A i \in 1..Len(node) : node[i] = p[i]
    BY <1>0, <1>1, <2>1
  <2> QED
    BY <2>1, <2>2, <2>3
<1>2. CASE node \in Prefixes(WildPath)
  <2>1. node \in Seq(Segments) /\ Len(node) \in 0..1 /\ (Len(node) = 1 => node = WildPath)
    BY <1>2, Patterns, PrefixProperties
  <2>2. WildPath[1] = Wild
    BY DEF WildPath
  <2> QED
    BY <2>1, <2>2
<1>3. CASE node \in Prefixes(RootPath)
  <2>1. node \in Seq(Segments) /\ Len(node) \in 0..0
    BY <1>3, Patterns, PrefixProperties
  <2> QED
    BY <2>1
<1>4. CASE node = RootPath
  BY <1>4, Patterns
<1> QED
  BY <1>1, <1>2, <1>3, <1>4 DEF Nodes

\* The descent of match ends at the longest prefix of the path that is a node.
LEMMA DeepestIs ==
    ASSUME NEW path \in Seq(Segments)
    PROVE  /\ Deepest(RouteTrie, path) \in Prefixes(path) \cap Nodes
           /\ \A other \in Prefixes(path) \cap Nodes :
                 Len(other) <= Len(Deepest(RouteTrie, path))
<1>1. DOMAIN RouteTrie = Nodes /\ <<>> \in DOMAIN RouteTrie
  BY RouteNodes DEF Nodes, RootPath
<1> QED
  BY <1>1, DeepestIn

\* Every path gets the route of its own pattern if there is one; otherwise the
\* catch-all's if no segment of it leads anywhere, or none.
LEMMA RouteOfPath ==
    ASSUME NEW path \in Seq(Segments)
    PROVE  /\ Match(RouteTrie, path) \in {NoRoute, 1, 2, 3, 5}
           /\ Match(RouteTrie, path) = 1 <=> path = LoginPath
           /\ Match(RouteTrie, path) = 2 <=> path = LogoutPath
           /\ Match(RouteTrie, path) = 5 <=> path = StreamPath
           /\ path \in {RootPath, WildPath} => Match(RouteTrie, path) = 3
           /\ path[1] \notin {"api", Wild} => Match(RouteTrie, path) = 3
<1> DEFINE node == Deepest(RouteTrie, path)
           wild == Append(node, Wild)
<1>1. /\ node \in Nodes /\ node \in Seq(Segments) /\ Len(node) \in 0..3
      /\ Len(node) <= Len(path) /\ (Len(node) = Len(path) => node = path)
  BY DeepestIs, NodeProperties, PrefixProperties, LenProperties
<1>11. path[1] \notin {"api", Wild} => node = RootPath
  <2>1. \A i \in 1..Len(node) : node[i] = path[i]
    BY <1>1, DeepestIs, PrefixProperties
  <2>2. Len(node) # 0 => node[1] \in {"api", Wild}
    BY <1>1, NodeProperties
  <2> QED
    BY <1>1, <2>1, <2>2, EmptySeq DEF RootPath
<1>2. path \in Nodes => node = path
  BY <1>1, DeepestIs, FullIsPrefix, LenProperties
<1>3. /\ wild \in Seq(Segments) /\ Len(wild) = Len(node) + 1
      /\ wild[Len(wild)] = Wild
  BY <1>1, Patterns, AppendProperties
<1>4. node = RootPath => wild = WildPath
  BY DEF RootPath, WildPath
<1>5. Match(RouteTrie, path) =
        IF wild \in Nodes THEN RouteTrie[wild]
        ELSE IF node = path THEN RouteTrie[node] ELSE NoRoute
  BY RouteNodes, Zenon DEF Match
<1> HIDE DEF node, wild
<1>6. wild \in Nodes => node = RootPath
  <2> SUFFICES ASSUME wild \in Nodes PROVE node = RootPath
    OBVIOUS
  <2>1. wild = WildPath
    BY <1>1, <1>3, NodeProperties
  <2> QED
    BY <1>1, <1>3, <2>1, Patterns, EmptySeq DEF RootPath
<1>7. {LoginPath, LogoutPath, StreamPath, WildPath, RootPath} \subseteq Nodes
  BY Patterns, FullIsPrefix DEF Nodes
<1>8. CASE node = RootPath
  <2>1. Match(RouteTrie, path) = 3
    BY <1>4, <1>5, <1>7, <1>8, RouteNodes
  <2> QED
    BY <2>1, <1>2, <1>7, <1>8, PatternsDiffer DEF NoRoute
<1>9. CASE node # RootPath /\ node = path
  <2>1. Match(RouteTrie, path) = RouteTrie[path] /\ path \in Nodes
    BY <1>1, <1>6, <1>5, <1>9
  <2> QED
    BY <2>1, <1>9, <1>11, RouteNodes, PatternsDiffer DEF NoRoute, Patterns5
<1>10. CASE node # RootPath /\ node # path
  <2>1. Match(RouteTrie, path) = NoRoute
    BY <1>6, <1>5, <1>10
  <2> QED
    BY <2>1, <1>2, <1>7, <1>10, <1>11 DEF NoRoute
<1> QED
  BY <1>8, <1>9, <1>10

-----------------------------------------------------------------------------
(* What it takes to get past the router, Auth and CSRF.                    *)

\* Behind one slash, Auth knows the logout path however it is spelled.
LEMMA LogoutIsProtected ==
    ASSUME NEW r \in Requests, r.path = LogoutPath, r.slashes[1] = 1
    PROVE  IsProtectedPath(r) /\ ~IsLoginTarget(r) /\ ~BeginsWith(r, StreamNames)
<1>1. /\ Len(LogoutPath) = 3 /\ LogoutPath # <<>>
      /\ LogoutPath[1] = "api" /\ LogoutPath[3] = "logout"
  BY DEF LogoutPath
<1>2. r.slashes[2] > 0
  <2>1. Spelled(r)
    BY PipelineAssumption
  <2>2. 2 \in 2..Len(r.path)
    BY <1>1
  <2> QED
    BY <2>1, <2>2 DEF Spelled
<1>3. ~BeginsWith(r, LoginNames) /\ ~BeginsWith(r, StreamNames)
  BY <1>1, PipelineAssumption DEF BeginsWith
<1> QED
  BY <1>1, <1>2, <1>3, PatternsDiffer DEF IsProtectedPath, BeginsApi, IsLoginTarget

LEMMA AdmittedRequests ==
    ASSUME NEW r \in Requests, Admitted(r)
    PROVE  /\ RouteOf(r) \in {1, 2, 3, 5}
           /\ Routes[RouteOf(r)].handler \in DOMAIN Answers
           /\ r.method # "OPTIONS"
           /\ Routes[RouteOf(r)].handler = "logout" /\ r.slashes[1] = 1 =>
                 r.token = "live" /\ r.csrf
<1>1. r \in RequestType /\ r.path \in Seq(Segments)
  BY PipelineAssumption DEF RequestType
<1>2. /\ RouteOf(r) \in {1, 2, 3, 5}
      /\ RouteOf(r) = 2 => r.path = LogoutPath
  BY <1>1, RouteOfPath DEF Admitted, RouteOf
<1>3. /\ Routes[1].handler = "login" /\ Routes[1].method = "POST"
      /\ Routes[2].handler = "logout" /\ Routes[2].method = "POST"
      /\ Routes[3].handler = "static" /\ Routes[3].method = "GET"
      /\ Routes[5].handler = "stream" /\ Routes[5].method = "GET"
  BY DEF Routes
<1>4. Routes[RouteOf(r)].handler \in DOMAIN Answers
  BY <1>2, <1>3 DEF Answers
<1>5. r.method = Routes[RouteOf(r)].method
  BY DEF Admitted, MethodFits
<1>6. r.method # "OPTIONS"
  BY <1>2, <1>3, <1>5
<1>7. ASSUME Routes[RouteOf(r)].handler = "logout", r.slashes[1] = 1
      PROVE  r.token = "live" /\ r.csrf
  <2>1. r.path = LogoutPath /\ r.method = "POST"
    BY <1>2, <1>3, <1>5, <1>7
  <2>2. r.token = "live"
    BY <1>7, <2>1, LogoutIsProtected DEF Admitted, Authenticated
  <2> QED
    BY <1>7, <2>1, <2>2, LogoutIsProtected DEF Admitted, CsrfFits, HasSession
<1> QED
  BY <1>2, <1>4, <1>6, <1>7

-----------------------------------------------------------------------------
(* The invariant.                                                          *)

\* A request keeps, from stage to stage, what the stages before found out.
PassInv ==
    /\ \A c \in Conns : pc[c] \in Dispatching => req[c] \in Requests
    /\ \A c \in Conns : pc[c] \in {"limited", "handling"} => Admitted(req[c])
    /\ \A c \in Conns : pc[c] = "handling" =>
          OriginFits(req[c]) /\ resp[c] = WithCors(req[c])
    /\ ResponsesAreSecured

PipeInv == TypeOK /\ PassInv

LEMMA CountType ==
    ASSUME NEW bucket \in Bucket \cup {NoBucket}, NEW l \in 0..MaxLag
    PROVE  Counted(bucket, l) \in Bucket
<1> USE RateLimitAssumption
<1>1. CASE bucket = NoBucket
  BY <1>1 DEF Counted, Bucket, OldAge
<1>2. CASE bucket # NoBucket /\ bucket.age - l > Window
  BY <1>2 DEF Counted, Bucket, OldAge
<1>3. CASE bucket # NoBucket /\ ~(bucket.age - l > Window)
  <2>1. bucket \in Bucket /\ Counted(bucket, l) =
          [bucket EXCEPT !.count = Least(bucket.count + 1, MaxRequests + 1)]
    BY <1>3 DEF Counted
  <2>2. Least(bucket.count + 1, MaxRequests + 1) \in 0..MaxRequests + 1
    BY <2>1 DEF Bucket, Least
  <2> QED
    BY <2>1, <2>2 DEF Bucket
<1> QED
  BY <1>1, <1>2, <1>3

LEMMA CountRequestType ==
    ASSUME TypeOK, NEW ip \in Ips, NEW l \in 0..MaxLag, CountRequest(ip, l)
    PROVE  /\ buckets' \in [Ips -> Bucket \cup {NoBucket}]
           /\ passed' \in [Ips -> [0..Window -> Nat]]
<1>1. Counted(buckets[ip], l) \in Bucket
  BY CountType DEF TypeOK
<1>2. buckets' \in [Ips -> Bucket \cup {NoBucket}]
  BY <1>1 DEF CountRequest, TypeOK
<1>3. [ago \in 0..Window |-> passed[ip][ago] + 1] \in [0..Window -> Nat]
  BY RateLimitAssumption DEF TypeOK
<1> QED
  BY <1>2, <1>3 DEF CountRequest, TypeOK

LEMMA TickType ==
    ASSUME TypeOK, BucketsTick
    PROVE  /\ buckets' \in [Ips -> Bucket \cup {NoBucket}]
           /\ passed' \in [Ips -> [0..Window -> Nat]]
<1> USE RateLimitAssumption
<1>1. ASSUME NEW ip \in Ips PROVE buckets'[ip] \in Bucket \cup {NoBucket}
  <2>1. CASE buckets[ip] = NoBucket
    BY <2>1 DEF BucketsTick
  <2>2. CASE buckets[ip] # NoBucket
    <3>1. buckets[ip] \in Bucket
      BY <2>2 DEF TypeOK
    <3>2. Least(buckets[ip].age + 1, OldAge) \in 0..OldAge
      BY <3>1 DEF Bucket, Least, OldAge
    <3> QED
      BY <2>2, <3>1, <3>2 DEF BucketsTick, Bucket
  <2> QED
    BY <2>1, <2>2
<1>2. buckets' \in [Ips -> Bucket \cup {NoBucket}]
  BY <1>1 DEF BucketsTick
<1>3. ASSUME NEW ip \in Ips, NEW ago \in 0..Window
      PROVE  (IF ago = 0 THEN 0 ELSE passed[ip][ago - 1]) \in Nat
  BY DEF TypeOK
<1> QED
  BY <1>2, <1>3 DEF BucketsTick

LEMMA PipeInitInv == Init => PipeInv
BY RateLimitAssumption DEF Init, RateLimitInit, PipeInv, TypeOK, PassInv, ResponsesAreSecured,
    Dispatching, Response, Blank

LEMMA TypeStep == PipeInv /\ [Next]_pipeVars => TypeOK'
<1> SUFFICES ASSUME PipeInv, [Next]_pipeVars PROVE TypeOK'
  OBVIOUS
<1> USE RateLimitAssumption DEF PipeInv
<1> HIDE DEF Bucket, NoBucket
<1>1. {Blank, Ok, Error} \subseteq Response /\ \A r : WithCors(r) \in Response
  <2>1. \A cors \in BOOLEAN : [Blank EXCEPT !.cors = cors] \in Response
    BY DEF Response, Blank
  <2>2. \A r : (r.origin = "allowed") \in BOOLEAN
    OBVIOUS
  <2>3. {Blank, Ok, Error} \subseteq Response
    BY DEF Response, Blank, Ok, Error
  <2> QED
    BY <2>1, <2>2, <2>3, Zenon DEF WithCors
<1>2. CASE UNCHANGED pipeVars
  BY <1>2 DEF TypeOK, pipeVars, connVars, rateVars
<1>3. ASSUME NEW c \in Conns, NEW from \in Ips, Accept(c, from) PROVE TypeOK'
  BY <1>3 DEF TypeOK, Accept, Keeps, rateVars
<1>4. ASSUME NEW c \in Conns, ReadEnds(c) PROVE TypeOK'
  BY <1>4 DEF TypeOK, ReadEnds, Goes, Keeps, rateVars
<1>5. ASSUME NEW c \in Conns, RefusesBody(c) PROVE TypeOK'
  BY <1>1, <1>5 DEF TypeOK, RefusesBody, Sends, Goes, rateVars
<1>6. ASSUME NEW c \in Conns, NEW u \in Upgrades, AcceptsUpgrade(c, u) PROVE TypeOK'
  BY <1>6 DEF TypeOK, AcceptsUpgrade, Goes, Keeps, rateVars
<1>7. ASSUME NEW c \in Conns, NEW u \in Upgrades, RefusesUpgrade(c, u) PROVE TypeOK'
  BY <1>1, <1>7 DEF TypeOK, RefusesUpgrade, Sends, Goes, rateVars
<1>8. ASSUME NEW c \in Conns, NEW r \in Requests, Reads(c, r) PROVE TypeOK'
  BY <1>1, <1>8 DEF TypeOK, Reads, Goes, rateVars, Dispatching
<1>9. ASSUME NEW c \in Conns, Turned(c) PROVE TypeOK'
  BY <1>1, <1>9 DEF TypeOK, Turned, Sends, Goes, rateVars
<1>10. ASSUME NEW c \in Conns, ReadsClock(c) PROVE TypeOK'
  BY <1>10 DEF TypeOK, ReadsClock, Goes, Keeps, rateVars, Dispatching
<1>11. ASSUME NEW c \in Conns, TooMany(c) PROVE TypeOK'
  <2>1. /\ buckets' \in [Ips -> Bucket \cup {NoBucket}]
        /\ passed' \in [Ips -> [0..Window -> Nat]]
    BY <1>11, CountRequestType DEF TooMany, TypeOK
  <2> QED
    BY <1>1, <1>11, <2>1 DEF TypeOK, TooMany, Sends, Goes
<1>12. ASSUME NEW c \in Conns, CorsAnswers(c) PROVE TypeOK'
  <2>1. /\ buckets' \in [Ips -> Bucket \cup {NoBucket}]
        /\ passed' \in [Ips -> [0..Window -> Nat]]
    BY <1>12, CountRequestType DEF CorsAnswers, TypeOK
  <2> QED
    BY <1>1, <1>12, <2>1 DEF TypeOK, CorsAnswers, Sends, Goes
<1>13. ASSUME NEW c \in Conns, ReachesHandler(c) PROVE TypeOK'
  <2>1. /\ buckets' \in [Ips -> Bucket \cup {NoBucket}]
        /\ passed' \in [Ips -> [0..Window -> Nat]]
    BY <1>13, CountRequestType DEF ReachesHandler, TypeOK
  <2> QED
    BY <1>1, <1>13, <2>1 DEF TypeOK, ReachesHandler, Goes, Dispatching
<1>14. ASSUME NEW c \in Conns, Assigns(c) PROVE TypeOK'
  <2>1. HandlerOf(c) \in DOMAIN Answers
    BY <1>14, AdmittedRequests DEF PassInv, Assigns, HandlerOf, Dispatching
  <2>2. Answers[HandlerOf(c)] \subseteq Response
    BY <1>1, <2>1 DEF Answers
  <2> QED
    BY <1>14, <2>2 DEF TypeOK, Assigns, Sends, Goes, rateVars
<1>15. ASSUME NEW c \in Conns, Throws(c) PROVE TypeOK'
  BY <1>1, <1>15 DEF TypeOK, Throws, Sends, Goes, rateVars
<1>16. ASSUME NEW c \in Conns, ServesFile(c) PROVE TypeOK'
  <2>1. [resp[c] EXCEPT !.secure = TRUE] \in Response
    BY DEF TypeOK, Response
  <2> QED
    BY <1>16, <2>1 DEF TypeOK, ServesFile, Sends, Goes, rateVars
<1>17. ASSUME NEW c \in Conns, Written(c) PROVE TypeOK'
  BY <1>1, <1>17 DEF TypeOK, Written, Goes, rateVars
<1>18. CASE Tick
  <2>1. /\ buckets' \in [Ips -> Bucket \cup {NoBucket}]
        /\ passed' \in [Ips -> [0..Window -> Nat]]
    BY <1>18, TickType DEF Tick
  <2> QED
    BY <1>18, <2>1 DEF TypeOK, Tick
<1> QED
  BY <1>2, <1>3, <1>4, <1>5, <1>6, <1>7, <1>8, <1>9, <1>10, <1>11, <1>12, <1>13, <1>14,
     <1>15, <1>16, <1>17, <1>18 DEF Next, ConnStep, DispatchStep

LEMMA PassStep == PipeInv /\ [Next]_pipeVars => PassInv'
<1> SUFFICES ASSUME PipeInv, [Next]_pipeVars PROVE PassInv'
  OBVIOUS
<1> USE DEF PipeInv, PassInv, ResponsesAreSecured
<1>1. Ok.secure /\ Error.secure /\ ~Ok.cors /\ ~Error.cors
  BY DEF Ok, Error
<1>2. \A r \in Requests : /\ WithCors(r) \in Response
                          /\ WithCors(r).cors => r.origin = "allowed"
  BY DEF WithCors, Blank, Response
<1>3. CASE UNCHANGED pipeVars
  BY <1>3 DEF TypeOK, pipeVars, connVars, rateVars
<1>4. ASSUME NEW c \in Conns, NEW from \in Ips, Accept(c, from) PROVE PassInv'
  BY <1>4 DEF TypeOK, Accept, Keeps, Dispatching
<1>5. ASSUME NEW c \in Conns, ReadEnds(c) PROVE PassInv'
  BY <1>5 DEF TypeOK, ReadEnds, Goes, Keeps, Dispatching
<1>6. ASSUME NEW c \in Conns, RefusesBody(c) PROVE PassInv'
  BY <1>1, <1>6 DEF TypeOK, RefusesBody, Sends, Goes, Dispatching
<1>7. ASSUME NEW c \in Conns, NEW u \in Upgrades, AcceptsUpgrade(c, u) PROVE PassInv'
  BY <1>7 DEF TypeOK, AcceptsUpgrade, Goes, Keeps, Dispatching
<1>8. ASSUME NEW c \in Conns, NEW u \in Upgrades, RefusesUpgrade(c, u) PROVE PassInv'
  BY <1>1, <1>8 DEF TypeOK, RefusesUpgrade, Sends, Goes, Dispatching
<1>9. ASSUME NEW c \in Conns, NEW r \in Requests, Reads(c, r) PROVE PassInv'
  BY <1>9 DEF TypeOK, Reads, Goes, Dispatching
<1>10. ASSUME NEW c \in Conns, Turned(c) PROVE PassInv'
  BY <1>1, <1>10 DEF TypeOK, Turned, Sends, Goes, Dispatching
<1>11. ASSUME NEW c \in Conns, ReadsClock(c) PROVE PassInv'
  BY <1>11 DEF TypeOK, ReadsClock, Goes, Keeps, Dispatching
<1>12. ASSUME NEW c \in Conns, TooMany(c) PROVE PassInv'
  BY <1>1, <1>12 DEF TypeOK, TooMany, Sends, Goes, Dispatching
<1>13. ASSUME NEW c \in Conns, CorsAnswers(c) PROVE PassInv'
  \* A request that is admitted is not a preflight.
  <2>1. req[c] \in Requests /\ Admitted(req[c])
    BY <1>13 DEF CorsAnswers, Dispatching
  <2>2. ~OriginFits(req[c])
    BY <1>13, <2>1, AdmittedRequests DEF CorsAnswers
  <2> QED
    BY <1>1, <1>13, <2>2 DEF TypeOK, CorsAnswers, Sends, Goes, Dispatching
<1>14. ASSUME NEW c \in Conns, ReachesHandler(c) PROVE PassInv'
  BY <1>14 DEF TypeOK, ReachesHandler, Goes, Dispatching
<1>15. ASSUME NEW c \in Conns, Assigns(c) PROVE PassInv'
  <2>1. HandlerOf(c) \in DOMAIN Answers
    BY <1>15, AdmittedRequests DEF Assigns, HandlerOf, Dispatching
  <2>2. Answers[HandlerOf(c)] \subseteq {Ok, Error}
    BY <2>1 DEF Answers
  <2>3. PICK r \in {Ok, Error} : Sends(c, "handling", r)
    BY <1>15, <2>2, Zenon DEF Assigns
  <2>4. UNCHANGED req
    BY <1>15 DEF Assigns
  <2> QED
    BY <1>1, <2>3, <2>4 DEF TypeOK, Sends, Goes, Dispatching
<1>16. ASSUME NEW c \in Conns, Throws(c) PROVE PassInv'
  BY <1>1, <1>16 DEF TypeOK, Throws, Sends, Goes, Dispatching
<1>17. ASSUME NEW c \in Conns, ServesFile(c) PROVE PassInv'
  <2>1. req[c] \in Requests /\ resp[c] = WithCors(req[c])
    BY <1>17 DEF ServesFile, Dispatching
  <2>2. /\ [resp[c] EXCEPT !.secure = TRUE].secure
        /\ [resp[c] EXCEPT !.secure = TRUE].cors => req[c].origin = "allowed"
    BY <1>2, <2>1 DEF Response
  <2> QED
    BY <1>17, <2>2 DEF TypeOK, ServesFile, Sends, Goes, Dispatching
<1>18. ASSUME NEW c \in Conns, Written(c) PROVE PassInv'
  BY <1>18 DEF TypeOK, Written, Goes, Dispatching
<1>19. CASE Tick
  BY <1>19 DEF TypeOK, Tick, Dispatching
<1> QED
  BY <1>3, <1>4, <1>5, <1>6, <1>7, <1>8, <1>9, <1>10, <1>11, <1>12, <1>13, <1>14,
     <1>15, <1>16, <1>17, <1>18, <1>19 DEF Next, ConnStep, DispatchStep

LEMMA PipeInvariant == Spec => []PipeInv
<1>1. PipeInv /\ [Next]_pipeVars => PipeInv'
  BY TypeStep, PassStep DEF PipeInv
<1> QED
  BY <1>1, PipeInitInv, PTL DEF Spec

-----------------------------------------------------------------------------
(* The theorems.                                                           *)

\* Every variable keeps its type: no bucket counts past the limit by more than
\* one, and no thread reads a clock that is older than MaxLag.
THEOREM PipeTypeCorrect == Spec => []TypeOK
BY PipeInvariant, PTL DEF PipeInv

\* Whichever requests arrive, in as many connections and threads: no handler runs
\* for a request of a foreign origin, and the logout handler runs for a target of
\* one leading slash only with a live session and its CSRF token, whatever the
\* slashes inside and behind the path.
THEOREM OnlyGuardedHandlers == Spec => []GuardedBehindOneSlash
<1>1. ASSUME PipeInv, NEW c \in Conns, pc[c] = "handling"
      PROVE  /\ req[c].origin # "other"
             /\ HandlerOf(c) = "logout" /\ req[c].slashes[1] = 1 => req[c].token = "live" /\ req[c].csrf
  <2>1. req[c] \in Requests /\ Admitted(req[c]) /\ OriginFits(req[c])
    BY <1>1 DEF PipeInv, PassInv, Dispatching
  <2> QED
    BY <2>1, AdmittedRequests DEF HandlerOf, OriginFits
<1>2. PipeInv => GuardedBehindOneSlash
  BY <1>1 DEF GuardedBehindOneSlash, LogoutHasSession
<1> QED
  BY <1>2, PipeInvariant, PTL

\* Every response that is written carries the security headers, and one that
\* another origin may read answers a request of an allowed origin.
THEOREM AllResponsesSecured == Spec => []ResponsesAreSecured
BY PipeInvariant, PTL DEF PipeInv, PassInv

\* A route means the paths that its pattern is or, at "/#", all of them.
LEMMA RouteMeansPath ==
    ASSUME NEW path \in Seq(Segments), NEW i \in {1, 2, 3, 5},
           Match(RouteTrie, path) = i
    PROVE  /\ Means(Routes[i].pattern, path)
           /\ \A j \in 1..Len(Routes) :
                 Routes[j].pattern = path => Routes[j].handler = Routes[i].handler
<1>1. /\ Routes[1].pattern = LoginPath /\ Routes[2].pattern = LogoutPath
      /\ Routes[3].pattern = WildPath /\ Routes[4].pattern = RootPath
      /\ Routes[5].pattern = StreamPath /\ Routes[3].handler = Routes[4].handler
      /\ Len(Routes) = 5
  BY DEF Routes, WildPath, RootPath
<1>2. /\ i = 1 <=> path = LoginPath
      /\ i = 2 <=> path = LogoutPath
      /\ i = 5 <=> path = StreamPath
      /\ path \in {RootPath, WildPath} => i = 3
  BY RouteOfPath
<1>3. Means(Routes[i].pattern, path)
  <2>1. CASE i = 3
    <3>1. Front(WildPath) = RootPath
      BY DEF Front, WildPath, RootPath
    <3>2. IsPrefix(RootPath, path)
      BY DEF IsPrefix, RootPath
    <3>3. NodeOf(WildPath) = WildPath
      BY NodesOfRoutes
    <3>4. Wild \in {WildPath[k] : k \in 1..Len(WildPath)}
      <4>1. 1 \in 1..Len(WildPath) /\ WildPath[1] = Wild
        BY Patterns
      <4> QED
        BY <4>1
    <3>5. Routes[i].pattern = WildPath
      BY <1>1, <2>1
    <3> QED
      BY <3>1, <3>2, <3>3, <3>4, <3>5, Zenon DEF Means
  <2>2. CASE i # 3
    BY <1>1, <1>2, <2>2, NodesOfRoutes, NoWildInside DEF Means
  <2> QED
    BY <2>1, <2>2
<1>4. ASSUME NEW j \in 1..Len(Routes), Routes[j].pattern = path
      PROVE  Routes[j].handler = Routes[i].handler
  <2>1. j \in {1, 2, 3, 4, 5}
    BY <1>1
  <2> QED
    BY <1>1, <1>2, <1>4, <2>1
<1> QED
  BY <1>3, <1>4

\* A handler runs for a path that its route's pattern means, and the catch-all
\* for none that another route is for: whatever the path.  A path that does not
\* begin with "api", or is empty, finds the catch-all.
THEOREM RoutedAsMeant == Spec => []HandledAsMeant
<1>1. ASSUME PipeInv, NEW c \in Conns, pc[c] = "handling"
      PROVE  /\ Means(Routes[RouteOf(req[c])].pattern, req[c].path)
             /\ \A i \in 1..Len(Routes) :
                   Routes[i].pattern = req[c].path => Routes[i].handler = HandlerOf(c)
  <2>1. req[c] \in Requests /\ Admitted(req[c])
    BY <1>1 DEF PipeInv, PassInv, Dispatching
  <2>2. req[c].path \in Seq(Segments)
    BY <2>1, PipelineAssumption DEF RequestType
  <2>3. RouteOf(req[c]) \in {1, 2, 3, 5}
    BY <2>1, AdmittedRequests
  <2> QED
    BY <2>2, <2>3, RouteMeansPath DEF RouteOf, HandlerOf
<1>2. ASSUME PipeInv, NEW c \in Conns, pc[c] = "routed",
             req[c].path = <<>> \/ req[c].path[1] \notin {"api", Wild}
      PROVE  RouteOf(req[c]) # NoRoute /\ HandlerOf(c) = "static"
  <2>1. req[c].path \in Seq(Segments)
    BY <1>2, PipelineAssumption DEF PipeInv, PassInv, Dispatching, RequestType
  <2>2. RouteOf(req[c]) = 3
    BY <1>2, <2>1, RouteOfPath DEF RouteOf, RootPath
  <2>3. Routes[3].handler = "static"
    BY DEF Routes
  <2> QED
    BY <2>2, <2>3 DEF HandlerOf, NoRoute
<1>3. PipeInv => HandledAsMeant
  BY <1>1, <1>2, Zenon DEF HandledAsMeant
<1> QED
  BY <1>3, PipeInvariant, PTL
=============================================================================
