-------------------------------- MODULE Trie --------------------------------
(***************************************************************************)
(* routing::Trie: routes by the segments of their patterns.                *)
(*                                                                         *)
(* A trie is a function: its domain holds the sequence of segments that    *)
(* leads to each node, its value is the node's handlerIndex.               *)
(***************************************************************************)
EXTENDS Naturals, SequencesExt

Wild == "#"

\* No handlerIndex.
NoRoute == 0

EmptyTrie == [node \in {<<>>} |-> NoRoute]

\* The node at which insert stores the index: it does not look past a "#".
NodeOf(pattern) ==
    LET wilds == {i \in 1..Len(pattern) : pattern[i] = Wild}
    IN  IF wilds = {} THEN pattern ELSE SubSeq(pattern, 1, Min(wilds))

Insert(trie, pattern, index) ==
    [node \in DOMAIN trie \cup Prefixes(NodeOf(pattern)) |->
        IF node = NodeOf(pattern) THEN index
        ELSE IF node \in DOMAIN trie THEN trie[node] ELSE NoRoute]

\* Where the descent along the path stops: every prefix of a node is a node.
Deepest(trie, path) ==
    CHOOSE node \in Prefixes(path) \cap DOMAIN trie :
        \A other \in Prefixes(path) \cap DOMAIN trie : Len(other) <= Len(node)

\* Mutant: a wildcard is taken at the first node that has one.
Match_WildFirst(trie, path) ==
    IF <<Wild>> \in DOMAIN trie THEN trie[<<Wild>>] ELSE NoRoute

Match(trie, path) ==
    LET node == Deepest(trie, path)
        wild == Append(node, Wild)
    IN  IF wild \in DOMAIN trie THEN trie[wild]
        ELSE IF node = path THEN trie[node] ELSE NoRoute

\* What a pattern means: "/api/v1/login" is exact, "/ui/#" is any path that
\* begins with /ui.
Means(pattern, path) ==
    \/ pattern = path
    \/ /\ Wild \in {pattern[i] : i \in 1..Len(pattern)}
       /\ IsPrefix(Front(NodeOf(pattern)), path)
=============================================================================
