------------------------------- MODULE MCParts -------------------------------
(* The components of Parts, small instances for TLC. *)
EXTENDS Parts, TLC

\* Nothing tells the two workers of a daemon apart, and only safety is checked.
Symmetry == Permutations(Workers)

\* A machine with a client certificate, two of the same short name, and one whose hostname
\* is fully qualified.
Machine(name, hostname, cert) == [name |-> name, hostname |-> hostname, cert |-> cert]
Machines == {Machine(<<"web", "example">>, <<"web">>, "client"),
             Machine(<<"db", "example">>, <<"db">>, "plain"),
             Machine(<<"db", "test">>, <<"db">>, "none"),
             Machine(<<"ns", "example">>, <<"ns", "example">>, "none")}

\* A node with two sets, and one with a set of the same name in another group.
TwoGroups == [n \in {"n1", "n2"} |->
    CASE n = "n1" -> {<<"g1", "s1">>, <<"g1", "s2">>}
      [] n = "n2" -> {<<"g2", "s1">>}]

\* Facts with maps in lists, lists in maps, a null, a name with a blank in it and one that
\* is a number; numbers that are indexes, that are none, and that are written oddly; classes
\* that are part of each other's names.
Word(w) == <<w>>
TreeMap(below) == [kind |-> "map", sub |-> below]
TreeList(below) == [kind |-> "list", sub |-> below]
Leaf(v) == [kind |-> "scalar", sub |-> <<v>>]
Null == [kind |-> "nil", sub |-> <<>>]
Tree == TreeMap(
    Word("os") :> TreeMap(Word("family") :> Leaf("debian")
                          @@ Word("cpus") :> TreeList(<<Leaf("a"), Null>>))
    @@ Word("eth") :> TreeList(<<TreeMap(Word("os") :> Leaf("x")), Leaf("y")>>)
    @@ <<"eth", "0">> :> TreeMap(Word("family") :> Leaf("z"))
    @@ Word("1") :> Leaf("one"))
ClassNames == {<<"apt">>, <<"apt", "repo">>, <<"apt", "repo", "x">>, <<"nginx">>}
Typable == {Word(w) : w \in {"os", "family", "cpus", "eth", "0", "1", "01", "-1", "2"}}
           \cup {<<"eth", "0">>}
Numbers == Word("0") :> 0 @@ Word("1") :> 1 @@ Word("01") :> 1 @@ Word("-1") :> -1
           @@ Word("2") :> 2
Numerals == 0 :> Word("0") @@ 1 :> Word("1") @@ 2 :> Word("2")
Trees == {Tree}
RECURSIVE Within(_)
Within(tree) == {tree} \cup IF tree.kind \in {"map", "list"}
                           THEN UNION {Within(tree.sub[k]) : k \in DOMAIN tree.sub} ELSE {}
ValuesOfTrees == Within(Tree)
==============================================================================
