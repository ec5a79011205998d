----------------------------- MODULE Completion -----------------------------
(***************************************************************************)
(* Data lookups and the completion of their arguments: fact and class in a *)
(* query (query/functions.go), :fact (query/repl/data.go) and TAB          *)
(* (query/repl/complete.go), over facts that are trees of maps, lists and  *)
(* values.  The user types an expression token by token; after each token  *)
(* a string may be opened and completed.                                   *)
(*                                                                         *)
(* A name is a sequence of words, more than one when it has blanks in it,  *)
(* and has no parenthesis: the code counts those of strings too.           *)
(* What was typed of the name itself only narrows what is offered, and is  *)
(* left out; of a class it decides where the next cut is, and is modelled. *)
(***************************************************************************)
EXTENDS Integers, Sequences, FiniteSets, SequencesExt

CONSTANTS
    FactTrees,    \* facts of a node, to choose from
    Values,       \* the values in them, at every depth
    Names,        \* names and indexes a user may type
    Atoi,         \* [SUBSET Names -> Int]: the names strconv.Atoi reads
    Indexes,      \* [Nat -> Names]: strconv.Itoa
    Classes,      \* classes of the node, each a sequence of segments
    MaxTokens     \* bound on the tokens of an expression

TreesAssumption == FactTrees \subseteq Values /\ \A t \in FactTrees : t.kind = "map"

\* A document is finite, and has no other kinds of values.
ValuesAssumption == \A v \in Values :
    /\ v.kind \in {"map", "list", "scalar", "nil"}
    /\ v.kind = "map" => \A k \in DOMAIN v.sub : v.sub[k] \in Values
    /\ v.kind = "list" => v.sub \in Seq(Values) /\ 0..(Len(v.sub) - 1) \subseteq DOMAIN Indexes

\* Itoa and Atoi of an index are inverse; Atoi reads "01" too.
NamesAssumption ==
    /\ \A n \in Names : n \in Seq({n[w] : w \in DOMAIN n})
    /\ DOMAIN Atoi \subseteq Names /\ \A n \in DOMAIN Atoi : Atoi[n] \in Int
    /\ \A i \in DOMAIN Indexes : Indexes[i] \in DOMAIN Atoi /\ Atoi[Indexes[i]] = i

ClassesAssumption == \A c \in Classes : c \in Seq({c[i] : i \in DOMAIN c})

\* Values of a YAML document; a null is a value of its own.
Map(below) == [kind |-> "map", sub |-> below]
List(below) == [kind |-> "list", sub |-> below]
Scalar(v) == [kind |-> "scalar", sub |-> <<v>>]
Nil == [kind |-> "nil", sub |-> <<>>]
Missing == [kind |-> "missing", sub |-> <<>>]

VARIABLES
    facts,        \* what was loaded of the node
    text,         \* the expression so far, in tokens
    calls,        \* history: the calls that are open in it, as a parser sees them
    class         \* [segs, closed]: a class name completed so far, up to its last ::

vars == <<facts, text, calls, class>>

\* Tokens: a call is opened or closed, a string or number, an array of them.
Open(fn) == [t |-> "open", names |-> <<<<fn>>>>]
Close == [t |-> "close", names |-> <<>>]
Arg(name) == [t |-> "arg", names |-> <<name>>]
Array(names) == [t |-> "array", names |-> names]

Fns == {"fact", "class", "=="}

TypeOK ==
    /\ facts \in FactTrees
    /\ text \in Seq([t : {"open", "close", "arg", "array"}, names : Seq(Names \cup {<<fn>> : fn \in Fns})])
    /\ Len(text) <= MaxTokens
    /\ calls \in Seq([fn : Fns, args : Seq([t : {"arg", "array", "call"}, names : Seq(Names)])])
    /\ class.segs \in Seq(STRING) /\ class.closed \in BOOLEAN

NoClass == [segs |-> <<>>, closed |-> FALSE]

Init ==
    /\ facts \in FactTrees
    /\ text = <<>> /\ calls = <<>>
    /\ class = NoClass

-----------------------------------------------------------------------------
(* Plausible bugs of the definitions below                                 *)

\* List elements are numbered from one.
ChildrenOneBased(tree) ==
    CASE tree.kind = "map" -> DOMAIN tree.sub
      [] tree.kind = "list" -> {Indexes[i] : i \in DOMAIN tree.sub}
      [] OTHER -> {}

-----------------------------------------------------------------------------
(* Lookups                                                                 *)

\* One step of traverseHash; a value with path left over is not the answer.
TraverseStep(root, arg) ==
    CASE root.kind = "map" -> IF arg \in DOMAIN root.sub THEN root.sub[arg] ELSE Nil
      [] root.kind = "list" ->
             IF arg \notin DOMAIN Atoi \/ Atoi[arg] < 0 \/ Atoi[arg] + 1 > Len(root.sub)
             THEN Nil ELSE root.sub[Atoi[arg] + 1]
      [] OTHER -> Nil

TraverseHash(args, hash) ==
    LET root[i \in 0..Len(args)] == IF i = 0 THEN hash ELSE TraverseStep(root[i - 1], args[i])
    IN  root[Len(args)]

\* The path of a fact or class call: arrays are flattened, and what is neither a string nor
\* a number is refused, as is an empty path.  What a call inside it gives is left open and
\* taken for refused: no property is about such a path.
Path(args) == FlattenSeq([i \in DOMAIN args |-> args[i].names])
Refused(args) == Path(args) = <<>> \/ \E i \in DOMAIN args : args[i].t = "call"
HashGet(args, hash) == IF Refused(args) THEN Missing ELSE TraverseHash(Path(args), hash)

\* factPath of the repl.
FactStep(current, key) ==
    CASE current.kind = "map" /\ key \in DOMAIN current.sub -> current.sub[key]
      [] current.kind = "list" /\ key \in DOMAIN Atoi /\ Atoi[key] \in 0..(Len(current.sub) - 1) ->
             current.sub[Atoi[key] + 1]
      [] OTHER -> Missing

FactPath(keys) ==
    LET current[i \in 0..Len(keys)] ==
            IF i = 0 THEN facts ELSE FactStep(current[i - 1], keys[i])
    IN  current[Len(keys)]

\* Names directly below a node, list elements by their index.
ChildrenOf(tree) ==
    CASE tree.kind = "map" -> DOMAIN tree.sub
      [] tree.kind = "list" -> {Indexes[i - 1] : i \in DOMAIN tree.sub}
      [] OTHER -> {}

FactChildren(keys) == ChildrenOf(FactPath(keys))

-----------------------------------------------------------------------------
(* Completion                                                              *)

Opens(i) == Cardinality({j \in i..Len(text) : text[j].t = "open"})
Closes(i) == Cardinality({j \in i..Len(text) : text[j].t = "close"})

\* Where the innermost call that is still open starts, 0 without one: the parentheses are
\* counted from the end.
Start == Max({0} \cup {i \in DOMAIN text : text[i].t = "open" /\ Opens(i + 1) = Closes(i + 1)})

\* strings.Fields splits a token at its blanks, and does not split off a parenthesis or a
\* bracket: such a field is no name of anything.
Junk == <<"(">>
FieldsOf(i) ==
    CASE text[i].t = "arg" ->
             IF i < Len(text) /\ text[i + 1].t = "close" THEN <<Junk>>
             ELSE [w \in DOMAIN text[i].names[1] |-> <<text[i].names[1][w]>>]
      [] text[i].t = "close" -> <<>>
      [] OTHER -> <<Junk>>

\* enclosingCall: the name of the call, and its arguments as far as they are words.
EnclosingCall ==
    IF Start = 0 THEN [fn |-> "", args |-> <<>>]
    ELSE [fn |-> text[Start].names[1][1],
          args |-> FlattenSeq([i \in 1..(Len(text) - Start) |-> FieldsOf(Start + i)])]

\* completeQuery, in a string that has just been opened.
Offered == IF EnclosingCall.fn = "fact" THEN FactChildren(EnclosingCall.args) ELSE {}

\* completeClass: one segment further, or the whole name when that was the last.
OfferedClasses(segs) ==
    {IF Len(c) > Len(segs) + 1
     THEN [segs |-> SubSeq(c, 1, Len(segs) + 1), closed |-> FALSE]
     ELSE [segs |-> c, closed |-> TRUE] :
        c \in {d \in Classes : IsStrictPrefix(segs, d)}}

-----------------------------------------------------------------------------
(* The user                                                                *)

Room == Len(text) < MaxTokens /\ class = NoClass

TypeOpen(fn) ==
    /\ Room
    /\ text' = Append(text, Open(fn))
    /\ calls' = Append(calls, [fn |-> fn, args |-> <<>>])
    /\ UNCHANGED <<facts, class>>

\* An argument, typed or accepted from what is offered.
TypeArg(a) ==
    /\ Room /\ calls # <<>>
    /\ text' = Append(text, a)
    /\ calls' = [calls EXCEPT ![Len(calls)].args = Append(@, a)]
    /\ UNCHANGED <<facts, class>>

TypeClose ==
    /\ Room /\ calls # <<>>
    /\ text' = Append(text, Close)
    /\ calls' = LET outer == Front(calls) IN
                IF outer = <<>> THEN <<>>
                ELSE [outer EXCEPT ![Len(outer)].args = Append(@, [t |-> "call", names |-> <<>>])]
    /\ UNCHANGED <<facts, class>>

\* TAB in (class "...
AcceptClass(c) ==
    /\ text = <<>> /\ ~class.closed
    /\ class' = c
    /\ UNCHANGED <<facts, text, calls>>

Next == \/ \E fn \in Fns : TypeOpen(fn)
        \/ \E n \in Names : TypeArg(Arg(n)) \/ TypeArg(Array(<<n>>))
        \/ TypeClose
        \/ \E c \in OfferedClasses(class.segs) : AcceptClass(c)

Spec == Init /\ [][Next]_vars

-----------------------------------------------------------------------------
(* Properties                                                              *)

\* A call whose arguments so far are strings without blanks, or numbers.
Plain(call) == \A i \in DOMAIN call.args : call.args[i].t = "arg" /\ Len(call.args[i].names[1]) = 1

\* data.go:13, "walks a fact map the same way the fact query function does": what is offered
\* at any place of any expression fits the query it goes into.  In an open fact call every
\* offered name leads to the value the query will find there, and every value a query can
\* find one step further is offered, under the index a list has for it; nowhere else is a
\* fact offered.  And completing a class segment by segment ends at a class, and can end at
\* each of them.
CompletionsResolve ==
    /\ calls = <<>> \/ calls[Len(calls)].fn # "fact" => Offered = {}
    /\ calls # <<>> =>
           LET call == calls[Len(calls)]
               at(n) == HashGet(Append(call.args, Arg(n)), facts) IN
           call.fn = "fact" /\ Plain(call) =>
               /\ \A n \in Offered : at(n) = FactPath(Append(EnclosingCall.args, n))
               /\ \A n \in Names : at(n) # Nil => \E k \in Offered : at(k) = at(n)
    /\ class.closed => class.segs \in Classes
    /\ ~class.closed => \A c \in Classes : IsStrictPrefix(class.segs, c) =>
           \E o \in OfferedClasses(class.segs) : IsPrefix(o.segs, c)
=============================================================================
