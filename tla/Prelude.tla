-------------------------------- MODULE Prelude --------------------------------
(***************************************************************************)
(* The lists, maps and errors of the prelude (packages/prelude/List.pen,   *)
(* Map.pen, Hash.pen and Error.pen), in the language that they are written *)
(* in.  The module has no state.                                           *)
(*                                                                         *)
(* A map is a list of its entries here, in the order in which their keys   *)
(* have been put in.  The code has a trie, which module Map is about, and  *)
(* the order is that of the hashes.                                        *)
(***************************************************************************)
EXTENDS Hir

NodeType == Record("node")
MaybeNode == Union({NodeType, None})
Nodes == Function(<<>>, MaybeNode)
ListType == Record("List")
FirstRestType == Record("FirstRest")
ErrorType == Record("Error")
FirstType == Function(<<>>, AnyType)
LazyType == Function(<<>>, ListType)
EqualType == Function(<<AnyType, AnyType>>, Boolean)
HashType == Function(<<AnyType>>, Number)
MapType == Record("Map")
EntryType == Record("entry")
MaybeEntry == Union({EntryType, None})
EmptyType == Record("Empty")
ContextType == Record("MapContext")
IteratorType == Record("MapIterator")
MaybeIterator == Union({IteratorType, None})

PreludeRecords ==
    LET Field(name, type) == [name |-> name, type |-> type]
    IN  [x \in {"List", "node", "FirstRest", "Error", "Map", "entry", "Empty", "MapContext",
                "MapIterator"} |->
            CASE x = "List" -> <<Field("node", Nodes)>>
              [] x = "node" -> <<Field("first", FirstType), Field("rest", Nodes)>>
              [] x = "FirstRest" -> <<Field("first", FirstType), Field("rest", ListType)>>
              [] x = "Error" -> <<Field("source", AnyType)>>
              [] x = "Map" -> <<Field("entries", MaybeEntry)>>
              [] x = "entry" ->
                    <<Field("key", AnyType), Field("value", AnyType), Field("rest", MaybeEntry)>>
              [] x = "Empty" -> <<>>
              [] x = "MapContext" ->
                    <<Field("equalKeys", EqualType), Field("equalValues", EqualType),
                      Field("hashKey", HashType), Field("hashValue", HashType)>>
              [] x = "MapIterator" ->
                    <<Field("key", AnyType), Field("value", AnyType),
                      Field("rest", Function(<<>>, MaybeIterator))>>]

\* Short forms of expressions.
The(x, field) == Deconstruction(Variable(x), field)
CallThe(x, field) == Call(The(x, field), <<>>)
CallOn(f, arguments) == Call(Variable(f), arguments)
MakeList(nodes) == Construction(ListType, <<"node">>, <<nodes>>)
Delayed(body) == Lambda(<<>>, <<>>, MaybeNode, body)
IfNode(x, argument, then, else) == IfType(x, argument, <<NodeType>>, <<then, else>>)
IfEntry(then, else) == IfType("e", Variable("e"), <<EntryType>>, <<then, else>>)
MakeMap(entries) == Construction(MapType, <<"entries">>, <<entries>>)
MakeEntry(key, value, rest) ==
    Construction(EntryType, <<"key", "value", "rest">>, <<key, value, rest>>)
WithRest(rest) == Update(EntryType, Variable("e"), <<"rest">>, <<rest>>)

Define(name, names, types, result, body) ==
    GlobalFunction(name, Lambda(names, types, result, body))

MapFunctions ==
    LET ctx == Variable("ctx")
        map == Variable("map")
        key == Variable("key")
        value == Variable("value")
        x == Variable("x")
        y == Variable("y")
        entries == The("map", "entries")
        rest == The("e", "rest")
        \* Whether the entry is the one of a key. The code compares hashes bit by bit.
        IsKey == CallOn("isKey", <<ctx, The("e", "key"), key>>)
    IN  {Define("NewMapContext", <<"ek", "hk", "ev", "hv">>,
                <<EqualType, HashType, EqualType, HashType>>, ContextType,
                Construction(ContextType, <<"equalKeys", "equalValues", "hashKey", "hashValue">>,
                             <<Variable("ek"), Variable("ev"), Variable("hk"), Variable("hv")>>)),

         Define("isKey", <<"ctx", "x", "y">>, <<ContextType, AnyType, AnyType>>, Boolean,
                Operation("and",
                          Operation("=", Call(The("ctx", "hashKey"), <<x>>),
                                         Call(The("ctx", "hashKey"), <<y>>)),
                          Call(The("ctx", "equalKeys"), <<x, y>>))),

         Define("NewMap", <<>>, <<>>, MapType, MakeMap(NoneLiteral)),

         Define("GetMap", <<"ctx", "map", "key">>, <<ContextType, MapType, AnyType>>, AnyType,
                CallOn("getValue", <<ctx, entries, key>>)),

         Define("getValue", <<"ctx", "e", "key">>, <<ContextType, MaybeEntry, AnyType>>, AnyType,
                IfEntry(If(IsKey, The("e", "value"), CallOn("getValue", <<ctx, rest, key>>)),
                        Construction(EmptyType, <<>>, <<>>))),

         Define("SetMap", <<"ctx", "map", "key", "value">>,
                <<ContextType, MapType, AnyType, AnyType>>, MapType,
                MakeMap(CallOn("setKeyValue", <<ctx, entries, key, value>>))),

         Define("setKeyValue", <<"ctx", "e", "key", "value">>,
                <<ContextType, MaybeEntry, AnyType, AnyType>>, EntryType,
                IfEntry(If(IsKey, MakeEntry(key, value, rest),
                           WithRest(CallOn("setKeyValue", <<ctx, rest, key, value>>))),
                        MakeEntry(key, value, NoneLiteral))),

         Define("DeleteMap", <<"ctx", "map", "key">>, <<ContextType, MapType, AnyType>>, MapType,
                MakeMap(CallOn("deleteKey", <<ctx, entries, key>>))),

         Define("deleteKey", <<"ctx", "e", "key">>, <<ContextType, MaybeEntry, AnyType>>,
                MaybeEntry,
                IfEntry(If(IsKey, rest, WithRest(CallOn("deleteKey", <<ctx, rest, key>>))),
                        NoneLiteral)),

         Define("MergeMaps", <<"ctx", "map", "y">>, <<ContextType, MapType, MapType>>, MapType,
                CallOn("mergeEntries", <<ctx, map, The("y", "entries")>>)),

         Define("mergeEntries", <<"ctx", "map", "e">>, <<ContextType, MapType, MaybeEntry>>, MapType,
                IfEntry(CallOn("mergeEntries",
                               <<ctx, CallOn("SetMap", <<ctx, map, The("e", "key"),
                                                         The("e", "value")>>), rest>>),
                        map)),

         Define("EqualMaps", <<"ctx", "x", "map">>, <<ContextType, MapType, MapType>>, Boolean,
                Operation("and",
                          Operation("=", CallOn("MapSize", <<x>>), CallOn("MapSize", <<map>>)),
                          CallOn("equalEntries", <<ctx, The("x", "entries"), map>>))),

         Define("equalEntries", <<"ctx", "e", "map">>, <<ContextType, MaybeEntry, MapType>>, Boolean,
                IfEntry(IfType("value", CallOn("GetMap", <<ctx, map, The("e", "key")>>), <<EmptyType>>,
                               <<BooleanLiteral(FALSE),
                                 Operation("and",
                                           Call(The("ctx", "equalValues"),
                                                <<The("e", "value"), value>>),
                                           CallOn("equalEntries", <<ctx, rest, map>>))>>),
                        BooleanLiteral(TRUE))),

         Define("HashMap", <<"ctx", "map">>, <<ContextType, MapType>>, Number,
                CallOn("hashEntries", <<ctx, entries, NumberLiteral(5)>>)),

         Define("hashEntries", <<"ctx", "e", "h">>, <<ContextType, MaybeEntry, Number>>, Number,
                IfEntry(CallOn("hashEntries",
                               <<ctx, rest,
                                 Operation("+", Variable("h"),
                                           CallOn("CombineHashes",
                                                  <<Call(The("ctx", "hashKey"), <<The("e", "key")>>),
                                                    Call(The("ctx", "hashValue"),
                                                         <<The("e", "value")>>)>>))>>),
                        Variable("h")))}

\* What loops over maps, and their sizes.
IterationFunctions ==
    LET rest == The("e", "rest")
        entries == The("map", "entries")
    IN  {Define("IterateMap", <<"map">>, <<MapType>>, MaybeIterator,
                CallOn("iterateEntries", <<entries>>)),

         Define("iterateEntries", <<"e">>, <<MaybeEntry>>, MaybeIterator,
                IfEntry(Construction(IteratorType, <<"key", "value", "rest">>,
                                     <<The("e", "key"), The("e", "value"),
                                       Lambda(<<>>, <<>>, MaybeIterator,
                                              CallOn("iterateEntries", <<rest>>))>>),
                        NoneLiteral)),

         Define("MapIteratorKey", <<"i">>, <<IteratorType>>, AnyType, The("i", "key")),

         Define("MapIteratorValue", <<"i">>, <<IteratorType>>, AnyType, The("i", "value")),

         Define("MapIteratorRest", <<"i">>, <<IteratorType>>, MaybeIterator, CallThe("i", "rest")),

         Define("MapSize", <<"map">>, <<MapType>>, Number,
                CallOn("entriesSize", <<entries, NumberLiteral(0)>>)),

         Define("entriesSize", <<"e", "s">>, <<MaybeEntry, Number>>, Number,
                IfEntry(CallOn("entriesSize",
                               <<rest, Operation("+", Variable("s"), NumberLiteral(1))>>),
                        Variable("s")))}

\* Hashes are small numbers.
HashFunctions ==
    LET x == Variable("x")
        y == Variable("y")
    IN  {Define("CombineHashes", <<"x", "y">>, <<Number, Number>>, Number,
                Operation("+", x, Operation("+", x, y))),

         Define("HashNumber", <<"x">>, <<Number>>, Number, x)}

ListFunctions ==
    LET x == Variable("x")
        y == Variable("y")
    IN  {Define("First", <<"fr">>, <<FirstRestType>>, FirstType, The("fr", "first")),

         Define("Rest", <<"fr">>, <<FirstRestType>>, ListType, The("fr", "rest")),

         Define("FirstRest", <<"l">>, <<ListType>>, Union({FirstRestType, None}),
                IfNode("n", CallThe("l", "node"),
                       Construction(FirstRestType, <<"first", "rest">>,
                                    <<The("n", "first"), MakeList(The("n", "rest"))>>),
                       NoneLiteral)),

         Define("EmptyList", <<>>, <<>>, ListType, MakeList(Delayed(NoneLiteral))),

         Define("PrependToList", <<"x", "l">>, <<FirstType, ListType>>, ListType,
                MakeList(Delayed(CallOn("prependToNode", <<x, The("l", "node")>>)))),

         Define("prependToNode", <<"x", "n">>, <<FirstType, Nodes>>, NodeType,
                Construction(NodeType, <<"first", "rest">>, <<x, Variable("n")>>)),

         Define("LazyList", <<"x">>, <<LazyType>>, ListType,
                MakeList(Delayed(Call(Deconstruction(Call(x, <<>>), "node"), <<>>)))),

         Define("ConcatenateLists", <<"x", "y">>, <<LazyType, ListType>>, ListType,
                MakeList(Delayed(
                    IfNode("x", Call(Deconstruction(Call(x, <<>>), "node"), <<>>),
                           CallOn("prependToNode",
                                  <<The("x", "first"),
                                    CallOn("concatenateNodes",
                                           <<The("x", "rest"), The("y", "node")>>)>>),
                           CallThe("y", "node"))))),

         Define("concatenateNodes", <<"x", "y">>, <<Nodes, Nodes>>, Nodes,
                Delayed(IfNode("x", Call(x, <<>>),
                               CallOn("prependToNode",
                                      <<The("x", "first"),
                                        CallOn("concatenateNodes", <<The("x", "rest"), y>>)>>),
                               Call(y, <<>>)))),

         Define("EqualLists", <<"f", "x", "y">>, <<EqualType, ListType, ListType>>, Boolean,
                CallOn("equalNodes", <<Variable("f"), CallThe("x", "node"), CallThe("y", "node")>>)),

         Define("equalNodes", <<"f", "x", "y">>, <<EqualType, MaybeNode, MaybeNode>>, Boolean,
                IfNode("x", x,
                       IfNode("y", y,
                              Operation("and",
                                        CallOn("f", <<CallThe("x", "first"), CallThe("y", "first")>>),
                                        CallOn("equalNodes", <<Variable("f"), CallThe("x", "rest"),
                                                               CallThe("y", "rest")>>)),
                              BooleanLiteral(FALSE)),
                       IfNode("y", y, BooleanLiteral(FALSE), BooleanLiteral(TRUE)))),

         Define("ListSize", <<"l">>, <<ListType>>, Number,
                CallOn("nodeSize", <<CallThe("l", "node"), NumberLiteral(0)>>)),

         Define("nodeSize", <<"n", "s">>, <<MaybeNode, Number>>, Number,
                IfNode("n", Variable("n"),
                       CallOn("nodeSize", <<CallThe("n", "rest"),
                                            Operation("+", Variable("s"), NumberLiteral(1))>>),
                       Variable("s"))),

         \* The function is given the node instead of the element.
         Define("HashList", <<"f", "l">>, <<HashType, ListType>>, Number,
                CallOn("hashNode", <<Variable("f"), The("l", "node"), NumberLiteral(0)>>)),

         Define("hashNode", <<"f", "n", "h">>, <<HashType, Nodes, Number>>, Number,
                IfNode("n", CallOn("n", <<>>),
                       CallOn("hashNode",
                              <<Variable("f"), The("n", "rest"),
                                CallOn("CombineHashes",
                                       <<Variable("h"), CallOn("f", <<Variable("n")>>)>>)>>),
                       Variable("h"))),

         Define("Error", <<"s">>, <<AnyType>>, ErrorType,
                Construction(ErrorType, <<"source">>, <<Variable("s")>>)),

         Define("Source", <<"e">>, <<ErrorType>>, AnyType, The("e", "source"))}

PreludeFunctions ==
    ListFunctions \cup MapFunctions \cup IterationFunctions \cup HashFunctions
=============================================================================
