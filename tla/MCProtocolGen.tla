--------------------------- MODULE MCProtocolGen ---------------------------
(***************************************************************************)
(* Documents for ProtocolGen: every graph of $refs among three             *)
(* definitions; every property, to arrays of arrays; and messages that are *)
(* exposed and listed in every way.                                        *)
(***************************************************************************)
EXTENDS ProtocolGen

Plain == [ref |-> "", file |-> 0, type |-> {}, keywords |-> {}, const |-> "", format |-> "",
          goType |-> "", items |-> <<>>, properties |-> <<>>, required |-> {}]

Of(type) == [Plain EXCEPT !.type = {type}]
RefTo(d) == [Plain EXCEPT !.ref = d]
Const(w) == [Of("string") EXCEPT !.const = w]
Object(properties, required) ==
    [Of("object") EXCEPT !.properties = properties, !.required = required]

NoMessages == [version |-> 3, components |-> <<>>, channel |-> <<>>, operations |-> <<>>]

Document(schemas, rest) ==
    [version |-> rest.version, schemas |-> schemas, components |-> rest.components, channel |-> rest.channel,
     operations |-> rest.operations]

\* 1. References: up to two from each definition, also to a missing one.
RefNames == {"A", "B", "C", "X"}

Graphs ==
    {Document(<<[d \in {"A", "B", "C"} |-> Object([r \in g[d] |-> RefTo(r)], {})]>>, NoMessages) :
        g \in [{"A", "B", "C"} -> {S \in SUBSET RefNames : Cardinality(S) <= 2}]}
    \cup {Document(<<[d \in S |-> Of("object")], [d \in T |-> Of("object")]>>, NoMessages) :
            S, T \in {{"A"}, {"B"}, {"A", "B"}}}

\* and $refs from file to file, from either of two definitions.
Targets ==
    {[RefTo(d) EXCEPT !.file = i] : d \in {"A", "B"}, i \in 0 .. 2}

Pair(S) == Object([i \in 1 .. Cardinality(S) |-> SetToSeq(S)[i]], {})

Across ==
    {Document(<<[d \in {"A"} |-> Pair(S)], [d \in {"B"} |-> Pair(T)]>>, NoMessages) :
        S, T \in {S \in SUBSET Targets : Cardinality(S) <= 2}}

\* 2. One property of each schema, in a message with nothing else.
Scalar ==
    {[Of("string") EXCEPT !.keywords = ks, !.const = c, !.format = f] :
        ks \in {{}, {"enum"}}, c \in {"", "a"}, f \in {"", "date-time", "uuid"}}
    \cup {[Of("integer") EXCEPT !.keywords = ks, !.goType = g] :
            ks \in {{}, {"minimum"}, {"bound"}}, g \in {"", "uint64", "float32"}}
    \cup {[Of("number") EXCEPT !.keywords = ks, !.goType = g] :
            ks \in {{}, {"minimum"}, {"maximum"}}, g \in {"", "uint64", "float32"}}
    \cup {Of("boolean"), Of("object"), [Of("boolean") EXCEPT !.keywords = {"unsupported"}]}

OrNull(S) == S \cup {[s EXCEPT !.type = @ \cup {"null"}] : s \in S}

Leaf ==
    OrNull(Scalar) \cup {RefTo("E"), RefTo("P"), RefTo("X"), Plain, Const("a"),
                         [Plain EXCEPT !.const = "a"], [Plain EXCEPT !.type = {"null"}],
                         [Plain EXCEPT !.type = {"string", "boolean"}]}

ArrayOf(S) == OrNull({[Of("array") EXCEPT !.items = <<s>>] : s \in S} \cup {Of("array")})

Schemas == Leaf \cup ArrayOf(Leaf) \cup ArrayOf(ArrayOf(Leaf))

Property(s, r, P) ==
    Document(<<[A |-> Object([type |-> Const("a"), p |-> s], {"type"} \cup r),
                E |-> [Of("string") EXCEPT !.keywords = {"enum"}],
                P |-> P]>>,
             [version |-> 3,
              components |-> [a |-> [complete |-> TRUE, payload |-> "A"]],
              channel |-> [a |-> "a"],
              operations |-> <<[action |-> "receive", messages |-> <<"a">>]>>])

Ones ==
    {Property(s, r, Object([q |-> Of("boolean")], {"q"})) : s \in Schemas, r \in {{}, {"p"}}}

\* and of a definition without properties, which may say so and ask for some.
Empty ==
    {Property(s, {"p"}, [Object(<<>>, q) EXCEPT !.keywords = ks]) :
        s \in {RefTo("P"), [Of("array") EXCEPT !.items = <<RefTo("P")>>]},
        q \in {{}, {"q"}}, ks \in {{}, {"properties"}}}

\* 3. Two messages, a command's payload and how they are exposed.
Operation(actions, lists) == {[action |-> a, messages |-> l] : a \in actions, l \in lists}

Operations ==
    {<<>>}
    \cup {<<o>> : o \in Operation({"send", "receive", "publish"},
                                  {<<>>, <<"a">>, <<"a", "b">>, <<"a", "a">>, <<"b", "c">>})}
    \cup {<<o, p>> : o \in Operation({"send", "receive"}, {<<"a">>, <<"a", "b">>}),
                     p \in Operation({"send", "receive"}, {<<"b">>, <<"a">>, <<"c">>})}

Payloads == {RefTo("P"), RefTo("E"), Of("object")}

\* Under "c" the definitions are right, but AsyncAPI is too old.
MessageSchemas(c, s) ==
    [A |-> Object([type |-> Const("a"), payload |-> s], {"type", "payload"}),
     B |-> Object([type |-> Const(IF c = "c" THEN "b" ELSE c), payload |-> RefTo("P")], {}),
     P |-> Object([expectedRoomVersion |-> [Of("integer") EXCEPT !.goType = "uint64"]], {}),
     E |-> [Of("string") EXCEPT !.keywords = {"enum"}]]

Exposures ==
    {[components |-> [a |-> [complete |-> TRUE, payload |-> "A"],
                      b |-> [complete |-> ok, payload |-> d]],
      channel |-> ch] :
        ok \in BOOLEAN, d \in {"A", "B", "E", "X"},
        ch \in {[a |-> "a", b |-> "b"]}}
    \cup {[components |-> [a |-> [complete |-> TRUE, payload |-> "A"]], channel |-> ch] :
            ch \in {[a |-> "a"], [a |-> "b"], [a |-> "a", b |-> "b"], <<>>}}

Exposed ==
    {Document(<<MessageSchemas(c, s)>>,
              [version |-> IF c = "c" THEN 2 ELSE 3, components |-> e.components,
               channel |-> e.channel, operations |-> o]) :
        c \in {"b", "a", "c"}, s \in Payloads, e \in Exposures, o \in Operations}

AllDocuments == Graphs \cup Across \cup Ones \cup Empty \cup Exposed

DefinitionNames == {"A", "B", "C", "E", "P", "X", ""}
=============================================================================
