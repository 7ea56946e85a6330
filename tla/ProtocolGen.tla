---------------------------- MODULE ProtocolGen ----------------------------
(***************************************************************************)
(* tools/protocolgen: from the JSON schemas and the AsyncAPI document of   *)
(* the WebSocket protocol to the Go types of the server and the TypeScript *)
(* types and guards of the browser.  SchemaLoader parses the definitions   *)
(* and ProtocolMessages puts the messages together; here is what is wrong  *)
(* with a schema, what it refers to, and what the emitters render for it:  *)
(* its Go type and its check in the browser.                               *)
(***************************************************************************)
EXTENDS ProtocolMessages, SequencesExt

CONSTANT Consts  \* the constants in the documents

-----------------------------------------------------------------------------
(* Schemas.                                                                *)

Nullable(s) == s.ref = "" /\ "null" \in s.type

Items(s) == s.items[1]

IsEnum(s) == Kind(s) = "string" /\ "enum" \in s.keywords

untyped(s) == s.type = {} /\ ("enum" \in s.keywords \/ s.const # "")

kindError(s) == ~untyped(s) /\ Cardinality(Types(s)) # 1

metadataError(s) == Kind(s) # "string" /\ ("enum" \in s.keywords \/ s.const # "")

numericError(s) ==
    \/ "maximum" \in s.keywords
    \/ "bound" \in s.keywords
    \/ "minimum" \in s.keywords /\ ~(Kind(s) = "integer" /\ s.goType = "uint64")

\* Only an object that declares properties has its required names checked.
declares(s) == Properties(s) # {} \/ "properties" \in s.keywords

RECURSIVE schemaError(_)
schemaError(s) ==
    /\ s.ref = ""
    /\ \/ "unsupported" \in s.keywords
       \/ kindError(s)
       \/ metadataError(s)
       \/ numericError(s)
       \/ /\ Kind(s) = "object"
          /\ declares(s)
          /\ \/ ~(s.required \subseteq Properties(s))
             \/ \E p \in Properties(s) : schemaError(s.properties[p])
       \/ /\ Kind(s) = "array"
          /\ IF s.items = <<>> THEN TRUE ELSE schemaError(Items(s))

\* resolveRef: the pointer has to be valid in the file that the $ref names.
resolves(s, home) ==
    LET i == IF s.file = 0 THEN home ELSE s.file
    IN  i \in DOMAIN doc.schemas /\ s.ref \in DOMAIN doc.schemas[i]

\* The $refs of a schema of a file; "" for one that does not resolve.
RECURSIVE refs(_, _)
refs(s, home) ==
    CASE Kind(s) = "ref" -> {IF resolves(s, home) THEN s.ref ELSE ""}
      [] Kind(s) = "object" ->
            UNION {refs(s.properties[p], home) : p \in Properties(s)}
      [] Kind(s) = "array" /\ s.items # <<>> -> refs(Items(s), home)
      [] OTHER -> {}

-----------------------------------------------------------------------------
(* The Go types: "*", "[]" and a name, as they are written.                *)

goArrayType(s, type) ==
    <<"[]">> \o (IF Nullable(Items(s)) THEN <<"*">> ELSE <<>>) \o type

goNumeric == [integer |-> [t \in {"", "uint64"} |-> IF t = "" THEN "int" ELSE t],
              number |-> [t \in {"", "float32"} |-> IF t = "" THEN "float64" ELSE t]]

RECURSIVE goTypeName(_)
goTypeName(s) ==
    CASE Kind(s) = "ref" -> <<s.ref>>
      [] Kind(s) = "string" -> <<IF s.format = "date-time" THEN "time.Time" ELSE "string">>
      [] Kind(s) \in {"integer", "number"} ->
            IF s.goType \in DOMAIN goNumeric[Kind(s)]
            THEN <<goNumeric[Kind(s)][s.goType]>> ELSE <<"error">>
      [] Kind(s) = "boolean" -> <<"bool">>
      [] Kind(s) = "array" -> goArrayType(s, goTypeName(Items(s)))
      [] OTHER -> <<"error">>

\* Mutant: whatever may be null is left out when it is.
goPropertyType_Omit(s, required) ==
    LET pointer == Kind(s) # "array" /\ (Nullable(s) \/ ~required)
    IN  [type |-> (IF pointer THEN <<"*">> ELSE <<>>) \o goTypeName(s),
         omitempty |-> pointer]

goPropertyType(s, required) ==
    LET pointer == Kind(s) # "array" /\ (Nullable(s) \/ ~required)
    IN  [type |-> (IF pointer THEN <<"*">> ELSE <<>>) \o goTypeName(s),
         omitempty |-> pointer /\ ~required]

Field(f) == goPropertyType(Schema(f), Required(f))

\* Only objects and enumerations are rendered, with fields that Go has a type for.
emitError ==
    \/ \E d \in Known \ Structs : ~IsEnum(Def(d))
    \/ \E f \in Fields : "error" \in Range(Field(f).type)

\* schemaUsesTime: whether types.generated.go imports "time".
RECURSIVE usesTime(_)
usesTime(s) ==
    CASE Kind(s) = "object" -> \E p \in Properties(s) : usesTime(s.properties[p])
      [] Kind(s) = "string" -> s.format = "date-time"
      [] Kind(s) = "array" -> usesTime(Items(s))
      [] Kind(s) = "ref" -> usesTime(Def(s.ref))
      [] OTHER -> FALSE

\* Mutant: only the properties themselves are looked at.
specUsesTime_Fields == \E f \in Fields : Schema(f).format = "date-time"

specUsesTime == \E d \in Known : usesTime(Def(d))

-----------------------------------------------------------------------------
(* The checks of the browser, on JSON values.  A value is <<"null">>,      *)
(* <<"boolean">>, <<"number", x>> with x "whole", "negative" or            *)
(* "fraction", <<"string", x>> with x "any", "time", "uuid", "enum" (one   *)
(* of an inline enum) or a constant, <<"array">> with no items or          *)
(* <<"array">> \o v with items like v.  <<"object", d>> and               *)
(* <<"string", d>> are the values of definition d.                         *)

Null == <<"null">>

\* isRecord, the guard's first check, takes an array for a record.
isDefinition(d, v) ==
    \/ d \in Structs /\ v = <<"object", d>>
    \/ d \in Structs /\ v[1] = "array" /\ requiredProperties(d) = {}
    \/ d \notin Structs /\ v = <<"string", d>>

tsStringCheck(s, v) ==
    /\ v[1] = "string"
    /\ CASE s.const # "" -> v[2] = s.const
         [] s.const = "" /\ s.format = "date-time" -> v[2] = "time"
         [] s.const = "" /\ s.format = "uuid" -> v[2] = "uuid"
         [] OTHER -> TRUE

tsNumericCheck(s, v) ==
    /\ v[1] = "number"
    /\ Kind(s) = "integer" => v[2] # "fraction"
    /\ "minimum" \in s.keywords => v[2] # "negative"

\* Mutant: the items are not checked.
tsArrayCheck_Only(v, every) == v[1] = "array"

tsArrayCheck(v, every) == v[1] = "array" /\ (Len(v) = 1 \/ every)

RECURSIVE tsCheck(_, _)
tsCheck(s, v) ==
    \/ Nullable(s) /\ v = Null
    \/ CASE Kind(s) = "ref" -> isDefinition(s.ref, v)
         [] Kind(s) = "string" -> tsStringCheck(s, v)
         [] Kind(s) \in {"integer", "number"} -> tsNumericCheck(s, v)
         [] Kind(s) = "boolean" -> v[1] = "boolean"
         [] Kind(s) = "array" -> tsArrayCheck(v, tsCheck(Items(s), Tail(v)))
         [] OTHER -> FALSE

\* tsTypeName: the values of the type that is rendered; items are never null.
RECURSIVE tsType(_, _)
tsType(s, v) ==
    CASE Kind(s) = "ref" -> isDefinition(s.ref, v)
      [] Kind(s) = "string" -> v[1] = "string" /\ s.const \in {"", v[2]}
      [] Kind(s) \in {"integer", "number"} -> v[1] = "number"
      [] Kind(s) = "array" -> tsArrayCheck(v, tsType(Items(s), Tail(v)))
      [] OTHER -> v[1] = Kind(s)

\* The helpers of protocol.runtime.ts that a check calls.
RECURSIVE tsHelpers(_)
tsHelpers(s) ==
    CASE Kind(s) = "integer" -> {"isInteger"}
      [] Kind(s) = "string" /\ s.const = "" ->
            {h \in {"isRFC3339Timestamp", "isUUID"} :
                s.format = (IF h = "isUUID" THEN "uuid" ELSE "date-time")}
      [] Kind(s) = "array" -> tsHelpers(Items(s))
      [] OTHER -> {}

\* collectTypeScriptUsage: the helpers that are imported.
RECURSIVE tsUsage(_)
tsUsage(s) ==
    CASE Kind(s) = "object" -> UNION {tsUsage(s.properties[p]) : p \in Properties(s)}
      [] Kind(s) = "ref" -> tsUsage(Def(s.ref))
      [] Kind(s) = "array" -> tsUsage(Items(s))
      [] OTHER -> tsHelpers([s EXCEPT !.const = ""])

-----------------------------------------------------------------------------
(* A run of the tool.                                                      *)

Init ==
    /\ doc \in Documents
    /\ uses = [d \in UNION {DOMAIN f : f \in Range(doc.schemas)} |-> refs(Def(d), Home(d))]
    /\ broken = {d \in Known : schemaError(Def(d))}
    /\ loadDefinitions

generateArtifacts == Emit(IF emitError THEN "unsupported" ELSE "generated")

Next == ParseDefinitions \/ BuildMessages \/ generateArtifacts

Spec == Init /\ [][Next]_vars

-----------------------------------------------------------------------------
(* Properties of what is generated.                                        *)

Absent == <<"absent">>

Scalars ==
    {Null, <<"boolean">>, <<"object", "any">>}
    \cup {<<"number", x>> : x \in {"whole", "negative", "fraction"}}
    \cup {<<"string", x>> : x \in {"any", "time", "uuid", "enum"} \cup Consts}
    \cup {<<IF d \in Structs THEN "object" ELSE "string", d>> : d \in Known}

ArraysOf(V) == {<<"array">>} \cup {<<"array">> \o v : v \in V}

Values == Scalars \cup ArraysOf(Scalars) \cup ArraysOf(ArraysOf(Scalars))

\* What a schema says of a value, for JSON Schema.
RECURSIVE validates(_, _)
validates(s, v) ==
    IF s.ref # "" THEN v = <<IF s.ref \in Structs THEN "object" ELSE "string", s.ref>>
    ELSE /\ \/ s.type = {}
            \/ v[1] \in s.type
            \/ v[1] = "number" /\ "integer" \in s.type /\ v[2] # "fraction"
         /\ "enum" \in s.keywords => v = <<"string", "enum">>
         /\ s.const # "" => v = <<"string", s.const>>
         /\ v[1] = "string" /\ s.format = "date-time" => v[2] = "time"
         /\ v[1] = "string" /\ s.format = "uuid" => v[2] = "uuid"
         /\ v[1] = "number" /\ "minimum" \in s.keywords => v[2] # "negative"
         /\ v[1] = "array" /\ Len(v) > 1 => validates(Items(s), Tail(v))

\* What encoding/json makes of a Go value, by its type: nil is null.
RECURSIVE marshals(_, _)
marshals(type, v) ==
    CASE type[1] = "*" -> v = Null \/ marshals(Tail(type), v)
      [] type[1] = "[]" ->
            \/ v \in {Null, <<"array">>}
            \/ v[1] = "array" /\ Len(v) > 1 /\ marshals(Tail(type), Tail(v))
      [] type[1] \in Known -> v = <<IF type[1] \in Structs THEN "object" ELSE "string", type[1]>>
      [] type[1] = "time.Time" -> v = <<"string", "time">>
      [] type[1] = "string" -> v[1] = "string"
      [] type[1] = "bool" -> v[1] = "boolean"
      [] type[1] = "int" -> v[1] = "number" /\ v[2] # "fraction"
      [] type[1] = "uint64" -> v = <<"number", "whole">>
      [] OTHER -> v[1] = "number"

\* What it takes for a Go value: null for anything, any string for a name of strings.
RECURSIVE unmarshals(_, _)
unmarshals(type, v) ==
    \/ v = Null
    \/ type[1] = "*" /\ unmarshals(Tail(type), v)
    \/ type[1] = "[]" /\ v[1] = "array" /\ (Len(v) = 1 \/ unmarshals(Tail(type), Tail(v)))
    \/ type[1] \in Known \ Structs /\ v[1] = "string"
    \/ type[1] \notin {"*", "[]"} /\ marshals(type, v)

\* A field is left out when it is omitempty and nil.
fieldMarshals(f, v) ==
    \/ v = Absent /\ Field(f).omitempty
    \/ v # Absent /\ marshals(Field(f).type, v) /\ ~(v = Null /\ Field(f).omitempty)

guardAccepts(f, v) ==
    \/ v = Absent /\ ~Required(f)
    \/ v # Absent /\ tsCheck(Schema(f), v)

\* The server fills a field with what its schema asks for; what is null or
\* left out is Go's doing.
RECURSIVE filled(_, _)
filled(s, v) ==
    \/ v \in {Absent, Null}
    \/ v[1] = "array" /\ Kind(s) = "array" /\ (Len(v) = 1 \/ filled(Items(s), Tail(v)))
    \/ v \notin {Absent, Null} /\ v[1] # "array" /\ validates(s, v)

\* A slice that is nil, or holds one, where its schema has no null.
RECURSIVE nilSlice(_, _)
nilSlice(s, v) ==
    /\ Kind(s) = "array"
    /\ \/ v = Null /\ ~Nullable(s)
       \/ v[1] = "array" /\ Len(v) > 1 /\ nilSlice(Items(s), Tail(v))

(* Of what the server sends the browser's guards turn away nil slices and  *)
(* nothing else: pointers and omitempty fit the optional and nullable      *)
(* properties of every other type, but slices "both carry explicit null",  *)
(* optional and nullable (golang.go:75), and that is no array for a guard, *)
(* whether the property is required or may be left out.                    *)
GoReachesBrowser ==
    result = "generated" =>
        \A f \in Fields : \A v \in Values \cup {Absent} :
            fieldMarshals(f, v) /\ filled(Schema(f), v) =>
                (guardAccepts(f, v) <=> ~nilSlice(Schema(f), v))

\* Where schema, Go and TypeScript are known to differ.
RECURSIVE loose(_)
loose(s) ==
    \/ "enum" \in s.keywords
    \/ s.const # "" /\ (Nullable(s) \/ s.format # "")
    \/ s.goType = "uint64" /\ "minimum" \notin s.keywords
    \/ s.ref \in Structs /\ requiredProperties(s.ref) = {}
    \/ s.items # <<>> /\ loose(Items(s))

\* An array with nullable items: its guard lets null through, its type does not.
RECURSIVE holdsNull(_)
holdsNull(s) == s.items # <<>> /\ (Nullable(Items(s)) \/ holdsNull(Items(s)))

(* "Rejecting them keeps schema, Go, and TypeScript validation in          *)
(* agreement" (spec.go:446): but for the loose schemas, the guard accepts  *)
(* what the schema does, Go decodes it, and what it accepts is of the type *)
(* it promises.                                                            *)
ValidationAgrees ==
    result = "generated" =>
        \A f \in Fields : \A v \in Values :
            ~loose(Schema(f)) =>
                /\ guardAccepts(f, v) <=> validates(Schema(f), v)
                /\ validates(Schema(f), v) => unmarshals(Field(f).type, v)
                /\ guardAccepts(f, v) /\ ~holdsNull(Schema(f)) =>
                      (v = Null /\ Nullable(Schema(f))) \/ tsType(Schema(f), v)

(* The generated files compile: Go imports "time" exactly when a field has *)
(* its type (enumerations with a format aside), and TypeScript every       *)
(* helper that a guard calls.                                              *)
ImportsMatchUses ==
    result = "generated" =>
        /\ (\A d \in Known \ Structs : Def(d).format = "") =>
              (specUsesTime <=> \E f \in Fields : "time.Time" \in Range(Field(f).type))
        /\ \A f \in Fields : tsHelpers(Schema(f)) \subseteq tsUsage(Def(f.of))

=============================================================================
