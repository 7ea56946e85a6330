-------------------------- MODULE ProtocolMessages --------------------------
(***************************************************************************)
(* tools/protocolgen, the messages: how the definitions that SchemaLoader  *)
(* parses and the AsyncAPI document are put together to the commands and   *)
(* events of the WebSocket protocol, which command payload the server      *)
(* decodes into which definition, and which dispatcher of the browser      *)
(* takes which frame.  What the emitters make of schemas is ProtocolGen's: *)
(* here it succeeds or fails.                                              *)
(*                                                                         *)
(* A document is a record of                                               *)
(*   version     of AsyncAPI                                               *)
(*   schemas     its schema files, each a function from names to schemas   *)
(*   components  wire type -> [complete, payload]: whether it has a name,  *)
(*               a title and a summary, and the definition it refers to    *)
(*   channel     wire type -> the component it refers to                   *)
(*   operations  a sequence of [action, messages]                          *)
(* and a schema one of                                                     *)
(*   ref, file   the definition it refers to, or "", and in which file     *)
(*               (0: its own)                                              *)
(*   type        its types, "null" among them when it is nullable          *)
(*   keywords    of "enum", "minimum" (zero), "bound" (any other minimum), *)
(*               "maximum", "unsupported" and "properties", for an object  *)
(*               whose properties are there also when there are none       *)
(*   const, format, goType      "" when absent                             *)
(*   items       <<>> or its one schema                                    *)
(*   properties, required       of an object                               *)
(***************************************************************************)
EXTENDS SchemaLoader, FiniteSets

CONSTANT Documents  \* the inputs of the tool

VARIABLES
    doc,       \* the document it reads
    messages   \* the messages of the specification

vars == <<loaderVars, doc, messages>>

-----------------------------------------------------------------------------
(* Definitions.                                                            *)

\* The file that a definition is in, and its schema.
Home(d) == CHOOSE i \in DOMAIN doc.schemas : d \in DOMAIN doc.schemas[i]

Def(d) == doc.schemas[Home(d)][d]

Types(s) == s.type \ {"null"}

\* A schema with an enum or a const and no type is a string.
Kind(s) == CASE s.ref # "" -> "ref"
             [] Types(s) = {} -> "string"
             [] OTHER -> CHOOSE k \in Types(s) : TRUE

Properties(s) == DOMAIN s.properties

Structs == {d \in Known : Kind(Def(d)) = "object"}

Fields == UNION {{[of |-> d, name |-> p] : p \in Properties(Def(d))} : d \in Structs}

Schema(f) == Def(f.of).properties[f.name]

Required(f) == f.name \in Def(f.of).required

-----------------------------------------------------------------------------
(* Messages.                                                               *)

WireTypes == DOMAIN doc.channel

Listed == UNION {Range(o.messages) : o \in Range(doc.operations)}

\* Channel and components expose the same messages under the same names.
exposureError ==
    \/ WireTypes = {}
    \/ DOMAIN doc.components # WireTypes
    \/ \E w \in WireTypes : doc.channel[w] # w

\* A message that is listed twice, by one operation or by two.
listedTwice ==
    \E i, j \in DOMAIN doc.operations :
        \E k \in DOMAIN doc.operations[i].messages,
           l \in DOMAIN doc.operations[j].messages :
            /\ <<i, k>> # <<j, l>>
            /\ doc.operations[i].messages[k] = doc.operations[j].messages[l]

operationsError ==
    \/ doc.operations = <<>>
    \/ \E i \in DOMAIN doc.operations :
          \/ doc.operations[i].action \notin {"send", "receive"}
          \/ doc.operations[i].messages = <<>>
    \/ listedTwice

direction(w) ==
    (CHOOSE o \in Range(doc.operations) : w \in Range(o.messages)).action

\* Mutant: the name of the definition is enough.
typeConst_Any(d, w) == TRUE

\* requireMessageTypeConst
typeConst(d, w) ==
    "type" \in Properties(Def(d)) /\ Def(d).properties["type"].const = w

payload(d) == Def(d).properties["payload"].ref

payloadError(d) ==
    \/ "payload" \notin Properties(Def(d))
    \/ payload(d) = ""
    \/ payload(d) \notin Known
    \/ Kind(Def(payload(d))) # "object"

messageError(w) ==
    LET d == doc.components[w].payload
    IN  \/ ~doc.components[w].complete
        \/ d \notin Known
        \/ Kind(Def(d)) # "object"
        \/ ~typeConst(d, w)
        \/ w \notin Listed
        \/ direction(w) = "send" /\ payloadError(d)

buildMessage(w) ==
    LET d == doc.components[w].payload
    IN  [wireType |-> w, direction |-> direction(w), definition |-> d,
         payloadType |-> IF direction(w) = "send" THEN payload(d) ELSE d]

CommandMessages == {m \in messages : m.direction = "send"}

EventMessages == messages \ CommandMessages

GuardedMessages ==
    {m \in CommandMessages : "expectedRoomVersion" \in Properties(Def(m.payloadType))}

requiredProperties(d) == Def(d).required \cap Properties(Def(d))

emptyGuardedMessages == {m \in GuardedMessages : requiredProperties(m.payloadType) = {}}

\* The payload struct that the server decodes a command of this type into.
NewClientCommandPayload(w) ==
    (CHOOSE m \in CommandMessages : m.wireType = w).payloadType

\* The dispatch of isClientCommand and isServerEvent, by the type of a frame.
dispatch(ms, wireType, d) ==
    \E m \in ms : m.wireType = wireType /\ m.definition = d

-----------------------------------------------------------------------------
(* A run of the tool.                                                      *)

\* loadDefinitions: a name belongs to one file.
duplicate ==
    \E i, j \in DOMAIN doc.schemas :
        i # j /\ DOMAIN doc.schemas[i] \cap DOMAIN doc.schemas[j] # {}

loadDefinitions ==
    /\ Known = UNION {DOMAIN f : f \in Range(doc.schemas)}
    /\ stack = <<>>
    /\ left = uses
    /\ parsed = <<>>
    /\ result = IF duplicate THEN "duplicate" ELSE "running"
    /\ messages = {}

ParseDefinitions == LoaderNext /\ UNCHANGED <<doc, messages>>

documentError ==
    \/ doc.version # 3
    \/ exposureError
    \/ operationsError
    \/ \E w \in WireTypes : messageError(w)
    \/ ~(Listed \subseteq WireTypes)

BuildMessages ==
    /\ result = "parsed"
    /\ result' = IF documentError THEN "rejected" ELSE "built"
    /\ messages' = IF documentError THEN {} ELSE {buildMessage(w) : w \in WireTypes}
    /\ UNCHANGED <<doc, files, stack, left, parsed>>

\* The emitters are done, or have come to what they do not support.
Emit(outcome) ==
    /\ result = "built"
    /\ result' = outcome
    /\ UNCHANGED <<doc, messages, files, stack, left, parsed>>

MessagesInit == doc \in Documents /\ loadDefinitions

MessagesNext ==
    \/ ParseDefinitions
    \/ BuildMessages
    \/ \E outcome \in {"generated", "unsupported"} : Emit(outcome)

MessagesSpec == MessagesInit /\ [][MessagesNext]_vars

-----------------------------------------------------------------------------
(* Every wire type is a command or an event and not both, its frames are   *)
(* taken by that one dispatcher, for a definition that has a guard; the    *)
(* server decodes a command's payload into the struct that its frame       *)
(* declares, and what the browser sends for a guarded command without      *)
(* arguments, {}, lacks nothing that the payload's guard asks for.         *)
FramesFindTheirGuard ==
    result \in {"built", "generated"} =>
        /\ {m.wireType : m \in messages} = DOMAIN doc.components
        /\ \A m \in messages, n \in messages :
              dispatch(IF n.direction = "send" THEN CommandMessages ELSE EventMessages,
                       Def(m.definition).properties["type"].const, m.definition)
              <=> n.direction = m.direction
        /\ \A m \in messages : m.definition \in Structs
        /\ \A m \in CommandMessages :
              /\ NewClientCommandPayload(m.wireType) \in Structs
              /\ NewClientCommandPayload(m.wireType) = payload(m.definition)
        /\ \A m \in emptyGuardedMessages : \A f \in Fields :
              f.of = m.payloadType => ~Required(f)

=============================================================================
