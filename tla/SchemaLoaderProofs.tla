------------------------- MODULE SchemaLoaderProofs -------------------------
(***************************************************************************)
(* For all schema files: what is parsed is in the order of its $refs, and  *)
(* what is rejected as circular is a circle.  And for all documents: the   *)
(* frames of the messages that are built find their guard.                 *)
(***************************************************************************)
EXTENDS ProtocolMessages, TLAPS

LoaderTypeOK ==
    /\ uses \in [Known -> SUBSET Names]
    /\ left \in [Known -> SUBSET Names]
    /\ stack \in Seq(Known)
    /\ parsed \in Seq(Known)

\* A $ref that is not to be followed any more leads to a parsed definition.
Followed ==
    \A d \in Known : left[d] \subseteq uses[d] /\ uses[d] \ left[d] \subseteq Range(parsed)

\* Each definition on the stack is a $ref of the one before.
StackIsPath == \A i \in 1 .. Len(stack) - 1 : stack[i + 1] \in uses[stack[i]]

LoaderInv ==
    LoaderTypeOK /\ Followed /\ StackIsPath /\ ParsedInOrder /\ CircularIsACircle

-----------------------------------------------------------------------------
(* One more definition is parsed: the others keep their places.            *)
LEMMA RangeOfAppend ==
    ASSUME NEW S, NEW s \in Seq(S), NEW e \in S
    PROVE  /\ Range(Append(s, e)) = Range(s) \cup {e}
           /\ Append(s, e) \in Seq(S)
<1>1. DOMAIN Append(s, e) = DOMAIN s \cup {Len(s) + 1}
    OBVIOUS
<1>2. \A i \in DOMAIN s : Append(s, e)[i] = s[i]
    OBVIOUS
<1>3. Append(s, e)[Len(s) + 1] = e
    OBVIOUS
<1>4. Range(Append(s, e)) = Range(s) \cup {e}
    BY <1>1, <1>2, <1>3, Zenon DEF Range
<1> QED
    BY <1>4

(* The last definition is taken off, and the one before it is its own.     *)
LEMMA AllButLast ==
    ASSUME NEW S, NEW s \in Seq(S), s # <<>>
    PROVE  /\ SubSeq(s, 1, Len(s) - 1) \in Seq(S)
           /\ Len(SubSeq(s, 1, Len(s) - 1)) = Len(s) - 1
           /\ \A i \in 1 .. Len(s) - 1 : SubSeq(s, 1, Len(s) - 1)[i] = s[i]
           /\ Len(s) # 1 => s[Len(s) - 1] \in S
<1>1. PICK n \in Nat : n + 1 = Len(s)
    <2>1. Len(s) \in Nat /\ Len(s) # 0
        OBVIOUS
    <2> QED
        BY <2>1
<1>2. \A i \in 1 .. n : s[i] \in S
    BY <1>1
<1>3. SubSeq(s, 1, n) = [i \in 1 .. n |-> s[i]]
    BY <1>1
<1>4. SubSeq(s, 1, n) \in Seq(S) /\ Len(SubSeq(s, 1, n)) = n
    BY <1>2, <1>3
<1> QED
    BY <1>1, <1>2, <1>3, <1>4

(* The loader starts with nothing parsed and every $ref to follow.         *)
LEMMA LoaderInitInv == LoaderInit => LoaderInv
<1> SUFFICES ASSUME LoaderInit PROVE LoaderInv
    OBVIOUS
<1>1. LoaderTypeOK
    <2>1. PICK ds \in SUBSET Names : uses \in [ds -> SUBSET Names]
        BY DEF LoaderInit
    <2>2. uses \in [Known -> SUBSET Names]
        BY <2>1 DEF Known
    <2> QED
        BY <2>2 DEF LoaderInit, LoaderTypeOK
<1>2. Followed
    BY <1>1 DEF LoaderInit, Followed
<1>3. StackIsPath
    BY DEF LoaderInit, StackIsPath
<1>4. ParsedInOrder
    BY DEF LoaderInit, ParsedInOrder
<1>5. CircularIsACircle
    BY DEF LoaderInit, CircularIsACircle
<1> QED
    BY <1>1, <1>2, <1>3, <1>4, <1>5 DEF LoaderInv

(* A name is looked up, at the top level or for a $ref of the definition   *)
(* on top: it is pushed, ticked off, or the end.                           *)
LEMMA LookUpKeepsInv ==
    ASSUME LoaderInv, Running, NEW d, parseDefinition(d), UNCHANGED files,
           stack = <<>> => d \in Known \ Range(parsed),
           stack # <<>> => d \in left[Top]
    PROVE  LoaderInv'
<1> USE DEF LoaderInv, LoaderTypeOK, files
<1>0. Known' = Known
    BY DEF Known
<1>1. CASE verdict(d) = "parse"
    <2>1. stack' = Append(stack, d) /\ UNCHANGED <<left, parsed, result>>
        BY <1>1 DEF parseDefinition
    <2>2. d \in Known
        BY <1>1 DEF verdict
    <2>3. LoaderTypeOK'
        BY <1>0, <2>1, <2>2, RangeOfAppend
    <2>4. Followed' /\ ParsedInOrder'
        BY <1>0, <2>1 DEF Followed, ParsedInOrder
    <2>5. StackIsPath'
        <3> SUFFICES ASSUME NEW i \in 1 .. Len(stack') - 1
                     PROVE  stack'[i + 1] \in uses[stack'[i]]
            BY DEF StackIsPath
        <3>1. CASE i < Len(stack)
            BY <2>1, <2>2, <3>1 DEF StackIsPath
        <3>2. CASE i = Len(stack)
            <4>1. stack # <<>> /\ Top \in Known
                BY <3>2, <2>1, <2>2 DEF Top
            <4>2. d \in uses[Top]
                BY <4>1 DEF Followed
            <4> QED
                BY <4>2, <3>2, <2>1, <2>2 DEF Top
        <3> QED
            BY <3>1, <3>2, <2>1, <2>2
    <2>6. CircularIsACircle'
        BY <2>1 DEF CircularIsACircle, Running
    <2> QED
        BY <2>3, <2>4, <2>5, <2>6
<1>2. CASE verdict(d) = "done"
    <2>1. left' = [left EXCEPT ![Top] = @ \ {d}] /\ UNCHANGED <<stack, parsed, result>>
        BY <1>2 DEF parseDefinition
    <2>2. d \in Range(parsed)
        BY <1>2 DEF verdict
    <2>3. Top \in Known
        BY <2>2 DEF Top
    <2>4. LoaderTypeOK'
        BY <1>0, <2>1, <2>3
    <2>5. Followed'
        BY <1>0, <2>1, <2>2, <2>3 DEF Followed
    <2>6. StackIsPath' /\ ParsedInOrder'
        BY <2>1 DEF StackIsPath, ParsedInOrder
    <2>7. CircularIsACircle'
        BY <2>1 DEF CircularIsACircle, Running
    <2> QED
        BY <2>4, <2>5, <2>6, <2>7
<1>3. CASE verdict(d) \notin {"parse", "done"}
    <2>1. result' = verdict(d) /\ UNCHANGED <<stack, left, parsed>>
        BY <1>3 DEF parseDefinition
    <2>2. LoaderTypeOK' /\ Followed' /\ StackIsPath' /\ ParsedInOrder'
        BY <1>0, <2>1 DEF Followed, StackIsPath, ParsedInOrder
    <2>3. CircularIsACircle'
        <3> SUFFICES ASSUME verdict(d) = "circular" PROVE CircularIsACircle'
            BY <2>1 DEF CircularIsACircle
        <3>1. d \in parsing
            BY DEF verdict
        <3>2. PICK k \in DOMAIN stack : d = stack[k]
            BY <3>1 DEF parsing, Range
        <3>3. stack # <<>> /\ Top \in Known
            BY <3>2 DEF Top
        <3>4. stack[k] \in uses[Top]
            BY <3>2, <3>3 DEF Followed
        <3>5. CircleFrom(k)
            BY <3>4, <3>2 DEF CircleFrom, StackIsPath
        <3>6. CircleFrom(k)'
            BY <3>5, <2>1 DEF CircleFrom, Top
        <3> QED
            BY <3>6, <3>2, <2>1 DEF CircularIsACircle
    <2> QED
        BY <2>2, <2>3
<1> QED
    BY <1>1, <1>2, <1>3

(* A definition without $refs left to follow takes the next place.         *)
LEMMA FinishKeepsInv ==
    ASSUME LoaderInv, FinishDefinition
    PROVE  LoaderInv'
<1> USE DEF LoaderInv, LoaderTypeOK, files, FinishDefinition
<1>0. stack \in Seq(Known) /\ stack # <<>>
    OBVIOUS
<1>1. Known' = Known
    BY DEF Known
<1>2. Top \in Known /\ left[Top] = {}
    BY DEF Top
<1>3. parsed' \in Seq(Known) /\ Range(parsed') = Range(parsed) \cup {Top}
    BY <1>2, RangeOfAppend
<1>4. stack' \in Seq(Known) /\ Len(stack') = Len(stack) - 1
      /\ \A i \in 1 .. Len(stack) - 1 : stack'[i] = stack[i]
    BY <1>0, AllButLast
<1>5. left' \in [Known -> SUBSET Names]
      /\ \A d \in Known : left'[d] \subseteq left[d] /\ left[d] \ left'[d] \subseteq {Top}
    <2>1. CASE Len(stack) = 1
        BY <2>1
    <2>2. CASE Len(stack) # 1
        <3>1. stack[Len(stack) - 1] \in Known
            BY <1>0, <2>2, AllButLast
        <3> QED
            BY <2>2, <3>1
    <2> QED
        BY <2>1, <2>2
<1>6. LoaderTypeOK'
    BY <1>1, <1>3, <1>4, <1>5
<1>7. Followed'
    BY <1>1, <1>3, <1>5 DEF Followed
<1>8. StackIsPath'
    BY <1>4 DEF StackIsPath
<1>9. ParsedInOrder'
    <2>1. uses[Top] \subseteq Range(parsed)
        BY <1>2 DEF Followed
    <2>2. Range(parsed) = {parsed[j] : j \in 1 .. Len(parsed)}
        BY DEF Range
    <2> SUFFICES ASSUME NEW i \in DOMAIN parsed'
                 PROVE  uses[parsed'[i]] \subseteq {parsed'[j] : j \in 1 .. i - 1}
        BY DEF ParsedInOrder
    <2>3. /\ Len(parsed') = Len(parsed) + 1
          /\ parsed'[Len(parsed) + 1] = Top
          /\ \A j \in 1 .. Len(parsed) : parsed'[j] = parsed[j]
        BY <1>2
    <2>4. CASE i = Len(parsed) + 1
        BY <2>1, <2>2, <2>3, <2>4
    <2>5. CASE i \in 1 .. Len(parsed)
        BY <2>3, <2>5 DEF ParsedInOrder
    <2> QED
        BY <2>3, <2>4, <2>5, <1>3
<1>10. CircularIsACircle'
    BY DEF CircularIsACircle, Running
<1> QED
    BY <1>6, <1>7, <1>8, <1>9, <1>10

LEMMA LoaderStepKeepsInv == LoaderInv /\ [LoaderNext]_loaderVars => LoaderInv'
<1> SUFFICES ASSUME LoaderInv, [LoaderNext]_loaderVars PROVE LoaderInv'
    OBVIOUS
<1>1. CASE ParseNext
    BY <1>1, LookUpKeepsInv DEF ParseNext
<1>2. CASE FollowRef
    BY <1>2, LookUpKeepsInv DEF FollowRef
<1>3. CASE FinishDefinition
    BY <1>3, FinishKeepsInv
<1>4. CASE FinishDefinitions
    BY <1>4 DEF FinishDefinitions, files, LoaderInv, LoaderTypeOK, Known, Followed,
        StackIsPath, ParsedInOrder, CircularIsACircle, Range
<1>5. CASE UNCHANGED loaderVars
    BY <1>5 DEF loaderVars, LoaderInv, LoaderTypeOK, Known, Followed, StackIsPath,
        ParsedInOrder, CircularIsACircle, CircleFrom, Top, Range
<1> QED
    BY <1>1, <1>2, <1>3, <1>4, <1>5 DEF LoaderNext

(* Whatever the schema files, a definition is parsed after all it refers   *)
(* to, so that following $refs in a parsed specification comes to an end.  *)
THEOREM LoaderParsesInOrder == LoaderSpec => []ParsedInOrder
<1>1. LoaderInv => ParsedInOrder
    BY DEF LoaderInv
<1> QED
    BY <1>1, LoaderInitInv, LoaderStepKeepsInv, PTL DEF LoaderSpec

(* Whatever the schema files, a $ref that is rejected as circular closes a *)
(* circle of $refs.                                                        *)
THEOREM LoaderRejectsCircles == LoaderSpec => []CircularIsACircle
<1>1. LoaderInv => CircularIsACircle
    BY DEF LoaderInv
<1> QED
    BY <1>1, LoaderInitInv, LoaderStepKeepsInv, PTL DEF LoaderSpec

-----------------------------------------------------------------------------
(* The messages.                                                           *)

Built == {"built", "generated", "unsupported"}

\* What is built was checked, and stays as it was built.
MessagesInv ==
    result \in Built =>
        messages = {buildMessage(w) : w \in WireTypes} /\ ~documentError

\* The document decides on errors and messages, with the names defined in it.
LEMMA SameDocument ==
    ASSUME doc' = doc, uses' = uses
    PROVE  /\ documentError' <=> documentError
           /\ {buildMessage(w) : w \in WireTypes}' = {buildMessage(w) : w \in WireTypes}
<1>1. Known' = Known
    BY DEF Known
<1>2. documentError' <=> documentError
    BY <1>1 DEF documentError, exposureError, operationsError, listedTwice, Listed,
        WireTypes, messageError, payloadError, payload, typeConst, direction, Def, Home,
        Kind, Types, Properties, Range
<1>3. {buildMessage(w) : w \in WireTypes}' = {buildMessage(w) : w \in WireTypes}
    BY DEF WireTypes, buildMessage, payload, direction, Def, Home, Range
<1> QED
    BY <1>2, <1>3

LEMMA MessagesStepKeepsInv == MessagesInv /\ [MessagesNext]_vars => MessagesInv'
<1> SUFFICES ASSUME MessagesInv, [MessagesNext]_vars PROVE MessagesInv'
    OBVIOUS
<1>1. CASE ParseDefinitions
    <2>1. result' \notin Built
        <3>1. result = "running"
            BY <1>1 DEF ParseDefinitions, LoaderNext, ParseNext, FollowRef,
                FinishDefinition, FinishDefinitions, Running
        <3>2. ASSUME NEW d, parseDefinition(d) PROVE result' \notin Built
            <4>1. verdict(d) \in {"done", "unknown", "circular", "invalid", "parse"}
                BY DEF verdict
            <4> QED
                BY <3>1, <3>2, <4>1 DEF parseDefinition, Built
        <3> QED
            BY <1>1, <3>1, <3>2 DEF ParseDefinitions, LoaderNext, ParseNext, FollowRef,
                FinishDefinition, FinishDefinitions, Built
    <2> QED
        BY <2>1 DEF MessagesInv
<1>2. CASE BuildMessages
    <2>1. doc' = doc /\ uses' = uses
        BY <1>2 DEF BuildMessages, files
    <2>2. result' \in Built => ~documentError /\ messages' = {buildMessage(w) : w \in WireTypes}
        BY <1>2 DEF BuildMessages, Built
    <2> QED
        BY <2>1, <2>2, SameDocument DEF MessagesInv
<1>3. CASE \E outcome \in {"generated", "unsupported"} : Emit(outcome)
    <2>1. doc' = doc /\ uses' = uses /\ messages' = messages /\ result = "built"
        BY <1>3 DEF Emit, files
    <2>2. messages = {buildMessage(w) : w \in WireTypes} /\ ~documentError
        BY <2>1 DEF MessagesInv, Built
    <2> QED
        BY <2>1, <2>2, SameDocument DEF MessagesInv
<1>4. CASE UNCHANGED vars
    <2>1. doc' = doc /\ uses' = uses /\ messages' = messages /\ result' = result
        BY <1>4 DEF vars, loaderVars
    <2> QED
        BY <2>1, SameDocument DEF MessagesInv
<1> QED
    BY <1>1, <1>2, <1>3, <1>4 DEF MessagesNext

\* A message that was built without an error.
LEMMA MessageOf ==
    ASSUME ~documentError, NEW w \in WireTypes
    PROVE  LET m == buildMessage(w)
           IN  /\ m.wireType = w
               /\ m.direction \in {"send", "receive"}
               /\ m.definition \in Structs
               /\ Def(m.definition).properties["type"].const = w
               /\ m.direction = "send" =>
                    m.payloadType \in Structs /\ m.payloadType = payload(m.definition)
<1> DEFINE m == buildMessage(w)
           d == doc.components[w].payload
<1>1. /\ m.wireType = w /\ m.direction = direction(w) /\ m.definition = d
      /\ m.direction = "send" => m.payloadType = payload(d)
    BY DEF buildMessage
<1>2. ~messageError(w) /\ ~operationsError
    BY DEF documentError
<1>3. direction(w) \in {"send", "receive"}
    <2>1. \E o \in Range(doc.operations) : w \in Range(o.messages)
        BY <1>2 DEF messageError, Listed
    <2>2. \A o \in Range(doc.operations) : o.action \in {"send", "receive"}
        BY <1>2 DEF operationsError, Range
    <2> QED
        BY <2>1, <2>2 DEF direction
<1>4. d \in Known /\ Kind(Def(d)) = "object" /\ typeConst(d, w)
    BY <1>2 DEF messageError
<1>5. direction(w) = "send" => payload(d) \in Known /\ Kind(Def(payload(d))) = "object"
    BY <1>2 DEF messageError, payloadError
<1> QED
    BY <1>1, <1>3, <1>4, <1>5 DEF Structs, typeConst

(* Whatever the document and its schemas, every frame of the generated     *)
(* protocol is taken by the dispatcher of its direction and by no other,   *)
(* and a command's payload is decoded into what its frame declares: a wire *)
(* type has one message, and its direction and definition were checked.    *)
THEOREM FramesAreGuarded == MessagesSpec => []FramesFindTheirGuard
<1>1. MessagesInit => MessagesInv
    BY DEF MessagesInit, loadDefinitions, MessagesInv, Built
<1>2. MessagesInv => FramesFindTheirGuard
    <2> SUFFICES ASSUME MessagesInv, result \in {"built", "generated"}
                 PROVE  FramesFindTheirGuard
        BY DEF FramesFindTheirGuard
    <2>1. messages = {buildMessage(w) : w \in WireTypes} /\ ~documentError
        BY DEF MessagesInv, Built
    <2>2. ASSUME NEW m \in messages
          PROVE  /\ m.wireType \in WireTypes /\ m = buildMessage(m.wireType)
                 /\ m.direction \in {"send", "receive"}
                 /\ m.definition \in Structs
                 /\ Def(m.definition).properties["type"].const = m.wireType
                 /\ m.direction = "send" =>
                      m.payloadType \in Structs /\ m.payloadType = payload(m.definition)
        <3>1. PICK w \in WireTypes : m = buildMessage(w)
            BY <2>1
        <3> QED
            BY <2>1, <3>1, MessageOf
    <2>3. {m.wireType : m \in messages} = DOMAIN doc.components
        <3>1. DOMAIN doc.components = WireTypes
            BY <2>1 DEF documentError, exposureError
        <3>2. \A w \in WireTypes : buildMessage(w) \in messages /\ buildMessage(w).wireType = w
            BY <2>1, MessageOf
        <3> QED
            BY <2>2, <3>1, <3>2
    <2>4. ASSUME NEW m \in messages, NEW n \in messages
          PROVE  dispatch(IF n.direction = "send" THEN CommandMessages ELSE EventMessages,
                          Def(m.definition).properties["type"].const, m.definition)
                 <=> n.direction = m.direction
        <3> DEFINE ms == IF n.direction = "send" THEN CommandMessages ELSE EventMessages
        <3>1. \A x \in ms : x \in messages /\ x.direction = n.direction
            BY <2>2 DEF CommandMessages, EventMessages
        <3>2. n.direction = m.direction => m \in ms
            BY DEF CommandMessages, EventMessages
        <3>3. \A x \in messages : x.wireType = m.wireType => x = m
            BY <2>2
        <3> HIDE DEF ms
        <3>4. dispatch(ms, m.wireType, m.definition) <=> n.direction = m.direction
            BY <3>1, <3>2, <3>3 DEF dispatch
        <3> QED
            BY <2>2, <3>4 DEF ms
    <2>5. ASSUME NEW m \in CommandMessages
          PROVE  /\ NewClientCommandPayload(m.wireType) \in Structs
                 /\ NewClientCommandPayload(m.wireType) = payload(m.definition)
        <3>1. m \in messages /\ m.direction = "send"
            BY DEF CommandMessages
        <3>2. \A x \in CommandMessages : x.wireType = m.wireType <=> x = m
            BY <2>2, <3>1 DEF CommandMessages
        <3>3. (CHOOSE x \in CommandMessages : x.wireType = m.wireType) = m
            BY <3>2
        <3> QED
            BY <2>2, <3>1, <3>3 DEF NewClientCommandPayload
    <2>6. ASSUME NEW m \in emptyGuardedMessages, NEW f \in Fields, f.of = m.payloadType
          PROVE  ~Required(f)
        <3>1. requiredProperties(m.payloadType) = {}
            BY DEF emptyGuardedMessages
        <3>2. f.name \in Properties(Def(f.of))
            BY DEF Fields
        <3> QED
            BY <2>6, <3>1, <3>2 DEF requiredProperties, Required
    <2> QED
        BY <2>2, <2>3, <2>4, <2>5, <2>6 DEF FramesFindTheirGuard
<1> QED
    BY <1>1, <1>2, MessagesStepKeepsInv, PTL DEF MessagesSpec
=============================================================================
