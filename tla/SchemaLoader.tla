---------------------------- MODULE SchemaLoader ----------------------------
(***************************************************************************)
(* How tools/protocolgen parses the definitions of the protocol's schema   *)
(* files (spec.go): parseDefinition follows the $refs of a definition into *)
(* other definitions, recursively, with the finished ones cached and the   *)
(* ones under way remembered, so that a circular $ref is an error.         *)
(*                                                                         *)
(* The recursion is a stack.  Here a definition is the set of its $refs;   *)
(* ProtocolGen says what is in it.  The code goes through names and        *)
(* properties in sorted order, the model in any: which definitions parse   *)
(* does not depend on it.                                                  *)
(***************************************************************************)
EXTENDS Naturals, Sequences, Functions

CONSTANT Names  \* names of definitions, also of missing ones

VARIABLES
    uses,    \* the $refs of each definition of the files
    broken,  \* definitions that parseSchema rejects for themselves
    stack,   \* the definitions that are being parsed, each for the one before
    left,    \* the $refs of each definition that are still to be followed
    parsed,  \* the definitions that are parsed, in the order they were
    result   \* "running", "parsed", or the error

files == <<uses, broken>>
loaderVars == <<uses, broken, stack, left, parsed, result>>

Known == DOMAIN uses

parsing == Range(stack)

Top == stack[Len(stack)]

Running == result = "running"

\* Mutant: a definition that is under way will do.
verdict_Trusting(d) ==
    CASE d \in Range(parsed) \cup parsing -> "done"
      [] d \notin Known -> "unknown"
      [] d \in broken -> "invalid"
      [] OTHER -> "parse"

\* Mutant: a definition that was seen before is taken for a cycle.
verdict_Seen(d) ==
    CASE d \in Range(parsed) \cup parsing -> "circular"
      [] d \notin Known -> "unknown"
      [] d \in broken -> "invalid"
      [] OTHER -> "parse"

\* What parseDefinition does with a name.
verdict(d) ==
    CASE d \in Range(parsed) -> "done"
      [] d \notin Known -> "unknown"
      [] d \in parsing -> "circular"
      [] d \in broken -> "invalid"
      [] OTHER -> "parse"

parseDefinition(d) ==
    CASE verdict(d) = "parse" ->
            stack' = Append(stack, d) /\ UNCHANGED <<left, parsed, result>>
      [] verdict(d) = "done" ->
            /\ left' = [left EXCEPT ![Top] = @ \ {d}]
            /\ UNCHANGED <<stack, parsed, result>>
      [] OTHER -> result' = verdict(d) /\ UNCHANGED <<stack, left, parsed>>

\* The loop over all definitions, outside any of them.
ParseNext ==
    /\ Running
    /\ stack = <<>>
    /\ \E d \in Known \ Range(parsed) : parseDefinition(d)
    /\ UNCHANGED files

FollowRef ==
    /\ Running
    /\ stack # <<>>
    /\ \E d \in left[Top] : parseDefinition(d)
    /\ UNCHANGED files

\* The definition is done, and so is the $ref that led to it.
FinishDefinition ==
    /\ Running
    /\ stack # <<>>
    /\ left[Top] = {}
    /\ parsed' = Append(parsed, Top)
    /\ stack' = SubSeq(stack, 1, Len(stack) - 1)
    /\ left' = IF Len(stack) = 1 THEN left
               ELSE [left EXCEPT ![stack[Len(stack) - 1]] = @ \ {Top}]
    /\ UNCHANGED <<files, result>>

FinishDefinitions ==
    /\ Running
    /\ stack = <<>>
    /\ Known \subseteq Range(parsed)
    /\ result' = "parsed"
    /\ UNCHANGED <<files, stack, left, parsed>>

LoaderInit ==
    /\ \E ds \in SUBSET Names : uses \in [ds -> SUBSET Names]
    /\ broken \subseteq Known
    /\ stack = <<>>
    /\ left = uses
    /\ parsed = <<>>
    /\ result = "running"

LoaderNext == ParseNext \/ FollowRef \/ FinishDefinition \/ FinishDefinitions

LoaderSpec == LoaderInit /\ [][LoaderNext]_loaderVars

-----------------------------------------------------------------------------
(* Definitions are finished before those that refer to them: $refs of a    *)
(* parsed specification do not go round in circles, so the emitters, which *)
(* follow them without looking back, come to an end.                       *)
ParsedInOrder ==
    \A i \in DOMAIN parsed :
        uses[parsed[i]] \subseteq {parsed[j] : j \in 1 .. i - 1}

\* The stack is a path of $refs; from the k-th definition on it is a circle.
CircleFrom(k) ==
    /\ \A i \in k .. Len(stack) - 1 : stack[i + 1] \in uses[stack[i]]
    /\ stack[k] \in uses[Top]

(* Only what really refers to itself is rejected as circular: definitions  *)
(* that are used many times, or by several others, are not.                *)
CircularIsACircle ==
    result = "circular" => \E k \in DOMAIN stack : CircleFrom(k)

=============================================================================
