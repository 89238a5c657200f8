---------------------------- MODULE OmiEnumerate ----------------------------
(***************************************************************************)
(* One call of the Ruby method Libomi::OMIInterface#enumerate, from the    *)
(* argument filter in wrap_OMIInterface_enumerate through                  *)
(* OMIInterface::Enumerate (one enumeration operation per request) and     *)
(* handle_results (the pull loop that drains an operation), down to the    *)
(* tokens written to the output stream.                                    *)
(*                                                                         *)
(* Data abstraction.  The stream is a sequence of tokens: "[" "]" ","      *)
(* and, for an instance whose JSON object instance_to_json writes, the     *)
(* instance itself standing for that whole object.  The encoder that      *)
(* produces the object's text is modelled in its own module.  A request    *)
(* (class name, namespace) is a model value; a malformed Ruby array entry  *)
(* is the value Malformed.  The provider behind MI_Operation_GetInstance   *)
(* is an environment: each pull chooses its answer nondeterministically    *)
(* within the MI contract (more results pending only on success), and an   *)
(* operation ends after at most MaxPulls answers with results pending.     *)
(***************************************************************************)
EXTENDS Naturals, Sequences

CONSTANTS
    Requests,       \* well-formed [class, namespace] pairs of the argument
    Malformed,      \* an argument entry that is not a pair of two strings
    NotArray,       \* an argument that is not a Ruby array at all
    Instances,      \* instances a provider can return
    BadInstances,   \* instances whose class name or element count is unreadable
    NULL,           \* the null MI_Instance pointer
    JSON_LIST_START, JSON_LIST_END, JSON_SEPARATOR,  \* the tokens '[' ']' ','
    MaxItems,       \* bound on the length of the Ruby argument array
    MaxPulls        \* bound on the answers with results pending per operation

\* The punctuation tokens of the output stream.
Punct == {JSON_LIST_START, JSON_LIST_END, JSON_SEPARATOR}

\* The bounds of a model are natural numbers.
ASSUME BoundsAssumption ==
    /\ MaxItems \in Nat
    /\ MaxPulls \in Nat

\* The sentinels and tokens are distinct from the values they stand beside.
ASSUME ValuesAssumption ==
    /\ BadInstances \subseteq Instances
    /\ Malformed \notin Requests
    /\ NULL \notin Instances
    /\ Punct \cap Instances = {}
    /\ JSON_LIST_START # JSON_LIST_END
    /\ JSON_LIST_START # JSON_SEPARATOR
    /\ JSON_LIST_END # JSON_SEPARATOR

\* MI_Result values that matter to the code: success and any failure.
Results == {"OK", "FAILED"}

\* Tokens of the output stream.
Token == Punct \cup Instances

\* The Ruby values the method can be called with.
ArgEntry == Requests \cup {Malformed}
Args == {NotArray} \cup UNION {[1..n -> ArgEntry] : n \in 0..MaxItems}

VARIABLES
    pc,             \* "call", "filter", "loop", "pull", "close" or "done"
    arg,            \* the Ruby argument `items`
    i,              \* wrap_OMIInterface_enumerate: index into the argument
    enumItems,      \* the well-formed requests, in argument order
    pos,            \* index of the current request in enumItems
    addSeparator,   \* Enumerate: the previous request emitted an instance
    operation,      \* state of the current MI_Operation: "null", "open", "closed"
    count,          \* handle_results: instances emitted for this operation
    result,         \* handle_results: the operation result out-parameter
    moreRemaining,  \* handle_results: the more-results out-parameter
    pulls,          \* provider: answers given with results pending
    opDone,         \* provider: the final answer of the operation was given
    strm            \* the output stream, as a sequence of tokens

vars == <<pc, arg, i, enumItems, pos, addSeparator, operation, count, result,
          moreRemaining, pulls, opDone, strm>>

-----------------------------------------------------------------------------
(***************************************************************************)
(* Helpers                                                                 *)
(***************************************************************************)

\* What instance_to_json writes for an instance: its object, or nothing
\* when MI_Instance_GetClassName or MI_Instance_GetElementCount fails.
InstanceJson(inst) == IF inst \in BadInstances THEN <<>> ELSE <<inst>>

\* The answers MI_Operation_GetInstance may give: the call's own return
\* value, the instance pointer, and the two out-parameters.  Before the
\* final answer, results are pending only on success and at most MaxPulls
\* times; after it, the completed operation repeats a final, empty answer.
Answers ==
    IF opDone
    THEN {[call |-> result, inst |-> NULL, more |-> FALSE, res |-> result]}
    ELSE {a \in [call : Results, inst : Instances \cup {NULL},
                 more : BOOLEAN, res : Results] :
            a.more => (a.res = "OK" /\ pulls < MaxPulls)}

-----------------------------------------------------------------------------
(***************************************************************************)
(* Actions                                                                 *)
(***************************************************************************)

Init ==
    /\ pc = "call"
    /\ arg \in Args
    /\ i = 1
    /\ enumItems = <<>>
    /\ pos = 1
    /\ addSeparator = FALSE
    /\ operation = "null"
    /\ count = 0
    /\ result = "OK"
    /\ moreRemaining = TRUE
    /\ pulls = 0
    /\ opDone = FALSE
    /\ strm = <<>>

\* wrap_OMIInterface_enumerate: a non-array argument returns the empty
\* string without calling Enumerate.
Call ==
    /\ pc = "call"
    /\ pc' = IF arg = NotArray THEN "done" ELSE "filter"
    /\ UNCHANGED <<arg, i, enumItems, pos, addSeparator, operation, count,
                   result, moreRemaining, pulls, opDone, strm>>

\* Mutant of FilterItem: the well-formedness test of the entry is dropped.
FilterItemNoCheck ==
    /\ pc = "filter"
    /\ i <= Len(arg)
    /\ enumItems' = Append(enumItems, arg[i])
    /\ i' = i + 1
    /\ UNCHANGED <<pc, arg, pos, addSeparator, operation, count, result,
                   moreRemaining, pulls, opDone, strm>>

\* One iteration of the argument loop: an entry that is an array of two
\* strings is pushed onto enumItems, any other entry is skipped.
FilterItem ==
    /\ pc = "filter"
    /\ i <= Len(arg)
    /\ enumItems' = IF arg[i] # Malformed THEN Append(enumItems, arg[i])
                                         ELSE enumItems
    /\ i' = i + 1
    /\ UNCHANGED <<pc, arg, pos, addSeparator, operation, count, result,
                   moreRemaining, pulls, opDone, strm>>

\* The argument loop is over: Enumerate starts by writing the list start.
StartEnumerate ==
    /\ pc = "filter"
    /\ i > Len(arg)
    /\ strm' = <<JSON_LIST_START>>
    /\ pc' = "loop"
    /\ UNCHANGED <<arg, i, enumItems, pos, addSeparator, operation, count,
                   result, moreRemaining, pulls, opDone>>

\* Head of the request loop of Enumerate: open the enumeration operation
\* of the next request, write a separator if the previous request emitted
\* an instance, and enter handle_results with its fresh locals.
OpenOperation ==
    /\ pc = "loop"
    /\ pos <= Len(enumItems)
    /\ operation' = "open"
    /\ strm' = IF addSeparator THEN Append(strm, JSON_SEPARATOR) ELSE strm
    /\ count' = 0
    /\ result' = "OK"
    /\ moreRemaining' = TRUE
    /\ pulls' = 0
    /\ opDone' = FALSE
    /\ pc' = "pull"
    /\ UNCHANGED <<arg, i, enumItems, pos, addSeparator>>

\* The loop of Enumerate is over: write the list end and return.
EndEnumerate ==
    /\ pc = "loop"
    /\ pos > Len(enumItems)
    /\ strm' = Append(strm, JSON_LIST_END)
    /\ pc' = "done"
    /\ UNCHANGED <<arg, i, enumItems, pos, addSeparator, operation, count,
                   result, moreRemaining, pulls, opDone>>

\* Mutant of GetInstance: the loop condition tests only the operation
\* result and forgets moreRemaining.
GetInstanceIgnoreMore(a) ==
    LET emit == a.call = "OK" /\ a.inst # NULL
    IN  /\ strm' = IF emit
                   THEN (IF count > 0 THEN Append(strm, JSON_SEPARATOR) ELSE strm)
                        \o InstanceJson(a.inst)
                   ELSE strm
        /\ count' = IF emit THEN count + 1 ELSE count
        /\ result' = a.res
        /\ moreRemaining' = a.more
        /\ pulls' = IF a.more THEN pulls + 1 ELSE pulls
        /\ opDone' = (opDone \/ ~a.more)
        /\ pc' = IF a.res = "OK" THEN "pull" ELSE "close"

\* One iteration of the do-while loop of handle_results: pull the next
\* instance, emit it (after a separator unless it is the first) when the
\* call succeeded and returned one, and loop while the operation result is
\* success and more results remain.
GetInstance(a) ==
    LET emit == a.call = "OK" /\ a.inst # NULL
    IN  /\ strm' = IF emit
                   THEN (IF count > 0 THEN Append(strm, JSON_SEPARATOR) ELSE strm)
                        \o InstanceJson(a.inst)
                   ELSE strm
        /\ count' = IF emit THEN count + 1 ELSE count
        /\ result' = a.res
        /\ moreRemaining' = a.more
        /\ pulls' = IF a.more THEN pulls + 1 ELSE pulls
        /\ opDone' = (opDone \/ ~a.more)
        /\ pc' = IF a.res = "OK" /\ a.more THEN "pull" ELSE "close"

Pull ==
    /\ pc = "pull"
    /\ \E a \in Answers : GetInstance(a)
    /\ UNCHANGED <<arg, i, enumItems, pos, addSeparator, operation>>

\* Mutant of CloseOperation: the separator flag is set whatever the count
\* (0 <= count for 0 < count).
CloseOperationAlwaysSeparate ==
    /\ pc = "close"
    /\ addSeparator' = (0 <= count)
    /\ operation' = "closed"
    /\ pos' = pos + 1
    /\ pc' = "loop"
    /\ UNCHANGED <<arg, i, enumItems, count, result, moreRemaining, pulls,
                   opDone, strm>>

\* Mutant of CloseOperation: MI_Operation_Close is skipped when the drain
\* loop ended on a provider error.
CloseOperationOnlyOnSuccess ==
    /\ pc = "close"
    /\ addSeparator' = (0 < count)
    /\ operation' = IF result = "OK" THEN "closed" ELSE operation
    /\ pos' = pos + 1
    /\ pc' = "loop"
    /\ UNCHANGED <<arg, i, enumItems, count, result, moreRemaining, pulls,
                   opDone, strm>>

\* Mutant of CloseOperation: the loop increment ++pos is lost, so the same
\* request is enumerated again.
CloseOperationKeepPos ==
    /\ pc = "close"
    /\ addSeparator' = (0 < count)
    /\ operation' = "closed"
    /\ pc' = "loop"
    /\ UNCHANGED <<arg, i, enumItems, pos, count, result, moreRemaining, pulls,
                   opDone, strm>>

\* After handle_results returns its count: remember whether this request
\* emitted anything, close the operation and advance to the next request.
CloseOperation ==
    /\ pc = "close"
    /\ addSeparator' = (0 < count)
    /\ operation' = "closed"
    /\ pos' = pos + 1
    /\ pc' = "loop"
    /\ UNCHANGED <<arg, i, enumItems, count, result, moreRemaining, pulls,
                   opDone, strm>>

Next ==
    \/ Call
    \/ FilterItem
    \/ StartEnumerate
    \/ OpenOperation
    \/ EndEnumerate
    \/ Pull
    \/ CloseOperation

\* The Ruby method runs on one thread and every provider call returns
\* (each operation carries the 90 s timeout set in Connect), so the
\* program's next step is never postponed forever.
Spec == Init /\ [][Next]_vars /\ WF_vars(Next)

-----------------------------------------------------------------------------
(***************************************************************************)
(* Properties                                                              *)
(***************************************************************************)

\* The output stream is a sequence of tokens.
StreamOK == strm \in Seq(Token)

TypeOK ==
    /\ pc \in {"call", "filter", "loop", "pull", "close", "done"}
    /\ arg \in Args
    /\ pc = "filter" => arg \in Seq(ArgEntry)
    /\ i \in Nat \ {0}
    /\ enumItems \in Seq(Requests)
    /\ pos \in Nat \ {0}
    /\ addSeparator \in BOOLEAN
    /\ operation \in {"null", "open", "closed"}
    /\ count \in Nat
    /\ result \in Results
    /\ moreRemaining \in BOOLEAN
    /\ pulls \in 0..MaxPulls
    /\ opDone \in BOOLEAN
    /\ StreamOK

\* A token sequence in which separators and instance objects alternate.
Separated(s) ==
    \A k \in 2..Len(s) :
        /\ s[k] = JSON_SEPARATOR => s[k - 1] \in Instances
        /\ s[k] \in Instances => s[k - 1] \in {JSON_LIST_START, JSON_SEPARATOR}

\* Separators in the JSON array Enumerate writes: a separator only ever
\* follows an instance object, and an instance object only ever follows the
\* list start or a separator.  This is about the interplay of the per-request
\* flag addSeparator in Enumerate with the per-operation count in
\* handle_results across empty, failing and non-empty requests.
SeparatorDiscipline == Separated(strm)

\* Every exit from the drain loop of handle_results, on success or on a
\* provider error, is followed by MI_Operation_Close before the next
\* request's operation is opened or Enumerate returns.
OperationReleased ==
    operation = "open" => pc \in {"pull", "close"}

\* The result of a call is a JSON array of instance objects: "[" then
\* objects separated by single commas, then "]" (spec: one JSON array per
\* enumerate call, comma-separated, no trailing comma).
IsJsonArray(s) ==
    /\ Len(s) >= 2
    /\ s[1] = JSON_LIST_START /\ s[Len(s)] = JSON_LIST_END
    /\ \A k \in 2..Len(s) - 1 :
           IF k % 2 = 0 THEN s[k] \in Instances ELSE s[k] = JSON_SEPARATOR
    /\ Len(s) % 2 = 1 \/ Len(s) = 2

\* For an array argument, enumerate returns such an array, whatever the
\* provider answers: empty, failing and non-empty requests in any order.
ReturnsJsonArray ==
    (pc = "done" /\ arg # NotArray) => IsJsonArray(strm)

\* The list start at place 1 of s, then instance objects at the even places
\* and separators at the odd places up to place n.
Alternates(s, n) ==
    /\ s[1] = JSON_LIST_START
    /\ \A k \in 2..n :
           IF k % 2 = 0 THEN s[k] \in Instances ELSE s[k] = JSON_SEPARATOR

\* What the code does return for an array argument: "[", then instance
\* objects and single commas alternating, then "]".  This is IsJsonArray
\* but for its last conjunct: the array may end in a comma before "]" (the
\* trailing comma of run enumerate_trailing_comma), and it has no other
\* defect, whatever mix of empty, failing and non-empty requests it serves.
ReturnsArrayShape ==
    (pc = "done" /\ arg # NotArray) =>
        /\ Len(strm) >= 2
        /\ strm[Len(strm)] = JSON_LIST_END
        /\ Alternates(strm, Len(strm) - 1)

\* Every call of enumerate returns (handle_results leaves its loop once the
\* provider's final answer has come).
Termination == <>(pc = "done")

-----------------------------------------------------------------------------
(***************************************************************************)
(* Refinement: the call implements OmiEnumerateAbstract.  The requests     *)
(* before pos are closed; the one at pos is open while its MI_Operation    *)
(* is; the objects delivered are the instance tokens of the stream; the    *)
(* argument filter is the abstract accept phase.                           *)
(***************************************************************************)

opsBar == [k \in 1..Len(enumItems) |->
              IF k < pos THEN "closed"
              ELSE IF k = pos /\ operation = "open" THEN "open"
              ELSE "pending"]

\* The members of S in s, in order: SelectSeq(s, LAMBDA t : t \in S) of the
\* standard module Sequences, written out as its recursive function so that
\* the proofs can unfold it.
ObjectsOf(s, S) ==
    LET F[k \in 0..Len(s)] ==
            IF k = 0 THEN << >>
            ELSE IF s[k] \in S THEN Append(F[k - 1], s[k]) ELSE F[k - 1]
    IN  F[Len(s)]

outBar == ObjectsOf(strm, Instances)

phaseBar == IF pc \in {"call", "filter"} THEN "accept"
            ELSE IF pc = "done" THEN "done" ELSE "run"

Abs == INSTANCE OmiEnumerateAbstract
           WITH Objects <- Instances, ops <- opsBar, out <- outBar,
                phase <- phaseBar

\* Enumerate keeps the contract of the Enumeration Driver: the requests of
\* the argument are enumerated in order, one MI_Operation at a time, each
\* closed before the next opens and before the call returns; the instances
\* written come from the open operation; and every call returns.  This is
\* about the loop of Enumerate and the drain loop of handle_results
\* together, over provider answers that fail, end early or carry data.
ImplementsAbstract == Abs!ASpec

-----------------------------------------------------------------------------
(***************************************************************************)
(* Inductive strengthening of SeparatorDiscipline: the last token written  *)
(* is what the next write needs, as recorded by addSeparator between       *)
(* requests and by count inside handle_results.                            *)
(***************************************************************************)

LastToken == strm[Len(strm)]

SeparatorInv ==
    /\ SeparatorDiscipline
    /\ pc \in {"call", "filter"} => strm = <<>> /\ ~addSeparator
    /\ pc \in {"loop", "pull", "close"} => Len(strm) >= 1
    /\ pc = "loop" =>
           IF addSeparator THEN LastToken \in Instances
                           ELSE LastToken \in {JSON_LIST_START, JSON_SEPARATOR}
    /\ pc \in {"pull", "close"} =>
           IF count > 0 THEN LastToken \in Instances
                        ELSE LastToken \in {JSON_LIST_START, JSON_SEPARATOR}

(***************************************************************************)
(* Inductive strengthening of ReturnsArrayShape: while Enumerate writes,   *)
(* the stream alternates up to its end, and the parity of its length       *)
(* records what addSeparator (between requests) and count (inside          *)
(* handle_results) say of its last token.                                  *)
(***************************************************************************)

ShapeInv ==
    /\ pc \in {"call", "filter"} => strm = <<>> /\ ~addSeparator
    /\ pc \in {"loop", "pull", "close"} =>
           /\ Len(strm) >= 1
           /\ Alternates(strm, Len(strm))
    /\ pc = "loop" => (addSeparator <=> Len(strm) % 2 = 0)
    /\ pc \in {"pull", "close"} => (count > 0 <=> Len(strm) % 2 = 0)
    /\ ReturnsArrayShape

-----------------------------------------------------------------------------
(***************************************************************************)
(* Inductive invariant of the refinement: where the call is, what the     *)
(* mapping needs of the other variables.  Before the argument is read no  *)
(* request, no operation and no output exist; inside handle_results the   *)
(* current request exists and its operation is open; between requests    *)
(* no operation is open.                                                  *)
(***************************************************************************)

RefinementInv ==
    /\ pc = "call" => enumItems = << >>
    /\ pc \in {"call", "filter"} =>
           pos = 1 /\ operation = "null" /\ strm = << >>
    /\ pc \in {"pull", "close"} => operation = "open" /\ pos <= Len(enumItems)
    /\ pc = "loop" => operation # "open"

=============================================================================
