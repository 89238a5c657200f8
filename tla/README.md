# Formal models of the OMI Ruby binding (`omi_interface.cpp`)

This directory holds TLA+ models of `src/source/code/plugins/omi_interface.cpp`
and `omi_interface.h`. That code is the C++ Ruby extension `Libomi` that the agent uses
to enumerate OMI (CIM) instances and return them to Ruby as JSON text. It
also holds TLC configurations that check the models on small instances, and
TLAPS proofs of the main invariants for all values of the constants.

## The system

There is one class, `OMIInterface`, and it has three parts:

* **Object lifecycle.** `wrap_OMIInterface_alloc` (`:684-691`) wraps
  `ruby_xmalloc`'d memory, which is not zeroed, and
  `wrap_OMIInterface_init` (`:694-701`) constructs the object there with
  placement new. `OMIInterface.new` runs both, but `allocate`, `dup` and
  `clone` run only the first. `wrap_OMIInterface_free` (`:672-681`) runs
  the destructor on any non-null pointer.
* **Session lifecycle.** The members `m_App`, `m_Session` and `m_Options`
  (`omi_interface.h:32-34`) hold provider handles.
  * The constructor sets them to null (`:549-561`).
  * `Connect` (`:570-604`) calls `MI_Application_Initialize`,
    `MI_Application_NewSession`, `MI_Application_NewOperationOptions` and
    `MI_OperationOptions_SetTimeout` in that order, and calls `Disconnect`
    if any of them fails.
  * `Disconnect` (`:607-619`) deletes or closes the three handles and nulls
    them.
  * The destructor calls `Disconnect`.
* **Enumeration.** `wrap_OMIInterface_enumerate` (`:730-759`) keeps the
  entries of the Ruby argument that are pairs of strings.
  `OMIInterface::Enumerate` (`:622-657`) writes `[`. Then, for each request,
  it:
  1. opens an enumeration operation;
  2. writes `,` if the previous request emitted an instance;
  3. drains the operation with `handle_results` (`:445-472`), which pulls
     instances with `MI_Operation_GetInstance` and writes each one through
     `instance_to_json`;
  4. closes the operation.

  At the end it writes `]`.
* **Encoder.** `instance_to_json`, `value_to_json`, `array_to_json`,
  `string_to_json`, `char_to_json` and the `operator<<` for timestamps and
  intervals (`:53-442`) turn an instance into a JSON object.

Ruby code drives all of this through `Libomi::OMIInterface`:

* `new`, `connect`, `disconnect` and `enumerate`, registered in
  `Init_Libomi`;
* the garbage collector, which calls `wrap_OMIInterface_free` (destructor,
  then `ruby_xfree`).

Every C function runs with the Ruby global VM lock held and never releases
it. So each Ruby call is atomic with respect to other Ruby threads, and an
object is never collected while a call on it is running. The models use
this: a Ruby call is one step, or a sequence of steps that nothing else
interleaves with.

The provider (OMI) is not in this repository. It is modelled as an
environment that answers within the MI contract.

## Modules

| Module | Models | State | Actions |
|---|---|---|---|
| `OmiEnumerate` | one call of `enumerate`: argument filter, `Enumerate`, `handle_results`, what `instance_to_json` contributes | `pc` (program point), `arg`, `i`, `enumItems`, `pos`, `addSeparator`, `operation`, `count`, `result`, `moreRemaining`, provider bookkeeping `pulls`/`opDone`, the output `strm` as a token sequence | `Call`, `FilterItem`, `StartEnumerate`, `OpenOperation`, `Pull` (= one `GetInstance` answer), `CloseOperation`, `EndEnumerate` |
| `OmiSession` | alloc, initialize (constructor), `Connect`, `Disconnect`, free (destructor) | `life` (allocated/live/freed), `field[h]` (member null/open/garbage), `live[h]` (provider objects of kind `h` created and not closed), `connects`, `lastResult`, `indeterminateUse` (a garbage member reached the provider) | `Init` is alloc; `Initialize`, `Connect(f)` for each failure point `f`, `Disconnect`, `Free` |
| `OmiInterface` | one Ruby object used by a program: any order of connect, disconnect, enumerate, GC | `OmiSession` variables, `OmiEnumerate` variables (via `INSTANCE`), `enumerates` | `RubyNew` (initialize of `new`), `RubyConnect`, `RubyDisconnect`, `RubyFree`, `RubyEnumerate`, `EnumerateStep` (one step of the running call; pulls answer from `ProviderAnswers`) |
| `OmiEncoder` | `char_to_json`, `string_to_json`, `array_to_json`, both date/time `operator<<`, `value_to_json`, `instance_to_json` as recursive operators from an instance to the characters written; a reference parser of the spec's output format and a decoder | `inst` (the pulled instance), `out` (characters written), `phase` | `Encode` (the call of `instance_to_json` in `handle_results`) |
| `OmiEnumerateAbstract` | what one `enumerate` call promises: one operation per request, opened in request order and closed before the next; objects delivered only from an open operation; the call returns | `ops[k]` (pending/open/closed), `out` (objects delivered), `phase` | `Accept`, `Start`, `Open(k)`, `Deliver(x)`, `Close(k)`, `Finish` |
| `OmiSessionAbstract` | what the connection of one object promises (spec section 6): connect holds an application, session and options object or, on failure, none; disconnect and free release them; the object is eventually freed | `obj` (allocated/live/freed), `alive` (kinds held), `status` | `New`, `ConnectOK`, `ConnectFailed`, `Disconnect`, `Free` |
| `OmiEnumerateProofs`, `OmiSessionProofs` | TLAPS proofs about `OmiEnumerate` and `OmiSession` | | |
| `OmiEnumerateRefinement` | TLAPS proof that `OmiEnumerate` implements the safety part of `OmiEnumerateAbstract`, with lemmas about the filter `ObjectsOf` | | |
| `OmiSessionRefinement` | TLAPS proof that `OmiSession` implements the safety part of `OmiSessionAbstract` | | |
| `OmiInterfaceProofs` | TLAPS proofs about the composition `OmiInterface` | | |
| `MCOmiEnumerate`, `MCOmiSession`, `MCOmiInterface`, `MCOmiEncoder` | instances for TLC (`MCOmiEncoder` defines the input sets the encoder configs pick from) | | |

### Abstractions

* **Output.** The output stream is a sequence of tokens: `[`, `]`, `,`, and
  one token per instance object. How an object's text is built is modelled
  separately, in `OmiEncoder`.
* **`instance_to_json`.** It is modelled as what it writes: the object, or
  nothing when the class name or element count cannot be read
  (`BadInstances`).
* **Provider answers.** Each `MI_Operation_GetInstance` answer has four
  parts: the call's own result, an instance or `NULL`, the more-results
  flag, and the operation result. An answer is any combination, with two
  limits:
  * results are pending only on success;
  * results are pending at most `MaxPulls` times.

  After the final answer, a completed operation repeats it.
* **Encoder characters.** In `OmiEncoder`, an output character is a token.
  * JSON punctuation, digits, and the letters that follow a backslash are
    single characters.
  * Provider strings use the characters `a` (any character JSON takes as
    it is), `"`, `\`, `/`, the five controls with short escapes, and
    `CTL` (a control character without one).
  * Each constant key (`ClassName`, `MI_Type`, `year`, ...) is one token.
  * An integer is written in decimal, as `operator<<` writes it.
  * A double is written as `%g` with precision 6 writes it, modelled for
    integral values below 2^53, where the double is exact.
  * The recursion into embedded and referenced instances carries a depth.
    Depth 0 stands for the exhausted stack.
* **Null session.** In `OmiInterface`, an operation opened on a null session
  fails at its first pull.
* **Handles.** A handle member is null or open. The provider side is a
  counter per kind, so a handle that is overwritten without being closed
  stays counted: that is a leak.
* **Uninitialised memory.** A member of memory that `ruby_xmalloc`
  returned is `garbage`. Passing it to `MI_OperationOptions_Delete`,
  `MI_Session_Close` or `MI_Application_Close` is undefined behaviour; the
  model records that it happened (`indeterminateUse`) rather than guessing
  its outcome. The constant `CallerAllocates` says whether the Ruby program
  may reach an object that `initialize` never ran on (`allocate`, `dup`,
  `clone`); it also lets `initialize` run again on a live object.
* **Connect failures.** When a provider call of `Connect` fails, it writes
  the null handle to its out-parameter and creates nothing.

### Refinement

`OmiEnumerate` is shown to implement `OmiEnumerateAbstract` through the
`INSTANCE ... WITH` mapping at the end of `OmiEnumerate`:

* `ops[k]` is `closed` for the requests before `pos`. It is `open` for `pos`
  while `operation` is open, and `pending` otherwise.
* `out` is the instance tokens of the stream, in order, without the
  punctuation: `ObjectsOf(strm, Instances)`. `ObjectsOf` is
  `SelectSeq(s, LAMBDA t : t \in S)` written out as the recursive function
  that defines it, because the prover treats `SelectSeq` as an opaque
  symbol and could not reason about the mapping otherwise.
* `phase` is `accept` while the argument is read (`call`, `filter`), `done`
  once the call returns, and `run` in between.

`ImplementsAbstract` (the abstract spec, with its weak fairness on
progress) is a `PROPERTY` of `enumerate_pass`. It fails, for example, if
closing an operation did not advance to the next request (the mutant
`CloseOperationKeepPos`). Its safety part is proved for all constants (theorem
`Refinement`, below); its fairness part is checked by TLC only.

`OmiSession` is shown to implement `OmiSessionAbstract` through the mapping
`SAbs` at the end of `OmiSession`:

* `obj` is `life`;
* `alive` is `aliveBar`, the kinds `h` with `live[h] > 0`;
* `status` is `lastResult`.

`ImplementsSessionAbstract` (`SAbs!ASpec`, with weak fairness on
construction and on freeing) is a `PROPERTY` of `interface_pass`. A failed
connect maps to `ConnectFailed` only because of its teardown, and a
successful one to `ConnectOK` only because every provider call's result
reaches the check before `Disconnect`. So the property fails for the
mutant `ConnectShadowedResult`, where the later calls of `Connect` assign
a `result` declared in an inner block: a failure of `NewSession` is then
reported as success while only the application is alive. It also fails
with `CallerReconnects`, where a second connect keeps the leaked objects
alive. Its safety part is proved (theorem `SessionRefinement`); its
fairness part is checked by TLC only.

## Runs

| Run | Config | Expect | Shows |
|---|---|---|---|
| `enumerate_pass` | `MCOmiEnumerate.cfg` | pass (34,232 states) | `TypeOK`, `SeparatorDiscipline` (separators and objects alternate at every point of the stream), `OperationReleased` (an operation is closed on every exit of the drain loop before the next opens), `ReturnsArrayShape` (a returned array is `[`, objects and single commas alternating, `]`: all of `ReturnsJsonArray` but the ban on a trailing comma), `Termination`, `ImplementsAbstract` (the call implements `OmiEnumerateAbstract`) |
| `enumerate_trailing_comma` | `MCOmiEnumerate_TrailingComma.cfg` | violation of `ReturnsJsonArray` | a request with an instance, then one with none, gives `[A,]` |
| `enumerate_bad_metadata` | `MCOmiEnumerate_BadMetadata.cfg` | violation of `SeparatorDiscipline` | an unreadable instance is skipped but counted: `[,A` |
| `interface_pass` | `MCOmiInterface.cfg` | pass (9,140 states) | `NoLeak` (each live provider object is held by its member), `FailedConnectHoldsNothing`, `DisconnectedEnumerateEmpty` (enumerate without a session returns `[]`), `FreedReleasesAll`, `ImplementsSessionAbstract` (the handle lifecycle implements `OmiSessionAbstract`) |
| `encoder_pass` | `MCOmiEncoder.cfg` | pass (720,804 states) | `OutputIsJson` (the text parses as the spec's JSON format) and `RoundTrip` (decoding it gives the class name and exactly the non-null elements in order, strings unescaped to themselves, numbers read back to their values) for every instance of up to two elements of boolean, integer, real, string, timestamp and string/integer array types |
| `encoder_interval` | `MCOmiEncoder_Interval.cfg` | violation of `OutputIsJson` | the interval object ends in `,` and is never closed |
| `encoder_embedded` | `MCOmiEncoder_Embedded.cfg` | violation of `OutputIsJson` | an embedded instance is written inside string quotes |
| `encoder_class_quote` | `MCOmiEncoder_ClassQuote.cfg` | violation of `OutputIsJson` | the class name is not escaped |
| `encoder_real` | `MCOmiEncoder_Real.cfg` | violation of `RoundTrip` | `1234567` is written `1.23457e+06` |
| `encoder_cycle` | `MCOmiEncoder_Cycle.cfg` | violation of `NoOverflow` | a self-referencing instance recurses until the stack is exhausted |
| `session_reconnect` | `MCOmiSession_Reconnect.cfg` | violation of `NoLeak` | connect on a connected object overwrites the members without closing them: in the trace the second connect fails at `MI_Application_Initialize`, nulling `m_App`, and its teardown closes the old session and options but leaks the old application |
| `session_allocate` | `MCOmiSession_Allocate.cfg` | violation of `NoIndeterminateHandle` | an allocated, never initialised object passes garbage handles to `MI_OperationOptions_Delete` on disconnect (or on free) |

**Bounds.**

* `enumerate_pass` uses arguments of up to 3 entries (well-formed or
  malformed), 2 instances, and up to 2 pending answers per operation. This
  covers the cases the separator logic tells apart:
  * an empty request after a non-empty one, and the reverse;
  * a failure in the middle of a drain after an instance;
  * a final answer that carries an instance;
  * three requests, so that a separator decision follows another one.
* `interface_pass` uses 3 connects, which is enough for a successful
  connect, a disconnect, and a failing connect after it. It uses 2
  enumerate calls of up to 2 requests, so that a call runs both with and
  without a session.
* The encoder runs enumerate every instance of up to two elements over
  their input sets. Those sets are:
  * names with a backslash;
  * strings holding each of the eight escaped characters;
  * the extreme values of 8- and 32-bit integers;
  * reals on both sides of 10^6;
  * arrays of length 0 to 2, so that array separators and empty arrays
    occur;
  * elements that are null or whose `GetElementAt` fails, placed before
    and after readable ones.

  Each violation config restricts the inputs to the one feature it is
  about, so that its trace shows that cause and no other.

**Fairness.**

* `OmiEnumerate` assumes weak fairness on its whole next-state relation.
  The call runs on one thread and every provider call returns, because
  `Connect` sets a 90 s timeout on every operation.
* `OmiInterface` puts fairness only on the steps of a running call and on
  the garbage collector. The Ruby caller is never obliged to call anything.

**Deadlock.** Deadlock checking is off in these runs because the final
states are real:

* a returned `enumerate` call;
* a freed object, on which nothing can be called.

## Findings

* **Trailing comma** (`:648`). The separator is written before the request
  is drained, so an empty request after a non-empty one ends the array with
  `,]`.
* **Bad metadata** (`:467` vs `:416`). `handle_results` counts an instance,
  and writes separators for it, even when `instance_to_json` wrote nothing.
* **Not-array argument** (`:758`). The call returns `""`, where the spec
  says every call returns a JSON array. This is a single, directly testable
  branch, so it is noted here and not kept as a run; `OmiEnumerate` models
  it (`arg = NotArray`).
* **Interval** (`:250`). The interval object is never closed: spec 4.3
  gives the interval form ending in `}`.
* **Embedded instances** (`:270`). They are written as `"{...}"`. This
  matches spec 4.2, but spec 3 and spec 6 require valid JSON with nested
  objects.
* **Class name** (`:422`). It is written without `string_to_json`, while
  element names are escaped.
* **Other control characters** (`:107`). They pass through raw. This is
  what spec 4.1 says, and it contradicts the valid-JSON requirement of
  spec 3. No run keeps this case. Adding `CTL` to the strings of
  `MCOmiEncoder.cfg` makes `OutputIsJson` fail in the same way.
* **Doubles** (`:306`). They keep six significant digits, so the round
  trip required by spec 8 fails.
* **Cycles** (`:325`). There is no cycle or depth guard on the recursion.
* **Allocate without initialize** (`:679`, `:688`). `allocate`, `dup` and
  `clone` give an object whose members are whatever `ruby_xmalloc` left.
  Its `disconnect`, a failing `connect`, or the collector's free function
  passes them to the provider: undefined behaviour. `new` runs the
  constructor before any other method can be called, so it never does
  this; that is the constructor's null assignment, and no run or theorem
  restates it.
* **Reconnect** (`:577`). `Connect` does not close handles a previous
  connect left open. The trace of `session_reconnect` is the shortest
  one: the second connect fails at its first call, which writes null over
  `m_App`, so the teardown closes the old session and options and only
  the old application leaks. A second connect that succeeds leaks all
  three.

## Proofs

`OmiEnumerateProofs` proves, for all values of the constants under
`BoundsAssumption` and `ValuesAssumption`:

* **`TypeCorrect`**: `Spec => []TypeOK`. This `TypeOK` is the inductive
  invariant. The stream's type is wrapped in the definition `StreamOK`, so
  that the arithmetic part (SMT) and the sequence part (the
  `SequenceTheorems` lemmas `AppendProperties` and `ConcatProperties`) are
  proved separately and then combined with Zenon.
* **`OperationSafety`**: `Spec => []OperationReleased`. `TypeOK` is enough
  as the invariant to induct on; the proof has one step per action.
* **`SeparatorSafety`**: `BadInstances = {} => (Spec => []SeparatorDiscipline)`.
  * `SeparatorDiscipline` alone is not inductive: the separator decisions
    depend on state that the stream property does not mention.
  * The strengthening `SeparatorInv` records that state. Between requests,
    the last token is an object exactly when `addSeparator` holds. Inside
    `handle_results`, it is an object exactly when `count > 0`. Before
    `Enumerate` starts, the stream is empty.
  * Lemma `AppendSeparated` shows that appending a token keeps
    `Separated(s)` if the token fits after the last one.
  * The hypothesis `BadInstances = {}` is necessary:
    `enumerate_bad_metadata` shows the property fails without it.
  * `SeparatorInv` was checked with TLC on `MCOmiEnumerate` before it was
    proved.

* **`ShapeSafety`**: `BadInstances = {} => (Spec => []ReturnsArrayShape)`.
  Its inductive invariant `ShapeInv` (in `OmiEnumerate`, checked by TLC
  before it was proved) says that while `Enumerate` writes, the stream
  alternates up to its end (`Alternates(strm, Len(strm))`), and that the
  parity of its length is what `addSeparator` (between requests) and
  `count > 0` (inside `handle_results`) say of its last token. Lemma
  `AlternatesAppend` shows that an append keeps the old places and extends
  the alternation when the token fits the parity of its place. Together
  with `enumerate_trailing_comma` this pins the defect down: the trailing
  comma is the only way a returned array fails to be JSON.
* `TypeCorrect` is split into `TypeInit` and `TypeStep`, so that the
  composition can reuse the step lemma through an `INSTANCE`.

`OmiEnumerateRefinement` proves **`Refinement`**:
`Spec => Abs!AInit /\ [][Abs!ANext]_Abs!avars`, the safety part of
`ImplementsAbstract`, for all values of the constants.

* `InitRefines`: the initial state maps to an initial abstract state.
* `StepRefines`: under `TypeOK` and `RefinementInv`, each step maps to one
  abstract step or a stutter. `Call` maps to `Finish` when the argument is
  not an array; `FilterItem` to `Accept`; `StartEnumerate` to `Start`;
  `OpenOperation` to `Open(pos)`; `Pull` to `Deliver(x)` when it writes
  object `x`, and to a stutter otherwise; `CloseOperation` to `Close(pos)`;
  `EndEnumerate` to `Finish`.
* `RefinementInv` (in `OmiEnumerate`, checked by TLC first) is the
  invariant the mapping needs. Before the argument is read there are no
  requests, no operation and no output. Inside `handle_results` the
  current request exists and its operation is open. Between requests no
  operation is open.
* The lemmas about `ObjectsOf` are `ObjectsOfEmpty` and `ObjectsOfAppend`
  (appending a token appends it to the objects when it is one, and
  changes nothing otherwise). The recursive function's existence
  (`SelExists`) is shown by a least-counterexample argument built on
  `WFMin` and `NatLessThanWellFounded` of `WellFoundedInduction`
  (lemma `NatMin`), since the library's induction rules take an operator
  parameter the provers cannot instantiate.

`OmiSessionProofs` proves, for every `MaxConnects`, and under the
hypotheses `~CallerReconnects` (the caller connects only an object whose
members are all null) and `~CallerAllocates` (objects are made by `new`):

* **`NoLeakSafety`**: `Spec => []NoLeak`.
* **`FailedConnectSafety`**: `Spec => []FailedConnectHoldsNothing`.

Neither property is inductive alone, for two reasons:

* A `Disconnect` after a failed `Connect` keeps `NoLeak` only if the
  counters are zero.
* A `Connect` keeps `NoLeak` only if the counters start at zero.

* The step lemmas need to know that the members are garbage exactly
  while the object is still only allocated (`LifeInv`): `initialize` then
  replaces all of them with nulls, and every later step writes only nulls
  or open handles.

So the theorems rest on the inductive invariant
`SessionInv == TypeOK /\ NoLeak /\ FailedConnectHoldsNothing /\ LifeInv`,
which has one lemma per kind of step:

* **`InitializeInv`**, for `initialize` on freshly allocated memory.

* **`ConnectInv`**, for each failure point. It splits on success and
  failure.
* **`TeardownInv`**, for `Disconnect` and the destructor.
* **`StutterInv`**, for a stuttering step.

Two helper lemmas do the work of the first two:

* **`NullFieldsNothingAlive`**: the reconnect guard leaves every counter at
  zero.
* **`DisconnectClosesAll`**: `DisconnectFields` on counters that agree with
  the fields gives zero.

The hypotheses are needed: `session_reconnect` shows `NoLeak` failing
without the first, and `session_allocate` shows `NoIndeterminateHandle`
failing without the second.

**`SessionTypeCorrect`**: `Spec => []TypeOK` holds with no hypothesis, for
every caller and every `MaxConnects`. A reconnect overwrites open members
and leaks their objects, so the counters `live[h]` are not bounded by
the fields. `TypeOK` alone is therefore not inductive: it says
`live[h] \in 0..MaxConnects`, and the step that closes a member needs
`live[h] >= 1` to stay in `Nat`. The inductive invariant `CountInv` adds
two facts:

* an open member has a live object, so `live[h] >= 1`;
* no counter exceeds `connects`, since each connect adds at most one per
  kind, and `connects <= MaxConnects` bounds it.

There is one lemma per action (`InitializeCount`, `ConnectCount`,
`TeardownCount`), and `DisconnectFieldsBounded` for the closing helper.
TLC checked `CountInv` as an invariant with `MaxConnects = 3` and both
caller flags `TRUE` before it was proved.

`OmiSessionRefinement` proves **`SessionRefinement`**:
`~CallerReconnects /\ ~CallerAllocates => (Spec => SAbs!AInit /\ [][SAbs!ANext]_SAbs!avars)`.
Each step is matched with `SessionInv` of both its states (`NextInv`
gives the second), by lemma `SessionStepRefines`:

* `Initialize` is `New`, since `live` and so `aliveBar` are unchanged.
* A successful `Connect` is `ConnectOK`. All three members are open
  afterwards, so `NoLeak` of the new state gives `live[h] = 1` for each.
* A failed `Connect` is `ConnectFailed`, by `FailedConnectHoldsNothing` of
  the new state.
* `Disconnect` and `Free` null every member, so `NoLeak` of the new state
  gives every counter zero: these are `Disconnect` and `Free`.
* `ReachableLive` excludes the steps of an allocated or freed object.

`OmiInterfaceProofs` proves, about the composition, for all values of the
constants:

* **`DisconnectedEnumerateSafety`**: `IfaceSpec => DisconnectedEnumerateEmpty`,
  an action property. Its invariant `NullSessionInv` says that before the
  argument is read the stream is empty with no separator pending, and that
  while the session handle is null the stream inside `Enumerate` is just
  `[` with no separator pending and, inside `handle_results`, a zero count:
  every pull on the null session fails before it writes. The step that
  returns then writes `]` after `[` (lemma `NullSessionEnd`).
* **`IfaceSessionSafety`**: under `~CallerReconnects`, `NoLeak` and
  `FailedConnectHoldsNothing` hold of the composition.
* `IfaceTypeCorrect`, `IfaceSpec => []IfaceTypeOK` for every caller, is
  proved as a by-product of `IfaceCountInv == CountInv /\ CallInv` (lemma
  `IfaceStepCount`). `IfaceTypeOK` is not a property of any run: its
  enumerate half is `TypeOK` of `enumerate_pass`, and its session half
  follows from `NoLeak` and the guards.

`IfaceSessionSafety` rests on `IfaceInv == SessionInv /\ CallInv`, where
`CallInv == E!TypeOK /\ enumerates \in 0..MaxEnumerates`.

* Every step of the composition is a session step or leaves the session
  variables alone (`SessionSteps`), so `NextInv` of `OmiSessionProofs`
  carries `SessionInv` over.
* Every step but the start of a call is an `OmiEnumerate` step or leaves
  the call alone (`EnumerateSteps`). A pull answered by the session is a
  `Pull`, because `ProviderAnswers` is a subset of `Answers`
  (`EnumerateStepIsNext`).
* `TypeStep` of `OmiEnumerateProofs` is used through
  `EP == INSTANCE OmiEnumerateProofs`. Its definitions are linked to those
  of the composition's instance `E` by expanding both.
* Using an instanced lemma needs the instanced module's assumptions. So
  `OmiInterface` assumes `EnumerateAssumption`, that its constants satisfy
  `BoundsAssumption` and `ValuesAssumption` of `OmiEnumerate`. TLC
  evaluates it on every `interface_pass` run.
* `CallerAllocates = FALSE` is `OmiInterface`'s `NewObjectsAssumption`, so
  it needs no hypothesis.

TLC only, and not proved:

* liveness (`Termination`, `FreedReleasesAll`), which is outside TLAPS's
  reach here;
* the fairness part of `ImplementsAbstract` (every call eventually
  finishes, every open operation is eventually closed) and of
  `ImplementsSessionAbstract` (the object is eventually freed), which need
  `ENABLED` and liveness reasoning;
* `FreedReleasesAll` of the composition, a liveness property;
* the encoder. `OmiEncoder` is written with RECURSIVE operators, which
  the prover's SMT backend cannot use. What a recursive definition
  computes for every input is, in any case, induction over data, which
  the installed provers cannot do. Its properties are checked by TLC over
  the bounded input sets above.

## Not modelled (yet)

* **`MI_REAL32`.** Float rounding comes before the `%g` formatting, so
  it would need a model of binary32. `MI_REAL64` is modelled.
* **Non-integral doubles.** They are not modelled.
* **Unrecognised type tags.** `value_to_json` writes `""` for them, but
  every MI type tag has a case, so they do not occur.
* **`to_s` and `inspect`.** They change no state.

## Plan

1. Compose the encoder with the enumerate stream, so that `ReturnsJsonArray`
   is stated over characters.
