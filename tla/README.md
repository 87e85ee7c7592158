# Verification of the THGensouEclipse open-module SDK

TLA+ models of the guest-side SDK (`include/`), the modules that use it
(`Modules/`, `example/`) and the build tools (`CMakeLists.txt`, `tools/sign.py`),
checked with TLC, and theorems about them checked with TLAPS.  `PROJECT.json`
holds the lists this text refers to: components, runs, mutants, the map from
definitions to source lines, findings, hazards and theorems.

## 1. The system

A *module* is a C++ program compiled to WebAssembly and loaded by the kernel host
(not in this repository).  It is single threaded, has one stack and one heap, and
no exceptions: whatever would throw traps and unwinds activations of the instance,
while its memory stays as it is.

| Part | State | Operations | Correct when |
|------|-------|------------|--------------|
| `kmod::Runtime` and the registering wrappers, `include/kmod.hpp` | seven vectors of closures, `ret_`, `mod_` | `add_*`, `dispatch`, `info_packed`, `on_load`, `on_unload`; `listen`, `reply`, `register_*`, `schedule_*` | a token leads to its closure for good; a packed reply is the answer of its own activation; a closure survives its own execution |
| other wrappers of `kmod.hpp`, `include/ui.hpp` | `opened_` of a `ScreenScope` | one syscall each, and the two ends of a scope | a scope closes the screen it opened, and no other |
| `include/hostcall.hpp` | the result buffer the host allocates in guest memory | `host::call`, `host::notify` | every buffer is freed, by the call it answers |
| `include/proto/codec.hpp`, codec | the positions of nested `decode` calls | `encode`, `decode`, `skip_field`, varints | decode ∘ encode gives the elements back in the types of their fields; what comes out follows the schema; malformed input is rejected without reading outside, in time linear in its length |
| `include/proto/codec.hpp`, framing | none | `grpc_frame`, `grpc_unframe` | a frame is accepted exactly when it is whole |
| `include/Module.hpp`, `include/ModInfo.hpp` | none: the metadata is constant | the two hooks; permission names, flags, the packed record | - |
| `CMakeLists.txt` `add_kmod`, `tools/sign.py` | files and time stamps | compile, AOT-compile, sign in place, touch | make rests only where the final file is current, whole and signed |
| `example/HelloWorld.cpp` | `verbose_`, and its copy in the host's store | hooks, a tool, a listener, a setter | the setting a user made survives everything |
| `Modules/EmergencyMenu.cpp` | the list of tools of the present round | the loop of `on_load` | what runs is what the user picked; the menu comes back |
| `Modules/DevTester.cpp`, `Testerv2.cpp` | `g_rows` and three globals shared with listeners | a sweep over all syscalls | the report is about this sweep and not better than it was |
| `.github/workflows/build.yml` | none | a fixed sequence | - |

How they interact: module code calls a wrapper; the wrapper stores a closure in
the runtime and makes a *syscall* through `host::call`; before the syscall
returns, the host may call an exported function of the *same* instance (an
`emit` runs listeners, a `request` a responder, `tools.invoke` a tool; a
scheduler thread may fire a task).  So bodies nest to any depth on one stack and
share the tables and the one reply buffer.  Answers go back as an offset and a
length of `ret_`, which the host copies.

What is hard here: re-entrancy (shared `ret_`, growth of vectors that hold
running closures, tokens used before their registration returns), what a module
keeps twice (a setting in memory and in the host's store, a list shown and a list
invoked), traps that run no destructors, integer widths
in the codec (10-byte varints, `size_t` and `uint32_t` arithmetic, narrowing of
field numbers), nested slices, and the in-place rewriting of build outputs that
other rules depend on.  `PROJECT.json` lists the hazards at their lines.

## 2. Modules

| Module | Models | Composes / abstracts |
|--------|--------|----------------------|
| `ModRuntime` | `class Runtime`, the registering wrappers, `MOD_REGISTER` | host actions as the environment |
| `CallbackService` | the promise of the docs: (kind, token) is bound for good, calls nest, each call receives its own answer | abstract specification |
| `MCModRuntime` | profiles of module code; the refinement `ImplementsCallbackService` | ModRuntime => CallbackService |
| `ModRuntimeProofs` | theorems about ModRuntime | |
| `ImplementsProofs` | ModRuntime implements CallbackService | MCModRuntime, ModRuntimeProofs |
| `HelloWorld` | `example/HelloWorld.cpp`, with restarts and crashes | host and user as the environment |
| `HelloWorldProofs` | the setting lasts, bodies go forward | |
| `ToolMenu` | `on_load` of `EmergencyMenu.cpp` | host and user as the environment |
| `HostCall` | `host::call` and `ScreenScope`, in any module code | host as the environment |
| `Session` | the menu beside HelloWorld or any other module; the host's record of tools and `tools.invoke` | HelloWorld + ToolMenu + HostCall |
| `MCSession` | where the host enters HelloWorld | Session |
| `SessionProofs` | theorems about ToolMenu, HostCall and Session | |
| `WireSchema` | `schema_t`, and the integers of encoder and decoder | |
| `FloatingPoint` | the casts between double, float and integer, on memory images | pure, for TLC |
| `WireDecode` | `read_varint`, `skip_field`, `decode` | WireSchema |
| `MCWireDecode` | all short inputs over an alphabet of tags | |
| `WireDecodeProofs` | theorems about WireDecode | |
| `WireEncode` | `write_varint`, `write_tag`, `encode_value`, `encode` | WireSchema; recursive functions |
| `GrpcFrame` | `grpc_frame`, `grpc_unframe` and the big-endian words | pure |
| `MCGrpcFrame` | `grpc_unframe` on all short strings | |
| `WireRoundTrip` | decode on what encode wrote, carried in a frame | WireDecode + WireEncode + GrpcFrame |
| `MCWireRoundTrip` | a schema and messages that fit it | WireRoundTrip |
| `WireRoundTripProofs` | decode undoes encode; the framing, and what it accepts | WireRoundTrip, WireDecodeProofs |
| `SignBuild` | the make rules of `add_kmod` and `sign.py` | |
| `SignBuildProofs` | theorems about SignBuild | |
| `SelfTest` | DevTester's sweep, its listeners and shared globals | host and other modules as the environment |
| `SelfTestProofs` | theorems about SelfTest | |

### ModRuntime

`table` is the seven vectors, `ret` the string `ret_`, `made` whether `mod_` is
set.  `stack` is the wasm stack: one frame per active hook or closure, which is
running (`"body"`), waiting in a syscall (`"syscall"`) or has packed an answer
that the host has not copied yet (`"reply"`).  Actions of the code: `HostInfo`,
`EnterOnLoad`, `EnterOnUnload` and `Dispatch` (the exports); `RegisterTool` ...
`ScheduleRetry` (push the closure, then the syscall announcing the token, one
action up to the syscall); `Syscall` (every other wrapper); `ReturnPacked`,
`Return` and `Trap` (which takes the running activation and any number below it,
as far as the host gives up the calls that entered them).  Actions of the host:
`HostRecords` (it takes an announced token), `HostReturns`, `HostCopies`.

`Moved` models what `std::vector` growth does to a running `std::function`:
captures that the function stores in itself (constant `Inline`) are moved with
the element, and the running body goes on with the old, freed ones.  `Full` is
libc++'s doubling.  `add_cfg` receives lambdas that hold a whole `std::function`,
too large to be stored in place: `Boxed`.

Assumptions about the host: it serialises its calls into an instance (the wasm
instance has one stack; "callbacks fire on the host scheduler thread", docs/en.md,
is read as one of the serialised callers), it copies a packed reply before it
enters again, and it dispatches only tokens it was given.  It is *not* assumed to
forget tokens at cancel, unreply or unload, nor to accept what it is told.

### HelloWorld

`hello` is the stack of its activations, each waiting in a verb; an action is the
code from the return of one syscall to the next one, so everything else can
happen exactly where the code lets it: the host serves the verb (`HostServes`),
enters the instance again in the verbs of `Reentrant`, or loses it (`Crash`).
`verbose` is `verbose_`, `stored` the entry of the host's store, which outlives
the instance.  `Load` runs the member initializers; `OnLoadReads` is the
`conf_get` at the end of `on_load`, after the setter was registered;
`EnterSetter` runs the setter up to its `conf_set`: the memory first, then the
store.  `wishes` is history: the values a user may expect, the last one whose
setter returned and those of setters that have started since.

Assumption: the host answers `cfg.get` and `cfg.set` by itself, without entering
the instance (they are lookups in its own store).  `SettingLasts` needs it: a
setter that ran inside another one's `cfg.set` could be stored first and shown
last.

### ToolMenu

`at` is the syscall the loop is in; `tools`, `shown` and `sel` are the locals of
one round.  `TakeList` and `Offer` make the options, or trap: `value()` of an
entry that is no object aborts.  `Pick` and `Cancelled` are the answers of
`choice`; `Leaves` is the test behind it.  `picked` is history: what the user
saw at the place he chose.  The narrowing of the answer of `choice` to `int` is
left out: the host answers the index of an option or -1.

### HostCall

`guest` is the stack of activations of arbitrary module code; each has its open
scopes.  `heap` holds the results by their offset, as the host allocates them
through the module's `malloc`; `TakeResult` is `call()` from the host's return
to its own: the early return for no offset or no length, the parse, `host_free`.
`OpenScope` and `EndScope` are the two ends of a `ScreenScope`.  `TrapGuest`
takes activations without their destructors; `lost` counts the screens that
leaves open.  Assumptions: the host opens a screen exactly when it answers
true, and `screen.close`, which names no screen, closes the module's newest one.
A result with an offset and length 0 is never freed by the code; `NothingLeaks`
states that this is the only leak.

### Session

`MenuStep`, `HelloStep` and `GuestStep` are the steps of the components.
`StartsCall` is `tools.invoke` reaching the module beside the menu, whose tool
then is an activation on *that* module's stack, at place `call`; `CallEndsWith`
follows the stack, which may be cut back by a return, an unload, a crash or a
trap.  `Lists` is what the host knows: the module's tool as long as the module
has it, and others that come and go.  What the menu promises is
`PickedIsInvoked`; `call` only serves `CallEnds`.  Modules share nothing with each other but
this record, so the module beside the menu is chosen in `Init`: HelloWorld, or
any code that uses the SDK.  Assumption: a list names each tool once.

### WireDecode

A frame of `stack` is an activation of `decode` on a range `lo..hi` of the input
(the code copies the sub-message; positions here count bytes of the whole input).
`pc` names the next statement; each byte of a varint is a step.  Widths are
constants: `MaxGroups` (10 in the code), `Modulus` (2^64), `IntModulus`,
`SizeModulus` (2^32).  `weight` is `2^shift`, so a shift by the width of the
accumulator is a `weight` of `Modulus` (`ShiftDefined`).  `ScalarValue` is
`v != 0` in a bool field and the cast to `int64_t` (`Signed`) in any other;
`FixedValue` is the eight bytes of a double, or four widened to one (`Widen`).  A
double or float is its memory image, which `memcpy` moves as it is.  A fixed-width read beyond the end is recorded in `over`
and yields no value; `PROTO_FAIL` is `pc = "abort"`.  That a repeated field
becomes an array is abstracted: `objs` keeps the elements in order.

### WireEncode, GrpcFrame, WireRoundTrip

Operators and recursive functions.  A message is a pair of its type and a function
from the fields it has to their elements; `Values` are all messages, those inside
others included, and `Depth`, which grows from a message to the one around it, says
that JSON is a finite tree.  `Encode` and `Elements` are functions on `Values`.
A number is what `is_number_integer()` says and the integer or the double itself;
`AsDouble` and `AsInt64` are `get<double>()` and the two ways to an `int64_t`, and
`EncodeValue` makes the casts of the code: to `float` (`Narrow`), to `int64_t`
(`Truncate`), to `uint64_t` (`TwosComplement`).  The casts between number formats are
constant operators: TLC runs with those of `FloatingPoint` (IEEE 754, rounding
to the nearest, for zero and for numbers of moderate size), the proofs hold for any.
An input is JSON that the code takes (`IsElement`): a primitive field takes a
string, a bool or a number, as its type says, and the JSON library aborts on
anything else; a double beyond `int64_t` in an integer field is undefined behaviour
and no input either.  A message field takes any JSON: for what is no object
`contains()` is false, and an empty sub-message is written.
`WireRoundTrip` puts encoder, frame and decoder together: the decoder's inputs are
what `grpc_unframe` makes of the frames around the encodings.
`Elements` says what of a value comes back: each element as its field holds it
(`Image`).  Lost are that a field was an array (an empty one is absent, one of one
element is a scalar, which the schema documentation, "Arrays encode as repeated
fields.", leaves open), the fraction of a number in an integer field, what a float
cannot hold, whether a number in a double field was an integer, the upper half of
`uint64_t`, which comes back negative, and what stood for an object.  `Base` is 256 in the code.

### SignBuild

A file is a sequence of segments: code, and signatures, each perhaps cut off.
`stale` is what make would rebuild, so time stamps are only compared.  One build
or one `sign.py` runs at a time, and their steps interleave with edits and with
an interrupt at any point.  `sign.py` is `Read`, `Truncate`, `WriteBody`,
`WriteSignature`, and `WriteFails` for an exception in between.  Abstractions:
the compiler's output appears in one piece (an edit while the compiler runs,
which make cannot notice, is left out); a segment that was cut off misses more
than the signatures written behind it later; signatures are of contents, no key
arithmetic; only the branch of `add_kmod` with a key and Python is modelled.

### SelfTest

`rows`, `fired`, `data`, `depth` are `g_rows`, `g_event_fired`, `g_event_data`,
`g_recur_depth` of `DevTester.cpp`; `sweep` is the activation of `run_full_test`
with its locals, `chain` the activations of the recur listener above it, `tasks`
what the host's scheduler holds.  Each action is the code from the return of one
syscall to the next syscall, so whatever is on the stack is in a syscall between
actions, and there other modules' events can run the listeners.  `Ask` and
`Probe` stand for all checks whose outcome only the host decides.  The fields
`of`, `checks`, `heard` and `refused` are history, for the properties.
Assumptions: an emitted event is delivered inside its emit, or dropped, or comes
late (then it is like another module's); sweeps do not nest, since the host
starts a tool when no other body of the module runs.  With nested sweeps the inner
`g_rows.clear()` would take the outer one's rows.

## 3. Runs

| Run | Shows | Bounds |
|-----|-------|--------|
| `runtime_any` | tokens, replies, types and the refinement, for modules that register anything from anywhere | 2 closures, 2 answers, 2 registrations, 3 nested entries, symmetric in closures and answers |
| `runtime_shipped` | no running closure is moved in the shipped modules | 3 registrations, 3 nested entries, one inline and one heap-stored closure |
| `runtime_rearm` | *violation*: a task that schedules a task moves itself | 2 registrations |
| `decode` | types, nesting of slices, no shift by the width, exact length checks, at most eight bytes of overrun and nothing read out there; every byte once, every step progress, so termination; results only grow and follow the schema | all inputs of up to 4 bytes over 15 bytes that form every wire type for known, unknown and wrapping field numbers |
| `decode_overread` | *violation*: a cut-off fixed-width field is read beyond the end | as `decode` |
| `wire_roundtrip` | decode after encode (and frame, unframe) returns every element in the type of its field | 2 mutually nested message types with all five primitive types, three levels; the least, the greatest, negative and multi-byte integers and the greatest `uint64_t` (of 13 bits); 1.0, 0.1 and -3.7 and integers in integer, double and float fields; arrays of 0, 1 and 2; no object under a message field |
| `grpc_unframe` | *violation*: a length near 2^32 is accepted and the body cut short | base 2, strings of up to 8 digits |
| `sign` | signatures match, one signature, make rests only at signed and current files | 2 edits, files of up to 2 segments are signed again (3 after it) |
| `sign_interrupted` | *violation*: make signs and stamps what an interrupted `sign.py` left | as `sign` |
| `selftest` | the rows are this sweep's, green is earned, nested events end, no task is left behind | 2 tasks (5 in the code) and the 2 extreme ones, 2 sweeps, 1 foreign event at any point |
| `selftest_green` | *violation*: "ALL GREEN" although a cancellation was refused | as `selftest` |
| `session` | the setting survives restarts and crashes; the menu runs what was picked; the call of a tool comes back; no body is sent back by what interrupts it; no result leaks; scopes close their own screens | HelloWorld: 2 nested activations, 2 settings, entered again in `cfgreg.bool`, `evt.emit`, `ui.choice`; 2 tools; any module: 2 nested activations with 2 scopes each, 1 offset, 2 screens |

Why the bounds are enough: the second registration already finds a full vector
and shares tables with the first; three levels have a frame with one below and
one above it.  Two groups per varint have a first, a last and an excess byte; an
input of four bytes has a sub-message with a field in it and something behind it.
A varint overflow, wrapping field numbers and wrapping lengths are within reach
because the widths are scaled with `MaxGroups`.  Three segments are a code and
two signatures, the case that signing twice must avoid.  Two sweeps let the first
one trap anywhere and leave rows, globals and tasks to the second; one foreign
event is enough to change each global between its reset and its use.  In
`session` the three re-entrant verbs are one in the window between registration
and read of the setting, one after the read, and one in which a user is waiting;
two settings are a value to keep and one that is interrupted; two activations of a
module are one that waits and one above it, two scopes an inner and an outer one;
one offset makes any result that was not freed visible at once, since the next
answer needs the place.

`runtime_shipped` uses what the repository's own modules do: `on_load` registers
listeners, responders, tools and config entries; a tool (DevTester's sweep) adds
config entries, tasks and retries; tools, listeners and setters make syscalls.

Deadlock is checked in the runs of the runtime, of the build and of the session.  The decoder and
`grpc_unframe` stop when they have returned or aborted, and `SelfTest` when no
sweep is started and no event comes any more, so their runs turn the deadlock
check off.

Fairness: `WireDecode` assumes weak fairness of `Next`: `decode` is a sequential
function that waits for nothing.  `Session` assumes, for `CallEnds`, strong
fairness of the steps of the d-th activation of HelloWorld (`Proceeds(d)`), for each d,
and of the start and end of a call: the host serves what waits for it, the user
answers what he is asked, and the host does not keep an activation waiting for
ever by entering above it again and again (which is why weak fairness would not
do).  Nothing is assumed of crashes, unloads, setters and the menu's user, who
may stop answering the menu.  What `CallEnds` then shows is about the code: no
body of HelloWorld runs in circles, and whatever takes the activation away ends
the call.  For the arbitrary module nothing can be claimed: its code may loop.

### Findings

1. `kmod.hpp:84` - `dispatch` runs a closure in place in its vector; a body that
   registers into the same vector (a task arming its successor, a tool adding a
   tool) may free the captures it is running on.  `ClosuresStayIntact` says which
   modules are safe, and `ShippedStayIntact` that those of the repository are.
2. `codec.hpp:189`, `:192` - `double` and `float` fields are copied without a
   look at the size.  `OverrunIsLast` bounds it: at most eight bytes, as the last
   step of the activation, and no caller is affected.
3. `codec.hpp:247` - `5 + len` is a 32-bit sum; the check wraps.
   `AcceptsExactlyWhole` and `WholeIsAccepted` confine it: the check is exact for
   all but the last five lengths, and for those it only accepts too much.
4. `sign.py:232` - the file is truncated before it is rewritten; interrupted
   there, the next build signs and stamps the remains.  `WholeUnlessStopped`: that
   place, and a write that fails, are the only ones; any other interrupt of a
   build is harmless.
5. `DevTester.cpp:137` - "schedule_cancel all" passes when one of the five
   cancellations worked, and the sweep then reports that every syscall works.
   What green does mean is `GreenMeansWorked`.

Their runs are `runtime_rearm`, `decode_overread`, `grpc_unframe`,
`sign_interrupted` and `selftest_green`.

## 4. Proofs

All theorems hold for every value of the constants under the named assumptions
of the modules.

* `ModRuntimeProofs`.  `TypeCorrect`; `TokensCorrect` (`[]TokensDenote`);
  `RepliesCorrect` (`[]ReplyMatches`); `ClosuresStayIntact` (`[]ClosureIntact`
  for modules that satisfy `Discipline`).  The properties are not inductive by
  themselves.  `TokensDenote` needs `InStep`: a config entry gets one token, the
  size of the vector of getters, which dispatch also uses for the setters.
  The other two need `WellNested`: only the last frame is not in a syscall, so a
  pending reply keeps the host out and a registration meets below it only frames
  whose kinds can be suspended; and `on_load` is never above another frame, so
  what it registers cannot move anything.
  `Discipline` is what a module has to respect: once the host can dispatch,
  nothing adds to a table whose closures can be suspended.  The shipped modules
  keep it; `runtime_rearm` breaks it.
* `WireDecodeProofs`.  `TypeCorrect`, `SlicesCorrect`, `ShiftsAreDefined`,
  `RoomCorrect`; `OverrunIsLast`, `BytesOnce`, `AlwaysProgress` with `WorkIsBounded`,
  `SchemaIsFollowed`.
  `RoomIsExact` is not inductive because `Fixed` and `SkipFixed` do leave `pos`
  beyond `hi`; the strengthening ties the position to `hi` at every point where a
  varint is being read or was just read: the loop condition has just compared
  them, and `read_varint` never passes the end.  `Ahead` adds how far outside an
  activation can get: whatever leads back to the loop has moved within the
  string, or by a width from within it.  That no byte is decoded twice needs
  `Apart`: not only a frame and its caller, but any two frames have no byte in
  common that is still to come.  `ToDo` is then a union of disjoint intervals; a
  step moves one end of one of them (`ToDoShrinks`), so its size, with the depth
  and a rank of `pc`, is a measure that each step makes smaller.  A run is at most
  `4 * Len(bytes) + 3` steps long, which is what termination rests on.
  `ShiftsAreDefined` needs `Weighed`: `weight` is `Capacity[groups]` and `groups` has
  not reached `MaxGroups`; it assumes that the groups before that fit
  (`GroupsAssumption`: nine groups are 63 bits).
  `SchemaIsFollowed` needs `Linked`: each frame but the last still names the
  field its callee was started for, and that field has the callee's message type,
  so what `SubDone` does after any number of steps of the callee is still right.
* `WireRoundTripProofs`.  `FrameRoundTrip`: a body with `5 + Len(body)` below
  `Base^4` is accepted and returned whole, by reconstructing a number below
  `Base^4` from its four digits.  `AcceptsExactlyWhole` and `WholeIsAccepted` are
  about any string of digits, framed by this code or not: four of them are a
  number below `Base^4` (`AnnouncedFits`), and the sum with 5 is exact or wraps
  to less.
  `RoundTripHolds` (`[]RoundTrip`): whatever message that fits the schema is
  sent, of any depth, `decode` neither fails nor reads outside its string, and
  what it returns is every element in the type of its field, under its field, in
  order, at every level: `CastsBack` has the two casts of an integer undo each
  other, and what the decoder makes of a varint in a field of some type (`Shown`)
  is the `Image` of the number or bool that was written.
  The messages and the encoder are recursive.  The library's induction theorems take a
  predicate as a parameter, which these provers cannot instantiate; over a *set*
  the same principle needs none: if 0 is in `S` and `k + 1` with each `k`, a
  number outside would make `k + 1` an injection of a finite set into a smaller one
  (`SetInduction`, by the pigeonhole theorem of `FiniteSetTheorems`).
  It is in `WireDecodeProofs`, whose `CapacityEquation` needs it as well.
  `Recursion` uses it to show that a function whose value at a point
  depends on points of smaller rank exists, so `WriteVarint`, `Capacity`,
  `FlattenSeq`, `Encode` and `Elements`, which TLA+ defines by CHOOSE, satisfy
  their equations.  Then: a varint is as long as its value needs (`VarintFits`), an
  encoding is its elements one behind the other (`Placement`), and an element its
  tag, its number or length and its bytes (`ItemParts`).
  The invariant is `Tracks`.  There is a path of messages, one for each activation
  of `decode` (`Follows`): the string of each is the encoding of its message
  (`Reads`), its result is the first elements of that message, each but the last waits
  at the end of the next element, a sub-message that the next one decodes
  (`Calls`), and the last one is between two elements or in a varint of one, the rest
  of which, with what is already in `acc`, is the number that was written
  (`Here`, `Awaits`).  `RoundTrip` alone is far from inductive: it says
  nothing of the way.  Each step keeps to the path (`ReadByteFollows`, ...,
  `SubDoneFollows`) and none of the skips and failures is possible on it
  (`NeverSkips`).
  Assumed, besides that both sides have one schema: a message is one that
  `encode` takes (`IsElement`, above); the images of doubles and floats are eight
  and four bytes, and nothing else of their casts; an encoding is shorter than a `size_t` can say and, with its header,
  than the 32-bit length can (`grpc_frame` casts it without a look, so a body of
  4 GiB is outside the theorem as it is outside a 32-bit module); ten groups
  of seven bits hold a `uint64_t`; and field numbers times 8 fit an `int`.
* `ImplementsProofs`.  `RuntimeImplements`: ModRuntime implements
  `CallbackService` under the mapping of `MCModRuntime`.  The calls are the
  frames, so a push, a pop and a trap are shown to add the deepest call, take
  it, and cut the set at a depth (`PushCalls`, `TopIsDeepest`, `UnwindCalls`).
  Each action then maps to one action of the service or to a stutter, given the
  invariants above and `FramesFit`: a frame has an answer exactly while its
  reply is pending, and announces one entry for each kind.  `TokensDenote`
  makes `Dispatch` an `Invoke` of the bound closure and keeps `HostRecords` from
  binding a token twice; `ReplyMatches` makes `HostCopies` a `Deliver`.  It
  assumes that a module's answers differ from the empty buffer of a new
  instance (`AnswerAssumption`), which only tells the two apart.
  `ShippedStayIntact`: the profile of the shipped modules satisfies `Discipline`.
* `HelloWorldProofs`.  `HelloSettingLasts` (`[]SettingLasts`).  The property
  relates memory and wishes; a crash forgets the memory, so `HelloInv` relates
  both to the store: what is stored is wished, a setter that waits in `cfg.set`
  carries what it has put into memory, a settled instance shows what is stored,
  and an instance over an empty store shows the default.  It also has where
  setters and the reading `on_load` can be on the stack: on top.
  `HelloGoesForward` (`BodiesGoForward`): the stack is pushed, popped and cut only
  at its end, and each body's next syscall is later in it than the one before.
* `SessionProofs`.  `MenuCorrect`, `ResultsAreFreed` and `ScopesCorrect` for the
  components alone; `SessionTypes` and `ComponentsHold` for the composition.  `SessionImplementsParts`: a behaviour of the composition is one of
  each component, so what is proved of a component alone, `BodiesGoForward` for
  one, holds in it.
  `MenuInv` adds that options and list are in step while the user chooses;
  `GuestInv` that a frame which closes a screen has the scope; `SessionInv` is
  their conjunction with the types of the composition.
  `ScopesCorrect`, and `ScreensAccounted` with it, are about which screen a close
  meets, though the verb names none. The screens are the scopes' in the order of
  (activation, scope), so the one that ends must be the last of that order.
  `ScreensInv` has that every activation but the last one waits in a syscall
  (`Below`), so only the last one's scopes come and go; that a new scope is told it
  was opened exactly when its screen was (`Told`); and that the screens are those of
  the scopes but for the lost ones (`Answered`), where a scope waiting to be told
  counts by what the host has done. Places in the order are cardinalities of sets of
  pairs (`Upto`), and the lemmas say how these change when the last pair comes or
  goes and when a trap cuts the stack.
* `SelfTestProofs`.  `SelfTestTypes`, `RowsAreOwn`, `GreenMeansWorked`,
  `TasksAreCancelled` from `SelfTestInv`, which says for every syscall of
  `run_full_test` what the locals, the rows and the host's tasks have to do with
  each other.  `RecursionEnds` needs an account: an activation of the recur listener
  that has yet to emit with number n may cause 4 - n more runs (`Weight`); runs
  so far and the weights of all that are still to come never exceed what the
  events so far have brought in (`RunsArePaid`), whichever of them are dropped.
* `SignBuildProofs`.  `BuildTypes`, `SignaturesMatch`, `SignedOnce`,
  `RestsSigned`, `RestsCurrent`.  `OneSignature` is not inductive, since a failed
  signing leaves pieces; `Laid` says of *every* file, damaged or not, that each
  whole signature is over what is before it, and that the one `sign.py` would
  find is the last segment.  `SignerFits` carries this through `Read`,
  `Truncate`, `WriteBody` and `WriteSignature`; `Current` carries the source's version
  from rule to rule.
  `WholeUnlessStopped` assumes of a behaviour that `Damages` is no step of it
  (sign.py killed with the file empty, a write that fails) and proves
  `StampedIsWhole`, the property of the run `sign_interrupted`: `WholeInv` says
  that every file that was made is whole except the one being rewritten, and the
  buffer in the meantime.  `SigningAgain`: taking the signature out of a signed
  file gives what was signed.

Only model-checked: `Terminates` and `CallEnds` (liveness and fairness are out of
the prover's reach; that every step gets nearer to the end, and for `decode`
how many there can be, is proved: `AlwaysProgress`, `WorkIsBounded`,
`BodiesGoForwardInSession`); the five violations.  Every invariant and every action
property of the passing runs is the subject of a theorem.

## 5. Not modelled

* `ModInfo.hpp`: the metadata record, the names of permissions and the flags.
  They are constants that only the host evaluates; `kmod_has_perm` has no caller.
* The widgets of `ui.hpp`: each makes one syscall, reads the answer and keeps
  nothing.  Their order in the modules is modelled where one waits for a user.
* RPC, symbol and memory verbs, and the blob of a hot reload: one syscall each,
  and the work is the host's, whose source is not here, as are its scheduler, its storage
  and its permission checks.  No module of the repository carries state in a blob;
  DevTester saves one only to see what the verb answers.
* Testerv2's sweep, which is DevTester's without tasks and nested events; the
  widget showcase, a sequence of `ui.*` calls.
* The Ed25519 arithmetic of `sign.py`, its command line, standard input; the
  branch of `add_kmod` without a key.
* Formatting and logging.

Traps inside `json` accessors are the actions `Trap`, `TrapGuest` and the crash of
HelloWorld, possible in any body.

## 6. Plan

Done so far: the runtime, its abstract specification and the refinement; the codec;
the framing; the build; the sweep; HelloWorld with its life cycle; the
menu; the host-call gateway; the session that composes the last three; the
proofs of every invariant and action property of the runs that is within the
prover's reach; and, for each finding, a theorem that says how far it goes.

What could come next: the blob of a hot reload, once a module uses it; the sweep of
Testerv2 as an instance of `SelfTest`; the composition of `SelfTest` with
`ModRuntime`, so that its listeners are dispatched by token; the unsigned branch of
`add_kmod`.
