----------------------------- MODULE ModRuntime -----------------------------
(***************************************************************************)
(* The guest side of the kernel ABI: the singleton kmod::Runtime of        *)
(* include/kmod.hpp, its callback tables, the reply buffer ret_ and the    *)
(* four exported entry points of MOD_REGISTER.                             *)
(*                                                                         *)
(* A module instance is single threaded but re-entrant: a body (a hook or  *)
(* a registered closure) makes a syscall, and before the syscall returns   *)
(* the host may enter the instance again (emit -> listener, request ->     *)
(* responder, tools.invoke -> tool).  The wasm stack is the sequence       *)
(* "stack"; only its last frame runs, every other one is inside a syscall. *)
(*                                                                         *)
(* What a body does between two calls of the SDK is not modelled; what the *)
(* SDK does is.  Which wrapper a body may call is the constant Registers.  *)
(***************************************************************************)
EXTENDS Integers, Sequences, FiniteSets

CONSTANTS Callback,    \* the closures module code passes to the SDK
          Inline,      \* those whose captures std::function stores in itself
          Value,       \* answers of a packed dispatch
          Meta,        \* the answer of __kmod_info
          NoValue,     \* ret_ before the first pack
          NoCallback,  \* a frame that runs no registered closure
          Registers,   \* Registers[b]: what a body of kind b may register
          Calls,       \* kinds of bodies that make other syscalls
          MaxRegs,     \* bound: registrations in one behaviour
          MaxDepth     \* bound: nested entries

----------------------------------------------------------------------------
(* Names of the code. *)

\* The dispatch kinds: 1 tool, 2 event, 3 rpc, 4 config getter, 5 config
\* setter, 6 task, 7 retry.
Kind == 1..7
OnLoad == 0
OnUnload == 8
Info == 9
Body == Kind \cup {OnLoad, OnUnload}

\* The registration functions of Runtime: add_tool, add_event, add_rpc,
\* add_cfg, add_task and add_retry.
Reg == {"tool", "event", "rpc", "cfg", "task", "retry"}

Table == {"tools", "events", "rpc", "cfg_get", "cfg_set", "tasks", "retries"}

\* A retry token looked up among the tasks.
TableOfMutant(k) ==
  <<"tools", "events", "rpc", "cfg_get", "cfg_set", "tasks", "tasks">>[k]

\* The vector the switch of dispatch indexes for a kind.
TableOf(k) ==
  <<"tools", "events", "rpc", "cfg_get", "cfg_set", "tasks", "retries">>[k]

\* The kinds under which the host dispatches what was registered by r.
KindsOf(r) ==
  CASE r = "tool"  -> {1}
    [] r = "event" -> {2}
    [] r = "rpc"   -> {3}
    [] r = "cfg"   -> {4, 5}
    [] r = "task"  -> {6}
    [] r = "retry" -> {7}

\* add_cfg that forgets to push the setter.
PushesMutant(r) ==
  {[tool |-> "tools", event |-> "events", rpc |-> "rpc", cfg |-> "cfg_get",
    task |-> "tasks", retry |-> "retries"][r]}

\* The vectors that grow by one element when r registers a closure.
Pushes(r) ==
  CASE r = "tool"  -> {"tools"}
    [] r = "event" -> {"events"}
    [] r = "rpc"   -> {"rpc"}
    [] r = "cfg"   -> {"cfg_get", "cfg_set"}
    [] r = "task"  -> {"tasks"}
    [] r = "retry" -> {"retries"}

\* The vector whose size makes the token: the one token of a config entry
\* comes from the getters.
Counted(r) ==
  CASE r = "tool"  -> "tools"
    [] r = "event" -> "events"
    [] r = "rpc"   -> "rpc"
    [] r = "cfg"   -> "cfg_get"
    [] r = "task"  -> "tasks"
    [] r = "retry" -> "retries"

\* The kinds whose dispatch packs an answer into ret_; the others return 0.
Packs == {3, 4, 7}

\* add_cfg that passes the caller's closures on as they are.
BoxedMutant == {}

\* The kinds whose closures add_cfg wraps in a lambda that holds a whole
\* std::function: too large to be stored in place, so never moved.
Boxed == {4, 5}

Entry == [kind : Kind, token : Nat, cb : Callback]

\* One activation.  at: "body" while it runs, "syscall" while it waits for the
\* host, "reply" once its answer is packed and the host has yet to copy it.
Frame == [kind : Body \cup {Info},
          cb : Callback \cup {NoCallback},
          intact : BOOLEAN,
          at : {"body", "syscall", "reply"},
          ans : Value \cup {Meta, NoValue},
          announce : SUBSET Entry]

ASSUME RegistersAssumption == Registers \in [Body -> SUBSET Reg]
ASSUME ClosureAssumption == Inline \subseteq Callback /\ NoCallback \notin Callback
ASSUME CallsAssumption == Calls \subseteq Body
ASSUME AnswerAssumption == NoValue \notin Value \cup {Meta}
ASSUME BoundsAssumption == MaxRegs \in Nat /\ MaxDepth \in Nat

VARIABLES table,   \* the seven vectors of closures
          ret,     \* the contents of ret_
          made,    \* mod_ holds the module object
          phase,   \* how far the host has taken the module
          stack,   \* the activations of the instance, the running one last
          known,   \* entries the host has recorded: it may dispatch them
          got      \* what the host last copied out of a packed reply

vars == <<table, ret, made, phase, stack, known, got>>

----------------------------------------------------------------------------
Top == stack[Len(stack)]

\* Only the last frame runs, and only from its own point of execution.
Running == stack # <<>> /\ Top.at = "body"

Replace(f) == [stack EXCEPT ![Len(stack)] = f]

\* What is left when the activations above the k-th are gone.
Unwound(k) == SubSeq(stack, 1, k)

Pop == Unwound(Len(stack) - 1)

\* A reply still in ret_ does not keep the host's scheduler thread out.
CanEnterMutant ==
  /\ Len(stack) < MaxDepth
  /\ stack # <<>> => Top.at \in {"syscall", "reply"}

\* The host serialises the threads that call into the instance and copies a
\* packed reply before the next entry: control is with the host when nothing
\* is active or the last frame waits in a syscall.
CanEnter ==
  /\ Len(stack) < MaxDepth
  /\ stack # <<>> => Top.at = "syscall"

Enter(k, c) ==
  stack' = Append(stack, [kind |-> k, cb |-> c, intact |-> TRUE, at |-> "body",
                          ans |-> NoValue, announce |-> {}])

----------------------------------------------------------------------------
(* Entry points. *)

\* __kmod_info: build the metadata, pack it, return its place.
HostInfo ==
  /\ CanEnter
  /\ made' = TRUE
  /\ ret' = Meta
  /\ stack' = Append(stack, [kind |-> Info, cb |-> NoCallback, intact |-> TRUE,
                             at |-> "reply", ans |-> Meta, announce |-> {}])
  /\ UNCHANGED <<table, phase, known, got>>

EnterOnLoad ==
  /\ phase = "new" /\ stack = <<>> /\ CanEnter
  /\ phase' = "loaded"
  /\ made' = TRUE
  /\ Enter(OnLoad, NoCallback)
  /\ UNCHANGED <<table, ret, known, got>>

EnterOnUnload ==
  /\ phase = "loaded" /\ CanEnter
  /\ phase' = "unloaded"
  /\ made' = TRUE
  /\ Enter(OnUnload, NoCallback)
  /\ UNCHANGED <<table, ret, known, got>>

\* __kmod_dispatch(kind, token): the closure the table holds at the token
\* starts to run.  A token out of range changes nothing (a stutter), and
\* nothing in dispatch asks whether the module was unloaded.
Dispatch(e) ==
  /\ CanEnter
  /\ e.token < Len(table[TableOf(e.kind)])
  /\ Enter(e.kind, table[TableOf(e.kind)][e.token + 1])
  /\ UNCHANGED <<table, ret, made, phase, known, got>>

----------------------------------------------------------------------------
(* What a running body does. *)

\* A vector of n closures is at its capacity: libc++ grows 1, 2, 4, ...
Full(n) == \E i \in 0..n : n = 2^i

\* The frame runs a closure that lives inside an element of a vector that
\* registration r is about to move to new storage.
Moved(f, r) ==
  /\ f.kind \in Kind \ Boxed
  /\ f.cb \in Inline
  /\ TableOf(f.kind) \in Pushes(r)
  /\ Full(Len(table[TableOf(f.kind)]))

\* The registrations so far (a config entry fills two vectors).
Registered ==
  Cardinality({p \in (Table \ {"cfg_set"}) \X (1..MaxRegs) : p[2] <= Len(table[p[1]])})

\* size() - 1 taken before the push.
TokenBeforePush(r) == Len(table[Counted(r)]) - 1

\* size() - 1 after the push: the index of the new element.
TokenOf(r) == Len(table[Counted(r)])

\* A wrapper pushes the closure and makes the syscall that announces its
\* token; growth of the vector frees the storage of the closures in it, those
\* of frames on the stack included.
Register(r, c) ==
  LET moved(f) == [f EXCEPT !.intact = f.intact /\ ~Moved(f, r)]
  IN  /\ Running /\ r \in Registers[Top.kind]
      /\ Registered < MaxRegs
      /\ table' = [t \in Table |-> IF t \in Pushes(r) THEN Append(table[t], c)
                                                      ELSE table[t]]
      /\ stack' = [i \in DOMAIN stack |->
                     IF i < Len(stack) THEN moved(stack[i])
                     ELSE [moved(Top) EXCEPT
                             !.at = "syscall",
                             !.announce = {[kind |-> k, token |-> TokenOf(r), cb |-> c]
                                             : k \in KindsOf(r)}]]
      /\ UNCHANGED <<ret, made, phase, known, got>>

RegisterTool(c) == Register("tool", c)
Listen(c) == Register("event", c)
Reply(c) == Register("rpc", c)
RegisterConfig(c) == Register("cfg", c)
ScheduleTask(c) == Register("task", c)
ScheduleRetry(c) == Register("retry", c)

\* Any other wrapper: emit, request, tool_invoke, conf_get, ...; nothing of
\* the runtime changes, but the host has control until it returns.
Syscall ==
  /\ Running /\ Top.kind \in Calls
  /\ stack' = Replace([Top EXCEPT !.at = "syscall"])
  /\ UNCHANGED <<table, ret, made, phase, known, got>>

\* The closure of a packed kind returns: its answer goes to ret_.
ReturnPacked(v) ==
  /\ Running /\ Top.kind \in Packs
  /\ ret' = v
  /\ stack' = Replace([Top EXCEPT !.at = "reply", !.ans = v])
  /\ UNCHANGED <<table, made, phase, known, got>>

\* Hooks and the closures of the other kinds return nothing.
Return ==
  /\ Running /\ Top.kind \notin Packs
  /\ stack' = Pop
  /\ UNCHANGED <<table, ret, made, phase, known, got>>

\* Exceptions are compiled out: a failed json access or any abort() in a body
\* traps.  The host function that entered the instance gives up as well, or
\* returns from the syscall it is serving; the memory stays as it is.
Trap ==
  /\ Running
  /\ \E k \in 0..(Len(stack) - 1) : stack' = Unwound(k)
  /\ UNCHANGED <<table, ret, made, phase, known, got>>

----------------------------------------------------------------------------
(* The host, whose source is not in the repository. *)

\* It takes the announced tokens; from now on it may dispatch them, at any
\* time: it is not known to forget one at unload or cancel.
HostRecords ==
  /\ stack # <<>> /\ Top.at = "syscall"
  /\ ~(Top.announce \subseteq known)
  /\ known' = known \cup Top.announce
  /\ UNCHANGED <<table, ret, made, phase, stack, got>>

\* It returns from the syscall, having recorded the tokens or denied them.
HostReturns ==
  /\ stack # <<>> /\ Top.at = "syscall"
  /\ stack' = Replace([Top EXCEPT !.at = "body", !.announce = {}])
  /\ UNCHANGED <<table, ret, made, phase, known, got>>

\* It copies the packed reply out of ret_.
HostCopies ==
  /\ stack # <<>> /\ Top.at = "reply"
  /\ got' = ret
  /\ stack' = Pop
  /\ UNCHANGED <<table, ret, made, phase, known>>

----------------------------------------------------------------------------
Init ==
  /\ table = [t \in Table |-> <<>>]
  /\ ret = NoValue
  /\ made = FALSE
  /\ phase = "new"
  /\ stack = <<>>
  /\ known = {}
  /\ got = NoValue

Next ==
  \/ HostInfo
  \/ EnterOnLoad
  \/ EnterOnUnload
  \/ \E e \in known : Dispatch(e)
  \/ \E c \in Callback : RegisterTool(c)
  \/ \E c \in Callback : Listen(c)
  \/ \E c \in Callback : Reply(c)
  \/ \E c \in Callback : RegisterConfig(c)
  \/ \E c \in Callback : ScheduleTask(c)
  \/ \E c \in Callback : ScheduleRetry(c)
  \/ Syscall
  \/ \E v \in Value : ReturnPacked(v)
  \/ Return
  \/ Trap
  \/ HostRecords
  \/ HostReturns
  \/ HostCopies

Spec == Init /\ [][Next]_vars

----------------------------------------------------------------------------
(* Properties. *)

\* The state of the runtime has the shape the code gives it.
TypeOK ==
  /\ table \in [Table -> Seq(Callback)]
  /\ ret \in Value \cup {Meta, NoValue}
  /\ made \in BOOLEAN
  /\ phase \in {"new", "loaded", "unloaded"}
  /\ stack \in Seq(Frame)
  /\ known \in SUBSET Entry
  /\ got \in Value \cup {Meta, NoValue}

\* The entries a suspended registration has put into its syscall.
Announced == UNION {stack[i].announce : i \in DOMAIN stack}

Denotes(e) ==
  /\ e.token < Len(table[TableOf(e.kind)])
  /\ table[TableOf(e.kind)][e.token + 1] = e.cb

\* Every token the host holds, or is being told about, leads dispatch to the
\* closure it was handed out for: through any later registration, by any body,
\* nested in the syscall that announces it or not.  Both tokens of a config
\* entry do.
TokensDenote == \A e \in known \cup Announced : Denotes(e)

\* The single buffer ret_ still holds the answer of the activation whose reply
\* the host is about to copy, whatever nested dispatches packed before it.
ReplyMatches == \A i \in DOMAIN stack : stack[i].at = "reply" => ret = stack[i].ans

\* A closure that is running, or waits in a syscall, still finds its captures
\* where they were when it was called.
ClosureIntact == \A i \in DOMAIN stack : stack[i].intact

\* The kinds of closures that can be on the stack while something registers:
\* they register themselves or make a syscall the host can re-enter from.
Suspends(k) == Registers[k] # {} \/ k \in Calls

\* What a module has to respect for ClosureIntact: from the moment the host
\* can dispatch, nothing adds to a table whose closures can be suspended.
Discipline ==
  \A k \in Kind \ Boxed : Suspends(k) =>
    \A b \in Kind \cup {OnUnload} : \A r \in Registers[b] : k \notin KindsOf(r)
=============================================================================
