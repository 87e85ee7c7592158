---------------------------- MODULE MCModRuntime ----------------------------
(***************************************************************************)
(* ModRuntime for TLC: two profiles of module code, and the refinement of  *)
(* CallbackService.                                                        *)
(***************************************************************************)
EXTENDS ModRuntime, TLC

Symmetry == Permutations(Value) \cup Permutations(Callback)

\* The modules the repository ships, taken together: on_load listens, replies
\* and registers tools and config entries (Modules/DevTester.cpp,
\* example/HelloWorld.cpp); a tool adds config entries, tasks and retries
\* (DevTester); tools, listeners and config setters call the host.
ShippedRegisters ==
  [b \in Body |-> CASE b = OnLoad -> {"tool", "event", "rpc", "cfg"}
                    [] b = 1 -> {"cfg", "task", "retry"}
                    [] OTHER -> {}]
ShippedCalls == {OnLoad, 1, 2, 5, OnUnload}

\* Any body registers anything, as the API allows.
AnyRegisters == [b \in Body |-> Reg]
AnyCalls == Body

\* A task that arms itself again with a new closure, the pattern schedule_after
\* invites; on_load arms it first.
RearmRegisters == [b \in Body |-> IF b \in {OnLoad, 6} THEN {"task"} ELSE {}]
RearmCalls == {}

\* The closures and the exported functions that are active, with their depth.
ActiveCalls ==
  {[depth |-> i, kind |-> stack[i].kind, cb |-> stack[i].cb, ans |-> stack[i].ans]
     : i \in DOMAIN stack}

Abstract ==
  INSTANCE CallbackService
    WITH Answering <- Packs, Export <- {OnLoad, OnUnload, Info}, Answer <- Value \cup {Meta}, Depth <- 1..MaxDepth,
         bound <- known, calls <- ActiveCalls

\* Every step of the runtime is a step of the callback service or leaves it
\* as it is.
ImplementsCallbackService == Abstract!ASpec
=============================================================================
