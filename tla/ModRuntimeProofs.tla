-------------------------- MODULE ModRuntimeProofs --------------------------
(***************************************************************************)
(* The safety properties of ModRuntime for every set of closures, every    *)
(* profile of module code and all bounds.                                  *)
(*                                                                         *)
(* The inductive invariant adds to the three properties that the vectors   *)
(* of getters and setters have grown in step, and the discipline of the    *)
(* stack: only the last frame can run or carry a reply, on_load is never   *)
(* entered over another frame, and a frame that waits in a syscall has a   *)
(* kind whose closures make syscalls.                                      *)
(***************************************************************************)
EXTENDS ModRuntime, SequenceTheorems, TLAPS

\* The one token of a config entry indexes both of its vectors.
InStep == Len(table["cfg_get"]) = Len(table["cfg_set"])

WellNested ==
  /\ \A i \in DOMAIN stack : i < Len(stack) => stack[i].at = "syscall"
  /\ \A i \in DOMAIN stack :
       /\ stack[i].at # "reply" => stack[i].kind \in Body
       /\ stack[i].at = "syscall" => Suspends(stack[i].kind)
       /\ stack[i].kind = OnLoad => i = 1

----------------------------------------------------------------------------
(* The tables of the code. *)

\* What a registration hands out is dispatched under one of the seven kinds.
LEMMA KindsAreKinds ==
  ASSUME NEW r \in Reg
  PROVE  KindsOf(r) \subseteq Kind
BY DEF KindsOf, Kind, Reg

\* dispatch finds a vector for every kind, and the vector that dispatch reads
\* for a kind is one the registration of that kind pushes to.
LEMMA TablesOfKinds ==
  ASSUME NEW k \in Kind, NEW r \in Reg
  PROVE  /\ TableOf(k) \in Table
         /\ TableOf(k) \in Pushes(r) <=> k \in KindsOf(r)
<1>1. TableOf(k) \in Table
  BY DEF TableOf, Kind, Table
<1>2. TableOf(k) \in Pushes(r) <=> k \in KindsOf(r)
  BY DEF TableOf, Kind, Reg, Pushes, KindsOf
<1> QED BY <1>1, <1>2

\* The token comes from a vector of the code, and it is the size of the vector
\* that dispatch reads, for each of the kinds of the registration.
LEMMA TokenIsSize ==
  ASSUME NEW r \in Reg, NEW k \in KindsOf(r), TypeOK
  PROVE  /\ TokenOf(r) \in Nat
         /\ InStep => TokenOf(r) = Len(table[TableOf(k)])
<1>1. Counted(r) \in Table
  BY DEF Counted, Reg, Table
<1>2. TokenOf(r) \in Nat
  BY <1>1 DEF TokenOf, TypeOK
<1>3. TableOf(k) = Counted(r) \/ (TableOf(k) = "cfg_set" /\ Counted(r) = "cfg_get")
  BY DEF TableOf, KindsOf, Counted, Reg
<1> QED BY <1>2, <1>3 DEF TokenOf, InStep

\* The frame that runs is the last one, and it is a frame.
LEMMA TopIsFrame ==
  ASSUME TypeOK, stack # <<>>
  PROVE  /\ Len(stack) \in DOMAIN stack
         /\ Top \in Frame
BY DEF TypeOK, Top

\* Unwinding keeps the frames below, whether one frame returns or a trap takes
\* several with it.
LEMMA UnwindKeeps ==
  ASSUME TypeOK, stack # <<>>, NEW k \in 0..(Len(stack) - 1)
  PROVE  /\ Unwound(k) \in Seq(Frame)
         /\ Len(Unwound(k)) = k
         /\ DOMAIN Unwound(k) = 1..k
         /\ \A i \in 1..k :
              i \in DOMAIN stack /\ i < Len(stack) /\ Unwound(k)[i] = stack[i]
<1>1. stack \in Seq(Frame) /\ Len(stack) \in Nat \ {0} /\ k \in 0..Len(stack)
  BY DEF TypeOK
<1>2. \A i \in 1..k : stack[i] \in Frame
  BY <1>1
<1>3. stack = SubSeq(stack, 1, Len(stack))
  BY <1>1, SubSeqFull
<1>4. Unwound(k) = Restrict(stack, 1..k)
  BY <1>1, <1>3, SubSeqRestrict DEF Unwound
<1>5. Unwound(k) = [i \in 1..k |-> stack[i]]
  BY <1>1, <1>4 DEF Restrict
<1> QED BY <1>1, <1>2, <1>5

LEMMA PopUnwinds ==
  ASSUME TypeOK, stack # <<>>
  PROVE  Len(stack) - 1 \in 0..(Len(stack) - 1) /\ Pop = Unwound(Len(stack) - 1)
BY DEF TypeOK, Pop

\* Replacing the last frame keeps every other frame.
LEMMA ReplaceKeeps ==
  ASSUME TypeOK, stack # <<>>, NEW f \in Frame
  PROVE  /\ Replace(f) \in Seq(Frame)
         /\ Len(Replace(f)) = Len(stack)
         /\ Replace(f)[Len(stack)] = f
         /\ \A i \in DOMAIN stack : i < Len(stack) => Replace(f)[i] = stack[i]
BY DEF TypeOK, Replace

\* Entering adds one frame on top.
LEMMA AppendKeeps ==
  ASSUME TypeOK, NEW f \in Frame
  PROVE  /\ Append(stack, f) \in Seq(Frame)
         /\ Len(Append(stack, f)) = Len(stack) + 1
         /\ Append(stack, f)[Len(stack) + 1] = f
         /\ \A i \in DOMAIN stack : Append(stack, f)[i] = stack[i]
BY DEF TypeOK

\* The frame of a fresh activation.
Fresh(k, c) == [kind |-> k, cb |-> c, intact |-> TRUE, at |-> "body",
                ans |-> NoValue, announce |-> {}]

LEMMA FreshIsFrame ==
  ASSUME NEW k \in Body, NEW c \in Callback \cup {NoCallback}
  PROVE  /\ Fresh(k, c) \in Frame
         /\ Enter(k, c) <=> stack' = Append(stack, Fresh(k, c))
BY DEF Fresh, Frame, Enter, Body

\* What a registration does to the frames and the tables.
LEMMA RegisterEffect ==
  ASSUME TypeOK, NEW r \in Reg, NEW c \in Callback, Register(r, c)
  PROVE  /\ Running /\ r \in Registers[Top.kind]
         /\ table' \in [Table -> Seq(Callback)]
         /\ \A t \in Table :
              table'[t] = IF t \in Pushes(r) THEN Append(table[t], c) ELSE table[t]
         /\ stack' \in Seq(Frame)
         /\ Len(stack') = Len(stack)
         /\ \A i \in DOMAIN stack :
              /\ stack'[i].kind = stack[i].kind
              /\ stack'[i].cb = stack[i].cb
              /\ stack'[i].ans = stack[i].ans
              /\ stack'[i].intact = (stack[i].intact /\ ~Moved(stack[i], r))
              /\ i < Len(stack) => /\ stack'[i].at = stack[i].at
                                   /\ stack'[i].announce = stack[i].announce
         /\ stack'[Len(stack)].at = "syscall"
         /\ stack'[Len(stack)].announce =
              {[kind |-> k, token |-> TokenOf(r), cb |-> c] : k \in KindsOf(r)}
<1> DEFINE moved(f) == [f EXCEPT !.intact = f.intact /\ ~Moved(f, r)]
           E == {[kind |-> k, token |-> TokenOf(r), cb |-> c] : k \in KindsOf(r)}
           g(i) == IF i < Len(stack) THEN moved(stack[i])
                   ELSE [moved(Top) EXCEPT !.at = "syscall", !.announce = E]
<1>1. Running /\ r \in Registers[Top.kind]
  BY DEF Register
<1>2. /\ stack \in Seq(Frame) /\ Len(stack) \in Nat \ {0}
      /\ DOMAIN stack = 1..Len(stack)
      /\ table \in [Table -> Seq(Callback)]
  BY <1>1 DEF TypeOK, Running
<1>3. table' = [t \in Table |-> IF t \in Pushes(r) THEN Append(table[t], c) ELSE table[t]]
  BY DEF Register
<1>4. table' \in [Table -> Seq(Callback)]
  BY <1>2, <1>3
<1>5. stack' = [i \in DOMAIN stack |-> g(i)]
  BY DEF Register
<1>6. E \subseteq Entry
  <2> SUFFICES ASSUME NEW k \in KindsOf(r)
               PROVE  [kind |-> k, token |-> TokenOf(r), cb |-> c] \in Entry
    OBVIOUS
  <2>1. k \in Kind /\ TableOf(k) \in Table
    BY KindsAreKinds, TablesOfKinds
  <2>2. TokenOf(r) \in Nat
    BY TokenIsSize
  <2> QED BY <2>1, <2>2 DEF Entry
<1>7. ASSUME NEW f \in Frame
      PROVE  /\ moved(f) \in Frame
             /\ moved(f).kind = f.kind /\ moved(f).cb = f.cb /\ moved(f).ans = f.ans
             /\ moved(f).at = f.at /\ moved(f).announce = f.announce
             /\ moved(f).intact = (f.intact /\ ~Moved(f, r))
  BY DEF Frame
<1>8. ASSUME NEW f \in Frame
      PROVE  LET h == [f EXCEPT !.at = "syscall", !.announce = E]
             IN  /\ h \in Frame
                 /\ h.kind = f.kind /\ h.cb = f.cb /\ h.ans = f.ans /\ h.intact = f.intact
                 /\ h.at = "syscall" /\ h.announce = E
  BY <1>6 DEF Frame
<1>9. ASSUME NEW i \in DOMAIN stack
      PROVE  /\ g(i) \in Frame
             /\ g(i).kind = stack[i].kind /\ g(i).cb = stack[i].cb
             /\ g(i).ans = stack[i].ans
             /\ g(i).intact = (stack[i].intact /\ ~Moved(stack[i], r))
             /\ i < Len(stack) => /\ g(i).at = stack[i].at
                                  /\ g(i).announce = stack[i].announce
             /\ i = Len(stack) => g(i).at = "syscall" /\ g(i).announce = E
  <2>1. stack[i] \in Frame
    BY <1>2
  <2>2. CASE i < Len(stack)
    BY <2>1, <2>2, <1>7, <1>2
  <2>3. CASE i = Len(stack)
    <3>1. stack[i] = Top /\ g(i) = [moved(Top) EXCEPT !.at = "syscall", !.announce = E]
      BY <2>3, <1>2 DEF Top
    <3>2. /\ moved(Top) \in Frame
          /\ moved(Top).kind = Top.kind /\ moved(Top).cb = Top.cb
          /\ moved(Top).ans = Top.ans
          /\ moved(Top).intact = (Top.intact /\ ~Moved(Top, r))
      BY <3>1, <2>1, <1>7
    <3> DEFINE m == moved(Top)
    <3>3. g(i) = [m EXCEPT !.at = "syscall", !.announce = E]
      BY <3>1
    <3>4. m \in Frame
      BY <3>2
    <3> HIDE DEF m, g, E
    <3>5. /\ g(i) \in Frame
          /\ g(i).kind = m.kind /\ g(i).cb = m.cb /\ g(i).ans = m.ans
          /\ g(i).intact = m.intact /\ g(i).at = "syscall" /\ g(i).announce = E
      BY <3>3, <3>4, <1>8
    <3> QED BY <3>1, <3>2, <3>5, <2>3, <1>2 DEF m
  <2> QED BY <2>2, <2>3, <1>2
<1> HIDE DEF g, E, moved
<1>10. stack' \in Seq(Frame) /\ Len(stack') = Len(stack)
  BY <1>2, <1>5, <1>9
<1>11. \A i \in DOMAIN stack : stack'[i] = g(i)
  BY <1>5
<1>12. Len(stack) \in DOMAIN stack
  BY <1>2
<1> QED BY <1>1, <1>3, <1>4, <1>9, <1>10, <1>11, <1>12 DEF E

\* The wrappers are the six registrations.
LEMMA NextIsRegister ==
  ASSUME Next
  PROVE  \/ HostInfo \/ EnterOnLoad \/ EnterOnUnload
         \/ \E e \in known : Dispatch(e)
         \/ \E r \in Reg, c \in Callback : Register(r, c)
         \/ Syscall \/ Return \/ Trap \/ HostRecords \/ HostReturns \/ HostCopies
         \/ \E v \in Value : ReturnPacked(v)
BY DEF Next, Reg, RegisterTool, Listen, Reply, RegisterConfig, ScheduleTask, ScheduleRetry

\* Dispatch of a token the host holds starts a closure of the table.
LEMMA DispatchEffect ==
  ASSUME TypeOK, NEW e \in known, Dispatch(e)
  PROVE  LET c == table[TableOf(e.kind)][e.token + 1]
         IN  /\ e \in Entry /\ c \in Callback
             /\ Fresh(e.kind, c) \in Frame
             /\ stack' = Append(stack, Fresh(e.kind, c))
<1> DEFINE t == TableOf(e.kind)
           c == table[t][e.token + 1]
<1>1. e \in Entry /\ e.kind \in Kind /\ e.token \in Nat
  BY DEF TypeOK, Entry
<1>2. t \in Table
  BY <1>1 DEF TableOf, Kind, Table
<1>3. table[t] \in Seq(Callback) /\ e.token < Len(table[t])
  BY <1>2 DEF TypeOK, Dispatch
<1>4. c \in Callback
  BY <1>1, <1>3
<1>5. e.kind \in Body
  BY <1>1 DEF Body
<1>6. Enter(e.kind, c)
  BY DEF Dispatch
<1> HIDE DEF c
<1> QED BY <1>1, <1>4, <1>5, <1>6, FreshIsFrame DEF c

\* The frame of __kmod_info, whose reply is packed at once.
InfoFrame == [kind |-> Info, cb |-> NoCallback, intact |-> TRUE,
              at |-> "reply", ans |-> Meta, announce |-> {}]

LEMMA InfoIsFrame == InfoFrame \in Frame
BY DEF InfoFrame, Frame, Info

LEMMA HooksAreBodies == OnLoad \in Body /\ OnUnload \in Body /\ Info \notin Body
BY DEF Body, OnLoad, OnUnload, Info, Kind

\* Advancing the last frame to another point keeps it a frame.
LEMMA TopAdvances ==
  ASSUME TypeOK, stack # <<>>
  PROVE  /\ [Top EXCEPT !.at = "syscall"] \in Frame
         /\ \A v \in Value : [Top EXCEPT !.at = "reply", !.ans = v] \in Frame
         /\ [Top EXCEPT !.at = "body", !.announce = {}] \in Frame
         /\ Top.announce \subseteq Entry
<1>1. Top \in Frame
  BY TopIsFrame
<1> QED BY <1>1 DEF Frame

----------------------------------------------------------------------------
(* Type correctness. *)

LEMMA TypeInit == Init => TypeOK
<1>1. \A S : <<>> \in Seq(S)
  OBVIOUS
<1> QED BY <1>1 DEF Init, TypeOK

LEMMA TypeStep == TypeOK /\ [Next]_vars => TypeOK'
<1> SUFFICES ASSUME TypeOK, [Next]_vars PROVE TypeOK'
  OBVIOUS
<1>1. CASE UNCHANGED vars
  BY <1>1 DEF vars, TypeOK
<1>2. CASE HostInfo
  BY <1>2, AppendKeeps, InfoIsFrame DEF HostInfo, TypeOK, InfoFrame
<1>3. CASE EnterOnLoad
  BY <1>3, AppendKeeps, FreshIsFrame, HooksAreBodies DEF EnterOnLoad, TypeOK
<1>4. CASE EnterOnUnload
  BY <1>4, AppendKeeps, FreshIsFrame, HooksAreBodies DEF EnterOnUnload, TypeOK
<1>5. ASSUME NEW e \in known, Dispatch(e) PROVE TypeOK'
  <2>1. stack' \in Seq(Frame)
    BY <1>5, DispatchEffect, AppendKeeps
  <2> QED BY <1>5, <2>1 DEF Dispatch, TypeOK
<1>6. ASSUME NEW r \in Reg, NEW c \in Callback, Register(r, c) PROVE TypeOK'
  <2>1. stack' \in Seq(Frame) /\ table' \in [Table -> Seq(Callback)]
    BY <1>6, RegisterEffect
  <2>2. UNCHANGED <<ret, made, phase, known, got>>
    BY <1>6 DEF Register
  <2> QED BY <2>1, <2>2 DEF TypeOK
<1>7. CASE Syscall
  BY <1>7, TopAdvances, ReplaceKeeps DEF Syscall, Running, TypeOK
<1>8. ASSUME NEW v \in Value, ReturnPacked(v) PROVE TypeOK'
  BY <1>8, TopAdvances, ReplaceKeeps DEF ReturnPacked, Running, TypeOK
<1>9. CASE Return
  BY <1>9, PopUnwinds, UnwindKeeps DEF Return, Running, TypeOK
<1>10. CASE Trap
  BY <1>10, UnwindKeeps DEF Trap, Running, TypeOK
<1>11. CASE HostRecords
  BY <1>11, TopIsFrame DEF HostRecords, TypeOK, Frame
<1>12. CASE HostReturns
  BY <1>12, TopAdvances, ReplaceKeeps DEF HostReturns, TypeOK
<1>13. CASE HostCopies
  BY <1>13, PopUnwinds, UnwindKeeps DEF HostCopies, TypeOK
<1> QED
  BY <1>1, <1>2, <1>3, <1>4, <1>5, <1>6, <1>7, <1>8, <1>9, <1>10, <1>11, <1>12, <1>13,
     NextIsRegister

\* The state of the runtime always has the shape the code gives it.
THEOREM TypeCorrect == Spec => []TypeOK
<1>1. Init => TypeOK
  BY TypeInit
<1>2. TypeOK /\ [Next]_vars => TypeOK'
  BY TypeStep
<1> QED BY <1>1, <1>2, PTL DEF Spec

----------------------------------------------------------------------------
(* The discipline of the stack. *)

LEMMA PushNested ==
  ASSUME TypeOK, WellNested, CanEnter, NEW f \in Frame, stack' = Append(stack, f),
         f.at # "syscall", f.at = "body" => f.kind \in Body,
         f.kind = OnLoad => stack = <<>>
  PROVE  WellNested'
<1>1. /\ Len(stack) \in Nat
      /\ DOMAIN stack = 1..Len(stack)
      /\ DOMAIN stack' = 1..(Len(stack) + 1)
      /\ Len(stack') = Len(stack) + 1
      /\ stack'[Len(stack) + 1] = f
      /\ \A i \in DOMAIN stack : stack'[i] = stack[i]
  BY AppendKeeps DEF TypeOK
<1>2. \A i \in DOMAIN stack : stack[i].at = "syscall"
  BY <1>1 DEF CanEnter, Top, WellNested
<1>3. f.at # "reply" => f.kind \in Body
  BY DEF Frame
<1>4. f.kind = OnLoad => Len(stack) = 0
  OBVIOUS
<1>5. ASSUME NEW i \in DOMAIN stack'
      PROVE  /\ i < Len(stack') => stack'[i].at = "syscall"
             /\ stack'[i].at # "reply" => stack'[i].kind \in Body
             /\ stack'[i].at = "syscall" => Suspends(stack'[i].kind)
             /\ stack'[i].kind = OnLoad => i = 1
  <2>1. CASE i \in DOMAIN stack
    BY <1>1, <1>2, <2>1 DEF WellNested
  <2>2. CASE i = Len(stack) + 1
    BY <1>1, <1>3, <1>4, <2>2
  <2> QED BY <1>1, <2>1, <2>2
<1> QED BY <1>5 DEF WellNested, Suspends

LEMMA UnwindNested ==
  ASSUME TypeOK, WellNested, stack # <<>>,
         NEW k \in 0..(Len(stack) - 1), stack' = Unwound(k)
  PROVE  WellNested' /\ \A i \in DOMAIN stack' : stack'[i].at = "syscall"
<1>1. /\ DOMAIN stack' = 1..k /\ Len(stack') = k
      /\ \A i \in DOMAIN stack' :
           i \in DOMAIN stack /\ i < Len(stack) /\ stack'[i] = stack[i]
  BY UnwindKeeps DEF TypeOK
<1> QED BY <1>1 DEF WellNested, Suspends

LEMMA ReplaceNested ==
  ASSUME TypeOK, WellNested, stack # <<>>, NEW f \in Frame, stack' = Replace(f),
         f.kind = Top.kind,
         f.at # "reply" => f.kind \in Body,
         f.at = "syscall" => Suspends(f.kind)
  PROVE  WellNested'
<1>1. /\ Len(stack) \in Nat \ {0}
      /\ DOMAIN stack = 1..Len(stack)
      /\ DOMAIN stack' = DOMAIN stack
      /\ Len(stack') = Len(stack)
      /\ stack'[Len(stack)] = f
      /\ \A i \in DOMAIN stack : i < Len(stack) => stack'[i] = stack[i]
  BY ReplaceKeeps DEF TypeOK
<1>2. ASSUME NEW i \in DOMAIN stack'
      PROVE  /\ i < Len(stack') => stack'[i].at = "syscall"
             /\ stack'[i].at # "reply" => stack'[i].kind \in Body
             /\ stack'[i].at = "syscall" => Suspends(stack'[i].kind)
             /\ stack'[i].kind = OnLoad => i = 1
  <2>1. CASE i < Len(stack)
    BY <1>1, <2>1 DEF WellNested
  <2>2. CASE i = Len(stack)
    BY <1>1, <2>2 DEF WellNested, Top
  <2> QED BY <1>1, <2>1, <2>2
<1> QED BY <1>2 DEF WellNested, Suspends

\* Nothing that is not an exported function or a registered closure registers.
LEMMA RegistersOnlyBodies ==
  ASSUME TypeOK, WellNested, Running
  PROVE  Top.kind \in Body
BY TopIsFrame DEF WellNested, Running, Top

LEMMA WellNestedInit == Init => WellNested
BY DEF Init, WellNested

LEMMA WellNestedStep == TypeOK /\ WellNested /\ [Next]_vars => WellNested'
<1> SUFFICES ASSUME TypeOK, WellNested, [Next]_vars PROVE WellNested'
  OBVIOUS
<1>1. CASE UNCHANGED vars
  BY <1>1 DEF vars, WellNested, Suspends
<1>2. CASE HostInfo
  <2>1. /\ CanEnter /\ stack' = Append(stack, InfoFrame) /\ InfoFrame.at = "reply"
        /\ InfoFrame.kind # OnLoad
    BY <1>2 DEF HostInfo, InfoFrame, Info, OnLoad
  <2> QED BY <2>1, InfoIsFrame, PushNested
<1>3. CASE EnterOnLoad
  <2>1. /\ CanEnter /\ stack' = Append(stack, Fresh(OnLoad, NoCallback)) /\ stack = <<>>
        /\ Fresh(OnLoad, NoCallback) \in Frame
    BY <1>3, FreshIsFrame, HooksAreBodies DEF EnterOnLoad
  <2>2. Fresh(OnLoad, NoCallback).at = "body" /\ Fresh(OnLoad, NoCallback).kind = OnLoad
    BY DEF Fresh
  <2> QED BY <2>1, <2>2, HooksAreBodies, PushNested
<1>4. CASE EnterOnUnload
  <2>1. /\ CanEnter /\ stack' = Append(stack, Fresh(OnUnload, NoCallback))
        /\ Fresh(OnUnload, NoCallback) \in Frame
    BY <1>4, FreshIsFrame, HooksAreBodies DEF EnterOnUnload
  <2>2. Fresh(OnUnload, NoCallback).at = "body" /\ Fresh(OnUnload, NoCallback).kind = OnUnload
    BY DEF Fresh
  <2>3. OnUnload # OnLoad
    BY DEF OnUnload, OnLoad
  <2> QED BY <2>1, <2>2, <2>3, HooksAreBodies, PushNested
<1>5. ASSUME NEW e \in known, Dispatch(e) PROVE WellNested'
  <2> DEFINE c == table[TableOf(e.kind)][e.token + 1]
  <2>1. /\ CanEnter /\ stack' = Append(stack, Fresh(e.kind, c))
        /\ Fresh(e.kind, c) \in Frame /\ e \in Entry
    BY <1>5, DispatchEffect DEF Dispatch
  <2>2. Fresh(e.kind, c).at = "body" /\ Fresh(e.kind, c).kind = e.kind
    BY DEF Fresh
  <2>3. e.kind \in Body /\ e.kind # OnLoad
    BY <2>1 DEF Entry, Body, Kind, OnLoad
  <2> HIDE DEF c
  <2> QED BY <2>1, <2>2, <2>3, PushNested
<1>6. ASSUME NEW r \in Reg, NEW c \in Callback, Register(r, c) PROVE WellNested'
  <2>1. /\ Running /\ r \in Registers[Top.kind] /\ Top.kind \in Body
        /\ Len(stack') = Len(stack) /\ DOMAIN stack' = DOMAIN stack
        /\ DOMAIN stack = 1..Len(stack) /\ Len(stack) \in Nat \ {0}
        /\ stack'[Len(stack)].at = "syscall"
        /\ \A i \in DOMAIN stack :
             /\ stack'[i].kind = stack[i].kind
             /\ i < Len(stack) => stack'[i].at = stack[i].at
    BY <1>6, RegisterEffect, RegistersOnlyBodies DEF Running, TypeOK
  <2>2. ASSUME NEW i \in DOMAIN stack'
        PROVE  /\ i < Len(stack') => stack'[i].at = "syscall"
               /\ stack'[i].at # "reply" => stack'[i].kind \in Body
               /\ stack'[i].at = "syscall" => Suspends(stack'[i].kind)
               /\ stack'[i].kind = OnLoad => i = 1
    <3>1. CASE i < Len(stack)
      BY <2>1, <3>1 DEF WellNested
    <3>2. CASE i = Len(stack)
      BY <2>1, <3>2 DEF WellNested, Top, Suspends
    <3> QED BY <2>1, <3>1, <3>2
  <2> QED BY <2>2 DEF WellNested, Suspends
<1>7. CASE Syscall
  <2> DEFINE f == [Top EXCEPT !.at = "syscall"]
  <2>1. stack # <<>> /\ stack' = Replace(f) /\ Suspends(Top.kind) /\ Top.kind \in Body
    BY <1>7, RegistersOnlyBodies DEF Syscall, Running, Suspends
  <2>2. f \in Frame /\ f.kind = Top.kind
    BY <2>1, TopAdvances, TopIsFrame DEF Frame
  <2> HIDE DEF f
  <2> QED BY <2>1, <2>2, ReplaceNested
<1>8. ASSUME NEW v \in Value, ReturnPacked(v) PROVE WellNested'
  <2> DEFINE f == [Top EXCEPT !.at = "reply", !.ans = v]
  <2>1. stack # <<>> /\ stack' = Replace(f)
    BY <1>8 DEF ReturnPacked, Running
  <2>2. f \in Frame /\ f.kind = Top.kind /\ f.at = "reply"
    BY <2>1, TopAdvances, TopIsFrame DEF Frame
  <2> HIDE DEF f
  <2> QED BY <2>1, <2>2, ReplaceNested
<1>9. CASE Return
  BY <1>9, PopUnwinds, UnwindNested DEF Return, Running
<1>10. CASE Trap
  BY <1>10, UnwindNested DEF Trap, Running
<1>11. CASE HostRecords
  BY <1>11 DEF HostRecords, WellNested, Suspends
<1>12. CASE HostReturns
  <2> DEFINE f == [Top EXCEPT !.at = "body", !.announce = {}]
  <2>1. stack # <<>> /\ stack' = Replace(f) /\ Top.at = "syscall"
    BY <1>12 DEF HostReturns
  <2>2. f \in Frame /\ f.kind = Top.kind /\ f.at = "body"
    BY <2>1, TopAdvances, TopIsFrame DEF Frame
  <2>3. Top.kind \in Body
    BY <2>1, TopIsFrame DEF WellNested, Top
  <2> HIDE DEF f
  <2> QED BY <2>1, <2>2, <2>3, ReplaceNested
<1>13. CASE HostCopies
  BY <1>13, PopUnwinds, UnwindNested DEF HostCopies
<1> QED
  BY <1>1, <1>2, <1>3, <1>4, <1>5, <1>6, <1>7, <1>8, <1>9, <1>10, <1>11, <1>12, <1>13,
     NextIsRegister

----------------------------------------------------------------------------
(* Tokens. *)

LEMMA InStepInit == Init => InStep
BY DEF Init, InStep, Table

LEMMA InStepStep == TypeOK /\ InStep /\ [Next]_vars => InStep'
<1> SUFFICES ASSUME TypeOK, InStep, [Next]_vars PROVE InStep'
  OBVIOUS
<1>1. CASE table' = table
  BY <1>1 DEF InStep
<1>2. ASSUME NEW r \in Reg, NEW c \in Callback, Register(r, c) PROVE InStep'
  <2>1. "cfg_get" \in Pushes(r) <=> "cfg_set" \in Pushes(r)
    BY DEF Pushes, Reg
  <2>2. \A t \in {"cfg_get", "cfg_set"} :
          /\ table[t] \in Seq(Callback)
          /\ table'[t] = IF t \in Pushes(r) THEN Append(table[t], c) ELSE table[t]
    BY <1>2, RegisterEffect DEF Table, TypeOK
  <2>3. ASSUME NEW t \in {"cfg_get", "cfg_set"}
        PROVE  Len(table'[t]) = IF t \in Pushes(r) THEN Len(table[t]) + 1
                                                   ELSE Len(table[t])
    <3> DEFINE old == table[t]
               new == table'[t]
    <3>1. old \in Seq(Callback) /\ new = IF t \in Pushes(r) THEN Append(old, c) ELSE old
      BY <2>2
    <3> HIDE DEF old, new
    <3>2. Len(new) = IF t \in Pushes(r) THEN Len(old) + 1 ELSE Len(old)
      BY <3>1
    <3> QED BY <3>2 DEF old, new
  <2>4. Len(table'["cfg_get"]) = Len(table'["cfg_set"])
    BY <2>1, <2>3 DEF InStep
  <2> QED BY <2>4 DEF InStep
<1>3. CASE UNCHANGED vars
  BY <1>1, <1>3 DEF vars
<1>4. CASE HostInfo \/ EnterOnLoad \/ EnterOnUnload
  BY <1>1, <1>4 DEF HostInfo, EnterOnLoad, EnterOnUnload
<1>5. ASSUME NEW e \in known, Dispatch(e) PROVE InStep'
  BY <1>1, <1>5 DEF Dispatch
<1>6. ASSUME NEW v \in Value, ReturnPacked(v) PROVE InStep'
  BY <1>1, <1>6 DEF ReturnPacked
<1>7. CASE Syscall \/ Return \/ Trap
  BY <1>1, <1>7 DEF Syscall, Return, Trap
<1>8. CASE HostRecords \/ HostReturns \/ HostCopies
  BY <1>1, <1>8 DEF HostRecords, HostReturns, HostCopies
<1> QED BY <1>2, <1>3, <1>4, <1>5, <1>6, <1>7, <1>8, NextIsRegister

\* A later registration leaves the elements of every table where they are.
LEMMA RegisterKeepsTokens ==
  ASSUME TypeOK, NEW r \in Reg, NEW c \in Callback, Register(r, c),
         NEW e \in Entry, Denotes(e)
  PROVE  Denotes(e)'
<1> DEFINE t == TableOf(e.kind)
<1>1. t \in Table /\ e.token \in Nat
  BY DEF Entry, TableOf, Kind, Table
<1>2. /\ table[t] \in Seq(Callback)
      /\ table'[t] = IF t \in Pushes(r) THEN Append(table[t], c) ELSE table[t]
  BY <1>1, RegisterEffect DEF TypeOK
<1>3. e.token < Len(table[t]) /\ table[t][e.token + 1] = e.cb
  BY DEF Denotes
<1> HIDE DEF t
<1>4. e.token < Len(table'[t]) /\ table'[t][e.token + 1] = e.cb
  BY <1>1, <1>2, <1>3
<1> QED BY <1>4 DEF Denotes, t

\* The tokens a registration hands out denote its closure.
LEMMA RegisterBinds ==
  ASSUME TypeOK, InStep, NEW r \in Reg, NEW c \in Callback, Register(r, c), NEW k \in KindsOf(r),
         NEW e, e = [kind |-> k, token |-> TokenOf(r), cb |-> c]
  PROVE  Denotes(e)'
<1> DEFINE t == TableOf(e.kind)
<1>1. k \in Kind /\ TableOf(k) \in Table /\ TableOf(k) \in Pushes(r)
  BY KindsAreKinds, TablesOfKinds
<1>2. e.kind = k /\ e.cb = c /\ e.token = Len(table[TableOf(k)])
  BY TokenIsSize
<1>3. table[t] \in Seq(Callback) /\ table'[t] = Append(table[t], c) /\ e.token = Len(table[t])
  BY <1>1, <1>2, RegisterEffect DEF TypeOK
<1> HIDE DEF t
<1>4. e.token < Len(table'[t]) /\ table'[t][e.token + 1] = e.cb
  BY <1>2, <1>3
<1> QED BY <1>4 DEF Denotes, t

\* When the tables stay and the announcements and the host's record draw on
\* what was there before, every token still denotes its closure.
LEMMA TokensKept ==
  ASSUME TokensDenote, table' = table, (known \cup Announced)' \subseteq known \cup Announced
  PROVE  TokensDenote'
BY DEF TokensDenote, Denotes

LEMMA AnnouncedIsEntry == TypeOK => known \cup Announced \subseteq Entry
<1> SUFFICES ASSUME TypeOK, NEW i \in DOMAIN stack PROVE stack[i].announce \subseteq Entry
  BY DEF Announced, TypeOK
<1>1. stack[i] \in Frame
  BY DEF TypeOK
<1> QED BY <1>1 DEF Frame

\* Pushing a frame that announces nothing, popping, and replacing the last
\* frame by one that announces no more than it did, announce nothing new.
LEMMA AnnouncedByPush ==
  ASSUME TypeOK, NEW f \in Frame, stack' = Append(stack, f), f.announce = {}
  PROVE  Announced' \subseteq Announced
<1>1. /\ DOMAIN stack = 1..Len(stack) /\ DOMAIN stack' = 1..(Len(stack) + 1)
      /\ Len(stack) \in Nat
      /\ stack'[Len(stack) + 1] = f
      /\ \A i \in DOMAIN stack : stack'[i] = stack[i]
  BY AppendKeeps DEF TypeOK
<1> QED BY <1>1 DEF Announced

LEMMA AnnouncedByUnwind ==
  ASSUME TypeOK, stack # <<>>, NEW k \in 0..(Len(stack) - 1), stack' = Unwound(k)
  PROVE  Announced' \subseteq Announced
BY UnwindKeeps DEF Announced

LEMMA AnnouncedByReplace ==
  ASSUME TypeOK, stack # <<>>, NEW f \in Frame, stack' = Replace(f),
         f.announce \subseteq Top.announce
  PROVE  Announced' \subseteq Announced
<1>1. /\ DOMAIN stack = 1..Len(stack) /\ DOMAIN stack' = DOMAIN stack
      /\ Len(stack) \in Nat \ {0}
      /\ stack'[Len(stack)] = f
      /\ \A i \in DOMAIN stack : i < Len(stack) => stack'[i] = stack[i]
  BY ReplaceKeeps DEF TypeOK
<1>2. ASSUME NEW i \in DOMAIN stack' PROVE stack'[i].announce \subseteq stack[i].announce
  <2>1. CASE i < Len(stack)
    BY <1>1, <2>1
  <2>2. CASE i = Len(stack)
    BY <1>1, <2>2 DEF Top
  <2> QED BY <1>1, <2>1, <2>2
<1> QED BY <1>1, <1>2 DEF Announced

LEMMA TokensInit == Init => TokensDenote
BY DEF Init, TokensDenote, Announced

LEMMA TokensStep == TypeOK /\ InStep /\ TokensDenote /\ [Next]_vars => TokensDenote'
<1> SUFFICES ASSUME TypeOK, InStep, TokensDenote, [Next]_vars PROVE TokensDenote'
  OBVIOUS
<1>1. CASE UNCHANGED vars
  BY <1>1, TokensKept DEF vars, Announced
<1>2. CASE HostInfo
  <2>1. stack' = Append(stack, InfoFrame) /\ InfoFrame.announce = {}
    BY <1>2 DEF HostInfo, InfoFrame
  <2> QED BY <1>2, <2>1, InfoIsFrame, AnnouncedByPush, TokensKept DEF HostInfo
<1>3. CASE EnterOnLoad
  <2>1. /\ stack' = Append(stack, Fresh(OnLoad, NoCallback))
        /\ Fresh(OnLoad, NoCallback) \in Frame
        /\ Fresh(OnLoad, NoCallback).announce = {}
    BY <1>3, FreshIsFrame, HooksAreBodies DEF EnterOnLoad, Fresh
  <2> QED BY <1>3, <2>1, AnnouncedByPush, TokensKept DEF EnterOnLoad
<1>4. CASE EnterOnUnload
  <2>1. /\ stack' = Append(stack, Fresh(OnUnload, NoCallback))
        /\ Fresh(OnUnload, NoCallback) \in Frame
        /\ Fresh(OnUnload, NoCallback).announce = {}
    BY <1>4, FreshIsFrame, HooksAreBodies DEF EnterOnUnload, Fresh
  <2> QED BY <1>4, <2>1, AnnouncedByPush, TokensKept DEF EnterOnUnload
<1>5. ASSUME NEW e \in known, Dispatch(e) PROVE TokensDenote'
  <2> DEFINE c == table[TableOf(e.kind)][e.token + 1]
  <2>1. Fresh(e.kind, c) \in Frame /\ stack' = Append(stack, Fresh(e.kind, c))
    BY <1>5, DispatchEffect
  <2>2. Fresh(e.kind, c).announce = {}
    BY DEF Fresh
  <2> HIDE DEF c
  <2> QED BY <1>5, <2>1, <2>2, AnnouncedByPush, TokensKept DEF Dispatch
<1>6. ASSUME NEW r \in Reg, NEW c \in Callback, Register(r, c) PROVE TokensDenote'
  <2> DEFINE E == {[kind |-> k, token |-> TokenOf(r), cb |-> c] : k \in KindsOf(r)}
  <2>1. /\ DOMAIN stack' = DOMAIN stack /\ DOMAIN stack = 1..Len(stack)
        /\ Len(stack) \in Nat
        /\ stack'[Len(stack)].announce = E
        /\ \A i \in DOMAIN stack : i < Len(stack) => stack'[i].announce = stack[i].announce
    BY <1>6, RegisterEffect DEF TypeOK
  <2>2. (known \cup Announced)' \subseteq (known \cup Announced) \cup E
    <3>1. known' = known
      BY <1>6 DEF Register
    <3>2. \A i \in DOMAIN stack' : stack'[i].announce \subseteq Announced \cup E
      <4> SUFFICES ASSUME NEW i \in DOMAIN stack'
                   PROVE  stack'[i].announce \subseteq Announced \cup E
        OBVIOUS
      <4>1. i < Len(stack) \/ i = Len(stack)
        BY <2>1
      <4> HIDE DEF E
      <4> QED BY <2>1, <4>1 DEF Announced
    <3> HIDE DEF E
    <3> QED BY <3>1, <3>2 DEF Announced
  <2>3. ASSUME NEW e \in known \cup Announced PROVE Denotes(e)'
    BY <1>6, <2>3, AnnouncedIsEntry, RegisterKeepsTokens DEF TokensDenote
  <2>4. ASSUME NEW e \in E PROVE Denotes(e)'
    <3>1. PICK k \in KindsOf(r) : e = [kind |-> k, token |-> TokenOf(r), cb |-> c]
      BY <2>4
    <3> QED BY <1>6, <3>1, RegisterBinds
  <2> HIDE DEF E
  <2> QED BY <2>2, <2>3, <2>4 DEF TokensDenote
<1>7. CASE Syscall
  <2> DEFINE f == [Top EXCEPT !.at = "syscall"]
  <2>1. stack # <<>> /\ stack' = Replace(f)
    BY <1>7 DEF Syscall, Running
  <2>2. f \in Frame /\ f.announce = Top.announce
    BY <2>1, TopAdvances, TopIsFrame DEF Frame
  <2> HIDE DEF f
  <2> QED BY <1>7, <2>1, <2>2, AnnouncedByReplace, TokensKept DEF Syscall
<1>8. ASSUME NEW v \in Value, ReturnPacked(v) PROVE TokensDenote'
  <2> DEFINE f == [Top EXCEPT !.at = "reply", !.ans = v]
  <2>1. stack # <<>> /\ stack' = Replace(f)
    BY <1>8 DEF ReturnPacked, Running
  <2>2. f \in Frame /\ f.announce = Top.announce
    BY <2>1, TopAdvances, TopIsFrame DEF Frame
  <2> HIDE DEF f
  <2> QED BY <1>8, <2>1, <2>2, AnnouncedByReplace, TokensKept DEF ReturnPacked
<1>9. CASE Return
  BY <1>9, PopUnwinds, AnnouncedByUnwind, TokensKept DEF Return, Running
<1>10. CASE Trap
  BY <1>10, AnnouncedByUnwind, TokensKept DEF Trap, Running
<1>11. CASE HostRecords
  <2>1. Top.announce \subseteq Announced
    BY <1>11, TopIsFrame DEF HostRecords, Announced, Top
  <2> QED BY <1>11, <2>1, TokensKept DEF HostRecords, Announced
<1>12. CASE HostReturns
  <2> DEFINE f == [Top EXCEPT !.at = "body", !.announce = {}]
  <2>1. stack # <<>> /\ stack' = Replace(f)
    BY <1>12 DEF HostReturns
  <2>2. f \in Frame /\ f.announce = {}
    BY <2>1, TopAdvances, TopIsFrame DEF Frame
  <2> HIDE DEF f
  <2> QED BY <1>12, <2>1, <2>2, AnnouncedByReplace, TokensKept DEF HostReturns
<1>13. CASE HostCopies
  BY <1>13, PopUnwinds, AnnouncedByUnwind, TokensKept DEF HostCopies
<1> QED
  BY <1>1, <1>2, <1>3, <1>4, <1>5, <1>6, <1>7, <1>8, <1>9, <1>10, <1>11, <1>12, <1>13,
     NextIsRegister

\* Dispatch never reaches another closure than the one a token was handed out
\* for, nor a slot that is not there: for any profile of registrations.
THEOREM TokensCorrect == Spec => []TokensDenote
<1>1. Init => TypeOK /\ InStep /\ TokensDenote
  BY TypeInit, InStepInit, TokensInit
<1>2. TypeOK /\ InStep /\ TokensDenote /\ [Next]_vars
        => (TypeOK /\ InStep /\ TokensDenote)'
  BY TypeStep, InStepStep, TokensStep
<1> QED BY <1>1, <1>2, PTL DEF Spec

----------------------------------------------------------------------------
(* Replies. *)

LEMMA NoReply ==
  ASSUME \A i \in DOMAIN stack' : stack'[i].at # "reply"
  PROVE  ReplyMatches'
BY DEF ReplyMatches

\* Entering needs the control that a pending reply keeps from the host.
LEMMA NoReplyAfterPush ==
  ASSUME TypeOK, WellNested, CanEnter, NEW f \in Frame, stack' = Append(stack, f)
  PROVE  /\ DOMAIN stack' = 1..(Len(stack) + 1) /\ Len(stack) \in Nat
         /\ stack'[Len(stack) + 1] = f
         /\ \A i \in 1..Len(stack) : stack'[i].at = "syscall"
<1>1. /\ DOMAIN stack = 1..Len(stack) /\ DOMAIN stack' = 1..(Len(stack) + 1)
      /\ Len(stack) \in Nat
      /\ stack'[Len(stack) + 1] = f
      /\ \A i \in DOMAIN stack : stack'[i] = stack[i]
  BY AppendKeeps DEF TypeOK
<1>2. \A i \in DOMAIN stack : stack[i].at = "syscall"
  BY <1>1 DEF CanEnter, Top, WellNested
<1> QED BY <1>1, <1>2

\* A frame that is not at its reply pushed on frames in syscalls, or put in
\* the place of the last one, leaves no reply pending.
LEMMA NoReplyAfterEnter ==
  ASSUME TypeOK, WellNested, CanEnter, NEW f \in Frame, stack' = Append(stack, f),
         f.at = "body"
  PROVE  ReplyMatches'
<1>1. \A i \in DOMAIN stack' : stack'[i].at # "reply"
  BY NoReplyAfterPush
<1> QED BY <1>1, NoReply

LEMMA NoReplyAfterReplace ==
  ASSUME TypeOK, WellNested, stack # <<>>, NEW f \in Frame, stack' = Replace(f),
         f.at = "reply" => ret' = f.ans
  PROVE  ReplyMatches'
<1>1. /\ DOMAIN stack = 1..Len(stack) /\ DOMAIN stack' = DOMAIN stack
      /\ Len(stack) \in Nat \ {0}
      /\ stack'[Len(stack)] = f
      /\ \A i \in DOMAIN stack : i < Len(stack) => stack'[i] = stack[i]
  BY ReplaceKeeps DEF TypeOK
<1>2. ASSUME NEW i \in DOMAIN stack', stack'[i].at = "reply" PROVE ret' = stack'[i].ans
  <2>1. CASE i < Len(stack)
    BY <1>1, <1>2, <2>1 DEF WellNested
  <2>2. CASE i = Len(stack)
    BY <1>1, <1>2, <2>2
  <2> QED BY <1>1, <2>1, <2>2
<1> QED BY <1>2 DEF ReplyMatches

LEMMA ReplyInit == Init => ReplyMatches
BY DEF Init, ReplyMatches

LEMMA ReplyStep == TypeOK /\ WellNested /\ ReplyMatches /\ [Next]_vars => ReplyMatches'
<1> SUFFICES ASSUME TypeOK, WellNested, ReplyMatches, [Next]_vars PROVE ReplyMatches'
  OBVIOUS
<1>1. CASE UNCHANGED vars
  BY <1>1 DEF vars, ReplyMatches
<1>2. CASE HostInfo
  <2>1. CanEnter /\ stack' = Append(stack, InfoFrame) /\ ret' = InfoFrame.ans
    BY <1>2 DEF HostInfo, InfoFrame
  <2> QED BY <2>1, InfoIsFrame, NoReplyAfterPush DEF ReplyMatches
<1>3. CASE EnterOnLoad
  <2>1. /\ CanEnter /\ stack' = Append(stack, Fresh(OnLoad, NoCallback))
        /\ Fresh(OnLoad, NoCallback) \in Frame
        /\ Fresh(OnLoad, NoCallback).at = "body"
    BY <1>3, FreshIsFrame, HooksAreBodies DEF EnterOnLoad, Fresh
  <2> QED BY <2>1, NoReplyAfterEnter
<1>4. CASE EnterOnUnload
  <2>1. /\ CanEnter /\ stack' = Append(stack, Fresh(OnUnload, NoCallback))
        /\ Fresh(OnUnload, NoCallback) \in Frame
        /\ Fresh(OnUnload, NoCallback).at = "body"
    BY <1>4, FreshIsFrame, HooksAreBodies DEF EnterOnUnload, Fresh
  <2> QED BY <2>1, NoReplyAfterEnter
<1>5. ASSUME NEW e \in known, Dispatch(e) PROVE ReplyMatches'
  <2> DEFINE c == table[TableOf(e.kind)][e.token + 1]
  <2>1. CanEnter /\ Fresh(e.kind, c) \in Frame /\ stack' = Append(stack, Fresh(e.kind, c))
    BY <1>5, DispatchEffect DEF Dispatch
  <2>2. Fresh(e.kind, c).at = "body"
    BY DEF Fresh
  <2> HIDE DEF c
  <2> QED BY <2>1, <2>2, NoReplyAfterEnter
<1>6. ASSUME NEW r \in Reg, NEW c \in Callback, Register(r, c) PROVE ReplyMatches'
  <2>1. /\ DOMAIN stack' = DOMAIN stack /\ DOMAIN stack = 1..Len(stack)
        /\ Len(stack) \in Nat
        /\ stack'[Len(stack)].at = "syscall"
        /\ \A i \in DOMAIN stack : i < Len(stack) => stack'[i].at = stack[i].at
    BY <1>6, RegisterEffect DEF TypeOK
  <2>2. \A i \in DOMAIN stack' : stack'[i].at # "reply"
    <3> SUFFICES ASSUME NEW i \in DOMAIN stack' PROVE stack'[i].at = "syscall"
      OBVIOUS
    <3>1. i < Len(stack) \/ i = Len(stack)
      BY <2>1
    <3> QED BY <2>1, <3>1 DEF WellNested
  <2> QED BY <2>2, NoReply
<1>7. CASE Syscall
  <2> DEFINE f == [Top EXCEPT !.at = "syscall"]
  <2>1. stack # <<>> /\ stack' = Replace(f)
    BY <1>7 DEF Syscall, Running
  <2>2. f \in Frame /\ f.at # "reply"
    BY <2>1, TopAdvances, TopIsFrame DEF Frame
  <2> HIDE DEF f
  <2> QED BY <2>1, <2>2, NoReplyAfterReplace
<1>8. ASSUME NEW v \in Value, ReturnPacked(v) PROVE ReplyMatches'
  <2> DEFINE f == [Top EXCEPT !.at = "reply", !.ans = v]
  <2>1. stack # <<>> /\ stack' = Replace(f) /\ ret' = v
    BY <1>8 DEF ReturnPacked, Running
  <2>2. f \in Frame /\ f.ans = v
    BY <2>1, TopAdvances, TopIsFrame DEF Frame
  <2> HIDE DEF f
  <2> QED BY <2>1, <2>2, NoReplyAfterReplace
<1>9. CASE Return
  BY <1>9, PopUnwinds, UnwindNested, NoReply DEF Return, Running
<1>10. CASE Trap
  BY <1>10, UnwindNested, NoReply DEF Trap, Running
<1>11. CASE HostRecords
  BY <1>11 DEF HostRecords, ReplyMatches
<1>12. CASE HostReturns
  <2> DEFINE f == [Top EXCEPT !.at = "body", !.announce = {}]
  <2>1. stack # <<>> /\ stack' = Replace(f)
    BY <1>12 DEF HostReturns
  <2>2. f \in Frame /\ f.at # "reply"
    BY <2>1, TopAdvances, TopIsFrame DEF Frame
  <2> HIDE DEF f
  <2> QED BY <2>1, <2>2, NoReplyAfterReplace
<1>13. CASE HostCopies
  BY <1>13, PopUnwinds, UnwindNested, NoReply DEF HostCopies
<1> QED
  BY <1>1, <1>2, <1>3, <1>4, <1>5, <1>6, <1>7, <1>8, <1>9, <1>10, <1>11, <1>12, <1>13,
     NextIsRegister

\* The host always copies the answer of the activation that has just packed
\* it, however many activations shared the one buffer meanwhile.
THEOREM RepliesCorrect == Spec => []ReplyMatches
<1>1. Init => TypeOK /\ WellNested /\ ReplyMatches
  BY TypeInit, WellNestedInit, ReplyInit
<1>2. TypeOK /\ WellNested /\ ReplyMatches /\ [Next]_vars
        => (TypeOK /\ WellNested /\ ReplyMatches)'
  BY TypeStep, WellNestedStep, ReplyStep
<1> QED BY <1>1, <1>2, PTL DEF Spec

----------------------------------------------------------------------------
(* Closures that run. *)

\* No registration moves the closure of a frame on the stack: a frame below
\* the last waits in a syscall, the last one is registering, so both have
\* kinds that can be suspended; and on_load, which the discipline exempts,
\* registers with nothing below it.
LEMMA NothingMoves ==
  ASSUME TypeOK, WellNested, Discipline, NEW r \in Reg, Running, r \in Registers[Top.kind],
         NEW i \in DOMAIN stack
  PROVE  ~Moved(stack[i], r)
<1> SUFFICES ASSUME Moved(stack[i], r) PROVE FALSE
  OBVIOUS
<1>1. /\ stack[i].kind \in Kind \ Boxed
      /\ stack[i].kind \in KindsOf(r)
  <2>1. stack[i].kind \in Kind \ Boxed /\ TableOf(stack[i].kind) \in Pushes(r)
    BY DEF Moved
  <2> QED BY <2>1, TablesOfKinds
<1>2. /\ Top.kind \in Body /\ DOMAIN stack = 1..Len(stack) /\ Len(stack) \in Nat \ {0}
  BY RegistersOnlyBodies DEF Running, TypeOK
<1>3. Suspends(stack[i].kind)
  <2>1. CASE i < Len(stack)
    BY <2>1 DEF WellNested
  <2>2. CASE i = Len(stack)
    BY <2>2 DEF Top, Suspends
  <2> QED BY <1>2, <2>1, <2>2
<1>4. Top.kind \in Kind \cup {OnUnload}
  <2>1. CASE Top.kind = OnLoad
    <3>1. Len(stack) = 1
      BY <1>2, <2>1 DEF WellNested, Top
    <3>2. stack[i].kind = OnLoad
      BY <1>2, <2>1, <3>1 DEF Top
    <3> QED BY <1>1, <3>2 DEF Kind, OnLoad
  <2> QED BY <1>2, <2>1 DEF Body
<1> QED BY <1>1, <1>3, <1>4 DEF Discipline

LEMMA IntactInit == Init => ClosureIntact
BY DEF Init, ClosureIntact

LEMMA IntactByPush ==
  ASSUME TypeOK, ClosureIntact, NEW f \in Frame, stack' = Append(stack, f), f.intact
  PROVE  ClosureIntact'
<1>1. /\ DOMAIN stack = 1..Len(stack) /\ DOMAIN stack' = 1..(Len(stack) + 1)
      /\ Len(stack) \in Nat
      /\ stack'[Len(stack) + 1] = f
      /\ \A i \in DOMAIN stack : stack'[i] = stack[i]
  BY AppendKeeps DEF TypeOK
<1>2. \A i \in DOMAIN stack' : i \in DOMAIN stack \/ i = Len(stack) + 1
  BY <1>1
<1> QED BY <1>1, <1>2 DEF ClosureIntact

LEMMA IntactByUnwind ==
  ASSUME TypeOK, ClosureIntact, stack # <<>>,
         NEW k \in 0..(Len(stack) - 1), stack' = Unwound(k)
  PROVE  ClosureIntact'
BY UnwindKeeps DEF ClosureIntact

LEMMA IntactByReplace ==
  ASSUME TypeOK, ClosureIntact, stack # <<>>, NEW f \in Frame, stack' = Replace(f),
         f.intact = Top.intact
  PROVE  ClosureIntact'
<1>1. /\ DOMAIN stack = 1..Len(stack) /\ DOMAIN stack' = DOMAIN stack
      /\ Len(stack) \in Nat \ {0}
      /\ stack'[Len(stack)] = f
      /\ \A i \in DOMAIN stack : i < Len(stack) => stack'[i] = stack[i]
  BY ReplaceKeeps DEF TypeOK
<1>2. f.intact
  BY <1>1 DEF ClosureIntact, Top
<1>3. \A i \in DOMAIN stack : i < Len(stack) \/ i = Len(stack)
  BY <1>1
<1> QED BY <1>1, <1>2, <1>3 DEF ClosureIntact

LEMMA IntactStep ==
  ASSUME Discipline
  PROVE  TypeOK /\ WellNested /\ ClosureIntact /\ [Next]_vars => ClosureIntact'
<1> SUFFICES ASSUME TypeOK, WellNested, ClosureIntact, [Next]_vars PROVE ClosureIntact'
  OBVIOUS
<1>1. CASE UNCHANGED vars
  BY <1>1 DEF vars, ClosureIntact
<1>2. CASE HostInfo
  <2>1. stack' = Append(stack, InfoFrame) /\ InfoFrame.intact
    BY <1>2 DEF HostInfo, InfoFrame
  <2> QED BY <2>1, InfoIsFrame, IntactByPush
<1>3. CASE EnterOnLoad
  <2>1. /\ stack' = Append(stack, Fresh(OnLoad, NoCallback))
        /\ Fresh(OnLoad, NoCallback) \in Frame
        /\ Fresh(OnLoad, NoCallback).intact
    BY <1>3, FreshIsFrame, HooksAreBodies DEF EnterOnLoad, Fresh
  <2> QED BY <2>1, IntactByPush
<1>4. CASE EnterOnUnload
  <2>1. /\ stack' = Append(stack, Fresh(OnUnload, NoCallback))
        /\ Fresh(OnUnload, NoCallback) \in Frame
        /\ Fresh(OnUnload, NoCallback).intact
    BY <1>4, FreshIsFrame, HooksAreBodies DEF EnterOnUnload, Fresh
  <2> QED BY <2>1, IntactByPush
<1>5. ASSUME NEW e \in known, Dispatch(e) PROVE ClosureIntact'
  <2> DEFINE c == table[TableOf(e.kind)][e.token + 1]
  <2>1. Fresh(e.kind, c) \in Frame /\ stack' = Append(stack, Fresh(e.kind, c))
    BY <1>5, DispatchEffect
  <2>2. Fresh(e.kind, c).intact
    BY DEF Fresh
  <2> HIDE DEF c
  <2> QED BY <2>1, <2>2, IntactByPush
<1>6. ASSUME NEW r \in Reg, NEW c \in Callback, Register(r, c) PROVE ClosureIntact'
  <2>1. /\ Running /\ r \in Registers[Top.kind]
        /\ DOMAIN stack' = DOMAIN stack
        /\ \A i \in DOMAIN stack :
             stack'[i].intact = (stack[i].intact /\ ~Moved(stack[i], r))
    BY <1>6, RegisterEffect DEF TypeOK
  <2>2. \A i \in DOMAIN stack : ~Moved(stack[i], r)
    BY <2>1, NothingMoves
  <2> QED BY <2>1, <2>2 DEF ClosureIntact
<1>7. CASE Syscall
  <2> DEFINE f == [Top EXCEPT !.at = "syscall"]
  <2>1. stack # <<>> /\ stack' = Replace(f)
    BY <1>7 DEF Syscall, Running
  <2>2. f \in Frame /\ f.intact = Top.intact
    BY <2>1, TopAdvances, TopIsFrame DEF Frame
  <2> HIDE DEF f
  <2> QED BY <2>1, <2>2, IntactByReplace
<1>8. ASSUME NEW v \in Value, ReturnPacked(v) PROVE ClosureIntact'
  <2> DEFINE f == [Top EXCEPT !.at = "reply", !.ans = v]
  <2>1. stack # <<>> /\ stack' = Replace(f)
    BY <1>8 DEF ReturnPacked, Running
  <2>2. f \in Frame /\ f.intact = Top.intact
    BY <2>1, TopAdvances, TopIsFrame DEF Frame
  <2> HIDE DEF f
  <2> QED BY <2>1, <2>2, IntactByReplace
<1>9. CASE Return
  BY <1>9, PopUnwinds, IntactByUnwind DEF Return, Running
<1>10. CASE Trap
  BY <1>10, IntactByUnwind DEF Trap, Running
<1>11. CASE HostRecords
  BY <1>11 DEF HostRecords, ClosureIntact
<1>12. CASE HostReturns
  <2> DEFINE f == [Top EXCEPT !.at = "body", !.announce = {}]
  <2>1. stack # <<>> /\ stack' = Replace(f)
    BY <1>12 DEF HostReturns
  <2>2. f \in Frame /\ f.intact = Top.intact
    BY <2>1, TopAdvances, TopIsFrame DEF Frame
  <2> HIDE DEF f
  <2> QED BY <2>1, <2>2, IntactByReplace
<1>13. CASE HostCopies
  BY <1>13, PopUnwinds, IntactByUnwind DEF HostCopies
<1> QED
  BY <1>1, <1>2, <1>3, <1>4, <1>5, <1>6, <1>7, <1>8, <1>9, <1>10, <1>11, <1>12, <1>13,
     NextIsRegister

\* In a module that keeps the discipline no closure ever loses its captures
\* while it runs, however deep the host re-enters the instance.
THEOREM ClosuresStayIntact == ASSUME Discipline PROVE Spec => []ClosureIntact
<1>1. Init => TypeOK /\ WellNested /\ ClosureIntact
  BY TypeInit, WellNestedInit, IntactInit
<1>2. TypeOK /\ WellNested /\ ClosureIntact /\ [Next]_vars
        => (TypeOK /\ WellNested /\ ClosureIntact)'
  BY TypeStep, WellNestedStep, IntactStep
<1> QED BY <1>1, <1>2, PTL DEF Spec
=============================================================================
