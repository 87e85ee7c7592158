-------------------------- MODULE ImplementsProofs --------------------------
(***************************************************************************)
(* ModRuntime implements CallbackService, for every set of closures, every *)
(* profile of module code and all bounds: the refinement of MCModRuntime,  *)
(* initial state and step by step.                                         *)
(*                                                                         *)
(* The steps rest on the invariants of ModRuntimeProofs and on what fits a *)
(* frame: an answer if it has packed one and only then, announcements that *)
(* hold one entry for each kind; and there are no more frames than entries *)
(* are allowed.                                                            *)
(***************************************************************************)
EXTENDS MCModRuntime, ModRuntimeProofs

Fits(f) ==
  /\ IF f.at = "reply" THEN f.ans # NoValue ELSE f.ans = NoValue
  /\ \A e, g \in f.announce : e.kind = g.kind => e = g

FramesFit ==
  /\ \A i \in DOMAIN stack : Fits(stack[i])
  /\ Len(stack) <= MaxDepth

ImplInv ==
  TypeOK /\ WellNested /\ InStep /\ TokensDenote /\ ReplyMatches /\ FramesFit

----------------------------------------------------------------------------
(* The calls of CallbackService are the frames. *)

Call(i, f) == [depth |-> i, kind |-> f.kind, cb |-> f.cb, ans |-> f.ans]

LEMMA CallsAreFrames ==
  ASSUME TypeOK
  PROVE  /\ ActiveCalls = {Call(i, stack[i]) : i \in 1..Len(stack)}
         /\ Len(stack) \in Nat /\ DOMAIN stack = 1..Len(stack)
         /\ \A i \in 1..Len(stack) : stack[i] \in Frame
BY DEF TypeOK, ActiveCalls, Call

LEMMA LastOrBefore ==
  ASSUME NEW n \in Nat
  PROVE  \A i \in 1..n : /\ i < n \/ i = n
                         /\ i < n <=> i # n
OBVIOUS

\* A step that leaves kind, closure and answer of each frame leaves the calls.
LEMMA SameCalls ==
  ASSUME TypeOK, TypeOK', Len(stack') = Len(stack),
         \A i \in 1..Len(stack) : /\ stack'[i].kind = stack[i].kind
                                  /\ stack'[i].cb = stack[i].cb
                                  /\ stack'[i].ans = stack[i].ans
  PROVE  ActiveCalls' = ActiveCalls
<1>1. ActiveCalls' = {Call(i, stack'[i]) : i \in 1..Len(stack)}
  BY DEF ActiveCalls, Call, TypeOK
<1>2. \A i \in 1..Len(stack) : Call(i, stack'[i]) = Call(i, stack[i])
  BY DEF Call
<1> QED BY <1>1, <1>2, CallsAreFrames

\* An entry adds a call deeper than all others.
LEMMA PushCalls ==
  ASSUME ImplInv, TypeOK', NEW f \in Frame, Fits(f), stack' = Append(stack, f),
         Len(stack) < MaxDepth, UNCHANGED <<known, got>>
  PROVE  FramesFit' /\ Abstract!Activate(f.kind, f.cb, f.ans)
<1> DEFINE n == Len(stack) + 1
<1>1. /\ ActiveCalls = {Call(i, stack[i]) : i \in 1..Len(stack)}
      /\ Len(stack) \in Nat /\ DOMAIN stack = 1..Len(stack)
  BY CallsAreFrames DEF ImplInv
<1>2. /\ Len(stack') = n /\ stack'[n] = f
      /\ \A i \in 1..Len(stack) : stack'[i] = stack[i]
  BY <1>1, AppendKeeps DEF ImplInv
<1>3. ActiveCalls' = {Call(i, stack'[i]) : i \in 1..n} /\ DOMAIN stack' = 1..n
  BY <1>2 DEF ActiveCalls, Call, TypeOK
<1>4. ActiveCalls' = ActiveCalls \cup {Call(n, f)}
  BY <1>1, <1>2, <1>3
<1>5. \A d \in ActiveCalls : d.depth < n
  BY <1>1 DEF Call
<1>6. n \in 1..MaxDepth
  BY <1>1, BoundsAssumption
<1>7. Call(n, f) = [depth |-> n, kind |-> f.kind, cb |-> f.cb, ans |-> f.ans]
  BY DEF Call
<1>8. FramesFit'
  <2>1. \A i \in 1..n : i \in 1..Len(stack) \/ i = n
    BY <1>1
  <2>2. \A i \in 1..n : Fits(stack'[i])
    BY <1>1, <1>2, <2>1 DEF ImplInv, FramesFit
  <2> QED BY <1>2, <1>3, <1>6, <2>2 DEF FramesFit
<1> QED BY <1>4, <1>5, <1>6, <1>7, <1>8 DEF Abstract!Activate

\* Frames that go take their calls, the deepest ones.
LEMMA UnwindCalls ==
  ASSUME ImplInv, TypeOK', stack # <<>>, NEW k \in 0..(Len(stack) - 1), stack' = Unwound(k)
  PROVE  /\ FramesFit'
         /\ ActiveCalls' = {c \in ActiveCalls : c.depth < k + 1}
         /\ k + 1 \in 1..MaxDepth
<1>1. /\ ActiveCalls = {Call(i, stack[i]) : i \in 1..Len(stack)}
      /\ Len(stack) \in Nat /\ DOMAIN stack = 1..Len(stack) /\ k \in Nat
  BY CallsAreFrames DEF ImplInv
<1>2. /\ Len(stack') = k /\ DOMAIN stack' = 1..k
      /\ \A i \in 1..k : i \in DOMAIN stack /\ i < Len(stack) /\ stack'[i] = stack[i]
  BY UnwindKeeps DEF ImplInv
<1>3. ActiveCalls' = {Call(i, stack[i]) : i \in 1..k}
  BY <1>2 DEF ActiveCalls, Call
<1>4. \A i \in 1..Len(stack) : Call(i, stack[i]).depth = i /\ (i < k + 1 <=> i \in 1..k)
  BY <1>1 DEF Call
<1>5. ActiveCalls' = {c \in ActiveCalls : c.depth < k + 1}
  <2>1. \A i \in 1..k : i \in 1..Len(stack)
    BY <1>1, <1>2
  <2> QED BY <1>1, <1>3, <1>4, <2>1
<1>6. Len(stack) <= MaxDepth /\ MaxDepth \in Nat
  BY BoundsAssumption DEF ImplInv, FramesFit
<1>7. k + 1 \in 1..MaxDepth /\ k <= MaxDepth
  BY <1>1, <1>6
<1>8. FramesFit'
  <2>1. \A i \in 1..k : Fits(stack'[i])
    BY <1>2 DEF ImplInv, FramesFit
  <2> QED BY <1>2, <1>7, <2>1 DEF FramesFit
<1> QED BY <1>5, <1>7, <1>8

\* The last frame goes on.
LEMMA ReplaceCalls ==
  ASSUME ImplInv, TypeOK', stack # <<>>, NEW f \in Frame, Fits(f), stack' = Replace(f),
         f.kind = Top.kind, f.cb = Top.cb
  PROVE  /\ FramesFit'
         /\ f.ans = Top.ans => ActiveCalls' = ActiveCalls
<1>1. /\ Len(stack) \in Nat \ {0} /\ DOMAIN stack = 1..Len(stack)
      /\ Len(stack') = Len(stack) /\ DOMAIN stack' = 1..Len(stack)
      /\ stack'[Len(stack)] = f
      /\ \A i \in 1..Len(stack) : i < Len(stack) => stack'[i] = stack[i]
  BY ReplaceKeeps DEF ImplInv, TypeOK
<1>2. \A i \in 1..Len(stack) : i < Len(stack) \/ i = Len(stack)
  BY CallsAreFrames, LastOrBefore DEF ImplInv
<1>3. FramesFit'
  <2>1. \A i \in 1..Len(stack) : Fits(stack'[i])
    BY <1>1, <1>2 DEF ImplInv, FramesFit
  <2> QED BY <1>1, <2>1 DEF ImplInv, FramesFit
<1>4. ASSUME f.ans = Top.ans
      PROVE  ActiveCalls' = ActiveCalls
  <2>1. \A i \in 1..Len(stack) : /\ stack'[i].kind = stack[i].kind
                                 /\ stack'[i].cb = stack[i].cb
                                 /\ stack'[i].ans = stack[i].ans
    BY <1>1, <1>2, <1>4 DEF Top
  <2> QED BY <1>1, <2>1, SameCalls DEF ImplInv
<1> QED BY <1>3, <1>4

\* The last frame is the deepest call.
LEMMA TopIsDeepest ==
  ASSUME ImplInv, stack # <<>>
  PROVE  LET c == Call(Len(stack), Top)
         IN  /\ c \in ActiveCalls /\ Abstract!Deepest(c)
             /\ c.kind = Top.kind /\ c.ans = Top.ans /\ c.depth = Len(stack)
             /\ {d \in ActiveCalls : d.depth < Len(stack)} = ActiveCalls \ {c}
             /\ Fits(Top) /\ Top \in Frame
<1>1. /\ ActiveCalls = {Call(i, stack[i]) : i \in 1..Len(stack)}
      /\ Len(stack) \in Nat /\ DOMAIN stack = 1..Len(stack) /\ Len(stack) \in 1..Len(stack)
      /\ Top = stack[Len(stack)]
  <2>1. Len(stack) \in DOMAIN stack /\ Top = stack[Len(stack)]
    BY TopIsFrame DEF ImplInv, Top
  <2> QED BY <2>1, CallsAreFrames DEF ImplInv
<1>2. \A i \in 1..Len(stack) : Call(i, stack[i]).depth = i
  BY DEF Call
<1>3. Call(Len(stack), Top) \in ActiveCalls /\ \A d \in ActiveCalls : d.depth <= Len(stack)
  BY <1>1, <1>2
<1>4. \A i \in 1..Len(stack) : i < Len(stack) <=> i # Len(stack)
  BY CallsAreFrames, LastOrBefore DEF ImplInv
<1>5. {d \in ActiveCalls : d.depth < Len(stack)} = ActiveCalls \ {Call(Len(stack), Top)}
  <2>1. \A i \in 1..Len(stack) :
          Call(i, stack[i]).depth < Len(stack) <=> Call(i, stack[i]) # Call(Len(stack), Top)
    <3> SUFFICES ASSUME NEW i \in 1..Len(stack)
                 PROVE  i # Len(stack) <=> Call(i, stack[i]) # Call(Len(stack), Top)
      BY <1>2, <1>4
    <3>1. i = Len(stack) => Call(i, stack[i]) = Call(Len(stack), Top)
      BY DEF Top
    <3>2. Call(i, stack[i]).depth = i /\ Call(Len(stack), Top).depth = Len(stack)
      BY DEF Call
    <3> QED BY <3>1, <3>2
  <2> QED BY <1>1, <2>1
<1>6. Fits(Top) /\ Top \in Frame
  BY <1>1, TopIsFrame DEF ImplInv, FramesFit
<1> QED BY <1>3, <1>5, <1>6 DEF Call, Abstract!Deepest

----------------------------------------------------------------------------
(* The steps. *)

\* What a step has to show.
Maps == FramesFit' /\ (Abstract!ANext \/ UNCHANGED <<known, ActiveCalls, got>>)

LEMMA FreshFits ==
  ASSUME NEW k, NEW c
  PROVE  /\ Fits(Fresh(k, c))
         /\ Fresh(k, c).kind = k /\ Fresh(k, c).cb = c /\ Fresh(k, c).ans = NoValue
BY DEF Fits, Fresh

\* An exported function, entered over whatever waits for the host.
LEMMA ExportMaps ==
  ASSUME ImplInv, TypeOK', NEW f \in Frame, Fits(f), stack' = Append(stack, f),
         CanEnter, UNCHANGED <<known, got>>,
         f.kind \in {OnLoad, OnUnload, Info}, f.cb = NoCallback,
         f.ans \in Value \cup {Meta, NoValue}
  PROVE  Maps
<1>1. FramesFit' /\ Abstract!Activate(f.kind, NoCallback, f.ans)
  BY PushCalls DEF CanEnter
<1>2. Abstract!InvokeExport
  BY <1>1 DEF Abstract!InvokeExport
<1> QED BY <1>1, <1>2 DEF Maps, Abstract!ANext

LEMMA InfoMaps == ASSUME ImplInv, TypeOK', HostInfo PROVE Maps
<1>1. stack' = Append(stack, InfoFrame) /\ CanEnter /\ UNCHANGED <<known, got>>
  BY DEF HostInfo, InfoFrame
<1>2. /\ Fits(InfoFrame) /\ InfoFrame.kind = Info /\ InfoFrame.cb = NoCallback
      /\ InfoFrame.ans = Meta
  BY AnswerAssumption DEF Fits, InfoFrame
<1> QED BY <1>1, <1>2, InfoIsFrame, ExportMaps

LEMMA HookMaps ==
  ASSUME ImplInv, TypeOK', EnterOnLoad \/ EnterOnUnload
  PROVE  Maps
<1>1. PICK k \in {OnLoad, OnUnload} :
        stack' = Append(stack, Fresh(k, NoCallback)) /\ CanEnter /\ UNCHANGED <<known, got>>
  BY HooksAreBodies, FreshIsFrame DEF EnterOnLoad, EnterOnUnload
<1>2. Fresh(k, NoCallback) \in Frame
  BY HooksAreBodies, FreshIsFrame
<1> QED BY <1>1, <1>2, FreshFits, ExportMaps

\* The closure that dispatch finds is the one the token is bound to.
LEMMA DispatchMaps ==
  ASSUME ImplInv, TypeOK', NEW e \in known, Dispatch(e)
  PROVE  Maps
<1> DEFINE c == table[TableOf(e.kind)][e.token + 1]
<1>1. c = e.cb
  BY DEF ImplInv, TokensDenote, Denotes
<1>2. Fresh(e.kind, c) \in Frame /\ stack' = Append(stack, Fresh(e.kind, c))
  BY DispatchEffect DEF ImplInv
<1>3. CanEnter /\ UNCHANGED <<known, got>>
  BY DEF Dispatch
<1> HIDE DEF c
<1>4. FramesFit' /\ Abstract!Activate(e.kind, e.cb, NoValue)
  BY <1>1, <1>2, <1>3, FreshFits, PushCalls DEF CanEnter
<1> QED BY <1>4 DEF Maps, Abstract!ANext, Abstract!Invoke

\* A registration is no call and no answer: it only announces, one entry for
\* each kind.
LEMMA RegisterMaps ==
  ASSUME ImplInv, TypeOK', NEW r \in Reg, NEW c \in Callback, Register(r, c)
  PROVE  Maps
<1>1. /\ Running /\ Len(stack') = Len(stack) /\ DOMAIN stack = 1..Len(stack)
      /\ DOMAIN stack' = 1..Len(stack) /\ Len(stack) \in Nat
      /\ \A i \in 1..Len(stack) :
           /\ stack'[i].kind = stack[i].kind
           /\ stack'[i].cb = stack[i].cb
           /\ stack'[i].ans = stack[i].ans
           /\ i < Len(stack) => /\ stack'[i].at = stack[i].at
                                /\ stack'[i].announce = stack[i].announce
      /\ stack'[Len(stack)].at = "syscall"
      /\ stack'[Len(stack)].announce =
           {[kind |-> k, token |-> TokenOf(r), cb |-> c] : k \in KindsOf(r)}
  BY RegisterEffect DEF ImplInv, TypeOK
<1>2. ActiveCalls' = ActiveCalls
  BY <1>1, SameCalls DEF ImplInv
<1>3. \A i \in 1..Len(stack) : i < Len(stack) \/ i = Len(stack)
  BY <1>1, LastOrBefore
<1>4. Top.at = "body" /\ Fits(Top) /\ Top = stack[Len(stack)]
  BY <1>1, TopIsDeepest DEF Running, Top
<1>5. ASSUME NEW i \in 1..Len(stack) PROVE Fits(stack'[i])
  <2>1. CASE i < Len(stack)
    BY <1>1, <2>1 DEF ImplInv, FramesFit, Fits
  <2>2. CASE i = Len(stack)
    <3>1. stack'[i].ans = NoValue
      BY <1>1, <1>4, <2>2 DEF Fits
    <3>2. \A e, g \in stack'[i].announce : e.kind = g.kind => e = g
      BY <1>1, <2>2
    <3> QED BY <1>1, <2>2, <3>1, <3>2 DEF Fits
  <2> QED BY <1>3, <2>1, <2>2
<1>6. FramesFit'
  BY <1>1, <1>5 DEF FramesFit, ImplInv
<1>7. UNCHANGED <<known, got>>
  BY DEF Register
<1> QED BY <1>2, <1>6, <1>7 DEF Maps

\* A syscall, and the return from one, are no calls.
LEMMA WaitMaps ==
  ASSUME ImplInv, TypeOK', Syscall \/ HostReturns
  PROVE  Maps
<1>1. stack # <<>> /\ Top.at # "reply" /\ UNCHANGED <<known, got>>
  BY DEF Syscall, HostReturns, Running
<1>2. Fits(Top) /\ Top \in Frame
  BY <1>1, TopIsDeepest
<1>3. PICK f \in {[Top EXCEPT !.at = "syscall"], [Top EXCEPT !.at = "body", !.announce = {}]} :
        stack' = Replace(f)
  BY DEF Syscall, HostReturns
<1>4. /\ f \in Frame /\ f.kind = Top.kind /\ f.cb = Top.cb /\ f.ans = Top.ans
      /\ f.at # "reply" /\ f.announce \subseteq Top.announce
  BY <1>1, <1>2, TopAdvances DEF Frame, ImplInv
<1>5. Fits(f)
  BY <1>1, <1>2, <1>4 DEF Fits
<1>6. FramesFit' /\ ActiveCalls' = ActiveCalls
  BY <1>1, <1>3, <1>4, <1>5, ReplaceCalls
<1> QED BY <1>1, <1>6 DEF Maps

\* A packed answer belongs to the deepest call, which had none.
LEMMA PackedMaps ==
  ASSUME ImplInv, TypeOK', NEW v \in Value, ReturnPacked(v)
  PROVE  Maps
<1> DEFINE f == [Top EXCEPT !.at = "reply", !.ans = v]
           n == Len(stack)
           c == Call(n, Top)
<1>1. /\ stack # <<>> /\ Top.at = "body" /\ Top.kind \in Packs
      /\ stack' = Replace(f) /\ UNCHANGED <<known, got>>
  BY DEF ReturnPacked, Running
<1>2. /\ c \in ActiveCalls /\ Abstract!Deepest(c) /\ c.kind = Top.kind /\ c.ans = Top.ans
      /\ {d \in ActiveCalls : d.depth < n} = ActiveCalls \ {c}
      /\ Fits(Top) /\ Top \in Frame
  BY <1>1, TopIsDeepest
<1>3. /\ f \in Frame /\ f.kind = Top.kind /\ f.cb = Top.cb /\ f.ans = v
      /\ f.at = "reply" /\ f.announce = Top.announce
  BY <1>1, <1>2, TopAdvances DEF Frame, ImplInv
<1>4. v # NoValue /\ c.ans = NoValue
  BY <1>1, <1>2, AnswerAssumption DEF Fits
<1>5. [c EXCEPT !.ans = v] = Call(n, f)
  BY <1>3 DEF Call
<1> HIDE DEF f
<1>6. Fits(f)
  BY <1>2, <1>3, <1>4 DEF Fits
<1>7. FramesFit'
  BY <1>1, <1>3, <1>6, ReplaceCalls
<1>8. ActiveCalls' = (ActiveCalls \ {c}) \cup {Call(n, f)}
  <2>1. /\ ActiveCalls = {Call(i, stack[i]) : i \in 1..n}
        /\ n \in Nat /\ DOMAIN stack = 1..n
    BY CallsAreFrames DEF ImplInv
  <2>2. /\ Len(stack') = n /\ stack'[n] = f
        /\ \A i \in 1..n : i < n => stack'[i] = stack[i]
    BY <1>1, <1>3, <2>1, ReplaceKeeps DEF ImplInv
  <2>3. ActiveCalls' = {Call(i, stack'[i]) : i \in 1..n}
    BY <2>2 DEF ActiveCalls, Call, TypeOK
  <2>4. \A i \in 1..n : (i < n \/ i = n) /\ (i < n <=> i # n) /\ Call(i, stack[i]).depth = i
    BY <2>1, LastOrBefore DEF Call
  <2>5. n \in 1..n
    BY <1>1, TopIsFrame, <2>1 DEF ImplInv
  <2> HIDE DEF n
  <2>6. ActiveCalls \ {c} = {Call(i, stack[i]) : i \in {j \in 1..n : j < n}}
    BY <1>2, <2>1, <2>4
  <2> HIDE DEF c
  <2>7. ActiveCalls' = {Call(i, stack[i]) : i \in {j \in 1..n : j < n}} \cup {Call(n, f)}
    BY <2>2, <2>3, <2>4, <2>5
  <2> QED BY <2>6, <2>7
<1>9. Abstract!Finish
  <2>1. ActiveCalls' = (ActiveCalls \ {c}) \cup {[c EXCEPT !.ans = v]}
    BY <1>5, <1>8
  <2> HIDE DEF c
  <2>2. c.kind \in Packs /\ v \in Value \cup {Meta}
    BY <1>1, <1>2
  <2> QED BY <1>1, <1>2, <1>4, <2>1, <2>2 DEF Abstract!Finish
<1> QED BY <1>7, <1>9 DEF Maps, Abstract!ANext

\* A hook or a listener ends: the deepest call, without an answer.
LEMMA ReturnMaps == ASSUME ImplInv, TypeOK', Return PROVE Maps
<1> DEFINE n == Len(stack)
           c == Call(n, Top)
<1>1. /\ stack # <<>> /\ Top.at = "body" /\ Top.kind \notin Packs
      /\ stack' = Pop /\ UNCHANGED <<known, got>>
  BY DEF Return, Running
<1>2. /\ c \in ActiveCalls /\ Abstract!Deepest(c) /\ c.kind = Top.kind /\ c.ans = Top.ans
      /\ {d \in ActiveCalls : d.depth < n} = ActiveCalls \ {c}
      /\ Fits(Top)
  BY <1>1, TopIsDeepest
<1>3. c.ans = NoValue
  BY <1>1, <1>2 DEF Fits
<1>4. FramesFit' /\ ActiveCalls' = {d \in ActiveCalls : d.depth < (n - 1) + 1}
  BY <1>1, PopUnwinds, UnwindCalls DEF ImplInv
<1>5. (n - 1) + 1 = n
  BY CallsAreFrames DEF ImplInv
<1>6. ActiveCalls' = ActiveCalls \ {c}
  BY <1>2, <1>4, <1>5
<1> HIDE DEF c, n
<1>7. Abstract!FinishSilently
  BY <1>1, <1>2, <1>3, <1>6 DEF Abstract!FinishSilently
<1> QED BY <1>4, <1>7 DEF Maps, Abstract!ANext

\* What the host copies out of ret_ is the answer of the deepest call.
LEMMA CopyMaps == ASSUME ImplInv, TypeOK', HostCopies PROVE Maps
<1> DEFINE n == Len(stack)
           c == Call(n, Top)
<1>1. /\ stack # <<>> /\ Top.at = "reply"
      /\ stack' = Pop /\ got' = ret /\ UNCHANGED known
  BY DEF HostCopies
<1>2. /\ c \in ActiveCalls /\ Abstract!Deepest(c) /\ c.ans = Top.ans
      /\ {d \in ActiveCalls : d.depth < n} = ActiveCalls \ {c}
      /\ Fits(Top)
  BY <1>1, TopIsDeepest
<1>3. c.ans # NoValue
  BY <1>1, <1>2 DEF Fits
<1>4. ret = c.ans
  BY <1>1, <1>2, TopIsFrame DEF ImplInv, ReplyMatches, Top
<1>5. FramesFit' /\ ActiveCalls' = {d \in ActiveCalls : d.depth < (n - 1) + 1}
  BY <1>1, PopUnwinds, UnwindCalls DEF ImplInv
<1>6. (n - 1) + 1 = n
  BY CallsAreFrames DEF ImplInv
<1>7. ActiveCalls' = ActiveCalls \ {c}
  BY <1>2, <1>5, <1>6
<1> HIDE DEF c, n
<1>8. Abstract!Deliver
  BY <1>1, <1>2, <1>3, <1>4, <1>7 DEF Abstract!Deliver
<1> QED BY <1>5, <1>8 DEF Maps, Abstract!ANext

\* A trap ends the calls from some depth on.
LEMMA TrapMaps == ASSUME ImplInv, TypeOK', Trap PROVE Maps
<1>1. stack # <<>> /\ UNCHANGED <<known, got>>
  BY DEF Trap, Running
<1>2. PICK k \in 0..(Len(stack) - 1) : stack' = Unwound(k)
  BY DEF Trap
<1>3. /\ FramesFit' /\ k + 1 \in 1..MaxDepth
      /\ ActiveCalls' = {c \in ActiveCalls : c.depth < k + 1}
  BY <1>1, <1>2, UnwindCalls DEF ImplInv
<1>4. Abstract!Abort
  BY <1>1, <1>3 DEF Abstract!Abort
<1> QED BY <1>3, <1>4 DEF Maps, Abstract!ANext

\* Two entries that lead dispatch to closures agree when they agree on kind
\* and token.
LEMMA OneMeaning ==
  ASSUME TypeOK, TokensDenote, NEW e \in known \cup Announced, NEW b \in known \cup Announced,
         e \in Entry, b \in Entry, e.kind = b.kind, e.token = b.token
  PROVE  e = b
<1>1. e.cb = b.cb
  BY DEF TokensDenote, Denotes
<1> QED BY <1>1 DEF Entry

\* The host records what a syscall announces: tokens that mean one closure
\* each, and none of them new for one it holds.
LEMMA RecordMaps == ASSUME ImplInv, TypeOK', HostRecords PROVE Maps
<1> DEFINE E == known' \ known
<1>1. /\ stack # <<>> /\ known' = known \cup Top.announce
      /\ UNCHANGED <<stack, got>>
  BY DEF HostRecords
<1>2. Fits(Top) /\ Top.announce \subseteq Announced /\ Top.announce \subseteq Entry
  BY <1>1, TopIsDeepest, TopIsFrame, TopAdvances DEF Announced, Top, ImplInv
<1>3. E \subseteq Top.announce
  BY <1>1
<1>4. ASSUME NEW e \in E, NEW b \in known PROVE ~(e.kind = b.kind /\ e.token = b.token)
  <2>1. b \in Entry /\ e # b
    BY <1>4 DEF ImplInv, TypeOK
  <2> QED BY <1>2, <1>3, <2>1, OneMeaning DEF ImplInv
<1>5. \A e, g \in E : e.kind = g.kind => e = g
  BY <1>2, <1>3 DEF Fits
<1>6. known' = known \cup E
  BY <1>1
<1>7. UNCHANGED <<ActiveCalls, got>>
  BY <1>1 DEF ActiveCalls
<1>8. Abstract!Bind(known' \ known)
  BY <1>4, <1>5, <1>6, <1>7 DEF Abstract!Bind
<1>9. FramesFit'
  BY <1>1 DEF ImplInv, FramesFit
<1> QED BY <1>8, <1>9 DEF Maps, Abstract!ANext

LEMMA ImplInit == Init => ImplInv /\ Abstract!AInit
<1> SUFFICES ASSUME Init PROVE ImplInv /\ Abstract!AInit
  OBVIOUS
<1>1. stack = <<>> /\ known = {} /\ got = NoValue
  BY DEF Init
<1>2. FramesFit
  BY <1>1, BoundsAssumption DEF FramesFit
<1>3. ActiveCalls = {}
  BY <1>1 DEF ActiveCalls
<1> QED
  BY <1>1, <1>2, <1>3, TypeInit, WellNestedInit, InStepInit, TokensInit, ReplyInit
  DEF ImplInv, Abstract!AInit

LEMMA ImplStep ==
  ImplInv /\ [Next]_vars =>
    ImplInv' /\ (Abstract!ANext \/ UNCHANGED <<known, ActiveCalls, got>>)
<1> SUFFICES ASSUME ImplInv, [Next]_vars
             PROVE  ImplInv' /\ (Abstract!ANext \/ UNCHANGED <<known, ActiveCalls, got>>)
  OBVIOUS
<1>1. TypeOK' /\ WellNested' /\ InStep' /\ TokensDenote' /\ ReplyMatches'
  BY TypeStep, WellNestedStep, InStepStep, TokensStep, ReplyStep DEF ImplInv
<1>2. Maps
  <2>1. CASE UNCHANGED vars
    BY <2>1 DEF vars, Maps, ImplInv, FramesFit, ActiveCalls
  <2>2. CASE Next
    <3>1. CASE \E e \in known : Dispatch(e)
      BY <1>1, <3>1, DispatchMaps
    <3>2. CASE \E r \in Reg, c \in Callback : Register(r, c)
      BY <1>1, <3>2, RegisterMaps
    <3>3. CASE \E v \in Value : ReturnPacked(v)
      BY <1>1, <3>3, PackedMaps
    <3>4. CASE HostInfo \/ EnterOnLoad \/ EnterOnUnload \/ HostRecords
      BY <1>1, <3>4, InfoMaps, HookMaps, RecordMaps
    <3>5. CASE Syscall \/ HostReturns \/ Return \/ Trap \/ HostCopies
      BY <1>1, <3>5, WaitMaps, ReturnMaps, TrapMaps, CopyMaps
    <3> QED BY <2>2, <3>1, <3>2, <3>3, <3>4, <3>5, NextIsRegister
  <2> QED BY <2>1, <2>2
<1> QED BY <1>1, <1>2 DEF Maps, ImplInv

\* The tables, the one reply buffer and the frames of kmod::Runtime keep the
\* promise of the SDK: a token means one closure for good, calls nest, and the
\* host receives from a call the answer of that very activation.
THEOREM RuntimeImplements == Spec => ImplementsCallbackService
<1>1. Init => ImplInv /\ Abstract!AInit
  BY ImplInit
<1>2. ImplInv /\ [Next]_vars
        => ImplInv' /\ (Abstract!ANext \/ UNCHANGED <<known, ActiveCalls, got>>)
  BY ImplStep
<1>3. ImplInv /\ [Next]_vars => ImplInv' /\ [Abstract!ANext]_(Abstract!avars)
  BY <1>2 DEF Abstract!avars
<1> QED
  BY <1>1, <1>3, PTL DEF Spec, ImplementsCallbackService, Abstract!ASpec

----------------------------------------------------------------------------
(* The modules of the repository. *)

\* DevTester, HelloWorld and the others keep the discipline: what they register
\* once the host can call them are config entries, tasks and retries, and none
\* of these is ever suspended in its own vector.
LEMMA ShippedIsDisciplined ==
  ASSUME Registers = ShippedRegisters, Calls = ShippedCalls
  PROVE  Discipline
<1> SUFFICES ASSUME NEW k \in Kind \ Boxed, Suspends(k),
                    NEW b \in Kind \cup {OnUnload}, NEW r \in Registers[b]
             PROVE  k \notin KindsOf(r)
  BY DEF Discipline
<1>1. b \in Body /\ b # OnLoad
  BY DEF Body, Kind, OnLoad, OnUnload
<1>2. r \in {"cfg", "task", "retry"}
  BY <1>1 DEF ShippedRegisters
<1>3. k \in Body /\ k # OnLoad /\ k # OnUnload /\ k \notin {4, 5}
  BY DEF Body, Kind, Boxed, OnLoad, OnUnload
<1>4. k \in {1, 2}
  <2>1. CASE Registers[k] # {}
    BY <1>3, <2>1 DEF ShippedRegisters
  <2>2. CASE k \in Calls
    BY <1>3, <2>2 DEF ShippedCalls
  <2> QED BY <2>1, <2>2 DEF Suspends
<1> QED BY <1>2, <1>4 DEF KindsOf

\* In the modules the repository ships no closure ever loses its captures while
\* it runs, whatever the number of registrations and however deep the host
\* enters them again.
THEOREM ShippedStayIntact ==
  ASSUME Registers = ShippedRegisters, Calls = ShippedCalls
  PROVE  Spec => []ClosureIntact
BY ShippedIsDisciplined, ClosuresStayIntact
=============================================================================
