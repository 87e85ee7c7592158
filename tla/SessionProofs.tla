---------------------------- MODULE SessionProofs ----------------------------
(***************************************************************************)
(* The menu, HelloWorld and the arbitrary module in one session, for all   *)
(* sets of tools and screens and all bounds.                               *)
(*                                                                         *)
(* Each component has an inductive invariant of its own, which the steps   *)
(* of the others leave alone.                                              *)
(***************************************************************************)
EXTENDS Session, HelloWorldProofs, FiniteSetTheorems

----------------------------------------------------------------------------
(* The menu: while the user chooses, options and list are in step. *)

InStep == at = "ui.choice" => shown = Options(tools) /\ tools \in Seq(Tool)

MenuInv == MenuTypeOK /\ InStep /\ PickedIsInvoked

LEMMA OfferKeeps ==
  ASSUME MenuTypeOK, NEW items \in Seq(Tool \cup {Bad}), Offer(items), tools' = items,
         UNCHANGED <<sel, picked>>
  PROVE  MenuInv'
<1>1. CASE \E i \in DOMAIN items : items[i] = Bad
  <2>1. at' = "trapped" /\ shown' = shown
    BY <1>1 DEF Offer
  <2> QED BY <2>1 DEF MenuTypeOK, MenuInv, InStep, PickedIsInvoked
<1>2. CASE ~\E i \in DOMAIN items : items[i] = Bad
  <2>1. at' = "ui.choice" /\ shown' = Options(items)
    BY <1>2 DEF Offer
  <2>2. \A i \in 1..Len(items) : items[i] \in Tool
    BY <1>2
  <2>3. items \in Seq(Tool) /\ items \in Seq(Tool \cup {Exit})
    BY <2>2
  <2>4. shown' \in Seq(Tool \cup {Exit})
    BY <2>1, <2>3 DEF Options
  <2> QED BY <2>1, <2>3, <2>4 DEF MenuTypeOK, MenuInv, InStep, PickedIsInvoked, Options
<1> QED BY <1>1, <1>2

\* The index the user picks is that of an entry of the list, or the one behind
\* it, which is the way out.
LEMMA PickKeeps ==
  ASSUME MenuInv, NEW n \in DOMAIN shown, Pick(n)
  PROVE  MenuInv'
<1>1. /\ at = "ui.choice" /\ picked' = shown[n] /\ sel' = n - 1
      /\ at' = IF Leaves(n - 1) THEN "left" ELSE "tools.invoke"
      /\ UNCHANGED <<tools, shown>>
  BY DEF Pick, Choose
<1>2. /\ tools \in Seq(Tool) /\ Len(tools) \in Nat
      /\ shown \in Seq(Tool \cup {Exit}) /\ n \in 1..(Len(tools) + 1)
      /\ \A i \in 1..Len(tools) : shown[i] = tools[i]
      /\ shown[Len(tools) + 1] = Exit
  BY <1>1 DEF MenuInv, InStep, Options, MenuTypeOK
<1>3. Leaves(n - 1) <=> n = Len(tools) + 1
  BY <1>2 DEF Leaves
<1>4. MenuTypeOK' /\ InStep'
  <2>1. at' \in {"left", "tools.invoke"} /\ picked' \in Tool \cup {Exit} /\ sel' \in Int
    BY <1>1, <1>2
  <2> QED BY <1>1, <2>1 DEF MenuInv, MenuTypeOK, InStep
<1>5. PickedIsInvoked'
  <2>1. CASE n = Len(tools) + 1
    BY <1>1, <1>2, <1>3, <2>1 DEF PickedIsInvoked
  <2>2. CASE n # Len(tools) + 1
    <3>1. n \in DOMAIN tools /\ shown[n] = tools[n] /\ sel' + 1 = n
      BY <1>1, <1>2, <2>2
    <3> QED BY <1>1, <1>3, <2>2, <3>1 DEF PickedIsInvoked, Invoked
  <2> QED BY <2>1, <2>2
<1> QED BY <1>4, <1>5 DEF MenuInv

LEMMA MenuInitial ==
  ASSUME MenuInit
  PROVE  MenuInv
<1>1. tools \in Seq(Tool \cup {Bad}) /\ shown \in Seq(Tool \cup {Exit})
  BY DEF MenuInit
<1> QED BY <1>1 DEF MenuInit, MenuInv, MenuTypeOK, InStep, PickedIsInvoked

LEMMA MenuInductive ==
  ASSUME MenuInv, [MenuNext]_menuVars
  PROVE  MenuInv'
<1>1. CASE EnterMenu \/ AskTools
  <2>1. at' \in {"drawing", "tools.list"} /\ UNCHANGED <<tools, shown, sel, picked>>
    BY <1>1 DEF EnterMenu, AskTools
  <2> QED BY <2>1 DEF MenuInv, MenuTypeOK, InStep, PickedIsInvoked
<1>2. ASSUME NEW answer \in Answer, TakeList(answer)
      PROVE  MenuInv'
  <2>1. answer.items \in Seq(Tool \cup {Bad}) /\ tools' = answer.items /\ UNCHANGED <<sel, picked>>
    BY <1>2 DEF Answer, TakeList
  <2>2. CASE ~answer.array \/ answer.items = <<>>
    <3>1. at' = "telling" /\ shown' = shown
      BY <1>2, <2>2 DEF TakeList
    <3> QED BY <2>1, <3>1 DEF MenuInv, MenuTypeOK, InStep, PickedIsInvoked
  <2>3. CASE ~(~answer.array \/ answer.items = <<>>)
    BY <1>2, <2>1, <2>3, OfferKeeps DEF TakeList, MenuInv
  <2> QED BY <2>2, <2>3
<1>3. CASE NoTools
  BY <1>3, OfferKeeps DEF NoTools, MenuInv, MenuTypeOK
<1>4. ASSUME NEW n \in DOMAIN shown, Pick(n)
      PROVE  MenuInv'
  BY <1>4, PickKeeps
<1>5. CASE Cancelled
  <2>1. /\ at' = "left" /\ picked' = Exit /\ sel' = -1 /\ UNCHANGED <<tools, shown>>
    BY <1>5 DEF Cancelled, Choose, Leaves
  <2> QED BY <2>1 DEF MenuInv, MenuTypeOK, InStep, PickedIsInvoked
<1>6. CASE MenuInvoked
  <2>1. tools' \in Seq(Tool \cup {Bad}) /\ shown' \in Seq(Tool \cup {Exit})
    BY <1>6 DEF MenuInvoked
  <2> QED BY <1>6, <2>1 DEF MenuInvoked, MenuInv, MenuTypeOK, InStep, PickedIsInvoked
<1>7. CASE UNCHANGED menuVars
  BY <1>7 DEF menuVars, MenuInv, MenuTypeOK, InStep, PickedIsInvoked, Invoked
<1> QED BY <1>1, <1>2, <1>3, <1>4, <1>5, <1>6, <1>7 DEF MenuNext

\* EmergencyMenu runs the tool the user picked and leaves only by its way out,
\* whatever lists the host answers with.
THEOREM MenuCorrect == MenuSpec => []PickedIsInvoked
<1>1. MenuInit => MenuInv
  BY MenuInitial
<1>2. MenuInv /\ [MenuNext]_menuVars => MenuInv'
  BY MenuInductive
<1>3. MenuInv => PickedIsInvoked
  BY DEF MenuInv
<1> QED BY <1>1, <1>2, <1>3, PTL DEF MenuSpec

----------------------------------------------------------------------------
(* Results in guest memory. *)

\* A scope that is being closed is on the stack of scopes, and has a screen.
MayClose(a) ==
  /\ a.at = "body" => a.verb = "other"
  /\ a.verb = "close" => a.scopes # <<>> /\ a.scopes[Len(a.scopes)] # NoScreen

Closing == \A i \in DOMAIN guest : MayClose(guest[i])

StackOK == guest \in Seq(Active) /\ DOMAIN heap \subseteq Offset

MemoryInv == StackOK /\ Closing /\ NothingLeaks

\* What is left when no call is about to read its result.
OnlyEmptyOnes == \A o \in DOMAIN heap : heap[o] = "empty"

LEMMA HereIsActive ==
  ASSUME StackOK, guest # <<>>
  PROVE  /\ Len(guest) \in DOMAIN guest /\ Len(guest) \in Nat \ {0}
         /\ Here \in Active
         /\ Here.at \in {"body", "syscall", "result"} /\ Here.off \in Offset \cup {NoOffset}
         /\ Here.scopes \in Seq(Screen \cup {NoScreen})
<1>1. Len(guest) \in DOMAIN guest /\ Len(guest) \in Nat \ {0}
  BY DEF StackOK
<1>2. Here \in Active
  BY <1>1 DEF StackOK, Here
<1> QED BY <1>1, <1>2 DEF Active

\* While the running activation is elsewhere only results without a length are
\* in memory.
LEMMA OthersAreEmpty ==
  ASSUME MemoryInv, ~Runs("result")
  PROVE  OnlyEmptyOnes
BY DEF MemoryInv, NothingLeaks, OnlyEmptyOnes

\* A step that leaves the memory, or adds what the running activation is to read.
LEMMA BecomesKeeps ==
  ASSUME StackOK, Closing, guest # <<>>, NEW a \in Active, Becomes(a),
         MayClose(a), DOMAIN heap' \subseteq Offset,
         \A o \in DOMAIN heap' : heap'[o] = "empty" \/ (a.at = "result" /\ a.off = o)
  PROVE  MemoryInv'
<1>1. /\ guest' \in Seq(Active) /\ guest' # <<>> /\ Len(guest') = Len(guest)
      /\ guest'[Len(guest)] = a
      /\ \A i \in DOMAIN guest' : i \in DOMAIN guest /\ (i # Len(guest) => guest'[i] = guest[i])
  BY DEF StackOK, Becomes
<1>2. Here' = a
  BY <1>1 DEF Here
<1>3. Closing'
  BY <1>1 DEF Closing
<1> QED BY <1>1, <1>2, <1>3 DEF MemoryInv, StackOK, NothingLeaks, Runs

LEMMA FrontIsScopes ==
  ASSUME NEW S, NEW s \in Seq(S), s # <<>>
  PROVE  Front(s) \in Seq(S)
<1>1. Len(s) \in Nat \ {0} /\ Len(s) - 1 \in 0..Len(s)
  OBVIOUS
<1>2. s = SubSeq(s, 1, Len(s))
  BY SubSeqFull
<1>3. Front(s) = Restrict(s, 1..(Len(s) - 1))
  BY <1>1, <1>2, SubSeqRestrict DEF Front
<1>4. Front(s) = [i \in 1..(Len(s) - 1) |-> s[i]]
  BY <1>1, <1>3 DEF Restrict
<1>5. \A i \in 1..(Len(s) - 1) : s[i] \in S
  BY <1>1
<1> QED BY <1>1, <1>4, <1>5

\* The host answers: null, or at a new place.
LEMMA AnswersKeep ==
  ASSUME MemoryInv, Runs("syscall"), NEW texts, NEW opening \in Screen \cup {NoScreen},
         Answers(texts, opening)
  PROVE  MemoryInv'
<1>1. OnlyEmptyOnes /\ guest # <<>> /\ StackOK /\ Closing
  BY OthersAreEmpty DEF Runs, MemoryInv
<1>2. MayClose(Here)
  BY <1>1, HereIsActive DEF Closing, Here
<1>3. CASE Becomes([Here EXCEPT !.at = "result", !.opening = opening]) /\ heap' = heap
  <2> DEFINE a == [Here EXCEPT !.at = "result", !.opening = opening]
  <2>1. a \in Active /\ MayClose(a)
    BY <1>2, <1>1, HereIsActive DEF Active, MayClose
  <2>2. Becomes(a)
    BY <1>3
  <2> HIDE DEF a
  <2> QED BY <1>1, <1>3, <2>1, <2>2, BecomesKeeps DEF OnlyEmptyOnes, StackOK
<1>4. ASSUME NEW o \in Offset \ DOMAIN heap, NEW t \in texts,
             heap' = [p \in DOMAIN heap \cup {o} |-> IF p = o THEN t ELSE heap[p]],
             Becomes([Here EXCEPT !.at = "result", !.off = o, !.opening = opening])
      PROVE  MemoryInv'
  <2> DEFINE a == [Here EXCEPT !.at = "result", !.off = o, !.opening = opening]
  <2>1. a \in Active /\ a.at = "result" /\ a.off = o /\ MayClose(a)
    BY <1>2, <1>1, HereIsActive DEF Active, MayClose
  <2> HIDE DEF a
  <2>2. DOMAIN heap' \subseteq Offset
        /\ \A p \in DOMAIN heap' : heap'[p] = "empty" \/ p = o
    BY <1>1, <1>4 DEF OnlyEmptyOnes, StackOK
  <2>3. Becomes(a)
    BY <1>4 DEF a
  <2> QED BY <1>1, <2>1, <2>2, <2>3, BecomesKeeps
<1> QED BY <1>3, <1>4 DEF Answers

\* The call reads its result and frees it, unless it has no length.
LEMMA TakeKeeps ==
  ASSUME MemoryInv, TakeResult
  PROVE  MemoryInv'
<1>1. StackOK /\ Closing /\ NothingLeaks /\ guest # <<>> /\ Here.at = "result"
  BY DEF MemoryInv, TakeResult, Runs
<1> DEFINE S == IF Here.verb = "open"
                THEN Append(Here.scopes, IF Result(Here.off) = "true" THEN Here.opening ELSE NoScreen)
                ELSE IF Here.verb = "close" THEN Front(Here.scopes) ELSE Here.scopes
           a == [Here EXCEPT !.at = "body", !.verb = "other", !.off = NoOffset,
                             !.opening = NoScreen, !.scopes = S]
<1>2. Here \in Active /\ Here.scopes \in Seq(Screen \cup {NoScreen})
      /\ Here.opening \in Screen \cup {NoScreen}
  BY <1>1, HereIsActive DEF Active
<1>3. S \in Seq(Screen \cup {NoScreen})
  <2>1. Here.verb = "close" => Here.scopes # <<>>
    BY <1>1, HereIsActive DEF Closing, Here, MayClose
  <2> QED BY <1>2, <2>1, FrontIsScopes
<1>4. Becomes(a)
  BY DEF TakeResult
<1> HIDE DEF S
<1>5. a \in Active /\ MayClose(a)
  BY <1>2, <1>3 DEF Active, MayClose
<1>6. \A o \in DOMAIN heap' : o \in DOMAIN heap /\ heap'[o] = heap[o]
  BY DEF TakeResult
<1>7. ASSUME NEW o \in DOMAIN heap'
      PROVE  heap'[o] = "empty"
  <2>1. CASE Here.off = o
    <3>1. Unread(o)
      BY <2>1, <1>6 DEF TakeResult, Freed
    <3>2. o # NoOffset
      BY <1>1, <1>6, OffsetAssumption DEF StackOK
    <3> QED BY <1>6, <3>1, <3>2 DEF Unread
  <2>2. CASE Here.off # o
    BY <1>1, <1>6, <2>2 DEF NothingLeaks
  <2> QED BY <2>1, <2>2
<1>8. DOMAIN heap' \subseteq Offset
  BY <1>1, <1>6 DEF StackOK
<1> HIDE DEF a
<1> QED BY <1>1, <1>4, <1>5, <1>7, <1>8, BecomesKeeps

\* Module code makes a call.
LEMMA CallsKeep ==
  ASSUME MemoryInv, Runs("body"), NEW verb \in {"other", "open", "close"}, Calls(verb),
         verb = "close" => Here.scopes # <<>> /\ Here.scopes[Len(Here.scopes)] # NoScreen
  PROVE  MemoryInv'
<1> DEFINE a == [Here EXCEPT !.at = "syscall", !.verb = verb]
<1>1. OnlyEmptyOnes /\ guest # <<>> /\ StackOK /\ Closing
  BY OthersAreEmpty DEF Runs, MemoryInv
<1>2. a \in Active /\ MayClose(a)
  BY <1>1, HereIsActive DEF Active, MayClose
<1>3. Becomes(a) /\ heap' = heap
  BY DEF Calls
<1> HIDE DEF a
<1> QED BY <1>1, <1>2, <1>3, BecomesKeeps DEF OnlyEmptyOnes, StackOK

\* The innermost scope ends.
LEMMA EndKeeps ==
  ASSUME MemoryInv, EndScope
  PROVE  MemoryInv'
<1> DEFINE a == [Here EXCEPT !.scopes = Front(@)]
<1>1. /\ OnlyEmptyOnes /\ guest # <<>> /\ StackOK /\ Closing
      /\ Here.at = "body" /\ Here.scopes # <<>>
  BY OthersAreEmpty DEF Runs, MemoryInv, EndScope
<1>2. Here.verb = "other"
  BY <1>1, HereIsActive DEF Closing, Here, MayClose
<1>3. CASE Closes(Here.scopes[Len(Here.scopes)])
  BY <1>1, <1>3, CallsKeep DEF EndScope, Closes
<1>4. CASE ~Closes(Here.scopes[Len(Here.scopes)])
  <2>1. Front(Here.scopes) \in Seq(Screen \cup {NoScreen})
    BY <1>1, HereIsActive, FrontIsScopes
  <2>2. a \in Active /\ MayClose(a)
    BY <1>1, <1>2, <2>1, HereIsActive DEF Active, MayClose
  <2>3. Becomes(a) /\ heap' = heap
    BY <1>4 DEF EndScope
  <2> HIDE DEF a
  <2> QED BY <1>1, <2>2, <2>3, BecomesKeeps DEF OnlyEmptyOnes, StackOK
<1> QED BY <1>3, <1>4 DEF EndScope

\* Activations end, by returning or by a trap.
LEMMA UnwindKeeps ==
  ASSUME MemoryInv, Runs("body"), heap' = heap, NEW k \in 0..(Len(guest) - 1),
         guest' = SubSeq(guest, 1, k)
  PROVE  MemoryInv'
<1>1. OnlyEmptyOnes /\ guest \in Seq(Active) /\ Len(guest) \in Nat /\ StackOK /\ Closing
  BY OthersAreEmpty DEF Runs, MemoryInv, StackOK
<1>2. guest = SubSeq(guest, 1, Len(guest)) /\ k \in 0..Len(guest)
  BY <1>1, SubSeqFull
<1>3. guest' = Restrict(guest, 1..k)
  BY <1>1, <1>2, SubSeqRestrict
<1>4. guest' = [i \in 1..k |-> guest[i]] /\ \A i \in 1..k : i \in DOMAIN guest /\ guest[i] \in Active
  BY <1>1, <1>2, <1>3 DEF Restrict
<1>5. guest' \in Seq(Active) /\ Closing'
  BY <1>2, <1>4, <1>1 DEF Closing
<1> QED BY <1>1, <1>5 DEF MemoryInv, StackOK, NothingLeaks, OnlyEmptyOnes

\* The host enters.
LEMMA EnterKeepsGuest ==
  ASSUME MemoryInv, EnterGuest
  PROVE  MemoryInv'
<1> DEFINE a == [at |-> "body", verb |-> "other", off |-> NoOffset,
                 opening |-> NoScreen, scopes |-> <<>>]
<1>1. OnlyEmptyOnes /\ guest \in Seq(Active) /\ StackOK /\ Closing
  BY OthersAreEmpty DEF Runs, MemoryInv, StackOK, EnterGuest, CanEnterGuest
<1>2. a \in Active /\ MayClose(a)
  BY DEF Active, MayClose
<1>3. guest' = Append(guest, a) /\ heap' = heap
  BY DEF EnterGuest
<1> HIDE DEF a
<1>4. /\ guest' \in Seq(Active)
      /\ \A i \in DOMAIN guest' : guest'[i] = a \/ (i \in DOMAIN guest /\ guest'[i] = guest[i])
  BY <1>1, <1>2, <1>3
<1>5. Closing'
  BY <1>1, <1>2, <1>4 DEF Closing
<1> QED BY <1>1, <1>3, <1>4, <1>5 DEF MemoryInv, StackOK, NothingLeaks, OnlyEmptyOnes

LEMMA MemoryInitial ==
  ASSUME GuestInit
  PROVE  MemoryInv
<1>1. guest \in Seq(Active) /\ DOMAIN guest = {} /\ DOMAIN heap = {}
  BY DEF GuestInit
<1> QED BY <1>1 DEF MemoryInv, StackOK, Closing, NothingLeaks

LEMMA MemoryInductive ==
  ASSUME MemoryInv, [GuestNext]_guestVars
  PROVE  MemoryInv'
<1>1. CASE EnterGuest
  BY <1>1, EnterKeepsGuest
<1>2. CASE CallHost \/ OpenScope
  BY <1>2, CallsKeep DEF CallHost, OpenScope
<1>3. CASE EndScope
  BY <1>3, EndKeeps
<1>4. CASE ReturnGuest
  <2>1. Len(guest) - 1 \in 0..(Len(guest) - 1)
    BY <1>4 DEF MemoryInv, StackOK, ReturnGuest, Runs
  <2> QED BY <1>4, <2>1, UnwindKeeps DEF ReturnGuest, Front
<1>5. CASE TakeResult
  BY <1>5, TakeKeeps
<1>6. CASE AnswerOther \/ AnswerClose
  BY <1>6, AnswersKeep DEF AnswerOther, AnswerClose
<1>7. CASE AnswerOpen
  <2>1. CASE Answers({"json"}, NoScreen)
    BY <1>7, <2>1, AnswersKeep DEF AnswerOpen
  <2>2. ASSUME NEW s \in Screen, NEW o \in Offset \ DOMAIN heap,
               heap' = [p \in DOMAIN heap \cup {o} |-> IF p = o THEN "true" ELSE heap[p]],
               Becomes([Here EXCEPT !.at = "result", !.off = o, !.opening = s])
        PROVE  MemoryInv'
    <3>1. Answers({"true"}, s)
      BY <2>2 DEF Answers
    <3> QED BY <1>7, <3>1, AnswersKeep DEF AnswerOpen
  <2> QED BY <1>7, <2>1, <2>2 DEF AnswerOpen
<1>8. CASE TrapGuest
  BY <1>8, UnwindKeeps DEF TrapGuest
<1>9. CASE UNCHANGED guestVars
  BY <1>9 DEF guestVars, MemoryInv, StackOK, Closing, NothingLeaks, Runs, Here
<1> QED BY <1>1, <1>2, <1>3, <1>4, <1>5, <1>6, <1>7, <1>8, <1>9 DEF GuestNext

----------------------------------------------------------------------------
(* The open screens. *)

LEMMA HeldIsSequence ==
  ASSUME NEW a \in Active, MayClose(a)
  PROVE  Held(a) \in Seq(Screen \cup {NoScreen})
<1>1. a.scopes \in Seq(Screen \cup {NoScreen}) /\ a.opening \in Screen \cup {NoScreen}
  BY DEF Active
<1>2. a.verb = "close" => Front(a.scopes) \in Seq(Screen \cup {NoScreen})
  BY <1>1, FrontIsScopes DEF MayClose
<1> QED BY <1>1, <1>2 DEF Held

LEMMA OwnedMember ==
  ASSUME NEW g
  PROVE  /\ \A i, j : <<i, j>> \in Owned(g) <=> i \in DOMAIN g /\ j \in HeldBy(g[i])
         /\ \A p \in Owned(g) : p = <<p[1], p[2]>> /\ p[1] \in DOMAIN g /\ p[2] \in HeldBy(g[p[1]])
BY DEF Owned

\* The screens are those of the scopes of a stack, but for those that are lost.
Answered(g, s, l) ==
  /\ s \in Seq(Screen) /\ l \in Nat
  /\ IsFiniteSet(Owned(g))
  /\ Len(s) = Cardinality(Owned(g)) + l
  /\ l = 0 => InOrder(g, s)

\* Stacks whose scopes own the same screens.
LEMMA SameAnswered ==
  ASSUME NEW g, NEW h, NEW s, NEW l, Answered(g, s, l), Owned(h) = Owned(g),
         \A p \in Owned(g) : ScreenOf(p, h) = ScreenOf(p, g)
  PROVE  Answered(h, s, l)
<1>1. \A p \in Owned(g) : Upto(p, h) = Upto(p, g)
  BY DEF Upto
<1> QED BY <1>1 DEF Answered, InOrder

\* Stack h has one owning scope more than g, x, which was opened last.
Opened(x, g, h) ==
  /\ x \notin Owned(g) /\ Owned(h) = Owned(g) \cup {x}
  /\ x[1] \in Nat /\ x[2] \in Nat
  /\ \A p \in Owned(g) : /\ p[1] \in Nat /\ p[2] \in Nat
                         /\ p[1] < x[1] \/ (p[1] = x[1] /\ p[2] < x[2])
                         /\ ScreenOf(p, h) = ScreenOf(p, g)

LEMMA OpenedCount ==
  ASSUME NEW x, NEW g, NEW h, Opened(x, g, h), IsFiniteSet(Owned(g))
  PROVE  /\ IsFiniteSet(Owned(h)) /\ Cardinality(Owned(g)) \in Nat
         /\ Cardinality(Owned(h)) = Cardinality(Owned(g)) + 1
         /\ Upto(x, h) = Owned(h)
         /\ \A p \in Owned(g) : /\ Upto(p, h) = Upto(p, g)
                                /\ Cardinality(Upto(p, g)) \in 1..Cardinality(Owned(g))
<1>1. /\ IsFiniteSet(Owned(h)) /\ Cardinality(Owned(g)) \in Nat
      /\ Cardinality(Owned(h)) = Cardinality(Owned(g)) + 1
  BY FS_AddElement, FS_CardinalityType DEF Opened
<1>2. Upto(x, h) = Owned(h)
  BY DEF Opened, Upto
<1>3. ASSUME NEW p \in Owned(g)
      PROVE  /\ Upto(p, h) = Upto(p, g)
             /\ Cardinality(Upto(p, g)) \in 1..Cardinality(Owned(g))
  <2>1. Upto(p, h) = Upto(p, g)
    BY DEF Opened, Upto
  <2>2. Upto(p, g) \in SUBSET Owned(g) /\ p \in Upto(p, g)
    BY DEF Opened, Upto
  <2>3. /\ IsFiniteSet(Upto(p, g)) /\ Cardinality(Upto(p, g)) <= Cardinality(Owned(g))
    BY <2>2, FS_Subset
  <2>4. Cardinality(Upto(p, g)) \in Nat /\ Cardinality(Upto(p, g)) # 0
    BY <2>2, <2>3, FS_CardinalityType, FS_EmptySet
  <2> QED BY <1>1, <2>1, <2>3, <2>4
<1> QED BY <1>1, <1>2, <1>3

\* A scope that is opened gets the newest screen.
LEMMA OpenAnswered ==
  ASSUME NEW x, NEW g, NEW h, NEW s, NEW l, Answered(g, s, l), Opened(x, g, h),
         ScreenOf(x, h) \in Screen
  PROVE  Answered(h, Append(s, ScreenOf(x, h)), l)
<1> DEFINE t == Append(s, ScreenOf(x, h))
<1>1. /\ IsFiniteSet(Owned(h)) /\ Cardinality(Owned(g)) \in Nat
      /\ Cardinality(Owned(h)) = Cardinality(Owned(g)) + 1
      /\ Upto(x, h) = Owned(h)
      /\ \A p \in Owned(g) : /\ Upto(p, h) = Upto(p, g)
                             /\ Cardinality(Upto(p, g)) \in 1..Cardinality(Owned(g))
  BY OpenedCount DEF Answered
<1>2. s \in Seq(Screen) /\ l \in Nat /\ Len(s) = Cardinality(Owned(g)) + l
  BY DEF Answered
<1>3. /\ t \in Seq(Screen) /\ Len(t) = Len(s) + 1 /\ t[Len(s) + 1] = ScreenOf(x, h)
      /\ \A i \in 1..Len(s) : t[i] = s[i]
  BY <1>2
<1> HIDE DEF t
<1>4. Len(t) = Cardinality(Owned(h)) + l
  BY <1>1, <1>2, <1>3
<1>5. ASSUME l = 0, NEW p \in Owned(h)
      PROVE  t[Cardinality(Upto(p, h))] = ScreenOf(p, h)
  <2>1. CASE p = x
    BY <1>1, <1>2, <1>3, <1>5, <2>1
  <2>2. CASE p # x
    <3>1. p \in Owned(g) /\ ScreenOf(p, h) = ScreenOf(p, g)
      BY <1>5, <2>2 DEF Opened
    <3>2. s[Cardinality(Upto(p, g))] = ScreenOf(p, g)
      BY <1>5, <3>1 DEF Answered, InOrder
    <3>3. Cardinality(Upto(p, g)) \in 1..Len(s)
      BY <1>1, <1>2, <1>5, <3>1
    <3> QED BY <1>1, <1>3, <3>1, <3>2, <3>3
  <2> QED BY <2>1, <2>2
<1> QED BY <1>1, <1>2, <1>3, <1>4, <1>5 DEF Answered, InOrder, t

LEMMA FrontIsPrefix ==
  ASSUME NEW S, NEW s \in Seq(S), s # <<>>
  PROVE  /\ Front(s) \in Seq(S) /\ Len(s) \in Nat /\ Len(Front(s)) = Len(s) - 1
         /\ DOMAIN Front(s) = 1..(Len(s) - 1)
         /\ \A i \in 1..(Len(s) - 1) : Front(s)[i] = s[i]
<1>1. Len(s) \in Nat \ {0} /\ Len(s) - 1 \in 0..Len(s)
  OBVIOUS
<1>2. s = SubSeq(s, 1, Len(s))
  BY SubSeqFull
<1>3. Front(s) = Restrict(s, 1..(Len(s) - 1))
  BY <1>1, <1>2, SubSeqRestrict DEF Front
<1>4. Front(s) = [i \in 1..(Len(s) - 1) |-> s[i]]
  BY <1>1, <1>3 DEF Restrict
<1>5. Front(s) \in Seq(S)
  BY FrontIsScopes
<1> QED BY <1>1, <1>4, <1>5

\* A scope that is closed takes the newest screen with it.
LEMMA CloseAnswered ==
  ASSUME NEW x, NEW g, NEW h, NEW s, NEW l, Answered(h, s, l), Opened(x, g, h)
  PROVE  s # <<>> /\ Answered(g, Front(s), l)
<1>1. IsFiniteSet(Owned(g)) /\ IsFiniteSet(Owned(h))
  <2>1. Owned(g) \in SUBSET Owned(h) /\ IsFiniteSet(Owned(h))
    BY DEF Opened, Answered
  <2> QED BY <2>1, FS_Subset
<1>2. /\ Cardinality(Owned(g)) \in Nat
      /\ Cardinality(Owned(h)) = Cardinality(Owned(g)) + 1
      /\ \A p \in Owned(g) : /\ Upto(p, h) = Upto(p, g)
                             /\ Cardinality(Upto(p, g)) \in 1..Cardinality(Owned(g))
  BY <1>1, OpenedCount
<1>3. s \in Seq(Screen) /\ l \in Nat /\ Len(s) = Cardinality(Owned(h)) + l
  BY DEF Answered
<1>4. s # <<>>
  BY <1>2, <1>3
<1>5. /\ Front(s) \in Seq(Screen) /\ Len(s) \in Nat /\ Len(Front(s)) = Len(s) - 1
      /\ \A i \in 1..(Len(s) - 1) : Front(s)[i] = s[i]
  BY <1>3, <1>4, FrontIsPrefix
<1>6. ASSUME l = 0, NEW p \in Owned(g)
      PROVE  Front(s)[Cardinality(Upto(p, g))] = ScreenOf(p, g)
  <2>1. p \in Owned(h) /\ ScreenOf(p, h) = ScreenOf(p, g)
    BY <1>6 DEF Opened
  <2>2. s[Cardinality(Upto(p, h))] = ScreenOf(p, h)
    BY <1>6, <2>1 DEF Answered, InOrder
  <2>3. Cardinality(Upto(p, g)) \in 1..(Len(s) - 1)
    BY <1>2, <1>3, <1>6
  <2> QED BY <1>2, <1>5, <2>1, <2>2, <2>3
<1>7. Len(Front(s)) = Cardinality(Owned(g)) + l
  BY <1>2, <1>3, <1>5
<1> QED BY <1>1, <1>3, <1>4, <1>5, <1>6, <1>7 DEF Answered, InOrder

\* Two stacks that differ in the innermost activation.
DifferOnTop(g, h) ==
  /\ g \in Seq(Active) /\ h \in Seq(Active) /\ g # <<>> /\ Len(h) = Len(g)
  /\ \A i \in 1..(Len(g) - 1) : h[i] = g[i]

LEMMA TopAnswered ==
  ASSUME NEW g, NEW h, NEW s, NEW l, Answered(g, s, l), DifferOnTop(g, h),
         HeldBy(h[Len(h)]) = HeldBy(g[Len(g)]),
         \A j \in HeldBy(g[Len(g)]) : Held(h[Len(h)])[j] = Held(g[Len(g)])[j]
  PROVE  Answered(h, s, l)
<1>1. /\ DOMAIN g = 1..Len(g) /\ DOMAIN h = 1..Len(g) /\ Len(h) = Len(g) /\ Len(g) \in Nat
      /\ \A i \in 1..Len(g) : i = Len(g) \/ h[i] = g[i]
  BY DEF DifferOnTop
<1>2. \A i \in DOMAIN g : /\ HeldBy(h[i]) = HeldBy(g[i])
                          /\ \A j \in HeldBy(g[i]) : Held(h[i])[j] = Held(g[i])[j]
  BY <1>1
<1>3. Owned(h) = Owned(g)
  BY <1>1, <1>2 DEF Owned
<1>4. \A p \in Owned(g) : ScreenOf(p, h) = ScreenOf(p, g)
  BY <1>2, OwnedMember DEF ScreenOf
<1> QED BY <1>3, <1>4, SameAnswered

\* The innermost activation of h has one screen more.
LEMMA TopOpened ==
  ASSUME NEW g, NEW h, DifferOnTop(g, h), \A i \in DOMAIN g : MayClose(g[i]), NEW j \in Nat,
         HeldBy(h[Len(h)]) = HeldBy(g[Len(g)]) \cup {j},
         \A k \in HeldBy(g[Len(g)]) : k < j /\ Held(h[Len(h)])[k] = Held(g[Len(g)])[k]
  PROVE  Opened(<<Len(g), j>>, g, h) /\ ScreenOf(<<Len(g), j>>, h) = Held(h[Len(h)])[j]
<1> DEFINE x == <<Len(g), j>>
<1>1. /\ DOMAIN g = 1..Len(g) /\ DOMAIN h = 1..Len(g) /\ Len(h) = Len(g) /\ Len(g) \in Nat \ {0}
      /\ \A i \in 1..Len(g) : g[i] \in Active /\ (i = Len(g) \/ h[i] = g[i])
  BY DEF DifferOnTop
<1>2. ASSUME NEW i \in DOMAIN g
      PROVE  HeldBy(g[i]) \subseteq Nat
  <2>1. Held(g[i]) \in Seq(Screen \cup {NoScreen})
    BY <1>1, HeldIsSequence
  <2>2. DOMAIN Held(g[i]) \subseteq Nat
    BY <2>1
  <2> QED BY <2>2 DEF HeldBy
<1>3. x \notin Owned(g)
  BY OwnedMember
<1>4. ASSUME NEW p
      PROVE  p \in Owned(h) <=> p \in Owned(g) \cup {x}
  <2>1. ASSUME NEW i, NEW k
        PROVE  <<i, k>> \in Owned(h) <=> <<i, k>> \in Owned(g) \/ (i = Len(g) /\ k = j)
    <3>1. CASE i \in DOMAIN g /\ i # Len(g)
      BY <1>1, <3>1, OwnedMember
    <3>2. CASE i = Len(g)
      BY <1>1, <3>2, OwnedMember
    <3>3. CASE i \notin DOMAIN g
      BY <1>1, <3>3, OwnedMember
    <3> QED BY <3>1, <3>2, <3>3
  <2>2. p \in Owned(h) \cup Owned(g) \cup {x} => p = <<p[1], p[2]>>
    BY OwnedMember
  <2> QED BY <2>1, <2>2
<1>5. ASSUME NEW p \in Owned(g)
      PROVE  /\ p[1] \in Nat /\ p[2] \in Nat
             /\ p[1] < Len(g) \/ (p[1] = Len(g) /\ p[2] < j)
             /\ ScreenOf(p, h) = ScreenOf(p, g)
  <2>1. p[1] \in DOMAIN g /\ p[2] \in HeldBy(g[p[1]]) /\ p[2] \in Nat
    BY <1>2, OwnedMember
  <2>2. CASE p[1] = Len(g)
    <3>1. p[2] \in HeldBy(g[Len(g)])
      BY <2>1, <2>2
    <3>2. p[2] < j /\ Held(h[Len(h)])[p[2]] = Held(g[Len(g)])[p[2]]
      BY <3>1
    <3> QED BY <1>1, <2>1, <2>2, <3>2 DEF ScreenOf
  <2>3. CASE p[1] # Len(g)
    <3>1. PICK i \in 1..Len(g) : i = p[1]
      BY <1>1, <2>1
    <3>2. i # Len(g) /\ h[i] = g[i]
      BY <1>1, <2>3, <3>1
    <3>3. i \in Nat /\ i < Len(g)
      <4>1. PICK n \in Nat : n = Len(g)
        BY <1>1
      <4>2. i \in 1..n /\ i # n
        BY <3>1, <3>2, <4>1
      <4>3. i \in Nat /\ i < n
        BY ONLY n \in Nat, <4>2
      <4> QED BY <4>1, <4>3
    <3> QED BY <2>1, <3>1, <3>2, <3>3 DEF ScreenOf
  <2> QED BY <2>2, <2>3
<1>6. Owned(h) = Owned(g) \cup {x}
  BY <1>4
<1>7. x[1] = Len(g) /\ x[2] = j
  OBVIOUS
<1> HIDE DEF x
<1>8. Opened(x, g, h)
  BY <1>1, <1>3, <1>5, <1>6, <1>7 DEF Opened
<1>9. ScreenOf(x, h) = Held(h[Len(h)])[j]
  BY <1>1, <1>7 DEF ScreenOf
<1> QED BY <1>8, <1>9 DEF x

\* Activations below the last one wait for the host; who does not read has
\* nothing to read.
Below ==
  \A i \in DOMAIN guest :
    /\ i < Len(guest) => guest[i].at = "syscall"
    /\ guest[i].at # "result" => guest[i].off = NoOffset

\* What a new scope is told is whether the host has opened its screen.
Told ==
  Runs("result") /\ Here.verb = "open" =>
    (Here.opening # NoScreen <=> Result(Here.off) = "true")

ScreensInv == Below /\ Told /\ Answered(guest, screens, lost)

GuestInv == MemoryInv /\ ScreensInv

\* What a step of the running activation does to the stack.
LEMMA TopChanges ==
  ASSUME GuestInv, guest # <<>>, NEW a \in Active, Becomes(a),
         a.at # "result" => a.off = NoOffset
  PROVE  /\ DifferOnTop(guest, guest') /\ DifferOnTop(guest', guest)
         /\ guest'[Len(guest')] = a /\ Len(guest') = Len(guest) /\ Here' = a /\ Below'
<1>1. guest \in Seq(Active) /\ Len(guest) \in Nat \ {0}
  BY DEF GuestInv, MemoryInv, StackOK
<1>2. guest' = [guest EXCEPT ![Len(guest)] = a]
  BY DEF Becomes
<1>3. /\ guest' \in Seq(Active) /\ Len(guest') = Len(guest) /\ guest'[Len(guest)] = a
      /\ \A i \in 1..(Len(guest) - 1) : guest'[i] = guest[i]
  BY <1>1, <1>2
<1>4. Here' = a
  BY <1>3 DEF Here
<1>5. Below'
  <2>1. \A i \in DOMAIN guest' : i \in DOMAIN guest /\ (i = Len(guest) \/ guest'[i] = guest[i])
    BY <1>1, <1>3
  <2> QED BY <1>3, <2>1 DEF Below, GuestInv, ScreensInv
<1>6. guest' # <<>>
  BY <1>1, <1>3
<1> QED BY <1>1, <1>3, <1>4, <1>5, <1>6 DEF DifferOnTop

\* A step after which the scopes of the running activation own what they did.
LEMMA TopKeeps ==
  ASSUME GuestInv, guest # <<>>, NEW a \in Active, Becomes(a),
         a.at # "result" => a.off = NoOffset,
         HeldBy(a) = HeldBy(Here), \A j \in HeldBy(Here) : Held(a)[j] = Held(Here)[j],
         screens' = screens, lost' = lost, Told'
  PROVE  ScreensInv'
<1>1. /\ DifferOnTop(guest, guest') /\ guest'[Len(guest')] = a /\ Below'
  BY TopChanges
<1>2. Answered(guest', screens, lost)
  BY <1>1, TopAnswered DEF GuestInv, ScreensInv, Here
<1> QED BY <1>1, <1>2 DEF ScreensInv

LEMMA CallsKeepScreens ==
  ASSUME GuestInv, Runs("body"), NEW verb \in {"other", "open", "close"}, Calls(verb)
  PROVE  ScreensInv'
<1> DEFINE a == [Here EXCEPT !.at = "syscall", !.verb = verb]
<1>1. guest # <<>> /\ Here.at = "body" /\ Here \in Active
  BY HereIsActive DEF Runs, GuestInv, MemoryInv
<1>2. Here.off = NoOffset
  BY <1>1, HereIsActive DEF GuestInv, MemoryInv, ScreensInv, Below, Here
<1>3. a \in Active /\ a.at = "syscall" /\ a.off = Here.off /\ a.scopes = Here.scopes
  BY <1>1 DEF Active
<1>4. Held(a) = Held(Here)
  BY <1>1, <1>3 DEF Held
<1>5. Becomes(a) /\ screens' = screens /\ lost' = lost
  BY DEF Calls
<1> HIDE DEF a
<1>6. Here' = a
  BY <1>1, <1>2, <1>3, <1>5, TopChanges
<1>7. Told'
  BY <1>3, <1>6 DEF Told, Runs
<1> QED BY <1>1, <1>2, <1>3, <1>4, <1>5, <1>7, TopKeeps DEF HeldBy

LEMMA EndKeepsScreens ==
  ASSUME GuestInv, EndScope
  PROVE  ScreensInv'
<1> DEFINE a == [Here EXCEPT !.scopes = Front(@)]
<1>1. guest # <<>> /\ Here.at = "body" /\ Here \in Active /\ Here.scopes # <<>>
  BY HereIsActive DEF EndScope, Runs, GuestInv, MemoryInv
<1>2. Here.off = NoOffset
  BY <1>1, HereIsActive DEF GuestInv, MemoryInv, ScreensInv, Below, Here
<1>3. CASE Closes(Here.scopes[Len(Here.scopes)])
  BY <1>3, CallsKeepScreens DEF EndScope
<1>4. CASE ~Closes(Here.scopes[Len(Here.scopes)])
  <2>1. Here.scopes \in Seq(Screen \cup {NoScreen})
    BY <1>1 DEF Active
  <2>2. /\ Front(Here.scopes) \in Seq(Screen \cup {NoScreen}) /\ Len(Here.scopes) \in Nat
        /\ DOMAIN Front(Here.scopes) = 1..(Len(Here.scopes) - 1)
        /\ \A i \in 1..(Len(Here.scopes) - 1) : Front(Here.scopes)[i] = Here.scopes[i]
    BY <1>1, <2>1, FrontIsPrefix
  <2>3. a \in Active /\ a.at = "body" /\ a.off = Here.off /\ a.scopes = Front(Here.scopes)
    BY <1>1, <2>2 DEF Active
  <2>4. Held(a) = Front(Here.scopes) /\ Held(Here) = Here.scopes
    BY <1>1, <2>3 DEF Held
  <2>5. Becomes(a) /\ screens' = screens /\ lost' = lost
    BY <1>4 DEF EndScope
  <2> HIDE DEF a
  <2>6. Here.scopes[Len(Here.scopes)] = NoScreen
    BY <1>4 DEF Closes
  <2>7. DOMAIN Here.scopes = 1..Len(Here.scopes)
    BY <2>1
  <2>8. HeldBy(a) = HeldBy(Here) /\ \A j \in HeldBy(Here) : Held(a)[j] = Held(Here)[j]
    <3>1. \A j \in 1..Len(Here.scopes) : j # Len(Here.scopes) => j \in 1..(Len(Here.scopes) - 1)
      BY <2>2
    <3>2. \A j \in 1..(Len(Here.scopes) - 1) : j \in 1..Len(Here.scopes)
      BY <2>2
    <3>3. \A j : j \in HeldBy(Here) <=> j \in 1..Len(Here.scopes) /\ Here.scopes[j] # NoScreen
      BY <2>4, <2>7 DEF HeldBy
    <3>4. \A j : j \in HeldBy(a) <=> j \in 1..(Len(Here.scopes) - 1) /\ Here.scopes[j] # NoScreen
      BY <2>2, <2>4 DEF HeldBy
    <3>5. \A j : j \in HeldBy(Here) <=> j \in HeldBy(a)
      BY <2>6, <3>1, <3>2, <3>3, <3>4
    <3>6. \A j \in HeldBy(Here) : Held(a)[j] = Held(Here)[j]
      BY <2>2, <2>4, <3>4, <3>5
    <3> QED BY <3>5, <3>6
  <2>9. Told'
    <3>1. Here' = a
      BY <1>1, <1>2, <2>3, <2>5, TopChanges
    <3> QED BY <2>3, <3>1 DEF Told, Runs
  <2> QED BY <1>1, <1>2, <2>3, <2>5, <2>8, <2>9, TopKeeps
<1> QED BY <1>3, <1>4

\* The scope notes what the host has done already.
LEMMA TakeKeepsScreens ==
  ASSUME GuestInv, TakeResult
  PROVE  ScreensInv'
<1> DEFINE S == IF Here.verb = "open"
                THEN Append(Here.scopes, IF Result(Here.off) = "true" THEN Here.opening ELSE NoScreen)
                ELSE IF Here.verb = "close" THEN Front(Here.scopes) ELSE Here.scopes
           a == [Here EXCEPT !.at = "body", !.verb = "other", !.off = NoOffset,
                             !.opening = NoScreen, !.scopes = S]
<1>1. guest # <<>> /\ Here.at = "result" /\ Here \in Active /\ MayClose(Here)
  BY HereIsActive DEF TakeResult, Runs, GuestInv, MemoryInv, Closing, Here
<1>2. Here.verb = "open" => (Here.opening # NoScreen <=> Result(Here.off) = "true")
  BY <1>1 DEF GuestInv, ScreensInv, Told, Runs
<1>3. S = Held(Here)
  BY <1>1, <1>2 DEF Held
<1>4. Held(Here) \in Seq(Screen \cup {NoScreen})
  BY <1>1, HeldIsSequence
<1>5. Becomes(a) /\ screens' = screens /\ lost' = lost
  BY DEF TakeResult
<1> HIDE DEF S
<1>6. a \in Active /\ a.at = "body" /\ a.off = NoOffset /\ a.scopes = S
  BY <1>1, <1>3, <1>4 DEF Active
<1> HIDE DEF a
<1>7. Held(a) = Held(Here)
  BY <1>3, <1>6 DEF Held
<1>8. Told'
  <2>1. Here' = a
    BY <1>1, <1>5, <1>6, TopChanges
  <2> QED BY <1>6, <2>1 DEF Told, Runs
<1> QED BY <1>1, <1>5, <1>6, <1>7, <1>8, TopKeeps DEF HeldBy

\* The host has answered: the activation is to read what it says.
LEMMA AnswersTell ==
  ASSUME GuestInv, Runs("syscall"), NEW texts, NEW opening \in Screen \cup {NoScreen},
         Answers(texts, opening), "true" \notin texts \/ Here.verb = "other"
  PROVE  \E a \in Active : /\ Becomes(a) /\ a.at = "result" /\ a.verb = Here.verb
                           /\ a.opening = opening /\ a.scopes = Here.scopes
                           /\ Here.verb = "open" /\ opening = NoScreen => Told'
<1>1. guest # <<>> /\ Here.at = "syscall" /\ Here \in Active
  BY HereIsActive DEF Runs, GuestInv, MemoryInv
<1>2. Here.off = NoOffset
  BY <1>1, HereIsActive DEF GuestInv, MemoryInv, ScreensInv, Below, Here
<1>3. ASSUME NEW o \in Offset \cup {NoOffset}, NEW t,
             Becomes([Here EXCEPT !.at = "result", !.off = o, !.opening = opening]),
             o # NoOffset => heap'[o] = t /\ (t # "true" \/ Here.verb = "other")
      PROVE  \E a \in Active : /\ Becomes(a) /\ a.at = "result" /\ a.verb = Here.verb
                               /\ a.opening = opening /\ a.scopes = Here.scopes
                               /\ Here.verb = "open" /\ opening = NoScreen => Told'
  <2> DEFINE a == [Here EXCEPT !.at = "result", !.off = o, !.opening = opening]
  <2>1. /\ a \in Active /\ a.at = "result" /\ a.verb = Here.verb /\ a.off = o
        /\ a.opening = opening /\ a.scopes = Here.scopes
    BY <1>1 DEF Active
  <2>2. Becomes(a)
    BY <1>3
  <2> HIDE DEF a
  <2>3. Here' = a
    BY <1>1, <2>1, <2>2, TopChanges
  <2>4. ASSUME Here.verb = "open", opening = NoScreen
        PROVE  Told'
    <3>1. Here'.opening = NoScreen /\ Here'.off = o
      BY <2>1, <2>3, <2>4
    <3>2. (Result(Here.off))' # "true"
      BY <1>3, <2>4, <3>1 DEF Result, Unread
    <3> QED BY <3>1, <3>2 DEF Told
  <2> QED BY <2>1, <2>2, <2>4
<1>4. CASE Becomes([Here EXCEPT !.at = "result", !.opening = opening])
  <2>1. [Here EXCEPT !.at = "result", !.opening = opening]
          = [Here EXCEPT !.at = "result", !.off = NoOffset, !.opening = opening]
    BY <1>1, <1>2 DEF Active
  <2> QED BY <1>3, <1>4, <2>1
<1>5. ASSUME NEW o \in Offset \ DOMAIN heap, NEW t \in texts,
             heap' = [p \in DOMAIN heap \cup {o} |-> IF p = o THEN t ELSE heap[p]],
             Becomes([Here EXCEPT !.at = "result", !.off = o, !.opening = opening])
      PROVE  \E a \in Active : /\ Becomes(a) /\ a.at = "result" /\ a.verb = Here.verb
                               /\ a.opening = opening /\ a.scopes = Here.scopes
                               /\ Here.verb = "open" /\ opening = NoScreen => Told'
  <2>1. heap'[o] = t /\ (t # "true" \/ Here.verb = "other")
    BY <1>5
  <2> QED BY <1>3, <1>5, <2>1
<1> QED BY <1>4, <1>5 DEF Answers

\* An answer that opens and closes nothing.
LEMMA AnswersKeepScreens ==
  ASSUME GuestInv, Runs("syscall"), NEW texts, Answers(texts, NoScreen),
         Here.verb = "other" \/ (Here.verb = "open" /\ "true" \notin texts),
         screens' = screens, lost' = lost
  PROVE  ScreensInv'
<1>1. PICK a \in Active : /\ Becomes(a) /\ a.at = "result" /\ a.verb = Here.verb
                          /\ a.opening = NoScreen /\ a.scopes = Here.scopes
                          /\ Here.verb = "open" => Told'
  BY AnswersTell
<1>2. guest # <<>> /\ Here.at = "syscall" /\ Here \in Active
  BY HereIsActive DEF Runs, GuestInv, MemoryInv
<1>3. Told'
  <2>1. Here' = a
    BY <1>1, <1>2, TopChanges
  <2> QED BY <1>1, <2>1 DEF Told
<1>4. Held(Here) = Here.scopes /\ DOMAIN Here.scopes = 1..Len(Here.scopes) /\ Len(Here.scopes) \in Nat
  BY <1>2 DEF Held, Active
<1>5. HeldBy(a) = HeldBy(Here) /\ \A j \in HeldBy(Here) : Held(a)[j] = Held(Here)[j]
  <2>1. CASE Here.verb = "other"
    BY <1>1, <1>4, <2>1 DEF Held, HeldBy
  <2>2. CASE Here.verb = "open"
    <3>1. Held(a) = Append(Here.scopes, NoScreen)
      BY <1>1, <2>2 DEF Held
    <3>2. /\ DOMAIN Held(a) = 1..(Len(Here.scopes) + 1)
          /\ Held(a)[Len(Here.scopes) + 1] = NoScreen
          /\ \A j \in 1..Len(Here.scopes) : Held(a)[j] = Here.scopes[j]
      BY <1>2, <3>1 DEF Active
    <3>3. \A j : j \in HeldBy(Here) <=> j \in 1..Len(Here.scopes) /\ Here.scopes[j] # NoScreen
      BY <1>4 DEF HeldBy
    <3>4. \A j : j \in HeldBy(a) <=> j \in 1..(Len(Here.scopes) + 1) /\ Held(a)[j] # NoScreen
      BY <3>2 DEF HeldBy
    <3>5. \A j \in 1..(Len(Here.scopes) + 1) : j \in 1..Len(Here.scopes) \/ j = Len(Here.scopes) + 1
      BY <1>4
    <3>6. \A j \in 1..Len(Here.scopes) : j \in 1..(Len(Here.scopes) + 1)
      BY <1>4
    <3>7. \A j : j \in HeldBy(Here) <=> j \in HeldBy(a)
      BY <3>2, <3>3, <3>4, <3>5, <3>6
    <3> QED BY <1>4, <3>2, <3>3, <3>7
  <2> QED BY <2>1, <2>2
<1> QED BY <1>1, <1>2, <1>3, <1>5, TopKeeps

\* The host opens a screen: it is the new scope's.
LEMMA OpenKeepsScreens ==
  ASSUME GuestInv, AnswerOpen, NEW s \in Screen, screens' = Append(screens, s),
         NEW o \in Offset \ DOMAIN heap,
         heap' = [p \in DOMAIN heap \cup {o} |-> IF p = o THEN "true" ELSE heap[p]],
         Becomes([Here EXCEPT !.at = "result", !.off = o, !.opening = s])
  PROVE  ScreensInv'
<1> DEFINE a == [Here EXCEPT !.at = "result", !.off = o, !.opening = s]
           n == Len(Here.scopes)
<1>1. /\ guest # <<>> /\ Here.at = "syscall" /\ Here.verb = "open" /\ Here \in Active
      /\ Here.scopes \in Seq(Screen \cup {NoScreen}) /\ lost' = lost
  BY HereIsActive DEF Runs, GuestInv, MemoryInv, AnswerOpen
<1>2. /\ a \in Active /\ a.at = "result" /\ a.verb = "open" /\ a.off = o /\ a.opening = s
      /\ a.scopes = Here.scopes
  BY <1>1 DEF Active
<1>3. Becomes(a)
  OBVIOUS
<1> HIDE DEF a
<1>4. /\ DifferOnTop(guest, guest') /\ guest'[Len(guest')] = a /\ Here' = a /\ Below'
      /\ Len(guest') = Len(guest)
  BY <1>1, <1>2, <1>3, TopChanges
<1>5. Told'
  <2>1. o # NoOffset /\ heap'[o] = "true"
    BY OffsetAssumption
  <2>2. (Result(o))' = "true"
    BY <2>1 DEF Result, Unread
  <2>3. Here'.opening # NoScreen /\ Here'.off = o
    BY <1>2, <1>4, ScreenAssumption
  <2>4. (Result(Here.off))' = "true"
    BY <2>1, <2>3 DEF Result, Unread
  <2> QED BY <2>3, <2>4 DEF Told
<1>6. n \in Nat /\ DOMAIN Here.scopes = 1..n /\ Held(Here) = Here.scopes
  BY <1>1 DEF Held
<1>7. Held(a) = Append(Here.scopes, s)
  BY <1>2 DEF Held
<1>8. /\ DOMAIN Held(a) = 1..(n + 1) /\ Held(a)[n + 1] = s
      /\ \A j \in 1..n : Held(a)[j] = Here.scopes[j]
  BY <1>1, <1>7
<1>9. s # NoScreen
  BY ScreenAssumption
<1> HIDE DEF n
<1>10. HeldBy(a) = HeldBy(Here) \cup {n + 1}
       /\ \A k \in HeldBy(Here) : k < n + 1 /\ Held(a)[k] = Held(Here)[k]
  <2>1. \A j \in 1..(n + 1) : j \in 1..n \/ j = n + 1
    BY <1>6
  <2>2. \A j \in 1..n : j \in 1..(n + 1) /\ j < n + 1
    BY <1>6
  <2>3. n + 1 \in 1..(n + 1)
    BY <1>6
  <2>4. \A j : j \in HeldBy(Here) <=> j \in 1..n /\ Here.scopes[j] # NoScreen
    BY <1>6 DEF HeldBy
  <2>5. \A j : j \in HeldBy(a) <=> j \in 1..(n + 1) /\ Held(a)[j] # NoScreen
    BY <1>8 DEF HeldBy
  <2>6. \A j : j \in HeldBy(a) <=> j \in HeldBy(Here) \/ j = n + 1
    BY <1>8, <1>9, <2>1, <2>2, <2>3, <2>4, <2>5
  <2> QED BY <1>6, <1>8, <2>2, <2>4, <2>6
<1>11. \A i \in DOMAIN guest : MayClose(guest[i])
  BY DEF GuestInv, MemoryInv, Closing
<1>12. n + 1 \in Nat /\ guest[Len(guest)] = Here
  BY <1>6 DEF Here
<1>13. PICK x : Opened(x, guest, guest') /\ ScreenOf(x, guest') = s
  <2>1. /\ Opened(<<Len(guest), n + 1>>, guest, guest')
        /\ ScreenOf(<<Len(guest), n + 1>>, guest') = Held(guest'[Len(guest')])[n + 1]
    BY <1>4, <1>10, <1>11, <1>12, TopOpened
  <2> QED BY <1>4, <1>8, <2>1
<1>14. Answered(guest', screens', lost)
  BY <1>13, OpenAnswered DEF GuestInv, ScreensInv
<1> QED BY <1>1, <1>4, <1>5, <1>14 DEF ScreensInv

\* The host closes a screen: the one of the scope that ends.
LEMMA CloseKeepsScreens ==
  ASSUME GuestInv, AnswerClose
  PROVE  ScreensInv'
<1> DEFINE n == Len(Here.scopes)
<1>1. /\ guest # <<>> /\ Here.at = "syscall" /\ Here.verb = "close" /\ Here \in Active
      /\ Here.scopes \in Seq(Screen \cup {NoScreen}) /\ lost' = lost /\ MayClose(Here)
  BY HereIsActive DEF Runs, GuestInv, MemoryInv, AnswerClose, Closing, Here
<1>2. PICK a \in Active : /\ Becomes(a) /\ a.at = "result" /\ a.verb = Here.verb
                          /\ a.opening = NoScreen /\ a.scopes = Here.scopes
  BY AnswersTell DEF AnswerClose
<1>3. /\ DifferOnTop(guest', guest) /\ guest'[Len(guest')] = a /\ Here' = a /\ Below'
      /\ Len(guest') = Len(guest)
  BY <1>1, <1>2, TopChanges
<1>4. Told'
  BY <1>1, <1>2, <1>3 DEF Told
<1>5. Here.scopes # <<>> /\ Here.scopes[n] # NoScreen
  BY <1>1 DEF MayClose
<1>6. /\ n \in Nat \ {0} /\ DOMAIN Here.scopes = 1..n /\ Held(Here) = Here.scopes
      /\ Held(a) = Front(Here.scopes)
  BY <1>1, <1>2, <1>5 DEF Held
<1>7. /\ DOMAIN Held(a) = 1..(n - 1)
      /\ \A j \in 1..(n - 1) : Held(a)[j] = Here.scopes[j]
  BY <1>1, <1>5, <1>6, FrontIsPrefix
<1> HIDE DEF n
<1>8. HeldBy(Here) = HeldBy(a) \cup {n}
      /\ \A k \in HeldBy(a) : k < n /\ Held(Here)[k] = Held(a)[k]
  <2>1. \A j \in 1..n : j \in 1..(n - 1) \/ j = n
    BY <1>6
  <2>2. \A j \in 1..(n - 1) : j \in 1..n /\ j < n
    BY <1>6
  <2>3. n \in 1..n
    BY <1>6
  <2>4. \A j : j \in HeldBy(Here) <=> j \in 1..n /\ Here.scopes[j] # NoScreen
    BY <1>6 DEF HeldBy
  <2>5. \A j : j \in HeldBy(a) <=> j \in 1..(n - 1) /\ Held(a)[j] # NoScreen
    BY <1>7 DEF HeldBy
  <2>6. \A j : j \in HeldBy(Here) <=> j \in HeldBy(a) \/ j = n
    BY <1>5, <1>7, <2>1, <2>2, <2>3, <2>4, <2>5
  <2> QED BY <1>6, <1>7, <2>2, <2>5, <2>6
<1>9. \A i \in DOMAIN guest' : MayClose(guest'[i])
  <2>1. guest \in Seq(Active) /\ \A i \in DOMAIN guest : MayClose(guest[i])
    BY DEF GuestInv, MemoryInv, StackOK, Closing
  <2>2. MayClose(a)
    BY <1>1, <1>2 DEF MayClose
  <2>3. guest' = [guest EXCEPT ![Len(guest)] = a]
    BY <1>2 DEF Becomes
  <2> QED BY <1>3, <2>1, <2>2, <2>3
<1>10. guest[Len(guest)] = Here
  BY DEF Here
<1>11. Opened(<<Len(guest'), n>>, guest', guest)
  BY <1>3, <1>6, <1>8, <1>9, <1>10, TopOpened
<1>12. screens # <<>> /\ Answered(guest', Front(screens), lost)
  BY <1>11, CloseAnswered DEF GuestInv, ScreensInv
<1>13. screens' = Front(screens)
  BY <1>12 DEF AnswerClose
<1> QED BY <1>1, <1>3, <1>4, <1>12, <1>13 DEF ScreensInv

\* Activations end: those below keep their scopes, the screens of the others are
\* lost.
LEMMA UnwindKeepsScreens ==
  ASSUME GuestInv, NEW k \in 0..(Len(guest) - 1), guest' = SubSeq(guest, 1, k),
         screens' = screens, lost' = lost + Cardinality({p \in Owned(guest) : p[1] > k})
  PROVE  ScreensInv'
<1> DEFINE gone == {p \in Owned(guest) : p[1] > k}
<1>1. /\ guest \in Seq(Active) /\ Len(guest) \in Nat /\ k \in Nat /\ k \in 0..Len(guest) /\ k < Len(guest)
      /\ Answered(guest, screens, lost) /\ Below
  BY DEF GuestInv, MemoryInv, StackOK, ScreensInv
<1>2. guest' = [i \in 1..k |-> guest[i]] /\ Len(guest') = k
  <2>1. guest = SubSeq(guest, 1, Len(guest))
    BY <1>1, SubSeqFull
  <2>2. guest' = Restrict(guest, 1..k)
    BY <1>1, <2>1, SubSeqRestrict
  <2>3. guest' = [i \in 1..k |-> guest[i]]
    BY <2>2 DEF Restrict
  <2> QED BY <1>1, <2>3
<1>3. \A i \in 1..k : i \in DOMAIN guest /\ i < Len(guest)
  BY <1>1
<1>4. Below'
  BY <1>1, <1>2, <1>3 DEF Below
<1>5. Told'
  <2>1. ASSUME guest' # <<>>
        PROVE  Here'.at = "syscall"
    <3>1. k \in 1..k
      BY <1>1, <1>2, <2>1
    <3> QED BY <1>1, <1>2, <1>3, <3>1 DEF Below, Here
  <2> QED BY <2>1 DEF Told, Runs
<1>6. ASSUME NEW i \in 1..Len(guest)
      PROVE  i > k <=> i \notin 1..k
  BY <1>1
<1>7. Owned(guest') = Owned(guest) \ gone
  <2>1. ASSUME NEW i, NEW j
        PROVE  <<i, j>> \in Owned(guest') <=> <<i, j>> \in Owned(guest) /\ i \in 1..k
    BY <1>2, <1>3, OwnedMember
  <2>2. ASSUME NEW i, NEW j, <<i, j>> \in Owned(guest)
        PROVE  i \in 1..k <=> <<i, j>> \notin gone
    <3>1. i \in 1..Len(guest)
      BY <1>1, <2>2, OwnedMember
    <3> QED BY <1>6, <2>2, <3>1
  <2>3. \A p \in Owned(guest) \cup Owned(guest') : p = <<p[1], p[2]>>
    BY OwnedMember
  <2>4. \A p : p \in Owned(guest') <=> p \in Owned(guest) \ gone
    BY <2>1, <2>2, <2>3
  <2> QED BY <2>4
<1>8. ASSUME NEW p \in Owned(guest')
      PROVE  ScreenOf(p, guest') = ScreenOf(p, guest)
  <2>1. p[1] \in 1..k
    BY <1>2, OwnedMember
  <2>2. guest'[p[1]] = guest[p[1]]
    BY <1>2, <2>1
  <2> QED BY <2>2 DEF ScreenOf
<1> HIDE DEF gone
<1>9. IsFiniteSet(Owned(guest)) /\ IsFiniteSet(gone) /\ IsFiniteSet(Owned(guest'))
  <2>1. IsFiniteSet(Owned(guest)) /\ gone \in SUBSET Owned(guest) /\ Owned(guest') \in SUBSET Owned(guest)
    BY <1>1, <1>7 DEF Answered, gone
  <2> QED BY <2>1, FS_Subset
<1>10. /\ Cardinality(gone) \in Nat /\ Cardinality(Owned(guest')) \in Nat /\ Cardinality(Owned(guest)) \in Nat
       /\ Cardinality(Owned(guest')) = Cardinality(Owned(guest)) - Cardinality(gone)
  <2>1. Owned(guest) \cap gone = gone
    BY DEF gone
  <2>2. Cardinality(Owned(guest) \ gone) = Cardinality(Owned(guest)) - Cardinality(Owned(guest) \cap gone)
    BY <1>9, FS_Difference
  <2> QED BY <1>7, <1>9, <2>1, <2>2, FS_CardinalityType
<1>11. lost' = lost + Cardinality(gone)
  BY DEF gone
<1>12. screens \in Seq(Screen) /\ lost \in Nat /\ Len(screens) = Cardinality(Owned(guest)) + lost
  BY <1>1 DEF Answered
<1>13. lost' \in Nat /\ Len(screens) = Cardinality(Owned(guest')) + lost'
  BY <1>10, <1>11, <1>12
<1>14. ASSUME lost' = 0
       PROVE  InOrder(guest', screens)
  <2>1. lost = 0 /\ Cardinality(gone) = 0
    BY <1>10, <1>11, <1>12, <1>14
  <2>2. gone = {}
    BY <1>9, <2>1, FS_EmptySet
  <2>3. Owned(guest') = Owned(guest)
    BY <1>7, <2>2
  <2>4. Answered(guest', screens, lost)
    BY <1>1, <1>8, <2>3, SameAnswered
  <2> QED BY <2>1, <2>4 DEF Answered
<1>15. Answered(guest', screens, lost')
  BY <1>9, <1>12, <1>13, <1>14 DEF Answered
<1> QED BY <1>4, <1>5, <1>15 DEF ScreensInv

LEMMA ReturnKeepsScreens ==
  ASSUME GuestInv, ReturnGuest
  PROVE  ScreensInv'
<1> DEFINE k == Len(guest) - 1
<1>1. /\ guest \in Seq(Active) /\ Len(guest) \in Nat \ {0} /\ Here.at = "body" /\ Here.scopes = <<>>
      /\ Answered(guest, screens, lost)
  BY DEF GuestInv, MemoryInv, StackOK, ScreensInv, ReturnGuest, Runs
<1>2. k \in 0..(Len(guest) - 1) /\ \A i \in 1..Len(guest) : i > k => i = Len(guest)
  BY <1>1
<1>3. guest' = SubSeq(guest, 1, k) /\ screens' = screens /\ lost' = lost
  BY DEF ReturnGuest, Front
<1>4. HeldBy(Here) = {}
  BY <1>1 DEF HeldBy, Held
<1> HIDE DEF k
<1>5. {p \in Owned(guest) : p[1] > k} = {}
  <2>1. \A p \in Owned(guest) : p[1] \in 1..Len(guest) /\ p[2] \in HeldBy(guest[p[1]])
    BY <1>1, OwnedMember
  <2> QED BY <1>2, <1>4, <2>1 DEF Here
<1>6. Cardinality({p \in Owned(guest) : p[1] > k}) = 0
  BY <1>5, FS_EmptySet
<1>7. lost + 0 = lost
  BY <1>1 DEF Answered
<1> QED BY <1>2, <1>3, <1>6, <1>7, UnwindKeepsScreens

LEMMA EnterKeepsScreens ==
  ASSUME GuestInv, EnterGuest
  PROVE  ScreensInv'
<1> DEFINE a == [at |-> "body", verb |-> "other", off |-> NoOffset,
                 opening |-> NoScreen, scopes |-> <<>>]
<1>1. /\ guest \in Seq(Active) /\ Len(guest) \in Nat /\ Below
      /\ Answered(guest, screens, lost)
      /\ guest # <<>> => Here.at = "syscall"
  BY DEF GuestInv, MemoryInv, StackOK, ScreensInv, EnterGuest, CanEnterGuest
<1>2. a.at = "body" /\ a.off = NoOffset /\ a.scopes = <<>> /\ HeldBy(a) = {}
  BY DEF HeldBy, Held
<1>3. guest' = Append(guest, a) /\ screens' = screens /\ lost' = lost
  BY DEF EnterGuest
<1> HIDE DEF a
<1>4. /\ DOMAIN guest' = 1..(Len(guest) + 1) /\ Len(guest') = Len(guest) + 1
      /\ guest'[Len(guest) + 1] = a
      /\ \A i \in 1..Len(guest) : i \in DOMAIN guest /\ guest'[i] = guest[i]
  BY <1>1, <1>3
<1>5. \A i \in 1..(Len(guest) + 1) : i \in 1..Len(guest) \/ i = Len(guest) + 1
  BY <1>1
<1>6. \A i \in 1..Len(guest) : i \in 1..(Len(guest) + 1)
  BY <1>1
<1>7. Below'
  <2>1. ASSUME NEW i \in 1..Len(guest)
        PROVE  guest[i].at = "syscall" /\ guest[i].off = NoOffset
    <3>1. i \in DOMAIN guest
      BY <1>4
    <3>2. CASE i = Len(guest)
      <4>1. guest # <<>>
        BY <1>1, <2>1
      <4> QED BY <1>1, <3>1, <3>2, <4>1 DEF Below, Here
    <3>3. CASE i # Len(guest)
      BY <1>1, <3>1, <3>3 DEF Below
    <3> QED BY <3>2, <3>3
  <2>2. ASSUME NEW i \in DOMAIN guest'
        PROVE  /\ i < Len(guest') => guest'[i].at = "syscall"
               /\ guest'[i].at # "result" => guest'[i].off = NoOffset
    <3>1. CASE i = Len(guest) + 1
      BY <1>1, <1>2, <1>4, <3>1
    <3>2. CASE i \in 1..Len(guest)
      BY <1>4, <2>1, <3>2
    <3> QED BY <1>4, <1>5, <2>2, <3>1, <3>2
  <2> QED BY <2>2 DEF Below
<1>8. Told'
  <2>1. Here' = a
    BY <1>4 DEF Here
  <2> QED BY <1>2, <2>1 DEF Told, Runs
<1>9. Owned(guest') = Owned(guest)
  <2>1. DOMAIN guest = 1..Len(guest)
    BY <1>1
  <2>2. ASSUME NEW i, NEW j
        PROVE  <<i, j>> \in Owned(guest') <=> <<i, j>> \in Owned(guest)
    <3>1. Len(guest) + 1 \notin 1..Len(guest)
      BY <1>1
    <3>2. CASE i \in 1..Len(guest)
      BY <1>4, <1>6, <2>1, <3>2, OwnedMember
    <3>3. CASE i = Len(guest) + 1
      BY <1>2, <1>4, <2>1, <3>1, <3>3, OwnedMember
    <3>4. CASE i \notin 1..Len(guest) /\ i # Len(guest) + 1
      BY <1>4, <1>5, <2>1, <3>4, OwnedMember
    <3> QED BY <3>2, <3>3, <3>4
  <2>3. \A p \in Owned(guest) \cup Owned(guest') : p = <<p[1], p[2]>>
    BY OwnedMember
  <2>4. \A p : p \in Owned(guest') <=> p \in Owned(guest)
    BY <2>2, <2>3
  <2> QED BY <2>4
<1>10. ASSUME NEW p \in Owned(guest)
       PROVE  ScreenOf(p, guest') = ScreenOf(p, guest)
  <2>1. p[1] \in 1..Len(guest)
    BY <1>1, OwnedMember
  <2>2. guest'[p[1]] = guest[p[1]]
    BY <1>4, <2>1
  <2> QED BY <2>2 DEF ScreenOf
<1>11. Answered(guest', screens, lost)
  BY <1>1, <1>9, <1>10, SameAnswered
<1> QED BY <1>3, <1>7, <1>8, <1>11 DEF ScreensInv

LEMMA GuestInitial ==
  ASSUME GuestInit
  PROVE  GuestInv
<1>1. /\ DOMAIN guest = {} /\ guest = <<>> /\ screens = <<>> /\ lost = 0
      /\ screens \in Seq(Screen) /\ Len(screens) = 0 /\ lost \in Nat
  BY DEF GuestInit
<1>2. Owned(guest) = {}
  BY <1>1, OwnedMember
<1>3. Answered(guest, screens, lost)
  BY <1>1, <1>2, FS_EmptySet DEF Answered, InOrder
<1>4. Below /\ Told
  BY <1>1 DEF Below, Told, Runs
<1> QED BY <1>3, <1>4, MemoryInitial DEF GuestInv, ScreensInv

LEMMA ScreensInductive ==
  ASSUME GuestInv, GuestNext
  PROVE  ScreensInv'
<1>1. CASE EnterGuest
  BY <1>1, EnterKeepsScreens
<1>2. CASE CallHost \/ OpenScope
  BY <1>2, CallsKeepScreens DEF CallHost, OpenScope
<1>3. CASE EndScope
  BY <1>3, EndKeepsScreens
<1>4. CASE ReturnGuest
  BY <1>4, ReturnKeepsScreens
<1>5. CASE TakeResult
  BY <1>5, TakeKeepsScreens
<1>6. CASE AnswerOther
  BY <1>6, AnswersKeepScreens DEF AnswerOther
<1>7. CASE AnswerClose
  BY <1>7, CloseKeepsScreens
<1>8. CASE AnswerOpen
  <2>1. CASE Answers({"json"}, NoScreen) /\ screens' = screens
    BY <1>8, <2>1, AnswersKeepScreens DEF AnswerOpen
  <2> QED BY <1>8, <2>1, OpenKeepsScreens DEF AnswerOpen
<1>9. CASE TrapGuest
  BY <1>9, UnwindKeepsScreens DEF TrapGuest
<1> QED BY <1>1, <1>2, <1>3, <1>4, <1>5, <1>6, <1>7, <1>8, <1>9 DEF GuestNext

LEMMA GuestInductive ==
  ASSUME GuestInv, [GuestNext]_guestVars
  PROVE  GuestInv'
<1>1. MemoryInv'
  BY MemoryInductive DEF GuestInv
<1>2. CASE GuestNext
  BY <1>1, <1>2, ScreensInductive DEF GuestInv
<1>3. CASE UNCHANGED guestVars
  <2>1. ScreensInv'
    BY <1>3 DEF guestVars, GuestInv, ScreensInv, Below, Told, Runs, Here, Result, Unread
  <2> QED BY <1>1, <2>1 DEF GuestInv
<1> QED BY <1>2, <1>3

LEMMA GuestInvImplies ==
  ASSUME GuestInv
  PROVE  GuestTypeOK /\ NothingLeaks /\ ScopesOwnScreens /\ ScreensBalance
<1>1. Answered(guest, screens, lost) /\ MemoryInv
  BY DEF GuestInv, ScreensInv
<1>2. lost = 0 => Len(screens) = Cardinality(Owned(guest))
  BY <1>1, FS_CardinalityType DEF Answered
<1> QED BY <1>1, <1>2
    DEF Answered, MemoryInv, StackOK, GuestTypeOK, ScopesOwnScreens, ScreensBalance

\* host::call frees every result it reads, however calls nest and wherever
\* bodies trap.
THEOREM ResultsAreFreed == GuestSpec => []NothingLeaks
<1>1. GuestInit => GuestInv
  BY GuestInitial
<1>2. GuestInv /\ [GuestNext]_guestVars => GuestInv'
  BY GuestInductive
<1>3. GuestInv => NothingLeaks
  BY GuestInvImplies
<1> QED BY <1>1, <1>2, <1>3, PTL DEF GuestSpec

\* ScreenScope, for any number of nested bodies and scopes: each scope that ends
\* closes one screen, its own unless a trap has left screens behind.
THEOREM ScopesCorrect == GuestSpec => [](ScopesOwnScreens /\ ScreensBalance)
<1>1. GuestInit => GuestInv
  BY GuestInitial
<1>2. GuestInv /\ [GuestNext]_guestVars => GuestInv'
  BY GuestInductive
<1>3. GuestInv => ScopesOwnScreens /\ ScreensBalance
  BY GuestInvImplies
<1> QED BY <1>1, <1>2, <1>3, PTL DEF GuestSpec

\* What is on the screen stack is accounted for after every step, whatever was
\* nested in what and wherever it trapped: the screens of the scopes that are
\* open, and those that traps have left behind.
THEOREM ScreensAccounted == GuestSpec => []ScreensBalance
<1>1. GuestSpec => [](ScopesOwnScreens /\ ScreensBalance)
  BY ScopesCorrect
<1> QED BY <1>1, PTL

----------------------------------------------------------------------------
(* The session. *)

SessionInv ==
  /\ HelloInv /\ MenuInv /\ GuestInv
  /\ module \in {"hello", "guest"}
  /\ call \in Nat \cup {Ended}

LEMMA SessionInitial ==
  ASSUME Init
  PROVE  SessionInv
BY HelloInitial, MenuInitial, GuestInitial DEF Init, SessionInv, Idle

\* A step of one module, or of the menu, is a step of its specification; it leaves
\* the others alone.
LEMMA OwnStepKeeps ==
  ASSUME SessionInv, HelloStep \/ GuestStep
  PROVE  SessionInv'
<1>1. HelloInv' /\ MenuInv' /\ GuestInv'
  BY HelloInductive, MenuInductive, GuestInductive DEF SessionInv, HelloStep, GuestStep
<1>2. module' = module /\ call' \in {call, Ended}
  BY DEF HelloStep, GuestStep, CallEndsWith
<1> QED BY <1>1, <1>2 DEF SessionInv

\* The host answers tools.list with sequences of entries.
LEMMA ListedIsAnswer == Listed \subseteq Answer
<1>1. ASSUME NEW s \in Lists
      PROVE  [array |-> TRUE, items |-> s] \in Answer
  <2>1. PICK n \in 0..2 : s \in [1..n -> Tool]
    BY DEF Lists
  <2>2. s \in Seq(Tool \cup {Bad})
    BY <2>1
  <2> QED BY <2>2 DEF Answer
<1>2. <<>> \in Seq(Tool \cup {Bad}) /\ <<Bad>> \in Seq(Tool \cup {Bad})
  OBVIOUS
<1>3. /\ [array |-> FALSE, items |-> <<>>] \in Answer
      /\ [array |-> FALSE, items |-> <<Bad>>] \in Answer
      /\ [array |-> TRUE, items |-> <<Bad>>] \in Answer
  BY <1>2 DEF Answer
<1> QED BY <1>1, <1>3 DEF Listed

LEMMA MenuStepKeeps ==
  ASSUME SessionInv, MenuStep
  PROVE  SessionInv'
<1>1. MenuNext
  BY ListedIsAnswer DEF MenuStep, MenuNext
<1>2. HelloInv' /\ MenuInv' /\ GuestInv'
  BY <1>1, HelloInductive, MenuInductive, GuestInductive DEF SessionInv, MenuStep
<1> QED BY <1>2 DEF SessionInv, MenuStep

\* A call across modules enters one of them.
LEMMA StartKeeps ==
  ASSUME SessionInv, StartsCall
  PROVE  SessionInv'
<1>1. HelloInv' /\ MenuInv' /\ GuestInv'
  <2>1. (HelloNext /\ UNCHANGED guestVars) \/ (GuestNext /\ UNCHANGED helloVars)
    BY DEF StartsCall, HelloNext, GuestNext
  <2> QED BY <2>1, HelloInductive, MenuInductive, GuestInductive DEF SessionInv, StartsCall
<1>2. Len(hello') \in Nat /\ Len(guest') \in Nat
  BY <1>1 DEF HelloInv, HelloTypeOK, GuestInv, MemoryInv, StackOK
<1>3. module' = module /\ call' \in {Len(hello'), Len(guest')}
  BY DEF StartsCall
<1> QED BY <1>1, <1>2, <1>3 DEF SessionInv

LEMMA SessionInductive ==
  ASSUME SessionInv, [Next]_vars
  PROVE  SessionInv'
<1>1. CASE EndsCall
  <2>1. HelloInv' /\ MenuInv' /\ GuestInv'
    BY <1>1, HelloInductive, MenuInductive, GuestInductive DEF SessionInv, EndsCall, MenuNext
  <2> QED BY <1>1, <2>1 DEF SessionInv, EndsCall, Idle
<1>2. CASE UNCHANGED vars
  <2>1. UNCHANGED helloVars /\ UNCHANGED menuVars /\ UNCHANGED guestVars /\ UNCHANGED <<module, call>>
    BY <1>2 DEF vars
  <2>2. HelloInv' /\ MenuInv' /\ GuestInv'
    BY <2>1, HelloInductive, MenuInductive, GuestInductive DEF SessionInv
  <2> QED BY <2>1, <2>2 DEF SessionInv
<1> QED BY <1>1, <1>2, OwnStepKeeps, MenuStepKeeps, StartKeeps DEF Next

\* In a session all components keep their invariants, whatever the host does for
\* one of them while another waits.
THEOREM SessionCorrect == Spec => []SessionInv
<1>1. Init => SessionInv
  BY SessionInitial
<1>2. SessionInv /\ [Next]_vars => SessionInv'
  BY SessionInductive
<1> QED BY <1>1, <1>2, PTL DEF Spec

\* The state of the session keeps the shape the three modules give it.
THEOREM SessionTypes == Spec => []TypeOK
<1>1. SessionInv => TypeOK
  BY GuestInvImplies DEF SessionInv, HelloInv, MenuInv, TypeOK
<1> QED BY <1>1, SessionCorrect, PTL

\* What holds of a component alone holds of it in the session: the menu invokes
\* what was picked, HelloWorld's setting lasts, results are freed, and the screens
\* are those of the open scopes.
THEOREM ComponentsHold ==
  Spec => [](PickedIsInvoked /\ SettingLasts /\ NothingLeaks /\ ScopesOwnScreens /\ ScreensBalance)
<1>1. SessionInv => /\ PickedIsInvoked /\ SettingLasts /\ NothingLeaks
                    /\ ScopesOwnScreens /\ ScreensBalance
  BY InvImpliesLasts, GuestInvImplies DEF SessionInv, MenuInv
<1> QED BY <1>1, SessionCorrect, PTL

\* What each module does in the session is what its own specification allows:
\* neither the host's record of tools, nor a call across modules, nor the others'
\* steps make EmergencyMenu, HelloWorld or any user of the SDK do anything it would
\* not do alone; so every theorem about one of them holds in the session.
THEOREM SessionImplementsParts == Spec => HelloSpec /\ MenuSpec /\ GuestSpec
<1>1. Init => HelloInit /\ MenuInit /\ GuestInit
  BY DEF Init
<1>2. [Next]_vars => [HelloNext]_helloVars /\ [MenuNext]_menuVars /\ [GuestNext]_guestVars
  <2>1. CASE HelloStep
    BY <2>1 DEF HelloStep
  <2>2. CASE GuestStep
    BY <2>2 DEF GuestStep
  <2>3. CASE MenuStep
    <3>1. MenuNext
      BY <2>3, ListedIsAnswer DEF MenuStep, MenuNext
    <3> QED BY <2>3, <3>1 DEF MenuStep
  <2>4. CASE StartsCall
    BY <2>4 DEF StartsCall, HelloNext, GuestNext
  <2>5. CASE EndsCall
    BY <2>5 DEF EndsCall, MenuNext
  <2>6. CASE UNCHANGED vars
    BY <2>6 DEF vars
  <2> QED BY <2>1, <2>2, <2>3, <2>4, <2>5, <2>6 DEF Next
<1> QED BY <1>1, <1>2, PTL DEF Spec, HelloSpec, MenuSpec, GuestSpec

\* In a session too no body of HelloWorld goes back, whatever the menu, the host
\* and other bodies do meanwhile.
THEOREM BodiesGoForwardInSession == Spec => BodiesGoForward
BY SessionImplementsParts, HelloGoesForward, PTL
=============================================================================
