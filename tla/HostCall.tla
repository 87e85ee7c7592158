------------------------------ MODULE HostCall ------------------------------
(***************************************************************************)
(* What a module owns while it talks to the host: the buffers that         *)
(* host::call of include/hostcall.hpp reads its results from, and the      *)
(* screens of the ScreenScope objects of include/ui.hpp.                   *)
(*                                                                         *)
(* The bodies are any module code: each call of the SDK is an action, what *)
(* is between them is left out.  Activations nest as in ModRuntime: the    *)
(* host may enter while the last one waits in a syscall, and a trap takes  *)
(* activations without running their destructors.                          *)
(***************************************************************************)
EXTENDS Integers, FiniteSets, SequencesExt

CONSTANTS Offset,    \* where malloc can place a result
          Screen,    \* the screens the host can have open
          MaxActive, \* bound: nested activations
          MaxScopes  \* bound: scopes of one activation

\* No screen: the scope's opened_ is false.
NoScreen == "none"
NoOffset == 0

ASSUME OffsetAssumption == Offset \subseteq Nat \ {NoOffset}
ASSUME ScreenAssumption == NoScreen \notin Screen

\* The text of a result: true, another JSON value, no JSON, or nothing at all.
Text == {"true", "json", "garbage", "empty"}

\* An activation and its scopes, the innermost last.  at: "body" while it runs,
\* "syscall" while the host serves it, "result" once the host has answered;
\* off: where the answer is; opening: the screen the host has opened for it.
Active == [at : {"body", "syscall", "result"}, verb : {"other", "open", "close"},
           off : Offset \cup {NoOffset}, opening : Screen \cup {NoScreen},
           scopes : Seq(Screen \cup {NoScreen})]

VARIABLES guest,    \* the activations
          heap,     \* the results in memory: their text, by offset
          screens,  \* the open screens of the module, the newest last
          lost      \* screens that a trap has left open

guestVars == <<guest, heap, screens, lost>>

----------------------------------------------------------------------------
Here == guest[Len(guest)]

Runs(point) == guest # <<>> /\ Here.at = point

Becomes(a) == guest' = [guest EXCEPT ![Len(guest)] = a]

CanEnterGuest == Len(guest) < MaxActive /\ (guest # <<>> => Here.at = "syscall")

EnterGuest ==
  /\ CanEnterGuest
  /\ guest' = Append(guest, [at |-> "body", verb |-> "other", off |-> NoOffset,
                             opening |-> NoScreen, scopes |-> <<>>])
  /\ UNCHANGED <<heap, screens, lost>>

----------------------------------------------------------------------------
(* The module. *)

Calls(verb) ==
  /\ Becomes([Here EXCEPT !.at = "syscall", !.verb = verb])
  /\ UNCHANGED <<heap, screens, lost>>

CallHost == Runs("body") /\ Calls("other")

\* ScreenScope s(title);
OpenScope == Runs("body") /\ Len(Here.scopes) < MaxScopes /\ Calls("open")

\* The destructor that does not look at opened_.
ClosesAlways(s) == TRUE

Closes(s) == s # NoScreen

\* The end of the innermost scope.
EndScope ==
  /\ Runs("body") /\ Here.scopes # <<>>
  /\ IF Closes(Here.scopes[Len(Here.scopes)])
     THEN Calls("close")
     ELSE /\ Becomes([Here EXCEPT !.scopes = Front(@)])
          /\ UNCHANGED <<heap, screens, lost>>

\* A body ends when its scopes have.
ReturnGuest ==
  /\ Runs("body") /\ Here.scopes = <<>>
  /\ guest' = Front(guest)
  /\ UNCHANGED <<heap, screens, lost>>

\* if (off == 0 || len == 0) return nullptr;
Unread(off) == off = NoOffset \/ heap[off] = "empty"

\* The early return when the text is no JSON, before host_free.
FreedMutant(off) == IF heap[off] = "garbage" THEN {} ELSE {off}

Freed(off) == {off}

\* What call() gives back.
Result(off) == IF Unread(off) \/ heap[off] = "garbage" THEN "null" ELSE heap[off]

\* host::call returns: the text is parsed, then host_free releases it.  A new
\* scope notes whether it was opened, one that was closed is gone.
TakeResult ==
  /\ Runs("result")
  /\ heap' = [o \in DOMAIN heap \ (IF Unread(Here.off) THEN {} ELSE Freed(Here.off)) |-> heap[o]]
  /\ Becomes([Here EXCEPT
       !.at = "body", !.verb = "other", !.off = NoOffset, !.opening = NoScreen,
       !.scopes = CASE Here.verb = "open" ->
                         Append(@, IF Result(Here.off) = "true" THEN Here.opening ELSE NoScreen)
                    [] Here.verb = "close" -> Front(@)
                    [] OTHER -> @])
  /\ UNCHANGED <<screens, lost>>

----------------------------------------------------------------------------
(* The host. *)

\* It puts its answer where malloc of the module places it, or answers null.
Answers(texts, opening) ==
  \/ Becomes([Here EXCEPT !.at = "result", !.opening = opening]) /\ heap' = heap
  \/ \E o \in Offset \ DOMAIN heap, t \in texts :
       /\ heap' = [p \in DOMAIN heap \cup {o} |-> IF p = o THEN t ELSE heap[p]]
       /\ Becomes([Here EXCEPT !.at = "result", !.off = o, !.opening = opening])

AnswerOther ==
  /\ Runs("syscall") /\ Here.verb = "other"
  /\ Answers(Text, NoScreen)
  /\ UNCHANGED <<screens, lost>>

\* It opens a screen and says so, or does neither.
AnswerOpen ==
  /\ Runs("syscall") /\ Here.verb = "open"
  /\ \/ \E s \in Screen \ {screens[i] : i \in DOMAIN screens} :
          /\ screens' = Append(screens, s)
          /\ \E o \in Offset \ DOMAIN heap :
               /\ heap' = [p \in DOMAIN heap \cup {o} |-> IF p = o THEN "true" ELSE heap[p]]
               /\ Becomes([Here EXCEPT !.at = "result", !.off = o, !.opening = s])
     \/ Answers({"json"}, NoScreen) /\ screens' = screens
  /\ UNCHANGED lost

\* It closes the newest screen: the verb names none.
AnswerClose ==
  /\ Runs("syscall") /\ Here.verb = "close"
  /\ screens' = IF screens = <<>> THEN screens ELSE Front(screens)
  /\ Answers({"json"}, NoScreen)
  /\ UNCHANGED lost

----------------------------------------------------------------------------
\* The screens of the scopes of an activation; a scope that waits to be told has
\* its screen already, or no more.
Held(a) ==
  CASE a.at = "result" /\ a.verb = "open"  -> Append(a.scopes, a.opening)
    [] a.at = "result" /\ a.verb = "close" -> Front(a.scopes)
    [] OTHER -> a.scopes

HeldBy(a) == {j \in DOMAIN Held(a) : Held(a)[j] # NoScreen}

\* The scopes of a stack of activations that answer for an open screen, each as
\* the place of its activation and its own.
Owned(stack) == UNION {{<<i, j>> : j \in HeldBy(stack[i])} : i \in DOMAIN stack}

\* A trap in module code unwinds activations down to one that waits for the
\* host.  No destructor runs, and memory stays as it is.  (host::call has no
\* trap of its own: parse() is told to report no exception.)
TrapGuest ==
  /\ Runs("body")
  /\ \E k \in 0..(Len(guest) - 1) :
       /\ guest' = SubSeq(guest, 1, k)
       /\ lost' = lost + Cardinality({p \in Owned(guest) : p[1] > k})
  /\ UNCHANGED <<heap, screens>>

----------------------------------------------------------------------------
GuestInit ==
  /\ guest = <<>>
  /\ heap = [o \in {} |-> "empty"]
  /\ screens = <<>>
  /\ lost = 0

GuestNext ==
  \/ EnterGuest \/ CallHost \/ OpenScope \/ EndScope \/ ReturnGuest \/ TakeResult
  \/ AnswerOther \/ AnswerOpen \/ AnswerClose
  \/ TrapGuest

GuestSpec == GuestInit /\ [][GuestNext]_guestVars

----------------------------------------------------------------------------
(* Properties. *)

GuestTypeOK ==
  /\ guest \in Seq(Active)
  /\ DOMAIN heap \subseteq Offset
  /\ screens \in Seq(Screen)
  /\ lost \in Nat

\* The only result in memory is the one the running activation is about to
\* read, and those that had no length: every other one has been freed, whatever
\* its text was, however the calls nested and wherever they trapped.
NothingLeaks ==
  \A o \in DOMAIN heap : heap[o] = "empty" \/ (Runs("result") /\ Here.off = o)

\* The owning scopes that were opened no later than p.
Upto(p, stack) == {q \in Owned(stack) : q[1] < p[1] \/ (q[1] = p[1] /\ q[2] <= p[2])}

ScreenOf(p, stack) == Held(stack[p[1]])[p[2]]

\* Each owning scope has the screen that was opened for it, and the screens are
\* in the order of their scopes.
InOrder(stack, open) == \A p \in Owned(stack) : open[Cardinality(Upto(p, stack))] = ScreenOf(p, stack)

\* docs/en.md, "opens on construct ... closes on scope exit": as long as no trap
\* has left a screen open, the open screens are those of the scopes that are
\* open, in their order: no scope closes the screen of another one, of its own
\* body or of one it interrupts.
ScopesOwnScreens ==
  lost = 0 => Len(screens) = Cardinality(Owned(guest)) /\ InOrder(guest, screens)

\* Each scope that ends closes exactly one screen, after a trap too (though no
\* longer its own).
ScreensBalance == Len(screens) = Cardinality(Owned(guest)) + lost
=============================================================================
