------------------------------ MODULE Session ------------------------------
(***************************************************************************)
(* A session of the host: the menu of Modules/EmergencyMenu.cpp beside a   *)
(* module whose tool it can run, which is loaded, unloaded and lost while  *)
(* the menu shows its list.  The module is example/HelloWorld.cpp, or any  *)
(* module that uses the SDK (HostCall); which one is chosen at the start.  *)
(* Modules share nothing with each other but the host's record of tools,   *)
(* so the two need not be there together.                                  *)
(***************************************************************************)
EXTENDS HelloWorld, ToolMenu, HostCall

CONSTANTS Mine  \* the tool of the module beside the menu; others are elsewhere

ASSUME MineAssumption == Mine \in Tool

VARIABLES module,  \* "hello", or "guest" for any module
          call     \* the activation that tools.invoke of the menu waits for,
                   \* by its place on the module's stack; or Idle, Ended

vars == <<helloVars, menuVars, guestVars, module, call>>

Idle == 0
Ended == -1

----------------------------------------------------------------------------
\* The tools the host knows: an arbitrary module has registered its own, those
\* of yet other modules come and go.
Known == IF module = "guest" \/ "tool" \in offered THEN {Mine} ELSE {}

Lists ==
  {s \in UNION {[1..n -> Tool] : n \in 0..2} :
     /\ \A i, j \in DOMAIN s : s[i] = s[j] => i = j
     /\ Known \subseteq {s[i] : i \in DOMAIN s}
     /\ Mine \in {s[i] : i \in DOMAIN s} => Mine \in Known}

\* It answers the list, null without the permission, or entries the menu does
\* not expect.
Listed ==
  {[array |-> TRUE, items |-> s] : s \in Lists}
    \cup {[array |-> FALSE, items |-> <<>>], [array |-> FALSE, items |-> <<Bad>>],
          [array |-> TRUE, items |-> <<Bad>>]}

\* The call ends with its activation, whatever ends that.
CallEndsWith(stack) == call' = IF call > 0 /\ Len(stack) < call THEN Ended ELSE call

HelloStep ==
  /\ module = "hello"
  /\ HelloNext
  /\ CallEndsWith(hello')
  /\ UNCHANGED <<menuVars, guestVars, module>>

GuestStep ==
  /\ module = "guest"
  /\ GuestNext
  /\ CallEndsWith(guest')
  /\ UNCHANGED <<menuVars, helloVars, module>>

MenuStep ==
  /\ \/ EnterMenu \/ AskTools \/ NoTools \/ Cancelled
     \/ \E answer \in Listed : TakeList(answer)
     \/ \E n \in DOMAIN shown : Pick(n)
  /\ UNCHANGED <<helloVars, guestVars, module, call>>

\* The host looks up the tool the menu names and enters the module.
StartsCall ==
  /\ at = "tools.invoke" /\ Invoked = Mine /\ call = Idle
  /\ \/ module = "hello" /\ EnterTool /\ call' = Len(hello') /\ UNCHANGED guestVars
     \/ module = "guest" /\ EnterGuest /\ call' = Len(guest') /\ UNCHANGED helloVars
  /\ UNCHANGED <<menuVars, module>>

\* It answers when the tool has ended, or at once when it knows no such tool.
EndsCall ==
  /\ at = "tools.invoke" /\ (Invoked # Mine \/ Known = {} \/ call = Ended)
  /\ call <= 0
  /\ MenuInvoked
  /\ call' = Idle
  /\ UNCHANGED <<helloVars, guestVars, module>>

----------------------------------------------------------------------------
Init ==
  /\ HelloInit /\ MenuInit /\ GuestInit
  /\ module \in {"hello", "guest"}
  /\ call = Idle

Next == HelloStep \/ GuestStep \/ MenuStep \/ StartsCall \/ EndsCall

Spec == Init /\ [][Next]_vars

\* A step of the d-th activation of HelloWorld, when it is the running one.
Proceeds(d) ==
  /\ Len(hello) = d
  /\ HelloStep
  /\ Len(hello') <= d /\ life' = life

\* The host serves what waits for it, the user answers what is asked, and
\* neither keeps an activation waiting for ever by entering above it.
Fairness ==
  /\ \A d \in 1..MaxNested : SF_vars(Proceeds(d))
  /\ SF_vars(StartsCall \/ EndsCall)

FairSpec == Spec /\ Fairness

----------------------------------------------------------------------------
(* Properties. *)

TypeOK ==
  /\ HelloTypeOK /\ MenuTypeOK /\ GuestTypeOK
  /\ module \in {"hello", "guest"}
  /\ call \in Nat \cup {Ended}

\* An invocation comes back to the menu, though the tool asks the user twice,
\* is interrupted by other bodies of its module, or goes with the module.
CallEnds == module = "hello" /\ at = "tools.invoke" ~> at # "tools.invoke"
=============================================================================
