------------------------------ MODULE ToolMenu ------------------------------
(***************************************************************************)
(* Modules/EmergencyMenu.cpp: the loop of on_load that lists the tools the *)
(* host knows, lets the user choose one and has the host run it.           *)
(*                                                                         *)
(* An action is the code from the return of one syscall to the next.  What *)
(* the host answers, and when, is left to it: the list may be stale by the *)
(* time the user has chosen.                                               *)
(***************************************************************************)
EXTENDS Integers, Sequences

CONSTANTS Tool,  \* what an entry of the list names: a tool and its kind
          Bad,   \* an entry that is no object
          Exit   \* "Exit Menu"

ASSUME ToolAssumption == Bad \notin Tool /\ Exit \notin Tool

VARIABLES at,      \* the syscall the menu is in; "off", "left" and "trapped" outside
          tools,   \* the list of this round
          shown,   \* the options of the last choice, as the user sees them
          sel,     \* what choice returned
          picked   \* the option the user picked, or "none"

menuVars == <<at, tools, shown, sel, picked>>

\* What tools.list answers: an array, or something else (null, when denied).
Answer == [array : BOOLEAN, items : Seq(Tool \cup {Bad})]

----------------------------------------------------------------------------
EnterMenu ==
  /\ at = "off"
  /\ at' = "drawing"
  /\ UNCHANGED <<tools, shown, sel, picked>>

\* clearScreen, printHeader and println have drawn the menu: it asks for the tools.
AskTools ==
  /\ at = "drawing"
  /\ at' = "tools.list"
  /\ UNCHANGED <<tools, shown, sel, picked>>

Options(items) == Append(items, Exit)

\* The menu that takes an entry which is no object for one without a name.
OfferMutant(items) == at' = "ui.choice" /\ shown' = Options(items)

\* The options are made of the entries; value() of one that is no object aborts.
Offer(items) ==
  IF \E i \in DOMAIN items : items[i] = Bad
  THEN at' = "trapped" /\ shown' = shown
  ELSE at' = "ui.choice" /\ shown' = Options(items)

TakeList(answer) ==
  /\ at = "tools.list"
  /\ tools' = answer.items
  /\ IF ~answer.array \/ answer.items = <<>>
     THEN at' = "telling" /\ shown' = shown
     ELSE Offer(answer.items)
  /\ UNCHANGED <<sel, picked>>

\* printInfo and println have told the user that there is none.
NoTools ==
  /\ at = "telling"
  /\ Offer(tools)
  /\ UNCHANGED <<tools, sel, picked>>

\* The test that lets the index behind the last tool through.
LeavesBeyond(i) == i < 0 \/ i > Len(tools)

\* sel < 0 || sel >= tools.size()
Leaves(i) == i < 0 \/ i >= Len(tools)

Choose(i) ==
  /\ sel' = i
  /\ at' = IF Leaves(i) THEN "left" ELSE "tools.invoke"
  /\ UNCHANGED <<tools, shown>>

\* The user picks one of the options: choice returns its index, from 0.
Pick(n) ==
  /\ at = "ui.choice"
  /\ picked' = shown[n]
  /\ Choose(n - 1)

\* The user cancels, or the host answers no integer: choice returns -1.
Cancelled ==
  /\ at = "ui.choice"
  /\ picked' = Exit
  /\ Choose(-1)

\* The tool the menu asks the host to run.
Invoked == tools[sel + 1]

\* tools.invoke answers whether there was such a tool; the menu does not care.
\* The locals of the round go.
MenuInvoked ==
  /\ at = "tools.invoke"
  /\ at' = "drawing"
  /\ tools' = <<>> /\ shown' = <<>> /\ sel' = -1 /\ picked' = "none"

----------------------------------------------------------------------------
MenuInit ==
  /\ at = "off"
  /\ tools = <<>>
  /\ shown = <<>>
  /\ sel = -1
  /\ picked = "none"

MenuNext ==
  \/ EnterMenu \/ AskTools
  \/ \E answer \in Answer : TakeList(answer)
  \/ NoTools
  \/ \E n \in DOMAIN shown : Pick(n)
  \/ Cancelled
  \/ MenuInvoked

MenuSpec == MenuInit /\ [][MenuNext]_menuVars

----------------------------------------------------------------------------
(* Properties. *)

MenuTypeOK ==
  /\ at \in {"off", "drawing", "tools.list", "telling", "ui.choice", "tools.invoke",
             "left", "trapped"}
  /\ tools \in Seq(Tool \cup {Bad})
  /\ shown \in Seq(Tool \cup {Exit})
  /\ sel \in Int
  /\ picked \in Tool \cup {Exit, "none"}

\* What is invoked is the option the user picked among those shown, and the
\* menu is left only by the way out: options and list stay in step, whatever
\* the list is.
PickedIsInvoked ==
  /\ at = "tools.invoke" => sel + 1 \in DOMAIN tools /\ Invoked = picked
  /\ at = "left" => picked = Exit
=============================================================================
