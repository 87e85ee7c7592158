----------------------------- MODULE HelloWorld -----------------------------
(***************************************************************************)
(* The example module, example/HelloWorld.cpp: its hooks, its tool, its    *)
(* listener and its one setting, verbose_, which it keeps in memory and in *)
(* the configuration the host stores for the module.                       *)
(*                                                                         *)
(* The instance is always inside a syscall when anything else happens: an  *)
(* action is its code from the return of one syscall to the next one, or   *)
(* what the host does in between.  The host may enter the instance again   *)
(* while it waits in a verb of Reentrant, and may lose it at any point;    *)
(* the stored configuration outlives the instance.                         *)
(***************************************************************************)
EXTENDS Integers, Sequences

CONSTANTS Reentrant,  \* the verbs during which the host may enter the instance
          MaxNested,  \* bound: nested activations
          MaxSets     \* bound: calls of the setter

Verb == {"log", "tool.register", "evt.listen", "cfgreg.bool", "cfg.get", "evt.emit",
         "cfg.set", "drawing", "ui.choice", "ui.input", "ui.pause"}

\* The host answers the two verbs of the configuration store by itself.
ASSUME ReentrantAssumption == Reentrant \subseteq Verb \ {"cfg.get", "cfg.set"}

\* The tokens on_load hands out, by the verb that announces them.
Announces == [v \in {"tool.register", "evt.listen", "cfgreg.bool"} |->
                CASE v = "tool.register" -> "tool"
                  [] v = "evt.listen"    -> "listener"
                  [] v = "cfgreg.bool"   -> "setting"]

Stored == {"none", "0", "1"}

\* One activation, and the verb it waits in.  value is what it stores, or was
\* answered; served says that the host has done its part.
Activation == [fn : {"on_load", "on_unload", "tool", "listener", "setter"}, at : Verb,
               value : Stored, served : BOOLEAN]

VARIABLES life,     \* the instance: "absent", "loaded", "unloaded" after on_unload
          hello,    \* its activations, the running one last
          verbose,  \* verbose_
          stored,   \* the host's entry "verbose" of the module's configuration
          offered,  \* the tokens the host has recorded from this instance
          wishes,   \* the values a user may expect: the last one set, and those
                    \* of setters that have started since
          sets      \* calls of the setter so far

helloVars == <<life, hello, verbose, stored, offered, wishes, sets>>

----------------------------------------------------------------------------
Now == hello[Len(hello)]

Waiting(fn, verb, value) == [fn |-> fn, at |-> verb, value |-> value, served |-> FALSE]

Push(fn, verb, value) == hello' = Append(hello, Waiting(fn, verb, value))

Pop == SubSeq(hello, 1, Len(hello) - 1)

\* Verb v returns in the running activation.
ReturnsFrom(fn, v) == hello # <<>> /\ Now.fn = fn /\ Now.at = v

GoTo(verb) == hello' = [hello EXCEPT ![Len(hello)] = Waiting(Now.fn, verb, "none")]

CanEnterHello ==
  /\ life # "absent" /\ Len(hello) < MaxNested
  /\ hello # <<>> => Now.at \in Reentrant

----------------------------------------------------------------------------
(* on_load and on_unload. *)

\* A new instance has its member initializers.
Load ==
  /\ life = "absent"
  /\ life' = "loaded"
  /\ verbose' = FALSE
  /\ Push("on_load", "log", "none")
  /\ UNCHANGED <<stored, offered, wishes, sets>>

\* The syscalls of on_load that answer nothing the code looks at.
OnLoadGoesOn ==
  /\ \/ ReturnsFrom("on_load", "log") /\ GoTo("tool.register")
     \/ ReturnsFrom("on_load", "tool.register") /\ GoTo("evt.listen")
     \/ ReturnsFrom("on_load", "evt.listen") /\ GoTo("cfgreg.bool")
     \/ ReturnsFrom("on_load", "cfgreg.bool") /\ GoTo("cfg.get")
  /\ UNCHANGED <<life, verbose, stored, offered, wishes, sets>>

\* The reader that takes any stored value for true.
ParsedAsPresent(s) == s # "none"

\* *saved == "1"
Parsed(s) == s = "1"

OnLoadReads ==
  /\ ReturnsFrom("on_load", "cfg.get") /\ Now.served
  /\ verbose' = IF Now.value = "none" THEN verbose ELSE Parsed(Now.value)
  /\ GoTo("evt.emit")
  /\ UNCHANGED <<life, stored, offered, wishes, sets>>

OnLoadReturns ==
  /\ ReturnsFrom("on_load", "evt.emit")
  /\ hello' = Pop
  /\ UNCHANGED <<life, verbose, stored, offered, wishes, sets>>

EnterOnUnload ==
  /\ life = "loaded" /\ CanEnterHello
  /\ life' = "unloaded"
  /\ Push("on_unload", "log", "none")
  /\ UNCHANGED <<verbose, stored, offered, wishes, sets>>

OnUnloadReturns ==
  /\ ReturnsFrom("on_unload", "log")
  /\ hello' = Pop
  /\ UNCHANGED <<life, verbose, stored, offered, wishes, sets>>

----------------------------------------------------------------------------
(* The tool, the listener and the setter. *)

EnterTool ==
  /\ "tool" \in offered /\ CanEnterHello
  /\ Push("tool", "drawing", "none")
  /\ UNCHANGED <<life, verbose, stored, offered, wishes, sets>>

\* The tool that asks again after each greeting.
ToolAsksAgain ==
  /\ \/ ReturnsFrom("tool", "drawing") /\ GoTo("ui.choice")
     \/ ReturnsFrom("tool", "ui.choice") /\ (GoTo("ui.pause") \/ GoTo("ui.input"))
     \/ ReturnsFrom("tool", "ui.input") /\ GoTo("ui.pause")
     \/ ReturnsFrom("tool", "ui.pause") /\ GoTo("ui.choice")
  /\ UNCHANGED <<life, verbose, stored, offered, wishes, sets>>

\* clearScreen and printHeader draw; the choice is "Say hello", "Enter a name",
\* or anything else; printSuccess draws again before the pause.
ToolGoesOn ==
  /\ \/ ReturnsFrom("tool", "drawing") /\ GoTo("ui.choice")
     \/ ReturnsFrom("tool", "ui.choice") /\ (GoTo("ui.pause") \/ GoTo("ui.input"))
     \/ ReturnsFrom("tool", "ui.input") /\ GoTo("ui.pause")
  /\ UNCHANGED <<life, verbose, stored, offered, wishes, sets>>

ToolReturns ==
  /\ ReturnsFrom("tool", "ui.choice") \/ ReturnsFrom("tool", "ui.pause")
  /\ hello' = Pop
  /\ UNCHANGED <<life, verbose, stored, offered, wishes, sets>>

EnterListener ==
  /\ "listener" \in offered /\ CanEnterHello
  /\ Push("listener", "log", "none")
  /\ UNCHANGED <<life, verbose, stored, offered, wishes, sets>>

ListenerReturns ==
  /\ ReturnsFrom("listener", "log")
  /\ hello' = Pop
  /\ UNCHANGED <<life, verbose, stored, offered, wishes, sets>>

\* What the configuration UI can send: a boolean, or another JSON value.
Sent == {"true", "false", "other"}

\* register_config_bool wraps the setter: what is no boolean becomes false.
Coerced(v) == v = "true"

Spelled(b) == IF b THEN "1" ELSE "0"

\* The memory changes first, then the store.
EnterSetter(v) ==
  /\ "setting" \in offered /\ CanEnterHello /\ sets < MaxSets
  /\ sets' = sets + 1
  /\ verbose' = Coerced(v)
  /\ wishes' = wishes \cup {Coerced(v)}
  /\ Push("setter", "cfg.set", Spelled(Coerced(v)))
  /\ UNCHANGED <<life, stored, offered>>

SetterReturns ==
  /\ ReturnsFrom("setter", "cfg.set") /\ Now.served
  /\ wishes' = {Now.value = "1"}
  /\ hello' = Pop
  /\ UNCHANGED <<life, verbose, stored, offered, sets>>

----------------------------------------------------------------------------
(* The host. *)

\* It does its part of a verb; a registration it may also refuse (a missing
\* permission: the call answers nothing).
HostServes ==
  /\ hello # <<>> /\ ~Now.served
  /\ \/ /\ Now.at \in DOMAIN Announces
        /\ offered' = offered \cup {Announces[Now.at]}
        /\ hello' = [hello EXCEPT ![Len(hello)].served = TRUE]
        /\ stored' = stored
     \/ /\ Now.at = "cfg.get"
        /\ hello' = [hello EXCEPT ![Len(hello)] = [Now EXCEPT !.value = stored, !.served = TRUE]]
        /\ UNCHANGED <<stored, offered>>
     \/ /\ Now.at = "cfg.set"
        /\ stored' = Now.value
        /\ hello' = [hello EXCEPT ![Len(hello)].served = TRUE]
        /\ offered' = offered
  /\ UNCHANGED <<life, verbose, wishes, sets>>

\* The instance goes: after on_unload, or, with all that runs in it, because
\* the host stops it or dies.  Its tokens go with it, the store stays.
Gone ==
  /\ life' = "absent"
  /\ hello' = <<>>
  /\ offered' = {}
  /\ UNCHANGED <<verbose, stored, wishes, sets>>

Drop == life = "unloaded" /\ hello = <<>> /\ Gone

Crash == life # "absent" /\ Gone

----------------------------------------------------------------------------
HelloInit ==
  /\ life = "absent"
  /\ hello = <<>>
  /\ verbose = FALSE
  /\ stored = "none"
  /\ offered = {}
  /\ wishes = {FALSE}
  /\ sets = 0

HelloNext ==
  \/ Load \/ OnLoadGoesOn \/ OnLoadReads \/ OnLoadReturns
  \/ EnterOnUnload \/ OnUnloadReturns
  \/ EnterTool \/ ToolGoesOn \/ ToolReturns
  \/ EnterListener \/ ListenerReturns
  \/ \E v \in Sent : EnterSetter(v)
  \/ SetterReturns
  \/ HostServes \/ Drop \/ Crash

HelloSpec == HelloInit /\ [][HelloNext]_helloVars

----------------------------------------------------------------------------
(* Properties. *)

HelloTypeOK ==
  /\ life \in {"absent", "loaded", "unloaded"}
  /\ hello \in Seq(Activation)
  /\ verbose \in BOOLEAN
  /\ stored \in Stored
  /\ offered \subseteq {"tool", "listener", "setting"}
  /\ wishes \subseteq BOOLEAN
  /\ sets \in Nat

BeforeRead == {"log", "tool.register", "evt.listen", "cfgreg.bool", "cfg.get"}

\* No setter is under way, and on_load has read the store.
Settled ==
  /\ life # "absent"
  /\ \A i \in DOMAIN hello :
       /\ hello[i].fn # "setter"
       /\ hello[i].fn = "on_load" => hello[i].at \notin BeforeRead

\* The value the module shows is the last one a user set, also in an instance
\* that was loaded after a restart or a crash in the middle of anything, and
\* with setters that run while on_load waits to read; after a crash inside a
\* setter it may be that setter's.
SettingLasts == Settled => verbose \in wishes

\* The syscalls a body can still make after the one it waits in.
CallsLeft(verb) ==
  CASE verb = "log"                            -> 5
    [] verb = "tool.register"                  -> 4
    [] verb \in {"evt.listen", "drawing"}      -> 3
    [] verb \in {"cfgreg.bool", "ui.choice"}   -> 2
    [] verb \in {"cfg.get", "ui.input"}        -> 1
    [] OTHER                                   -> 0

\* The steps an activation is from its end: one for each call, one for the host.
Remaining(a) == 2 * CallsLeft(a.at) + (IF a.served THEN 0 ELSE 1)

\* What interrupts a body, above it or between two of its calls, never sends it
\* back: it stays where it waits or comes nearer to its end, so that a call of
\* the tool, of the setter or of a hook ends unless the host or its user stop
\* answering.
BodiesGoForward ==
  [][\A i \in DOMAIN hello \cap DOMAIN hello' :
       \/ hello'[i] = hello[i]
       \/ hello'[i].fn = hello[i].fn /\ Remaining(hello'[i]) < Remaining(hello[i])]_helloVars
=============================================================================
