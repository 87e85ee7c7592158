-------------------------- MODULE HelloWorldProofs --------------------------
(***************************************************************************)
(* SettingLasts for every set of re-entrant verbs and all bounds: what     *)
(* HelloWorld shows is what its user set last, through nested bodies,      *)
(* restarts and crashes.                                                   *)
(*                                                                         *)
(* The property relates the memory to the user's wishes; what carries it   *)
(* over a crash is the store, so the inductive invariant relates both to   *)
(* the store, and says where on the stack a setter or the reading on_load  *)
(* can be: on top, since the host answers their verbs by itself.           *)
(***************************************************************************)
EXTENDS HelloWorld, SequenceTheorems, TLAPS

IsOn(s) == s = "1"

Setting == hello # <<>> /\ Now.fn = "setter"

\* A setter waits in cfg.set and on_load alone in cfg.get.
Points ==
  \A i \in DOMAIN hello :
    /\ hello[i].fn = "setter" <=> hello[i].at = "cfg.set"
    /\ hello[i].fn = "setter" => hello[i].value \in {"0", "1"}
    /\ hello[i].at = "cfg.get" => hello[i].fn = "on_load"

\* What is not on top has let the host in.
Interrupted == \A i \in DOMAIN hello : i < Len(hello) => hello[i].at \in Reentrant

\* The store is always something the user may expect.
StoreIsWished == IsOn(stored) \in wishes

\* A setter has changed the memory, and then the store.
SetterInStep ==
  Setting => /\ verbose = IsOn(Now.value) /\ verbose \in wishes
             /\ Now.served => stored = Now.value

\* on_load has read what is stored.
ReadIsFresh == hello # <<>> /\ Now.at = "cfg.get" /\ Now.served => Now.value = stored

\* With nothing stored the setting is off.
OffByDefault == life # "absent" /\ ~Setting /\ stored = "none" => ~verbose

\* What is shown now will be shown by the next instance.
ShownIsStored == Settled => verbose = IsOn(stored)

AbsentIsEmpty == life = "absent" => hello = <<>>

HelloInv ==
  /\ HelloTypeOK
  /\ AbsentIsEmpty /\ Points /\ Interrupted
  /\ StoreIsWished /\ SetterInStep /\ ReadIsFresh /\ OffByDefault /\ ShownIsStored

----------------------------------------------------------------------------
(* The stack. *)

\* The running activation is an activation.
LEMMA TopIsActivation ==
  ASSUME HelloTypeOK, hello # <<>>
  PROVE  /\ Len(hello) \in DOMAIN hello /\ Len(hello) \in Nat
         /\ Now \in Activation
         /\ Now.fn \in {"on_load", "on_unload", "tool", "listener", "setter"}
         /\ Now.at \in Verb /\ Now.value \in Stored /\ Now.served \in BOOLEAN
<1>1. Len(hello) \in DOMAIN hello /\ Len(hello) \in Nat
  BY DEF HelloTypeOK
<1>2. Now \in Activation
  BY <1>1 DEF HelloTypeOK, Now
<1> QED BY <1>1, <1>2 DEF Activation

\* A new activation on top; those below stay.
LEMMA PushKeeps ==
  ASSUME HelloTypeOK, NEW a \in Activation, hello' = Append(hello, a)
  PROVE  /\ hello' \in Seq(Activation) /\ hello' # <<>>
         /\ DOMAIN hello' = 1..(Len(hello) + 1) /\ Len(hello') = Len(hello) + 1
         /\ hello'[Len(hello')] = a
         /\ \A i \in DOMAIN hello : i \in DOMAIN hello' /\ hello'[i] = hello[i]
         /\ Len(hello) \in Nat
BY DEF HelloTypeOK

\* The top one goes; those below stay.
LEMMA PopKeeps ==
  ASSUME HelloTypeOK, hello # <<>>, hello' = Pop
  PROVE  /\ hello' \in Seq(Activation)
         /\ DOMAIN hello' = 1..(Len(hello) - 1) /\ Len(hello') = Len(hello) - 1
         /\ \A i \in DOMAIN hello' : i \in DOMAIN hello /\ i < Len(hello) /\ hello'[i] = hello[i]
         /\ Len(hello) \in Nat \ {0}
<1>1. hello \in Seq(Activation) /\ Len(hello) \in Nat \ {0}
  BY DEF HelloTypeOK
<1>2. \A i \in 1..(Len(hello) - 1) : hello[i] \in Activation
  BY <1>1
<1>3. hello = SubSeq(hello, 1, Len(hello)) /\ Len(hello) - 1 \in 0..Len(hello)
  BY <1>1, SubSeqFull
<1>4. Pop = Restrict(hello, 1..(Len(hello) - 1))
  BY <1>1, <1>3, SubSeqRestrict DEF Pop
<1>5. Pop = [i \in 1..(Len(hello) - 1) |-> hello[i]]
  BY <1>1, <1>4 DEF Restrict
<1> QED BY <1>1, <1>2, <1>5

\* The top one is replaced; those below stay.
LEMMA ChangeKeeps ==
  ASSUME HelloTypeOK, hello # <<>>, NEW a \in Activation,
         hello' = [hello EXCEPT ![Len(hello)] = a]
  PROVE  /\ hello' \in Seq(Activation) /\ hello' # <<>>
         /\ DOMAIN hello' = DOMAIN hello /\ Len(hello') = Len(hello)
         /\ hello'[Len(hello')] = a
         /\ \A i \in DOMAIN hello : i < Len(hello) => hello'[i] = hello[i]
         /\ Len(hello) \in Nat \ {0}
BY DEF HelloTypeOK

LEMMA WaitingIsActivation ==
  ASSUME NEW fn \in {"on_load", "on_unload", "tool", "listener", "setter"},
         NEW v \in Verb, NEW s \in Stored
  PROVE  /\ Waiting(fn, v, s) \in Activation
         /\ Waiting(fn, v, s).fn = fn /\ Waiting(fn, v, s).at = v
         /\ Waiting(fn, v, s).value = s /\ Waiting(fn, v, s).served = FALSE
BY DEF Waiting, Activation

----------------------------------------------------------------------------
(* The steps that change neither the memory nor the store. *)

\* What is not on top is neither a setter nor an on_load that waits to read.
LEMMA BelowIsOther ==
  ASSUME HelloInv, NEW i \in DOMAIN hello, i < Len(hello)
  PROVE  hello[i].fn # "setter" /\ hello[i].at \notin {"cfg.get", "cfg.set"}
BY ReentrantAssumption DEF HelloInv, Points, Interrupted

\* The host enters on_unload, the tool or the listener.
LEMMA EnterKeeps ==
  ASSUME HelloInv, CanEnterHello, NEW fn \in {"on_unload", "tool", "listener"},
         NEW v \in {"log", "drawing"}, Push(fn, v, "none"),
         life' \in {"loaded", "unloaded"},
         UNCHANGED <<verbose, stored, offered, wishes, sets>>
  PROVE  HelloInv'
<1> DEFINE a == Waiting(fn, v, "none")
<1>1. HelloTypeOK /\ a \in Activation /\ hello' = Append(hello, a)
  BY WaitingIsActivation DEF HelloInv, Push, Verb, Stored
<1>2. a.fn = fn /\ a.at = v /\ a.served = FALSE
  BY DEF Waiting
<1> HIDE DEF a
<1>3. /\ hello' \in Seq(Activation) /\ hello' # <<>>
      /\ DOMAIN hello' = 1..(Len(hello) + 1) /\ Len(hello') = Len(hello) + 1
      /\ hello'[Len(hello')] = a
      /\ \A i \in DOMAIN hello : i \in DOMAIN hello' /\ hello'[i] = hello[i]
      /\ Len(hello) \in Nat /\ DOMAIN hello = 1..Len(hello)
  BY <1>1, PushKeeps DEF HelloTypeOK
<1>4. Now' = a
  BY <1>3 DEF Now
<1>5. life # "absent" /\ life' # "absent"
  BY DEF CanEnterHello
<1>6. hello # <<>> => ~Setting /\ Now.at \in Reentrant
  BY <1>1, <1>3, TopIsActivation, ReentrantAssumption DEF CanEnterHello, HelloInv, Points, Setting, Now
<1>7. ~Setting
  BY <1>6 DEF Setting
<1>8. HelloTypeOK'
  BY <1>1, <1>3 DEF HelloTypeOK
<1>9. Points'
  <2>1. ASSUME NEW i \in DOMAIN hello'
        PROVE  /\ hello'[i].fn = "setter" <=> hello'[i].at = "cfg.set"
               /\ hello'[i].fn = "setter" => hello'[i].value \in {"0", "1"}
               /\ hello'[i].at = "cfg.get" => hello'[i].fn = "on_load"
    <3>1. CASE i = Len(hello')
      BY <1>2, <1>3, <3>1
    <3>2. CASE i # Len(hello')
      <4>1. i \in DOMAIN hello /\ hello'[i] = hello[i]
        BY <1>3, <3>2
      <4> QED BY <4>1 DEF HelloInv, Points
    <3> QED BY <3>1, <3>2
  <2> QED BY <2>1 DEF Points
<1>10. Interrupted'
  BY <1>3, <1>6 DEF HelloInv, Interrupted, Now
<1>11. ~Setting' /\ SetterInStep' /\ ReadIsFresh'
  BY <1>2, <1>4 DEF Setting, SetterInStep, ReadIsFresh
<1>12. AbsentIsEmpty' /\ StoreIsWished' /\ OffByDefault'
  BY <1>5, <1>7 DEF HelloInv, AbsentIsEmpty, StoreIsWished, OffByDefault
<1>13. ShownIsStored'
  BY <1>3, <1>5 DEF HelloInv, ShownIsStored, Settled
<1> QED BY <1>8, <1>9, <1>10, <1>11, <1>12, <1>13 DEF HelloInv

\* A body that is no setter returns.
LEMMA LeaveKeeps ==
  ASSUME HelloInv, hello # <<>>, Now.fn # "setter",
         ~(Now.fn = "on_load" /\ Now.at \in BeforeRead), hello' = Pop,
         UNCHANGED <<life, verbose, stored, offered, wishes, sets>>
  PROVE  HelloInv'
<1>1. HelloTypeOK
  BY DEF HelloInv
<1>2. /\ hello' \in Seq(Activation)
      /\ DOMAIN hello' = 1..(Len(hello) - 1) /\ Len(hello') = Len(hello) - 1
      /\ \A i \in DOMAIN hello' : i \in DOMAIN hello /\ i < Len(hello) /\ hello'[i] = hello[i]
      /\ Len(hello) \in Nat \ {0} /\ DOMAIN hello = 1..Len(hello)
  BY <1>1, PopKeeps DEF HelloTypeOK
<1>3. hello' # <<>> => Len(hello') \in DOMAIN hello'
  BY <1>2
<1>4. hello' # <<>> => Now'.fn # "setter" /\ Now'.at # "cfg.get"
  BY <1>2, <1>3, BelowIsOther DEF Now
<1>5. life # "absent"
  BY DEF HelloInv, AbsentIsEmpty
<1>6. HelloTypeOK'
  BY <1>1, <1>2 DEF HelloTypeOK
<1>7. Points' /\ Interrupted'
  BY <1>2 DEF HelloInv, Points, Interrupted
<1>8. ~Setting /\ ~Setting' /\ SetterInStep' /\ ReadIsFresh'
  BY <1>4 DEF Setting, SetterInStep, ReadIsFresh
<1>9. AbsentIsEmpty' /\ StoreIsWished' /\ OffByDefault'
  BY <1>5, <1>8 DEF HelloInv, AbsentIsEmpty, StoreIsWished, OffByDefault
<1>10. Settled' => Settled
  <2>1. ASSUME Settled', NEW i \in DOMAIN hello
        PROVE  hello[i].fn # "setter" /\ (hello[i].fn = "on_load" => hello[i].at \notin BeforeRead)
    <3>1. CASE i = Len(hello)
      BY <3>1 DEF Now
    <3>2. CASE i # Len(hello)
      BY <1>2, <2>1, <3>2 DEF Settled
    <3> QED BY <3>1, <3>2
  <2> QED BY <1>5, <2>1 DEF Settled
<1>11. ShownIsStored'
  BY <1>10 DEF HelloInv, ShownIsStored
<1> QED BY <1>6, <1>7, <1>8, <1>9, <1>11 DEF HelloInv

\* on_load goes on before it has read, or the tool goes on.
LEMMA GoKeeps ==
  ASSUME HelloInv, hello # <<>>, Now.fn \in {"on_load", "tool"}, NEW v \in Verb \ {"cfg.set"},
         v = "cfg.get" => Now.fn = "on_load", Now.fn = "on_load" => v \in BeforeRead,
         GoTo(v), UNCHANGED <<life, verbose, stored, offered, wishes, sets>>
  PROVE  HelloInv'
<1> DEFINE a == Waiting(Now.fn, v, "none")
<1>1. HelloTypeOK /\ a \in Activation /\ hello' = [hello EXCEPT ![Len(hello)] = a]
  BY WaitingIsActivation, TopIsActivation DEF HelloInv, GoTo, Stored
<1>2. a.fn = Now.fn /\ a.at = v /\ a.served = FALSE
  BY DEF Waiting
<1> HIDE DEF a
<1>3. /\ hello' \in Seq(Activation) /\ hello' # <<>>
      /\ DOMAIN hello' = DOMAIN hello /\ Len(hello') = Len(hello)
      /\ hello'[Len(hello')] = a
      /\ \A i \in DOMAIN hello : i < Len(hello) => hello'[i] = hello[i]
      /\ Len(hello) \in Nat \ {0} /\ DOMAIN hello = 1..Len(hello)
  BY <1>1, ChangeKeeps DEF HelloTypeOK
<1>4. Now' = a
  BY <1>3 DEF Now
<1>5. life # "absent"
  BY DEF HelloInv, AbsentIsEmpty
<1>6. HelloTypeOK'
  BY <1>1, <1>3 DEF HelloTypeOK
<1>7. Points'
  <2>1. ASSUME NEW i \in DOMAIN hello'
        PROVE  /\ hello'[i].fn = "setter" <=> hello'[i].at = "cfg.set"
               /\ hello'[i].fn = "setter" => hello'[i].value \in {"0", "1"}
               /\ hello'[i].at = "cfg.get" => hello'[i].fn = "on_load"
    <3>1. CASE i = Len(hello)
      BY <1>2, <1>3, <3>1
    <3>2. CASE i # Len(hello)
      BY <1>3, <3>2 DEF HelloInv, Points
    <3> QED BY <3>1, <3>2
  <2> QED BY <2>1 DEF Points
<1>8. Interrupted'
  BY <1>3 DEF HelloInv, Interrupted
<1>9. ~Setting /\ ~Setting' /\ SetterInStep' /\ ReadIsFresh'
  BY <1>2, <1>4 DEF Setting, SetterInStep, ReadIsFresh
<1>10. AbsentIsEmpty' /\ StoreIsWished' /\ OffByDefault'
  BY <1>5, <1>9 DEF HelloInv, AbsentIsEmpty, StoreIsWished, OffByDefault
<1>11. Settled' => Settled
  <2>1. ASSUME Settled', NEW i \in DOMAIN hello
        PROVE  hello[i].fn # "setter" /\ (hello[i].fn = "on_load" => hello[i].at \notin BeforeRead)
    <3>1. CASE i = Len(hello)
      <4>1. Now.fn # "on_load"
        BY <1>2, <1>3, <2>1 DEF Settled
      <4> QED BY <3>1, <4>1 DEF Now
    <3>2. CASE i # Len(hello)
      BY <1>3, <2>1, <3>2 DEF Settled
    <3> QED BY <3>1, <3>2
  <2> QED BY <1>5, <2>1 DEF Settled
<1>12. ShownIsStored'
  BY <1>11 DEF HelloInv, ShownIsStored
<1> QED BY <1>6, <1>7, <1>8, <1>9, <1>10, <1>12 DEF HelloInv

----------------------------------------------------------------------------
(* The steps that do. *)

\* A new instance starts switched off, and waits to read.
LEMMA LoadKeeps ==
  ASSUME HelloInv, Load
  PROVE  HelloInv'
<1> DEFINE a == Waiting("on_load", "log", "none")
<1>1. hello = <<>> /\ HelloTypeOK /\ a \in Activation
  BY WaitingIsActivation DEF HelloInv, AbsentIsEmpty, Load, Verb, Stored
<1>2. a.fn = "on_load" /\ a.at = "log" /\ a.served = FALSE
  BY DEF Waiting
<1>3. hello' = <<a>>
  BY <1>1 DEF Load, Push
<1> HIDE DEF a
<1>4. Now' = a /\ DOMAIN hello' = {1} /\ hello'[1] = a /\ Len(hello') = 1
  BY <1>3 DEF Now
<1>5. HelloTypeOK' /\ AbsentIsEmpty' /\ StoreIsWished'
  <2>1. hello' \in Seq(Activation)
    BY <1>1, <1>3
  <2>2. /\ life' = "loaded" /\ verbose' = FALSE
        /\ UNCHANGED <<stored, offered, wishes, sets>>
    BY DEF Load
  <2> QED BY <1>1, <2>1, <2>2 DEF HelloInv, HelloTypeOK, AbsentIsEmpty, StoreIsWished
<1>6. Points' /\ Interrupted' /\ ~Settled'
  <2>1. Points'
    BY <1>2, <1>4 DEF Points
  <2>2. Interrupted'
    BY <1>4 DEF Interrupted
  <2>3. ~Settled'
    BY <1>2, <1>4 DEF Settled, BeforeRead
  <2> QED BY <2>1, <2>2, <2>3
<1>7. SetterInStep' /\ ReadIsFresh' /\ OffByDefault' /\ ShownIsStored'
  BY <1>2, <1>4, <1>6 DEF Setting, SetterInStep, ReadIsFresh, OffByDefault, ShownIsStored, Load
<1> QED BY <1>5, <1>6, <1>7 DEF HelloInv

\* on_load takes the stored value, or leaves the default where there is none.
LEMMA ReadKeeps ==
  ASSUME HelloInv, OnLoadReads
  PROVE  HelloInv'
<1> DEFINE a == Waiting(Now.fn, "evt.emit", "none")
<1>1. /\ HelloTypeOK /\ a \in Activation /\ hello' = [hello EXCEPT ![Len(hello)] = a]
      /\ hello # <<>> /\ Now.fn = "on_load" /\ Now.at = "cfg.get" /\ Now.served
  BY WaitingIsActivation DEF HelloInv, OnLoadReads, ReturnsFrom, GoTo, Stored, Verb
<1>2. a.fn = "on_load" /\ a.at = "evt.emit" /\ a.served = FALSE
  BY <1>1 DEF Waiting
<1> HIDE DEF a
<1>3. /\ hello' \in Seq(Activation) /\ hello' # <<>>
      /\ DOMAIN hello' = DOMAIN hello /\ Len(hello') = Len(hello)
      /\ hello'[Len(hello')] = a
      /\ \A i \in DOMAIN hello : i < Len(hello) => hello'[i] = hello[i]
      /\ Len(hello) \in Nat \ {0} /\ DOMAIN hello = 1..Len(hello)
  BY <1>1, ChangeKeeps DEF HelloTypeOK
<1>4. Now' = a /\ life # "absent"
  BY <1>1, <1>3 DEF Now, HelloInv, AbsentIsEmpty
<1>5. ~Setting /\ ~Setting' /\ Now.value = stored
  BY <1>1, <1>2, <1>4 DEF Setting, HelloInv, ReadIsFresh
<1>6. UNCHANGED <<life, stored, offered, wishes, sets>>
  BY DEF OnLoadReads
<1>7. verbose' = IsOn(stored)
  <2>1. CASE stored = "none"
    BY <1>4, <1>5, <2>1 DEF OnLoadReads, IsOn, HelloInv, HelloTypeOK, OffByDefault
  <2>2. CASE stored # "none"
    BY <1>5, <2>2 DEF OnLoadReads, IsOn, Parsed
  <2> QED BY <2>1, <2>2
<1>8. HelloTypeOK'
  BY <1>1, <1>3, <1>6, <1>7 DEF HelloTypeOK, IsOn
<1>9. Points'
  <2>1. ASSUME NEW i \in DOMAIN hello'
        PROVE  /\ hello'[i].fn = "setter" <=> hello'[i].at = "cfg.set"
               /\ hello'[i].fn = "setter" => hello'[i].value \in {"0", "1"}
               /\ hello'[i].at = "cfg.get" => hello'[i].fn = "on_load"
    <3>1. CASE i = Len(hello)
      BY <1>2, <1>3, <3>1
    <3>2. CASE i # Len(hello)
      BY <1>3, <3>2 DEF HelloInv, Points
    <3> QED BY <3>1, <3>2
  <2> QED BY <2>1 DEF Points
<1>10. Interrupted' /\ SetterInStep' /\ ReadIsFresh'
  BY <1>2, <1>3, <1>4, <1>5 DEF HelloInv, Interrupted, SetterInStep, ReadIsFresh
<1>11. AbsentIsEmpty' /\ StoreIsWished'
  BY <1>4, <1>6 DEF HelloInv, AbsentIsEmpty, StoreIsWished
<1>12. OffByDefault' /\ ShownIsStored'
  BY <1>6, <1>7 DEF OffByDefault, ShownIsStored, IsOn
<1> QED BY <1>8, <1>9, <1>10, <1>11, <1>12 DEF HelloInv

\* A setter changes the memory; its wish is added to those that may come true.
LEMMA SetKeeps ==
  ASSUME HelloInv, NEW w \in Sent, EnterSetter(w)
  PROVE  HelloInv'
<1> DEFINE a == Waiting("setter", "cfg.set", Spelled(Coerced(w)))
<1>1. HelloTypeOK /\ a \in Activation /\ hello' = Append(hello, a)
  BY WaitingIsActivation DEF HelloInv, EnterSetter, Push, Verb, Stored, Spelled
<1>2. /\ a.fn = "setter" /\ a.at = "cfg.set" /\ a.served = FALSE
      /\ a.value \in {"0", "1"} /\ IsOn(a.value) = Coerced(w)
  BY DEF Waiting, Spelled, Coerced, IsOn
<1> HIDE DEF a
<1>3. /\ hello' \in Seq(Activation) /\ hello' # <<>>
      /\ DOMAIN hello' = 1..(Len(hello) + 1) /\ Len(hello') = Len(hello) + 1
      /\ hello'[Len(hello')] = a
      /\ \A i \in DOMAIN hello : i \in DOMAIN hello' /\ hello'[i] = hello[i]
      /\ Len(hello) \in Nat /\ DOMAIN hello = 1..Len(hello)
  BY <1>1, PushKeeps DEF HelloTypeOK
<1>4. Now' = a
  BY <1>3 DEF Now
<1>5. life # "absent" /\ life' = life /\ stored' = stored
  BY DEF EnterSetter, CanEnterHello
<1>6. verbose' = Coerced(w) /\ wishes' = wishes \cup {Coerced(w)}
  BY DEF EnterSetter
<1>7. HelloTypeOK'
  <2>1. Coerced(w) \in BOOLEAN
    BY DEF Coerced
  <2> QED BY <1>1, <1>3, <1>6, <2>1 DEF HelloTypeOK, EnterSetter
<1>8. Points'
  <2>1. ASSUME NEW i \in DOMAIN hello'
        PROVE  /\ hello'[i].fn = "setter" <=> hello'[i].at = "cfg.set"
               /\ hello'[i].fn = "setter" => hello'[i].value \in {"0", "1"}
               /\ hello'[i].at = "cfg.get" => hello'[i].fn = "on_load"
    <3>1. CASE i = Len(hello')
      BY <1>2, <1>3, <3>1
    <3>2. CASE i # Len(hello')
      <4>1. i \in DOMAIN hello /\ hello'[i] = hello[i]
        BY <1>3, <3>2
      <4> QED BY <4>1 DEF HelloInv, Points
    <3> QED BY <3>1, <3>2
  <2> QED BY <2>1 DEF Points
<1>9. Interrupted'
  BY <1>3 DEF HelloInv, Interrupted, EnterSetter, CanEnterHello, Now
<1>10. Setting' /\ SetterInStep' /\ ReadIsFresh'
  BY <1>2, <1>3, <1>4, <1>6 DEF Setting, SetterInStep, ReadIsFresh
<1>11. ~Settled'
  BY <1>2, <1>3 DEF Settled
<1>12. AbsentIsEmpty' /\ StoreIsWished' /\ OffByDefault' /\ ShownIsStored'
  BY <1>5, <1>6, <1>10, <1>11
  DEF HelloInv, AbsentIsEmpty, StoreIsWished, OffByDefault, ShownIsStored
<1> QED BY <1>7, <1>8, <1>9, <1>10, <1>12 DEF HelloInv

\* The setter has reached the store: what it was told is the only wish left.
LEMMA SetReturns ==
  ASSUME HelloInv, SetterReturns
  PROVE  HelloInv'
<1>1. /\ HelloTypeOK /\ hello # <<>> /\ hello' = Pop
      /\ Now.fn = "setter" /\ Now.served /\ Setting
  BY DEF HelloInv, SetterReturns, ReturnsFrom, Setting
<1>2. /\ hello' \in Seq(Activation)
      /\ DOMAIN hello' = 1..(Len(hello) - 1) /\ Len(hello') = Len(hello) - 1
      /\ \A i \in DOMAIN hello' : i \in DOMAIN hello /\ i < Len(hello) /\ hello'[i] = hello[i]
      /\ Len(hello) \in Nat \ {0} /\ DOMAIN hello = 1..Len(hello)
  BY <1>1, PopKeeps DEF HelloTypeOK
<1>3. /\ stored = Now.value /\ verbose = IsOn(stored) /\ stored \in {"0", "1"}
      /\ wishes' = {IsOn(stored)}
  BY <1>1, <1>2 DEF HelloInv, SetterInStep, Points, Now, SetterReturns, IsOn
<1>4. UNCHANGED <<life, verbose, stored, offered, sets>> /\ life # "absent"
  BY <1>1 DEF SetterReturns, HelloInv, AbsentIsEmpty
<1>5. hello' # <<>> => Len(hello') \in DOMAIN hello'
  BY <1>2
<1>6. hello' # <<>> => Now'.fn # "setter" /\ Now'.at # "cfg.get"
  BY <1>2, <1>5, BelowIsOther DEF Now
<1>7. HelloTypeOK'
  BY <1>1, <1>2, <1>3, <1>4 DEF HelloTypeOK, IsOn
<1>8. Points' /\ Interrupted'
  BY <1>2 DEF HelloInv, Points, Interrupted
<1>9. SetterInStep' /\ ReadIsFresh'
  BY <1>6 DEF Setting, SetterInStep, ReadIsFresh
<1>10. AbsentIsEmpty' /\ StoreIsWished' /\ OffByDefault' /\ ShownIsStored'
  BY <1>3, <1>4 DEF AbsentIsEmpty, StoreIsWished, OffByDefault, ShownIsStored, IsOn
<1> QED BY <1>7, <1>8, <1>9, <1>10 DEF HelloInv

\* The host does its part of the verb on top, which stays where it is.
LEMMA ServeKeeps ==
  ASSUME HelloInv, HostServes
  PROVE  HelloInv'
<1>1. HelloTypeOK /\ hello # <<>> /\ ~Now.served
  BY DEF HelloInv, HostServes
<1> DEFINE a == IF Now.at = "cfg.get" THEN [Now EXCEPT !.value = stored, !.served = TRUE]
                                      ELSE [Now EXCEPT !.served = TRUE]
<1>2. /\ hello' = [hello EXCEPT ![Len(hello)] = a] /\ a \in Activation
      /\ a.fn = Now.fn /\ a.at = Now.at /\ a.served = TRUE
      /\ a.value = IF Now.at = "cfg.get" THEN stored ELSE Now.value
      /\ stored' = IF Now.at = "cfg.set" THEN Now.value ELSE stored
      /\ offered' \subseteq {"tool", "listener", "setting"}
  <2>1. /\ Now \in Activation /\ Now = hello[Len(hello)] /\ Len(hello) \in DOMAIN hello
        /\ stored \in Stored /\ offered \subseteq {"tool", "listener", "setting"}
    BY <1>1, TopIsActivation DEF HelloTypeOK, Now
  <2>2. /\ a \in Activation /\ a.fn = Now.fn /\ a.at = Now.at /\ a.served = TRUE
        /\ a.value = IF Now.at = "cfg.get" THEN stored ELSE Now.value
    BY <2>1 DEF Activation
  <2>3. [hello EXCEPT ![Len(hello)].served = TRUE]
          = [hello EXCEPT ![Len(hello)] = [Now EXCEPT !.served = TRUE]]
    BY <2>1
  <2>4. CASE Now.at \in DOMAIN Announces
    <3>1. Now.at \notin {"cfg.get", "cfg.set"} /\ Announces[Now.at] \in {"tool", "listener", "setting"}
      BY <2>4 DEF Announces
    <3> QED BY <2>1, <2>2, <2>3, <3>1 DEF HostServes
  <2>5. CASE Now.at = "cfg.get"
    BY <2>1, <2>2, <2>5 DEF HostServes, Announces
  <2>6. CASE Now.at = "cfg.set"
    BY <2>1, <2>2, <2>3, <2>6 DEF HostServes, Announces
  <2> QED BY <2>4, <2>5, <2>6 DEF HostServes
<1> HIDE DEF a
<1>3. /\ hello' \in Seq(Activation) /\ hello' # <<>>
      /\ DOMAIN hello' = DOMAIN hello /\ Len(hello') = Len(hello)
      /\ hello'[Len(hello')] = a
      /\ \A i \in DOMAIN hello : i < Len(hello) => hello'[i] = hello[i]
      /\ Len(hello) \in Nat \ {0} /\ DOMAIN hello = 1..Len(hello)
  BY <1>1, <1>2, ChangeKeeps DEF HelloTypeOK
<1>4. Now' = a /\ life # "absent" /\ UNCHANGED <<life, verbose, wishes, sets>>
  BY <1>1, <1>3 DEF Now, HelloInv, AbsentIsEmpty, HostServes
<1>5. /\ hello[Len(hello)] = Now
      /\ Now.fn = "setter" <=> Now.at = "cfg.set"
      /\ Now.fn = "setter" => Now.value \in {"0", "1"}
      /\ Now.at = "cfg.get" => Now.fn = "on_load"
  BY <1>3 DEF HelloInv, Points, Now
<1>6. Setting' = Setting
  BY <1>1, <1>2, <1>3, <1>4 DEF Setting
<1>7. HelloTypeOK'
  BY <1>1, <1>2, <1>3, <1>4, TopIsActivation DEF HelloTypeOK
<1>8. \A i \in DOMAIN hello :
        /\ hello'[i].fn = hello[i].fn /\ hello'[i].at = hello[i].at
        /\ hello[i].fn = "setter" => hello'[i].value = hello[i].value
  BY <1>2, <1>3, <1>5
<1>9. Points' /\ Interrupted' /\ (Settled' <=> Settled)
  BY <1>3, <1>4, <1>8 DEF HelloInv, Points, Interrupted, Settled
<1>10. SetterInStep' /\ ReadIsFresh'
  BY <1>1, <1>2, <1>4, <1>5, <1>6 DEF HelloInv, Setting, SetterInStep, ReadIsFresh
<1>11. AbsentIsEmpty' /\ StoreIsWished' /\ OffByDefault'
  BY <1>1, <1>2, <1>4, <1>5, <1>6
  DEF HelloInv, AbsentIsEmpty, Setting, SetterInStep, StoreIsWished, OffByDefault
<1>12. ShownIsStored'
  <2>1. Settled => Now.at # "cfg.set"
    BY <1>3, <1>5 DEF Settled
  <2> QED BY <1>2, <1>4, <1>9, <2>1 DEF HelloInv, ShownIsStored
<1> QED BY <1>7, <1>9, <1>10, <1>11, <1>12 DEF HelloInv

\* The instance goes; the store and the wishes stay.
LEMMA GoneKeeps ==
  ASSUME HelloInv, Gone
  PROVE  HelloInv'
<1>1. hello' = <<>> /\ life' = "absent" /\ offered' = {}
      /\ UNCHANGED <<verbose, stored, wishes, sets>>
  BY DEF Gone
<1>2. HelloTypeOK' /\ StoreIsWished'
  BY <1>1 DEF HelloInv, HelloTypeOK, StoreIsWished
<1>3. AbsentIsEmpty' /\ Points' /\ Interrupted' /\ SetterInStep' /\ ReadIsFresh'
  BY <1>1 DEF AbsentIsEmpty, Points, Interrupted, Setting, SetterInStep, ReadIsFresh
<1>4. OffByDefault' /\ ShownIsStored'
  BY <1>1 DEF OffByDefault, ShownIsStored, Settled
<1> QED BY <1>2, <1>3, <1>4 DEF HelloInv

----------------------------------------------------------------------------
(* The theorems. *)

LEMMA HelloInitial ==
  ASSUME HelloInit
  PROVE  HelloInv
<1>1. HelloTypeOK /\ AbsentIsEmpty /\ Points /\ Interrupted
  <2>1. hello \in Seq(Activation) /\ DOMAIN hello = {} /\ wishes \subseteq BOOLEAN
    BY DEF HelloInit
  <2>2. HelloTypeOK
    BY <2>1 DEF HelloInit, HelloTypeOK, Stored
  <2> QED BY <2>1, <2>2 DEF HelloInit, AbsentIsEmpty, Points, Interrupted
<1>2. StoreIsWished /\ SetterInStep /\ ReadIsFresh
  BY DEF HelloInit, StoreIsWished, IsOn, SetterInStep, Setting, ReadIsFresh
<1>3. OffByDefault /\ ShownIsStored
  BY DEF HelloInit, OffByDefault, ShownIsStored, Settled
<1> QED BY <1>1, <1>2, <1>3 DEF HelloInv

LEMMA HelloInductive ==
  ASSUME HelloInv, [HelloNext]_helloVars
  PROVE  HelloInv'
<1>1. CASE Load
  BY <1>1, LoadKeeps
<1>2. CASE OnLoadGoesOn
  <2>1. PICK v \in {"tool.register", "evt.listen", "cfgreg.bool", "cfg.get"} :
          hello # <<>> /\ Now.fn = "on_load" /\ GoTo(v)
    BY <1>2 DEF OnLoadGoesOn, ReturnsFrom
  <2>2. v \in Verb \ {"cfg.set"} /\ v \in BeforeRead
    BY <2>1 DEF Verb, BeforeRead
  <2>3. UNCHANGED <<life, verbose, stored, offered, wishes, sets>>
    BY <1>2 DEF OnLoadGoesOn
  <2> QED BY <2>1, <2>2, <2>3, GoKeeps
<1>3. CASE OnLoadReads
  BY <1>3, ReadKeeps
<1>4. CASE OnLoadReturns
  BY <1>4, LeaveKeeps DEF OnLoadReturns, ReturnsFrom, BeforeRead
<1>5. CASE EnterOnUnload
  BY <1>5, EnterKeeps DEF EnterOnUnload
<1>6. CASE OnUnloadReturns
  BY <1>6, LeaveKeeps DEF OnUnloadReturns, ReturnsFrom
<1>7. CASE EnterTool
  <2>1. life' \in {"loaded", "unloaded"}
    BY <1>7 DEF EnterTool, CanEnterHello, HelloInv, HelloTypeOK
  <2> QED BY <1>7, <2>1, EnterKeeps DEF EnterTool
<1>8. CASE ToolGoesOn
  <2>1. PICK v \in {"ui.choice", "ui.pause", "ui.input"} :
          hello # <<>> /\ Now.fn = "tool" /\ GoTo(v)
    BY <1>8 DEF ToolGoesOn, ReturnsFrom
  <2>2. v \in Verb \ {"cfg.set"} /\ v # "cfg.get"
    BY <2>1 DEF Verb
  <2>3. UNCHANGED <<life, verbose, stored, offered, wishes, sets>>
    BY <1>8 DEF ToolGoesOn
  <2> QED BY <2>1, <2>2, <2>3, GoKeeps
<1>9. CASE ToolReturns
  BY <1>9, LeaveKeeps DEF ToolReturns, ReturnsFrom
<1>10. CASE EnterListener
  <2>1. life' \in {"loaded", "unloaded"}
    BY <1>10 DEF EnterListener, CanEnterHello, HelloInv, HelloTypeOK
  <2> QED BY <1>10, <2>1, EnterKeeps DEF EnterListener
<1>11. CASE ListenerReturns
  BY <1>11, LeaveKeeps DEF ListenerReturns, ReturnsFrom
<1>12. ASSUME NEW w \in Sent, EnterSetter(w)
       PROVE  HelloInv'
  BY <1>12, SetKeeps
<1>13. CASE SetterReturns
  BY <1>13, SetReturns
<1>14. CASE HostServes
  BY <1>14, ServeKeeps
<1>15. CASE Drop \/ Crash
  BY <1>15, GoneKeeps DEF Drop, Crash
<1>16. CASE UNCHANGED helloVars
  BY <1>16 DEF helloVars, HelloInv, HelloTypeOK, AbsentIsEmpty, Points, Interrupted,
     StoreIsWished, SetterInStep, Setting, ReadIsFresh, OffByDefault, ShownIsStored,
     Settled, Now
<1> QED BY <1>1, <1>2, <1>3, <1>4, <1>5, <1>6, <1>7, <1>8, <1>9, <1>10, <1>11,
           <1>12, <1>13, <1>14, <1>15, <1>16 DEF HelloNext

\* An activation of HelloWorld stays the body it is, and never goes back.
LEMMA BodiesGo ==
  ASSUME HelloInv, HelloNext, NEW i \in DOMAIN hello \cap DOMAIN hello'
  PROVE  \/ hello'[i] = hello[i]
         \/ hello'[i].fn = hello[i].fn /\ Remaining(hello'[i]) < Remaining(hello[i])
<1> DEFINE Goes == \/ hello'[i] = hello[i]
                   \/ hello'[i].fn = hello[i].fn /\ Remaining(hello'[i]) < Remaining(hello[i])
<1>1. HelloTypeOK /\ hello # <<>> /\ Len(hello) \in Nat /\ DOMAIN hello = 1..Len(hello)
  BY DEF HelloInv, HelloTypeOK
<1>2. Len(hello) \in DOMAIN hello /\ Now = hello[Len(hello)] /\ Now \in Activation
      /\ Now.fn \in {"on_load", "on_unload", "tool", "listener", "setter"}
      /\ Now.served \in BOOLEAN
  BY <1>1, TopIsActivation DEF Now
<1>3. ASSUME NEW a, hello' = Append(hello, a)
      PROVE  Goes
  BY <1>1, <1>3 DEF HelloTypeOK
<1>4. CASE hello' = Pop
  BY <1>1, <1>4, PopKeeps
<1>5. ASSUME NEW a, hello' = [hello EXCEPT ![Len(hello)] = a],
             a.fn = Now.fn, Remaining(a) < Remaining(Now)
      PROVE  Goes
  <2>1. CASE i = Len(hello)
    BY <1>2, <1>5, <2>1
  <2>2. CASE i # Len(hello)
    BY <1>5, <2>2
  <2> QED BY <2>1, <2>2
<1>6. ASSUME NEW v \in Verb, GoTo(v), CallsLeft(v) \in Nat, CallsLeft(Now.at) \in Nat,
             CallsLeft(v) < CallsLeft(Now.at)
      PROVE  Goes
  <2> DEFINE a == Waiting(Now.fn, v, "none")
  <2>1. a.fn = Now.fn /\ a.at = v /\ a.served = FALSE
    BY DEF Waiting
  <2>2. Remaining(a) = 2 * CallsLeft(v) + 1
    BY <2>1 DEF Remaining
  <2>3. Remaining(Now) >= 2 * CallsLeft(Now.at) /\ Remaining(Now) \in Nat
    BY <1>6 DEF Remaining
  <2>4. \A x \in Nat, y \in Nat, z \in Nat : x < y /\ z >= 2 * y => 2 * x + 1 < z
    OBVIOUS
  <2>5. Remaining(a) < Remaining(Now)
    BY <1>6, <2>2, <2>3, <2>4
  <2>6. hello' = [hello EXCEPT ![Len(hello)] = a]
    BY <1>6 DEF GoTo
  <2> HIDE DEF a
  <2> QED BY <1>5, <2>1, <2>5, <2>6 DEF a
<1>7. CASE OnLoadGoesOn \/ OnLoadReads \/ ToolGoesOn
  <2>1. PICK v \in Verb : GoTo(v) /\ CallsLeft(v) \in Nat /\ CallsLeft(Now.at) \in Nat
                          /\ CallsLeft(v) < CallsLeft(Now.at)
    BY <1>7 DEF OnLoadGoesOn, OnLoadReads, ToolGoesOn, ReturnsFrom, CallsLeft, Verb
  <2> QED BY <1>6, <2>1
<1>8. CASE HostServes
  <2>1. \E a : /\ hello' = [hello EXCEPT ![Len(hello)] = a]
               /\ a.fn = Now.fn /\ a.at = Now.at /\ a.served = TRUE
    <3>1. CASE hello' = [hello EXCEPT ![Len(hello)].served = TRUE]
      <4> DEFINE a == [Now EXCEPT !.served = TRUE]
      <4>1. hello' = [hello EXCEPT ![Len(hello)] = a]
        BY <1>2, <3>1
      <4>2. a.fn = Now.fn /\ a.at = Now.at /\ a.served = TRUE
        BY <1>2 DEF Activation
      <4> QED BY <4>1, <4>2
    <3>2. CASE hello' = [hello EXCEPT ![Len(hello)] = [Now EXCEPT !.value = stored, !.served = TRUE]]
      <4> DEFINE a == [Now EXCEPT !.value = stored, !.served = TRUE]
      <4>1. a.fn = Now.fn /\ a.at = Now.at /\ a.served = TRUE
        BY <1>2 DEF Activation
      <4> QED BY <3>2, <4>1
    <3> QED BY <1>8, <3>1, <3>2 DEF HostServes
  <2>2. PICK a : /\ hello' = [hello EXCEPT ![Len(hello)] = a]
                 /\ a.fn = Now.fn /\ a.at = Now.at /\ a.served = TRUE
    BY <2>1
  <2>3. ~Now.served /\ CallsLeft(Now.at) \in Nat
    BY <1>8 DEF HostServes, CallsLeft
  <2>4. Remaining(a) = 2 * CallsLeft(Now.at) /\ Remaining(Now) = 2 * CallsLeft(Now.at) + 1
    BY <2>2, <2>3 DEF Remaining
  <2>5. Remaining(a) < Remaining(Now)
    BY <2>3, <2>4
  <2> QED BY <1>5, <2>2, <2>5
<1>9. CASE Load \/ Drop \/ Crash
  BY <1>1, <1>9 DEF Load, Drop, Crash, Gone, HelloInv, AbsentIsEmpty
<1>10. CASE OnLoadReturns \/ OnUnloadReturns \/ ToolReturns \/ ListenerReturns \/ SetterReturns
  BY <1>4, <1>10
  DEF OnLoadReturns, OnUnloadReturns, ToolReturns, ListenerReturns, SetterReturns
<1>11. CASE EnterOnUnload \/ EnterTool \/ EnterListener \/ \E v \in Sent : EnterSetter(v)
  BY <1>3, <1>11 DEF EnterOnUnload, EnterTool, EnterListener, EnterSetter, Push
<1> QED BY <1>7, <1>8, <1>9, <1>10, <1>11 DEF HelloNext

\* In every state in which no setter is under way and on_load has read, the
\* store holds what is shown, and that is the user's wish.
LEMMA InvImpliesLasts ==
  ASSUME HelloInv
  PROVE  SettingLasts
BY DEF HelloInv, ShownIsStored, StoreIsWished, SettingLasts

\* The inductive invariant holds throughout: HelloWorld's state keeps its shape,
\* and memory, store and wishes are related at every point of every body.
THEOREM HelloCorrect == HelloSpec => []HelloInv
<1>1. HelloInit => HelloInv
  BY HelloInitial
<1>2. HelloInv /\ [HelloNext]_helloVars => HelloInv'
  BY HelloInductive
<1> QED BY <1>1, <1>2, PTL DEF HelloSpec

\* The setting of HelloWorld lasts: conf_set in the setter and conf_get in
\* on_load agree, whatever is re-entered, restarted or lost in between.
THEOREM HelloSettingLasts == HelloSpec => []SettingLasts
<1>1. HelloInv => SettingLasts
  BY InvImpliesLasts
<1> QED BY <1>1, HelloCorrect, PTL

\* No body of HelloWorld ever goes back to a syscall it has made, whatever enters
\* above it: what CallEnds rests on besides the fairness of host and user.
THEOREM HelloGoesForward == HelloSpec => BodiesGoForward
<1>1. HelloInv /\ [HelloNext]_helloVars =>
        [\A i \in DOMAIN hello \cap DOMAIN hello' :
           \/ hello'[i] = hello[i]
           \/ hello'[i].fn = hello[i].fn /\ Remaining(hello'[i]) < Remaining(hello[i])]_helloVars
  <2>1. CASE HelloInv /\ HelloNext
    BY <2>1, BodiesGo
  <2>2. CASE UNCHANGED helloVars
    BY <2>2
  <2> QED BY <2>1, <2>2
<1> QED BY <1>1, HelloCorrect, PTL DEF HelloSpec, BodiesGoForward
=============================================================================
