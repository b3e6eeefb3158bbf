------------------------------- MODULE X11Input -------------------------------
(***************************************************************************)
(* Keyboard and pointer injection, iapetusd/src/platform/x11.rs: what the  *)
(* X server has down, what the driver remembers it holds, and the steps    *)
(* each driver call is made of. A step ends where the code has sent one    *)
(* fake event or released one of its two mutexes, so calls on different    *)
(* threads interleave between them. Buttons and keys are keys alike; the   *)
(* two held vectors are one set (a vector's duplicates are pushed, retained*)
(* and drained together). A character the layout lacks is typed with one   *)
(* keycode that is bound to it for as long as that takes. Shift and        *)
(* coordinates are left out.                                               *)
(***************************************************************************)
EXTENDS Sequences

CONSTANTS Actor,             (* the threads that make driver calls          *)
          Keyboard, Buttons, (* the keys and the pointer buttons            *)
          Named,             (* the keys that may be modifiers of a combo   *)
          Left,              (* the button a drag uses                      *)
          Scratch            (* the keycode no key has, scratch             *)

ASSUME KeyAssumption ==
  Left \in Buttons /\ Named \subseteq Keyboard /\ Scratch \notin Keyboard \cup Buttons

OnLayout(k) == k # Scratch
Key == Keyboard \cup Buttons \cup {Scratch}

VARIABLES down,   (* pressed, as the X server sees it                       *)
          held,   (* held_keys and held_buttons                             *)
          bound,  (* has the scratch keycode a character?                   *)
          todo,   (* the steps left of the calls each actor is making       *)
          escaped (* history: left down by a call that forgot it            *)

inputVars == <<down, held, bound, escaped, todo>>

Step == [op: {"press", "latch", "lift", "note", "forget", "drain", "bind", "restore"},
         keys: SUBSET Key]

Do(op, keys) == [op |-> op, keys |-> keys]

InputTypeOK ==
  /\ down \subseteq Key /\ held \subseteq Key /\ escaped \subseteq Key /\ bound \in BOOLEAN
  /\ todo \in [Actor -> Seq(Step)]

InputInit ==
  down = {} /\ held = {} /\ bound = FALSE /\ escaped = {} /\ todo = [a \in Actor |-> <<>>]

-----------------------------------------------------------------------------
(* The driver calls                                                         *)
PressAndLift(k) == <<Do("press", {k}), Do("lift", {k})>>

TapUnrestored(k) ==
  IF OnLayout(k) THEN PressAndLift(k) ELSE <<Do("bind", {k})>> \o PressAndLift(k)
Tap(k) ==
  IF OnLayout(k) THEN PressAndLift(k)
  ELSE <<Do("bind", {k})>> \o PressAndLift(k) \o <<Do("restore", {k})>>

KeyDownUnnoted(k) == <<Do("press", {k})>>
KeyDown(k) == <<Do("press", {k}), Do("note", {k})>>

KeyUp(k) == <<Do("lift", {k}), Do("forget", {k})>>

Combo(m, k) == <<Do("press", {m})>> \o Tap(k) \o <<Do("lift", {m})>>

(* The main key is not known: the modifiers are released all the same. A    *)
(* modifier that is not known returns before any release.                   *)
ComboUnknownKey(m) == <<Do("press", {m}), Do("lift", {m})>>
ComboUnknownModifier(m) == <<Do("latch", {m})>>

ReleaseAll == <<Do("drain", Keyboard), Do("drain", Buttons)>>

-----------------------------------------------------------------------------
(* The steps of actor a's calls                                             *)
Reaches(a, op) == todo[a] # <<>> /\ Head(todo[a]).op = op

Keys(a) == Head(todo[a]).keys

StepDone(a) == todo' = [todo EXCEPT ![a] = Tail(@)]

Press(a) ==
  /\ Reaches(a, "press")
  /\ down' = down \cup Keys(a) /\ StepDone(a) /\ UNCHANGED <<held, bound, escaped>>

(* The press of a modifier that the call will not come back to.             *)
Latch(a) ==
  /\ Reaches(a, "latch")
  /\ down' = down \cup Keys(a) /\ escaped' = escaped \cup Keys(a)
  /\ StepDone(a) /\ UNCHANGED <<held, bound>>

Note(a) ==
  /\ Reaches(a, "note")
  /\ held' = held \cup Keys(a) /\ escaped' = escaped \ Keys(a)
  /\ StepDone(a) /\ UNCHANGED <<down, bound>>

(* The retain after a release: by then another thread may have the key down. *)
Forget(a) ==
  /\ Reaches(a, "forget")
  /\ held' = held \ Keys(a) /\ escaped' = escaped \cup (down \cap Keys(a))
  /\ StepDone(a) /\ UNCHANGED <<down, bound>>

(* What is drained of the held keys is then lifted, key by key.             *)
Drain(a) ==
  /\ Reaches(a, "drain")
  /\ held' = held \ Keys(a)
  /\ todo' = [todo EXCEPT ![a] = <<Do("lift", held \cap Keys(a))>> \o Tail(@)]
  /\ UNCHANGED <<down, bound, escaped>>

Lift(a) ==
  /\ Reaches(a, "lift") /\ UNCHANGED <<held, bound>>
  /\ \/ Keys(a) = {} /\ StepDone(a) /\ UNCHANGED <<down, escaped>>
     \/ \E k \in Keys(a) :
          /\ down' = down \ {k} /\ escaped' = escaped \ {k}
          /\ todo' = [todo EXCEPT ![a] = <<Do("lift", Keys(a) \ {k})>> \o Tail(@)]

(* change_keyboard_mapping, to the character and back to none.              *)
Bind(a) ==
  /\ Reaches(a, "bind")
  /\ bound' = TRUE /\ StepDone(a) /\ UNCHANGED <<down, held, escaped>>

Restore(a) ==
  /\ Reaches(a, "restore")
  /\ bound' = FALSE /\ StepDone(a) /\ UNCHANGED <<down, held, escaped>>

DriverStep(a) ==
  \/ Press(a) \/ Latch(a) \/ Note(a) \/ Forget(a) \/ Drain(a) \/ Lift(a)
  \/ Bind(a) \/ Restore(a)
=============================================================================
