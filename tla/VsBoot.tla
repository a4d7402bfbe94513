-------------------------------- MODULE VsBoot --------------------------------
(***************************************************************************)
(* A hardware keyboard and the page of the web view.  While a modifier of  *)
(* VirtualKeys is active the web view's key event interceptor replaces the *)
(* key down events (not the key up events) by copies that carry the        *)
(* modifier and no scan code, so that the page's events have no code.      *)
(* vsboot.js redefines KeyboardEvent.code to fill the gap.  The virtual    *)
(* keys' own events have no scan code either, neither down nor up.         *)
(***************************************************************************)
EXTENDS VirtualKeys

CONSTANTS
  HwKeys,         \* keys of the hardware keyboard
  MaxHeld

\* Keys that ScanCode and KeyOf know, among them the one that HwMods asks for.
ASSUME HwKeysAssumption ==
  /\ HwKeys \subseteq {"a", "c", "1", "Enter", "Escape", "Backspace", "F1", "RightShift"}
  /\ "RightShift" \in HwKeys

VARIABLE
  held            \* the codes of the key down events of each key held

allVars == <<vars, held>>

Held == {k \in HwKeys : held[k] # {}}

-----------------------------------------------------------------------------
(* Events, as the browser makes them.                                      *)

\* KeyboardEvent.code of an event with a scan code.
ScanCode(k) ==
  CASE k = "a" -> "KeyA" [] k = "c" -> "KeyC" [] k = "1" -> "Digit1"
    [] k = "Enter" -> "Enter" [] k = "Escape" -> "Escape" [] k = "Backspace" -> "Backspace"
    [] k = "F1" -> "F1" [] k = "RightShift" -> "ShiftRight"

\* KeyboardEvent.key under modifiers; Alt gives c another character.
KeyOf(k, mods) ==
  CASE k = "a" -> IF "SHIFT" \in mods THEN "A" ELSE "a"
    [] k = "c" -> IF "ALT" \in mods THEN "other" ELSE IF "SHIFT" \in mods THEN "C" ELSE "c"
    [] k = "1" -> IF "SHIFT" \in mods THEN "!" ELSE "1"
    [] k = "RightShift" -> "Shift"
    [] OTHER -> k

Event(k, mods, code) == [which |-> k, key |-> KeyOf(k, mods), code |-> code]

HwMods == IF held["RightShift"] # {} THEN {"SHIFT"} ELSE {}

-----------------------------------------------------------------------------
(* vsboot.js.                                                              *)

\* The table by event.which: Escape and Tab.
customMapper == {"Escape", "Tab"}
customKeyRemapper == [Backspace |-> "Backspace", Control |-> "ControlLeft", Alt |-> "AltLeft"]

\* "a" <= key <= "z" and "A" <= key <= "Z" compare strings: the names of keys
\* that begin with a capital letter lie in the second range.
Lower == [a |-> "KeyA", c |-> "KeyC"]
Upper == [A |-> "KeyA", C |-> "KeyC", Enter |-> "KeyEnter", ArrowUp |-> "KeyArrowUp"]

\* Mutant of Letters: small letters are forgotten.
LettersUpperOnly == Upper

Letters == [key \in DOMAIN Lower \cup DOMAIN Upper |->
              IF key \in DOMAIN Lower THEN Lower[key] ELSE Upper[key]]

\* prepareCustomProps: the first case that fits.
prepareCustomProps(e) ==
  CASE e.key = "Alt" -> ""
    [] e.key = "Shift" -> "ShiftLeft"
    [] e.key = "F1" -> e.key
    [] e.which \in customMapper -> e.which
    [] e.code = "" /\ e.key \in DOMAIN customKeyRemapper -> customKeyRemapper[e.key]
    [] e.code = "" /\ e.key \in DOMAIN Letters -> Letters[e.key]
    [] OTHER -> IF e.code = "" THEN "undefined" ELSE e.code

\* The getter keeps its answer in the event, and every reader gets the same.
code(e) == prepareCustomProps(e)

-----------------------------------------------------------------------------
(* The hardware keyboard, through the interceptor of the web view.         *)

Init == ViewInit /\ held = [k \in HwKeys |-> {}]

\* A key goes down, or repeats while it is held.
KeyDown(k) ==
  LET event == IF active = {} THEN Event(k, HwMods, ScanCode(k))
                              ELSE Event(k, HwMods \cup active, "")
  IN  /\ k \in Held \/ Cardinality(Held) < MaxHeld
      /\ held' = [held EXCEPT ![k] = @ \cup {code(event)}]
      /\ UNCHANGED vars

KeyUp(k) ==
  /\ k \in Held
  /\ held' = [held EXCEPT ![k] = {}]
  /\ UNCHANGED vars

UpCode(k) == code(Event(k, HwMods, ScanCode(k)))

Next ==
  \/ ViewNext /\ UNCHANGED held
  \/ \E k \in HwKeys : KeyDown(k) \/ KeyUp(k)

Spec == Init /\ [][Next]_allVars

-----------------------------------------------------------------------------
(* Properties.                                                             *)

TypeOK ==
  /\ touched \subseteq Buttons /\ Cardinality(touched) <= MaxFingers
  /\ active \subseteq Specials /\ locked \subseteq Specials
  /\ longHold \in touched \cap Specials \/ longHold = NoButton
  /\ executor \in Threads \cup {NoThread}
  /\ executor # NoThread => task[executor].button \in touched
  /\ \A t \in Threads :
       /\ task[t].step \in {"free", "timer", "count", "read", "clear", "send", "dead"}
       /\ task[t].step \in {"timer", "dead"} => t = executor
       /\ task[t].todo \subseteq Specials
  /\ mLongPressCount \in 0..1
  /\ popup \in BOOLEAN
  /\ pressing \in touched \cup {NoButton}
  /\ long \in {"no", "locked", "unlocked"} /\ typed \in BOOLEAN
  /\ uses \in [Specials -> 0..MaxUses]
  /\ crossed \in BOOLEAN
  /\ \A k \in HwKeys : held[k] \subseteq
       {ScanCode(k), "ShiftLeft", "KeyA", "KeyC", "KeyEnter", "undefined"}

\* A modifier that was tapped is used for one key, however taps, long presses
\* and repetitions follow each other, unless a thread came upon it between
\* another thread's reading it and making it inactive.
OneShotOnce == \A m \in Specials : uses[m] > 1 => crossed

\* A locked modifier goes off only by a later press on it, never by the end of
\* the press that locked it nor by the keys it is used for, unless a repetition
\* read it before it was locked.
LockHolds ==
  [][\A m \in locked \cap active :
       m \notin active' =>
         \/ Up(m) /\ ~(pressing = m /\ long = "locked")
         \/ LongHold /\ longHold = m
         \/ \E t \in Threads : Clear(t) /\ m \in task[t].todo]_vars

\* A finger that goes down and up on a key, with no other finger, swipe or
\* cancellation in between, types the key once, and on a modifier toggles it,
\* whatever was pressed, held or repeated before; unless, as it went down, a
\* repetition was not yet over or a popup had been left behind.
TapTypes ==
  [][\A b \in Buttons \ Repetitive :
       pressing = b /\ Up(b) =>
         \/ b \in Keys /\ typed'
         \/ b \in Specials /\ (long = "no" => (b \in active) # (b \in active'))]_vars

\* Whenever a key is let go the page sees it go up under the code under which
\* it saw it go down, although only the key down events may have been replaced
\* by copies, and whatever happened to the modifiers, on the screen and on the
\* keyboard, in between: for letters without an Alt character and the other
\* keys vsboot.js knows, not for those it has no name for (digits) or names
\* after their key (Enter).
KeyUpsMatch ==
  \A k \in Held \ {"1", "Enter", "c"} : held[k] = {UpCode(k)}

=============================================================================
