------------------------------ MODULE Triggers ------------------------------
(***************************************************************************)
(* The two keys of the desktop app (linux/.../trigger.py): dictation's and *)
(* the one that is held to ask, fed with every key, button and Esc.  What  *)
(* a press's length decides is kept as its grade: under the hold           *)
(* threshold (0), a tap still (1), longer than a tap (2).                  *)
(***************************************************************************)
EXTENDS Naturals

TriggerModes == {"hold", "tap", "double_tap"}

VARIABLES mode,     \* TriggerMode
          askOn,    \* the ask key is neither off nor dictation's own
          dict,     \* DictationTrigger: down, grade, chorded, began, and the last lone tap
          askKey,   \* AskTrigger: down, grade, chorded, began
          emitted,  \* the Action of the last step
          doing,    \* what the actions so far have begun and not ended
          alone     \* the keys since whose press there was no other input

triggerVars == <<mode, askOn, dict, askKey, emitted, doing, alone>>

Lifted == [down |-> FALSE, grade |-> 0, chorded |-> FALSE, began |-> FALSE]
NoTap == "none"

\* What the controllers behind the actions are doing.
After(action) ==
  CASE action = "begin"                 -> doing \cup {"dictation"}
    [] action \in {"commit", "cancel"}  -> doing \ {"dictation"}
    [] action = "ask_begin"             -> doing \cup {"ask"}
    [] action = "ask_end"               -> doing \ {"ask"}
    [] OTHER                            -> doing
Emit(action) == emitted' = action /\ doing' = After(action) /\ UNCHANGED <<mode, askOn>>
NewlyAlone(key, k, other) == IF k.down THEN alone \cap {key} ELSE IF other.down THEN {} ELSE {key}

----------------------------------------------------------------------------
\* Another key, modifier or button, as each trigger takes it.
DictationOther(d) ==
  [d EXCEPT !.tap = NoTap, !.chorded = @ \/ d.down, !.began = @ /\ ~d.down]
DictationOtherAction(d) == IF d.down /\ d.began THEN "cancel" ELSE "none"
AskOther(a) == [a EXCEPT !.chorded = @ \/ (a.down /\ ~a.began)]

\* key_down of a trigger; an autorepeat changes nothing.
Press(k) == IF k.down THEN k ELSE [k EXCEPT !.down = TRUE, !.grade = 0, !.chorded = FALSE, !.began = FALSE]
\* A press near the release of a lone tap may become the second of a double tap.
PressDictation == [Press(dict) EXCEPT !.tap = IF ~dict.down /\ @ = "near" THEN "opened" ELSE @]

DictationDown ==
  /\ askKey' = AskOther(askKey)
  /\ dict' = IF askKey'.down THEN DictationOther(PressDictation) ELSE PressDictation
  /\ alone' = NewlyAlone("dictation", dict, askKey)
  /\ Emit("none")

AskDown ==
  /\ askOn /\ dict' = DictationOther(dict)
  /\ askKey' = IF dict'.down THEN AskOther(Press(askKey)) ELSE Press(askKey)
  /\ alone' = NewlyAlone("ask", askKey, dict)
  /\ Emit(DictationOtherAction(dict))

\* key_up of dictation's key.
LoneTap(d) == ~d.chorded /\ d.grade < 2
DictationUp ==
  /\ dict.down
  /\ CASE mode = "hold" ->
            /\ dict' = [dict EXCEPT !.down = FALSE, !.began = FALSE]
            /\ Emit(IF dict.began THEN "commit" ELSE "none")
       [] mode = "tap" ->
            dict' = [dict EXCEPT !.down = FALSE] /\ Emit(IF LoneTap(dict) THEN "toggle" ELSE "none")
       [] mode = "double_tap" ->
            /\ dict' = [dict EXCEPT !.down = FALSE, !.tap = IF LoneTap(dict) /\ dict.tap # "opened" THEN "near" ELSE NoTap]
            /\ Emit(IF ~LoneTap(dict) THEN "none" ELSE IF dict.tap = "opened" THEN "double_tap" ELSE "tap")
  /\ UNCHANGED <<askKey, alone>>

AskUp ==
  /\ askKey.down
  /\ askKey' = [askKey EXCEPT !.down = FALSE, !.began = FALSE]
  /\ Emit(IF askKey.began THEN "ask_end" ELSE "none")
  /\ UNCHANGED <<dict, alone>>

\* tick: the ask key first.
Ripe(k) == k.down /\ ~k.chorded /\ ~k.began /\ k.grade >= 1
TriggerTick ==
  \/ /\ Ripe(askKey) /\ askKey' = [askKey EXCEPT !.began = TRUE] /\ UNCHANGED <<dict, alone>>
     /\ Emit("ask_begin")
  \/ /\ ~Ripe(askKey) /\ mode = "hold" /\ Ripe(dict) /\ dict' = [dict EXCEPT !.began = TRUE] /\ UNCHANGED <<askKey, alone>>
     /\ Emit("begin")

OtherInput ==
  /\ askKey' = AskOther(askKey) /\ dict' = DictationOther(dict) /\ alone' = {}
  /\ Emit(DictationOtherAction(dict))

Escape ==
  /\ askKey' = AskOther(askKey) /\ dict' = DictationOther(dict) /\ alone' = {}
  /\ Emit("cancel")

----------------------------------------------------------------------------
\* Time passes: a press grows, and a lone tap's release is no longer near.
Aged(k) == IF k.down /\ k.grade < 2 THEN [k EXCEPT !.grade = @ + 1] ELSE k
Lapse ==
  /\ dict' = [Aged(dict) EXCEPT !.tap = IF ~dict.down /\ @ = "near" THEN NoTap ELSE @]
  /\ askKey' = Aged(askKey)
  /\ emitted' = "none" /\ UNCHANGED <<mode, askOn, doing, alone>>

TriggerInit ==
  /\ mode \in TriggerModes /\ askOn \in BOOLEAN /\ emitted = "none" /\ doing = {} /\ alone = {}
  /\ askKey = Lifted
  /\ dict = [down |-> FALSE, grade |-> 0, chorded |-> FALSE, began |-> FALSE, tap |-> NoTap]

TriggerNext ==
  \/ DictationDown \/ DictationUp \/ AskDown \/ AskUp \/ TriggerTick \/ OtherInput \/ Escape \/ Lapse

----------------------------------------------------------------------------
\* The keys' states and the actions there are.
Keys == [down : BOOLEAN, grade : 0..2, chorded : BOOLEAN, began : BOOLEAN]
TriggerTypeOK ==
  /\ mode \in TriggerModes /\ askOn \in BOOLEAN /\ askKey \in Keys
  /\ [f \in DOMAIN Lifted |-> dict[f]] \in Keys /\ dict.tap \in {NoTap, "near", "opened"}
  /\ emitted \in {"none", "begin", "commit", "cancel", "toggle", "tap", "double_tap", "ask_begin", "ask_end"}
  /\ {doing, alone} \subseteq SUBSET {"dictation", "ask"}

\* The two keys are never both held into an action, and what was begun is known to the key that
\* will end it: no chord, Esc or autorepeat leaves a dictation or an ask behind.
KeysSound ==
  /\ TriggerTypeOK
  /\ doing # {"dictation", "ask"}
  /\ "ask" \in doing <=> askKey.began
  /\ "dictation" \in doing <=> dict.began

\* Only a key that is pressed alone does anything, and an ask that was begun ends with the
\* release of its key and with nothing else.
LoneKeysOnly ==
  [][/\ emitted' \in {"begin", "commit", "toggle", "tap", "double_tap"} => "dictation" \in alone
     /\ emitted' = "ask_begin" => "ask" \in alone
     /\ "ask" \in doing \ doing' => emitted' = "ask_end" /\ ~askKey'.down]_triggerVars
=============================================================================
