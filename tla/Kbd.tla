-------------------------------- MODULE Kbd ---------------------------------
(* devices/kbd.c: the characters made of the scancodes of keys pressed and   *)
(* released.  Characters are numbers; a scancode that follows the prefix     *)
(* 0xe0 has 57344 added.                                                     *)
EXTENDS Integers, Sequences, FiniteSets

CONSTANTS Code,   \* the scancodes of the keys that are used, without bit 0x80
          None    \* no character

VARIABLES
  caps_lock, state_var,    \* kbd.c: Caps Lock, and the shift state variables that are true
  full,                    \* whether the input buffer is full
  appended,                \* the character the last interrupt has appended
  held, on, typed          \* the keys held down, Caps Lock and the character typed, as the user sees them

vars == <<caps_lock, state_var, full, appended, held, on, typed>>

invariant_keymap ==
  <<[first |-> 1, chars |-> <<27>>], [first |-> 14, chars |-> <<8>>],
    [first |-> 15, chars |-> <<9, 81, 87, 69, 82, 84, 89, 85, 73, 79, 80>>], [first |-> 28, chars |-> <<13>>],
    [first |-> 30, chars |-> <<65, 83, 68, 70, 71, 72, 74, 75, 76>>],
    [first |-> 44, chars |-> <<90, 88, 67, 86, 66, 78, 77>>], [first |-> 55, chars |-> <<42>>],
    [first |-> 57, chars |-> <<32>>], [first |-> 83, chars |-> <<127>>]>>

unshifted_keymap ==
  <<[first |-> 2, chars |-> <<49, 50, 51, 52, 53, 54, 55, 56, 57, 48, 45, 61>>], [first |-> 26, chars |-> <<91, 93>>],
    [first |-> 39, chars |-> <<59, 39, 96>>], [first |-> 43, chars |-> <<92>>], [first |-> 51, chars |-> <<44, 46, 47>>]>>

shifted_keymap ==
  <<[first |-> 2, chars |-> <<33, 64, 35, 36, 37, 94, 38, 42, 40, 41, 95, 43>>], [first |-> 26, chars |-> <<123, 125>>],
    [first |-> 39, chars |-> <<58, 34, 126>>], [first |-> 43, chars |-> <<124>>], [first |-> 51, chars |-> <<60, 62, 63>>]>>

shift_keys == [left_shift |-> 42, right_shift |-> 54, left_alt |-> 56, right_alt |-> 57400,
               left_ctrl |-> 29, right_ctrl |-> 57373]

(* The character of a scancode in a keymap, or None. *)
map_key(k, code) ==
  LET hit == {i \in DOMAIN k : code >= k[i].first /\ code < k[i].first + Len(k[i].chars)}
  IN  IF hit = {} THEN None ELSE LET e == k[CHOOSE i \in hit : TRUE] IN e.chars[code - e.first + 1]

tolower(c) == IF c \in 65 .. 90 THEN c + 32 ELSE c

Init ==
  /\ caps_lock = FALSE /\ state_var = {} /\ full = FALSE /\ appended = None
  /\ held = {} /\ on = FALSE /\ typed = None

(* Mutant: the release of a shift key is not seen while the buffer is full. *)
ShiftedUnlessFull(code, release) ==
  LET keys == {v \in DOMAIN shift_keys : shift_keys[v] = code}
  IN  IF ~release THEN state_var \cup keys ELSE IF full THEN state_var ELSE state_var \ keys

(* The shift state variables after the press or the release of a key. *)
Shifted(code, release) ==
  LET keys == {v \in DOMAIN shift_keys : shift_keys[v] = code}
  IN  IF release THEN state_var \ keys ELSE state_var \cup keys

keyboard_interrupt(code, release) ==
  LET shift == state_var \cap {"left_shift", "right_shift"} # {}
      alt == state_var \cap {"left_alt", "right_alt"} # {}
      ctrl == state_var \cap {"left_ctrl", "right_ctrl"} # {}
      c0 == IF map_key(invariant_keymap, code) # None THEN map_key(invariant_keymap, code)
            ELSE map_key(IF shift THEN shifted_keymap ELSE unshifted_keymap, code)
      c1 == IF ctrl /\ c0 >= 64 /\ c0 < 96 THEN c0 - 64 ELSE IF shift = caps_lock THEN tolower(c0) ELSE c0
      c2 == IF alt THEN c1 + 128 ELSE c1
  IN  /\ caps_lock' = IF code = 58 /\ ~release THEN ~caps_lock ELSE caps_lock
      /\ ~(c0 = 127 /\ ctrl /\ alt /\ ~release)     \* Ctrl+Alt+Del reboots
      /\ appended' = IF code # 58 /\ c0 # None /\ ~release /\ ~full THEN c2 ELSE None
      /\ state_var' = IF code = 58 \/ c0 # None THEN state_var ELSE Shifted(code, release)

(* The character meant by a key, from the keys held.  Control makes the      *)
(* control character of a letter and of each of @ [ \ ] ^ _, where Shift     *)
(* chooses between the two characters of a key that has two.                 *)
Meant(code) ==
  LET shift == held \cap {42, 54} # {}
      letter == map_key(invariant_keymap, code) \in 65 .. 90
      sign == IF map_key(invariant_keymap, code) # None THEN map_key(invariant_keymap, code)
              ELSE map_key(IF shift THEN shifted_keymap ELSE unshifted_keymap, code)
      c == IF held \cap {29, 57373} # {} /\ (letter \/ sign \in {64, 91, 92, 93, 94, 95}) THEN sign % 32
           ELSE IF letter /\ shift = on THEN sign + 32
           ELSE sign
  IN  IF sign = None THEN None ELSE IF held \cap {56, 57400} # {} THEN c + 128 ELSE c

Press(code) ==
  /\ held' = held \cup {code}
  /\ on' = IF code = 58 THEN ~on ELSE on
  /\ typed' = IF full \/ code = 58 THEN None ELSE Meant(code)
  /\ keyboard_interrupt(code, FALSE)
  /\ UNCHANGED full

Release(code) ==
  /\ code \in held
  /\ held' = held \ {code}
  /\ typed' = None
  /\ keyboard_interrupt(code, TRUE)
  /\ UNCHANGED <<full, on>>

(* Readers empty the buffer and other input fills it. *)
Fill ==
  /\ full' = ~full
  /\ appended' = None /\ typed' = None
  /\ UNCHANGED <<caps_lock, state_var, held, on>>

Next == Fill \/ \E code \in Code : Press(code) \/ Release(code)

(* The driver's idea of the keys held never strays from the keys: after any  *)
(* sequence of presses, repeats and releases, also with the buffer full, the *)
(* shift state variables and Caps Lock are those of the keyboard, and each   *)
(* key appends the character it means.                                       *)
KeysFollowed ==
  /\ state_var = {v \in DOMAIN shift_keys : shift_keys[v] \in held}
  /\ caps_lock = on
  /\ appended = typed
=============================================================================
