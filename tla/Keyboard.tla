------------------------------ MODULE Keyboard ------------------------------
(***************************************************************************)
(* intr_keyboard_handler of device/keyboard.c: one interrupt per byte that *)
(* the keyboard sends, and the modifiers, the prefix 0xe0 and caps lock    *)
(* remembered from one interrupt to the next.                              *)
(*                                                                         *)
(* A key has an index, the low byte of its make code.  The right-hand ctrl *)
(* and alt share the index of the left-hand ones and send 0xe0 first; the  *)
(* two shifts have an index each.  Key "up" stands for the prefixed keys   *)
(* the handler does not know, "a" for the letters, "1" for the keys with   *)
(* two characters.                                                         *)
(***************************************************************************)
EXTENDS Naturals, Sequences

CONSTANTS
    Keys,       \* the keys the user's hands can reach
    MaxWire     \* bound on the bytes sent and not yet read

AllKeys == {"a", "1", "shift_l", "shift_r", "ctrl_l", "ctrl_r", "alt_l", "alt_r",
            "caps", "up"}

ASSUME KeyboardAssumption == Keys \subseteq AllKeys /\ MaxWire \in Nat

VARIABLES
    ctrl_status, shift_status, alt_status, caps_lock_status, ext_scancode,
    typed,      \* the last character given to ioq_putchar
    down,       \* the keys that are down
    caps,       \* caps lock as the user sees it: each press turns it over
    wanted,     \* the character the last press of a character key asked for
    wire        \* bytes the keyboard has sent and no interrupt has read

driver == <<ctrl_status, shift_status, alt_status, caps_lock_status, ext_scancode, typed>>
user == <<down, caps, wanted>>
keyboardVars == <<driver, user, wire>>

Index(k) == CASE k \in {"ctrl_l", "ctrl_r"} -> "ctrl"
              [] k \in {"alt_l", "alt_r"}   -> "alt"
              [] OTHER                      -> k

Prefixed(k) == k \in {"ctrl_r", "alt_r", "up"}

Char(index, shift) == [index |-> index, shift |-> shift]
NoChar == Char("none", FALSE)

Byte == [index : {Index(k) : k \in AllKeys} \cup {"e0"}, break : BOOLEAN]
Prefix == [index |-> "e0", break |-> FALSE]

KeyboardInit ==
    /\ ctrl_status = FALSE /\ shift_status = FALSE /\ alt_status = FALSE
    /\ caps_lock_status = FALSE /\ ext_scancode = FALSE
    /\ typed = NoChar
    /\ down = {} /\ caps = FALSE /\ wanted = NoChar
    /\ wire = <<>>

-----------------------------------------------------------------------------
(* The user and the keyboard.                                              *)

Send(k, break) ==
    LET code == <<[index |-> Index(k), break |-> break]>>
        sent == IF Prefixed(k) THEN <<Prefix>> \o code ELSE code
    IN  /\ Len(wire) + Len(sent) <= MaxWire
        /\ wire' = wire \o sent

ShiftDown == down \cap {"shift_l", "shift_r"} # {}

\* A key that stays down is sent again and again.
Press(k) ==
    /\ Send(k, FALSE)
    /\ down' = down \cup {k}
    /\ caps' = IF k = "caps" THEN ~caps ELSE caps
    /\ wanted' = CASE k = "a" -> Char("a", ShiftDown # caps)
                   [] k = "1" -> Char("1", ShiftDown)
                   [] OTHER   -> wanted
    /\ UNCHANGED driver

Lift(k) ==
    /\ k \in down
    /\ Send(k, TRUE)
    /\ down' = down \ {k}
    /\ UNCHANGED <<driver, caps, wanted>>

-----------------------------------------------------------------------------
(* The interrupt handler, for the first byte on the wire.                  *)

ReadPrefix ==
    /\ Head(wire).index = "e0"
    /\ ext_scancode' = TRUE
    /\ UNCHANGED <<ctrl_status, shift_status, alt_status, caps_lock_status, typed>>

\* A break code: with or without the prefix, but a prefixed shift is no shift.
ReadBreak(index) ==
    /\ ctrl_status' = (ctrl_status /\ index # "ctrl")
    /\ shift_status' = (shift_status /\ ~(index \in {"shift_l", "shift_r"} /\ ~ext_scancode))
    /\ alt_status' = (alt_status /\ index # "alt")
    /\ ext_scancode' = FALSE
    /\ UNCHANGED <<caps_lock_status, typed>>

\* Make codes in the handler's table; others are "unknown key".
Known(index) == IF ext_scancode THEN index \in {"ctrl", "alt"} ELSE index # "up"

\* keymap[index][shift]; it is 0 for the modifiers and caps lock.
KeyMap(index) ==
    LET shift == IF index = "1" THEN shift_status ELSE shift_status # caps_lock_status
    IN  IF index \in {"a", "1"} THEN Char(index, shift) ELSE NoChar

MakeKnown(index) ==
    /\ typed' = IF KeyMap(index) # NoChar THEN KeyMap(index) ELSE typed
    /\ ctrl_status' = (ctrl_status \/ index = "ctrl")
    /\ shift_status' = (shift_status \/ index \in {"shift_l", "shift_r"})
    /\ alt_status' = (alt_status \/ index = "alt")
    /\ caps_lock_status' = (caps_lock_status # (index = "caps"))
    /\ ext_scancode' = FALSE

\* Variant: the prefix of an unknown key is not forgotten.
ReadMakeSticky(index) == IF Known(index) THEN MakeKnown(index) ELSE UNCHANGED driver

ReadMake(index) ==
    IF Known(index)
    THEN MakeKnown(index)
    ELSE /\ ext_scancode' = FALSE
         /\ UNCHANGED <<ctrl_status, shift_status, alt_status, caps_lock_status, typed>>

KeyboardInterrupt ==
    /\ wire # <<>>
    /\ wire' = Tail(wire)
    /\ LET b == Head(wire)
       IN  \/ ReadPrefix
           \/ b.index # "e0" /\ b.break /\ ReadBreak(b.index)
           \/ b.index # "e0" /\ ~b.break /\ ReadMake(b.index)
    /\ UNCHANGED user

KeyboardNext == (\E k \in Keys : Press(k) \/ Lift(k)) \/ KeyboardInterrupt

KeyboardSpec == KeyboardInit /\ [][KeyboardNext]_keyboardVars

-----------------------------------------------------------------------------
\* Once the handler has caught up, its variables record whether the modifiers
\* are down (keyboard.c:40-41), and the last character in the buffer is the one the
\* user asked for, whatever prefixes and modifiers came in between.
KeysAgree ==
    wire = <<>> =>
        /\ shift_status <=> ShiftDown
        /\ ctrl_status <=> down \cap {"ctrl_l", "ctrl_r"} # {}
        /\ alt_status <=> down \cap {"alt_l", "alt_r"} # {}
        /\ caps_lock_status <=> caps
        /\ typed = wanted
=============================================================================
