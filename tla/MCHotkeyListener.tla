-------------------------- MODULE MCHotkeyListener --------------------------
(* Instances of HotkeyListener for TLC: two keys whose meanings are swapped. *)
EXTENDS HotkeyListener, TLC

CONSTANTS ctrl, caps

Plain == [c \in {ctrl, caps} |-> IF c = ctrl THEN "Left" ELSE "NonModifier"]
Swapped == [c \in {ctrl, caps} |-> IF c = caps THEN "Left" ELSE "NonModifier"]

MCKeyMap == {Plain, Swapped}
MCTime == 0..1
Swap == Permutations({ctrl, caps})

=============================================================================
