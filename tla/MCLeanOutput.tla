----------------------------- MODULE MCLeanOutput -----------------------------
(***************************************************************************)
(* Two conversions of the same symbol and day.  One has up to three bars,  *)
(* at times half a millisecond, half a second and a second apart and on    *)
(* the day after, with prices at the rounding boundary, on both sides of   *)
(* the largest, out of order, zero and of a wrong type, of two symbols;    *)
(* the other has a bar that is always valid.                               *)
(***************************************************************************)
EXTENDS LeanOutput, TLC

Open == 33300 * Second
Times == {Open, Open + 1, Open + 1000, Open + Second, Day}
Good(t) == [own |-> TRUE, time |-> t, open |-> 15, high |-> 25, low |-> 14, close |-> 24]
Tiny(t) == [own |-> TRUE, time |-> t, open |-> 4, high |-> 5, low |-> 4, close |-> 5]
Odd == {[Good(Open) EXCEPT !.low = 0], [Good(Open) EXCEPT !.high = 14],
        [Good(Open) EXCEPT !.low = NotDecimal], [Good(Open + Second) EXCEPT !.own = FALSE], NotABar}
High == {[Good(Open) EXCEPT !.high = p] : p \in {94, 95}}
MCBars == {Good(t) : t \in Times} \cup {Tiny(t) : t \in {Open, Open + Second}} \cup High \cup Odd

MCConversions == {1, 2}
MCInputs == {<<b, <<Good(Open)>>>> : b \in UNION {[1..n -> MCBars] : n \in 0..3}}
===============================================================================
