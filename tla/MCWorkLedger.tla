----------------------------- MODULE MCWorkLedger -----------------------------
(***************************************************************************)
(* A small instance of WorkLedger.  The batches go over the same keys in    *)
(* opposite orders, and they differ in max_items and stop_on_failure.      *)
(***************************************************************************)
EXTENDS WorkLedger

MCKeys == {1, 2}
\* Items of one key that agree in all that is compared, and that differ in it.
MCRegistrations == {[key |-> 1, data |-> [columns |-> "a", window |-> "day"]],
            [key |-> 1, data |-> [columns |-> "a", window |-> "hour"]],
            [key |-> 1, data |-> [columns |-> "b", window |-> "day"]],
            [key |-> 2, data |-> [columns |-> "a", window |-> "day"]]}
Forward == [keys |-> <<1, 2>>, max |-> 2, stop |-> TRUE]
Backward == [keys |-> <<2, 1>>, max |-> 100, stop |-> FALSE]
MCBatches == {Forward, Backward}
===============================================================================
