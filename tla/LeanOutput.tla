------------------------------ MODULE LeanOutput ------------------------------
(***************************************************************************)
(* dhan_lean/data/converter.py: convert_minute_bars_to_lean, the ZIP file  *)
(* of one symbol and day.  Each conversion turns its bars into rows        *)
(* (MinuteBars), writes a temporary file beside the output, links it to    *)
(* the name and unlinks the temporary name.  What is in the file is named  *)
(* after the conversion that wrote it.                                     *)
(***************************************************************************)
EXTENDS MinuteBars

CONSTANTS Conversions,
          Inputs,  \* what the conversions may be called with: functions to bars
          Nobody

ASSUME InputsAreBars == \A b \in Inputs : \A c \in Conversions : b[c] \in Seq(Bars \cup {NotABar})
ASSUME NobodyIsNoConversion == Nobody \notin Conversions

VARIABLES bars,     \* bars[c]: the bars that conversion c is called with
          output,   \* what the output name leads to: a conversion's file, or Nobody
          temp,     \* the temporary file of each conversion
          linked,   \* the bytes the output name leads to are complete
          pc, outcome

vars == <<bars, output, temp, linked, pc, outcome>>

Init ==
  /\ bars \in Inputs
  /\ output = Nobody /\ linked = FALSE
  /\ temp = [c \in Conversions |-> "none"]
  /\ pc = [c \in Conversions |-> "check"]
  /\ outcome = [c \in Conversions |-> "none"]
-----------------------------------------------------------------------------
Goto(c, label) == pc' = [pc EXCEPT ![c] = label]
Ends(c, how) == outcome' = [outcome EXCEPT ![c] = how]

\* The bars must be convertible and the name free.  An InvalidOperation of _scale() and
\* an error of mkdir are not caught.
Check(c) ==
  /\ pc[c] = "check"
  /\ \/ Converts(bars[c]) /\ output = Nobody /\ Goto(c, "make") /\ UNCHANGED outcome
     \/ Converts(bars[c]) /\ output = Nobody /\ Goto(c, "ended") /\ Ends(c, "error")
     \/ Converts(bars[c]) /\ output # Nobody /\ Goto(c, "ended") /\ Ends(c, "exists")
     \/ Refuses(bars[c]) /\ Goto(c, "ended") /\ Ends(c, "invalid")
     \/ ~Converts(bars[c]) /\ ~Refuses(bars[c]) /\ Goto(c, "ended") /\ Ends(c, "raises")
  /\ UNCHANGED <<bars, output, temp, linked>>

\* NamedTemporaryFile in the target directory
Make(c) ==
  /\ pc[c] = "make"
  /\ \/ temp' = [temp EXCEPT ![c] = "part"] /\ Goto(c, "zip") /\ UNCHANGED outcome
     \/ Goto(c, "finally") /\ Ends(c, "failed") /\ UNCHANGED temp
  /\ UNCHANGED <<bars, output, linked>>

\* The file is linked before it is filled.
LinkFirst(c) ==
  /\ pc[c] = "zip"
  /\ output = Nobody
  /\ output' = c /\ linked' = FALSE
  /\ temp' = [temp EXCEPT ![c] = "whole"]
  /\ Goto(c, "unlink")
  /\ UNCHANGED <<bars, outcome>>

Zip(c) ==
  /\ pc[c] = "zip"
  /\ \/ temp' = [temp EXCEPT ![c] = "whole"] /\ Goto(c, "link") /\ UNCHANGED outcome
     \/ Goto(c, "finally") /\ Ends(c, "failed") /\ UNCHANGED temp
  /\ UNCHANGED <<bars, output, linked>>

\* os.replace() where os.link() is
Replace(c) ==
  /\ pc[c] = "link"
  /\ output' = c /\ linked' = (temp[c] = "whole")
  /\ Goto(c, "unlink") /\ UNCHANGED <<bars, temp, outcome>>

\* os.link: fails when the name is taken.
Link(c) ==
  /\ pc[c] = "link"
  /\ \/ /\ output = Nobody
        /\ output' = c /\ linked' = (temp[c] = "whole")
        /\ Goto(c, "unlink") /\ UNCHANGED outcome
     \/ /\ output # Nobody
        /\ Goto(c, "finally") /\ Ends(c, "exists") /\ UNCHANGED <<output, linked>>
     \/ /\ Goto(c, "finally") /\ Ends(c, "failed") /\ UNCHANGED <<output, linked>>
  /\ UNCHANGED <<bars, temp>>

Unlink(c) ==
  /\ pc[c] = "unlink"
  /\ \/ temp' = [temp EXCEPT ![c] = "none"] /\ Ends(c, "converted")
     \/ Ends(c, "failed") /\ UNCHANGED temp
  /\ Goto(c, "finally")
  /\ UNCHANGED <<bars, output, linked>>

\* finally: a temporary name that is left goes; an error here replaces the outcome.
Finally(c) ==
  /\ pc[c] = "finally"
  /\ \/ temp' = [temp EXCEPT ![c] = "none"] /\ UNCHANGED outcome
     \/ temp[c] # "none" /\ Ends(c, "error") /\ UNCHANGED temp
  /\ Goto(c, "ended")
  /\ UNCHANGED <<bars, output, linked>>

Crash(c) ==
  /\ pc[c] \notin {"ended", "dead"}
  /\ Goto(c, "dead")
  /\ UNCHANGED <<bars, output, temp, linked, outcome>>

Next == \E c \in Conversions : Check(c) \/ Make(c) \/ Zip(c) \/ Link(c) \/ Unlink(c) \/ Finally(c) \/ Crash(c)

Spec == Init /\ [][Next]_vars
-----------------------------------------------------------------------------
\* The output name never leads to an unfinished file, whoever crashes.
OutputIsWhole == output # Nobody => linked

\* Who is told that it converted has its own rows at the name for good, whatever later
\* and concurrent conversions do, and no temporary file is left of it.
ConvertedIsMine ==
  \A c \in Conversions : outcome[c] = "converted" /\ pc[c] = "ended" => output = c /\ temp[c] = "none"

\* The rows of a LEAN file are in time order without two of the same millisecond, however
\* close the bars were, because the validator counts whole seconds; and rounding keeps
\* the open and the close between the low and the high.
RowsIncrease ==
  output # Nobody =>
    LET rows == Rows(bars[output])
    IN  /\ \A i \in 2..Len(rows) : rows[i].millis > rows[i - 1].millis
        /\ \A i \in DOMAIN rows : Ordered(rows[i])

\* What the parser takes from the provider the converter takes too: candles of the symbol
\* at whole seconds of the session date, at least one, are never refused.  They become a
\* file, unless a price is too large to be scaled: then the conversion ends in an error
\* that is none of the converter's own.
ParsedConverts ==
  \A c \in Conversions :
    /\ outcome[c] = "invalid" =>
         \/ bars[c] = <<>>
         \/ ~Parses(bars[c])
         \/ \E i \in DOMAIN bars[c] : ~Belongs(bars[c][i]) \/ bars[c][i].time % Second # 0
    /\ outcome[c] = "raises" => \E i \in DOMAIN bars[c] : TooLarge(bars[c][i])
===============================================================================
