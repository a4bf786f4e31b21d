------------------------------ MODULE MinuteBars ------------------------------
(***************************************************************************)
(* What the pipeline makes of minute bars: providers/zerodha/historical.py *)
(* parses a response into bars, data/validator.py validates bars, and      *)
(* data/converter.py turns valid bars into the rows of a LEAN file.  Time  *)
(* is in half milliseconds since the midnight, in IST, that begins the     *)
(* session date, and prices are in 1/100000, so that a price times 10000   *)
(* has few digits; the context of decimal rounds it to 28 of them first.   *)
(***************************************************************************)
EXTENDS Integers, Sequences

CONSTANTS Limit,      \* the first number with more digits than the decimal context has: 10^28
          NotDecimal, \* a price that is not a Decimal
          NotABar     \* an element that is not a NormalizedBar

Second == 2000
Day == 86400 * Second
Fields == {"open", "high", "low", "close"}
Prices == Int \cup {NotDecimal}

\* own: the symbol is the one the converter is called with.
Bars == [own : BOOLEAN, time : Int, open : Prices, high : Prices, low : Prices, close : Prices]

ASSUME LimitIsNatural == Limit \in Nat
ASSUME NoDecimalIsNoNumber == NotDecimal \notin Int
ASSUME NoBarIsNoBar == NotABar \notin Bars

PositivePrices(bar) == \A f \in Fields : bar[f] # NotDecimal /\ bar[f] > 0

Ordered(bar) == bar.low <= bar.open /\ bar.open <= bar.high /\ bar.low <= bar.close /\ bar.close <= bar.high

\* parse_historical_candles: each timestamp after the one before, positive prices in order,
\* however large, and one symbol for all.  An empty response is valid here.
Parses(candles) ==
  /\ \A i \in DOMAIN candles : candles[i] # NotABar
  /\ \A i \in DOMAIN candles : PositivePrices(candles[i]) /\ Ordered(candles[i])
  /\ \A i \in 2..Len(candles) :
       candles[i].time > candles[i - 1].time /\ candles[i].own = candles[i - 1].own

\* The differences are compared as they are.
SecondsExact(ticks) == ticks

\* Whole minutes, towards zero.
Minutes(ticks) == IF ticks >= 0 THEN ticks \div (60 * Second) ELSE -((-ticks) \div (60 * Second))

\* int(timedelta.total_seconds()): whole seconds, towards zero.
Seconds(ticks) == IF ticks >= 0 THEN ticks \div Second ELSE -((-ticks) \div Second)

\* The bar before bars[i]; elements that are no bars are skipped.
Previous(bars, i) ==
  {bars[j] : j \in {j \in 1..(i - 1) : bars[j] # NotABar /\ \A k \in (j + 1)..(i - 1) : bars[k] = NotABar}}

NonIncreasing(bars) ==
  \E i \in DOMAIN bars :
    bars[i] # NotABar /\ \E previous \in Previous(bars, i) : Seconds(bars[i].time - previous.time) <= 0

\* validate_normalized_bars: the first of these that applies is the error code.  A
\* NormalizedBar has no negative volume.
Validate(bars) ==
  LET Real == {bars[i] : i \in DOMAIN bars} \ {NotABar}
  IN  IF bars = <<>> THEN "EMPTY_BARS"
      ELSE IF \E b \in Real, f \in Fields : b[f] = NotDecimal THEN "INVALID_PRICE_TYPE"
      ELSE IF \E b \in Real : ~PositivePrices(b) THEN "INVALID_PRICE_VALUE"
      ELSE IF \E b \in Real : ~Ordered(b) THEN "INVALID_OHLC"
      ELSE IF NonIncreasing(bars) THEN "NON_MONOTONIC_TIMESTAMPS"
      ELSE IF \E i \in DOMAIN bars : bars[i] = NotABar THEN "INVALID_NORMALIZED_BARS"
      ELSE "VALID"

\* Price times 10000, ROUND_HALF_UP ...
Scale(price) == (price + 5) \div 10

\* ... for which quantize() raises InvalidOperation when the result has too many digits.
TooLarge(bar) == \E f \in Fields : Scale(bar[f]) >= Limit

\* A bar of the symbol and of the session date.
Belongs(bar) == bar.own /\ bar.time \in 0..(Day - 1)

Row(bar) ==
  [millis |-> bar.time \div 2, open |-> Scale(bar.open), high |-> Scale(bar.high),
   low |-> Scale(bar.low), close |-> Scale(bar.close)]

Rows(bars) == [i \in DOMAIN bars |-> Row(bars[i])]

\* convert_minute_bars_to_lean up to the file: valid bars that belong there become rows;
Converts(bars) ==
  Validate(bars) = "VALID" /\ \A i \in DOMAIN bars : Belongs(bars[i]) /\ ~TooLarge(bars[i])

\* it goes through them bar by bar, and a price too large raises before a later bar that
\* does not belong is refused.
Refuses(bars) ==
  Validate(bars) = "VALID" =>
    \E i \in DOMAIN bars : ~Belongs(bars[i]) /\ \A j \in 1..(i - 1) : ~TooLarge(bars[j])
===============================================================================
