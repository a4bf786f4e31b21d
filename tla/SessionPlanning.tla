--------------------------- MODULE SessionPlanning ---------------------------
(***************************************************************************)
(* From an instrument-master dump and a work item to one planned request:  *)
(* dhan_lean/providers/zerodha/instruments.py and planning.py, and the     *)
(* work items of dhan_lean/data/planner.py.                                *)
(*                                                                         *)
(* A name (symbol, exchange) is a name with the way it is written: "upper" *)
(* case, "lower" case, or "padded" with blanks.  A strike is a decimal: a  *)
(* value with the way it is written.  Dates are numbers of IST days.  A    *)
(* dump is a sequence of rows; SHA-256 is taken to be injective, so the    *)
(* dump stands for its hash, and the canonical metadata for theirs; the    *)
(* date of a snapshot is its caller's.                                     *)
(***************************************************************************)
EXTENDS BrokerProtocol, Sequences, FiniteSets

SessionOpen == (9 * 60 + 15) * TicksPerMinute
SessionClose == (15 * 60 + 30) * TicksPerMinute
OfDay(t) == t.at % TicksPerDay

Options == {"CE", "PE"}
InstrumentTypes == {"EQ", "FUT"} \cup Options

Values(decimals) == {d.value : d \in decimals}

\* What the fields of a row and of a work item hold, whatever else is wrong with them.
IsRow(row) == row.token \in Numerals /\ Optional(row.expiry, Int) /\ Optional(row.strike, Numerals)
IsItem(item) == item.session_date \in Int /\ {item.from, item.to} \subseteq Times
-----------------------------------------------------------------------------
\* Why parse_instrument_snapshot refuses a dump: CSV that is not sound, names that
\* are padded, a token without a positive number, an expiry or a strike its type
\* does not allow.  Digits of any script make a token here.
RowRefused(row) ==
  \/ ~row.sound
  \/ \E n \in {row.tradingsymbol, row.exchange} : n.form = "padded"
  \/ row.token.form = "text" \/ row.token.value <= 0
  \/ row.type \notin InstrumentTypes
  \/ row.type = "EQ" /\ (row.expiry # {} \/ Values(row.strike) \ {0} # {})
  \/ row.type = "FUT" /\ (row.expiry = {} \/ Values(row.strike) \ {0} # {})
  \/ row.type \in Options /\ (row.expiry = {} \/ ~\E v \in Values(row.strike) : v >= 0)

Parses(dump) == \A i \in DOMAIN dump : ~RowRefused(dump[i])

\* InstrumentQuery.__post_init__.
QueryAccepted(q) ==
  /\ q.type \in InstrumentTypes
  /\ \A v \in Values(q.strike) : v >= 0
  /\ q.type = "EQ" => q.expiry = {} /\ q.strike = {}
  /\ q.type = "FUT" => q.expiry # {} /\ q.strike = {}
  /\ q.type \in Options => q.expiry # {} /\ q.strike # {}

\* The records resolve_instrument finds, and whether it answers with one.
Matching(dump, q) ==
  {i \in DOMAIN dump : /\ dump[i].exchange = q.exchange
                       /\ dump[i].tradingsymbol = q.tradingsymbol
                       /\ dump[i].type = q.type
                       /\ dump[i].expiry = q.expiry
                       /\ Values(dump[i].strike) = Values(q.strike)}

Resolves(dump, q) == QueryAccepted(q) /\ Cardinality(Matching(dump, q)) = 1
-----------------------------------------------------------------------------
\* Items from the planner: one per date, its whole session, the symbol in upper case.
Upper(name) == [name EXCEPT !.form = IF @ = "lower" THEN "upper" ELSE @]

MinuteIngestion(source, symbol, days) ==
  {[source_id |-> source, symbol |-> Upper(symbol), bar_size |-> "1m", session_date |-> d,
    from |-> [at |-> d * TicksPerDay + SessionOpen, zone |-> "IST"],
    to |-> [at |-> d * TicksPerDay + SessionClose, zone |-> "IST"]] : d \in days}

\* What TimeWindow.__post_init__ accepts.
WindowAccepted(item) ==
  "naive" \notin {item.from.zone, item.to.zone} /\ item.from.at < item.to.at

\* The identity of a derivative fits its type, and it has not expired by the session.
DerivativeAccepted(record, day) ==
  /\ record.type = "EQ" => record.expiry = {} /\ record.strike = {}
  /\ record.type = "FUT" => record.expiry # {} /\ record.strike = {}
  /\ record.type \in Options => record.expiry # {} /\ \E v \in Values(record.strike) : v >= 0
  /\ \A e \in record.expiry : day <= e

\* _validate_identity: the first PlanningErrorCode it raises, or "none".
IdentityRefusal(plan) ==
  LET record == plan.instrument
  IN  IF plan.item.source_id # "zerodha" THEN "UNSUPPORTED_SOURCE"
      ELSE IF plan.item.bar_size # "1m" THEN "UNSUPPORTED_RESOLUTION"
      ELSE IF plan.continuous THEN "UNSUPPORTED_CONTINUOUS_MODE"
      ELSE IF {record.exchange.form, record.tradingsymbol.form} # {"upper"}
           THEN "INVALID_RESOLVED_INSTRUMENT"
      ELSE IF plan.exchange # record.exchange THEN "EXCHANGE_MISMATCH"
      ELSE IF plan.item.symbol # record.tradingsymbol THEN "SYMBOL_MISMATCH"
      ELSE IF ~ProviderToken(record.token) THEN "INVALID_RESOLVED_INSTRUMENT"
      ELSE IF record.type \notin InstrumentTypes THEN "UNSUPPORTED_INSTRUMENT_TYPE"
      ELSE IF ~DerivativeAccepted(record, plan.item.session_date)
           THEN "INVALID_DERIVATIVE_IDENTITY"
      ELSE "none"

\* The test for one IST date left to the time of day: a window may end the next morning.
WindowRefusalByTime(item) ==
  IF ~WindowAccepted(item) THEN "INVALID_WORK_ITEM_WINDOW"
  ELSE IF IstDay(item.from) # item.session_date THEN "SESSION_DATE_MISMATCH"
  ELSE IF \E t \in {item.from, item.to} : t.at % TicksPerMinute # 0
       THEN "NON_MINUTE_ALIGNED_WINDOW"
  ELSE IF OfDay(item.from) < SessionOpen \/ OfDay(item.to) > SessionClose
       THEN "WINDOW_OUTSIDE_SESSION"
  ELSE "none"

\* _validate_window: the first PlanningErrorCode it raises, or "none".
WindowRefusal(item) ==
  IF ~WindowAccepted(item) THEN "INVALID_WORK_ITEM_WINDOW"
  ELSE IF IstDay(item.from) # IstDay(item.to) THEN "CROSS_SESSION_WINDOW"
  ELSE IF IstDay(item.from) # item.session_date THEN "SESSION_DATE_MISMATCH"
  ELSE IF \E t \in {item.from, item.to} : t.at % TicksPerMinute # 0
       THEN "NON_MINUTE_ALIGNED_WINDOW"
  ELSE IF OfDay(item.from) < SessionOpen \/ OfDay(item.to) > SessionClose
       THEN "WINDOW_OUTSIDE_SESSION"
  ELSE "none"
-----------------------------------------------------------------------------
CanonicalToken(token) == [token EXCEPT !.form = "plain"]
\* A normalized decimal: of at most 28 digits, which normalize() does not round.
CanonicalDecimals(decimals) == {[value |-> v, form |-> "plain"] : v \in Values(decimals)}

\* The window as the work item writes it.
MetadataAsWritten(plan) ==
  [provider_instrument_id |-> CanonicalToken(plan.instrument.token),
   exchange |-> plan.exchange, tradingsymbol |-> plan.item.symbol,
   instrument_type |-> plan.instrument.type, expiry |-> plan.instrument.expiry,
   strike |-> CanonicalDecimals(plan.instrument.strike),
   snapshot_date |-> plan.snapshot_date, snapshot |-> plan.snapshot,
   from |-> plan.item.from, to |-> plan.item.to, oi |-> plan.oi]

\* _canonical_metadata, which the fingerprint is the digest of.
Metadata(plan) ==
  [provider_instrument_id |-> CanonicalToken(plan.instrument.token),
   exchange |-> plan.exchange, tradingsymbol |-> plan.item.symbol,
   instrument_type |-> plan.instrument.type, expiry |-> plan.instrument.expiry,
   strike |-> CanonicalDecimals(plan.instrument.strike),
   snapshot_date |-> plan.snapshot_date, snapshot |-> plan.snapshot,
   from |-> Ist(plan.item.from), to |-> Ist(plan.item.to), oi |-> plan.oi]

\* The request for the provider, as planning makes it and as every attempt makes it anew.
HistoricalRequestOf(plan, id) ==
  [protocol_version |-> 1, request_id |-> id, token |-> CanonicalToken(plan.instrument.token),
   interval |-> "minute", from |-> Ist(plan.item.from), to |-> Ist(plan.item.to),
   continuous |-> FALSE, oi |-> plan.oi]

\* plan_historical_candles: any failure to construct the request is taken for a bad ID.
PlanRefusal(plan, id) ==
  IF IdentityRefusal(plan) # "none" THEN IdentityRefusal(plan)
  ELSE IF WindowRefusal(plan.item) # "none" THEN WindowRefusal(plan.item)
  ELSE IF RequestRefusal(HistoricalRequestOf(plan, id)) # "none" THEN "INVALID_REQUEST_ID"
  ELSE "none"
===============================================================================
