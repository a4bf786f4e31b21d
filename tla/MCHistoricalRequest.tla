------------------------- MODULE MCHistoricalRequest -------------------------
(***************************************************************************)
(* Dumps with an equity, futures and options, records the parser accepts   *)
(* and planning does not, a pair nobody can tell apart, and one with a row *)
(* that is refused; work items of the planner and windows on both sides of *)
(* every limit; policies whose backoff is zero, constant, doubled and      *)
(* capped; and a broker that does what the protocol allows and what not.   *)
(***************************************************************************)
EXTENDS HistoricalRequest

Name(n) == [name |-> n, form |-> "upper"]
Number7(form) == [value |-> 7, form |-> form]
Strike(v, form) == {[value |-> v, form |-> form]}

Row(token, symbol, type, expiry, strike) ==
  [sound |-> TRUE, token |-> token, tradingsymbol |-> symbol, exchange |-> Name("NSE"),
   type |-> type, expiry |-> expiry, strike |-> strike]

Acme == Row(Number7("padded"), Name("ACME"), "EQ", {}, {})
Future == Row(Number7("plain"), Name("ACME"), "FUT", {1}, {})
Call == Row(Number7("plain"), Name("ACME"), "CE", {1}, Strike(100, "padded"))
ZeroPut == Row(Number7("plain"), Name("ACME"), "PE", {1}, Strike(0, "plain"))
Zero == Row(Number7("plain"), Name("ZERO"), "EQ", {}, Strike(0, "plain"))
Lower == Row(Number7("plain"), [Name("ACME") EXCEPT !.form = "lower"], "EQ", {}, {})
Script == Row(Number7("digits"), Name("ZERO"), "FUT", {1}, {})
Negative == Row(Number7("plain"), Name("ACME"), "CE", {1}, Strike(-1, "plain"))

MCDumps == {<<Acme, Future, Call, ZeroPut, Zero, Lower, Script>>, <<Acme, Call, Acme>>,
            <<Acme, Negative>>}

Context(type, expiry, strike) ==
  [exchange |-> Name("NSE"), type |-> type, expiry |-> expiry, strike |-> strike,
   snapshot_date |-> 0, continuous |-> FALSE, oi |-> FALSE]
MCContexts ==
  {Context("EQ", {}, {}), [Context("EQ", {}, {}) EXCEPT !.oi = TRUE],
   [Context("EQ", {}, {}) EXCEPT !.continuous = TRUE],
   [Context("EQ", {}, {}) EXCEPT !.snapshot_date = 1],
   Context("FUT", {1}, {}), Context("FUT", {}, {}),
   Context("CE", {1}, Strike(100, "plain")), Context("PE", {1}, Strike(0, "padded"))}

Time(day, minute, ticks, zone) ==
  [at |-> day * TicksPerDay + minute * TicksPerMinute + ticks, zone |-> zone]
Item(from, to) ==
  [source_id |-> "zerodha", symbol |-> Name("ACME"), bar_size |-> "1m", session_date |-> 1,
   from |-> from, to |-> to]
Open == Time(1, 555, 0, "UTC")
Close == Time(1, 930, 0, "UTC")
MCItems ==
  MinuteIngestion("zerodha", [Name("ACME") EXCEPT !.form = "lower"], {0, 1, 2})
    \cup MinuteIngestion("zerodha", Name("ZERO"), {1})
    \cup {[Item(Open, Close) EXCEPT !.symbol = [Name("ACME") EXCEPT !.form = "lower"]],
          [Item(Open, Close) EXCEPT !.source_id = "other"],
          [Item(Open, Close) EXCEPT !.bar_size = "1d"],
          [Item(Open, Close) EXCEPT !.session_date = 0]}
    \cup {Item(Open, to) : to \in {Close, Time(1, 556, 1, "UTC"),
                                   Time(1, 931, 0, "UTC"), Time(2, 600, 0, "UTC")}}
    \cup {Item(Time(1, 554, 0, "UTC"), Close)}

Settings(attempts, base, cap, jitterMax) ==
  [maximum_attempts |-> attempts, base |-> base, cap |-> cap, jitterMax |-> jitterMax,
   retryAfterMax |-> 5]
MCPolicies == {Settings(2, 0, 2, 1), Settings(2, 2, 2, 0), Settings(3, 1, 4, 0), Settings(3, 2, 3, 0)}

Answered(http, session, ra, code) ==
  [request_id |-> 0, transport |-> "PROVIDER_RESPONSE", http |-> {http}, session |-> session,
   body |-> "some", retryAfter |-> ra, code |-> code]
Failed(transport, session, code) ==
  [request_id |-> 0, transport |-> transport, http |-> {}, session |-> session,
   body |-> "empty", retryAfter |-> {}, code |-> code]
MCResponses ==
  {Answered(200, "READY", {}, "none"), Answered(302, "READY", {}, "none"),
   Answered(403, "INVALIDATED", {}, "PROVIDER_403"),
   Answered(429, "READY", {}, "PROVIDER_429"), Answered(429, "READY", {3}, "PROVIDER_429"),
   Answered(503, "READY", {9}, "PROVIDER_5XX"), Answered(503, "READY", {}, "none"),
   Failed("SESSION_EXPIRED", "EXPIRED", "SESSION_EXPIRED"),
   Failed("RATE_LIMITED", "READY", "PROVIDER_429")}
MCDeeds == {[raises |-> "none", response |-> {r}] : r \in MCResponses}
  \cup {[raises |-> c, response |-> {}] :
          c \in {"NETWORK_TIMEOUT", "SESSION_FILE_MISSING", "PROVIDER_5XX", "an exception"}}
MCJitters == {0, 1}
MCScripts == {2}
==============================================================================
