---------------------------- MODULE BrokerProtocol ----------------------------
(***************************************************************************)
(* dhan_lean/providers/zerodha/broker_protocol.py as data: the error codes *)
(* with their policies, and what CandleRequest and BrokerResponse accept   *)
(* when they are constructed, which every decoded frame is as well.        *)
(*                                                                         *)
(* A time is an instant, counted in ticks of half a second from an IST     *)
(* midnight, with the zone it is written in; a time without a zone is      *)
(* "naive", and "UTC" is any zone but IST.  A token is a number with the   *)
(* way it is written: plain ASCII digits, more of them than needed, other  *)
(* digits, or text.  A request ID is a number, 0 an ID that is no          *)
(* canonical UUID.  An optional value is a set of at most one element.     *)
(***************************************************************************)
EXTENDS Integers

TicksPerSecond == 2
TicksPerMinute == 60 * TicksPerSecond
TicksPerDay == 24 * 60 * TicksPerMinute

Times == [at : Int, zone : {"IST", "+05:30", "UTC", "naive"}]
Numerals == [value : Int, form : {"plain", "padded", "digits", "text"}]
Optional(s, T) == s \subseteq T /\ \A x, y \in s : x = y

ProviderErrorCodes == {"PROVIDER_400", "PROVIDER_403", "PROVIDER_404", "PROVIDER_429", "PROVIDER_5XX"}

\* BrokerErrorCode, by what error_policy() says of it.
RetryableCodes == {"BROKER_UNAVAILABLE", "BROKER_TIMEOUT", "PROVIDER_429", "PROVIDER_5XX",
                   "NETWORK_TIMEOUT", "DNS_TLS_CONNECTION_FAILURE"}
ReauthenticationCodes == {"SESSION_FILE_MISSING", "SESSION_FILE_UNREADABLE", "MALFORMED_SESSION_FILE",
                          "SESSION_EXPIRED", "SESSION_INVALIDATED", "PROVIDER_403"}
ErrorCodes == RetryableCodes \cup ReauthenticationCodes \cup
  {"PROTOCOL_VERSION_MISMATCH", "MALFORMED_CLIENT_REQUEST", "UNAUTHORIZED_CALLER",
   "UNSUPPORTED_INTERVAL", "INVALID_DATE_WINDOW", "PROVIDER_400", "PROVIDER_404",
   "OVERSIZED_PROVIDER_RESPONSE", "MALFORMED_PROVIDER_RESPONSE", "INTERNAL_BROKER_FAILURE"}
-----------------------------------------------------------------------------
Ist(t) == [t EXCEPT !.zone = "IST"]
IstDay(t) == t.at \div TicksPerDay
WholeSecond(t) == t.zone # "naive" /\ t.at % TicksPerSecond = 0

\* A token of ASCII digits whose number is positive.
ProviderToken(token) == token.form \in {"plain", "padded"} /\ token.value > 0

\* CandleRequest.__post_init__: the code it raises, "none" when it accepts.
RequestRefusal(r) ==
  IF r.protocol_version # 1 THEN "PROTOCOL_VERSION_MISMATCH"
  ELSE IF r.request_id = 0 \/ ~ProviderToken(r.token) THEN "MALFORMED_CLIENT_REQUEST"
  ELSE IF r.interval # "minute" THEN "UNSUPPORTED_INTERVAL"
  ELSE IF r.continuous THEN "MALFORMED_CLIENT_REQUEST"
  ELSE IF \/ ~WholeSecond(r.from) \/ ~WholeSecond(r.to)
          \/ r.from.at >= r.to.at
          \/ r.to.at - r.from.at > TicksPerDay
          \/ IstDay(r.from) # IstDay(r.to)
       THEN "INVALID_DATE_WINDOW"
  ELSE "none"

\* The request that is constructed: times are kept in IST.
CandleRequest(r) == [r EXCEPT !.from = Ist(@), !.to = Ist(@)]

\* encode_request: isoformat() writes the offset of IST, which fromisoformat() reads
\* back as a zone without a name; constructing the request makes it IST again.
Encoded(r) == [r EXCEPT !.from.zone = "+05:30", !.to.zone = "+05:30"]
-----------------------------------------------------------------------------
\* The code a provider's HTTP status stands for; statuses not listed may carry any.
ExpectedCode(http) ==
  CASE http = 400 -> {"PROVIDER_400"}
    [] http = 403 -> {"PROVIDER_403"}
    [] http = 404 -> {"PROVIDER_404"}
    [] http = 429 -> {"PROVIDER_429"}
    [] http >= 500 -> {"PROVIDER_5XX"}
    [] http \in 200..299 -> {"none"}
    [] OTHER -> {"none"} \cup ErrorCodes

TransportStatus == {"PROVIDER_RESPONSE", "BROKER_REJECTED", "SESSION_UNAVAILABLE",
                    "SESSION_EXPIRED", "RATE_LIMITED", "BROKER_FAILURE"}
UnavailableSessions == {"MISSING", "UNREADABLE", "MALFORMED"}
SessionState == {"READY", "EXPIRED", "INVALIDATED"} \cup UnavailableSessions

\* A body may be more than allowed or cut off ("oversized"), or not what its length and
\* digest say ("altered").
Bodies == {"empty", "some", "oversized", "altered"}

Responses == [request_id : Int, transport : TransportStatus, http : SUBSET Int,
              session : SessionState, body : Bodies, retryAfter : SUBSET Int,
              code : {"none"} \cup ErrorCodes]

\* The fields of a response against each other, in BrokerResponse.__post_init__.
Coherent(r) ==
  /\ r.http # {} <=> r.transport = "PROVIDER_RESPONSE"
  /\ r.http = {} => r.body = "empty"
  /\ \A h \in r.http : h \in 100..599 /\ r.code \in ExpectedCode(h)
  /\ \A s \in r.retryAfter : s \in 0..3600 /\ r.code \in {"PROVIDER_429", "PROVIDER_5XX"}
  /\ r.code = "PROVIDER_403" => r.session = "INVALIDATED"
  /\ r.code \in ProviderErrorCodes => r.transport = "PROVIDER_RESPONSE"
  /\ r.transport = "SESSION_EXPIRED" => r.session = "EXPIRED"
  /\ r.transport = "SESSION_UNAVAILABLE" => r.session \in UnavailableSessions

\* The code BrokerResponse raises, "none" when it accepts.
ResponseRefusal(r) ==
  IF r.body = "oversized" THEN "OVERSIZED_PROVIDER_RESPONSE"
  ELSE IF r.body = "altered" \/ ~Coherent(r) THEN "MALFORMED_PROVIDER_RESPONSE"
  ELSE "none"

\* UnixHistoricalBrokerServer._local_failure, before BrokerResponse has looked at it.
LocalFailure(id, code) ==
  [request_id |-> id, transport |-> "BROKER_FAILURE", http |-> {}, session |-> "READY",
   body |-> "empty", retryAfter |-> {}, code |-> code]
===============================================================================
