------------------------- MODULE PolymarketHandler -------------------------
(***************************************************************************)
(* The Polymarket price handler (providers/apis/polymarket/api_handler.go) *)
(* driven by the REST poller of spec section 4.2.a.                        *)
(*                                                                         *)
(* The poller bins the provider's tickers by MaxIdsPerQuery and, for each  *)
(* bin, asks CreateURL for a URL, issues the GET and hands the reply to    *)
(* ParseResponse; a request may also time out.  Bins are polled in         *)
(* parallel and each bin's outcome is written to the latest observation of *)
(* its tickers.  The poller is outside this repository and is taken from   *)
(* the spec; the handler is translated from the code.                      *)
(*                                                                         *)
(* A midpoint is an integer number of priceAdjustmentMin (0.0001) units; a *)
(* body either fails to decode, decodes without "mid", or carries a mid.   *)
(***************************************************************************)
EXTENDS Integers, Sequences, FiniteSets

CONSTANTS
  IdSeq,           \* the provider's tickers, in the order the poller bins them
  APIConfigs,      \* APIConfigs the oracle may be started with
  Mids             \* midpoints the venue may return, in units of 0.0001

ASSUME Mids \subseteq Nat

Name == "polymarket_api"

\* An APIConfig as NewAPIHandler and the poller read it: its name, Enabled,
\* the verdict of ValidateBasic (config package, not in this repository),
\* len(Endpoints) and the poller's max_ids_per_query.
ASSUME APIConfigs \subseteq [name : {Name, "other"}, enabled : BOOLEAN, valid : BOOLEAN,
                              endpoints : Nat, maxIds : Nat \ {0}]

\* NewAPIHandler: the Polymarket name, enabled, valid and exactly one
\* endpoint, which CreateURL formats the token id into.
NewAPIHandler(api) ==
  /\ api.name = Name
  /\ api.enabled
  /\ api.valid
  /\ api.endpoints = 1

\* Bin sizes of the configs the handler is built with.
MaxIdsChoices == {api.maxIds : api \in {a \in APIConfigs : NewAPIHandler(a)}}

Ids == {IdSeq[i] : i \in DOMAIN IdSeq}

\* priceAdjustmentMin = 0.0001, one unit.
PriceAdjustmentMin == 1

NoMid == -1
Bodies == {[decodes |-> FALSE, mid |-> NoMid], [decodes |-> TRUE, mid |-> NoMid]}
          \cup {[decodes |-> TRUE, mid |-> m] : m \in Mids}
\* No body: the outcome came from the poller, not from a reply.
NoBody == [decodes |-> FALSE, mid |-> -2]

\* An outcome: a price, or an error code, for one ticker.
Price(p) == [kind |-> "price", price |-> p, code |-> "none"]
Error(c) == [kind |-> "error", price |-> 0, code |-> c]
NoOutcome == [kind |-> "none", price |-> 0, code |-> "none"]

\* The poller's bins: consecutive runs of m tickers.
BinsOf(m) == {SubSeq(IdSeq, (k - 1) * m + 1, IF k * m < Len(IdSeq) THEN k * m ELSE Len(IdSeq)) :
                k \in 1..((Len(IdSeq) + m - 1) \div m)}

AllBins == UNION {BinsOf(m) : m \in MaxIdsChoices}

BinIds(b) == {b[i] : i \in DOMAIN b}

VARIABLES
  maxIds,     \* the configured max_ids_per_query, fixed for the run
  inflight,   \* bins whose request is outstanding
  obs,        \* obs[id]: the latest outcome the poller recorded for id
  lastBody    \* lastBody[id]: the body of the reply that produced obs[id]

vars == <<maxIds, inflight, obs, lastBody>>

Bins == BinsOf(maxIds)

-----------------------------------------------------------------------------
(* The handler                                                              *)

\* CreateURL: exactly one ticker per request.
CreateURLOk(ids) == Len(ids) = 1

\* priceResponseError: the same error for every requested ticker.
PriceResponseError(ids, code) == [i \in BinIds(ids) |-> Error(code)]

\* A fault: zero is published as it came.
ParseResponseNoFloor(ids, body) ==
  IF Len(ids) # 1 THEN PriceResponseError(ids, "InvalidResponse")
  ELSE IF ~body.decodes THEN PriceResponseError(ids, "FailedToDecode")
  ELSE IF body.mid = NoMid THEN PriceResponseError(ids, "FailedToDecode")
  ELSE [i \in BinIds(ids) |-> Price(body.mid)]

\* ParseResponse: one ticker, a decodable body, a mid; a zero mid becomes
\* priceAdjustmentMin.  The result maps each ticker it reports on.
ParseResponse(ids, body) ==
  IF Len(ids) # 1 THEN PriceResponseError(ids, "InvalidResponse")
  ELSE IF ~body.decodes THEN PriceResponseError(ids, "FailedToDecode")
  ELSE IF body.mid = NoMid THEN PriceResponseError(ids, "FailedToDecode")
  ELSE [i \in BinIds(ids) |-> Price(IF body.mid = 0 THEN PriceAdjustmentMin ELSE body.mid)]

-----------------------------------------------------------------------------
(* The poller                                                               *)

\* A fault: the response replaces every observation instead of updating
\* the tickers it reports on.
RecordReplaces(res, body) ==
  /\ obs' = res
  /\ lastBody' = [i \in DOMAIN res |-> body]

\* Record a response: every ticker it reports on gets its outcome.
Record(res, body) ==
  /\ obs' = [i \in Ids |-> IF i \in DOMAIN res THEN res[i] ELSE obs[i]]
  /\ lastBody' = [i \in Ids |-> IF i \in DOMAIN res THEN body ELSE lastBody[i]]

\* A poll tick for bin b: CreateURL succeeds and the GET goes out, or it
\* fails and the bin's tickers get the error.
Poll(b) ==
  /\ b \in Bins \ inflight
  /\ UNCHANGED maxIds
  /\ IF CreateURLOk(b)
     THEN inflight' = inflight \cup {b} /\ UNCHANGED <<obs, lastBody>>
     ELSE /\ Record(PriceResponseError(b, "APIGeneral"), NoBody)
          /\ UNCHANGED inflight

\* The venue answers; ParseResponse turns the body into outcomes.
Respond(b) ==
  /\ b \in inflight
  /\ \E body \in Bodies : Record(ParseResponse(b, body), body)
  /\ inflight' = inflight \ {b}
  /\ UNCHANGED maxIds

\* The request's timeout fires first; the bin's tickers get the error.
Timeout(b) ==
  /\ b \in inflight
  /\ Record(PriceResponseError(b, "APIGeneral"), NoBody)
  /\ inflight' = inflight \ {b}
  /\ UNCHANGED maxIds

\* The poller runs only when NewAPIHandler accepted its config.
Init ==
  /\ \E api \in APIConfigs : NewAPIHandler(api) /\ maxIds = api.maxIds
  /\ inflight = {}
  /\ obs = [i \in Ids |-> NoOutcome]
  /\ lastBody = [i \in Ids |-> NoBody]

Next == \E b \in AllBins : Poll(b) \/ Respond(b) \/ Timeout(b)

Spec == Init /\ [][Next]_vars

-----------------------------------------------------------------------------
(* Properties                                                               *)

Outcomes == {NoOutcome} \cup {Price(p) : p \in Mids \cup {PriceAdjustmentMin}}
            \cup {Error(c) : c \in {"APIGeneral", "InvalidResponse", "FailedToDecode"}}

TypeOK ==
  /\ maxIds \in MaxIdsChoices
  /\ inflight \subseteq Bins
  /\ obs \in [Ids -> Outcomes]
  /\ lastBody \in [Ids -> Bodies \cup {NoBody}]

\* Spec 4.2.a and the zero-price rule of section 8, written from the spec:
\* a one-ticker request whose body carries a mid publishes that mid, or
\* 0.0001 when it is zero; every other reply is an error for the ticker.
RefOutcome(body) ==
  IF body.decodes /\ body.mid # NoMid
  THEN Price(IF body.mid = 0 THEN 1 ELSE body.mid)
  ELSE Error("any")

\* Every recorded outcome of a ticker is what the reply that produced it
\* should give: no zero price, no price from a bad body, and an error for
\* each ticker of a request that was not a single ticker.
OutcomesMatchSpec ==
  \A i \in Ids :
    /\ obs[i].kind = "price" =>
         /\ Len(CHOOSE b \in Bins : i \in BinIds(b)) = 1
         /\ obs[i] = RefOutcome(lastBody[i])
    /\ obs[i].kind = "error" =>
         \/ lastBody[i] = NoBody
         \/ RefOutcome(lastBody[i]).kind = "error"
         \/ Len(CHOOSE b \in Bins : i \in BinIds(b)) # 1

=============================================================================
