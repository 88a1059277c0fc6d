---------------------------- MODULE MexcHandler ----------------------------
(***************************************************************************)
(* The MEXC websocket data handler (providers/websockets/mexc) inside the  *)
(* websocket sessions of the provider runtime.                             *)
(*                                                                         *)
(* The runtime shards the provider's tickers into connections of at most   *)
(* ws.MaxSubscriptionsPerConnection tickers (the config field) and gives   *)
(* each connection a Copy of the handler, with an empty ticker cache.      *)
(* CreateMessages refuses more than the package constant                   *)
(* MaxSubscriptionsPerConnection tickers; otherwise it adds each ticker to *)
(* the cache and names each instrument by the upper-cased off-chain        *)
(* ticker.  The venue then streams protobuf mini-ticker frames carrying    *)
(* the instrument's symbol, and JSON frames (PONG replies to the heartbeat *)
(* ping, subscription acknowledgements).  HandleMessage tries protobuf     *)
(* first, then JSON; a ticker frame is resolved through the cache.         *)
(*                                                                         *)
(* The sessions (shard, connect, subscribe once, heartbeat, read, lose the *)
(* connection, reconnect) live in the base websocket handler, outside this *)
(* repository; they are taken from spec sections 4.2 and 4.2.b.  Off-chain *)
(* tickers are model values with their strings.ToUpper; a price string is  *)
(* "ok" (parses) or "bad".  The venue drops connections at most MaxDrops   *)
(* times in a behaviour, so that liveness speaks of a network that         *)
(* eventually stays up.                                                    *)
(***************************************************************************)
EXTENDS Integers, Sequences, FiniteSets

CONSTANTS
  OffChains,     \* off-chain ticker strings of the market map
  Upper,         \* strings.ToUpper on OffChains
  Pairs,         \* currency pairs
  Tickers,       \* the provider's tickers, in the order the runtime shards them
  MaxSubs,       \* the package constant MaxSubscriptionsPerConnection
  ConfigOverrides, \* WebSocketConfigs an operator may set in place of the default
  MaxInbox,      \* frames in flight on one connection
  MaxDrops       \* connection losses in one behaviour

ASSUME Upper \in [OffChains -> OffChains]
ASSUME MaxSubs \in Nat \ {0}
ASSUME MaxInbox \in Nat /\ MaxDrops \in Nat

ProviderTicker == [cp : Pairs, offChain : OffChains]

ASSUME Tickers \in Seq(ProviderTicker)

Name == "mexc_ws"

\* A WebSocketConfig as the constructor and the runtime read it: its name,
\* Enabled, the verdict of ValidateBasic (config package, not in this
\* repository) and MaxSubscriptionsPerConnection.
WebSocketConfigs == [name : {Name, "other"}, enabled : BOOLEAN, valid : BOOLEAN,
                     maxSubscriptionsPerConnection : Nat \ {0}]

ASSUME ConfigOverrides \subseteq WebSocketConfigs

\* DefaultWebSocketConfig: enabled, valid, and sharded by the package
\* constant.
DefaultWebSocketConfig ==
  [name |-> Name, enabled |-> TRUE, valid |-> TRUE, maxSubscriptionsPerConnection |-> MaxSubs]

\* NewWebSocketDataHandler: the config must carry the MEXC name, be enabled
\* and pass ValidateBasic; nothing compares its per-connection limit with
\* the package constant CreateMessages checks.
NewWebSocketDataHandler(ws) == ws.name = Name /\ ws.enabled /\ ws.valid

\* Connection slots: at most one per ticker.
Conns == 1..Len(Tickers)

VARIABLES
  wsMaxSubs,    \* ws.MaxSubscriptionsPerConnection of the running config
  phase,        \* phase[c]: "disconnected", "connected" or "live"
  cache,        \* cache[c]: the ProviderTickers connection c's handler has seen
  venueSubs,    \* venueSubs[c]: symbols the venue streams on connection c
  pinged,       \* pinged[c]: a heartbeat ping awaits its PONG
  inbox,        \* inbox[c]: frames received and not yet handled, in order
  lastResult,   \* lastResult[c]: what the last HandleMessage on c returned
  drops         \* connections the venue has dropped so far

vars == <<wsMaxSubs, phase, cache, venueSubs, pinged, inbox, lastResult, drops>>

\* Frames share one record shape: kind "proto" (symbol, price), "json"
\* (message) or "garbage" (neither decoder accepts it).
None == "none"
ProtoFrame(s, p) == [kind |-> "proto", symbol |-> s, price |-> p, message |-> None]
JsonFrame(m) == [kind |-> "json", symbol |-> None, price |-> None, message |-> m]
Garbage == [kind |-> "garbage", symbol |-> None, price |-> None, message |-> None]

Result(res, unres, err) == [resolved |-> res, unresolved |-> unres, err |-> err]
NoResult == Result({}, {}, "none")

\* The runtime's sharding (spec 4.2): consecutive runs of wsMaxSubs tickers,
\* one connection each.
NumShards == (Len(Tickers) + wsMaxSubs - 1) \div wsMaxSubs
Shard(c) == SubSeq(Tickers, (c - 1) * wsMaxSubs + 1,
                   IF c * wsMaxSubs < Len(Tickers) THEN c * wsMaxSubs ELSE Len(Tickers))
Active == 1..NumShards

-----------------------------------------------------------------------------
(* The handler                                                              *)

\* ProviderTickers.FromOffChainTicker: the cached ticker with that string.
FromOffChainTicker(c, symbol) == {t \in cache[c] : t.offChain = symbol}

\* parseTickerResponseMessage: an unknown symbol is an error; a price that
\* does not parse is unresolved with ErrorFailedToParsePrice.
ParseTickerResponseMessage(c, f) ==
  IF FromOffChainTicker(c, f.symbol) = {} THEN Result({}, {}, "unknown ticker")
  ELSE LET t == CHOOSE x \in FromOffChainTicker(c, f.symbol) : TRUE
       IN IF f.price = "ok" THEN Result({t}, {}, "none")
          ELSE Result({}, {t}, "failed to parse price")

\* HandleMessage: protobuf first, then JSON (PONG, a miniTicker channel
\* acknowledgement, anything else an invalid message type).
HandleMessageResult(c, f) ==
  CASE f.kind = "proto" -> ParseTickerResponseMessage(c, f)
    [] f.kind = "json" /\ f.message \in {"PONG", "ack"} -> NoResult
    [] f.kind = "json" -> Result({}, {}, "invalid message type")
    [] OTHER -> Result({}, {}, "failed to unmarshal JSON")

\* A fault: the tickers are subscribed but never added to the cache.
CreateMessagesNoCache(c, ts) ==
  IF Len(ts) > MaxSubs THEN [ok |-> FALSE, cache |-> cache[c]]
  ELSE [ok |-> TRUE, cache |-> cache[c]]

\* A fault: the per-connection limit is not checked.
CreateMessagesNoLimit(c, ts) ==
  [ok |-> TRUE, cache |-> cache[c] \cup {ts[i] : i \in DOMAIN ts}]

\* A fault: a full connection is refused (>= for >).
CreateMessagesFullRefused(c, ts) ==
  IF Len(ts) >= MaxSubs THEN [ok |-> FALSE, cache |-> cache[c]]
  ELSE [ok |-> TRUE, cache |-> cache[c] \cup {ts[i] : i \in DOMAIN ts}]

\* CreateMessages: refuse more than the package's MaxSubscriptionsPerConnection
\* tickers, else add every ticker to the cache and build the request.
CreateMessages(c, ts) ==
  IF Len(ts) > MaxSubs THEN [ok |-> FALSE, cache |-> cache[c]]
  ELSE [ok |-> TRUE, cache |-> cache[c] \cup {ts[i] : i \in DOMAIN ts}]

\* The instrument symbol each subscription names:
\* MiniTickerChannel + strings.ToUpper(offChain) + "@UTC+8".
Instruments(ts) == {Upper[ts[i].offChain] : i \in DOMAIN ts}

-----------------------------------------------------------------------------
(* Actions of connection c                                                  *)

\* The runtime dials and hands the new connection a Copy of the handler.
Connect(c) ==
  /\ c \in Active
  /\ phase[c] = "disconnected"
  /\ phase' = [phase EXCEPT ![c] = "connected"]
  /\ cache' = [cache EXCEPT ![c] = {}]
  /\ UNCHANGED <<wsMaxSubs, venueSubs, pinged, inbox, lastResult, drops>>

\* After the post-connection wait the runtime calls CreateMessages with the
\* connection's shard and sends the request; a refusal tears the connection
\* down and the runtime dials again.
Subscribe(c) ==
  /\ phase[c] = "connected"
  /\ LET r == CreateMessages(c, Shard(c)) IN
       /\ cache' = [cache EXCEPT ![c] = r.cache]
       /\ IF r.ok
          THEN /\ phase' = [phase EXCEPT ![c] = "live"]
               /\ venueSubs' = [venueSubs EXCEPT ![c] = Instruments(Shard(c))]
          ELSE /\ phase' = [phase EXCEPT ![c] = "disconnected"]
               /\ venueSubs' = [venueSubs EXCEPT ![c] = {}]
  /\ UNCHANGED <<wsMaxSubs, pinged, inbox, lastResult, drops>>

\* The heart-beater sends HeartBeatMessages (a ping request).
HeartBeat(c) ==
  /\ phase[c] = "live"
  /\ ~pinged[c]
  /\ pinged' = [pinged EXCEPT ![c] = TRUE]
  /\ UNCHANGED <<wsMaxSubs, phase, cache, venueSubs, inbox, lastResult, drops>>

\* The venue streams a mini-ticker frame for a subscribed symbol, answers
\* an outstanding ping with PONG, acknowledges the subscription, or sends a
\* frame the handler cannot read.
VenueSend(c) ==
  /\ phase[c] = "live"
  /\ Len(inbox[c]) < MaxInbox
  /\ \/ /\ \E f \in {ProtoFrame(s, p) : s \in venueSubs[c], p \in {"ok", "bad"}}
                    \cup {JsonFrame(m) : m \in {"ack", "other"}} \cup {Garbage} :
             inbox' = [inbox EXCEPT ![c] = Append(@, f)]
        /\ UNCHANGED pinged
     \/ /\ pinged[c]
        /\ inbox' = [inbox EXCEPT ![c] = Append(@, JsonFrame("PONG"))]
        /\ pinged' = [pinged EXCEPT ![c] = FALSE]
  /\ UNCHANGED <<wsMaxSubs, phase, cache, venueSubs, lastResult, drops>>

\* The reader hands the oldest frame to HandleMessage.
ReadMessage(c) ==
  /\ phase[c] = "live"
  /\ inbox[c] # <<>>
  /\ lastResult' = [lastResult EXCEPT ![c] = HandleMessageResult(c, Head(inbox[c]))]
  /\ inbox' = [inbox EXCEPT ![c] = Tail(@)]
  /\ UNCHANGED <<wsMaxSubs, phase, cache, venueSubs, pinged, drops>>

\* The connection is lost; undelivered frames and the ping go with it.
Disconnect(c) ==
  /\ phase[c] \in {"connected", "live"}
  /\ drops < MaxDrops
  /\ phase' = [phase EXCEPT ![c] = "disconnected"]
  /\ venueSubs' = [venueSubs EXCEPT ![c] = {}]
  /\ pinged' = [pinged EXCEPT ![c] = FALSE]
  /\ inbox' = [inbox EXCEPT ![c] = <<>>]
  /\ drops' = drops + 1
  /\ UNCHANGED <<wsMaxSubs, cache, lastResult>>

Init ==
  /\ \E ws \in {DefaultWebSocketConfig} \cup ConfigOverrides :
       /\ NewWebSocketDataHandler(ws)
       /\ wsMaxSubs = ws.maxSubscriptionsPerConnection
  /\ phase = [c \in Conns |-> "disconnected"]
  /\ cache = [c \in Conns |-> {}]
  /\ venueSubs = [c \in Conns |-> {}]
  /\ pinged = [c \in Conns |-> FALSE]
  /\ inbox = [c \in Conns |-> <<>>]
  /\ lastResult = [c \in Conns |-> NoResult]
  /\ drops = 0

Next ==
  \E c \in Conns :
    \/ Connect(c) \/ Subscribe(c) \/ HeartBeat(c) \/ VenueSend(c)
    \/ ReadMessage(c) \/ Disconnect(c)

\* The runtime always redials after its back-off, subscribes after the
\* post-connection wait and keeps reading; the venue and the network get
\* no fairness.
Fairness == \A c \in Conns : WF_vars(Connect(c)) /\ WF_vars(Subscribe(c)) /\ WF_vars(ReadMessage(c))

Spec == Init /\ [][Next]_vars /\ Fairness

-----------------------------------------------------------------------------
(* Properties                                                               *)

Errors == {"none", "unknown ticker", "failed to parse price",
           "invalid message type", "failed to unmarshal JSON"}

\* Types, with the cache of every connection's handler holding at most the
\* package's MaxSubscriptionsPerConnection tickers.
TypeOK ==
  /\ wsMaxSubs \in Nat \ {0}
  /\ phase \in [Conns -> {"disconnected", "connected", "live"}]
  /\ \A c \in Conns : cache[c] \subseteq ProviderTicker /\ Cardinality(cache[c]) <= MaxSubs
  /\ \A c \in Conns : venueSubs[c] \subseteq OffChains /\ Len(inbox[c]) <= MaxInbox
  /\ pinged \in [Conns -> BOOLEAN]
  /\ \A c \in Conns : lastResult[c].err \in Errors
  /\ drops \in 0..MaxDrops

\* Every mini-ticker frame the venue sends for an instrument a connection
\* subscribed to is resolved back to a ticker of that connection: the
\* symbol CreateMessages put in the subscription is found by the cache
\* lookup in parseTickerResponseMessage.
SubscribedFramesResolve == \A c \in Conns : lastResult[c].err # "unknown ticker"

\* Spec 4.2: the runtime opens as many connections as the per-connection
\* limit needs, so once the network stays up every shard of the provider's
\* tickers is subscribed and streaming, for good.
AllShardsLive == <>[](\A c \in Active : phase[c] = "live")

\* The same, for the configurations whose per-connection limit does not
\* exceed the package constant CreateMessages checks against.
ShardsLiveWithinLimit == (wsMaxSubs <= MaxSubs) => AllShardsLive

=============================================================================
