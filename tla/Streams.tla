------------------------------- MODULE Streams -------------------------------
(***************************************************************************)
(* How a change in the database reaches a browser tab: the trigger's       *)
(* notification, the broadcaster (packages/api/src/broadcaster.ts), the    *)
(* stream of one client (sse-stream.ts, sse.ts), and the query cache that  *)
(* its events patch or invalidate (packages/frontend/src/api).             *)
(*                                                                         *)
(* A behaviour follows one query of one tab; queries share nothing but the *)
(* broadcaster's connection.  What the query returns is a number that      *)
(* grows with each change of it.                                           *)
(***************************************************************************)
EXTENDS Integers, Sequences

CONSTANTS
  Feeds,        \* the queries to follow, or "none"
  BufLen,       \* SSE_BUFFER_MAX_LEN
  MaxChanges,   \* bound: changes of what the query returns
  MaxNoise,     \* bound: notifications of the channel about other rows
  MaxMounts,    \* bound: fetches because another component mounts the query
  MaxFaults     \* bound: lost connections, streams and requests

ASSUME StreamsAssumption ==
  /\ Feeds \subseteq {"prices", "market", "vault", "trades", "positions", "walletBalance", "config",
                     "none"}
  /\ BufLen \in Nat \ {0, 1}
  /\ {MaxChanges, MaxNoise, MaxMounts, MaxFaults} \subseteq Nat

VARIABLES
  feed,       \* the query this behaviour follows
  db,         \* what it returns now
  listening,  \* the broadcaster's connection is up
  stream,     \* the EventSource is "open" on the server, or "closed"
  queue,      \* notifications waiting in the stream's queue
  wire,       \* the event being written to the client
  cache,      \* what the tab shows
  fetch,      \* the request in flight
  news,       \* history: what the tab could know of the last change
  spent       \* the bounded events so far

streamVars == <<feed, db, listening, stream, queue, wire, cache, fetch, news, spent>>

-----------------------------------------------------------------------------
(* The routes and the hooks                                                *)

\* The wallet's balance comes from the ledger and has no stream.  Nor have the
\* configuration, the lockup, the leaderboard and the candles, which have no
\* timer either: "config" stands for them.
Streamed == {"prices", "market", "vault", "trades", "positions"}
\* The routes /markets/:symbol and /trades/:symbol filter by symbol.
Filtered == {"market", "trades"}
\* /prices looks the row of the notification up, the others the current one.
ByRow == {"prices"}
\* useStreamTrades and useStreamPositions invalidate; the other hooks patch.
Invalidating == {"trades", "positions"}
\* refetchInterval.
Polled == {"walletBalance"}

Unloaded == -1
NoFetch  == [phase |-> "none", row |-> Unloaded]
Asked    == [NoFetch EXCEPT !.phase = "asked"]
\* Nobody is logged on, and the query about the account is disabled.
Disabled == [NoFetch EXCEPT !.phase = "disabled"]

\* Notifications: a version of our row, or
Resync == 0
Noise  == -1

Nothing == [event |-> "none", row |-> 0]

Spend(what, bound) == spent[what] < bound /\ spent' = [spent EXCEPT ![what] = @ + 1]

-----------------------------------------------------------------------------
(* The queue (makeQueue)                                                   *)

\* Faulty: a full queue refuses the new notification.
Refusing_Push(q, n) == IF Len(q) < BufLen THEN Append(q, n) ELSE q

\* A full queue drops its oldest.
Push(q, n) == IF Len(q) < BufLen THEN Append(q, n) ELSE Append(Tail(q), n)

Ours(q) == {i \in DOMAIN q : q[i] > 0}

\* A notification of others that crowds our last one out of the queue.
Crowding(n) ==
  /\ queue' = Push(queue, n)
  /\ news' = IF Ours(queue) # {} /\ Ours(queue') = {} THEN "crowded" ELSE news

-----------------------------------------------------------------------------
(* The query cache                                                         *)

\* Faulty: while a request is in flight there is nothing to do.
Lazy_Invalidate == fetch' = IF fetch.phase # "none" THEN fetch ELSE Asked

\* invalidateQueries: a refetch starts over, a first fetch goes on.
Invalidate ==
  fetch' = IF cache = Unloaded /\ fetch.phase # "none" THEN fetch ELSE Asked

\* A change reaches the tab when it is notified and no older answer can
\* overwrite it or swallow its invalidation.
Heard ==
  /\ listening /\ stream = "open"
  /\ fetch.phase = "answered" => feed \in Invalidating /\ cache # Unloaded

-----------------------------------------------------------------------------
(* The database and the broadcaster                                        *)

\* A transaction changes what the query returns; its trigger notifies.
Change ==
  /\ feed # "none" /\ db < MaxChanges
  /\ db' = db + 1
  /\ IF feed \in Streamed
     THEN /\ queue' = IF listening /\ stream = "open" THEN Push(queue, db + 1) ELSE queue
          /\ news' = IF Heard THEN "heard" ELSE "missed"
     ELSE UNCHANGED <<queue, news>>
  /\ UNCHANGED <<feed, listening, stream, wire, cache, fetch, spent>>

\* A change of other rows, on a channel the route does not filter.
OthersChange ==
  /\ feed \in Streamed \ Filtered
  /\ listening /\ stream = "open"
  /\ Spend("noise", MaxNoise)
  /\ Crowding(Noise)
  /\ UNCHANGED <<feed, db, listening, stream, wire, cache, fetch>>

\* handleDisconnect.
Disconnect ==
  /\ listening /\ feed \in Streamed
  /\ Spend("faults", MaxFaults)
  /\ listening' = FALSE
  /\ UNCHANGED <<feed, db, stream, queue, wire, cache, fetch, news>>

\* scheduleReconnect, at the attempt that gets through: every subscriber is
\* sent a resync, which the filters do not let pass.
Reconnect ==
  /\ ~listening
  /\ listening' = TRUE
  /\ IF stream = "open" /\ feed \notin Filtered THEN Crowding(Resync)
                                                 ELSE UNCHANGED <<queue, news>>
  /\ UNCHANGED <<feed, db, stream, wire, cache, fetch, spent>>

-----------------------------------------------------------------------------
(* The stream                                                              *)

\* The EventSource connects, and the route subscribes.  While the broadcaster
\* is away subscribe throws, and the EventSource tries again.
OpenStream ==
  /\ feed \in Streamed
  /\ stream = "closed" /\ listening
  /\ stream' = "open"
  /\ UNCHANGED <<feed, db, listening, queue, wire, cache, fetch, news, spent>>

\* The connection to the client breaks: nothing is replayed.
DropStream ==
  /\ stream = "open"
  /\ Spend("faults", MaxFaults)
  /\ stream' = "closed" /\ queue' = <<>> /\ wire' = Nothing
  /\ news' = IF Ours(queue) # {} \/ wire.row > 0 THEN "missed" ELSE news
  /\ UNCHANGED <<feed, db, listening, cache, fetch>>

\* One turn of the for-await loop: the row is read when its turn comes.
Project ==
  /\ queue # <<>> /\ wire = Nothing
  /\ queue' = Tail(queue)
  /\ wire' = CASE Head(queue) = Resync -> [event |-> "resync", row |-> 0]
               [] Head(queue) = Noise  -> [event |-> "other", row |-> 0]
               [] Head(queue) > 0      -> [event |-> "ours",
                                           row |-> IF feed \in ByRow THEN Head(queue) ELSE db]
  /\ UNCHANGED <<feed, db, listening, stream, cache, fetch, news, spent>>

\* The listener of the hook.  Nobody listens to "resync".
Deliver ==
  /\ wire # Nothing
  /\ wire' = Nothing
  /\ CASE wire.event # "ours" -> UNCHANGED <<cache, fetch>>
       [] wire.event = "ours" /\ feed \in Invalidating -> Invalidate /\ UNCHANGED cache
       [] wire.event = "ours" /\ feed \notin Invalidating -> cache' = wire.row /\ UNCHANGED fetch
  /\ UNCHANGED <<feed, db, listening, stream, queue, news, spent>>

-----------------------------------------------------------------------------
(* The requests (hooks.ts, rest.ts)                                        *)

Answer ==
  /\ fetch.phase = "asked"
  /\ fetch' = [phase |-> "answered", row |-> db]
  /\ UNCHANGED <<feed, db, listening, stream, queue, wire, cache, news, spent>>

Settle ==
  /\ fetch.phase = "answered"
  /\ cache' = fetch.row /\ fetch' = NoFetch
  /\ UNCHANGED <<feed, db, listening, stream, queue, wire, news, spent>>

\* The request and its retry fail.
FetchFails ==
  /\ fetch.phase \in {"asked", "answered"}
  /\ Spend("faults", MaxFaults)
  /\ fetch' = NoFetch
  /\ news' = IF feed \in Polled THEN news ELSE "missed"
  /\ UNCHANGED <<feed, db, listening, stream, queue, wire, cache>>

\* A component mounts the query when its data is older than the stale time.
Mount ==
  /\ fetch.phase = "none"
  /\ Spend("mounts", MaxMounts)
  /\ fetch' = Asked
  /\ UNCHANGED <<feed, db, listening, stream, queue, wire, cache, news>>

\* refetchInterval.  React Query skips its ticks while the tab is hidden, which
\* is left out: nobody sees the balance there, and the ticks go on afterwards.
Refetch ==
  /\ feed \in Polled
  /\ fetch.phase = "none"
  /\ fetch' = Asked
  /\ UNCHANGED <<feed, db, listening, stream, queue, wire, cache, news, spent>>

-----------------------------------------------------------------------------
(* The specification                                                       *)

\* The page opens: its query is fetched while its stream connects, but the
\* balance waits for an account.
StreamsInit ==
  /\ feed \in Feeds
  /\ db = 1 /\ listening = TRUE
  /\ stream = "closed" /\ queue = <<>> /\ wire = Nothing
  /\ cache = Unloaded /\ fetch = (IF feed \in Polled \cup {"none"} THEN Disabled ELSE Asked)
  /\ news = "missed"
  /\ spent = [noise |-> 0, mounts |-> 0, faults |-> 0]

StreamsNext ==
  \/ Change \/ OthersChange \/ Disconnect \/ Reconnect
  \/ OpenStream \/ DropStream \/ Project \/ Deliver
  \/ Answer \/ Settle \/ FetchFails \/ Mount \/ Refetch

-----------------------------------------------------------------------------
(* Properties                                                              *)

\* A change that the stream was told of ends up on the screen, through full
\* queues, refetches that race each other and lost connections; the balance
\* ends up there anyway.  (sse-stream.ts:96-154, api/sse.ts, hooks.ts)
HeardChangesShown == <>[](news = "heard" => cache = db)
=============================================================================
