----------------------------- MODULE RateWindow -----------------------------
(***************************************************************************)
(* The sliding window of backend/app/core/rate_limiter.py for one key, as  *)
(* RateLimitMiddleware of backend/app/core/middleware.py uses it: kept in  *)
(* a sorted set of Redis by the processes that reached Redis when they     *)
(* started (main.py), and in its own memory by every other.                *)
(*                                                                         *)
(* A process stamps a request, and sends its commands to Redis, where they *)
(* run as one transaction, but not in the order of the stamps.             *)
(***************************************************************************)
EXTENDS SlidingWindow, FiniteSets

CONSTANTS
  Servers,         \* uvicorn workers
  Clients,         \* requests in flight
  KeyIds,          \* what id(key) may be
  MaxRequests, Window,    \* RATE_LIMIT_API_PER_MINUTE and its minute, say
  Horizon          \* bound: the last second

ASSUME RateWindowAssumption ==
  /\ MaxRequests \in Nat \ {0} /\ Window \in Nat \ {0}
  /\ Horizon \in Nat
  /\ "redis" \notin Servers

Stores == {"redis"} \cup Servers
Stamps == 0..Horizon

VARIABLES
  second,      \* the clock
  mode,        \* where each process keeps its window
  zset,        \* the sorted set: members, which have their score as stamp
  expires,     \* when Redis drops the set
  window,      \* _local_windows of each process
  asked,       \* the requests whose commands are on their way to Redis
  latest,      \* history: the latest stamp that Redis has seen, or the time
               \* when it dropped the set
  granted      \* history: the stamps of the requests let through, by store,
               \* in the order of the decisions

rateVars == <<second, mode, zset, expires, window, asked, latest, granted>>

Member == [stamp : Stamps, id : KeyIds]
Unasked == [stamp |-> Horizon + 1]

RateTypeOK ==
  /\ second \in Stamps
  /\ mode \in [Servers -> {"redis", "local"}]
  /\ zset \subseteq Member
  /\ expires \in 0..(Horizon + Window + 1)
  /\ window \in [Servers -> Seq(Stamps)]
  /\ asked \in [Clients -> Member \cup {Unasked}]
  /\ latest \in Stamps
  /\ granted \in [Stores -> Seq(Stamps)]

RateInit ==
  /\ second = 0
  /\ mode \in [Servers -> {"redis", "local"}]
  /\ zset = {} /\ expires = 0
  /\ window = [s \in Servers |-> << >>]
  /\ asked = [c \in Clients |-> Unasked]
  /\ latest = 0
  /\ granted = [k \in Stores |-> << >>]

-----------------------------------------------------------------------------
Allows_OneMore(n) == n <= MaxRequests

(* A window of n requests has room for one more. *)
Allows(n) == n < MaxRequests

Grant(store, stamp) == [granted EXCEPT ![store] = Append(@, stamp)]

-----------------------------------------------------------------------------
(* _check_redis *)

AskRedis(c, s, id) ==
  /\ mode[s] = "redis" /\ asked[c] = Unasked
  /\ asked' = [asked EXCEPT ![c] = [stamp |-> second, id |-> id]]
  /\ UNCHANGED <<second, mode, zset, expires, window, latest, granted>>

Kept(stamp) == {m \in zset : m.stamp + Window > stamp}

(* zremrangebyscore, zcard, zadd and expire in one transaction.  A refused *)
(* request counts too; one with the stamp and id of another does not.      *)
(* granted leaves out what the window cannot answer for: a request that a  *)
(* later one overtook, that shares its member, or that is let through      *)
(* because the answer does not arrive (LoseRedis).                         *)
CheckRedis(c) ==
  /\ asked[c] # Unasked
  /\ zset' = Kept(asked[c].stamp) \cup {asked[c]}
  /\ expires' = second + Window + 1
  /\ latest' = IF asked[c].stamp > latest THEN asked[c].stamp ELSE latest
  /\ asked' = [asked EXCEPT ![c] = Unasked]
  /\ granted' = IF /\ Allows(Cardinality(Kept(asked[c].stamp)))
                   /\ asked[c].stamp >= latest
                   /\ asked[c] \notin zset
                THEN Grant("redis", asked[c].stamp) ELSE granted
  /\ UNCHANGED <<second, mode, window>>

(* Redis does not run the commands, and the except branch lets the request *)
(* through.  Where only the answer is lost CheckRedis says what Redis did. *)
LoseRedis(c) ==
  /\ asked[c] # Unasked
  /\ asked' = [asked EXCEPT ![c] = Unasked]
  /\ UNCHANGED <<second, mode, zset, expires, window, latest, granted>>

ExpireSet ==
  /\ zset # {} /\ second >= expires
  /\ zset' = {} /\ latest' = second
  /\ UNCHANGED <<second, mode, expires, window, asked, granted>>

-----------------------------------------------------------------------------
(* _check_local *)

CheckLocal(s) ==
  /\ mode[s] = "local"
  /\ LET kept == Within(window[s], second, Window) IN
       IF Allows(Len(kept))
       THEN /\ window' = [window EXCEPT ![s] = Append(kept, second)]
            /\ granted' = Grant(s, second)
       ELSE /\ window' = [window EXCEPT ![s] = kept]
            /\ UNCHANGED granted
  /\ UNCHANGED <<second, mode, zset, expires, asked, latest>>

(* A process comes up again, and reaches Redis or does not. *)
RestartServer(s, m) ==
  /\ mode' = [mode EXCEPT ![s] = m]
  /\ window' = [window EXCEPT ![s] = << >>]
  /\ granted' = [granted EXCEPT ![s] = << >>]
  /\ UNCHANGED <<second, zset, expires, asked, latest>>

SecondPasses ==
  /\ second < Horizon
  /\ second' = second + 1
  /\ UNCHANGED <<mode, zset, expires, window, asked, latest, granted>>

RateNext ==
  \/ \E c \in Clients :
       \/ \E s \in Servers, id \in KeyIds : AskRedis(c, s, id)
       \/ CheckRedis(c) \/ LoseRedis(c)
  \/ \E s \in Servers : CheckLocal(s)
  \/ \E s \in Servers, m \in {"redis", "local"} : RestartServer(s, m)
  \/ ExpireSet
  \/ SecondPasses

RateSpec == RateInit /\ [][RateNext]_rateVars

-----------------------------------------------------------------------------
(* Any MaxRequests + 1 requests that one store lets through, other than    *)
(* those that granted leaves out, span a whole window, however requests    *)
(* overlap, overtake each other, fail or are refused in between.           *)
WindowRespected ==
  \A k \in Stores : \A i, j \in DOMAIN granted[k] :
    j = i + MaxRequests => granted[k][j] >= granted[k][i] + Window
=============================================================================
