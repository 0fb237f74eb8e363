------------------------------ MODULE Sessions ------------------------------
(***************************************************************************)
(* The tokens of one user, from the login that mints a pair of them to     *)
(* their revocation: refresh, logout and revoke_all_tokens of              *)
(* backend/app/api/v1/auth.py, get_current_user of api/deps.py, and the    *)
(* TokenBlacklist of core/token_blacklist.py, of which every process has   *)
(* one, over a Redis that they share.                                      *)
(*                                                                         *)
(* Time is counted in ticks, Second of them to a second.  A clock read by  *)
(* time.time() has the resolution of a tick; the exp of a JWT, the clock   *)
(* that jose compares it with and the TTL of a Redis key are whole         *)
(* seconds, each rounded down.                                             *)
(***************************************************************************)
EXTENDS Integers, Sequences

CONSTANTS
  Pairs,          \* identities of token pairs (their jti are UUIDs)
  Procs,          \* uvicorn worker processes
  Requests,       \* requests in flight at one time
  Second,         \* ticks per second
  AccessLife, RefreshLife,   \* seconds that the two kinds of token live
  MaxTime,        \* bound: ticks
  MaxBegun,       \* bound: requests in a behaviour
  MaxFaults,      \* bound: Redis commands that fail, keys that Redis
                  \* evicts, and restarts
  NoPair, NoProc

Kinds  == {"access", "refresh"}
Tokens == [pair : Pairs, kind : Kinds]
NoToken == [pair |-> NoPair, kind |-> "access"]
MarkerKey == NoToken    \* among the keys of Redis: user:{id}:revoked_at

Login == NoPair    \* the `from` of a pair that no refresh token bought
Minted == [at : 0..MaxTime, from : Pairs \cup {Login}]
Unminted == [at |-> -1, from |-> NoPair]

ASSUME ConstantsAssumption ==
  /\ NoPair \notin Pairs /\ NoProc \notin Procs
  /\ Second \in Nat \ {0}
  /\ AccessLife \in Nat /\ RefreshLife \in Nat
  /\ MaxTime \in Nat /\ MaxBegun \in Nat /\ MaxFaults \in Nat

VARIABLES
  now,
  pairs,      \* per identity: when its pair was minted, and from which pair
  held,       \* pairs that the client has received
  local,      \* per process: _local_cache
  redis,      \* per token: the instant its key expires; -1 without a key
  marker,     \* the key user:{id}:revoked_at
  req,        \* per request in flight: where it is and what it has seen
  faults, begun,
  revoked,    \* history: "no", "known" or "shared", see Remember
  known,      \* history: per process, what it has revoked since it started
  evicted     \* history: keys that Redis dropped after their last write

vars == <<now, pairs, held, local, redis, marker, req, faults, begun,
          revoked, known, evicted>>

-----------------------------------------------------------------------------
(* Tokens and time. *)

Floor(t) == Second * (t \div Second)

Life(kind) == Second * (IF kind = "access" THEN AccessLife ELSE RefreshLife)

Exp(t) == pairs[t.pair].at + Life(t.kind)

(* verify_token: jose (external) refuses a token once its exp is smaller   *)
(* than the current second.                                                *)
Valid(t) == Floor(now) <= Exp(t)

TTL_OneSecondLess(t) ==
  IF Exp(t) > now THEN Floor(Exp(t) - now) - Second ELSE 0

(* int(expires_at - time.time()) *)
TTL(t) == IF Exp(t) > now THEN Floor(Exp(t) - now) ELSE 0

InRedis(t) == redis[t] # -1

-----------------------------------------------------------------------------
(* Requests. *)

(* A request with one of these has passed every check on its token. *)
Inside == {"revoking", "remembering", "marking", "answering"}
PCs == {"idle", "askingToken", "askingUser", "loading"} \cup Inside

Idle == [pc |-> "idle", proc |-> NoProc, token |-> NoToken,
         todo |-> << >>, new |-> NoPair, lost |-> FALSE, blind |-> FALSE,
         was |-> "no", wasKnown |-> FALSE, wasMarked |-> FALSE,
         wasSpent |-> FALSE]

Request ==
  [pc : PCs, proc : Procs \cup {NoProc}, token : Tokens \cup {NoToken},
   todo : Seq(Tokens),      \* tokens it still has to blacklist
   new : Pairs \cup {NoPair},    \* the pair it has minted
   lost : BOOLEAN,          \* its last Redis write failed
   blind : BOOLEAN,         \* a Redis read failed or missed an evicted key
   \* what had been revoked, and bought, when it began
   was : {"no", "known", "shared"}, wasKnown : BOOLEAN, wasMarked : BOOLEAN,
   wasSpent : BOOLEAN]

TypeOK ==
  /\ now \in 0..MaxTime
  /\ pairs \in [Pairs -> Minted \cup {Unminted}]
  /\ held \in SUBSET Pairs
  /\ local \in [Procs -> SUBSET Tokens]
  /\ redis \in [Tokens -> Int]
  /\ marker \in BOOLEAN
  /\ req \in [Requests -> Request]
  /\ faults \in 0..MaxFaults /\ begun \in 0..MaxBegun
  /\ revoked \in [Tokens -> {"no", "known", "shared"}]
  /\ known \in [Procs -> SUBSET Tokens]
  /\ evicted \subseteq Tokens \cup {MarkerKey}

Init ==
  /\ now = 0
  /\ pairs = [i \in Pairs |-> Unminted]
  /\ held = {}
  /\ local = [p \in Procs |-> {}]
  /\ redis = [t \in Tokens |-> -1]
  /\ marker = FALSE
  /\ req = [r \in Requests |-> Idle]
  /\ faults = 0 /\ begun = 0
  /\ revoked = [t \in Tokens |-> "no"]
  /\ known = [p \in Procs |-> {}]
  /\ evicted = {}

(* A client has received a pair that t bought. *)
Spent(t) ==
  t.kind = "refresh" /\ \E i \in held : pairs[i].from = t.pair

Put(r, record) == req' = [req EXCEPT ![r] = record]

Fault == faults < MaxFaults /\ faults' = faults + 1

-----------------------------------------------------------------------------
Tick ==
  /\ now < MaxTime
  /\ now' = now + 1
  /\ redis' = [t \in Tokens |-> IF redis[t] < now' THEN -1 ELSE redis[t]]
  /\ UNCHANGED <<pairs, held, local, marker, req, faults, begun,
                 revoked, known, evicted>>

Mint(i, from) ==
  /\ pairs[i] = Unminted
  /\ pairs' = [pairs EXCEPT ![i] = [at |-> Floor(now), from |-> from]]

(* _issue_tokens_for, at the end of login or of mfa_verify. *)
IssueTokens(i) ==
  /\ Mint(i, Login)
  /\ held' = held \cup {i}
  /\ UNCHANGED <<now, local, redis, marker, req, faults, begun, revoked,
                 known, evicted>>

-----------------------------------------------------------------------------
(* get_current_user, and the same checks at the head of refresh.           *)

(* What follows is_blacklisted: refresh does not ask is_user_revoked.      *)
AfterToken(t) == IF t.kind = "refresh" THEN "loading" ELSE "askingUser"

(* verify_token, the type, and the part of is_blacklisted that asks the    *)
(* local cache: get_token_blacklist, awaited in between, never suspends.   *)
(* A request that is refused here changes nothing.                         *)
Begin(r, p, t) ==
  LET cached  == t \in local[p]
      expired == Exp(t) < now
  IN  /\ req[r].pc = "idle"
      /\ begun < MaxBegun /\ begun' = begun + 1
      /\ t.pair \in held /\ Valid(t)
      /\ cached => expired
      /\ local' = [local EXCEPT ![p] = IF cached THEN @ \ {t} ELSE @]
      /\ Put(r, [Idle EXCEPT
                   !.pc = IF cached THEN AfterToken(t) ELSE "askingToken",
                   !.proc = p, !.token = t,
                   !.was = revoked[t], !.wasKnown = t \in known[p],
                   !.wasMarked = marker, !.wasSpent = Spent(t)])
      /\ UNCHANGED <<now, pairs, held, redis, marker, faults, revoked, known,
                     evicted>>

(* is_blacklisted: the answer of Redis, and "no" when it fails. *)
AskToken(r) ==
  /\ req[r].pc = "askingToken"
  /\ \/ /\ Put(r, IF InRedis(req[r].token) THEN Idle
                  ELSE [req[r] EXCEPT !.pc = AfterToken(req[r].token),
                                      !.blind = req[r].token \in evicted])
        /\ UNCHANGED faults
     \/ /\ Fault
        /\ Put(r, [req[r] EXCEPT !.pc = AfterToken(req[r].token), !.blind = TRUE])
  /\ UNCHANGED <<now, pairs, held, local, redis, marker, begun, revoked,
                 known, evicted>>

(* The handler of q is entered: logout, with or without a refresh token of *)
(* the user, paired or not; revoke_all_tokens; or any other.               *)
(* change_password is one of the others here: what it blacklists is the id *)
(* of the user, which is no token, with an expiry in the past.             *)
EnterHandler(r, q) ==
  \/ \E also \in {<< >>} \cup {<<[pair |-> i, kind |-> "refresh"]>> : i \in held} :
       Put(r, [q EXCEPT !.pc = "revoking", !.todo = <<q.token>> \o also])
  \/ Put(r, [q EXCEPT !.pc = "marking"])
  \/ Put(r, [q EXCEPT !.pc = "answering"])

AskUser_Unasked(r) ==
  /\ req[r].pc = "askingUser"
  /\ EnterHandler(r, req[r])
  /\ UNCHANGED <<now, pairs, held, local, redis, marker, faults, begun,
                 revoked, known, evicted>>

(* is_user_revoked, and the load of the user, whom no code ever            *)
(* deactivates or deletes.                                                 *)
AskUser(r) ==
  /\ req[r].pc = "askingUser"
  /\ \/ /\ marker
        /\ Put(r, Idle)
        /\ UNCHANGED faults
     \/ /\ ~marker
        /\ EnterHandler(r, [req[r] EXCEPT !.blind = @ \/ MarkerKey \in evicted])
        /\ UNCHANGED faults
     \/ /\ Fault
        /\ EnterHandler(r, [req[r] EXCEPT !.blind = TRUE])
  /\ UNCHANGED <<now, pairs, held, local, redis, marker, begun, revoked,
                 known, evicted>>

Exchange_NotBlacklisted(r, i) ==
  /\ req[r].pc = "loading"
  /\ Mint(i, req[r].token.pair)
  /\ Put(r, [req[r] EXCEPT !.pc = "answering", !.new = i])
  /\ UNCHANGED <<now, held, local, redis, marker, faults, begun, revoked,
                 known, evicted>>

(* refresh mints the new pair before it blacklists the token it is for.    *)
Exchange(r, i) ==
  /\ req[r].pc = "loading"
  /\ Mint(i, req[r].token.pair)
  /\ Put(r, [req[r] EXCEPT !.pc = "revoking", !.new = i,
                           !.todo = <<req[r].token>>])
  /\ UNCHANGED <<now, held, local, redis, marker, faults, begun, revoked,
                 known, evicted>>

-----------------------------------------------------------------------------
(* TokenBlacklist.add *)

(* One token less to blacklist; after the last one, logout is over.        *)
Done(q) ==
  IF Tail(q.todo) # << >>
  THEN [q EXCEPT !.pc = "revoking", !.todo = Tail(@), !.lost = FALSE]
  ELSE IF q.token.kind = "access" THEN Idle
  ELSE [q EXCEPT !.pc = "answering", !.todo = << >>, !.lost = FALSE]

(* logout passes over a token that has expired by now.                     *)
SkipExpired(r) ==
  /\ req[r].pc = "revoking" /\ req[r].token.kind = "access"
  /\ ~Valid(Head(req[r].todo))
  /\ Put(r, Done(req[r]))
  /\ UNCHANGED <<now, pairs, held, local, redis, marker, faults, begun,
                 revoked, known, evicted>>

(* SET key "1" EX ttl, unless nothing is left of the token's life.         *)
Store(t) ==
  IF TTL(t) > 0
  THEN /\ redis' = [redis EXCEPT ![t] = now + TTL(t)]
       /\ evicted' = evicted \ {t}
  ELSE UNCHANGED <<redis, evicted>>

(* When the command fails, Redis may have executed it or not.  Its way to  *)
(* Redis takes no time here: a later arrival only makes the key live       *)
(* longer.                                                                 *)
WriteRedis(r) ==
  LET t == Head(req[r].todo)
  IN  /\ req[r].pc = "revoking"
      /\ req[r].token.kind = "access" => Valid(t)
      /\ \/ /\ Store(t)
            /\ Put(r, [req[r] EXCEPT !.pc = "remembering"])
            /\ UNCHANGED faults
         \/ /\ TTL(t) > 0 /\ Fault
            /\ Store(t) \/ UNCHANGED <<redis, evicted>>
            /\ Put(r, [req[r] EXCEPT !.pc = "remembering", !.lost = TRUE])
      /\ UNCHANGED <<now, pairs, held, local, marker, begun, revoked, known>>

Remember_NotAfterFailure(r) ==
  LET t == Head(req[r].todo)
      p == req[r].proc
  IN  /\ req[r].pc = "remembering"
      /\ local' = IF req[r].lost THEN local
                  ELSE [local EXCEPT ![p] = @ \cup {t}]
      /\ known' = [known EXCEPT ![p] = @ \cup {t}]
      /\ revoked' = [revoked EXCEPT ![t] =
                       IF req[r].lost /\ @ # "shared" THEN "known" ELSE "shared"]
      /\ Put(r, Done(req[r]))
      /\ UNCHANGED <<now, pairs, held, redis, marker, faults, begun, evicted>>

(* _local_cache[token_jti] = expires_at, and add returns.                  *)
Remember(r) ==
  LET t == Head(req[r].todo)
      p == req[r].proc
  IN  /\ req[r].pc = "remembering"
      /\ local' = [local EXCEPT ![p] = @ \cup {t}]
      /\ known' = [known EXCEPT ![p] = @ \cup {t}]
      /\ revoked' = [revoked EXCEPT ![t] =
                       IF req[r].lost /\ @ # "shared" THEN "known" ELSE "shared"]
      /\ Put(r, Done(req[r]))
      /\ UNCHANGED <<now, pairs, held, redis, marker, faults, begun, evicted>>

-----------------------------------------------------------------------------
(* revoke_all_tokens: the key of the user outlives any token (its TTL is   *)
(* counted to the year 2286), and an error of Redis is swallowed.          *)
Mark == marker' = TRUE /\ evicted' = evicted \ {MarkerKey}

RevokeAll(r) ==
  /\ req[r].pc = "marking"
  /\ \/ Mark /\ UNCHANGED faults
     \/ Fault /\ (Mark \/ UNCHANGED <<marker, evicted>>)
  /\ Put(r, Idle)
  /\ UNCHANGED <<now, pairs, held, local, redis, begun, revoked, known>>

Answer_AlwaysWithPair(r) ==
  /\ req[r].pc = "answering"
  /\ held' = held \cup {req[r].new}
  /\ Put(r, Idle)
  /\ UNCHANGED <<now, pairs, local, redis, marker, faults, begun, revoked,
                 known, evicted>>

Answer(r) ==
  /\ req[r].pc = "answering"
  /\ held' = held \cup ({req[r].new} \ {NoPair})
  /\ Put(r, Idle)
  /\ UNCHANGED <<now, pairs, local, redis, marker, faults, begun, revoked,
                 known, evicted>>

(* The database fails, or the request is cancelled at one of its awaits.   *)
Abort(r) ==
  /\ req[r].pc # "idle"
  /\ Put(r, Idle)
  /\ UNCHANGED <<now, pairs, held, local, redis, marker, faults, begun,
                 revoked, known, evicted>>

(* A process restarts: its requests and its local cache are gone.          *)
Restart(p) ==
  /\ Fault
  /\ local' = [local EXCEPT ![p] = {}]
  /\ known' = [known EXCEPT ![p] = {}]
  /\ req' = [r \in Requests |-> IF req[r].proc = p THEN Idle ELSE req[r]]
  /\ UNCHANGED <<now, pairs, held, redis, marker, begun, revoked, evicted>>

(* Redis (external) drops a key before its time, and no command fails: it  *)
(* runs with allkeys-lru over 256mb, and after a crash it lacks what its   *)
(* append-only file had not received yet.                                  *)
Evict(key) ==
  /\ Fault
  /\ \/ /\ key \in Tokens /\ InRedis(key)
        /\ redis' = [redis EXCEPT ![key] = -1]
        /\ UNCHANGED marker
     \/ /\ key = MarkerKey /\ marker
        /\ marker' = FALSE
        /\ UNCHANGED redis
  /\ evicted' = evicted \cup {key}
  /\ UNCHANGED <<now, pairs, held, local, req, begun, revoked, known>>

Step(r) ==
  \/ \E p \in Procs, t \in Tokens : Begin(r, p, t)
  \/ AskToken(r) \/ AskUser(r)
  \/ \E i \in Pairs : Exchange(r, i)
  \/ SkipExpired(r) \/ WriteRedis(r) \/ Remember(r)
  \/ RevokeAll(r) \/ Answer(r) \/ Abort(r)

Next ==
  \/ Tick
  \/ \E i \in Pairs : IssueTokens(i)
  \/ \E r \in Requests : Step(r)
  \/ \E p \in Procs : Restart(p)
  \/ \E key \in Tokens \cup {MarkerKey} : Evict(key)

Spec == Init /\ [][Next]_vars

-----------------------------------------------------------------------------
Entered(r) == req[r].pc \in Inside

(* A token is refused, by every process, to each request that begins after *)
(* its revocation has returned with its key in Redis, up to the last       *)
(* second before its exp: the TTL of its key is rounded down, and the      *)
(* token itself lives to the end of the second of its exp.  What else      *)
(* breaks this is a read of the key that fails, and an eviction of the key *)
(* itself, of which no command tells.                                      *)
RevokedIsRefused ==
  \A r \in Requests :
    Entered(r) /\ req[r].was = "shared" /\ ~req[r].blind =>
      now > Exp(req[r].token) - Second

(* The process that revoked a token refuses it until its exp, whatever     *)
(* becomes of Redis, until that process restarts.                          *)
RevokerRemembers ==
  \A r \in Requests :
    Entered(r) /\ req[r].wasKnown => now > Exp(req[r].token)

(* Once revoke_all_tokens has stored its marker no access token is         *)
(* accepted, neither the ones it was called for nor any that a refresh or  *)
(* a later login mints, since what it stores names the user: as long as    *)
(* Redis keeps the marker, which no code deletes but Redis may evict, and  *)
(* the read of it does not fail.                                           *)
RevokeAllIsFinal ==
  \A r \in Requests :
    Entered(r) /\ req[r].wasMarked /\ ~req[r].blind =>
      req[r].token.kind = "refresh"

(* A refresh token that has bought a pair which a client received is let   *)
(* through the check of no later request, so it buys no second pair there, *)
(* in any process: unless its write to Redis failed, the read of the later *)
(* request failed, its key was evicted, or its last second had begun.      *)
(* Requests that overlap may each buy a pair; this is about those that     *)
(* begin once the first pair is out.                                       *)
SpentBuysNothing ==
  \A r \in Requests :
    req[r].pc \in Inside \cup {"loading"} /\ req[r].wasSpent
    /\ req[r].was # "known" /\ ~req[r].blind =>
      now > Exp(req[r].token) - Second
=============================================================================
