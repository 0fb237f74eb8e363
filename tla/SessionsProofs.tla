--------------------------- MODULE SessionsProofs ---------------------------
(***************************************************************************)
(* Proofs about Sessions for every number of pairs, processes, requests    *)
(* and faults, and for every length of a second and of a token's life.     *)
(***************************************************************************)
EXTENDS Sessions, TLAPS

IsMinted(t) == t \in Tokens /\ pairs[t.pair] # Unminted

(* Redis refuses t until the last second before its exp, unless it evicted *)
(* its key.                                                                *)
Covered(t) ==
  \/ t \in evicted
  \/ now > Exp(t) - Second
  \/ redis[t] > Exp(t) - Second

(* Redis has the marker, unless it evicted it.                             *)
MarkerThere == marker \/ MarkerKey \in evicted

(* Whatever refers to a token refers to one whose exp is settled.          *)
HeldMinted == \A i \in held : pairs[i] # Unminted

(* A pair is sent to the client only after add has returned for the        *)
(* refresh token that bought it, whether or not its write reached Redis.   *)
SpentBeforeReplaced ==
  \A i \in held :
    pairs[i].from # Login =>
      revoked[[pair |-> pairs[i].from, kind |-> "refresh"]] # "no"

TokensMinted ==
  /\ \A p \in Procs : \A t \in local[p] \cup known[p] : IsMinted(t)
  /\ \A t \in Tokens : revoked[t] # "no" => IsMinted(t)

SharedCovered == \A t \in Tokens : revoked[t] = "shared" => Covered(t)

KnownCached ==
  \A p \in Procs : \A t \in known[p] : t \in local[p] \/ now > Exp(t)

(* What a request in flight is about, by where it is.                      *)
Shape(q) ==
  /\ q.pc # "idle" => q.proc \in Procs /\ IsMinted(q.token)
  /\ q.pc = "loading" => q.token.kind = "refresh"
  /\ q.pc \in {"askingUser", "marking"} => q.token.kind = "access"
  /\ q.pc \in {"revoking", "remembering"} =>
       /\ q.todo # << >>
       /\ \A k \in 1..Len(q.todo) : IsMinted(q.todo[k])
       /\ q.token.kind = "refresh" => q.todo = <<q.token>>
  /\ q.pc = "remembering" /\ ~q.lost => Covered(Head(q.todo))
  /\ q.new # NoPair =>
       /\ q.pc \in {"revoking", "remembering", "answering"}
       /\ q.token.kind = "refresh"
       /\ q.new \in Pairs /\ pairs[q.new] # Unminted
       /\ pairs[q.new].from = q.token.pair
       /\ q.pc = "answering" => revoked[q.token] # "no"

(* What had been revoked, and bought, before a request began, by how far   *)
(* it has come.                                                            *)
Past(q) ==
  /\ q.pc = "askingToken" /\ q.was = "shared" => Covered(q.token)
  /\ q.pc \notin {"idle", "askingToken"} /\ q.was = "shared" /\ ~q.blind =>
       now > Exp(q.token) - Second
  /\ q.pc # "idle" /\ q.wasKnown => now > Exp(q.token)
  /\ q.wasMarked => MarkerThere
  /\ q.wasSpent => q.was # "no"
  /\ q.pc \in Inside /\ q.wasMarked /\ ~q.blind => q.token.kind = "refresh"

InFlight(q) == \E r \in Requests : req[r] = q

RequestsInv == \A q \in Request : InFlight(q) => Shape(q) /\ Past(q)

Inv == /\ TypeOK /\ TokensMinted /\ SharedCovered /\ KnownCached
       /\ HeldMinted /\ SpentBeforeReplaced /\ RequestsInv

-----------------------------------------------------------------------------
(* Arithmetic of seconds. *)

LEMMA FloorBounds ==
  ASSUME NEW x \in Nat
  PROVE  Floor(x) \in Nat /\ Floor(x) <= x /\ x - Second < Floor(x)
BY ConstantsAssumption DEF Floor

LEMMA LifeType == \A kind : Life(kind) \in Nat
BY ConstantsAssumption DEF Life

LEMMA ExpType ==
  ASSUME TypeOK, NEW t \in Tokens, IsMinted(t)
  PROVE  Exp(t) \in Nat
<1>1. pairs[t.pair] \in Minted
  BY DEF TypeOK, IsMinted, Tokens
<1> QED
  BY <1>1, LifeType, ConstantsAssumption DEF Exp, Minted

(* The key of a token covers it to the last second before its exp.         *)
LEMMA TTLCovers ==
  ASSUME TypeOK, NEW t \in Tokens, IsMinted(t)
  PROVE  /\ TTL(t) \in Nat
         /\ TTL(t) > 0 => now + TTL(t) > Exp(t) - Second
         /\ TTL(t) = 0 => now > Exp(t) - Second
<1>1. now \in Nat /\ Exp(t) \in Nat /\ Second \in Nat \ {0}
  BY ExpType, ConstantsAssumption DEF TypeOK
<1>2. CASE Exp(t) > now
  <2>1. Exp(t) - now \in Nat
    BY <1>1, <1>2
  <2>2. /\ Floor(Exp(t) - now) \in Nat
        /\ Exp(t) - now - Second < Floor(Exp(t) - now)
    BY <2>1, FloorBounds
  <2> QED
    BY <1>1, <1>2, <2>2 DEF TTL
<1>3. CASE ~(Exp(t) > now)
  BY <1>1, <1>3 DEF TTL
<1> QED
  BY <1>2, <1>3

-----------------------------------------------------------------------------
(* What no step takes back. *)

Grows ==
  /\ now <= now'
  /\ \A i \in Pairs : pairs[i] # Unminted => pairs'[i] = pairs[i]
  /\ \A t \in Tokens : IsMinted(t) /\ Covered(t) => Covered(t)'
  /\ \A t \in Tokens : revoked[t] # "no" => revoked'[t] # "no"
  /\ MarkerThere => MarkerThere'

LEMMA MintedStays ==
  ASSUME Grows, NEW t \in Tokens, IsMinted(t)
  PROVE  IsMinted(t)' /\ Exp(t)' = Exp(t)
<1>1. t.pair \in Pairs
  BY DEF Tokens
<1> QED
  BY <1>1 DEF Grows, IsMinted, Exp

(* An exp that has passed has passed for good. *)
LEMMA PastStays ==
  ASSUME TypeOK, TypeOK', Grows, NEW t \in Tokens, IsMinted(t)
  PROVE  /\ now > Exp(t) => (now > Exp(t))'
         /\ now > Exp(t) - Second => (now > Exp(t) - Second)'
<1>1. now \in Nat /\ now' \in Nat /\ now <= now' /\ Second \in Nat
  BY ConstantsAssumption DEF TypeOK, Grows
<1>2. Exp(t) \in Nat /\ Exp(t)' = Exp(t)
  BY ExpType, MintedStays
<1> QED
  BY <1>1, <1>2

(* What a step keeps of the marker and of the evicted keys.                *)
KeysStay ==
  /\ marker' \in BOOLEAN
  /\ evicted' \subseteq Tokens \cup {MarkerKey}
  /\ \A t \in Tokens : t \in evicted => t \in evicted'
  /\ MarkerThere => MarkerThere'

LEMMA SameKeysStay ==
  ASSUME TypeOK, UNCHANGED <<marker, evicted>>
  PROVE  KeysStay
BY DEF TypeOK, KeysStay, MarkerThere

(* A step of the same instant that leaves the pairs of minted tokens and   *)
(* the keys of tokens alone takes nothing back.                            *)
LEMMA SameStoresGrow ==
  ASSUME TypeOK, now' = now, redis' = redis,
         \A i \in Pairs : pairs[i] # Unminted => pairs'[i] = pairs[i],
         \A t \in Tokens : revoked[t] # "no" => revoked'[t] # "no",
         KeysStay
  PROVE  Grows
<1>1. ASSUME NEW t \in Tokens, IsMinted(t), Covered(t)
      PROVE  Covered(t)'
  <2>1. t.pair \in Pairs /\ Exp(t)' = Exp(t)
    BY <1>1 DEF IsMinted, Tokens, Exp
  <2> QED
    BY <1>1, <2>1 DEF Covered, KeysStay
<1>2. now <= now'
  BY DEF TypeOK
<1> QED
  BY <1>1, <1>2 DEF Grows, KeysStay

(* What is left to a request of the tokens that it blacklists.             *)
LEMMA TodoType ==
  ASSUME NEW q \in Request, Shape(q), q.pc \in {"revoking", "remembering"}
  PROVE  /\ Head(q.todo) \in Tokens /\ IsMinted(Head(q.todo))
         /\ q.todo \in Seq(Tokens) /\ q.todo # << >>
<1>1. q.todo \in Seq(Tokens) /\ q.todo # << >>
  BY DEF Request, Shape
<1>2. Head(q.todo) = q.todo[1] /\ 1 \in 1..Len(q.todo)
  BY <1>1
<1>3. Head(q.todo) \in Tokens
  BY <1>1, <1>2
<1>4. IsMinted(q.todo[1])
  BY <1>2 DEF Shape
<1> QED
  BY <1>1, <1>2, <1>3, <1>4

LEMMA ShapeStays ==
  ASSUME Grows, NEW q \in Request, Shape(q)
  PROVE  Shape(q)'
<1>1. q.pc # "idle" => q.proc \in Procs /\ IsMinted(q.token)'
  BY MintedStays DEF Shape, IsMinted
<1>2. q.pc = "remembering" /\ ~q.lost => Covered(Head(q.todo))'
  <2>1. SUFFICES ASSUME q.pc = "remembering", ~q.lost
                 PROVE  Covered(Head(q.todo))'
    OBVIOUS
  <2>2. PICK t \in Tokens : t = Head(q.todo)
    BY <2>1, TodoType
  <2>3. IsMinted(t) /\ Covered(t)
    BY <2>1, <2>2, TodoType DEF Shape
  <2>4. Covered(t)'
    BY <2>3 DEF Grows
  <2> QED
    BY <2>2, <2>4
<1>3. q.new # NoPair =>
        /\ pairs'[q.new] # Unminted
        /\ pairs'[q.new].from = q.token.pair
        /\ q.pc = "answering" => revoked'[q.token] # "no"
  <2>1. SUFFICES ASSUME q.new # NoPair
                 PROVE  /\ pairs'[q.new] = pairs[q.new]
                        /\ q.pc = "answering" => revoked'[q.token] # "no"
    BY DEF Shape
  <2>2. q.token \in Tokens
    BY <2>1 DEF Shape, IsMinted
  <2> QED
    BY <2>1, <2>2 DEF Shape, Grows
<1>4. q.pc \in {"revoking", "remembering"} =>
        \A k \in 1..Len(q.todo) : IsMinted(q.todo[k])'
  BY MintedStays DEF Shape, IsMinted
<1> QED
  BY <1>1, <1>2, <1>3, <1>4 DEF Shape

LEMMA PastFactsStay ==
  ASSUME TypeOK, TypeOK', Grows, NEW q \in Request, Shape(q), Past(q)
  PROVE  Past(q)'
<1>1. CASE q.pc = "idle"
  BY <1>1 DEF Past, Grows, Inside
<1>2. CASE q.pc # "idle"
  <2>1. q.token \in Tokens /\ IsMinted(q.token)
    BY <1>2 DEF Shape, IsMinted
  <2>2. Covered(q.token) => Covered(q.token)'
    BY <2>1 DEF Grows
  <2>3. /\ now > Exp(q.token) => (now > Exp(q.token))'
        /\ now > Exp(q.token) - Second => (now > Exp(q.token) - Second)'
    BY <2>1, PastStays
  <2>4. MarkerThere => MarkerThere'
    BY DEF Grows
  <2> QED
    BY <2>2, <2>3, <2>4 DEF Past
<1> QED
  BY <1>1, <1>2

(* A step keeps what holds of the stores that it leaves alone.             *)
LEMMA TokensKept ==
  ASSUME Inv, TypeOK', Grows, UNCHANGED <<local, revoked, known>>
  PROVE  TokensMinted' /\ SharedCovered' /\ KnownCached'
<1>1. TokensMinted'
  <2>1. \A t \in Tokens : IsMinted(t) => IsMinted(t)'
    BY MintedStays
  <2>2. \A t : IsMinted(t) => t \in Tokens
    BY DEF IsMinted
  <2> QED
    BY <2>1, <2>2 DEF Inv, TokensMinted
<1>2. SharedCovered'
  BY DEF Inv, SharedCovered, TokensMinted, Grows
<1>3. KnownCached'
  <2>1. SUFFICES ASSUME NEW p \in Procs, NEW t \in known[p], t \notin local[p]
                 PROVE  (now > Exp(t))'
    BY DEF KnownCached
  <2>2. t \in Tokens /\ IsMinted(t) /\ now > Exp(t)
    BY <2>1 DEF Inv, TokensMinted, KnownCached, IsMinted
  <2> QED
    BY <2>2, PastStays DEF Inv
<1> QED
  BY <1>1, <1>2, <1>3

LEMMA HeldKept ==
  ASSUME Inv, Grows, UNCHANGED held
  PROVE  HeldMinted' /\ SpentBeforeReplaced'
<1>1. \A i \in held : i \in Pairs /\ pairs[i] # Unminted /\ pairs'[i] = pairs[i]
  BY DEF Inv, TypeOK, HeldMinted, Grows
<1>2. ASSUME NEW i \in held, pairs[i].from # Login
      PROVE  revoked'[[pair |-> pairs[i].from, kind |-> "refresh"]] # "no"
  <2>1. pairs[i] \in Minted
    BY <1>1 DEF Inv, TypeOK
  <2>2. [pair |-> pairs[i].from, kind |-> "refresh"] \in Tokens
    BY <1>2, <2>1 DEF Minted, Tokens, Kinds, Login
  <2> QED
    BY <1>2, <2>2 DEF Inv, SpentBeforeReplaced, Grows
<1> QED
  BY <1>1, <1>2 DEF HeldMinted, SpentBeforeReplaced

-----------------------------------------------------------------------------
(* Requests change one at a time. *)

LEMMA IdleFits == Idle \in Request /\ Shape(Idle) /\ Past(Idle)
BY ConstantsAssumption
   DEF Idle, Request, PCs, Inside, NoToken, Shape, Past

LEMMA AtRequest ==
  ASSUME Inv, NEW r \in Requests
  PROVE  req[r] \in Request /\ Shape(req[r]) /\ Past(req[r])
<1>1. PICK q \in Request : q = req[r]
  BY DEF Inv, TypeOK
<1>2. InFlight(q)
  BY <1>1 DEF InFlight
<1>3. Shape(q) /\ Past(q)
  BY <1>2 DEF Inv, RequestsInv
<1> QED
  BY <1>1, <1>3

LEMMA PutType ==
  ASSUME TypeOK, NEW r \in Requests, NEW q \in Request, Put(r, q)
  PROVE  req' \in [Requests -> Request]
BY DEF TypeOK, Put

LEMMA RequestsKept ==
  ASSUME Inv, TypeOK', Grows, NEW r \in Requests, NEW n \in Request,
         Put(r, n), Shape(n)', Past(n)'
  PROVE  RequestsInv'
<1>1. SUFFICES ASSUME NEW q \in Request, InFlight(q)'
               PROVE  Shape(q)' /\ Past(q)'
  BY DEF RequestsInv
<1>2. InFlight(q) \/ q = n
  BY <1>1 DEF InFlight, Put, Inv, TypeOK
<1>3. CASE InFlight(q)
  BY <1>3, ShapeStays, PastFactsStay DEF Inv, RequestsInv
<1> QED
  BY <1>2, <1>3

LEMMA RequestsUntouched ==
  ASSUME Inv, TypeOK', Grows,
         \A r \in Requests : req'[r] = req[r] \/ req'[r] = Idle
  PROVE  RequestsInv'
<1>1. SUFFICES ASSUME NEW q \in Request, InFlight(q)'
               PROVE  Shape(q)' /\ Past(q)'
  BY DEF RequestsInv
<1>2. Shape(q) /\ Past(q)
  BY <1>1, IdleFits DEF InFlight, Inv, RequestsInv
<1> QED
  BY <1>2, ShapeStays, PastFactsStay DEF Inv

(* A step of one request that changes no store of tokens, for a record     *)
(* that would have been right before the step already.                     *)
LEMMA QuietStep ==
  ASSUME Inv, NEW r \in Requests, NEW n \in Request,
         UNCHANGED <<now, pairs, held, local, redis, begun, revoked, known>>,
         Fault \/ UNCHANGED faults, KeysStay,
         Put(r, n), Shape(n), Past(n)
  PROVE  Inv'
<1>1. Grows
  BY SameStoresGrow DEF Inv
<1>2. TypeOK'
  <2>1. req' \in [Requests -> Request]
    BY PutType DEF Inv
  <2>2. faults' \in 0..MaxFaults
    BY ConstantsAssumption DEF Inv, TypeOK, Fault
  <2> QED
    BY <2>1, <2>2 DEF Inv, TypeOK, KeysStay
<1>3. Shape(n)' /\ Past(n)'
  BY <1>1, <1>2, ShapeStays, PastFactsStay DEF Inv
<1>4. RequestsInv'
  BY <1>1, <1>2, <1>3, RequestsKept
<1> QED
  BY <1>1, <1>2, <1>4, TokensKept, HeldKept DEF Inv

-----------------------------------------------------------------------------
(* Types. *)

LEMMA InitInv == Init => Inv
<1> SUFFICES ASSUME Init PROVE Inv
  OBVIOUS
<1>1. TypeOK
  <2>1. /\ now \in 0..MaxTime /\ faults \in 0..MaxFaults
        /\ begun \in 0..MaxBegun
    BY ConstantsAssumption DEF Init
  <2>2. marker \in BOOLEAN /\ evicted \subseteq Tokens \cup {MarkerKey}
    BY DEF Init
  <2>3. /\ pairs \in [Pairs -> Minted \cup {Unminted}]
        /\ redis \in [Tokens -> Int]
        /\ revoked \in [Tokens -> {"no", "known", "shared"}]
    BY DEF Init
  <2>4. /\ held \in SUBSET Pairs
        /\ local \in [Procs -> SUBSET Tokens]
        /\ known \in [Procs -> SUBSET Tokens]
    BY DEF Init
  <2>5. req \in [Requests -> Request]
    BY IdleFits DEF Init
  <2> QED
    BY <2>1, <2>2, <2>3, <2>4, <2>5 DEF TypeOK
<1>2. RequestsInv
  BY IdleFits DEF Init, RequestsInv, InFlight
<1> QED
  BY <1>1, <1>2
     DEF Init, Inv, TokensMinted, SharedCovered, KnownCached, HeldMinted,
         SpentBeforeReplaced

(* The records that the steps of a request leave behind.                   *)
LEMMA RecordTypes ==
  ASSUME NEW q \in Request
  PROVE  /\ \A pc \in PCs : [q EXCEPT !.pc = pc] \in Request
         /\ \A pc \in PCs, todo \in Seq(Tokens) :
              [q EXCEPT !.pc = pc, !.todo = todo] \in Request
         /\ \A pc \in PCs, i \in Pairs, todo \in Seq(Tokens) :
              [q EXCEPT !.pc = pc, !.new = i, !.todo = todo] \in Request
         /\ \A lost \in BOOLEAN : [q EXCEPT !.lost = lost] \in Request
         /\ \A blind \in BOOLEAN : [q EXCEPT !.blind = blind] \in Request
         /\ \A pc \in PCs, blind \in BOOLEAN :
              [q EXCEPT !.pc = pc, !.blind = blind] \in Request
BY DEF Request

LEMMA DoneType ==
  ASSUME NEW q \in Request, q.todo # << >>
  PROVE  Done(q) \in Request
<1>1. Tail(q.todo) \in Seq(Tokens) /\ << >> \in Seq(Tokens)
  BY DEF Request
<1>2. "revoking" \in PCs /\ "answering" \in PCs
  BY DEF PCs, Inside
<1>3. [q EXCEPT !.pc = "revoking", !.todo = Tail(@), !.lost = FALSE] \in Request
  BY <1>1, <1>2 DEF Request
<1>4. [q EXCEPT !.pc = "answering", !.todo = << >>, !.lost = FALSE] \in Request
  BY <1>1, <1>2 DEF Request
<1> QED
  BY <1>3, <1>4, IdleFits DEF Done

-----------------------------------------------------------------------------
(* The steps of a request that only change the request.                    *)

LEMMA AskTokenInv ==
  ASSUME Inv, NEW r \in Requests, AskToken(r)
  PROVE  Inv'
<1>1. PICK q \in Request : q = req[r] /\ Shape(q) /\ Past(q)
  BY AtRequest
<1> DEFINE on    == [q EXCEPT !.pc = AfterToken(q.token),
                              !.blind = q.token \in evicted]
           blind == [q EXCEPT !.pc = AfterToken(q.token), !.blind = TRUE]
<1>0. KeysStay
  BY SameKeysStay DEF AskToken, Inv
<1>2. /\ q.pc = "askingToken" /\ IsMinted(q.token) /\ q.token \in Tokens
      /\ q.new = NoPair
  BY <1>1 DEF AskToken, Shape, IsMinted
<1>3. AfterToken(q.token) \in {"loading", "askingUser"}
  BY DEF AfterToken
<1>4. on \in Request /\ blind \in Request
  <2>1. AfterToken(q.token) \in PCs
    BY <1>3 DEF PCs
  <2>2. (q.token \in evicted) \in BOOLEAN /\ TRUE \in BOOLEAN
    OBVIOUS
  <2> QED
    BY <2>1, <2>2, RecordTypes, Zenon
<1>5. CASE InRedis(q.token) /\ Put(r, Idle) /\ UNCHANGED faults
  BY <1>0, <1>5, QuietStep, IdleFits DEF AskToken
<1>6. CASE ~InRedis(q.token) /\ Put(r, on) /\ UNCHANGED faults
  <2>1. q.was = "shared" /\ q.token \notin evicted =>
          now > Exp(q.token) - Second
    <3>1. Exp(q.token) \in Nat /\ now \in Nat /\ redis[q.token] = -1
      BY <1>2, <1>6, ExpType DEF Inv, TypeOK, InRedis
    <3> QED
      BY <1>1, <1>2, <3>1, ConstantsAssumption DEF Past, Covered
  <2>2. Shape(on)
    BY <1>1, <1>2, <1>3 DEF Shape, AfterToken, Request, Tokens, Kinds, IsMinted
  <2>3. Past(on)
    BY <1>1, <1>2, <1>3, <2>1 DEF Past, Request, Inside
  <2> QED
    BY <1>0, <1>4, <1>6, <2>2, <2>3, QuietStep DEF AskToken
<1>7. CASE Fault /\ Put(r, blind)
  <2>1. Shape(blind)
    BY <1>1, <1>2, <1>3 DEF Shape, AfterToken, Request, Tokens, Kinds, IsMinted
  <2>2. Past(blind)
    BY <1>1, <1>2, <1>3 DEF Past, Request, Inside
  <2> QED
    BY <1>0, <1>4, <1>7, <2>1, <2>2, QuietStep DEF AskToken
<1> QED
  BY <1>1, <1>5, <1>6, <1>7 DEF AskToken

(* Wherever is_user_revoked lets a request go on to, its record is right.  *)
LEMMA EnterHandlerInv ==
  ASSUME Inv, NEW r \in Requests, NEW q \in Request,
         Shape(q), Past(q), q.pc = "askingUser", q.wasMarked => q.blind,
         EnterHandler(r, q),
         UNCHANGED <<now, pairs, held, local, redis, marker, begun, revoked,
                     known, evicted>>,
         Fault \/ UNCHANGED faults
  PROVE  Inv'
<1> DEFINE todoing(todo) == [q EXCEPT !.pc = "revoking", !.todo = todo]
           marking   == [q EXCEPT !.pc = "marking"]
           answering == [q EXCEPT !.pc = "answering"]
<1>1. /\ IsMinted(q.token) /\ q.token \in Tokens /\ q.token.kind = "access"
      /\ q.new = NoPair
  BY DEF Shape, IsMinted
<1>2. KeysStay
  BY SameKeysStay DEF Inv
<1>3. CASE Put(r, marking)
  <2>1. marking \in Request /\ Shape(marking) /\ Past(marking)
    BY <1>1 DEF Request, PCs, Inside, Shape, Past
  <2> QED
    BY <1>2, <1>3, <2>1, QuietStep
<1>4. CASE Put(r, answering)
  <2>1. answering \in Request /\ Shape(answering) /\ Past(answering)
    BY <1>1 DEF Request, PCs, Inside, Shape, Past
  <2> QED
    BY <1>2, <1>4, <2>1, QuietStep
<1>5. ASSUME NEW todo \in Seq(Tokens), todo # << >>,
             \A k \in 1..Len(todo) : IsMinted(todo[k]),
             Put(r, todoing(todo))
      PROVE  Inv'
  <2>1. /\ todoing(todo) \in Request
        /\ Shape(todoing(todo)) /\ Past(todoing(todo))
    BY <1>1, <1>5 DEF Request, PCs, Inside, Shape, Past
  <2> QED
    BY <1>2, <1>5, <2>1, QuietStep
<1>6. ASSUME NEW also \in {<< >>} \cup {<<[pair |-> i, kind |-> "refresh"]>> :
                                       i \in held},
             Put(r, todoing(<<q.token>> \o also))
      PROVE  Inv'
  <2>1. <<q.token>> \in Seq(Tokens)
    BY <1>1
  <2>2. CASE also = << >>
    <3>1. <<q.token>> \o also = <<q.token>>
      BY <2>2
    <3>2. /\ <<q.token>> # << >>
          /\ \A k \in 1..Len(<<q.token>>) : IsMinted(<<q.token>>[k])
      BY <1>1
    <3> QED
      BY <1>5, <1>6, <2>1, <3>1, <3>2
  <2>3. CASE \E i \in held : also = <<[pair |-> i, kind |-> "refresh"]>>
    <3>1. PICK t \in Tokens : also = <<t>> /\ IsMinted(t)
      BY <2>3 DEF Inv, TypeOK, HeldMinted, IsMinted, Tokens, Kinds
    <3>2. /\ <<q.token>> \o <<t>> \in Seq(Tokens)
          /\ Len(<<q.token>> \o <<t>>) = 2
          /\ (<<q.token>> \o <<t>>)[1] = q.token
          /\ (<<q.token>> \o <<t>>)[2] = t
      BY <1>1
    <3>3. /\ <<q.token>> \o <<t>> # << >>
          /\ \A k \in 1..Len(<<q.token>> \o <<t>>) :
                IsMinted((<<q.token>> \o <<t>>)[k])
      BY <1>1, <3>1, <3>2
    <3> QED
      BY <1>5, <1>6, <3>1, <3>2, <3>3
  <2> QED
    BY <1>6, <2>2, <2>3
<1> QED
  BY <1>3, <1>4, <1>6 DEF EnterHandler

LEMMA AskUserInv ==
  ASSUME Inv, NEW r \in Requests, AskUser(r)
  PROVE  Inv'
<1>1. PICK q \in Request : q = req[r] /\ Shape(q) /\ Past(q)
  BY AtRequest
<1> DEFINE blind == [q EXCEPT !.blind = TRUE]
           on    == [q EXCEPT !.blind = @ \/ MarkerKey \in evicted]
<1>2. q.pc = "askingUser"
  BY <1>1 DEF AskUser
<1>3. CASE Put(r, Idle) /\ UNCHANGED faults
  <2>1. KeysStay
    BY SameKeysStay DEF AskUser, Inv
  <2> QED
    BY <1>3, <2>1, QuietStep, IdleFits DEF AskUser
<1>4. CASE ~marker /\ EnterHandler(r, on) /\ UNCHANGED faults
  <2>1. on \in Request /\ Shape(on) /\ Past(on)
    BY <1>1, <1>2 DEF Request, Shape, Past, Inside
  <2>2. on.pc = "askingUser" /\ (on.wasMarked => on.blind)
    BY <1>1, <1>2, <1>4 DEF Request, Past, MarkerThere
  <2> QED
    BY <1>4, <2>1, <2>2, EnterHandlerInv DEF AskUser
<1>5. CASE Fault /\ EnterHandler(r, blind)
  <2>1. blind \in Request /\ Shape(blind) /\ Past(blind)
    BY <1>1, <1>2 DEF Request, Shape, Past, Inside
  <2>2. blind.pc = "askingUser" /\ blind.blind
    BY <1>2 DEF Request
  <2> QED
    BY <1>5, <2>1, <2>2, EnterHandlerInv DEF AskUser
<1> QED
  BY <1>1, <1>3, <1>4, <1>5 DEF AskUser

(* logout goes on with its next token or is over.                          *)
LEMMA DoneFits ==
  ASSUME NEW q \in Request, Shape(q), Past(q), q.token.kind = "access",
         q.pc \in {"revoking", "remembering"}
  PROVE  Done(q) \in Request /\ Shape(Done(q)) /\ Past(Done(q))
<1>1. q.todo \in Seq(Tokens) /\ q.todo # << >> /\ Done(q) \in Request
  BY TodoType, DoneType DEF Shape
<1> DEFINE next == [q EXCEPT !.pc = "revoking", !.todo = Tail(q.todo),
                             !.lost = FALSE]
<1>2. CASE Tail(q.todo) # << >>
  <2>1. Done(q) = next
    BY <1>2 DEF Done
  <2>2. /\ next.pc = "revoking" /\ next.todo = Tail(q.todo)
        /\ next.token = q.token /\ next.new = q.new /\ next.proc = q.proc
        /\ next.blind = q.blind /\ next.was = q.was
        /\ next.wasSpent = q.wasSpent
        /\ next.wasKnown = q.wasKnown /\ next.wasMarked = q.wasMarked
    BY DEF Request
  <2>3. \A k \in 1..Len(Tail(q.todo)) : IsMinted(Tail(q.todo)[k])
    BY <1>1 DEF Shape
  <2>4. Shape(next)
    BY <1>2, <2>2, <2>3 DEF Shape
  <2>5. Past(next)
    BY <2>2 DEF Past, Inside
  <2> QED
    BY <1>1, <2>1, <2>4, <2>5
<1>3. CASE Tail(q.todo) = << >>
  BY <1>3, IdleFits DEF Done
<1> QED
  BY <1>2, <1>3

LEMMA SkipExpiredInv ==
  ASSUME Inv, NEW r \in Requests, SkipExpired(r)
  PROVE  Inv'
<1>1. PICK q \in Request : q = req[r] /\ Shape(q) /\ Past(q)
  BY AtRequest
<1>2. q.pc = "revoking" /\ q.token.kind = "access" /\ Put(r, Done(q))
  BY <1>1 DEF SkipExpired
<1>3. Done(q) \in Request /\ Shape(Done(q)) /\ Past(Done(q))
  BY <1>1, <1>2, DoneFits
<1>4. KeysStay
  BY SameKeysStay DEF SkipExpired, Inv
<1> QED
  BY <1>2, <1>3, <1>4, QuietStep DEF SkipExpired

LEMMA RevokeAllInv ==
  ASSUME Inv, NEW r \in Requests, RevokeAll(r)
  PROVE  Inv'
<1>1. KeysStay
  <2>1. CASE Mark
    BY <2>1, ConstantsAssumption
       DEF Mark, KeysStay, Inv, TypeOK, MarkerThere, MarkerKey, NoToken, Tokens
  <2>2. CASE UNCHANGED <<marker, evicted>>
    BY <2>2, SameKeysStay DEF Inv
  <2> QED
    BY <2>1, <2>2 DEF RevokeAll
<1> QED
  BY <1>1, QuietStep, IdleFits DEF RevokeAll

LEMMA AbortInv ==
  ASSUME Inv, NEW r \in Requests, Abort(r)
  PROVE  Inv'
<1>1. KeysStay
  BY SameKeysStay DEF Abort, Inv
<1> QED
  BY <1>1, QuietStep, IdleFits DEF Abort

-----------------------------------------------------------------------------
(* The steps that change time, tokens or stores.                           *)

LEMMA TickInv ==
  ASSUME Inv, Tick
  PROVE  Inv'
<1>1. now \in Nat /\ now' = now + 1 /\ now' \in 0..MaxTime
  BY ConstantsAssumption DEF Inv, TypeOK, Tick
<1>2. TypeOK'
  <2>1. redis' \in [Tokens -> Int]
    BY DEF Inv, TypeOK, Tick
  <2> QED
    BY <1>1, <2>1 DEF Inv, TypeOK, Tick
<1>3. ASSUME NEW t \in Tokens, IsMinted(t), Covered(t)
      PROVE  Covered(t)'
  <2>1. Exp(t) \in Nat /\ Exp(t)' = Exp(t) /\ Second \in Nat
    BY <1>3, ExpType, ConstantsAssumption DEF Inv, Tick, Exp
  <2>2. /\ redis[t] \in Int
        /\ redis'[t] = IF redis[t] < now' THEN -1 ELSE redis[t]
    BY DEF Inv, TypeOK, Tick
  <2> QED
    BY <1>1, <1>3, <2>1, <2>2 DEF Covered, Tick
<1>4. Grows
  BY <1>1, <1>3 DEF Grows, Tick, MarkerThere
<1>5. RequestsInv'
  BY <1>2, <1>4, RequestsUntouched DEF Tick
<1> QED
  BY <1>2, <1>4, <1>5, TokensKept, HeldKept DEF Inv, Tick

(* A new pair is minted now, and no other pair changes.                    *)
LEMMA MintType ==
  ASSUME TypeOK, NEW i \in Pairs, NEW from \in Pairs \cup {Login},
         Mint(i, from)
  PROVE  /\ pairs' \in [Pairs -> Minted \cup {Unminted}]
         /\ \A j \in Pairs : pairs[j] # Unminted => pairs'[j] = pairs[j]
         /\ pairs'[i] # Unminted /\ pairs'[i].from = from
<1>1. now \in Nat /\ now <= MaxTime
  BY DEF TypeOK
<1>2. Floor(now) \in Nat /\ Floor(now) <= now
  BY <1>1, FloorBounds
<1>3. Floor(now) \in 0..MaxTime
  BY <1>1, <1>2, ConstantsAssumption
<1>4. [at |-> Floor(now), from |-> from] \in Minted
  BY <1>3 DEF Minted
<1>5. /\ pairs'[i] = [at |-> Floor(now), from |-> from]
      /\ \A j \in Pairs \ {i} : pairs'[j] = pairs[j]
      /\ pairs[i] = Unminted
      /\ pairs' \in [Pairs -> Minted \cup {Unminted}]
  BY <1>4 DEF Mint, TypeOK
<1>6. pairs'[i].at # Unminted.at
  BY <1>2, <1>5 DEF Unminted
<1> QED
  BY <1>5, <1>6

LEMMA IssueTokensInv ==
  ASSUME Inv, NEW i \in Pairs, IssueTokens(i)
  PROVE  Inv'
<1>1. /\ pairs' \in [Pairs -> Minted \cup {Unminted}]
      /\ \A j \in Pairs : pairs[j] # Unminted => pairs'[j] = pairs[j]
      /\ pairs'[i] # Unminted /\ pairs'[i].from = Login
  BY MintType DEF IssueTokens, Inv, Login
<1>2. TypeOK'
  BY <1>1 DEF Inv, TypeOK, IssueTokens
<1>3. Grows
  BY <1>1, SameStoresGrow, SameKeysStay DEF Inv, IssueTokens
<1>4. HeldMinted' /\ SpentBeforeReplaced'
  BY <1>1 DEF Inv, TypeOK, HeldMinted, SpentBeforeReplaced, IssueTokens
<1>5. RequestsInv'
  BY <1>2, <1>3, RequestsUntouched DEF IssueTokens
<1> QED
  BY <1>2, <1>3, <1>4, <1>5, TokensKept DEF Inv, IssueTokens

LEMMA AnswerInv ==
  ASSUME Inv, NEW r \in Requests, Answer(r)
  PROVE  Inv'
<1>1. PICK q \in Request : q = req[r] /\ Shape(q) /\ Past(q)
  BY AtRequest
<1>2. Grows
  BY SameStoresGrow, SameKeysStay DEF Inv, Answer
<1>3. TypeOK'
  <2>1. req' \in [Requests -> Request]
    BY PutType, IdleFits DEF Inv, Answer
  <2>2. held' \in SUBSET Pairs
    BY <1>1 DEF Inv, TypeOK, Answer, Shape
  <2> QED
    BY <2>1, <2>2 DEF Inv, TypeOK, Answer
<1>4. RequestsInv'
  BY <1>2, <1>3, RequestsUntouched DEF Answer, Put, Inv, TypeOK
<1>5. HeldMinted' /\ SpentBeforeReplaced'
  <2>1. CASE q.new = NoPair
    <3>1. held' = held
      BY <1>1, <2>1 DEF Answer
    <3> QED
      BY <1>2, <3>1, HeldKept
  <2>2. CASE q.new # NoPair
    <3>1. /\ q.pc = "answering" /\ held' = held \cup {q.new}
          /\ UNCHANGED <<pairs, revoked>>
      BY <1>1, <2>2 DEF Answer
    <3>2. /\ pairs[q.new] # Unminted /\ pairs[q.new].from = q.token.pair
          /\ q.token \in Tokens /\ q.token.kind = "refresh"
          /\ revoked[q.token] # "no"
      BY <1>1, <2>2, <3>1 DEF Shape, IsMinted
    <3>3. q.token = [pair |-> pairs[q.new].from, kind |-> "refresh"]
      BY <3>2 DEF Tokens
    <3> QED
      BY <3>1, <3>2, <3>3 DEF Inv, HeldMinted, SpentBeforeReplaced
  <2> QED
    BY <2>1, <2>2
<1> QED
  BY <1>2, <1>3, <1>4, <1>5, TokensKept DEF Inv, Answer

LEMMA BeginInv ==
  ASSUME Inv, NEW r \in Requests, NEW p \in Procs, NEW t \in Tokens,
         Begin(r, p, t)
  PROVE  Inv'
<1> DEFINE cached == t \in local[p]
           n == [Idle EXCEPT
                   !.pc = IF cached THEN AfterToken(t) ELSE "askingToken",
                   !.proc = p, !.token = t,
                   !.was = revoked[t], !.wasKnown = t \in known[p],
                   !.wasMarked = marker, !.wasSpent = Spent(t)]
<1>1. /\ IsMinted(t) /\ Put(r, n)
      /\ cached => now > Exp(t)
      /\ local' = [local EXCEPT ![p] = IF cached THEN @ \ {t} ELSE @]
  <2>1. cached => now > Exp(t)
    <3>1. Exp(t) \in Nat /\ now \in Nat
      BY ExpType DEF Inv, TypeOK, Begin, HeldMinted, IsMinted
    <3> QED
      BY <3>1 DEF Begin
  <2>2. IsMinted(t)
    BY DEF Inv, HeldMinted, IsMinted, Begin
  <2> QED
    BY <2>1, <2>2 DEF Begin
<1>2. AfterToken(t) \in {"loading", "askingUser"}
  BY DEF AfterToken
<1>3. n \in Request
  <2>1. ASSUME NEW pc \in PCs, NEW was \in {"no", "known", "shared"},
               NEW ours \in BOOLEAN, NEW marked \in BOOLEAN,
               NEW spent \in BOOLEAN
        PROVE  [Idle EXCEPT !.pc = pc, !.proc = p, !.token = t,
                            !.was = was, !.wasKnown = ours,
                            !.wasMarked = marked, !.wasSpent = spent]
                 \in Request
    BY IdleFits DEF Request
  <2>2. (IF cached THEN AfterToken(t) ELSE "askingToken") \in PCs
    BY <1>2 DEF PCs
  <2>3. /\ revoked[t] \in {"no", "known", "shared"}
        /\ (t \in known[p]) \in BOOLEAN /\ Spent(t) \in BOOLEAN
    BY DEF Inv, TypeOK, Spent
  <2>4. marker \in BOOLEAN
    BY DEF Inv, TypeOK
  <2> QED
    BY <2>1, <2>2, <2>3, <2>4, ZenonT(60)
<1>4. Shape(n)
  BY <1>1, <1>2 DEF Shape, Idle, AfterToken, Tokens, Kinds
<1>5. Past(n)
  <2>1. revoked[t] = "shared" => Covered(t)
    BY DEF Inv, SharedCovered
  <2>2. t \in known[p] => now > Exp(t)
    BY <1>1 DEF Inv, KnownCached
  <2>3. now > Exp(t) => now > Exp(t) - Second
    <3>1. Exp(t) \in Nat /\ now \in Nat
      BY <1>1, ExpType DEF Inv, TypeOK
    <3> QED
      BY <3>1, ConstantsAssumption
  <2>4. Spent(t) => revoked[t] # "no"
    <3>1. SUFFICES ASSUME NEW i \in held, pairs[i].from = t.pair,
                          t.kind = "refresh"
                   PROVE  revoked[t] # "no"
      BY DEF Spent
    <3>2. t.pair # Login /\ t = [pair |-> pairs[i].from, kind |-> "refresh"]
      BY <3>1, ConstantsAssumption DEF Tokens, Login
    <3> QED
      BY <3>1, <3>2 DEF Inv, SpentBeforeReplaced
  <2> QED
    BY <1>1, <1>2, <2>1, <2>2, <2>3, <2>4 DEF Past, Idle, Inside, MarkerThere
<1>6. Grows
  BY SameStoresGrow, SameKeysStay DEF Inv, Begin
<1>7. TypeOK'
  <2>1. req' \in [Requests -> Request]
    BY <1>1, <1>3, PutType DEF Inv
  <2>2. local' \in [Procs -> SUBSET Tokens]
    BY <1>1 DEF Inv, TypeOK
  <2>3. begun' \in 0..MaxBegun
    BY ConstantsAssumption DEF Inv, TypeOK, Begin
  <2> QED
    BY <2>1, <2>2, <2>3 DEF Inv, TypeOK, Begin
<1>8. RequestsInv'
  <2>1. PICK m \in Request : m = n
    BY <1>3
  <2>2. Shape(m) /\ Past(m) /\ Put(r, m)
    BY <1>1, <1>4, <1>5, <2>1
  <2>3. Shape(m)' /\ Past(m)'
    BY <1>6, <1>7, <2>2, ShapeStays, PastFactsStay DEF Inv
  <2> QED
    BY <1>6, <1>7, <2>2, <2>3, RequestsKept
<1>9. TokensMinted' /\ SharedCovered' /\ KnownCached'
  <2>1. UNCHANGED <<now, pairs, redis, revoked, known>>
    BY DEF Begin
  <2>2. /\ local'[p] \subseteq local[p]
        /\ \A s \in local[p] \ local'[p] : now > Exp(s)
        /\ \A o \in Procs \ {p} : local'[o] = local[o]
    BY <1>1 DEF Inv, TypeOK
  <2>3. TokensMinted'
    BY <2>1, <2>2 DEF Inv, TypeOK, TokensMinted, IsMinted
  <2>4. SharedCovered'
    BY <2>1 DEF Inv, SharedCovered, Covered, Exp, Begin
  <2>5. KnownCached'
    BY <2>1, <2>2 DEF Inv, TypeOK, KnownCached, Exp
  <2> QED
    BY <2>3, <2>4, <2>5
<1> QED
  BY <1>6, <1>7, <1>8, <1>9, HeldKept DEF Inv, Begin

LEMMA RestartInv ==
  ASSUME Inv, NEW p \in Procs, Restart(p)
  PROVE  Inv'
<1>1. Grows
  BY SameStoresGrow, SameKeysStay DEF Inv, Restart
<1>2. TypeOK'
  <2>1. req' \in [Requests -> Request]
    BY IdleFits DEF Inv, TypeOK, Restart
  <2>2. faults' \in 0..MaxFaults
    BY ConstantsAssumption DEF Inv, TypeOK, Restart, Fault
  <2>3. /\ local' \in [Procs -> SUBSET Tokens]
        /\ known' \in [Procs -> SUBSET Tokens]
    BY DEF Inv, TypeOK, Restart
  <2> QED
    BY <2>1, <2>2, <2>3 DEF Inv, TypeOK, Restart
<1>3. RequestsInv'
  BY <1>1, <1>2, RequestsUntouched DEF Restart
<1>4. TokensMinted'
  BY DEF Inv, TypeOK, TokensMinted, IsMinted, Restart
<1>5. SharedCovered' /\ KnownCached'
  BY DEF Inv, TypeOK, SharedCovered, KnownCached, Covered, Exp, Restart
<1> QED
  BY <1>1, <1>2, <1>3, <1>4, <1>5, HeldKept DEF Inv, Restart

LEMMA ExchangeInv ==
  ASSUME Inv, NEW r \in Requests, NEW i \in Pairs, Exchange(r, i)
  PROVE  Inv'
<1>1. PICK q \in Request : q = req[r] /\ Shape(q) /\ Past(q)
  BY AtRequest
<1>2. PICK n : n = [q EXCEPT !.pc = "revoking", !.new = i, !.todo = <<q.token>>]
  OBVIOUS
<1>3. /\ q.pc = "loading" /\ IsMinted(q.token) /\ q.token \in Tokens
      /\ q.token.kind = "refresh" /\ q.token.pair \in Pairs
  BY <1>1 DEF Exchange, Shape, IsMinted, Tokens
<1>4. n \in Request /\ Put(r, n)
  <2>1. <<q.token>> \in Seq(Tokens) /\ "revoking" \in PCs
    BY <1>3 DEF PCs, Inside
  <2>2. n \in Request
    BY <1>2, <2>1, RecordTypes
  <2>3. Put(r, n)
    BY <1>1, <1>2 DEF Exchange
  <2> QED
    BY <2>2, <2>3
<1>5. /\ pairs' \in [Pairs -> Minted \cup {Unminted}]
      /\ \A j \in Pairs : pairs[j] # Unminted => pairs'[j] = pairs[j]
      /\ pairs'[i] # Unminted /\ pairs'[i].from = q.token.pair
  BY <1>1, <1>3, MintType DEF Exchange, Inv
<1>6. Grows
  BY <1>5, SameStoresGrow, SameKeysStay DEF Inv, Exchange
<1>7. TypeOK'
  <2>1. req' \in [Requests -> Request]
    BY <1>4, PutType DEF Inv
  <2> QED
    BY <1>5, <2>1 DEF Inv, TypeOK, Exchange
<1>8. Shape(n)'
  <2>1. /\ n.pc = "revoking" /\ n.new = i /\ n.todo = <<q.token>>
        /\ n.token = q.token /\ n.proc = q.proc
    BY <1>2 DEF Request
  <2>2. n.proc \in Procs /\ IsMinted(n.token)'
    BY <1>1, <1>3, <1>6, <2>1, MintedStays DEF Shape
  <2> QED
    BY <1>3, <1>5, <2>1, <2>2 DEF Shape
<1>9. Past(n)'
  <2>1. Past(n)
    BY <1>1, <1>2, <1>3 DEF Past, Request, Inside
  <2>2. /\ UNCHANGED <<now, marker, redis, evicted>>
        /\ Exp(q.token)' = Exp(q.token)
    BY <1>3, <1>6, MintedStays DEF Exchange
  <2>3. n.token = q.token /\ n.pc = "revoking"
    BY <1>2 DEF Request
  <2> QED
    BY <2>1, <2>2, <2>3 DEF Past, MarkerThere, Covered
<1>10. RequestsInv'
  BY <1>4, <1>6, <1>7, <1>8, <1>9, RequestsKept
<1> QED
  BY <1>6, <1>7, <1>10, TokensKept, HeldKept DEF Inv, Exchange

LEMMA WriteRedisInv ==
  ASSUME Inv, NEW r \in Requests, WriteRedis(r)
  PROVE  Inv'
<1>1. PICK q \in Request : q = req[r] /\ Shape(q) /\ Past(q)
  BY AtRequest
<1>2. q.pc = "revoking"
  BY <1>1 DEF WriteRedis
<1>3. PICK t \in Tokens : t = Head(q.todo) /\ IsMinted(t)
  BY <1>1, <1>2, TodoType
<1>4. /\ TTL(t) \in Nat
      /\ TTL(t) > 0 => now + TTL(t) > Exp(t) - Second
      /\ TTL(t) = 0 => now > Exp(t) - Second
  BY <1>3, TTLCovers DEF Inv
<1>5. UNCHANGED <<now, pairs, held, local, marker, begun, revoked, known>>
  BY DEF WriteRedis
<1>6. \/ UNCHANGED <<redis, evicted>>
      \/ /\ TTL(t) > 0 /\ redis' = [redis EXCEPT ![t] = now + TTL(t)]
         /\ evicted' = evicted \ {t}
  BY <1>1, <1>3 DEF WriteRedis, Store
<1>7. ASSUME NEW s \in Tokens, Covered(s)
      PROVE  Covered(s)'
  <2>1. \/ redis'[s] = redis[s] /\ (s \in evicted => s \in evicted')
        \/ s = t /\ TTL(t) > 0 /\ redis'[s] = now + TTL(t)
    BY <1>6 DEF Inv, TypeOK
  <2>2. Exp(s)' = Exp(s)
    BY <1>5 DEF Exp
  <2> QED
    BY <1>4, <1>5, <1>7, <2>1, <2>2 DEF Covered
<1>8. Grows
  <2>1. MarkerThere => MarkerThere'
    BY <1>5, <1>6, ConstantsAssumption
       DEF MarkerThere, MarkerKey, NoToken, Tokens
  <2> QED
    BY <1>5, <1>7, <2>1 DEF Grows, Inv, TypeOK
<1>9. PICK n :
        /\ Put(r, n)
        /\ \/ n = [q EXCEPT !.pc = "remembering", !.lost = TRUE]
           \/ /\ n = [q EXCEPT !.pc = "remembering"]
              /\ Store(t)
  BY <1>1, <1>3 DEF WriteRedis
<1>10. /\ n \in Request /\ n.pc = "remembering"
       /\ n.todo = q.todo /\ n.token = q.token /\ n.new = q.new
       /\ n.proc = q.proc /\ n.blind = q.blind /\ n.was = q.was
       /\ n.wasSpent = q.wasSpent
       /\ n.wasKnown = q.wasKnown /\ n.wasMarked = q.wasMarked
  BY <1>9 DEF Request, PCs, Inside
<1>11. TypeOK'
  <2>1. req' \in [Requests -> Request]
    BY <1>9, <1>10, PutType DEF Inv
  <2>2. redis' \in [Tokens -> Int]
    <3>1. now + TTL(t) \in Int
      BY <1>4 DEF Inv, TypeOK
    <3> QED
      BY <1>6, <3>1 DEF Inv, TypeOK
  <2>3. faults' \in 0..MaxFaults
    BY ConstantsAssumption DEF Inv, TypeOK, Fault, WriteRedis
  <2>4. evicted' \subseteq Tokens \cup {MarkerKey}
    BY <1>6 DEF Inv, TypeOK
  <2> QED
    BY <1>5, <2>1, <2>2, <2>3, <2>4 DEF Inv, TypeOK
<1>12. ~n.lost => Covered(t)'
  <2>1. SUFFICES ASSUME ~n.lost PROVE Covered(t)'
    OBVIOUS
  <2>2. Store(t)
    BY <1>9, <2>1 DEF Request
  <2>3. Exp(t)' = Exp(t) /\ now' = now
    BY <1>5 DEF Exp
  <2>4. CASE TTL(t) > 0
    <3>1. redis'[t] = now + TTL(t)
      BY <2>2, <2>4 DEF Inv, TypeOK, Store
    <3> QED
      BY <1>4, <2>3, <2>4, <3>1 DEF Covered
  <2>5. CASE TTL(t) = 0
    BY <1>4, <2>3, <2>5 DEF Covered
  <2> QED
    BY <1>4, <2>4, <2>5
<1>13. Shape(n)'
  <2>1. Shape(q)'
    BY <1>1, <1>8, ShapeStays
  <2> QED
    BY <1>2, <1>3, <1>10, <1>12, <2>1 DEF Shape
<1>14. Past(n)'
  <2>1. Past(q)'
    BY <1>1, <1>8, <1>11, PastFactsStay DEF Inv
  <2> QED
    BY <1>2, <1>10, <2>1 DEF Past, Inside
<1>15. RequestsInv'
  BY <1>8, <1>9, <1>10, <1>11, <1>13, <1>14, RequestsKept
<1> QED
  BY <1>5, <1>8, <1>11, <1>15, TokensKept, HeldKept DEF Inv

LEMMA RememberInv ==
  ASSUME Inv, NEW r \in Requests, Remember(r)
  PROVE  Inv'
<1>1. PICK q \in Request : q = req[r] /\ Shape(q) /\ Past(q)
  BY AtRequest
<1>2. q.pc = "remembering" /\ q.proc \in Procs
  BY <1>1 DEF Remember, Shape
<1>3. PICK t \in Tokens : t = Head(q.todo) /\ IsMinted(t)
  BY <1>1, <1>2, TodoType
<1>4. /\ local' = [local EXCEPT ![q.proc] = @ \cup {t}]
      /\ known' = [known EXCEPT ![q.proc] = @ \cup {t}]
      /\ revoked' = [revoked EXCEPT ![t] =
                       IF q.lost /\ @ # "shared" THEN "known" ELSE "shared"]
      /\ Put(r, Done(q))
      /\ UNCHANGED <<now, pairs, held, redis, marker, faults, begun, evicted>>
  BY <1>1, <1>3 DEF Remember
<1>5. /\ revoked'[t] \in {"known", "shared"}
      /\ revoked'[t] = "shared" => ~q.lost \/ revoked[t] = "shared"
      /\ \A s \in Tokens \ {t} : revoked'[s] = revoked[s]
      /\ revoked' \in [Tokens -> {"no", "known", "shared"}]
  BY <1>4 DEF Inv, TypeOK
<1>6. Grows
  BY <1>4, <1>5, SameStoresGrow, SameKeysStay DEF Inv
<1>7. Done(q) \in Request
  BY <1>1, <1>2, TodoType, DoneType
<1>8. TypeOK'
  <2>1. req' \in [Requests -> Request]
    BY <1>4, <1>7, PutType DEF Inv
  <2>2. /\ local' \in [Procs -> SUBSET Tokens]
        /\ known' \in [Procs -> SUBSET Tokens]
    BY <1>4 DEF Inv, TypeOK
  <2> QED
    BY <1>4, <1>5, <2>1, <2>2 DEF Inv, TypeOK
<1>9. PICK n \in Request : n = Done(q)
  BY <1>7
<1>10. Shape(n)' /\ Past(n)'
  <2>1. CASE q.token.kind = "access"
    <3>1. Shape(n) /\ Past(n)
      BY <1>1, <1>2, <1>9, <2>1, DoneFits
    <3> QED
      BY <1>6, <1>8, <3>1, ShapeStays, PastFactsStay DEF Inv
  <2>2. CASE q.token.kind # "access"
    <3>1. /\ q.token \in Tokens /\ q.token.kind = "refresh"
          /\ q.todo = <<q.token>> /\ t = q.token
      BY <1>1, <1>2, <1>3, <2>2 DEF Shape, IsMinted, Tokens, Kinds
    <3>2. n = [q EXCEPT !.pc = "answering", !.todo = << >>, !.lost = FALSE]
      BY <1>9, <3>1 DEF Done
    <3>3. /\ n.pc = "answering" /\ n.token = q.token /\ n.new = q.new
          /\ n.proc = q.proc /\ n.blind = q.blind
          /\ n.was = q.was /\ n.wasSpent = q.wasSpent
          /\ n.wasKnown = q.wasKnown /\ n.wasMarked = q.wasMarked
      BY <3>2 DEF Request
    <3>4. Shape(q)' /\ Past(q)'
      BY <1>1, <1>6, <1>8, ShapeStays, PastFactsStay DEF Inv
    <3>5. Shape(n)'
      BY <1>2, <1>5, <3>1, <3>3, <3>4 DEF Shape
    <3>6. Past(n)'
      BY <1>2, <3>3, <3>4 DEF Past, Inside
    <3> QED
      BY <3>5, <3>6
  <2> QED
    BY <2>1, <2>2
<1>11. RequestsInv'
  BY <1>4, <1>6, <1>8, <1>9, <1>10, RequestsKept
<1>12. TokensMinted'
  <2>1. \A s \in Tokens : IsMinted(s) => IsMinted(s)'
    BY <1>6, MintedStays
  <2>2. \A s : IsMinted(s) => s \in Tokens
    BY DEF IsMinted
  <2>3. \A p \in Procs : \A s \in local'[p] \cup known'[p] : IsMinted(s)
    BY <1>2, <1>3, <1>4 DEF Inv, TypeOK, TokensMinted
  <2>4. \A s \in Tokens : revoked'[s] # "no" => IsMinted(s)
    BY <1>3, <1>5 DEF Inv, TokensMinted
  <2> QED
    BY <2>1, <2>2, <2>3, <2>4 DEF TokensMinted
<1>13. SharedCovered'
  <2>1. ASSUME NEW s \in Tokens, revoked'[s] = "shared"
        PROVE  Covered(s)
    BY <1>1, <1>2, <1>3, <1>5, <2>1 DEF Inv, SharedCovered, Shape
  <2> QED
    BY <1>4, <2>1 DEF SharedCovered, Covered, Exp
<1>14. KnownCached'
  BY <1>2, <1>4 DEF Inv, TypeOK, KnownCached, Exp
<1> QED
  BY <1>4, <1>6, <1>8, <1>11, <1>12, <1>13, <1>14, HeldKept DEF Inv

(* Redis evicts a key, and the history notes it.                           *)
LEMMA EvictInv ==
  ASSUME Inv, NEW key \in Tokens \cup {MarkerKey}, Evict(key)
  PROVE  Inv'
<1>1. /\ UNCHANGED <<now, pairs, held, local, req, begun, revoked, known>>
      /\ evicted' = evicted \cup {key}
  BY DEF Evict
<1>2. /\ redis' \in [Tokens -> Int]
      /\ \A t \in Tokens \ {key} : redis'[t] = redis[t]
      /\ marker' \in BOOLEAN
      /\ marker => marker' \/ key = MarkerKey
  <2>1. redis \in [Tokens -> Int] /\ marker \in BOOLEAN
    BY DEF Inv, TypeOK
  <2>2. CASE key \in Tokens /\ redis' = [redis EXCEPT ![key] = -1] /\ marker' = marker
    BY <2>1, <2>2
  <2>3. CASE key = MarkerKey /\ marker' = FALSE /\ redis' = redis
    BY <2>1, <2>3
  <2> QED
    BY <2>2, <2>3 DEF Evict
<1>3. TypeOK'
  <2>1. faults' \in 0..MaxFaults
    BY ConstantsAssumption DEF Inv, TypeOK, Evict, Fault
  <2> QED
    BY <1>1, <1>2, <2>1 DEF Inv, TypeOK
<1>4. Grows
  <2>1. ASSUME NEW t \in Tokens, Covered(t)
        PROVE  Covered(t)'
    BY <1>1, <1>2, <2>1 DEF Covered, Exp
  <2>2. MarkerThere => MarkerThere'
    BY <1>1, <1>2 DEF MarkerThere
  <2>3. now <= now'
    BY <1>1 DEF Inv, TypeOK
  <2> QED
    BY <1>1, <2>1, <2>2, <2>3 DEF Grows
<1>5. RequestsInv'
  BY <1>1, <1>3, <1>4, RequestsUntouched
<1> QED
  BY <1>1, <1>3, <1>4, <1>5, TokensKept, HeldKept DEF Inv

-----------------------------------------------------------------------------
LEMMA StutterInv ==
  ASSUME Inv, UNCHANGED vars
  PROVE  Inv'
<1>1. Grows
  BY SameStoresGrow, SameKeysStay DEF Inv, vars
<1>2. TypeOK'
  BY DEF Inv, TypeOK, vars
<1>3. RequestsInv'
  BY <1>1, <1>2, RequestsUntouched DEF vars
<1> QED
  BY <1>1, <1>2, <1>3, TokensKept, HeldKept DEF Inv, vars

LEMMA NextInv == Inv /\ [Next]_vars => Inv'
<1> SUFFICES ASSUME Inv, [Next]_vars PROVE Inv'
  OBVIOUS
<1>1. CASE Tick
  BY <1>1, TickInv
<1>2. ASSUME NEW i \in Pairs, IssueTokens(i) PROVE Inv'
  BY <1>2, IssueTokensInv
<1>3. ASSUME NEW r \in Requests, Step(r) PROVE Inv'
  <2>1. ASSUME NEW p \in Procs, NEW t \in Tokens, Begin(r, p, t) PROVE Inv'
    BY <2>1, BeginInv
  <2>2. CASE AskToken(r)
    BY <2>2, AskTokenInv
  <2>3. CASE AskUser(r)
    BY <2>3, AskUserInv
  <2>4. ASSUME NEW i \in Pairs, Exchange(r, i) PROVE Inv'
    BY <2>4, ExchangeInv
  <2>5. CASE SkipExpired(r)
    BY <2>5, SkipExpiredInv
  <2>6. CASE WriteRedis(r)
    BY <2>6, WriteRedisInv
  <2>7. CASE Remember(r)
    BY <2>7, RememberInv
  <2>8. CASE RevokeAll(r)
    BY <2>8, RevokeAllInv
  <2>9. CASE Answer(r)
    BY <2>9, AnswerInv
  <2>10. CASE Abort(r)
    BY <2>10, AbortInv
  <2> QED
    BY <1>3, <2>1, <2>2, <2>3, <2>4, <2>5, <2>6, <2>7, <2>8, <2>9, <2>10
       DEF Step
<1>4. ASSUME NEW p \in Procs, Restart(p) PROVE Inv'
  BY <1>4, RestartInv
<1>5. ASSUME NEW key \in Tokens \cup {MarkerKey}, Evict(key) PROVE Inv'
  BY <1>5, EvictInv
<1>6. CASE UNCHANGED vars
  BY <1>6, StutterInv
<1> QED
  BY <1>1, <1>2, <1>3, <1>4, <1>5, <1>6 DEF Next

(* The inductive invariant holds in every reachable state: the stores      *)
(* agree with the history, and so does what every request in flight has    *)
(* seen of them.                                                           *)
THEOREM AlwaysInv == Spec => []Inv
<1>1. Init => Inv
  BY InitInv
<1>2. Inv /\ [Next]_vars => Inv'
  BY NextInv
<1> QED
  BY <1>1, <1>2, PTL DEF Spec

(* Every variable of the token stores and of the requests keeps its type.  *)
THEOREM TypeCorrect == Spec => []TypeOK
<1>1. Inv => TypeOK
  BY DEF Inv
<1> QED
  BY <1>1, AlwaysInv, PTL

(* get_current_user and refresh refuse a token whose revocation has        *)
(* returned with its key in Redis, in every process and up to the last     *)
(* second before its exp: unless the read of that key fails or Redis,      *)
(* which runs with allkeys-lru, has evicted it since it was last written.  *)
THEOREM RevokedAlwaysRefused == Spec => []RevokedIsRefused
<1>1. Inv => RevokedIsRefused
  BY AtRequest DEF RevokedIsRefused, Entered, Past, Inside
<1> QED
  BY <1>1, AlwaysInv, PTL

(* The process that revoked a token refuses it until its exp, even when    *)
(* its write to Redis failed.                                              *)
THEOREM RevokerAlwaysRemembers == Spec => []RevokerRemembers
<1>1. Inv => RevokerRemembers
  BY AtRequest DEF RevokerRemembers, Entered, Past, Inside
<1> QED
  BY <1>1, AlwaysInv, PTL

(* After revoke_all_tokens has stored its marker no access token of the    *)
(* user is accepted again, whenever it was minted, unless the read of the  *)
(* marker fails or Redis has evicted it since it was last written.         *)
THEOREM RevokeAllAlwaysFinal == Spec => []RevokeAllIsFinal
<1>1. Inv => RevokeAllIsFinal
  BY AtRequest DEF RevokeAllIsFinal, Entered, Past
<1> QED
  BY <1>1, AlwaysInv, PTL

(* No client receives a pair before the revocation of the refresh token    *)
(* that bought it has been attempted and has returned.                     *)
THEOREM AlwaysSpentBeforeReplaced == Spec => []SpentBeforeReplaced
<1>1. Inv => SpentBeforeReplaced
  BY DEF Inv
<1> QED
  BY <1>1, AlwaysInv, PTL

(* No request that begins after a client received the pair which a refresh *)
(* token bought gets that token past its check, up to the last second      *)
(* before its exp: unless the write that blacklisted the token failed, or  *)
(* the read of its key did, or Redis evicted the key.                      *)
THEOREM SpentAlwaysBuysNothing == Spec => []SpentBuysNothing
<1>1. Inv => SpentBuysNothing
  <2>1. SUFFICES ASSUME Inv, NEW r \in Requests,
                        req[r].pc \in Inside \cup {"loading"},
                        req[r].wasSpent, req[r].was # "known", ~req[r].blind
                 PROVE  now > Exp(req[r].token) - Second
    BY DEF SpentBuysNothing
  <2>2. PICK q \in Request : q = req[r] /\ Past(q)
    BY <2>1, AtRequest
  <2>3. q.was = "shared" /\ q.pc \notin {"idle", "askingToken"}
    BY <2>1, <2>2 DEF Past, Request, Inside
  <2> QED
    BY <2>1, <2>2, <2>3 DEF Past
<1> QED
  BY <1>1, AlwaysInv, PTL
=============================================================================
