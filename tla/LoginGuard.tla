----------------------------- MODULE LoginGuard -----------------------------
(***************************************************************************)
(* The way to a token pair: login and mfa_verify of                        *)
(* backend/app/api/v1/auth.py, the tickets between them of core/mfa.py,    *)
(* and the BruteForceProtector of core/bruteforce.py that counts failures  *)
(* per account and, before any handler, per address (main.py).             *)
(*                                                                         *)
(* This is one uvicorn process: a BruteForceProtector is private to its    *)
(* process, and what the processes share, users and signed tickets, any    *)
(* of them may use.  A tick of time is a second.                           *)
(***************************************************************************)
EXTENDS Integers, Sequences, FiniteSets

CONSTANTS
  Users, IPs,
  Requests,            \* requests in flight at one time
  Secrets,             \* TOTP secrets
  MaxAttempts, Lockout,          \* MAX_ATTEMPTS, LOCKOUT_SECONDS
  IPMaxAttempts, IPLockout,
  Multiplier,          \* powers of PROGRESSIVE_MULTIPLIER
  MaxStrikes,          \* the last of them that is a float, 1023
  TicketTTL,           \* seconds
  MaxTime, MaxFailures,          \* bounds: of the clock, of a count
  NoUser, NoSecret

ASSUME ConstantsAssumption ==
  /\ IsFiniteSet(Requests) /\ Requests # {}
  /\ MaxAttempts \in Nat \ {0} /\ IPMaxAttempts \in Nat \ {0}
  /\ Lockout \in Nat \ {0} /\ IPLockout \in Nat \ {0}
  /\ MaxStrikes \in Nat /\ Multiplier \in [0..MaxStrikes -> Nat \ {0}]
  /\ TicketTTL \in Nat /\ MaxTime \in Nat /\ MaxFailures \in Nat
  \* 300 * 2.0 ** 1023 is inf: that lock never ends.
  /\ Lockout * Multiplier[MaxStrikes] > MaxTime + Lockout
  /\ NoUser \notin Users /\ NoSecret \notin Secrets

Record == [count : Nat, until : Nat]     \* AttemptRecord
NoRecord == [count |-> 0, until |-> 0]   \* a missing one is treated alike

Ticket == [user : Users, exp : Nat]

Idle == [pc |-> "idle"]

(* age, coded and steady are history, for a request that is to get tokens: *)
(* how long ago, when the request showed its password or ticket, the       *)
(* password had been right; the secret that its code matched; and whether  *)
(* the user's MFA is still what the request read.                          *)
Request ==
  [pc : {"login", "checked", "mfa", "ticketed", "issuing"},
   user : Users \cup {NoUser}, ip : IPs,
   age : 0..MaxTime, coded : Secrets \cup {NoSecret}, steady : BOOLEAN]

VARIABLES
  now,
  attempts, ipAttempts,   \* _attempts, _ip_attempts
  mfa,                    \* users.mfa_secret; none when mfa_enabled is false
  tickets,                \* that clients hold
  req,
  fails,      \* history: times of wrong passwords since the last success
  ipFails,    \* history: times of failures since the last success, but for
              \* those on which record_failure raised
  raised      \* history: users with one of those since their last success

vars == <<now, attempts, ipAttempts, mfa, tickets, req, fails, ipFails, raised>>

TypeOK ==
  /\ now \in 0..MaxTime
  /\ attempts \in [Users -> Record] /\ ipAttempts \in [IPs -> Record]
  /\ mfa \in [Users -> Secrets \cup {NoSecret}]
  /\ tickets \subseteq Ticket
  /\ req \in [Requests -> Request \cup {Idle}]
  /\ \A r \in Requests :
       req[r].pc \in {"login", "checked", "ticketed", "issuing"} =>
         req[r].user \in Users
  /\ fails \in [Users -> Seq(0..MaxTime)]
  /\ ipFails \in [IPs -> Seq(0..MaxTime)]
  /\ raised \subseteq Users

Init ==
  /\ now = 0
  /\ attempts = [u \in Users |-> NoRecord]
  /\ ipAttempts = [i \in IPs |-> NoRecord]
  /\ mfa \in [Users -> Secrets \cup {NoSecret}]
  /\ tickets = {}
  /\ req = [r \in Requests |-> Idle]
  /\ fails = [u \in Users |-> << >>] /\ ipFails = [i \in IPs |-> << >>]
  /\ raised = {}

-----------------------------------------------------------------------------
(* BruteForceProtector. *)

Locked(record) == record.until > now

(* What is_locked and is_ip_blocked leave of a record that they look at.   *)
Seen(record) ==
  IF record.until > 0 /\ ~Locked(record) THEN NoRecord ELSE record

Struck_OneLate(record, max, lock) ==
  [count |-> record.count + 1,
   until |-> IF record.count + 1 > max THEN now + lock ELSE record.until]

Struck(record, max, lock) ==
  [count |-> record.count + 1,
   until |-> IF record.count + 1 >= max THEN now + lock ELSE record.until]

(* The lock that the n-th failure brings about. *)
AccountLock(n) == Lockout * Multiplier[n - MaxAttempts]

(* The account, and then the address.                                      *)
CountFailure(u, i) ==
  /\ attempts[u].count < MaxAttempts + MaxStrikes
  /\ attempts' =
       [attempts EXCEPT ![u] =
          Struck(@, MaxAttempts, AccountLock(@.count + 1))]
  /\ ipAttempts' =
       [ipAttempts EXCEPT ![i] = Struck(@, IPMaxAttempts, IPLockout)]
  /\ ipFails' = [ipFails EXCEPT ![i] = Append(@, now)]
  /\ UNCHANGED raised

(* The power overflows: an OverflowError, which the client sees as a 500,  *)
(* once the account has been counted and before anything else has.         *)
OverflowFailure(u) ==
  /\ attempts[u].count >= MaxAttempts + MaxStrikes
  /\ attempts' = [attempts EXCEPT ![u].count = @ + 1]
  /\ raised' = raised \cup {u}
  /\ UNCHANGED <<ipAttempts, ipFails>>

RecordFailure(u, i) ==
  /\ attempts[u].count < MaxFailures
  /\ CountFailure(u, i) \/ OverflowFailure(u)

RecordSuccess(u, i) ==
  /\ attempts' = [attempts EXCEPT ![u] = NoRecord]
  /\ ipAttempts' = [ipAttempts EXCEPT ![i] = NoRecord]
  /\ fails' = [fails EXCEPT ![u] = << >>]
  /\ ipFails' = [ipFails EXCEPT ![i] = << >>]
  /\ raised' = raised \ {u}

-----------------------------------------------------------------------------
(* Requests. *)

Goto(r, at) == req' = [req EXCEPT ![r].pc = at]

End(r) == req' = [req EXCEPT ![r] = Idle]

LookAtIP_OnlyMarks(i) == ipAttempts' = [ipAttempts EXCEPT ![i] = Seen(@)]

(* security_checks of main.py: a blocked address gets no further.          *)
LookAtIP(i) ==
  /\ ~Locked(ipAttempts[i])
  /\ ipAttempts' = [ipAttempts EXCEPT ![i] = Seen(@)]

Admit(r, i, pc, u) ==
  /\ req[r] = Idle
  /\ LookAtIP(i)
  /\ req' = [req EXCEPT ![r] =
       [pc |-> pc, user |-> u, ip |-> i, age |-> 0, coded |-> NoSecret,
        steady |-> TRUE]]
  /\ UNCHANGED <<now, attempts, mfa, tickets, fails, ipFails,
                 raised>>

AdmitLogin(r, i) == \E u \in Users : Admit(r, i, "login", u)

AdmitMFA(r, i) == Admit(r, i, "mfa", NoUser)

(* Any other request passes the same middleware. *)
AdmitOther(i) ==
  /\ LookAtIP(i)
  /\ UNCHANGED <<now, attempts, mfa, tickets, req, fails, ipFails,
                 raised>>

(* login begins: is_locked, and on to the database or back with a 429.     *)
CheckLock(r) ==
  /\ req[r].pc = "login"
  /\ attempts' = [attempts EXCEPT ![req[r].user] = Seen(@)]
  /\ IF Locked(attempts[req[r].user]) THEN End(r) ELSE Goto(r, "checked")
  /\ UNCHANGED <<now, ipAttempts, mfa, tickets, fails, ipFails,
                 raised>>

(* The row is there; no such user is treated like a wrong password.        *)
WrongPassword(r) ==
  /\ req[r].pc = "checked"
  /\ RecordFailure(req[r].user, req[r].ip)
  /\ fails' = [fails EXCEPT ![req[r].user] = Append(@, now)]
  /\ End(r)
  /\ UNCHANGED <<now, mfa, tickets>>

(* A user with MFA gets a ticket, another one is on the way to tokens.     *)
RightPassword(r) ==
  LET u == req[r].user IN
  /\ req[r].pc = "checked"
  /\ IF mfa[u] # NoSecret
     THEN /\ tickets' = tickets \cup {[user |-> u, exp |-> now + TicketTTL]}
          /\ End(r)
     ELSE /\ Goto(r, "issuing")
          /\ UNCHANGED tickets
  /\ UNCHANGED <<now, attempts, ipAttempts, mfa, fails, ipFails,
                 raised>>

Acceptable_Leeway(t) == t.exp + 1 >= now

(* verify_mfa_ticket; tokens of other types are refused as none at all.    *)
Acceptable(t) == t.exp >= now

PresentTicket_NoSubject(r) ==
  /\ req[r].pc = "mfa"
  /\ \/ \E t \in tickets :
          /\ Acceptable(t)
          /\ req' = [req EXCEPT ![r].pc = "ticketed",
                       ![r].age = now - (t.exp - TicketTTL)]
     \/ End(r)
  /\ UNCHANGED <<now, attempts, ipAttempts, mfa, tickets, fails, ipFails,
                 raised>>

(* mfa_verify begins, with any ticket that was ever issued, or with none.  *)
PresentTicket(r) ==
  /\ req[r].pc = "mfa"
  /\ \/ \E t \in tickets :
          /\ Acceptable(t)
          /\ req' = [req EXCEPT ![r].pc = "ticketed", ![r].user = t.user,
                       ![r].age = now - (t.exp - TicketTTL)]
     \/ End(r)
  /\ UNCHANGED <<now, attempts, ipAttempts, mfa, tickets, fails, ipFails,
                 raised>>

(* The row is there: MFA may have been disabled meanwhile (400).           *)
WithoutMFA(r) ==
  /\ req[r].pc = "ticketed" /\ mfa[req[r].user] = NoSecret
  /\ End(r)
  /\ UNCHANGED <<now, attempts, ipAttempts, mfa, tickets, fails, ipFails,
                 raised>>

WrongCode(r) ==
  /\ req[r].pc = "ticketed" /\ mfa[req[r].user] # NoSecret
  /\ RecordFailure(req[r].user, req[r].ip)
  /\ End(r)
  /\ UNCHANGED <<now, mfa, tickets, fails>>

RightCode(r) ==
  /\ req[r].pc = "ticketed" /\ mfa[req[r].user] # NoSecret
  /\ req' = [req EXCEPT ![r].pc = "issuing",
                        ![r].coded = mfa[req[r].user]]
  /\ UNCHANGED <<now, attempts, ipAttempts, mfa, tickets, fails, ipFails,
                 raised>>

(* _issue_tokens_for after its commit: the tokens are out.                 *)
Issue(r) ==
  /\ req[r].pc = "issuing"
  /\ RecordSuccess(req[r].user, req[r].ip)
  /\ End(r)
  /\ UNCHANGED <<now, mfa, tickets>>

(* The database fails, or the client goes away. *)
Abort(r) ==
  /\ req[r] # Idle
  /\ End(r)
  /\ UNCHANGED <<now, attempts, ipAttempts, mfa, tickets, fails, ipFails,
                 raised>>

(* mfa_enable and mfa_disable, of users who are logged in: their UPDATE.   *)
SetMFA(u, s) ==
  /\ mfa[u] # s
  /\ mfa' = [mfa EXCEPT ![u] = s]
  /\ req' = [r \in Requests |->
       IF req[r].pc = "issuing" /\ req[r].user = u
       THEN [req[r] EXCEPT !.steady = FALSE] ELSE req[r]]
  /\ UNCHANGED <<now, attempts, ipAttempts, tickets, fails, ipFails,
                 raised>>

(* Tickets that expired more than a second ago are forgotten here.         *)
Tick ==
  /\ now < MaxTime
  /\ now' = now + 1
  /\ tickets' = {t \in tickets : t.exp + 1 >= now'}
  /\ UNCHANGED <<attempts, ipAttempts, mfa, req, fails, ipFails,
                 raised>>

Next ==
  \/ \E r \in Requests :
       \/ \E i \in IPs : AdmitLogin(r, i) \/ AdmitMFA(r, i)
       \/ CheckLock(r) \/ WrongPassword(r) \/ RightPassword(r)
       \/ PresentTicket(r) \/ WithoutMFA(r) \/ WrongCode(r) \/ RightCode(r)
       \/ Issue(r) \/ Abort(r)
  \/ \E i \in IPs : AdmitOther(i)
  \/ \E u \in Users, s \in Secrets \cup {NoSecret} : SetMFA(u, s)
  \/ Tick

Spec == Init /\ [][Next]_vars

-----------------------------------------------------------------------------
(* As many failures as one more than can be in flight, beyond those that   *)
(* bring a lock about, are spread over more than the lock.                 *)
Spread(times, most, span) ==
  \A k \in 1..(Len(times) - most) : times[k + most] - times[k] >= span

(* One process checks no more than MAX_ATTEMPTS - 1 wrong passwords of an  *)
(* account, and one more per request in flight, in any LOCKOUT_SECONDS     *)
(* without a success: whatever overlaps, whichever lock expires meanwhile, *)
(* and although only login asks for the lock.                              *)
GuessesBounded ==
  \A u \in Users :
    Spread(fails[u], MaxAttempts - 1 + Cardinality(Requests), Lockout)

(* The same for an address, over all accounts and both kinds of failure,   *)
(* but for the guesses on which record_failure raises: they are checked    *)
(* and never counted for the address, which they do not bring nearer to a  *)
(* block.  An account that takes one is locked and stays so: only tickets  *)
(* and logins from before that lock can bring another.                     *)
IPGuessesBounded ==
  /\ \A i \in IPs :
       Spread(ipFails[i], IPMaxAttempts - 1 + Cardinality(Requests), IPLockout)
  /\ \A u \in raised : Locked(attempts[u])

(* Tokens go to requests with a right password behind them, given then or  *)
(* for a ticket that had not expired, and with a code for the MFA secret   *)
(* of the user, unless MFA was changed after the request read the user.    *)
TokensNeedBothLegs ==
  \A r \in Requests :
    req[r].pc = "issuing" =>
      /\ req[r].age <= TicketTTL
      /\ req[r].steady => req[r].coded = mfa[req[r].user]
=============================================================================
