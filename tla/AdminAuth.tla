------------------------------ MODULE AdminAuth ------------------------------
(***************************************************************************)
(* Authentication of the administration API: the login handler with its    *)
(* limiter (internal/admin/server.go), requireAuth in front of every other *)
(* route, and the sessions table (internal/storage/store.go).  The limiter *)
(* checks and counts in separate critical sections with the password check *)
(* in between, and a session is read before the request it admits runs.    *)
(***************************************************************************)
EXTENDS Clock, Sequences, FiniteSets, Functions

CONSTANTS Handlers,      \* goroutines of the admin server
          IPs,           \* client addresses
          Tokens,        \* session tokens, random and never issued twice
          MaxFailures,   \* failures that close the login, 5
          LoginWindow,   \* for this long, one minute
          SessionLife    \* 12 hours

ASSUME AuthAssumption == /\ {MaxFailures, LoginWindow, SessionLife} \subseteq Nat \ {0}
                         /\ IsFiniteSet(Handlers)

VARIABLES attempts,   \* loginLimiter.attempts: times of the failures, by address
          sessions,   \* admin_sessions: token -> expires_at
          handler,    \* what each goroutine is doing
          issued,     \* tokens generated so far
          ended,      \* history: tokens whose logout has been answered
          undeleted   \* history: ... although their row could not be deleted

authVars == <<now, attempts, sessions, handler, issued, ended, undeleted>>

Idle == [at |-> "idle"]

AuthInit == /\ now = 0
            /\ attempts = [ip \in IPs |-> <<>>]
            /\ sessions = <<>>
            /\ handler = [h \in Handlers |-> Idle]
            /\ issued = {}
            /\ ended = {}
            /\ undeleted = {}

Become(h, s) == handler' = [handler EXCEPT ![h] = s]

\* The failures after the cut, in the order of the list.
After(list, cut) ==
  LET kept == {i \in DOMAIN list : list[i] > cut}
      nth(n) == CHOOSE i \in kept : Cardinality({j \in kept : j <= i}) = n
  IN [n \in 1..Cardinality(kept) |-> list[nth(n)]]

\* Mutant: the sixth attempt is let through as well.
allowOneMore(h, ip) ==
  LET list == After(attempts[ip], now - LoginWindow)
  IN /\ handler[h] = Idle
     /\ attempts' = [attempts EXCEPT ![ip] = list]
     /\ IF Len(list) <= MaxFailures
        THEN Become(h, [at |-> "verifying", ip |-> ip])
        ELSE UNCHANGED handler
     /\ UNCHANGED <<now, sessions, issued, ended, undeleted>>

\* login: limiter.allow drops the failures older than the window and lets
\* the attempt through or answers 429.
allow(h, ip) ==
  LET list == After(attempts[ip], now - LoginWindow)
  IN /\ handler[h] = Idle
     /\ attempts' = [attempts EXCEPT ![ip] = list]
     /\ IF Len(list) < MaxFailures
        THEN Become(h, [at |-> "verifying", ip |-> ip])
        ELSE UNCHANGED handler
     /\ UNCHANGED <<now, sessions, issued, ended, undeleted>>

\* login: a body that is no JSON object is answered and not counted.
LoginMalformed(h) ==
  /\ handler[h].at = "verifying"
  /\ Become(h, Idle)
  /\ UNCHANGED <<now, attempts, sessions, issued, ended, undeleted>>

\* login: Store.Login refuses (or fails); limiter.fail counts it.
LoginFails(h) ==
  /\ handler[h].at = "verifying"
  /\ attempts' = [attempts EXCEPT ![handler[h].ip] = Append(@, now)]
  /\ Become(h, Idle)
  /\ UNCHANGED <<now, sessions, issued, ended, undeleted>>

\* login: Store.Login accepts the password and inserts a session.
Login(h) ==
  /\ handler[h].at = "verifying"
  /\ \E token \in Tokens \ issued :
       /\ sessions' = [t \in DOMAIN sessions \cup {token} |->
                         IF t = token THEN now + SessionLife ELSE sessions[t]]
       /\ issued' = issued \cup {token}
  /\ Become(h, [at |-> "admitted", ip |-> handler[h].ip])
  /\ UNCHANGED <<now, attempts, ended, undeleted>>

\* login: limiter.success forgets the failures of the address; the answer
\* sets the cookies.
LoginSucceeds(h) ==
  /\ handler[h].at = "admitted"
  /\ attempts' = [attempts EXCEPT ![handler[h].ip] = <<>>]
  /\ Become(h, Idle)
  /\ UNCHANGED <<now, sessions, issued, ended, undeleted>>

\* A request for /api/v1/ arrives with a session cookie: a "read" (GET, HEAD,
\* OPTIONS), a "write" whose CSRF header and cookie both match, or a write
\* that is "unproved".
Present(h, token, kind) ==
  /\ handler[h] = Idle
  /\ Become(h, [at |-> "checking", token |-> token, kind |-> kind, before |-> ended])
  /\ UNCHANGED <<now, attempts, sessions, issued, ended, undeleted>>

\* requireAuth: Store.Session finds a row that has not expired, and a
\* request that may change something carries the CSRF proof.
Admit(h) ==
  LET r == handler[h]
  IN /\ r.at = "checking"
     /\ r.token \in DOMAIN sessions
     /\ now <= sessions[r.token]
     /\ r.kind # "unproved"
     /\ Become(h, [r EXCEPT !.at = "serving"])
     /\ UNCHANGED <<now, attempts, sessions, issued, ended, undeleted>>

\* requireAuth: 401 or 403.  Session deletes an expired row and ignores a
\* failure to do so.
Deny(h) ==
  LET r == handler[h]
      expired == r.token \in DOMAIN sessions /\ now > sessions[r.token]
  IN /\ r.at = "checking"
     /\ r.token \notin DOMAIN sessions \/ expired \/ r.kind = "unproved"
     /\ \/ expired /\ sessions' = Restrict(sessions, DOMAIN sessions \ {r.token})
        \/ UNCHANGED sessions
     /\ Become(h, Idle)
     /\ UNCHANGED <<now, attempts, issued, ended, undeleted>>

\* Any handler but logout runs and answers.
Serve(h) ==
  /\ handler[h].at = "serving"
  /\ Become(h, Idle)
  /\ UNCHANGED <<now, attempts, sessions, issued, ended, undeleted>>

\* Mutant: logout only clears the cookies.
LogoutCookiesOnly(h) ==
  /\ handler[h].at = "serving" /\ handler[h].kind = "write"
  /\ ended' = ended \cup {handler[h].token}
  /\ Become(h, Idle)
  /\ UNCHANGED <<now, attempts, issued, sessions, undeleted>>

\* logout: the row is deleted, the cookies are cleared and 204 is answered;
\* an error of the DELETE is ignored.
Logout(h) ==
  LET token == handler[h].token
  IN /\ handler[h].at = "serving" /\ handler[h].kind = "write"
     /\ \/ /\ sessions' = Restrict(sessions, DOMAIN sessions \ {token})
           /\ UNCHANGED undeleted
        \/ /\ undeleted' = undeleted \cup {token}
           /\ UNCHANGED sessions
     /\ ended' = ended \cup {token}
     /\ Become(h, Idle)
     /\ UNCHANGED <<now, attempts, issued>>

AuthTick == Tick /\ UNCHANGED <<attempts, sessions, handler, issued, ended, undeleted>>

AuthNext == \/ \E h \in Handlers :
                 \/ \E ip \in IPs : allow(h, ip)
                 \/ LoginMalformed(h) \/ LoginFails(h) \/ Login(h) \/ LoginSucceeds(h)
                 \/ \E t \in Tokens, k \in {"read", "write", "unproved"} : Present(h, t, k)
                 \/ Admit(h) \/ Deny(h) \/ Serve(h) \/ Logout(h)
            \/ AuthTick

AuthSpec == AuthInit /\ [][AuthNext]_authVars
-----------------------------------------------------------------------------
AuthTypeOK ==
  /\ now \in Times
  /\ attempts \in [IPs -> Seq(Times)]
  /\ DOMAIN sessions \subseteq issued /\ issued \subseteq Tokens
  /\ undeleted \subseteq ended /\ ended \subseteq issued

Verifying(ip) == {h \in Handlers : handler[h].at = "verifying" /\ handler[h].ip = ip}

\* The limiter's real bound: check and count are apart, so parallel attempts
\* pass together, but all the guesses recorded and under way for an address
\* never exceed the limit by more than the attempts in flight, whichever
\* successes, expiries and malformed requests come between.
GuessesBounded ==
  \A ip \in IPs : Len(attempts[ip]) + Cardinality(Verifying(ip))
                    <= MaxFailures - 1 + Cardinality(Handlers)

\* Once a logout has been answered no later request is served with its
\* token, whatever requests were under way, unless the row could not be
\* deleted (an error logout does not report).
LoggedOutStaysOut ==
  \A h \in Handlers : handler[h].at = "serving" /\ handler[h].token \in handler[h].before
                        => handler[h].token \in undeleted
=============================================================================
