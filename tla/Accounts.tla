------------------------------ MODULE Accounts ------------------------------
(***************************************************************************)
(* Identities, session tokens and logins.                                  *)
(*                                                                         *)
(* A user is a row with one token, the newest: whoever shows it is that    *)
(* user, and is given the next one (rotate_user_session).  A user without  *)
(* an account is nothing else than its token.  The app keeps the last      *)
(* token it received (wallet), writes it in the order of the answers, and  *)
(* shows it whenever it connects.                                          *)
(*                                                                         *)
(* A client has one connection open at a time, but the server may still be *)
(* at a request of the one before.  call[p] is how far the handler of      *)
(* connection p is.  A statement of the database succeeds, fails, or times *)
(* out: then the handler goes on, and the statement may still be made      *)
(* later.  User ids and tokens are random, and numbered here.              *)
(***************************************************************************)
EXTENDS Integers, Sequences, FiniteSets, FiniteSetsExt

CONSTANTS
    Conns,        \* connections
    ClientOf,     \* whose each is: connection |-> client
    Emails,       \* addresses
    FirstEmail,   \* the address of the first user, where there is one
    Plans,        \* what a behaviour may consist of, see AccountsAssumption
    LoginFailLimit, \* LOGIN_ACCOUNT_FAIL_LIMIT
    MaxUserIds,   \* bound on the users there ever are
    MaxLate,      \* bound on the statements that have timed out and may come
    MaxTokens     \* bound on the tokens: nobody authenticates any more when there are

Clients == { ClientOf[p] : p \in Conns }

(* A plan: the kinds of request, the connections, the clients (one at     *)
(* most) that have an account at first, and how many requests there are    *)
(* beside those to authenticate.                                           *)
ASSUME AccountsAssumption ==
    /\ IsFiniteSet(Conns) /\ ClientOf \in [ Conns -> Clients ]
    /\ FirstEmail \in Emails /\ "none" \notin Emails
    /\ LoginFailLimit \in Nat \ {0} /\ MaxUserIds \in Nat \ {0} /\ MaxTokens \in Nat /\ MaxLate \in Nat
    /\ \A pl \in Plans :
          /\ pl.conns \subseteq Conns /\ pl.calls \in Nat
          /\ pl.registered \subseteq Clients /\ Cardinality(pl.registered) <= 1

VARIABLES
    plan,         \* the plan of this behaviour
    wallet,       \* the token each client has; 0 is none
    link,         \* each connection: "new", "open", "greeted" (authenticated), "closed"
    mail,         \* answers on their way to the client of each connection
    who,          \* Peer.user_id; 0 is nobody
    token,        \* users: the token of each; Revoked, or NoRow
    email,        \* users: the address of each, or "none"
    call,         \* the handler of each connection
    late,         \* statements that timed out and may still be made
    fails,        \* login_failures_per_email
    ids,          \* user ids given so far
    tokens,       \* tokens given so far
    calls,        \* requests so far
    forsaken,     \* history: users whose token may be lost, see SomeoneHoldsToken
    outside,      \* history: <<client, user>>, see RevokedStaysOut
    guesses       \* history: wrong passwords tried since the count was at 0

linkVars == << wallet, link, mail >>
userVars == << token, email >>
givenVars == << ids, tokens >>
loginVars == << fails, guesses >>
accountVars == << plan, linkVars, who, userVars, call, late, loginVars, givenVars, calls,
                  forsaken, outside >>

UserIds == 1 .. MaxUserIds
Revoked == 0
NoRow == -1

NoCall == [ at |-> "none", id |-> 0, tok |-> 0, new |-> 0, email |-> "none" ]

AccountsInit ==
    /\ plan \in Plans
    /\ wallet = [ c \in Clients |-> IF c \in plan.registered THEN 1 ELSE 0 ]
    /\ ids = Cardinality(plan.registered) /\ tokens = ids
    /\ token = [ u \in UserIds |-> IF u <= ids THEN 1 ELSE NoRow ]
    /\ email = [ u \in UserIds |-> IF u <= ids THEN FirstEmail ELSE "none" ]
    /\ link = [ p \in Conns |-> "new" ]
    /\ mail = [ p \in Conns |-> <<>> ]
    /\ who = [ p \in Conns |-> 0 ]
    /\ call = [ p \in Conns |-> NoCall ]
    /\ fails = [ e \in Emails |-> 0 ]
    /\ guesses = [ e \in Emails |-> 0 ]
    /\ late = {} /\ forsaken = {} /\ outside = {} /\ calls = 0

Mine(p) == ClientOf[p]

IsOpen(p) == link[p] \in { "open", "greeted" }

(* The user that shows token t. *)
Bearers(t) == { u \in UserIds : t > 0 /\ token[u] = t }

(* The users whose tokens are on their way to the client of p. *)
Awaited(p) == UNION { Bearers(mail[p][i][2]) : i \in DOMAIN mail[p] }

OnTo(p, at) == call' = [ call EXCEPT ![p].at = at ]

EndCall(p) == call' = [ call EXCEPT ![p] = NoCall ]

(* What is sent on a connection that is closed is lost. *)
Send(p, kind, t) ==
    /\ mail' = IF IsOpen(p) THEN [ mail EXCEPT ![p] = Append(@, << kind, t >>) ] ELSE mail
    /\ forsaken' = IF IsOpen(p) THEN forsaken ELSE forsaken \cup Bearers(t)

-----------------------------------------------------------------------------
(* The client: it opens a connection, reads answers, and may be cut off.   *)
(* (The connection after one that was cut off is another.)                 *)
Open(p) ==
    /\ link[p] = "new" /\ p \in plan.conns
    /\ \A q \in Conns : Mine(q) = Mine(p) => ~IsOpen(q)
    /\ link' = [ link EXCEPT ![p] = "open" ]
    /\ UNCHANGED << plan, wallet, mail, who, userVars, call, late, loginVars, givenVars, calls,
                    forsaken, outside >>

(* save_auth_token_async and clear_auth_token_async, by the kind of answer. *)
Receive(p) ==
    /\ IsOpen(p) /\ mail[p] # <<>>
    /\ LET kind == Head(mail[p])[1]
           t == Head(mail[p])[2]
           held == Bearers(wallet[Mine(p)]) \ Bearers(t) IN
       /\ wallet' = [ wallet EXCEPT ![Mine(p)] = t ]
       /\ mail' = [ mail EXCEPT ![p] = Tail(@) ]
       (* A new account is authenticated at once. *)
       /\ link' = IF kind = "created" THEN [ link EXCEPT ![p] = "open" ] ELSE link
       (* A login, a new account or a logout gives up the user there was. *)
       /\ forsaken' = IF kind = "authenticated" THEN forsaken ELSE forsaken \cup held
    /\ UNCHANGED << plan, who, userVars, call, late, loginVars, givenVars, calls, outside >>

(* The connection is gone; a handler that runs goes on to its end, and     *)
(* what it does to the peer nobody sees.                                   *)
Close(p) ==
    /\ IsOpen(p)
    /\ link' = [ link EXCEPT ![p] = "closed" ]
    /\ mail' = [ mail EXCEPT ![p] = <<>> ]
    /\ who' = [ who EXCEPT ![p] = 0 ]
    /\ forsaken' = forsaken \cup Awaited(p)
    /\ UNCHANGED << plan, wallet, userVars, call, late, loginVars, givenVars, calls, outside >>

(* A request of p begins: the first is to authenticate. *)
Request(p, kind, first) ==
    /\ kind \in plan.asks /\ link[p] = "greeted" /\ call[p] = NoCall /\ calls < plan.calls
    /\ calls' = calls + 1
    /\ call' = [ call EXCEPT ![p] = first ]
    /\ UNCHANGED << plan, linkVars, who, userVars, late, givenVars, forsaken, outside >>

SetWho(p, u) == who' = IF IsOpen(p) THEN [ who EXCEPT ![p] = u ] ELSE who

-----------------------------------------------------------------------------
(* Statements: an update changes a row there is, an insertion makes one.   *)
Updated(u, t) == IF token[u] = NoRow THEN token ELSE [ token EXCEPT ![u] = t ]

(* A statement that timed out is made after all. *)
Late ==
    \E s \in late :
       /\ late' = late \ {s}
       /\ token' = IF s.insert THEN [ token EXCEPT ![s.id] = s.tok ] ELSE Updated(s.id, s.tok)
       /\ email' = IF s.insert THEN [ email EXCEPT ![s.id] = s.email ] ELSE email
       /\ UNCHANGED << plan, linkVars, who, call, loginVars, givenVars, calls, forsaken, outside >>

TimedOut(u, t, insert, e) ==
    /\ Cardinality(late) < MaxLate
    /\ late' = late \cup {[ id |-> u, tok |-> t, insert |-> insert, email |-> e ]}

(* rotate_user_session, for a handler that goes on whatever becomes of it. *)
Rotate(p, u, t) ==
    /\ tokens' = t /\ ids' = ids
    /\ \/ token' = Updated(u, t) /\ UNCHANGED << late, forsaken >>
       \/ UNCHANGED << token, late >> /\ forsaken' = forsaken \cup {u}
       \/ TimedOut(u, t, FALSE, "none") /\ UNCHANGED token /\ forsaken' = forsaken \cup {u}

-----------------------------------------------------------------------------
(* handle_authenticate, with the token of the wallet: what a client does   *)
(* when it has connected, or has a new account.  What it is given now      *)
(* takes the place of the answers that were still on their way.            *)
HandleAuthenticate(p) ==
    /\ link[p] = "open" /\ call[p] = NoCall /\ tokens < MaxTokens
    /\ link' = [ link EXCEPT ![p] = "greeted" ]
    /\ call' = [ call EXCEPT ![p].at = IF wallet[Mine(p)] = 0 THEN "fresh" ELSE "find",
                             ![p].tok = wallet[Mine(p)] ]
    /\ forsaken' = forsaken \cup Awaited(p)
    /\ UNCHANGED << plan, wallet, mail, who, userVars, late, loginVars, givenVars, calls, outside >>

FindKeeps == UNCHANGED << plan, linkVars, who, userVars, late, loginVars, givenVars, calls, outside >>

(* Mutant: a lookup that times out is taken for one that finds nobody. *)
FindOrFresh(p) ==
    /\ call[p].at = "find"
    /\ \/ \E u \in Bearers(call[p].tok) :
             /\ call' = [ call EXCEPT ![p].at = "rotate", ![p].id = u ]
             /\ UNCHANGED forsaken
       \/ /\ Bearers(call[p].tok) = {}
          /\ OnTo(p, "fresh") /\ UNCHANGED forsaken
       \/ OnTo(p, "fresh") /\ UNCHANGED forsaken
    /\ FindKeeps

(* Found; or a token that is not there or has expired, or a lookup that    *)
(* fails (unwrap_or(None)), and then a fresh identity; or a timeout, and   *)
(* an error.                                                               *)
FindByToken(p) ==
    /\ call[p].at = "find"
    /\ \/ \E u \in Bearers(call[p].tok) :
             /\ call' = [ call EXCEPT ![p].at = "rotate", ![p].id = u ]
             /\ UNCHANGED forsaken
       \/ /\ OnTo(p, "fresh")
          /\ forsaken' = forsaken \cup Bearers(call[p].tok)
       \/ EndCall(p) /\ UNCHANGED forsaken
    /\ FindKeeps

(* The new token is for the answer only when it was stored. *)
RotateFound(p) ==
    /\ call[p].at = "rotate"
    /\ tokens' = tokens + 1
    /\ \/ /\ token' = Updated(call[p].id, tokens + 1)
          /\ call' = [ call EXCEPT ![p].at = "identify", ![p].new = tokens + 1 ]
          /\ UNCHANGED << late, forsaken >>
       \/ /\ call' = [ call EXCEPT ![p].at = "identify", ![p].new = call[p].tok ]
          /\ UNCHANGED << token, late, forsaken >>
       \/ /\ TimedOut(call[p].id, tokens + 1, FALSE, "none")
          /\ call' = [ call EXCEPT ![p].at = "identify", ![p].new = call[p].tok ]
          /\ forsaken' = forsaken \cup { call[p].id }
          /\ UNCHANGED token
    /\ UNCHANGED << plan, linkVars, who, email, loginVars, ids, calls, outside >>

(* The identity, the cache of the blocks (see Social), and the answer. *)
Identify(p) ==
    /\ call[p].at = "identify"
    /\ SetWho(p, call[p].id)
    /\ Send(p, "authenticated", call[p].new)
    /\ EndCall(p)
    /\ UNCHANGED << plan, wallet, link, userVars, late, loginVars, givenVars, calls, outside >>

(* A fresh identity is there before its row is. *)
FreshIdentity(p) ==
    /\ call[p].at = "fresh" /\ ids < MaxUserIds
    /\ ids' = ids + 1 /\ tokens' = tokens + 1
    /\ SetWho(p, ids + 1)
    /\ call' = [ call EXCEPT ![p].at = "save", ![p].id = ids + 1, ![p].new = tokens + 1 ]
    /\ UNCHANGED << plan, linkVars, userVars, late, loginVars, calls, forsaken, outside >>

(* save_user: an error clears the identity again, a timeout does not. *)
SaveUser(p) ==
    LET u == call[p].id IN
    /\ call[p].at = "save"
    /\ \/ /\ token' = [ token EXCEPT ![u] = call[p].new ]
          /\ OnTo(p, "identify")
          /\ UNCHANGED << who, late, forsaken >>
       \/ SetWho(p, 0) /\ EndCall(p) /\ UNCHANGED << token, late, forsaken >>
       \/ /\ TimedOut(u, call[p].new, TRUE, "none")
          /\ forsaken' = forsaken \cup {u}
          /\ EndCall(p)
          /\ UNCHANGED << token, who >>
    /\ UNCHANGED << plan, linkVars, email, loginVars, givenVars, calls, outside >>

-----------------------------------------------------------------------------
(* handle_create_account.  (Its attempts, like those of a login, are also  *)
(* limited per address of the network; one that is refused does nothing.)  *)
HandleCreateAccount(p, e) ==
    /\ Request(p, "create", [ NoCall EXCEPT !.at = "create", !.email = e ])
    /\ UNCHANGED loginVars

Taken(e) == \E u \in UserIds : token[u] # NoRow /\ email[u] = e

CreateAccount(p) ==
    LET u == ids + 1
        e == call[p].email IN
    /\ call[p].at = "create" /\ ids < MaxUserIds
    /\ ids' = ids + 1 /\ tokens' = tokens + 1
    /\ \/ /\ ~Taken(e)
          /\ token' = [ token EXCEPT ![u] = tokens + 1 ]
          /\ email' = [ email EXCEPT ![u] = e ]
          /\ call' = [ call EXCEPT ![p].at = "created", ![p].id = u, ![p].new = tokens + 1 ]
          /\ UNCHANGED late
       \/ EndCall(p) /\ UNCHANGED << userVars, late >>
       \/ /\ ~Taken(e)
          /\ TimedOut(u, tokens + 1, TRUE, e)
          /\ EndCall(p) /\ UNCHANGED userVars
    /\ UNCHANGED << plan, linkVars, who, loginVars, calls, forsaken, outside >>

(* clear_session_state_on_identity_switch (rooms and spaces: Membership),  *)
(* the identity, and the answer.                                           *)
SwitchIdentity(p) ==
    /\ call[p].at \in { "created", "logged in" }
    /\ SetWho(p, call[p].id)
    /\ Send(p, call[p].at, call[p].new)
    /\ EndCall(p)
    /\ UNCHANGED << plan, wallet, link, userVars, late, loginVars, givenVars, calls, outside >>

-----------------------------------------------------------------------------
(* handle_login: the lock of the account, the user, the password. *)

(* Mutant: the lock is not looked at. *)
LoginUnlocked(p, e) ==
    /\ Request(p, "login", [ NoCall EXCEPT !.at = "find email", !.email = e ])
    /\ UNCHANGED loginVars

(* check_login_account_lock. *)
HandleLogin(p, e) ==
    /\ fails[e] < LoginFailLimit
    /\ Request(p, "login", [ NoCall EXCEPT !.at = "find email", !.email = e ])
    /\ UNCHANGED loginVars

(* find_user_by_email, and the password: an unknown address is a failure   *)
(* like a wrong password.  An error or a timeout is none.                  *)
FindByEmail(p) ==
    LET e == call[p].email IN
    /\ call[p].at = "find email"
    /\ \/ /\ OnTo(p, "failed")
          /\ guesses' = [ guesses EXCEPT ![e] = @ + 1 ]
          /\ UNCHANGED outside
       \/ \E u \in { v \in UserIds : token[v] # NoRow /\ email[v] = e } :
             /\ call' = [ call EXCEPT ![p].at = "verified", ![p].id = u ]
             /\ outside' = outside \ {<< Mine(p), u >>}
             /\ UNCHANGED guesses
       \/ EndCall(p) /\ UNCHANGED << guesses, outside >>
    /\ UNCHANGED << plan, linkVars, who, userVars, late, fails, givenVars, calls, forsaken >>

(* record_login_failure_for_email. *)
RecordFailure(p) ==
    /\ call[p].at = "failed"
    /\ fails' = [ fails EXCEPT ![call[p].email] = @ + 1 ]
    /\ EndCall(p)
    /\ UNCHANGED << plan, linkVars, who, userVars, late, guesses, givenVars, calls, forsaken, outside >>

(* clear_login_failures_for_email. *)
ClearFailures(p) ==
    /\ call[p].at = "verified"
    /\ fails' = [ fails EXCEPT ![call[p].email] = 0 ]
    /\ guesses' = [ guesses EXCEPT ![call[p].email] = 0 ]
    /\ OnTo(p, "login")
    /\ UNCHANGED << plan, linkVars, who, userVars, late, givenVars, calls, forsaken, outside >>

(* LOGIN_ACCOUNT_LOCK_WINDOW_SECS are over: the entry counts no more. *)
WindowEnds(e) ==
    /\ fails[e] > 0
    /\ fails' = [ fails EXCEPT ![e] = 0 ]
    /\ guesses' = [ guesses EXCEPT ![e] = 0 ]
    /\ UNCHANGED << plan, linkVars, who, userVars, call, late, givenVars, calls, forsaken, outside >>

(* The new token is for the answer, stored or not. *)
RotateLogin(p) ==
    /\ call[p].at = "login"
    /\ Rotate(p, call[p].id, tokens + 1)
    /\ call' = [ call EXCEPT ![p].at = "logged in", ![p].new = tokens + 1 ]
    /\ UNCHANGED << plan, linkVars, who, email, loginVars, calls, outside >>

-----------------------------------------------------------------------------
(* Getting out: handle_logout and handle_revoke_all_sessions. *)
HandleLogout(p) ==
    /\ Request(p, "logout", [ NoCall EXCEPT !.at = IF who[p] = 0 THEN "clear" ELSE "logout", !.id = who[p] ])
    /\ UNCHANGED loginVars

HandleRevokeAll(p) ==
    /\ who[p] # 0
    /\ Request(p, "revoke", [ NoCall EXCEPT !.at = "revoke", !.id = who[p] ])
    /\ UNCHANGED loginVars

(* The clients that are nowhere u when its token is made void: they have   *)
(* no connection that is u, no request that found u, and no statement of   *)
(* theirs may still come.                                                  *)
Outsiders(p, u) ==
    { c \in Clients :
        /\ \A q \in Conns \ {p} : Mine(q) = c => who[q] # u /\ call[q].id # u
        /\ \A s \in late : s.id # u } \ { Mine(p) }

(* Mutant: the token is left as it is. *)
InvalidateNothing(p, next) ==
    /\ call' = next
    /\ outside' = outside \cup (Outsiders(p, call[p].id) \X { call[p].id })
    /\ UNCHANGED << token, late, forsaken >>

(* invalidate_token. *)
Invalidate(p, next) ==
    /\ token' = Updated(call[p].id, Revoked)
    /\ call' = next
    /\ outside' = outside \cup (Outsiders(p, call[p].id) \X { call[p].id })
    /\ UNCHANGED << late, forsaken >>

(* Whether it fails or times out is ignored by a logout. *)
InvalidateForLogout(p) ==
    LET next == [ call EXCEPT ![p].at = "clear" ] IN
    /\ call[p].at = "logout"
    /\ \/ Invalidate(p, next)
       \/ call' = next /\ UNCHANGED << token, late, forsaken, outside >>
       \/ TimedOut(call[p].id, Revoked, FALSE, "none") /\ call' = next /\ UNCHANGED << token, forsaken, outside >>
    /\ UNCHANGED << plan, linkVars, who, email, loginVars, givenVars, calls >>

ClearIdentity(p) ==
    /\ call[p].at = "clear"
    /\ SetWho(p, 0)
    /\ Send(p, "logged out", 0)
    /\ EndCall(p)
    /\ UNCHANGED << plan, wallet, link, userVars, late, loginVars, givenVars, calls, outside >>

(* A revocation ends when it fails, and else gives this client a token. *)
InvalidateForRevoke(p) ==
    /\ call[p].at = "revoke"
    /\ \/ Invalidate(p, [ call EXCEPT ![p].at = "reissue" ])
       \/ EndCall(p) /\ UNCHANGED << token, late, forsaken, outside >>
       \/ TimedOut(call[p].id, Revoked, FALSE, "none") /\ EndCall(p) /\ UNCHANGED << token, forsaken, outside >>
    /\ UNCHANGED << plan, linkVars, who, email, loginVars, givenVars, calls >>

Reissue(p) ==
    /\ call[p].at = "reissue"
    /\ Rotate(p, call[p].id, tokens + 1)
    /\ call' = [ call EXCEPT ![p].at = "reissued", ![p].new = tokens + 1 ]
    /\ UNCHANGED << plan, linkVars, who, email, loginVars, calls, outside >>

AnswerRevoked(p) ==
    /\ call[p].at = "reissued"
    /\ Send(p, "authenticated", call[p].new)
    /\ EndCall(p)
    /\ UNCHANGED << plan, wallet, link, who, userVars, late, loginVars, givenVars, calls, outside >>

-----------------------------------------------------------------------------
(* handle_change_email and handle_delete_account, the password given being *)
(* right: both ask for it, which an identity without an account has not.   *)
HandleWithPassword(p, kind, e) ==
    /\ who[p] # 0 /\ token[who[p]] # NoRow /\ email[who[p]] # "none"
    /\ Request(p, kind, [ NoCall EXCEPT !.at = kind, !.id = who[p], !.email = e ])
    /\ UNCHANGED loginVars

SaveEmail(p) ==
    LET u == call[p].id
        e == call[p].email IN
    /\ call[p].at = "email"
    /\ \/ ~Taken(e) /\ token[u] # NoRow /\ email' = [ email EXCEPT ![u] = e ]
       \/ UNCHANGED email
    /\ EndCall(p)
    /\ UNCHANGED << plan, linkVars, who, token, late, loginVars, givenVars, calls, forsaken, outside >>

(* The row goes; the connection keeps its identity. *)
DeleteUser(p) ==
    /\ call[p].at = "delete"
    /\ \/ token' = [ token EXCEPT ![call[p].id] = NoRow ]
       \/ UNCHANGED token
    /\ Send(p, "deleted", 0)
    /\ EndCall(p)
    /\ UNCHANGED << plan, wallet, link, who, email, late, loginVars, givenVars, calls, outside >>

-----------------------------------------------------------------------------
ClientStep(p) == Open(p) \/ Receive(p) \/ Close(p)

IdentityStep(p) ==
    \/ HandleAuthenticate(p) \/ FindByToken(p) \/ RotateFound(p) \/ Identify(p)
    \/ FreshIdentity(p) \/ SaveUser(p)

AccountStep(p) ==
    \/ \E e \in Emails : HandleCreateAccount(p, e) \/ HandleLogin(p, e) \/ HandleWithPassword(p, "email", e)
    \/ HandleWithPassword(p, "delete", "none")
    \/ CreateAccount(p) \/ SwitchIdentity(p) \/ FindByEmail(p) \/ RecordFailure(p) \/ ClearFailures(p)
    \/ RotateLogin(p) \/ HandleLogout(p) \/ HandleRevokeAll(p) \/ InvalidateForLogout(p) \/ ClearIdentity(p)
    \/ InvalidateForRevoke(p) \/ Reissue(p) \/ AnswerRevoked(p) \/ SaveEmail(p) \/ DeleteUser(p)

AccountsNext ==
    \/ \E p \in Conns : ClientStep(p) \/ IdentityStep(p) \/ AccountStep(p)
    \/ Late
    \/ \E e \in Emails : WindowEnds(e)

AccountsSpec == AccountsInit /\ [][AccountsNext]_accountVars

-----------------------------------------------------------------------------
(* Properties. *)

(* Nothing about u is under way. *)
Settled(u) ==
    /\ \A p \in Conns : call[p].id # u /\ mail[p] = <<>>
    /\ \A s \in late : s.id # u

(* An identity without an account is not lost: when nothing about it is    *)
(* under way, some client has the token that is stored, whatever fails and *)
(* however connections come and go.  Excepted are the ways the code does   *)
(* lose one: the answer to a rotation was cut off, a statement timed out   *)
(* and was made later, a lookup failed or the token had expired, the       *)
(* client took on another user or logged out, or it authenticated again,   *)
(* for one new account after another, before the answer that bears the     *)
(* token had come.                                                         *)
SomeoneHoldsToken ==
    \A u \in UserIds \ forsaken :
        token[u] > 0 /\ email[u] = "none" /\ Settled(u) => \E c \in Clients : wallet[c] = token[u]

(* A client that had no connection as u when the sessions of u were        *)
(* revoked, or u was logged out, holds no token that works, and will not   *)
(* before it logs in with the password.                                    *)
RevokedStaysOut ==
    \A c \in Clients, u \in UserIds : << c, u >> \in outside => wallet[c] \notin { t \in { token[u] } : t > 0 }

(* Wrong passwords for one address, since the count was at 0, are no more  *)
(* than the limit and one for every other connection at once.              *)
LoginTriesBounded ==
    \A e \in Emails : guesses[e] <= LoginFailLimit + Cardinality(plan.conns) - 1
=============================================================================
