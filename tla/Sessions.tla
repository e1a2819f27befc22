------------------------------ MODULE Sessions ------------------------------
(***************************************************************************)
(* Accounts and refresh tokens of the authentication service: a user       *)
(* registers under an address, a login opens a family of tokens, each      *)
(* refresh rotates the token it is given into a new one, and a logout, or  *)
(* the use of a token that was rotated already, revokes the family         *)
(* (authapi.Server, RegisterUserHandler, LoginUserHandler, the users and   *)
(* refresh_tokens rows).                                                   *)
(*                                                                         *)
(* A worker is one call to the service.  Each SQL statement or transaction *)
(* is one step; a call may die before any of them, and its answer may be   *)
(* lost.  A device is the client that logged in; it may have several calls *)
(* under way.  Somebody else may present any token that was ever issued,   *)
(* rotated ones too, and keeps the answer to himself.  Accounts stay       *)
(* active and keep their passwords: nothing calls the store's UpdateStatus *)
(* and SetPasswordHash.                                                    *)
(*                                                                         *)
(* "secret", "lost", "overlapped", "stolen", "loggedOut" and "closed" are  *)
(* history variables.                                                      *)
(***************************************************************************)
EXTENDS Naturals, FiniteSets

CONSTANTS Families,  \* logins, one per device
          Tokens,    \* token ids, drawn fresh by the service
          Workers,   \* concurrent calls
          Emails,    \* addresses, trimmed and in lower case
          Passwords,
          None

ASSUME NoneAssumption == None \notin Families \cup Tokens \cup Emails \cup Passwords

VARIABLES
  users,       \* rows of users, by their address: the password's hash
  tokens,      \* rows of refresh_tokens
  expired,     \* tokens past expires_at
  device,      \* the token each device would present next
  pc,
  job,         \* the call's kind and who makes it, the token presented, its family,
               \* the new token, and the credentials of a registration or a login
  secret,      \* the password each device logged in with
  lost,        \* families of which an answer with a token was lost
  overlapped,  \* families of which two calls were under way at a time
  stolen,      \* families of which somebody else than the device presented a token
  loggedOut,   \* families a logout has revoked
  closed       \* families revoked while no call was about to rotate a token

vars == <<users, tokens, expired, device, pc, job, secret, lost, overlapped, stolen,
          loggedOut, closed>>

-----------------------------------------------------------------------------
Rows == [family : Families \cup {None}, user : Emails \cup {None}, revoked : BOOLEAN,
         replacedBy : Tokens \cup {None}]
NoRow == [family |-> None, user |-> None, revoked |-> FALSE, replacedBy |-> None]

Issued(t) == tokens[t] # NoRow
Of(f) == {t \in Tokens : tokens[t].family = f}
Live(t) == /\ Issued(t) /\ ~tokens[t].revoked /\ t \notin expired
           /\ tokens[t].replacedBy = None

Jobs == [kind : {"register", "login", "refresh", "logout", "none"}, by : {"device", "other"},
         family : Families \cup {None}, token : Tokens \cup {None},
         new : Tokens \cup {None}, email : Emails \cup {None},
         password : Passwords \cup {None}]
NoJob == [kind |-> "none", by |-> "device", family |-> None, token |-> None, new |-> None,
          email |-> None, password |-> None]

Steps == {"idle", "insert", "verify", "issue", "find", "rotate", "revoke", "reply"}

\* What is stored says nothing but whether a password matches it.
HashPassword(p) == <<"argon2id", p>>
VerifyPassword(p, hash) == hash = HashPassword(p)
NoUser == <<"absent">>

Init ==
  /\ users = [e \in Emails |-> NoUser]
  /\ tokens = [t \in Tokens |-> NoRow]
  /\ expired = {}
  /\ device = [f \in Families |-> None]
  /\ pc = [w \in Workers |-> "idle"]
  /\ job = [w \in Workers |-> NoJob]
  /\ secret = [f \in Families |-> None]
  /\ lost = {}
  /\ overlapped = {}
  /\ stolen = {}
  /\ loggedOut = {}
  /\ closed = {}

Calls(f) == {w \in Workers : job[w].family = f}

\* A UUID nobody has drawn yet.
Fresh(t) == ~Issued(t) /\ \A w \in Workers : job[w].new # t

Goto(w, step) == /\ pc' = [pc EXCEPT ![w] = step]
                 /\ UNCHANGED <<job, overlapped>>

Call(w, step, j) ==
  /\ pc[w] = "idle"
  /\ pc' = [pc EXCEPT ![w] = step]
  /\ job' = [job EXCEPT ![w] = j]
  /\ overlapped' = IF j.family = None \/ Calls(j.family) = {}
                     THEN overlapped
                     ELSE overlapped \cup {j.family}

Return(w) == /\ pc' = [pc EXCEPT ![w] = "idle"]
             /\ job' = [job EXCEPT ![w] = NoJob]
             /\ UNCHANGED overlapped

-----------------------------------------------------------------------------
(* RegisterUser and LoginUser.                                             *)

Register(w) ==
  /\ \E e \in Emails, p \in Passwords :
       Call(w, "insert", [NoJob EXCEPT !.kind = "register", !.email = e, !.password = p])
  /\ UNCHANGED <<users, tokens, expired, device, secret, lost, stolen, loggedOut, closed>>

\* Mutant: the insert overwrites what it finds.
EmailFreeAlways(e) == TRUE

\* The unique constraint on the address is all that stands between two calls.
EmailFree(e) == users[e] = NoUser

\* The hash is made, the row inserted or refused, and the call answered; that its
\* audit row may be missing changes neither.
CreateUser(w) ==
  LET e == job[w].email IN
  /\ pc[w] = "insert"
  /\ users' = IF EmailFree(e) THEN [users EXCEPT ![e] = HashPassword(job[w].password)]
                              ELSE users
  /\ Return(w)
  /\ UNCHANGED <<tokens, expired, device, secret, lost, stolen, loggedOut, closed>>

Login(w, f) ==
  /\ Of(f) = {} /\ Calls(f) = {}
  /\ \E e \in Emails, p \in Passwords :
       Call(w, "verify", [NoJob EXCEPT !.kind = "login", !.family = f,
                                       !.email = e, !.password = p])
  /\ UNCHANGED <<users, tokens, expired, device, secret, lost, stolen, loggedOut, closed>>

\* No account and a password that does not match are refused alike.
GetUserByEmail(w) ==
  LET row == users[job[w].email]
      known == row # NoUser /\ VerifyPassword(job[w].password, row) IN
  /\ pc[w] = "verify"
  /\ \/ ~known /\ Return(w)
     \/ /\ known
        /\ \E t \in Tokens : Fresh(t) /\ job' = [job EXCEPT ![w].new = t]
        /\ pc' = [pc EXCEPT ![w] = "issue"]
        /\ UNCHANGED overlapped
  /\ UNCHANGED <<users, tokens, expired, device, secret, lost, stolen, loggedOut, closed>>

CreateRefreshToken(w) ==
  /\ pc[w] = "issue"
  /\ tokens' = [tokens EXCEPT ![job[w].new] =
                  [NoRow EXCEPT !.family = job[w].family, !.user = job[w].email]]
  /\ secret' = [secret EXCEPT ![job[w].family] = job[w].password]
  /\ Goto(w, "reply")
  /\ UNCHANGED <<users, expired, device, lost, stolen, loggedOut, closed>>

-----------------------------------------------------------------------------
(* RefreshSession and LogoutUser.                                          *)

Present(w, f, kind) ==
  /\ device[f] # None
  /\ Call(w, "find", [NoJob EXCEPT !.kind = kind, !.family = f, !.token = device[f]])
  /\ UNCHANGED <<users, tokens, expired, device, secret, lost, stolen, loggedOut, closed>>

\* The service takes a token from whoever presents it.
PresentStolen(w, t, kind) ==
  LET f == tokens[t].family IN
  /\ Issued(t)
  /\ Call(w, "find", [NoJob EXCEPT !.kind = kind, !.by = "other", !.family = f, !.token = t])
  /\ stolen' = stolen \cup {f}
  /\ UNCHANGED <<users, tokens, expired, device, secret, lost, loggedOut, closed>>

RefusedOnlyExpired(t) == t \in expired
ReplayedNever(t) == FALSE

\* What RefreshSession does with the row it read.
Refused(t) == tokens[t].revoked \/ t \in expired
Replayed(t) == tokens[t].replacedBy # None

GetTokenByHash(w) ==
  /\ pc[w] = "find"
  /\ LET t == job[w].token
     IN \/ /\ job[w].kind = "refresh" /\ Refused(t)
           /\ Return(w)
        \/ /\ IF job[w].kind = "refresh" THEN ~Refused(t) /\ Replayed(t) ELSE TRUE
           /\ Goto(w, "revoke")
        \/ /\ job[w].kind = "refresh" /\ ~Refused(t) /\ ~Replayed(t)
           /\ \E new \in Tokens :
                /\ Fresh(new)
                /\ job' = [job EXCEPT ![w].new = new]
           /\ pc' = [pc EXCEPT ![w] = "rotate"]
           /\ UNCHANGED overlapped
  /\ UNCHANGED <<users, tokens, expired, device, secret, lost, stolen, loggedOut, closed>>

\* The transaction inserts the new token and marks the old one by its id, whatever
\* has become of the family since the row was read.
RotateToken(w) ==
  /\ pc[w] = "rotate"
  /\ tokens' = [tokens EXCEPT
       ![job[w].new] = [NoRow EXCEPT !.family = job[w].family,
                                     !.user = tokens[job[w].token].user],
       ![job[w].token].replacedBy = job[w].new]
  /\ Goto(w, "reply")
  /\ UNCHANGED <<users, expired, device, secret, lost, stolen, loggedOut, closed>>

Rotating(f) == \E v \in Workers : pc[v] = "rotate" /\ job[v].family = f

RevokeTokensOfUser(w) ==
  /\ pc[w] = "revoke"
  /\ tokens' = [t \in Tokens |-> IF Issued(t)
                                   THEN [tokens[t] EXCEPT !.revoked = TRUE]
                                   ELSE tokens[t]]
  /\ loggedOut' = IF job[w].kind = "logout" THEN loggedOut \cup {job[w].family} ELSE loggedOut
  /\ closed' = IF Rotating(job[w].family) THEN closed ELSE closed \cup {job[w].family}
  /\ Return(w)
  /\ UNCHANGED <<users, expired, device, secret, lost, stolen>>

\* One UPDATE over the rows of the family that are not revoked yet.
RevokeTokenFamily(w) ==
  /\ pc[w] = "revoke"
  /\ tokens' = [t \in Tokens |-> IF t \in Of(job[w].family)
                                   THEN [tokens[t] EXCEPT !.revoked = TRUE]
                                   ELSE tokens[t]]
  /\ loggedOut' = IF job[w].kind = "logout" THEN loggedOut \cup {job[w].family} ELSE loggedOut
  /\ closed' = IF Rotating(job[w].family) THEN closed ELSE closed \cup {job[w].family}
  /\ Return(w)
  /\ UNCHANGED <<users, expired, device, secret, lost, stolen>>

-----------------------------------------------------------------------------
(* The callers, the clock and the network.                                 *)

Receive(w) ==
  /\ pc[w] = "reply"
  /\ device' = IF job[w].by = "device" THEN [device EXCEPT ![job[w].family] = job[w].new]
                                        ELSE device
  /\ Return(w)
  /\ UNCHANGED <<users, tokens, expired, secret, lost, stolen, loggedOut, closed>>

\* The call fails: it dies, a statement fails, or its answer is lost.  A logout
\* that cannot revoke the family answers success all the same.
Fail(w) ==
  /\ pc[w] # "idle"
  /\ lost' = IF pc[w] = "reply" THEN lost \cup {job[w].family} ELSE lost
  /\ Return(w)
  /\ UNCHANGED <<users, tokens, expired, device, secret, stolen, loggedOut, closed>>

Expire(t) ==
  /\ Issued(t) /\ t \notin expired
  /\ expired' = expired \cup {t}
  /\ UNCHANGED <<users, tokens, device, pc, job, secret, lost, overlapped, stolen, loggedOut,
                 closed>>

Next ==
  \/ \E w \in Workers :
       \/ \E f \in Families : Login(w, f) \/ Present(w, f, "refresh") \/ Present(w, f, "logout")
       \/ \E t \in Tokens : PresentStolen(w, t, "refresh") \/ PresentStolen(w, t, "logout")
       \/ Register(w) \/ CreateUser(w) \/ GetUserByEmail(w)
       \/ CreateRefreshToken(w) \/ GetTokenByHash(w) \/ RotateToken(w)
       \/ RevokeTokenFamily(w) \/ Receive(w) \/ Fail(w)
  \/ \E t \in Tokens : Expire(t)

Spec == Init /\ [][Next]_vars

-----------------------------------------------------------------------------
(* Properties.                                                             *)

TypeOK ==
  /\ users \in [Emails -> {HashPassword(p) : p \in Passwords} \cup {NoUser}]
  /\ secret \in [Families -> Passwords \cup {None}]
  /\ tokens \in [Tokens -> Rows]
  /\ expired \subseteq Tokens
  /\ device \in [Families -> Tokens \cup {None}]
  /\ pc \in [Workers -> Steps]
  /\ job \in [Workers -> Jobs]
  /\ \A set \in {lost, overlapped, stolen, loggedOut, closed} : set \subseteq Families

\* A family revoked by logout or replay detection stays dead: no later call, with
\* whichever of its tokens, brings a token of it to life again.  It takes a
\* refresh between its read and its rotation at that moment to escape ("closed").
RevocationIsFinal == \A f \in closed : \A t \in Of(f) : ~Live(t)

\* Rotation leaves one usable token per session: in a family whose calls never
\* overlapped, the device and those who stole its tokens never hold two that work,
\* so that a theft shows as soon as the other party's token is refused.
OneLiveToken ==
  \A f \in Families \ overlapped : Cardinality({t \in Of(f) : Live(t)}) <= 1

\* A device that makes one call at a time, gets its answers and alone presents its
\* tokens keeps its session until it logs out or the token expires: none of its
\* refreshes is taken for a replay, and no replay or logout of another family, by
\* its device or by a thief, reaches it.
SessionSurvives ==
  \A f \in Families :
    /\ device[f] # None
    /\ f \notin lost \cup overlapped \cup stolen \cup loggedOut
    /\ Calls(f) = {}
    => Live(device[f]) \/ device[f] \in expired

\* A session is open only to who knows the account's password: whatever races for
\* an address, no registration takes over an account that has sessions already,
\* and no refresh moves a session to another account.
SessionsMatchAccounts ==
  \A t \in Tokens : Issued(t) =>
    VerifyPassword(secret[tokens[t].family], users[tokens[t].user])
=============================================================================
