--------------------------- MODULE SessionsProofs ---------------------------
(***************************************************************************)
(* Proofs about Sessions, for any number of devices, tokens, accounts and  *)
(* concurrent calls.                                                       *)
(***************************************************************************)
EXTENDS Sessions, FiniteSetTheorems, TLAPS

(***************************************************************************)
(* The inductive invariant.  RowInv: where the rows and the devices point. *)
(* JobInv: what a call at each step may rely on; a login is alone with its *)
(* family, and a token drawn but not stored yet is nobody else's.          *)
(* ClosedInv: a family that was closed has no token left to rotate, nor a  *)
(* call about to rotate one.  ChainInv: without overlapping calls, the     *)
(* tokens of a family form one chain.  DeviceInv: the last token of the    *)
(* chain is where its device can present it, or on its way there, as long  *)
(* as nobody else presents a token of the family.                          *)
(***************************************************************************)
RowInv ==
  /\ \A t \in Tokens : Issued(t) => tokens[t].family \in Families /\ tokens[t].user \in Emails
  /\ \A f \in Families : device[f] # None => device[f] \in Of(f)

JobOK(w) ==
  LET j == job[w] IN
  /\ pc[w] = "idle" => j = NoJob
  /\ pc[w] = "insert" =>
       /\ j.family = None /\ j.new = None
       /\ j.email \in Emails /\ j.password \in Passwords
  /\ pc[w] \in {"verify", "issue"} =>
       /\ j.family \in Families /\ j.email \in Emails /\ j.password \in Passwords
       /\ Of(j.family) = {} /\ device[j.family] = None
       /\ Calls(j.family) = {w}
  /\ pc[w] \in {"find", "rotate", "revoke"} =>
       j.family \in Families /\ j.token \in Of(j.family)
  /\ pc[w] = "find" => j.kind \in {"refresh", "logout"}
  /\ pc[w] \in {"issue", "rotate"} => j.new \in Tokens /\ ~Issued(j.new)
  /\ pc[w] = "issue" => VerifyPassword(j.password, users[j.email])
  /\ pc[w] = "reply" => j.family \in Families /\ j.new \in Of(j.family)

JobInv ==
  /\ \A w \in Workers : JobOK(w)
  /\ \A v, w \in Workers : job[v].new = job[w].new /\ job[w].new # None => v = w

ClosedInv ==
  \A f \in closed : /\ Of(f) # {} /\ ~Rotating(f)
                    /\ \A t \in Of(f) : tokens[t].revoked

ChainInv ==
  \A f \in Families \ overlapped :
    /\ \A v, w \in Calls(f) : v = w
    /\ \A t, u \in Of(f) :
         tokens[t].replacedBy = None /\ tokens[u].replacedBy = None => t = u
    /\ \A w \in Calls(f) : pc[w] = "rotate" => tokens[job[w].token].replacedBy = None

Usable(t) == ~tokens[t].revoked /\ tokens[t].replacedBy = None

DeviceInv ==
  \A f \in Families \ (lost \cup overlapped \cup stolen \cup loggedOut) :
    /\ \A w \in Calls(f) :
         /\ job[w].by = "device"
         /\ pc[w] = "reply" => Usable(job[w].new)
         /\ pc[w] = "revoke" => job[w].kind = "logout"
         /\ pc[w] \in {"find", "rotate"} => job[w].token = device[f]
    /\ device[f] # None /\ (\A w \in Calls(f) : pc[w] # "reply") => Usable(device[f])

IInv == /\ TypeOK /\ RowInv /\ JobInv /\ ClosedInv /\ ChainInv /\ DeviceInv
        /\ SessionsMatchAccounts
-----------------------------------------------------------------------------
(* What the building blocks of the actions do.                             *)

LEMMA NoJobType == NoJob \in Jobs /\ "idle" \in Steps
  BY DEF NoJob, Jobs, Steps

\* Password hashes differ from the mark of an absent account.
LEMMA HashIsNoMark == \A p : HashPassword(p) # NoUser
  BY DEF HashPassword, NoUser

LEMMA CallEffect ==
  ASSUME TypeOK, JobInv, NEW w \in Workers, NEW step, NEW j, Call(w, step, j)
  PROVE  /\ pc[w] = "idle" /\ job[w] = NoJob
         /\ pc'[w] = step /\ job'[w] = j
         /\ \A v \in Workers \ {w} : pc'[v] = pc[v] /\ job'[v] = job[v]
         /\ \A g \in Families :
              Calls(g)' = IF g = j.family THEN Calls(g) \cup {w} ELSE Calls(g)
<1>1. pc[w] = "idle" /\ job[w] = NoJob
  BY DEF Call, JobInv, JobOK
<1>2. /\ pc'[w] = step /\ job'[w] = j
      /\ \A v \in Workers \ {w} : pc'[v] = pc[v] /\ job'[v] = job[v]
  BY DEF Call, TypeOK
<1>3. \A g \in Families : job[w].family # g
  BY <1>1, NoneAssumption DEF NoJob
<1>4. QED
  BY <1>1, <1>2, <1>3 DEF Calls

LEMMA ReturnEffect ==
  ASSUME TypeOK, NEW w \in Workers, Return(w)
  PROVE  /\ pc'[w] = "idle" /\ job'[w] = NoJob
         /\ \A v \in Workers \ {w} : pc'[v] = pc[v] /\ job'[v] = job[v]
         /\ \A g \in Families : Calls(g)' = Calls(g) \ {w}
<1>1. /\ pc'[w] = "idle" /\ job'[w] = NoJob
      /\ \A v \in Workers \ {w} : pc'[v] = pc[v] /\ job'[v] = job[v]
  BY DEF Return, TypeOK
<1>2. \A g \in Families : job'[w].family # g
  BY <1>1, NoneAssumption DEF NoJob
<1>3. QED
  BY <1>1, <1>2 DEF Calls

\* The call goes on to its next statement, and may have drawn a token.
LEMMA MoveEffect ==
  ASSUME TypeOK, NEW w \in Workers, NEW step,
         pc' = [pc EXCEPT ![w] = step],
         \/ UNCHANGED job
         \/ \E t \in Tokens : job' = [job EXCEPT ![w].new = t]
  PROVE  /\ pc'[w] = step
         /\ \A v \in Workers \ {w} : pc'[v] = pc[v] /\ job'[v] = job[v]
         /\ \A v \in Workers : /\ job'[v].kind = job[v].kind
                               /\ job'[v].by = job[v].by
                               /\ job'[v].family = job[v].family
                               /\ job'[v].token = job[v].token
                               /\ job'[v].email = job[v].email
                               /\ job'[v].password = job[v].password
         /\ \A g \in Families : Calls(g)' = Calls(g)
<1>1. /\ pc'[w] = step
      /\ \A v \in Workers \ {w} : pc'[v] = pc[v] /\ job'[v] = job[v]
      /\ \A v \in Workers : /\ job'[v].kind = job[v].kind
                            /\ job'[v].by = job[v].by
                            /\ job'[v].family = job[v].family
                            /\ job'[v].token = job[v].token
                            /\ job'[v].email = job[v].email
                            /\ job'[v].password = job[v].password
  BY DEF TypeOK, Jobs
<1>2. QED
  BY <1>1 DEF Calls

LEMMA SameRows ==
  ASSUME UNCHANGED tokens
  PROVE  /\ \A f : Of(f)' = Of(f)
         /\ \A t : Issued(t)' = Issued(t)
  BY DEF Of, Issued

LEMMA SameCalls ==
  ASSUME UNCHANGED <<pc, job>>
  PROVE  \A f : Calls(f)' = Calls(f)
  BY DEF Calls

\* A login stores the first token of its family.
Issues(w, f, n) ==
  /\ job[w].family = f /\ job[w].new = n /\ job[w].email \in Emails
  /\ ~Issued(n) /\ Of(f) = {} /\ Of(f)' = {n}
  /\ tokens'[n] = [family |-> f, user |-> job[w].email, revoked |-> FALSE,
                   replacedBy |-> None]
  /\ \A t \in Tokens \ {n} : tokens'[t] = tokens[t]
  /\ \A g \in Families \ {f} : Of(g)' = Of(g)
  /\ \A t \in Tokens : Issued(t)' <=> Issued(t) \/ t = n

LEMMA IssueEffect ==
  ASSUME TypeOK, JobInv, NEW w \in Workers, CreateRefreshToken(w)
  PROVE  \E f \in Families, n \in Tokens : Issues(w, f, n)
<1>1. PICK f \in Families, n \in Tokens :
        /\ job[w].family = f /\ job[w].new = n /\ job[w].email \in Emails
        /\ ~Issued(n) /\ Of(f) = {}
  BY DEF CreateRefreshToken, JobInv, JobOK
<1>2. /\ tokens'[n] = [family |-> f, user |-> job[w].email, revoked |-> FALSE,
                       replacedBy |-> None]
      /\ \A t \in Tokens \ {n} : tokens'[t] = tokens[t]
  BY <1>1 DEF CreateRefreshToken, TypeOK, NoRow
<1>3. f # None
  BY <1>1, NoneAssumption
<1>4. \A t \in Tokens : Issued(t)' <=> Issued(t) \/ t = n
  BY <1>2, <1>3 DEF Issued, NoRow
<1>5. Of(f)' = {n}
  BY <1>1, <1>2 DEF Of
<1>6. \A g \in Families \ {f} : Of(g)' = Of(g)
  <2>1. \A g \in Families : tokens[n].family # g
    BY <1>1, NoneAssumption DEF Issued, NoRow
  <2>2. QED
    BY <1>1, <1>2, <2>1 DEF Of
<1>7. QED
  BY <1>1, <1>2, <1>4, <1>5, <1>6 DEF Issues

\* A rotation adds a token to the family and links the presented one to it.
Rotates(w, f, t, n) ==
  /\ job[w].family = f /\ job[w].token = t /\ job[w].new = n
  /\ t \in Of(f) /\ n # t
  /\ ~Issued(n) /\ n \notin Of(f) /\ Issued(t)
  /\ tokens'[n] = [family |-> f, user |-> tokens[t].user, revoked |-> FALSE,
                   replacedBy |-> None]
  /\ tokens'[t] \in Rows
  /\ tokens'[t].family = f /\ tokens'[t].user = tokens[t].user
  /\ tokens'[t].revoked = tokens[t].revoked /\ tokens'[t].replacedBy = n
  /\ \A u \in Tokens \ {n, t} : tokens'[u] = tokens[u]
  /\ Of(f)' = Of(f) \cup {n}
  /\ \A g \in Families \ {f} : Of(g)' = Of(g)
  /\ \A u \in Tokens : Issued(u)' <=> Issued(u) \/ u = n

LEMMA RotateEffect ==
  ASSUME TypeOK, JobInv, NEW w \in Workers, RotateToken(w)
  PROVE  \E f \in Families, t \in Tokens, n \in Tokens : Rotates(w, f, t, n)
<1>1. PICK f \in Families, t \in Tokens, n \in Tokens :
        /\ job[w].family = f /\ job[w].token = t /\ job[w].new = n
        /\ t \in Of(f) /\ ~Issued(n)
  BY DEF RotateToken, JobInv, JobOK, Of
<1>2. f # None /\ tokens[t].family = f
  BY <1>1, NoneAssumption DEF Of
<1>3. Issued(t) /\ n # t /\ n \notin Of(f)
  BY <1>1, <1>2 DEF Issued, NoRow, Of
<1>4. /\ tokens'[n] = [family |-> f, user |-> tokens[t].user, revoked |-> FALSE,
                       replacedBy |-> None]
      /\ tokens'[t] = [tokens[t] EXCEPT !.replacedBy = n]
      /\ \A u \in Tokens \ {n, t} : tokens'[u] = tokens[u]
  BY <1>1, <1>2, <1>3 DEF RotateToken, TypeOK, NoRow
<1>5. /\ tokens'[t] \in Rows
      /\ tokens'[t].family = f /\ tokens'[t].user = tokens[t].user
      /\ tokens'[t].revoked = tokens[t].revoked /\ tokens'[t].replacedBy = n
  BY <1>2, <1>4 DEF TypeOK, Rows
<1>6. \A u \in Tokens : Issued(u)' <=> Issued(u) \/ u = n
  BY <1>2, <1>3, <1>4, <1>5 DEF Issued, NoRow
<1>7. \A u \in Tokens \ {n} : tokens'[u].family = tokens[u].family
  BY <1>2, <1>4, <1>5
<1>8. Of(f)' = Of(f) \cup {n}
  BY <1>4, <1>7 DEF Of
<1>9. \A g \in Families \ {f} : Of(g)' = Of(g)
  <2>1. \A g \in Families : tokens[n].family # g
    BY <1>1, NoneAssumption DEF Issued, NoRow
  <2>2. QED
    BY <1>4, <1>7, <2>1 DEF Of
<1>10. QED
  BY <1>1, <1>3, <1>4, <1>5, <1>6, <1>8, <1>9 DEF Rotates

\* A revocation marks the tokens of one family and changes nothing else.
LEMMA RevokeEffect ==
  ASSUME TypeOK, JobInv, NEW w \in Workers, RevokeTokenFamily(w)
  PROVE  /\ job[w].family \in Families /\ job[w].token \in Of(job[w].family)
         /\ \A t \in Tokens :
              /\ tokens'[t].family = tokens[t].family
              /\ tokens'[t].user = tokens[t].user
              /\ tokens'[t].replacedBy = tokens[t].replacedBy
              /\ tokens'[t].revoked = (tokens[t].revoked \/ t \in Of(job[w].family))
              /\ t \notin Of(job[w].family) => tokens'[t] = tokens[t]
         /\ \A g : Of(g)' = Of(g)
         /\ \A t \in Tokens : Issued(t)' <=> Issued(t)
<1>1. job[w].family \in Families /\ job[w].token \in Of(job[w].family)
  BY DEF RevokeTokenFamily, JobInv, JobOK
<1>2. \A t \in Tokens :
        /\ tokens'[t].family = tokens[t].family
        /\ tokens'[t].user = tokens[t].user
        /\ tokens'[t].replacedBy = tokens[t].replacedBy
        /\ tokens'[t].revoked = (tokens[t].revoked \/ t \in Of(job[w].family))
        /\ t \notin Of(job[w].family) => tokens'[t] = tokens[t]
  BY DEF RevokeTokenFamily, TypeOK, Rows
<1>3. \A g : Of(g)' = Of(g)
  BY <1>2 DEF Of
<1>4. \A t \in Tokens : Issued(t)' <=> Issued(t)
  <2>1. \A t \in Of(job[w].family) : tokens[t].family # None /\ tokens'[t].family # None
    BY <1>1, <1>2, NoneAssumption DEF Of
  <2>2. QED
    BY <1>2, <2>1 DEF Issued, NoRow, Of
<1>5. QED
  BY <1>1, <1>2, <1>3, <1>4

-----------------------------------------------------------------------------
(* Every step keeps the types.                                             *)

LEMMA CallType ==
  ASSUME TypeOK, NEW w \in Workers, NEW step \in Steps, NEW j \in Jobs, Call(w, step, j)
  PROVE  /\ pc' \in [Workers -> Steps] /\ job' \in [Workers -> Jobs]
         /\ overlapped' \subseteq Families
  BY DEF TypeOK, Call, Jobs

LEMMA MoveType ==
  ASSUME TypeOK, NEW w \in Workers, NEW step \in Steps, NEW t \in Tokens,
         pc' = [pc EXCEPT ![w] = step], job' = [job EXCEPT ![w].new = t]
  PROVE  pc' \in [Workers -> Steps] /\ job' \in [Workers -> Jobs]
<1>1. [job[w] EXCEPT !.new = t] \in Jobs
  BY DEF TypeOK, Jobs
<1>2. QED
  BY <1>1 DEF TypeOK

LEMMA ReturnType ==
  ASSUME TypeOK, NEW w \in Workers, Return(w)
  PROVE  /\ pc' \in [Workers -> Steps] /\ job' \in [Workers -> Jobs]
         /\ overlapped' \subseteq Families
  BY NoJobType DEF TypeOK, Return

LEMMA GotoType ==
  ASSUME TypeOK, NEW w \in Workers, NEW step \in Steps, Goto(w, step)
  PROVE  /\ pc' \in [Workers -> Steps] /\ job' \in [Workers -> Jobs]
         /\ overlapped' \subseteq Families
  BY DEF TypeOK, Goto

LEMMA TypeStep ==
  ASSUME IInv, [Next]_vars
  PROVE  TypeOK'
<1>1. ASSUME NEW w \in Workers, NEW f \in Families, Login(w, f)
      PROVE  TypeOK'
  <2>1. PICK e \in Emails, p \in Passwords :
          Call(w, "verify", [NoJob EXCEPT !.kind = "login", !.family = f,
                                          !.email = e, !.password = p])
    BY <1>1 DEF Login
  <2>2. [NoJob EXCEPT !.kind = "login", !.family = f, !.email = e, !.password = p] \in Jobs
    BY DEF NoJob, Jobs
  <2>3. "verify" \in Steps
    BY DEF Steps
  <2>4. /\ pc' \in [Workers -> Steps] /\ job' \in [Workers -> Jobs]
        /\ overlapped' \subseteq Families
    BY <2>1, <2>2, <2>3, CallType DEF IInv
  <2>5. QED
    BY <1>1, <2>4 DEF Login, TypeOK, IInv
<1>2. ASSUME NEW w \in Workers, NEW f \in Families, NEW kind \in {"refresh", "logout"},
             Present(w, f, kind)
      PROVE  TypeOK'
  <2>1. [NoJob EXCEPT !.kind = kind, !.family = f, !.token = device[f]] \in Jobs
    BY DEF NoJob, Jobs, IInv, TypeOK
  <2>2. "find" \in Steps
    BY DEF Steps
  <2>3. /\ pc' \in [Workers -> Steps] /\ job' \in [Workers -> Jobs]
        /\ overlapped' \subseteq Families
    BY <1>2, <2>1, <2>2, CallType DEF IInv, Present
  <2>4. QED
    BY <1>2, <2>3 DEF Present, TypeOK, IInv
<1>2a. ASSUME NEW w \in Workers, NEW t \in Tokens, NEW kind \in {"refresh", "logout"},
              PresentStolen(w, t, kind)
       PROVE  TypeOK'
  <2> DEFINE j == [NoJob EXCEPT !.kind = kind, !.by = "other",
                                !.family = tokens[t].family, !.token = t]
  <2>1. tokens[t].family \in Families
    BY <1>2a DEF PresentStolen, IInv, RowInv
  <2>2. j \in Jobs
    BY <2>1 DEF NoJob, Jobs
  <2>3. Call(w, "find", j)
    BY <1>2a DEF PresentStolen
  <2>4. "find" \in Steps
    BY DEF Steps
  <2>5. /\ pc' \in [Workers -> Steps] /\ job' \in [Workers -> Jobs]
        /\ overlapped' \subseteq Families
    BY <2>2, <2>3, <2>4, CallType DEF IInv
  <2>6. QED
    BY <1>2a, <2>1, <2>5 DEF PresentStolen, TypeOK, IInv
<1>3. ASSUME NEW w \in Workers, Register(w)
      PROVE  TypeOK'
  <2>1. PICK e \in Emails, p \in Passwords :
          Call(w, "insert", [NoJob EXCEPT !.kind = "register", !.email = e, !.password = p])
    BY <1>3 DEF Register
  <2>2. [NoJob EXCEPT !.kind = "register", !.email = e, !.password = p] \in Jobs
    BY DEF NoJob, Jobs
  <2>3. "insert" \in Steps
    BY DEF Steps
  <2>4. /\ pc' \in [Workers -> Steps] /\ job' \in [Workers -> Jobs]
        /\ overlapped' \subseteq Families
    BY <2>1, <2>2, <2>3, CallType DEF IInv
  <2>5. QED
    BY <1>3, <2>4 DEF Register, TypeOK, IInv
<1>4. ASSUME NEW w \in Workers, CreateUser(w)
      PROVE  TypeOK'
  BY <1>4, ReturnType DEF CreateUser, IInv, TypeOK, JobInv, JobOK
<1>5. ASSUME NEW w \in Workers, GetUserByEmail(w)
      PROVE  TypeOK'
  <2>1. CASE Return(w)
    BY <1>5, <2>1, ReturnType DEF GetUserByEmail, IInv, TypeOK
  <2>2. CASE ~Return(w)
    <3>1. PICK t \in Tokens : job' = [job EXCEPT ![w].new = t]
      BY <1>5, <2>2 DEF GetUserByEmail
    <3>2. pc' = [pc EXCEPT ![w] = "issue"] /\ UNCHANGED overlapped
      BY <1>5, <2>2 DEF GetUserByEmail
    <3>3. "issue" \in Steps
      BY DEF Steps
    <3>4. pc' \in [Workers -> Steps] /\ job' \in [Workers -> Jobs]
      BY <3>1, <3>2, <3>3, MoveType DEF IInv
    <3>5. QED
      BY <1>5, <3>2, <3>4 DEF GetUserByEmail, IInv, TypeOK
  <2>3. QED
    BY <2>1, <2>2
<1>6. ASSUME NEW w \in Workers, CreateRefreshToken(w)
      PROVE  TypeOK'
  <2>1. "reply" \in Steps
    BY DEF Steps
  <2>2. PICK f \in Families, n \in Tokens : Issues(w, f, n)
    BY <1>6, IssueEffect DEF IInv
  <2>3. job[w].email \in Emails /\ job[w].password \in Passwords
    BY <1>6 DEF CreateRefreshToken, IInv, JobInv, JobOK
  <2>4. [NoRow EXCEPT !.family = job[w].family, !.user = job[w].email] \in Rows
    BY <2>2, <2>3 DEF NoRow, Rows, Issues
  <2>5. QED
    BY <1>6, <2>1, <2>2, <2>3, <2>4, GotoType DEF Issues, CreateRefreshToken, IInv, TypeOK
<1>7. ASSUME NEW w \in Workers, GetTokenByHash(w)
      PROVE  TypeOK'
  <2>1. CASE Return(w)
    BY <1>7, <2>1, ReturnType DEF GetTokenByHash, IInv, TypeOK
  <2>2. CASE Goto(w, "revoke")
    <3>1. "revoke" \in Steps
      BY DEF Steps
    <3>2. QED
      BY <1>7, <2>2, <3>1, GotoType DEF GetTokenByHash, IInv, TypeOK
  <2>3. CASE ~Return(w) /\ ~Goto(w, "revoke")
    <3>1. PICK t \in Tokens : job' = [job EXCEPT ![w].new = t]
      BY <1>7, <2>3 DEF GetTokenByHash
    <3>2. pc' = [pc EXCEPT ![w] = "rotate"] /\ UNCHANGED overlapped
      BY <1>7, <2>3 DEF GetTokenByHash
    <3>3. "rotate" \in Steps
      BY DEF Steps
    <3>4. pc' \in [Workers -> Steps] /\ job' \in [Workers -> Jobs]
      BY <3>1, <3>2, <3>3, MoveType DEF IInv
    <3>5. QED
      BY <1>7, <3>2, <3>4 DEF GetTokenByHash, IInv, TypeOK
  <2>4. QED
    BY <2>1, <2>2, <2>3
<1>8. ASSUME NEW w \in Workers, RotateToken(w)
      PROVE  TypeOK'
  <2>1. "reply" \in Steps
    BY DEF Steps
  <2>2. PICK f \in Families, t \in Tokens, n \in Tokens : Rotates(w, f, t, n)
    BY <1>8, RotateEffect DEF IInv
  <2>3. tokens'[n] \in Rows
    BY <2>2 DEF Rotates, Rows, IInv, TypeOK
  <2>4. \A u \in Tokens : tokens'[u] \in Rows
    BY <2>2, <2>3 DEF Rotates, IInv, TypeOK
  <2>5. tokens' = [u \in Tokens |-> tokens'[u]]
    BY <1>8, <2>2 DEF RotateToken, IInv, TypeOK
  <2>6. tokens' \in [Tokens -> Rows]
    BY <2>4, <2>5
  <2>7. QED
    BY <1>8, <2>1, <2>6, GotoType DEF RotateToken, IInv, TypeOK
<1>9. ASSUME NEW w \in Workers, RevokeTokenFamily(w)
      PROVE  TypeOK'
  <2>1. job[w].family \in Families
    BY <1>9, RevokeEffect DEF IInv
  <2>2. \A t \in Tokens : [tokens[t] EXCEPT !.revoked = TRUE] \in Rows
    BY DEF IInv, TypeOK, Rows
  <2>3. tokens' \in [Tokens -> Rows]
    BY <1>9, <2>2 DEF RevokeTokenFamily, IInv, TypeOK
  <2>4. QED
    BY <1>9, <2>1, <2>3, ReturnType DEF RevokeTokenFamily, IInv, TypeOK
<1>10. ASSUME NEW w \in Workers, Receive(w)
      PROVE  TypeOK'
  BY <1>10, ReturnType DEF Receive, IInv, TypeOK, JobInv, JobOK, Of
<1>11. ASSUME NEW w \in Workers, Fail(w)
      PROVE  TypeOK'
  BY <1>11, ReturnType DEF Fail, IInv, TypeOK, JobInv, JobOK, Of
<1>12. ASSUME NEW t \in Tokens, Expire(t)
      PROVE  TypeOK'
  BY <1>12 DEF Expire, IInv, TypeOK
<1>13. ASSUME UNCHANGED vars PROVE TypeOK'
  BY <1>13 DEF vars, IInv, TypeOK
<1>14. QED
  BY <1>1, <1>2, <1>2a, <1>3, <1>4, <1>5, <1>6, <1>7, <1>8, <1>9, <1>10, <1>11, <1>12, <1>13
     DEF Next

-----------------------------------------------------------------------------
LEMMA InitInv == Init => IInv
<1> SUFFICES ASSUME Init PROVE IInv
  OBVIOUS
<1>1. TypeOK
  BY NoJobType DEF Init, TypeOK, Rows, NoRow
<1>2. \A f \in Families : Of(f) = {}
  BY NoneAssumption DEF Init, Of, NoRow
<1>3. \A f \in Families : Calls(f) = {}
  BY NoneAssumption DEF Init, Calls, NoJob
<1>4. \A t \in Tokens : ~Issued(t)
  BY DEF Init, Issued
<1>5. JobInv
  <2>1. \A w \in Workers : job[w] = NoJob /\ pc[w] = "idle"
    BY DEF Init
  <2>2. QED
    BY <2>1 DEF JobInv, JobOK, NoJob
<1>6. QED
  BY <1>1, <1>2, <1>3, <1>4, <1>5
     DEF Init, IInv, RowInv, ClosedInv, ChainInv, DeviceInv, SessionsMatchAccounts

-----------------------------------------------------------------------------
(* Every row keeps its family and its account.                             *)

LEMMA RowStep ==
  ASSUME IInv, [Next]_vars
  PROVE  RowInv'
<1>1. ASSUME NEW w \in Workers, NEW f \in Families, Login(w, f)
      PROVE  RowInv'
  BY <1>1, SameRows DEF Login, IInv, RowInv
<1>2. ASSUME NEW w \in Workers, NEW f \in Families, NEW kind \in {"refresh", "logout"},
             Present(w, f, kind)
      PROVE  RowInv'
  BY <1>2, SameRows DEF Present, IInv, RowInv
<1>2a. ASSUME NEW w \in Workers, NEW t \in Tokens, NEW kind \in {"refresh", "logout"},
              PresentStolen(w, t, kind)
       PROVE  RowInv'
  BY <1>2a, SameRows DEF PresentStolen, IInv, RowInv
<1>3. ASSUME NEW w \in Workers, Register(w)
      PROVE  RowInv'
  BY <1>3, SameRows DEF Register, IInv, RowInv
<1>4. ASSUME NEW w \in Workers, CreateUser(w)
      PROVE  RowInv'
  BY <1>4, SameRows DEF CreateUser, IInv, RowInv
<1>5. ASSUME NEW w \in Workers, GetUserByEmail(w)
      PROVE  RowInv'
  BY <1>5, SameRows DEF GetUserByEmail, IInv, RowInv
<1>6. ASSUME NEW w \in Workers, CreateRefreshToken(w)
      PROVE  RowInv'
  <2>1. PICK f \in Families, n \in Tokens : Issues(w, f, n)
    BY <1>6, IssueEffect DEF IInv
  <2>2. device' = device
    BY <1>6 DEF CreateRefreshToken
  <2>3. QED
    BY <2>1, <2>2 DEF IInv, RowInv, Issues
<1>7. ASSUME NEW w \in Workers, GetTokenByHash(w)
      PROVE  RowInv'
  BY <1>7, SameRows DEF GetTokenByHash, IInv, RowInv
<1>8. ASSUME NEW w \in Workers, RotateToken(w)
      PROVE  RowInv'
  <2>1. PICK f \in Families, t \in Tokens, n \in Tokens : Rotates(w, f, t, n)
    BY <1>8, RotateEffect DEF IInv
  <2>2. device' = device
    BY <1>8 DEF RotateToken
  <2>3. QED
    BY <2>1, <2>2 DEF IInv, RowInv, Rotates
<1>9. ASSUME NEW w \in Workers, RevokeTokenFamily(w)
      PROVE  RowInv'
  <2>1. device' = device
    BY <1>9 DEF RevokeTokenFamily
  <2>2. QED
    BY <1>9, <2>1, RevokeEffect DEF IInv, RowInv
<1>10. ASSUME NEW w \in Workers, Receive(w)
      PROVE  RowInv'
  <2>1. job[w].family \in Families /\ job[w].new \in Of(job[w].family)
    BY <1>10 DEF Receive, IInv, JobInv, JobOK
  <2>2. QED
    BY <1>10, <2>1, SameRows DEF Receive, IInv, RowInv, TypeOK
<1>11. ASSUME NEW w \in Workers, Fail(w)
      PROVE  RowInv'
  BY <1>11, SameRows DEF Fail, IInv, RowInv
<1>12. ASSUME NEW t \in Tokens, Expire(t)
      PROVE  RowInv'
  BY <1>12, SameRows DEF Expire, IInv, RowInv
<1>13. ASSUME UNCHANGED vars PROVE RowInv'
  BY <1>13, SameRows DEF vars, IInv, RowInv
<1>14. QED
  BY <1>1, <1>2, <1>2a, <1>3, <1>4, <1>5, <1>6, <1>7, <1>8, <1>9, <1>10, <1>11, <1>12, <1>13
     DEF Next

-----------------------------------------------------------------------------
(* What the calls rely on outlives the steps of the others.                *)

LEMMA OthersKeep ==
  ASSUME IInv, NEW w \in Workers, NEW v \in Workers \ {w},
         pc'[v] = pc[v], job'[v] = job[v],
         \A f \in Families : Of(f) \subseteq Of(f)',
         \A t \in Tokens : ~Issued(t) /\ t # job[w].new => ~Issued(t)',
         \A e \in Emails : users[e] # NoUser => users'[e] = users[e],
         \A f \in Families : Calls(f) = {v} => Of(f)' = Of(f) /\ device'[f] = device[f],
         \A f \in Families :
           Calls(f) = {v} /\ Of(f) = {} /\ device[f] = None => Calls(f)' = {v}
  PROVE  JobOK(v)'
<1>1. JobOK(v)
  BY DEF IInv, JobInv
<1>2. ASSUME pc[v] \in {"issue", "rotate"} PROVE ~Issued(job[v].new)'
  <2>1. job[v].new # job[w].new
    BY <1>1, <1>2, NoneAssumption DEF IInv, JobInv, JobOK
  <2>2. job[v].new \in Tokens /\ ~Issued(job[v].new)
    BY <1>1, <1>2 DEF JobOK
  <2>3. PICK n \in Tokens : n = job[v].new
    BY <2>2
  <2>4. ~Issued(n)'
    BY <2>1, <2>2, <2>3
  <2>5. QED
    BY <2>3, <2>4 DEF Issued
<1>3. ASSUME pc[v] = "issue" PROVE VerifyPassword(job[v].password, users'[job[v].email])
  BY <1>1, <1>3, HashIsNoMark DEF JobOK, VerifyPassword
<1>4. ASSUME pc[v] \in {"verify", "issue"}
      PROVE  /\ Of(job[v].family)' = {} /\ device'[job[v].family] = None
             /\ Calls(job[v].family)' = {v}
  <2>1. PICK f \in Families : f = job[v].family
    BY <1>1, <1>4 DEF JobOK
  <2>2. Of(f) = {} /\ device[f] = None /\ Calls(f) = {v}
    BY <1>1, <1>4, <2>1 DEF JobOK
  <2>3. Of(f)' = {} /\ device'[f] = None /\ Calls(f)' = {v}
    BY <2>2
  <2>4. QED
    BY <2>1, <2>3 DEF Of, Calls
<1>5. ASSUME NEW t \in Of(job[v].family), job[v].family \in Families
      PROVE  t \in Of(job[v].family)'
  <2>1. PICK f \in Families : f = job[v].family
    BY <1>5
  <2>2. t \in Of(f)'
    BY <1>5, <2>1
  <2>3. QED
    BY <2>1, <2>2 DEF Of
<1>6. QED
  BY <1>1, <1>2, <1>3, <1>4, <1>5 DEF JobOK

LEMMA NewKept ==
  ASSUME IInv, NEW w \in Workers,
         \A v \in Workers \ {w} : job'[v] = job[v],
         \/ job'[w].new \in {None, job[w].new}
         \/ \A v \in Workers : job[v].new # job'[w].new
  PROVE  \A v, u \in Workers : job'[v].new = job'[u].new /\ job'[u].new # None => v = u
  BY DEF IInv, JobInv

-----------------------------------------------------------------------------
(* A call may rely on what brought it to its step.                         *)

LEMMA JobStep ==
  ASSUME IInv, [Next]_vars
  PROVE  JobInv'
<1>1. ASSUME NEW w \in Workers, NEW f \in Families, Login(w, f)
      PROVE  JobInv'
  <2>1. PICK e, p, j :
          /\ e \in Emails /\ p \in Passwords
          /\ j = [NoJob EXCEPT !.kind = "login", !.family = f, !.email = e, !.password = p]
          /\ Call(w, "verify", j)
    BY <1>1 DEF Login
  <2>2. /\ job'[w] = j /\ pc'[w] = "verify"
        /\ \A v \in Workers \ {w} : pc'[v] = pc[v] /\ job'[v] = job[v]
        /\ \A g \in Families :
             Calls(g)' = IF g = j.family THEN Calls(g) \cup {w} ELSE Calls(g)
    <3>1. TypeOK /\ JobInv /\ Call(w, "verify", j)
      BY <2>1 DEF IInv
    <3>2. QED
      BY <3>1, CallEffect
  <2>3. UNCHANGED <<users, tokens, device>>
    BY <1>1 DEF Login
  <2>4. \A g : Of(g)' = Of(g)
    BY <2>3, SameRows
  <2>5. ASSUME NEW v \in Workers \ {w} PROVE JobOK(v)'
    BY <1>1, <2>1, <2>2, <2>3, <2>4, SameRows, OthersKeep, NoneAssumption DEF Login
  <2>6. JobOK(w)'
    BY <1>1, <2>1, <2>2, <2>3, <2>4, NoneAssumption DEF JobOK, NoJob, IInv, RowInv, Login
  <2>7. \A v, u \in Workers : job'[v].new = job'[u].new /\ job'[u].new # None => v = u
    BY <2>1, <2>2, NewKept DEF NoJob
  <2>8. QED
    BY <2>5, <2>6, <2>7 DEF JobInv
<1>2. ASSUME NEW w \in Workers, NEW f \in Families, NEW kind \in {"refresh", "logout"},
             Present(w, f, kind)
      PROVE  JobInv'
  <2>1. PICK j :
          /\ j = [NoJob EXCEPT !.kind = kind, !.family = f, !.token = device[f]]
          /\ Call(w, "find", j)
    BY <1>2 DEF Present
  <2>2. /\ job'[w] = j /\ pc'[w] = "find"
        /\ \A v \in Workers \ {w} : pc'[v] = pc[v] /\ job'[v] = job[v]
        /\ \A g \in Families :
             Calls(g)' = IF g = j.family THEN Calls(g) \cup {w} ELSE Calls(g)
    <3>1. TypeOK /\ JobInv /\ Call(w, "find", j)
      BY <2>1 DEF IInv
    <3>2. QED
      BY <3>1, CallEffect
  <2>3. UNCHANGED <<users, tokens, device>>
    BY <1>2 DEF Present
  <2>4. \A g : Of(g)' = Of(g)
    BY <2>3, SameRows
  <2>5. ASSUME NEW v \in Workers \ {w} PROVE JobOK(v)'
    BY <1>2, <2>1, <2>2, <2>3, <2>4, SameRows, OthersKeep, NoneAssumption DEF Present
  <2>6. JobOK(w)'
    BY <1>2, <2>1, <2>2, <2>3, <2>4, NoneAssumption DEF JobOK, NoJob, IInv, RowInv, Present
  <2>7. \A v, u \in Workers : job'[v].new = job'[u].new /\ job'[u].new # None => v = u
    BY <2>1, <2>2, NewKept DEF NoJob
  <2>8. QED
    BY <2>5, <2>6, <2>7 DEF JobInv
<1>2a. ASSUME NEW w \in Workers, NEW t \in Tokens, NEW kind \in {"refresh", "logout"},
              PresentStolen(w, t, kind)
       PROVE  JobInv'
  <2>0. tokens[t].family \in Families /\ t \in Of(tokens[t].family)
    BY <1>2a DEF PresentStolen, IInv, RowInv, Of
  <2>1. PICK j :
          /\ j = [NoJob EXCEPT !.kind = kind, !.by = "other", !.family = tokens[t].family,
                               !.token = t]
          /\ Call(w, "find", j)
    BY <1>2a DEF PresentStolen
  <2>2. /\ job'[w] = j /\ pc'[w] = "find"
        /\ \A v \in Workers \ {w} : pc'[v] = pc[v] /\ job'[v] = job[v]
        /\ \A g \in Families :
             Calls(g)' = IF g = j.family THEN Calls(g) \cup {w} ELSE Calls(g)
    <3>1. TypeOK /\ JobInv /\ Call(w, "find", j)
      BY <2>1 DEF IInv
    <3>2. QED
      BY <3>1, CallEffect
  <2>3. UNCHANGED <<users, tokens, device>>
    BY <1>2a DEF PresentStolen
  <2>4. \A g : Of(g)' = Of(g)
    BY <2>3, SameRows
  <2>5. ASSUME NEW v \in Workers \ {w} PROVE JobOK(v)'
    <3>1. j.family = tokens[t].family
      BY <2>1 DEF NoJob
    <3>2. \A g \in Families : Of(g) = {} => Calls(g)' = Calls(g)
      BY <2>0, <2>2, <3>1
    <3>3. QED
      BY <2>2, <2>3, <2>4, <3>2, SameRows, OthersKeep
  <2>6. JobOK(w)'
    BY <2>0, <2>1, <2>2, <2>3, <2>4, NoneAssumption DEF JobOK, NoJob
  <2>7. \A v, u \in Workers : job'[v].new = job'[u].new /\ job'[u].new # None => v = u
    BY <2>1, <2>2, NewKept DEF NoJob
  <2>8. QED
    BY <2>5, <2>6, <2>7 DEF JobInv
<1>3. ASSUME NEW w \in Workers, Register(w)
      PROVE  JobInv'
  <2>1. PICK e, p, j :
          /\ e \in Emails /\ p \in Passwords
          /\ j = [NoJob EXCEPT !.kind = "register", !.email = e, !.password = p]
          /\ Call(w, "insert", j)
    BY <1>3 DEF Register
  <2>2. /\ job'[w] = j /\ pc'[w] = "insert"
        /\ \A v \in Workers \ {w} : pc'[v] = pc[v] /\ job'[v] = job[v]
        /\ \A g \in Families :
             Calls(g)' = IF g = j.family THEN Calls(g) \cup {w} ELSE Calls(g)
    <3>1. TypeOK /\ JobInv /\ Call(w, "insert", j)
      BY <2>1 DEF IInv
    <3>2. QED
      BY <3>1, CallEffect
  <2>3. UNCHANGED <<users, tokens, device>>
    BY <1>3 DEF Register
  <2>4. \A g : Of(g)' = Of(g)
    BY <2>3, SameRows
  <2>4a. \A g \in Families : Calls(g)' = Calls(g)
    BY <2>1, <2>2, NoneAssumption DEF NoJob
  <2>5. ASSUME NEW v \in Workers \ {w} PROVE JobOK(v)'
    BY <2>2, <2>3, <2>4, <2>4a, SameRows, OthersKeep
  <2>6. JobOK(w)'
    BY <1>3, <2>1, <2>2, <2>3, <2>4, NoneAssumption DEF JobOK, NoJob
  <2>7. \A v, u \in Workers : job'[v].new = job'[u].new /\ job'[u].new # None => v = u
    BY <2>1, <2>2, NewKept DEF NoJob
  <2>8. QED
    BY <2>5, <2>6, <2>7 DEF JobInv
<1>4. ASSUME NEW w \in Workers, CreateUser(w)
      PROVE  JobInv'
  <2>1. /\ pc'[w] = "idle" /\ job'[w] = NoJob
        /\ \A v \in Workers \ {w} : pc'[v] = pc[v] /\ job'[v] = job[v]
        /\ \A g \in Families : Calls(g)' = Calls(g) \ {w}
    BY <1>4, ReturnEffect DEF CreateUser, IInv
  <2>2. /\ \A f \in Families : Of(f) \subseteq Of(f)'
        /\ \A t \in Tokens : ~Issued(t) /\ t # job[w].new => ~Issued(t)'
        /\ \A e \in Emails : users[e] # NoUser => users'[e] = users[e]
        /\ \A f \in Families : Of(f)' = Of(f)
        /\ \A f \in Families : w \notin Calls(f) => device'[f] = device[f]
    BY <1>4, SameRows DEF CreateUser, EmailFree, IInv, TypeOK
  <2>3. ASSUME NEW v \in Workers \ {w} PROVE JobOK(v)'
    BY <2>1, <2>2, OthersKeep
  <2>4. JobOK(w)'
    BY <2>1 DEF JobOK
  <2>5. \A v, u \in Workers : job'[v].new = job'[u].new /\ job'[u].new # None => v = u
    BY <2>1, NewKept DEF NoJob
  <2>6. QED
    BY <2>3, <2>4, <2>5 DEF JobInv
<1>5. ASSUME NEW w \in Workers, GetUserByEmail(w)
      PROVE  JobInv'
  <2>1. CASE Return(w)
    <3>1. /\ pc'[w] = "idle" /\ job'[w] = NoJob
          /\ \A v \in Workers \ {w} : pc'[v] = pc[v] /\ job'[v] = job[v]
          /\ \A g \in Families : Calls(g)' = Calls(g) \ {w}
      BY <2>1, ReturnEffect DEF IInv
    <3>2. ASSUME NEW v \in Workers \ {w} PROVE JobOK(v)'
      BY <1>5, <3>1, SameRows, OthersKeep DEF GetUserByEmail
    <3>3. JobOK(w)'
      BY <3>1 DEF JobOK
    <3>4. \A v, u \in Workers : job'[v].new = job'[u].new /\ job'[u].new # None => v = u
      BY <3>1, NewKept DEF NoJob
    <3>5. QED
      BY <3>2, <3>3, <3>4 DEF JobInv
  <2>2. CASE ~Return(w)
    <3>1. PICK t \in Tokens : Fresh(t) /\ job' = [job EXCEPT ![w].new = t]
      BY <1>5, <2>2 DEF GetUserByEmail
    <3>2. /\ pc' = [pc EXCEPT ![w] = "issue"]
          /\ VerifyPassword(job[w].password, users[job[w].email])
          /\ pc[w] = "verify"
          /\ UNCHANGED <<users, tokens, device>>
      BY <1>5, <2>2 DEF GetUserByEmail
    <3>3. /\ pc'[w] = "issue" /\ job'[w].new = t
          /\ \A v \in Workers \ {w} : pc'[v] = pc[v] /\ job'[v] = job[v]
          /\ job'[w].family = job[w].family
          /\ job'[w].email = job[w].email
          /\ job'[w].password = job[w].password
          /\ \A g \in Families : Calls(g)' = Calls(g)
      <4>1. TypeOK
        BY DEF IInv
      <4>2. \E u \in Tokens : job' = [job EXCEPT ![w].new = u]
        BY <3>1
      <4>3. job'[w].new = t
        BY <3>1, <4>1 DEF TypeOK, Jobs
      <4>4. QED
        BY <3>2, <4>1, <4>2, <4>3, MoveEffect
    <3>4. /\ \A g : Of(g)' = Of(g)
          /\ \A u : Issued(u)' = Issued(u)
      BY <3>2, SameRows
    <3>5. ASSUME NEW v \in Workers \ {w} PROVE JobOK(v)'
      BY <3>2, <3>3, <3>4, OthersKeep
    <3>6. JobOK(w)'
      <4>1. JobOK(w)
        BY DEF IInv, JobInv
      <4>2. PICK f \in Families : f = job[w].family
        BY <3>2, <4>1 DEF JobOK
      <4>3. Of(f)' = {} /\ device'[f] = None /\ Calls(f)' = {w}
        BY <3>2, <3>3, <3>4, <4>1, <4>2 DEF JobOK
      <4>4. Of(job[w].family)' = {} /\ Calls(job[w].family)' = {w}
        BY <3>3, <4>2, <4>3 DEF Of, Calls
      <4>5. ~Issued(job[w].new)'
        BY <3>1, <3>3, <3>4 DEF Fresh, Issued
      <4>6. QED
        BY <3>2, <3>3, <4>1, <4>2, <4>3, <4>4, <4>5 DEF JobOK
    <3>7. \A v, u \in Workers : job'[v].new = job'[u].new /\ job'[u].new # None => v = u
      BY <3>1, <3>3, NewKept DEF Fresh
    <3>8. QED
      BY <3>5, <3>6, <3>7 DEF JobInv
  <2>3. QED
    BY <2>1, <2>2
<1>6. ASSUME NEW w \in Workers, CreateRefreshToken(w)
      PROVE  JobInv'
  <2>1. PICK f \in Families, n \in Tokens : Issues(w, f, n)
    BY <1>6, IssueEffect DEF IInv
  <2>2. /\ pc' = [pc EXCEPT ![w] = "reply"] /\ UNCHANGED <<job, users, device>>
        /\ \A g : Calls(g)' = Calls(g)
    BY <1>6 DEF CreateRefreshToken, Goto, Calls
  <2>3. w \in Calls(f)
    BY <2>1 DEF Issues, Calls
  <2>4. ASSUME NEW v \in Workers \ {w} PROVE JobOK(v)'
    BY <2>1, <2>2, <2>3, OthersKeep DEF Issues, IInv, TypeOK
  <2>5. JobOK(w)'
    <3>1. job[w].new \in Of(job[w].family)'
      BY <2>1, <2>2 DEF Issues, Of
    <3>2. QED
      BY <2>1, <2>2, <3>1 DEF Issues, JobOK, IInv, TypeOK
  <2>6. \A v, u \in Workers : job'[v].new = job'[u].new /\ job'[u].new # None => v = u
    BY <2>2 DEF IInv, JobInv
  <2>7. QED
    BY <2>4, <2>5, <2>6 DEF JobInv
<1>7. ASSUME NEW w \in Workers, GetTokenByHash(w)
      PROVE  JobInv'
  <2>0. UNCHANGED <<users, tokens, device>> /\ pc[w] = "find"
    BY <1>7 DEF GetTokenByHash
  <2> USE <2>0
  <2>1. CASE Return(w)
    <3>1. /\ pc'[w] = "idle" /\ job'[w] = NoJob
          /\ \A v \in Workers \ {w} : pc'[v] = pc[v] /\ job'[v] = job[v]
          /\ \A g \in Families : Calls(g)' = Calls(g) \ {w}
      BY <2>1, ReturnEffect DEF IInv
    <3>2. ASSUME NEW v \in Workers \ {w} PROVE JobOK(v)'
      BY <3>1, SameRows, OthersKeep
    <3>3. JobOK(w)'
      BY <3>1 DEF JobOK
    <3>4. \A v, u \in Workers : job'[v].new = job'[u].new /\ job'[u].new # None => v = u
      BY <3>1, NewKept DEF NoJob
    <3>5. QED
      BY <3>2, <3>3, <3>4 DEF JobInv
  <2>2. CASE ~Return(w)
    <3>1. PICK step \in {"revoke", "rotate"} : pc' = [pc EXCEPT ![w] = step]
      BY <1>7, <2>2 DEF GetTokenByHash, Goto
    <3>2. \/ UNCHANGED job
          \/ \E t \in Tokens : job' = [job EXCEPT ![w].new = t]
      BY <1>7, <2>2 DEF GetTokenByHash, Goto
    <3>3. /\ pc'[w] = step
          /\ \A v \in Workers \ {w} : pc'[v] = pc[v] /\ job'[v] = job[v]
          /\ job'[w].family = job[w].family
          /\ job'[w].token = job[w].token
          /\ \A g \in Families : Calls(g)' = Calls(g)
      BY <3>1, <3>2, MoveEffect DEF IInv
    <3>4. /\ \A g : Of(g)' = Of(g)
          /\ \A u : Issued(u)' = Issued(u)
      BY SameRows
    <3>5. /\ step = "rotate" => job'[w].new \in Tokens /\ Fresh(job'[w].new)
          /\ job'[w].new = job[w].new \/ Fresh(job'[w].new)
      <4>1. CASE Goto(w, "revoke")
        BY <3>1, <4>1 DEF Goto, IInv, TypeOK
      <4>2. CASE ~Goto(w, "revoke")
        <5>1. PICK t \in Tokens : Fresh(t) /\ job' = [job EXCEPT ![w].new = t]
          BY <1>7, <2>2, <4>2 DEF GetTokenByHash
        <5>2. QED
          BY <5>1 DEF IInv, TypeOK, Jobs
      <4>3. QED
        BY <4>1, <4>2
    <3>6. ASSUME NEW v \in Workers \ {w} PROVE JobOK(v)'
      BY <3>3, <3>4, OthersKeep
    <3>7. JobOK(w)'
      <4>1. PICK f \in Families : f = job[w].family /\ job[w].token \in Of(f)
        BY DEF IInv, JobInv, JobOK
      <4>2. job'[w].token \in Of(job[w].family)'
        BY <3>3, <4>1 DEF Of
      <4>3. step = "rotate" => job'[w].new \in Tokens /\ ~Issued(job[w].new)'
        BY <3>5 DEF Fresh, Issued
      <4>4. QED
        BY <3>3, <4>1, <4>2, <4>3 DEF JobOK
    <3>8. \A v, u \in Workers : job'[v].new = job'[u].new /\ job'[u].new # None => v = u
      BY <3>3, <3>5, NewKept DEF Fresh
    <3>9. QED
      BY <3>6, <3>7, <3>8 DEF JobInv
  <2>3. QED
    BY <2>1, <2>2
<1>8. ASSUME NEW w \in Workers, RotateToken(w)
      PROVE  JobInv'
  <2>1. PICK f \in Families, t \in Tokens, n \in Tokens : Rotates(w, f, t, n)
    BY <1>8, RotateEffect DEF IInv
  <2>2. /\ pc' = [pc EXCEPT ![w] = "reply"] /\ UNCHANGED <<job, users, device>>
        /\ \A g : Calls(g)' = Calls(g)
    BY <1>8 DEF RotateToken, Goto, Calls
  <2>3. w \in Calls(f)
    BY <2>1 DEF Rotates, Calls
  <2>4. ASSUME NEW v \in Workers \ {w} PROVE JobOK(v)'
    BY <2>1, <2>2, <2>3, OthersKeep DEF Rotates, IInv, TypeOK
  <2>5. JobOK(w)'
    <3>1. job[w].new \in Of(job[w].family)'
      BY <2>1, <2>2 DEF Rotates, Of
    <3>2. QED
      BY <2>1, <2>2, <3>1 DEF Rotates, JobOK, IInv, TypeOK
  <2>6. \A v, u \in Workers : job'[v].new = job'[u].new /\ job'[u].new # None => v = u
    BY <2>2 DEF IInv, JobInv
  <2>7. QED
    BY <2>4, <2>5, <2>6 DEF JobInv
<1>9. ASSUME NEW w \in Workers, RevokeTokenFamily(w)
      PROVE  JobInv'
  <2>1. /\ pc'[w] = "idle" /\ job'[w] = NoJob
        /\ \A v \in Workers \ {w} : pc'[v] = pc[v] /\ job'[v] = job[v]
        /\ \A g \in Families : Calls(g)' = Calls(g) \ {w}
    BY <1>9, ReturnEffect DEF RevokeTokenFamily, IInv
  <2>2. /\ \A f \in Families : Of(f) \subseteq Of(f)'
        /\ \A t \in Tokens : ~Issued(t) /\ t # job[w].new => ~Issued(t)'
        /\ \A e \in Emails : users[e] # NoUser => users'[e] = users[e]
        /\ \A f \in Families : Of(f)' = Of(f)
        /\ \A f \in Families : w \notin Calls(f) => device'[f] = device[f]
    BY <1>9, RevokeEffect DEF RevokeTokenFamily, IInv
  <2>3. ASSUME NEW v \in Workers \ {w} PROVE JobOK(v)'
    BY <2>1, <2>2, OthersKeep
  <2>4. JobOK(w)'
    BY <2>1 DEF JobOK
  <2>5. \A v, u \in Workers : job'[v].new = job'[u].new /\ job'[u].new # None => v = u
    BY <2>1, NewKept DEF NoJob
  <2>6. QED
    BY <2>3, <2>4, <2>5 DEF JobInv
<1>10. ASSUME NEW w \in Workers, Receive(w)
      PROVE  JobInv'
  <2>1. /\ pc'[w] = "idle" /\ job'[w] = NoJob
        /\ \A v \in Workers \ {w} : pc'[v] = pc[v] /\ job'[v] = job[v]
        /\ \A g \in Families : Calls(g)' = Calls(g) \ {w}
    BY <1>10, ReturnEffect DEF Receive, IInv
  <2>2. /\ \A f \in Families : Of(f) \subseteq Of(f)'
        /\ \A t \in Tokens : ~Issued(t) /\ t # job[w].new => ~Issued(t)'
        /\ \A e \in Emails : users[e] # NoUser => users'[e] = users[e]
        /\ \A f \in Families : Of(f)' = Of(f)
        /\ \A f \in Families : w \notin Calls(f) => device'[f] = device[f]
    BY <1>10, SameRows DEF Receive, IInv, TypeOK, Calls
  <2>3. ASSUME NEW v \in Workers \ {w} PROVE JobOK(v)'
    BY <2>1, <2>2, OthersKeep
  <2>4. JobOK(w)'
    BY <2>1 DEF JobOK
  <2>5. \A v, u \in Workers : job'[v].new = job'[u].new /\ job'[u].new # None => v = u
    BY <2>1, NewKept DEF NoJob
  <2>6. QED
    BY <2>3, <2>4, <2>5 DEF JobInv
<1>11. ASSUME NEW w \in Workers, Fail(w)
      PROVE  JobInv'
  <2>1. /\ pc'[w] = "idle" /\ job'[w] = NoJob
        /\ \A v \in Workers \ {w} : pc'[v] = pc[v] /\ job'[v] = job[v]
        /\ \A g \in Families : Calls(g)' = Calls(g) \ {w}
    BY <1>11, ReturnEffect DEF Fail, IInv
  <2>2. /\ \A f \in Families : Of(f) \subseteq Of(f)'
        /\ \A t \in Tokens : ~Issued(t) /\ t # job[w].new => ~Issued(t)'
        /\ \A e \in Emails : users[e] # NoUser => users'[e] = users[e]
        /\ \A f \in Families : Of(f)' = Of(f)
        /\ \A f \in Families : w \notin Calls(f) => device'[f] = device[f]
    BY <1>11, SameRows DEF Fail
  <2>3. ASSUME NEW v \in Workers \ {w} PROVE JobOK(v)'
    BY <2>1, <2>2, OthersKeep
  <2>4. JobOK(w)'
    BY <2>1 DEF JobOK
  <2>5. \A v, u \in Workers : job'[v].new = job'[u].new /\ job'[u].new # None => v = u
    BY <2>1, NewKept DEF NoJob
  <2>6. QED
    BY <2>3, <2>4, <2>5 DEF JobInv
<1>12. ASSUME NEW t \in Tokens, Expire(t)
      PROVE  JobInv'
  <2>1. /\ UNCHANGED <<users, tokens, device, pc, job>>
        /\ \A g : Of(g)' = Of(g) /\ Calls(g)' = Calls(g)
    BY <1>12, SameRows, SameCalls DEF Expire
  <2>2. QED
    BY <2>1 DEF IInv, JobInv, JobOK, Issued, Of, Calls
<1>13. ASSUME UNCHANGED vars PROVE JobInv'
  BY <1>13 DEF vars, IInv, JobInv, JobOK, Issued, Of, Calls
<1>14. QED
  BY <1>1, <1>2, <1>2a, <1>3, <1>4, <1>5, <1>6, <1>7, <1>8, <1>9, <1>10, <1>11, <1>12, <1>13
     DEF Next

-----------------------------------------------------------------------------
(* A closed family stays closed.                                           *)

LEMMA UnissuedIsNowhere ==
  ASSUME NEW n \in Tokens, ~Issued(n), NEW f \in Families
  PROVE  n \notin Of(f)
  BY NoneAssumption DEF Issued, Of, NoRow

LEMMA ClosedKept ==
  ASSUME ClosedInv, TypeOK, NEW w \in Workers,
         \A v \in Workers \ {w} : pc'[v] = pc[v] /\ job'[v] = job[v],
         pc'[w] # "rotate" \/ job'[w].family \notin closed,
         UNCHANGED <<tokens, closed>>
  PROVE  ClosedInv'
<1>1. \A f \in closed : Rotating(f)' => Rotating(f)
  BY DEF Rotating
<1>2. QED
  BY <1>1, SameRows DEF ClosedInv

LEMMA ClosedStep ==
  ASSUME IInv, [Next]_vars
  PROVE  ClosedInv'
<1>1. ASSUME NEW w \in Workers, NEW f \in Families, Login(w, f)
      PROVE  ClosedInv'
  <2>1. /\ pc'[w] # "rotate"
        /\ \A v \in Workers \ {w} : pc'[v] = pc[v] /\ job'[v] = job[v]
    BY <1>1 DEF Login, Call, IInv, TypeOK
  <2>2. QED
    BY <1>1, <2>1, ClosedKept DEF Login, IInv
<1>2. ASSUME NEW w \in Workers, NEW f \in Families, NEW kind \in {"refresh", "logout"},
             Present(w, f, kind)
      PROVE  ClosedInv'
  <2>1. /\ pc'[w] # "rotate"
        /\ \A v \in Workers \ {w} : pc'[v] = pc[v] /\ job'[v] = job[v]
    BY <1>2 DEF Present, Call, IInv, TypeOK
  <2>2. QED
    BY <1>2, <2>1, ClosedKept DEF Present, IInv
<1>2a. ASSUME NEW w \in Workers, NEW t \in Tokens, NEW kind \in {"refresh", "logout"},
              PresentStolen(w, t, kind)
       PROVE  ClosedInv'
  <2>1. /\ pc'[w] # "rotate"
        /\ \A v \in Workers \ {w} : pc'[v] = pc[v] /\ job'[v] = job[v]
    BY <1>2a DEF PresentStolen, Call, IInv, TypeOK
  <2>2. QED
    BY <1>2a, <2>1, ClosedKept DEF PresentStolen, IInv
<1>3. ASSUME NEW w \in Workers, Register(w)
      PROVE  ClosedInv'
  <2>1. /\ pc'[w] # "rotate"
        /\ \A v \in Workers \ {w} : pc'[v] = pc[v] /\ job'[v] = job[v]
    BY <1>3 DEF Register, Call, IInv, TypeOK
  <2>2. QED
    BY <1>3, <2>1, ClosedKept DEF Register, IInv
<1>4. ASSUME NEW w \in Workers, CreateUser(w)
      PROVE  ClosedInv'
  <2>1. /\ pc'[w] # "rotate"
        /\ \A v \in Workers \ {w} : pc'[v] = pc[v] /\ job'[v] = job[v]
    BY <1>4 DEF CreateUser, Return, IInv, TypeOK
  <2>2. QED
    BY <1>4, <2>1, ClosedKept DEF CreateUser, IInv
<1>5. ASSUME NEW w \in Workers, GetUserByEmail(w)
      PROVE  ClosedInv'
  <2>1. /\ pc'[w] # "rotate"
        /\ \A v \in Workers \ {w} : pc'[v] = pc[v] /\ job'[v] = job[v]
    BY <1>5 DEF GetUserByEmail, Return, IInv, TypeOK
  <2>2. QED
    BY <1>5, <2>1, ClosedKept DEF GetUserByEmail, IInv
<1>6. ASSUME NEW w \in Workers, CreateRefreshToken(w)
      PROVE  ClosedInv'
  <2>1. PICK f \in Families, n \in Tokens : Issues(w, f, n)
    BY <1>6, IssueEffect DEF IInv
  <2>2. /\ f \notin closed
        /\ \A g \in closed : g \in Families \ {f}
    BY <1>6, <2>1 DEF Issues, CreateRefreshToken, IInv, ClosedInv, TypeOK
  <2>3. \A g \in Families \ {f} : Of(g)' = Of(g) /\ \A u \in Of(g) : tokens'[u] = tokens[u]
    BY <2>1, UnissuedIsNowhere DEF Issues, Of
  <2>4. \A g : Rotating(g)' => Rotating(g)
    BY <1>6 DEF CreateRefreshToken, Goto, Rotating, IInv, TypeOK
  <2>5. closed' = closed /\ ClosedInv
    BY <1>6 DEF CreateRefreshToken, IInv
  <2>6. ASSUME NEW g \in closed
        PROVE  Of(g)' # {} /\ ~Rotating(g)' /\ \A u \in Of(g)' : tokens'[u].revoked
    BY <2>2, <2>3, <2>4, <2>5 DEF ClosedInv
  <2>7. QED
    BY <2>5, <2>6 DEF ClosedInv
<1>7. ASSUME NEW w \in Workers, GetTokenByHash(w)
      PROVE  ClosedInv'
  <2>1. \A v \in Workers \ {w} : pc'[v] = pc[v] /\ job'[v] = job[v]
    BY <1>7 DEF GetTokenByHash, Return, Goto, IInv, TypeOK
  <2>2. pc'[w] # "rotate" \/ job'[w].family \notin closed
    <3>1. CASE Return(w) \/ Goto(w, "revoke")
      BY <3>1 DEF Return, Goto, IInv, TypeOK
    <3>2. CASE ~(Return(w) \/ Goto(w, "revoke"))
      <4>1. job[w].token \in Of(job[w].family)
        BY <1>7 DEF GetTokenByHash, IInv, JobInv, JobOK
      <4>2. ~tokens[job[w].token].revoked
        BY <1>7, <3>2 DEF GetTokenByHash, Refused
      <4>3. job[w].family \notin closed
        BY <4>1, <4>2 DEF IInv, ClosedInv
      <4>4. job'[w].family = job[w].family
        BY <1>7, <3>2 DEF GetTokenByHash, IInv, TypeOK, Jobs
      <4>5. QED
        BY <4>3, <4>4
    <3>3. QED
      BY <3>1, <3>2
  <2>3. QED
    BY <1>7, <2>1, <2>2, ClosedKept DEF GetTokenByHash, IInv
<1>8. ASSUME NEW w \in Workers, RotateToken(w)
      PROVE  ClosedInv'
  <2>1. PICK f \in Families, t \in Tokens, n \in Tokens : Rotates(w, f, t, n)
    BY <1>8, RotateEffect DEF IInv
  <2>2. /\ f \notin closed
        /\ \A g \in closed : g \in Families \ {f}
    BY <1>8, <2>1 DEF Rotates, RotateToken, IInv, ClosedInv, TypeOK, Rotating
  <2>3. \A g \in Families \ {f} : Of(g)' = Of(g) /\ \A u \in Of(g) : tokens'[u] = tokens[u]
    BY <2>1, UnissuedIsNowhere DEF Rotates, Of
  <2>4. \A g : Rotating(g)' => Rotating(g)
    BY <1>8 DEF RotateToken, Goto, Rotating, IInv, TypeOK
  <2>5. closed' = closed /\ ClosedInv
    BY <1>8 DEF RotateToken, IInv
  <2>6. ASSUME NEW g \in closed
        PROVE  Of(g)' # {} /\ ~Rotating(g)' /\ \A u \in Of(g)' : tokens'[u].revoked
    BY <2>2, <2>3, <2>4, <2>5 DEF ClosedInv
  <2>7. QED
    BY <2>5, <2>6 DEF ClosedInv
<1>9. ASSUME NEW w \in Workers, RevokeTokenFamily(w)
      PROVE  ClosedInv'
  <2>1. PICK f \in Families : f = job[w].family /\ job[w].token \in Of(f)
    BY <1>9, RevokeEffect DEF IInv
  <2>2. \A g : Rotating(g)' => Rotating(g)
    BY <1>9 DEF RevokeTokenFamily, Return, Rotating, IInv, TypeOK
  <2>3. /\ \A g : Of(g)' = Of(g)
        /\ \A t \in Tokens : tokens'[t].revoked = (tokens[t].revoked \/ t \in Of(f))
    BY <1>9, <2>1, RevokeEffect DEF IInv
  <2>4. closed' \subseteq closed \cup {f} /\ (f \in closed' => f \in closed \/ ~Rotating(f))
    BY <1>9, <2>1 DEF RevokeTokenFamily
  <2>5. \A g : \A t \in Of(g) : t \in Tokens
    BY DEF Of
  <2>6. ASSUME NEW g \in closed'
        PROVE  Of(g) # {} /\ ~Rotating(g)' /\ \A t \in Of(g) : tokens'[t].revoked
    <3>1. CASE g = f
      BY <2>1, <2>2, <2>3, <2>4, <2>5, <2>6, <3>1 DEF IInv, ClosedInv
    <3>2. CASE g # f
      BY <2>2, <2>3, <2>4, <2>5, <2>6, <3>2 DEF IInv, ClosedInv
    <3>3. QED
      BY <3>1, <3>2
  <2>7. QED
    BY <2>3, <2>6 DEF ClosedInv
<1>10. ASSUME NEW w \in Workers, Receive(w)
      PROVE  ClosedInv'
  <2>1. /\ pc'[w] # "rotate"
        /\ \A v \in Workers \ {w} : pc'[v] = pc[v] /\ job'[v] = job[v]
    BY <1>10 DEF Receive, Return, IInv, TypeOK
  <2>2. QED
    BY <1>10, <2>1, ClosedKept DEF Receive, IInv
<1>11. ASSUME NEW w \in Workers, Fail(w)
      PROVE  ClosedInv'
  <2>1. /\ pc'[w] # "rotate"
        /\ \A v \in Workers \ {w} : pc'[v] = pc[v] /\ job'[v] = job[v]
    BY <1>11 DEF Fail, Return, IInv, TypeOK
  <2>2. QED
    BY <1>11, <2>1, ClosedKept DEF Fail, IInv
<1>12. ASSUME NEW t \in Tokens, Expire(t)
      PROVE  ClosedInv'
  <2>1. /\ UNCHANGED <<tokens, pc, job, closed>>
        /\ \A g : Of(g)' = Of(g) /\ Rotating(g)' = Rotating(g)
    BY <1>12, SameRows DEF Expire, Rotating
  <2>2. QED
    BY <2>1 DEF IInv, ClosedInv
<1>13. ASSUME UNCHANGED vars PROVE ClosedInv'
  BY <1>13 DEF vars, IInv, ClosedInv, Rotating, Of
<1>14. QED
  BY <1>1, <1>2, <1>2a, <1>3, <1>4, <1>5, <1>6, <1>7, <1>8, <1>9, <1>10, <1>11, <1>12, <1>13
     DEF Next

-----------------------------------------------------------------------------
(* Without overlapping calls the tokens of a family form one chain.        *)

LEMMA ChainKept ==
  ASSUME ChainInv, TypeOK, NEW w \in Workers,
         \A v \in Workers \ {w} : pc'[v] = pc[v] /\ job'[v] = job[v],
         \A f \in Families \ overlapped : Calls(f)' \subseteq Calls(f),
         pc'[w] = "rotate" => tokens[job'[w].token].replacedBy = None,
         UNCHANGED <<tokens, overlapped>>
  PROVE  ChainInv'
  BY SameRows DEF ChainInv, Calls

LEMMA ChainCall ==
  ASSUME ChainInv, TypeOK, JobInv, NEW w \in Workers, NEW step, NEW j, Call(w, step, j),
         step # "rotate", UNCHANGED tokens
  PROVE  ChainInv'
<1>1. /\ pc'[w] = step /\ job'[w] = j
      /\ \A v \in Workers \ {w} : pc'[v] = pc[v] /\ job'[v] = job[v]
      /\ \A g \in Families :
           Calls(g)' = IF g = j.family THEN Calls(g) \cup {w} ELSE Calls(g)
  BY CallEffect
<1>2. overlapped \subseteq overlapped'
  BY DEF Call
<1>3. ASSUME NEW f \in Families \ overlapped'
      PROVE  /\ \A v, u \in Calls(f)' : v = u
             /\ \A v \in Calls(f)' : v # w => v \in Calls(f)
  <2>1. f = j.family => Calls(f) = {}
    BY <1>3, NoneAssumption DEF Call, TypeOK
  <2>2. QED
    BY <1>1, <1>2, <1>3, <2>1 DEF ChainInv
<1>4. ASSUME NEW f \in Families \ overlapped', NEW v \in Calls(f)', pc'[v] = "rotate"
      PROVE  tokens[job'[v].token].replacedBy = None
  <2>1. v # w /\ v \in Calls(f) /\ v \in Workers
    BY <1>1, <1>3, <1>4 DEF Calls
  <2>2. QED
    BY <1>1, <1>2, <1>4, <2>1 DEF ChainInv
<1>5. QED
  BY <1>2, <1>3, <1>4, SameRows DEF ChainInv

LEMMA ChainStep ==
  ASSUME IInv, [Next]_vars
  PROVE  ChainInv'
<1>1. ASSUME NEW w \in Workers, NEW f \in Families, Login(w, f)
      PROVE  ChainInv'
  <2>1. PICK j : Call(w, "verify", j)
    BY <1>1 DEF Login
  <2>2. TypeOK /\ JobInv /\ ChainInv /\ UNCHANGED tokens
    BY <1>1 DEF Login, IInv
  <2>3. QED
    BY <2>1, <2>2, ChainCall
<1>2. ASSUME NEW w \in Workers, NEW f \in Families, NEW kind \in {"refresh", "logout"},
             Present(w, f, kind)
      PROVE  ChainInv'
  <2>1. PICK j : Call(w, "find", j)
    BY <1>2 DEF Present
  <2>2. TypeOK /\ JobInv /\ ChainInv /\ UNCHANGED tokens
    BY <1>2 DEF Present, IInv
  <2>3. QED
    BY <2>1, <2>2, ChainCall
<1>2a. ASSUME NEW w \in Workers, NEW t \in Tokens, NEW kind \in {"refresh", "logout"},
              PresentStolen(w, t, kind)
       PROVE  ChainInv'
  <2>1. PICK j : Call(w, "find", j)
    BY <1>2a DEF PresentStolen
  <2>2. TypeOK /\ JobInv /\ ChainInv /\ UNCHANGED tokens
    BY <1>2a DEF PresentStolen, IInv
  <2>3. QED
    BY <2>1, <2>2, ChainCall
<1>3. ASSUME NEW w \in Workers, Register(w)
      PROVE  ChainInv'
  <2>1. PICK j : Call(w, "insert", j)
    BY <1>3 DEF Register
  <2>2. TypeOK /\ JobInv /\ ChainInv /\ UNCHANGED tokens
    BY <1>3 DEF Register, IInv
  <2>3. QED
    BY <2>1, <2>2, ChainCall
<1>4. ASSUME NEW w \in Workers, CreateUser(w)
      PROVE  ChainInv'
  <2>1. TypeOK /\ ChainInv /\ Return(w) /\ UNCHANGED <<tokens, overlapped>>
    BY <1>4 DEF CreateUser, Return, IInv
  <2>2. QED
    BY <2>1, ReturnEffect, ChainKept
<1>5. ASSUME NEW w \in Workers, GetUserByEmail(w)
      PROVE  ChainInv'
  <2>1. UNCHANGED <<tokens, overlapped>> /\ TypeOK /\ ChainInv
    BY <1>5 DEF GetUserByEmail, Return, IInv
  <2>2. CASE Return(w)
    BY <2>1, <2>2, ReturnEffect, ChainKept
  <2>3. CASE ~Return(w)
    <3>1. /\ pc' = [pc EXCEPT ![w] = "issue"]
          /\ \E t \in Tokens : job' = [job EXCEPT ![w].new = t]
      BY <1>5, <2>3 DEF GetUserByEmail
    <3>2. /\ pc'[w] = "issue"
          /\ \A v \in Workers \ {w} : pc'[v] = pc[v] /\ job'[v] = job[v]
          /\ \A g \in Families : Calls(g)' = Calls(g)
      BY <2>1, <3>1, MoveEffect
    <3>3. QED
      BY <2>1, <3>2, ChainKept
  <2>4. QED
    BY <2>2, <2>3
<1>6. ASSUME NEW w \in Workers, CreateRefreshToken(w)
      PROVE  ChainInv'
  <2>1. PICK f \in Families, n \in Tokens : Issues(w, f, n)
    BY <1>6, IssueEffect DEF IInv
  <2>2. /\ pc' = [pc EXCEPT ![w] = "reply"] /\ UNCHANGED <<job, overlapped>>
        /\ \A g : Calls(g)' = Calls(g)
        /\ TypeOK /\ ChainInv /\ JobInv
    BY <1>6 DEF CreateRefreshToken, Goto, Calls, IInv
  <2>3. \A g \in Families \ {f} : Of(g)' = Of(g) /\ \A u \in Of(g) : tokens'[u] = tokens[u]
    BY <2>1, UnissuedIsNowhere DEF Issues, Of
  <2>4. Of(f)' = {n} /\ w \in Calls(f)
    BY <2>1 DEF Issues, Calls
  <2>5. \A g \in Families : \A v \in Calls(g) : pc'[v] = "rotate" =>
          /\ v # w /\ pc[v] = "rotate" /\ job[v].token \in Of(g)
    BY <2>2 DEF TypeOK, JobInv, JobOK, Calls
  <2>6. ASSUME NEW g \in Families \ overlapped
        PROVE  /\ \A t, u \in Of(g)' :
                    tokens'[t].replacedBy = None /\ tokens'[u].replacedBy = None => t = u
               /\ \A v \in Calls(g) : pc'[v] = "rotate" =>
                    tokens'[job[v].token].replacedBy = None
    <3>1. CASE g = f
      BY <2>2, <2>4, <2>5, <3>1 DEF ChainInv
    <3>2. CASE g # f
      BY <2>2, <2>3, <2>5, <3>2 DEF ChainInv
    <3>3. QED
      BY <3>1, <3>2
  <2>7. QED
    BY <2>2, <2>6 DEF ChainInv
<1>7. ASSUME NEW w \in Workers, GetTokenByHash(w)
      PROVE  ChainInv'
  <2>1. UNCHANGED <<tokens, overlapped>> /\ TypeOK /\ ChainInv
    BY <1>7 DEF GetTokenByHash, Return, Goto, IInv
  <2>2. CASE Return(w)
    BY <2>1, <2>2, ReturnEffect, ChainKept
  <2>3. CASE Goto(w, "revoke")
    <3>1. pc' = [pc EXCEPT ![w] = "revoke"] /\ UNCHANGED job
      BY <2>3 DEF Goto
    <3>2. /\ pc'[w] = "revoke"
          /\ \A v \in Workers \ {w} : pc'[v] = pc[v] /\ job'[v] = job[v]
          /\ \A g \in Families : Calls(g)' = Calls(g)
      BY <2>1, <3>1, MoveEffect
    <3>3. QED
      BY <2>1, <3>2, ChainKept
  <2>4. CASE ~Return(w) /\ ~Goto(w, "revoke")
    <3>1. /\ pc' = [pc EXCEPT ![w] = "rotate"]
          /\ \E t \in Tokens : job' = [job EXCEPT ![w].new = t]
          /\ tokens[job[w].token].replacedBy = None
      BY <1>7, <2>4 DEF GetTokenByHash, Replayed
    <3>2. job'[w].token = job[w].token
      BY <2>1, <3>1, MoveEffect
    <3>3. QED
      BY <2>1, <3>1, <3>2, MoveEffect, ChainKept
  <2>5. QED
    BY <2>2, <2>3, <2>4
<1>8. ASSUME NEW w \in Workers, RotateToken(w)
      PROVE  ChainInv'
  <2>1. PICK f \in Families, t \in Tokens, n \in Tokens : Rotates(w, f, t, n)
    BY <1>8, RotateEffect DEF IInv
  <2>2. /\ pc' = [pc EXCEPT ![w] = "reply"] /\ UNCHANGED <<job, overlapped>>
        /\ \A g : Calls(g)' = Calls(g)
        /\ TypeOK /\ ChainInv /\ JobInv /\ pc[w] = "rotate"
    BY <1>8 DEF RotateToken, Goto, Calls, IInv
  <2>3. \A g \in Families \ {f} : Of(g)' = Of(g) /\ \A u \in Of(g) : tokens'[u] = tokens[u]
    BY <2>1, UnissuedIsNowhere DEF Rotates, Of
  <2>4. /\ Of(f)' = Of(f) \cup {n} /\ w \in Calls(f) /\ n # None /\ t \in Of(f)
        /\ tokens'[t].replacedBy = n /\ job[w].token = t
        /\ \A u \in Of(f) \ {t} : tokens'[u] = tokens[u]
    BY <2>1, NoneAssumption DEF Rotates, Calls, Of
  <2>5. \A g \in Families : \A v \in Calls(g) : pc'[v] = "rotate" =>
          /\ v # w /\ pc[v] = "rotate" /\ job[v].token \in Of(g)
    BY <2>2 DEF TypeOK, JobInv, JobOK, Calls
  <2>6. ASSUME NEW g \in Families \ overlapped
        PROVE  /\ \A u, v \in Of(g)' :
                    tokens'[u].replacedBy = None /\ tokens'[v].replacedBy = None => u = v
               /\ \A v \in Calls(g) : pc'[v] = "rotate" =>
                    tokens'[job[v].token].replacedBy = None
    <3>1. CASE g = f
      BY <2>2, <2>4, <2>5, <3>1 DEF ChainInv
    <3>2. CASE g # f
      BY <2>2, <2>3, <2>5, <3>2 DEF ChainInv
    <3>3. QED
      BY <3>1, <3>2
  <2>7. QED
    BY <2>2, <2>6 DEF ChainInv
<1>9. ASSUME NEW w \in Workers, RevokeTokenFamily(w)
      PROVE  ChainInv'
  <2>1. /\ TypeOK /\ ChainInv /\ JobInv /\ Return(w) /\ UNCHANGED overlapped
    BY <1>9 DEF RevokeTokenFamily, Return, IInv
  <2>2. /\ pc'[w] = "idle"
        /\ \A v \in Workers \ {w} : pc'[v] = pc[v] /\ job'[v] = job[v]
        /\ \A g \in Families : Calls(g)' = Calls(g) \ {w}
    BY <2>1, ReturnEffect
  <2>3. /\ \A g : Of(g)' = Of(g)
        /\ \A t \in Tokens : tokens'[t].replacedBy = tokens[t].replacedBy
    BY <1>9, RevokeEffect DEF IInv
  <2>4. \A g \in Families : \A v \in Calls(g) : pc[v] = "rotate" => job[v].token \in Tokens
    BY <2>1 DEF TypeOK, JobInv, JobOK, Calls, Of
  <2>5. \A g \in Families : Of(g) \subseteq Tokens /\ Calls(g) \subseteq Workers
    BY DEF Of, Calls
  <2>6. QED
    BY <2>1, <2>2, <2>3, <2>4, <2>5 DEF ChainInv
<1>10. ASSUME NEW w \in Workers, Receive(w)
      PROVE  ChainInv'
  <2>1. TypeOK /\ ChainInv /\ Return(w) /\ UNCHANGED <<tokens, overlapped>>
    BY <1>10 DEF Receive, Return, IInv
  <2>2. QED
    BY <2>1, ReturnEffect, ChainKept
<1>11. ASSUME NEW w \in Workers, Fail(w)
      PROVE  ChainInv'
  <2>1. TypeOK /\ ChainInv /\ Return(w) /\ UNCHANGED <<tokens, overlapped>>
    BY <1>11 DEF Fail, Return, IInv
  <2>2. QED
    BY <2>1, ReturnEffect, ChainKept
<1>12. ASSUME NEW t \in Tokens, Expire(t)
      PROVE  ChainInv'
  <2>1. /\ UNCHANGED <<tokens, pc, job, overlapped>>
        /\ \A g : Of(g)' = Of(g) /\ Calls(g)' = Calls(g)
    BY <1>12, SameRows, SameCalls DEF Expire
  <2>2. QED
    BY <2>1 DEF IInv, ChainInv
<1>13. ASSUME UNCHANGED vars PROVE ChainInv'
  BY <1>13 DEF vars, IInv, ChainInv, Of, Calls
<1>14. QED
  BY <1>1, <1>2, <1>2a, <1>3, <1>4, <1>5, <1>6, <1>7, <1>8, <1>9, <1>10, <1>11, <1>12, <1>13
     DEF Next

-----------------------------------------------------------------------------
(* The device of a quiet family presents the end of the chain.             *)

Quiet(f) == f \in Families \ (lost \cup overlapped \cup stolen \cup loggedOut)

DeviceOK(f) ==
  /\ \A w \in Calls(f) :
       /\ job[w].by = "device"
       /\ pc[w] = "reply" => Usable(job[w].new)
       /\ pc[w] = "revoke" => job[w].kind = "logout"
       /\ pc[w] \in {"find", "rotate"} => job[w].token = device[f]
  /\ device[f] # None /\ (\A w \in Calls(f) : pc[w] # "reply") => Usable(device[f])

\* A step of a call leaves the other families as they are.
LEMMA DeviceKept ==
  ASSUME TypeOK, JobInv, RowInv, NEW w \in Workers, NEW f \in Families, DeviceOK(f),
         w \notin Calls(f), Calls(f)' = Calls(f),
         \A v \in Workers \ {w} : pc'[v] = pc[v] /\ job'[v] = job[v],
         \A t \in Of(f) : tokens'[t] = tokens[t],
         device'[f] = device[f]
  PROVE  DeviceOK(f)'
<1>1. \A v \in Calls(f) : v \in Workers \ {w} /\ job[v].family = f
  BY DEF Calls
<1>2. \A v \in Calls(f) : pc[v] = "reply" => job[v].new \in Of(f)
  BY <1>1 DEF JobInv, JobOK
<1>3. device[f] # None => device[f] \in Of(f)
  BY DEF RowInv
<1>4. QED
  BY <1>1, <1>2, <1>3 DEF DeviceOK, Usable

\* A step that stores nothing may shorten the calls of a family, if no answer goes.
LEMMA DeviceShrinks ==
  ASSUME TypeOK, JobInv, NEW w \in Workers, NEW f \in Families, DeviceOK(f),
         Calls(f)' \subseteq Calls(f), Calls(f) \subseteq Calls(f)' \cup {w},
         \A v \in Workers \ {w} : pc'[v] = pc[v] /\ job'[v] = job[v],
         pc[w] # "reply" \/ w \notin Calls(f),
         pc'[w] \notin {"reply", "revoke", "find"},
         w \in Calls(f)' => job'[w].by = job[w].by,
         pc'[w] = "rotate" => job'[w].token = device[f],
         UNCHANGED <<tokens, device>>
  PROVE  DeviceOK(f)'
<1>1. Calls(f) \subseteq Workers
  BY DEF Calls
<1>2. QED
  BY <1>1 DEF DeviceOK, Usable

LEMMA DeviceStep ==
  ASSUME IInv, [Next]_vars
  PROVE  DeviceInv'
<1>1. ASSUME NEW w \in Workers, NEW f \in Families, Login(w, f)
      PROVE  DeviceInv'
  <2>1. PICK j : Call(w, "verify", j) /\ j.family = f /\ j.by = "device"
    <3>1. PICK e \in Emails, p \in Passwords :
            Call(w, "verify", [NoJob EXCEPT !.kind = "login", !.family = f,
                                            !.email = e, !.password = p])
      BY <1>1 DEF Login
    <3>2. /\ [NoJob EXCEPT !.kind = "login", !.family = f, !.email = e, !.password = p].family = f
          /\ [NoJob EXCEPT !.kind = "login", !.family = f, !.email = e, !.password = p].by
               = "device"
      BY DEF NoJob
    <3>3. QED
      BY <3>1, <3>2
  <2>2. /\ TypeOK /\ JobInv /\ RowInv /\ UNCHANGED <<tokens, device, lost, stolen, loggedOut>>
        /\ \A g \in Families : Quiet(g) => DeviceOK(g)
    BY <1>1 DEF Login, IInv, DeviceInv, Quiet, DeviceOK
  <2>3. /\ pc[w] = "idle" /\ job[w] = NoJob /\ pc'[w] = "verify" /\ job'[w] = j
        /\ \A v \in Workers \ {w} : pc'[v] = pc[v] /\ job'[v] = job[v]
        /\ \A g \in Families :
             Calls(g)' = IF g = j.family THEN Calls(g) \cup {w} ELSE Calls(g)
    BY <2>1, <2>2, CallEffect
  <2>4. \A g \in Families : w \notin Calls(g)
    BY <2>3, NoneAssumption DEF Calls, NoJob
  <2>5. \A g \in Families : Quiet(g)' => Quiet(g) /\ (g = j.family => Calls(g) = {})
    BY <2>1, <2>2, NoneAssumption DEF Quiet, Call
  <2>6. ASSUME NEW g \in Families, Quiet(g)' PROVE DeviceOK(g)'
    <3>1. CASE g = j.family
      <4>1. device[f] = None /\ g = f
        BY <1>1, <2>1, <3>1 DEF Login, IInv, RowInv
      <4>2. QED
        BY <2>1, <2>2, <2>3, <2>5, <2>6, <3>1, <4>1 DEF DeviceOK
    <3>2. CASE g # j.family
      BY <2>2, <2>3, <2>4, <2>5, <2>6, <3>2, DeviceKept DEF Of
    <3>3. QED
      BY <3>1, <3>2
  <2>7. QED
    BY <2>6 DEF Quiet, DeviceOK, DeviceInv
<1>2. ASSUME NEW w \in Workers, NEW f \in Families, NEW kind \in {"refresh", "logout"},
             Present(w, f, kind)
      PROVE  DeviceInv'
  <2>1. PICK j : Call(w, "find", j) /\ j.family = f /\ j.token = device[f] /\ j.by = "device"
    <3>1. Call(w, "find", [NoJob EXCEPT !.kind = kind, !.family = f, !.token = device[f]])
      BY <1>2 DEF Present
    <3>2. /\ [NoJob EXCEPT !.kind = kind, !.family = f, !.token = device[f]].family = f
          /\ [NoJob EXCEPT !.kind = kind, !.family = f, !.token = device[f]].token = device[f]
          /\ [NoJob EXCEPT !.kind = kind, !.family = f, !.token = device[f]].by = "device"
      BY DEF NoJob
    <3>3. QED
      BY <3>1, <3>2
  <2>2. /\ TypeOK /\ JobInv /\ RowInv /\ UNCHANGED <<tokens, device, lost, stolen, loggedOut>>
        /\ \A g \in Families : Quiet(g) => DeviceOK(g)
    BY <1>2 DEF Present, IInv, DeviceInv, Quiet, DeviceOK
  <2>3. /\ pc[w] = "idle" /\ job[w] = NoJob /\ pc'[w] = "find" /\ job'[w] = j
        /\ \A v \in Workers \ {w} : pc'[v] = pc[v] /\ job'[v] = job[v]
        /\ \A g \in Families :
             Calls(g)' = IF g = j.family THEN Calls(g) \cup {w} ELSE Calls(g)
    BY <2>1, <2>2, CallEffect
  <2>4. \A g \in Families : w \notin Calls(g)
    BY <2>3, NoneAssumption DEF Calls, NoJob
  <2>5. \A g \in Families : Quiet(g)' => Quiet(g) /\ (g = j.family => Calls(g) = {})
    BY <2>1, <2>2, NoneAssumption DEF Quiet, Call
  <2>6. ASSUME NEW g \in Families, Quiet(g)' PROVE DeviceOK(g)'
    <3>1. CASE g = j.family
      BY <2>1, <2>2, <2>3, <2>5, <2>6, <3>1 DEF DeviceOK, Usable
    <3>2. CASE g # j.family
      BY <2>2, <2>3, <2>4, <2>5, <2>6, <3>2, DeviceKept DEF Of
    <3>3. QED
      BY <3>1, <3>2
  <2>7. QED
    BY <2>6 DEF Quiet, DeviceOK, DeviceInv
<1>2a. ASSUME NEW w \in Workers, NEW t \in Tokens, NEW kind \in {"refresh", "logout"},
              PresentStolen(w, t, kind)
       PROVE  DeviceInv'
  <2> DEFINE f == tokens[t].family
  <2>1. PICK j : Call(w, "find", j) /\ j.family = f
    <3>1. Call(w, "find", [NoJob EXCEPT !.kind = kind, !.by = "other", !.family = f, !.token = t])
      BY <1>2a DEF PresentStolen
    <3>2. [NoJob EXCEPT !.kind = kind, !.by = "other", !.family = f, !.token = t].family = f
      BY DEF NoJob
    <3>3. QED
      BY <3>1, <3>2
  <2>2. /\ TypeOK /\ JobInv /\ RowInv /\ UNCHANGED <<tokens, device, lost, loggedOut>>
        /\ stolen' = stolen \cup {f}
        /\ \A g \in Families : Quiet(g) => DeviceOK(g)
    BY <1>2a DEF PresentStolen, IInv, DeviceInv, Quiet, DeviceOK
  <2>3. /\ pc[w] = "idle" /\ job[w] = NoJob
        /\ \A v \in Workers \ {w} : pc'[v] = pc[v] /\ job'[v] = job[v]
        /\ \A g \in Families :
             Calls(g)' = IF g = j.family THEN Calls(g) \cup {w} ELSE Calls(g)
    BY <2>1, <2>2, CallEffect
  <2>4. \A g \in Families : w \notin Calls(g)
    BY <2>3, NoneAssumption DEF Calls, NoJob
  <2>5. \A g \in Families : Quiet(g)' => Quiet(g) /\ g # j.family
    BY <2>1, <2>2, NoneAssumption DEF Quiet, Call
  <2>6. ASSUME NEW g \in Families, Quiet(g)' PROVE DeviceOK(g)'
    BY <2>2, <2>3, <2>4, <2>5, <2>6, DeviceKept DEF Of
  <2>7. QED
    BY <2>6 DEF Quiet, DeviceOK, DeviceInv
<1>3. ASSUME NEW w \in Workers, Register(w)
      PROVE  DeviceInv'
  <2>1. PICK j : Call(w, "insert", j) /\ j.family = None
    <3>1. PICK e \in Emails, p \in Passwords :
            Call(w, "insert", [NoJob EXCEPT !.kind = "register", !.email = e, !.password = p])
      BY <1>3 DEF Register
    <3>2. [NoJob EXCEPT !.kind = "register", !.email = e, !.password = p].family = None
      BY DEF NoJob
    <3>3. QED
      BY <3>1, <3>2
  <2>2. /\ TypeOK /\ JobInv /\ RowInv /\ UNCHANGED <<tokens, device, lost, stolen, loggedOut>>
        /\ \A g \in Families : Quiet(g) => DeviceOK(g)
    BY <1>3 DEF Register, IInv, DeviceInv, Quiet, DeviceOK
  <2>3. /\ pc[w] = "idle" /\ job[w] = NoJob /\ pc'[w] = "insert" /\ job'[w] = j
        /\ \A v \in Workers \ {w} : pc'[v] = pc[v] /\ job'[v] = job[v]
        /\ \A g \in Families :
             Calls(g)' = IF g = j.family THEN Calls(g) \cup {w} ELSE Calls(g)
    BY <2>1, <2>2, CallEffect
  <2>4. \A g \in Families : w \notin Calls(g)
    BY <2>3, NoneAssumption DEF Calls, NoJob
  <2>5. \A g \in Families : Quiet(g)' => Quiet(g) /\ (g = j.family => Calls(g) = {})
    BY <2>1, <2>2, NoneAssumption DEF Quiet, Call
  <2>6. ASSUME NEW g \in Families, Quiet(g)' PROVE DeviceOK(g)'
    BY <2>1, <2>2, <2>3, <2>4, <2>5, <2>6, NoneAssumption, DeviceKept DEF Of
  <2>7. QED
    BY <2>6 DEF Quiet, DeviceOK, DeviceInv
<1>4. ASSUME NEW w \in Workers, CreateUser(w)
      PROVE  DeviceInv'
  <2>1. /\ TypeOK /\ JobInv /\ RowInv /\ ChainInv
        /\ \A g \in Families : Quiet(g) => DeviceOK(g)
    BY DEF IInv, DeviceInv, Quiet, DeviceOK
  <2>2. /\ Return(w) /\ pc[w] = "insert"
        /\ UNCHANGED <<tokens, device, lost, overlapped, stolen, loggedOut>>
    BY <1>4 DEF CreateUser, Return
  <2>3. /\ pc'[w] = "idle"
        /\ \A v \in Workers \ {w} : pc'[v] = pc[v] /\ job'[v] = job[v]
        /\ \A g \in Families : Calls(g)' = Calls(g) \ {w}
    BY <2>1, <2>2, ReturnEffect
  <2>4. ASSUME NEW g \in Families, Quiet(g)' PROVE DeviceOK(g)'
    <3>1. Quiet(g)
      BY <2>2, <2>4 DEF Quiet
    <3>2. QED
      BY <2>1, <2>2, <2>3, <3>1, DeviceShrinks
  <2>5. QED
    BY <2>4 DEF Quiet, DeviceOK, DeviceInv
<1>5. ASSUME NEW w \in Workers, GetUserByEmail(w)
      PROVE  DeviceInv'
  <2>1. /\ TypeOK /\ JobInv /\ RowInv /\ ChainInv
        /\ \A g \in Families : Quiet(g) => DeviceOK(g)
    BY DEF IInv, DeviceInv, Quiet, DeviceOK
  <2>2. pc[w] = "verify" /\ UNCHANGED <<tokens, device, lost, overlapped, stolen, loggedOut>>
    BY <1>5 DEF GetUserByEmail, Return
  <2>3. /\ pc'[w] \in {"idle", "issue"}
        /\ \A v \in Workers \ {w} : pc'[v] = pc[v] /\ job'[v] = job[v]
        /\ \A g \in Families : /\ Calls(g)' \subseteq Calls(g)
                               /\ Calls(g) \subseteq Calls(g)' \cup {w}
                               /\ w \in Calls(g)' => job'[w].by = job[w].by
    <3>1. CASE Return(w)
      BY <2>1, <3>1, ReturnEffect
    <3>2. CASE ~Return(w)
      <4>1. /\ pc' = [pc EXCEPT ![w] = "issue"]
            /\ \E t \in Tokens : job' = [job EXCEPT ![w].new = t]
        BY <1>5, <3>2 DEF GetUserByEmail
      <4>2. /\ pc'[w] = "issue" /\ job'[w].by = job[w].by
            /\ \A v \in Workers \ {w} : pc'[v] = pc[v] /\ job'[v] = job[v]
            /\ \A g \in Families : Calls(g)' = Calls(g)
        BY <2>1, <4>1, MoveEffect
      <4>3. QED
        BY <4>2
    <3>3. QED
      BY <3>1, <3>2
  <2>4. ASSUME NEW g \in Families, Quiet(g)' PROVE DeviceOK(g)'
    <3>1. Quiet(g)
      BY <2>2, <2>4 DEF Quiet
    <3>2. QED
      BY <2>1, <2>2, <2>3, <3>1, DeviceShrinks
  <2>5. QED
    BY <2>4 DEF Quiet, DeviceOK, DeviceInv
<1>6. ASSUME NEW w \in Workers, CreateRefreshToken(w)
      PROVE  DeviceInv'
  <2>1. /\ TypeOK /\ JobInv /\ RowInv /\ ChainInv
        /\ \A g \in Families : Quiet(g) => DeviceOK(g)
    BY DEF IInv, DeviceInv, Quiet, DeviceOK
  <2>2. PICK f \in Families, n \in Tokens : Issues(w, f, n)
    BY <1>6, IssueEffect DEF IInv
  <2>3. /\ pc' = [pc EXCEPT ![w] = "reply"]
        /\ UNCHANGED <<job, device, lost, overlapped, stolen, loggedOut>>
        /\ \A g : Calls(g)' = Calls(g)
    BY <1>6 DEF CreateRefreshToken, Goto, Calls
  <2>4. w \in Calls(f) /\ \A g \in Families \ {f} : w \notin Calls(g)
    BY <2>2 DEF Issues, Calls
  <2>5. \A g \in Families \ {f} : \A u \in Of(g) : tokens'[u] = tokens[u]
    BY <2>2, UnissuedIsNowhere DEF Issues, Of
  <2>6. Usable(n)' /\ job[w].new = n
    BY <2>2 DEF Issues, Usable
  <2>7. pc'[w] = "reply" /\ \A v \in Workers \ {w} : pc'[v] = pc[v] /\ job'[v] = job[v]
    BY <2>1, <2>3 DEF TypeOK
  <2>8. ASSUME NEW g \in Families, Quiet(g)' PROVE DeviceOK(g)'
    <3>1. Quiet(g)
      BY <2>3, <2>8 DEF Quiet
    <3>2. CASE g = f
      <4>1. \A v \in Calls(f) : v = w
        BY <2>1, <2>4, <3>1, <3>2 DEF ChainInv, Quiet
      <4>2. job[w].by = "device"
        BY <2>1, <2>4, <3>1, <3>2 DEF DeviceOK
      <4>3. QED
        BY <2>3, <2>4, <2>6, <2>7, <3>2, <4>1, <4>2 DEF DeviceOK, Usable
    <3>3. CASE g # f
      BY <2>1, <2>3, <2>4, <2>5, <2>7, <3>1, <3>3, DeviceKept
    <3>4. QED
      BY <3>2, <3>3
  <2>9. QED
    BY <2>8 DEF Quiet, DeviceOK, DeviceInv
<1>7. ASSUME NEW w \in Workers, GetTokenByHash(w)
      PROVE  DeviceInv'
  <2>1. /\ TypeOK /\ JobInv /\ RowInv /\ ChainInv
        /\ \A g \in Families : Quiet(g) => DeviceOK(g)
    BY DEF IInv, DeviceInv, Quiet, DeviceOK
  <2>2. pc[w] = "find" /\ UNCHANGED <<tokens, device, lost, overlapped, stolen, loggedOut>>
    BY <1>7 DEF GetTokenByHash, Return, Goto
  <2>3. PICK f \in Families : f = job[w].family
    BY <2>1, <2>2 DEF JobInv, JobOK
  <2>4. Quiet(f) => job[w].token = device[f] /\ Usable(job[w].token)
    <3>1. w \in Calls(f)
      BY <2>3 DEF Calls
    <3>2. Quiet(f) => \A v \in Calls(f) : v = w
      BY <2>1, <3>1 DEF ChainInv, Quiet
    <3>3. job[w].token \in Of(f)
      BY <2>1, <2>2, <2>3 DEF JobInv, JobOK
    <3>4. job[w].token # None
      BY <3>3, NoneAssumption DEF Of
    <3>5. QED
      BY <2>1, <2>2, <3>1, <3>2, <3>4 DEF DeviceOK
  <2>5. /\ \/ pc'[w] = "idle"
           \/ pc'[w] = "rotate" /\ job'[w].token = job[w].token
           \/ /\ pc'[w] = "revoke" /\ job'[w].kind = job[w].kind
              /\ job[w].kind = "refresh" => tokens[job[w].token].replacedBy # None
        /\ \A v \in Workers \ {w} : pc'[v] = pc[v] /\ job'[v] = job[v]
        /\ \A g \in Families : /\ Calls(g)' \subseteq Calls(g)
                               /\ Calls(g) \subseteq Calls(g)' \cup {w}
                               /\ w \in Calls(g)' => g = f /\ job'[w].by = job[w].by
    <3>1. CASE Return(w)
      <4>1. /\ pc'[w] = "idle"
            /\ \A v \in Workers \ {w} : pc'[v] = pc[v] /\ job'[v] = job[v]
            /\ \A g \in Families : Calls(g)' = Calls(g) \ {w}
        BY <2>1, <3>1, ReturnEffect
      <4>2. QED
        BY <4>1
    <3>2. CASE ~Return(w)
      <4>1. PICK step \in {"revoke", "rotate"} :
              /\ pc' = [pc EXCEPT ![w] = step]
              /\ step = "revoke" /\ job[w].kind = "refresh" =>
                   tokens[job[w].token].replacedBy # None
        BY <1>7, <3>2 DEF GetTokenByHash, Goto, Replayed
      <4>2. \/ UNCHANGED job
            \/ \E t \in Tokens : job' = [job EXCEPT ![w].new = t]
        BY <1>7, <3>2 DEF GetTokenByHash, Goto
      <4>3. /\ pc'[w] = step /\ job'[w].kind = job[w].kind /\ job'[w].token = job[w].token
            /\ job'[w].by = job[w].by
            /\ \A v \in Workers \ {w} : pc'[v] = pc[v] /\ job'[v] = job[v]
            /\ \A g \in Families : Calls(g)' = Calls(g)
        BY <2>1, <4>1, <4>2, MoveEffect
      <4>4. \A g \in Families : w \in Calls(g) => g = f
        BY <2>3 DEF Calls
      <4>5. QED
        BY <4>1, <4>3, <4>4
    <3>3. QED
      BY <3>1, <3>2
  <2>6. ASSUME NEW g \in Families, Quiet(g)' PROVE DeviceOK(g)'
    <3>1. Quiet(g) /\ DeviceOK(g)
      BY <2>1, <2>2, <2>6 DEF Quiet
    <3>2. job[w].kind \in {"refresh", "logout"}
      BY <2>1, <2>2 DEF JobInv, JobOK
    <3>3. g = f => pc'[w] # "revoke" \/ job'[w].kind = "logout"
      BY <2>4, <2>5, <3>1, <3>2 DEF Usable
    <3>4. ASSUME NEW v \in Calls(g)'
          PROVE  /\ job'[v].by = "device"
                 /\ pc'[v] = "reply" => Usable(job'[v].new)
                 /\ pc'[v] = "revoke" => job'[v].kind = "logout"
                 /\ pc'[v] \in {"find", "rotate"} => job'[v].token = device[g]
      <4>1. CASE v = w
        BY <2>3, <2>4, <2>5, <3>1, <3>3, <4>1 DEF DeviceOK
      <4>2. CASE v # w
        BY <2>5, <3>1, <4>2 DEF DeviceOK, Calls
      <4>3. QED
        BY <4>1, <4>2
    <3>5. (\A v \in Calls(g)' : pc'[v] # "reply") => \A v \in Calls(g) : pc[v] # "reply"
      BY <2>2, <2>5 DEF Calls
    <3>6. QED
      BY <2>2, <3>1, <3>4, <3>5 DEF DeviceOK, Usable
  <2>7. QED
    BY <2>6 DEF Quiet, DeviceOK, DeviceInv
<1>8. ASSUME NEW w \in Workers, RotateToken(w)
      PROVE  DeviceInv'
  <2>1. /\ TypeOK /\ JobInv /\ RowInv /\ ChainInv
        /\ \A g \in Families : Quiet(g) => DeviceOK(g)
    BY DEF IInv, DeviceInv, Quiet, DeviceOK
  <2>2. PICK f \in Families, t \in Tokens, n \in Tokens : Rotates(w, f, t, n)
    BY <1>8, RotateEffect DEF IInv
  <2>3. /\ pc' = [pc EXCEPT ![w] = "reply"]
        /\ UNCHANGED <<job, device, lost, overlapped, stolen, loggedOut>>
        /\ \A g : Calls(g)' = Calls(g)
    BY <1>8 DEF RotateToken, Goto, Calls
  <2>4. w \in Calls(f) /\ \A g \in Families \ {f} : w \notin Calls(g)
    BY <2>2 DEF Rotates, Calls
  <2>5. \A g \in Families \ {f} : \A u \in Of(g) : tokens'[u] = tokens[u]
    BY <2>2, UnissuedIsNowhere DEF Rotates, Of
  <2>6. Usable(n)' /\ job[w].new = n
    BY <2>2 DEF Rotates, Usable
  <2>7. pc'[w] = "reply" /\ \A v \in Workers \ {w} : pc'[v] = pc[v] /\ job'[v] = job[v]
    BY <2>1, <2>3 DEF TypeOK
  <2>8. ASSUME NEW g \in Families, Quiet(g)' PROVE DeviceOK(g)'
    <3>1. Quiet(g)
      BY <2>3, <2>8 DEF Quiet
    <3>2. CASE g = f
      <4>1. \A v \in Calls(f) : v = w
        BY <2>1, <2>4, <3>1, <3>2 DEF ChainInv, Quiet
      <4>2. job[w].by = "device"
        BY <2>1, <2>4, <3>1, <3>2 DEF DeviceOK
      <4>3. QED
        BY <2>3, <2>4, <2>6, <2>7, <3>2, <4>1, <4>2 DEF DeviceOK, Usable
    <3>3. CASE g # f
      BY <2>1, <2>3, <2>4, <2>5, <2>7, <3>1, <3>3, DeviceKept
    <3>4. QED
      BY <3>2, <3>3
  <2>9. QED
    BY <2>8 DEF Quiet, DeviceOK, DeviceInv
<1>9. ASSUME NEW w \in Workers, RevokeTokenFamily(w)
      PROVE  DeviceInv'
  <2>1. /\ TypeOK /\ JobInv /\ RowInv /\ ChainInv
        /\ \A g \in Families : Quiet(g) => DeviceOK(g)
    BY DEF IInv, DeviceInv, Quiet, DeviceOK
  <2>2. Return(w) /\ pc[w] = "revoke" /\ UNCHANGED <<device, lost, overlapped, stolen>>
    BY <1>9 DEF RevokeTokenFamily, Return
  <2>3. /\ pc'[w] = "idle"
        /\ \A v \in Workers \ {w} : pc'[v] = pc[v] /\ job'[v] = job[v]
        /\ \A g \in Families : Calls(g)' = Calls(g) \ {w}
    BY <2>1, <2>2, ReturnEffect
  <2>4. PICK f \in Families : f = job[w].family
    BY <1>9, RevokeEffect DEF IInv
  <2>5. loggedOut' = IF job[w].kind = "logout" THEN loggedOut \cup {f} ELSE loggedOut
    BY <1>9, <2>4 DEF RevokeTokenFamily
  <2>6. \A g \in Families \ {f} : \A u \in Of(g) : tokens'[u] = tokens[u]
    BY <1>9, <2>4, RevokeEffect DEF IInv, Of
  <2>7. ASSUME NEW g \in Families, Quiet(g)' PROVE DeviceOK(g)'
    <3>1. Quiet(g)
      BY <2>2, <2>5, <2>7 DEF Quiet
    <3>2. g # f
      <4>1. w \in Calls(f)
        BY <2>4 DEF Calls
      <4>2. Quiet(f) => job[w].kind = "logout"
        BY <2>1, <2>2, <4>1 DEF DeviceOK
      <4>3. QED
        BY <2>5, <2>7, <3>1, <4>2 DEF Quiet
    <3>3. w \notin Calls(g)
      BY <2>4, <3>2 DEF Calls
    <3>4. QED
      BY <2>1, <2>2, <2>3, <2>6, <3>1, <3>2, <3>3, DeviceKept
  <2>8. QED
    BY <2>7 DEF Quiet, DeviceOK, DeviceInv
<1>10. ASSUME NEW w \in Workers, Receive(w)
      PROVE  DeviceInv'
  <2>1. /\ TypeOK /\ JobInv /\ RowInv /\ ChainInv
        /\ \A g \in Families : Quiet(g) => DeviceOK(g)
    BY DEF IInv, DeviceInv, Quiet, DeviceOK
  <2>2. Return(w) /\ pc[w] = "reply" /\ UNCHANGED <<tokens, lost, overlapped, stolen, loggedOut>>
    BY <1>10 DEF Receive, Return
  <2>3. /\ pc'[w] = "idle"
        /\ \A v \in Workers \ {w} : pc'[v] = pc[v] /\ job'[v] = job[v]
        /\ \A g \in Families : Calls(g)' = Calls(g) \ {w}
    BY <2>1, <2>2, ReturnEffect
  <2>4. PICK f \in Families : f = job[w].family
    BY <2>1, <2>2 DEF JobInv, JobOK
  <2>5. /\ job[w].by = "device" => device'[f] = job[w].new
        /\ \A g \in Families \ {f} : device'[g] = device[g]
    BY <1>10, <2>1, <2>4 DEF Receive, TypeOK
  <2>6. ASSUME NEW g \in Families, Quiet(g)' PROVE DeviceOK(g)'
    <3>1. Quiet(g)
      BY <2>2, <2>6 DEF Quiet
    <3>2. CASE g = f
      <4>1. w \in Calls(g)
        BY <2>4, <3>2 DEF Calls
      <4>2. Calls(g)' = {}
        BY <2>1, <2>3, <3>1, <4>1 DEF ChainInv, Quiet
      <4>3. Usable(job[w].new) /\ job[w].by = "device"
        BY <2>1, <2>2, <3>1, <4>1 DEF DeviceOK
      <4>4. QED
        BY <2>2, <2>5, <3>2, <4>2, <4>3 DEF DeviceOK, Usable
    <3>3. CASE g # f
      <4>1. w \notin Calls(g)
        BY <2>4, <3>3 DEF Calls
      <4>2. QED
        BY <2>1, <2>2, <2>3, <2>5, <3>1, <3>3, <4>1, DeviceKept DEF Of
    <3>4. QED
      BY <3>2, <3>3
  <2>7. QED
    BY <2>6 DEF Quiet, DeviceOK, DeviceInv
<1>11. ASSUME NEW w \in Workers, Fail(w)
      PROVE  DeviceInv'
  <2>1. /\ TypeOK /\ JobInv /\ RowInv /\ ChainInv
        /\ \A g \in Families : Quiet(g) => DeviceOK(g)
    BY DEF IInv, DeviceInv, Quiet, DeviceOK
  <2>2. Return(w) /\ UNCHANGED <<tokens, device, overlapped, stolen, loggedOut>>
    BY <1>11 DEF Fail, Return
  <2>3. /\ pc'[w] = "idle"
        /\ \A v \in Workers \ {w} : pc'[v] = pc[v] /\ job'[v] = job[v]
        /\ \A g \in Families : Calls(g)' = Calls(g) \ {w}
    BY <2>1, <2>2, ReturnEffect
  <2>4. lost' = IF pc[w] = "reply" THEN lost \cup {job[w].family} ELSE lost
    BY <1>11 DEF Fail
  <2>5. ASSUME NEW g \in Families, Quiet(g)' PROVE DeviceOK(g)'
    <3>1. Quiet(g) /\ (pc[w] # "reply" \/ w \notin Calls(g))
      BY <2>2, <2>4, <2>5 DEF Quiet, Calls
    <3>2. QED
      BY <2>1, <2>2, <2>3, <3>1, DeviceShrinks
  <2>6. QED
    BY <2>5 DEF Quiet, DeviceOK, DeviceInv
<1>12. ASSUME NEW t \in Tokens, Expire(t)
      PROVE  DeviceInv'
  <2>1. /\ UNCHANGED <<tokens, device, pc, job, lost, overlapped, stolen, loggedOut>>
        /\ \A g : Calls(g)' = Calls(g)
    BY <1>12, SameCalls DEF Expire
  <2>2. QED
    BY <2>1 DEF IInv, DeviceInv, Usable
<1>13. ASSUME UNCHANGED vars PROVE DeviceInv'
  BY <1>13 DEF vars, IInv, DeviceInv, Usable, Calls
<1>14. QED
  BY <1>1, <1>2, <1>2a, <1>3, <1>4, <1>5, <1>6, <1>7, <1>8, <1>9, <1>10, <1>11, <1>12, <1>13
     DEF Next

-----------------------------------------------------------------------------
(* No session moves to another account, and no account is taken over.      *)

LEMMA MatchStep ==
  ASSUME IInv, [Next]_vars
  PROVE  SessionsMatchAccounts'
<1>1. ASSUME NEW w \in Workers, NEW f \in Families, Login(w, f)
      PROVE  SessionsMatchAccounts'
  BY <1>1, SameRows DEF Login, IInv, SessionsMatchAccounts, VerifyPassword
<1>2. ASSUME NEW w \in Workers, NEW f \in Families, NEW kind \in {"refresh", "logout"},
             Present(w, f, kind)
      PROVE  SessionsMatchAccounts'
  BY <1>2, SameRows DEF Present, IInv, SessionsMatchAccounts, VerifyPassword
<1>2a. ASSUME NEW w \in Workers, NEW t \in Tokens, NEW kind \in {"refresh", "logout"},
              PresentStolen(w, t, kind)
       PROVE  SessionsMatchAccounts'
  BY <1>2a, SameRows DEF PresentStolen, IInv, SessionsMatchAccounts, VerifyPassword
<1>3. ASSUME NEW w \in Workers, Register(w)
      PROVE  SessionsMatchAccounts'
  BY <1>3, SameRows DEF Register, IInv, SessionsMatchAccounts, VerifyPassword
<1>4. ASSUME NEW w \in Workers, CreateUser(w)
      PROVE  SessionsMatchAccounts'
  <2>1. \A e \in Emails : users[e] # NoUser => users'[e] = users[e]
    BY <1>4 DEF CreateUser, EmailFree, IInv, TypeOK
  <2>2. UNCHANGED <<tokens, secret>>
    BY <1>4 DEF CreateUser
  <2>3. QED
    BY <2>1, <2>2, SameRows, HashIsNoMark
       DEF IInv, RowInv, SessionsMatchAccounts, VerifyPassword
<1>5. ASSUME NEW w \in Workers, GetUserByEmail(w)
      PROVE  SessionsMatchAccounts'
  BY <1>5, SameRows DEF GetUserByEmail, IInv, SessionsMatchAccounts, VerifyPassword
<1>6. ASSUME NEW w \in Workers, CreateRefreshToken(w)
      PROVE  SessionsMatchAccounts'
  <2>1. PICK f \in Families, n \in Tokens : Issues(w, f, n)
    BY <1>6, IssueEffect DEF IInv
  <2>2. VerifyPassword(job[w].password, users[job[w].email]) /\ users' = users
    BY <1>6 DEF CreateRefreshToken, IInv, JobInv, JobOK
  <2>3. secret'[f] = job[w].password /\ \A g \in Families \ {f} : secret'[g] = secret[g]
    BY <1>6, <2>1 DEF CreateRefreshToken, Issues, IInv, TypeOK
  <2>4. \A t \in Tokens : Issued(t) => tokens[t].family \in Families \ {f}
    BY <2>1 DEF Issues, Of, IInv, RowInv
  <2>5. ASSUME NEW t \in Tokens, Issued(t)'
        PROVE  VerifyPassword(secret'[tokens'[t].family], users'[tokens'[t].user])
    <3>1. CASE t = n
      BY <2>1, <2>2, <2>3, <3>1 DEF Issues
    <3>2. CASE t # n
      BY <2>1, <2>2, <2>3, <2>4, <2>5, <3>2 DEF Issues, IInv, SessionsMatchAccounts
    <3>3. QED
      BY <3>1, <3>2
  <2>6. QED
    BY <2>5 DEF SessionsMatchAccounts, VerifyPassword
<1>7. ASSUME NEW w \in Workers, GetTokenByHash(w)
      PROVE  SessionsMatchAccounts'
  BY <1>7, SameRows DEF GetTokenByHash, IInv, SessionsMatchAccounts, VerifyPassword
<1>8. ASSUME NEW w \in Workers, RotateToken(w)
      PROVE  SessionsMatchAccounts'
  <2>1. PICK f \in Families, t \in Tokens, n \in Tokens : Rotates(w, f, t, n)
    BY <1>8, RotateEffect DEF IInv
  <2>2. UNCHANGED <<users, secret>>
    BY <1>8 DEF RotateToken
  <2>3. VerifyPassword(secret[f], users[tokens[t].user])
    BY <2>1 DEF Rotates, Of, IInv, SessionsMatchAccounts
  <2>4. ASSUME NEW u \in Tokens, Issued(u)'
        PROVE  VerifyPassword(secret'[tokens'[u].family], users'[tokens'[u].user])
    <3>1. CASE u \in {n, t}
      BY <2>1, <2>2, <2>3, <3>1 DEF Rotates
    <3>2. CASE u \notin {n, t}
      BY <2>1, <2>2, <2>4, <3>2 DEF Rotates, IInv, SessionsMatchAccounts
    <3>3. QED
      BY <3>1, <3>2
  <2>5. QED
    BY <2>4 DEF SessionsMatchAccounts, VerifyPassword
<1>9. ASSUME NEW w \in Workers, RevokeTokenFamily(w)
      PROVE  SessionsMatchAccounts'
  <2>1. UNCHANGED <<users, secret>>
    BY <1>9 DEF RevokeTokenFamily
  <2>2. QED
    BY <1>9, <2>1, RevokeEffect DEF IInv, SessionsMatchAccounts, VerifyPassword
<1>10. ASSUME NEW w \in Workers, Receive(w)
      PROVE  SessionsMatchAccounts'
  BY <1>10, SameRows DEF Receive, IInv, SessionsMatchAccounts, VerifyPassword
<1>11. ASSUME NEW w \in Workers, Fail(w)
      PROVE  SessionsMatchAccounts'
  BY <1>11, SameRows DEF Fail, IInv, SessionsMatchAccounts, VerifyPassword
<1>12. ASSUME NEW t \in Tokens, Expire(t)
      PROVE  SessionsMatchAccounts'
  BY <1>12, SameRows DEF Expire, IInv, SessionsMatchAccounts, VerifyPassword
<1>13. ASSUME UNCHANGED vars PROVE SessionsMatchAccounts'
  BY <1>13, SameRows DEF vars, IInv, SessionsMatchAccounts, VerifyPassword
<1>14. QED
  BY <1>1, <1>2, <1>2a, <1>3, <1>4, <1>5, <1>6, <1>7, <1>8, <1>9, <1>10, <1>11, <1>12, <1>13
     DEF Next

-----------------------------------------------------------------------------
\* The inductive invariant holds in every reachable state of the session store.
THEOREM Invariance == Spec => []IInv
<1>1. Init => IInv
  BY InitInv
<1>2. IInv /\ [Next]_vars => IInv'
  BY TypeStep, RowStep, JobStep, ClosedStep, ChainStep, DeviceStep, MatchStep DEF IInv
<1>3. QED
  BY <1>1, <1>2, PTL DEF Spec

\* Rows, calls and devices keep their types: RotateToken and CreateUser write
\* nothing but tokens, accounts and flags.
THEOREM TypeCorrect == Spec => []TypeOK
<1>1. IInv => TypeOK
  BY DEF IInv
<1>2. QED
  BY <1>1, Invariance, PTL

\* RevokeTokenFamily is final: unless a refresh was about to rotate when it ran, every
\* token of the family stays revoked, so that RefreshSession accepts none of them.
THEOREM RevokedForGood == Spec => []RevocationIsFinal
<1>1. IInv => RevocationIsFinal
  BY DEF IInv, ClosedInv, RevocationIsFinal, Live
<1>2. QED
  BY <1>1, Invariance, PTL

\* RefreshSession leaves a family with one token that works: without overlapping
\* calls, its tokens form one chain, and only the end of a chain can work.
THEOREM OneTokenWorks == Spec => []OneLiveToken
<1>1. ASSUME IInv PROVE OneLiveToken
  <2>1. SUFFICES ASSUME NEW f \in Families \ overlapped
                 PROVE  Cardinality({t \in Of(f) : Live(t)}) <= 1
    BY DEF OneLiveToken
  <2>2. \A t, u \in {x \in Of(f) : Live(x)} : t = u
    BY <1>1 DEF IInv, ChainInv, Live
  <2>3. \/ {t \in Of(f) : Live(t)} = {}
        \/ \E t : {u \in Of(f) : Live(u)} = {t}
    BY <2>2
  <2>4. CASE {t \in Of(f) : Live(t)} = {}
    BY <2>4, FS_EmptySet
  <2>5. CASE \E t : {u \in Of(f) : Live(u)} = {t}
    <3>1. PICK t : {u \in Of(f) : Live(u)} = {t}
      BY <2>5
    <3>2. Cardinality({t}) = 1
      BY FS_Singleton
    <3>3. QED
      BY <3>1, <3>2
  <2>6. QED
    BY <2>3, <2>4, <2>5
<1>2. QED
  BY <1>1, Invariance, PTL

\* A device that calls RefreshSession one call at a time, gets its answers, does not
\* log out and alone presents its tokens holds one that works until it expires.
THEOREM DeviceStaysIn == Spec => []SessionSurvives
<1>1. ASSUME IInv PROVE SessionSurvives
  <2>1. SUFFICES ASSUME NEW f \in Families, device[f] # None, Calls(f) = {},
                        f \notin lost \cup overlapped \cup stolen \cup loggedOut
                 PROVE  Live(device[f]) \/ device[f] \in expired
    BY DEF SessionSurvives
  <2>2. Usable(device[f])
    BY <1>1, <2>1 DEF IInv, DeviceInv
  <2>3. Issued(device[f])
    BY <1>1, <2>1, UnissuedIsNowhere DEF IInv, RowInv, TypeOK
  <2>4. QED
    BY <2>2, <2>3 DEF Live, Usable
<1>2. QED
  BY <1>1, Invariance, PTL

\* Whoever holds a session went through VerifyPassword with the password of its
\* account, which no later registration of the address replaces.
THEOREM SessionsAreEarned == Spec => []SessionsMatchAccounts
<1>1. IInv => SessionsMatchAccounts
  BY DEF IInv
<1>2. QED
  BY <1>1, Invariance, PTL
=============================================================================
