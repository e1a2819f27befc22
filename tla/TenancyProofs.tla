--------------------------- MODULE TenancyProofs ---------------------------
(***************************************************************************)
(* Proofs about the rows and commands of a tenant: first Tenancy, for any  *)
(* number of users, calls and rows, then TenantRequests, for any number of *)
(* users, requests and concurrent calls.  Both are about the variables of  *)
(* ServiceCalls, each by its own specification.                            *)
(***************************************************************************)
EXTENDS Tenancy, TenantRequests, TLAPS

(***************************************************************************)
(* The inductive invariant.  Sound: what a call has checked when it is     *)
(* about to execute a statement; an invitation being accepted was pending  *)
(* once and can only have become active, and a transfer about to commit is *)
(* in the log.  Remembered: whoever it takes for an owner owned the tenant *)
(* since the call began, and the role it computed was no higher than one   *)
(* its actor has had since then.  Followed: the history is up to date.     *)
(***************************************************************************)
Sound(step, j) ==
  /\ step = "idle" => j = NoJob
  /\ step = "tenant" => j.kind # "accept" /\ j.owner = None /\ j.actorRole = "unread"
  /\ step = "member" => j.kind = "accept" /\ j.owner = None /\ j.actorRole = "unread"
  /\ step = "actor" => j.kind \in {"invite", "validate"} /\ j.owner \in Users
  /\ step = "ranks" => j.kind = "revoke" /\ j.owner \in Users
  /\ step = "insert" => j.kind = "invite" /\ MayInvite(j.actorRole)
  /\ step = "status" =>
       \/ j.kind = "accept" /\ members[j.target].status \in {"pending", "active"}
       \/ j.kind = "revoke" /\ MayRevoke(j.actorRole, j.targetRole)
  /\ step = "audit" => j.kind = "accept"
  /\ step \in {"update", "upsert", "append", "commit"} =>
       j.kind = "transfer" /\ j.owner \in Users /\ MayTransfer(j.actor, j.owner)
  /\ step = "commit" => AuditRow(j) \in audit
  /\ step = "answer" => j.kind = "validate"

HadRank(w, u, role) == \E r \in Roles : <<u, r>> \in seen[w] /\ Rank(r) >= Rank(role)

Remembered(w, j) ==
  /\ j.owner # None => /\ j.owner \in everOwner
                       /\ j.owner = j.actor => <<j.actor, "owner">> \in seen[w]
  /\ j.actorRole # "unread" => HadRank(w, j.actor, j.actorRole)

JobInv == \A w \in Workers : Sound(pc[w], job[w]) /\ Remembered(w, job[w])

Followed ==
  /\ owner \in everOwner
  /\ \A w \in Workers : Busy(w) =>
       <<job[w].actor, Authority(owner, job[w].actor, members[job[w].actor])>> \in seen[w]

IInv == TypeOK /\ JobInv /\ Followed /\ FormerOwnersStay
-----------------------------------------------------------------------------
(* Roles and ranks.                                                        *)

LEMMA AuthorityType ==
  ASSUME NEW o, NEW u, NEW row \in Rows
  PROVE  Authority(o, u, row) \in Roles
  BY DEF Authority, Rows, Roles

LEMMA RankType == \A role : Rank(role) \in 0..3
  BY DEF Rank

\* The policy's computation agrees with its rules.
LEMMA EffectiveRoleIsAuthority ==
  ASSUME NEW o, NEW u, NEW row \in Rows
  PROVE  EffectiveRole(o, u, row) = Authority(o, u, row)
  BY DEF Authority, EffectiveRole

LEMMA NoRowType == NoRow \in Rows
  BY DEF NoRow, Row, Rows

LEMMA NoJobType == NoJob \in Jobs /\ "idle" \in Steps
  BY UsersAssumption DEF NoJob, Job, Jobs, Kinds, Steps

-----------------------------------------------------------------------------
(* What the step of a call does to the calls and to their history.         *)

LEMMA GotoEffect ==
  ASSUME TypeOK, NEW w \in Workers, NEW step, NEW j, Goto(w, step, j)
  PROVE  /\ pc'[w] = step /\ job'[w] = j
         /\ \A v \in Workers \ {w} : pc'[v] = pc[v] /\ job'[v] = job[v]
         /\ everOwner' = everOwner \cup {owner'}
         /\ \A v \in Workers : pc'[v] # "idle" =>
              /\ seen[v] \subseteq seen'[v]
              /\ <<job'[v].actor, Authority(owner', job'[v].actor, members'[job'[v].actor])>>
                   \in seen'[v]
<1>1. /\ pc'[w] = step /\ job'[w] = j
      /\ \A v \in Workers \ {w} : pc'[v] = pc[v] /\ job'[v] = job[v]
  BY DEF Goto, TypeOK, Advance
<1>2. Record
  BY DEF Goto
<1>3. everOwner' = everOwner \cup {owner'}
  BY <1>2 DEF Record
<1>4. \A v \in Workers : pc'[v] # "idle" =>
        seen'[v] = seen[v] \cup {<<u, Authority(owner', u, members'[u])>> :
                                   u \in {job'[v].actor, job'[v].target}}
  BY <1>2 DEF Record
<1>5. QED
  BY <1>1, <1>3, <1>4

LEMMA OwnerStays ==
  ASSUME Followed, NEW w \in Workers, NEW step, NEW j, Goto(w, step, j), owner' = owner
  PROVE  everOwner' = everOwner
<1>1. everOwner' = everOwner \cup {owner}
  BY DEF Goto, Record
<1>2. owner \in everOwner
  BY DEF Followed
<1>3. QED
  BY <1>1, <1>2

LEMMA GotoType ==
  ASSUME TypeOK, NEW w \in Workers, NEW step \in Steps, NEW j \in Jobs, Goto(w, step, j),
         owner' \in Users, members' \in [Users -> Rows]
  PROVE  /\ pc' \in [Workers -> Steps] /\ job' \in [Workers -> Jobs]
         /\ seen' \in [Workers -> SUBSET (Users \X Roles)]
         /\ everOwner' \subseteq Users
<1>1. /\ pc' \in [Workers -> Steps] /\ job' \in [Workers -> Jobs]
      /\ everOwner' \subseteq Users
  BY DEF Goto, Record, TypeOK, Advance
<1>2. \A v \in Workers : job'[v].actor \in Users /\ job'[v].target \in Users
  BY <1>1 DEF Jobs
<1>3. \A u \in Users : <<u, Authority(owner', u, members'[u])>> \in Users \X Roles
  BY AuthorityType
<1>4. \A v \in Workers : {<<u, Authority(owner', u, members'[u])>> :
                            u \in {job'[v].actor, job'[v].target}} \subseteq Users \X Roles
  BY <1>2, <1>3
<1>5. QED
  BY <1>1, <1>4 DEF Goto, Record, TypeOK, Advance

\* A row that could be accepted, or was, never becomes anything else.
Acceptable(row) == row.status \in {"pending", "active"}

LEMMA GotoKeeps ==
  ASSUME TypeOK, JobInv, Followed,
         NEW w \in Workers, NEW step \in Steps, NEW j \in Jobs, Goto(w, step, j),
         audit \subseteq audit',
         \A u \in Users : Acceptable(members[u]) => Acceptable(members'[u]),
         Sound(step, j)', step = "idle" \/ Remembered(w, j)'
  PROVE  JobInv' /\ Followed'
<1>1. /\ pc'[w] = step /\ job'[w] = j
      /\ \A v \in Workers \ {w} : pc'[v] = pc[v] /\ job'[v] = job[v]
      /\ everOwner' = everOwner \cup {owner'}
      /\ \A v \in Workers : pc'[v] # "idle" =>
           /\ seen[v] \subseteq seen'[v]
           /\ <<job'[v].actor, Authority(owner', job'[v].actor, members'[job'[v].actor])>>
                \in seen'[v]
  BY GotoEffect
<1>2. Followed'
  BY <1>1 DEF Followed, Busy
<1>3. \A v \in Workers : job[v].target \in Users
  BY DEF TypeOK, Jobs
<1>4. ASSUME NEW v \in Workers \ {w} PROVE Sound(pc[v], job[v])'
  <2>1. Sound(pc[v], job[v])
    BY DEF JobInv
  <2>2. pc'[v] = pc[v] /\ job'[v] = job[v] /\ AuditRow(job[v])' = AuditRow(job[v])
    BY <1>1 DEF AuditRow
  <2>3. Acceptable(members[job[v].target]) => Acceptable(members'[job[v].target])
    BY <1>3
  <2>4. QED
    BY <2>1, <2>2, <2>3 DEF Sound, Acceptable
<1>5. ASSUME NEW v \in Workers \ {w} PROVE Remembered(v, job[v])'
  <2>1. pc'[v] = pc[v] /\ job'[v] = job[v]
    BY <1>1
  <2>2. CASE pc[v] = "idle"
    <3>1. job[v] = NoJob
      BY <2>2 DEF JobInv, Sound
    <3>2. QED
      BY <2>1, <3>1 DEF Remembered, NoJob, Job
  <2>3. CASE pc[v] # "idle"
    <3>1. seen[v] \subseteq seen'[v] /\ everOwner \subseteq everOwner'
      BY <1>1, <2>1, <2>3
    <3>2. Remembered(v, job[v])
      BY DEF JobInv
    <3>3. QED
      BY <2>1, <3>1, <3>2 DEF Remembered, HadRank
  <2>4. QED
    BY <2>2, <2>3
<1>6. Sound(pc[w], job[w])'
  BY <1>1 DEF Sound, AuditRow
<1>7. Remembered(w, job[w])'
  <2>1. CASE step = "idle"
    <3>1. j = NoJob
      BY <2>1 DEF Sound
    <3>2. QED
      BY <1>1, <3>1 DEF Remembered, NoJob, Job
  <2>2. CASE step # "idle"
    BY <1>1, <2>2 DEF Remembered, HadRank
  <2>3. QED
    BY <2>1, <2>2
<1>8. QED
  BY <1>2, <1>4, <1>5, <1>6, <1>7 DEF JobInv

\* A call that ends forgets everything.
LEMMA ReturnKeeps ==
  ASSUME TypeOK, JobInv, Followed, NEW w \in Workers, Return(w),
         audit \subseteq audit',
         \A u \in Users : Acceptable(members[u]) => Acceptable(members'[u])
  PROVE  JobInv' /\ Followed'
<1>1. Sound("idle", NoJob)'
  BY DEF Sound
<1>2. QED
  BY <1>1, NoJobType, GotoKeeps DEF Return

\* What a call remembers stays true as long as it is under way.
LEMMA StillRemembered ==
  ASSUME TypeOK, JobInv, NEW w \in Workers, NEW step, NEW j, Goto(w, step, j), step # "idle",
         j.actor = job[w].actor,
         j.owner \in {None, job[w].owner}, j.actorRole = job[w].actorRole
  PROVE  Remembered(w, j)'
<1>1. /\ pc'[w] = step /\ everOwner' = everOwner \cup {owner'}
      /\ pc'[w] # "idle" => seen[w] \subseteq seen'[w]
  BY GotoEffect
<1>2. Remembered(w, job[w])
  BY DEF JobInv
<1>3. QED
  BY <1>1, <1>2 DEF Remembered, HadRank

\* The role computed from the owner read before and the row read now, or missed, is
\* no higher than one the actor has had: if the owner changed in between, the actor
\* was the owner or has been seen with the row's role.
LEMMA RoleWasHeld ==
  ASSUME TypeOK, JobInv, Followed, NEW w \in Workers, Busy(w), job[w].owner # None,
         NEW row \in {members[job[w].actor], NoRow}
  PROVE  HadRank(w, job[w].actor, EffectiveRole(job[w].owner, job[w].actor, row))
<1> DEFINE u == job[w].actor
           now == Authority(owner, u, members[u])
<1>1. u \in Users /\ members[u] \in Rows /\ row \in Rows
  BY NoRowType DEF TypeOK, Jobs
<1>2. <<u, now>> \in seen[w] /\ now \in Roles
  BY <1>1, AuthorityType DEF Followed
<1>3. CASE job[w].owner = u
  <2>1. <<u, "owner">> \in seen[w]
    BY <1>3 DEF JobInv, Remembered
  <2>2. EffectiveRole(job[w].owner, u, row) = "owner" /\ "owner" \in Roles
    BY <1>3 DEF EffectiveRole, Roles
  <2>3. QED
    BY <2>1, <2>2, RankType DEF HadRank
<1>4. CASE job[w].owner # u
  <2>1. Rank(now) >= Rank(EffectiveRole(job[w].owner, u, row))
    BY <1>1, <1>4 DEF Authority, EffectiveRole, Rank, Rows, NoRow, Row
  <2>2. QED
    BY <1>2, <2>1 DEF HadRank
<1>5. QED
  BY <1>3, <1>4

-----------------------------------------------------------------------------
LEMMA InitInv == Init => IInv
<1> SUFFICES ASSUME Init PROVE IInv
  OBVIOUS
<1>1. FirstRows \subseteq Rows
  BY FirstRowsAssumption DEF Rows, Row, NoRow
<1>2. TypeOK
  BY <1>1, UsersAssumption, BoundAssumption, NoJobType DEF Init, TypeOK, AllIdle
<1>3. JobInv
  BY DEF Init, JobInv, Sound, Remembered, NoJob, Job, AllIdle
<1>4. Followed /\ FormerOwnersStay
  BY DEF Init, Followed, Busy, FormerOwnersStay, AllIdle
<1>5. QED
  BY <1>2, <1>3, <1>4 DEF IInv

\* A statement that only reads the tenant's rows.
LEMMA ReadKeeps ==
  ASSUME IInv, NEW w \in Workers, NEW step \in Steps, NEW j \in Jobs, Goto(w, step, j),
         UNCHANGED <<database, displaced>>, begun' \in 0..MaxCommands,
         Sound(step, j)', step = "idle" \/ Remembered(w, j)'
  PROVE  IInv'
<1>1. TypeOK'
  BY GotoType DEF IInv, TypeOK, database
<1>2. JobInv' /\ Followed'
  BY GotoKeeps DEF IInv, database
<1>3. everOwner' = everOwner
  BY OwnerStays DEF IInv, database
<1>4. FormerOwnersStay'
  BY <1>3 DEF IInv, FormerOwnersStay, database
<1>5. QED
  BY <1>1, <1>2, <1>4 DEF IInv

LEMMA ReadReturns ==
  ASSUME IInv, NEW w \in Workers, Return(w),
         UNCHANGED <<database, displaced>>, begun' \in 0..MaxCommands
  PROVE  IInv'
<1>1. Sound("idle", NoJob)'
  BY DEF Sound
<1>2. QED
  BY <1>1, NoJobType, ReadKeeps DEF Return

LEMMA BeginKeeps ==
  ASSUME IInv, NEW w \in Workers, Begin(w)
  PROVE  IInv'
<1>1. PICK kind \in Kinds, actor \in Users, target \in Users,
           role \in {"admin", "member", "none"} :
        \E step \in FirstSteps(Job(kind, actor, target, role)) :
          Goto(w, step, Job(kind, actor, target, role))
  BY DEF Begin
<1>2. PICK j : j = Job(kind, actor, target, role)
  OBVIOUS
<1>3. PICK step \in FirstSteps(j) : Goto(w, step, j)
  BY <1>1, <1>2
<1>4. /\ j \in Jobs /\ j.kind = kind /\ j.owner = None /\ j.actorRole = "unread"
  BY <1>2 DEF Job, Jobs, Roles
<1>5. \/ step = "member" /\ kind = "accept"
      \/ step = "tenant" /\ kind # "accept"
      \/ step = "answer" /\ kind = "validate"
  BY <1>3, <1>4 DEF FirstSteps
<1>6. step \in Steps /\ Sound(step, j)' /\ Remembered(w, j)'
  BY <1>4, <1>5 DEF Sound, Remembered, Steps
<1>7. begun' \in 0..MaxCommands
  BY BoundAssumption DEF Begin, IInv, TypeOK
<1>8. QED
  BY <1>3, <1>4, <1>6, <1>7, ReadKeeps DEF Begin

LEMMA GetTenantKeeps ==
  ASSUME IInv, NEW w \in Workers, GetTenantByID(w)
  PROVE  IInv'
<1>1. UNCHANGED <<database, displaced>> /\ begun' \in 0..MaxCommands /\ pc[w] = "tenant"
  BY DEF GetTenantByID, IInv, TypeOK
<1>2. CASE Return(w)
  BY <1>1, <1>2, ReadReturns
<1>3. CASE ~Return(w)
  <2>1. PICK j, step : /\ j = [job[w] EXCEPT !.owner = owner]
                       /\ step = AfterTenant[job[w].kind]
                       /\ Goto(w, step, j)
    BY <1>3 DEF GetTenantByID
  <2>2. job[w] \in Jobs /\ job[w].kind # "accept" /\ owner \in Users
    BY <1>1 DEF IInv, TypeOK, JobInv, Sound
  <2>3. /\ j \in Jobs /\ j.kind = job[w].kind /\ j.actor = job[w].actor
        /\ j.owner = owner /\ j.actorRole = job[w].actorRole
    BY <2>1, <2>2 DEF Jobs
  <2>4. \/ step = "actor" /\ j.kind \in {"invite", "validate"}
        \/ step = "ranks" /\ j.kind = "revoke"
        \/ step = "update" /\ j.kind = "transfer"
    <3>1. job[w].kind \in {"invite", "validate", "revoke", "transfer"}
      BY <2>2 DEF Jobs, Kinds
    <3>2. /\ AfterTenant["invite"] = "actor" /\ AfterTenant["validate"] = "actor"
          /\ AfterTenant["revoke"] = "ranks" /\ AfterTenant["transfer"] = "update"
      BY DEF AfterTenant
    <3>3. QED
      BY <2>1, <2>3, <3>1, <3>2
  <2>5. step \in Steps
    BY <2>4 DEF Steps
  <2>6. j.kind = "transfer" => MayTransfer(j.actor, owner)
    BY <1>3, <2>3 DEF GetTenantByID, TenantAdmits
  <2>7. Sound(step, j)'
    BY <1>1, <2>2, <2>3, <2>4, <2>6 DEF Sound, database
  <2>8. Remembered(w, j)'
    <3>1. /\ pc'[w] = step /\ everOwner' = everOwner \cup {owner'}
          /\ pc'[w] # "idle" => seen[w] \subseteq seen'[w]
      BY <2>1, GotoEffect DEF IInv
    <3>2. /\ owner \in everOwner
          /\ <<j.actor, Authority(owner, j.actor, members[j.actor])>> \in seen[w]
      BY <1>1, <2>3 DEF IInv, Followed, Busy
    <3>3. owner = j.actor => <<j.actor, "owner">> \in seen[w]
      BY <3>2 DEF Authority
    <3>4. j.actorRole = "unread"
      BY <1>1, <2>3 DEF IInv, JobInv, Sound
    <3>5. QED
      BY <2>3, <2>4, <3>1, <3>2, <3>3, <3>4 DEF Remembered
  <2>9. QED
    BY <1>1, <2>1, <2>3, <2>5, <2>7, <2>8, ReadKeeps
<1>4. QED
  BY <1>2, <1>3

LEMMA GetActorKeeps ==
  ASSUME IInv, NEW w \in Workers, GetActor(w)
  PROVE  IInv'
<1>1. UNCHANGED <<database, displaced>> /\ begun' \in 0..MaxCommands /\ pc[w] = "actor"
  BY DEF GetActor, IInv, TypeOK
<1>2. CASE Return(w)
  BY <1>1, <1>2, ReadReturns
<1>3. CASE ~Return(w)
  <2>1. PICK row \in {members[job[w].actor], NoRow} :
          LET role == EffectiveRole(job[w].owner, job[w].actor, row)
              j == [job[w] EXCEPT !.owner = None, !.actorRole = role]
          IN \/ /\ j.kind = "invite" /\ MayInvite(role) /\ j.target # j.actor
                /\ Goto(w, "insert", j)
             \/ /\ j.kind = "validate" /\ role # "none"
                /\ Goto(w, "answer", j)
    BY <1>3 DEF GetActor
  <2>2. PICK role, j : /\ role = EffectiveRole(job[w].owner, job[w].actor, row)
                       /\ j = [job[w] EXCEPT !.owner = None, !.actorRole = role]
    OBVIOUS
  <2>3. PICK step : /\ Goto(w, step, j)
                    /\ \/ j.kind = "invite" /\ MayInvite(role) /\ step = "insert"
                       \/ j.kind = "validate" /\ role # "none" /\ step = "answer"
    BY <2>1, <2>2
  <2>4. job[w] \in Jobs /\ members[job[w].actor] \in Rows
    BY DEF IInv, TypeOK, Jobs
  <2>5. role \in Roles
    BY <2>1, <2>2, <2>4, NoRowType, EffectiveRoleIsAuthority, AuthorityType
  <2>6. /\ j \in Jobs /\ j.kind = job[w].kind /\ j.actor = job[w].actor
        /\ j.owner = None /\ j.actorRole = role
    BY <2>2, <2>4, <2>5 DEF Jobs
  <2>7. step \in Steps /\ step # "idle"
    BY <2>3 DEF Steps
  <2>8. Sound(step, j)'
    BY <2>3, <2>5, <2>6 DEF Sound, Roles
  <2>9. Remembered(w, j)'
    <3>1. pc'[w] = step /\ (pc'[w] # "idle" => seen[w] \subseteq seen'[w])
      BY <2>3, GotoEffect DEF IInv
    <3>2. HadRank(w, j.actor, role)
      <4>1. job[w].owner # None
        BY <1>1, NoneAssumption DEF IInv, JobInv, Sound
      <4>2. QED
        BY <1>1, <2>1, <2>2, <2>6, <4>1, RoleWasHeld DEF IInv, Busy
    <3>3. HadRank(w, j.actor, role)'
      BY <2>7, <3>1, <3>2 DEF HadRank
    <3>4. QED
      BY <2>6, <3>3 DEF Remembered
  <2>10. QED
    BY <1>1, <2>3, <2>6, <2>7, <2>8, <2>9, ReadKeeps
<1>4. QED
  BY <1>2, <1>3

LEMMA JudgeKeeps ==
  ASSUME IInv, NEW w \in Workers, pc[w] = "ranks", NEW j \in Jobs, Judge(w, j),
         UNCHANGED <<database, displaced, begun>>,
         j.kind = job[w].kind, j.actor = job[w].actor, j.owner = job[w].owner,
         j.actorRole = "unread" \/ HadRank(w, j.actor, j.actorRole)
  PROVE  IInv'
<1>1. begun' \in 0..MaxCommands /\ UNCHANGED <<database, displaced>>
  BY DEF IInv, TypeOK
<1>2. Sound("ranks", job[w]) /\ Remembered(w, job[w])
  BY DEF IInv, JobInv
<1>3. Remembered(w, j)
  BY <1>2 DEF Remembered
<1>4. CASE Return(w)
  BY <1>1, <1>4, ReadReturns
<1>5. CASE Goto(w, "ranks", j)
  <2>1. /\ pc'[w] = "ranks" /\ everOwner' = everOwner \cup {owner'}
        /\ (pc'[w] # "idle" => seen[w] \subseteq seen'[w])
    BY <1>5, GotoEffect DEF IInv
  <2>2. Remembered(w, j)'
    BY <1>3, <2>1 DEF Remembered, HadRank
  <2>3. Sound("ranks", j)' /\ "ranks" \in Steps
    BY <1>2 DEF Sound, Steps
  <2>4. QED
    BY <1>1, <1>5, <2>2, <2>3, ReadKeeps
<1>6. CASE ~Return(w) /\ ~Goto(w, "ranks", j)
  <2>1. PICK k : k = [j EXCEPT !.owner = None]
    OBVIOUS
  <2>2. Goto(w, "status", k) /\ MayRevoke(j.actorRole, j.targetRole)
    BY <1>6, <2>1 DEF Judge
  <2>3. /\ k \in Jobs /\ k.kind = j.kind /\ k.actor = j.actor /\ k.owner = None
        /\ k.actorRole = j.actorRole /\ k.targetRole = j.targetRole
    BY <2>1 DEF Jobs
  <2>4. pc'[w] = "status" /\ (pc'[w] # "idle" => seen[w] \subseteq seen'[w])
    BY <2>2, GotoEffect DEF IInv
  <2>5. Remembered(w, k)'
    BY <1>3, <2>3, <2>4 DEF Remembered, HadRank
  <2>6. Sound("status", k)' /\ "status" \in Steps
    BY <1>2, <2>2, <2>3 DEF Sound, Steps
  <2>7. QED
    BY <1>1, <2>2, <2>3, <2>5, <2>6, ReadKeeps
<1>7. QED
  BY <1>4, <1>5, <1>6

LEMMA GetRanksKeeps ==
  ASSUME IInv, NEW w \in Workers, GetRanks(w)
  PROVE  IInv'
<1>1. pc[w] = "ranks" /\ UNCHANGED <<database, displaced, begun>> /\ begun' \in 0..MaxCommands
  BY DEF GetRanks, IInv, TypeOK
<1>2. job[w] \in Jobs /\ job[w].actor \in Users /\ job[w].target \in Users
  BY DEF IInv, TypeOK, Jobs
<1>3. Sound("ranks", job[w]) /\ Remembered(w, job[w])
  BY <1>1 DEF IInv, JobInv
<1>4. \A u \in Users : EffectiveRole(job[w].owner, u, members[u]) \in Roles
  BY EffectiveRoleIsAuthority, AuthorityType DEF IInv, TypeOK
<1>5. CASE Return(w)
  BY <1>1, <1>5, ReadReturns
<1>6. ASSUME NEW j,
             j = [job[w] EXCEPT !.actorRole =
                    EffectiveRole(job[w].owner, job[w].actor, members[job[w].actor])],
             Judge(w, j)
      PROVE  IInv'
  <2>1. HadRank(w, job[w].actor,
                EffectiveRole(job[w].owner, job[w].actor, members[job[w].actor]))
    BY <1>1, <1>3, NoneAssumption, RoleWasHeld DEF Sound, IInv, Busy
  <2>2. /\ j \in Jobs /\ j.kind = job[w].kind /\ j.actor = job[w].actor
        /\ j.owner = job[w].owner
        /\ j.actorRole = EffectiveRole(job[w].owner, job[w].actor, members[job[w].actor])
    BY <1>2, <1>4, <1>6 DEF Jobs
  <2>3. QED
    BY <1>1, <1>6, <2>1, <2>2, JudgeKeeps
<1>7. ASSUME NEW j,
             j = [job[w] EXCEPT !.targetRole =
                    EffectiveRole(job[w].owner, job[w].target, members[job[w].target])],
             Judge(w, j)
      PROVE  IInv'
  <2>1. /\ j \in Jobs /\ j.kind = job[w].kind /\ j.actor = job[w].actor
        /\ j.owner = job[w].owner /\ j.actorRole = job[w].actorRole
    BY <1>2, <1>4, <1>7 DEF Jobs
  <2>2. j.actorRole = "unread" \/ HadRank(w, j.actor, j.actorRole)
    BY <1>3, <2>1 DEF Remembered
  <2>3. QED
    BY <1>1, <1>7, <2>1, <2>2, JudgeKeeps
<1>8. QED
  BY <1>5, <1>6, <1>7 DEF GetRanks

\* A statement of a command that goes on with what it knows.
LEMMA GoesOn ==
  ASSUME IInv, NEW w \in Workers, NEW step \in Steps \ {"idle"}, NEW j, j = job[w],
         Goto(w, step, j), UNCHANGED <<database, displaced, begun>>, Sound(step, j)
  PROVE  IInv'
<1>1. j \in Jobs
  BY DEF IInv, TypeOK
<1>2. Remembered(w, j)'
  BY StillRemembered DEF IInv
<1>3. Sound(step, j)'
  BY DEF Sound, database, AuditRow
<1>4. begun' \in 0..MaxCommands /\ UNCHANGED <<database, displaced>>
  BY DEF IInv, TypeOK
<1>5. QED
  BY <1>1, <1>2, <1>3, <1>4, ReadKeeps

LEMMA GetInvitationKeeps ==
  ASSUME IInv, NEW w \in Workers, GetInvitation(w)
  PROVE  IInv'
<1>1. /\ pc[w] = "member" /\ UNCHANGED <<database, displaced, begun>>
      /\ begun' \in 0..MaxCommands
  BY DEF GetInvitation, IInv, TypeOK
<1>2. CASE Return(w)
  BY <1>1, <1>2, ReadReturns
<1>3. CASE ~Return(w)
  <2>1. PICK j : j = job[w]
    OBVIOUS
  <2>2. Goto(w, "status", j) /\ members[j.target].status = "pending" /\ j.kind = "accept"
    BY <1>1, <1>3, <2>1 DEF GetInvitation, IInv, JobInv, Sound
  <2>3. Sound("status", j) /\ "status" \in Steps \ {"idle"}
    BY <2>2 DEF Sound, Steps
  <2>4. QED
    BY <1>1, <2>1, <2>2, <2>3, GoesOn
<1>4. QED
  BY <1>2, <1>3

LEMMA UpdateTenantKeeps ==
  ASSUME IInv, NEW w \in Workers, UpdateTenant(w) \/ UpsertMembership(w)
  PROVE  IInv'
<1>1. PICK j, step : /\ j = job[w] /\ step \in {"upsert", "append"}
                     /\ Goto(w, step, j) /\ pc[w] \in {"update", "upsert"}
  BY DEF UpdateTenant, UpsertMembership, AfterUpsert
<1>2. Sound(step, j) /\ step \in Steps \ {"idle"}
  BY <1>1 DEF Sound, Steps, IInv, JobInv
<1>3. UNCHANGED <<database, displaced, begun>>
  BY DEF UpdateTenant, UpsertMembership
<1>4. QED
  BY <1>1, <1>2, <1>3, GoesOn

-----------------------------------------------------------------------------
(* The statements that write.                                              *)

\* Only an invitation is accepted; a revocation gets no further than its checks.
LEMMA AcceptEffect ==
  ASSUME IInv, NEW w \in Workers, UpdateMembershipStatus(w), ~Return(w)
  PROVE  /\ job[w].kind = "accept" /\ job[w].target \in Users
         /\ members[job[w].target].status \in {"pending", "active"}
         /\ members' = [members EXCEPT ![job[w].target].status = "active"]
         /\ Goto(w, "audit", job[w])
<1>1. ~ContextOver(w) /\ pc[w] = "status" /\ Goto(w, "audit", job[w])
  BY DEF UpdateMembershipStatus
<1>2. job[w].kind = "accept" /\ members[job[w].target].status \in {"pending", "active"}
  BY <1>1 DEF ContextOver, IInv, JobInv, Sound
<1>3. QED
  BY <1>1, <1>2 DEF UpdateMembershipStatus, IInv, TypeOK, Jobs

LEMMA AcceptKeeps ==
  ASSUME IInv, NEW w \in Workers, UpdateMembershipStatus(w)
  PROVE  IInv'
<1>1. UNCHANGED <<owner, audit, begun, displaced>> /\ begun' \in 0..MaxCommands
  BY DEF UpdateMembershipStatus, IInv, TypeOK
<1>2. CASE Return(w)
  <2>1. UNCHANGED members
    <3>1. pc'[w] = "idle"
      BY <1>2, GotoEffect DEF Return, IInv
    <3>2. ~Goto(w, "audit", job[w])
      BY <3>1 DEF Goto, IInv, TypeOK, Advance
    <3>3. QED
      BY <3>2 DEF UpdateMembershipStatus
  <2>2. QED
    BY <1>1, <1>2, <2>1, ReadReturns DEF database
<1>3. CASE ~Return(w)
  <2>1. PICK j, u : /\ j = job[w] /\ u = j.target /\ j.kind = "accept" /\ u \in Users
                    /\ members[u].status \in {"pending", "active"}
                    /\ members' = [members EXCEPT ![u].status = "active"]
                    /\ Goto(w, "audit", j)
    BY <1>3, AcceptEffect
  <2>2. /\ \A v \in Users \ {u} : members'[v] = members[v]
        /\ members'[u] = Row(members[u].role, "active")
        /\ members' \in [Users -> Rows]
    BY <2>1 DEF IInv, TypeOK, Rows, Row
  <2>3. j \in Jobs /\ "audit" \in Steps
    BY <2>1 DEF IInv, TypeOK, Steps
  <2>4. TypeOK'
    BY <1>1, <2>1, <2>2, <2>3, GotoType DEF IInv, TypeOK
  <2>5. Sound("audit", j)' /\ Remembered(w, j)'
    BY <2>1, StillRemembered DEF Sound, IInv
  <2>6. JobInv' /\ Followed'
    <3>1. \A v \in Users : Acceptable(members[v]) => Acceptable(members'[v])
      BY <2>2 DEF Acceptable, Row
    <3>2. QED
      BY <1>1, <2>1, <2>3, <2>5, <3>1, GotoKeeps DEF IInv
  <2>7. FormerOwnersStay'
    <3>1. everOwner' = everOwner
      BY <1>1, <2>1, OwnerStays DEF IInv
    <3>2. members[u] = Row("admin", "active") => members'[u] = Row("admin", "active")
      BY <2>2 DEF Row
    <3>3. QED
      BY <1>1, <2>2, <3>1, <3>2 DEF IInv, FormerOwnersStay, TypeOK
  <2>8. QED
    BY <2>4, <2>6, <2>7 DEF IInv
<1>4. QED
  BY <1>2, <1>3

\* The transfer is in the log by then, and the owner it read owned the tenant.
LEMMA CommitEffect ==
  ASSUME IInv, NEW w \in Workers, Commit(w)
  PROVE  /\ job[w].owner \in everOwner /\ job[w].owner \in Users
         /\ AuditRow(job[w]) \in audit /\ job[w].kind = "transfer"
         /\ owner' = job[w].target /\ owner' \in Users
         /\ \A u \in Users : members'[u] = IF u = job[w].owner THEN Row("admin", "active")
                                                               ELSE members[u]
         /\ members' \in [Users -> Rows]
         /\ displaced' = IF owner = job[w].owner THEN displaced ELSE displaced \cup {owner}
<1>1. Sound("commit", job[w]) /\ Remembered(w, job[w])
  BY DEF Commit, IInv, JobInv
<1>2. /\ job[w].owner \in everOwner /\ job[w].owner \in Users
      /\ AuditRow(job[w]) \in audit /\ job[w].kind = "transfer"
  BY <1>1, NoneAssumption DEF Sound, Remembered
<1>3. Row("admin", "active") \in Rows
  BY DEF Row, Rows
<1>4. QED
  BY <1>2, <1>3 DEF Commit, StepsDown, Upserted, IInv, TypeOK, Jobs

LEMMA CommitKeeps ==
  ASSUME IInv, NEW w \in Workers, Commit(w)
  PROVE  IInv'
<1>1. PICK o \in Users :
        /\ o \in everOwner /\ owner' \in Users
        /\ \A u \in Users : members'[u] = IF u = o THEN Row("admin", "active")
                                                   ELSE members[u]
        /\ members' \in [Users -> Rows]
        /\ displaced' = IF owner = o THEN displaced ELSE displaced \cup {owner}
  BY CommitEffect
<1>2. UNCHANGED <<audit, begun>> /\ Goto(w, "idle", NoJob) /\ Return(w)
  BY DEF Commit, Return
<1>3. TypeOK'
  BY <1>1, <1>2, GotoType, NoJobType DEF IInv, TypeOK
<1>4. JobInv' /\ Followed'
  <2>1. \A v \in Users : Acceptable(members[v]) => Acceptable(members'[v])
    BY <1>1 DEF Acceptable, Row
  <2>2. QED
    BY <1>2, <2>1, ReturnKeeps DEF IInv
<1>5. FormerOwnersStay'
  <2>1. everOwner' = everOwner \cup {owner'}
    BY <1>2, GotoEffect DEF IInv
  <2>2. QED
    BY <1>1, <2>1 DEF IInv, FormerOwnersStay, TypeOK
<1>6. QED
  BY <1>3, <1>4, <1>5 DEF IInv

LEMMA AppendKeeps ==
  ASSUME IInv, NEW w \in Workers, Append(w)
  PROVE  IInv'
<1>1. PICK j, step, k : /\ j = job[w] /\ audit' = audit \cup {AuditRow(j)}
                        /\ Goto(w, step, k)
                        /\ \/ pc[w] = "append" /\ step = "commit" /\ k = j
                           \/ pc[w] = "audit" /\ step = "idle" /\ k = NoJob
  BY DEF Append, Return
<1>2. UNCHANGED <<owner, members, begun, displaced>>
  BY DEF Append
<1>3. j \in Jobs /\ k \in Jobs /\ step \in Steps
  BY <1>1, NoJobType DEF IInv, TypeOK, Steps
<1>4. Sound(pc[w], j)
  BY <1>1 DEF IInv, JobInv
<1>5. TypeOK'
  <2>1. AuditRow(j) \in [action : {"accept", "transfer"}, actor : Users, target : Users,
                         old : Users \cup {None}]
    BY <1>1, <1>3, <1>4 DEF Sound, AuditRow, Jobs
  <2>2. QED
    BY <1>1, <1>2, <1>3, <2>1, GotoType DEF IInv, TypeOK
<1>6. Sound(step, k)'
  BY <1>1, <1>2, <1>4 DEF Sound, AuditRow
<1>7. step = "idle" \/ Remembered(w, k)'
  BY <1>1, StillRemembered DEF IInv
<1>8. JobInv' /\ Followed'
  BY <1>1, <1>2, <1>3, <1>6, <1>7, GotoKeeps DEF IInv
<1>9. FormerOwnersStay'
  <2>1. everOwner' = everOwner
    BY <1>1, <1>2, OwnerStays DEF IInv
  <2>2. QED
    BY <1>2, <2>1 DEF IInv, FormerOwnersStay
<1>10. QED
  BY <1>5, <1>8, <1>9 DEF IInv

LEMMA StepInv == IInv /\ [Next]_vars => IInv'
<1> SUFFICES ASSUME IInv, [Next]_vars PROVE IInv'
  OBVIOUS
<1>1. ASSUME NEW w \in Workers,
             CreateMembership(w) \/ Answer(w) \/ Abort(w)
      PROVE  IInv'
  BY <1>1, ReadReturns DEF CreateMembership, Answer, Abort, IInv, TypeOK
<1>2. CASE UNCHANGED vars
  BY <1>2 DEF vars, IInv, TypeOK, JobInv, Sound, Remembered, HadRank, Followed, Busy,
              FormerOwnersStay, AuditRow
<1>3. QED
  BY <1>1, <1>2, BeginKeeps, GetTenantKeeps, GetActorKeeps, GetInvitationKeeps,
     GetRanksKeeps, AcceptKeeps, UpdateTenantKeeps, CommitKeeps, AppendKeeps
     DEF Next, Statement

\* The inductive invariant holds in every reachable state of tenants, memberships
\* and commands.
THEOREM Invariance == Spec => []IInv
<1>1. Init => IInv
  BY InitInv
<1>2. IInv /\ [Next]_vars => IInv'
  BY StepInv
<1>3. QED
  BY <1>1, <1>2, PTL DEF Spec

\* Rows, locks and the locals of every command keep their types.
THEOREM TypeCorrect == Spec => []TypeOK
<1>1. IInv => TypeOK
  BY DEF IInv
<1>2. QED
  BY <1>1, Invariance, PTL

\* No command goes through unless its actor held the authority the role policy asks
\* for at some moment while the command ran.
THEOREM AuthorityIsReal == Spec => []AuthorityWasReal
<1>1. ASSUME IInv PROVE AuthorityWasReal
  <2>1. SUFFICES ASSUME NEW w \in Workers, Decided(w)
                 PROVE  \E role \in Roles : /\ <<job[w].actor, role>> \in seen[w]
                                            /\ Suffices(job[w], role)
    BY DEF AuthorityWasReal
  <2>2. Sound(pc[w], job[w]) /\ Remembered(w, job[w])
    BY <1>1 DEF IInv, JobInv
  <2>3. PICK now \in Roles : <<job[w].actor, now>> \in seen[w]
    <3>1. job[w].actor \in Users
      BY <1>1 DEF IInv, TypeOK, Jobs
    <3>2. QED
      BY <1>1, <2>1, <3>1, AuthorityType DEF IInv, TypeOK, Followed, Busy, Decided
  <2>4. CASE job[w].kind \in {"invite", "revoke"}
    <3>1. job[w].actorRole \in {"owner", "admin"}
      BY <2>1, <2>2, <2>4 DEF Decided, Sound, MayInvite, MayRevoke
    <3>2. PICK r \in Roles : <<job[w].actor, r>> \in seen[w] /\ Rank(r) >= Rank(job[w].actorRole)
      BY <2>2, <3>1 DEF Remembered, HadRank
    <3>3. Rank(r) >= Rank("admin")
      BY <3>1, <3>2 DEF Rank, Roles
    <3>4. QED
      BY <2>4, <3>2, <3>3 DEF Suffices
  <2>5. CASE job[w].kind = "transfer"
    <3>1. job[w].owner \in Users /\ MayTransfer(job[w].actor, job[w].owner)
      BY <2>1, <2>2, <2>5 DEF Decided, Sound
    <3>2. CASE job[w].actor \in SuperAdmins
      BY <2>3, <2>5, <3>2 DEF Suffices
    <3>3. CASE job[w].actor = job[w].owner
      <4>1. <<job[w].actor, "owner">> \in seen[w] /\ "owner" \in Roles
        BY <2>2, <3>1, <3>3, NoneAssumption DEF Remembered, Roles
      <4>2. QED
        BY <2>5, <4>1 DEF Suffices
    <3>4. QED
      BY <3>1, <3>2, <3>3 DEF MayTransfer
  <2>6. CASE job[w].kind = "validate"
    <3>1. CASE job[w].actorRole = "unread"
      <4>1. Rank(job[w].actorRole) = 0
        BY <3>1 DEF Rank
      <4>2. QED
        BY <2>3, <2>6, <4>1, RankType DEF Suffices
    <3>2. CASE job[w].actorRole # "unread"
      <4>1. PICK r \in Roles : /\ <<job[w].actor, r>> \in seen[w]
                               /\ Rank(r) >= Rank(job[w].actorRole)
        BY <2>2, <3>2 DEF Remembered, HadRank
      <4>2. QED
        BY <2>6, <4>1 DEF Suffices
    <3>3. QED
      BY <3>1, <3>2
  <2>7. CASE job[w].kind \notin {"invite", "revoke", "transfer", "validate"}
    BY <2>3, <2>7 DEF Suffices
  <2>8. QED
    BY <2>4, <2>5, <2>6, <2>7
<1>2. QED
  BY <1>1, Invariance, PTL

\* The owner that TransferOwnership replaces stays an active admin, unless the
\* transfer had read another owner before it.
THEOREM OwnersStepDown == Spec => []FormerOwnersStay
<1>1. IInv => FormerOwnersStay
  BY DEF IInv
<1>2. QED
  BY <1>1, Invariance, PTL

-----------------------------------------------------------------------------
(* Which statements change which row.                                      *)

LEMMA OwnerChanges ==
  ASSUME IInv, [Next]_vars, owner' # owner
  PROVE  \E w \in Workers : Commit(w)
  BY DEF Next, Statement, vars, database, Begin, Abort, GetTenantByID, GetActor,
         GetInvitation, GetRanks, CreateMembership, UpdateMembershipStatus, UpdateTenant,
         UpsertMembership, Append, Answer

LEMMA RowChanges ==
  ASSUME IInv, [Next]_vars, members' # members
  PROVE  \E w \in Workers : Commit(w) \/ UpdateMembershipStatus(w)
  BY DEF Next, Statement, vars, database, Begin, Abort, GetTenantByID, GetActor,
         GetInvitation, GetRanks, CreateMembership, UpdateTenant, UpsertMembership,
         Append, Answer

\* No tenant changes hands before the audit row that names both owners is there.
THEOREM TransfersAreLogged == Spec => NoUnloggedTransfer
<1>1. ASSUME IInv, [Next]_vars, owner' # owner
      PROVE  \E e \in audit : /\ e.action = "transfer" /\ e.target = owner'
                              /\ e.old \in everOwner
  <2>1. PICK w \in Workers : Commit(w)
    BY <1>1, OwnerChanges
  <2>2. /\ AuditRow(job[w]) \in audit
        /\ AuditRow(job[w]).action = "transfer"
        /\ AuditRow(job[w]).target = owner'
        /\ AuditRow(job[w]).old \in everOwner
    BY <1>1, <2>1, CommitEffect DEF AuditRow
  <2>3. QED
    BY <2>2
<1>2. IInv /\ [Next]_vars =>
        [owner' # owner =>
           \E e \in audit : /\ e.action = "transfer" /\ e.target = owner'
                            /\ e.old \in everOwner]_vars
  BY <1>1
<1>3. QED
  BY <1>2, Invariance, PTL DEF Spec, NoUnloggedTransfer

\* Active memberships come from invitations that were pending and from transfers away
\* from owners: a call that read rows which others changed meanwhile grants no more.
THEOREM GrantsAreEarned == Spec => RightsAreEarned
<1>1. ASSUME IInv, [Next]_vars, NEW u \in Users,
             members'[u] # members[u], members'[u].status = "active"
      PROVE  \/ members[u].status = "pending" /\ members'[u].role = members[u].role
             \/ u \in everOwner /\ members'[u].role = "admin"
  <2>1. PICK w \in Workers : Commit(w) \/ UpdateMembershipStatus(w)
    BY <1>1, RowChanges
  <2>2. CASE Commit(w)
    <3>1. u \in everOwner /\ members'[u] = Row("admin", "active")
      BY <1>1, <2>2, CommitEffect
    <3>2. QED
      BY <3>1 DEF Row
  <2>3. CASE UpdateMembershipStatus(w)
    <3>1. ~Return(w)
      <4>1. SUFFICES ASSUME Return(w) PROVE FALSE
        OBVIOUS
      <4>2. pc'[w] = "idle"
        BY <1>1, <4>1, GotoEffect DEF Return, IInv
      <4>3. ~Goto(w, "audit", job[w])
        BY <1>1, <4>2 DEF Goto, IInv, TypeOK, Advance
      <4>4. QED
        BY <1>1, <2>3, <4>3 DEF UpdateMembershipStatus
    <3>2. /\ job[w].target \in Users
          /\ members[job[w].target].status \in {"pending", "active"}
          /\ members' = [members EXCEPT ![job[w].target].status = "active"]
      BY <1>1, <2>3, <3>1, AcceptEffect
    <3>3. /\ u = job[w].target
          /\ members'[u] = [members[u] EXCEPT !.status = "active"]
          /\ members[u] \in Rows
      BY <1>1, <3>2 DEF IInv, TypeOK
    <3>4. members[u].status # "active" /\ members'[u].role = members[u].role
      BY <1>1, <3>3 DEF Rows
    <3>5. QED
      BY <3>2, <3>3, <3>4
  <2>4. QED
    BY <2>1, <2>2, <2>3
<1>2. IInv /\ [Next]_vars =>
        [\A u \in Users : members'[u] # members[u] /\ members'[u].status = "active" =>
           \/ members[u].status = "pending" /\ members'[u].role = members[u].role
           \/ u \in everOwner /\ members'[u].role = "admin"]_vars
  BY <1>1
<1>3. QED
  BY <1>2, Invariance, PTL DEF Spec, RightsAreEarned

(***************************************************************************)
(* The lock on the tenant's row has one holder.  It waits for nobody: the  *)
(* row it updates next is locked by a holder of the tenant only, and the   *)
(* weaker lock lets its log through.  Without a holder nobody waits.       *)
(***************************************************************************)
OneHolder == \A v, w \in Workers : LocksTenant(v) /\ LocksTenant(w) => v = w

LEMMA HolderStep == TypeOK /\ JobInv /\ OneHolder /\ [Next]_vars => OneHolder'
<1> SUFFICES ASSUME TypeOK, JobInv, OneHolder, [Next]_vars PROVE OneHolder'
  OBVIOUS
<1>1. CASE UNCHANGED vars
  BY <1>1 DEF vars, OneHolder, LocksTenant
<1>2. ASSUME NEW w \in Workers, NEW step, NEW j, Goto(w, step, j),
             \/ step \notin {"upsert", "append", "commit"}
             \/ LocksTenant(w)
             \/ \A v \in Workers : ~LocksTenant(v)
      PROVE  OneHolder'
  BY <1>2, GotoEffect DEF OneHolder, LocksTenant
<1>3. ASSUME NEW w \in Workers, Begin(w) PROVE OneHolder'
  <2>1. \E j : Goto(w, "member", j) \/ Goto(w, "tenant", j) \/ Goto(w, "answer", j)
    BY <1>3 DEF Begin, FirstSteps
  <2>2. QED
    BY <2>1, <1>2
<1>4. ASSUME NEW w \in Workers, Return(w) PROVE OneHolder'
  BY <1>2, <1>4 DEF Return
<1>5. ASSUME NEW w \in Workers, GetTenantByID(w) PROVE OneHolder'
  <2>1. Return(w) \/ Goto(w, AfterTenant[job[w].kind], [job[w] EXCEPT !.owner = owner])
    BY <1>5 DEF GetTenantByID
  <2>2. AfterTenant[job[w].kind] \notin {"upsert", "append", "commit"}
    <3>1. job[w].kind \in {"invite", "validate", "revoke", "transfer"}
      BY <1>5 DEF GetTenantByID, JobInv, Sound, TypeOK, Jobs, Kinds
    <3>2. QED
      BY <3>1 DEF AfterTenant
  <2>3. QED
    BY <2>1, <2>2, <1>2, <1>4
<1>6. ASSUME NEW w \in Workers, GetActor(w) PROVE OneHolder'
  <2>1. \/ Return(w)
        \/ \E j : Goto(w, "insert", j) \/ Goto(w, "answer", j)
    BY <1>6 DEF GetActor
  <2>2. QED
    BY <2>1, <1>2, <1>4
<1>7. ASSUME NEW w \in Workers, NEW j, Judge(w, j) PROVE OneHolder'
  BY <1>2, <1>4, <1>7 DEF Judge
<1>8. ASSUME NEW w \in Workers, GetRanks(w) PROVE OneHolder'
  <2>1. Return(w) \/ \E j : Judge(w, j)
    BY <1>8 DEF GetRanks
  <2>2. QED
    BY <2>1, <1>4, <1>7
<1>9. ASSUME NEW w \in Workers, GetInvitation(w) PROVE OneHolder'
  BY <1>2, <1>4, <1>9 DEF GetInvitation
<1>10. ASSUME NEW w \in Workers, UpdateMembershipStatus(w) PROVE OneHolder'
  BY <1>2, <1>4, <1>10 DEF UpdateMembershipStatus
<1>11. ASSUME NEW w \in Workers, UpdateTenant(w) PROVE OneHolder'
  BY <1>2, <1>11 DEF UpdateTenant
<1>12. ASSUME NEW w \in Workers, UpsertMembership(w) PROVE OneHolder'
  BY <1>2, <1>12 DEF UpsertMembership, LocksTenant
<1>13. ASSUME NEW w \in Workers, Append(w) PROVE OneHolder'
  BY <1>2, <1>4, <1>13 DEF Append, LocksTenant
<1>14. ASSUME NEW w \in Workers, CreateMembership(w) \/ Commit(w) \/ Answer(w) \/ Abort(w)
       PROVE  OneHolder'
  BY <1>4, <1>14 DEF CreateMembership, Commit, Answer, Abort
<1>15. QED
  BY <1>1, <1>3, <1>5, <1>6, <1>8, <1>9, <1>10, <1>11, <1>12, <1>13, <1>14 DEF Next, Statement

\* Some call under way can take its next step, for any number of calls at a time.
THEOREM SomebodyRuns == Spec => []SomeCallIsFree
<1>1. Init => OneHolder
  BY DEF Init, OneHolder, LocksTenant, AllIdle
<1>2. IInv /\ OneHolder /\ [Next]_vars => OneHolder'
  BY HolderStep DEF IInv
<1>3. OneHolder => SomeCallIsFree
  <2> SUFFICES ASSUME OneHolder, NEW w \in Workers, Busy(w)
               PROVE  \E v \in Workers : Busy(v) /\ ~Waits(v)
    BY DEF SomeCallIsFree
  <2>1. KeyShareFree
    BY DEF KeyShareFree, TenantLock
  <2>2. CASE \A v \in Workers : ~LocksTenant(v)
    BY <2>1, <2>2 DEF Waits, MemberFree, LocksMember, LocksTenant
  <2>3. ASSUME NEW v \in Workers, LocksTenant(v) PROVE Busy(v) /\ ~Waits(v)
    BY <2>1, <2>3 DEF Busy, Waits, OneHolder, MemberFree, LocksMember, LocksTenant
  <2>4. QED
    BY <2>2, <2>3
<1>4. QED
  BY <1>1, <1>2, <1>3, Invariance, PTL DEF Spec

-----------------------------------------------------------------------------
(* TenantRequests.                                                         *)

(***************************************************************************)
(* The inductive invariant.       RequestJobInv: which command is at which *)
(* step, and that a request about to be inserted has no row and one        *)
(* caller.  The rest takes a store that compares before it sets.           *)
(* DecidingInv: a request that a transaction has updated is still pending, *)
(* and the row lock keeps others away.  RowInv: the tenant and the log say *)
(* what the request's row says.                                            *)
(***************************************************************************)
Inserting(w) == pc[w] \in {"spam", "insert"}

Deciding(w) == \/ pc[w] \in {"update", "append", "commit"}
               \/ pc[w] = "create" /\ job[w].kind = "approved"

RequestJobInv ==
  /\ \A w \in Workers :
       /\ Inserting(w) => /\ job[w].kind = "request"
                          /\ job[w].user \in Users
                          /\ job[w].request \in Requests
                          /\ requests[job[w].request] = NoRequest
       /\ pc[w] \in {"read", "update"} =>
            job[w].kind \in {"approved", "rejected"} /\ job[w].request \in Requests
       /\ Deciding(w) => requests[job[w].request].status # "absent"
       /\ pc[w] = "create" =>
            \/ job[w].kind = "approved" /\ job[w].request \in Requests
            \/ job[w].kind = "platform" /\ job[w].request = None
       /\ pc[w] \in {"append", "commit"} =>
            job[w].kind = "approved" /\ job[w].request \in Requests
       /\ pc[w] = "log" => job[w].kind # "approved"
  /\ \A v, w \in Workers :
       Inserting(v) /\ Inserting(w) /\ job[v].request = job[w].request => v = w

DecidingInv ==
  \A r \in Requests, w \in Workers : Locks(w, r) =>
    /\ requests[r].status = "pending"
    /\ \A v \in Workers : Locks(v, r) => v = w

RowInv ==
  \A r \in Requests :
    /\ tenants[r] = IF requests[r].status = "approved" THEN 1 ELSE 0
    /\ requests[r].status = "approved" <=> <<"approved", r>> \in audit

CasInv == CompareAndSet => DecidingInv /\ RowInv

RequestInv == RequestsTypeOK /\ RequestJobInv /\ OnePendingPerUser /\ CasInv

-----------------------------------------------------------------------------
(* Type correctness.                                                       *)

LEMMA RequestInit == InitRequests => RequestInv
  BY MaxTenantsAssumption, NoneAssumption, RequestsAssumption
  DEF InitRequests, RequestInv, RequestsTypeOK, RequestJobInv, OnePendingPerUser,
         CasInv, DecidingInv, RowInv,
         RequestRows, Statuses, RequestSteps, Calls, NoRequest, NoCall, Call, Inserting,
         Deciding, Locks, AllIdle

CallsOK == pc \in [Workers -> RequestSteps] /\ job \in [Workers -> Calls]

LEMMA CallsType ==
  ASSUME CallsOK, NEW w \in Workers
  PROVE  /\ \A step \in RequestSteps : Proceed(w, step) => CallsOK'
         /\ \A step \in RequestSteps, j \in Calls : Start(w, step, j)
              => CallsOK' /\ UNCHANGED tables
         /\ Finish(w) => CallsOK'
<1>1. NoCall \in Calls /\ "idle" \in RequestSteps
  BY DEF NoCall, Call, Calls, RequestSteps
<1>2. QED
  BY <1>1 DEF CallsOK, Proceed, Start, Finish, Advance

LEMMA RequestRowsType ==
  ASSUME RequestsTypeOK, NEW r \in Requests, NEW s \in Statuses
  PROVE  [requests EXCEPT ![r].status = s] \in [Requests -> RequestRows]
  BY DEF RequestsTypeOK, RequestRows

\* Every variable keeps its type in every step.
LEMMA RequestTypeStep ==
  RequestsTypeOK /\ RequestJobInv /\ [NextRequests]_requestVars
    => RequestsTypeOK'
<1> SUFFICES ASSUME RequestsTypeOK, RequestJobInv, [NextRequests]_requestVars
             PROVE  RequestsTypeOK'
  OBVIOUS
<1>a. MaxTenants \in Nat /\ None \notin Users \cup Requests
  BY MaxTenantsAssumption, NoneAssumption, RequestsAssumption
<1>l. CallsOK
  BY DEF RequestsTypeOK, CallsOK
<1>t. CallsOK' /\ UNCHANGED tables => RequestsTypeOK'
  BY DEF RequestsTypeOK, CallsOK, tables
<1>1. ASSUME NEW w \in Workers, RequestTenant(w) PROVE RequestsTypeOK'
  BY <1>1, <1>l, <1>t, CallsType DEF RequestTenant, Call, Calls, RequestSteps
<1>2. ASSUME NEW w \in Workers, GetPendingTntRequestByUser(w) PROVE RequestsTypeOK'
  BY <1>2, <1>l, <1>t, CallsType DEF GetPendingTntRequestByUser, RequestSteps
<1>3. ASSUME NEW w \in Workers, CreateTntRequest(w) PROVE RequestsTypeOK'
  <2>1. CallsOK'
    BY <1>3, <1>l, CallsType DEF CreateTntRequest, RequestSteps
  <2>2. job[w].user \in Users
    BY <1>3 DEF CreateTntRequest, RequestJobInv, Inserting
  <2>3. requests' \in [Requests -> RequestRows]
    BY <1>3, <2>2 DEF CreateTntRequest, RequestsTypeOK, RequestRows, Statuses
  <2>4. QED
    BY <1>3, <2>1, <2>3 DEF CreateTntRequest, RequestsTypeOK, CallsOK
<1>4. ASSUME NEW w \in Workers, Review(w) PROVE RequestsTypeOK'
  BY <1>4, <1>l, <1>t, CallsType DEF Review, Call, Calls, RequestSteps
<1>5. ASSUME NEW w \in Workers, GetTntRequestByID(w) PROVE RequestsTypeOK'
  BY <1>5, <1>l, <1>t, CallsType DEF GetTntRequestByID, RequestSteps
<1>6. ASSUME NEW w \in Workers, UpdateTntRequest(w) PROVE RequestsTypeOK'
  <2>1. CallsOK'
    BY <1>6, <1>l, CallsType DEF UpdateTntRequest, RequestSteps
  <2>2. job[w].request \in Requests
    BY <1>6 DEF UpdateTntRequest, RequestJobInv
  <2>3. requests' \in [Requests -> RequestRows]
    BY <1>6, <2>2, RequestRowsType DEF UpdateTntRequest, RequestsTypeOK, Statuses
  <2>4. QED
    BY <1>6, <2>1, <2>3 DEF UpdateTntRequest, RequestsTypeOK, CallsOK
<1>7. ASSUME NEW w \in Workers, CreateTenantInTx(w) PROVE RequestsTypeOK'
  BY <1>7, <1>l, <1>t, CallsType DEF CreateTenantInTx, RequestSteps
<1>8. ASSUME NEW w \in Workers, AppendInTx(w) PROVE RequestsTypeOK'
  BY <1>8, <1>l, <1>t, CallsType DEF AppendInTx, RequestSteps
<1>9. ASSUME NEW w \in Workers, CommitTx(w) PROVE RequestsTypeOK'
  <2>1. CallsOK'
    BY <1>9, <1>l, CallsType DEF CommitTx
  <2>2. job[w].request \in Requests
    BY <1>9 DEF CommitTx, RequestJobInv
  <2>3. requests' \in [Requests -> RequestRows]
    BY <1>9, <2>2, RequestRowsType DEF CommitTx, Statuses
  <2>4. QED
    BY <1>9, <2>1, <2>2, <2>3, <1>a DEF CommitTx, RequestsTypeOK, CallsOK, Statuses
<1>10. ASSUME NEW w \in Workers, CreateTenantByPlatform(w) PROVE RequestsTypeOK'
  BY <1>10, <1>l, <1>t, CallsType DEF CreateTenantByPlatform, NoCall, Call, Calls, RequestSteps
<1>11. ASSUME NEW w \in Workers, CreateTenant(w) PROVE RequestsTypeOK'
  <2>1. CallsOK'
    BY <1>11, <1>l, CallsType DEF CreateTenant, RequestSteps
  <2>2. QED
    BY <1>11, <2>1, <1>a DEF CreateTenant, RequestsTypeOK, CallsOK
<1>12. ASSUME NEW w \in Workers, AppendLog(w) PROVE RequestsTypeOK'
  <2>1. CallsOK'
    BY <1>12, <1>l, CallsType DEF AppendLog
  <2>2. job[w].kind \in Statuses \cup {"request", "platform"}
    BY <1>12, <1>l DEF CallsOK, Calls, Statuses
  <2>3. job[w].request \in Requests \cup {None}
    BY <1>12, <1>l DEF CallsOK, Calls
  <2>4. QED
    BY <1>12, <2>1, <2>2, <2>3 DEF AppendLog, RequestsTypeOK, CallsOK
<1>13. ASSUME NEW w \in Workers, Interrupt(w) PROVE RequestsTypeOK'
  BY <1>13, <1>l, <1>t, CallsType DEF Interrupt
<1>14. CASE UNCHANGED requestVars
  BY <1>14 DEF requestVars, RequestsTypeOK
<1>15. QED
  BY <1>1, <1>2, <1>3, <1>4, <1>5, <1>6, <1>7, <1>8, <1>9, <1>10, <1>11, <1>12, <1>13,
     <1>14 DEF NextRequests

(***************************************************************************)
(* Whoever is at a step got there in the one way RequestJobInv names.  The *)
(* step of one worker leaves the others where they were: a row it changes  *)
(* is not the absent row of a request that is about to be inserted.        *)
(***************************************************************************)
LEMMA RequestJobStep ==
  RequestsTypeOK /\ RequestJobInv /\ [NextRequests]_requestVars
    => RequestJobInv'
<1> SUFFICES ASSUME RequestsTypeOK, RequestJobInv, [NextRequests]_requestVars
    PROVE  RequestJobInv'
  OBVIOUS
<1>a. MaxTenants \in Nat /\ None \notin Users \cup Requests
  BY MaxTenantsAssumption, NoneAssumption, RequestsAssumption
<1> USE DEF RequestJobInv, Inserting, Deciding
<1>l. CallsOK
  BY DEF RequestsTypeOK, CallsOK
<1>1. ASSUME NEW w \in Workers, RequestTenant(w) PROVE RequestJobInv'
  BY <1>1, <1>l, <1>a
     DEF RequestTenant, Start, Fresh, CallsOK, tables, Call, NoCall, Calls,
         RequestSteps, NoRequest, Advance
<1>2. ASSUME NEW w \in Workers, GetPendingTntRequestByUser(w) PROVE RequestJobInv'
  BY <1>2, <1>l, <1>a
     DEF GetPendingTntRequestByUser, Proceed, Finish, CallsOK, tables, Call, NoCall,
         Calls, RequestSteps, NoRequest, Advance
<1>3. ASSUME NEW w \in Workers, CreateTntRequest(w) PROVE RequestJobInv'
  <2>1. job[w].kind = "request" /\ job[w].request \in Requests
    BY <1>3 DEF CreateTntRequest
  <2>2. CASE Proceed(w, "log")
    <3>1. requests' = [requests EXCEPT ![job[w].request] =
                         [status |-> "pending", user |-> job[w].user]]
          \/ UNCHANGED requests
      BY <1>3 DEF CreateTntRequest
    <3>2. QED
      BY <1>3, <2>1, <2>2, <3>1, <1>l
         DEF CreateTntRequest, Proceed, CallsOK, Calls, RequestSteps, NoRequest, RequestsTypeOK
  <2>3. CASE Finish(w) /\ UNCHANGED requests
    BY <2>3, <1>l DEF Finish, CallsOK, NoCall, Call, Calls, RequestSteps, Advance
  <2>4. QED
    BY <1>3, <2>2, <2>3 DEF CreateTntRequest
<1>4. ASSUME NEW w \in Workers, Review(w) PROVE RequestJobInv'
  BY <1>4, <1>l, <1>a
     DEF Review, Start, CallsOK, tables, Call, NoCall, Calls, RequestSteps, NoRequest,
        Advance
<1>5. ASSUME NEW w \in Workers, GetTntRequestByID(w) PROVE RequestJobInv'
  BY <1>5, <1>l, <1>a
     DEF GetTntRequestByID, Proceed, Finish, CallsOK, tables, Call, NoCall, Calls,
         RequestSteps, NoRequest, Advance
<1>6. ASSUME NEW w \in Workers, UpdateTntRequest(w) PROVE RequestJobInv'
  <2>1. job[w].request \in Requests /\ requests[job[w].request].status # "absent"
    BY <1>6 DEF UpdateTntRequest
  <2>2. CASE UNCHANGED requests /\ Finish(w)
    BY <2>2, <1>l DEF Finish, CallsOK, NoCall, Call, Calls, RequestSteps, Advance
  <2>3. CASE /\ job[w].kind = "rejected" /\ Proceed(w, "log")
             /\ requests' = [requests EXCEPT ![job[w].request].status = "rejected"]
    BY <2>1, <2>3, <1>l
       DEF Proceed, CallsOK, Calls, RequestSteps, NoRequest, RequestsTypeOK, RequestRows
  <2>4. CASE job[w].kind = "approved" /\ UNCHANGED requests /\ Proceed(w, "create")
    BY <2>1, <2>4, <1>l DEF Proceed, CallsOK, Calls, RequestSteps
  <2>5. QED
    BY <1>6, <2>2, <2>3, <2>4 DEF UpdateTntRequest
<1>7. ASSUME NEW w \in Workers, CreateTenantInTx(w) PROVE RequestJobInv'
  BY <1>7, <1>l, <1>a
     DEF CreateTenantInTx, Proceed, CallsOK, tables, Call, NoCall, Calls, RequestSteps, NoRequest
<1>8. ASSUME NEW w \in Workers, AppendInTx(w) PROVE RequestJobInv'
  BY <1>8, <1>l, <1>a
     DEF AppendInTx, Proceed, CallsOK, tables, Call, NoCall, Calls, RequestSteps, NoRequest
<1>9. ASSUME NEW w \in Workers, CommitTx(w) PROVE RequestJobInv'
  BY <1>9, <1>l, <1>a
     DEF CommitTx, Finish, CallsOK, tables, Call, NoCall, Calls, RequestSteps, NoRequest,
        Advance
<1>10. ASSUME NEW w \in Workers, CreateTenantByPlatform(w) PROVE RequestJobInv'
  BY <1>10, <1>l, <1>a
     DEF CreateTenantByPlatform, Start, CallsOK, tables, Call, NoCall, Calls,
         RequestSteps, NoRequest, Advance
<1>11. ASSUME NEW w \in Workers, CreateTenant(w) PROVE RequestJobInv'
  BY <1>11, <1>l, <1>a
     DEF CreateTenant, Proceed, CallsOK, tables, Call, NoCall, Calls, RequestSteps, NoRequest
<1>12. ASSUME NEW w \in Workers, AppendLog(w) PROVE RequestJobInv'
  BY <1>12, <1>l, <1>a
     DEF AppendLog, Finish, CallsOK, tables, Call, NoCall, Calls, RequestSteps, NoRequest,
        Advance
<1>13. ASSUME NEW w \in Workers, Interrupt(w) PROVE RequestJobInv'
  BY <1>13, <1>l, <1>a
     DEF Interrupt, Finish, CallsOK, tables, Call, NoCall, Calls, RequestSteps, NoRequest,
        Advance
<1>14. CASE UNCHANGED requestVars
  BY <1>14 DEF requestVars
<1>15. QED
  BY <1>1, <1>2, <1>3, <1>4, <1>5, <1>6, <1>7, <1>8, <1>9, <1>10, <1>11, <1>12, <1>13,
     <1>14 DEF NextRequests

(***************************************************************************)
(* A step that writes no pending row leaves no two of them.                *)
(***************************************************************************)
LEMMA PendingStep ==
  RequestsTypeOK /\ RequestJobInv /\ OnePendingPerUser /\ [NextRequests]_requestVars
    => OnePendingPerUser'
<1> SUFFICES ASSUME RequestsTypeOK, RequestJobInv, OnePendingPerUser, [NextRequests]_requestVars
             PROVE  OnePendingPerUser'
  OBVIOUS
<1> USE DEF OnePendingPerUser
<1>1. CASE UNCHANGED requests
  BY <1>1
<1>2. ASSUME NEW w \in Workers, CreateTntRequest(w) PROVE OnePendingPerUser'
  BY <1>2 DEF CreateTntRequest, Unique, Pending, RequestsTypeOK
<1>3. ASSUME NEW w \in Workers, UpdateTntRequest(w) PROVE OnePendingPerUser'
  BY <1>3 DEF UpdateTntRequest, RequestsTypeOK, RequestRows
<1>4. ASSUME NEW w \in Workers, CommitTx(w) PROVE OnePendingPerUser'
  BY <1>4 DEF CommitTx, RequestsTypeOK, RequestRows
<1>5. QED
  BY <1>1, <1>2, <1>3, <1>4
     DEF NextRequests, requestVars, tables, RequestTenant, Start, GetPendingTntRequestByUser,
         Review,
         GetTntRequestByID, CreateTenantInTx, AppendInTx, CreateTenantByPlatform,
         CreateTenant, AppendLog, Interrupt, Advance

-----------------------------------------------------------------------------
(* With a store that compares before it sets.                              *)

\* Nothing happens to a decision in a step that changes neither the tables nor
\* takes a row lock.
LEMMA Quiet ==
  ASSUME DecidingInv, RowInv, UNCHANGED tables,
         \A w \in Workers, r \in Requests : Locks(w, r)' => Locks(w, r)
  PROVE  DecidingInv' /\ RowInv'
  BY DEF DecidingInv, RowInv, tables

LEMMA CasStep ==
  CompareAndSet /\ RequestsTypeOK /\ RequestJobInv /\ DecidingInv
  /\ RowInv /\ [NextRequests]_requestVars
    => DecidingInv' /\ RowInv'
<1> SUFFICES ASSUME CompareAndSet, RequestsTypeOK, RequestJobInv,
                    DecidingInv, RowInv, [NextRequests]_requestVars
             PROVE  DecidingInv' /\ RowInv'
  OBVIOUS
<1>l. CallsOK
  BY DEF RequestsTypeOK, CallsOK
<1>n. None \notin Requests
  BY MaxTenantsAssumption, NoneAssumption, RequestsAssumption
<1>1. ASSUME NEW w \in Workers,
             \/ RequestTenant(w) \/ GetPendingTntRequestByUser(w) \/ Review(w)
             \/ GetTntRequestByID(w) \/ CreateTenantInTx(w) \/ AppendInTx(w)
             \/ CreateTenantByPlatform(w) \/ Interrupt(w)
      PROVE  DecidingInv' /\ RowInv'
  <2>1. UNCHANGED tables
    BY <1>1 DEF RequestTenant, GetPendingTntRequestByUser, Review, GetTntRequestByID,
         CreateTenantInTx, AppendInTx, CreateTenantByPlatform, Interrupt, Start, Advance
  <2>2. \A v \in Workers, r \in Requests : Locks(v, r)' => Locks(v, r)
    BY <1>1, <1>l, <1>n
       DEF Locks, CallsOK, RequestTenant, GetPendingTntRequestByUser, Review,
           GetTntRequestByID,
           CreateTenantInTx, AppendInTx, CreateTenantByPlatform, Interrupt, Start,
           Proceed, Finish,
           Call, NoCall, Advance
  <2>3. QED
    BY <2>1, <2>2, Quiet
<1>2. ASSUME NEW w \in Workers, CreateTntRequest(w) PROVE DecidingInv' /\ RowInv'
  <2>1. /\ job[w].request \in Requests
        /\ requests[job[w].request] = NoRequest
    BY <1>2 DEF CreateTntRequest, RequestJobInv, Inserting
  <2>2. \A v \in Workers, r \in Requests : Locks(v, r)' => Locks(v, r)
    BY <1>2, <1>l, <1>n DEF CreateTntRequest, Locks, Proceed, Finish, CallsOK, NoCall, Call,
       Advance
  <2>3. DecidingInv'
    BY <1>2, <2>1, <2>2 DEF CreateTntRequest, DecidingInv, NoRequest, RequestsTypeOK
  <2>4. RowInv'
    <3>1. requests[job[w].request].status = "absent"
      BY <2>1 DEF NoRequest
    <3>2. \A r \in Requests :
            requests'[r].status = "approved" <=> requests[r].status = "approved"
      BY <1>2, <3>1 DEF CreateTntRequest, RequestsTypeOK
    <3>3. UNCHANGED <<tenants, audit>>
      BY <1>2 DEF CreateTntRequest
    <3>4. QED
      BY <3>2, <3>3 DEF RowInv
  <2>5. QED
    BY <2>3, <2>4
<1>3. ASSUME NEW w \in Workers, UpdateTntRequest(w) PROVE DecidingInv' /\ RowInv'
  <2> DEFINE r == job[w].request
  <2>1. r \in Requests /\ Free(r)
    BY <1>3 DEF UpdateTntRequest, RequestJobInv
  <2>2. CASE ~Writable(requests[r].status)
    <3>1. UNCHANGED tables /\ Finish(w)
      BY <1>3, <2>2 DEF UpdateTntRequest, tables
    <3>2. \A v \in Workers, s \in Requests : Locks(v, s)' => Locks(v, s)
      BY <3>1, <1>l, <1>n DEF Locks, Finish, CallsOK, NoCall, Call, Advance
    <3>3. QED
      BY <3>1, <3>2, Quiet
  <2>3. CASE Writable(requests[r].status) /\ job[w].kind = "rejected"
    <3>1. /\ requests[r].status = "pending"
          /\ requests' = [requests EXCEPT ![r].status = "rejected"]
          /\ Proceed(w, "log") /\ UNCHANGED <<tenants, audit>>
      BY <1>3, <2>3 DEF UpdateTntRequest, Writable
    <3>2. \A v \in Workers, s \in Requests : Locks(v, s)' => Locks(v, s) /\ s # r
      BY <2>1, <3>1, <1>l DEF Locks, Free, Proceed, CallsOK
    <3>3. DecidingInv'
      BY <3>1, <3>2 DEF DecidingInv, RequestsTypeOK
    <3>4. RowInv'
      BY <2>1, <3>1 DEF RowInv, RequestsTypeOK, RequestRows
    <3>5. QED
      BY <3>3, <3>4
  <2>4. CASE Writable(requests[r].status) /\ job[w].kind = "approved"
    <3>1. /\ requests[r].status = "pending"
          /\ Proceed(w, "create") /\ UNCHANGED tables
      BY <1>3, <2>4 DEF UpdateTntRequest, Writable, tables
    <3>2. \A v \in Workers, s \in Requests :
            Locks(v, s)' => \/ Locks(v, s) /\ s # r
                            \/ v = w /\ s = r
      BY <2>1, <3>1, <1>l DEF Locks, Free, Proceed, CallsOK
    <3>3. DecidingInv'
      BY <3>1, <3>2 DEF DecidingInv, tables
    <3>4. RowInv'
      BY <3>1 DEF RowInv, tables
    <3>5. QED
      BY <3>3, <3>4
  <2>5. QED
    BY <1>3, <2>2, <2>3, <2>4 DEF UpdateTntRequest
<1>4. ASSUME NEW w \in Workers, CommitTx(w) PROVE DecidingInv' /\ RowInv'
  <2> DEFINE r == job[w].request
  <2>1. r \in Requests /\ Locks(w, r)
    BY <1>4 DEF CommitTx, RequestJobInv, Locks
  <2>2. /\ requests[r].status = "pending"
        /\ \A v \in Workers : Locks(v, r) => v = w
    BY <2>1 DEF DecidingInv
  <2>3. \A v \in Workers, s \in Requests : Locks(v, s)' => Locks(v, s) /\ s # r
    BY <1>4, <2>1, <2>2, <1>l, <1>n DEF CommitTx, Locks, Finish, CallsOK, NoCall, Call,
       Advance
  <2>4. DecidingInv'
    BY <1>4, <2>3 DEF CommitTx, DecidingInv, RequestsTypeOK
  <2>5. RowInv'
    <3>1. tenants[r] = 0 /\ tenants'[r] = 1
      <4>1. tenants[r] = 0
        BY <2>1, <2>2 DEF RowInv
      <4>2. tenants' = [tenants EXCEPT ![r] = @ + 1]
        BY <1>4 DEF CommitTx
      <4>3. QED
        BY <2>1, <4>1, <4>2 DEF RequestsTypeOK
    <3>2. <<"approved", r>> \in audit' /\ requests'[r].status = "approved"
      BY <1>4, <2>1 DEF CommitTx, RequestsTypeOK, RequestRows
    <3>3. \A s \in Requests \ {r} :
            /\ tenants'[s] = tenants[s] /\ requests'[s] = requests[s]
            /\ <<"approved", s>> \in audit' <=> <<"approved", s>> \in audit
      BY <1>4, <2>1, <1>n DEF CommitTx, RequestsTypeOK
    <3>4. QED
      BY <3>1, <3>2, <3>3 DEF RowInv
  <2>6. QED
    BY <2>4, <2>5
<1>5. ASSUME NEW w \in Workers, CreateTenant(w) PROVE DecidingInv' /\ RowInv'
  <2>1. \A v \in Workers, r \in Requests : Locks(v, r)' => Locks(v, r)
    BY <1>5, <1>l DEF CreateTenant, Locks, Proceed, CallsOK
  <2>2. QED
    BY <1>5, <2>1, <1>n DEF CreateTenant, DecidingInv, RowInv, RequestsTypeOK
<1>6. ASSUME NEW w \in Workers, AppendLog(w) PROVE DecidingInv' /\ RowInv'
  <2>1. \A v \in Workers, r \in Requests : Locks(v, r)' => Locks(v, r)
    BY <1>6, <1>l, <1>n DEF AppendLog, Locks, Finish, CallsOK, NoCall, Call, Advance
  <2>2. \A r \in Requests : <<"approved", r>> \in audit' <=> <<"approved", r>> \in audit
    BY <1>6 DEF AppendLog, RequestJobInv
  <2>3. QED
    BY <1>6, <2>1, <2>2 DEF AppendLog, DecidingInv, RowInv
<1>7. CASE UNCHANGED requestVars
  BY <1>7 DEF requestVars, DecidingInv, RowInv, Locks
<1>8. QED
  BY <1>1, <1>2, <1>3, <1>4, <1>5, <1>6, <1>7 DEF NextRequests

LEMMA RequestInductive == RequestInv /\ [NextRequests]_requestVars => RequestInv'
  BY RequestTypeStep, RequestJobStep, PendingStep, CasStep DEF RequestInv, CasInv

LEMMA RequestInvariance == RequestsSpec => []RequestInv
<1>1. InitRequests => RequestInv
  BY RequestInit
<1>2. RequestInv /\ [NextRequests]_requestVars => RequestInv'
  BY RequestInductive
<1>3. QED
  BY <1>1, <1>2, PTL DEF RequestsSpec

-----------------------------------------------------------------------------
(* The theorems.                                                           *)

\* Every variable keeps its type.
THEOREM RequestTypeCorrect == RequestsSpec => []RequestsTypeOK
  BY RequestInvariance, PTL DEF RequestInv

(***************************************************************************)
(* Whatever the store of the requests compares, the partial unique index   *)
(* leaves no user with two requests pending, though ReqTenantCmd checks in *)
(* one statement and inserts in another.                                   *)
(***************************************************************************)
THEOREM PendingIsUnique == RequestsSpec => []OnePendingPerUser
  BY RequestInvariance, PTL DEF RequestInv

\* With the compare-and-set, each step of a command is one of the workflow's or none.
LEMMA RequestStepRefines ==
  ASSUME CompareAndSet, RequestInv, [NextRequests]_requestVars
  PROVE  [Decision!Next]_<<decision, founded>>
<1>i. RequestsTypeOK /\ RequestJobInv /\ DecidingInv /\ RowInv /\ RowInv'
  BY CasStep DEF RequestInv, CasInv
<1>f. /\ founded = {r \in Requests : requests[r].status = "approved"}
      /\ founded' = {r \in Requests : requests'[r].status = "approved"}
  BY <1>i DEF RowInv, founded
<1>1. CASE UNCHANGED requests
  BY <1>1, <1>f DEF decision
<1>2. ASSUME NEW w \in Workers, CreateTntRequest(w), ~UNCHANGED requests
      PROVE  Decision!Next
  <2>1. PICK q \in Requests : q = job[w].request /\ requests[q] = NoRequest
    BY <1>2, <1>i DEF CreateTntRequest, RequestJobInv, Inserting
  <2>2. requests' = [requests EXCEPT ![q] = [status |-> "pending", user |-> job[w].user]]
    BY <1>2, <2>1 DEF CreateTntRequest
  <2>3. decision' = [decision EXCEPT ![q] = "pending"] /\ decision[q] = "absent"
    BY <2>1, <2>2, <1>i DEF RequestsTypeOK, NoRequest, decision
  <2>4. founded' = founded
    BY <2>1, <2>2, <1>f, <1>i DEF RequestsTypeOK, NoRequest
  <2>5. Decision!Submit(q)
    BY <2>3, <2>4 DEF Decision!Submit
  <2>6. QED
    BY <2>5 DEF Decision!Next
<1>3. ASSUME NEW w \in Workers, UpdateTntRequest(w), ~UNCHANGED requests
      PROVE  Decision!Next
  <2>1. PICK q \in Requests : q = job[w].request
    BY <1>3, <1>i DEF UpdateTntRequest, RequestJobInv
  <2>2. /\ requests[q].status = "pending"
        /\ requests' = [requests EXCEPT ![q].status = "rejected"]
    BY <1>3, <2>1 DEF UpdateTntRequest, Writable
  <2>3. decision' = [decision EXCEPT ![q] = "rejected"] /\ decision[q] = "pending"
    BY <2>1, <2>2, <1>i DEF RequestsTypeOK, RequestRows, decision
  <2>4. founded' = founded
    BY <2>1, <2>2, <1>f, <1>i DEF RequestsTypeOK, RequestRows
  <2>5. Decision!Reject(q)
    BY <2>3, <2>4 DEF Decision!Reject
  <2>6. QED
    BY <2>5 DEF Decision!Next
<1>4. ASSUME NEW w \in Workers, CommitTx(w) PROVE Decision!Next
  <2>1. PICK q \in Requests : q = job[w].request /\ requests[q].status = "pending"
    BY <1>4, <1>i DEF CommitTx, RequestJobInv, DecidingInv, Locks
  <2>2. requests' = [requests EXCEPT ![q].status = "approved"]
    BY <1>4, <2>1 DEF CommitTx
  <2>3. decision' = [decision EXCEPT ![q] = "approved"] /\ decision[q] = "pending"
    BY <2>1, <2>2, <1>i DEF RequestsTypeOK, RequestRows, decision
  <2>4. founded' = founded \cup {q}
    BY <2>1, <2>2, <1>f, <1>i DEF RequestsTypeOK, RequestRows
  <2>5. Decision!Approve(q)
    BY <2>3, <2>4 DEF Decision!Approve
  <2>6. QED
    BY <2>5 DEF Decision!Next
<1>5. QED
  BY <1>1, <1>2, <1>3, <1>4
     DEF NextRequests, requestVars, tables, RequestTenant, Start, GetPendingTntRequestByUser,
         Review,
         GetTntRequestByID, CreateTenantInTx, AppendInTx, CreateTenantByPlatform,
         CreateTenant, AppendLog, Interrupt, Advance

(***************************************************************************)
(* With the compare-and-set that the store's interface promises, requests, *)
(* tenants and log implement RequestDecision: whatever calls overlap or    *)
(* die, a request is decided once, and has one tenant and its log entry    *)
(* from the moment it is approved.                                         *)
(***************************************************************************)
THEOREM RequestRefinement ==
  CompareAndSet => (RequestsSpec => RequestsDecidedOnce)
<1> SUFFICES ASSUME CompareAndSet PROVE RequestsSpec => RequestsDecidedOnce
  OBVIOUS
<1>1. InitRequests => Decision!Init
  BY MaxTenantsAssumption, NoneAssumption, RequestsAssumption
  DEF InitRequests, Decision!Init, NoRequest, decision, founded, AllIdle
<1>2. RequestInv /\ [NextRequests]_requestVars
        => [Decision!Next]_<<decision, founded>>
  BY RequestStepRefines
<1>3. QED
  BY <1>1, <1>2, RequestInvariance, PTL DEF RequestsSpec, RequestsDecidedOnce, Decision!Spec
=============================================================================
