------------------------------ MODULE Tenancy ------------------------------
(***************************************************************************)
(* Who may do what in one tenant: the commands of the authentication       *)
(* service that read and write the tenants and memberships rows            *)
(*   - AddMembershipCmd, AcceptInvitationCmd, RevokeMembershipCmd,         *)
(*   - TransTntOwnership, the only one that runs in a transaction,         *)
(*   - Server.ValidateAccessToken, which every gateway request goes by.    *)
(*                                                                         *)
(* A worker is one call.  Each SQL statement is one atomic step on         *)
(* committed data (READ COMMITTED); what a transaction wrote is applied by *)
(* Commit, and until then its row locks make other writers wait.  A call   *)
(* may be cut short before any of its statements: an error, an expired     *)
(* context or the death of the process.                                    *)
(*                                                                         *)
(* AddMembershipCmd and RevokeMembershipCmd overwrite their context with   *)
(* that of an errgroup, which is cancelled when its Wait returns: whatever *)
(* they ask of the database afterwards fails without being executed.       *)
(*                                                                         *)
(* "seen", "everOwner" and "displaced" are history variables.              *)
(***************************************************************************)
EXTENDS ServiceCalls, Naturals

CONSTANTS SuperAdmins,  \* users whose access token says is_super_admin
          Founder,      \* owner the tenant was created with
          FirstRows,    \* membership rows that may be there: former owners', or such
                        \* as no command of the service ever gets to insert
          MaxCommands   \* bound: calls made in a behaviour

ASSUME UsersAssumption == Founder \in Users /\ SuperAdmins \subseteq Users
ASSUME BoundAssumption == MaxCommands \in Nat

VARIABLES
  owner,      \* tenants.owner_user_id
  members,    \* rows of memberships, by user
  begun,      \* calls begun so far
  seen,       \* roles each user has had since the call began
  everOwner,  \* users who have owned the tenant
  displaced   \* owners whom a transfer replaced that had read another owner

vars == <<owner, members, audit, pc, job, begun, seen, everOwner, displaced>>
database == <<owner, members, audit>>

-----------------------------------------------------------------------------
Roles == {"owner", "admin", "member", "none"}

\* RoleOwner is computed and never stored; an absent row has no role.
Rows == [role : {"admin", "member", "none"},
         status : {"pending", "active", "revoked", "absent"}]
Row(role, status) == [role |-> role, status |-> status]
NoRow == Row("none", "absent")

ASSUME FirstRowsAssumption == /\ NoRow \in FirstRows
                              /\ FirstRows \ {NoRow} \subseteq
                                   {Row(role, status) : role \in {"admin", "member"},
                                      status \in {"pending", "active", "revoked"}}

Kinds == {"invite", "accept", "revoke", "transfer", "validate"}

\* "role" is what an invitation offers, "owner" the tenant's owner as read, and
\* actorRole and targetRole the roles computed from the rows read.
Jobs == [kind : Kinds, actor : Users, target : Users, role : {"admin", "member", "none"},
         owner : Users \cup {None}, actorRole : Roles \cup {"unread"},
         targetRole : Roles \cup {"unread"}]

Job(kind, actor, target, role) ==
  [kind |-> kind, actor |-> actor, target |-> target, role |-> role,
   owner |-> None, actorRole |-> "unread", targetRole |-> "unread"]

NoJob == Job("validate", Founder, Founder, "none")

Steps == {"idle", "tenant", "actor", "ranks", "member", "insert", "status",
          "update", "upsert", "append", "commit", "audit", "answer"}

Init ==
  /\ owner = Founder
  /\ members \in {m \in [Users -> FirstRows] : m[Founder] = NoRow}
  /\ AllIdle(NoJob)
  /\ begun = 0
  /\ seen = [w \in Workers |-> {}]
  /\ everOwner = {Founder}
  /\ displaced = {}

-----------------------------------------------------------------------------
(* The role policy and the commands' checks.                               *)

EffectiveRoleAnyStatus(o, u, row) == IF o = u THEN "owner" ELSE row.role

EffectiveRole(o, u, row) ==
  IF o = u THEN "owner" ELSE IF row.status # "active" THEN "none" ELSE row.role

MayInvite(role) == role \in {"owner", "admin"}

MayRevoke(role, target) == role = "owner" \/ (role = "admin" /\ target = "member")

MayTransfer(actor, o) == actor = o \/ actor \in SuperAdmins

\* The "Golden Rules" of the policy, stated once more for the properties.
Authority(o, u, row) == CASE o = u -> "owner"
                          [] o # u /\ row.status = "active" -> row.role
                          [] OTHER -> "none"

\* The history variables follow what a step leaves in owner and members.
Record ==
  /\ everOwner' = everOwner \cup {owner'}
  /\ seen' = [w \in Workers |->
                IF pc'[w] = "idle" THEN {}
                ELSE seen[w] \cup {<<u, Authority(owner', u, members'[u])>> :
                                     u \in {job'[w].actor, job'[w].target}}]

Goto(w, step, j) == Advance(w, step, j) /\ Record

Return(w) == Goto(w, "idle", NoJob)

-----------------------------------------------------------------------------
(* Row locks.  An UPDATE of tenants that changes no key takes the weaker   *)
(* lock, which the key-share locks of foreign keys do not wait for.        *)

TenantLockForUpdate == "update"

TenantLock == "no key update"

LocksTenant(w) == pc[w] \in {"upsert", "append", "commit"}
LocksMember(w, u) == pc[w] \in {"append", "commit"} /\ job[w].owner = u

MemberFree(u) == \A v \in Workers : ~LocksMember(v, u)
KeyShareFree == TenantLock = "update" => \A v \in Workers : ~LocksTenant(v)

-----------------------------------------------------------------------------
(* The commands, statement by statement.                                   *)

\* What the handlers check before the first statement.
WellFormed(j) ==
  CASE j.kind = "invite" -> j.role # "none"
    [] j.kind = "revoke" -> j.role = "none" /\ j.actor # j.target
    [] j.kind = "transfer" -> j.role = "none"
    [] OTHER -> j.role = "none" /\ j.actor = j.target

\* ValidateAccessToken answers at once for a super admin, or when no tenant is named.
FirstSteps(j) ==
  CASE j.kind = "accept" -> {"member"}
    [] j.kind = "validate" /\ j.actor \in SuperAdmins -> {"answer"}
    [] j.kind = "validate" /\ j.actor \notin SuperAdmins -> {"tenant", "answer"}
    [] OTHER -> {"tenant"}

Begin(w) ==
  /\ ~Busy(w)
  /\ UNCHANGED <<database, displaced>>
  /\ begun < MaxCommands
  /\ begun' = begun + 1
  /\ \E kind \in Kinds, actor, target \in Users, role \in {"admin", "member", "none"} :
       LET j == Job(kind, actor, target, role)
       IN /\ WellFormed(j)
          /\ \E step \in FirstSteps(j) : Goto(w, step, j)

\* What a command does with the owner it read.
TenantAdmits(j, o) ==
  CASE j.kind = "transfer" -> MayTransfer(j.actor, o) /\ j.target # o
    [] j.kind = "validate" -> TRUE
    [] OTHER -> o # j.target

AfterTenant == [invite |-> "actor", validate |-> "actor",
                revoke |-> "ranks", transfer |-> "update"]

GetTenantByID(w) ==
  /\ pc[w] = "tenant"
  /\ UNCHANGED <<database, begun, displaced>>
  /\ IF TenantAdmits(job[w], owner)
       THEN Goto(w, AfterTenant[job[w].kind], [job[w] EXCEPT !.owner = owner])
       ELSE Return(w)

\* errgroup's Wait has returned, and with it the context of the command ended.
ContextOver(w) == \/ job[w].kind = "invite" /\ pc[w] \in {"actor", "insert"}
                  \/ job[w].kind = "revoke" /\ pc[w] = "status"

\* AddMembershipCmd and ValidateAccessToken ignore the error of this read, so
\* the row may be taken to be absent.
GetActor(w) ==
  /\ pc[w] = "actor"
  /\ UNCHANGED <<database, begun, displaced>>
  /\ \E row \in {members[job[w].actor], NoRow} :
       /\ ContextOver(w) => row = NoRow
       /\ LET role == EffectiveRole(job[w].owner, job[w].actor, row)
              j == [job[w] EXCEPT !.owner = None, !.actorRole = role]
          IN \/ /\ j.kind = "invite" /\ MayInvite(role) /\ j.target # j.actor
                /\ Goto(w, "insert", j)
             \/ /\ j.kind = "validate" /\ role # "none"
                /\ Goto(w, "answer", j)
             \/ /\ IF j.kind = "invite" THEN ~MayInvite(role) \/ j.target = j.actor
                                        ELSE role = "none"
                /\ Return(w)

\* The context is over: the target's row is not found, the new one not inserted.
CreateMembership(w) ==
  /\ pc[w] = "insert"
  /\ UNCHANGED <<database, begun, displaced>>
  /\ Return(w)

GetInvitation(w) ==
  /\ pc[w] = "member"
  /\ UNCHANGED <<database, begun, displaced>>
  /\ IF members[job[w].target].status = "pending"
       THEN Goto(w, "status", job[w])
       ELSE Return(w)

Judge(w, j) ==
  IF "unread" \in {j.actorRole, j.targetRole} THEN Goto(w, "ranks", j)
  ELSE IF MayRevoke(j.actorRole, j.targetRole) THEN Goto(w, "status", [j EXCEPT !.owner = None])
  ELSE Return(w)

\* The two reads run in parallel and end in either order.  A target that has no
\* row, or is revoked already, leaves nothing to write.
GetRanks(w) ==
  /\ pc[w] = "ranks"
  /\ UNCHANGED <<database, begun, displaced>>
  /\ LET j == job[w]
         RankOf(u) == EffectiveRole(j.owner, u, members[u])
     IN \/ /\ j.actorRole = "unread"
           /\ Judge(w, [j EXCEPT !.actorRole = RankOf(j.actor)])
        \/ /\ j.targetRole = "unread"
           /\ IF members[j.target].status \in {"absent", "revoked"}
                THEN Return(w)
                ELSE Judge(w, [j EXCEPT !.targetRole = RankOf(j.target)])

\* UPDATE memberships SET status: for an invitation whatever the row has become
\* meanwhile, for a revocation not at all.
UpdateMembershipStatus(w) ==
  /\ pc[w] = "status"
  /\ UNCHANGED <<owner, audit, begun, displaced>>
  /\ \/ /\ ContextOver(w)
        /\ UNCHANGED members
        /\ Return(w)
     \/ /\ ~ContextOver(w)
        /\ MemberFree(job[w].target)
        /\ members' = [members EXCEPT ![job[w].target].status = "active"]
        /\ Goto(w, "audit", job[w])

\* UPDATE tenants inside the transaction: waits for the row, then takes it.
UpdateTenant(w) ==
  /\ pc[w] = "update"
  /\ UNCHANGED <<database, begun, displaced>>
  /\ \A v \in Workers : ~LocksTenant(v)
  /\ Goto(w, "upsert", job[w])

AfterUpsertCommit == "commit"

AfterUpsert == "append"

UpsertMembership(w) ==
  /\ pc[w] = "upsert"
  /\ UNCHANGED <<database, begun, displaced>>
  /\ MemberFree(job[w].owner)
  /\ Goto(w, AfterUpsert, job[w])

\* The row both updated by the transaction: the owner that was read steps down.
StepsDownActor(j) == j.actor

StepsDown(j) == j.owner

\* Mutant: a row that is there already is left as it is.
UpsertedIfAbsent(row) == IF row = NoRow THEN Row("admin", "active") ELSE row

Upserted(row) == Row("admin", "active")

Commit(w) ==
  /\ pc[w] = "commit"
  /\ UNCHANGED <<audit, begun>>
  /\ owner' = job[w].target
  /\ members' = [members EXCEPT ![StepsDown(job[w])] = Upserted(@)]
  /\ displaced' = IF owner = job[w].owner THEN displaced ELSE displaced \cup {owner}
  /\ Return(w)

AuditRow(j) == [action |-> j.kind, actor |-> j.actor, target |-> j.target, old |-> j.owner]

\* TransTntOwnership appends with the outer context: not in its transaction.
Append(w) ==
  /\ pc[w] \in {"append", "audit"}
  /\ UNCHANGED <<owner, members, begun, displaced>>
  /\ KeyShareFree
  /\ audit' = audit \cup {AuditRow(job[w])}
  /\ IF pc[w] = "append" THEN Goto(w, "commit", job[w]) ELSE Return(w)

\* ValidateAccessToken answers with the role it computed, if it looked for one.
Answer(w) ==
  /\ pc[w] = "answer"
  /\ UNCHANGED <<database, begun, displaced>>
  /\ Return(w)

Abort(w) ==
  /\ Busy(w)
  /\ UNCHANGED <<database, begun, displaced>>
  /\ Return(w)

Statement(w) ==
  \/ GetTenantByID(w) \/ GetActor(w) \/ GetInvitation(w) \/ GetRanks(w)
  \/ CreateMembership(w) \/ UpdateMembershipStatus(w)
  \/ UpdateTenant(w) \/ UpsertMembership(w) \/ Commit(w)
  \/ Append(w) \/ Answer(w)

Next == \E w \in Workers : Begin(w) \/ Statement(w) \/ Abort(w)

Spec == Init /\ [][Next]_vars

-----------------------------------------------------------------------------
(* Properties.                                                             *)

TypeOK ==
  /\ owner \in Users
  /\ members \in [Users -> Rows]
  /\ audit \subseteq [action : {"accept", "transfer"}, actor : Users, target : Users,
                      old : Users \cup {None}]
  /\ pc \in [Workers -> Steps]
  /\ job \in [Workers -> Jobs]
  /\ begun \in 0..MaxCommands
  /\ seen \in [Workers -> SUBSET (Users \X Roles)]
  /\ everOwner \subseteq Users /\ displaced \subseteq Users

Rank(role) == CASE role = "owner" -> 3 [] role = "admin" -> 2
                [] role = "member" -> 1 [] OTHER -> 0

\* The steps of a command once its checks are behind it.
Decided(w) == pc[w] \in {"insert", "status", "update", "upsert", "append", "commit",
                         "audit", "answer"}

\* Enough authority for the command, in some state of the database.
Suffices(j, role) ==
  CASE j.kind \in {"invite", "revoke"} -> Rank(role) >= Rank("admin")
    [] j.kind = "transfer" -> role = "owner" \/ j.actor \in SuperAdmins
    [] j.kind = "validate" -> Rank(role) >= Rank(j.actorRole)
    [] OTHER -> TRUE

\* A command goes through only on behalf of an actor who held the authority for
\* it at some moment since the command began, although owner and membership are
\* read in separate statements and either may change between them.
AuthorityWasReal ==
  \A w \in Workers : Decided(w) =>
    \E role \in Roles : <<job[w].actor, role>> \in seen[w] /\ Suffices(job[w], role)

\* The tenant changes hands only when the log already names the old and the new
\* owner: there is no owner whose promotion is missing from audit_logs.
NoUnloggedTransfer ==
  [][owner' # owner =>
       \E e \in audit : /\ e.action = "transfer" /\ e.target = owner'
                        /\ e.old \in everOwner]_vars

\* Nobody becomes an active member but by what the user was granted: an invitation
\* that was pending gives the role it offered, and a transfer makes an admin only of
\* someone who has owned the tenant, whoever asked for it and whatever was read.
RightsAreEarned ==
  [][\A u \in Users : members'[u] # members[u] /\ members'[u].status = "active" =>
       \/ members[u].status = "pending" /\ members'[u].role = members[u].role
       \/ u \in everOwner /\ members'[u].role = "admin"]_vars

\* "The old owner steps down to Admin but doesn't lose access", and keeps it through
\* every later call, unless the transfer that replaced the owner had read another one.
FormerOwnersStay ==
  \A u \in everOwner \ (displaced \cup {owner}) : members[u] = Row("admin", "active")

\* The locks that the next statement of a call waits for.
Waits(w) ==
  \/ pc[w] = "status" /\ ~ContextOver(w) /\ ~MemberFree(job[w].target)
  \/ pc[w] = "update" /\ \E v \in Workers : LocksTenant(v)
  \/ pc[w] = "upsert" /\ ~MemberFree(job[w].owner)
  \/ pc[w] \in {"append", "audit"} /\ ~KeyShareFree

SomeCallIsFree ==
  (\E w \in Workers : Busy(w)) => \E w \in Workers : Busy(w) /\ ~Waits(w)

\* Row locks never stop everybody: some call under way can always take its next
\* step, although a transfer waits for rows and writes its log on a second
\* connection while it holds them.  Nothing but those locks keeps a call waiting.
SomeCallRuns ==
  /\ SomeCallIsFree
  /\ \A w \in Workers : Busy(w) => (ENABLED Statement(w) <=> ~Waits(w))

=============================================================================
