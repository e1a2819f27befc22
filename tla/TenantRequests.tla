--------------------------- MODULE TenantRequests ---------------------------
(***************************************************************************)
(* How tenants come to be in the authentication service: a user's request  *)
(* (ReqTenantCmd) that a super admin approves (AppTntReqCmd, in one        *)
(* transaction) or rejects (RejectTenantCmd, without one), and a tenant    *)
(* created by the platform (CreateTenantCmdByPlatform).  A row of the log  *)
(* is <<action, request>>.                                                 *)
(*                                                                         *)
(* The repository has no store for the requests, only its interface and    *)
(* the table: "UpdateTntRequest atomically updates the status (CAS or      *)
(* transaction)".  CompareAndSet says which of the two the store does.     *)
(***************************************************************************)
EXTENDS ServiceCalls, Naturals

CONSTANTS Requests,       \* ids of requests
          CompareAndSet,  \* whether UpdateTntRequest checks the stored status
          MaxTenants      \* bound: tenants of one origin

ASSUME CompareAndSetAssumption == CompareAndSet \in BOOLEAN
ASSUME MaxTenantsAssumption == MaxTenants \in Nat
ASSUME RequestsAssumption == None \notin Requests

VARIABLES
  requests,  \* rows of tenant_creation_requests
  tenants    \* how many rows of tenants each request, or the platform (None), has

requestVars == <<requests, tenants, audit, pc, job>>
tables == <<requests, tenants, audit>>

Statuses == {"absent", "pending", "approved", "rejected"}
RequestRows == [status : Statuses, user : Users \cup {None}]
NoRequest == [status |-> "absent", user |-> None]

RequestSteps ==
  {"idle", "spam", "insert", "read", "update", "create", "append", "commit", "log"}
Calls == [kind : {"request", "approved", "rejected", "platform"},
          user : Users \cup {None}, request : Requests \cup {None}]
Call(kind, u, r) == [kind |-> kind, user |-> u, request |-> r]
NoCall == Call("platform", None, None)

InitRequests == /\ requests = [r \in Requests |-> NoRequest]
                /\ tenants = [o \in Requests \cup {None} |-> 0]
                /\ AllIdle(NoCall)

Proceed(w, step) == /\ pc' = [pc EXCEPT ![w] = step]
                    /\ UNCHANGED job

Start(w, step, j) == /\ ~Busy(w)
                     /\ Advance(w, step, j)
                     /\ UNCHANGED tables

Finish(w) == Advance(w, "idle", NoCall)

\* The row an approval has updated stays locked until its transaction ends.
Locks(w, r) == pc[w] \in {"create", "append", "commit"} /\ job[w].request = r
Free(r) == \A v \in Workers : ~Locks(v, r)

-----------------------------------------------------------------------------
(* ReqTenantCmd.                                                           *)

Pending(u) == {r \in Requests : requests[r].status = "pending" /\ requests[r].user = u}

Fresh(r) == /\ requests[r] = NoRequest
            /\ \A w \in Workers : job[w].request # r

RequestTenant(w) ==
  \E u \in Users, r \in Requests : /\ Fresh(r)
                                   /\ Start(w, "spam", Call("request", u, r))

\* The error of this read is ignored: a pending request may be overlooked.
GetPendingTntRequestByUser(w) ==
  /\ pc[w] = "spam"
  /\ UNCHANGED tables
  /\ \/ Proceed(w, "insert")
     \/ Pending(job[w].user) # {} /\ Finish(w)

\* The partial unique index: one pending request per requester.  It waits for a
\* transaction that is deciding one.
UniqueById(u) == TRUE

Unique(u) == Pending(u) = {}

CreateTntRequest(w) ==
  /\ pc[w] = "insert"
  /\ \A r \in Pending(job[w].user) : Free(r)
  /\ UNCHANGED <<tenants, audit>>
  /\ \/ /\ Unique(job[w].user)
        /\ requests' = [requests EXCEPT ![job[w].request] =
                          [status |-> "pending", user |-> job[w].user]]
        /\ Proceed(w, "log")
     \/ ~Unique(job[w].user) /\ Finish(w) /\ UNCHANGED requests

-----------------------------------------------------------------------------
(* AppTntReqCmd and RejectTenantCmd, called by super admins.               *)

Review(w) ==
  \E r \in Requests, kind \in {"approved", "rejected"} : Start(w, "read", Call(kind, None, r))

GetTntRequestByID(w) ==
  /\ pc[w] = "read"
  /\ UNCHANGED tables
  /\ IF requests[job[w].request].status = "pending" THEN Proceed(w, "update") ELSE Finish(w)

\* Mutant: without the compare-and-set.
WritableAlways(status) == TRUE

\* What the UPDATE finds in the row it is to decide.
Writable(status) == CompareAndSet => status = "pending"

UpdateTntRequest(w) ==
  /\ pc[w] = "update"
  /\ Free(job[w].request)
  /\ UNCHANGED <<tenants, audit>>
  /\ LET r == job[w].request
     IN \/ /\ ~Writable(requests[r].status)
           /\ UNCHANGED requests
           /\ Finish(w)
        \/ /\ Writable(requests[r].status)
           /\ job[w].kind = "rejected"
           /\ requests' = [requests EXCEPT ![r].status = "rejected"]
           /\ Proceed(w, "log")
        \/ /\ Writable(requests[r].status)
           /\ job[w].kind = "approved"
           /\ UNCHANGED requests
           /\ Proceed(w, "create")

\* The rest of the transaction; nothing of it shows before the commit.
CreateTenantInTx(w) ==
  /\ pc[w] = "create"
  /\ job[w].kind = "approved"
  /\ UNCHANGED tables
  /\ Proceed(w, "append")

AppendInTx(w) ==
  /\ pc[w] = "append"
  /\ UNCHANGED tables
  /\ Proceed(w, "commit")

CommitTx(w) ==
  /\ pc[w] = "commit"
  /\ LET r == job[w].request
     IN /\ tenants[r] < MaxTenants
        /\ requests' = [requests EXCEPT ![r].status = "approved"]
        /\ tenants' = [tenants EXCEPT ![r] = @ + 1]
        /\ audit' = audit \cup {<<"approved", r>>}
  /\ Finish(w)

-----------------------------------------------------------------------------
CreateTenantByPlatform(w) == Start(w, "create", NoCall)

CreateTenant(w) ==
  /\ pc[w] = "create"
  /\ job[w].kind = "platform"
  /\ tenants[None] < MaxTenants
  /\ tenants' = [tenants EXCEPT ![None] = @ + 1]
  /\ UNCHANGED <<requests, audit>>
  /\ Proceed(w, "log")

AppendLog(w) ==
  /\ pc[w] = "log"
  /\ audit' = audit \cup {<<job[w].kind, job[w].request>>}
  /\ UNCHANGED <<requests, tenants>>
  /\ Finish(w)

\* An error, an expired context or the death of the process; a transaction under
\* way is rolled back.
Interrupt(w) == /\ Busy(w)
                /\ UNCHANGED tables
                /\ Finish(w)

NextRequests == \E w \in Workers :
  \/ RequestTenant(w) \/ GetPendingTntRequestByUser(w) \/ CreateTntRequest(w)
  \/ Review(w) \/ GetTntRequestByID(w) \/ UpdateTntRequest(w)
  \/ CreateTenantInTx(w) \/ AppendInTx(w) \/ CommitTx(w)
  \/ CreateTenantByPlatform(w) \/ CreateTenant(w) \/ AppendLog(w) \/ Interrupt(w)

RequestsSpec == InitRequests /\ [][NextRequests]_requestVars

-----------------------------------------------------------------------------
(* Properties.                                                             *)

\* The type invariant.
RequestsTypeOK ==
  /\ requests \in [Requests -> RequestRows]
  /\ tenants \in [Requests \cup {None} -> 0..MaxTenants]
  /\ audit \subseteq (Statuses \cup {"request", "platform"}) \X (Requests \cup {None})
  /\ pc \in [Workers -> RequestSteps]
  /\ job \in [Workers -> Calls]

\* The command checks for a pending request and inserts in two statements; still
\* no user ever has two requests pending.
OnePendingPerUser ==
  \A r, s \in Requests :
    /\ requests[r].status = "pending" /\ requests[s].status = "pending"
    /\ requests[r].user = requests[s].user
    => r = s

\* What the rows and the log say of the requests.
decision == [r \in Requests |-> requests[r].status]
founded == {r \in Requests : tenants[r] = 1 /\ <<"approved", r>> \in audit}

\* Requests, tenants and log implement RequestDecision: each request is decided
\* once and has its tenant, one tenant only, and its approval in the log, from the
\* moment it is approved, whatever becomes of the call.
Decision == INSTANCE RequestDecision WITH decision <- decision, founded <- founded
RequestsDecidedOnce == Decision!Spec
=============================================================================
