---------------------------- MODULE ServiceCalls ----------------------------
\* A call of the authentication service, as Tenancy and TenantRequests see one:
\* it executes SQL statements one after the other, remembers what they returned,
\* and leaves a row of audit_logs.
CONSTANTS Users,    \* rows of users that are active
          Workers,  \* calls that can be under way at a time
          None      \* no user, no request

ASSUME NoneAssumption == None \notin Users

VARIABLES
  audit,  \* rows of audit_logs
  pc,     \* the statement each call is about to execute, or "idle"
  job     \* its parameters and what it has read

AllIdle(nothing) == /\ audit = {}
                    /\ pc = [w \in Workers |-> "idle"]
                    /\ job = [w \in Workers |-> nothing]

Busy(w) == pc[w] # "idle"

\* The call goes on to another statement, with what it now remembers.
Advance(w, step, memory) == /\ pc' = [pc EXCEPT ![w] = step]
                            /\ job' = [job EXCEPT ![w] = memory]
=============================================================================
