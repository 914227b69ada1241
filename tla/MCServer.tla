------------------------------ MODULE MCServer ------------------------------
(* Starting the servers and being let in by them: three replicas that      *)
(* migrate and one that does not; logins, sessions and what administrators *)
(* do with them.  The two share no state, so a behaviour is of the one or  *)
(* of the other.                                                           *)
EXTENDS Sessions, Migrations

VARIABLE part    \* "start" or "access"

ServerInit ==
    /\ part \in {"start", "access"}
    /\ SessionsInit /\ MigrationsInit
    /\ part = "access" => schema = Objects

ServerNext ==
    \/ part = "start" /\ MigrationsNext /\ UNCHANGED <<part, sessionVars>>
    \/ part = "access" /\ SessionsNext /\ UNCHANGED <<part, migrationVars>>

ServerSafety == ServerInit /\ [][ServerNext]_<<part, sessionVars, migrationVars>>

(* The fairness of FairMigrationsSpec and of FairSessionsSpec. *)
ServerSpec ==
    /\ ServerSafety
    /\ WF_sessionVars(part = "access" /\ SessionTick)
    /\ \A r \in Replicas :
          /\ SF_migrationVars(part = "start" /\ Acquire(r))
          /\ WF_migrationVars(part = "start" /\ StartStep(r))
=============================================================================
