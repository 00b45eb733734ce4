---------------------------- MODULE MCSupervisor ----------------------------
(***************************************************************************)
(* Small configurations of services for TLC.  The .cfg files choose one of *)
(* them and the processes and signals around it.                           *)
(***************************************************************************)
EXTENDS SupervisorProperties

CONSTANTS web, db, job, mail, ghost   \* names of services; ghost is not configured

\* web <- db: what most configurations look like.
ChainDependsOn == (web :> <<db>>) @@ (db :> <<>>)
ChainRestart   == (web :> "always") @@ (db :> "on-failure")

\* Both web and the scheduled job need db.
SharedDependsOn == (web :> <<db>>) @@ (job :> <<db, web>>) @@ (db :> <<>>)
SharedRestart   == (web :> "on-failure") @@ (db :> "unless-stopped") @@ (job :> "no")

\* db needs itself, mail needs a service that is not configured.
UnstartableDependsOn == (web :> <<>>) @@ (db :> <<web, db>>) @@ (mail :> <<web, ghost>>)
UnstartableRestart   == (web :> "on-failure") @@ (db :> "unless-stopped") @@ (mail :> "always")

\* A single service.
SingleDependsOn == web :> <<>>
SingleRestart   == web :> "always"

\* A service that needs one that runs once; services that both run once.
OnceRestart    == (web :> "always") @@ (db :> "no")
OneShotRestart == (web :> "no") @@ (db :> "no")

PidSymmetry == Permutations(Pid)
=============================================================================
