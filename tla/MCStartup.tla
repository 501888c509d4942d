----------------------------- MODULE MCStartup -----------------------------
(* The admin account, another one, and one music folder. In one behaviour  *)
(* either the database is brought up to date or clients of a running       *)
(* server log in: the two share no state.                                  *)
EXTENDS Startup, Throttle

CONSTANTS other, music, k1, k2, k3, r1, r2

VARIABLE workload

MCNames == {Admin, other}
MCFolders == {music}
MCKeys == {k1, k2, k3}
MCAttempts == {r1, r2}

mcVars == <<vars, throttleVars, workload>>

Migrating(A) == workload = "migrations" /\ A /\ UNCHANGED <<throttleVars, workload>>
LoggingIn(A) == workload = "log-ins" /\ A /\ UNCHANGED <<vars, workload>>

MCInit ==
    /\ Init /\ ThrottleInit
    /\ workload \in {"migrations", "log-ins"}
    /\ workload = "log-ins" =>
          dialect = "sqlite" /\ db = Left(Last) /\ config.password /\ config.secret

MCNext == Migrating(Next) \/ LoggingIn(ThrottleNext)

MCFairness ==
    /\ WF_mcVars(Migrating(Begin(server))) /\ WF_mcVars(Migrating(Serve))
    /\ WF_mcVars(Migrating(Step(server))) /\ WF_mcVars(Migrating(Step(cli)))
    /\ WF_mcVars(LoggingIn(Tick))
    /\ \A r \in Attempts :
          WF_mcVars(LoggingIn(TryCheck(r))) /\ WF_mcVars(LoggingIn(TryRecord(r)))

MCSpec == MCInit /\ [][MCNext]_mcVars /\ MCFairness

(* The start of the server is a matter of the first kind of behaviour.     *)
ServerComesUp == workload = "migrations" => ComesUp
=============================================================================
