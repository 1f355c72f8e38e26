------------------------------- MODULE Platform -------------------------------
(***************************************************************************)
(* Five components that every request shares and that share no state but   *)
(* the clock, side by side: a behaviour takes steps of one of them only.   *)
(***************************************************************************)
EXTENDS RateLimit, RequestMetrics, AdminStore, AuthStore, Database

VARIABLE part   \* the component that runs

limitOnly == <<req, events>>
metricsOnly == <<answer, rows, counter>>

PlatformInit ==
  /\ part \in {"limits", "metrics", "administration", "sessions", "database"}
  /\ LimitInit /\ MetricsInit /\ AdminInit /\ AuthInit /\ DatabaseInit

PlatformNext ==
  /\ UNCHANGED part
  /\ \/ part = "limits" /\ LimitNext /\ UNCHANGED <<metricsOnly, adminVars, authVars, databaseVars>>
     \/ part = "metrics" /\ MetricsNext /\ UNCHANGED <<limitOnly, adminVars, authVars, databaseVars>>
     \/ part = "administration" /\ AdminNext
          /\ UNCHANGED <<now, limitOnly, metricsOnly, authVars, databaseVars>>
     \/ part = "sessions" /\ AuthNext
          /\ UNCHANGED <<now, limitOnly, metricsOnly, adminVars, databaseVars>>
     \/ part = "database" /\ DatabaseNext
          /\ UNCHANGED <<now, limitOnly, metricsOnly, adminVars, authVars>>

platformVars == <<part, now, limitOnly, metricsOnly, adminVars, authVars, databaseVars>>

PlatformSpec == PlatformInit /\ [][PlatformNext]_platformVars

\* The variables of the five components keep their types.
PlatformTypeOK == LimitTypeOK /\ MetricsTypeOK /\ AdminTypeOK /\ AuthTypeOK /\ DatabaseTypeOK
=============================================================================
