----------------------------- MODULE Instances -----------------------------
(***************************************************************************)
(* The PostgreSQL custom resources and the servers behind them, as the     *)
(* controllers of SQL resources meet them through connectToPostgres.  Each *)
(* namespace has one PostgreSQL resource, named by every postgresRef into  *)
(* that namespace; the state of an instance is what an attempt to connect  *)
(* meets, and does not disturb a connection that is already open.          *)
(***************************************************************************)
EXTENDS KubeApi

CONSTANTS
  Namespace,    \* namespaces, each with its PostgreSQL resource (not "")
  InstState,    \* the states an instance may be in, "ok" among them
  Steady        \* the namespaces whose instance is always "ok"

ASSUME InstancesAssumption ==
  /\ "" \notin Namespace
  /\ CR \subseteq [namespace : Namespace, name : STRING]
  /\ "ok" \in InstState
  /\ InstState \subseteq {"ok", "noCR", "noSecret", "noKey", "down"}
  /\ Steady \subseteq Namespace

VARIABLE inst   \* inst[ns]: the state of the instance of namespace ns

\* pgNS: an empty postgresRef.namespace stands for the resource's own.
PgNamespace(cr, ref) == IF ref = "" THEN cr.namespace ELSE ref

\* connectToPostgres: a connection, an error that apierrors.IsNotFound
\* accepts (the %w wrapping keeps the cause of either failed Get visible),
\* or any other error (no such key in the Secret, or the server refuses).
connectToPostgres(cr, ref) ==
  LET state == inst[PgNamespace(cr, ref)]
  IN  CASE state = "ok"                    -> "connected"
        [] state \in {"noCR", "noSecret"} -> "notFound"
        [] OTHER                           -> "error"

\* Administrators delete and restore the PostgreSQL resource or its Secret;
\* the server goes down and comes back.
InstChange(ns) ==
  /\ Disturb
  /\ ns \notin Steady
  /\ inst' \in {[inst EXCEPT ![ns] = s] : s \in InstState \ {inst[ns]}}
  /\ UNCHANGED <<store, watch, cache, queue, pc, key, obj>>

InstInit ==
  /\ inst \in [Namespace -> InstState]
  /\ \A ns \in Steady : inst[ns] = "ok"

InstTypeOK == inst \in [Namespace -> InstState]
============================================================================
