------------------------------ MODULE Lifecycle ------------------------------
(***************************************************************************)
(* What a controller of SQL resources promises of each resource, without   *)
(* workers, caches, replies or statements: in which phases a resource is,  *)
(* what Ready=True means, and when the thing that the resource asks for (a *)
(* database, a role, the privileges of a grant) may come and go.  The      *)
(* three controllers implement it (see their Implementation).              *)
(***************************************************************************)
CONSTANTS
  CR,       \* the resources
  Specs,    \* what a resource may ask for
  Cleaned   \* the specs with cleanupPolicy Delete

VARIABLES
  phase,     \* phase[cr], one of Phase
  ready,     \* ready[cr]: Ready=True is reported of the current generation
  spec,      \* spec[cr]: what cr asks for, or asked for last
  object,    \* object[cr], one of Object: the state of what spec[cr] names
  givenUp    \* givenUp[cr]: PostgreSQL was found to be gone for the cleanup

vars == <<phase, ready, spec, object, givenUp>>

\* A resource that was not created or has gone; that lives without the
\* finalizer, or with it; that is being deleted with the finalizer, or
\* without and kept by somebody else.
Phase == {"absent", "asked", "guarded", "leaving", "held"}

\* What is on the server of what the spec asks for: nothing, all, or a part
\* (of several privileges); "any" when others have a say in it as well, or
\* when there is no spec, and nothing is promised.
Object == {"any", "missing", "partly", "there"}

Init ==
  /\ phase = [cr \in CR |-> "absent"]
  /\ ready = [cr \in CR |-> FALSE]
  /\ spec \in [CR -> Specs]
  /\ object = [cr \in CR |-> "any"]
  /\ givenUp = [cr \in CR |-> FALSE]

\* cr enters phase p, with everything else the same.
Enter(cr, p) == phase' = [phase EXCEPT ![cr] = p]

\* cr asks for s: nothing is known of what s names, and any Ready=True is
\* about a former generation.
Ask(cr, s) ==
  /\ spec' = [spec EXCEPT ![cr] = s]
  /\ object' \in {[object EXCEPT ![cr] = o] : o \in Object}
  /\ ready' = [ready EXCEPT ![cr] = FALSE]
  /\ UNCHANGED givenUp

Create(cr) ==
  /\ phase[cr] = "absent" /\ Enter(cr, "asked")
  /\ \E s \in Specs : Ask(cr, s)

\* The user asks for something else.  While the spec is the same, its thing
\* comes and goes by Make and Drop alone.
Edit(cr) ==
  /\ phase[cr] # "absent" /\ UNCHANGED phase
  /\ \E s \in Specs \ {spec[cr]} : Ask(cr, s)

\* The thing comes into being, whole or part by part, whatever the phase:
\* a reconcile may have started before the resource went.
Make(cr) ==
  /\ \/ object[cr] = "missing" /\ object' \in {[object EXCEPT ![cr] = o] : o \in {"partly", "there"}}
     \/ object[cr] = "partly" /\ object' = [object EXCEPT ![cr] = "there"]
  /\ UNCHANGED <<phase, ready, spec, givenUp>>

\* The thing goes, but never while the resource is guarded.
Drop(cr) ==
  /\ phase[cr] # "guarded"
  /\ \/ object[cr] = "there" /\ object' \in {[object EXCEPT ![cr] = o] : o \in {"partly", "missing"}}
     \/ object[cr] = "partly" /\ object' = [object EXCEPT ![cr] = "missing"]
  /\ UNCHANGED <<phase, ready, spec, givenUp>>

\* Others take a hand in the things of some resources, for good: a database
\* is dropped with all that was granted in it.
Tamper(touched) ==
  /\ object' = [cr \in CR |-> IF cr \in touched THEN "any" ELSE object[cr]]
  /\ UNCHANGED <<phase, ready, spec, givenUp>>

Whole(cr) == object[cr] \in {"any", "there"}

\* The finalizer is stored, after the thing is there.
Guard(cr) ==
  /\ phase[cr] = "asked" /\ Whole(cr)
  /\ Enter(cr, "guarded")
  /\ UNCHANGED <<ready, spec, object, givenUp>>

\* Ready=True is reported of a guarded resource whose thing is there.
Report(cr) ==
  /\ phase[cr] = "guarded" /\ Whole(cr)
  /\ ready' = [ready EXCEPT ![cr] = TRUE]
  /\ UNCHANGED <<phase, spec, object, givenUp>>

Retract(cr) ==
  /\ ready' = [ready EXCEPT ![cr] = FALSE]
  /\ UNCHANGED <<phase, spec, object, givenUp>>

\* The user deletes the resource: without the finalizer it goes unless
\* somebody else keeps it.
Forget(cr) ==
  \/ Enter(cr, "held") /\ UNCHANGED object
  \/ Enter(cr, "absent") /\ object' = [object EXCEPT ![cr] = "any"]

Delete(cr) ==
  /\ \/ phase[cr] = "asked" /\ Forget(cr)
     \/ phase[cr] = "guarded" /\ Enter(cr, "leaving") /\ UNCHANGED object
  /\ ready' = [ready EXCEPT ![cr] = FALSE]
  /\ UNCHANGED <<spec, givenUp>>

\* The cleanup is given up, or that is forgotten again.
GiveUp(cr) ==
  /\ givenUp' = [givenUp EXCEPT ![cr] = ~@]
  /\ UNCHANGED <<phase, ready, spec, object>>

\* The finalizer is removed: after the thing has gone altogether, unless
\* that is not asked for or was given up.
Release(cr) ==
  /\ phase[cr] = "leaving"
  /\ spec[cr] \notin Cleaned \/ object[cr] \in {"any", "missing"} \/ givenUp[cr]
  /\ Forget(cr)
  /\ givenUp' = [givenUp EXCEPT ![cr] = FALSE]
  /\ UNCHANGED <<ready, spec>>

\* The last to keep the resource lets it go.
LetGo(cr) ==
  /\ phase[cr] = "held"
  /\ Enter(cr, "absent") /\ object' = [object EXCEPT ![cr] = "any"]
  /\ UNCHANGED <<ready, spec, givenUp>>

Next ==
  \/ \E cr \in CR :
       \/ Create(cr) \/ Edit(cr) \/ Delete(cr)
       \/ Make(cr) \/ Drop(cr)
       \/ Guard(cr) \/ Report(cr) \/ Retract(cr)
       \/ GiveUp(cr) \/ Release(cr) \/ LetGo(cr)
  \/ \E touched \in SUBSET CR : Tamper(touched)

Spec == Init /\ [][Next]_vars
=============================================================================
