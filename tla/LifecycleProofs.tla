--------------------------- MODULE LifecycleProofs ---------------------------
(***************************************************************************)
(* Lifecycle, one resource at a time: each lemma says by which values of   *)
(* one resource, before and after a step that shows nothing of the others, *)
(* the step is an action of Lifecycle.  A controller that implements       *)
(* Lifecycle instantiates this module with its refinement mapping.         *)
(***************************************************************************)
EXTENDS Lifecycle, TLAPS

\* Every variable has a value for each resource.
Mapped ==
  /\ phase = [cr \in CR |-> phase[cr]]
  /\ ready = [cr \in CR |-> ready[cr]]
  /\ object = [cr \in CR |-> object[cr]]
  /\ spec = [cr \in CR |-> spec[cr]]
  /\ givenUp = [cr \in CR |-> givenUp[cr]]

\* The step shows nothing of cr.
Same(cr) ==
  /\ phase'[cr] = phase[cr]
  /\ ready'[cr] = ready[cr]
  /\ object'[cr] = object[cr]
  /\ spec'[cr] = spec[cr]
  /\ givenUp'[cr] = givenUp[cr]

\* A step that shows something of c alone.
Only(c) == Mapped /\ Mapped' /\ \A cr \in CR \ {c} : Same(cr)

---------------------------------------------------------------------------
\* Each variable changes at c alone, and stays when it stays at c.
LEMMA Changes ==
  ASSUME NEW c \in CR, Only(c)
  PROVE  /\ phase'   = [phase EXCEPT ![c] = phase'[c]]
         /\ ready'   = [ready EXCEPT ![c] = ready'[c]]
         /\ object'  = [object EXCEPT ![c] = object'[c]]
         /\ spec'    = [spec EXCEPT ![c] = spec'[c]]
         /\ givenUp' = [givenUp EXCEPT ![c] = givenUp'[c]]
         /\ phase'[c] = phase[c] => phase' = phase
         /\ ready'[c] = ready[c] => ready' = ready
         /\ object'[c] = object[c] => object' = object
         /\ spec'[c] = spec[c] => spec' = spec
         /\ givenUp'[c] = givenUp[c] => givenUp' = givenUp
<1>1. /\ phase' = [phase EXCEPT ![c] = phase'[c]]
      /\ phase'[c] = phase[c] => phase' = phase
  BY DEF Only, Mapped, Same
<1>2. /\ ready' = [ready EXCEPT ![c] = ready'[c]]
      /\ ready'[c] = ready[c] => ready' = ready
  BY DEF Only, Mapped, Same
<1>3. /\ object' = [object EXCEPT ![c] = object'[c]]
      /\ object'[c] = object[c] => object' = object
  BY DEF Only, Mapped, Same
<1>4. /\ spec' = [spec EXCEPT ![c] = spec'[c]]
      /\ spec'[c] = spec[c] => spec' = spec
  BY DEF Only, Mapped, Same
<1>5. /\ givenUp' = [givenUp EXCEPT ![c] = givenUp'[c]]
      /\ givenUp'[c] = givenUp[c] => givenUp' = givenUp
  BY DEF Only, Mapped, Same
<1> QED
  BY <1>1, <1>2, <1>3, <1>4, <1>5

\* A step that shows nothing at all.
LEMMA NothingShown ==
  ASSUME Mapped, Mapped', \A cr \in CR : Same(cr)
  PROVE  UNCHANGED vars
<1>1. phase' = phase
  BY DEF Mapped, Same
<1>2. ready' = ready
  BY DEF Mapped, Same
<1>3. object' = object
  BY DEF Mapped, Same
<1>4. spec' = spec
  BY DEF Mapped, Same
<1>5. givenUp' = givenUp
  BY DEF Mapped, Same
<1> QED
  BY <1>1, <1>2, <1>3, <1>4, <1>5 DEF vars

---------------------------------------------------------------------------
(* The actions.                                                            *)

\* A resource asks for something, being new or not.
LEMMA AskShown ==
  ASSUME NEW c \in CR, Only(c), ready'[c] = FALSE, givenUp'[c] = givenUp[c],
         object'[c] \in Object
  PROVE  Ask(c, spec'[c])
BY Changes DEF Ask

LEMMA CreateShown ==
  ASSUME NEW c \in CR, Only(c), phase[c] = "absent", phase'[c] = "asked",
         ready'[c] = FALSE, givenUp'[c] = givenUp[c],
         object'[c] \in Object, spec'[c] \in Specs
  PROVE  Next
BY Changes, AskShown DEF Next, Create, Enter

LEMMA EditShown ==
  ASSUME NEW c \in CR, Only(c), phase[c] # "absent", phase'[c] = phase[c],
         ready'[c] = FALSE, givenUp'[c] = givenUp[c],
         object'[c] \in Object, spec'[c] \in Specs, spec'[c] # spec[c]
  PROVE  Next
BY Changes, AskShown DEF Next, Edit

\* The thing comes into being.
LEMMA MakeShown ==
  ASSUME NEW c \in CR, Only(c),
         \/ object[c] = "missing" /\ object'[c] \in {"partly", "there"}
         \/ object[c] = "partly" /\ object'[c] = "there",
         phase'[c] = phase[c], ready'[c] = ready[c],
         spec'[c] = spec[c], givenUp'[c] = givenUp[c]
  PROVE  Next
<1>1. UNCHANGED <<phase, ready, spec, givenUp>>
  BY Changes
<1>2. object' = [object EXCEPT ![c] = object'[c]]
  BY Changes
<1> QED
  BY <1>1, <1>2 DEF Next, Make

\* The thing goes, of a resource that is not guarded.
LEMMA DropShown ==
  ASSUME NEW c \in CR, Only(c), phase[c] # "guarded",
         \/ object[c] = "there" /\ object'[c] \in {"partly", "missing"}
         \/ object[c] = "partly" /\ object'[c] = "missing",
         phase'[c] = phase[c], ready'[c] = ready[c],
         spec'[c] = spec[c], givenUp'[c] = givenUp[c]
  PROVE  Next
<1>1. UNCHANGED <<phase, ready, spec, givenUp>>
  BY Changes
<1>2. object' = [object EXCEPT ![c] = object'[c]]
  BY Changes
<1> QED
  BY <1>1, <1>2 DEF Next, Drop

\* The finalizer is stored.
LEMMA GuardShown ==
  ASSUME NEW c \in CR, Only(c),
         phase[c] = "asked", phase'[c] = "guarded", Whole(c),
         ready'[c] = ready[c], object'[c] = object[c],
         spec'[c] = spec[c], givenUp'[c] = givenUp[c]
  PROVE  Next
<1>1. UNCHANGED <<ready, object, spec, givenUp>>
  BY Changes
<1> QED
  BY <1>1, Changes DEF Next, Guard, Enter

\* Ready=True is reported, or is no longer said of the current generation.
LEMMA ReportShown ==
  ASSUME NEW c \in CR, Only(c),
         \/ ready'[c] = TRUE /\ phase[c] = "guarded" /\ Whole(c)
         \/ ready'[c] = FALSE,
         phase'[c] = phase[c], object'[c] = object[c],
         spec'[c] = spec[c], givenUp'[c] = givenUp[c]
  PROVE  Next
<1>1. UNCHANGED <<phase, object, spec, givenUp>>
  BY Changes
<1>2. ready' = [ready EXCEPT ![c] = ready'[c]]
  BY Changes
<1> QED
  BY <1>1, <1>2 DEF Next, Report, Retract

\* The user deletes the resource.
LEMMA DeleteShown ==
  ASSUME NEW c \in CR, Only(c),
         \/ phase[c] = "asked" /\ phase'[c] = "held" /\ object'[c] = object[c]
         \/ phase[c] = "asked" /\ phase'[c] = "absent" /\ object'[c] = "any"
         \/ phase[c] = "guarded" /\ phase'[c] = "leaving" /\ object'[c] = object[c],
         ready'[c] = FALSE, spec'[c] = spec[c], givenUp'[c] = givenUp[c]
  PROVE  Next
<1>1. /\ ready' = [ready EXCEPT ![c] = FALSE]
      /\ UNCHANGED <<spec, givenUp>>
  BY Changes
<1>2. phase' = [phase EXCEPT ![c] = phase'[c]]
  BY Changes
<1>3. object'[c] = object[c] => object' = object
  BY Changes
<1>4. object' = [object EXCEPT ![c] = object'[c]]
  BY Changes
<1> QED
  BY <1>1, <1>2, <1>3, <1>4 DEF Next, Delete, Forget, Enter

\* The cleanup is given up, or that is forgotten.
LEMMA GiveUpShown ==
  ASSUME NEW c \in CR, Only(c), givenUp'[c] = ~givenUp[c],
         phase'[c] = phase[c], ready'[c] = ready[c],
         object'[c] = object[c], spec'[c] = spec[c]
  PROVE  Next
<1>1. UNCHANGED <<phase, ready, object, spec>>
  BY Changes
<1>2. givenUp' = [givenUp EXCEPT ![c] = givenUp'[c]]
  BY Changes
<1> QED
  BY <1>1, <1>2 DEF Next, GiveUp

\* The finalizer is removed.
LEMMA ReleaseShown ==
  ASSUME NEW c \in CR, Only(c), phase[c] = "leaving",
         spec[c] \notin Cleaned \/ object[c] \in {"any", "missing"} \/ givenUp[c],
         \/ phase'[c] = "held" /\ object'[c] = object[c]
         \/ phase'[c] = "absent" /\ object'[c] = "any",
         givenUp'[c] = FALSE, ready'[c] = ready[c], spec'[c] = spec[c]
  PROVE  Next
<1>1. /\ givenUp' = [givenUp EXCEPT ![c] = FALSE]
      /\ UNCHANGED <<ready, spec>>
  BY Changes
<1>2. phase' = [phase EXCEPT ![c] = phase'[c]]
  BY Changes
<1>3. object'[c] = object[c] => object' = object
  BY Changes
<1>4. object' = [object EXCEPT ![c] = object'[c]]
  BY Changes
<1> QED
  BY <1>1, <1>2, <1>3, <1>4 DEF Next, Release, Forget, Enter

\* Nobody keeps the resource any more.
LEMMA LetGoShown ==
  ASSUME NEW c \in CR, Only(c), phase[c] = "held", phase'[c] = "absent",
         object'[c] = "any", ready'[c] = ready[c],
         spec'[c] = spec[c], givenUp'[c] = givenUp[c]
  PROVE  Next
<1>1. UNCHANGED <<ready, spec, givenUp>>
  BY Changes
<1> QED
  BY <1>1, Changes DEF Next, LetGo, Enter

\* Others take a hand in all things.
LEMMA TamperShown ==
  ASSUME Mapped, Mapped',
         \A cr \in CR : /\ phase'[cr] = phase[cr] /\ ready'[cr] = ready[cr]
                        /\ spec'[cr] = spec[cr] /\ givenUp'[cr] = givenUp[cr]
                        /\ object'[cr] = "any"
  PROVE  Next
<1>1. object' = [cr \in CR |-> IF cr \in CR THEN "any" ELSE object[cr]]
  BY DEF Mapped
<1>2. phase' = phase
  BY DEF Mapped
<1>3. ready' = ready
  BY DEF Mapped
<1>4. spec' = spec /\ givenUp' = givenUp
  BY DEF Mapped
<1>5. Tamper(CR)
  BY <1>1, <1>2, <1>3, <1>4 DEF Tamper
<1> QED
  BY <1>5 DEF Next
==============================================================================
