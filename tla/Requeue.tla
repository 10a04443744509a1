------------------------------- MODULE Requeue -------------------------------
(***************************************************************************)
(* When a reconcile asks to be called again: requeueResult, retryResult    *)
(* and addJitter of internal/controller/helpers.go, in the arithmetic of   *)
(* time.Duration (an int64 that wraps around), scaled down by MaxDuration. *)
(* controller-runtime calls again only if RequeueAfter is positive.        *)
(***************************************************************************)
EXTENDS Integers

CONSTANTS
  MaxDuration,              \* the largest time.Duration
  defaultRequeueInterval,
  defaultRetryInterval,
  maxRequeueJitter,
  Unset                     \* the interval of a spec that sets none (nil)

Duration == -(MaxDuration + 1) .. MaxDuration

\* The intervals that no rule of the CRDs rejects.
Interval == Duration \cup {Unset}

ASSUME RequeueAssumption ==
  /\ MaxDuration \in Nat
  /\ Unset \notin Duration
  /\ maxRequeueJitter \in Nat \ {0}
  /\ defaultRequeueInterval \in 1 .. (MaxDuration + 1 - maxRequeueJitter)
  /\ defaultRetryInterval \in 1 .. (MaxDuration + 1 - maxRequeueJitter)

\* The sum of two durations, if it overflows at all upwards.
Wrap(d) == IF d > MaxDuration THEN d - 2 * (MaxDuration + 1) ELSE d

\* The jitter is uniform in [0, maxRequeueJitter).
addJitter(d) == {Wrap(d + j) : j \in 0 .. (maxRequeueJitter - 1)}

\* Every RequeueAfter a success may ask for, and every one an error may.
requeueResult(tmpl) ==
  addJitter(IF tmpl.requeueInterval = Unset THEN defaultRequeueInterval
                                            ELSE tmpl.requeueInterval)

\* Mutant: an interval that is not set is taken for zero.
retryResultNoDefault(tmpl) ==
  addJitter(IF tmpl.retryInterval = Unset THEN 0 ELSE tmpl.retryInterval)

retryResult(tmpl) ==
  addJitter(IF tmpl.retryInterval = Unset THEN defaultRetryInterval
                                          ELSE tmpl.retryInterval)

\* The intervals that keep RequeueAfter positive whatever the jitter: not
\* zero or less, and not so large that the sum overflows.
SaneInterval(i) == i = Unset \/ i \in 1 .. (MaxDuration + 1 - maxRequeueJitter)

Sane(tmpl) == SaneInterval(tmpl.requeueInterval) /\ SaneInterval(tmpl.retryInterval)
==============================================================================
