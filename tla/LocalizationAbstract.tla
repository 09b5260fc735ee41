------------------------ MODULE LocalizationAbstract ------------------------
(***************************************************************************)
(* What the fusion core promises about global localization results         *)
(* (spec.md 3, 4.4 and 5), with their content abstracted away:             *)
(*  - every delivered result is either waiting for its pose or resolved,   *)
(*    and a resolution is final;                                           *)
(*  - results are resolved in arrival order: a result is never resolved   *)
(*    ahead of an older unresolved one;                                    *)
(*  - the localization status changes only while a result is resolved:   *)
(*    resolving may localize the core, or lose the baseframe again         *)
(*    (spec.md 4.4: kNotLocalized after the baseframe is lost or reset);   *)
(*  - a fatal failure (an invariant breach, spec.md 7) ends all activity.  *)
(***************************************************************************)
EXTENDS Naturals, Sequences

VARIABLES
  status,     \* status[i]: what became of the i-th delivered result
  localized,  \* the fusion state is Localized
  halted      \* the process terminated on an invariant breach

avars == <<status, localized, halted>>

Waiting == "waiting"
Resolved == "resolved"

\* Index of a result no older unresolved result precedes.
OldestWaiting(i) ==
  /\ status[i] = Waiting
  /\ \A j \in 1 .. i - 1 : status[j] = Resolved

AInit ==
  /\ status = <<>>
  /\ localized \in BOOLEAN
  /\ halted = FALSE

\* A result arrives; it is resolved at once only if nothing older waits.
Deliver ==
  /\ ~halted
  /\ \/ status' = Append(status, Waiting)
     \/ /\ \A j \in DOMAIN status : status[j] = Resolved
        /\ status' = Append(status, Resolved)
  /\ UNCHANGED <<localized, halted>>

\* The oldest waiting result is resolved; this may localize the core or
\* reset it.
Resolve ==
  /\ ~halted
  /\ \E i \in DOMAIN status :
       /\ OldestWaiting(i)
       /\ status' = [status EXCEPT ![i] = Resolved]
  /\ localized' \in BOOLEAN
  /\ UNCHANGED halted

Halt ==
  /\ ~halted
  /\ halted' = TRUE
  /\ UNCHANGED <<status, localized>>

ANext == Deliver \/ Resolve \/ Halt

ASpec == AInit /\ [][ANext]_avars
=============================================================================
