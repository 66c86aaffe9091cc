------------------------- MODULE KCameraAutoCloseable -------------------------
(***************************************************************************)
(* KCameraAutoCloseable: an object with the users that retain it. The one   *)
(* that wrapped it owns it without a count; the others call andRetain; each *)
(* of them calls close once for what it holds. The methods are synchronized. *)
(***************************************************************************)
EXTENDS Integers, FiniteSets

CONSTANTS
  Users,     \* who may retain the object
  Owner      \* who wrapped it

ASSUME UsersAssumption == IsFiniteSet(Users) /\ Owner \notin Users

VARIABLES
  mRefCount,
  mObject,    \* whether the wrapped object is there; it is closed when it goes
  holders     \* the owner and the users that have not closed it

closeableVars == <<mRefCount, mObject, holders>>

CloseableTypeOK ==
  /\ mRefCount \in Int /\ mObject \in BOOLEAN
  /\ holders \subseteq Users \cup {Owner}

CloseableInit == mRefCount = 0 /\ mObject = TRUE /\ holders = {Owner}

\* andRetain returns null once the object is released.
AndRetain(u) ==
  /\ u \notin holders
  /\ IF mRefCount < 0 THEN UNCHANGED closeableVars
     ELSE /\ mRefCount' = mRefCount + 1
          /\ holders' = holders \cup {u}
          /\ UNCHANGED mObject

\* Mutant: the last but one close releases the object.
CloseOneEarly(u) ==
  /\ u \in holders
  /\ holders' = holders \ {u}
  /\ mRefCount' = mRefCount - 1
  /\ mObject' = (mObject /\ mRefCount - 1 > 0)

\* close
CloseWrapped(u) ==
  /\ u \in holders
  /\ holders' = holders \ {u}
  /\ mRefCount' = IF mRefCount >= 0 THEN mRefCount - 1 ELSE mRefCount
  /\ mObject' = (mObject /\ mRefCount' >= 0)

CloseableNext ==
  \/ \E u \in Users : AndRetain(u)
  \/ \E u \in Users \cup {Owner} : CloseWrapped(u)

CloseableSpec == CloseableInit /\ [][CloseableNext]_closeableVars

\* The object is there exactly as long as somebody holds it, the owner or a user that
\* retained it, in whatever order they close it.
ObjectIsHeld == mObject <=> holders # {}
=============================================================================
