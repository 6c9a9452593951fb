------------------------------ MODULE ClRefCount ------------------------------
(***************************************************************************)
(* The two reference counts of an OpenCL object: cl::base of               *)
(* source/cl/include/cl/base.h and the functions retainExternal,           *)
(* releaseExternal, retainInternal and releaseInternal around it.          *)
(*                                                                         *)
(* Each function is a loop around compare_exchange_weak.  A step is one    *)
(* access of an atomic; a compare_exchange_weak that fails for nothing     *)
(* changes nothing and is a stuttering step.                               *)
(*                                                                         *)
(* The code counts references; the model also names them.  A caller holds  *)
(* a reference while it is inside a function and gives up its own only,    *)
(* but it may call retainExternal with an internal reference, as a         *)
(* callback of an event does.  Anchor is "the single internal reference    *)
(* associated with non-zero external reference counts".                    *)
(***************************************************************************)
EXTENDS Naturals, FiniteSets

CONSTANTS Threads, Refs, Anchor, NoRef,
          MaxCount      \* the largest cl_uint

ASSUME RefAssumption ==
    /\ IsFiniteSet(Refs) /\ Anchor \notin Refs /\ NoRef \notin Refs \cup {Anchor}
    /\ MaxCount \in Nat \ {0}

VARIABLES
    refCountExternal, refCountInternal,   \* the atomics
    extRefs, intRefs,   \* history: the references they count
    destroyed,          \* whether the object was deleted
    pc, op, last,       \* where a thread is, in which function, last_ref_count
    ref                 \* the reference it relies on or gives up

counts == <<refCountExternal, refCountInternal, extRefs, intRefs>>
vars == <<counts, destroyed, pc, op, last, ref>>

External == {"retainExternal", "releaseExternal"}
Retains == {"retainExternal", "retainInternal"}
Releases == {"releaseExternal", "releaseInternal"}

Held == extRefs \cup intRefs
Fresh == Refs \ Held

Count(t) == IF op[t] \in External THEN refCountExternal ELSE refCountInternal

\* The object is created with a reference of its creator, ref_count_type::EXTERNAL
\* or INTERNAL.
Init ==
    /\ \E r \in Refs :
          \/ extRefs = {r} /\ intRefs = {Anchor} /\ refCountExternal = 1
          \/ extRefs = {} /\ intRefs = {r} /\ refCountExternal = 0
    /\ refCountInternal = 1
    /\ destroyed = FALSE
    /\ pc = [t \in Threads |-> "idle"]
    /\ op = [t \in Threads |-> "retainExternal"]
    /\ last = [t \in Threads |-> 0]
    /\ ref = [t \in Threads |-> NoRef]

Begin(t, f, r) ==
    /\ pc[t] = "idle"
    /\ pc' = [pc EXCEPT ![t] = "load"]
    /\ op' = [op EXCEPT ![t] = f]
    /\ ref' = [ref EXCEPT ![t] = r]
    /\ UNCHANGED <<counts, destroyed, last>>

\* A reference that is being given up serves nobody else; the number of references
\* is bounded by Refs.
Retain(t, f, r) ==
    /\ r \in Held \cap Refs
    /\ \A u \in Threads : ref[u] = r => op[u] \in Retains
    /\ Cardinality({u \in Threads : pc[u] # "idle"}) < Cardinality(Fresh)
    /\ Begin(t, f, r)

Release(t, f, r) ==
    /\ r \in Refs \cap (IF f = "releaseExternal" THEN extRefs ELSE intRefs)
    /\ \A u \in Threads : ref[u] # r
    /\ Begin(t, f, r)

\* cl_uint last_ref_count = ref_count_external;
Load(t) ==
    /\ pc[t] = "load"
    /\ pc' = [pc EXCEPT ![t] = "cas"]
    /\ last' = [last EXCEPT ![t] = Count(t)]
    /\ UNCHANGED <<counts, destroyed, op, ref>>

Return(t) ==
    /\ pc' = [pc EXCEPT ![t] = "idle"]
    /\ ref' = [ref EXCEPT ![t] = NoRef]
    /\ UNCHANGED op

\* Mutant: an external count of zero is not looked for.
InvalidNever(t) == FALSE

\* The external functions return CL_INVALID_<OBJECT> on a count of zero.
Invalid(t) == op[t] \in External /\ last[t] = 0

Overflow(t) == op[t] \in Retains /\ last[t] = MaxCount

Refuse(t) ==
    /\ pc[t] = "cas"
    /\ Invalid(t) \/ Overflow(t)
    /\ Return(t)
    /\ UNCHANGED <<counts, destroyed, last>>

\* Mutant: the count is stored whatever it has become.
MatchesAlways(t) == TRUE

\* Whether compare_exchange finds the value that was read.
Matches(t) == Count(t) = last[t]

Retry(t) ==
    /\ pc[t] = "cas"
    /\ ~Invalid(t) /\ ~Overflow(t)
    /\ ~Matches(t)
    /\ last' = [last EXCEPT ![t] = Count(t)]
    /\ UNCHANGED <<counts, destroyed, pc, op, ref>>

Exchange(t, f) ==
    /\ pc[t] = "cas" /\ op[t] = f
    /\ ~Invalid(t) /\ ~Overflow(t)
    /\ Matches(t)
    /\ UNCHANGED <<destroyed, last>>

RetainExternal(t) ==
    /\ Exchange(t, "retainExternal")
    /\ refCountExternal' = (last[t] + 1) % (MaxCount + 1)
    /\ \E n \in Fresh : extRefs' = extRefs \cup {n}
    /\ Return(t)
    /\ UNCHANGED <<refCountInternal, intRefs>>

RetainInternal(t) ==
    /\ Exchange(t, "retainInternal")
    /\ refCountInternal' = (last[t] + 1) % (MaxCount + 1)
    /\ \E n \in Fresh : intRefs' = intRefs \cup {n}
    /\ Return(t)
    /\ UNCHANGED <<refCountExternal, extRefs>>

\* Mutant: the internal reference of the external count stays.
AnchorGoesNever(t) == FALSE

\* The last external reference is gone.
AnchorGoes(t) == last[t] = 1

ReleaseExternal(t) ==
    /\ Exchange(t, "releaseExternal")
    /\ refCountExternal' = last[t] - 1
    /\ extRefs' = extRefs \ {ref[t]}
    /\ IF AnchorGoes(t)
       THEN /\ pc' = [pc EXCEPT ![t] = "load"]
            /\ op' = [op EXCEPT ![t] = "releaseInternal"]
            /\ ref' = [ref EXCEPT ![t] = Anchor]
       ELSE Return(t)
    /\ UNCHANGED <<refCountInternal, intRefs>>

\* Mutant: the object is destroyed with its last external reference.
ShouldDestroyEarly(t) == last[t] = 1 \/ ref[t] = Anchor

ShouldDestroy(t) == last[t] = 1

ReleaseInternal(t) ==
    /\ Exchange(t, "releaseInternal")
    /\ refCountInternal' = last[t] - 1
    /\ intRefs' = intRefs \ {ref[t]}
    /\ pc' = [pc EXCEPT ![t] = IF ShouldDestroy(t) THEN "destroy" ELSE "idle"]
    /\ ref' = [ref EXCEPT ![t] = NoRef]
    /\ UNCHANGED <<refCountExternal, extRefs, op>>

\* delete object
Destroy(t) ==
    /\ pc[t] = "destroy"
    /\ destroyed' = TRUE
    /\ pc' = [pc EXCEPT ![t] = "idle"]
    /\ UNCHANGED <<counts, op, last, ref>>

Step(t) ==
    \/ Load(t) \/ Refuse(t) \/ Retry(t) \/ RetainExternal(t) \/ RetainInternal(t)
    \/ ReleaseExternal(t) \/ ReleaseInternal(t) \/ Destroy(t)

Next ==
    \E t \in Threads :
        \/ \E r \in Refs : \/ \E f \in Retains : Retain(t, f, r)
                           \/ \E f \in Releases : Release(t, f, r)
        \/ Step(t)

Spec == Init /\ [][Next]_vars

\* A thread inside a function goes on.
FairSpec == Spec /\ \A t \in Threads : WF_vars(Step(t))

-------------------------------------------------------------------------------
\* Properties

TypeOK ==
    /\ refCountExternal \in 0..MaxCount /\ refCountInternal \in 0..MaxCount
    /\ extRefs \subseteq Refs /\ intRefs \subseteq Refs \cup {Anchor}
    /\ destroyed \in BOOLEAN
    /\ pc \in [Threads -> {"idle", "load", "cas", "destroy"}]
    /\ op \in [Threads -> Retains \cup Releases]
    /\ last \in [Threads -> 0..MaxCount]
    /\ ref \in [Threads -> Refs \cup {Anchor, NoRef}]

\* No update of a count is lost or made twice, however the loops of several threads
\* interleave, and a count at its limit does not wrap: each count is the number of
\* references there are.
CountsAreExact ==
    /\ refCountExternal = Cardinality(extRefs)
    /\ refCountInternal = Cardinality(intRefs)

\* The object is destroyed by one thread, once, and when nobody else is inside a
\* function on it or holds a reference that lets it call one.
DestroyedLast ==
    \A t \in Threads : pc[t] = "destroy" \/ destroyed =>
        /\ \A u \in Threads \ {t} : pc[u] = "idle"
        /\ pc[t] = "destroy" => ~destroyed
        /\ Held = {}

\* The assertions of base.h: no internal count of zero in retainInternal and
\* releaseInternal, no external reference left when the internal count becomes
\* zero, and no failing releaseExternal in ~release_guard.
AssertionsHold ==
    \A t \in Threads :
        /\ pc[t] = "cas" /\ op[t] # "retainExternal" => last[t] # 0
        /\ pc[t] = "destroy" => refCountExternal = 0

\* An object whose last external reference is gone is invalid to the application
\* for good: retainExternal does not bring it back, although internal references
\* may keep it alive and the loop may hold an older count.
StaysInvalid == [][refCountExternal = 0 => refCountExternal' = 0]_vars

\* An object without references is destroyed.
IsDestroyed == Held \ {Anchor} = {} ~> destroyed

-------------------------------------------------------------------------------
\* The inductive invariant.

\* A thread inside a function relies on a reference that exists; one that is being
\* given up is relied on by nobody else.
RefInv ==
    \A t \in Threads :
        /\ pc[t] \in {"load", "cas"} <=> ref[t] # NoRef
        /\ ref[t] # NoRef =>
              /\ ref[t] \in (CASE op[t] = "releaseExternal" -> extRefs
                               [] op[t] = "releaseInternal" -> intRefs
                               [] OTHER -> Held \ {Anchor})
              /\ op[t] \in Releases => \A u \in Threads \ {t} : ref[u] # ref[t]

\* The external references share one internal reference, until the thread that gave
\* up the last of them gives it up too.
AnchorInv ==
    /\ Anchor \in intRefs <=> extRefs # {} \/ \E t \in Threads : ref[t] = Anchor
    /\ \A t \in Threads : ref[t] = Anchor => extRefs = {}
    /\ extRefs \cap intRefs = {}

IInv ==
    /\ TypeOK
    /\ CountsAreExact
    /\ RefInv
    /\ AnchorInv
    /\ AssertionsHold
    /\ DestroyedLast
===============================================================================
