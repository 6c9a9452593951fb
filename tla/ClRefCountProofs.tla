--------------------------- MODULE ClRefCountProofs ---------------------------
(***************************************************************************)
(* cl::base for any number of threads and references: the counts are the   *)
(* references, and the object is destroyed once and last.                  *)
(***************************************************************************)
EXTENDS ClRefCount, FiniteSetTheorems, TLAPS

USE RefAssumption

\* The counts as sets.
LEMMA CountFacts ==
    ASSUME IInv
    PROVE  /\ IsFiniteSet(extRefs) /\ IsFiniteSet(intRefs)
           /\ refCountExternal = 0 <=> extRefs = {}
           /\ refCountInternal = 0 <=> intRefs = {}
  <1>1. IsFiniteSet(Refs \cup {Anchor})
    BY FS_AddElement, Zenon
  <1>2. IsFiniteSet(extRefs) /\ IsFiniteSet(intRefs)
    BY <1>1, FS_Subset, Zenon DEF IInv, TypeOK
  <1> QED
    BY <1>2, FS_EmptySet, Zenon DEF IInv, CountsAreExact

\* A thread inside a function keeps the object alive: its count is not zero, but
\* perhaps the external one that retainExternal looks at.
LEMMA Alive ==
    ASSUME IInv, NEW t \in Threads, pc[t] \in {"load", "cas"}
    PROVE  /\ Held # {} /\ ~destroyed /\ \A u \in Threads : pc[u] # "destroy"
           /\ op[t] # "retainExternal" => Count(t) # 0
           /\ op[t] \in Retains => ref[t] \in Held /\ ref[t] # Anchor
           /\ op[t] = "releaseExternal" => ref[t] \in extRefs
           /\ op[t] = "releaseInternal" => ref[t] \in intRefs
  <1>1. ref[t] # NoRef
    BY Zenon DEF IInv, RefInv
  <1>2. op[t] = "releaseExternal" => ref[t] \in extRefs
    BY <1>1, Zenon DEF IInv, RefInv
  <1>3. op[t] = "releaseInternal" => ref[t] \in intRefs
    BY <1>1, Zenon DEF IInv, RefInv
  <1>4. op[t] \in Retains => ref[t] \in Held /\ ref[t] # Anchor
    BY <1>1, Zenon DEF IInv, RefInv, Retains, Held
  <1>5. Held # {}
    BY <1>2, <1>3, <1>4, Zenon DEF IInv, TypeOK, Releases, Held
  <1>6. ~destroyed /\ \A u \in Threads : pc[u] # "destroy"
    BY <1>5, Zenon DEF IInv, DestroyedLast
  <1>7. intRefs # {}
    BY <1>5, Zenon DEF IInv, AnchorInv, Held
  <1>8. op[t] # "retainExternal" => Count(t) # 0
    BY <1>2, <1>7, CountFacts, Zenon DEF Count, External, IInv, TypeOK, Retains, Releases
  <1> QED
    BY <1>2, <1>3, <1>4, <1>5, <1>6, <1>8, Zenon

LEMMA InitIInv == Init => IInv
  <1> SUFFICES ASSUME Init PROVE IInv
    BY Zenon
  <1>1. PICK r \in Refs :
          \/ extRefs = {r} /\ intRefs = {Anchor} /\ refCountExternal = 1
          \/ extRefs = {} /\ intRefs = {r} /\ refCountExternal = 0
    BY Zenon DEF Init
  <1>2. Cardinality({}) = 0 /\ Cardinality({r}) = 1 /\ Cardinality({Anchor}) = 1
    BY FS_EmptySet, FS_Singleton, Zenon
  <1>3. TypeOK
    <2>1. 0 \in 0..MaxCount /\ 1 \in 0..MaxCount
      OBVIOUS
    <2>2. extRefs \subseteq Refs /\ intRefs \subseteq Refs \cup {Anchor}
      BY <1>1, Zenon
    <2>3. refCountExternal \in 0..MaxCount
      BY <1>1, <2>1, Zenon
    <2> QED
      BY <2>1, <2>2, <2>3, Zenon DEF Init, TypeOK, Retains, Releases
  <1>4. CountsAreExact
    BY <1>1, <1>2, Zenon DEF Init, CountsAreExact
  <1>5. RefInv /\ AssertionsHold /\ DestroyedLast
    BY Zenon DEF Init, RefInv, AssertionsHold, DestroyedLast
  <1>6. AnchorInv
    BY <1>1, Zenon DEF Init, AnchorInv
  <1> QED
    BY <1>3, <1>4, <1>5, <1>6, Zenon DEF IInv

\* A call begins, relying on a reference that exists.
LEMMA BeginInv ==
    ASSUME IInv, NEW t \in Threads, NEW r \in Refs, NEW f \in Retains \cup Releases,
           Begin(t, f, r),
           f \in Retains => r \in Held
                            /\ \A u \in Threads : ref[u] = r => op[u] \in Retains,
           f = "releaseExternal" => r \in extRefs /\ \A u \in Threads : ref[u] # r,
           f = "releaseInternal" => r \in intRefs /\ \A u \in Threads : ref[u] # r
    PROVE  IInv'
  <1> USE DEF Begin, counts
  <1>0. r \in Held /\ ~destroyed /\ \A u \in Threads : pc[u] # "destroy"
    BY Zenon DEF IInv, DestroyedLast, Held, Releases
  <1>1. TypeOK'
    BY Zenon DEF IInv, TypeOK
  <1>2. CountsAreExact'
    BY Zenon DEF IInv, CountsAreExact
  <1>3. RefInv'
    <2> SUFFICES ASSUME NEW v \in Threads PROVE RefInv!(v)'
      BY Zenon DEF RefInv
    <2> QED
      BY Zenon DEF IInv, TypeOK, RefInv, Held, Retains, Releases
  <1>4. AnchorInv'
    <2>1. ref[t] = NoRef
      BY Zenon DEF IInv, RefInv
    <2>2. \A u \in Threads : ref'[u] = Anchor <=> ref[u] = Anchor
      BY <2>1, Zenon DEF IInv, TypeOK
    <2> QED
      BY <2>2, Zenon DEF IInv, AnchorInv
  <1>5. AssertionsHold'
    BY Zenon DEF IInv, TypeOK, AssertionsHold
  <1>6. DestroyedLast'
    BY <1>0, Zenon DEF IInv, TypeOK, DestroyedLast
  <1> QED
    BY <1>1, <1>2, <1>3, <1>4, <1>5, <1>6, Zenon DEF IInv

\* The count is read, at first or by a compare_exchange that failed.
LEMMA ReadInv ==
    ASSUME IInv, NEW t \in Threads, Load(t) \/ Retry(t)
    PROVE  IInv'
  <1>0. /\ pc[t] \in {"load", "cas"} /\ pc' = [pc EXCEPT ![t] = "cas"]
        /\ last' = [last EXCEPT ![t] = Count(t)]
        /\ UNCHANGED <<counts, destroyed, op, ref>>
    BY Zenon DEF Load, Retry, IInv, TypeOK
  <1> USE DEF counts
  <1>1. TypeOK'
    BY <1>0, Zenon DEF IInv, TypeOK, Count
  <1>2. CountsAreExact'
    BY <1>0, Zenon DEF IInv, CountsAreExact
  <1>3. RefInv'
    BY <1>0, Zenon DEF IInv, TypeOK, RefInv, Held
  <1>4. AnchorInv'
    BY <1>0, Zenon DEF IInv, AnchorInv
  <1>5. AssertionsHold'
    BY <1>0, Alive, Zenon DEF IInv, TypeOK, AssertionsHold
  <1>6. DestroyedLast'
    BY <1>0, Alive, Zenon DEF IInv, TypeOK, DestroyedLast
  <1> QED
    BY <1>1, <1>2, <1>3, <1>4, <1>5, <1>6, Zenon DEF IInv

\* A retain returns, with a new reference or without.
LEMMA RetainReturns ==
    ASSUME IInv, NEW t \in Threads, pc[t] = "cas", op[t] \in Retains, Return(t),
           UNCHANGED <<destroyed, last>>,
           extRefs \subseteq extRefs', intRefs \subseteq intRefs',
           extRefs' \subseteq Refs, intRefs' \subseteq Refs \cup {Anchor},
           Anchor \in intRefs' => Anchor \in intRefs,
           extRefs # {} <=> extRefs' # {},
           extRefs' \cap intRefs' = {},
           refCountExternal' \in 0..MaxCount, refCountInternal' \in 0..MaxCount,
           CountsAreExact'
    PROVE  IInv'
  <1> USE DEF Return
  <1>0. /\ Held # {} /\ ~destroyed /\ \A u \in Threads : pc[u] # "destroy"
        /\ ref[t] # Anchor
    BY Alive, Zenon
  <1>1. TypeOK'
    BY Zenon DEF IInv, TypeOK
  <1>3. RefInv'
    <2> SUFFICES ASSUME NEW v \in Threads PROVE RefInv!(v)'
      BY Zenon DEF RefInv
    <2>1. Held \subseteq Held'
      BY Zenon DEF Held
    <2>2. CASE v = t
      BY <2>2, Zenon DEF IInv, TypeOK
    <2>3. CASE v # t
      <3>1. pc'[v] = pc[v] /\ ref'[v] = ref[v] /\ op' = op
        BY <2>3, Zenon DEF IInv, TypeOK
      <3>2. \A u \in Threads : ref'[u] = ref[u] \/ ref'[u] = NoRef
        BY Zenon DEF IInv, TypeOK
      <3> QED
        BY <2>1, <3>1, <3>2 DEF IInv, RefInv
    <2> QED
      BY <2>2, <2>3, Zenon
  <1>4. AnchorInv'
    <2>1. \A u \in Threads : ref'[u] = Anchor <=> ref[u] = Anchor
      BY <1>0, Zenon DEF IInv, TypeOK
    <2> QED
      BY <2>1, Zenon DEF IInv, AnchorInv
  <1>5. AssertionsHold'
    BY <1>0, Zenon DEF IInv, TypeOK, AssertionsHold
  <1>6. DestroyedLast'
    BY <1>0, Zenon DEF IInv, TypeOK, DestroyedLast
  <1> QED
    BY <1>1, <1>3, <1>4, <1>5, <1>6, Zenon DEF IInv

LEMMA RetainInv ==
    ASSUME IInv, NEW t \in Threads, Refuse(t) \/ RetainExternal(t) \/ RetainInternal(t)
    PROVE  IInv'
  <1>1. CASE Refuse(t)
    <2>1. op[t] \in Retains
      BY <1>1, Zenon DEF Refuse, Invalid, Overflow, External, Retains, IInv, AssertionsHold
    <2>2. pc[t] = "cas" /\ Return(t) /\ UNCHANGED <<counts, destroyed, last>>
      BY <1>1, Zenon DEF Refuse
    <2>3. CountsAreExact'
      BY <2>2, Zenon DEF counts, IInv, CountsAreExact
    <2> QED
      BY <2>1, <2>2, <2>3, RetainReturns, Zenon DEF counts, IInv, TypeOK, AnchorInv
  <1>2. CASE RetainExternal(t)
    <2>1. /\ pc[t] = "cas" /\ op[t] = "retainExternal" /\ Return(t)
          /\ UNCHANGED <<destroyed, last, refCountInternal, intRefs>>
          /\ refCountExternal = last[t] /\ last[t] # 0 /\ last[t] # MaxCount
          /\ refCountExternal' = (last[t] + 1) % (MaxCount + 1)
      BY <1>2, Zenon DEF RetainExternal, Exchange, Matches, Count, Invalid, Overflow, External,
        Retains
    <2>2. PICK n \in Fresh : extRefs' = extRefs \cup {n}
      BY <1>2, Zenon DEF RetainExternal
    <2>3. refCountExternal' = refCountExternal + 1 /\ refCountExternal' \in 0..MaxCount
      BY <2>1 DEF IInv, TypeOK
    <2>4. n \in Refs /\ n \notin extRefs /\ n \notin intRefs
      BY <2>2, Zenon DEF Fresh, Held
    <2>5. Cardinality(extRefs') = Cardinality(extRefs) + 1
      BY <2>2, <2>4, CountFacts, FS_AddElement, Zenon
    <2>6. CountsAreExact'
      BY <2>1, <2>3, <2>5, Zenon DEF IInv, CountsAreExact
    <2>7. extRefs # {}
      BY <2>1, CountFacts, Zenon
    <2> QED
      BY <2>1, <2>2, <2>3, <2>4, <2>6, <2>7, RetainReturns
      DEF Retains, IInv, TypeOK, AnchorInv
  <1>3. CASE RetainInternal(t)
    <2>1. /\ pc[t] = "cas" /\ op[t] = "retainInternal" /\ Return(t)
          /\ UNCHANGED <<destroyed, last, refCountExternal, extRefs>>
          /\ refCountInternal = last[t] /\ last[t] # MaxCount
          /\ refCountInternal' = (last[t] + 1) % (MaxCount + 1)
      BY <1>3, Zenon DEF RetainInternal, Exchange, Matches, Count, Invalid, Overflow, External,
        Retains
    <2>2. PICK n \in Fresh : intRefs' = intRefs \cup {n}
      BY <1>3, Zenon DEF RetainInternal
    <2>3. refCountInternal' = refCountInternal + 1 /\ refCountInternal' \in 0..MaxCount
      BY <2>1 DEF IInv, TypeOK
    <2>4. n \in Refs /\ n \notin extRefs /\ n \notin intRefs
      BY <2>2, Zenon DEF Fresh, Held
    <2>5. Cardinality(intRefs') = Cardinality(intRefs) + 1
      BY <2>2, <2>4, CountFacts, FS_AddElement, Zenon
    <2>6. CountsAreExact'
      BY <2>1, <2>3, <2>5, Zenon DEF IInv, CountsAreExact
    <2> QED
      BY <2>1, <2>2, <2>3, <2>4, <2>6, RetainReturns
      DEF Retains, IInv, TypeOK, AnchorInv
  <1> QED
    BY <1>1, <1>2, <1>3, Zenon

\* A reference goes; nobody else relied on it.
LEMMA ReleaseReturns ==
    ASSUME IInv, NEW t \in Threads, pc[t] = "cas", op[t] \in Releases
    PROVE  /\ \A u \in Threads \ {t} :
                 ref[u] # NoRef => /\ ref[u] # ref[t]
                                   /\ ref[u] \in Held \ {ref[t]}
           /\ ref[t] \in Held
  <1>1. ref[t] \in Held /\ \A u \in Threads \ {t} : ref[u] # ref[t]
    BY Alive, Zenon DEF IInv, RefInv, Releases, Held
  <1>2. ASSUME NEW u \in Threads, ref[u] # NoRef
        PROVE  ref[u] \in Held
    BY <1>2, Alive, Zenon DEF IInv, RefInv, TypeOK, Releases, Held
  <1> QED
    BY <1>1, <1>2, Zenon

LEMMA ReleaseExternalInv ==
    ASSUME IInv, NEW t \in Threads, ReleaseExternal(t)
    PROVE  IInv'
  <1>1. /\ pc[t] = "cas" /\ op[t] = "releaseExternal"
        /\ UNCHANGED <<destroyed, last, refCountInternal, intRefs>>
        /\ refCountExternal = last[t] /\ last[t] # 0
        /\ refCountExternal' = last[t] - 1 /\ extRefs' = extRefs \ {ref[t]}
    BY Zenon DEF ReleaseExternal, Exchange, Matches, Count, Invalid, External
  <1>2. /\ ref[t] \in extRefs /\ ~destroyed /\ \A u \in Threads : pc[u] # "destroy"
    BY <1>1, Alive, Zenon
  <1>3. /\ Anchor \in intRefs /\ \A u \in Threads : ref[u] # Anchor
        /\ extRefs \cap intRefs = {}
    BY <1>2, Zenon DEF IInv, AnchorInv
  <1>4. \A u \in Threads \ {t} : ref[u] # NoRef => ref[u] # ref[t]
    BY <1>1, ReleaseReturns, Zenon DEF Releases
  <1>5. refCountExternal' \in 0..MaxCount
    BY <1>1 DEF IInv, TypeOK
  <1>6. CountsAreExact'
    <2>1. Cardinality(extRefs') = Cardinality(extRefs) - 1
      BY <1>1, <1>2, CountFacts, FS_RemoveElement, Zenon
    <2> QED
      BY <1>1, <2>1, Zenon DEF IInv, CountsAreExact
  <1>7. IsFiniteSet(extRefs')
    BY <1>1, CountFacts, FS_RemoveElement, Zenon
  <1>8. extRefs' = {} <=> last[t] = 1
    <2>1. extRefs' = {} <=> Cardinality(extRefs') = 0
      BY <1>7, FS_EmptySet, Zenon
    <2> QED
      BY <1>1, <1>6, <2>1 DEF CountsAreExact, IInv, TypeOK
  <1>9. CASE last[t] = 1
    <2>1. /\ pc' = [pc EXCEPT ![t] = "load"]
          /\ op' = [op EXCEPT ![t] = "releaseInternal"]
          /\ ref' = [ref EXCEPT ![t] = Anchor]
      BY <1>9, Zenon DEF ReleaseExternal, AnchorGoes
    <2>2. TypeOK'
      BY <1>1, <1>5, <2>1, Zenon DEF IInv, TypeOK, Releases
    <2>3. RefInv'
      <3> SUFFICES ASSUME NEW v \in Threads PROVE RefInv!(v)'
        BY Zenon DEF RefInv
      <3>1. CASE v = t
        <4>1. /\ pc'[v] = "load" /\ op'[v] = "releaseInternal" /\ ref'[v] = Anchor
              /\ \A u \in Threads \ {v} : ref'[u] # Anchor
          BY <1>3, <2>1, <3>1, Zenon DEF IInv, TypeOK
        <4> QED
          BY <1>1, <1>3, <4>1, Zenon
      <3>2. CASE v # t
        <4>1. pc'[v] = pc[v] /\ op'[v] = op[v] /\ ref'[v] = ref[v]
          BY <2>1, <3>2, Zenon DEF IInv, TypeOK
        <4>2. \A u \in Threads : ref'[u] = ref[u] \/ ref'[u] = Anchor
          BY <2>1, Zenon DEF IInv, TypeOK
        <4>3. ref[v] # NoRef => ref[v] # ref[t]
          BY <1>4, <3>2, Zenon
        <4>4. ref[v] # Anchor
          BY <1>3, Zenon
        <4> QED
          BY <1>1, <4>1, <4>2, <4>3, <4>4, Zenon DEF IInv, RefInv, Held
      <3> QED
        BY <3>1, <3>2, Zenon
    <2>4. AnchorInv'
      <3>1. ref'[t] = Anchor /\ extRefs' = {}
        BY <1>8, <1>9, <2>1, Zenon DEF IInv, TypeOK
      <3> QED
        BY <1>1, <1>3, <3>1, Zenon DEF AnchorInv
    <2>5. AssertionsHold' /\ DestroyedLast'
      BY <1>1, <1>2, <2>1, Zenon DEF IInv, TypeOK, AssertionsHold, DestroyedLast
    <2> QED
      BY <1>6, <2>2, <2>3, <2>4, <2>5, Zenon DEF IInv
  <1>10. CASE last[t] # 1
    <2>1. Return(t)
      BY <1>10, Zenon DEF ReleaseExternal, AnchorGoes
    <2> USE DEF Return
    <2>2. TypeOK'
      BY <1>1, <1>5, <2>1, Zenon DEF IInv, TypeOK
    <2>3. RefInv'
      <3> SUFFICES ASSUME NEW v \in Threads PROVE RefInv!(v)'
        BY Zenon DEF RefInv
      <3>1. CASE v = t
        BY <2>1, <3>1, Zenon DEF IInv, TypeOK
      <3>2. CASE v # t
        <4>1. pc'[v] = pc[v] /\ op'[v] = op[v] /\ ref'[v] = ref[v]
          BY <2>1, <3>2, Zenon DEF IInv, TypeOK
        <4>2. \A u \in Threads : ref'[u] = ref[u] \/ ref'[u] = NoRef
          BY <2>1, Zenon DEF IInv, TypeOK
        <4>3. ref[v] # NoRef => ref[v] # ref[t]
          BY <1>4, <3>2, Zenon
        <4> QED
          BY <1>1, <4>1, <4>2, <4>3, Zenon DEF IInv, RefInv, Held
      <3> QED
        BY <3>1, <3>2, Zenon
    <2>4. AnchorInv'
      <3>1. \A u \in Threads : ref'[u] # Anchor
        BY <1>3, <2>1, Zenon DEF IInv, TypeOK
      <3>2. extRefs' # {}
        BY <1>8, <1>10, Zenon
      <3> QED
        BY <1>1, <1>3, <3>1, <3>2, Zenon DEF AnchorInv
    <2>5. AssertionsHold' /\ DestroyedLast'
      BY <1>1, <1>2, <2>1, Zenon DEF IInv, TypeOK, AssertionsHold, DestroyedLast
    <2> QED
      BY <1>6, <2>2, <2>3, <2>4, <2>5, Zenon DEF IInv
  <1> QED
    BY <1>9, <1>10, Zenon

LEMMA ReleaseInternalInv ==
    ASSUME IInv, NEW t \in Threads, ReleaseInternal(t)
    PROVE  IInv'
  <1>1. /\ pc[t] = "cas" /\ op[t] = "releaseInternal"
        /\ UNCHANGED <<destroyed, last, refCountExternal, extRefs, op>>
        /\ refCountInternal = last[t]
        /\ refCountInternal' = last[t] - 1 /\ intRefs' = intRefs \ {ref[t]}
        /\ pc' = [pc EXCEPT ![t] = IF last[t] = 1 THEN "destroy" ELSE "idle"]
        /\ ref' = [ref EXCEPT ![t] = NoRef]
    BY Zenon DEF ReleaseInternal, Exchange, Matches, Count, External, ShouldDestroy
  <1>2. /\ ref[t] \in intRefs /\ ~destroyed /\ \A u \in Threads : pc[u] # "destroy"
        /\ last[t] # 0
    BY <1>1, Alive, Zenon DEF Count, External
  <1>3. \A u \in Threads \ {t} :
           ref[u] # NoRef => ref[u] # ref[t] /\ ref[u] \in Held \ {ref[t]}
    BY <1>1, ReleaseReturns, Zenon DEF Releases
  <1>4. refCountInternal' \in 0..MaxCount
    BY <1>1, <1>2 DEF IInv, TypeOK
  <1>5. CountsAreExact'
    <2>1. Cardinality(intRefs') = Cardinality(intRefs) - 1
      BY <1>1, <1>2, CountFacts, FS_RemoveElement, Zenon
    <2> QED
      BY <1>1, <2>1, Zenon DEF IInv, CountsAreExact
  <1>6. intRefs' = {} <=> last[t] = 1
    <2>1. intRefs' = {} <=> Cardinality(intRefs') = 0
      BY <1>1, CountFacts, FS_RemoveElement, FS_EmptySet, Zenon
    <2> QED
      BY <1>1, <1>5, <2>1 DEF CountsAreExact, IInv, TypeOK
  <1>7. TypeOK'
    BY <1>1, <1>4, Zenon DEF IInv, TypeOK
  <1>8. \A u \in Threads : ref'[u] = IF u = t THEN NoRef ELSE ref[u]
    BY <1>1, Zenon DEF IInv, TypeOK
  <1>9. RefInv'
    <2> SUFFICES ASSUME NEW v \in Threads PROVE RefInv!(v)'
      BY Zenon DEF RefInv
    <2>1. CASE v = t
      BY <1>1, <1>8, <2>1, Zenon DEF IInv, TypeOK
    <2>2. CASE v # t
      <3>1. pc'[v] = pc[v] /\ op'[v] = op[v] /\ ref'[v] = ref[v]
        BY <1>1, <2>2, Zenon DEF IInv, TypeOK
      <3>2. \A u \in Threads : ref'[u] = ref[u] \/ ref'[u] = NoRef
        BY <1>8, Zenon
      <3>3. ref[v] # NoRef => ref[v] # ref[t]
        BY <1>3, <2>2, Zenon
      <3> QED
        BY <1>1, <3>1, <3>2, <3>3 DEF IInv, RefInv, Held
    <2> QED
      BY <2>1, <2>2, Zenon
  <1>10. AnchorInv'
    <2>1. CASE ref[t] = Anchor
      <3>1. extRefs = {} /\ Anchor \notin intRefs'
        BY <1>1, <2>1, Zenon DEF IInv, AnchorInv
      <3>2. \A u \in Threads : ref'[u] # Anchor
        BY <1>3, <1>8, <2>1, Zenon
      <3> QED
        BY <1>1, <3>1, <3>2, Zenon DEF AnchorInv
    <2>2. CASE ref[t] # Anchor
      <3>1. \A u \in Threads : ref'[u] = Anchor <=> ref[u] = Anchor
        BY <1>8, <2>2, Zenon
      <3> QED
        BY <1>1, <2>2, <3>1, Zenon DEF IInv, AnchorInv
    <2> QED
      BY <2>1, <2>2, Zenon
  <1>11. ASSUME last[t] = 1
         PROVE  Held' = {} /\ refCountExternal' = 0
    <2>1. intRefs' = {}
      BY <1>6, <1>11, Zenon
    <2>2. extRefs' = {}
      BY <1>10, <2>1, Zenon DEF AnchorInv
    <2> QED
      BY <1>1, <2>1, <2>2, CountFacts, Zenon DEF Held
  <1>12. ASSUME last[t] = 1, NEW u \in Threads \ {t}
         PROVE  pc'[u] = "idle"
    <2>1. ref'[u] = NoRef
      BY <1>3, <1>8, <1>1, <1>11, <1>12, Zenon DEF Held
    <2>2. pc'[u] \notin {"load", "cas"}
      BY <1>9, <2>1, Zenon DEF RefInv
    <2>3. pc'[u] = pc[u]
      BY <1>1, <1>12, Zenon DEF IInv, TypeOK
    <2> QED
      BY <1>2, <2>2, <2>3, Zenon DEF IInv, TypeOK
  <1>13. AssertionsHold'
    BY <1>1, <1>2, <1>11, Zenon DEF IInv, TypeOK, AssertionsHold
  <1>14. DestroyedLast'
    <2>1. CASE last[t] = 1
      BY <1>1, <1>2, <1>11, <1>12, <2>1, Zenon DEF IInv, TypeOK, DestroyedLast
    <2>2. CASE last[t] # 1
      BY <1>1, <1>2, <2>2, Zenon DEF IInv, TypeOK, DestroyedLast
    <2> QED
      BY <2>1, <2>2, Zenon
  <1> QED
    BY <1>5, <1>7, <1>9, <1>10, <1>13, <1>14, Zenon DEF IInv

LEMMA DestroyInv ==
    ASSUME IInv, NEW t \in Threads, Destroy(t)
    PROVE  IInv'
  <1> USE DEF Destroy, counts
  <1>1. TypeOK' /\ CountsAreExact' /\ AnchorInv'
    BY Zenon DEF IInv, TypeOK, CountsAreExact, AnchorInv
  <1>2. RefInv'
    BY Zenon DEF IInv, TypeOK, RefInv, Held
  <1>3. AssertionsHold' /\ DestroyedLast'
    BY DEF IInv, TypeOK, AssertionsHold, DestroyedLast, Held
  <1> QED
    BY <1>1, <1>2, <1>3, Zenon DEF IInv

LEMMA NextIInv == IInv /\ [Next]_vars => IInv'
  <1> SUFFICES ASSUME IInv, [Next]_vars PROVE IInv'
    BY Zenon
  <1>1. CASE UNCHANGED vars
    BY <1>1, Zenon DEF vars, counts, IInv, TypeOK, CountsAreExact, RefInv, AnchorInv,
      AssertionsHold, DestroyedLast, Held
  <1>2. ASSUME NEW t \in Threads, NEW r \in Refs, NEW f \in Retains, Retain(t, f, r)
        PROVE  IInv'
    BY <1>2, BeginInv, Zenon DEF Retain, Retains, Releases
  <1>3. ASSUME NEW t \in Threads, NEW r \in Refs, NEW f \in Releases, Release(t, f, r)
        PROVE  IInv'
    BY <1>3, BeginInv, Zenon DEF Release, Retains, Releases
  <1> QED
    BY <1>1, <1>2, <1>3, ReadInv, RetainInv, ReleaseExternalInv, ReleaseInternalInv,
      DestroyInv, Zenon DEF Next, Step

-------------------------------------------------------------------------------
\* The invariant of cl::base holds in every state, for any number of threads.
THEOREM RefInvariance == Spec => []IInv
  BY InitIInv, NextIInv, PTL DEF Spec

\* The two atomics of cl::base are the numbers of references.
THEOREM CountsExact == Spec => []CountsAreExact
  <1>1. IInv => CountsAreExact
    BY Zenon DEF IInv
  <1> QED
    BY <1>1, RefInvariance, PTL

\* releaseInternal and releaseExternal delete the object once, after everybody else
\* is done with it.
THEOREM DestroyedOnce == Spec => []DestroyedLast
  <1>1. IInv => DestroyedLast
    BY Zenon DEF IInv
  <1> QED
    BY <1>1, RefInvariance, PTL

\* The assertions in base.h never fail.
THEOREM AssertsHold == Spec => []AssertionsHold
  <1>1. IInv => AssertionsHold
    BY Zenon DEF IInv
  <1> QED
    BY <1>1, RefInvariance, PTL

\* retainExternal does not bring an object back that the application released.
THEOREM InvalidForGood == Spec => StaysInvalid
  <1>1. ASSUME IInv, [Next]_vars, refCountExternal = 0
        PROVE  refCountExternal' = 0
    <2>1. CASE \E t \in Threads : RetainExternal(t) \/ ReleaseExternal(t)
      BY <1>1, <2>1, Zenon DEF RetainExternal, ReleaseExternal, Exchange, Invalid, Matches,
        Count, External
    <2>2. CASE ~ \E t \in Threads : RetainExternal(t) \/ ReleaseExternal(t)
      BY <1>1, <2>2, Zenon DEF Next, vars, counts, Retain, Release, Begin, Step, Load, Refuse,
        Retry, RetainInternal, ReleaseInternal, Destroy
    <2> QED
      BY <2>1, <2>2, Zenon
  <1>2. IInv /\ [Next]_vars => [refCountExternal = 0 => refCountExternal' = 0]_vars
    BY <1>1, Zenon
  <1> QED
    BY <1>2, RefInvariance, PTL DEF Spec, StaysInvalid
===============================================================================
