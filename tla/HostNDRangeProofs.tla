-------------------------- MODULE HostNDRangeProofs ---------------------------
(***************************************************************************)
(* Proofs about HostNDRange, for every number of threads, groups, slices   *)
(* and places in the ring.  The labels and the order of the items in a     *)
(* stack matter only at its top, so the steps are first described by what  *)
(* they do to the set of a thread's calls; the conjuncts of IInv are then  *)
(* shown to survive each of those changes.                                 *)
(***************************************************************************)
EXTENDS HostNDRange, FiniteSetTheorems, TLAPS

-------------------------------------------------------------------------------
\* Sequences of calls

RangeOf(s) == {s[k] : k \in DOMAIN s}

\* Pushing a call on a stack that does not have its item.
LEMMA PushRange ==
    ASSUME NEW s \in Seq(Frames), NEW f \in Frames, Distinct(s),
           \A h \in RangeOf(s) : h.item # f.item
    PROVE  /\ <<f>> \o s \in Seq(Frames)
           /\ <<f>> \o s # << >>
           /\ Head(<<f>> \o s) = f
           /\ Distinct(<<f>> \o s)
           /\ RangeOf(<<f>> \o s) = RangeOf(s) \cup {f}
<1> DEFINE r == <<f>> \o s
<1>1. /\ <<f>> \in Seq(Frames) /\ Len(<<f>>) = 1 /\ <<f>>[1] = f
  OBVIOUS
<1>2. /\ r \in Seq(Frames) /\ Len(r) = 1 + Len(s)
      /\ \A i \in 1..(1 + Len(s)) : r[i] = IF i <= 1 THEN f ELSE s[i - 1]
  BY <1>1
<1>3. /\ Len(s) \in Nat /\ DOMAIN s = 1..Len(s) /\ DOMAIN r = 1..(1 + Len(s))
  BY <1>2
<1> HIDE DEF r
<1>4. r[1] = f /\ \A i \in DOMAIN s : i + 1 \in DOMAIN r /\ r[i + 1] = s[i]
  BY <1>2, <1>3
<1>5. \A i \in DOMAIN r : i # 1 => i - 1 \in DOMAIN s /\ r[i] = s[i - 1]
  BY <1>2, <1>3
<1>6. r # << >> /\ Head(r) = f
  BY <1>2, <1>3, <1>4
<1>7. Distinct(r)
  <2> SUFFICES ASSUME NEW i \in DOMAIN r, NEW j \in DOMAIN r, r[i].item = r[j].item
               PROVE  i = j
    BY DEF Distinct
  <2>1. CASE i = 1 /\ j = 1
    BY <2>1
  <2>2. CASE i = 1 /\ j # 1
    BY <2>2, <1>4, <1>5 DEF RangeOf
  <2>3. CASE i # 1 /\ j = 1
    BY <2>3, <1>4, <1>5 DEF RangeOf
  <2>4. CASE i # 1 /\ j # 1
    <3>1. i - 1 = j - 1
      BY <2>4, <1>5 DEF Distinct
    <3> QED BY <3>1, <1>3
  <2> QED BY <2>1, <2>2, <2>3, <2>4
<1>8. RangeOf(r) = RangeOf(s) \cup {f}
  <2>1. ASSUME NEW h \in RangeOf(r) PROVE h \in RangeOf(s) \cup {f}
    BY <1>4, <1>5 DEF RangeOf
  <2>2. ASSUME NEW h \in RangeOf(s) \cup {f} PROVE h \in RangeOf(r)
    BY <1>3, <1>4 DEF RangeOf
  <2> QED BY <2>1, <2>2, Zenon
<1> QED BY <1>2, <1>6, <1>7, <1>8 DEF r

\* The top of a stack, and the calls under it.
LEMMA PopRange ==
    ASSUME NEW s \in Seq(Frames), s # << >>, Distinct(s)
    PROVE  /\ Head(s) \in RangeOf(s) /\ Head(s) \in Frames
           /\ Tail(s) \in Seq(Frames)
           /\ Distinct(Tail(s))
           /\ RangeOf(Tail(s)) = RangeOf(s) \ {Head(s)}
<1> DEFINE r == Tail(s)
<1>1. /\ Len(s) \in Nat \ {0} /\ DOMAIN s = 1..Len(s) /\ Head(s) = s[1] /\ 1 \in DOMAIN s
  OBVIOUS
<1>2. /\ r \in Seq(Frames) /\ Len(r) = Len(s) - 1
      /\ \A i \in 1..Len(r) : r[i] = s[i + 1]
  OBVIOUS
<1>3. DOMAIN r = 1..(Len(s) - 1)
  BY <1>2
<1> HIDE DEF r
<1>4. \A i \in DOMAIN r : i + 1 \in DOMAIN s /\ i + 1 # 1 /\ r[i] = s[i + 1]
  BY <1>1, <1>2, <1>3
<1>5. \A i \in DOMAIN s : i # 1 => i - 1 \in DOMAIN r /\ r[i - 1] = s[i]
  BY <1>1, <1>2, <1>3
<1>6. Distinct(r)
  <2> SUFFICES ASSUME NEW i \in DOMAIN r, NEW j \in DOMAIN r, r[i].item = r[j].item
               PROVE  i = j
    BY DEF Distinct
  <2>1. i + 1 = j + 1
    BY <1>4 DEF Distinct
  <2> QED BY <2>1, <1>3, <1>1
<1>7. RangeOf(r) = RangeOf(s) \ {Head(s)}
  <2>1. ASSUME NEW i \in DOMAIN s, i # 1 PROVE s[i] # s[1]
    BY <2>1, <1>1 DEF Distinct
  <2>2. ASSUME NEW h \in RangeOf(r) PROVE h \in RangeOf(s) \ {Head(s)}
    BY <2>1, <1>1, <1>4 DEF RangeOf
  <2>3. ASSUME NEW h \in RangeOf(s) \ {Head(s)} PROVE h \in RangeOf(r)
    BY <1>1, <1>5 DEF RangeOf
  <2> QED BY <2>2, <2>3, Zenon
<1>8. Head(s) \in RangeOf(s) /\ Head(s) \in Frames
  BY <1>1 DEF RangeOf
<1> QED BY <1>2, <1>6, <1>7, <1>8 DEF r

\* Another call for the same item at the top.
LEMMA SwapRange ==
    ASSUME NEW s \in Seq(Frames), s # << >>, Distinct(s),
           NEW f \in Frames, f.item = Head(s).item
    PROVE  /\ [s EXCEPT ![1] = f] \in Seq(Frames)
           /\ [s EXCEPT ![1] = f] # << >>
           /\ Head([s EXCEPT ![1] = f]) = f
           /\ Distinct([s EXCEPT ![1] = f])
           /\ RangeOf([s EXCEPT ![1] = f]) = (RangeOf(s) \ {Head(s)}) \cup {f}
<1> DEFINE r == [s EXCEPT ![1] = f]
<1>1. /\ Len(s) \in Nat \ {0} /\ DOMAIN s = 1..Len(s) /\ Head(s) = s[1] /\ 1 \in DOMAIN s
  OBVIOUS
<1>2. /\ r \in Seq(Frames) /\ Len(r) = Len(s) /\ DOMAIN r = DOMAIN s
      /\ r[1] = f /\ \A i \in DOMAIN s : i # 1 => r[i] = s[i]
  BY <1>1
<1> HIDE DEF r
<1>3. r # << >> /\ Head(r) = f
  BY <1>1, <1>2
<1>4. Distinct(r)
  BY <1>1, <1>2 DEF Distinct
<1>5. RangeOf(r) = (RangeOf(s) \ {Head(s)}) \cup {f}
  <2>1. ASSUME NEW i \in DOMAIN s, i # 1 PROVE s[i] # s[1]
    BY <2>1, <1>1 DEF Distinct
  <2>2. ASSUME NEW h \in RangeOf(r) PROVE h \in (RangeOf(s) \ {Head(s)}) \cup {f}
    BY <2>1, <1>1, <1>2 DEF RangeOf
  <2>3. ASSUME NEW h \in (RangeOf(s) \ {Head(s)}) \cup {f} PROVE h \in RangeOf(r)
    BY <1>1, <1>2 DEF RangeOf
  <2> QED BY <2>2, <2>3, Zenon
<1> QED BY <1>2, <1>3, <1>4, <1>5 DEF r

-------------------------------------------------------------------------------
\* What a step does to the calls of thread t: the top one becomes f, f is called,
\* or the top one returns.

OthersKept(t) == \A u \in Threads \ {t} : Calls(u)' = Calls(u) /\ Top(u)' = Top(u)

Becomes(t, f) ==
    /\ f \in Frames /\ f.item = Top(t).item
    /\ Top(t)' = f
    /\ Calls(t)' = (Calls(t) \ {Top(t)}) \cup {f}
    /\ OthersKept(t)

Called(t, f) ==
    /\ f \in Frames
    /\ Top(t)' = f
    /\ Calls(t)' = Calls(t) \cup {f}
    /\ OthersKept(t)

Returned(t) ==
    /\ Calls(t)' = Calls(t) \ {Top(t)}
    /\ OthersKept(t)

StackType == stack \in [Threads -> Seq(Frames)]

LEMMA CallsAreFrames ==
    ASSUME TypeOK, NEW t \in Threads, NEW h \in Calls(t)
    PROVE  h \in Frames
BY DEF TypeOK, Calls

LEMMA TopIsACall ==
    ASSUME TypeOK, HeldOnce, NEW t \in Threads, stack[t] # << >>
    PROVE  Top(t) \in Calls(t) /\ Top(t) \in Frames
<1>1. stack[t] \in Seq(Frames) /\ Distinct(stack[t])
  BY DEF TypeOK, HeldOnce
<1> QED BY <1>1, PopRange, Zenon DEF Calls, Top, RangeOf

\* An item names one call.
LEMMA OneCall ==
    ASSUME TypeOK, HeldOnce, NEW t \in Threads, NEW u \in Threads,
           NEW f \in Calls(t), NEW h \in Calls(u), f.item = h.item
    PROVE  t = u /\ f = h
<1>1. t = u
  BY Zenon DEF HeldOnce
<1>2. Distinct(stack[t])
  BY DEF HeldOnce
<1> QED BY <1>1, <1>2, Zenon DEF Distinct, Calls

LEMMA SwapStep ==
    ASSUME TypeOK, HeldOnce, NEW t \in Threads, stack[t] # << >>,
           NEW f \in Frames, f.item = Top(t).item,
           stack' = [stack EXCEPT ![t] = [stack[t] EXCEPT ![1] = f]]
    PROVE  StackType' /\ HeldOnce' /\ Becomes(t, f)
<1>1. stack[t] \in Seq(Frames) /\ Distinct(stack[t]) /\ stack \in [Threads -> Seq(Frames)]
  BY DEF TypeOK, HeldOnce
<1>2. stack'[t] = [stack[t] EXCEPT ![1] = f] /\ \A u \in Threads \ {t} : stack'[u] = stack[u]
  BY <1>1
<1>3. /\ stack'[t] \in Seq(Frames) /\ Distinct(stack'[t])
      /\ Top(t)' = f /\ Calls(t)' = (Calls(t) \ {Top(t)}) \cup {f}
  <2> DEFINE r == [stack[t] EXCEPT ![1] = f]
  <2>1. /\ r \in Seq(Frames) /\ Head(r) = f /\ Distinct(r)
        /\ RangeOf(r) = (RangeOf(stack[t]) \ {Head(stack[t])}) \cup {f}
    BY <1>1, SwapRange, Zenon DEF Top
  <2>2. stack'[t] = r
    BY <1>2
  <2> HIDE DEF r
  <2> QED BY <2>1, <2>2, Zenon DEF Top, Calls, RangeOf
<1>4. StackType'
  BY <1>1, <1>3 DEF StackType
<1>5. OthersKept(t)
  BY <1>2 DEF OthersKept, Calls, Top
<1>6. \A u \in Threads : Distinct(stack'[u])
  BY <1>2, <1>3, Zenon DEF HeldOnce
<1>7. \A u \in Threads : \A h \in Calls(u)' : \E e \in Calls(u) : e.item = h.item
  BY <1>3, <1>5, TopIsACall, Zenon DEF OthersKept
<1>8. HeldOnce'
  <2>1. ASSUME NEW u \in Threads, NEW v \in Threads,
               NEW e \in Calls(u)', NEW h \in Calls(v)', e.item = h.item
        PROVE  u = v
    <3>1. PICK d \in Calls(u) : d.item = e.item
      BY <1>7, Zenon
    <3>2. PICK c \in Calls(v) : c.item = h.item
      BY <1>7, Zenon
    <3> QED BY <2>1, <3>1, <3>2, Zenon DEF HeldOnce
  <2> QED BY <2>1, <1>6, Zenon DEF HeldOnce
<1> QED BY <1>3, <1>4, <1>5, <1>8, Zenon DEF Becomes

LEMMA GotoStep ==
    ASSUME TypeOK, HeldOnce, NEW t \in Threads, stack[t] # << >>,
           NEW label \in Labels, Goto(t, label)
    PROVE  /\ StackType' /\ HeldOnce'
           /\ \E f \in Frames : /\ Becomes(t, f)
                                /\ f.next = Top(t).next /\ f.at = label
<1>1. stack \in [Threads -> Seq(Frames)] /\ Top(t) \in Frames
  BY TopIsACall, Zenon DEF TypeOK
<1> DEFINE f == [Top(t) EXCEPT !.at = label]
<1>2. f \in Frames /\ f.item = Top(t).item /\ f.next = Top(t).next /\ f.at = label
  BY <1>1 DEF Frames
<1>3. stack[t][1] = Top(t)
  BY <1>1 DEF Top
<1>4. stack' = [stack EXCEPT ![t] = [stack[t] EXCEPT ![1] = f]]
  BY <1>1, <1>3 DEF Goto
<1> HIDE DEF f
<1> QED BY <1>2, <1>4, SwapStep, Zenon

LEMMA PopStep ==
    ASSUME TypeOK, HeldOnce, NEW t \in Threads, stack[t] # << >>, Pop(t)
    PROVE  StackType' /\ HeldOnce' /\ Returned(t)
<1>1. stack[t] \in Seq(Frames) /\ Distinct(stack[t]) /\ stack \in [Threads -> Seq(Frames)]
  BY DEF TypeOK, HeldOnce
<1>2. stack'[t] = Tail(stack[t]) /\ \A u \in Threads \ {t} : stack'[u] = stack[u]
  BY <1>1 DEF Pop
<1>3. /\ stack'[t] \in Seq(Frames) /\ Distinct(stack'[t])
      /\ Calls(t)' = Calls(t) \ {Top(t)}
  <2>1. /\ Tail(stack[t]) \in Seq(Frames) /\ Distinct(Tail(stack[t]))
        /\ RangeOf(Tail(stack[t])) = RangeOf(stack[t]) \ {Head(stack[t])}
    BY <1>1, PopRange, Zenon
  <2> QED BY <1>2, <2>1, Zenon DEF Top, Calls, RangeOf
<1>4. StackType'
  BY <1>1, <1>3 DEF StackType, Pop
<1>5. OthersKept(t)
  BY <1>2, Zenon DEF OthersKept, Calls, Top
<1>6. \A u \in Threads : Distinct(stack'[u]) /\ Calls(u)' \subseteq Calls(u)
  BY <1>2, <1>3, <1>5, Zenon DEF HeldOnce, OthersKept
<1>7. HeldOnce'
  BY <1>6, Zenon DEF HeldOnce
<1> QED BY <1>3, <1>4, <1>5, <1>7, Zenon DEF Returned

LEMMA PushStep ==
    ASSUME TypeOK, HeldOnce, NEW t \in Threads, NEW f \in Frames, Push(t, f),
           \A u \in Threads : \A h \in Calls(u) : h.item # f.item
    PROVE  StackType' /\ HeldOnce' /\ Called(t, f)
<1>1. stack[t] \in Seq(Frames) /\ Distinct(stack[t]) /\ stack \in [Threads -> Seq(Frames)]
  BY DEF TypeOK, HeldOnce
<1>2. stack'[t] = <<f>> \o stack[t] /\ \A u \in Threads \ {t} : stack'[u] = stack[u]
  BY <1>1 DEF Push
<1>3. \A h \in RangeOf(stack[t]) : h.item # f.item
  BY Zenon DEF RangeOf, Calls
<1>4. /\ stack'[t] \in Seq(Frames) /\ Distinct(stack'[t])
      /\ Top(t)' = f /\ Calls(t)' = Calls(t) \cup {f}
  <2> DEFINE r == <<f>> \o stack[t]
  <2>1. /\ r \in Seq(Frames) /\ Head(r) = f /\ Distinct(r)
        /\ RangeOf(r) = RangeOf(stack[t]) \cup {f}
    BY <1>1, <1>3, PushRange, Zenon
  <2>2. stack'[t] = r
    BY <1>2
  <2> HIDE DEF r
  <2> QED BY <2>1, <2>2, Zenon DEF Top, Calls, RangeOf
<1>5. StackType'
  BY <1>1, <1>2, <1>4 DEF StackType, Push
<1>6. OthersKept(t)
  BY <1>2, Zenon DEF OthersKept, Calls, Top
<1>7. \A u \in Threads : Distinct(stack'[u])
  BY <1>2, <1>4, Zenon DEF HeldOnce
<1>8. HeldOnce'
  <2>1. ASSUME NEW u \in Threads, NEW v \in Threads,
               NEW e \in Calls(u)', NEW h \in Calls(v)', e.item = h.item
        PROVE  u = v
    <3>1. /\ e \in Calls(u) \/ (u = t /\ e = f)
          /\ h \in Calls(v) \/ (v = t /\ h = f)
      BY <1>4, <1>6, Zenon DEF OthersKept
    <3> QED BY <2>1, <3>1, Zenon DEF HeldOnce
  <2> QED BY <2>1, <1>7, Zenon DEF HeldOnce
<1> QED BY <1>4, <1>5, <1>6, <1>8, Zenon DEF Called

-------------------------------------------------------------------------------
\* Where the items are, after a swap, a call and a return

LEMMA HeldAtTop ==
    ASSUME TypeOK, HeldOnce, NEW t \in Threads, stack[t] # << >>, NEW labels
    PROVE  Held(Top(t).item, labels) <=> Top(t).at \in labels
BY TopIsACall, OneCall, Zenon DEF Held

\* The calls after a swap: f, and calls for other items.
LEMMA SwappedCall ==
    ASSUME TypeOK, HeldOnce, NEW t \in Threads, stack[t] # << >>, NEW f, Becomes(t, f),
           NEW u \in Threads, NEW h
    PROVE  h \in Calls(u)' <=> (u = t /\ h = f) \/ (h \in Calls(u) /\ h.item # f.item)
<1>1. Top(t) \in Calls(t) /\ f.item = Top(t).item
  BY TopIsACall, Zenon DEF Becomes
<1>2. h \in Calls(u) => (h.item = f.item <=> u = t /\ h = Top(t))
  BY <1>1, OneCall, Zenon
<1>3. CASE u = t
  BY <1>1, <1>2, <1>3, Zenon DEF Becomes
<1>4. CASE u # t
  BY <1>1, <1>2, <1>4, Zenon DEF Becomes, OthersKept
<1> QED BY <1>3, <1>4, Zenon

LEMMA HeldSwapped ==
    ASSUME TypeOK, HeldOnce, NEW t \in Threads, stack[t] # << >>, NEW f, Becomes(t, f),
           NEW x, NEW labels
    PROVE  Held(x, labels)' <=>
               (x = f.item /\ f.at \in labels) \/ (x # f.item /\ Held(x, labels))
BY SwappedCall, Zenon DEF Held

LEMMA CalledCall ==
    ASSUME NEW t \in Threads, NEW f, Called(t, f), NEW u \in Threads, NEW h
    PROVE  h \in Calls(u)' <=> (u = t /\ h = f) \/ h \in Calls(u)
<1>1. CASE u = t
  BY <1>1, Zenon DEF Called
<1>2. CASE u # t
  BY <1>2, Zenon DEF Called, OthersKept
<1> QED BY <1>1, <1>2, Zenon

LEMMA HeldCalled ==
    ASSUME NEW t \in Threads, NEW f, Called(t, f), NEW x, NEW labels
    PROVE  Held(x, labels)' <=> (x = f.item /\ f.at \in labels) \/ Held(x, labels)
BY CalledCall, Zenon DEF Held

LEMMA ReturnedCall ==
    ASSUME TypeOK, HeldOnce, NEW t \in Threads, stack[t] # << >>, Returned(t),
           NEW u \in Threads, NEW h
    PROVE  h \in Calls(u)' <=> h \in Calls(u) /\ h.item # Top(t).item
<1>1. Top(t) \in Calls(t)
  BY TopIsACall, Zenon
<1>2. h \in Calls(u) => (h.item = Top(t).item <=> u = t /\ h = Top(t))
  BY <1>1, OneCall, Zenon
<1>3. CASE u = t
  BY <1>1, <1>2, <1>3, Zenon DEF Returned
<1>4. CASE u # t
  BY <1>1, <1>2, <1>4, Zenon DEF Returned, OthersKept
<1> QED BY <1>3, <1>4, Zenon

LEMMA HeldReturned ==
    ASSUME TypeOK, HeldOnce, NEW t \in Threads, stack[t] # << >>, Returned(t),
           NEW x, NEW labels
    PROVE  Held(x, labels)' <=> x # Top(t).item /\ Held(x, labels)
BY ReturnedCall, Zenon DEF Held

-------------------------------------------------------------------------------
\* The ring

LEMMA AppendRing ==
    ASSUME TypeOK, NEW x \in Items, pending' = Append(pending, x)
    PROVE  /\ pending' \in Seq(Items) /\ Ring' = Ring \cup {x}
           /\ x \notin Ring /\ (\A i, j \in DOMAIN pending : pending[i] = pending[j] => i = j)
                => \A i, j \in DOMAIN pending' : pending'[i] = pending'[j] => i = j
<1>1. pending \in Seq(Items) /\ Len(pending) \in Nat /\ DOMAIN pending = 1..Len(pending)
  BY DEF TypeOK
<1>2. /\ pending' \in Seq(Items) /\ DOMAIN pending' = 1..(Len(pending) + 1)
      /\ pending'[Len(pending) + 1] = x
      /\ \A i \in DOMAIN pending : pending'[i] = pending[i]
  BY <1>1
<1>3. \A i \in DOMAIN pending' : i = Len(pending) + 1 \/ i \in DOMAIN pending
  BY <1>1, <1>2
<1>4. Len(pending) + 1 \in DOMAIN pending' /\ DOMAIN pending \subseteq DOMAIN pending'
  BY <1>1, <1>2
<1>5. Ring' = Ring \cup {x}
  <2>1. ASSUME NEW y \in Ring' PROVE y \in Ring \cup {x}
    BY <1>2, <1>3, Zenon DEF Ring
  <2>2. x \in Ring'
    BY <1>2, <1>4, Zenon DEF Ring
  <2>3. ASSUME NEW y \in Ring PROVE y \in Ring'
    BY <1>2, <1>4, Zenon DEF Ring
  <2> QED BY <2>1, <2>2, <2>3, Zenon
<1>6. ASSUME x \notin Ring, \A i, j \in DOMAIN pending : pending[i] = pending[j] => i = j,
             NEW i \in DOMAIN pending', NEW j \in DOMAIN pending', pending'[i] = pending'[j]
      PROVE  i = j
  <2>1. CASE i \in DOMAIN pending /\ j \in DOMAIN pending
    BY <1>2, <1>6, <2>1, Zenon
  <2>2. CASE i = Len(pending) + 1 /\ j = Len(pending) + 1
    BY <2>2, Zenon
  <2>3. ASSUME NEW k \in DOMAIN pending PROVE pending'[k] # x
    BY <1>2, <1>6, <2>3, Zenon DEF Ring
  <2> QED BY <1>2, <1>3, <1>6, <2>1, <2>2, <2>3, Zenon
<1> QED BY <1>2, <1>5, <1>6, Zenon

LEMMA TailRing ==
    ASSUME TypeOK, RingOnce, pending # << >>, pending' = Tail(pending)
    PROVE  /\ pending' \in Seq(Items) /\ Head(pending) \in Ring
           /\ Head(pending) \in Items
           /\ Ring' = Ring \ {Head(pending)}
           /\ \A i, j \in DOMAIN pending' : pending'[i] = pending'[j] => i = j
<1>1. /\ pending \in Seq(Items) /\ Len(pending) \in Nat \ {0} /\ DOMAIN pending = 1..Len(pending)
      /\ Head(pending) = pending[1] /\ 1 \in DOMAIN pending
  BY DEF TypeOK
<1>2. /\ pending' \in Seq(Items) /\ DOMAIN pending' = 1..(Len(pending) - 1)
      /\ \A i \in DOMAIN pending' : pending'[i] = pending[i + 1]
  BY <1>1
<1>3. \A i \in DOMAIN pending' : i + 1 \in DOMAIN pending /\ i + 1 # 1
  BY <1>1, <1>2
<1>4. \A i \in DOMAIN pending : i # 1 => i - 1 \in DOMAIN pending' /\ pending'[i - 1] = pending[i]
  BY <1>1, <1>2
<1>5. \A i, j \in DOMAIN pending : pending[i] = pending[j] => i = j
  BY DEF RingOnce
<1>6. Ring' = Ring \ {Head(pending)}
  <2>1. ASSUME NEW x \in Ring' PROVE x \in Ring \ {Head(pending)}
    BY <1>1, <1>2, <1>3, <1>5 DEF Ring
  <2>2. ASSUME NEW x \in Ring \ {Head(pending)} PROVE x \in Ring'
    <3>1. PICK i \in DOMAIN pending : x = pending[i]
      BY Zenon DEF Ring
    <3>2. i - 1 \in DOMAIN pending' /\ pending'[i - 1] = x
      BY <1>1, <1>4, <3>1
    <3> QED BY <3>2, Zenon DEF Ring
  <2> QED BY <2>1, <2>2, Zenon
<1>7. ASSUME NEW i \in DOMAIN pending', NEW j \in DOMAIN pending', pending'[i] = pending'[j]
      PROVE  i = j
  <2>1. i + 1 = j + 1
    BY <1>2, <1>3, <1>5, <1>7, Zenon
  <2> QED BY <2>1, <1>2
<1>8. Head(pending) \in Ring /\ Head(pending) \in Items
  BY <1>1 DEF Ring
<1> QED BY <1>2, <1>6, <1>7, <1>8, Zenon

-------------------------------------------------------------------------------
\* Steps of thread t that leave the ring and change only its top call, to f

Swaps(t, f) ==
    /\ TypeOK /\ HeldOnce /\ RingOnce
    /\ stack[t] # << >> /\ Becomes(t, f) /\ pending' = pending

LEMMA AwaitsSwapped ==
    ASSUME NEW t \in Threads, NEW f, Swaps(t, f), NEW x, NEW labels
    PROVE  /\ Awaits(x, labels)' <=>
                  (x = f.item /\ f.at \in labels) \/ (x # f.item /\ Awaits(x, labels))
           /\ Awaits(f.item, labels) <=> Top(t).at \in labels
<1>1. Ring' = Ring /\ f.item = Top(t).item /\ f.item \notin Ring
  BY TopIsACall, Zenon DEF Swaps, Ring, Becomes, RingOnce
<1>2. Held(x, labels)' <=>
          (x = f.item /\ f.at \in labels) \/ (x # f.item /\ Held(x, labels))
  BY HeldSwapped, Zenon DEF Swaps
<1>3. Held(f.item, labels) <=> Top(t).at \in labels
  BY <1>1, HeldAtTop, Zenon DEF Swaps
<1> QED BY <1>1, <1>2, <1>3, Zenon DEF Awaits

LEMMA RingOnceSwapped ==
    ASSUME NEW t \in Threads, NEW f, Swaps(t, f)
    PROVE  RingOnce'
<1>1. Ring' = Ring /\ pending' = pending
  BY Zenon DEF Ring, Swaps
<1>2. Top(t) \in Calls(t) /\ f.item = Top(t).item
  BY TopIsACall, Zenon DEF Swaps, Becomes
<1>3. ASSUME NEW u \in Threads, NEW h \in Calls(u)' PROVE h.item \notin Ring
  BY <1>2, SwappedCall, Zenon DEF Swaps, RingOnce
<1> QED BY <1>1, <1>3, Zenon DEF RingOnce, Swaps

\* A call under the top is in the help loop, and stays there.
LEMMA OtherCall ==
    ASSUME NEW t \in Threads, NEW f, Swaps(t, f), PlacesInv,
           NEW u \in Threads, NEW h \in Calls(u)', ~(u = t /\ h = f)
    PROVE  /\ h \in Calls(u) /\ h \in Frames /\ h.item # f.item
           /\ CallOK(u, h)
           /\ h.at # "help" => h = Top(u)'
<1>1. h \in Calls(u) /\ h.item # f.item
  BY SwappedCall, Zenon DEF Swaps
<1>2. CallOK(u, h) /\ f.item = Top(t).item
  BY <1>1, Zenon DEF PlacesInv, Swaps, Becomes
<1>3. h.at # "help" => h = Top(u) /\ u # t
  BY <1>1, <1>2, Zenon DEF CallOK
<1>4. h.at # "help" => h = Top(u)'
  BY <1>3, Zenon DEF Swaps, Becomes, OthersKept
<1> QED BY <1>1, <1>2, <1>4, CallsAreFrames, Zenon DEF Swaps

LEMMA PlacesSwapped ==
    ASSUME NEW t \in Threads, NEW f, Swaps(t, f), PlacesInv,
           live' = live, phase' = phase, CallOK(t, f)',
           \A u \in Threads : \A h \in Calls(u) :
               h.at \in {"test_zero", "full_relock"} /\ h.item # f.item => waitMutex' = u
    PROVE  PlacesInv'
<1>1. ASSUME NEW u \in Threads, NEW h \in Calls(u)' PROVE CallOK(u, h)'
  <2>1. CASE u = t /\ h = f
    BY <2>1, Zenon
  <2>2. CASE ~(u = t /\ h = f)
    <3>1. /\ h \in Calls(u) /\ h.item # f.item /\ CallOK(u, h)
          /\ h.at # "help" => h = Top(u)'
      BY <2>2, OtherCall, Zenon
    <3>2. h.at \in {"test_zero", "full_relock"} => waitMutex' = u
      BY <3>1, Zenon
    <3> QED BY <3>1, <3>2, Zenon DEF CallOK, StoreLabels
  <2> QED BY <2>1, <2>2, Zenon
<1>2. \A x \in Ring' : QueuedOK(x)'
  BY Zenon DEF PlacesInv, QueuedOK, Swaps, Ring
<1>3. \A g \in Groups : live'[g] => phase'[g] = "submitted"
  BY Zenon DEF PlacesInv
<1> QED BY <1>1, <1>2, <1>3, Zenon DEF PlacesInv

LEMMA NextSwapped ==
    ASSUME NEW t \in Threads, NEW f, Swaps(t, f), NextInv,
           f.at \in LiveLabels => Top(t).at \in LiveLabels /\ f.next = Top(t).next,
           \A g \in Groups : Unstarted(g)' => Unstarted(g)
    PROVE  NextInv'
<1>1. f.at \in Labels /\ Top(t).at \in Labels /\ Top(t) \in Calls(t) /\ f.item = Top(t).item
  BY TopIsACall, Zenon DEF Swaps, Becomes, Frames
<1>2. ASSUME NEW x PROVE Awaits(x, Labels)' <=> Awaits(x, Labels)
  BY <1>1, AwaitsSwapped, Zenon
<1>3. ASSUME NEW u \in Threads, NEW h \in Calls(u)', h.at \in LiveLabels,
             NEW k \in 1..Slices, Awaits(<<h.item[1], k>>, Labels)'
      PROVE  k < h.next
  <2>1. Awaits(<<h.item[1], k>>, Labels)
    BY <1>2, <1>3, Zenon
  <2>2. CASE u = t /\ h = f
    BY <1>1, <1>3, <2>1, <2>2, Zenon DEF NextInv
  <2>3. CASE h \in Calls(u)
    BY <1>3, <2>1, <2>3, Zenon DEF NextInv
  <2> QED BY <2>2, <2>3, SwappedCall, Zenon DEF Swaps
<1> QED BY <1>2, <1>3, Zenon DEF NextInv

\* A group that the swapped call does not belong to.
LEMMA CountOther ==
    ASSUME NEW t \in Threads, NEW f, Swaps(t, f), CountInv,
           NEW g \in Groups, g # f.item[1], queued'[g] = queued[g], live'[g] = live[g],
           live'[g]
    PROVE  queued'[g] = Cardinality(Open(g))' + (IF Held(<<g, 0>>, StoreLabels) THEN 1 ELSE 0)'
<1>1. \A k : <<g, k>> # f.item
  OBVIOUS
<1>2. \A k : Awaits(<<g, k>>, {"run", "count_down"})' <=> Awaits(<<g, k>>, {"run", "count_down"})
  BY <1>1, AwaitsSwapped, Zenon
<1>3. Open(g)' = Open(g)
  BY <1>2, Zenon DEF Open
<1>4. Held(<<g, 0>>, StoreLabels)' <=> Held(<<g, 0>>, StoreLabels)
  BY <1>1, HeldSwapped, Zenon DEF Swaps
<1> QED BY <1>3, <1>4 DEF CountInv

LEMMA CountSwapped ==
    ASSUME NEW t \in Threads, NEW f, Swaps(t, f), CountInv,
           queued' = queued, live' = live,
           f.at \in {"run", "count_down"} <=> Top(t).at \in {"run", "count_down"},
           f.at \in StoreLabels <=> Top(t).at \in StoreLabels
    PROVE  CountInv'
<1> SUFFICES ASSUME NEW g \in Groups, live'[g]
             PROVE  queued'[g] = Cardinality(Open(g))'
                                   + (IF Held(<<g, 0>>, StoreLabels) THEN 1 ELSE 0)'
  BY Zenon DEF CountInv
<1>1. ASSUME NEW x
      PROVE  Awaits(x, {"run", "count_down"})' <=> Awaits(x, {"run", "count_down"})
  <2>1. /\ Awaits(x, {"run", "count_down"})' <=>
              \/ x = f.item /\ f.at \in {"run", "count_down"}
              \/ x # f.item /\ Awaits(x, {"run", "count_down"})
        /\ Awaits(f.item, {"run", "count_down"}) <=> Top(t).at \in {"run", "count_down"}
    BY AwaitsSwapped, Zenon
  <2>2. CASE x = f.item
    BY <2>1, <2>2, Zenon
  <2>3. CASE x # f.item
    BY <2>1, <2>3, Zenon
  <2> QED BY <2>2, <2>3, Zenon
<1>2. Open(g)' = Open(g)
  BY <1>1, Zenon DEF Open
<1>3. Held(<<g, 0>>, StoreLabels)' <=> Held(<<g, 0>>, StoreLabels)
  <2>1. f.item = Top(t).item
    BY Zenon DEF Swaps, Becomes
  <2>2. Held(f.item, StoreLabels) <=> f.at \in StoreLabels
    BY <2>1, HeldAtTop, Zenon DEF Swaps
  <2> QED BY <2>2, HeldSwapped, Zenon DEF Swaps
<1> QED BY <1>2, <1>3 DEF CountInv

LEMMA RanSwapped ==
    ASSUME NEW t \in Threads, NEW f, Swaps(t, f), RanInv, ran' = ran,
           f.at \in LiveLabels => Top(t).at \in LiveLabels /\ f.next = Top(t).next,
           f.at = "run" <=> Top(t).at = "run",
           \A g \in Groups : Unstarted(g)' => Unstarted(g)
    PROVE  RanInv'
<1>1. Top(t) \in Calls(t) /\ f.item = Top(t).item
  BY TopIsACall, Zenon DEF Swaps, Becomes
<1>2. ASSUME NEW x PROVE Awaits(x, {"run"})' <=> Awaits(x, {"run"})
  BY AwaitsSwapped, Zenon
<1>3. ASSUME NEW u \in Threads, NEW h \in Calls(u)', h.at \in LiveLabels, NEW k \in 1..Slices
      PROVE  ran'[<<h.item[1], k>>] =
                 IF k < h.next /\ ~Awaits(<<h.item[1], k>>, {"run"})' THEN 1 ELSE 0
  <2>1. ran[<<h.item[1], k>>] =
            IF k < h.next /\ ~Awaits(<<h.item[1], k>>, {"run"}) THEN 1 ELSE 0
    <3>1. CASE u = t /\ h = f
      <4>1. Top(t).at \in LiveLabels /\ h.next = Top(t).next /\ h.item = Top(t).item
        BY <1>1, <1>3, <3>1, Zenon
      <4>2. ran[<<Top(t).item[1], k>>] =
                IF k < Top(t).next /\ ~Awaits(<<Top(t).item[1], k>>, {"run"}) THEN 1 ELSE 0
        BY <1>1, <4>1, Zenon DEF RanInv
      <4> QED BY <4>1, <4>2, Zenon
    <3>2. CASE h \in Calls(u)
      BY <1>3, <3>2, Zenon DEF RanInv
    <3> QED BY <3>1, <3>2, SwappedCall, Zenon DEF Swaps
  <2> QED BY <1>2, <2>1, Zenon
<1> QED BY <1>2, <1>3, Zenon DEF RanInv

LEMMA OpenIsFinite ==
    ASSUME NEW g
    PROVE  IsFiniteSet(Open(g)) /\ Cardinality(Open(g)) \in Nat
<1>1. IsFiniteSet(1..Slices) /\ Open(g) \subseteq 1..Slices
  BY FS_Interval, NDRangeAssumption DEF Open
<1> QED BY <1>1, FS_Subset, FS_CardinalityType, Zenon

-------------------------------------------------------------------------------
\* The steps, one by one

\* The call that runs.
LEMMA TopFacts ==
    ASSUME IInv, NEW t \in Threads, stack[t] # << >>
    PROVE  /\ Top(t) \in Calls(t) /\ Top(t) \in Frames /\ CallOK(t, Top(t))
           /\ Top(t).item \in Items /\ Group(t) \in Groups
           /\ Top(t).item[2] \in 0..Slices
           /\ Top(t).item = <<Group(t), Top(t).item[2]>>
           /\ Top(t).next \in 1..(Slices + 1)
<1>1. Top(t) \in Calls(t) /\ Top(t) \in Frames
  BY TopIsACall, Zenon DEF IInv
<1>2. CallOK(t, Top(t))
  BY <1>1, Zenon DEF IInv, PlacesInv
<1>3. Top(t).item \in Items /\ Top(t).next \in 1..(Slices + 1)
  BY <1>1, Zenon DEF Frames
<1> QED BY <1>1, <1>2, <1>3 DEF Items, Group

LEMMA GotoSwaps ==
    ASSUME IInv, NEW t \in Threads, stack[t] # << >>, NEW label \in Labels,
           Goto(t, label), pending' = pending
    PROVE  /\ StackType' /\ HeldOnce'
           /\ \E f \in Frames : /\ Swaps(t, f) /\ Becomes(t, f) /\ f.item = Top(t).item
                                /\ f.next = Top(t).next /\ f.at = label
<1>1. /\ StackType' /\ HeldOnce'
      /\ \E f \in Frames : Becomes(t, f) /\ f.next = Top(t).next /\ f.at = label
  BY GotoStep, Zenon DEF IInv
<1> QED BY <1>1, Zenon DEF IInv, Swaps, Becomes

\* A step that moves the top call between labels that no conjunct but CallOK
\* tells apart, and changes nothing else.
LEMMA WaitKeeps ==
    ASSUME IInv, NEW t \in Threads, stack[t] # << >>,
           NEW label \in {"first_wait", "second_wait"},
           Top(t).at \in {"help", "first_wait"}, Goto(t, label),
           UNCHANGED <<pending, waitMutex, queued, live, ran, phase>>
    PROVE  IInv'
<1>1. label \in Labels /\ label \in LiveLabels /\ Top(t).at \in LiveLabels
  BY Zenon DEF Labels, GroupLabels, StoreLabels, LiveLabels
<1>2. StackType' /\ HeldOnce'
  BY <1>1, GotoSwaps, Zenon
<1>3. PICK f \in Frames : /\ Swaps(t, f) /\ Becomes(t, f) /\ f.item = Top(t).item
                          /\ f.next = Top(t).next /\ f.at = label
  BY <1>1, GotoSwaps, Zenon
<1>4. CallOK(t, Top(t))
  BY TopFacts, Zenon
<1>5. CallOK(t, f)'
  <2>1. f = Top(t)'
    BY <1>3, Zenon DEF Becomes
  <2>2. Top(t).at # "variant" /\ Top(t).at \in GroupLabels /\ f.at \in GroupLabels
    BY <1>3, Zenon DEF GroupLabels, StoreLabels
  <2>3. f.at \notin {"test_zero", "variant", "end", "count_up", "store", "full_wait", "full_relock"}
    BY <1>3, Zenon
  <2>4. live[f.item[1]] /\ f.next = Slices + 1 /\ f.item[2] = 0 /\ phase[f.item[1]] # "new"
    BY <1>1, <1>3, <1>4, <2>2, Zenon DEF CallOK
  <2> QED BY <2>1, <2>2, <2>3, <2>4, Zenon DEF CallOK, StoreLabels
<1>6. \A u \in Threads : \A h \in Calls(u) : h.at \in {"test_zero", "full_relock"} => waitMutex' = u
  BY Zenon DEF IInv, PlacesInv, CallOK
<1>7. \A g \in Groups : Unstarted(g)' => Unstarted(g)
  BY Zenon DEF Unstarted
<1>8. TypeOK'
  BY <1>2 DEF IInv, TypeOK, StackType
<1>9. RingOnce'
  BY <1>3, RingOnceSwapped, Zenon
<1>10. PlacesInv'
  BY <1>3, <1>5, <1>6, PlacesSwapped, Zenon DEF IInv
<1>11. NextInv'
  BY <1>1, <1>3, <1>7, NextSwapped, Zenon DEF IInv
<1>12. CountInv'
  <2>1. /\ f.at \notin {"run", "count_down"} \cup StoreLabels
        /\ Top(t).at \notin {"run", "count_down"} \cup StoreLabels
    BY <1>3, Zenon DEF StoreLabels
  <2> QED BY <1>3, <2>1, CountSwapped, Zenon DEF IInv
<1>13. RanInv'
  <2>1. f.at # "run" /\ Top(t).at # "run"
    BY <1>3, Zenon
  <2> QED BY <1>1, <1>3, <1>7, <2>1, RanSwapped, Zenon DEF IInv
<1>14. NDRangeIsWhole'
  BY Zenon DEF IInv, NDRangeIsWhole
<1> QED BY <1>2, <1>8, <1>9, <1>10, <1>11, <1>12, <1>13, <1>14, Zenon DEF IInv

LEMMA HelpEndsKeeps ==
    ASSUME IInv, NEW t \in Threads, HelpEnds(t)
    PROVE  IInv'
BY WaitKeeps, Zenon DEF HelpEnds, At, ringVars

LEMMA FirstWaitKeeps ==
    ASSUME IInv, NEW t \in Threads, FirstWait(t)
    PROVE  IInv'
BY WaitKeeps, Zenon DEF FirstWait, At, ringVars

LEMMA CountSliceKeeps ==
    ASSUME IInv, NEW t \in Threads, CountSlice(t)
    PROVE  IInv'
<1>1. /\ stack[t] # << >> /\ Top(t).at = "count_up" /\ Goto(t, "store")
      /\ queued' = [queued EXCEPT ![Group(t)] = @ + 1]
      /\ UNCHANGED <<pending, waitMutex, live, ran, phase>>
  BY Zenon DEF CountSlice, At
<1>2. "store" \in Labels /\ "store" \in LiveLabels /\ "count_up" \in LiveLabels
  BY Zenon DEF Labels, GroupLabels, StoreLabels, LiveLabels
<1>3. StackType' /\ HeldOnce'
  BY <1>1, <1>2, GotoSwaps, Zenon
<1>4. PICK f \in Frames : /\ Swaps(t, f) /\ Becomes(t, f) /\ f.item = Top(t).item
                          /\ f.next = Top(t).next /\ f.at = "store"
  BY <1>1, <1>2, GotoSwaps, Zenon
<1>5. CallOK(t, Top(t)) /\ Group(t) \in Groups /\ Top(t).item = <<Group(t), Top(t).item[2]>>
  BY <1>1, TopFacts, Zenon
<1>6. Top(t).item = <<Group(t), 0>> /\ live[Group(t)] /\ f.item[1] = Group(t)
  <2>1. Top(t).item[2] = 0
    BY <1>1, <1>5, Zenon DEF CallOK, GroupLabels, StoreLabels
  <2> QED BY <1>1, <1>2, <1>4, <1>5, <2>1, Zenon DEF CallOK, Group
<1>7. CallOK(t, f)'
  <2>1. f = Top(t)'
    BY <1>4, Zenon DEF Becomes
  <2>2. f.at \in GroupLabels /\ Top(t).at \in GroupLabels
    BY <1>1, <1>4, Zenon DEF GroupLabels, StoreLabels
  <2>3. f.next <= Slices /\ f.item[2] = 0 /\ phase[f.item[1]] # "new"
    BY <1>1, <1>4, <1>5, <2>2, Zenon DEF CallOK
  <2>4. f.at \notin {"test_zero", "full_relock", "variant", "end", "help", "first_wait", "second_wait"}
    BY <1>4, Zenon
  <2> QED BY <1>1, <1>6, <2>1, <2>2, <2>3, <2>4, Zenon DEF CallOK, StoreLabels
<1>8. \A u \in Threads : \A h \in Calls(u) : h.at \in {"test_zero", "full_relock"} => waitMutex' = u
  BY <1>1, Zenon DEF IInv, PlacesInv, CallOK
<1>9. \A g \in Groups : Unstarted(g)' => Unstarted(g)
  BY <1>1, Zenon DEF Unstarted
<1>10. TypeOK'
  BY <1>1, <1>3, <1>5 DEF IInv, TypeOK, StackType
<1>11. PlacesInv'
  BY <1>1, <1>4, <1>7, <1>8, PlacesSwapped, Zenon DEF IInv
<1>12. NextInv'
  BY <1>1, <1>2, <1>4, <1>9, NextSwapped, Zenon DEF IInv
<1>13. RanInv'
  <2>1. f.at # "run" /\ Top(t).at # "run"
    BY <1>1, <1>4, Zenon
  <2> QED BY <1>1, <1>2, <1>4, <1>9, <2>1, RanSwapped, Zenon DEF IInv
<1>14. CountInv'
  <2> SUFFICES ASSUME NEW g \in Groups, live'[g]
               PROVE  queued'[g] = Cardinality(Open(g))'
                                     + (IF Held(<<g, 0>>, StoreLabels) THEN 1 ELSE 0)'
    BY Zenon DEF CountInv
  <2>1. CASE g # Group(t)
    <3>1. queued'[g] = queued[g] /\ live'[g] = live[g]
      BY <1>1, <1>5, <2>1 DEF IInv, TypeOK
    <3> QED BY <1>4, <1>6, <2>1, <3>1, CountOther, Zenon DEF IInv
  <2>2. CASE g = Group(t)
    <3>1. \A k \in 1..Slices : <<g, k>> # f.item
      BY <1>4, <1>6, <2>2
    <3>2. Open(g)' = Open(g)
      BY <1>4, <3>1, AwaitsSwapped, Zenon DEF Open
    <3>3. Held(<<g, 0>>, StoreLabels)' /\ ~Held(<<g, 0>>, StoreLabels)
      <4>1. <<g, 0>> = f.item /\ <<g, 0>> = Top(t).item
        BY <1>4, <1>6, <2>2, Zenon
      <4>2. Held(<<g, 0>>, StoreLabels)'
        BY <1>1, <1>4, <4>1, HeldSwapped, Zenon DEF Swaps, StoreLabels
      <4>3. ~Held(<<g, 0>>, StoreLabels)
        BY <1>1, <1>4, <4>1, HeldAtTop, Zenon DEF Swaps, StoreLabels
      <4> QED BY <4>2, <4>3, Zenon
    <3>4. queued'[g] = queued[g] + 1 /\ queued[g] \in Int
      BY <1>1, <1>5, <2>2 DEF IInv, TypeOK
    <3>5. queued[g] = Cardinality(Open(g)) + 0
      BY <1>6, <2>2, <3>3 DEF IInv, CountInv
    <3>6. Cardinality(Open(g)) \in Nat
      BY OpenIsFinite, Zenon
    <3> QED BY <3>2, <3>3, <3>4, <3>5, <3>6
  <2> QED BY <2>1, <2>2, Zenon
<1>15. NDRangeIsWhole'
  BY <1>1, Zenon DEF IInv, NDRangeIsWhole
<1>16. RingOnce'
  BY <1>4, RingOnceSwapped, Zenon
<1> QED BY <1>3, <1>10, <1>11, <1>12, <1>13, <1>14, <1>15, <1>16, Zenon DEF IInv

LEMMA RunSliceKeeps ==
    ASSUME IInv, NEW t \in Threads, RunSlice(t)
    PROVE  IInv'
<1>1. /\ stack[t] # << >> /\ Top(t).at = "run" /\ Goto(t, "count_down")
      /\ ran' = [ran EXCEPT ![Top(t).item] = @ + 1]
      /\ UNCHANGED <<pending, waitMutex, queued, live, phase>>
  BY Zenon DEF RunSlice, At, ringVars
<1>2. /\ "count_down" \in Labels /\ "run" \in Labels
      /\ "run" \in SliceLabels /\ "count_down" \in SliceLabels
      /\ "run" \notin GroupLabels /\ "count_down" \notin GroupLabels
      /\ "count_down" \notin LiveLabels
  BY Zenon DEF Labels, GroupLabels, StoreLabels, LiveLabels, SliceLabels
<1>3. StackType' /\ HeldOnce'
  BY <1>1, <1>2, GotoSwaps, Zenon
<1>4. PICK f \in Frames : /\ Swaps(t, f) /\ Becomes(t, f) /\ f.item = Top(t).item
                          /\ f.next = Top(t).next /\ f.at = "count_down"
  BY <1>1, <1>2, GotoSwaps, Zenon
<1>5. PICK n \in 0..Slices :
          /\ CallOK(t, Top(t)) /\ Group(t) \in Groups /\ Top(t) \in Calls(t)
          /\ Top(t).item = <<Group(t), n>> /\ Top(t).item[2] = n
  BY <1>1, TopFacts, Zenon
<1>6. n # 0 /\ live[Group(t)] /\ f.item[1] = Group(t) /\ f.item = <<Group(t), n>>
  BY <1>1, <1>2, <1>4, <1>5, Zenon DEF CallOK, Group
<1>7. n \in 1..Slices
  BY <1>5, <1>6, NDRangeAssumption
<1>8. CallOK(t, f)'
  <2>1. f = Top(t)'
    BY <1>4, Zenon DEF Becomes
  <2>2. phase[f.item[1]] # "new" /\ f.item[2] # 0
    BY <1>4, <1>5, <1>6, Zenon DEF CallOK
  <2>3. f.at \notin {"test_zero", "variant", "end", "help", "first_wait", "second_wait",
                     "count_up", "store", "full_wait", "full_relock"}
    BY <1>4, Zenon
  <2> QED BY <1>1, <1>2, <1>4, <1>6, <2>1, <2>2, <2>3, Zenon DEF CallOK, StoreLabels
<1>9. \A u \in Threads : \A h \in Calls(u) : h.at \in {"test_zero", "full_relock"} => waitMutex' = u
  BY <1>1, Zenon DEF IInv, PlacesInv, CallOK
<1>10. \A g \in Groups : Unstarted(g)' => Unstarted(g)
  BY <1>1, Zenon DEF Unstarted
<1>11. TypeOK'
  <2>1. Top(t).item \in Groups \X (1..Slices)
    BY <1>5, <1>7
  <2>2. ran' \in [Groups \X (1..Slices) -> Nat]
    BY <1>1, <2>1 DEF IInv, TypeOK
  <2> QED BY <1>1, <1>3, <2>2, Zenon DEF IInv, TypeOK, StackType
<1>12. PlacesInv'
  BY <1>1, <1>4, <1>8, <1>9, PlacesSwapped, Zenon DEF IInv
<1>13. NextInv'
  BY <1>2, <1>4, <1>10, NextSwapped, Zenon DEF IInv
<1>14. CountInv'
  BY <1>1, <1>4, CountSwapped, Zenon DEF IInv, StoreLabels
<1>15. ran \in [Groups \X (1..Slices) -> Nat]
  BY DEF IInv, TypeOK
<1>16. ASSUME NEW x \in Groups \X (1..Slices), x # Top(t).item PROVE ran'[x] = ran[x]
  BY <1>1, <1>15, <1>16
<1>17. RanInv'
  <2>1. ASSUME NEW g \in Groups, Unstarted(g)', NEW k \in 1..Slices
        PROVE  ran'[<<g, k>>] = 0
    <3>1. Unstarted(g) /\ g # Group(t)
      BY <1>6, <1>10, <2>1, Zenon DEF Unstarted
    <3>2. <<g, k>> # Top(t).item /\ <<g, k>> \in Groups \X (1..Slices)
      BY <1>5, <3>1
    <3> QED BY <1>16, <3>1, <3>2, Zenon DEF IInv, RanInv
  <2>2. ASSUME NEW u \in Threads, NEW h \in Calls(u)', h.at \in LiveLabels, NEW k \in 1..Slices
        PROVE  ran'[<<h.item[1], k>>] =
                   IF k < h.next /\ ~Awaits(<<h.item[1], k>>, {"run"})' THEN 1 ELSE 0
    <3>1. h \in Calls(u)
      BY <1>2, <1>4, <2>2, SwappedCall, Zenon DEF Swaps
    <3>2. h \in Frames /\ h.item[1] \in Groups
      BY <3>1, CallsAreFrames DEF IInv, Frames, Items
    <3>3. ran[<<h.item[1], k>>] =
              IF k < h.next /\ ~Awaits(<<h.item[1], k>>, {"run"}) THEN 1 ELSE 0
      BY <2>2, <3>1, Zenon DEF IInv, RanInv
    <3>4. CASE <<h.item[1], k>> = Top(t).item
      <4>1. Awaits(<<h.item[1], k>>, {"run"}) /\ Awaits(<<h.item[1], k>>, Labels)
        BY <1>1, <1>2, <1>4, <3>4, AwaitsSwapped
      <4>2. ~Awaits(<<h.item[1], k>>, {"run"})'
        BY <1>4, <3>4, AwaitsSwapped
      <4>3. k < h.next
        BY <2>2, <3>1, <4>1, Zenon DEF IInv, NextInv
      <4>4. ran[<<h.item[1], k>>] = 0
        BY <3>3, <4>1, Zenon
      <4>5. ran'[<<h.item[1], k>>] = ran[<<h.item[1], k>>] + 1
        BY <1>1, <1>15, <3>2, <3>4
      <4>6. ran'[<<h.item[1], k>>] = 1
        BY <4>4, <4>5
      <4> QED BY <4>2, <4>3, <4>6, Zenon
    <3>5. CASE <<h.item[1], k>> # Top(t).item
      <4>1. Awaits(<<h.item[1], k>>, {"run"})' <=> Awaits(<<h.item[1], k>>, {"run"})
        BY <1>4, <3>5, AwaitsSwapped
      <4>2. ran'[<<h.item[1], k>>] = ran[<<h.item[1], k>>]
        BY <1>16, <3>2, <3>5, Zenon
      <4> QED BY <3>3, <4>1, <4>2, Zenon
    <3> QED BY <3>4, <3>5, Zenon
  <2> QED BY <2>1, <2>2, Zenon DEF RanInv
<1>18. NDRangeIsWhole'
  <2> SUFFICES ASSUME NEW g \in Groups, phase'[g] = "executed", NEW k \in 1..Slices
               PROVE  ran'[<<g, k>>] = 1
    BY Zenon DEF NDRangeIsWhole
  <2>1. phase[Group(t)] = "submitted"
    BY <1>5, <1>6, Zenon DEF IInv, PlacesInv
  <2>2. g # Group(t)
    BY <1>1, <2>1, Zenon
  <2>3. <<g, k>> # Top(t).item /\ <<g, k>> \in Groups \X (1..Slices)
    BY <1>5, <2>2
  <2> QED BY <1>1, <1>16, <2>3, Zenon DEF IInv, NDRangeIsWhole
<1>19. RingOnce'
  BY <1>4, RingOnceSwapped, Zenon
<1> QED BY <1>3, <1>11, <1>12, <1>13, <1>14, <1>17, <1>18, <1>19, Zenon DEF IInv

LEMMA CountDownKeeps ==
    ASSUME IInv, NEW t \in Threads, CountDown(t)
    PROVE  IInv'
<1>1. /\ stack[t] # << >> /\ Top(t).at = "count_down" /\ Goto(t, "test_zero")
      /\ waitMutex = NoThread /\ waitMutex' = t
      /\ queued' = [queued EXCEPT ![Group(t)] = @ - 1]
      /\ UNCHANGED <<pending, live, ran, phase>>
  BY Zenon DEF CountDown, At, ringVars
<1>2. /\ "test_zero" \in Labels /\ "test_zero" \in SliceLabels /\ "count_down" \in SliceLabels
      /\ "test_zero" \notin GroupLabels /\ "count_down" \notin GroupLabels
      /\ "test_zero" \notin LiveLabels
  BY Zenon DEF Labels, GroupLabels, StoreLabels, LiveLabels, SliceLabels
<1>3. StackType' /\ HeldOnce'
  BY <1>1, <1>2, GotoSwaps, Zenon
<1>4. PICK f \in Frames : /\ Swaps(t, f) /\ Becomes(t, f) /\ f.item = Top(t).item
                          /\ f.next = Top(t).next /\ f.at = "test_zero"
  BY <1>1, <1>2, GotoSwaps, Zenon
<1>5. PICK n \in 0..Slices :
          /\ CallOK(t, Top(t)) /\ Group(t) \in Groups
          /\ Top(t).item = <<Group(t), n>> /\ Top(t).item[2] = n
  BY <1>1, TopFacts, Zenon
<1>6. n # 0 /\ live[Group(t)] /\ f.item[1] = Group(t) /\ f.item = <<Group(t), n>>
  BY <1>1, <1>2, <1>4, <1>5, Zenon DEF CallOK, Group
<1>7. n \in 1..Slices
  BY <1>5, <1>6, NDRangeAssumption
<1>8. CallOK(t, f)'
  <2>1. f = Top(t)'
    BY <1>4, Zenon DEF Becomes
  <2>2. phase[f.item[1]] # "new" /\ f.item[2] # 0
    BY <1>4, <1>5, <1>6, Zenon DEF CallOK
  <2>3. f.at \notin {"variant", "end", "help", "first_wait", "second_wait",
                     "count_up", "store", "full_wait", "full_relock"}
    BY <1>4, Zenon
  <2> QED BY <1>1, <1>2, <1>4, <1>6, <2>1, <2>2, <2>3, Zenon DEF CallOK, StoreLabels
<1>9. \A u \in Threads : \A h \in Calls(u) : h.at \notin {"test_zero", "full_relock"}
  BY <1>1, NDRangeAssumption, Zenon DEF IInv, PlacesInv, CallOK
<1>10. \A g \in Groups : Unstarted(g)' => Unstarted(g)
  BY <1>1, Zenon DEF Unstarted
<1>11. TypeOK'
  BY <1>1, <1>3, <1>5 DEF IInv, TypeOK, StackType
<1>12. PlacesInv'
  BY <1>1, <1>4, <1>8, <1>9, PlacesSwapped, Zenon DEF IInv
<1>13. NextInv'
  BY <1>2, <1>4, <1>10, NextSwapped, Zenon DEF IInv
<1>14. RanInv'
  BY <1>1, <1>2, <1>4, <1>10, RanSwapped, Zenon DEF IInv
<1>15. CountInv'
  <2> SUFFICES ASSUME NEW g \in Groups, live'[g]
               PROVE  queued'[g] = Cardinality(Open(g))'
                                     + (IF Held(<<g, 0>>, StoreLabels) THEN 1 ELSE 0)'
    BY Zenon DEF CountInv
  <2>1. CASE g # Group(t)
    <3>1. queued'[g] = queued[g] /\ live'[g] = live[g]
      BY <1>1, <1>5, <2>1 DEF IInv, TypeOK
    <3> QED BY <1>4, <1>6, <2>1, <3>1, CountOther, Zenon DEF IInv
  <2>2. CASE g = Group(t)
    <3>1. Awaits(<<g, n>>, {"run", "count_down"}) /\ ~Awaits(<<g, n>>, {"run", "count_down"})'
      BY <1>1, <1>4, <1>6, <2>2, AwaitsSwapped
    <3>2. ASSUME NEW k \in 1..Slices, k # n
          PROVE  Awaits(<<g, k>>, {"run", "count_down"})' <=> Awaits(<<g, k>>, {"run", "count_down"})
      <4>1. <<g, k>> # f.item
        BY <1>6, <3>2
      <4> QED BY <1>4, <4>1, AwaitsSwapped, Zenon
    <3>3. Open(g)' = Open(g) \ {n} /\ n \in Open(g)
      BY <1>7, <3>1, <3>2, Zenon DEF Open
    <3>4. Cardinality(Open(g)') = Cardinality(Open(g)) - 1 /\ Cardinality(Open(g)) \in Nat
      <4>1. IsFiniteSet(Open(g)) /\ Cardinality(Open(g)) \in Nat
        BY OpenIsFinite, Zenon
      <4>2. Cardinality(Open(g) \ {n}) = Cardinality(Open(g)) - 1
        BY <3>3, <4>1, FS_RemoveElement, Zenon
      <4> QED BY <3>3, <4>1, <4>2, Zenon
    <3>5. Held(<<g, 0>>, StoreLabels)' <=> Held(<<g, 0>>, StoreLabels)
      <4>1. <<g, 0>> # f.item
        BY <1>6
      <4> QED BY <1>4, <4>1, HeldSwapped, Zenon DEF Swaps
    <3>6. queued'[g] = queued[g] - 1 /\ queued[g] \in Int
      BY <1>1, <1>5, <2>2 DEF IInv, TypeOK
    <3>7. queued[g] = Cardinality(Open(g)) + (IF Held(<<g, 0>>, StoreLabels) THEN 1 ELSE 0)
      BY <1>6, <2>2, Zenon DEF IInv, CountInv
    <3> QED BY <3>4, <3>5, <3>6, <3>7
  <2> QED BY <2>1, <2>2, Zenon
<1>16. NDRangeIsWhole'
  BY <1>1, Zenon DEF IInv, NDRangeIsWhole
<1>17. RingOnce'
  BY <1>4, RingOnceSwapped, Zenon
<1> QED BY <1>3, <1>11, <1>12, <1>13, <1>14, <1>15, <1>16, <1>17, Zenon DEF IInv

LEMMA TestZeroKeeps ==
    ASSUME IInv, NEW t \in Threads, TestZero(t)
    PROVE  IInv'
<1>1. /\ stack[t] # << >> /\ Top(t).at = "test_zero" /\ Goto(t, "notify")
      /\ waitMutex' = NoThread
      /\ UNCHANGED <<pending, queued, live, ran, phase>>
  BY Zenon DEF TestZero, At, ringVars
<1>2. /\ "notify" \in Labels /\ "notify" \notin SliceLabels /\ "notify" \notin GroupLabels
      /\ "notify" \notin LiveLabels /\ "test_zero" \notin GroupLabels
  BY Zenon DEF Labels, GroupLabels, StoreLabels, LiveLabels, SliceLabels
<1>3. StackType' /\ HeldOnce'
  BY <1>1, <1>2, GotoSwaps, Zenon
<1>4. PICK f \in Frames : /\ Swaps(t, f) /\ Becomes(t, f) /\ f.item = Top(t).item
                          /\ f.next = Top(t).next /\ f.at = "notify"
  BY <1>1, <1>2, GotoSwaps, Zenon
<1>5. CallOK(t, Top(t))
  BY <1>1, TopFacts, Zenon
<1>6. CallOK(t, f)'
  <2>1. f = Top(t)'
    BY <1>4, Zenon DEF Becomes
  <2>2. phase[f.item[1]] # "new" /\ f.item[2] # 0
    BY <1>1, <1>2, <1>4, <1>5, Zenon DEF CallOK
  <2>3. f.at \notin {"test_zero", "variant", "end", "help", "first_wait", "second_wait",
                     "count_up", "store", "full_wait", "full_relock"}
    BY <1>4, Zenon
  <2> QED BY <1>1, <1>2, <1>4, <2>1, <2>2, <2>3, Zenon DEF CallOK, StoreLabels
<1>7. \A u \in Threads : \A h \in Calls(u) : h.at \in {"test_zero", "full_relock"} => h.item = f.item
  <2> SUFFICES ASSUME NEW u \in Threads, NEW h \in Calls(u), h.at \in {"test_zero", "full_relock"}
               PROVE  h.item = f.item
    BY Zenon
  <2>1. CallOK(u, h)
    BY Zenon DEF IInv, PlacesInv
  <2>2. u = t
    BY <1>1, <1>5, <2>1, Zenon DEF CallOK
  <2>3. h = Top(u)
    BY <2>1, Zenon DEF CallOK
  <2> QED BY <1>4, <2>2, <2>3, Zenon
<1>8. \A g \in Groups : Unstarted(g)' => Unstarted(g)
  BY <1>1, Zenon DEF Unstarted
<1>9. TypeOK'
  BY <1>1, <1>3 DEF IInv, TypeOK, StackType
<1>10. PlacesInv'
  BY <1>1, <1>4, <1>6, <1>7, PlacesSwapped, Zenon DEF IInv
<1>11. NextInv'
  BY <1>2, <1>4, <1>8, NextSwapped, Zenon DEF IInv
<1>12. CountInv'
  BY <1>1, <1>4, CountSwapped, Zenon DEF IInv, StoreLabels
<1>13. RanInv'
  BY <1>1, <1>2, <1>4, <1>8, RanSwapped, Zenon DEF IInv
<1>14. NDRangeIsWhole'
  BY <1>1, Zenon DEF IInv, NDRangeIsWhole
<1>15. RingOnce'
  BY <1>4, RingOnceSwapped, Zenon
<1> QED BY <1>3, <1>9, <1>10, <1>11, <1>12, <1>13, <1>14, <1>15, Zenon DEF IInv

\* The call of g, if its label says so, is the only one for <<g, 0>>.
LEMMA OnlyCall ==
    ASSUME IInv, NEW t \in Threads, stack[t] # << >>, Top(t).item = <<Group(t), 0>>,
           NEW u \in Threads, NEW h \in Calls(u), h.item # Top(t).item,
           h.item[1] = Group(t)
    PROVE  /\ h.item[2] \in 1..Slices /\ h.item = <<Group(t), h.item[2]>>
           /\ h.at \notin GroupLabels
<1>1. h.item \in Items
  BY CallsAreFrames, Zenon DEF IInv, Frames
<1>2. h.item = <<Group(t), h.item[2]>> /\ h.item[2] \in 0..Slices
  BY <1>1 DEF Items
<1>3. h.item[2] # 0
  BY <1>2, Zenon
<1>4. CallOK(u, h)
  BY Zenon DEF IInv, PlacesInv
<1>5. h.at \notin GroupLabels
  BY <1>3, <1>4, Zenon DEF CallOK
<1> QED BY <1>2, <1>3, <1>5, NDRangeAssumption

LEMMA SecondWaitKeeps ==
    ASSUME IInv, NEW t \in Threads, SecondWait(t)
    PROVE  IInv'
<1>1. /\ stack[t] # << >> /\ Top(t).at = "second_wait" /\ Goto(t, "end")
      /\ waitMutex = NoThread /\ queued[Group(t)] = 0
      /\ live' = [live EXCEPT ![Group(t)] = FALSE]
      /\ phase' = [phase EXCEPT ![Group(t)] = "executed"]
      /\ UNCHANGED <<pending, waitMutex, queued, ran>>
  BY Zenon DEF SecondWait, At, ringVars
<1>2. /\ "end" \in Labels /\ "end" \in GroupLabels /\ "end" \notin LiveLabels
      /\ "end" \notin SliceLabels
      /\ "second_wait" \in LiveLabels /\ "second_wait" \in GroupLabels
  BY Zenon DEF Labels, GroupLabels, StoreLabels, LiveLabels, SliceLabels
<1>3. StackType' /\ HeldOnce'
  BY <1>1, <1>2, GotoSwaps, Zenon
<1>4. PICK f \in Frames : /\ Swaps(t, f) /\ Becomes(t, f) /\ f.item = Top(t).item
                          /\ f.next = Top(t).next /\ f.at = "end"
  BY <1>1, <1>2, GotoSwaps, Zenon
<1>5. PICK g \in Groups :
          /\ g = Group(t) /\ CallOK(t, Top(t)) /\ Top(t) \in Calls(t)
          /\ Top(t).item = <<g, Top(t).item[2]>> /\ Top(t).item[1] = g
  BY <1>1, TopFacts, Zenon DEF Group
<1>6. /\ Top(t).item = <<g, 0>> /\ live[g] /\ f.item[1] = g /\ f.item[2] = 0
      /\ Top(t).next = Slices + 1
  <2>1. Top(t).item[2] = 0
    BY <1>1, <1>2, <1>5, Zenon DEF CallOK
  <2> QED BY <1>1, <1>2, <1>4, <1>5, <2>1, Zenon DEF CallOK
<1>7. /\ live \in [Groups -> BOOLEAN]
      /\ phase \in [Groups -> {"new", "submitted", "skipped", "executed"}]
  BY Zenon DEF IInv, TypeOK
<1>8. /\ ~live'[g] /\ phase'[g] = "executed"
      /\ \A c \in Groups : c # g => live'[c] = live[c] /\ phase'[c] = phase[c]
  BY <1>1, <1>5, <1>7, Zenon
<1>9. Open(g) = {}
  <2>1. ~Held(<<g, 0>>, StoreLabels)
    BY <1>1, <1>6, HeldAtTop, Zenon DEF IInv, StoreLabels
  <2>2. queued[g] = Cardinality(Open(g)) + 0
    BY <1>5, <1>6, <2>1, Zenon DEF IInv, CountInv
  <2>3. Cardinality(Open(g)) = 0
    BY <1>1, <1>5, <2>2, OpenIsFinite
  <2> QED BY <2>3, OpenIsFinite, FS_EmptySet, Zenon
<1>10. \A k \in 1..Slices : ~Awaits(<<g, k>>, {"run", "count_down"})
  BY <1>9, Zenon DEF Open
<1>11. ASSUME NEW u \in Threads, NEW h \in Calls(u), h.item # f.item, h.item[1] = g
       PROVE  h.at = "notify"
  <2>1. h.item[2] \in 1..Slices /\ h.item = <<g, h.item[2]>> /\ h.at \notin GroupLabels
    BY <1>1, <1>4, <1>5, <1>6, <1>11, OnlyCall, Zenon
  <2>2. h.at \notin {"run", "count_down"}
    BY <1>10, <1>11, <2>1, Zenon DEF Awaits, Held
  <2>3. h.at # "test_zero"
    BY <1>1, <1>11, NDRangeAssumption, Zenon DEF IInv, PlacesInv, CallOK
  <2>4. h.at \in Labels
    BY <1>11, CallsAreFrames, Zenon DEF IInv, Frames
  <2> QED BY <2>1, <2>2, <2>3, <2>4, Zenon DEF Labels, SliceLabels
<1>12. ASSUME NEW x \in Ring PROVE x[1] # g /\ x[1] \in Groups
  <2>1. x \in Items /\ QueuedOK(x)
    BY <1>12 DEF IInv, TypeOK, PlacesInv, Ring
  <2>2. x = <<x[1], x[2]>> /\ x[1] \in Groups /\ x[2] \in 0..Slices
    BY <2>1 DEF Items
  <2>3. x[1] = g => x[2] # 0
    BY <1>6, <2>1, Zenon DEF QueuedOK
  <2>4. x[1] = g => x[2] \in 1..Slices
    BY <2>2, <2>3, NDRangeAssumption
  <2> QED BY <1>10, <2>2, <2>4, Zenon DEF Awaits
<1>13. PlacesInv'
  <2>1. CallOK(t, f)'
    <3>1. f = Top(t)'
      BY <1>4, Zenon DEF Becomes
    <3>2. f.at \notin {"test_zero", "variant", "help", "first_wait", "second_wait",
                       "count_up", "store", "full_wait", "full_relock"}
      BY <1>4, Zenon
    <3>3. ~live'[f.item[1]] /\ phase'[f.item[1]] # "new"
      BY <1>6, <1>8, Zenon
    <3> QED BY <1>2, <1>4, <1>6, <3>1, <3>2, <3>3, Zenon DEF CallOK, StoreLabels
  <2>2. ASSUME NEW u \in Threads, NEW h \in Calls(u)', ~(u = t /\ h = f) PROVE CallOK(u, h)'
    <3>1. /\ h \in Calls(u) /\ h \in Frames /\ h.item # f.item /\ CallOK(u, h)
          /\ h.at # "help" => h = Top(u)'
      <4>1. PlacesInv
        BY Zenon DEF IInv
      <4> QED BY <1>4, <2>2, <4>1, OtherCall
    <3>2. CASE h.item[1] = g
      <4>1. h.at = "notify"
        BY <1>11, <3>1, <3>2, Zenon
      <4>2. h.at \notin GroupLabels \cup LiveLabels \cup SliceLabels
        BY <4>1, Zenon DEF GroupLabels, StoreLabels, LiveLabels, SliceLabels
      <4>3. h.at \notin {"test_zero", "variant", "end", "help", "first_wait", "second_wait",
                         "count_up", "store", "full_wait", "full_relock"}
        BY <4>1, Zenon
      <4>4. phase'[h.item[1]] # "new" /\ h.item[2] # 0
        BY <1>8, <3>1, <3>2, <4>2, Zenon DEF CallOK
      <4> QED BY <3>1, <4>2, <4>3, <4>4, Zenon DEF CallOK
    <3>3. CASE h.item[1] # g
      <4>1. h.item[1] \in Groups
        BY <3>1 DEF Frames, Items
      <4>2. live'[h.item[1]] = live[h.item[1]] /\ phase'[h.item[1]] = phase[h.item[1]]
        BY <1>8, <3>3, <4>1, Zenon
      <4> QED BY <1>1, <3>1, <4>2, Zenon DEF CallOK
    <3> QED BY <3>2, <3>3, Zenon
  <2>3. ASSUME NEW x \in Ring' PROVE QueuedOK(x)'
    <3>1. x \in Ring /\ x[1] # g /\ x[1] \in Groups
      BY <1>1, <1>12, Zenon DEF Ring
    <3> QED BY <1>8, <3>1, Zenon DEF QueuedOK, IInv, PlacesInv
  <2>4. \A c \in Groups : live'[c] => phase'[c] = "submitted"
    BY <1>8, Zenon DEF IInv, PlacesInv
  <2> QED BY <2>1, <2>2, <2>3, <2>4, Zenon DEF PlacesInv
<1>14. \A c \in Groups : Unstarted(c)' => Unstarted(c)
  <2>1. ~Unstarted(g)'
    BY <1>8, Zenon DEF Unstarted
  <2> QED BY <1>8, <2>1, Zenon DEF Unstarted
<1>15. TypeOK'
  BY <1>1, <1>3, <1>5 DEF IInv, TypeOK, StackType
<1>16. NextInv'
  BY <1>2, <1>4, <1>14, NextSwapped, Zenon DEF IInv
<1>17. CountInv'
  <2> SUFFICES ASSUME NEW c \in Groups, live'[c]
               PROVE  queued'[c] = Cardinality(Open(c))'
                                     + (IF Held(<<c, 0>>, StoreLabels) THEN 1 ELSE 0)'
    BY Zenon DEF CountInv
  <2>1. c # g /\ queued'[c] = queued[c] /\ live'[c] = live[c]
    BY <1>1, <1>8, Zenon
  <2> QED BY <1>4, <1>6, <2>1, CountOther, Zenon DEF IInv
<1>18. RanInv'
  BY <1>1, <1>2, <1>4, <1>14, RanSwapped, Zenon DEF IInv
<1>19. NDRangeIsWhole'
  <2>1. ASSUME NEW k \in 1..Slices PROVE ran[<<g, k>>] = 1
    <3>1. ~Awaits(<<g, k>>, {"run"})
      BY <1>10, Zenon DEF Awaits, Held
    <3>2. k < Top(t).next
      BY <1>6, NDRangeAssumption
    <3>3. Top(t).item[1] = g
      BY <1>6
    <3> QED BY <1>1, <1>2, <1>5, <3>1, <3>2, <3>3, Zenon DEF IInv, RanInv
  <2> QED BY <1>1, <1>8, <2>1, Zenon DEF IInv, NDRangeIsWhole
<1>20. RingOnce'
  BY <1>4, RingOnceSwapped, Zenon
<1> QED BY <1>3, <1>13, <1>15, <1>16, <1>17, <1>18, <1>19, <1>20, Zenon DEF IInv

\* The group of a call at "variant" has nothing else in the ring or in a call.
LEMMA VariantAlone ==
    ASSUME IInv, NEW t \in Threads, stack[t] # << >>, Top(t).at = "variant"
    PROVE  /\ Group(t) \in Groups /\ Top(t).item = <<Group(t), 0>> /\ Top(t).next = 1
           /\ phase[Group(t)] = "submitted" /\ ~live[Group(t)]
           /\ \A k \in 1..Slices : ~Awaits(<<Group(t), k>>, Labels)
           /\ \A x \in Ring : x[1] # Group(t) /\ x[1] \in Groups
           /\ \A u \in Threads : \A h \in Calls(u) :
                 h.item # Top(t).item => h.item[1] # Group(t) /\ h.item[1] \in Groups
<1>1. /\ CallOK(t, Top(t)) /\ Group(t) \in Groups /\ Top(t) \in Calls(t)
      /\ Top(t).item = <<Group(t), Top(t).item[2]>>
  BY TopFacts, Zenon
<1>2. Top(t).item[2] = 0
  BY <1>1, Zenon DEF CallOK, GroupLabels, StoreLabels
<1>3. /\ Top(t).item = <<Group(t), 0>> /\ Top(t).next = 1
      /\ phase[Group(t)] = "submitted" /\ ~live[Group(t)]
  BY <1>1, <1>2, Zenon DEF CallOK, Group
<1>4. \A k \in 1..Slices : ~Awaits(<<Group(t), k>>, Labels)
  BY <1>1, <1>3, Zenon DEF IInv, NextInv, Unstarted
<1>5. ASSUME NEW x \in Ring PROVE x[1] # Group(t) /\ x[1] \in Groups
  <2>1. x \in Items /\ QueuedOK(x)
    BY <1>5 DEF IInv, TypeOK, PlacesInv, Ring
  <2>2. x = <<x[1], x[2]>> /\ x[1] \in Groups
    BY <2>1 DEF Items
  <2>3. x[1] = Group(t) => x[2] = 0
    BY <1>3, <2>1, Zenon DEF QueuedOK
  <2>4. x # Top(t).item
    BY <1>1, Zenon DEF IInv, RingOnce
  <2> QED BY <1>3, <2>2, <2>3, <2>4, Zenon
<1>6. ASSUME NEW u \in Threads, NEW h \in Calls(u), h.item # Top(t).item
      PROVE  h.item[1] # Group(t) /\ h.item[1] \in Groups
  <2>1. h \in Frames
    BY CallsAreFrames, Zenon DEF IInv
  <2>2. h.at \in Labels /\ h.item[1] \in Groups
    BY <2>1 DEF Frames, Items
  <2>3. h.item[1] = Group(t) => h.item[2] \in 1..Slices /\ h.item = <<Group(t), h.item[2]>>
    BY <1>3, <1>6, OnlyCall, Zenon
  <2> QED BY <1>4, <2>2, <2>3, Zenon DEF Awaits, Held
<1> QED BY <1>1, <1>3, <1>4, <1>5, <1>6, Zenon

LEMMA KernelVariantKeeps ==
    ASSUME IInv, NEW t \in Threads, KernelVariant(t)
    PROVE  IInv'
<1>1. /\ stack[t] # << >> /\ Top(t).at = "variant"
      /\ UNCHANGED <<pending, waitMutex, ran>>
  BY Zenon DEF KernelVariant, At, ringVars
<1>2. PICK g \in Groups :
          /\ g = Group(t) /\ Top(t).item = <<g, 0>> /\ Top(t).next = 1
          /\ phase[g] = "submitted" /\ ~live[g]
          /\ \A k \in 1..Slices : ~Awaits(<<g, k>>, Labels)
          /\ \A x \in Ring : x[1] # g /\ x[1] \in Groups
          /\ \A u \in Threads : \A h \in Calls(u) :
                h.item # Top(t).item => h.item[1] # g /\ h.item[1] \in Groups
  BY <1>1, VariantAlone, Zenon
<1>3. /\ live \in [Groups -> BOOLEAN] /\ queued \in [Groups -> Int]
      /\ phase \in [Groups -> {"new", "submitted", "skipped", "executed"}]
  BY Zenon DEF IInv, TypeOK
<1>4. /\ "variant" \in GroupLabels /\ "variant" \notin LiveLabels
      /\ "end" \in Labels /\ "end" \in GroupLabels /\ "end" \notin LiveLabels
      /\ "end" \notin SliceLabels
      /\ "count_up" \in Labels /\ "count_up" \in GroupLabels
  BY Zenon DEF Labels, GroupLabels, StoreLabels, LiveLabels, SliceLabels
\* The facts that hold of both outcomes, once the group is the only one changed.
<1>5. ASSUME NEW f, Swaps(t, f), f.item = Top(t).item, CallOK(t, f)',
             live'[g] => phase'[g] = "submitted",
             \A c \in Groups \ {g} : live'[c] = live[c] /\ phase'[c] = phase[c]
      PROVE  PlacesInv'
  <2>1. ASSUME NEW u \in Threads, NEW h \in Calls(u)', ~(u = t /\ h = f) PROVE CallOK(u, h)'
    <3>1. /\ h \in Calls(u) /\ h.item # f.item /\ CallOK(u, h)
          /\ h.at # "help" => h = Top(u)'
      <4>1. PlacesInv
        BY Zenon DEF IInv
      <4> QED BY <1>5, <2>1, <4>1, OtherCall
    <3>2. h.item[1] # g /\ h.item[1] \in Groups
      BY <1>2, <1>5, <3>1, Zenon
    <3>3. live'[h.item[1]] = live[h.item[1]] /\ phase'[h.item[1]] = phase[h.item[1]]
      BY <1>5, <3>2, Zenon
    <3> QED BY <1>1, <3>1, <3>3, Zenon DEF CallOK
  <2>2. ASSUME NEW x \in Ring' PROVE QueuedOK(x)'
    <3>1. x \in Ring /\ x[1] # g /\ x[1] \in Groups
      BY <1>1, <1>2, <2>2, Zenon DEF Ring
    <3> QED BY <1>5, <3>1, Zenon DEF QueuedOK, IInv, PlacesInv
  <2>3. ASSUME NEW c \in Groups, live'[c] PROVE phase'[c] = "submitted"
    <3>1. CASE c = g
      BY <1>5, <2>3, <3>1, Zenon
    <3>2. CASE c # g
      BY <1>5, <2>3, <3>2, Zenon DEF IInv, PlacesInv
    <3> QED BY <3>1, <3>2, Zenon
  <2> QED BY <1>5, <2>1, <2>2, <2>3, Zenon DEF PlacesInv
<1>6. CASE /\ Goto(t, "end") /\ phase' = [phase EXCEPT ![g] = "skipped"]
           /\ UNCHANGED <<queued, live>>
  <2>1. StackType' /\ HeldOnce'
    BY <1>1, <1>4, <1>6, GotoSwaps, Zenon
  <2>2. PICK f \in Frames : /\ Swaps(t, f) /\ Becomes(t, f) /\ f.item = Top(t).item
                            /\ f.next = Top(t).next /\ f.at = "end"
    BY <1>1, <1>4, <1>6, GotoSwaps, Zenon
  <2>3. phase'[g] = "skipped" /\ \A c \in Groups \ {g} : phase'[c] = phase[c]
    BY <1>2, <1>3, <1>6, Zenon
  <2>4. CallOK(t, f)'
    <3>1. f = Top(t)' /\ f.item[1] = g /\ f.item[2] = 0
      BY <1>2, <2>2 DEF Becomes
    <3>2. f.at \notin {"test_zero", "variant", "help", "first_wait", "second_wait",
                       "count_up", "store", "full_wait", "full_relock"}
      BY <2>2, Zenon
    <3> QED BY <1>2, <1>4, <1>6, <2>2, <2>3, <3>1, <3>2, Zenon DEF CallOK, StoreLabels
  <2>5. \A c \in Groups : Unstarted(c)' => Unstarted(c)
    <3>1. ~Unstarted(g)'
      BY <2>3, Zenon DEF Unstarted
    <3> QED BY <1>6, <2>3, <3>1, Zenon DEF Unstarted
  <2>6. PlacesInv'
    BY <1>2, <1>5, <1>6, <2>2, <2>3, <2>4, Zenon
  <2>7. NextInv'
    BY <1>4, <2>2, <2>5, NextSwapped, Zenon DEF IInv
  <2>8. CountInv'
    <3>1. /\ f.at \notin {"run", "count_down"} \cup StoreLabels
          /\ Top(t).at \notin {"run", "count_down"} \cup StoreLabels
      BY <1>1, <2>2, Zenon DEF StoreLabels
    <3> QED BY <1>6, <2>2, <3>1, CountSwapped, Zenon DEF IInv
  <2>9. RanInv'
    <3>1. f.at # "run" /\ Top(t).at # "run"
      BY <1>1, <2>2, Zenon
    <3> QED BY <1>1, <1>4, <2>2, <2>5, <3>1, RanSwapped, Zenon DEF IInv
  <2>10. NDRangeIsWhole'
    BY <1>1, <2>3, Zenon DEF IInv, NDRangeIsWhole
  <2>11. RingOnce'
    BY <2>2, RingOnceSwapped, Zenon
  <2>12. TypeOK'
    BY <1>1, <1>2, <1>6, <2>1 DEF IInv, TypeOK, StackType
  <2> QED BY <2>1, <2>6, <2>7, <2>8, <2>9, <2>10, <2>11, <2>12, Zenon DEF IInv
<1>7. CASE /\ Goto(t, "count_up") /\ queued' = [queued EXCEPT ![g] = 0]
           /\ live' = [live EXCEPT ![g] = TRUE] /\ UNCHANGED phase
  <2>1. StackType' /\ HeldOnce'
    BY <1>1, <1>4, <1>7, GotoSwaps, Zenon
  <2>2. PICK f \in Frames : /\ Swaps(t, f) /\ Becomes(t, f) /\ f.item = Top(t).item
                            /\ f.next = Top(t).next /\ f.at = "count_up"
    BY <1>1, <1>4, <1>7, GotoSwaps, Zenon
  <2>3. /\ live'[g] /\ queued'[g] = 0
        /\ \A c \in Groups \ {g} : live'[c] = live[c] /\ queued'[c] = queued[c]
    BY <1>2, <1>3, <1>7, Zenon
  <2>4. f.item[1] = g /\ f.item[2] = 0 /\ f.next = 1
    BY <1>2, <2>2
  <2>5. CallOK(t, f)'
    <3>1. f = Top(t)'
      BY <2>2, Zenon DEF Becomes
    <3>2. f.at \notin {"test_zero", "full_relock", "variant", "end", "help", "first_wait", "second_wait"}
      BY <2>2, Zenon
    <3>3. f.next <= Slices
      BY <2>4, NDRangeAssumption
    <3> QED BY <1>2, <1>4, <1>7, <2>2, <2>3, <2>4, <3>1, <3>2, <3>3, Zenon DEF CallOK
  <2>6. \A c \in Groups : Unstarted(c)' => Unstarted(c)
    <3>1. ~Unstarted(g)'
      BY <2>3, Zenon DEF Unstarted
    <3> QED BY <1>7, <2>3, <3>1, Zenon DEF Unstarted
  <2>7. PlacesInv'
    BY <1>2, <1>5, <1>7, <2>2, <2>3, <2>5, Zenon
  <2>8. ASSUME NEW k \in 1..Slices, NEW labels \in SUBSET Labels
        PROVE  ~Awaits(<<g, k>>, labels)'
    <3>1. <<g, k>> # f.item
      BY <2>4, NDRangeAssumption
    <3>2. ~Awaits(<<g, k>>, Labels)'
      BY <1>2, <2>2, <3>1, AwaitsSwapped, Zenon
    <3> QED BY <3>2, Zenon DEF Awaits, Held
  <2>9. ASSUME NEW u \in Threads, NEW h \in Calls(u)', ~(u = t /\ h = f)
        PROVE  h \in Calls(u)
    BY <2>2, <2>9, SwappedCall, Zenon DEF Swaps
  <2>10. ASSUME NEW x, x # f.item, NEW labels
         PROVE  Awaits(x, labels)' <=> Awaits(x, labels)
    BY <2>2, <2>10, AwaitsSwapped, Zenon
  <2>11. ASSUME NEW c, NEW k \in 1..Slices PROVE <<c, k>> # f.item
    BY <2>4, NDRangeAssumption
  <2>12. NextInv'
    <3>1. ASSUME NEW c \in Groups, Unstarted(c)', NEW k \in 1..Slices
          PROVE  ~Awaits(<<c, k>>, Labels)'
      BY <2>6, <2>10, <2>11, <3>1, Zenon DEF IInv, NextInv
    <3>2. ASSUME NEW u \in Threads, NEW h \in Calls(u)', h.at \in LiveLabels,
                 NEW k \in 1..Slices, Awaits(<<h.item[1], k>>, Labels)'
          PROVE  k < h.next
      <4>1. CASE u = t /\ h = f
        BY <2>4, <2>8, <3>2, <4>1, Zenon
      <4>2. CASE ~(u = t /\ h = f)
        BY <2>9, <2>10, <2>11, <3>2, <4>2, Zenon DEF IInv, NextInv
      <4> QED BY <4>1, <4>2, Zenon
    <3> QED BY <3>1, <3>2, Zenon DEF NextInv
  <2>13. CountInv'
    <3> SUFFICES ASSUME NEW c \in Groups, live'[c]
                 PROVE  queued'[c] = Cardinality(Open(c))'
                                       + (IF Held(<<c, 0>>, StoreLabels) THEN 1 ELSE 0)'
      BY Zenon DEF CountInv
    <3>1. CASE c # g
      BY <2>2, <2>3, <2>4, <3>1, CountOther, Zenon DEF IInv
    <3>2. CASE c = g
      <4>1. Open(g)' = {}
        <5>1. {"run", "count_down"} \in SUBSET Labels
          BY Zenon DEF Labels, SliceLabels
        <5> QED BY <2>8, <5>1, Zenon DEF Open
      <4>2. ~Held(<<g, 0>>, StoreLabels)'
        <5>1. <<g, 0>> = f.item /\ f.at \notin StoreLabels
          BY <1>2, <2>2, Zenon DEF StoreLabels
        <5> QED BY <2>2, <5>1, HeldSwapped, Zenon DEF Swaps
      <4>3. Cardinality({}) = 0
        BY FS_EmptySet, Zenon
      <4> QED BY <2>3, <3>2, <4>1, <4>2, <4>3
    <3> QED BY <3>1, <3>2, Zenon
  <2>14. RanInv'
    <3>1. ASSUME NEW c \in Groups, Unstarted(c)', NEW k \in 1..Slices PROVE ran'[<<c, k>>] = 0
      BY <1>1, <2>6, <3>1, Zenon DEF IInv, RanInv
    <3>2. ASSUME NEW u \in Threads, NEW h \in Calls(u)', h.at \in LiveLabels, NEW k \in 1..Slices
          PROVE  ran'[<<h.item[1], k>>] =
                     IF k < h.next /\ ~Awaits(<<h.item[1], k>>, {"run"})' THEN 1 ELSE 0
      <4>1. CASE u = t /\ h = f
        <5>1. ran[<<g, k>>] = 0
          BY <1>2, Zenon DEF IInv, RanInv, Unstarted
        <5>2. ~(k < h.next)
          BY <2>4, <4>1
        <5> QED BY <1>1, <2>4, <4>1, <5>1, <5>2, Zenon
      <4>2. CASE ~(u = t /\ h = f)
        <5>1. ran[<<h.item[1], k>>] =
                  IF k < h.next /\ ~Awaits(<<h.item[1], k>>, {"run"}) THEN 1 ELSE 0
          BY <2>9, <3>2, <4>2, Zenon DEF IInv, RanInv
        <5>2. Awaits(<<h.item[1], k>>, {"run"})' <=> Awaits(<<h.item[1], k>>, {"run"})
          BY <2>10, <2>11, Zenon
        <5> QED BY <1>1, <5>1, <5>2, Zenon
      <4> QED BY <4>1, <4>2, Zenon
    <3> QED BY <3>1, <3>2, Zenon DEF RanInv
  <2>15. NDRangeIsWhole'
    BY <1>1, <1>7, Zenon DEF IInv, NDRangeIsWhole
  <2>16. RingOnce'
    BY <2>2, RingOnceSwapped, Zenon
  <2>17. TypeOK'
    BY <1>1, <1>2, <1>7, <2>1 DEF IInv, TypeOK, StackType
  <2> QED BY <2>1, <2>7, <2>12, <2>13, <2>14, <2>15, <2>16, <2>17, Zenon DEF IInv
<1> QED BY <1>2, <1>6, <1>7, Zenon DEF KernelVariant

\* enqueue_range stores slice n of g, which was nowhere before.
LEMMA StoreKeeps ==
    ASSUME IInv, NEW t \in Threads, stack[t] # << >>, Top(t).at = "store",
           pending' = Append(pending, <<Group(t), Top(t).next>>),
           stack' = [stack EXCEPT ![t][1].next = @ + 1,
                         ![t][1].at = IF Top(t).next = Slices THEN "help" ELSE "count_up"],
           UNCHANGED <<waitMutex, queued, live, ran, phase>>
    PROVE  IInv'
<1>1. PICK g \in Groups, n \in 1..(Slices + 1) :
          /\ g = Group(t) /\ n = Top(t).next
          /\ CallOK(t, Top(t)) /\ Top(t) \in Calls(t) /\ Top(t) \in Frames
          /\ Top(t).item = <<g, Top(t).item[2]>> /\ Top(t).item[1] = g
  BY TopFacts, Zenon DEF Group
<1> DEFINE label == IF n = Slices THEN "help" ELSE "count_up"
           x0 == <<g, n>>
<1>2. /\ "store" \in GroupLabels /\ "store" \in LiveLabels
      /\ label \in Labels /\ label \in GroupLabels /\ label \in LiveLabels
      /\ label \notin {"run", "count_down", "store", "full_wait", "full_relock",
                       "test_zero", "variant", "end", "first_wait", "second_wait"}
  BY Zenon DEF Labels, GroupLabels, StoreLabels, LiveLabels
<1>3. n <= Slices /\ Top(t).item[2] = 0 /\ live[g] /\ phase[g] = "submitted"
  <2>1. n <= Slices /\ Top(t).item[2] = 0 /\ live[g]
    BY <1>1, <1>2, Zenon DEF CallOK, StoreLabels
  <2> QED BY <1>1, <2>1, Zenon DEF IInv, PlacesInv
<1>4. n \in 1..Slices /\ n + 1 \in 1..(Slices + 1)
  BY <1>1, <1>3, NDRangeAssumption
<1>5. PICK f \in Frames :
          /\ f = [Top(t) EXCEPT !.next = n + 1, !.at = label]
          /\ f.item = Top(t).item /\ f.next = n + 1 /\ f.at = label
  <2> DEFINE e == [Top(t) EXCEPT !.next = n + 1, !.at = label]
  <2>1. e \in Frames /\ e.item = Top(t).item /\ e.next = n + 1 /\ e.at = label
    BY <1>1, <1>2, <1>4 DEF Frames
  <2> QED BY <2>1, Zenon
<1>6. stack' = [stack EXCEPT ![t] = [stack[t] EXCEPT ![1] = f]]
  <2>1. stack \in [Threads -> Seq(Frames)]
    BY DEF IInv, TypeOK
  <2>2. stack[t][1] = Top(t)
    BY <2>1 DEF Top
  <2> QED BY <1>1, <1>5, <2>1, <2>2
<1>7. Top(t).item = <<g, 0>> /\ f.item = <<g, 0>> /\ f.item[1] = g /\ f.item[2] = 0
  BY <1>1, <1>3, <1>5
<1> HIDE DEF label
<1>8. StackType' /\ HeldOnce' /\ Becomes(t, f)
  BY <1>5, <1>6, SwapStep, Zenon DEF IInv
<1>9. ~Awaits(x0, Labels)
  <2>1. Awaits(x0, Labels) => n < Top(t).next
    BY <1>1, <1>2, <1>4, <1>7, Zenon DEF IInv, NextInv
  <2> QED BY <1>1, <1>4, <2>1
<1>10. x0 \in Items /\ x0 # f.item
  <2>1. n \in 0..Slices /\ n # 0
    BY <1>4
  <2> QED BY <1>1, <1>7, <2>1 DEF Items
<1>11. /\ pending' \in Seq(Items) /\ Ring' = Ring \cup {x0}
       /\ \A i, j \in DOMAIN pending' : pending'[i] = pending'[j] => i = j
  <2>1. pending' = Append(pending, x0) /\ x0 \notin Ring /\ TypeOK
        /\ \A i, j \in DOMAIN pending : pending[i] = pending[j] => i = j
    BY <1>1, <1>9, Zenon DEF IInv, RingOnce, Awaits
  <2> QED BY <1>10, <2>1, AppendRing, Zenon
<1>12. ASSUME NEW u \in Threads, NEW h \in Calls(u)', ~(u = t /\ h = f)
       PROVE  /\ h \in Calls(u) /\ h.item # f.item /\ h \in Frames /\ CallOK(u, h)
              /\ h.at # "help" => h = Top(u)'
  <2>1. h \in Calls(u) /\ h.item # f.item
    BY <1>8, <1>12, SwappedCall, Zenon DEF IInv
  <2>2. CallOK(u, h)
    BY <2>1, Zenon DEF IInv, PlacesInv
  <2>3. h.at # "help" => h = Top(u) /\ u # t
    BY <1>5, <2>1, <2>2, Zenon DEF CallOK
  <2>4. h.at # "help" => h = Top(u)'
    BY <1>8, <2>3, Zenon DEF Becomes, OthersKept
  <2> QED BY <2>1, <2>2, <2>4, CallsAreFrames, Zenon DEF IInv
<1>13. ASSUME NEW x, NEW labels, x # f.item
       PROVE  /\ Held(x, labels)' <=> Held(x, labels)
              /\ Awaits(x, labels)' <=> x = x0 \/ Awaits(x, labels)
  <2>1. Held(x, labels)' <=> Held(x, labels)
    BY <1>8, <1>13, HeldSwapped, Zenon DEF IInv
  <2> QED BY <1>11, <2>1, Zenon DEF Awaits
<1>14. ASSUME NEW c, NEW k \in 1..Slices PROVE <<c, k>> # f.item
  BY <1>7, NDRangeAssumption
<1>15. ASSUME NEW u \in Threads, NEW h \in Calls(u), h.item # f.item, h.at \in LiveLabels
       PROVE  h.item[1] # g
  <2>1. h.at \in GroupLabels
    BY <1>15, Zenon DEF LiveLabels
  <2> QED BY <1>1, <1>5, <1>7, <1>15, <2>1, OnlyCall, Zenon
<1>16. RingOnce'
  <2>1. ASSUME NEW u \in Threads, NEW h \in Calls(u)' PROVE h.item \notin Ring'
    <3>1. CASE u = t /\ h = f
      <4>1. f.item \notin Ring
        BY <1>1, <1>5, Zenon DEF IInv, RingOnce
      <4> QED BY <1>10, <1>11, <3>1, <4>1
    <3>2. CASE ~(u = t /\ h = f)
      <4>1. h \in Calls(u) /\ h \in Frames
        BY <1>12, <3>2, Zenon
      <4>2. h.item # x0
        BY <1>9, <4>1, Zenon DEF Awaits, Held, Frames
      <4> QED BY <1>11, <4>1, <4>2, Zenon DEF IInv, RingOnce
    <3> QED BY <3>1, <3>2, Zenon
  <2> QED BY <1>11, <2>1, Zenon DEF RingOnce
<1>17. PlacesInv'
  <2>1. CallOK(t, f)'
    <3>1. f = Top(t)'
      BY <1>8, Zenon DEF Becomes
    <3>2. /\ f.at \in {"count_up"} \cup StoreLabels => f.next <= Slices
          /\ f.at \in {"help", "first_wait", "second_wait"} => f.next = Slices + 1
      BY <1>4, <1>5, NDRangeAssumption DEF label, StoreLabels
    <3>3. f.at \notin {"test_zero", "full_relock", "variant", "end"} /\ f.at \in GroupLabels
      BY <1>2, <1>5, Zenon
    <3>4. phase[f.item[1]] # "new" /\ live[f.item[1]]
      BY <1>3, <1>7, Zenon
    <3> QED BY <1>7, <3>1, <3>2, <3>3, <3>4, Zenon DEF CallOK
  <2>2. ASSUME NEW u \in Threads, NEW h \in Calls(u)', ~(u = t /\ h = f) PROVE CallOK(u, h)'
    BY <1>12, <2>2, Zenon DEF CallOK
  <2>3. ASSUME NEW x \in Ring' PROVE QueuedOK(x)'
    <3>1. CASE x = x0
      <4>1. x[1] = g /\ x[2] # 0
        BY <1>4, <3>1
      <4> QED BY <1>3, <4>1, Zenon DEF QueuedOK
    <3>2. CASE x \in Ring
      BY <3>2, Zenon DEF QueuedOK, IInv, PlacesInv
    <3> QED BY <1>11, <3>1, <3>2, Zenon
  <2>4. ASSUME NEW c \in Groups, live'[c] PROVE phase'[c] = "submitted"
    BY <2>4, Zenon DEF PlacesInv, IInv
  <2> QED BY <2>1, <2>2, <2>3, <2>4, Zenon DEF PlacesInv
<1>18. NextInv'
  <2>1. ASSUME NEW c \in Groups, Unstarted(c)', NEW k \in 1..Slices
        PROVE  ~Awaits(<<c, k>>, Labels)'
    <3>1. Unstarted(c) /\ c # g
      BY <1>3, <2>1, Zenon DEF Unstarted
    <3>2. <<c, k>> # x0
      BY <3>1, Zenon
    <3> QED BY <1>13, <1>14, <3>1, <3>2, Zenon DEF IInv, NextInv
  <2>2. ASSUME NEW u \in Threads, NEW h \in Calls(u)', h.at \in LiveLabels,
               NEW k \in 1..Slices, Awaits(<<h.item[1], k>>, Labels)'
        PROVE  k < h.next
    <3>1. <<h.item[1], k>> = x0 \/ Awaits(<<h.item[1], k>>, Labels)
      BY <1>13, <1>14, <2>2, Zenon
    <3>2. CASE u = t /\ h = f
      <4>1. k = n \/ k < n
        BY <1>1, <1>2, <1>7, <3>1, <3>2, Zenon DEF IInv, NextInv
      <4> QED BY <1>4, <1>5, <3>2, <4>1
    <3>3. CASE ~(u = t /\ h = f)
      <4>1. h \in Calls(u) /\ h.item[1] # g
        BY <1>12, <1>15, <2>2, <3>3, Zenon
      <4>2. <<h.item[1], k>> # x0
        BY <4>1, Zenon
      <4> QED BY <2>2, <3>1, <4>1, <4>2, Zenon DEF IInv, NextInv
    <3> QED BY <3>2, <3>3, Zenon
  <2> QED BY <2>1, <2>2, Zenon DEF NextInv
<1>19. CountInv'
  <2> SUFFICES ASSUME NEW c \in Groups, live'[c]
               PROVE  queued'[c] = Cardinality(Open(c))'
                                     + (IF Held(<<c, 0>>, StoreLabels) THEN 1 ELSE 0)'
    BY Zenon DEF CountInv
  <2>1. queued[c] = Cardinality(Open(c)) + (IF Held(<<c, 0>>, StoreLabels) THEN 1 ELSE 0)
    BY Zenon DEF IInv, CountInv
  <2>2. CASE c # g
    <3>1. <<c, 0>> # f.item /\ \A k : <<c, k>> # x0
      BY <1>7, <2>2
    <3>2. Open(c)' = Open(c)
      BY <1>13, <1>14, <3>1, Zenon DEF Open
    <3>3. Held(<<c, 0>>, StoreLabels)' <=> Held(<<c, 0>>, StoreLabels)
      BY <1>13, <3>1, Zenon
    <3> QED BY <2>1, <3>2, <3>3
  <2>3. CASE c = g
    <3>1. Held(<<c, 0>>, StoreLabels) /\ ~Held(<<c, 0>>, StoreLabels)'
      <4>1. <<c, 0>> = f.item /\ <<c, 0>> = Top(t).item /\ f.at \notin StoreLabels
        BY <1>2, <1>5, <1>7, <2>3, Zenon DEF StoreLabels
      <4>2. Held(<<c, 0>>, StoreLabels)
        BY <4>1, HeldAtTop, Zenon DEF IInv, StoreLabels
      <4>3. ~Held(<<c, 0>>, StoreLabels)'
        BY <1>8, <4>1, HeldSwapped, Zenon DEF IInv
      <4> QED BY <4>2, <4>3, Zenon
    <3>2. ASSUME NEW k \in 1..Slices
          PROVE  Awaits(<<c, k>>, {"run", "count_down"})' <=>
                     k = n \/ Awaits(<<c, k>>, {"run", "count_down"})
      BY <1>13, <1>14, <2>3, Zenon
    <3>3. Open(c)' = Open(c) \cup {n}
      BY <1>4, <3>2, Zenon DEF Open
    <3>4. n \notin Open(c)
      <4>1. Awaits(x0, {"run", "count_down"}) => Awaits(x0, Labels)
        BY Zenon DEF Awaits, Held, Labels, SliceLabels
      <4> QED BY <1>9, <2>3, <4>1, Zenon DEF Open
    <3>5. Cardinality(Open(c)') = Cardinality(Open(c)) + 1 /\ Cardinality(Open(c)) \in Nat
      BY <3>3, <3>4, OpenIsFinite, FS_AddElement
    <3> QED BY <2>1, <3>1, <3>5
  <2> QED BY <2>2, <2>3, Zenon
<1>20. RanInv'
  <2>1. ASSUME NEW c \in Groups, Unstarted(c)', NEW k \in 1..Slices PROVE ran'[<<c, k>>] = 0
    BY <2>1, Zenon DEF IInv, RanInv, Unstarted
  <2>2. ASSUME NEW u \in Threads, NEW h \in Calls(u)', h.at \in LiveLabels, NEW k \in 1..Slices
        PROVE  ran'[<<h.item[1], k>>] =
                   IF k < h.next /\ ~Awaits(<<h.item[1], k>>, {"run"})' THEN 1 ELSE 0
    <3>1. CASE u = t /\ h = f
      <4>1. ran[<<g, k>>] = IF k < n /\ ~Awaits(<<g, k>>, {"run"}) THEN 1 ELSE 0
        BY <1>1, <1>2, <1>7, Zenon DEF IInv, RanInv
      <4>2. Awaits(<<g, k>>, {"run"})' <=> k = n \/ Awaits(<<g, k>>, {"run"})
        BY <1>13, <1>14
      <4>3. h.item[1] = g /\ (k < h.next <=> k < n \/ k = n) /\ ~(k < n /\ k = n)
        BY <1>4, <1>5, <1>7, <3>1
      <4> QED BY <4>1, <4>2, <4>3
    <3>2. CASE ~(u = t /\ h = f)
      <4>1. h \in Calls(u) /\ h.item[1] # g
        BY <1>12, <1>15, <2>2, <3>2, Zenon
      <4>2. <<h.item[1], k>> # x0
        BY <4>1, Zenon
      <4>3. Awaits(<<h.item[1], k>>, {"run"})' <=> Awaits(<<h.item[1], k>>, {"run"})
        BY <1>13, <1>14, <4>2, Zenon
      <4> QED BY <2>2, <4>1, <4>3, Zenon DEF IInv, RanInv
    <3> QED BY <3>1, <3>2, Zenon
  <2> QED BY <2>1, <2>2, Zenon DEF RanInv
<1>21. TypeOK'
  BY <1>8, <1>11 DEF IInv, TypeOK, StackType
<1>22. NDRangeIsWhole'
  BY Zenon DEF IInv, NDRangeIsWhole
<1> QED BY <1>8, <1>16, <1>17, <1>18, <1>19, <1>20, <1>21, <1>22, Zenon DEF IInv

\* EndGroup and Notify: a call that awaits nothing returns.
LEMMA ReturnKeeps ==
    ASSUME IInv, NEW t \in Threads, stack[t] # << >>, Top(t).at \in {"end", "notify"},
           Pop(t), UNCHANGED <<pending, waitMutex, queued, live, ran, phase>>
    PROVE  IInv'
<1>1. StackType' /\ HeldOnce' /\ Returned(t)
  BY PopStep, Zenon DEF IInv
<1>2. Ring' = Ring
  BY Zenon DEF Ring
<1>3. ASSUME NEW u \in Threads, NEW h \in Calls(u)'
      PROVE  h \in Calls(u) /\ CallOK(u, h) /\ (h.at # "help" => h = Top(u)')
  <2>1. h \in Calls(u) /\ h.item # Top(t).item
    BY <1>1, ReturnedCall, Zenon DEF IInv
  <2>2. CallOK(u, h)
    BY <2>1, Zenon DEF IInv, PlacesInv
  <2>3. h.at # "help" => h = Top(u) /\ u # t
    BY <2>1, <2>2, Zenon DEF CallOK
  <2>4. h.at # "help" => h = Top(u)'
    BY <1>1, <2>3, Zenon DEF Returned, OthersKept
  <2> QED BY <2>1, <2>2, <2>4, Zenon
<1>4. ASSUME NEW x, NEW labels
      PROVE  /\ Held(x, labels)' => Held(x, labels)
             /\ Awaits(x, labels)' => Awaits(x, labels)
  BY <1>1, <1>2, HeldReturned, Zenon DEF IInv, Awaits
<1>5. ASSUME NEW x, NEW labels \in SUBSET {"run", "count_down", "store", "full_wait", "full_relock"}
      PROVE  /\ Held(x, labels)' <=> Held(x, labels)
             /\ Awaits(x, labels)' <=> Awaits(x, labels)
  <2>1. ~Held(Top(t).item, labels)
    BY HeldAtTop, Zenon DEF IInv
  <2>2. Held(x, labels)' <=> Held(x, labels)
    BY <1>1, <2>1, HeldReturned, Zenon DEF IInv
  <2> QED BY <1>2, <2>2, Zenon DEF Awaits
<1>6. RingOnce'
  BY <1>2, <1>3, Zenon DEF IInv, RingOnce
<1>7. PlacesInv'
  <2>1. \A u \in Threads : \A h \in Calls(u)' : CallOK(u, h)'
    BY <1>3, Zenon DEF CallOK
  <2>2. \A x \in Ring' : QueuedOK(x)'
    BY <1>2, Zenon DEF IInv, PlacesInv, QueuedOK
  <2> QED BY <2>1, <2>2, Zenon DEF IInv, PlacesInv
<1>8. NextInv'
  <2>1. ASSUME NEW g \in Groups, Unstarted(g)', NEW k \in 1..Slices
        PROVE  ~Awaits(<<g, k>>, Labels)'
    BY <1>4, <2>1, Zenon DEF IInv, NextInv, Unstarted
  <2>2. ASSUME NEW u \in Threads, NEW h \in Calls(u)', h.at \in LiveLabels,
               NEW k \in 1..Slices, Awaits(<<h.item[1], k>>, Labels)'
        PROVE  k < h.next
    BY <1>3, <1>4, <2>2, Zenon DEF IInv, NextInv
  <2> QED BY <2>1, <2>2, Zenon DEF NextInv
<1>9. CountInv'
  <2> SUFFICES ASSUME NEW g \in Groups, live'[g]
               PROVE  queued'[g] = Cardinality(Open(g))'
                                     + (IF Held(<<g, 0>>, StoreLabels) THEN 1 ELSE 0)'
    BY Zenon DEF CountInv
  <2>1. Open(g)' = Open(g)
    BY <1>5, Zenon DEF Open
  <2>2. Held(<<g, 0>>, StoreLabels)' <=> Held(<<g, 0>>, StoreLabels)
    BY <1>5, Zenon DEF StoreLabels
  <2> QED BY <2>1, <2>2 DEF IInv, CountInv
<1>10. RanInv'
  <2>1. ASSUME NEW x PROVE Awaits(x, {"run"})' <=> Awaits(x, {"run"})
    BY <1>5, Zenon
  <2>2. ASSUME NEW g \in Groups, Unstarted(g)', NEW k \in 1..Slices PROVE ran'[<<g, k>>] = 0
    BY <2>2, Zenon DEF IInv, RanInv, Unstarted
  <2>3. ASSUME NEW u \in Threads, NEW h \in Calls(u)', h.at \in LiveLabels, NEW k \in 1..Slices
        PROVE  ran'[<<h.item[1], k>>] =
                   IF k < h.next /\ ~Awaits(<<h.item[1], k>>, {"run"})' THEN 1 ELSE 0
    BY <1>3, <2>1, <2>3, Zenon DEF IInv, RanInv
  <2> QED BY <2>2, <2>3, Zenon DEF RanInv
<1>11. TypeOK'
  BY <1>1 DEF IInv, TypeOK, StackType
<1>12. NDRangeIsWhole'
  BY Zenon DEF IInv, NDRangeIsWhole
<1> QED BY <1>1, <1>6, <1>7, <1>8, <1>9, <1>10, <1>11, <1>12, Zenon DEF IInv

\* GetWork and Help: an item leaves the ring for a call above calls that help.
LEMMA TakeKeeps ==
    ASSUME IInv, NEW t \in Threads, Take(t), \A h \in Calls(t) : h.at = "help"
    PROVE  IInv'
<1>1. PICK x0, f :
          /\ x0 = Head(pending)
          /\ f = [item |-> x0, next |-> 1, at |-> IF x0[2] = 0 THEN "variant" ELSE "run"]
          /\ pending # << >> /\ pending' = Tail(pending) /\ Push(t, f)
          /\ UNCHANGED <<waitMutex, queued, live, ran, phase>>
  BY Zenon DEF Take
<1>2. /\ pending' \in Seq(Items) /\ x0 \in Ring /\ x0 \in Items /\ Ring' = Ring \ {x0}
      /\ \A i, j \in DOMAIN pending' : pending'[i] = pending'[j] => i = j
  BY <1>1, TailRing, Zenon DEF IInv
<1>3. QueuedOK(x0) /\ x0 = <<x0[1], x0[2]>> /\ x0[1] \in Groups
  BY <1>2 DEF IInv, PlacesInv, Items
<1>4. /\ {"variant", "run"} \subseteq Labels /\ "variant" \in GroupLabels
      /\ "run" \notin GroupLabels /\ "variant" \notin LiveLabels /\ "run" \notin LiveLabels
      /\ "run" \in SliceLabels /\ "variant" \notin SliceLabels
  BY Zenon DEF Labels, GroupLabels, StoreLabels, LiveLabels, SliceLabels
<1>5. /\ f.item = x0 /\ f.next = 1 /\ f.at \in {"variant", "run"}
      /\ f.at = "variant" <=> x0[2] = 0
      /\ f.at = "run" <=> x0[2] # 0
  BY <1>1
<1>6. f \in Frames
  <2>1. 1 \in 1..(Slices + 1)
    BY NDRangeAssumption
  <2> QED BY <1>1, <1>2, <1>4, <2>1 DEF Frames
<1>7. ASSUME NEW u \in Threads, NEW h \in Calls(u) PROVE h.item # x0
  BY <1>2, Zenon DEF IInv, RingOnce
<1>8. StackType' /\ HeldOnce' /\ Called(t, f)
  BY <1>1, <1>5, <1>6, <1>7, PushStep, Zenon DEF IInv
<1>9. ASSUME NEW u \in Threads, NEW h \in Calls(u)', ~(u = t /\ h = f)
      PROVE  h \in Calls(u) /\ CallOK(u, h) /\ (h.at # "help" => h = Top(u)')
  <2>1. h \in Calls(u)
    BY <1>8, <1>9, CalledCall, Zenon
  <2>2. CallOK(u, h)
    BY <2>1, Zenon DEF IInv, PlacesInv
  <2>3. h.at # "help" => h = Top(u) /\ u # t
    BY <2>1, <2>2, Zenon DEF CallOK
  <2>4. h.at # "help" => h = Top(u)'
    BY <1>8, <2>3, Zenon DEF Called, OthersKept
  <2> QED BY <2>1, <2>2, <2>4, Zenon
<1>10. ASSUME NEW x, NEW labels, x = x0 => f.at \in labels
       PROVE  Awaits(x, labels)' <=> Awaits(x, labels)
  <2>1. Held(x, labels)' <=> (x = x0 /\ f.at \in labels) \/ Held(x, labels)
    BY <1>5, <1>8, HeldCalled, Zenon
  <2> QED BY <1>2, <1>10, <2>1, Zenon DEF Awaits
<1>11. ASSUME NEW g, NEW k \in 1..Slices, <<g, k>> = x0 PROVE f.at = "run"
  <2>1. x0[2] # 0
    BY <1>11, NDRangeAssumption
  <2> QED BY <1>5, <2>1, Zenon
<1>12. RingOnce'
  <2>1. ASSUME NEW u \in Threads, NEW h \in Calls(u)' PROVE h.item \notin Ring'
    <3>1. CASE u = t /\ h = f
      BY <1>2, <1>5, <3>1, Zenon
    <3>2. CASE ~(u = t /\ h = f)
      BY <1>2, <1>9, <3>2, Zenon DEF IInv, RingOnce
    <3> QED BY <3>1, <3>2, Zenon
  <2> QED BY <1>2, <2>1, Zenon DEF RingOnce
<1>13. PlacesInv'
  <2>1. CallOK(t, f)'
    <3>1. f = Top(t)'
      BY <1>8, Zenon DEF Called
    <3>2. f.at \notin {"test_zero", "end", "help", "first_wait", "second_wait",
                       "count_up", "store", "full_wait", "full_relock"}
      BY <1>5, Zenon
    <3>3. phase'[x0[1]] = "submitted" /\ (live'[x0[1]] <=> x0[2] # 0)
      BY <1>1, <1>3, Zenon DEF QueuedOK
    <3>4. f.at \in LiveLabels \cup SliceLabels <=> x0[2] # 0
      BY <1>4, <1>5, Zenon
    <3>5. f.at \in GroupLabels <=> x0[2] = 0
      BY <1>4, <1>5, Zenon
    <3>6. phase'[x0[1]] # "new"
      BY <3>3, Zenon
    <3>7. f.item[1] = x0[1] /\ f.item[2] = x0[2] /\ (f.at = "variant" => ~live'[x0[1]])
      BY <1>5, <3>3, Zenon
    <3> QED BY <1>5, <3>1, <3>2, <3>3, <3>4, <3>5, <3>6, <3>7, Zenon DEF CallOK, StoreLabels
  <2>2. ASSUME NEW u \in Threads, NEW h \in Calls(u)', ~(u = t /\ h = f) PROVE CallOK(u, h)'
    BY <1>1, <1>9, <2>2, Zenon DEF CallOK
  <2>3. \A x \in Ring' : QueuedOK(x)'
    BY <1>1, <1>2, Zenon DEF IInv, PlacesInv, QueuedOK
  <2>4. ASSUME NEW c \in Groups, live'[c] PROVE phase'[c] = "submitted"
    BY <1>1, <2>4, Zenon DEF PlacesInv, IInv
  <2> QED BY <2>1, <2>2, <2>3, <2>4, Zenon DEF PlacesInv
<1>14. NextInv'
  <2>1. ASSUME NEW x PROVE Awaits(x, Labels)' <=> Awaits(x, Labels)
    BY <1>4, <1>5, <1>10, Zenon
  <2>2. ASSUME NEW g \in Groups, Unstarted(g)', NEW k \in 1..Slices
        PROVE  ~Awaits(<<g, k>>, Labels)'
    BY <1>1, <2>1, <2>2, Zenon DEF IInv, NextInv, Unstarted
  <2>3. ASSUME NEW u \in Threads, NEW h \in Calls(u)', h.at \in LiveLabels,
               NEW k \in 1..Slices, Awaits(<<h.item[1], k>>, Labels)'
        PROVE  k < h.next
    <3>1. ~(u = t /\ h = f)
      BY <1>4, <1>5, <2>3, Zenon
    <3> QED BY <1>9, <2>1, <2>3, <3>1, Zenon DEF IInv, NextInv
  <2> QED BY <2>2, <2>3, Zenon DEF NextInv
<1>15. CountInv'
  <2> SUFFICES ASSUME NEW g \in Groups, live'[g]
               PROVE  queued'[g] = Cardinality(Open(g))'
                                     + (IF Held(<<g, 0>>, StoreLabels) THEN 1 ELSE 0)'
    BY Zenon DEF CountInv
  <2>1. Open(g)' = Open(g)
    BY <1>10, <1>11, Zenon DEF Open
  <2>2. Held(<<g, 0>>, StoreLabels)' <=> Held(<<g, 0>>, StoreLabels)
    <3>1. f.at \notin StoreLabels
      BY <1>5, Zenon DEF StoreLabels
    <3> QED BY <1>8, <3>1, HeldCalled, Zenon
  <2> QED BY <1>1, <2>1, <2>2 DEF IInv, CountInv
<1>16. RanInv'
  <2>1. ASSUME NEW g \in Groups, Unstarted(g)', NEW k \in 1..Slices PROVE ran'[<<g, k>>] = 0
    BY <1>1, <2>1, Zenon DEF IInv, RanInv, Unstarted
  <2>2. ASSUME NEW u \in Threads, NEW h \in Calls(u)', h.at \in LiveLabels, NEW k \in 1..Slices
        PROVE  ran'[<<h.item[1], k>>] =
                   IF k < h.next /\ ~Awaits(<<h.item[1], k>>, {"run"})' THEN 1 ELSE 0
    <3>1. ~(u = t /\ h = f)
      BY <1>4, <1>5, <2>2, Zenon
    <3>2. Awaits(<<h.item[1], k>>, {"run"})' <=> Awaits(<<h.item[1], k>>, {"run"})
      BY <1>10, <1>11, Zenon
    <3> QED BY <1>1, <1>9, <2>2, <3>1, <3>2, Zenon DEF IInv, RanInv
  <2> QED BY <2>1, <2>2, Zenon DEF RanInv
<1>17. TypeOK'
  BY <1>1, <1>2, <1>8 DEF IInv, TypeOK, StackType
<1>18. NDRangeIsWhole'
  BY <1>1, Zenon DEF IInv, NDRangeIsWhole
<1> QED BY <1>8, <1>12, <1>13, <1>14, <1>15, <1>16, <1>17, <1>18, Zenon DEF IInv

LEMMA SubmitKeeps ==
    ASSUME IInv, NEW g \in Groups, Submit(g)
    PROVE  IInv'
<1> DEFINE x0 == <<g, 0>>
<1>1. /\ phase[g] = "new" /\ pending' = Append(pending, x0)
      /\ phase' = [phase EXCEPT ![g] = "submitted"]
      /\ UNCHANGED <<waitMutex, queued, live, stack, ran>>
  BY Zenon DEF Submit
<1>2. phase \in [Groups -> {"new", "submitted", "skipped", "executed"}]
  BY Zenon DEF IInv, TypeOK
<1>3. phase'[g] = "submitted" /\ \A c \in Groups \ {g} : phase'[c] = phase[c]
  BY <1>1, <1>2, Zenon
<1>4. ~live[g]
  BY <1>1, Zenon DEF IInv, PlacesInv
<1>5. x0 \in Items
  BY NDRangeAssumption DEF Items
<1>6. ASSUME NEW x \in Ring PROVE x[1] # g /\ x[1] \in Groups
  <2>1. x \in Items /\ QueuedOK(x)
    BY <1>6 DEF IInv, TypeOK, PlacesInv, Ring
  <2> QED BY <1>1, <2>1 DEF QueuedOK, Items
<1>7. ASSUME NEW u \in Threads, NEW h \in Calls(u) PROVE h.item[1] # g /\ h.item[1] \in Groups
  <2>1. CallOK(u, h) /\ h \in Frames
    BY <1>7, CallsAreFrames, Zenon DEF IInv, PlacesInv
  <2>2. h.item[1] \in Groups
    BY <2>1 DEF Frames, Items
  <2> QED BY <1>1, <2>1, <2>2, Zenon DEF CallOK
<1>8. x0 \notin Ring /\ \A u \in Threads : \A h \in Calls(u) : h.item # x0
  BY <1>6, <1>7
<1>9. /\ pending' \in Seq(Items) /\ Ring' = Ring \cup {x0}
      /\ \A i, j \in DOMAIN pending' : pending'[i] = pending'[j] => i = j
  BY <1>1, <1>5, <1>8, AppendRing, Zenon DEF IInv, RingOnce
<1>10. \A u \in Threads : Calls(u)' = Calls(u) /\ Top(u)' = Top(u)
  BY <1>1, Zenon DEF Calls, Top
<1>11. ASSUME NEW c, NEW k \in 1..Slices, NEW labels
       PROVE  Awaits(<<c, k>>, labels)' <=> Awaits(<<c, k>>, labels)
  <2>1. <<c, k>> # x0
    BY NDRangeAssumption
  <2> QED BY <1>9, <1>10, <2>1, Zenon DEF Awaits, Held
<1>12. \A c \in Groups : Unstarted(c)' => Unstarted(c)
  BY <1>1, <1>3, <1>4, Zenon DEF Unstarted
<1> HIDE DEF x0
<1>13. RingOnce'
  BY <1>8, <1>9, <1>10, Zenon DEF IInv, RingOnce
<1>14. HeldOnce'
  <2>1. \A u \in Threads : Distinct(stack'[u])
    BY <1>1, Zenon DEF IInv, HeldOnce
  <2>2. ASSUME NEW u \in Threads, NEW v \in Threads,
               NEW e \in Calls(u)', NEW h \in Calls(v)', e.item = h.item
        PROVE  u = v
    <3>1. e \in Calls(u) /\ h \in Calls(v)
      BY <1>10, <2>2, Zenon
    <3> QED BY <2>2, <3>1, Zenon DEF IInv, HeldOnce
  <2> QED BY <2>1, <2>2, Zenon DEF HeldOnce
<1>15. PlacesInv'
  <2>1. ASSUME NEW u \in Threads, NEW h \in Calls(u)' PROVE CallOK(u, h)'
    <3>1. h \in Calls(u) /\ CallOK(u, h)
      BY <1>10, <2>1, Zenon DEF IInv, PlacesInv
    <3>2. phase'[h.item[1]] = phase[h.item[1]]
      BY <1>3, <1>7, <3>1, Zenon
    <3> QED BY <1>1, <1>10, <3>1, <3>2, Zenon DEF CallOK
  <2>2. ASSUME NEW x \in Ring' PROVE QueuedOK(x)'
    <3>1. CASE x = x0
      <4>1. x[1] = g /\ x[2] = 0
        BY <3>1 DEF x0
      <4> QED BY <1>1, <1>3, <1>4, <4>1, Zenon DEF QueuedOK
    <3>2. CASE x \in Ring
      BY <1>1, <1>3, <1>6, <3>2, Zenon DEF QueuedOK, IInv, PlacesInv
    <3> QED BY <1>9, <3>1, <3>2, Zenon
  <2>3. \A c \in Groups : live'[c] => phase'[c] = "submitted"
    BY <1>1, <1>3, Zenon DEF IInv, PlacesInv
  <2> QED BY <2>1, <2>2, <2>3, Zenon DEF PlacesInv
<1>16. NextInv'
  BY <1>10, <1>11, <1>12, Zenon DEF IInv, NextInv
<1>17. CountInv'
  <2> SUFFICES ASSUME NEW c \in Groups, live'[c]
               PROVE  queued'[c] = Cardinality(Open(c))'
                                     + (IF Held(<<c, 0>>, StoreLabels) THEN 1 ELSE 0)'
    BY Zenon DEF CountInv
  <2>1. Open(c)' = Open(c)
    BY <1>11, Zenon DEF Open
  <2>2. Held(<<c, 0>>, StoreLabels)' <=> Held(<<c, 0>>, StoreLabels)
    BY <1>10, Zenon DEF Held
  <2> QED BY <1>1, <2>1, <2>2 DEF IInv, CountInv
<1>18. RanInv'
  <2>1. ASSUME NEW c \in Groups, Unstarted(c)', NEW k \in 1..Slices PROVE ran'[<<c, k>>] = 0
    BY <1>1, <1>12, <2>1, Zenon DEF IInv, RanInv
  <2>2. ASSUME NEW u \in Threads, NEW h \in Calls(u)', h.at \in LiveLabels, NEW k \in 1..Slices
        PROVE  ran'[<<h.item[1], k>>] =
                   IF k < h.next /\ ~Awaits(<<h.item[1], k>>, {"run"})' THEN 1 ELSE 0
    BY <1>1, <1>10, <1>11, <2>2, Zenon DEF IInv, RanInv
  <2> QED BY <2>1, <2>2, Zenon DEF RanInv
<1>19. TypeOK'
  BY <1>1, <1>9 DEF IInv, TypeOK
<1>20. NDRangeIsWhole'
  BY <1>1, <1>3, Zenon DEF IInv, NDRangeIsWhole
<1> QED BY <1>13, <1>14, <1>15, <1>16, <1>17, <1>18, <1>19, <1>20, Zenon DEF IInv

\* A step that changes none of the variables IInv speaks of.
LEMMA OtherVariables ==
    ASSUME IInv, UNCHANGED <<pending, waitMutex, queued, live, stack, ran, phase>>
    PROVE  IInv'
<1>1. Ring' = Ring /\ \A t \in Threads : Calls(t)' = Calls(t) /\ Top(t)' = Top(t)
  BY Zenon DEF Ring, Calls, Top
<1>2. ASSUME NEW x, NEW labels
      PROVE  /\ Held(x, labels)' <=> Held(x, labels)
             /\ Awaits(x, labels)' <=> Awaits(x, labels)
  BY <1>1, Zenon DEF Held, Awaits
<1>3. TypeOK' /\ HeldOnce' /\ RingOnce' /\ NDRangeIsWhole'
  BY <1>1 DEF IInv, TypeOK, HeldOnce, RingOnce, NDRangeIsWhole
<1>4. PlacesInv'
  BY <1>1, Zenon DEF IInv, PlacesInv, CallOK, QueuedOK
<1>5. \A g \in Groups : Unstarted(g)' <=> Unstarted(g)
  BY Zenon DEF Unstarted
<1>6. CountInv'
  <2>1. \A g \in Groups : Open(g)' = Open(g)
    BY <1>2, Zenon DEF Open
  <2> QED BY <1>2, <2>1 DEF IInv, CountInv
<1>7. NextInv'
  BY <1>1, <1>2, <1>5, Zenon DEF IInv, NextInv
<1>8. RanInv'
  <2>1. ASSUME NEW g \in Groups, Unstarted(g)', NEW k \in 1..Slices PROVE ran'[<<g, k>>] = 0
    BY <1>5, <2>1, Zenon DEF IInv, RanInv
  <2>2. ASSUME NEW t \in Threads, NEW f \in Calls(t)', f.at \in LiveLabels, NEW k \in 1..Slices
        PROVE  ran'[<<f.item[1], k>>] =
                   IF k < f.next /\ ~Awaits(<<f.item[1], k>>, {"run"})' THEN 1 ELSE 0
    BY <1>1, <1>2, <2>2, Zenon DEF IInv, RanInv
  <2> QED BY <2>1, <2>2, Zenon DEF RanInv
<1> QED BY <1>3, <1>4, <1>6, <1>7, <1>8, Zenon DEF IInv

LEMMA GetWorkKeeps ==
    ASSUME IInv, NEW t \in Threads, GetWork(t)
    PROVE  IInv'
<1>1. Calls(t) = {} /\ Take(t)
  BY DEF GetWork, Calls
<1> QED BY <1>1, TakeKeeps, Zenon

LEMMA HelpKeeps ==
    ASSUME IInv, NEW t \in Threads, Help(t)
    PROVE  IInv'
<1>1. Top(t).at = "help" /\ Take(t)
  BY Zenon DEF Help, At
<1>2. \A h \in Calls(t) : h.at = "help"
  BY <1>1, Zenon DEF IInv, PlacesInv, CallOK
<1> QED BY <1>1, <1>2, TakeKeeps, Zenon

LEMMA StoreSliceKeeps ==
    ASSUME IInv, NEW t \in Threads, StoreSlice(t)
    PROVE  IInv'
  BY StoreKeeps, Zenon DEF StoreSlice, At

\* FullWait, FullWake and FullRelock: the call that stores a slice goes from one of
\* its labels to another, and at most the wait mutex changes hands.
LEMMA FullKeeps ==
    ASSUME IInv, NEW t \in Threads, stack[t] # << >>,
           Top(t).at \in StoreLabels, NEW label \in StoreLabels, Goto(t, label),
           waitMutex' \in Threads \cup {NoThread},
           label = "full_relock" => waitMutex' = t,
           \A u \in Threads : \A h \in Calls(u) :
               h.at \in {"test_zero", "full_relock"} /\ h.item # Top(t).item
                   => waitMutex' = u,
           UNCHANGED <<pending, queued, live, ran, phase>>
    PROVE  IInv'
<1>1. label \in Labels /\ label \in LiveLabels /\ Top(t).at \in LiveLabels
  BY Zenon DEF Labels, GroupLabels, StoreLabels, LiveLabels
<1>2. StackType' /\ HeldOnce'
  BY <1>1, GotoSwaps, Zenon
<1>3. PICK f \in Frames : /\ Swaps(t, f) /\ Becomes(t, f) /\ f.item = Top(t).item
                          /\ f.next = Top(t).next /\ f.at = label
  BY <1>1, GotoSwaps, Zenon
<1>4. CallOK(t, Top(t))
  BY TopFacts, Zenon
<1>5. CallOK(t, f)'
  <2>1. f = Top(t)'
    BY <1>3, Zenon DEF Becomes
  <2>2. Top(t).at \in GroupLabels /\ f.at \in GroupLabels
    BY <1>3, Zenon DEF GroupLabels
  <2>3. f.at \notin {"test_zero", "variant", "end", "help", "first_wait", "second_wait"}
    BY <1>3, Zenon DEF StoreLabels
  <2>4. live[f.item[1]] /\ f.next <= Slices /\ f.item[2] = 0 /\ phase[f.item[1]] # "new"
    BY <1>1, <1>3, <1>4, <2>2, Zenon DEF CallOK
  <2>5. f.at = "full_relock" => waitMutex' = t
    BY <1>3, Zenon
  <2> QED BY <2>1, <2>2, <2>3, <2>4, <2>5, Zenon DEF CallOK
<1>6. \A g \in Groups : Unstarted(g)' => Unstarted(g)
  BY Zenon DEF Unstarted
<1>7. TypeOK'
  BY <1>2 DEF IInv, TypeOK, StackType
<1>8. RingOnce'
  BY <1>3, RingOnceSwapped, Zenon
<1>9. PlacesInv'
  BY <1>3, <1>5, PlacesSwapped, Zenon DEF IInv
<1>10. NextInv'
  BY <1>1, <1>3, <1>6, NextSwapped, Zenon DEF IInv
<1>11. Top(t).at \notin {"run", "count_down"} /\ f.at \notin {"run", "count_down"}
  BY <1>3, Zenon DEF StoreLabels
<1>12. CountInv'
  BY <1>3, <1>11, CountSwapped, Zenon DEF IInv
<1>13. RanInv'
  BY <1>1, <1>3, <1>6, <1>11, RanSwapped, Zenon DEF IInv
<1>14. NDRangeIsWhole'
  BY Zenon DEF IInv, NDRangeIsWhole
<1> QED BY <1>2, <1>7, <1>8, <1>9, <1>10, <1>12, <1>13, <1>14, Zenon DEF IInv

LEMMA FullWaitKeeps ==
    ASSUME IInv, NEW t \in Threads, FullWait(t)
    PROVE  IInv'
<1>1. /\ stack[t] # << >> /\ Top(t).at \in StoreLabels /\ "full_wait" \in StoreLabels
      /\ Goto(t, "full_wait")
      /\ UNCHANGED <<pending, waitMutex, queued, live, ran, phase>>
  BY Zenon DEF FullWait, At, StoreLabels
<1>2. waitMutex' \in Threads \cup {NoThread}
  BY <1>1, Zenon DEF IInv, TypeOK
<1>3. \A u \in Threads : \A h \in Calls(u) :
          h.at \in {"test_zero", "full_relock"} => waitMutex' = u
  BY <1>1, Zenon DEF IInv, PlacesInv, CallOK
<1>4. "full_wait" # "full_relock"
  OBVIOUS
<1> QED BY <1>1, <1>2, <1>3, <1>4, FullKeeps, Zenon

LEMMA FullWakeKeeps ==
    ASSUME IInv, NEW t \in Threads, FullWake(t)
    PROVE  IInv'
<1>1. /\ stack[t] # << >> /\ Top(t).at \in StoreLabels /\ "full_relock" \in StoreLabels
      /\ Goto(t, "full_relock") /\ waitMutex = NoThread /\ waitMutex' = t
      /\ UNCHANGED <<pending, queued, live, ran, phase>>
  BY Zenon DEF FullWake, At, StoreLabels, ringVars
<1>2. \A u \in Threads : \A h \in Calls(u) : h.at \notin {"test_zero", "full_relock"}
  BY <1>1, NDRangeAssumption, Zenon DEF IInv, PlacesInv, CallOK
<1> QED BY <1>1, <1>2, FullKeeps, Zenon

LEMMA FullRelockKeeps ==
    ASSUME IInv, NEW t \in Threads, FullRelock(t)
    PROVE  IInv'
<1>1. /\ stack[t] # << >> /\ Top(t).at = "full_relock"
      /\ Top(t).at \in StoreLabels /\ "store" \in StoreLabels
      /\ Goto(t, "store") /\ waitMutex' = NoThread
      /\ UNCHANGED <<pending, queued, live, ran, phase>>
  BY Zenon DEF FullRelock, At, StoreLabels
<1>2. CallOK(t, Top(t))
  BY <1>1, TopFacts, Zenon
<1>3. ASSUME NEW u \in Threads, NEW h \in Calls(u), h.at \in {"test_zero", "full_relock"}
      PROVE  h.item = Top(t).item
  <2>1. CallOK(u, h)
    BY Zenon DEF IInv, PlacesInv
  <2>2. u = t
    BY <1>1, <1>2, <1>3, <2>1, Zenon DEF CallOK
  <2>3. h = Top(u)
    BY <1>3, <2>1, Zenon DEF CallOK
  <2> QED BY <2>2, <2>3, Zenon
<1>4. "store" # "full_relock"
  OBVIOUS
<1> QED BY <1>1, <1>3, <1>4, FullKeeps, Zenon

LEMMA InitIInv == Init => IInv
<1> SUFFICES ASSUME Init PROVE IInv
  OBVIOUS
<1>1. Ring = {} /\ \A t \in Threads : Calls(t) = {}
  BY DEF Init, Ring, Calls
<1>2. TypeOK
  BY DEF Init, TypeOK
<1>3. HeldOnce
  BY <1>1 DEF Init, HeldOnce, Distinct
<1>4. RingOnce /\ PlacesInv
  BY <1>1 DEF Init, RingOnce, PlacesInv
<1>5. \A x, labels : ~Awaits(x, labels)
  BY <1>1, Zenon DEF Awaits, Held
<1>6. NextInv
  BY <1>1, <1>5, Zenon DEF NextInv
<1>7. CountInv /\ RanInv /\ NDRangeIsWhole
  BY <1>1 DEF Init, CountInv, RanInv, NDRangeIsWhole
<1> QED BY <1>2, <1>3, <1>4, <1>6, <1>7, Zenon DEF IInv

LEMMA NextIInv == IInv /\ [Next]_vars => IInv'
<1> SUFFICES ASSUME IInv, [Next]_vars PROVE IInv'
  OBVIOUS
<1>1. ASSUME NEW g \in Groups, Submit(g) PROVE IInv'
  BY <1>1, SubmitKeeps, Zenon
<1>2. ASSUME NEW t \in Threads, Step(t) PROVE IInv'
  <2>1. CASE GetWork(t)
    BY <2>1, GetWorkKeeps, Zenon
  <2>2. CASE KernelVariant(t)
    BY <2>2, KernelVariantKeeps, Zenon
  <2>3. CASE CountSlice(t)
    BY <2>3, CountSliceKeeps, Zenon
  <2>4. CASE StoreSlice(t)
    BY <2>4, StoreSliceKeeps, Zenon
  <2>5. CASE Help(t)
    BY <2>5, HelpKeeps, Zenon
  <2>6. CASE HelpEnds(t)
    BY <2>6, HelpEndsKeeps, Zenon
  <2>7. CASE FirstWait(t)
    BY <2>7, FirstWaitKeeps, Zenon
  <2>8. CASE SecondWait(t)
    BY <2>8, SecondWaitKeeps, Zenon
  <2>9. CASE EndGroup(t)
    BY <2>9, ReturnKeeps, Zenon DEF EndGroup, At
  <2>10. CASE RunSlice(t)
    BY <2>10, RunSliceKeeps, Zenon
  <2>11. CASE CountDown(t)
    BY <2>11, CountDownKeeps, Zenon
  <2>12. CASE TestZero(t)
    BY <2>12, TestZeroKeeps, Zenon
  <2>13. CASE Notify(t)
    BY <2>13, ReturnKeeps, Zenon DEF Notify, At
  <2>14. CASE FullWait(t)
    BY <2>14, FullWaitKeeps, Zenon
  <2>15. CASE FullWake(t)
    BY <2>15, FullWakeKeeps, Zenon
  <2>16. CASE FullRelock(t)
    BY <2>16, FullRelockKeeps, Zenon
  <2> QED BY <1>2, <2>1, <2>2, <2>3, <2>4, <2>5, <2>6, <2>7, <2>8, <2>9, <2>10, <2>11,
             <2>12, <2>13, <2>14, <2>15, <2>16, Zenon DEF Step
<1>3. ASSUME NEW t \in Threads, SpuriousWake(t) PROVE IInv'
  BY <1>3, OtherVariables, Zenon DEF SpuriousWake
<1>4. ASSUME UNCHANGED vars PROVE IInv'
  BY <1>4, OtherVariables, Zenon DEF vars, ringVars
<1> QED BY <1>1, <1>2, <1>3, <1>4, Zenon DEF Next

-------------------------------------------------------------------------------
\* The theorems

\* In every reachable state the counter of a commandNDRange that has not returned
\* is the number of its slices that are still to be counted down, and one more
\* while enqueue_range has counted a slice that it has not stored.
THEOREM QueuedCounts == Spec => []CountInv
<1>1. Init => IInv
  BY InitIInv
<1>2. IInv /\ [Next]_vars => IInv'
  BY NextIInv
<1>3. IInv => CountInv
  BY DEF IInv
<1> QED BY <1>1, <1>2, <1>3, PTL DEF Spec

\* No slice, and no thread that may still read the counter after it decremented
\* it, outlives the locals of the commandNDRange that made it: the second wait of
\* commandNDRange is enough.
THEOREM LocalsOutliveSlices == Spec => []LocalsOutlive
<1>1. Init => IInv
  BY InitIInv
<1>2. IInv /\ [Next]_vars => IInv'
  BY NextIInv
<1>3. IInv => LocalsOutlive
  <2> SUFFICES ASSUME IInv, NEW g \in Groups, ~live[g]
               PROVE  Pending(g) = {} /\ Running(g) = {}
    BY Zenon DEF LocalsOutlive
  <2>1. ASSUME NEW x \in Pending(g) PROVE FALSE
    <3>1. x \in Ring /\ x[1] = g /\ x[2] \in 1..Slices
      BY <2>1 DEF Pending, Ring
    <3>2. x[2] # 0
      BY <3>1, NDRangeAssumption
    <3> QED BY <3>1, <3>2, Zenon DEF IInv, PlacesInv, QueuedOK
  <2>2. ASSUME NEW f \in Running(g) PROVE FALSE
    <3>1. PICK t \in Threads : f \in Calls(t)
      BY <2>2, Zenon DEF Running
    <3>2. f.item[1] = g /\ f.at \in SliceLabels
      BY <2>2, Zenon DEF Running, SliceLabels
    <3> QED BY <3>1, <3>2, Zenon DEF IInv, PlacesInv, CallOK
  <2> QED BY <2>1, <2>2, Zenon
<1> QED BY <1>1, <1>2, <1>3, PTL DEF Spec

\* When commandNDRange has returned, each of its slices was executed exactly once.
THEOREM NDRangeRunsWhole == Spec => []NDRangeIsWhole
<1>1. Init => IInv
  BY InitIInv
<1>2. IInv /\ [Next]_vars => IInv'
  BY NextIInv
<1>3. IInv => NDRangeIsWhole
  BY DEF IInv
<1> QED BY <1>1, <1>2, <1>3, PTL DEF Spec
================================================================================
