-------------------------- MODULE EpochCacheProofs --------------------------
(***************************************************************************)
(* Proofs about EpochCache, for every number of keys, concurrent readers   *)
(* and changing handlers.                                                  *)
(***************************************************************************)
EXTENDS EpochCache, SequenceTheorems, TLAPS

LEMMA TypedInit == Init => Typed
<1>1. FirstKey \in Keys
  BY KeyAssumption DEF FirstKey
<1> QED
  BY <1>1 DEF Init, Typed, NoEpoch

LEMMA TypedStep == Typed /\ [Next]_vars => Typed'
<1> SUFFICES ASSUME Typed, [Next]_vars PROVE Typed'
  OBVIOUS
<1> FirstKey \in Keys
  BY KeyAssumption DEF FirstKey
<1> USE DEF Typed, NoEpoch
<1>1. ASSUME NEW r \in Readers, NEW k \in Keys, StartWrap(r, k) PROVE Typed'
  BY <1>1 DEF StartWrap, warmVars
<1>2. ASSUME NEW r \in Readers, SetEpoch(r) PROVE Typed'
  <2>1. store' \subseteq Entry
    BY <1>2 DEF SetEpoch, Kept
  <2> QED
    BY <1>2, <2>1 DEF SetEpoch, warmVars
<1>3. ASSUME NEW r \in Readers, Lookup(r) PROVE Typed'
  <2>1. store' \subseteq Entry
    BY <1>3 DEF Lookup, Kept
  <2>2. CASE Return(r)
    BY <1>3, <2>1, <2>2 DEF Lookup, Return, warmVars
  <2>3. CASE rPc' = [rPc EXCEPT ![r] = "query"] /\ UNCHANGED <<rKey, rEpoch, rVer, rSince>>
    BY <1>3, <2>1, <2>3 DEF Lookup, warmVars
  <2> QED
    BY <1>3, <2>2, <2>3 DEF Lookup
<1>4. ASSUME NEW r \in Readers, Query(r) PROVE Typed'
  BY <1>4 DEF Query, warmVars
<1>5. ASSUME NEW r \in Readers, ThrowWrap(r) PROVE Typed'
  BY <1>5 DEF ThrowWrap, Return, warmVars
<1>6. ASSUME NEW r \in Readers, Store(r) PROVE Typed'
  <2> DEFINE new == [epoch |-> rEpoch[r], key |-> rKey[r], ver |-> rVer[r], overtaken |-> FALSE]
  <2>1. store' \subseteq Entry
    <3>1. new \in Entry
      BY DEF Entry
    <3>2. store' \subseteq store \union {new}
      BY <1>6 DEF Store, Kept, Put
    <3> QED
      BY <3>1, <3>2
  <2> QED
    BY <1>6, <2>1 DEF Store, Return, warmVars
<1>7. ASSUME NEW m \in Mutators, Change(m) PROVE Typed'
  BY <1>7 DEF Change, readVars, warmVars
<1>8. ASSUME NEW m \in Mutators, ThrowChange(m) PROVE Typed'
  BY <1>8 DEF ThrowChange, readVars, warmVars
<1>9. ASSUME NEW m \in Mutators, DelEpoch(m) PROVE Typed'
  <2>1. store' \subseteq Entry
    BY <1>9 DEF DelEpoch, Kept
  <2>2. overtaken' \in [Keys -> BOOLEAN]
    BY <1>9, Zenon DEF DelEpoch
  <2> QED
    BY <1>9, <2>1, <2>2 DEF DelEpoch, readVars
<1>10. ASSUME NEW m \in Mutators, ScheduleRewarm(m) PROVE Typed'
  <2>1. wPc' \in [Keys -> {"idle", "query", "key", "setEpoch", "store"}]
    BY <1>10 DEF ScheduleRewarm
  <2> QED
    BY <1>10, <2>1 DEF ScheduleRewarm, readVars
<1>11. ASSUME NEW k \in Keys, WarmQuery(k) PROVE Typed'
  BY <1>11 DEF WarmQuery, readVars
<1>12. ASSUME NEW k \in Keys, WarmThrow(k) PROVE Typed'
  BY <1>12 DEF WarmThrow, Release, readVars
<1>13. ASSUME NEW k \in Keys, WarmKey(k) PROVE Typed'
  BY <1>13 DEF WarmKey, readVars
<1>14. ASSUME NEW k \in Keys, WarmSetEpoch(k) PROVE Typed'
  <2>1. store' \subseteq Entry
    BY <1>14 DEF WarmSetEpoch, Kept
  <2> QED
    BY <1>14, <2>1 DEF WarmSetEpoch, readVars
<1>15. ASSUME NEW k \in Keys, WarmStore(k) PROVE Typed'
  <2> DEFINE new == [epoch |-> wEpoch[k], key |-> k, ver |-> wVer[k], overtaken |-> overtaken[k]]
  <2>1. store' \subseteq Entry
    <3>1. new \in Entry
      BY DEF Entry
    <3>2. store' \subseteq store \union {new}
      BY <1>15 DEF WarmStore, Kept, Put
    <3> QED
      BY <3>1, <3>2
  <2> QED
    BY <1>15, <2>1 DEF WarmStore, Release, readVars
<1>16. ASSUME NEW k \in Keys, Expire(k) PROVE Typed'
  BY <1>16 DEF Expire, readVars, warmVars
<1>17. ASSUME ExpireEpoch PROVE Typed'
  <2>1. store' \subseteq Entry
    BY <1>17 DEF ExpireEpoch, Kept
  <2> QED
    BY <1>17, <2>1 DEF ExpireEpoch, readVars, warmVars
<1>18. ASSUME Restart PROVE Typed'
  BY <1>18 DEF Restart
<1>19. ASSUME UNCHANGED vars PROVE Typed'
  BY <1>19 DEF vars, readVars, warmVars
<1> QED
  BY <1>1, <1>2, <1>3, <1>4, <1>5, <1>6, <1>7, <1>8, <1>9, <1>10, <1>11, <1>12, <1>13, <1>14,
     <1>15, <1>16, <1>17, <1>18, <1>19 DEF Next, ReadStep, WarmStep

-----------------------------------------------------------------------------
(* The registry of keys to re-warm. *)

\* A Map has each of its keys once.
EachOnce(s) == \A i, j \in DOMAIN s : s[i] = s[j] => i = j

\* Map.delete takes the key out and leaves the others in their order.
LEMMA RemoveFirstIs ==
    ASSUME NEW s \in Seq(Keys), EachOnce(s), NEW k \in Keys, NEW i \in DOMAIN s, s[i] = k,
           NEW t, t = RemoveFirst(s, k)
    PROVE  /\ t \in Seq(Keys)
           /\ Len(t) = Len(s) - 1
           /\ \A j \in 1..Len(t) : t[j] = s[IF j < i THEN j ELSE j + 1]
<1>1. Len(s) \in Nat /\ i \in 1..Len(s) /\ \A j \in 1..Len(s) : s[j] \in Keys
  OBVIOUS
<1>2. SelectInSeq(s, LAMBDA v : v = k) = i
  <2>1. {j \in 1..Len(s) : s[j] = k} = {i}
    BY <1>1 DEF EachOnce
  <2>2. Min({i}) = i
    BY <1>1 DEF Min
  <2> QED
    BY <2>1, <2>2 DEF SelectInSeq
<1> DEFINE a == SubSeq(s, 1, i - 1)
           b == SubSeq(s, i + 1, Len(s))
<1>3. t = a \o b
  BY <1>1, <1>2 DEF RemoveFirst, RemoveAt
<1>4. /\ a \in Seq(Keys) /\ Len(a) = i - 1
      /\ \A j \in 1..(i - 1) : a[j] = s[j]
  <2>1. \A j \in 1..(i - 1) : s[j] \in Keys
    BY <1>1
  <2>2. 1 \in Int /\ i - 1 \in Int
    BY <1>1
  <2>3. /\ a \in Seq(Keys) /\ Len(a) = IF 1 <= i - 1 THEN i - 1 - 1 + 1 ELSE 0
        /\ \A j \in 1..(i - 1 - 1 + 1) : a[j] = s[1 + j - 1]
    BY <2>1, <2>2, SubSeqProperties
  <2>4. Len(a) = i - 1
    BY <1>1, <2>3
  <2> HIDE DEF a
  <2>5. \A j \in 1..(i - 1) : 1 + j - 1 = j
    BY <1>1
  <2>6. i - 1 - 1 + 1 = i - 1
    BY <1>1
  <2> QED
    BY <2>3, <2>4, <2>5, <2>6
<1>5. /\ b \in Seq(Keys) /\ Len(b) = Len(s) - i
      /\ \A j \in 1..(Len(s) - i) : b[j] = s[i + j]
  <2>1. \A j \in (i + 1)..Len(s) : s[j] \in Keys
    BY <1>1
  <2>2. i + 1 \in Int /\ Len(s) \in Int
    BY <1>1
  <2>3. /\ b \in Seq(Keys) /\ Len(b) = IF i + 1 <= Len(s) THEN Len(s) - (i + 1) + 1 ELSE 0
        /\ \A j \in 1..(Len(s) - (i + 1) + 1) : b[j] = s[(i + 1) + j - 1]
    BY <2>1, <2>2, SubSeqProperties
  <2>4. Len(b) = Len(s) - i
    BY <1>1, <2>3
  <2> HIDE DEF b
  <2>5. \A j \in 1..(Len(s) - i) : (i + 1) + j - 1 = i + j
    BY <1>1
  <2>6. Len(s) - (i + 1) + 1 = Len(s) - i
    BY <1>1
  <2> QED
    BY <2>3, <2>4, <2>5, <2>6
<1> HIDE DEF a, b
<1>6. /\ t \in Seq(Keys)
      /\ Len(t) = Len(a) + Len(b)
      /\ \A j \in 1..(Len(a) + Len(b)) : t[j] = IF j <= Len(a) THEN a[j] ELSE b[j - Len(a)]
  <2>1. /\ a \o b \in Seq(Keys)
        /\ Len(a \o b) = Len(a) + Len(b)
        /\ \A j \in 1..(Len(a) + Len(b)) :
              (a \o b)[j] = IF j <= Len(a) THEN a[j] ELSE b[j - Len(a)]
    <3>1. a \in Seq(Keys) /\ b \in Seq(Keys)
      BY <1>4, <1>5
    <3> QED
      BY <3>1, ConcatProperties, Zenon
  <2> QED
    BY <1>3, <2>1, Zenon
<1>7. Len(t) = Len(s) - 1
  BY <1>1, <1>4, <1>5, <1>6
<1>8. ASSUME NEW j \in 1..Len(t) PROVE t[j] = s[IF j < i THEN j ELSE j + 1]
  <2>1. CASE j < i
    <3>1. j \in 1..(i - 1) /\ j <= Len(a)
      BY <1>1, <1>4, <2>1
    <3>2. t[j] = a[j]
      BY <1>6, <1>8, <3>1
    <3> QED
      BY <1>4, <2>1, <3>1, <3>2
  <2>2. CASE ~(j < i)
    <3>1. j - Len(a) \in 1..(Len(s) - i) /\ ~(j <= Len(a)) /\ i + (j - Len(a)) = j + 1
      BY <1>1, <1>4, <1>7, <2>2
    <3>2. t[j] = b[j - Len(a)]
      BY <1>6, <1>8, <3>1
    <3> QED
      BY <1>5, <2>2, <3>1, <3>2
  <2> QED
    BY <2>1, <2>2
<1> QED
  BY <1>6, <1>7, <1>8

\* What rememberForRewarm has to find after delete: the key is gone, no other was added.
LEMMA RemoveFirstTyped ==
    ASSUME NEW s \in Seq(Keys), EachOnce(s), NEW k \in Keys, NEW t, t = RemoveFirst(s, k)
    PROVE  /\ t \in Seq(Keys) /\ Len(t) <= Len(s)
           /\ EachOnce(t)
           /\ \A j \in DOMAIN t : t[j] # k
<1>1. Len(s) \in Nat /\ DOMAIN s = 1..Len(s)
  OBVIOUS
<1>2. CASE \E i \in DOMAIN s : s[i] = k
  <2>1. PICK i \in DOMAIN s : s[i] = k
    BY <1>2
  <2>2. /\ t \in Seq(Keys) /\ Len(t) = Len(s) - 1
        /\ \A j \in 1..Len(t) : t[j] = s[IF j < i THEN j ELSE j + 1]
    BY <2>1, RemoveFirstIs
  <2> DEFINE at(j) == IF j < i THEN j ELSE j + 1
  <2>3. DOMAIN t = 1..Len(t) /\ Len(t) \in Nat
    BY <2>2
  <2>4. \A j \in DOMAIN t : at(j) \in DOMAIN s /\ at(j) # i /\ t[j] = s[at(j)]
    BY <1>1, <2>2, <2>3
  <2>5. \A j, l \in DOMAIN t : at(j) = at(l) => j = l
    BY <1>1, <2>3
  <2> HIDE DEF at
  <2>6. EachOnce(t)
    BY <2>4, <2>5 DEF EachOnce
  <2>7. \A j \in DOMAIN t : t[j] # k
    BY <2>1, <2>4 DEF EachOnce
  <2> QED
    BY <1>1, <2>2, <2>6, <2>7
<1>3. CASE ~\E i \in DOMAIN s : s[i] = k
  <2>1. t = s
    BY <1>1, <1>3 DEF RemoveFirst
  <2> QED
    BY <1>1, <1>3, <2>1
<1> QED
  BY <1>2, <1>3

\* What TypeOK says of the registry.
Registered ==
    /\ registry \in Seq(Keys)
    /\ Len(registry) <= RewarmCap
    /\ EachOnce(registry)

\* rememberForRewarm keeps it so: one key more, and the oldest goes out beyond the cap.
LEMMA RememberedTyped ==
    ASSUME Registered, NEW k \in Keys
    PROVE  /\ Remembered(k) \in Seq(Keys)
           /\ Len(Remembered(k)) <= RewarmCap
           /\ EachOnce(Remembered(k))
<1> DEFINE t == RemoveFirst(registry, k)
           all == Append(t, k)
<1>1. /\ t \in Seq(Keys) /\ Len(t) <= Len(registry) /\ EachOnce(t)
      /\ \A j \in DOMAIN t : t[j] # k
  BY RemoveFirstTyped DEF Registered
<1>2. Remembered(k) = IF Len(all) > RewarmCap THEN Tail(all) ELSE all
  BY DEF Remembered
<1> HIDE DEF t
<1>3. /\ all \in Seq(Keys) /\ all # << >> /\ Len(all) = Len(t) + 1
      /\ \A i \in 1..Len(t) : all[i] = t[i]
      /\ all[Len(t) + 1] = k
  BY <1>1, AppendProperties
<1>4. Len(t) \in Nat /\ DOMAIN t = 1..Len(t) /\ DOMAIN all = 1..(Len(t) + 1)
  BY <1>1, <1>3
<1> HIDE DEF all
<1>5. EachOnce(all)
  <2> SUFFICES ASSUME NEW i \in DOMAIN all, NEW j \in DOMAIN all, all[i] = all[j] PROVE i = j
    BY DEF EachOnce
  <2>1. CASE i = Len(t) + 1 \/ j = Len(t) + 1
    BY <1>1, <1>3, <1>4, <2>1
  <2>2. CASE i \in DOMAIN t /\ j \in DOMAIN t
    BY <1>1, <1>3, <1>4, <2>2 DEF EachOnce
  <2> QED
    BY <1>4, <2>1, <2>2
<1>6. Len(all) <= RewarmCap + 1
  BY <1>1, <1>3, <1>4, CapAssumption DEF Registered
<1>7. CASE Len(all) > RewarmCap
  <2>1. /\ Tail(all) \in Seq(Keys) /\ Len(Tail(all)) = Len(all) - 1
        /\ \A i \in 1..Len(Tail(all)) : Tail(all)[i] = all[i + 1]
    BY <1>3, HeadTailProperties
  <2> DEFINE rest == Tail(all)
  <2>2. rest \in Seq(Keys) /\ Len(rest) = Len(all) - 1 /\ \A i \in 1..Len(rest) : rest[i] = all[i + 1]
    BY <2>1
  <2>3. Remembered(k) = rest
    BY <1>2, <1>7
  <2> HIDE DEF rest
  <2>4. Len(all) \in Nat /\ DOMAIN rest = 1..Len(rest) /\ DOMAIN all = 1..Len(all)
    BY <1>3, <2>2
  <2>5. \A i \in DOMAIN rest : i + 1 \in DOMAIN all /\ i \in Nat /\ rest[i] = all[i + 1]
    BY <2>2, <2>4
  <2>6. EachOnce(rest)
    <3> SUFFICES ASSUME NEW i \in DOMAIN rest, NEW j \in DOMAIN rest, rest[i] = rest[j] PROVE i = j
      BY DEF EachOnce
    <3>1. i + 1 = j + 1
      BY <1>5, <2>5 DEF EachOnce
    <3> QED
      BY <2>5, <3>1
  <2>7. Len(rest) <= RewarmCap
    BY <1>6, <2>2, <2>4, CapAssumption
  <2> QED
    BY <2>2, <2>3, <2>6, <2>7
<1>8. CASE ~(Len(all) > RewarmCap)
  <2>1. Remembered(k) = all /\ Len(all) <= RewarmCap
    BY <1>2, <1>3, <1>4, <1>8, CapAssumption
  <2> QED
    BY <1>3, <1>5, <2>1
<1> QED
  BY <1>7, <1>8

\* ... and nothing but wrap and the end of the process touches it.
LEMMA RegisteredStep == Typed /\ Registered /\ [Next]_vars => Registered'
<1> SUFFICES ASSUME Typed, Registered, [Next]_vars PROVE Registered'
  OBVIOUS
<1>1. CASE registry' = registry
  BY <1>1 DEF Registered
<1>2. CASE \E r \in Readers : Store(r)
  <2>1. PICK r \in Readers : Store(r)
    BY <1>2
  <2>2. rKey[r] \in Keys /\ registry' = Remembered(rKey[r])
    BY <2>1 DEF Store, Typed
  <2>3. /\ registry' \in Seq(Keys) /\ Len(registry') <= RewarmCap /\ EachOnce(registry')
    BY <2>2, RememberedTyped
  <2> QED
    BY <2>3 DEF Registered
<1>3. CASE registry' = <<>>
  BY <1>3, CapAssumption DEF Registered, EachOnce
<1>4. CASE Restart
  BY <1>3, <1>4 DEF Restart
<1>5. CASE UNCHANGED vars
  BY <1>1, <1>5 DEF vars
<1>6. ASSUME NEW r \in Readers, (\E k \in Keys : StartWrap(r, k)) \/ ReadStep(r) PROVE Registered'
  BY <1>1, <1>2, <1>6 DEF ReadStep, StartWrap, SetEpoch, Lookup, Query, ThrowWrap
<1>7. ASSUME NEW m \in Mutators, Change(m) \/ ThrowChange(m) \/ DelEpoch(m) \/ ScheduleRewarm(m)
      PROVE  Registered'
  BY <1>1, <1>7 DEF Change, ThrowChange, DelEpoch, ScheduleRewarm
<1>8. ASSUME NEW k \in Keys, WarmStep(k) \/ Expire(k) PROVE Registered'
  BY <1>1, <1>8 DEF WarmStep, WarmQuery, WarmThrow, WarmKey, WarmSetEpoch, WarmStore, Expire
<1>9. CASE ExpireEpoch
  BY <1>1, <1>9 DEF ExpireEpoch
<1> QED
  BY <1>4, <1>5, <1>6, <1>7, <1>8, <1>9 DEF Next

\* The type invariant of the cache: whatever wrap, bust, re-warms and expiries do in between,
\* rememberForRewarm keeps each key once and no more of them than REWARM_KEY_CAP, so a bust
\* never schedules more re-warms than that.
THEOREM TypeCorrect == Spec => []TypeOK
<1>1. Init => Typed /\ Registered
  BY TypedInit, CapAssumption DEF Init, Registered, EachOnce
<1>2. Typed /\ Registered => TypeOK
  BY DEF Registered, EachOnce, TypeOK
<1> QED
  BY <1>1, <1>2, TypedStep, RegisteredStep, PTL DEF Spec

-----------------------------------------------------------------------------
\* The epochs in use were numbered, and nobody but its maker knows one that is
\* still to be set.
Numbers ==
    /\ epoch <= local
    /\ \A r \in Readers : rEpoch[r] <= local /\ (rPc[r] # "idle" => rEpoch[r] > 0)
    /\ \A k \in Keys : wEpoch[k] <= local /\ (wPc[k] \in {"setEpoch", "store"} => wEpoch[k] > 0)
    /\ \A e \in store : 0 < e.epoch /\ e.epoch <= local

Unknown(n) == epoch # n /\ \A e \in store : e.epoch # n

PendingIsPrivate ==
    /\ \A r \in Readers : rPc[r] = "setEpoch" =>
          /\ Unknown(rEpoch[r])
          /\ \A s \in Readers \ {r} : rEpoch[s] # rEpoch[r]
          /\ \A k \in Keys : wEpoch[k] # rEpoch[r]
    /\ \A k \in Keys : wPc[k] = "setEpoch" =>
          /\ Unknown(wEpoch[k])
          /\ \A j \in Keys \ {k} : wEpoch[j] # wEpoch[k]
          /\ \A r \in Readers : rEpoch[r] # wEpoch[k]

LEMMA NumbersInit == Init => Numbers /\ PendingIsPrivate
BY DEF Init, Numbers, PendingIsPrivate, NoEpoch

LEMMA NumbersStep == Typed /\ Numbers /\ PendingIsPrivate /\ [Next]_vars => (Numbers /\ PendingIsPrivate)'
<1> SUFFICES ASSUME Typed, Numbers, PendingIsPrivate, [Next]_vars
             PROVE (Numbers /\ PendingIsPrivate)'
  OBVIOUS
<1> USE DEF Typed, Entry, Numbers, PendingIsPrivate, Unknown, NoEpoch
<1>1. ASSUME NEW r \in Readers, NEW k \in Keys, StartWrap(r, k) PROVE (Numbers /\ PendingIsPrivate)'
  BY <1>1 DEF StartWrap, warmVars
<1>2. ASSUME NEW r \in Readers, SetEpoch(r) PROVE (Numbers /\ PendingIsPrivate)'
  BY <1>2 DEF SetEpoch, Kept, warmVars
<1>3. ASSUME NEW r \in Readers, Lookup(r) PROVE (Numbers /\ PendingIsPrivate)'
  <2>1. store' \subseteq store
    BY <1>3 DEF Lookup, Kept
  <2>2. CASE Return(r)
    BY <1>3, <2>1, <2>2 DEF Lookup, Return, warmVars
  <2>3. CASE rPc' = [rPc EXCEPT ![r] = "query"] /\ UNCHANGED <<rKey, rEpoch, rVer, rSince>>
    BY <1>3, <2>1, <2>3 DEF Lookup, warmVars
  <2> QED
    BY <1>3, <2>2, <2>3 DEF Lookup
<1>4. ASSUME NEW r \in Readers, Query(r) PROVE (Numbers /\ PendingIsPrivate)'
  BY <1>4 DEF Query, warmVars
<1>5. ASSUME NEW r \in Readers, ThrowWrap(r) PROVE (Numbers /\ PendingIsPrivate)'
  BY <1>5 DEF ThrowWrap, Return, warmVars
<1>6. ASSUME NEW r \in Readers, Store(r) PROVE (Numbers /\ PendingIsPrivate)'
  <2>1. \A e \in store' : e \in store \/ e.epoch = rEpoch[r]
    BY <1>6 DEF Store, Kept, Put
  <2>2. rEpoch[r] > 0 /\ rEpoch[r] <= local
    BY <1>6 DEF Store
  <2>3. /\ rPc' = [rPc EXCEPT ![r] = "idle"]
        /\ rEpoch' = [rEpoch EXCEPT ![r] = 0]
        /\ UNCHANGED <<local, epoch, wPc, wEpoch>>
    BY <1>6 DEF Store, Return, warmVars
  <2>4. Numbers'
    BY <2>1, <2>2, <2>3
  <2>5. ASSUME NEW s \in Readers, rPc'[s] = "setEpoch"
        PROVE  /\ s # r
               /\ rPc[s] = "setEpoch"
               /\ rEpoch'[s] = rEpoch[s]
               /\ rEpoch[s] # rEpoch[r]
    BY <1>6, <2>3, <2>5 DEF Store
  <2>6. ASSUME NEW s \in Readers PROVE rEpoch'[s] = rEpoch[s] \/ rEpoch'[s] = 0
    BY <2>3
  <2>7. ASSUME NEW s \in Readers, rPc'[s] = "setEpoch"
        PROVE  /\ Unknown(rEpoch[s])'
               /\ \A q \in Readers \ {s} : rEpoch'[q] # rEpoch[s]
               /\ \A k \in Keys : wEpoch'[k] # rEpoch[s]
    BY <2>1, <2>3, <2>5, <2>6, <2>7
  <2>8. ASSUME NEW k \in Keys, wPc'[k] = "setEpoch"
        PROVE  /\ Unknown(wEpoch[k])'
               /\ \A j \in Keys \ {k} : wEpoch'[j] # wEpoch[k]
               /\ \A s \in Readers : rEpoch'[s] # wEpoch[k]
    BY <2>1, <2>3, <2>6, <2>8
  <2>9. PendingIsPrivate'
    <3>1. \A s \in Readers : rPc'[s] = "setEpoch" => rEpoch'[s] = rEpoch[s]
      BY <2>5
    <3>2. wEpoch' = wEpoch
      BY <2>3
    <3> QED
      BY <2>7, <2>8, <3>1, <3>2
  <2> QED
    BY <2>4, <2>9
<1>7. ASSUME NEW m \in Mutators, Change(m) \/ ThrowChange(m) PROVE (Numbers /\ PendingIsPrivate)'
  BY <1>7 DEF Change, ThrowChange, readVars, warmVars
<1>8. ASSUME NEW m \in Mutators, DelEpoch(m) PROVE (Numbers /\ PendingIsPrivate)'
  <2>1. store' \subseteq store
    BY <1>8 DEF DelEpoch, Kept
  <2> QED
    BY <1>8, <2>1 DEF DelEpoch, readVars
<1>9. ASSUME NEW m \in Mutators, ScheduleRewarm(m) PROVE (Numbers /\ PendingIsPrivate)'
  <2>1. \A k \in Keys : wPc'[k] = wPc[k] \/ wPc'[k] = "query"
    BY <1>9 DEF ScheduleRewarm
  <2> QED
    BY <1>9, <2>1 DEF ScheduleRewarm, readVars
<1>10. ASSUME NEW k \in Keys, WarmQuery(k) \/ WarmThrow(k) PROVE (Numbers /\ PendingIsPrivate)'
  BY <1>10 DEF WarmQuery, WarmThrow, Release, readVars
<1>11. ASSUME NEW k \in Keys, WarmKey(k) PROVE (Numbers /\ PendingIsPrivate)'
  BY <1>11 DEF WarmKey, readVars
<1>12. ASSUME NEW k \in Keys, WarmSetEpoch(k) PROVE (Numbers /\ PendingIsPrivate)'
  BY <1>12 DEF WarmSetEpoch, Kept, readVars
<1>13. ASSUME NEW k \in Keys, WarmStore(k) PROVE (Numbers /\ PendingIsPrivate)'
  <2>1. \A e \in store' : e \in store \/ e.epoch = wEpoch[k]
    BY <1>13 DEF WarmStore, Kept, Put
  <2> QED
    BY <1>13, <2>1 DEF WarmStore, Release, readVars
<1>14. ASSUME NEW k \in Keys, Expire(k) PROVE (Numbers /\ PendingIsPrivate)'
  BY <1>14 DEF Expire, readVars, warmVars
<1>15. ASSUME ExpireEpoch PROVE (Numbers /\ PendingIsPrivate)'
  BY <1>15 DEF ExpireEpoch, Kept, readVars, warmVars
<1>16. ASSUME Restart PROVE (Numbers /\ PendingIsPrivate)'
  BY <1>16 DEF Restart
<1>17. ASSUME UNCHANGED vars PROVE (Numbers /\ PendingIsPrivate)'
  BY <1>17 DEF vars, readVars, warmVars
<1> QED
  BY <1>1, <1>2, <1>3, <1>4, <1>5, <1>6, <1>7, <1>8, <1>9, <1>10, <1>11, <1>12, <1>13, <1>14,
     <1>15, <1>16, <1>17 DEF Next, ReadStep, WarmStep

-----------------------------------------------------------------------------
\* A value on its way to a reader: stored, or about to be, by wrap or by a re-warm
\* that no bust has overtaken.
Source(n, v) ==
    \/ \E e \in store : ~e.overtaken /\ e.epoch = n /\ e.ver = v
    \/ \E r \in Readers : rPc[r] = "store" /\ rEpoch[r] = n /\ rVer[r] = v
    \/ \E k \in Keys : wPc[k] = "store" /\ ~overtaken[k] /\ wEpoch[k] = n /\ wVer[k] = v

\* What the value has to be for everybody who may be answered with it.
Clean(n, v) ==
    /\ n = epoch => v >= busted
    /\ \A r \in Readers : rPc[r] \in {"lookup", "query", "store"} /\ rEpoch[r] = n => v >= rSince[r]

Fresh ==
    /\ busted <= db
    /\ \A r \in Readers : rSince[r] <= busted
    /\ \A k \in Keys : wPc[k] \in {"key", "setEpoch"} /\ ~overtaken[k] => wVer[k] >= busted
    /\ \A n, v \in Nat : Source(n, v) => Clean(n, v)

CacheInv == Typed /\ Numbers /\ PendingIsPrivate /\ Fresh

LEMMA FreshInit == Init => Fresh
BY DEF Init, Fresh, Source

LEMMA FreshStep == CacheInv /\ [Next]_vars => Fresh'
<1> SUFFICES ASSUME CacheInv, [Next]_vars PROVE Fresh'
  OBVIOUS
<1>t. Typed /\ Numbers /\ PendingIsPrivate /\ Fresh /\ Typed'
  BY TypedStep DEF CacheInv
<1> USE <1>t DEF Typed, Entry, NoEpoch
<1>1. ASSUME NEW r \in Readers, NEW k \in Keys, StartWrap(r, k) PROVE Fresh'
  <2>1. \A n, v \in Nat : Source(n, v)' => Source(n, v)
    BY <1>1 DEF StartWrap, Source, warmVars
  <2>2. \A n, v \in Nat : Source(n, v) => Clean(n, v)'
    BY <1>1 DEF StartWrap, Fresh, Clean, warmVars
  <2>3. \A n, v \in Nat : Source(n, v)' => Clean(n, v)'
    BY <2>1, <2>2
  <2> QED
    BY <1>1, <2>3 DEF StartWrap, Fresh, warmVars
<1>2. ASSUME NEW r \in Readers, SetEpoch(r) PROVE Fresh'
  <2>1. \A n, v \in Nat : Source(n, v)' => Source(n, v) /\ n # rEpoch[r]
    BY <1>2 DEF SetEpoch, Kept, Source, PendingIsPrivate, Unknown, warmVars
  <2>2. \A n, v \in Nat : Source(n, v)' => Clean(n, v)'
    BY <1>2, <2>1 DEF SetEpoch, Fresh, Clean, warmVars
  <2> QED
    BY <1>2, <2>2 DEF SetEpoch, Fresh, warmVars
<1>3. ASSUME NEW r \in Readers, Lookup(r) PROVE Fresh'
  <2>1. store' \subseteq store
    BY <1>3 DEF Lookup, Kept
  <2>2. CASE Return(r)
    <3>1. \A n, v \in Nat : Source(n, v)' => Source(n, v)
      BY <1>3, <2>1, <2>2 DEF Lookup, Return, Source, warmVars
    <3>2. \A n, v \in Nat : Source(n, v) => Clean(n, v)'
      BY <1>3, <2>2 DEF Lookup, Return, Fresh, Clean, warmVars
    <3>3. \A n, v \in Nat : Source(n, v)' => Clean(n, v)'
      BY <3>1, <3>2
    <3> QED
      BY <1>3, <2>2, <3>3 DEF Lookup, Return, Fresh, warmVars
  <2>3. CASE rPc' = [rPc EXCEPT ![r] = "query"] /\ UNCHANGED <<rKey, rEpoch, rVer, rSince>>
    <3>1. \A n, v \in Nat : Source(n, v)' => Source(n, v)
      BY <1>3, <2>1, <2>3 DEF Lookup, Source, warmVars
    <3>2. \A n, v \in Nat : Source(n, v) => Clean(n, v)'
      BY <1>3, <2>3 DEF Lookup, Fresh, Clean, warmVars
    <3>3. \A n, v \in Nat : Source(n, v)' => Clean(n, v)'
      BY <3>1, <3>2
    <3> QED
      BY <1>3, <2>3, <3>3 DEF Lookup, Fresh, warmVars
  <2> QED
    BY <1>3, <2>2, <2>3 DEF Lookup
<1>4. ASSUME NEW r \in Readers, Query(r) PROVE Fresh'
  <2>1. \A n, v \in Nat : Source(n, v)' => Source(n, v) \/ v = db
    BY <1>4 DEF Query, Source, warmVars
  <2>2. \A n, v \in Nat : Source(n, v) => Clean(n, v)'
    BY <1>4 DEF Query, Fresh, Clean, warmVars
  <2>3. \A n, v \in Nat : v = db => Clean(n, v)'
    BY <1>4 DEF Query, Fresh, Clean, warmVars
  <2>4. \A n, v \in Nat : Source(n, v)' => Clean(n, v)'
    BY <2>1, <2>2, <2>3
  <2> QED
    BY <1>4, <2>4 DEF Query, Fresh, warmVars
<1>5. ASSUME NEW r \in Readers, ThrowWrap(r) PROVE Fresh'
  <2>1. \A n, v \in Nat : Source(n, v)' => Source(n, v)
    BY <1>5 DEF ThrowWrap, Return, Source, warmVars
  <2>2. \A n, v \in Nat : Source(n, v) => Clean(n, v)'
    BY <1>5 DEF ThrowWrap, Return, Fresh, Clean, warmVars
  <2>3. \A n, v \in Nat : Source(n, v)' => Clean(n, v)'
    BY <2>1, <2>2
  <2> QED
    BY <1>5, <2>3 DEF ThrowWrap, Return, Fresh, warmVars
<1>6. ASSUME NEW r \in Readers, Store(r) PROVE Fresh'
  <2> DEFINE new == [epoch |-> rEpoch[r], key |-> rKey[r], ver |-> rVer[r], overtaken |-> FALSE]
  <2>0. store' \subseteq store \union {new}
    BY <1>6 DEF Store, Kept, Put
  <2>1. ASSUME NEW e \in store', e \notin store PROVE e.epoch = rEpoch[r] /\ e.ver = rVer[r]
    <3>1. e = new
      BY <2>0, <2>1
    <3>2. e.epoch = rEpoch[r]
      BY <3>1
    <3>3. e.ver = rVer[r]
      BY <3>1
    <3> QED
      BY <3>2, <3>3
  <2>2. \A n, v \in Nat : Source(n, v)' => Source(n, v)
    BY <1>6, <2>1 DEF Store, Return, Source, warmVars
  <2>3. \A n, v \in Nat : Source(n, v) => Clean(n, v)'
    BY <1>6 DEF Store, Return, Fresh, Clean, warmVars
  <2>4. \A n, v \in Nat : Source(n, v)' => Clean(n, v)'
    BY <2>2, <2>3
  <2> QED
    BY <1>6, <2>4 DEF Store, Return, Fresh, warmVars
<1>7. ASSUME NEW m \in Mutators, Change(m) \/ ThrowChange(m) PROVE Fresh'
  <2>1. db' >= db /\ UNCHANGED <<busted, epoch, store, readVars, warmVars>>
    BY <1>7 DEF Change, ThrowChange
  <2>2. \A n, v \in Nat : Source(n, v)' => Source(n, v)
    BY <2>1 DEF Source, readVars, warmVars
  <2>3. \A n, v \in Nat : Source(n, v) => Clean(n, v)'
    BY <2>1 DEF Fresh, Clean, readVars
  <2>4. \A n, v \in Nat : Source(n, v)' => Clean(n, v)'
    BY <2>2, <2>3
  <2>5. busted' <= db' /\ \A r \in Readers : rSince'[r] <= busted'
    BY <2>1 DEF Fresh, readVars
  <2>6. \A k \in Keys : wPc'[k] \in {"key", "setEpoch"} /\ ~overtaken'[k] => wVer'[k] >= busted'
    BY <2>1 DEF Fresh, warmVars
  <2> QED
    BY <2>4, <2>5, <2>6 DEF Fresh
<1>8. ASSUME NEW m \in Mutators, DelEpoch(m) PROVE Fresh'
  <2>1. store' \subseteq store /\ \A k \in Keys : ~overtaken'[k] => ~overtaken[k] /\ wPc[k] \notin {"key", "setEpoch"}
    BY <1>8 DEF DelEpoch, Kept
  <2>2. \A n, v \in Nat : Source(n, v)' => Source(n, v) /\ n > 0
    BY <1>8, <2>1 DEF DelEpoch, Source, Numbers, readVars
  <2>3. \A n, v \in Nat : Source(n, v) /\ n > 0 => Clean(n, v)'
    BY <1>8 DEF DelEpoch, Fresh, Clean, readVars
  <2>4. \A n, v \in Nat : Source(n, v)' => Clean(n, v)'
    BY <2>2, <2>3
  <2>5. busted' <= db' /\ \A r \in Readers : rSince'[r] <= busted'
    BY <1>8 DEF DelEpoch, Fresh, readVars
  <2>6. \A k \in Keys : wPc'[k] \in {"key", "setEpoch"} /\ ~overtaken'[k] => wVer'[k] >= busted'
    BY <1>8, <2>1 DEF DelEpoch
  <2> QED
    BY <2>4, <2>5, <2>6 DEF Fresh
<1>9. ASSUME NEW m \in Mutators, ScheduleRewarm(m) PROVE Fresh'
  <2>1. \A k \in Keys : wPc'[k] = wPc[k] \/ wPc'[k] = "query"
    BY <1>9 DEF ScheduleRewarm
  <2>2. \A n, v \in Nat : Source(n, v)' => Source(n, v)
    BY <1>9, <2>1 DEF ScheduleRewarm, Source, readVars
  <2>3. \A n, v \in Nat : Source(n, v) => Clean(n, v)'
    BY <1>9 DEF ScheduleRewarm, Fresh, Clean, readVars
  <2>4. \A n, v \in Nat : Source(n, v)' => Clean(n, v)'
    BY <2>2, <2>3
  <2> QED
    BY <1>9, <2>1, <2>4 DEF ScheduleRewarm, Fresh, readVars
<1>10. ASSUME NEW k \in Keys, WarmQuery(k) \/ WarmThrow(k) PROVE Fresh'
  <2>1. \A n, v \in Nat : Source(n, v)' => Source(n, v)
    BY <1>10 DEF WarmQuery, WarmThrow, Release, Source, readVars
  <2>2. \A n, v \in Nat : Source(n, v) => Clean(n, v)'
    BY <1>10 DEF WarmQuery, WarmThrow, Fresh, Clean, readVars
  <2>3. \A n, v \in Nat : Source(n, v)' => Clean(n, v)'
    BY <2>1, <2>2
  <2>4. CASE WarmQuery(k)
    BY <2>3, <2>4 DEF WarmQuery, Fresh, readVars
  <2>5. CASE WarmThrow(k)
    BY <2>3, <2>5 DEF WarmThrow, Release, Fresh, readVars
  <2> QED
    BY <1>10, <2>4, <2>5
<1>11. ASSUME NEW k \in Keys, WarmKey(k) PROVE Fresh'
  <2>1. \A n, v \in Nat : Source(n, v)' => Source(n, v) \/ (~overtaken[k] /\ n = epoch /\ v = wVer[k])
    BY <1>11 DEF WarmKey, Source, readVars
  <2>2. \A n, v \in Nat : Source(n, v) => Clean(n, v)'
    BY <1>11 DEF WarmKey, Fresh, Clean, readVars
  <2>3. ~overtaken[k] => Clean(epoch, wVer[k])'
    BY <1>11 DEF WarmKey, Fresh, Clean, readVars
  <2> QED
    BY <1>11, <2>1, <2>2, <2>3, SMTT(30) DEF WarmKey, Fresh, readVars
<1>12. ASSUME NEW k \in Keys, WarmSetEpoch(k) PROVE Fresh'
  <2>1. \A n, v \in Nat : Source(n, v)' =>
           \/ Source(n, v) /\ n # wEpoch[k]
           \/ ~overtaken[k] /\ n = wEpoch[k] /\ v = wVer[k]
    BY <1>12 DEF WarmSetEpoch, Kept, Source, PendingIsPrivate, Unknown, readVars
  <2>2. \A n, v \in Nat : Source(n, v) /\ n # wEpoch[k] => Clean(n, v)'
    BY <1>12 DEF WarmSetEpoch, Fresh, Clean, readVars
  <2>3. ~overtaken[k] => Clean(wEpoch[k], wVer[k])'
    BY <1>12 DEF WarmSetEpoch, Fresh, Clean, PendingIsPrivate, readVars
  <2> QED
    BY <1>12, <2>1, <2>2, <2>3, SMTT(30) DEF WarmSetEpoch, Fresh, readVars
<1>13. ASSUME NEW k \in Keys, WarmStore(k) PROVE Fresh'
  <2>1. \A e \in store' : \/ e \in store
                          \/ e.epoch = wEpoch[k] /\ e.ver = wVer[k] /\ e.overtaken = overtaken[k]
    BY <1>13 DEF WarmStore, Kept, Put
  <2>2. \A n, v \in Nat : Source(n, v)' => Source(n, v)
    BY <1>13, <2>1 DEF WarmStore, Release, Source, readVars
  <2>3. \A n, v \in Nat : Source(n, v) => Clean(n, v)'
    BY <1>13 DEF WarmStore, Fresh, Clean, readVars
  <2>4. \A n, v \in Nat : Source(n, v)' => Clean(n, v)'
    BY <2>2, <2>3
  <2> QED
    BY <1>13, <2>4 DEF WarmStore, Release, Fresh, readVars
<1>14. ASSUME NEW k \in Keys, Expire(k) PROVE Fresh'
  BY <1>14 DEF Expire, Fresh, Source, Clean, readVars, warmVars
<1>15. ASSUME ExpireEpoch PROVE Fresh'
  <2>1. \A n, v \in Nat : Source(n, v)' => Source(n, v) /\ n > 0
    BY <1>15 DEF ExpireEpoch, Kept, Source, Numbers, readVars, warmVars
  <2>2. \A n, v \in Nat : Source(n, v) /\ n > 0 => Clean(n, v)'
    BY <1>15 DEF ExpireEpoch, Fresh, Clean, readVars, warmVars
  <2>3. \A n, v \in Nat : Source(n, v)' => Clean(n, v)'
    BY <2>1, <2>2
  <2> QED
    BY <1>15, <2>3 DEF ExpireEpoch, Fresh, readVars, warmVars
<1>16. ASSUME Restart PROVE Fresh'
  BY <1>16 DEF Restart, Fresh, Source
<1>17. ASSUME UNCHANGED vars PROVE Fresh'
  BY <1>17 DEF vars, Fresh, Source, Clean, readVars, warmVars
<1> QED
  BY <1>1, <1>2, <1>3, <1>4, <1>5, <1>6, <1>7, <1>8, <1>9, <1>10, <1>11, <1>12, <1>13, <1>14,
     <1>15, <1>16, <1>17 DEF Next, ReadStep, WarmStep

\* For every number of keys, readers and changing handlers: a wrap that begins
\* after a bust is not answered with data from before it, unless a re-warm that a
\* bust overtook stored it.
THEOREM WrapIsFresh == Spec => []FreshUnlessOvertaken
<1>1. CacheInv => FreshUnlessOvertaken
  <2> SUFFICES ASSUME CacheInv, NEW r \in Readers
               PROVE  /\ rPc[r] = "lookup" =>
                             \A e \in Found(r) : ~e.overtaken => e.ver >= rSince[r]
                      /\ rPc[r] = "store" => rVer[r] >= rSince[r]
    BY DEF FreshUnlessOvertaken
  <2>1. ASSUME rPc[r] = "lookup", NEW e \in Found(r), ~e.overtaken PROVE e.ver >= rSince[r]
    <3>1. Source(rEpoch[r], e.ver) /\ rEpoch[r] \in Nat /\ e.ver \in Nat
      BY <2>1 DEF Found, Source, CacheInv, Typed, Entry
    <3> QED
      BY <2>1, <3>1 DEF CacheInv, Fresh, Clean
  <2>2. ASSUME rPc[r] = "store" PROVE rVer[r] >= rSince[r]
    <3>1. Source(rEpoch[r], rVer[r]) /\ rEpoch[r] \in Nat /\ rVer[r] \in Nat
      BY <2>2 DEF Source, CacheInv, Typed
    <3> QED
      BY <2>2, <3>1 DEF CacheInv, Fresh, Clean
  <2> QED
    BY <2>1, <2>2
<1>2. Init => CacheInv
  BY TypedInit, NumbersInit, FreshInit DEF CacheInv
<1>3. CacheInv /\ [Next]_vars => CacheInv'
  BY TypedStep, NumbersStep, FreshStep DEF CacheInv
<1> QED
  BY <1>1, <1>2, <1>3, PTL DEF Spec

-----------------------------------------------------------------------------
\* Whatever a reader of the current epoch can still be given is up to date: what is stored
\* under it, what is about to be stored under it, and what a re-warm has read and will
\* store under an epoch it has yet to look up.
CaughtUp ==
    /\ \A e \in store : e.epoch = epoch => e.ver = db
    /\ \A r \in Readers : rPc[r] = "store" /\ rEpoch[r] = epoch => rVer[r] = db
    /\ \A k \in Keys :
          /\ wPc[k] = "store" /\ wEpoch[k] = epoch => wVer[k] = db
          /\ wPc[k] \in {"key", "setEpoch"} => wVer[k] = db

\* Nobody but their makers knows the new epochs, so nothing stale is found under one.
LEMMA CaughtUpStep == CacheInv /\ [Next]_vars /\ CaughtUp /\ db' = db => CaughtUp'
<1> SUFFICES ASSUME CacheInv, [Next]_vars, CaughtUp, db' = db PROVE CaughtUp'
  OBVIOUS
<1> Typed /\ Numbers /\ PendingIsPrivate
  BY DEF CacheInv
<1> USE DEF CaughtUp, Typed, Entry, NoEpoch
<1>1. ASSUME NEW r \in Readers, NEW k \in Keys, StartWrap(r, k) PROVE CaughtUp'
  BY <1>1 DEF StartWrap, warmVars
<1>2. ASSUME NEW r \in Readers, SetEpoch(r) PROVE CaughtUp'
  BY <1>2 DEF SetEpoch, Kept, PendingIsPrivate, Unknown, warmVars
<1>3. ASSUME NEW r \in Readers, Lookup(r) PROVE CaughtUp'
  <2>1. store' \subseteq store
    BY <1>3 DEF Lookup, Kept
  <2>2. CASE Return(r)
    BY <1>3, <2>1, <2>2 DEF Lookup, Return, warmVars
  <2>3. CASE rPc' = [rPc EXCEPT ![r] = "query"] /\ UNCHANGED <<rKey, rEpoch, rVer, rSince>>
    BY <1>3, <2>1, <2>3 DEF Lookup, warmVars
  <2> QED
    BY <1>3, <2>2, <2>3 DEF Lookup
<1>4. ASSUME NEW r \in Readers, Query(r) PROVE CaughtUp'
  BY <1>4 DEF Query, warmVars
<1>5. ASSUME NEW r \in Readers, ThrowWrap(r) PROVE CaughtUp'
  BY <1>5 DEF ThrowWrap, Return, warmVars
<1>6. ASSUME NEW r \in Readers, Store(r) PROVE CaughtUp'
  <2> DEFINE new == [epoch |-> rEpoch[r], key |-> rKey[r], ver |-> rVer[r], overtaken |-> FALSE]
  <2>1. store' \subseteq store \union {new}
    BY <1>6 DEF Store, Kept, Put
  <2>2. new.epoch = epoch => new.ver = db
    BY <1>6 DEF Store
  <2> HIDE DEF new
  <2>3. \A e \in store' : e.epoch = epoch => e.ver = db
    BY <2>1, <2>2
  <2> QED
    BY <1>6, <2>3 DEF Store, Return, warmVars
<1>7. ASSUME NEW m \in Mutators, Change(m) \/ ThrowChange(m) PROVE CaughtUp'
  BY <1>7 DEF Change, ThrowChange, readVars, warmVars
<1>8. ASSUME NEW m \in Mutators, DelEpoch(m) PROVE CaughtUp'
  <2>1. store' \subseteq store /\ epoch' = 0 /\ UNCHANGED <<rPc, rEpoch, rVer, wPc, wEpoch, wVer>>
    BY <1>8 DEF DelEpoch, Kept, readVars
  <2> QED
    BY <2>1 DEF Numbers
<1>9. ASSUME NEW m \in Mutators, ScheduleRewarm(m) PROVE CaughtUp'
  <2>1. \A k \in Keys : wPc'[k] = wPc[k] \/ wPc'[k] = "query"
    BY <1>9 DEF ScheduleRewarm
  <2> QED
    BY <1>9, <2>1 DEF ScheduleRewarm, readVars
<1>10. ASSUME NEW k \in Keys, WarmQuery(k) \/ WarmThrow(k) PROVE CaughtUp'
  BY <1>10 DEF WarmQuery, WarmThrow, Release, readVars
<1>11. ASSUME NEW k \in Keys, WarmKey(k) PROVE CaughtUp'
  BY <1>11 DEF WarmKey, readVars
<1>12. ASSUME NEW k \in Keys, WarmSetEpoch(k) PROVE CaughtUp'
  BY <1>12 DEF WarmSetEpoch, Kept, PendingIsPrivate, Unknown, readVars
<1>13. ASSUME NEW k \in Keys, WarmStore(k) PROVE CaughtUp'
  <2> DEFINE new == [epoch |-> wEpoch[k], key |-> k, ver |-> wVer[k], overtaken |-> overtaken[k]]
  <2>1. store' \subseteq store \union {new}
    BY <1>13 DEF WarmStore, Kept, Put
  <2>2. new.epoch = epoch => new.ver = db
    BY <1>13 DEF WarmStore
  <2> HIDE DEF new
  <2>3. \A e \in store' : e.epoch = epoch => e.ver = db
    BY <2>1, <2>2
  <2> QED
    BY <1>13, <2>3 DEF WarmStore, Release, readVars
<1>14. ASSUME NEW k \in Keys, Expire(k) PROVE CaughtUp'
  BY <1>14 DEF Expire, readVars, warmVars
<1>15. ASSUME ExpireEpoch PROVE CaughtUp'
  <2>1. store' \subseteq store /\ epoch' = 0 /\ UNCHANGED <<rPc, rEpoch, rVer, wPc, wEpoch, wVer>>
    BY <1>15 DEF ExpireEpoch, Kept, readVars, warmVars
  <2> QED
    BY <2>1 DEF Numbers
<1>16. ASSUME Restart PROVE CaughtUp'
  BY <1>16 DEF Restart
<1>17. ASSUME UNCHANGED vars PROVE CaughtUp'
  BY <1>17 DEF vars, readVars, warmVars
<1> QED
  BY <1>1, <1>2, <1>3, <1>4, <1>5, <1>6, <1>7, <1>8, <1>9, <1>10, <1>11, <1>12, <1>13, <1>14,
     <1>15, <1>16, <1>17 DEF Next, ReadStep, WarmStep

\* The safety half of EventuallyCurrent: once the cache has caught up, no wrap, bust,
\* re-warm, expiry or restart brings anything stale back before the data changes again.
THEOREM CaughtUpStays == Spec => [][CaughtUp /\ db' = db => CaughtUp']_vars
<1>1. Init => CacheInv
  BY TypedInit, NumbersInit, FreshInit DEF CacheInv
<1>2. CacheInv /\ [Next]_vars => CacheInv'
  BY TypedStep, NumbersStep, FreshStep DEF CacheInv
<1>3. CacheInv /\ [Next]_vars => [CaughtUp /\ db' = db => CaughtUp']_vars
  BY CaughtUpStep
<1> QED
  BY <1>1, <1>2, <1>3, PTL DEF Spec

\* No version is known that the database has not had.
Seen ==
    /\ \A e \in store : e.ver <= db
    /\ \A r \in Readers : rVer[r] <= db
    /\ \A k \in Keys : wVer[k] <= db

\* Queries answer what is there, and the data only gets newer.
LEMMA SeenStep == Typed /\ Seen /\ [Next]_vars => Seen'
<1> SUFFICES ASSUME Typed, Seen, [Next]_vars PROVE Seen'
  OBVIOUS
<1> USE DEF Typed, Entry, Seen
<1>1. ASSUME UNCHANGED <<db, rVer, wVer>>, store' \subseteq store PROVE Seen'
  BY <1>1
<1>2. ASSUME NEW r \in Readers, NEW k \in Keys, StartWrap(r, k) PROVE Seen'
  BY <1>1, <1>2 DEF StartWrap, warmVars
<1>3. ASSUME NEW r \in Readers, SetEpoch(r) PROVE Seen'
  BY <1>1, <1>3 DEF SetEpoch, Kept, warmVars
<1>4. ASSUME NEW r \in Readers, Return(r), store' \subseteq store, UNCHANGED <<db, wVer>> PROVE Seen'
  BY <1>4 DEF Return
<1>5. ASSUME NEW r \in Readers, Lookup(r) PROVE Seen'
  <2>1. store' \subseteq store
    BY <1>5 DEF Lookup, Kept
  <2> QED
    BY <1>1, <1>4, <1>5, <2>1 DEF Lookup, warmVars
<1>6. ASSUME NEW r \in Readers, Query(r) PROVE Seen'
  BY <1>6 DEF Query, warmVars
<1>7. ASSUME NEW r \in Readers, ThrowWrap(r) PROVE Seen'
  BY <1>4, <1>7 DEF ThrowWrap, warmVars
<1>8. ASSUME NEW r \in Readers, Store(r) PROVE Seen'
  <2> DEFINE new == [epoch |-> rEpoch[r], key |-> rKey[r], ver |-> rVer[r], overtaken |-> FALSE]
  <2>1. store' \subseteq store \union {new}
    BY <1>8 DEF Store, Kept, Put
  <2>2. new.ver <= db
    OBVIOUS
  <2> HIDE DEF new
  <2>3. \A e \in store' : e.ver <= db
    BY <2>1, <2>2
  <2>4. Return(r) /\ UNCHANGED <<db, wVer>>
    BY <1>8 DEF Store, warmVars
  <2>5. \A q \in Readers : rVer'[q] <= db
    BY <2>4 DEF Return
  <2> QED
    BY <2>3, <2>4, <2>5
<1>9. ASSUME NEW m \in Mutators, Change(m) PROVE Seen'
  BY <1>9 DEF Change, readVars, warmVars
<1>10. ASSUME NEW m \in Mutators, ThrowChange(m) \/ ScheduleRewarm(m) PROVE Seen'
  BY <1>1, <1>10 DEF ThrowChange, ScheduleRewarm, readVars, warmVars
<1>11. ASSUME NEW m \in Mutators, DelEpoch(m) PROVE Seen'
  BY <1>1, <1>11 DEF DelEpoch, Kept, readVars
<1>12. ASSUME NEW k \in Keys, WarmQuery(k) \/ WarmThrow(k) PROVE Seen'
  BY <1>12 DEF WarmQuery, WarmThrow, Release, readVars
<1>13. ASSUME NEW k \in Keys, WarmKey(k) PROVE Seen'
  BY <1>1, <1>13 DEF WarmKey, readVars
<1>14. ASSUME NEW k \in Keys, WarmSetEpoch(k) PROVE Seen'
  BY <1>1, <1>14 DEF WarmSetEpoch, Kept, readVars
<1>15. ASSUME NEW k \in Keys, WarmStore(k) PROVE Seen'
  <2> DEFINE new == [epoch |-> wEpoch[k], key |-> k, ver |-> wVer[k], overtaken |-> overtaken[k]]
  <2>1. store' \subseteq store \union {new}
    BY <1>15 DEF WarmStore, Kept, Put
  <2>2. new.ver <= db
    OBVIOUS
  <2> HIDE DEF new
  <2>3. \A e \in store' : e.ver <= db
    BY <2>1, <2>2
  <2> QED
    BY <1>15, <2>3 DEF WarmStore, Release, readVars
<1>16. ASSUME NEW k \in Keys, Expire(k) PROVE Seen'
  BY <1>1, <1>16 DEF Expire, readVars, warmVars
<1>17. ASSUME ExpireEpoch PROVE Seen'
  BY <1>1, <1>17 DEF ExpireEpoch, Kept, readVars, warmVars
<1>18. ASSUME Restart PROVE Seen'
  BY <1>18 DEF Restart
<1>19. ASSUME UNCHANGED vars PROVE Seen'
  BY <1>1, <1>19 DEF vars, readVars, warmVars
<1> QED
  BY <1>2, <1>3, <1>5, <1>6, <1>7, <1>8, <1>9, <1>10, <1>11, <1>12, <1>13, <1>14, <1>15, <1>16,
     <1>17, <1>18, <1>19 DEF Next, ReadStep, WarmStep

\* No re-warm is, or has stored, what a bust overtook.
NoneOvertaken ==
    /\ \A e \in store : ~e.overtaken
    /\ \A k \in Keys : ~overtaken[k]

\* A bust does its work at once: when the namespace was busted after the last change, and no
\* bust overtook a re-warm, everything a reader can be given is up to date, whatever the
\* wraps and re-warms that were under way at the bust do next.
THEOREM BustCatchesUp == Spec => [](busted = db /\ NoneOvertaken => CaughtUp)
<1>1. Init => CacheInv /\ Seen
  BY TypedInit, NumbersInit, FreshInit DEF CacheInv, Init, Seen
<1>2. CacheInv /\ Seen /\ [Next]_vars => (CacheInv /\ Seen)'
  BY TypedStep, NumbersStep, FreshStep, SeenStep DEF CacheInv
<1>3. CacheInv /\ Seen => (busted = db /\ NoneOvertaken => CaughtUp)
  <2> SUFFICES ASSUME CacheInv, Seen, busted = db, NoneOvertaken PROVE CaughtUp
    OBVIOUS
  <2>1. Typed /\ Fresh
    BY DEF CacheInv
  <2>2. \A n, v \in Nat : Source(n, v) /\ n = epoch => v >= db
    BY <2>1 DEF Fresh, Clean
  <2>3. ASSUME NEW e \in store, e.epoch = epoch PROVE e.ver = db
    <3>1. e.epoch \in Nat /\ e.ver \in Nat /\ e.ver <= db /\ db \in Nat
      BY <2>1 DEF Typed, Entry, Seen
    <3>2. Source(e.epoch, e.ver)
      BY DEF Source, NoneOvertaken
    <3> QED
      BY <2>2, <2>3, <3>1, <3>2
  <2>4. ASSUME NEW r \in Readers, rPc[r] = "store", rEpoch[r] = epoch PROVE rVer[r] = db
    <3>1. rEpoch[r] \in Nat /\ rVer[r] \in Nat /\ rVer[r] <= db /\ db \in Nat
      BY <2>1 DEF Typed, Seen
    <3>2. Source(rEpoch[r], rVer[r])
      BY <2>4 DEF Source
    <3> QED
      BY <2>2, <2>4, <3>1, <3>2
  <2>5. ASSUME NEW k \in Keys, wPc[k] = "store", wEpoch[k] = epoch PROVE wVer[k] = db
    <3>1. wEpoch[k] \in Nat /\ wVer[k] \in Nat /\ wVer[k] <= db /\ db \in Nat
      BY <2>1 DEF Typed, Seen
    <3>2. Source(wEpoch[k], wVer[k])
      BY <2>5 DEF Source, NoneOvertaken
    <3> QED
      BY <2>2, <2>5, <3>1, <3>2
  <2>6. ASSUME NEW k \in Keys, wPc[k] \in {"key", "setEpoch"} PROVE wVer[k] = db
    <3>1. wVer[k] \in Nat /\ wVer[k] <= db /\ db \in Nat
      BY <2>1 DEF Typed, Seen
    <3>2. wVer[k] >= busted
      BY <2>1, <2>6 DEF Fresh, NoneOvertaken
    <3> QED
      BY <3>1, <3>2
  <2> QED
    BY <2>3, <2>4, <2>5, <2>6 DEF CaughtUp
<1> QED
  BY <1>1, <1>2, <1>3, PTL DEF Spec
=============================================================================
