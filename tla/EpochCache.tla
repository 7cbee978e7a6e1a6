----------------------------- MODULE EpochCache -----------------------------
(***************************************************************************)
(* The list cache (CacheHelper), for one namespace.  A value is stored     *)
(* under the namespace's current epoch; a handler that has changed the     *)
(* data busts the namespace by deleting the epoch, and the next reader     *)
(* makes a new one.  After a bust the keys read last are computed again in *)
(* the background (re-warm).  The cache is cache-manager's store in the    *)
(* process: it does not fail, and it is gone when the process dies.        *)
(*                                                                         *)
(* The data is abstracted to its version: a query answers the version it   *)
(* saw.  busted and overtaken are observations the code does not keep.     *)
(***************************************************************************)
EXTENDS Integers, SequencesExt

CONSTANTS
    Keys,        \* the key parts asked for
    Readers,     \* slots for concurrent wrap calls
    Mutators,    \* slots for concurrent handlers that change the data
    RewarmCap,   \* REWARM_KEY_CAP
    MaxVersion,  \* bound: changes of the data
    MaxLocal     \* bound: an epoch expires or the process dies only below it

ASSUME KeyAssumption == Keys # {}
ASSUME CapAssumption == RewarmCap \in Nat
ASSUME BoundAssumption == {MaxVersion, MaxLocal} \subseteq Nat

NoEpoch == 0

VARIABLES
    db,        \* version of the data in the database
    busted,    \* ... when the namespace was last busted
    local,     \* localCounters: epochs are numbered by it
    epoch,     \* the entry epoch:prefix
    store,     \* the values, under an epoch and a key
    registry,  \* rewarmRegistry, the key used last at the end
    rPc, rKey, rEpoch, rVer, rSince,  \* wrap in each slot; busted when it began
    mPc,       \* the changing handler in each slot
    wPc, wEpoch, wVer, overtaken      \* re-warm of each key; was it busted over?

readVars == <<rPc, rKey, rEpoch, rVer, rSince>>
warmVars == <<wPc, wEpoch, wVer, overtaken>>
vars == <<db, busted, local, epoch, store, registry, readVars, mPc, warmVars>>

Entry == [epoch : Nat, key : Keys, ver : Nat, overtaken : BOOLEAN]

Typed ==
    /\ {db, busted, local, epoch} \subseteq Nat
    /\ store \subseteq Entry
    /\ rPc \in [Readers -> {"idle", "setEpoch", "lookup", "query", "store"}]
    /\ rKey \in [Readers -> Keys]
    /\ rEpoch \in [Readers -> Nat]
    /\ rVer \in [Readers -> Nat]
    /\ rSince \in [Readers -> Nat]
    /\ mPc \in [Mutators -> {"idle", "del", "rewarm"}]
    /\ wPc \in [Keys -> {"idle", "query", "key", "setEpoch", "store"}]
    /\ wEpoch \in [Keys -> Nat]
    /\ wVer \in [Keys -> Nat]
    /\ overtaken \in [Keys -> BOOLEAN]

TypeOK ==
    /\ Typed
    /\ registry \in Seq(Keys)
    /\ Len(registry) <= RewarmCap
    /\ \A i, j \in DOMAIN registry : registry[i] = registry[j] => i = j

FirstKey == CHOOSE k \in Keys : TRUE

Init ==
    /\ db = 0 /\ busted = 0 /\ local = 0
    /\ epoch = NoEpoch
    /\ store = {}
    /\ registry = <<>>
    /\ rPc = [r \in Readers |-> "idle"]
    /\ rKey = [r \in Readers |-> FirstKey]
    /\ rEpoch = [r \in Readers |-> NoEpoch]
    /\ rVer = [r \in Readers |-> 0]
    /\ rSince = [r \in Readers |-> 0]
    /\ mPc = [m \in Mutators |-> "idle"]
    /\ wPc = [k \in Keys |-> "idle"]
    /\ wEpoch = [k \in Keys |-> NoEpoch]
    /\ wVer = [k \in Keys |-> 0]
    /\ overtaken = [k \in Keys |-> FALSE]

-----------------------------------------------------------------------------
(* wrap *)

\* Values under an epoch nobody can look up any more are dropped at once; the
\* code leaves them to their time to live.
Kept(values) ==
    {e \in values : e.epoch = epoch' \/ \E r \in Readers : rPc'[r] = "lookup" /\ rEpoch'[r] = e.epoch}

\* The call returns: its locals are gone.
Return(r) ==
    /\ rPc' = [rPc EXCEPT ![r] = "idle"]
    /\ rKey' = [rKey EXCEPT ![r] = FirstKey]
    /\ rEpoch' = [rEpoch EXCEPT ![r] = NoEpoch]
    /\ rVer' = [rVer EXCEPT ![r] = 0]
    /\ rSince' = [rSince EXCEPT ![r] = 0]

\* buildKey: the current epoch is taken, or a new one numbered that is still to
\* be set.
StartWrap(r, k) ==
    /\ rPc[r] = "idle"
    /\ rKey' = [rKey EXCEPT ![r] = k]
    /\ rSince' = [rSince EXCEPT ![r] = busted]
    /\ \/ /\ epoch # NoEpoch
          /\ rEpoch' = [rEpoch EXCEPT ![r] = epoch]
          /\ rPc' = [rPc EXCEPT ![r] = "lookup"]
          /\ UNCHANGED local
       \/ /\ epoch = NoEpoch
          /\ local' = local + 1
          /\ rEpoch' = [rEpoch EXCEPT ![r] = local']
          /\ rPc' = [rPc EXCEPT ![r] = "setEpoch"]
    /\ UNCHANGED <<db, busted, epoch, store, registry, rVer, mPc, warmVars>>

SetEpoch(r) ==
    /\ rPc[r] = "setEpoch"
    /\ epoch' = rEpoch[r]
    /\ rPc' = [rPc EXCEPT ![r] = "lookup"]
    /\ UNCHANGED <<db, busted, local, registry, rKey, rEpoch, rVer, rSince, mPc, warmVars>>
    /\ store' = Kept(store)

Found(r) == {e \in store : e.epoch = rEpoch[r] /\ e.key = rKey[r]}

\* The cached value is answered, or the query begins.
Lookup(r) ==
    /\ rPc[r] = "lookup"
    /\ \/ Found(r) # {} /\ Return(r)
       \/ /\ Found(r) = {}
          /\ rPc' = [rPc EXCEPT ![r] = "query"]
          /\ UNCHANGED <<rKey, rEpoch, rVer, rSince>>
    /\ UNCHANGED <<db, busted, local, epoch, registry, mPc, warmVars>>
    /\ store' = Kept(store)

\* The factory: a query of the database.
Query(r) ==
    /\ rPc[r] = "query"
    /\ rVer' = [rVer EXCEPT ![r] = db]
    /\ rPc' = [rPc EXCEPT ![r] = "store"]
    /\ UNCHANGED <<db, busted, local, epoch, store, registry, rKey, rEpoch, rSince, mPc, warmVars>>

\* The query fails: wrap throws.
ThrowWrap(r) ==
    /\ rPc[r] = "query"
    /\ Return(r)
    /\ UNCHANGED <<db, busted, local, epoch, store, registry, mPc, warmVars>>

\* cacheManager.set: what the key held before is replaced.
Put(e) == {x \in store : x.epoch # e.epoch \/ x.key # e.key} \union {e}

\* Mutant: the oldest key stays.
RememberedForever(k) == Append(RemoveFirst(registry, k), k)

\* rememberForRewarm: the key goes to the end, the oldest goes out.
Remembered(k) ==
    LET all == Append(RemoveFirst(registry, k), k)
    IN  IF Len(all) > RewarmCap THEN Tail(all) ELSE all

\* Mutant: the value goes under the epoch of the moment it is stored.
StoreUnderNewEpoch(r) ==
    /\ rPc[r] = "store"
    /\ registry' = Remembered(rKey[r])
    /\ Return(r)
    /\ UNCHANGED <<db, busted, local, epoch, mPc, warmVars>>
    /\ store' = Kept(Put([epoch |-> epoch, key |-> rKey[r], ver |-> rVer[r], overtaken |-> FALSE]))

\* The value is stored under the epoch wrap began with, and answered.
Store(r) ==
    /\ rPc[r] = "store"
    /\ registry' = Remembered(rKey[r])
    /\ Return(r)
    /\ UNCHANGED <<db, busted, local, epoch, mPc, warmVars>>
    /\ store' = Kept(Put([epoch |-> rEpoch[r], key |-> rKey[r], ver |-> rVer[r],
                          overtaken |-> FALSE]))

-----------------------------------------------------------------------------
(* A handler that changes the data, and bust *)

Change(m) ==
    /\ mPc[m] = "idle"
    /\ db < MaxVersion
    /\ db' = db + 1
    /\ mPc' = [mPc EXCEPT ![m] = "del"]
    /\ UNCHANGED <<busted, local, epoch, store, registry, readVars, warmVars>>

\* The handler throws between its write and the bust.
ThrowChange(m) ==
    /\ mPc[m] = "del"
    /\ mPc' = [mPc EXCEPT ![m] = "idle"]
    /\ UNCHANGED <<db, busted, local, epoch, store, registry, readVars, warmVars>>

\* A re-warm that has its value but not yet its epoch is overtaken.
DelEpoch(m) ==
    /\ mPc[m] = "del"
    /\ epoch' = NoEpoch
    /\ busted' = db
    /\ overtaken' = [k \in Keys |-> overtaken[k] \/ wPc[k] \in {"key", "setEpoch"}]
    /\ mPc' = [mPc EXCEPT ![m] = "rewarm"]
    /\ UNCHANGED <<db, local, registry, readVars, wPc, wEpoch, wVer>>
    /\ store' = Kept(store)

\* The rest of bust: the counter, and a re-warm of every registered key that is
\* not being re-warmed already.
ScheduleRewarm(m) ==
    /\ mPc[m] = "rewarm"
    /\ local' = local + 1
    /\ LET due == {k \in Keys : wPc[k] = "idle" /\ \E i \in 1..Len(registry) : registry[i] = k}
       IN  wPc' = [k \in Keys |-> IF k \in due THEN "query" ELSE wPc[k]]
    /\ mPc' = [mPc EXCEPT ![m] = "idle"]
    /\ UNCHANGED <<db, busted, epoch, store, registry, readVars, wEpoch, wVer, overtaken>>

-----------------------------------------------------------------------------
(* Re-warm, one per key at a time *)

\* The lock is released and the locals are gone.
Release(k) ==
    /\ wPc' = [wPc EXCEPT ![k] = "idle"]
    /\ wEpoch' = [wEpoch EXCEPT ![k] = NoEpoch]
    /\ wVer' = [wVer EXCEPT ![k] = 0]
    /\ overtaken' = [overtaken EXCEPT ![k] = FALSE]

WarmQuery(k) ==
    /\ wPc[k] = "query"
    /\ wVer' = [wVer EXCEPT ![k] = db]
    /\ wPc' = [wPc EXCEPT ![k] = "key"]
    /\ UNCHANGED <<db, busted, local, epoch, store, registry, readVars, mPc, wEpoch, overtaken>>

\* The query fails: the lock is released, nothing is stored.
WarmThrow(k) ==
    /\ wPc[k] = "query"
    /\ Release(k)
    /\ UNCHANGED <<db, busted, local, epoch, store, registry, readVars, mPc>>

\* buildKey, after the query.
WarmKey(k) ==
    /\ wPc[k] = "key"
    /\ \/ /\ epoch # NoEpoch
          /\ wEpoch' = [wEpoch EXCEPT ![k] = epoch]
          /\ wPc' = [wPc EXCEPT ![k] = "store"]
          /\ UNCHANGED local
       \/ /\ epoch = NoEpoch
          /\ local' = local + 1
          /\ wEpoch' = [wEpoch EXCEPT ![k] = local']
          /\ wPc' = [wPc EXCEPT ![k] = "setEpoch"]
    /\ UNCHANGED <<db, busted, epoch, store, registry, readVars, mPc, wVer, overtaken>>

WarmSetEpoch(k) ==
    /\ wPc[k] = "setEpoch"
    /\ epoch' = wEpoch[k]
    /\ wPc' = [wPc EXCEPT ![k] = "store"]
    /\ UNCHANGED <<db, busted, local, registry, readVars, mPc, wEpoch, wVer, overtaken>>
    /\ store' = Kept(store)

\* The value is stored and the lock released.
WarmStore(k) ==
    /\ wPc[k] = "store"
    /\ Release(k)
    /\ UNCHANGED <<db, busted, local, epoch, registry, readVars, mPc>>
    /\ store' = Kept(Put([epoch |-> wEpoch[k], key |-> k, ver |-> wVer[k],
                          overtaken |-> overtaken[k]]))

-----------------------------------------------------------------------------
(* Time, and the process *)

\* Mutant: only values of epochs gone by have a time to live.
ExpireOld(k) ==
    /\ \E e \in store : e.key = k /\ e.epoch # epoch
    /\ store' = {e \in store : e.key # k \/ e.epoch = epoch}
    /\ UNCHANGED <<db, busted, local, epoch, registry, readVars, mPc, warmVars>>

\* The values of a key have reached their time to live.
Expire(k) ==
    /\ \E e \in store : e.key = k
    /\ store' = {e \in store : e.key # k}
    /\ UNCHANGED <<db, busted, local, epoch, registry, readVars, mPc, warmVars>>

ExpireEpoch ==
    /\ epoch # NoEpoch
    /\ local < MaxLocal
    /\ epoch' = NoEpoch
    /\ UNCHANGED <<db, busted, local, registry, readVars, mPc, warmVars>>
    /\ store' = Kept(store)

\* The process dies: the cache, the registry and every handler with it.
Restart ==
    /\ local < MaxLocal
    /\ epoch' = NoEpoch
    /\ store' = {}
    /\ registry' = <<>>
    /\ rPc' = [r \in Readers |-> "idle"]
    /\ rKey' = [r \in Readers |-> FirstKey]
    /\ rEpoch' = [r \in Readers |-> NoEpoch]
    /\ rVer' = [r \in Readers |-> 0]
    /\ rSince' = [r \in Readers |-> 0]
    /\ mPc' = [m \in Mutators |-> "idle"]
    /\ wPc' = [k \in Keys |-> "idle"]
    /\ wEpoch' = [k \in Keys |-> NoEpoch]
    /\ wVer' = [k \in Keys |-> 0]
    /\ overtaken' = [k \in Keys |-> FALSE]
    /\ UNCHANGED <<db, busted, local>>

ReadStep(r) == SetEpoch(r) \/ Lookup(r) \/ Query(r) \/ ThrowWrap(r) \/ Store(r)
WarmStep(k) == WarmQuery(k) \/ WarmThrow(k) \/ WarmKey(k) \/ WarmSetEpoch(k) \/ WarmStore(k)

Next ==
    \/ \E r \in Readers : (\E k \in Keys : StartWrap(r, k)) \/ ReadStep(r)
    \/ \E m \in Mutators : Change(m) \/ ThrowChange(m) \/ DelEpoch(m) \/ ScheduleRewarm(m)
    \/ \E k \in Keys : WarmStep(k) \/ Expire(k)
    \/ ExpireEpoch
    \/ Restart

Spec == Init /\ [][Next]_vars

\* A handler that has begun goes on as long as the process lives, and every
\* value is stored with a time to live.
Fairness ==
    /\ \A r \in Readers : WF_vars(ReadStep(r))
    /\ \A k \in Keys : WF_vars(WarmStep(k)) /\ WF_vars(Expire(k))

FairSpec == Spec /\ Fairness

-----------------------------------------------------------------------------
(* Properties *)

\* The version wrap answers with when it returns from the cache or the database.
Answers(r) ==
    IF rPc[r] = "lookup" THEN {e.ver : e \in Found(r)}
    ELSE IF rPc[r] = "store" THEN {rVer[r]} ELSE {}

\* Once a namespace is busted, no wrap that begins afterwards answers data from
\* before the bust.
FreshAfterBust ==
    \A r \in Readers : \A v \in Answers(r) : v >= rSince[r]

\* ... except what a re-warm stored that a bust overtook: wrap itself, with any
\* number of readers, busts and expiries between its steps, and a re-warm left
\* alone by busts, never bring data from before a bust into the epoch after it.
FreshUnlessOvertaken ==
    \A r \in Readers :
        /\ rPc[r] = "lookup" =>
               \A e \in Found(r) : ~e.overtaken => e.ver >= rSince[r]
        /\ rPc[r] = "store" => rVer[r] >= rSince[r]

\* Nothing stale lives for ever: whatever overtook what, and even where a handler
\* threw before its bust, some time after the last change every value under the
\* current epoch is up to date for good.
EventuallyCurrent ==
    <>[](\A e \in store : e.epoch = epoch => e.ver = db)
=============================================================================
