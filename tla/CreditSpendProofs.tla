------------------------- MODULE CreditSpendProofs -------------------------
(***************************************************************************)
(* Proofs about CreditSpend, for every number of users, calls, costs and   *)
(* quotas.                                                                 *)
(***************************************************************************)
EXTENDS CreditSpend, FiniteSetTheorems, TLAPS

\* The type invariant of the six handlers that spend credit.
THEOREM SpendTypeCorrect == Spec => []TypeOK
<1>1. Init => TypeOK
  BY DEF Init, TypeOK, Steps, AllKinds
<1>2. TypeOK /\ [Next]_vars => TypeOK'
  <2> SUFFICES ASSUME TypeOK, [Next]_vars PROVE TypeOK'
    OBVIOUS
  <2> USE PayerAssumption, CostAssumption, KindsAssumption DEF TypeOK, Steps
  <2>1. ASSUME NEW u \in Users, Register(u) \/ Purchase(u) PROVE TypeOK'
    BY <2>1 DEF Register, Purchase, callVars, logVars
  <2>2. ASSUME NEW c \in Calls, NEW k, NEW step \in {"balance", "log", "effect"},
               Start(c, k, step)
        PROVE TypeOK'
    BY <2>2 DEF Start, Go, logVars
  <2>3. ASSUME NEW c \in Calls,
               StartAdService(c) \/ StartApproveAd(c) \/ StartInteraction(c)
        PROVE TypeOK'
    BY <2>2, <2>3 DEF StartAdService, StartApproveAd, StartInteraction
  <2>4. ASSUME NEW c \in Calls, StartReveal(c) \/ StartConnection(c) PROVE TypeOK'
    BY <2>2, <2>4 DEF StartReveal, StartConnection
  <2>5. ASSUME NEW c \in Calls, CheckBalance(c) \/ ThrowAfterCharge(c) \/ Answer(c)
        PROVE TypeOK'
    BY <2>5 DEF CheckBalance, ThrowAfterCharge, Answer, Go, logVars
  <2>6. ASSUME NEW c \in Calls, Charge(c) PROVE TypeOK'
    <3>1. Payer[c] \in Users /\ Cost[kind[c]] \in Nat /\ wallet[Payer[c]] \in Int
      BY DEF AllKinds
    <3>2. wallet' \in [Users -> Int] /\ charges' \in [Users -> Nat]
      BY <2>6, <3>1 DEF Charge
    <3> QED
      BY <2>6, <3>2 DEF Charge, Go, logVars
  <2>7. ASSUME NEW c \in Calls, LogRequest(c) PROVE TypeOK'
    BY <2>7 DEF LogRequest, Go
  <2>8. ASSUME NEW c \in Calls, Serve(c) PROVE TypeOK'
    BY <2>8 DEF Serve, Go
  <2>9. ASSUME WindowPasses \/ Midnight \/ Restart \/ UNCHANGED vars PROVE TypeOK'
    BY <2>9 DEF WindowPasses, Midnight, Restart, vars, callVars, logVars
  <2> QED
    BY <2>1, <2>3, <2>4, <2>5, <2>6, <2>7, <2>8, <2>9 DEF Next
<1> QED
  BY <1>1, <1>2, PTL DEF Spec

-----------------------------------------------------------------------------
(* Free connection requests *)

\* Inductive.  A call is charged for a connection request only after the log was as long
\* as the quota; as long as nobody was charged, everything in the log was free.
FreeInv ==
    /\ TypeOK
    /\ FreeRequestsFirst
    /\ \A u \in Users : freeRequests[u] <= requests[u]
    /\ \A c \in Calls : kind[c] = "connection" /\ pc[c] \in {"balance", "charge"}
                         => freeRequests[Payer[c]] >= FreeRequestQuota

LEMMA FreeInvStep == FreeInv /\ TypeOK' /\ [Next]_vars => FreeInv'
<1> SUFFICES ASSUME FreeInv, TypeOK', [Next]_vars PROVE FreeInv'
  OBVIOUS
<1> USE PayerAssumption, QuotaAssumption DEF FreeInv
<1> DEFINE Kept == UNCHANGED <<requests, freeRequests>>
           Used(c) == freeRequests[Payer[c]] >= FreeRequestQuota
<1>0. TypeOK /\ FreeRequestsFirst
  OBVIOUS
<1>1. ASSUME Kept,
             \A c \in Calls :
                /\ pc'[c] = "log" /\ charged'[c] => Used(c)
                /\ kind'[c] = "connection" /\ pc'[c] \in {"balance", "charge"} => Used(c)
      PROVE FreeInv'
  BY <1>0, <1>1 DEF FreeRequestsFirst, TypeOK
<1>2. CASE \/ \E u \in Users : Register(u) \/ Purchase(u)
           \/ WindowPasses \/ Midnight \/ UNCHANGED vars
  <2>1. UNCHANGED <<pc, kind, charged, requests, freeRequests>>
    BY <1>2 DEF Register, Purchase, WindowPasses, Midnight, vars, callVars, logVars
  <2> QED
    BY <1>0, <1>1, <2>1 DEF FreeRequestsFirst
<1>3. CASE Restart
  <2>1. /\ UNCHANGED <<requests, freeRequests>>
        /\ \A c \in Calls : pc'[c] = "idle"
    BY <1>3 DEF Restart, logVars
  <2> QED
    BY <1>1, <2>1
<1>4. ASSUME NEW c \in Calls, NEW k, NEW step, Start(c, k, step),
             k = "connection" /\ step = "balance" => requests[Payer[c]] >= FreeRequestQuota,
             step # "charge"
      PROVE FreeInv'
  <2>1. /\ Kept
        /\ pc'[c] = step /\ kind'[c] = k /\ charged'[c] = FALSE
        /\ \A d \in Calls \ {c} : pc'[d] = pc[d] /\ kind'[d] = kind[d] /\ charged'[d] = charged[d]
    BY <1>0, <1>4 DEF Start, Go, logVars, TypeOK
  <2>2. ASSUME k = "connection", step = "balance" PROVE Used(c)
    <3>1. Payer[c] \in Users /\ requests[Payer[c]] \in Nat /\ freeRequests[Payer[c]] \in Nat
      BY <1>0 DEF TypeOK
    <3>2. \/ requests[Payer[c]] > freeRequests[Payer[c]]
          \/ requests[Payer[c]] = freeRequests[Payer[c]]
      BY <3>1
    <3> QED
      BY <1>0, <1>4, <2>2, <3>1, <3>2 DEF FreeRequestsFirst
  <2> QED
    BY <1>0, <1>1, <1>4, <2>1, <2>2 DEF FreeRequestsFirst
<1>5. ASSUME NEW c \in Calls,
             \/ StartAdService(c) \/ StartApproveAd(c) \/ StartInteraction(c) \/ StartReveal(c)
             \/ StartConnection(c)
      PROVE FreeInv'
  <2>1. requests[Payer[c]] \in Nat /\ FreeRequestQuota \in Nat
    BY <1>0 DEF TypeOK
  <2>2. PICK k, step : /\ Start(c, k, step)
                       /\ k = "connection" /\ step = "balance"
                          => requests[Payer[c]] >= FreeRequestQuota
                       /\ step # "charge"
    BY <1>5, <2>1 DEF StartAdService, StartApproveAd, StartInteraction, StartReveal,
                      StartConnection
  <2> QED
    BY <1>4, <2>2
<1>6. ASSUME NEW c \in Calls,
             CheckBalance(c) \/ Charge(c) \/ Serve(c) \/ ThrowAfterCharge(c) \/ Answer(c)
      PROVE FreeInv'
  <2>1. /\ Kept /\ kind' = kind
        /\ \A d \in Calls \ {c} : pc'[d] = pc[d] /\ charged'[d] = charged[d]
        /\ pc'[c] \in {"balance", "charge"} => pc[c] = "balance"
        /\ pc'[c] = "log" => pc[c] = "charge" /\ kind[c] = "connection"
    BY <1>0, <1>6 DEF CheckBalance, Charge, Serve, ThrowAfterCharge, Answer, Go, logVars, TypeOK
  <2> QED
    BY <1>0, <1>1, <2>1 DEF FreeRequestsFirst
<1>7. ASSUME NEW c \in Calls, LogRequest(c) PROVE FreeInv'
  <2>1. /\ pc[c] = "log" /\ UNCHANGED <<kind, charged>> /\ Payer[c] \in Users
        /\ pc'[c] = "effect"
        /\ \A d \in Calls \ {c} : pc'[d] = pc[d]
    BY <1>0, <1>7 DEF LogRequest, Go, TypeOK
  <2>2. /\ requests'[Payer[c]] = requests[Payer[c]] + 1
        /\ freeRequests'[Payer[c]] = IF charged[c] THEN freeRequests[Payer[c]]
                                               ELSE freeRequests[Payer[c]] + 1
        /\ \A u \in Users \ {Payer[c]} :
              requests'[u] = requests[u] /\ freeRequests'[u] = freeRequests[u]
    BY <1>0, <1>7, <2>1 DEF LogRequest, TypeOK
  <2>3. \A u \in Users : /\ freeRequests[u] \in Nat /\ requests[u] \in Nat
                         /\ freeRequests'[u] \in Nat /\ freeRequests'[u] >= freeRequests[u]
    BY <1>0, <2>2 DEF TypeOK
  <2>4. ASSUME NEW u \in Users
        PROVE /\ freeRequests'[u] <= requests'[u]
              /\ requests'[u] > freeRequests'[u] => freeRequests'[u] >= FreeRequestQuota
    <3>1. CASE u = Payer[c] /\ charged[c]
      <4>1. Used(c)
        BY <1>0, <2>1, <3>1 DEF FreeRequestsFirst
      <4> QED
        BY <2>2, <2>3, <3>1, <4>1
    <3>2. CASE u = Payer[c] /\ ~charged[c]
      <4>1. requests[u] > freeRequests[u] => freeRequests[u] >= FreeRequestQuota
        BY <1>0 DEF FreeRequestsFirst
      <4> QED
        BY <2>2, <2>3, <3>2, <4>1
    <3>3. CASE u # Payer[c]
      BY <1>0, <2>2, <2>3, <3>3 DEF FreeRequestsFirst
    <3> QED
      BY <3>1, <3>2, <3>3
  <2>5. ASSUME NEW d \in Calls,
               \/ pc'[d] = "log" /\ charged'[d]
               \/ kind'[d] = "connection" /\ pc'[d] \in {"balance", "charge"}
        PROVE freeRequests'[Payer[d]] >= FreeRequestQuota
    <3>1. d # c /\ Payer[d] \in Users
      BY <2>1, <2>5
    <3>2. Used(d)
      BY <1>0, <2>1, <2>5, <3>1 DEF FreeRequestsFirst
    <3> QED
      BY <2>3, <3>1, <3>2
  <2> QED
    BY <2>4, <2>5 DEF FreeRequestsFirst
<1> QED
  BY <1>2, <1>3, <1>5, <1>6, <1>7 DEF Next

\* For any number of calls at once, errors and crashes, nobody is charged for a connection
\* request while one of his free ones is left.
THEOREM NobodyPaysForFreeRequests == Spec => []FreeRequestsFirst
<1>1. Init => FreeInv
  <2>1. Init => TypeOK
    BY DEF Init, TypeOK, Steps, AllKinds
  <2> QED
    BY <2>1, PayerAssumption DEF Init, FreeInv, FreeRequestsFirst
<1>2. FreeInv => FreeRequestsFirst
  BY DEF FreeInv
<1> QED
  BY <1>1, <1>2, FreeInvStep, SpendTypeCorrect, PTL DEF Spec

-----------------------------------------------------------------------------
(* How far a wallet can go below zero *)

\* The calls that have checked the balance of a wallet and are about to charge it.
AtCharge(u) == {c \in CallsOf(u) : pc[c] = "charge"}

\* With m the dearest kind: each call about to charge found its cost in the wallet, or so
\* much less as the calls that have charged since may have taken.
DebtOf(u, m) ==
    LET n == Cardinality(CallsOf(u))
        p == Cardinality(AtCharge(u))
    IN  IF AtCharge(u) = {}
        THEN wallet[u] >= -(Cost[m] * (n - 1))
        ELSE \E c \in AtCharge(u) : wallet[u] >= Cost[kind[c]] - Cost[m] * (n - p)

KindsInUse == \A c \in Calls : pc[c] # "idle" => kind[c] \in Kinds

DebtInv(m) == TypeOK /\ KindsInUse /\ \A u \in Users : CallsOf(u) # {} => DebtOf(u, m)

LEMMA CallsCounted ==
    ASSUME IsFiniteSet(Calls), NEW u \in Users
    PROVE  /\ IsFiniteSet(CallsOf(u)) /\ Cardinality(CallsOf(u)) \in Nat
           /\ IsFiniteSet(AtCharge(u)) /\ Cardinality(AtCharge(u)) \in Nat
           /\ Cardinality(AtCharge(u)) <= Cardinality(CallsOf(u))
           /\ CallsOf(u) # {} => Cardinality(CallsOf(u)) >= 1
           /\ AtCharge(u) # {} => Cardinality(AtCharge(u)) >= 1
<1>1. CallsOf(u) \subseteq Calls /\ AtCharge(u) \subseteq CallsOf(u)
  BY DEF CallsOf, AtCharge
<1>2. IsFiniteSet(CallsOf(u)) /\ IsFiniteSet(AtCharge(u))
  BY <1>1, FS_Subset
<1> QED
  BY <1>1, <1>2, FS_Subset, FS_CardinalityType, FS_EmptySet

\* The same calls are about to charge, and the wallet has not shrunk.
LEMMA DebtKept ==
    ASSUME TypeOK, TypeOK', NEW u \in Users, NEW m \in Kinds, DebtOf(u, m),
           AtCharge(u)' = AtCharge(u), \A c \in AtCharge(u) : kind'[c] = kind[c],
           wallet'[u] >= wallet[u], IsFiniteSet(Calls)
    PROVE  DebtOf(u, m)'
<1> DEFINE n == Cardinality(CallsOf(u))
           p == Cardinality(AtCharge(u))
<1>1. n \in Nat /\ p \in Nat /\ CallsOf(u)' = CallsOf(u) /\ Cardinality(AtCharge(u)') = p
  BY CallsCounted DEF CallsOf
<1>2. Cost[m] \in Nat /\ wallet[u] \in Int /\ wallet'[u] \in Int
  BY CostAssumption, KindsAssumption DEF TypeOK
<1>3. Cost[m] * (n - 1) \in Int /\ Cost[m] * (n - p) \in Int
  BY <1>1, <1>2
<1> HIDE DEF n, p
<1>4. CASE AtCharge(u) = {}
  <2>1. wallet[u] >= -(Cost[m] * (n - 1))
    BY <1>4 DEF DebtOf, n
  <2>2. wallet'[u] >= -(Cost[m] * (n - 1))
    BY <1>2, <1>3, <2>1
  <2> QED
    BY <1>1, <1>4, <2>2 DEF DebtOf, n
<1>5. CASE AtCharge(u) # {}
  <2>1. PICK c \in AtCharge(u) : wallet[u] >= Cost[kind[c]] - Cost[m] * (n - p)
    BY <1>5 DEF DebtOf, n, p
  <2>2. Cost[kind[c]] \in Nat
    BY CostAssumption DEF TypeOK, AtCharge, CallsOf
  <2>3. wallet'[u] >= Cost[kind'[c]] - Cost[m] * (n - p)
    BY <1>2, <1>3, <2>1, <2>2
  <2> QED
    BY <1>1, <1>5, <2>3 DEF DebtOf, n, p
<1> QED
  BY <1>4, <1>5

\* One more call found its cost in the wallet.
LEMMA DebtChecked ==
    ASSUME TypeOK, TypeOK', NEW u \in Users, NEW m \in Kinds, IsFiniteSet(Calls),
           NEW c \in CallsOf(u), wallet'[u] = wallet[u], kind' = kind,
           wallet[u] >= Cost[kind[c]],
           AtCharge(u)' = AtCharge(u) \union {c}
    PROVE  DebtOf(u, m)'
<1> DEFINE n == Cardinality(CallsOf(u))
           p == Cardinality(AtCharge(u)')
<1>1. CallsOf(u)' = CallsOf(u) /\ c \in Calls
  BY DEF CallsOf
<1>2. n \in Nat /\ p \in Nat /\ p <= n
  <2>1. AtCharge(u)' \subseteq CallsOf(u)
    BY DEF AtCharge, CallsOf
  <2> QED
    BY <2>1, CallsCounted, FS_Subset, FS_CardinalityType
<1>3. Cost[m] \in Nat /\ wallet[u] \in Int /\ Cost[kind[c]] \in Nat
  BY <1>1, CostAssumption, KindsAssumption DEF TypeOK
<1> HIDE DEF n, p
<1>4. Cost[m] * (n - p) \in Nat
  BY <1>2, <1>3
<1>5. wallet'[u] >= Cost[kind'[c]] - Cost[m] * (n - p)
  BY <1>3, <1>4
<1> QED
  BY <1>1, <1>5 DEF DebtOf, n, p

\* One of them charges.
LEMMA DebtCharged ==
    ASSUME TypeOK, TypeOK', NEW u \in Users, NEW m \in Kinds, IsFiniteSet(Calls),
           \A k \in Kinds : Cost[k] <= Cost[m], KindsInUse, DebtOf(u, m),
           NEW c \in AtCharge(u), wallet'[u] >= wallet[u] - Cost[kind[c]], kind' = kind,
           AtCharge(u)' = AtCharge(u) \ {c}
    PROVE  DebtOf(u, m)'
<1> DEFINE n == Cardinality(CallsOf(u))
           p == Cardinality(AtCharge(u))
<1>1. CallsOf(u)' = CallsOf(u)
  BY DEF CallsOf
<1>2. n \in Nat /\ p \in Nat /\ p <= n /\ p >= 1
  BY CallsCounted
<1>3. Cardinality(AtCharge(u)') = p - 1
  BY CallsCounted, FS_RemoveElement
<1>4. \A d \in AtCharge(u) : Cost[kind[d]] \in Nat /\ Cost[kind[d]] <= Cost[m]
  BY CostAssumption, KindsAssumption DEF TypeOK, AtCharge, CallsOf, KindsInUse
<1>5. Cost[m] \in Nat /\ wallet[u] \in Int /\ wallet'[u] \in Int
  BY CostAssumption, KindsAssumption DEF TypeOK
<1>6. PICK d \in AtCharge(u) : wallet[u] >= Cost[kind[d]] - Cost[m] * (n - p)
  BY DEF DebtOf
<1> HIDE DEF n, p
<1>7. /\ Cost[m] * (n - (p - 1)) = Cost[m] * (n - p) + Cost[m]
      /\ Cost[m] * (n - p) \in Nat
  BY <1>2, <1>5
<1>8. CASE AtCharge(u)' = {}
  <2>1. AtCharge(u) = {c} /\ d = c
    BY <1>8
  <2>2. p = 1
    BY <1>3, <1>8, FS_EmptySet, <1>2
  <2>3. wallet'[u] >= -(Cost[m] * (n - 1))
    BY <1>4, <1>5, <1>6, <1>7, <2>1, <2>2
  <2> QED
    BY <1>1, <1>8, <2>3 DEF DebtOf, n
<1>9. CASE AtCharge(u)' # {}
  <2>1. PICK e \in AtCharge(u)' : d # c => e = d
    BY <1>9
  <2>2. e \in AtCharge(u)
    BY <2>1
  <2>3. wallet'[u] >= Cost[kind[e]] - Cost[m] * (n - (p - 1))
    <3>1. CASE d # c
      BY <1>4, <1>5, <1>6, <1>7, <2>1, <3>1
    <3>2. CASE d = c
      BY <1>4, <1>5, <1>6, <1>7, <2>2, <3>2
    <3> QED
      BY <3>1, <3>2
  <2>4. wallet'[u] >= Cost[kind'[e]] - Cost[m] * (n - (p - 1))
    BY <2>3
  <2> QED
    BY <1>1, <1>3, <1>9, <2>1, <2>4 DEF DebtOf, n
<1> QED
  BY <1>8, <1>9

\* All of them are gone.
LEMMA DebtRestarted ==
    ASSUME TypeOK, NEW u \in Users, NEW m \in Kinds, IsFiniteSet(Calls), DebtOf(u, m),
           CallsOf(u) # {}, wallet' = wallet, AtCharge(u)' = {}
    PROVE  DebtOf(u, m)'
<1> DEFINE n == Cardinality(CallsOf(u))
           p == Cardinality(AtCharge(u))
<1>1. CallsOf(u)' = CallsOf(u)
  BY DEF CallsOf
<1>2. Cost[m] \in Nat /\ wallet[u] \in Int /\ n \in Nat /\ p \in Nat /\ p <= n
      /\ (AtCharge(u) # {} => p >= 1)
  BY CallsCounted, CostAssumption, KindsAssumption DEF TypeOK
<1>3. wallet[u] >= -(Cost[m] * (n - 1))
  <2>1. CASE AtCharge(u) = {}
    BY <2>1 DEF DebtOf
  <2>2. CASE AtCharge(u) # {}
    <3>1. PICK c \in AtCharge(u) : wallet[u] >= Cost[kind[c]] - Cost[m] * (n - p)
      BY <2>2 DEF DebtOf
    <3>2. Cost[kind[c]] \in Nat
      BY CostAssumption DEF TypeOK, AtCharge, CallsOf
    <3> HIDE DEF n, p
    <3>3. Cost[m] * (n - 1) = Cost[m] * (n - p) + Cost[m] * (p - 1) /\ Cost[m] * (p - 1) \in Nat
          /\ Cost[m] * (n - p) \in Nat
      BY <1>2, <2>2
    <3> QED
      BY <1>2, <3>1, <3>2, <3>3
  <2> QED
    BY <2>1, <2>2
<1> QED
  BY <1>1, <1>3 DEF DebtOf

LEMMA KindsStep == TypeOK /\ KindsInUse /\ [Next]_vars => KindsInUse'
<1> SUFFICES ASSUME TypeOK, KindsInUse, [Next]_vars PROVE KindsInUse'
  OBVIOUS
<1>1. ASSUME NEW c \in Calls, NEW k, NEW step, Start(c, k, step) PROVE KindsInUse'
  BY <1>1 DEF Start, Go, KindsInUse, TypeOK
<1>2. CASE \E c \in Calls : \/ StartAdService(c) \/ StartApproveAd(c) \/ StartInteraction(c) \/ StartReveal(c)
                            \/ StartConnection(c)
  BY <1>1, <1>2 DEF StartAdService, StartApproveAd, StartInteraction, StartReveal, StartConnection
<1>3. CASE \E c \in Calls : \/ CheckBalance(c) \/ Charge(c) \/ LogRequest(c) \/ Serve(c)
                            \/ ThrowAfterCharge(c) \/ Answer(c)
  BY <1>3 DEF CheckBalance, Charge, LogRequest, Serve, ThrowAfterCharge, Answer, Go, KindsInUse,
              TypeOK
<1>4. CASE (\E u \in Users : Register(u) \/ Purchase(u)) \/ WindowPasses \/ Midnight \/ Restart
           \/ UNCHANGED vars
  BY <1>4 DEF Register, Purchase, WindowPasses, Midnight, Restart, vars, callVars, KindsInUse
<1> QED
  BY <1>2, <1>3, <1>4 DEF Next

LEMMA DebtStep ==
    ASSUME TypeOK, TypeOK', KindsInUse, [Next]_vars, IsFiniteSet(Calls),
           NEW u \in Users, NEW m \in Kinds, \A k \in Kinds : Cost[k] <= Cost[m],
           DebtOf(u, m), CallsOf(u) # {}
    PROVE  DebtOf(u, m)'
<1>0. wallet[u] \in Int /\ wallet[u] >= wallet[u]
  BY DEF TypeOK
<1>1. CASE (\E w \in Users : Register(w) \/ Purchase(w)) \/ WindowPasses \/ Midnight
           \/ UNCHANGED vars
  <2>1. /\ pc' = pc /\ kind' = kind /\ wallet'[u] >= wallet[u]
    BY <1>0, <1>1 DEF Register, Purchase, WindowPasses, Midnight, vars, callVars, TypeOK
  <2>2. AtCharge(u)' = AtCharge(u)
    BY <2>1 DEF AtCharge, CallsOf
  <2> QED
    BY <2>1, <2>2, DebtKept
<1>2. ASSUME NEW c \in Calls, NEW k, NEW step, step # "charge", Start(c, k, step)
      PROVE  DebtOf(u, m)'
  <2>1. /\ pc[c] = "idle" /\ pc' = [pc EXCEPT ![c] = step] /\ kind' = [kind EXCEPT ![c] = k]
        /\ wallet' = wallet
    BY <1>2 DEF Start, Go
  <2>2. AtCharge(u)' = AtCharge(u) /\ c \notin AtCharge(u)
    BY <1>2, <2>1 DEF AtCharge, CallsOf, TypeOK
  <2>3. \A d \in AtCharge(u) : kind'[d] = kind[d]
    BY <2>1, <2>2 DEF AtCharge, CallsOf, TypeOK
  <2> QED
    BY <1>0, <2>1, <2>2, <2>3, DebtKept
<1>3. ASSUME NEW c \in Calls, \/ StartAdService(c) \/ StartApproveAd(c) \/ StartInteraction(c) \/ StartReveal(c)
                                \/ StartConnection(c)
      PROVE  DebtOf(u, m)'
  <2>1. PICK k, step : step # "charge" /\ Start(c, k, step)
    BY <1>3 DEF StartAdService, StartApproveAd, StartInteraction, StartReveal, StartConnection
  <2> QED
    BY <1>2, <2>1
<1>4. ASSUME NEW c \in Calls, LogRequest(c) \/ Serve(c) \/ ThrowAfterCharge(c) \/ Answer(c)
      PROVE  DebtOf(u, m)'
  <2>1. /\ pc[c] # "charge" /\ pc'[c] # "charge" /\ \A d \in Calls : d # c => pc'[d] = pc[d]
        /\ kind' = kind /\ wallet' = wallet
    BY <1>4 DEF LogRequest, Serve, ThrowAfterCharge, Answer, Go, TypeOK
  <2>2. AtCharge(u)' = AtCharge(u)
    BY <2>1 DEF AtCharge, CallsOf
  <2> QED
    BY <1>0, <2>1, <2>2, DebtKept
<1>5. ASSUME NEW c \in Calls, CheckBalance(c) PROVE DebtOf(u, m)'
  <2>1. /\ pc[c] = "balance" /\ \A d \in Calls : d # c => pc'[d] = pc[d]
        /\ pc'[c] = IF wallet[Payer[c]] >= Cost[kind[c]] THEN "charge" ELSE "threw"
        /\ kind' = kind /\ wallet' = wallet
    BY <1>5 DEF CheckBalance, Go, TypeOK
  <2>2. CASE Payer[c] = u /\ wallet[u] >= Cost[kind[c]]
    <3>1. c \in CallsOf(u) /\ AtCharge(u)' = AtCharge(u) \union {c}
      BY <2>1, <2>2 DEF AtCharge, CallsOf
    <3> QED
      BY <2>1, <2>2, <3>1, DebtChecked
  <2>3. CASE ~ (Payer[c] = u /\ wallet[u] >= Cost[kind[c]])
    <3>1. AtCharge(u)' = AtCharge(u)
      BY <2>1, <2>3 DEF AtCharge, CallsOf
    <3> QED
      BY <1>0, <2>1, <3>1, DebtKept
  <2> QED
    BY <2>2, <2>3
<1>6. ASSUME NEW c \in Calls, Charge(c) PROVE DebtOf(u, m)'
  <2>1. /\ pc[c] = "charge" /\ pc'[c] # "charge" /\ \A d \in Calls : d # c => pc'[d] = pc[d]
        /\ kind' = kind
        /\ wallet' = [wallet EXCEPT ![Payer[c]] = IF Counts(kind[c]) THEN @ - Cost[kind[c]] ELSE @]
    BY <1>6 DEF Charge, Go, TypeOK
  <2>2. CASE Payer[c] = u
    <3>1. c \in AtCharge(u) /\ AtCharge(u)' = AtCharge(u) \ {c}
      BY <2>1, <2>2 DEF AtCharge, CallsOf
    <3>2. Cost[kind[c]] \in Nat
      BY CostAssumption DEF TypeOK
    <3>3. wallet'[u] >= wallet[u] - Cost[kind[c]]
      BY <1>0, <2>1, <2>2, <3>2 DEF TypeOK
    <3> QED
      BY <2>1, <3>1, <3>3, DebtCharged
  <2>3. CASE Payer[c] # u
    <3>1. AtCharge(u)' = AtCharge(u) /\ wallet'[u] = wallet[u]
      BY <2>1, <2>3 DEF AtCharge, CallsOf, TypeOK
    <3> QED
      BY <1>0, <2>1, <3>1, DebtKept
  <2> QED
    BY <2>2, <2>3
<1>7. CASE Restart
  <2>1. AtCharge(u)' = {} /\ wallet' = wallet
    BY <1>7 DEF Restart, AtCharge, CallsOf
  <2> QED
    BY <2>1, DebtRestarted
<1> QED
  BY <1>1, <1>3, <1>4, <1>5, <1>6, <1>7 DEF Next

\* The debt that calls at once can leave on a wallet is at most the dearest cost of all of
\* them but one, for any number of calls on it, and through errors and restarts: each of
\* bump, extend, trackInteraction, approveAd, revealContact and consumeConnectionRequest
\* looks at the balance before its own charge.
THEOREM DebtIsBounded ==
    ASSUME IsFiniteSet(Calls), NEW m \in Kinds, \A k \in Kinds : Cost[k] <= Cost[m]
    PROVE  Spec => []OverdraftIsBounded
<1>1. Init => DebtInv(m)
  <2> SUFFICES ASSUME Init PROVE DebtInv(m)
    OBVIOUS
  <2>1. TypeOK /\ KindsInUse
    BY DEF Init, TypeOK, Steps, AllKinds, KindsInUse
  <2>2. ASSUME NEW u \in Users, CallsOf(u) # {} PROVE DebtOf(u, m)
    <3>1. AtCharge(u) = {} /\ wallet[u] = 0
      BY DEF Init, AtCharge, CallsOf
    <3>2. Cost[m] * (Cardinality(CallsOf(u)) - 1) \in Nat
      BY <2>2, CallsCounted, CostAssumption, KindsAssumption
    <3> QED
      BY <3>1, <3>2 DEF DebtOf
  <2> QED
    BY <2>1, <2>2 DEF DebtInv
<1>2. DebtInv(m) /\ TypeOK' /\ [Next]_vars => DebtInv(m)'
  <2> SUFFICES ASSUME DebtInv(m), TypeOK', [Next]_vars PROVE DebtInv(m)'
    OBVIOUS
  <2>1. TypeOK /\ KindsInUse /\ KindsInUse'
    BY KindsStep DEF DebtInv
  <2>2. ASSUME NEW u \in Users, CallsOf(u)' # {} PROVE DebtOf(u, m)'
    <3>1. CallsOf(u) # {} /\ DebtOf(u, m)
      BY <2>2 DEF CallsOf, DebtInv
    <3> QED
      BY <2>1, <3>1, DebtStep
  <2> QED
    BY <2>1, <2>2 DEF DebtInv
<1>3. DebtInv(m) => OverdraftIsBounded
  <2> SUFFICES ASSUME DebtInv(m), NEW c \in Calls
               PROVE  wallet[Payer[c]] >= -(Cost[m] * (Cardinality(CallsOf(Payer[c])) - 1))
    BY DEF OverdraftIsBounded
  <2> PICK u : u = Payer[c]
    OBVIOUS
  <2> DEFINE n == Cardinality(CallsOf(u))
             p == Cardinality(AtCharge(u))
  <2>1. u \in Users /\ c \in CallsOf(u)
    BY PayerAssumption DEF CallsOf
  <2>2. Cost[m] \in Nat /\ wallet[u] \in Int /\ n \in Nat /\ p \in Nat /\ p <= n
        /\ (AtCharge(u) # {} => p >= 1)
    BY <2>1, CallsCounted, CostAssumption, KindsAssumption DEF TypeOK, DebtInv
  <2>3. DebtOf(u, m)
    BY <2>1 DEF DebtInv
  <2>4. CASE AtCharge(u) = {}
    BY <2>3, <2>4 DEF DebtOf
  <2>5. CASE AtCharge(u) # {}
    <3>1. PICK d \in AtCharge(u) : wallet[u] >= Cost[kind[d]] - Cost[m] * (n - p)
      BY <2>3, <2>5 DEF DebtOf
    <3>2. Cost[kind[d]] \in Nat
      BY CostAssumption DEF TypeOK, AtCharge, CallsOf, DebtInv
    <3> HIDE DEF n, p
    <3>3. Cost[m] * (n - 1) = Cost[m] * (n - p) + Cost[m] * (p - 1) /\ Cost[m] * (p - 1) \in Nat
          /\ Cost[m] * (n - p) \in Nat
      BY <2>2, <2>5
    <3>4. wallet[u] >= -(Cost[m] * (n - 1))
      BY <2>2, <3>1, <3>2, <3>3
    <3> QED
      BY <3>4 DEF n
  <2> QED
    BY <2>4, <2>5
<1> QED
  BY <1>1, <1>2, <1>3, SpendTypeCorrect, PTL DEF Spec

-----------------------------------------------------------------------------
(* Quotas: a call that was let through may still raise the counter it was let through on *)

FreeClaims(u) == {c \in CallsOf(u) : pc[c] = "log" /\ ~charged[c]}

Delivering(u, k) ==
    {c \in CallsOf(u) : kind[c] = k /\ pc[c] \in {"balance", "charge", "log", "effect"}}

QuotaInv ==
    /\ TypeOK
    /\ \A u \in Users : freeRequests[u] <= requests[u] /\ metered[u] <= reveals[u]
    /\ \A u \in Users : CallsOf(u) # {} =>
          LET n == Cardinality(CallsOf(u)) IN
          /\ freeRequests[u] + Cardinality(FreeClaims(u)) <= FreeRequestQuota + n - 1
          /\ metered[u] + Cardinality(Delivering(u, "reveal")) <= MaxDaily + n - 1
          /\ clicks[u] + Cardinality(Delivering(u, "interaction")) <= 1 + n - 1

\* A counter below its limit, or that a claim was turned into, stays in its bound.
LEMMA ClaimStep ==
    ASSUME NEW A, NEW S \in SUBSET A, NEW T \in SUBSET A, IsFiniteSet(A), A # {},
           NEW x \in Nat, NEW y \in Nat, NEW limit \in Nat,
           x + Cardinality(S) <= limit + Cardinality(A) - 1,
           \/ y <= x /\ T \subseteq S
           \/ y <= x + 1 /\ \E c \in S : T = S \ {c}
           \/ y < limit
    PROVE  y + Cardinality(T) <= limit + Cardinality(A) - 1
<1>1. /\ IsFiniteSet(S) /\ IsFiniteSet(T)
      /\ {Cardinality(S), Cardinality(T), Cardinality(A)} \subseteq Nat
      /\ Cardinality(T) <= Cardinality(A)
  BY FS_Subset, FS_CardinalityType
<1>2. CASE y <= x /\ T \subseteq S
  <2>1. Cardinality(T) <= Cardinality(S)
    BY <1>1, <1>2, FS_Subset
  <2> QED
    BY <1>1, <1>2, <2>1
<1>3. CASE y <= x + 1 /\ \E c \in S : T = S \ {c}
  <2>1. Cardinality(T) = Cardinality(S) - 1
    BY <1>1, <1>3, FS_RemoveElement
  <2> QED
    BY <1>1, <1>3, <2>1
<1>4. CASE y < limit
  BY <1>1, <1>4
<1> QED
  BY <1>2, <1>3, <1>4

LEMMA FreeStep ==
    ASSUME QuotaInv, [Next]_vars, NEW u \in Users
    PROVE  \/ freeRequests'[u] <= freeRequests[u] /\ FreeClaims(u)' \subseteq FreeClaims(u)
           \/ /\ freeRequests'[u] <= freeRequests[u] + 1
              /\ \E c \in FreeClaims(u) : FreeClaims(u)' = FreeClaims(u) \ {c}
           \/ freeRequests'[u] < FreeRequestQuota
<1> DEFINE Goal == \/ freeRequests'[u] <= freeRequests[u] /\ FreeClaims(u)' \subseteq FreeClaims(u)
                   \/ /\ freeRequests'[u] <= freeRequests[u] + 1
                      /\ \E c \in FreeClaims(u) : FreeClaims(u)' = FreeClaims(u) \ {c}
                   \/ freeRequests'[u] < FreeRequestQuota
<1>0. /\ TypeOK /\ freeRequests[u] <= requests[u]
      /\ freeRequests[u] \in Nat /\ requests[u] \in Nat /\ freeRequests[u] <= freeRequests[u]
  BY DEF QuotaInv, TypeOK
<1>1. CASE (\E w \in Users : Register(w) \/ Purchase(w)) \/ WindowPasses \/ Midnight \/ Restart
           \/ UNCHANGED vars
  BY <1>0, <1>1 DEF Register, Purchase, WindowPasses, Midnight, Restart, vars, callVars, logVars,
                    FreeClaims, CallsOf
<1>2. ASSUME NEW c \in Calls, NEW k, NEW step, Start(c, k, step),
             step = "log" => requests[Payer[c]] < FreeRequestQuota
      PROVE  Goal
  <2>1. /\ pc[c] = "idle" /\ pc'[c] = step /\ UNCHANGED logVars
        /\ \A d \in Calls : d # c => pc'[d] = pc[d] /\ charged'[d] = charged[d]
    BY <1>0, <1>2 DEF Start, Go, TypeOK
  <2>2. CASE step # "log" \/ Payer[c] # u
    BY <1>0, <2>1, <2>2 DEF FreeClaims, CallsOf, logVars
  <2>3. CASE step = "log" /\ Payer[c] = u
    BY <1>0, <1>2, <2>1, <2>3, QuotaAssumption DEF logVars
  <2> QED
    BY <2>2, <2>3
<1>3. ASSUME NEW c \in Calls, \/ StartAdService(c) \/ StartApproveAd(c) \/ StartInteraction(c) \/ StartReveal(c)
                                \/ StartConnection(c)
      PROVE  Goal
  <2>1. PICK k, step : Start(c, k, step)
                       /\ (step = "log" => requests[Payer[c]] < FreeRequestQuota)
    BY <1>3 DEF StartAdService, StartApproveAd, StartInteraction, StartReveal, StartConnection
  <2> QED
    BY <1>2, <2>1
<1>4. ASSUME NEW c \in Calls, CheckBalance(c) \/ Charge(c) \/ Serve(c) \/ ThrowAfterCharge(c)
                                \/ Answer(c)
      PROVE  Goal
  <2>1. /\ pc'[c] = "log" => charged'[c]
        /\ freeRequests' = freeRequests
        /\ \A d \in Calls : d # c => pc'[d] = pc[d] /\ charged'[d] = charged[d]
    BY <1>0, <1>4 DEF CheckBalance, Charge, Serve, ThrowAfterCharge, Answer, Go, logVars, TypeOK
  <2> QED
    BY <1>0, <2>1 DEF FreeClaims, CallsOf
<1>5. ASSUME NEW c \in Calls, LogRequest(c) PROVE Goal
  <2>1. /\ pc[c] = "log" /\ pc'[c] = "effect" /\ charged' = charged
        /\ \A d \in Calls : d # c => pc'[d] = pc[d]
        /\ freeRequests' = [freeRequests EXCEPT ![Payer[c]] = IF charged[c] THEN @ ELSE @ + 1]
    BY <1>0, <1>5 DEF LogRequest, Go, TypeOK
  <2>2. CASE Payer[c] = u /\ ~charged[c]
    <3>1. c \in FreeClaims(u) /\ FreeClaims(u)' = FreeClaims(u) \ {c}
      BY <2>1, <2>2 DEF FreeClaims, CallsOf
    <3>2. freeRequests'[u] = freeRequests[u] + 1
      BY <1>0, <2>1, <2>2 DEF TypeOK
    <3> QED
      BY <1>0, <3>1, <3>2
  <2>3. CASE ~ (Payer[c] = u /\ ~charged[c])
    <3>1. freeRequests'[u] = freeRequests[u] /\ FreeClaims(u)' \subseteq FreeClaims(u)
      BY <1>0, <2>1, <2>3 DEF TypeOK, FreeClaims, CallsOf
    <3> QED
      BY <1>0, <3>1
  <2> QED
    BY <2>2, <2>3
<1> QED
  BY <1>1, <1>3, <1>4, <1>5 DEF Next

LEMMA RevealStep ==
    ASSUME QuotaInv, [Next]_vars, NEW u \in Users
    PROVE  LET D == Delivering(u, "reveal") IN
           \/ metered'[u] <= metered[u] /\ D' \subseteq D
           \/ metered'[u] <= metered[u] + 1 /\ \E c \in D : D' = D \ {c}
           \/ metered'[u] < MaxDaily
<1> DEFINE D == Delivering(u, "reveal")
           Goal == \/ metered'[u] <= metered[u] /\ D' \subseteq D
                   \/ metered'[u] <= metered[u] + 1 /\ \E c \in D : D' = D \ {c}
                   \/ metered'[u] < MaxDaily
<1>0. TypeOK /\ metered[u] \in Nat /\ metered[u] <= metered[u] /\ (0 <= metered[u])
  BY DEF QuotaInv, TypeOK
<1>1. CASE (\E w \in Users : Register(w) \/ Purchase(w)) \/ WindowPasses \/ Midnight \/ Restart
           \/ UNCHANGED vars
  <2>1. metered'[u] <= metered[u]
    BY <1>0, <1>1 DEF Register, Purchase, WindowPasses, Midnight, Restart, vars, callVars, logVars
  <2>2. D' \subseteq D
    BY <1>1 DEF Register, Purchase, WindowPasses, Midnight, Restart, vars, callVars, Delivering,
                CallsOf
  <2> QED
    BY <2>1, <2>2
<1>2. ASSUME NEW c \in Calls, NEW k, NEW step, Start(c, k, step),
             k = "reveal" => reveals[Payer[c]] < MaxDaily
      PROVE  Goal
  <2>1. /\ pc[c] = "idle" /\ kind'[c] = k /\ metered' = metered
        /\ \A d \in Calls : d # c => pc'[d] = pc[d] /\ kind'[d] = kind[d]
    BY <1>0, <1>2 DEF Start, Go, TypeOK, logVars
  <2>2. CASE k # "reveal" \/ Payer[c] # u
    BY <1>0, <2>1, <2>2 DEF Delivering, CallsOf
  <2>3. CASE k = "reveal" /\ Payer[c] = u
    BY <1>0, <1>2, <2>1, <2>3, QuotaAssumption DEF QuotaInv, TypeOK
  <2> QED
    BY <2>2, <2>3
<1>3. ASSUME NEW c \in Calls, \/ StartAdService(c) \/ StartApproveAd(c) \/ StartInteraction(c) \/ StartReveal(c)
                                \/ StartConnection(c)
      PROVE  Goal
  <2>1. PICK k, step : Start(c, k, step) /\ (k = "reveal" => reveals[Payer[c]] < MaxDaily)
    BY <1>3 DEF StartAdService, StartApproveAd, StartInteraction, StartReveal, StartConnection
  <2> QED
    BY <1>2, <2>1
<1>4. ASSUME NEW c \in Calls, CheckBalance(c) \/ Charge(c) \/ LogRequest(c) \/ ThrowAfterCharge(c)
                                \/ Answer(c)
      PROVE  Goal
  <2>1. /\ pc[c] \in {"balance", "charge", "log", "effect", "threw"}
        /\ pc[c] = "threw" => pc'[c] \notin {"balance", "charge", "log", "effect"}
        /\ metered' = metered /\ kind' = kind
        /\ \A d \in Calls : d # c => pc'[d] = pc[d]
    BY <1>0, <1>4 DEF CheckBalance, Charge, LogRequest, ThrowAfterCharge, Answer, Go, logVars, TypeOK
  <2> QED
    BY <1>0, <2>1 DEF Delivering, CallsOf
<1>5. ASSUME NEW c \in Calls, Serve(c) PROVE Goal
  <2>1. /\ pc[c] = "effect" /\ pc'[c] = "idle" /\ kind' = kind
        /\ \A d \in Calls : d # c => pc'[d] = pc[d]
        /\ metered' = [metered EXCEPT ![Payer[c]] = IF kind[c] = "reveal" THEN @ + 1 ELSE @]
    BY <1>0, <1>5 DEF Serve, Go, TypeOK
  <2>2. CASE Payer[c] = u /\ kind[c] = "reveal"
    <3>1. c \in D /\ D' = D \ {c}
      BY <2>1, <2>2 DEF Delivering, CallsOf
    <3>2. metered'[u] = metered[u] + 1
      BY <1>0, <2>1, <2>2 DEF TypeOK
    <3> QED
      BY <1>0, <3>1, <3>2
  <2>3. CASE ~ (Payer[c] = u /\ kind[c] = "reveal")
    <3>1. metered'[u] = metered[u] /\ D' \subseteq D
      BY <1>0, <2>1, <2>3 DEF TypeOK, Delivering, CallsOf
    <3> QED
      BY <1>0, <3>1
  <2> QED
    BY <2>2, <2>3
<1> QED
  BY <1>1, <1>3, <1>4, <1>5 DEF Next

LEMMA ClickStep ==
    ASSUME QuotaInv, [Next]_vars, NEW u \in Users
    PROVE  LET D == Delivering(u, "interaction") IN
           \/ clicks'[u] <= clicks[u] /\ D' \subseteq D
           \/ clicks'[u] <= clicks[u] + 1 /\ \E c \in D : D' = D \ {c}
           \/ clicks'[u] < 1
<1> DEFINE D == Delivering(u, "interaction")
           Goal == \/ clicks'[u] <= clicks[u] /\ D' \subseteq D
                   \/ clicks'[u] <= clicks[u] + 1 /\ \E c \in D : D' = D \ {c}
                   \/ clicks'[u] < 1
<1>0. TypeOK /\ clicks[u] \in Nat /\ clicks[u] <= clicks[u] /\ (0 <= clicks[u])
  BY DEF QuotaInv, TypeOK
<1>1. CASE (\E w \in Users : Register(w) \/ Purchase(w)) \/ WindowPasses \/ Midnight \/ Restart
           \/ UNCHANGED vars
  <2>1. clicks'[u] <= clicks[u]
    BY <1>0, <1>1 DEF Register, Purchase, WindowPasses, Midnight, Restart, vars, callVars, logVars
  <2>2. D' \subseteq D
    BY <1>1 DEF Register, Purchase, WindowPasses, Midnight, Restart, vars, callVars, Delivering,
                CallsOf
  <2> QED
    BY <2>1, <2>2
<1>2. ASSUME NEW c \in Calls, NEW k, NEW step, Start(c, k, step),
             k = "interaction" => clicks[Payer[c]] = 0
      PROVE  Goal
  <2>1. /\ pc[c] = "idle" /\ kind'[c] = k /\ clicks' = clicks
        /\ \A d \in Calls : d # c => pc'[d] = pc[d] /\ kind'[d] = kind[d]
    BY <1>0, <1>2 DEF Start, Go, TypeOK, logVars
  <2>2. CASE k # "interaction" \/ Payer[c] # u
    BY <1>0, <2>1, <2>2 DEF Delivering, CallsOf
  <2>3. CASE k = "interaction" /\ Payer[c] = u
    BY <1>0, <1>2, <2>1, <2>3, QuotaAssumption
  <2> QED
    BY <2>2, <2>3
<1>3. ASSUME NEW c \in Calls, \/ StartAdService(c) \/ StartApproveAd(c) \/ StartInteraction(c) \/ StartReveal(c)
                                \/ StartConnection(c)
      PROVE  Goal
  <2>1. PICK k, step : Start(c, k, step) /\ (k = "interaction" => clicks[Payer[c]] = 0)
    BY <1>3 DEF StartAdService, StartApproveAd, StartInteraction, StartReveal, StartConnection
  <2> QED
    BY <1>2, <2>1
<1>4. ASSUME NEW c \in Calls, CheckBalance(c) \/ Charge(c) \/ LogRequest(c) \/ ThrowAfterCharge(c)
                                \/ Answer(c)
      PROVE  Goal
  <2>1. /\ pc[c] \in {"balance", "charge", "log", "effect", "threw"}
        /\ pc[c] = "threw" => pc'[c] \notin {"balance", "charge", "log", "effect"}
        /\ clicks' = clicks /\ kind' = kind
        /\ \A d \in Calls : d # c => pc'[d] = pc[d]
    BY <1>0, <1>4 DEF CheckBalance, Charge, LogRequest, ThrowAfterCharge, Answer, Go, logVars, TypeOK
  <2> QED
    BY <1>0, <2>1 DEF Delivering, CallsOf
<1>5. ASSUME NEW c \in Calls, Serve(c) PROVE Goal
  <2>1. /\ pc[c] = "effect" /\ pc'[c] = "idle" /\ kind' = kind
        /\ \A d \in Calls : d # c => pc'[d] = pc[d]
        /\ clicks' = [clicks EXCEPT ![Payer[c]] = IF kind[c] = "interaction" THEN @ + 1 ELSE @]
    BY <1>0, <1>5 DEF Serve, Go, TypeOK
  <2>2. CASE Payer[c] = u /\ kind[c] = "interaction"
    <3>1. c \in D /\ D' = D \ {c}
      BY <2>1, <2>2 DEF Delivering, CallsOf
    <3>2. clicks'[u] = clicks[u] + 1
      BY <1>0, <2>1, <2>2 DEF TypeOK
    <3> QED
      BY <1>0, <3>1, <3>2
  <2>3. CASE ~ (Payer[c] = u /\ kind[c] = "interaction")
    <3>1. clicks'[u] = clicks[u] /\ D' \subseteq D
      BY <1>0, <2>1, <2>3 DEF TypeOK, Delivering, CallsOf
    <3> QED
      BY <1>0, <3>1
  <2> QED
    BY <2>2, <2>3
<1> QED
  BY <1>1, <1>3, <1>4, <1>5 DEF Next

LEMMA LogsStep ==
    ASSUME TypeOK, \A u \in Users : freeRequests[u] <= requests[u] /\ metered[u] <= reveals[u],
           [Next]_vars, NEW u \in Users
    PROVE  freeRequests'[u] <= requests'[u] /\ metered'[u] <= reveals'[u]
<1>0. {freeRequests[u], requests[u], metered[u], reveals[u]} \subseteq Nat
  BY DEF TypeOK
<1>1. ASSUME NEW c \in Calls, \/ StartAdService(c) \/ StartApproveAd(c) \/ StartInteraction(c) \/ StartReveal(c)
                                \/ StartConnection(c) \/ CheckBalance(c) \/ Charge(c)
                                \/ ThrowAfterCharge(c) \/ Answer(c)
      PROVE  UNCHANGED logVars
  BY <1>1 DEF StartAdService, StartApproveAd, StartInteraction, StartReveal, StartConnection, Start, CheckBalance,
              Charge, ThrowAfterCharge, Answer
<1>2. CASE UNCHANGED logVars
  BY <1>2 DEF logVars
<1>3. ASSUME NEW c \in Calls, LogRequest(c) PROVE freeRequests'[u] <= requests'[u] /\ metered'[u] <= reveals'[u]
  BY <1>0, <1>3 DEF LogRequest, TypeOK
<1>4. ASSUME NEW c \in Calls, Serve(c) PROVE freeRequests'[u] <= requests'[u] /\ metered'[u] <= reveals'[u]
  BY <1>0, <1>4 DEF Serve, TypeOK
<1>5. CASE WindowPasses \/ Midnight \/ Restart \/ UNCHANGED vars
  BY <1>0, <1>5 DEF WindowPasses, Midnight, Restart, vars, logVars
<1>6. CASE \E w \in Users : Register(w) \/ Purchase(w)
  BY <1>2, <1>6 DEF Register, Purchase
<1> QED
  BY <1>1, <1>2, <1>3, <1>4, <1>5, <1>6 DEF Next

LEMMA QuotaInit ==
    ASSUME IsFiniteSet(Calls), Init
    PROVE  QuotaInv
<1>1. TypeOK
  BY DEF Init, TypeOK, Steps, AllKinds
<1>2. ASSUME NEW u \in Users
      PROVE  /\ FreeClaims(u) = {} /\ Delivering(u, "reveal") = {} /\ Delivering(u, "interaction") = {}
             /\ freeRequests[u] = 0 /\ requests[u] = 0 /\ metered[u] = 0 /\ reveals[u] = 0
             /\ clicks[u] = 0
  BY DEF Init, FreeClaims, Delivering, CallsOf
<1>3. ASSUME NEW u \in Users, CallsOf(u) # {}
      PROVE  LET n == Cardinality(CallsOf(u)) IN
             /\ freeRequests[u] + Cardinality(FreeClaims(u)) <= FreeRequestQuota + n - 1
             /\ metered[u] + Cardinality(Delivering(u, "reveal")) <= MaxDaily + n - 1
             /\ clicks[u] + Cardinality(Delivering(u, "interaction")) <= 1 + n - 1
  <2>1. Cardinality(CallsOf(u)) \in Nat /\ Cardinality(CallsOf(u)) >= 1
    BY <1>3, CallsCounted
  <2>2. FreeRequestQuota \in Nat /\ MaxDaily \in Nat
    BY QuotaAssumption
  <2>3. /\ freeRequests[u] + Cardinality(FreeClaims(u)) = 0
        /\ metered[u] + Cardinality(Delivering(u, "reveal")) = 0
        /\ clicks[u] + Cardinality(Delivering(u, "interaction")) = 0
    BY <1>2, FS_EmptySet
  <2> QED
    BY <2>1, <2>2, <2>3
<1>4. \A u \in Users : freeRequests[u] <= requests[u] /\ metered[u] <= reveals[u]
  BY <1>2
<1> QED
  BY <1>1, <1>3, <1>4 DEF QuotaInv

LEMMA QuotaStep ==
    ASSUME IsFiniteSet(Calls), QuotaInv, TypeOK', [Next]_vars
    PROVE  QuotaInv'
<1>1. \A u \in Users : freeRequests'[u] <= requests'[u] /\ metered'[u] <= reveals'[u]
  BY LogsStep DEF QuotaInv
<1>2. ASSUME NEW u \in Users, CallsOf(u) # {}
      PROVE  LET n == Cardinality(CallsOf(u)) IN
             /\ freeRequests'[u] + Cardinality(FreeClaims(u)') <= FreeRequestQuota + n - 1
             /\ metered'[u] + Cardinality(Delivering(u, "reveal")') <= MaxDaily + n - 1
             /\ clicks'[u] + Cardinality(Delivering(u, "interaction")') <= 1 + n - 1
  <2>0. IsFiniteSet(CallsOf(u)) /\ TypeOK
    BY CallsCounted DEF QuotaInv
  <2>1. /\ freeRequests[u] \in Nat /\ metered[u] \in Nat /\ clicks[u] \in Nat
        /\ freeRequests'[u] \in Nat /\ metered'[u] \in Nat /\ clicks'[u] \in Nat
        /\ FreeRequestQuota \in Nat /\ MaxDaily \in Nat /\ 1 \in Nat
    BY QuotaAssumption DEF QuotaInv, TypeOK
  <2>2. /\ FreeClaims(u) \subseteq CallsOf(u) /\ FreeClaims(u)' \subseteq CallsOf(u)
        /\ \A k : Delivering(u, k) \subseteq CallsOf(u) /\ Delivering(u, k)' \subseteq CallsOf(u)
    BY DEF FreeClaims, Delivering, CallsOf
  <2>3. /\ freeRequests[u] + Cardinality(FreeClaims(u)) <= FreeRequestQuota + Cardinality(CallsOf(u)) - 1
        /\ metered[u] + Cardinality(Delivering(u, "reveal")) <= MaxDaily + Cardinality(CallsOf(u)) - 1
        /\ clicks[u] + Cardinality(Delivering(u, "interaction")) <= 1 + Cardinality(CallsOf(u)) - 1
    BY <1>2 DEF QuotaInv
  <2>4. freeRequests'[u] + Cardinality(FreeClaims(u)') <= FreeRequestQuota + Cardinality(CallsOf(u)) - 1
    BY <1>2, <2>0, <2>1, <2>2, <2>3, FreeStep, ClaimStep
  <2>5. metered'[u] + Cardinality(Delivering(u, "reveal")') <= MaxDaily + Cardinality(CallsOf(u)) - 1
    <3> PICK D, E : D = Delivering(u, "reveal") /\ E = Delivering(u, "reveal")'
      OBVIOUS
    <3>1. \/ metered'[u] <= metered[u] /\ E \subseteq D
          \/ metered'[u] <= metered[u] + 1 /\ \E c \in D : E = D \ {c}
          \/ metered'[u] < MaxDaily
      BY RevealStep
    <3>2. metered[u] + Cardinality(D) <= MaxDaily + Cardinality(CallsOf(u)) - 1
      BY <2>3
    <3> QED
      BY <1>2, <2>0, <2>1, <2>2, <3>1, <3>2, ClaimStep
  <2>6. clicks'[u] + Cardinality(Delivering(u, "interaction")') <= 1 + Cardinality(CallsOf(u)) - 1
    <3> PICK D, E : D = Delivering(u, "interaction") /\ E = Delivering(u, "interaction")'
      OBVIOUS
    <3>1. \/ clicks'[u] <= clicks[u] /\ E \subseteq D
          \/ clicks'[u] <= clicks[u] + 1 /\ \E c \in D : E = D \ {c}
          \/ clicks'[u] < 1
      BY ClickStep
    <3>2. clicks[u] + Cardinality(D) <= 1 + Cardinality(CallsOf(u)) - 1
      BY <2>3
    <3> QED
      BY <1>2, <2>0, <2>1, <2>2, <3>1, <3>2, ClaimStep
  <2> QED
    BY <2>4, <2>5, <2>6
<1>3. \A u : CallsOf(u)' = CallsOf(u)
  BY DEF CallsOf
<1> QED
  BY <1>1, <1>2, <1>3 DEF QuotaInv

\* What the invariant leaves to the properties once the claims are dropped.
LEMMA QuotaBounds ==
    ASSUME IsFiniteSet(Calls), QuotaInv
    PROVE  FreeQuotaKept /\ DailyMaxKept /\ ClicksPerWindow
<1> SUFFICES ASSUME NEW c \in Calls, NEW u \in Users, u = Payer[c]
             PROVE  LET n == Cardinality(CallsOf(u)) IN
                    /\ freeRequests[u] <= FreeRequestQuota + n - 1
                    /\ metered[u] <= MaxDaily + n - 1
                    /\ clicks[u] <= n
  BY PayerAssumption DEF FreeQuotaKept, DailyMaxKept, ClicksPerWindow
<1>1. c \in CallsOf(u) /\ IsFiniteSet(CallsOf(u)) /\ Cardinality(CallsOf(u)) \in Nat
  BY CallsCounted DEF CallsOf
<1>2. /\ FreeClaims(u) \subseteq CallsOf(u)
      /\ \A k : Delivering(u, k) \subseteq CallsOf(u)
  BY DEF FreeClaims, Delivering, CallsOf
<1>3. /\ Cardinality(FreeClaims(u)) \in Nat /\ Cardinality(Delivering(u, "reveal")) \in Nat
      /\ Cardinality(Delivering(u, "interaction")) \in Nat
  BY <1>1, <1>2, FS_Subset, FS_CardinalityType
<1>4. {freeRequests[u], metered[u], clicks[u], FreeRequestQuota, MaxDaily} \subseteq Nat
  BY QuotaAssumption DEF QuotaInv, TypeOK
<1>5. /\ freeRequests[u] + Cardinality(FreeClaims(u)) <= FreeRequestQuota + Cardinality(CallsOf(u)) - 1
      /\ metered[u] + Cardinality(Delivering(u, "reveal")) <= MaxDaily + Cardinality(CallsOf(u)) - 1
      /\ clicks[u] + Cardinality(Delivering(u, "interaction")) <= 1 + Cardinality(CallsOf(u)) - 1
  BY <1>1 DEF QuotaInv
<1> QED
  BY <1>1, <1>3, <1>4, <1>5

\* The inductive invariant of the quotas.
LEMMA QuotaHolds ==
    ASSUME IsFiniteSet(Calls)
    PROVE  Spec => []QuotaInv
<1>1. Init => QuotaInv
  BY QuotaInit
<1>2. QuotaInv /\ TypeOK' /\ [Next]_vars => QuotaInv'
  BY QuotaStep
<1> QED
  BY <1>1, <1>2, SpendTypeCorrect, PTL DEF Spec

\* consumeConnectionRequest, revealContact and trackInteraction count the rows of a log
\* before they write one: as many free requests, reveals of a day (on either side of
\* midnight) and clicks of a window as calls run beside the last, and no more, pass
\* their limits.
THEOREM QuotasAreLimited ==
    ASSUME IsFiniteSet(Calls)
    PROVE  Spec => []QuotasKept
<1>1. QuotaInv => QuotasKept
  BY QuotaBounds DEF QuotasKept
<1> QED
  BY <1>1, QuotaHolds, PTL

-----------------------------------------------------------------------------
(* One call on a wallet at a time *)

\* No two calls spend from one wallet at a time.
OneCallEach == \A c, d \in Calls : Payer[c] = Payer[d] => c = d

\* What a user is held to: the balance is not negative, and no quota is overrun.
WithinLimits(u) ==
    /\ wallet[u] >= 0
    /\ freeRequests[u] <= FreeRequestQuota
    /\ metered[u] <= MaxDaily
    /\ clicks[u] <= 1

\* What the counts are of: a free request is a request, a metered reveal a reveal.
CountsAgree(u) == freeRequests[u] <= requests[u] /\ metered[u] <= reveals[u]

\* What a call has checked still holds when it relies on it.
ChecksHold(c) ==
    /\ pc[c] = "charge" => wallet[Payer[c]] >= Cost[kind[c]]
    /\ pc[c] = "log" => kind[c] = "connection"
    /\ pc[c] = "log" /\ ~charged[c] => requests[Payer[c]] < FreeRequestQuota
    /\ pc[c] \in {"balance", "charge", "effect"} /\ kind[c] = "reveal" => reveals[Payer[c]] < MaxDaily
    /\ pc[c] \in {"balance", "charge", "effect"} /\ kind[c] = "interaction" => clicks[Payer[c]] = 0

\* The inductive invariant of a wallet with one call at a time.
AloneInv ==
    /\ \A u \in Users : WithinLimits(u) /\ CountsAgree(u)
    /\ \A c \in Calls : ChecksHold(c)

\* A call that runs alone on its wallet keeps them: nobody else writes what it has read.
LEMMA AloneStep ==
    ASSUME OneCallEach
    PROVE  TypeOK /\ AloneInv /\ [Next]_vars => AloneInv'
<1> SUFFICES ASSUME TypeOK, AloneInv, [Next]_vars PROVE AloneInv'
  OBVIOUS
<1> USE PayerAssumption, CostAssumption, QuotaAssumption
    DEF TypeOK, Steps, AloneInv, WithinLimits, CountsAgree, ChecksHold, OneCallEach
<1>1. ASSUME NEW u \in Users, Register(u) \/ Purchase(u) PROVE AloneInv'
  BY <1>1 DEF Register, Purchase, callVars, logVars, AllKinds
<1>2. ASSUME NEW c \in Calls, NEW k, NEW step \in {"balance", "log", "effect"},
             Start(c, k, step),
             step = "log" => k = "connection" /\ requests[Payer[c]] < FreeRequestQuota,
             step # "log" /\ k = "reveal" => reveals[Payer[c]] < MaxDaily,
             step # "log" /\ k = "interaction" => clicks[Payer[c]] = 0
      PROVE AloneInv'
  BY <1>2 DEF Start, Go, logVars
<1>3. ASSUME NEW c \in Calls, StartAdService(c) \/ StartApproveAd(c) PROVE AloneInv'
  BY <1>2, <1>3 DEF StartAdService, StartApproveAd
<1>4. ASSUME NEW c \in Calls, StartInteraction(c) PROVE AloneInv'
  BY <1>2, <1>4 DEF StartInteraction
<1>5. ASSUME NEW c \in Calls, StartReveal(c) PROVE AloneInv'
  BY <1>2, <1>5 DEF StartReveal
<1>6. ASSUME NEW c \in Calls, StartConnection(c) PROVE AloneInv'
  BY <1>2, <1>6 DEF StartConnection
<1>7. ASSUME NEW c \in Calls, CheckBalance(c) \/ ThrowAfterCharge(c) \/ Answer(c) PROVE AloneInv'
  BY <1>7 DEF CheckBalance, ThrowAfterCharge, Answer, Go, logVars
<1>8. ASSUME NEW c \in Calls, Charge(c) PROVE AloneInv'
  BY <1>8 DEF Charge, Go, logVars, AllKinds
<1>9. ASSUME NEW c \in Calls, LogRequest(c) PROVE AloneInv'
  BY <1>9 DEF LogRequest, Go
<1>10. ASSUME NEW c \in Calls, Serve(c) PROVE AloneInv'
  BY <1>10 DEF Serve, Go
<1>11. CASE WindowPasses
  BY <1>11 DEF WindowPasses, callVars
<1>12. CASE Midnight
  BY <1>12 DEF Midnight, callVars
<1>13. CASE Restart
  BY <1>13 DEF Restart, logVars
<1>14. CASE UNCHANGED vars
  BY <1>14 DEF vars, callVars, logVars
<1> QED
  BY <1>1, <1>3, <1>4, <1>5, <1>6, <1>7, <1>8, <1>9, <1>10, <1>11, <1>12, <1>13, <1>14 DEF Next

\* One call at a time spends no credit that is not there, and gets no free request, reveal of
\* a day or click of a window beyond the limits, through errors and crashes: what
\* bump, extend, trackInteraction, approveAd, revealContact and consumeConnectionRequest
\* get wrong, they get wrong only when two of them run on one wallet.
THEOREM OneCallIsExact ==
    ASSUME OneCallEach
    PROVE  Spec => [](\A u \in Users : WithinLimits(u))
<1>1. Init => AloneInv
  BY QuotaAssumption DEF Init, AloneInv, WithinLimits, CountsAgree, ChecksHold
<1>2. TypeOK /\ AloneInv /\ [Next]_vars => AloneInv'
  BY AloneStep
<1>3. AloneInv => \A u \in Users : WithinLimits(u)
  BY DEF AloneInv
<1> QED
  BY <1>1, <1>2, <1>3, SpendTypeCorrect, PTL DEF Spec
=============================================================================
