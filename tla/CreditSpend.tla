----------------------------- MODULE CreditSpend -----------------------------
(***************************************************************************)
(* Spending credit.  Six handlers sell a service for credit: bump and      *)
(* extend of an ad, an interaction with an ad, the approval of a bumped ad *)
(* (charged to the catalog's owner), the reveal of a phone and a           *)
(* connection request.  None of them reads the balance, writes the charge  *)
(* and delivers the service in one transaction: each is a sequence of      *)
(* awaits, cut here where another call, or a crash, can come between.      *)
(*                                                                         *)
(* wallet is what getUserBalance answers: the sum of the rows whose status *)
(* is 'success'.  A row written with the schema's default status 'pending' *)
(* leaves it alone.                                                        *)
(***************************************************************************)
EXTENDS Integers, FiniteSets

CONSTANTS
    Users,
    Calls,             \* slots for concurrent calls of the six handlers
    Payer,             \* the user whose wallet the call of a slot charges
    Kinds,             \* the handlers that may be called
    Cost,              \* what a paid service of each kind costs, in credits
    FreeRequestQuota,  \* connection requests a user may send for free
    FreeDaily,         \* reveals a user has for free each day
    MaxDaily,          \* reveals a user may have in a day
    MaxBalance,        \* bound: a purchase is made only below this balance
    MaxReveals,        \* bound: a seller's phone is revealed only below it
    MaxServices        \* bound: calls start only below this many charges

AllKinds == {"bump", "extend", "interaction", "approveAd", "reveal", "sellerReveal", "connection"}

ASSUME KindsAssumption == Kinds \subseteq AllKinds
ASSUME PayerAssumption == Payer \in [Calls -> Users]
ASSUME CostAssumption == Cost \in [AllKinds -> Nat \ {0}]
ASSUME QuotaAssumption == {FreeRequestQuota, FreeDaily, MaxDaily} \subseteq Nat
ASSUME BoundAssumption == {MaxBalance, MaxReveals, MaxServices} \subseteq Nat

VARIABLES
    registered,  \* users who have signed up
    wallet,      \* the balance getUserBalance answers
    pc,          \* where the call in each slot stands
    kind,        \* ... and which handler it is
    charged,     \* ... and whether it has written a charge
    charges,     \* charge rows written, per user
    requests,    \* rows of connectionRequestLog, per user
    freeRequests,\* ... those with isFree
    reveals,     \* rows of matchRevealLog of today, per user
    metered,     \* ... those that are subject to the daily quota
    clicks       \* interactions recorded in the last ten seconds, per user

callVars == <<pc, kind, charged>>
logVars == <<requests, freeRequests, reveals, metered, clicks>>
vars == <<registered, wallet, charges, callVars, logVars>>

Steps == {"idle", "balance", "charge", "log", "effect", "threw"}

TypeOK ==
    /\ registered \subseteq Users
    /\ wallet \in [Users -> Int]
    /\ pc \in [Calls -> Steps]
    /\ kind \in [Calls -> AllKinds]
    /\ charged \in [Calls -> BOOLEAN]
    /\ charges \in [Users -> Nat]
    /\ requests \in [Users -> Nat]
    /\ freeRequests \in [Users -> Nat]
    /\ reveals \in [Users -> Nat]
    /\ metered \in [Users -> Nat]
    /\ clicks \in [Users -> Nat]

Init ==
    /\ registered = {}
    /\ wallet = [u \in Users |-> 0]
    /\ pc = [c \in Calls |-> "idle"]
    /\ kind = [c \in Calls |-> "bump"]
    /\ charged = [c \in Calls |-> FALSE]
    /\ charges = [u \in Users |-> 0]
    /\ requests = [u \in Users |-> 0]
    /\ freeRequests = [u \in Users |-> 0]
    /\ reveals = [u \in Users |-> 0]
    /\ metered = [u \in Users |-> 0]
    /\ clicks = [u \in Users |-> 0]

-----------------------------------------------------------------------------
(* Where credit comes from *)

\* register: the gift is a row without a status, so 'pending'.
Register(u) ==
    /\ u \notin registered
    /\ registered' = registered \union {u}
    /\ UNCHANGED <<wallet, charges, callVars, logVars>>

\* A purchase was verified, or a receipt approved (see CreditPurchase).
Purchase(u) ==
    /\ u \in registered
    /\ wallet[u] < MaxBalance
    /\ wallet' = [wallet EXCEPT ![u] = @ + 1]
    /\ UNCHANGED <<registered, charges, callVars, logVars>>

-----------------------------------------------------------------------------
(* The handlers, up to the charge *)

Go(c, step) == pc' = [pc EXCEPT ![c] = step]

\* A handler of kind k starts in slot c; its service is free or to be paid for.
Start(c, k, step) ==
    /\ pc[c] = "idle"
    /\ k \in Kinds
    /\ Payer[c] \in registered
    /\ charges[Payer[c]] < MaxServices
    /\ kind' = [kind EXCEPT ![c] = k]
    /\ charged' = [charged EXCEPT ![c] = FALSE]
    /\ Go(c, step)
    /\ UNCHANGED <<registered, wallet, charges, logVars>>

\* bump always costs; extend does when it bumps or activates one ad too many.
StartAdService(c) ==
    \/ \E k \in {"bump", "extend"} : Start(c, k, "balance")
    \/ Start(c, "extend", "effect")

\* approveAd charges the catalog's owner for the bump of an ad, if that has run out.
StartApproveAd(c) == \E step \in {"balance", "effect"} : Start(c, "approveAd", step)

\* trackInteraction, of a type that costs or not: refused within ten seconds of
\* the same interaction.
StartInteraction(c) ==
    /\ clicks[Payer[c]] = 0
    /\ \E step \in {"balance", "effect"} : Start(c, "interaction", step)

\* Mutant: one reveal more than the daily maximum is let through.
StartRevealPastMax(c) ==
    \/ /\ reveals[Payer[c]] <= MaxDaily
       /\ Start(c, "reveal", IF reveals[Payer[c]] < FreeDaily THEN "effect" ELSE "balance")
    \/ /\ reveals[Payer[c]] < MaxReveals
       /\ Start(c, "sellerReveal", "effect")

\* revealContact with enforceMatchLimits on.  Of a buyer's phone: today's
\* reveals decide whether it is refused, free or charged.  Of a seller's: free.
StartReveal(c) ==
    \/ /\ reveals[Payer[c]] < MaxDaily
       /\ Start(c, "reveal", IF reveals[Payer[c]] < FreeDaily THEN "effect" ELSE "balance")
    \/ /\ reveals[Payer[c]] < MaxReveals
       /\ Start(c, "sellerReveal", "effect")

\* Mutant: the request that is being made is counted before it is compared.
StartConnectionCounted(c) ==
    Start(c, "connection", IF requests[Payer[c]] + 1 < FreeRequestQuota THEN "log" ELSE "balance")

\* consumeConnectionRequest: the first requests of a user are free.
StartConnection(c) ==
    Start(c, "connection", IF requests[Payer[c]] < FreeRequestQuota THEN "log" ELSE "balance")

\* Mutant: a balance that is only positive is taken for enough.
CheckPositiveBalance(c) ==
    /\ pc[c] = "balance"
    /\ Go(c, IF wallet[Payer[c]] > 0 THEN "charge" ELSE "threw")
    /\ UNCHANGED <<registered, wallet, charges, kind, charged, logVars>>

\* The balance is read; INSUFFICIENT_CREDIT is thrown when it is too small.
CheckBalance(c) ==
    /\ pc[c] = "balance"
    /\ Go(c, IF wallet[Payer[c]] >= Cost[kind[c]] THEN "charge" ELSE "threw")
    /\ UNCHANGED <<registered, wallet, charges, kind, charged, logVars>>

\* bump and spendCredit (the reveal) write their charge without a status.
Counts(k) == k \notin {"bump", "reveal"}

\* The charge row of -cost is created.
Charge(c) ==
    /\ pc[c] = "charge"
    /\ wallet' = [wallet EXCEPT ![Payer[c]] = IF Counts(kind[c]) THEN @ - Cost[kind[c]] ELSE @]
    /\ charges' = [charges EXCEPT ![Payer[c]] = @ + 1]
    /\ charged' = [charged EXCEPT ![c] = TRUE]
    /\ Go(c, IF kind[c] = "connection" THEN "log" ELSE "effect")
    /\ UNCHANGED <<registered, kind, logVars>>

-----------------------------------------------------------------------------
(* After the charge *)

\* consumeConnectionRequest's log row, from which the quota is counted.
LogRequest(c) ==
    /\ pc[c] = "log"
    /\ requests' = [requests EXCEPT ![Payer[c]] = @ + 1]
    /\ freeRequests' = [freeRequests EXCEPT ![Payer[c]] = IF charged[c] THEN @ ELSE @ + 1]
    /\ Go(c, "effect")
    /\ UNCHANGED <<registered, wallet, charges, kind, charged, reveals, metered, clicks>>

\* What was bought is written: the ad, the interaction, the reveal log (the
\* phone is in the answer), the member row of the connection request.
Serve(c) ==
    /\ pc[c] = "effect"
    /\ reveals' = [reveals EXCEPT ![Payer[c]] = IF kind[c] \in {"reveal", "sellerReveal"}
                                               THEN @ + 1 ELSE @]
    /\ metered' = [metered EXCEPT ![Payer[c]] = IF kind[c] = "reveal" THEN @ + 1 ELSE @]
    /\ clicks' = [clicks EXCEPT ![Payer[c]] = IF kind[c] = "interaction" THEN @ + 1 ELSE @]
    /\ Go(c, "idle")
    /\ UNCHANGED <<registered, wallet, charges, kind, charged, requests, freeRequests>>

\* addCustomer refuses, after the gate has charged, a business without a
\* responsible user; elsewhere the last write fails.
ThrowAfterCharge(c) ==
    /\ pc[c] = "effect"
    /\ Go(c, "threw")
    /\ UNCHANGED <<registered, wallet, charges, kind, charged, logVars>>

\* The caller gets its error.
Answer(c) ==
    /\ pc[c] = "threw"
    /\ Go(c, "idle")
    /\ UNCHANGED <<registered, wallet, charges, kind, charged, logVars>>

\* Ten seconds pass without an interaction.
WindowPasses ==
    /\ clicks' = [u \in Users |-> 0]
    /\ UNCHANGED <<registered, wallet, charges, callVars, requests, freeRequests, reveals,
                   metered>>

Midnight ==
    /\ reveals' = [u \in Users |-> 0]
    /\ metered' = [u \in Users |-> 0]
    /\ UNCHANGED <<registered, wallet, charges, callVars, requests, freeRequests, clicks>>

\* The process dies between two awaits: what is written stays.
Restart ==
    /\ pc' = [c \in Calls |-> "idle"]
    /\ UNCHANGED <<registered, wallet, charges, kind, charged, logVars>>

Next ==
    \/ \E u \in Users : Register(u) \/ Purchase(u)
    \/ \E c \in Calls :
           \/ StartAdService(c)
           \/ StartApproveAd(c)
           \/ StartInteraction(c)
           \/ StartReveal(c)
           \/ StartConnection(c)
           \/ CheckBalance(c)
           \/ Charge(c)
           \/ LogRequest(c)
           \/ Serve(c)
           \/ ThrowAfterCharge(c)
           \/ Answer(c)
    \/ WindowPasses
    \/ Midnight
    \/ Restart

Spec == Init /\ [][Next]_vars

-----------------------------------------------------------------------------
(* Properties *)

CallsOf(u) == {c \in Calls : Payer[c] = u}

\* When several calls charge one wallet at a time, the debt they can leave is at
\* most the cost of all of them but one, whatever else happened before: one call at a
\* time spends no credit that is not there.
OverdraftIsBounded ==
    \A c \in Calls : \E k \in Kinds :
        wallet[Payer[c]] >= -(Cost[k] * (Cardinality(CallsOf(Payer[c])) - 1))

\* Nobody pays for a connection request before his free ones are used up: whoever has a
\* charged request in the log, or one charged and not logged yet, has had the whole quota
\* for free, although the quota is counted from the log, where paid requests stand as well,
\* and calls between their charge and their log are cut off.
FreeRequestsFirst ==
    /\ \A u \in Users : requests[u] > freeRequests[u] => freeRequests[u] >= FreeRequestQuota
    /\ \A c \in Calls : pc[c] = "log" /\ charged[c] => freeRequests[Payer[c]] >= FreeRequestQuota

\* A user gets no more free connection requests than the quota, and one more for each
\* call that can run beside the last: with one call at a time, exactly the quota.
FreeQuotaKept ==
    \A c \in Calls :
        freeRequests[Payer[c]] <= FreeRequestQuota + Cardinality(CallsOf(Payer[c])) - 1

\* Likewise the buyers' phones a user gets in a day, and the maximum, also when midnight
\* comes in the middle of a call.
DailyMaxKept ==
    \A c \in Calls : metered[Payer[c]] <= MaxDaily + Cardinality(CallsOf(Payer[c])) - 1

\* Likewise the interactions with one ad that count, and are charged, in ten seconds.
ClicksPerWindow ==
    \A c \in Calls : clicks[Payer[c]] <= Cardinality(CallsOf(Payer[c]))

\* The free requests, the daily reveals and the clicks of a window, each counted before it
\* is written, overrun their limits by no more than the calls that run beside the last.
QuotasKept == FreeQuotaKept /\ DailyMaxKept /\ ClicksPerWindow
=============================================================================
