------------------------- MODULE ReferralSettlement -------------------------
(***************************************************************************)
(* What an inviter earns.  A connection request that costs credit logs the *)
(* inviter's share of the cost with the request, and settles the shares    *)
(* that have piled up: it reads the unsettled rows, creates a reward for   *)
(* the whole credits in their sum, and marks rows up to the amount paid.   *)
(* The three are separate awaits and nothing makes them one, so requests   *)
(* of two invited users, an error or a crash may come between them.        *)
(*                                                                         *)
(* Everything here is about one inviter: settleReferrerEarnings filters by *)
(* referrerUserId.  What a request charges its sender is in CreditSpend.   *)
(* A share is counted in parts of a credit, Unit to one.  The code adds    *)
(* shares up as floating-point numbers: ten shares of a tenth come to      *)
(* 0.9999999999999999 and are worth nothing yet.  A sum is off by at most  *)
(* Err parts for each row in it, on either side.                           *)
(***************************************************************************)
EXTENDS Integers, Sequences, Functions

CONSTANTS
    Calls,       \* slots for concurrent requests of the users one invited
    Unit,        \* parts of one credit
    Shares,      \* what one request may be worth to the inviter, in parts
    MaxShare,    \* ... at most
    Err,         \* what adding one row may be off by: 0 where shares are quarters, say
    MaxRequests  \* bound: requests are sent only below this many

ASSUME UnitAssumption == Unit \in Nat \ {0}
ASSUME SharesAssumption ==
    Err \in Nat /\ MaxShare \in Nat /\ Shares \subseteq (Err + 1) .. MaxShare
ASSUME RequestsAssumption == MaxRequests \in Nat

VARIABLES
    log,     \* the paid rows of connectionRequestLog, oldest first
    rewards, \* how many reward rows the inviter has
    paid,    \* ... and the whole credits in them
    pc,      \* where the request in each slot stands
    unpaid,  \* ... the rows it found unsettled
    payable, \* ... and the whole credits it made of them
    mishap   \* what has gone wrong so far: nothing the code keeps

referralVars == <<log, rewards, paid, pc, unpaid, payable, mishap>>

\* The share of each row, off by e.
Shared(e) == [i \in DOMAIN log |-> log[i].share + e]

\* What the code may get when it adds up the shares of some rows: anything between
\* Least and Most.
Least(rows) == SumFunctionOnSet(Shared(-Err), rows)
Most(rows) == SumFunctionOnSet(Shared(Err), rows)

\* The whole credits in such a sum, rounded down.
Payables(rows) == (Least(rows) \div Unit) .. (Most(rows) \div Unit)

Settled == {i \in DOMAIN log : log[i].settled}
Unsettled == DOMAIN log \ Settled

ReferralTypeOK ==
    /\ log \in Seq([share : Shares, settled : BOOLEAN])
    /\ rewards \in Nat
    /\ paid \in Nat
    /\ pc \in [Calls -> {"idle", "logged", "pay", "mark"}]
    /\ unpaid \in [Calls -> SUBSET DOMAIN log]
    /\ payable \in [Calls -> Nat]
    /\ \A c \in Calls : IF pc[c] \in {"pay", "mark"}
                        THEN payable[c] \in Payables(unpaid[c]) \ {0}
                        ELSE unpaid[c] = {} /\ payable[c] = 0
    /\ mishap \subseteq {"overlap", "unmarked", "unread"}

ReferralInit ==
    /\ log = <<>>
    /\ rewards = 0
    /\ paid = 0
    /\ pc = [c \in Calls |-> "idle"]
    /\ unpaid = [c \in Calls |-> {}]
    /\ payable = [c \in Calls |-> 0]
    /\ mishap = {}

-----------------------------------------------------------------------------

\* consumeConnectionRequest writes the request with the share; the market it is for
\* sets the cost and the percentage.
LogRequest(c, s) ==
    /\ pc[c] = "idle"
    /\ Len(log) < MaxRequests
    /\ log' = Append(log, [share |-> s, settled |-> FALSE])
    /\ pc' = [pc EXCEPT ![c] = "logged"]
    /\ UNCHANGED <<rewards, paid, unpaid, payable, mishap>>

\* Mutant: a reward is created whatever the sum.
OweAnything(whole) == TRUE

\* Is there a credit to pay?
Owes(whole) == whole >= 1

\* The settlements that have read and not marked yet.
Settling == {c \in Calls : pc[c] \in {"pay", "mark"}}

\* Mutant: only the row that the request has logged is read.
NewestRow == {i \in Unsettled : \A j \in Unsettled : j <= i}

\* The rows a settlement reads: every unsettled one of the inviter, not only the one
\* just logged.
Found == Unsettled

\* settleReferrerEarnings adds them up, and returns when they do not make a whole
\* credit.
ReadUnpaid(c) ==
    /\ pc[c] = "logged"
    /\ \E whole \in Payables(Found) :
          IF Owes(whole)
          THEN /\ pc' = [pc EXCEPT ![c] = "pay"]
               /\ unpaid' = [unpaid EXCEPT ![c] = Found]
               /\ payable' = [payable EXCEPT ![c] = whole]
               /\ mishap' = IF Settling = {} THEN mishap ELSE mishap \union {"overlap"}
          ELSE /\ pc' = [pc EXCEPT ![c] = "idle"]
               /\ UNCHANGED <<unpaid, payable, mishap>>
    /\ UNCHANGED <<log, rewards, paid>>

\* The reward row: it counts in the inviter's balance at once.
CreateReward(c) ==
    /\ pc[c] = "pay"
    /\ rewards' = rewards + 1
    /\ paid' = paid + payable[c]
    /\ pc' = [pc EXCEPT ![c] = "mark"]
    /\ UNCHANGED <<log, unpaid, payable, mishap>>

UpTo(rows, i) == {j \in rows : j <= i}

\* The oldest few of some rows, none of them, or all.
Prefixes(rows) == {UpTo(rows, i) : i \in 0 .. Len(log)}

\* Mutant: every row that was read is marked, the remainder with it.
CoversAll(rows, whole) == {rows}

\* Mutant: the newest of the rows that are paid for is left out.
CoversLess(rows, whole) ==
    {{i \in oldest : \E j \in oldest : i < j} :
        oldest \in {p \in Prefixes(rows) : Least(p) <= whole * Unit /\
                     \A i \in rows \ p : Most(UpTo(rows, i)) > whole * Unit}}

\* The rows that are paid for: the oldest ones that are together within the amount; the
\* first one that is not ends them.  They are added up again, with the same errors.
Coverings(rows, whole) ==
    {oldest \in Prefixes(rows) :
        /\ Least(oldest) <= whole * Unit
        /\ \A i \in rows \ oldest : Most(UpTo(rows, i)) > whole * Unit}

\* The request of the slot is over.
EndRequest(c) ==
    /\ pc' = [pc EXCEPT ![c] = "idle"]
    /\ unpaid' = [unpaid EXCEPT ![c] = {}]
    /\ payable' = [payable EXCEPT ![c] = 0]

\* The rows are marked by id, whoever marked them in between.
MarkSettled(c) ==
    /\ pc[c] = "mark"
    /\ \E covered \in Coverings(unpaid[c], payable[c]) :
          log' = [i \in DOMAIN log |-> [log[i] EXCEPT !.settled = @ \/ i \in covered]]
    /\ EndRequest(c)
    /\ UNCHANGED <<rewards, paid, mishap>>

\* What is left undone of a settlement that ends here: a reward without its marks, or
\* rows nobody has looked at.
LeftBy(step) == IF step = "mark" THEN "unmarked" ELSE "unread"

\* The database refuses the next call: the request fails, what it wrote stays.
Throw(c) ==
    /\ pc[c] # "idle"
    /\ EndRequest(c)
    /\ mishap' = mishap \union {LeftBy(pc[c])}
    /\ UNCHANGED <<log, rewards, paid>>

\* The process dies: no settlement is taken up again.
LoseSettlements ==
    /\ \E c \in Calls : pc[c] # "idle"
    /\ pc' = [c \in Calls |-> "idle"]
    /\ unpaid' = [c \in Calls |-> {}]
    /\ payable' = [c \in Calls |-> 0]
    /\ mishap' = mishap \union {LeftBy(pc[c]) : c \in {d \in Calls : pc[d] # "idle"}}
    /\ UNCHANGED <<log, rewards, paid>>

ReferralNext ==
    \/ \E c \in Calls :
          \/ \E s \in Shares : LogRequest(c, s)
          \/ ReadUnpaid(c)
          \/ CreateReward(c)
          \/ MarkSettled(c)
          \/ Throw(c)
    \/ LoseSettlements

ReferralSpec == ReferralInit /\ [][ReferralNext]_referralVars

-----------------------------------------------------------------------------
(* Properties *)

Quiet == \A c \in Calls : pc[c] = "idle"

\* What the shares of some rows really come to, and how far apart two sums of them may be.
Total(rows) == SumFunctionOnSet(Shared(0), rows)
Drift(rows) == Most(rows) - Least(rows)

\* The inviter never loses a share to more than rounding: whatever is marked as settled
\* is in his balance, through overlapping settlements, errors and crashes, because
\* settleReferrerEarnings pays before it marks and marks no more than it paid.
MarkedWasPaid == Least(Settled) <= paid * Unit

\* The remainder is paid again, but never more of it than the row the amount ends in:
\* where settlements neither overlapped nor stopped half way, a reward exceeds what is
\* marked for it by less than one share.
OverpaidBelowAShare ==
    Quiet /\ mishap \subseteq {"unread"} =>
        paid * Unit <= Most(Settled) + rewards * (MaxShare + Err)

\* No whole credit is forgotten: where no call broke off, what is left unsettled is below
\* a credit and a share, up to rounding.  The last settlement to read sees the rows of
\* all requests before it, even of those it overlaps with.
NoCreditLeftWaiting ==
    Quiet /\ mishap \subseteq {"overlap"} =>
        Total(Unsettled) < Unit + MaxShare + Drift(DOMAIN log)

\* The comment of settleReferrerEarnings: the fraction that is left over stays for the
\* next settlement.  So one settlement after the other pays no more than was earned.
RemainderIsCarried ==
    mishap = {} => paid * Unit <= Total(DOMAIN log)
=============================================================================
