----------------------- MODULE MarketMembershipProofs -----------------------
(***************************************************************************)
(* Proofs about MarketMembership, for every number of catalogs, ads,       *)
(* requests and concurrent calls, and whatever the bounds.                 *)
(***************************************************************************)
EXTENDS MarketMembership, FiniteSetTheorems, SequenceTheorems, TLAPS

-----------------------------------------------------------------------------
(* Lists of steps: publications are put right after they were chosen. *)

Ordered(s) == \A i \in 1..Len(s) : s[i] = "put" => i > 1 /\ s[i - 1] = "stamp"

\* A list a call may begin with; only a call about a catalog closes one.
OpenSteps == Steps \ {"close"}
Plan == {s \in Seq(OpenSteps) : Ordered(s)}

LEMMA PlanEmpty == <<>> \in Plan
BY DEF Plan, Ordered

LEMMA PlanOne ==
    ASSUME NEW step \in OpenSteps, step # "put" PROVE <<step>> \in Plan
BY DEF Plan, Ordered

LEMMA PlanTwo ==
    ASSUME NEW x \in OpenSteps, NEW y \in OpenSteps, x # "put", y = "put" => x = "stamp"
    PROVE  <<x, y>> \in Plan
BY DEF Plan, Ordered

LEMMA PlanConcat ==
    ASSUME NEW s \in Plan, NEW t \in Plan PROVE s \o t \in Plan
<1>1. s \in Seq(OpenSteps) /\ t \in Seq(OpenSteps) /\ Ordered(s) /\ Ordered(t)
  BY DEF Plan
<1>2. /\ s \o t \in Seq(OpenSteps) /\ Len(s \o t) = Len(s) + Len(t)
      /\ \A i \in 1..(Len(s) + Len(t)) : (s \o t)[i] = IF i <= Len(s) THEN s[i] ELSE t[i - Len(s)]
  BY <1>1, ConcatProperties
<1>3. Len(s) \in Nat /\ Len(t) \in Nat
  BY <1>1, LenProperties
<1>4. ASSUME NEW i \in 1..Len(s \o t), (s \o t)[i] = "put"
      PROVE  i > 1 /\ (s \o t)[i - 1] = "stamp"
  <2>1. CASE i <= Len(s)
    BY <1>1, <1>2, <1>3, <1>4, <2>1 DEF Ordered
  <2>2. CASE i > Len(s)
    <3>1. i - Len(s) \in 1..Len(t) /\ t[i - Len(s)] = "put"
      BY <1>2, <1>3, <1>4, <2>2
    <3>2. i - Len(s) > 1 /\ t[i - Len(s) - 1] = "stamp"
      BY <1>1, <3>1 DEF Ordered
    <3> QED
      BY <1>2, <1>3, <1>4, <2>2, <3>2
  <2> QED
    BY <1>3, <2>1, <2>2
<1> QED
  BY <1>2, <1>4 DEF Plan, Ordered

LEMMA PlanIf ==
    ASSUME NEW s \in Plan, NEW condition PROVE If(condition, s) \in Plan
BY PlanEmpty DEF If

\* What a list is once its first step may have been taken.
OrderedRest(s) == \A i \in 2..Len(s) : s[i] = "put" => s[i - 1] = "stamp"

LEMMA PlanRest ==
    ASSUME NEW s \in Plan
    PROVE  s \in Seq(OpenSteps) /\ OrderedRest(s) /\ (s # <<>> => Head(s) # "put")
<1>1. s \in Seq(OpenSteps) /\ Len(s) \in Nat /\ Ordered(s)
  BY LenProperties DEF Plan
<1>2. OrderedRest(s)
  BY <1>1 DEF Ordered, OrderedRest
<1>3. s # <<>> => Head(s) = s[1] /\ 1 \in 1..Len(s)
  BY <1>1, EmptySeq
<1> QED
  BY <1>1, <1>2, <1>3 DEF Ordered

LEMMA TailRest ==
    ASSUME NEW s, NEW S, s \in Seq(S), s # <<>>, OrderedRest(s)
    PROVE  /\ Tail(s) \in Seq(S) /\ OrderedRest(Tail(s))
           /\ Tail(s) # <<>> /\ Head(s) # "stamp" => Head(Tail(s)) # "put"
<1>1. /\ Tail(s) \in Seq(S) /\ Len(Tail(s)) = Len(s) - 1
      /\ \A i \in 1..Len(Tail(s)) : Tail(s)[i] = s[i + 1]
  BY HeadTailProperties
<1>2. Len(s) \in Nat /\ Head(s) = s[1]
  BY LenProperties
<1>3. ASSUME NEW i \in 2..Len(Tail(s)), Tail(s)[i] = "put" PROVE Tail(s)[i - 1] = "stamp"
  <2>1. s[i + 1] = "put" /\ i + 1 \in 2..Len(s) /\ Tail(s)[i - 1] = s[i]
    BY <1>1, <1>2, <1>3
  <2> QED
    BY <1>2, <2>1 DEF OrderedRest
<1>4. ASSUME Tail(s) # <<>>, Head(s) # "stamp", Head(Tail(s)) = "put" PROVE FALSE
  <2>1. Len(Tail(s)) \in Nat /\ Len(Tail(s)) # 0 /\ Head(Tail(s)) = Tail(s)[1]
    BY <1>1, <1>4, LenProperties, EmptySeq
  <2>2. s[2] = "put" /\ 2 \in 2..Len(s)
    BY <1>1, <1>2, <1>4, <2>1
  <2> QED
    BY <1>2, <1>4, <2>2 DEF OrderedRest
<1> QED
  BY <1>1, <1>3, <1>4 DEF OrderedRest
-----------------------------------------------------------------------------
(* The inductive invariant *)

Formed(k) ==
    /\ OrderedRest(k.todo)
    /\ k.scope \subseteq k.on
    /\ k.cat \in Catalogs \/ k.todo \in Seq(OpenSteps)

CallsTyped == call \in [Calls -> Call] /\ \A c \in Calls : Formed(call[c])

\* What a call is about to publish was not withdrawn when it chose it; an ad that was
\* withdrawn since is one that two calls concern.
Chosen ==
    \A c \in Calls : At(c, "put") =>
        \A a \in call[c].scope : optOut[a] => call[c].arg = "force" \/ a \in disturbed

Inv == TypeOK /\ CallsTyped /\ Chosen /\ WithdrawnStaysOff

LEMMA IdleTyped == Idle \in Call /\ Formed(Idle) /\ Idle.todo = <<>>
<1>1. <<>> \in Seq(Steps) /\ <<>> \in Seq(OpenSteps) /\ OrderedRest(<<>>)
  BY PlanEmpty, PlanRest
<1>2. NoRow \in Row /\ Closed \in Request
  BY DEF NoRow, Row, Statuses, PublishStates, Closed, Request, Lanes
<1> QED
  BY <1>1, <1>2 DEF Idle, Call, Formed

LEMMA MeetTyped ==
    ASSUME CallsTyped, disturbed \subseteq Things, NEW things, Meet(things)
    PROVE  disturbed' \subseteq Things /\ disturbed \subseteq disturbed'
<1>1. Busy \subseteq Things
  BY DEF Busy, CallsTyped, Call
<1> QED
  BY <1>1 DEF Meet

\* One slot changes.
LEMMA SlotStep ==
    ASSUME CallsTyped, Chosen, NEW c \in Calls, NEW k \in Call, Formed(k),
           call' = [call EXCEPT ![c] = k],
           optOut' = optOut, disturbed \subseteq disturbed',
           k.todo # <<>> /\ Head(k.todo) = "put" =>
               \A a \in k.scope : optOut[a] => k.arg = "force" \/ a \in disturbed
    PROVE  CallsTyped' /\ Chosen'
<1>1. CallsTyped'
  BY DEF CallsTyped
<1>2. ASSUME NEW d \in Calls, At(d, "put")'
      PROVE  \A a \in call'[d].scope : optOut'[a] => call'[d].arg = "force" \/ a \in disturbed'
  <2>1. CASE d = c
    BY <1>2, <2>1 DEF CallsTyped, At
  <2>2. CASE d # c
    BY <1>2, <2>2 DEF CallsTyped, Chosen, At
  <2> QED
    BY <2>1, <2>2
<1> QED
  BY <1>1, <1>2 DEF Chosen

LEMMA BeginStep ==
    ASSUME Inv, NEW c \in Calls, NEW k \in Call, k.scope \subseteq k.on, NEW todo,
           \/ todo \in Plan
           \/ k.cat \in Catalogs /\ todo = <<"close", "release">>,
           Begin(c, k, todo)
    PROVE  Inv'
<1> DEFINE n == [k EXCEPT !.todo = todo]
<1>1. n \in Call /\ Formed(n) /\ (n.todo # <<>> => Head(n.todo) # "put")
  <2>1. todo \in Seq(Steps) /\ OrderedRest(todo) /\ (todo # <<>> => Head(todo) # "put")
    <3>1. CASE todo \in Plan
      <4>1. todo \in Seq(OpenSteps)
        BY <3>1, PlanRest
      <4>2. OpenSteps \subseteq Steps
        BY DEF OpenSteps
      <4> QED
        BY <3>1, <4>1, <4>2, PlanRest, SeqMonotonic
    <3>2. CASE todo = <<"close", "release">>
      BY <3>2 DEF OpenSteps, Steps, RowSteps, OrderedRest
    <3> QED
      BY <3>1, <3>2
  <2>2. n \in Call /\ n.todo = todo /\ n.scope = k.scope /\ n.on = k.on /\ n.cat = k.cat
    BY <2>1 DEF Call
  <2>3. k.cat \in Catalogs \/ todo \in Seq(OpenSteps)
    BY PlanRest
  <2> HIDE DEF n
  <2> QED
    BY <2>1, <2>2, <2>3 DEF Formed
<1>2. CallsTyped' /\ Chosen'
  <2> HIDE DEF n
  <2>1. call' = [call EXCEPT ![c] = n]
    BY DEF Begin, n
  <2>2. disturbed \subseteq disturbed' /\ optOut' = optOut
    BY MeetTyped DEF Begin, Inv, TypeOK, boardVars
  <2> QED
    BY <1>1, <2>1, <2>2, SlotStep DEF Inv
<1>3. disturbed' \subseteq Things /\ disturbed \subseteq disturbed'
  BY MeetTyped DEF Begin, Inv, TypeOK
<1>4. begun' \in Nat
  BY DEF Begin, Inv, TypeOK
<1>5. UNCHANGED <<row, requests, closed, ads, open, pub, optOut>>
  BY DEF Begin, boardVars
<1> QED
  BY <1>2, <1>3, <1>4, <1>5 DEF Inv, TypeOK, WithdrawnStaysOff, CallsTyped

\* The call takes the step at the head of its list, or ends.
LEMMA GoStep ==
    ASSUME CallsTyped, Chosen, NEW c \in Calls, call[c].todo # <<>>, optOut' = optOut,
           (Go(c) /\ Head(call[c].todo) # "stamp") \/ Stop(c)
    PROVE  CallsTyped' /\ Chosen' /\ UNCHANGED <<begun, disturbed>>
<1>1. CASE Stop(c)
  BY <1>1, IdleTyped, SlotStep DEF Stop
<1>2. CASE Go(c) /\ Head(call[c].todo) # "stamp"
  <2> DEFINE k == call[c]
             n == [k EXCEPT !.todo = Tail(k.todo)]
  <2>1. k \in Call /\ Formed(k) /\ k.todo \in Seq(Steps) /\ OrderedRest(k.todo)
        /\ (k.cat \in Catalogs \/ k.todo \in Seq(OpenSteps))
    BY DEF CallsTyped, Call, Formed
  <2>2. /\ Tail(k.todo) \in Seq(Steps) /\ OrderedRest(Tail(k.todo))
        /\ k.todo \in Seq(OpenSteps) => Tail(k.todo) \in Seq(OpenSteps)
        /\ Tail(k.todo) # <<>> => Head(Tail(k.todo)) # "put"
    BY <1>2, <2>1, TailRest
  <2>3. call' = [call EXCEPT ![c] = Left(k, Tail(k.todo))]
    BY <1>2 DEF Go, CallsTyped
  <2>4. CASE Tail(k.todo) = <<>>
    BY <1>2, <2>3, <2>4, IdleTyped, SlotStep DEF Left, Go
  <2>5. CASE Tail(k.todo) # <<>>
    <3>1. n \in Call /\ Formed(n) /\ n.todo = Tail(k.todo)
      BY <2>1, <2>2 DEF Call, Formed
    <3>2. call' = [call EXCEPT ![c] = n]
      BY <2>3, <2>5 DEF Left
    <3> HIDE DEF n
    <3> QED
      BY <1>2, <2>2, <3>1, <3>2, SlotStep DEF Go
  <2> QED
    BY <2>4, <2>5
<1> QED
  BY <1>1, <1>2

LEMMA WriteRowStep ==
    ASSUME Inv, NEW c \in Calls, NEW step, step # "stamp", NEW new \in Row,
           WriteRow(c, step, new)
    PROVE  Inv'
<1>1. row' \in Row /\ UNCHANGED <<requests, closed, ads, open, pub, optOut>>
  BY DEF WriteRow, Inv, TypeOK, boardVars
<1>2. call[c].todo # <<>> /\ ((Go(c) /\ Head(call[c].todo) # "stamp") \/ Stop(c))
  BY DEF WriteRow, At
<1>3. CallsTyped' /\ Chosen' /\ UNCHANGED <<begun, disturbed>>
  BY <1>1, <1>2, GoStep DEF Inv
<1> QED
  BY <1>1, <1>3 DEF Inv, TypeOK, WithdrawnStaysOff, CallsTyped

-----------------------------------------------------------------------------
(* The calls handlers begin with *)

LEMMA ReadingTyped ==
    ASSUME Inv, NEW things \in SUBSET Things
    PROVE  Reading(things) \in Call /\ Reading(things).scope = {} /\ Reading(things).on = things
           /\ Reading(things).seen = row
BY IdleTyped DEF Reading, Idle, Call, Inv, TypeOK

LEMMA OnRowTyped == Inv => OnRow \in Call /\ OnRow.scope \subseteq OnRow.on
<1>1. {"row"} \in SUBSET Things
  BY DEF Things
<1> QED
  BY <1>1, ReadingTyped DEF OnRow

LEMMA OnCatalogTyped ==
    ASSUME Inv, NEW k \in Catalogs \union {Nothing}
    PROVE  OnCatalog(k) \in Call /\ OnCatalog(k).scope \subseteq OnCatalog(k).on
<1> DEFINE q == Reading({"row"} \union Ads)
<1>1. q \in Call /\ q.on = {"row"} \union Ads
  <2>1. {"row"} \union Ads \in SUBSET Things
    BY DEF Things
  <2> QED
    BY <2>1, ReadingTyped
<1>2. AdsOf(k) \subseteq Ads
  BY DEF AdsOf
<1> DEFINE n == [q EXCEPT !.cat = k, !.scope = AdsOf(k)]
<1>3. n \in Call /\ n.scope = AdsOf(k) /\ n.on = q.on
  <2> HIDE DEF q
  <2> QED
    BY <1>1, <1>2 DEF Call
<1>4. OnCatalog(k) = n
  BY DEF OnCatalog
<1> HIDE DEF q, n
<1> QED
  BY <1>1, <1>2, <1>3, <1>4

LEMMA OnAdTyped ==
    ASSUME Inv, NEW a \in Ads
    PROVE  OnAd(a) \in Call /\ OnAd(a).scope = {a} /\ OnAd(a).on = {a}
<1> DEFINE q == Reading({a})
<1>1. q \in Call /\ q.on = {a}
  <2>1. {a} \in SUBSET Things
    BY DEF Things
  <2> QED
    BY <2>1, ReadingTyped
<1> DEFINE n == [q EXCEPT !.cat = CatalogOf[a], !.scope = {a}]
<1>2. n \in Call /\ n.scope = {a} /\ n.on = q.on
  <2>1. CatalogOf[a] \in Catalogs
    BY CatalogOfAssumption
  <2> HIDE DEF q
  <2> QED
    BY <1>1, <2>1 DEF Call
<1>3. OnAd(a) = n
  BY DEF OnAd
<1> HIDE DEF q, n
<1> QED
  BY <1>1, <1>2, <1>3

LEMMA StampPlan == <<"stamp", "put">> \in Plan
BY PlanTwo DEF OpenSteps, Steps, RowSteps
-----------------------------------------------------------------------------
(* Each handler keeps the invariant: first those that begin a call *)

LEMMA AskingBegins ==
    ASSUME Inv, NEW c \in Calls, NEW lane \in Lanes, NEW k \in Catalogs \union {Nothing},
           RequestMembership(c, lane, k) \/ RequestLeave(c, lane)
    PROVE  Inv'
<1> DEFINE q == Reading({})
<1>1. q \in Call /\ q.scope = {} /\ q.on = {}
  <2>1. {} \in SUBSET Things
    BY DEF Things
  <2> QED
    BY <2>1, ReadingTyped
<1>2. <<"ask">> \in Plan
  BY PlanOne DEF OpenSteps, Steps, RowSteps
<1>3. PICK kind \in {"join", "leave"}, of \in Catalogs \union {Nothing} :
          Begin(c, [q EXCEPT !.ask = [kind |-> kind, lane |-> lane, catalog |-> of]], <<"ask">>)
  BY DEF RequestMembership, RequestLeave
<1> DEFINE n == [q EXCEPT !.ask = [kind |-> kind, lane |-> lane, catalog |-> of]]
<1>4. n \in Call /\ n.scope \subseteq n.on
  <2> HIDE DEF q
  <2> QED
    BY <1>1 DEF Call, Request
<1> HIDE DEF n
<1> QED
  BY <1>2, <1>3, <1>4, BeginStep DEF n

LEMMA ShutBegins ==
    ASSUME Inv, NEW c \in Calls, NEW r \in Requests, Shut(c, r)
    PROVE  Inv'
<1> DEFINE q == Reading({r})
           n == [q EXCEPT !.req = r]
<1>1. q \in Call /\ q.scope = {}
  <2>1. {r} \in SUBSET Things
    BY DEF Things
  <2> QED
    BY <2>1, ReadingTyped
<1>2. n \in Call /\ n.scope \subseteq n.on
  <2> HIDE DEF q
  <2> QED
    BY <1>1 DEF Call
<1>3. <<"shut">> \in Plan
  BY PlanOne DEF OpenSteps, Steps, RowSteps
<1>4. Begin(c, n, <<"shut">>)
  BY DEF Shut
<1> HIDE DEF n
<1> QED
  BY <1>2, <1>3, <1>4, BeginStep

\* A decided request is about what it asks for.
LEMMA DecidedTyped ==
    ASSUME Inv, NEW r \in Requests, NEW q \in Call, q.scope \subseteq q.on
    PROVE  LET k == [q EXCEPT !.req = r, !.ask = requests[r], !.on = @ \union {r}]
           IN  k \in Call /\ k.scope \subseteq k.on
<1>1. requests[r] \in Request /\ {r} \subseteq Things
  BY DEF Inv, TypeOK, Things
<1> QED
  BY <1>1 DEF Call

LEMMA ApproveJoinBegins ==
    ASSUME Inv, NEW c \in Calls, NEW r \in Requests, ApproveJoin(c, r)
    PROVE  Inv'
<1> DEFINE ask == requests[r]
           q == IF ask.lane = "seller" THEN OnCatalog(ask.catalog) ELSE OnRow
           n == [q EXCEPT !.req = r, !.ask = ask, !.on = @ \union {r}]
           todo == <<"admit">> \o If(ask.lane = "seller", <<"openAds", "stamp", "put">>)
                               \o <<"settle">>
<1>1. q \in Call /\ q.scope \subseteq q.on
  <2>1. ask.catalog \in Catalogs \union {Nothing}
    BY DEF Inv, TypeOK, Request
  <2> QED
    BY <2>1, OnCatalogTyped, OnRowTyped
<1>2. n \in Call /\ n.scope \subseteq n.on
  <2> HIDE DEF q
  <2> QED
    BY <1>1, DecidedTyped
<1>3. todo \in Plan
  <2>1. <<"admit">> \in Plan /\ <<"settle">> \in Plan /\ <<"openAds">> \in Plan
    BY PlanOne DEF OpenSteps, Steps, RowSteps
  <2>2. <<"openAds", "stamp", "put">> = <<"openAds">> \o <<"stamp", "put">>
    OBVIOUS
  <2>3. <<"openAds", "stamp", "put">> \in Plan
    BY <2>1, <2>2, StampPlan, PlanConcat
  <2> QED
    BY <2>1, <2>3, PlanIf, PlanConcat
<1>4. Begin(c, n, todo)
  BY DEF ApproveJoin
<1> HIDE DEF n, todo
<1> QED
  BY <1>2, <1>3, <1>4, BeginStep

LEMMA ApproveLeaveBegins ==
    ASSUME Inv, NEW c \in Calls, NEW r \in Requests, ApproveLeave(c, r)
    PROVE  Inv'
<1> DEFINE lane == requests[r].lane
           there == row.status = "active"
           q == OnCatalog(row.catalog)
           n == [q EXCEPT !.req = r, !.ask = requests[r], !.on = @ \union {r}]
           todo == If(there /\ lane = "seller" /\ row.catalog # Nothing, <<"unstamp", "leaveSeller">>)
                      \o If(there /\ lane = "buyer" /\ row.business, <<"leaveBuyer">>)
                      \o <<"settle">>
<1>1. q \in Call /\ q.scope \subseteq q.on
  <2>1. row.catalog \in Catalogs \union {Nothing}
    BY DEF Inv, TypeOK, Row
  <2> QED
    BY <2>1, OnCatalogTyped
<1>2. n \in Call /\ n.scope \subseteq n.on
  <2> HIDE DEF q
  <2> QED
    BY <1>1, DecidedTyped
<1>3. todo \in Plan
  <2>1. <<"settle">> \in Plan /\ <<"leaveBuyer">> \in Plan
    BY PlanOne DEF OpenSteps, Steps, RowSteps
  <2>2. <<"unstamp", "leaveSeller">> \in Plan
    BY PlanTwo DEF OpenSteps, Steps, RowSteps
  <2> QED
    BY <2>1, <2>2, PlanIf, PlanConcat
<1>4. Begin(c, n, todo)
  BY DEF ApproveLeave
<1> HIDE DEF n, todo
<1> QED
  BY <1>2, <1>3, <1>4, BeginStep

\* A call about a catalog, with what it was asked for.
LEMMA ArguedTyped ==
    ASSUME NEW q \in Call, q.scope \subseteq q.on,
           NEW arg \in {"none", "active", "paused", "banned", "removed", "buyer", "seller",
                        "confirmed", "force", "edit"}
    PROVE  [q EXCEPT !.arg = arg] \in Call /\ [q EXCEPT !.arg = arg].scope \subseteq [q EXCEPT !.arg = arg].on
BY DEF Call

LEMMA ManagingBegins ==
    ASSUME Inv, NEW c \in Calls,
           \/ \E status \in {"active", "paused", "banned", "removed"} : SetStatus(c, status)
           \/ RemoveMember(c)
           \/ \E k \in Catalogs, arg \in {"none", "confirmed"} : AddSeller(c, k, arg)
           \/ AddBuyer(c) \/ PauseCatalog(c) \/ ResumeCatalog(c)
           \/ \E step \in {"pause", "resume"} : SetBuyerPaused(c, step)
           \/ RemoveCatalog(c) \/ RemoveBuyer(c) \/ Appoint(c) \/ Dismiss(c)
    PROVE  Inv'
<1> DEFINE q == OnCatalog(row.catalog)
<1>1. q \in Call /\ q.scope \subseteq q.on
  <2>1. row.catalog \in Catalogs \union {Nothing}
    BY DEF Inv, TypeOK, Row
  <2> QED
    BY <2>1, OnCatalogTyped
<1>2. /\ \A step \in RowSteps : <<step>> \in Plan
      /\ \A step \in RowSteps : <<"unstamp", step>> \in Plan /\ <<"halt", step>> \in Plan
      /\ <<"unstamp">> \in Plan
  <2>1. \A step \in RowSteps : <<step>> \in Plan
    BY PlanOne DEF OpenSteps, Steps, RowSteps
  <2>2. <<"unstamp">> \in Plan /\ <<"halt">> \in Plan
    BY PlanOne DEF OpenSteps, Steps
  <2>3. \A step \in RowSteps : <<"unstamp", step>> \in Plan /\ <<"halt", step>> \in Plan
    BY PlanTwo DEF OpenSteps, Steps, RowSteps
  <2> QED
    BY <2>1, <2>2, <2>3
<1>3. ASSUME NEW status \in {"active", "paused", "banned", "removed"}, SetStatus(c, status) PROVE Inv'
  <2> DEFINE board == IF row.catalog = Nothing THEN <<>>
                      ELSE IF status # "active" THEN <<"unstamp">>
                      ELSE If(row.publishState = "published", <<"stamp", "put">>)
             n == [q EXCEPT !.arg = status]
             todo == board \o <<"setStatus">>
  <2>1. board \in Plan
    BY <1>2, PlanEmpty, PlanIf, StampPlan
  <2>2. todo \in Plan
    <3>1. <<"setStatus">> \in Plan
      BY <1>2 DEF RowSteps
    <3> HIDE DEF board
    <3> QED
      BY <2>1, <3>1, PlanConcat
  <2>3. Begin(c, n, todo)
    BY <1>3 DEF SetStatus
  <2>4. n \in Call /\ n.scope \subseteq n.on
    <3> HIDE DEF q
    <3> QED
      BY <1>1, ArguedTyped
  <2> HIDE DEF n, todo
  <2> QED
    BY <2>2, <2>3, <2>4, BeginStep
<1>4. CASE RemoveMember(c)
  <2> DEFINE todo == If(row.catalog # Nothing, <<"unstamp">>) \o <<"dropMember">>
  <2>1. todo \in Plan
    BY <1>2, PlanIf, PlanConcat DEF RowSteps
  <2>2. Begin(c, q, todo)
    BY <1>4 DEF RemoveMember
  <2> HIDE DEF q, todo
  <2> QED
    BY <1>1, <2>1, <2>2, BeginStep
<1>5. ASSUME NEW k \in Catalogs, NEW arg \in {"none", "confirmed"}, AddSeller(c, k, arg) PROVE Inv'
  <2> DEFINE on == OnCatalog(k)
             n == [on EXCEPT !.arg = arg]
             todo == <<"addSeller", "openAds", "stamp", "put">>
  <2>1. todo \in Plan
    <3>1. <<"addSeller", "openAds">> \in Plan
      BY PlanTwo DEF OpenSteps, Steps, RowSteps
    <3>2. todo = <<"addSeller", "openAds">> \o <<"stamp", "put">>
      OBVIOUS
    <3> QED
      BY <3>1, <3>2, StampPlan, PlanConcat
  <2>2. on \in Call /\ on.scope \subseteq on.on
    BY OnCatalogTyped
  <2>3. n \in Call /\ n.scope \subseteq n.on
    <3> HIDE DEF on
    <3> QED
      BY <2>2, ArguedTyped
  <2>4. Begin(c, n, todo)
    BY <1>5 DEF AddSeller
  <2> HIDE DEF n, todo
  <2> QED
    BY <2>1, <2>3, <2>4, BeginStep
<1>6. CASE PauseCatalog(c)
  <2>1. Begin(c, q, <<"halt", "pause">>) /\ "pause" \in RowSteps
    BY <1>6 DEF PauseCatalog, RowSteps
  <2> HIDE DEF q
  <2> QED
    BY <1>1, <1>2, <2>1, BeginStep
<1>7. CASE ResumeCatalog(c)
  <2> DEFINE n == [q EXCEPT !.arg = "active"]
             todo == <<"resume">> \o If(row.publishState = "published", <<"stamp", "put">>)
  <2>1. todo \in Plan
    BY <1>2, StampPlan, PlanIf, PlanConcat DEF RowSteps
  <2>2. Begin(c, n, todo)
    BY <1>7 DEF ResumeCatalog
  <2>3. n \in Call /\ n.scope \subseteq n.on
    <3> HIDE DEF q
    <3> QED
      BY <1>1, ArguedTyped
  <2> HIDE DEF n, todo
  <2> QED
    BY <2>1, <2>2, <2>3, BeginStep
<1>8. CASE RemoveCatalog(c)
  <2>1. Begin(c, q, <<"unstamp", "dropCatalog">>) /\ "dropCatalog" \in RowSteps
    BY <1>8 DEF RemoveCatalog, RowSteps
  <2> HIDE DEF q
  <2> QED
    BY <1>1, <1>2, <2>1, BeginStep
<1>9. CASE RemoveBuyer(c)
  <2>1. Begin(c, q, <<"dropBuyer">>) /\ "dropBuyer" \in RowSteps
    BY <1>9 DEF RemoveBuyer, RowSteps
  <2> HIDE DEF q
  <2> QED
    BY <1>1, <1>2, <2>1, BeginStep
<1>10. CASE \/ AddBuyer(c) \/ Appoint(c) \/ Dismiss(c)
            \/ \E step \in {"pause", "resume"} : SetBuyerPaused(c, step)
  <2>1. PICK step \in {"addBuyer", "appoint", "dismiss", "pause", "resume"} :
            Begin(c, OnRow, <<step>>)
    BY <1>10 DEF AddBuyer, Appoint, Dismiss, SetBuyerPaused
  <2>2. step \in RowSteps
    BY DEF RowSteps
  <2> QED
    BY <1>2, <2>1, <2>2, OnRowTyped, BeginStep
<1> QED
  BY <1>3, <1>4, <1>5, <1>6, <1>7, <1>8, <1>9, <1>10

LEMMA BelongingBegins ==
    ASSUME Inv, NEW c \in Calls,
           \/ \E arg \in {"none", "buyer", "seller"} : Join(c, arg)
           \/ \E k \in Catalogs : CloseCatalog(c, k)
           \/ Publish(c) \/ Unpublish(c)
    PROVE  Inv'
<1>1. row.catalog \in Catalogs \union {Nothing}
  BY DEF Inv, TypeOK, Row
<1>2. ASSUME NEW arg \in {"none", "buyer", "seller"}, Join(c, arg) PROVE Inv'
  <2> DEFINE n == [OnRow EXCEPT !.arg = arg]
  <2>1. n \in Call /\ n.scope \subseteq n.on
    BY OnRowTyped, ArguedTyped
  <2>2. Begin(c, n, <<"join">>)
    BY <1>2 DEF Join
  <2>3. <<"join">> \in Plan
    BY PlanOne DEF OpenSteps, Steps, RowSteps
  <2> HIDE DEF n
  <2> QED
    BY <2>1, <2>2, <2>3, BeginStep
<1>3. ASSUME NEW k \in Catalogs, CloseCatalog(c, k) PROVE Inv'
  <2>1. Begin(c, OnCatalog(k), <<"close", "release">>)
    BY <1>3 DEF CloseCatalog
  <2>2. OnCatalog(k).cat = k
    BY DEF OnCatalog, Reading, Idle
  <2> QED
    BY <2>1, <2>2, OnCatalogTyped, BeginStep
<1>4. CASE Publish(c)
  <2> DEFINE todo == <<"stamp", "put", "show">>
  <2>1. todo \in Plan
    <3>1. <<"show">> \in Plan
      BY PlanOne DEF OpenSteps, Steps, RowSteps
    <3>2. todo = <<"stamp", "put">> \o <<"show">>
      OBVIOUS
    <3> QED
      BY <3>1, <3>2, StampPlan, PlanConcat
  <2>2. Begin(c, OnCatalog(row.catalog), todo)
    BY <1>4 DEF Publish
  <2> HIDE DEF todo
  <2> QED
    BY <1>1, <2>1, <2>2, OnCatalogTyped, BeginStep
<1>5. CASE Unpublish(c)
  <2>1. Begin(c, OnCatalog(row.catalog), <<"unstamp", "hide">>)
    BY <1>5 DEF Unpublish
  <2>2. <<"unstamp", "hide">> \in Plan
    BY PlanTwo DEF OpenSteps, Steps, RowSteps
  <2> QED
    BY <1>1, <2>1, <2>2, OnCatalogTyped, BeginStep
<1> QED
  BY <1>2, <1>3, <1>4, <1>5

LEMMA AdBegins ==
    ASSUME Inv, NEW c \in Calls, NEW a \in Ads,
           EditCategory(c, a) \/ PublishAd(c, a)
    PROVE  Inv'
<1> DEFINE q == OnAd(a)
<1>1. q \in Call /\ q.scope = {a} /\ q.on = {a}
  BY OnAdTyped
<1>2. PICK arg \in {"edit", "force"} : Begin(c, [q EXCEPT !.arg = arg], <<"stamp", "put">>)
  BY DEF EditCategory, PublishAd
<1> DEFINE n == [q EXCEPT !.arg = arg]
<1>3. n \in Call /\ n.scope \subseteq n.on
  <2> HIDE DEF q
  <2> QED
    BY <1>1, ArguedTyped
<1> HIDE DEF n
<1> QED
  BY <1>2, <1>3, StampPlan, BeginStep DEF n

\* Creating or completing an ad writes it and begins the search for the market.
LEMMA AdWritten ==
    ASSUME Inv, NEW c \in Calls, NEW a \in Ads,
           CompleteAd(c, a) \/ \E toMarket \in BOOLEAN : CreateAd(c, a, toMarket)
    PROVE  Inv'
<1> DEFINE q == OnAd(a)
           n == [q EXCEPT !.todo = <<"findMarket">>]
<1>1. n \in Call /\ Formed(n) /\ n.todo # <<>> /\ Head(n.todo) # "put"
  <2>1. q \in Call /\ q.scope = {a} /\ q.on = {a}
    BY OnAdTyped
  <2>2. <<"findMarket">> \in Plan
    BY PlanOne DEF OpenSteps, Steps
  <2>3. <<"findMarket">> \in Seq(OpenSteps) /\ OrderedRest(<<"findMarket">>)
        /\ OpenSteps \subseteq Steps
    BY <2>2, PlanRest DEF OpenSteps
  <2> HIDE DEF q
  <2>4. n \in Call /\ n.todo = <<"findMarket">> /\ n.scope = q.scope /\ n.on = q.on
    <3>1. <<"findMarket">> \in Seq(Steps)
      BY <2>3, SeqMonotonic
    <3> QED
      BY <2>1, <3>1 DEF Call
  <2> HIDE DEF n
  <2> QED
    BY <2>1, <2>3, <2>4 DEF Formed
<1>2. /\ call' = [call EXCEPT ![c] = n] \/ call' = call
      /\ Meet({a}) /\ begun' = begun + 1 /\ open' \in SUBSET Ads
      /\ ads' \in [Ads -> {"new", "active", "deleted"}]
      /\ UNCHANGED <<row, requests, closed, pub, optOut>>
  BY DEF CreateAd, CompleteAd, Inv, TypeOK
<1>3. disturbed' \subseteq Things /\ disturbed \subseteq disturbed'
  BY <1>2, MeetTyped DEF Inv, TypeOK
<1>4. CallsTyped' /\ Chosen'
  <2>1. CASE call' = [call EXCEPT ![c] = n]
    <3> HIDE DEF n
    <3> QED
      BY <1>1, <1>2, <1>3, <2>1, SlotStep DEF Inv
  <2>2. CASE call' = call
    BY <1>2, <1>3, <2>2 DEF Inv, CallsTyped, Chosen, At
  <2> QED
    BY <1>2, <2>1, <2>2
<1> HIDE DEF n
<1> QED
  BY <1>2, <1>3, <1>4 DEF Inv, TypeOK, WithdrawnStaysOff, CallsTyped

-----------------------------------------------------------------------------
(* ... then those that take a step of one: the row *)

LEMMA RowWritten ==
    ASSUME Inv, NEW c \in Calls,
           \/ Admit(c) \/ LeaveSeller(c) \/ LeaveBuyer(c) \/ WriteStatus(c) \/ DropMember(c)
           \/ WriteSeller(c) \/ WriteBuyer(c) \/ Pause(c) \/ Resume(c) \/ DropCatalog(c)
           \/ DropBuyer(c) \/ WriteAppoint(c) \/ WriteDismiss(c)
           \/ WriteJoin(c) \/ Show(c) \/ Hide(c) \/ Release(c)
    PROVE  Inv'
<1> DEFINE k == call[c]
           seen == k.seen
<1>1. row \in Row /\ seen \in Row /\ k.cat \in Catalogs \union {Nothing} /\ k.ask \in Request
      /\ k.arg \in {"none", "active", "paused", "banned", "removed", "buyer", "seller",
                    "confirmed", "force", "edit"}
  <2>1. k \in Call
    BY DEF Inv, CallsTyped
  <2> QED
    BY <2>1 DEF Call, Inv, TypeOK
<1>2. /\ row.role \in SUBSET Lanes /\ seen.role \in SUBSET Lanes
      /\ seen.publishState \in PublishStates
      /\ row.status \in Statuses
      /\ row.publishState \in PublishStates
      /\ row.catalog \in Catalogs \union {Nothing}
      /\ k.ask.lane \in Lanes /\ k.cat \in Catalogs \union {Nothing}
  BY <1>1 DEF Row, Request
<1>named. /\ {"active", "removed", "inactive", "banned"} \subseteq Statuses
      /\ {"none", "draft", "published", "paused"} \subseteq PublishStates
  BY DEF Statuses, PublishStates
<1> HIDE DEF k
<1>3. CASE Admit(c)
  <2> DEFINE role == k.seen.role \union {k.ask.lane}
             catalog == IF k.ask.lane = "seller" THEN k.cat ELSE row.catalog
             publish == IF k.ask.lane = "seller" THEN "published" ELSE row.publishState
             new == [row EXCEPT !.status = "active", !.businessStatus = "active",
                        !.role = role, !.selfRemoved = FALSE, !.business = TRUE,
                        !.catalog = catalog, !.publishState = publish]
  <2>1. role \in SUBSET Lanes /\ catalog \in Catalogs \union {Nothing} /\ publish \in PublishStates
    BY <1>named, <1>2 DEF Lanes
  <2>2. WriteRow(c, "admit", new)
    BY <1>3 DEF Admit, k
  <2>3. new \in Row
    <3> HIDE DEF role, catalog, publish
    <3> QED
      BY <1>named, <1>1, <2>1 DEF Row
  <2> HIDE DEF new
  <2> QED
    BY <2>2, <2>3, WriteRowStep
<1>4. CASE LeaveSeller(c)
  <2> DEFINE role == IF k.seen.business THEN {"buyer"} ELSE {}
             status == IF k.seen.business THEN "active" ELSE "removed"
             new == [row EXCEPT !.catalog = Nothing, !.publishState = "none",
                        !.role = role, !.status = status, !.selfRemoved = TRUE]
  <2>1. role \in SUBSET Lanes /\ status \in Statuses
    BY <1>named, <1>2 DEF Lanes
  <2>2. WriteRow(c, "leaveSeller", new)
    BY <1>4 DEF LeaveSeller, k
  <2>3. new \in Row
    <3> HIDE DEF role, status
    <3> QED
      BY <1>named, <1>1, <2>1 DEF Row
  <2> HIDE DEF new
  <2> QED
    BY <2>2, <2>3, WriteRowStep
<1>5. CASE LeaveBuyer(c)
  <2> DEFINE role == IF k.seen.catalog # Nothing THEN {"seller"} ELSE {}
             status == IF k.seen.catalog # Nothing THEN "active" ELSE "removed"
             publish == IF k.seen.catalog # Nothing THEN k.seen.publishState ELSE "none"
             new == [row EXCEPT !.business = FALSE, !.role = role, !.status = status,
                        !.publishState = publish]
  <2>1. role \in SUBSET Lanes /\ status \in Statuses /\ publish \in PublishStates
    BY <1>named, <1>2 DEF Lanes
  <2>2. WriteRow(c, "leaveBuyer", new)
    BY <1>5 DEF LeaveBuyer, k
  <2>3. new \in Row
    <3> HIDE DEF role, status, publish
    <3> QED
      BY <1>named, <1>1, <2>1 DEF Row
  <2> HIDE DEF new
  <2> QED
    BY <2>2, <2>3, WriteRowStep
<1>6. CASE WriteStatus(c)
  <2> DEFINE status == IF k.arg \in {"active", "banned", "removed"} THEN k.arg ELSE row.status
             new == [row EXCEPT !.businessStatus = IF k.arg = "active" THEN "active" ELSE "paused",
                        !.status = status]
  <2>1. status \in Statuses
    BY <1>named, <1>2 DEF Lanes
  <2>2. WriteRow(c, "setStatus", new)
    BY <1>6 DEF WriteStatus, k
  <2>3. new \in Row
    <3> HIDE DEF status
    <3> QED
      BY <1>named, <1>1, <2>1 DEF Row
  <2> HIDE DEF new
  <2> QED
    BY <2>2, <2>3, WriteRowStep
<1>7. CASE DropMember(c)
  <2> DEFINE new == [row EXCEPT !.status = "removed", !.publishState = "none"]
  <2>1. WriteRow(c, "dropMember", new)
    BY <1>7 DEF DropMember, k
  <2>2. new \in Row
    BY <1>named, <1>1 DEF Row
  <2> HIDE DEF new
  <2> QED
    BY <2>1, <2>2, WriteRowStep
<1>8. CASE WriteSeller(c)
  <2> DEFINE role == IF k.seen.business THEN Lanes ELSE {"seller"}
             new == [row EXCEPT !.status = "active", !.publishState = "published", !.business = TRUE,
                        !.role = role, !.catalog = k.cat, !.selfRemoved = FALSE]
  <2>1. role \in SUBSET Lanes
    BY <1>named, <1>2 DEF Lanes
  <2>2. WriteRow(c, "addSeller", new)
    BY <1>8 DEF WriteSeller, k
  <2>3. new \in Row
    <3> HIDE DEF role
    <3> QED
      BY <1>named, <1>1, <2>1 DEF Row
  <2> HIDE DEF new
  <2> QED
    BY <2>2, <2>3, WriteRowStep
<1>9. CASE WriteBuyer(c)
  <2> DEFINE role == IF k.seen.catalog # Nothing THEN Lanes ELSE {"buyer"}
             new == [row EXCEPT !.status = "active", !.business = TRUE, !.role = role]
  <2>1. role \in SUBSET Lanes
    BY <1>named, <1>2 DEF Lanes
  <2>2. WriteRow(c, "addBuyer", new)
    BY <1>9 DEF WriteBuyer, k
  <2>3. new \in Row
    <3> HIDE DEF role
    <3> QED
      BY <1>named, <1>1, <2>1 DEF Row
  <2> HIDE DEF new
  <2> QED
    BY <2>2, <2>3, WriteRowStep
<1>10. CASE Pause(c)
  <2> DEFINE new == [row EXCEPT !.businessStatus = "paused"]
  <2>1. WriteRow(c, "pause", new)
    BY <1>10 DEF Pause, k
  <2>2. new \in Row
    BY <1>named, <1>1 DEF Row
  <2> HIDE DEF new
  <2> QED
    BY <2>1, <2>2, WriteRowStep
<1>11. CASE Resume(c)
  <2> DEFINE new == [row EXCEPT !.businessStatus = "active"]
  <2>1. WriteRow(c, "resume", new)
    BY <1>11 DEF Resume, k
  <2>2. new \in Row
    BY <1>named, <1>1 DEF Row
  <2> HIDE DEF new
  <2> QED
    BY <2>1, <2>2, WriteRowStep
<1>12. CASE DropCatalog(c)
  <2> DEFINE role == IF k.seen.rank = "arm_owner" /\ k.seen.business THEN {"buyer"} ELSE {}
             status == IF k.seen.rank = "arm_owner" THEN row.status ELSE "removed"
             new == [row EXCEPT !.catalog = Nothing, !.publishState = "none",
                        !.role = role, !.status = status]
  <2>1. role \in SUBSET Lanes /\ status \in Statuses
    BY <1>named, <1>2 DEF Lanes
  <2>2. WriteRow(c, "dropCatalog", new)
    BY <1>12 DEF DropCatalog, k
  <2>3. new \in Row
    <3> HIDE DEF role, status
    <3> QED
      BY <1>named, <1>1, <2>1 DEF Row
  <2> HIDE DEF new
  <2> QED
    BY <2>2, <2>3, WriteRowStep
<1>13. CASE DropBuyer(c)
  <2> DEFINE role == IF k.seen.catalog # Nothing THEN {"seller"} ELSE {}
             new == IF k.seen.rank = "arm_owner"
                    THEN [row EXCEPT !.business = FALSE, !.role = role]
                    ELSE [row EXCEPT !.status = "removed", !.publishState = "none",
                                     !.business = FALSE, !.role = {}]
  <2>1. role \in SUBSET Lanes
    BY <1>named, <1>2 DEF Lanes
  <2>2. WriteRow(c, "dropBuyer", new)
    BY <1>13 DEF DropBuyer, k
  <2>3. new \in Row
    <3> HIDE DEF role
    <3> QED
      BY <1>named, <1>1, <2>1 DEF Row
  <2> HIDE DEF new
  <2> QED
    BY <2>2, <2>3, WriteRowStep
<1>14. CASE WriteAppoint(c)
  <2> DEFINE new == [row EXCEPT !.rank = "arm_admin", !.status = "active"]
  <2>1. WriteRow(c, "appoint", new)
    BY <1>14 DEF WriteAppoint, k
  <2>2. new \in Row
    BY <1>named, <1>1 DEF Row
  <2> HIDE DEF new
  <2> QED
    BY <2>1, <2>2, WriteRowStep
<1>15. CASE WriteDismiss(c)
  <2> DEFINE new == [row EXCEPT !.rank = "arm_member"]
  <2>1. WriteRow(c, "dismiss", new)
    BY <1>15 DEF WriteDismiss, k
  <2>2. new \in Row
    BY <1>named, <1>1 DEF Row
  <2> HIDE DEF new
  <2> QED
    BY <2>1, <2>2, WriteRowStep
<1>16. CASE WriteJoin(c)
  <2> DEFINE role == IF k.seen.role = {"seller"} THEN Lanes
                     ELSE IF k.arg \in Lanes THEN {k.arg}
                     ELSE IF k.seen.role = {} THEN {"buyer"} ELSE k.seen.role
             new == [row EXCEPT !.status = "active", !.business = TRUE, !.role = role]
  <2>1. role \in SUBSET Lanes
    BY <1>named, <1>2 DEF Lanes
  <2>2. WriteRow(c, "join", new)
    BY <1>16 DEF WriteJoin, k
  <2>3. new \in Row
    <3> HIDE DEF role
    <3> QED
      BY <1>named, <1>1, <2>1 DEF Row
  <2> HIDE DEF new
  <2> QED
    BY <2>2, <2>3, WriteRowStep
<1>17. CASE Show(c)
  <2> DEFINE new == [row EXCEPT !.publishState = "published"]
  <2>1. WriteRow(c, "show", new)
    BY <1>17 DEF Show, k
  <2>2. new \in Row
    BY <1>named, <1>1 DEF Row
  <2> HIDE DEF new
  <2> QED
    BY <2>1, <2>2, WriteRowStep
<1>18. CASE Hide(c)
  <2> DEFINE new == [row EXCEPT !.publishState = "paused"]
  <2>1. WriteRow(c, "hide", new)
    BY <1>18 DEF Hide, k
  <2>2. new \in Row
    BY <1>named, <1>1 DEF Row
  <2> HIDE DEF new
  <2> QED
    BY <2>1, <2>2, WriteRowStep
<1>19. CASE Release(c)
  <2> DEFINE status == IF row.role = {"seller"} THEN "inactive" ELSE row.status
             new == IF row.catalog # k.cat THEN row
                    ELSE [row EXCEPT !.catalog = Nothing, !.publishState = "draft",
                                     !.status = status]
  <2>1. status \in Statuses
    BY <1>named, <1>2 DEF Lanes
  <2>2. WriteRow(c, "release", new)
    BY <1>19 DEF Release, k
  <2>3. new \in Row
    <3> HIDE DEF status
    <3> QED
      BY <1>named, <1>1, <2>1 DEF Row
  <2> HIDE DEF new
  <2> QED
    BY <2>2, <2>3, WriteRowStep
<1> QED
  BY <1>3, <1>4, <1>5, <1>6, <1>7, <1>8, <1>9, <1>10, <1>11, <1>12, <1>13, <1>14, <1>15, <1>16, <1>17, <1>18, <1>19

-----------------------------------------------------------------------------
(* ... and then the steps that write requests, catalogs and the board *)

LEMMA RequestsWritten ==
    ASSUME Inv, NEW c \in Calls, WriteAsk(c) \/ WriteShut(c) \/ Settle(c) \/ Close(c) \/ OpenAds(c)
    PROVE  Inv'
<1>1. call[c] \in Call /\ call[c].ask \in Request /\ call[c].cat \in Catalogs \union {Nothing}
  <2>1. call[c] \in Call
    BY DEF Inv, CallsTyped
  <2> QED
    BY <2>1 DEF Call
<1>2. call[c].todo # <<>> /\ Go(c) /\ Head(call[c].todo) # "stamp"
  BY DEF WriteAsk, WriteShut, Settle, Close, OpenAds, At
<1>3. UNCHANGED <<row, ads, pub, optOut>>
  BY DEF WriteAsk, WriteShut, Settle, Close, OpenAds, boardVars
<1>4. CallsTyped' /\ Chosen' /\ UNCHANGED <<begun, disturbed>>
  BY <1>2, <1>3, GoStep DEF Inv
<1>5. requests' \in [Requests -> Request]
  <2>1. Closed \in Request
    BY DEF Closed, Request, Lanes
  <2> QED
    BY <1>1, <2>1 DEF WriteAsk, WriteShut, Settle, Close, OpenAds, Inv, TypeOK
<1>6. open' \subseteq Ads
  BY DEF WriteAsk, WriteShut, Settle, Close, OpenAds, AdsOf, boardVars, Inv, TypeOK
<1>7. closed' \subseteq Catalogs
  <2>1. CASE Close(c)
    <3>1. Formed(call[c]) /\ call[c].todo \in Seq(Steps)
      BY <1>1 DEF Inv, CallsTyped, Call
    <3>2. call[c].todo \in Seq(OpenSteps) => Head(call[c].todo) \in OpenSteps
      BY <1>2, HeadTailProperties
    <3>3. call[c].cat \in Catalogs
      BY <2>1, <3>1, <3>2 DEF Formed, Close, At, OpenSteps
    <3> QED
      BY <2>1, <3>3 DEF Close, Inv, TypeOK
  <2>2. CASE ~ Close(c)
    BY <2>2 DEF WriteAsk, WriteShut, Settle, OpenAds, Inv, TypeOK
  <2> QED
    BY <2>1, <2>2
<1> QED
  BY <1>3, <1>4, <1>5, <1>6, <1>7 DEF Inv, TypeOK, WithdrawnStaysOff, CallsTyped

\* What only takes ads off the board, or leaves it alone.
LEMMA BoardCleared ==
    ASSUME Inv, NEW c \in Calls, Unstamp(c) \/ Halt(c) \/ PutFails(c) \/ Cut(c)
    PROVE  Inv'
<1>1. call[c].todo # <<>> /\ ((Go(c) /\ Head(call[c].todo) # "stamp") \/ Stop(c))
  BY DEF Unstamp, Halt, PutFails, Cut, At
<1>2. UNCHANGED <<row, requests, closed, ads, open, optOut>>
  BY DEF Unstamp, Halt, PutFails, Cut, boardVars
<1>3. CallsTyped' /\ Chosen' /\ UNCHANGED <<begun, disturbed>>
  BY <1>1, <1>2, GoStep DEF Inv
<1>4. /\ pub' \in [Ads -> {"none", "published", "paused", "unpublished"}]
      /\ \A a \in Ads : pub'[a] = "published" => pub[a] = "published"
  BY DEF Unstamp, Halt, PutFails, Cut, boardVars, Inv, TypeOK
<1> QED
  BY <1>2, <1>3, <1>4 DEF Inv, TypeOK, WithdrawnStaysOff, CallsTyped

LEMMA StampChooses ==
    ASSUME Inv, NEW c \in Calls, Stamp(c)
    PROVE  Inv'
<1> DEFINE k == call[c]
           chosen == {a \in k.scope : /\ ads[a] = "active" /\ a \in open
                                      /\ optOut[a] => k.arg = "force"}
           new == {a \in chosen : pub[a] = "none"}
           n == [k EXCEPT !.todo = Tail(k.todo), !.scope = chosen, !.new = new]
<1>1. k \in Call /\ Formed(k) /\ k.todo \in Seq(Steps) /\ k.todo # <<>> /\ k.scope \subseteq Ads
  BY DEF Stamp, At, Inv, CallsTyped, Call
<1>2. /\ Tail(k.todo) \in Seq(Steps) /\ OrderedRest(Tail(k.todo))
      /\ k.todo \in Seq(OpenSteps) => Tail(k.todo) \in Seq(OpenSteps)
  BY <1>1, TailRest DEF Formed
<1>3. call' = [call EXCEPT ![c] = n] /\ UNCHANGED <<row, requests, closed, boardVars, begun, disturbed>>
  BY DEF Stamp, Inv, CallsTyped
<1>4. /\ n \in Call /\ n.todo = Tail(k.todo) /\ n.scope = chosen /\ n.arg = k.arg
      /\ n.on = k.on /\ n.cat = k.cat
  <2>1. chosen \subseteq Ads /\ new \subseteq Ads
    BY <1>1
  <2> HIDE DEF k, chosen, new
  <2> QED
    BY <1>1, <1>2, <2>1 DEF Call
<1>5. Formed(n)
  <2> HIDE DEF n
  <2> QED
    BY <1>1, <1>2, <1>4 DEF Formed
<1>6. \A a \in n.scope : optOut[a] => n.arg = "force" \/ a \in disturbed
  <2> HIDE DEF n
  <2> QED
    BY <1>4
<1> HIDE DEF n
<1>7. CallsTyped' /\ Chosen'
  BY <1>3, <1>4, <1>5, <1>6, SlotStep DEF Inv, boardVars
<1> QED
  BY <1>3, <1>7 DEF Inv, TypeOK, WithdrawnStaysOff, CallsTyped, boardVars

LEMMA FindMarketSteps ==
    ASSUME Inv, NEW c \in Calls, FindMarket(c)
    PROVE  Inv'
<1>1. UNCHANGED <<row, requests, closed, boardVars>>
  BY DEF FindMarket
<1>2. CASE Go(c)
  <2>1. CallsTyped' /\ Chosen' /\ UNCHANGED <<begun, disturbed>>
    BY <1>1, <1>2, GoStep DEF Inv, FindMarket, At, boardVars
  <2> QED
    BY <1>1, <2>1 DEF Inv, TypeOK, WithdrawnStaysOff, CallsTyped, boardVars
<1>3. CASE ~ Go(c)
  <2> DEFINE n == [call[c] EXCEPT !.todo = <<"stamp", "put">>]
  <2>1. call' = [call EXCEPT ![c] = n] /\ UNCHANGED <<begun, disturbed>>
    BY <1>3 DEF FindMarket, Inv, CallsTyped
  <2>2. n \in Call /\ Formed(n) /\ Head(n.todo) # "put"
    <3>1. call[c] \in Call /\ Formed(call[c])
      BY DEF Inv, CallsTyped
    <3>2. <<"stamp", "put">> \in Seq(OpenSteps) /\ OrderedRest(<<"stamp", "put">>)
          /\ OpenSteps \subseteq Steps
      BY StampPlan, PlanRest DEF OpenSteps
    <3>3. <<"stamp", "put">> \in Seq(Steps)
      BY <3>2, SeqMonotonic
    <3>4. n \in Call /\ n.todo = <<"stamp", "put">> /\ n.scope = call[c].scope /\ n.on = call[c].on
      BY <3>1, <3>3 DEF Call
    <3> HIDE DEF n
    <3> QED
      BY <3>1, <3>2, <3>4 DEF Formed
  <2> HIDE DEF n
  <2>3. CallsTyped' /\ Chosen'
    BY <1>1, <2>1, <2>2, SlotStep DEF Inv, boardVars
  <2> QED
    BY <1>1, <2>1, <2>3 DEF Inv, TypeOK, WithdrawnStaysOff, CallsTyped, boardVars
<1> QED
  BY <1>2, <1>3

\* The one step that publishes: what was withdrawn since it was chosen is disturbed,
\* and publishing one ad by itself ends its withdrawal.
LEMMA PutPublishes ==
    ASSUME Inv, NEW c \in Calls, Put(c)
    PROVE  Inv'
<1> DEFINE k == call[c]
<1>1. /\ At(c, "put") /\ Go(c) /\ call[c].todo # <<>> /\ Head(call[c].todo) # "stamp"
      /\ UNCHANGED <<row, requests, closed, ads, open>>
  BY DEF Put, At
<1>2. /\ pub' = [a \in Ads |-> IF a \in k.scope THEN "published" ELSE pub[a]]
      /\ optOut' = [a \in Ads |-> IF a \in k.scope /\ k.arg = "force" THEN FALSE ELSE optOut[a]]
  BY DEF Put
<1>3. \A a \in k.scope : optOut[a] => k.arg = "force" \/ a \in disturbed
  BY <1>1 DEF Inv, Chosen
\* The calls are as if optOut had not changed ...
<1>4. CallsTyped' /\ UNCHANGED <<begun, disturbed>>
      /\ \A d \in Calls : call'[d] # call[d] => ~ At(d, "put")'
  <2>1. k \in Call /\ Formed(k) /\ k.todo \in Seq(Steps) /\ OrderedRest(k.todo)
        /\ (k.cat \in Catalogs \/ k.todo \in Seq(OpenSteps))
    BY DEF Inv, CallsTyped, Call, Formed
  <2>2. /\ Tail(k.todo) \in Seq(Steps) /\ OrderedRest(Tail(k.todo))
        /\ k.todo \in Seq(OpenSteps) => Tail(k.todo) \in Seq(OpenSteps)
        /\ Tail(k.todo) # <<>> => Head(Tail(k.todo)) # "put"
    BY <1>1, <2>1, TailRest
  <2> DEFINE n == Left(k, Tail(k.todo))
  <2>3. call' = [call EXCEPT ![c] = n] /\ UNCHANGED <<begun, disturbed>>
    BY <1>1 DEF Go, Inv, CallsTyped
  <2>4. n \in Call /\ Formed(n) /\ (n.todo # <<>> => Head(n.todo) # "put")
    <3>1. CASE Tail(k.todo) = <<>>
      BY <3>1, IdleTyped DEF Left
    <3>2. CASE Tail(k.todo) # <<>>
      <4> DEFINE m == [k EXCEPT !.todo = Tail(k.todo)]
      <4>1. m \in Call /\ m.todo = Tail(k.todo) /\ m.scope = k.scope /\ m.on = k.on /\ m.cat = k.cat
        BY <2>1, <2>2 DEF Call
      <4>2. n = m
        BY <3>2 DEF Left
      <4> HIDE DEF m, n
      <4> QED
        BY <2>1, <2>2, <4>1, <4>2 DEF Formed
    <3> QED
      BY <3>1, <3>2
  <2> HIDE DEF n
  <2> QED
    BY <2>3, <2>4 DEF CallsTyped, Inv, At
\* ... and what is withdrawn only gets less.
<1>5. Chosen'
  BY <1>2, <1>4 DEF Chosen, Inv, At, CallsTyped, Call
<1>6. WithdrawnStaysOff'
  BY <1>2, <1>3, <1>4 DEF WithdrawnStaysOff, Inv, TypeOK
<1>7. /\ pub' \in [Ads -> {"none", "published", "paused", "unpublished"}]
      /\ optOut' \in [Ads -> BOOLEAN]
  BY <1>2 DEF Inv, TypeOK
<1> QED
  BY <1>1, <1>4, <1>5, <1>6, <1>7 DEF Inv, TypeOK, CallsTyped

\* A call that was about to publish the ad concerned it: now two calls do.
LEMMA AdWithdrawn ==
    ASSUME Inv, NEW a \in Ads, WithdrawAd(a)
    PROVE  Inv'
<1>1. /\ call' = call /\ begun' = begun + 1 /\ Meet({a})
      /\ pub' = [pub EXCEPT ![a] = "unpublished"] /\ optOut' = [optOut EXCEPT ![a] = TRUE]
      /\ UNCHANGED <<row, requests, closed, ads, open>>
  BY DEF WithdrawAd, AtOnce
<1>2. disturbed' \subseteq Things /\ disturbed \subseteq disturbed'
  BY <1>1, MeetTyped DEF Inv, TypeOK
<1>3. \A c \in Calls : a \in call[c].scope => a \in disturbed'
  BY <1>1 DEF Meet, Busy, Inv, CallsTyped, Formed
<1>4. Chosen'
  BY <1>1, <1>2, <1>3 DEF Chosen, Inv, TypeOK, At, CallsTyped, Call
<1>5. WithdrawnStaysOff'
  BY <1>1, <1>2 DEF WithdrawnStaysOff, Inv, TypeOK
<1> QED
  BY <1>1, <1>2, <1>4, <1>5 DEF Inv, TypeOK, CallsTyped

LEMMA AdEdited ==
    ASSUME Inv, NEW a \in Ads, NEW status \in {"active", "deleted"}, NEW toMarket \in BOOLEAN,
           EditAd(a, status, toMarket)
    PROVE  Inv'
<1>1. /\ call' = call /\ begun' = begun + 1 /\ Meet({a})
      /\ ads' = [ads EXCEPT ![a] = status] /\ open' \subseteq Ads
      /\ UNCHANGED <<row, requests, closed, pub, optOut>>
  BY DEF EditAd, AtOnce, Inv, TypeOK
<1>2. disturbed' \subseteq Things /\ disturbed \subseteq disturbed'
  BY <1>1, MeetTyped DEF Inv, TypeOK
<1> QED
  BY <1>1, <1>2 DEF Inv, TypeOK, CallsTyped, Chosen, WithdrawnStaysOff, At

-----------------------------------------------------------------------------
(* The theorems *)

LEMMA InitInv == Init => Inv
<1> SUFFICES ASSUME Init PROVE Inv
  OBVIOUS
<1>1. row \in Row
  <2>1. NoRow \in Row
    BY DEF NoRow, Row, Statuses, PublishStates, Lanes
  <2>2. [NoRow EXCEPT !.rank = "arm_owner", !.status = "active"] \in Row
    BY <2>1 DEF Row, Statuses
  <2>3. ASSUME NEW k \in Catalogs
        PROVE  [NoRow EXCEPT !.status = "active", !.publishState = "published",
                             !.role = {"seller"}, !.business = TRUE, !.catalog = k] \in Row
    BY <2>1 DEF Row, Statuses, PublishStates, Lanes
  <2>4. \/ row = NoRow
        \/ row = [NoRow EXCEPT !.rank = "arm_owner", !.status = "active"]
        \/ \E k \in Catalogs :
              row = [NoRow EXCEPT !.status = "active", !.publishState = "published",
                                  !.role = {"seller"}, !.business = TRUE, !.catalog = k]
    BY DEF Init
  <2> QED
    BY <2>1, <2>2, <2>3, <2>4
<1>2. ads \in [Ads -> {"new", "active", "deleted"}]
  BY DEF Init
<1>3. Closed \in Request
  BY DEF Closed, Request, Lanes
<1>4. CallsTyped /\ \A c \in Calls : call[c].todo = <<>>
  BY IdleTyped DEF Init, CallsTyped
<1> QED
  BY <1>1, <1>2, <1>3, <1>4 DEF Init, Inv, TypeOK, Chosen, At, WithdrawnStaysOff, CallsTyped

LEMMA NextInv == Inv /\ [Next]_vars => Inv'
<1> SUFFICES ASSUME Inv, [Next]_vars PROVE Inv'
  OBVIOUS
<1>1. ASSUME NEW a \in Ads, WithdrawAd(a) PROVE Inv'
  BY <1>1, AdWithdrawn
<1>2. ASSUME NEW a \in Ads, NEW status \in {"active", "deleted"}, NEW toMarket \in BOOLEAN,
             EditAd(a, status, toMarket)
      PROVE  Inv'
  BY <1>2, AdEdited
<1>3. ASSUME NEW c \in Calls, Asking(c) PROVE Inv'
  <2>1. ASSUME NEW lane \in Lanes, NEW k \in Catalogs \union {Nothing},
               RequestMembership(c, lane, k) \/ RequestLeave(c, lane)
        PROVE  Inv'
    BY <2>1, AskingBegins
  <2>2. ASSUME NEW r \in Requests, Shut(c, r) \/ ApproveJoin(c, r) \/ ApproveLeave(c, r) PROVE Inv'
    BY <2>2, ShutBegins, ApproveJoinBegins, ApproveLeaveBegins
  <2>3. CASE WriteAsk(c) \/ WriteShut(c) \/ Settle(c)
    BY <2>3, RequestsWritten
  <2>4. CASE Admit(c) \/ LeaveSeller(c) \/ LeaveBuyer(c)
    BY <2>4, RowWritten
  <2> QED
    BY <1>3, <2>1, <2>2, <2>3, <2>4 DEF Asking
<1>4. ASSUME NEW c \in Calls, Managing(c) PROVE Inv'
  <2>1. CASE \/ WriteStatus(c) \/ DropMember(c) \/ WriteSeller(c) \/ WriteBuyer(c) \/ Pause(c)
             \/ Resume(c) \/ DropCatalog(c) \/ DropBuyer(c) \/ WriteAppoint(c) \/ WriteDismiss(c)
    BY <2>1, RowWritten
  <2>2. CASE \/ \E status \in {"active", "paused", "banned", "removed"} : SetStatus(c, status)
             \/ RemoveMember(c)
             \/ \E k \in Catalogs, arg \in {"none", "confirmed"} : AddSeller(c, k, arg)
             \/ AddBuyer(c) \/ PauseCatalog(c) \/ ResumeCatalog(c)
             \/ \E step \in {"pause", "resume"} : SetBuyerPaused(c, step)
             \/ RemoveCatalog(c) \/ RemoveBuyer(c) \/ Appoint(c) \/ Dismiss(c)
    BY <2>2, ManagingBegins
  <2> QED
    BY <1>4, <2>1, <2>2 DEF Managing
<1>5. ASSUME NEW c \in Calls, Belonging(c) PROVE Inv'
  <2>1. CASE \/ \E arg \in {"none", "buyer", "seller"} : Join(c, arg)
             \/ \E k \in Catalogs : CloseCatalog(c, k)
             \/ Publish(c) \/ Unpublish(c)
    BY <2>1, BelongingBegins
  <2>2. CASE WriteJoin(c) \/ Show(c) \/ Hide(c) \/ Release(c)
    BY <2>2, RowWritten
  <2>3. CASE Close(c)
    BY <2>3, RequestsWritten
  <2> QED
    BY <1>5, <2>1, <2>2, <2>3 DEF Belonging
<1>6. ASSUME NEW c \in Calls, Advertising(c) PROVE Inv'
  BY <1>6, AdBegins, AdWritten, FindMarketSteps DEF Advertising
<1>7. ASSUME NEW c \in Calls, Stamping(c) \/ Cut(c) PROVE Inv'
  BY <1>7, StampChooses, PutPublishes, BoardCleared, RequestsWritten DEF Stamping
<1>8. CASE UNCHANGED vars
  BY <1>8 DEF vars, Inv, TypeOK, CallsTyped, Chosen, WithdrawnStaysOff, At
<1> QED
  BY <1>1, <1>2, <1>3, <1>4, <1>5, <1>6, <1>7, <1>8 DEF Next

LEMMA AlwaysInv == Spec => []Inv
BY InitInv, NextInv, PTL DEF Spec

\* The membership, the requests, the board and every call keep their types, however
\* many calls of the thirty handlers run at once and wherever they end.
THEOREM MarketTypeCorrect == Spec => []TypeOK
<1>1. Inv => TypeOK
  BY DEF Inv
<1> QED
  BY <1>1, AlwaysInv, PTL

\* An ad its seller withdrew is never back on the board, unless it is published by
\* itself or a call that was already about it had chosen it before (stampCatalogAds
\* reads optOut ahead of its transaction).
THEOREM WithdrawalHolds == Spec => []WithdrawnStaysOff
<1>1. Inv => WithdrawnStaysOff
  BY DEF Inv
<1> QED
  BY <1>1, AlwaysInv, PTL

-----------------------------------------------------------------------------
(* What one step may change, and by whom *)

\* Calls that may end the selling of an ad.
Ending(c) == \/ Admit(c) \/ LeaveSeller(c) \/ LeaveBuyer(c) \/ WriteStatus(c) \/ DropMember(c)
             \/ WriteSeller(c) \/ DropCatalog(c) \/ DropBuyer(c) \/ Release(c)

\* A row that links a catalog is of a member, perhaps of one who was removed.
Known == row.catalog # Nothing => row.status \in {"active", "banned", "removed"}

Frame ==
    /\ disturbed \subseteq disturbed'
    /\ requests' = requests \/ \E c \in Calls : WriteAsk(c) \/ WriteShut(c) \/ Settle(c)
    /\ (\A a \in Ads : pub'[a] = "published" => pub[a] = "published") \/ \E c \in Calls : Put(c)
    /\ \/ row'.catalog = row.catalog /\ row'.status \in {row.status, "active"}
       \/ \E c \in Calls : Ending(c)
    /\ Known => Known'

LEMMA BeginFrame ==
    ASSUME NEW c, NEW k, NEW todo, Begin(c, k, todo) PROVE Frame
BY DEF Begin, Meet, boardVars, Frame, Known

LEMMA RowFrame ==
    ASSUME NEW c, NEW step, NEW new, WriteRow(c, step, new),
           new.catalog = row.catalog, new.status \in {row.status, "active"}
    PROVE  Frame
BY DEF WriteRow, Go, Stop, boardVars, Frame, Known

LEMMA EndingFrame ==
    ASSUME NEW c \in Calls, Ending(c), NEW step, NEW new, WriteRow(c, step, new),
           \/ new.catalog = Nothing \/ new.status \in {"active", "banned", "removed"}
           \/ new.catalog = row.catalog /\ new.status = row.status
    PROVE  Frame
BY DEF WriteRow, Go, Stop, boardVars, Frame, Known

LEMMA NextFrame == Inv /\ [Next]_vars => Frame
<1> SUFFICES ASSUME Inv, [Next]_vars PROVE Frame
  OBVIOUS
<1>1. row \in Row
  BY DEF Inv, TypeOK
<1>2. ASSUME NEW a \in Ads,
             \/ WithdrawAd(a)
             \/ \E status \in {"active", "deleted"}, toMarket \in BOOLEAN : EditAd(a, status, toMarket)
      PROVE  Frame
  BY <1>2 DEF WithdrawAd, EditAd, AtOnce, Meet, Frame, Known, Inv, TypeOK
<1>3. ASSUME NEW c \in Calls, Asking(c) PROVE Frame
  <2>1. ASSUME NEW lane \in Lanes, NEW k \in Catalogs \union {Nothing},
               RequestMembership(c, lane, k) \/ RequestLeave(c, lane)
        PROVE  Frame
    BY <2>1, BeginFrame DEF RequestMembership, RequestLeave
  <2>2. ASSUME NEW r \in Requests, Shut(c, r) \/ ApproveJoin(c, r) \/ ApproveLeave(c, r) PROVE Frame
    BY <2>2, BeginFrame DEF Shut, ApproveJoin, ApproveLeave
  <2>3. CASE WriteAsk(c) \/ WriteShut(c) \/ Settle(c)
    BY <2>3 DEF WriteAsk, WriteShut, Settle, Go, boardVars, Frame, Known
  <2>4. CASE Admit(c)
    <3>1. PICK new : new.status = "active" /\ WriteRow(c, "admit", new)
      BY <1>1, <2>4 DEF Admit, Row
    <3> QED
      BY <2>4, <3>1, EndingFrame DEF Ending
  <2>5. CASE LeaveSeller(c)
    <3>1. PICK new : new.catalog = Nothing /\ WriteRow(c, "leaveSeller", new)
      BY <1>1, <2>5 DEF LeaveSeller, Row
    <3> QED
      BY <2>5, <3>1, EndingFrame DEF Ending
  <2>6. CASE LeaveBuyer(c)
    <3>1. PICK state : state = call[c].seen.publishState
      OBVIOUS
    <3>2. PICK stays \in BOOLEAN : stays = (call[c].seen.catalog # Nothing)
      OBVIOUS
    <3>3. PICK new : /\ new = [row EXCEPT !.business = FALSE,
                                          !.role = IF stays THEN {"seller"} ELSE {},
                                          !.status = IF stays THEN "active" ELSE "removed",
                                          !.publishState = IF stays THEN state ELSE "none"]
                     /\ WriteRow(c, "leaveBuyer", new)
      BY <2>6, <3>1, <3>2 DEF LeaveBuyer
    <3>4. new.status \in {"active", "removed"}
      BY <1>1, <3>2, <3>3 DEF Row
    <3> QED
      BY <2>6, <3>3, <3>4, EndingFrame DEF Ending
  <2> QED
    BY <1>3, <2>1, <2>2, <2>3, <2>4, <2>5, <2>6 DEF Asking
<1>4. ASSUME NEW c \in Calls, Managing(c) \/ Belonging(c) PROVE Frame
  <2>1. CASE \/ \E status \in {"active", "paused", "banned", "removed"} : SetStatus(c, status)
             \/ RemoveMember(c)
             \/ \E k \in Catalogs, arg \in {"none", "confirmed"} : AddSeller(c, k, arg)
             \/ AddBuyer(c) \/ PauseCatalog(c) \/ ResumeCatalog(c)
    BY <2>1, BeginFrame DEF SetStatus, RemoveMember, AddSeller, AddBuyer, PauseCatalog, ResumeCatalog
  <2>2. CASE \/ \E step \in {"pause", "resume"} : SetBuyerPaused(c, step)
             \/ RemoveCatalog(c) \/ RemoveBuyer(c) \/ Appoint(c) \/ Dismiss(c)
             \/ \E arg \in {"none", "buyer", "seller"} : Join(c, arg)
             \/ \E k \in Catalogs : CloseCatalog(c, k)
             \/ Publish(c) \/ Unpublish(c)
    BY <2>2, BeginFrame DEF SetBuyerPaused, RemoveCatalog, RemoveBuyer, Appoint, Dismiss, Join,
                            CloseCatalog, Publish, Unpublish
  <2>3. CASE WriteBuyer(c) \/ Pause(c) \/ Resume(c) \/ WriteAppoint(c)
    <3>1. PICK step, new : /\ new.catalog = row.catalog /\ new.status \in {row.status, "active"}
                           /\ WriteRow(c, step, new)
      BY <1>1, <2>3 DEF WriteBuyer, Pause, Resume, WriteAppoint, Row
    <3> QED
      BY <3>1, RowFrame
  <2>4. CASE WriteDismiss(c) \/ WriteJoin(c) \/ Show(c) \/ Hide(c)
    <3>1. PICK step, new : /\ new.catalog = row.catalog /\ new.status \in {row.status, "active"}
                           /\ WriteRow(c, step, new)
      BY <1>1, <2>4 DEF WriteDismiss, WriteJoin, Show, Hide, Row
    <3> QED
      BY <3>1, RowFrame
  <2>5. CASE WriteStatus(c)
    <3>1. PICK new : /\ new.catalog = row.catalog
                     /\ new.status \in {"active", "banned", "removed"} \/ new.status = row.status
                     /\ WriteRow(c, "setStatus", new)
      BY <1>1, <2>5 DEF WriteStatus, Row
    <3> QED
      BY <2>5, <3>1, EndingFrame DEF Ending
  <2>6. CASE DropMember(c) \/ DropBuyer(c) \/ DropCatalog(c)
    <3>1. PICK step, new : /\ \/ new.catalog = Nothing \/ new.status = "removed"
                              \/ new.catalog = row.catalog /\ new.status = row.status
                           /\ WriteRow(c, step, new)
      BY <1>1, <2>6 DEF DropMember, DropBuyer, DropCatalog, Row
    <3> QED
      BY <2>6, <3>1, EndingFrame DEF Ending
  <2>7. CASE Release(c)
    <3>1. PICK new : /\ new = IF row.catalog # call[c].cat THEN row
                              ELSE [row EXCEPT !.catalog = Nothing, !.publishState = "draft",
                                      !.status = IF row.role = {"seller"} THEN "inactive" ELSE @]
                     /\ WriteRow(c, "release", new)
      BY <2>7 DEF Release
    <3>2. new.catalog = Nothing \/ (new.catalog = row.catalog /\ new.status = row.status)
      BY <1>1, <3>1 DEF Row
    <3> QED
      BY <2>7, <3>1, <3>2, EndingFrame DEF Ending
  <2>8. CASE WriteSeller(c)
    <3>1. PICK new : new.status = "active" /\ WriteRow(c, "addSeller", new)
      BY <1>1, <2>8 DEF WriteSeller, Row
    <3> QED
      BY <2>8, <3>1, EndingFrame DEF Ending
  <2>9. CASE Close(c)
    BY <2>9 DEF Close, Go, boardVars, Frame, Known
  <2> QED
    BY <1>4, <2>1, <2>2, <2>3, <2>4, <2>5, <2>6, <2>7, <2>8, <2>9 DEF Managing, Belonging
<1>5. ASSUME NEW c \in Calls, Advertising(c) PROVE Frame
  <2>1. ASSUME NEW a \in Ads, CompleteAd(c, a) \/ \E toMarket \in BOOLEAN : CreateAd(c, a, toMarket)
        PROVE  Frame
    BY <2>1 DEF CompleteAd, CreateAd, Meet, Frame, Known
  <2>2. ASSUME NEW a \in Ads, EditCategory(c, a) \/ PublishAd(c, a) PROVE Frame
    BY <2>2, BeginFrame DEF EditCategory, PublishAd
  <2>3. CASE FindMarket(c)
    BY <2>3 DEF FindMarket, Go, boardVars, Frame, Known
  <2> QED
    BY <1>5, <2>1, <2>2, <2>3 DEF Advertising
<1>6. ASSUME NEW c \in Calls, Stamping(c) \/ Cut(c) PROVE Frame
  <2>1. CASE Unstamp(c)
    <3>1. \A a \in Ads : pub'[a] = "published" => pub[a] = "published"
      BY <2>1 DEF Unstamp
    <3> QED
      BY <2>1, <3>1 DEF Unstamp, Go, Frame, Known
  <2>2. CASE Halt(c)
    BY <2>2 DEF Halt, Go, Frame, Known
  <2>3. CASE Put(c)
    BY <2>3 DEF Put, Go, Frame, Known
  <2>4. CASE Stamp(c) \/ PutFails(c) \/ OpenAds(c) \/ Cut(c)
    BY <2>4 DEF Stamp, PutFails, OpenAds, Cut, Go, Stop, boardVars, Frame, Known
  <2> QED
    BY <1>6, <2>1, <2>2, <2>3, <2>4 DEF Stamping
<1>7. CASE UNCHANGED vars
  BY <1>7 DEF vars, Frame, Known
<1> QED
  BY <1>2, <1>3, <1>4, <1>5, <1>6, <1>7 DEF Next

LEMMA InitKnown == Init => Known
<1> SUFFICES ASSUME Init PROVE Known
  OBVIOUS
<1>1. NoRow \in Row /\ NoRow.catalog = Nothing
  BY DEF NoRow, Row, Statuses, PublishStates, Lanes
<1>2. CASE row = NoRow
  BY <1>1, <1>2 DEF Known
<1>3. CASE row = [NoRow EXCEPT !.rank = "arm_owner", !.status = "active"]
  BY <1>1, <1>3 DEF Known, Row
<1>4. ASSUME NEW k \in Catalogs,
             row = [NoRow EXCEPT !.status = "active", !.publishState = "published",
                                 !.role = {"seller"}, !.business = TRUE, !.catalog = k]
      PROVE  Known
  BY <1>1, <1>4 DEF Known, Row
<1> QED
  BY <1>2, <1>3, <1>4 DEF Init

LEMMA KnownAlways == Spec => []Known
BY InitInv, NextInv, InitKnown, NextFrame, PTL DEF Spec, Frame

-----------------------------------------------------------------------------
(* What calls rely on: the order of their steps, what they are about, and what *)
(* holds meanwhile unless two calls are about it                               *)

\* The next step of a call.
Up(k, steps) == k.todo # <<>> /\ Head(k.todo) \in steps

\* Its call decides or makes a request.
Asked(k) == k.ask.kind # "closed"

Single == {"shut", "findMarket", "put", "setStatus", "dropMember", "addBuyer", "pause", "resume",
           "dropCatalog", "dropBuyer", "join", "show", "hide", "release", "appoint", "dismiss"}

\* The steps t that may be left after step x.
Follows(x, t, asked) ==
    \/ /\ asked
       /\ \/ x \in {"ask", "settle"} /\ t = <<>>
          \/ x \in {"leaveSeller", "leaveBuyer", "put"} /\ t = <<"settle">>
          \/ x = "admit" /\ t \in {<<"settle">>, <<"openAds", "stamp", "put", "settle">>}
          \/ x = "openAds" /\ t = <<"stamp", "put", "settle">>
          \/ x = "stamp" /\ t = <<"put", "settle">>
          \/ x = "unstamp" /\ t = <<"leaveSeller", "settle">>
    \/ /\ ~ asked
       /\ \/ x \in Single /\ t = <<>>
          \/ x = "addSeller" /\ t = <<"openAds", "stamp", "put">>
          \/ x \in {"openAds", "resume"} /\ t = <<"stamp", "put">>
          \/ x = "stamp" /\ t \in {<<"put">>, <<"put", "setStatus">>, <<"put", "show">>}
          \/ x = "put" /\ t \in {<<"setStatus">>, <<"show">>}
          \/ x = "unstamp" /\ t \in {<<"setStatus">>, <<"dropMember">>, <<"dropCatalog">>, <<"hide">>}
          \/ x = "halt" /\ t = <<"pause">>
          \/ x = "close" /\ t = <<"release">>

\* What a call is about: the row and all ads, the row, or neither.
RowLists == {<<"admit", "settle">>, <<"settle">>}
            \union {<<step>> : step \in {"addBuyer", "appoint", "dismiss", "pause", "resume", "join"}}
AdLists == {<<"ask">>, <<"shut">>, <<"findMarket">>, <<"stamp", "put">>, <<"put">>}

Reaches(k) ==
    \/ k.todo = <<>>
    \/ {"row"} \union Ads \subseteq k.on
    \/ "row" \in k.on /\ k.todo \in RowLists
    \/ k.todo \in AdLists

Planned(k) ==
    /\ k.scope \subseteq AdsOf(k.cat)
    /\ k.todo # <<>> => Follows(Head(k.todo), Tail(k.todo), Asked(k))
    /\ Reaches(k)
    /\ Up(k, {"admit", "openAds", "stamp", "put"}) /\ Asked(k) => k.ask.kind = "join"
    /\ Up(k, {"unstamp", "leaveSeller"}) /\ Asked(k) => k.ask.kind = "leave" /\ k.ask.lane = "seller"
    /\ Up(k, {"leaveBuyer"}) => k.ask.kind = "leave" /\ k.ask.lane = "buyer"
    /\ Up(k, {"admit"}) =>
         IF k.ask.lane = "seller" THEN k.cat = k.ask.catalog /\ Tail(k.todo) # <<"settle">>
         ELSE Tail(k.todo) = <<"settle">>
    /\ \/ Up(k, {"stamp"}) /\ Tail(k.todo) = <<"put", "setStatus">>
       \/ Up(k, {"put"}) /\ Tail(k.todo) = <<"setStatus">>
       => k.arg = "active"

LEMMA Lists ==
    /\ \A x : <<x>> # <<>> /\ Head(<<x>>) = x /\ Tail(<<x>>) = <<>>
    /\ \A x, y : <<x, y>> # <<>> /\ Head(<<x, y>>) = x /\ Tail(<<x, y>>) = <<y>>
    /\ \A x, y, z : <<x, y, z>> # <<>> /\ Head(<<x, y, z>>) = x /\ Tail(<<x, y, z>>) = <<y, z>>
    /\ \A x, y, z, w : <<x, y, z, w>> # <<>> /\ Head(<<x, y, z, w>>) = x /\ Tail(<<x, y, z, w>>) = <<y, z, w>>
OBVIOUS

\* Lists go on as they were planned.
GoesOn(x, t, asked) ==
    /\ Follows(Head(t), Tail(t), asked)
    /\ Head(t) \notin {"ask", "shut", "findMarket", "admit", "unstamp", "leaveBuyer", "addSeller", "resume"}
    /\ asked /\ Head(t) \in {"openAds", "stamp", "put"} => x \in {"admit", "openAds", "stamp"}
    /\ Head(t) = "leaveSeller" => x = "unstamp"
    /\ ~ (Head(t) = "stamp" /\ Tail(t) = <<"put", "setStatus">>)
    /\ Head(t) = "put" /\ Tail(t) = <<"setStatus">> => x = "stamp" /\ t = <<"put", "setStatus">>

LEMMA FollowsOn ==
    ASSUME NEW x, NEW t, NEW asked \in BOOLEAN, Follows(x, t, asked), t # <<>>
    PROVE  GoesOn(x, t, asked)
<1>1. \/ t = <<"settle">> /\ asked
      \/ t = <<"openAds", "stamp", "put", "settle">> /\ asked
      \/ t = <<"stamp", "put", "settle">> /\ asked
      \/ t = <<"put", "settle">> /\ asked
      \/ t = <<"leaveSeller", "settle">> /\ asked
      \/ t = <<"openAds", "stamp", "put">> /\ ~ asked
      \/ t = <<"stamp", "put">> /\ ~ asked
      \/ t = <<"put">> /\ ~ asked
      \/ \E y \in {"setStatus", "show"} : t = <<"put", y>> /\ ~ asked
      \/ \E y \in {"setStatus", "show", "dropMember", "dropCatalog", "hide", "pause", "release"} :
            t = <<y>> /\ ~ asked
  BY DEF Follows
<1>2. CASE t = <<"settle">> /\ asked
  BY <1>2, Lists DEF Follows, GoesOn
<1>3. CASE t = <<"openAds", "stamp", "put", "settle">> /\ asked
  BY <1>3, Lists DEF Follows, GoesOn
<1>4. CASE t = <<"stamp", "put", "settle">> /\ asked
  BY <1>4, Lists DEF Follows, GoesOn
<1>5. CASE t = <<"put", "settle">> /\ asked
  BY <1>5, Lists DEF Follows, GoesOn
<1>6. CASE t = <<"leaveSeller", "settle">> /\ asked
  BY <1>6, Lists DEF Follows, GoesOn
<1>7. CASE t = <<"openAds", "stamp", "put">> /\ ~ asked
  BY <1>7, Lists DEF Follows, GoesOn
<1>8. CASE t = <<"stamp", "put">> /\ ~ asked
  BY <1>8, Lists DEF Follows, GoesOn
<1>9. CASE t = <<"put">> /\ ~ asked
  BY <1>9, Lists DEF Follows, GoesOn, Single
<1>10. ASSUME NEW y \in {"setStatus", "show"}, t = <<"put", y>>, ~ asked
       PROVE  GoesOn(x, t, asked)
  <2>1. Head(t) = "put" /\ Tail(t) = <<y>>
    BY <1>10, Lists
  <2> QED
    BY <1>10, <2>1 DEF Follows, GoesOn
<1>11. ASSUME NEW y \in {"setStatus", "show", "dropMember", "dropCatalog", "hide", "pause", "release"},
              t = <<y>>, ~ asked
       PROVE  GoesOn(x, t, asked)
  <2>1. y \in Single
    BY DEF Single
  <2>2. Head(t) = y /\ Tail(t) = <<>>
    BY <1>11, Lists
  <2> QED
    BY <1>11, <2>1, <2>2 DEF Follows, GoesOn
<1> QED
  BY <1>1, <1>2, <1>3, <1>4, <1>5, <1>6, <1>7, <1>8, <1>9, <1>10, <1>11

LEMMA PlannedOn ==
    ASSUME NEW k, Planned(k), k.todo # <<>>, NEW n, n.todo = Tail(k.todo), n.scope \subseteq k.scope,
           n.cat = k.cat, n.ask = k.ask, n.on = k.on, n.arg = k.arg
    PROVE  Planned(n)
<1>1. Asked(n) = Asked(k) /\ Asked(k) \in BOOLEAN
  BY DEF Asked
<1>2. Follows(Head(k.todo), Tail(k.todo), Asked(k))
  BY DEF Planned
<1>3. n.todo # <<>> => GoesOn(Head(k.todo), n.todo, Asked(k))
  BY <1>1, <1>2, FollowsOn
<1>4. Reaches(n)
  <2>1. CASE {"row"} \union Ads \subseteq k.on
    BY <2>1 DEF Reaches
  <2>2. CASE "row" \in k.on /\ k.todo \in RowLists
    <3>1. CASE k.todo \in {<<"admit", "settle">>, <<"leaveBuyer", "settle">>}
      <4>1. \E x : k.todo = <<x, "settle">>
        BY <3>1
      <4>2. n.todo = <<"settle">>
        BY <4>1, Lists
      <4> QED
        BY <2>2, <4>2 DEF Reaches, RowLists
    <3>2. CASE k.todo \notin {<<"admit", "settle">>, <<"leaveBuyer", "settle">>}
      <4>1. \E x : k.todo = <<x>>
        BY <2>2, <3>2 DEF RowLists
      <4>2. n.todo = <<>>
        BY <4>1, Lists
      <4> QED
        BY <4>2 DEF Reaches
    <3> QED
      BY <3>1, <3>2
  <2>3. CASE k.todo \in AdLists
    <3>1. \/ \E x \in {"ask", "shut", "findMarket", "put"} : k.todo = <<x>>
          \/ k.todo = <<"stamp", "put">>
      BY <2>3 DEF AdLists
    <3>2. n.todo = <<>> \/ n.todo = <<"put">>
      <4>1. ASSUME NEW x, k.todo = <<x>> PROVE n.todo = <<>>
        BY <4>1, Lists
      <4>2. CASE k.todo = <<"stamp", "put">>
        BY <4>2, Lists
      <4> QED
        BY <3>1, <4>1, <4>2
    <3> QED
      BY <3>2 DEF Reaches, AdLists
  <2> QED
    BY <2>1, <2>2, <2>3 DEF Planned, Reaches
<1>5. n.scope \subseteq AdsOf(n.cat)
  BY DEF Planned
<1> QED
  BY <1>1, <1>3, <1>4, <1>5 DEF Planned, GoesOn, Up

Joined(ask) == row.status = "active" /\ (ask.lane = "seller" => row.catalog = ask.catalog)
Gone(ask) ==
    row.status # "active" \/ IF ask.lane = "seller" THEN row.catalog = Nothing ELSE ~ row.business

\* The ads with a published publication.
Shown == {a \in Ads : pub[a] = "published"}

\* Its next step ends the selling.
Removing(k) ==
    \/ Up(k, {"dropMember", "dropCatalog", "leaveSeller"})
    \/ Up(k, {"setStatus"}) /\ k.arg # "active"

Publishing(k) ==
    /\ k.arg # "edit"
    /\ Up(k, {"openAds", "stamp", "put"}) \/ (Up(k, {"resume"}) /\ Tail(k.todo) # <<>>)

\* What it knows of the catalog the row links, unless the ads are disturbed.
Linked(k) ==
    /\ Removing(k) \/ Up(k, {"unstamp"}) => row.catalog = k.cat
    /\ Up(k, {"leaveBuyer"}) => row.catalog = k.seen.catalog
    /\ Up(k, {"addSeller"}) => row.catalog \in {k.cat, Nothing}

\* Ad a is one the member sells; a call that makes him active may be ahead of his row.
Current(arg, a) == row.catalog = CatalogOf[a] /\ (arg # "active" => row.status = "active")

\* What a call relies on, as long as nothing it is about is disturbed.
Relies(k) ==
    /\ ~ (Ads \subseteq disturbed) => Linked(k)
    /\ Removing(k) => Shown \intersect AdsOf(k.cat) \subseteq disturbed
    /\ Publishing(k) => \A a \in k.scope \ disturbed : Current(k.arg, a)
    /\ Asked(k) /\ "row" \notin disturbed =>
         /\ \/ Up(k, {"openAds", "stamp", "put"})
            \/ Up(k, {"settle"}) /\ k.ask.kind = "join"
            => Joined(k.ask)
         /\ Up(k, {"settle"}) /\ k.ask.kind # "join" => Gone(k.ask)
    /\ Asked(k) /\ ~ Up(k, {"ask"}) => k.req \in Requests /\ requests[k.req] \in {k.ask, Closed}

Apart == \A c, d \in Calls : c # d => call[c].on \intersect call[d].on \subseteq disturbed

Sound == Apart /\ \A c \in Calls : Planned(call[c]) /\ Relies(call[c])

\* A step that touches nothing but T.
Touches(T) ==
    /\ row' # row => "row" \in T
    /\ row'.catalog # row.catalog \/ (row.status = "active" /\ row'.status # "active") => Ads \subseteq T
    /\ Shown' \subseteq Shown \union T
    /\ \A r \in Requests :
          requests'[r] \in {requests[r], Closed} \/ \A d \in Calls : call[d].req # r

LEMMA ReachOf ==
    ASSUME NEW k, Planned(k)
    PROVE  /\ Up(k, {"addSeller", "openAds", "unstamp", "leaveSeller", "leaveBuyer", "dropMember",
                     "dropCatalog", "dropBuyer", "hide", "setStatus", "release", "close"})
              => {"row"} \union Ads \subseteq k.on
           /\ Up(k, RowSteps \union {"settle"}) => "row" \in k.on
           /\ Asked(k) /\ Up(k, {"openAds", "stamp", "put"}) => {"row"} \union Ads \subseteq k.on
           /\ Up(k, {"admit"}) /\ k.ask.lane = "seller" => Ads \subseteq k.on
<1>1. CASE k.todo = <<>>
  BY <1>1 DEF Up
<1>2. CASE {"row"} \union Ads \subseteq k.on
  BY <1>2
<1>3. CASE "row" \in k.on /\ k.todo \in RowLists
  <2>1. ASSUME NEW x \in {"addBuyer", "appoint", "dismiss", "pause", "resume", "join", "settle"},
               k.todo = <<x>>
        PROVE  Head(k.todo) = x
    BY <2>1, Lists
  <2>2. ASSUME k.todo = <<"admit", "settle">>
        PROVE  Head(k.todo) = "admit" /\ Tail(k.todo) = <<"settle">>
    BY <2>2, Lists
  <2>3. \/ \E x \in {"addBuyer", "appoint", "dismiss", "pause", "resume", "join", "settle"} :
               k.todo = <<x>>
        \/ k.todo = <<"admit", "settle">>
    BY <1>3 DEF RowLists
  <2> QED
    BY <1>3, <2>1, <2>2, <2>3 DEF Up, Planned
<1>4. CASE k.todo \in AdLists
  <2>1. ASSUME NEW x \in {"ask", "shut", "findMarket", "put"}, k.todo = <<x>>
        PROVE  Head(k.todo) = x /\ Tail(k.todo) = <<>>
    BY <2>1, Lists
  <2>2. ASSUME k.todo = <<"stamp", "put">>
        PROVE  Head(k.todo) = "stamp" /\ Tail(k.todo) = <<"put">>
    BY <2>2, Lists
  <2>3. \/ \E x \in {"ask", "shut", "findMarket", "put"} : k.todo = <<x>>
        \/ k.todo = <<"stamp", "put">>
    BY <1>4 DEF AdLists
  <2>4. Up(k, {"ask", "shut", "findMarket", "put", "stamp"})
    BY <2>1, <2>2, <2>3, Lists DEF Up
  <2>5. ~ (Asked(k) /\ Up(k, {"openAds", "stamp", "put"}))
    <3> SUFFICES ASSUME Asked(k), Up(k, {"openAds", "stamp", "put"}) PROVE FALSE
      OBVIOUS
    <3>1. Head(k.todo) = "put" => Tail(k.todo) = <<"settle">>
      BY DEF Planned, Follows, Up
    <3>2. Head(k.todo) = "stamp" => Tail(k.todo) = <<"put", "settle">>
      BY DEF Planned, Follows, Up
    <3>3. <<"put", "settle">> # <<"put">> /\ <<"settle">> # <<>>
      OBVIOUS
    <3> QED
      BY <2>1, <2>2, <2>3, <3>1, <3>2, <3>3 DEF Up
  <2> QED
    BY <2>4, <2>5 DEF Up, RowSteps
<1> QED
  BY <1>1, <1>2, <1>3, <1>4 DEF Planned, Reaches

\* What another call relies on stays, unless it is disturbed.
LEMMA OthersRely ==
    ASSUME Inv, NEW k, k \in Call, k.scope \subseteq k.on, Planned(k), Relies(k), NEW T,
           disturbed \subseteq disturbed', T \intersect k.on \subseteq disturbed',
           row' # row => "row" \in T,
           row'.catalog # row.catalog \/ (row.status = "active" /\ row'.status # "active")
              => Ads \subseteq T,
           Shown' \subseteq Shown \union T,
           k.req \in Requests => requests'[k.req] \in {requests[k.req], Closed}
    PROVE  Relies(k)'
<1>1. ~ (Ads \subseteq disturbed') => Linked(k)'
  <2> SUFFICES ASSUME ~ (Ads \subseteq disturbed'),
                      Up(k, {"setStatus", "dropMember", "dropCatalog", "leaveSeller", "unstamp",
                             "leaveBuyer", "addSeller"})
               PROVE  Linked(k)'
    BY DEF Linked, Removing, Up
  <2>1. Ads \subseteq k.on
    BY ReachOf DEF Up
  <2>2. row'.catalog = row.catalog /\ Linked(k)
    BY <2>1 DEF Relies
  <2> QED
    BY <2>2 DEF Linked, Removing, Up
<1>4. Removing(k) => Shown' \intersect AdsOf(k.cat) \subseteq disturbed'
  <2> SUFFICES ASSUME Removing(k), NEW a \in Shown', a \in AdsOf(k.cat) PROVE a \in disturbed'
    OBVIOUS
  <2>1. Ads \subseteq k.on
    BY ReachOf DEF Removing, Up
  <2>2. Shown \intersect AdsOf(k.cat) \subseteq disturbed
    BY DEF Relies
  <2> QED
    BY <2>1, <2>2 DEF AdsOf
<1>5. Publishing(k) => \A a \in k.scope \ disturbed' : Current(k.arg, a)'
  <2> SUFFICES ASSUME Publishing(k), NEW a \in k.scope \ disturbed' PROVE Current(k.arg, a)'
    OBVIOUS
  <2>1. a \in Ads /\ a \notin T
    BY DEF Call
  <2> QED
    BY <2>1 DEF Relies, Current
<1>6. Asked(k) /\ "row" \notin disturbed' =>
        /\ \/ Up(k, {"openAds", "stamp", "put"})
           \/ Up(k, {"settle"}) /\ k.ask.kind = "join"
           => Joined(k.ask)'
        /\ Up(k, {"settle"}) /\ k.ask.kind # "join" => Gone(k.ask)'
  <2> SUFFICES ASSUME Asked(k), "row" \notin disturbed', Up(k, {"openAds", "stamp", "put", "settle"})
               PROVE  /\ \/ Up(k, {"openAds", "stamp", "put"})
                         \/ Up(k, {"settle"}) /\ k.ask.kind = "join"
                         => Joined(k.ask)'
                      /\ Up(k, {"settle"}) /\ k.ask.kind # "join" => Gone(k.ask)'
    BY DEF Up
  <2>1. "row" \in k.on
    BY ReachOf DEF Up
  <2>2. row' = row /\ "row" \notin disturbed
    BY <2>1
  <2> QED
    BY <2>2 DEF Relies, Joined, Gone
<1>7. Asked(k) /\ ~ Up(k, {"ask"}) => k.req \in Requests /\ requests'[k.req] \in {k.ask, Closed}
  BY DEF Relies
<1> QED
  BY <1>1, <1>4, <1>5, <1>6, <1>7 DEF Relies

\* The other calls rely on the same after a step of call c, or of none.
LEMMA OthersSound ==
    ASSUME Inv, Sound, NEW d \in Calls, call'[d] = call[d], disturbed \subseteq disturbed',
           NEW T, Touches(T), T \intersect call[d].on \subseteq disturbed',
           \A r \in Requests : call[d].req = r => requests'[r] \in {requests[r], Closed}
    PROVE  Planned(call[d])' /\ Relies(call[d])'
<1>1. PICK m : m = call[d]
  OBVIOUS
<1>2. m \in Call /\ m.scope \subseteq m.on /\ Planned(m) /\ Relies(m)
  BY <1>1 DEF Inv, CallsTyped, Formed, Sound
<1>3. Relies(m)'
  BY <1>1, <1>2, OthersRely DEF Touches
<1>4. call'[d] = m
  BY <1>1
<1>5. Planned(call[d])'
  BY <1>2, <1>4 DEF Planned, Up, Asked, Reaches, AdsOf
<1>6. Relies(call[d])'
  BY <1>3, <1>4 DEF Relies, Up, Asked, Linked, Removing, Publishing, Current
<1> QED
  BY <1>5, <1>6

\* A step of call c that goes on as n.
LEMMA SlotSound ==
    ASSUME Inv, Sound, NEW c \in Calls, NEW n, call' = [call EXCEPT ![c] = n],
           n.on \subseteq call[c].on, disturbed' = disturbed, Touches(call[c].on),
           Planned(n), Relies(n)'
    PROVE  Sound'
<1>1. call'[c] = n /\ \A d \in Calls \ {c} : call'[d] = call[d]
  BY DEF Inv, CallsTyped
<1>2. \A d \in Calls \ {c} : call[c].on \intersect call[d].on \subseteq disturbed
  BY DEF Sound, Apart
<1>3. \A d \in Calls : \A r \in Requests : call[d].req = r => requests'[r] \in {requests[r], Closed}
  BY DEF Touches
<1>4. ASSUME NEW d \in Calls \ {c} PROVE Planned(call[d])' /\ Relies(call[d])'
  <2>1. PICK T : T = call[c].on
    OBVIOUS
  <2>2. Touches(T)
    BY <2>1 DEF Touches
  <2> QED
    BY <1>1, <1>2, <1>3, <2>1, <2>2, OthersSound
<1>5. Planned(call[c])' /\ Relies(call[c])'
  BY <1>1 DEF Planned, Relies, Up, Asked, Linked, Removing, Publishing, Current, Reaches, AdsOf
<1>6. Apart'
  <2> SUFFICES ASSUME NEW d \in Calls, NEW e \in Calls, d # e
               PROVE call'[d].on \intersect call'[e].on \subseteq disturbed'
    BY DEF Apart
  <2>1. call[d].on \intersect call[e].on \subseteq disturbed
    BY DEF Sound, Apart
  <2>2. CASE d = c
    BY <1>1, <2>1, <2>2
  <2>3. CASE e = c
    BY <1>1, <2>1, <2>3
  <2> QED
    BY <1>1, <2>1, <2>2, <2>3
<1> QED
  BY <1>4, <1>5, <1>6 DEF Sound

LEMMA IdleSound == Planned(Idle) /\ Relies(Idle) /\ Idle.on = {}
BY DEF Idle, Planned, Reaches, Relies, Up, Asked, Linked, Removing, Publishing, Current, Closed, NoRow

LEMMA StopSound ==
    ASSUME Inv, Sound, NEW c \in Calls, Stop(c), UNCHANGED <<row, requests, closed, boardVars>>
    PROVE  Sound'
<1>1. UNCHANGED <<row, requests, ads, open, pub, disturbed>> /\ call' = [call EXCEPT ![c] = Idle]
  BY DEF Stop, boardVars
<1>2. Touches(call[c].on)
  BY <1>1 DEF Touches, Shown
<1>3. PICK n : n = Idle
  OBVIOUS
<1>4. n.on = {} /\ Planned(n) /\ ~ Asked(n) /\ n.todo = <<>>
  BY <1>3, IdleSound DEF Asked, Idle, Closed
<1>5. Relies(n)'
  BY <1>4 DEF Relies, Up, Linked, Removing, Publishing, Current
<1> QED
  BY <1>1, <1>2, <1>3, <1>4, <1>5, SlotSound

\* A call that begins as n, in a step about what n is about.
LEMMA NewCallSound ==
    ASSUME Inv, Sound, NEW c \in Calls, NEW n, call' = [call EXCEPT ![c] = n],
           disturbed' = disturbed \union (n.on \intersect Busy), Touches(n.on),
           Planned(n), Relies(n)'
    PROVE  Sound'
<1>1. call'[c] = n /\ \A d \in Calls \ {c} : call'[d] = call[d]
  BY DEF Inv, CallsTyped
<1>2. \A d \in Calls : call[d].on \subseteq Busy
  BY DEF Busy
<1>3. ASSUME NEW d \in Calls \ {c} PROVE Planned(call[d])' /\ Relies(call[d])'
  <2>1. PICK T : T = n.on
    OBVIOUS
  <2>2. Touches(T) /\ T \intersect call[d].on \subseteq disturbed'
    BY <1>2, <2>1 DEF Touches
  <2>3. \A r \in Requests : call[d].req = r => requests'[r] \in {requests[r], Closed}
    BY DEF Touches
  <2> QED
    BY <1>1, <2>2, <2>3, OthersSound
<1>4. Planned(call[c])' /\ Relies(call[c])'
  BY <1>1 DEF Planned, Relies, Up, Asked, Linked, Removing, Publishing, Current, Reaches, AdsOf
<1>5. Apart'
  <2> SUFFICES ASSUME NEW d \in Calls, NEW e \in Calls, d # e
               PROVE call'[d].on \intersect call'[e].on \subseteq disturbed'
    BY DEF Apart
  <2>1. call[d].on \intersect call[e].on \subseteq disturbed
    BY DEF Sound, Apart
  <2> QED
    BY <1>1, <1>2, <2>1
<1> QED
  BY <1>3, <1>4, <1>5 DEF Sound

\* ... and that has done nothing yet.
LEMMA BeginSound ==
    ASSUME Inv, Sound, NEW c \in Calls, NEW k, NEW todo, Begin(c, k, todo), k \in Call,
           NEW n, n = [k EXCEPT !.todo = todo], Planned(n), Relies(n)
    PROVE  Sound'
<1>1. /\ UNCHANGED <<row, requests, ads, open, pub>> /\ call' = [call EXCEPT ![c] = n]
      /\ disturbed' = disturbed \union (k.on \intersect Busy)
  BY DEF Begin, Meet, boardVars
<1>2. n.on = k.on
  BY DEF Call
<1>3. Touches(n.on)
  BY <1>1 DEF Touches, Shown
<1>4. Relies(n)'
  <2>1. Linked(n)' = Linked(n) /\ Removing(n)' = Removing(n) /\ Publishing(n)' = Publishing(n)
    BY <1>1 DEF Linked, Removing, Publishing
  <2>2. \A a : Current(n.arg, a)' = Current(n.arg, a)
    BY <1>1 DEF Current
  <2>3. Shown' = Shown /\ disturbed \subseteq disturbed'
    BY <1>1 DEF Shown
  <2>4. Joined(n.ask)' = Joined(n.ask) /\ Gone(n.ask)' = Gone(n.ask)
    BY <1>1 DEF Joined, Gone
  <2> QED
    BY <1>1, <2>1, <2>2, <2>3, <2>4 DEF Relies
<1> QED
  BY <1>1, <1>2, <1>3, <1>4, NewCallSound

\* Call c before its step, and as it goes on.
After(k, n) == n = [k EXCEPT !.todo = Tail(k.todo)]

LEMMA CallParts ==
    ASSUME Inv, Sound, NEW c \in Calls, NEW k, k = call[c], k.todo # <<>>,
           NEW n, After(k, n)
    PROVE  /\ k \in Call /\ Planned(k) /\ Relies(k) /\ Planned(n)
           /\ Follows(Head(k.todo), Tail(k.todo), Asked(k))
           /\ k.scope \subseteq k.on /\ k.scope \subseteq AdsOf(k.cat) /\ k.scope \subseteq Ads
           /\ n.todo = Tail(k.todo) /\ n.scope = k.scope /\ n.cat = k.cat /\ n.ask = k.ask
           /\ n.on = k.on /\ n.arg = k.arg /\ n.req = k.req /\ Asked(n) = Asked(k)
<1>1. k \in Call /\ Planned(k) /\ Relies(k) /\ k.scope \subseteq k.on
  BY DEF Inv, CallsTyped, Formed, Sound
<1>2. n.todo = Tail(k.todo) /\ n.scope = k.scope /\ n.cat = k.cat /\ n.ask = k.ask
      /\ n.on = k.on /\ n.arg = k.arg /\ n.req = k.req
  BY <1>1 DEF Call, After
<1>3. Planned(n)
  BY <1>1, <1>2, PlannedOn
<1> QED
  BY <1>1, <1>2, <1>3 DEF Planned, Asked, Call

LEMMA GoSound ==
    ASSUME Inv, Sound, NEW c \in Calls, NEW k, k = call[c], k.todo # <<>>, Go(c), Touches(k.on),
           NEW n, After(k, n), Tail(k.todo) # <<>> => Relies(n)'
    PROVE  Sound'
<1>1. Planned(n) /\ n.on = k.on
  BY CallParts
<1>2. disturbed' = disturbed /\ call' = [call EXCEPT ![c] = IF Tail(k.todo) = <<>> THEN Idle ELSE n]
  BY DEF Go, Left, After
<1>3. Touches(call[c].on)
  BY DEF Touches
<1>4. CASE Tail(k.todo) = <<>>
  <2>1. PICK i : i = Idle
    OBVIOUS
  <2>2. i.on = {} /\ Planned(i) /\ ~ Asked(i) /\ i.todo = <<>>
    BY <2>1, IdleSound DEF Asked, Idle, Closed
  <2>3. Relies(i)'
    BY <2>2 DEF Relies, Up, Linked, Removing, Publishing, Current
  <2> QED
    BY <1>2, <1>3, <1>4, <2>1, <2>2, <2>3, SlotSound
<1>5. CASE Tail(k.todo) # <<>>
  BY <1>1, <1>2, <1>3, <1>5, SlotSound
<1> QED
  BY <1>4, <1>5

LEMMA LastStep ==
    ASSUME NEW k, Planned(k), Up(k, (Single \ {"put", "resume"}) \union {"ask", "settle"})
    PROVE  Tail(k.todo) = <<>>
BY DEF Planned, Follows, Up, Single

\* A step that writes the row.
LEMMA RowSound ==
    ASSUME Inv, Sound, NEW c \in Calls, NEW k, k = call[c], NEW step \in RowSteps, NEW new,
           WriteRow(c, step, new),
           new.catalog # row.catalog \/ (row.status = "active" /\ new.status # "active")
              => Ads \subseteq k.on,
           NEW n, After(k, n),
           row' = new /\ Tail(k.todo) # <<>> => Relies(n)'
    PROVE  Sound'
<1>1. /\ k.todo # <<>> /\ Head(k.todo) = step /\ UNCHANGED <<requests, closed, boardVars>>
      /\ (row' = new /\ Go(c)) \/ (row' = row /\ Stop(c))
  BY DEF WriteRow, At
<1>2. "row" \in k.on
  BY <1>1, CallParts, ReachOf DEF Up
<1>3. UNCHANGED <<requests, ads, open, pub>>
  BY <1>1 DEF boardVars
<1>4. CASE row' = new /\ Go(c)
  <2>1. Touches(k.on)
    BY <1>2, <1>3, <1>4 DEF Touches, Shown
  <2> QED
    BY <1>1, <1>4, <2>1, GoSound
<1>5. CASE row' = row /\ Stop(c)
  BY <1>1, <1>5, StopSound
<1> QED
  BY <1>1, <1>4, <1>5

\* ... and after which nothing is left to do.
LEMMA LastRowSound ==
    ASSUME Inv, Sound, NEW c \in Calls,
           \/ WriteStatus(c) \/ DropMember(c) \/ WriteBuyer(c) \/ Pause(c) \/ DropCatalog(c)
           \/ DropBuyer(c) \/ WriteAppoint(c) \/ WriteDismiss(c) \/ WriteJoin(c) \/ Show(c)
           \/ Hide(c) \/ Release(c)
    PROVE  Sound'
<1>1. PICK k : k = call[c]
  OBVIOUS
<1>2. PICK n : After(k, n)
  BY DEF After
<1>3. row \in Row
  BY DEF Inv, TypeOK
<1>4. ASSUME NEW step \in {"setStatus", "dropMember", "addBuyer", "pause", "dropBuyer", "appoint",
                           "dismiss", "join", "show", "hide", "dropCatalog", "release"},
             NEW new, WriteRow(c, step, new),
             \/ new.catalog = row.catalog /\ new.status \in {row.status, "active"}
             \/ step \in {"setStatus", "dropMember", "dropBuyer", "dropCatalog", "release"}
      PROVE  Sound'
  <2>1. k.todo # <<>> /\ Head(k.todo) = step
    BY <1>1, <1>4 DEF WriteRow, At
  <2>2. Planned(k)
    BY <1>1 DEF Sound
  <2>3. Tail(k.todo) = <<>>
    BY <2>1, <2>2, LastStep DEF Up, Single
  <2>4. new.catalog # row.catalog \/ (row.status = "active" /\ new.status # "active")
           => Ads \subseteq k.on
    BY <1>4, <2>1, <2>2, ReachOf DEF Up
  <2> QED
    BY <1>1, <1>2, <1>4, <2>3, <2>4, RowSound DEF RowSteps
<1>5. CASE WriteStatus(c)
  <2>1. PICK new : new.catalog = row.catalog /\ WriteRow(c, "setStatus", new)
    BY <1>3, <1>5 DEF WriteStatus, Row
  <2> QED
    BY <1>4, <2>1
<1>6. CASE DropMember(c)
  <2>1. PICK new : new.catalog = row.catalog /\ WriteRow(c, "dropMember", new)
    BY <1>3, <1>6 DEF DropMember, Row
  <2> QED
    BY <1>4, <2>1
<1>7. CASE WriteBuyer(c)
  <2>1. PICK new : /\ new.catalog = row.catalog /\ new.status \in {row.status, "active"}
                   /\ WriteRow(c, "addBuyer", new)
    BY <1>3, <1>7 DEF WriteBuyer, Row
  <2> QED
    BY <1>4, <2>1
<1>8. CASE Pause(c)
  <2>1. PICK new : /\ new.catalog = row.catalog /\ new.status \in {row.status, "active"}
                   /\ WriteRow(c, "pause", new)
    BY <1>3, <1>8 DEF Pause, Row
  <2> QED
    BY <1>4, <2>1
<1>9. CASE DropCatalog(c)
  BY <1>4, <1>9 DEF DropCatalog
<1>10. CASE DropBuyer(c)
  <2>1. PICK new : new.catalog = row.catalog /\ WriteRow(c, "dropBuyer", new)
    BY <1>3, <1>10 DEF DropBuyer, Row
  <2> QED
    BY <1>4, <2>1
<1>11. CASE WriteAppoint(c)
  <2>1. PICK new : /\ new.catalog = row.catalog /\ new.status \in {row.status, "active"}
                   /\ WriteRow(c, "appoint", new)
    BY <1>3, <1>11 DEF WriteAppoint, Row
  <2> QED
    BY <1>4, <2>1
<1>12. CASE WriteDismiss(c)
  <2>1. PICK new : /\ new.catalog = row.catalog /\ new.status \in {row.status, "active"}
                   /\ WriteRow(c, "dismiss", new)
    BY <1>3, <1>12 DEF WriteDismiss, Row
  <2> QED
    BY <1>4, <2>1
<1>13. CASE WriteJoin(c)
  <2>1. PICK new : /\ new.catalog = row.catalog /\ new.status \in {row.status, "active"}
                   /\ WriteRow(c, "join", new)
    BY <1>3, <1>13 DEF WriteJoin, Row
  <2> QED
    BY <1>4, <2>1
<1>14. CASE Show(c)
  <2>1. PICK new : /\ new.catalog = row.catalog /\ new.status \in {row.status, "active"}
                   /\ WriteRow(c, "show", new)
    BY <1>3, <1>14 DEF Show, Row
  <2> QED
    BY <1>4, <2>1
<1>15. CASE Hide(c)
  <2>1. PICK new : /\ new.catalog = row.catalog /\ new.status \in {row.status, "active"}
                   /\ WriteRow(c, "hide", new)
    BY <1>3, <1>15 DEF Hide, Row
  <2> QED
    BY <1>4, <2>1
<1>16. CASE Release(c)
  BY <1>4, <1>16 DEF Release
<1> QED
  BY <1>5, <1>6, <1>7, <1>8, <1>9, <1>10, <1>11, <1>12, <1>13, <1>14, <1>15, <1>16

\* The step a list goes on with.
LEMMA HeadOf ==
    ASSUME NEW t
    PROVE  /\ \A x : t = <<x>> => t # <<>> /\ Head(t) = x
           /\ t = <<"settle">> => t # <<>> /\ Head(t) = "settle"
           /\ t = <<"openAds", "stamp", "put", "settle">> => t # <<>> /\ Head(t) = "openAds"
           /\ t = <<"openAds", "stamp", "put">> => t # <<>> /\ Head(t) = "openAds"
           /\ t = <<"stamp", "put", "settle">> => t # <<>> /\ Head(t) = "stamp"
           /\ t = <<"stamp", "put">> => t # <<>> /\ Head(t) = "stamp"
           /\ \A x : t = <<"put", x>> => t # <<>> /\ Head(t) = "put"
           /\ t = <<"leaveSeller", "settle">> => t # <<>> /\ Head(t) = "leaveSeller"
BY Lists

\* Steps that write the row and go on.
LEMMA MoreRowSound ==
    ASSUME Inv, Sound, NEW c \in Calls,
           Admit(c) \/ LeaveSeller(c) \/ LeaveBuyer(c) \/ WriteSeller(c) \/ Resume(c)
    PROVE  Sound'
<1>1. PICK k : k = call[c]
  OBVIOUS
<1>2. PICK n : After(k, n)
  BY DEF After
<1>3. row \in Row
  BY DEF Inv, TypeOK
<1>4. k.todo # <<>> /\ Head(k.todo) \in {"admit", "leaveSeller", "leaveBuyer", "addSeller", "resume"}
  BY <1>1 DEF Admit, LeaveSeller, LeaveBuyer, WriteSeller, Resume, WriteRow, At
<1>5. /\ k \in Call /\ Planned(k) /\ Relies(k) /\ Planned(n)
      /\ Follows(Head(k.todo), Tail(k.todo), Asked(k))
      /\ k.scope \subseteq AdsOf(k.cat) /\ k.scope \subseteq Ads
      /\ n.todo = Tail(k.todo) /\ n.scope = k.scope /\ n.cat = k.cat /\ n.ask = k.ask
      /\ n.on = k.on /\ n.arg = k.arg /\ n.req = k.req /\ Asked(n) = Asked(k)
  BY <1>1, <1>2, <1>4, CallParts
<1>6. requests' = requests
  BY DEF Admit, LeaveSeller, LeaveBuyer, WriteSeller, Resume, WriteRow
\* An ad of the call's catalog, when that is the one the row links.
<1>7. ASSUME row'.catalog = k.cat, row'.status = "active" PROVE \A a \in k.scope : Current(k.arg, a)'
  BY <1>5, <1>7 DEF AdsOf, Current
<1>8. CASE Admit(c)
  <2> DEFINE sells == k.ask.lane = "seller"
  <2>1. PICK new : /\ new = [row EXCEPT !.status = "active", !.businessStatus = "active",
                                !.role = k.seen.role \union {k.ask.lane},
                                !.selfRemoved = FALSE, !.business = TRUE,
                                !.catalog = IF sells THEN k.cat ELSE @,
                                !.publishState = IF sells THEN "published" ELSE @]
                   /\ WriteRow(c, "admit", new)
    BY <1>1, <1>8 DEF Admit
  <2>2. /\ new.status = "active"
        /\ sells => new.catalog = k.cat
        /\ ~ sells => new.catalog = row.catalog
    BY <1>3, <2>1 DEF Row
  <2>3. Up(k, {"admit"}) /\ Asked(k)
    BY <1>1, <1>5, <2>1 DEF WriteRow, At, Up, Follows, Single
  <2>4. /\ k.ask.kind = "join"
        /\ sells => k.cat = k.ask.catalog /\ Tail(k.todo) # <<"settle">>
        /\ ~ sells => Tail(k.todo) = <<"settle">>
        /\ sells => Ads \subseteq k.on
    <3>1. k.ask.kind = "join"
      BY <1>5, <2>3 DEF Planned, Up
    <3> QED
      BY <1>5, <2>3, <3>1, ReachOf DEF Planned
  <2>5. Tail(k.todo) = <<"settle">> \/ Tail(k.todo) = <<"openAds", "stamp", "put", "settle">>
    BY <1>5, <2>3 DEF Follows, Up
  <2> HIDE DEF sells
  <2>6. ASSUME row' = new PROVE Relies(n)'
    <3>1. Joined(n.ask)'
      BY <1>5, <2>2, <2>4, <2>6 DEF Joined, sells
    <3>2. Up(n, {"settle", "openAds"}) /\ ~ Up(n, {"ask"})
      BY <1>5, <2>5, HeadOf DEF Up
    <3>3. Up(n, {"openAds"}) => sells
      BY <1>5, <2>4, <2>5, HeadOf DEF Up
    <3>4. k.req \in Requests /\ requests[k.req] \in {k.ask, Closed}
      BY <1>5, <2>3 DEF Relies, Up
    <3> QED
      BY <1>5, <1>6, <1>7, <2>2, <2>4, <2>6, <3>1, <3>2, <3>3, <3>4
         DEF Relies, Up, Linked, Removing, Publishing, Current
  <2> QED
    BY <1>1, <1>2, <2>1, <2>2, <2>4, <2>6, RowSound DEF RowSteps
<1>9. CASE LeaveSeller(c)
  <2>1. PICK new : new.catalog = Nothing /\ WriteRow(c, "leaveSeller", new)
    BY <1>3, <1>9 DEF LeaveSeller, Row
  <2>2. Up(k, {"leaveSeller"})
    BY <1>1, <2>1 DEF WriteRow, At, Up
  <2>3. /\ Asked(k) /\ k.ask.kind = "leave" /\ k.ask.lane = "seller"
        /\ Tail(k.todo) = <<"settle">> /\ Ads \subseteq k.on
    <3>1. Asked(k) /\ Tail(k.todo) = <<"settle">>
      BY <1>5, <2>2 DEF Up, Follows, Single
    <3> QED
      BY <1>5, <2>2, <3>1, ReachOf DEF Planned, Up
  <2>4. ASSUME row' = new PROVE Relies(n)'
    <3>1. Up(n, {"settle"}) /\ Head(n.todo) = "settle"
      BY <1>5, <2>3, HeadOf DEF Up
    <3>2. Gone(n.ask)'
      BY <1>5, <2>1, <2>3, <2>4 DEF Gone
    <3>3. k.req \in Requests /\ requests[k.req] \in {k.ask, Closed}
      BY <1>5, <2>2, <2>3 DEF Relies, Up
    <3> QED
      BY <1>5, <1>6, <2>3, <3>1, <3>2, <3>3 DEF Relies, Up, Linked, Removing, Publishing, Current
  <2> QED
    BY <1>1, <1>2, <2>1, <2>3, <2>4, RowSound DEF RowSteps
<1>10. CASE LeaveBuyer(c)
  <2>1. PICK new : new.catalog = row.catalog /\ ~ new.business /\ WriteRow(c, "leaveBuyer", new)
    BY <1>3, <1>10 DEF LeaveBuyer, Row
  <2>2. Up(k, {"leaveBuyer"})
    BY <1>1, <2>1 DEF WriteRow, At, Up
  <2>3. /\ Asked(k) /\ k.ask.kind = "leave" /\ k.ask.lane = "buyer"
        /\ Tail(k.todo) = <<"settle">> /\ Ads \subseteq k.on
    <3>1. Asked(k) /\ Tail(k.todo) = <<"settle">>
      BY <1>5, <2>2 DEF Up, Follows, Single
    <3> QED
      BY <1>5, <2>2, <3>1, ReachOf DEF Planned, Up
  <2>4. ASSUME row' = new PROVE Relies(n)'
    <3>1. Up(n, {"settle"}) /\ Head(n.todo) = "settle"
      BY <1>5, <2>3, HeadOf DEF Up
    <3>2. Gone(n.ask)'
      BY <1>5, <2>1, <2>3, <2>4 DEF Gone
    <3>3. k.req \in Requests /\ requests[k.req] \in {k.ask, Closed}
      BY <1>5, <2>2, <2>3 DEF Relies, Up
    <3> QED
      BY <1>5, <1>6, <2>3, <3>1, <3>2, <3>3 DEF Relies, Up, Linked, Removing, Publishing, Current
  <2> QED
    BY <1>1, <1>2, <2>1, <2>3, <2>4, RowSound DEF RowSteps
<1>11. CASE WriteSeller(c)
  <2>1. PICK new : new.catalog = k.cat /\ new.status = "active" /\ WriteRow(c, "addSeller", new)
    BY <1>1, <1>3, <1>11 DEF WriteSeller, Row
  <2>2. Up(k, {"addSeller"})
    BY <1>1, <2>1 DEF WriteRow, At, Up
  <2>3. ~ Asked(k) /\ Tail(k.todo) = <<"openAds", "stamp", "put">> /\ Ads \subseteq k.on
    <3>1. ~ Asked(k) /\ Tail(k.todo) = <<"openAds", "stamp", "put">>
      BY <1>5, <2>2 DEF Up, Follows, Single
    <3> QED
      BY <1>5, <2>2, <3>1, ReachOf DEF Up
  <2>4. ASSUME row' = new PROVE Relies(n)'
    <3>1. Up(n, {"openAds"}) /\ Head(n.todo) = "openAds"
      BY <1>5, <2>3, HeadOf DEF Up
    <3> QED
      BY <1>5, <1>7, <2>1, <2>3, <2>4, <3>1 DEF Relies, Up, Linked, Removing, Publishing, Current
  <2> QED
    BY <1>1, <1>2, <2>1, <2>3, <2>4, RowSound DEF RowSteps
<1>12. CASE Resume(c)
  <2>1. PICK new : /\ new.catalog = row.catalog /\ new.status = row.status
                   /\ WriteRow(c, "resume", new)
    BY <1>3, <1>12 DEF Resume, Row
  <2>2. Up(k, {"resume"})
    BY <1>1, <2>1 DEF WriteRow, At, Up
  <2>3. ~ Asked(k) /\ (Tail(k.todo) # <<>> => Tail(k.todo) = <<"stamp", "put">>)
    BY <1>5, <2>2 DEF Up, Follows, Single
  <2>4. ASSUME row' = new, Tail(k.todo) # <<>> PROVE Relies(n)'
    <3>1. Up(n, {"stamp"}) /\ Head(n.todo) = "stamp"
      BY <1>5, <2>3, <2>4, HeadOf DEF Up
    <3>2. disturbed' = disturbed
      BY <1>12 DEF Resume, WriteRow, Go, Stop
    <3>3. k.arg # "edit" => \A a \in k.scope \ disturbed : Current(k.arg, a)
      BY <1>5, <2>2, <2>4 DEF Relies, Publishing
    <3> QED
      BY <1>5, <2>1, <2>3, <2>4, <3>1, <3>2, <3>3 DEF Relies, Up, Linked, Removing, Publishing, Current
  <2> QED
    BY <1>1, <1>2, <2>1, <2>4, RowSound DEF RowSteps
<1> QED
  BY <1>8, <1>9, <1>10, <1>11, <1>12

-----------------------------------------------------------------------------
(* Steps that write the board *)

\* A step that writes the board.
LEMMA BoardGoSound ==
    ASSUME Inv, Sound, NEW c \in Calls, NEW k, k = call[c], k.todo # <<>>, Go(c),
           UNCHANGED <<row, requests>>, Shown' \subseteq Shown \union k.on,
           NEW n, After(k, n), Tail(k.todo) # <<>> => Relies(n)'
    PROVE  Sound'
<1>1. Touches(k.on)
  BY DEF Touches
<1> QED
  BY <1>1, GoSound

\* What call n relies on, while it is neither removing nor publishing nor deciding.
LEMMA Unconcerned ==
    ASSUME NEW n, ~ Up(n, {"ask", "addSeller", "unstamp", "leaveBuyer"}), ~ Removing(n),
           ~ Publishing(n),
           Asked(n) => /\ ~ Up(n, {"openAds", "stamp", "put", "settle"})
                       /\ n.req \in Requests /\ requests[n.req] \in {n.ask, Closed}
    PROVE  Relies(n)
BY DEF Relies, Linked, Up

LEMMA UnstampSound ==
    ASSUME Inv, Sound, NEW c \in Calls, Unstamp(c) PROVE Sound'
<1>1. PICK k : k = call[c]
  OBVIOUS
<1>2. PICK n : After(k, n)
  BY DEF After
<1>3. k.todo # <<>> /\ Head(k.todo) = "unstamp" /\ Go(c)
  BY <1>1 DEF Unstamp, At
<1>4. /\ Planned(k) /\ Relies(k) /\ Follows(Head(k.todo), Tail(k.todo), Asked(k))
      /\ n.todo = Tail(k.todo) /\ n.cat = k.cat /\ n.ask = k.ask
      /\ n.arg = k.arg /\ n.req = k.req /\ Asked(n) = Asked(k)
  BY <1>1, <1>2, <1>3, CallParts
<1>5. UNCHANGED <<row, requests, ads, open, disturbed>>
  BY <1>3 DEF Unstamp, Go
<1>6. \A a \in Ads : /\ pub'[a] = "published" => pub[a] = "published"
                     /\ a \in AdsOf(k.cat) => pub'[a] # "published"
  <2>1. CASE \E a \in AdsOf(k.cat) : pub[a] \in {"published", "paused"}
    BY <1>1, <2>1 DEF Unstamp
  <2>2. CASE ~ \E a \in AdsOf(k.cat) : pub[a] \in {"published", "paused"}
    BY <1>1, <2>2 DEF Unstamp
  <2> QED
    BY <2>1, <2>2
<1>7. Shown' \subseteq Shown /\ Shown' \intersect AdsOf(k.cat) = {}
  BY <1>5, <1>6 DEF Shown
<1>8. \/ Tail(k.todo) = <<"leaveSeller", "settle">>
      \/ \E x \in {"setStatus", "dropMember", "dropCatalog", "hide"} : Tail(k.todo) = <<x>>
  BY <1>3, <1>4 DEF Follows, Single
<1>9. n.todo # <<>> /\ Head(n.todo) \in {"leaveSeller", "setStatus", "dropMember", "dropCatalog", "hide"}
  BY <1>4, <1>8, HeadOf
<1>10. Asked(k) => k.req \in Requests /\ requests[k.req] \in {k.ask, Closed}
  BY <1>3, <1>4 DEF Relies, Up
<1>11. Relies(n)'
  <2>1. ~ (Ads \subseteq disturbed) => row.catalog = k.cat
    BY <1>3, <1>4 DEF Relies, Linked, Up
  <2> QED
    BY <1>4, <1>5, <1>7, <1>9, <1>10, <2>1 DEF Relies, Linked, Up, Publishing
<1> QED
  BY <1>1, <1>2, <1>3, <1>5, <1>7, <1>11, BoardGoSound

LEMMA HaltSound ==
    ASSUME Inv, Sound, NEW c \in Calls, Halt(c) PROVE Sound'
<1>1. PICK k : k = call[c]
  OBVIOUS
<1>2. PICK n : After(k, n)
  BY DEF After
<1>3. k.todo # <<>> /\ Head(k.todo) = "halt" /\ Go(c)
  BY <1>1 DEF Halt, At
<1>4. /\ Follows(Head(k.todo), Tail(k.todo), Asked(k))
      /\ n.todo = Tail(k.todo) /\ Asked(n) = Asked(k)
  BY <1>1, <1>2, <1>3, CallParts
<1>5. UNCHANGED <<row, requests, ads, open>> /\ \A a \in Ads : pub'[a] = "published" => pub[a] = "published"
  BY DEF Halt
<1>6. Shown' \subseteq Shown
  BY <1>5 DEF Shown
<1>7. Tail(k.todo) = <<"pause">> /\ ~ Asked(k)
  BY <1>3, <1>4 DEF Follows, Single
<1>8. n.todo # <<>> /\ Head(n.todo) = "pause" /\ ~ Asked(n)
  BY <1>4, <1>7, HeadOf
<1>9. Relies(n)'
  BY <1>8 DEF Relies, Up, Linked, Removing, Publishing, Current, Asked
<1> QED
  BY <1>1, <1>2, <1>3, <1>5, <1>6, <1>9, BoardGoSound

LEMMA OpenAdsSound ==
    ASSUME Inv, Sound, NEW c \in Calls, OpenAds(c) PROVE Sound'
<1>1. PICK k : k = call[c]
  OBVIOUS
<1>2. PICK n : After(k, n)
  BY DEF After
<1>3. k.todo # <<>> /\ Head(k.todo) = "openAds" /\ Go(c)
  BY <1>1 DEF OpenAds, At
<1>4. /\ Planned(k) /\ Relies(k) /\ Follows(Head(k.todo), Tail(k.todo), Asked(k))
      /\ n.todo = Tail(k.todo) /\ n.scope = k.scope /\ n.ask = k.ask
      /\ n.arg = k.arg /\ n.req = k.req /\ Asked(n) = Asked(k)
  BY <1>1, <1>2, <1>3, CallParts
<1>5. UNCHANGED <<row, requests, ads, pub, disturbed>>
  BY <1>3 DEF OpenAds, Go
<1>6. Shown' \subseteq Shown \union k.on
  BY <1>3, <1>4, ReachOf DEF Shown, Up
<1>7. Tail(k.todo) = <<"stamp", "put">> \/ (Asked(k) /\ Tail(k.todo) = <<"stamp", "put", "settle">>)
  BY <1>3, <1>4 DEF Follows, Single
<1>8. n.todo # <<>> /\ Head(n.todo) = "stamp"
  BY <1>4, <1>7, HeadOf
<1>9. Relies(n)'
  <2>1. Publishing(n) => \A a \in n.scope \ disturbed : Current(n.arg, a)
    BY <1>3, <1>4 DEF Relies, Publishing, Up
  <2>2. Asked(n) => /\ "row" \notin disturbed => Joined(n.ask)
                    /\ n.req \in Requests /\ requests[n.req] \in {n.ask, Closed}
    <3>1. Asked(k) => /\ "row" \notin disturbed => Joined(k.ask)
                      /\ k.req \in Requests /\ requests[k.req] \in {k.ask, Closed}
      BY <1>3, <1>4 DEF Relies, Up
    <3> QED
      BY <1>4, <3>1 DEF Joined
  <2> QED
    BY <1>5, <1>8, <2>1, <2>2 DEF Relies, Up, Linked, Removing, Publishing, Current, Joined, Asked
<1> QED
  BY <1>1, <1>2, <1>3, <1>5, <1>6, <1>9, BoardGoSound

LEMMA StampSound ==
    ASSUME Inv, Sound, NEW c \in Calls, Stamp(c) PROVE Sound'
<1>1. PICK k : k = call[c]
  OBVIOUS
<1>2. PICK chosen : chosen = {a \in k.scope : /\ ads[a] = "active" /\ a \in open
                                              /\ optOut[a] => k.arg = "force"}
  OBVIOUS
<1>3. PICK n : n = [k EXCEPT !.todo = Tail(@), !.scope = chosen,
                             !.new = {a \in chosen : pub[a] = "none"}]
  OBVIOUS
<1>4. k.todo # <<>> /\ Head(k.todo) = "stamp"
  BY <1>1 DEF Stamp, At
<1>5. PICK m : After(k, m)
  BY DEF After
<1>6. /\ k \in Call /\ Planned(k) /\ Relies(k) /\ Follows(Head(k.todo), Tail(k.todo), Asked(k))
  BY <1>1, <1>4, <1>5, CallParts
<1>7. /\ n.todo = Tail(k.todo) /\ n.scope \subseteq k.scope /\ n.ask = k.ask /\ n.cat = k.cat
      /\ n.arg = k.arg /\ n.req = k.req /\ n.on = k.on
  BY <1>2, <1>3, <1>6 DEF Call
<1>8. call' = [call EXCEPT ![c] = n] /\ UNCHANGED <<row, requests, ads, open, pub, disturbed>>
  BY <1>1, <1>2, <1>3, <1>6 DEF Stamp, boardVars, Inv, CallsTyped, Call
<1>9. Planned(n)
  BY <1>4, <1>6, <1>7, PlannedOn
<1>10. Touches(call[c].on)
  BY <1>8 DEF Touches, Shown
<1>11. \/ Asked(k) /\ Tail(k.todo) = <<"put", "settle">>
       \/ ~ Asked(k) /\ (Tail(k.todo) = <<"put">> \/ \E x : Tail(k.todo) = <<"put", x>>)
  BY <1>4, <1>6 DEF Follows, Single
<1>12. n.todo # <<>> /\ Head(n.todo) = "put" /\ Asked(n) = Asked(k)
  <2>1. n.todo = <<"put", "settle">> \/ n.todo = <<"put">> \/ \E x : n.todo = <<"put", x>>
    BY <1>7, <1>11
  <2> QED
    BY <1>7, <2>1, HeadOf DEF Asked
<1>13. Relies(n)'
  <2>1. Publishing(n) => \A a \in n.scope \ disturbed : Current(n.arg, a)
    BY <1>4, <1>6, <1>7 DEF Relies, Publishing, Up
  <2>2. Asked(n) => /\ "row" \notin disturbed => Joined(n.ask)
                    /\ n.req \in Requests /\ requests[n.req] \in {n.ask, Closed}
    <3>1. Asked(k) => /\ "row" \notin disturbed => Joined(k.ask)
                      /\ k.req \in Requests /\ requests[k.req] \in {k.ask, Closed}
      BY <1>4, <1>6 DEF Relies, Up
    <3> QED
      BY <1>7, <1>12, <3>1 DEF Joined
  <2> QED
    BY <1>8, <1>12, <2>1, <2>2 DEF Relies, Up, Linked, Removing, Publishing, Current, Joined, Asked
<1> QED
  BY <1>7, <1>1, <1>8, <1>9, <1>10, <1>13, SlotSound

\* A publication step is over, and the call goes on.
LEMMA PutGoes ==
    ASSUME Inv, Sound, NEW c \in Calls, At(c, "put"), Go(c), UNCHANGED <<row, requests>>,
           Shown' \subseteq Shown \union call[c].scope
    PROVE  Sound'
<1>1. PICK k : k = call[c]
  OBVIOUS
<1>2. PICK n : After(k, n)
  BY DEF After
<1>3. k.todo # <<>> /\ Head(k.todo) = "put" /\ disturbed' = disturbed
  BY <1>1 DEF At, Go
<1>4. /\ Planned(k) /\ Relies(k) /\ Follows(Head(k.todo), Tail(k.todo), Asked(k))
      /\ k.scope \subseteq k.on
      /\ n.todo = Tail(k.todo) /\ n.ask = k.ask
      /\ n.arg = k.arg /\ n.req = k.req /\ Asked(n) = Asked(k)
  BY <1>1, <1>2, <1>3, CallParts
<1>5. ASSUME Tail(k.todo) # <<>> PROVE Relies(n)'
  <2>1. CASE Asked(k)
    <3>1. n.todo = <<"settle">>
      BY <1>3, <1>4, <2>1 DEF Follows
    <3>2. n.todo # <<>> /\ Head(n.todo) = "settle"
      BY <3>1, HeadOf
    <3>3. k.ask.kind = "join"
      BY <1>3, <1>4, <2>1 DEF Planned, Up
    <3>4. /\ "row" \notin disturbed => Joined(k.ask)
          /\ k.req \in Requests /\ requests[k.req] \in {k.ask, Closed}
      BY <1>3, <1>4, <2>1 DEF Relies, Up
    <3>5. "row" \notin disturbed => Joined(n.ask)
      BY <1>4, <3>4 DEF Joined
    <3> QED
      BY <1>3, <1>4, <3>2, <3>3, <3>4, <3>5 DEF Relies, Up, Linked, Removing, Publishing, Current, Joined
  <2>2. CASE ~ Asked(k)
    <3>1. Tail(k.todo) \in {<<"setStatus">>, <<"show">>}
      BY <1>3, <1>4, <1>5, <2>2 DEF Follows, Single
    <3>2. Tail(k.todo) = <<"setStatus">> => k.arg = "active"
      BY <1>3, <1>4 DEF Planned, Up
    <3>3. CASE n.todo = <<"setStatus">>
      <4>1. n.todo # <<>> /\ Head(n.todo) = "setStatus"
        BY <3>3, HeadOf
      <4>2. n.arg = "active"
        BY <1>4, <3>2, <3>3
      <4> QED
        BY <1>4, <2>2, <4>1, <4>2 DEF Relies, Up, Linked, Removing, Publishing, Current, Asked
    <3>4. CASE n.todo = <<"show">>
      <4>1. n.todo # <<>> /\ Head(n.todo) = "show"
        BY <3>4, HeadOf
      <4> QED
        BY <1>4, <2>2, <4>1 DEF Relies, Up, Linked, Removing, Publishing, Current, Asked
    <3> QED
      BY <1>4, <3>1, <3>3, <3>4
  <2> QED
    BY <2>1, <2>2
<1> QED
  BY <1>1, <1>2, <1>3, <1>4, <1>5, BoardGoSound

LEMMA PutSound ==
    ASSUME Inv, Sound, NEW c \in Calls, Put(c) \/ PutFails(c) PROVE Sound'
<1>1. CASE Put(c)
  <2>1. Shown' \subseteq Shown \union call[c].scope
    BY <1>1 DEF Put, Shown
  <2> QED
    BY <1>1, <2>1, PutGoes DEF Put
<1>2. CASE PutFails(c) /\ Go(c)
  <2>1. UNCHANGED <<row, requests, ads, open, pub>>
    BY <1>2 DEF PutFails, boardVars
  <2>2. Shown' = Shown
    BY <2>1 DEF Shown
  <2> QED
    BY <1>2, <2>1, <2>2, PutGoes DEF PutFails
<1>3. CASE PutFails(c) /\ Stop(c)
  BY <1>3, StopSound DEF PutFails
<1> QED
  BY <1>1, <1>2, <1>3 DEF PutFails

LEMMA FindMarketSound ==
    ASSUME Inv, Sound, NEW c \in Calls, FindMarket(c) PROVE Sound'
<1>1. PICK k : k = call[c]
  OBVIOUS
<1>2. PICK m : After(k, m)
  BY DEF After
<1>3. k.todo # <<>> /\ Head(k.todo) = "findMarket" /\ UNCHANGED <<row, requests, ads, open, pub, disturbed>>
  BY <1>1 DEF FindMarket, At, boardVars, Go
<1>4. /\ k \in Call /\ Follows(Head(k.todo), Tail(k.todo), Asked(k)) /\ k.scope \subseteq AdsOf(k.cat)
  BY <1>1, <1>2, <1>3, CallParts
<1>5. Tail(k.todo) = <<>> /\ ~ Asked(k)
  BY <1>3, <1>4 DEF Follows, Single
<1>6. Shown' = Shown
  BY <1>3 DEF Shown
<1>7. CASE Go(c)
  BY <1>1, <1>2, <1>3, <1>5, <1>6, <1>7, BoardGoSound
<1>8. CASE ~ Go(c)
  <2>1. PICK n : n = [k EXCEPT !.todo = <<"stamp", "put">>]
    OBVIOUS
  <2>2. call' = [call EXCEPT ![c] = n] /\ row.catalog = k.cat /\ row.status = "active"
    BY <1>1, <1>8, <2>1 DEF FindMarket
  <2>3. /\ n.todo = <<"stamp", "put">> /\ n.scope = k.scope /\ n.cat = k.cat
        /\ n.on = k.on /\ ~ Asked(n)
    BY <1>4, <1>5, <2>1 DEF Call, Asked
  <2>4. n.todo # <<>> /\ Head(n.todo) = "stamp" /\ Tail(n.todo) = <<"put">>
    BY <2>3, Lists
  <2>5. <<"put">> # <<"put", "setStatus">>
    OBVIOUS
  <2>6. Planned(n)
    BY <1>4, <2>3, <2>4, <2>5 DEF Planned, Follows, Reaches, AdLists, Up
  <2>7. Relies(n)'
    BY <1>3, <1>4, <2>2, <2>3, <2>4 DEF Relies, Up, Linked, Removing, Publishing, Current, AdsOf, Asked
  <2>8. Touches(call[c].on)
    BY <1>3, <1>6 DEF Touches
  <2> QED
    BY <1>1, <1>3, <2>2, <2>3, <2>6, <2>7, <2>8, SlotSound
<1> QED
  BY <1>7, <1>8

LEMMA CutSound ==
    ASSUME Inv, Sound, NEW c \in Calls, Cut(c) PROVE Sound'
BY StopSound DEF Cut

LEMMA CloseSound ==
    ASSUME Inv, Sound, NEW c \in Calls, Close(c) PROVE Sound'
<1>1. PICK k : k = call[c]
  OBVIOUS
<1>2. PICK n : After(k, n)
  BY DEF After
<1>3. k.todo # <<>> /\ Head(k.todo) = "close" /\ Go(c) /\ UNCHANGED <<row, requests, ads, open, pub>>
  BY <1>1 DEF Close, At, boardVars
<1>4. /\ Follows(Head(k.todo), Tail(k.todo), Asked(k))
      /\ n.todo = Tail(k.todo) /\ Asked(n) = Asked(k)
  BY <1>1, <1>2, <1>3, CallParts
<1>5. Tail(k.todo) = <<"release">> /\ ~ Asked(k)
  BY <1>3, <1>4 DEF Follows, Single
<1>6. n.todo # <<>> /\ Head(n.todo) = "release" /\ ~ Asked(n)
  BY <1>4, <1>5, HeadOf
<1>7. Relies(n)'
  BY <1>6 DEF Relies, Up, Linked, Removing, Publishing, Current, Asked
<1>8. Shown' = Shown
  BY <1>3 DEF Shown
<1> QED
  BY <1>1, <1>2, <1>3, <1>7, <1>8, BoardGoSound

LEMMA RequestStepSound ==
    ASSUME Inv, Sound, NEW c \in Calls, WriteAsk(c) \/ WriteShut(c) \/ Settle(c) PROVE Sound'
<1>1. PICK k : k = call[c]
  OBVIOUS
<1>2. PICK n : After(k, n)
  BY DEF After
<1>3. /\ k.todo # <<>> /\ Head(k.todo) \in {"ask", "shut", "settle"} /\ Go(c)
      /\ UNCHANGED <<row, ads, open, pub>>
  BY <1>1 DEF WriteAsk, WriteShut, Settle, At, boardVars
<1>4. Planned(k) /\ Relies(k) /\ disturbed' = disturbed
  BY <1>1, <1>2, <1>3, CallParts DEF Go
<1>5. Tail(k.todo) = <<>>
  BY <1>3, <1>4, LastStep DEF Up, Single
<1>6. Shown' = Shown
  BY <1>3 DEF Shown
<1>7. requests \in [Requests -> Request]
  BY DEF Inv, TypeOK
<1>8. CASE WriteAsk(c)
  <2>1. PICK r \in Requests : /\ requests[r] = Closed /\ \A d \in Calls : call[d].req # r
                              /\ requests' = [requests EXCEPT ![r] = k.ask]
    BY <1>1, <1>8 DEF WriteAsk
  <2>2. Touches(k.on)
    BY <1>3, <1>6, <1>7, <2>1 DEF Touches
  <2> QED
    BY <1>1, <1>2, <1>3, <1>5, <2>2, GoSound
<1>9. CASE WriteShut(c) \/ Settle(c)
  <2>1. requests' = [requests EXCEPT ![k.req] = Closed]
    BY <1>1, <1>9 DEF WriteShut, Settle
  <2>2. \A r \in Requests : requests'[r] \in {requests[r], Closed}
    BY <1>7, <2>1
  <2>3. Touches(k.on)
    BY <1>3, <1>6, <2>2 DEF Touches
  <2> QED
    BY <1>1, <1>2, <1>3, <1>5, <2>3, GoSound
<1> QED
  BY <1>8, <1>9

-----------------------------------------------------------------------------
(* Calls that begin *)

LEMMA JoinEmpty ==
    ASSUME NEW x PROVE <<>> \o <<x>> = <<x>> /\ <<x>> \o <<>> = <<x>>
<1>1. <<x>> \in Seq({x})
  OBVIOUS
<1> QED
  BY <1>1, ConcatEmptySeq

LEMMA CatalogCall ==
    ASSUME Inv, NEW k \in Catalogs \union {Nothing},
           NEW arg \in {"none", "active", "paused", "banned", "removed", "confirmed"},
           NEW q, q = [OnCatalog(k) EXCEPT !.arg = arg] \/ (q = OnCatalog(k) /\ arg = "none")
    PROVE  /\ q \in Call /\ q.cat = k /\ q.scope = AdsOf(k) /\ q.on = {"row"} \union Ads
           /\ q.ask = Closed /\ q.arg = arg
<1>1. PICK p : p = Reading({"row"} \union Ads)
  OBVIOUS
<1>2. p \in Call /\ p.on = {"row"} \union Ads /\ p.ask = Closed /\ p.arg = "none"
  <2>1. {"row"} \union Ads \in SUBSET Things
    BY DEF Things
  <2> QED
    BY <1>1, <2>1, ReadingTyped DEF Reading, Idle
<1>3. PICK o : o = OnCatalog(k)
  OBVIOUS
<1>4. o = [p EXCEPT !.cat = k, !.scope = AdsOf(k)]
  BY <1>1, <1>3 DEF OnCatalog
<1>5. /\ o \in Call /\ o.cat = k /\ o.scope = AdsOf(k) /\ o.on = {"row"} \union Ads
      /\ o.ask = Closed /\ o.arg = "none"
  <2>1. AdsOf(k) \subseteq Ads
    BY DEF AdsOf
  <2> QED
    BY <1>2, <1>4, <2>1 DEF Call
<1>6. q = [o EXCEPT !.arg = arg] \/ (q = o /\ arg = "none")
  BY <1>3
<1> QED
  BY <1>5, <1>6 DEF Call

\* A call about a catalog begins.
LEMMA CatalogBegins ==
    ASSUME Inv, Sound, NEW c \in Calls, NEW k \in Catalogs \union {Nothing},
           NEW arg \in {"none", "active", "paused", "banned", "removed", "confirmed"},
           NEW q, q = [OnCatalog(k) EXCEPT !.arg = arg] \/ (q = OnCatalog(k) /\ arg = "none"),
           NEW todo, Begin(c, q, todo), todo # <<>>, Follows(Head(todo), Tail(todo), FALSE),
           Head(todo) \notin {"dropCatalog", "leaveSeller", "hide", "put", "openAds"},
           Head(todo) \in {"unstamp", "dropMember", "setStatus"} => row.catalog = k,
           Head(todo) = "dropMember" => k = Nothing,
           Head(todo) = "setStatus" => k = Nothing \/ arg = "active",
           Head(todo) = "stamp" \/ (Head(todo) = "resume" /\ Tail(todo) # <<>>)
              => row.catalog = k /\ (arg # "active" => row.status = "active"),
           Head(todo) = "stamp" /\ Tail(todo) = <<"put", "setStatus">> => arg = "active",
           Head(todo) = "addSeller" => row.catalog \in {k, Nothing}
    PROVE  Sound'
<1>1. /\ q \in Call /\ q.cat = k /\ q.scope = AdsOf(k) /\ q.on = {"row"} \union Ads
      /\ q.ask = Closed /\ q.arg = arg
  BY CatalogCall
<1>2. PICK n : n = [q EXCEPT !.todo = todo]
  OBVIOUS
<1>3. /\ n.cat = k /\ n.scope = AdsOf(k) /\ n.on = {"row"} \union Ads /\ n.arg = arg
      /\ n.todo = todo /\ ~ Asked(n)
  BY <1>1, <1>2 DEF Call, Asked, Closed
<1>4. Head(todo) \notin {"ask", "admit", "leaveBuyer"}
  BY DEF Follows, Single
<1>5. Planned(n)
  <2>1. Follows(Head(n.todo), Tail(n.todo), Asked(n))
    BY <1>3 DEF Follows
  <2> QED
    BY <1>3, <1>4, <2>1 DEF Planned, Reaches, Up
<1>6. Relies(n)
  <2>1. \A a \in AdsOf(k) : a \in Ads /\ CatalogOf[a] = k /\ k # Nothing
    BY CatalogOfAssumption, NothingAssumption DEF AdsOf
  <2>2. Removing(n) => Shown \intersect AdsOf(n.cat) \subseteq disturbed
    <3>1. Removing(n) => k = Nothing
      BY <1>3 DEF Removing, Up
    <3>2. k = Nothing => AdsOf(k) = {}
      BY <2>1
    <3> QED
      BY <1>3, <3>1, <3>2
  <2>3. Publishing(n) => \A a \in n.scope \ disturbed : Current(n.arg, a)
    BY <1>3, <2>1 DEF Publishing, Current, Up
  <2>4. Linked(n)
    BY <1>3, <1>4 DEF Linked, Removing, Up
  <2> QED
    BY <1>3, <1>4, <2>2, <2>3, <2>4 DEF Relies, Up
<1> QED
  BY <1>1, <1>2, <1>5, <1>6, BeginSound

LEMMA RowCall ==
    ASSUME Inv, NEW arg \in {"none", "buyer", "seller"},
           NEW q, q = [OnRow EXCEPT !.arg = arg] \/ q = OnRow
    PROVE  q \in Call /\ q.scope = {} /\ q.on = {"row"} /\ q.ask = Closed
<1>1. PICK p : p = OnRow
  OBVIOUS
<1>2. p \in Call /\ p.scope = {} /\ p.on = {"row"} /\ p.ask = Closed
  <2>1. {"row"} \in SUBSET Things
    BY DEF Things
  <2> QED
    BY <1>1, <2>1, ReadingTyped DEF OnRow, Reading, Idle
<1>3. q = [p EXCEPT !.arg = arg] \/ q = p
  BY <1>1
<1> QED
  BY <1>2, <1>3 DEF Call

\* A call that only writes the row begins.
LEMMA RowBegins ==
    ASSUME Inv, Sound, NEW c \in Calls, NEW arg \in {"none", "buyer", "seller"},
           NEW q, q = [OnRow EXCEPT !.arg = arg] \/ q = OnRow,
           NEW step \in {"addBuyer", "appoint", "dismiss", "pause", "resume", "join"},
           Begin(c, q, <<step>>)
    PROVE  Sound'
<1>1. q \in Call /\ q.scope = {} /\ q.on = {"row"} /\ q.ask = Closed
  BY RowCall
<1>2. PICK n : n = [q EXCEPT !.todo = <<step>>]
  OBVIOUS
<1>3. n.scope = {} /\ n.on = {"row"} /\ n.todo = <<step>> /\ ~ Asked(n)
  BY <1>1, <1>2 DEF Call, Asked, Closed
<1>4. n.todo # <<>> /\ Head(n.todo) = step /\ Tail(n.todo) = <<>>
  BY <1>3, Lists
<1>5. <<>> # <<"put", "setStatus">> /\ <<>> # <<"setStatus">>
  OBVIOUS
<1>6. n.todo \in RowLists
  BY <1>3 DEF RowLists
<1>7. Planned(n)
  BY <1>3, <1>4, <1>5, <1>6 DEF Planned, Reaches, Up, Follows, Single
<1>8. Relies(n)
  BY <1>3, <1>4 DEF Relies, Up, Linked, Removing, Publishing, Current, Asked
<1> QED
  BY <1>1, <1>2, <1>7, <1>8, BeginSound

LEMMA ManagingSound ==
    ASSUME Inv, Sound, NEW c \in Calls,
           \/ \E status \in {"active", "paused", "banned", "removed"} : SetStatus(c, status)
           \/ RemoveMember(c)
           \/ \E k \in Catalogs, arg \in {"none", "confirmed"} : AddSeller(c, k, arg)
           \/ AddBuyer(c) \/ PauseCatalog(c) \/ ResumeCatalog(c)
           \/ \E step \in {"pause", "resume"} : SetBuyerPaused(c, step)
           \/ RemoveCatalog(c) \/ RemoveBuyer(c) \/ Appoint(c) \/ Dismiss(c)
    PROVE  Sound'
<1>1. row.catalog \in Catalogs \union {Nothing}
  BY DEF Inv, TypeOK, Row
<1>2. PICK k \in Catalogs \union {Nothing} : k = row.catalog
  BY <1>1
<1>3. ASSUME NEW status \in {"active", "paused", "banned", "removed"}, SetStatus(c, status) PROVE Sound'
  <2>1. PICK q : q = [OnCatalog(k) EXCEPT !.arg = status]
    OBVIOUS
  <2>2. PICK todo : /\ todo = (IF k = Nothing THEN <<>>
                               ELSE IF status # "active" THEN <<"unstamp">>
                               ELSE If(row.publishState = "published", <<"stamp", "put">>))
                              \o <<"setStatus">>
                    /\ Begin(c, q, todo)
    BY <1>2, <1>3, <2>1 DEF SetStatus
  <2>3. \/ k = Nothing /\ todo = <<"setStatus">>
        \/ status = "active" /\ todo = <<"setStatus">>
        \/ todo = <<"unstamp", "setStatus">>
        \/ status = "active" /\ todo = <<"stamp", "put", "setStatus">>
    <3>1. /\ <<"unstamp", "setStatus">> = <<"unstamp">> \o <<"setStatus">>
          /\ <<"stamp", "put", "setStatus">> = <<"stamp", "put">> \o <<"setStatus">>
      OBVIOUS
    <3> QED
      BY <2>2, <3>1, JoinEmpty DEF If
  <2>4. CASE (k = Nothing \/ status = "active") /\ todo = <<"setStatus">>
    <3>1. todo # <<>> /\ Head(todo) = "setStatus" /\ Tail(todo) = <<>>
      BY <2>4, Lists
    <3>2. Follows(Head(todo), Tail(todo), FALSE)
      BY <3>1 DEF Follows, Single
    <3> QED
      BY <1>2, <2>1, <2>2, <2>4, <3>1, <3>2, CatalogBegins
  <2>5. CASE todo = <<"unstamp", "setStatus">>
    <3>1. todo # <<>> /\ Head(todo) = "unstamp" /\ Tail(todo) = <<"setStatus">>
      BY <2>5, Lists
    <3>2. Follows(Head(todo), Tail(todo), FALSE)
      BY <3>1 DEF Follows
    <3> QED
      BY <1>2, <2>1, <2>2, <3>1, <3>2, CatalogBegins
  <2>6. CASE status = "active" /\ todo = <<"stamp", "put", "setStatus">>
    <3>1. todo # <<>> /\ Head(todo) = "stamp" /\ Tail(todo) = <<"put", "setStatus">>
      BY <2>6, Lists
    <3>2. Follows(Head(todo), Tail(todo), FALSE)
      BY <3>1 DEF Follows
    <3> QED
      BY <1>2, <2>1, <2>2, <2>6, <3>1, <3>2, CatalogBegins
  <2> QED
    BY <2>3, <2>4, <2>5, <2>6
<1>4. CASE RemoveMember(c)
  <2>1. PICK q : q = OnCatalog(k)
    OBVIOUS
  <2>2. PICK todo : /\ todo = If(k # Nothing, <<"unstamp">>) \o <<"dropMember">>
                    /\ Begin(c, q, todo)
    BY <1>2, <1>4, <2>1 DEF RemoveMember
  <2>3. todo = <<"unstamp", "dropMember">> \/ (k = Nothing /\ todo = <<"dropMember">>)
    <3>1. <<"unstamp", "dropMember">> = <<"unstamp">> \o <<"dropMember">>
      OBVIOUS
    <3> QED
      BY <2>2, <3>1, JoinEmpty DEF If
  <2>4. CASE todo = <<"unstamp", "dropMember">>
    <3>1. todo # <<>> /\ Head(todo) = "unstamp" /\ Tail(todo) = <<"dropMember">>
      BY <2>4, Lists
    <3>2. Follows(Head(todo), Tail(todo), FALSE)
      BY <3>1 DEF Follows
    <3> QED
      BY <1>2, <2>1, <2>2, <3>1, <3>2, CatalogBegins
  <2>5. CASE k = Nothing /\ todo = <<"dropMember">>
    <3>1. todo # <<>> /\ Head(todo) = "dropMember" /\ Tail(todo) = <<>>
      BY <2>5, Lists
    <3>2. Follows(Head(todo), Tail(todo), FALSE)
      BY <3>1 DEF Follows, Single
    <3> QED
      BY <1>2, <2>1, <2>2, <2>5, <3>1, <3>2, CatalogBegins
  <2> QED
    BY <2>3, <2>4, <2>5
<1>5. ASSUME NEW l \in Catalogs, NEW arg \in {"none", "confirmed"}, AddSeller(c, l, arg) PROVE Sound'
  <2>1. PICK q : q = [OnCatalog(l) EXCEPT !.arg = arg]
    OBVIOUS
  <2>2. PICK todo : todo = <<"addSeller", "openAds", "stamp", "put">>
    OBVIOUS
  <2>3. Begin(c, q, todo) /\ row.catalog \in {l, Nothing}
    BY <1>5, <2>1, <2>2 DEF AddSeller
  <2>4. todo # <<>> /\ Head(todo) = "addSeller" /\ Tail(todo) = <<"openAds", "stamp", "put">>
    BY <2>2, Lists
  <2>5. Follows(Head(todo), Tail(todo), FALSE)
    BY <2>4 DEF Follows
  <2> QED
    BY <2>1, <2>3, <2>4, <2>5, CatalogBegins
<1>6. CASE PauseCatalog(c) \/ RemoveCatalog(c)
  <2>1. PICK q : q = OnCatalog(k)
    OBVIOUS
  <2>2. PICK x \in {"halt", "unstamp"}, y \in {"pause", "dropCatalog"} :
            Begin(c, q, <<x, y>>) /\ (x = "halt" => y = "pause") /\ (x = "unstamp" => y = "dropCatalog")
    BY <1>2, <1>6, <2>1 DEF PauseCatalog, RemoveCatalog
  <2>3. PICK todo : todo = <<x, y>>
    OBVIOUS
  <2>4. todo # <<>> /\ Head(todo) = x /\ Tail(todo) = <<y>>
    BY <2>3, Lists
  <2>5. Follows(x, <<y>>, FALSE)
    BY <2>2 DEF Follows
  <2> QED
    BY <1>2, <2>1, <2>2, <2>3, <2>4, <2>5, CatalogBegins
<1>7. CASE ResumeCatalog(c)
  <2>1. PICK q : q = [OnCatalog(k) EXCEPT !.arg = "active"]
    OBVIOUS
  <2>2. PICK todo : /\ todo = <<"resume">> \o If(row.publishState = "published", <<"stamp", "put">>)
                    /\ Begin(c, q, todo)
    BY <1>2, <1>7, <2>1 DEF ResumeCatalog
  <2>3. todo = <<"resume", "stamp", "put">> \/ todo = <<"resume">>
    <3>1. <<"resume", "stamp", "put">> = <<"resume">> \o <<"stamp", "put">>
      OBVIOUS
    <3> QED
      BY <2>2, <3>1, JoinEmpty DEF If
  <2>4. todo # <<>> /\ Head(todo) = "resume" /\ (Tail(todo) = <<>> \/ Tail(todo) = <<"stamp", "put">>)
    <3>1. CASE todo = <<"resume">>
      BY <3>1, Lists
    <3>2. CASE todo = <<"resume", "stamp", "put">>
      BY <3>2, Lists
    <3> QED
      BY <2>3, <3>1, <3>2
  <2>5. Follows(Head(todo), Tail(todo), FALSE)
    BY <2>4 DEF Follows, Single
  <2>6. Begin(c, q, todo) /\ todo # <<>> /\ Head(todo) = "resume" /\ row.catalog = k
    BY <1>2, <2>2, <2>4
  <2> QED
    BY <2>1, <2>5, <2>6, CatalogBegins
<1>8. CASE RemoveBuyer(c)
  <2>1. PICK todo : todo = <<"dropBuyer">>
    OBVIOUS
  <2>2. todo # <<>> /\ Head(todo) = "dropBuyer" /\ Tail(todo) = <<>>
    BY <2>1, Lists
  <2>3. Follows(Head(todo), Tail(todo), FALSE)
    BY <2>2 DEF Follows, Single
  <2>4. PICK q : q = OnCatalog(k) /\ Begin(c, q, todo)
    BY <1>2, <1>8, <2>1 DEF RemoveBuyer
  <2> QED
    BY <1>1, <2>2, <2>3, <2>4, CatalogBegins
<1>9. CASE \/ AddBuyer(c) \/ Appoint(c) \/ Dismiss(c)
           \/ \E step \in {"pause", "resume"} : SetBuyerPaused(c, step)
  <2>1. PICK step \in {"addBuyer", "appoint", "dismiss", "pause", "resume"} :
            Begin(c, OnRow, <<step>>)
    BY <1>9 DEF AddBuyer, Appoint, Dismiss, SetBuyerPaused
  <2> QED
    BY <2>1, RowBegins
<1> QED
  BY <1>3, <1>4, <1>5, <1>6, <1>7, <1>8, <1>9

LEMMA BelongingSound ==
    ASSUME Inv, Sound, NEW c \in Calls,
           \/ \E arg \in {"none", "buyer", "seller"} : Join(c, arg)
           \/ \E k \in Catalogs : CloseCatalog(c, k)
           \/ Publish(c) \/ Unpublish(c)
    PROVE  Sound'
<1>1. PICK k \in Catalogs \union {Nothing} : k = row.catalog
  BY DEF Inv, TypeOK, Row
<1>2. ASSUME NEW arg \in {"none", "buyer", "seller"}, Join(c, arg) PROVE Sound'
  BY <1>2, RowBegins DEF Join
<1>3. ASSUME NEW l \in Catalogs, CloseCatalog(c, l) PROVE Sound'
  <2>1. PICK todo : todo = <<"close", "release">>
    OBVIOUS
  <2>2. todo # <<>> /\ Head(todo) = "close" /\ Tail(todo) = <<"release">>
    BY <2>1, Lists
  <2>3. Follows(Head(todo), Tail(todo), FALSE)
    BY <2>2 DEF Follows
  <2>4. PICK q : q = OnCatalog(l) /\ Begin(c, q, todo)
    BY <1>3, <2>1 DEF CloseCatalog
  <2> QED
    BY <1>1, <2>2, <2>3, <2>4, CatalogBegins
<1>4. CASE Publish(c)
  <2>1. PICK todo : todo = <<"stamp", "put", "show">>
    OBVIOUS
  <2>2. todo # <<>> /\ Head(todo) = "stamp" /\ Tail(todo) = <<"put", "show">>
    BY <2>1, Lists
  <2>3. Follows(Head(todo), Tail(todo), FALSE)
    BY <2>2 DEF Follows
  <2>4. PICK q : q = OnCatalog(k) /\ Begin(c, q, todo) /\ row.status = "active"
    BY <1>1, <1>4, <2>1 DEF Publish
  <2>5. <<"put", "show">> # <<"put", "setStatus">>
    OBVIOUS
  <2> QED
    BY <1>1, <2>2, <2>3, <2>4, <2>5, CatalogBegins
<1>5. CASE Unpublish(c)
  <2>1. PICK todo : todo = <<"unstamp", "hide">>
    OBVIOUS
  <2>2. todo # <<>> /\ Head(todo) = "unstamp" /\ Tail(todo) = <<"hide">>
    BY <2>1, Lists
  <2>3. Follows(Head(todo), Tail(todo), FALSE)
    BY <2>2 DEF Follows
  <2>4. PICK q : q = OnCatalog(k) /\ Begin(c, q, todo)
    BY <1>1, <1>5, <2>1 DEF Unpublish
  <2> QED
    BY <1>1, <2>2, <2>3, <2>4, CatalogBegins
<1> QED
  BY <1>2, <1>3, <1>4, <1>5

LEMMA AskSound ==
    ASSUME Inv, Sound, NEW c \in Calls, NEW lane \in Lanes, NEW k \in Catalogs \union {Nothing},
           RequestMembership(c, lane, k) \/ RequestLeave(c, lane)
    PROVE  Sound'
<1>1. PICK p : p = Reading({})
  OBVIOUS
<1>2. p \in Call /\ p.scope = {} /\ p.on = {}
  <2>1. {} \in SUBSET Things
    BY DEF Things
  <2> QED
    BY <1>1, <2>1, ReadingTyped
<1>3. PICK kind \in {"join", "leave"}, of \in Catalogs \union {Nothing} :
          Begin(c, [p EXCEPT !.ask = [kind |-> kind, lane |-> lane, catalog |-> of]], <<"ask">>)
  BY <1>1 DEF RequestMembership, RequestLeave
<1>4. PICK q : q = [p EXCEPT !.ask = [kind |-> kind, lane |-> lane, catalog |-> of]]
  OBVIOUS
<1>5. q \in Call /\ q.scope = {} /\ q.on = {} /\ q.ask.kind = kind
  BY <1>2, <1>4 DEF Call, Request
<1>6. PICK n : n = [q EXCEPT !.todo = <<"ask">>]
  OBVIOUS
<1>7. /\ n.scope = {} /\ n.on = {} /\ n.todo = <<"ask">> /\ n.ask.kind = kind
  BY <1>5, <1>6 DEF Call
<1>8. n.todo # <<>> /\ Head(n.todo) = "ask" /\ Tail(n.todo) = <<>>
  BY <1>7, Lists
<1>9. Asked(n)
  BY <1>7 DEF Asked
<1>10. Planned(n)
  <2>1. Follows(Head(n.todo), Tail(n.todo), Asked(n))
    BY <1>8, <1>9 DEF Follows
  <2>2. Reaches(n)
    BY <1>7 DEF Reaches, AdLists
  <2> QED
    BY <1>7, <1>8, <2>1, <2>2 DEF Planned, Up
<1>11. Relies(n)
  BY <1>3, <1>7, <1>8 DEF Relies, Up, Linked, Removing, Publishing, Current
<1> QED
  BY <1>3, <1>4, <1>5, <1>6, <1>10, <1>11, BeginSound

LEMMA ShutSound ==
    ASSUME Inv, Sound, NEW c \in Calls, NEW r \in Requests, Shut(c, r)
    PROVE  Sound'
<1>1. PICK p : p = Reading({r})
  OBVIOUS
<1>2. p \in Call /\ p.scope = {} /\ p.on = {r} /\ p.ask = Closed
  <2>1. {r} \in SUBSET Things
    BY DEF Things
  <2> QED
    BY <1>1, <2>1, ReadingTyped DEF Reading, Idle
<1>3. PICK q : q = [p EXCEPT !.req = r]
  OBVIOUS
<1>4. q \in Call /\ q.scope = {} /\ q.ask = Closed
  BY <1>2, <1>3 DEF Call
<1>5. PICK n : n = [q EXCEPT !.todo = <<"shut">>]
  OBVIOUS
<1>6. n.scope = {} /\ n.todo = <<"shut">> /\ ~ Asked(n)
  BY <1>4, <1>5 DEF Call, Asked, Closed
<1>7. n.todo # <<>> /\ Head(n.todo) = "shut" /\ Tail(n.todo) = <<>>
  BY <1>6, Lists
<1>8. Planned(n)
  <2>1. Follows(Head(n.todo), Tail(n.todo), Asked(n))
    BY <1>6, <1>7 DEF Follows, Single
  <2>2. Reaches(n)
    BY <1>6 DEF Reaches, AdLists
  <2> QED
    BY <1>6, <1>7, <2>1, <2>2 DEF Planned, Up
<1>9. Relies(n)
  BY <1>6, <1>7 DEF Relies, Up, Linked, Removing, Publishing, Current
<1> QED
  BY <1>1, <1>3, <1>4, <1>5, <1>8, <1>9, BeginSound DEF Shut

LEMMA ApproveJoinSound ==
    ASSUME Inv, Sound, NEW c \in Calls, NEW r \in Requests, ApproveJoin(c, r)
    PROVE  Sound'
<1>1. PICK ask : ask = requests[r]
  OBVIOUS
<1>2. PICK q : q = IF ask.lane = "seller" THEN OnCatalog(ask.catalog) ELSE OnRow
  OBVIOUS
<1>3. PICK m : m = [q EXCEPT !.req = r, !.ask = ask, !.on = q.on \union {r}]
  OBVIOUS
<1>4. PICK todo : todo = <<"admit">> \o If(ask.lane = "seller", <<"openAds", "stamp", "put">>)
                                     \o <<"settle">>
  OBVIOUS
<1>5. Begin(c, m, todo) /\ ask.kind = "join"
  BY <1>1, <1>2, <1>3, <1>4 DEF ApproveJoin, Pending
<1>6. ask \in Request /\ ask.catalog \in Catalogs \union {Nothing}
  BY <1>1 DEF Inv, TypeOK, Request
<1>7. /\ q \in Call /\ "row" \in q.on
      /\ IF ask.lane = "seller" THEN /\ q.cat = ask.catalog /\ q.scope = AdsOf(q.cat)
                                     /\ q.on = {"row"} \union Ads
                                ELSE q.scope = {}
  <2>1. CASE ask.lane = "seller"
    BY <1>2, <1>6, <2>1, CatalogCall
  <2>2. CASE ask.lane # "seller"
    BY <1>2, <2>2, RowCall
  <2> QED
    BY <2>1, <2>2
<1>8. PICK n : n = [m EXCEPT !.todo = todo]
  OBVIOUS
<1>9. q.scope \subseteq AdsOf(q.cat) /\ q.scope \subseteq q.on
  BY <1>7 DEF AdsOf
<1>10. /\ m \in Call /\ n.todo = todo /\ n.cat = q.cat /\ n.scope = q.scope /\ n.req = r
       /\ n.ask = ask /\ q.on \subseteq n.on
  <2>1. /\ m \in Call /\ m.cat = q.cat /\ m.scope = q.scope /\ m.req = r /\ m.ask = ask
        /\ m.on = q.on \union {r}
    BY <1>3, <1>6, <1>7 DEF Call, Things
  <2> QED
    BY <1>8, <2>1 DEF Call
<1>11. Asked(n) /\ n.ask.kind = "join"
  BY <1>5, <1>10 DEF Asked
<1>12. IF ask.lane = "seller" THEN todo = <<"admit", "openAds", "stamp", "put", "settle">>
                              ELSE todo = <<"admit", "settle">>
  <2>1. CASE ask.lane = "seller"
    <3>1. <<"admit", "openAds", "stamp", "put", "settle">>
            = <<"admit">> \o <<"openAds", "stamp", "put">> \o <<"settle">>
      OBVIOUS
    <3> QED
      BY <1>4, <2>1, <3>1 DEF If
  <2>2. CASE ask.lane # "seller"
    <3>1. <<"admit", "settle">> = <<"admit">> \o <<"settle">>
      OBVIOUS
    <3> QED
      BY <1>4, <2>2, <3>1, JoinEmpty DEF If
  <2> QED
    BY <2>1, <2>2
<1>13. /\ todo # <<>> /\ Head(todo) = "admit"
       /\ Tail(todo) = IF ask.lane = "seller" THEN <<"openAds", "stamp", "put", "settle">>
                       ELSE <<"settle">>
  <2>1. CASE ask.lane = "seller"
    <3>1. /\ <<"admit", "openAds", "stamp", "put", "settle">> # <<>>
          /\ Head(<<"admit", "openAds", "stamp", "put", "settle">>) = "admit"
          /\ Tail(<<"admit", "openAds", "stamp", "put", "settle">>)
                = <<"openAds", "stamp", "put", "settle">>
      OBVIOUS
    <3> QED
      BY <1>12, <2>1, <3>1
  <2>2. CASE ask.lane # "seller"
    BY <1>12, <2>2, Lists
  <2> QED
    BY <2>1, <2>2
<1>14. Planned(n)
  <2>1. Follows(Head(n.todo), Tail(n.todo), Asked(n))
    BY <1>10, <1>11, <1>13 DEF Follows
  <2>2. Reaches(n)
    BY <1>7, <1>10, <1>12 DEF Reaches, RowLists
  <2>3. <<"openAds", "stamp", "put", "settle">> # <<"settle">>
    OBVIOUS
  <2> QED
    BY <1>7, <1>9, <1>10, <1>11, <1>13, <2>1, <2>2, <2>3 DEF Planned, Up
<1>15. Relies(n)
  BY <1>1, <1>10, <1>13 DEF Relies, Up, Linked, Removing, Publishing, Current
<1> QED
  BY <1>5, <1>8, <1>10, <1>14, <1>15, BeginSound

LEMMA ApproveLeaveSound ==
    ASSUME Inv, Sound, NEW c \in Calls, NEW r \in Requests, ApproveLeave(c, r)
    PROVE  Sound'
<1>1. PICK ask : ask = requests[r]
  OBVIOUS
<1>2. PICK q : q = OnCatalog(row.catalog)
  OBVIOUS
<1>3. PICK m : m = [q EXCEPT !.req = r, !.ask = ask, !.on = q.on \union {r}]
  OBVIOUS
<1>4. PICK todo :
        todo = If(row.status = "active" /\ ask.lane = "seller" /\ row.catalog # Nothing,
                  <<"unstamp", "leaveSeller">>)
               \o If(row.status = "active" /\ ask.lane = "buyer" /\ row.business, <<"leaveBuyer">>)
               \o <<"settle">>
  OBVIOUS
<1>5. Begin(c, m, todo) /\ ask.kind = "leave"
  BY <1>1, <1>2, <1>3, <1>4 DEF ApproveLeave, Pending
<1>6. ask \in Request /\ ask.lane \in Lanes /\ row.catalog \in Catalogs \union {Nothing}
  BY <1>1 DEF Inv, TypeOK, Request, Row
<1>7. /\ q \in Call /\ q.scope \subseteq AdsOf(q.cat) /\ q.scope \subseteq q.on
      /\ q.on = {"row"} \union Ads /\ q.cat = row.catalog /\ q.seen = row
  <2>1. PICK e : e = Reading({"row"} \union Ads)
    OBVIOUS
  <2>2. {"row"} \union Ads \in SUBSET Things
    BY DEF Things
  <2>3. e \in Call /\ e.seen = row
    BY <2>1, <2>2, ReadingTyped DEF Reading, Idle
  <2>4. q = [e EXCEPT !.cat = row.catalog, !.scope = AdsOf(row.catalog)]
    BY <1>2, <2>1 DEF OnCatalog
  <2>5. q.seen = row
    BY <2>3, <2>4 DEF Call
  <2> QED
    BY <1>2, <1>6, <2>5, CatalogCall DEF AdsOf
<1>8. PICK n : n = [m EXCEPT !.todo = todo]
  OBVIOUS
<1>9. /\ m \in Call /\ n.todo = todo /\ n.cat = q.cat /\ n.scope = q.scope /\ n.req = r
      /\ n.ask = ask /\ q.on \subseteq n.on /\ n.seen = row
  <2>1. /\ m \in Call /\ m.cat = q.cat /\ m.scope = q.scope /\ m.req = r /\ m.ask = ask
        /\ m.on = q.on \union {r} /\ m.seen = row
    BY <1>3, <1>6, <1>7 DEF Call, Things
  <2> QED
    BY <1>8, <2>1 DEF Call
<1>10. Asked(n) /\ n.ask.kind = "leave"
  BY <1>5, <1>9 DEF Asked
<1>11. \/ ask.lane = "seller" /\ todo = <<"unstamp", "leaveSeller", "settle">>
       \/ ask.lane = "buyer" /\ todo = <<"leaveBuyer", "settle">>
       \/ todo = <<"settle">> /\ Gone(ask)
  <2>1. <<>> \o <<>> = <<>>
    OBVIOUS
  <2>2. CASE row.status = "active" /\ ask.lane = "seller" /\ row.catalog # Nothing
    <3>1. <<"unstamp", "leaveSeller">> \o <<>> = <<"unstamp", "leaveSeller">>
      <4>1. <<"unstamp", "leaveSeller">> \in Seq({"unstamp", "leaveSeller"})
        OBVIOUS
      <4> QED
        BY <4>1, ConcatEmptySeq
    <3>2. <<"unstamp", "leaveSeller", "settle">> = <<"unstamp", "leaveSeller">> \o <<"settle">>
      OBVIOUS
    <3> QED
      BY <1>4, <2>2, <3>1, <3>2 DEF If
  <2>3. CASE row.status = "active" /\ ask.lane = "buyer" /\ row.business
    <3>1. <<"leaveBuyer", "settle">> = <<"leaveBuyer">> \o <<"settle">>
      OBVIOUS
    <3> QED
      BY <1>4, <2>3, <3>1, JoinEmpty DEF If
  <2>4. CASE ~ (row.status = "active" /\ IF ask.lane = "seller" THEN row.catalog # Nothing ELSE row.business)
    <3>1. Gone(ask)
      BY <2>4 DEF Gone
    <3>2. todo = <<>> \o <<>> \o <<"settle">>
      BY <1>4, <1>6, <2>4 DEF If, Lanes
    <3> QED
      BY <2>1, <3>1, <3>2, JoinEmpty
  <2> QED
    BY <1>6, <2>2, <2>3, <2>4 DEF Lanes
<1>12. CASE ask.lane = "seller" /\ todo = <<"unstamp", "leaveSeller", "settle">>
  <2>1. todo # <<>> /\ Head(todo) = "unstamp" /\ Tail(todo) = <<"leaveSeller", "settle">>
    BY <1>12, Lists
  <2>2. Follows(Head(n.todo), Tail(n.todo), Asked(n))
    BY <1>9, <1>10, <2>1 DEF Follows
  <2>3. Planned(n)
    BY <1>7, <1>9, <1>10, <1>12, <2>1, <2>2 DEF Planned, Reaches, Up
  <2>4. Relies(n)
    BY <1>1, <1>7, <1>9, <2>1 DEF Relies, Up, Linked, Removing, Publishing, Current
  <2> QED
    BY <1>5, <1>8, <1>9, <2>3, <2>4, BeginSound
<1>13. CASE ask.lane = "buyer" /\ todo = <<"leaveBuyer", "settle">>
  <2>1. todo # <<>> /\ Head(todo) = "leaveBuyer" /\ Tail(todo) = <<"settle">>
    BY <1>13, Lists
  <2>2. Follows(Head(n.todo), Tail(n.todo), Asked(n))
    BY <1>9, <1>10, <2>1 DEF Follows
  <2>3. Reaches(n)
    BY <1>7, <1>9 DEF Reaches
  <2>4. Planned(n)
    BY <1>7, <1>9, <1>10, <1>13, <2>1, <2>2, <2>3 DEF Planned, Up
  <2>5. Relies(n)
    BY <1>1, <1>7, <1>9, <2>1 DEF Relies, Up, Linked, Removing, Publishing, Current
  <2> QED
    BY <1>5, <1>8, <1>9, <2>4, <2>5, BeginSound
<1>14. CASE todo = <<"settle">> /\ Gone(ask)
  <2>1. todo # <<>> /\ Head(todo) = "settle" /\ Tail(todo) = <<>>
    BY <1>14, Lists
  <2>2. Follows(Head(n.todo), Tail(n.todo), Asked(n))
    BY <1>9, <1>10, <2>1 DEF Follows
  <2>3. Reaches(n)
    BY <1>7, <1>9 DEF Reaches
  <2>4. Planned(n)
    BY <1>7, <1>9, <1>10, <2>1, <2>2, <2>3 DEF Planned, Up
  <2>5. Gone(n.ask)
    BY <1>9, <1>14 DEF Gone
  <2>6. Relies(n)
    BY <1>1, <1>9, <1>10, <2>1, <2>5 DEF Relies, Up, Linked, Removing, Publishing, Current
  <2> QED
    BY <1>5, <1>8, <1>9, <2>4, <2>6, BeginSound
<1> QED
  BY <1>11, <1>12, <1>13, <1>14

LEMMA AdCall ==
    ASSUME Inv, NEW a \in Ads, NEW q, q = OnAd(a)
    PROVE  /\ q \in Call /\ q.cat = CatalogOf[a] /\ q.scope = {a} /\ q.on = {a} /\ q.ask = Closed
<1>1. PICK p : p = Reading({a})
  OBVIOUS
<1>2. p \in Call /\ p.on = {a} /\ p.ask = Closed
  <2>1. {a} \in SUBSET Things
    BY DEF Things
  <2> QED
    BY <1>1, <2>1, ReadingTyped DEF Reading, Idle
<1>3. q = [p EXCEPT !.cat = CatalogOf[a], !.scope = {a}]
  BY <1>1 DEF OnAd
<1>4. q.cat = CatalogOf[a] /\ q.scope = {a} /\ q.on = {a} /\ q.ask = Closed
  BY <1>2, <1>3 DEF Call
<1> QED
  BY <1>4, OnAdTyped

LEMMA AdStampSound ==
    ASSUME Inv, Sound, Known, NEW c \in Calls, NEW a \in Ads, EditCategory(c, a) \/ PublishAd(c, a)
    PROVE  Sound'
<1>1. PICK p : p = OnAd(a)
  OBVIOUS
<1>2. p \in Call /\ p.cat = CatalogOf[a] /\ p.scope = {a} /\ p.on = {a} /\ p.ask = Closed
  BY <1>1, AdCall
<1>3. PICK arg \in {"edit", "force"} :
          /\ Begin(c, [p EXCEPT !.arg = arg], <<"stamp", "put">>)
          /\ arg = "force" => row.catalog = CatalogOf[a] /\ row.status = "active"
  <2>1. CatalogOf[a] # Nothing
    BY CatalogOfAssumption, NothingAssumption
  <2> QED
    BY <1>1, <2>1 DEF EditCategory, PublishAd, Known
<1>4. PICK q : q = [p EXCEPT !.arg = arg]
  OBVIOUS
<1>5. q \in Call /\ q.cat = CatalogOf[a] /\ q.scope = {a} /\ q.ask = Closed /\ q.arg = arg
  BY <1>2, <1>4 DEF Call
<1>6. PICK n : n = [q EXCEPT !.todo = <<"stamp", "put">>]
  OBVIOUS
<1>7. /\ n.cat = CatalogOf[a] /\ n.scope = {a} /\ n.arg = arg /\ ~ Asked(n)
      /\ n.todo = <<"stamp", "put">>
  BY <1>5, <1>6 DEF Call, Asked, Closed
<1>8. n.todo # <<>> /\ Head(n.todo) = "stamp" /\ Tail(n.todo) = <<"put">>
  BY <1>7, Lists
<1>9. Planned(n)
  <2>1. Follows(Head(n.todo), Tail(n.todo), Asked(n))
    BY <1>7, <1>8 DEF Follows
  <2>2. Reaches(n)
    BY <1>7 DEF Reaches, AdLists
  <2>3. <<"put">> # <<"put", "setStatus">>
    OBVIOUS
  <2> QED
    BY <1>7, <1>8, <2>1, <2>2, <2>3 DEF Planned, Up, AdsOf
<1>10. Relies(n)
  BY <1>3, <1>7, <1>8 DEF Relies, Up, Linked, Removing, Publishing, Current, Asked
<1> QED
  BY <1>3, <1>4, <1>5, <1>6, <1>9, <1>10, BeginSound

\* A step of no call that touches one ad.
LEMMA OnlyAdSound ==
    ASSUME Inv, Sound, NEW a \in Ads, call' = call, requests' = requests,
           disturbed' = disturbed \union ({a} \intersect Busy), Touches({a})
    PROVE  Sound'
<1>1. ASSUME NEW d \in Calls PROVE Planned(call[d])' /\ Relies(call[d])'
  <2>1. call[d].on \subseteq Busy
    BY DEF Busy
  <2> QED
    BY <2>1, OthersSound
<1>2. Apart'
  BY DEF Sound, Apart
<1> QED
  BY <1>1, <1>2 DEF Sound

LEMMA AdAloneSound ==
    ASSUME Inv, Sound, NEW a \in Ads,
           \/ WithdrawAd(a)
           \/ \E status \in {"active", "deleted"}, toMarket \in BOOLEAN : EditAd(a, status, toMarket)
    PROVE  Sound'
<1>1. /\ call' = call /\ disturbed' = disturbed \union ({a} \intersect Busy)
      /\ \A b \in Ads \ {a} : ads'[b] = ads[b] /\ pub'[b] = pub[b] /\ (b \in open' <=> b \in open)
      /\ UNCHANGED <<row, requests>>
  BY DEF WithdrawAd, EditAd, AtOnce, Meet, Inv, TypeOK
<1>2. Touches({a})
  BY <1>1 DEF Touches, Shown
<1> QED
  BY <1>1, <1>2, OnlyAdSound

LEMMA AdWriteSound ==
    ASSUME Inv, Sound, NEW c \in Calls, NEW a \in Ads,
           CompleteAd(c, a) \/ \E toMarket \in BOOLEAN : CreateAd(c, a, toMarket)
    PROVE  Sound'
<1>1. PICK q : q = OnAd(a)
  OBVIOUS
<1>2. q \in Call /\ q.cat = CatalogOf[a] /\ q.scope = {a} /\ q.on = {a} /\ q.ask = Closed
  BY <1>1, AdCall
<1>3. PICK n : n = [q EXCEPT !.todo = <<"findMarket">>]
  OBVIOUS
<1>4. /\ n.cat = CatalogOf[a] /\ n.scope = {a} /\ n.on = {a} /\ ~ Asked(n)
      /\ n.todo = <<"findMarket">>
  BY <1>2, <1>3 DEF Call, Asked, Closed
<1>5. n.todo # <<>> /\ Head(n.todo) = "findMarket" /\ Tail(n.todo) = <<>>
  BY <1>4, Lists
<1>6. /\ call' = [call EXCEPT ![c] = n] \/ call' = call
      /\ disturbed' = disturbed \union ({a} \intersect Busy)
      /\ open' = open \/ open' = open \union {a}
      /\ \A b \in Ads \ {a} : ads'[b] = ads[b]
      /\ UNCHANGED <<row, requests, pub>>
  BY <1>1, <1>3 DEF CreateAd, CompleteAd, Meet, Inv, TypeOK
<1>7. Touches({a})
  BY <1>6 DEF Touches, Shown
<1>8. CASE call' = [call EXCEPT ![c] = n]
  <2>1. Planned(n)
    <3>1. Follows(Head(n.todo), Tail(n.todo), Asked(n))
      BY <1>4, <1>5 DEF Follows, Single
    <3>2. Reaches(n)
      BY <1>4 DEF Reaches, AdLists
    <3> QED
      BY <1>4, <1>5, <3>1, <3>2 DEF Planned, Up, AdsOf
  <2>2. Relies(n)'
    BY <1>4, <1>5 DEF Relies, Up, Linked, Removing, Publishing, Current, Asked
  <2>3. Touches(n.on) /\ disturbed' = disturbed \union (n.on \intersect Busy)
    BY <1>4, <1>6, <1>7
  <2> QED
    BY <1>7, <1>8, <2>1, <2>2, <2>3, NewCallSound
<1>9. CASE call' = call
  BY <1>6, <1>7, <1>9, OnlyAdSound
<1> QED
  BY <1>6, <1>8, <1>9

-----------------------------------------------------------------------------
LEMMA InitSound == Init => Sound
<1> SUFFICES ASSUME Init PROVE Sound
  OBVIOUS
<1>1. \A c \in Calls : call[c] = Idle
  BY DEF Init
<1>2. Apart
  BY <1>1 DEF Apart, Idle
<1> QED
  BY <1>1, <1>2, IdleSound DEF Sound

LEMMA NextSound == Inv /\ Known /\ Sound /\ [Next]_vars => Sound'
<1> SUFFICES ASSUME Inv, Known, Sound, [Next]_vars PROVE Sound'
  OBVIOUS
<1>1. ASSUME NEW a \in Ads,
             \/ WithdrawAd(a)
             \/ \E status \in {"active", "deleted"}, toMarket \in BOOLEAN : EditAd(a, status, toMarket)
      PROVE  Sound'
  BY <1>1, AdAloneSound
<1>2. ASSUME NEW c \in Calls, Asking(c) PROVE Sound'
  <2>1. ASSUME NEW lane \in Lanes, NEW k \in Catalogs \union {Nothing},
               RequestMembership(c, lane, k) \/ RequestLeave(c, lane)
        PROVE  Sound'
    BY <2>1, AskSound
  <2>2. ASSUME NEW r \in Requests, Shut(c, r) \/ ApproveJoin(c, r) \/ ApproveLeave(c, r) PROVE Sound'
    BY <2>2, ShutSound, ApproveJoinSound, ApproveLeaveSound
  <2>3. CASE WriteAsk(c) \/ WriteShut(c) \/ Settle(c)
    BY <2>3, RequestStepSound
  <2>4. CASE Admit(c) \/ LeaveSeller(c) \/ LeaveBuyer(c)
    BY <2>4, MoreRowSound
  <2> QED
    BY <1>2, <2>1, <2>2, <2>3, <2>4 DEF Asking
<1>3. ASSUME NEW c \in Calls, Managing(c) PROVE Sound'
  <2>1. CASE \/ WriteStatus(c) \/ DropMember(c) \/ WriteBuyer(c) \/ Pause(c)
             \/ DropCatalog(c) \/ DropBuyer(c) \/ WriteAppoint(c) \/ WriteDismiss(c)
    BY <2>1, LastRowSound
  <2>2. CASE WriteSeller(c) \/ Resume(c)
    BY <2>2, MoreRowSound
  <2>3. CASE \/ \E status \in {"active", "paused", "banned", "removed"} : SetStatus(c, status)
             \/ RemoveMember(c)
             \/ \E k \in Catalogs, arg \in {"none", "confirmed"} : AddSeller(c, k, arg)
             \/ AddBuyer(c) \/ PauseCatalog(c) \/ ResumeCatalog(c)
             \/ \E step \in {"pause", "resume"} : SetBuyerPaused(c, step)
             \/ RemoveCatalog(c) \/ RemoveBuyer(c) \/ Appoint(c) \/ Dismiss(c)
    BY <2>3, ManagingSound
  <2> QED
    BY <1>3, <2>1, <2>2, <2>3 DEF Managing
<1>4. ASSUME NEW c \in Calls, Belonging(c) PROVE Sound'
  <2>1. CASE \/ \E arg \in {"none", "buyer", "seller"} : Join(c, arg)
             \/ \E k \in Catalogs : CloseCatalog(c, k)
             \/ Publish(c) \/ Unpublish(c)
    BY <2>1, BelongingSound
  <2>2. CASE WriteJoin(c) \/ Show(c) \/ Hide(c) \/ Release(c)
    BY <2>2, LastRowSound
  <2>3. CASE Close(c)
    BY <2>3, CloseSound
  <2> QED
    BY <1>4, <2>1, <2>2, <2>3 DEF Belonging
<1>5. ASSUME NEW c \in Calls, Advertising(c) PROVE Sound'
  BY <1>5, AdStampSound, AdWriteSound, FindMarketSound DEF Advertising
<1>6. ASSUME NEW c \in Calls, Stamping(c) \/ Cut(c) PROVE Sound'
  BY <1>6, StampSound, PutSound, UnstampSound, HaltSound, OpenAdsSound, CutSound DEF Stamping
<1>7. CASE UNCHANGED vars
  <2>1. UNCHANGED <<row, requests, ads, open, pub, call, disturbed>>
    BY <1>7 DEF vars
  <2>2. Touches({})
    BY <2>1 DEF Touches, Shown
  <2>3. ASSUME NEW d \in Calls PROVE Planned(call[d])' /\ Relies(call[d])'
    BY <2>1, <2>2, OthersSound
  <2>4. Apart'
    BY <2>1 DEF Sound, Apart
  <2> QED
    BY <2>2, <2>3, <2>4 DEF Sound
<1> QED
  BY <1>1, <1>2, <1>3, <1>4, <1>5, <1>6, <1>7 DEF Next

LEMMA SoundAlways == Spec => [](Inv /\ Sound)
BY InitInv, NextInv, KnownAlways, InitSound, NextSound, PTL DEF Spec

-----------------------------------------------------------------------------
(* What follows of the decisions *)

\* A call that goes on is not where it was.
LEMMA GoMoves ==
    ASSUME Inv, NEW c \in Calls, NEW step, At(c, step), Go(c) PROVE call'[c] # call[c]
<1>1. PICK k : k = call[c]
  OBVIOUS
<1>2. k \in Call /\ k.todo \in Seq(Steps) /\ k.todo # <<>>
  BY <1>1 DEF Inv, CallsTyped, Call, At
<1>3. Len(Tail(k.todo)) = Len(k.todo) - 1 /\ Len(k.todo) \in Nat
  BY <1>2, HeadTailProperties, LenProperties, Zenon
<1>4. Tail(k.todo) # k.todo
  <2>1. ASSUME NEW n \in Nat, NEW m, m = n - 1 PROVE m # n
    BY <2>1
  <2>2. Len(Tail(k.todo)) # Len(k.todo)
    BY <1>3, <2>1, Zenon
  <2> QED
    BY <2>2, Zenon
<1>5. PICK n : n = Left(k, Tail(k.todo))
  OBVIOUS
<1>6. call'[c] = n
  BY <1>1, <1>5 DEF Go, Inv, CallsTyped
<1>7. PICK m : m = [k EXCEPT !.todo = Tail(k.todo)]
  OBVIOUS
<1>8. m.todo = Tail(k.todo) /\ Idle.todo = <<>>
  BY <1>2, <1>7 DEF Call, Idle
<1>9. n = Idle \/ n = m
  BY <1>5, <1>7 DEF Left
<1> QED
  BY <1>1, <1>2, <1>4, <1>6, <1>8, <1>9

\* No step leaves an ad published that the member does not sell, but those of the three
\* handlers that unstamp nothing, of a new category and of a manager who makes the member
\* active: whichever of the others ends the selling took the ads of the catalog it read
\* off the board, and whichever publishes looked at the row, or the ad is disturbed.
THEOREM BoardIsTheSellers == Spec => BoardFollowsTheSeller
<1> DEFINE Excused == \E c \in Calls :
                        /\ call'[c] # call[c]
                        /\ \/ \E step \in {"admit", "dropBuyer", "release"} : At(c, step)
                           \/ At(c, "put") /\ call[c].arg \in {"edit", "active"}
<1>1. Inv /\ Sound /\ [Next]_vars =>
      [\A a \in Ads \ disturbed' :
          /\ pub'[a] = "published" /\ ~ Sells(a)'
          /\ pub[a] = "published" => Sells(a)
          => Excused]_vars
  <2> SUFFICES ASSUME Inv, Sound, [Next]_vars, NEW a \in Ads \ disturbed',
                      pub'[a] = "published", ~ Sells(a)', pub[a] = "published" => Sells(a)
               PROVE  Excused
    OBVIOUS
  <2>1. Frame /\ disturbed \subseteq disturbed' /\ a \in Ads \ disturbed
    BY NextFrame DEF Frame
  <2>2. row \in Row /\ CatalogOf[a] # Nothing
    BY CatalogOfAssumption, NothingAssumption DEF Inv, TypeOK
  <2>3. CASE pub[a] # "published"
    <3>1. PICK c \in Calls : Put(c)
      BY <2>1, <2>3 DEF Frame
    <3>2. At(c, "put") /\ a \in call[c].scope /\ row' = row /\ call'[c] # call[c]
      BY <2>3, <3>1, GoMoves DEF Put
    <3>3. call[c].arg # "edit" => Current(call[c].arg, a)
      BY <2>1, <3>2 DEF Sound, Relies, Publishing, Up, At
    <3>4. call[c].arg \in {"edit", "active"}
      BY <3>2, <3>3 DEF Current, Sells
    <3> QED
      BY <3>2, <3>4
  <2>4. CASE pub[a] = "published"
    <3>1. row.status = "active" /\ row.catalog = CatalogOf[a]
      BY <2>4 DEF Sells
    <3>2. ~ (row'.catalog = row.catalog /\ row'.status \in {row.status, "active"})
      BY <3>1 DEF Sells
    <3>3. PICK c \in Calls : Ending(c)
      BY <2>1, <3>2 DEF Frame
    <3>4. PICK k : k = call[c]
      OBVIOUS
    <3>5. /\ k \in Call /\ Linked(k)
          /\ Removing(k) => CatalogOf[a] # k.cat
      BY <2>1, <2>4, <3>4 DEF Sound, Relies, Inv, CallsTyped, Shown, AdsOf
    <3>6. ~ Removing(k)
      BY <3>1, <3>5 DEF Linked
    <3>7. CASE Admit(c) \/ DropBuyer(c) \/ Release(c)
      <4>1. PICK step, new : step \in {"admit", "dropBuyer", "release"} /\ WriteRow(c, step, new)
        BY <3>7 DEF Admit, DropBuyer, Release
      <4>2. At(c, step) /\ Go(c)
        BY <3>2, <4>1 DEF WriteRow
      <4> QED
        BY <4>1, <4>2, GoMoves
    <3>8. CASE LeaveSeller(c) \/ DropMember(c) \/ DropCatalog(c)
      BY <3>4, <3>6, <3>8 DEF LeaveSeller, DropMember, DropCatalog, WriteRow, At, Removing, Up
    <3>9. CASE WriteStatus(c)
      <4>1. At(c, "setStatus")
        BY <3>9 DEF WriteStatus, WriteRow
      <4>2. k.arg = "active"
        BY <3>4, <3>6, <4>1 DEF Removing, Up, At
      <4>3. PICK new : new.catalog = row.catalog /\ new.status = "active" /\ WriteRow(c, "setStatus", new)
        BY <2>2, <3>4, <3>9, <4>2 DEF WriteStatus, Row
      <4> QED
        BY <3>2, <4>3 DEF WriteRow
    <3>10. CASE LeaveBuyer(c)
      <4>1. k.seen.catalog = row.catalog
        BY <3>4, <3>5, <3>10 DEF LeaveBuyer, WriteRow, At, Linked, Up
      <4>2. PICK new : /\ new.catalog = row.catalog /\ new.status = "active"
                       /\ WriteRow(c, "leaveBuyer", new)
        BY <2>2, <3>1, <3>4, <3>10, <4>1 DEF LeaveBuyer, Row
      <4> QED
        BY <3>2, <4>2 DEF WriteRow
    <3>11. CASE WriteSeller(c)
      <4>1. row.catalog = k.cat
        BY <2>2, <3>1, <3>4, <3>5, <3>11 DEF WriteSeller, WriteRow, At, Linked, Up
      <4>2. PICK new : /\ new.catalog = row.catalog /\ new.status = "active"
                       /\ WriteRow(c, "addSeller", new)
        BY <2>2, <3>4, <3>11, <4>1 DEF WriteSeller, Row
      <4> QED
        BY <3>2, <4>2 DEF WriteRow
    <3> QED
      BY <3>3, <3>7, <3>8, <3>9, <3>10, <3>11 DEF Ending
  <2> QED
    BY <2>3, <2>4
<1> QED
  BY <1>1, SoundAlways, PTL DEF Spec, BoardFollowsTheSeller

\* When decideRequest marks a request, the membership says what was asked for, unless
\* another call wrote the row meanwhile.
THEOREM DecisionHolds == Spec => ApprovalHolds
<1>1. Inv /\ Sound /\ [Next]_vars =>
      [\A c \in Calls :
          LET ask == requests[call[c].req] IN
          /\ At(c, "settle") /\ requests' # requests /\ call'[c] # call[c]
          /\ "row" \notin disturbed'
          => IF ask.kind = "join"
             THEN row.status = "active" /\ (ask.lane = "seller" => row.catalog = ask.catalog)
             ELSE \/ row.status # "active"
                  \/ IF ask.lane = "seller" THEN row.catalog = Nothing ELSE ~ row.business]_vars
  <2> SUFFICES ASSUME Inv, Sound, [Next]_vars, NEW c \in Calls, At(c, "settle"),
                      requests' # requests, call'[c] # call[c], "row" \notin disturbed',
                      NEW ask, ask = requests[call[c].req]
               PROVE  IF ask.kind = "join" THEN Joined(ask) ELSE Gone(ask)
    BY DEF Joined, Gone
  <2>1. PICK k : k = call[c]
    OBVIOUS
  <2>2. Up(k, {"settle"}) /\ Planned(k) /\ Relies(k) /\ "row" \notin disturbed
    BY <2>1, NextFrame DEF Up, At, Sound, Frame
  <2>3. Asked(k)
    BY <2>2 DEF Planned, Follows, Single, Up
  <2>4. requests' = [requests EXCEPT ![k.req] = Closed]
    <3>1. PICK d \in Calls : WriteAsk(d) \/ WriteShut(d) \/ Settle(d)
      BY NextFrame DEF Frame
    <3>2. call' = [call EXCEPT ![d] = Left(@, Tail(@.todo))] /\ call \in [Calls -> Call]
      BY <3>1 DEF WriteAsk, WriteShut, Settle, Go, Inv, CallsTyped
    <3>3. d = c
      BY <3>2
    <3> QED
      BY <2>1, <3>1, <3>3 DEF WriteAsk, WriteShut, Settle, At
  <2>5. k.req \in Requests /\ requests[k.req] \in {k.ask, Closed}
    BY <2>2, <2>3 DEF Relies, Up
  <2>6. requests \in [Requests -> Request]
    BY DEF Inv, TypeOK
  <2>7. requests[k.req] # Closed
    BY <2>4, <2>5, <2>6
  <2>8. ask = k.ask
    BY <2>1, <2>5, <2>7
  <2>9. IF k.ask.kind = "join" THEN Joined(k.ask) ELSE Gone(k.ask)
    BY <2>2, <2>3 DEF Relies
  <2> QED
    BY <2>8, <2>9 DEF Joined, Gone
<1> QED
  BY <1>1, SoundAlways, PTL DEF Spec, ApprovalHolds

-----------------------------------------------------------------------------
(* How many requests are pending: every call about to make one found none *)

\* The calls that are about to make a request of this kind.
Asks(kind) == {c \in Calls : At(c, "ask") /\ call[c].ask.kind = kind}

Bounded(kind) ==
    /\ IsFiniteSet(Pending(kind))
    /\ Cardinality(Pending(kind)) + Cardinality(Asks(kind)) <= Cardinality(Calls)

\* What other handlers begin with.
Silent == Steps \ {"ask"}

LEMMA TodoIsSet ==
    ASSUME NEW k, NEW todo, NEW n, n = [k EXCEPT !.todo = todo], n \in Call PROVE n.todo = todo
<1>1. DOMAIN n = DOMAIN k
  BY Zenon
<1>2. "todo" \in DOMAIN n
  BY Zenon DEF Call
<1>3. "todo" \in DOMAIN k
  BY <1>1, <1>2, Zenon
<1> QED
  BY <1>3, Zenon

LEMMA SlotAsks ==
    ASSUME Inv, NEW c \in Calls, NEW n, call' = [call EXCEPT ![c] = n],
           n.todo # <<>> => Head(n.todo) # "ask", NEW kind
    PROVE  Asks(kind)' \subseteq Asks(kind) \ {c}
BY DEF Asks, At, Inv, CallsTyped

LEMMA BeginAsks ==
    ASSUME Inv, Inv', NEW c \in Calls, NEW k, NEW todo \in Seq(Silent), Begin(c, k, todo), NEW kind
    PROVE  Asks(kind)' \subseteq Asks(kind) /\ requests' = requests
<1>1. PICK n : n = [k EXCEPT !.todo = todo]
  OBVIOUS
<1>2. call' = [call EXCEPT ![c] = n] /\ call \in [Calls -> Call] /\ call' \in [Calls -> Call]
  BY <1>1 DEF Begin, Inv, CallsTyped
<1>3. n \in Call
  BY <1>2
<1>4. n.todo = todo
  BY <1>1, <1>3, TodoIsSet, Zenon
<1>5. n.todo # <<>> => Head(n.todo) # "ask"
  BY <1>4 DEF Silent
<1> QED
  BY <1>2, <1>5, SlotAsks DEF Begin

\* A call that goes on has asked already.
LEMMA AskedAlready ==
    ASSUME NEW k, Planned(k), k.todo # <<>>, Tail(k.todo) # <<>>
    PROVE  Head(Tail(k.todo)) # "ask"
<1>1. Follows(Head(k.todo), Tail(k.todo), Asked(k)) /\ Asked(k) \in BOOLEAN
  BY DEF Planned, Asked
<1>2. GoesOn(Head(k.todo), Tail(k.todo), Asked(k))
  BY <1>1, FollowsOn
<1> QED
  BY <1>2 DEF GoesOn

LEMMA GoOrStopAsks ==
    ASSUME Inv, Sound, NEW c \in Calls, NEW step, At(c, step), Go(c) \/ Stop(c), NEW kind
    PROVE  Asks(kind)' \subseteq Asks(kind) \ {c}
<1>1. PICK k : k = call[c]
  OBVIOUS
<1>2. k \in Call /\ k.todo \in Seq(Steps) /\ k.todo # <<>>
  BY <1>1 DEF Inv, CallsTyped, Call, At
<1>3. PICK n : /\ n \in {Left(k, Tail(k.todo)), Idle}
               /\ call' = [call EXCEPT ![c] = n]
  BY <1>1 DEF Go, Stop
<1>4. PICK m : m = [k EXCEPT !.todo = Tail(k.todo)]
  OBVIOUS
<1>5. m.todo = Tail(k.todo) /\ Idle.todo = <<>>
  BY <1>2, <1>4 DEF Call, Idle
<1>6. n = Idle \/ n = m
  BY <1>3, <1>4 DEF Left
<1>7. n.todo # <<>> => Head(n.todo) # "ask"
  <2>1. Planned(k)
    BY <1>1 DEF Sound
  <2> QED
    BY <1>2, <1>5, <1>6, <2>1, AskedAlready
<1>8. call' = [call EXCEPT ![c] = n]
  BY <1>3
<1> QED
  BY <1>7, <1>8, SlotAsks

\* A call begins, with anything but to ask.
Opens(c) == \E todo \in Seq(Silent) : \E k : Begin(c, k, todo)

LEMMA OpensAsks ==
    ASSUME Inv, Inv', NEW c \in Calls, Opens(c), NEW kind
    PROVE  Asks(kind)' \subseteq Asks(kind) /\ requests' = requests
BY BeginAsks DEF Opens

LEMMA SilentIf ==
    ASSUME NEW s \in Seq(Silent), NEW b PROVE If(b, s) \in Seq(Silent)
BY DEF If

LEMMA SilentConcat ==
    ASSUME NEW s \in Seq(Silent), NEW t \in Seq(Silent) PROVE s \o t \in Seq(Silent)
BY ConcatProperties

LEMMA DecidingOpens ==
    ASSUME Inv, NEW c \in Calls, NEW r \in Requests, Shut(c, r) \/ ApproveJoin(c, r) \/ ApproveLeave(c, r)
    PROVE  Opens(c)
<1>1. CASE Shut(c, r)
  <2>1. <<"shut">> \in Seq(Silent)
    BY DEF Silent, Steps
  <2>2. PICK k : k = [Reading({r}) EXCEPT !.req = r]
    OBVIOUS
  <2>3. Begin(c, k, <<"shut">>)
    BY <1>1, <2>2 DEF Shut
  <2> QED
    BY <2>1, <2>3 DEF Opens
<1>2. CASE ApproveJoin(c, r)
  <2>1. ASSUME NEW b \in BOOLEAN
        PROVE  <<"admit">> \o If(b, <<"openAds", "stamp", "put">>) \o <<"settle">> \in Seq(Silent)
    <3>1. /\ <<"admit">> \in Seq(Silent) /\ <<"settle">> \in Seq(Silent)
          /\ <<"openAds", "stamp", "put">> \in Seq(Silent)
      BY DEF Silent, Steps, RowSteps
    <3> QED
      BY <3>1, SilentIf, SilentConcat
  <2>2. PICK b \in BOOLEAN : b = (requests[r].lane = "seller")
    OBVIOUS
  <2>3. PICK k : k = [(IF b THEN OnCatalog(requests[r].catalog) ELSE OnRow)
                         EXCEPT !.req = r, !.ask = requests[r], !.on = @ \union {r}]
    OBVIOUS
  <2>4. PICK todo : todo = <<"admit">> \o If(b, <<"openAds", "stamp", "put">>) \o <<"settle">>
    OBVIOUS
  <2>5. Begin(c, k, todo)
    BY <1>2, <2>2, <2>3, <2>4 DEF ApproveJoin
  <2> QED
    BY <2>1, <2>4, <2>5 DEF Opens
<1>3. CASE ApproveLeave(c, r)
  <2>1. ASSUME NEW b \in BOOLEAN, NEW d \in BOOLEAN
        PROVE  If(b, <<"unstamp", "leaveSeller">>) \o If(d, <<"leaveBuyer">>) \o <<"settle">> \in Seq(Silent)
    <3>1. /\ <<"unstamp", "leaveSeller">> \in Seq(Silent)
          /\ <<"leaveBuyer">> \in Seq(Silent) /\ <<"settle">> \in Seq(Silent)
      BY DEF Silent, Steps, RowSteps
    <3> QED
      BY <3>1, SilentIf, SilentConcat
  <2>2. PICK b \in BOOLEAN :
           b = (row.status = "active" /\ requests[r].lane = "seller" /\ row.catalog # Nothing)
    OBVIOUS
  <2>3. PICK d \in BOOLEAN :
           d = (row.status = "active" /\ requests[r].lane = "buyer" /\ row.business)
    BY DEF Inv, TypeOK, Row
  <2> QED
    BY <1>3, <2>1, <2>2, <2>3 DEF ApproveLeave, Opens
<1> QED
  BY <1>1, <1>2, <1>3

LEMMA ManagingOpens ==
    ASSUME NEW c \in Calls,
           \/ \E status \in {"active", "paused", "banned", "removed"} : SetStatus(c, status)
           \/ RemoveMember(c)
           \/ \E k \in Catalogs, arg \in {"none", "confirmed"} : AddSeller(c, k, arg)
           \/ AddBuyer(c) \/ PauseCatalog(c) \/ ResumeCatalog(c)
           \/ \E step \in {"pause", "resume"} : SetBuyerPaused(c, step)
           \/ RemoveCatalog(c) \/ RemoveBuyer(c) \/ Appoint(c) \/ Dismiss(c)
    PROVE  Opens(c)
<1>1. ASSUME NEW status, SetStatus(c, status) PROVE Opens(c)
  <2>1. /\ <<>> \o <<"setStatus">> \in Seq(Silent)
        /\ <<"unstamp">> \o <<"setStatus">> \in Seq(Silent)
        /\ <<"stamp", "put">> \o <<"setStatus">> \in Seq(Silent)
    BY DEF Silent, Steps, RowSteps
  <2> QED
    BY <1>1, <2>1 DEF SetStatus, If, Opens
<1>2. CASE RemoveMember(c)
  <2>1. /\ <<>> \o <<"dropMember">> \in Seq(Silent)
        /\ <<"unstamp">> \o <<"dropMember">> \in Seq(Silent)
    BY DEF Silent, Steps, RowSteps
  <2> QED
    BY <1>2, <2>1 DEF RemoveMember, If, Opens
<1>3. CASE ResumeCatalog(c)
  <2>1. /\ <<"resume">> \o <<>> \in Seq(Silent)
        /\ <<"resume">> \o <<"stamp", "put">> \in Seq(Silent)
    BY DEF Silent, Steps, RowSteps
  <2> QED
    BY <1>3, <2>1 DEF ResumeCatalog, If, Opens
<1>4. CASE \E k \in Catalogs, arg \in {"none", "confirmed"} : AddSeller(c, k, arg)
  <2>1. <<"addSeller", "openAds", "stamp", "put">> \in Seq(Silent)
    BY DEF Silent, Steps, RowSteps
  <2> QED
    BY <1>4, <2>1 DEF AddSeller, Opens
<1>5. CASE PauseCatalog(c) \/ RemoveCatalog(c)
  <2>1. <<"halt", "pause">> \in Seq(Silent) /\ <<"unstamp", "dropCatalog">> \in Seq(Silent)
    BY DEF Silent, Steps, RowSteps
  <2> QED
    BY <1>5, <2>1 DEF PauseCatalog, RemoveCatalog, Opens
<1>6. CASE \/ AddBuyer(c) \/ RemoveBuyer(c) \/ Appoint(c) \/ Dismiss(c)
           \/ \E step \in {"pause", "resume"} : SetBuyerPaused(c, step)
  <2>1. \A step \in {"addBuyer", "dropBuyer", "appoint", "dismiss", "pause", "resume"} :
           <<step>> \in Seq(Silent)
    BY DEF Silent, Steps, RowSteps
  <2> QED
    BY <1>6, <2>1 DEF AddBuyer, RemoveBuyer, Appoint, Dismiss, SetBuyerPaused, Opens
<1> QED
  BY <1>1, <1>2, <1>3, <1>4, <1>5, <1>6

LEMMA BelongingOpens ==
    ASSUME NEW c \in Calls,
           \/ \E arg \in {"none", "buyer", "seller"} : Join(c, arg)
           \/ \E k \in Catalogs : CloseCatalog(c, k)
           \/ Publish(c) \/ Unpublish(c)
           \/ \E a \in Ads : EditCategory(c, a) \/ PublishAd(c, a)
    PROVE  Opens(c)
<1>1. /\ <<"join">> \in Seq(Silent) /\ <<"close", "release">> \in Seq(Silent)
      /\ <<"stamp", "put", "show">> \in Seq(Silent) /\ <<"unstamp", "hide">> \in Seq(Silent)
      /\ <<"stamp", "put">> \in Seq(Silent)
  BY DEF Silent, Steps, RowSteps
<1>2. CASE \/ \E arg \in {"none", "buyer", "seller"} : Join(c, arg)
           \/ \E k \in Catalogs : CloseCatalog(c, k)
  BY <1>1, <1>2 DEF Join, CloseCatalog, Opens
<1>3. CASE Publish(c) \/ Unpublish(c)
  BY <1>1, <1>3 DEF Publish, Unpublish, Opens
<1>4. CASE \E a \in Ads : EditCategory(c, a) \/ PublishAd(c, a)
  BY <1>1, <1>4 DEF EditCategory, PublishAd, Opens
<1> QED
  BY <1>2, <1>3, <1>4

\* Who begins to ask found nothing pending.
LEMMA AskingAsks ==
    ASSUME Inv, NEW c \in Calls, NEW lane \in Lanes, NEW k \in Catalogs \union {Nothing},
           RequestMembership(c, lane, k) \/ RequestLeave(c, lane), NEW kind
    PROVE  /\ requests' = requests
           /\ Asks(kind)' \subseteq Asks(kind) \/ Pending(kind) = {}
<1>1. PICK q : q = Reading({})
  OBVIOUS
<1>2. q \in Call
  <2>1. {} \in SUBSET Things
    OBVIOUS
  <2> QED
    BY <1>1, <2>1, ReadingTyped
<1>3. PICK of, ask :
          /\ of \in {"join", "leave"} /\ ask.kind = of /\ Pending(of) = {}
          /\ Begin(c, [q EXCEPT !.ask = ask], <<"ask">>)
  BY <1>1 DEF RequestMembership, RequestLeave
<1>4. PICK n : n = [[q EXCEPT !.ask = ask] EXCEPT !.todo = <<"ask">>]
  OBVIOUS
<1>5. n.ask = ask
  BY <1>2, <1>4 DEF Call
<1>6. requests' = requests /\ call' = [call EXCEPT ![c] = n]
  BY <1>3, <1>4 DEF Begin
<1>7. of # kind => Asks(kind)' \subseteq Asks(kind)
  BY <1>3, <1>5, <1>6 DEF Asks, At, Inv, CallsTyped
<1> QED
  BY <1>3, <1>6, <1>7

Quiet(kind) == Asks(kind)' \subseteq Asks(kind) /\ requests' = requests

LEMMA StampAsks ==
    ASSUME Inv, Sound, NEW c \in Calls, Stamp(c), NEW kind PROVE Quiet(kind)
<1>1. PICK k : k = call[c]
  OBVIOUS
<1>2. k \in Call /\ Planned(k) /\ k.todo # <<>>
  BY <1>1 DEF Inv, CallsTyped, Sound, Stamp, At
<1>3. PICK chosen : chosen = {a \in k.scope : /\ ads[a] = "active" /\ a \in open
                                              /\ optOut[a] => k.arg = "force"}
  OBVIOUS
<1>4. PICK n : n = [k EXCEPT !.todo = Tail(@), !.scope = chosen,
                             !.new = {a \in chosen : pub[a] = "none"}]
  OBVIOUS
<1>5. n.todo = Tail(k.todo)
  BY <1>2, <1>3, <1>4 DEF Call
<1>6. call' = [call EXCEPT ![c] = n] /\ requests' = requests
  BY <1>1, <1>2, <1>3, <1>4 DEF Stamp, boardVars, Inv, CallsTyped, Call
<1>7. n.todo # <<>> => Head(n.todo) # "ask"
  BY <1>2, <1>5, AskedAlready
<1> QED
  BY <1>6, <1>7, SlotAsks DEF Quiet

\* A step makes no call ask that found a request pending; a request comes of a call.
LEMMA NextAsks ==
    ASSUME Inv, Inv', Sound, [Next]_vars, NEW kind \in {"join", "leave"}
    PROVE  \/ Quiet(kind)
           \/ Pending(kind) = {} /\ requests' = requests
           \/ \E c \in Calls : /\ WriteAsk(c) \/ WriteShut(c) \/ Settle(c)
                               /\ Asks(kind)' \subseteq Asks(kind) \ {c}
<1>1. ASSUME NEW c \in Calls, Opens(c) PROVE Quiet(kind)
  BY <1>1, OpensAsks DEF Quiet
<1>2. ASSUME NEW c \in Calls, NEW step, At(c, step), Go(c) \/ Stop(c), requests' = requests
      PROVE  Quiet(kind)
  BY <1>2, GoOrStopAsks DEF Quiet
<1>3. ASSUME NEW c \in Calls, NEW step, NEW new, WriteRow(c, step, new) PROVE Quiet(kind)
  BY <1>2, <1>3 DEF WriteRow
<1>4. ASSUME NEW a \in Ads,
             \/ WithdrawAd(a)
             \/ \E status \in {"active", "deleted"}, toMarket \in BOOLEAN : EditAd(a, status, toMarket)
      PROVE  Quiet(kind)
  BY <1>4 DEF WithdrawAd, EditAd, AtOnce, Quiet, Asks, At
<1>5. ASSUME NEW c \in Calls, Managing(c) PROVE Quiet(kind)
  <2>1. CASE \/ WriteStatus(c) \/ DropMember(c) \/ WriteSeller(c) \/ WriteBuyer(c) \/ Pause(c)
             \/ Resume(c) \/ DropCatalog(c) \/ DropBuyer(c) \/ WriteAppoint(c) \/ WriteDismiss(c)
    BY <1>3, <2>1 DEF WriteStatus, DropMember, WriteSeller, WriteBuyer, Pause, Resume, DropCatalog,
                      DropBuyer, WriteAppoint, WriteDismiss
  <2> QED
    BY <1>1, <1>5, <2>1, ManagingOpens DEF Managing
<1>6. ASSUME NEW c \in Calls, Belonging(c) PROVE Quiet(kind)
  <2>1. CASE WriteJoin(c) \/ Show(c) \/ Hide(c) \/ Release(c)
    BY <1>3, <2>1 DEF WriteJoin, Show, Hide, Release
  <2>2. CASE Close(c)
    BY <1>2, <2>2 DEF Close
  <2> QED
    BY <1>1, <1>6, <2>1, <2>2, BelongingOpens DEF Belonging
<1>7. ASSUME NEW c \in Calls, Advertising(c) PROVE Quiet(kind)
  <2>1. ASSUME NEW n, call' = [call EXCEPT ![c] = n], requests' = requests,
               n.todo \in {<<"findMarket">>, <<"stamp", "put">>}
        PROVE  Quiet(kind)
    <3>1. Head(n.todo) # "ask"
      BY <2>1, Lists
    <3> QED
      BY <2>1, <3>1, SlotAsks DEF Quiet
  <2>2. ASSUME NEW a \in Ads, CompleteAd(c, a) \/ \E toMarket \in BOOLEAN : CreateAd(c, a, toMarket)
        PROVE  Quiet(kind)
    <3>1. CASE call' = call
      BY <2>2, <3>1 DEF CompleteAd, CreateAd, Quiet, Asks, At
    <3>2. CASE call' # call
      <4>1. PICK q : q = OnAd(a)
        OBVIOUS
      <4>2. q \in Call
        BY <4>1, OnAdTyped
      <4>3. PICK n : n = [q EXCEPT !.todo = <<"findMarket">>]
        OBVIOUS
      <4>4. n.todo = <<"findMarket">>
        BY <4>2, <4>3 DEF Call
      <4>5. call' = [call EXCEPT ![c] = n] /\ requests' = requests
        BY <2>2, <3>2, <4>1, <4>3 DEF CompleteAd, CreateAd
      <4> QED
        BY <2>1, <4>4, <4>5
    <3> QED
      BY <3>1, <3>2
  <2>3. CASE FindMarket(c)
    <3>1. CASE Go(c)
      BY <1>2, <2>3, <3>1 DEF FindMarket
    <3>2. CASE ~ Go(c)
      <4>1. PICK q : q = call[c]
        OBVIOUS
      <4>2. q \in Call
        BY <4>1 DEF Inv, CallsTyped
      <4>3. PICK n : n = [q EXCEPT !.todo = <<"stamp", "put">>]
        OBVIOUS
      <4>4. n.todo = <<"stamp", "put">>
        BY <4>2, <4>3 DEF Call
      <4>5. call' = [call EXCEPT ![c] = n] /\ requests' = requests
        BY <2>3, <3>2, <4>1, <4>3 DEF FindMarket
      <4> QED
        BY <2>1, <4>4, <4>5
    <3> QED
      BY <3>1, <3>2
  <2> QED
    BY <1>1, <1>7, <2>2, <2>3, BelongingOpens DEF Advertising
<1>8. ASSUME NEW c \in Calls, Stamping(c) \/ Cut(c) PROVE Quiet(kind)
  <2>1. CASE Put(c) \/ PutFails(c) \/ Unstamp(c) \/ Halt(c) \/ OpenAds(c)
    BY <1>2, <2>1 DEF Put, PutFails, Unstamp, Halt, OpenAds, boardVars
  <2>2. CASE Cut(c)
    BY <1>2, <2>2 DEF Cut, At
  <2>3. CASE Stamp(c)
    BY <2>3, StampAsks
  <2> QED
    BY <1>8, <2>1, <2>2, <2>3 DEF Stamping
<1>9. ASSUME NEW c \in Calls, Asking(c)
      PROVE  \/ Quiet(kind)
             \/ Pending(kind) = {} /\ requests' = requests
             \/ /\ WriteAsk(c) \/ WriteShut(c) \/ Settle(c)
                /\ Asks(kind)' \subseteq Asks(kind) \ {c}
  <2>1. ASSUME NEW lane \in Lanes, NEW k \in Catalogs \union {Nothing},
               RequestMembership(c, lane, k) \/ RequestLeave(c, lane)
        PROVE  Quiet(kind) \/ (Pending(kind) = {} /\ requests' = requests)
    BY <2>1, AskingAsks DEF Quiet
  <2>2. ASSUME NEW r \in Requests, Shut(c, r) \/ ApproveJoin(c, r) \/ ApproveLeave(c, r)
        PROVE  Quiet(kind)
    BY <1>1, <2>2, DecidingOpens
  <2>3. CASE WriteAsk(c) \/ WriteShut(c) \/ Settle(c)
    <3>1. PICK step : At(c, step) /\ Go(c)
      BY <2>3 DEF WriteAsk, WriteShut, Settle
    <3>2. Asks(kind)' \subseteq Asks(kind) \ {c}
      BY <3>1, GoOrStopAsks
    <3> QED
      BY <2>3, <3>2
  <2>4. CASE Admit(c) \/ LeaveSeller(c) \/ LeaveBuyer(c)
    BY <1>3, <2>4 DEF Admit, LeaveSeller, LeaveBuyer
  <2> QED
    BY <1>9, <2>1, <2>2, <2>3, <2>4 DEF Asking
<1>10. CASE UNCHANGED vars
  BY <1>10 DEF vars, Quiet, Asks, At
<1> QED
  BY <1>4, <1>5, <1>6, <1>7, <1>8, <1>9, <1>10 DEF Next

LEMMA NextBounded ==
    ASSUME Inv, Inv', Sound, [Next]_vars, NEW kind \in {"join", "leave"}, Bounded(kind)
    PROVE  Bounded(kind)'
<1> DEFINE P == Pending(kind)
           A == Asks(kind)
<1>1. /\ IsFiniteSet(Calls) /\ Cardinality(Calls) \in Nat
      /\ A \subseteq Calls /\ A' \subseteq Calls
  BY FiniteAssumption, FS_CardinalityType DEF Asks
<1>2. /\ IsFiniteSet(A) /\ IsFiniteSet(A') /\ IsFiniteSet(P)
      /\ Cardinality(A) \in Nat /\ Cardinality(A') \in Nat /\ Cardinality(P) \in Nat
      /\ Cardinality(A') <= Cardinality(Calls) /\ Cardinality(P) + Cardinality(A) <= Cardinality(Calls)
  <2>1. IsFiniteSet(A) /\ IsFiniteSet(A') /\ Cardinality(A') <= Cardinality(Calls)
    BY <1>1, FS_Subset
  <2> HIDE DEF A, P
  <2>2. IsFiniteSet(P) /\ Cardinality(P) + Cardinality(A) <= Cardinality(Calls)
    BY DEF Bounded, A, P
  <2> QED
    BY <2>1, <2>2, FS_CardinalityType
<1>3. CASE Quiet(kind)
  <2>1. P' = P /\ A' \subseteq A
    BY <1>3 DEF Quiet, Pending
  <2> HIDE DEF A, P
  <2>2. Cardinality(A') <= Cardinality(A)
    BY <1>2, <2>1, FS_Subset
  <2>3. IsFiniteSet(P') /\ Cardinality(P') + Cardinality(A') <= Cardinality(Calls)
    BY <1>1, <1>2, <2>1, <2>2
  <2> QED
    BY <2>3 DEF Bounded, A, P
<1>4. CASE Pending(kind) = {} /\ requests' = requests
  <2>1. P' = {}
    BY <1>4 DEF Pending
  <2> HIDE DEF A, P
  <2>2. IsFiniteSet(P') /\ Cardinality(P') + Cardinality(A') <= Cardinality(Calls)
    BY <1>1, <1>2, <2>1, FS_EmptySet
  <2> QED
    BY <2>2 DEF Bounded, A, P
<1>5. ASSUME NEW c \in Calls, WriteAsk(c) \/ WriteShut(c) \/ Settle(c),
             Asks(kind)' \subseteq Asks(kind) \ {c}
      PROVE  Bounded(kind)'
  <2>1. A' \subseteq A \ {c}
    BY <1>5
  <2>2. \/ P' \subseteq P
        \/ c \in A /\ \E r : P' = P \union {r}
    <3>1. CASE WriteAsk(c)
      <4>1. PICK r \in Requests : requests' = [requests EXCEPT ![r] = call[c].ask]
        BY <3>1 DEF WriteAsk
      <4>2. CASE call[c].ask.kind = kind
        <5>1. c \in A
          BY <3>1, <4>2 DEF WriteAsk, Asks
        <5>2. P' = P \union {r}
          BY <4>1, <4>2 DEF Pending, Inv, TypeOK
        <5> QED
          BY <5>1, <5>2
      <4>3. CASE call[c].ask.kind # kind
        BY <4>1, <4>3 DEF Pending, Inv, TypeOK
      <4> QED
        BY <4>2, <4>3
    <3>2. CASE WriteShut(c) \/ Settle(c)
      <4>1. requests' = [requests EXCEPT ![call[c].req] = Closed] /\ Closed.kind # kind
        BY <3>2 DEF WriteShut, Settle, Closed
      <4> QED
        BY <4>1 DEF Pending, Inv, TypeOK
    <3> QED
      BY <1>5, <3>1, <3>2
  <2> HIDE DEF A, P
  <2>3. Cardinality(A') <= Cardinality(A) /\ (c \in A => Cardinality(A') + 1 <= Cardinality(A))
    <3>1. /\ IsFiniteSet(A \ {c})
          /\ Cardinality(A \ {c}) = IF c \in A THEN Cardinality(A) - 1 ELSE Cardinality(A)
      BY <1>2, FS_RemoveElement
    <3>2. Cardinality(A') <= Cardinality(A \ {c})
      BY <2>1, <3>1, FS_Subset
    <3> QED
      BY <1>2, <3>1, <3>2
  <2>4. CASE P' \subseteq P
    <3>1. IsFiniteSet(P') /\ Cardinality(P') <= Cardinality(P) /\ Cardinality(P') \in Nat
      BY <1>2, <2>4, FS_Subset, FS_CardinalityType
    <3>2. Cardinality(P') + Cardinality(A') <= Cardinality(Calls)
      BY <1>1, <1>2, <2>3, <3>1
    <3> QED
      BY <3>1, <3>2 DEF Bounded, A, P
  <2>5. ASSUME NEW r, P' = P \union {r}, c \in A PROVE Bounded(kind)'
    <3>1. IsFiniteSet(P') /\ Cardinality(P') \in {Cardinality(P), Cardinality(P) + 1}
      BY <1>2, <2>5, FS_AddElement
    <3>2. Cardinality(P') + Cardinality(A') <= Cardinality(Calls)
      BY <1>1, <1>2, <2>3, <2>5, <3>1
    <3> QED
      BY <3>1, <3>2 DEF Bounded, A, P
  <2> QED
    BY <2>2, <2>4, <2>5
<1> HIDE DEF A, P
<1> QED
  BY <1>3, <1>4, <1>5, NextAsks

\* No overlap of calls leaves a member with more pending requests of a kind than there
\* are calls at a time: a call asks only when it found none, and makes one request.
THEOREM RequestsAreBounded == Spec => []PendingIsBounded
<1> DEFINE B == \A kind \in {"join", "leave"} : Bounded(kind)
<1>1. Init => B
  <2> SUFFICES ASSUME Init, NEW kind \in {"join", "leave"} PROVE Bounded(kind)
    OBVIOUS
  <2>1. Pending(kind) = {} /\ Asks(kind) = {}
    <3>1. requests = [r \in Requests |-> Closed] /\ call = [c \in Calls |-> Idle]
      BY DEF Init
    <3>2. Closed.kind = "closed" /\ Idle.todo = <<>>
      BY DEF Closed, Idle
    <3> QED
      BY <3>1, <3>2 DEF Pending, Asks, At
  <2>2. Cardinality(Calls) \in Nat
    BY FiniteAssumption, FS_CardinalityType
  <2> QED
    BY <2>1, <2>2, FS_EmptySet DEF Bounded
<1>2. Inv /\ Inv' /\ Sound /\ [Next]_vars /\ B => B'
  BY NextBounded
<1>3. B => PendingIsBounded
  <2> SUFFICES ASSUME NEW kind \in {"join", "leave"}, Bounded(kind)
               PROVE  Cardinality(Pending(kind)) <= Cardinality(Calls)
    BY DEF PendingIsBounded
  <2>1. IsFiniteSet(Asks(kind))
    BY FiniteAssumption, FS_Subset DEF Asks
  <2> QED
    BY <2>1, FiniteAssumption, FS_CardinalityType DEF Bounded
<1> HIDE DEF B
<1> QED
  BY <1>1, <1>2, <1>3, SoundAlways, PTL DEF Spec

=============================================================================
