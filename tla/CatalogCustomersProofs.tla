----------------------- MODULE CatalogCustomersProofs -----------------------
(***************************************************************************)
(* Proofs about CatalogCustomers, for every number of buyers, sellers,     *)
(* buying arms and concurrent calls.                                       *)
(***************************************************************************)
EXTENDS CatalogCustomers, TLAPS

CallType == [at : Steps, buyer : Buyers \union {Nobody}, seller : Sellers \union {Nobody},
             arm : Inquiries \union {Nobody}, arg : Status, side : Sides,
             fresh : BOOLEAN, todo : SUBSET (Buyers \union Inquiries)]

CallsTyped == call \in [Calls -> CallType] /\ \A c \in Calls : WellFormed(call[c])
Disturbable == Buyers \union (Sellers \ {Owner})

LanesTyped ==
    /\ rows \subseteq Buyers
    /\ customer \in [Buyers -> Status]
    /\ via \in [Buyers -> {"none", "owner_add", "self_request"}]
    /\ assigned \in [Buyers -> Sellers \union {Nobody}]
    /\ sells \subseteq Sellers /\ Owner \in sells
ArmsTyped ==
    /\ supplier \in [Inquiries -> Status]
    /\ supVia \in [Inquiries -> {"none", "buyer_add", "supplier_request"}]
    /\ supUser \in [Inquiries -> Sides]
    /\ agreed \in [Buyers -> SUBSET Sides]

LEMMA TypeParts ==
    TypeOK <=> LanesTyped /\ ArmsTyped /\ CallsTyped /\ disturbed \subseteq Disturbable
BY DEF TypeOK, LanesTyped, ArmsTyped, CallsTyped, CallType, Disturbable

USE OwnerAssumption, BuyerOfAssumption, DistinctAssumption
    DEF Steps, OnLane, OnArm, OnTie, OnBoth, OnSeller, Status, Sides

LEMMA IdleTyped == Idle \in CallType /\ WellFormed(Idle)
BY DEF Idle, LaneCall, CallType, WellFormed

\* One slot changes, to a call that is well formed.
LEMMA CallStep ==
    ASSUME CallsTyped, NEW c \in Calls, NEW k \in CallType, WellFormed(k),
           call' = [call EXCEPT ![c] = k]
    PROVE  CallsTyped'
BY DEF CallsTyped

\* Only users that may be disturbed ever are.
LEMMA BusyTyped ==
    ASSUME CallsTyped PROVE Busy \subseteq Disturbable
<1>1. \A c \in Calls : Concerned(call[c]) \subseteq Disturbable
  BY DEF CallsTyped, CallType, Concerned, Disturbable
<1> QED
  BY <1>1 DEF Busy

LEMMA MeetTyped ==
    ASSUME CallsTyped, disturbed \subseteq Disturbable, NEW xs, Meet(xs)
    PROVE  disturbed' \subseteq Disturbable
BY BusyTyped DEF Meet

\* The calls handlers begin with.
LEMMA LaneCallTyped ==
    ASSUME NEW step \in OnLane \union OnTie \union {"collect"}, NEW b \in Buyers \union {Nobody},
           NEW s \in Sellers \union {Nobody}, NEW side \in Sides, NEW fresh \in BOOLEAN,
           step = "collect" \/ b \in Buyers,
           step \in {"collect", "find", "add", "assign"} => s \in Sellers,
           step = "collect" => s # Owner
    PROVE  LaneCall(step, b, s, side, fresh) \in CallType /\ WellFormed(LaneCall(step, b, s, side, fresh))
BY DEF LaneCall, CallType, WellFormed

LEMMA ArmCallTyped ==
    ASSUME NEW step \in OnArm, NEW i \in Inquiries, NEW s \in Sellers \union {Nobody},
           NEW arg \in Status, NEW side \in Sides, NEW fresh \in BOOLEAN
    PROVE  ArmCall(step, i, s, arg, side, fresh) \in CallType /\ WellFormed(ArmCall(step, i, s, arg, side, fresh))
BY DEF ArmCall, CallType, WellFormed

LEMMA BeginTyped ==
    ASSUME CallsTyped, disturbed \subseteq Disturbable, NEW c \in Calls,
           NEW k \in CallType, WellFormed(k), Begin(c, k)
    PROVE  CallsTyped' /\ disturbed' \subseteq Disturbable
BY CallStep, MeetTyped DEF Begin

LEMMA DoneTyped ==
    ASSUME CallsTyped, disturbed \subseteq Disturbable, NEW c \in Calls, Done(c)
    PROVE  CallsTyped' /\ disturbed' \subseteq Disturbable
BY CallStep, IdleTyped DEF Done

\* A running call that goes on with another step, knowing what it looked for.
LEMMA FreshTyped ==
    ASSUME CallsTyped, NEW c \in Calls, NEW fresh \in BOOLEAN, NEW step,
           \/ call[c].at = "find" /\ step = "add"
           \/ call[c].at \in OnTie /\ step \in OnTie,
           call' = [call EXCEPT ![c] = [call[c] EXCEPT !.at = step, !.fresh = fresh]]
    PROVE  CallsTyped'
<1> DEFINE k == [call[c] EXCEPT !.at = step, !.fresh = fresh]
<1>1. WellFormed(call[c])
  BY DEF CallsTyped
<1>2. k \in CallType /\ k.at = step /\ k.buyer = call[c].buyer /\ k.seller = call[c].seller
      /\ k.arm = call[c].arm /\ k.todo = call[c].todo
  <2>1. step \in Steps
    OBVIOUS
  <2>2. call[c] \in CallType
    BY DEF CallsTyped
  <2> HIDE DEF Steps
  <2> QED
    BY <2>1, <2>2 DEF CallType
<1>3. WellFormed(k)
  <2> HIDE DEF k
  <2>1. CASE call[c].at = "find" /\ step = "add"
    BY <1>1, <1>2, <2>1 DEF WellFormed
  <2>2. CASE call[c].at \in OnTie /\ step \in OnTie
    BY <1>1, <1>2, <2>2 DEF WellFormed
  <2> QED
    BY <2>1, <2>2
<1> QED
  BY <1>2, <1>3, CallStep

\* Mirroring: the call goes on with inquiries, or is over.
LEMMA OnwardTyped ==
    ASSUME CallsTyped, disturbed \subseteq Disturbable, NEW c \in Calls,
           NEW k \in CallType, WellFormed(k), Onward(c, k)
    PROVE  CallsTyped' /\ disturbed' \subseteq Disturbable
BY CallStep, IdleTyped DEF Onward

LEMMA MirrorTyped ==
    ASSUME CallsTyped, disturbed \subseteq Disturbable, NEW c \in Calls,
           call[c].at \in OnLane, NEW status \in Status, NEW side \in Sides,
           Mirror(c, status, side)
    PROVE  CallsTyped' /\ disturbed' \subseteq Disturbable
<1>1. call[c] \in CallType /\ WellFormed(call[c])
  BY DEF CallsTyped
<1>2. PICK arms \in SUBSET ArmsOf(call[c].buyer) :
         Onward(c, [call[c] EXCEPT !.at = "mirror", !.arg = status, !.side = side, !.todo = arms])
  BY DEF Mirror
<1> DEFINE k == [call[c] EXCEPT !.at = "mirror", !.arg = status, !.side = side, !.todo = arms]
<1>3. k \in CallType /\ k.at = "mirror" /\ k.buyer = call[c].buyer /\ k.todo \subseteq Inquiries
  BY <1>1, <1>2 DEF CallType, ArmsOf
<1>4. WellFormed(k)
  <2> HIDE DEF k
  <2> QED
    BY <1>1, <1>3 DEF WellFormed
<1>5. Onward(c, k)
  BY <1>2
<1> QED
  BY <1>3, <1>4, <1>5, OnwardTyped

-----------------------------------------------------------------------------
(* Type correctness *)

\* The steps of calls, where they leave the calls and the disturbed users.
LEMMA CallsStayTyped ==
    ASSUME TypeOK, Next
    PROVE  CallsTyped' /\ disturbed' \subseteq Disturbable
<1> DEFINE Goal == CallsTyped' /\ disturbed' \subseteq Disturbable
<1>0. CallsTyped /\ LanesTyped /\ ArmsTyped /\ disturbed \subseteq Disturbable
  BY TypeParts
<1>1. \A c \in Calls : call[c] \in CallType /\ WellFormed(call[c])
  BY <1>0 DEF CallsTyped
<1>2. ASSUME NEW s \in Sellers, StartSelling(s) \/ LeaveBusinessTeam(s) PROVE Goal
  <2>1. Meet({s}) /\ UNCHANGED call
    BY <1>2 DEF StartSelling, LeaveBusinessTeam
  <2> QED
    BY <1>0, <2>1, MeetTyped DEF CallsTyped
<1>3. ASSUME NEW c \in Calls, Laning(c) PROVE Goal
  <2>1. ASSUME NEW b \in Buyers, ReadJoin(c, b) \/ ReadReject(c, b) \/ ReadDecline(c, b)
        PROVE Goal
    BY <1>0, <2>1, LaneCallTyped, BeginTyped DEF ReadJoin, ReadReject, ReadDecline
  <2>2. ASSUME NEW b \in Buyers, ReadConfirm(c, b) PROVE Goal
    <3>1. assigned[b] \in Sellers \union {Nobody}
      BY <1>0 DEF LanesTyped
    <3> QED
      BY <1>0, <2>2, <3>1, LaneCallTyped, BeginTyped DEF ReadConfirm
  <2>3. ASSUME NEW b \in Buyers, NEW side \in Sides, ReadRemove(c, b, side) PROVE Goal
    BY <1>0, <2>3, LaneCallTyped, BeginTyped DEF ReadRemove
  <2>4. ASSUME NEW b \in Buyers, NEW s \in Sellers \union {Nobody}, ReadApprove(c, b, s) PROVE Goal
    BY <1>0, <2>4, LaneCallTyped, BeginTyped DEF ReadApprove
  <2>5. ASSUME NEW b \in Buyers, NEW s \in Sellers, ReadAdd(c, b, s) \/ ReadAssign(c, b, s)
        PROVE Goal
    BY <1>0, <2>5, LaneCallTyped, BeginTyped DEF ReadAdd, ReadAssign
  <2>6. ASSUME WriteJoin(c) \/ WriteApprove(c) \/ WriteReject(c) \/ WriteAssign(c) PROVE Goal
    BY <1>0, <2>6, DoneTyped DEF WriteJoin, WriteApprove, WriteReject, WriteAssign
  <2>7. CASE FindRow(c)
    <3>1. /\ call[c].at = "find" /\ UNCHANGED disturbed
          /\ call' = [call EXCEPT ![c] = [call[c] EXCEPT !.at = "add", !.fresh = call[c].buyer \notin rows]]
      BY <2>7 DEF FindRow, At
    <3>2. (call[c].buyer \notin rows) \in BOOLEAN
      OBVIOUS
    <3> QED
      BY <1>0, <3>1, <3>2, FreshTyped
  <2>8. CASE WriteAdd(c)
    <3>1. CASE Mirror(c, "pending", "seller")
      BY <1>0, <2>8, <3>1, MirrorTyped DEF WriteAdd, At
    <3>2. CASE Done(c)
      BY <1>0, <3>2, DoneTyped
    <3> QED
      BY <2>8, <3>1, <3>2 DEF WriteAdd
  <2>9. CASE WriteConfirm(c)
    BY <1>0, <2>9, MirrorTyped DEF WriteConfirm, At
  <2>10. CASE WriteDecline(c)
    BY <1>0, <2>10, DoneTyped DEF WriteDecline
  <2>11. CASE WriteRemove(c)
    <3>1. call[c].side \in Sides
      BY <1>1 DEF CallType
    <3> QED
      BY <1>0, <2>11, <3>1, MirrorTyped DEF WriteRemove, At
  <2> QED
    BY <1>3, <2>1, <2>2, <2>3, <2>4, <2>5, <2>6, <2>7, <2>8, <2>9, <2>10, <2>11 DEF Laning
<1>4. ASSUME NEW c \in Calls, Teaming(c) PROVE Goal
  <2>1. ASSUME NEW s \in Sellers, ReadRemoval(c, s) PROVE Goal
    <3>1. s # Owner /\ Begin(c, LaneCall("collect", Nobody, s, "seller", FALSE))
      BY <2>1 DEF ReadRemoval
    <3> QED
      BY <1>0, <3>1, LaneCallTyped, BeginTyped
  <2>2. CASE Collect(c)
    <3> DEFINE mine == {b \in Buyers : customer[b] = "active" /\ assigned[b] = call[c].seller}
               step == IF mine = {} THEN "unsell" ELSE "unassign"
               k == [call[c] EXCEPT !.at = step, !.todo = mine]
    <3>1. call' = [call EXCEPT ![c] = k] /\ Meet(mine) /\ call[c].at = "collect"
      BY <2>2 DEF Collect, At
    <3>2. k \in CallType /\ k.seller = call[c].seller /\ k.at \in {"unsell", "unassign"}
          /\ k.todo \subseteq Buyers
      <4>1. step \in {"unsell", "unassign"} /\ mine \subseteq Buyers
        OBVIOUS
      <4> HIDE DEF step, mine
      <4> QED
        BY <1>1, <4>1 DEF CallType
    <3>3. WellFormed(k)
      <4> HIDE DEF k
      <4> QED
        BY <1>1, <3>1, <3>2 DEF WellFormed
    <3> HIDE DEF mine, k
    <3> QED
      BY <1>0, <3>1, <3>2, <3>3, CallStep, MeetTyped
  <2>3. CASE Unassign(c)
    <3> DEFINE k == [call[c] EXCEPT !.at = "unsell", !.todo = {}]
    <3>1. call' = [call EXCEPT ![c] = k] /\ UNCHANGED disturbed /\ call[c].at = "unassign"
      BY <2>3 DEF Unassign, At
    <3>2. k \in CallType /\ k.seller = call[c].seller /\ k.at = "unsell"
      BY <1>1 DEF CallType
    <3>3. WellFormed(k)
      <4> HIDE DEF k
      <4> QED
        BY <1>1, <3>1, <3>2 DEF WellFormed
    <3> QED
      BY <1>0, <3>1, <3>2, <3>3, CallStep
  <2>4. CASE Unsell(c)
    BY <1>0, <2>4, DoneTyped DEF Unsell
  <2> QED
    BY <1>4, <2>1, <2>2, <2>3, <2>4 DEF Teaming
<1>5. ASSUME NEW c \in Calls, Arming(c) PROVE Goal
  <2>1. ASSUME NEW i \in Inquiries, ReadInvite(c, i) \/ ReadRequest(c, i) PROVE Goal
    BY <1>0, <2>1, ArmCallTyped, BeginTyped DEF ReadInvite, ReadRequest
  <2>2. ASSUME NEW i \in Inquiries, NEW side \in Sides, NEW verdict \in {"active", "declined", "removed"},
               ReadDecide(c, i, side, verdict)
        PROVE Goal
    <3> DEFINE step == IF verdict = "declined" /\ supVia[i] = "supplier_request"
                       THEN "refuse" ELSE "decide"
               s == IF verdict = "active" THEN assigned[BuyerOf[i]] ELSE Nobody
    <3>1. step \in OnArm /\ s \in Sellers \union {Nobody}
      BY <1>0 DEF LanesTyped
    <3>2. Begin(c, ArmCall(step, i, s, verdict, side, FALSE))
      BY <2>2 DEF ReadDecide
    <3> HIDE DEF step, s
    <3> QED
      BY <1>0, <3>1, <3>2, ArmCallTyped, BeginTyped
  <2>3. CASE WriteAsked(c) \/ Lower(c) \/ Sync(c)
    BY <1>0, <2>3, DoneTyped DEF WriteAsked, RowAsked, Lower, Sync
  <2>4. ASSUME NEW step \in {"findRow", "ask"}, ToLane(c, step), call[c].at \in OnArm PROVE Goal
    <3>1. call[c].buyer \in Buyers /\ call[c].seller \in Sellers \union {Nobody}
      BY <1>1, <2>4 DEF CallType, WellFormed
    <3> QED
      BY <1>0, <2>4, <3>1, LaneCallTyped, CallStep DEF ToLane
  <2>5. CASE WriteDecide(c)
    BY <1>0, <2>4, <2>5, DoneTyped DEF WriteDecide
  <2>6. CASE Ask(c)
    <3>1. CASE Go(c, "lower")
      <4>1. call[c].fresh \in BOOLEAN /\ call[c] \in CallType
        BY <1>1 DEF CallType
      <4>2. [call[c] EXCEPT !.at = "lower", !.fresh = call[c].fresh] = [call[c] EXCEPT !.at = "lower"]
        BY <4>1 DEF CallType
      <4>3. call' = [call EXCEPT ![c] = [call[c] EXCEPT !.at = "lower"]] /\ UNCHANGED disturbed
        BY <3>1 DEF Go
      <4>4. call[c].at = "ask"
        BY <2>6 DEF Ask, At
      <4> QED
        BY <1>0, <4>1, <4>2, <4>3, <4>4, FreshTyped
    <3> QED
      BY <1>0, <2>6, <3>1, DoneTyped DEF Ask
  <2>7. CASE FindLane(c)
    <3>1. /\ call[c].at = "findRow" /\ UNCHANGED disturbed
          /\ call' = [call EXCEPT ![c] = [call[c] EXCEPT !.at = "sync", !.fresh = call[c].buyer \notin rows]]
      BY <2>7 DEF FindLane, At
    <3> QED
      BY <1>0, <3>1, FreshTyped
  <2> QED
    BY <1>5, <2>1, <2>2, <2>3, <2>5, <2>6, <2>7 DEF Arming
<1>6. ASSUME NEW c \in Calls, MirrorLook(c) PROVE Goal
  <2>1. PICK i \in call[c].todo :
          LET rest == [call[c] EXCEPT !.todo = @ \ {i}] IN
          IF Copied(i, call[c].arg)
          THEN /\ call' = [call EXCEPT ![c] = [rest EXCEPT !.at = "put", !.arm = i,
                                                           !.fresh = supplier[i] = "none"]]
               /\ UNCHANGED disturbed
          ELSE Onward(c, rest)
    BY <1>6 DEF MirrorLook
  <2>2. call[c].at = "mirror"
    BY <1>6 DEF MirrorLook, At
  <2>3. call[c].buyer \in Buyers /\ call[c].todo \subseteq Inquiries /\ i \in Inquiries
    BY <1>1, <2>1, <2>2 DEF WellFormed
  <2> DEFINE rest == [call[c] EXCEPT !.todo = @ \ {i}]
             k == [rest EXCEPT !.at = "put", !.arm = i, !.fresh = supplier[i] = "none"]
  <2>4. /\ rest \in CallType /\ rest.at = "mirror" /\ rest.buyer = call[c].buyer
        /\ rest.todo \subseteq Inquiries
    BY <1>1, <2>2, <2>3 DEF CallType
  <2>5. WellFormed(rest)
    <3> HIDE DEF rest
    <3> QED
      BY <2>3, <2>4 DEF WellFormed
  <2>6. k \in CallType /\ k.at = "put" /\ k.buyer = rest.buyer /\ k.arm = i /\ k.todo = rest.todo
    <3> HIDE DEF rest
    <3> QED
      BY <2>3, <2>4 DEF CallType
  <2>7. WellFormed(k)
    <3> HIDE DEF k, rest
    <3> QED
      BY <2>3, <2>4, <2>6 DEF WellFormed
  <2>8. \/ call' = [call EXCEPT ![c] = k] /\ UNCHANGED disturbed
        \/ Onward(c, rest)
    BY <2>1
  <2> HIDE DEF k, rest
  <2> QED
    BY <1>0, <2>4, <2>5, <2>6, <2>7, <2>8, CallStep, OnwardTyped
<1>7. ASSUME NEW c \in Calls, MirrorPut(c) PROVE Goal
  <2> DEFINE k == [call[c] EXCEPT !.at = "mirror", !.arm = Nobody, !.fresh = FALSE]
  <2>1. call[c].at = "put"
    BY <1>7 DEF MirrorPut, At
  <2>2. Onward(c, k) \/ Done(c)
    BY <1>7 DEF MirrorPut
  <2>3. /\ k \in CallType /\ k.at = "mirror" /\ k.buyer = call[c].buyer
        /\ k.todo = call[c].todo
    <3>1. "mirror" \in Steps
      OBVIOUS
    <3> HIDE DEF Steps
    <3> QED
      BY <1>1, <3>1 DEF CallType
  <2>4. WellFormed(k)
    <3> HIDE DEF k
    <3> QED
      BY <1>1, <2>1, <2>3 DEF WellFormed
  <2> HIDE DEF k
  <2> QED
    BY <1>0, <2>2, <2>3, <2>4, OnwardTyped, DoneTyped
<1>8. ASSUME NEW c \in Calls, Cut(c) PROVE Goal
  <2>1. call' = [call EXCEPT ![c] = Idle] /\ disturbed' = disturbed \union Concerned(call[c])
    BY <1>8 DEF Cut
  <2>2. Concerned(call[c]) \subseteq Disturbable
    BY <1>1 DEF CallType, Concerned, Disturbable
  <2> QED
    BY <1>0, <2>1, <2>2, IdleTyped, CallStep
<1> QED
  BY <1>2, <1>3, <1>4, <1>5, <1>6, <1>7, <1>8 DEF Next

\* Where the steps of calls leave the two rows, the team and the consents.
LEMMA RowsStayTyped ==
    ASSUME TypeOK, Next
    PROVE  LanesTyped' /\ ArmsTyped'
<1> DEFINE Goal == LanesTyped' /\ ArmsTyped'
<1>0. CallsTyped /\ LanesTyped /\ ArmsTyped /\ disturbed \subseteq Disturbable
  BY TypeParts
<1>1. \A c \in Calls : call[c] \in CallType /\ WellFormed(call[c])
  BY <1>0 DEF CallsTyped
<1>2. ASSUME UNCHANGED laneVars, UNCHANGED sells, UNCHANGED armVars, UNCHANGED agreed PROVE Goal
  BY <1>0, <1>2 DEF laneVars, armVars, LanesTyped, ArmsTyped
<1>3. ASSUME NEW s \in Sellers, StartSelling(s) \/ LeaveBusinessTeam(s) PROVE Goal
  BY <1>0, <1>3 DEF StartSelling, LeaveBusinessTeam, laneVars, armVars, LanesTyped, ArmsTyped
<1>4. ASSUME NEW c \in Calls, Laning(c) PROVE Goal
  <2>1. ASSUME NEW b \in Buyers, ReadJoin(c, b) \/ ReadReject(c, b) \/ ReadConfirm(c, b)
                                 \/ ReadDecline(c, b)
        PROVE Goal
    BY <1>2, <2>1 DEF ReadJoin, ReadReject, ReadConfirm, ReadDecline
  <2>2. ASSUME NEW b \in Buyers, NEW side \in Sides, ReadRemove(c, b, side) PROVE Goal
    BY <1>2, <2>2 DEF ReadRemove
  <2>3. ASSUME NEW b \in Buyers, NEW s \in Sellers \union {Nobody},
               ReadApprove(c, b, s) \/ ReadAdd(c, b, s) \/ ReadAssign(c, b, s)
        PROVE Goal
    BY <1>2, <2>3 DEF ReadApprove, ReadAdd, ReadAssign
  <2>4. CASE FindRow(c)
    BY <1>2, <2>4 DEF FindRow
  <2>5. CASE WriteJoin(c)
    <3>1. call[c].buyer \in Buyers
      BY <1>1, <2>5 DEF WriteJoin, At, WellFormed
    <3> QED
      BY <1>0, <2>5, <3>1 DEF WriteJoin, Agree, laneVars, armVars, LanesTyped, ArmsTyped
  <2>6. CASE WriteApprove(c)
    <3>1. call[c].buyer \in Buyers /\ call[c].seller \in Sellers \union {Nobody}
      BY <1>1, <2>6 DEF WriteApprove, At, WellFormed, CallType
    <3> QED
      BY <1>0, <2>6, <3>1 DEF WriteApprove, Agree, armVars, LanesTyped, ArmsTyped
  <2>7. CASE WriteReject(c) \/ WriteDecline(c) \/ WriteRemove(c)
    <3>1. call[c].buyer \in Buyers
      BY <1>1, <2>7 DEF WriteReject, WriteDecline, WriteRemove, At, WellFormed
    <3>2. PICK status \in {"removed", "declined"} :
             /\ customer' = [customer EXCEPT ![call[c].buyer] = status]
             /\ assigned' = IF status = "removed" THEN [assigned EXCEPT ![call[c].buyer] = Nobody]
                            ELSE assigned
      BY <2>7 DEF WriteReject, WriteDecline, WriteRemove, Unbind
    <3>3. UNCHANGED <<rows, via, sells, armVars, agreed>>
      BY <2>7 DEF WriteReject, WriteDecline, WriteRemove, Unbind
    <3>4. assigned' \in [Buyers -> Sellers \union {Nobody}]
      <4>1. assigned' = assigned \/ assigned' = [assigned EXCEPT ![call[c].buyer] = Nobody]
        BY <3>2
      <4> QED
        BY <1>0, <3>1, <4>1 DEF LanesTyped
    <3>5. customer' \in [Buyers -> Status]
      BY <1>0, <3>1, <3>2 DEF LanesTyped
    <3> QED
      BY <1>0, <3>3, <3>4, <3>5 DEF armVars, LanesTyped, ArmsTyped
  <2>8. CASE WriteAdd(c)
    <3>1. call[c].buyer \in Buyers /\ call[c].seller \in Sellers
      BY <1>1, <2>8 DEF WriteAdd, At, WellFormed
    <3> QED
      BY <1>0, <2>8, <3>1 DEF WriteAdd, Agree, laneVars, armVars, LanesTyped, ArmsTyped
  <2>9. CASE WriteConfirm(c)
    <3>1. call[c].buyer \in Buyers
      BY <1>1, <2>9 DEF WriteConfirm, At, WellFormed
    <3> QED
      BY <1>0, <2>9, <3>1 DEF WriteConfirm, Agree, armVars, LanesTyped, ArmsTyped
  <2>10. CASE WriteAssign(c)
    <3>1. call[c].buyer \in Buyers /\ call[c].seller \in Sellers
      BY <1>1, <2>10 DEF WriteAssign, At, WellFormed
    <3> QED
      BY <1>0, <2>10, <3>1 DEF WriteAssign, armVars, LanesTyped, ArmsTyped
  <2> QED
    BY <1>4, <2>1, <2>2, <2>3, <2>4, <2>5, <2>6, <2>7, <2>8, <2>9, <2>10 DEF Laning
<1>5. ASSUME NEW c \in Calls, Teaming(c) PROVE Goal
  <2>1. ASSUME NEW s \in Sellers, ReadRemoval(c, s) PROVE Goal
    BY <1>2, <2>1 DEF ReadRemoval
  <2>2. CASE Collect(c)
    BY <1>2, <2>2 DEF Collect
  <2>3. CASE Unassign(c)
    BY <1>0, <2>3 DEF Unassign, armVars, LanesTyped, ArmsTyped
  <2>4. CASE Unsell(c)
    <3>1. call[c].seller # Owner
      BY <1>1, <2>4 DEF Unsell, At, WellFormed
    <3> QED
      BY <1>0, <2>4, <3>1 DEF Unsell, laneVars, armVars, LanesTyped, ArmsTyped
  <2> HIDE DEF Goal
  <2> QED
    BY <1>5, <2>1, <2>2, <2>3, <2>4 DEF Teaming
<1>6. ASSUME NEW c \in Calls, Arming(c) PROVE Goal
  <2>1. ASSUME NEW i \in Inquiries, ReadInvite(c, i) \/ ReadRequest(c, i) PROVE Goal
    BY <1>2, <2>1 DEF ReadInvite, ReadRequest
  <2>2. ASSUME NEW i \in Inquiries, NEW side \in Sides, NEW verdict \in Status,
               ReadDecide(c, i, side, verdict)
        PROVE Goal
    BY <1>2, <2>2 DEF ReadDecide
  <2>3. CASE WriteAsked(c)
    <3>1. call[c].buyer \in Buyers /\ call[c].arm \in Inquiries /\ call[c].side \in Sides
      BY <1>1, <2>3 DEF WriteAsked, WellFormed, CallType
    <3> QED
      BY <1>0, <2>3, <3>1 DEF WriteAsked, RowAsked, NamedBy, Agree, laneVars, armVars, LanesTyped, ArmsTyped
  <2>4. CASE WriteDecide(c)
    <3>1. /\ call[c].buyer \in Buyers /\ call[c].arm \in Inquiries /\ call[c].side \in Sides
          /\ call[c].arg \in Status
      BY <1>1, <2>4 DEF WriteDecide, WellFormed, CallType
    <3> QED
      BY <1>0, <2>4, <3>1 DEF WriteDecide, Agree, laneVars, LanesTyped, ArmsTyped
  <2>5. CASE Ask(c) \/ FindLane(c)
    BY <1>2, <2>5 DEF Ask, FindLane
  <2>6. CASE Lower(c)
    <3>1. call[c].buyer \in Buyers
      BY <1>1, <2>6 DEF Lower, At, WellFormed
    <3> QED
      BY <1>0, <2>6, <3>1 DEF Lower, Unbind, armVars, LanesTyped, ArmsTyped
  <2>7. CASE Sync(c)
    <3>1. call[c].buyer \in Buyers
      BY <1>1, <2>7 DEF Sync, At, WellFormed
    <3> QED
      BY <1>0, <2>7, <3>1 DEF Sync, laneVars, armVars, LanesTyped, ArmsTyped
  <2> QED
    BY <1>6, <2>1, <2>2, <2>3, <2>4, <2>5, <2>6, <2>7 DEF Arming
<1>7. ASSUME NEW c \in Calls, MirrorLook(c) \/ Cut(c) PROVE Goal
  BY <1>2, <1>7 DEF MirrorLook, Cut
<1>8. ASSUME NEW c \in Calls, MirrorPut(c) PROVE Goal
  <2>1. call[c].arm \in Inquiries /\ call[c].arg \in Status /\ call[c].side \in Sides
    BY <1>1, <1>8 DEF MirrorPut, At, WellFormed, CallType
  <2> QED
    BY <1>0, <1>8, <2>1 DEF MirrorPut, laneVars, armVars, LanesTyped, ArmsTyped
<1> QED
  BY <1>3, <1>4, <1>5, <1>6, <1>7, <1>8 DEF Next

\* Every row, call and consent stays within its type, for any number of
\* buyers, sellers, inquiries and calls at once.
THEOREM CustomersTypeCorrect == Spec => []TypeOK
<1>1. Init => TypeOK
  <2> SUFFICES ASSUME Init PROVE TypeOK
    OBVIOUS
  <2>1. LanesTyped /\ ArmsTyped /\ disturbed \subseteq Disturbable
    BY DEF Init, LanesTyped, ArmsTyped
  <2>2. CallsTyped
    BY IdleTyped DEF Init, CallsTyped
  <2> QED
    BY <2>1, <2>2, TypeParts
<1>2. TypeOK /\ [Next]_vars => TypeOK'
  <2> SUFFICES ASSUME TypeOK, [Next]_vars PROVE TypeOK'
    OBVIOUS
  <2>1. (LanesTyped /\ ArmsTyped /\ CallsTyped /\ disturbed \subseteq Disturbable)'
        => TypeOK'
    BY DEF TypeOK, LanesTyped, ArmsTyped, CallsTyped, CallType, Disturbable
  <2>2. CASE Next
    BY <2>1, <2>2, CallsStayTyped, RowsStayTyped DEF Disturbable
  <2>3. CASE UNCHANGED vars
    BY <2>3 DEF vars, TypeOK, WellFormed
  <2> QED
    BY <2>2, <2>3
<1> QED
  BY <1>1, <1>2, PTL DEF Spec

-----------------------------------------------------------------------------
(* The buyer's consent *)

Consented(b) == "buyer" \in agreed[b]

\* One of the users of the arm's business did.
Tied(i) == \E b \in KeptBy[i] : Consented(b)

\* What a call has read stays true: consents are never withdrawn.
CallAgrees(k) ==
    /\ k.at \in {"approve", "findRow", "sync"} => Consented(k.buyer)
    /\ k.at \in {"decide", "refuse"} /\ k.arg = "active" /\ k.side = "seller" => Consented(k.buyer)
    /\ k.at = "invite" => k.side = "buyer"
    /\ k.at \in OnBoth /\ k.arg = "active" => \A i \in k.todo : Tied(i)
    /\ k.at = "put" /\ k.arg = "active" => Tied(k.arm)

CallsAgree == \A c \in Calls : CallAgrees(call[c])

\* A lane waits either for its buyer, or on his own request.
LanesAgree ==
    \A b \in Buyers :
       customer[b] = "active" \/ (customer[b] = "pending" /\ via[b] # "owner_add") => Consented(b)

ArmsAgree ==
    \A i \in Inquiries :
       /\ supVia[i] = "buyer_add" => Consented(BuyerOf[i])
       /\ supplier[i] = "active" => Tied(i)

Consent == TypeOK /\ CallsAgree /\ LanesAgree /\ ArmsAgree

ConsentsGrow == \A b \in Buyers : agreed[b] \subseteq agreed'[b]

LEMMA AgreeGrows ==
    ASSUME TypeOK, NEW b \in Buyers, NEW side \in Sides, Agree(b, side)
    PROVE  ConsentsGrow /\ side \in agreed'[b]
BY DEF TypeOK, Agree, ConsentsGrow

LEMMA TiesGrow ==
    ASSUME ConsentsGrow, NEW i \in Inquiries, Tied(i)
    PROVE  Tied(i)'
BY KeptByAssumption DEF ConsentsGrow, Tied, Consented

\* One slot changes, to a call with the consent it relies on.
LEMMA SlotAgrees ==
    ASSUME Consent, ConsentsGrow, NEW c \in Calls,
           call' = [call EXCEPT ![c] = call'[c]], CallAgrees(call[c])'
    PROVE  CallsAgree'
<1>0. CallsTyped
  BY TypeParts DEF Consent
<1> SUFFICES ASSUME NEW d \in Calls PROVE CallAgrees(call[d])'
  BY DEF CallsAgree
<1>1. CASE d = c
  BY <1>1
<1>2. CASE d # c
  <2>1. call'[d] = call[d] /\ CallAgrees(call[d])
    BY <1>0, <1>2 DEF CallsTyped, Consent, CallsAgree
  <2>2. /\ call[d].at \in OnLane \union OnArm \union OnTie => call[d].buyer \in Buyers
        /\ call[d].at \in OnBoth => call[d].todo \subseteq Inquiries
        /\ call[d].at = "put" => call[d].arm \in Inquiries
    BY <1>0 DEF CallsTyped, WellFormed
  <2>3. \A i \in Inquiries : Tied(i) => Tied(i)'
    BY TiesGrow
  <2> QED
    BY <2>1, <2>2, <2>3 DEF CallAgrees, Consented, ConsentsGrow
<1> QED
  BY <1>1, <1>2

\* The steps that leave the slot where no consent is relied on.
LEMMA DoneAgrees ==
    ASSUME Consent, ConsentsGrow, NEW c \in Calls, Done(c)
    PROVE  CallsAgree'
<1>1. call' = [call EXCEPT ![c] = call'[c]] /\ call'[c].at = "idle"
  BY TypeParts DEF Consent, Done, Idle, LaneCall, CallsTyped
<1> QED
  BY <1>1, SlotAgrees DEF CallAgrees

LEMMA MirrorAgrees ==
    ASSUME Consent, ConsentsGrow, NEW c \in Calls, NEW status, NEW side, Mirror(c, status, side),
           status = "active" => "buyer" \in agreed'[call[c].buyer]
    PROVE  CallsAgree'
<1>1. CallsTyped /\ call[c] \in CallType
  BY TypeParts DEF Consent, CallsTyped
<1>2. PICK arms \in SUBSET ArmsOf(call[c].buyer) :
         Onward(c, [call[c] EXCEPT !.at = "mirror", !.arg = status, !.side = side, !.todo = arms])
  BY DEF Mirror
<1> DEFINE k == [call[c] EXCEPT !.at = "mirror", !.arg = status, !.side = side, !.todo = arms]
<1>3. k.at = "mirror" /\ k.arg = status /\ k.todo = arms
  BY <1>1 DEF CallType
<1>4. call' = [call EXCEPT ![c] = IF k.todo = {} THEN Idle ELSE k]
  BY <1>2 DEF Onward
<1> HIDE DEF k
<1>5. call' = [call EXCEPT ![c] = call'[c]] /\ (call'[c] = k \/ call'[c] = Idle)
  BY <1>1, <1>4 DEF CallsTyped
<1>6. Idle.at = "idle"
  BY DEF Idle, LaneCall
<1>7. CASE call'[c] = k
  <2>1. status = "active" => \A i \in k.todo : Tied(i)'
    <3> SUFFICES ASSUME status = "active", NEW i \in arms PROVE Tied(i)'
      BY <1>3
    <3>1. call[c].buyer \in KeptBy[i]
      BY <1>2 DEF ArmsOf
    <3> QED
      BY <3>1 DEF Tied, Consented
  <2>2. CallAgrees(call[c])'
    BY <1>3, <1>7, <2>1 DEF CallAgrees
  <2> QED
    BY <1>5, <2>2, SlotAgrees
<1> QED
  BY <1>5, <1>6, <1>7, SlotAgrees DEF CallAgrees

LEMMA BeginAgrees ==
    ASSUME Consent, ConsentsGrow, NEW c \in Calls, NEW k, Begin(c, k), CallAgrees(k)'
    PROVE  CallsAgree'
<1>1. call' = [call EXCEPT ![c] = call'[c]] /\ call'[c] = k
  BY TypeParts DEF Consent, Begin, CallsTyped
<1> QED
  BY <1>1, SlotAgrees DEF CallAgrees, Consented, Tied

\* Where a step leaves the rows alone, the consents that the rows rest on stay.
LEMMA RowsAgree ==
    ASSUME Consent, ConsentsGrow, UNCHANGED <<customer, via, supplier, supVia>>
    PROVE  LanesAgree' /\ ArmsAgree'
<1>1. \A i \in Inquiries : Tied(i) => Tied(i)'
  BY TiesGrow
<1> QED
  BY <1>1 DEF Consent, LanesAgree, ArmsAgree, Consented, ConsentsGrow

\* A call that goes on mirroring relies on ties it relied on already.
LEMMA MirrorGoesOn ==
    ASSUME Consent, ConsentsGrow, NEW c \in Calls, call[c].at \in OnBoth,
           call' = [call EXCEPT ![c] = call'[c]],
           \/ call'[c] = Idle
           \/ /\ call'[c].at \in OnBoth /\ call'[c].arg = call[c].arg
              /\ call'[c].todo \subseteq call[c].todo
              /\ call'[c].at = "put" => call'[c].arm \in call[c].todo
    PROVE  CallsAgree'
<1>0. CallsTyped
  BY TypeParts DEF Consent
<1>1. call[c].todo \subseteq Inquiries /\ (call[c].arg = "active" => \A i \in call[c].todo : Tied(i))
  BY <1>0 DEF CallsTyped, WellFormed, Consent, CallsAgree, CallAgrees
<1>2. call[c].arg = "active" => \A i \in call[c].todo : Tied(i)'
  BY <1>1, TiesGrow
<1>3. Idle.at = "idle"
  BY DEF Idle, LaneCall
<1>4. CASE call'[c] = Idle
  BY <1>3, <1>4, SlotAgrees DEF CallAgrees
<1>5. CASE /\ call'[c].at \in OnBoth /\ call'[c].arg = call[c].arg
           /\ call'[c].todo \subseteq call[c].todo
           /\ call'[c].at = "put" => call'[c].arm \in call[c].todo
  <2>1. (call[c].arg = "active" => /\ \A i \in call[c].todo : Tied(i)
                                   /\ call[c].at = "put" => Tied(call[c].arm))'
    BY <1>2, <1>5 DEF Tied
  <2>2. CallAgrees(call[c])'
    BY <1>5, <2>1 DEF CallAgrees, Tied, Consented
  <2> QED
    BY <2>2, SlotAgrees
<1> QED
  BY <1>4, <1>5

\* The arms' rows, where a step leaves those alone.
LEMMA ArmsStayAgreed ==
    ASSUME Consent, ConsentsGrow, UNCHANGED <<supplier, supVia>>
    PROVE  ArmsAgree'
<1>1. \A i \in Inquiries : Tied(i) => Tied(i)'
  BY TiesGrow
<1> QED
  BY <1>1 DEF Consent, ArmsAgree, Consented, ConsentsGrow

\* Every step keeps the consents that the rows and the calls rest on.
LEMMA ConsentStep ==
    ASSUME Consent, Next, TypeOK'
    PROVE  Consent'
<1> DEFINE Goal == ConsentsGrow /\ CallsAgree' /\ LanesAgree' /\ ArmsAgree'
<1>0. CallsTyped /\ LanesTyped /\ ArmsTyped /\ CallsTyped'
  BY TypeParts DEF Consent, TypeOK, CallsTyped, CallType
<1>1. \A c \in Calls : call[c] \in CallType /\ WellFormed(call[c]) /\ CallAgrees(call[c])
  BY <1>0 DEF CallsTyped, Consent, CallsAgree
<1>2. UNCHANGED agreed => ConsentsGrow
  BY DEF ConsentsGrow
\* Handlers that only looked.
<1>3. ASSUME NEW c \in Calls, NEW k, Begin(c, k), CallAgrees(k),
             UNCHANGED <<laneVars, sells, armVars, agreed>>
      PROVE  Goal
  <2>1. ConsentsGrow /\ UNCHANGED <<customer, via, supplier, supVia>> /\ CallAgrees(k)'
    BY <1>2, <1>3 DEF laneVars, armVars, CallAgrees, Consented, Tied
  <2> QED
    BY <1>3, <2>1, BeginAgrees, RowsAgree
\* Writes after which the call relies on no consent.
<1>4. ASSUME NEW c \in Calls, UNCHANGED <<customer, via, supplier, supVia, agreed>>,
             Done(c) \/ \E k : /\ call' = [call EXCEPT ![c] = k]
                               /\ k.at \notin {"approve", "findRow", "sync", "decide", "refuse", "invite"} \union OnBoth
      PROVE  Goal
  <2>1. ConsentsGrow /\ LanesAgree' /\ ArmsAgree'
    BY <1>2, <1>4, RowsAgree
  <2>2. ASSUME NEW k, call' = [call EXCEPT ![c] = k],
               k.at \notin {"approve", "findRow", "sync", "decide", "refuse", "invite"} \union OnBoth
        PROVE  CallsAgree'
    <3>1. call' = [call EXCEPT ![c] = call'[c]] /\ call'[c] = k
      BY <1>0, <2>2 DEF CallsTyped
    <3> QED
      BY <2>1, <2>2, <3>1, SlotAgrees DEF CallAgrees
  <2> QED
    BY <1>4, <2>1, <2>2, DoneAgrees
<1>5. ASSUME NEW s \in Sellers, StartSelling(s) \/ LeaveBusinessTeam(s) PROVE Goal
  <2>1. UNCHANGED <<customer, via, supplier, supVia, agreed, call>>
    BY <1>5 DEF StartSelling, LeaveBusinessTeam, laneVars, armVars
  <2>2. ConsentsGrow /\ LanesAgree' /\ ArmsAgree'
    BY <1>2, <2>1, RowsAgree
  <2>3. CallsAgree'
    BY <2>1 DEF Consent, CallsAgree, CallAgrees, Consented, Tied
  <2> QED
    BY <2>2, <2>3
<1>6. ASSUME NEW c \in Calls, Laning(c) PROVE Goal
  <2>1. ASSUME NEW b \in Buyers, ReadJoin(c, b) \/ ReadReject(c, b) \/ ReadConfirm(c, b)
                                 \/ ReadDecline(c, b)
        PROVE Goal
    <3>0. PICK step \in {"join", "reject", "confirm", "decline"} :
             \E s, side, fresh : Begin(c, LaneCall(step, b, s, side, fresh))
      BY <2>1 DEF ReadJoin, ReadReject, ReadConfirm, ReadDecline
    <3>1. PICK s, side, fresh : Begin(c, LaneCall(step, b, s, side, fresh))
      BY <3>0
    <3>2. CallAgrees(LaneCall(step, b, s, side, fresh))
      BY DEF LaneCall, CallAgrees
    <3> QED
      BY <1>3, <2>1, <3>1, <3>2 DEF ReadJoin, ReadReject, ReadConfirm, ReadDecline
  <2>2. ASSUME NEW b \in Buyers, NEW side \in Sides, ReadRemove(c, b, side) PROVE Goal
    <3>1. CallAgrees(LaneCall("remove", b, Nobody, side, FALSE))
      BY DEF LaneCall, CallAgrees
    <3> QED
      BY <1>3, <2>2, <3>1 DEF ReadRemove
  <2>3. ASSUME NEW b \in Buyers, NEW s \in Sellers \union {Nobody}, ReadApprove(c, b, s) PROVE Goal
    <3>1. Consented(b)
      BY <2>3 DEF ReadApprove, SelfCustomer, Consent, LanesAgree
    <3>2. CallAgrees(LaneCall("approve", b, s, "seller", FALSE))
      BY <3>1 DEF LaneCall, CallAgrees
    <3> QED
      BY <1>3, <2>3, <3>2 DEF ReadApprove
  <2>4. ASSUME NEW b \in Buyers, NEW s \in Sellers, ReadAdd(c, b, s) \/ ReadAssign(c, b, s)
        PROVE Goal
    <3>1. CallAgrees(LaneCall("find", b, s, "seller", FALSE))
          /\ CallAgrees(LaneCall("assign", b, s, "seller", FALSE))
      BY DEF LaneCall, CallAgrees
    <3> QED
      BY <1>3, <2>4, <3>1 DEF ReadAdd, ReadAssign
  <2>5. CASE FindRow(c)
    <3>1. call' = [call EXCEPT ![c] = [call[c] EXCEPT !.at = "add", !.fresh = call[c].buyer \notin rows]]
          /\ UNCHANGED <<customer, via, supplier, supVia, agreed>>
      BY <2>5 DEF FindRow, laneVars, armVars
    <3>2. [call[c] EXCEPT !.at = "add", !.fresh = call[c].buyer \notin rows].at = "add"
      BY <1>1 DEF CallType
    <3> QED
      BY <1>4, <3>1, <3>2
  <2>6. CASE WriteJoin(c)
    <3>1. call[c].buyer \in Buyers /\ Done(c) /\ UNCHANGED <<supplier, supVia>>
      BY <1>1, <2>6 DEF WriteJoin, At, WellFormed, armVars
    <3>2. CASE UNCHANGED <<laneVars, agreed>>
      BY <1>4, <3>1, <3>2 DEF laneVars
    <3>3. CASE /\ customer' = [customer EXCEPT ![call[c].buyer] = "pending"]
               /\ via' = [via EXCEPT ![call[c].buyer] = "self_request"]
               /\ Agree(call[c].buyer, "buyer")
      <4>1. ConsentsGrow /\ "buyer" \in agreed'[call[c].buyer]
        BY <3>1, <3>3, AgreeGrows DEF Consent
      <4>2. LanesAgree'
        BY <1>0, <3>1, <3>3, <4>1 DEF Consent, LanesTyped, LanesAgree, Consented, ConsentsGrow
      <4> QED
        BY <3>1, <4>1, <4>2, DoneAgrees, ArmsStayAgreed
    <3> QED
      BY <2>6, <3>2, <3>3 DEF WriteJoin
  <2>7. CASE WriteApprove(c)
    <3>1. call[c].buyer \in Buyers /\ Done(c) /\ Consented(call[c].buyer)
      BY <1>1, <2>7 DEF WriteApprove, At, WellFormed, CallAgrees
    <3>2. ConsentsGrow
      BY <2>7, <3>1, AgreeGrows DEF Consent, WriteApprove
    <3>3. LanesAgree'
      BY <1>0, <2>7, <3>1, <3>2
      DEF WriteApprove, Consent, LanesTyped, LanesAgree, Consented, ConsentsGrow
    <3>4. UNCHANGED <<supplier, supVia>>
      BY <2>7 DEF WriteApprove, armVars
    <3> QED
      BY <3>1, <3>2, <3>3, <3>4, DoneAgrees, ArmsStayAgreed
  <2>8. ASSUME NEW status \in {"removed", "declined"}, call[c].buyer \in Buyers,
               Unbind(call[c].buyer, status), UNCHANGED <<supplier, supVia, agreed>>
        PROVE  ConsentsGrow /\ LanesAgree' /\ ArmsAgree'
    <3>1. LanesAgree'
      BY <1>0, <2>8 DEF Unbind, Consent, LanesTyped, LanesAgree, Consented
    <3> QED
      BY <1>2, <2>8, <3>1, ArmsStayAgreed
  <2>9. CASE WriteReject(c) \/ WriteDecline(c) \/ WriteRemove(c)
    <3>1. call[c].buyer \in Buyers
      BY <1>1, <2>9 DEF WriteReject, WriteDecline, WriteRemove, At, WellFormed
    <3>2. ConsentsGrow /\ LanesAgree' /\ ArmsAgree'
      BY <2>8, <2>9, <3>1 DEF WriteReject, WriteDecline, WriteRemove, armVars
    <3> QED
      BY <2>9, <3>2, DoneAgrees, MirrorAgrees DEF WriteReject, WriteDecline, WriteRemove
  <2>10. CASE WriteAdd(c)
    <3>1. call[c].buyer \in Buyers /\ UNCHANGED <<supplier, supVia>>
      BY <1>1, <2>10 DEF WriteAdd, At, WellFormed, armVars
    <3>2. CASE UNCHANGED <<laneVars, agreed>> /\ Done(c)
      BY <1>4, <3>1, <3>2 DEF laneVars
    <3>3. CASE /\ customer' = [customer EXCEPT ![call[c].buyer] = "pending"]
               /\ via' = [via EXCEPT ![call[c].buyer] = "owner_add"]
               /\ Agree(call[c].buyer, "seller")
               /\ Mirror(c, "pending", "seller")
      <4>1. ConsentsGrow
        BY <3>1, <3>3, AgreeGrows DEF Consent
      <4>2. LanesAgree'
        BY <1>0, <3>1, <3>3, <4>1 DEF Consent, LanesTyped, LanesAgree, Consented, ConsentsGrow
      <4> QED
        BY <3>1, <3>3, <4>1, <4>2, MirrorAgrees, ArmsStayAgreed
    <3> QED
      BY <2>10, <3>2, <3>3 DEF WriteAdd
  <2>11. CASE WriteConfirm(c)
    <3>1. call[c].buyer \in Buyers /\ Mirror(c, "active", "buyer")
      BY <1>1, <2>11 DEF WriteConfirm, At, WellFormed
    <3>2. ConsentsGrow /\ "buyer" \in agreed'[call[c].buyer]
      BY <2>11, <3>1, AgreeGrows DEF Consent, WriteConfirm
    <3>3. LanesAgree'
      BY <1>0, <2>11, <3>1, <3>2
      DEF WriteConfirm, Consent, LanesTyped, LanesAgree, Consented, ConsentsGrow
    <3>4. UNCHANGED <<supplier, supVia>>
      BY <2>11 DEF WriteConfirm, armVars
    <3> QED
      BY <3>1, <3>2, <3>3, <3>4, MirrorAgrees, ArmsStayAgreed
  <2>12. CASE WriteAssign(c)
    BY <1>4, <2>12 DEF WriteAssign, armVars
  <2> HIDE DEF Goal
  <2> QED
    BY <1>6, <2>1, <2>2, <2>3, <2>4, <2>5, <2>6, <2>7, <2>9, <2>10, <2>11, <2>12 DEF Laning
<1>7. ASSUME NEW c \in Calls, Teaming(c) PROVE Goal
  <2>1. ASSUME NEW s \in Sellers, ReadRemoval(c, s) PROVE Goal
    <3>1. CallAgrees(LaneCall("collect", Nobody, s, "seller", FALSE))
      BY DEF LaneCall, CallAgrees
    <3> QED
      BY <1>3, <2>1, <3>1 DEF ReadRemoval
  <2>2. CASE Collect(c)
    <3>0. PICK step \in {"unsell", "unassign"} :
             \E mine : call' = [call EXCEPT ![c] = [call[c] EXCEPT !.at = step, !.todo = mine]]
      BY <2>2 DEF Collect
    <3>1. PICK mine : call' = [call EXCEPT ![c] = [call[c] EXCEPT !.at = step, !.todo = mine]]
      BY <3>0
    <3>2. [call[c] EXCEPT !.at = step, !.todo = mine].at = step
      BY <1>1 DEF CallType
    <3> QED
      BY <1>4, <2>2, <3>1, <3>2 DEF Collect, laneVars, armVars
  <2>3. CASE Unassign(c)
    <3>1. [call[c] EXCEPT !.at = "unsell", !.todo = {}].at = "unsell"
      BY <1>1 DEF CallType
    <3>2. call' = [call EXCEPT ![c] = [call[c] EXCEPT !.at = "unsell", !.todo = {}]]
          /\ UNCHANGED <<customer, via, supplier, supVia, agreed>>
      BY <2>3 DEF Unassign, armVars
    <3> QED
      BY <1>4, <3>1, <3>2
  <2>4. CASE Unsell(c)
    BY <1>4, <2>4 DEF Unsell, laneVars, armVars
  <2> HIDE DEF Goal
  <2> QED
    BY <1>7, <2>1, <2>2, <2>3, <2>4 DEF Teaming
<1>8. ASSUME NEW c \in Calls, Arming(c) PROVE Goal
  <2>1. ASSUME NEW i \in Inquiries, ReadInvite(c, i) \/ ReadRequest(c, i) PROVE Goal
    <3>0. PICK step \in {"invite", "request"} :
             \E side, fresh :
                /\ Begin(c, ArmCall(step, i, Nobody, "pending", side, fresh))
                /\ step = "invite" => side = "buyer"
      BY <2>1 DEF ReadInvite, ReadRequest
    <3>1. PICK side, fresh :
             /\ Begin(c, ArmCall(step, i, Nobody, "pending", side, fresh))
             /\ step = "invite" => side = "buyer"
      BY <3>0
    <3>2. CallAgrees(ArmCall(step, i, Nobody, "pending", side, fresh))
      BY <3>1 DEF ArmCall, CallAgrees
    <3> QED
      BY <1>3, <2>1, <3>1, <3>2 DEF ReadInvite, ReadRequest
  <2>2. ASSUME NEW i \in Inquiries, NEW side \in Sides, NEW verdict \in Status,
               ReadDecide(c, i, side, verdict)
        PROVE Goal
    <3>0. PICK step \in {"decide", "refuse"} :
             \E s : Begin(c, ArmCall(step, i, s, verdict, side, FALSE))
      BY <2>2 DEF ReadDecide
    <3>1. PICK s : Begin(c, ArmCall(step, i, s, verdict, side, FALSE))
      BY <3>0
    <3>2. verdict = "active" /\ side = "seller" => Consented(BuyerOf[i])
      <4>1. supVia[i] = "buyer_add" => Consented(BuyerOf[i])
        BY DEF Consent, ArmsAgree
      <4> QED
        BY <2>2, <4>1 DEF ReadDecide, Accepts
    <3>3. CallAgrees(ArmCall(step, i, s, verdict, side, FALSE))
      BY <3>2 DEF ArmCall, CallAgrees
    <3> QED
      BY <1>3, <2>2, <3>1, <3>3 DEF ReadDecide
  <2>3. CASE WriteAsked(c)
    <3>1. /\ call[c].buyer \in Buyers /\ call[c].arm \in Inquiries /\ call[c].side \in Sides
          /\ BuyerOf[call[c].arm] = call[c].buyer
          /\ At(c, "invite") => call[c].side = "buyer"
          /\ Done(c) /\ UNCHANGED <<customer, via>>
      BY <1>1, <2>3 DEF WriteAsked, RowAsked, At, WellFormed, CallType, CallAgrees, laneVars
    <3>2. CASE UNCHANGED <<armVars, agreed>>
      BY <1>4, <3>1, <3>2 DEF armVars
    <3>3. CASE /\ supplier' = [supplier EXCEPT ![call[c].arm] = "pending"]
               /\ supVia' = [supVia EXCEPT ![call[c].arm] =
                                IF At(c, "invite") THEN "buyer_add" ELSE "supplier_request"]
               /\ Agree(call[c].buyer, call[c].side)
      <4>1. ConsentsGrow /\ call[c].side \in agreed'[call[c].buyer]
        BY <3>1, <3>3, AgreeGrows DEF Consent
      <4>2. LanesAgree'
        BY <3>1, <4>1 DEF Consent, LanesAgree, Consented, ConsentsGrow
      <4>3. ASSUME NEW i \in Inquiries
            PROVE  /\ supVia'[i] = "buyer_add" => "buyer" \in agreed'[BuyerOf[i]]
                   /\ supplier'[i] = "active" => Tied(i)'
        <5>1. CASE i = call[c].arm
          BY <1>0, <3>1, <3>3, <4>1, <5>1 DEF ArmsTyped
        <5>2. CASE i # call[c].arm
          <6>1. supVia'[i] = supVia[i] /\ supplier'[i] = supplier[i]
            BY <1>0, <3>1, <3>3, <5>2 DEF ArmsTyped
          <6>2. supplier[i] = "active" => Tied(i)'
            BY <4>1, TiesGrow DEF Consent, ArmsAgree
          <6>3. supVia[i] = "buyer_add" => "buyer" \in agreed'[BuyerOf[i]]
            BY <4>1 DEF Consent, ArmsAgree, Consented, ConsentsGrow
          <6> QED
            BY <6>1, <6>2, <6>3
        <5> QED
          BY <5>1, <5>2
      <4>4. ArmsAgree'
        BY <4>3 DEF ArmsAgree, Consented
      <4> QED
        BY <3>1, <4>1, <4>2, <4>4, DoneAgrees
    <3> QED
      BY <2>3, <3>2, <3>3 DEF WriteAsked, RowAsked
  <2>4. CASE WriteDecide(c)
    <3>1. /\ call[c].buyer \in Buyers /\ call[c].side \in Sides
          /\ call[c].arm \in Inquiries /\ BuyerOf[call[c].arm] = call[c].buyer
          /\ call[c].at \in {"decide", "refuse"}
          /\ supplier' = [supplier EXCEPT ![call[c].arm] = call[c].arg]
          /\ UNCHANGED <<customer, via, supVia>>
      BY <1>1, <2>4 DEF WriteDecide, WellFormed, CallType, laneVars
    <3>a. ASSUME ConsentsGrow, call[c].arg = "active" => "buyer" \in agreed'[call[c].buyer]
          PROVE  LanesAgree' /\ ArmsAgree'
      <4>1. LanesAgree'
        BY <3>1, <3>a DEF Consent, LanesAgree, Consented, ConsentsGrow
      <4>2. ASSUME NEW i \in Inquiries, supplier'[i] = "active" PROVE Tied(i)'
        <5>1. CASE i = call[c].arm
          <6>1. supplier'[i] = call[c].arg /\ BuyerOf[i] = call[c].buyer /\ BuyerOf[i] \in KeptBy[i]
            BY <1>0, <3>1, <5>1, KeptByAssumption DEF ArmsTyped
          <6> QED
            BY <3>a, <4>2, <6>1 DEF Tied, Consented
        <5>2. CASE i # call[c].arm
          <6>1. supplier[i] = "active"
            BY <1>0, <3>1, <4>2, <5>2 DEF ArmsTyped
          <6> QED
            BY <3>a, <6>1, TiesGrow DEF Consent, ArmsAgree
        <5> QED
          BY <5>1, <5>2
      <4>3. ASSUME NEW i \in Inquiries, supVia'[i] = "buyer_add" PROVE "buyer" \in agreed'[BuyerOf[i]]
        BY <3>1, <3>a, <4>3 DEF Consent, ArmsAgree, Consented, ConsentsGrow
      <4> QED
        BY <4>1, <4>2, <4>3 DEF ArmsAgree, Consented
    <3>2. CASE call[c].arg = "active"
      <4>1. Agree(call[c].buyer, call[c].side) /\ ToLane(c, "findRow")
        BY <2>4, <3>2 DEF WriteDecide
      <4>2. ConsentsGrow /\ call[c].side \in agreed'[call[c].buyer]
        BY <3>1, <4>1, AgreeGrows DEF Consent
      <4>3. "buyer" \in agreed'[call[c].buyer]
        BY <1>1, <3>1, <3>2, <4>2 DEF CallAgrees, Consented, ConsentsGrow
      <4>4. /\ call' = [call EXCEPT ![c] = call'[c]]
            /\ call'[c] = LaneCall("findRow", call[c].buyer, call[c].seller, "seller", FALSE)
        BY <1>0, <4>1 DEF ToLane, CallsTyped
      <4>5. CallAgrees(call[c])'
        BY <4>3, <4>4 DEF LaneCall, CallAgrees, Consented
      <4> QED
        BY <3>a, <4>2, <4>3, <4>4, <4>5, SlotAgrees
    <3>3. CASE call[c].arg # "active"
      <4>1. UNCHANGED agreed /\ (ToLane(c, "ask") \/ Done(c))
        BY <2>4, <3>3 DEF WriteDecide
      <4>2. LaneCall("ask", call[c].buyer, call[c].seller, "seller", FALSE).at = "ask"
        BY DEF LaneCall
      <4>3. ConsentsGrow /\ LanesAgree' /\ ArmsAgree'
        BY <1>2, <3>3, <3>a, <4>1
      <4>4. CASE ToLane(c, "ask")
        <5>1. call' = [call EXCEPT ![c] = call'[c]] /\ call'[c].at = "ask"
          BY <1>0, <4>2, <4>4 DEF ToLane, CallsTyped
        <5> QED
          BY <4>3, <5>1, SlotAgrees DEF CallAgrees
      <4> QED
        BY <4>1, <4>3, <4>4, DoneAgrees
    <3> QED
      BY <3>2, <3>3
  <2>5. CASE Ask(c)
    <3>1. [call[c] EXCEPT !.at = "lower"].at = "lower"
      BY <1>1 DEF CallType
    <3>2. Done(c) \/ call' = [call EXCEPT ![c] = [call[c] EXCEPT !.at = "lower"]]
      BY <2>5 DEF Ask, Go
    <3> QED
      BY <1>4, <2>5, <3>1, <3>2 DEF Ask, laneVars, armVars
  <2>6. CASE Lower(c)
    <3>1. call[c].buyer \in Buyers /\ Done(c)
      BY <1>1, <2>6 DEF Lower, At, WellFormed
    <3>2. Unbind(call[c].buyer, "declined") /\ UNCHANGED <<supplier, supVia, agreed>>
      BY <2>6 DEF Lower, armVars
    <3>3. LanesAgree'
      BY <1>0, <3>1, <3>2 DEF Unbind, Consent, LanesTyped, LanesAgree, Consented
    <3> QED
      BY <1>2, <3>1, <3>2, <3>3, DoneAgrees, ArmsStayAgreed
  <2>7. CASE FindLane(c)
    <3> DEFINE k == [call[c] EXCEPT !.at = "sync", !.fresh = call[c].buyer \notin rows]
    <3>1. call' = [call EXCEPT ![c] = k] /\ UNCHANGED <<customer, via, supplier, supVia, agreed>>
      BY <2>7 DEF FindLane, laneVars, armVars
    <3>2. k.at = "sync" /\ k.buyer = call[c].buyer
      BY <1>1 DEF CallType
    <3>3. Consented(call[c].buyer)
      BY <1>1, <2>7 DEF FindLane, At, CallAgrees
    <3>4. ConsentsGrow /\ LanesAgree' /\ ArmsAgree'
      BY <1>2, <3>1, RowsAgree
    <3> HIDE DEF k
    <3>5. call' = [call EXCEPT ![c] = call'[c]] /\ call'[c] = k
      BY <1>0, <3>1 DEF CallsTyped
    <3>6. CallAgrees(call[c])'
      BY <3>1, <3>2, <3>3, <3>5 DEF CallAgrees, Consented
    <3> QED
      BY <3>4, <3>5, <3>6, SlotAgrees
  <2>8. CASE Sync(c)
    <3>1. call[c].buyer \in Buyers /\ Done(c) /\ Consented(call[c].buyer)
          /\ UNCHANGED <<supplier, supVia, agreed>>
      BY <1>1, <2>8 DEF Sync, At, WellFormed, CallAgrees, armVars
    <3>2. LanesAgree'
      BY <1>0, <2>8, <3>1 DEF Sync, laneVars, Consent, LanesTyped, LanesAgree, Consented
    <3> QED
      BY <1>2, <3>1, <3>2, DoneAgrees, ArmsStayAgreed
  <2> HIDE DEF Goal
  <2> QED
    BY <1>8, <2>1, <2>2, <2>3, <2>4, <2>5, <2>6, <2>7, <2>8 DEF Arming
<1>9. ASSUME NEW c \in Calls, MirrorLook(c) \/ MirrorPut(c) PROVE Goal
  <2> DEFINE rest(i) == [call[c] EXCEPT !.todo = @ \ {i}]
             k(i) == [rest(i) EXCEPT !.at = "put", !.arm = i, !.fresh = supplier[i] = "none"]
             back == [call[c] EXCEPT !.at = "mirror", !.arm = Nobody, !.fresh = FALSE]
  <2>1. CASE MirrorLook(c)
    <3>1. /\ call[c].at = "mirror"
          /\ \E i \in call[c].todo : call' = [call EXCEPT ![c] = k(i)] \/ Onward(c, rest(i))
      BY <2>1 DEF MirrorLook, At
    <3>2. PICK i \in call[c].todo : call' = [call EXCEPT ![c] = k(i)] \/ Onward(c, rest(i))
      BY <3>1
    <3>3. /\ rest(i).at = "mirror" /\ rest(i).arg = call[c].arg /\ rest(i).todo = call[c].todo \ {i}
          /\ k(i).at = "put" /\ k(i).arg = call[c].arg /\ k(i).todo = call[c].todo \ {i} /\ k(i).arm = i
      BY <1>1, <3>1 DEF CallType
    <3>4. UNCHANGED <<customer, via, supplier, supVia, agreed>>
      BY <2>1 DEF MirrorLook, laneVars, armVars
    <3>5. ConsentsGrow /\ LanesAgree' /\ ArmsAgree'
      BY <1>2, <3>4, RowsAgree
    <3> HIDE DEF rest, k
    <3>6. \E j \in {k(i), rest(i), Idle} : call' = [call EXCEPT ![c] = j]
      BY <3>2 DEF Onward
    <3>7. CASE call' = [call EXCEPT ![c] = k(i)]
      <4>1. CallsAgree'
        <5>1. call'[c] = k(i) /\ call' = [call EXCEPT ![c] = call'[c]]
          BY <1>0, <3>7 DEF CallsTyped
        <5> QED
          BY <3>1, <3>2, <3>3, <3>5, <5>1, MirrorGoesOn
      <4> QED
        BY <3>5, <4>1
    <3>8. CASE call' = [call EXCEPT ![c] = rest(i)]
      <4>1. CallsAgree'
        <5>1. call'[c] = rest(i) /\ call' = [call EXCEPT ![c] = call'[c]]
          BY <1>0, <3>8 DEF CallsTyped
        <5> QED
          BY <3>1, <3>3, <3>5, <5>1, MirrorGoesOn
      <4> QED
        BY <3>5, <4>1
    <3>9. CASE call' = [call EXCEPT ![c] = Idle]
      <4>1. CallsAgree'
        <5>1. call'[c] = Idle /\ call' = [call EXCEPT ![c] = call'[c]]
          BY <1>0, <3>9 DEF CallsTyped
        <5> QED
          BY <3>1, <3>5, <5>1, MirrorGoesOn
      <4> QED
        BY <3>5, <4>1
    <3> QED
      BY <3>5, <3>6, <3>7, <3>8, <3>9
  <2>2. CASE MirrorPut(c)
    <3>1. call[c].at = "put" /\ UNCHANGED <<customer, via, agreed>>
      BY <2>2 DEF MirrorPut, At, laneVars
    <3>2. CASE Done(c) /\ UNCHANGED armVars
      BY <1>4, <3>1, <3>2 DEF armVars
    <3>3. CASE /\ Onward(c, back) /\ supplier' = [supplier EXCEPT ![call[c].arm] = call[c].arg]
               /\ supVia' = [supVia EXCEPT ![call[c].arm] = "supplier_request"]
      <4>1. ConsentsGrow /\ LanesAgree'
        BY <1>2, <3>1 DEF Consent, LanesAgree, Consented
      <4>2. call[c].arm \in Inquiries /\ (call[c].arg = "active" => Tied(call[c].arm))
        BY <1>1, <3>1 DEF WellFormed, CallAgrees
      <4>3. ASSUME NEW i \in Inquiries
            PROVE  /\ supVia'[i] = "buyer_add" => Consented(BuyerOf[i])
                   /\ supplier'[i] = "active" => Tied(i)
        BY <1>0, <3>3, <4>2 DEF ArmsTyped, Consent, ArmsAgree
      <4>4. ArmsAgree'
        BY <3>1, <4>3 DEF ArmsAgree, Consented, Tied
      <4>5. back.at = "mirror" /\ back.arg = call[c].arg /\ back.todo = call[c].todo
        BY <1>1 DEF CallType
      <4> HIDE DEF back
      <4>6. call' = [call EXCEPT ![c] = back] \/ call' = [call EXCEPT ![c] = Idle]
        BY <3>3 DEF Onward
      <4>7. CASE call' = [call EXCEPT ![c] = back]
        <5>1. CallsAgree'
          <6>1. call'[c] = back /\ call' = [call EXCEPT ![c] = call'[c]]
            BY <1>0, <4>7 DEF CallsTyped
          <6> QED
            BY <3>1, <4>1, <4>5, <6>1, MirrorGoesOn
        <5> QED
          BY <4>1, <4>4, <5>1
      <4>8. CASE call' = [call EXCEPT ![c] = Idle]
        <5>1. CallsAgree'
          <6>1. call'[c] = Idle /\ call' = [call EXCEPT ![c] = call'[c]]
            BY <1>0, <4>8 DEF CallsTyped
          <6> QED
            BY <3>1, <4>1, <6>1, MirrorGoesOn
        <5> QED
          BY <4>1, <4>4, <5>1
      <4> QED
        BY <4>6, <4>7, <4>8
    <3> QED
      BY <2>2, <3>2, <3>3 DEF MirrorPut
  <2> HIDE DEF Goal
  <2> QED
    BY <1>9, <2>1, <2>2
<1>10. ASSUME NEW c \in Calls, Cut(c) PROVE Goal
  <2>1. call' = [call EXCEPT ![c] = Idle] /\ Idle.at = "idle"
    BY <1>10 DEF Cut, Idle, LaneCall
  <2> QED
    BY <1>4, <1>10, <2>1 DEF Cut, laneVars, armVars
<1> HIDE DEF Goal
<1>11. Goal
  BY <1>5, <1>6, <1>7, <1>8, <1>9, <1>10 DEF Next
<1> QED
  BY <1>11 DEF Goal, Consent

LEMMA ConsentAlways == Spec => []Consent
<1>1. Init => Consent
  <2> SUFFICES ASSUME Init PROVE Consent
    OBVIOUS
  <2>1. LanesTyped /\ ArmsTyped /\ disturbed \subseteq Disturbable
    BY DEF Init, LanesTyped, ArmsTyped
  <2>2. CallsTyped /\ CallsAgree
    BY IdleTyped DEF Init, CallsTyped, CallsAgree, CallAgrees, Idle, LaneCall
  <2>3. LanesAgree /\ ArmsAgree
    BY DEF Init, LanesAgree, ArmsAgree
  <2> QED
    BY <2>1, <2>2, <2>3, TypeParts DEF Consent
<1>2. Consent /\ TypeOK' /\ [Next]_vars => Consent'
  <2> SUFFICES ASSUME Consent, TypeOK', [Next]_vars PROVE Consent'
    OBVIOUS
  <2>1. CASE Next
    BY <2>1, ConsentStep
  <2>2. CASE UNCHANGED vars
    BY <2>2 DEF vars, Consent, CallsAgree, CallAgrees, LanesAgree, ArmsAgree, Consented, Tied
  <2> QED
    BY <2>1, <2>2
<1> QED
  BY <1>1, <1>2, CustomersTypeCorrect, PTL DEF Spec

\* No buyer is made a customer behind his back: every way to become one, on
\* either side of the tie and however calls overlap or end half-way, starts
\* from a request, an invitation or a confirmation of his own.
THEOREM BuyerConsents == Spec => []BuyerAgreed
<1>1. Consent => BuyerAgreed
  BY DEF Consent, LanesAgree, Consented, BuyerAgreed
<1> QED
  BY <1>1, ConsentAlways, PTL

\* No supplier is connected to a buying arm unless a user of the buying business
\* asked for the tie, accepted or confirmed it, on whichever side of it and
\* however the calls overlap, get lost half-way or overwrite each other's rows.
THEOREM SuppliersConsented == Spec => []SupplierAgreed
<1>1. Consent => SupplierAgreed
  BY DEF Consent, ArmsAgree, Tied, Consented, SupplierAgreed
<1> QED
  BY <1>1, ConsentAlways, PTL

-----------------------------------------------------------------------------
(* Who serves a customer *)

Overlap ==
    \A c, d \in Calls : c # d => Concerned(call[c]) \intersect Concerned(call[d]) \subseteq disturbed

\* What a call found still holds when it writes, for users nobody disturbed.
Found(k) ==
    /\ k.buyer \notin disturbed =>
         /\ k.at = "assign" => customer[k.buyer] \in {"active", "pending"}
         /\ \/ k.at \in {"confirm", "findRow", "sync"}
            \/ k.at \in {"decide", "refuse"} /\ k.arg = "active"
            => assigned[k.buyer] = k.seller
         /\ k.at \in {"approve", "find", "add", "assign"} /\ k.seller \notin disturbed \union {Nobody}
            => k.seller \in sells \union {assigned[k.buyer]}
    /\ k.at \in {"unassign", "unsell"} /\ k.seller \notin disturbed =>
         \A b \in Buyers \ disturbed :
            customer[b] = "active" /\ assigned[b] = k.seller => k.at = "unassign" /\ b \in k.todo

RowHolds(b) == b \notin disturbed /\ customer[b] = "removed" => assigned[b] = Nobody

Serving ==
    /\ Overlap
    /\ \A c \in Calls : Found(call[c])
    /\ \A b \in Buyers : RowHolds(b)

\* A step of call c: the other calls stay, nothing stops being disturbed, and
\* whom it comes to concern is disturbed if another call concerns him.
StepOf(c) ==
    /\ \A d \in Calls \ {c} : call'[d] = call[d]
    /\ disturbed \subseteq disturbed'
    /\ \A d \in Calls \ {c} :
          (Concerned(call'[c]) \ Concerned(call[c])) \intersect Concerned(call[d]) \subseteq disturbed'

\* The step leaves the buyer's lane alone.
Same(b) == customer'[b] = customer[b] /\ assigned'[b] = assigned[b]

\* A buyer comes to be an active customer of a seller only by a call about
\* both, unless the buyer is disturbed.
WithSeller(c) ==
    \A b \in Buyers : customer'[b] = "active" /\ assigned'[b] # Nobody =>
        \/ customer[b] = "active" /\ assigned[b] = assigned'[b]
        \/ b \in disturbed'
        \/ assigned'[b] \in Concerned(call[c]) \union {Owner}

LEMMA OverlapKept ==
    ASSUME Overlap, NEW c \in Calls, StepOf(c)
    PROVE  Overlap'
<1> SUFFICES ASSUME NEW d \in Calls, NEW e \in Calls, d # e
             PROVE Concerned(call'[d]) \intersect Concerned(call'[e]) \subseteq disturbed'
  BY DEF Overlap, Concerned
<1>1. Concerned(call[d]) \intersect Concerned(call[e]) \subseteq disturbed
  BY DEF Overlap
<1>2. CASE d = c
  BY <1>1, <1>2 DEF StepOf
<1>3. CASE e = c
  BY <1>1, <1>3 DEF StepOf
<1>4. CASE d # c /\ e # c
  BY <1>1, <1>4 DEF StepOf
<1> QED
  BY <1>2, <1>3, <1>4

\* What the other calls found, a step of call c leaves true.
LEMMA OthersFind ==
    ASSUME TypeOK, TypeOK', Overlap, NEW c \in Calls, StepOf(c), WithSeller(c),
           sells \subseteq sells' \union Concerned(call[c]),
           \A b \in Buyers \ Concerned(call[c]) : Same(b),
           NEW d \in Calls \ {c}, Found(call[d])
    PROVE  Found(call[d])'
<1> DEFINE k == call[d]
<1>1. call'[d] = k /\ disturbed \subseteq disturbed'
  BY DEF StepOf
<1>2. k \in CallType /\ WellFormed(k)
  BY TypeParts DEF CallsTyped
<1>3. Concerned(k) \intersect Concerned(call[c]) \subseteq disturbed
  BY DEF Overlap
<1>4. k.buyer \in Buyers /\ k.buyer \notin disturbed' => Same(k.buyer)
  <2>1. k.buyer \in Buyers => k.buyer \in Concerned(k)
    BY DEF Concerned
  <2> QED
    BY <1>1, <1>3, <2>1
<1>5. k.seller \in Sellers \ disturbed' => k.seller \notin Concerned(call[c])
  <2>1. Owner \notin Concerned(call[c])
    BY DEF Concerned
  <2>2. k.seller \in Sellers \ {Owner} => k.seller \in Concerned(k)
    BY DEF Concerned
  <2> QED
    BY <1>1, <1>3, <2>1, <2>2
<1>6. k.at \in {"unassign", "unsell"} => k.seller \in Sellers \ {Owner}
  BY <1>2 DEF WellFormed
<1>7. k.at \in OnLane \union OnArm \union OnTie \union OnBoth => k.buyer \in Buyers
  BY <1>2 DEF WellFormed
<1>8. k.seller \in Sellers \union {Nobody}
  BY <1>2 DEF CallType
<1> HIDE DEF k
<1>9. Found(k)
  BY DEF k
<1>10. k.buyer \notin disturbed' =>
         /\ k.at = "assign" => customer'[k.buyer] \in {"active", "pending"}
         /\ \/ k.at \in {"confirm", "findRow", "sync"}
            \/ k.at \in {"decide", "refuse"} /\ k.arg = "active"
            => assigned'[k.buyer] = k.seller
         /\ k.at \in {"approve", "find", "add", "assign"} /\ k.seller \notin disturbed' \union {Nobody}
            => k.seller \in sells' \union {assigned'[k.buyer]}
  <2> SUFFICES ASSUME k.buyer \notin disturbed',
                      k.at \in OnLane \union OnArm \union OnTie \union OnBoth
               PROVE  /\ k.at = "assign" => customer'[k.buyer] \in {"active", "pending"}
                      /\ \/ k.at \in {"confirm", "findRow", "sync"}
                         \/ k.at \in {"decide", "refuse"} /\ k.arg = "active"
                         => assigned'[k.buyer] = k.seller
                      /\ /\ k.at \in {"approve", "find", "add", "assign"}
                         /\ k.seller \notin disturbed' \union {Nobody}
                         => k.seller \in sells' \union {assigned'[k.buyer]}
    OBVIOUS
  <2>1. Same(k.buyer) /\ k.buyer \notin disturbed
    BY <1>1, <1>4, <1>7
  <2>2. k.at \in {"approve", "find", "add", "assign"} /\ k.seller \notin disturbed' \union {Nobody}
        => k.seller \in sells' \union {assigned'[k.buyer]}
    BY <1>1, <1>5, <1>8, <1>9, <2>1 DEF Found, Same
  <2> QED
    BY <1>9, <2>1, <2>2 DEF Found, Same
<1>11. k.at \in {"unassign", "unsell"} /\ k.seller \notin disturbed' =>
         \A b \in Buyers \ disturbed' :
            customer'[b] = "active" /\ assigned'[b] = k.seller => k.at = "unassign" /\ b \in k.todo
  BY <1>1, <1>5, <1>6, <1>9 DEF Found, WithSeller
<1> QED
  BY <1>1, <1>10, <1>11 DEF Found

\* The lane of a buyer whom the step leaves alone.
LEMMA OthersHold ==
    ASSUME NEW b \in Buyers, disturbed \subseteq disturbed', Same(b), RowHolds(b)
    PROVE  RowHolds(b)'
BY DEF RowHolds, Same

\* A step of call c keeps Serving if it keeps what c itself found, and the rows
\* of the buyers it concerns.
LEMMA StepServes ==
    ASSUME TypeOK, TypeOK', Serving, NEW c \in Calls, StepOf(c), WithSeller(c),
           sells \subseteq sells' \union Concerned(call[c]),
           \A b \in Buyers \ Concerned(call[c]) : Same(b),
           Found(call[c])',
           \A b \in Buyers \intersect Concerned(call[c]) : RowHolds(b)'
    PROVE  Serving'
<1>1. Overlap'
  BY OverlapKept DEF Serving
<1>2. \A d \in Calls : Found(call[d])'
  BY OthersFind DEF Serving
<1>3. ASSUME NEW b \in Buyers \ Concerned(call[c]) PROVE RowHolds(b)'
  BY <1>3, OthersHold DEF StepOf, Serving
<1> QED
  BY <1>1, <1>2, <1>3 DEF Serving

\* A step that changes no lane.
LEMMA QuietServes ==
    ASSUME TypeOK, TypeOK', Serving, NEW c \in Calls, StepOf(c), UNCHANGED <<customer, assigned>>,
           sells \subseteq sells' \union Concerned(call[c]), Found(call[c])'
    PROVE  Serving'
<1>1. WithSeller(c) /\ \A b \in Buyers : Same(b)
  BY DEF WithSeller, Same
<1>2. ASSUME NEW b \in Buyers PROVE RowHolds(b)'
  BY <1>1, OthersHold DEF StepOf, Serving
<1> QED
  BY <1>1, <1>2, StepServes

LEMMA SlotIsStep ==
    ASSUME TypeOK, NEW c \in Calls, NEW k, call' = [call EXCEPT ![c] = k],
           disturbed \subseteq disturbed', Concerned(k) \subseteq Concerned(call[c])
    PROVE  StepOf(c) /\ call'[c] = k
BY TypeParts DEF StepOf, CallsTyped

LEMMA DoneIsStep ==
    ASSUME TypeOK, NEW c \in Calls, Done(c)
    PROVE  StepOf(c) /\ call'[c] = Idle /\ Found(call[c])'
<1>1. Concerned(Idle) = {}
  BY DEF Concerned, Idle, LaneCall
<1>2. StepOf(c) /\ call'[c] = Idle
  BY <1>1, SlotIsStep DEF Done
<1>3. Idle.at = "idle" /\ Idle.buyer = Nobody
  BY DEF Idle, LaneCall
<1> QED
  BY <1>2, <1>3 DEF Found

\* What a handler that only looked needs.
LEMMA BeginServes ==
    ASSUME TypeOK, TypeOK', Serving, NEW c \in Calls, NEW k, k.todo = {}, Begin(c, k),
           k.at \notin OnBoth \union {"unassign", "unsell"},
           UNCHANGED <<customer, assigned, sells>>,
           /\ k.at = "assign" => customer[k.buyer] \in {"active", "pending"}
           /\ \/ k.at \in {"confirm", "findRow", "sync"}
              \/ k.at \in {"decide", "refuse"} /\ k.arg = "active"
              => assigned[k.buyer] = k.seller
           /\ k.at \in {"approve", "find", "add", "assign"} /\ k.seller # Nobody
              => k.seller \in sells \union {assigned[k.buyer]}
    PROVE  Serving'
<1>1. /\ call' = [call EXCEPT ![c] = k] /\ call[c].at = "idle"
      /\ disturbed' = disturbed \union ({k.buyer, k.seller} \intersect Busy)
  BY DEF Begin, Meet
<1>2. call'[c] = k /\ \A d \in Calls \ {c} : call'[d] = call[d]
  BY <1>1, TypeParts DEF CallsTyped
<1>3. Concerned(k) \subseteq {k.buyer, k.seller}
  BY DEF Concerned
<1>4. \A d \in Calls : Concerned(call[d]) \subseteq Busy
  BY DEF Busy
<1>5. StepOf(c)
  BY <1>1, <1>2, <1>3, <1>4 DEF StepOf
<1>6. Found(call[c])'
  BY <1>2 DEF Found
<1> QED
  BY <1>5, <1>6, QuietServes

\* Handlers that only looked.
LEMMA ReadsServe ==
    ASSUME TypeOK, TypeOK', Serving, NEW c \in Calls,
           \/ \E b \in Buyers :
                 \/ ReadJoin(c, b) \/ ReadReject(c, b) \/ ReadConfirm(c, b) \/ ReadDecline(c, b)
                 \/ \E side \in Sides : ReadRemove(c, b, side)
                 \/ \E s \in Sellers \union {Nobody} : ReadApprove(c, b, s)
                 \/ \E s \in Sellers : ReadAdd(c, b, s) \/ ReadAssign(c, b, s)
           \/ \E s \in Sellers : ReadRemoval(c, s)
           \/ \E i \in Inquiries :
                 \/ ReadInvite(c, i) \/ ReadRequest(c, i)
                 \/ \E side \in Sides, verdict \in {"active", "declined", "removed"} :
                       ReadDecide(c, i, side, verdict)
    PROVE  Serving'
<1>0. UNCHANGED <<laneVars, sells, armVars>> => UNCHANGED <<customer, assigned, sells>>
  BY DEF laneVars
<1>1. ASSUME NEW step, NEW b, NEW s, NEW side, NEW fresh, Begin(c, LaneCall(step, b, s, side, fresh)),
             UNCHANGED <<laneVars, sells, armVars>>,
             \/ step \in {"join", "reject", "decline", "remove", "collect"}
             \/ step = "confirm" /\ s = assigned[b]
             \/ step = "approve" /\ s \in sells \union {assigned[b]}
             \/ step = "find" /\ s \in sells
             \/ step = "assign" /\ s \in sells /\ customer[b] \in {"active", "pending"}
      PROVE  Serving'
  <2> DEFINE k == LaneCall(step, b, s, side, fresh)
  <2>1. k.at = step /\ k.buyer = b /\ k.seller = s /\ k.todo = {}
    BY DEF LaneCall
  <2> HIDE DEF k
  <2>2. Begin(c, k)
    BY <1>1 DEF k
  <2> QED
    BY <1>0, <1>1, <2>1, <2>2, BeginServes
<1>2. ASSUME NEW b \in Buyers,
             \/ ReadJoin(c, b) \/ ReadReject(c, b) \/ ReadConfirm(c, b) \/ ReadDecline(c, b)
             \/ \E side \in Sides : ReadRemove(c, b, side)
             \/ \E s \in Sellers \union {Nobody} : ReadApprove(c, b, s)
             \/ \E s \in Sellers : ReadAdd(c, b, s) \/ ReadAssign(c, b, s)
      PROVE  Serving'
  <2>1. CASE ReadJoin(c, b) \/ ReadReject(c, b) \/ ReadDecline(c, b)
             \/ \E side \in Sides : ReadRemove(c, b, side)
    BY <1>1, <2>1 DEF ReadJoin, ReadReject, ReadDecline, ReadRemove
  <2>2. CASE ReadConfirm(c, b)
    BY <1>1, <2>2 DEF ReadConfirm
  <2>3. CASE \E s \in Sellers \union {Nobody} : ReadApprove(c, b, s)
    BY <1>1, <2>3 DEF ReadApprove
  <2>4. CASE \E s \in Sellers : ReadAdd(c, b, s) \/ ReadAssign(c, b, s)
    BY <1>1, <2>4 DEF ReadAdd, ReadAssign
  <2> QED
    BY <1>2, <2>1, <2>2, <2>3, <2>4
<1>3. ASSUME NEW s \in Sellers, ReadRemoval(c, s) PROVE Serving'
  BY <1>1, <1>3 DEF ReadRemoval
<1>4. ASSUME NEW step \in OnArm, NEW i \in Inquiries, NEW s, NEW arg, NEW side, NEW fresh,
             Begin(c, ArmCall(step, i, s, arg, side, fresh)), UNCHANGED <<laneVars, sells, armVars>>,
             step \in {"decide", "refuse"} /\ arg = "active" => s = assigned[BuyerOf[i]]
      PROVE  Serving'
  <2> DEFINE k == ArmCall(step, i, s, arg, side, fresh)
  <2>1. /\ k.at = step /\ k.buyer = BuyerOf[i] /\ k.seller = s /\ k.todo = {}
        /\ k.arm = i /\ k.arg = arg
    BY DEF ArmCall
  <2> HIDE DEF k
  <2>2. Begin(c, k)
    BY <1>4 DEF k
  <2> QED
    BY <1>0, <1>4, <2>1, <2>2, BeginServes
<1>5. ASSUME NEW i \in Inquiries, ReadInvite(c, i) \/ ReadRequest(c, i) PROVE Serving'
  BY <1>4, <1>5 DEF ReadInvite, ReadRequest
<1>6. ASSUME NEW i \in Inquiries, NEW side \in Sides, NEW verdict \in {"active", "declined", "removed"},
             ReadDecide(c, i, side, verdict)
      PROVE  Serving'
  <2> DEFINE step == IF verdict = "declined" /\ supVia[i] = "supplier_request"
                     THEN "refuse" ELSE "decide"
             s == IF verdict = "active" THEN assigned[BuyerOf[i]] ELSE Nobody
  <2>1. verdict = "active" => s = assigned[BuyerOf[i]]
    OBVIOUS
  <2>2. Begin(c, ArmCall(step, i, s, verdict, side, FALSE)) /\ UNCHANGED <<laneVars, sells, armVars>>
    BY <1>6 DEF ReadDecide
  <2>3. step \in OnArm
    OBVIOUS
  <2> HIDE DEF step, s
  <2> QED
    BY <1>4, <2>1, <2>2, <2>3
<1> QED
  BY <1>2, <1>3, <1>5, <1>6

\* The step of a call about one buyer that writes his lane and then is over, or
\* goes on about him.
LEMMA WriteServes ==
    ASSUME TypeOK, TypeOK', Serving, NEW c \in Calls, NEW b \in Buyers,
           call[c].buyer = b, StepOf(c), UNCHANGED sells, Found(call[c])',
           \A a \in Buyers \ {b} : Same(a),
           b \notin disturbed' =>
              /\ customer'[b] = "active" =>
                    \/ customer[b] = "active" /\ assigned'[b] = assigned[b]
                    \/ assigned'[b] \in {call[c].seller, Nobody}
              /\ customer'[b] = "removed" => assigned'[b] = Nobody
    PROVE  Serving'
<1>1. b \in Concerned(call[c])
  BY DEF Concerned
<1>2. WithSeller(c)
  <2> SUFFICES ASSUME NEW a \in Buyers, customer'[a] = "active", assigned'[a] # Nobody
               PROVE  \/ customer[a] = "active" /\ assigned[a] = assigned'[a]
                      \/ a \in disturbed'
                      \/ assigned'[a] \in Concerned(call[c]) \union {Owner}
    BY DEF WithSeller
  <2>1. call[c].seller \in Concerned(call[c]) \union {Owner, Nobody}
    BY DEF Concerned
  <2> QED
    BY <2>1 DEF Same
<1>3. RowHolds(b)'
  BY DEF RowHolds
<1>4. ASSUME NEW a \in Buyers \ {b} PROVE RowHolds(a)'
  BY OthersHold DEF StepOf, Serving
<1> QED
  BY <1>1, <1>2, <1>3, <1>4, StepServes

LEMMA MirrorIsStep ==
    ASSUME TypeOK, NEW c \in Calls, NEW status, NEW side, Mirror(c, status, side)
    PROVE  StepOf(c) /\ Found(call[c])'
<1>1. call[c] \in CallType
  BY TypeParts DEF CallsTyped
<1>2. PICK arms \in SUBSET ArmsOf(call[c].buyer) :
         Onward(c, [call[c] EXCEPT !.at = "mirror", !.arg = status, !.side = side, !.todo = arms])
  BY DEF Mirror
<1> DEFINE k == [call[c] EXCEPT !.at = "mirror", !.arg = status, !.side = side, !.todo = arms]
<1>3. /\ k.at = "mirror" /\ k.buyer = call[c].buyer /\ k.todo \subseteq Inquiries
      /\ k.seller = call[c].seller
  BY <1>1, <1>2 DEF CallType, ArmsOf
<1>4. call' = [call EXCEPT ![c] = IF k.todo = {} THEN Idle ELSE k] /\ UNCHANGED disturbed
  BY <1>2 DEF Onward
<1> HIDE DEF k
<1>5. Concerned(k) \subseteq Concerned(call[c]) /\ Concerned(Idle) = {}
  BY <1>3, KindsAssumption DEF Concerned, Idle, LaneCall
<1>6. StepOf(c) /\ call'[c] \in {k, Idle}
  BY <1>4, <1>5, SlotIsStep
<1>7. Idle.at = "idle"
  BY DEF Idle, LaneCall
<1> QED
  BY <1>3, <1>6, <1>7 DEF Found

\* Handlers that write the lane.
LEMMA LaneWritesServe ==
    ASSUME TypeOK, TypeOK', Serving, NEW c \in Calls,
           \/ WriteJoin(c) \/ WriteApprove(c) \/ WriteReject(c) \/ FindRow(c) \/ WriteAdd(c)
           \/ WriteConfirm(c) \/ WriteDecline(c) \/ WriteRemove(c) \/ WriteAssign(c)
           \/ Lower(c) \/ Sync(c)
    PROVE  Serving'
<1>1. PICK b \in Buyers : call[c].buyer = b
  BY TypeParts DEF CallsTyped, WellFormed, WriteJoin, WriteApprove, WriteReject, FindRow, WriteAdd,
     WriteConfirm, WriteDecline, WriteRemove, WriteAssign, Lower, Sync, At
<1>2. LanesTyped /\ CallsTyped /\ call[c] \in CallType
  BY TypeParts DEF CallsTyped
<1>3. Found(call[c])
  BY DEF Serving
\* A call that is over, or gave up, without having changed a row.
<1>4. ASSUME Done(c), UNCHANGED <<laneVars, sells>> PROVE Serving'
  BY <1>4, DoneIsStep, QuietServes DEF laneVars
<1>5. ASSUME Done(c), UNCHANGED sells, \A a \in Buyers \ {b} : Same(a),
             b \notin disturbed =>
                /\ customer'[b] = "active" =>
                      \/ customer[b] = "active" /\ assigned'[b] = assigned[b]
                      \/ assigned'[b] \in {call[c].seller, Nobody}
                /\ customer'[b] = "removed" => assigned'[b] = Nobody
      PROVE  Serving'
  <2>1. StepOf(c) /\ Found(call[c])' /\ UNCHANGED disturbed
    BY <1>5, DoneIsStep DEF Done
  <2> QED
    BY <1>1, <1>5, <2>1, WriteServes
<1>6. ASSUME NEW status, NEW side, Mirror(c, status, side), UNCHANGED sells,
             \A a \in Buyers \ {b} : Same(a),
             customer'[b] = status,
             b \notin disturbed =>
                /\ status = "active" => assigned'[b] = call[c].seller
                /\ status = "removed" => assigned'[b] = Nobody
      PROVE  Serving'
  <2>1. StepOf(c) /\ Found(call[c])'
    BY <1>6, MirrorIsStep
  <2>2. UNCHANGED disturbed
    BY <1>6 DEF Mirror, Onward
  <2> QED
    BY <1>1, <1>6, <2>1, <2>2, WriteServes
<1>7. CASE WriteJoin(c)
  <2>1. CASE UNCHANGED laneVars
    BY <1>4, <1>7, <2>1 DEF WriteJoin, At
  <2>2. CASE ~ UNCHANGED laneVars
    BY <1>1, <1>2, <1>5, <1>7, <2>2 DEF WriteJoin, LanesTyped, laneVars, Same
  <2> QED
    BY <2>1, <2>2
<1>8. CASE WriteApprove(c)
  BY <1>1, <1>2, <1>5, <1>8 DEF WriteApprove, LanesTyped, Same
<1>9. CASE WriteReject(c)
  BY <1>1, <1>2, <1>5, <1>9 DEF WriteReject, Unbind, LanesTyped, Same
<1>10. CASE FindRow(c)
  <2> DEFINE k == [call[c] EXCEPT !.at = "add", !.fresh = call[c].buyer \notin rows]
  <2>1. /\ call' = [call EXCEPT ![c] = k] /\ call[c].at = "find"
        /\ UNCHANGED <<customer, assigned, sells, disturbed>>
    BY <1>10 DEF FindRow, At, laneVars
  <2>2. k.at = "add" /\ k.buyer = call[c].buyer /\ k.seller = call[c].seller /\ k.todo = call[c].todo
    BY <1>2 DEF CallType
  <2> HIDE DEF k
  <2>3. StepOf(c) /\ call'[c] = k
    BY <2>1, <2>2, SlotIsStep DEF Concerned
  <2>4. Found(call[c])'
    BY <1>3, <2>1, <2>2, <2>3 DEF Found
  <2> QED
    BY <2>1, <2>3, <2>4, QuietServes
<1>11. CASE WriteAdd(c)
  <2>1. CASE Done(c) /\ UNCHANGED laneVars
    BY <1>4, <1>11, <2>1 DEF WriteAdd, At
  <2>2. CASE Mirror(c, "pending", "seller") /\ ~ UNCHANGED laneVars
    BY <1>1, <1>2, <1>6, <1>11, <2>2 DEF WriteAdd, LanesTyped, Same
  <2>3. CASE UNCHANGED laneVars /\ Mirror(c, "pending", "seller") /\ customer'[b] = "pending"
    BY <1>6, <1>11, <2>3 DEF WriteAdd, laneVars, Same
  <2>4. \/ Done(c) /\ UNCHANGED laneVars
        \/ Mirror(c, "pending", "seller") /\ customer' = [customer EXCEPT ![b] = "pending"]
    BY <1>1, <1>11 DEF WriteAdd
  <2> QED
    BY <1>2, <2>1, <2>2, <2>3, <2>4 DEF LanesTyped
<1>12. CASE WriteConfirm(c)
  <2>1. b \notin disturbed => assigned[b] = call[c].seller
    BY <1>1, <1>3, <1>12 DEF WriteConfirm, At, Found
  <2> QED
    BY <1>1, <1>2, <1>6, <1>12, <2>1 DEF WriteConfirm, LanesTyped, Same
<1>13. CASE WriteDecline(c)
  BY <1>1, <1>2, <1>5, <1>13 DEF WriteDecline, Unbind, LanesTyped, Same
<1>14. CASE WriteRemove(c)
  BY <1>1, <1>2, <1>6, <1>14 DEF WriteRemove, Unbind, LanesTyped, Same
<1>15. CASE WriteAssign(c)
  <2>1. b \notin disturbed => customer[b] \in {"active", "pending"}
    BY <1>1, <1>3, <1>15 DEF WriteAssign, At, Found
  <2> QED
    BY <1>1, <1>2, <1>5, <1>15, <2>1 DEF WriteAssign, At, LanesTyped, Same
<1>16. CASE Lower(c)
  BY <1>1, <1>2, <1>5, <1>16 DEF Lower, Unbind, LanesTyped, Same
<1>17. CASE Sync(c)
  <2>1. CASE UNCHANGED laneVars
    BY <1>4, <1>17, <2>1 DEF Sync, At
  <2>2. CASE ~ UNCHANGED laneVars
    <3>1. b \notin disturbed => assigned[b] = call[c].seller
      BY <1>1, <1>3, <1>17 DEF Sync, At, Found
    <3> QED
      BY <1>1, <1>2, <1>5, <1>17, <2>2, <3>1 DEF Sync, LanesTyped, laneVars, Same
  <2> QED
    BY <2>1, <2>2
<1> QED
  BY <1>7, <1>8, <1>9, <1>10, <1>11, <1>12, <1>13, <1>14, <1>15, <1>16, <1>17

\* Steps of a seller's removal.
LEMMA TeamStepsServe ==
    ASSUME TypeOK, TypeOK', Serving, NEW c \in Calls, Collect(c) \/ Unassign(c) \/ Unsell(c)
    PROVE  Serving'
<1>1. LanesTyped /\ CallsTyped /\ call[c] \in CallType /\ WellFormed(call[c]) /\ Found(call[c])
  BY TypeParts DEF CallsTyped, Serving
<1>2. call[c].at \in OnSeller /\ call[c].seller \in Sellers \ {Owner}
  BY <1>1 DEF WellFormed, Collect, Unassign, Unsell, At
<1>3. call[c].seller \in Concerned(call[c])
  BY <1>2 DEF Concerned
<1>4. CASE Collect(c)
  <2> DEFINE mine == {b \in Buyers : customer[b] = "active" /\ assigned[b] = call[c].seller}
             step == IF mine = {} THEN "unsell" ELSE "unassign"
             k == [call[c] EXCEPT !.at = step, !.todo = mine]
  <2>1. /\ call' = [call EXCEPT ![c] = k] /\ Meet(mine) /\ call[c].at = "collect"
        /\ UNCHANGED <<customer, assigned, sells>>
    BY <1>4 DEF Collect, At, laneVars
  <2>2. /\ k.at = step /\ k.buyer = call[c].buyer /\ k.seller = call[c].seller /\ k.todo = mine
    BY <1>1 DEF CallType
  <2>3. /\ step \in {"unsell", "unassign"}
        /\ step = "unsell" => mine = {}
    OBVIOUS
  <2>4. mine = {b \in Buyers : customer[b] = "active" /\ assigned[b] = call[c].seller}
    OBVIOUS
  <2> HIDE DEF k, step, mine
  <2>5. call'[c] = k /\ \A d \in Calls \ {c} : call'[d] = call[d]
    BY <1>1, <2>1 DEF CallsTyped
  <2>6. Concerned(k) \subseteq Concerned(call[c]) \union mine
    BY <2>2 DEF Concerned
  <2>7. StepOf(c)
    BY <2>1, <2>5, <2>6 DEF StepOf, Meet, Busy
  <2>8. Found(call[c])'
    <3>1. \A b \in Buyers : customer'[b] = "active" /\ assigned'[b] = k.seller =>
             k.at = "unassign" /\ b \in k.todo
      BY <2>1, <2>2, <2>3, <2>4
    <3>2. k.at \in {"unsell", "unassign"}
      BY <2>2, <2>3
    <3> QED
      BY <2>5, <3>1, <3>2 DEF Found
  <2> QED
    BY <2>1, <2>7, <2>8, QuietServes
<1>5. CASE Unassign(c)
  <2> DEFINE k == [call[c] EXCEPT !.at = "unsell", !.todo = {}]
  <2>1. /\ call' = [call EXCEPT ![c] = k] /\ call[c].at = "unassign"
        /\ assigned' = [b \in Buyers |-> IF b \in call[c].todo THEN Nobody ELSE assigned[b]]
        /\ UNCHANGED <<customer, sells, disturbed>>
    BY <1>5 DEF Unassign, At
  <2>2. /\ k.at = "unsell" /\ k.buyer = call[c].buyer /\ k.seller = call[c].seller /\ k.todo = {}
    BY <1>1 DEF CallType
  <2> HIDE DEF k
  <2>3. StepOf(c) /\ call'[c] = k
    BY <2>1, <2>2, SlotIsStep DEF Concerned
  <2>4. Found(call[c])'
    BY <1>1, <1>2, <2>1, <2>2, <2>3 DEF Found
  <2>5. WithSeller(c)
    BY <2>1 DEF WithSeller
  <2>6. \A b \in Buyers \ Concerned(call[c]) : Same(b)
    BY <2>1 DEF Same, Concerned
  <2>7. ASSUME NEW b \in Buyers PROVE RowHolds(b)'
    BY <2>1 DEF Serving, RowHolds
  <2> QED
    BY <2>1, <2>3, <2>4, <2>5, <2>6, <2>7, StepServes
<1>6. CASE Unsell(c)
  <2>1. /\ StepOf(c) /\ Found(call[c])' /\ sells' = sells \ {call[c].seller}
        /\ UNCHANGED <<customer, assigned>>
    BY <1>6, DoneIsStep DEF Unsell, laneVars
  <2> QED
    BY <1>3, <2>1, QuietServes
<1> QED
  BY <1>4, <1>5, <1>6

\* Handlers on the inquiry's side, after they have looked.
LEMMA ArmStepsServe ==
    ASSUME TypeOK, TypeOK', Serving, NEW c \in Calls,
           WriteAsked(c) \/ WriteDecide(c) \/ Ask(c) \/ FindLane(c)
    PROVE  Serving'
<1>1. PICK b \in Buyers : call[c].buyer = b
  BY TypeParts DEF CallsTyped, WellFormed, WriteAsked, WriteDecide, Ask, FindLane, At
<1>2. /\ LanesTyped /\ ArmsTyped /\ CallsTyped /\ call[c] \in CallType /\ WellFormed(call[c])
      /\ Found(call[c])
  BY TypeParts DEF CallsTyped, Serving
<1>3. ASSUME NEW step \in {"ask", "findRow"}, ToLane(c, step),
             step = "findRow" /\ b \notin disturbed => assigned'[b] = call[c].seller
      PROVE  StepOf(c) /\ Found(call[c])'
  <2> DEFINE k == LaneCall(step, call[c].buyer, call[c].seller, "seller", FALSE)
  <2>1. k.at = step /\ k.buyer = b /\ k.seller = call[c].seller /\ k.todo = {}
    BY <1>1 DEF LaneCall
  <2>2. call' = [call EXCEPT ![c] = k] /\ UNCHANGED disturbed
    BY <1>3 DEF ToLane
  <2> HIDE DEF k
  <2>3. StepOf(c) /\ call'[c] = k
    BY <1>1, <2>1, <2>2, SlotIsStep DEF Concerned
  <2> QED
    BY <1>3, <2>1, <2>2, <2>3 DEF Found
<1>4. CASE WriteAsked(c)
  <2>1. StepOf(c) /\ Found(call[c])' /\ UNCHANGED <<customer, assigned, sells>>
    BY <1>4, DoneIsStep DEF WriteAsked, RowAsked, laneVars
  <2> QED
    BY <2>1, QuietServes
<1>5. CASE WriteDecide(c)
  <2>1. /\ call[c].at \in {"decide", "refuse"} /\ UNCHANGED <<customer, assigned, sells>>
        /\ call[c].arg = "active" => ToLane(c, "findRow")
        /\ call[c].arg # "active" /\ call[c].at = "refuse" => ToLane(c, "ask")
        /\ call[c].arg # "active" /\ call[c].at # "refuse" => Done(c)
    BY <1>5 DEF WriteDecide, At, laneVars
  <2>2. b \notin disturbed /\ call[c].arg = "active" => assigned'[b] = call[c].seller
    BY <1>1, <1>2, <2>1 DEF Found
  <2>3. StepOf(c) /\ Found(call[c])'
    BY <1>3, <2>1, <2>2, DoneIsStep
  <2> QED
    BY <2>1, <2>3, QuietServes
<1>6. CASE Ask(c)
  <2>1. call[c].at = "ask" /\ UNCHANGED <<customer, assigned, sells, disturbed>>
    BY <1>6 DEF Ask, At, Go, Done, laneVars
  <2>2. CASE customer[b] = "pending"
    <3> DEFINE k == [call[c] EXCEPT !.at = "lower"]
    <3>1. call' = [call EXCEPT ![c] = k]
      BY <1>1, <1>6, <2>2 DEF Ask, Go
    <3>2. k.at = "lower" /\ k.buyer = b /\ k.seller = call[c].seller /\ k.todo = call[c].todo
      BY <1>1, <1>2 DEF CallType
    <3> HIDE DEF k
    <3>3. StepOf(c) /\ call'[c] = k
      BY <1>1, <2>1, <3>1, <3>2, SlotIsStep DEF Concerned
    <3> QED
      BY <1>1, <2>1, <3>2, <3>3, QuietServes DEF Found
  <2>3. CASE customer[b] # "pending"
    BY <1>1, <1>6, <2>1, <2>3, DoneIsStep, QuietServes DEF Ask
  <2> QED
    BY <2>2, <2>3
<1>7. CASE FindLane(c)
  <2> DEFINE k == [call[c] EXCEPT !.at = "sync", !.fresh = call[c].buyer \notin rows]
  <2>1. /\ call' = [call EXCEPT ![c] = k] /\ call[c].at = "findRow"
        /\ UNCHANGED <<customer, assigned, sells, disturbed>>
    BY <1>7 DEF FindLane, At, laneVars
  <2>2. k.at = "sync" /\ k.buyer = call[c].buyer /\ k.seller = call[c].seller /\ k.todo = call[c].todo
    BY <1>2 DEF CallType
  <2> HIDE DEF k
  <2>3. StepOf(c) /\ call'[c] = k
    BY <2>1, <2>2, SlotIsStep DEF Concerned
  <2>4. Found(call[c])'
    BY <1>2, <2>1, <2>2, <2>3 DEF Found
  <2> QED
    BY <2>1, <2>3, <2>4, QuietServes
<1> QED
  BY <1>4, <1>5, <1>6, <1>7

\* Steps of the mirror leave the lane alone.
LEMMA MirrorStepsServe ==
    ASSUME TypeOK, TypeOK', Serving, NEW c \in Calls, MirrorLook(c) \/ MirrorPut(c)
    PROVE  Serving'
<1>1. call[c] \in CallType /\ WellFormed(call[c])
  BY TypeParts DEF CallsTyped
<1>2. call[c].at \in OnBoth /\ UNCHANGED <<customer, assigned, sells, disturbed>>
  BY DEF MirrorLook, MirrorPut, At, Onward, Done, laneVars
<1>3. Idle.at = "idle" /\ Concerned(Idle) = {}
  BY DEF Idle, LaneCall, Concerned
\* The call as it goes on, or its end.
<1>4. ASSUME NEW k, k.buyer = call[c].buyer, k.seller = call[c].seller, k.at \in OnBoth,
             k.todo \subseteq call[c].todo, call' = [call EXCEPT ![c] = k] \/ Onward(c, k) \/ Done(c)
      PROVE  Serving'
  <2>1. Concerned(k) \subseteq Concerned(call[c])
    BY <1>4 DEF Concerned
  <2>2. call' = [call EXCEPT ![c] = k] \/ call' = [call EXCEPT ![c] = Idle]
    BY <1>4 DEF Onward, Done
  <2>3. StepOf(c) /\ call'[c] \in {k, Idle}
    BY <1>2, <1>3, <2>1, <2>2, SlotIsStep
  <2>4. Found(call[c])'
    BY <1>3, <1>4, <2>3 DEF Found
  <2> QED
    BY <1>2, <2>3, <2>4, QuietServes
<1>5. CASE MirrorLook(c)
  <2>1. PICK i \in call[c].todo :
           LET rest == [call[c] EXCEPT !.todo = @ \ {i}] IN
           IF Copied(i, call[c].arg)
           THEN /\ call' = [call EXCEPT ![c] = [rest EXCEPT !.at = "put", !.arm = i,
                                                            !.fresh = supplier[i] = "none"]]
                /\ UNCHANGED disturbed
           ELSE Onward(c, rest)
    BY <1>5 DEF MirrorLook
  <2> DEFINE rest == [call[c] EXCEPT !.todo = @ \ {i}]
             k == [rest EXCEPT !.at = "put", !.arm = i, !.fresh = supplier[i] = "none"]
  <2>2. /\ rest.buyer = call[c].buyer /\ rest.seller = call[c].seller /\ rest.at = call[c].at
        /\ rest.todo \subseteq call[c].todo
        /\ k.buyer = call[c].buyer /\ k.seller = call[c].seller /\ k.at = "put"
        /\ k.todo \subseteq call[c].todo
    BY <1>1 DEF CallType
  <2>3. call' = [call EXCEPT ![c] = k] \/ Onward(c, rest)
    BY <2>1
  <2> HIDE DEF k, rest
  <2> QED
    BY <1>2, <1>4, <2>2, <2>3
<1>6. CASE MirrorPut(c)
  <2> DEFINE k == [call[c] EXCEPT !.at = "mirror", !.arm = Nobody, !.fresh = FALSE]
  <2>1. /\ k.buyer = call[c].buyer /\ k.seller = call[c].seller /\ k.at = "mirror"
        /\ k.todo \subseteq call[c].todo
    BY <1>1 DEF CallType
  <2>2. Onward(c, k) \/ Done(c)
    BY <1>6 DEF MirrorPut
  <2> HIDE DEF k
  <2> QED
    BY <1>4, <2>1, <2>2
<1> QED
  BY <1>5, <1>6

\* A call that ends half-way disturbs whom it concerns.
LEMMA CutServes ==
    ASSUME TypeOK, TypeOK', Serving, NEW c \in Calls, Cut(c)
    PROVE  Serving'
<1>1. /\ call' = [call EXCEPT ![c] = Idle] /\ disturbed' = disturbed \union Concerned(call[c])
      /\ UNCHANGED <<customer, assigned, sells>>
  BY DEF Cut, laneVars
<1>2. Idle.at = "idle" /\ Concerned(Idle) = {}
  BY DEF Idle, LaneCall, Concerned
<1>3. StepOf(c) /\ call'[c] = Idle
  BY <1>1, <1>2, SlotIsStep
<1>4. Found(call[c])'
  BY <1>2, <1>3 DEF Found
<1>5. WithSeller(c) /\ \A b \in Buyers : Same(b)
  BY <1>1 DEF WithSeller, Same
<1>6. \A b \in Buyers \intersect Concerned(call[c]) : RowHolds(b)'
  BY <1>1 DEF RowHolds
<1> QED
  BY <1>1, <1>3, <1>4, <1>5, <1>6, StepServes

\* A seller who comes or goes disturbs himself if a call concerns him.
LEMMA SellersServe ==
    ASSUME TypeOK, TypeOK', Serving, NEW s \in Sellers, StartSelling(s) \/ LeaveBusinessTeam(s)
    PROVE  Serving'
<1>1. /\ UNCHANGED <<customer, assigned, call>>
      /\ disturbed' = disturbed \union ({s} \intersect Busy)
      /\ sells \subseteq sells' \union {s}
      /\ s = Owner => s \in sells'
  BY DEF StartSelling, LeaveBusinessTeam, Meet, laneVars
<1>2. Overlap'
  BY <1>1 DEF Serving, Overlap, Concerned
<1>3. ASSUME NEW d \in Calls PROVE Found(call[d])'
  <2>1. Found(call[d])
    BY DEF Serving
  <2>2. call[d].seller \notin disturbed' \union {Nobody} /\ call[d].seller \in sells =>
           call[d].seller \in sells'
    <3>1. s # Owner /\ call[d].seller = s => s \in Concerned(call[d])
      BY DistinctAssumption DEF Concerned
    <3> QED
      BY <1>1, <3>1 DEF Busy
  <2>3. disturbed \subseteq disturbed'
    BY <1>1
  <2> QED
    BY <1>1, <2>1, <2>2, <2>3 DEF Found
<1>4. ASSUME NEW b \in Buyers PROVE RowHolds(b)'
  BY <1>1 DEF Serving, RowHolds
<1> QED
  BY <1>2, <1>3, <1>4 DEF Serving

LEMMA ServingStep ==
    ASSUME TypeOK, TypeOK', Serving, [Next]_vars
    PROVE  Serving'
<1>1. CASE UNCHANGED vars
  BY <1>1 DEF vars, Serving, Overlap, Found, RowHolds, Concerned
<1>2. ASSUME NEW s \in Sellers, StartSelling(s) \/ LeaveBusinessTeam(s) PROVE Serving'
  BY <1>2, SellersServe
<1>3. ASSUME NEW c \in Calls, Laning(c) PROVE Serving'
  BY <1>3, ReadsServe, LaneWritesServe DEF Laning
<1>4. ASSUME NEW c \in Calls, Teaming(c) PROVE Serving'
  BY <1>4, ReadsServe, TeamStepsServe DEF Teaming
<1>5. ASSUME NEW c \in Calls, Arming(c) PROVE Serving'
  BY <1>5, ReadsServe, LaneWritesServe, ArmStepsServe DEF Arming
<1>6. ASSUME NEW c \in Calls, MirrorLook(c) \/ MirrorPut(c) \/ Cut(c) PROVE Serving'
  BY <1>6, MirrorStepsServe, CutServes
<1> QED
  BY <1>1, <1>2, <1>3, <1>4, <1>5, <1>6 DEF Next

LEMMA ServingAlways == Spec => []Serving
<1>1. Init => Serving
  <2> SUFFICES ASSUME Init PROVE Serving
    OBVIOUS
  <2>1. \A c \in Calls : call[c] = Idle
    BY DEF Init
  <2>2. Idle.at = "idle" /\ Concerned(Idle) = {}
    BY DEF Idle, LaneCall, Concerned
  <2>3. Overlap
    BY <2>1, <2>2 DEF Overlap, Concerned
  <2>4. \A c \in Calls : Found(call[c])
    BY <2>1, <2>2 DEF Found
  <2>5. \A b \in Buyers : RowHolds(b)
    BY DEF Init, RowHolds
  <2> QED
    BY <2>3, <2>4, <2>5 DEF Serving
<1>2. TypeOK /\ TypeOK' /\ Serving /\ [Next]_vars => Serving'
  BY ServingStep
<1> QED
  BY <1>1, <1>2, CustomersTypeCorrect, PTL DEF Spec

\* No lane of a former customer keeps a seller: whatever ends a tie for good
\* takes the seller, and nothing gives a former customer one.
THEOREM FormerCustomerHasNoSeller == Spec => []RemovedIsUnassigned
<1>1. Serving => RemovedIsUnassigned
  BY DEF Serving, RowHolds, RemovedIsUnassigned
<1> QED
  BY <1>1, ServingAlways, PTL

\* When removeSeller or leaveAsSeller takes the seller lane down, no active
\* customer is assigned to its user any more.
THEOREM RemovalLeavesNobody == Spec => RemovalUnassigns
<1>1. ASSUME TypeOK, Serving, [Next]_vars, NEW c \in Calls, NEW s, s = call[c].seller,
             At(c, "unsell"), s \in sells, s \notin sells', s \notin disturbed',
             NEW b \in Buyers \ disturbed'
      PROVE  ~ (customer[b] = "active" /\ assigned[b] = s)
  <2>1. CallsTyped /\ WellFormed(call[c])
    BY <1>1, TypeParts DEF CallsTyped
  <2>2. s \in Busy
    BY <1>1, <2>1, DistinctAssumption DEF WellFormed, At, Busy, Concerned
  <2>3. CASE \E t \in Sellers : LeaveBusinessTeam(t)
    BY <1>1, <2>2, <2>3 DEF LeaveBusinessTeam, Meet
  <2>4. ASSUME NEW d \in Calls, Unsell(d) PROVE ~ (customer[b] = "active" /\ assigned[b] = s)
    BY <1>1, <2>4 DEF Serving, Found, Unsell, At, Done
  <2>5. CASE UNCHANGED sells
    BY <1>1, <2>5
  <2>6. ASSUME NEW t \in Sellers, StartSelling(t) PROVE FALSE
    BY <1>1, <2>6 DEF StartSelling
  <2>7. ASSUME NEW d \in Calls, Laning(d) PROVE UNCHANGED sells
    BY <2>7 DEF Laning, ReadJoin, ReadReject, ReadConfirm, ReadDecline, ReadRemove, ReadApprove,
       ReadAdd, ReadAssign, WriteJoin, WriteApprove, WriteReject, FindRow, WriteAdd, WriteConfirm,
       WriteDecline, WriteRemove, WriteAssign
  <2>8. ASSUME NEW d \in Calls, Arming(d) PROVE UNCHANGED sells
    BY <2>8 DEF Arming, ReadInvite, ReadRequest, ReadDecide, WriteAsked, RowAsked, WriteDecide, Ask, Lower,
       FindLane, Sync
  <2>9. ASSUME NEW d \in Calls, Teaming(d) PROVE Unsell(d) \/ UNCHANGED sells
    BY <2>9 DEF Teaming, ReadRemoval, Collect, Unassign
  <2>10. ASSUME NEW d \in Calls, MirrorLook(d) \/ MirrorPut(d) \/ Cut(d) PROVE UNCHANGED sells
    BY <2>10 DEF MirrorLook, MirrorPut, Cut
  <2> QED
    BY <1>1, <2>3, <2>4, <2>5, <2>6, <2>7, <2>8, <2>9, <2>10 DEF Next, vars
<1>2. TypeOK /\ Serving /\ [Next]_vars =>
         \A c \in Calls :
            LET s == call[c].seller IN
            At(c, "unsell") /\ s \in sells /\ s \notin sells' /\ s \notin disturbed'
            => \A b \in Buyers \ disturbed' : ~ (customer[b] = "active" /\ assigned[b] = s)
  BY <1>1
<1> QED
  BY <1>2, ServingAlways, CustomersTypeCorrect, PTL DEF Spec, RemovalUnassigns

\* A buyer is only ever given to someone who sells for the catalog when he is.
THEOREM AssigneesSell == Spec => AssigneeSells
<1>1. ASSUME TypeOK, Serving, [Next]_vars, NEW b \in Buyers \ disturbed',
             assigned'[b] \notin {assigned[b], Nobody} \union disturbed'
      PROVE  assigned'[b] \in sells
  <2>1. LanesTyped /\ CallsTyped
    BY <1>1, TypeParts
  <2>2. ASSUME NEW c \in Calls, WriteApprove(c) \/ WriteAdd(c) \/ WriteAssign(c)
        PROVE  assigned'[b] \in sells
    <3>1. /\ call[c].at \in {"approve", "add", "assign"} /\ disturbed' = disturbed
          /\ assigned' = [assigned EXCEPT ![call[c].buyer] = call[c].seller] \/ UNCHANGED assigned
      BY <2>2 DEF WriteApprove, WriteAdd, WriteAssign, At, Done, Mirror, Onward, laneVars
    <3>2. call[c].buyer = b /\ assigned'[b] = call[c].seller
      BY <1>1, <2>1, <3>1 DEF LanesTyped
    <3> QED
      BY <1>1, <3>1, <3>2 DEF Serving, Found
  <2>3. CASE UNCHANGED assigned
    BY <1>1, <2>3
  <2>4. ASSUME NEW s \in Sellers, StartSelling(s) \/ LeaveBusinessTeam(s) PROVE UNCHANGED assigned
    BY <2>4 DEF StartSelling, LeaveBusinessTeam, laneVars
  <2>5. ASSUME NEW c \in Calls, NEW a, NEW status, Unbind(a, status) PROVE assigned'[b] \in {assigned[b], Nobody}
    BY <2>1, <2>5 DEF Unbind, LanesTyped
  <2>6. ASSUME NEW c \in Calls, Laning(c) PROVE assigned'[b] \in sells
    <3>1. \/ WriteApprove(c) \/ WriteAdd(c) \/ WriteAssign(c)
          \/ WriteReject(c) \/ WriteDecline(c) \/ WriteRemove(c)
          \/ UNCHANGED assigned
      BY <2>6 DEF Laning, laneVars, ReadJoin, ReadReject, ReadConfirm, ReadDecline, ReadRemove,
         ReadApprove, ReadAdd, ReadAssign, WriteJoin, FindRow, WriteConfirm
    <3>2. ~ (WriteReject(c) \/ WriteDecline(c) \/ WriteRemove(c))
      BY <1>1, <2>5 DEF WriteReject, WriteDecline, WriteRemove
    <3> QED
      BY <2>2, <2>3, <3>1, <3>2
  <2>7. ASSUME NEW c \in Calls, Arming(c) PROVE UNCHANGED assigned
    <3>1. Lower(c) \/ UNCHANGED assigned
      BY <2>7 DEF Arming, laneVars, ReadInvite, ReadRequest, ReadDecide, WriteAsked, RowAsked, WriteDecide,
         Ask, FindLane, Sync
    <3> QED
      BY <1>1, <2>5, <3>1 DEF Lower
  <2>8. ASSUME NEW c \in Calls, Teaming(c) PROVE UNCHANGED assigned
    <3>1. Unassign(c) \/ UNCHANGED assigned
      BY <2>8 DEF Teaming, laneVars, ReadRemoval, Collect, Unsell
    <3> QED
      BY <1>1, <3>1 DEF Unassign
  <2>9. ASSUME NEW c \in Calls, MirrorLook(c) \/ MirrorPut(c) \/ Cut(c) PROVE UNCHANGED assigned
    BY <2>9 DEF MirrorLook, MirrorPut, Cut, laneVars
  <2> QED
    BY <1>1, <2>3, <2>4, <2>6, <2>7, <2>8, <2>9 DEF Next, vars
<1>2. TypeOK /\ Serving /\ [Next]_vars =>
         \A b \in Buyers \ disturbed' :
            assigned'[b] \notin {assigned[b], Nobody} \union disturbed' => assigned'[b] \in sells
  BY <1>1
<1> QED
  BY <1>2, ServingAlways, CustomersTypeCorrect, PTL DEF Spec, AssigneeSells
=============================================================================
