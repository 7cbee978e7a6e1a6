-------------------------- MODULE CatalogCustomers --------------------------
(***************************************************************************)
(* The buyers of one selling arm (a catalog), seen from its two sides: the *)
(* customer lane of the buyer's CatalogMember row, and the InquiryMember   *)
(* row that makes the catalog a supplier of the buyer's buying arm (an     *)
(* inquiry).  Handlers on either side copy their outcome to the other.     *)
(* Every customer may be assigned to a seller of the catalog's team.       *)
(*                                                                         *)
(* A handler is cut where it waits between a check and the write that      *)
(* relies on it, and between its writes.  A row's status field is never    *)
(* anything but 'active' here: no handler of a lane takes it down.         *)
(***************************************************************************)
EXTENDS Integers, FiniteSets

CONSTANTS
    Buyers,      \* users of buying businesses
    Sellers,     \* users who may sell for the catalog
    Owner,       \* its owner, who always sells
    Inquiries,   \* the buyers' buying arms
    BuyerOf,     \* whose arm an inquiry is: who made it
    KeptBy,      \* the users of the business an inquiry is for
    Calls,       \* slots for concurrent calls
    Nobody,      \* no user, no inquiry
    MaxDisturbed \* bound: calls begin while at most so many users are disturbed

ASSUME OwnerAssumption == Owner \in Sellers
ASSUME BuyerOfAssumption == BuyerOf \in [Inquiries -> Buyers]
ASSUME KeptByAssumption ==
    KeptBy \in [Inquiries -> SUBSET Buyers] /\ \A i \in Inquiries : BuyerOf[i] \in KeptBy[i]
ASSUME DistinctAssumption ==
    Buyers \intersect Sellers = {} /\ Nobody \notin Buyers \union Sellers \union Inquiries
ASSUME KindsAssumption == Buyers \intersect Inquiries = {}

VARIABLES
    rows,       \* buyers with a CatalogMember row
    customer,   \* customerStatus of each buyer's row
    via,        \* customerVia
    assigned,   \* assignedSellerUserId
    sells,      \* users whose seller lane is active
    supplier,   \* status of the catalog among an inquiry's members
    supVia,     \* via of that InquiryMember row
    supUser,    \* which side its userId names
    call,       \* where the call in each slot stands
    agreed,     \* history: the sides that ever asked for or accepted the tie
    disturbed   \* history: users two calls concerned at once, or whose call
                \* ended between two writes

vars == <<rows, customer, via, assigned, sells, supplier, supVia, supUser, call, agreed, disturbed>>
laneVars == <<rows, customer, via, assigned>>
armVars == <<supplier, supVia, supUser>>

Status == {"none", "pending", "active", "declined", "removed"}
Sides == {"buyer", "seller"}

\* A call about a buyer's lane, and one about an arm of his.
LaneCall(step, b, s, side, fresh) ==
    [at |-> step, buyer |-> b, seller |-> s, arm |-> Nobody, arg |-> "none",
     side |-> side, fresh |-> fresh, todo |-> {}]
ArmCall(step, i, s, arg, side, fresh) ==
    [at |-> step, buyer |-> BuyerOf[i], seller |-> s, arm |-> i, arg |-> arg,
     side |-> side, fresh |-> fresh, todo |-> {}]

Idle == LaneCall("idle", Nobody, Nobody, "seller", FALSE)

OnLane == {"join", "approve", "reject", "find", "add", "confirm", "decline", "remove", "assign"}
OnArm == {"invite", "request", "decide", "refuse"}
OnTie == {"ask", "lower", "findRow", "sync"}
OnBoth == {"mirror", "put"}
OnSeller == {"collect", "unassign", "unsell"}
Steps == {"idle"} \union OnLane \union OnArm \union OnTie \union OnBoth \union OnSeller

\* A call names the buyer, the arm and the seller its steps need.
WellFormed(k) ==
    /\ k.at \in OnLane \union OnArm \union OnTie \union OnBoth => k.buyer \in Buyers
    /\ k.at \in OnArm \union {"put"} => k.arm \in Inquiries
    /\ k.at \in OnArm => BuyerOf[k.arm] = k.buyer
    /\ k.at \in OnBoth => k.todo \subseteq Inquiries
    /\ k.at \in {"find", "add", "assign"} => k.seller \in Sellers
    /\ k.at \in OnSeller => k.seller \in Sellers \ {Owner}
    /\ k.at = "unassign" => k.todo \subseteq Buyers

TypeOK ==
    /\ rows \subseteq Buyers
    /\ customer \in [Buyers -> Status]
    /\ via \in [Buyers -> {"none", "owner_add", "self_request"}]
    /\ assigned \in [Buyers -> Sellers \union {Nobody}]
    /\ sells \subseteq Sellers /\ Owner \in sells
    /\ supplier \in [Inquiries -> Status]
    /\ supVia \in [Inquiries -> {"none", "buyer_add", "supplier_request"}]
    /\ supUser \in [Inquiries -> Sides]
    /\ call \in [Calls -> [at : Steps,
                           buyer : Buyers \union {Nobody}, seller : Sellers \union {Nobody},
                           arm : Inquiries \union {Nobody}, arg : Status, side : Sides,
                           fresh : BOOLEAN, todo : SUBSET (Buyers \union Inquiries)]]
    /\ \A c \in Calls : WellFormed(call[c])
    /\ agreed \in [Buyers -> SUBSET Sides]
    /\ disturbed \subseteq Buyers \union (Sellers \ {Owner})

Init ==
    /\ rows = {}
    /\ customer = [b \in Buyers |-> "none"]
    /\ via = [b \in Buyers |-> "none"]
    /\ assigned = [b \in Buyers |-> Nobody]
    /\ sells = {Owner}
    /\ supplier = [i \in Inquiries |-> "none"]
    /\ supVia = [i \in Inquiries |-> "none"]
    /\ supUser = [i \in Inquiries |-> "seller"]
    /\ call = [c \in Calls |-> Idle]
    /\ agreed = [b \in Buyers |-> {}]
    /\ disturbed = {}

-----------------------------------------------------------------------------
(* Calls and whom they concern *)

\* The owner always sells: no call about him can be in another's way.
Concerned(k) == ({k.buyer, k.seller} \union (k.todo \intersect Buyers)) \ {Nobody, Owner}

Busy == UNION {Concerned(call[c]) : c \in Calls}

Meet(xs) == disturbed' = disturbed \union (xs \intersect Busy)

Calm == Cardinality(disturbed) <= MaxDisturbed

\* A call that may make the buyer an active customer concerns the seller the
\* buyer has, one that assigns him the seller he will have.
Begin(c, k) ==
    /\ Calm
    /\ call[c].at = "idle"
    /\ call' = [call EXCEPT ![c] = k]
    /\ Meet({k.buyer, k.seller})

At(c, step) == call[c].at = step

Go(c, step) == call' = [call EXCEPT ![c].at = step] /\ UNCHANGED disturbed

Done(c) == call' = [call EXCEPT ![c] = Idle] /\ UNCHANGED disturbed

Agree(b, side) == agreed' = [agreed EXCEPT ![b] = @ \union {side}]

\* create throws when another call created the row since it was looked for.
CanWrite(c, exists) == call[c].fresh => ~ exists

-----------------------------------------------------------------------------
(* mirrorInquirySide: one by one, the members rows of the inquiries that are
   for the business of the lane *)

ArmsOf(b) == {i \in Inquiries : b \in KeptBy[i]}

\* The call goes on as k, or is over when it has no inquiry left.
Onward(c, k) ==
    /\ call' = [call EXCEPT ![c] = IF k.todo = {} THEN Idle ELSE k]
    /\ UNCHANGED disturbed

\* Only the newest ten that are not archived, of the one business the lane
\* names, if it names one: a buyer may have more.
Mirror(c, status, side) ==
    \E arms \in SUBSET ArmsOf(call[c].buyer) :
       Onward(c, [call[c] EXCEPT !.at = "mirror", !.arg = status, !.side = side, !.todo = arms])

\* An active tie is only taken down by a removal; no row, nothing to take down.
Copied(i, status) ==
    /\ supplier[i] = "active" => status = "removed"
    /\ supplier[i] = "none" => status \in {"pending", "active"}
    /\ supplier[i] # status

MirrorLook(c) ==
    /\ At(c, "mirror")
    /\ \E i \in call[c].todo :
          LET rest == [call[c] EXCEPT !.todo = @ \ {i}] IN
          IF Copied(i, call[c].arg)
          THEN /\ call' = [call EXCEPT ![c] = [rest EXCEPT !.at = "put", !.arm = i,
                                                           !.fresh = supplier[i] = "none"]]
               /\ UNCHANGED disturbed
          ELSE Onward(c, rest)
    /\ UNCHANGED <<laneVars, sells, armVars, agreed>>

\* Errors of the mirror are swallowed, with the inquiries still to do.
MirrorPut(c) ==
    LET i == call[c].arm IN
    /\ At(c, "put")
    /\ \/ /\ CanWrite(c, supplier[i] # "none")
          /\ supplier' = [supplier EXCEPT ![i] = call[c].arg]
          /\ supVia' = [supVia EXCEPT ![i] = "supplier_request"]
          /\ supUser' = [supUser EXCEPT ![i] = call[c].side]
          /\ Onward(c, [call[c] EXCEPT !.at = "mirror", !.arm = Nobody, !.fresh = FALSE])
       \/ ~ CanWrite(c, supplier[i] # "none") /\ Done(c) /\ UNCHANGED armVars
    /\ UNCHANGED <<laneVars, sells, agreed>>

-----------------------------------------------------------------------------
(* The customer lane, from the catalog's side *)

\* What the handlers that end a tie write.
Unbind(b, status) ==
    /\ customer' = [customer EXCEPT ![b] = status]
    /\ assigned' = IF status = "removed" THEN [assigned EXCEPT ![b] = Nobody] ELSE assigned
    /\ UNCHANGED <<rows, via>>

\* joinCoop as a buyer.
ReadJoin(c, b) ==
    /\ customer[b] \notin {"active", "pending"}
    /\ Begin(c, LaneCall("join", b, Nobody, "buyer", b \notin rows))
    /\ UNCHANGED <<laneVars, sells, armVars, agreed>>

WriteJoin(c) ==
    LET b == call[c].buyer IN
    /\ At(c, "join")
    /\ \/ /\ CanWrite(c, b \in rows)
          /\ rows' = rows \union {b}
          /\ customer' = [customer EXCEPT ![b] = "pending"]
          /\ via' = [via EXCEPT ![b] = "self_request"]
          /\ Agree(b, "buyer")
          /\ UNCHANGED assigned
       \/ ~ CanWrite(c, b \in rows) /\ UNCHANGED <<laneVars, agreed>>
    /\ Done(c)
    /\ UNCHANGED <<sells, armVars>>

\* Mutant: a manager may answer whatever is pending.
AnyCustomer(b) == customer[b] = "pending"

\* A manager may only answer what the buyer asked for himself.
SelfCustomer(b) == via[b] \in {"self_request", "none"}

\* approveBuyer: the seller is the one chosen, or the one in the row as read.
ReadApprove(c, b, s) ==
    /\ customer[b] = "pending" /\ SelfCustomer(b)
    /\ s \in sells \union {assigned[b]}
    /\ Begin(c, LaneCall("approve", b, s, "seller", FALSE))
    /\ UNCHANGED <<laneVars, sells, armVars, agreed>>

WriteApprove(c) ==
    LET b == call[c].buyer IN
    /\ At(c, "approve")
    /\ customer' = [customer EXCEPT ![b] = "active"]
    /\ assigned' = [assigned EXCEPT ![b] = call[c].seller]
    /\ Agree(b, "seller")
    /\ Done(c)
    /\ UNCHANGED <<rows, via, sells, armVars>>

\* rejectBuyer.
ReadReject(c, b) ==
    /\ customer[b] = "pending" /\ SelfCustomer(b)
    /\ Begin(c, LaneCall("reject", b, Nobody, "seller", FALSE))
    /\ UNCHANGED <<laneVars, sells, armVars, agreed>>

WriteReject(c) ==
    /\ At(c, "reject")
    /\ Unbind(call[c].buyer, "removed")
    /\ Done(c)
    /\ UNCHANGED <<sells, armVars, agreed>>

\* addCustomer: the seller is the one chosen, the caller or the owner; all of
\* them sell when they are looked up.
ReadAdd(c, b, s) ==
    /\ customer[b] \notin {"active", "pending"}
    /\ s \in sells
    /\ Begin(c, LaneCall("find", b, s, "seller", FALSE))
    /\ UNCHANGED <<laneVars, sells, armVars, agreed>>

\* Once the request is paid for, the row to write is looked up.
FindRow(c) ==
    /\ At(c, "find")
    /\ call' = [call EXCEPT ![c].at = "add", ![c].fresh = call[c].buyer \notin rows]
    /\ UNCHANGED <<laneVars, sells, armVars, agreed, disturbed>>

WriteAdd(c) ==
    LET b == call[c].buyer IN
    /\ At(c, "add")
    /\ \/ /\ CanWrite(c, b \in rows)
          /\ rows' = rows \union {b}
          /\ customer' = [customer EXCEPT ![b] = "pending"]
          /\ via' = [via EXCEPT ![b] = "owner_add"]
          /\ assigned' = [assigned EXCEPT ![b] = call[c].seller]
          /\ Agree(b, "seller")
          /\ Mirror(c, "pending", "seller")
       \/ ~ CanWrite(c, b \in rows) /\ Done(c) /\ UNCHANGED <<laneVars, agreed>>
    /\ UNCHANGED <<sells, armVars>>

\* confirmCustomer by the buyer, however the lane came to be pending.
ReadConfirm(c, b) ==
    /\ customer[b] = "pending"
    /\ Begin(c, LaneCall("confirm", b, assigned[b], "seller", FALSE))
    /\ UNCHANGED <<laneVars, sells, armVars, agreed>>

WriteConfirm(c) ==
    LET b == call[c].buyer IN
    /\ At(c, "confirm")
    /\ customer' = [customer EXCEPT ![b] = "active"]
    /\ Agree(b, "buyer")
    /\ Mirror(c, "active", "buyer")
    /\ UNCHANGED <<rows, via, assigned, sells, armVars>>

\* declineCustomer by the buyer; the seller keeps the row in view.  It means to
\* mirror the refusal, but reads the buyer's business without its id.
ReadDecline(c, b) ==
    /\ customer[b] = "pending"
    /\ Begin(c, LaneCall("decline", b, Nobody, "seller", FALSE))
    /\ UNCHANGED <<laneVars, sells, armVars, agreed>>

WriteDecline(c) ==
    /\ At(c, "decline")
    /\ Unbind(call[c].buyer, "declined")
    /\ Done(c)
    /\ UNCHANGED <<sells, armVars, agreed>>

\* removeCustomer by the team, leaveAsCustomer by the buyer.
ReadRemove(c, b, side) ==
    /\ customer[b] \notin {"none", "removed"}
    /\ Begin(c, LaneCall("remove", b, Nobody, side, FALSE))
    /\ UNCHANGED <<laneVars, sells, armVars, agreed>>

\* Mutant: the assignment stays with the row, as in declineCustomer.
RemoveKeeping(c) ==
    /\ At(c, "remove")
    /\ customer' = [customer EXCEPT ![call[c].buyer] = "removed"]
    /\ Mirror(c, "removed", call[c].side)
    /\ UNCHANGED <<rows, via, assigned, sells, armVars, agreed>>

WriteRemove(c) ==
    /\ At(c, "remove")
    /\ Unbind(call[c].buyer, "removed")
    /\ Mirror(c, "removed", call[c].side)
    /\ UNCHANGED <<sells, armVars, agreed>>

\* Mutant: any member of the team is taken as the new seller.
AssignAnyone(c, b, s) ==
    /\ customer[b] \in {"active", "pending"}
    /\ s \in Sellers /\ s # assigned[b]
    /\ Begin(c, LaneCall("assign", b, s, "seller", FALSE))
    /\ UNCHANGED <<laneVars, sells, armVars, agreed>>

\* assignCustomer.
ReadAssign(c, b, s) ==
    /\ customer[b] \in {"active", "pending"}
    /\ s \in sells /\ s # assigned[b]
    /\ Begin(c, LaneCall("assign", b, s, "seller", FALSE))
    /\ UNCHANGED <<laneVars, sells, armVars, agreed>>

WriteAssign(c) ==
    /\ At(c, "assign")
    /\ assigned' = [assigned EXCEPT ![call[c].buyer] = call[c].seller]
    /\ Done(c)
    /\ UNCHANGED <<rows, customer, via, sells, armVars, agreed>>
-----------------------------------------------------------------------------
(* The team: sellers come, are removed and leave *)

\* A pending seller is approved, or accepts an invitation.
StartSelling(s) ==
    /\ Calm
    /\ s \notin sells
    /\ sells' = sells \union {s}
    /\ Meet({s})
    /\ UNCHANGED <<laneVars, armVars, call, agreed>>

\* removeSeller and leaveAsSeller.
ReadRemoval(c, s) ==
    /\ s \in sells \ {Owner}
    /\ Begin(c, LaneCall("collect", Nobody, s, "seller", FALSE))
    /\ UNCHANGED <<laneVars, sells, armVars, agreed>>

\* Mutant: a seller is removed like any other lane, without his customers.
CollectNone(c) ==
    /\ At(c, "collect")
    /\ call' = [call EXCEPT ![c].at = "unsell"]
    /\ UNCHANGED <<laneVars, sells, armVars, agreed, disturbed>>

\* unassignCustomersOf looks for the active customers of the seller ...
Collect(c) ==
    LET mine == {b \in Buyers : customer[b] = "active" /\ assigned[b] = call[c].seller} IN
    /\ At(c, "collect")
    /\ call' = [call EXCEPT ![c].at = IF mine = {} THEN "unsell" ELSE "unassign", ![c].todo = mine]
    /\ Meet(mine)
    /\ UNCHANGED <<laneVars, sells, armVars, agreed>>

\* ... and takes the seller from them, whoever they are assigned to by now.
Unassign(c) ==
    /\ At(c, "unassign")
    /\ assigned' = [b \in Buyers |-> IF b \in call[c].todo THEN Nobody ELSE assigned[b]]
    /\ call' = [call EXCEPT ![c].at = "unsell", ![c].todo = {}]
    /\ UNCHANGED <<rows, customer, via, sells, armVars, agreed, disturbed>>

Unsell(c) ==
    /\ At(c, "unsell")
    /\ sells' = sells \ {call[c].seller}
    /\ Done(c)
    /\ UNCHANGED <<laneVars, armVars, agreed>>

\* Who leaves the business's team leaves the seller lane too; the customers
\* keep the assignment.
LeaveBusinessTeam(s) ==
    /\ Calm
    /\ s \in sells \ {Owner}
    /\ sells' = sells \ {s}
    /\ Meet({s})
    /\ UNCHANGED <<laneVars, armVars, call, agreed>>

-----------------------------------------------------------------------------
(* The inquiry's side *)

\* addMember by the buyer, requestAccess by the catalog's side.
ReadInvite(c, i) ==
    /\ supplier[i] \notin {"active", "pending"}
    /\ Begin(c, ArmCall("invite", i, Nobody, "pending", "buyer", supplier[i] = "none"))
    /\ UNCHANGED <<laneVars, sells, armVars, agreed>>

ReadRequest(c, i) ==
    /\ supplier[i] # "active"
    /\ Begin(c, ArmCall("request", i, Nobody, "pending", "seller", supplier[i] = "none"))
    /\ UNCHANGED <<laneVars, sells, armVars, agreed>>

\* Whom a row asked for names in userId: a request its sender, an invitation
\* the user responsible for the catalog's business, or whom it named before when
\* that business has nobody.
NamedBy(k) ==
    IF k.at = "invite" THEN {"seller", supUser[k.arm]} ELSE {"seller"}

\* The row is written with the status.  A new row for nobody in particular
\* cannot be.
RowAsked(c, status) ==
    LET i == call[c].arm IN
    /\ \/ /\ CanWrite(c, supplier[i] # "none")
          /\ supplier' = [supplier EXCEPT ![i] = status]
          /\ supVia' = [supVia EXCEPT ![i] =
                           IF At(c, "invite") THEN "buyer_add" ELSE "supplier_request"]
          /\ \E side \in NamedBy(call[c]) : supUser' = [supUser EXCEPT ![i] = side]
          /\ Agree(call[c].buyer, call[c].side)
       \/ /\ call[c].fresh /\ (At(c, "invite") \/ supplier[i] # "none")
          /\ UNCHANGED <<armVars, agreed>>
    /\ Done(c)
    /\ UNCHANGED <<laneVars, sells>>

\* Mutant: whoever asks is connected at once.
WriteConnected(c) == call[c].at \in {"invite", "request"} /\ RowAsked(c, "active")

WriteAsked(c) == call[c].at \in {"invite", "request"} /\ RowAsked(c, "pending")

\* Who may accept: whom the invitation names, the requested buyer.
Accepts(i, side) ==
    CASE supVia[i] = "buyer_add" -> side = supUser[i]
      [] supVia[i] = "supplier_request" -> side = "buyer"
      [] OTHER -> FALSE

\* decideMember: whatever the row's status.  To decline or remove, either side.
\* A supplier's request that is declined is refused on the lane too.
ReadDecide(c, i, side, verdict) ==
    /\ supplier[i] # "none"
    /\ side = "buyer" \/ supUser[i] = "seller"
    /\ verdict = "active" => Accepts(i, side)
    /\ LET step == IF verdict = "declined" /\ supVia[i] = "supplier_request"
                   THEN "refuse" ELSE "decide"
           s == IF verdict = "active" THEN assigned[BuyerOf[i]] ELSE Nobody
       IN  Begin(c, ArmCall(step, i, s, verdict, side, FALSE))
    /\ UNCHANGED <<laneVars, sells, armVars, agreed>>

\* The call goes on with the buyer's lane.
ToLane(c, step) ==
    /\ call' = [call EXCEPT ![c] = LaneCall(step, call[c].buyer, call[c].seller, "seller", FALSE)]
    /\ UNCHANGED disturbed

WriteDecide(c) ==
    LET verdict == call[c].arg IN
    /\ call[c].at \in {"decide", "refuse"}
    /\ supplier' = [supplier EXCEPT ![call[c].arm] = verdict]
    /\ IF verdict = "active" THEN Agree(call[c].buyer, call[c].side) ELSE UNCHANGED agreed
    /\ IF verdict = "active" THEN ToLane(c, "findRow")
       ELSE IF At(c, "refuse") THEN ToLane(c, "ask") ELSE Done(c)
    /\ UNCHANGED <<laneVars, sells, supVia, supUser>>

\* The lane of a refused offer is declined if it is still pending.
Ask(c) ==
    /\ At(c, "ask")
    /\ IF customer[call[c].buyer] = "pending" THEN Go(c, "lower") ELSE Done(c)
    /\ UNCHANGED <<laneVars, sells, armVars, agreed>>

Lower(c) ==
    /\ At(c, "lower")
    /\ Unbind(call[c].buyer, "declined")
    /\ Done(c)
    /\ UNCHANGED <<sells, armVars, agreed>>

\* syncCatalogCustomerSide: an accepted tie makes the buyer a customer.
FindLane(c) ==
    /\ At(c, "findRow")
    /\ call' = [call EXCEPT ![c].at = "sync", ![c].fresh = call[c].buyer \notin rows]
    /\ UNCHANGED <<laneVars, sells, armVars, agreed, disturbed>>

Sync(c) ==
    LET b == call[c].buyer IN
    /\ At(c, "sync")
    /\ \/ /\ CanWrite(c, b \in rows)
          /\ rows' = rows \union {b}
          /\ customer' = [customer EXCEPT ![b] = "active"]
          /\ via' = [via EXCEPT ![b] = "self_request"]
          /\ UNCHANGED assigned
       \/ ~ CanWrite(c, b \in rows) /\ UNCHANGED laneVars
    /\ Done(c)
    /\ UNCHANGED <<sells, armVars, agreed>>

-----------------------------------------------------------------------------
(* A call ends after its first write: a later write throws, or the process
   dies.  It disturbs whom it concerns.  (One that ends before it wrote
   anything is a call that was not made.) *)
Cut(c) ==
    /\ call[c].at \in OnTie \union OnBoth \union {"unsell"}
    /\ call' = [call EXCEPT ![c] = Idle]
    /\ disturbed' = disturbed \union Concerned(call[c])
    /\ UNCHANGED <<laneVars, sells, armVars, agreed>>

Laning(c) ==
    \/ \E b \in Buyers :
          \/ ReadJoin(c, b)
          \/ ReadReject(c, b)
          \/ ReadConfirm(c, b)
          \/ ReadDecline(c, b)
          \/ \E side \in Sides : ReadRemove(c, b, side)
          \/ \E s \in Sellers \union {Nobody} : ReadApprove(c, b, s)
          \/ \E s \in Sellers : ReadAdd(c, b, s) \/ ReadAssign(c, b, s)
    \/ WriteJoin(c)
    \/ WriteApprove(c)
    \/ WriteReject(c)
    \/ FindRow(c)
    \/ WriteAdd(c)
    \/ WriteConfirm(c)
    \/ WriteDecline(c)
    \/ WriteRemove(c)
    \/ WriteAssign(c)

Teaming(c) ==
    \/ \E s \in Sellers : ReadRemoval(c, s)
    \/ Collect(c)
    \/ Unassign(c)
    \/ Unsell(c)

Arming(c) ==
    \/ \E i \in Inquiries :
          \/ ReadInvite(c, i)
          \/ ReadRequest(c, i)
          \/ \E side \in Sides, verdict \in {"active", "declined", "removed"} :
                ReadDecide(c, i, side, verdict)
    \/ WriteAsked(c)
    \/ WriteDecide(c)
    \/ Ask(c)
    \/ Lower(c)
    \/ FindLane(c)
    \/ Sync(c)

Next ==
    \/ \E s \in Sellers : StartSelling(s) \/ LeaveBusinessTeam(s)
    \/ \E c \in Calls :
          Laning(c) \/ Teaming(c) \/ Arming(c) \/ MirrorLook(c) \/ MirrorPut(c) \/ Cut(c)

Spec == Init /\ [][Next]_vars

-----------------------------------------------------------------------------
(* Properties *)

\* No buyer is made a customer behind his back: whoever counts as one has at
\* some time asked for it, accepted it or confirmed it, on either side and
\* however the calls overlapped.
BuyerAgreed == \A b \in Buyers : customer[b] = "active" => "buyer" \in agreed[b]

\* No supplier is connected behind the buyers' backs either: one of the users
\* of the business the arm is for asked for the tie, accepted or confirmed it.
\* The mirror connects several arms at once, and may overwrite a row between
\* the look and the write of a decision.
SupplierAgreed ==
    \A i \in Inquiries : supplier[i] = "active" => \E b \in KeptBy[i] : "buyer" \in agreed[b]

\* A former customer has no seller: calls of a buyer who comes back are not
\* routed to whoever served him before.
RemovedIsUnassigned ==
    \A b \in Buyers \ disturbed : customer[b] = "removed" => assigned[b] = Nobody

\* removeSeller and leaveAsSeller leave no customer with a seller who is gone.
RemovalUnassigns ==
    [][\A c \in Calls :
          LET s == call[c].seller IN
          At(c, "unsell") /\ s \in sells /\ s \notin sells' /\ s \notin disturbed'
          => \A b \in Buyers \ disturbed' : ~ (customer[b] = "active" /\ assigned[b] = s)]_vars

\* Whoever is made the seller of a buyer sells at that moment.
AssigneeSells ==
    [][\A b \in Buyers \ disturbed' :
          assigned'[b] \notin {assigned[b], Nobody} \union disturbed' => assigned'[b] \in sells]_vars
=============================================================================
