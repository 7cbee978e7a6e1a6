-------------------------- MODULE MarketMembership --------------------------
(***************************************************************************)
(* One user in one market (an arm): his ArmMembership row, his requests to *)
(* join and to leave, and the AdPublication rows that put the ads of his   *)
(* catalogs on the market's board.  Market managers, the member himself    *)
(* and whoever edits the ads write these from a dozen handlers, each with  *)
(* its own order of reading the row, stamping or unstamping the ads and    *)
(* writing the row.                                                        *)
(*                                                                         *)
(* A call is the list of the steps it has still to take; between two of    *)
(* them other calls run.  The row as it was read travels with the call.    *)
(***************************************************************************)
EXTENDS Integers, Sequences, FiniteSets

CONSTANTS
    Catalogs,     \* the user's selling arms
    Ads,          \* their ads
    CatalogOf,    \* the catalog of each ad
    Requests,     \* bound: requests to join or to leave pending at a time
    Calls,        \* slots for concurrent calls
    Nothing,      \* no catalog, no request
    MaxDisturbed, \* bound: calls begin while at most so many things are disturbed
    MaxCalls,     \* bound: calls ever begun
    MaxBeside     \* bound: those of them that may begin beside another

ASSUME CatalogOfAssumption == CatalogOf \in [Ads -> Catalogs]
ASSUME NothingAssumption == Nothing \notin Catalogs \union Requests
ASSUME ThingsAssumption == "row" \notin Ads \union Requests
ASSUME FiniteAssumption == IsFiniteSet(Calls)
ASSUME BoundAssumption == {MaxCalls, MaxBeside, MaxDisturbed} \subseteq Nat

VARIABLES
    row,        \* the membership; status "none" when there is no row
    requests,   \* ArmMembershipRequest and ArmLeaveRequest rows still pending
    closed,     \* catalogs that were closed
    ads,        \* status of each ad
    open,       \* ads with publishToMarket
    pub,        \* status of each ad's AdPublication in this market
    optOut,     \* its optOut
    call,       \* where the call in each slot stands
    begun,      \* how many calls were begun
    disturbed   \* history: things two calls concerned at once

vars == <<row, requests, closed, ads, open, pub, optOut, call, begun, disturbed>>
boardVars == <<ads, open, pub, optOut>>

Lanes == {"buyer", "seller"}

Statuses == {"none", "active", "banned", "removed", "inactive"}
PublishStates == {"none", "draft", "published", "paused"}

Row == [rank : {"arm_member", "arm_admin", "arm_owner"},
        status : Statuses,
        businessStatus : {"active", "paused"},
        publishState : PublishStates,
        role : SUBSET Lanes,           \* roleType
        business : BOOLEAN,            \* businessId is set
        catalog : Catalogs \union {Nothing},
        selfRemoved : BOOLEAN]

NoRow == [rank |-> "arm_member", status |-> "none", businessStatus |-> "active",
          publishState |-> "none", role |-> {}, business |-> FALSE,
          catalog |-> Nothing, selfRemoved |-> FALSE]

Request == [kind : {"closed", "join", "leave"}, lane : Lanes, catalog : Catalogs \union {Nothing}]

Closed == [kind |-> "closed", lane |-> "buyer", catalog |-> Nothing]

Things == Ads \union Requests \union {"row"}

RowSteps == {"admit", "leaveSeller", "leaveBuyer", "setStatus", "dropMember", "addSeller",
             "addBuyer", "pause", "resume", "dropCatalog", "dropBuyer", "join", "show",
             "hide", "release", "appoint", "dismiss"}
Steps == RowSteps \union {"ask", "shut", "settle", "findMarket", "openAds", "stamp", "put",
                          "unstamp", "halt", "close"}

\* seen is the row, cat the catalog and req the request the call read or was
\* given, scope the ads it is about, new those of them to be created.
Call == [todo : Seq(Steps), seen : Row, cat : Catalogs \union {Nothing},
         req : Requests \union {Nothing}, ask : Request, scope : SUBSET Ads, new : SUBSET Ads,
         arg : {"none", "active", "paused", "banned", "removed", "buyer", "seller",
                "confirmed", "force", "edit"},
         on : SUBSET Things]

Idle == [todo |-> <<>>, seen |-> NoRow, cat |-> Nothing, req |-> Nothing, ask |-> Closed,
         scope |-> {}, new |-> {}, arg |-> "none", on |-> {}]

TypeOK ==
    /\ row \in Row
    /\ requests \in [Requests -> Request]
    /\ closed \subseteq Catalogs
    /\ ads \in [Ads -> {"new", "active", "deleted"}]
    /\ open \subseteq Ads
    /\ pub \in [Ads -> {"none", "published", "paused", "unpublished"}]
    /\ optOut \in [Ads -> BOOLEAN]
    /\ call \in [Calls -> Call]
    /\ begun \in Nat
    /\ disturbed \subseteq Things

\* Nothing yet, the market's own owner, or a seller whose ads are on the board.
Init ==
    /\ \/ row = NoRow /\ ads = [a \in Ads |-> "new"]
       \/ row = [NoRow EXCEPT !.rank = "arm_owner", !.status = "active"]
          /\ ads = [a \in Ads |-> "new"]
       \/ \E k \in Catalogs :
             /\ row = [NoRow EXCEPT !.status = "active", !.publishState = "published",
                                    !.role = {"seller"}, !.business = TRUE, !.catalog = k]
             /\ ads = [a \in Ads |-> IF CatalogOf[a] = k THEN "active" ELSE "new"]
    /\ open = {a \in Ads : ads[a] = "active"}
    /\ pub = [a \in Ads |-> IF a \in open THEN "published" ELSE "none"]
    /\ optOut = [a \in Ads |-> FALSE]
    /\ requests = [r \in Requests |-> Closed]
    /\ closed = {}
    /\ call = [c \in Calls |-> Idle]
    /\ begun = 0
    /\ disturbed = {}

-----------------------------------------------------------------------------
(* Calls and what they are about *)

AdsOf(k) == {a \in Ads : CatalogOf[a] = k}

Busy == UNION {call[c].on : c \in Calls}

Meet(things) == disturbed' = disturbed \union (things \intersect Busy)

\* What a call starts from: the row as it is now, about the given things.
Reading(things) == [Idle EXCEPT !.seen = row, !.on = things]

\* A call that only writes the row.
OnRow == Reading({"row"})

Calm ==
    /\ begun < MaxCalls
    /\ begun < MaxBeside \/ \A c \in Calls : call[c].todo = <<>>
    /\ Cardinality(disturbed) <= MaxDisturbed

Begin(c, k, todo) ==
    /\ Calm
    /\ call[c].todo = <<>>
    /\ call' = [call EXCEPT ![c] = [k EXCEPT !.todo = todo]]
    /\ begun' = begun + 1
    /\ Meet(k.on)
    /\ UNCHANGED <<row, requests, closed, boardVars>>

\* A handler with one write that relies on nothing it read.
AtOnce(things) ==
    /\ Calm
    /\ begun' = begun + 1
    /\ Meet(things)
    /\ UNCHANGED call

At(c, step) == call[c].todo # <<>> /\ Head(call[c].todo) = step

\* The call in k with the given steps to go, or nothing any more.
Left(k, todo) == IF todo = <<>> THEN Idle ELSE [k EXCEPT !.todo = todo]

Go(c) ==
    /\ call' = [call EXCEPT ![c] = Left(@, Tail(@.todo))]
    /\ UNCHANGED <<begun, disturbed>>

Stop(c) == call' = [call EXCEPT ![c] = Idle] /\ UNCHANGED <<begun, disturbed>>

\* create throws when another call made the row since it was looked for.
CanWrite(c) == call[c].seen.status = "none" => row.status = "none"

\* One step that writes the row.
WriteRow(c, step, new) ==
    /\ At(c, step)
    /\ \/ CanWrite(c) /\ row' = new /\ Go(c)
       \/ ~ CanWrite(c) /\ Stop(c) /\ UNCHANGED row
    /\ UNCHANGED <<requests, closed, boardVars>>

If(condition, steps) == IF condition THEN steps ELSE <<>>

-----------------------------------------------------------------------------
(* CatalogPublishService: what a market shows of a catalog *)

\* Mutant: an ad the seller withdrew is stamped like any other.
StampAll(c) ==
    /\ At(c, "stamp")
    /\ LET chosen == {a \in call[c].scope : ads[a] = "active" /\ a \in open} IN
       call' = [call EXCEPT ![c].todo = Tail(@), ![c].scope = chosen,
                            ![c].new = {a \in chosen : pub[a] = "none"}]
    /\ UNCHANGED <<row, requests, closed, boardVars, begun, disturbed>>

\* stampCatalogAds reads the ads and the publications there are ...
Stamp(c) ==
    /\ At(c, "stamp")
    /\ LET chosen == {a \in call[c].scope : /\ ads[a] = "active" /\ a \in open
                                            /\ optOut[a] => call[c].arg = "force"}
       IN  call' = [call EXCEPT ![c].todo = Tail(@), ![c].scope = chosen,
                                ![c].new = {a \in chosen : pub[a] = "none"}]
    /\ UNCHANGED <<row, requests, closed, boardVars, begun, disturbed>>

\* ... and, in a transaction, creates the missing ones and publishes the others,
\* without looking at the membership again.
Put(c) ==
    LET k == call[c] IN
    /\ At(c, "put")
    /\ \A a \in k.new : pub[a] = "none"
    /\ pub' = [a \in Ads |-> IF a \in k.scope THEN "published" ELSE pub[a]]
    /\ optOut' = [a \in Ads |-> IF a \in k.scope /\ k.arg = "force" THEN FALSE ELSE optOut[a]]
    /\ Go(c)
    /\ UNCHANGED <<row, requests, closed, ads, open>>

\* The transaction fails: a publication exists by now, or the time is over.  Only
\* the approval of a request goes on after that.
PutFails(c) ==
    /\ At(c, "put")
    /\ IF Tail(call[c].todo) = <<"settle">> THEN Go(c) ELSE Stop(c)
    /\ UNCHANGED <<row, requests, closed, boardVars>>

\* unstampCatalogAds.
Unstamp(c) ==
    LET mine == AdsOf(call[c].cat) IN
    /\ At(c, "unstamp")
    /\ pub' = IF \E a \in mine : pub[a] \in {"published", "paused"}
              THEN [a \in Ads |-> IF a \in mine /\ pub[a] # "none" THEN "unpublished" ELSE pub[a]]
              ELSE pub
    /\ Go(c)
    /\ UNCHANGED <<row, requests, closed, ads, open, optOut>>

\* setPublicationsStatus, called to pause only.
Halt(c) ==
    /\ At(c, "halt")
    /\ pub' = [a \in Ads |-> IF a \in AdsOf(call[c].cat) /\ pub[a] = "published" /\ ~ optOut[a]
                             THEN "paused" ELSE pub[a]]
    /\ Go(c)
    /\ UNCHANGED <<row, requests, closed, ads, open, optOut>>

\* Whoever makes a catalog a seller of the market opens its ads to it first.
OpenAds(c) ==
    /\ At(c, "openAds")
    /\ open' = open \union {a \in AdsOf(call[c].cat) : ads[a] = "active"}
    /\ Go(c)
    /\ UNCHANGED <<row, requests, closed, ads, pub, optOut>>

\* A call that writes the row and puts on or takes off the board the ads of k.  It
\* concerns every ad: which of them the member sells follows from the row.
OnCatalog(k) == [Reading({"row"} \union Ads) EXCEPT !.cat = k, !.scope = AdsOf(k)]

-----------------------------------------------------------------------------
(* Requests to join and to leave *)

Pending(kind) == {r \in Requests : requests[r].kind = kind}

\* Mutant: a request is accepted although another is pending.
RequestAgain(c, lane, k) ==
    /\ lane = "seller" => k \notin closed
    /\ Begin(c, [Reading({}) EXCEPT
                    !.ask = [kind |-> "join", lane |-> lane, catalog |-> k]], <<"ask">>)

\* createRequest of a membership, which a buyer needs while the market is private.
\* (Its manager may switch between private and public at any time.)
RequestMembership(c, lane, k) ==
    /\ Pending("join") = {}
    /\ IF lane = "buyer"
       THEN /\ k = Nothing
            /\ ~ (/\ row.status = "active" /\ row.businessStatus = "active"
                  /\ row.business /\ "buyer" \in row.role)
       ELSE /\ k \in Catalogs \ closed
            /\ ~ (row.status = "active" /\ row.publishState = "published" /\ row.catalog = k)
    /\ Begin(c, [Reading({}) EXCEPT
                    !.ask = [kind |-> "join", lane |-> lane, catalog |-> k]], <<"ask">>)

\* createRequest of a leave.
RequestLeave(c, lane) ==
    /\ row.status = "active" /\ row.rank = "arm_member"
    /\ Pending("leave") = {}
    /\ IF lane = "seller" THEN row.catalog # Nothing ELSE row.business
    /\ Begin(c, [Reading({}) EXCEPT
                    !.ask = [kind |-> "leave", lane |-> lane, catalog |-> Nothing]], <<"ask">>)

WriteAsk(c) ==
    /\ At(c, "ask")
    /\ \E r \in Requests :
          /\ requests[r] = Closed
          /\ \A d \in Calls : call[d].req # r
          /\ requests' = [requests EXCEPT ![r] = call[c].ask]
    /\ Go(c)
    /\ UNCHANGED <<row, closed, boardVars>>

\* A manager rejects it, the member withdraws his leave, or a list of requests
\* finds a leave whose asker is no active member any more.
Shut(c, r) ==
    /\ requests[r].kind # "closed"
    /\ Begin(c, [Reading({r}) EXCEPT !.req = r], <<"shut">>)

WriteShut(c) ==
    /\ At(c, "shut")
    /\ requests' = [requests EXCEPT ![call[c].req] = Closed]
    /\ Go(c)
    /\ UNCHANGED <<row, closed, boardVars>>

\* decideRequest approves a membership: the row, the ads, and the request last.
ApproveJoin(c, r) ==
    LET ask == requests[r]
        k == [(IF ask.lane = "seller" THEN OnCatalog(ask.catalog) ELSE OnRow)
                  EXCEPT !.req = r, !.ask = ask, !.on = @ \union {r}]
    IN  /\ r \in Pending("join")
        /\ Begin(c, k, <<"admit">> \o If(ask.lane = "seller", <<"openAds", "stamp", "put">>)
                                   \o <<"settle">>)

Admit(c) ==
    LET k == call[c]
        sells == k.ask.lane = "seller"
    IN  WriteRow(c, "admit",
            [row EXCEPT !.status = "active", !.businessStatus = "active",
                        !.role = k.seen.role \union {k.ask.lane},
                        !.selfRemoved = FALSE, !.business = TRUE,
                        !.catalog = IF sells THEN k.cat ELSE @,
                        !.publishState = IF sells THEN "published" ELSE @])

\* decideRequest approves a leave, and acts on the row as it is by then.
ApproveLeave(c, r) ==
    LET lane == requests[r].lane
        there == row.status = "active"
        k == [OnCatalog(row.catalog) EXCEPT !.req = r, !.ask = requests[r], !.on = @ \union {r}]
    IN  /\ r \in Pending("leave")
        /\ Begin(c, k, If(there /\ lane = "seller" /\ row.catalog # Nothing,
                          <<"unstamp", "leaveSeller">>)
                       \o If(there /\ lane = "buyer" /\ row.business, <<"leaveBuyer">>)
                       \o <<"settle">>)

\* Mutant: who stays as a buyer keeps the link to his catalog.
LeaveSellerLinked(c) ==
    LET stays == call[c].seen.business IN
    WriteRow(c, "leaveSeller",
        [row EXCEPT !.catalog = IF stays THEN @ ELSE Nothing, !.publishState = "none",
                    !.role = IF stays THEN {"buyer"} ELSE {},
                    !.status = IF stays THEN "active" ELSE "removed", !.selfRemoved = TRUE])

LeaveSeller(c) ==
    LET stays == call[c].seen.business IN
    WriteRow(c, "leaveSeller",
        [row EXCEPT !.catalog = Nothing, !.publishState = "none",
                    !.role = IF stays THEN {"buyer"} ELSE {},
                    !.status = IF stays THEN "active" ELSE "removed", !.selfRemoved = TRUE])

LeaveBuyer(c) ==
    LET stays == call[c].seen.catalog # Nothing IN
    WriteRow(c, "leaveBuyer",
        [row EXCEPT !.business = FALSE, !.role = IF stays THEN {"seller"} ELSE {},
                    !.status = IF stays THEN "active" ELSE "removed",
                    !.publishState = IF stays THEN call[c].seen.publishState ELSE "none"])

Settle(c) ==
    /\ At(c, "settle")
    /\ requests' = [requests EXCEPT ![call[c].req] = Closed]
    /\ Go(c)
    /\ UNCHANGED <<row, closed, boardVars>>

-----------------------------------------------------------------------------
(* The market's managers *)

Exists == row.status # "none"

\* updateMemberStatus: the board first, then the row.
SetStatus(c, status) ==
    LET todo == IF row.catalog = Nothing THEN <<>>
                ELSE IF status # "active" THEN <<"unstamp">>
                ELSE If(row.publishState = "published", <<"stamp", "put">>)
    IN  /\ Exists
        /\ Begin(c, [OnCatalog(row.catalog) EXCEPT !.arg = status], todo \o <<"setStatus">>)

WriteStatus(c) ==
    LET status == call[c].arg IN
    WriteRow(c, "setStatus",
        [row EXCEPT !.businessStatus = IF status = "active" THEN "active" ELSE "paused",
                    !.status = IF status \in {"active", "banned", "removed"} THEN status ELSE @])

\* Mutant: the row is marked and the ads stay where they are.
RemoveMemberOnly(c) ==
    /\ Exists
    /\ Begin(c, OnCatalog(row.catalog), <<"dropMember">>)

\* removeMember keeps the link to the catalog.
RemoveMember(c) ==
    /\ Exists
    /\ Begin(c, OnCatalog(row.catalog), If(row.catalog # Nothing, <<"unstamp">>) \o <<"dropMember">>)

DropMember(c) == WriteRow(c, "dropMember", [row EXCEPT !.status = "removed", !.publishState = "none"])

AddSeller(c, k, arg) ==
    /\ k \notin closed
    /\ row.catalog \in {k, Nothing}
    /\ row.selfRemoved /\ row.catalog = Nothing => arg = "confirmed"
    /\ Begin(c, [OnCatalog(k) EXCEPT !.arg = arg], <<"addSeller", "openAds", "stamp", "put">>)

WriteSeller(c) ==
    WriteRow(c, "addSeller",
        [row EXCEPT !.status = "active", !.publishState = "published", !.business = TRUE,
                    !.role = IF call[c].seen.business THEN Lanes ELSE {"seller"},
                    !.catalog = call[c].cat, !.selfRemoved = FALSE])

AddBuyer(c) ==
    /\ ~ (row.role = {"buyer"} /\ row.status = "active")
    /\ Begin(c, OnRow, <<"addBuyer">>)

WriteBuyer(c) ==
    WriteRow(c, "addBuyer",
        [row EXCEPT !.status = "active", !.business = TRUE,
                    !.role = IF call[c].seen.catalog # Nothing THEN Lanes ELSE {"buyer"}])

\* setCatalogPaused.
PauseCatalog(c) ==
    /\ row.catalog # Nothing
    /\ Begin(c, OnCatalog(row.catalog), <<"halt", "pause">>)

ResumeCatalog(c) ==
    /\ row.catalog # Nothing
    /\ Begin(c, [OnCatalog(row.catalog) EXCEPT !.arg = "active"],
             <<"resume">> \o If(row.publishState = "published", <<"stamp", "put">>))

\* setBuyerPaused writes the same field of the same row.
SetBuyerPaused(c, step) == Exists /\ Begin(c, OnRow, <<step>>)

Pause(c) == WriteRow(c, "pause", [row EXCEPT !.businessStatus = "paused"])

Resume(c) == WriteRow(c, "resume", [row EXCEPT !.businessStatus = "active"])

\* removeCatalog: the market's owner stays a member.
RemoveCatalog(c) ==
    /\ row.catalog # Nothing
    /\ Begin(c, OnCatalog(row.catalog), <<"unstamp", "dropCatalog">>)

DropCatalog(c) ==
    LET seen == call[c].seen
        owner == seen.rank = "arm_owner"
    IN  WriteRow(c, "dropCatalog",
            [row EXCEPT !.catalog = Nothing, !.publishState = "none",
                        !.role = IF owner /\ seen.business THEN {"buyer"} ELSE {},
                        !.status = IF owner THEN @ ELSE "removed"])

\* removeBuyer, which leaves a seller's ads on the board.
RemoveBuyer(c) == Exists /\ Begin(c, OnCatalog(row.catalog), <<"dropBuyer">>)

DropBuyer(c) ==
    LET seen == call[c].seen IN
    WriteRow(c, "dropBuyer",
        IF seen.rank = "arm_owner"
        THEN [row EXCEPT !.business = FALSE,
                         !.role = IF seen.catalog # Nothing THEN {"seller"} ELSE {}]
        ELSE [row EXCEPT !.status = "removed", !.publishState = "none", !.business = FALSE,
                         !.role = {}])

\* addAdminByPhone and removeAdmin.
Appoint(c) == row.rank # "arm_owner" /\ Begin(c, OnRow, <<"appoint">>)

WriteAppoint(c) == WriteRow(c, "appoint", [row EXCEPT !.rank = "arm_admin", !.status = "active"])

Dismiss(c) == row.rank = "arm_admin" /\ Begin(c, OnRow, <<"dismiss">>)

WriteDismiss(c) == WriteRow(c, "dismiss", [row EXCEPT !.rank = "arm_member"])

-----------------------------------------------------------------------------
(* The member himself *)

\* join, open to buyers while the market is public.
Join(c, arg) ==
    /\ ~ (row.status = "active" /\ row.business)
    /\ Begin(c, [OnRow EXCEPT !.arg = arg], <<"join">>)

WriteJoin(c) ==
    LET k == call[c] IN
    WriteRow(c, "join",
        [row EXCEPT !.status = "active", !.business = TRUE,
                    !.role = IF k.seen.role = {"seller"} THEN Lanes
                             ELSE IF k.arg \in Lanes THEN {k.arg}
                             ELSE IF k.seen.role = {} THEN {"buyer"} ELSE k.seen.role])

\* toggleCatalogPublish.
Publish(c) ==
    /\ row.catalog # Nothing /\ row.status = "active"
    /\ Begin(c, OnCatalog(row.catalog), <<"stamp", "put", "show">>)

Show(c) == WriteRow(c, "show", [row EXCEPT !.publishState = "published"])

Unpublish(c) ==
    /\ row.catalog # Nothing
    /\ Begin(c, OnCatalog(row.catalog), <<"unstamp", "hide">>)

Hide(c) == WriteRow(c, "hide", [row EXCEPT !.publishState = "paused"])

\* remove of a catalog that has no active ad: it is closed, then taken from the
\* rows that link it (two updates, written here as one).
CloseCatalog(c, k) ==
    /\ k \notin closed
    /\ \A a \in AdsOf(k) : ads[a] # "active"
    /\ Begin(c, OnCatalog(k), <<"close", "release">>)

Close(c) ==
    /\ At(c, "close")
    /\ closed' = closed \union {call[c].cat}
    /\ Go(c)
    /\ UNCHANGED <<row, requests, boardVars>>

Release(c) ==
    WriteRow(c, "release",
        IF row.catalog # call[c].cat THEN row
        ELSE [row EXCEPT !.catalog = Nothing, !.publishState = "draft",
                         !.status = IF row.role = {"seller"} THEN "inactive" ELSE @])

-----------------------------------------------------------------------------
(* The ads *)

OnAd(a) == [Reading({a}) EXCEPT !.cat = CatalogOf[a], !.scope = {a}]

\* create, also of a closed catalog.
CreateAd(c, a, toMarket) ==
    /\ ads[a] = "new"
    /\ Calm /\ call[c].todo = <<>>
    /\ ads' = [ads EXCEPT ![a] = "active"]
    /\ open' = IF toMarket THEN open \union {a} ELSE open
    /\ call' = IF toMarket THEN [call EXCEPT ![c] = [OnAd(a) EXCEPT !.todo = <<"findMarket">>]]
               ELSE call
    /\ begun' = begun + 1
    /\ Meet({a})
    /\ UNCHANGED <<row, requests, closed, pub, optOut>>

\* update: an imported ad is completed, and opened to the market.
CompleteAd(c, a) ==
    /\ ads[a] = "active" /\ a \notin open
    /\ Calm /\ call[c].todo = <<>>
    /\ open' = open \union {a}
    /\ call' = [call EXCEPT ![c] = [OnAd(a) EXCEPT !.todo = <<"findMarket">>]]
    /\ begun' = begun + 1
    /\ Meet({a})
    /\ UNCHANGED <<row, requests, closed, ads, pub, optOut>>

\* The market is looked for once the ad is written.
FindMarket(c) ==
    LET there == /\ row.status = "active" /\ row.publishState = "published"
                 /\ row.catalog = call[c].cat
    IN  /\ At(c, "findMarket")
        /\ IF there
           THEN call' = [call EXCEPT ![c].todo = <<"stamp", "put">>] /\ UNCHANGED <<begun, disturbed>>
           ELSE Go(c)
        /\ UNCHANGED <<row, requests, closed, boardVars>>

\* update with a new category stamps wherever there is a publication, of any status.
EditCategory(c, a) ==
    /\ pub[a] # "none"
    /\ Begin(c, [OnAd(a) EXCEPT !.arg = "edit"], <<"stamp", "put">>)

\* publishToMarket: the only way back for an ad that was withdrawn.
PublishAd(c, a) ==
    /\ ads[a] = "active"
    /\ row.catalog = CatalogOf[a]
    /\ row.status \notin {"banned", "removed"} /\ row.publishState = "published"
    /\ Begin(c, [OnAd(a) EXCEPT !.arg = "force"], <<"stamp", "put">>)

\* unpublishFromMarket, in one transaction.
WithdrawAd(a) ==
    /\ pub[a] # "none"
    /\ AtOnce({a})
    /\ pub' = [pub EXCEPT ![a] = "unpublished"]
    /\ optOut' = [optOut EXCEPT ![a] = TRUE]
    /\ UNCHANGED <<row, requests, closed, ads, open>>

\* update with another status or publishToMarket, and remove: the board follows
\* from what the ad says, no publication is written.
EditAd(a, status, toMarket) ==
    /\ ads[a] # "new"
    /\ status # ads[a] \/ toMarket # (a \in open)
    /\ AtOnce({a})
    /\ ads' = [ads EXCEPT ![a] = status]
    /\ open' = IF toMarket THEN open \union {a} ELSE open \ {a}
    /\ UNCHANGED <<row, requests, closed, pub, optOut>>

-----------------------------------------------------------------------------
(* The process dies, or a write throws, before the call's next step. *)
Cut(c) ==
    /\ call[c].todo # <<>>
    /\ Stop(c)
    /\ UNCHANGED <<row, requests, closed, boardVars>>

Asking(c) ==
    \/ \E lane \in Lanes :
          \/ \E k \in Catalogs \union {Nothing} : RequestMembership(c, lane, k)
          \/ RequestLeave(c, lane)
    \/ \E r \in Requests : Shut(c, r) \/ ApproveJoin(c, r) \/ ApproveLeave(c, r)
    \/ WriteAsk(c)
    \/ WriteShut(c)
    \/ Admit(c)
    \/ LeaveSeller(c)
    \/ LeaveBuyer(c)
    \/ Settle(c)

Managing(c) ==
    \/ \E status \in {"active", "paused", "banned", "removed"} : SetStatus(c, status)
    \/ RemoveMember(c)
    \/ \E k \in Catalogs, arg \in {"none", "confirmed"} : AddSeller(c, k, arg)
    \/ AddBuyer(c)
    \/ PauseCatalog(c)
    \/ ResumeCatalog(c)
    \/ \E step \in {"pause", "resume"} : SetBuyerPaused(c, step)
    \/ RemoveCatalog(c)
    \/ RemoveBuyer(c)
    \/ Appoint(c)
    \/ Dismiss(c)
    \/ WriteStatus(c)
    \/ DropMember(c)
    \/ WriteSeller(c)
    \/ WriteBuyer(c)
    \/ Pause(c)
    \/ Resume(c)
    \/ DropCatalog(c)
    \/ DropBuyer(c)
    \/ WriteAppoint(c)
    \/ WriteDismiss(c)

Belonging(c) ==
    \/ \E arg \in {"none", "buyer", "seller"} : Join(c, arg)
    \/ \E k \in Catalogs : CloseCatalog(c, k)
    \/ Publish(c)
    \/ Unpublish(c)
    \/ WriteJoin(c)
    \/ Show(c)
    \/ Hide(c)
    \/ Close(c)
    \/ Release(c)

Advertising(c) ==
    \/ \E a \in Ads :
          \/ \E toMarket \in BOOLEAN : CreateAd(c, a, toMarket)
          \/ CompleteAd(c, a)
          \/ EditCategory(c, a)
          \/ PublishAd(c, a)
    \/ FindMarket(c)

Stamping(c) == Stamp(c) \/ Put(c) \/ PutFails(c) \/ Unstamp(c) \/ Halt(c) \/ OpenAds(c)

Next ==
    \/ \E a \in Ads :
          \/ WithdrawAd(a)
          \/ \E status \in {"active", "deleted"}, toMarket \in BOOLEAN : EditAd(a, status, toMarket)
    \/ \E c \in Calls :
          Asking(c) \/ Managing(c) \/ Belonging(c) \/ Advertising(c) \/ Stamping(c) \/ Cut(c)

Spec == Init /\ [][Next]_vars

-----------------------------------------------------------------------------
(* Properties *)

\* An ad its seller withdrew from the market (optOut) is not published there
\* again by any stamping of the whole catalog, only by publishing that very ad.
WithdrawnStaysOff == \A a \in Ads \ disturbed : optOut[a] => pub[a] # "published"

\* However many calls look for a pending request at the same moment, and however their
\* requests are withdrawn, decided and made again, a member has no more requests to
\* join pending, and no more to leave, than there are calls at a time.
PendingIsBounded ==
    \A kind \in {"join", "leave"} : Cardinality(Pending(kind)) <= Cardinality(Calls)

\* The member sells the ad in this market.
Sells(a) == row.status = "active" /\ row.catalog = CatalogOf[a]

\* The board is read from the publications alone, without a look at the membership, so
\* whoever writes one has to see to the other.  An ad gets or stays published while the
\* member does not sell it only through removeBuyer, the approval of a request to join
\* with another catalog and the closing of a catalog, which unstamp nothing, or when it
\* is stamped for a new category, or with a catalog its manager activates or resumes.
BoardFollowsTheSeller ==
    [][\A a \in Ads \ disturbed' :
          /\ pub'[a] = "published" /\ ~ Sells(a)'
          /\ pub[a] = "published" => Sells(a)
          => \E c \in Calls :
                /\ call'[c] # call[c]
                /\ \/ \E step \in {"admit", "dropBuyer", "release"} : At(c, step)
                   \/ At(c, "put") /\ call[c].arg \in {"edit", "active"}]_vars

\* When a request is marked as approved, what it asked for is so: who joined is an
\* active member (as a seller, with that catalog), who left is one no more.
ApprovalHolds ==
    [][\A c \in Calls :
          LET ask == requests[call[c].req] IN
          /\ At(c, "settle") /\ requests' # requests /\ call'[c] # call[c]
          /\ "row" \notin disturbed'
          => IF ask.kind = "join"
             THEN row.status = "active" /\ (ask.lane = "seller" => row.catalog = ask.catalog)
             ELSE \/ row.status # "active"
                  \/ IF ask.lane = "seller" THEN row.catalog = Nothing ELSE ~ row.business]_vars
=============================================================================
