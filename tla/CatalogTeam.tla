---------------------------- MODULE CatalogTeam ----------------------------
(***************************************************************************)
(* The team of a selling arm (a catalog): one person's CatalogMember row.  *)
(* He may sell for the catalog, supply it or serve it with a catalog of    *)
(* his own; each is a lane of the row, with a status and a note of how it  *)
(* was entered.  A lane begins with a request of the person, with an       *)
(* invitation of a manager, or because the person is in the team of the    *)
(* catalog's business.  It is answered by the other side, and ended by     *)
(* either.  The buyer's lane, and the customers of a seller who goes, are  *)
(* in CatalogCustomers.                                                    *)
(*                                                                         *)
(* A handler is cut between the read its checks look at and the write that *)
(* relies on them, and between its writes.  The row's own status is left   *)
(* out: it is 'active' from the start, and syncOverallStatus, which should *)
(* take it down with the last lane, counts that very status as a lane.     *)
(***************************************************************************)
EXTENDS FiniteSets, Naturals

CONSTANTS
    Lanes,        \* the lanes looked at
    Sources,      \* the person's catalogs, which may supply or serve
    NoSource,
    Calls,        \* slots for concurrent calls
    MaxDisturbed  \* bound: calls begin while at most so many lanes are disturbed

ASSUME LanesAssumption == Lanes \subseteq {"seller", "supplier", "service"}
ASSUME SourcesAssumption == NoSource \notin Sources
ASSUME BoundAssumption == MaxDisturbed \in Nat

VARIABLES
    row,       \* has the person a CatalogMember row?
    lane,      \* sellerStatus, supplierStatus, serviceStatus
    via,       \* sellerVia, supplierVia, serviceVia
    source,    \* supplierCatalogId, serviceCatalogId
    role,      \* a plain member or an admin of the catalog
    inTeam,    \* is he an active member of the business's team?
    call,      \* where the call in each slot stands
    word,      \* history: who asked for the lane, or agreed, since it last began
    disturbed  \* history: lanes two calls concerned at once, or whose call ended
               \* between two writes

laneVars == <<row, lane, via, source, word>>
vars == <<laneVars, role, inTeam, call, disturbed>>

Status == {"none", "pending", "active", "declined", "removed"}
Ways == {"none", "self_request", "invite", "business_team"}
Parties == {"person", "catalog", "team"}
Partner == Lanes \ {"seller"}
Steps == {"idle", "join", "find", "invite", "approve", "reject", "accept", "decline", "remove",
          "leave", "promote", "demote", "enrol", "look", "add", "expel", "lookOut", "drop"}

Idle == [at |-> "idle", lane |-> "seller", source |-> NoSource, fresh |-> FALSE]

\* A step on a partner lane names the catalog it is about where it writes it.
WellFormed(k) ==
    /\ k.at \in {"join", "find", "invite"} => (k.source \in Sources <=> k.lane # "seller")
    /\ k.at = "find" => k.lane # "seller"
    /\ k.at \in {"leave", "promote", "demote", "enrol", "look", "add", "expel", "lookOut", "drop"}
          => k.lane = "seller"
    /\ k.at # "idle" => k.lane \in Lanes

TypeOK ==
    /\ row \in BOOLEAN
    /\ lane \in [Lanes -> Status]
    /\ via \in [Lanes -> Ways]
    /\ source \in [Lanes -> Sources \union {NoSource}]
    /\ \A l \in Partner : lane[l] # "none" => source[l] \in Sources
    /\ role \in {"member", "admin"}
    /\ inTeam \in BOOLEAN
    /\ call \in [Calls -> [at : Steps, lane : Lanes \union {"seller"},
                           source : Sources \union {NoSource}, fresh : BOOLEAN]]
    /\ \A c \in Calls : WellFormed(call[c])
    /\ word \in [Lanes -> SUBSET Parties]
    /\ disturbed \subseteq Lanes

Init ==
    /\ row = FALSE
    /\ lane = [l \in Lanes |-> "none"]
    /\ via = [l \in Lanes |-> "none"]
    /\ source = [l \in Lanes |-> NoSource]
    /\ role = "member"
    /\ inTeam = FALSE
    /\ call = [c \in Calls |-> Idle]
    /\ word = [l \in Lanes |-> {}]
    /\ disturbed = {}

-----------------------------------------------------------------------------
(* Calls and the lanes they concern *)

Busy == {call[c].lane : c \in {d \in Calls : call[d].at # "idle"}}

Calm == Cardinality(disturbed) <= MaxDisturbed

\* The call has read what it needs about lane l and goes on to the step.
Begin(c, step, l, s) ==
    /\ Calm
    /\ call[c].at = "idle"
    /\ l \in Lanes
    /\ call' = [call EXCEPT ![c] = [at |-> step, lane |-> l, source |-> s, fresh |-> ~row]]
    /\ disturbed' = disturbed \union ({l} \intersect Busy)

At(c, step) == call[c].at = step

Go(c, step) == call' = [call EXCEPT ![c].at = step] /\ UNCHANGED disturbed

Done(c) == call' = [call EXCEPT ![c] = Idle] /\ UNCHANGED disturbed

\* create throws when another call created the row since it was looked for.
CanWrite(c) == call[c].fresh => ~row

\* The row is updated, or created: the lane of the call begins anew.
Enter(c, how, party) ==
    LET l == call[c].lane IN
    /\ CanWrite(c)
    /\ row' = TRUE
    /\ lane' = [lane EXCEPT ![l] = "pending"]
    /\ via' = [via EXCEPT ![l] = how]
    /\ word' = [word EXCEPT ![l] = {party}]
    /\ Done(c)

\* The lane of the call is answered or ended, by the row's id.
Write(c, status, party) ==
    LET l == call[c].lane IN
    /\ lane' = [lane EXCEPT ![l] = status]
    /\ word' = [word EXCEPT ![l] = IF status = "active" THEN @ \union {party} ELSE {}]
    /\ Done(c)
    /\ UNCHANGED <<row, via, source, role, inTeam>>

NotWaiting(l) == lane[l] \notin {"active", "pending"}

\* Sources a call on a lane may name.
SourcesOn(l) == IF l = "seller" THEN {NoSource} ELSE Sources

-----------------------------------------------------------------------------
(* A lane begins *)

\* joinCoop: the person asks, for one of his catalogs where the lane is a partner's.
ReadJoin(c, l, s) ==
    /\ s \in SourcesOn(l)
    /\ NotWaiting(l)
    /\ Begin(c, "join", l, s)
    /\ UNCHANGED <<laneVars, role, inTeam>>

\* For a seller it leaves sellerVia as it was.
WriteJoin(c) ==
    LET l == call[c].lane IN
    /\ At(c, "join")
    /\ Enter(c, IF l = "seller" THEN via[l] ELSE "self_request", "person")
    /\ source' = [source EXCEPT ![l] = call[c].source]
    /\ UNCHANGED <<role, inTeam>>

\* inviteSeller: refused while the lane is in use.
ReadInviteSeller(c) ==
    /\ NotWaiting("seller")
    /\ Begin(c, "invite", "seller", NoSource)
    /\ UNCHANGED <<laneVars, role, inTeam>>

\* inviteSupplier and inviteService: refused while the lane is in use by this source.
ReadInvite(c, l, s) ==
    /\ l \in Partner
    /\ s \in Sources
    /\ NotWaiting(l) \/ source[l] # s
    /\ Begin(c, "find", l, s)
    /\ UNCHANGED <<laneVars, role, inTeam>>

\* ... which look for the row only once the request has been charged.
FindRow(c) ==
    /\ At(c, "find")
    /\ call' = [call EXCEPT ![c].at = "invite", ![c].fresh = ~row]
    /\ UNCHANGED <<laneVars, role, inTeam, disturbed>>

WriteInvite(c) ==
    /\ At(c, "invite")
    /\ Enter(c, "invite", "catalog")
    /\ source' = [source EXCEPT ![call[c].lane] = call[c].source]
    /\ UNCHANGED <<role, inTeam>>

-----------------------------------------------------------------------------
(* A lane is answered *)

\* approveSeller, approveSupplier and approveService, by a manager: they do not ask how
\* the lane was entered.
ReadApprove(c, l) ==
    /\ row /\ lane[l] = "pending"
    /\ Begin(c, "approve", l, NoSource)
    /\ UNCHANGED <<laneVars, role, inTeam>>

WriteApprove(c) == At(c, "approve") /\ Write(c, "active", "catalog")

ReadReject(c, l) ==
    /\ row /\ lane[l] = "pending"
    /\ Begin(c, "reject", l, NoSource)
    /\ UNCHANGED <<laneVars, role, inTeam>>

WriteReject(c) == At(c, "reject") /\ Write(c, "removed", "catalog")

\* Mutant: the person may answer any lane that is pending.
AnyPending(l) == lane[l] = "pending"

\* An invitation that waits for the person.
Invited(l) == lane[l] = "pending" /\ via[l] = "invite"

\* acceptSellerInvite, confirmSupplier, confirmService.
ReadAccept(c, l) ==
    /\ row /\ Invited(l)
    /\ Begin(c, "accept", l, NoSource)
    /\ UNCHANGED <<laneVars, role, inTeam>>

WriteAccept(c) == At(c, "accept") /\ Write(c, "active", "person")

\* Mutant: whoever waits for the manager's answer may decline, too.
DeclineAnything(c, l) ==
    /\ row /\ lane[l] = "pending"
    /\ Begin(c, "decline", l, NoSource)
    /\ UNCHANGED <<laneVars, role, inTeam>>

\* declineSellerInvite, declineSupplier, declineService: the inviter sees the refusal
\* until he clears it.
ReadDecline(c, l) ==
    /\ row /\ Invited(l)
    /\ Begin(c, "decline", l, NoSource)
    /\ UNCHANGED <<laneVars, role, inTeam>>

WriteDecline(c) == At(c, "decline") /\ Write(c, "declined", "person")

-----------------------------------------------------------------------------
(* A lane ends *)

\* A lane in use, or an invitation nobody answers or that was refused.
Removable(l) ==
    \/ lane[l] = "active"
    \/ via[l] = "invite" /\ lane[l] \in {"pending", "declined"}

\* removeSeller, removeSupplier, removeService, by a manager.  An admin's seller lane is
\* not removed before his role is.
ReadRemove(c, l) ==
    /\ row /\ Removable(l)
    /\ l = "seller" => role # "admin"
    /\ Begin(c, "remove", l, NoSource)
    /\ UNCHANGED <<laneVars, role, inTeam>>

WriteRemove(c) == At(c, "remove") /\ Write(c, "removed", "catalog")

\* leaveAsSeller; there is no such handler for the partners.
ReadLeave(c) ==
    /\ row /\ "seller" \in Lanes /\ lane["seller"] = "active"
    /\ Begin(c, "leave", "seller", NoSource)
    /\ UNCHANGED <<laneVars, role, inTeam>>

WriteLeave(c) == At(c, "leave") /\ Write(c, "removed", "person")

-----------------------------------------------------------------------------
(* Admins: whether one may be removed as a seller depends on his role *)

ReadPromote(c) ==
    /\ row /\ role = "member"
    /\ Begin(c, "promote", "seller", NoSource)
    /\ UNCHANGED <<laneVars, role, inTeam>>

ReadDemote(c) ==
    /\ row /\ role = "admin"
    /\ Begin(c, "demote", "seller", NoSource)
    /\ UNCHANGED <<laneVars, role, inTeam>>

\* promoteToAdmin and demoteToMember.
WriteRole(c) ==
    /\ \/ At(c, "promote") /\ role' = "admin"
       \/ At(c, "demote") /\ role' = "member"
    /\ Done(c)
    /\ UNCHANGED <<laneVars, inTeam>>

-----------------------------------------------------------------------------
(* The team of the catalog's business (BusinessService) *)

\* addMember ...
ReadEnrol(c) ==
    /\ ~inTeam
    /\ Begin(c, "enrol", "seller", NoSource)
    /\ UNCHANGED <<laneVars, role, inTeam>>

Enrol(c) ==
    /\ At(c, "enrol")
    /\ inTeam' = TRUE
    /\ Go(c, "look")
    /\ UNCHANGED <<laneVars, role>>

\* ... after which syncTeamMemberToCatalogs looks at the row: a lane in use, and one
\* that ended with 'removed', are left alone.
LookBeforeAdd(c) ==
    /\ At(c, "look")
    /\ IF lane["seller"] \in {"none", "declined"}
       THEN call' = [call EXCEPT ![c].at = "add", ![c].fresh = ~row] /\ UNCHANGED disturbed
       ELSE Done(c)
    /\ UNCHANGED <<laneVars, role, inTeam>>

WriteAdd(c) ==
    /\ At(c, "add")
    /\ Enter(c, "business_team", "team")
    /\ UNCHANGED <<source, role, inTeam>>

\* removeMember ...
ReadExpel(c) ==
    /\ inTeam
    /\ Begin(c, "expel", "seller", NoSource)
    /\ UNCHANGED <<laneVars, role, inTeam>>

Expel(c) ==
    /\ At(c, "expel")
    /\ inTeam' = FALSE
    /\ Go(c, "lookOut")
    /\ UNCHANGED <<laneVars, role>>

\* Mutant: only a lane in use is taken from who leaves the team, not one that waits.
LookForActive(c) ==
    /\ At(c, "lookOut")
    /\ IF lane["seller"] = "active" THEN Go(c, "drop") ELSE Done(c)
    /\ UNCHANGED <<laneVars, role, inTeam>>

\* ... and the lane goes with the membership, however it was entered.
LookBeforeDrop(c) ==
    /\ At(c, "lookOut")
    /\ IF lane["seller"] \in {"active", "pending"} THEN Go(c, "drop") ELSE Done(c)
    /\ UNCHANGED <<laneVars, role, inTeam>>

WriteDrop(c) == At(c, "drop") /\ Write(c, "removed", "team")

-----------------------------------------------------------------------------
\* A write throws, or the process ends: what the call wrote before stays.
Cut(c) ==
    /\ call[c].at # "idle"
    /\ call' = [call EXCEPT ![c] = Idle]
    /\ disturbed' = IF call[c].at \in {"look", "add", "lookOut", "drop"}
                    THEN disturbed \union {call[c].lane} ELSE disturbed
    /\ UNCHANGED <<laneVars, role, inTeam>>

Next ==
    \E c \in Calls :
        \/ \E l \in Lanes :
              \/ \E s \in Sources \union {NoSource} : ReadJoin(c, l, s)
              \/ \E s \in Sources : ReadInvite(c, l, s)
              \/ ReadApprove(c, l)
              \/ ReadReject(c, l)
              \/ ReadAccept(c, l)
              \/ ReadDecline(c, l)
              \/ ReadRemove(c, l)
        \/ ReadInviteSeller(c)
        \/ FindRow(c)
        \/ WriteJoin(c)
        \/ WriteInvite(c)
        \/ WriteApprove(c)
        \/ WriteReject(c)
        \/ WriteAccept(c)
        \/ WriteDecline(c)
        \/ WriteRemove(c)
        \/ ReadLeave(c)
        \/ WriteLeave(c)
        \/ ReadPromote(c)
        \/ ReadDemote(c)
        \/ WriteRole(c)
        \/ ReadEnrol(c)
        \/ Enrol(c)
        \/ LookBeforeAdd(c)
        \/ WriteAdd(c)
        \/ ReadExpel(c)
        \/ Expel(c)
        \/ LookBeforeDrop(c)
        \/ WriteDrop(c)
        \/ Cut(c)

Spec == Init /\ [][Next]_vars

-----------------------------------------------------------------------------
(* Properties *)

\* Nobody sells for, supplies or serves a catalog that did not ask for him (and, of a
\* partner, for this very catalog of his), or agree, since the lane last began, unless two
\* calls about the lane overlapped.  A seller is excepted whose row says he was invited:
\* joinCoop leaves sellerVia from an earlier time, and he may then accept himself.
CatalogAgreed ==
    \A l \in Lanes \ disturbed :
        lane[l] = "active" => "catalog" \in word[l] \/ (l = "seller" /\ via[l] = "invite")

\* The business's team and the catalog's agree: who has left the business does not sell,
\* or wait to, on the strength of having been in it, unless two calls about his selling
\* overlapped or the removal was cut off half way.
LeaverDoesNotSell ==
    "seller" \in (Lanes \ disturbed) \ Busy /\ ~inTeam
        => ~ (lane["seller"] \in {"pending", "active"} /\ "team" \in word["seller"])

\* What was refused stays known as an invitation, whatever else was done to the row since:
\* removeSeller, removeSupplier and removeService, which take a refusal off the manager's
\* list, recognise it by that, unless two calls overlapped.  They may refuse for another
\* reason: of a seller who was made an admin meanwhile, his role has to be taken first.
RefusalIsRecognised ==
    \A l \in Lanes \ disturbed : lane[l] = "declined" => Removable(l)
=============================================================================
