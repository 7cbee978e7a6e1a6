------------------------ MODULE CatalogTeamProofs ------------------------
(***************************************************************************)
(* Proofs about CatalogTeam, for every set of lanes, of the person's       *)
(* catalogs and of concurrent calls, and whatever the bound.               *)
(***************************************************************************)
EXTENDS CatalogTeam, TLAPS

USE LanesAssumption, SourcesAssumption, BoundAssumption

-----------------------------------------------------------------------------
(* The inductive invariant *)

Slot == [at : Steps, lane : Lanes \union {"seller"}, source : Sources \union {NoSource},
         fresh : BOOLEAN]

CallsTyped == call \in [Calls -> Slot] /\ \A c \in Calls : WellFormed(call[c])

RowTyped ==
    /\ row \in BOOLEAN
    /\ lane \in [Lanes -> Status]
    /\ via \in [Lanes -> Ways]
    /\ source \in [Lanes -> Sources \union {NoSource}]
    /\ \A l \in Partner : lane[l] # "none" => source[l] \in Sources
    /\ role \in {"member", "admin"}
    /\ inTeam \in BOOLEAN
    /\ word \in [Lanes -> SUBSET Parties]
    /\ disturbed \subseteq Lanes

\* Two calls about one lane disturb it.
Overlap ==
    \A c, d \in Calls :
        c # d /\ call[c].at # "idle" /\ call[d].at # "idle" /\ call[c].lane = call[d].lane
            => call[c].lane \in disturbed

\* What a call found still holds, unless another call disturbed its lane: a call in step
\* k, and whether the person is in the team.
FoundedIn(k, team) ==
    /\ k.at \in {"approve", "reject", "accept", "decline", "remove"} => lane[k.lane] # "none"
    /\ k.lane \notin disturbed =>
          /\ k.at = "approve" => lane[k.lane] = "pending"
          /\ k.at \in {"accept", "decline"} => Invited(k.lane)
          /\ k.at \in {"look", "add"} => team

Founded(k) == FoundedIn(k, inTeam)

AllFounded == \A c \in Calls : Founded(call[c])

\* Where no two calls met: an invitation to a partner is the catalog's word, a seller may
\* do without it who was invited once, and only an invitation is refused.
Standing(l) ==
    /\ l # "seller" /\ Invited(l) => "catalog" \in word[l]
    /\ lane[l] = "active" => "catalog" \in word[l] \/ (l = "seller" /\ via[l] = "invite")
    /\ lane[l] = "declined" => via[l] = "invite"

AllStanding == \A l \in Lanes \ disturbed : Standing(l)

\* Who is out of the team and sells by it is about to be taken off.
ByTeam == lane["seller"] \in {"pending", "active"} /\ "team" \in word["seller"]

TeamStanding ==
    "seller" \in Lanes \ disturbed /\ ~inTeam /\ ByTeam
        => \E c \in Calls : call[c].at \in {"lookOut", "drop"}

Inv == CallsTyped /\ RowTyped /\ Overlap /\ AllFounded /\ AllStanding /\ TeamStanding

LEMMA TypeParts == TypeOK <=> CallsTyped /\ RowTyped
BY DEF TypeOK, CallsTyped, RowTyped, Slot

LEMMA IdleTyped == Idle \in Slot /\ WellFormed(Idle) /\ Idle.at = "idle"
BY DEF Idle, Slot, Steps, WellFormed

-----------------------------------------------------------------------------
(* Steps that write one slot, and nothing of the row *)

LEMMA SlotTyped ==
    ASSUME CallsTyped, NEW c \in Calls, NEW k \in Slot, WellFormed(k),
           call' = [call EXCEPT ![c] = k]
    PROVE  CallsTyped'
BY DEF CallsTyped

\* The slot is freed, or goes on with its lane, or takes one that no other call is about
\* or that is disturbed now.
LEMMA SlotOverlap ==
    ASSUME CallsTyped, Overlap, NEW c \in Calls, NEW k \in Slot,
           call' = [call EXCEPT ![c] = k], disturbed \subseteq disturbed',
           \/ k.at = "idle"
           \/ call[c].at # "idle" /\ k.lane = call[c].lane
           \/ \A d \in Calls : call[d].at # "idle" /\ call[d].lane = k.lane
                                  => k.lane \in disturbed'
    PROVE  Overlap'
<1> SUFFICES ASSUME NEW a \in Calls, NEW b \in Calls, a # b,
                    call'[a].at # "idle", call'[b].at # "idle", call'[a].lane = call'[b].lane
             PROVE  call'[a].lane \in disturbed'
  BY DEF Overlap
<1>1. call'[c] = k /\ \A d \in Calls : d # c => call'[d] = call[d]
  BY DEF CallsTyped
<1>2. CASE a # c /\ b # c
  BY <1>1, <1>2 DEF Overlap
<1>3. CASE a = c
  BY <1>1, <1>3 DEF Overlap
<1>4. CASE b = c
  BY <1>1, <1>4 DEF Overlap
<1> QED
  BY <1>2, <1>3, <1>4

\* The team's membership is written only by a call about the seller lane.
LEMMA SlotFounded ==
    ASSUME CallsTyped, Overlap, AllFounded, AllStanding, NEW c \in Calls, NEW k \in Slot,
           FoundedIn(k, inTeam'), call' = [call EXCEPT ![c] = k], UNCHANGED laneVars,
           disturbed \subseteq disturbed',
           inTeam' = inTeam \/ (call[c].at # "idle" /\ call[c].lane = "seller")
    PROVE  AllFounded' /\ AllStanding'
<1>1. call'[c] = k /\ \A d \in Calls : d # c => call'[d] = call[d]
  BY DEF CallsTyped
<1>2. lane' = lane /\ via' = via /\ word' = word
  BY DEF laneVars
<1>3. ASSUME NEW d \in Calls, d # c PROVE Founded(call[d])'
  <2>1. call'[d] = call[d] /\ Founded(call[d])
    BY <1>1, <1>3 DEF AllFounded
  <2>2. CASE inTeam' = inTeam
    BY <1>2, <2>1, <2>2 DEF Founded, FoundedIn, Invited
  <2>3. CASE call[c].at # "idle" /\ call[c].lane = "seller"
    <3>1. call[d].at # "idle" /\ call[d].lane = "seller" => call[d].lane \in disturbed
      BY <1>3, <2>3 DEF Overlap
    <3>2. call[d].at \in {"look", "add"} => call[d].lane = "seller"
      BY DEF CallsTyped, WellFormed
    <3> QED
      BY <1>2, <2>1, <3>1, <3>2 DEF Founded, FoundedIn, Invited
  <2> QED
    BY <2>2, <2>3
<1>4. Founded(call[c])'
  BY <1>1, <1>2 DEF Founded, FoundedIn, Invited
<1>5. AllFounded'
  BY <1>3, <1>4 DEF AllFounded
<1>6. AllStanding'
  BY <1>2 DEF AllStanding, Standing, Invited
<1> QED
  BY <1>5, <1>6

\* The call that takes him off the lane is not lost.
LEMMA SlotTeam ==
    ASSUME CallsTyped, TeamStanding, NEW c \in Calls, NEW k \in Slot,
           call' = [call EXCEPT ![c] = k], UNCHANGED laneVars, disturbed \subseteq disturbed',
           \/ inTeam'
           \/ k.at \in {"lookOut", "drop"}
           \/ /\ inTeam' = inTeam
              /\ \/ call[c].at \notin {"lookOut", "drop"}
                 \/ ~ ByTeam
                 \/ "seller" \in disturbed'
    PROVE  TeamStanding'
<1>1. call'[c] = k /\ \A d \in Calls : d # c => call'[d] = call[d]
  BY DEF CallsTyped
<1>2. ByTeam' <=> ByTeam
  BY DEF ByTeam, laneVars
<1> QED
  BY <1>1, <1>2 DEF TeamStanding

LEMMA RowKept ==
    ASSUME RowTyped, UNCHANGED laneVars, role' \in {"member", "admin"}, inTeam' \in BOOLEAN,
           disturbed' \subseteq Lanes
    PROVE  RowTyped'
BY DEF RowTyped, laneVars

\* A call begins.
LEMMA BeginSafe ==
    ASSUME Inv, NEW c \in Calls, NEW step \in Steps, NEW l \in Lanes,
           NEW s \in Sources \union {NoSource},
           WellFormed([at |-> step, lane |-> l, source |-> s, fresh |-> ~row]),
           Founded([at |-> step, lane |-> l, source |-> s, fresh |-> ~row]),
           Begin(c, step, l, s), UNCHANGED <<laneVars, role, inTeam>>
    PROVE  Inv'
<1> PICK k : k = [at |-> step, lane |-> l, source |-> s, fresh |-> ~row]
  OBVIOUS
<1>1. k \in Slot /\ k.lane = l
  BY DEF Inv, RowTyped, Slot
<1>0. UNCHANGED laneVars /\ role' = role /\ inTeam' = inTeam /\ l \in Lanes
  OBVIOUS
<1>2. /\ call' = [call EXCEPT ![c] = k] /\ call[c].at = "idle"
      /\ disturbed' = disturbed \union ({l} \intersect Busy)
  BY DEF Begin
<1>3. \A d \in Calls : call[d].at # "idle" /\ call[d].lane = k.lane => k.lane \in disturbed'
  BY <1>1, <1>2 DEF Busy
<1>4. disturbed \subseteq disturbed' /\ disturbed' \subseteq Lanes
  BY <1>2 DEF Inv, RowTyped
<1>5. WellFormed(k) /\ Founded(k)
  OBVIOUS
<1>6. FoundedIn(k, inTeam')
  BY <1>0, <1>5 DEF Founded
<1>7. CallsTyped'
  BY <1>1, <1>2, <1>5, SlotTyped DEF Inv
<1>8. Overlap'
  BY <1>1, <1>2, <1>3, <1>4, SlotOverlap DEF Inv
<1>9. AllFounded' /\ AllStanding'
  BY <1>0, <1>1, <1>2, <1>4, <1>6, SlotFounded DEF Inv
<1>10. TeamStanding'
  BY <1>0, <1>1, <1>2, <1>4, SlotTeam DEF Inv
<1>11. RowTyped'
  BY <1>0, <1>4, RowKept DEF Inv, RowTyped
<1> QED
  BY <1>7, <1>8, <1>9, <1>10, <1>11 DEF Inv

\* A call goes on to a step, or ends, and writes nothing of the row.
LEMMA GoSafe ==
    ASSUME Inv, NEW c \in Calls, NEW k \in Slot, WellFormed(k), FoundedIn(k, inTeam'),
           call' = [call EXCEPT ![c] = k],
           k.at = "idle" \/ (call[c].at # "idle" /\ k.lane = call[c].lane),
           UNCHANGED laneVars, role' \in {"member", "admin"}, inTeam' \in BOOLEAN,
           disturbed \subseteq disturbed', disturbed' \subseteq Lanes,
           inTeam' = inTeam \/ (call[c].at # "idle" /\ call[c].lane = "seller"),
           \/ inTeam'
           \/ k.at \in {"lookOut", "drop"}
           \/ /\ inTeam' = inTeam
              /\ \/ call[c].at \notin {"lookOut", "drop"}
                 \/ ~ ByTeam
                 \/ "seller" \in disturbed'
    PROVE  Inv'
<1>1. CallsTyped'
  BY SlotTyped DEF Inv
<1>2. Overlap'
  BY SlotOverlap DEF Inv
<1>3. AllFounded' /\ AllStanding'
  BY SlotFounded DEF Inv
<1>4. TeamStanding'
  BY SlotTeam DEF Inv
<1>5. RowTyped'
  BY RowKept DEF Inv
<1> QED
  BY <1>1, <1>2, <1>3, <1>4, <1>5 DEF Inv

-----------------------------------------------------------------------------
(* Steps that write a lane and end the call *)

LEMMA LaneSafe ==
    ASSUME Inv, NEW c \in Calls, call[c].at # "idle", NEW l, l = call[c].lane,
           call' = [call EXCEPT ![c] = Idle], disturbed' = disturbed,
           role' = role, inTeam' = inTeam,
           \A m \in Lanes \ {l} : lane'[m] = lane[m] /\ via'[m] = via[m] /\ word'[m] = word[m],
           lane'[l] # "none",
           l \notin disturbed => Standing(l)',
           l = "seller" /\ l \notin disturbed /\ ByTeam' => inTeam
    PROVE  CallsTyped' /\ Overlap' /\ AllFounded' /\ AllStanding' /\ TeamStanding'
<1>1. call'[c] = Idle /\ \A d \in Calls : d # c => call'[d] = call[d]
  BY DEF Inv, CallsTyped
<1>2. CallsTyped'
  BY IdleTyped, SlotTyped DEF Inv
<1>3. Overlap'
  BY IdleTyped, SlotOverlap DEF Inv
<1>4. AllFounded'
  <2> SUFFICES ASSUME NEW d \in Calls PROVE Founded(call[d])'
    BY DEF AllFounded
  <2>1. CASE d = c
    BY <1>1, <2>1, IdleTyped DEF Founded, FoundedIn
  <2>2. CASE d # c
    <3>1. call'[d] = call[d] /\ Founded(call[d])
      BY <1>1, <2>2 DEF Inv, AllFounded
    <3>2. call[d].at # "idle" /\ call[d].lane = l => call[d].lane \in disturbed
      BY <2>2 DEF Inv, Overlap
    <3>3. call[d].at # "idle" => call[d].lane \in Lanes
      BY DEF Inv, CallsTyped, WellFormed
    <3>4. call[d].at \in {"approve", "reject", "accept", "decline", "remove"} =>
              lane'[call[d].lane] # "none"
      BY <3>1, <3>3 DEF Founded, FoundedIn
    <3>5. CASE call[d].at # "idle" /\ call[d].lane \notin disturbed
      <4>1. call[d].lane \in Lanes \ {l}
        BY <3>2, <3>3, <3>5
      <4>2. lane'[call[d].lane] = lane[call[d].lane] /\ via'[call[d].lane] = via[call[d].lane]
        BY <4>1
      <4> QED
        BY <3>1, <3>4, <3>5, <4>2 DEF Founded, FoundedIn, Invited
    <3>6. CASE call[d].at = "idle" \/ call[d].lane \in disturbed
      BY <3>1, <3>4, <3>6 DEF Founded, FoundedIn
    <3> QED
      BY <3>5, <3>6
  <2> QED
    BY <2>1, <2>2
<1>5. AllStanding'
  <2> SUFFICES ASSUME NEW m \in Lanes, m \notin disturbed PROVE Standing(m)'
    BY DEF AllStanding
  <2>1. CASE m = l
    BY <2>1
  <2>2. CASE m # l
    BY <2>2 DEF Inv, AllStanding, Standing, Invited
  <2> QED
    BY <2>1, <2>2
<1>6. TeamStanding'
  <2> SUFFICES ASSUME "seller" \in Lanes, "seller" \notin disturbed, ~inTeam, ByTeam'
               PROVE  \E d \in Calls : call'[d].at \in {"lookOut", "drop"}
    BY DEF TeamStanding
  <2>1. l # "seller" /\ ByTeam
    BY DEF ByTeam
  <2>2. PICK d \in Calls : call[d].at \in {"lookOut", "drop"}
    BY <2>1 DEF Inv, TeamStanding
  <2>3. call[d].lane = "seller"
    BY <2>2 DEF Inv, CallsTyped, WellFormed
  <2> QED
    BY <1>1, <2>1, <2>2, <2>3
<1> QED
  BY <1>2, <1>3, <1>4, <1>5, <1>6

\* The lane begins anew.
LEMMA EnterSafe ==
    ASSUME Inv, NEW c \in Calls, NEW how \in Ways, NEW party \in Parties,
           call[c].at \in {"join", "invite", "add"}, Enter(c, how, party),
           \/ source' = [source EXCEPT ![call[c].lane] = call[c].source]
           \/ call[c].at = "add" /\ source' = source,
           how = "invite" /\ call[c].lane # "seller" => party = "catalog",
           party = "team" => call[c].at = "add",
           role' = role, inTeam' = inTeam
    PROVE  Inv'
<1> PICK l : l = call[c].lane
  OBVIOUS
<1>1. /\ call[c] \in Slot /\ WellFormed(call[c]) /\ call[c].at # "idle"
      /\ l \in Lanes
  BY DEF Inv, CallsTyped, WellFormed
<1>2. /\ row' = TRUE /\ call' = [call EXCEPT ![c] = Idle] /\ disturbed' = disturbed
      /\ lane' = [lane EXCEPT ![l] = "pending"]
      /\ via' = [via EXCEPT ![l] = how]
      /\ word' = [word EXCEPT ![l] = {party}]
  BY DEF Enter, Done
<1>3. /\ lane'[l] = "pending" /\ via'[l] = how /\ word'[l] = {party}
      /\ \A m \in Lanes \ {l} : lane'[m] = lane[m] /\ via'[m] = via[m] /\ word'[m] = word[m]
  BY <1>1, <1>2 DEF Inv, RowTyped
<1>4. RowTyped'
  <2>1. source' \in [Lanes -> Sources \union {NoSource}]
    BY <1>1 DEF Inv, RowTyped, Slot
  <2>2. /\ lane' \in [Lanes -> Status] /\ via' \in [Lanes -> Ways]
        /\ word' \in [Lanes -> SUBSET Parties]
    BY <1>2 DEF Inv, RowTyped, Status
  <2>3. ASSUME NEW m \in Partner, lane'[m] # "none" PROVE source'[m] \in Sources
    <3>1. CASE m = l
      <4>1. call[c].at # "add" /\ call[c].source \in Sources
        BY <1>1, <2>3, <3>1 DEF Partner, WellFormed
      <4> QED
        BY <1>1, <3>1, <4>1 DEF Inv, RowTyped
    <3>2. CASE m # l
      BY <1>3, <2>3, <3>2 DEF Inv, RowTyped, Partner
    <3> QED
      BY <3>1, <3>2
  <2> QED
    BY <1>2, <2>1, <2>2, <2>3 DEF Inv, RowTyped
<1>5. Standing(l)'
  BY <1>3 DEF Standing, Invited, Parties
<1>6. l = "seller" /\ l \notin disturbed /\ ByTeam' => inTeam
  <2> SUFFICES ASSUME l = "seller", l \notin disturbed, ByTeam' PROVE inTeam
    OBVIOUS
  <2>1. call[c].at = "add"
    BY <1>3 DEF ByTeam
  <2> QED
    BY <2>1 DEF Inv, AllFounded, Founded, FoundedIn
<1>7. lane'[l] # "none"
  BY <1>3
<1>8. CallsTyped' /\ Overlap' /\ AllFounded' /\ AllStanding' /\ TeamStanding'
  BY <1>2, <1>3, <1>5, <1>6, <1>7, LaneSafe
<1> QED
  BY <1>4, <1>8 DEF Inv

\* The lane is answered or ended.
LEMMA WriteSafe ==
    ASSUME Inv, NEW c \in Calls, NEW status \in {"active", "declined", "removed"},
           NEW party \in Parties, call[c].at # "idle", Write(c, status, party),
           call[c].lane = "seller" \/ lane[call[c].lane] # "none",
           status = "declined" /\ call[c].lane \notin disturbed => via[call[c].lane] = "invite",
           status = "active" =>
               /\ party # "team" /\ call[c].at \notin {"lookOut", "drop"}
               /\ call[c].lane \notin disturbed =>
                     /\ lane[call[c].lane] = "pending"
                     /\ \/ party = "catalog" \/ "catalog" \in word[call[c].lane]
                        \/ call[c].lane = "seller" /\ via["seller"] = "invite"
    PROVE  Inv'
<1> PICK l : l = call[c].lane
  OBVIOUS
<1>1. l \in Lanes
  BY DEF Inv, CallsTyped, WellFormed
<1>2. /\ call' = [call EXCEPT ![c] = Idle] /\ disturbed' = disturbed
      /\ lane' = [lane EXCEPT ![l] = status]
      /\ word' = [word EXCEPT ![l] = IF status = "active" THEN @ \union {party} ELSE {}]
      /\ row' = row /\ via' = via /\ source' = source /\ role' = role /\ inTeam' = inTeam
  BY DEF Write, Done
<1>3. /\ lane'[l] = status /\ via'[l] = via[l]
      /\ word'[l] = IF status = "active" THEN word[l] \union {party} ELSE {}
      /\ \A m \in Lanes \ {l} : lane'[m] = lane[m] /\ via'[m] = via[m] /\ word'[m] = word[m]
  BY <1>1, <1>2 DEF Inv, RowTyped
<1>4. RowTyped'
  <2>1. lane' \in [Lanes -> Status] /\ word' \in [Lanes -> SUBSET Parties]
    BY <1>2 DEF Inv, RowTyped, Status
  <2>2. ASSUME NEW m \in Partner, lane'[m] # "none" PROVE source'[m] \in Sources
    BY <1>2, <1>3, <2>2 DEF Inv, RowTyped, Partner
  <2> QED
    BY <1>2, <2>1, <2>2 DEF Inv, RowTyped
<1>5. l \notin disturbed => Standing(l)'
  BY <1>3 DEF Standing, Invited
<1>6. l = "seller" /\ l \notin disturbed /\ ByTeam' => inTeam
  <2> SUFFICES ASSUME l = "seller", l \notin disturbed, ByTeam' PROVE inTeam
    OBVIOUS
  <2>1. status = "active" /\ lane["seller"] = "pending" /\ "team" \in word["seller"]
    BY <1>3 DEF ByTeam
  <2>2. CASE ~inTeam
    <3>1. PICK d \in Calls : call[d].at \in {"lookOut", "drop"}
      BY <1>1, <2>1, <2>2 DEF Inv, TeamStanding, ByTeam
    <3>2. call[d].lane = "seller" /\ call[d].at # "idle"
      BY <3>1 DEF Inv, CallsTyped, WellFormed
    <3> QED
      BY <2>1, <3>1, <3>2 DEF Inv, Overlap
  <2> QED
    BY <2>2
<1>7. lane'[l] # "none"
  BY <1>3
<1>8. CallsTyped' /\ Overlap' /\ AllFounded' /\ AllStanding' /\ TeamStanding'
  BY <1>2, <1>3, <1>5, <1>6, <1>7, LaneSafe
<1> QED
  BY <1>4, <1>8 DEF Inv

-----------------------------------------------------------------------------
(* One lemma per kind of action *)

LEMMA InitInv == Init => Inv
<1> SUFFICES ASSUME Init PROVE Inv
  OBVIOUS
<1>1. CallsTyped /\ \A c \in Calls : call[c].at = "idle"
  BY IdleTyped DEF Init, CallsTyped
<1>2. RowTyped
  BY DEF Init, RowTyped, Status, Ways, Partner
<1>3. Overlap /\ AllFounded
  BY <1>1 DEF Overlap, AllFounded, Founded, FoundedIn
<1>4. AllStanding /\ TeamStanding
  BY DEF Init, AllStanding, Standing, TeamStanding, ByTeam, Invited
<1> QED
  BY <1>1, <1>2, <1>3, <1>4 DEF Inv

LEMMA ReadsSafe ==
    ASSUME Inv, NEW c \in Calls, NEW l \in Lanes,
           \/ \E s \in Sources \union {NoSource} : ReadJoin(c, l, s)
           \/ \E s \in Sources : ReadInvite(c, l, s)
           \/ ReadApprove(c, l) \/ ReadReject(c, l) \/ ReadAccept(c, l)
           \/ ReadDecline(c, l) \/ ReadRemove(c, l)
    PROVE  Inv'
<1>1. ASSUME NEW s \in Sources \union {NoSource}, ReadJoin(c, l, s) PROVE Inv'
  <2>1. s \in Sources <=> l # "seller"
    BY <1>1 DEF ReadJoin, SourcesOn
  <2>2. "join" \in Steps /\ Begin(c, "join", l, s) /\ UNCHANGED <<laneVars, role, inTeam>>
    BY <1>1 DEF ReadJoin, Steps
  <2> QED
    BY <2>1, <2>2, BeginSafe DEF WellFormed, Founded, FoundedIn
<1>2. ASSUME NEW s \in Sources, ReadInvite(c, l, s) PROVE Inv'
  <2>1. "find" \in Steps /\ l # "seller" /\ Begin(c, "find", l, s)
        /\ UNCHANGED <<laneVars, role, inTeam>>
    BY <1>2 DEF ReadInvite, Steps, Partner
  <2> QED
    BY <2>1, BeginSafe DEF WellFormed, Founded, FoundedIn
<1>3. CASE ReadApprove(c, l)
  <2>1. "approve" \in Steps /\ lane[l] = "pending" /\ Begin(c, "approve", l, NoSource)
        /\ UNCHANGED <<laneVars, role, inTeam>>
    BY <1>3 DEF ReadApprove, Steps
  <2> QED
    BY <2>1, BeginSafe DEF WellFormed, Founded, FoundedIn
<1>4. CASE ReadReject(c, l)
  <2>1. "reject" \in Steps /\ lane[l] = "pending" /\ Begin(c, "reject", l, NoSource)
        /\ UNCHANGED <<laneVars, role, inTeam>>
    BY <1>4 DEF ReadReject, Steps
  <2> QED
    BY <2>1, BeginSafe DEF WellFormed, Founded, FoundedIn
<1>5. CASE ReadAccept(c, l)
  <2>1. "accept" \in Steps /\ Invited(l) /\ lane[l] = "pending"
        /\ Begin(c, "accept", l, NoSource) /\ UNCHANGED <<laneVars, role, inTeam>>
    BY <1>5 DEF ReadAccept, Steps, Invited
  <2> QED
    BY <2>1, BeginSafe DEF WellFormed, Founded, FoundedIn
<1>6. CASE ReadDecline(c, l)
  <2>1. "decline" \in Steps /\ Invited(l) /\ lane[l] = "pending"
        /\ Begin(c, "decline", l, NoSource) /\ UNCHANGED <<laneVars, role, inTeam>>
    BY <1>6 DEF ReadDecline, Steps, Invited
  <2> QED
    BY <2>1, BeginSafe DEF WellFormed, Founded, FoundedIn
<1>7. CASE ReadRemove(c, l)
  <2>1. "remove" \in Steps /\ lane[l] # "none"
        /\ Begin(c, "remove", l, NoSource) /\ UNCHANGED <<laneVars, role, inTeam>>
    BY <1>7 DEF ReadRemove, Steps, Removable, Inv, RowTyped
  <2> QED
    BY <2>1, BeginSafe DEF WellFormed, Founded, FoundedIn
<1> QED
  BY <1>1, <1>2, <1>3, <1>4, <1>5, <1>6, <1>7

\* A call about the seller lane begins.  (Begin takes lanes that are looked at only.)
LEMMA SellerReadsSafe ==
    ASSUME Inv, NEW c \in Calls,
           \/ ReadInviteSeller(c) \/ ReadLeave(c) \/ ReadPromote(c) \/ ReadDemote(c)
           \/ ReadEnrol(c) \/ ReadExpel(c)
    PROVE  Inv'
<1>1. PICK step \in {"invite", "leave", "promote", "demote", "enrol", "expel"} :
          Begin(c, step, "seller", NoSource) /\ UNCHANGED <<laneVars, role, inTeam>>
  BY DEF ReadInviteSeller, ReadLeave, ReadPromote, ReadDemote, ReadEnrol, ReadExpel
<1>2. step \in Steps /\ "seller" \in Lanes
  BY <1>1 DEF Steps, Begin
<1> QED
  BY <1>1, <1>2, BeginSafe DEF WellFormed, Founded, FoundedIn

LEMMA EntersSafe ==
    ASSUME Inv, NEW c \in Calls, WriteJoin(c) \/ WriteInvite(c) \/ WriteAdd(c)
    PROVE  Inv'
<1>1. CASE WriteJoin(c)
  <2>1. "self_request" \in Ways /\ "person" \in Parties /\ "person" # "team"
    BY DEF Ways, Parties
  <2>2. call[c].at = "join" /\ call[c].lane \in Lanes
    BY <1>1 DEF WriteJoin, At, Inv, CallsTyped, WellFormed
  <2>3. source' = [source EXCEPT ![call[c].lane] = call[c].source] /\ role' = role
        /\ inTeam' = inTeam
    BY <1>1 DEF WriteJoin
  <2>4. CASE call[c].lane = "seller"
    <3>1. Enter(c, via["seller"], "person") /\ via["seller"] \in Ways
      BY <1>1, <2>2, <2>4 DEF WriteJoin, Inv, RowTyped
    <3> QED
      BY <2>1, <2>2, <2>3, <2>4, <3>1, EnterSafe
  <2>5. CASE call[c].lane # "seller"
    <3>1. Enter(c, "self_request", "person")
      BY <1>1, <2>5 DEF WriteJoin
    <3> QED
      BY <2>1, <2>2, <2>3, <3>1, EnterSafe
  <2> QED
    BY <2>4, <2>5
<1>2. CASE WriteInvite(c)
  <2>1. "invite" \in Ways /\ "catalog" \in Parties /\ call[c].at = "invite"
        /\ Enter(c, "invite", "catalog") /\ role' = role /\ inTeam' = inTeam
        /\ source' = [source EXCEPT ![call[c].lane] = call[c].source]
    BY <1>2 DEF Ways, Parties, WriteInvite, At
  <2> QED
    BY <2>1, EnterSafe
<1>3. CASE WriteAdd(c)
  <2>1. "business_team" \in Ways /\ "team" \in Parties /\ call[c].at = "add"
        /\ Enter(c, "business_team", "team") /\ role' = role /\ inTeam' = inTeam
        /\ source' = source
    BY <1>3 DEF Ways, Parties, WriteAdd, At
  <2> QED
    BY <2>1, EnterSafe
<1> QED
  BY <1>1, <1>2, <1>3

LEMMA WritesSafe ==
    ASSUME Inv, NEW c \in Calls,
           \/ WriteApprove(c) \/ WriteReject(c) \/ WriteAccept(c) \/ WriteDecline(c)
           \/ WriteRemove(c) \/ WriteLeave(c) \/ WriteDrop(c)
    PROVE  Inv'
<1>1. /\ WellFormed(call[c]) /\ Founded(call[c])
      /\ call[c].at # "idle" => call[c].lane \in Lanes
  BY DEF Inv, CallsTyped, AllFounded, WellFormed
<1>2. {"person", "catalog", "team"} \subseteq Parties
  BY DEF Parties
<1>3. CASE WriteApprove(c)
  BY <1>1, <1>2, <1>3, WriteSafe DEF WriteApprove, At, Founded, FoundedIn
<1>4. CASE WriteAccept(c)
  <2>1. call[c].at = "accept" /\ Write(c, "active", "person") /\ lane[call[c].lane] # "none"
    BY <1>1, <1>4 DEF WriteAccept, At, Founded, FoundedIn
  <2>2. call[c].lane \notin disturbed =>
            /\ lane[call[c].lane] = "pending"
            /\ \/ call[c].lane = "seller" /\ via["seller"] = "invite"
               \/ "catalog" \in word[call[c].lane]
    BY <1>1, <2>1 DEF Founded, FoundedIn, Invited, Inv, AllStanding, Standing
  <2> QED
    BY <1>2, <2>1, <2>2, WriteSafe
<1>5. CASE WriteDecline(c)
  <2>1. call[c].at = "decline" /\ Write(c, "declined", "person") /\ lane[call[c].lane] # "none"
        /\ (call[c].lane \notin disturbed => via[call[c].lane] = "invite")
    BY <1>1, <1>5 DEF WriteDecline, At, Founded, FoundedIn, Invited
  <2> QED
    BY <1>2, <2>1, WriteSafe
<1>6. CASE WriteReject(c) \/ WriteRemove(c)
  <2>1. call[c].at # "idle" /\ Write(c, "removed", "catalog") /\ lane[call[c].lane] # "none"
    BY <1>1, <1>6 DEF WriteReject, WriteRemove, At, Founded, FoundedIn
  <2> QED
    BY <1>2, <2>1, WriteSafe
<1>7. CASE WriteLeave(c) \/ WriteDrop(c)
  <2>1. PICK party \in {"person", "team"} :
            call[c].at # "idle" /\ Write(c, "removed", party) /\ call[c].lane = "seller"
    BY <1>1, <1>7 DEF WriteLeave, WriteDrop, At, WellFormed
  <2> QED
    BY <1>2, <2>1, WriteSafe
<1> QED
  BY <1>3, <1>4, <1>5, <1>6, <1>7

\* A call ends having written nothing of the row.
LEMMA EndSafe ==
    ASSUME Inv, NEW c \in Calls, call' = [call EXCEPT ![c] = Idle], UNCHANGED laneVars,
           role' \in {"member", "admin"}, inTeam' = inTeam,
           disturbed \subseteq disturbed', disturbed' \subseteq Lanes,
           call[c].at \notin {"lookOut", "drop"} \/ ~ ByTeam \/ "seller" \in disturbed'
    PROVE  Inv'
<1>1. FoundedIn(Idle, inTeam')
  BY IdleTyped DEF FoundedIn
<1>2. inTeam' \in BOOLEAN
  BY DEF Inv, RowTyped
<1> QED
  BY <1>1, <1>2, IdleTyped, GoSafe

\* A call goes on to a step about its lane.
LEMMA StepSafe ==
    ASSUME Inv, NEW c \in Calls, NEW step \in {"invite", "look", "add", "lookOut", "drop"},
           NEW fresh \in BOOLEAN, call[c].at # "idle",
           call' = [call EXCEPT ![c].at = step, ![c].fresh = fresh],
           UNCHANGED laneVars, role' = role, inTeam' \in BOOLEAN, UNCHANGED disturbed,
           step = "invite" => call[c].at = "find" /\ inTeam' = inTeam,
           step # "invite" => call[c].lane = "seller",
           step \in {"look", "add"} /\ call[c].lane \notin disturbed => inTeam',
           step \in {"look", "add"} => inTeam' \/ (inTeam' = inTeam /\ call[c].at = "look")
    PROVE  Inv'
<1>1. call[c] \in Slot /\ WellFormed(call[c])
  BY DEF Inv, CallsTyped
<1> PICK k : k = [at |-> step, lane |-> call[c].lane, source |-> call[c].source, fresh |-> fresh]
  OBVIOUS
<1>2. k \in Slot /\ k.at = step /\ k.lane = call[c].lane /\ k.source = call[c].source
  BY <1>1 DEF Slot, Steps
<1>3. call' = [call EXCEPT ![c] = k]
  <2> DEFINE r == [[call[c] EXCEPT !.at = step] EXCEPT !.fresh = fresh]
  <2>0. r \in Slot /\ r.at = step /\ r.lane = call[c].lane /\ r.source = call[c].source
        /\ r.fresh = fresh
    BY <1>1 DEF Slot, Steps
  <2>1. r = k
    BY <1>2, <2>0 DEF Slot
  <2>2. call' = [call EXCEPT ![c] = [[call[c] EXCEPT !.at = step] EXCEPT !.fresh = fresh]]
    BY DEF Inv, CallsTyped
  <2> QED
    BY <2>1, <2>2
<1>4. WellFormed(k)
  BY <1>1, <1>2 DEF WellFormed
<1>5. FoundedIn(k, inTeam')
  BY <1>2 DEF FoundedIn
<1>6. disturbed \subseteq disturbed' /\ disturbed' \subseteq Lanes
      /\ role' \in {"member", "admin"}
  BY DEF Inv, RowTyped
<1>7. inTeam' = inTeam \/ (call[c].at # "idle" /\ call[c].lane = "seller")
  OBVIOUS
<1>8. \/ inTeam'
      \/ k.at \in {"lookOut", "drop"}
      \/ inTeam' = inTeam /\ call[c].at \notin {"lookOut", "drop"}
  BY <1>2
<1> QED
  BY <1>2, <1>3, <1>4, <1>5, <1>6, <1>7, <1>8, GoSafe

LEMMA MovesSafe ==
    ASSUME Inv, NEW c \in Calls,
           \/ FindRow(c) \/ WriteRole(c) \/ Enrol(c) \/ LookBeforeAdd(c)
           \/ Expel(c) \/ LookBeforeDrop(c) \/ Cut(c)
    PROVE  Inv'
<1>1. /\ call[c] \in Slot /\ WellFormed(call[c]) /\ Founded(call[c])
      /\ call[c].at # "idle" => call[c].lane \in Lanes
  BY DEF Inv, CallsTyped, AllFounded, WellFormed
<1>2. row \in BOOLEAN /\ inTeam \in BOOLEAN /\ role \in {"member", "admin"}
      /\ disturbed \subseteq Lanes /\ call[c].fresh \in BOOLEAN
  BY <1>1 DEF Inv, RowTyped, Slot
<1>3. call = [call EXCEPT ![c].fresh = call[c].fresh]
      /\ \A step : [call EXCEPT ![c].at = step]
                       = [call EXCEPT ![c].at = step, ![c].fresh = call[c].fresh]
  BY <1>1 DEF Inv, CallsTyped, Slot
<1>4. CASE FindRow(c)
  <2>1. /\ call[c].at = "find" /\ call' = [call EXCEPT ![c].at = "invite", ![c].fresh = ~row]
        /\ UNCHANGED laneVars /\ role' = role /\ inTeam' = inTeam /\ disturbed' = disturbed
    BY <1>4 DEF FindRow, At
  <2> QED
    BY <1>2, <2>1, StepSafe
<1>5. CASE WriteRole(c)
  <2>1. /\ call[c].at \in {"promote", "demote"} /\ call' = [call EXCEPT ![c] = Idle]
        /\ role' \in {"member", "admin"} /\ UNCHANGED laneVars /\ inTeam' = inTeam
        /\ disturbed' = disturbed
    BY <1>5 DEF WriteRole, At, Done
  <2>2. call[c].lane = "seller"
    BY <1>1, <2>1 DEF WellFormed
  <2> QED
    BY <1>2, <2>1, <2>2, EndSafe
<1>6. CASE Enrol(c)
  <2>1. /\ call[c].at = "enrol" /\ call' = [call EXCEPT ![c].at = "look"] /\ inTeam'
        /\ inTeam' \in BOOLEAN
        /\ UNCHANGED laneVars /\ role' = role /\ disturbed' = disturbed
    BY <1>6 DEF Enrol, At, Go
  <2>2. call[c].lane = "seller"
    BY <1>1, <2>1 DEF WellFormed
  <2> QED
    BY <1>2, <1>3, <2>1, <2>2, StepSafe
<1>7. CASE LookBeforeAdd(c)
  <2>1. /\ call[c].at = "look"
        /\ UNCHANGED laneVars /\ role' = role /\ inTeam' = inTeam /\ disturbed' = disturbed
        /\ \/ call' = [call EXCEPT ![c].at = "add", ![c].fresh = ~row]
           \/ call' = [call EXCEPT ![c] = Idle]
    BY <1>7 DEF LookBeforeAdd, At, Done
  <2>2. call[c].lane = "seller" /\ (call[c].lane \notin disturbed => inTeam)
    BY <1>1, <2>1 DEF WellFormed, Founded, FoundedIn
  <2>3. CASE call' = [call EXCEPT ![c].at = "add", ![c].fresh = ~row]
    BY <1>2, <2>1, <2>2, <2>3, StepSafe
  <2>4. CASE call' = [call EXCEPT ![c] = Idle]
    BY <1>2, <2>1, <2>4, EndSafe
  <2> QED
    BY <2>1, <2>3, <2>4
<1>8. CASE Expel(c)
  <2>1. /\ call[c].at = "expel" /\ call' = [call EXCEPT ![c].at = "lookOut"]
        /\ inTeam' \in BOOLEAN
        /\ UNCHANGED laneVars /\ role' = role /\ disturbed' = disturbed
    BY <1>8 DEF Expel, At, Go
  <2>2. call[c].lane = "seller"
    BY <1>1, <2>1 DEF WellFormed
  <2> QED
    BY <1>2, <1>3, <2>1, <2>2, StepSafe
<1>9. CASE LookBeforeDrop(c)
  <2>1. /\ call[c].at = "lookOut"
        /\ UNCHANGED laneVars /\ role' = role /\ inTeam' = inTeam /\ disturbed' = disturbed
        /\ \/ call' = [call EXCEPT ![c].at = "drop"]
           \/ call' = [call EXCEPT ![c] = Idle] /\ ~ ByTeam
    BY <1>9 DEF LookBeforeDrop, At, Done, Go, ByTeam
  <2>2. call[c].lane = "seller"
    BY <1>1, <2>1 DEF WellFormed
  <2>3. CASE call' = [call EXCEPT ![c].at = "drop"]
    BY <1>2, <1>3, <2>1, <2>2, <2>3, StepSafe
  <2>4. CASE call' = [call EXCEPT ![c] = Idle] /\ ~ ByTeam
    BY <1>2, <2>1, <2>4, EndSafe
  <2> QED
    BY <2>1, <2>3, <2>4
<1>10. CASE Cut(c)
  <2>1. /\ call[c].at # "idle" /\ call' = [call EXCEPT ![c] = Idle]
        /\ UNCHANGED laneVars /\ role' = role /\ inTeam' = inTeam
        /\ disturbed \subseteq disturbed' /\ disturbed' \subseteq disturbed \union {call[c].lane}
        /\ call[c].at \in {"lookOut", "drop"} => call[c].lane \in disturbed'
    BY <1>10 DEF Cut
  <2>2. call[c].at \in {"lookOut", "drop"} => call[c].lane = "seller"
    BY <1>1 DEF WellFormed
  <2>3. disturbed' \subseteq Lanes
    BY <1>1, <1>2, <2>1
  <2> QED
    BY <1>2, <2>1, <2>2, <2>3, EndSafe
<1> QED
  BY <1>4, <1>5, <1>6, <1>7, <1>8, <1>9, <1>10

LEMMA NextInv == Inv /\ [Next]_vars => Inv'
<1> SUFFICES ASSUME Inv, [Next]_vars PROVE Inv'
  OBVIOUS
<1>1. CASE UNCHANGED vars
  BY <1>1 DEF vars, laneVars, Inv, CallsTyped, RowTyped, Overlap, AllFounded, Founded,
              FoundedIn, AllStanding, Standing, TeamStanding, ByTeam, Invited
<1>2. CASE Next
  BY <1>2, ReadsSafe, SellerReadsSafe, EntersSafe, WritesSafe, MovesSafe DEF Next
<1> QED
  BY <1>1, <1>2

LEMMA InvHolds == Spec => []Inv
BY InitInv, NextInv, PTL DEF Spec

-----------------------------------------------------------------------------
\* The row of a member and every call about it are well formed, a partner's lane naming
\* the catalog it is about, for any number of calls at once, each cut off anywhere.
THEOREM TeamTypeCorrect == Spec => []TypeOK
<1>1. Inv => TypeOK
  BY TypeParts DEF Inv
<1> QED
  BY <1>1, InvHolds, PTL

\* Nobody supplies or serves a catalog that has not asked for his catalog, or agreed to
\* it, since the lane began, nor sells for it unless he was invited once, where no two
\* calls about the lane met: the answers of approveSeller, confirmSupplier and their
\* siblings.
THEOREM MembersAreAgreed == Spec => []CatalogAgreed
<1>1. Inv => CatalogAgreed
  BY DEF Inv, AllStanding, Standing, CatalogAgreed, Partner
<1> QED
  BY <1>1, InvHolds, PTL

\* removeSeller and its siblings recognise a refusal as an invitation's, where no two calls
\* about the lane met; whether an admin's role stands in the way is another matter.
THEOREM RefusalsAreRecognised == Spec => []RefusalIsRecognised
<1>1. Inv => RefusalIsRecognised
  BY DEF Inv, AllStanding, Standing, RefusalIsRecognised, Removable
<1> QED
  BY <1>1, InvHolds, PTL

\* BusinessService.removeMember takes the seller lane with the team membership: who is out
\* of the team does not sell on the strength of it.
THEOREM LeaversAreTakenOff == Spec => []LeaverDoesNotSell
<1>1. Inv => LeaverDoesNotSell
  <2> SUFFICES ASSUME Inv, "seller" \in Lanes, "seller" \notin disturbed, "seller" \notin Busy,
                      ~inTeam, ByTeam
               PROVE  FALSE
    BY DEF LeaverDoesNotSell, ByTeam
  <2>1. PICK c \in Calls : call[c].at \in {"lookOut", "drop"}
    BY DEF Inv, TeamStanding
  <2>2. call[c].lane = "seller"
    BY <2>1 DEF Inv, CallsTyped, WellFormed
  <2> QED
    BY <2>1, <2>2 DEF Busy
<1> QED
  BY <1>1, InvHolds, PTL
=============================================================================
