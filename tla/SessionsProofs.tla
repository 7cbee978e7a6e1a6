--------------------------- MODULE SessionsProofs ---------------------------
(***************************************************************************)
(* Proofs about Sessions, for any number of calls and reset codes.         *)
(***************************************************************************)
EXTENDS Sessions, FiniteSetTheorems, TLAPS

\* The type invariant of the sessions of an account.
THEOREM SessionsTypeCorrect == Spec => []TypeOK
<1>0. /\ Idle \in [at : Steps, seen : Nat, era : Nat, code : Codes \union {NoCode}]
      /\ Idle.at = "idle"
  BY DEF Idle, Steps
<1>1. Init => TypeOK
  <2> SUFFICES ASSUME Init PROVE TypeOK
    OBVIOUS
  <2>1. call \in [Calls -> [at : Steps, seen : Nat, era : Nat, code : Codes \union {NoCode}]]
    BY <1>0 DEF Init
  <2>2. \A c \in Calls : call[c].at = "idle"
    BY <1>0 DEF Init
  <2> QED
    BY <2>1, <2>2 DEF Init, TypeOK
<1>2. TypeOK /\ [Next]_vars => TypeOK'
  <2> SUFFICES ASSUME TypeOK, [Next]_vars PROVE TypeOK'
    OBVIOUS
  <2> USE <1>0 DEF TypeOK, Steps, At, Go, GoWithRow, Done, histories
  <2>1. ASSUME NEW c \in Calls, ReadRegister(c) \/ CreateAccount(c) PROVE TypeOK'
    <3>1. CASE ReadRegister(c)
      BY <3>1 DEF ReadRegister
    <3>2. CASE CreateAccount(c) /\ registered
      BY <3>2 DEF CreateAccount
    <3>3. CASE CreateAccount(c) /\ ~registered
      BY <3>3 DEF CreateAccount
    <3> QED
      BY <2>1, <3>1, <3>2, <3>3
  <2>2. ASSUME NEW c \in Calls, ReadLogin(c) \/ ReadRow(c) PROVE TypeOK'
    BY <2>2 DEF ReadLogin, ReadRow
  <2>3. ASSUME NEW c \in Calls, Sign(c) PROVE TypeOK'
    BY <2>3 DEF Sign
  <2>4. ASSUME NEW c \in Calls, NEW handler \in {"logout", "change"}, Authenticate(c, handler)
        PROVE TypeOK'
    BY <2>4 DEF Authenticate
  <2>5. ASSUME NEW c \in Calls, WriteLogout(c) \/ WriteChange(c) PROVE TypeOK'
    <3>1. CASE WriteLogout(c)
      BY <3>1 DEF WriteLogout, EndSessions
    <3>2. CASE WriteChange(c)
      <4>1. call[c].seen + 1 \in Nat /\ era + 1 \in Nat
        OBVIOUS
      <4> QED
        BY <3>2, <4>1 DEF WriteChange, EndSessions
    <3> QED
      BY <2>5, <3>1, <3>2
  <2>6. ASSUME NEW c \in Calls, NEW k \in Codes, ReadReset(c, k) PROVE TypeOK'
    BY <2>6 DEF ReadReset
  <2>7. ASSUME NEW c \in Calls, FindCode(c) \/ Purge(c) \/ Cut(c) PROVE TypeOK'
    <3>1. CASE FindCode(c)
      BY <3>1 DEF FindCode
    <3>2. CASE Purge(c) \/ Cut(c)
      BY <3>2 DEF Purge, Cut
    <3> QED
      BY <2>7, <3>1, <3>2
  <2>8. ASSUME NEW c \in Calls, SetPassword(c) PROVE TypeOK'
    <3>1. CASE codes[call[c].code] = "deleted"
      BY <2>8, <3>1 DEF SetPassword
    <3>2. CASE codes[call[c].code] # "deleted"
      BY <2>8, <3>2 DEF SetPassword, EndSessions
    <3> QED
      BY <3>1, <3>2
  <2>9. ASSUME NEW k \in Codes, SendCode(k) \/ Expire(k) PROVE TypeOK'
    BY <2>9 DEF SendCode, Expire
  <2>10. CASE UNCHANGED vars
    BY <2>10 DEF vars
  <2> QED
    BY <2>1, <2>2, <2>3, <2>4, <2>5, <2>6, <2>7, <2>8, <2>9, <2>10 DEF Next
<1> QED
  BY <1>1, <1>2, PTL DEF Spec

-----------------------------------------------------------------------------
(* Sessions *)

\* While no version was lost, the row's version counts the times all sessions were to
\* end, and so does the version in every token and in the hands of every call that signs.
VersionCounts ==
    /\ \A c \in Calls : call[c].at \in {"sign", "logout", "end", "change", "write"} => registered
    /\ tokens # {} => registered
    /\ ~raced => /\ version = era
                 /\ \A t \in tokens : t.tv = t.era
                 /\ \A c \in Calls : call[c].at = "sign" => call[c].seen = call[c].era

LEMMA VersionStep == TypeOK /\ VersionCounts /\ [Next]_vars => VersionCounts'
<1> SUFFICES ASSUME TypeOK, VersionCounts, [Next]_vars PROVE VersionCounts'
  OBVIOUS
<1> USE DEF TypeOK, VersionCounts, Idle, At, Go, GoWithRow, Done, histories
<1>1. ASSUME NEW c \in Calls, ReadRegister(c) \/ CreateAccount(c) PROVE VersionCounts'
  BY <1>1 DEF ReadRegister, CreateAccount
<1>2. ASSUME NEW c \in Calls, ReadLogin(c) \/ ReadRow(c) PROVE VersionCounts'
  BY <1>2 DEF ReadLogin, ReadRow
<1>3. ASSUME NEW c \in Calls, Sign(c) PROVE VersionCounts'
  BY <1>3 DEF Sign
<1>4. ASSUME NEW c \in Calls, NEW handler \in {"logout", "change"}, Authenticate(c, handler)
      PROVE VersionCounts'
  BY <1>4 DEF Authenticate, Accepted
<1>5. ASSUME NEW c \in Calls, WriteLogout(c) PROVE VersionCounts'
  BY <1>5 DEF WriteLogout, EndSessions
<1>6. ASSUME NEW c \in Calls, WriteChange(c) PROVE VersionCounts'
  BY <1>6 DEF WriteChange, EndSessions
<1>7. ASSUME NEW c \in Calls, NEW k \in Codes, ReadReset(c, k) PROVE VersionCounts'
  BY <1>7 DEF ReadReset
<1>8. ASSUME NEW c \in Calls, FindCode(c) \/ Purge(c) \/ Cut(c) PROVE VersionCounts'
  <2>1. CASE FindCode(c)
    BY <2>1 DEF FindCode
  <2>2. CASE Purge(c)
    BY <2>2 DEF Purge
  <2>3. CASE Cut(c)
    BY <2>3 DEF Cut
  <2> QED
    BY <1>8, <2>1, <2>2, <2>3
<1>9. ASSUME NEW c \in Calls, SetPassword(c) PROVE VersionCounts'
  <2>1. CASE codes[call[c].code] = "deleted"
    BY <1>9, <2>1 DEF SetPassword
  <2>2. CASE codes[call[c].code] # "deleted"
    <3>1. /\ version' = call[c].seen + 1 /\ era' = era + 1
          /\ raced' = (raced \/ call[c].seen # version)
          /\ UNCHANGED <<tokens, registered>>
      BY <1>9, <2>2 DEF SetPassword, EndSessions
    <3>2. Go(c, "purge")
      BY <1>9, <2>2 DEF SetPassword
    <3>3. /\ \A d \in Calls : d # c => call'[d] = call[d]
          /\ call'[c].at = "purge"
      BY <3>2
    <3> QED
      BY <3>1, <3>3
  <2> QED
    BY <2>1, <2>2
<1>10. ASSUME NEW k \in Codes, SendCode(k) \/ Expire(k) PROVE VersionCounts'
  BY <1>10 DEF SendCode, Expire
<1>11. CASE UNCHANGED vars
  BY <1>11 DEF vars
<1> QED
  BY <1>1, <1>2, <1>3, <1>4, <1>5, <1>6, <1>7, <1>8, <1>9, <1>10, <1>11 DEF Next

\* The inductive invariant of the sessions.
LEMMA VersionHolds == Spec => [](TypeOK /\ VersionCounts)
<1>1. Init => VersionCounts
  BY DEF Init, VersionCounts, Idle
<1> QED
  BY <1>1, VersionStep, SessionsTypeCorrect, PTL DEF Spec

\* logout, changePassword and verifyCodeAndSetPassword end every session that began
\* before, for any number of calls at once, unless one of them wrote over a version it
\* had not read.
THEOREM SessionsAreEnded == Spec => []SessionsEnd
<1>1. TypeOK /\ VersionCounts => SessionsEnd
  BY DEF TypeOK, VersionCounts, SessionsEnd, Accepted
<1> QED
  BY <1>1, VersionHolds, PTL

\* They end no session that begins after them, the token changePassword answers with
\* among these.
THEOREM SessionsAreKept == Spec => []SessionsLast
<1>1. TypeOK /\ VersionCounts => SessionsLast
  BY DEF TypeOK, VersionCounts, SessionsLast, Accepted
<1> QED
  BY <1>1, VersionHolds, PTL

\* A call that writes a version still holds the one that is there.
RowsFresh ==
    /\ \A c \in Calls : call[c].at \in {"end", "write", "find", "reset"} => call[c].seen = version
    /\ ~raced

\* With one call at a time nothing is written between a call's read of the row and its
\* write.
LEMMA FreshStep ==
    ASSUME \A c, d \in Calls : c = d
    PROVE  TypeOK /\ RowsFresh /\ [Next]_vars => RowsFresh'
<1> SUFFICES ASSUME TypeOK, RowsFresh, [Next]_vars PROVE RowsFresh'
  OBVIOUS
<1> USE DEF TypeOK, RowsFresh, Idle, At, Go, GoWithRow, Done, EndSessions, histories
<1>1. ASSUME NEW c \in Calls, ReadRegister(c) \/ CreateAccount(c) \/ ReadLogin(c) \/ ReadRow(c)
      PROVE RowsFresh'
  BY <1>1 DEF ReadRegister, CreateAccount, ReadLogin, ReadRow
<1>2. ASSUME NEW c \in Calls, NEW handler \in {"logout", "change"}, Authenticate(c, handler)
      PROVE RowsFresh'
  BY <1>2 DEF Authenticate
<1>3. ASSUME NEW c \in Calls, WriteLogout(c) \/ WriteChange(c) PROVE RowsFresh'
  BY <1>3 DEF WriteLogout, WriteChange
<1>4. ASSUME NEW c \in Calls, NEW k \in Codes, ReadReset(c, k) PROVE RowsFresh'
  BY <1>4 DEF ReadReset
<1>5. ASSUME NEW c \in Calls, FindCode(c) PROVE RowsFresh'
  BY <1>5 DEF FindCode
<1>6. ASSUME NEW c \in Calls, SetPassword(c) PROVE RowsFresh'
  BY <1>6 DEF SetPassword
<1>7. ASSUME NEW c \in Calls, Sign(c) \/ Purge(c) \/ Cut(c) PROVE RowsFresh'
  BY <1>7 DEF Sign, Purge, Cut
<1>8. ASSUME NEW k \in Codes, SendCode(k) \/ Expire(k) PROVE RowsFresh'
  BY <1>8 DEF SendCode, Expire
<1>9. CASE UNCHANGED vars
  BY <1>9 DEF vars
<1> QED
  BY <1>1, <1>2, <1>3, <1>4, <1>5, <1>6, <1>7, <1>8, <1>9 DEF Next

\* The exception of SessionsEnd and SessionsLast takes two calls at once: where logout,
\* changePassword, verifyCodeAndSetPassword and the logins of an account follow one
\* another, through errors and crashes, the sessions that are accepted are exactly those
\* that began since the last of them.
THEOREM OneCallEndsSessions ==
    ASSUME \A c, d \in Calls : c = d
    PROVE  Spec => [](\A t \in tokens : Accepted(t) <=> t.era = era)
<1>1. Init => RowsFresh
  BY DEF Init, RowsFresh, Idle
<1>2. TypeOK /\ RowsFresh /\ [Next]_vars => RowsFresh'
  BY FreshStep
<1>3. RowsFresh /\ SessionsEnd /\ SessionsLast => \A t \in tokens : Accepted(t) <=> t.era = era
  BY DEF RowsFresh, SessionsEnd, SessionsLast
<1> QED
  BY <1>1, <1>2, <1>3, SessionsTypeCorrect, SessionsAreEnded, SessionsAreKept, PTL DEF Spec

-----------------------------------------------------------------------------
(* Reset codes *)

Holding(k) == {c \in Calls : call[c].at = "reset" /\ call[c].code = k}

\* A code is open until it sets the password; afterwards only the calls that had found it
\* are left to do so.
CodeCounts ==
    \A k \in Codes : /\ codes[k] \in {"unsent", "open"} => uses[k] = 0
                     /\ uses[k] + Cardinality(Holding(k)) <= Cardinality(Calls)

LEMMA HoldingFinite ==
    ASSUME IsFiniteSet(Calls), NEW S \in SUBSET Calls
    PROVE  /\ IsFiniteSet(S) /\ Cardinality(S) \in Nat /\ Cardinality(Calls) \in Nat
           /\ Cardinality(S) <= Cardinality(Calls)
  BY FS_Subset, FS_CardinalityType

LEMMA CodeStep ==
    ASSUME IsFiniteSet(Calls), TypeOK, CodeCounts, [Next]_vars, NEW k \in Codes
    PROVE  /\ codes'[k] \in {"unsent", "open"} => uses'[k] = 0
           /\ uses'[k] + Cardinality(Holding(k)') <= Cardinality(Calls)
<1> DEFINE Goal == /\ codes'[k] \in {"unsent", "open"} => uses'[k] = 0
                   /\ uses'[k] + Cardinality(Holding(k)') <= Cardinality(Calls)
<1>0. /\ Holding(k) \subseteq Calls /\ Holding(k)' \subseteq Calls
      /\ uses[k] \in Nat
      /\ codes[k] \in {"unsent", "open"} => uses[k] = 0
      /\ uses[k] + Cardinality(Holding(k)) <= Cardinality(Calls)
  BY DEF TypeOK, CodeCounts, Holding
<1>1. ASSUME uses'[k] = uses[k], codes'[k] \in {"unsent", "open"} => codes[k] \in {"unsent", "open"},
             Holding(k)' \subseteq Holding(k)
      PROVE  Goal
  <2>1. Cardinality(Holding(k)') <= Cardinality(Holding(k))
    BY <1>0, <1>1, HoldingFinite, FS_Subset
  <2> QED
    BY <1>0, <1>1, <2>1, HoldingFinite
<1>2. CASE \E c \in Calls : \/ ReadRegister(c) \/ CreateAccount(c) \/ ReadLogin(c) \/ Sign(c)
                            \/ (\E handler \in {"logout", "change"} : Authenticate(c, handler))
                            \/ ReadRow(c) \/ WriteLogout(c) \/ WriteChange(c)
                            \/ (\E j \in Codes : ReadReset(c, j)) \/ Cut(c)
  <2>1. codes' = codes /\ uses' = uses
    BY <1>2 DEF ReadRegister, CreateAccount, ReadLogin, Sign, Authenticate, ReadRow, WriteLogout,
                WriteChange, ReadReset, Cut, histories
  <2>2. PICK c \in Calls : /\ call'[c].at # "reset"
                           /\ \A d \in Calls : d # c => call'[d] = call[d]
    BY <1>2 DEF ReadRegister, CreateAccount, ReadLogin, Sign, Authenticate, ReadRow, WriteLogout,
                WriteChange, ReadReset, Cut, At, Go, GoWithRow, Done, Idle, TypeOK
  <2> QED
    BY <1>1, <2>1, <2>2 DEF Holding
<1>3. ASSUME NEW c \in Calls, FindCode(c) PROVE Goal
  <2>1. /\ codes' = codes /\ uses' = uses
        /\ \A d \in Calls : d # c => call'[d] = call[d]
        /\ call'[c].at = "reset" => call'[c].code = call[c].code /\ codes[call[c].code] = "open"
    BY <1>3 DEF FindCode, At, Go, Done, Idle, TypeOK, histories
  <2>2. CASE call'[c].at = "reset" /\ call[c].code = k
    BY <1>0, <2>1, <2>2, HoldingFinite
  <2>3. CASE ~ (call'[c].at = "reset" /\ call[c].code = k)
    BY <1>1, <2>1, <2>3 DEF Holding
  <2> QED
    BY <2>2, <2>3
<1>4. ASSUME NEW c \in Calls, SetPassword(c) PROVE Goal
  <2>1. /\ call[c].at = "reset" /\ call'[c].at # "reset" /\ call[c].code \in Codes
        /\ \A d \in Calls : d # c => call'[d] = call[d]
    BY <1>4 DEF SetPassword, At, Go, Done, Idle, TypeOK
  <2>2. Holding(k)' = Holding(k) \ {c}
    BY <2>1 DEF Holding
  <2>3. CASE codes[call[c].code] = "deleted" \/ call[c].code # k
    <3>1. uses'[k] = uses[k] /\ codes'[k] = codes[k]
      BY <1>4, <2>3 DEF SetPassword, At, TypeOK, histories
    <3> QED
      BY <1>1, <2>2, <3>1
  <2>4. CASE codes[call[c].code] # "deleted" /\ call[c].code = k
    <3>1. uses'[k] = uses[k] + 1 /\ codes'[k] = "used"
      BY <1>4, <2>4 DEF SetPassword, At, TypeOK
    <3>2. Cardinality(Holding(k)') = Cardinality(Holding(k)) - 1
      <4>1. c \in Holding(k)
        BY <2>1, <2>4 DEF Holding
      <4> QED
        BY <1>0, <2>2, <4>1, HoldingFinite, FS_RemoveElement
    <3> QED
      BY <1>0, <3>1, <3>2, HoldingFinite
  <2> QED
    BY <2>3, <2>4
<1>5. ASSUME NEW c \in Calls, Purge(c) PROVE Goal
  <2>1. /\ uses' = uses /\ codes'[k] \in {codes[k], "deleted"} /\ call'[c].at # "reset"
        /\ \A d \in Calls : d # c => call'[d] = call[d]
    BY <1>5 DEF Purge, Done, Idle, TypeOK, histories
  <2> QED
    BY <1>1, <2>1 DEF Holding
<1>6. CASE (\E j \in Codes : SendCode(j) \/ Expire(j)) \/ UNCHANGED vars
  <2>1. /\ uses' = uses /\ call' = call
        /\ codes'[k] \in {"unsent", "open"} => codes[k] \in {"unsent", "open"}
    BY <1>6 DEF SendCode, Expire, vars, histories, TypeOK
  <2> QED
    BY <1>1, <2>1 DEF Holding
<1> QED
  BY <1>2, <1>3, <1>4, <1>5, <1>6 DEF Next

\* verifyCodeAndSetPassword spends a code once for each call that found it at the same
\* time and no more, whatever fails and whatever is purged in between.
THEOREM CodesAreSpent ==
    ASSUME IsFiniteSet(Calls)
    PROVE  Spec => []CodeIsSpent
<1>1. Init => CodeCounts
  <2> SUFFICES ASSUME Init, NEW k \in Codes
               PROVE  uses[k] = 0 /\ uses[k] + Cardinality(Holding(k)) <= Cardinality(Calls)
    BY DEF CodeCounts
  <2>1. uses[k] = 0 /\ Holding(k) \subseteq Calls
    BY DEF Init, Holding
  <2> QED
    BY <2>1, HoldingFinite
<1>2. TypeOK /\ CodeCounts /\ [Next]_vars => CodeCounts'
  BY CodeStep DEF CodeCounts
<1>3. TypeOK /\ CodeCounts => CodeIsSpent
  <2> SUFFICES ASSUME TypeOK, CodeCounts, NEW k \in Codes
               PROVE  uses[k] <= Cardinality(Calls)
    BY DEF CodeIsSpent
  <2>1. Holding(k) \subseteq Calls /\ uses[k] \in Nat
    BY DEF Holding, TypeOK
  <2> QED
    BY <2>1, HoldingFinite DEF CodeCounts
<1> QED
  BY <1>1, <1>2, <1>3, SessionsTypeCorrect, PTL DEF Spec
=============================================================================
