------------------------------ MODULE Sessions ------------------------------
(***************************************************************************)
(* The sessions of one account.  Tokens never expire; each carries the     *)
(* tokenVersion its user row had, and JwtStrategy accepts it as long as    *)
(* the row still has that version.  Logging out, changing the password and *)
(* resetting it with a code write a new version, and so end every session. *)
(* Each computes it from a version it read some awaits earlier (hashing a  *)
(* password is one of them), and a code is looked up before it is spent.   *)
(*                                                                         *)
(* Which password is given is left out: a wrong one ends the call where it *)
(* is compared.  A row from before tokenVersion was introduced reads as 0. *)
(***************************************************************************)
EXTENDS Naturals, FiniteSets

CONSTANTS
    Calls,    \* slots for concurrent calls
    Codes,    \* rows of verificationCode
    NoCode,
    MaxEra    \* bound: calls that end sessions begin only before that many did

ASSUME CodesAssumption == NoCode \notin Codes
ASSUME BoundAssumption == MaxEra \in Nat

VARIABLES
    registered,  \* is there a row with this phone?
    version,     \* its tokenVersion
    codes,       \* what became of each reset code
    expired,     \* codes whose five minutes are over
    tokens,      \* the tokens handed out
    call,        \* where the call in each slot stands
    era,         \* history: how often all sessions were to end
    uses,        \* history: how often each code set the password
    raced        \* history: was a version written that had been read too early?

histories == <<era, uses, raced>>
vars == <<registered, version, codes, expired, tokens, call, histories>>

Steps == {"idle", "create", "sign", "logout", "end", "change", "write", "find", "reset", "purge"}

Idle == [at |-> "idle", seen |-> 0, era |-> 0, code |-> NoCode]

TypeOK ==
    /\ registered \in BOOLEAN
    /\ version \in Nat
    /\ codes \in [Codes -> {"unsent", "open", "used", "deleted"}]
    /\ expired \subseteq Codes
    /\ tokens \subseteq [tv : Nat, era : Nat]
    /\ call \in [Calls -> [at : Steps, seen : Nat, era : Nat, code : Codes \union {NoCode}]]
    /\ \A c \in Calls : call[c].at \in {"find", "reset"} => call[c].code \in Codes
    /\ era \in Nat
    /\ uses \in [Codes -> Nat]
    /\ raced \in BOOLEAN

Init ==
    /\ registered = FALSE
    /\ version = 0
    /\ codes = [k \in Codes |-> "unsent"]
    /\ expired = {}
    /\ tokens = {}
    /\ call = [c \in Calls |-> Idle]
    /\ era = 0
    /\ uses = [k \in Codes |-> 0]
    /\ raced = FALSE

-----------------------------------------------------------------------------

At(c, step) == call[c].at = step

Go(c, step) == call' = [call EXCEPT ![c].at = step]

\* The call goes on to the step with the row it has just read.
GoWithRow(c, step) ==
    call' = [call EXCEPT ![c].at = step, ![c].seen = version, ![c].era = era]

Done(c) == call' = [call EXCEPT ![c] = Idle]

\* Accepted by JwtStrategy.validate.
Accepted(t) == registered /\ t.tv = version

\* The version written is one more than the one that was read.
EndSessions(c) ==
    /\ version' = call[c].seen + 1
    /\ era' = era + 1
    /\ raced' = (raced \/ call[c].seen # version)

-----------------------------------------------------------------------------
(* Sessions begin *)

\* register finds no row with the phone ...
ReadRegister(c) ==
    /\ At(c, "idle") /\ ~registered
    /\ Go(c, "create")
    /\ UNCHANGED <<registered, version, codes, expired, tokens, histories>>

\* ... and creates it; the phone is unique, so of two calls one throws.
CreateAccount(c) ==
    /\ At(c, "create")
    /\ registered' = TRUE
    /\ IF registered THEN Done(c) ELSE GoWithRow(c, "sign")
    /\ UNCHANGED <<version, codes, expired, tokens, histories>>

\* login reads the row, with its version, and compares the password.
ReadLogin(c) ==
    /\ At(c, "idle") /\ registered
    /\ GoWithRow(c, "sign")
    /\ UNCHANGED <<registered, version, codes, expired, tokens, histories>>

\* The token is signed, last, with the version the call has in hand.
Sign(c) ==
    /\ At(c, "sign")
    /\ tokens' = tokens \union {[tv |-> call[c].seen, era |-> call[c].era]}
    /\ Done(c)
    /\ UNCHANGED <<registered, version, codes, expired, histories>>

-----------------------------------------------------------------------------
(* Sessions end *)

\* JwtAuthGuard lets a call of logout or changePassword through.
Authenticate(c, handler) ==
    /\ At(c, "idle") /\ era < MaxEra
    /\ \E t \in tokens : Accepted(t)
    /\ Go(c, handler)
    /\ UNCHANGED <<registered, version, codes, expired, tokens, histories>>

\* logout reads the version, changePassword the row with it.
ReadRow(c) ==
    /\ \/ At(c, "logout") /\ GoWithRow(c, "end")
       \/ At(c, "change") /\ GoWithRow(c, "write")
    /\ UNCHANGED <<registered, version, codes, expired, tokens, histories>>

\* Mutant: the version is incremented in the database, which does nothing where the row
\* has none.
LogoutOfNothing(c) ==
    /\ At(c, "end")
    /\ era' = era + 1
    /\ Done(c)
    /\ UNCHANGED <<registered, version, codes, expired, tokens, uses, raced>>

WriteLogout(c) ==
    /\ At(c, "end")
    /\ EndSessions(c)
    /\ Done(c)
    /\ UNCHANGED <<registered, codes, expired, tokens, uses>>

\* Mutant: the token that is answered carries the version from before.
ChangeAndKeepToken(c) ==
    /\ At(c, "write")
    /\ EndSessions(c)
    /\ call' = [call EXCEPT ![c].at = "sign", ![c].era = era + 1]
    /\ UNCHANGED <<registered, codes, expired, tokens, uses>>

\* changePassword ends all sessions, and answers with a token of the new version.
WriteChange(c) ==
    /\ At(c, "write")
    /\ EndSessions(c)
    /\ call' = [call EXCEPT ![c].at = "sign", ![c].seen = @ + 1, ![c].era = era + 1]
    /\ UNCHANGED <<registered, codes, expired, tokens, uses>>

-----------------------------------------------------------------------------
(* A forgotten password *)

\* requestVerificationCode.
SendCode(k) ==
    /\ registered /\ codes[k] = "unsent"
    /\ codes' = [codes EXCEPT ![k] = "open"]
    /\ UNCHANGED <<registered, version, expired, tokens, call, histories>>

\* Five minutes have passed.
Expire(k) ==
    /\ codes[k] # "unsent" /\ k \notin expired
    /\ expired' = expired \union {k}
    /\ UNCHANGED <<registered, version, codes, tokens, call, histories>>

\* verifyCodeAndSetPassword reads the row ...
ReadReset(c, k) ==
    /\ At(c, "idle") /\ era < MaxEra /\ registered
    /\ call' = [call EXCEPT ![c] = [at |-> "find", seen |-> version, era |-> era, code |-> k]]
    /\ UNCHANGED <<registered, version, codes, expired, tokens, histories>>

\* ... then looks for the code, which must be neither used nor too old.
FindCode(c) ==
    LET k == call[c].code IN
    /\ At(c, "find")
    /\ IF codes[k] = "open" /\ k \notin expired THEN Go(c, "reset") ELSE Done(c)
    /\ UNCHANGED <<registered, version, codes, expired, tokens, histories>>

\* Mutant: the transaction leaves the code as it is.
SetPasswordOnly(c) ==
    LET k == call[c].code IN
    /\ At(c, "reset")
    /\ EndSessions(c)
    /\ uses' = [uses EXCEPT ![k] = @ + 1]
    /\ Go(c, "purge")
    /\ UNCHANGED <<registered, codes, expired, tokens>>

\* One transaction writes the password and marks the code, by its id; it fails when the
\* code has been deleted.
SetPassword(c) ==
    LET k == call[c].code IN
    /\ At(c, "reset")
    /\ IF codes[k] = "deleted"
       THEN Done(c) /\ UNCHANGED <<version, codes, histories>>
       ELSE /\ EndSessions(c)
            /\ codes' = [codes EXCEPT ![k] = "used"]
            /\ uses' = [uses EXCEPT ![k] = @ + 1]
            /\ Go(c, "purge")
    /\ UNCHANGED <<registered, expired, tokens>>

\* Whoever has reset the password deletes the codes that are too old, used or not.
Purge(c) ==
    /\ At(c, "purge")
    /\ codes' = [k \in Codes |-> IF k \in expired THEN "deleted" ELSE codes[k]]
    /\ Done(c)
    /\ UNCHANGED <<registered, version, expired, tokens, histories>>

\* A write throws, or the process ends.
Cut(c) ==
    /\ ~ At(c, "idle")
    /\ Done(c)
    /\ UNCHANGED <<registered, version, codes, expired, tokens, histories>>

Next ==
    \/ \E c \in Calls :
          \/ ReadRegister(c)
          \/ CreateAccount(c)
          \/ ReadLogin(c)
          \/ Sign(c)
          \/ \E handler \in {"logout", "change"} : Authenticate(c, handler)
          \/ ReadRow(c)
          \/ WriteLogout(c)
          \/ WriteChange(c)
          \/ \E k \in Codes : ReadReset(c, k)
          \/ FindCode(c)
          \/ SetPassword(c)
          \/ Purge(c)
          \/ Cut(c)
    \/ \E k \in Codes : SendCode(k) \/ Expire(k)

Spec == Init /\ [][Next]_vars

-----------------------------------------------------------------------------
(* Properties *)

\* A session that began before the last logout, change or reset of the password is over,
\* also for a login that was under way, unless a version was written over one that had
\* been written since it was read.
SessionsEnd == ~raced => \A t \in tokens : Accepted(t) => t.era = era

\* And no other is: who has logged in, or changed his password, since the last of them
\* stays logged in, with the same exception.
SessionsLast == ~raced => \A t \in tokens : t.era = era => Accepted(t)

\* A code sets the password once for each call that found it unused at the same time, and
\* no more: once, where calls follow one another, through errors, expiry and deletion.
CodeIsSpent == \A k \in Codes : uses[k] <= Cardinality(Calls)
=============================================================================
