------------------------------- MODULE SignIn -------------------------------
(***************************************************************************)
(* Accounts and how one is found again: the tables users and               *)
(* user_identities, the guest and OAuth sign-ins of auth/auth.go and the   *)
(* statements of admin/users.go on those tables.                           *)
(*                                                                         *)
(* A step is one SQL statement.  What a transaction has written is in its  *)
(* record until it commits; others meet it only where they have to wait:   *)
(* at the unique key (provider, subject) and at a locked row of users.     *)
(* Token verification is not modelled: a subject is a verified identity.   *)
(***************************************************************************)
EXTENDS Naturals, FiniteSets

CONSTANTS
  Account,  \* ids of users rows; an id is used once
  Subject,  \* verified (provider, subject) pairs
  Caller,   \* goroutines serving handleOAuth
  NoId      \* no id

ASSUME SignInAssumption == NoId \notin Account /\ NoId \notin Subject

VARIABLES
  users,       \* users: "none", "live", "deleted" (deleted_at set), "purged"
  identities,  \* user_identities: the user_id of every subject
  tx,          \* the transaction of each goroutine
  madeFor,     \* history: the subject an OAuth row was inserted for
  returned     \* history: the accounts that sign-ins of a subject returned

signInVars == <<users, identities, tx, madeFor, returned>>

NoTx == [pc |-> "idle", subject |-> NoId, user |-> NoId, new |-> FALSE, locks |-> FALSE]

SignInInit ==
  /\ users      = [u \in Account |-> "none"]
  /\ identities = [s \in Subject |-> NoId]
  /\ tx         = [c \in Caller |-> NoTx]
  /\ madeFor    = [u \in Account |-> NoId]
  /\ returned   = [s \in Subject |-> {}]

----------------------------------------------------------------------------
(* Locks *)

\* Variant: the key is held before the row is written.
HoldsKey_early(c) == tx[c].new

\* An uncommitted row of user_identities holds the key of its subject.
HoldsKey(c) == tx[c].new /\ tx[c].pc \in {"load", "commit"}
KeyFree(c) == \A d \in Caller \ {c} : HoldsKey(d) => tx[d].subject # tx[c].subject

\* An uncommitted UPDATE holds its row of users.
RowFree(u) == \A c \in Caller : tx[c].locks => tx[c].user # u

\* An id nobody has drawn.
Fresh(u) == users[u] = "none" /\ \A c \in Caller : tx[c].user # u

----------------------------------------------------------------------------
(* upsertOAuthUser *)

\* BEGIN and the SELECT of the identity.  With no email, or with the one the
\* row has, there is nothing to update.
SelectIdentity(c, s, differs) ==
  /\ tx[c].pc = "idle"
  /\ tx' = [tx EXCEPT ![c] = [NoTx EXCEPT !.subject = s, !.user = identities[s],
                              !.pc = IF identities[s] = NoId THEN "insertUser"
                                     ELSE IF differs THEN "found" ELSE "load"]]
  /\ UNCHANGED <<users, identities, madeFor, returned>>

\* The UPDATE of the email waits for the holder of the row; it locks the row
\* if the address still differs then.
UpdateEmail(c, changes) ==
  /\ tx[c].pc = "found"
  /\ RowFree(tx[c].user)
  /\ tx' = [tx EXCEPT ![c].pc = "load", ![c].locks = changes]
  /\ UNCHANGED <<users, identities, madeFor, returned>>

InsertUser(c, u) ==
  /\ tx[c].pc = "insertUser"
  /\ Fresh(u)
  /\ tx' = [tx EXCEPT ![c].pc = "insertIdentity", ![c].user = u, ![c].new = TRUE]
  /\ UNCHANGED <<users, identities, madeFor, returned>>

\* Variant: the table has no unique key.
InsertIdentity_noKey(c) ==
  /\ tx[c].pc = "insertIdentity"
  /\ tx' = [tx EXCEPT ![c].pc = "load"]
  /\ UNCHANGED <<users, identities, madeFor, returned>>

\* The INSERT waits for the holder of the key and fails if the key is taken.
InsertIdentity(c) ==
  /\ tx[c].pc = "insertIdentity"
  /\ KeyFree(c)
  /\ tx' = [tx EXCEPT ![c] = IF identities[tx[c].subject] = NoId
                             THEN [@ EXCEPT !.pc = "load"] ELSE NoTx]
  /\ UNCHANGED <<users, identities, madeFor, returned>>

\* The final SELECT sees the transaction's own row; ErrNoRows ends it.
LoadAccount(c) ==
  /\ tx[c].pc = "load"
  /\ tx' = [tx EXCEPT ![c] = IF tx[c].new \/ users[tx[c].user] = "live"
                             THEN [@ EXCEPT !.pc = "commit"] ELSE NoTx]
  /\ UNCHANGED <<users, identities, madeFor, returned>>

\* COMMIT; the answer carries a token for the account.
Commit(c) ==
  LET s == tx[c].subject
      u == tx[c].user
  IN  /\ tx[c].pc = "commit"
      /\ users' = [users EXCEPT ![u] = IF tx[c].new THEN "live" ELSE @]
      /\ identities' = [identities EXCEPT ![s] = IF tx[c].new THEN u ELSE @]
      /\ madeFor' = [madeFor EXCEPT ![u] = IF tx[c].new THEN s ELSE @]
      /\ returned' = [returned EXCEPT ![s] = @ \cup {u}]
      /\ tx' = [tx EXCEPT ![c] = NoTx]

\* Variant: the row of users was committed by its INSERT.
SignInFails_keepsUser(c) ==
  /\ tx[c].pc # "idle"
  /\ tx' = [tx EXCEPT ![c] = NoTx]
  /\ users' = [u \in Account |-> IF tx[c].new /\ u = tx[c].user THEN "live" ELSE users[u]]
  /\ madeFor' = [u \in Account |->
                   IF tx[c].new /\ u = tx[c].user THEN tx[c].subject ELSE madeFor[u]]
  /\ UNCHANGED <<identities, returned>>

\* A statement fails or the caller goes away: everything is rolled back.
SignInFails(c) ==
  /\ tx[c].pc # "idle"
  /\ tx' = [tx EXCEPT ![c] = NoTx]
  /\ UNCHANGED <<users, identities, madeFor, returned>>

----------------------------------------------------------------------------
(* HandleGuest and the administrator's statements *)

GuestSignIn(u) ==
  /\ Fresh(u)
  /\ users' = [users EXCEPT ![u] = "live"]
  /\ UNCHANGED <<identities, tx, madeFor, returned>>

\* deleted_at is set (userSoftDelete, HandleDeleteAccount) or cleared
\* (userRestore).
StampDeleted(u) ==
  /\ users[u] = "live"
  /\ RowFree(u)
  /\ users' = [users EXCEPT ![u] = "deleted"]
  /\ UNCHANGED <<identities, tx, madeFor, returned>>

ClearDeleted(u) ==
  /\ users[u] = "deleted"
  /\ RowFree(u)
  /\ users' = [users EXCEPT ![u] = "live"]
  /\ UNCHANGED <<identities, tx, madeFor, returned>>

\* DELETE FROM users, and the rows of user_identities with it.
PurgeAccount(u) ==
  /\ users[u] \in {"live", "deleted"}
  /\ RowFree(u)
  /\ users' = [users EXCEPT ![u] = "purged"]
  /\ identities' = [s \in Subject |-> IF identities[s] = u THEN NoId ELSE identities[s]]
  /\ UNCHANGED <<tx, madeFor, returned>>

----------------------------------------------------------------------------
SignInStep(c) ==
  \/ \E u \in Account : InsertUser(c, u)
  \/ LoadAccount(c) \/ Commit(c)

\* The statements that may have to wait.
WaitingStep(c) == (\E changes \in BOOLEAN : UpdateEmail(c, changes)) \/ InsertIdentity(c)

SignInNext ==
  \/ \E c \in Caller : \/ \E s \in Subject, differs \in BOOLEAN : SelectIdentity(c, s, differs)
                       \/ SignInStep(c) \/ WaitingStep(c) \/ SignInFails(c)
  \/ \E u \in Account : \/ GuestSignIn(u) \/ StampDeleted(u)
                        \/ ClearDeleted(u) \/ PurgeAccount(u)

SignInSpec == SignInInit /\ [][SignInNext]_signInVars

\* The database goes on with a transaction that need not wait, and serves
\* those that wait for a key or a row in turn.
SignInFairness ==
  \A c \in Caller : /\ WF_signInVars(SignInStep(c))
                    /\ SF_signInVars(WaitingStep(c))

----------------------------------------------------------------------------
(* Properties *)

Tx == [pc : {"idle", "found", "insertUser", "insertIdentity", "load", "commit"},
       subject : Subject \cup {NoId}, user : Account \cup {NoId},
       new : BOOLEAN, locks : BOOLEAN]

SignInTypeOK ==
  /\ users \in [Account -> {"none", "live", "deleted", "purged"}]
  /\ identities \in [Subject -> Account \cup {NoId}]
  /\ tx \in [Caller -> Tx]
  /\ madeFor \in [Account -> Subject \cup {NoId}]
  /\ returned \in [Subject -> SUBSET Account]

\* "a concurrent first-sign-in ... doesn't double-insert": all sign-ins of a
\* provider account that succeed return one account, however they overlap each
\* other, deletions and restores; a second one appears only after a purge.
OneAccountPerSubject ==
  \A s \in Subject : \A u, w \in returned[s] :
    users[u] # "purged" /\ users[w] # "purged" => u = w

\* The loser of two first sign-ins, and any sign-in that fails half-way, leaves
\* nothing behind: an account made for a subject is found by that subject.
NoOrphanAccounts ==
  \A u \in Account :
    users[u] \in {"live", "deleted"} /\ madeFor[u] # NoId => identities[madeFor[u]] = u

\* c cannot go on before d has committed or rolled back.
WaitsFor(c, d) ==
  \/ tx[c].pc = "insertIdentity" /\ HoldsKey(d) /\ tx[d].subject = tx[c].subject
  \/ tx[c].pc = "found" /\ tx[d].locks /\ tx[d].user = tx[c].user

\* No deadlock: a sign-in that waits, for a key of user_identities or for a row
\* of users, waits for one that waits for nobody.
NoWaitChain == \A c, d, e \in Caller : WaitsFor(c, d) => ~ WaitsFor(d, e)

\* Sign-ins that wait for each other's keys and rows all end.  (A behaviour
\* that has used up the ids of the model is left out.)
SignInsEnd ==
  \A c \in Caller :
    tx[c].pc # "idle" ~> tx[c].pc = "idle" \/ ~ \E u \in Account : Fresh(u)
=============================================================================
