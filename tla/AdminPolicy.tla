------------------------------ MODULE AdminPolicy ------------------------------
(***************************************************************************)
(* Accounts and what they sign in with: UpdateAdminUser, the logins, API   *)
(* keys and their rotation, and the import of legacy users, all of which   *)
(* share the tables users, sessions and api_keys.                          *)
(*                                                                         *)
(* UpdateAdminUser and RotateAPIKey are transactions at READ COMMITTED;    *)
(* each of their statements is an action, and what they write is visible   *)
(* to others when they commit.  The locks PostgreSQL takes for them follow *)
(* from how far a transaction has come.  Every other statement commits by  *)
(* itself; a handler of several statements is interleaved between them.    *)
(***************************************************************************)
EXTENDS Naturals, FiniteSets

CONSTANTS
  Users,         \* rows of users, also the ones not yet there
  Root,          \* the administrator of BootstrapAdmin, with a local password
  OidcUsers,     \* users known to the identity provider
  LegacyUsers,   \* users that importUsers finds by name in the legacy system
  Tokens,        \* session tokens
  Keys,          \* ids of API keys
  Calls,         \* handlers under way
  NoUser, NoKey  \* null values

ASSUME UsersAssumption == IsFiniteSet(Users) /\ Root \in Users /\ NoUser \notin Users
ASSUME KeysAssumption == NoKey \notin Keys
ASSUME KnownUsersAssumption == OidcUsers \subseteq Users /\ LegacyUsers \subseteq Users

VARIABLES
  role,       \* users.role
  status,     \* users.status, NONE for no row
  sessions,   \* the user of each token, NoUser for no row
  keys,       \* api_keys: owner (NoUser for no row), live (not revoked), rotated_from
  calls,      \* what each handler is about to do
  outside     \* history: a login or an import has taken an administrator away

database == <<role, status, sessions, keys>>
vars == <<role, status, sessions, keys, calls, outside>>

-----------------------------------------------------------------------------

Roles == {"USER", "ADMIN"}
Statuses == {"ACTIVE", "DISABLED"}

\* pc is the next statement, actor the signed-in user, user the one concerned;
\* role and status are the new ones, tokens and keys the rows deleted and
\* revoked so far by a transaction that has not committed.
Idle == [pc |-> "idle", actor |-> NoUser, user |-> NoUser, role |-> "USER",
         status |-> "ACTIVE", key |-> NoKey, tokens |-> {}, keys |-> {}]

NoRow == [owner |-> NoUser, live |-> FALSE, from |-> NoKey]

At(c, pc) == calls[c].pc = pc
Goto(c, pc) == calls' = [calls EXCEPT ![c].pc = pc]
Return(c) == calls' = [calls EXCEPT ![c] = Idle]

Administrators == {u \in Users : role[u] = "ADMIN" /\ status[u] = "ACTIVE"}

SessionsOf(u) == {t \in Tokens : sessions[t] = u}
KeysOf(u) == {k \in Keys : keys[k].owner = u}
LiveKeysOf(u) == {k \in KeysOf(u) : keys[k].live}

\* SessionUser and APIKeyUser.
SignedIn(u) == status[u] = "ACTIVE" /\ SessionsOf(u) # {}
Authorized(u) == status[u] = "ACTIVE" /\ (SessionsOf(u) # {} \/ LiveKeysOf(u) # {})

-----------------------------------------------------------------------------
(* Locks                                                                   *)

\* pg_advisory_xact_lock(hashtext('kanvas_admin_role_policy'))
HoldsPolicy(c) == calls[c].pc \in {"read", "count", "delete", "revoke", "commit"}

\* Mutant: the row is read without FOR UPDATE, and locked by its UPDATE only,
\* in a mode that lets rows refer to it.
HoldsRowNoKey(c, u) == FALSE

\* SELECT ... FOR UPDATE excludes writers of the row and the foreign keys of
\* new sessions and keys.
HoldsRow(c, u) == calls[c].user = u /\ calls[c].pc \in {"count", "delete", "revoke", "commit"}

\* Revoked by a transaction that has not committed.
HoldsKey(c, k) ==
  \/ At(c, "successor") /\ calls[c].key = k
  \/ k \in calls[c].keys

PolicyFree == \A c \in Calls : ~HoldsPolicy(c)
RowFree(u) == \A c \in Calls : ~HoldsRow(c, u)
KeyFree(k) == \A c \in Calls : ~HoldsKey(c, k)

-----------------------------------------------------------------------------
(* PATCH /admin/users/{id}: UpdateAdminUser                                *)

\* An administrator's session; API keys are refused.
AdminRequest(c, a, u, r, s) ==
  /\ At(c, "idle")
  /\ SignedIn(a) /\ role[a] = "ADMIN"
  /\ calls' = [calls EXCEPT ![c] =
       [Idle EXCEPT !.pc = "policy", !.actor = a, !.user = u, !.role = r, !.status = s]]
  /\ UNCHANGED <<database, outside>>

\* Mutant: the policy changes are not serialized.
LockPolicyNot(c) ==
  /\ At(c, "policy")
  /\ Goto(c, "read")
  /\ UNCHANGED <<database, outside>>

LockPolicy(c) ==
  /\ At(c, "policy")
  /\ PolicyFree
  /\ Goto(c, "read")
  /\ UNCHANGED <<database, outside>>

\* The row is locked; nobody disables his own account.
ReadUser(c) ==
  /\ At(c, "read")
  /\ RowFree(calls[c].user)
  /\ IF \/ status[calls[c].user] = "NONE"
        \/ calls[c].actor = calls[c].user /\ calls[c].status = "DISABLED"
       THEN Return(c)
       ELSE Goto(c, "count")
  /\ UNCHANGED <<database, outside>>

RemovesAdministrator(c) == calls[c].role # "ADMIN" \/ calls[c].status # "ACTIVE"

\* The last active administrator stays; otherwise UPDATE users, which nobody
\* sees before the commit.
CountAdmins(c) ==
  /\ At(c, "count")
  /\ IF /\ calls[c].user \in Administrators /\ RemovesAdministrator(c)
        /\ Cardinality(Administrators) <= 1
       THEN Return(c)
       ELSE Goto(c, IF calls[c].status = "DISABLED" THEN "delete" ELSE "commit")
  /\ UNCHANGED <<database, outside>>

DeleteSessions(c) ==
  /\ At(c, "delete")
  /\ calls' = [calls EXCEPT ![c].pc = "revoke", ![c].tokens = SessionsOf(calls[c].user)]
  /\ UNCHANGED <<database, outside>>

\* Waits for a rotation or revocation of one of the keys.
RevokeKeys(c) ==
  /\ At(c, "revoke")
  /\ \A k \in KeysOf(calls[c].user) : KeyFree(k)
  /\ calls' = [calls EXCEPT ![c].pc = "commit", ![c].keys = KeysOf(calls[c].user)]
  /\ UNCHANGED <<database, outside>>

Commit(c) ==
  /\ At(c, "commit")
  /\ role' = [role EXCEPT ![calls[c].user] = calls[c].role]
  /\ status' = [status EXCEPT ![calls[c].user] = calls[c].status]
  /\ sessions' = [t \in Tokens |-> IF t \in calls[c].tokens THEN NoUser ELSE sessions[t]]
  /\ keys' = [k \in Keys |->
                IF k \in calls[c].keys THEN [keys[k] EXCEPT !.live = FALSE] ELSE keys[k]]
  /\ Return(c)
  /\ UNCHANGED outside

-----------------------------------------------------------------------------
(* Logins                                                                  *)

\* Mutant: the user that the upsert returns is not read.
BeginSessionUnread(c, u) ==
  calls' = [calls EXCEPT ![c] = [Idle EXCEPT !.pc = "session"]]

BeginSession(c, u) ==
  calls' = [calls EXCEPT ![c] = [Idle EXCEPT !.pc = "session", !.user = u]]

\* An administrator is lost by a statement that does not know the policy.
Outside == outside' = (outside \/ ~(Administrators \subseteq Administrators'))

\* AuthenticateLocal.
LoginLocal(c) ==
  /\ At(c, "idle")
  /\ status[Root] = "ACTIVE"
  /\ BeginSession(c, Root)
  /\ UNCHANGED <<database, outside>>

\* UpsertOIDCUser: the provider's groups decide the role, and the user is
\* (again) active.
LoginProvisioned(c, u, r) ==
  /\ At(c, "idle")
  /\ RowFree(u)
  /\ role' = [role EXCEPT ![u] = r]
  /\ status' = [status EXCEPT ![u] = "ACTIVE"]
  /\ Outside
  /\ BeginSession(c, u)
  /\ UNCHANGED <<sessions, keys>>

\* OIDCUser, without provisioning: the status is not looked at.
LoginKnown(c, u) ==
  /\ At(c, "idle")
  /\ status[u] # "NONE"
  /\ BeginSession(c, u)
  /\ UNCHANGED <<database, outside>>

CreateSession(c) ==
  /\ At(c, "session")
  /\ RowFree(calls[c].user)
  /\ \E t \in SessionsOf(NoUser) : sessions' = [sessions EXCEPT ![t] = calls[c].user]
  /\ Return(c)
  /\ UNCHANGED <<role, status, keys, outside>>

\* DELETE FROM sessions waits for a transaction that deletes the row.
Logout(t) ==
  /\ sessions[t] # NoUser
  /\ \A c \in Calls : t \notin calls[c].tokens
  /\ sessions' = [sessions EXCEPT ![t] = NoUser]
  /\ UNCHANGED <<role, status, keys, calls, outside>>

-----------------------------------------------------------------------------
(* API keys                                                                *)

KeyRequest(c, u) ==
  /\ At(c, "idle")
  /\ Authorized(u)
  /\ calls' = [calls EXCEPT ![c] = [Idle EXCEPT !.pc = "key", !.user = u]]
  /\ UNCHANGED <<database, outside>>

CreateAPIKey(c) ==
  /\ At(c, "key")
  /\ RowFree(calls[c].user)
  /\ \E k \in KeysOf(NoUser) :
       keys' = [keys EXCEPT ![k] = [owner |-> calls[c].user, live |-> TRUE, from |-> NoKey]]
  /\ Return(c)
  /\ UNCHANGED <<role, status, sessions, outside>>

\* Outside a transaction, and in one statement.
RevokeAPIKey(k) ==
  /\ keys[k].live
  /\ KeyFree(k)
  /\ keys' = [keys EXCEPT ![k].live = FALSE]
  /\ UNCHANGED <<role, status, sessions, calls, outside>>

\* The old key is read for its name and scopes, whether revoked or not.
RotateRequest(c, u, k) ==
  /\ At(c, "idle")
  /\ Authorized(u) /\ keys[k].owner = u
  /\ calls' = [calls EXCEPT ![c] = [Idle EXCEPT !.pc = "rotate", !.user = u, !.key = k]]
  /\ UNCHANGED <<database, outside>>

\* Mutant: UPDATE api_keys without revoked_at IS NULL.
RevokeOldAgain(c) ==
  /\ At(c, "rotate")
  /\ KeyFree(calls[c].key)
  /\ Goto(c, "successor")
  /\ UNCHANGED <<database, outside>>

\* The first statement of RotateAPIKey; a key already revoked ends it.
RevokeOld(c) ==
  /\ At(c, "rotate")
  /\ KeyFree(calls[c].key)
  /\ IF keys[calls[c].key].live THEN Goto(c, "successor") ELSE Return(c)
  /\ UNCHANGED <<database, outside>>

\* The INSERT of the new key and the commit.
InsertSuccessor(c) ==
  /\ At(c, "successor")
  /\ RowFree(calls[c].user)
  /\ \E k \in KeysOf(NoUser) :
       keys' = [keys EXCEPT ![calls[c].key].live = FALSE,
                            ![k] = [owner |-> calls[c].user, live |-> TRUE, from |-> calls[c].key]]
  /\ Return(c)
  /\ UNCHANGED <<role, status, sessions, outside>>

-----------------------------------------------------------------------------

\* importUsers: an account found by name keeps its role and gets the status it
\* has in the legacy system.
ImportUser(u, s) ==
  /\ status[u] # "NONE"
  /\ RowFree(u)
  /\ status' = [status EXCEPT ![u] = s]
  /\ UNCHANGED <<role, sessions, keys, calls>>
  /\ Outside

\* An error, the client gone, or the victim of a deadlock: a transaction is
\* rolled back, other handlers leave what they did.
Fail(c) ==
  /\ ~At(c, "idle")
  /\ Return(c)
  /\ UNCHANGED <<database, outside>>

Init ==
  /\ role = [u \in Users |-> IF u = Root THEN "ADMIN" ELSE "USER"]
  /\ status = [u \in Users |-> IF u = Root THEN "ACTIVE" ELSE "NONE"]
  /\ sessions = [t \in Tokens |-> NoUser]
  /\ keys = [k \in Keys |-> NoRow]
  /\ calls = [c \in Calls |-> Idle]
  /\ outside = FALSE

Update(c) ==
  \/ \E a, u \in Users, r \in Roles, s \in Statuses : AdminRequest(c, a, u, r, s)
  \/ LockPolicy(c) \/ ReadUser(c) \/ CountAdmins(c)
  \/ DeleteSessions(c) \/ RevokeKeys(c) \/ Commit(c)

Login(c) ==
  \/ LoginLocal(c)
  \/ \E u \in OidcUsers, r \in Roles : LoginProvisioned(c, u, r)
  \/ \E u \in OidcUsers : LoginKnown(c, u)
  \/ CreateSession(c)

Key(c) ==
  \/ \E u \in Users : KeyRequest(c, u)
  \/ \E u \in Users, k \in Keys : RotateRequest(c, u, k)
  \/ CreateAPIKey(c) \/ RevokeOld(c) \/ InsertSuccessor(c)

Next ==
  \/ \E c \in Calls : Update(c) \/ Login(c) \/ Key(c) \/ Fail(c)
  \/ \E t \in Tokens : Logout(t)
  \/ \E k \in Keys : RevokeAPIKey(k)
  \/ \E u \in LegacyUsers, s \in Statuses : ImportUser(u, s)

Spec == Init /\ [][Next]_vars
-----------------------------------------------------------------------------
(* Properties                                                              *)

PCs == {"idle", "policy", "read", "count", "delete", "revoke", "commit",
        "session", "key", "rotate", "successor"}

Call == [pc : PCs, actor : Users \cup {NoUser}, user : Users \cup {NoUser},
         role : Roles, status : Statuses, key : Keys \cup {NoKey},
         tokens : SUBSET Tokens, keys : SUBSET Keys]

TypeOK ==
  /\ role \in [Users -> Roles]
  /\ status \in [Users -> Statuses \cup {"NONE"}]
  /\ sessions \in [Tokens -> Users \cup {NoUser}]
  /\ keys \in [Keys -> [owner : Users \cup {NoUser}, live : BOOLEAN, from : Keys \cup {NoKey}]]
  /\ calls \in [Calls -> Call]
  /\ outside \in BOOLEAN
  /\ \A c \in Calls : ~At(c, "idle") => calls[c].user \in Users
  /\ \A c \in Calls : calls[c].pc \in {"rotate", "successor"} => calls[c].key \in Keys

\* However many administrators demote and disable each other at once, one
\* remains, unless a login or an import took one away.
AdministratorRemains == outside \/ Administrators # {}

\* Claimed by docs/ADMIN_GUIDE.md (the server refuses to demote or disable the
\* last active administrator): no commit of UpdateAdminUser leaves none.
UpdateKeepsAdministrator ==
  [][\A c \in Calls : At(c, "commit") /\ calls'[c] = Idle /\ Administrators # {}
       => Administrators' # {}]_vars

\* An account that an administrator disables is left without a session or a
\* key that is not revoked, also when a login, a new key or a rotation of it
\* is under way.
Disables(c, u) ==
  /\ At(c, "commit") /\ calls[c].user = u
  /\ status[u] = "ACTIVE" /\ status'[u] = "DISABLED"
DisableRevokes ==
  [][\A c \in Calls, u \in Users :
       Disables(c, u) => SessionsOf(u)' = {} /\ LiveKeysOf(u)' = {}]_vars

\* A rotated key is revoked and has one successor, of the same owner, however
\* many rotations of it race each other.
RotatedOnce ==
  \A k \in Keys : keys[k].from # NoKey =>
    /\ ~keys[keys[k].from].live
    /\ keys[keys[k].from].owner = keys[k].owner
    /\ \A other \in Keys : keys[other].from = keys[k].from => other = k
=============================================================================
