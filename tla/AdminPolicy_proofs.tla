-------------------------- MODULE AdminPolicy_proofs --------------------------
(***************************************************************************)
(* Safety of AdminPolicy for every set of users, tokens, keys and calls.   *)
(***************************************************************************)
EXTENDS AdminPolicy, FiniteSetTheorems, TLAPS

\* A call that goes on to a statement which names no key, or ends.
LEMMA GotoTyping ==
  ASSUME TypeOK, NEW c \in Calls, ~At(c, "idle"),
         NEW pc \in PCs \ {"rotate", "successor"}, Goto(c, pc), UNCHANGED <<database, outside>>
  PROVE  TypeOK'
  BY DEF TypeOK, Call, At, Goto, database

LEMMA ReturnTyping ==
  ASSUME TypeOK, NEW c \in Calls, Return(c), UNCHANGED <<database, outside>>
  PROVE  TypeOK'
  BY DEF TypeOK, Call, PCs, Roles, Statuses, At, Return, Idle, database

\* A call that takes rows of its user into its transaction.
LEMMA TakeTyping ==
  ASSUME TypeOK, NEW c \in Calls, ~At(c, "idle"), NEW pc \in PCs \ {"rotate", "successor"},
         NEW T \in SUBSET Tokens, NEW K \in SUBSET Keys,
         \/ calls' = [calls EXCEPT ![c].pc = pc, ![c].tokens = T]
         \/ calls' = [calls EXCEPT ![c].pc = pc, ![c].keys = K],
         UNCHANGED <<database, outside>>
  PROVE  TypeOK'
  BY DEF TypeOK, Call, At, database

LEMMA UpdateTyping ==
  ASSUME TypeOK, NEW c \in Calls, Update(c)
  PROVE  TypeOK'
  <1>1. ASSUME NEW a \in Users, NEW u \in Users, NEW r \in Roles, NEW s \in Statuses,
               AdminRequest(c, a, u, r, s)
        PROVE  TypeOK'
    BY <1>1, UsersAssumption
       DEF AdminRequest, TypeOK, Call, PCs, At, Idle, database
  <1>2. CASE LockPolicy(c)
    BY <1>2, GotoTyping DEF LockPolicy, At, PCs
  <1>3. CASE ReadUser(c)
    <2>1. CASE Return(c)
      BY <1>3, <2>1, ReturnTyping DEF ReadUser
    <2>2. CASE Goto(c, "count")
      BY <1>3, <2>2, GotoTyping DEF ReadUser, At, PCs
    <2> QED BY <1>3, <2>1, <2>2 DEF ReadUser
  <1>4. CASE CountAdmins(c)
    <2>1. CASE Return(c)
      BY <1>4, <2>1, ReturnTyping DEF CountAdmins
    <2>2. CASE Goto(c, IF calls[c].status = "DISABLED" THEN "delete" ELSE "commit")
      BY <1>4, <2>2, GotoTyping DEF CountAdmins, At, PCs
    <2> QED BY <1>4, <2>1, <2>2 DEF CountAdmins
  <1>5. CASE DeleteSessions(c)
    <2>1. SessionsOf(calls[c].user) \in SUBSET Tokens
      BY DEF SessionsOf
    <2> QED BY <1>5, <2>1, TakeTyping DEF DeleteSessions, At, PCs
  <1>6. CASE RevokeKeys(c)
    <2>1. KeysOf(calls[c].user) \in SUBSET Keys
      BY DEF KeysOf
    <2> QED BY <1>6, <2>1, TakeTyping DEF RevokeKeys, At, PCs
  <1>7. CASE Commit(c)
    BY <1>7, UsersAssumption
       DEF Commit, TypeOK, Call, PCs, Roles, Statuses, At, Return, Idle
  <1> QED BY <1>1, <1>2, <1>3, <1>4, <1>5, <1>6, <1>7 DEF Update

LEMMA LoginTyping ==
  ASSUME TypeOK, NEW c \in Calls, Login(c)
  PROVE  TypeOK'
  <1> USE UsersAssumption, KnownUsersAssumption
       DEF TypeOK, Call, PCs, Roles, Statuses, At, Goto, Return, Idle, database,
           BeginSession, Outside
  <1>1. CASE LoginLocal(c)
    BY <1>1 DEF LoginLocal
  <1>2. ASSUME NEW u \in OidcUsers, NEW r \in Roles, LoginProvisioned(c, u, r)
        PROVE  TypeOK'
    BY <1>2 DEF LoginProvisioned
  <1>3. ASSUME NEW u \in OidcUsers, LoginKnown(c, u)
        PROVE  TypeOK'
    BY <1>3 DEF LoginKnown
  <1>4. CASE CreateSession(c)
    BY <1>4 DEF CreateSession
  <1> QED BY <1>1, <1>2, <1>3, <1>4 DEF Login

LEMMA KeyTyping ==
  ASSUME TypeOK, NEW c \in Calls, Key(c)
  PROVE  TypeOK'
  <1>1. ASSUME NEW u \in Users, KeyRequest(c, u)
        PROVE  TypeOK'
    BY <1>1 DEF KeyRequest, TypeOK, Call, PCs, Roles, Statuses, At, Idle, database
  <1>2. ASSUME NEW u \in Users, NEW k \in Keys, RotateRequest(c, u, k)
        PROVE  TypeOK'
    BY <1>2 DEF RotateRequest, TypeOK, Call, PCs, Roles, Statuses, At, Idle, database
  <1>3. CASE CreateAPIKey(c)
    BY <1>3 DEF CreateAPIKey, KeysOf, TypeOK, Call, PCs, Roles, Statuses, At, Return, Idle
  <1>4. CASE RevokeOld(c)
    <2>1. CASE Goto(c, "successor")
      BY <1>4, <2>1 DEF RevokeOld, Goto, TypeOK, Call, PCs, At, database
    <2>2. CASE Return(c)
      BY <1>4, <2>2, ReturnTyping DEF RevokeOld
    <2> QED BY <1>4, <2>1, <2>2 DEF RevokeOld
  <1>5. CASE InsertSuccessor(c)
    <2>1. PICK n \in KeysOf(NoUser) :
            keys' = [keys EXCEPT ![calls[c].key].live = FALSE,
                                 ![n] = [owner |-> calls[c].user, live |-> TRUE,
                                         from |-> calls[c].key]]
      BY <1>5 DEF InsertSuccessor
    <2>2. calls[c].user \in Users /\ calls[c].key \in Keys
      BY <1>5 DEF InsertSuccessor, TypeOK, At
    <2>3. keys' \in [Keys -> [owner : Users \cup {NoUser}, live : BOOLEAN,
                              from : Keys \cup {NoKey}]]
      BY <2>1, <2>2 DEF TypeOK, KeysOf
    <2>4. Return(c) /\ UNCHANGED <<role, status, sessions, outside>>
      BY <1>5 DEF InsertSuccessor
    <2>5. /\ calls' \in [Calls -> Call]
          /\ \A d \in Calls : ~At(d, "idle")' => calls'[d].user \in Users
          /\ \A d \in Calls : calls'[d].pc \in {"rotate", "successor"} => calls'[d].key \in Keys
      BY <2>4 DEF TypeOK, Call, PCs, Roles, Statuses, At, Return, Idle
    <2>6. /\ role' \in [Users -> Roles]
          /\ status' \in [Users -> Statuses \cup {"NONE"}]
          /\ sessions' \in [Tokens -> Users \cup {NoUser}]
          /\ outside' \in BOOLEAN
      BY <2>4 DEF TypeOK
    <2> QED
      BY <2>3, <2>5, <2>6 DEF TypeOK
  <1> QED BY <1>1, <1>2, <1>3, <1>4, <1>5 DEF Key

LEMMA TypingStep ==
  ASSUME TypeOK, [Next]_vars
  PROVE  TypeOK'
  <1>1. ASSUME NEW c \in Calls, Fail(c) PROVE TypeOK'
    BY <1>1 DEF Fail, TypeOK, Call, PCs, Roles, Statuses, At, Return, Idle, database
  <1>2. ASSUME NEW t \in Tokens, Logout(t) PROVE TypeOK'
    BY <1>2 DEF Logout, TypeOK, At
  <1>3. ASSUME NEW k \in Keys, RevokeAPIKey(k) PROVE TypeOK'
    BY <1>3 DEF RevokeAPIKey, TypeOK, At
  <1>4. ASSUME NEW u \in LegacyUsers, NEW s \in Statuses, ImportUser(u, s) PROVE TypeOK'
    BY <1>4, KnownUsersAssumption DEF ImportUser, TypeOK, At, Outside
  <1>5. CASE UNCHANGED vars
    BY <1>5 DEF vars, database, TypeOK, At
  <1> QED
    BY <1>1, <1>2, <1>3, <1>4, <1>5, UpdateTyping, LoginTyping, KeyTyping DEF Next

LEMMA InitTyping == Init => TypeOK
  <1> SUFFICES ASSUME Init PROVE TypeOK
    OBVIOUS
  <1>1. Idle \in Call /\ Idle.pc = "idle"
    BY DEF Idle, Call, PCs, Roles, Statuses
  <1>2. calls \in [Calls -> Call] /\ \A c \in Calls : calls[c].pc = "idle"
    BY <1>1 DEF Init
  <1>3. keys \in [Keys -> [owner : Users \cup {NoUser}, live : BOOLEAN,
                           from : Keys \cup {NoKey}]]
    BY DEF Init, NoRow
  <1>4. /\ role \in [Users -> Roles]
        /\ status \in [Users -> Statuses \cup {"NONE"}]
        /\ sessions \in [Tokens -> Users \cup {NoUser}]
        /\ outside \in BOOLEAN
    BY DEF Init, Roles, Statuses
  <1> QED BY <1>2, <1>3, <1>4 DEF TypeOK, At

\* The type invariant of AdminPolicy: every row and every call under way keeps
\* its shape, whatever is interleaved.
THEOREM Typing == Spec => []TypeOK
  <1>1. Init => TypeOK
    BY InitTyping
  <1>2. TypeOK /\ [Next]_vars => TypeOK'
    BY TypingStep
  <1> QED BY <1>1, <1>2, PTL DEF Spec

-----------------------------------------------------------------------------
(* The policy lock                                                         *)

\* Updates of accounts exclude each other from their second statement on.
PolicyExclusive ==
  \A c, d \in Calls : HoldsPolicy(c) /\ HoldsPolicy(d) => c = d

LEMMA LoginSteps ==
  ASSUME NEW c \in Calls, Login(c)
  PROVE  LoginLocal(c) \/ CreateSession(c) \/ \E u \in OidcUsers : BeginSession(c, u)
  <1>1. ASSUME NEW u \in OidcUsers, NEW r \in Roles, LoginProvisioned(c, u, r)
        PROVE  BeginSession(c, u)
    BY <1>1 DEF LoginProvisioned
  <1>2. ASSUME NEW u \in OidcUsers, LoginKnown(c, u)
        PROVE  BeginSession(c, u)
    BY <1>2 DEF LoginKnown
  <1> QED BY <1>1, <1>2 DEF Login

\* Only the call that takes a step changes its record.
LEMMA OneCallSteps ==
  ASSUME TypeOK, NEW c \in Calls, Update(c) \/ Login(c) \/ Key(c) \/ Fail(c)
  PROVE  /\ \A d \in Calls : d # c => calls'[d] = calls[d]
         /\ calls'[c].pc \in {"read", "count", "delete", "revoke", "commit"}
              => HoldsPolicy(c) \/ LockPolicy(c)
  <1> USE DEF TypeOK, At, Goto, Return, Idle, HoldsPolicy
  <1>1. CASE Update(c)
    <2>1. ASSUME NEW a \in Users, NEW u \in Users, NEW r \in Roles, NEW s \in Statuses,
                 AdminRequest(c, a, u, r, s)
          PROVE  /\ \A d \in Calls : d # c => calls'[d] = calls[d]
                 /\ calls'[c].pc = "policy"
      BY <2>1 DEF AdminRequest
    <2>2. CASE ReadUser(c) \/ CountAdmins(c) \/ Commit(c)
      BY <2>2 DEF ReadUser, CountAdmins, Commit
    <2>3. CASE DeleteSessions(c) \/ RevokeKeys(c)
      BY <2>3 DEF DeleteSessions, RevokeKeys
    <2>4. CASE LockPolicy(c)
      BY <2>4 DEF LockPolicy
    <2> QED BY <1>1, <2>1, <2>2, <2>3, <2>4 DEF Update
  <1>2. CASE Login(c)
    <2>1. CASE LoginLocal(c)
      BY <2>1 DEF LoginLocal, BeginSession
    <2>4. CASE CreateSession(c)
      <3>1. Return(c)
        BY <2>4 DEF CreateSession
      <3> QED BY <3>1
    <2>3. \A u \in OidcUsers : BeginSession(c, u) =>
            /\ \A d \in Calls : d # c => calls'[d] = calls[d]
            /\ calls'[c].pc = "session"
      BY DEF BeginSession
    <2>5. CASE \E u \in OidcUsers : BeginSession(c, u)
      BY <2>3, <2>5
    <2>6. LoginLocal(c) \/ CreateSession(c) \/ \E u \in OidcUsers : BeginSession(c, u)
      BY <1>2, LoginSteps
    <2> QED BY <2>1, <2>4, <2>5, <2>6
  <1>3. CASE Key(c)
    <2>1. CASE RevokeOld(c)
      <3>1. CASE Goto(c, "successor")
        BY <3>1
      <3>2. CASE Return(c)
        BY <3>2
      <3> QED BY <2>1, <3>1, <3>2 DEF RevokeOld
    <2>2. CASE CreateAPIKey(c) \/ InsertSuccessor(c)
      <3>1. Return(c)
        BY <2>2 DEF CreateAPIKey, InsertSuccessor
      <3> QED BY <3>1
    <2>3. ASSUME NEW u \in Users, KeyRequest(c, u)
          PROVE  /\ \A d \in Calls : d # c => calls'[d] = calls[d]
                 /\ calls'[c].pc = "key"
      BY <2>3 DEF KeyRequest
    <2>4. ASSUME NEW u \in Users, NEW k \in Keys, RotateRequest(c, u, k)
          PROVE  /\ \A d \in Calls : d # c => calls'[d] = calls[d]
                 /\ calls'[c].pc = "rotate"
      BY <2>4 DEF RotateRequest
    <2> QED BY <1>3, <2>1, <2>2, <2>3, <2>4 DEF Key
  <1>4. CASE Fail(c)
    BY <1>4 DEF Fail
  <1> QED BY <1>1, <1>2, <1>3, <1>4

\* The other steps are of no call.
LEMMA NoCallSteps ==
  ASSUME [Next]_vars, ~ \E c \in Calls : Update(c) \/ Login(c) \/ Key(c) \/ Fail(c)
  PROVE  UNCHANGED calls
  BY DEF Next, vars, Logout, RevokeAPIKey, ImportUser

LEMMA PolicyStep ==
  ASSUME TypeOK, PolicyExclusive, [Next]_vars
  PROVE  PolicyExclusive'
  <1>1. CASE \E c \in Calls : Update(c) \/ Login(c) \/ Key(c) \/ Fail(c)
    <2> PICK c \in Calls : Update(c) \/ Login(c) \/ Key(c) \/ Fail(c)
      BY <1>1
    <2>1. \A d \in Calls : d # c => (HoldsPolicy(d)' <=> HoldsPolicy(d))
      BY OneCallSteps DEF HoldsPolicy
    <2>2. CASE LockPolicy(c)
      BY <2>1, <2>2 DEF PolicyExclusive, LockPolicy, PolicyFree
    <2>3. CASE ~LockPolicy(c)
      BY <2>1, <2>3, OneCallSteps DEF PolicyExclusive, HoldsPolicy
    <2> QED BY <2>2, <2>3
  <1>2. CASE ~ \E c \in Calls : Update(c) \/ Login(c) \/ Key(c) \/ Fail(c)
    BY <1>2, NoCallSteps DEF PolicyExclusive, HoldsPolicy
  <1> QED BY <1>1, <1>2

-----------------------------------------------------------------------------
(* An administrator remains                                                *)

\* AdministratorRemains is not inductive: between the count and the commit, it
\* is another administrator who must stay.
AnotherAdministrator ==
  \A c \in Calls :
    calls[c].pc \in {"delete", "revoke", "commit"} /\ RemovesAdministrator(c)
      => outside \/ \E a \in Administrators : a # calls[c].user

PolicyInv ==
  TypeOK /\ PolicyExclusive /\ AdministratorRemains /\ AnotherAdministrator

\* What the count of administrators tells.
LEMMA MoreThanOne ==
  ASSUME NEW u, Cardinality(Administrators) > 1
  PROVE  \E a \in Administrators : a # u
  <1> SUFFICES ASSUME \A a \in Administrators : a = u PROVE FALSE
    OBVIOUS
  <1>1. Administrators \in SUBSET {u}
    OBVIOUS
  <1>2. IsFiniteSet({u}) /\ Cardinality({u}) = 1
    BY FS_Singleton
  <1>3. Cardinality(Administrators) <= 1 /\ IsFiniteSet(Administrators)
    BY <1>1, <1>2, FS_Subset
  <1>4. Cardinality(Administrators) \in Nat
    BY <1>3, FS_CardinalityType
  <1> QED BY <1>3, <1>4

\* No step but a commit takes an administrator away without saying so.
LEMMA OthersKeepAdministrators ==
  ASSUME TypeOK, [Next]_vars, \A c \in Calls : ~Commit(c)
  PROVE  /\ outside => outside'
         /\ outside' \/ Administrators \subseteq Administrators'
  <1>1. ASSUME UNCHANGED <<role, status, outside>>
        PROVE  /\ outside => outside'
               /\ outside' \/ Administrators \subseteq Administrators'
    BY <1>1 DEF Administrators
  <1>2. ASSUME NEW c \in Calls, NEW u \in OidcUsers, NEW r \in Roles, LoginProvisioned(c, u, r)
        PROVE  Outside
    BY <1>2 DEF LoginProvisioned
  <1>3. ASSUME NEW u \in LegacyUsers, NEW s \in Statuses, ImportUser(u, s)
        PROVE  Outside
    BY <1>3 DEF ImportUser
  <1>4. CASE Outside
    BY <1>4 DEF Outside, TypeOK
  <1>5. ASSUME NEW c \in Calls, Update(c) \/ Key(c) \/ Fail(c)
        PROVE  UNCHANGED <<role, status, outside>>
    BY <1>5 DEF Update, AdminRequest, LockPolicy, ReadUser, CountAdmins, DeleteSessions,
                RevokeKeys, Key, KeyRequest, RotateRequest, CreateAPIKey, RevokeOld,
                InsertSuccessor, Fail, database
  <1>6. ASSUME NEW c \in Calls, Login(c)
        PROVE  Outside \/ UNCHANGED <<role, status, outside>>
    BY <1>2, <1>6 DEF Login, LoginLocal, LoginKnown, CreateSession, database
  <1>7. ASSUME \/ \E t \in Tokens : Logout(t)
               \/ \E k \in Keys : RevokeAPIKey(k)
               \/ UNCHANGED vars
        PROVE  UNCHANGED <<role, status, outside>>
    BY <1>7 DEF Logout, RevokeAPIKey, vars, database
  <1> QED BY <1>1, <1>3, <1>4, <1>5, <1>6, <1>7 DEF Next

\* How a call holds the row of its user.
LEMMA HeldSteps ==
  ASSUME TypeOK, [Next]_vars, NEW c \in Calls,
         calls'[c].pc \in {"delete", "revoke", "commit"}
  PROVE  CountAdmins(c) \/ DeleteSessions(c) \/ RevokeKeys(c) \/ calls'[c] = calls[c]
  <1>1. CASE Update(c)
    <2>1. CASE LockPolicy(c) \/ ReadUser(c)
      <3>1. Goto(c, "read") \/ Goto(c, "count") \/ Return(c)
        BY <2>1 DEF LockPolicy, ReadUser
      <3>2. calls'[c].pc \in {"read", "count", "idle"}
        BY <3>1 DEF Goto, Return, Idle, TypeOK, Call
      <3> QED BY <3>2
    <2>2. CASE Commit(c)
      BY <2>2 DEF Commit, Return, Idle, TypeOK
    <2>3. CASE DeleteSessions(c) \/ RevokeKeys(c)
      BY <2>3
    <2>5. ASSUME NEW a \in Users, NEW u \in Users, NEW r \in Roles, NEW s \in Statuses,
                 AdminRequest(c, a, u, r, s)
          PROVE  FALSE
      BY <2>5 DEF AdminRequest, Idle, TypeOK
    <2> QED BY <1>1, <2>1, <2>2, <2>3, <2>5 DEF Update
  <1>2. CASE Login(c)
    <2>1. CASE LoginLocal(c) \/ \E u \in OidcUsers : BeginSession(c, u)
      BY <2>1 DEF LoginLocal, BeginSession, Idle, TypeOK
    <2>2. CASE CreateSession(c)
      BY <2>2 DEF CreateSession, Return, Idle, TypeOK
    <2> QED BY <1>2, <2>1, <2>2, LoginSteps
  <1>3. CASE Key(c)
    <2>1. CASE CreateAPIKey(c) \/ InsertSuccessor(c)
      BY <2>1 DEF CreateAPIKey, InsertSuccessor, Return, Idle, TypeOK
    <2>2. CASE RevokeOld(c)
      <3>1. Goto(c, "successor") \/ Return(c)
        BY <2>2 DEF RevokeOld
      <3>2. calls'[c].pc \in {"successor", "idle"}
        BY <3>1 DEF Goto, Return, Idle, TypeOK, Call
      <3> QED BY <3>2
    <2>3. ASSUME NEW u \in Users, KeyRequest(c, u) PROVE FALSE
      BY <2>3 DEF KeyRequest, Idle, TypeOK
    <2>4. ASSUME NEW u \in Users, NEW k \in Keys, RotateRequest(c, u, k) PROVE FALSE
      BY <2>4 DEF RotateRequest, Idle, TypeOK
    <2> QED BY <1>3, <2>1, <2>2, <2>3, <2>4 DEF Key
  <1>4. CASE Fail(c)
    BY <1>4 DEF Fail, Return, Idle, TypeOK
  <1>5. CASE calls'[c] = calls[c]
    BY <1>5
  <1>6. ASSUME NEW d \in Calls, d # c, Update(d) \/ Login(d) \/ Key(d) \/ Fail(d)
        PROVE  calls'[c] = calls[c]
    BY <1>6, OneCallSteps
  <1>7. CASE ~ \E d \in Calls : Update(d) \/ Login(d) \/ Key(d) \/ Fail(d)
    BY <1>5, <1>7, NoCallSteps
  <1> QED BY <1>1, <1>2, <1>3, <1>4, <1>5, <1>6, <1>7

\* A call comes past the count by counting, and keeps what it was asked to do.
LEMMA PastCount ==
  ASSUME TypeOK, [Next]_vars, NEW c \in Calls,
         calls'[c].pc \in {"delete", "revoke", "commit"}
  PROVE  \/ CountAdmins(c)
         \/ /\ calls[c].pc \in {"delete", "revoke", "commit"}
            /\ calls'[c].user = calls[c].user
            /\ calls'[c].role = calls[c].role
            /\ calls'[c].status = calls[c].status
  <1>1. CASE DeleteSessions(c)
    BY <1>1 DEF DeleteSessions, At, TypeOK, Call
  <1>2. CASE RevokeKeys(c)
    BY <1>2 DEF RevokeKeys, At, TypeOK, Call
  <1> QED BY <1>1, <1>2, HeldSteps

LEMMA CommitPolicyInv ==
  ASSUME PolicyInv, NEW c \in Calls, Commit(c)
  PROVE  AdministratorRemains' /\ AnotherAdministrator'
  <1>0. TypeOK /\ calls[c].user \in Users /\ HoldsPolicy(c)
    BY DEF PolicyInv, TypeOK, Commit, At, HoldsPolicy
  <1>1. /\ outside' = outside
        /\ role' = [role EXCEPT ![calls[c].user] = calls[c].role]
        /\ status' = [status EXCEPT ![calls[c].user] = calls[c].status]
    BY DEF Commit
  <1>2. AnotherAdministrator'
    <2>1. \A d \in Calls : d # c => calls'[d] = calls[d] /\ ~HoldsPolicy(d)
      BY <1>0 DEF PolicyInv, PolicyExclusive, Commit, Return, TypeOK
    <2>2. calls'[c].pc = "idle"
      BY <1>0 DEF Commit, Return, Idle, TypeOK
    <2> QED BY <2>1, <2>2 DEF AnotherAdministrator, HoldsPolicy
  <1>3. AdministratorRemains'
    <2>1. CASE RemovesAdministrator(c)
      <3>1. outside \/ \E a \in Administrators : a # calls[c].user
        BY <2>1 DEF PolicyInv, AnotherAdministrator, Commit, At
      <3>2. \A a \in Administrators : a # calls[c].user => a \in Administrators'
        BY <1>0, <1>1 DEF Administrators, TypeOK
      <3> QED BY <1>1, <3>1, <3>2 DEF AdministratorRemains
    <2>2. CASE ~RemovesAdministrator(c)
      <3>1. calls[c].user \in Administrators'
        BY <1>0, <1>1, <2>2 DEF Administrators, RemovesAdministrator, TypeOK
      <3> QED BY <3>1 DEF AdministratorRemains
    <2> QED BY <2>1, <2>2
  <1> QED BY <1>2, <1>3

LEMMA OtherPolicyInv ==
  ASSUME PolicyInv, [Next]_vars, \A c \in Calls : ~Commit(c)
  PROVE  AdministratorRemains' /\ AnotherAdministrator'
  <1>1. /\ TypeOK
        /\ outside => outside'
        /\ outside' \/ Administrators \subseteq Administrators'
    BY OthersKeepAdministrators DEF PolicyInv
  <1>2. AdministratorRemains'
    BY <1>1 DEF PolicyInv, AdministratorRemains
  <1>3. ASSUME NEW c \in Calls, calls'[c].pc \in {"delete", "revoke", "commit"},
               RemovesAdministrator(c)'
        PROVE  outside' \/ \E a \in Administrators' : a # calls'[c].user
    <2>1. CASE CountAdmins(c)
      <3>1. /\ Goto(c, IF calls[c].status = "DISABLED" THEN "delete" ELSE "commit")
            /\ \/ calls[c].user \notin Administrators
               \/ ~RemovesAdministrator(c)
               \/ ~(Cardinality(Administrators) <= 1)
        BY <1>1, <1>3, <2>1 DEF CountAdmins, Return, Idle, TypeOK
      <3>2. /\ calls'[c].user = calls[c].user
            /\ calls'[c].role = calls[c].role
            /\ calls'[c].status = calls[c].status
        BY <1>1, <3>1 DEF Goto, TypeOK, Call
      <3>3. CASE calls[c].user \notin Administrators
        BY <1>1, <3>2, <3>3 DEF PolicyInv, AdministratorRemains
      <3>4. CASE ~RemovesAdministrator(c)
        BY <1>3, <3>2, <3>4 DEF RemovesAdministrator
      <3>5. CASE ~(Cardinality(Administrators) <= 1)
        <4>1. Cardinality(Administrators) \in Nat
          <5>1. Administrators \in SUBSET Users
            BY DEF Administrators
          <5> QED BY <5>1, UsersAssumption, FS_Subset, FS_CardinalityType
        <4>2. \E a \in Administrators : a # calls[c].user
          BY <3>5, <4>1, MoreThanOne
        <4> QED BY <1>1, <3>2, <4>2
      <3> QED BY <3>1, <3>3, <3>4, <3>5
    <2>2. CASE ~CountAdmins(c)
      <3>1. /\ calls[c].pc \in {"delete", "revoke", "commit"}
            /\ calls'[c].user = calls[c].user
            /\ calls'[c].role = calls[c].role
            /\ calls'[c].status = calls[c].status
        BY <1>1, <1>3, <2>2, PastCount
      <3>2. RemovesAdministrator(c)
        BY <1>3, <3>1 DEF RemovesAdministrator
      <3> QED BY <1>1, <3>1, <3>2 DEF PolicyInv, AnotherAdministrator
    <2> QED BY <2>1, <2>2
  <1> QED BY <1>2, <1>3 DEF AnotherAdministrator

\* For any number of users and calls, and however their updates interleave with
\* logins and imports: there is an active administrator as long as UpdateAdminUser
\* alone takes the role or the status of one away.
THEOREM Administration == Spec => []AdministratorRemains
  <1>1. Init => PolicyInv
    <2> SUFFICES ASSUME Init PROVE PolicyInv
      OBVIOUS
    <2>1. TypeOK
      BY InitTyping
    <2>2. \A c \in Calls : calls[c].pc = "idle"
      BY DEF Init, Idle
    <2>3. Root \in Administrators
      BY UsersAssumption DEF Init, Administrators
    <2> QED
      BY <2>1, <2>2, <2>3
         DEF PolicyInv, PolicyExclusive, HoldsPolicy, AdministratorRemains, AnotherAdministrator
  <1>2. PolicyInv /\ [Next]_vars => PolicyInv'
    <2> SUFFICES ASSUME PolicyInv, [Next]_vars PROVE PolicyInv'
      OBVIOUS
    <2>1. TypeOK' /\ PolicyExclusive'
      BY TypingStep, PolicyStep DEF PolicyInv
    <2>2. AdministratorRemains' /\ AnotherAdministrator'
      BY CommitPolicyInv, OtherPolicyInv
    <2> QED BY <2>1, <2>2 DEF PolicyInv
  <1>3. PolicyInv => AdministratorRemains
    BY DEF PolicyInv
  <1> QED BY <1>1, <1>2, <1>3, PTL DEF Spec

-----------------------------------------------------------------------------
(* Disabling revokes                                                       *)

\* While the row of a user is locked, nobody adds a session or a live key.
LEMMA LockedRowsStay ==
  ASSUME TypeOK, [Next]_vars, NEW u \in Users, ~RowFree(u)
  PROVE  /\ SessionsOf(u)' \subseteq SessionsOf(u)
         /\ LiveKeysOf(u)' \subseteq LiveKeysOf(u)
  <1>1. ASSUME UNCHANGED <<sessions, keys>>
        PROVE  SessionsOf(u)' \subseteq SessionsOf(u) /\ LiveKeysOf(u)' \subseteq LiveKeysOf(u)
    BY <1>1 DEF SessionsOf, LiveKeysOf, KeysOf
  <1>2. ASSUME NEW c \in Calls, Commit(c)
        PROVE  SessionsOf(u)' \subseteq SessionsOf(u) /\ LiveKeysOf(u)' \subseteq LiveKeysOf(u)
    BY <1>2, UsersAssumption DEF Commit, SessionsOf, LiveKeysOf, KeysOf, TypeOK
  <1>3. ASSUME NEW c \in Calls, CreateSession(c)
        PROVE  SessionsOf(u)' \subseteq SessionsOf(u) /\ LiveKeysOf(u)' \subseteq LiveKeysOf(u)
    <2>1. calls[c].user # u /\ UNCHANGED keys
      BY <1>3 DEF CreateSession
    <2>2. \E t \in SessionsOf(NoUser) : sessions' = [sessions EXCEPT ![t] = calls[c].user]
      BY <1>3 DEF CreateSession
    <2> QED BY <2>1, <2>2 DEF SessionsOf, LiveKeysOf, KeysOf, TypeOK
  <1>4. ASSUME NEW c \in Calls, CreateAPIKey(c)
        PROVE  SessionsOf(u)' \subseteq SessionsOf(u) /\ LiveKeysOf(u)' \subseteq LiveKeysOf(u)
    <2>1. calls[c].user # u /\ UNCHANGED sessions
      BY <1>4 DEF CreateAPIKey
    <2>2. \E k \in KeysOf(NoUser) :
            keys' = [keys EXCEPT ![k] = [owner |-> calls[c].user, live |-> TRUE, from |-> NoKey]]
      BY <1>4 DEF CreateAPIKey
    <2> QED BY <2>1, <2>2 DEF SessionsOf, LiveKeysOf, KeysOf, TypeOK
  <1>5. ASSUME NEW c \in Calls, InsertSuccessor(c)
        PROVE  SessionsOf(u)' \subseteq SessionsOf(u) /\ LiveKeysOf(u)' \subseteq LiveKeysOf(u)
    <2>1. calls[c].user # u /\ UNCHANGED sessions
      BY <1>5 DEF InsertSuccessor
    <2>2. \E k \in KeysOf(NoUser) :
            keys' = [keys EXCEPT ![calls[c].key].live = FALSE,
                                 ![k] = [owner |-> calls[c].user, live |-> TRUE,
                                         from |-> calls[c].key]]
      BY <1>5 DEF InsertSuccessor
    <2> QED BY <2>1, <2>2 DEF SessionsOf, LiveKeysOf, KeysOf, TypeOK
  <1>6. ASSUME NEW t \in Tokens, Logout(t)
        PROVE  SessionsOf(u)' \subseteq SessionsOf(u) /\ LiveKeysOf(u)' \subseteq LiveKeysOf(u)
    BY <1>6, UsersAssumption DEF Logout, SessionsOf, LiveKeysOf, KeysOf, TypeOK
  <1>7. ASSUME NEW k \in Keys, RevokeAPIKey(k)
        PROVE  SessionsOf(u)' \subseteq SessionsOf(u) /\ LiveKeysOf(u)' \subseteq LiveKeysOf(u)
    BY <1>7 DEF RevokeAPIKey, SessionsOf, LiveKeysOf, KeysOf, TypeOK
  <1>8. ASSUME NEW c \in Calls, Update(c), ~Commit(c)
        PROVE  UNCHANGED <<sessions, keys>>
    BY <1>8 DEF Update, AdminRequest, LockPolicy, ReadUser, CountAdmins, DeleteSessions,
                RevokeKeys, database
  <1>9. ASSUME NEW c \in Calls, Login(c), ~CreateSession(c)
        PROVE  UNCHANGED <<sessions, keys>>
    BY <1>9 DEF Login, LoginLocal, LoginProvisioned, LoginKnown, database
  <1>10. ASSUME NEW c \in Calls, Key(c) \/ Fail(c), ~CreateAPIKey(c), ~InsertSuccessor(c)
         PROVE  UNCHANGED <<sessions, keys>>
    BY <1>10 DEF Key, KeyRequest, RotateRequest, RevokeOld, Fail, database
  <1>11. ASSUME UNCHANGED vars \/ \E v \in LegacyUsers, s \in Statuses : ImportUser(v, s)
         PROVE  UNCHANGED <<sessions, keys>>
    BY <1>11 DEF vars, database, ImportUser
  <1> QED
    BY <1>1, <1>2, <1>3, <1>4, <1>5, <1>6, <1>7, <1>8, <1>9, <1>10, <1>11 DEF Next

\* What a transaction has taken is all there is of its user.
RowsTaken ==
  \A c \in Calls, u \in Users : calls[c].user = u /\ calls[c].status = "DISABLED" =>
    /\ calls[c].pc \in {"revoke", "commit"} => SessionsOf(u) \subseteq calls[c].tokens
    /\ calls[c].pc = "commit" => LiveKeysOf(u) \subseteq calls[c].keys

DisableInv == TypeOK /\ RowsTaken

LEMMA DisableStep ==
  ASSUME DisableInv, [Next]_vars
  PROVE  DisableInv'
  <1>1. TypeOK /\ TypeOK'
    BY TypingStep DEF DisableInv
  <1>2. ASSUME NEW c \in Calls, NEW u \in Users, calls'[c].user = u,
               calls'[c].status = "DISABLED", calls'[c].pc \in {"revoke", "commit"}
        PROVE  /\ SessionsOf(u)' \subseteq calls'[c].tokens
               /\ calls'[c].pc = "commit" => LiveKeysOf(u)' \subseteq calls'[c].keys
    <2>1. CASE CountAdmins(c)
      <3>1. calls'[c].pc # "revoke"
        BY <1>1, <2>1 DEF CountAdmins, Goto, Return, Idle, TypeOK, Call
      <3>2. calls'[c].pc # "commit"
        BY <1>1, <1>2, <2>1 DEF CountAdmins, Goto, Return, Idle, TypeOK, Call
      <3> QED BY <1>2, <3>1, <3>2
    <2>2. CASE DeleteSessions(c)
      <3>1. /\ calls'[c].pc = "revoke" /\ calls'[c].user = calls[c].user
            /\ calls'[c].tokens = SessionsOf(calls[c].user)
            /\ UNCHANGED sessions
        BY <1>1, <2>2 DEF DeleteSessions, TypeOK, Call, database
      <3> QED BY <1>2, <3>1 DEF SessionsOf
    <2>3. CASE RevokeKeys(c)
      <3>1. /\ calls[c].pc = "revoke" /\ calls[c].user = u /\ calls[c].status = "DISABLED"
            /\ calls'[c].tokens = calls[c].tokens
            /\ calls'[c].keys = KeysOf(u)
            /\ UNCHANGED <<sessions, keys>>
        BY <1>1, <1>2, <2>3 DEF RevokeKeys, At, TypeOK, Call, database
      <3>2. SessionsOf(u) \subseteq calls[c].tokens
        BY <3>1 DEF DisableInv, RowsTaken
      <3> QED BY <3>1, <3>2 DEF SessionsOf, LiveKeysOf, KeysOf
    <2>4. CASE calls'[c] = calls[c]
      <3>1. ~RowFree(u)
        BY <1>2, <2>4 DEF RowFree, HoldsRow
      <3>2. /\ SessionsOf(u)' \subseteq SessionsOf(u)
            /\ LiveKeysOf(u)' \subseteq LiveKeysOf(u)
        BY <1>1, <3>1, LockedRowsStay
      <3>3. /\ SessionsOf(u) \subseteq calls[c].tokens
            /\ calls[c].pc = "commit" => LiveKeysOf(u) \subseteq calls[c].keys
        BY <1>2, <2>4 DEF DisableInv, RowsTaken
      <3> QED BY <2>4, <3>2, <3>3
    <2> QED BY <1>1, <1>2, <2>1, <2>2, <2>3, <2>4, HeldSteps
  <1>3. RowsTaken'
    BY <1>2 DEF RowsTaken
  <1> QED BY <1>1, <1>3 DEF DisableInv

\* An account whose row is locked is disabled by a commit only.
LEMMA DisablingStep ==
  ASSUME TypeOK, [Next]_vars, NEW u \in Users, ~RowFree(u),
         status[u] = "ACTIVE", status'[u] = "DISABLED"
  PROVE  \E c \in Calls : Commit(c) /\ calls[c].user = u /\ calls[c].status = "DISABLED"
  <1>1. ASSUME NEW c \in Calls, Commit(c)
        PROVE  calls[c].user = u /\ calls[c].status = "DISABLED"
    BY <1>1 DEF Commit, TypeOK, At
  <1>2. ASSUME NEW c \in Calls, Update(c), ~Commit(c) PROVE FALSE
    <2>1. UNCHANGED status
      BY <1>2 DEF Update, AdminRequest, LockPolicy, ReadUser, CountAdmins, DeleteSessions,
                  RevokeKeys, database
    <2> QED BY <2>1
  <1>3. ASSUME NEW c \in Calls, NEW v \in OidcUsers, NEW r \in Roles, LoginProvisioned(c, v, r)
        PROVE  FALSE
    BY <1>3, KnownUsersAssumption DEF LoginProvisioned, TypeOK
  <1>4. ASSUME NEW c \in Calls, Login(c) \/ Key(c) \/ Fail(c) PROVE FALSE
    <2>1. UNCHANGED status
      BY <1>3, <1>4
         DEF Login, LoginLocal, LoginKnown, CreateSession, Key, KeyRequest, RotateRequest,
             CreateAPIKey, RevokeOld, InsertSuccessor, Fail, database
    <2> QED BY <2>1
  <1>5. ASSUME NEW v \in LegacyUsers, NEW s \in Statuses, ImportUser(v, s) PROVE FALSE
    BY <1>5, KnownUsersAssumption DEF ImportUser, TypeOK
  <1>6. ASSUME \/ \E t \in Tokens : Logout(t)
               \/ \E k \in Keys : RevokeAPIKey(k)
               \/ UNCHANGED vars
        PROVE  FALSE
    BY <1>6 DEF Logout, RevokeAPIKey, vars, database
  <1> QED BY <1>1, <1>2, <1>4, <1>5, <1>6 DEF Next

\* For any number of users, tokens, keys and calls: an update that disables an
\* account leaves it no session and no live key, because FOR UPDATE keeps the
\* foreign keys of new rows waiting until the commit.
THEOREM Disabling == Spec => DisableRevokes
  <1>1. Init => DisableInv
    <2> SUFFICES ASSUME Init PROVE DisableInv
      OBVIOUS
    <2>1. \A c \in Calls : calls[c].pc = "idle"
      BY DEF Init, Idle
    <2> QED BY <2>1, InitTyping DEF DisableInv, RowsTaken
  <1>2. DisableInv /\ [Next]_vars => DisableInv'
    BY DisableStep
  <1>3. DisableInv /\ [Next]_vars =>
          \A c \in Calls, u \in Users :
            Disables(c, u) => SessionsOf(u)' = {} /\ LiveKeysOf(u)' = {}
    <2> SUFFICES ASSUME DisableInv, [Next]_vars, NEW c \in Calls, NEW u \in Users, Disables(c, u)
                 PROVE  SessionsOf(u)' = {} /\ LiveKeysOf(u)' = {}
      OBVIOUS
    <2>1. ~RowFree(u)
      BY DEF Disables, At, RowFree, HoldsRow
    <2>2. PICK d \in Calls : Commit(d) /\ calls[d].user = u /\ calls[d].status = "DISABLED"
      BY <2>1, DisablingStep DEF DisableInv, Disables
    <2>3. /\ SessionsOf(u) \subseteq calls[d].tokens
          /\ LiveKeysOf(u) \subseteq calls[d].keys
      BY <2>2 DEF DisableInv, RowsTaken, Commit, At
    <2>4. SessionsOf(u)' = {}
      BY <2>2, <2>3, UsersAssumption DEF Commit, SessionsOf
    <2>5. LiveKeysOf(u)' = {}
      BY <2>2, <2>3 DEF Commit, LiveKeysOf, KeysOf, DisableInv, TypeOK
    <2> QED BY <2>4, <2>5
  <1> QED BY <1>1, <1>2, <1>3, PTL DEF Spec, DisableRevokes

-----------------------------------------------------------------------------
(* A key is rotated once                                                   *)

\* An id that is not in use has no trace.
FreshRows == \A k \in Keys : keys[k].owner = NoUser => keys[k] = NoRow

\* A rotation is of a key of its user, and the one that has revoked it found it
\* live and keeps it so for all others.
Rotating ==
  /\ \A c \in Calls : calls[c].pc \in {"rotate", "successor"}
       => keys[calls[c].key].owner = calls[c].user
  /\ \A c \in Calls : calls[c].pc = "successor" => keys[calls[c].key].live
  /\ \A c, d \in Calls : calls[c].pc = "successor" =>
       /\ calls[c].key \notin calls[d].keys
       /\ calls[d].pc = "successor" /\ calls[d].key = calls[c].key => d = c

RotateInv == TypeOK /\ RotatedOnce /\ FreshRows /\ Rotating

\* What a step does to the locks on keys.
LEMMA KeyLockSteps ==
  ASSUME TypeOK, [Next]_vars, NEW c \in Calls
  PROVE  \/ calls'[c] = calls[c]
         \/ calls'[c].pc \notin {"rotate", "successor"} /\ calls'[c].keys \subseteq calls[c].keys
         \/ RevokeKeys(c)
         \/ RevokeOld(c) /\ Goto(c, "successor") /\ keys[calls[c].key].live
         \/ \E u \in Users, k \in Keys : RotateRequest(c, u, k)
  <1>1. ASSUME Return(c) PROVE calls'[c].pc = "idle" /\ calls'[c].keys = {}
    BY <1>1 DEF Return, Idle, TypeOK
  <1>2. ASSUME NEW pc \in {"read", "count", "delete", "commit"}, Goto(c, pc)
        PROVE  calls'[c].pc \notin {"rotate", "successor"} /\ calls'[c].keys = calls[c].keys
    BY <1>2 DEF Goto, TypeOK, Call
  <1>3. CASE Update(c)
    <2>1. CASE LockPolicy(c) \/ ReadUser(c) \/ CountAdmins(c)
      <3>1. Return(c) \/ \E pc \in {"read", "count", "delete", "commit"} : Goto(c, pc)
        BY <2>1 DEF LockPolicy, ReadUser, CountAdmins
      <3> QED BY <1>1, <1>2, <3>1
    <2>2. CASE Commit(c)
      BY <1>1, <2>2 DEF Commit
    <2>3. CASE DeleteSessions(c)
      <3>1. calls'[c].pc = "revoke" /\ calls'[c].keys = calls[c].keys
        BY <2>3 DEF DeleteSessions, TypeOK, Call
      <3> QED BY <3>1
    <2>4. CASE RevokeKeys(c)
      BY <2>4
    <2>5. ASSUME NEW a \in Users, NEW u \in Users, NEW r \in Roles, NEW s \in Statuses,
                 AdminRequest(c, a, u, r, s)
          PROVE  calls'[c].pc = "policy" /\ calls'[c].keys = {}
      BY <2>5 DEF AdminRequest, Idle, TypeOK
    <2> QED BY <1>3, <2>1, <2>2, <2>3, <2>4, <2>5 DEF Update
  <1>4. CASE Login(c)
    <2>1. CASE LoginLocal(c) \/ \E u \in OidcUsers : BeginSession(c, u)
      <3>1. \E u : BeginSession(c, u)
        BY <2>1 DEF LoginLocal
      <3>2. calls'[c].pc = "session" /\ calls'[c].keys = {}
        BY <3>1 DEF BeginSession, Idle, TypeOK
      <3> QED BY <3>2
    <2>2. CASE CreateSession(c)
      BY <1>1, <2>2 DEF CreateSession
    <2> QED BY <1>4, <2>1, <2>2, LoginSteps
  <1>5. CASE Key(c)
    <2>1. CASE CreateAPIKey(c) \/ InsertSuccessor(c)
      BY <1>1, <2>1 DEF CreateAPIKey, InsertSuccessor
    <2>2. CASE RevokeOld(c)
      BY <1>1, <2>2 DEF RevokeOld
    <2>3. ASSUME NEW u \in Users, KeyRequest(c, u)
          PROVE  calls'[c].pc = "key" /\ calls'[c].keys = {}
      BY <2>3 DEF KeyRequest, Idle, TypeOK
    <2> QED BY <1>5, <2>1, <2>2, <2>3 DEF Key
  <1>6. CASE Fail(c)
    BY <1>1, <1>6 DEF Fail
  <1>7. ASSUME NEW d \in Calls, d # c, Update(d) \/ Login(d) \/ Key(d) \/ Fail(d)
        PROVE  calls'[c] = calls[c]
    BY <1>7, OneCallSteps
  <1>8. CASE ~ \E d \in Calls : Update(d) \/ Login(d) \/ Key(d) \/ Fail(d)
    BY <1>8, NoCallSteps
  <1> QED BY <1>3, <1>4, <1>5, <1>6, <1>7, <1>8

\* What a step does to the rows of api_keys.
LEMMA KeyRowSteps ==
  ASSUME TypeOK, [Next]_vars
  PROVE  \/ UNCHANGED keys
         \/ \E c \in Calls : Commit(c) \/ CreateAPIKey(c) \/ InsertSuccessor(c)
         \/ \E k \in Keys : RevokeAPIKey(k)
  <1>1. ASSUME NEW c \in Calls, Update(c), ~Commit(c) PROVE UNCHANGED keys
    BY <1>1 DEF Update, AdminRequest, LockPolicy, ReadUser, CountAdmins, DeleteSessions,
                RevokeKeys, database
  <1>2. ASSUME NEW c \in Calls, Login(c) PROVE UNCHANGED keys
    BY <1>2 DEF Login, LoginLocal, LoginProvisioned, LoginKnown, CreateSession, database
  <1>3. ASSUME NEW c \in Calls, Key(c) \/ Fail(c), ~CreateAPIKey(c), ~InsertSuccessor(c)
        PROVE  UNCHANGED keys
    BY <1>3 DEF Key, KeyRequest, RotateRequest, RevokeOld, Fail, database
  <1>4. ASSUME \/ UNCHANGED vars
               \/ \E t \in Tokens : Logout(t)
               \/ \E v \in LegacyUsers, s \in Statuses : ImportUser(v, s)
        PROVE  UNCHANGED keys
    BY <1>4 DEF vars, database, Logout, ImportUser
  <1> QED BY <1>1, <1>2, <1>3, <1>4 DEF Next

LEMMA KeyLocksStay ==
  ASSUME RotateInv, [Next]_vars, NEW c \in Calls, NEW d \in Calls, calls'[c].pc = "successor"
  PROVE  /\ calls'[c].key \notin calls'[d].keys
         /\ calls'[d].pc = "successor" /\ calls'[d].key = calls'[c].key => d = c
  <1>0. TypeOK
    BY DEF RotateInv
  <1>1. CASE calls'[c] = calls[c]
    <2>1. HoldsKey(c, calls[c].key) /\ calls[c].pc = "successor"
      BY <1>1 DEF HoldsKey, At
    <2>2. CASE calls'[d] = calls[d]
      BY <1>1, <2>1, <2>2 DEF RotateInv, Rotating
    <2>3. CASE calls'[d].pc \notin {"rotate", "successor"} /\ calls'[d].keys \subseteq calls[d].keys
      BY <1>1, <2>1, <2>3 DEF RotateInv, Rotating
    <2>4. CASE RevokeKeys(d)
      <3>1. calls'[d].pc = "commit" /\ calls'[d].keys = KeysOf(calls[d].user)
        BY <1>0, <2>4 DEF RevokeKeys, TypeOK, Call
      <3>2. calls[c].key \notin KeysOf(calls[d].user)
        BY <2>1, <2>4 DEF RevokeKeys, KeyFree
      <3> QED BY <1>1, <3>1, <3>2
    <2>5. CASE RevokeOld(d) /\ Goto(d, "successor")
      <3>1. calls'[d].keys = calls[d].keys /\ calls'[d].key = calls[d].key
        BY <1>0, <2>5 DEF Goto, TypeOK, Call
      <3>2. calls[d].key # calls[c].key
        BY <2>1, <2>5 DEF RevokeOld, KeyFree
      <3> QED BY <1>1, <2>1, <3>1, <3>2 DEF RotateInv, Rotating
    <2>6. CASE \E u \in Users, k \in Keys : RotateRequest(d, u, k)
      <3>1. calls'[d].pc = "rotate" /\ calls'[d].keys = {}
        BY <1>0, <2>6 DEF RotateRequest, Idle, TypeOK
      <3> QED BY <3>1
    <2> QED BY <1>0, <2>2, <2>3, <2>4, <2>5, <2>6, KeyLockSteps
  <1>2. CASE RevokeOld(c) /\ Goto(c, "successor")
    <2>1. calls'[c].key = calls[c].key /\ calls'[c].keys = calls[c].keys
      BY <1>0, <1>2 DEF Goto, TypeOK, Call
    <2>2. calls[c].key \notin calls[d].keys /\ ~(At(d, "successor") /\ calls[d].key = calls[c].key)
      BY <1>2 DEF RevokeOld, KeyFree, HoldsKey
    <2>3. CASE d = c
      BY <2>1, <2>2, <2>3
    <2>4. CASE d # c
      <3>1. calls'[d] = calls[d]
        BY <1>0, <1>2, <2>4 DEF Goto, TypeOK
      <3> QED BY <2>1, <2>2, <3>1 DEF At
    <2> QED BY <2>3, <2>4
  <1>3. CASE RevokeKeys(c)
    BY <1>0, <1>3 DEF RevokeKeys, TypeOK, Call
  <1>4. CASE \E u \in Users, k \in Keys : RotateRequest(c, u, k)
    BY <1>0, <1>4 DEF RotateRequest, Idle, TypeOK
  <1> QED BY <1>0, <1>1, <1>2, <1>3, <1>4, KeyLockSteps

\* A row in use keeps its owner, and a key that a rotation holds stays live.
LEMMA RowsInUse ==
  ASSUME RotateInv, [Next]_vars, NEW k \in Keys, keys[k].owner # NoUser
  PROVE  /\ keys'[k].owner = keys[k].owner
         /\ \A c \in Calls : calls[c].pc = "successor" /\ calls'[c] = calls[c] /\ calls[c].key = k
              => keys'[k].live = keys[k].live
  <1>0. TypeOK
    BY DEF RotateInv
  <1>1. CASE UNCHANGED keys
    BY <1>1
  <1>2. ASSUME NEW d \in Calls, Commit(d)
        PROVE  /\ keys'[k].owner = keys[k].owner
               /\ k \notin calls[d].keys => keys'[k] = keys[k]
    BY <1>0, <1>2 DEF Commit, TypeOK
  <1>3. ASSUME NEW d \in Calls, CreateAPIKey(d)
        PROVE  keys'[k] = keys[k]
    BY <1>0, <1>3 DEF CreateAPIKey, KeysOf, TypeOK
  <1>4. ASSUME NEW d \in Calls, InsertSuccessor(d)
        PROVE  /\ keys'[k].owner = keys[k].owner
               /\ k # calls[d].key => keys'[k] = keys[k]
               /\ calls[d].pc = "successor" /\ calls'[d].pc = "idle"
    <2>1. PICK n \in KeysOf(NoUser) :
            keys' = [keys EXCEPT ![calls[d].key].live = FALSE,
                                 ![n] = [owner |-> calls[d].user, live |-> TRUE,
                                         from |-> calls[d].key]]
      BY <1>4 DEF InsertSuccessor
    <2>2. calls[d].key \in Keys /\ n \in Keys /\ n # k
      BY <1>0, <1>4, <2>1 DEF InsertSuccessor, At, TypeOK, KeysOf
    <2>3. calls[d].pc = "successor" /\ calls'[d].pc = "idle"
      BY <1>0, <1>4 DEF InsertSuccessor, At, Return, Idle, TypeOK
    <2>4. keys'[k].owner = keys[k].owner /\ (k # calls[d].key => keys'[k] = keys[k])
      BY <1>0, <2>1, <2>2 DEF TypeOK
    <2> QED BY <2>3, <2>4
  <1>5. ASSUME NEW n \in Keys, RevokeAPIKey(n)
        PROVE  keys'[k].owner = keys[k].owner /\ (k # n => keys'[k] = keys[k]) /\ KeyFree(n)
    BY <1>0, <1>5 DEF RevokeAPIKey, TypeOK
  <1>6. ASSUME NEW c \in Calls, calls[c].pc = "successor", calls'[c] = calls[c], calls[c].key = k
        PROVE  keys'[k].live = keys[k].live
    <2>1. ASSUME NEW d \in Calls, Commit(d) PROVE keys'[k] = keys[k]
      BY <1>2, <1>6, <2>1 DEF RotateInv, Rotating
    <2>2. ASSUME NEW d \in Calls, InsertSuccessor(d) PROVE keys'[k] = keys[k]
      BY <1>4, <1>6, <2>2 DEF RotateInv, Rotating
    <2>3. ASSUME NEW n \in Keys, RevokeAPIKey(n) PROVE keys'[k] = keys[k]
      BY <1>5, <1>6, <2>3 DEF KeyFree, HoldsKey, At
    <2> QED BY <1>0, <1>1, <1>3, <2>1, <2>2, <2>3, KeyRowSteps
  <1>7. keys'[k].owner = keys[k].owner
    BY <1>0, <1>1, <1>2, <1>3, <1>4, <1>5, KeyRowSteps
  <1> QED BY <1>6, <1>7

LEMMA RotatingStep ==
  ASSUME RotateInv, [Next]_vars
  PROVE  Rotating'
  <1>0. TypeOK
    BY DEF RotateInv
  <1>1. ASSUME NEW c \in Calls, calls'[c].pc \in {"rotate", "successor"}
        PROVE  /\ keys'[calls'[c].key].owner = calls'[c].user
               /\ calls'[c].pc = "successor" => keys'[calls'[c].key].live
    <2>1. CASE calls'[c] = calls[c]
      <3>1. /\ calls[c].key \in Keys /\ calls[c].user \in Users
            /\ keys[calls[c].key].owner = calls[c].user
            /\ calls[c].pc = "successor" => keys[calls[c].key].live
        BY <1>1, <2>1 DEF RotateInv, TypeOK, At, Rotating
      <3>2. keys[calls[c].key].owner # NoUser
        BY <3>1, UsersAssumption
      <3> QED BY <2>1, <3>1, <3>2, RowsInUse
    <2>2. CASE RevokeOld(c) /\ Goto(c, "successor") /\ keys[calls[c].key].live
      <3>1. calls'[c].key = calls[c].key /\ calls'[c].user = calls[c].user
        BY <1>0, <2>2 DEF Goto, TypeOK, Call
      <3>2. UNCHANGED keys /\ calls[c].pc = "rotate"
        BY <2>2 DEF RevokeOld, At, database
      <3> QED BY <2>2, <3>1, <3>2 DEF RotateInv, Rotating
    <2>3. ASSUME NEW u \in Users, NEW k \in Keys, RotateRequest(c, u, k)
          PROVE  /\ keys'[calls'[c].key].owner = calls'[c].user
                 /\ calls'[c].pc # "successor"
      BY <1>0, <2>3 DEF RotateRequest, Idle, TypeOK, database
    <2>4. ~RevokeKeys(c)
      BY <1>0, <1>1 DEF RevokeKeys, TypeOK, Call
    <2> QED BY <1>0, <1>1, <2>1, <2>2, <2>3, <2>4, KeyLockSteps
  <1> QED BY <1>1, KeyLocksStay DEF Rotating

\* Keys that are revoked, and nothing else.
LEMMA RevokingRows ==
  ASSUME RotateInv, NEW R \in SUBSET Keys, \A k \in R : keys[k].owner # NoUser \/ ~keys[k].live,
         keys' = [k \in Keys |-> IF k \in R THEN [keys[k] EXCEPT !.live = FALSE] ELSE keys[k]]
  PROVE  RotatedOnce' /\ FreshRows'
  <1>1. ASSUME NEW k \in Keys
        PROVE  /\ keys'[k].owner = keys[k].owner
               /\ keys'[k].from = keys[k].from
               /\ ~keys[k].live => keys'[k] = keys[k]
               /\ keys[k].from # NoKey => keys[k].from \in Keys
    BY DEF RotateInv, TypeOK
  <1>2. RotatedOnce'
    <2>1. ASSUME NEW k \in Keys, keys'[k].from # NoKey
          PROVE  /\ ~keys'[keys'[k].from].live
                 /\ keys'[keys'[k].from].owner = keys'[k].owner
                 /\ \A other \in Keys : keys'[other].from = keys'[k].from => other = k
      <3>1. keys[k].from # NoKey /\ keys[k].from \in Keys
        BY <1>1, <2>1
      <3>2. /\ ~keys[keys[k].from].live
            /\ keys[keys[k].from].owner = keys[k].owner
            /\ \A other \in Keys : keys[other].from = keys[k].from => other = k
        BY <3>1 DEF RotateInv, RotatedOnce
      <3> QED BY <1>1, <3>1, <3>2
    <2> QED BY <2>1 DEF RotatedOnce
  <1>3. FreshRows'
    BY <1>1 DEF RotateInv, FreshRows, NoRow
  <1> QED BY <1>2, <1>3

LEMMA RotatedStep ==
  ASSUME RotateInv, [Next]_vars
  PROVE  RotatedOnce' /\ FreshRows'
  <1>0. TypeOK /\ RotatedOnce /\ FreshRows
    BY DEF RotateInv
  <1>1. CASE UNCHANGED keys
    BY <1>0, <1>1 DEF RotatedOnce, FreshRows
  <1>2. ASSUME NEW c \in Calls, Commit(c)
        PROVE  RotatedOnce' /\ FreshRows'
    <2>1. calls[c].keys \in SUBSET Keys
      BY <1>0 DEF TypeOK, Call
    <2>2. \A k \in Keys : keys[k].owner # NoUser \/ ~keys[k].live
      BY <1>0 DEF FreshRows, NoRow
    <2> QED BY <1>2, <2>1, <2>2, RevokingRows DEF Commit
  <1>3. ASSUME NEW k \in Keys, RevokeAPIKey(k)
        PROVE  RotatedOnce' /\ FreshRows'
    <2>1. keys[k].owner # NoUser
      BY <1>0, <1>3 DEF FreshRows, NoRow, RevokeAPIKey
    <2>2. keys' = [j \in Keys |-> IF j \in {k} THEN [keys[j] EXCEPT !.live = FALSE] ELSE keys[j]]
      BY <1>0, <1>3 DEF RevokeAPIKey, TypeOK
    <2>3. {k} \in SUBSET Keys /\ \A j \in {k} : keys[j].owner # NoUser \/ ~keys[j].live
      BY <2>1
    <2> QED BY <2>2, <2>3, RevokingRows
  <1>4. ASSUME NEW c \in Calls, CreateAPIKey(c)
        PROVE  RotatedOnce' /\ FreshRows'
    <2>1. PICK n \in KeysOf(NoUser) :
            keys' = [keys EXCEPT ![n] = [owner |-> calls[c].user, live |-> TRUE, from |-> NoKey]]
      BY <1>4 DEF CreateAPIKey
    <2>2. n \in Keys /\ keys[n] = NoRow /\ calls[c].user \in Users
      BY <1>0, <1>4, <2>1 DEF KeysOf, FreshRows, CreateAPIKey, TypeOK, At
    <2>3. /\ keys'[n].from = NoKey /\ keys'[n].owner # NoUser
          /\ \A k \in Keys : k # n => keys'[k] = keys[k]
      BY <1>0, <2>1, <2>2, UsersAssumption DEF TypeOK
    <2>4. \A k \in Keys : keys[k].from # NoKey => keys[k].from # n /\ keys[k].from \in Keys
      BY <1>0, <2>2 DEF RotatedOnce, FreshRows, NoRow, TypeOK
    <2>5. RotatedOnce'
      <3>1. ASSUME NEW k \in Keys, keys'[k].from # NoKey
            PROVE  /\ ~keys'[keys'[k].from].live
                   /\ keys'[keys'[k].from].owner = keys'[k].owner
                   /\ \A other \in Keys : keys'[other].from = keys'[k].from => other = k
        <4>1. k # n /\ keys'[k] = keys[k]
          BY <2>3, <3>1
        <4> QED BY <1>0, <2>3, <2>4, <3>1, <4>1 DEF RotatedOnce
      <3> QED BY <3>1 DEF RotatedOnce
    <2>6. FreshRows'
      BY <1>0, <2>3 DEF FreshRows, NoRow
    <2> QED BY <2>5, <2>6
  <1>5. ASSUME NEW c \in Calls, InsertSuccessor(c)
        PROVE  RotatedOnce' /\ FreshRows'
    <2>1. PICK n \in KeysOf(NoUser) :
            keys' = [keys EXCEPT ![calls[c].key].live = FALSE,
                                 ![n] = [owner |-> calls[c].user, live |-> TRUE,
                                         from |-> calls[c].key]]
      BY <1>5 DEF InsertSuccessor
    <2> DEFINE old == calls[c].key
    <2>2. /\ n \in Keys /\ keys[n] = NoRow
          /\ calls[c].user \in Users /\ old \in Keys
          /\ keys[old].owner = calls[c].user /\ keys[old].live
      BY <1>0, <1>5, <2>1
         DEF KeysOf, FreshRows, InsertSuccessor, TypeOK, At, RotateInv, Rotating
    <2>3. n # old
      BY <2>2 DEF NoRow
    <2>4. /\ keys'[n].from = old /\ keys'[n].owner = calls[c].user
          /\ keys'[old].live = FALSE /\ keys'[old].owner = calls[c].user
          /\ keys'[old].from = keys[old].from
          /\ \A k \in Keys : k # n /\ k # old => keys'[k] = keys[k]
      BY <1>0, <2>1, <2>2, <2>3 DEF TypeOK
    <2>5. \A k \in Keys : keys[k].from # NoKey =>
             keys[k].from # n /\ keys[k].from # old /\ keys[k].from \in Keys
      BY <1>0, <2>2 DEF RotatedOnce, FreshRows, NoRow, TypeOK
    <2> HIDE DEF old
    <2>6. RotatedOnce'
      <3>1. ASSUME NEW k \in Keys, keys'[k].from # NoKey
            PROVE  /\ ~keys'[keys'[k].from].live
                   /\ keys'[keys'[k].from].owner = keys'[k].owner
                   /\ \A other \in Keys : keys'[other].from = keys'[k].from => other = k
        <4>1. CASE k = n
          BY <2>2, <2>3, <2>4, <2>5, <4>1, KeysAssumption
        <4>2. CASE k # n
          <5>1. keys'[k].from = keys[k].from /\ keys'[k].owner = keys[k].owner
            BY <2>2, <2>4, <4>2
          <5>2. \A other \in Keys : keys'[other].from = keys'[k].from => keys[other].from = keys[k].from
            BY <2>4, <2>5, <3>1, <5>1
          <5> QED BY <1>0, <2>4, <2>5, <3>1, <5>1, <5>2 DEF RotatedOnce
        <4> QED BY <4>1, <4>2
      <3> QED BY <3>1 DEF RotatedOnce
    <2>7. FreshRows'
      BY <1>0, <2>2, <2>4, UsersAssumption DEF FreshRows, NoRow
    <2> QED BY <2>6, <2>7
  <1> QED BY <1>0, <1>1, <1>2, <1>3, <1>4, <1>5, KeyRowSteps

\* For any number of keys and calls: a key that has been rotated is revoked and
\* has one successor, whatever rotations and revocations race each other.
THEOREM Rotation == Spec => []RotatedOnce
  <1>1. Init => RotateInv
    <2> SUFFICES ASSUME Init PROVE RotateInv
      OBVIOUS
    <2>1. \A c \in Calls : calls[c].pc = "idle"
      BY DEF Init, Idle
    <2>2. \A k \in Keys : keys[k] = NoRow
      BY DEF Init
    <2>3. Rotating
      BY <2>1 DEF Rotating
    <2>4. \A k \in Keys : keys[k].from = NoKey
      BY <2>2 DEF NoRow
    <2>5. RotatedOnce
      BY <2>4 DEF RotatedOnce
    <2>6. FreshRows
      BY <2>2 DEF FreshRows
    <2> QED BY <2>3, <2>5, <2>6, InitTyping DEF RotateInv
  <1>2. RotateInv /\ [Next]_vars => RotateInv'
    <2> SUFFICES ASSUME RotateInv, [Next]_vars PROVE RotateInv'
      OBVIOUS
    <2>1. TypeOK'
      BY TypingStep DEF RotateInv
    <2> QED BY <2>1, RotatedStep, RotatingStep DEF RotateInv
  <1>3. RotateInv => RotatedOnce
    BY DEF RotateInv
  <1> QED BY <1>1, <1>2, <1>3, PTL DEF Spec
=============================================================================
