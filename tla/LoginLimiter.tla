----------------------------- MODULE LoginLimiter -----------------------------
(***************************************************************************)
(* The limit on failed local logins per client (Server.loginAttempts).     *)
(* localLogin asks allowLogin first, checks the password without holding   *)
(* the mutex, and records or clears failures after that; calls of one      *)
(* client run in parallel.                                                 *)
(*                                                                         *)
(* A client's list of times is how many of its failures are at most how    *)
(* many ticks old: Window ticks are the 15 minutes, and the last entry     *)
(* counts the older failures too.                                          *)
(***************************************************************************)
EXTENDS Naturals, FiniteSets

CONSTANTS
  Clients,   \* values of clientKey
  Calls,     \* requests that are handled at the same time
  Limit,     \* failures in the window that lock a client out (10)
  Window     \* length of the window in ticks

ASSUME LimitAssumption == Limit \in Nat \ {0} /\ Window \in Nat \ {0}
ASSUME CallsAssumption == IsFiniteSet(Calls)

VARIABLES
  loginAttempts,   \* per client and age, the failures kept that are no older
  pc, client,      \* the calls of localLogin
  guesses          \* wrong passwords tried since the last good one, likewise

vars == <<loginAttempts, pc, client, guesses>>

-----------------------------------------------------------------------------

Ages == 0..Window
Empty == [age \in Ages |-> 0]
Recent(failures) == failures[Window - 1]
Drop(failures) == [failures EXCEPT ![Window] = Recent(failures)]

\* One failure more, of just now.
Add(failures) == [age \in Ages |-> failures[age] + 1]

\* After a tick.
Older(failures) ==
  [age \in Ages |-> IF age = 0 THEN 0
                    ELSE IF age = Window THEN failures[age] ELSE failures[age - 1]]

Init ==
  /\ loginAttempts = [k \in Clients |-> Empty]
  /\ pc = [c \in Calls |-> "idle"]
  /\ client \in [Calls -> Clients]
  /\ guesses = [k \in Clients |-> Empty]

At(c, p) == pc[c] = p
Goto(c, p) == pc' = [pc EXCEPT ![c] = p]

\* Mutant: one failure too many.
LockedOutLate(k) == Recent(loginAttempts[k]) > Limit

LockedOut(k) == Recent(loginAttempts[k]) >= Limit

\* Mutant: nothing is ever dropped.
AllKept(k) == loginAttempts[k]

\* Mutant: a request that is turned away starts the window anew.
KeptRenewed(k) ==
  IF LockedOut(k) THEN [age \in Ages |-> Recent(loginAttempts[k])]
                  ELSE Drop(loginAttempts[k])

\* What allowLogin leaves: failures in the window, and no trace of the request.
Kept(k) == Drop(loginAttempts[k])

allowLogin(c, k) ==
  /\ At(c, "idle")
  /\ client' = [client EXCEPT ![c] = k]
  /\ loginAttempts' = [loginAttempts EXCEPT ![k] = Kept(k)]
  /\ IF LockedOut(k) THEN UNCHANGED pc ELSE Goto(c, "authenticate")
  /\ UNCHANGED guesses

\* The body cannot be decoded.
Malformed(c) ==
  /\ At(c, "authenticate")
  /\ Goto(c, "idle")
  /\ UNCHANGED <<loginAttempts, client, guesses>>

\* AuthenticateLocal, which the mutex does not cover.
WrongPassword(c) ==
  /\ At(c, "authenticate")
  /\ guesses' = [guesses EXCEPT ![client[c]] = Add(@)]
  /\ Goto(c, "record")
  /\ UNCHANGED <<loginAttempts, client>>

\* The session is created, or the call ends if it cannot be.
RightPassword(c) ==
  /\ At(c, "authenticate")
  /\ Goto(c, "clear") \/ Goto(c, "idle")
  /\ UNCHANGED <<loginAttempts, client, guesses>>

recordLoginFailure(c) ==
  /\ At(c, "record")
  /\ loginAttempts' = [loginAttempts EXCEPT ![client[c]] = Add(@)]
  /\ Goto(c, "idle")
  /\ UNCHANGED <<client, guesses>>

clearLoginFailures(c) ==
  /\ At(c, "clear")
  /\ loginAttempts' = [loginAttempts EXCEPT ![client[c]] = Empty]
  /\ guesses' = [guesses EXCEPT ![client[c]] = Empty]
  /\ Goto(c, "idle")
  /\ UNCHANGED client

\* Time passes, also while calls are handled.
Tick ==
  /\ loginAttempts' = [k \in Clients |-> Older(loginAttempts[k])]
  /\ guesses' = [k \in Clients |-> Drop(Older(guesses[k]))]
  /\ UNCHANGED <<pc, client>>

Next ==
  \/ \E c \in Calls, k \in Clients : allowLogin(c, k)
  \/ \E c \in Calls :
       \/ Malformed(c) \/ WrongPassword(c) \/ RightPassword(c)
       \/ recordLoginFailure(c) \/ clearLoginFailures(c)
  \/ Tick

Spec == Init /\ [][Next]_vars

\* Time does not stand still; nothing is assumed of clients and calls.
FairSpec == Spec /\ WF_vars(Tick)

-----------------------------------------------------------------------------
(* Properties                                                              *)

\* The most failures a window may hold: calls that are allowed before any of
\* them has recorded its failure come on top of the limit.
MostFailures == Limit - 1 + Cardinality(Calls)

\* The types; the map keeps no more failures of a client than that, old ones
\* included.
LimiterTypeOK ==
  /\ loginAttempts \in [Clients -> [Ages -> 0..MostFailures]]
  /\ guesses \in [Clients -> [Ages -> Nat]]
  /\ pc \in [Calls -> {"idle", "authenticate", "record", "clear"}]
  /\ client \in [Calls -> Clients]

\* However the calls of a client interleave, and however late a failure is
\* recorded: no window of 15 minutes sees more wrong passwords than the limit
\* and the calls in parallel account for, unless a right one is among them.
GuessesBounded ==
  \A k \in Clients : Recent(guesses[k]) <= MostFailures

\* A client that is locked out is allowed again, also one that keeps trying.
LockEnds ==
  \A k \in Clients : LockedOut(k) ~> ~LockedOut(k)
=============================================================================
