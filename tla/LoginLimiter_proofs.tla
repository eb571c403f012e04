-------------------------- MODULE LoginLimiter_proofs --------------------------
(***************************************************************************)
(* The bound of LoginLimiter for any clients, calls, limit and window.     *)
(***************************************************************************)
EXTENDS LoginLimiter, FiniteSetTheorems, TLAPS

-----------------------------------------------------------------------------
(* The inductive invariant.  A wrong password that is not recorded yet is  *)
(* one of a call still under way, and each call under way was let in when  *)
(* there were fewer failures than the limit.                               *)

Recording(k) == {c \in Calls : client[c] = k /\ pc[c] = "record"}
Admitted(k) == {c \in Calls : client[c] = k /\ pc[c] \in {"authenticate", "record"}}

Types ==
  /\ loginAttempts \in [Clients -> [Ages -> Nat]]
  /\ guesses \in [Clients -> [Ages -> Nat]]
  /\ pc \in [Calls -> {"idle", "authenticate", "record", "clear"}]
  /\ client \in [Calls -> Clients]

\* An older failure counts at every later age as well.
Cumulative ==
  \A k \in Clients : \A a, b \in Ages :
    a <= b => loginAttempts[k][a] <= loginAttempts[k][b]

\* Every wrong password of up to an age is kept as a failure, which is no
\* older than the password, or has yet to be recorded.
GuessesKept ==
  \A k \in Clients : \A age \in 0..(Window - 1) :
    guesses[k][age] <= loginAttempts[k][age] + Cardinality(Recording(k))

AdmittedBounded ==
  \A k \in Clients :
    loginAttempts[k][Window] + Cardinality(Admitted(k)) <= MostFailures

LimiterInv == Types /\ Cumulative /\ GuessesKept /\ AdmittedBounded

-----------------------------------------------------------------------------
(* Arithmetic of ages and of sets of calls                                 *)

LEMMA AgesFacts ==
  /\ Ages \subseteq Nat /\ 0 \in Ages /\ Window \in Ages /\ Window - 1 \in Ages
  /\ \A age \in 0..(Window - 1) : age \in Ages /\ age + 1 \in Ages /\ age # Window
  /\ \A age \in Ages : age # 0 => age - 1 \in 0..(Window - 1)
  BY LimitAssumption DEF Ages

LEMMA CallSets ==
  ASSUME NEW S \in SUBSET Calls
  PROVE  /\ IsFiniteSet(S) /\ Cardinality(S) \in Nat /\ Cardinality(Calls) \in Nat
         /\ Cardinality(S) <= Cardinality(Calls)
  BY CallsAssumption, FS_Subset, FS_CardinalityType

LEMMA RecordingFacts ==
  ASSUME NEW k
  PROVE  /\ IsFiniteSet(Recording(k)) /\ IsFiniteSet(Admitted(k))
         /\ Cardinality(Recording(k)) \in Nat /\ Cardinality(Admitted(k)) \in Nat
         /\ Cardinality(Admitted(k)) <= Cardinality(Calls)
  <1>1. Recording(k) \in SUBSET Calls /\ Admitted(k) \in SUBSET Calls
    BY DEF Recording, Admitted
  <1> QED BY <1>1, CallSets

LEMMA MostFailuresType == MostFailures \in Nat
  BY LimitAssumption, CallSets DEF MostFailures

\* The operators on the failures of one client.
LEMMA FailuresTyping ==
  ASSUME NEW f \in [Ages -> Nat]
  PROVE  /\ Empty \in [Ages -> Nat] /\ Drop(f) \in [Ages -> Nat]
         /\ Add(f) \in [Ages -> Nat] /\ Older(f) \in [Ages -> Nat]
         /\ Recent(f) \in Nat
  BY AgesFacts DEF Empty, Drop, Add, Older, Recent

-----------------------------------------------------------------------------
(* The steps                                                               *)

LEMMA InitLimiter == Init => LimiterInv
  <1> SUFFICES ASSUME Init PROVE LimiterInv OBVIOUS
  <1>1. \A k \in Clients : Recording(k) = {} /\ Admitted(k) = {}
    BY DEF Init, Recording, Admitted
  <1>2. Types /\ Cumulative
    BY AgesFacts DEF Init, Types, Cumulative, Empty
  <1>3. \A k \in Clients : Cardinality(Recording(k)) = 0 /\ Cardinality(Admitted(k)) = 0
    BY <1>1, FS_EmptySet
  <1>4. GuessesKept
    BY <1>3, AgesFacts DEF Init, GuessesKept, Empty
  <1>5. AdmittedBounded
    BY <1>3, AgesFacts, MostFailuresType DEF Init, AdmittedBounded, Empty
  <1> QED BY <1>2, <1>4, <1>5 DEF LimiterInv

LEMMA TypesStep ==
  ASSUME Types, [Next]_vars
  PROVE  Types'
  <1>1. ASSUME NEW c \in Calls, NEW k \in Clients, allowLogin(c, k)
        PROVE  Types'
    BY <1>1, FailuresTyping DEF allowLogin, Types, Goto, Kept
  <1>2. ASSUME NEW c \in Calls, Malformed(c) \/ RightPassword(c)
        PROVE  Types'
    BY <1>2 DEF Malformed, RightPassword, Types, Goto
  <1>3. ASSUME NEW c \in Calls,
               WrongPassword(c) \/ recordLoginFailure(c) \/ clearLoginFailures(c)
        PROVE  Types'
    <2>1. /\ Empty \in [Ages -> Nat]
          /\ Add(guesses[client[c]]) \in [Ages -> Nat]
          /\ Add(loginAttempts[client[c]]) \in [Ages -> Nat]
      BY FailuresTyping DEF Types
    <2>2. CASE WrongPassword(c)
      BY <2>1, <2>2 DEF WrongPassword, Types, Goto
    <2>3. CASE recordLoginFailure(c)
      BY <2>1, <2>3 DEF recordLoginFailure, Types, Goto
    <2>4. CASE clearLoginFailures(c)
      BY <2>1, <2>4 DEF clearLoginFailures, Types, Goto
    <2> QED BY <1>3, <2>2, <2>3, <2>4
  <1>4. CASE Tick
    BY <1>4, FailuresTyping DEF Tick, Types
  <1>5. CASE UNCHANGED vars
    BY <1>5 DEF vars, Types
  <1> QED BY <1>1, <1>2, <1>3, <1>4, <1>5 DEF Next

LEMMA CumulativeStep ==
  ASSUME Types, Cumulative, [Next]_vars
  PROVE  Cumulative'
  <1> SUFFICES ASSUME NEW k \in Clients, NEW a \in Ages, NEW b \in Ages, a <= b
               PROVE  loginAttempts'[k][a] <= loginAttempts'[k][b]
    BY DEF Cumulative
  <1> DEFINE f == loginAttempts[k]
  <1>1. /\ f \in [Ages -> Nat] /\ a \in Nat /\ b \in Nat /\ b <= Window
        /\ \A m, n \in Ages : m <= n => f[m] <= f[n]
    BY LimitAssumption DEF Types, Cumulative, Ages
  <1>2. Drop(f)[a] <= Drop(f)[b]
    <2>1. Drop(f) = [n \in Ages |-> IF n = Window THEN f[Window - 1] ELSE f[n]]
      BY <1>1 DEF Drop, Recent
    <2>2. a # Window => a <= Window - 1
      BY <1>1, LimitAssumption
    <2> QED BY <1>1, <2>1, <2>2, AgesFacts
  <1>3. Add(f)[a] <= Add(f)[b] /\ Empty[a] <= Empty[b]
    BY <1>1 DEF Add, Empty
  <1>4. Older(f)[a] <= Older(f)[b]
    <2>1. CASE a = 0
      BY <1>1, <2>1, FailuresTyping, AgesFacts DEF Older
    <2>2. CASE a # 0 /\ b = Window
      <3>1. a - 1 \in Ages /\ a - 1 <= Window
        BY <1>1, <2>2, AgesFacts
      <3> QED BY <1>1, <2>2, <3>1, LimitAssumption DEF Older
    <2>3. CASE a # 0 /\ b # Window
      <3>1. a - 1 \in Ages /\ b - 1 \in Ages /\ a - 1 <= b - 1 /\ b # 0 /\ a # Window
        BY <1>1, <2>3, AgesFacts
      <3> QED BY <1>1, <2>3, <3>1 DEF Older
    <2> QED BY <2>1, <2>2, <2>3
  <1>5. loginAttempts'[k] \in {f, Drop(f), Add(f), Older(f), Empty}
    BY DEF Types, Next, vars, allowLogin, Kept, Malformed, WrongPassword, RightPassword,
           recordLoginFailure, clearLoginFailures, Tick
  <1> QED BY <1>1, <1>2, <1>3, <1>4, <1>5

\* A step that changes the statement of one call at most.
LEMMA RecordingStays ==
  ASSUME NEW k, NEW c \in Calls,
         \A d \in Calls \ {c} : pc'[d] = pc[d] /\ client'[d] = client[d],
         \/ client'[c] # k /\ client[c] # k
         \/ pc[c] # "record" /\ pc'[c] # "record"
  PROVE  Recording(k)' = Recording(k)
  BY DEF Recording

LEMMA AdmittedStays ==
  ASSUME NEW k, NEW c \in Calls,
         \A d \in Calls \ {c} : pc'[d] = pc[d] /\ client'[d] = client[d],
         \/ client'[c] # k /\ client[c] # k
         \/ {pc[c], pc'[c]} \cap {"authenticate", "record"} = {}
  PROVE  Admitted(k)' = Admitted(k)
  BY DEF Admitted

\* What the invariant says of one client, with the calls counted as r and a.
KeptFor(guessed, failures, r, a) ==
  /\ \A age \in 0..(Window - 1) : guessed[age] <= failures[age] + r
  /\ failures[Window] + a <= MostFailures

For(k) == KeptFor(guesses[k], loginAttempts[k], Cardinality(Recording(k)),
                  Cardinality(Admitted(k)))

LEMMA ForEach == GuessesKept /\ AdmittedBounded <=> \A k \in Clients : For(k)
  BY DEF GuessesKept, AdmittedBounded, For, KeptFor

LEMMA AllowLoginKeeps ==
  ASSUME LimiterInv, NEW c \in Calls, NEW client0 \in Clients, allowLogin(c, client0),
         NEW k \in Clients
  PROVE  For(k)'
  <1> DEFINE f == loginAttempts[k]
  <1>1. /\ f \in [Ages -> Nat] /\ guesses[k] \in [Ages -> Nat] /\ guesses' = guesses
        /\ For(k) /\ f[Window - 1] <= f[Window]
    BY ForEach, AgesFacts, LimitAssumption
       DEF LimiterInv, Types, Cumulative, allowLogin
  <1>2. /\ \A d \in Calls \ {c} : pc'[d] = pc[d] /\ client'[d] = client[d]
        /\ pc[c] = "idle" /\ pc'[c] \in {"idle", "authenticate"} /\ client'[c] = client0
    BY DEF allowLogin, LimiterInv, Types, At, Goto
  <1>3. Recording(k)' = Recording(k)
    BY <1>2, RecordingStays
  <1>4. CASE k # client0
    <2>1. loginAttempts'[k] = f
      BY <1>4 DEF allowLogin, LimiterInv, Types
    <2>2. Admitted(k)' = Admitted(k)
      BY <1>2, <1>4 DEF Admitted
    <2> QED BY <1>1, <1>3, <2>1, <2>2 DEF For
  <1>5. CASE k = client0
    <2>1. loginAttempts'[k] = Drop(f)
      BY <1>5 DEF allowLogin, LimiterInv, Types, Kept
    <2>2. /\ \A age \in 0..(Window - 1) : Drop(f)[age] = f[age]
          /\ Drop(f)[Window] = Recent(f) /\ Recent(f) <= f[Window] /\ Recent(f) \in Nat
      BY <1>1, AgesFacts, LimitAssumption DEF Drop, Recent, Ages
    <2>3. \A age \in 0..(Window - 1) :
            guesses'[k][age] <= loginAttempts'[k][age] + Cardinality(Recording(k)')
      BY <1>1, <1>3, <2>1, <2>2 DEF For, KeptFor
    <2>4. loginAttempts'[k][Window] + Cardinality(Admitted(k)') <= MostFailures
      <3>1. CASE LockedOut(client0)
        <4>1. Admitted(k)' = Admitted(k)
          BY <1>2, <3>1, AdmittedStays DEF allowLogin, LimiterInv, Types
        <4> QED BY <1>1, <2>1, <2>2, <4>1, RecordingFacts, MostFailuresType, AgesFacts
              DEF For, KeptFor
      <3>2. CASE ~LockedOut(client0)
        <4>1. Recent(f) < Limit
          BY <1>5, <2>2, <3>2, LimitAssumption DEF LockedOut
        <4>2. Admitted(k)' \in SUBSET Calls
          BY DEF Admitted
        <4> QED BY <2>1, <2>2, <4>1, <4>2, CallSets, LimitAssumption DEF MostFailures
      <3> QED BY <3>1, <3>2
    <2> QED BY <2>3, <2>4 DEF For, KeptFor
  <1> QED BY <1>4, <1>5

LEMMA AuthenticateKeeps ==
  ASSUME LimiterInv, NEW c \in Calls,
         Malformed(c) \/ RightPassword(c) \/ WrongPassword(c),
         NEW k \in Clients
  PROVE  For(k)'
  <1>1. /\ loginAttempts[k] \in [Ages -> Nat] /\ guesses[k] \in [Ages -> Nat]
        /\ For(k) /\ loginAttempts' = loginAttempts /\ client' = client
    BY ForEach DEF LimiterInv, Types, Malformed, RightPassword, WrongPassword
  <1>2. /\ \A d \in Calls \ {c} : pc'[d] = pc[d] /\ client'[d] = client[d]
        /\ pc[c] = "authenticate"
    BY <1>1 DEF Malformed, RightPassword, WrongPassword, LimiterInv, Types, At, Goto
  <1>3. CASE Malformed(c) \/ RightPassword(c)
    <2>1. guesses' = guesses /\ pc'[c] \in {"idle", "clear"}
      BY <1>3 DEF Malformed, RightPassword, LimiterInv, Types, Goto
    <2>2. Recording(k)' = Recording(k)
      BY <1>2, <2>1, RecordingStays
    <2>3. Admitted(k)' \in SUBSET Admitted(k)
      BY <1>1, <1>2, <2>1 DEF Admitted
    <2>4. /\ Cardinality(Admitted(k)') \in Nat
          /\ Cardinality(Admitted(k)') <= Cardinality(Admitted(k))
      BY <2>3, RecordingFacts, FS_Subset, FS_CardinalityType
    <2> QED BY <1>1, <2>1, <2>2, <2>4, RecordingFacts, MostFailuresType, AgesFacts
          DEF For, KeptFor
  <1>4. CASE WrongPassword(c)
    <2>1. /\ pc'[c] = "record"
          /\ guesses' = [guesses EXCEPT ![client[c]] = Add(guesses[client[c]])]
      BY <1>4 DEF WrongPassword, LimiterInv, Types, Goto
    <2>2. Admitted(k)' = Admitted(k)
      BY <1>1, <1>2, <2>1 DEF Admitted
    <2>3. CASE client[c] # k
      <3>1. Recording(k)' = Recording(k)
        BY <1>1, <1>2, <2>3, RecordingStays
      <3> QED BY <1>1, <2>1, <2>2, <2>3, <3>1 DEF For, LimiterInv, Types
    <2>4. CASE client[c] = k
      <3>1. Recording(k)' = Recording(k) \cup {c} /\ c \notin Recording(k)
        BY <1>1, <1>2, <2>1, <2>4 DEF Recording
      <3>2. Cardinality(Recording(k)') = Cardinality(Recording(k)) + 1
        BY <3>1, RecordingFacts, FS_AddElement
      <3>3. guesses'[k] = Add(guesses[k])
        BY <2>1, <2>4 DEF LimiterInv, Types
      <3>4. \A age \in 0..(Window - 1) : guesses'[k][age] = guesses[k][age] + 1
        BY <3>3, AgesFacts DEF Add
      <3> QED BY <1>1, <2>2, <3>2, <3>4, RecordingFacts, AgesFacts DEF For, KeptFor
    <2> QED BY <2>3, <2>4
  <1> QED BY <1>3, <1>4

LEMMA BookkeepingKeeps ==
  ASSUME LimiterInv, NEW c \in Calls, recordLoginFailure(c) \/ clearLoginFailures(c),
         NEW k \in Clients
  PROVE  For(k)'
  <1> DEFINE f == loginAttempts[k]
  <1>1. /\ f \in [Ages -> Nat] /\ guesses[k] \in [Ages -> Nat] /\ For(k)
        /\ client' = client /\ pc'[c] = "idle"
        /\ \A d \in Calls \ {c} : pc'[d] = pc[d] /\ client'[d] = client[d]
    BY ForEach DEF LimiterInv, Types, recordLoginFailure, clearLoginFailures, Goto
  <1>2. CASE client[c] # k
    <2>1. Recording(k)' = Recording(k) /\ Admitted(k)' = Admitted(k)
      BY <1>1, <1>2, RecordingStays, AdmittedStays
    <2>2. loginAttempts'[k] = f /\ guesses'[k] = guesses[k]
      BY <1>2 DEF LimiterInv, Types, recordLoginFailure, clearLoginFailures
    <2> QED BY <1>1, <2>1, <2>2 DEF For
  <1>3. CASE client[c] = k /\ recordLoginFailure(c)
    <2>1. /\ pc[c] = "record" /\ guesses' = guesses
          /\ loginAttempts'[k] = Add(f)
      BY <1>3 DEF recordLoginFailure, LimiterInv, Types, At
    <2>2. /\ Recording(k)' = Recording(k) \ {c} /\ c \in Recording(k)
          /\ Admitted(k)' = Admitted(k) \ {c} /\ c \in Admitted(k)
      BY <1>1, <1>3, <2>1 DEF Recording, Admitted
    <2>3. /\ Cardinality(Recording(k)') = Cardinality(Recording(k)) - 1
          /\ Cardinality(Admitted(k)') = Cardinality(Admitted(k)) - 1
      BY <2>2, RecordingFacts, FS_RemoveElement
    <2>4. \A age \in Ages : loginAttempts'[k][age] = f[age] + 1
      BY <2>1 DEF Add
    <2> QED BY <1>1, <2>1, <2>3, <2>4, RecordingFacts, MostFailuresType, AgesFacts
          DEF For, KeptFor
  <1>4. CASE client[c] = k /\ clearLoginFailures(c)
    <2>1. loginAttempts'[k] = Empty /\ guesses'[k] = Empty /\ pc[c] = "clear"
      BY <1>4 DEF clearLoginFailures, LimiterInv, Types, At
    <2>2. Recording(k)' = Recording(k) /\ Admitted(k)' = Admitted(k)
      BY <1>1, <2>1, RecordingStays, AdmittedStays
    <2>3. /\ \A age \in 0..(Window - 1) :
               guesses'[k][age] <= loginAttempts'[k][age] + Cardinality(Recording(k)')
          /\ loginAttempts'[k][Window] = 0
      BY <2>1, <2>2, AgesFacts, RecordingFacts DEF Empty
    <2>4. Cardinality(Admitted(k)') <= MostFailures
      BY <1>1, <2>2, RecordingFacts, MostFailuresType, AgesFacts DEF For, KeptFor
    <2> QED BY <2>2, <2>3, <2>4, RecordingFacts DEF For, KeptFor
  <1> QED BY <1>2, <1>3, <1>4

LEMMA TickKeeps ==
  ASSUME LimiterInv, Tick, NEW k \in Clients
  PROVE  For(k)'
  <1> DEFINE f == loginAttempts[k]  g == guesses[k]
  <1>1. /\ f \in [Ages -> Nat] /\ g \in [Ages -> Nat] /\ For(k)
        /\ loginAttempts'[k] = Older(f) /\ guesses'[k] = Drop(Older(g))
    BY ForEach DEF LimiterInv, Types, Tick
  <1>2. Recording(k)' = Recording(k) /\ Admitted(k)' = Admitted(k)
    BY DEF Tick, Recording, Admitted
  <1>3. Older(f)[Window] = f[Window]
    BY AgesFacts, LimitAssumption DEF Older
  <1>4. ASSUME NEW age \in 0..(Window - 1)
        PROVE  guesses'[k][age] <= loginAttempts'[k][age] + Cardinality(Recording(k))
    <2>1. /\ guesses'[k][age] = Older(g)[age] /\ age \in Ages /\ age \in Nat
          /\ loginAttempts'[k][age] = Older(f)[age]
      BY <1>1, AgesFacts, FailuresTyping DEF Drop
    <2>2. CASE age = 0
      BY <2>1, <2>2, AgesFacts, RecordingFacts, LimitAssumption DEF Older
    <2>3. CASE age # 0
      <3>1. age - 1 \in 0..(Window - 1)
        BY <2>1, <2>3, AgesFacts
      <3>2. Older(g)[age] = g[age - 1] /\ Older(f)[age] = f[age - 1]
        BY <2>1, <2>3, AgesFacts DEF Older
      <3>3. g[age - 1] <= f[age - 1] + Cardinality(Recording(k))
        BY <1>1, <3>1 DEF For, KeptFor
      <3> QED BY <2>1, <3>2, <3>3
    <2> QED BY <2>2, <2>3
  <1> QED BY <1>1, <1>2, <1>3, <1>4 DEF For, KeptFor

LEMMA LimiterStep == LimiterInv /\ [Next]_vars => LimiterInv'
  <1> SUFFICES ASSUME LimiterInv, [Next]_vars PROVE LimiterInv'
    OBVIOUS
  <1>1. Types' /\ Cumulative'
    BY TypesStep, CumulativeStep DEF LimiterInv
  <1>2. ASSUME NEW k \in Clients PROVE For(k)'
    <2>1. CASE UNCHANGED vars
      <3>1. For(k) /\ Recording(k)' = Recording(k) /\ Admitted(k)' = Admitted(k)
        BY <2>1, ForEach DEF LimiterInv, vars, Recording, Admitted
      <3> QED BY <2>1, <3>1 DEF For, vars
    <2>2. CASE Next
      BY <2>2, AllowLoginKeeps, AuthenticateKeeps, BookkeepingKeeps, TickKeeps DEF Next
    <2> QED BY <2>1, <2>2
  <1>3. GuessesKept' /\ AdmittedBounded'
    BY <1>2 DEF GuessesKept, AdmittedBounded, For, KeptFor
  <1> QED BY <1>1, <1>3 DEF LimiterInv

LEMMA LimiterInvariant == Spec => []LimiterInv
  BY InitLimiter, LimiterStep, PTL DEF Spec

-----------------------------------------------------------------------------
(* The theorems                                                            *)

\* The map keeps at most MostFailures times for a client, whatever requests
\* come: allowLogin drops old ones, and only admitted calls add one each.
THEOREM Typing == Spec => []LimiterTypeOK
  <1>1. LimiterInv => LimiterTypeOK
    <2> SUFFICES ASSUME LimiterInv, NEW k \in Clients, NEW age \in Ages
                 PROVE  loginAttempts[k][age] \in 0..MostFailures
      BY DEF LimiterInv, Types, LimiterTypeOK
    <2>1. /\ loginAttempts[k] \in [Ages -> Nat] /\ age <= Window
          /\ loginAttempts[k][age] <= loginAttempts[k][Window]
      BY AgesFacts DEF LimiterInv, Types, Cumulative, Ages
    <2>2. loginAttempts[k][Window] + Cardinality(Admitted(k)) <= MostFailures
      BY DEF LimiterInv, AdmittedBounded
    <2> QED BY <2>1, <2>2, RecordingFacts, MostFailuresType, AgesFacts
  <1> QED BY <1>1, LimiterInvariant, PTL

\* Of a window of 15 minutes, no more wrong passwords are tried for a client
\* than the limit and one for each further call under way, unless a right one
\* is among them: the check and the record of localLogin are apart, but a call
\* between them is counted against what has been recorded by then.
THEOREM Bounded == Spec => []GuessesBounded
  <1>1. LimiterInv => GuessesBounded
    <2> SUFFICES ASSUME LimiterInv, NEW k \in Clients
                 PROVE  Recent(guesses[k]) <= MostFailures
      BY DEF GuessesBounded
    <2>1. /\ guesses[k][Window - 1] <= loginAttempts[k][Window - 1] + Cardinality(Recording(k))
          /\ loginAttempts[k][Window - 1] <= loginAttempts[k][Window]
          /\ loginAttempts[k][Window] + Cardinality(Admitted(k)) <= MostFailures
      BY LimitAssumption, AgesFacts DEF LimiterInv, Cumulative, GuessesKept, AdmittedBounded
    <2>2. Cardinality(Recording(k)) <= Cardinality(Admitted(k))
      <3>1. Recording(k) \in SUBSET Admitted(k)
        BY DEF Recording, Admitted
      <3> QED BY <3>1, RecordingFacts, FS_Subset
    <2>3. /\ guesses[k] \in [Ages -> Nat] /\ loginAttempts[k] \in [Ages -> Nat]
      BY DEF LimiterInv, Types
    <2> QED BY <2>1, <2>2, <2>3, RecordingFacts, MostFailuresType, AgesFacts DEF Recent
  <1> QED BY <1>1, LimiterInvariant, PTL
=============================================================================
