---------------------------- MODULE Server_proofs ---------------------------
(***************************************************************************)
(* Theorems about the three components that carry the others: Process, for *)
(* any number of requests and any settings, Pool, for any calls and any    *)
(* number of connections, and Login, for any number of tabs and keys.      *)
(***************************************************************************)
EXTENDS Process, Pool, Login, FiniteSetTheorems, TLAPS

(* Process.                                                                 *)

\* The points of the start before the goroutine that waits for the signal.
Starting == {"config", "ping", "device", "sealer", "discovery", "sweeper", "server"}

\* The socket is there while run serves, and Shutdown has closed it for good.
ListenerKnows ==
    /\ listener = "open" => main = "serve"
    /\ listener = "closed" <=> shutdown \in {"draining", "done", "gaveUp"}
    /\ main \in {"serve", "wait"} => listener # "off"
    /\ main = "wait" => listener = "closed"
    /\ main \in Starting => shutdown = "off"
    /\ listener = "closed" => ctxDone = TRUE

\* What run is about to return, and who may still be waiting for an answer.
ResultKnows ==
    /\ result # "none" <=> main = "close"
    /\ result = "stopped" => shutdown \in {"done", "gaveUp"}
    /\ exit \in {"stopped", "failed"} => exit = result
    /\ main \notin {"serve", "wait"} /\ result # "stopped" =>
          \A r \in Requests : req[r] = "none"

PoolKnows ==
    /\ pool = "open" \/ main \in {"config", "close"}
    /\ pool = "off" /\ main = "close" => result = "failed"

\* Shutdown is done only when nobody is active, and nobody comes after it.
DrainKnows ==
    /\ shutdown = "done" => \A r \in Requests : ~ Active(r)
    /\ \A r \in Requests :
          req[r] = "cut" => shutdown = "gaveUp" \/ exit \in {"killed", "panicked"}

ProcessInv == TypeOK /\ ListenerKnows /\ ResultKnows /\ PoolKnows /\ DrainKnows

LEMMA ProcessInit == Init => ProcessInv
<1> SUFFICES ASSUME Init PROVE ProcessInv
  OBVIOUS
<1>1. TypeOK
  <2>1. ctxDone \in BOOLEAN /\ trapped \in BOOLEAN
    BY Zenon DEF Init
  <2> QED
    BY <2>1, SMT DEF Init, TypeOK
<1>2. ListenerKnows /\ PoolKnows
  BY SMT DEF Init, ListenerKnows, PoolKnows
<1>3. ResultKnows /\ DrainKnows
  BY SMT DEF Init, ResultKnows, DrainKnows
<1> QED
  BY <1>1, <1>2, <1>3 DEF ProcessInv

(* The end of the process cuts off who is active, and changes nothing else. *)
LEMMA DieKeepsInv ==
    ASSUME ProcessInv, Up, NEW how, Die(how),
           \/ how \in {"killed", "panicked"}
           \/ how = result /\ main = "close"
    PROVE  ProcessInv'
<1> USE DEF ProcessInv
<1>1. TypeOK'
  BY SMT DEF TypeOK, Die, ResultKnows
<1>2. ListenerKnows' /\ PoolKnows'
  BY DEF ListenerKnows, PoolKnows, Die
<1>3. ResultKnows'
  BY SMT DEF ResultKnows, Die, Active, TypeOK
<1>4. DrainKnows'
  <2>1. ASSUME NEW r \in Requests, Active(r), how = result, main = "close"
        PROVE  shutdown = "gaveUp"
    BY <2>1, SMT DEF ResultKnows, DrainKnows, TypeOK, Active
  <2> QED
    BY <2>1, SMT DEF DrainKnows, Die, Active, Up, TypeOK
<1> QED
  BY <1>1, <1>2, <1>3, <1>4

LEMMA ProcessStep == ProcessInv /\ [Next]_vars => ProcessInv'
<1> SUFFICES ASSUME ProcessInv, [Next]_vars
             PROVE  ProcessInv'
  OBVIOUS
<1> USE DEF ProcessInv, TypeOK, ListenerKnows, ResultKnows, PoolKnows, DrainKnows,
            Starting, Active
<1>1. CASE ReadSettings
  BY <1>1, SMT DEF ReadSettings, At, Goes, Return, Up
<1>2. CASE PingOrVerify
  BY <1>2, SMT DEF PingOrVerify, At, Goes, Return, Up
<1>3. CASE NewSealer
  BY <1>3, SMT DEF NewSealer, At, Goes, Return, Up
<1>4. CASE Discover
  BY <1>4, SMT DEF Discover, At, Goes, Return, Up
<1>5. CASE StartSweeper
  BY <1>5, SMT DEF StartSweeper, At, Goes, Return, Up
<1>6. CASE NewServer
  BY <1>6, SMT DEF NewServer, At, Goes, Return, Up
<1>7. CASE Listen
  BY <1>7, SMT DEF Listen, At, Goes, Return, Up
<1>8. CASE ServeEnds
  BY <1>8, SMT DEF ServeEnds, At, Goes, Return, Up
<1>9. CASE Wait
  BY <1>9, SMT DEF Wait, At, Goes, Return, Up
<1>10. CASE ClosePool
  BY <1>10, SMT DEF ClosePool, At, Goes, Return, Up
<1>11. CASE ShutdownBegins
  <2>1. ctxDone' = TRUE /\ trapped' = FALSE /\ trapped' \in BOOLEAN
    BY <1>11, Zenon DEF ShutdownBegins
  <2>2. TypeOK'
    BY <1>11, <2>1, SMT DEF ShutdownBegins
  <2>3. ListenerKnows'
    BY <1>11, <2>1, SMT DEF ShutdownBegins
  <2>4. ResultKnows' /\ PoolKnows' /\ DrainKnows'
    BY <1>11, SMT DEF ShutdownBegins
  <2> QED
    BY <2>2, <2>3, <2>4
<1>12. CASE ShutdownEnds
  BY <1>12, SMT DEF ShutdownEnds, Up
<1>13. CASE ShutdownGivesUp
  BY <1>13, SMT DEF ShutdownGivesUp, Up
<1>14. CASE SweepTick
  BY <1>14, SMT DEF SweepTick, Sweeps, Up
<1>15. CASE SweeperStops
  BY <1>15, SMT DEF SweeperStops, Sweeps, Up
<1>16. CASE Signal
  BY <1>16, SMT DEF Signal, Up
<1>17. CASE Exit
  BY <1>17, DieKeepsInv DEF Exit, At
<1>18. CASE SignalAgain
  BY <1>18, DieKeepsInv DEF SignalAgain
<1>19. CASE PassEnds
  <2>1. CASE Sweeps("waiting")
    BY <2>1, SMT DEF Sweeps
  <2> QED
    BY <1>19, <2>1, DieKeepsInv DEF PassEnds
<1>20. ASSUME NEW r \in Requests, Accept(r) PROVE ProcessInv'
  BY <1>20, SMT DEF Accept, Handles, Up
<1>21. ASSUME NEW r \in Requests,
             BodyRead(r) \/ AcquireConn(r) \/ QueryEnds(r) \/ Answer(r)
      PROVE  ProcessInv'
  BY <1>21, SMT DEF BodyRead, AcquireConn, QueryEnds, Answer, Handles, Up
<1>22. CASE UNCHANGED vars
  BY <1>22 DEF vars
<1> QED
  BY <1>1, <1>2, <1>3, <1>4, <1>5, <1>6, <1>7, <1>8, <1>9, <1>10, <1>11, <1>12, <1>13, <1>14, <1>15, <1>16, <1>17, <1>18, <1>19, <1>20, <1>21, <1>22
     DEF Next, Main, Shutdown, Sweeper, Exited

LEMMA ProcessInvariance == Spec => []ProcessInv
BY ProcessInit, ProcessStep, PTL DEF Spec

(* Every variable of Process keeps its type.                                *)
THEOREM ProcessTypeCorrect == Spec => []TypeOK
BY ProcessInvariance, PTL DEF ProcessInv

(* Whoever was accepted is answered before the pool or the process goes     *)
(* away, unless Shutdown gave up, a second signal killed, or the sweeper    *)
(* panicked.                                                                *)
THEOREM EveryoneIsAnswered == Spec => []NobodyIsCutOff
<1>1. ProcessInv => NobodyIsCutOff
  BY SMT DEF ProcessInv, ListenerKnows, ResultKnows, PoolKnows, DrainKnows,
             NobodyIsCutOff, Active, TypeOK
<1> QED
  BY <1>1, ProcessInvariance, PTL

(* Exit status 0 means a graceful shutdown, and 1 that nobody was served.   *)
THEOREM StatusIsTrue == Spec => []ExitTellsTheTruth
<1>1. ProcessInv => ExitTellsTheTruth
  BY SMT DEF ProcessInv, ListenerKnows, ResultKnows, ExitTellsTheTruth, TypeOK
<1> QED
  BY <1>1, ProcessInvariance, PTL

-----------------------------------------------------------------------------
(* Pool.                                                                    *)

\* A row's lock belongs to the one transaction that has it, which needs
\* nothing more, or to one whose client is lost.
LockKnows ==
    /\ \A c \in Calls : pc[c] \in {"read", "commit"} => lock[UserOf[c]] = c
    /\ \A u \in LockUsers, c \in Calls :
          lock[u] = c => UserOf[c] = u /\ pc[c] \in {"read", "commit", "error"}

PoolInv == PoolTypeOK /\ LockKnows

LEMMA PoolStarts == PoolInit => PoolInv
<1> SUFFICES ASSUME PoolInit PROVE PoolInv
  OBVIOUS
<1>1. InUse = {} /\ Cardinality({}) = 0
  BY FS_EmptySet, SMT DEF PoolInit, InUse
<1>2. PoolTypeOK
  BY <1>1, CallsAssumption, SMT DEF PoolInit, PoolTypeOK
<1>3. LockKnows
  BY CallsAssumption, SMT DEF PoolInit, LockKnows, LockUsers
<1> QED
  BY <1>2, <1>3 DEF PoolInv

(* A step after which no call has a connection that had none keeps the      *)
(* pool's bound; so does one that takes a connection that was free.         *)
LEMMA BoundIsKept ==
    ASSUME PoolTypeOK,
           \/ InUse' \subseteq InUse
           \/ Free /\ \E c \in Calls : InUse' \subseteq InUse \cup {c}
    PROVE  Cardinality(InUse)' <= MaxConns
<1>1. IsFiniteSet(InUse)
  BY CallsAssumption, FS_Subset DEF InUse
<1>2. Cardinality(InUse) \in Nat /\ MaxConns \in Nat
  BY <1>1, FS_CardinalityType, CallsAssumption
<1>3. CASE InUse' \subseteq InUse
  <2>1. IsFiniteSet(InUse') /\ Cardinality(InUse') \in Nat
        /\ Cardinality(InUse') <= Cardinality(InUse)
    BY <1>1, <1>3, FS_Subset, FS_CardinalityType
  <2> QED
    BY <1>2, <2>1, SMT DEF PoolTypeOK
<1>4. ASSUME Free, NEW c \in Calls, InUse' \subseteq InUse \cup {c}
      PROVE  Cardinality(InUse)' <= MaxConns
  <2>1. /\ IsFiniteSet(InUse \cup {c})
        /\ Cardinality(InUse \cup {c}) \in {Cardinality(InUse), Cardinality(InUse) + 1}
    <3> HIDE DEF InUse
    <3> QED
      BY <1>1, FS_AddElement, Zenon
  <2>2. Cardinality(InUse') \in Nat /\ Cardinality(InUse \cup {c}) \in Nat
        /\ Cardinality(InUse') <= Cardinality(InUse \cup {c})
    BY <1>4, <2>1, FS_Subset, FS_CardinalityType
  <2> QED
    BY <1>2, <1>4, <2>1, <2>2, SMT DEF Free
<1> QED
  BY <1>3, <1>4

LEMMA PoolStep == PoolInv /\ [PoolNext]_poolVars => PoolInv'
<1> SUFFICES ASSUME PoolInv, [PoolNext]_poolVars
             PROVE  PoolInv'
  OBVIOUS
<1> USE CallsAssumption DEF PoolInv, LockKnows, CallGoes, Locks, LockUsers
<1>1. ASSUME NEW c \in Calls, Acquire(c)
      PROVE  PoolInv'
  <2>1. FirstPoint(c) \in {"lock", "key", "statement"}
    BY SMT DEF FirstPoint, Kinds
  <2>2. InUse' \subseteq InUse \cup {c} /\ Free
    BY <1>1, SMT DEF Acquire, MaySend, NeedsConn, InUse, PoolTypeOK
  <2>3. Cardinality(InUse)' <= MaxConns
    BY <2>2, BoundIsKept
  <2> QED
    BY <1>1, <2>1, <2>3, SMT DEF Acquire, PoolTypeOK
<1>2. ASSUME NEW c \in Calls, LockUser(c) \/ ReadInTransaction(c)
      PROVE  PoolInv'
  <2>1. InUse' \subseteq InUse
    BY <1>2, SMT DEF LockUser, ReadInTransaction, InUse, PoolTypeOK
  <2>2. Cardinality(InUse)' <= MaxConns
    BY <2>1, BoundIsKept
  <2> QED
    BY <1>2, <2>2, SMT DEF LockUser, ReadInTransaction, LockIsFree, PoolTypeOK
<1>3. ASSUME NEW c \in Calls, Commit(c) \/ TransactionFails(c)
      PROVE  PoolInv'
  <2>1. InUse' \subseteq InUse
    BY <1>3, SMT DEF Commit, TransactionFails, InUse, PoolTypeOK
  <2>2. Cardinality(InUse)' <= MaxConns
    BY <2>1, BoundIsKept
  <2> QED
    BY <1>3, <2>2, SMT DEF Commit, TransactionFails, PoolTypeOK
<1>4. ASSUME NEW c \in Calls,
             \/ Call(c) \/ LockTimesOut(c) \/ EnsureGrant(c)
             \/ StatementEnds(c) \/ PingTimesOut(c) \/ ConnectionLost(c)
      PROVE  PoolInv'
  <2> USE DEF Call, LockTimesOut, EnsureGrant, StatementEnds, PingTimesOut,
              ConnectionLost, InUse
  <2>1. InUse' \subseteq InUse
    BY <1>4, SMT DEF PoolTypeOK
  <2>2. Cardinality(InUse)' <= MaxConns
    BY <2>1, BoundIsKept
  <2> HIDE DEF InUse
  <2> QED
    BY <1>4, <2>2, SMT DEF PoolTypeOK, InUse
<1>5. ASSUME NEW c \in Calls, ServerAborts(c)
      PROVE  PoolInv'
  BY <1>5, SMT DEF ServerAborts, PoolTypeOK, InUse
<1>6. CASE UNCHANGED poolVars
  BY <1>6 DEF poolVars, PoolTypeOK, InUse
<1> QED
  BY <1>1, <1>2, <1>3, <1>4, <1>5, <1>6 DEF PoolNext, Progress, Finished

LEMMA PoolInvariance == PoolSpec => []PoolInv
BY PoolStarts, PoolStep, PTL DEF PoolSpec

(* The pool never has more connections than pool_max_conns, whatever fails. *)
THEOREM PoolTypeCorrect == PoolSpec => []PoolTypeOK
BY PoolInvariance, PTL DEF PoolInv

(* No set of calls waits for itself, however small the pool: who holds a    *)
(* lock does not wait, so the one who waits for a lock waits for somebody   *)
(* outside; and if all wait for connections, those who have them wait for   *)
(* none and are not in the set.                                             *)
THEOREM NobodyWaitsForHimself == PoolSpec => []NoCircularWait
<1>1. ASSUME PoolInv, NEW waiting \in SUBSET Calls, NEW c \in waiting, Stuck(waiting)
      PROVE  NeedsConn(c)
  <2>1. UserOf[c] \in LockUsers /\ \A d \in waiting :
           pc[d] \in {"lock", "key", "acquire"}
    BY <1>1, SMT DEF Stuck, NeedsConn, LockUsers
  <2>2. lock[UserOf[c]] \notin waiting
    BY <1>1, <2>1, SMT DEF PoolInv, LockKnows
  <2> QED
    BY <1>1, <2>2 DEF Stuck
<1>2. PoolInv => NoCircularWait
  <2> SUFFICES ASSUME PoolInv, NEW waiting \in SUBSET Calls, NEW c \in waiting,
                      Stuck(waiting)
               PROVE  FALSE
    BY DEF NoCircularWait
  <2>1. ~ Free /\ InUse \subseteq waiting
    BY <1>1, SMT DEF Stuck, NeedsConn
  <2>2. InUse # {}
    BY <2>1, FS_EmptySet, CallsAssumption, SMT DEF Free
  <2>3. PICK d \in InUse : NeedsConn(d)
    BY <1>1, <2>1, <2>2
  <2> QED
    BY <2>3, SMT DEF InUse, NeedsConn
<1> QED
  BY <1>2, PoolInvariance, PTL

-----------------------------------------------------------------------------
(* Login.                                                                   *)

\* A redirect carries what its own request wanted, and its own verifier.
RedirectKnows ==
    \A t \in Tabs :
        /\ at[t] \in {"provider", "callback", "token"} =>
              url[t] # None /\ url[t].state.plain.OriginalURL = want[t]
        /\ at[t] = "token" => url[t].code # None
        /\ url[t] # None =>
              /\ url[t].challenge = Challenge(url[t].verifier)
              /\ url[t].state.plain.PKCEVerifier = url[t].verifier

\* The challenge that the provider remembers for a code is that of its URL.
CodeKnows ==
    \A t \in Tabs :
        url[t] # None /\ url[t].code # None =>
            codes[url[t].code] \in {None, url[t].challenge}

LoginInv == LoginTypeOK /\ RedirectKnows /\ CodeKnows /\ ReturnsToOwnPage

(* There is always a number that nobody holds.                              *)
LEMMA FreshIsFresh ==
    ASSUME NEW S \in SUBSET Tabs, NEW f
    PROVE  Fresh({f[t] : t \in S}) \in Numbers \ {f[t] : t \in S}
<1> DEFINE held == {f[t] : t \in S}
<1>1. IsFiniteSet(S) /\ Cardinality(S) <= Cardinality(Tabs)
  BY FS_Subset, NumbersAssumption
<1>2. [t \in S |-> f[t]] \in Surjection(S, held)
  BY DEF Surjection
<1>3. IsFiniteSet(held) /\ Cardinality(held) <= Cardinality(S)
  BY <1>1, <1>2, FS_Surjection
<1>4. PICK n \in Numbers : n \notin held
  <2> HIDE DEF held
  <2> SUFFICES ASSUME Numbers \subseteq held PROVE FALSE
    OBVIOUS
  <2>1. Cardinality(Numbers) <= Cardinality(held)
    BY <1>3, FS_Subset
  <2>2. /\ Cardinality(Numbers) \in Nat /\ Cardinality(Tabs) \in Nat
        /\ Cardinality(S) \in Nat /\ Cardinality(held) \in Nat
    BY <1>1, <1>3, NumbersAssumption, FS_CardinalityType
  <2> QED
    BY <1>1, <1>3, <2>1, <2>2, NumbersAssumption, SMT
<1> HIDE DEF held
<1>5. Fresh(held) \in Numbers \ held
  BY <1>4 DEF Fresh
<1> QED
  BY <1>5 DEF held

LEMMA NumbersAreFresh ==
    /\ Fresh(Verifiers) \in Numbers \ Verifiers
    /\ Fresh(Codes) \in Numbers \ Codes
<1> DEFINE S == {t \in Tabs : url[t] # None}
<1>1. Verifiers = {[u \in Tabs |-> url[u].verifier][t] : t \in S}
  BY DEF Verifiers
<1>2. Codes = {[u \in Tabs |-> url[u].code][t] : t \in S}
  BY DEF Codes
<1>3. S \in SUBSET Tabs
  OBVIOUS
<1> HIDE DEF S
<1> QED
  BY <1>1, <1>2, <1>3, FreshIsFresh

LEMMA PathsAre == Paths = {"/", "/jobs", "/job"}
BY DEF Paths, RequestLines

\* The parts of a URL.
LEMMA URLParts ==
    ASSUME NEW u \in URLs
    PROVE  /\ u # None
           /\ u.code \in Numbers \cup {None} /\ u.verifier \in Numbers
           /\ u.challenge \in Challenges /\ u.state \in States
           /\ u.state.plain.OriginalURL \in Paths
           /\ u.state.plain.PKCEVerifier \in Numbers
<1>1. u # None
  BY NoneAssumption
<1>2. /\ u.code \in Numbers \cup {None} /\ u.verifier \in Numbers
      /\ u.challenge \in Challenges /\ u.state \in States
  BY SMT DEF URLs
<1>3. /\ u.state.plain.OriginalURL \in Paths
      /\ u.state.plain.PKCEVerifier \in Numbers
  BY <1>2, SMT DEF States
<1> QED
  BY <1>1, <1>2, <1>3

LEMMA LoginStarts == LoginInit => LoginInv
<1> SUFFICES ASSUME LoginInit PROVE LoginInv
  OBVIOUS
<1>1. LoginTypeOK
  BY PathsAre, SMT DEF LoginInit, LoginTypeOK, NoLine
<1>2. RedirectKnows /\ CodeKnows
  BY SMT DEF LoginInit, RedirectKnows, CodeKnows
<1>3. ReturnsToOwnPage
  BY SMT DEF LoginInit, ReturnsToOwnPage
<1> QED
  BY <1>1, <1>2, <1>3 DEF LoginInv

(* Steps that touch neither URLs nor codes, and after which only a tab that *)
(* was in the middle of a login still is.                                   *)
LEMMA QuietStep ==
    ASSUME LoginInv, UNCHANGED <<url, want, codes>>, LoginTypeOK', ReturnsToOwnPage',
           \A t \in Tabs :
              /\ at'[t] \in {"provider", "callback", "token"} =>
                    at[t] \in {"provider", "callback", "token"}
              /\ at'[t] = "token" => url[t].code # None
    PROVE  LoginInv'
<1>1. RedirectKnows'
  BY Zenon DEF LoginInv, RedirectKnows
<1>2. CodeKnows'
  BY Zenon DEF LoginInv, CodeKnows
<1> QED
  BY <1>1, <1>2 DEF LoginInv

LEMMA AskStep ==
    ASSUME LoginInv, NEW t \in Tabs, NEW request \in RequestLines, Ask(t, request)
    PROVE  LoginInv'
<1> USE DEF LoginInv, LoginTypeOK, Ask, TabGoes
<1>1. request \in {"GET", "POST"} \X Paths /\ request[2] \in Paths
  BY PathsAre DEF RequestLines
<1>2. LoginTypeOK'
  BY <1>1, SMT
<1>3. RedirectKnows'
  BY SMT DEF RedirectKnows
<1>4. CodeKnows'
  BY SMT DEF CodeKnows
<1>5. ReturnsToOwnPage'
  BY <1>1, SMT DEF ReturnsToOwnPage
<1> QED
  BY <1>2, <1>3, <1>4, <1>5

LEMMA GetAuthURLStep ==
    ASSUME LoginInv, NEW t \in Tabs, GetAuthURL(t)
    PROVE  LoginInv'
<1> USE DEF LoginInv, LoginTypeOK, TabGoes
<1> DEFINE verifier == Fresh(Verifiers)
           plain == [OriginalURL |-> line[t][2], PKCEVerifier |-> verifier]
           state == [key |-> key, label |-> "oidc_state", plain |-> plain]
           new == [code |-> None, verifier |-> verifier,
                   challenge |-> Challenge(verifier), state |-> state]
<1>1. verifier \in Numbers
  BY NumbersAreFresh
<1>2. line[t][2] \in Paths /\ line[t][2] = want[t]
  BY SMT DEF GetAuthURL, ReturnsToOwnPage
<1>3. state \in States
  BY <1>1, <1>2, SMT DEF States
<1>4. new \in URLs
  <2> HIDE DEF state, verifier
  <2>1. Challenge(verifier) \in Challenges
    BY <1>1 DEF Challenges
  <2> HIDE DEF Challenges
  <2> QED
    BY <1>1, <1>3, <2>1, SMT DEF URLs
<1>5. /\ new.code = None /\ new.challenge = Challenge(new.verifier)
      /\ new.state.plain.OriginalURL = want[t]
      /\ new.state.plain.PKCEVerifier = new.verifier
  BY <1>2
<1>6. /\ url' = [url EXCEPT ![t] = new]
      /\ at' = [at EXCEPT ![t] = "provider"]
      /\ line' = [line EXCEPT ![t] = NoLine]
      /\ UNCHANGED <<want, codes, jar, key>>
  BY DEF GetAuthURL, Seal
<1>7. new # None
  BY <1>4, URLParts
<1> HIDE DEF new
<1>8. NoLine \in {"GET", "POST"} \X Paths
  BY PathsAre DEF NoLine
<1>9. LoginTypeOK'
  BY <1>4, <1>6, <1>8, SMT
<1>10. RedirectKnows'
  BY <1>5, <1>6, <1>7, SMT DEF RedirectKnows
<1>11. CodeKnows'
  BY <1>5, <1>6, SMT DEF CodeKnows
<1>12. ReturnsToOwnPage'
  BY <1>6, SMT DEF ReturnsToOwnPage
<1> QED
  BY <1>9, <1>10, <1>11, <1>12

LEMMA AuthorizeStep ==
    ASSUME LoginInv, NEW t \in Tabs, Authorize(t)
    PROVE  LoginInv'
<1> USE DEF LoginInv, LoginTypeOK, TabGoes
<1> DEFINE code == Fresh(Codes)
           new == [url[t] EXCEPT !.code = code]
<1>1. code \in Numbers /\ code \notin Codes /\ code # None
  BY NumbersAreFresh, NumbersAssumption
<1>2. url[t] \in URLs /\ url[t] # None
  BY SMT DEF Authorize, RedirectKnows
<1>3. new \in URLs
  BY <1>1, <1>2, SMT DEF URLs
<1>4. /\ new.code = code /\ new.verifier = url[t].verifier
      /\ new.challenge = url[t].challenge /\ new.state = url[t].state
  BY <1>2, SMT DEF URLs
<1>5. new # None
  BY <1>3, URLParts
<1>6. /\ url' = [url EXCEPT ![t] = new]
      /\ at' = [at EXCEPT ![t] = "callback"] /\ at[t] = "provider"
      /\ codes' = [c \in Numbers |-> IF c = code THEN url[t].challenge
                                    ELSE IF c \in Codes THEN codes[c] ELSE None]
      /\ UNCHANGED <<line, want, jar, key>>
  BY DEF Authorize
<1>7. url[t].challenge \in Challenges
  BY <1>2, URLParts
<1>8. \A u \in Tabs : url[u] # None => url[u].code \in Codes
  BY DEF Codes
<1> HIDE DEF new, code
<1>9. LoginTypeOK'
  <2>1. codes' \in [Numbers -> Challenges \cup {None}]
    BY <1>6, <1>7, SMT
  <2> QED
    BY <1>3, <1>6, <2>1, SMT
<1>10. RedirectKnows'
  BY <1>2, <1>4, <1>5, <1>6, SMT DEF RedirectKnows
<1>11. CodeKnows'
  <2> SUFFICES ASSUME NEW u \in Tabs, url'[u] # None, url'[u].code # None
               PROVE  codes'[url'[u].code] \in {None, url'[u].challenge}
    BY DEF CodeKnows
  <2>1. CASE u = t
    BY <1>1, <1>4, <1>6, <2>1, SMT
  <2>2. CASE u # t
    <3>1. url'[u] = url[u] /\ url[u].code \in Codes /\ url[u].code # code
      BY <1>1, <1>6, <1>8, <2>2
    <3>2. url[u].code \in Numbers
      BY <3>1, URLParts
    <3>3. codes'[url[u].code] = codes[url[u].code]
      BY <1>6, <3>1, <3>2
    <3> QED
      BY <3>1, <3>3 DEF CodeKnows
  <2> QED
    BY <2>1, <2>2
<1>12. ReturnsToOwnPage'
  BY <1>6, SMT DEF ReturnsToOwnPage
<1> QED
  BY <1>9, <1>10, <1>11, <1>12

LEMMA ExchangeStep ==
    ASSUME LoginInv, NEW t \in Tabs, Exchange(t)
    PROVE  LoginInv'
<1> USE DEF LoginInv, LoginTypeOK
<1>1. PICK point \in {"token", "refused"} : at' = [at EXCEPT ![t] = point]
  BY DEF Exchange, TabGoes
<1>2. \/ UNCHANGED codes
      \/ codes' = [codes EXCEPT ![url[t].code] = None]
  BY DEF Exchange
<1>3. /\ UNCHANGED <<line, url, want, jar, key>>
      /\ at[t] = "callback" /\ url[t].code # None
  BY DEF Exchange
<1>4. LoginTypeOK'
  BY <1>1, <1>2, <1>3, SMT
<1>5. RedirectKnows'
  BY <1>1, <1>3, SMT DEF RedirectKnows
<1>6. CodeKnows'
  <2>1. \A u \in Tabs : url[u] # None /\ url[u].code # None => url[u].code \in Numbers
    BY URLParts
  <2>2. \A n \in Numbers : codes'[n] \in {None, codes[n]}
    BY <1>2, SMT
  <2> QED
    BY <1>3, <2>1, <2>2, Zenon DEF CodeKnows
<1>7. ReturnsToOwnPage'
  BY <1>1, <1>3, SMT DEF ReturnsToOwnPage
<1> QED
  BY <1>4, <1>5, <1>6, <1>7

LEMMA BrowserStep ==
    ASSUME LoginInv, NEW t \in Tabs,
           Reload(t) \/ \E copy \in Tabs : Duplicate(t, copy)
    PROVE  LoginInv'
<1> USE DEF LoginInv, LoginTypeOK, TabGoes
<1>1. CASE Reload(t)
  <2> USE <1>1 DEF Reload
  <2>1. url[t].state.plain.OriginalURL \in Paths
    BY URLParts
  <2>2. LoginTypeOK'
    BY <2>1, SMT
  <2>3. RedirectKnows' /\ CodeKnows' /\ ReturnsToOwnPage'
    BY SMT DEF RedirectKnows, CodeKnows, ReturnsToOwnPage
  <2> QED
    BY <2>2, <2>3
<1>2. ASSUME NEW copy \in Tabs, Duplicate(t, copy)
      PROVE  LoginInv'
  <2> USE <1>2 DEF Duplicate
  <2>1. LoginTypeOK'
    BY SMT
  <2>2. RedirectKnows'
    BY SMT DEF RedirectKnows
  <2>3. CodeKnows' /\ ReturnsToOwnPage'
    BY SMT DEF CodeKnows, ReturnsToOwnPage
  <2> QED
    BY <2>1, <2>2, <2>3
<1> QED
  BY <1>1, <1>2

LEMMA LoginStep == LoginInv /\ [LoginNext]_loginVars => LoginInv'
<1> SUFFICES ASSUME LoginInv, [LoginNext]_loginVars
             PROVE  LoginInv'
  OBVIOUS
<1>1. ASSUME NEW t \in Tabs,
             Serve(t) \/ Deny(t) \/ CallbackRefused(t) \/ LoginFails(t)
      PROVE  LoginInv'
  <2> USE <1>1 DEF Serve, Deny, CallbackRefused, LoginFails, TabGoes, LoginInv
  <2>1. LoginTypeOK'
    BY SMT DEF LoginTypeOK
  <2>2. ReturnsToOwnPage'
    BY SMT DEF ReturnsToOwnPage, LoginTypeOK
  <2>3. \A u \in Tabs :
           /\ at'[u] \in {"provider", "callback", "token"} =>
                 at[u] \in {"provider", "callback", "token"}
           /\ at'[u] = "token" => url[u].code # None
    BY SMT DEF RedirectKnows, LoginTypeOK
  <2> QED
    BY <2>1, <2>2, <2>3, QuietStep
<1>2. ASSUME NEW t \in Tabs, Issue(t)
      PROVE  LoginInv'
  <2> USE <1>2 DEF Issue, TabGoes, LoginInv
  <2>1. url[t] # None /\ url[t].state.plain.OriginalURL = want[t]
    BY SMT DEF RedirectKnows
  <2>2. LoginTypeOK'
    BY <2>1, SMT DEF LoginTypeOK, Seal, Cookies
  <2>3. ReturnsToOwnPage'
    BY <2>1, SMT DEF ReturnsToOwnPage, LoginTypeOK
  <2>4. \A u \in Tabs :
           /\ at'[u] \in {"provider", "callback", "token"} =>
                 at[u] \in {"provider", "callback", "token"}
           /\ at'[u] = "token" => url[u].code # None
    BY SMT DEF RedirectKnows, LoginTypeOK
  <2> QED
    BY <2>2, <2>3, <2>4, QuietStep
<1>3. CASE Expire \/ Restart
  <2> USE <1>3 DEF Expire, Restart, LoginInv
  <2>1. LoginTypeOK'
    BY SMT DEF LoginTypeOK
  <2>2. ReturnsToOwnPage'
    BY SMT DEF ReturnsToOwnPage, LoginTypeOK
  <2>3. \A u \in Tabs :
           /\ at'[u] \in {"provider", "callback", "token"} =>
                 at[u] \in {"provider", "callback", "token"}
           /\ at'[u] = "token" => url[u].code # None
    BY SMT DEF RedirectKnows, LoginTypeOK
  <2> QED
    BY <2>1, <2>2, <2>3, QuietStep
<1>4. CASE UNCHANGED loginVars
  BY <1>4 DEF loginVars, LoginInv, LoginTypeOK, RedirectKnows, CodeKnows, ReturnsToOwnPage
<1> QED
  BY <1>1, <1>2, <1>3, <1>4, AskStep, GetAuthURLStep, AuthorizeStep, ExchangeStep,
     BrowserStep
     DEF LoginNext, Step

LEMMA LoginInvariance == LoginSpec => []LoginInv
BY LoginStarts, LoginStep, PTL DEF LoginSpec

(* Every variable of Login keeps its type; in particular the cookie jar     *)
(* only ever holds what was sealed as a session.                            *)
THEOREM LoginTypeCorrect == LoginSpec => []LoginTypeOK
BY LoginInvariance, PTL DEF LoginInv

(* However many tabs log in at the same time through one cookie jar, each   *)
(* ends at the page that it asked for, and a code that is still good is     *)
(* presented with the verifier of its own redirect, whatever was            *)
(* duplicated, reloaded or restarted.                                       *)
THEOREM TabsStayApart == LoginSpec => []TabsDoNotMix
<1>1. LoginInv => OwnVerifierFits
  BY Zenon DEF LoginInv, RedirectKnows, CodeKnows, OwnVerifierFits
<1>2. LoginInv => ReturnsToOwnPage
  BY DEF LoginInv
<1> QED
  BY <1>1, <1>2, LoginInvariance, PTL DEF TabsDoNotMix

-----------------------------------------------------------------------------
(* Redirects end.                                                           *)

\* The redirects and answers that tab t's request can still take.
TripLeft(t) ==
    CASE at[t] = "request"  -> IF Opens("session", jar) THEN 1 ELSE 5
      [] at[t] = "provider" -> 4
      [] at[t] = "callback" -> 3
      [] at[t] = "token"    -> 2
      [] at[t] \in {"idle", "shown", "refused"} -> 0

(* Each step takes a tab nearer to its page or to an error.  Only the user, *)
(* who asks again, and a restart with another key make its way longer: that *)
(* other tabs log in and that the cookie expires do not.                    *)
TripsEnd ==
    [][\A t \in Tabs :
          /\ Step(t) => TripLeft(t)' < TripLeft(t)
          /\ TripLeft(t)' > TripLeft(t) =>
                at[t] \in {"idle", "shown", "refused"} \/ key' # key]_loginVars

LEMMA StepIsNearer ==
    ASSUME LoginInv, NEW t \in Tabs, Step(t)
    PROVE  TripLeft(t)' < TripLeft(t)
<1>1. /\ at \in [Tabs -> {"idle", "request", "provider", "callback", "token",
                          "shown", "refused"}]
      /\ key \in Keys
  BY DEF LoginInv, LoginTypeOK
<1>2. CASE Issue(t)
  <2>1. at[t] = "token" /\ at'[t] = "request" /\ jar' = Seal("session", None) /\ key' = key
    BY <1>1, <1>2 DEF Issue, TabGoes
  <2>2. Seal("session", None) \in Cookies
    BY <1>1 DEF Seal, Cookies
  <2>3. Seal("session", None) # None
    BY <2>2, NoneAssumption
  <2>4. Opens("session", jar)'
    BY <2>1, <2>3 DEF Opens, Seal
  <2> QED
    BY <2>1, <2>4, SMT DEF TripLeft
<1>3. CASE Serve(t)
  <2>1. at[t] = "request" /\ Opens("session", jar) /\ at'[t] \in {"shown", "refused"}
    BY <1>1, <1>3 DEF Serve, TabGoes
  <2> QED
    BY <2>1, SMT DEF TripLeft
<1>4. CASE GetAuthURL(t)
  <2>1. at[t] = "request" /\ ~ Opens("session", jar) /\ at'[t] = "provider"
    BY <1>1, <1>4 DEF GetAuthURL, TabGoes
  <2> QED
    BY <2>1, SMT DEF TripLeft
<1>5. CASE Authorize(t) \/ Deny(t) \/ CallbackRefused(t) \/ Exchange(t) \/ LoginFails(t)
  <2>1. \/ at[t] = "provider" /\ at'[t] = "callback"
        \/ at[t] = "callback" /\ at'[t] \in {"token", "refused"}
        \/ at[t] = "token" /\ at'[t] = "refused"
    BY <1>1, <1>5, SMT
       DEF Authorize, Deny, CallbackRefused, Exchange, LoginFails, TabGoes
  <2> QED
    BY <2>1, SMT DEF TripLeft
<1> QED
  BY <1>2, <1>3, <1>4, <1>5 DEF Step

LEMMA OthersDoNotDelay ==
    ASSUME LoginInv, NEW t \in Tabs, LoginNext, ~ Step(t),
           at[t] \notin {"idle", "shown", "refused"}, key' = key
    PROVE  /\ at'[t] = at[t]
           /\ at[t] = "request" /\ Opens("session", jar) => Opens("session", jar)'
<1>1. /\ at \in [Tabs -> {"idle", "request", "provider", "callback", "token",
                          "shown", "refused"}]
      /\ key \in Keys
  BY DEF LoginInv, LoginTypeOK
<1>2. ASSUME NEW u \in Tabs, Step(u)
      PROVE  /\ at'[t] = at[t]
             /\ jar' = jar \/ jar' = Seal("session", None)
  <2>1. u # t
    BY <1>2
  <2> QED
    BY <1>1, <1>2, <2>1, SMT
       DEF Step, Serve, GetAuthURL, Authorize, Deny, CallbackRefused, Exchange,
           LoginFails, Issue, TabGoes
<1>3. ASSUME NEW u \in Tabs, Reload(u)
      PROVE  at'[t] = at[t] /\ jar' = jar
  BY <1>1, <1>3 DEF Reload, TabGoes
<1>4. ASSUME NEW u \in Tabs, NEW request \in RequestLines, Ask(u, request)
      PROVE  at'[t] = at[t] /\ jar' = jar
  BY <1>1, <1>4 DEF Ask, TabGoes
<1>5. ASSUME NEW u \in Tabs, NEW copy \in Tabs, Duplicate(u, copy)
      PROVE  at'[t] = at[t] /\ jar' = jar
  BY <1>1, <1>5 DEF Duplicate, TabGoes
<1>6. CASE Expire
  BY <1>6 DEF Expire
<1>7. CASE Restart
  <2>1. PICK k \in Keys : k > key /\ key' = k
    BY <1>7 DEF Restart
  <2> QED
    BY <1>1, <2>1, KeysAssumption, SMT
<1>8. jar' = jar \/ jar' = Seal("session", None) => (Opens("session", jar) => Opens("session", jar)')
  <2>1. Seal("session", None) \in Cookies
    BY <1>1 DEF Seal, Cookies
  <2>2. Seal("session", None) # None
    BY <2>1, NoneAssumption
  <2> QED
    BY <2>2 DEF Opens, Seal
<1> QED
  BY <1>2, <1>3, <1>4, <1>5, <1>6, <1>7, <1>8 DEF LoginNext

(* A request of a tab takes at most five steps - to the provider, back, the *)
(* exchange, and the page - and five more for each restart on the way.      *)
THEOREM RedirectsEnd == LoginSpec => TripsEnd
<1>1. LoginInv /\ [LoginNext]_loginVars =>
        [\A t \in Tabs :
            /\ Step(t) => TripLeft(t)' < TripLeft(t)
            /\ TripLeft(t)' > TripLeft(t) =>
                  at[t] \in {"idle", "shown", "refused"} \/ key' # key]_loginVars
  <2> SUFFICES ASSUME LoginInv, LoginNext, NEW t \in Tabs
               PROVE  /\ Step(t) => TripLeft(t)' < TripLeft(t)
                      /\ TripLeft(t)' > TripLeft(t) =>
                            at[t] \in {"idle", "shown", "refused"} \/ key' # key
    OBVIOUS
  <2>1. TripLeft(t) \in Nat
    BY SMT DEF LoginInv, LoginTypeOK, TripLeft
  <2>2. CASE Step(t)
    <3>1. TripLeft(t)' < TripLeft(t)
      BY <2>2, StepIsNearer
    <3>2. TripLeft(t)' \in Nat
      <4>1. at'[t] \in {"idle", "request", "provider", "callback", "token", "shown", "refused"}
        BY LoginStep DEF LoginInv, LoginTypeOK
      <4> QED
        BY <4>1, SMT DEF TripLeft
    <3> QED
      BY <2>1, <3>1, <3>2, SMT
  <2>3. CASE ~ Step(t)
    <3> SUFFICES ASSUME at[t] \notin {"idle", "shown", "refused"}, key' = key
                 PROVE  ~ (TripLeft(t)' > TripLeft(t))
      BY <2>3
    <3>1. /\ at'[t] = at[t]
          /\ at[t] = "request" /\ Opens("session", jar) => Opens("session", jar)'
      BY <2>3, OthersDoNotDelay
    <3>2. at[t] \in {"request", "provider", "callback", "token"}
      BY DEF LoginInv, LoginTypeOK
    <3> QED
      BY <3>1, <3>2, SMT DEF TripLeft
  <2> QED
    BY <2>2, <2>3
<1> QED
  BY <1>1, LoginInvariance, PTL DEF LoginSpec, TripsEnd

=============================================================================
