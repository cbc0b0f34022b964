--------------------------- MODULE Session_proofs ---------------------------
(***************************************************************************)
(* Theorems about Session for every number of tabs, every lifetime, and    *)
(* every resolution of the clock.                                          *)
(***************************************************************************)
EXTENDS Session, TLAPS

(* Division rounds down.                                                    *)
LEMMA Division ==
    ASSUME NEW a \in Nat, NEW d \in Nat \ {0}
    PROVE  a \div d \in Nat /\ d * (a \div d) <= a /\ a < d * (a \div d) + d
<1>1. a \div d \in Nat
  BY SMT
<1>2. d * (a \div d) <= a
  BY Z3
<1>3. a < d * (a \div d) + d
  BY Z3
<1> QED
  BY <1>1, <1>2, <1>3

(* Whole seconds grow with time, and lag by less than one second.           *)
LEMMA UnixBounds ==
    ASSUME NEW a \in Nat, NEW b \in Nat
    PROVE  /\ Unix(a) \in Nat /\ Unix(b) \in Nat
           /\ a <= b => Unix(a) <= Unix(b)
           /\ Unix(a) <= Unix(b) => a < b + Second
<1>1. Second \in Nat \ {0}
  BY TimesAssumption
<1> PICK q \in Nat, qd \in Nat :
      q = Unix(a) /\ qd = Second * q /\ qd <= a /\ a < qd + Second
  BY <1>1, Division, SMT DEF Unix
<1> PICK p \in Nat, pd \in Nat :
      p = Unix(b) /\ pd = Second * p /\ pd <= b /\ b < pd + Second
  BY <1>1, Division, SMT DEF Unix
<1>2. q <= p => qd <= pd
  BY <1>1, SMT
<1>3. p < q => pd + Second <= qd
  <2> SUFFICES ASSUME p < q PROVE pd + Second <= qd
    OBVIOUS
  <2> PICK e \in Nat : q = p + 1 + e
    <3>1. q - p - 1 \in Nat /\ q = p + 1 + (q - p - 1)
      BY SMT
    <3> QED
      BY <3>1
  <2>1. Second * (p + 1 + e) = Second * p + Second + Second * e /\ Second * e \in Nat
    BY <1>1, SMT
  <2> QED
    BY <1>1, <2>1, SMT
<1> QED
  BY <1>1, <1>2, <1>3, SMT

-----------------------------------------------------------------------------
(* The inductive invariant: what the cookie, and what a running login was   *)
(* told, say about the past.                                                *)

\* The role, read at the given time, is no better and no worse than the
\* groups have been since.
Honest(role, time) ==
    /\ RoleRank(role) >= RoleRank("staff") => lastStaff >= time
    /\ RoleRank(role) < RoleRank("staff") => lastPlain >= time

IInv ==
    /\ TypeOK
    /\ jar # None =>
          /\ jar.read <= jar.issued /\ jar.issued <= now
          /\ jar.Exp = Unix(jar.issued + TTL)
          /\ Honest(jar.Role, jar.read)
    /\ \A t \in Tabs :
          pc[t] = "callback" => info[t].at <= now /\ Honest(info[t].Role, info[t].at)
    /\ IF IsStaff(groups) THEN lastStaff = now ELSE lastPlain = now
    /\ lastStaff <= now /\ lastPlain <= now

LEMMA RoleRanks ==
    /\ RoleRank("") = 0 /\ RoleRank("user") = 1
    /\ RoleRank("staff") = 2 /\ RoleRank("admin") = 3
<1>1. RoleRank("") = 0
  BY SMT DEF RoleRank
<1>2. RoleRank("user") = 1
  BY SMT DEF RoleRank
<1>3. RoleRank("staff") = 2
  BY SMT DEF RoleRank
<1>4. RoleRank("admin") = 3
  BY SMT DEF RoleRank
<1> QED
  BY <1>1, <1>2, <1>3, <1>4

LEMMA RankIsNumber ==
    ASSUME NEW role \in Roles
    PROVE  RoleRank(role) \in Int
<1>1. PICK n : n = RoleRank(role)
  OBVIOUS
<1>2. n = 0 \/ n = 1 \/ n = 2 \/ n = 3
  <2>1. CASE role = ""
    BY <1>1, <2>1, RoleRanks
  <2>2. CASE role = "user"
    BY <1>1, <2>2, RoleRanks
  <2>3. CASE role = "staff"
    BY <1>1, <2>3, RoleRanks
  <2>4. CASE role = "admin"
    BY <1>1, <2>4, RoleRanks
  <2> QED
    BY <2>1, <2>2, <2>3, <2>4 DEF Roles
<1>3. n \in Int
  BY <1>2, SMT
<1> QED
  BY <1>1, <1>3

LEMMA NothingIsTyped == Nothing \in [Role : Roles, at : Times]
BY TimesAssumption, SMT DEF Nothing, Roles, Times

(* RoleFromGroups gives a rank of staff or better to staff only.            *)
LEMMA RoleIsRight ==
    ASSUME NEW gs
    PROVE  /\ RoleFromGroups(gs) \in Roles
           /\ IsStaff(gs) => RoleRank(RoleFromGroups(gs)) \in {2, 3}
           /\ ~ IsStaff(gs) => RoleRank(RoleFromGroups(gs)) \in {0, 1}
<1>1. CASE "Org-Admins" \in gs
  <2>1. IsStaff(gs) /\ RoleFromGroups(gs) = "admin"
    BY <1>1 DEF RoleFromGroups, IsStaff, StaffGroups
  <2> QED
    BY <2>1, RoleRanks DEF Roles
<1>2. CASE "Org-Admins" \notin gs /\ gs \cap {"Org-Managers", "Org-Staff"} # {}
  <2>1. IsStaff(gs) /\ RoleFromGroups(gs) = "staff"
    BY <1>2 DEF RoleFromGroups, IsStaff, StaffGroups
  <2> QED
    BY <2>1, RoleRanks DEF Roles
<1>3. CASE "Org-Admins" \notin gs /\ gs \cap {"Org-Managers", "Org-Staff"} = {}
  <2>1. ~ IsStaff(gs)
    BY <1>3 DEF IsStaff, StaffGroups
  <2>2. RoleFromGroups(gs) = "user" \/ RoleFromGroups(gs) = ""
    BY <1>3 DEF RoleFromGroups
  <2>3. CASE RoleFromGroups(gs) = "user"
    BY <2>1, <2>3, RoleRanks DEF Roles
  <2>4. CASE RoleFromGroups(gs) = ""
    BY <2>1, <2>4, RoleRanks DEF Roles
  <2> QED
    BY <2>2, <2>3, <2>4
<1> QED
  BY <1>1, <1>2, <1>3

LEMMA InitIInv == Init => IInv
BY TimesAssumption, NothingIsTyped DEF Init, IInv, TypeOK, Times, Pages

LEMMA NextIInv == IInv /\ [Next]_vars => IInv'
<1> SUFFICES ASSUME IInv, [Next]_vars PROVE IInv'
  OBVIOUS
<1> USE DEF IInv, TypeOK, Times
<1>1. ASSUME NEW t \in Tabs, Request(t) \/ Leave(t) \/ LoginFails(t) PROVE IInv'
  <2>1. UNCHANGED <<now, groups, lastStaff, lastPlain, jar>>
    BY <1>1 DEF Request, Leave, LoginFails
  <2>2. PICK point \in {"login", "forbidden", "served", "idle", "error"} :
            pc' = [pc EXCEPT ![t] = point]
    BY <1>1 DEF Request, Leave, LoginFails, Answer, GoTo
  <2>3. PICK p \in Pages : page' = page \/ page' = [page EXCEPT ![t] = p]
    BY <1>1 DEF Request, Leave, LoginFails, Pages
  <2>4. info' = info \/ info' = [info EXCEPT ![t] = Nothing]
    BY <1>1 DEF Request, Leave, LoginFails
  <2>5. TypeOK'
    <3>1. pc' \in [Tabs -> {"idle", "login", "callback", "back", "forbidden",
                           "served", "error"}]
      BY <2>2
    <3>2. page' \in [Tabs -> Pages]
      BY <2>3
    <3>3. info' \in [Tabs -> [Role : Roles, at : Times]]
      BY <2>4, NothingIsTyped
    <3> QED
      BY <2>1, <3>1, <3>2, <3>3
  <2>6. ASSUME NEW i \in Tabs, pc'[i] = "callback"
        PROVE  info'[i].at <= now /\ Honest(info'[i].Role, info'[i].at)
    <3>1. i # t
      BY <2>2, <2>6
    <3>2. info'[i] = info[i] /\ pc[i] = "callback"
      BY <2>2, <2>4, <2>6, <3>1
    <3> QED
      BY <3>2
  <2>7. /\ Honest(jar.Role, jar.read)' <=> Honest(jar.Role, jar.read)
        /\ \A i \in Tabs : Honest(info[i].Role, info[i].at)'
                              <=> Honest(info'[i].Role, info'[i].at)
    BY <2>1 DEF Honest
  <2> QED
    BY <2>1, <2>5, <2>6, <2>7
<1>2. ASSUME NEW t \in Tabs, GetUserInfo(t) PROVE IInv'
  <2>1. RoleFromGroups(groups) \in Roles /\ Honest(RoleFromGroups(groups), now)
    <3> PICK rank : rank = RoleRank(RoleFromGroups(groups))
      OBVIOUS
    <3>1. /\ IsStaff(groups) => rank = 2 \/ rank = 3
          /\ ~ IsStaff(groups) => rank = 0 \/ rank = 1
      BY RoleIsRight
    <3>2. /\ rank >= 2 => lastStaff >= now
          /\ rank < 2 => lastPlain >= now
      BY <3>1, SMT
    <3> QED
      BY <3>2, RoleIsRight, RoleRanks DEF Honest
  <2> DEFINE told == [Role |-> RoleFromGroups(groups), at |-> now]
  <2>2. /\ told \in [Role : Roles, at : Times] /\ told.at = now
        /\ told.Role = RoleFromGroups(groups)
    BY <2>1
  <2>3. info' = [info EXCEPT ![t] = told] /\ UNCHANGED <<now, groups, lastStaff, lastPlain, jar, page>>
    BY <1>2 DEF GetUserInfo
  <2>4. pc' = [pc EXCEPT ![t] = "callback"]
    BY <1>2 DEF GetUserInfo, GoTo
  <2> HIDE DEF told
  <2>5. TypeOK'
    BY <2>2, <2>3, <2>4
  <2>6. ASSUME NEW i \in Tabs
        PROVE  pc'[i] = "callback" => info'[i].at <= now /\ Honest(info'[i].Role, info'[i].at)
    <3>1. CASE i # t
      BY <2>3, <2>4, <3>1
    <3>2. CASE i = t
      <4>1. info'[i] = told
        BY <2>3, <3>2
      <4> QED
        BY <2>1, <2>2, <4>1
    <3> QED
      BY <3>1, <3>2
  <2> QED
    BY <2>3, <2>5, <2>6 DEF Honest
<1>3. ASSUME NEW t \in Tabs, Issue(t) PROVE IInv'
  <2>1. info[t] \in [Role : Roles, at : Times] /\ info[t].at <= now
        /\ Honest(info[t].Role, info[t].at)
    BY <1>3 DEF Issue
  <2>2. Unix(now + TTL) \in Nat
    BY TimesAssumption, UnixBounds, SMT
  <2>3. jar' = [Role |-> info[t].Role, Exp |-> Unix(now + TTL),
                read |-> info[t].at, issued |-> now]
    BY <1>3 DEF Issue
  <2> QED
    BY <1>3, <2>1, <2>2, <2>3, NothingIsTyped DEF Issue, GoTo, Honest
<1>4. CASE Drop
  BY <1>4 DEF Drop, Honest
<1>5. CASE ChangeGroups
  BY <1>5, SMT DEF ChangeGroups, Honest
<1>6. CASE Tick
  BY <1>6, TimesAssumption, SMT DEF Tick, Honest
<1>7. CASE UNCHANGED vars
  BY <1>7 DEF vars, Honest
<1> QED
  BY <1>1, <1>2, <1>3, <1>4, <1>5, <1>6, <1>7 DEF Next

LEMMA Invariance == Spec => []IInv
BY InitIInv, NextIInv, PTL DEF Spec

(* When a tab gets a new answer, Request gave it.                           *)
LEMMA OnlyRequestAnswers ==
    ASSUME IInv, [Next]_vars, NEW t \in Tabs, pc'[t] # pc[t],
           pc'[t] \in {"served", "forbidden", "login"}
    PROVE  pc'[t] = Answer(page'[t]) /\ page'[t] \in Pages
<1>1. \E r \in Tabs : Request(r)
  BY DEF Next, Request, Leave, GetUserInfo, LoginFails, Issue, Drop, ChangeGroups, Tick,
     vars, GoTo, IInv, TypeOK
<1> PICK r \in Tabs : Request(r)
  BY <1>1
<1> QED
  BY DEF Request, GoTo, IInv, TypeOK

-----------------------------------------------------------------------------
(* The theorems.                                                            *)

(* Every variable keeps its type.                                           *)
THEOREM TypeCorrect == Spec => []TypeOK
BY Invariance, PTL DEF IInv

(* For every lifetime and resolution, a role that was taken away serves no  *)
(* page of staff a TTL and a second after the cookie was issued.            *)
THEOREM RevocationWorks == Spec => RevocationTakesEffect
<1> DEFINE P ==
      \A t \in Tabs :
          pc[t] # "served" /\ pc'[t] = "served" /\ page'[t] = "admin" =>
              /\ lastStaff >= jar.read
              /\ now < jar.issued + TTL + Second
<1>1. IInv /\ [Next]_vars => P
  <2> SUFFICES ASSUME IInv, [Next]_vars, NEW t \in Tabs,
                      pc[t] # "served", pc'[t] = "served", page'[t] = "admin"
               PROVE  lastStaff >= jar.read /\ now < jar.issued + TTL + Second
    OBVIOUS
  <2>1. Answer("admin") = "served"
    BY OnlyRequestAnswers
  <2>2. jar # None /\ ~ (Unix(now) > jar.Exp) /\ ~ (RoleRank(jar.Role) < RoleRank("staff"))
    BY <2>1 DEF Answer, FromRequest
  <2>3. /\ jar.Exp = Unix(jar.issued + TTL) /\ jar.issued \in Nat /\ now \in Nat
        /\ Honest(jar.Role, jar.read) /\ jar.Role \in Roles
    BY <2>2, TimesAssumption DEF IInv, TypeOK, Times
  <2>4. now < jar.issued + TTL + Second
    <3>1. jar.issued + TTL \in Nat
      BY <2>3, TimesAssumption, SMT
    <3> QED
      BY <2>2, <2>3, <3>1, UnixBounds, SMT
  <2>5. RoleRank(jar.Role) \in Int /\ RoleRank("staff") \in Int
    <3>1. "staff" \in Roles
      BY DEF Roles
    <3> QED
      BY <2>3, <3>1, RankIsNumber, Zenon
  <2>6. RoleRank(jar.Role) >= RoleRank("staff")
    BY <2>2, <2>5, SMT
  <2> QED
    BY <2>3, <2>4, <2>6 DEF Honest
<1> QED
  BY <1>1, Invariance, PTL DEF Spec, RevocationTakesEffect

(* Within the lifetime of a cookie nobody has to log in again.              *)
THEOREM CookieLasts == Spec => SessionLasts
<1> DEFINE P ==
      \A t \in Tabs :
          pc[t] # "login" /\ pc'[t] = "login" /\ jar # None => now > jar.issued + TTL
<1>1. IInv /\ [Next]_vars => P
  <2> SUFFICES ASSUME IInv, [Next]_vars, NEW t \in Tabs,
                      pc[t] # "login", pc'[t] = "login", jar # None
               PROVE  now > jar.issued + TTL
    OBVIOUS
  <2>1. PICK p \in Pages : Answer(p) = "login"
    BY OnlyRequestAnswers
  <2>2. Unix(now) > jar.Exp
    BY <2>1 DEF Answer, FromRequest
  <2>3. /\ jar.Exp = Unix(jar.issued + TTL) /\ jar.issued \in Nat /\ now \in Nat
        /\ jar.issued + TTL \in Nat
    BY TimesAssumption, SMT DEF IInv, TypeOK, Times
  <2> QED
    BY <2>2, <2>3, UnixBounds, SMT
<1> QED
  BY <1>1, Invariance, PTL DEF Spec, SessionLasts

(* Whoever is staff and stays so is let in.                                 *)
THEOREM StaffAreLetIn == Spec => StaffGetIn
<1> DEFINE P ==
      \A t \in Tabs :
          pc[t] # "forbidden" /\ pc'[t] = "forbidden" => lastPlain >= jar.read
<1>1. IInv /\ [Next]_vars => P
  <2> SUFFICES ASSUME IInv, [Next]_vars, NEW t \in Tabs,
                      pc[t] # "forbidden", pc'[t] = "forbidden"
               PROVE  lastPlain >= jar.read
    OBVIOUS
  <2>1. PICK p \in Pages : Answer(p) = "forbidden"
    BY OnlyRequestAnswers
  <2>2. jar # None /\ RoleRank(jar.Role) < RoleRank("staff")
    BY <2>1 DEF Answer, FromRequest
  <2> QED
    BY <2>2 DEF IInv, Honest
<1> QED
  BY <1>1, Invariance, PTL DEF Spec, StaffGetIn

=============================================================================
