-------------------------- MODULE Provision_proofs --------------------------
(***************************************************************************)
(* Theorems about Provision for every number of users, logins, semesters,  *)
(* faults and restarts.                                                    *)
(***************************************************************************)
EXTENDS MCProvision, TLAPS

(* The inductive invariant: what a login knows of the tables, and what is   *)
(* known of a grant that is made, or that may still be made late.           *)

Earned(u, c) ==
    \E l \in Logins :
        /\ Sub(l) = u
        /\ \/ c \in profile[l].Enrolments
           \/ profile[l].QuotaEligible /\ c = code[l]

\* A grant of a to u for c is one that the tables and the logins allow.
Due(u, c, a) ==
    /\ u \in appUser
    /\ a = semester[c] /\ a \in Nat
    /\ c <= Current(date)
    /\ Earned(u, c)

Knows(l) ==
    /\ pc[l] \in {"next", "grant", "session"} => Sub(l) \in appUser
    /\ pc[l] \in {"user", "next", "grant", "session"} => Sub(l) \in Users
    /\ pc[l] \in {"user", "next", "grant"} =>
         code[l] \in Codes /\ code[l] <= Current(date)
    /\ pc[l] \in {"next", "grant"} => todo[l] \subseteq entitled(profile[l], code[l])
    /\ pc[l] = "grant" => cur[l] \in todo[l] /\ amount[l] = semester[cur[l]]
    /\ pc[l] = "idle" => profile[l] = Nobody

LoginKnows == \A l \in Logins : Knows(l)

\* A statement that may be executed without harm.
Lawful(st) ==
    st \in Statements /\ (st.kind = "grant" => Due(st.user, st.code, st.amount))

LateIsDue == \A st \in inflight : Lawful(st)

GrantsAreDue ==
    \A u \in Users, c \in Codes : grant[u][c] # NoAmount => Due(u, c, grant[u][c])

IInv == TypeOK /\ LoginKnows /\ LateIsDue /\ GrantsAreDue

-----------------------------------------------------------------------------
(* Later months are in the same semester or in a later one.                 *)
LEMMA CurrentMonotone ==
    ASSUME NEW s \in Nat, NEW t \in Nat, s <= t
    PROVE  Current(s) <= Current(t) /\ Current(s) \in Nat
<1> DEFINE y(n) == n \div 12
           m(n) == (n % 12) + 1
           k(n) == IF m(n) <= 4 THEN 1 ELSE IF m(n) <= 8 THEN 5 ELSE 9
<1>1. \A n \in Nat : y(n) \in Nat /\ m(n) \in 1..12 /\ n = 12 * y(n) + m(n) - 1
  BY SMT
<1>2. \A n \in Nat : Current(n) = y(n) * 100 + k(n)
  BY DEF Current
<1> HIDE DEF y, m
<1>3. /\ y(s) \in Nat /\ m(s) \in 1..12 /\ s = 12 * y(s) + m(s) - 1
      /\ y(t) \in Nat /\ m(t) \in 1..12 /\ t = 12 * y(t) + m(t) - 1
  BY <1>1
<1>4. k(s) \in 1..9 /\ k(t) \in 1..9
  OBVIOUS
<1>5. CASE y(s) < y(t)
  BY <1>2, <1>3, <1>4, <1>5, SMT
<1>6. CASE y(s) = y(t) /\ m(s) <= m(t)
  <2>1. k(s) <= k(t)
    BY <1>3, <1>6, SMT
  <2> QED
    BY <1>2, <1>3, <1>4, <1>6, <2>1, SMT
<1>7. y(s) < y(t) \/ (y(s) = y(t) /\ m(s) <= m(t))
  BY <1>3, SMT
<1> QED
  BY <1>5, <1>6, <1>7

LEMMA CurrentType == \A t \in Dates : Current(t) \in Nat
BY DatesAssumption, CodesAssumption

(* What a semester gives is a natural number.                               *)
LEMMA QuotaIsNat ==
    ASSUME NEW c \in Codes, NEW d \in Defaults
    PROVE  QuotaFor(c, d) \in Nat
BY DefaultsAssumption, SMT DEF QuotaFor

(* What is recorded stays: no step changes a row that is there, nor the     *)
(* identity of a login that has come; time does not go back.                *)
Grows ==
    /\ appUser \subseteq appUser'
    /\ \A c \in Codes : semester[c] # NoAmount => semester'[c] = semester[c]
    /\ \A u \in Users, c \in Codes :
          grant[u][c] # NoAmount => grant'[u][c] = grant[u][c]
    /\ date' \in Dates /\ Current(date) <= Current(date')
    /\ \A l \in Logins : pc[l] # "idle" => profile'[l] = profile[l] /\ code'[l] = code[l]

LEMMA ExecuteGrows ==
    ASSUME TypeOK, NEW st \in Statements, Execute(st)
    PROVE  /\ appUser \subseteq appUser'
           /\ \A c \in Codes : semester[c] # NoAmount => semester'[c] = semester[c]
           /\ \A u \in Users, c \in Codes :
                 grant[u][c] # NoAmount => grant'[u][c] = grant[u][c]
           /\ appUser' \subseteq Users
           /\ semester' \in [Codes -> Nat \cup {NoAmount}]
           /\ grant' \in [Users -> [Codes -> Nat \cup {NoAmount}]]
           /\ \A u \in Users, c \in Codes :
                 grant'[u][c] # grant[u][c] =>
                   st.kind = "grant" /\ st.user = u /\ st.code = c
                     /\ grant'[u][c] = st.amount
<1> USE DEF TypeOK, Statements
<1>1. CASE st.kind = "user"
  BY <1>1, SMT DEF Execute
<1>2. CASE st.kind = "semester"
  BY <1>2, SMT DEF Execute, InsertOnce
<1>3. CASE st.kind = "grant"
  <2> DEFINE old == grant[st.user][st.code]
             new == IF old = NoAmount THEN st.amount ELSE old
  <2>1. /\ grant' = [grant EXCEPT ![st.user] = [@ EXCEPT ![st.code] = new]]
        /\ UNCHANGED <<appUser, semester>>
    BY <1>3 DEF Execute, InsertOnce
  <2>2. st.user \in Users /\ st.code \in Codes /\ new \in Nat \cup {NoAmount}
    OBVIOUS
  <2>3. grant' \in [Users -> [Codes -> Nat \cup {NoAmount}]]
    BY <2>1, <2>2
  <2>4. \A u \in Users, c \in Codes :
           grant'[u][c] = IF u = st.user /\ c = st.code THEN new ELSE grant[u][c]
    BY <2>1, <2>2
  <2> QED
    BY <1>3, <2>1, <2>2, <2>3, <2>4
<1> QED
  BY <1>1, <1>2, <1>3

(* What was due stays due.                                                  *)
LEMMA DuePersists ==
    ASSUME TypeOK, LoginKnows, Grows,
           NEW u \in Users, NEW c \in Codes, NEW a, Due(u, c, a)
    PROVE  Due(u, c, a)'
<1>1. u \in appUser'
  BY DEF Due, Grows
<1>2. a = semester'[c] /\ a \in Nat
  BY NoAmountAssumption DEF Due, Grows
<1>3. c <= Current(date')
  <2>1. /\ Current(date) \in Nat /\ Current(date') \in Nat /\ c \in Nat
        /\ Current(date) <= Current(date') /\ c <= Current(date)
    BY CurrentType, CodesAssumption DEF TypeOK, Grows, Due
  <2> QED
    BY <2>1, SMT
<1>4. Earned(u, c)'
  <2>1. PICK l \in Logins :
          /\ Sub(l) = u
          /\ \/ c \in profile[l].Enrolments
             \/ profile[l].QuotaEligible /\ c = code[l]
    BY DEF Due, Earned
  <2>2. pc[l] # "idle"
    BY <2>1, UsersAssumption DEF LoginKnows, Knows, Nobody, Sub
  <2> QED
    BY <2>1, <2>2 DEF Earned, Grows, Sub
<1> QED
  BY <1>1, <1>2, <1>3, <1>4 DEF Due

(* What a login may have the database do is lawful.                         *)
LEMMA HandlersAreLawful ==
    ASSUME TypeOK, LoginKnows, NEW l \in Logins
    PROVE  /\ pc[l] = "user" => Lawful(UserStatement(l))
           /\ pc[l] = "next" => \A c \in todo[l] : Lawful(SemesterStatement(l, c))
           /\ pc[l] = "grant" => Lawful(GrantStatement(l))
<1>1. Knows(l)
  BY DEF LoginKnows
<1>2. CASE pc[l] = "user"
  BY <1>1, <1>2, SMT DEF Knows, UserStatement, Statement, Statements, Lawful
<1>3. CASE pc[l] = "next"
  <2> SUFFICES ASSUME NEW c \in todo[l]
               PROVE  Lawful(SemesterStatement(l, c))
    BY <1>3
  <2>1. c \in Codes /\ QuotaFor(c, defaultQuota) \in Nat
    BY QuotaIsNat DEF TypeOK
  <2> QED
    BY <1>1, <1>3, <2>1 DEF Knows, SemesterStatement, Statement, Statements, Lawful
<1>4. CASE pc[l] = "grant"
  <2>1. /\ cur[l] \in Codes /\ amount[l] \in Nat
        /\ code[l] \in Nat /\ cur[l] \in Nat /\ Current(date) \in Nat
    BY <1>1, <1>4, CodesAssumption, CurrentType DEF Knows, TypeOK
  <2>4. /\ amount[l] = semester[cur[l]]
        /\ Sub(l) \in Users /\ Sub(l) \in appUser
        /\ code[l] <= Current(date)
        /\ cur[l] \in entitled(profile[l], code[l])
    BY <1>1, <1>4 DEF Knows
  <2>5. cur[l] <= code[l]
    BY <2>1, <2>4, SMT DEF entitled
  <2>2. cur[l] <= Current(date)
    BY <2>1, <2>4, <2>5, SMT
  <2>3. Earned(Sub(l), cur[l])
    BY <2>4 DEF Earned, entitled
  <2>6. Due(Sub(l), cur[l], amount[l])
    BY <2>1, <2>2, <2>3, <2>4 DEF Due
  <2> QED
    BY <1>4, <2>1, <2>4, <2>6 DEF GrantStatement, Statement, Statements, Lawful
<1> QED
  BY <1>2, <1>3, <1>4

(* A step that executes at most one lawful statement, and leaves behind     *)
(* only lawful ones, makes only grants that are due.                        *)
LEMMA LawfulStep ==
    ASSUME IInv, Grows,
           \/ UNCHANGED tableVars
           \/ \E st : Lawful(st) /\ Execute(st),
           \A st \in inflight' : Lawful(st)
    PROVE  LateIsDue' /\ GrantsAreDue'
<1> USE DEF IInv
<1>1. \A st : Lawful(st) => Lawful(st)'
  BY DuePersists DEF Lawful, Statements
<1>2. LateIsDue'
  BY <1>1 DEF LateIsDue
<1>3. GrantsAreDue'
  <2> SUFFICES ASSUME NEW u \in Users, NEW c \in Codes, grant'[u][c] # NoAmount
               PROVE  Due(u, c, grant[u][c])'
    BY DEF GrantsAreDue
  <2> PICK a : a = grant'[u][c]
    OBVIOUS
  <2>1. Due(u, c, a)
    <3>1. CASE a = grant[u][c]
      BY <3>1 DEF GrantsAreDue
    <3>2. CASE a # grant[u][c]
      <4>1. PICK st : Lawful(st) /\ Execute(st)
        BY <3>2 DEF tableVars
      <4>2. st.kind = "grant" /\ st.user = u /\ st.code = c /\ a = st.amount
        BY <3>2, <4>1, ExecuteGrows DEF Lawful
      <4> QED
        BY <4>1, <4>2 DEF Lawful
    <3> QED
      BY <3>1, <3>2
  <2>2. Due(u, c, a)'
    BY <2>1, DuePersists
  <2> QED
    BY <2>2 DEF Due
<1> QED
  BY <1>2, <1>3

(* A login that does nothing knows what it knew.                            *)
LEMMA KnowsPersists ==
    ASSUME IInv, Grows, NEW l \in Logins,
           \/ pc'[l] = pc[l]
           \/ pc'[l] \in {"lost", "error"}
           \/ pc[l] \in {"next", "grant"} /\ pc'[l] \in {"next", "session"},
           pc'[l] = "grant" => cur'[l] = cur[l] /\ amount'[l] = amount[l]
                                 /\ todo'[l] = todo[l],
           todo'[l] \subseteq todo[l], profile'[l] = profile[l], code'[l] = code[l]
    PROVE  Knows(l)'
<1>1. Knows(l) /\ TypeOK
  BY DEF IInv, LoginKnows
<1>2. appUser \subseteq appUser' /\ Sub(l)' = Sub(l)
  BY DEF Grows, Sub
<1>3. code[l] \in Codes /\ code[l] <= Current(date) => code[l] <= Current(date')
  <2> SUFFICES ASSUME code[l] \in Codes, code[l] <= Current(date)
               PROVE  code[l] <= Current(date')
    OBVIOUS
  <2>1. /\ Current(date) \in Nat /\ Current(date') \in Nat /\ code[l] \in Nat
        /\ Current(date) <= Current(date')
    BY <1>1, CurrentType, CodesAssumption DEF Grows, TypeOK
  <2> QED
    BY <2>1, SMT
<1>4. pc[l] = "grant" => semester'[cur[l]] = semester[cur[l]]
  BY <1>1, NoAmountAssumption DEF Knows, TypeOK, Grows
<1> QED
  BY <1>1, <1>2, <1>3, <1>4 DEF Knows

-----------------------------------------------------------------------------
LEMMA InitIInv == Init => IInv
<1> SUFFICES ASSUME Init PROVE IInv
  OBVIOUS
<1> USE DEF Init
<1>1. TypeOK
  BY FaultsAssumption, SMT DEF TypeOK, Points
<1>2. LoginKnows /\ LateIsDue /\ GrantsAreDue
  BY DEF LoginKnows, Knows, LateIsDue, GrantsAreDue
<1> QED
  BY <1>1, <1>2 DEF IInv

(* The steps of a login.                                                    *)
LoginStep(l) ==
    \/ Callback(l) \/ CallbackFails(l) \/ EnsureUser(l)
    \/ EnsureSemester(l) \/ EnsureGrant(l) \/ Issue(l)

\* What the database does in a step, and what it may still do after it.
LawfulEffect ==
    /\ \/ UNCHANGED tableVars
       \/ \E st : Lawful(st) /\ Execute(st)
    /\ \A st \in inflight' : Lawful(st)

LEMMA BrokenEffect ==
    ASSUME IInv, NEW st, Lawful(st), Done(st) \/ Broken(st)
    PROVE  LawfulEffect
BY DEF LawfulEffect, Done, Broken, IInv, LateIsDue

LEMMA StepEffect ==
    ASSUME IInv, [Next]_vars
    PROVE  LawfulEffect
<1> USE DEF IInv
<1>1. CASE \E l \in Logins : LoginStep(l)
  <2> PICK l \in Logins : LoginStep(l)
    BY <1>1
  <2>1. CASE Callback(l) \/ CallbackFails(l) \/ Issue(l)
    BY <2>1 DEF LawfulEffect, Callback, CallbackFails, Issue, LateIsDue
  <2>2. CASE EnsureUser(l)
    <3>1. Lawful(UserStatement(l))
      BY <2>2, HandlersAreLawful DEF EnsureUser
    <3> QED
      BY <2>2, <3>1, BrokenEffect DEF EnsureUser
  <2>3. CASE EnsureSemester(l)
    <3>1. PICK c \in todo[l] : Done(SemesterStatement(l, c)) \/ Broken(SemesterStatement(l, c))
      BY <2>3 DEF EnsureSemester
    <3>2. Lawful(SemesterStatement(l, c))
      BY <2>3, HandlersAreLawful DEF EnsureSemester
    <3> QED
      BY <3>1, <3>2, BrokenEffect
  <2>4. CASE EnsureGrant(l)
    <3>1. Lawful(GrantStatement(l))
      BY <2>4, HandlersAreLawful DEF EnsureGrant
    <3> QED
      BY <2>4, <3>1, BrokenEffect DEF EnsureGrant
  <2> QED
    BY <2>1, <2>2, <2>3, <2>4 DEF LoginStep
<1>2. CASE \E st \in inflight : ExecuteLate(st)
  BY <1>2 DEF LawfulEffect, ExecuteLate, LateIsDue
<1>3. CASE Crash
  <2>1. \A st \in Outstanding : Lawful(st)
    BY HandlersAreLawful DEF Outstanding
  <2> QED
    BY <1>3, <2>1 DEF LawfulEffect, Crash, LateIsDue
<1>4. CASE Advance \/ Restart \/ UNCHANGED vars
  BY <1>4 DEF LawfulEffect, Advance, Restart, vars, LateIsDue
<1> QED
  BY <1>1, <1>2, <1>3, <1>4 DEF Next, LoginStep, Quiescent

LEMMA StepGrows ==
    ASSUME IInv, [Next]_vars
    PROVE  Grows
<1> USE DEF IInv
<1>1. /\ appUser \subseteq appUser'
      /\ \A c \in Codes : semester[c] # NoAmount => semester'[c] = semester[c]
      /\ \A u \in Users, c \in Codes :
            grant[u][c] # NoAmount => grant'[u][c] = grant[u][c]
  BY StepEffect, ExecuteGrows DEF LawfulEffect, Lawful, tableVars
<1>2. date' \in Dates /\ Current(date) <= Current(date')
  <2>1. CASE date' = date
    BY <2>1, CurrentType, SMT DEF TypeOK
  <2>2. CASE date' \in Dates /\ date' > date
    BY <2>2, CurrentMonotone, DatesAssumption, SMT DEF TypeOK
  <2> QED
    BY <2>1, <2>2 DEF Next, Callback, CallbackFails, EnsureUser, EnsureSemester,
       EnsureGrant, Issue, ExecuteLate, Advance, Crash, Restart, Quiescent, vars
<1>3. \A l \in Logins : pc[l] # "idle" => profile'[l] = profile[l] /\ code'[l] = code[l]
  BY DEF TypeOK, Next, Callback, CallbackFails, EnsureUser, EnsureSemester,
     EnsureGrant, Issue, ExecuteLate, Advance, Crash, Restart, Quiescent, vars,
     loginVars
<1> QED
  BY <1>1, <1>2, <1>3 DEF Grows

LEMMA TypeStep ==
    ASSUME IInv, [Next]_vars
    PROVE  TypeOK'
<1> USE DEF IInv
<1>1. /\ appUser' \subseteq Users
      /\ semester' \in [Codes -> Nat \cup {NoAmount}]
      /\ grant' \in [Users -> [Codes -> Nat \cup {NoAmount}]]
      /\ inflight' \subseteq Statements
  BY StepEffect, ExecuteGrows DEF LawfulEffect, Lawful, tableVars, TypeOK
<1>2. date' \in Dates
  BY StepGrows DEF Grows
<1>3. defaultQuota' \in Defaults /\ up' \in BOOLEAN
  BY DEF TypeOK, Next, Callback, CallbackFails, EnsureUser,
     EnsureSemester, EnsureGrant, Issue, ExecuteLate, Advance, Crash, Restart,
     Quiescent, vars
<1>4. faults' \in 0..MaxFaults /\ crashes' \in 0..MaxCrashes
  <2>1. /\ faults' = faults \/ (faults < MaxFaults /\ faults' = faults + 1)
        /\ crashes' = crashes \/ (crashes < MaxCrashes /\ crashes' = crashes + 1)
    BY DEF Next, Callback, CallbackFails, EnsureUser,
       EnsureSemester, EnsureGrant, Issue, ExecuteLate, Advance, Crash, Restart,
       Quiescent, vars, Done, Broken
  <2> QED
    BY <2>1, FaultsAssumption, SMT DEF TypeOK
<1>6. pc' \in [Logins -> Points]
  BY DEF TypeOK, Points, GoTo, Next, Callback, CallbackFails, EnsureUser,
     EnsureSemester, EnsureGrant, Issue, ExecuteLate, Advance, Crash, Restart,
     Quiescent, vars, loginVars
<1>7. profile' \in [Logins -> Profiles \cup {Nobody}]
  BY DEF TypeOK, Next, Callback, CallbackFails, EnsureUser,
     EnsureSemester, EnsureGrant, Issue, ExecuteLate, Advance, Crash, Restart,
     Quiescent, vars, loginVars
<1>8. code' \in [Logins -> Codes \cup {0}]
  BY DatesAssumption DEF TypeOK, Next, Callback, CallbackFails, EnsureUser,
     EnsureSemester, EnsureGrant, Issue, ExecuteLate, Advance, Crash, Restart,
     Quiescent, vars, loginVars
<1>9. soft' \in [Logins -> BOOLEAN]
  BY DEF TypeOK, Next, Callback, CallbackFails, EnsureUser,
     EnsureSemester, EnsureGrant, Issue, ExecuteLate, Advance, Crash, Restart,
     Quiescent, vars, loginVars
<1>5. /\ todo' \in [Logins -> SUBSET Codes]
      /\ cur' \in [Logins -> Codes \cup {0}]
      /\ amount' \in [Logins -> Nat]
  <2>1. CASE \E l \in Logins : EnsureUser(l)
    <3> PICK l \in Logins : EnsureUser(l)
      BY <2>1
    <3>1. entitled(profile[l], code[l]) \subseteq Codes
      BY ProfilesAssumption DEF EnsureUser, LoginKnows, Knows, entitled, TypeOK, Nobody
    <3> QED
      BY <3>1 DEF TypeOK, EnsureUser
  <2>2. CASE \E l \in Logins : EnsureSemester(l)
    <3> PICK l \in Logins : EnsureSemester(l)
      BY <2>2
    <3> PICK c \in todo[l] :
          \/ /\ Done(SemesterStatement(l, c))
             /\ cur' = [cur EXCEPT ![l] = c]
             /\ amount' = [amount EXCEPT ![l] = semester'[c]]
             /\ UNCHANGED todo
          \/ /\ todo' = [todo EXCEPT ![l] = @ \ {c}]
             /\ UNCHANGED <<cur, amount>>
      BY DEF EnsureSemester
    <3>1. c \in Codes /\ QuotaFor(c, defaultQuota) \in Nat
      BY QuotaIsNat DEF TypeOK
    <3>2. Done(SemesterStatement(l, c)) => semester'[c] \in Nat
      BY <3>1 DEF Done, Execute, SemesterStatement, Statement, InsertOnce, TypeOK
    <3> QED
      BY <3>1, <3>2 DEF TypeOK
  <2>3. CASE UNCHANGED <<cur, amount>> /\ todo' \in [Logins -> SUBSET Codes]
    BY <2>3 DEF TypeOK
  <2> QED
    BY <2>1, <2>2, <2>3 DEF TypeOK, Next, Callback, CallbackFails,
       EnsureGrant, Issue, ExecuteLate, Advance, Crash, Restart, Quiescent, vars,
       loginVars
<1> QED
  BY <1>1, <1>2, <1>3, <1>4, <1>5, <1>6, <1>7, <1>8, <1>9 DEF TypeOK

LEMMA KnowsStep ==
    ASSUME IInv, [Next]_vars, NEW i \in Logins
    PROVE  Knows(i)'
<1> USE DEF IInv
<1>1. Knows(i) /\ Grows /\ TypeOK'
  BY StepGrows, TypeStep DEF LoginKnows
<1>2. CASE \E l \in Logins : LoginStep(l)
  <2> PICK l \in Logins : LoginStep(l)
    BY <1>2
  <2>1. CASE i # l
    <3>1. /\ pc'[i] = pc[i] /\ cur'[i] = cur[i] /\ amount'[i] = amount[i]
          /\ todo'[i] = todo[i] /\ profile'[i] = profile[i] /\ code'[i] = code[i]
      BY <2>1 DEF LoginStep, Callback, CallbackFails, EnsureUser, EnsureSemester,
         EnsureGrant, Issue, GoTo, TypeOK
    <3> QED
      BY <1>1, <3>1, KnowsPersists
  <2>2. CASE i = l /\ Callback(l)
    <3>1. /\ pc'[i] = "user" /\ profile'[i] \in Profiles /\ code'[i] = Current(date)
          /\ date' = date
      BY <2>2 DEF Callback, GoTo, TypeOK
    <3>2. Current(date) \in Codes /\ Current(date) \in Nat
      BY CurrentType, DatesAssumption DEF TypeOK
    <3> QED
      BY <3>1, <3>2, ProfilesAssumption, SMT DEF Knows, Sub
  <2>3. CASE i = l /\ EnsureUser(l)
    <3>1. CASE Broken(UserStatement(l)) /\ GoTo(l, "error") /\ UNCHANGED todo
      <4>1. /\ pc'[i] = "error" /\ todo'[i] = todo[i] /\ profile'[i] = profile[i]
            /\ code'[i] = code[i]
        BY <2>3, <3>1 DEF EnsureUser, GoTo, TypeOK
      <4> QED
        BY <1>1, <4>1, KnowsPersists
    <3>2. CASE /\ Done(UserStatement(l)) /\ GoTo(l, "next")
               /\ todo' = [todo EXCEPT ![l] = entitled(profile[l], code[l])]
      <4>1. /\ pc[i] = "user" /\ pc'[i] = "next" /\ profile' = profile /\ code' = code
            /\ date' = date /\ todo'[i] = entitled(profile[i], code[i])
            /\ appUser' = appUser \cup {Sub(i)}
        BY <2>3, <3>2 DEF EnsureUser, GoTo, TypeOK, Done, Execute, UserStatement, Statement
      <4> QED
        BY <1>1, <4>1 DEF Knows, Sub
    <3> QED
      BY <2>3, <3>1, <3>2 DEF EnsureUser
  <2>4. CASE i = l /\ EnsureSemester(l)
    <3> PICK c \in todo[l] :
          \/ /\ Done(SemesterStatement(l, c))
             /\ cur' = [cur EXCEPT ![l] = c]
             /\ amount' = [amount EXCEPT ![l] = semester'[c]]
             /\ GoTo(l, "grant")
             /\ UNCHANGED <<todo, soft>>
          \/ /\ Broken(SemesterStatement(l, c))
             /\ todo' = [todo EXCEPT ![l] = @ \ {c}]
             /\ soft' = [soft EXCEPT ![l] = TRUE]
             /\ UNCHANGED <<pc, cur, amount>>
      BY <2>4 DEF EnsureSemester
    <3>0. pc[l] = "next" /\ UNCHANGED <<profile, code, date>>
      BY <2>4 DEF EnsureSemester
    <3>1. CASE GoTo(l, "grant")
      <4>1. /\ pc'[i] = "grant" /\ cur'[i] = c /\ amount'[i] = semester'[c]
            /\ todo'[i] = todo[i] /\ c \in todo[i]
        BY <2>4, <3>0, <3>1 DEF GoTo, TypeOK
      <4>2. Sub(i)' = Sub(i) /\ appUser \subseteq appUser'
        BY <1>1, <3>0 DEF Sub, Grows
      <4> QED
        BY <1>1, <2>4, <3>0, <4>1, <4>2 DEF Knows
    <3>2. CASE UNCHANGED <<pc, cur, amount>> /\ todo' = [todo EXCEPT ![l] = @ \ {c}]
      <4>1. /\ pc'[i] = "next" /\ todo'[i] \subseteq todo[i]
            /\ profile'[i] = profile[i] /\ code'[i] = code[i] /\ pc'[i] = pc[i]
        BY <2>4, <3>0, <3>2 DEF TypeOK
      <4> QED
        BY <1>1, <4>1, KnowsPersists
    <3> QED
      BY <3>0, <3>1, <3>2 DEF GoTo
  <2>5. CASE i = l /\ (EnsureGrant(l) \/ Issue(l) \/ CallbackFails(l))
    <3>1. /\ \/ pc[i] \in {"next", "grant"} /\ pc'[i] \in {"next", "session"}
             \/ pc'[i] = "error"
          /\ todo'[i] \subseteq todo[i] /\ profile'[i] = profile[i] /\ code'[i] = code[i]
      BY <2>5 DEF EnsureGrant, Issue, CallbackFails, GoTo, TypeOK
    <3> QED
      BY <1>1, <3>1, KnowsPersists
  <2> QED
    BY <2>1, <2>2, <2>3, <2>4, <2>5 DEF LoginStep
<1>3. CASE \/ \E st \in inflight : ExecuteLate(st)
           \/ Advance \/ Crash \/ Restart \/ UNCHANGED vars
  <2>1. /\ pc'[i] = pc[i] \/ pc'[i] = "lost"
        /\ UNCHANGED <<todo, cur, amount, profile, code>>
    BY <1>3 DEF ExecuteLate, Advance, Crash, Restart, vars, loginVars, TypeOK
  <2> QED
    BY <1>1, <2>1, KnowsPersists
<1> QED
  BY <1>2, <1>3 DEF Next, LoginStep, Quiescent

LEMMA Invariance == Spec => []IInv
<1>1. IInv /\ [Next]_vars => IInv'
  <2> SUFFICES ASSUME IInv, [Next]_vars PROVE IInv'
    OBVIOUS
  <2>1. LoginKnows'
    BY KnowsStep DEF LoginKnows
  <2>2. LateIsDue' /\ GrantsAreDue'
    BY StepGrows, StepEffect, LawfulStep DEF LawfulEffect
  <2> QED
    BY <2>1, <2>2, TypeStep DEF IInv
<1> QED
  BY <1>1, InitIInv, PTL DEF Spec

-----------------------------------------------------------------------------
(* What a login has served: unless it has logged an error, what it is       *)
(* entitled to is granted, or still to do.                                  *)

Granted(l, c) == c \in Codes /\ grant[Sub(l)][c] # NoAmount

Served(l) ==
    ~ soft[l] =>
        \A c \in entitled(profile[l], code[l]) :
            /\ pc[l] \in {"next", "grant"} => c \in todo[l] \/ Granted(l, c)
            /\ pc[l] = "session" => Granted(l, c)

LEMMA GrantedPersists ==
    ASSUME Grows, NEW l \in Logins, Sub(l) \in Users, profile'[l] = profile[l],
           NEW c, Granted(l, c)
    PROVE  Granted(l, c)'
<1>1. c \in Codes /\ grant[Sub(l)][c] # NoAmount
  BY DEF Granted
<1>2. grant'[Sub(l)][c] # NoAmount
  BY <1>1 DEF Grows
<1> QED
  BY <1>1, <1>2 DEF Granted, Sub

(* The statement of EnsureGrant leaves a grant.                             *)
LEMMA EnsureGrantGrants ==
    ASSUME TypeOK, NEW l \in Logins, NEW c \in Codes, c = cur[l], Sub(l) \in Users,
           Execute(GrantStatement(l)), profile'[l] = profile[l]
    PROVE  Granted(l, c)'
<1> DEFINE old == grant[Sub(l)][c]
           new == IF old = NoAmount THEN amount[l] ELSE old
<1>1. grant' = [grant EXCEPT ![Sub(l)] = [@ EXCEPT ![c] = new]]
  BY DEF Execute, GrantStatement, Statement, InsertOnce
<1>2. grant'[Sub(l)][c] = new
  BY <1>1 DEF TypeOK
<1>3. new # NoAmount
  BY NoAmountAssumption DEF TypeOK
<1> QED
  BY <1>2, <1>3 DEF Granted, Sub

(* A login that goes on with the same tasks has served what it had.         *)
LEMMA ServedPersists ==
    ASSUME Grows, NEW l \in Logins, Served(l),
           pc[l] \in {"next", "grant", "session"} => Sub(l) \in Users,
           profile'[l] = profile[l], code'[l] = code[l], todo'[l] = todo[l],
           soft'[l] = soft[l],
           \/ pc'[l] = pc[l]
           \/ pc[l] = "next" /\ pc'[l] = "grant"
    PROVE  Served(l)'
<1> SUFFICES ASSUME ~ soft[l], NEW c \in entitled(profile[l], code[l])
             PROVE  /\ pc'[l] \in {"next", "grant"} => c \in todo[l] \/ Granted(l, c)'
                    /\ pc'[l] = "session" => Granted(l, c)'
  BY DEF Served
<1>1. /\ pc[l] \in {"next", "grant"} => c \in todo[l] \/ Granted(l, c)
      /\ pc[l] = "session" => Granted(l, c)
  BY DEF Served
<1>2. pc[l] \in {"next", "grant", "session"} /\ Granted(l, c) => Granted(l, c)'
  BY GrantedPersists
<1> QED
  BY <1>1, <1>2

LEMMA ServedStep ==
    ASSUME IInv, [Next]_vars, NEW i \in Logins, Served(i)
    PROVE  Served(i)'
<1>1. Knows(i) /\ TypeOK /\ Grows
  BY StepGrows DEF IInv, LoginKnows
<1>2. pc[i] \in {"next", "grant", "session"} => Sub(i) \in Users
  BY <1>1 DEF Knows
<1>3. CASE \E l \in Logins : LoginStep(l)
  <2> PICK l \in Logins : LoginStep(l)
    BY <1>3
  <2>1. CASE i # l
    <3>1. /\ pc'[i] = pc[i] /\ soft'[i] = soft[i]
          /\ todo'[i] = todo[i] /\ profile'[i] = profile[i] /\ code'[i] = code[i]
      BY <1>1, <2>1 DEF LoginStep, Callback, CallbackFails, EnsureUser, EnsureSemester,
         EnsureGrant, Issue, GoTo, TypeOK
    <3> QED
      BY <1>1, <1>2, <3>1, ServedPersists
  <2>2. CASE i = l /\ (Callback(l) \/ CallbackFails(l))
    <3>1. pc'[i] \in {"user", "error"}
      BY <1>1, <2>2 DEF Callback, CallbackFails, GoTo, TypeOK
    <3> QED
      BY <3>1 DEF Served
  <2>3. CASE i = l /\ EnsureUser(l)
    <3>1. \/ pc'[i] = "error"
          \/ /\ pc'[i] = "next" /\ todo'[i] = entitled(profile[i], code[i])
             /\ profile' = profile /\ code' = code
      BY <1>1, <2>3 DEF EnsureUser, GoTo, TypeOK
    <3> QED
      BY <3>1 DEF Served
  <2>4. CASE i = l /\ EnsureSemester(l)
    <3>1. /\ pc[i] = "next" /\ profile' = profile /\ code' = code
          /\ \/ soft'[i] = TRUE
             \/ pc'[i] = "grant" /\ todo' = todo /\ soft' = soft
      BY <1>1, <2>4 DEF EnsureSemester, GoTo, TypeOK
    <3>2. CASE soft'[i] = TRUE
      BY <3>2 DEF Served
    <3>3. CASE pc'[i] = "grant" /\ todo' = todo /\ soft' = soft
      BY <1>1, <1>2, <3>1, <3>3, ServedPersists
    <3> QED
      BY <3>1, <3>2, <3>3
  <2>5. CASE i = l /\ EnsureGrant(l)
    <3>1. /\ pc[i] = "grant" /\ pc'[i] = "next" /\ profile' = profile /\ code' = code
          /\ todo'[i] = todo[i] \ {cur[i]}
          /\ \/ soft'[i] = TRUE
             \/ Execute(GrantStatement(i)) /\ soft' = soft
      BY <1>1, <2>5 DEF EnsureGrant, GoTo, TypeOK, Done
    <3>2. CASE soft'[i] = TRUE
      BY <3>2 DEF Served
    <3>3. CASE Execute(GrantStatement(i)) /\ soft' = soft
      <4> SUFFICES ASSUME ~ soft[i], NEW c \in entitled(profile[i], code[i])
                   PROVE  c \in todo'[i] \/ Granted(i, c)'
        BY <3>1, <3>3 DEF Served
      <4>1. c \in todo[i] \/ Granted(i, c)
        BY <3>1 DEF Served
      <4>2. CASE c = cur[i]
        <5>1. c \in Codes
          BY <1>1, <3>1, <4>2 DEF Knows, TypeOK
        <5> QED
          BY <1>1, <1>2, <3>1, <3>3, <4>2, <5>1, EnsureGrantGrants
      <4>3. CASE c # cur[i] /\ c \in todo[i]
        BY <3>1, <4>3
      <4>4. CASE Granted(i, c)
        BY <1>1, <1>2, <3>1, <4>4, GrantedPersists
      <4> QED
        BY <4>1, <4>2, <4>3, <4>4
    <3> QED
      BY <3>1, <3>2, <3>3
  <2>6. CASE i = l /\ Issue(l)
    <3>1. /\ pc[i] = "next" /\ todo[i] = {} /\ pc'[i] \in {"session", "error"}
          /\ profile' = profile /\ code' = code /\ soft' = soft
      BY <1>1, <2>6 DEF Issue, GoTo, TypeOK, loginVars
    <3> SUFFICES ASSUME ~ soft[i], NEW c \in entitled(profile[i], code[i])
                 PROVE  Granted(i, c)'
      BY <3>1 DEF Served
    <3>2. Granted(i, c)
      BY <3>1 DEF Served
    <3> QED
      BY <1>1, <1>2, <3>1, <3>2, GrantedPersists
  <2> QED
    BY <2>1, <2>2, <2>3, <2>4, <2>5, <2>6 DEF LoginStep
<1>4. CASE \/ \E st \in inflight : ExecuteLate(st)
           \/ Advance \/ Crash \/ Restart \/ UNCHANGED vars
  <2>1. /\ pc'[i] = pc[i] \/ pc'[i] = "lost"
        /\ UNCHANGED <<todo, soft, profile, code>>
    BY <1>1, <1>4 DEF ExecuteLate, Advance, Crash, Restart, vars, loginVars, TypeOK
  <2>2. CASE pc'[i] = "lost"
    BY <2>2 DEF Served
  <2>3. CASE pc'[i] = pc[i]
    BY <1>1, <1>2, <2>1, <2>3, ServedPersists
  <2> QED
    BY <2>1, <2>2, <2>3
<1> QED
  BY <1>3, <1>4 DEF Next, LoginStep, Quiescent

AllServed == \A l \in Logins : Served(l)

LEMMA ServedInvariance == Spec => [](IInv /\ AllServed)
<1>1. Init => AllServed
  BY DEF Init, AllServed, Served
<1>2. IInv /\ AllServed /\ [Next]_vars => AllServed'
  BY ServedStep DEF AllServed
<1> QED
  BY <1>1, <1>2, Invariance, PTL DEF Spec

-----------------------------------------------------------------------------
(* The theorems.                                                            *)

(* Every variable keeps its type.                                           *)
THEOREM TypeCorrect == Spec => []TypeOK
BY Invariance, PTL DEF IInv

(* Whatever DEFAULT_QUOTA was when they logged in, and whichever statement  *)
(* came late, all users have the same grant for the same semester.          *)
THEOREM SameForAll == Spec => []OneAmountPerSemester
<1>1. IInv => OneAmountPerSemester
  BY DEF IInv, GrantsAreDue, Due, OneAmountPerSemester
<1> QED
  BY <1>1, Invariance, PTL

(* No grant is for a semester to come, and every grant goes back to a login *)
(* that was entitled to it.                                                 *)
THEOREM AllRightful == Spec => []GrantsAreRightful
<1>1. IInv => NoGrantInAdvance
  BY DEF IInv, GrantsAreDue, Due, NoGrantInAdvance
<1>2. IInv => GrantsAreEarned
  BY DEF IInv, GrantsAreDue, Due, Earned, GrantsAreEarned
<1> QED
  BY <1>1, <1>2, Invariance, PTL DEF GrantsAreRightful

(* Recorded amounts are final.                                              *)
THEOREM AmountsAreFinal == Spec => AmountsAreKept
<1>1. IInv /\ [Next]_vars =>
        [\A c \in Codes :
           /\ semester[c] # NoAmount => semester'[c] = semester[c]
           /\ \A u \in Users :
                 grant[u][c] # NoAmount => grant'[u][c] = grant[u][c]]_vars
  BY StepGrows DEF Grows
<1> QED
  BY <1>1, Invariance, PTL DEF Spec, AmountsAreKept

(* Whoever gets a session has a row to be locked and, if nothing was        *)
(* logged, all the grants the login entitled to.                            *)
THEOREM SessionsAreServed == Spec => []SessionIsProvisioned
<1>1. IInv /\ AllServed => SessionIsProvisioned
  BY DEF IInv, LoginKnows, Knows, AllServed, Served, Granted, SessionIsProvisioned
<1> QED
  BY <1>1, ServedInvariance, PTL

-----------------------------------------------------------------------------
(* The calendar.                                                            *)

\* A month number is a year and a month.
LEMMA YearAndMonth ==
    ASSUME NEW t \in Nat
    PROVE  /\ t \div 12 \in Nat /\ t % 12 \in 0..11
           /\ t = 12 * (t \div 12) + (t % 12)
<1>1. t \div 12 \in Nat
  BY SMT
<1>2. t % 12 \in 0..11
  BY SMT
<1>3. t = 12 * (t \div 12) + (t % 12)
  BY Z3
<1> QED
  BY <1>1, <1>2, <1>3

(* A later month is never in an earlier semester (semester.Current).        *)
THEOREM CurrentIsMonotonic ==
    ASSUME NEW s \in Nat, NEW t \in Nat, s <= t
    PROVE  Current(s) <= Current(t)
<1> DEFINE term(m) == IF m + 1 <= 4 THEN 1 ELSE IF m + 1 <= 8 THEN 5 ELSE 9
<1>1. PICK y \in Nat, m \in 0..11 : s = 12 * y + m /\ Current(s) = y * 100 + term(m)
  BY YearAndMonth DEF Current
<1>2. PICK z \in Nat, n \in 0..11 : t = 12 * z + n /\ Current(t) = z * 100 + term(n)
  BY YearAndMonth DEF Current
<1>3. y < z \/ (y = z /\ m <= n)
  BY <1>1, <1>2, SMT
<1> QED
  BY <1>1, <1>2, <1>3, SMT

(* semester.Name undoes semester.Code, for every year.                      *)
THEOREM NameUndoesCode ==
    ASSUME NEW season \in Seasons, NEW year \in Nat
    PROVE  LET n == [season |-> season, year |-> year] IN
           Parses(n) /\ Name(Code(n)) = n
<1> DEFINE n == [season |-> season, year |-> year]
<1>1. Parses(n)
  BY SMT DEF Parses, NoYear
<1>2. PICK term \in {1, 5, 9} :
        /\ Code(n) = year * 100 + term
        /\ term = 1 <=> season = "Winter"
        /\ term = 5 <=> season = "Summer"
        /\ term = 9 <=> season = "Fall"
  BY SMT DEF Code, Seasons
<1>3. (year * 100 + term) \div 100 = year /\ (year * 100 + term) % 100 = term
  BY Z3
<1>4. Name(Code(n)).season = season /\ Name(Code(n)).year = year
  BY <1>2, <1>3, SMT DEF Name, Seasons
<1> QED
  BY <1>1, <1>4, SMT DEF Name

(* Whatever the month, if the migration made a row for its semester, it is  *)
(* the row that the program would have made, with its default of 250 pages. *)
THEOREM MigrationIsTheProgram ==
    ASSUME NEW t \in Nat, 201609 <= Current(t), Current(t) <= 202605
    PROVE  LET c == Current(t) IN
           /\ c \in DOMAIN MigratedSemesters
           /\ MigratedSemesters[c].default_quota = QuotaFor(c, 250)
           /\ MigratedSemesters[c].name = Name(c)
           /\ \E season \in 0..2 : c = term_from_season_year(season, t \div 12)
<1> DEFINE c == Current(t)
           y == t \div 12
<1>1. PICK term \in {1, 5, 9} : c = y * 100 + term
  BY SMT DEF Current
<1>2. y \in 2016..2026
  BY <1>1, YearAndMonth, SMT
<1>3. c % 100 = term /\ c \in Nat
  <2>1. \A z \in Nat : (z * 100 + term) % 100 = term
    BY Z3
  <2> QED
    BY <1>1, <1>2, <2>1, SMT
<1> HIDE DEF c, y
<1>4. 201609 <= c /\ c <= 202605
  BY DEF c
<1>5. c \in generate_term_range
  <2> DEFINE codes == {a * 100 + b : a \in 2016..2026, b \in {1, 5, 9}}
  <2>1. \E a \in 2016..2026, b \in {1, 5, 9} : c = a * 100 + b
    BY <1>1, <1>2, SMT
  <2>2. c \in codes
    BY <2>1, SMT
  <2> HIDE DEF codes
  <2>3. generate_term_range = {x \in codes : 201609 <= x /\ x <= 202605}
    BY SMT DEF generate_term_range, codes
  <2> QED
    BY <1>4, <2>2, <2>3, SMT
<1>6. quota_for(c) = QuotaFor(c, 250)
  BY <1>1, <1>2, <1>3, <1>4, SMT DEF quota_for, QuotaFor
<1>7. term_to_string(c) = Name(c)
  BY <1>3, SMT DEF term_to_string, Name
<1>8. \E season \in 0..2 : c = term_from_season_year(season, y)
  <2>1. CASE term = 1
    BY <1>1, <1>2, <2>1, 0 \in 0..2, SMT DEF term_from_season_year
  <2>2. CASE term = 5
    BY <1>1, <1>2, <2>2, 1 \in 0..2, SMT DEF term_from_season_year
  <2>3. CASE term = 9
    BY <1>1, <1>2, <2>3, 2 \in 0..2, SMT DEF term_from_season_year
  <2> QED
    BY <2>1, <2>2, <2>3
<1> QED
  BY <1>5, <1>6, <1>7, <1>8 DEF MigratedSemesters, c, y

(* The calendar of the instance, from the theorems for all months.          *)
THEOREM CalendarHolds == Spec => []CalendarAgrees
<1>1. Months \subseteq Nat /\ \A t \in Months : t \div 12 \in Nat
  BY YearAndMonth, SMT DEF Months
<1>2. CurrentMonotonic
  <2>1. \A t \in Months : t \in Nat /\ t + 1 \in Nat /\ t <= t + 1
    BY <1>1, SMT
  <2>2. \A t \in Months : Current(t) <= Current(t + 1)
    BY <2>1, CurrentIsMonotonic
  <2>3. \A t \in Months : Current(t) \in Nat /\ Current(t + 1) \in Nat
    BY <2>1, YearAndMonth, SMT DEF Current
  <2> QED
    BY <2>2, <2>3, SMT DEF CurrentMonotonic
<1>3. NameCodeInverse
  <2> SUFFICES ASSUME NEW t \in Months, NEW n \in Names(t), NEW other \in Names(t)
               PROVE  LET codes == Enrolments({n, other}) IN
                      /\ Parses(n) => Code(n) \in codes /\ Name(Code(n)) = n
                      /\ \A c \in codes : Code(Name(c)) = c
    BY DEF NameCodeInverse
  <2>1. \A m \in Names(t) : Parses(m) => Name(Code(m)) = m
    <3> SUFFICES ASSUME NEW m \in Names(t), Parses(m)
                 PROVE  Name(Code(m)) = m
      OBVIOUS
    <3>1. m.season \in Seasons /\ m.year \in Nat
      BY <1>1, SMT DEF Names, Parses
    <3>2. m = [season |-> m.season, year |-> m.year]
      BY SMT DEF Names
    <3> QED
      BY <3>1, <3>2, NameUndoesCode
  <2> QED
    BY <2>1, Zenon DEF Enrolments
<1>4. MigrationAgrees
  <2> SUFFICES ASSUME NEW t \in Months,
                      201609 <= Current(t) /\ Current(t) <= 202605
               PROVE  LET c == Current(t) IN
                      /\ c \in DOMAIN MigratedSemesters
                      /\ MigratedSemesters[c].default_quota = QuotaFor(c, 250)
                      /\ MigratedSemesters[c].name = Name(c)
                      /\ \E season \in 0..2 :
                            c = term_from_season_year(season, t \div 12)
    BY SMT DEF MigrationAgrees
  <2> QED
    BY <1>1, MigrationIsTheProgram, SMT
<1> QED
  BY <1>2, <1>3, <1>4, PTL DEF CalendarAgrees

=============================================================================
