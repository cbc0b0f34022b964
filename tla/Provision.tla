----------------------------- MODULE Provision -----------------------------
(***************************************************************************)
(* Logins that provision quota: the authentication callback, Provision,    *)
(* and the tables app_user, semester and semester_grant (web/handlers.go,  *)
(* app/provision.go, postgres/quota_store.go).                             *)
(*                                                                         *)
(* Several logins run at once, of one user or of several; semesters pass;  *)
(* the process stops and comes back with another DEFAULT_QUOTA; and a      *)
(* statement whose sender saw an error may be executed later, or never.    *)
(***************************************************************************)
EXTENDS Semesters

CONSTANTS
    Users,          \* usernames
    Codes,          \* semester codes: year * 100 + 1, 5 or 9
    Logins,         \* authentication callbacks
    Profiles,       \* the user.User records that ToUser may return
    Dates,          \* months counted from year 0
    Defaults,       \* values DEFAULT_QUOTA is set to
    NoUser,         \* a callback that has not come
    NoAmount,       \* no such row
    MaxFaults,      \* bound: database calls that return an error
    MaxCrashes      \* bound: times the process stops

ASSUME UsersAssumption == NoUser \notin Users
ASSUME CodesAssumption == Codes \subseteq Nat
ASSUME ProfilesAssumption ==
    Profiles \subseteq [Username : Users, QuotaEligible : BOOLEAN,
                        Enrolments : SUBSET Codes]
ASSUME DatesAssumption == Dates \subseteq Nat /\ \A t \in Dates : Current(t) \in Codes
ASSUME DefaultsAssumption == Defaults \subseteq Nat
ASSUME NoAmountAssumption == NoAmount \notin Nat
ASSUME FaultsAssumption == MaxFaults \in Nat /\ MaxCrashes \in Nat

VARIABLES
    date,           \* today's month
    defaultQuota,   \* the process's DEFAULT_QUOTA
    appUser,        \* the rows of app_user
    semester,       \* semester[c]: default_quota column of c's row
    grant,          \* grant[u][c]: amount column of u's grant for c
    inflight,       \* statements the database may still execute
    pc,             \* where callback l is
    profile,        \* the user.User of callback l
    code,           \* currentSemesterCode, as computed for l
    todo,           \* codes of entitled that l has not gone through
    cur, amount,    \* the code l is at, and its effective quota
    soft,           \* l logged an error and went on
    up,             \* the process runs
    faults, crashes

tableVars == <<appUser, semester, grant>>
loginVars == <<pc, profile, code, todo, cur, amount, soft>>
vars == <<date, defaultQuota, tableVars, inflight, loginVars, up, faults, crashes>>

Nobody == [Username |-> NoUser, QuotaEligible |-> FALSE, Enrolments |-> {}]

Sub(l) == profile[l].Username

Points == {"idle", "user", "next", "grant", "session", "error", "lost"}

Init ==
    /\ date \in Dates /\ defaultQuota \in Defaults
    /\ appUser = {}
    /\ semester = [c \in Codes |-> NoAmount]
    /\ grant = [u \in Users |-> [c \in Codes |-> NoAmount]]
    /\ inflight = {}
    /\ pc = [l \in Logins |-> "idle"]
    /\ profile = [l \in Logins |-> Nobody]
    /\ code = [l \in Logins |-> 0]
    /\ todo = [l \in Logins |-> {}]
    /\ cur = [l \in Logins |-> 0]
    /\ amount = [l \in Logins |-> 0]
    /\ soft = [l \in Logins |-> FALSE]
    /\ up = TRUE /\ faults = 0 /\ crashes = 0

-----------------------------------------------------------------------------
(* What a login entitles to.                                                *)

\* Mutant: enrolments of the semesters to come count too.
entitledEarly(p, now) == (IF p.QuotaEligible THEN {now} ELSE {}) \cup p.Enrolments

entitled(p, now) ==
    (IF p.QuotaEligible THEN {now} ELSE {}) \cup {c \in p.Enrolments : c <= now}

(* The statements: INSERTs that leave an existing row as it is.             *)

Statement(kind, u, c, a) == [kind |-> kind, user |-> u, code |-> c, amount |-> a]

Statements ==
    [kind : {"user", "semester", "grant"}, user : Users, code : Codes, amount : Nat]

\* Mutant: DO UPDATE SET the new value.
InsertAgain(old, new) == new

\* ON CONFLICT DO NOTHING, or DO UPDATE of nothing.
InsertOnce(old, new) == IF old = NoAmount THEN new ELSE old

Execute(st) ==
    CASE st.kind = "user" ->
            appUser' = appUser \cup {st.user} /\ UNCHANGED <<semester, grant>>
      [] st.kind = "semester" ->
            /\ semester' = [semester EXCEPT ![st.code] = InsertOnce(@, st.amount)]
            /\ UNCHANGED <<appUser, grant>>
      [] st.kind = "grant" ->
            /\ grant' = [grant EXCEPT ![st.user][st.code] = InsertOnce(@, st.amount)]
            /\ UNCHANGED <<appUser, semester>>

Done(st) == Execute(st) /\ UNCHANGED <<inflight, faults>>

\* The caller gets an error; the statement may have reached the server.
Broken(st) ==
    /\ faults < MaxFaults
    /\ faults' = faults + 1
    /\ inflight' \in {inflight, inflight \cup {st}}
    /\ UNCHANGED tableVars

-----------------------------------------------------------------------------
(* The callback l.                                                          *)

GoTo(l, point) == pc' = [pc EXCEPT ![l] = point]

\* The identity provider has told who logs in.
Callback(l) ==
    /\ up /\ pc[l] = "idle"
    /\ \E p \in Profiles : profile' = [profile EXCEPT ![l] = p]
    /\ code' = [code EXCEPT ![l] = Current(date)]
    /\ GoTo(l, "user")
    /\ UNCHANGED <<date, defaultQuota, tableVars, inflight, todo, cur, amount,
                   soft, up, faults, crashes>>

\* It has not.
CallbackFails(l) ==
    /\ up /\ pc[l] = "idle"
    /\ GoTo(l, "error")
    /\ UNCHANGED <<date, defaultQuota, tableVars, inflight, profile, code, todo,
                   cur, amount, soft, up, faults, crashes>>

UserStatement(l) == Statement("user", Sub(l), code[l], 0)

\* Mutant: an error of EnsureUser is logged, like the other two.
EnsureUserSoftly(l) ==
    /\ up /\ pc[l] = "user"
    /\ Done(UserStatement(l)) \/ Broken(UserStatement(l))
    /\ todo' = [todo EXCEPT ![l] = entitled(profile[l], code[l])]
    /\ GoTo(l, "next")
    /\ UNCHANGED <<date, defaultQuota, profile, code, cur, amount, soft, up, crashes>>

EnsureUser(l) ==
    /\ up /\ pc[l] = "user"
    /\ \/ /\ Done(UserStatement(l))
          /\ todo' = [todo EXCEPT ![l] = entitled(profile[l], code[l])]
          /\ GoTo(l, "next")
       \/ Broken(UserStatement(l)) /\ GoTo(l, "error") /\ UNCHANGED todo
    /\ UNCHANGED <<date, defaultQuota, profile, code, cur, amount, soft, up, crashes>>

SemesterStatement(l, c) == Statement("semester", Sub(l), c, QuotaFor(c, defaultQuota))

\* Mutant: the grant is DEFAULT_QUOTA, whatever the row says.
EnsureSemesterToday(l) ==
    /\ up /\ pc[l] = "next"
    /\ \E c \in todo[l] :
          \/ /\ Done(SemesterStatement(l, c))
             /\ cur' = [cur EXCEPT ![l] = c]
             /\ amount' = [amount EXCEPT ![l] = QuotaFor(c, defaultQuota)]
             /\ GoTo(l, "grant")
             /\ UNCHANGED <<todo, soft>>
          \/ /\ Broken(SemesterStatement(l, c))
             /\ todo' = [todo EXCEPT ![l] = @ \ {c}]
             /\ soft' = [soft EXCEPT ![l] = TRUE]
             /\ UNCHANGED <<pc, cur, amount>>
    /\ UNCHANGED <<date, defaultQuota, profile, code, up, crashes>>

EnsureSemester(l) ==
    /\ up /\ pc[l] = "next"
    /\ \E c \in todo[l] :
          \/ /\ Done(SemesterStatement(l, c))
             /\ cur' = [cur EXCEPT ![l] = c]
             /\ amount' = [amount EXCEPT ![l] = semester'[c]]
             /\ GoTo(l, "grant")
             /\ UNCHANGED <<todo, soft>>
          \/ /\ Broken(SemesterStatement(l, c))
             /\ todo' = [todo EXCEPT ![l] = @ \ {c}]
             /\ soft' = [soft EXCEPT ![l] = TRUE]
             /\ UNCHANGED <<pc, cur, amount>>
    /\ UNCHANGED <<date, defaultQuota, profile, code, up, crashes>>

GrantStatement(l) == Statement("grant", Sub(l), cur[l], amount[l])

EnsureGrant(l) ==
    /\ up /\ pc[l] = "grant"
    /\ \/ Done(GrantStatement(l)) /\ UNCHANGED soft
       \/ Broken(GrantStatement(l)) /\ soft' = [soft EXCEPT ![l] = TRUE]
    /\ todo' = [todo EXCEPT ![l] = @ \ {cur[l]}]
    /\ GoTo(l, "next")
    /\ UNCHANGED <<date, defaultQuota, profile, code, cur, amount, up, crashes>>

\* Provision returns nil whatever was logged, and the session is issued; or
\* sealing its cookie fails.
Issue(l) ==
    /\ up /\ pc[l] = "next" /\ todo[l] = {}
    /\ \E answer \in {"session", "error"} : GoTo(l, answer)
    /\ UNCHANGED <<date, defaultQuota, tableVars, inflight, profile, code, todo,
                   cur, amount, soft, up, faults, crashes>>

-----------------------------------------------------------------------------
(* Time, the database on its own, and the process.                          *)

Advance ==
    /\ \E t \in Dates : t > date /\ date' = t
    /\ UNCHANGED <<defaultQuota, tableVars, inflight, loginVars, up, faults, crashes>>

ExecuteLate(st) ==
    /\ Execute(st)
    /\ inflight' = inflight \ {st}
    /\ UNCHANGED <<date, defaultQuota, loginVars, up, faults, crashes>>

Running(l) == pc[l] \in {"user", "next", "grant"}

Outstanding ==
    {UserStatement(l) : l \in {k \in Logins : pc[k] = "user"}}
        \cup {GrantStatement(l) : l \in {k \in Logins : pc[k] = "grant"}}
        \cup UNION {{SemesterStatement(l, c) : c \in todo[l]} :
                        l \in {k \in Logins : pc[k] = "next"}}

Crash ==
    /\ up /\ crashes < MaxCrashes
    /\ crashes' = crashes + 1
    /\ up' = FALSE
    /\ pc' = [l \in Logins |-> IF Running(l) THEN "lost" ELSE pc[l]]
    /\ \E sent \in SUBSET Outstanding : inflight' = inflight \cup sent
    /\ UNCHANGED <<date, defaultQuota, tableVars, profile, code, todo, cur,
                   amount, soft, faults>>

\* The new process may have been given another DEFAULT_QUOTA.
Restart ==
    /\ ~ up
    /\ up' = TRUE
    /\ defaultQuota' \in Defaults
    /\ UNCHANGED <<date, tableVars, inflight, loginVars, faults, crashes>>

\* Every login of the instance is over.
Quiescent ==
    /\ up /\ \A l \in Logins : pc[l] # "idle" /\ ~ Running(l)
    /\ UNCHANGED vars

Next ==
    \/ \E l \in Logins :
          \/ Callback(l) \/ CallbackFails(l) \/ EnsureUser(l)
          \/ EnsureSemester(l) \/ EnsureGrant(l) \/ Issue(l)
    \/ \E st \in inflight : ExecuteLate(st)
    \/ Advance \/ Crash \/ Restart \/ Quiescent

Spec == Init /\ [][Next]_vars

-----------------------------------------------------------------------------
TypeOK ==
    /\ date \in Dates /\ defaultQuota \in Defaults
    /\ appUser \subseteq Users
    /\ semester \in [Codes -> Nat \cup {NoAmount}]
    /\ grant \in [Users -> [Codes -> Nat \cup {NoAmount}]]
    /\ inflight \subseteq Statements
    /\ pc \in [Logins -> Points]
    /\ profile \in [Logins -> Profiles \cup {Nobody}]
    /\ code \in [Logins -> Codes \cup {0}]
    /\ todo \in [Logins -> SUBSET Codes]
    /\ cur \in [Logins -> Codes \cup {0}]
    /\ amount \in [Logins -> Nat]
    /\ soft \in [Logins -> BOOLEAN]
    /\ up \in BOOLEAN
    /\ faults \in 0..MaxFaults /\ crashes \in 0..MaxCrashes

(* Everyone is granted the same for a semester: what its row says, not what *)
(* DEFAULT_QUOTA is when they log in.  Neither foreign key of a grant is    *)
(* ever missing.                                                            *)
OneAmountPerSemester ==
    \A u \in Users, c \in Codes :
        grant[u][c] # NoAmount => u \in appUser /\ grant[u][c] = semester[c]

(* A row of semester or semester_grant is never changed by another login,   *)
(* a restart or a late statement.                                           *)
AmountsAreKept ==
    [][\A c \in Codes :
          /\ semester[c] # NoAmount => semester'[c] = semester[c]
          /\ \A u \in Users :
                grant[u][c] # NoAmount => grant'[u][c] = grant[u][c]]_vars

(* Nobody has quota for a semester that has not begun, even if enrolled.    *)
NoGrantInAdvance ==
    \A u \in Users, c \in Codes : grant[u][c] # NoAmount => c <= Current(date)

(* A grant comes from a login of its user who was enrolled in the semester, *)
(* or eligible when it was the current one.                                 *)
GrantsAreEarned ==
    \A u \in Users, c \in Codes :
        grant[u][c] # NoAmount =>
            \E l \in Logins :
                /\ Sub(l) = u
                /\ \/ c \in profile[l].Enrolments
                   \/ profile[l].QuotaEligible /\ c = code[l]

(* Both: for semesters and users that it is meant for, and no others.       *)
GrantsAreRightful == NoGrantInAdvance /\ GrantsAreEarned

(* Whoever holds a session has the row that CheckQuotaAndStore locks, and,  *)
(* unless an error was logged, every grant the login entitled to.           *)
SessionIsProvisioned ==
    \A l \in Logins :
        pc[l] = "session" =>
            /\ Sub(l) \in appUser
            /\ ~ soft[l] =>
                  \A c \in entitled(profile[l], code[l]) : grant[Sub(l)][c] # NoAmount

=============================================================================
