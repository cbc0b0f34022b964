------------------------------- MODULE Session ------------------------------
(***************************************************************************)
(* Logging in, the session cookie, and the pages behind it                 *)
(* (session/session.go, web/server.go, web/handlers.go, user/user.go,      *)
(* oidc/oidc.go).                                                          *)
(*                                                                         *)
(* The server keeps no session: the cookie is all there is, and what it    *)
(* says of the role was read when the user logged in.  One user has a      *)
(* browser with several tabs, which share the cookie and may log in at the *)
(* same time, while the user's groups change at the identity provider.     *)
(*                                                                         *)
(* now counts ticks; Second of them are one second.  Clocks of one machine *)
(* only: issuer and verifier of a cookie are the same process or its       *)
(* successor.                                                              *)
(***************************************************************************)
EXTENDS Integers

CONSTANTS
    Tabs,           \* the tabs of the browser
    Groups,         \* sets of groups that the provider may report
    TTL,            \* SESSION_TTL, in ticks
    Second,         \* ticks of a second
    MaxTime,        \* bound on now
    None            \* no cookie

ASSUME TimesAssumption == TTL \in Nat \ {0} /\ Second \in Nat \ {0} /\ MaxTime \in Nat
ASSUME GroupsAssumption == Groups \subseteq SUBSET STRING

VARIABLES
    now,            \* the clock
    groups,         \* the user's groups at the provider
    lastStaff,      \* last time the groups made the user staff; -1: never
    lastPlain,      \* last time they did not; -1: never
    jar,            \* the cookie of the browser
    pc,             \* where the tab t is
    page,           \* the page it wants
    info            \* what the provider told its callback, and when

vars == <<now, groups, lastStaff, lastPlain, jar, pc, page, info>>

Pages == {"home", "admin"}

\* What a callback knows before it has asked the provider.
Nothing == [Role |-> "", at |-> 0]

Unix(t) == t \div Second

-----------------------------------------------------------------------------
(* Roles.                                                                   *)

\* Mutant: managers are forgotten.
RoleWithoutManagers(gs) ==
    IF "Org-Admins" \in gs THEN "admin"
    ELSE IF "Org-Staff" \in gs THEN "staff"
    ELSE IF "Org-Users" \in gs THEN "user"
    ELSE ""

RoleFromGroups(gs) ==
    IF "Org-Admins" \in gs THEN "admin"
    ELSE IF gs \cap {"Org-Managers", "Org-Staff"} # {} THEN "staff"
    ELSE IF "Org-Users" \in gs THEN "user"
    ELSE ""

RoleRank(role) ==
    CASE role = "user"  -> 1
      [] role = "staff" -> 2
      [] role = "admin" -> 3
      [] OTHER          -> 0

StaffGroups == {"Org-Admins", "Org-Managers", "Org-Staff"}
IsStaff(gs) == gs \cap StaffGroups # {}

-----------------------------------------------------------------------------
Init ==
    /\ now = 0
    /\ groups \in Groups
    /\ lastStaff = IF IsStaff(groups) THEN 0 ELSE -1
    /\ lastPlain = IF IsStaff(groups) THEN -1 ELSE 0
    /\ jar = None
    /\ pc = [t \in Tabs |-> "idle"]
    /\ page = [t \in Tabs |-> "home"]
    /\ info = [t \in Tabs |-> Nothing]

GoTo(t, point) == pc' = [pc EXCEPT ![t] = point]

\* Mutant: a cookie is no good any more in its last second.
FromRequestStrict(cookie) == cookie # None /\ Unix(now) < cookie.Exp

\* There is a session, and it has not expired.
FromRequest(cookie) == cookie # None /\ ~ (Unix(now) > cookie.Exp)

\* requireSession, then requireRole for the page of staff: to log in, to be
\* forbidden, or to be served.
Answer(p) ==
    IF ~ FromRequest(jar) THEN "login"
    ELSE IF p = "admin" /\ RoleRank(jar.Role) < RoleRank("staff") THEN "forbidden"
    ELSE "served"

\* A page is asked for; also when a login sends the tab back to it.
Request(t) ==
    /\ pc[t] \in {"idle", "back"}
    /\ \E p \in Pages :
          /\ pc[t] = "back" => p = page[t]
          /\ page' = [page EXCEPT ![t] = p]
          /\ GoTo(t, Answer(p))
    /\ UNCHANGED <<now, groups, lastStaff, lastPlain, jar, info>>

\* The user reads the answer.
Leave(t) ==
    /\ pc[t] \in {"forbidden", "served", "error"}
    /\ GoTo(t, "idle")
    /\ page' = [page EXCEPT ![t] = "home"]
    /\ UNCHANGED <<now, groups, lastStaff, lastPlain, jar, info>>

\* The provider calls back, and GetUserInfo asks it for the user.
GetUserInfo(t) ==
    /\ pc[t] = "login"
    /\ GoTo(t, "callback")
    /\ info' = [info EXCEPT ![t] = [Role |-> RoleFromGroups(groups), at |-> now]]
    /\ UNCHANGED <<now, groups, lastStaff, lastPlain, jar, page>>

\* The user never comes back, the provider fails, or Provision does.
LoginFails(t) ==
    /\ pc[t] \in {"login", "callback"}
    /\ GoTo(t, "error")
    /\ info' = [info EXCEPT ![t] = Nothing]
    /\ UNCHANGED <<now, groups, lastStaff, lastPlain, jar, page>>

\* Mutant: it expires a TTL after the second after this one.
IssueLate(t) ==
    /\ pc[t] = "callback"
    /\ jar' = [Role |-> info[t].Role, Exp |-> Unix(now + TTL + Second),
               read |-> info[t].at, issued |-> now]
    /\ GoTo(t, "back")
    /\ info' = [info EXCEPT ![t] = Nothing]
    /\ UNCHANGED <<now, groups, lastStaff, lastPlain, page>>

\* The user is provisioned; the cookie replaces the one in the browser.
Issue(t) ==
    /\ pc[t] = "callback"
    /\ jar' = [Role |-> info[t].Role, Exp |-> Unix(now + TTL),
               read |-> info[t].at, issued |-> now]
    /\ GoTo(t, "back")
    /\ info' = [info EXCEPT ![t] = Nothing]
    /\ UNCHANGED <<now, groups, lastStaff, lastPlain, page>>

\* MaxAge is the TTL in whole seconds; the browser also drops cookies early.
Drop ==
    /\ jar # None
    /\ jar' = None
    /\ UNCHANGED <<now, groups, lastStaff, lastPlain, pc, page, info>>

ChangeGroups ==
    /\ groups' \in Groups \ {groups}
    /\ lastStaff' = IF IsStaff(groups') THEN now ELSE lastStaff
    /\ lastPlain' = IF IsStaff(groups') THEN lastPlain ELSE now
    /\ UNCHANGED <<now, jar, pc, page, info>>

Tick ==
    /\ now < MaxTime
    /\ now' = now + 1
    /\ lastStaff' = IF IsStaff(groups) THEN now' ELSE lastStaff
    /\ lastPlain' = IF IsStaff(groups) THEN lastPlain ELSE now'
    /\ UNCHANGED <<groups, jar, pc, page, info>>

Next ==
    \/ \E t \in Tabs :
          \/ Request(t) \/ Leave(t)
          \/ GetUserInfo(t) \/ LoginFails(t) \/ Issue(t)
    \/ Drop \/ ChangeGroups \/ Tick

Spec == Init /\ [][Next]_vars

-----------------------------------------------------------------------------
Roles == {"", "user", "staff", "admin"}
Times == 0..MaxTime

TypeOK ==
    /\ now \in Times
    /\ groups \in Groups
    /\ lastStaff \in Times \cup {-1} /\ lastPlain \in Times \cup {-1}
    /\ jar \in [Role : Roles, Exp : Nat, read : Times, issued : Times] \cup {None}
    /\ pc \in [Tabs -> {"idle", "login", "callback", "back", "forbidden",
                        "served", "error"}]
    /\ page \in [Tabs -> Pages]
    /\ info \in [Tabs -> [Role : Roles, at : Times]]

(* A role that was taken away stops working: the page of staff is only      *)
(* served to a user who was staff when the cookie's login read the groups   *)
(* or later, and less than a TTL and a second after the cookie was issued.  *)
(* (Between the two lies the rest of that login, which nothing bounds.)     *)
RevocationTakesEffect ==
    [][\A t \in Tabs :
          pc[t] # "served" /\ pc'[t] = "served" /\ page'[t] = "admin" =>
              /\ lastStaff >= jar.read
              /\ now < jar.issued + TTL + Second]_vars

(* Nobody is sent to log in, or back to log in again, within a TTL of the   *)
(* login that gave the browser its cookie.                                  *)
SessionLasts ==
    [][\A t \in Tabs :
          pc[t] # "login" /\ pc'[t] = "login" /\ jar # None =>
              now > jar.issued + TTL]_vars

(* Whoever has been staff ever since the login that gave the browser its    *)
(* cookie read the groups is not forbidden the page of staff.               *)
StaffGetIn ==
    [][\A t \in Tabs :
          pc[t] # "forbidden" /\ pc'[t] = "forbidden" =>
              lastPlain >= jar.read]_vars

=============================================================================
