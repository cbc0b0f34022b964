---------------------------- MODULE MCProvision ----------------------------
(***************************************************************************)
(* A small instance of Provision: two logins around a change of semester   *)
(* and of DEFAULT_QUOTA.                                                   *)
(***************************************************************************)
EXTENDS Provision

CONSTANTS alice, bob

TwoUsers     == {alice, bob}
\* A summer, the fall it turns into, and a semester of the past.
ThreeCodes   == {201701, 202505, 202509}
\* August and September 2025.
TwoDates     == {2025 * 12 + 7, 2025 * 12 + 8}
\* alice, eligible, enrolled for the fall and in 2017; alice again, after she
\* left the faculty; bob, who only takes a course in the fall.
ThreeProfiles ==
    {[Username |-> alice, QuotaEligible |-> TRUE,  Enrolments |-> {201701, 202509}],
     [Username |-> alice, QuotaEligible |-> FALSE, Enrolments |-> {201701}],
     [Username |-> bob,   QuotaEligible |-> FALSE, Enrolments |-> {202509}]}

-----------------------------------------------------------------------------
(* The calendar, over the years of the migration and some beyond.  These    *)
(* three do not depend on the state; they are looked at before anyone has   *)
(* logged in, and not in every state again.                                 *)

Untouched == \A l \in Logins : pc[l] = "idle"

Months == 2015 * 12 + 6 .. 2028 * 12 + 4

\* What a course of that year may be called: one season is none, and the year
\* may not parse.
Names(t) == [season : Seasons \cup {"Spring"}, year : {t \div 12, NoYear}]

(* Time does not take a user back to an earlier semester                    *)
(* (semester_test.go TestCurrentMonotonic), not even at the turn of a year. *)
CurrentMonotonic ==
    Untouched => \A t \in Months : Current(t + 1) >= Current(t)

(* What a course is called is what the program would call the semester with *)
(* its code (TestNameCodeInverse), and a course with a semester that does   *)
(* not parse hides none of the others.                                      *)
NameCodeInverse ==
    Untouched => \A t \in Months : \A n, other \in Names(t) :
        LET codes == Enrolments({n, other}) IN
        /\ Parses(n) => Code(n) \in codes /\ Name(Code(n)) = n
        /\ \A c \in codes : Code(Name(c)) = c

(* From fall 2016 to summer 2026, the rows that the migration has made are  *)
(* the ones the program would make, with its default quota of 250 pages:    *)
(* nobody's grant depends on which of the two made the row first.           *)
MigrationAgrees ==
    Untouched => \A t \in Months :
        LET c == Current(t) IN
        201609 <= c /\ c <= 202605 =>
            /\ c \in DOMAIN MigratedSemesters
            /\ MigratedSemesters[c].default_quota = QuotaFor(c, 250)
            /\ MigratedSemesters[c].name = Name(c)
            /\ \E season \in 0..2 : c = term_from_season_year(season, t \div 12)

(* Go and SQL tell the same calendar, at every turn of a semester and year. *)
CalendarAgrees == CurrentMonotonic /\ NameCodeInverse /\ MigrationAgrees

=============================================================================
