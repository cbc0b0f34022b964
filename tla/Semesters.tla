------------------------------ MODULE Semesters -----------------------------
(***************************************************************************)
(* Semesters: their codes, names and quotas (semester/semester.go,         *)
(* app/provision.go QuotaFor, oidc.go ToUser), and the functions with      *)
(* which the migration made the rows the program finds                     *)
(* (migration/00_create_helpers.sql, 01_import_from_legacy.sql).           *)
(*                                                                         *)
(* A code is year * 100 + 1, 5 or 9.  A name is a season and a year; a     *)
(* name that does not split, or whose year is no number, has year NoYear.  *)
(* A date is the number of a month, counted from year 0.                   *)
(***************************************************************************)
EXTENDS Integers

Seasons == {"Winter", "Summer", "Fall"}
NoYear == -1

(* semester.Current *)
Current(t) ==
    LET year  == t \div 12
        month == (t % 12) + 1
    IN  year * 100 + (IF month <= 4 THEN 1 ELSE IF month <= 8 THEN 5 ELSE 9)

\* semester.Code: whether it parses, and to what.
Parses(name) == name.season \in Seasons /\ name.year # NoYear

Code(name) ==
    name.year * 100 + (CASE name.season = "Winter" -> 1
                         [] name.season = "Summer" -> 5
                         [] name.season = "Fall"   -> 9)

\* semester.Name, the name column of a new row of semester.
Name(code) ==
    [year |-> code \div 100,
     season |-> CASE code % 100 = 1 -> "Winter"
                  [] code % 100 = 5 -> "Summer"
                  [] code % 100 = 9 -> "Fall"
                  [] OTHER -> "Semester"]

\* ToUser skips the courses whose semester does not parse.
Enrolments(names) == {Code(n) : n \in {m \in names : Parses(m)}}

\* Mutant: the years of 1000 pages end one semester early.
QuotaForEarly(c, default) ==
    IF c % 100 = 5 \/ c < 201609 THEN 0
    ELSE IF c = 201609 THEN 500
    ELSE IF c < 201901 THEN 1000
    ELSE default

QuotaFor(c, default) ==
    IF c % 100 = 5 \/ c < 201609 THEN 0
    ELSE IF c = 201609 THEN 500
    ELSE IF c < 201909 THEN 1000
    ELSE default

-----------------------------------------------------------------------------
(* The migration.                                                           *)

\* generate_term_range(2016, 09, 2026, 05)
generate_term_range ==
    {c \in {y * 100 + term : y \in 2016..2026, term \in {1, 5, 9}} :
        201609 <= c /\ c <= 202605}

term_to_string(code) ==
    [year |-> code \div 100,
     season |-> CASE code % 100 = 1 -> "Winter"
                  [] code % 100 = 5 -> "Summer"
                  [] code % 100 = 9 -> "Fall"
                  [] OTHER -> "Unknown"]

quota_for(c) ==
    IF c % 100 = 5 THEN 0
    ELSE IF c = 201609 THEN 500
    ELSE IF 201701 <= c /\ c <= 201905 THEN 1000
    ELSE 250

\* The legacy system counts seasons from 0.
term_from_season_year(season, year) == year * 100 + (season * 4 + 1)

\* The rows of semester after the migration.
MigratedSemesters ==
    [c \in generate_term_range |->
        [name |-> term_to_string(c), default_quota |-> quota_for(c)]]

=============================================================================
