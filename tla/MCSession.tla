------------------------------ MODULE MCSession -----------------------------
(***************************************************************************)
(* A small instance of Session: two tabs, a second of two ticks, and a     *)
(* lifetime of one second and a half.                                      *)
(***************************************************************************)
EXTENDS Session

\* Nobody, a plain user, one kind of staff, and an administrator who is staff too.
SomeGroups == {{}, {"Org-Users"}, {"Org-Managers"}, {"Org-Admins", "Org-Staff"}}

=============================================================================
