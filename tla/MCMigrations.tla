---------------------------- MODULE MCMigrations ----------------------------
(* Small instances of Migrations for TLC: a first release, two that add a  *)
(* file to it, one that has both, so that a file comes before one that may *)
(* have been run already, and one whose first file was edited.             *)
EXTENDS Migrations, TLC

File(n, c) == [name |-> n, content |-> c]
First == <<File(1, "bars")>>
Later == <<File(1, "bars"), File(3, "views")>>
Fork == <<File(1, "bars"), File(2, "index")>>
Both == <<File(1, "bars"), File(2, "index"), File(3, "views")>>
Edited == <<File(1, "wide bars"), File(3, "views")>>
SomeReleases == {First, Later, Fork, Both, Edited}
=============================================================================
