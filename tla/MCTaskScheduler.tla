--------------------------- MODULE MCTaskScheduler --------------------------
(* Two workers, four names, and the shapes of task graph that differ: a     *)
(* chain, a diamond, a join of a long and a short branch, a dependency      *)
(* nobody added, and a dependency written twice.                           *)
EXTENDS TaskScheduler

CONSTANTS ta, tb, tc, td

MCId == {ta, tb, tc, td}

Decl(t, ds) == [id |-> t, deps |-> ds]

MCPrograms == {
  <<Decl(ta, <<>>), Decl(tb, <<ta>>), Decl(tc, <<tb>>)>>,
  <<Decl(ta, <<>>), Decl(tb, <<ta>>), Decl(tc, <<ta>>), Decl(td, <<tb, tc>>)>>,
  <<Decl(ta, <<>>), Decl(tb, <<ta>>), Decl(tc, <<>>), Decl(td, <<tb, tc>>)>>,
  <<Decl(ta, <<>>), Decl(tb, <<ta, td>>), Decl(tc, <<ta, ta>>)>> }
=============================================================================
