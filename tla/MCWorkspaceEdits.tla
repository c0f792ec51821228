-------------------------- MODULE MCWorkspaceEdits --------------------------
(***************************************************************************)
(* Three files: a defines the methods m1, which b calls, and m2, which c   *)
(* calls.  x, y and z are versions of a: y changes m1, z changes m2, so    *)
(* that two steps from x are fast ones and the step from y to z is not.    *)
(* b has a version with another class and one that does not parse, c may   *)
(* not exist yet.                                                          *)
(***************************************************************************)
EXTENDS WorkspaceEdits, TLC

CONSTANTS a, b, c

MCFiles == {a, b, c}
MCVersions == {"x", "y", "z", "b0", "b1", "b2", "c0"}
MCHierarchy == [v \in MCVersions |-> IF v \in {"b1", "b2"} THEN v ELSE "same"]
MCInvalid == {"b2"}
MCSymbols == [v \in MCVersions |->
    CASE v = "x" -> {<<"m1", 1>>, <<"m2", 1>>}
      [] v = "y" -> {<<"m1", 2>>, <<"m2", 1>>}
      [] v = "z" -> {<<"m1", 1>>, <<"m2", 2>>}
      [] OTHER -> {}]
MCUses == [v \in MCVersions |->
    CASE v \in {"b0", "b1"} -> {"m1"} [] v = "c0" -> {"m2"} [] OTHER -> {}]

Table(va, vb, vc) == (a :> va) @@ (b :> vb) @@ (c :> vc)
MCTables == {Table("x", "b0", "c0"), Table("x", "b0", None)}
MCEdits ==
    {Table(v, None, None) : v \in {"x", "y", "z"}} \cup {Table(None, v, None) : v \in {"b0", "b1", "b2"}}
    \cup {Table(None, None, "c0"), Table("y", "b1", "c0")}
=============================================================================
