----------------------------- MODULE MCRelease -----------------------------
(* Pushes for the runs of Release: what the commits of a push declare. *)
EXTENDS Release

\* A bump; a revert and a second bump in one push; a bump and its revert in one
\* push; a commit whose version.go has no canonical declaration.
ConflictPushes == {<<2>>, <<1, 2>>, <<2, 1>>, <<0>>}

\* One bump.
BumpPush == {<<2>>}

\* Bumps and reverts among three versions.
OutOfOrderPushes == {<<3>>, <<1>>, <<2>>}
=============================================================================
