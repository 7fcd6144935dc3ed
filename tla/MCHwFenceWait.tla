---------------------------- MODULE MCHwFenceWait ----------------------------
(* HwFenceWait for TLC: which array has which fences, and who owns them.    *)
EXTENDS HwFenceWait, TLC

CONSTANTS f1, f2, a0, a1, a2, a3, c1, c2

\* Two arrays with a fence in common, and one without fences.
SharedChildren == (a0 :> <<>>) @@ (a1 :> <<f1, f2>>) @@ (a2 :> <<f2>>)

\* Three arrays want the same fence, which has room for two parents; one of
\* them has another child to undo.
FullChildren ==
  (a1 :> <<f1>>) @@ (a2 :> <<f1>>) @@ (a3 :> <<f2, f1>>)

\* An array with a fence that is not a hw-fence, after one that is.
HoleChildren == (a1 :> <<f1, NotHw>>) @@ (a2 :> <<f1>>) @@ (a3 :> <<f1>>)

OneChild == a1 :> <<f1>>
NoChildren == <<>>

TwoOwners == (f1 :> c1) @@ (f2 :> c2)
AllOwner == (f1 :> c1) @@ (f2 :> c1)
OneOwner == f1 :> c1

FullWaiters == {<<c1, a1>>, <<c1, a2>>, <<c1, a3>>, <<c2, f1>>}
LiveWaiters == {<<c1, a0>>, <<c1, a1>>, <<c1, a2>>, <<c1, f1>>}
ResetWaiters == {<<c1, f2>>, <<c2, f1>>, <<c2, a1>>}
AllWaiters == Clients \X (Fences \union Arrays)

MCSymmetry == Permutations(Threads) \union Permutations(Slots)
=============================================================================
