--------------------------- MODULE MCSignalConsumer ---------------------------
(***************************************************************************)
(* Instances of SignalConsumer for TLC: two signals, of one component or  *)
(* of two components of the same type.                                     *)
(***************************************************************************)
EXTENDS SignalConsumer

CONSTANTS s1, s2, a, b, db

MCComponent == (s1 :> a) @@ (s2 :> b)
MCSameComponent == (s1 :> a) @@ (s2 :> a)
MCTypeOf == (a :> db) @@ (b :> db)
MCContents == {db}
MCSignals == {s1, s2}
MCNone == {}

\* With two signals of one component, neither the signals nor the processes are told apart.
MCSymmetry == Permutations(Workers) \union Permutations(Signals)
==============================================================================
