--------------------------- MODULE MCFileTransfer ---------------------------
(* Instances of FileTransfer for TLC. *)
EXTENDS FileTransfer, TLC

CONSTANTS a, b, c, f, g, x, y, t, u

(* f has two chunks; g has one of them. *)
TwoFiles == {f, g}
TwoMetas == f :> <<x, y>> @@ g :> <<y>>

ASharesAll == a :> {f, g} @@ b :> {}

(* b downloads f and g from a, which indexes them. *)
BothAtB == t :> b @@ u :> b
FAndG == t :> f @@ u :> g
FromA == t :> (0 :> a @@ 1 :> a @@ 2 :> a) @@ u :> (0 :> a @@ 1 :> a)

(* b downloads f from a. *)
OneAtB == t :> b
JustF == t :> f
OneFromA == t :> (0 :> a @@ 1 :> a @@ 2 :> a)

(* b downloads g, from a that has it and from c that does not. *)
ASharesOne == a :> {g} @@ b :> {} @@ c :> {}
BothG == t :> g @@ u :> g
FromAAndC == t :> (0 :> a @@ 1 :> a) @@ u :> (0 :> c @@ 1 :> c)
=============================================================================
