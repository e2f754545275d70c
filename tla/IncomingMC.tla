------------------------------ MODULE IncomingMC ------------------------------
(***************************************************************************)
(* Uploads of two versions of a source package, foo 1.0-1 and 1.0-2, of a  *)
(* binary package of the first, whole or cut off, and of the native source *)
(* package bar 1 in two builds whose files have the same names and differ. *)
(***************************************************************************)
EXTENDS IncomingProps, TLC

CONSTANTS dsc1, diff1, orig, deb1, dsc2, diff2, dsc3, tar3,
          good, other, torn, foo1, foo2, bar, upFoo, upBar,
          src1, src2, bin, cut, rebuilt, native, broken, unsigned, p1, p2

MCKind == (dsc1 :> "dsc" @@ diff1 :> "diff" @@ orig :> "orig" @@ deb1 :> "deb"
           @@ dsc2 :> "dsc" @@ diff2 :> "diff" @@ dsc3 :> "dsc" @@ tar3 :> "tar")
MCBelongs == (dsc1 :> foo1 @@ diff1 :> foo1 @@ orig :> foo1 @@ deb1 :> foo1
              @@ dsc2 :> foo2 @@ diff2 :> foo2 @@ dsc3 :> bar @@ tar3 :> bar)

\* foo 1.0-1 and 1.0-2 share the header "foo_1.0-"; bar 1 is native.
MCUpstream == (foo1 :> upFoo @@ foo2 :> upFoo @@ bar :> upBar)
MCKeyPrefix == {<<foo1, foo1>>, <<foo1, foo2>>, <<foo2, foo1>>, <<foo2, foo2>>}

\* foo1 is foo 1.0-1-1, of upstream version 1.0-1, and foo2 is foo 1.0-2.
HyphenUpstream == (foo1 :> upBar @@ foo2 :> upFoo @@ bar :> upBar)
HyphenKeyPrefix == {<<foo1, foo1>>, <<foo2, foo1>>, <<foo2, foo2>>}

AllSource == (src1 :> foo1 @@ src2 :> foo2 @@ bin :> foo1 @@ cut :> foo1 @@ rebuilt :> bar
              @@ native :> bar @@ broken :> bar @@ unsigned :> bar)
AllListed == (src1 :> {dsc1, diff1, orig} @@ src2 :> {dsc2, diff2}
              @@ bin :> {deb1} @@ cut :> {deb1} @@ rebuilt :> {dsc3, tar3} @@ native :> {dsc3, tar3}
              @@ broken :> {} @@ unsigned :> {})
MCSource == [u \in Uploads |-> AllSource[u]]
MCListed == [u \in Uploads |-> AllListed[u]]
MCHash == [u \in Uploads |-> [f \in Files |-> IF u \in {cut, rebuilt} THEN other ELSE good]]

=============================================================================
