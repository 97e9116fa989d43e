-------------------------- MODULE MCBlockingLists --------------------------
(* Instances of BlockingLists for TLC: the third connection has the          *)
(* descriptor of the first.                                                  *)
EXTENDS BlockingLists, TLC

MCFdOf == ("c1" :> 1) @@ ("c2" :> 2) @@ ("c3" :> 1) @@ ("p" :> 3)
MCFdOfTwo == ("c1" :> 1) @@ ("c2" :> 2) @@ ("p" :> 3)
MCKeyOrder == <<"x", "y">>
MCKeyArgs == {<<"y">>, <<"x", "x">>, <<"x", "y">>}

MCKeyOrderOne == <<"x">>
MCKeyArgsOne == {<<"x", "x">>}

=============================================================================
