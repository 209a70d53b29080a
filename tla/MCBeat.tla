-------------------------------- MODULE MCBeat --------------------------------
(* Values for the constants of module Beat in the configurations.            *)
EXTENDS Beat

CONSTANTS j1, b1, b2, s1, s2

NoneShared == {}
OneShared  == {<<s1, b1>>}

Soon      == {0, -1}
AnyAnswer == {0, -1, None}
=============================================================================
