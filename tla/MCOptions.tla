----------------------------- MODULE MCOptions -----------------------------
(* A small instance of Options: a word of 64, a kilo of 4, and three CPUs, *)
(* the last of which has an id that counts as long.                        *)
EXTENDS Options

SmallDurations == {-500, 0, 500, 2500}
SmallSizes == {0, 1, 16}
SmallLoads == {0, 100, 150}

\* Two names of which one begins with the other, and one on its own.
SmallNames == {<<"a">>, <<"a", "b">>, <<"c">>}
SmallEnv == <<[name |-> <<"a", "b">>, value |-> "os"]>>

\* Valid, invalid and duplicate indices, and the choice of one.
SmallLists == {<<-1>>, <<0>>, <<1, 1>>, <<0, 7>>, <<7>>, <<2, -1>>, <<1, NoNumber>>}
=============================================================================
