---------------------------- MODULE MCImageCheck ----------------------------
EXTENDS ImageCheck

Lengths == [sha256 |-> 1, sha384 |-> 2, sha512 |-> 2]

\* The longest text there is, and neighbours at each end.
Images == {<<3, 1, 1, 31>>, <<1, 1, 1, 0>>, <<1, 1, 1, 2>>, <<0, 2, 1, 2>>}
Devices == {Text("", <<1, c, 1, b>>) : c \in {1, 2}, b \in {0, 2, 32}}
             \cup {Text("V", <<1, 1, 1, 2>>), Text("bad", <<1, 1, 1, 2>>)}
=============================================================================
