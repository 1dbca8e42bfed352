--------------------------- MODULE MCJobVariables ---------------------------
(* Three variables: A and B are referred to, C refers.  A value is plain,  *)
(* short or long, refers to one variable or two, ends in a $ or a space,   *)
(* or has a line that looks like a variable.                               *)
EXTENDS JobVariables

MCNames == {"A", "B", "C"}
Ref(n) == <<"$", "{", n, "}">>
Short == <<"x">>
Long == <<"x", "=", "x", "x">>
MCGivens ==
    {[A |-> a, B |-> b, C |-> c] :
        a \in {Short, Long, Ref("B"), Long \o Ref("A"), <<"x", "$">>},
        b \in {<<>>, Short, Long, Ref("A"), <<"x", Space>>, <<"x", NewLine, "A", "=", "x">>},
        c \in {Ref("A") \o Ref("B"), <<"$", "{", "x">> \o Ref("A") \o Ref("A"), Ref("B"),
               Ref("A") \o Ref("A")}}
MCSystems ==
    {[A |-> <<>>, B |-> b, C |-> <<>>] : b \in {<<>>, Long, <<"x", "$">>}}
    \union {[A |-> Short, B |-> Long, C |-> <<>>]}
=============================================================================
