-------------------------- MODULE MultipartReaderMC --------------------------
(* Bodies put together from the pieces a client may send, right and wrong. *)
EXTENDS MultipartReader

MCBoundary == <<"B">>
Texts(n) == UNION {[1..k -> {"x", "CR", "LF", "D", "B"}] : k \in 0..n}
Eols == {<<"LF">>, <<"CR", "LF">>}
Part(name, eol, text) == eol \o name \o eol \o eol \o text

(* One file part, its text anything short, ended or cut off. *)
OnePart == {Marker \o Part(<<"f">>, eol, t) \o end :
              eol \in Eols, t \in Texts(3), end \in {Delimiter, <<"CR">> \o Delimiter, <<>>}}
(* A preamble, other fields first, header blocks around the cap. *)
Others == {pre \o Marker \o Part(n, <<"LF">>, t) \o Delimiter \o tail :
              pre \in {<<>>, <<"x">>, <<"D">>, <<"LF", "D">>},
              n \in {<<"x">>, <<"x", "f">>, <<"x", "x", "x", "f">>,
                     <<"x", "x", "x", "x", "f">>, <<"x", "x", "x", "x", "x", "x", "x", "x">>},
              t \in Texts(1),
              tail \in {<<"D", "D">>, <<"D">>, <<"x">>, <<"CR", "x">>,
                        Part(<<"f">>, <<"CR", "LF">>, <<"x">>) \o Delimiter}}
(* Texts longer than a delimiter, one of them full of beginnings of one. *)
Long == {Marker \o Part(n, <<"LF">>, t) \o end :
            n \in {<<"x">>, <<"f">>},
            t \in {[k \in 1..7 |-> "x"], <<"CR", "LF", "D", "LF", "D", "D", "LF", "D", "D">>},
            end \in {<<>>, Delimiter \o Part(<<"f">>, <<"LF">>, <<"x">>) \o Delimiter}}
MCBodies == OnePart \cup Others \cup Long
=============================================================================
