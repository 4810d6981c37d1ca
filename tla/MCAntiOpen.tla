----------------------------- MODULE MCAntiOpen -----------------------------
(* Small instances of AntiOpen.                                            *)
EXTENDS AntiOpen

(* Lines with an empty name: three of the lengths 3 and 5 never fill a     *)
(* page of 7; with those of 4 and of 1, an empty line, they do.            *)
Entry(p) == <<",">> \o p \o <<NL>>
MCLine == {Entry(<<"b">>), Entry(<<"b", " ", "b">>), Entry(<<"a", " ", "b">>)}
MCBlank == MCLine \cup {<<NL>>}
MCLong == MCLine \cup {<<"v">> \o Entry(<<"b">>)}
MCFlags == {{}, {"creat"}, {"creat", "excl"}, {"trunc"}, {"write"}}
MCPlain == {{}}
=============================================================================
