----------------------------- MODULE MCToolRun -----------------------------
(***************************************************************************)
(* Command lines of up to two phrases of a large set, and of three of a    *)
(* smaller one in which arguments and options can be taken for each other. *)
(***************************************************************************)
EXTENDS ToolRun

Opt(o) == <<Option(o)>>
With(o, values) == <<Option(o)>> \o [i \in DOMAIN values |-> Number(values[i])]

Tricky ==
    {Opt("p"), With("p", <<1, 0>>), Opt("p") \o <<Word>> \o <<Number(1)>>,
     With("s", <<1, 3>>), Opt("s"), Opt("c"), Opt("S"), With("f", <<5>>),
     Opt("d"), With("i", <<1>>), Opt("i")}

Phrases ==
    Tricky \cup
    {With("p", <<1>>), With("p", <<257, 1>>), With("p", <<2, 256>>), <<Attached("p", 1)>>,
     With("s", <<3, 2>>), With("s", <<1, 2>>), With("s", <<2, 7>>), With("s", <<2>>),
     With("e", <<1, 2, 100>>), With("e", <<2, 1>>), With("e", <<1, 2, 9, 300>>),
     With("e", <<1, 2, 9, 101>>), With("e", <<1, 2>>), With("e", <<3, 3>>), Opt("e"),
     With("w", <<1, 0, 1>>), With("w", <<3, 0, 0>>), With("w", <<1, 0>>), Opt("w"),
     With("r", <<1>>), With("r", <<0>>), <<Attached("r", 2)>>, Opt("r"),
     With("f", <<70000>>), Opt("f"), Opt("f") \o <<Word>>,
     Opt("u"), Opt("t"), Opt("T"), Opt("G"), Opt("l"), Opt("h"), <<Number(7)>>,
     With("i", <<0>>), <<Attached("d", 0)>>, With("g", <<3>>), Opt("n") \o <<Word>>,
     Opt("j"), <<Attached("t", 1)>>}

MCCommandLines ==
    {<<>>} \cup Phrases
        \cup {a \o b : a \in Phrases, b \in Phrases}
        \cup {a \o b \o c : a \in Tricky, b \in Tricky, c \in Tricky}

=============================================================================
