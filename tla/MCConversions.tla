---------------------------- MODULE MCConversions ----------------------------
(***************************************************************************)
(* Conversions for TLC: small integer ranges, so that numbers at and above *)
(* every limit are among the inputs.                                       *)
(***************************************************************************)
EXTENDS Conversions

\* A letter, a quote, a backslash, line ends, a control character, a DEL, and
\* characters of two, three and four bytes of UTF-8.
MCChunks == {<<97>>, <<34>>, <<92>>, <<13>>, <<10>>, <<31>>, <<127>>, <<195, 169>>,
             <<237, 159, 191>>, <<240, 144, 128, 128>>}

\* The largest and smallest int, and decimals that a float holds exactly, with
\* and without a point and an exponent.
MCNumbers == {-500, -1, 0, 499}
MCDecimals == {<<0, 0>>, <<205, -1>>, <<-3, 0>>, <<2, 2>>, <<5, -1>>, <<-125, -3>>, <<125, 4>>,
               <<1, 10>>}

MCCommandTypes ==
    {<<"18", <<"TELLDUSDEVICE_SET_STATE">>>>, <<"1.8e1", <<"TELLDUSDEVICE_SET_STATE">>>>,
     <<"16", <<>>>>, <<"\"18\"", <<>>>>, <<"null", <<>>>>}

Light(members) == "{\"$type\": \"Messanger.LightMessage, Messanger\", " \o members \o "}"
MCValues ==
    {<<Light("\"ID\": 3, \"LightState\": 1"), <<3, TRUE>>>>,
     <<Light("\"LightState\":0,\"ID\":499"), <<499, FALSE>>>>,
     <<Light("\"ID\": 3, \"LightState\": true, \"ID\": 4"), <<3, TRUE>>>>,
     <<Light("\"ID\": \"3\", \"LightState\": 1"), <<>>>>,
     <<Light("\"ID\": 3"), <<>>>>,
     <<"{\"$type\": \"Messanger.Msg, Messanger\", \"ID\": 3, \"LightState\": 1}", <<>>>>,
     <<"{\"CommandType\": 18, \"Value\": " \o Light("\"ID\": 3, \"LightState\": 1") \o "}", <<>>>>,
     <<"[18]", <<>>>>}
MCOthers == {<<"-42.94E+1", <<>>>>, <<"[0, {}, [false]]", <<>>>>}

MCFields ==
    [sensor |->
        {<<"protocol", "mandolyn", "mandolyn">>, <<"protocol", "arctech", "arctech">>,
         <<"model", "temperaturehumidity", "temperaturehumidity">>,
         <<"model", "temperature", "temperature">>, <<"id", "11", 11>>,
         <<"temp", "20.5", <<205, -1>>>>, <<"temp", "-3", <<-3, 0>>>>, <<"humidity", "45", 45>>},
     command |->
        {<<"protocol", "mandolyn", "mandolyn">>, <<"protocol", "arctech", "arctech">>,
         <<"model", "selflearning", "selflearning">>, <<"house", "499", 499>>,
         <<"house", "500", 0>>, <<"unit", "1", 1>>, <<"group", "0", 0>>,
         <<"method", "turnon", "turnon">>, <<"method", "turnoff", "turnoff">>}]

\* The smallest and largest numbers of 1 byte, 1, 2, 4 and 8 bytes in both
\* formats, with a sign and without.
Wide(bytes) == Fill(8 - Len(bytes), 0) \o bytes
Limits == {<<0>>, <<23>>, <<24>>, <<31>>, <<32>>, <<127>>, <<128>>, <<255>>, <<1, 0>>, <<127, 255>>,
           <<128, 0>>, <<255, 255>>, <<1, 0, 0>>, <<127>> \o Fill(3, 255), <<128, 0, 0, 0>>,
           Fill(4, 255), <<1, 0, 0, 0, 0>>, <<127>> \o Fill(7, 255)}
MCBinaries ==
    {<<"number_unsigned", Wide(n)>> : n \in Limits \union {<<128>> \o Fill(7, 0), Fill(8, 255)}}
    \union {<<"number_integer", Wide(n)>> : n \in {<<0>>, <<128>>, <<127>> \o Fill(7, 255)}}
    \union {<<"number_integer", Complement(Wide(n))>> : n \in Limits}
    \union {<<"string", Fill(n, 97)>> : n \in {0, 23, 24, 31, 32, 255, 256}}
    \union {<<"number_float", <<63, 248>> \o Fill(6, 0)>>, <<"string", <<195, 169, 255>>>>,
            <<"boolean", TRUE>>, <<"boolean", FALSE>>, Null}

\* RFC 7049, Appendix A, and the zeros, subnormal numbers and NaN.
MCShortFloats ==
    {<<<<0, 0>>, Fill(8, 0)>>, <<<<128, 0>>, <<128>> \o Fill(7, 0)>>,
     <<<<60, 0>>, <<63, 240>> \o Fill(6, 0)>>, <<<<62, 0>>, <<63, 248>> \o Fill(6, 0)>>,
     <<<<123, 255>>, <<64, 239, 252>> \o Fill(5, 0)>>, <<<<0, 1>>, <<62, 112>> \o Fill(6, 0)>>,
     <<<<4, 0>>, <<63, 16>> \o Fill(6, 0)>>, <<<<196, 0>>, <<192, 16>> \o Fill(6, 0)>>,
     <<<<124, 0>>, <<127, 240>> \o Fill(6, 0)>>, <<<<126, 0>>, <<127, 248>> \o Fill(6, 0)>>,
     <<<<252, 0>>, <<255, 240>> \o Fill(6, 0)>>, <<<<71, 195, 80, 0>>, <<64, 248, 106>> \o Fill(5, 0)>>,
     <<<<127, 127, 255, 255>>, <<71, 239, 255, 255, 224, 0, 0, 0>>>>,
     <<<<0, 0, 0, 1>>, <<54, 160>> \o Fill(6, 0)>>, <<<<255, 128, 0, 0>>, <<255, 240>> \o Fill(6, 0)>>,
     <<<<127, 192, 0, 0>>, <<127, 248>> \o Fill(6, 0)>>}

\* Arrays that share elements at other places, and objects whose keys must be
\* escaped, look like indices or are empty, with null, empty and equal numbers.
One == <<"float", <<1, 0>>>>
Str(s) == <<"string", Bytes(s)>>
List(items) == <<"array", items>>
Named(members) == <<"object", [key \in {Bytes(m[1]) : m \in members} |->
                                (CHOOSE m \in members : Bytes(m[1]) = key)[2]]>>
Flats == {List(items) : items \in UNION {[1 .. n -> {Number(1), One, Null}] : n \in 0 .. 2}}
         \union {Named({<<key, value>> : key \in keys}) : value \in {Number(1), Str("1")},
                    keys \in (SUBSET {"~1", "/", "a"}) \union {{"0"}, {"-", "0"}, {""}}}
MCDocuments ==
    Flats \union {Number(1), Number(2), One, Str("a"), Null, <<"boolean", TRUE>>}
    \union {List(<<Number(1), Number(2), Number(3), Number(4)>>), List(<<Number(4), List(<<>>), Null>>),
            List(<<Named({<<"a", Number(1)>>}), List(<<Null, Number(2)>>), Named({<<"a", One>>})>>),
            List(<<List(<<Number(2), Null, Number(1), Null>>), Named({<<"~1", Null>>})>>),
            List([i \in 1 .. 11 |-> Number(i)]), List([i \in 1 .. 12 |-> List(<<Number(i % 3)>>)]),
            Named({<<"a", List(<<Number(1), Number(2)>>)>>, <<"b", Named({<<"0", Null>>})>>}),
            Named({<<"a", Named({<<"/", Named({<<"~", Number(1)>>})>>, <<"~0", Str("/")>>})>>}),
            Named({<<"a", List(<<>>)>>, <<"~01", Number(2)>>, <<"1", Number(3)>>}),
            Named({<<"a", List(<<Null, Named({<<"a", List(<<Number(1)>>)>>})>>)>>})}

=============================================================================
