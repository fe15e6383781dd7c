----------------------------- MODULE MCSession ------------------------------
(* Command lines and files for TLC. *)
EXTENDS Session

MCTexts == UNION {[1..n -> {NL, 49, 97}] : n \in 0..3} \cup
           {<<97, NL, 49, NL>>, <<97, 97, NL, 49>>, <<97, 49, 97, 49>>, <<97, SPACE, 49, NL>>, <<49, NL, NL, 97>>}

MCStarts == [text : MCTexts, f : {{"r", "w"}}, g : {{"r", "w"}}] \cup
            [text : {<<97>>}, f : {{"r"}, {"w"}}, g : {{"r"}, {"r", "w"}}]

MCOrder   == <<"x", "g", "d", "f", "d/e", "d/.h">>
MCTree    == [f |-> 1, g |-> 2, x |-> 0] @@ ("d" :> 3) @@ ("d/e" :> 4) @@ ("d/.h" :> 5)
MCWithin  == [y \in DOMAIN MCTree |-> IF y \in {"d/e", "d/.h"} THEN "d" ELSE "."]
MCDevices == [y \in DOMAIN MCTree |-> IF y = "x" THEN 2 ELSE 1]

MCChars == ("1" :> <<49>>) @@ ("2" :> <<50>>) @@ ("400" :> <<52, 48, 48>>) @@ ("280" :> <<50, 56, 48>>) @@
           ("10000" :> <<49, 48, 48, 48, 48>>)

MCLines == {
  <<>>, <<"exit">>, <<"cd">>, <<"echo", "f", "|", "filter">>, <<"|", "filter">>, <<"none", ">">>, <<"none", "<", "x">>,
  <<"cat", "f", "x", "g", "|", "filter">>, <<"cat", "f", ">", "g", "|", "filter">>, <<"cat", "f", "|", "grep", "a">>,
  <<"filter", "<", "f", ">>", "g">>, <<"cat", "f", "|", "filter", "|", "filter">>,
  <<"head", "-n", "1", "f", "|", "filter">>, <<"head", "-n", "2", "f", ">", "x">>, <<"head", "-n">>,
  <<"tail", "-n", "2", "f">>, <<"tail", "f", ">", "x">>, <<"tail", "-n", "f">>,
  <<"sort", "-n", "f">>, <<"sort", "f", "-r", "|", "filter">>, <<"wc", "f">>, <<"grep", "a", "f", "|", "wc">>,
  <<"cp", "f", "g">>, <<"cp", "f", "x", "|", "rm", "-r", "g">>, <<"mv", "f", "g">>, <<"mv", "f", "x", "|", "wc", "f">>,
  <<"mv", "x", "f">>, <<"rm", "x">>, <<"none">>, <<">", "x">>, <<"filter">>, <<"wc", "f", ">", "x">>,
  <<"cat", "f", "f", "|", "filter", ">", "x">>,
  <<"ls">>, <<"ls", "-l", ">", "x">>, <<"ls", "-l", "|", "rm", "g">>, <<"ls", "d", "|", "filter">>, <<"ls", "f">>,
  <<"rm", "-r", "d", "|", "touch", "d/e">>, <<"rm", "d">>, <<"rm", "-r", "x">>, <<"rm", "-r">>,
  <<"touch", "x">>, <<"touch", "g", "|", "rm", "g">>, <<"touch">>, <<"cat", "f", "|", "chmod", "400", "x", "f">>,
  <<"chmod", "280", "f">>, <<"chmod", "10000", "f">>, <<"chmod", "400">>}
=============================================================================
