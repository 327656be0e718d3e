------------------------------ MODULE MCParser ------------------------------
(* Lines for Parser, built from a verb word, middle parameters and an     *)
(* optional trailing parameter, each verb with parameters that reach its  *)
(* rules: arity bounds, the JOIN "0" sentinel and key pairing, channel   *)
(* and user MODE targets with flag tokens (one holding U+00E9; a sign   *)
(* inside a token is the subject of the decoder's own run), the          *)
(* USER mode numeral at 255 and 257, the WHO "o" flag, and a trailing   *)
(* parameter holding a space or a colon.                                  *)
EXTENDS Parser

Verbs == {"PING", "PONG", "PASS", "NICK", "USER", "QUIT", "JOIN", "PART",
          "PRIVMSG", "TOPIC", "MODE", "WHOIS", "WHO", "FROB", "nick", "join"}
Chars == {"#", "a", "b", "k", "m", "n", ",", "0", "o", "+", "-", "i", "2",
          "5", "7", " ", ":", LeadByte, ContByte}

MCUpperOf == [c \in Verbs \cup Chars |->
                CASE c = "nick" -> "NICK" [] c = "join" -> "JOIN" [] OTHER -> c]
MCChannelPrefixes == {"#"}

\* Middle parameters per verb, and how many of them.
Middles(v) ==
    CASE v \in {"JOIN", "join"} -> {<<"0">>, <<"#", "a">>, <<"#", "a", ",", "#", "b">>,
                                    <<"#", "a", ",", "#", "a">>, <<"k">>, <<"k", ",", "k">>}
      [] v = "MODE"  -> {<<"n">>, <<"#", "a">>, <<"+", "i">>, <<"-", "o">>, <<"i">>,
                         <<"-", "i", "o">>, <<"+", LeadByte, ContByte>>}
      [] v = "USER"  -> {<<"a">>, <<"2", "5", "5">>, <<"2", "5", "7">>}
      [] v = "WHOIS" -> {<<"a">>, <<"m", ",", "n">>}
      [] v = "WHO"   -> {<<"a">>, <<"o">>}
      [] OTHER       -> {<<"a">>, <<"#", "a">>}
MaxMiddles(v) == CASE v = "USER" -> 5 [] v = "MODE" -> 3 [] OTHER -> 2

\* Trailing parameters: absent, or text with a space, with a colon.
NoTrail == <<"none">>
Trailings == {NoTrail, <<"a", " ", "b">>, <<":", "a">>}

Render(v, mids, trail) ==
    [text |-> <<v>> \o FlattenSeq([i \in DOMAIN mids |-> <<" ">> \o mids[i]])
                    \o (IF trail = NoTrail THEN <<>> ELSE <<" ", ":">> \o trail),
     verb |-> <<v>>,
     args |-> mids \o (IF trail = NoTrail THEN <<>> ELSE <<trail>>)]

\* JOIN with more keys than channels is the subject of its own run.
ExtraKeys(l) ==
    /\ ToUpper(l.verb) = <<"JOIN">>
    /\ Len(l.args) >= 2 /\ l.args[1] # <<"0">>
    /\ Len(Split(l.args[2])) > Len(Split(l.args[1]))

Lines ==
    UNION {{Render(v, mids, t) : mids \in BoundedSeq(Middles(v), MaxMiddles(v)),
                                 t \in Trailings} : v \in Verbs}

GoodLines == {l \in Lines : ~ExtraKeys(l)}
ExtraKeyLines == {l \in Lines : ExtraKeys(l)}

\* A trailing parameter that is empty: "PRIVMSG #a :".
EmptyTrailLines == {Render(v, <<<<"#", "a">>>>, <<>>) : v \in {"PRIVMSG", "TOPIC"}}

\* Lines without a verb: empty, a single space, a lone colon, and a line
\* that starts with a space.
BlankLines ==
    {[text |-> t, verb |-> <<>>, args |-> <<>>] :
        t \in {<<>>, <<" ">>, <<":">>, <<" ", "NICK", " ", "a">>}}
=============================================================================
