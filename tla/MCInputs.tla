------------------------------ MODULE MCInputs ------------------------------
(* CRC: the polynomial of the code, and damage as wide as the register.     *)
(* DHCP: lists of up to two loose options in front of an offer or ACK that  *)
(* is whole or lacks or has in place of one option something else; all of   *)
(* them cut short.  URL and HTTP: every text over their tokens.             *)
EXTENDS Inputs

MCPoly == {5, 8, 9, 15, 19, 20, 21, 23, 24, 26, 27, 29, 30, 31}
MCBytes == {{}, {0}, 0..7}

S == <<10, 0, 0, 1>>
Other == <<10, 0, 0, 2>>
Yours == <<10, 0, 0, 9>>

Opt(o, v) == <<o, Len(v)>> \o v
Loose == {<<0>>, <<255>>, <<53, 1, 0>>, <<53, 1, 2>>, <<53, 1, 5>>, <<53, 2, 5, 5>>, <<53>>, <<12, 255>>,
          Opt(54, S), Opt(54, Other), Opt(54, <<1>>), Opt(1, S), Opt(1, <<>>),
          Opt(3, S \o Other), Opt(3, <<>>), Opt(6, <<1, 2, 3, 4, 5>>), Opt(12, <<255>>)}
Lead == {<<>>} \cup Loose \cup {a \o b : a, b \in Loose}

Reply(t) == <<Opt(53, <<t>>), Opt(54, S), Opt(1, Other), Opt(3, S \o Other), Opt(6, S), <<255>>>>
Joined(r) == r[1] \o r[2] \o r[3] \o r[4] \o r[5] \o r[6]
Bodies == {Joined(Reply(t)) : t \in {2, 5}}
          \cup {Joined([Reply(t) EXCEPT ![k] = v]) : t \in {2, 5}, k \in 1..6, v \in {<<>>, <<0>>, Opt(54, Other)}}

MCMessages ==
    [ours : {TRUE}, yiaddr : {Yours},
     options : {l \o b : l \in Lead, b \in Bodies} \cup UNION {{SubSeq(b, 1, k) : k \in 0..Len(b)} : b \in Bodies}]
    \cup [ours : BOOLEAN, yiaddr : {Yours, Other, <<0, 0, 0, 0>>, <<224, 0, 0, 1>>}, options : Bodies]
MCStatics == [offered : {Yours, Other}, server : {S, Other}]

MCTokens == {"CR", "LF", "NUL", "S", "L", "T", " ", "0", "1"}
=============================================================================
