----------------------------- MODULE MCExchanges -----------------------------
(* Replies have every three or four bytes in place of the question's name,   *)
(* or two or three in place of the first owner's, in front of a record of    *)
(* the asked name; or they are cut short, or their headers are not to be     *)
(* accepted.  Bytes of the line have two bits.                               *)
EXTENDS Exchanges

Alphabet == {0, 1, 2, 4, 12, 65, 97, 192}
Several(k) == [1..k -> Alphabet]

A == 97
MCHosts == {<<A>>, <<A, 46, A>>}

Top(flags, answers) == <<0, 7, flags, 128, 0, 1>> \o answers \o <<0, 0, 0, 0>>
Good == Top(129, <<0, 2>>)
Fixed(type, len) == <<0, type, 0, 1, 0, 0, 0, 9, 0, len>>
Owned == <<192, 12>> \o Fixed(1, 4) \o <<10, 0, 0, 1>>
Alias == <<192, 12>> \o Fixed(5, 2) \o <<192, 12>>
Name(k) == IF k = 1 THEN <<1, A, 0>> ELSE <<1, A, 1, A, 0>>

Whole == {Top(f, <<c, 2>>) \o Name(k) \o <<0, y, 0, 1>> \o r \o Owned :
            f \in {1, 128, 131, 132}, c \in {0, 255}, k \in 1..2, y \in 1..2,
            r \in {<<>>, Alias, <<192, 12>> \o Fixed(1, 9), <<0>> \o Fixed(1, 4) \o <<9, 9, 9, 9>>}}

MCPackets ==
    {Good \o f \o <<0, 1, 0, 1>> \o Owned : f \in Several(3) \cup Several(4)}
    \cup {Good \o Name(k) \o <<0, 1, 0, 1>> \o f \o Fixed(1, 4) \o <<8, 8, 8, 8>> \o Owned :
            k \in 1..2, f \in Several(2) \cup Several(3)}
    \cup UNION {{SubSeq(w, 1, l) : l \in 0..Len(w)} :
                  w \in {Good \o Name(k) \o <<0, 1, 0, 1>> \o r \o Owned : k \in 1..2, r \in {Alias, Owned}} \cup Whole}

MCXor(a, b) == ((a + b) % 2) + 2 * ((a \div 2 + b \div 2) % 2)
=============================================================================
