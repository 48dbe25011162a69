----------------------------- MODULE DhcpReply -----------------------------
(***************************************************************************)
(* dhcp_parse() of src/dhcp.c on one message: the walk over options whose  *)
(* lengths come from the network.  NetworkConfig has what the client does  *)
(* with the messages; here it is which messages it takes, and what it      *)
(* reads from them.  An address is four bytes behind an option's length;   *)
(* the 240 bytes in front are a flag, for the tests that compare them with *)
(* constants, and yiaddr.                                                  *)
(***************************************************************************)
EXTENDS Integers, Sequences

CONSTANTS
    Messages,  \* what may arrive: [ours, yiaddr, options]
    Statics    \* offered and server, as an earlier offer left them

Octet == 0..255
Address == [1..4 -> Octet]

MessageAssumption ==
    /\ \A m \in Messages : /\ m.ours \in BOOLEAN /\ m.yiaddr \in Address
                           /\ m.options \in Seq(Octet) /\ Len(m.options) <= 360
    /\ Statics \subseteq [offered : Address, server : Address]

VARIABLES
    message, kind,   \* the arguments: the packet; 2 for an offer, 5 for an ACK
    pc,              \* "header", "walk", "taken", "dropped"
    i,               \* dhcp_parse's position, from 240 on
    type, end,
    found,           \* srv, m, g, d: the options seen so far
    touched,         \* history: one past the highest option byte that was read
    statics,         \* offered, server
    config           \* mask, gateway, dns_server: {} or what an ACK has set

given == <<message, kind>>
vars == <<given, pc, i, type, end, found, touched, statics, config>>

options == message.options
n == Len(options)

\* What lies behind the datagram is what earlier ones left.
Byte(k) == IF k < n THEN options[k + 1] ELSE 0
AddressAt(k) == [j \in 1..4 |-> Byte(k + j - 1)]

SERVER == 54
MASK == 1
ROUTER == 3
DNS == 6
TYPE == 53
Wanted == {SERVER, MASK, ROUTER, DNS}

Init ==
    /\ message \in Messages /\ kind \in {2, 5}
    /\ pc = "header" /\ i = 0
    /\ type = 0 /\ end = FALSE
    /\ found = [o \in {} |-> <<>>]
    /\ touched = 0
    /\ statics \in Statics /\ config = {}

Header ==
    /\ pc = "header"
    /\ pc' = IF message.ours THEN "walk" ELSE "dropped"
    /\ UNCHANGED <<given, i, type, end, found, touched, statics, config>>

-----------------------------------------------------------------------------
(* One action for each kind of turn of the loop *)

Walking == pc = "walk" /\ i < n /\ ~end

Touch(size) == touched' = IF size > touched THEN size ELSE touched

Drop == pc' = "dropped" /\ UNCHANGED <<i, type, end, found>>

Pad ==
    /\ Walking /\ Byte(i) = 0
    /\ i' = i + 1
    /\ Touch(i + 1)
    /\ UNCHANGED <<given, pc, type, end, found, statics, config>>

End ==
    /\ Walking /\ Byte(i) = 255
    /\ i' = i + 1 /\ end' = TRUE
    /\ Touch(i + 1)
    /\ UNCHANGED <<given, pc, type, found, statics, config>>

\* Mutant: the option may end one byte behind the datagram.
InsideLoosely == Byte(i + 1) <= n - (i + 1)

\* !(len > n - i)
Inside == Byte(i + 1) <= n - (i + 2)

\* An option without a length byte, or longer than what is left.
Truncated ==
    /\ Walking /\ Byte(i) \notin {0, 255}
    /\ i + 1 >= n \/ ~Inside
    /\ Touch(IF i + 1 < n THEN i + 2 ELSE i + 1)
    /\ Drop
    /\ UNCHANGED <<given, statics, config>>

GoodLength(opt, len) ==
    /\ opt = TYPE => len = 1 /\ type = 0
    /\ opt \in {SERVER, MASK} => len = 4
    /\ opt \in {ROUTER, DNS} => len # 0 /\ len % 4 = 0

With(f, o, v) == [x \in DOMAIN f \cup {o} |-> IF x = o THEN v ELSE f[x]]

Option ==
    /\ Walking /\ Byte(i) \notin {0, 255}
    /\ i + 1 < n /\ Inside
    /\ LET opt == Byte(i)
           len == Byte(i + 1)
           p == i + 2
       IN  /\ Touch(IF opt \in Wanted /\ GoodLength(opt, len) THEN p + 4 ELSE p + len)
           /\ IF ~GoodLength(opt, len)
                THEN Drop
                ELSE /\ i' = p + len
                     /\ type' = IF opt = TYPE THEN Byte(p) ELSE type
                     /\ found' = IF opt \in Wanted THEN With(found, opt, AddressAt(p)) ELSE found
                     /\ UNCHANGED <<pc, end>>
    /\ UNCHANGED <<given, statics, config>>

-----------------------------------------------------------------------------
(* Behind the loop *)

\* !packet[16] || packet[16] >= 224
Usable(a) == a[1] \in 1..223

Complete == end /\ type = kind /\ SERVER \in DOMAIN found /\ Usable(message.yiaddr)

\* flags == 15, and the offer that was asked for.
Confirms ==
    /\ DOMAIN found = Wanted
    /\ statics = [offered |-> message.yiaddr, server |-> found[SERVER]]

Offer ==
    /\ pc = "walk" /\ ~Walking
    /\ kind = 2 /\ Complete
    /\ statics' = [offered |-> message.yiaddr, server |-> found[SERVER]]
    /\ pc' = "taken"
    /\ UNCHANGED <<given, i, type, end, found, touched, config>>

Ack ==
    /\ pc = "walk" /\ ~Walking
    /\ kind = 5 /\ Complete /\ Confirms
    /\ config' = {<<found[MASK], found[ROUTER], found[DNS]>>}
    /\ pc' = "taken"
    /\ UNCHANGED <<given, i, type, end, found, touched, statics>>

\* Mutant: the offered address is stored before the message is judged.
RefuseLate ==
    /\ pc = "walk" /\ ~Walking
    /\ ~(Complete /\ (kind = 5 => Confirms))
    /\ pc' = "dropped" /\ statics' = [statics EXCEPT !.offered = message.yiaddr]
    /\ UNCHANGED <<given, i, type, end, found, touched, config>>

Refuse ==
    /\ pc = "walk" /\ ~Walking
    /\ ~(Complete /\ (kind = 5 => Confirms))
    /\ pc' = "dropped"
    /\ UNCHANGED <<given, i, type, end, found, touched, statics, config>>

Next == Header \/ Pad \/ End \/ Truncated \/ Option \/ Offer \/ Ack \/ Refuse

Spec == Init /\ [][Next]_vars

-----------------------------------------------------------------------------
(* The reference: a message as a list of options, after RFC 2132 *)

\* Every way to cut the bytes from a position on into options up to END: one
\* list of pairs, or none.
Lists(at) ==
    LET list[k \in 0..(n + 256)] ==
          CASE k >= n -> {}
            [] k < n /\ Byte(k) = 255 -> {<<>>}
            [] k < n /\ Byte(k) = 0 -> list[k + 1]
            [] OTHER ->
                 IF k + 1 >= n \/ k + 2 + Byte(k + 1) > n THEN {}
                 ELSE {<<[opt |-> Byte(k), value |-> SubSeq(options, k + 3, k + 2 + Byte(k + 1))]>> \o rest :
                         rest \in list[k + 2 + Byte(k + 1)]}
    IN  list[at]

\* One message type; a server and a mask of four bytes; addresses in fours.
Sound(l) ==
    /\ \A k \in DOMAIN l :
          LET size == Len(l[k].value) IN
          CASE l[k].opt = TYPE -> size = 1 /\ \A j \in 1..(k - 1) : l[j].opt = TYPE => l[j].value = <<0>>
            [] l[k].opt \in {SERVER, MASK} -> size = 4
            [] l[k].opt \in {ROUTER, DNS} -> size > 0 /\ size % 4 = 0
            [] OTHER -> TRUE
    /\ \E k \in DOMAIN l : l[k].opt = TYPE /\ l[k].value = <<kind>>

\* The last of an option's values counts, and of that the first address.
Value(l, o) ==
    {SubSeq(l[k].value, 1, 4) : k \in {j \in DOMAIN l : l[j].opt = o /\ \A m \in (j + 1)..Len(l) : l[m].opt # o}}

\* The list of a message that is to be taken, with what the client asked for.
Takes(l, s) ==
    /\ message.ours /\ Sound(l) /\ Usable(message.yiaddr)
    /\ Value(l, SERVER) # {}
    /\ kind = 5 => /\ Value(l, MASK) # {} /\ Value(l, ROUTER) # {} /\ Value(l, DNS) # {}
                   /\ Value(l, SERVER) = {s.server} /\ message.yiaddr = s.offered

-----------------------------------------------------------------------------
(* Properties *)

TypeOK ==
    /\ pc \in {"header", "walk", "taken", "dropped"}
    /\ i \in 0..n /\ type \in Octet /\ end \in BOOLEAN
    /\ DOMAIN found \subseteq Wanted
    /\ touched \in 0..n

\* A message is taken exactly when its list of options says so, and then the
\* offer, or mask, gateway and DNS server, are the ones in that list.
Agrees ==
    /\ pc = "dropped" => ~\E l \in Lists(0) : Takes(l, statics)
    /\ pc = "taken" =>
          \E l \in Lists(0) :
              /\ Takes(l, statics)
              /\ statics.offered = message.yiaddr /\ {statics.server} = Value(l, SERVER)
              /\ kind = 5 => config = Value(l, MASK) \X Value(l, ROUTER) \X Value(l, DNS)

\* The client's choice and its configuration change only as a whole and only
\* with the last step of a message that is taken: nothing of a message that
\* turns out malformed behind its good options is kept.
NothingHalfTaken == statics' # statics \/ config' # config => pc' = "taken"
=============================================================================
