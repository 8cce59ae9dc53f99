------------------------------ MODULE MCRouter ------------------------------
(* Two hosts behind one interface, and one that only the default route     *)
(* leads to, which sr_findLPMentry() never takes.  One packet to be        *)
(* forwarded comes with TTL 1, one with TTL 0.                             *)
EXTENDS RouterInv

CONSTANTS a, b, c, r,
          ab, ba, cb, ac, expired, echo, udp, lost, dropped

Addresses == {a, b, c, r}
Mine      == {r}
Lan       == {a, b}
Outside   == {}
Table     == <<[covers |-> {a, b, c, r}, length |-> 0,  iface |-> r],
               [covers |-> {a, b, r},    length |-> 24, iface |-> r]>>

IP(src, dst) ==
    [src |-> src, dst |-> dst, ttl |-> 2, proto |-> "port",
     short |-> FALSE, ok |-> TRUE, from |-> r]

Packets == {ab, ba, cb, ac, expired, echo, udp, lost, dropped}
Arriving == [id \in Packets |->
    CASE id = ab      -> IP(a, b)
      [] id = ba      -> [IP(b, a) EXCEPT !.ttl = 0]
      [] id = cb      -> IP(c, b)
      [] id = ac      -> IP(a, c)
      [] id = expired -> [IP(a, b) EXCEPT !.ttl = 1]
      [] id = echo    -> [IP(a, r) EXCEPT !.proto = "echo"]
      [] id = udp     -> IP(a, r)
      [] id = lost    -> IP(c, r)
      [] id = dropped -> [IP(a, b) EXCEPT !.ok = FALSE]]
=============================================================================
