---------------------------- MODULE MCAddressBook ----------------------------
(***************************************************************************)
(* Instances of AddressBook for TLC: node s0, addresses a1, a2, Version    *)
(* calls v1, v2 and SendAddresses calls g1, g2.                            *)
(***************************************************************************)
EXTENDS AddressBook

CONSTANTS s0, a1, a2, v1, v2, g1, g2

Gossip(a, t) == [addr |-> a, seen |-> t]

\* a1 says hello while a peer gossips a1 (seen at time 3), this node and a2.
NVersionJobs == {v1}
NJobAddrMe == (v1 :> a1)
NSendJobs == {g1}
NJobAddrs == (g1 :> <<Gossip(a1, 3), Gossip(s0, 1), Gossip(a2, 2)>>)

\* Two hellos from different addresses.
NVersionPair == {v1, v2}
NJobAddrMePair == (v1 :> a1) @@ (v2 :> a2)
NoSendJobs == {}
NoJobAddrs == [j \in {} |-> <<>>]

\* Two gossip calls about a1, one fresher than the other.
NoVersionJobs == {}
NoJobAddrMe == [j \in {} |-> a1]
NSendPair == {g1, g2}
NJobAddrsPair == (g1 :> <<Gossip(a1, 2)>>) @@ (g2 :> <<Gossip(a1, 1)>>)
\* The calls run one after the other (each call here has one entry, so
\* "recv" is a call that has not started or has finished its entry).
OneCallAtATime ==
    Cardinality({j \in Jobs : pc[j] \notin {"recv", "done"}}) <= 1

\* a1 is gossiped as seen at time 3 while a1 itself says hello.
NJobAddrsWrap == (g1 :> <<Gossip(a1, 3)>>)
====
