----------------------------- MODULE AddressBook -----------------------------
(***************************************************************************)
(* The node's address book: addressdb.EphemeralAddressDb and the two gRPC *)
(* handlers that write it, Node.Version and Node.SendAddresses            *)
(* (pkg/server.go).                                                        *)
(*                                                                         *)
(* Each call runs on its own gRPC goroutine and the database takes no      *)
(* lock (its embedded Mutex is never used), so a handler is a job whose    *)
(* steps are its accesses to the map: a Get, the exists-and-full test of   *)
(* Add, Add's write, the LastSeen compare, the UpdateLastSeen write.       *)
(*                                                                         *)
(* LastSeen is uint32(time.Now().UnixNano()) at the node that saw the      *)
(* address: real time is `now`, and a stored or gossiped LastSeen is that  *)
(* time modulo 2^Width.  Each record also keeps, as a history field, the   *)
(* real time `seen` its LastSeen stands for.                               *)
(*                                                                         *)
(* PeerDb (package peer) is not in the repository: its Get is membership  *)
(* of `peers`, its Add's result is chosen freely, and a peer's address is  *)
(* the AddressDB record itself (peer.New takes AddressDB.Get's pointer),   *)
(* so PeerDb.UpdateLastSeen writes that record.  The outgoing VersionRPC,  *)
(* SendAddressesRPC and GetRandom calls change nothing here.               *)
(***************************************************************************)
EXTENDS Integers, Sequences, FiniteSets, TLC

CONSTANTS
    Addrs,          \* addresses that occur
    Self,           \* n.Address
    Limit,          \* the AddressDB's limit
    Width,          \* bits of LastSeen
    MaxTime,        \* bound on the real clock
    VersionJobs,    \* Version calls
    JobAddrMe,      \* JobAddrMe[j]: in.AddrMe of Version call j
    SendJobs,       \* SendAddresses calls
    JobAddrs        \* JobAddrs[j]: in.Addrs, a sequence of [addr, seen]

VARIABLES
    addrs,          \* the AddressDB map: address -> [lastSeen, seen]
    peers,          \* the addresses PeerDb holds
    now,            \* real time
    pc,             \* program counter of each call
    loc             \* locals of each call: t (Version's now), k (entry)

vars == <<addrs, peers, now, pc, loc>>

Jobs == VersionJobs \cup SendJobs

\* uint32(time.Now().UnixNano()), and a LastSeen as it travels.
Stamp(t) == t % (2 ^ Width)

Record(t) == [lastSeen |-> Stamp(t), seen |-> t]

Goto(j, l) == pc' = [pc EXCEPT ![j] = l]

-----------------------------------------------------------------------------
(* EphemeralAddressDb.Add: `oldA != nil` and `len >= limit` are read in    *)
(* one step, the map write is the next; the write replaces a record put   *)
(* there in between.                                                       *)

AddCheck(j, a, ok, fail) ==
    Goto(j, IF a \notin DOMAIN addrs /\ Cardinality(DOMAIN addrs) < Limit
            THEN ok ELSE fail)

AddPut(a, t) == addrs' = (a :> Record(t)) @@ addrs

\* UpdateLastSeen(addr, lastSeen): the record's LastSeen only (a missing
\* record is an error, and no record is ever removed).
SetLastSeen(a, t) ==
    addrs' = [addrs EXCEPT ![a] = Record(t)]

-----------------------------------------------------------------------------
(* Node.Version: a wrong version is dropped; newAddr gets LastSeen now; a  *)
(* known address has its LastSeen updated, an unknown one is added, and a  *)
(* failed Add returns.  Then PeerDb.Add(peer.New(AddressDB.Get(addr))).    *)

VersionRecv(j) ==
    /\ pc[j] = "recv"
    /\ \E ok \in BOOLEAN : Goto(j, IF ok THEN "get" ELSE "done")
    /\ loc' = [loc EXCEPT ![j].t = now]
    /\ UNCHANGED <<addrs, peers, now>>

VersionGet(j) ==
    /\ pc[j] = "get"
    /\ Goto(j, IF JobAddrMe[j] \in DOMAIN addrs THEN "update" ELSE "addCheck")
    /\ UNCHANGED <<addrs, peers, now, loc>>

VersionUpdate(j) ==
    /\ pc[j] = "update"
    /\ SetLastSeen(JobAddrMe[j], loc[j].t)
    /\ Goto(j, "peer")
    /\ UNCHANGED <<peers, now, loc>>

VersionAddCheck(j) ==
    /\ pc[j] = "addCheck"
    /\ AddCheck(j, JobAddrMe[j], "addPut", "done")
    /\ UNCHANGED <<addrs, peers, now, loc>>

VersionAddPut(j) ==
    /\ pc[j] = "addPut"
    /\ AddPut(JobAddrMe[j], loc[j].t)
    /\ Goto(j, "peer")
    /\ UNCHANGED <<peers, now, loc>>

\* PeerDb.Add; when it accepts and no version is pending, VersionRPC back.
VersionPeer(j) ==
    /\ pc[j] = "peer"
    /\ \E added \in BOOLEAN :
           peers' = IF added THEN peers \cup {JobAddrMe[j]} ELSE peers
    /\ Goto(j, "done")
    /\ UNCHANGED <<addrs, now, loc>>

Version(j) ==
    \/ VersionRecv(j)
    \/ VersionGet(j)
    \/ VersionUpdate(j)
    \/ VersionAddCheck(j)
    \/ VersionAddPut(j)
    \/ VersionPeer(j)

-----------------------------------------------------------------------------
(* Node.SendAddresses: for each entry other than Self, a peer whose        *)
(* LastSeen is older is updated through PeerDb; else a known address whose *)
(* LastSeen is older is updated; else the address is added.  Each entry    *)
(* then gets `go VersionRPC`, and the call forwards `in` to two random     *)
(* peers when something was new.                                           *)

Entry(j) == JobAddrs[j][loc[j].k]

NextEntry(j) ==
    /\ loc' = [loc EXCEPT ![j].k = @ + 1]
    /\ Goto(j, "recv")

\* A call arrives once every sighting it carries has happened.
SendRecv(j) ==
    /\ pc[j] = "recv"
    /\ \A i \in 1 .. Len(JobAddrs[j]) : JobAddrs[j][i].seen <= now
    /\ IF loc[j].k > Len(JobAddrs[j])
       THEN Goto(j, "done") /\ UNCHANGED loc
       ELSE IF Entry(j).addr = Self THEN NextEntry(j)
       ELSE Goto(j, "peerGet") /\ UNCHANGED loc
    /\ UNCHANGED <<addrs, peers, now>>

SendPeerGet(j) ==
    /\ pc[j] = "peerGet"
    /\ Goto(j, IF Entry(j).addr \in peers THEN "cmp" ELSE "addrGet")
    /\ UNCHANGED <<addrs, peers, now, loc>>

SendAddrGet(j) ==
    /\ pc[j] = "addrGet"
    /\ Goto(j, IF Entry(j).addr \in DOMAIN addrs THEN "cmp" ELSE "addCheck")
    /\ UNCHANGED <<addrs, peers, now, loc>>

\* p.Addr.LastSeen < addr.LastSeen (or a.LastSeen < addr.LastSeen).
SendCmp(j) ==
    /\ pc[j] = "cmp"
    /\ IF addrs[Entry(j).addr].lastSeen < Stamp(Entry(j).seen)
       THEN Goto(j, "put") /\ UNCHANGED loc
       ELSE NextEntry(j)
    /\ UNCHANGED <<addrs, peers, now>>

SendPut(j) ==
    /\ pc[j] = "put"
    /\ SetLastSeen(Entry(j).addr, Entry(j).seen)
    /\ NextEntry(j)
    /\ UNCHANGED <<peers, now>>

SendAddCheck(j) ==
    /\ pc[j] = "addCheck"
    /\ AddCheck(j, Entry(j).addr, "addPut", "next")
    /\ UNCHANGED <<addrs, peers, now, loc>>

SendAddPut(j) ==
    /\ pc[j] = "addPut"
    /\ AddPut(Entry(j).addr, Entry(j).seen)
    /\ NextEntry(j)
    /\ UNCHANGED <<peers, now>>

\* A failed Add: on to the entry's VersionRPC and the next entry.
SendAddFailed(j) ==
    /\ pc[j] = "next"
    /\ NextEntry(j)
    /\ UNCHANGED <<addrs, peers, now>>

SendAddresses(j) ==
    \/ SendRecv(j)
    \/ SendPeerGet(j)
    \/ SendAddrGet(j)
    \/ SendCmp(j)
    \/ SendPut(j)
    \/ SendAddCheck(j)
    \/ SendAddPut(j)
    \/ SendAddFailed(j)

\* Time passes.
Tick ==
    /\ now < MaxTime
    /\ now' = now + 1
    /\ UNCHANGED <<addrs, peers, pc, loc>>

-----------------------------------------------------------------------------
(* node.New: addressdb.New(true, 1000) is empty, as is PeerDb.            *)

Init ==
    /\ addrs = [a \in {} |-> Record(0)]
    /\ peers = {}
    /\ now = 0
    /\ pc = [j \in Jobs |-> "recv"]
    /\ loc = [j \in Jobs |-> [t |-> 0, k |-> 1]]

Next ==
    \/ \E j \in VersionJobs : Version(j)
    \/ \E j \in SendJobs : SendAddresses(j)
    \/ Tick

Spec == Init /\ [][Next]_vars

-----------------------------------------------------------------------------
(* Properties.                                                             *)

TypeOK ==
    /\ DOMAIN addrs \subseteq Addrs
    /\ \A a \in DOMAIN addrs : addrs[a] = Record(addrs[a].seen)
    /\ peers \subseteq Addrs
    /\ now \in 0 .. MaxTime
    /\ pc \in [Jobs -> {"recv", "get", "update", "addCheck", "addPut", "peer",
                        "peerGet", "addrGet", "cmp", "put", "next", "done"}]

\* PeerDb.Add is reached only with AddressDB.Get's record, so every peer has
\* an AddressDB entry, however Version calls for one address interleave
\* (a second Add of it fails and returns before PeerDb.Add).
PeersKnownToAddressDb == peers \subseteq DOMAIN addrs

\* EphemeralAddressDb.Add refuses an address when len >= limit: the
\* database never holds more than Limit addresses.
AddressDbWithinLimit == Cardinality(DOMAIN addrs) <= Limit

\* SendAddresses updates a LastSeen only when the gossiped one is newer, and
\* Version stamps the current time: no step replaces an address's LastSeen
\* by an older sighting, or drops the address.
NewestSightingKept ==
    [][\A a \in DOMAIN addrs :
          a \in DOMAIN addrs' /\ addrs'[a].seen >= addrs[a].seen]_addrs
====
