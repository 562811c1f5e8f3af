---------------------------- MODULE MCAdmission ----------------------------
(* Instances of Admission for TLC.                                         *)
EXTENDS Admission, TLC

CONSTANTS lan, cafe, proxy, edge

Off == [gate_enabled |-> FALSE, fail_open |-> FALSE, session_ip |-> FALSE]
On == [Off EXCEPT !.gate_enabled = TRUE, !.session_ip = TRUE]

(* Straight from the client, without a header. *)
MCDirect == {[forged |-> <<>>, via |-> <<>>]}

(* The client comes straight, or through one or two proxies with a header  *)
(* of its own that names an address inside the trusted network.            *)
MCRoutes == MCDirect \cup
  {[forged |-> <<lan>>, via |-> <<edge>>], [forged |-> <<lan, NoHop, edge>>, via |-> <<proxy, edge>>]}

(* One thread is like another. *)
Perms == Permutations(Threads)

(* Two threads share the caches while the origin gate is off, and keys and *)
(* tenants change; while it is on, and sessions and Redis change, requests *)
(* come one at a time, since it shares nothing but its connection.         *)
Busy(w) == ~In(w, "idle")
Direct(w) == login[w].client = cafe /\ login[w].ip = cafe
Shared ==
  /\ changes <= 2 /\ redisUp
  /\ \A s \in Owners \X Ips : session[s] = Expired
  /\ \A w \in Threads : Busy(w) => Direct(w)
Gated ==
  /\ valid = Owners
  /\ \A t \in Tenants : registry[t] = "live"
  /\ \A v, w \in Threads : Busy(v) /\ Busy(w) => v = w
SharedOrGated == IF config = Off THEN Shared ELSE Gated

(* A session of an address is good for that address alone (no prefix of an *)
(* IPv6 address is configured).                                            *)
MCMatching == {<<i, i>> : i \in Ips}

OnlyOff == {Off}

MCConfigs == {Off, On, [On EXCEPT !.fail_open = TRUE, !.session_ip = FALSE]}
=============================================================================
