---------------------------- MODULE ClientAddress ----------------------------
(***************************************************************************)
(* resolveClientIp of src/include/client_ip.h: which address a request     *)
(* that came through reverse proxies counts as coming from.  An address    *)
(* stands for its text as much as for its number: ipInCidr and             *)
(* isTrustedProxy are membership in a set, of which text that is no        *)
(* address is no member.  X-Forwarded-For is the sequence of its hops, the *)
(* first the farthest; one that is empty, or blank, is NoHop.              *)
(***************************************************************************)
EXTENDS Integers, Sequences

CONSTANTS Ips,          \* the addresses
          Proxies       \* those in trusted_proxies; none in development

NoHop == ""

ASSUME ProxiesAreIps == Proxies \subseteq Ips
ASSUME NoHopIsNoIp == NoHop \notin Ips

(* Mutant: the farthest foreign hop is taken, which the client may forge.  *)
FarthestHop(peer, xff) ==
  LET own == {i \in 1..Len(xff) : xff[i] # NoHop /\ xff[i] \notin Proxies}
  IN  IF Proxies = {} THEN IF xff = <<>> THEN peer ELSE xff[1]
      ELSE IF peer \notin Proxies \/ own = {} THEN peer
      ELSE xff[CHOOSE i \in own : \A j \in own : i <= j]

(* Without proxies the first hop is believed; a peer that is no proxy is   *)
(* believed about itself only; and a proxy about the nearest hop that is   *)
(* not another one.                                                        *)
ResolveClientIp(peer, xff) ==
  LET own == {i \in 1..Len(xff) : xff[i] # NoHop /\ xff[i] \notin Proxies}
  IN  IF Proxies = {} THEN IF xff = <<>> THEN peer ELSE xff[1]
      ELSE IF peer \notin Proxies \/ own = {} THEN peer
      ELSE xff[CHOOSE i \in own : \A j \in own : j <= i]

-----------------------------------------------------------------------------
(* How a request gets here: its client writes any header, and each of the  *)
(* proxies that it comes through appends the address it had it from.       *)
Route == [forged : Seq(Ips \cup {NoHop}), via : Seq(Proxies)]

Peer(client, r) == IF r.via = <<>> THEN client ELSE r.via[Len(r.via)]

ForwardedFor(client, r) ==
  IF r.via = <<>> THEN r.forged
  ELSE r.forged \o <<client>> \o SubSeq(r.via, 1, Len(r.via) - 1)
=============================================================================
