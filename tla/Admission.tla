------------------------------ MODULE Admission ------------------------------
(***************************************************************************)
(* authenticateUser of src/src/webdav_server.cpp: the layers a request     *)
(* passes before it is served.  A key and its secret are verified by       *)
(* ldap_manager, or by the cache of its answers; the tenant must be live   *)
(* (TenantGate, which this module composes); the user's roles are looked   *)
(* up (RoleLookup; here, whether that succeeds); and, when that gate is    *)
(* enabled, the request comes from the trusted network or its user has a   *)
(* live session in Redis (gate of src/src/webdav_hardening.cpp).           *)
(*                                                                         *)
(* A key is a key id with its secret, and stands for its user too; a user  *)
(* has one key.  The cache of answers is per key, while a session, like    *)
(* the roles, is kept per user and tenant.                                 *)
(***************************************************************************)
EXTENDS TenantGate, ClientAddress

CONSTANTS Keys,          \* key ids with their secrets
          Trusted,       \* the addresses in trusted_cidrs
          Matching,      \* the pairs that ipMatchesForSession takes for one address
          Routes,        \* the ways that requests come
          Configs,       \* the configurations the bridge may run with
          VerifyTTL,     \* verify_cache_ttl
          SessionTTL,    \* how long http_bridge announces a session for
          MaxChanges     \* bound: what may happen outside the bridge

ASSUME SomebodyMayCome == Keys # {} /\ Ips # {} /\ Tenants # {}
ASSUME TrustedAreIps == Trusted \subseteq Ips
ASSUME MatchingArePairs == Matching \subseteq Ips \X Ips
ASSUME RoutesAreRoutes == Routes \subseteq Route
ASSUME ConfigsAreSound ==
  Configs \subseteq [gate_enabled : BOOLEAN, fail_open : BOOLEAN, session_ip : BOOLEAN]
ASSUME AdmissionTTLsArePositive == VerifyTTL \in Nat \ {0} /\ SessionTTL \in Nat \ {0}
ASSUME MaxChangesIsNat == MaxChanges \in Nat

VARIABLES config,        \* cfg_, set once: is the origin gate on, does it fail open,
                         \* must a session's address match?
          valid,         \* ldap_manager: the keys it accepts, with their tenants
          verified,      \* verify_cache_: per key, when its entry expires
          session,       \* Redis: per user and tenant, and address, when a session expires
          redisUp,       \* does Redis answer?
          link,          \* ctx_, the one connection to Redis
          changes,       \* how often these, or a tenant's state, have changed
          login,         \* per thread: the request it authenticates
          lastValid,     \* history: the last second each key was valid in
          lastSession,   \* history: the last second each of these had a session in
          lastOutage     \* history: the last second Redis did not answer in

own == <<valid, verified, session, redisUp, link, changes, login, lastValid, lastSession, lastOutage>>
outside == <<valid, session, redisUp, changes, lastValid, lastSession, lastOutage>>
around == <<outside, link>>
admissionVars == <<vars, own, config>>

LoginPhases == {"idle", "verify", "ask", "keep", "tenant", "gate", "roles", "origin",
                "admitted", "refused"}

Login == [phase : LoginPhases, key : Keys, tenant : Tenants, ip : Ips \cup {NoHop}, start : Nat,
          client : Ips]      \* history: where the request comes from

Owners == Keys \X Tenants

NoLogin == [phase |-> "idle", key |-> CHOOSE k \in Keys : TRUE,
            tenant |-> CHOOSE t \in Tenants : TRUE, ip |-> NoHop, start |-> 0,
            client |-> CHOOSE i \in Ips : TRUE]

AdmissionTypeOK ==
  /\ TypeOK
  /\ config \in Configs
  /\ valid \subseteq Owners
  /\ verified \in [Keys -> Nat]
  /\ session \in [Owners \X Ips -> Nat]
  /\ redisUp \in BOOLEAN
  /\ link \in {"none", "good", "broken"}
  /\ changes \in Nat
  /\ login \in [Threads -> Login]
  /\ lastValid \in [Owners -> Int]
  /\ lastSession \in [Owners \X Ips -> Int]
  /\ lastOutage \in Int

(* ldap_manager accepts each key for the tenants that it is bound to.      *)
AdmissionInit ==
  /\ Init
  /\ config \in Configs
  /\ valid \in SUBSET Owners
  /\ verified = [k \in Keys |-> Expired]
  /\ session = [s \in Owners \X Ips |-> Expired]
  /\ redisUp = TRUE
  /\ link = "none"
  /\ changes = 0
  /\ login = [w \in Threads |-> NoLogin]
  /\ lastValid = [o \in Owners |-> IF o \in valid THEN 1 ELSE 1 - VerifyTTL]
  /\ lastSession = [s \in Owners \X Ips |-> 0]
  /\ lastOutage = 0

In(w, phase) == login[w].phase = phase
Go(w, phase) == login' = [login EXCEPT ![w].phase = phase]
KeyOf(w) == login[w].key
Owner(w) == <<login[w].key, login[w].tenant>>

-----------------------------------------------------------------------------
(* No header, another scheme than Basic, no colon, or no configuration; or *)
(* a header of "Basic" alone, at which authenticateUser throws and which   *)
(* is answered with an error rather than 401.                              *)
Malformed(w) ==
  /\ In(w, "idle")
  /\ Go(w, "refused")
  /\ UNCHANGED <<vars, around, verified>>

(* A key and secret, for the tenant of the host name, from a client that   *)
(* is no proxy.  verifyCredential reads the clock before it takes the lock. *)
Present(w, k, t, c, r) ==
  /\ In(w, "idle")
  /\ login' = [login EXCEPT ![w] =
       [phase |-> "verify", key |-> k, tenant |-> t, start |-> clock, client |-> c,
        ip |-> ResolveClientIp(Peer(c, r), ForwardedFor(c, r))]]
  /\ UNCHANGED <<vars, around, verified>>

(* Mutant: the tenant's state is asked for with the credential only, and   *)
(* so a cached credential skips it.                                        *)
VerifiedSkipsTenant(w) ==
  /\ In(w, "verify")
  /\ verified[KeyOf(w)] > login[w].start
  /\ Go(w, "roles")
  /\ UNCHANGED <<vars, around, verified>>

(* First critical section: an unexpired entry verifies. *)
Verified(w) ==
  /\ In(w, "verify")
  /\ verified[KeyOf(w)] > login[w].start
  /\ Go(w, "tenant")
  /\ UNCHANGED <<vars, around, verified>>

Unverified(w) ==
  /\ In(w, "verify")
  /\ verified[KeyOf(w)] <= login[w].start
  /\ Go(w, "ask")
  /\ UNCHANGED <<vars, around, verified>>

(* ldap_manager accepts the key for the tenant. *)
Accepted(w) ==
  /\ In(w, "ask")
  /\ Owner(w) \in valid
  /\ Go(w, "keep")
  /\ UNCHANGED <<vars, around, verified>>

(* It does not, or cannot be reached, or does not answer in time: that is  *)
(* not cached.                                                             *)
Rejected(w) ==
  /\ In(w, "ask")
  /\ Go(w, "refused")
  /\ UNCHANGED <<vars, around, verified>>

(* Mutant: the entry lives from the answer on. *)
KeepFromAnswer(w) ==
  /\ In(w, "keep")
  /\ verified' = [verified EXCEPT ![KeyOf(w)] = clock + VerifyTTL]
  /\ Go(w, "tenant")
  /\ UNCHANGED <<vars, around>>

(* Mutant: the entry's lifetime is subtracted. *)
KeepBackdated(w) ==
  /\ In(w, "keep")
  /\ verified' = [verified EXCEPT ![KeyOf(w)] = login[w].start - VerifyTTL]
  /\ Go(w, "tenant")
  /\ UNCHANGED <<vars, around>>

(* Second critical section: the entry lives from the start of the call. *)
Keep(w) ==
  /\ In(w, "keep")
  /\ verified' = [verified EXCEPT ![KeyOf(w)] = login[w].start + VerifyTTL]
  /\ Go(w, "tenant")
  /\ UNCHANGED <<vars, around>>

(* tenantAdmits, whether the credential was cached or not. *)
AskTenant(w) ==
  /\ In(w, "tenant")
  /\ Enter(w, login[w].tenant)
  /\ Go(w, "gate")
  /\ UNCHANGED <<around, verified>>

GateStep(w) == In(w, "gate") /\ Call(w) /\ UNCHANGED own

GateAnswers(w) ==
  /\ In(w, "gate")
  /\ Go(w, IF gate[w].admits THEN "roles" ELSE "refused")
  /\ Leave(w)
  /\ UNCHANGED <<around, verified>>

(* A command finds the connection that a Redis outage has broken, fails,   *)
(* and drops it; without one, it connects first.                           *)
Answers(l) == l # "broken" /\ redisUp
Used(l) == IF Answers(l) THEN "good" ELSE "none"

(* Roles from Redis, or from the directory and mostly then put there; the  *)
(* user without an entry in the directory has no access.                   *)
RolesFound(w) ==
  /\ In(w, "roles")
  /\ Go(w, IF config.gate_enabled THEN "origin" ELSE "admitted")
  /\ link' \in {Used(link), Used(Used(link))}
  /\ UNCHANGED <<vars, outside, verified>>

NoRoles(w) ==
  /\ In(w, "roles")
  /\ Go(w, "refused")
  /\ link' = Used(link)
  /\ UNCHANGED <<vars, outside, verified>>

FromTrusted(w) ==
  /\ In(w, "origin")
  /\ login[w].ip \in Trusted
  /\ Go(w, "admitted")
  /\ UNCHANGED <<vars, around, verified>>

(* Redis is not asked about a trusted address, nor trusted when it does    *)
(* not answer, unless it is configured to be.                              *)
RedisSilent(w) ==
  /\ In(w, "origin")
  /\ login[w].ip \notin Trusted /\ ~Answers(link)
  /\ Go(w, IF config.fail_open THEN "admitted" ELSE "refused")
  /\ link' = "none"
  /\ UNCHANGED <<vars, outside, verified>>

(* ZREMRANGEBYSCORE drops the sessions that have expired by now. *)
HasSession(w, at) ==
  \E j \in Ips : /\ config.session_ip => <<j, login[w].ip>> \in Matching
                 /\ session[<<Owner(w), j>>] > at

(* Mutant: expired sessions are not purged. *)
SessionFoundUnpurged(w) ==
  /\ In(w, "origin")
  /\ login[w].ip \notin Trusted /\ Answers(link)
  /\ Go(w, IF HasSession(w, Expired) THEN "admitted" ELSE "refused")
  /\ link' = "good"
  /\ UNCHANGED <<vars, outside, verified>>

SessionFound(w) ==
  /\ In(w, "origin")
  /\ login[w].ip \notin Trusted /\ Answers(link)
  /\ Go(w, IF HasSession(w, clock) THEN "admitted" ELSE "refused")
  /\ link' = "good"
  /\ UNCHANGED <<vars, outside, verified>>

(* The request is served, or answered with 401. *)
Answered(w) ==
  /\ login[w].phase \in {"admitted", "refused"}
  /\ login' = [login EXCEPT ![w] = NoLogin]
  /\ UNCHANGED <<vars, around, verified>>

Authenticates(w) ==
  \/ Malformed(w)
  \/ \E k \in Keys, t \in Tenants, c \in Ips \ Proxies, r \in Routes : Present(w, k, t, c, r)
  \/ Verified(w) \/ Unverified(w) \/ Accepted(w) \/ Rejected(w) \/ Keep(w)
  \/ AskTenant(w) \/ GateStep(w) \/ GateAnswers(w)
  \/ RolesFound(w) \/ NoRoles(w)
  \/ FromTrusted(w) \/ RedisSilent(w) \/ SessionFound(w)
  \/ Answered(w)

-----------------------------------------------------------------------------
(* Others: ldap_manager's keys, http_bridge's sessions, which it records   *)
(* under the user, the tenant and the address that it resolves as this     *)
(* bridge does, Redis, the tenant registry and time.  Keys are revoked but *)
(* not issued: all that will be accepted are there at the start.           *)
Change == changes < MaxChanges /\ changes' = changes + 1

Revoke(o) ==
  /\ Change
  /\ o \in valid
  /\ valid' = valid \ {o}
  /\ UNCHANGED <<vars, verified, session, redisUp, link, login, lastValid, lastSession, lastOutage>>

SessionOpens(s) ==
  /\ Change
  /\ session' = [session EXCEPT ![s] = clock + SessionTTL]
  /\ lastSession' = [lastSession EXCEPT ![s] = clock]
  /\ UNCHANGED <<vars, verified, valid, redisUp, link, login, lastValid, lastOutage>>

SessionCloses(s) ==
  /\ Change
  /\ session[s] # Expired
  /\ session' = [session EXCEPT ![s] = Expired]
  /\ UNCHANGED <<vars, verified, valid, redisUp, link, login, lastValid, lastSession, lastOutage>>

RedisToggles ==
  /\ Change
  /\ redisUp' = ~redisUp
  /\ link' = IF link = "good" THEN "broken" ELSE link
  /\ lastOutage' = clock
  /\ UNCHANGED <<vars, verified, valid, session, login, lastValid, lastSession>>

TenantMoves(t) ==
  /\ Change
  /\ Transition(t)
  /\ UNCHANGED <<valid, verified, session, redisUp, link, login, lastValid, lastSession, lastOutage>>

SecondPasses ==
  /\ Tick
  /\ lastValid' = [o \in Owners |-> IF o \in valid THEN clock' ELSE lastValid[o]]
  /\ lastSession' =
       [s \in Owners \X Ips |-> IF session[s] > clock' THEN clock' ELSE lastSession[s]]
  /\ lastOutage' = IF redisUp THEN lastOutage ELSE clock'
  /\ UNCHANGED <<valid, verified, session, redisUp, link, changes, login>>

AdmissionNext ==
  /\ UNCHANGED config
  /\ \/ \E w \in Threads : Authenticates(w)
     \/ \E o \in Owners : Revoke(o)
     \/ \E s \in Owners \X (Ips \ Proxies) : SessionOpens(s) \/ SessionCloses(s)
     \/ RedisToggles
     \/ \E t \in Tenants : TenantMoves(t)
     \/ SecondPasses

AdmissionSpec == AdmissionInit /\ [][AdmissionNext]_admissionVars

-----------------------------------------------------------------------------
Passed(w) == In(w, "admitted")

(* A request is admitted only with a key that ldap_manager accepted, for   *)
(* some tenant, less than VerifyTTL seconds before the request came, or    *)
(* later, whatever other threads cached meanwhile (verifyCredential).      *)
KeyWasAccepted ==
  \A w \in Threads : Passed(w) =>
     \E t \in Tenants : lastValid[<<KeyOf(w), t>>] > login[w].start - VerifyTTL

(* And for the tenant of the request: "the tenant is host-driven and       *)
(* already verified against the credential above" (authenticateUser,       *)
(* webdav_server.cpp:1700-1704), "the credential is already bound to one   *)
(* tenant (ldap_manager verifies key_id AND tenant)"                       *)
(* (ldap_authenticator.cpp:439-440).                                       *)
KeyWasValid ==
  \A w \in Threads : Passed(w) => lastValid[Owner(w)] > login[w].start - VerifyTTL

(* A request is admitted only if its tenant was live less than AdmitTTL    *)
(* seconds before it came, or later: a cached credential does not skip the *)
(* tenant's state, "a cached credential would skip the check entirely"     *)
(* (authenticateUser).                                                     *)
TenantWasLive ==
  \A w \in Threads : Passed(w) => lastLive[login[w].tenant] > login[w].start - AdmitTTL

FromKnown(w, i) ==
  \/ i \in Trusted
  \/ \E j \in Ips : /\ config.session_ip => <<j, i>> \in Matching
                    /\ lastSession[<<Owner(w), j>>] >= login[w].start
  \/ config.fail_open /\ lastOutage >= login[w].start

(* With the origin gate on and proxies configured, a request from outside  *)
(* the trusted network is admitted only if a session of its user in its    *)
(* tenant was live, from the client's own address where that is asked for, *)
(* while it was authenticated; or Redis was out then and the gate fails    *)
(* open: an outage that ended before admits nobody, though the connection  *)
(* it broke fails once more, and no header that the client writes makes it *)
(* another one (gate and ensureConnectedLocked of webdav_hardening.cpp,    *)
(* resolveClientIp of client_ip.h).                                        *)
OriginWasKnown ==
  config.gate_enabled /\ Proxies # {} =>
     \A w \in Threads : Passed(w) => FromKnown(w, login[w].client)

-----------------------------------------------------------------------------
(* What these rest on: the histories are exact for the present; a login    *)
(* keeps what each layer it has passed has found; and a cached credential  *)
(* is as old as it says.                                                   *)
RecordsArePresent ==
  /\ \A o \in Owners : lastValid[o] <= clock /\ (o \in valid => lastValid[o] = clock)
  /\ \A s \in Owners \X Ips :
        lastSession[s] <= clock /\ (session[s] > clock => lastSession[s] = clock)
  /\ lastOutage <= clock /\ (~redisUp => lastOutage = clock)

LoginIsFounded(w) ==
  /\ login[w].start <= clock
  /\ In(w, "gate") => /\ gate[w].tenant = login[w].tenant
                      /\ gate[w].start >= login[w].start
  /\ login[w].phase \in {"roles", "origin", "admitted"} =>
        lastLive[login[w].tenant] > login[w].start - AdmitTTL
  /\ In(w, "origin") /\ link = "broken" => lastOutage >= login[w].start
  /\ Proxies # {} /\ login[w].phase \notin {"idle", "refused"} =>
        login[w].ip = login[w].client
  /\ Passed(w) /\ config.gate_enabled => FromKnown(w, login[w].ip)

KeptIsFounded ==
  \A k \in Keys : verified[k] # Expired =>
     \E t \in Tenants : lastValid[<<k, t>>] >= verified[k] - VerifyTTL

KeyIsFounded(w) ==
  /\ In(w, "keep") => lastValid[Owner(w)] >= login[w].start
  /\ login[w].phase \in {"tenant", "gate", "roles", "origin", "admitted"} =>
        \E t \in Tenants : lastValid[<<KeyOf(w), t>>] > login[w].start - VerifyTTL

AdmissionInv ==
  /\ AdmissionTypeOK
  /\ GateInv
  /\ RecordsArePresent
  /\ KeptIsFounded
  /\ \A w \in Threads : LoginIsFounded(w) /\ KeyIsFounded(w)
=============================================================================
