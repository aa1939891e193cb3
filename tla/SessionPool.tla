---------------------------- MODULE SessionPool ----------------------------
(***************************************************************************)
(* The connections to one server: ServerConnector with its cached session, *)
(* the lock connect holds, invalidation without that lock, the recorded    *)
(* address and the trusted host key.  Which machine answers at an address  *)
(* is its key; a component that uses the pool moves it about.              *)
(***************************************************************************)
EXTENDS Naturals

CONSTANTS
    Caller,     \* calls of ServerConnector::connect
    Addr, Key   \* addresses, and the keys of the machines behind them

NoKey  == "no key"
NoOne  == "no one"
NoSession == [host |-> "none", key |-> NoKey]
Session == [host : Addr, key : Key] \cup {NoSession}

VARIABLES
    host,      \* servers.host
    trusted,   \* the fingerprint in known_hosts
    answers,   \* the key of the machine that answers at each address
    pool,      \* ConnectionPool::entries
    lock,      \* who holds the lock of the server
    link,      \* where each call of connect is
    wanted,    \* the ConnectionIdentity it has read
    got,       \* the session it has taken out, opened or returned
    since      \* history: the addresses and keys on record since it began

calls    == <<lock, link, wanted, got, since>>
records  == <<host, trusted>>
poolVars == <<records, answers, pool, calls>>

PoolInit(h, k) ==
    /\ host = h /\ trusted = k
    /\ pool = NoSession /\ lock = NoOne
    /\ link = [c \in Caller |-> "idle"]
    /\ wanted = [c \in Caller |-> NoSession]
    /\ got = [c \in Caller |-> NoSession]
    /\ since = [c \in Caller |-> {}]

Reaches(a, k) == answers[a] = k

-----------------------------------------------------------------------------
(* connect                                                                  *)

Go(c, label) == link' = [link EXCEPT ![c] = label]

\* The lock of the server, then require_server.
Begin(c) ==
    /\ link[c] = "idle" /\ lock = NoOne
    /\ lock' = c
    /\ wanted' = [wanted EXCEPT ![c].host = host]
    /\ since' = [since EXCEPT ![c] = {host, trusted}]
    /\ Go(c, "key")
    /\ UNCHANGED <<records, answers, pool, got>>

\* trusted_fingerprint, a second statement; then the session is taken out.
Take(c) ==
    /\ link[c] = "key"
    /\ wanted' = [wanted EXCEPT ![c].key = trusted]
    /\ got' = [got EXCEPT ![c] = pool]
    /\ pool' = NoSession
    /\ Go(c, "choose")
    /\ UNCHANGED <<records, answers, lock, since>>

\* Mutant: the key of a session is not compared.
MayReuseHost(s, identity) == s.host = identity.host

\* may_reuse; a session that is closed, idle for too long or fails its probe is
\* not reused either, which Dial leaves open.
MayReuse(s, identity) == s = identity

Release(c, label) ==
    /\ lock' = NoOne
    /\ Go(c, label)
    /\ wanted' = [wanted EXCEPT ![c] = NoSession]

Reuse(c) ==
    /\ link[c] = "choose" /\ MayReuse(got[c], wanted[c])
    /\ pool' = got[c]
    /\ Release(c, "ok")
    /\ UNCHANGED <<records, answers, got, since>>

\* connect_profile_at_host_with_fingerprint
Dial(c) ==
    /\ link[c] = "choose"
    /\ Reaches(wanted[c].host, wanted[c].key)
    /\ got' = [got EXCEPT ![c] = wanted[c]]
    /\ Go(c, "put")
    /\ UNCHANGED <<records, answers, pool, lock, wanted, since>>

Put(c) ==
    /\ link[c] = "put"
    /\ pool' = got[c]
    /\ Release(c, "ok")
    /\ UNCHANGED <<records, answers, got, since>>

\* No answer, another key, or the probe of a new session fails.
DialFails(c) ==
    /\ link[c] = "choose"
    /\ got' = [got EXCEPT ![c] = NoSession]
    /\ Release(c, "failed")
    /\ UNCHANGED <<records, answers, pool, since>>

\* The caller has what it asked for and is done with the session.
Hangup(c) ==
    /\ link' = [link EXCEPT ![c] = "idle"]
    /\ got' = [got EXCEPT ![c] = NoSession]
    /\ since' = [since EXCEPT ![c] = {}]

ConnectStep(c) ==
    Take(c) \/ Reuse(c) \/ Dial(c) \/ Put(c) \/ DialFails(c)

-----------------------------------------------------------------------------
(* The other operations on the pool and on the records                      *)

\* invalidate and shutdown take what is in the pool, not the lock.
Invalidate ==
    /\ pool' = NoSession
    /\ UNCHANGED <<records, answers, calls>>

\* update_host; every call under way has seen the change.
UpdateHost(a) ==
    /\ host' = a
    /\ since' = [c \in Caller |-> IF link[c] = "idle" THEN {} ELSE since[c] \cup {a}]
    /\ UNCHANGED <<trusted, answers, pool, lock, link, wanted, got>>

\* upsert_host_key; the pool is left as it is.
UpdateKey(k) ==
    /\ trusted' = k
    /\ since' = [c \in Caller |-> IF link[c] = "idle" THEN {} ELSE since[c] \cup {k}]
    /\ UNCHANGED <<host, answers, pool, lock, link, wanted, got>>

-----------------------------------------------------------------------------
(* Properties                                                               *)

PoolTypeOK ==
    /\ host \in Addr /\ trusted \in Key
    /\ answers \in [Addr -> Key \cup {NoKey}]
    /\ pool \in Session /\ lock \in Caller \cup {NoOne}
    /\ got \in [Caller -> Session]
    /\ link \in [Caller -> {"idle", "key", "choose", "put", "ok", "failed"}]

\* A session that connect returns is for an address and a host key that were on
\* record while the call was under way, also when the address was changed and
\* the pool invalidated, or another key trusted, in the middle of the call.
SessionIsCurrent ==
    \A c \in Caller : link[c] = "ok" => /\ got[c].host \in since[c]
                                        /\ got[c].key \in since[c]

=============================================================================
