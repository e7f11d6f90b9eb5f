------------------------------- MODULE SignIn -------------------------------
(* The lock-out after failed sign-ins (main/main.cpp: auth_record_failure,   *)
(* auth_is_locked and their table of buckets).  A bucket holds the times of  *)
(* the last failures of one address in a ring; address 0 stands for all      *)
(* clients of the WebSocket.  All callers run on the HTTP server's task, so  *)
(* a history of attempts is a sequence and the table a function of it.       *)
EXTENDS Naturals, Sequences, FiniteSets, SequencesExt

CONSTANTS
    Limit,      \* AUTH_FAIL_LIMIT
    Window,     \* AUTH_FAIL_WINDOW_MS
    Buckets     \* AUTH_IP_BUCKETS


Free == [ip |-> 0, ts |-> [i \in 1..Limit |-> 0], head |-> 1, last_use |-> 0]
NoFailures == [b \in 1..Buckets |-> Free]

(* auth_bucket_find, and the bucket auth_bucket_get takes: the address's own *)
(* or the first of those used longest ago.                                   *)
Has(tbl, ip) == {b \in DOMAIN tbl : tbl[b].last_use # 0 /\ tbl[b].ip = ip}
Oldest(tbl) == CHOOSE b \in DOMAIN tbl : \A e \in DOMAIN tbl :
                   \/ tbl[b].last_use < tbl[e].last_use
                   \/ tbl[b].last_use = tbl[e].last_use /\ b <= e
BucketOf(tbl, ip) == IF Has(tbl, ip) = {} THEN Oldest(tbl) ELSE CHOOSE b \in Has(tbl, ip) : TRUE
Bucket(tbl, ip, now) ==
    [(IF Has(tbl, ip) = {} THEN Free ELSE tbl[BucketOf(tbl, ip)])
        EXCEPT !.ip = ip, !.last_use = now]

RecordFailure(tbl, ip, now) ==
    LET b == Bucket(tbl, ip, now) IN
    [tbl EXCEPT ![BucketOf(tbl, ip)] =
        [b EXCEPT !.ts[b.head] = now, !.head = (@ % Limit) + 1]]

Recent(ts, now) == {i \in DOMAIN ts : ts[i] # 0 /\ now - ts[i] < Window}
Locked(tbl, ip, now) ==
    \E b \in Has(tbl, ip) : Cardinality(Recent(tbl[b].ts, now)) >= Limit

(* check_auth, auth_password_check, auth_check_token with a wrong secret.    *)
Attempt(tbl, ip, now) == IF Locked(tbl, ip, now) THEN tbl ELSE RecordFailure(tbl, ip, now)

-----------------------------------------------------------------------------
(* A history is a sequence of wrong attempts [ip, at] in the order of time.  *)
After(h) == FoldLeft(LAMBDA tbl, a : Attempt(tbl, a.ip, a.at), NoFailures, h)

(* The attempts of ip whose secret was looked at.                            *)
LookedAt(h, ip) ==
    {k \in DOMAIN h : h[k].ip = ip /\ ~ Locked(After(SubSeq(h, 1, k - 1)), ip, h[k].at)}

(* No more addresses than buckets: nobody is locked out by another's         *)
(* failures, and no more than Limit secrets of an address are looked at      *)
(* within a window.                                                          *)
LockoutExact(Histories) ==
    \A h \in Histories :
        LET ips == {h[k].ip : k \in DOMAIN h}
            now == IF h = <<>> THEN 1 ELSE h[Len(h)].at
        IN Cardinality(ips) <= Buckets =>
            \A ip \in ips :
                Locked(After(h), ip, now) <=>
                    Cardinality({k \in LookedAt(h, ip) : now - h[k].at < Window}) >= Limit

(* One address more than there are buckets: its failures are forgotten.      *)
EvictionForgets(Histories) ==
    \E h \in Histories :
        \E ip \in {h[k].ip : k \in DOMAIN h} :
            Cardinality({k \in LookedAt(h, ip) : h[Len(h)].at - h[k].at < Window}) > Limit
=============================================================================
