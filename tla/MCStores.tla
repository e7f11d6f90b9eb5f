------------------------------ MODULE MCStores ------------------------------
(* Two tasks; three devices in pages of two, one option per device, two      *)
(* groups, a mirror of two devices with two groups each, requests of one and *)
(* two settings.  The lock-out is evaluated over every history of up to five *)
(* attempts with two buckets of two failures.                                *)
EXTENDS Stores, TLC

MCRequests == {{"broker", "timezone"}, {"ntp", "metrics"}, {"ap_disabled", "log"}}
MCIds == 1..2

Attempts == [ip : 1..3, gap : {0, 1, 3}]
At2(h, k) == FoldLeft(LAMBDA t, a : t + a.gap, 1, SubSeq(h, 1, k))
History(h) == [k \in DOMAIN h |-> [ip |-> h[k].ip, at |-> At2(h, k)]]
Histories == {History(h) : h \in SeqOf(Attempts, 5)}

SI == INSTANCE SignIn WITH Limit <- 2, Window <- 3, Buckets <- 2

ASSUME Lockout == SI!LockoutExact(Histories) /\ SI!EvictionForgets(Histories)
ASSUME Mirrors == TableOpsCorrect
=============================================================================
