---------------------------- MODULE Credentials ----------------------------
(* The credentials of the node (main/main.cpp: auth_init,                    *)
(* auth_password_store, auth_rotate_token; the /api/auth handlers of         *)
(* main/rest_ops.cpp).  All requests run on the HTTP server's task.  The     *)
(* password is kept as a salt and a digest under two keys of flash, the      *)
(* token under a third.  The n-th secret drawn is the number n: password n   *)
(* is known by salt n and digest n, which no other pair verifies.            *)
EXTENDS Naturals

VARIABLES
    drawn,      \* secrets drawn so far
    key,        \* what the handle reads: salt, digest, token; 0 is none
    keyFlash,   \* what is committed
    ram,        \* s_pw_salt, s_pw_hash, s_api_token
    authJob     \* the request under way: what it writes next, and the secret

credVars == <<drawn, key, keyFlash, ram, authJob>>

Keys == {"salt", "hash", "token"}
NoAuthJob == [pc |-> "idle", secret |-> 0, rotate |-> FALSE]

CredTypeOK ==
    /\ drawn \in Nat
    /\ \A m \in {key, keyFlash, ram} : m \in [Keys -> 0..drawn]
    /\ authJob \in [pc : {"idle"} \cup Keys \cup {"password", "commit"},
                    secret : 0..drawn, rotate : BOOLEAN]

(* The first boot has drawn a token and stored it. *)
CredInit ==
    /\ drawn = 1
    /\ ram = [k \in Keys |-> IF k = "token" THEN 1 ELSE 0]
    /\ key = ram /\ keyFlash = ram
    /\ authJob = NoAuthJob

PasswordSet == ram.salt # 0 /\ ram.hash # 0
Draw(pc, rotate) ==
    /\ drawn' = drawn + 1
    /\ authJob' = [pc |-> pc, secret |-> drawn + 1, rotate |-> rotate]

(* setup: only while there is no password.  password: the current one is     *)
(* asked for when there is one; the token is rotated behind it.              *)
SetupPassword ==
    /\ authJob.pc = "idle" /\ ~ PasswordSet
    /\ Draw("salt", FALSE) /\ UNCHANGED <<key, keyFlash, ram>>
ChangePassword ==
    /\ authJob.pc = "idle" /\ (PasswordSet => ram.salt = ram.hash)
    /\ Draw("salt", TRUE) /\ UNCHANGED <<key, keyFlash, ram>>
RotateToken ==
    /\ authJob.pc = "idle"
    /\ Draw("token", FALSE) /\ UNCHANGED <<key, keyFlash, ram>>

(* Each write or commit that fails ends the request with an error.           *)
After(pc) == CASE pc = "salt" -> "hash" [] pc = "hash" -> "password" [] pc = "token" -> "commit"
WriteKey ==
    /\ authJob.pc \in Keys
    /\ \/ /\ key' = [key EXCEPT ![authJob.pc] = authJob.secret]
          /\ authJob' = [authJob EXCEPT !.pc = After(authJob.pc)]
       \/ key' = key /\ authJob' = NoAuthJob
    /\ UNCHANGED <<drawn, keyFlash, ram>>

CommitPassword ==
    /\ authJob.pc = "password"
    /\ \/ /\ keyFlash' = key
          /\ ram' = [ram EXCEPT !.salt = authJob.secret, !.hash = authJob.secret]
          /\ IF authJob.rotate THEN Draw("token", FALSE)
                               ELSE authJob' = NoAuthJob /\ UNCHANGED drawn
       \/ authJob' = NoAuthJob /\ UNCHANGED <<drawn, keyFlash, ram>>
    /\ UNCHANGED key

CommitToken ==
    /\ authJob.pc = "commit"
    /\ \/ keyFlash' = key /\ ram' = [ram EXCEPT !.token = authJob.secret]
       \/ UNCHANGED <<keyFlash, ram>>
    /\ authJob' = NoAuthJob
    /\ UNCHANGED <<drawn, key>>

(* auth_init: the password counts as set when both of its keys are there.    *)
(* Of the writes that were not committed any may have survived.              *)
CredRestart ==
    /\ \E K \in SUBSET {k \in Keys : key[k] # keyFlash[k]} :
        key' = [k \in Keys |-> IF k \in K THEN key[k] ELSE keyFlash[k]]
    /\ keyFlash' = key'
    /\ ram' = [k \in Keys |-> IF k # "token" /\ (key'.salt = 0 \/ key'.hash = 0)
                              THEN 0 ELSE key'[k]]
    /\ authJob' = NoAuthJob
    /\ UNCHANGED drawn

CredStep == WriteKey \/ CommitPassword \/ CommitToken
CredRequest == SetupPassword \/ ChangePassword \/ RotateToken

-----------------------------------------------------------------------------
(* "never persist a garbage hash": a password that counts as set is one      *)
(* somebody knows.  A salt that was written without its digest breaks it.    *)
PasswordUsable == PasswordSet => ram.salt = ram.hash
=============================================================================
