------------------------------ MODULE MCNode ------------------------------
(***************************************************************************)
(* Small instances of WifiMgr, Ota and AlertLog.  The three share nothing  *)
(* but the hub that restarts, which each of them models, so one run        *)
(* explores them side by side: a behaviour moves the part it starts with   *)
(* and leaves the other two where they are.                                *)
(***************************************************************************)
EXTENDS WifiMgr

CONSTANTS Length, kChunkBatch, MaxJobs, MaxLost
CONSTANTS ALERT_LOG_MAX, Size, Room, MaxAlerts, MaxFailures, MaxCrashes

VARIABLE part
VARIABLES s_ota_sem, s_p4ota_sem, s3, p4, offset, chunks_in_batch,
          s_p4ota_ckpt_rsp_sem, s_p4ota_ckpt_offset, s_p4ota_rsp_sem,
          s_p4ota_status, toP4, fromP4, expected, bar, jobs, lost
VARIABLES s_alert_log, s_alert_log_head, s_alert_log_count, alerts, notified,
          saver, snap, file, booted, failures, crashes

O == INSTANCE Ota
A == INSTANCE AlertLog

ASSUME OtaConstants == O!LengthAssumption
ASSUME AlertConstants == A!RingAssumption

(* The second alert is long, and the fourth never fits.                       *)
Sizes == [alert \in 0..MaxAlerts |-> IF alert = 2 THEN 2 ELSE IF alert = 4 THEN 3 ELSE 1]

wifiVars == <<wifi_cfg, ap_disabled, s_ap_mode, s_wifi_connected, s_retry_count,
              s_reconnect_timer, s_ap_grace_timer, wiping, kept, s_dns_started, sta, driver,
              events, improv, wanted, restart, router, wishes, outages, blips, faults>>
otaVars == <<s_ota_sem, s_p4ota_sem, s3, p4, offset, chunks_in_batch,
             s_p4ota_ckpt_rsp_sem, s_p4ota_ckpt_offset, s_p4ota_rsp_sem,
             s_p4ota_status, toP4, fromP4, expected, bar, jobs, lost>>
alertVars == <<s_alert_log, s_alert_log_head, s_alert_log_count, alerts, notified,
               saver, snap, file, booted, failures, crashes>>
allVars == <<part, wifiVars, otaVars, alertVars>>

NodeInit ==
  /\ part \in {"wifi", "ota", "alerts"}
  /\ Init /\ (part # "wifi" => wifi_cfg = None /\ ap_disabled)
  /\ O!Init /\ A!Init

NodeNext ==
  /\ UNCHANGED part
  /\ \/ part = "wifi" /\ Next /\ UNCHANGED <<otaVars, alertVars>>
     \/ part = "ota" /\ O!Next /\ UNCHANGED <<wifiVars, alertVars>>
     \/ part = "alerts" /\ A!Next /\ UNCHANGED <<wifiVars, otaVars>>

(* The fairness of each part, as its module states it, while it moves.        *)
NodeSpec ==
  /\ NodeInit /\ [][NodeNext]_allVars
  /\ WF_wifiVars(part = "wifi" /\ Driver)
  /\ WF_wifiVars(part = "wifi" /\ (StaStart \/ Disconnected \/ clear_sta_creds \/ GotIp))
  /\ WF_wifiVars(part = "wifi" /\ reconnect_timer_cb)
  /\ WF_wifiVars(part = "wifi" /\ (ImprovLeaves \/ ImprovConnects))
  /\ WF_wifiVars(part = "wifi" /\ (Reboot \/ wifi_mgr_forget_and_reboot))
  /\ WF_otaVars(part = "ota" /\ O!TaskOta)
  /\ WF_otaVars(part = "ota" /\ O!TaskP4Ota)
  /\ WF_alertVars(part = "alerts" /\ (A!Snapshot \/ A!Open \/ A!Write))

ListedInOrder == A!ListedInOrder
EndsWithNewest == A!EndsWithNewest
BarSettles == O!BarSettles
ReachesFile == A!ReachesFile
=============================================================================
