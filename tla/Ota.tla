-------------------------------- MODULE Ota --------------------------------
(***************************************************************************)
(* Firmware updates: api_ota_s3 and api_ota_p4 (main/api_system.cpp) hand  *)
(* an address to task_ota and task_p4_ota (main/main.cpp), which report to *)
(* the browser.  task_ota restarts the hub; task_p4_ota sends the image to *)
(* the P4 in chunks, asks it now and then how far it is, and waits for its *)
(* verdict; the answers arrive in on_frame (main/hap_bridge.cpp).          *)
(*                                                                         *)
(* External: the download, and the P4, which takes the chunks in order.    *)
(* Offsets count chunks.                                                   *)
(***************************************************************************)
EXTENDS Naturals, Sequences

CONSTANTS
  Length,      \* chunks of an image
  kChunkBatch, \* chunks between two checkpoints
  MaxJobs,     \* bound: accepted requests
  MaxLost      \* bound: frames lost between the chips

LengthAssumption == Length \in Nat \ {0} /\ kChunkBatch \in Nat \ {0}

VARIABLES
  s_ota_sem, s_p4ota_sem, \* a request is waiting
  s3,                     \* where task_ota is
  p4,                     \* where task_p4_ota is
  offset, chunks_in_batch,
  s_p4ota_ckpt_rsp_sem, s_p4ota_ckpt_offset,
  s_p4ota_rsp_sem, s_p4ota_status, \* TRUE: the image was accepted
  toP4, fromP4,           \* frames under way
  expected,               \* the next chunk the P4 takes
  bar,                    \* what the browser shows of each chip's update
  jobs, lost

s3Vars == <<s_ota_sem, s3>>
p4Vars == <<s_p4ota_sem, p4, offset, chunks_in_batch>>
answers == <<s_p4ota_ckpt_rsp_sem, s_p4ota_ckpt_offset, s_p4ota_rsp_sem, s_p4ota_status>>
wire == <<toP4, fromP4, expected>>
vars == <<s3Vars, p4Vars, answers, wire, bar, jobs, lost>>

Chips == {"s3", "p4"}
Ask == [kind |-> "checkpoint"]
Chunk(at) == [kind |-> "chunk", at |-> at]
Bar(chip, shown) == bar' = [bar EXCEPT ![chip] = shown]

(* The start of the hub; the P4 has its own life.                             *)
Start ==
  /\ s_ota_sem' = FALSE /\ s3' = "idle"
  /\ s_p4ota_sem' = FALSE /\ p4' = "idle" /\ offset' = 0 /\ chunks_in_batch' = 0
  /\ s_p4ota_ckpt_rsp_sem' = FALSE /\ s_p4ota_ckpt_offset' = 0
  /\ s_p4ota_rsp_sem' = FALSE /\ s_p4ota_status' = FALSE
  /\ toP4' = <<>> /\ fromP4' = <<>>
  /\ bar' = [chip \in Chips |-> "idle"]

Init ==
  /\ s_ota_sem = FALSE /\ s3 = "idle"
  /\ s_p4ota_sem = FALSE /\ p4 = "idle" /\ offset = 0 /\ chunks_in_batch = 0
  /\ s_p4ota_ckpt_rsp_sem = FALSE /\ s_p4ota_ckpt_offset = 0
  /\ s_p4ota_rsp_sem = FALSE /\ s_p4ota_status = FALSE
  /\ toP4 = <<>> /\ fromP4 = <<>> /\ expected = 0
  /\ bar = [chip \in Chips |-> "idle"]
  /\ jobs = 0 /\ lost = 0

---------------------------------------------------------------------------
api_ota_s3 ==
  /\ jobs < MaxJobs /\ jobs' = jobs + 1
  /\ s_ota_sem' = TRUE
  /\ UNCHANGED <<s3, p4Vars, answers, wire, bar, lost>>

api_ota_p4 ==
  /\ jobs < MaxJobs /\ jobs' = jobs + 1
  /\ s_p4ota_sem' = TRUE
  /\ UNCHANGED <<s3Vars, p4, offset, chunks_in_batch, answers, wire, bar, lost>>

---------------------------------------------------------------------------
(* task_ota.                                                                  *)

S3Starts ==
  /\ s3 = "idle" /\ s_ota_sem
  /\ s_ota_sem' = FALSE
  /\ \/ s3' = "idle" /\ Bar("s3", "failed")   \* not https
     \/ s3' = "begin" /\ Bar("s3", "moving")
  /\ UNCHANGED <<p4Vars, answers, wire, jobs, lost>>

S3Begins ==
  /\ s3 = "begin"
  /\ \/ s3' = "idle" /\ Bar("s3", "failed")
     \/ s3' = "load" /\ UNCHANGED bar
  /\ UNCHANGED <<s_ota_sem, p4Vars, answers, wire, jobs, lost>>

S3Ends ==
  /\ s3 = "load"
  /\ \/ s3' = "idle" /\ Bar("s3", "failed")
     \/ s3' = "restart" /\ Bar("s3", "ok")
  /\ UNCHANGED <<s_ota_sem, p4Vars, answers, wire, jobs, lost>>

S3Restarts ==
  /\ s3 = "restart"
  /\ Start
  /\ UNCHANGED <<expected, jobs, lost>>

---------------------------------------------------------------------------
(* task_p4_ota.                                                               *)

AskHowFar ==
  /\ s_p4ota_ckpt_rsp_sem' = FALSE
  /\ toP4' = Append(toP4, Ask)
  /\ UNCHANGED <<fromP4, expected>>

P4Starts ==
  /\ p4 = "idle" /\ s_p4ota_sem
  /\ s_p4ota_sem' = FALSE
  /\ \/ /\ p4' = "idle" /\ Bar("p4", "failed")   \* not https
        /\ UNCHANGED <<answers, wire>>
     \/ /\ p4' = "asked" /\ s_p4ota_ckpt_offset' = 0 /\ AskHowFar
        /\ UNCHANGED <<bar, s_p4ota_rsp_sem, s_p4ota_status>>
  /\ UNCHANGED <<s3Vars, offset, chunks_in_batch, jobs, lost>>

(* With the answer, or two seconds later without one.                         *)
P4Opens ==
  /\ p4 = "asked"
  /\ \E got \in {s_p4ota_ckpt_rsp_sem, FALSE} :
       /\ s_p4ota_ckpt_rsp_sem' = (s_p4ota_ckpt_rsp_sem /\ ~ got)
       /\ \/ p4' = "idle" /\ UNCHANGED <<offset, chunks_in_batch, bar>>  \* no connection
          \/ /\ p4' = "load" /\ chunks_in_batch' = 0 /\ Bar("p4", "moving")
             \* the server may refuse to resume, and does at the end of the image
             /\ offset' \in {at \in {0, s_p4ota_ckpt_offset} : at < Length /\ (got \/ at = 0)}
  /\ UNCHANGED <<s3Vars, s_p4ota_sem, s_p4ota_ckpt_offset, s_p4ota_rsp_sem,
                 s_p4ota_status, wire, jobs, lost>>

(* One chunk goes out, and the question after it when the batch is full or    *)
(* the image complete.                                                        *)
Due == chunks_in_batch + 1 >= kChunkBatch \/ offset + 1 = Length
SendChunk ==
  /\ p4 = "load" /\ offset < Length
  /\ offset' = offset + 1
  /\ IF Due
       THEN /\ p4' = "check"
            /\ s_p4ota_ckpt_rsp_sem' = FALSE
            /\ toP4' = toP4 \o <<Chunk(offset), Ask>>
       ELSE /\ p4' = "load"
            /\ toP4' = Append(toP4, Chunk(offset))
            /\ UNCHANGED s_p4ota_ckpt_rsp_sem
  /\ chunks_in_batch' = chunks_in_batch + 1
  /\ UNCHANGED <<s3Vars, s_p4ota_sem, s_p4ota_ckpt_offset, s_p4ota_rsp_sem,
                 s_p4ota_status, fromP4, expected, bar, jobs, lost>>

(* Mutant: the read error ends the loop without a word to the browser.        *)
ReadStops ==
  /\ p4 = "load"
  /\ \/ p4' = "idle" /\ UNCHANGED bar
     \/ p4' = "verdict" /\ UNCHANGED bar
  /\ UNCHANGED <<s3Vars, s_p4ota_sem, offset, chunks_in_batch, answers, wire, jobs, lost>>

(* The read fails, or it returns nothing: the loop then ends as if the image  *)
(* were complete.                                                             *)
ReadEnds ==
  /\ p4 = "load"
  /\ \/ p4' = "idle" /\ Bar("p4", "failed")
     \/ p4' = "verdict" /\ UNCHANGED bar
  /\ UNCHANGED <<s3Vars, s_p4ota_sem, offset, chunks_in_batch, answers, wire, jobs, lost>>

(* The P4 is further than possible, or further behind than two batches.       *)
Diverged == s_p4ota_ckpt_offset > offset \/ offset - s_p4ota_ckpt_offset > 2 * kChunkBatch

(* The checkpoint: its answer, or fifteen seconds later, when the transfer    *)
(* goes on as if it had been right.                                           *)
Check ==
  /\ p4 = "check"
  /\ \E got \in {s_p4ota_ckpt_rsp_sem, FALSE} :
       /\ s_p4ota_ckpt_rsp_sem' = (s_p4ota_ckpt_rsp_sem /\ ~ got)
       /\ IF got /\ Diverged
            THEN p4' = "idle" /\ Bar("p4", "failed") /\ UNCHANGED chunks_in_batch
            ELSE /\ p4' = IF offset = Length THEN "verdict" ELSE "load"
                 /\ chunks_in_batch' = 0 /\ UNCHANGED bar
  /\ UNCHANGED <<s3Vars, s_p4ota_sem, offset, s_p4ota_ckpt_offset, s_p4ota_rsp_sem,
                 s_p4ota_status, wire, jobs, lost>>

(* OTA_STATUS, or thirty seconds without it.                                  *)
Verdict ==
  /\ p4 = "verdict"
  /\ p4' = "idle"
  /\ \E acked \in {s_p4ota_rsp_sem, FALSE} :
       Bar("p4", IF acked /\ s_p4ota_status THEN "ok" ELSE "failed")
  /\ s_p4ota_rsp_sem' = FALSE
  /\ UNCHANGED <<s3Vars, s_p4ota_sem, offset, chunks_in_batch, s_p4ota_ckpt_rsp_sem,
                 s_p4ota_ckpt_offset, s_p4ota_status, wire, jobs, lost>>

---------------------------------------------------------------------------
(* on_frame.                                                                  *)

Answered(kind) == fromP4 # <<>> /\ Head(fromP4).kind = kind

OtaCheckpointRsp ==
  /\ Answered("checkpoint")
  /\ fromP4' = Tail(fromP4)
  /\ s_p4ota_ckpt_offset' = Head(fromP4).at
  /\ s_p4ota_ckpt_rsp_sem' = TRUE
  /\ UNCHANGED <<s3Vars, p4Vars, s_p4ota_rsp_sem, s_p4ota_status, toP4, expected,
                 bar, jobs, lost>>

OtaStatus ==
  /\ Answered("status")
  /\ fromP4' = Tail(fromP4)
  /\ s_p4ota_status' = Head(fromP4).ok
  /\ s_p4ota_rsp_sem' = TRUE
  /\ UNCHANGED <<s3Vars, p4Vars, s_p4ota_ckpt_rsp_sem, s_p4ota_ckpt_offset, toP4,
                 expected, bar, jobs, lost>>

(* External: the P4.  Chunk 0 starts an image; a chunk it does not expect is  *)
(* an error, the last one settles the image; the P4 then restarts or not.     *)
P4Takes ==
  /\ toP4 # <<>>
  /\ toP4' = Tail(toP4)
  /\ LET frame == Head(toP4)
     IN IF frame.kind = "checkpoint"
          THEN /\ fromP4' = Append(fromP4, [kind |-> "checkpoint", at |-> expected])
               /\ UNCHANGED expected
        ELSE IF frame.at \notin {0, expected}
          THEN /\ fromP4' = Append(fromP4, [kind |-> "status", ok |-> FALSE])
               /\ expected' = 0
        ELSE IF frame.at + 1 = Length
          THEN /\ \E ok \in BOOLEAN : fromP4' = Append(fromP4, [kind |-> "status", ok |-> ok])
               /\ expected' \in {0, Length}
          ELSE expected' = frame.at + 1 /\ UNCHANGED fromP4
  /\ UNCHANGED <<s3Vars, p4Vars, answers, bar, jobs, lost>>

FrameLost ==
  /\ toP4 # <<>> /\ lost < MaxLost
  /\ lost' = lost + 1
  /\ toP4' = Tail(toP4)
  /\ UNCHANGED <<s3Vars, p4Vars, answers, fromP4, expected, bar, jobs>>

---------------------------------------------------------------------------
TaskOta == S3Starts \/ S3Begins \/ S3Ends \/ S3Restarts
TaskP4Ota == P4Starts \/ P4Opens \/ SendChunk \/ ReadEnds \/ Check \/ Verdict

Next ==
  \/ api_ota_s3 \/ api_ota_p4
  \/ TaskOta \/ TaskP4Ota
  \/ OtaCheckpointRsp \/ OtaStatus
  \/ P4Takes \/ FrameLost

(* Both tasks run, and every wait of theirs ends: each has a time limit.      *)
Fairness == WF_vars(TaskOta) /\ WF_vars(TaskP4Ota)

Spec == Init /\ [][Next]_vars
FairSpec == Spec /\ Fairness

---------------------------------------------------------------------------
TypeOK ==
  /\ s3 \in {"idle", "begin", "load", "restart"}
  /\ p4 \in {"idle", "asked", "load", "check", "verdict"}
  /\ offset \in 0..Length /\ expected \in 0..Length
  /\ s_p4ota_ckpt_offset \in 0..Length
  /\ bar \in [Chips -> {"idle", "moving", "ok", "failed"}]

(* The progress bar never hangs: an update that was announced ends in a       *)
(* result, whatever the download, the P4 and the frames between the chips do, *)
(* unless the hub restarts with the firmware of the other update.             *)
BarSettles == \A chip \in Chips : bar[chip] = "moving" ~> bar[chip] # "moving"
=============================================================================
