------------------------------ MODULE MailQueue ------------------------------
(***************************************************************************)
(* Mails on their way: MailService and QueueProducerService add a job to   *)
(* Bull's queue in Redis, QueueConsumer hands it to the mailer.  mailJob   *)
(* does not return the promise of sendMail, so Bull completes the job      *)
(* while the mail is still being sent by the process.                      *)
(***************************************************************************)
EXTENDS Naturals

CONSTANT Mails  \* what a mail says

VARIABLES
  job,      \* the job of each mail
  stalls,   \* how often the process died with the job in hand
  sending,  \* mails the process is sending
  inbox     \* how often each mail was delivered

queueVars == <<job, stalls, sending, inbox>>

QueueTypeOK ==
  /\ job \in [Mails -> {"none", "delayed", "active", "stalled",
                        "completed", "failed"}]
  /\ stalls \in [Mails -> 0..2]
  /\ sending \subseteq Mails
  /\ inbox \in [Mails -> 0..2]

QueueInit ==
  /\ job = [m \in Mails |-> "none"]
  /\ stalls = [m \in Mails |-> 0]
  /\ sending = {}
  /\ inbox = [m \in Mails |-> 0]

(* MailService.sendMail and QueueProducerService.sendMail.  The job is     *)
(* held back for ten seconds and for as long as the worker is behind.      *)
SendMail(m) ==
  /\ job[m] = "none"
  /\ job' = [job EXCEPT ![m] = "delayed"]
  /\ UNCHANGED <<stalls, sending, inbox>>

(* Slip: the job is done and nothing is sent. *)
MailJobIdle(m) ==
  /\ job[m] = "delayed"
  /\ job' = [job EXCEPT ![m] = "completed"]
  /\ UNCHANGED <<stalls, sending, inbox>>

(* Slip: the job stays where the next worker finds it. *)
MailJobLeft(m) ==
  /\ job[m] = "delayed"
  /\ inbox[m] < 2
  /\ sending' = sending \cup {m}
  /\ UNCHANGED <<job, stalls, inbox>>

(* Bull gives the consumer one job at a time.  It starts the sending and   *)
(* returns.                                                                *)
MailJob(m) ==
  /\ job[m] = "delayed"
  /\ \A o \in Mails : job[o] # "active"
  /\ job' = [job EXCEPT ![m] = "active"]
  /\ sending' = sending \cup {m}
  /\ UNCHANGED <<stalls, inbox>>

Complete(m) ==
  /\ job[m] = "active"
  /\ job' = [job EXCEPT ![m] = "completed"]
  /\ UNCHANGED <<stalls, sending, inbox>>

Deliver(m) ==
  /\ m \in sending
  /\ sending' = sending \ {m}
  /\ inbox' = [inbox EXCEPT ![m] = @ + 1]
  /\ UNCHANGED <<job, stalls>>

(* The template or the mail server refuses; the rejection is nobody's. *)
Reject(m) ==
  /\ m \in sending
  /\ sending' = sending \ {m}
  /\ UNCHANGED <<job, stalls, inbox>>

(* The process dies: what it is sending is gone, the job in hand stalls. *)
QueueCrash ==
  /\ sending' = {}
  /\ job' = [m \in Mails |-> IF job[m] = "active" THEN "stalled" ELSE job[m]]
  /\ stalls' = [m \in Mails |-> IF job[m] = "active" THEN stalls[m] + 1
                                                     ELSE stalls[m]]
  /\ UNCHANGED inbox

(* Slip: a stalled job is always given out again. *)
RecoverAlways(m) ==
  /\ job[m] = "stalled"
  /\ job' = [job EXCEPT ![m] = "delayed"]
  /\ UNCHANGED <<stalls, sending, inbox>>

(* Bull gives a stalled job out once more, and not a second time. *)
Recover(m) ==
  /\ job[m] = "stalled"
  /\ job' = [job EXCEPT ![m] = IF stalls[m] <= 1 THEN "delayed" ELSE "failed"]
  /\ UNCHANGED <<stalls, sending, inbox>>

(* The record of a finished mail is dropped, so that the model can use its *)
(* name again.                                                             *)
Finished(m) == job[m] \in {"completed", "failed"} /\ m \notin sending

Forget(m) ==
  /\ job' = [job EXCEPT ![m] = "none"]
  /\ stalls' = [stalls EXCEPT ![m] = 0]
  /\ inbox' = [inbox EXCEPT ![m] = 0]
  /\ UNCHANGED sending

Consume(m) == MailJob(m) \/ Complete(m) \/ Deliver(m) \/ Reject(m) \/ Recover(m)
=============================================================================
