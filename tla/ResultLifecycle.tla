---------------------------- MODULE ResultLifecycle ----------------------------
(***************************************************************************)
(* What the service promises the client of one submission, with no word of *)
(* requests, leases, transactions or retries: one training run at most,    *)
(* and a status that tells the truth about it.                             *)
(*                                                                         *)
(*   status  of the result                                                 *)
(*   run     the training run on Cloud Run: none yet, live, or over        *)
(***************************************************************************)

VARIABLES status, run

lifecycle == <<status, run>>

Open == {"queued", "starting", "running", "cancelling"}

TypeOK ==
  /\ status \in Open \union {"absent", "completed", "failed", "cancelled"}
  /\ run \in {"none", "live", "over"}

Init == status = "absent" /\ run = "none"

Become(s) == status' = s /\ UNCHANGED run

Accept == status = "absent" /\ Become("queued")

\* A run may still start for a dispatch that was given up as failed, but
\* never for one that the client cancelled.
Launch ==
  /\ status \in {"queued", "failed"}
  /\ run = "none"
  /\ run' = "live"
  /\ UNCHANGED status

End ==
  /\ run = "live"
  /\ run' = "over"
  /\ UNCHANGED status

Start == status = "queued" /\ run = "live" /\ Become("starting")
Run == status = "starting" /\ run = "live" /\ Become("running")
RequestCancel ==
  status \in Open \ {"cancelling"} /\ run # "none" /\ Become("cancelling")

Complete == status \in {"running", "cancelling"} /\ run = "live" /\ Become("completed")

\* Before training starts a submission may fail with or without a run.
Fail ==
  /\ status \in Open
  /\ status = "queued" \/ run # "none"
  /\ Become("failed")

\* Cancelled is said only of a run that is over, or that was never launched.
Cancel ==
  /\ \/ status = "queued" /\ run = "none"
     \/ status \in Open /\ run = "over"
  /\ Become("cancelled")

Next ==
  \/ Accept \/ Launch \/ End
  \/ Start \/ Run \/ RequestCancel
  \/ Complete \/ Fail \/ Cancel

Spec == Init /\ [][Next]_lifecycle
==============================================================================
