---------------------------- MODULE MediaPromise ----------------------------
(***************************************************************************)
(* What a caller of upload-media is promised.  A media is absent, uploaded *)
(* (whole, and being processed by X), ready, or broken (its processing     *)
(* failed).  Ok is said of a media that is there, and of one that is ready *)
(* when the caller waits for it.  A settled error is said of a media that  *)
(* never will be of use; any other error leaves the caller in doubt.       *)
(***************************************************************************)

VARIABLES
  waits,    \* the caller asked to wait for the processing
  media,    \* what X has of the media
  verdict   \* what the caller knows

vars == <<waits, media, verdict>>

Init ==
  /\ waits \in BOOLEAN
  /\ media = "absent"
  /\ verdict = "idle"

Begin ==
  /\ verdict = "idle"
  /\ verdict' = "open"
  /\ UNCHANGED <<waits, media>>

\* All of the media arrives at once, or nothing of it.
Land ==
  /\ verdict \in {"open", "doubt"}
  /\ media = "absent"
  /\ media' \in {"uploaded", "ready", "broken"}
  /\ UNCHANGED <<waits, verdict>>

Process ==
  /\ media = "uploaded"
  /\ media' \in {"ready", "broken"}
  /\ UNCHANGED <<waits, verdict>>

Confirm ==
  /\ verdict = "open"
  /\ media # "absent"
  /\ waits => media = "ready"
  /\ verdict' = "ok"
  /\ UNCHANGED <<waits, media>>

GiveUp ==
  /\ \/ /\ verdict = "idle"
        /\ verdict' = "settled"
     \/ /\ verdict = "open"
        /\ media = "broken"
        /\ verdict' = "settled"
     \/ /\ verdict = "open"
        /\ verdict' = "doubt"
  /\ UNCHANGED <<waits, media>>

Next == Begin \/ Land \/ Process \/ Confirm \/ GiveUp

Spec == Init /\ [][Next]_vars
=============================================================================
