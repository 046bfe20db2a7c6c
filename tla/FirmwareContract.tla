--------------------------- MODULE FirmwareContract ---------------------------
(***************************************************************************)
(* What writing the update_fw attribute promises to the one who writes it: *)
(* a call that succeeds has put the whole image on the controller, one     *)
(* that is rejected has not touched it, and one that fails half way may    *)
(* leave anything behind but can be repeated.                              *)
(***************************************************************************)
VARIABLES
  call,     \* "ready" or "busy"
  result,   \* what the last call returned: "none", "ok", "failed", "rejected"
  content   \* the controller's program: "new" (the file of the last call),
            \* "old" (none of it) or "mixed"

vars == <<call, result, content>>

Init == call = "ready" /\ result = "none" /\ content = "old"

Begin == /\ call = "ready" /\ call' = "busy"
         /\ result' = "none"
         /\ content' \in {content, "old"}   \* the same file, or another one

Reject == /\ call = "ready" /\ result' = "rejected"
          /\ UNCHANGED <<call, content>>

(* Nothing but writing the image brings the controller out of "mixed". *)
Write == /\ call = "busy" /\ content' \in {"mixed", "new"}
         /\ UNCHANGED <<call, result>>

Succeed == /\ call = "busy" /\ call' = "ready"
           /\ content = "new" /\ result' = "ok"
           /\ UNCHANGED content

Fail == /\ call = "busy" /\ call' = "ready"
        /\ result' = "failed"
        /\ UNCHANGED content

Next == Begin \/ Reject \/ Write \/ Succeed \/ Fail

Spec == Init /\ [][Next]_vars
=============================================================================
