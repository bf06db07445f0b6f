------------------------------ MODULE Transfer ------------------------------
(***************************************************************************)
(* What sending a file from a phone to a PC promises, whatever happens on  *)
(* the way: the upload is stored or fails, once; the PC keeps the file or  *)
(* gives it up, once; and it keeps it only if the upload has been stored   *)
(* and the copy is the file.                                               *)
(***************************************************************************)

VARIABLES
  upload,   \* what the server has made of the upload
  copy      \* what the PC has made of its copy

Init == upload = "open" /\ copy = "none"

Store == upload = "open" /\ upload' = "stored" /\ UNCHANGED copy

Fail == upload = "open" /\ upload' = "failed" /\ UNCHANGED copy

Keep == upload = "stored" /\ copy = "none" /\ copy' = "kept" /\ UNCHANGED upload

GiveUp == copy = "none" /\ copy' = "given up" /\ UNCHANGED upload

Next == Store \/ Fail \/ Keep \/ GiveUp

Spec == Init /\ [][Next]_<<upload, copy>>
=============================================================================
