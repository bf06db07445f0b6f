---------------------------- MODULE QuotaAccount ----------------------------
(***************************************************************************)
(* The quota account as it is meant, with exact arithmetic: a file is      *)
(* admitted once and within every limit, at the largest size; its size is  *)
(* settled; it is given back once, with just what it holds.  A restart     *)
(* counts afresh.                                                          *)
(***************************************************************************)
EXTENDS Naturals, FiniteSets, Functions

CONSTANTS Files, Owners, Nil, MaxUploadSize, MaxPerPairing, MaxFiles, MaxBytes

VARIABLES
  account,   \* the files each owner is charged for
  held,      \* the bytes each of these files holds
  bytes,     \* what they hold together
  admitted   \* the files that have been admitted, ever

Init ==
  /\ account = [p \in Owners |-> {}]
  /\ held = [f \in {} |-> 0]
  /\ bytes = 0
  /\ admitted = {}

(* No id is admitted twice, and only uploads of a pairing are.             *)
Admit(f, p) ==
  /\ f \notin admitted
  /\ p # Nil
  /\ Cardinality(account[p]) < MaxPerPairing
  /\ Cardinality(DOMAIN held) < MaxFiles
  /\ bytes + MaxUploadSize <= MaxBytes
  /\ account' = [account EXCEPT ![p] = @ \cup {f}]
  /\ held' = [g \in DOMAIN held \cup {f} |-> IF g = f THEN MaxUploadSize ELSE held[g]]
  /\ bytes' = bytes + MaxUploadSize
  /\ admitted' = admitted \cup {f}

(* A file still charged at the largest size is charged with its own.       *)
Settle(f, length) ==
  /\ held[f] = MaxUploadSize
  /\ held' = [held EXCEPT ![f] = length]
  /\ bytes' = bytes - (MaxUploadSize - length)
  /\ UNCHANGED <<account, admitted>>

(* Whoever is charged for the file no longer is.                           *)
GiveBack(f) ==
  /\ account' = [p \in Owners |-> account[p] \ {f}]
  /\ held' = [g \in DOMAIN held \ {f} |-> held[g]]
  /\ bytes' = bytes - held[f]
  /\ UNCHANGED admitted

(* The files found are charged to nobody in particular, without limits.    *)
CountAfresh(found, lengths) ==
  /\ account' = [p \in Owners |-> IF p = Nil THEN found ELSE {}]
  /\ held' = lengths
  /\ bytes' = SumFunction(lengths)
  /\ UNCHANGED admitted

Next ==
  \/ \E f \in Files, p \in Owners : Admit(f, p)
  \/ \E f \in DOMAIN held : GiveBack(f) \/ \E length \in 0..MaxUploadSize : Settle(f, length)
  \/ \E found \in SUBSET admitted :
       \E lengths \in [found -> 0..MaxUploadSize] : CountAfresh(found, lengths)

Spec == Init /\ [][Next]_<<account, held, bytes, admitted>>
=============================================================================
