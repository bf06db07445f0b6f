----------------------------- MODULE LockOrder -----------------------------
(***************************************************************************)
(* The locks of the server that one call takes while it holds another: the *)
(* Mutex reservation of the upload store and the shards of the DashMaps of *)
(* files, pairings, browser sessions and tickets.  All of them block the   *)
(* worker thread of the runtime that the call is running on.  One shard    *)
(* stands for a map: two keys may always fall into the same.  A call that  *)
(* takes its locks one after the other can be in no circle and is left out.*)
(***************************************************************************)
EXTENDS Sequences, Naturals

CONSTANTS
  Threads   \* worker threads of the runtime

VARIABLES
  call,     \* the call a thread runs, "none" if it is idle
  at,       \* the number of steps the call has done
  held      \* how a thread holds a lock

lockVars == <<call, at, held>>

Locks == {"reservation", "files", "pairings", "sessions", "tickets"}

-----------------------------------------------------------------------------
Take(lock, how) == [act |-> "take", lock |-> lock, how |-> how]
Give(lock) == [act |-> "give", lock |-> lock, how |-> "not"]

(* A guard on lock that lives as long as the steps take.                   *)
Within(lock, how, steps) == <<Take(lock, how)>> \o steps \o <<Give(lock)>>

Touch(lock, how) == Within(lock, how, <<>>)

(* The upload store: the quota is reserved or checked, and the file changed *)
(* before reservation is free again.                                       *)
QuotaThenFile == Within("reservation", "write", Touch("files", "write"))

begin_upload == QuotaThenFile
begin_notifying == QuotaThenFile
finalize_stream_success == QuotaThenFile
save_file_from_field == QuotaThenFile

(* The RefMut of the file lives until the quota is corrected.              *)
mark_streaming_done == Within("files", "write", Touch("reservation", "write"))

(* The RefMut of the entry lives over three changes of other maps.         *)
handle_bootstrap ==
  Within("pairings", "write",
         Touch("sessions", "write") \o Touch("tickets", "write") \o Touch("sessions", "write"))

(* The Ref of the session lives to the end.                                *)
authenticate_browser_session == Within("sessions", "read", Touch("pairings", "read"))

(* The other way round.                                                    *)
validate_pairing_ws == Within("pairings", "read", Touch("sessions", "read"))

(* The last two retains hold a shard while they ask for the pairing.       *)
cleanup_pairings ==
  Within("sessions", "write", Touch("pairings", "read"))
    \o Within("tickets", "write", Touch("pairings", "read"))

Steps ==
  [begin_upload |-> begin_upload,
   begin_notifying |-> begin_notifying,
   finalize_stream_success |-> finalize_stream_success,
   save_file_from_field |-> save_file_from_field,
   mark_streaming_done |-> mark_streaming_done,
   handle_bootstrap |-> handle_bootstrap,
   authenticate_browser_session |-> authenticate_browser_session,
   validate_pairing_ws |-> validate_pairing_ws,
   cleanup_pairings |-> cleanup_pairings]

Calls == DOMAIN Steps

-----------------------------------------------------------------------------
Init ==
  /\ call = [t \in Threads |-> "none"]
  /\ at = [t \in Threads |-> 0]
  /\ held = [t \in Threads |-> [lock \in Locks |-> "not"]]

NextStep(t) == Steps[call[t]][at[t] + 1]

Running(t) == call[t] # "none" /\ at[t] < Len(Steps[call[t]])

(* Readers share a lock; a writer has it alone.                            *)
Conflict(how, other) == how # "not" /\ other # "not" /\ "write" \in {how, other}

WaitsFor(t, u) ==
  /\ t # u
  /\ Running(t)
  /\ Conflict(NextStep(t).how, held[u][NextStep(t).lock])

Enter(t, c) ==
  /\ call[t] = "none"
  /\ call' = [call EXCEPT ![t] = c]
  /\ at' = [at EXCEPT ![t] = 0]
  /\ UNCHANGED held

Step(t) ==
  /\ Running(t)
  /\ \A u \in Threads : ~WaitsFor(t, u)
  /\ at' = [at EXCEPT ![t] = @ + 1]
  /\ held' = [held EXCEPT ![t][NextStep(t).lock] = NextStep(t).how]
  /\ UNCHANGED call

Return(t) ==
  /\ call[t] # "none"
  /\ ~Running(t)
  /\ call' = [call EXCEPT ![t] = "none"]
  /\ UNCHANGED <<at, held>>

Next == \E t \in Threads : Step(t) \/ Return(t) \/ \E c \in Calls : Enter(t, c)

Spec == Init /\ [][Next]_lockVars

-----------------------------------------------------------------------------
(* upload_store.rs:267 calls the store thread-safe: no threads wait for    *)
(* each other's locks in a circle, for then none of them ever returns, and *)
(* every later call that needs one of the locks stops as well.             *)
NoCircularWait ==
  ~ \E circle \in SUBSET Threads :
      circle # {} /\ \A t \in circle : \E u \in circle : WaitsFor(t, u)
=============================================================================
