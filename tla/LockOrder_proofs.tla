-------------------------- MODULE LockOrder_proofs --------------------------
(***************************************************************************)
(* Theorems about the locks of the server, for every number of worker      *)
(* threads: NoCircularWait does not hold, and these say of which calls     *)
(* every circle is made.                                                   *)
(***************************************************************************)
EXTENDS LockOrder, TLAPS

QuotaThenFileCalls ==
  {"begin_upload", "begin_notifying", "finalize_stream_success", "save_file_from_field"}

SessionThenPairingCalls == {"authenticate_browser_session", "cleanup_pairings"}

Circle(threads) ==
  threads # {} /\ \A t \in threads : \E u \in threads : WaitsFor(t, u)

(* Two pairs of calls are to blame for every circle.                       *)
CirclesExplained ==
  \A circle \in SUBSET Threads :
    Circle(circle) =>
      \E t, u \in circle :
        \/ call[t] = "mark_streaming_done" /\ call[u] \in QuotaThenFileCalls
        \/ call[t] = "handle_bootstrap" /\ call[u] \in SessionThenPairingCalls

-----------------------------------------------------------------------------
(* The steps of the calls, written out.                                    *)
How == {"not", "read", "write"}
LockStep == [act : {"take", "give"}, lock : Locks, how : How]

LEMMA StepTypes ==
  \A lock \in Locks, how \in How : Take(lock, how) \in LockStep /\ Give(lock) \in LockStep
BY DEF Take, Give, LockStep, How

LEMMA Surrounded ==
  ASSUME NEW lock \in Locks, NEW how \in How, NEW s \in Seq(LockStep)
  PROVE  /\ Within(lock, how, s) \in Seq(LockStep)
         /\ Len(Within(lock, how, s)) = Len(s) + 2
         /\ Within(lock, how, s)[1] = Take(lock, how)
         /\ \A i \in 2..Len(s) + 1 : Within(lock, how, s)[i] = s[i - 1]
         /\ Within(lock, how, s)[Len(s) + 2] = Give(lock)
<1> DEFINE a == Take(lock, how)
           b == Give(lock)
           w == <<a>> \o s \o <<b>>
<1>1. Within(lock, how, s) = w
  BY DEF Within
<1>2. a \in LockStep /\ b \in LockStep
  BY StepTypes
<1> HIDE DEF a, b
<1>3. /\ w \in Seq(LockStep)
      /\ Len(w) = Len(s) + 2
      /\ w[1] = a
      /\ \A i \in 2..Len(s) + 1 : w[i] = s[i - 1]
      /\ w[Len(s) + 2] = b
  BY <1>2
<1> HIDE DEF w
<1> QED
  BY <1>1, <1>3 DEF a, b

LEMMA Joined ==
  ASSUME NEW s \in Seq(LockStep), NEW r \in Seq(LockStep)
  PROVE  /\ s \o r \in Seq(LockStep)
         /\ Len(s \o r) = Len(s) + Len(r)
         /\ \A i \in 1..Len(s) : (s \o r)[i] = s[i]
         /\ \A i \in Len(s)+1..Len(s)+Len(r) : (s \o r)[i] = r[i - Len(s)]
OBVIOUS

LEMMA Touched ==
  ASSUME NEW lock \in Locks, NEW how \in How
  PROVE  /\ Touch(lock, how) \in Seq(LockStep)
         /\ Len(Touch(lock, how)) = 2
         /\ Touch(lock, how)[1] = Take(lock, how)
         /\ Touch(lock, how)[2] = Give(lock)
<1> DEFINE s == <<>>
           w == Within(lock, how, s)
<1>1. s \in Seq(LockStep) /\ Len(s) = 0
  OBVIOUS
<1>2. Touch(lock, how) = w
  BY DEF Touch
<1> HIDE DEF s
<1>3. /\ w \in Seq(LockStep)
      /\ Len(w) = Len(s) + 2
      /\ w[1] = Take(lock, how)
      /\ w[Len(s) + 2] = Give(lock)
  BY <1>1, Surrounded
<1> HIDE DEF w
<1> QED
  BY <1>1, <1>2, <1>3

(* s has the steps of one lock taken inside another.                       *)
TwoLocks(s, lock, how, inner, other) ==
  /\ s \in Seq(LockStep)
  /\ Len(s) = 4
  /\ s[1] = Take(lock, how)
  /\ s[2] = Take(inner, other)
  /\ s[3] = Give(inner)
  /\ s[4] = Give(lock)

LEMMA Nested ==
  ASSUME NEW lock \in Locks, NEW how \in How, NEW inner \in Locks, NEW other \in How
  PROVE  TwoLocks(Within(lock, how, Touch(inner, other)), lock, how, inner, other)
<1> DEFINE s == Touch(inner, other)
<1>1. s \in Seq(LockStep) /\ Len(s) = 2 /\ s[1] = Take(inner, other) /\ s[2] = Give(inner)
  BY Touched
<1> HIDE DEF s
<1> DEFINE w == Within(lock, how, s)
<1>0. /\ w \in Seq(LockStep)
      /\ Len(w) = Len(s) + 2
      /\ w[1] = Take(lock, how)
      /\ \A i \in 2..Len(s) + 1 : w[i] = s[i - 1]
      /\ w[Len(s) + 2] = Give(lock)
  BY <1>1, Surrounded
<1> HIDE DEF w
<1>2. /\ w \in Seq(LockStep)
      /\ Len(w) = 4
      /\ w[1] = Take(lock, how)
      /\ w[2] = s[1]
      /\ w[3] = s[2]
      /\ w[4] = Give(lock)
  BY <1>1, <1>0
<1>3. TwoLocks(w, lock, how, inner, other)
  BY <1>1, <1>2 DEF TwoLocks
<1> QED
  BY <1>3 DEF w, s

LEMMA HandleBootstrapSteps ==
  /\ handle_bootstrap \in Seq(LockStep)
  /\ Len(handle_bootstrap) = 8
  /\ handle_bootstrap[1] = Take("pairings", "write")
  /\ handle_bootstrap[2] = Take("sessions", "write")
  /\ handle_bootstrap[3] = Give("sessions")
  /\ handle_bootstrap[4] = Take("tickets", "write")
  /\ handle_bootstrap[5] = Give("tickets")
  /\ handle_bootstrap[6] = Take("sessions", "write")
  /\ handle_bootstrap[7] = Give("sessions")
  /\ handle_bootstrap[8] = Give("pairings")
<1> DEFINE p == Touch("sessions", "write")
           q == Touch("tickets", "write")
<1>1. /\ p \in Seq(LockStep) /\ Len(p) = 2
      /\ p[1] = Take("sessions", "write") /\ p[2] = Give("sessions")
  BY Touched DEF Locks, How
<1>2. /\ q \in Seq(LockStep) /\ Len(q) = 2
      /\ q[1] = Take("tickets", "write") /\ q[2] = Give("tickets")
  BY Touched DEF Locks, How
<1> HIDE DEF p, q
<1> DEFINE s == p \o q \o p
<1>3. /\ s \in Seq(LockStep) /\ Len(s) = 6
      /\ s[1] = p[1] /\ s[2] = p[2] /\ s[3] = q[1] /\ s[4] = q[2] /\ s[5] = p[1] /\ s[6] = p[2]
  <2> DEFINE u == q \o p
  <2>1. /\ u \in Seq(LockStep)
        /\ Len(u) = Len(q) + Len(p)
        /\ \A i \in 1..Len(q) : u[i] = q[i]
        /\ \A i \in Len(q)+1..Len(q)+Len(p) : u[i] = p[i - Len(q)]
    BY <1>1, <1>2, Joined
  <2>2. s = p \o u
    BY <1>1, <1>2
  <2> HIDE DEF u, s
  <2>3. /\ u \in Seq(LockStep) /\ Len(u) = 4
        /\ u[1] = q[1] /\ u[2] = q[2] /\ u[3] = p[1] /\ u[4] = p[2]
    BY <1>1, <1>2, <2>1
  <2>4. /\ s \in Seq(LockStep)
        /\ Len(s) = Len(p) + Len(u)
        /\ \A i \in 1..Len(p) : s[i] = p[i]
        /\ \A i \in Len(p)+1..Len(p)+Len(u) : s[i] = u[i - Len(p)]
    BY <1>1, <2>2, <2>3, Joined
  <2> QED
    BY <1>1, <2>3, <2>4
<1> HIDE DEF s
<1> DEFINE w == Within("pairings", "write", s)
<1>0. /\ w \in Seq(LockStep)
      /\ Len(w) = Len(s) + 2
      /\ w[1] = Take("pairings", "write")
      /\ \A i \in 2..Len(s) + 1 : w[i] = s[i - 1]
      /\ w[Len(s) + 2] = Give("pairings")
  BY <1>3, Surrounded DEF Locks, How
<1>5. handle_bootstrap = w
  BY DEF handle_bootstrap, s, p, q
<1> HIDE DEF w
<1>4. /\ w \in Seq(LockStep) /\ Len(w) = 8
      /\ w[1] = Take("pairings", "write")
      /\ w[2] = s[1] /\ w[3] = s[2] /\ w[4] = s[3]
      /\ w[5] = s[4] /\ w[6] = s[5] /\ w[7] = s[6]
      /\ w[8] = Give("pairings")
  BY <1>3, <1>0
<1> QED
  BY <1>1, <1>2, <1>3, <1>4, <1>5

LEMMA CleanupSteps ==
  /\ cleanup_pairings \in Seq(LockStep)
  /\ Len(cleanup_pairings) = 8
  /\ cleanup_pairings[1] = Take("sessions", "write")
  /\ cleanup_pairings[2] = Take("pairings", "read")
  /\ cleanup_pairings[3] = Give("pairings")
  /\ cleanup_pairings[4] = Give("sessions")
  /\ cleanup_pairings[5] = Take("tickets", "write")
  /\ cleanup_pairings[6] = Take("pairings", "read")
  /\ cleanup_pairings[7] = Give("pairings")
  /\ cleanup_pairings[8] = Give("tickets")
<1> DEFINE p == Within("sessions", "write", Touch("pairings", "read"))
           q == Within("tickets", "write", Touch("pairings", "read"))
<1>1. TwoLocks(p, "sessions", "write", "pairings", "read")
  BY Nested DEF Locks, How
<1>2. TwoLocks(q, "tickets", "write", "pairings", "read")
  BY Nested DEF Locks, How
<1> DEFINE s == p \o q
<1>3. cleanup_pairings = s
  BY DEF cleanup_pairings
<1> HIDE DEF p, q
<1>4. p \in Seq(LockStep) /\ Len(p) = 4 /\ q \in Seq(LockStep) /\ Len(q) = 4
  BY <1>1, <1>2 DEF TwoLocks
<1>5. /\ s \in Seq(LockStep)
      /\ Len(s) = Len(p) + Len(q)
      /\ \A i \in 1..Len(p) : s[i] = p[i]
      /\ \A i \in Len(p)+1..Len(p)+Len(q) : s[i] = q[i - Len(p)]
  BY <1>4, Joined
<1> HIDE DEF s
<1>6. /\ s \in Seq(LockStep) /\ Len(s) = 8
      /\ s[1] = p[1] /\ s[2] = p[2] /\ s[3] = p[3] /\ s[4] = p[4]
      /\ s[5] = q[1] /\ s[6] = q[2] /\ s[7] = q[3] /\ s[8] = q[4]
  BY <1>4, <1>5
<1> QED
  BY <1>1, <1>2, <1>3, <1>6 DEF TwoLocks

LEMMA StepsOf ==
  /\ Calls = QuotaThenFileCalls \cup SessionThenPairingCalls
               \cup {"mark_streaming_done", "handle_bootstrap", "validate_pairing_ws"}
  /\ \A c \in QuotaThenFileCalls : TwoLocks(Steps[c], "reservation", "write", "files", "write")
  /\ TwoLocks(Steps["mark_streaming_done"], "files", "write", "reservation", "write")
  /\ TwoLocks(Steps["authenticate_browser_session"], "sessions", "read", "pairings", "read")
  /\ TwoLocks(Steps["validate_pairing_ws"], "pairings", "read", "sessions", "read")
  /\ Steps["handle_bootstrap"] = handle_bootstrap
  /\ Steps["cleanup_pairings"] = cleanup_pairings
<1>1. /\ TwoLocks(QuotaThenFile, "reservation", "write", "files", "write")
      /\ TwoLocks(mark_streaming_done, "files", "write", "reservation", "write")
      /\ TwoLocks(authenticate_browser_session, "sessions", "read", "pairings", "read")
      /\ TwoLocks(validate_pairing_ws, "pairings", "read", "sessions", "read")
  BY Nested
  DEF QuotaThenFile, mark_streaming_done, authenticate_browser_session, validate_pairing_ws,
      Locks, How
<1>2. /\ Calls = QuotaThenFileCalls \cup SessionThenPairingCalls
                   \cup {"mark_streaming_done", "handle_bootstrap", "validate_pairing_ws"}
      /\ \A c \in QuotaThenFileCalls : Steps[c] = QuotaThenFile
  BY DEF Calls, Steps, QuotaThenFileCalls, SessionThenPairingCalls, begin_upload,
         begin_notifying, finalize_stream_success, save_file_from_field
<1>3. /\ Steps["mark_streaming_done"] = mark_streaming_done
      /\ Steps["authenticate_browser_session"] = authenticate_browser_session
      /\ Steps["validate_pairing_ws"] = validate_pairing_ws
      /\ Steps["handle_bootstrap"] = handle_bootstrap
      /\ Steps["cleanup_pairings"] = cleanup_pairings
  BY DEF Steps
<1> QED
  BY <1>1, <1>2, <1>3

-----------------------------------------------------------------------------
(* A call's last step on a lock says how it holds it.                      *)
HeldBy(c, n, lock, how) ==
  \E k \in 1..n :
    /\ Steps[c][k].lock = lock
    /\ Steps[c][k].how = how
    /\ \A j \in k+1..n : Steps[c][j].lock # lock

HeldInv ==
  /\ call \in [Threads -> Calls \cup {"none"}]
  /\ at \in [Threads -> Nat]
  /\ held \in [Threads -> [Locks -> How]]
  /\ \A t \in Threads :
       IF call[t] = "none"
         THEN \A lock \in Locks : held[t][lock] = "not"
         ELSE /\ at[t] <= Len(Steps[call[t]])
              /\ \A lock \in Locks :
                   held[t][lock] # "not" => HeldBy(call[t], at[t], lock, held[t][lock])

(* Every call is a sequence of steps on locks.                             *)
LEMMA StepsAreLockSteps == \A c \in Calls : Steps[c] \in Seq(LockStep)
BY StepsOf, HandleBootstrapSteps, CleanupSteps DEF TwoLocks, SessionThenPairingCalls

LEMMA BootstrapTable ==
  /\ Steps["handle_bootstrap"] = handle_bootstrap
  /\ Len(handle_bootstrap) = 8
  /\ handle_bootstrap[1].lock = "pairings" /\ handle_bootstrap[1].how = "write"
  /\ handle_bootstrap[2].lock = "sessions" /\ handle_bootstrap[2].how = "write"
  /\ handle_bootstrap[3].lock = "sessions" /\ handle_bootstrap[3].how = "not"
  /\ handle_bootstrap[4].lock = "tickets" /\ handle_bootstrap[4].how = "write"
  /\ handle_bootstrap[5].lock = "tickets" /\ handle_bootstrap[5].how = "not"
  /\ handle_bootstrap[6].lock = "sessions" /\ handle_bootstrap[6].how = "write"
  /\ handle_bootstrap[7].lock = "sessions" /\ handle_bootstrap[7].how = "not"
  /\ handle_bootstrap[8].lock = "pairings" /\ handle_bootstrap[8].how = "not"
BY HandleBootstrapSteps, StepsOf DEF Take, Give

LEMMA CleanupTable ==
  /\ Steps["cleanup_pairings"] = cleanup_pairings
  /\ Len(cleanup_pairings) = 8
  /\ cleanup_pairings[1].lock = "sessions" /\ cleanup_pairings[1].how = "write"
  /\ cleanup_pairings[2].lock = "pairings" /\ cleanup_pairings[2].how = "read"
  /\ cleanup_pairings[3].lock = "pairings" /\ cleanup_pairings[3].how = "not"
  /\ cleanup_pairings[4].lock = "sessions" /\ cleanup_pairings[4].how = "not"
  /\ cleanup_pairings[5].lock = "tickets" /\ cleanup_pairings[5].how = "write"
  /\ cleanup_pairings[6].lock = "pairings" /\ cleanup_pairings[6].how = "read"
  /\ cleanup_pairings[7].lock = "pairings" /\ cleanup_pairings[7].how = "not"
  /\ cleanup_pairings[8].lock = "tickets" /\ cleanup_pairings[8].how = "not"
BY CleanupSteps, StepsOf DEF Take, Give

LEMMA NothingNone == "none" \notin Calls
BY DEF Calls, Steps

(* A call that has done its last step holds nothing.                       *)
LEMMA AllGivenBack ==
  ASSUME NEW c \in Calls, NEW lock \in Locks, NEW how \in How,
         HeldBy(c, Len(Steps[c]), lock, how)
  PROVE  how = "not"
<1> USE DEF Take, Give
<1>1. ASSUME NEW a \in Locks, NEW h, NEW b \in Locks, NEW g, TwoLocks(Steps[c], a, h, b, g)
      PROVE  how = "not"
  BY <1>1 DEF HeldBy, TwoLocks
<1>2. CASE c = "handle_bootstrap"
  <2>1. PICK k \in 1..8 : /\ handle_bootstrap[k].lock = lock /\ handle_bootstrap[k].how = how
                         /\ \A j \in k+1..8 : handle_bootstrap[j].lock # lock
    BY <1>2, BootstrapTable DEF HeldBy
  <2>2. CASE k \in {1, 2, 4, 6}
    BY <2>1, <2>2, BootstrapTable
  <2> QED
    BY <2>1, <2>2, BootstrapTable
<1>3. CASE c = "cleanup_pairings"
  <2>1. PICK k \in 1..8 : /\ cleanup_pairings[k].lock = lock /\ cleanup_pairings[k].how = how
                         /\ \A j \in k+1..8 : cleanup_pairings[j].lock # lock
    BY <1>3, CleanupTable DEF HeldBy
  <2>2. CASE k \in {1, 2, 5, 6}
    BY <2>1, <2>2, CleanupTable
  <2> QED
    BY <2>1, <2>2, CleanupTable
<1> QED
  BY <1>1, <1>2, <1>3, StepsOf DEF SessionThenPairingCalls, Locks

LEMMA NextStepType ==
  ASSUME HeldInv, NEW t \in Threads, Running(t)
  PROVE  /\ call[t] \in Calls
         /\ at[t] \in Nat /\ at[t] + 1 \in 1..Len(Steps[call[t]])
         /\ NextStep(t) = Steps[call[t]][at[t] + 1]
         /\ NextStep(t) \in LockStep
<1>1. call[t] \in Calls /\ at[t] \in Nat /\ at[t] < Len(Steps[call[t]])
  BY DEF HeldInv, Running
<1>2. Steps[call[t]] \in Seq(LockStep)
  BY <1>1, StepsAreLockSteps
<1>3. at[t] + 1 \in 1..Len(Steps[call[t]])
  BY <1>1, <1>2
<1> QED
  BY <1>1, <1>2, <1>3 DEF NextStep

LEMMA HeldOn ==
  ASSUME NEW c, NEW n \in Nat, NEW lock, NEW how,
         HeldBy(c, n, lock, how), Steps[c][n + 1].lock # lock
  PROVE  HeldBy(c, n + 1, lock, how)
<1>1. PICK k \in 1..n : /\ Steps[c][k].lock = lock /\ Steps[c][k].how = how
                        /\ \A j \in k+1..n : Steps[c][j].lock # lock
  BY DEF HeldBy
<1>2. k \in 1..n+1 /\ \A j \in k+1..n+1 : j \in k+1..n \/ j = n + 1
  OBVIOUS
<1> QED
  BY <1>1, <1>2 DEF HeldBy

LEMMA HeldInit == Init => HeldInv
BY DEF Init, HeldInv, How

LEMMA HeldAfterStep ==
  ASSUME HeldInv, NEW t \in Threads, Step(t)
  PROVE  HeldInv'
<1> DEFINE c == call[t]
           n == at[t]
           s == NextStep(t)
<1>1. /\ c \in Calls /\ n \in Nat /\ n + 1 \in 1..Len(Steps[c])
      /\ s = Steps[c][n + 1] /\ s \in LockStep
  BY NextStepType DEF Step
<1>2. s.lock \in Locks /\ s.how \in How
  BY <1>1 DEF LockStep
<1>3. call' = call /\ at' = [at EXCEPT ![t] = n + 1] /\ held' = [held EXCEPT ![t][s.lock] = s.how]
  BY DEF Step
<1>4. ASSUME NEW lock \in Locks, held'[t][lock] # "not"
      PROVE  HeldBy(c, n + 1, lock, held'[t][lock])
  <2>1. CASE lock = s.lock
    <3>1. held'[t][lock] = s.how
      BY <1>2, <1>3, <2>1 DEF HeldInv
    <3> QED
      BY <1>1, <2>1, <3>1 DEF HeldBy
  <2>2. CASE lock # s.lock
    <3>1. held'[t][lock] = held[t][lock]
      BY <1>2, <1>3, <2>2 DEF HeldInv
    <3>2. HeldBy(c, n, lock, held[t][lock])
      BY <1>1, <1>4, <3>1, NothingNone DEF HeldInv
    <3> QED
      BY <1>1, <2>2, <3>1, <3>2, HeldOn
  <2> QED
    BY <2>1, <2>2
<1>5. n + 1 <= Len(Steps[c]) /\ c # "none"
  BY <1>1, NothingNone
<1> HIDE DEF s
<1>6. /\ at' \in [Threads -> Nat]
      /\ held' \in [Threads -> [Locks -> How]]
  BY <1>1, <1>2, <1>3 DEF HeldInv
<1>7. ASSUME NEW u \in Threads, u # t
      PROVE  call'[u] = call[u] /\ at'[u] = at[u] /\ held'[u] = held[u]
  BY <1>3, <1>7 DEF HeldInv
<1>8. at'[t] = n + 1 /\ call'[t] = c
  BY <1>3 DEF HeldInv
<1>9. ASSUME NEW u \in Threads
      PROVE  IF call'[u] = "none"
               THEN \A lock \in Locks : held'[u][lock] = "not"
               ELSE /\ at'[u] <= Len(Steps[call'[u]])
                    /\ \A lock \in Locks :
                         held'[u][lock] # "not" => HeldBy(call'[u], at'[u], lock, held'[u][lock])
  <2>1. CASE u = t
    BY <1>4, <1>5, <1>8, <2>1
  <2>2. CASE u # t
    BY <1>7, <2>2 DEF HeldInv
  <2> QED
    BY <2>1, <2>2
<1> QED
  BY <1>3, <1>6, <1>9 DEF HeldInv

LEMMA HeldAfterEnter ==
  ASSUME HeldInv, NEW t \in Threads, NEW c \in Calls, Enter(t, c)
  PROVE  HeldInv'
<1>1. /\ call[t] = "none" /\ call' = [call EXCEPT ![t] = c]
      /\ at' = [at EXCEPT ![t] = 0] /\ held' = held
  BY DEF Enter
<1>2. 0 <= Len(Steps[c])
  BY StepsAreLockSteps
<1>3. call' \in [Threads -> Calls \cup {"none"}] /\ at' \in [Threads -> Nat]
  BY <1>1 DEF HeldInv
<1>4. ASSUME NEW u \in Threads
      PROVE  IF call'[u] = "none"
               THEN \A lock \in Locks : held'[u][lock] = "not"
               ELSE /\ at'[u] <= Len(Steps[call'[u]])
                    /\ \A lock \in Locks :
                         held'[u][lock] # "not" => HeldBy(call'[u], at'[u], lock, held'[u][lock])
  <2>1. CASE u = t
    BY <1>1, <1>2, <2>1 DEF HeldInv
  <2>2. CASE u # t
    <3>1. call'[u] = call[u] /\ at'[u] = at[u] /\ held'[u] = held[u]
      BY <1>1, <2>2 DEF HeldInv
    <3> QED
      BY <3>1 DEF HeldInv
  <2> QED
    BY <2>1, <2>2
<1> QED
  BY <1>1, <1>3, <1>4 DEF HeldInv

LEMMA HeldAfterReturn ==
  ASSUME HeldInv, NEW t \in Threads, Return(t)
  PROVE  HeldInv'
<1>1. /\ call[t] # "none" /\ ~Running(t) /\ call' = [call EXCEPT ![t] = "none"]
      /\ at' = at /\ held' = held
  BY DEF Return
<1>2. call[t] \in Calls /\ at[t] \in Nat /\ at[t] <= Len(Steps[call[t]])
  BY <1>1 DEF HeldInv
<1>3. at[t] = Len(Steps[call[t]])
  <2>1. Len(Steps[call[t]]) \in Nat
    BY <1>2, StepsAreLockSteps
  <2> QED
    BY <1>1, <1>2, <2>1 DEF Running
<1>4. ASSUME NEW lock \in Locks PROVE held[t][lock] = "not"
  <2>1. held[t][lock] \in How
    BY DEF HeldInv
  <2>2. held[t][lock] # "not" => HeldBy(call[t], at[t], lock, held[t][lock])
    BY <1>1 DEF HeldInv
  <2> QED
    BY <1>2, <1>3, <2>1, <2>2, AllGivenBack
<1>5. call' \in [Threads -> Calls \cup {"none"}]
  BY <1>1 DEF HeldInv
<1>6. ASSUME NEW u \in Threads
      PROVE  IF call'[u] = "none"
               THEN \A lock \in Locks : held'[u][lock] = "not"
               ELSE /\ at'[u] <= Len(Steps[call'[u]])
                    /\ \A lock \in Locks :
                         held'[u][lock] # "not" => HeldBy(call'[u], at'[u], lock, held'[u][lock])
  <2>1. CASE u = t
    BY <1>1, <1>4, <2>1 DEF HeldInv
  <2>2. CASE u # t
    <3>1. call'[u] = call[u] /\ at'[u] = at[u] /\ held'[u] = held[u]
      BY <1>1, <2>2 DEF HeldInv
    <3> QED
      BY <3>1 DEF HeldInv
  <2> QED
    BY <2>1, <2>2
<1> QED
  BY <1>1, <1>5, <1>6 DEF HeldInv

LEMMA HeldKept == HeldInv /\ [Next]_lockVars => HeldInv'
<1> SUFFICES ASSUME HeldInv, [Next]_lockVars PROVE HeldInv'
  OBVIOUS
<1>1. CASE Next
  BY <1>1, HeldAfterStep, HeldAfterEnter, HeldAfterReturn DEF Next
<1>2. CASE UNCHANGED lockVars
  BY <1>2 DEF lockVars, HeldInv
<1> QED
  BY <1>1, <1>2

-----------------------------------------------------------------------------
(* What a thread that asks for a lock holds already, call by call.         *)
Holding(t, lock) ==
  \/ /\ call[t] \in QuotaThenFileCalls
     /\ lock = "reservation" /\ NextStep(t).lock = "files"
  \/ /\ call[t] = "mark_streaming_done"
     /\ lock = "files" /\ NextStep(t).lock = "reservation"
  \/ /\ call[t] = "handle_bootstrap"
     /\ lock = "pairings" /\ NextStep(t).lock \in {"sessions", "tickets"}
  \/ /\ call[t] = "authenticate_browser_session"
     /\ lock = "sessions" /\ held[t][lock] = "read"
     /\ NextStep(t).lock = "pairings" /\ NextStep(t).how = "read"
  \/ /\ call[t] = "cleanup_pairings"
     /\ lock \in {"sessions", "tickets"}
     /\ NextStep(t).lock = "pairings" /\ NextStep(t).how = "read"
  \/ /\ call[t] = "validate_pairing_ws"
     /\ lock = "pairings" /\ held[t][lock] = "read"
     /\ NextStep(t).lock = "sessions" /\ NextStep(t).how = "read"

LEMMA WhatIsHeld ==
  ASSUME HeldInv, NEW t \in Threads, Running(t), NextStep(t).how # "not",
         NEW lock \in Locks, held[t][lock] # "not"
  PROVE  Holding(t, lock)
<1> USE DEF Take, Give
<1> DEFINE c == call[t]
           n == at[t]
           how == held[t][lock]
<1>1. /\ c \in Calls /\ n \in Nat /\ n + 1 \in 1..Len(Steps[c])
      /\ NextStep(t) = Steps[c][n + 1]
  BY NextStepType
<1>2. HeldBy(c, n, lock, how)
  BY DEF HeldInv, Running
<1> HIDE DEF c, n, how
<1>3. ASSUME NEW a \in Locks, NEW h, NEW b \in Locks, NEW g, TwoLocks(Steps[c], a, h, b, g)
      PROVE  lock = a /\ how = h /\ NextStep(t).lock = b /\ NextStep(t).how = g
  <2>1. n \in {0, 1, 2, 3} /\ Len(Steps[c]) = 4
    BY <1>1, <1>3 DEF TwoLocks
  <2>2. n # 0
    BY <1>2 DEF HeldBy
  <2>3. n # 2 /\ n # 3
    BY <1>1, <1>3 DEF TwoLocks
  <2>4. n = 1
    BY <2>1, <2>2, <2>3
  <2> QED
    BY <1>1, <1>2, <1>3, <2>4 DEF HeldBy, TwoLocks
<1>4. CASE c = "handle_bootstrap"
  <2>1. n + 1 \in 1..8 /\ NextStep(t) = handle_bootstrap[n + 1]
    BY <1>1, <1>4, BootstrapTable
  <2>2. PICK k \in 1..n : /\ handle_bootstrap[k].lock = lock /\ handle_bootstrap[k].how # "not"
                         /\ \A j \in k+1..n : handle_bootstrap[j].lock # lock
    BY <1>2, <1>4, BootstrapTable DEF HeldBy, how
  <2>3. /\ n \in Nat /\ k \in Nat /\ 1 <= k /\ k <= n
        /\ handle_bootstrap[k].lock = lock /\ handle_bootstrap[k].how # "not"
    BY <1>1, <2>2
  <2>4. /\ k < 2 /\ 2 <= n => handle_bootstrap[2].lock # lock
        /\ k < 3 /\ 3 <= n => handle_bootstrap[3].lock # lock
        /\ k < 4 /\ 4 <= n => handle_bootstrap[4].lock # lock
        /\ k < 5 /\ 5 <= n => handle_bootstrap[5].lock # lock
    BY <2>2, <2>3
  <2>5. n + 1 \notin {3, 5, 7, 8}
    BY <2>1, BootstrapTable
  <2>6. n + 1 \in {2, 4, 6}
    BY <2>1, <2>3, <2>5
  <2>7. NextStep(t).lock \in {"sessions", "tickets"}
    BY <2>1, <2>6, BootstrapTable
  <2>8. k \in {1, 2, 3, 4, 5}
    BY <2>3, <2>6
  <2>9. lock = "pairings"
    BY <2>3, <2>4, <2>6, <2>8, BootstrapTable
  <2> QED
    BY <1>4, <2>7, <2>9 DEF Holding, c
<1>5. CASE c = "cleanup_pairings"
  <2>1. n + 1 \in 1..8 /\ NextStep(t) = cleanup_pairings[n + 1]
    BY <1>1, <1>5, CleanupTable
  <2>2. PICK k \in 1..n : /\ cleanup_pairings[k].lock = lock /\ cleanup_pairings[k].how # "not"
                         /\ \A j \in k+1..n : cleanup_pairings[j].lock # lock
    BY <1>2, <1>5, CleanupTable DEF HeldBy, how
  <2>3. /\ n \in Nat /\ k \in Nat /\ 1 <= k /\ k <= n
        /\ cleanup_pairings[k].lock = lock /\ cleanup_pairings[k].how # "not"
    BY <1>1, <2>2
  <2>4. /\ k < 2 /\ 2 <= n => cleanup_pairings[2].lock # lock
        /\ k < 3 /\ 3 <= n => cleanup_pairings[3].lock # lock
        /\ k < 4 /\ 4 <= n => cleanup_pairings[4].lock # lock
        /\ k < 5 /\ 5 <= n => cleanup_pairings[5].lock # lock
    BY <2>2, <2>3
  <2>5. n + 1 \notin {3, 4, 7, 8}
    BY <2>1, CleanupTable
  <2>6. n + 1 \in {2, 5, 6}
    BY <2>1, <2>3, <2>5
  <2>7. k \in {1, 2, 3, 4, 5}
    BY <2>3, <2>6
  <2>8. n # 4
    BY <2>3, <2>4, <2>7, CleanupTable
  <2>9. lock \in {"sessions", "tickets"}
    BY <2>3, <2>4, <2>6, <2>7, <2>8, CleanupTable
  <2>10. NextStep(t).lock = "pairings" /\ NextStep(t).how = "read"
    BY <2>1, <2>3, <2>6, <2>8, CleanupTable
  <2> QED
    BY <1>5, <2>9, <2>10 DEF Holding, c
<1>6. CASE c \in QuotaThenFileCalls
  BY <1>3, <1>6, StepsOf DEF Holding, Locks, c, how
<1>7. CASE c = "mark_streaming_done"
  BY <1>3, <1>7, StepsOf DEF Holding, Locks, c, how
<1>8. CASE c = "authenticate_browser_session"
  BY <1>3, <1>8, StepsOf DEF Holding, Locks, c, how
<1>9. CASE c = "validate_pairing_ws"
  BY <1>3, <1>9, StepsOf DEF Holding, Locks, c, how
<1> QED
  BY <1>1, <1>4, <1>5, <1>6, <1>7, <1>8, <1>9, StepsOf DEF SessionThenPairingCalls

LEMMA CircleExplained ==
  ASSUME HeldInv, NEW circle \in SUBSET Threads, Circle(circle)
  PROVE  \E t, u \in circle :
           \/ call[t] = "mark_streaming_done" /\ call[u] \in QuotaThenFileCalls
           \/ call[t] = "handle_bootstrap" /\ call[u] \in SessionThenPairingCalls
<1>1. ASSUME NEW t \in circle
      PROVE  \E u \in circle :
               /\ Conflict(NextStep(t).how, held[u][NextStep(t).lock])
               /\ Holding(u, NextStep(t).lock)
  <2>1. PICK u \in circle : WaitsFor(t, u)
    BY DEF Circle
  <2>2. Running(t) /\ Conflict(NextStep(t).how, held[u][NextStep(t).lock])
    BY <2>1 DEF WaitsFor
  <2>3. NextStep(t).lock \in Locks
    BY <2>2, NextStepType DEF LockStep
  <2>4. Running(u) /\ NextStep(u).how # "not"
    BY DEF Circle, WaitsFor, Conflict
  <2>5. Holding(u, NextStep(t).lock)
    BY <2>2, <2>3, <2>4, WhatIsHeld DEF Conflict
  <2> QED
    BY <2>2, <2>5
<1>2. PICK t \in circle : \E lock : Holding(t, lock)
  BY <1>1 DEF Circle
<1>3. PICK u \in circle : /\ Conflict(NextStep(t).how, held[u][NextStep(t).lock])
                         /\ Holding(u, NextStep(t).lock)
  BY <1>1
<1>4. PICK v \in circle : /\ Conflict(NextStep(u).how, held[v][NextStep(u).lock])
                         /\ Holding(v, NextStep(u).lock)
  BY <1>1
<1>5. CASE call[t] \in QuotaThenFileCalls \/ call[t] = "mark_streaming_done"
  BY <1>2, <1>3, <1>5 DEF Holding, QuotaThenFileCalls
<1>6. CASE call[t] \in SessionThenPairingCalls \/ call[t] = "handle_bootstrap"
  BY <1>2, <1>3, <1>6 DEF Holding, Conflict, QuotaThenFileCalls, SessionThenPairingCalls
<1>7. CASE call[t] = "validate_pairing_ws"
  <2>1. call[u] = "cleanup_pairings"
    BY <1>2, <1>3, <1>7 DEF Holding, Conflict, QuotaThenFileCalls
  <2>2. call[v] = "handle_bootstrap"
    BY <1>3, <1>4, <2>1 DEF Holding, Conflict, QuotaThenFileCalls
  <2> QED
    BY <2>1, <2>2 DEF SessionThenPairingCalls
<1> QED
  BY <1>2, <1>5, <1>6, <1>7 DEF Holding, SessionThenPairingCalls

(* Whatever the number of threads, a circle is there only if one of its    *)
(* threads is in mark_streaming_done and one in a call that takes the      *)
(* quota's lock first (upload_store.rs:878, 757), or one in                *)
(* handle_bootstrap and one in a call that asks for the pairing while it   *)
(* holds a shard of the sessions or tickets (web.rs:511, 2222,             *)
(* pairing.rs:349).  Calls other than mark_streaming_done and              *)
(* handle_bootstrap never block each other for ever.                       *)
THEOREM CirclesAreExplained == Spec => []CirclesExplained
<1>1. HeldInv => CirclesExplained
  BY CircleExplained DEF CirclesExplained
<1> QED
  BY <1>1, HeldInit, HeldKept, PTL DEF Spec
=============================================================================
