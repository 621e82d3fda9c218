---------------------------- MODULE Access_proofs ----------------------------
(***************************************************************************)
(* What comes in lockdown does nothing, and every verdict is about the      *)
(* token of its time, for every number of requests, tokens and attempts.    *)
(* First Sessions by itself: a session that is over stays over, and one that *)
(* is not is accepted.  The steps of Access are steps of Sessions, so that   *)
(* the invariant proved there is kept by all of them.                        *)
(***************************************************************************)
EXTENDS Access, TLAPS

-----------------------------------------------------------------------------
(* Sessions *)

THEOREM InitIInv == Init => IInv
BY SessionsAssumption
   DEF Init, IInv, TypeOK, NotAfterEnd, LiveKept, Has, Alive, Expired

\* A look may only delete a session that is over, and finds it only if it is not.
LEMMA LookSafe ==
  ASSUME IInv, NEW p \in Procs, pc[p] # "idle", NEW found, NEW missing,
         found \in Answered \cup {"authorize", "handle"},
         missing \in {"handle", "refused", "public"},
         Look(p, found, missing),
         UNCHANGED <<drawn, over, now, reaper, req, requests, crashes>>
  PROVE  IInv'
<1> DEFINE i == req[p].id
<1>1. /\ i \in Ids /\ pc' = [pc EXCEPT ![p] = IF Alive(i) THEN found ELSE missing]
      /\ sessions' \in [Ids -> Nat]
  BY DEF Look, IInv, TypeOK, Request
<1>2. TypeOK'
  BY <1>1 DEF IInv, TypeOK, Answered
<1>3. /\ \A j \in Ids : sessions'[j] = sessions[j] \/ (j = i /\ ~Alive(i) /\ sessions'[j] = 0)
  BY DEF Look, IInv, TypeOK, Alive
<1>4. \A j \in Ids : (Has(j)' => Has(j)) /\ (Alive(j)' <=> Alive(j))
  BY <1>3 DEF Has, Alive, Expired, IInv, TypeOK
<1>5. NotAfterEnd'
  <2> SUFFICES ASSUME NEW q \in Procs, pc'[q] \in {"changed", "full"}
               PROVE  ~req[q].late
    BY DEF NotAfterEnd
  <2>1. CASE q # p
    BY <2>1, <1>1 DEF IInv, TypeOK, NotAfterEnd
  <2>2. CASE q = p
    <3>1. Alive(i)
      BY <2>2, <1>1 DEF IInv, TypeOK
    <3> QED
      BY <2>2, <3>1 DEF IInv
  <2> QED
    BY <2>1, <2>2
<1>6. LiveKept'
  BY <1>4 DEF LiveKept, IInv, TypeOK
<1>7. /\ \A j \in Ids : Has(j)' => j \in drawn
      /\ \A j \in over : ~Alive(j)'
  BY <1>4 DEF IInv, TypeOK
<1>8. \A q \in Procs :
        pc'[q] # "idle" => req[q].id \in drawn /\ (req[q].late => req[q].id \in over)
  BY <1>1 DEF IInv, TypeOK
<1> QED
  BY <1>2, <1>5, <1>6, <1>7, <1>8 DEF IInv

THEOREM NextIInv == IInv /\ [Next]_vars => IInv'
<1> SUFFICES ASSUME IInv, [Next]_vars PROVE IInv'
  OBVIOUS
<1> USE SessionsAssumption
<1>1. ASSUME NEW i \in Ids, Login(i) PROVE IInv'
  BY <1>1 DEF Login, IInv, TypeOK, NotAfterEnd, LiveKept, Has, Alive, Expired
<1>2. ASSUME NEW i \in Ids, Logout(i) PROVE IInv'
  BY <1>2 DEF Logout, IInv, TypeOK, NotAfterEnd, LiveKept, Has, Alive, Expired
<1>3. CASE Tick
  BY <1>3 DEF Tick, IInv, TypeOK, NotAfterEnd, LiveKept, Has, Alive, Expired
<1>4. CASE ReapTick
  BY <1>4 DEF ReapTick, IInv, TypeOK, NotAfterEnd, LiveKept, Has, Alive, Expired
<1>5. CASE Reap
  BY <1>5 DEF Reap, IInv, TypeOK, NotAfterEnd, LiveKept, Has, Alive, Expired
<1>6. CASE Crash
  BY <1>6 DEF Crash, IInv, TypeOK, NotAfterEnd, LiveKept, Has, Alive, Expired
<1>7. ASSUME NEW p \in Procs, Arrive(p) PROVE IInv'
  <2>1. PICK i \in drawn, k \in {"list", "change"}, c \in BOOLEAN :
          /\ req' = [req EXCEPT ![p] = [id |-> i, kind |-> k, csrf |-> c, late |-> i \in over]]
          /\ pc' = [pc EXCEPT ![p] = IF k = "list" THEN "creds" ELSE "authorize"]
    BY <1>7 DEF Arrive
  <2> DEFINE l == i \in over
             r == [id |-> i, kind |-> k, csrf |-> c, late |-> l]
  <2>2. l \in BOOLEAN
    OBVIOUS
  <2>3. req' = [req EXCEPT ![p] = r]
    BY <2>1
  <2>4. l => i \in over
    OBVIOUS
  <2>5. i \in Ids
    BY DEF IInv, TypeOK
  <2> HIDE DEF l
  <2>6. r \in Request /\ r.id = i /\ r.late = l
    BY <2>2, <2>5 DEF Request
  <2> HIDE DEF r
  <2>7. req'[p] = r /\ r \in Request /\ req'[p].id = i /\ (req'[p].late => i \in over)
    BY <2>3, <2>4, <2>6 DEF IInv, TypeOK
  <2>8. /\ pc'[p] \in {"creds", "authorize"}
        /\ \A q \in Procs : q # p => pc'[q] = pc[q] /\ req'[q] = req[q]
        /\ req' \in [Procs -> Request \cup {NoRequest}]
        /\ pc' \in [Procs -> {"idle", "creds", "authorize", "handle"} \cup Answered]
    BY <2>1, <2>3, <2>7 DEF IInv, TypeOK
  <2>9. TypeOK'
    BY <1>7, <2>7, <2>8 DEF Arrive, IInv, TypeOK
  <2>10. NotAfterEnd' /\ LiveKept'
    BY <1>7, <2>8 DEF Arrive, IInv, NotAfterEnd, LiveKept, Has, Alive, Expired
  <2>11. \A q \in Procs :
           pc'[q] # "idle" => req'[q].id \in drawn /\ (req'[q].late => req'[q].id \in over)
    BY <2>7, <2>8 DEF IInv
  <2> QED
    BY <1>7, <2>9, <2>10, <2>11 DEF Arrive, IInv, Has, Alive, Expired
<1>8. ASSUME NEW p \in Procs, HasCredentials(p) PROVE IInv'
  BY <1>8, LookSafe DEF HasCredentials, Answered
<1>9. ASSUME NEW p \in Procs, Authorize(p) PROVE IInv'
  BY <1>9, LookSafe DEF Authorize, Answered
<1>10. ASSUME NEW p \in Procs, ChooseForm(p) PROVE IInv'
  BY <1>10, LookSafe DEF ChooseForm, Answered
<1>11. ASSUME NEW p \in Procs, Answer(p) PROVE IInv'
  BY <1>11 DEF Answer, IInv, TypeOK, NotAfterEnd, LiveKept, Has, Alive, Expired
<1>12. ASSUME NEW p \in Procs, Bar(p) PROVE IInv'
  BY <1>12 DEF Bar, IInv, TypeOK, NotAfterEnd, LiveKept, Has, Alive, Expired, Answered
<1>13. CASE UNCHANGED vars
  BY <1>13 DEF vars, IInv, TypeOK, NotAfterEnd, LiveKept, Has, Alive, Expired
<1> QED
  BY <1>1, <1>2, <1>3, <1>4, <1>5, <1>6, <1>7, <1>8, <1>9, <1>10, <1>11, <1>12, <1>13 DEF Next

\* The invariant holds in every state of every instance.
THEOREM Invariance == Spec => []IInv
<1> QED
  BY InitIInv, NextIInv, PTL DEF Spec

\* A request that arrives after its session is over is never served as its
\* owner's, however the looks of sessionFromRequest interleave with the rest.
THEOREM NeverAfterEnd == Spec => []NotAfterEnd
<1>1. IInv => NotAfterEnd
  BY DEF IInv
<1> QED
  BY <1>1, Invariance, PTL

\* A session that is not over is accepted.
THEOREM AlwaysLive == Spec => []LiveKept
<1>1. IInv => LiveKept
  BY DEF IInv
<1> QED
  BY <1>1, Invariance, PTL

-----------------------------------------------------------------------------
(* Access *)

LEMMA SessionStep == [AccessNext]_accessVars => [Next]_vars
BY DEF AccessNext, accessVars, Ask, CheckLockdown, Compare, Record, Clear, Open, Serve, Reply,
       ArriveWith, Pass, TurnAway, Proceed, InitToken, Chown, Lift, Elapse, Restart, Next

\* Every behaviour of the service's access control is one of its sessions: what
\* is proved of Sessions holds with logins that have to compare a token.
THEOREM AccessIsSessions == AccessSpec => Spec
<1>1. AccessInit => Init
  BY DEF AccessInit
<1> QED
  BY <1>1, SessionStep, PTL DEF AccessSpec, Spec

THEOREM AccessInitIInv == AccessInit => AccessIInv
<1> SUFFICES ASSUME AccessInit PROVE AccessIInv
  OBVIOUS
<1>1. IInv
  BY InitIInv DEF AccessInit
<1>2. AccessTypeOK
  BY AccessAssumption DEF AccessInit, AccessTypeOK, Counter!Init
<1> QED
  BY <1>1, <1>2 DEF AccessInit, AccessIInv, LockdownHolds, VerdictTimely

\* The part of the invariant about requests with a session.
ProcsHeld ==
  /\ passed \subseteq Procs
  /\ barred \cap passed = {}
  /\ \A p \in Procs \cap barred :
       /\ pc[p] \notin {"changed", "full"}
       /\ pc[p] = "handle" => req[p].id \in over

\* The part about requests with a token.
ClientsHeld ==
  /\ AccessTypeOK
  /\ barred # {} => Refusing
  /\ \A c \in Clients \cap barred : step[c] \in {"idle", "check"}
  /\ VerdictTimely
  /\ \A c \in Clients :
       call[c] # NoCall => IF call[c].token = token THEN call[c].right ELSE call[c].wrong

LEMMA Parts == AccessIInv <=> IInv /\ ClientsHeld /\ ProcsHeld
BY DEF AccessIInv, ClientsHeld, ProcsHeld, LockdownHolds, AccessTypeOK

\* The steps of a client leave the sessions' requests alone.
LEMMA ProcsKept ==
  ASSUME ProcsHeld, UNCHANGED pc, UNCHANGED req, UNCHANGED passed, over \subseteq over',
         barred' \cap Procs \subseteq barred
  PROVE  ProcsHeld'
BY DEF ProcsHeld

-----------------------------------------------------------------------------
(* Each step of a client *)

LEMMA AskSafe == ASSUME ClientsHeld, NEW c \in Clients, Ask(c) PROVE ClientsHeld'
<1>1. PICK t \in Tokens :
        call' = [call EXCEPT ![c] = [token |-> t, right |-> t = token, wrong |-> t # token]]
  BY DEF Ask
<1> DEFINE r == [token |-> t, right |-> t = token, wrong |-> t # token]
<1>2. r \in Call /\ r.token = t /\ (r.right <=> t = token) /\ (r.wrong <=> t # token)
  <2>1. (t = token) \in BOOLEAN /\ (t # token) \in BOOLEAN
    OBVIOUS
  <2> DEFINE eq == t = token
             ne == t # token
  <2> HIDE DEF eq, ne
  <2>2. [token |-> t, right |-> eq, wrong |-> ne] \in Call
    BY <2>1 DEF Call, eq, ne
  <2>3. r \in Call
    BY <2>2 DEF eq, ne
  <2> QED
    BY <2>3
<1> HIDE DEF r
<1>3. /\ call' \in [Clients -> Call \cup {NoCall}] /\ call'[c] = r
      /\ \A d \in Clients : d # c => call'[d] = call[d]
  BY <1>1, <1>2 DEF ClientsHeld, AccessTypeOK, r
<1>4. /\ step'[c] = "check" /\ \A d \in Clients : d # c => step'[d] = step[d]
      /\ step' \in [Clients -> {"idle", "check", "compare", "record", "clear", "open", "serve", "granted"}]
  BY DEF Ask, ClientsHeld, AccessTypeOK
<1>5. barred' = (IF Refusing THEN barred \cup {c} ELSE barred \ {c}) /\ UNCHANGED <<token, counter>>
  BY DEF Ask, Arrives, file
<1>6. AccessTypeOK'
  BY <1>2, <1>3, <1>4, <1>5 DEF Ask, ClientsHeld, AccessTypeOK, file, counter
<1>7. barred' # {} => Refusing'
  BY <1>5 DEF ClientsHeld, Refusing, counter
<1>8. \A d \in Clients \cap barred' : step'[d] \in {"idle", "check"}
  BY <1>4, <1>5 DEF ClientsHeld
<1>9. VerdictTimely'
  BY <1>3, <1>4 DEF ClientsHeld, VerdictTimely
<1>10. \A d \in Clients :
         call'[d] # NoCall => IF call'[d].token = token' THEN call'[d].right ELSE call'[d].wrong
  BY <1>2, <1>3, <1>5 DEF ClientsHeld
<1> QED
  BY <1>6, <1>7, <1>8, <1>9, <1>10 DEF ClientsHeld

\* A request only moves on: what it goes to must be true of it.
LEMMA GotoSafe ==
  ASSUME ClientsHeld, NEW c \in Clients, step[c] # "idle",
         NEW s \in {"idle", "compare", "record", "clear", "open", "serve", "granted"},
         Goto(c, s), UNCHANGED <<token, readable, calls, inits, passed>>,
         failed' \in Nat, blocked' \in BOOLEAN, locked' \in BOOLEAN,
         barred' \subseteq barred, barred' # {} => Refusing',
         c \in barred' => s = "idle",
         s \in {"clear", "open", "serve", "granted"} => call[c].right,
         s = "record" => call[c].wrong
  PROVE  ClientsHeld'
<1>1. /\ step' \in [Clients -> {"idle", "check", "compare", "record", "clear", "open", "serve", "granted"}]
      /\ step'[c] = s /\ \A d \in Clients : d # c => step'[d] = step[d]
  BY DEF Goto, ClientsHeld, AccessTypeOK
<1>2. /\ call' \in [Clients -> Call \cup {NoCall}]
      /\ \A d \in Clients : d # c => call'[d] = call[d]
      /\ s = "idle" => call'[c] = NoCall
      /\ s # "idle" => call'[c] = call[c]
  BY DEF Goto, ClientsHeld, AccessTypeOK
<1>3. AccessTypeOK'
  BY <1>1, <1>2 DEF ClientsHeld, AccessTypeOK
<1>4. VerdictTimely'
  BY <1>1, <1>2 DEF ClientsHeld, VerdictTimely
<1>5. \A d \in Clients \cap barred' : step'[d] \in {"idle", "check"}
  BY <1>1 DEF ClientsHeld
<1>6. \A d \in Clients :
        call'[d] # NoCall => IF call'[d].token = token' THEN call'[d].right ELSE call'[d].wrong
  BY <1>2 DEF ClientsHeld
<1> QED
  BY <1>3, <1>4, <1>5, <1>6 DEF ClientsHeld

LEMMA CounterTyped ==
  ASSUME AccessTypeOK,
         Counter!Attempt \/ Counter!Login \/ Counter!Unlock \/ Counter!Expire \/ UNCHANGED counter
  PROVE  failed' \in Nat /\ blocked' \in BOOLEAN /\ locked' \in BOOLEAN
<1>1. CASE Counter!Attempt
  <2>1. failed' \in Nat
    BY <1>1 DEF Counter!Attempt, AccessTypeOK
  <2>2. blocked' = (blocked \/ failed + 1 >= Soft) /\ locked' = (locked \/ failed + 1 >= Hard)
    BY <1>1 DEF Counter!Attempt
  <2>3. blocked' \in BOOLEAN /\ locked' \in BOOLEAN
    BY <2>2, Zenon
  <2> QED
    BY <2>1, <2>3
<1>2. CASE Counter!Login \/ Counter!Unlock \/ Counter!Expire
  <2>1. /\ failed' \in {0, failed} /\ blocked' = FALSE
        /\ locked' = FALSE \/ locked' = locked
    BY <1>2 DEF Counter!Login, Counter!Unlock, Counter!Expire
  <2>2. failed' \in Nat
    BY <2>1 DEF AccessTypeOK
  <2>3. locked' \in BOOLEAN
    BY <2>1, Zenon DEF AccessTypeOK
  <2> QED
    BY <2>1, <2>2, <2>3
<1>3. CASE UNCHANGED counter
  BY <1>3 DEF counter, AccessTypeOK
<1> QED
  BY <1>1, <1>2, <1>3

LEMMA ClientSafe ==
  ASSUME ClientsHeld, NEW c \in Clients,
         CheckLockdown(c) \/ Compare(c) \/ Record(c) \/ Clear(c) \/ Open(c) \/ Serve(c) \/ Reply(c)
  PROVE  ClientsHeld'
<1> USE DEF file, counter
<1>1. /\ call[c] # NoCall /\ step[c] # "idle" => IF call[c].token = token THEN call[c].right ELSE call[c].wrong
      /\ step[c] # "idle" => call[c] # NoCall
      /\ step[c] \notin {"idle", "check"} => c \notin barred
  BY AccessAssumption DEF ClientsHeld, AccessTypeOK
<1>2. CASE CheckLockdown(c)
  <2>1. /\ step[c] = "check" /\ UNCHANGED <<file, counter, calls, inits, passed, barred>>
        /\ Goto(c, IF Refusing THEN "idle" ELSE "compare")
    BY <1>2 DEF CheckLockdown
  <2>2. c \in barred => Refusing
    BY DEF ClientsHeld
  <2>3. CASE Refusing
    BY <2>1, <2>3, GotoSafe DEF ClientsHeld, AccessTypeOK, Refusing
  <2>4. CASE ~Refusing
    BY <2>1, <2>2, <2>4, GotoSafe DEF ClientsHeld, AccessTypeOK, Refusing
  <2> QED
    BY <2>3, <2>4
<1>3. CASE Compare(c)
  <2>1. /\ step[c] = "compare" /\ UNCHANGED <<file, counter, calls, inits, passed, barred>>
        /\ Goto(c, IF ~readable THEN "idle" ELSE IF call[c].token = token THEN "clear" ELSE "record")
    BY <1>3 DEF Compare
  <2>2. CASE ~readable
    BY <2>1, <2>2, GotoSafe DEF ClientsHeld, AccessTypeOK, Refusing
  <2>3. CASE readable /\ call[c].token = token
    BY <1>1, <2>1, <2>3, GotoSafe DEF ClientsHeld, AccessTypeOK, Refusing
  <2>4. CASE readable /\ call[c].token # token
    BY <1>1, <2>1, <2>4, GotoSafe DEF ClientsHeld, AccessTypeOK, Refusing
  <2> QED
    BY <2>2, <2>3, <2>4
<1>4. CASE Record(c)
  <2>1. /\ step[c] = "record" /\ Goto(c, "idle") /\ Lifted
        /\ UNCHANGED <<file, calls, inits, passed>>
        /\ failed' \in Nat /\ blocked' \in BOOLEAN /\ locked' \in BOOLEAN
    BY <1>4, CounterTyped DEF Record, ClientsHeld
  <2>2. barred' \subseteq barred /\ (barred' # {} => Refusing')
    BY <2>1 DEF Lifted
  <2> QED
    BY <2>1, <2>2, GotoSafe
<1>5. CASE Clear(c)
  <2>1. /\ step[c] = "clear" /\ Lifted
        /\ UNCHANGED <<file, calls, inits, passed>>
        /\ failed' \in Nat /\ blocked' \in BOOLEAN /\ locked' \in BOOLEAN
    BY <1>5, CounterTyped DEF Clear, ClientsHeld
  <2>2. barred' \subseteq barred /\ (barred' # {} => Refusing')
    BY <2>1 DEF Lifted
  <2>3. call[c].right
    BY <2>1 DEF ClientsHeld, VerdictTimely
  <2>4. PICK s \in {"open", "serve"} : Goto(c, s)
    BY <1>5 DEF Clear
  <2> QED
    BY <1>1, <2>1, <2>2, <2>3, <2>4, GotoSafe
<1>6. CASE Open(c)
  <2>1. /\ step[c] = "open" /\ Goto(c, "granted")
        /\ UNCHANGED <<file, counter, calls, inits, passed, barred>>
    BY <1>6 DEF Open
  <2>2. call[c].right
    BY <2>1 DEF ClientsHeld, VerdictTimely
  <2> QED
    BY <1>1, <2>1, <2>2, GotoSafe DEF ClientsHeld, AccessTypeOK, Refusing
<1>7. CASE Serve(c)
  <2>1. /\ step[c] = "serve"
        /\ UNCHANGED <<file, counter, calls, inits, passed, barred>>
    BY <1>7 DEF Serve
  <2>2. call[c].right
    BY <2>1 DEF ClientsHeld, VerdictTimely
  <2>3. PICK s \in {"granted", "idle"} : Goto(c, s)
    BY <1>7 DEF Serve
  <2> QED
    BY <1>1, <2>1, <2>2, <2>3, GotoSafe DEF ClientsHeld, AccessTypeOK, Refusing
<1>8. CASE Reply(c)
  <2>1. /\ step[c] = "granted" /\ Goto(c, "idle")
        /\ UNCHANGED <<file, counter, calls, inits, passed, barred>>
    BY <1>8 DEF Reply
  <2> QED
    BY <2>1, GotoSafe DEF ClientsHeld, AccessTypeOK, Refusing
<1> QED
  BY <1>2, <1>3, <1>4, <1>5, <1>6, <1>7, <1>8

\* A new token in the file is seen by every request in flight.
LEMMA InitTokenSafe ==
  ASSUME ClientsHeld, NEW t \in Tokens, InitToken(t) PROVE ClientsHeld'
<1>1. \A c \in Clients :
        /\ call[c] = NoCall => call'[c] = NoCall
        /\ call[c] # NoCall =>
             /\ call'[c] \in Call /\ call'[c].token = call[c].token
             /\ call'[c].right <=> call[c].right \/ call[c].token = t
             /\ call'[c].wrong <=> call[c].wrong \/ call[c].token # t
  BY DEF InitToken, Seen, ClientsHeld, AccessTypeOK, Call
<1>2. /\ call' \in [Clients -> Call \cup {NoCall}]
      /\ \A c \in Clients : call'[c] = NoCall <=> call[c] = NoCall
  <2>1. \A c \in Clients : call'[c] \in Call \cup {NoCall}
    BY <1>1 DEF ClientsHeld, AccessTypeOK
  <2>2. call' = [c \in Clients |-> call'[c]]
    BY DEF InitToken, Seen
  <2> QED
    BY <1>1, <2>1, <2>2, AccessAssumption DEF ClientsHeld, AccessTypeOK
<1>3. UNCHANGED <<counter, step, calls, passed, barred>> /\ token' = t /\ readable' \in BOOLEAN /\ inits' \in Nat
  BY DEF InitToken, ClientsHeld, AccessTypeOK
<1>4. AccessTypeOK'
  BY <1>1, <1>2, <1>3, AccessAssumption DEF ClientsHeld, AccessTypeOK, counter
<1>5. VerdictTimely'
  <2>1. \A c \in Clients : step[c] # "idle" => call[c] # NoCall
    BY AccessAssumption DEF ClientsHeld, AccessTypeOK
  <2> QED
    BY <1>1, <1>3, <2>1 DEF ClientsHeld, VerdictTimely
<1>6. \A c \in Clients :
        call'[c] # NoCall => IF call'[c].token = token' THEN call'[c].right ELSE call'[c].wrong
  BY <1>1, <1>2, <1>3
<1> QED
  BY <1>3, <1>4, <1>5, <1>6 DEF ClientsHeld, Refusing, counter

-----------------------------------------------------------------------------
(* Each step of a request with a session *)

\* The requests with a token see no more of it than who is barred.
LEMMA ClientsKept ==
  ASSUME ClientsHeld, UNCHANGED <<file, counter, clients, inits>>, passed' \subseteq Procs,
         \/ barred' = barred
         \/ \E p \in Procs : barred' = IF Refusing THEN barred \cup {p} ELSE barred \ {p}
  PROVE  ClientsHeld'
<1>1. AccessTypeOK'
  BY DEF ClientsHeld, AccessTypeOK, file, counter, clients
<1>2. barred' # {} => Refusing'
  BY DEF ClientsHeld, Refusing, counter
<1>3. \A c \in Clients \cap barred' : step'[c] \in {"idle", "check"}
  <2>1. \A p \in Procs : p \notin Clients
    BY AccessAssumption
  <2> QED
    BY <2>1 DEF ClientsHeld, clients
<1> QED
  BY <1>1, <1>2, <1>3 DEF ClientsHeld, VerdictTimely, file, clients

\* A session that is not there, or dead, is over.
LEMMA DeadIsOver == ASSUME IInv, NEW i \in drawn, ~Alive(i) PROVE i \in over
BY DEF IInv, LiveKept

LEMMA ProcSafe ==
  ASSUME IInv, ClientsHeld, ProcsHeld, NEW p \in Procs,
         ArriveWith(p) \/ Pass(p) \/ TurnAway(p) \/ Proceed(p)
  PROVE  ProcsHeld'
<1>1. CASE ArriveWith(p)
  <2>1. /\ passed' = passed \ {p} /\ over' = over
        /\ barred' = (IF Refusing THEN barred \cup {p} ELSE barred \ {p})
        /\ pc'[p] \in {"creds", "authorize"}
        /\ \A q \in Procs : q # p => pc'[q] = pc[q] /\ req'[q] = req[q]
    BY <1>1 DEF ArriveWith, Arrives, Arrive, IInv, TypeOK
  <2> QED
    BY <2>1 DEF ProcsHeld
<1>2. CASE Pass(p)
  <2>1. /\ barred = {} /\ barred' = barred /\ passed' = passed \cup {p}
    BY <1>2 DEF Pass, ClientsHeld
  <2> QED
    BY <2>1 DEF ProcsHeld
<1>3. CASE TurnAway(p)
  BY <1>3 DEF TurnAway, Bar, ProcsHeld, IInv, TypeOK
<1>4. CASE Proceed(p)
  <2>1. UNCHANGED <<passed, barred>>
    BY <1>4 DEF Proceed
  <2>2. CASE HasCredentials(p)
    <3>1. /\ pc[p] = "creds" /\ UNCHANGED <<req, over>>
          /\ pc'[p] = (IF Alive(req[p].id) THEN "authorize" ELSE "handle")
          /\ \A q \in Procs : q # p => pc'[q] = pc[q]
      BY <2>2 DEF HasCredentials, Look, IInv, TypeOK
    <3>2. ~Alive(req[p].id) => req[p].id \in over
      <4>1. req[p].id \in drawn
        BY <3>1 DEF IInv
      <4> QED
        BY <4>1, DeadIsOver
    <3> QED
      BY <2>1, <3>1, <3>2 DEF ProcsHeld
  <2>3. CASE ChooseForm(p)
    <3>1. /\ pc[p] = "handle" /\ UNCHANGED <<req, over>>
          /\ pc'[p] = (IF Alive(req[p].id) THEN "full" ELSE "public")
          /\ \A q \in Procs : q # p => pc'[q] = pc[q]
      BY <2>3 DEF ChooseForm, Look, IInv, TypeOK
    <3>2. p \in barred => ~Alive(req[p].id)
      BY <3>1 DEF ProcsHeld, IInv
    <3> QED
      BY <2>1, <3>1, <3>2 DEF ProcsHeld
  <2>4. CASE Answer(p)
    BY <2>1, <2>4 DEF Answer, ProcsHeld, IInv, TypeOK
  <2>5. CASE p \in passed /\ Authorize(p)
    <3>1. p \notin barred
      BY <2>5 DEF ProcsHeld
    <3>2. UNCHANGED <<req, over>> /\ \A q \in Procs : q # p => pc'[q] = pc[q]
      BY <2>5 DEF Authorize, Look, IInv, TypeOK
    <3> QED
      BY <2>1, <3>1, <3>2 DEF ProcsHeld
  <2> QED
    BY <1>4, <2>2, <2>3, <2>4, <2>5 DEF Proceed
<1> QED
  BY <1>1, <1>2, <1>3, <1>4

-----------------------------------------------------------------------------

THEOREM AccessNextIInv == AccessIInv /\ [AccessNext]_accessVars => AccessIInv'
<1> SUFFICES ASSUME AccessIInv, [AccessNext]_accessVars PROVE AccessIInv'
  OBVIOUS
<1>0. IInv /\ ClientsHeld /\ ProcsHeld
  BY Parts
<1>1. IInv'
  BY <1>0, SessionStep, NextIInv
<1>2. ASSUME NEW c \in Clients, Ask(c) PROVE ClientsHeld' /\ ProcsHeld'
  <2>1. barred' \cap Procs \subseteq barred /\ UNCHANGED <<pc, req, passed, over>>
    BY <1>2, AccessAssumption DEF Ask, Arrives, vars
  <2> QED
    BY <1>0, <1>2, <2>1, AskSafe, ProcsKept
<1>3. ASSUME NEW c \in Clients,
             CheckLockdown(c) \/ Compare(c) \/ Record(c) \/ Clear(c) \/ Open(c) \/ Serve(c) \/ Reply(c)
      PROVE  ClientsHeld' /\ ProcsHeld'
  <2>1. barred' \subseteq barred /\ UNCHANGED <<pc, req, passed, over>>
    BY <1>3 DEF CheckLockdown, Compare, Record, Clear, Open, Serve, Reply, Lifted, Login, vars
  <2> QED
    BY <1>0, <1>3, <2>1, ClientSafe, ProcsKept
<1>4. ASSUME NEW p \in Procs, ArriveWith(p) \/ Pass(p) \/ TurnAway(p) \/ Proceed(p)
      PROVE  ClientsHeld' /\ ProcsHeld'
  <2>1. /\ UNCHANGED <<file, counter, clients, inits>> /\ passed' \subseteq Procs
        /\ \/ barred' = barred
           \/ barred' = IF Refusing THEN barred \cup {p} ELSE barred \ {p}
    BY <1>0, <1>4 DEF ArriveWith, Arrives, Pass, TurnAway, Proceed, ProcsHeld
  <2> QED
    BY <1>0, <1>1, <1>4, <2>1, ProcSafe, ClientsKept
<1>5. ASSUME NEW t \in Tokens, InitToken(t) PROVE ClientsHeld' /\ ProcsHeld'
  BY <1>0, <1>5, InitTokenSafe, ProcsKept DEF InitToken, vars
<1>6. ASSUME Chown PROVE ClientsHeld' /\ ProcsHeld'
  <2>1. /\ readable' = TRUE /\ UNCHANGED <<step, call, calls, token, failed, blocked, locked, barred, passed, inits>>
        /\ UNCHANGED <<pc, req, over>>
    BY <1>6 DEF Chown, vars, counter, clients
  <2>2. ClientsHeld'
    BY <1>0, <2>1 DEF ClientsHeld, AccessTypeOK, VerdictTimely, Refusing
  <2> QED
    BY <1>0, <2>1, <2>2, ProcsKept
<1>7. ASSUME Lift PROVE ClientsHeld' /\ ProcsHeld'
  <2>1. /\ barred' \subseteq barred /\ (barred' # {} => Refusing')
        /\ UNCHANGED <<pc, req, passed, over>>
        /\ UNCHANGED <<token, readable, step, call, calls, inits>>
    BY <1>7 DEF Lift, Lifted, vars, file, clients
  <2>2. failed' \in Nat /\ blocked' \in BOOLEAN /\ locked' \in BOOLEAN
    BY <1>0, <1>7, CounterTyped DEF Lift, ClientsHeld
  <2>3. ClientsHeld'
    BY <1>0, <2>1, <2>2 DEF ClientsHeld, AccessTypeOK, VerdictTimely
  <2> QED
    BY <1>0, <2>1, <2>3, ProcsKept
<1>8. ASSUME Elapse PROVE ClientsHeld' /\ ProcsHeld'
  <2>1. /\ over \subseteq over'
        /\ UNCHANGED <<pc, req>> /\ UNCHANGED <<passed, barred>>
        /\ UNCHANGED <<file, counter, clients, inits>>
    BY <1>8 DEF Elapse, Tick, ReapTick, Reap, Logout
  <2>2. passed' \subseteq Procs
    BY <1>0, <2>1 DEF ProcsHeld
  <2>3. ProcsHeld'
    BY <1>0, <2>1, ProcsKept
  <2> QED
    BY <1>0, <2>1, <2>2, <2>3, ClientsKept
<1>9. ASSUME Restart PROVE ClientsHeld' /\ ProcsHeld'
  <2>1. /\ step' = [c \in Clients |-> "idle"] /\ call' = [c \in Clients |-> NoCall]
        /\ passed' = {} /\ barred' = {}
        /\ UNCHANGED <<token, readable, failed, blocked, locked, calls, inits>>
    BY <1>9 DEF Restart, file, counter
  <2>2. AccessTypeOK'
    BY <1>0, <2>1 DEF ClientsHeld, AccessTypeOK
  <2>3. VerdictTimely'
    BY <2>1 DEF VerdictTimely
  <2> QED
    BY <2>1, <2>2, <2>3 DEF ClientsHeld, ProcsHeld
<1>10. ASSUME UNCHANGED accessVars PROVE ClientsHeld' /\ ProcsHeld'
  <2>1. /\ UNCHANGED <<pc, req>> /\ UNCHANGED over /\ UNCHANGED <<passed, barred>>
        /\ UNCHANGED <<file, counter, clients, inits>>
    BY <1>10 DEF accessVars, vars
  <2>2. passed' \subseteq Procs
    BY <1>0, <2>1 DEF ProcsHeld
  <2>3. ProcsHeld'
    BY <1>0, <2>1, ProcsKept
  <2> QED
    BY <1>0, <2>1, <2>2, <2>3, ClientsKept
<1>11. ClientsHeld' /\ ProcsHeld'
  BY <1>2, <1>3, <1>4, <1>5, <1>6, <1>7, <1>8, <1>9, <1>10 DEF AccessNext
<1> QED
  BY <1>1, <1>11 DEF AccessIInv, ClientsHeld, ProcsHeld, LockdownHolds

\* The invariant holds in every state of every instance.
THEOREM AccessInvariance == AccessSpec => []AccessIInv
<1> QED
  BY AccessInitIInv, AccessNextIInv, PTL DEF AccessSpec

\* Lockdown is kept although authMiddleware checks it first and acts later:
\* whoever arrives in it does nothing before it is lifted.
THEOREM LockdownAlwaysHolds == AccessSpec => []LockdownHolds
<1>1. AccessIInv => LockdownHolds
  BY DEF AccessIInv
<1> QED
  BY <1>1, AccessInvariance, PTL

\* However htm init interleaves with requests, each verdict is about a token
\* that was installed while the request was under way.
THEOREM VerdictsTimely == AccessSpec => []VerdictTimely
<1>1. AccessIInv => VerdictTimely
  BY DEF AccessIInv
<1> QED
  BY <1>1, AccessInvariance, PTL
==============================================================================
