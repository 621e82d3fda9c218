------------------------------- MODULE Sessions -------------------------------
(***************************************************************************)
(* Browser sessions: internal/httpapi/auth.go, and the looks authMiddleware *)
(* and handleListTools of server.go take at them.  The sessions are a map   *)
(* under sessionsMu; a request looks it up up to three times, one critical  *)
(* section each, and between two looks sessions expire, are logged out, and *)
(* are lost with the process.                                               *)
(***************************************************************************)
EXTENDS Naturals

CONSTANTS
  Ids,       \* session ids; a random one is never drawn twice
  Procs,     \* concurrent requests that carry a session cookie
  TTL,       \* sessionTTL, in ticks of the clock
  MaxTime, MaxCrashes, MaxRequests,
  NoRequest

ASSUME SessionsAssumption ==
  /\ TTL \in Nat \ {0} /\ MaxTime \in Nat /\ MaxCrashes \in Nat /\ MaxRequests \in Nat

\* "list" is GET /tools, which has a public form; "change" any other request.
\* late says whether the session was over when the request arrived, csrf
\* whether it carries the session's token.
Request == [id : Ids, kind : {"list", "change"}, csrf : BOOLEAN, late : BOOLEAN]

VARIABLES
  sessions,  \* id -> ExpiresAt, 0 for no entry
  drawn,     \* ids ever handed out
  over,      \* those whose session was logged out, has expired or was lost
  now,
  reaper,    \* the time cleanupSessionsLoop read, 0 while it waits for its tick
  pc, req,   \* the requests
  requests, crashes

vars == <<sessions, drawn, over, now, reaper, pc, req, requests, crashes>>

Has(id) == sessions[id] # 0
Expired(id, time) == Has(id) /\ time > sessions[id]
Alive(id) == Has(id) /\ ~Expired(id, now)

Init ==
  /\ sessions = [i \in Ids |-> 0]
  /\ drawn = {} /\ over = {}
  /\ now = 1 /\ reaper = 0
  /\ pc = [p \in Procs |-> "idle"]
  /\ req = [p \in Procs |-> NoRequest]
  /\ requests = 0 /\ crashes = 0

-----------------------------------------------------------------------------

\* newSession, after handleLogin has compared the token.
Login(i) ==
  /\ i \notin drawn
  /\ drawn' = drawn \cup {i}
  /\ sessions' = [sessions EXCEPT ![i] = now + TTL]
  /\ UNCHANGED <<over, now, reaper, pc, req, requests, crashes>>

\* Defect: only the browser forgets.
LogoutCookie(i) ==
  /\ i \in drawn
  /\ over' = over \cup {i}
  /\ UNCHANGED <<sessions, drawn, now, reaper, pc, req, requests, crashes>>

\* handleLogout deletes whatever the cookie names.
Logout(i) ==
  /\ i \in drawn
  /\ sessions' = [sessions EXCEPT ![i] = 0]
  /\ over' = over \cup {i}
  /\ UNCHANGED <<drawn, now, reaper, pc, req, requests, crashes>>

Tick ==
  /\ now < MaxTime
  /\ now' = now + 1
  /\ over' = over \cup {i \in Ids : Expired(i, now + 1)}
  /\ UNCHANGED <<sessions, drawn, reaper, pc, req, requests, crashes>>

\* cleanupSessionsLoop reads the time, then waits for the lock.
ReapTick ==
  /\ reaper = 0
  /\ reaper' = now
  /\ UNCHANGED <<sessions, drawn, over, now, pc, req, requests, crashes>>

\* Defect: Before for After.
ReapBefore ==
  /\ reaper # 0
  /\ sessions' = [i \in Ids |-> IF Has(i) /\ reaper < sessions[i] THEN 0 ELSE sessions[i]]
  /\ reaper' = 0
  /\ UNCHANGED <<drawn, over, now, pc, req, requests, crashes>>

Reap ==
  /\ reaper # 0
  /\ sessions' = [i \in Ids |-> IF Expired(i, reaper) THEN 0 ELSE sessions[i]]
  /\ reaper' = 0
  /\ UNCHANGED <<drawn, over, now, pc, req, requests, crashes>>

-----------------------------------------------------------------------------
(* Requests *)

\* A browser sends the cookie it has, for as long as it likes.
Arrive(p) ==
  /\ pc[p] = "idle" /\ requests < MaxRequests
  /\ requests' = requests + 1
  /\ \E i \in drawn, k \in {"list", "change"}, c \in BOOLEAN :
       /\ req' = [req EXCEPT ![p] = [id |-> i, kind |-> k, csrf |-> c, late |-> i \in over]]
       /\ pc' = [pc EXCEPT ![p] = IF k = "list" THEN "creds" ELSE "authorize"]
  /\ UNCHANGED <<sessions, drawn, over, now, reaper, crashes>>

\* Defect: expiry is left to the cleanup loop.
LookUnexpired(p, found, missing) ==
  /\ pc' = [pc EXCEPT ![p] = IF Has(req[p].id) THEN found ELSE missing]
  /\ UNCHANGED sessions

\* sessionFromRequest: an expired session is deleted on the way.
Look(p, found, missing) ==
  LET i == req[p].id IN
  /\ pc' = [pc EXCEPT ![p] = IF Alive(i) THEN found ELSE missing]
  /\ sessions' = IF Expired(i, now) THEN [sessions EXCEPT ![i] = 0] ELSE sessions

\* authMiddleware lets GET /tools without credentials through at once.
HasCredentials(p) ==
  /\ pc[p] = "creds"
  /\ Look(p, "authorize", "handle")
  /\ UNCHANGED <<drawn, over, now, reaper, req, requests, crashes>>

\* authorizeSession: the CSRF token counts for what is not a GET.
Authorize(p) ==
  /\ pc[p] = "authorize"
  /\ Look(p, IF req[p].kind = "list" THEN "handle"
             ELSE IF req[p].csrf THEN "changed" ELSE "refused", "refused")
  /\ UNCHANGED <<drawn, over, now, reaper, req, requests, crashes>>

\* authMiddleware refuses before that in lockdown; module Access says when.
Bar(p) ==
  /\ pc[p] = "authorize"
  /\ pc' = [pc EXCEPT ![p] = "refused"]
  /\ UNCHANGED <<sessions, drawn, over, now, reaper, req, requests, crashes>>

\* handleListTools looks again when it has the list, to choose its form.
ChooseForm(p) ==
  /\ pc[p] = "handle"
  /\ Look(p, "full", "public")
  /\ UNCHANGED <<drawn, over, now, reaper, req, requests, crashes>>

Answered == {"changed", "refused", "full", "public"}

Answer(p) ==
  /\ pc[p] \in Answered
  /\ pc' = [pc EXCEPT ![p] = "idle"]
  /\ req' = [req EXCEPT ![p] = NoRequest]
  /\ UNCHANGED <<sessions, drawn, over, now, reaper, requests, crashes>>

\* The process dies; the map is gone, the secret that signs the cookies is not.
Crash ==
  /\ crashes < MaxCrashes
  /\ crashes' = crashes + 1
  /\ sessions' = [i \in Ids |-> 0]
  /\ over' = drawn
  /\ reaper' = 0
  /\ pc' = [p \in Procs |-> "idle"]
  /\ req' = [p \in Procs |-> NoRequest]
  /\ UNCHANGED <<drawn, now, requests>>

-----------------------------------------------------------------------------

Next ==
  \/ \E i \in Ids : Login(i) \/ Logout(i)
  \/ Tick \/ ReapTick \/ Reap \/ Crash
  \/ \E p \in Procs : \/ Arrive(p) \/ HasCredentials(p) \/ Bar(p) \/ Authorize(p)
                       \/ ChooseForm(p) \/ Answer(p)

Spec == Init /\ [][Next]_vars

\* The loop's goroutine is scheduled and its ticker fires.
FairSpec == Spec /\ WF_vars(ReapTick) /\ WF_vars(Reap)

-----------------------------------------------------------------------------
(* Properties *)

\* A request whose session had expired, was logged out or was lost with the
\* process before it arrived changes nothing and sees no full list, although
\* each of its looks is a critical section of its own.
NotAfterEnd ==
  \A p \in Procs : pc[p] \in {"changed", "full"} => ~req[p].late

\* A session that was not logged out, has not expired and was not lost with the
\* process is accepted, however late the cleanup loop, which reads the clock
\* before it locks, gets to delete.
LiveKept == \A i \in drawn \ over : Alive(i)

\* The map does not grow for ever: an expired session is deleted.
Reclaimed == \A i \in Ids : Expired(i, now) ~> ~Has(i)

-----------------------------------------------------------------------------
(* The inductive invariant *)

TypeOK ==
  /\ sessions \in [Ids -> Nat] /\ drawn \subseteq Ids /\ over \subseteq Ids
  /\ now \in Nat \ {0} /\ reaper \in Nat
  /\ pc \in [Procs -> {"idle", "creds", "authorize", "handle"} \cup Answered]
  /\ req \in [Procs -> Request \cup {NoRequest}]
  /\ \A p \in Procs : pc[p] # "idle" => req[p] \in Request
  /\ requests \in Nat /\ crashes \in Nat

\* What was over stays over: an id is drawn once, and the clock does not go back.
IInv ==
  /\ TypeOK /\ NotAfterEnd /\ LiveKept
  /\ reaper <= now
  /\ over \subseteq drawn
  /\ \A i \in Ids : Has(i) => i \in drawn
  /\ \A i \in over : ~Alive(i)
  /\ \A p \in Procs :
       pc[p] # "idle" => req[p].id \in drawn /\ (req[p].late => req[p].id \in over)
==============================================================================
