-------------------------------- MODULE Access --------------------------------
(***************************************************************************)
(* Who is let in: authMiddleware and the credentials handlers of server.go, *)
(* handleLogin of auth.go, and htm init.  The sessions of module Sessions   *)
(* meet the counter of failed attempts (as the atomic counter that module   *)
(* Lockdown implements) and the token file, which htm init replaces and     *)
(* which every request with a token reads for itself.                       *)
(***************************************************************************)
EXTENDS Sessions

CONSTANTS
  Clients,     \* concurrent requests that carry a token
  Tokens,      \* what the token file holds, what requests carry
  Soft, Hard,  \* 5 and 10 attempts
  MaxCalls, MaxInits, MaxFailed,
  NoCall

\* right says whether the token the request carries has been the one in the file
\* at some time since it arrived, wrong whether another one has.
Call == [token : Tokens, right : BOOLEAN, wrong : BOOLEAN]

ASSUME AccessAssumption ==
  /\ Clients \cap Procs = {}
  /\ NoCall \notin Call
  /\ Tokens # {}
  /\ Soft \in Nat \ {0} /\ Hard \in Nat /\ Soft <= Hard
  /\ MaxCalls \in Nat /\ MaxInits \in Nat /\ MaxFailed \in Nat

VARIABLES
  token,     \* what the token file holds
  readable,  \* whether the service may read it
  failed, blocked, locked,  \* the counter
  step, call,  \* the requests with a token
  passed,    \* requests with a session that passed the lockdown check
  barred,    \* requests since whose arrival the service has been in lockdown
  calls, inits

file == <<token, readable>>
counter == <<failed, blocked, locked>>
clients == <<step, call, calls>>
accessVars == <<vars, file, counter, clients, passed, barred, inits>>

Counter == INSTANCE AttemptCounter

Refusing == locked \/ blocked

AccessInit ==
  /\ Init
  /\ token \in Tokens /\ readable = TRUE
  /\ Counter!Init
  /\ step = [c \in Clients |-> "idle"]
  /\ call = [c \in Clients |-> NoCall]
  /\ passed = {} /\ barred = {}
  /\ calls = 0 /\ inits = 0

-----------------------------------------------------------------------------
(* Requests with a token: the Authorization header, or the body of a login *)

\* A request that arrives in lockdown, and one that does not.
Arrives(x) == barred' = IF Refusing THEN barred \cup {x} ELSE barred \ {x}

\* Who was barred is no longer once the lockdown ends.
Lifted == barred' = IF Refusing' THEN barred ELSE {}

\* The next step of a request; one that is answered leaves nothing behind.
Goto(c, s) ==
  /\ step' = [step EXCEPT ![c] = s]
  /\ call' = IF s = "idle" THEN [call EXCEPT ![c] = NoCall] ELSE call

Ask(c) ==
  /\ step[c] = "idle" /\ calls < MaxCalls
  /\ calls' = calls + 1
  /\ \E t \in Tokens :
       call' = [call EXCEPT ![c] = [token |-> t, right |-> t = token, wrong |-> t # token]]
  /\ step' = [step EXCEPT ![c] = "check"]
  /\ Arrives(c)
  /\ UNCHANGED <<vars, file, counter, passed, inits>>

\* authMiddleware (423) and handleLogin (429) turn away what comes in lockdown.
CheckLockdown(c) ==
  /\ step[c] = "check"
  /\ Goto(c, IF Refusing THEN "idle" ELSE "compare")
  /\ UNCHANGED <<vars, file, counter, calls, passed, barred, inits>>

\* Defect: a token file that cannot be read is not told from another token.
CompareBlindly(c) ==
  /\ step[c] = "compare"
  /\ Goto(c, IF readable /\ call[c].token = token THEN "clear" ELSE "record")
  /\ UNCHANGED <<vars, file, counter, calls, passed, barred, inits>>

\* loadToken and the comparison: without a token to compare with, an error (503).
Compare(c) ==
  /\ step[c] = "compare"
  /\ Goto(c, IF ~readable THEN "idle"
             ELSE IF call[c].token = token THEN "clear" ELSE "record")
  /\ UNCHANGED <<vars, file, counter, calls, passed, barred, inits>>

\* recordFailedAttempt, which may fail without a trace; then 401.
Record(c) ==
  /\ step[c] = "record" /\ failed < MaxFailed
  /\ Counter!Attempt \/ UNCHANGED counter
  /\ Goto(c, "idle")
  /\ Lifted
  /\ UNCHANGED <<vars, file, calls, passed, inits>>

\* clearFailedAttempts: nothing to clear, cleared, or failed and only logged.
\* Only here does a login part from the other requests.
Clear(c) ==
  /\ step[c] = "clear"
  /\ Counter!Login \/ UNCHANGED counter
  /\ Goto(c, "open") \/ Goto(c, "serve")
  /\ Lifted
  /\ UNCHANGED <<vars, file, calls, passed, inits>>

\* newSession.
Open(c) ==
  /\ step[c] = "open"
  /\ \E i \in Ids : Login(i)
  /\ Goto(c, "granted")
  /\ UNCHANGED <<file, counter, calls, passed, barred, inits>>

\* The handler; handleListTools reads the token file again when it has the
\* list, and without that token there it shows the public form.
Serve(c) ==
  /\ step[c] = "serve"
  /\ \/ Goto(c, "granted")
     \/ ~(readable /\ call[c].token = token) /\ Goto(c, "idle")
  /\ UNCHANGED <<vars, file, counter, calls, passed, barred, inits>>

Reply(c) ==
  /\ step[c] = "granted"
  /\ Goto(c, "idle")
  /\ UNCHANGED <<vars, file, counter, calls, passed, barred, inits>>

-----------------------------------------------------------------------------
(* Requests with a session: Sessions, with the lockdown check in its place *)

ArriveWith(p) ==
  /\ Arrive(p)
  /\ Arrives(p)
  /\ passed' = passed \ {p}
  /\ UNCHANGED <<file, counter, clients, inits>>

\* Defect: only requests with a token are checked.
PassAlways(p) ==
  /\ pc[p] = "authorize" /\ p \notin passed
  /\ passed' = passed \cup {p}
  /\ UNCHANGED <<vars, file, counter, clients, barred, inits>>

Pass(p) ==
  /\ pc[p] = "authorize" /\ p \notin passed /\ ~Refusing
  /\ passed' = passed \cup {p}
  /\ UNCHANGED <<vars, file, counter, clients, barred, inits>>

TurnAway(p) ==
  /\ Refusing /\ p \notin passed
  /\ Bar(p)
  /\ UNCHANGED <<file, counter, clients, passed, barred, inits>>

Proceed(p) ==
  /\ \/ HasCredentials(p) \/ ChooseForm(p) \/ Answer(p)
     \/ p \in passed /\ Authorize(p)
  /\ UNCHANGED <<file, counter, clients, passed, barred, inits>>

-----------------------------------------------------------------------------
(* The local commands, time, and the end of the process *)

\* Every request in flight lives through the change of the file.
Seen(t) ==
  call' = [c \in Clients |->
    IF call[c] = NoCall THEN NoCall
    ELSE [call[c] EXCEPT !.right = @ \/ call[c].token = t, !.wrong = @ \/ call[c].token # t]]

\* htm init renames the new token into its place; run by root, the service
\* cannot read it before the chown that follows.
InitToken(t) ==
  /\ inits < MaxInits
  /\ inits' = inits + 1
  /\ token' = t
  /\ readable' \in BOOLEAN
  /\ Seen(t)
  /\ UNCHANGED <<vars, counter, step, calls, passed, barred>>

Chown ==
  /\ ~readable /\ readable' = TRUE
  /\ UNCHANGED <<vars, token, counter, clients, passed, barred, inits>>

\* htm unlock; the 15 minutes of a block.
Lift ==
  /\ Counter!Unlock \/ Counter!Expire
  /\ Lifted
  /\ UNCHANGED <<vars, file, clients, passed, inits>>

\* What Sessions does by itself.
Elapse ==
  /\ Tick \/ ReapTick \/ Reap \/ \E i \in Ids : Logout(i)
  /\ UNCHANGED <<file, counter, clients, passed, barred, inits>>

Restart ==
  /\ Crash
  /\ step' = [c \in Clients |-> "idle"]
  /\ call' = [c \in Clients |-> NoCall]
  /\ passed' = {} /\ barred' = {}
  /\ UNCHANGED <<file, counter, calls, inits>>

-----------------------------------------------------------------------------

AccessNext ==
  \/ \E c \in Clients : \/ Ask(c) \/ CheckLockdown(c) \/ Compare(c) \/ Record(c) \/ Clear(c)
                        \/ Open(c) \/ Serve(c) \/ Reply(c)
  \/ \E p \in Procs : ArriveWith(p) \/ Pass(p) \/ TurnAway(p) \/ Proceed(p)
  \/ \E t \in Tokens : InitToken(t)
  \/ Chown \/ Lift \/ Elapse \/ Restart

AccessSpec == AccessInit /\ [][AccessNext]_accessVars

\* The cleanup loop of Sessions runs on its ticker.
AccessFairSpec ==
  AccessSpec /\ WF_accessVars(Elapse /\ ReapTick) /\ WF_accessVars(Elapse /\ Reap)

-----------------------------------------------------------------------------
(* Properties *)

\* A request that arrives in lockdown, and during which the lockdown is not
\* lifted, neither counts, nor opens a session, nor changes or shows anything,
\* although the check, the comparison and the handler are apart.
LockdownHolds ==
  /\ \A c \in Clients \cap barred : step[c] \in {"idle", "check"}
  /\ \A p \in Procs \cap barred : pc[p] \notin {"changed", "full"}

\* What a request is granted, it is granted for a token that was the installed
\* one while it was under way, and an attempt is counted only for one that was
\* not: htm init in between, or a file that cannot be read yet, makes no false one.
VerdictTimely ==
  \A c \in Clients :
    /\ step[c] \in {"clear", "open", "serve", "granted"} => call[c].right
    /\ step[c] = "record" => call[c].wrong

-----------------------------------------------------------------------------
(* The inductive invariant *)

AccessTypeOK ==
  /\ token \in Tokens /\ readable \in BOOLEAN
  /\ failed \in Nat /\ blocked \in BOOLEAN /\ locked \in BOOLEAN
  /\ step \in [Clients -> {"idle", "check", "compare", "record", "clear", "open", "serve", "granted"}]
  /\ call \in [Clients -> Call \cup {NoCall}]
  /\ \A c \in Clients : step[c] # "idle" => call[c] \in Call
  /\ passed \subseteq Procs /\ barred \subseteq Clients \cup Procs
  /\ calls \in Nat /\ inits \in Nat

\* Who is barred has not passed, or goes without a session; the installed token
\* is one that every request in flight has seen.
AccessIInv ==
  /\ AccessTypeOK /\ IInv /\ LockdownHolds /\ VerdictTimely
  /\ barred # {} => Refusing
  /\ barred \cap passed = {}
  /\ \A c \in Clients : call[c] # NoCall => IF call[c].token = token THEN call[c].right ELSE call[c].wrong
  /\ \A p \in Procs \cap barred : pc[p] = "handle" => req[p].id \in over
==============================================================================
