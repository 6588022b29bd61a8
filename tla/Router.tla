------------------------------- MODULE Router -------------------------------
(***************************************************************************)
(* The router: users log in and out with messages to router_queue, and     *)
(* every user has a stack of containers of their own, brought up and down  *)
(* with docker compose.                                                    *)
(*                                                                         *)
(* A message is acknowledged and given to a thread of its own, so threads  *)
(* of one login run concurrently; what touches the account or the stack    *)
(* runs under the login's lock.  A logout arms a timer that stops the      *)
(* stack later; a worker is the thread of a message and, after a logout,   *)
(* the timer which that thread started.                                    *)
(***************************************************************************)
EXTENDS Integers, Sequences

CONSTANTS
  Logins,
  Passwords,
  PortHashes,   \* values of abs(hash(login)) % 10000
  LogoutDelay,  \* LOGOUT_DELAY_SECONDS > 0
  Serial,       \* a login's client waits for the answer to its last login
  Stalled,      \* logins whose compose command may never return
  MaxMessages,  \* bound: messages received
  Faults,       \* the fault kinds of FaultKinds that may occur
  MaxFaults     \* bound: how many of them occur

FaultKinds == {"crash", "database", "docker"}

ASSUME PortsAssumption == PortHashes \subseteq 0 .. 9999
ASSUME BoundsAssumption ==
  /\ {MaxMessages, MaxFaults} \subseteq Nat
  /\ {LogoutDelay, Serial} \subseteq BOOLEAN
  /\ Faults \subseteq FaultKinds
  /\ Stalled \subseteq Logins

VARIABLES
  portHash,  \* abs(hash(login)) % 10000 in this router process
  accounts,  \* table users
  stacks,    \* the host ports that the containers of a login publish
  lock,      \* _client_locks: the worker that holds a login's lock
  timers,    \* logout_timers: the worker whose timer is stored for a login
  workers,   \* one per message received
  faults     \* faults so far

vars == <<portHash, accounts, stacks, lock, timers, workers, faults>>

-----------------------------------------------------------------------------
NoWorker == 0
NoPort == -1
NoPassword == "none"

\* A user row; its three ports follow from one hash.
Account == [password : Passwords, portHash : PortHashes]
NoAccount == [password |-> NoPassword, portHash |-> NoPort]

Ports(hash) == {15432 + hash, 15672 + hash, 25672 + hash}

\* The containers of a stack that publish ports: its database and its broker.
Containers(hash) == {{15432 + hash}, {15672 + hash, 25672 + hash}}
Down == {}

\* Ports the router's own containers publish (docker-compose.yml).
HostPorts == {5433, 5672, 15672}

\* The containers of a login whose ports nobody else publishes.
Taken(login) == HostPorts \cup UNION {stacks[other] : other \in Logins \ {login}}
Startable(login, hash) == {c \in Containers(hash) : c \cap Taken(login) = {}}

\* The steps inside `with self._client_lock(login)`, and those of them that
\* are a docker compose command.
Locked ==
  {"user", "create", "restart", "add", "reread", "accept", "stopping"}
Composing == {"create", "restart", "stopping"}

\* "armed" is a running timer, "fired" one that can no longer be cancelled.
LoginSteps == {"login", "lock", "answer"} \cup (Locked \ {"stopping"})
LogoutSteps == {"logout", "schedule", "armed", "fired", "stopping"}

\* `overlapped` is history: another logout of the login was between its receipt
\* and its timer at the same time.
Worker ==
  [type : {"login"}, login : Logins, password : Passwords,
   step : LoginSteps \cup {"done"}, port : PortHashes \cup {NoPort},
   reply : {"none", "accepted", "rejected", "server error"},
   overlapped : {FALSE}]
    \cup
  [type : {"logout"}, login : Logins, password : {NoPassword},
   step : LogoutSteps \cup {"done"}, port : {NoPort}, reply : {"none"},
   overlapped : BOOLEAN]

\* Variant: one lock for everybody.
OneLock(login) == CHOOSE any \in Logins : TRUE

\* _client_lock: each login has a lock of its own.
LockOf(login) == login

TypeOK ==
  /\ portHash \in [Logins -> PortHashes]
  /\ accounts \in [Logins -> Account \cup {NoAccount}]
  /\ stacks \in [Logins -> SUBSET UNION {Ports(hash) : hash \in PortHashes}]
  /\ workers \in Seq(Worker)
  /\ \A w \in 1 .. Len(workers) :
       workers[w].step \in {"create", "restart", "add", "reread", "accept", "answer"}
         => workers[w].port \in PortHashes
  /\ lock \in [Logins -> (1 .. Len(workers)) \cup {NoWorker}]
  /\ timers \in [Logins -> (1 .. Len(workers)) \cup {NoWorker}]
  /\ faults \in 0 .. MaxFaults

Init ==
  /\ portHash \in [Logins -> PortHashes]
  /\ accounts = [login \in Logins |-> NoAccount]
  /\ stacks = [login \in Logins |-> Down]
  /\ lock = [login \in Logins |-> NoWorker]
  /\ timers = [login \in Logins |-> NoWorker]
  /\ workers = << >>
  /\ faults = 0

-----------------------------------------------------------------------------
(* Steps of worker w.                                                      *)

At(w, step) == workers[w].step = step
Login(w) == workers[w].login
Lock(w) == LockOf(Login(w))

Goto(w, step) == workers' = [workers EXCEPT ![w].step = step]
Answer(w, reply) ==
  workers' = [workers EXCEPT ![w].step = "done", ![w].reply = reply]

\* Variant: the lock is taken from whoever holds it.
AcquireAnyway(w) == lock' = [lock EXCEPT ![Lock(w)] = w]
Acquire(w) == lock[Lock(w)] = NoWorker /\ lock' = [lock EXCEPT ![Lock(w)] = w]
Release(w) == lock' = [lock EXCEPT ![Lock(w)] = NoWorker]

Fault(kind) ==
  /\ kind \in Faults
  /\ faults < MaxFaults
  /\ faults' = faults + 1

\* The logouts of a login whose threads have not come to their timers.
Scheduling(login) ==
  {w \in DOMAIN workers : Login(w) = login /\ workers[w].step \in {"logout", "schedule"}}

\* receive_message: acknowledge and start a thread.  The message comes from a
\* client (not part of src/).  Only a login is answered.
ReceiveLogin(login) ==
  /\ \E password \in Passwords :
       workers' = Append(workers,
         [type |-> "login", login |-> login, password |-> password,
          step |-> "login", port |-> NoPort, reply |-> "none", overlapped |-> FALSE])
  /\ UNCHANGED <<portHash, accounts, stacks, lock, timers, faults>>

ReceiveLogout(login) ==
  /\ workers' = Append(
       [w \in DOMAIN workers |-> IF w \in Scheduling(login)
          THEN [workers[w] EXCEPT !.overlapped = TRUE] ELSE workers[w]],
       [type |-> "logout", login |-> login, password |-> NoPassword,
        step |-> "logout", port |-> NoPort, reply |-> "none",
        overlapped |-> Scheduling(login) # {}])
  /\ UNCHANGED <<portHash, accounts, stacks, lock, timers, faults>>

Receive ==
  /\ Len(workers) < MaxMessages
  /\ \E login \in Logins :
       /\ Serial => \A w \in 1 .. Len(workers) :
                      Login(w) = login /\ workers[w].type = "login" => At(w, "done")
       /\ ReceiveLogin(login) \/ ReceiveLogout(login)

\* Variant: the timer is only forgotten.
PopTimer(w, next) ==
  /\ timers' = [timers EXCEPT ![Login(w)] = NoWorker]
  /\ Goto(w, next)
  /\ UNCHANGED <<portHash, accounts, stacks, lock, faults>>

\* _cancel_logout, then `next`: a timer that has fired is past cancelling.
CancelLogout(w, next) ==
  LET t == timers[Login(w)] IN
    /\ timers' = [timers EXCEPT ![Login(w)] = NoWorker]
    /\ workers' = [v \in DOMAIN workers |->
         CASE v = w                         -> [workers[v] EXCEPT !.step = next]
           [] v = t /\ v # w /\ At(v, "armed") -> [workers[v] EXCEPT !.step = "done"]
           [] OTHER                         -> workers[v]]
    /\ UNCHANGED <<portHash, accounts, stacks, lock, faults>>

\* _handle_login and _schedule_logout begin with it.
BeginLogin(w) == At(w, "login") /\ CancelLogout(w, "lock")
BeginLogout(w) == At(w, "logout") /\ CancelLogout(w, "schedule")

\* Variant: the timer is stored and never started.
StoreTimer(w) ==
  /\ At(w, "schedule")
  /\ Goto(w, "done")
  /\ timers' = [timers EXCEPT ![Login(w)] = w]
  /\ UNCHANGED <<portHash, accounts, stacks, lock, faults>>

\* The rest of _schedule_logout: the timer is stored and started, or the stack
\* is stopped at once.
ScheduleLogout(w) ==
  /\ At(w, "schedule")
  /\ IF LogoutDelay
       THEN Goto(w, "armed") /\ timers' = [timers EXCEPT ![Login(w)] = w]
       ELSE Goto(w, "fired") /\ UNCHANGED timers
  /\ UNCHANGED <<portHash, accounts, stacks, lock, faults>>

TimerFires(w) ==
  /\ At(w, "armed")
  /\ Goto(w, "fired")
  /\ UNCHANGED <<portHash, accounts, stacks, lock, timers, faults>>

\* The `with` of _handle_login and of _stop_client.
EnterLock(w) ==
  /\ \/ At(w, "lock") /\ Goto(w, "user")
     \/ At(w, "fired") /\ Goto(w, "stopping")
  /\ Acquire(w)
  /\ UNCHANGED <<portHash, accounts, stacks, timers, faults>>

GetUserFrame == UNCHANGED <<portHash, accounts, stacks, timers, faults>>

\* start_client's ports, or restart_client's.
Create(w) ==
  /\ workers' = [workers EXCEPT ![w].step = "create",
                                ![w].port = portHash[Login(w)]]
  /\ UNCHANGED lock
Restart(w, hash) ==
  /\ workers' = [workers EXCEPT ![w].step = "restart", ![w].port = hash]
  /\ UNCHANGED lock
Reject(w) == Answer(w, "rejected") /\ Release(w)

\* Variants: no password check; ports computed anew; ports not passed on.
GetUserUnchecked(w) ==
  /\ At(w, "user")
  /\ IF accounts[Login(w)] = NoAccount
       THEN Create(w) ELSE Restart(w, accounts[Login(w)].portHash)
  /\ GetUserFrame
GetUserRehashed(w) ==
  /\ At(w, "user")
  /\ IF accounts[Login(w)] = NoAccount THEN Create(w)
       ELSE IF accounts[Login(w)].password # workers[w].password THEN Reject(w)
       ELSE Restart(w, portHash[Login(w)])
  /\ GetUserFrame
GetUserPortless(w) ==
  /\ At(w, "user")
  /\ IF accounts[Login(w)] = NoAccount THEN Create(w)
       ELSE IF accounts[Login(w)].password # workers[w].password THEN Reject(w)
       ELSE Restart(w, workers[w].port)
  /\ GetUserFrame

\* get_user: an unknown login makes a new account, with ports of its own; a
\* known one must come with the account's password.
GetUser(w) ==
  /\ At(w, "user")
  /\ IF accounts[Login(w)] = NoAccount THEN Create(w)
       ELSE IF accounts[Login(w)].password # workers[w].password THEN Reject(w)
       ELSE Restart(w, accounts[Login(w)].portHash)
  /\ GetUserFrame

\* _run_compose: whether `up` succeeds or not, the login goes on.  It replaces the
\* containers of other ports; if it cannot start one of them, the others may run
\* or not.  A command that fails for another reason, or is cut off after 300 s,
\* may have changed nothing.
Up(login, hash, started) ==
  LET startable == Startable(login, hash) IN
    /\ {c \in startable : c \subseteq stacks[login]} \subseteq started
    /\ started \subseteq startable
    /\ startable = Containers(hash) => started = startable
    /\ stacks' = [stacks EXCEPT ![login] = UNION started]

ComposeUp(w) ==
  /\ \/ At(w, "create") /\ Goto(w, "add")
     \/ At(w, "restart") /\ Goto(w, "accept")
  /\ \/ /\ \E started \in SUBSET Containers(workers[w].port) :
              Up(Login(w), workers[w].port, started)
        /\ UNCHANGED faults
     \/ Fault("docker") /\ UNCHANGED stacks
  /\ UNCHANGED <<portHash, accounts, lock, timers>>

\* add_user: the login is unique in table users.
AddUser(w) ==
  /\ At(w, "add")
  /\ IF accounts[Login(w)] = NoAccount
       THEN /\ accounts' = [accounts EXCEPT ![Login(w)] =
                 [password |-> workers[w].password, portHash |-> workers[w].port]]
            /\ Goto(w, "reread")
            /\ UNCHANGED lock
       ELSE Answer(w, "server error") /\ Release(w) /\ UNCHANGED accounts
  /\ UNCHANGED <<portHash, stacks, timers, faults>>

\* A new user's row is read again.
Reread(w) ==
  /\ At(w, "reread")
  /\ Goto(w, "accept")
  /\ UNCHANGED <<portHash, accounts, stacks, lock, timers, faults>>

\* The `with` ends; the answer is sent outside it.
LeaveLock(w) ==
  /\ At(w, "accept")
  /\ Goto(w, "answer")
  /\ Release(w)
  /\ UNCHANGED <<portHash, accounts, stacks, timers, faults>>

Accept(w) ==
  /\ At(w, "answer")
  /\ Answer(w, "accepted")
  /\ UNCHANGED <<portHash, accounts, stacks, lock, timers, faults>>

\* stop_client: a failure of `down` is only logged.
StopClient(w) ==
  /\ At(w, "stopping")
  /\ Goto(w, "done")
  /\ Release(w)
  /\ \/ stacks' = [stacks EXCEPT ![Login(w)] = Down] /\ UNCHANGED faults
     \/ Fault("docker") /\ UNCHANGED stacks
  /\ UNCHANGED <<portHash, accounts, timers>>

\* The database call of a login raises; _handle_message answers.
DatabaseError(w) ==
  /\ At(w, "user") \/ At(w, "add") \/ At(w, "reread")
  /\ Fault("database")
  /\ Answer(w, "server error")
  /\ Release(w)
  /\ UNCHANGED <<portHash, accounts, stacks, timers>>

\* The router dies with its threads, locks and timers.  Its messages were
\* acknowledged; the new process hashes strings with another seed.
Crash ==
  /\ Fault("crash")
  /\ portHash' \in [Logins -> PortHashes]
  /\ lock' = [login \in Logins |-> NoWorker]
  /\ timers' = [login \in Logins |-> NoWorker]
  /\ workers' = [w \in DOMAIN workers |-> [workers[w] EXCEPT !.step = "done"]]
  /\ UNCHANGED <<accounts, stacks>>

Compose(w) == ComposeUp(w) \/ StopClient(w)

Work(w) ==
  \/ BeginLogin(w) \/ BeginLogout(w) \/ ScheduleLogout(w) \/ TimerFires(w)
  \/ EnterLock(w) \/ GetUser(w) \/ AddUser(w) \/ Reread(w)
  \/ LeaveLock(w) \/ Accept(w)

Next ==
  \/ Receive
  \/ \E w \in 1 .. Len(workers) : Work(w) \/ Compose(w) \/ DatabaseError(w)
  \/ Crash

Spec == Init /\ [][Next]_vars

\* Threads are scheduled, timers fire, and `up` ends within its timeout of
\* 300 s; `down` has no timeout, so a stalled login's commands may hang.
FairSpec ==
  /\ Spec
  /\ \A w \in 1 .. MaxMessages :
       /\ WF_vars(w <= Len(workers) /\ Work(w))
       /\ WF_vars(w <= Len(workers) /\ Login(w) \notin Stalled /\ Compose(w))

-----------------------------------------------------------------------------
(* Properties.                                                             *)

\* No two compose commands of one login run at a time: "launching compose a
\* second time over the first" is what receive_message and the lock prevent.
OneComposeAtATime ==
  \A v, w \in 1 .. Len(workers) :
    /\ Login(v) = Login(w)
    /\ workers[v].step \in Composing
    /\ workers[w].step \in Composing
    => v = w

\* Of two first logins with different passwords only one makes the account,
\* and whoever is accepted knows its password.
AcceptedKnowsPassword ==
  \A w \in 1 .. Len(workers) :
    workers[w].reply = "accepted"
      => accounts[Login(w)].password = workers[w].password

\* Racing logins never fail on each other: who is answered "Server error" met a
\* database fault in that very step.
ServerErrorMeansFault ==
  [][\A w \in 1 .. Len(workers) :
       workers'[w].reply = "server error" /\ workers[w].reply # "server error"
         => "database" \in Faults /\ faults' = faults + 1]_vars

\* A login is told the account's port for ever, and whatever crash or database
\* error came between `up` and add_user, the stack publishes no other ports.
UpWhereAccountSays ==
  \A login \in Logins :
    accounts[login] # NoAccount
      => stacks[login] \subseteq Ports(accounts[login].portHash)

\* "One user's slow first login no longer blocks everyone else's."
OthersAreAnswered ==
  \A w \in 1 .. MaxMessages :
    (w <= Len(workers) /\ Login(w) \notin Stalled /\ At(w, "login"))
      ~> (w <= Len(workers) /\ At(w, "done"))

\* The stack of a user who logged out and stayed away is stopped, unless docker
\* fails or this user's command hangs.
LastMessage(login, w) ==
  /\ w <= Len(workers)
  /\ Login(w) = login
  /\ \A v \in w + 1 .. Len(workers) : Login(v) # login
LogoutStops ==
  \A login \in Logins \ Stalled, w \in 1 .. MaxMessages :
    (LastMessage(login, w) /\ workers[w].type = "logout")
      ~> (stacks[login] = Down \/ ~LastMessage(login, w) \/ faults > 0)

\* A client that logs in again while its logout is pending keeps its stack: the
\* login that begins cancels the timer, whatever the threads of earlier messages
\* did.  Two logouts that overlap are the exception: the timer stored first is
\* forgotten and fires.  So does a timer that is not armed yet: a login whose thread
\* overtakes that of its logout cancels nothing.
LoginCancelsTimer ==
  [][\A v, w \in 1 .. Len(workers) :
       /\ Login(v) = Login(w)
       /\ At(v, "login") /\ workers'[v].step # "login"
       /\ At(w, "armed") /\ ~workers[w].overlapped
       => workers'[w].step = "done"]_vars

\* README.md: every user gets a personal set of containers, and requests go
\* straight to the user's own agent by the port the login was answered.
AcceptedReachesOwnStack ==
  [][\A w \in 1 .. Len(workers) :
       At(w, "answer") /\ workers'[w].reply = "accepted"
         => \A other \in Logins \ {Login(w)} :
              15672 + workers[w].port \notin stacks[other]]_vars
=============================================================================
