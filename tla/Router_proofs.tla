---------------------------- MODULE Router_proofs ----------------------------
(***************************************************************************)
(* The safety of the router for every set of logins, passwords and ports,  *)
(* every number of concurrent threads and every pattern of crashes and     *)
(* failures.                                                               *)
(*                                                                         *)
(* LockHeld is the heart of it: a worker inside `with _client_lock` is the *)
(* one its login's lock names, so two workers inside it are one.  Vetted   *)
(* says what such a worker knows about the account: no thread of the same  *)
(* login can change that before it has left the lock, and afterwards an    *)
(* account is there for good.                                              *)
(***************************************************************************)
EXTENDS Router, SequenceTheorems, TLAPS

LockHeld ==
  \A w \in 1 .. Len(workers) : workers[w].step \in Locked => lock[Lock(w)] = w

Vetted ==
  \A w \in 1 .. Len(workers) :
    /\ \/ workers[w].step \in {"restart", "reread", "accept", "answer"}
       \/ workers[w].reply = "accepted"
       => /\ accounts[Login(w)] # NoAccount
          /\ accounts[Login(w)].password = workers[w].password
    /\ workers[w].step \in {"create", "add"} => accounts[Login(w)] = NoAccount

IInv == TypeOK /\ LockHeld /\ Vetted

AllPorts == UNION {Ports(hash) : hash \in PortHashes}

USE DEF LockOf, Lock, Login, At

-----------------------------------------------------------------------------
(* Workers.                                                                *)

\* What the step of a worker says of the message it handles.
LEMMA WorkerKind ==
  ASSUME NEW r \in Worker
  PROVE  /\ r.login \in Logins
         /\ r.type \in {"login", "logout"}
         /\ r.step \in LoginSteps => r.type = "login" /\ r.password \in Passwords
         /\ r.step \in LogoutSteps => r.type = "logout"
         /\ r.step \in LoginSteps \cup LogoutSteps \cup {"done"}
  BY DEF Worker, LoginSteps, LogoutSteps, Locked

\* A worker that goes on to another step of its message.
LEMMA StepChange ==
  ASSUME NEW r \in Worker, NEW step,
         \/ r.type = "login" /\ step \in LoginSteps \cup {"done"}
         \/ r.type = "logout" /\ step \in LogoutSteps \cup {"done"}
  PROVE  /\ [r EXCEPT !.step = step] \in Worker
         /\ [r EXCEPT !.step = step].step = step
         /\ [r EXCEPT !.step = step].login = r.login
         /\ [r EXCEPT !.step = step].password = r.password
         /\ [r EXCEPT !.step = step].port = r.port
         /\ [r EXCEPT !.step = step].reply = r.reply
         /\ [r EXCEPT !.step = step].overlapped = r.overlapped
  BY DEF Worker

\* Worker w becomes r, nobody else changes.
Moves(w, r) ==
  /\ workers' \in Seq(Worker)
  /\ Len(workers') = Len(workers)
  /\ workers'[w] = r
  /\ \A v \in 1 .. Len(workers) : v # w => workers'[v] = workers[v]

\* Replacing one worker moves that worker only.
LEMMA Replaced ==
  ASSUME workers \in Seq(Worker), NEW w \in 1 .. Len(workers), NEW r \in Worker,
         workers' = [workers EXCEPT ![w] = r]
  PROVE  Moves(w, r)
  BY ExceptSeq DEF Moves

\* Goto moves a worker to a step of its message.
LEMMA GotoMoves ==
  ASSUME TypeOK, NEW w \in 1 .. Len(workers), NEW step, Goto(w, step),
         \/ workers[w].type = "login" /\ step \in LoginSteps \cup {"done"}
         \/ workers[w].type = "logout" /\ step \in LogoutSteps \cup {"done"}
  PROVE  /\ Moves(w, [workers[w] EXCEPT !.step = step])
         /\ workers'[w].step = step
         /\ workers'[w].login = workers[w].login
         /\ workers'[w].password = workers[w].password
         /\ workers'[w].port = workers[w].port
         /\ workers'[w].reply = workers[w].reply
         /\ workers'[w].overlapped = workers[w].overlapped
  <1> DEFINE r == [workers[w] EXCEPT !.step = step]
  <1>1. workers \in Seq(Worker) /\ workers[w] \in Worker
    BY ElementOfSeq DEF TypeOK
  <1>2. /\ r \in Worker
        /\ r.step = step
        /\ r.login = workers[w].login
        /\ r.password = workers[w].password
        /\ r.port = workers[w].port
        /\ r.reply = workers[w].reply
        /\ r.overlapped = workers[w].overlapped
    BY <1>1, StepChange
  <1>3. workers' = [workers EXCEPT ![w] = r]
    BY DEF Goto
  <1> HIDE DEF r
  <1>4. Moves(w, r)
    BY <1>1, <1>2, <1>3, Replaced
  <1> QED
    BY <1>2, <1>4 DEF Moves, r

\* Answer ends a login.
LEMMA AnswerMoves ==
  ASSUME TypeOK, NEW w \in 1 .. Len(workers), workers[w].type = "login",
         NEW reply \in {"accepted", "rejected", "server error"}, Answer(w, reply)
  PROVE  /\ \E r \in Worker : Moves(w, r)
         /\ workers'[w].step = "done"
         /\ workers'[w].login = workers[w].login
         /\ workers'[w].password = workers[w].password
         /\ workers'[w].reply = reply
         /\ workers'[w].overlapped = workers[w].overlapped
  <1> DEFINE r == [[workers[w] EXCEPT !.step = "done"] EXCEPT !.reply = reply]
  <1>1. workers \in Seq(Worker) /\ workers[w] \in Worker
    BY ElementOfSeq DEF TypeOK
  <1>2. /\ r \in Worker
        /\ r.step = "done"
        /\ r.login = workers[w].login
        /\ r.password = workers[w].password
        /\ r.reply = reply
        /\ r.overlapped = workers[w].overlapped
    BY <1>1 DEF Worker
  <1>3. workers' = [workers EXCEPT ![w] = r]
    BY <1>1 DEF Answer
  <1> HIDE DEF r
  <1>4. Moves(w, r)
    BY <1>1, <1>2, <1>3, Replaced
  <1> QED
    BY <1>2, <1>4 DEF Moves

\* A login learns the ports it is to work with.
LEMMA PortMoves ==
  ASSUME TypeOK, NEW w \in 1 .. Len(workers), workers[w].type = "login",
         NEW step \in {"create", "restart"}, NEW hash \in PortHashes,
         workers' = [workers EXCEPT ![w].step = step, ![w].port = hash]
  PROVE  /\ \E r \in Worker : Moves(w, r)
         /\ workers'[w].step = step
         /\ workers'[w].login = workers[w].login
         /\ workers'[w].password = workers[w].password
         /\ workers'[w].port = hash
         /\ workers'[w].reply = workers[w].reply
         /\ workers'[w].overlapped = workers[w].overlapped
  <1> DEFINE r == [[workers[w] EXCEPT !.step = step] EXCEPT !.port = hash]
  <1>1. workers \in Seq(Worker) /\ workers[w] \in Worker
    BY ElementOfSeq DEF TypeOK
  <1>2. /\ r \in Worker
        /\ r.step = step
        /\ r.login = workers[w].login
        /\ r.password = workers[w].password
        /\ r.port = hash
        /\ r.reply = workers[w].reply
        /\ r.overlapped = workers[w].overlapped
    BY <1>1 DEF Worker, LoginSteps, Locked
  <1>3. workers' = [workers EXCEPT ![w] = r]
    BY <1>1
  <1> HIDE DEF r
  <1>4. Moves(w, r)
    BY <1>1, <1>2, <1>3, Replaced
  <1> QED
    BY <1>2, <1>4 DEF Moves

-----------------------------------------------------------------------------
(* What a step of one worker leaves of the invariant.                      *)

\* Type correctness, given that of what the step assigns.
LEMMA TypeByMove ==
  ASSUME TypeOK, NEW w \in 1 .. Len(workers), \E r \in Worker : Moves(w, r),
         workers'[w].step \in {"create", "restart", "add", "reread", "accept", "answer"}
           => workers'[w].port \in PortHashes,
         UNCHANGED portHash,
         accounts' \in [Logins -> Account \cup {NoAccount}],
         stacks' \in [Logins -> SUBSET AllPorts],
         lock' \in [Logins -> (1 .. Len(workers)) \cup {NoWorker}],
         timers' \in [Logins -> (1 .. Len(workers)) \cup {NoWorker}],
         faults' \in 0 .. MaxFaults
  PROVE  TypeOK'
  BY DEF TypeOK, Moves, AllPorts

\* A lock is taken when free, kept while inside `with`, given back on leaving.
LEMMA LockByMove ==
  ASSUME TypeOK, LockHeld, NEW w \in 1 .. Len(workers),
         \E r \in Worker : Moves(w, r), workers'[w].login = workers[w].login,
         \/ /\ UNCHANGED lock
            /\ workers'[w].step \in Locked => workers[w].step \in Locked
         \/ Acquire(w)
         \/ /\ Release(w)
            /\ workers[w].step \in Locked
            /\ workers'[w].step \notin Locked
  PROVE  LockHeld'
  <1>1. /\ \A v \in 1 .. Len(workers) : v # w => workers'[v] = workers[v]
        /\ Len(workers') = Len(workers)
    BY DEF Moves
  <1>2. \A v \in 1 .. Len(workers) : workers[v].login \in Logins
    BY ElementOfSeq, WorkerKind DEF TypeOK
  <1>3. \A v \in 1 .. Len(workers) : v # NoWorker
    BY DEF NoWorker
  <1> QED
    BY <1>1, <1>2, <1>3 DEF LockHeld, Acquire, Release, TypeOK

\* The account is as the worker knows it, if the step does not change it.
LEMMA VettedByMove ==
  ASSUME TypeOK, Vetted, NEW w \in 1 .. Len(workers),
         \E r \in Worker : Moves(w, r), workers'[w].login = workers[w].login,
         workers'[w].password = workers[w].password, UNCHANGED accounts,
         \/ workers'[w].step \in {"restart", "reread", "accept", "answer"}
         \/ workers'[w].reply = "accepted"
         => /\ accounts[Login(w)] # NoAccount
            /\ accounts[Login(w)].password = workers[w].password,
         workers'[w].step \in {"create", "add"} => accounts[Login(w)] = NoAccount
  PROVE  Vetted'
  <1>1. /\ \A v \in 1 .. Len(workers) : v # w => workers'[v] = workers[v]
        /\ Len(workers') = Len(workers)
    BY DEF Moves
  <1> QED
    BY <1>1 DEF Vetted

\* What `up` changes: the stack of its login, on the ports it was given.
LEMMA UpPorts ==
  ASSUME stacks \in [Logins -> SUBSET AllPorts], NEW login \in Logins,
         NEW hash \in PortHashes, NEW started \in SUBSET Containers(hash),
         Up(login, hash, started)
  PROVE  /\ stacks' \in [Logins -> SUBSET AllPorts]
         /\ stacks'[login] \subseteq Ports(hash)
         /\ \A other \in Logins \ {login} : stacks'[other] = stacks[other]
  <1>1. stacks' = [stacks EXCEPT ![login] = UNION started]
    BY DEF Up
  <1>2. UNION started \subseteq Ports(hash)
    BY DEF Containers, Ports
  <1>3. Ports(hash) \subseteq AllPorts
    BY DEF AllPorts
  <1> QED
    BY <1>1, <1>2, <1>3

\* Inside the lock a worker is alone with its login.
LEMMA Alone ==
  ASSUME LockHeld, NEW v \in 1 .. Len(workers), NEW w \in 1 .. Len(workers),
         Login(v) = Login(w),
         workers[v].step \in Locked, workers[w].step \in Locked
  PROVE  v = w
  BY DEF LockHeld

\* A worker that only goes on to another step, outside or inside the lock.
LEMMA StepsOn ==
  ASSUME IInv, NEW w \in 1 .. Len(workers), NEW step, Goto(w, step),
         \/ workers[w].type = "login" /\ step \in LoginSteps \cup {"done"}
         \/ workers[w].type = "logout" /\ step \in LogoutSteps \cup {"done"},
         \/ workers[w].step = "create" /\ step = "add"
         \/ workers[w].step = "restart" /\ step = "accept"
         \/ workers[w].step = "reread" /\ step = "accept"
         \/ workers[w].step = "accept" /\ step = "answer"
         \/ step \notin {"create", "restart", "add", "reread", "accept", "answer"},
         \/ UNCHANGED lock /\ (step \in Locked => workers[w].step \in Locked)
         \/ Acquire(w)
         \/ Release(w) /\ workers[w].step \in Locked /\ step \notin Locked,
         UNCHANGED <<portHash, accounts>>,
         stacks' \in [Logins -> SUBSET AllPorts],
         timers' \in [Logins -> (1 .. Len(workers)) \cup {NoWorker}],
         faults' \in 0 .. MaxFaults
  PROVE  IInv'
  <1>1. TypeOK /\ LockHeld /\ Vetted
    BY DEF IInv
  <1>2. workers \in Seq(Worker) /\ workers[w] \in Worker
    BY <1>1, ElementOfSeq DEF TypeOK
  <1>3. /\ \E r \in Worker : Moves(w, r)
        /\ workers'[w].step = step
        /\ workers'[w].login = workers[w].login
        /\ workers'[w].password = workers[w].password
        /\ workers'[w].port = workers[w].port
        /\ workers'[w].reply = workers[w].reply
    <2>1. [workers[w] EXCEPT !.step = step] \in Worker
      BY <1>2, StepChange
    <2> QED
      BY <1>1, <2>1, GotoMoves
  <1>4. lock' \in [Logins -> (1 .. Len(workers)) \cup {NoWorker}]
    BY <1>1 DEF TypeOK, Acquire, Release
  <1>5. TypeOK'
    <2>1. step \in {"create", "restart", "add", "reread", "accept", "answer"}
            => workers[w].port \in PortHashes
      BY <1>1 DEF TypeOK
    <2> QED
      BY <1>1, <1>3, <1>4, <2>1, TypeByMove DEF TypeOK
  <1>6. LockHeld'
    BY <1>1, <1>3, LockByMove
  <1>7. Vetted'
    BY <1>1, <1>3, VettedByMove DEF Vetted
  <1> QED
    BY <1>5, <1>6, <1>7 DEF IInv

\* A worker that answers its login, inside the lock or after it.
LEMMA Answers ==
  ASSUME IInv, NEW w \in 1 .. Len(workers), workers[w].type = "login",
         NEW reply, Answer(w, reply),
         \/ /\ reply \in {"rejected", "server error"}
            /\ workers[w].step \in Locked /\ Release(w)
         \/ /\ reply = "accepted"
            /\ workers[w].step = "answer" /\ UNCHANGED lock,
         UNCHANGED <<portHash, accounts, stacks, timers>>,
         faults' \in 0 .. MaxFaults
  PROVE  IInv'
  <1>1. TypeOK /\ LockHeld /\ Vetted
    BY DEF IInv
  <1>2. /\ \E r \in Worker : Moves(w, r)
        /\ workers'[w].step = "done"
        /\ workers'[w].login = workers[w].login
        /\ workers'[w].password = workers[w].password
        /\ workers'[w].reply = reply
    BY <1>1, AnswerMoves
  <1>3. lock' \in [Logins -> (1 .. Len(workers)) \cup {NoWorker}]
    BY <1>1 DEF TypeOK, Release
  <1>4. TypeOK'
    BY <1>1, <1>2, <1>3, TypeByMove DEF TypeOK, AllPorts
  <1>5. LockHeld'
    BY <1>1, <1>2, LockByMove DEF Locked
  <1>6. Vetted'
    BY <1>1, <1>2, VettedByMove DEF Vetted
  <1> QED
    BY <1>4, <1>5, <1>6 DEF IInv

-----------------------------------------------------------------------------
(* The actions.                                                            *)

\* What is known of a worker of the current state.
LEMMA WorkerHere ==
  ASSUME TypeOK, NEW w \in 1 .. Len(workers)
  PROVE  /\ workers \in Seq(Worker)
         /\ workers[w] \in Worker
         /\ workers[w].login \in Logins
         /\ workers[w].step \in LoginSteps
              => workers[w].type = "login" /\ workers[w].password \in Passwords
         /\ workers[w].step \in LogoutSteps => workers[w].type = "logout"
         /\ faults \in 0 .. MaxFaults
  <1>1. workers \in Seq(Worker) /\ faults \in 0 .. MaxFaults
    BY DEF TypeOK
  <1>2. workers[w] \in Worker
    BY <1>1, ElementOfSeq
  <1> QED
    BY <1>1, <1>2, WorkerKind

\* Fault counts one more fault.
LEMMA FaultStep ==
  ASSUME TypeOK, NEW kind, Fault(kind)
  PROVE  faults' \in 0 .. MaxFaults
  BY BoundsAssumption DEF Fault, TypeOK

\* A worker that stays where it is.
Keeps(v) ==
  /\ workers'[v].step = workers[v].step
  /\ workers'[v].login = workers[v].login
  /\ workers'[v].password = workers[v].password
  /\ workers'[v].port = workers[v].port
  /\ workers'[v].reply = workers[v].reply

\* A sequence over the indices of another one.
LEMMA MappedSeq ==
  ASSUME NEW S, NEW q \in Seq(S), NEW f \in [DOMAIN q -> S]
  PROVE  f \in Seq(S) /\ Len(f) = Len(q)
  <1>1. Len(q) \in Nat /\ DOMAIN q = 1 .. Len(q)
    BY LenProperties
  <1>2. f \in Seq(S)
    BY <1>1, SeqDef
  <1>3. Len(f) \in Nat /\ 1 .. Len(f) = 1 .. Len(q)
    BY <1>1, <1>2, LenProperties
  <1> QED
    BY <1>1, <1>2, <1>3

\* receive_message starts one thread, at its beginning; another logout of its login
\* that is still on its way to the timer overlaps with a new one.
LEMMA Received ==
  ASSUME TypeOK, Receive
  PROVE  /\ workers' \in Seq(Worker)
         /\ Len(workers) \in Nat
         /\ Len(workers') = Len(workers) + 1
         /\ workers'[Len(workers) + 1].step \in {"login", "logout"}
         /\ workers'[Len(workers) + 1].reply = "none"
         /\ \A v \in 1 .. Len(workers) :
              /\ Keeps(v)
              /\ \/ workers'[v].overlapped = workers[v].overlapped
                 \/ workers'[v].overlapped /\ workers[v].step \in {"logout", "schedule"}
              /\ workers[v].step \in {"logout", "schedule"}
                   /\ workers'[Len(workers) + 1].step = "logout"
                   /\ workers'[Len(workers) + 1].login = workers[v].login
                 => workers'[v].overlapped /\ workers'[Len(workers) + 1].overlapped
  <1>1. workers \in Seq(Worker) /\ Len(workers) \in Nat /\ DOMAIN workers = 1 .. Len(workers)
    BY LenProperties DEF TypeOK
  <1>2. PICK login \in Logins : ReceiveLogin(login) \/ ReceiveLogout(login)
    BY DEF Receive
  <1>3. CASE ReceiveLogin(login)
    <2>1. PICK password \in Passwords :
            workers' = Append(workers,
              [type |-> "login", login |-> login, password |-> password,
               step |-> "login", port |-> NoPort, reply |-> "none", overlapped |-> FALSE])
      BY <1>3 DEF ReceiveLogin
    <2> DEFINE r == [type |-> "login", login |-> login, password |-> password,
                     step |-> "login", port |-> NoPort, reply |-> "none", overlapped |-> FALSE]
    <2>2. r \in Worker /\ r.step = "login" /\ r.reply = "none"
      BY DEF Worker, LoginSteps
    <2>3. workers' = Append(workers, r)
      BY <2>1
    <2> HIDE DEF r
    <2>4. /\ workers' \in Seq(Worker)
          /\ Len(workers') = Len(workers) + 1
          /\ workers'[Len(workers) + 1] = r
          /\ \A v \in 1 .. Len(workers) : workers'[v] = workers[v]
      BY <1>1, <2>2, <2>3, AppendProperties
    <2> QED
      BY <1>1, <2>2, <2>4 DEF Keeps
  <1>4. CASE ReceiveLogout(login)
    <2> DEFINE Before(v) == IF v \in Scheduling(login)
                 THEN [workers[v] EXCEPT !.overlapped = TRUE] ELSE workers[v]
               f == [v \in DOMAIN workers |-> Before(v)]
               r == [type |-> "logout", login |-> login, password |-> NoPassword,
                     step |-> "logout", port |-> NoPort, reply |-> "none",
                     overlapped |-> Scheduling(login) # {}]
    <2>1. workers' = Append(f, r)
      BY <1>4 DEF ReceiveLogout
    <2>2. /\ r \in Worker /\ r.step = "logout" /\ r.reply = "none" /\ r.login = login
          /\ r.overlapped = (Scheduling(login) # {})
      BY DEF Worker, LogoutSteps
    <2>3. ASSUME NEW v \in 1 .. Len(workers)
          PROVE  /\ Before(v) \in Worker
                 /\ Before(v).step = workers[v].step
                 /\ Before(v).login = workers[v].login
                 /\ Before(v).password = workers[v].password
                 /\ Before(v).port = workers[v].port
                 /\ Before(v).reply = workers[v].reply
                 /\ Before(v).overlapped = (workers[v].overlapped \/ v \in Scheduling(login))
      <3>1. workers[v] \in Worker
        BY WorkerHere
      <3>2. CASE v \in Scheduling(login)
        <4>1. workers[v].type = "logout"
          BY <3>2, WorkerHere DEF Scheduling, LogoutSteps
        <4>2. workers[v].overlapped \in BOOLEAN
          BY <3>1, <4>1 DEF Worker
        <4> QED
          BY <3>1, <3>2, <4>1, <4>2 DEF Worker
      <3>3. CASE v \notin Scheduling(login)
        <4>1. workers[v].overlapped \in BOOLEAN
          BY <3>1 DEF Worker
        <4> QED
          BY <3>1, <3>3, <4>1
      <3> QED
        BY <3>2, <3>3
    <2> HIDE DEF Before, r
    <2>4. f \in [DOMAIN workers -> Worker]
      BY <1>1, <2>3
    <2>5. f \in Seq(Worker) /\ Len(f) = Len(workers)
      BY <1>1, <2>4, MappedSeq
    <2>6. \A v \in 1 .. Len(workers) : f[v] = Before(v)
      BY <1>1
    <2> HIDE DEF f
    <2>7. /\ workers' \in Seq(Worker)
          /\ Len(workers') = Len(workers) + 1
          /\ workers'[Len(workers) + 1] = r
          /\ \A v \in 1 .. Len(workers) : workers'[v] = Before(v)
      BY <2>1, <2>2, <2>5, <2>6, AppendProperties
    <2>8. ASSUME NEW v \in 1 .. Len(workers), workers[v].login = login,
                 workers[v].step \in {"logout", "schedule"}
          PROVE  workers'[v].overlapped /\ workers'[Len(workers) + 1].overlapped
      <3>1. v \in Scheduling(login)
        BY <1>1, <2>8 DEF Scheduling
      <3> QED
        BY <2>2, <2>3, <2>7, <3>1
    <2>9. ASSUME NEW v \in 1 .. Len(workers)
          PROVE  \/ workers'[v].overlapped = workers[v].overlapped
                 \/ workers'[v].overlapped /\ workers[v].step \in {"logout", "schedule"}
      <3>1. CASE v \in Scheduling(login)
        BY <2>3, <2>7, <3>1 DEF Scheduling
      <3>2. CASE v \notin Scheduling(login)
        <4>1. Before(v) = workers[v]
          BY <3>2 DEF Before
        <4> QED
          BY <2>7, <4>1
      <3> QED
        BY <3>1, <3>2
    <2> QED
      BY <1>1, <2>2, <2>3, <2>7, <2>8, <2>9 DEF Keeps
  <1> QED
    BY <1>2, <1>3, <1>4

LEMMA ReceiveFrame ==
  ASSUME Receive
  PROVE  UNCHANGED <<portHash, accounts, stacks, lock, timers, faults>>
  BY DEF Receive, ReceiveLogin, ReceiveLogout

\* A new thread holds no lock and has been told nothing.
LEMMA ReceiveStep ==
  ASSUME IInv, Receive
  PROVE  IInv'
  <1>1. TypeOK /\ LockHeld /\ Vetted
    BY DEF IInv
  <1>2. UNCHANGED <<portHash, accounts, stacks, lock, timers, faults>>
    BY ReceiveFrame
  <1>3. /\ workers' \in Seq(Worker) /\ Len(workers) \in Nat
        /\ Len(workers') = Len(workers) + 1
        /\ workers'[Len(workers) + 1].step \in {"login", "logout"}
        /\ workers'[Len(workers) + 1].reply = "none"
        /\ \A v \in 1 .. Len(workers) : Keeps(v)
    BY <1>1, Received
  <1>4. \A v \in 1 .. Len(workers') : v \in 1 .. Len(workers) \/ v = Len(workers) + 1
    BY <1>3
  <1>5. 1 .. Len(workers) \subseteq 1 .. Len(workers')
    BY <1>3
  <1>6. TypeOK'
    <2>1. \A v \in 1 .. Len(workers') :
            workers'[v].step \in {"create", "restart", "add", "reread", "accept", "answer"}
              => workers'[v].port \in PortHashes
      BY <1>1, <1>3, <1>4 DEF TypeOK, Keeps
    <2>2. /\ lock' \in [Logins -> (1 .. Len(workers')) \cup {NoWorker}]
          /\ timers' \in [Logins -> (1 .. Len(workers')) \cup {NoWorker}]
      BY <1>1, <1>2, <1>5 DEF TypeOK
    <2> QED
      BY <1>1, <1>2, <1>3, <2>1, <2>2 DEF TypeOK
  <1>7. LockHeld'
    BY <1>1, <1>2, <1>3, <1>4 DEF LockHeld, Locked, Keeps
  <1>8. Vetted'
    BY <1>1, <1>2, <1>3, <1>4 DEF Vetted, Keeps
  <1> QED
    BY <1>6, <1>7, <1>8 DEF IInv

\* _cancel_logout lets its own thread go on and ends the login's stored timer.
LEMMA Cancelled ==
  ASSUME TypeOK, NEW w \in 1 .. Len(workers), BeginLogin(w) \/ BeginLogout(w)
  PROVE  /\ workers' \in Seq(Worker) /\ Len(workers') = Len(workers)
         /\ timers' = [timers EXCEPT ![Login(w)] = NoWorker]
         /\ UNCHANGED <<portHash, accounts, stacks, lock, faults>>
         /\ \/ workers[w].step = "login" /\ workers'[w].step = "lock"
            \/ workers[w].step = "logout" /\ workers'[w].step = "schedule"
         /\ \A v \in 1 .. Len(workers) :
              /\ workers'[v].login = workers[v].login
              /\ workers'[v].password = workers[v].password
              /\ workers'[v].reply = workers[v].reply
              /\ workers'[v].overlapped = workers[v].overlapped
              /\ v # w /\ ~(v = timers[Login(w)] /\ At(v, "armed")) => workers'[v] = workers[v]
              /\ v # w /\ v = timers[Login(w)] /\ At(v, "armed") => workers'[v].step = "done"
  <1>1. workers \in Seq(Worker) /\ Len(workers) \in Nat /\ DOMAIN workers = 1 .. Len(workers)
    BY LenProperties DEF TypeOK
  <1>2. PICK next \in {"lock", "schedule"} :
          /\ CancelLogout(w, next)
          /\ \/ workers[w].step = "login" /\ next = "lock"
             \/ workers[w].step = "logout" /\ next = "schedule"
    BY DEF BeginLogin, BeginLogout
  <1> DEFINE t == timers[Login(w)]
             Moved(v) == CASE v = w -> [workers[v] EXCEPT !.step = next]
                           [] v = t /\ v # w /\ At(v, "armed")
                                -> [workers[v] EXCEPT !.step = "done"]
                           [] OTHER -> workers[v]
  <1>3. /\ workers' = [v \in DOMAIN workers |-> Moved(v)]
        /\ timers' = [timers EXCEPT ![Login(w)] = NoWorker]
        /\ UNCHANGED <<portHash, accounts, stacks, lock, faults>>
    BY <1>2 DEF CancelLogout
  <1>4. ASSUME NEW v \in 1 .. Len(workers)
        PROVE  /\ Moved(v) \in Worker
               /\ Moved(v).login = workers[v].login
               /\ Moved(v).password = workers[v].password
               /\ Moved(v).reply = workers[v].reply
               /\ Moved(v).overlapped = workers[v].overlapped
               /\ v = w => Moved(v).step = next
               /\ v # w /\ ~(v = t /\ At(v, "armed")) => Moved(v) = workers[v]
               /\ v # w /\ v = t /\ At(v, "armed") => Moved(v).step = "done"
    <2>1. workers[v] \in Worker
      BY WorkerHere
    <2>2. CASE v = w
      <3>1. \/ workers[v].type = "login" /\ next \in LoginSteps
            \/ workers[v].type = "logout" /\ next \in LogoutSteps
        BY <1>2, <2>2, WorkerHere DEF LoginSteps, LogoutSteps
      <3>2. Moved(v) = [workers[v] EXCEPT !.step = next]
        BY <2>2
      <3> HIDE DEF Moved
      <3> QED
        BY <2>1, <2>2, <3>1, <3>2, StepChange
    <2>3. CASE v # w /\ v = t /\ At(v, "armed")
      <3>1. workers[v].type = "logout"
        BY <2>3, WorkerHere DEF LogoutSteps
      <3>2. Moved(v) = [workers[v] EXCEPT !.step = "done"]
        BY <2>3
      <3> HIDE DEF Moved
      <3>3. /\ [workers[v] EXCEPT !.step = "done"] \in Worker
            /\ [workers[v] EXCEPT !.step = "done"].step = "done"
            /\ [workers[v] EXCEPT !.step = "done"].login = workers[v].login
            /\ [workers[v] EXCEPT !.step = "done"].password = workers[v].password
            /\ [workers[v] EXCEPT !.step = "done"].reply = workers[v].reply
            /\ [workers[v] EXCEPT !.step = "done"].overlapped = workers[v].overlapped
        BY <2>1, <3>1, StepChange
      <3> QED
        BY <2>3, <3>2, <3>3
    <2>4. CASE v # w /\ ~(v = t /\ At(v, "armed"))
      <3>1. Moved(v) = workers[v]
        BY <2>4
      <3> HIDE DEF Moved
      <3> QED
        BY <2>1, <2>4, <3>1
    <2> QED
      BY <2>2, <2>3, <2>4
  <1> HIDE DEF Moved
  <1>5. workers' \in [DOMAIN workers -> Worker] /\ \A v \in 1 .. Len(workers) : workers'[v] = Moved(v)
    BY <1>1, <1>3, <1>4
  <1>6. workers' \in Seq(Worker) /\ Len(workers') = Len(workers)
    BY <1>1, <1>5, MappedSeq
  <1> QED
    BY <1>2, <1>3, <1>4, <1>5, <1>6

\* A crash ends every thread and forgets every lock and timer.
LEMMA Crashed ==
  ASSUME TypeOK, Crash
  PROVE  /\ workers' \in Seq(Worker) /\ Len(workers') = Len(workers)
         /\ \A v \in 1 .. Len(workers) :
              /\ workers'[v].step = "done"
              /\ workers'[v].login = workers[v].login
              /\ workers'[v].password = workers[v].password
              /\ workers'[v].reply = workers[v].reply
  <1>1. workers \in Seq(Worker) /\ Len(workers) \in Nat /\ DOMAIN workers = 1 .. Len(workers)
    BY LenProperties DEF TypeOK
  <1>2. ASSUME NEW v \in 1 .. Len(workers)
        PROVE  /\ [workers[v] EXCEPT !.step = "done"] \in Worker
               /\ [workers[v] EXCEPT !.step = "done"].step = "done"
               /\ [workers[v] EXCEPT !.step = "done"].login = workers[v].login
               /\ [workers[v] EXCEPT !.step = "done"].password = workers[v].password
               /\ [workers[v] EXCEPT !.step = "done"].reply = workers[v].reply
    BY WorkerHere, WorkerKind, StepChange
  <1>3. /\ workers' \in [DOMAIN workers -> Worker]
        /\ \A v \in 1 .. Len(workers) : workers'[v] = [workers[v] EXCEPT !.step = "done"]
    BY <1>1, <1>2 DEF Crash
  <1>4. workers' \in Seq(Worker) /\ Len(workers') = Len(workers)
    BY <1>1, <1>3, MappedSeq
  <1> QED
    BY <1>2, <1>3, <1>4

\* Ending threads from outside (the worker's own move to a step without the
\* lock, a cancelled timer, a crash) gives no worker a lock or an answer.
LEMMA Dropped ==
  ASSUME IInv, workers' \in Seq(Worker), Len(workers') = Len(workers),
         \A v \in 1 .. Len(workers) :
           \/ workers'[v] = workers[v]
           \/ /\ workers'[v].login = workers[v].login
              /\ workers'[v].password = workers[v].password
              /\ workers'[v].reply = workers[v].reply
              /\ workers'[v].step \in {"lock", "schedule", "done"},
         \/ UNCHANGED lock
         \/ /\ lock' = [login \in Logins |-> NoWorker]
            /\ \A v \in 1 .. Len(workers) : workers'[v].step = "done",
         portHash' \in [Logins -> PortHashes], UNCHANGED <<accounts, stacks>>,
         timers' \in [Logins -> (1 .. Len(workers)) \cup {NoWorker}],
         faults' \in 0 .. MaxFaults
  PROVE  IInv'
  <1>1. TypeOK /\ LockHeld /\ Vetted
    BY DEF IInv
  <1>2. TypeOK'
    <2>1. lock' \in [Logins -> (1 .. Len(workers)) \cup {NoWorker}]
      BY <1>1 DEF TypeOK
    <2> QED
      BY <1>1, <2>1 DEF TypeOK
  <1>3. LockHeld'
    BY <1>1 DEF LockHeld, Locked
  <1>4. Vetted'
    BY <1>1 DEF Vetted
  <1> QED
    BY <1>2, <1>3, <1>4 DEF IInv

LEMMA CancelStep ==
  ASSUME IInv, NEW w \in 1 .. Len(workers), BeginLogin(w) \/ BeginLogout(w)
  PROVE  IInv'
  <1>1. TypeOK
    BY DEF IInv
  <1>2. timers' \in [Logins -> (1 .. Len(workers)) \cup {NoWorker}]
    BY <1>1, Cancelled DEF TypeOK
  <1>3. portHash' \in [Logins -> PortHashes] /\ faults' \in 0 .. MaxFaults
    BY <1>1, Cancelled DEF TypeOK
  <1> QED
    BY <1>1, <1>2, <1>3, Cancelled, Dropped

LEMMA CrashStep ==
  ASSUME IInv, Crash
  PROVE  IInv'
  <1>1. TypeOK
    BY DEF IInv
  <1>2. /\ portHash' \in [Logins -> PortHashes]
        /\ lock' = [login \in Logins |-> NoWorker]
        /\ timers' \in [Logins -> (1 .. Len(workers)) \cup {NoWorker}]
        /\ UNCHANGED <<accounts, stacks>>
    BY DEF Crash
  <1>3. faults' \in 0 .. MaxFaults
    BY <1>1, FaultStep DEF Crash
  <1> QED
    BY <1>1, <1>2, <1>3, Crashed, Dropped

\* get_user: what the login goes on with is what the account says now.
LEMMA GetUserStep ==
  ASSUME IInv, NEW w \in 1 .. Len(workers), GetUser(w)
  PROVE  IInv'
  <1>1. TypeOK /\ LockHeld /\ Vetted
    BY DEF IInv
  <1>2. /\ workers[w].step = "user"
        /\ UNCHANGED <<portHash, accounts, stacks, timers, faults>>
    BY DEF GetUser, GetUserFrame
  <1>3. workers[w].type = "login" /\ workers[w].login \in Logins
    BY <1>1, <1>2, WorkerHere DEF LoginSteps, Locked
  <1>4. CASE Reject(w)
    <2>1. faults' \in 0 .. MaxFaults
      BY <1>1, <1>2, WorkerHere
    <2> QED
      BY <1>2, <1>3, <1>4, <2>1, Answers DEF Reject, Locked
  <1>5. ASSUME NEW step \in {"create", "restart"}, NEW hash \in PortHashes,
               workers' = [workers EXCEPT ![w].step = step, ![w].port = hash],
               UNCHANGED lock,
               step = "create" => accounts[Login(w)] = NoAccount,
               step = "restart" => /\ accounts[Login(w)] # NoAccount
                                   /\ accounts[Login(w)].password = workers[w].password
        PROVE  IInv'
    <2>1. /\ \E r \in Worker : Moves(w, r)
          /\ workers'[w].step = step
          /\ workers'[w].login = workers[w].login
          /\ workers'[w].password = workers[w].password
          /\ workers'[w].port = hash
          /\ workers'[w].reply = workers[w].reply
      BY <1>1, <1>3, <1>5, PortMoves
    <2>2. TypeOK'
      BY <1>1, <1>2, <1>5, <2>1, TypeByMove DEF TypeOK, AllPorts
    <2>3. LockHeld'
      BY <1>1, <1>2, <1>5, <2>1, LockByMove DEF Locked
    <2>4. Vetted'
      BY <1>1, <1>2, <1>5, <2>1, VettedByMove DEF Vetted
    <2> QED
      BY <2>2, <2>3, <2>4 DEF IInv
  <1>6. CASE Create(w) /\ accounts[Login(w)] = NoAccount
    <2>1. portHash[Login(w)] \in PortHashes
      BY <1>1, <1>3 DEF TypeOK
    <2> QED
      BY <1>5, <1>6, <2>1 DEF Create
  <1>7. CASE /\ accounts[Login(w)] # NoAccount
             /\ accounts[Login(w)].password = workers[w].password
             /\ Restart(w, accounts[Login(w)].portHash)
    <2>1. accounts[Login(w)] \in Account
      BY <1>1, <1>3, <1>7 DEF TypeOK
    <2>2. accounts[Login(w)].portHash \in PortHashes
      BY <2>1 DEF Account
    <2> QED
      BY <1>5, <1>7, <2>2 DEF Restart
  <1> QED
    BY <1>4, <1>6, <1>7 DEF GetUser

\* A port hash is not the mark of a missing one.
LEMMA PortIsPort ==
  ASSUME NEW hash \in PortHashes
  PROVE  hash # NoPort
  BY PortsAssumption DEF NoPort

\* add_user: alone with its login, the worker makes the account it found
\* missing, and nobody else of the login is where that would matter.
LEMMA AddUserStep ==
  ASSUME IInv, NEW w \in 1 .. Len(workers), AddUser(w)
  PROVE  IInv'
  <1>1. TypeOK /\ LockHeld /\ Vetted
    BY DEF IInv
  <1>2. workers[w].step = "add" /\ UNCHANGED <<portHash, stacks, timers, faults>>
    BY DEF AddUser
  <1>3. /\ workers[w].type = "login"
        /\ workers[w].login \in Logins
        /\ workers[w].password \in Passwords
    BY <1>1, <1>2, WorkerHere DEF LoginSteps, Locked
  <1>4. accounts[Login(w)] = NoAccount
    BY <1>1, <1>2 DEF Vetted
  <1> DEFINE new == [password |-> workers[w].password, portHash |-> workers[w].port]
  <1>5. accounts' = [accounts EXCEPT ![Login(w)] = new] /\ Goto(w, "reread") /\ UNCHANGED lock
    BY <1>4 DEF AddUser
  <1>6. workers[w].port \in PortHashes
    BY <1>1, <1>2 DEF TypeOK
  <1>7. /\ new \in Account
        /\ new # NoAccount
        /\ new.password = workers[w].password
    <2>1. workers[w].port # NoPort
      BY <1>6, PortIsPort
    <2>2. NoAccount.portHash = NoPort
      BY DEF NoAccount
    <2>3. new.portHash = workers[w].port /\ new.password = workers[w].password
      OBVIOUS
    <2>4. new \in Account
      BY <1>3, <1>6 DEF Account
    <2> HIDE DEF new
    <2> QED
      BY <2>1, <2>2, <2>3, <2>4
  <1> HIDE DEF new
  <1>8. /\ accounts' \in [Logins -> Account \cup {NoAccount}]
        /\ accounts'[Login(w)] = new
        /\ \A login \in Logins : login # Login(w) => accounts'[login] = accounts[login]
    BY <1>1, <1>3, <1>5, <1>7 DEF TypeOK
  <1>9. /\ \E r \in Worker : Moves(w, r)
        /\ workers'[w].step = "reread"
        /\ workers'[w].login = workers[w].login
        /\ workers'[w].password = workers[w].password
        /\ workers'[w].port = workers[w].port
        /\ workers'[w].reply = workers[w].reply
    <2>1. [workers[w] EXCEPT !.step = "reread"] \in Worker
      BY <1>1, <1>3, WorkerHere, StepChange DEF LoginSteps, Locked
    <2> QED
      BY <1>1, <1>3, <1>5, <2>1, GotoMoves DEF LoginSteps, Locked
  <1>10. TypeOK'
    BY <1>1, <1>2, <1>5, <1>6, <1>8, <1>9, TypeByMove DEF TypeOK, AllPorts
  <1>11. LockHeld'
    BY <1>1, <1>2, <1>5, <1>9, LockByMove DEF Locked
  <1>12. ASSUME NEW v \in 1 .. Len(workers), v # w
         PROVE  /\ workers[v].step \notin
                        {"restart", "reread", "accept", "answer", "create", "add"}
                     \/ Login(v) # Login(w)
                /\ workers[v].reply = "accepted" => Login(v) # Login(w)
    BY <1>1, <1>2, <1>4, <1>12, Alone DEF Locked, Vetted
  <1>13. Vetted'
    <2>1. \A v \in 1 .. Len(workers) : v # w => workers'[v] = workers[v]
      BY <1>9 DEF Moves
    <2>2. Len(workers') = Len(workers)
      BY <1>9 DEF Moves
    <2>3. \A v \in 1 .. Len(workers) : workers[v].login \in Logins
      BY <1>1, WorkerHere
    <2>4. ASSUME NEW v \in 1 .. Len(workers)
          PROVE  /\ \/ workers'[v].step \in {"restart", "reread", "accept", "answer"}
                    \/ workers'[v].reply = "accepted"
                    => /\ accounts'[workers'[v].login] # NoAccount
                       /\ accounts'[workers'[v].login].password = workers'[v].password
                 /\ workers'[v].step \in {"create", "add"}
                      => accounts'[workers'[v].login] = NoAccount
      <3>1. CASE v = w
        BY <1>1, <1>2, <1>7, <1>8, <1>9, <3>1 DEF Vetted
      <3>2. CASE v # w
        <4>1. workers'[v] = workers[v]
          BY <2>1, <3>2
        <4>2. Login(v) # Login(w) => accounts'[Login(v)] = accounts[Login(v)]
          BY <1>8, <2>3
        <4> QED
          BY <1>1, <1>2, <1>12, <3>2, <4>1, <4>2 DEF Vetted
      <3> QED
        BY <3>1, <3>2
    <2> QED
      BY <2>2, <2>4 DEF Vetted
  <1> QED
    BY <1>10, <1>11, <1>13 DEF IInv

-----------------------------------------------------------------------------

\* The inductive invariant holds initially ...
LEMMA Initially == Init => IInv
  <1> SUFFICES ASSUME Init PROVE IInv
    OBVIOUS
  <1>1. workers = << >> /\ workers \in Seq(Worker) /\ Len(workers) = 0
    BY EmptySeq DEF Init
  <1>2. 1 .. Len(workers) = {}
    BY <1>1
  <1>3. faults \in 0 .. MaxFaults
    BY BoundsAssumption DEF Init
  <1>4. TypeOK
    BY <1>1, <1>2, <1>3 DEF Init, TypeOK, Down
  <1> QED
    BY <1>2, <1>4 DEF IInv, LockHeld, Vetted

\* ... and every step of the router keeps it.
LEMMA Inductive == IInv /\ [Next]_vars => IInv'
  <1> SUFFICES ASSUME IInv, [Next]_vars PROVE IInv'
    OBVIOUS
  <1>1. TypeOK
    BY DEF IInv
  <1>2. /\ stacks \in [Logins -> SUBSET AllPorts]
        /\ timers \in [Logins -> (1 .. Len(workers)) \cup {NoWorker}]
    BY <1>1 DEF TypeOK, AllPorts
  <1>3. ASSUME NEW w \in 1 .. Len(workers), ScheduleLogout(w)
        PROVE  IInv'
    <2>1. workers[w].type = "logout"
      BY <1>1, <1>3, WorkerHere DEF ScheduleLogout, LogoutSteps
    <2>2. timers' \in [Logins -> (1 .. Len(workers)) \cup {NoWorker}]
      BY <1>2, <1>3 DEF ScheduleLogout
    <2>3. faults' \in 0 .. MaxFaults
      BY <1>1, <1>3, WorkerHere DEF ScheduleLogout
    <2> QED
      BY <1>2, <1>3, <2>1, <2>2, <2>3, StepsOn DEF ScheduleLogout, LogoutSteps, Locked
  <1>4. ASSUME NEW w \in 1 .. Len(workers), TimerFires(w)
        PROVE  IInv'
    <2>1. workers[w].type = "logout"
      BY <1>1, <1>4, WorkerHere DEF TimerFires, LogoutSteps
    <2>2. faults' \in 0 .. MaxFaults
      BY <1>1, <1>4, WorkerHere DEF TimerFires
    <2> QED
      BY <1>2, <1>4, <2>1, <2>2, StepsOn DEF TimerFires, LogoutSteps, Locked
  <1>5. ASSUME NEW w \in 1 .. Len(workers), EnterLock(w)
        PROVE  IInv'
    <2>1. faults' \in 0 .. MaxFaults
      BY <1>1, <1>5, WorkerHere DEF EnterLock
    <2>2. CASE At(w, "lock") /\ Goto(w, "user")
      <3>1. workers[w].type = "login"
        BY <1>1, <2>2, WorkerHere DEF LoginSteps
      <3> QED
        BY <1>2, <1>5, <2>1, <2>2, <3>1, StepsOn DEF EnterLock, LoginSteps, Locked
    <2>3. CASE At(w, "fired") /\ Goto(w, "stopping")
      <3>1. workers[w].type = "logout"
        BY <1>1, <2>3, WorkerHere DEF LogoutSteps
      <3> QED
        BY <1>2, <1>5, <2>1, <2>3, <3>1, StepsOn DEF EnterLock, LogoutSteps, Locked
    <2> QED
      BY <1>5, <2>2, <2>3 DEF EnterLock
  <1>6. ASSUME NEW w \in 1 .. Len(workers), ComposeUp(w)
        PROVE  IInv'
    <2>1. workers[w].step \in {"create", "restart"}
      BY <1>6 DEF ComposeUp
    <2>2. workers[w].type = "login" /\ workers[w].port \in PortHashes
      BY <1>1, <2>1, WorkerHere DEF LoginSteps, Locked, TypeOK
    <2>3. faults' \in 0 .. MaxFaults
      BY <1>1, <1>6, WorkerHere, FaultStep DEF ComposeUp
    <2>4. stacks' \in [Logins -> SUBSET AllPorts]
      BY <1>1, <1>2, <1>6, <2>2, UpPorts, WorkerHere DEF ComposeUp
    <2> QED
      BY <1>2, <1>6, <2>1, <2>2, <2>3, <2>4, StepsOn DEF ComposeUp, LoginSteps, Locked
  <1>7. ASSUME NEW w \in 1 .. Len(workers), StopClient(w)
        PROVE  IInv'
    <2>1. workers[w].type = "logout"
      BY <1>1, <1>7, WorkerHere DEF StopClient, LogoutSteps
    <2>2. faults' \in 0 .. MaxFaults
      BY <1>1, <1>7, WorkerHere, FaultStep DEF StopClient
    <2>3. stacks' \in [Logins -> SUBSET AllPorts]
      BY <1>2, <1>7 DEF StopClient, Down
    <2> QED
      BY <1>2, <1>7, <2>1, <2>2, <2>3, StepsOn DEF StopClient, Locked
  <1>8. ASSUME NEW w \in 1 .. Len(workers), LeaveLock(w) \/ Accept(w)
        PROVE  IInv'
    <2>1. workers[w].type = "login"
      BY <1>1, <1>8, WorkerHere DEF LeaveLock, Accept, LoginSteps, Locked
    <2>2. stacks' \in [Logins -> SUBSET AllPorts] /\ faults' \in 0 .. MaxFaults
      BY <1>1, <1>2, <1>8, WorkerHere DEF LeaveLock, Accept
    <2>3. CASE LeaveLock(w)
      BY <1>2, <2>1, <2>2, <2>3, StepsOn DEF LeaveLock, LoginSteps, Locked
    <2>4. CASE Accept(w)
      BY <2>1, <2>2, <2>4, Answers DEF Accept
    <2> QED
      BY <1>8, <2>3, <2>4
  <1>9. ASSUME NEW w \in 1 .. Len(workers), DatabaseError(w)
        PROVE  IInv'
    <2>1. workers[w].type = "login" /\ workers[w].step \in Locked
      BY <1>1, <1>9, WorkerHere DEF DatabaseError, LoginSteps, Locked
    <2>2. faults' \in 0 .. MaxFaults
      BY <1>1, <1>9, FaultStep DEF DatabaseError
    <2> QED
      BY <1>9, <2>1, <2>2, Answers DEF DatabaseError
  <1>10. ASSUME NEW w \in 1 .. Len(workers), Reread(w)
         PROVE  IInv'
    <2>1. workers[w].type = "login" /\ workers[w].port \in PortHashes
      BY <1>1, <1>10, WorkerHere DEF Reread, LoginSteps, Locked, TypeOK
    <2>2. stacks' \in [Logins -> SUBSET AllPorts] /\ faults' \in 0 .. MaxFaults
      BY <1>1, <1>2, <1>10 DEF Reread, TypeOK
    <2> QED
      BY <1>2, <1>10, <2>1, <2>2, StepsOn DEF Reread, LoginSteps, Locked
  <1>11. CASE UNCHANGED vars
    BY <1>11 DEF vars, IInv, TypeOK, LockHeld, Vetted
  <1> QED
    BY <1>3, <1>4, <1>5, <1>6, <1>7, <1>8, <1>9, <1>10, <1>11, ReceiveStep, CancelStep,
       CrashStep, GetUserStep, AddUserStep
    DEF Next, Work, Compose

-----------------------------------------------------------------------------
(* Where the stacks are up.                                                *)

\* A stack is up where the account says, or the account is still to say it: the
\* login's own worker is about to store the ports it has just used.  When commands
\* fail, no stack is up before that.
StacksKnown ==
  /\ UpWhereAccountSays
  /\ \A w \in 1 .. Len(workers) :
       /\ workers[w].step = "restart" => workers[w].port = accounts[Login(w)].portHash
       /\ workers[w].step = "add" => stacks[Login(w)] \subseteq Ports(workers[w].port)
  /\ "docker" \in Faults => \A login \in Logins :
       accounts[login] = NoAccount =>
         stacks[login] = Down \/ \E w \in 1 .. Len(workers) : Login(w) = login /\ At(w, "add")

\* Commands fail, or the router and the database do, and not both: after a router
\* that died with a stack up and no account for it, a failing `up` leaves that
\* stack where it is and the new account says another port.
OneKindOfFault == "docker" \notin Faults \/ Faults \subseteq {"docker"}

\* A step that changes neither accounts nor stacks, sends a worker to "restart" with
\* the account's ports, to "add" never, and away from it only when commands work.
LEMMA SameStacks ==
  ASSUME StacksKnown, UNCHANGED <<accounts, stacks>>,
         Len(workers) \in Nat, Len(workers') \in Nat, Len(workers') >= Len(workers),
         \A v \in 1 .. Len(workers') :
           \/ v \in 1 .. Len(workers) /\ Keeps(v)
           \/ /\ workers'[v].step # "add"
              /\ workers'[v].step = "restart"
                   => workers'[v].port = accounts[workers'[v].login].portHash,
         "docker" \in Faults => \A v \in 1 .. Len(workers) :
           workers[v].step = "add" => Keeps(v)
  PROVE  StacksKnown'
  <1>1. UpWhereAccountSays'
    BY DEF StacksKnown, UpWhereAccountSays
  <1>2. ASSUME NEW v \in 1 .. Len(workers')
        PROVE  /\ workers'[v].step = "restart"
                    => workers'[v].port = accounts'[workers'[v].login].portHash
               /\ workers'[v].step = "add" => stacks'[workers'[v].login] \subseteq Ports(workers'[v].port)
    BY DEF StacksKnown, Keeps
  <1>3. ASSUME "docker" \in Faults, NEW login \in Logins, accounts'[login] = NoAccount,
               stacks'[login] # Down
        PROVE  \E v \in 1 .. Len(workers') : workers'[v].login = login /\ workers'[v].step = "add"
    <2>1. PICK v \in 1 .. Len(workers) : workers[v].login = login /\ workers[v].step = "add"
      BY <1>3 DEF StacksKnown
    <2>2. v \in 1 .. Len(workers') /\ Keeps(v)
      BY <1>3, <2>1
    <2> QED
      BY <2>1, <2>2 DEF Keeps
  <1> QED
    BY <1>1, <1>2, <1>3 DEF StacksKnown

\* A worker's step of that kind.
LEMMA SameStacksByMove ==
  ASSUME TypeOK, StacksKnown, UNCHANGED <<accounts, stacks>>,
         NEW w \in 1 .. Len(workers), \E r \in Worker : Moves(w, r),
         workers'[w].step # "add",
         workers'[w].step = "restart" => workers'[w].port = accounts[workers'[w].login].portHash,
         "docker" \in Faults => workers[w].step # "add"
  PROVE  StacksKnown'
  <1>1. /\ Len(workers') = Len(workers) /\ Len(workers) \in Nat
        /\ \A v \in 1 .. Len(workers) : v # w => Keeps(v)
    BY DEF Moves, TypeOK, Keeps
  <1> QED
    BY <1>1, SameStacks

\* `up` under the login's lock.
LEMMA ComposeUpStacks ==
  ASSUME IInv, StacksKnown, NEW w \in 1 .. Len(workers), ComposeUp(w)
  PROVE  StacksKnown'
  <1>1. TypeOK /\ LockHeld /\ Vetted
    BY DEF IInv
  <1> DEFINE login == workers[w].login
             port == workers[w].port
  <1>2. /\ workers[w].step \in {"create", "restart"} /\ UNCHANGED accounts
        /\ \/ \E started \in SUBSET Containers(port) : Up(login, port, started)
           \/ "docker" \in Faults /\ UNCHANGED stacks
    BY DEF ComposeUp, Fault
  <1>3. workers[w].type = "login" /\ login \in Logins
    BY <1>1, <1>2, WorkerHere DEF LoginSteps, Locked
  <1>4. /\ \E r \in Worker : Moves(w, r)
        /\ workers'[w].step = IF workers[w].step = "create" THEN "add" ELSE "accept"
        /\ workers'[w].login = login
        /\ workers'[w].port = port
    <2> DEFINE step == IF workers[w].step = "create" THEN "add" ELSE "accept"
    <2>1. Goto(w, step) /\ step \in LoginSteps
      BY <1>2 DEF ComposeUp, LoginSteps, Locked
    <2>2. [workers[w] EXCEPT !.step = step] \in Worker
      BY <1>1, <1>3, <2>1, WorkerHere, StepChange
    <2> HIDE DEF step
    <2>3. /\ Moves(w, [workers[w] EXCEPT !.step = step])
          /\ workers'[w].step = step
          /\ workers'[w].login = workers[w].login
          /\ workers'[w].port = workers[w].port
      BY <1>1, <1>3, <2>1, GotoMoves
    <2> QED
      BY <2>2, <2>3 DEF step
  <1>5. /\ Len(workers') = Len(workers) /\ Len(workers) \in Nat
        /\ \A v \in 1 .. Len(workers) : v # w => workers'[v] = workers[v]
    BY <1>1, <1>4 DEF Moves, TypeOK
  <1>6. \A v \in 1 .. Len(workers) : workers[v].step = "add" => workers[v].login # login
    BY <1>1, <1>2, Alone DEF Locked
  <1>7. /\ workers[w].step = "create" => accounts[login] = NoAccount
        /\ workers[w].step = "restart" => accounts[login] # NoAccount /\ port = accounts[login].portHash
    BY <1>1 DEF Vetted, StacksKnown
  <1>8. \A other \in Logins : other # login => stacks'[other] = stacks[other]
    <2>1. stacks \in [Logins -> SUBSET AllPorts] /\ port \in PortHashes
      BY <1>1, <1>2 DEF TypeOK, AllPorts
    <2> QED
      BY <1>2, <1>3, <2>1, UpPorts
  <1>9. stacks'[login] \subseteq Ports(port)
    <2>1. CASE \E started \in SUBSET Containers(port) : Up(login, port, started)
      <3>1. stacks \in [Logins -> SUBSET AllPorts] /\ port \in PortHashes
        BY <1>1, <1>2 DEF TypeOK, AllPorts
      <3> QED
        BY <1>3, <2>1, <3>1, UpPorts
    <2>2. CASE "docker" \in Faults /\ UNCHANGED stacks
      <3>1. CASE workers[w].step = "create"
        BY <1>3, <1>6, <1>7, <2>2, <3>1 DEF StacksKnown, Down
      <3>2. CASE workers[w].step = "restart"
        BY <1>3, <1>7, <2>2, <3>2 DEF StacksKnown, UpWhereAccountSays
      <3> QED
        BY <1>2, <3>1, <3>2
    <2> QED
      BY <1>2, <2>1, <2>2
  <1>10. UpWhereAccountSays'
    BY <1>2, <1>7, <1>8, <1>9 DEF StacksKnown, UpWhereAccountSays
  <1>11. ASSUME NEW v \in 1 .. Len(workers')
         PROVE  /\ workers'[v].step = "restart"
                     => workers'[v].port = accounts'[workers'[v].login].portHash
                /\ workers'[v].step = "add" => stacks'[workers'[v].login] \subseteq Ports(workers'[v].port)
    <2>1. CASE v = w
      BY <1>2, <1>4, <1>9, <2>1
    <2>2. CASE v # w
      <3>1. workers'[v] = workers[v] /\ workers[v].login \in Logins
        BY <1>1, <1>5, <2>2, WorkerHere
      <3>2. workers[v].step = "add" => stacks'[workers[v].login] = stacks[workers[v].login]
        BY <1>5, <1>6, <1>8, <3>1
      <3> QED
        BY <1>2, <1>5, <3>1, <3>2 DEF StacksKnown
    <2> QED
      BY <2>1, <2>2
  <1>12. ASSUME "docker" \in Faults, NEW other \in Logins, accounts'[other] = NoAccount,
                stacks'[other] # Down
         PROVE  \E v \in 1 .. Len(workers') : workers'[v].login = other /\ workers'[v].step = "add"
    <2>1. CASE other = login
      BY <1>2, <1>4, <1>5, <1>7, <1>12, <2>1
    <2>2. CASE other # login
      <3>1. PICK v \in 1 .. Len(workers) : workers[v].login = other /\ workers[v].step = "add"
        BY <1>2, <1>8, <1>12, <2>2 DEF StacksKnown
      <3> QED
        BY <1>5, <2>2, <3>1
    <2> QED
      BY <2>1, <2>2
  <1> QED
    BY <1>10, <1>11, <1>12 DEF StacksKnown

\* add_user stores the ports the stack is up with.
LEMMA AddUserStacks ==
  ASSUME IInv, StacksKnown, NEW w \in 1 .. Len(workers), AddUser(w)
  PROVE  StacksKnown'
  <1>1. TypeOK /\ LockHeld /\ Vetted
    BY DEF IInv
  <1> DEFINE login == workers[w].login
             port == workers[w].port
             new == [password |-> workers[w].password, portHash |-> port]
  <1>2. workers[w].step = "add" /\ UNCHANGED stacks
    BY DEF AddUser
  <1>3. workers[w].type = "login" /\ login \in Logins
    BY <1>1, <1>2, WorkerHere DEF LoginSteps, Locked
  <1>4. accounts' = [accounts EXCEPT ![login] = new] /\ Goto(w, "reread")
    <2>1. accounts[login] = NoAccount
      BY <1>1, <1>2 DEF Vetted
    <2> QED
      BY <2>1 DEF AddUser
  <1>5. /\ accounts'[login] = new /\ new.portHash = port
        /\ \A other \in Logins : other # login => accounts'[other] = accounts[other]
    BY <1>1, <1>3, <1>4 DEF TypeOK
  <1> HIDE DEF new
  <1>6. /\ \E r \in Worker : Moves(w, r)
        /\ workers'[w].step = "reread"
    <2>1. [workers[w] EXCEPT !.step = "reread"] \in Worker
      BY <1>1, <1>3, WorkerHere, StepChange DEF LoginSteps, Locked
    <2> QED
      BY <1>1, <1>3, <1>4, <2>1, GotoMoves DEF LoginSteps, Locked
  <1>7. /\ Len(workers') = Len(workers) /\ Len(workers) \in Nat
        /\ \A v \in 1 .. Len(workers) : v # w => workers'[v] = workers[v]
    BY <1>1, <1>6 DEF Moves, TypeOK
  <1>8. UpWhereAccountSays'
    BY <1>2, <1>5 DEF StacksKnown, UpWhereAccountSays
  <1>9. ASSUME NEW v \in 1 .. Len(workers')
        PROVE  /\ workers'[v].step = "restart"
                    => workers'[v].port = accounts'[workers'[v].login].portHash
               /\ workers'[v].step = "add" => stacks'[workers'[v].login] \subseteq Ports(workers'[v].port)
    <2>1. CASE v = w
      BY <1>6, <2>1
    <2>2. CASE v # w
      <3>1. workers'[v] = workers[v] /\ workers[v].login \in Logins
        BY <1>1, <1>7, <2>2, WorkerHere
      <3>2. workers[v].step = "restart" => workers[v].login # login
        BY <1>1, <1>2, <1>7, <2>2, Alone DEF Locked
      <3> QED
        BY <1>2, <1>5, <1>7, <3>1, <3>2 DEF StacksKnown
    <2> QED
      BY <2>1, <2>2
  <1>10. accounts'[login] # NoAccount
    <2>1. port \in PortHashes
      BY <1>1, <1>2 DEF TypeOK
    <2>2. port # NoPort
      BY <2>1, PortIsPort
    <2>3. NoAccount.portHash = NoPort
      BY DEF NoAccount
    <2> QED
      BY <1>5, <2>2, <2>3
  <1>11. ASSUME "docker" \in Faults, NEW other \in Logins, accounts'[other] = NoAccount,
                stacks'[other] # Down
         PROVE  \E v \in 1 .. Len(workers') : workers'[v].login = other /\ workers'[v].step = "add"
    <2>1. other # login
      BY <1>10, <1>11
    <2>2. PICK v \in 1 .. Len(workers) : workers[v].login = other /\ workers[v].step = "add"
      BY <1>2, <1>5, <1>11, <2>1 DEF StacksKnown
    <2> QED
      BY <1>7, <2>1, <2>2
  <1> QED
    BY <1>8, <1>9, <1>11 DEF StacksKnown

\* `down`, whether it works or not.
LEMMA StopClientStacks ==
  ASSUME IInv, StacksKnown, NEW w \in 1 .. Len(workers), StopClient(w)
  PROVE  StacksKnown'
  <1>1. TypeOK
    BY DEF IInv
  <1> DEFINE login == workers[w].login
  <1>2. /\ workers[w].step = "stopping" /\ Goto(w, "done") /\ UNCHANGED accounts
        /\ stacks' = [stacks EXCEPT ![login] = Down] \/ UNCHANGED stacks
    BY DEF StopClient
  <1>3. workers[w].type = "logout" /\ login \in Logins
    BY <1>1, <1>2, WorkerHere DEF LogoutSteps
  <1>4. \E r \in Worker : Moves(w, r) /\ workers'[w].step = "done"
    <2>1. [workers[w] EXCEPT !.step = "done"] \in Worker
      BY <1>1, <1>3, WorkerHere, StepChange
    <2> QED
      BY <1>1, <1>2, <1>3, <2>1, GotoMoves
  <1>5. /\ Len(workers') = Len(workers) /\ Len(workers) \in Nat
        /\ \A v \in 1 .. Len(workers) : v # w => workers'[v] = workers[v]
        /\ workers'[w].step = "done"
        /\ \A v \in 1 .. Len(workers) : workers[v].login \in Logins
    <2>1. \A v \in 1 .. Len(workers) : workers[v].login \in Logins
      BY <1>1, WorkerHere
    <2> QED
      BY <1>1, <1>4, <2>1 DEF Moves, TypeOK
  <1>6. \A other \in Logins : stacks'[other] \in {Down, stacks[other]}
    BY <1>1, <1>2, <1>3 DEF TypeOK
  <1>7. UpWhereAccountSays'
    BY <1>2, <1>6 DEF StacksKnown, UpWhereAccountSays, Down
  <1>8. ASSUME NEW v \in 1 .. Len(workers')
        PROVE  /\ workers'[v].step = "restart"
                    => workers'[v].port = accounts'[workers'[v].login].portHash
               /\ workers'[v].step = "add" => stacks'[workers'[v].login] \subseteq Ports(workers'[v].port)
    <2>1. CASE v = w
      BY <1>5, <2>1
    <2>2. CASE v # w
      <3>1. v \in 1 .. Len(workers) /\ workers'[v] = workers[v]
        BY <1>5, <1>8, <2>2
      <3>2. workers[v].login \in Logins
        BY <1>5, <3>1
      <3>3. stacks'[workers[v].login] \subseteq stacks[workers[v].login]
        BY <1>6, <3>2 DEF Down
      <3>4. /\ workers[v].step = "restart" => workers[v].port = accounts[workers[v].login].portHash
            /\ workers[v].step = "add" => stacks[workers[v].login] \subseteq Ports(workers[v].port)
        BY <3>1 DEF StacksKnown, Login
      <3> QED
        BY <1>2, <3>1, <3>3, <3>4
    <2> QED
      BY <2>1, <2>2
  <1>9. ASSUME "docker" \in Faults, NEW other \in Logins, accounts'[other] = NoAccount,
               stacks'[other] # Down
        PROVE  \E v \in 1 .. Len(workers') : workers'[v].login = other /\ workers'[v].step = "add"
    <2>1. PICK v \in 1 .. Len(workers) : workers[v].login = other /\ workers[v].step = "add"
      BY <1>2, <1>6, <1>9 DEF StacksKnown
    <2> QED
      BY <1>2, <1>5, <2>1
  <1> QED
    BY <1>7, <1>8, <1>9 DEF StacksKnown

\* get_user passes on the account's ports.
LEMMA GetUserStacks ==
  ASSUME IInv, StacksKnown, NEW w \in 1 .. Len(workers), GetUser(w)
  PROVE  StacksKnown'
  <1>1. TypeOK
    BY DEF IInv
  <1>2. workers[w].step = "user" /\ UNCHANGED <<accounts, stacks>>
    BY DEF GetUser, GetUserFrame
  <1>3. workers[w].type = "login" /\ workers[w].login \in Logins
    BY <1>1, <1>2, WorkerHere DEF LoginSteps, Locked
  <1>4. CASE Reject(w)
    <2>1. (\E r \in Worker : Moves(w, r)) /\ workers'[w].step = "done"
      BY <1>1, <1>3, <1>4, AnswerMoves DEF Reject
    <2> QED
      BY <1>1, <1>2, <2>1, SameStacksByMove
  <1>5. CASE Create(w)
    <2>1. portHash[Login(w)] \in PortHashes
      BY <1>1, <1>3 DEF TypeOK
    <2>2. (\E r \in Worker : Moves(w, r)) /\ workers'[w].step = "create"
      BY <1>1, <1>3, <1>5, <2>1, PortMoves DEF Create
    <2> QED
      BY <1>1, <1>2, <2>2, SameStacksByMove
  <1>6. CASE accounts[Login(w)] # NoAccount /\ Restart(w, accounts[Login(w)].portHash)
    <2>1. accounts[Login(w)] \in Account
      BY <1>1, <1>3, <1>6 DEF TypeOK
    <2>2. accounts[Login(w)].portHash \in PortHashes
      BY <2>1 DEF Account
    <2>3. /\ \E r \in Worker : Moves(w, r)
          /\ workers'[w].step = "restart"
          /\ workers'[w].login = workers[w].login
          /\ workers'[w].port = accounts[Login(w)].portHash
      BY <1>1, <1>3, <1>6, <2>2, PortMoves DEF Restart
    <2> QED
      BY <1>1, <1>2, <2>3, SameStacksByMove
  <1> QED
    BY <1>4, <1>5, <1>6 DEF GetUser

\* A cancelled timer, and its thread that goes on.
LEMMA CancelStacks ==
  ASSUME IInv, StacksKnown, NEW w \in 1 .. Len(workers), BeginLogin(w) \/ BeginLogout(w)
  PROVE  StacksKnown'
  <1>1. TypeOK /\ Len(workers) \in Nat
    BY LenProperties DEF IInv, TypeOK
  <1>2. /\ Len(workers') = Len(workers) /\ UNCHANGED <<accounts, stacks>>
        /\ \A v \in 1 .. Len(workers) :
             \/ workers'[v] = workers[v]
             \/ workers'[v].step \in {"lock", "schedule", "done"} /\ workers[v].step # "add"
    BY <1>1, Cancelled
  <1> QED
    BY <1>1, <1>2, SameStacks DEF Keeps

\* A crash leaves the stacks and the accounts.
LEMMA CrashStacks ==
  ASSUME IInv, StacksKnown, OneKindOfFault, Crash
  PROVE  StacksKnown'
  <1>1. TypeOK /\ Len(workers) \in Nat
    BY LenProperties DEF IInv, TypeOK
  <1>2. "docker" \notin Faults /\ UNCHANGED <<accounts, stacks>>
    BY DEF Crash, Fault, OneKindOfFault
  <1>3. /\ Len(workers') = Len(workers)
        /\ \A v \in 1 .. Len(workers) : workers'[v].step = "done"
    BY <1>1, Crashed
  <1> QED
    BY <1>1, <1>2, <1>3, SameStacks

LEMMA StacksStayKnown == IInv /\ StacksKnown /\ OneKindOfFault /\ [Next]_vars => StacksKnown'
  <1> SUFFICES ASSUME IInv, StacksKnown, OneKindOfFault, [Next]_vars PROVE StacksKnown'
    OBVIOUS
  <1>1. TypeOK
    BY DEF IInv
  <1>2. ASSUME NEW w \in 1 .. Len(workers), NEW step, Goto(w, step),
               \/ workers[w].type = "login" /\ step \in LoginSteps \cup {"done"}
               \/ workers[w].type = "logout" /\ step \in LogoutSteps \cup {"done"},
               UNCHANGED <<accounts, stacks>>,
               step \notin {"add", "restart"}, workers[w].step # "add"
        PROVE  StacksKnown'
    <2>1. [workers[w] EXCEPT !.step = step] \in Worker
      BY <1>1, <1>2, WorkerHere, StepChange
    <2>2. (\E r \in Worker : Moves(w, r)) /\ workers'[w].step = step
      BY <1>1, <1>2, <2>1, GotoMoves
    <2> QED
      BY <1>1, <1>2, <2>2, SameStacksByMove
  <1>3. ASSUME NEW w \in 1 .. Len(workers), ScheduleLogout(w)
        PROVE  StacksKnown'
    <2>1. workers[w].type = "logout"
      BY <1>1, <1>3, WorkerHere DEF ScheduleLogout, LogoutSteps
    <2> QED
      BY <1>2, <1>3, <2>1 DEF ScheduleLogout, LogoutSteps
  <1>4. ASSUME NEW w \in 1 .. Len(workers), TimerFires(w)
        PROVE  StacksKnown'
    <2>1. workers[w].type = "logout"
      BY <1>1, <1>4, WorkerHere DEF TimerFires, LogoutSteps
    <2> QED
      BY <1>2, <1>4, <2>1 DEF TimerFires, LogoutSteps
  <1>5. ASSUME NEW w \in 1 .. Len(workers), EnterLock(w)
        PROVE  StacksKnown'
    <2>1. CASE At(w, "lock") /\ Goto(w, "user")
      <3>1. workers[w].type = "login"
        BY <1>1, <2>1, WorkerHere DEF LoginSteps
      <3> QED
        BY <1>2, <1>5, <2>1, <3>1 DEF EnterLock, LoginSteps, Locked
    <2>2. CASE At(w, "fired") /\ Goto(w, "stopping")
      <3>1. workers[w].type = "logout"
        BY <1>1, <2>2, WorkerHere DEF LogoutSteps
      <3> QED
        BY <1>2, <1>5, <2>2, <3>1 DEF EnterLock, LogoutSteps
    <2> QED
      BY <1>5, <2>1, <2>2 DEF EnterLock
  <1>6. ASSUME NEW w \in 1 .. Len(workers), Reread(w) \/ LeaveLock(w)
        PROVE  StacksKnown'
    <2>1. workers[w].type = "login"
      BY <1>1, <1>6, WorkerHere DEF Reread, LeaveLock, LoginSteps, Locked
    <2> QED
      BY <1>2, <1>6, <2>1 DEF Reread, LeaveLock, LoginSteps, Locked
  <1>7. ASSUME NEW w \in 1 .. Len(workers), Accept(w) \/ DatabaseError(w)
        PROVE  StacksKnown'
    <2>1. /\ workers[w].type = "login" /\ UNCHANGED <<accounts, stacks>>
          /\ "docker" \in Faults => workers[w].step # "add"
      BY <1>1, <1>7, WorkerHere
         DEF Accept, DatabaseError, Fault, OneKindOfFault, LoginSteps, Locked
    <2>2. PICK reply \in {"accepted", "server error"} : Answer(w, reply)
      BY <1>7 DEF Accept, DatabaseError
    <2>3. (\E r \in Worker : Moves(w, r)) /\ workers'[w].step = "done"
      BY <1>1, <2>1, <2>2, AnswerMoves
    <2> QED
      BY <1>1, <2>1, <2>3, SameStacksByMove
  <1>8. CASE Receive
    <2>1. UNCHANGED <<accounts, stacks>>
      BY <1>8, ReceiveFrame
    <2>2. /\ Len(workers) \in Nat
          /\ Len(workers') = Len(workers) + 1
          /\ workers'[Len(workers) + 1].step \in {"login", "logout"}
          /\ \A v \in 1 .. Len(workers) : Keeps(v)
      BY <1>1, <1>8, Received
    <2>3. \A v \in 1 .. Len(workers') : v \in 1 .. Len(workers) \/ v = Len(workers) + 1
      BY <2>2
    <2> QED
      BY <2>1, <2>2, <2>3, SameStacks
  <1>9. CASE UNCHANGED vars
    BY <1>9 DEF vars, StacksKnown, UpWhereAccountSays
  <1> QED
    BY <1>3, <1>4, <1>5, <1>6, <1>7, <1>8, <1>9, ComposeUpStacks, StopClientStacks,
       AddUserStacks, GetUserStacks, CancelStacks, CrashStacks
    DEF Next, Work, Compose

-----------------------------------------------------------------------------
(* Timers.                                                                 *)

\* A running timer is the one stored for its login, unless another logout of the
\* login was on its way to a timer at the same time.
TimersStored ==
  /\ \A w \in 1 .. Len(workers) :
       At(w, "armed") /\ ~workers[w].overlapped => timers[Login(w)] = w
  /\ \A u, w \in 1 .. Len(workers) :
       Login(u) = Login(w) /\ At(u, "schedule") /\ At(w, "armed") => workers[w].overlapped
  /\ \A u, w \in 1 .. Len(workers) :
       /\ u # w /\ Login(u) = Login(w)
       /\ {workers[u].step, workers[w].step} \subseteq {"logout", "schedule"}
       => workers[w].overlapped

\* What a thread does behind _cancel_logout: no second start, a timer only where a
\* logout is scheduled, an error only where the database fails.
GoesOn(w) ==
  /\ workers[w].step \notin {"login", "logout"}
  /\ Len(workers') = Len(workers)
  /\ \A v \in 1 .. Len(workers) : v # w => workers'[v] = workers[v]
  /\ workers'[w].login = workers[w].login
  /\ workers'[w].overlapped = workers[w].overlapped
  /\ workers'[w].step \notin {"login", "logout", "schedule"}
  /\ \/ workers'[w].step # "armed" /\ UNCHANGED timers
     \/ /\ workers[w].step = "schedule" /\ workers'[w].step = "armed"
        /\ timers' = [timers EXCEPT ![Login(w)] = w]
  /\ workers'[w].reply # workers[w].reply /\ workers'[w].reply = "server error"
       => Fault("database")

LEMMA LaterSteps ==
  ASSUME IInv, NEW w \in 1 .. Len(workers),
         \/ ScheduleLogout(w) \/ TimerFires(w) \/ EnterLock(w) \/ GetUser(w)
         \/ AddUser(w) \/ Reread(w) \/ LeaveLock(w) \/ Accept(w)
         \/ ComposeUp(w) \/ StopClient(w) \/ DatabaseError(w)
  PROVE  GoesOn(w)
  <1>1. TypeOK /\ Vetted
    BY DEF IInv
  <1>2. /\ workers[w] \in Worker /\ workers[w].login \in Logins
        /\ workers[w].step \in LoginSteps => workers[w].type = "login"
        /\ workers[w].step \in LogoutSteps => workers[w].type = "logout"
    BY <1>1, WorkerHere
  <1>3. ASSUME NEW step, Goto(w, step), workers[w].step \notin {"login", "logout"},
               \/ workers[w].type = "login" /\ step \in LoginSteps \cup {"done"}
               \/ workers[w].type = "logout" /\ step \in LogoutSteps \cup {"done"},
               step \notin {"login", "logout", "schedule"},
               \/ step # "armed" /\ UNCHANGED timers
               \/ /\ workers[w].step = "schedule" /\ step = "armed"
                  /\ timers' = [timers EXCEPT ![Login(w)] = w]
        PROVE  GoesOn(w)
    BY <1>1, <1>3, GotoMoves DEF Moves, GoesOn
  <1>4. CASE ScheduleLogout(w)
    <2>1. workers[w].type = "logout" /\ workers[w].step = "schedule"
      BY <1>2, <1>4 DEF ScheduleLogout, LogoutSteps
    <2>2. CASE Goto(w, "armed") /\ timers' = [timers EXCEPT ![Login(w)] = w]
      BY <1>3, <2>1, <2>2 DEF LogoutSteps
    <2>3. CASE Goto(w, "fired") /\ UNCHANGED timers
      BY <1>3, <2>1, <2>3 DEF LogoutSteps
    <2> QED
      BY <1>4, <2>2, <2>3 DEF ScheduleLogout
  <1>5. CASE TimerFires(w) \/ StopClient(w)
    <2>1. workers[w].type = "logout"
      BY <1>2, <1>5 DEF TimerFires, StopClient, LogoutSteps
    <2>2. PICK step \in {"fired", "done"} : Goto(w, step) /\ UNCHANGED timers
      BY <1>5 DEF TimerFires, StopClient
    <2> QED
      BY <1>3, <1>5, <2>1, <2>2 DEF TimerFires, StopClient, LogoutSteps
  <1>6. CASE EnterLock(w)
    <2>1. CASE At(w, "lock") /\ Goto(w, "user")
      BY <1>2, <1>3, <1>6, <2>1 DEF EnterLock, LoginSteps, Locked
    <2>2. CASE At(w, "fired") /\ Goto(w, "stopping")
      BY <1>2, <1>3, <1>6, <2>2 DEF EnterLock, LogoutSteps
    <2> QED
      BY <1>6, <2>1, <2>2 DEF EnterLock
  <1>7. CASE Reread(w) \/ LeaveLock(w) \/ ComposeUp(w)
    <2>1. workers[w].type = "login" /\ workers[w].step \notin {"login", "logout"}
      BY <1>2, <1>7 DEF Reread, LeaveLock, ComposeUp, LoginSteps, Locked
    <2>2. PICK step \in {"add", "accept", "answer"} : Goto(w, step) /\ UNCHANGED timers
      BY <1>7 DEF Reread, LeaveLock, ComposeUp
    <2> QED
      BY <1>3, <2>1, <2>2 DEF LoginSteps, Locked
  <1>8. ASSUME NEW reply \in {"accepted", "rejected", "server error"}, Answer(w, reply),
               workers[w].type = "login", workers[w].step \notin {"login", "logout"},
               UNCHANGED timers, reply = "server error" => Fault("database")
        PROVE  GoesOn(w)
    BY <1>1, <1>8, AnswerMoves DEF Moves, GoesOn
  <1>9. CASE Accept(w) \/ DatabaseError(w)
    <2>1. workers[w].type = "login" /\ workers[w].step \notin {"login", "logout"}
      BY <1>2, <1>9 DEF Accept, DatabaseError, LoginSteps, Locked
    <2> QED
      BY <1>8, <1>9, <2>1 DEF Accept, DatabaseError
  <1>10. CASE AddUser(w)
    <2>1. workers[w].type = "login" /\ workers[w].step = "add"
      BY <1>2, <1>10 DEF AddUser, LoginSteps, Locked
    <2>2. accounts[Login(w)] = NoAccount
      BY <1>1, <2>1 DEF Vetted
    <2>3. Goto(w, "reread") /\ UNCHANGED timers
      BY <1>10, <2>2 DEF AddUser
    <2> QED
      BY <1>3, <2>1, <2>3 DEF LoginSteps, Locked
  <1>11. CASE GetUser(w)
    <2>1. workers[w].type = "login" /\ workers[w].step = "user" /\ UNCHANGED timers
      BY <1>2, <1>11 DEF GetUser, GetUserFrame, LoginSteps, Locked
    <2>2. ASSUME NEW step \in {"create", "restart"}, NEW hash \in PortHashes,
                 workers' = [workers EXCEPT ![w].step = step, ![w].port = hash]
          PROVE  GoesOn(w)
      BY <1>1, <2>1, <2>2, PortMoves DEF Moves, GoesOn
    <2>3. CASE Create(w)
      <3>1. portHash[Login(w)] \in PortHashes
        BY <1>1, <1>2 DEF TypeOK
      <3> QED
        BY <2>2, <2>3, <3>1 DEF Create
    <2>4. CASE accounts[Login(w)] # NoAccount /\ Restart(w, accounts[Login(w)].portHash)
      <3>1. accounts[Login(w)] \in Account
        BY <1>1, <1>2, <2>4 DEF TypeOK
      <3>2. accounts[Login(w)].portHash \in PortHashes
        BY <3>1 DEF Account
      <3> QED
        BY <2>2, <2>4, <3>2 DEF Restart
    <2>5. CASE Reject(w)
      BY <1>8, <2>1, <2>5 DEF Reject
    <2> QED
      BY <1>11, <2>3, <2>4, <2>5 DEF GetUser
  <1> QED
    BY <1>4, <1>5, <1>6, <1>7, <1>9, <1>10, <1>11

\* The steps of the router.
LEMMA Steps ==
  ASSUME IInv, Next
  PROVE  \/ Receive \/ Crash
         \/ \E w \in 1 .. Len(workers) : BeginLogin(w) \/ BeginLogout(w) \/ GoesOn(w)
  BY LaterSteps DEF Next, Work, Compose

\* add_user never finds the login taken, so only a database fault makes an error.
LEMMA ErrorNeedsFault ==
  IInv /\ [Next]_vars =>
    [\A w \in 1 .. Len(workers) :
       workers'[w].reply = "server error" /\ workers[w].reply # "server error"
         => "database" \in Faults /\ faults' = faults + 1]_vars
  <1> SUFFICES ASSUME IInv, Next, NEW w \in 1 .. Len(workers),
                      workers'[w].reply = "server error", workers[w].reply # "server error"
               PROVE  "database" \in Faults /\ faults' = faults + 1
    OBVIOUS
  <1>1. TypeOK
    BY DEF IInv
  <1>2. ~Receive
    BY <1>1, Received DEF Keeps
  <1>3. ~Crash
    BY <1>1, Crashed
  <1>4. ASSUME NEW v \in 1 .. Len(workers) PROVE ~(BeginLogin(v) \/ BeginLogout(v))
    BY <1>1, <1>4, Cancelled
  <1>5. PICK v \in 1 .. Len(workers) : GoesOn(v)
    BY <1>2, <1>3, <1>4, Steps
  <1>6. v = w
    BY <1>5 DEF GoesOn
  <1> QED
    BY <1>5, <1>6 DEF GoesOn, Fault

LEMMA TimersStayStored == IInv /\ TimersStored /\ [Next]_vars => TimersStored'
  <1> SUFFICES ASSUME IInv, TimersStored, [Next]_vars PROVE TimersStored'
    OBVIOUS
  <1>1. TypeOK /\ Len(workers) \in Nat
    BY LenProperties DEF IInv, TypeOK
  <1>2. \A v \in 1 .. Len(workers) : workers[v].login \in Logins
    BY <1>1, WorkerHere
  <1>3. CASE Receive
    <2> DEFINE new == Len(workers) + 1
    <2>1. /\ Len(workers') = new /\ UNCHANGED timers
          /\ workers'[new].step \in {"login", "logout"}
          /\ \A v \in 1 .. Len(workers) :
               /\ workers'[v].step = workers[v].step
               /\ workers'[v].login = workers[v].login
               /\ \/ workers'[v].overlapped = workers[v].overlapped
                  \/ workers'[v].overlapped /\ workers[v].step \in {"logout", "schedule"}
               /\ /\ workers[v].step \in {"logout", "schedule"}
                  /\ workers'[new].step = "logout" /\ workers'[new].login = workers[v].login
                  => workers'[v].overlapped /\ workers'[new].overlapped
      BY <1>1, <1>3, Received, ReceiveFrame DEF Keeps
    <2>2. \A v \in 1 .. Len(workers') : v \in 1 .. Len(workers) \/ v = new
      BY <1>1, <2>1
    <2> HIDE DEF new
    <2>3. ASSUME NEW w \in 1 .. Len(workers'), workers'[w].step = "armed",
                 ~workers'[w].overlapped
          PROVE  timers'[workers'[w].login] = w
      BY <2>1, <2>2, <2>3 DEF TimersStored
    <2>4. ASSUME NEW u \in 1 .. Len(workers'), NEW w \in 1 .. Len(workers'),
                 workers'[u].login = workers'[w].login,
                 workers'[u].step = "schedule", workers'[w].step = "armed"
          PROVE  workers'[w].overlapped
      BY <2>1, <2>2, <2>4 DEF TimersStored
    <2>5. ASSUME NEW u \in 1 .. Len(workers'), NEW w \in 1 .. Len(workers'),
                 u # w, workers'[u].login = workers'[w].login,
                 {workers'[u].step, workers'[w].step} \subseteq {"logout", "schedule"}
          PROVE  workers'[w].overlapped
      <3>1. CASE u \in 1 .. Len(workers) /\ w \in 1 .. Len(workers)
        BY <2>1, <2>5, <3>1 DEF TimersStored
      <3>2. CASE u = new /\ w \in 1 .. Len(workers)
        BY <2>1, <2>5, <3>2
      <3>3. CASE w = new /\ u \in 1 .. Len(workers)
        BY <2>1, <2>5, <3>3
      <3> QED
        BY <2>2, <2>5, <3>1, <3>2, <3>3
    <2> QED
      BY <2>3, <2>4, <2>5 DEF TimersStored
  <1>4. ASSUME NEW x \in 1 .. Len(workers), BeginLogin(x) \/ BeginLogout(x)
        PROVE  TimersStored'
    <2>1. /\ Len(workers') = Len(workers)
          /\ \/ workers[x].step = "login" /\ workers'[x].step = "lock"
             \/ workers[x].step = "logout" /\ workers'[x].step = "schedule"
          /\ \A v \in 1 .. Len(workers) :
               /\ workers'[v].login = workers[v].login
               /\ workers'[v].overlapped = workers[v].overlapped
               /\ v # x => \/ workers'[v] = workers[v]
                           \/ workers'[v].step = "done"
      BY <1>1, <1>4, Cancelled
    <2>2. \A v \in 1 .. Len(workers) : Login(v) # Login(x) => timers'[Login(v)] = timers[Login(v)]
      BY <1>1, <1>2, <1>4, Cancelled DEF TypeOK
    \* Whatever timer of the login still runs overlapped with another one.
    <2>3. ASSUME NEW w \in 1 .. Len(workers), workers'[w].step = "armed"
          PROVE  /\ workers[w].step = "armed"
                 /\ Login(w) = Login(x) => workers[w].overlapped
      <3>1. w # x /\ workers'[w] = workers[w]
        BY <2>1, <2>3
      <3>2. ~(w = timers[Login(x)] /\ At(w, "armed"))
        BY <1>1, <1>4, <2>3, <3>1, Cancelled
      <3> QED
        BY <2>3, <3>1, <3>2 DEF TimersStored
    <2>4. ASSUME NEW v \in 1 .. Len(workers),
                 workers'[v].step \in {"logout", "schedule"}
          PROVE  workers[v].step \in {"logout", "schedule"}
      BY <2>1, <2>4
    <2>5. \A w \in 1 .. Len(workers) : workers'[w].step = "armed" /\ ~workers'[w].overlapped
            => timers'[workers'[w].login] = w
      BY <2>1, <2>2, <2>3 DEF TimersStored
    <2>6. ASSUME NEW u \in 1 .. Len(workers), NEW w \in 1 .. Len(workers),
                 workers'[u].login = workers'[w].login,
                 workers'[u].step = "schedule", workers'[w].step = "armed"
          PROVE  workers'[w].overlapped
      <3>1. CASE u = x
        BY <2>1, <2>3, <2>6, <3>1
      <3>2. CASE u # x
        BY <2>1, <2>3, <2>6, <3>2 DEF TimersStored
      <3> QED
        BY <3>1, <3>2
    <2>7. ASSUME NEW u \in 1 .. Len(workers), NEW w \in 1 .. Len(workers),
                 u # w, workers'[u].login = workers'[w].login,
                 {workers'[u].step, workers'[w].step} \subseteq {"logout", "schedule"}
          PROVE  workers'[w].overlapped
      <3>1. {workers[u].step, workers[w].step} \subseteq {"logout", "schedule"}
        BY <2>4, <2>7
      <3> QED
        BY <2>1, <2>7, <3>1 DEF TimersStored
    <2> QED
      BY <2>1, <2>5, <2>6, <2>7 DEF TimersStored
  <1>5. ASSUME NEW x \in 1 .. Len(workers), GoesOn(x)
        PROVE  TimersStored'
    <2>1. /\ Len(workers') = Len(workers)
          /\ \A v \in 1 .. Len(workers) :
               /\ workers'[v].login = workers[v].login
               /\ workers'[v].overlapped = workers[v].overlapped
               /\ workers'[v].step \in {"logout", "schedule"} => workers'[v].step = workers[v].step
               /\ v # x => workers'[v].step = workers[v].step
      BY <1>5 DEF GoesOn
    <2>2. CASE workers'[x].step # "armed" /\ UNCHANGED timers
      BY <2>1, <2>2 DEF TimersStored
    <2>3. CASE /\ workers[x].step = "schedule" /\ workers'[x].step = "armed"
               /\ timers' = [timers EXCEPT ![Login(x)] = x]
      <3>1. /\ timers'[Login(x)] = x
            /\ \A v \in 1 .. Len(workers) : Login(v) # Login(x) => timers'[Login(v)] = timers[Login(v)]
        BY <1>1, <1>2, <2>3 DEF TypeOK
      <3>2. \A w \in 1 .. Len(workers) : workers'[w].step = "armed" /\ ~workers'[w].overlapped
              => timers'[workers'[w].login] = w
        BY <2>1, <2>3, <3>1 DEF TimersStored
      <3>3. ASSUME NEW u \in 1 .. Len(workers), NEW w \in 1 .. Len(workers),
                   workers'[u].login = workers'[w].login,
                   workers'[u].step = "schedule", workers'[w].step = "armed"
            PROVE  workers'[w].overlapped
        <4>1. CASE w = x
          BY <2>1, <2>3, <3>3, <4>1 DEF TimersStored
        <4>2. CASE w # x
          BY <2>1, <3>3, <4>2 DEF TimersStored
        <4> QED
          BY <4>1, <4>2
      <3>4. ASSUME NEW u \in 1 .. Len(workers), NEW w \in 1 .. Len(workers),
                   u # w, workers'[u].login = workers'[w].login,
                   {workers'[u].step, workers'[w].step} \subseteq {"logout", "schedule"}
            PROVE  workers'[w].overlapped
        <4>1. {workers[u].step, workers[w].step} \subseteq {"logout", "schedule"}
          BY <2>1, <3>4
        <4> QED
          BY <2>1, <3>4, <4>1 DEF TimersStored
      <3> QED
        BY <2>1, <3>2, <3>3, <3>4 DEF TimersStored
    <2> QED
      BY <1>5, <2>2, <2>3 DEF GoesOn
  <1>6. CASE Crash
    BY <1>1, <1>6, Crashed DEF TimersStored
  <1>7. CASE UNCHANGED vars
    BY <1>7 DEF vars, TimersStored
  <1> QED
    BY <1>3, <1>4, <1>5, <1>6, <1>7, Steps

\* A login that begins pops the stored timer, and with it every one that runs
\* without having overlapped.
LEMMA LoginCancels ==
  IInv /\ TimersStored /\ [Next]_vars =>
    [\A v, w \in 1 .. Len(workers) :
       /\ Login(v) = Login(w)
       /\ At(v, "login") /\ workers'[v].step # "login"
       /\ At(w, "armed") /\ ~workers[w].overlapped
       => workers'[w].step = "done"]_vars
  <1> SUFFICES ASSUME IInv, TimersStored, Next,
                      NEW v \in 1 .. Len(workers), NEW w \in 1 .. Len(workers),
                      Login(v) = Login(w), At(v, "login"), workers'[v].step # "login",
                      At(w, "armed"), ~workers[w].overlapped
               PROVE  workers'[w].step = "done"
    OBVIOUS
  <1>1. TypeOK
    BY DEF IInv
  <1>2. CASE Receive
    BY <1>1, <1>2, Received DEF Keeps
  <1>3. CASE Crash
    BY <1>1, <1>3, Crashed
  <1>4. ASSUME NEW x \in 1 .. Len(workers), GoesOn(x)
        PROVE  FALSE
    BY <1>4 DEF GoesOn
  <1>5. ASSUME NEW x \in 1 .. Len(workers), BeginLogin(x) \/ BeginLogout(x)
        PROVE  workers'[w].step = "done"
    <2>1. x = v
      BY <1>1, <1>5, Cancelled
    <2>2. w = timers[Login(x)] /\ w # x
      BY <2>1 DEF TimersStored
    <2> QED
      BY <1>1, <1>5, <2>2, Cancelled
  <1> QED
    BY <1>2, <1>3, <1>4, <1>5, Steps

-----------------------------------------------------------------------------
(* The theorems.                                                           *)

\* Type correctness of the router: accounts, stacks, locks, timers and threads
\* stay well formed, and a login composes only with ports it was given.
THEOREM TypeCorrect == Spec => []TypeOK
  <1>1. IInv => TypeOK
    BY DEF IInv
  <1> QED
    BY <1>1, Initially, Inductive, PTL DEF Spec

\* The lock serialises the compose commands of a login, however many threads
\* and timers it has and whatever crashes.
THEOREM ComposeIsExclusive == Spec => []OneComposeAtATime
  <1>1. IInv => OneComposeAtATime
    BY Alone DEF IInv, OneComposeAtATime, Composing, Locked
  <1> QED
    BY <1>1, Initially, Inductive, PTL DEF Spec

\* Nobody is accepted with a password that is not the account's, in whatever
\* order the threads of first logins run.
THEOREM PasswordsChecked == Spec => []AcceptedKnowsPassword
  <1>1. IInv => AcceptedKnowsPassword
    BY DEF IInv, Vetted, AcceptedKnowsPassword
  <1> QED
    BY <1>1, Initially, Inductive, PTL DEF Spec

\* No login is answered "Server error" unless the database failed in that very
\* step: racing first logins of one user do not make each other fail.
THEOREM NoNeedlessError == Spec => ServerErrorMeansFault
  <1>1. IInv /\ [Next]_vars =>
          [\A w \in 1 .. Len(workers) :
             workers'[w].reply = "server error" /\ workers[w].reply # "server error"
               => "database" \in Faults /\ faults' = faults + 1]_vars
    BY ErrorNeedsFault
  <1> QED
    BY <1>1, Initially, Inductive, PTL DEF Spec, ServerErrorMeansFault

\* A login is told its account's port for ever and its stack is up at no other,
\* whatever crash or database error comes between `up` and add_user, as long as
\* docker does not fail as well (start_client, restart_client).
THEOREM StacksWhereAccountsSay ==
  ASSUME OneKindOfFault
  PROVE  Spec => []UpWhereAccountSays
  <1>1. Init => StacksKnown
    <2> SUFFICES ASSUME Init PROVE StacksKnown
      OBVIOUS
    <2>1. workers = << >>
      BY DEF Init
    <2>2. 1 .. Len(workers) = {}
      BY <2>1, EmptySeq
    <2> QED
      BY <2>2 DEF Init, StacksKnown, UpWhereAccountSays
  <1>2. StacksKnown => UpWhereAccountSays
    BY DEF StacksKnown
  <1>3. IInv /\ StacksKnown /\ [Next]_vars => IInv' /\ StacksKnown'
    BY Inductive, StacksStayKnown
  <1> QED
    BY <1>1, <1>2, <1>3, Initially, PTL DEF Spec

\* A login that begins cancels the timer of an earlier logout, in whatever order
\* the threads of the login's messages run; only of two logouts that overlapped
\* may one have a timer that nobody can cancel (_cancel_logout, _schedule_logout).
THEOREM LoginInTime == Spec => LoginCancelsTimer
  <1>1. Init => TimersStored
    <2> SUFFICES ASSUME Init PROVE TimersStored
      OBVIOUS
    <2>1. workers = << >>
      BY DEF Init
    <2>2. 1 .. Len(workers) = {}
      BY <2>1, EmptySeq
    <2> QED
      BY <2>2 DEF TimersStored
  <1>2. IInv /\ TimersStored /\ [Next]_vars => IInv' /\ TimersStored'
    BY Inductive, TimersStayStored
  <1>3. IInv /\ TimersStored /\ [Next]_vars =>
          [\A v, w \in 1 .. Len(workers) :
             /\ Login(v) = Login(w)
             /\ At(v, "login") /\ workers'[v].step # "login"
             /\ At(w, "armed") /\ ~workers[w].overlapped
             => workers'[w].step = "done"]_vars
    BY LoginCancels
  <1> QED
    BY <1>1, <1>2, <1>3, Initially, PTL DEF Spec, LoginCancelsTimer
=============================================================================
