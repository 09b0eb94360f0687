-------------------------- MODULE ControllerManager --------------------------
(***************************************************************************)
(* The server: core/manager.py and the handlers of api/ that call it, over *)
(* backends that keep the contract of GamepadBackend, and the thread pool  *)
(* in which the blocking halves of their calls run.                        *)
(*                                                                         *)
(* A handler runs on the event loop and is atomic up to an await that      *)
(* really waits: the executor's result in connect(), disconnect() and      *)
(* press_buttons(). Other requests run in between. The executor starts     *)
(* jobs in the order they were submitted, at most Workers at a time.       *)
(*                                                                         *)
(* A controller's backend is seen through state, early and link, as in     *)
(* GamepadBackend; "job" is where its connect() and disconnect() stand.    *)
(***************************************************************************)
EXTENDS Naturals, Sequences, FiniteSets

CONSTANTS
    Requests,        \* HTTP requests and WebSocket sessions
    MaxControllers,  \* bound: POST requests that reach the manager
    Workers          \* threads of asyncio's default executor

ASSUME ConstantsAssumption ==
    /\ MaxControllers \in Nat \ {0}
    /\ Workers \in Nat \ {0}
    /\ Requests \cap Nat = {}

Ids == 0 .. (MaxControllers - 1)

VARIABLES
    nextId,    \* _next_id
    known,     \* the keys of _controllers
    info,      \* state of each ControllerInfo
    error,     \* the ControllerInfo has an error text
    state,     \* state of each backend
    early,     \* its disconnect() was called while connect() ran
    link,      \* it has a link to the console
    job,       \* the calls that go through the executor
    queue,     \* jobs no worker has started
    op,        \* what each request asks for
    target,    \* the controller it names, or that it created
    status     \* where it stands, or how it was answered

manager  == <<nextId, known>>
infos    == <<info, error>>
backends == <<state, early, link>>
pool     == <<job, queue>>
requests == <<op, target, status>>
vars == <<manager, infos, backends, pool, requests>>

ControllerState == {"connecting", "connected", "disconnected", "error"}
Jobs == ({"connect", "disconnect"} \X Ids) \cup ({"press"} \X Requests)
JobStatus == {"none", "scheduled", "dropped", "queued", "running",
              "ok", "lost", "failed", "returned", "raised"}
Ops == {"none", "create", "get", "delete", "press", "input", "socket"}
Answers == {"ok", "created", "invalid", "missing", "conflict", "crashed", "closed"}

Connect(c) == <<"connect", c>>
Disconnect(c) == <<"disconnect", c>>
Press(r) == <<"press", r>>

Init ==
    /\ nextId = 0 /\ known = {}
    /\ info = [c \in Ids |-> "connecting"] /\ error = [c \in Ids |-> FALSE]
    /\ state = [c \in Ids |-> "disconnected"]
    /\ early = [c \in Ids |-> FALSE] /\ link = [c \in Ids |-> FALSE]
    /\ job = [j \in Jobs |-> "none"] /\ queue = <<>>
    /\ op = [r \in Requests |-> "none"]
    /\ target = [r \in Requests |-> 0]
    /\ status = [r \in Requests |-> "new"]

(***************************************************************************)
(* The executor, external: run_in_executor(None, ...) and its threads.     *)
(***************************************************************************)
Submit(j) ==
    /\ job' = [job EXCEPT ![j] = "queued"]
    /\ queue' = Append(queue, j)

StartJob ==
    /\ queue # <<>>
    /\ Cardinality({j \in Jobs : job[j] = "running"}) < Workers
    /\ job' = [job EXCEPT ![Head(queue)] = "running"]
    /\ queue' = Tail(queue)
    /\ UNCHANGED <<manager, infos, backends, requests>>

End(j, outcome) == job[j] = "running" /\ job' = [job EXCEPT ![j] = outcome]

(***************************************************************************)
(* POST /controllers                                                       *)
(***************************************************************************)
Arrives(r, what, c) ==
    /\ status[r] = "new"
    /\ op' = [op EXCEPT ![r] = what]
    /\ target' = [target EXCEPT ![r] = c]

Answer(r, answer) == status' = [status EXCEPT ![r] = answer]

\* Faulty variant: ids are numbered by the controllers that exist.
AllocateId_Count == Cardinality(known)

AllocateId == nextId

\* A platform without a backend raises ValueError after the id was taken.
Create(r, supported) ==
    LET cid == AllocateId IN
    /\ nextId < MaxControllers
    /\ Arrives(r, "create", cid)
    /\ nextId' = nextId + 1
    /\ IF supported
         THEN /\ known' = known \cup {cid}
              /\ info' = [info EXCEPT ![cid] = "connecting"]
              /\ error' = [error EXCEPT ![cid] = FALSE]
              /\ job' = [job EXCEPT ![Connect(cid)] = "scheduled"]
              /\ Answer(r, "created")
         ELSE Answer(r, "invalid") /\ UNCHANGED <<known, infos, job>>
    /\ UNCHANGED <<backends, queue>>

\* Faulty variant: the task does not look whether the entry is still there.
StartConnect_Unchecked(c) ==
    /\ job[Connect(c)] = "scheduled"
    /\ state' = [state EXCEPT ![c] = "connecting"]
    /\ Submit(Connect(c))
    /\ UNCHANGED <<manager, infos, early, link, requests>>

\* The first step of the _connect task, up to the executor.
StartConnect(c) ==
    /\ job[Connect(c)] = "scheduled"
    /\ IF c \in known
         THEN state' = [state EXCEPT ![c] = "connecting"] /\ Submit(Connect(c))
         ELSE job' = [job EXCEPT ![Connect(c)] = "dropped"] /\ UNCHANGED <<state, queue>>
    /\ UNCHANGED <<manager, infos, early, link, requests>>

\* Faulty variant: only RuntimeError is caught, and opening a link may raise
\* OSError.
FinishConnect_RuntimeErrorOnly(c) ==
    /\ \/ /\ job[Connect(c)] = "ok"
          /\ state' = [state EXCEPT ![c] = "connected"]
          /\ info' = [info EXCEPT ![c] = "connected"]
          /\ job' = [job EXCEPT ![Connect(c)] = "returned"]
          /\ UNCHANGED error
       \/ /\ job[Connect(c)] = "failed"
          /\ state' = [state EXCEPT ![c] = "error"]
          /\ \/ info' = [info EXCEPT ![c] = "error"] /\ error' = [error EXCEPT ![c] = TRUE]
             \/ UNCHANGED infos
          /\ job' = [job EXCEPT ![Connect(c)] = "raised"]
    /\ UNCHANGED <<manager, early, link, queue, requests>>

\* The backend's connect() resumes and ends, and with it the task.
FinishConnect(c) ==
    /\ \/ /\ job[Connect(c)] = "ok"
          /\ state' = [state EXCEPT ![c] = "connected"]
          /\ info' = [info EXCEPT ![c] = "connected"]
          /\ job' = [job EXCEPT ![Connect(c)] = "returned"]
          /\ UNCHANGED error
       \/ /\ job[Connect(c)] = "failed"
          /\ state' = [state EXCEPT ![c] = "error"]
          /\ info' = [info EXCEPT ![c] = "error"]
          /\ error' = [error EXCEPT ![c] = TRUE]
          /\ job' = [job EXCEPT ![Connect(c)] = "raised"]
    /\ UNCHANGED <<manager, early, link, queue, requests>>

(***************************************************************************)
(* GET and DELETE /controllers/{id}                                        *)
(***************************************************************************)
GetController(r, c) ==
    /\ Arrives(r, "get", c)
    /\ IF c \in known
         THEN info' = [info EXCEPT ![c] = state[c]] /\ Answer(r, "ok")
         ELSE Answer(r, "missing") /\ UNCHANGED info
    /\ UNCHANGED <<manager, error, backends, pool>>

Connecting(c) == job[Connect(c)] \in {"queued", "running", "ok", "failed"}

\* Faulty variant: a controller that is not connected is only forgotten.
Remove_OnlyIfConnected(r, c) ==
    /\ Arrives(r, "delete", c)
    /\ IF c \in known
         THEN /\ known' = known \ {c}
              /\ IF info[c] = "connected"
                   THEN /\ early' = [early EXCEPT ![c] = Connecting(c)]
                        /\ Submit(Disconnect(c))
                        /\ Answer(r, "waiting")
                   ELSE Answer(r, "ok") /\ UNCHANGED <<early, pool>>
         ELSE Answer(r, "missing") /\ UNCHANGED <<known, early, pool>>
    /\ UNCHANGED <<nextId, infos, state, link>>

\* Faulty variant: the entry is taken out once disconnect() has returned.
Remove_PopsLast(r, c) ==
    /\ Arrives(r, "delete", c)
    /\ IF c \in known
         THEN /\ early' = [early EXCEPT ![c] = Connecting(c)]
              /\ Submit(Disconnect(c))
              /\ Answer(r, "waiting")
         ELSE Answer(r, "missing") /\ UNCHANGED <<early, pool>>
    /\ known' = known \ {d \in Ids : job[Disconnect(d)] \in {"returned", "raised"}}
    /\ UNCHANGED <<nextId, infos, state, link>>

\* remove_controller pops the entry and calls disconnect() of its backend.
Remove(r, c) ==
    /\ Arrives(r, "delete", c)
    /\ IF c \in known
         THEN /\ known' = known \ {c}
              /\ early' = [early EXCEPT ![c] = Connecting(c)]
              /\ Submit(Disconnect(c))
              /\ Answer(r, "waiting")
         ELSE Answer(r, "missing") /\ UNCHANGED <<known, early, pool>>
    /\ UNCHANGED <<nextId, infos, state, link>>

\* Faulty variant: the handler waits until connect() has succeeded.
FinishRemove_AfterConnect(r) ==
    LET c == target[r] IN
    /\ op[r] = "delete" /\ status[r] = "waiting"
    /\ job[Connect(c)] = "returned"
    /\ \/ /\ job[Disconnect(c)] = "ok"
          /\ state' = [state EXCEPT ![c] = "disconnected"]
          /\ job' = [job EXCEPT ![Disconnect(c)] = "returned"]
       \/ /\ job[Disconnect(c)] = "failed"
          /\ job' = [job EXCEPT ![Disconnect(c)] = "raised"]
          /\ UNCHANGED state
    /\ info' = [info EXCEPT ![c] = "disconnected"]
    /\ Answer(r, "ok")
    /\ UNCHANGED <<manager, error, early, link, queue, op, target>>

\* Faulty variant: disconnect() does not assign the state it ends in.
FinishRemove_StateKept(r) ==
    LET c == target[r] IN
    /\ op[r] = "delete" /\ status[r] = "waiting"
    /\ job[Disconnect(c)] \in {"ok", "failed"}
    /\ job' = [job EXCEPT ![Disconnect(c)] = IF @ = "ok" THEN "returned" ELSE "raised"]
    /\ info' = [info EXCEPT ![c] = "disconnected"]
    /\ Answer(r, "ok")
    /\ UNCHANGED <<manager, error, backends, queue, op, target>>

\* What disconnect() raises is logged.
FinishRemove(r) ==
    LET c == target[r] IN
    /\ op[r] = "delete" /\ status[r] = "waiting"
    /\ \/ /\ job[Disconnect(c)] = "ok"
          /\ state' = [state EXCEPT ![c] = "disconnected"]
          /\ job' = [job EXCEPT ![Disconnect(c)] = "returned"]
       \/ /\ job[Disconnect(c)] = "failed"
          /\ job' = [job EXCEPT ![Disconnect(c)] = "raised"]
          /\ UNCHANGED state
    /\ info' = [info EXCEPT ![c] = "disconnected"]
    /\ Answer(r, "ok")
    /\ UNCHANGED <<manager, error, early, link, queue, op, target>>

(***************************************************************************)
(* Input. _ensure_connected also tests _conn: a disconnect() that raced    *)
(* may have left a CONNECTED backend without one.                          *)
(***************************************************************************)
Accepts(c) == state[c] = "connected"
Refuses(c) == state[c] # "connected" \/ early[c]

\* POST /buttons with action "press".
PressButtons(r, c) ==
    /\ Arrives(r, "press", c)
    /\ \/ c \notin known /\ Answer(r, "missing") /\ UNCHANGED pool
       \/ c \in known /\ Answer(r, "invalid") /\ UNCHANGED pool
       \/ c \in known /\ Refuses(c) /\ Answer(r, "conflict") /\ UNCHANGED pool
       \/ c \in known /\ Accepts(c) /\ Answer(r, "waiting") /\ Submit(Press(r))
    /\ UNCHANGED <<manager, infos, backends>>

\* RuntimeError is answered 409; anything else _press_sync raises is a 500.
FinishPress(r) ==
    /\ op[r] = "press" /\ status[r] = "waiting"
    /\ job[Press(r)] \in {"ok", "lost", "failed"}
    /\ Answer(r, CASE job[Press(r)] = "ok" -> "ok"
                   [] job[Press(r)] = "lost" -> "conflict"
                   [] job[Press(r)] = "failed" -> "crashed")
    /\ job' = [job EXCEPT ![Press(r)] = "returned"]
    /\ UNCHANGED <<manager, infos, backends, queue, op, target>>

\* POST /buttons with "down" or "up", and POST /stick: they do not wait.
Input(r, c) ==
    /\ Arrives(r, "input", c)
    /\ \/ c \notin known /\ Answer(r, "missing")
       \/ c \in known /\ Answer(r, "invalid")
       \/ c \in known /\ Refuses(c) /\ Answer(r, "conflict")
       \/ c \in known /\ Accepts(c) /\ Answer(r, "ok")
    /\ UNCHANGED <<manager, infos, backends, pool>>

\* WS /input looks the controller up once, when the session opens.
OpenSocket(r, c) ==
    /\ Arrives(r, "socket", c)
    /\ Answer(r, IF c \in known THEN "open" ELSE "missing")
    /\ UNCHANGED <<manager, infos, backends, pool>>

\* The client leaves, or a frame is refused: RuntimeError ends the loop.
\* Frames that are accepted, or that are invalid, change nothing here.
CloseSocket(r) ==
    /\ op[r] = "socket" /\ status[r] = "open"
    /\ Answer(r, "closed")
    /\ UNCHANGED <<manager, infos, backends, pool, op, target>>

RefuseFrame(r) ==
    /\ Refuses(target[r])
    /\ CloseSocket(r)

(***************************************************************************)
(* The backends, external here: the steps their contract allows.           *)
(***************************************************************************)
OpenLink(c) ==
    /\ job[Connect(c)] = "running" /\ ~link[c]
    /\ link' = [link EXCEPT ![c] = TRUE]
    /\ UNCHANGED <<manager, infos, state, early, pool, requests>>

EndConnect(c) ==
    /\ \/ End(Connect(c), "ok") /\ (link[c] \/ early[c])
       \/ End(Connect(c), "failed")
    /\ UNCHANGED <<manager, infos, backends, queue, requests>>

CloseLink(c) ==
    /\ link[c]
    /\ job[Disconnect(c)] = "running" \/ job[Connect(c)] = "failed"
    /\ link' = [link EXCEPT ![c] = FALSE]
    /\ UNCHANGED <<manager, infos, state, early, pool, requests>>

EndDisconnect(c) ==
    /\ \/ End(Disconnect(c), "ok") /\ (~link[c] \/ early[c])
       \/ End(Disconnect(c), "failed") /\ early[c]
    /\ UNCHANGED <<manager, infos, backends, queue, requests>>

\* A press ends: done, the link lost (or the set changed under the encoder),
\* or with another exception, as when disconnect() took the connection away.
EndPress(r) ==
    /\ \/ End(Press(r), "ok") /\ UNCHANGED state
       \/ /\ End(Press(r), "lost")
          /\ UNCHANGED state \/ state' = [state EXCEPT ![target[r]] = "error"]
       \/ End(Press(r), "failed") /\ UNCHANGED state
    /\ UNCHANGED <<manager, infos, early, link, queue, requests>>

\* The keep-alive thread ends with an error.
LinkError(c) ==
    /\ job[Connect(c)] \in {"running", "ok", "failed", "returned", "raised"}
    /\ state' = [state EXCEPT ![c] = "error"]
    /\ UNCHANGED <<manager, infos, early, link, pool, requests>>

ConnectTask(c) == StartConnect(c) \/ FinishConnect(c)
ConnectJob(c) == OpenLink(c) \/ EndConnect(c)
\* A failed connect() may close the link, disconnect() has to.
DisconnectJob(c) == CloseLink(c) \/ EndDisconnect(c)
Resume(r) == FinishRemove(r) \/ FinishPress(r)

Request(r) ==
    \/ \E supported \in BOOLEAN : Create(r, supported)
    \/ \E c \in Ids :
         \/ GetController(r, c) \/ Remove(r, c)
         \/ PressButtons(r, c) \/ Input(r, c) \/ OpenSocket(r, c)

Next ==
    \/ \E r \in Requests :
         Request(r) \/ Resume(r) \/ CloseSocket(r) \/ RefuseFrame(r) \/ EndPress(r)
    \/ \E c \in Ids :
         ConnectTask(c) \/ ConnectJob(c) \/ DisconnectJob(c) \/ LinkError(c)
    \/ StartJob

(***************************************************************************)
(* The event loop runs what is ready, a free worker takes the next job,    *)
(* and every job ends: CallsEnd of SwitchBackend and SwitchUSBBackend.     *)
(* Clients owe nothing.                                                    *)
(***************************************************************************)
Fairness ==
    /\ WF_vars(StartJob)
    /\ \A c \in Ids : /\ WF_vars(ConnectTask(c))
                      /\ WF_vars(EndConnect(c))
                      /\ WF_vars(DisconnectJob(c))
    /\ \A r \in Requests : WF_vars(Resume(r)) /\ WF_vars(EndPress(r))

Spec == Init /\ [][Next]_vars
FairSpec == Spec /\ Fairness

-----------------------------------------------------------------------------
\* Types; the queue holds just the jobs that wait.
TypeOK ==
    /\ nextId \in 0..MaxControllers
    /\ known \in SUBSET Ids
    /\ info \in [Ids -> ControllerState] /\ error \in [Ids -> BOOLEAN]
    /\ state \in [Ids -> ControllerState]
    /\ early \in [Ids -> BOOLEAN] /\ link \in [Ids -> BOOLEAN]
    /\ job \in [Jobs -> JobStatus]
    /\ queue \in Seq(Jobs)
    /\ {queue[i] : i \in DOMAIN queue} = {j \in Jobs : job[j] = "queued"}
    /\ op \in [Requests -> Ops] /\ target \in [Requests -> Ids]
    /\ status \in [Requests -> Answers \cup {"new", "waiting", "open"}]

Answered(r, what, answer) == op[r] = what /\ status[r] = answer

\* An id names one controller, from its creation to its deletion: two
\* creations never answer the same id, of the requests to delete it one at
\* most succeeds, however they interleave, and after that it is not found.
IdsNameOneController ==
    /\ \A r1, r2 \in Requests :
         /\ Answered(r1, "create", "created") /\ Answered(r2, "create", "created")
         /\ target[r1] = target[r2]
         => r1 = r2
    /\ \A r \in Requests :
         op[r] = "delete" /\ status[r] \in {"waiting", "ok"} =>
             /\ target[r] \notin known
             /\ \A r2 \in Requests \ {r} :
                  op[r2] = "delete" /\ target[r2] = target[r] => status[r2] = "missing"

\* A backend that was told to connect can be reached by its id, or has been
\* told to disconnect.
NoOrphan ==
    \A c \in Ids :
        job[Connect(c)] \notin {"none", "scheduled", "dropped"} =>
            c \in known \/ job[Disconnect(c)] # "none"

\* Once the task has ended, a listed controller does not read "connecting",
\* and an error text goes with the state "error".
SettledInfo ==
    \A c \in known :
        /\ job[Connect(c)] \in {"returned", "raised"} => info[c] # "connecting"
        /\ error[c] => info[c] = "error"

\* A WebSocket session outlives its controller: once the DELETE is answered
\* and connect() did not run meanwhile, its frames are refused.
RemovedRefusesFrames ==
    \A r \in Requests :
        LET c == target[r] IN
        /\ op[r] = "socket" /\ status[r] = "open"
        /\ job[Disconnect(c)] = "returned" /\ ~early[c]
        => ~Accepts(c)

ConnectCall(c) ==
    LET j == job[Connect(c)] IN
    CASE j \in {"none", "scheduled", "dropped"} -> "none"
      [] j \in {"returned", "raised"} -> j
      [] OTHER -> "pending"

DisconnectCall(c) ==
    LET j == job[Disconnect(c)] IN
    IF j \in {"none", "returned", "raised"} THEN j ELSE "pending"

Backend(c) == INSTANCE GamepadBackend WITH
    state <- state[c], early <- early[c], link <- link[c],
    connect <- ConnectCall(c), disconnect <- DisconnectCall(c)

\* The manager and the handlers use every backend as its contract says:
\* connect() at most once, disconnect() at most once and nothing after it.
UsesBackendsRight ==
    /\ \A c \in Ids : Backend(c)!Init
    /\ [][\A c \in Ids : [Backend(c)!Next]_(Backend(c)!vars)]_vars

\* Every request that waits for the executor is answered, and a controller
\* does not stay "connecting" for ever, also when a single worker has to serve
\* all controllers.
RequestsAreAnswered ==
    /\ \A r \in Requests : status[r] = "waiting" ~> status[r] \in Answers
    /\ \A c \in Ids : c \in known /\ info[c] = "connecting" ~>
         c \notin known \/ info[c] # "connecting"

=============================================================================
