------------------------ MODULE ControllerManagerProofs ------------------------
(***************************************************************************)
(* Proofs about ControllerManager, for any number of requests, controllers *)
(* and workers: the books of the manager and the calls of the backends     *)
(* agree, however the handlers, the connect tasks and the executor         *)
(* interleave.                                                             *)
(***************************************************************************)
EXTENDS ControllerManager, TLAPS

\* The calls of a controller, and a press: which of them are jobs, and that no
\* two of them are the same.
LEMMA JobFacts ==
    /\ \A c \in Ids : Connect(c) \in Jobs /\ Disconnect(c) \in Jobs
    /\ \A r \in Requests : Press(r) \in Jobs
    /\ \A c, d \in Ids : Connect(c) # Disconnect(d)
    /\ \A c, d \in Ids : Connect(c) = Connect(d) => c = d
    /\ \A c, d \in Ids : Disconnect(c) = Disconnect(d) => c = d
    /\ \A c \in Ids, r \in Requests : Connect(c) # Press(r) /\ Disconnect(c) # Press(r)
    /\ \A q, r \in Requests : Press(q) = Press(r) => q = r
BY DEF Jobs, Connect, Disconnect, Press

\* The ids are the numbers below the bound, and there is a first one.
LEMMA IdFacts ==
    /\ Ids \subseteq Nat /\ 0 \in Ids
    /\ \A n \in Nat : n < MaxControllers => n \in Ids
    /\ MaxControllers \in Nat
BY ConstantsAssumption DEF Ids

(***************************************************************************)
(* The executor's queue                                                    *)
(***************************************************************************)
QueueTyped ==
    /\ queue \in Seq(Jobs)
    /\ {queue[i] : i \in DOMAIN queue} = {j \in Jobs : job[j] = "queued"}

\* No job waits twice: the first of the queue is gone once it has started.
QueuedOnce == \A i, k \in DOMAIN queue : queue[i] = queue[k] => i = k

\* Submitting a job that does not wait already keeps the queue in order.
LEMMA SubmitKeepsQueue ==
    ASSUME QueueTyped, QueuedOnce, job \in [Jobs -> JobStatus],
           NEW j \in Jobs, job[j] # "queued", Submit(j)
    PROVE  QueueTyped' /\ QueuedOnce'
<1> USE DEF QueueTyped, QueuedOnce, Submit
<1>1. /\ queue' \in Seq(Jobs) /\ Len(queue') = Len(queue) + 1 /\ Len(queue) \in Nat
      /\ DOMAIN queue = 1 .. Len(queue) /\ DOMAIN queue' = 1 .. Len(queue) + 1
      /\ \A i \in 1 .. Len(queue) : queue'[i] = queue[i]
      /\ queue'[Len(queue) + 1] = j
  OBVIOUS
<1>2. \A i \in 1 .. Len(queue) : queue[i] # j
  BY <1>1
<1>3. {queue'[i] : i \in DOMAIN queue'} = {queue[i] : i \in DOMAIN queue} \cup {j}
  <2>1. DOMAIN queue' = DOMAIN queue \cup {Len(queue) + 1}
    BY <1>1
  <2> QED
    BY <1>1, <2>1
<1>4. {k \in Jobs : job'[k] = "queued"} = {k \in Jobs : job[k] = "queued"} \cup {j}
  OBVIOUS
<1>5. QueueTyped'
  BY <1>1, <1>3, <1>4
<1>6. QueuedOnce'
  BY <1>1, <1>2
<1> QED
  BY <1>5, <1>6

\* A step that leaves the queue and what waits alone keeps it in order.
LEMMA QueueKept ==
    ASSUME QueueTyped, QueuedOnce, UNCHANGED queue,
           \A j \in Jobs : job'[j] = "queued" <=> job[j] = "queued"
    PROVE  QueueTyped' /\ QueuedOnce'
BY DEF QueueTyped, QueuedOnce

\* A worker takes the first job, which waits no more.
LEMMA StartKeepsQueue ==
    ASSUME QueueTyped, QueuedOnce, job \in [Jobs -> JobStatus], StartJob
    PROVE  /\ QueueTyped' /\ QueuedOnce'
           /\ Head(queue) \in Jobs /\ job[Head(queue)] = "queued"
<1> USE DEF QueueTyped, QueuedOnce, StartJob
<1>1. /\ queue \in Seq(Jobs) /\ queue # <<>> /\ queue' = Tail(queue)
      /\ job' = [job EXCEPT ![Head(queue)] = "running"]
  OBVIOUS
<1>2. /\ Len(queue) \in Nat \ {0} /\ DOMAIN queue = 1 .. Len(queue)
      /\ queue' \in Seq(Jobs) /\ DOMAIN queue' = 1 .. Len(queue) - 1
      /\ \A i \in 1 .. Len(queue) - 1 : queue'[i] = queue[i + 1]
      /\ Head(queue) = queue[1]
  BY <1>1
<1>3. Head(queue) \in Jobs /\ job[Head(queue)] = "queued"
  BY <1>2
<1>4. \A i \in 2 .. Len(queue) : queue[i] # Head(queue)
  BY <1>2
<1>5. {queue'[i] : i \in DOMAIN queue'}
        = {queue[i] : i \in DOMAIN queue} \ {Head(queue)}
  <2>1. ASSUME NEW i \in DOMAIN queue'
        PROVE  queue'[i] \in {queue[k] : k \in DOMAIN queue} \ {Head(queue)}
    BY <1>2, <1>4
  <2>2. ASSUME NEW k \in DOMAIN queue, queue[k] # Head(queue)
        PROVE  queue[k] \in {queue'[i] : i \in DOMAIN queue'}
    <3>1. k - 1 \in DOMAIN queue' /\ queue'[k - 1] = queue[k]
      BY <1>2, <2>2
    <3> QED
      BY <3>1
  <2> QED
    BY <2>1, <2>2
<1>6. {j \in Jobs : job'[j] = "queued"} = {j \in Jobs : job[j] = "queued"} \ {Head(queue)}
  BY <1>1, <1>3
<1>7. QueueTyped'
  BY <1>2, <1>5, <1>6
<1>8. QueuedOnce'
  BY <1>2
<1> QED
  BY <1>3, <1>7, <1>8

(***************************************************************************)
(* The inductive invariant. Books relates the manager's dictionary to the  *)
(* calls of each backend, Calls the calls to the backend's state, and      *)
(* Records both to the requests that made them.                            *)
(***************************************************************************)
ConnectStatus == {"none", "scheduled", "dropped", "queued", "running", "ok", "failed",
                  "returned", "raised"}
DisconnectStatus == {"none", "queued", "running", "ok", "failed", "returned", "raised"}

\* The types of the variables without the queue.
Typed ==
    /\ nextId \in 0 .. MaxControllers
    /\ known \subseteq Ids
    /\ info \in [Ids -> ControllerState] /\ error \in [Ids -> BOOLEAN]
    /\ state \in [Ids -> ControllerState]
    /\ early \in [Ids -> BOOLEAN] /\ link \in [Ids -> BOOLEAN]
    /\ job \in [Jobs -> JobStatus]
    /\ op \in [Requests -> Ops] /\ target \in [Requests -> Ids]
    /\ status \in [Requests -> Answers \cup {"new", "waiting", "open"}]

\* An id is used up when it is taken, and a controller stays in the dictionary
\* until its backend is told to disconnect; after that it is not told to connect.
Books ==
    \A c \in Ids :
        /\ c \in known => c < nextId /\ job[Disconnect(c)] = "none"
        /\ c >= nextId => job[Connect(c)] = "none" /\ job[Disconnect(c)] = "none"
        /\ job[Connect(c)] \in ConnectStatus /\ job[Disconnect(c)] \in DisconnectStatus
        /\ job[Connect(c)] \notin {"none", "scheduled", "dropped"} =>
               c \in known \/ job[Disconnect(c)] # "none"
        /\ job[Disconnect(c)] # "none" /\ ~early[c] => ~Connecting(c)

\* What the backends have come to: a link where their calls promise one or none,
\* and a state that goes with the calls.
Calls ==
    \A c \in Ids :
        /\ job[Connect(c)] = "ok" => link[c] \/ early[c]
        /\ job[Disconnect(c)] = "ok" => ~link[c] \/ early[c]
        /\ job[Disconnect(c)] = "failed" => early[c]
        /\ state[c] = "connecting" => Connecting(c)
        /\ state[c] = "connected" => job[Connect(c)] = "returned"
        /\ job[Disconnect(c)] = "returned" /\ ~early[c] => state[c] # "connected"
        /\ c \in known /\ job[Connect(c)] \in {"returned", "raised"} => info[c] # "connecting"
        /\ c \in known /\ error[c] =>
               info[c] = "error" /\ state[c] = "error" /\ job[Connect(c)] = "raised"

\* What the requests have come to.
Records ==
    \A r \in Requests :
        /\ status[r] = "new" => op[r] = "none" /\ job[Press(r)] = "none"
        /\ job[Press(r)] # "none" =>
               job[Connect(target[r])] \notin {"none", "scheduled", "dropped"}
        /\ Answered(r, "create", "created") => target[r] < nextId
        /\ op[r] = "delete" => status[r] \in {"waiting", "ok", "missing"}
        /\ op[r] = "delete" /\ status[r] \in {"waiting", "ok"} =>
               target[r] < nextId /\ target[r] \notin known

ManagerInv == Typed /\ QueueTyped /\ QueuedOnce /\ Books /\ Calls /\ Records
                /\ IdsNameOneController

-----------------------------------------------------------------------------
\* POST /controllers: the id taken is a new one.
LEMMA CreateKeeps ==
    ASSUME ManagerInv, NEW r \in Requests, NEW supported \in BOOLEAN, Create(r, supported)
    PROVE  ManagerInv'
<1> USE DEF ManagerInv, Create, AllocateId, Arrives, Answer, infos, backends
<1> nextId \in Ids /\ nextId' = nextId + 1 /\ nextId \in Nat
  BY IdFacts DEF Typed
<1>1. Typed'
  <2>1. nextId' \in 0 .. MaxControllers
    BY IdFacts DEF Typed
  <2>2. known' \subseteq Ids
    <3>1. known' \subseteq known \cup {nextId}
      OBVIOUS
    <3> QED
      BY <3>1 DEF Typed
  <2>3. info' \in [Ids -> ControllerState]
    BY DEF Typed, ControllerState
  <2>4. error' \in [Ids -> BOOLEAN]
    BY DEF Typed
  <2>5. job' \in [Jobs -> JobStatus]
    BY JobFacts DEF Typed, JobStatus
  <2>6. /\ op' \in [Requests -> Ops] /\ target' \in [Requests -> Ids]
        /\ status' \in [Requests -> Answers \cup {"new", "waiting", "open"}]
    BY DEF Typed, Ops, Answers
  <2> QED
    BY <2>1, <2>2, <2>3, <2>4, <2>5, <2>6 DEF Typed
<1>2. QueueTyped' /\ QueuedOnce'
  BY QueueKept, JobFacts DEF Typed, Books
<1>3. Books'
  BY JobFacts, IdFacts DEF Typed, Books, ConnectStatus, DisconnectStatus, Connecting
<1>4. Calls'
  BY JobFacts, IdFacts DEF Typed, Books, Calls, ConnectStatus, Connecting
<1>5. Records'
  <2>1. /\ \A q \in Requests : job'[Press(q)] = job[Press(q)]
        /\ \A c \in Ids : c # nextId => job'[Connect(c)] = job[Connect(c)]
        /\ job[Connect(nextId)] = "none"
    BY JobFacts DEF Typed, Books
  <2>2. /\ \A q \in Requests \ {r} : /\ op'[q] = op[q] /\ target'[q] = target[q]
                                     /\ status'[q] = status[q]
        /\ op'[r] = "create" /\ status'[r] # "new" /\ status[r] = "new" /\ target'[r] = nextId
        /\ known' \subseteq known \cup {nextId}
    BY DEF Typed
  <2>3. \A q \in Requests : target[q] \in Ids /\ target[q] \in Nat
    BY IdFacts DEF Typed
  <2> QED
    BY <2>1, <2>2, <2>3 DEF Records, Answered
<1>6. IdsNameOneController'
  BY JobFacts, IdFacts DEF Typed, Records, Books, IdsNameOneController, Answered
<1> QED
  BY <1>1, <1>2, <1>3, <1>4, <1>5, <1>6

\* The connect task starts for an entry that is there, or does nothing.
LEMMA StartConnectKeeps ==
    ASSUME ManagerInv, NEW c \in Ids, StartConnect(c)
    PROVE  ManagerInv'
<1> USE DEF ManagerInv, StartConnect, manager, infos, requests
<1>1. Typed'
  BY JobFacts, SMTT(30) DEF Typed, JobStatus, ControllerState, Submit
<1>2. QueueTyped' /\ QueuedOnce'
  <2>1. CASE c \in known
    BY <2>1, SubmitKeepsQueue, JobFacts DEF Typed
  <2>2. CASE c \notin known
    BY <2>2, QueueKept, JobFacts DEF Typed
  <2> QED
    BY <2>1, <2>2
<1>3. Books'
  BY JobFacts DEF Typed, Books, ConnectStatus, DisconnectStatus, Connecting, Submit
<1>4. Calls'
  BY JobFacts DEF Typed, Books, Calls, ConnectStatus, Connecting, Submit
<1>5. Records'
  BY JobFacts DEF Typed, Records, Answered, Submit
<1>6. IdsNameOneController'
  BY DEF IdsNameOneController, Answered
<1> QED
  BY <1>1, <1>2, <1>3, <1>4, <1>5, <1>6

\* The connect task writes the state and the info that its end calls for.
LEMMA FinishConnectKeeps ==
    ASSUME ManagerInv, NEW c \in Ids, FinishConnect(c)
    PROVE  ManagerInv'
<1> USE DEF ManagerInv, FinishConnect, manager, infos, requests
<1>1. Typed'
  <2>1. info' \in [Ids -> ControllerState] /\ state' \in [Ids -> ControllerState]
    BY DEF Typed, ControllerState
  <2>2. error' \in [Ids -> BOOLEAN]
    BY DEF Typed
  <2>3. job' \in [Jobs -> JobStatus]
    BY JobFacts DEF Typed, JobStatus
  <2> QED
    BY <2>1, <2>2, <2>3 DEF Typed
<1>2. QueueTyped' /\ QueuedOnce'
  BY QueueKept, JobFacts DEF Typed
<1>3. Books'
  BY JobFacts DEF Typed, Books, ConnectStatus, DisconnectStatus, Connecting
<1>4. Calls'
  BY JobFacts DEF Typed, Books, Calls, ConnectStatus, Connecting
<1>5. Records'
  BY JobFacts DEF Typed, Records, Answered
<1>6. IdsNameOneController'
  BY DEF IdsNameOneController, Answered
<1> QED
  BY <1>1, <1>2, <1>3, <1>4, <1>5, <1>6

\* GET copies the state of the backend into the info.
LEMMA GetControllerKeeps ==
    ASSUME ManagerInv, NEW r \in Requests, NEW c \in Ids, GetController(r, c)
    PROVE  ManagerInv'
<1> USE DEF ManagerInv, GetController, Arrives, Answer, manager, backends, pool
<1>1. Typed'
  BY DEF Typed, ControllerState, Ops, Answers
<1>2. QueueTyped' /\ QueuedOnce'
  BY QueueKept
<1>3. Books'
  BY DEF Typed, Books, Connecting
<1>4. Calls'
  BY DEF Typed, Calls, Connecting
<1>5. Records'
  BY DEF Typed, Records, Answered
<1>6. IdsNameOneController'
  BY DEF Typed, Records, IdsNameOneController, Answered
<1> QED
  BY <1>1, <1>2, <1>3, <1>4, <1>5, <1>6

\* DELETE takes the entry out before it calls disconnect().
LEMMA RemoveKeeps ==
    ASSUME ManagerInv, NEW r \in Requests, NEW c \in Ids, Remove(r, c)
    PROVE  ManagerInv'
<1> USE DEF ManagerInv, Remove, Arrives, Answer, infos, pool
<1>1. Typed'
  <2>1. known' \subseteq Ids /\ early' \in [Ids -> BOOLEAN]
    <3>1. Connecting(c) \in BOOLEAN
      BY DEF Connecting
    <3> QED
      BY <3>1 DEF Typed
  <2>2. job' \in [Jobs -> JobStatus]
    BY JobFacts DEF Typed, JobStatus, Submit
  <2>3. /\ op' \in [Requests -> Ops] /\ target' \in [Requests -> Ids]
        /\ status' \in [Requests -> Answers \cup {"new", "waiting", "open"}]
    BY DEF Typed, Ops, Answers
  <2> QED
    BY <2>1, <2>2, <2>3 DEF Typed
<1>2. QueueTyped' /\ QueuedOnce'
  <2>1. CASE c \in known
    BY <2>1, SubmitKeepsQueue, JobFacts DEF Typed, Books
  <2>2. CASE c \notin known
    BY <2>2, QueueKept
  <2> QED
    BY <2>1, <2>2
<1>3. Books'
  <2>1. CASE c \in known
    <3>1. /\ \A d \in Ids : job'[Connect(d)] = job[Connect(d)]
          /\ \A d \in Ids \ {c} : /\ job'[Disconnect(d)] = job[Disconnect(d)]
                                  /\ early'[d] = early[d]
          /\ job'[Disconnect(c)] = "queued" /\ early'[c] = Connecting(c)
          /\ known' = known \ {c} /\ nextId' = nextId
      BY <2>1, JobFacts DEF Typed, Submit
    <3>2. c < nextId /\ nextId \in Nat /\ Ids \subseteq Nat
      BY <2>1, IdFacts DEF Typed, Books
    <3> HIDE DEF Remove
    <3>3. ASSUME NEW d \in Ids \ {c}
          PROVE  /\ d \in known' => d \in known
                 /\ job'[Connect(d)] = job[Connect(d)]
                 /\ job'[Disconnect(d)] = job[Disconnect(d)]
                 /\ early'[d] = early[d]
                 /\ d \in known => d \in known'
      BY <3>1
    <3>4. /\ c \notin known' /\ ~(c >= nextId) /\ nextId' = nextId
          /\ job'[Connect(c)] = job[Connect(c)] /\ job'[Disconnect(c)] = "queued"
          /\ early'[c] = (job[Connect(c)] \in {"queued", "running", "ok", "failed"})
      BY <3>1, <3>2 DEF Connecting
    <3> QED
      BY <3>3, <3>4 DEF Books, Connecting, ConnectStatus, DisconnectStatus
  <2>2. CASE c \notin known
    BY <2>2 DEF Books, Connecting
  <2> QED
    BY <2>1, <2>2
<1>4. Calls'
  BY JobFacts DEF Typed, Books, Calls, ConnectStatus, Connecting, Submit
<1>5. Records'
  BY JobFacts DEF Typed, Books, Records, Answered, Submit
<1>6. IdsNameOneController'
  BY DEF Typed, Records, IdsNameOneController, Answered
<1> QED
  BY <1>1, <1>2, <1>3, <1>4, <1>5, <1>6

\* The DELETE handler resumes: the state it leaves is not "connected".
LEMMA FinishRemoveKeeps ==
    ASSUME ManagerInv, NEW r \in Requests, FinishRemove(r)
    PROVE  ManagerInv'
<1> USE DEF ManagerInv, FinishRemove, Answer, manager
<1> target[r] \in Ids
  BY DEF Typed
<1>1. Typed'
  BY JobFacts, SMTT(30) DEF Typed, JobStatus, ControllerState, Answers
<1>2. QueueTyped' /\ QueuedOnce'
  BY QueueKept, JobFacts DEF Typed
<1>3. Books'
  BY JobFacts DEF Typed, Books, ConnectStatus, DisconnectStatus, Connecting
<1>4. Calls'
  BY JobFacts DEF Typed, Books, Calls, Records, ConnectStatus, Connecting
<1>5. Records'
  BY JobFacts DEF Typed, Records, Answered
<1>6. IdsNameOneController'
  BY DEF Typed, Records, IdsNameOneController, Answered
<1> QED
  BY <1>1, <1>2, <1>3, <1>4, <1>5, <1>6

\* A press that is accepted finds its backend connected.
LEMMA PressButtonsKeeps ==
    ASSUME ManagerInv, NEW r \in Requests, NEW c \in Ids, PressButtons(r, c)
    PROVE  ManagerInv'
<1> USE DEF ManagerInv, PressButtons, Arrives, Answer, manager, infos, backends, pool
<1>1. Typed'
  BY JobFacts DEF Typed, JobStatus, Ops, Answers, Submit
<1>2. QueueTyped' /\ QueuedOnce'
  <2>1. CASE UNCHANGED pool
    BY <2>1, QueueKept
  <2>2. CASE Submit(Press(r))
    BY <2>2, SubmitKeepsQueue, JobFacts DEF Typed, Records
  <2> QED
    BY <2>1, <2>2
<1>3. Books'
  BY JobFacts DEF Typed, Books, Connecting, Submit
<1>4. Calls'
  BY JobFacts DEF Typed, Calls, Connecting, Submit
<1>5. Records'
  BY JobFacts DEF Typed, Calls, Records, Answered, Submit, Accepts
<1>6. IdsNameOneController'
  BY DEF Typed, Records, IdsNameOneController, Answered
<1> QED
  BY <1>1, <1>2, <1>3, <1>4, <1>5, <1>6

\* A press is answered.
LEMMA FinishPressKeeps ==
    ASSUME ManagerInv, NEW r \in Requests, FinishPress(r)
    PROVE  ManagerInv'
<1> USE DEF ManagerInv, FinishPress, manager, infos, backends
<1>a. \E a \in {"ok", "conflict", "crashed"} : Answer(r, a)
  OBVIOUS
<1> USE DEF Answer
<1>1. Typed'
  BY JobFacts DEF Typed, JobStatus, Answers
<1>2. QueueTyped' /\ QueuedOnce'
  BY QueueKept, JobFacts DEF Typed
<1>3. Books'
  BY JobFacts DEF Typed, Books, Connecting
<1>4. Calls'
  BY JobFacts DEF Typed, Calls, Connecting
<1>5. Records'
  BY <1>a, JobFacts DEF Typed, Records, Answered
<1>6. IdsNameOneController'
  BY <1>a DEF Typed, Records, IdsNameOneController, Answered
<1> QED
  BY <1>1, <1>2, <1>3, <1>4, <1>5, <1>6

\* Input that does not wait changes none of the books.
LEMMA InputKeeps ==
    ASSUME ManagerInv, NEW r \in Requests, NEW c \in Ids, Input(r, c)
    PROVE  ManagerInv'
<1> USE DEF ManagerInv, Input, Arrives, Answer, manager, infos, backends, pool
<1>1. Typed'
  BY DEF Typed, Ops, Answers
<1>2. QueueTyped' /\ QueuedOnce'
  BY QueueKept
<1>3. Books'
  BY DEF Typed, Books, Connecting
<1>4. Calls'
  BY DEF Typed, Calls, Connecting
<1>5. Records'
  BY DEF Typed, Records, Answered
<1>6. IdsNameOneController'
  BY DEF Typed, Records, IdsNameOneController, Answered
<1> QED
  BY <1>1, <1>2, <1>3, <1>4, <1>5, <1>6

\* A session opens, whether its controller is there or not.
LEMMA OpenSocketKeeps ==
    ASSUME ManagerInv, NEW r \in Requests, NEW c \in Ids, OpenSocket(r, c)
    PROVE  ManagerInv'
<1> USE DEF ManagerInv, OpenSocket, Arrives, Answer, manager, infos, backends, pool
<1>1. Typed'
  BY DEF Typed, Ops, Answers
<1>2. QueueTyped' /\ QueuedOnce'
  BY QueueKept
<1>3. Books'
  BY DEF Typed, Books, Connecting
<1>4. Calls'
  BY DEF Typed, Calls, Connecting
<1>5. Records'
  BY DEF Typed, Records, Answered
<1>6. IdsNameOneController'
  BY DEF Typed, Records, IdsNameOneController, Answered
<1> QED
  BY <1>1, <1>2, <1>3, <1>4, <1>5, <1>6

\* A session closes.
LEMMA CloseSocketKeeps ==
    ASSUME ManagerInv, NEW r \in Requests, CloseSocket(r)
    PROVE  ManagerInv'
<1> USE DEF ManagerInv, CloseSocket, Answer, manager, infos, backends, pool
<1>1. Typed'
  BY DEF Typed, Ops, Answers
<1>2. QueueTyped' /\ QueuedOnce'
  BY QueueKept
<1>3. Books'
  BY DEF Typed, Books, Connecting
<1>4. Calls'
  BY DEF Typed, Calls, Connecting
<1>5. Records'
  BY DEF Typed, Records, Answered
<1>6. IdsNameOneController'
  BY DEF Typed, Records, IdsNameOneController, Answered
<1> QED
  BY <1>1, <1>2, <1>3, <1>4, <1>5, <1>6

\* A link opens while connect() runs, so before a disconnect() that was not early.
LEMMA OpenLinkKeeps ==
    ASSUME ManagerInv, NEW c \in Ids, OpenLink(c)
    PROVE  ManagerInv'
<1> USE DEF ManagerInv, OpenLink, manager, infos, pool, requests
<1>1. Typed'
  BY DEF Typed, ControllerState
<1>2. QueueTyped' /\ QueuedOnce'
  BY QueueKept
<1>3. Books'
  BY DEF Typed, Books, Connecting
<1>4. Calls'
  BY DEF Typed, Books, Calls, Connecting
<1>5. Records'
  BY DEF Typed, Records, Answered
<1>6. IdsNameOneController'
  BY DEF IdsNameOneController, Answered
<1> QED
  BY <1>1, <1>2, <1>3, <1>4, <1>5, <1>6

\* A link closes only where no call still promises one.
LEMMA CloseLinkKeeps ==
    ASSUME ManagerInv, NEW c \in Ids, CloseLink(c)
    PROVE  ManagerInv'
<1> USE DEF ManagerInv, CloseLink, manager, infos, pool, requests
<1>1. Typed'
  BY DEF Typed, ControllerState
<1>2. QueueTyped' /\ QueuedOnce'
  BY QueueKept
<1>3. Books'
  BY DEF Typed, Books, Connecting
<1>4. Calls'
  BY DEF Typed, Books, Calls, Connecting
<1>5. Records'
  BY DEF Typed, Records, Answered
<1>6. IdsNameOneController'
  BY DEF IdsNameOneController, Answered
<1> QED
  BY <1>1, <1>2, <1>3, <1>4, <1>5, <1>6

\* The keep-alive thread may fail at any time after connect() was called.
LEMMA LinkErrorKeeps ==
    ASSUME ManagerInv, NEW c \in Ids, LinkError(c)
    PROVE  ManagerInv'
<1> USE DEF ManagerInv, LinkError, manager, infos, pool, requests
<1>1. Typed'
  BY DEF Typed, ControllerState
<1>2. QueueTyped' /\ QueuedOnce'
  BY QueueKept
<1>3. Books'
  BY DEF Typed, Books, Connecting
<1>4. Calls'
  BY DEF Typed, Books, Calls, Connecting
<1>5. Records'
  BY DEF Typed, Records, Answered
<1>6. IdsNameOneController'
  BY DEF IdsNameOneController, Answered
<1> QED
  BY <1>1, <1>2, <1>3, <1>4, <1>5, <1>6

\* The blocking half of connect() ends.
LEMMA EndConnectKeeps ==
    ASSUME ManagerInv, NEW c \in Ids, EndConnect(c)
    PROVE  ManagerInv'
<1> USE DEF ManagerInv, EndConnect, End, manager, infos, backends, requests
<1>1. Typed'
  BY JobFacts DEF Typed, JobStatus, ControllerState
<1>2. QueueTyped' /\ QueuedOnce'
  BY QueueKept, JobFacts DEF Typed
<1>3. Books'
  BY JobFacts DEF Typed, Books, ConnectStatus, DisconnectStatus, Connecting
<1>4. Calls'
  BY JobFacts DEF Typed, Books, Calls, Connecting
<1>5. Records'
  BY JobFacts DEF Typed, Records, Answered
<1>6. IdsNameOneController'
  BY DEF IdsNameOneController, Answered
<1> QED
  BY <1>1, <1>2, <1>3, <1>4, <1>5, <1>6

\* The blocking half of disconnect() ends.
LEMMA EndDisconnectKeeps ==
    ASSUME ManagerInv, NEW c \in Ids, EndDisconnect(c)
    PROVE  ManagerInv'
<1> USE DEF ManagerInv, EndDisconnect, End, manager, infos, backends, requests
<1>1. Typed'
  BY JobFacts DEF Typed, JobStatus, ControllerState
<1>2. QueueTyped' /\ QueuedOnce'
  BY QueueKept, JobFacts DEF Typed
<1>3. Books'
  BY JobFacts DEF Typed, Books, ConnectStatus, DisconnectStatus, Connecting
<1>4. Calls'
  BY JobFacts DEF Typed, Books, Calls, Connecting
<1>5. Records'
  BY JobFacts DEF Typed, Records, Answered
<1>6. IdsNameOneController'
  BY DEF IdsNameOneController, Answered
<1> QED
  BY <1>1, <1>2, <1>3, <1>4, <1>5, <1>6

\* The thread of a press ends, with the state left or set to "error".
LEMMA EndPressKeeps ==
    ASSUME ManagerInv, NEW r \in Requests, EndPress(r)
    PROVE  ManagerInv'
<1> USE DEF ManagerInv, EndPress, End, manager, infos, requests
<1>1. Typed'
  BY JobFacts DEF Typed, JobStatus, ControllerState
<1>2. QueueTyped' /\ QueuedOnce'
  BY QueueKept, JobFacts DEF Typed
<1>3. Books'
  BY JobFacts DEF Typed, Books, ConnectStatus, DisconnectStatus, Connecting
<1>4. Calls'
  BY JobFacts DEF Typed, Books, Calls, Connecting
<1>5. Records'
  BY JobFacts DEF Typed, Records, Answered
<1>6. IdsNameOneController'
  BY DEF IdsNameOneController, Answered
<1> QED
  BY <1>1, <1>2, <1>3, <1>4, <1>5, <1>6

\* A worker takes a job.
LEMMA StartJobKeeps ==
    ASSUME ManagerInv, StartJob
    PROVE  ManagerInv'
<1> USE DEF ManagerInv, manager, infos, backends, requests
<1>a. /\ Head(queue) \in Jobs /\ job[Head(queue)] = "queued"
      /\ job' = [job EXCEPT ![Head(queue)] = "running"]
      /\ UNCHANGED <<manager, infos, backends, requests>>
  BY StartKeepsQueue DEF Typed, StartJob
<1>1. Typed'
  BY <1>a DEF Typed, JobStatus
<1>2. QueueTyped' /\ QueuedOnce'
  BY StartKeepsQueue DEF Typed
<1>3. Books'
  BY <1>a, JobFacts DEF Typed, Books, ConnectStatus, DisconnectStatus, Connecting
<1>4. Calls'
  BY <1>a, JobFacts DEF Typed, Calls, Connecting
<1>5. Records'
  BY <1>a, JobFacts DEF Typed, Records, Answered
<1>6. IdsNameOneController'
  BY <1>a DEF IdsNameOneController, Answered
<1> QED
  BY <1>1, <1>2, <1>3, <1>4, <1>5, <1>6

\* The initial state and every step keep the invariant.
LEMMA Inductive == (Init => ManagerInv) /\ (ManagerInv /\ [Next]_vars => ManagerInv')
<1>1. Init => ManagerInv
  <2> SUFFICES ASSUME Init PROVE ManagerInv
    OBVIOUS
  <2> USE DEF Init
  <2>1. Typed
    BY IdFacts DEF Typed, ControllerState, JobStatus, Ops
  <2>2. QueueTyped /\ QueuedOnce
    BY DEF QueueTyped, QueuedOnce
  <2>3. Books /\ Calls
    BY JobFacts, IdFacts DEF Books, Calls, ConnectStatus, DisconnectStatus, Connecting
  <2>4. Records /\ IdsNameOneController
    BY JobFacts DEF Records, IdsNameOneController, Answered
  <2> QED
    BY <2>1, <2>2, <2>3, <2>4 DEF ManagerInv
<1>2. ManagerInv /\ [Next]_vars => ManagerInv'
  <2> SUFFICES ASSUME ManagerInv, [Next]_vars PROVE ManagerInv'
    OBVIOUS
  <2>1. ASSUME NEW r \in Requests,
               Request(r) \/ Resume(r) \/ CloseSocket(r) \/ RefuseFrame(r) \/ EndPress(r)
        PROVE  ManagerInv'
    BY <2>1, CreateKeeps, GetControllerKeeps, RemoveKeeps, PressButtonsKeeps, InputKeeps,
       OpenSocketKeeps, FinishRemoveKeeps, FinishPressKeeps, CloseSocketKeeps, EndPressKeeps
       DEF Request, Resume, RefuseFrame
  <2>2. ASSUME NEW c \in Ids,
               ConnectTask(c) \/ ConnectJob(c) \/ DisconnectJob(c) \/ LinkError(c)
        PROVE  ManagerInv'
    BY <2>2, StartConnectKeeps, FinishConnectKeeps, OpenLinkKeeps, EndConnectKeeps,
       CloseLinkKeeps, EndDisconnectKeeps, LinkErrorKeeps
       DEF ConnectTask, ConnectJob, DisconnectJob
  <2>3. CASE StartJob
    BY <2>3, StartJobKeeps
  <2>4. CASE UNCHANGED vars
    BY <2>4, QueueKept DEF ManagerInv, Typed, Books, Calls, Records, IdsNameOneController,
       Answered, Connecting, vars, manager, infos, backends, pool, requests
  <2> QED
    BY <2>1, <2>2, <2>3, <2>4 DEF Next
<1> QED
  BY <1>1, <1>2

\* The books, the calls and the records agree in every reachable state.
THEOREM Invariance == Spec => []ManagerInv
BY Inductive, PTL DEF Spec

-----------------------------------------------------------------------------
\* Type correctness; the queue of the executor holds each waiting job once.
THEOREM TypeCorrect == Spec => []TypeOK
<1>1. ManagerInv => TypeOK
  BY DEF ManagerInv, Typed, QueueTyped, TypeOK
<1> QED
  BY <1>1, Invariance, PTL

\* An id names one controller, from its creation to its deletion, however
\* many requests create and delete it at the same time.
THEOREM IdsAreUnique == Spec => []IdsNameOneController
<1>1. ManagerInv => IdsNameOneController
  BY DEF ManagerInv
<1> QED
  BY <1>1, Invariance, PTL

\* No backend that was told to connect is lost: it is in the dictionary, or
\* it has been told to disconnect.
THEOREM NothingOrphaned == Spec => []NoOrphan
<1>1. ManagerInv => NoOrphan
  BY DEF ManagerInv, Books, NoOrphan
<1> QED
  BY <1>1, Invariance, PTL

\* What a listed controller shows settles with its connect task.
THEOREM InfoSettles == Spec => []SettledInfo
<1>1. ManagerInv => SettledInfo
  BY DEF ManagerInv, Typed, Calls, SettledInfo
<1> QED
  BY <1>1, Invariance, PTL

\* A WebSocket session that outlives its controller has its frames refused.
THEOREM FramesRefused == Spec => []RemovedRefusesFrames
<1>1. ManagerInv => RemovedRefusesFrames
  BY DEF ManagerInv, Typed, Calls, RemovedRefusesFrames, Accepts
<1> QED
  BY <1>1, Invariance, PTL

-----------------------------------------------------------------------------
\* What a backend's contract sees of a job's status.
LEMMA CallFacts ==
    ASSUME NEW c \in Ids
    PROVE  /\ job[Connect(c)] \in {"none", "scheduled", "dropped"} => ConnectCall(c) = "none"
           /\ job[Connect(c)] \in {"returned", "raised"} => ConnectCall(c) = job[Connect(c)]
           /\ job[Connect(c)] \in {"queued", "running", "ok", "failed"}
                => ConnectCall(c) = "pending"
           /\ job[Disconnect(c)] \in {"none", "returned", "raised"}
                => DisconnectCall(c) = job[Disconnect(c)]
           /\ job[Disconnect(c)] \in {"queued", "running", "ok", "failed"}
                => DisconnectCall(c) = "pending"
<1>1. job[Connect(c)] \in {"none", "scheduled", "dropped"} => ConnectCall(c) = "none"
  BY Zenon DEF ConnectCall
<1>2. job[Connect(c)] \in {"returned", "raised"} => ConnectCall(c) = job[Connect(c)]
  BY Zenon DEF ConnectCall
<1>3. job[Connect(c)] \in {"queued", "running", "ok", "failed"} => ConnectCall(c) = "pending"
  BY Zenon DEF ConnectCall
<1> QED
  BY <1>1, <1>2, <1>3 DEF DisconnectCall

\* The same of the status after a step.
LEMMA CallFactsNext ==
    ASSUME NEW c \in Ids
    PROVE  /\ job'[Connect(c)] \in {"none", "scheduled", "dropped"} => ConnectCall(c)' = "none"
           /\ job'[Connect(c)] \in {"returned", "raised"} => ConnectCall(c)' = job'[Connect(c)]
           /\ job'[Connect(c)] \in {"queued", "running", "ok", "failed"}
                => ConnectCall(c)' = "pending"
           /\ job'[Disconnect(c)] \in {"none", "returned", "raised"}
                => DisconnectCall(c)' = job'[Disconnect(c)]
           /\ job'[Disconnect(c)] \in {"queued", "running", "ok", "failed"}
                => DisconnectCall(c)' = "pending"
<1>1. job'[Connect(c)] \in {"none", "scheduled", "dropped"} => ConnectCall(c)' = "none"
  BY Zenon DEF ConnectCall
<1>2. job'[Connect(c)] \in {"returned", "raised"} => ConnectCall(c)' = job'[Connect(c)]
  BY Zenon DEF ConnectCall
<1>3. job'[Connect(c)] \in {"queued", "running", "ok", "failed"} => ConnectCall(c)' = "pending"
  BY Zenon DEF ConnectCall
<1> QED
  BY <1>1, <1>2, <1>3 DEF DisconnectCall
\* A step that leaves a controller's calls and its backend alone is no step of
\* that backend.
LEMMA Frame ==
    ASSUME NEW d \in Ids,
           job'[Connect(d)] = job[Connect(d)], job'[Disconnect(d)] = job[Disconnect(d)],
           state'[d] = state[d], early'[d] = early[d], link'[d] = link[d]
    PROVE  UNCHANGED Backend(d)!vars
BY DEF Backend!vars, ConnectCall, DisconnectCall


\* Every step is, for each backend, a step that its contract allows, or none.
LEMMA ContractStep ==
    ASSUME ManagerInv, ManagerInv', [Next]_vars, NEW d \in Ids
    PROVE  [Backend(d)!Next]_(Backend(d)!vars)
<1> DEFINE Allowed == [Backend(d)!Next]_(Backend(d)!vars)
<1> USE DEF ManagerInv
<1> SUFFICES Allowed
  OBVIOUS
<1>a. Typed /\ Typed' /\ Books /\ Books'
  OBVIOUS
<1>1. ASSUME NEW c \in Ids, StartConnect(c) PROVE Allowed
  <2>1. CASE c = d /\ c \in known
    <3>1. /\ job[Connect(d)] = "scheduled" /\ job'[Connect(d)] = "queued"
          /\ job[Disconnect(d)] = "none" /\ job'[Disconnect(d)] = "none"
          /\ state'[d] = "connecting" /\ UNCHANGED <<early, link>>
      BY <1>1, <2>1, JobFacts DEF StartConnect, Typed, Books, Submit
    <3>2. Backend(d)!Connect
      BY <3>1, CallFacts, CallFactsNext DEF Backend!Connect
    <3> QED
      BY <3>2 DEF Backend!Next
  <2>2. CASE c = d /\ c \notin known
    <3>1. /\ job[Connect(d)] = "scheduled" /\ job'[Connect(d)] = "dropped"
          /\ job'[Disconnect(d)] = job[Disconnect(d)] /\ UNCHANGED <<state, early, link>>
      BY <1>1, <2>2, JobFacts DEF StartConnect, Typed
    <3>2. UNCHANGED Backend(d)!vars
      BY <3>1, CallFacts, CallFactsNext DEF Backend!vars, DisconnectCall
    <3> QED
      BY <3>2
  <2>3. CASE c # d
    BY <1>1, <2>3, Frame, JobFacts DEF StartConnect, Typed, Submit
  <2> QED
    BY <2>1, <2>2, <2>3
<1>2. ASSUME NEW c \in Ids, FinishConnect(c) PROVE Allowed
  <2>1. CASE c = d /\ job[Connect(c)] = "ok"
    <3>1. /\ job'[Connect(d)] = "returned" /\ state'[d] = "connected"
          /\ job'[Disconnect(d)] = job[Disconnect(d)] /\ UNCHANGED <<early, link>>
          /\ link[d] \/ early[d]
      BY <1>2, <2>1, JobFacts DEF FinishConnect, Typed, Calls
    <3>2. Backend(d)!ConnectReturns
      BY <2>1, <3>1, CallFacts, CallFactsNext DEF Backend!ConnectReturns, DisconnectCall
    <3> QED
      BY <3>2 DEF Backend!Next
  <2>2. CASE c = d /\ job[Connect(c)] = "failed"
    <3>1. /\ job'[Connect(d)] = "raised" /\ state'[d] = "error"
          /\ job'[Disconnect(d)] = job[Disconnect(d)] /\ UNCHANGED <<early, link>>
      BY <1>2, <2>2, JobFacts DEF FinishConnect, Typed
    <3>2. Backend(d)!ConnectRaises
      BY <2>2, <3>1, CallFacts, CallFactsNext DEF Backend!ConnectRaises, DisconnectCall
    <3> QED
      BY <3>2 DEF Backend!Next
  <2>3. CASE c # d
    BY <1>2, <2>3, Frame, JobFacts DEF FinishConnect, Typed
  <2> QED
    BY <1>2, <2>1, <2>2, <2>3 DEF FinishConnect
<1>3. ASSUME NEW r \in Requests, NEW c \in Ids, Remove(r, c) PROVE Allowed
  <2>1. CASE c = d /\ c \in known
    <3>1. /\ job[Disconnect(d)] = "none" /\ job'[Disconnect(d)] = "queued"
          /\ job'[Connect(d)] = job[Connect(d)] /\ job[Connect(d)] \in ConnectStatus
          /\ early'[d] = Connecting(d) /\ UNCHANGED <<state, link>>
      BY <1>3, <2>1, JobFacts DEF Remove, Typed, Books, Submit
    <3>2. early'[d] = (ConnectCall(d) = "pending")
      BY <3>1, CallFacts DEF Connecting, ConnectStatus
    <3>3. ConnectCall(d)' = ConnectCall(d)
      BY <3>1 DEF ConnectCall
    <3>4. Backend(d)!Disconnect
      BY <3>1, <3>2, <3>3, CallFacts, CallFactsNext DEF Backend!Disconnect
    <3> QED
      BY <3>4 DEF Backend!Next
  <2>2. CASE ~(c = d /\ c \in known)
    BY <1>3, <2>2, Frame, JobFacts DEF Remove, Typed, Submit, pool
  <2> QED
    BY <2>1, <2>2
<1>4. ASSUME NEW r \in Requests, FinishRemove(r) PROVE Allowed
  <2> DEFINE c == target[r]
  <2>1. c \in Ids
    BY DEF Typed
  <2>2. CASE c = d /\ job[Disconnect(c)] = "ok"
    <3>1. /\ job'[Disconnect(d)] = "returned" /\ state'[d] = "disconnected"
          /\ job'[Connect(d)] = job[Connect(d)] /\ UNCHANGED <<early, link>>
          /\ ~link[d] \/ early[d]
      BY <1>4, <2>1, <2>2, JobFacts DEF FinishRemove, Typed, Calls
    <3>2. Backend(d)!DisconnectReturns
      BY <2>2, <3>1, CallFacts, CallFactsNext DEF Backend!DisconnectReturns, ConnectCall
    <3> QED
      BY <3>2 DEF Backend!Next
  <2>3. CASE c = d /\ job[Disconnect(c)] = "failed"
    <3>1. /\ job'[Disconnect(d)] = "raised" /\ UNCHANGED <<state, early, link>>
          /\ job'[Connect(d)] = job[Connect(d)] /\ early[d]
      BY <1>4, <2>1, <2>3, JobFacts DEF FinishRemove, Typed, Calls
    <3>2. Backend(d)!DisconnectRaises
      BY <2>3, <3>1, CallFacts, CallFactsNext DEF Backend!DisconnectRaises, ConnectCall
    <3> QED
      BY <3>2 DEF Backend!Next
  <2>4. CASE c # d
    BY <1>4, <2>1, <2>4, Frame, JobFacts DEF FinishRemove, Typed
  <2> QED
    BY <1>4, <2>2, <2>3, <2>4 DEF FinishRemove
<1>5. ASSUME NEW c \in Ids, OpenLink(c) PROVE Allowed
  <2>1. CASE c = d
    <3>1. /\ job[Connect(d)] = "running" /\ ~link[d] /\ link'[d] = TRUE
          /\ UNCHANGED <<job, state, early>>
      BY <1>5, <2>1 DEF OpenLink, Typed, pool
    <3>2. Backend(d)!OpenLink
      BY <3>1, CallFacts DEF Backend!OpenLink, ConnectCall, DisconnectCall
    <3> QED
      BY <3>2 DEF Backend!Next
  <2>2. CASE c # d
    BY <1>5, <2>2, Frame DEF OpenLink, Typed, pool
  <2> QED
    BY <2>1, <2>2
<1>6. ASSUME NEW c \in Ids, CloseLink(c) PROVE Allowed
  <2>1. CASE c = d
    <3>1. /\ job[Disconnect(d)] = "running" \/ job[Connect(d)] = "failed"
          /\ link[d] /\ link'[d] = FALSE /\ UNCHANGED <<job, state, early>>
      BY <1>6, <2>1 DEF CloseLink, Typed, pool
    <3>2. ConnectCall(d) = "pending" \/ DisconnectCall(d) = "pending"
      BY <3>1, CallFacts
    <3>3. Backend(d)!CloseLink
      BY <3>1, <3>2 DEF Backend!CloseLink, ConnectCall, DisconnectCall
    <3> QED
      BY <3>3 DEF Backend!Next
  <2>2. CASE c # d
    BY <1>6, <2>2, Frame DEF CloseLink, Typed, pool
  <2> QED
    BY <2>1, <2>2
<1>7. ASSUME NEW c \in Ids, EndConnect(c) \/ EndDisconnect(c) PROVE Allowed
  <2>1. /\ \/ /\ job[Connect(d)] = "running" /\ job'[Connect(d)] \in {"ok", "failed"}
           \/ job'[Connect(d)] = job[Connect(d)]
        /\ \/ /\ job[Disconnect(d)] = "running" /\ job'[Disconnect(d)] \in {"ok", "failed"}
           \/ job'[Disconnect(d)] = job[Disconnect(d)]
        /\ UNCHANGED <<state, early, link>>
    BY <1>7, JobFacts DEF EndConnect, EndDisconnect, End, Typed, backends
  <2>2. ConnectCall(d)' = ConnectCall(d)
    BY <2>1, CallFacts, CallFactsNext DEF ConnectCall
  <2>3. DisconnectCall(d)' = DisconnectCall(d)
    BY <2>1, CallFacts, CallFactsNext DEF DisconnectCall
  <2> QED
    BY <2>1, <2>2, <2>3 DEF Backend!vars
<1>8. ASSUME NEW c \in Ids, state' \in {state, [state EXCEPT ![c] = "error"]},
             job[Connect(c)] \notin {"none", "scheduled", "dropped"},
             \A e \in Ids : /\ job'[Connect(e)] = job[Connect(e)]
                            /\ job'[Disconnect(e)] = job[Disconnect(e)],
             UNCHANGED <<early, link>>
      PROVE  Allowed
  <2>1. CASE c = d /\ state' # state
    <3>1. state'[d] = "error" /\ job[Connect(d)] \in ConnectStatus
      BY <1>8, <2>1 DEF Typed, Books
    <3>2. ConnectCall(d) # "none"
      BY <1>8, <2>1, <3>1, CallFacts DEF ConnectStatus
    <3>3. Backend(d)!LinkError
      BY <1>8, <3>1, <3>2 DEF Backend!LinkError, ConnectCall, DisconnectCall
    <3> QED
      BY <3>3 DEF Backend!Next
  <2>2. CASE ~(c = d /\ state' # state)
    BY <1>8, <2>2, Frame DEF Typed
  <2> QED
    BY <2>1, <2>2
<1>9. ASSUME NEW c \in Ids, LinkError(c) PROVE Allowed
  BY <1>8, <1>9 DEF LinkError, pool
<1>10. ASSUME NEW r \in Requests, EndPress(r) PROVE Allowed
  <2>1. /\ target[r] \in Ids /\ job[Press(r)] # "none"
        /\ state' \in {state, [state EXCEPT ![target[r]] = "error"]}
        /\ \A e \in Ids : /\ job'[Connect(e)] = job[Connect(e)]
                          /\ job'[Disconnect(e)] = job[Disconnect(e)]
        /\ UNCHANGED <<early, link>>
    BY <1>10, JobFacts DEF EndPress, End, Typed
  <2>2. job[Connect(target[r])] \notin {"none", "scheduled", "dropped"}
    BY <2>1 DEF Records
  <2> QED
    BY <1>8, <2>1, <2>2
<1>11. CASE StartJob
  <2>1. /\ Head(queue) \in Jobs /\ job[Head(queue)] = "queued"
        /\ job' = [job EXCEPT ![Head(queue)] = "running"]
        /\ UNCHANGED <<state, early, link>>
    BY <1>11, StartKeepsQueue DEF Typed, StartJob, backends
  <2>2. /\ \/ job[Connect(d)] = "queued" /\ job'[Connect(d)] = "running"
           \/ job'[Connect(d)] = job[Connect(d)]
        /\ \/ job[Disconnect(d)] = "queued" /\ job'[Disconnect(d)] = "running"
           \/ job'[Disconnect(d)] = job[Disconnect(d)]
    BY <2>1, JobFacts DEF Typed
  <2>3. ConnectCall(d)' = ConnectCall(d)
    BY <2>2, CallFacts, CallFactsNext DEF ConnectCall
  <2>4. DisconnectCall(d)' = DisconnectCall(d)
    BY <2>2, CallFacts, CallFactsNext DEF DisconnectCall
  <2> QED
    BY <2>1, <2>3, <2>4 DEF Backend!vars
<1>12. ASSUME NEW r \in Requests, NEW supported \in BOOLEAN, Create(r, supported)
       PROVE  Allowed
  <2>1. /\ nextId \in Ids /\ UNCHANGED <<state, early, link>>
        /\ job' \in {job, [job EXCEPT ![Connect(nextId)] = "scheduled"]}
        /\ job[Connect(nextId)] = "none"
    BY <1>12, IdFacts DEF Create, AllocateId, Typed, Books, backends
  <2>2. /\ \/ job[Connect(d)] = "none" /\ job'[Connect(d)] = "scheduled"
           \/ job'[Connect(d)] = job[Connect(d)]
        /\ job'[Disconnect(d)] = job[Disconnect(d)]
    BY <2>1, JobFacts DEF Typed
  <2>3. ConnectCall(d)' = ConnectCall(d)
    BY <2>2, CallFacts, CallFactsNext DEF ConnectCall
  <2> QED
    BY <2>1, <2>2, <2>3 DEF Backend!vars, DisconnectCall
<1>13. ASSUME NEW r \in Requests, NEW c \in Ids,
              GetController(r, c) \/ PressButtons(r, c) \/ Input(r, c) \/ OpenSocket(r, c)
       PROVE  Allowed
  BY <1>13, Frame, JobFacts
     DEF GetController, PressButtons, Input, OpenSocket, Submit, backends, pool, Typed
<1>14. ASSUME NEW r \in Requests, FinishPress(r) \/ CloseSocket(r) \/ RefuseFrame(r)
       PROVE  Allowed
  BY <1>14, Frame, JobFacts DEF FinishPress, CloseSocket, RefuseFrame, backends, pool, Typed
<1>15. CASE UNCHANGED vars
  BY <1>15, Frame DEF vars, backends, pool
<1> QED
  BY <1>1, <1>2, <1>3, <1>4, <1>5, <1>6, <1>7, <1>9, <1>10, <1>11, <1>12, <1>13, <1>14, <1>15
     DEF Next, Request, Resume, ConnectTask, ConnectJob, DisconnectJob

\* The manager and the handlers use every backend as its contract says.
THEOREM BackendsUsedRight == Spec => UsesBackendsRight
<1>1. ASSUME Init, NEW c \in Ids PROVE Backend(c)!Init
  <2>1. job[Connect(c)] = "none" /\ job[Disconnect(c)] = "none"
    BY <1>1, JobFacts DEF Init
  <2>2. ConnectCall(c) = "none" /\ DisconnectCall(c) = "none"
    BY <2>1, CallFacts
  <2> QED
    BY <1>1, <2>2 DEF Init, Backend!Init
<1>2. Init => \A c \in Ids : Backend(c)!Init
  BY <1>1
<1>3. ManagerInv /\ [Next]_vars /\ ManagerInv'
        => [\A c \in Ids : [Backend(c)!Next]_(Backend(c)!vars)]_vars
  BY ContractStep
<1> QED
  BY <1>2, <1>3, Invariance, PTL DEF Spec, UsesBackendsRight

\* What the contract is for, in the whole server: once the disconnect() of a
\* DELETE that did not race with its connect() has returned, no step of any
\* request, task or worker opens that controller's link again.
THEOREM DeletedStaysClosed == Spec => [](\A c \in Ids : Backend(c)!ClosedForGood)
<1> DEFINE Closed == \A c \in Ids : Backend(c)!NoLateConnect /\ Backend(c)!ClosedForGood
<1> USE DEF Backend!NoLateConnect, Backend!ClosedForGood
<1>1. (\A c \in Ids : Backend(c)!Init) => Closed
  BY DEF Backend!Init
<1>2. ASSUME Closed, \A c \in Ids : [Backend(c)!Next]_(Backend(c)!vars)
      PROVE  Closed'
  <2> SUFFICES ASSUME NEW c \in Ids
               PROVE  (Backend(c)!NoLateConnect /\ Backend(c)!ClosedForGood)'
    OBVIOUS
  <2>0. /\ Backend(c)!NoLateConnect /\ Backend(c)!ClosedForGood
        /\ [Backend(c)!Next]_(Backend(c)!vars)
    BY <1>2
  <2>1. CASE Backend(c)!Connect \/ Backend(c)!OpenLink
    BY <2>0, <2>1 DEF Backend!Connect, Backend!OpenLink
  <2>2. CASE Backend(c)!ConnectReturns \/ Backend(c)!ConnectRaises \/ Backend(c)!LinkError
    BY <2>0, <2>2 DEF Backend!ConnectReturns, Backend!ConnectRaises, Backend!LinkError
  <2>3. CASE Backend(c)!Disconnect \/ Backend(c)!CloseLink
    BY <2>0, <2>3, Zenon DEF Backend!Disconnect, Backend!CloseLink
  <2>4. CASE Backend(c)!DisconnectReturns \/ Backend(c)!DisconnectRaises
    BY <2>0, <2>4 DEF Backend!DisconnectReturns, Backend!DisconnectRaises
  <2>5. CASE UNCHANGED Backend(c)!vars
    BY <2>0, <2>5 DEF Backend!vars
  <2> QED
    BY <2>0, <2>1, <2>2, <2>3, <2>4, <2>5 DEF Backend!Next
<1>3. ASSUME UNCHANGED vars PROVE \A c \in Ids : [Backend(c)!Next]_(Backend(c)!vars)
  <2>1. UNCHANGED <<state, early, link, job>>
    BY <1>3 DEF vars, backends, pool
  <2> SUFFICES ASSUME NEW c \in Ids PROVE UNCHANGED Backend(c)!vars
    OBVIOUS
  <2> QED
    BY <2>1 DEF Backend!vars, ConnectCall, DisconnectCall
<1>4. Closed => \A c \in Ids : Backend(c)!ClosedForGood
  OBVIOUS
<1> HIDE DEF Closed
<1> QED
  BY <1>1, <1>2, <1>3, <1>4, BackendsUsedRight, PTL DEF UsesBackendsRight

=============================================================================
