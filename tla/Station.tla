---- MODULE Station ----
(***************************************************************************)
(* The station server: the StationWatcher thread publishes the state of    *)
(* the executing test after every change, the thread of Test.execute()     *)
(* publishes the final record, subscribers get both, and HTTP handlers     *)
(* look the test up.  A state is known by the number of its changes, a     *)
(* message by the states of test and plugs that it shows.                  *)
(***************************************************************************)
EXTENDS Naturals, Sequences

CONSTANTS
  TestOf,      \* TestOf[r]: the Test object whose execution is run r
  MaxChanges,  \* MaxChanges[r]: changes of the test state of run r
  MaxPlug,     \* changes of a run's plug state
  Clients,     \* WebSocket connections
  None

Runs == DOMAIN TestOf

\* What is published: the type, the uid it goes by and the state it shows.
Message == [type : {"update", "record"}, uid : Runs \cup {None}, run : Runs, ver : Nat]

ASSUME StationAssumption ==
  /\ Len(TestOf) \in Nat /\ Runs = 1..Len(TestOf)
  /\ MaxChanges \in [Runs -> Nat] /\ MaxPlug \in Nat /\ None \notin Message

VARIABLES
  run,      \* the current execution, or the last one
  main,     \* where Test.execute() is
  ver,      \* ver[r]: changes of the test state of run r
  dirty,    \* a change whose notify_update() is still to come
  told,     \* history: the changes of run there were at its last notification
  pver,     \* changes of the plug's state, each with its notification
  rec,      \* the record message being published
  w,        \* where the watcher is
  wrun,     \* the run whose state the watcher looks at
  event,    \* the watcher's event of the test state is set
  pevent,   \* its event of the plug is registered and set: "none", "clear", "set"
  snap,     \* the message with the state the watcher has read, ...
  psnap,    \* ... and the plug state in it
  last,     \* StationPubSub._last_message, with _last_execution_uid
  client,   \* client[c]: "off", "opened" or "on"
  got,      \* got[c]: the last message c received
  req       \* an HTTP request: [st, uid, run]

mainVars == <<run, main, ver, dirty, told, pver, rec>>
watchVars == <<w, wrun, event, pevent, snap, psnap>>
vars == <<run, main, ver, dirty, told, pver, rec, w, wrun, event, pevent, snap,
          psnap, last, client, got, req>>

Msg(type, uid, r, v) == [type |-> type, uid |-> uid, run |-> r, ver |-> v]
NoReq == [st |-> "none", uid |-> 0, run |-> 0]

Init ==
  /\ run = 0 /\ main = "idle" /\ ver = [r \in Runs |-> 0] /\ dirty = FALSE
  /\ told = 0 /\ pver = 0 /\ rec = None
  /\ w = "poll" /\ wrun = 0 /\ event = FALSE /\ pevent = "none" /\ snap = None
  /\ psnap = 0
  /\ last = None
  /\ client = [c \in Clients |-> "off"] /\ got = [c \in Clients |-> None]
  /\ req = NoReq

\* _get_executing_test: the run whose test is registered and has a state, or 0.
Executing == IF main \in {"idle", "created"} THEN 0 ELSE run

LastUid == IF last = None THEN None ELSE last.uid

\* Test.uid: the run that the Test object is executing now.
UidOf(test) == IF main # "idle" /\ test = TestOf[run] THEN run ELSE 0

---------------------------------------------------------------------------
(* Test.execute(), as far as the server sees it.                           *)

Execute ==
  /\ main = "idle" /\ run + 1 \in Runs
  /\ run' = run + 1 /\ main' = "created" /\ told' = 0 /\ pver' = 0
  /\ UNCHANGED <<ver, dirty, rec, watchVars, last, client, got, req>>

CreateState ==
  /\ main = "created" /\ main' = "running"
  /\ UNCHANGED <<run, ver, dirty, told, pver, rec, watchVars, last, client, got,
                 req>>

\* A change that whoever makes it announces: a phase starts or ends, a value is
\* measured, the DUT id or the status is set, something is logged.
Change ==
  /\ main = "running" /\ ~dirty /\ ver[run] < MaxChanges[run]
  /\ ver' = [ver EXCEPT ![run] = @ + 1] /\ dirty' = TRUE
  /\ UNCHANGED <<run, main, told, pver, rec, watchVars, last, client, got, req>>

\* A change of what is published that nobody announces: PhaseState.attach by the
\* phase, set_subtest_name, stop_running_phase, a subtest or branch record.
QuietChange ==
  /\ main = "running" /\ ver[run] < MaxChanges[run]
  /\ ver' = [ver EXCEPT ![run] = @ + 1]
  /\ UNCHANGED <<run, main, dirty, told, pver, rec, watchVars, last, client, got, req>>

\* notify_update sets and forgets the registered events.
Notify ==
  /\ dirty /\ dirty' = FALSE
  /\ event' = (event \/ (wrun = run /\ w # "poll"))
  /\ told' = ver[run]
  /\ UNCHANGED <<run, main, ver, pver, rec, w, wrun, pevent, snap, psnap, last,
                 client, got, req>>

PlugChange ==
  /\ main = "running" /\ ~dirty /\ pver < MaxPlug
  /\ pver' = pver + 1
  /\ pevent' = IF pevent = "clear" /\ wrun = run THEN "set" ELSE pevent
  /\ UNCHANGED <<run, main, ver, dirty, told, rec, w, wrun, event, snap, psnap, last,
                 client, got, req>>

\* The plugs are torn down and the state is finalized.
Finalize ==
  /\ main = "running" /\ ~dirty
  /\ main' = "final" /\ ver' = [ver EXCEPT ![run] = @ + 1] /\ dirty' = TRUE
  /\ UNCHANGED <<run, told, pver, rec, watchVars, last, client, got, req>>

\* PubSub.publish: under the lock, to every subscriber.
Publish(m) == got' = [c \in Clients |-> IF client[c] = "off" THEN got[c] ELSE m]

\* publish_final_state, an output callback: the message takes the uid of the
\* last one published, ...
MakeRecord ==
  /\ main = "final" /\ ~dirty /\ main' = "record"
  /\ rec' = Msg("record", LastUid, run, ver[run])
  /\ UNCHANGED <<run, ver, dirty, told, pver, watchVars, last, client, got, req>>

\* ... is published ...
PublishRecord ==
  /\ main = "record" /\ main' = "sent"
  /\ Publish(rec)
  /\ UNCHANGED <<run, ver, dirty, told, pver, rec, watchVars, last, client, req>>

\* ... and remembered, outside the lock.
RecordIsLast ==
  /\ main = "sent" /\ main' = "recorded"
  /\ last' = rec
  /\ UNCHANGED <<run, ver, dirty, told, pver, rec, watchVars, client, got, req>>

\* The test leaves TEST_INSTANCES and its executor is dropped.
Close ==
  /\ main = "recorded" /\ main' = "idle" /\ rec' = None
  /\ UNCHANGED <<run, ver, dirty, told, pver, watchVars, last, client, got, req>>

---------------------------------------------------------------------------
(* StationWatcher.                                                         *)

\* asdict_with_event registers the event, then begins to read the state.
Poll ==
  /\ w = "poll" /\ Executing # 0
  /\ w' = "read" /\ wrun' = Executing
  /\ event' = FALSE /\ pevent' = "none"
  /\ snap' = Msg("update", Executing, Executing, ver[Executing])
  /\ psnap' = 0
  /\ UNCHANGED <<mainVars, last, client, got, req>>

\* convert_to_base_types has read all of it: every change before the registration,
\* and of those since then the ones made before it came to their place. The state
\* object of a run stays once the run is over; plug states go at the tear down.
ReadState ==
  /\ w = "read" /\ w' = "publish"
  /\ \E v \in snap.ver..ver[wrun] : snap' = Msg("update", wrun, wrun, v)
  /\ psnap' = IF Executing = wrun /\ main = "running" THEN pver ELSE 0
  /\ UNCHANGED <<mainVars, wrun, event, pevent, last, client, got, req>>

\* convert_to_base_types meets a dictionary that has changed under its hands: the
\* poll is repeated. (The log record of the error is one more Change.)
ReadFails ==
  /\ w = "read" /\ snap.ver # ver[wrun]
  /\ w' = "poll"
  /\ UNCHANGED <<mainVars, wrun, event, pevent, snap, psnap, last, client, got, req>>

\* Mutant: the event is registered only after the callback.
M_PublishUpdate ==
  /\ w = "publish" /\ w' = "sent"
  /\ Publish(snap) /\ event' = FALSE
  /\ UNCHANGED <<mainVars, wrun, pevent, snap, psnap, last, client, req>>

PublishUpdate ==
  /\ w = "publish" /\ w' = "sent"
  /\ Publish(snap)
  /\ UNCHANGED <<mainVars, wrun, event, pevent, snap, psnap, last, client, req>>

UpdateIsLast ==
  /\ w = "sent" /\ w' = "plugs"
  /\ last' = snap
  /\ UNCHANGED <<mainVars, wrun, event, pevent, snap, psnap, client, got, req>>

\* The events of the frontend-aware plugs, of which there are none after the
\* tear down.
WatchPlugs ==
  /\ w = "plugs" /\ w' = "wait"
  /\ pevent' = IF Executing = wrun /\ main = "running" THEN "clear" ELSE "none"
  /\ UNCHANGED <<mainVars, wrun, event, snap, psnap, last, client, got, req>>

\* Mutant: the watcher does not look whether the test is over.
M_StopWaiting ==
  /\ w = "wait" /\ w' = "poll"
  /\ event \/ pevent = "set"
  /\ UNCHANGED <<mainVars, wrun, event, pevent, snap, psnap, last, client, got, req>>

\* An event is set, or another test, or none, is executing.
StopWaiting ==
  /\ w = "wait" /\ w' = "poll"
  /\ \/ event \/ pevent = "set"
     \/ Executing \notin {r \in Runs : TestOf[r] = TestOf[wrun]}
  /\ UNCHANGED <<mainVars, wrun, event, pevent, snap, psnap, last, client, got, req>>

---------------------------------------------------------------------------
(* Subscribers and requests.                                               *)

Open(c) ==
  /\ client[c] = "off" /\ client' = [client EXCEPT ![c] = "opened"]
  /\ UNCHANGED <<mainVars, watchVars, last, got, req>>

\* on_subscribe sends the last message while a test is executing.
OnSubscribe(c) ==
  /\ client[c] = "opened" /\ client' = [client EXCEPT ![c] = "on"]
  /\ got' = IF last # None /\ Executing # 0 THEN [got EXCEPT ![c] = last] ELSE got
  /\ UNCHANGED <<mainVars, watchVars, last, req>>

OnClose(c) ==
  /\ client[c] = "on" /\ client' = [client EXCEPT ![c] = "off"]
  /\ got' = [got EXCEPT ![c] = None]
  /\ UNCHANGED <<mainVars, watchVars, last, req>>

\* BaseTestHandler.get_test: the executing test and its state, then its uid.
\* A client knows the uids of the executions there have been.
Request(uid) ==
  /\ req.st = "none" /\ Executing # 0 /\ uid <= run
  /\ req' = [st |-> "found", uid |-> uid, run |-> run]
  /\ UNCHANGED <<mainVars, watchVars, last, client, got>>

\* Mutant: the test's uid is not compared.
M_CheckUid ==
  /\ req.st = "found"
  /\ req' = [req EXCEPT !.st = "serve"]
  /\ UNCHANGED <<mainVars, watchVars, last, client, got>>

CheckUid ==
  /\ req.st = "found"
  /\ req' = IF UidOf(TestOf[req.run]) = req.uid THEN [req EXCEPT !.st = "serve"] ELSE NoReq
  /\ UNCHANGED <<mainVars, watchVars, last, client, got>>

Respond ==
  /\ req.st = "serve" /\ req' = NoReq
  /\ UNCHANGED <<mainVars, watchVars, last, client, got>>

---------------------------------------------------------------------------
Ends == Finalize \/ MakeRecord \/ PublishRecord \/ RecordIsLast \/ Close
Watches ==
  \/ Poll \/ ReadState \/ ReadFails \/ PublishUpdate \/ UpdateIsLast \/ WatchPlugs
  \/ StopWaiting
Connects == \E c \in Clients : Open(c) \/ OnSubscribe(c) \/ OnClose(c)
Requests == (\E uid \in Runs : Request(uid)) \/ CheckUid \/ Respond

Next ==
  \/ Execute \/ CreateState \/ Change \/ QuietChange \/ Notify \/ PlugChange \/ Ends
  \/ Watches \/ Connects \/ Requests

\* The watcher polls and retries for ever; a notification that is due is given.
\* Tests need not go on: a phase may run, or wait for its operator, for long.
Spec == Init /\ [][Next]_vars /\ WF_vars(Watches) /\ WF_vars(Notify)

---------------------------------------------------------------------------
TypeOK ==
  /\ run \in {0} \cup Runs /\ pver \in 0..MaxPlug
  /\ \A r \in Runs : ver[r] \in 0..(MaxChanges[r] + 1)
  /\ main \in {"idle", "created", "running", "final", "record", "sent", "recorded"}
  /\ w \in {"poll", "read", "publish", "sent", "plugs", "wait"}
  /\ pevent \in {"none", "clear", "set"} /\ event \in BOOLEAN /\ dirty \in BOOLEAN
  /\ told \in Nat /\ (run \in Runs => told <= ver[run])
  /\ LastUid \in Runs \cup {None}

(* StationWatcher._poll_for_update: whatever notify_update() has announced  *)
(* by now, and the quiet changes before it, was published by a watcher     *)
(* that sleeps without its event being set, or is about to be: no          *)
(* notification between the registration and the wait is missed.           *)
NoticeNotMissed == w = "wait" /\ ~event /\ wrun = run => snap.ver >= told

(* StationWatcher's docstring: "we rely on the OpenHTF framework to call   *)
(* notify_update() when a change occurs", so a watcher that sleeps while   *)
(* no notification is due has published the present state of the test.     *)
ChangesAnnounced ==
  w = "wait" /\ ~event /\ wrun = run /\ main = "running" /\ ~dirty => snap.ver = ver[run]

(* An announced change, and every quiet one before its notification, made  *)
(* while a client is connected reaches it in the end, unless the test is   *)
(* over before; the next run, of another Test, is picked up although       *)
(* nothing notifies the watcher of it.                                     *)
Shows(c, r, v) == got[c] # None /\ got[c].run = r /\ got[c].ver >= v
NoticesShown ==
  \A r \in Runs, c \in Clients : \A v \in 1..MaxChanges[r] :
    (run = r /\ main = "running" /\ ver[r] = v /\ dirty /\ client[c] = "on")
      ~> (run # r \/ main # "running" \/ client[c] # "on" \/ Shows(c, r, v))

(* publish_test_record takes the uid of the last message: once an update   *)
(* of the running test has gone out that is the test's own uid, whatever   *)
(* was published late for the test before.                                 *)
UidKept ==
  w \in {"plugs", "wait"} /\ wrun = run /\ main \in {"running", "final"}
    => LastUid = run

(* get_test: a request is served with the state of the execution it names, *)
(* also when that test ends and another begins between the two look-ups.   *)
ServedOwn == req.st = "serve" => req.run = req.uid

(* What is published and served under a uid is of that execution.          *)
UidsMatch == UidKept /\ ServedOwn

(* StationPubSub's docstring: a record indicates the final state of a      *)
(* test, so a subscriber sees no update of that test after it.             *)
RecordIsFinal ==
  [][\A c \in Clients :
       got[c] # None /\ got'[c] # None /\ client[c] # "off" /\ got[c].type = "record"
         /\ got'[c].run = got[c].run => got'[c].type = "record"]_vars

(* _test_state_from_record: execution_uid is the execution of the record.  *)
RecordHasUid ==
  \A c \in Clients : got[c] # None /\ got[c].type = "record" => got[c].uid = got[c].run

(* StationWatcher: events tell it of every change, so a watcher that       *)
(* sleeps while no event is set has published the plug's present state.    *)
PlugNotMissed ==
  w = "wait" /\ ~event /\ pevent = "clear" /\ wrun = run /\ main = "running" => psnap = pver

(* on_subscribe: a client that is connected while a test runs has a state  *)
(* to show as soon as one was published.                                   *)
NoBlankPage ==
  \A c \in Clients : client[c] = "on" /\ w = "wait" /\ Executing # 0 => got[c] # None
====
