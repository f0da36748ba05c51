---- MODULE StationProofs ----
(***************************************************************************)
(* The watcher of the station server misses no notification of the running *)
(* test, and whatever is published or served under a uid is of that run,   *)
(* for any number of executions of any Test objects, of changes and of     *)
(* subscribers.                                                            *)
(***************************************************************************)
EXTENDS Station, TLAPS

MainType ==
  /\ run \in {0} \cup Runs /\ ver \in [Runs -> Nat] /\ pver \in 0..MaxPlug
  /\ main \in {"idle", "created", "running", "final", "record", "sent", "recorded"}
  /\ main # "idle" => run \in Runs
  /\ dirty \in BOOLEAN /\ (dirty => main \in {"running", "final"})
  /\ rec \in Message \cup {None}
  /\ told \in Nat /\ (run \in Runs => told <= ver[run])
  /\ main \in {"record", "sent"} => rec \in Message

WatcherType ==
  /\ w \in {"poll", "read", "publish", "sent", "plugs", "wait"}
  /\ wrun \in {0} \cup Runs /\ (w # "poll" => wrun \in Runs)
  /\ pevent \in {"none", "clear", "set"} /\ event \in BOOLEAN
  /\ snap \in Message \cup {None} /\ last \in Message \cup {None}
  /\ w \in {"read", "publish", "sent"} => snap \in Message

TypeInv == MainType /\ WatcherType

\* Runs are numbered from 1 in the order in which they begin.
LEMMA RunsFacts ==
  /\ Runs \subseteq Nat \ {0}
  /\ \A r \in Runs : \A i \in Nat \ {0} : i <= r => i \in Runs
BY StationAssumption

LEMMA TypeInvInit == Init => TypeInv
<1> SUFFICES ASSUME Init PROVE TypeInv
  OBVIOUS
<1>1. dirty \in BOOLEAN /\ event \in BOOLEAN
  BY DEF Init
<1>2. ver \in [Runs -> Nat] /\ pver \in 0..MaxPlug
  BY StationAssumption DEF Init
<1>3. QED
  BY <1>1, <1>2 DEF Init, TypeInv, MainType, WatcherType

LEMMA TypeInvStep == TypeInv /\ [Next]_vars => TypeInv'
<1> SUFFICES ASSUME TypeInv, [Next]_vars PROVE TypeInv'
  OBVIOUS
<1> USE RunsFacts, StationAssumption DEF TypeInv, MainType, WatcherType
<1>1. CASE Execute
  BY <1>1 DEF Execute, mainVars, watchVars
<1>2. CASE CreateState
  BY <1>2 DEF CreateState, mainVars, watchVars
<1>3. CASE Change
  BY <1>3 DEF Change, mainVars, watchVars
<1>4. CASE QuietChange
  BY <1>4 DEF QuietChange, mainVars, watchVars
<1>5. CASE Notify
  <2>1. told' \in Nat /\ (run' \in Runs => told' <= ver'[run'])
    BY <1>5 DEF Notify
  <2>2. event' \in BOOLEAN /\ dirty' \in BOOLEAN
    BY <1>5, Zenon DEF Notify
  <2>3. QED
    BY <1>5, <2>1, <2>2 DEF Notify
<1>6. CASE PlugChange
  BY <1>6 DEF PlugChange, mainVars, watchVars
<1>7. CASE Finalize
  BY <1>7 DEF Finalize, mainVars, watchVars
<1>8. CASE MakeRecord
  BY <1>8 DEF MakeRecord, Msg, Message, LastUid, mainVars, watchVars
<1>9. CASE PublishRecord
  BY <1>9 DEF PublishRecord, mainVars, watchVars
<1>10. CASE RecordIsLast
  BY <1>10 DEF RecordIsLast, mainVars, watchVars
<1>11. CASE Close
  BY <1>11 DEF Close, mainVars, watchVars
<1>12. CASE Poll
  BY <1>12 DEF Poll, Msg, Message, Executing, mainVars, watchVars
<1>13. CASE ReadState
  BY <1>13 DEF ReadState, Msg, Message, mainVars, watchVars
<1>14. CASE ReadFails
  BY <1>14 DEF ReadFails, mainVars, watchVars
<1>15. CASE PublishUpdate
  BY <1>15 DEF PublishUpdate, mainVars, watchVars
<1>16. CASE UpdateIsLast
  BY <1>16 DEF UpdateIsLast, mainVars, watchVars
<1>17. CASE WatchPlugs
  BY <1>17 DEF WatchPlugs, mainVars, watchVars
<1>18. CASE StopWaiting
  BY <1>18 DEF StopWaiting, mainVars, watchVars
<1>19. CASE \E c \in Clients : Open(c)
  BY <1>19 DEF Open, mainVars, watchVars
<1>20. CASE \E c \in Clients : OnSubscribe(c)
  BY <1>20 DEF OnSubscribe, mainVars, watchVars
<1>21. CASE \E c \in Clients : OnClose(c)
  BY <1>21 DEF OnClose, mainVars, watchVars
<1>22. CASE \E uid \in Runs : Request(uid)
  BY <1>22 DEF Request, mainVars, watchVars
<1>23. CASE CheckUid
  BY <1>23 DEF CheckUid, mainVars, watchVars
<1>24. CASE Respond
  BY <1>24 DEF Respond, mainVars, watchVars
<1>25. CASE UNCHANGED vars
  BY <1>25 DEF vars, mainVars, watchVars
<1>26. QED
  BY <1>1, <1>2, <1>3, <1>4, <1>5, <1>6, <1>7, <1>8, <1>9, <1>10, <1>11, <1>12, <1>13, <1>14,
     <1>15, <1>16, <1>17, <1>18, <1>19, <1>20, <1>21, <1>22, <1>23, <1>24, <1>25 DEF
     Next, Ends, Watches, Connects, Requests

---------------------------------------------------------------------------
(* How far a run is: the changes a run that has not begun has seen, and the *)
(* room the running one has left.                                          *)

ChangesInv ==
  /\ \A r \in Runs : ver[r] \in 0..(MaxChanges[r] + 1) /\ (r > run => ver[r] = 0)
  /\ main = "created" => ver[run] = 0
  /\ main = "running" => ver[run] <= MaxChanges[run]

LEMMA ChangesInvStep == TypeInv /\ ChangesInv /\ [Next]_vars => ChangesInv'
<1> SUFFICES ASSUME TypeInv, ChangesInv, [Next]_vars PROVE ChangesInv'
  OBVIOUS
<1> USE RunsFacts, StationAssumption DEF TypeInv, MainType, ChangesInv
<1>1. CASE Execute
  BY <1>1 DEF Execute, mainVars
<1>2. CASE CreateState
  BY <1>2 DEF CreateState, mainVars
<1>3. CASE Change
  <2>1. run \in Runs /\ run' = run /\ main' = "running" /\ ver[run] < MaxChanges[run]
    BY <1>3 DEF Change
  <2>2. /\ \A r \in Runs : r # run => ver'[r] = ver[r]
        /\ ver'[run] = ver[run] + 1
    BY <1>3, <2>1 DEF Change
  <2>3. ver[run] \in Nat /\ MaxChanges[run] \in Nat
    BY <2>1
  <2>4. ver'[run] \in 0..(MaxChanges[run] + 1) /\ ver'[run] <= MaxChanges[run]
    BY <2>1, <2>2, <2>3
  <2>5. \A r \in Runs : ver'[r] \in 0..(MaxChanges[r] + 1) /\ (r > run' => ver'[r] = 0)
    BY <2>1, <2>2, <2>4
  <2>6. QED
    BY <2>1, <2>4, <2>5
<1>4. CASE QuietChange
  BY <1>4 DEF QuietChange, mainVars
<1>5. CASE Notify
  BY <1>5 DEF Notify, mainVars
<1>6. CASE PlugChange
  BY <1>6 DEF PlugChange, mainVars
<1>7. CASE Finalize
  BY <1>7 DEF Finalize, mainVars
<1>8. CASE MakeRecord
  BY <1>8 DEF MakeRecord, mainVars
<1>9. CASE PublishRecord
  BY <1>9 DEF PublishRecord, mainVars
<1>10. CASE RecordIsLast
  BY <1>10 DEF RecordIsLast, mainVars
<1>11. CASE Close
  BY <1>11 DEF Close, mainVars
<1>12. CASE Poll
  BY <1>12 DEF Poll, mainVars
<1>13. CASE ReadState
  BY <1>13 DEF ReadState, mainVars
<1>14. CASE ReadFails
  BY <1>14 DEF ReadFails, mainVars
<1>15. CASE PublishUpdate
  BY <1>15 DEF PublishUpdate, mainVars
<1>16. CASE UpdateIsLast
  BY <1>16 DEF UpdateIsLast, mainVars
<1>17. CASE WatchPlugs
  BY <1>17 DEF WatchPlugs, mainVars
<1>18. CASE StopWaiting
  BY <1>18 DEF StopWaiting, mainVars
<1>19. CASE \E c \in Clients : Open(c)
  BY <1>19 DEF Open, mainVars
<1>20. CASE \E c \in Clients : OnSubscribe(c)
  BY <1>20 DEF OnSubscribe, mainVars
<1>21. CASE \E c \in Clients : OnClose(c)
  BY <1>21 DEF OnClose, mainVars
<1>22. CASE \E uid \in Runs : Request(uid)
  BY <1>22 DEF Request, mainVars
<1>23. CASE CheckUid
  BY <1>23 DEF CheckUid, mainVars
<1>24. CASE Respond
  BY <1>24 DEF Respond, mainVars
<1>25. CASE UNCHANGED vars
  BY <1>25 DEF vars, mainVars
<1>26. QED
  BY <1>1, <1>2, <1>3, <1>4, <1>5, <1>6, <1>7, <1>8, <1>9, <1>10, <1>11, <1>12, <1>13, <1>14,
     <1>15, <1>16, <1>17, <1>18, <1>19, <1>20, <1>21, <1>22, <1>23, <1>24, <1>25 DEF
     Next, Ends, Watches, Connects, Requests

(* Station.TypeOK: the state of the watcher, of Test.execute() and of the  *)
(* publisher is of its type, and no test state changes more often than its *)
(* bound allows.                                                           *)
THEOREM TypeCorrect == Spec => []TypeOK
<1>1. Init => TypeInv /\ ChangesInv
  BY TypeInvInit, RunsFacts, StationAssumption DEF Init, ChangesInv
<1>2. TypeInv /\ ChangesInv /\ [Next]_vars => (TypeInv /\ ChangesInv)'
  BY TypeInvStep, ChangesInvStep
<1>3. TypeInv /\ ChangesInv => TypeOK
  <2> SUFFICES ASSUME TypeInv, ChangesInv PROVE TypeOK
    OBVIOUS
  <2>1. \A r \in Runs : ver[r] \in 0..(MaxChanges[r] + 1)
    BY DEF ChangesInv
  <2>2. LastUid \in Runs \cup {None}
    BY DEF TypeInv, WatcherType, LastUid, Message
  <2>3. QED
    BY <2>1, <2>2 DEF TypeOK, TypeInv, MainType, WatcherType
<1>4. QED
  BY <1>1, <1>2, <1>3, PTL DEF Spec

---------------------------------------------------------------------------
(* The watcher's run began already.  What it reads or has read is of that  *)
(* run, and is not older than the last notification unless one has arrived *)
(* since the watcher registered its event: the reading starts from the     *)
(* state at the registration and is never taken back.                      *)

Holding == w \in {"read", "publish", "sent", "plugs", "wait"}

WatchInv ==
  /\ wrun <= run
  /\ main = "created" => wrun < run
  /\ Holding => snap \in Message /\ snap.run = wrun /\ snap.uid = wrun
  /\ Holding /\ ~event /\ wrun = run => snap.ver >= told

LEMMA WatchInvStep == TypeInv /\ WatchInv /\ [Next]_vars => WatchInv'
<1> SUFFICES ASSUME TypeInv, WatchInv, [Next]_vars PROVE WatchInv'
  OBVIOUS
<1> USE RunsFacts DEF TypeInv, MainType, WatcherType, WatchInv, Holding
<1>1. CASE Execute
  BY <1>1 DEF Execute, mainVars, watchVars
<1>2. CASE CreateState
  BY <1>2 DEF CreateState, mainVars, watchVars
<1>3. CASE Change
  BY <1>3 DEF Change, mainVars, watchVars
<1>4. CASE QuietChange
  BY <1>4 DEF QuietChange, mainVars, watchVars
<1>5. CASE Notify
  BY <1>5 DEF Notify, mainVars, watchVars
<1>6. CASE PlugChange
  BY <1>6 DEF PlugChange, mainVars, watchVars
<1>7. CASE Finalize
  BY <1>7 DEF Finalize, mainVars, watchVars
<1>8. CASE MakeRecord
  BY <1>8 DEF MakeRecord, mainVars, watchVars
<1>9. CASE PublishRecord
  BY <1>9 DEF PublishRecord, mainVars, watchVars
<1>10. CASE RecordIsLast
  BY <1>10 DEF RecordIsLast, mainVars, watchVars
<1>11. CASE Close
  BY <1>11 DEF Close, mainVars, watchVars
<1>12. CASE Poll
  BY <1>12 DEF Poll, Msg, Message, Executing, mainVars, watchVars
<1>13. CASE ReadState
  BY <1>13 DEF ReadState, Msg, Message, mainVars, watchVars
<1>14. CASE ReadFails
  BY <1>14 DEF ReadFails, mainVars, watchVars
<1>15. CASE PublishUpdate
  BY <1>15 DEF PublishUpdate, mainVars, watchVars
<1>16. CASE UpdateIsLast
  BY <1>16 DEF UpdateIsLast, mainVars, watchVars
<1>17. CASE WatchPlugs
  BY <1>17 DEF WatchPlugs, mainVars, watchVars
<1>18. CASE StopWaiting
  BY <1>18 DEF StopWaiting, mainVars, watchVars
<1>19. CASE \E c \in Clients : Open(c)
  BY <1>19 DEF Open, mainVars, watchVars
<1>20. CASE \E c \in Clients : OnSubscribe(c)
  BY <1>20 DEF OnSubscribe, mainVars, watchVars
<1>21. CASE \E c \in Clients : OnClose(c)
  BY <1>21 DEF OnClose, mainVars, watchVars
<1>22. CASE \E uid \in Runs : Request(uid)
  BY <1>22 DEF Request, mainVars, watchVars
<1>23. CASE CheckUid
  BY <1>23 DEF CheckUid, mainVars, watchVars
<1>24. CASE Respond
  BY <1>24 DEF Respond, mainVars, watchVars
<1>25. CASE UNCHANGED vars
  BY <1>25 DEF vars, mainVars, watchVars
<1>26. QED
  BY <1>1, <1>2, <1>3, <1>4, <1>5, <1>6, <1>7, <1>8, <1>9, <1>10, <1>11, <1>12, <1>13, <1>14,
     <1>15, <1>16, <1>17, <1>18, <1>19, <1>20, <1>21, <1>22, <1>23, <1>24, <1>25 DEF
     Next, Ends, Watches, Connects, Requests

LEMMA WatchInvHolds == Spec => [](TypeInv /\ WatchInv)
<1>1. Init => TypeInv /\ WatchInv
  BY TypeInvInit DEF Init, WatchInv, Holding
<1>2. TypeInv /\ WatchInv /\ [Next]_vars => (TypeInv /\ WatchInv)'
  BY TypeInvStep, WatchInvStep
<1>3. QED
  BY <1>1, <1>2, PTL DEF Spec

(* StationWatcher._poll_for_update registers its event before it reads the *)
(* state: it never sleeps, its event not set, on a state older than what   *)
(* notify_update() has announced. (A change nobody announces is another    *)
(* matter: ChangesAnnounced does not hold.)                                *)
THEOREM NoNoticeMissed == Spec => []NoticeNotMissed
<1>1. WatchInv => NoticeNotMissed
  BY DEF WatchInv, Holding, NoticeNotMissed
<1>2. QED
  BY WatchInvHolds, <1>1, PTL

---------------------------------------------------------------------------
(* Requests: the execution found and the execution named have both begun,  *)
(* the named one not after the found one.                                  *)

RequestInv ==
  /\ req \in [st : {"none", "found", "serve"}, uid : Nat, run : Nat]
  /\ req.st # "none" => req.uid \in Runs /\ req.uid <= req.run /\ req.run <= run
  /\ ServedOwn

LEMMA UidInvStep ==
  TypeInv /\ WatchInv /\ UidKept /\ RequestInv /\ [Next]_vars => UidKept' /\ RequestInv'
<1> SUFFICES ASSUME TypeInv, WatchInv, UidKept, RequestInv, [Next]_vars
             PROVE  UidKept' /\ RequestInv'
  OBVIOUS
<1> USE RunsFacts, StationAssumption
    DEF TypeInv, MainType, WatcherType, WatchInv, Holding, UidKept, RequestInv, ServedOwn, LastUid
<1>1. CASE Execute
  BY <1>1 DEF Execute, mainVars, watchVars
<1>2. CASE CreateState
  BY <1>2 DEF CreateState, mainVars, watchVars
<1>3. CASE Change
  BY <1>3 DEF Change, mainVars, watchVars
<1>4. CASE QuietChange
  BY <1>4 DEF QuietChange, mainVars, watchVars
<1>5. CASE Notify
  BY <1>5 DEF Notify, mainVars, watchVars
<1>6. CASE PlugChange
  BY <1>6 DEF PlugChange, mainVars, watchVars
<1>7. CASE Finalize
  BY <1>7 DEF Finalize, mainVars, watchVars
<1>8. CASE MakeRecord
  BY <1>8 DEF MakeRecord, mainVars, watchVars
<1>9. CASE PublishRecord
  BY <1>9 DEF PublishRecord, mainVars, watchVars
<1>10. CASE RecordIsLast
  BY <1>10 DEF RecordIsLast, mainVars, watchVars
<1>11. CASE Close
  BY <1>11 DEF Close, mainVars, watchVars
<1>12. CASE Poll
  BY <1>12 DEF Poll, mainVars, watchVars
<1>13. CASE ReadState
  BY <1>13 DEF ReadState, mainVars, watchVars
<1>14. CASE ReadFails
  BY <1>14 DEF ReadFails, mainVars, watchVars
<1>15. CASE PublishUpdate
  BY <1>15 DEF PublishUpdate, mainVars, watchVars
<1>16. CASE UpdateIsLast
  BY <1>16 DEF UpdateIsLast, vars, mainVars, watchVars
<1>17. CASE WatchPlugs
  BY <1>17 DEF WatchPlugs, mainVars, watchVars
<1>18. CASE StopWaiting
  BY <1>18 DEF StopWaiting, mainVars, watchVars
<1>19. CASE \E c \in Clients : Open(c)
  BY <1>19 DEF Open, mainVars, watchVars
<1>20. CASE \E c \in Clients : OnSubscribe(c)
  BY <1>20 DEF OnSubscribe, mainVars, watchVars
<1>21. CASE \E c \in Clients : OnClose(c)
  BY <1>21 DEF OnClose, mainVars, watchVars
<1>22. CASE \E uid \in Runs : Request(uid)
  BY <1>22 DEF Request, Executing, mainVars, watchVars
<1>23. CASE CheckUid
  BY <1>23 DEF CheckUid, UidOf, NoReq, mainVars, watchVars
<1>24. CASE Respond
  BY <1>24 DEF Respond, NoReq, mainVars, watchVars
<1>25. CASE UNCHANGED vars
  BY <1>25 DEF vars, mainVars, watchVars
<1>26. QED
  BY <1>1, <1>2, <1>3, <1>4, <1>5, <1>6, <1>7, <1>8, <1>9, <1>10, <1>11, <1>12, <1>13, <1>14,
     <1>15, <1>16, <1>17, <1>18, <1>19, <1>20, <1>21, <1>22, <1>23, <1>24, <1>25 DEF
     Next, Ends, Watches, Connects, Requests

(* StationPubSub and BaseTestHandler.get_test: updates and records go out  *)
(* under the uid of the execution they show, and a request is served with  *)
(* the state of the execution it names, although the uid and the state are *)
(* looked up in two steps between which the test may end and another, of   *)
(* the same Test object or not, begin.                                     *)
THEOREM UidsAreOwn == Spec => []UidsMatch
<1>1. Init => UidKept /\ RequestInv
  BY DEF Init, UidKept, RequestInv, ServedOwn, NoReq
<1>2. UidKept /\ RequestInv => UidsMatch
  BY DEF UidsMatch, RequestInv
<1>3. QED
  BY <1>1, <1>2, WatchInvHolds, UidInvStep, PTL DEF Spec
====
