---- MODULE AdbProtocol ----
(***************************************************************************)
(* The host side of ADB (openhtf/plugs/usb/adb_protocol.py): AdbConnection *)
(* multiplexes AdbStreams over one transport, and whichever thread holds   *)
(* the connection's reader lock reads for everybody, putting messages for  *)
(* other streams on their queues.  The device (adbd, outside this          *)
(* repository) is modelled by what the host relies on: it answers OPEN     *)
(* with OKAY or CLSE and each WRTE with OKAY, sends a WRTE only when its   *)
(* last one was acknowledged, and answers CLSE with CLSE.                  *)
(***************************************************************************)
EXTENDS Naturals, Sequences, FiniteSets, FiniteSetsExt, SequencesExt

CONSTANTS
  Threads,        \* threads of the test program
  Streams,        \* AdbStreamTransport objects they create
  StreamOf,       \* StreamOf[t]: the stream thread t works on
  Programs,       \* test programs: for each thread the calls it makes, [op, n]
  Patient,        \* threads that pass no timeout
  MaxData,        \* MaxData[s]: bound on the data the device sends on s
  StreamIdLimit,  \* STREAM_ID_LIMIT
  MaxIdTries,     \* local ids _make_stream_transport tries (64)
  None

ASSUME AdbAssumption ==
  /\ StreamOf \in [Threads -> Streams] /\ Patient \subseteq Threads
  /\ StreamIdLimit \in Nat \ {0, 1} /\ MaxIdTries \in Nat \ {0}
  /\ MaxData \in [Streams -> Nat] /\ None \notin Threads \cup Streams

VARIABLES
  lastId,      \* AdbConnection._last_id_used
  streamMap,   \* AdbConnection._stream_transport_map
  connReader,  \* holder of AdbConnection._reader_lock
  strm,        \* the fields of each AdbStreamTransport
  program,     \* the test program that runs
  opened,      \* streams whose open_stream returned an AdbStream
  wire,        \* messages from the device not read yet
  dev,         \* per local id, the device's end of the stream
  pc, ip,      \* per thread, where it is and in which of its calls
  hand,        \* per thread, the message read and not handled yet
  chunk,       \* per thread, WRTE chunks of this write() already acknowledged
  result,      \* per thread, how its last call ended
  got,         \* per stream, the data its readers have returned
  written,     \* per stream, WRTE messages whose write() returned
  lost         \* history: streams of which a WRTE was dropped unacknowledged

conn == <<lastId, streamMap, connReader>>
device == <<wire, dev>>
history == <<got, written, lost>>
vars == <<lastId, streamMap, connReader, strm, program, opened, wire, dev, pc, ip,
          hand, chunk, result, got, written, lost>>

Ids == 1..(StreamIdLimit - 1)
ClosedState == {"PENDING", "OPEN", "CLOSED"}
Message == [cmd : {"OKAY", "CLSE", "WRTE"}, to : Ids, data : Seq(Nat)]
Msg(c, id) == [cmd |-> c, to |-> id, data |-> <<>>]

NewTransport ==
  [localId |-> None, remoteId |-> FALSE, closed |-> "PENDING", queue |-> <<>>,
   buffer |-> <<>>, expectingOkay |-> TRUE, readerLock |-> None, writeLock |-> None]

\* st of the device's end; owe: WRTEs to acknowledge; credit: may send data
NewDevice == [st |-> "none", owe |-> 0, credit |-> FALSE, sent |-> 0, acks |-> 0]

Init ==
  /\ lastId = 0 /\ streamMap = [i \in Ids |-> None]
  /\ connReader = None /\ program \in Programs
  /\ strm = [s \in Streams |-> NewTransport] /\ opened = {}
  /\ wire = <<>> /\ dev = [i \in Ids |-> NewDevice]
  /\ pc = [t \in Threads |-> "idle"] /\ ip = [t \in Threads |-> 1]
  /\ hand = [t \in Threads |-> None] /\ chunk = [t \in Threads |-> 0]
  /\ result = [t \in Threads |-> "none"]
  /\ got = [s \in Streams |-> <<>>] /\ written = [s \in Streams |-> 0]
  /\ lost = {}

---------------------------------------------------------------------------
(* The device, and what the host's messages do to it.                      *)

DeviceAccepts(i) ==
  /\ dev[i].st = "opening"
  /\ dev' = [dev EXCEPT ![i].st = "open", ![i].credit = TRUE]
  /\ wire' = Append(wire, Msg("OKAY", i))

DeviceRefuses(i) ==
  /\ dev[i].st = "opening"
  /\ dev' = [dev EXCEPT ![i].st = "closed"]
  /\ wire' = Append(wire, Msg("CLSE", i))

DeviceAcks(i) ==
  /\ dev[i].st = "open" /\ dev[i].owe > 0
  /\ dev' = [dev EXCEPT ![i].owe = @ - 1, ![i].acks = @ + 1]
  /\ wire' = Append(wire, Msg("OKAY", i))

DeviceSends(i) ==
  /\ dev[i].st = "open" /\ dev[i].credit
  /\ \E s \in Streams : strm[s].localId = i /\ \E n \in (dev[i].sent + 1)..MaxData[s] :
       /\ dev' = [dev EXCEPT ![i].credit = FALSE, ![i].sent = n]
       /\ wire' = Append(wire, [cmd |-> "WRTE", to |-> i,
                                data |-> [k \in 1..(n - dev[i].sent) |-> dev[i].sent + k]])

DeviceCloses(i) ==
  /\ dev[i].st = "open"
  /\ dev' = [dev EXCEPT ![i].st = "closed"]
  /\ wire' = Append(wire, Msg("CLSE", i))

Device ==
  /\ \E i \in Ids : DeviceAccepts(i) \/ DeviceRefuses(i) \/ DeviceAcks(i)
                      \/ DeviceSends(i) \/ DeviceCloses(i)
  /\ UNCHANGED <<conn, strm, program, opened, pc, ip, hand, chunk, result, history>>

\* The device's end after it took a message; d is its state before.
TakesWrte(d) == IF d.st = "open" THEN [d EXCEPT !.owe = @ + 1] ELSE d
TakesOkay(d) == IF d.st = "open" THEN [d EXCEPT !.credit = TRUE] ELSE d
TakesClse(d) == IF d.st = "open" THEN [d EXCEPT !.st = "closed"] ELSE d

---------------------------------------------------------------------------
(* AdbConnection: the map of streams.                                      *)

\* _make_stream_transport: the k-th id tried after lastId.
Candidate(k) ==
  LET start == (lastId % StreamIdLimit) + 1
  IN IF start + k < StreamIdLimit THEN start + k ELSE start + k - StreamIdLimit + 1

FreeTries ==
  {k \in 0..(StreamIdLimit - 2) : k < MaxIdTries /\ streamMap[Candidate(k)] = None}

\* The stream's local id is in the map, for this stream or for one opened later
\* with the same id.
InMap(s) == strm[s].localId # None /\ streamMap[strm[s].localId] # None

\* close_stream_transport: forgets the id and answers CLSE when it was there.
CloseStreamTransport(s, restOfWire) ==
  IF InMap(s)
    THEN LET i == strm[s].localId
             d == IF strm[s].remoteId THEN TakesClse(dev[i]) ELSE dev[i]
         IN /\ streamMap' = [streamMap EXCEPT ![i] = None]
            /\ dev' = [dev EXCEPT ![i] = d]
            /\ wire' = IF d # dev[i] THEN Append(restOfWire, Msg("CLSE", i))
                                     ELSE restOfWire
    ELSE wire' = restOfWire /\ UNCHANGED <<streamMap, dev>>

\* A call of thread t ends; r says how.
Ends(t, r) ==
  /\ pc' = [pc EXCEPT ![t] = "idle"] /\ ip' = [ip EXCEPT ![t] = @ + 1]
  /\ chunk' = [chunk EXCEPT ![t] = 0]
  /\ result' = [result EXCEPT ![t] = r] /\ UNCHANGED program

Goes(t, label) ==
  /\ pc' = [pc EXCEPT ![t] = label] /\ UNCHANGED <<program, ip, chunk, result>>

Op(t) == program[t][ip[t]]
Calls(t, op) == pc[t] = "idle" /\ ip[t] <= Len(program[t]) /\ Op(t).op = op
Reads(t) == Op(t).op \in {"read", "until_close"}

\* Mutant: no finally block.
M_Released(lock, t) == lock

\* An exception leaves t's call: the finally and with blocks release the
\* locks t holds, and nobody waiting on _message_received is notified.
\* read_until_close turns AdbStreamClosedError into the end of the data.
Released(lock, t) == IF lock = t THEN None ELSE lock
Raises(t, error) ==
  /\ Ends(t, IF Op(t).op = "until_close" /\ error = "closed" THEN "done" ELSE error)
  /\ connReader' = Released(connReader, t)
  /\ strm' = [strm EXCEPT ![StreamOf[t]].readerLock = Released(@, t),
                          ![StreamOf[t]].writeLock = Released(@, t)]
  /\ hand' = [hand EXCEPT ![t] = None]

---------------------------------------------------------------------------
(* AdbConnection.open_stream, AdbStreamTransport.write and close.          *)

OpenStream(t) ==
  /\ Calls(t, "open")
  /\ LET s == StreamOf[t] IN
     IF FreeTries = {}
       THEN /\ lastId' = (lastId % StreamIdLimit) + 1
            /\ Raises(t, "unavailable")
            /\ UNCHANGED <<streamMap, device>>
       ELSE LET i == Candidate(Min(FreeTries)) IN
            /\ lastId' = i
            /\ streamMap' = [streamMap EXCEPT ![i] = s]
            /\ strm' = [strm EXCEPT ![s] = [NewTransport EXCEPT !.localId = i]]
            /\ dev' = [dev EXCEPT ![i].st = "opening"]
            /\ Goes(t, "rfs")
            /\ UNCHANGED <<wire, connReader, hand>>
  /\ UNCHANGED <<opened, history>>

\* write() looks at the stream before it takes the write lock.
WriteChecks(t) ==
  /\ Calls(t, "write") /\ StreamOf[t] \in opened
  /\ LET s == strm[StreamOf[t]] IN
     IF ~s.remoteId \/ s.closed # "OPEN" THEN Raises(t, "closed")
     ELSE IF s.expectingOkay THEN Raises(t, "protocol")
     ELSE Goes(t, "wlock") /\ UNCHANGED <<connReader, strm, hand>>
  /\ UNCHANGED <<lastId, streamMap, opened, device, history>>

\* Mutant: the writer does not expect an OKAY for its WRTE.
M_WriteSends(t) ==
  /\ pc[t] = "wlock" /\ strm[StreamOf[t]].writeLock = None
  /\ strm' = [strm EXCEPT ![StreamOf[t]].writeLock = t]
  /\ dev' = [dev EXCEPT ![strm[StreamOf[t]].localId] = TakesWrte(@)]
  /\ Goes(t, "try")
  /\ UNCHANGED <<conn, opened, wire, hand, history>>

WriteSends(t) ==
  /\ pc[t] = "wlock" /\ strm[StreamOf[t]].writeLock = None
  /\ strm' = [strm EXCEPT ![StreamOf[t]].writeLock = t,
                          ![StreamOf[t]].expectingOkay = TRUE]
  /\ dev' = [dev EXCEPT ![strm[StreamOf[t]].localId] = TakesWrte(@)]
  /\ Goes(t, "try")
  /\ UNCHANGED <<conn, opened, wire, hand, history>>

\* AdbStream.write goes on with the next chunk, if any.
WriteReturns(t) ==
  /\ pc[t] = "leave" /\ Op(t).op = "write"
  /\ strm' = [strm EXCEPT ![StreamOf[t]].writeLock = None]
  /\ written' = [written EXCEPT ![StreamOf[t]] = @ + 1]
  /\ IF chunk[t] + 1 = Op(t).n
       THEN Ends(t, "ok")
       ELSE /\ chunk' = [chunk EXCEPT ![t] = @ + 1]
            /\ pc' = [pc EXCEPT ![t] = "idle"] /\ UNCHANGED <<program, ip, result>>
  /\ UNCHANGED <<conn, opened, device, hand, got, lost>>

CloseStream(t) ==
  /\ Calls(t, "close") /\ StreamOf[t] \in opened
  /\ LET s == StreamOf[t] IN
     IF strm[s].closed = "CLOSED"
       THEN UNCHANGED <<streamMap, device, strm>>
       ELSE /\ strm' = [strm EXCEPT ![s].closed = "CLOSED"]
            /\ CloseStreamTransport(s, wire)
  /\ Ends(t, "ok")
  /\ UNCHANGED <<lastId, connReader, opened, hand, history>>

---------------------------------------------------------------------------
(* AdbStreamTransport.read and _read_messages_until_true.                  *)

Predicate(t) ==
  LET s == strm[StreamOf[t]]
  IN IF Reads(t) THEN s.buffer # <<>> /\ Len(s.buffer) >= Op(t).n
                 ELSE ~s.expectingOkay

\* The test of the while loop, when read() is called and each time around.
ChecksPredicate(t) ==
  /\ \/ pc[t] = "pred"
     \/ (Calls(t, "read") \/ Calls(t, "until_close")) /\ StreamOf[t] \in opened
  /\ Goes(t, IF Predicate(t) THEN "leave" ELSE "try")
  /\ UNCHANGED <<conn, strm, opened, device, hand, history>>

\* Under the _message_received lock: become the reader, who looks at the
\* predicate again, or start to wait.
TriesReaderLock(t) ==
  /\ pc[t] = "try"
  /\ LET s == StreamOf[t] IN
     IF strm[s].readerLock # None THEN Goes(t, "wait") /\ UNCHANGED strm
     ELSE IF Predicate(t) THEN Goes(t, "leave") /\ UNCHANGED strm
     ELSE strm' = [strm EXCEPT ![s].readerLock = t] /\ Goes(t, "rfs")
  /\ UNCHANGED <<conn, opened, device, hand, history>>

\* The buffer is emptied, but for what a read of n units leaves.
ReadReturns(t) ==
  /\ pc[t] = "leave" /\ Reads(t)
  /\ LET s == StreamOf[t]
         all == strm[s].buffer
         k == IF Op(t).n = 0 THEN Len(all) ELSE Min({Op(t).n, Len(all)})
     IN /\ got' = [got EXCEPT ![s] = @ \o SubSeq(all, 1, k)]
        /\ strm' = [strm EXCEPT ![s].buffer = SubSeq(all, k + 1, Len(all))]
  /\ IF Op(t).op = "until_close" THEN Goes(t, "idle") ELSE Ends(t, "ok")
  /\ UNCHANGED <<conn, opened, device, hand, written, lost>>

---------------------------------------------------------------------------
(* AdbConnection.read_for_stream.                                          *)

\* The message of t's stream at the head of its queue is t's to handle.
TakesQueued(t) ==
  LET s == StreamOf[t]
  IN /\ hand' = [hand EXCEPT ![t] = Head(strm[s].queue)]
     /\ strm' = [strm EXCEPT ![s].queue = Tail(@)]
     /\ connReader' = Released(connReader, t)
     /\ Goes(t, "handle")

\* Mutant: a stream that left the map is closed, whatever its queue holds.
M_Polls(t) ==
  /\ pc[t] = "rfs"
  /\ LET s == StreamOf[t] IN
     IF ~InMap(s) THEN Raises(t, "closed")
     ELSE IF strm[s].queue # <<>> THEN TakesQueued(t)
     ELSE Goes(t, "lock") /\ UNCHANGED <<connReader, strm, hand>>
  /\ UNCHANGED <<lastId, streamMap, opened, device, history>>

Polls(t) ==
  /\ pc[t] = "rfs"
  /\ LET s == StreamOf[t] IN
     IF strm[s].queue # <<>> THEN TakesQueued(t)
     ELSE IF InMap(s) THEN Goes(t, "lock") /\ UNCHANGED <<connReader, strm, hand>>
     ELSE Raises(t, "closed")
  /\ UNCHANGED <<lastId, streamMap, opened, device, history>>

\* Mutant: the queue is not looked at again under the lock.
M_TriesConnLock(t) ==
  /\ pc[t] = "lock"
  /\ IF connReader # None
       THEN Goes(t, "rfs") /\ UNCHANGED connReader
       ELSE connReader' = t /\ Goes(t, "wire")
  /\ UNCHANGED <<lastId, streamMap, strm, hand, opened, device, history>>

\* Holding the connection's lock, t looks at its queue again: the message may
\* have been put there between the first look and the lock.
TriesConnLock(t) ==
  /\ pc[t] = "lock"
  /\ IF connReader # None
       THEN Goes(t, "rfs") /\ UNCHANGED <<connReader, strm, hand>>
     ELSE IF strm[StreamOf[t]].queue # <<>>
       THEN TakesQueued(t)
     ELSE connReader' = t /\ Goes(t, "wire") /\ UNCHANGED <<strm, hand>>
  /\ UNCHANGED <<lastId, streamMap, opened, device, history>>

\* _handle_message_for_stream, a message for t's own stream: WRTE is
\* acknowledged at once, CLSE is answered, and the message is t's.
ReadsOwn(t) ==
  /\ pc[t] = "wire" /\ wire # <<>>
  /\ LET s == StreamOf[t]  m == Head(wire) IN
     /\ m.to = strm[s].localId
     /\ IF m.cmd = "CLSE"
          THEN CloseStreamTransport(s, Tail(wire))
          ELSE /\ wire' = Tail(wire)
               /\ dev' = IF m.cmd = "WRTE" THEN [dev EXCEPT ![m.to] = TakesOkay(@)] ELSE dev
               /\ UNCHANGED streamMap
     /\ hand' = [hand EXCEPT ![t] = m]
  /\ connReader' = None
  /\ Goes(t, "handle")
  /\ UNCHANGED <<lastId, strm, opened, history>>

\* A message for another stream: it is looked up (and closed when the message
\* is CLSE) before the message goes on its queue; unknown ids are dropped.
ReadsOther(t) ==
  /\ pc[t] = "wire" /\ wire # <<>>
  /\ LET m == Head(wire)  dest == streamMap[m.to] IN
     /\ m.to # strm[StreamOf[t]].localId
     /\ IF dest # None /\ m.cmd = "CLSE"
          THEN CloseStreamTransport(dest, Tail(wire))
          ELSE wire' = Tail(wire) /\ UNCHANGED <<streamMap, dev>>
     /\ IF dest # None
          THEN /\ hand' = [hand EXCEPT ![t] = [m EXCEPT !.to = dest]]
               /\ Goes(t, "enqueue")
          ELSE UNCHANGED <<hand, program, pc, ip, chunk, result>>
  /\ UNCHANGED <<lastId, connReader, strm, opened, history>>

\* AdbStreamTransport.enqueue_message.  A WRTE is acknowledged first, which
\* fails in the thread that read it while the stream's own thread has not yet
\* handled its first OKAY: the message is gone.
Enqueues(t) ==
  /\ pc[t] = "enqueue"
  /\ LET m == hand[t]  s == m.to  i == strm[s].localId IN
     IF m.cmd = "WRTE" /\ ~strm[s].remoteId
       THEN /\ lost' = lost \cup {s}
            /\ Raises(t, "protocol") /\ UNCHANGED dev
       ELSE /\ strm' = [strm EXCEPT
                 ![s].remoteId = @ \/ m.cmd = "OKAY",
                 ![s].closed = IF m.cmd = "OKAY" /\ ~strm[s].remoteId THEN "OPEN" ELSE @,
                 ![s].queue = Append(@, [m EXCEPT !.to = i])]
            /\ dev' = IF m.cmd = "WRTE" THEN [dev EXCEPT ![i] = TakesOkay(@)] ELSE dev
            /\ hand' = [hand EXCEPT ![t] = None]
            /\ Goes(t, "wire") /\ UNCHANGED <<connReader, lost>>
  /\ UNCHANGED <<lastId, streamMap, opened, wire, got, written>>

\* has_expired in read_for_stream, a read of the transport that times out, or
\* the wait on _message_received that does.
TimesOut(t) ==
  /\ t \notin Patient /\ pc[t] \in {"rfs", "wire", "wait"}
  /\ Raises(t, "timeout")
  /\ UNCHANGED <<lastId, streamMap, opened, device, history>>

---------------------------------------------------------------------------
(* AdbStreamTransport._handle_message, in t's read loop or ensure_opened.  *)

\* The transport after a message, or None when AdbProtocolError is raised.
Handled(s, m) ==
  CASE m.cmd = "OKAY" ->
         IF ~s.expectingOkay THEN None
         ELSE [s EXCEPT !.remoteId = TRUE, !.expectingOkay = FALSE,
                        !.closed = IF s.remoteId THEN @ ELSE "OPEN"]
    [] m.cmd = "CLSE" -> [s EXCEPT !.closed = "CLOSED"]
    [] m.cmd = "WRTE" -> [s EXCEPT !.buffer = @ \o m.data]

\* ensure_opened: the first message decides whether open_stream returns a
\* stream, None ("refused") or raises.
EnsureOpened(t) ==
  /\ pc[t] = "handle" /\ Op(t).op = "open"
  /\ LET s == StreamOf[t]  after == Handled(strm[s], hand[t]) IN
     IF hand[t].cmd = "WRTE" \/ after = None
       THEN Raises(t, "protocol") /\ UNCHANGED opened
       ELSE /\ strm' = [strm EXCEPT ![s] = after]
            /\ opened' = IF after.closed = "OPEN" THEN opened \cup {s} ELSE opened
            /\ hand' = [hand EXCEPT ![t] = None]
            /\ Ends(t, IF after.closed = "OPEN" THEN "ok" ELSE "refused")
            /\ UNCHANGED connReader
  /\ UNCHANGED <<lastId, streamMap, device, history>>

\* In the read loop the waiters are notified after the message was handled and
\* before the reader lock is released.
HandlesMessage(t) ==
  /\ pc[t] = "handle" /\ Op(t).op # "open"
  /\ LET s == StreamOf[t]  after == Handled(strm[s], hand[t]) IN
     IF after = None
       THEN Raises(t, "protocol")
       ELSE /\ strm' = [strm EXCEPT ![s] = after]
            /\ hand' = [hand EXCEPT ![t] = None]
            /\ pc' = [u \in Threads |->
                        IF u = t THEN "unlock"
                        ELSE IF pc[u] = "wait" /\ StreamOf[u] = s THEN "pred"
                        ELSE pc[u]]
            /\ UNCHANGED <<connReader, program, ip, chunk, result>>
  /\ UNCHANGED <<lastId, streamMap, opened, device, history>>

Unlocks(t) ==
  /\ pc[t] = "unlock"
  /\ strm' = [strm EXCEPT ![StreamOf[t]].readerLock = None]
  /\ Goes(t, "pred")
  /\ UNCHANGED <<conn, opened, device, hand, history>>

---------------------------------------------------------------------------
Works(t) ==
  \/ OpenStream(t) \/ WriteChecks(t) \/ WriteSends(t) \/ WriteReturns(t)
  \/ CloseStream(t) \/ ChecksPredicate(t) \/ TriesReaderLock(t) \/ ReadReturns(t)
  \/ Polls(t) \/ TriesConnLock(t) \/ ReadsOwn(t) \/ ReadsOther(t) \/ Enqueues(t)
  \/ EnsureOpened(t) \/ HandlesMessage(t) \/ Unlocks(t)

Next == Device \/ \E t \in Threads : Works(t) \/ TimesOut(t)

\* Threads run; the device owes nothing but what it has already sent.
Spec == Init /\ [][Next]_vars /\ \A t \in Threads : WF_vars(Works(t))

---------------------------------------------------------------------------
(* Properties.                                                             *)

TypeOK ==
  /\ lastId \in 0..StreamIdLimit
  /\ streamMap \in [Ids -> Streams \cup {None}]
  /\ connReader \in Threads \cup {None}
  /\ \A s \in Streams :
       /\ strm[s].localId \in Ids \cup {None} /\ strm[s].closed \in ClosedState
       /\ strm[s].queue \in Seq(Message)
       /\ {strm[s].readerLock, strm[s].writeLock} \subseteq Threads \cup {None}
  /\ wire \in Seq(Message) /\ opened \subseteq Streams /\ lost \subseteq Streams

\* Data of a sequence of messages, of those of one stream, and in a thread's
\* hands on the way to stream s.
Data(ms) == FlattenSeq([k \in 1..Len(ms) |-> ms[k].data])
OnWire(i) == SelectSeq(wire, LAMBDA m : m.to = i)
InHand(s, label) ==
  LET holders == {t \in Threads : pc[t] = label /\ hand[t].cmd = "WRTE"
                      /\ IF label = "enqueue" THEN hand[t].to = s ELSE StreamOf[t] = s}
  IN IF holders = {} THEN <<>> ELSE hand[CHOOSE t \in holders : TRUE].data

Sent(s) == IF strm[s].localId = None THEN 0 ELSE dev[strm[s].localId].sent
Acks(s) == IF strm[s].localId = None THEN 0 ELSE dev[strm[s].localId].acks

(* read_for_stream, _handle_message_for_stream and read hand the data of a  *)
(* stream from thread to thread: while the stream is in the connection's   *)
(* map, what reads returned, then the read buffer, the message being       *)
(* handled, the queue, the message being enqueued and the wire are exactly *)
(* what the device sent, in order, whichever threads read the transport.   *)
NothingLost ==
  \A s \in Streams \ lost : InMap(s) =>
    got[s] \o strm[s].buffer \o InHand(s, "handle") \o Data(strm[s].queue)
      \o InHand(s, "enqueue") \o Data(OnWire(strm[s].localId))
      = [k \in 1..Sent(s) |-> k]

(* streaming_command: when read_until_close ends because the device closed *)
(* the stream, everything the device sent was yielded, also when another   *)
(* stream's thread read the CLSE and took the stream out of the map while  *)
(* data was still queued (the reason the queue is not looked up there).    *)
StreamingComplete ==
  \A t \in Threads : result[t] = "done" =>
    \/ StreamOf[t] \in lost
    \/ got[StreamOf[t]] = [k \in 1..Sent(StreamOf[t]) |-> k]
    \/ \E u \in Threads : /\ StreamOf[u] = StreamOf[t]
                          /\ \E k \in 1..(ip[u] - 1) : program[u][k].op = "close"

(* close_stream_transport: a stream that has left the map is closed at the *)
(* device as well, whichever side closed first and whoever read the CLSE.  *)
ClosedAtBothEnds ==
  \A s \in Streams :
    strm[s].localId # None /\ ~InMap(s) => dev[strm[s].localId].st = "closed"

(* Closing a stream is clean: nothing sent before it is lost to the reader *)
(* and no end of the stream stays open.                                    *)
CloseIsClean == StreamingComplete /\ ClosedAtBothEnds

(* read_for_stream: a thread without a timeout whose stream has a message  *)
(* on the wire or in its queue leaves read_for_stream, also when another   *)
(* stream's thread holds the reader lock and takes the message off the     *)
(* wire.                                                                   *)
InReadForStream(t) == pc[t] \in {"rfs", "lock", "wire", "enqueue"}
Arrived(s) ==
  strm[s].localId # None /\ (strm[s].queue # <<>> \/ OnWire(strm[s].localId) # <<>>)
ArrivedIsRead ==
  \A t \in Patient :
    InReadForStream(t) /\ Arrived(StreamOf[t])
      ~> ~InReadForStream(t) \/ StreamOf[t] \in lost

(* AdbStreams: per stream, reads return what the device sent, in order and *)
(* each unit once, and a write that returns was acknowledged.              *)
Stream == INSTANCE AdbStreams WITH
  sent <- [s \in Streams |-> Sent(s)], acks <- [s \in Streams |-> Acks(s)]
ImplementsStreams == Stream!Spec

(* The docstring of AdbConnection (several streams used by several threads *)
(* at once): the calls on one stream never fail with AdbProtocolError as   *)
(* long as the device keeps to the protocol and one thread writes.         *)
NoProtocolError == \A t \in Threads : result[t] # "protocol"

(* write: "Make sure we only have one WRTE in flight at a time, because ADB *)
(* doesn't identify which WRTE it is ACK'ing": the device never owes a     *)
(* stream two acknowledgements, however many threads write to it.          *)
OneWriteInFlight == \A i \in Ids : dev[i].owe <= 1

(* _read_messages_until_true holds _message_received so that no            *)
(* notification is missed: a thread waiting there leaves once its          *)
(* condition is true.                                                      *)
WaitersWake ==
  \A t \in Threads : pc[t] = "wait" /\ Predicate(t) ~> pc[t] # "wait"
====
