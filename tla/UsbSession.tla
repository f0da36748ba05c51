---- MODULE UsbSession ----
(***************************************************************************)
(* One test program's session with a device over USB: the CNXN/AUTH        *)
(* handshake of AdbConnection.connect, file transfers with FilesyncService *)
(* on one sync: stream (used by AdbDevice.push, pull and list), a reboot   *)
(* into the bootloader, and FastbootCommands.flash_from_file.  The device  *)
(* is outside this repository; it may refuse keys, fail a transfer, close  *)
(* the stream or answer late.                                              *)
(***************************************************************************)
EXTENDS Naturals, Integers, Sequences, FiniteSets, FiniteSetsExt

CONSTANTS
  Keys,        \* rsa_keys the program may have, a sequence
  Files,       \* file names on the device, a sequence (the order of LIST)
  Source,      \* chunks of the local file that send() pushes
  Image,       \* length of the image to flash
  ChunkSize,   \* FASTBOOT_DOWNLOAD_CHUNK_SIZE_KB * 1024
  MaxCalls,    \* filesync calls made on the stream
  None

FileNames == {Files[k] : k \in 1..Len(Files)}

ASSUME UsbAssumption ==
  /\ Image \in Nat /\ ChunkSize \in Nat \ {0} /\ MaxCalls \in Nat
  /\ Len(Keys) \in Nat /\ Files \in Seq(FileNames)
  /\ Source \in Seq({Source[k] : k \in 1..Len(Source)})

VARIABLES
  stage,     \* "connect", "sync", "fastboot" or "end"
  pc,        \* where the host is in its current call
  inbox,     \* messages from the device not read yet
  keys,      \* rsa_keys
  key,       \* keys whose signature was sent
  refused,   \* history: keys whose signature the device answered with AUTH
  call,      \* the filesync call: [op, file]
  calls,     \* filesync calls made
  left,      \* chunks send() has still to write
  dest,      \* what recv() or list() has delivered
  clean,     \* no earlier call on the stream was cut short
  misread,   \* a message of another format was read: the stream is out of step
  sync,      \* the device's sync service: [st, file, data, failed]
  fs,        \* the device's files
  length,    \* _write: bytes still to send
  sent,      \* bytes of the image sent
  partition, \* bytes of the image in the flashed partition, or None
  result     \* how the last call ended

connVars == <<keys, key, refused>>
syncVars == <<call, calls, left, dest, clean, misread, sync, fs>>
bootVars == <<length, sent, partition>>
vars == <<stage, pc, inbox, keys, key, refused, call, calls, left, dest,
          clean, misread, sync, fs, length, sent, partition, result>>

Idle == [st |-> "idle", file |-> None, data |-> <<>>, failed |-> FALSE]
Msg(c, f, v) == [cmd |-> c, format |-> f, val |-> v]

Init ==
  /\ stage = "connect" /\ pc = "start" /\ inbox = <<>>
  /\ keys \in {<<>>, Keys} /\ key = 0 /\ refused = {}
  /\ call = None /\ calls = 0 /\ left = <<>> /\ dest = <<>> /\ clean = TRUE
  /\ misread = FALSE /\ sync = Idle
  /\ fs \in [FileNames -> {None, <<"x", "y">>}]
  /\ length = 0 /\ sent = 0 /\ partition = None /\ result = "none"

---------------------------------------------------------------------------
(* AdbConnection.connect.                                                  *)

Fails(error) == stage' = "end" /\ pc' = "end" /\ result' = error

\* AUTH whose arg0 is AUTH_TOKEN, or something else.
IsAuth == inbox # <<>> /\ Head(inbox) \in {"AUTH", "AUTH_BAD"}

SendCnxn ==
  /\ stage = "connect" /\ pc = "start"
  /\ pc' = "read"
  /\ \E m \in {"CNXN", "AUTH", "AUTH_BAD", "OTHER"} : inbox' \in {<<m>>, <<"OTHER", m>>}
  /\ UNCHANGED <<stage, connVars, syncVars, bootVars, result>>

\* Mutant: what is neither AUTH nor CNXN stays unread.
M_IgnoreMessage ==
  /\ stage = "connect" /\ pc = "accept" /\ inbox # <<>>
  /\ inbox' = Tail(inbox)
  /\ UNCHANGED <<stage, pc, connVars, syncVars, bootVars, result>>

\* read_until drops what is neither AUTH nor CNXN.
IgnoreMessage ==
  /\ stage = "connect" /\ pc \in {"read", "accept"} /\ inbox # <<>>
  /\ Head(inbox) = "OTHER" \/ (IsAuth /\ pc = "accept")
  /\ inbox' = Tail(inbox)
  /\ UNCHANGED <<stage, pc, connVars, syncVars, bootVars, result>>

\* AdbDevice.connect opens the sync: stream of its FilesyncService.
Connected ==
  /\ stage = "connect" /\ pc \in {"read", "accept"} /\ inbox # <<>>
  /\ Head(inbox) = "CNXN"
  /\ inbox' = <<>> /\ stage' = "sync" /\ pc' = "idle"
  /\ UNCHANGED <<connVars, syncVars, bootVars, result>>

NoKeys ==
  /\ stage = "connect" /\ pc = "read" /\ IsAuth
  /\ keys = <<>>
  /\ Fails("auth")
  /\ UNCHANGED <<inbox, connVars, syncVars, bootVars>>

\* Each key signs the last token; the device knows it or sends another token.
SignToken ==
  /\ stage = "connect" /\ pc = "read" /\ IsAuth /\ key < Len(keys)
  /\ IF Head(inbox) = "AUTH_BAD"
       THEN Fails("protocol") /\ UNCHANGED <<inbox, key, refused>>
       ELSE /\ key' = key + 1
            /\ \/ inbox' = Append(Tail(inbox), "CNXN") /\ UNCHANGED refused
               \/ /\ inbox' \in {Append(Tail(inbox), "AUTH"), Append(Tail(inbox), "AUTH_BAD")}
                  /\ refused' = refused \cup {keys[key + 1]}
            /\ UNCHANGED <<stage, pc, result>>
  /\ UNCHANGED <<keys, syncVars, bootVars>>

\* Mutant: the last key is not tried.
M_OfferPublicKey ==
  /\ stage = "connect" /\ pc = "read" /\ IsAuth
  /\ keys # <<>> /\ key = Len(keys) - 1
  /\ pc' = "accept"
  /\ inbox' \in {Tail(inbox), Append(Tail(inbox), "CNXN"), Append(Tail(inbox), "AUTH")}
  /\ UNCHANGED <<stage, connVars, syncVars, bootVars, result>>

\* No signature was accepted: the first public key is offered to the user.
OfferPublicKey ==
  /\ stage = "connect" /\ pc = "read" /\ IsAuth
  /\ keys # <<>> /\ key = Len(keys)
  /\ pc' = "accept"
  /\ inbox' \in {Tail(inbox), Append(Tail(inbox), "CNXN"), Append(Tail(inbox), "AUTH")}
  /\ UNCHANGED <<stage, connVars, syncVars, bootVars, result>>

ConnectTimesOut ==
  /\ stage = "connect" /\ pc \in {"read", "accept"} /\ inbox = <<>>
  /\ Fails(IF pc = "accept" THEN "auth" ELSE "timeout")
  /\ UNCHANGED <<inbox, connVars, syncVars, bootVars>>

---------------------------------------------------------------------------
(* The device's sync service.                                              *)

\* What a request puts into the inbox.
Reply(op, f) ==
  CASE op = "stat" -> <<Msg("STAT", "stat", f)>>
    [] op = "list" -> [k \in 1..Len(Files) |-> Msg("DENT", "dent", Files[k])]
                        \o <<Msg("DONE", "dent", None)>>
    [] op = "recv" -> IF fs[f] = None THEN <<Msg("FAIL", "data", None)>>
                      ELSE [k \in 1..Len(fs[f]) |-> Msg("DATA", "data", fs[f][k])]
                             \o <<Msg("DONE", "data", None)>>
    [] op = "send" -> <<>>

\* While a file is being pushed the device may fail, and may close the stream.
DeviceFails ==
  /\ stage = "sync" /\ sync.st = "receiving" /\ ~sync.failed
  /\ \E st \in {"receiving", "closed"} : sync' = [sync EXCEPT !.st = st, !.failed = TRUE]
  /\ inbox' = Append(inbox, Msg("FAIL", "data", None))
  /\ UNCHANGED <<stage, pc, connVars, call, calls, left, dest, clean, misread, fs,
                 bootVars, result>>

\* The device goes away while an answer is awaited; what it had sent by then can
\* be read.
DeviceCloses ==
  /\ stage = "sync" /\ pc = "read" /\ sync.st # "closed" /\ ~sync.failed
  /\ sync' = [sync EXCEPT !.st = "closed"]
  /\ \E k \in 0..Len(inbox) : inbox' = SubSeq(inbox, 1, k)
  /\ UNCHANGED <<stage, pc, connVars, call, calls, left, dest, clean, misread, fs,
                 bootVars, result>>

---------------------------------------------------------------------------
(* FilesyncService.                                                        *)

Format(op) == IF op \in {"stat", "list"} THEN (IF op = "stat" THEN "stat" ELSE "dent")
              ELSE "data"
ValidResponses(op) ==
  CASE op = "stat" -> {"STAT"} [] op = "list" -> {"DENT", "DONE"}
    [] OTHER -> {"DATA", "DONE", "OKAY", "FAIL"}

\* A call ends; one that did not read its last message leaves the rest of its
\* answer on the stream for the next call.
CallEnds(r) ==
  /\ result' = r /\ pc' = "idle"
  /\ clean' = (clean /\ r \in {"ok", "remote", "closed"})

\* A device that is still waiting for the data of a SEND fails the new request
\* and closes the stream.
StartCall ==
  /\ stage = "sync" /\ pc = "idle" /\ calls < MaxCalls /\ sync.st # "closed"
  /\ calls' = calls + 1 /\ dest' = <<>> /\ result' = "none"
  /\ \E op \in {"stat", "list", "recv", "send"}, f \in FileNames :
       /\ call' = [op |-> op, file |-> f]
       /\ inbox' = inbox \o IF sync.st = "receiving" THEN <<Msg("FAIL", "data", None)>>
                            ELSE Reply(op, f)
       /\ pc' = IF op = "send" THEN "write" ELSE "read"
       /\ left' = IF op = "send" THEN Source ELSE <<>>
       /\ sync' = IF sync.st = "receiving" THEN [sync EXCEPT !.st = "closed"]
                  ELSE IF op = "send" THEN [Idle EXCEPT !.st = "receiving", !.file = f]
                  ELSE Idle
  /\ UNCHANGED <<stage, connVars, clean, misread, fs, bootVars>>

\* Mutant: a short last chunk is taken for the end of the file.
M_SendWrites ==
  /\ stage = "sync" /\ pc = "write" /\ sync.st = "receiving"
  /\ left' = IF left = <<>> THEN left ELSE Tail(left)
  /\ IF Len(left) > 1
       THEN /\ sync' = [sync EXCEPT !.data = Append(@, Head(left))]
            /\ UNCHANGED <<inbox, pc, fs>>
       ELSE /\ pc' = "read" /\ sync' = [sync EXCEPT !.st = "idle"]
            /\ fs' = IF sync.failed THEN fs ELSE [fs EXCEPT ![sync.file] = sync.data]
            /\ inbox' = IF sync.failed THEN inbox
                        ELSE Append(inbox, Msg("OKAY", "data", None))
  /\ UNCHANGED <<stage, connVars, call, calls, dest, clean, misread, bootVars, result>>

\* send(): the next DATA, or DONE, which makes the device store the file.
SendWrites ==
  /\ stage = "sync" /\ pc = "write" /\ sync.st = "receiving"
  /\ IF left # <<>>
       THEN /\ left' = Tail(left)
            /\ sync' = [sync EXCEPT !.data = Append(@, Head(left))]
            /\ UNCHANGED <<inbox, pc, fs>>
       ELSE /\ pc' = "read" /\ sync' = [sync EXCEPT !.st = "idle"]
            /\ fs' = IF sync.failed THEN fs ELSE [fs EXCEPT ![sync.file] = sync.data]
            /\ inbox' = IF sync.failed THEN inbox
                        ELSE Append(inbox, Msg("OKAY", "data", None))
            /\ UNCHANGED left
  /\ UNCHANGED <<stage, connVars, call, calls, dest, clean, misread, bootVars, result>>

\* Mutant: the error of the write is raised without a look for FAIL.
M_SendFindsClosed ==
  /\ stage = "sync" /\ pc = "write" /\ sync.st = "closed"
  /\ CallEnds("closed")
  /\ UNCHANGED <<stage, inbox, connVars, call, calls, left, dest, misread, sync, fs, bootVars>>

\* A write finds the stream closed: _check_for_fail_message reads one message
\* and raises AdbRemoteError when it is FAIL, else the original error.
SendFindsClosed ==
  /\ stage = "sync" /\ pc = "write" /\ sync.st = "closed"
  /\ IF inbox # <<>> /\ Head(inbox).format = "data" /\ Head(inbox).cmd = "FAIL" /\ ~misread
       THEN CallEnds("remote") ELSE CallEnds("closed")
  /\ inbox' = IF inbox = <<>> THEN inbox ELSE Tail(inbox)
  /\ UNCHANGED <<stage, connVars, call, calls, left, dest, misread, sync, fs, bootVars>>

\* read_message, and what each call does with the message.
ReadMessage ==
  /\ stage = "sync" /\ pc = "read" /\ inbox # <<>>
  /\ LET m == Head(inbox) IN
     /\ inbox' = Tail(inbox)
     /\ misread' = (misread \/ m.format # Format(call.op))
     /\ IF misread' \/ m.cmd \notin ValidResponses(call.op)
          THEN CallEnds("protocol") /\ UNCHANGED dest
        ELSE IF m.cmd = "FAIL" THEN CallEnds("remote") /\ UNCHANGED dest
        ELSE IF m.cmd \in {"DATA", "DENT"} /\ call.op \in {"recv", "list"}
          THEN dest' = Append(dest, m.val) /\ UNCHANGED <<pc, result, clean>>
        ELSE IF \/ call.op = "stat"
                \/ m.cmd = "DONE" /\ call.op \in {"recv", "list"}
                \/ m.cmd = "OKAY" /\ call.op = "send"
          THEN /\ CallEnds("ok")
               /\ dest' = IF call.op = "stat" THEN <<m.val>> ELSE dest
        ELSE CallEnds("protocol") /\ UNCHANGED dest
  /\ UNCHANGED <<stage, connVars, call, calls, left, sync, fs, bootVars>>

\* A read or a write times out, the closed stream has nothing more, or the caller
\* stops iterating over list().
CutShort ==
  /\ stage = "sync"
  /\ \/ pc \in {"read", "write"} /\ CallEnds("timeout")
     \/ pc = "read" /\ inbox = <<>> /\ sync.st = "closed" /\ CallEnds("closed")
     \/ pc = "read" /\ call.op = "list" /\ CallEnds("abandoned")
  /\ UNCHANGED <<stage, inbox, connVars, call, calls, left, dest, misread, sync, fs, bootVars>>

\* AdbDevice._check_remote_command('reboot:...'): any USB error counts as the
\* device going away.
Reboot ==
  /\ stage = "sync" /\ pc = "idle"
  /\ stage' = "fastboot" /\ pc' = "download" /\ inbox' = <<>>
  /\ UNCHANGED <<connVars, syncVars, bootVars, result>>

---------------------------------------------------------------------------
(* FastbootCommands.flash_from_file.                                       *)

\* The device may send INFO before it answers a command.
BootReply(answers) ==
  \E r \in answers : inbox' \in {<<r>>, <<[header |-> "INFO", size |-> 0], r>>}
Header(h, n) == [header |-> h, size |-> n]

SendDownload ==
  /\ stage = "fastboot" /\ pc = "download"
  /\ BootReply({Header("DATA", Image), Header("DATA", Image + 1), Header("OKAY", 0),
                Header("FAIL", 0), Header("????", 0)})
  /\ pc' = "accept" /\ sent' = 0
  /\ UNCHANGED <<stage, connVars, syncVars, length, partition, result>>

\* _accept_responses: INFO goes to the callback, FAIL and headers that are not
\* the expected one raise; r is the response that ends the loop.
Accepts(expected, r) ==
  /\ inbox # <<>> /\ inbox' = Tail(inbox)
  /\ r = Head(inbox) /\ r.header = expected

AcceptInfo ==
  /\ stage = "fastboot" /\ pc \in {"accept", "verify", "flash"} /\ inbox # <<>>
  /\ Head(inbox).header = "INFO" /\ inbox' = Tail(inbox)
  /\ UNCHANGED <<stage, pc, connVars, syncVars, bootVars, result>>

\* handle_data_sending: the device must accept exactly the image's length.
AcceptData ==
  /\ stage = "fastboot" /\ pc = "accept"
  /\ \E n \in {Image, Image + 1} :
       /\ Accepts("DATA", Header("DATA", n))
       /\ IF n # Image THEN Fails("transfer") /\ UNCHANGED length
          ELSE length' = n /\ pc' = "chunks" /\ UNCHANGED <<stage, result>>
  /\ UNCHANGED <<connVars, syncVars, sent, partition>>

\* _write: one chunk, as much as the file still has.
WriteChunk ==
  /\ stage = "fastboot" /\ pc = "chunks"
  /\ IF length # 0
       THEN LET n == Min({ChunkSize, Image - sent})
            IN length' = length - n /\ sent' = sent + n /\ UNCHANGED <<pc, inbox>>
       ELSE /\ pc' = "verify" /\ BootReply({Header("OKAY", 0), Header("FAIL", 0)})
            /\ UNCHANGED <<length, sent>>
  /\ UNCHANGED <<stage, connVars, syncVars, partition, result>>

\* After the download's OKAY the image is flashed: what the device received.
SendFlash ==
  /\ stage = "fastboot" /\ pc = "verify" /\ inbox # <<>> /\ Head(inbox).header = "OKAY"
  /\ pc' = "flash"
  /\ \/ inbox' = <<Header("OKAY", 0)>> /\ partition' = sent
     \/ inbox' = <<Header("FAIL", 0)>> /\ UNCHANGED partition
  /\ UNCHANGED <<stage, connVars, syncVars, length, sent, result>>

Flashed ==
  /\ stage = "fastboot" /\ pc = "flash" /\ Accepts("OKAY", Header("OKAY", 0))
  /\ Fails("flashed")
  /\ UNCHANGED <<connVars, syncVars, bootVars>>

\* FAIL, the wrong final header, or an unknown one.
BootFails ==
  /\ stage = "fastboot" /\ pc \in {"accept", "verify", "flash"} /\ inbox # <<>>
  /\ LET h == Head(inbox).header IN
     /\ h \notin {"INFO", IF pc = "accept" THEN "DATA" ELSE "OKAY"}
     /\ Fails(IF h = "FAIL" THEN "remote" ELSE IF h \in {"OKAY", "DATA"} THEN "mismatch"
              ELSE "invalid")
  /\ inbox' = Tail(inbox)
  /\ UNCHANGED <<connVars, syncVars, bootVars>>

---------------------------------------------------------------------------
Connecting ==
  \/ SendCnxn \/ IgnoreMessage \/ Connected \/ NoKeys \/ SignToken
  \/ OfferPublicKey \/ ConnectTimesOut
Syncing ==
  \/ StartCall \/ SendWrites \/ SendFindsClosed \/ ReadMessage \/ CutShort \/ Reboot
Flashing ==
  \/ SendDownload \/ AcceptInfo \/ AcceptData \/ WriteChunk \/ SendFlash
  \/ Flashed \/ BootFails

Host == Connecting \/ Syncing \/ Flashing
Next == Host \/ DeviceFails \/ DeviceCloses

\* The host goes on by itself: a read that gets no answer times out.
Spec == Init /\ [][Next]_vars /\ WF_vars(Host)

---------------------------------------------------------------------------
TypeOK ==
  /\ stage \in {"connect", "sync", "fastboot", "end"}
  /\ key \in 0..Len(keys) /\ calls \in 0..MaxCalls
  /\ clean \in BOOLEAN /\ misread \in BOOLEAN
  /\ sync.st \in {"idle", "receiving", "closed"} /\ DOMAIN fs = FileNames
  /\ length \in 0..Image /\ sent \in 0..Image

(* connect(): the public key, which makes the device ask its user, is      *)
(* offered only when the signature of every key was refused.               *)
PublicKeyLast ==
  stage = "connect" /\ pc = "accept" => refused = {keys[k] : k \in 1..Len(keys)}

(* stat, list, recv and send: as long as no earlier call on the stream was *)
(* cut short, a call that returns delivered exactly what it was asked for; *)
(* flash_from_file flashes the whole image, whatever the chunk size.       *)
Returned(op) == stage = "sync" /\ pc = "idle" /\ result = "ok" /\ call.op = op
TransfersExact ==
  clean => /\ Returned("stat") => dest = <<call.file>>
           /\ Returned("list") => dest = Files
           /\ Returned("recv") => dest = fs[call.file]
           /\ Returned("send") => fs[call.file] = Source
           /\ partition \in {None, Image}

(* send(): when the device fails the push, the caller gets the device's    *)
(* FAIL, also when the stream closed while data was being written.         *)
FailureReported ==
  stage = "sync" /\ pc = "idle" /\ clean /\ sync.failed /\ call.op = "send"
    => result = "remote"

(* The session comes to an end: neither the handshake nor the loops over   *)
(* messages and chunks go on for ever with a device that stops answering.  *)
SessionEnds == <>(stage = "end")

(* AbstractFilesyncTransport (one stream for many transactions): a stat    *)
(* that returns tells of the file that was asked for.                      *)
StatIsForFile == Returned("stat") => dest = <<call.file>>
====
