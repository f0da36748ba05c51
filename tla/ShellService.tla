---- MODULE ShellService ----
(***************************************************************************)
(* A shell command in the session of UsbSession: ShellService.command, and *)
(* async_command with its reader thread, a writer thread if there is       *)
(* stdin, the close() that execute_after_delay runs at the timeout, and    *)
(* the program in wait(); and the one-message services of AdbDevice.       *)
(*                                                                         *)
(* The stream is what AdbStreams promises: messages are handled in their   *)
(* order, by whichever of its threads needs one. Output is counted in      *)
(* chunks.                                                                 *)
(***************************************************************************)
EXTENDS UsbSession

CONSTANTS
  MaxOutput,   \* chunks a command writes at most
  MaxInput     \* chunks of stdin

ASSUME ShellAssumption == MaxOutput \in Nat /\ MaxInput \in Nat

VARIABLE shell \* the command and its AsyncCommandHandle

shellVars == <<vars, shell>>

NoShell ==
  [st |-> "none",        \* "none" or "running"
   async |-> FALSE,      \* async_command, else command
   wire |-> <<>>,        \* messages of the device not read yet
   written |-> 0,        \* history: chunks the command wrote
   exited |-> FALSE,     \* the device sent CLSE
   owes |-> FALSE,       \* the device has not acknowledged the last WRTE
   buffer |-> 0,         \* chunks in _read_buffer
   hand |-> 0,           \* chunks the reader took and has not stored
   stdout |-> 0,         \* chunks in stdout, or in the list that command joins
   expecting |-> FALSE,  \* _expecting_okay
   closed |-> FALSE,     \* closed_state is CLOSED
   reader |-> "reading", \* or "storing", "done", "timeout"
   writer |-> "none",    \* or "idle", "waiting", "done"
   input |-> 0,          \* chunks of stdin not written
   timer |-> "none",     \* timeout and its close(): or "armed", "expired", "done"
   forced |-> FALSE,     \* force_closed_or_timeout
   waiter |-> "none",    \* wait(): or "polling", "late", "returned"
   output |-> 0]         \* chunks wait() returned

Running == shell.st = "running"
Session == <<stage, pc, inbox, connVars, call, left, dest, clean, misread, sync, fs, bootVars>>

---------------------------------------------------------------------------
(* Starting a command. A command takes the place of all filesync calls.    *)

Idling == stage = "sync" /\ pc = "idle" /\ calls = 0 /\ MaxCalls > 0

StartCommand ==
  /\ Idling
  /\ \E timed \in BOOLEAN :
       shell' = [NoShell EXCEPT !.st = "running", !.timer = IF timed THEN "armed" ELSE "none"]
  /\ calls' = MaxCalls /\ UNCHANGED <<Session, result>>

StartAsyncCommand ==
  /\ Idling
  /\ \E timed \in BOOLEAN, stdin \in 0..MaxInput :
       shell' = [NoShell EXCEPT !.st = "running", !.async = TRUE, !.waiter = "polling",
                                !.timer = IF timed THEN "armed" ELSE "none",
                                !.writer = IF stdin > 0 THEN "idle" ELSE "none",
                                !.input = stdin]
  /\ calls' = MaxCalls /\ UNCHANGED <<Session, result>>

\* _check_remote_command: reboot has no success messages, and `any` over None
\* raises when the device answers at all.
RemoteResult(service, answer) ==
  CASE answer = "unsupported" -> "unavailable"
    [] answer = "usb error" -> IF service = "reboot" THEN "returned" ELSE "usb error"
    [] OTHER -> IF service = "reboot" THEN "TypeError"
                ELSE IF answer = "success" THEN "returned" ELSE "remote"

\* remount(), root(), or a reboot() that fails.
RemoteCommand ==
  /\ Idling
  /\ \E service \in {"reboot", "remount", "root"},
        answer \in {"unsupported", "usb error", "success", "message"} :
       /\ service = "reboot" => answer # "usb error"
       /\ result' = RemoteResult(service, answer)
  /\ calls' = MaxCalls /\ UNCHANGED <<Session, shell>>

---------------------------------------------------------------------------
(* The device.                                                             *)

Sends(message) == shell.wire \o <<message>>

DeviceWrites ==
  /\ Running /\ ~shell.exited /\ ~shell.closed /\ shell.written < MaxOutput
  /\ \A k \in DOMAIN shell.wire : shell.wire[k] # "WRTE"
  /\ shell' = [shell EXCEPT !.written = @ + 1, !.wire = Sends("WRTE")]

DeviceAcks ==
  /\ Running /\ ~shell.exited /\ ~shell.closed /\ shell.owes
  /\ shell' = [shell EXCEPT !.owes = FALSE, !.wire = Sends("OKAY")]

DeviceExits ==
  /\ Running /\ ~shell.exited
  /\ shell' = [shell EXCEPT !.exited = TRUE, !.wire = Sends("CLSE")]

---------------------------------------------------------------------------
(* The threads.                                                            *)

\* _read_messages_until_true: what the reader and the writer wait for.
Needs(thread) ==
  CASE thread = "reader" -> shell.reader = "reading" /\ shell.buffer = 0
    [] thread = "writer" -> shell.writer = "waiting" /\ shell.expecting

\* One of them reads a message and handles it. A stream that was closed here
\* may still get one, if the thread was reading already.
HandleMessage(thread) ==
  /\ Needs(thread) /\ shell.wire # <<>> /\ (shell.closed => shell.forced)
  /\ LET m == Head(shell.wire) IN
     shell' = [shell EXCEPT !.wire = Tail(@),
                            !.buffer = IF m = "WRTE" THEN @ + 1 ELSE @,
                            !.expecting = @ /\ m # "OKAY",
                            !.closed = @ \/ m = "CLSE"]

\* Mutant: the reader does not look at what is buffered once the stream is closed.
M_ReadsClosed ==
  /\ shell.reader = "reading" /\ shell.closed
  /\ shell' = [shell EXCEPT !.reader = "done"]

\* AdbStreamClosedError ends read_until_close ...
ReadsClosed ==
  /\ Needs("reader") /\ shell.closed
  /\ shell' = [shell EXCEPT !.reader = "done"]

\* ... and the writer, as does is_closed().
WritesClosed ==
  /\ shell.closed /\ (Needs("writer") \/ shell.writer = "idle")
  /\ shell' = [shell EXCEPT !.writer = "done"]

ReadsTooLate ==
  /\ Needs("reader") /\ ~shell.closed /\ shell.timer \in {"expired", "done"}
  /\ shell' = [shell EXCEPT !.reader = "timeout"]

\* _reader_thread_proc: a read returns all that is buffered.
Takes ==
  /\ shell.reader = "reading" /\ shell.buffer > 0
  /\ shell' = [shell EXCEPT !.reader = "storing", !.hand = shell.buffer, !.buffer = 0]
Stores ==
  /\ shell.reader = "storing"
  /\ shell' = [shell EXCEPT !.reader = "reading", !.hand = 0, !.stdout = @ + shell.hand]

\* _writer_thread_proc: at the end of stdin it writes nothing, again and again.
Writes ==
  /\ shell.writer = "idle" /\ ~shell.closed /\ shell.input > 0
  /\ shell' = [shell EXCEPT !.writer = "waiting", !.input = @ - 1,
                            !.expecting = TRUE, !.owes = TRUE]
Written ==
  /\ shell.writer = "waiting" /\ ~shell.expecting
  /\ shell' = [shell EXCEPT !.writer = "idle"]

\* The timeout expires, and close() runs also if the command has ended.
Expires ==
  /\ shell.timer = "armed"
  /\ shell' = [shell EXCEPT !.timer = "expired"]
DelayedClose ==
  /\ shell.timer = "expired" /\ shell.async
  /\ shell' = [shell EXCEPT !.timer = "done", !.forced = TRUE, !.closed = TRUE]

\* wait() polls is_closed; a program whose wait() timed out closes the handle.
WaitReturns ==
  /\ shell.waiter = "polling" /\ shell.closed
  /\ shell' = [shell EXCEPT !.waiter = "returned", !.output = shell.stdout]
WaitTimesOut ==
  /\ shell.waiter = "polling" /\ ~shell.closed
  /\ shell' = [shell EXCEPT !.waiter = "late"]
Close ==
  /\ shell.waiter = "late"
  /\ shell' = [shell EXCEPT !.waiter = "none", !.forced = TRUE, !.closed = TRUE]

\* Everything has ended; command() returns or raises AdbTimeoutError.
CommandEnds ==
  /\ Running
  /\ shell.reader \in {"done", "timeout"} /\ shell.writer \in {"none", "done"}
  /\ shell.waiter \in {"none", "returned"}
  /\ shell.async => shell.timer \in {"none", "done"}
  /\ shell' = NoShell
  /\ result' = IF shell.reader = "timeout" THEN "timeout" ELSE "shell"
  /\ calls' = calls /\ UNCHANGED Session

---------------------------------------------------------------------------
Threads ==
  \/ \E thread \in {"reader", "writer"} : HandleMessage(thread)
  \/ ReadsClosed \/ WritesClosed \/ ReadsTooLate \/ Takes \/ Stores \/ Writes \/ Written
  \/ Expires \/ DelayedClose \/ WaitReturns \/ WaitTimesOut \/ Close
ShellHost ==
  \/ StartCommand \/ StartAsyncCommand \/ RemoteCommand \/ CommandEnds
  \/ Running /\ Threads /\ UNCHANGED vars

Device == (DeviceWrites \/ DeviceAcks \/ DeviceExits) /\ UNCHANGED vars

SessionHost == Host /\ ~Running /\ UNCHANGED shell
SessionNext == Next /\ ~Running /\ UNCHANGED shell

ShellInit == Init /\ shell = NoShell
ShellNext == SessionNext \/ ShellHost \/ Device

\* A command without a timeout has to end by itself: nothing here ends it.
ShellSpec ==
  /\ ShellInit /\ [][ShellNext]_shellVars
  /\ WF_shellVars(SessionHost \/ ShellHost)
  /\ WF_shellVars(DeviceExits /\ UNCHANGED vars)

---------------------------------------------------------------------------
(* The output of a command that was not cut off: all of it is in stdout    *)
(* when the reader thread ends, and wait() returns all of it, if there is  *)
(* no stdin. (With stdin the writer may handle the end of the stream while *)
(* the reader still has output to store.)                                  *)
OutputComplete ==
  Running /\ ~shell.forced =>
    /\ shell.reader = "done" => shell.stdout = shell.written
    /\ shell.waiter = "returned" /\ shell.writer = "none" => shell.output = shell.written

(* What the session delivers, files and output, is what was asked for.     *)
DeliveredExact == TransfersExact /\ OutputComplete
====
