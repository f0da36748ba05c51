---- MODULE UsbSessionProofs ----
(***************************************************************************)
(* The session with a device over USB, for any keys, files, image, chunk   *)
(* size and number of calls, and any output of a shell command: the public *)
(* key is offered last, a call that returns delivered what it was asked    *)
(* for, the image is flashed whole, a device that fails a push is heard,   *)
(* and no output is lost between the device, the threads and wait().       *)
(***************************************************************************)
EXTENDS ShellService, TLAPS

LEMMA TailFacts ==
  ASSUME NEW S, NEW s \in Seq(S), s # <<>>
  PROVE  /\ Tail(s) \in Seq(S) /\ Len(s) \in Nat \ {0} /\ Len(Tail(s)) = Len(s) - 1
         /\ Head(s) = s[1] /\ Head(s) \in S
         /\ \A i \in 1..Len(Tail(s)) : Tail(s)[i] = s[i + 1]
OBVIOUS

LEMMA AddFacts ==
  ASSUME NEW S, NEW s \in Seq(S), NEW e \in S
  PROVE  /\ s \o <<e>> \in Seq(S) /\ Len(s) \in Nat /\ Len(s \o <<e>>) = Len(s) + 1
         /\ (s \o <<e>>)[Len(s) + 1] = e
         /\ \A i \in 1..Len(s) : (s \o <<e>>)[i] = s[i]
OBVIOUS

---------------------------------------------------------------------------
(* Shell commands.                                                         *)

Shells ==
  [st : {"none", "running"}, async : BOOLEAN, wire : Seq({"WRTE", "OKAY", "CLSE"}),
   written : Nat, exited : BOOLEAN, owes : BOOLEAN, buffer : Nat, hand : Nat,
   stdout : Nat, expecting : BOOLEAN, closed : BOOLEAN,
   reader : {"reading", "storing", "done", "timeout"},
   writer : {"none", "idle", "waiting", "done"}, input : Nat,
   timer : {"none", "armed", "expired", "done"}, forced : BOOLEAN,
   waiter : {"none", "polling", "late", "returned"}, output : Nat]

Signals == {"WRTE", "OKAY", "CLSE"}
InFlight(wire) == IF \E i \in 1..Len(wire) : wire[i] = "WRTE" THEN 1 ELSE 0
Orderly(wire, exited) ==
  /\ \A i, j \in 1..Len(wire) : wire[i] = "WRTE" /\ wire[j] = "WRTE" => i = j
  /\ \A i \in 1..Len(wire) : wire[i] = "CLSE" => exited /\ i = Len(wire)

\* Every chunk is in one place, one at most on the wire, where CLSE is the last.
WireInv ==
  /\ Orderly(shell.wire, shell.exited)
  /\ shell.written = shell.stdout + shell.hand + shell.buffer + InFlight(shell.wire)

\* A stream that closed by itself has nothing more to give, and a reader that ended,
\* or was the one to see the end, has stored all it took.
ClosedInv ==
  /\ shell.hand # 0 => shell.reader = "storing"
  /\ shell.waiter = "returned" => shell.closed
  /\ ~shell.forced =>
       /\ shell.closed => shell.exited /\ shell.wire = <<>>
       /\ shell.closed /\ shell.writer = "none" => shell.buffer = 0 /\ shell.hand = 0
       /\ shell.reader = "done" => shell.closed /\ shell.buffer = 0
       /\ shell.waiter = "returned" /\ shell.writer = "none" => shell.output = shell.stdout

ShellInv == shell \in Shells /\ WireInv /\ ClosedInv


LEMMA OneLeaves ==
  ASSUME NEW wire \in Seq(Signals), NEW exited, wire # <<>>, Orderly(wire, exited)
  PROVE  /\ Orderly(Tail(wire), exited)
         /\ InFlight(wire) = InFlight(Tail(wire)) + (IF Head(wire) = "WRTE" THEN 1 ELSE 0)
         /\ Head(wire) = "CLSE" => exited /\ Tail(wire) = <<>>
<1> DEFINE t == Tail(wire)
<1>1. /\ t \in Seq(Signals) /\ Len(wire) \in Nat \ {0} /\ Len(t) = Len(wire) - 1
      /\ Head(wire) = wire[1] /\ \A i \in 1..Len(t) : t[i] = wire[i + 1]
  BY TailFacts
<1> HIDE DEF t
<1>2. Orderly(t, exited)
  <2>1. \A i \in 1..Len(t) : i + 1 \in 1..Len(wire)
    BY <1>1
  <2>2. ASSUME NEW i \in 1..Len(t), NEW j \in 1..Len(t), t[i] = "WRTE", t[j] = "WRTE"
        PROVE  i = j
    <3>1. i + 1 = j + 1
      BY <1>1, <2>1, <2>2 DEF Orderly
    <3>2. QED
      BY <3>1
  <2>3. ASSUME NEW i \in 1..Len(t), t[i] = "CLSE"
        PROVE  exited /\ i = Len(t)
    <3>1. exited /\ i + 1 = Len(wire)
      BY <1>1, <2>1, <2>3 DEF Orderly
    <3>2. QED
      BY <3>1, <1>1
  <2>4. QED
    BY <2>2, <2>3 DEF Orderly
<1>3. Head(wire) = "CLSE" => exited /\ t = <<>>
  <2>1. Head(wire) = "CLSE" => exited /\ 1 = Len(wire)
    BY <1>1 DEF Orderly
  <2>2. QED
    BY <2>1, <1>1
<1>4. CASE Head(wire) = "WRTE"
  <2>1. ASSUME NEW i \in 1..Len(t), t[i] = "WRTE"
        PROVE  FALSE
    <3>1. i + 1 \in 1..Len(wire) /\ wire[i + 1] = "WRTE" /\ wire[1] = "WRTE" /\ i + 1 # 1
      BY <1>1, <1>4, <2>1
    <3>2. QED
      BY <3>1, <1>1 DEF Orderly
  <2>2. InFlight(wire) = 1 /\ InFlight(t) = 0
    BY <2>1, <1>1, <1>4 DEF InFlight
  <2>3. QED
    BY <2>2, <1>2, <1>3, <1>4 DEF t
<1>5. CASE Head(wire) # "WRTE"
  <2>1. ASSUME NEW i \in 1..Len(wire), wire[i] = "WRTE"
        PROVE  \E j \in 1..Len(t) : t[j] = "WRTE"
    <3>1. i # 1 /\ i - 1 \in 1..Len(t) /\ t[i - 1] = wire[i]
      BY <2>1, <1>1, <1>5
    <3>2. QED
      BY <3>1, <2>1
  <2>2. ASSUME NEW j \in 1..Len(t), t[j] = "WRTE"
        PROVE  \E i \in 1..Len(wire) : wire[i] = "WRTE"
    BY <2>2, <1>1
  <2>3. InFlight(wire) = InFlight(t)
    BY <2>1, <2>2 DEF InFlight
  <2>4. InFlight(t) \in Nat
    BY DEF InFlight
  <2>5. QED
    BY <2>3, <2>4, <1>2, <1>3, <1>5 DEF t
<1>6. QED
  BY <1>4, <1>5

LEMMA OneComes ==
  ASSUME NEW wire \in Seq(Signals), Orderly(wire, FALSE), NEW m \in Signals,
         m = "WRTE" => \A i \in 1..Len(wire) : wire[i] # "WRTE"
  PROVE  /\ wire \o <<m>> \in Seq(Signals) /\ Orderly(wire \o <<m>>, m = "CLSE")
         /\ InFlight(wire \o <<m>>) = InFlight(wire) + (IF m = "WRTE" THEN 1 ELSE 0)
<1> DEFINE w == wire \o <<m>>
<1>1. /\ w \in Seq(Signals) /\ Len(wire) \in Nat /\ Len(w) = Len(wire) + 1
      /\ w[Len(wire) + 1] = m /\ \A i \in 1..Len(wire) : w[i] = wire[i]
  BY AddFacts
<1> HIDE DEF w
<1>2. Orderly(w, m = "CLSE")
  <2>1. \A i \in 1..Len(wire) : wire[i] # "CLSE"
    BY DEF Orderly
  <2>2. \A i \in 1..Len(w) : i \in 1..Len(wire) \/ i = Len(wire) + 1
    BY <1>1
  <2>3. ASSUME NEW i \in 1..Len(w), NEW j \in 1..Len(w), w[i] = "WRTE", w[j] = "WRTE"
        PROVE  i = j
    BY <2>2, <2>3, <1>1 DEF Orderly
  <2>4. ASSUME NEW i \in 1..Len(w), w[i] = "CLSE"
        PROVE  m = "CLSE" /\ i = Len(w)
    BY <2>1, <2>2, <2>4, <1>1
  <2>5. QED
    BY <2>3, <2>4 DEF Orderly
<1>3. CASE m = "WRTE"
  <2>1. InFlight(w) = 1 /\ InFlight(wire) = 0
    BY <1>1, <1>3 DEF InFlight
  <2>2. QED
    BY <2>1, <1>1, <1>2, <1>3 DEF w
<1>4. CASE m # "WRTE"
  <2>1. (\E i \in 1..Len(w) : w[i] = "WRTE") <=> \E i \in 1..Len(wire) : wire[i] = "WRTE"
    BY <1>1, <1>4
  <2>2. InFlight(w) = InFlight(wire) /\ InFlight(wire) \in Nat
    BY <2>1 DEF InFlight
  <2>3. QED
    BY <2>2, <1>1, <1>2, <1>4 DEF w
<1>5. QED
  BY <1>3, <1>4

LEMMA NoShellInv == NoShell \in Shells /\ (shell = NoShell => ShellInv)
<1>1. NoShell \in Shells
  BY DEF NoShell, Shells
<1>2. shell = NoShell => WireInv
  BY DEF NoShell, WireInv, Orderly, InFlight
<1>3. shell = NoShell => ClosedInv
  BY DEF NoShell, ClosedInv
<1>4. QED
  BY <1>1, <1>2, <1>3 DEF ShellInv

LEMMA ShellStep == ShellInv /\ [ShellNext]_shellVars => ShellInv'
<1> SUFFICES ASSUME ShellInv, [ShellNext]_shellVars PROVE ShellInv'
  OBVIOUS
<1>f. InFlight(shell.wire) \in Nat /\ shell \in Shells
  BY DEF InFlight, ShellInv
<1>1. CASE StartCommand
  <2>1. PICK timed \in BOOLEAN :
          shell' = [NoShell EXCEPT !.st = "running", !.timer = IF timed THEN "armed" ELSE "none"]
    BY <1>1 DEF StartCommand
  <2> DEFINE T == IF timed THEN "armed" ELSE "none"
  <2>2. T \in {"none", "armed"}
    BY ShellAssumption
  <2>3. shell' = [NoShell EXCEPT !.st = "running", !.timer = T]
    BY <2>1
  <2> HIDE DEF T
  <2>4. shell' \in Shells
    BY <2>2, <2>3, NoShellInv DEF Shells
  <2>5. WireInv'
    BY <2>3 DEF NoShell, WireInv, Orderly, InFlight
  <2>6. ClosedInv'
    BY <2>3 DEF NoShell, ClosedInv
  <2>7. QED
    BY <2>4, <2>5, <2>6 DEF ShellInv
<1>2. CASE StartAsyncCommand
  <2>1. PICK timed \in BOOLEAN, stdin \in 0..MaxInput :
          shell' = [NoShell EXCEPT !.st = "running", !.async = TRUE,
                       !.waiter = "polling", !.timer = IF timed THEN "armed" ELSE "none", 
                       !.writer = IF stdin > 0 THEN "idle" ELSE "none", !.input = stdin]
    BY <1>2 DEF StartAsyncCommand
  <2> DEFINE T == IF timed THEN "armed" ELSE "none"
             W == IF stdin > 0 THEN "idle" ELSE "none"
  <2>2. T \in {"none", "armed"} /\ W \in {"none", "idle"} /\ stdin \in Nat
    BY ShellAssumption
  <2>3. shell' = [NoShell EXCEPT !.st = "running", !.async = TRUE,
                       !.waiter = "polling", !.timer = T, !.writer = W, !.input = stdin]
    BY <2>1
  <2> HIDE DEF T, W
  <2>4. shell' \in Shells
    BY <2>2, <2>3, NoShellInv DEF Shells
  <2>5. WireInv'
    BY <2>3 DEF NoShell, WireInv, Orderly, InFlight
  <2>6. ClosedInv'
    BY <2>3 DEF NoShell, ClosedInv
  <2>7. QED
    BY <2>4, <2>5, <2>6 DEF ShellInv
<1>3. CASE RemoteCommand
  BY <1>3 DEF RemoteCommand, ShellInv, WireInv, ClosedInv
<1>4. CASE CommandEnds
  BY <1>4, NoShellInv DEF CommandEnds, ShellInv, WireInv, ClosedInv, NoShell, Shells, Orderly, InFlight
<1>5. CASE DeviceWrites
  <2>1. /\ shell.wire \in Seq(Signals) /\ shell.exited = FALSE
        /\ shell.wire \o <<"WRTE">> \in Seq(Signals)
        /\ Orderly(shell.wire \o <<"WRTE">>, FALSE)
        /\ InFlight(shell.wire \o <<"WRTE">>) = InFlight(shell.wire) + 1
    <3>1. shell.wire \in Seq(Signals) /\ shell.exited = FALSE /\ DOMAIN shell.wire = 1..Len(shell.wire)
      BY <1>f, <1>5 DEF DeviceWrites, Shells, Signals
    <3>2. Orderly(shell.wire, FALSE)
      BY <3>1 DEF ShellInv, WireInv
    <3>3. QED
      BY <3>1, <3>2, OneComes, <1>5 DEF Signals, DeviceWrites
  <2>2. shell' \in Shells
    <3> DEFINE n == shell.written + 1
    <3>1. n \in Nat
      BY <1>f DEF Shells
    <3>2. shell' = [shell EXCEPT !.written = n, !.wire = shell.wire \o <<"WRTE">>]
      BY <1>5 DEF DeviceWrites, Sends
    <3> HIDE DEF n
    <3>3. QED
      BY <3>1, <3>2, <2>1, <1>f DEF Shells, Signals
  <2>3. WireInv'
    <3>1. /\ shell'.wire = shell.wire \o <<"WRTE">> /\ shell'.exited = FALSE
          /\ shell'.stdout = shell.stdout /\ shell'.hand = shell.hand
          /\ shell'.buffer = shell.buffer /\ shell'.written = shell.written + 1
      BY <2>1, <1>f, <1>5 DEF DeviceWrites, Sends, Shells
    <3>2. Orderly(shell'.wire, shell'.exited)
      BY <3>1, <2>1, Zenon
    <3>3. shell'.written = shell'.stdout + shell'.hand + shell'.buffer + InFlight(shell'.wire)
      BY <3>1, <2>1, <1>f DEF ShellInv, WireInv, Shells
    <3>4. QED
      BY <3>2, <3>3 DEF WireInv
  <2>4. ClosedInv'
    BY <2>1, <1>f, <1>5 DEF DeviceWrites, Sends, ShellInv, ClosedInv, Shells
  <2>5. QED
    BY <2>2, <2>3, <2>4 DEF ShellInv
<1>6. CASE DeviceAcks
  <2>1. /\ shell.wire \in Seq(Signals) /\ shell.exited = FALSE
        /\ shell.wire \o <<"OKAY">> \in Seq(Signals)
        /\ Orderly(shell.wire \o <<"OKAY">>, FALSE)
        /\ InFlight(shell.wire \o <<"OKAY">>) = InFlight(shell.wire) + 0
    <3>1. shell.wire \in Seq(Signals) /\ shell.exited = FALSE /\ DOMAIN shell.wire = 1..Len(shell.wire)
      BY <1>f, <1>6 DEF DeviceAcks, Shells, Signals
    <3>2. Orderly(shell.wire, FALSE)
      BY <3>1 DEF ShellInv, WireInv
    <3>3. QED
      BY <3>1, <3>2, OneComes, <1>6 DEF Signals, DeviceAcks
  <2>2. shell' \in Shells
    BY <2>1, <1>f, <1>6 DEF DeviceAcks, Sends, Shells, Signals
  <2>3. WireInv'
    <3>1. /\ shell'.wire = shell.wire \o <<"OKAY">> /\ shell'.exited = FALSE
          /\ shell'.stdout = shell.stdout /\ shell'.hand = shell.hand
          /\ shell'.buffer = shell.buffer /\ shell'.written = shell.written + 0
      BY <2>1, <1>f, <1>6 DEF DeviceAcks, Sends, Shells
    <3>2. Orderly(shell'.wire, shell'.exited)
      BY <3>1, <2>1, Zenon
    <3>3. shell'.written = shell'.stdout + shell'.hand + shell'.buffer + InFlight(shell'.wire)
      BY <3>1, <2>1, <1>f DEF ShellInv, WireInv, Shells
    <3>4. QED
      BY <3>2, <3>3 DEF WireInv
  <2>4. ClosedInv'
    BY <2>1, <1>f, <1>6 DEF DeviceAcks, Sends, ShellInv, ClosedInv, Shells
  <2>5. QED
    BY <2>2, <2>3, <2>4 DEF ShellInv
<1>7. CASE DeviceExits
  <2>1. /\ shell.wire \in Seq(Signals) /\ shell.exited = FALSE
        /\ shell.wire \o <<"CLSE">> \in Seq(Signals)
        /\ Orderly(shell.wire \o <<"CLSE">>, TRUE)
        /\ InFlight(shell.wire \o <<"CLSE">>) = InFlight(shell.wire) + 0
    <3>1. shell.wire \in Seq(Signals) /\ shell.exited = FALSE /\ DOMAIN shell.wire = 1..Len(shell.wire)
      BY <1>f, <1>7 DEF DeviceExits, Shells, Signals
    <3>2. Orderly(shell.wire, FALSE)
      BY <3>1 DEF ShellInv, WireInv
    <3>3. QED
      BY <3>1, <3>2, OneComes, <1>7 DEF Signals, DeviceExits
  <2>2. shell' \in Shells
    BY <2>1, <1>f, <1>7 DEF DeviceExits, Sends, Shells, Signals
  <2>3. WireInv'
    <3>1. /\ shell'.wire = shell.wire \o <<"CLSE">> /\ shell'.exited = TRUE
          /\ shell'.stdout = shell.stdout /\ shell'.hand = shell.hand
          /\ shell'.buffer = shell.buffer /\ shell'.written = shell.written + 0
      BY <2>1, <1>f, <1>7 DEF DeviceExits, Sends, Shells
    <3>2. Orderly(shell'.wire, shell'.exited)
      BY <3>1, <2>1, Zenon
    <3>3. shell'.written = shell'.stdout + shell'.hand + shell'.buffer + InFlight(shell'.wire)
      BY <3>1, <2>1, <1>f DEF ShellInv, WireInv, Shells
    <3>4. QED
      BY <3>2, <3>3 DEF WireInv
  <2>4. ClosedInv'
    BY <2>1, <1>f, <1>7 DEF DeviceExits, Sends, ShellInv, ClosedInv, Shells
  <2>5. QED
    BY <2>2, <2>3, <2>4 DEF ShellInv
<1>8. ASSUME NEW thread \in {"reader", "writer"}, HandleMessage(thread) PROVE ShellInv'
  <2> DEFINE m == Head(shell.wire)
  <2>1. /\ shell.wire \in Seq(Signals) /\ shell.wire # <<>>
        /\ Tail(shell.wire) \in Seq(Signals) /\ m \in Signals
    <3>1. shell.wire \in Seq(Signals) /\ shell.wire # <<>>
      BY <1>f, <1>8 DEF HandleMessage, Shells, Signals
    <3>2. QED
      BY <3>1, TailFacts
  <2>2. /\ Orderly(Tail(shell.wire), shell.exited)
        /\ InFlight(shell.wire) = InFlight(Tail(shell.wire)) + (IF m = "WRTE" THEN 1 ELSE 0)
        /\ m = "CLSE" => shell.exited /\ Tail(shell.wire) = <<>>
    BY <2>1, OneLeaves DEF ShellInv, WireInv
  <2> HIDE DEF m
  <2>3. shell' = [shell EXCEPT !.wire = Tail(shell.wire),
                    !.buffer = IF m = "WRTE" THEN shell.buffer + 1 ELSE shell.buffer,
                    !.expecting = shell.expecting /\ m # "OKAY",
                    !.closed = shell.closed \/ m = "CLSE"]
    BY <1>8 DEF HandleMessage, m
  <2>4. shell' \in Shells
    <3> DEFINE b == IF m = "WRTE" THEN shell.buffer + 1 ELSE shell.buffer
               e == shell.expecting /\ m # "OKAY"
               c == shell.closed \/ m = "CLSE"
    <3>1. b \in Nat /\ Tail(shell.wire) \in Seq({"WRTE", "OKAY", "CLSE"})
      BY <1>f, <2>1 DEF Shells, Signals
    <3>2. e \in BOOLEAN /\ c \in BOOLEAN
      OBVIOUS
    <3> HIDE DEF b, e, c
    <3>3. shell' = [shell EXCEPT !.wire = Tail(shell.wire), !.buffer = b, !.expecting = e,
                                 !.closed = c]
      BY <2>3 DEF b, e, c
    <3>4. QED
      BY <3>1, <3>2, <3>3, <1>f DEF Shells
  <2>w. /\ shell'.wire = Tail(shell.wire)
        /\ shell'.buffer = IF m = "WRTE" THEN shell.buffer + 1 ELSE shell.buffer
        /\ shell'.exited = shell.exited /\ shell'.hand = shell.hand
        /\ shell'.stdout = shell.stdout /\ shell'.written = shell.written
        /\ shell'.reader = shell.reader /\ shell'.writer = shell.writer
        /\ shell'.waiter = shell.waiter /\ shell'.forced = shell.forced
        /\ shell'.output = shell.output /\ shell'.closed = (shell.closed \/ m = "CLSE")
        /\ shell.buffer \in Nat /\ shell.hand \in Nat /\ shell.stdout \in Nat
    BY <2>3, <1>f DEF Shells
  <2>5. WireInv'
    <3>1. InFlight(Tail(shell.wire)) \in Nat
      BY DEF InFlight
    <3>2. QED
      BY <2>2, <2>w, <3>1, <1>f DEF ShellInv, WireInv
  <2>6. ClosedInv'
    <3>1. CASE m = "CLSE"
      <4>1. shell.closed => shell.forced
        BY <1>8 DEF HandleMessage
      <4>2. thread = "reader" => shell.reader = "reading" /\ shell.buffer = 0
        BY <1>8 DEF HandleMessage, Needs
      <4>3. thread = "writer" => shell.writer = "waiting"
        BY <1>8 DEF HandleMessage, Needs
      <4>4. QED
        BY <2>2, <2>w, <3>1, <4>1, <4>2, <4>3 DEF ShellInv, ClosedInv
    <3>2. CASE m # "CLSE"
      <4>1. shell'.closed <=> shell.closed
        BY <3>2, <2>w
      <4>2. ~shell.forced => ~shell.closed
        BY <1>8 DEF HandleMessage
      <4>3. QED
        BY <2>w, <3>2, <4>1, <4>2 DEF ShellInv, ClosedInv
    <3>3. QED
      BY <3>1, <3>2
  <2>7. QED
    BY <2>4, <2>5, <2>6 DEF ShellInv
<1>9. CASE ReadsClosed
  <2>1. shell' \in Shells
    BY <1>f, <1>9 DEF ReadsClosed, Shells
  <2>2. WireInv'
    BY <1>f, <1>9 DEF ReadsClosed, ShellInv, WireInv, ClosedInv, Shells
  <2>3. ClosedInv'
    BY <1>f, <1>9 DEF ReadsClosed, Needs, ShellInv, WireInv, ClosedInv, Shells
  <2>4. QED
    BY <2>1, <2>2, <2>3 DEF ShellInv
<1>10. CASE WritesClosed
  <2>1. shell' \in Shells
    BY <1>f, <1>10 DEF WritesClosed, Shells
  <2>2. WireInv'
    BY <1>f, <1>10 DEF WritesClosed, ShellInv, WireInv, ClosedInv, Shells
  <2>3. ClosedInv'
    BY <1>f, <1>10 DEF WritesClosed, Needs, ShellInv, WireInv, ClosedInv, Shells
  <2>4. QED
    BY <2>1, <2>2, <2>3 DEF ShellInv
<1>11. CASE ReadsTooLate
  <2>1. shell' \in Shells
    BY <1>f, <1>11 DEF ReadsTooLate, Shells
  <2>2. WireInv'
    BY <1>f, <1>11 DEF ReadsTooLate, ShellInv, WireInv, ClosedInv, Shells
  <2>3. ClosedInv'
    BY <1>f, <1>11 DEF ReadsTooLate, Needs, ShellInv, WireInv, ClosedInv, Shells
  <2>4. QED
    BY <2>1, <2>2, <2>3 DEF ShellInv
<1>12. CASE Takes
  <2>1. shell' \in Shells
    BY <1>f, <1>12 DEF Takes, Shells
  <2>2. WireInv'
    BY <1>f, <1>12 DEF Takes, ShellInv, WireInv, ClosedInv, Shells
  <2>3. ClosedInv'
    BY <1>f, <1>12 DEF Takes, Needs, ShellInv, WireInv, ClosedInv, Shells
  <2>4. QED
    BY <2>1, <2>2, <2>3 DEF ShellInv
<1>13. CASE Stores
  <2>1. shell' \in Shells
    <3> DEFINE n == shell.stdout + shell.hand
    <3>1. n \in Nat
      BY <1>13, <1>f DEF Stores, Shells
    <3>2. shell' = [shell EXCEPT !.reader = "reading", !.hand = 0, !.stdout = n]
      BY <1>13 DEF Stores
    <3> HIDE DEF n
    <3>3. QED
      BY <3>1, <3>2, <1>f DEF Shells
  <2>2. WireInv'
    BY <1>f, <1>13 DEF Stores, ShellInv, WireInv, ClosedInv, Shells
  <2>3. ClosedInv'
    BY <1>f, <1>13 DEF Stores, Needs, ShellInv, WireInv, ClosedInv, Shells
  <2>4. QED
    BY <2>1, <2>2, <2>3 DEF ShellInv
<1>14. CASE Writes
  <2>1. shell' \in Shells
    <3> DEFINE n == shell.input - 1
    <3>1. n \in Nat
      BY <1>14, <1>f DEF Writes, Shells
    <3>2. shell' = [shell EXCEPT !.writer = "waiting", !.input = n, !.expecting = TRUE,
                                 !.owes = TRUE]
      BY <1>14 DEF Writes
    <3> HIDE DEF n
    <3>3. QED
      BY <3>1, <3>2, <1>f DEF Shells
  <2>2. WireInv'
    BY <1>f, <1>14 DEF Writes, ShellInv, WireInv, ClosedInv, Shells
  <2>3. ClosedInv'
    BY <1>f, <1>14 DEF Writes, Needs, ShellInv, WireInv, ClosedInv, Shells
  <2>4. QED
    BY <2>1, <2>2, <2>3 DEF ShellInv
<1>15. CASE Written
  <2>1. shell' \in Shells
    BY <1>f, <1>15 DEF Written, Shells
  <2>2. WireInv'
    BY <1>f, <1>15 DEF Written, ShellInv, WireInv, ClosedInv, Shells
  <2>3. ClosedInv'
    BY <1>f, <1>15 DEF Written, Needs, ShellInv, WireInv, ClosedInv, Shells
  <2>4. QED
    BY <2>1, <2>2, <2>3 DEF ShellInv
<1>16. CASE Expires
  <2>1. shell' \in Shells
    BY <1>f, <1>16 DEF Expires, Shells
  <2>2. WireInv'
    BY <1>f, <1>16 DEF Expires, ShellInv, WireInv, ClosedInv, Shells
  <2>3. ClosedInv'
    BY <1>f, <1>16 DEF Expires, Needs, ShellInv, WireInv, ClosedInv, Shells
  <2>4. QED
    BY <2>1, <2>2, <2>3 DEF ShellInv
<1>17. CASE DelayedClose
  <2>1. shell' \in Shells
    BY <1>f, <1>17 DEF DelayedClose, Shells
  <2>2. WireInv'
    BY <1>f, <1>17 DEF DelayedClose, ShellInv, WireInv, ClosedInv, Shells
  <2>3. ClosedInv'
    BY <1>f, <1>17 DEF DelayedClose, Needs, ShellInv, WireInv, ClosedInv, Shells
  <2>4. QED
    BY <2>1, <2>2, <2>3 DEF ShellInv
<1>18. CASE WaitReturns
  <2>1. shell' \in Shells
    BY <1>f, <1>18 DEF WaitReturns, Shells
  <2>2. WireInv'
    BY <1>f, <1>18 DEF WaitReturns, ShellInv, WireInv, ClosedInv, Shells
  <2>3. ClosedInv'
    BY <1>f, <1>18 DEF WaitReturns, Needs, ShellInv, WireInv, ClosedInv, Shells
  <2>4. QED
    BY <2>1, <2>2, <2>3 DEF ShellInv
<1>19. CASE WaitTimesOut
  <2>1. shell' \in Shells
    BY <1>f, <1>19 DEF WaitTimesOut, Shells
  <2>2. WireInv'
    BY <1>f, <1>19 DEF WaitTimesOut, ShellInv, WireInv, ClosedInv, Shells
  <2>3. ClosedInv'
    BY <1>f, <1>19 DEF WaitTimesOut, Needs, ShellInv, WireInv, ClosedInv, Shells
  <2>4. QED
    BY <2>1, <2>2, <2>3 DEF ShellInv
<1>20. CASE Close
  <2>1. shell' \in Shells
    BY <1>f, <1>20 DEF Close, Shells
  <2>2. WireInv'
    BY <1>f, <1>20 DEF Close, ShellInv, WireInv, ClosedInv, Shells
  <2>3. ClosedInv'
    BY <1>f, <1>20 DEF Close, Needs, ShellInv, WireInv, ClosedInv, Shells
  <2>4. QED
    BY <2>1, <2>2, <2>3 DEF ShellInv
<1>21. CASE UNCHANGED shell
  BY <1>21 DEF ShellInv, WireInv, ClosedInv
<1>22. QED
  BY <1>1, <1>2, <1>3, <1>4, <1>5, <1>6, <1>7, <1>8, <1>9, <1>10, <1>11, <1>12, <1>13,
     <1>14, <1>15, <1>16, <1>17, <1>18, <1>19, <1>20, <1>21 DEF ShellNext,
     SessionNext, ShellHost, Threads, Device, shellVars

LEMMA OutputIsComplete == ShellInv => OutputComplete
<1> SUFFICES ASSUME ShellInv, Running, ~shell.forced
             PROVE  /\ shell.reader = "done" => shell.stdout = shell.written
                    /\ shell.waiter = "returned" /\ shell.writer = "none"
                         => shell.output = shell.written
  BY DEF OutputComplete
<1>1. shell.closed => InFlight(shell.wire) = 0
  BY DEF ShellInv, ClosedInv, InFlight
<1>2. shell \in Shells /\ WireInv /\ ClosedInv
  BY DEF ShellInv
<1>3. QED
  BY <1>1, <1>2 DEF WireInv, ClosedInv, Shells

---------------------------------------------------------------------------
(* The handshake.                                                          *)

Tokens == {"CNXN", "AUTH", "AUTH_BAD", "OTHER"}
FirstKeys(n) == {keys[i] : i \in 1..n}

\* At most one message follows those that read_until drops, and when it is a token
\* the keys used so far were all refused.
KeyInv ==
  /\ keys \in {<<>>, Keys}
  /\ stage = "connect" =>
       /\ inbox \in Seq(Tokens) /\ key \in 0..Len(keys) /\ result = "none"
       /\ pc \in {"start", "read", "accept"}
       /\ pc = "start" => refused = {} /\ key = 0
       /\ pc = "read" =>
            /\ \A i \in 1..Len(inbox) : i < Len(inbox) => inbox[i] = "OTHER"
            /\ (\E i \in 1..Len(inbox) : inbox[i] \in {"AUTH", "AUTH_BAD"})
                 => refused = FirstKeys(key)
       /\ pc = "accept" => refused = FirstKeys(Len(keys))

LEMMA OneOf ==
  /\ \A S : \A s \in Seq(S) : Len(s) = 1 => s = <<Head(s)>> /\ Tail(s) = <<>>
  /\ \A S : \A m \in S : <<m>> \in Seq(S) /\ Append(<<>>, m) = <<m>>
  /\ \A m : Len(<<m>>) = 1 /\ <<m>>[1] = m
<1>1. ASSUME NEW S, NEW s \in Seq(S), Len(s) = 1
      PROVE  s = <<Head(s)>> /\ Tail(s) = <<>>
  <2>1. s # <<>>
    BY <1>1
  <2>2. Tail(s) \in Seq(S) /\ Len(Tail(s)) = 0
    BY <2>1, <1>1, TailFacts
  <2> DEFINE t == Tail(s)
  <2> HIDE DEF t
  <2>3. t = <<>>
    <3>1. t \in Seq(S) /\ Len(t) = 0
      BY <2>2 DEF t
    <3>2. QED
      BY <3>1
  <2>4. Head(s) = s[1] /\ DOMAIN s = {1}
    BY <2>1, <1>1
  <2>5. s = <<Head(s)>>
    <3> DEFINE o == <<Head(s)>>
    <3>1. o \in Seq(S) /\ Len(o) = 1 /\ o[1] = Head(s)
      BY <2>1
    <3> HIDE DEF o
    <3>2. s = o
      BY <3>1, <2>4, <1>1
    <3>3. QED
      BY <3>2 DEF o
  <2>6. QED
    BY <2>3, <2>5 DEF t
<1>2. ASSUME NEW S, NEW m \in S
      PROVE  <<m>> \in Seq(S) /\ Append(<<>>, m) = <<m>>
  OBVIOUS
<1>3. ASSUME NEW m
      PROVE  Len(<<m>>) = 1 /\ <<m>>[1] = m
  OBVIOUS
<1>4. QED
  BY <1>1, <1>2, <1>3

LEMMA StageSteps ==
  ASSUME Next, stage # "connect"
  PROVE  stage' # "connect" /\ keys' = keys
BY DEF Next, Host, Connecting, SendCnxn, IgnoreMessage, Connected, NoKeys, SignToken,
       OfferPublicKey, ConnectTimesOut, Syncing, StartCall, SendWrites, SendFindsClosed,
       ReadMessage, CutShort, Reboot, Flashing, SendDownload, AcceptInfo, AcceptData,
       WriteChunk, SendFlash, Flashed, BootFails, DeviceFails, DeviceCloses, Fails,
       connVars

LEMMA KeyInit == Init => KeyInv
BY UsbAssumption DEF Init, KeyInv, Tokens

\* A token is the last message.
LEMMA TokenIsLast ==
  ASSUME KeyInv, stage = "connect", pc = "read", IsAuth
  PROVE  /\ inbox = <<Head(inbox)>> /\ Tail(inbox) = <<>> /\ Head(inbox) \in Tokens
         /\ refused = FirstKeys(key) /\ key \in 0..Len(keys) /\ Len(keys) \in Nat
<1>1. inbox \in Seq(Tokens) /\ inbox # <<>> /\ Head(inbox) \in {"AUTH", "AUTH_BAD"}
  BY DEF KeyInv, IsAuth
<1>2. Len(inbox) \in Nat \ {0} /\ Head(inbox) = inbox[1]
  BY <1>1
<1>3. ~(1 < Len(inbox))
  BY <1>1, <1>2 DEF KeyInv
<1>4. refused = FirstKeys(key)
  BY <1>1, <1>2 DEF KeyInv
<1>5. key \in 0..Len(keys) /\ Len(keys) \in Nat
  BY UsbAssumption DEF KeyInv
<1>6. Len(inbox) = 1
  <2> DEFINE n == Len(inbox)
  <2>1. n \in Nat \ {0} /\ ~(1 < n)
    BY <1>2, <1>3
  <2> HIDE DEF n
  <2>2. n = 1
    BY <2>1
  <2>3. QED
    BY <2>2 DEF n
<1>7. inbox = <<Head(inbox)>> /\ Tail(inbox) = <<>>
  BY <1>1, <1>6, OneOf
<1>8. QED
  BY <1>1, <1>4, <1>5, <1>7 DEF Tokens

LEMMA KeyStep == KeyInv /\ Next => KeyInv'
<1> SUFFICES ASSUME KeyInv, Next PROVE KeyInv'
  OBVIOUS
<1>1. CASE stage # "connect"
  BY <1>1, StageSteps DEF KeyInv
<1> SUFFICES ASSUME stage = "connect" PROVE KeyInv'
  BY <1>1
<1> USE DEF connVars
<1>2. CASE SendCnxn
  <2>1. PICK m \in Tokens : inbox' \in {<<m>>, <<"OTHER", m>>}
    BY <1>2 DEF SendCnxn, Tokens
  <2>2. /\ inbox' \in Seq(Tokens)
        /\ \A i \in 1..Len(inbox') : i < Len(inbox') => inbox'[i] = "OTHER"
    <3>1. CASE inbox' = <<m>>
      BY <3>1, <2>1, OneOf
    <3>2. CASE inbox' = <<"OTHER", m>>
      <4>1. "OTHER" \in Tokens
        BY DEF Tokens
      <4>2. /\ <<"OTHER", m>> \in Seq(Tokens) /\ Len(<<"OTHER", m>>) = 2
            /\ <<"OTHER", m>>[1] = "OTHER"
        BY <4>1, <2>1
      <4>3. QED
        BY <3>2, <4>2
    <3>3. QED
      BY <2>1, <3>1, <3>2
  <2>3. refused = {} /\ key = 0 /\ FirstKeys(0) = {} /\ FirstKeys(0)' = {}
    BY <1>2 DEF SendCnxn, KeyInv, FirstKeys
  <2>4. QED
    BY <2>2, <2>3, <1>2 DEF SendCnxn, KeyInv
<1>3. CASE IgnoreMessage
  <2>1. /\ inbox \in Seq(Tokens) /\ inbox # <<>> /\ inbox' = Tail(inbox)
        /\ stage' = stage /\ pc' = pc /\ keys' = keys /\ key' = key /\ refused' = refused
        /\ result' = result
    BY <1>3 DEF IgnoreMessage, KeyInv
  <2>2. /\ inbox' \in Seq(Tokens) /\ Len(inbox') = Len(inbox) - 1 /\ Len(inbox) \in Nat
        /\ \A i \in 1..Len(inbox') : inbox'[i] = inbox[i + 1] /\ i + 1 \in 1..Len(inbox)
    <3>1. /\ Tail(inbox) \in Seq(Tokens) /\ Len(inbox) \in Nat \ {0}
          /\ Len(Tail(inbox)) = Len(inbox) - 1
          /\ \A i \in 1..Len(Tail(inbox)) : Tail(inbox)[i] = inbox[i + 1]
      BY <2>1, TailFacts
    <3>2. \A i \in 1..Len(Tail(inbox)) : i + 1 \in 1..Len(inbox)
      BY <3>1
    <3>3. QED
      BY <2>1, <3>1, <3>2
  <2>3. FirstKeys(key)' = FirstKeys(key) /\ FirstKeys(Len(keys))' = FirstKeys(Len(keys))
    BY <2>1 DEF FirstKeys
  <2>4. pc = "read" => \A i \in 1..Len(inbox') : i < Len(inbox') => inbox'[i] = "OTHER"
    <3> SUFFICES ASSUME pc = "read", NEW i \in 1..Len(inbox'), i < Len(inbox')
                 PROVE  inbox'[i] = "OTHER"
      OBVIOUS
    <3>1. i + 1 \in 1..Len(inbox) /\ i + 1 < Len(inbox) /\ inbox'[i] = inbox[i + 1]
      BY <2>2
    <3>2. QED
      BY <3>1 DEF KeyInv
  <2>5. pc = "read" /\ (\E i \in 1..Len(inbox') : inbox'[i] \in {"AUTH", "AUTH_BAD"})
          => refused = FirstKeys(key)
    BY <2>2 DEF KeyInv
  <2>6. QED
    BY <2>1, <2>2, <2>3, <2>4, <2>5 DEF KeyInv
<1>4. CASE Connected
  BY <1>4 DEF Connected, KeyInv
<1>5. CASE NoKeys
  BY <1>5 DEF NoKeys, Fails, KeyInv
<1>6. CASE SignToken
  <2>1. /\ Tail(inbox) = <<>> /\ refused = FirstKeys(key) /\ key < Len(keys)
        /\ key \in 0..Len(keys) /\ Len(keys) \in Nat
    BY <1>6, TokenIsLast DEF SignToken
  <2>2. CASE Head(inbox) = "AUTH_BAD"
    BY <1>6, <2>2 DEF SignToken, Fails, KeyInv
  <2>3. CASE Head(inbox) # "AUTH_BAD"
    <3>1. /\ key' = key + 1 /\ stage' = stage /\ pc' = pc /\ result' = result /\ keys' = keys
          /\ pc = "read"
          /\ \/ inbox' = <<"CNXN">> /\ refused' = refused
             \/ /\ inbox' \in {<<"AUTH">>, <<"AUTH_BAD">>}
                /\ refused' = refused \cup {keys[key + 1]}
      BY <1>6, <2>1, <2>3, OneOf DEF SignToken
    <3>2. FirstKeys(key)' = FirstKeys(key) \cup {keys[key + 1]}
      BY <2>1, <3>1 DEF FirstKeys
    <3>3. /\ inbox' \in Seq(Tokens) /\ key' \in 0..Len(keys')
          /\ \A i \in 1..Len(inbox') : i < Len(inbox') => inbox'[i] = "OTHER"
      <4>1. {"CNXN", "AUTH", "AUTH_BAD"} \subseteq Tokens
        BY DEF Tokens
      <4>2. PICK m \in Tokens : inbox' = <<m>>
        BY <3>1, <4>1
      <4>3. key' \in 0..Len(keys')
        BY <2>1, <3>1
      <4>4. QED
        BY <4>2, <4>3, OneOf
    <3>4. (\E i \in 1..Len(inbox') : inbox'[i] \in {"AUTH", "AUTH_BAD"})
            => refused' = FirstKeys(key)'
      <4>1. CASE inbox' = <<"CNXN">>
        BY <4>1, OneOf
      <4>2. CASE refused' = refused \cup {keys[key + 1]}
        BY <4>2, <2>1, <3>2
      <4>3. QED
        BY <3>1, <4>1, <4>2
    <3>5. QED
      BY <3>1, <3>3, <3>4 DEF KeyInv
  <2>4. QED
    BY <2>2, <2>3
<1>7. CASE OfferPublicKey
  <2>1. /\ Tail(inbox) = <<>> /\ refused = FirstKeys(key) /\ key = Len(keys)
    BY <1>7, TokenIsLast DEF OfferPublicKey
  <2>2. inbox' \in Seq(Tokens)
    <3>1. <<>> \in Seq(Tokens) /\ "CNXN" \in Tokens /\ "AUTH" \in Tokens
      BY DEF Tokens
    <3>2. inbox' \in {<<>>, <<"CNXN">>, <<"AUTH">>}
      BY <1>7, <2>1, <3>1, OneOf DEF OfferPublicKey
    <3>3. QED
      BY <3>1, <3>2, OneOf
  <2>3. /\ pc' = "accept" /\ refused' = refused /\ key' = key /\ keys' = keys
        /\ result' = result /\ stage' = stage
    BY <1>7 DEF OfferPublicKey
  <2>4. FirstKeys(Len(keys))' = FirstKeys(key)
    BY <2>1, <2>3 DEF FirstKeys
  <2>5. QED
    BY <2>1, <2>2, <2>3, <2>4 DEF KeyInv
<1>8. CASE ConnectTimesOut
  BY <1>8 DEF ConnectTimesOut, Fails, KeyInv
<1>9. QED
  BY <1>2, <1>3, <1>4, <1>5, <1>6, <1>7, <1>8
     DEF Next, Host, Connecting, Syncing, StartCall, SendWrites, SendFindsClosed,
         ReadMessage, CutShort, Reboot, Flashing, SendDownload, AcceptInfo, AcceptData,
         WriteChunk, SendFlash, Flashed, BootFails, DeviceFails, DeviceCloses

---------------------------------------------------------------------------
(* The image.                                                              *)

\* What was sent and what is left is the image, and it is flashed when nothing is.
BootInv ==
  /\ partition \in {None, Image}
  /\ stage = "fastboot" =>
       /\ pc \in {"download", "accept", "chunks", "verify", "flash"}
       /\ pc = "accept" => sent = 0
       /\ pc = "chunks" => length \in Nat /\ sent \in Nat /\ length + sent = Image
       /\ pc \in {"verify", "flash"} => sent = Image

LEMMA MinOfTwo ==
  ASSUME NEW a \in Int, NEW b \in Int
  PROVE  Min({a, b}) = IF a <= b THEN a ELSE b
<1>1. \E x \in {a, b} : \A y \in {a, b} : x <= y
  BY SMT
<1>2. /\ Min({a, b}) \in {a, b} /\ \A y \in {a, b} : Min({a, b}) <= y
  BY <1>1 DEF Min
<1>3. QED
  BY <1>2

LEMMA BootInit == Init => BootInv
BY DEF Init, BootInv

LEMMA BootStep == BootInv /\ Next => BootInv'
<1> SUFFICES ASSUME BootInv, Next PROVE BootInv'
  OBVIOUS
<1> USE UsbAssumption DEF BootInv, bootVars
<1>1. CASE SendDownload
  BY <1>1 DEF SendDownload
<1>2. CASE AcceptInfo
  BY <1>2 DEF AcceptInfo
<1>3. CASE AcceptData
  <2>1. PICK n \in {Image, Image + 1} :
          IF n # Image THEN Fails("transfer") /\ length' = length
          ELSE length' = n /\ pc' = "chunks" /\ stage' = stage
    BY <1>3 DEF AcceptData
  <2>2. sent' = sent /\ partition' = partition /\ sent = 0
    BY <1>3 DEF AcceptData
  <2>3. CASE n # Image
    BY <2>1, <2>2, <2>3 DEF Fails
  <2>4. CASE n = Image
    BY <2>1, <2>2, <2>4
  <2>5. QED
    BY <2>3, <2>4
<1>4. CASE WriteChunk
  <2>1. /\ pc = "chunks" /\ stage = "fastboot" /\ stage' = stage /\ partition' = partition
        /\ length \in Nat /\ sent \in Nat /\ length + sent = Image
    BY <1>4 DEF WriteChunk
  <2>2. CASE length # 0
    <3> DEFINE n == Min({ChunkSize, Image - sent})
    <3>1. n \in {ChunkSize, Image - sent} /\ n <= Image - sent
      <4>1. ChunkSize \in Int /\ Image - sent \in Int
        BY <2>1
      <4>2. n = IF ChunkSize <= Image - sent THEN ChunkSize ELSE Image - sent
        BY <4>1, MinOfTwo
      <4>3. QED
        BY <4>1, <4>2
    <3>2. length' = length - n /\ sent' = sent + n /\ pc' = pc
      BY <1>4, <2>2 DEF WriteChunk
    <3> HIDE DEF n
    <3>3. QED
      BY <3>1, <3>2, <2>1
  <2>3. CASE length = 0
    BY <1>4, <2>1, <2>3 DEF WriteChunk
  <2>4. QED
    BY <2>2, <2>3
<1>5. CASE SendFlash
  BY <1>5 DEF SendFlash
<1>6. CASE Flashed
  BY <1>6 DEF Flashed, Fails
<1>7. CASE BootFails
  BY <1>7 DEF BootFails, Fails
<1>8. CASE Connecting
  BY <1>8 DEF Connecting, SendCnxn, IgnoreMessage, Connected, NoKeys, SignToken,
              OfferPublicKey, ConnectTimesOut, Fails
<1>9. CASE Syncing \/ DeviceFails \/ DeviceCloses
  BY <1>9 DEF Syncing, StartCall, SendWrites, SendFindsClosed, ReadMessage, CutShort,
              Reboot, DeviceFails, DeviceCloses
<1>10. QED
  BY <1>1, <1>2, <1>3, <1>4, <1>5, <1>6, <1>7, <1>8, <1>9 DEF Next, Host, Flashing

---------------------------------------------------------------------------
(* Filesync transfers, as long as no call was cut short.                   *)

Chunks == {"x", "y"} \cup {Source[i] : i \in 1..Len(Source)}
Ops == {"stat", "list", "recv", "send"}
Fail == Msg("FAIL", "data", None)

\* The messages in box are the next ones of a listing or a file, xs, of which got is
\* the part that was read; the device may go away before the last.
Streaming(box, got, xs, cmd, format) ==
  /\ Len(got) <= Len(xs) /\ Len(box) <= Len(xs) - Len(got) + 1
  /\ \A i \in 1..Len(got) : got[i] = xs[i]
  /\ \A i \in 1..Len(box) :
       box[i] = IF Len(got) + i <= Len(xs) THEN Msg(cmd, format, xs[Len(got) + i])
                ELSE Msg("DONE", format, None)

ReadInv ==
  /\ call.op = "stat" => inbox \in {<<>>, <<Msg("STAT", "stat", call.file)>>}
  /\ call.op = "list" => Streaming(inbox, dest, Files, "DENT", "dent")
  /\ call.op = "recv" => IF fs[call.file] = None THEN inbox \in {<<>>, <<Fail>>}
                         ELSE Streaming(inbox, dest, fs[call.file], "DATA", "data")
  /\ call.op = "send" =>
       IF sync.failed THEN inbox = <<Fail>>
       ELSE /\ inbox \in {<<>>, <<Msg("OKAY", "data", None)>>}
            /\ fs[call.file] = Source

\* What the device has of the file, and what send() has still to write.
WriteInv ==
  /\ call.op = "send" /\ sync.file = call.file /\ sync.st \in {"receiving", "closed"}
  /\ sync.st = "closed" => sync.failed
  /\ inbox = IF sync.failed THEN <<Fail>> ELSE <<>>
  /\ Len(sync.data) + Len(left) = Len(Source)
  /\ \A i \in 1..Len(sync.data) : sync.data[i] = Source[i]
  /\ \A i \in 1..Len(left) : left[i] = Source[Len(sync.data) + i]

\* A call leaves nothing behind on a stream that is still open, and gave its caller
\* what it asked for or the device's failure.
IdleInv ==
  /\ sync.st # "closed" => inbox = <<>> /\ sync.st = "idle"
  /\ Returned("stat") => dest = <<call.file>>
  /\ Returned("list") => dest = Files
  /\ Returned("recv") => dest = fs[call.file]
  /\ Returned("send") => fs[call.file] = Source
  /\ FailureReported

Values == FileNames \cup Chunks \cup {None}
Commands == {"STAT", "DENT", "DATA", "DONE", "OKAY", "FAIL"}
Formats == {"stat", "dent", "data"}
Messages == [cmd : Commands, format : Formats, val : Values]

SyncType ==
  /\ clean \in BOOLEAN /\ misread \in BOOLEAN /\ left \in Seq(Chunks)
  /\ fs \in [FileNames -> Seq(Chunks) \cup {None}]
  /\ sync \in [st : {"idle", "receiving", "closed"}, file : FileNames \cup {None},
              data : Seq(Chunks), failed : BOOLEAN]

InStep ==
  /\ pc \in {"idle", "read", "write"} /\ misread = FALSE
  /\ pc # "idle" => call \in [op : Ops, file : FileNames]
  /\ pc = "idle" => IdleInv
  /\ pc = "write" => WriteInv /\ dest = <<>>
  /\ pc = "read" => /\ ReadInv /\ sync.st # "receiving"
                    /\ inbox \in Seq(Messages) /\ dest \in Seq(Values)

SyncInv == clean /\ stage = "sync" => InStep

\* A command begins on an idle session, before any filesync call.
IdleSession ==
  /\ calls \in Nat
  /\ stage \in {"connect", "sync"} /\ calls = 0 => sync = Idle /\ misread = FALSE
  /\ stage = "sync" /\ calls = 0 => pc = "idle"
  /\ stage = "connect" => calls = 0
  /\ Running => stage = "sync" /\ pc = "idle" /\ sync = Idle

LEMMA WiderSeq ==
  ASSUME NEW S, NEW T, S \subseteq T, NEW s \in Seq(S)
  PROVE  s \in Seq(T)
OBVIOUS

LEMMA SeqOfFcn ==
  ASSUME NEW S, NEW n \in Nat, NEW s \in [1..n -> S]
  PROVE  s \in Seq(S) /\ Len(s) = n
OBVIOUS

LEMMA PrefixFacts ==
  ASSUME NEW S, NEW s \in Seq(S), NEW k \in 0..Len(s)
  PROVE  /\ SubSeq(s, 1, k) \in Seq(S) /\ Len(s) \in Nat /\ Len(SubSeq(s, 1, k)) = k
         /\ \A i \in 1..k : SubSeq(s, 1, k)[i] = s[i] /\ i \in 1..Len(s)
OBVIOUS

LEMMA FileFacts ==
  /\ Files \in Seq(FileNames) /\ Files \in Seq(Values)
  /\ Source \in Seq(Chunks) /\ Len(Source) \in Nat /\ Len(Files) \in Nat
  /\ Chunks \subseteq Values /\ FileNames \subseteq Values /\ None \in Values
  /\ Fail \in Messages /\ <<"x", "y">> \in Seq(Chunks) /\ <<>> \in Seq(Chunks)
<1>1. Files \in Seq(FileNames) /\ Source \in Seq({Source[k] : k \in 1..Len(Source)})
  BY UsbAssumption
<1>2. /\ {Source[k] : k \in 1..Len(Source)} \subseteq Chunks /\ "x" \in Chunks /\ "y" \in Chunks
      /\ Chunks \subseteq Values /\ FileNames \subseteq Values /\ None \in Values
  BY DEF Chunks, Values
<1>3. Files \in Seq(Values)
  BY <1>1, <1>2, WiderSeq
<1>4. Source \in Seq(Chunks)
  BY <1>1, <1>2, WiderSeq
<1>5. Fail \in Messages
  BY <1>2 DEF Fail, Msg, Messages, Commands, Formats
<1>6. <<"x", "y">> \in Seq(Chunks) /\ <<>> \in Seq(Chunks)
  BY <1>2
<1>7. Len(Source) \in Nat /\ Len(Files) \in Nat
  BY <1>1
<1>8. QED
  BY <1>1, <1>2, <1>3, <1>4, <1>5, <1>6, <1>7

LEMMA MsgFacts ==
  ASSUME NEW c \in Commands, NEW f \in Formats, NEW v \in Values
  PROVE  /\ Msg(c, f, v) \in Messages /\ Msg(c, f, v).cmd = c /\ Msg(c, f, v).format = f
         /\ Msg(c, f, v).val = v
BY DEF Msg, Messages

\* What a listing or a file puts into an empty inbox.
LEMMA StreamStarts ==
  ASSUME NEW xs \in Seq(Values), NEW c \in Commands, NEW f \in Formats
  PROVE  LET box == [k \in 1..Len(xs) |-> Msg(c, f, xs[k])] \o <<Msg("DONE", f, None)>>
         IN  <<>> \o box \in Seq(Messages) /\ Streaming(<<>> \o box, <<>>, xs, c, f)
<1> DEFINE ms == [k \in 1..Len(xs) |-> Msg(c, f, xs[k])]
           last == Msg("DONE", f, None)
           box == ms \o <<last>>
           b == <<>> \o box
<1>1. Len(xs) \in Nat /\ \A k \in 1..Len(xs) : xs[k] \in Values
  OBVIOUS
<1>2. ms \in [1..Len(xs) -> Messages] /\ last \in Messages
  <2>1. "DONE" \in Commands /\ None \in Values
    BY FileFacts DEF Commands
  <2>2. QED
    BY <2>1, <1>1, MsgFacts
<1>3. ms \in Seq(Messages) /\ Len(ms) = Len(xs)
  BY <1>1, <1>2, SeqOfFcn
<1>4. \A k \in 1..Len(xs) : ms[k] = Msg(c, f, xs[k])
  OBVIOUS
<1> HIDE DEF ms, last
<1>5. /\ box \in Seq(Messages) /\ Len(box) = Len(xs) + 1 /\ box[Len(xs) + 1] = last
      /\ \A i \in 1..Len(xs) : box[i] = ms[i]
  BY <1>2, <1>3, AddFacts
<1> HIDE DEF box
<1>6. b = box
  BY <1>5
<1> HIDE DEF b
<1>7. Len(<<>>) = 0
  OBVIOUS
<1>8. \A i \in 1..Len(b) : b[i] = IF 0 + i <= Len(xs) THEN Msg(c, f, xs[0 + i])
                                  ELSE Msg("DONE", f, None)
  <2> SUFFICES ASSUME NEW i \in 1..Len(b)
               PROVE  b[i] = IF i <= Len(xs) THEN Msg(c, f, xs[i]) ELSE Msg("DONE", f, None)
    OBVIOUS
  <2>1. CASE i <= Len(xs)
    <3>1. i \in 1..Len(xs)
      BY <2>1, <1>1
    <3>2. QED
      BY <3>1, <2>1, <1>4, <1>5, <1>6
  <2>2. CASE ~(i <= Len(xs))
    <3>1. i = Len(xs) + 1
      BY <2>2, <1>1, <1>5, <1>6
    <3>2. QED
      BY <3>1, <2>2, <1>5, <1>6 DEF last
  <2>3. QED
    BY <2>1, <2>2
<1>9. Streaming(b, <<>>, xs, c, f)
  BY <1>1, <1>5, <1>6, <1>7, <1>8 DEF Streaming
<1>10. QED
  BY <1>5, <1>6, <1>9 DEF b, box, ms, last

\* Reading a stream: its next element, or the end of it when all was read.
LEMMA StreamGoesOn ==
  ASSUME NEW xs \in Seq(Values), NEW got \in Seq(Values), NEW box \in Seq(Messages),
         NEW c \in Commands, NEW f \in Formats, c # "DONE", box # <<>>,
         Streaming(box, got, xs, c, f)
  PROVE  /\ Tail(box) \in Seq(Messages) /\ Head(box).format = f
         /\ \/ /\ Head(box).cmd = c /\ Append(got, Head(box).val) \in Seq(Values)
               /\ Streaming(Tail(box), Append(got, Head(box).val), xs, c, f)
            \/ Head(box).cmd = "DONE" /\ Tail(box) = <<>> /\ got = xs
<1> DEFINE t == Tail(box)  n == Len(got)  h == Head(box)
<1>1. /\ t \in Seq(Messages) /\ Len(box) \in Nat \ {0} /\ Len(t) = Len(box) - 1
      /\ h = box[1] /\ h \in Messages /\ \A i \in 1..Len(t) : t[i] = box[i + 1]
  BY TailFacts
<1>2. /\ n \in Nat /\ Len(xs) \in Nat /\ n <= Len(xs) /\ Len(box) <= Len(xs) - n + 1
      /\ \A i \in 1..n : got[i] = xs[i]
  BY DEF Streaming
<1>3. h = IF n + 1 <= Len(xs) THEN Msg(c, f, xs[n + 1]) ELSE Msg("DONE", f, None)
  BY <1>1 DEF Streaming
<1>4. \A i \in 1..Len(t) : t[i] = IF n + (i + 1) <= Len(xs) THEN Msg(c, f, xs[n + (i + 1)])
                                  ELSE Msg("DONE", f, None)
  <2> SUFFICES ASSUME NEW i \in 1..Len(t)
               PROVE  t[i] = IF n + (i + 1) <= Len(xs) THEN Msg(c, f, xs[n + (i + 1)])
                             ELSE Msg("DONE", f, None)
    OBVIOUS
  <2>1. i + 1 \in 1..Len(box) /\ t[i] = box[i + 1]
    BY <1>1
  <2>2. QED
    BY <2>1 DEF Streaming
<1> HIDE DEF t, h
<1>5. CASE n + 1 <= Len(xs)
  <2> DEFINE v == xs[n + 1]  g == Append(got, v)
  <2>1. v \in Values /\ n + 1 \in 1..Len(xs)
    BY <1>2, <1>5
  <2>2. h.cmd = c /\ h.format = f /\ h.val = v
    BY <1>3, <1>5, <2>1, MsgFacts
  <2> HIDE DEF v
  <2>3. /\ g \in Seq(Values) /\ Len(g) = n + 1 /\ g[n + 1] = v
        /\ \A i \in 1..n : g[i] = got[i]
    BY <2>1
  <2> HIDE DEF g, n
  <2>4. \A i \in 1..Len(g) : g[i] = xs[i]
    <3> SUFFICES ASSUME NEW i \in 1..Len(g) PROVE g[i] = xs[i]
      OBVIOUS
    <3>1. CASE i = n + 1
      BY <3>1, <2>3 DEF v
    <3>2. CASE i # n + 1
      <4>1. i \in 1..n
        BY <3>2, <2>3, <1>2
      <4>2. QED
        BY <4>1, <2>3, <1>2
    <3>3. QED
      BY <3>1, <3>2
  <2>5. \A i \in 1..Len(t) :
          t[i] = IF Len(g) + i <= Len(xs) THEN Msg(c, f, xs[Len(g) + i])
                 ELSE Msg("DONE", f, None)
    <3> SUFFICES ASSUME NEW i \in 1..Len(t)
                 PROVE  t[i] = IF Len(g) + i <= Len(xs) THEN Msg(c, f, xs[Len(g) + i])
                               ELSE Msg("DONE", f, None)
      OBVIOUS
    <3>1. Len(g) + i = n + (i + 1)
      BY <2>3, <1>1, <1>2
    <3>2. QED
      BY <3>1, <1>4
  <2>6. Len(g) <= Len(xs) /\ Len(t) <= Len(xs) - Len(g) + 1
    BY <2>3, <1>1, <1>2, <1>5
  <2>7. Streaming(t, g, xs, c, f)
    BY <2>4, <2>5, <2>6 DEF Streaming
  <2>8. QED
    BY <2>2, <2>3, <2>7, <1>1 DEF t, h, g
<1>6. CASE ~(n + 1 <= Len(xs))
  <2>1. n = Len(xs) /\ Len(t) = 0
    BY <1>1, <1>2, <1>6
  <2>2. h.cmd = "DONE" /\ h.format = f
    <3>1. "DONE" \in Commands /\ None \in Values
      BY FileFacts DEF Commands
    <3>2. QED
      BY <3>1, <1>3, <1>6, MsgFacts
  <2>3. t = <<>>
    BY <1>1, <2>1
  <2>4. got = xs
    BY <2>1, <1>2
  <2>5. QED
    BY <2>2, <2>3, <2>4, <1>1 DEF t, h
<1>7. QED
  BY <1>5, <1>6

\* The device goes away: a part of what it sent can be read.
LEMMA StreamBreaks ==
  ASSUME NEW xs \in Seq(Values), NEW got \in Seq(Values), NEW box \in Seq(Messages),
         NEW c, NEW f, NEW k \in 0..Len(box), Streaming(box, got, xs, c, f)
  PROVE  Streaming(SubSeq(box, 1, k), got, xs, c, f)
<1> DEFINE b == SubSeq(box, 1, k)
<1>1. Len(box) \in Nat /\ Len(b) = k /\ \A i \in 1..k : b[i] = box[i] /\ i \in 1..Len(box)
  BY PrefixFacts
<1> HIDE DEF b
<1>2. Len(b) <= Len(xs) - Len(got) + 1
  BY <1>1 DEF Streaming
<1>3. QED
  BY <1>1, <1>2 DEF Streaming, b

LEMMA IdleFacts == Idle.st = "idle" /\ Idle.failed = FALSE /\ Idle.data = <<>>
BY DEF Idle

LEMMA SyncTypeInit == Init => SyncType
<1> SUFFICES ASSUME Init PROVE SyncType
  OBVIOUS
<1>1. fs \in [FileNames -> Seq(Chunks) \cup {None}]
  BY FileFacts DEF Init
<1>2. left \in Seq(Chunks) /\ clean \in BOOLEAN /\ misread \in BOOLEAN
  BY FileFacts DEF Init
<1>3. QED
  BY <1>1, <1>2, FileFacts DEF Init, SyncType, Idle

LEMMA SyncTypeStep == SyncType /\ Next => SyncType'
<1> SUFFICES ASSUME SyncType, Next PROVE SyncType'
  OBVIOUS
<1> USE DEF syncVars
<1>1. CASE StartCall
  <2>1. /\ clean' = clean /\ misread' = misread /\ fs' = fs
        /\ left' \in {Source, <<>>}
        /\ \/ sync' = [sync EXCEPT !.st = "closed"]
           \/ sync' = Idle
           \/ \E f \in FileNames : sync' = [Idle EXCEPT !.st = "receiving", !.file = f]
    BY <1>1 DEF StartCall
  <2>2. Idle \in [st : {"idle", "receiving", "closed"}, file : FileNames \cup {None},
                  data : Seq(Chunks), failed : BOOLEAN]
    BY FileFacts DEF Idle
  <2>3. sync' \in [st : {"idle", "receiving", "closed"}, file : FileNames \cup {None},
                   data : Seq(Chunks), failed : BOOLEAN]
    BY <2>1, <2>2 DEF SyncType
  <2>4. QED
    BY <2>1, <2>3, FileFacts DEF SyncType
<1>2. CASE SendWrites
  <2>1. CASE left # <<>>
    <3>1. Tail(left) \in Seq(Chunks) /\ Head(left) \in Chunks
      BY <2>1, TailFacts DEF SyncType
    <3> DEFINE d == Append(sync.data, Head(left))
    <3>2. d \in Seq(Chunks)
      BY <3>1 DEF SyncType
    <3>3. /\ left' = Tail(left) /\ sync' = [sync EXCEPT !.data = d] /\ fs' = fs
          /\ clean' = clean /\ misread' = misread
      BY <1>2, <2>1 DEF SendWrites
    <3> HIDE DEF d
    <3>4. QED
      BY <3>1, <3>2, <3>3 DEF SyncType
  <2>2. CASE left = <<>>
    <3>1. /\ left' = left /\ sync' = [sync EXCEPT !.st = "idle"]
          /\ clean' = clean /\ misread' = misread
          /\ fs' = fs \/ fs' = [fs EXCEPT ![sync.file] = sync.data]
      BY <1>2, <2>2 DEF SendWrites
    <3>2. fs' \in [FileNames -> Seq(Chunks) \cup {None}]
      BY <3>1 DEF SyncType
    <3>3. QED
      BY <3>1, <3>2 DEF SyncType
  <2>3. QED
    BY <2>1, <2>2
<1>3. CASE SendFindsClosed
  <2>1. clean' \in BOOLEAN /\ misread' = misread /\ left' = left /\ fs' = fs /\ sync' = sync
    BY <1>3 DEF SendFindsClosed, CallEnds
  <2>2. QED
    BY <2>1 DEF SyncType
<1>4. CASE ReadMessage
  <2>1. left' = left /\ fs' = fs /\ sync' = sync
    BY <1>4 DEF ReadMessage
  <2>2. clean' \in BOOLEAN
    BY <1>4 DEF ReadMessage, CallEnds, SyncType
  <2>3. misread' \in BOOLEAN
    BY <1>4 DEF ReadMessage
  <2>4. QED
    BY <2>1, <2>2, <2>3 DEF SyncType
<1>5. CASE CutShort
  <2>1. clean' \in BOOLEAN /\ misread' = misread /\ left' = left /\ fs' = fs /\ sync' = sync
    BY <1>5 DEF CutShort, CallEnds
  <2>2. QED
    BY <2>1 DEF SyncType
<1>6. CASE DeviceFails
  BY <1>6 DEF DeviceFails, SyncType
<1>7. CASE DeviceCloses
  BY <1>7 DEF DeviceCloses, SyncType
<1>8. CASE UNCHANGED syncVars
  BY <1>8 DEF SyncType
<1>9. CASE Connecting \/ Flashing \/ Reboot
  BY <1>8, <1>9 DEF Connecting, SendCnxn, IgnoreMessage, Connected, NoKeys, SignToken,
       OfferPublicKey, ConnectTimesOut, Reboot, Flashing, SendDownload, AcceptInfo,
       AcceptData, WriteChunk, SendFlash, Flashed, BootFails
<1>10. QED
  BY <1>1, <1>2, <1>3, <1>4, <1>5, <1>6, <1>7, <1>9 DEF Next, Host, Syncing

\* A stream that was cut short stays so.
LEMMA CleanStep ==
  ASSUME SyncType, Next, clean' PROVE clean
<1>1. CASE ReadMessage
  BY <1>1 DEF ReadMessage, CallEnds
<1>2. CASE CutShort
  BY <1>2 DEF CutShort, CallEnds
<1>3. CASE SendFindsClosed
  BY <1>3 DEF SendFindsClosed, CallEnds
<1>4. QED
  BY <1>1, <1>2, <1>3 DEF syncVars, Next, Host, Connecting, SendCnxn, IgnoreMessage,
       Connected, NoKeys, SignToken, OfferPublicKey, ConnectTimesOut, Syncing, StartCall,
       SendWrites, Reboot, Flashing, SendDownload, AcceptInfo, AcceptData, WriteChunk,
       SendFlash, Flashed, BootFails, DeviceFails, DeviceCloses

LEMMA IdleSessionStep == IdleSession /\ [ShellNext]_shellVars => IdleSession'
<1> SUFFICES ASSUME IdleSession, [ShellNext]_shellVars PROVE IdleSession'
  OBVIOUS
<1> USE UsbAssumption DEF IdleSession, Session
<1>1. CASE StartCommand \/ StartAsyncCommand
  BY <1>1 DEF StartCommand, StartAsyncCommand, Idling
<1>2. CASE RemoteCommand
  BY <1>2 DEF RemoteCommand, Idling, Running
<1>3. CASE CommandEnds
  BY <1>3 DEF CommandEnds, Running, NoShell
<1>4. CASE UNCHANGED vars /\ Running
  BY <1>4 DEF vars
<1>5. CASE SessionNext
  <2>1. ~Running' /\ Next
    BY <1>5 DEF SessionNext, Running
  <2>2. CASE StartCall
    BY <2>1, <2>2 DEF StartCall, connVars
  <2>3. CASE Connecting
    BY <2>1, <2>3 DEF Connecting, SendCnxn, IgnoreMessage, Connected, NoKeys, SignToken,
         OfferPublicKey, ConnectTimesOut, Fails, syncVars
  <2>4. CASE Flashing \/ Reboot
    BY <2>1, <2>4 DEF Reboot, Flashing, SendDownload, AcceptInfo, AcceptData, WriteChunk,
         SendFlash, Flashed, BootFails, Fails, syncVars
  <2>5. CASE SendWrites \/ SendFindsClosed \/ ReadMessage \/ CutShort
    BY <2>1, <2>5 DEF SendWrites, SendFindsClosed, ReadMessage, CutShort, CallEnds
  <2>6. CASE DeviceFails \/ DeviceCloses
    BY <2>1, <2>6, IdleFacts DEF DeviceFails, DeviceCloses
  <2>7. QED
    BY <2>1, <2>2, <2>3, <2>4, <2>5, <2>6 DEF Next, Host, Syncing
<1>6. CASE UNCHANGED shellVars
  BY <1>6 DEF shellVars, vars, Running
<1>7. QED
  BY <1>1, <1>2, <1>3, <1>4, <1>5, <1>6
     DEF ShellNext, ShellHost, Device, DeviceWrites, DeviceAcks, DeviceExits

\* The inbox of a call that has just sent its request.
LEMMA FirstReply ==
  ASSUME SyncType, NEW op \in {"stat", "list", "recv"}, NEW f \in FileNames
  PROVE  LET box == <<>> \o Reply(op, f) IN
         /\ box \in Seq(Messages)
         /\ op = "stat" => box = <<Msg("STAT", "stat", f)>>
         /\ op = "list" => Streaming(box, <<>>, Files, "DENT", "dent")
         /\ op = "recv" => IF fs[f] = None THEN box = <<Fail>>
                           ELSE Streaming(box, <<>>, fs[f], "DATA", "data")
<1>1. CASE op = "stat"
  <2> DEFINE m == Msg("STAT", "stat", f)
  <2>1. m \in Messages
    BY MsgFacts, FileFacts DEF Commands, Formats
  <2>2. Reply(op, f) = <<m>>
    BY <1>1 DEF Reply
  <2> HIDE DEF m
  <2>3. <<>> \o <<m>> = <<m>> /\ <<m>> \in Seq(Messages)
    BY <2>1, OneOf
  <2>4. QED
    BY <2>2, <2>3, <1>1 DEF m
<1>2. CASE op = "list"
  <2>1. Reply(op, f) = [k \in 1..Len(Files) |-> Msg("DENT", "dent", Files[k])]
                         \o <<Msg("DONE", "dent", None)>>
    BY <1>2 DEF Reply
  <2>2. QED
    BY <2>1, <1>2, StreamStarts, FileFacts DEF Commands, Formats
<1>3. CASE op = "recv" /\ fs[f] = None
  <2>1. Reply(op, f) = <<Fail>>
    BY <1>3 DEF Reply, Fail
  <2>2. <<>> \o <<Fail>> = <<Fail>> /\ <<Fail>> \in Seq(Messages)
    BY FileFacts, OneOf
  <2>3. QED
    BY <2>1, <2>2, <1>3
<1>4. CASE op = "recv" /\ fs[f] # None
  <2>1. fs[f] \in Seq(Values)
    <3>1. fs[f] \in Seq(Chunks)
      BY <1>4 DEF SyncType
    <3>2. QED
      BY <3>1, FileFacts, WiderSeq
  <2>2. Reply(op, f) = [k \in 1..Len(fs[f]) |-> Msg("DATA", "data", fs[f][k])]
                         \o <<Msg("DONE", "data", None)>>
    BY <1>4 DEF Reply
  <2>3. QED
    BY <2>1, <2>2, <1>4, StreamStarts DEF Commands, Formats
<1>5. QED
  BY <1>1, <1>2, <1>3, <1>4

LEMMA StartInStep ==
  ASSUME SyncType, SyncInv, StartCall, clean', stage' = "sync"
  PROVE  InStep'
<1>1. clean' = clean /\ stage = "sync" /\ misread' = misread /\ fs' = fs
  BY DEF StartCall
<1>2. inbox = <<>> /\ sync.st = "idle" /\ misread = FALSE
  BY <1>1 DEF StartCall, SyncInv, InStep, IdleInv
<1>3. PICK op \in Ops, f \in FileNames :
        /\ call' = [op |-> op, file |-> f] /\ dest' = <<>>
        /\ inbox' = <<>> \o Reply(op, f)
        /\ pc' = IF op = "send" THEN "write" ELSE "read"
        /\ left' = IF op = "send" THEN Source ELSE <<>>
        /\ sync' = IF op = "send" THEN [Idle EXCEPT !.st = "receiving", !.file = f] ELSE Idle
  BY <1>2 DEF StartCall, Ops
<1>4. call'.op = op /\ call'.file = f /\ call' \in [op : Ops, file : FileNames]
  BY <1>3
<1>5. CASE op = "send"
  <2>1. Reply(op, f) = <<>>
    BY <1>5 DEF Reply
  <2>2. inbox' = <<>>
    BY <2>1, <1>3
  <2>3. /\ sync'.st = "receiving" /\ sync'.file = f /\ sync'.data = <<>>
        /\ sync'.failed = FALSE /\ left' = Source /\ pc' = "write"
    BY <1>3, <1>5 DEF Idle
  <2>4. Len(<<>>) = 0 /\ Len(Source) \in Nat
    BY FileFacts
  <2>5. WriteInv'
    BY <2>2, <2>3, <2>4, <1>4, <1>5 DEF WriteInv
  <2>6. QED
    BY <2>3, <2>5, <1>1, <1>2, <1>3, <1>4 DEF InStep
<1>6. CASE op # "send"
  <2>1. pc' = "read" /\ sync' = Idle /\ op \in {"stat", "list", "recv"}
    BY <1>3, <1>6 DEF Ops
  <2>2. /\ inbox' \in Seq(Messages)
        /\ op = "stat" => inbox' = <<Msg("STAT", "stat", f)>>
        /\ op = "list" => Streaming(inbox', dest', Files, "DENT", "dent")
        /\ op = "recv" => IF fs[f] = None THEN inbox' = <<Fail>>
                          ELSE Streaming(inbox', dest', fs[f], "DATA", "data")
    BY <2>1, <1>3, FirstReply
  <2>3. ReadInv'
    BY <2>2, <1>1, <1>4, <1>6 DEF ReadInv, Fail
  <2>4. dest' \in Seq(Values)
    BY <1>3
  <2>5. QED
    BY <2>1, <2>2, <2>3, <2>4, <1>1, <1>2, <1>4, IdleFacts DEF InStep
<1>7. QED
  BY <1>5, <1>6

LEMMA WriteInStep ==
  ASSUME SyncType, SyncInv, SendWrites, clean', stage' = "sync"
  PROVE  InStep'
<1>1. /\ clean' = clean /\ stage = "sync" /\ misread' = misread /\ pc = "write"
      /\ call' = call /\ dest' = dest /\ sync.st = "receiving"
  BY DEF SendWrites
<1>2. /\ WriteInv /\ misread = FALSE /\ call \in [op : Ops, file : FileNames] /\ dest = <<>>
  BY <1>1 DEF SyncInv, InStep
<1>3. sync.data \in Seq(Chunks) /\ left \in Seq(Chunks) /\ Len(Source) \in Nat
  BY FileFacts DEF SyncType
<1>4. CASE left # <<>>
  <2> DEFINE d == Append(sync.data, Head(left))  t == Tail(left)  n == Len(sync.data)
  <2>1. /\ t \in Seq(Chunks) /\ Len(left) \in Nat \ {0} /\ Len(t) = Len(left) - 1
        /\ Head(left) = left[1] /\ Head(left) \in Chunks
        /\ \A i \in 1..Len(t) : t[i] = left[i + 1]
    BY <1>3, <1>4, TailFacts
  <2>2. /\ d \in Seq(Chunks) /\ n \in Nat /\ Len(d) = n + 1 /\ d[n + 1] = Head(left)
        /\ \A i \in 1..n : d[i] = sync.data[i]
    BY <2>1, <1>3
  <2>3. /\ left' = t /\ sync' = [sync EXCEPT !.data = d] /\ inbox' = inbox /\ pc' = pc
        /\ fs' = fs
    BY <1>4 DEF SendWrites
  <2>4. /\ n + Len(left) = Len(Source) /\ \A i \in 1..n : sync.data[i] = Source[i]
        /\ \A i \in 1..Len(left) : left[i] = Source[n + i]
    BY <1>2 DEF WriteInv
  <2> HIDE DEF d, t, n
  <2>5. /\ sync'.data = d /\ sync'.st = sync.st /\ sync'.file = sync.file
        /\ sync'.failed = sync.failed
    BY <2>3 DEF SyncType
  <2>6. Len(d) + Len(t) = Len(Source)
    <3>1. \A a, b \in Nat : (a + 1) + (b - 1) = a + b
      OBVIOUS
    <3>2. n \in Nat /\ Len(left) \in Nat /\ Len(d) = n + 1 /\ Len(t) = Len(left) - 1
      BY <2>1, <2>2
    <3>3. Len(d) + Len(t) = (n + 1) + (Len(left) - 1)
      BY <3>2
    <3>4. Len(d) + Len(t) = n + Len(left)
      BY <3>1, <3>2, <3>3, Zenon
    <3>5. QED
      BY <3>4, <2>4
  <2>7. \A i \in 1..Len(d) : d[i] = Source[i]
    <3> SUFFICES ASSUME NEW i \in 1..Len(d) PROVE d[i] = Source[i]
      OBVIOUS
    <3>1. CASE i = n + 1
      <4>1. left[1] = Source[n + 1]
        BY <2>1, <2>4
      <4>2. QED
        BY <4>1, <3>1, <2>1, <2>2
    <3>2. CASE i # n + 1
      <4>1. i \in 1..n
        BY <3>2, <2>2
      <4>2. QED
        BY <4>1, <2>2, <2>4
    <3>3. QED
      BY <3>1, <3>2
  <2>8. \A i \in 1..Len(t) : t[i] = Source[Len(d) + i]
    <3> SUFFICES ASSUME NEW i \in 1..Len(t) PROVE t[i] = Source[Len(d) + i]
      OBVIOUS
    <3>1. i + 1 \in 1..Len(left) /\ n + (i + 1) = Len(d) + i
      BY <2>1, <2>2
    <3>2. QED
      BY <3>1, <2>1, <2>4
  <2>9. WriteInv'
    BY <2>3, <2>5, <2>6, <2>7, <2>8, <1>1, <1>2 DEF WriteInv
  <2>10. QED
    BY <2>3, <2>9, <1>1, <1>2 DEF InStep
<1>5. CASE left = <<>>
  <2>1. /\ pc' = "read" /\ sync' = [sync EXCEPT !.st = "idle"]
        /\ fs' = IF sync.failed THEN fs ELSE [fs EXCEPT ![sync.file] = sync.data]
        /\ inbox' = IF sync.failed THEN inbox ELSE Append(inbox, Msg("OKAY", "data", None))
    BY <1>5 DEF SendWrites
  <2>2. sync'.st = "idle" /\ sync'.failed = sync.failed
    BY <2>1 DEF SyncType
  <2>3. sync.data = Source
    <3>1. Len(left) = 0 /\ Len(sync.data) \in Nat /\ Source \in Seq(Chunks)
      BY <1>3, <1>5, FileFacts
    <3>2. Len(sync.data) = Len(Source) /\ \A i \in 1..Len(sync.data) : sync.data[i] = Source[i]
      BY <3>1, <1>2, <1>3 DEF WriteInv
    <3>3. QED
      BY <3>1, <3>2, <1>3
  <2>4. call.op = "send" /\ sync.file = call.file /\ call.file \in FileNames
    BY <1>2 DEF WriteInv
  <2> DEFINE okay == Msg("OKAY", "data", None)
  <2>5. okay \in Messages
    BY MsgFacts, FileFacts DEF Commands, Formats
  <2>6. CASE sync.failed
    <3>1. inbox' = <<Fail>> /\ inbox' \in Seq(Messages)
      BY <2>1, <2>6, <1>2, OneOf, FileFacts DEF WriteInv
    <3>2. ReadInv'
      BY <3>1, <2>2, <2>4, <2>6, <1>1 DEF ReadInv, Fail
    <3>3. QED
      BY <3>1, <3>2, <2>1, <2>2, <1>1, <1>2 DEF InStep
  <2>7. CASE ~sync.failed
    <3>1. inbox' = <<okay>> /\ inbox' \in Seq(Messages)
      <4> HIDE DEF okay
      <4>1. inbox = <<>> /\ inbox' = Append(inbox, okay)
        BY <2>1, <2>7, <1>2 DEF WriteInv, okay
      <4>2. QED
        BY <4>1, <2>5, OneOf
    <3>2. fs'[call.file] = Source
      BY <2>1, <2>3, <2>4, <2>7 DEF SyncType
    <3>3. ReadInv'
      BY <3>1, <3>2, <2>2, <2>4, <2>7, <1>1 DEF ReadInv
    <3>4. QED
      BY <3>1, <3>3, <2>1, <2>2, <1>1, <1>2 DEF InStep
  <2>8. QED
    BY <2>6, <2>7
<1>6. QED
  BY <1>4, <1>5

LEMMA ClosedInStep ==
  ASSUME SyncType, SyncInv, SendFindsClosed, clean, stage' = "sync"
  PROVE  InStep'
<1>1. /\ stage = "sync" /\ misread' = misread /\ pc = "write" /\ pc' = "idle"
      /\ call' = call /\ dest' = dest /\ sync.st = "closed" /\ sync' = sync
  BY DEF SendFindsClosed, CallEnds
<1>2. WriteInv /\ misread = FALSE
  BY <1>1 DEF SyncInv, InStep
<1>3. sync.failed /\ inbox = <<Fail>>
  BY <1>1, <1>2 DEF WriteInv
<1>4. Fail.cmd = "FAIL" /\ Fail.format = "data" /\ Head(inbox) = Fail /\ inbox # <<>>
  BY <1>3 DEF Fail, Msg
<1>5. result' = "remote"
  BY <1>2, <1>4 DEF SendFindsClosed, CallEnds
<1>6. IdleInv'
  BY <1>1, <1>5 DEF IdleInv, Returned, FailureReported
<1>7. QED
  BY <1>1, <1>2, <1>6 DEF InStep

LEMMA FailsInStep ==
  ASSUME SyncType, SyncInv, DeviceFails, clean, stage' = "sync"
  PROVE  InStep'
<1>1. /\ stage = "sync" /\ sync.st = "receiving" /\ ~sync.failed /\ misread' = misread
      /\ pc' = pc /\ call' = call /\ dest' = dest /\ left' = left
      /\ inbox' = Append(inbox, Fail)
  BY DEF DeviceFails, Fail
<1>2. pc = "write" /\ WriteInv /\ misread = FALSE /\ dest = <<>>
      /\ call \in [op : Ops, file : FileNames]
  BY <1>1 DEF SyncInv, InStep, IdleInv
<1>3. /\ sync'.failed = TRUE /\ sync'.st \in {"receiving", "closed"}
      /\ sync'.data = sync.data /\ sync'.file = sync.file
  BY DEF DeviceFails, SyncType
<1>4. inbox = <<>>
  BY <1>1, <1>2 DEF WriteInv
<1>5. inbox' = <<Fail>>
  BY <1>1, <1>4, FileFacts, OneOf
<1>6. WriteInv'
  BY <1>1, <1>2, <1>3, <1>5 DEF WriteInv, Fail
<1>7. QED
  BY <1>1, <1>2, <1>6 DEF InStep

\* A call that ends in step.
LEMMA ReadInStep ==
  ASSUME SyncType, SyncInv, ReadMessage, clean, clean', stage' = "sync"
  PROVE  InStep'
<1> DEFINE m == Head(inbox)
<1>1. /\ stage = "sync" /\ pc = "read" /\ inbox # <<>> /\ inbox' = Tail(inbox)
      /\ call' = call /\ left' = left /\ sync' = sync /\ fs' = fs /\ stage' = stage
  BY DEF ReadMessage
<1>2. /\ ReadInv /\ misread = FALSE /\ call \in [op : Ops, file : FileNames]
      /\ sync.st # "receiving" /\ inbox \in Seq(Messages) /\ dest \in Seq(Values)
  BY <1>1 DEF SyncInv, InStep
<1>3. sync.st \in {"idle", "closed"}
  BY <1>2 DEF SyncType
<1>4. CASE call.op = "stat"
  <2>1. inbox = <<Msg("STAT", "stat", call.file)>>
    BY <1>1, <1>2, <1>4 DEF ReadInv
  <2>2. m = Msg("STAT", "stat", call.file) /\ Tail(inbox) = <<>>
    BY <2>1
  <2>3. m.cmd = "STAT" /\ m.format = "stat" /\ m.val = call.file
    BY <2>2 DEF Msg
  <2> HIDE DEF m
  <2>4. misread' = FALSE
    BY <1>2, <1>4, <2>3 DEF ReadMessage, Format, m
  <2>5. pc' = "idle" /\ result' = "ok" /\ dest' = <<call.file>>
    BY <1>4, <2>3, <2>4 DEF ReadMessage, ValidResponses, CallEnds, m
  <2>6. IdleInv'
    BY <1>1, <1>3, <1>4, <2>2, <2>5 DEF IdleInv, Returned, FailureReported
  <2>7. QED
    BY <2>4, <2>5, <2>6 DEF InStep
<1>5. ASSUME NEW xs \in Seq(Values), NEW c \in {"DENT", "DATA"}, NEW f \in {"dent", "data"},
             Streaming(inbox, dest, xs, c, f), f = Format(call.op),
             \/ call.op = "list" /\ c = "DENT" /\ xs = Files
             \/ call.op = "recv" /\ c = "DATA" /\ xs = fs[call.file] /\ xs # None
      PROVE  InStep'
  <2>1. /\ Tail(inbox) \in Seq(Messages) /\ m.format = f
        /\ \/ /\ m.cmd = c /\ Append(dest, m.val) \in Seq(Values)
              /\ Streaming(Tail(inbox), Append(dest, m.val), xs, c, f)
           \/ m.cmd = "DONE" /\ Tail(inbox) = <<>> /\ dest = xs
    <3>1. c \in Commands /\ f \in Formats /\ c # "DONE"
      BY DEF Commands, Formats
    <3>2. QED
      BY <3>1, <1>1, <1>2, <1>5, StreamGoesOn
  <2> HIDE DEF m
  <2>2. misread' = FALSE
    BY <1>2, <1>5, <2>1 DEF ReadMessage, m
  <2>3. CASE /\ m.cmd = c /\ Append(dest, m.val) \in Seq(Values)
             /\ Streaming(Tail(inbox), Append(dest, m.val), xs, c, f)
    <3>1. m.cmd \in ValidResponses(call.op) /\ m.cmd \in {"DATA", "DENT"}
      BY <2>3, <1>5 DEF ValidResponses
    <3>2. dest' = Append(dest, m.val) /\ pc' = pc
      BY <3>1, <2>2, <1>5 DEF ReadMessage, m
    <3>3. ReadInv'
      BY <3>2, <2>3, <1>1, <1>5 DEF ReadInv, Format
    <3>4. QED
      BY <3>2, <3>3, <2>1, <2>2, <2>3, <1>1, <1>2 DEF InStep
  <2>4. CASE m.cmd = "DONE" /\ Tail(inbox) = <<>> /\ dest = xs
    <3>1. m.cmd \in ValidResponses(call.op)
      BY <2>4, <1>5 DEF ValidResponses
    <3>2. dest' = dest /\ pc' = "idle" /\ result' = "ok"
      BY <3>1, <2>2, <2>4, <1>5 DEF ReadMessage, CallEnds, m
    <3>3. IdleInv'
      BY <3>2, <2>4, <1>1, <1>3, <1>5 DEF IdleInv, Returned, FailureReported
    <3>4. QED
      BY <3>2, <3>3, <2>2 DEF InStep
  <2>5. QED
    BY <2>1, <2>3, <2>4
<1>6. ASSUME call.op \in {"recv", "send"}, inbox = <<Fail>> PROVE InStep'
  <2>1. m.cmd = "FAIL" /\ m.format = "data" /\ Tail(inbox) = <<>>
    BY <1>6 DEF Fail, Msg
  <2> HIDE DEF m
  <2>2. misread' = FALSE
    BY <1>2, <1>6, <2>1 DEF ReadMessage, Format, m
  <2>3. pc' = "idle" /\ result' = "remote"
    BY <1>6, <2>1, <2>2 DEF ReadMessage, ValidResponses, CallEnds, m
  <2>4. IdleInv'
    BY <1>1, <1>3, <2>1, <2>3 DEF IdleInv, Returned, FailureReported
  <2>5. QED
    BY <2>2, <2>3, <2>4 DEF InStep
<1>7. CASE call.op = "list"
  BY <1>2, <1>5, <1>7, FileFacts DEF ReadInv, Format
<1>8. CASE call.op = "recv"
  <2>1. CASE fs[call.file] = None
    BY <1>1, <1>2, <1>6, <1>8, <2>1 DEF ReadInv
  <2>2. CASE fs[call.file] # None
    <3>1. fs[call.file] \in Seq(Chunks)
      BY <1>2, <2>2 DEF SyncType
    <3>2. fs[call.file] \in Seq(Values)
      BY <3>1, FileFacts, WiderSeq
    <3>3. Streaming(inbox, dest, fs[call.file], "DATA", "data") /\ Format("recv") = "data"
      BY <1>2, <1>8, <2>2 DEF ReadInv, Format
    <3>4. QED
      BY <3>2, <3>3, <1>5, <1>8, <2>2
  <2>3. QED
    BY <2>1, <2>2
<1>9. CASE call.op = "send"
  <2>1. CASE sync.failed
    BY <1>2, <1>6, <1>9, <2>1 DEF ReadInv
  <2>2. CASE ~sync.failed
    <3>1. inbox = <<Msg("OKAY", "data", None)>> /\ fs[call.file] = Source
      BY <1>1, <1>2, <1>9, <2>2 DEF ReadInv
    <3>2. m.cmd = "OKAY" /\ m.format = "data" /\ Tail(inbox) = <<>>
      BY <3>1 DEF Msg
    <3> HIDE DEF m
    <3>3. misread' = FALSE
      BY <1>2, <1>9, <3>2 DEF ReadMessage, Format, m
    <3>4. pc' = "idle" /\ result' = "ok"
      BY <1>9, <3>2, <3>3 DEF ReadMessage, ValidResponses, CallEnds, m
    <3>5. IdleInv'
      BY <1>1, <1>3, <1>9, <2>2, <3>1, <3>2, <3>4 DEF IdleInv, Returned, FailureReported
    <3>6. QED
      BY <3>3, <3>4, <3>5 DEF InStep
  <2>3. QED
    BY <2>1, <2>2
<1>10. QED
  BY <1>2, <1>4, <1>7, <1>8, <1>9 DEF Ops

LEMMA CutInStep ==
  ASSUME SyncType, SyncInv, CutShort, clean, clean', stage' = "sync"
  PROVE  InStep'
<1>1. /\ stage = "sync" /\ misread' = misread /\ pc' = "idle" /\ call' = call /\ sync' = sync
      /\ inbox' = inbox
  BY DEF CutShort, CallEnds
<1>2. pc = "read" /\ inbox = <<>> /\ sync.st = "closed" /\ result' = "closed"
  BY DEF CutShort, CallEnds
<1>3. ReadInv /\ misread = FALSE
  BY <1>1, <1>2 DEF SyncInv, InStep
<1>4. call.op = "send" => ~sync.failed
  BY <1>2, <1>3 DEF ReadInv
<1>5. IdleInv'
  BY <1>1, <1>2, <1>4 DEF IdleInv, Returned, FailureReported
<1>6. QED
  BY <1>1, <1>3, <1>5 DEF InStep

LEMMA CloseInStep ==
  ASSUME SyncType, SyncInv, DeviceCloses, clean, stage' = "sync"
  PROVE  InStep'
<1>1. /\ stage = "sync" /\ pc = "read" /\ ~sync.failed /\ misread' = misread
      /\ pc' = pc /\ call' = call /\ dest' = dest /\ fs' = fs
  BY DEF DeviceCloses
<1>2. /\ ReadInv /\ misread = FALSE /\ call \in [op : Ops, file : FileNames]
      /\ inbox \in Seq(Messages) /\ dest \in Seq(Values)
  BY <1>1 DEF SyncInv, InStep
<1>3. sync'.st = "closed" /\ sync'.failed = sync.failed
  BY DEF DeviceCloses, SyncType
<1>4. PICK k \in 0..Len(inbox) : inbox' = SubSeq(inbox, 1, k)
  BY DEF DeviceCloses
<1>5. inbox' \in Seq(Messages) /\ Len(inbox) \in Nat /\ Len(inbox') = k
      /\ \A i \in 1..k : inbox'[i] = inbox[i]
  BY <1>2, <1>4, PrefixFacts
<1>6. ASSUME NEW m \in Messages, inbox \in {<<>>, <<m>>}
      PROVE  inbox' \in {<<>>, <<m>>}
  <2>1. CASE k = 0
    <3>1. Len(inbox') = 0
      BY <2>1, <1>5
    <3>2. QED
      BY <3>1, <1>5
  <2>2. CASE k # 0
    <3>1. Len(<<m>>) = 1 /\ <<m>>[1] = m /\ Len(<<>>) = 0
      BY OneOf
    <3>2. inbox = <<m>> /\ k = 1
      BY <3>1, <2>2, <1>4, <1>5, <1>6
    <3>3. Len(inbox') = 1 /\ inbox'[1] = m
      BY <3>1, <3>2, <1>5
    <3>4. inbox' = <<Head(inbox')>> /\ Head(inbox') = inbox'[1]
      BY <3>3, <1>5, OneOf
    <3>5. QED
      BY <3>3, <3>4
  <2>3. QED
    BY <2>1, <2>2
<1>7. CASE call.op = "stat"
  <2>1. Msg("STAT", "stat", call.file) \in Messages
    BY <1>2, MsgFacts, FileFacts DEF Commands, Formats
  <2>2. ReadInv'
    BY <1>1, <1>2, <1>6, <1>7, <2>1 DEF ReadInv
  <2>3. QED
    BY <2>2, <1>1, <1>2, <1>3, <1>5 DEF InStep
<1>8. CASE call.op = "list"
  <2>1. Streaming(inbox', dest, Files, "DENT", "dent")
    BY <1>2, <1>4, <1>8, StreamBreaks, FileFacts DEF ReadInv
  <2>2. ReadInv'
    BY <1>1, <1>8, <2>1 DEF ReadInv
  <2>3. QED
    BY <2>2, <1>1, <1>2, <1>3, <1>5 DEF InStep
<1>9. CASE call.op = "recv"
  <2>1. CASE fs[call.file] = None
    <3>1. ReadInv'
      BY <1>1, <1>2, <1>6, <1>9, <2>1, FileFacts DEF ReadInv
    <3>2. QED
      BY <3>1, <1>1, <1>2, <1>3, <1>5 DEF InStep
  <2>2. CASE fs[call.file] # None
    <3>1. fs[call.file] \in Seq(Chunks)
      BY <1>2, <2>2 DEF SyncType
    <3>2. fs[call.file] \in Seq(Values)
      BY <3>1, FileFacts, WiderSeq
    <3>3. Streaming(inbox, dest, fs[call.file], "DATA", "data")
      BY <1>2, <1>9, <2>2 DEF ReadInv
    <3>4. Streaming(inbox', dest, fs[call.file], "DATA", "data")
      BY <1>2, <1>4, <3>2, <3>3, StreamBreaks
    <3>5. ReadInv'
      BY <1>1, <1>9, <2>2, <3>4 DEF ReadInv
    <3>6. QED
      BY <3>5, <1>1, <1>2, <1>3, <1>5 DEF InStep
  <2>3. QED
    BY <2>1, <2>2
<1>10. CASE call.op = "send"
  <2>1. Msg("OKAY", "data", None) \in Messages
    BY MsgFacts, FileFacts DEF Commands, Formats
  <2>2. ReadInv'
    BY <1>1, <1>2, <1>3, <1>6, <1>10, <2>1 DEF ReadInv
  <2>3. QED
    BY <2>2, <1>1, <1>2, <1>3, <1>5 DEF InStep
<1>11. QED
  BY <1>2, <1>7, <1>8, <1>9, <1>10 DEF Ops

---------------------------------------------------------------------------
(* The session as a whole.                                                 *)

SessionInv == KeyInv /\ BootInv /\ SyncType /\ SyncInv /\ IdleSession /\ ShellInv

LEMMA ConnectedInStep ==
  ASSUME KeyInv, IdleSession, Connected
  PROVE  InStep'
<1>1. /\ sync' = Idle /\ misread' = FALSE /\ result' = "none" /\ pc' = "idle" /\ inbox' = <<>>
      /\ stage' = "sync"
  BY DEF Connected, KeyInv, IdleSession, syncVars
<1>2. IdleInv'
  BY <1>1, IdleFacts DEF IdleInv, Returned, FailureReported
<1>3. QED
  BY <1>1, <1>2 DEF InStep

LEMMA SyncStep ==
  ASSUME SyncType, SyncInv, KeyInv, IdleSession, Next
  PROVE  SyncInv'
<1> SUFFICES ASSUME clean', stage' = "sync" PROVE InStep'
  BY DEF SyncInv
<1>1. clean
  BY CleanStep
<1>2. CASE Connecting
  BY <1>2, ConnectedInStep DEF Connecting, SendCnxn, IgnoreMessage, NoKeys, SignToken,
     OfferPublicKey, ConnectTimesOut, Fails
<1>3. CASE Flashing \/ Reboot
  BY <1>3 DEF Reboot, Flashing, SendDownload, AcceptInfo, AcceptData, WriteChunk, SendFlash,
              Flashed, BootFails, Fails
<1>4. CASE StartCall \/ SendWrites
  BY <1>4, StartInStep, WriteInStep
<1>5. CASE SendFindsClosed \/ ReadMessage \/ CutShort
  BY <1>1, <1>5, ClosedInStep, ReadInStep, CutInStep
<1>6. CASE DeviceFails \/ DeviceCloses
  BY <1>1, <1>6, FailsInStep, CloseInStep
<1>7. QED
  BY <1>2, <1>3, <1>4, <1>5, <1>6 DEF Next, Host, Syncing

\* A command leaves the session as it is, but for its own result.
LEMMA CommandStep ==
  ASSUME KeyInv, BootInv, SyncType, SyncInv, IdleSession,
         UNCHANGED Session, stage = "sync", pc = "idle", sync = Idle,
         result' = result \/ result' # "ok"
  PROVE  KeyInv' /\ BootInv' /\ SyncType' /\ SyncInv'
<1> USE DEF Session, connVars, bootVars
<1>1. KeyInv' /\ BootInv' /\ SyncType'
  BY DEF KeyInv, BootInv, SyncType
<1>2. ASSUME clean PROVE InStep'
  <2>1. misread = FALSE /\ IdleInv
    BY <1>2 DEF SyncInv, InStep
  <2>2. IdleInv'
    BY <2>1, IdleFacts DEF IdleInv, Returned, FailureReported
  <2>3. QED
    BY <2>1, <2>2 DEF InStep
<1>3. QED
  BY <1>1, <1>2 DEF SyncInv

LEMMA SessionStep == SessionInv /\ [ShellNext]_shellVars => SessionInv'
<1> SUFFICES ASSUME SessionInv, [ShellNext]_shellVars PROVE SessionInv'
  OBVIOUS
<1> USE DEF SessionInv
<1>1. ShellInv' /\ IdleSession'
  BY ShellStep, IdleSessionStep
<1>2. CASE SessionNext
  BY <1>1, <1>2, KeyStep, BootStep, SyncTypeStep, SyncStep DEF SessionNext
<1>3. CASE StartCommand \/ StartAsyncCommand
  BY <1>1, <1>3, CommandStep DEF StartCommand, StartAsyncCommand, Idling, IdleSession
<1>4. CASE RemoteCommand
  <2>1. result' # "ok"
    BY <1>4 DEF RemoteCommand, RemoteResult
  <2>2. QED
    BY <1>1, <1>4, <2>1, CommandStep DEF RemoteCommand, Idling, IdleSession
<1>5. CASE CommandEnds
  BY <1>1, <1>5, CommandStep DEF CommandEnds, IdleSession
<1>6. CASE UNCHANGED vars
  <2>1. KeyInv' /\ BootInv' /\ SyncType'
    BY <1>6 DEF vars, KeyInv, BootInv, SyncType, FirstKeys
  <2>2. SyncInv'
    BY <1>6 DEF vars, SyncInv, InStep, IdleInv, WriteInv, ReadInv, Returned, FailureReported
  <2>3. QED
    BY <1>1, <2>1, <2>2
<1>7. QED
  BY <1>2, <1>3, <1>4, <1>5, <1>6 DEF ShellNext, ShellHost, Device, shellVars

LEMMA SessionInit == ShellInit => SessionInv
<1> SUFFICES ASSUME ShellInit PROVE SessionInv
  OBVIOUS
<1>1. Init /\ shell = NoShell
  BY DEF ShellInit
<1>2. ShellInv
  BY <1>1, NoShellInv
<1>3. IdleSession
  BY <1>1 DEF Init, IdleSession, Running, NoShell
<1>4. SyncInv
  BY <1>1 DEF Init, SyncInv
<1>5. QED
  BY <1>1, <1>2, <1>3, <1>4, KeyInit, BootInit, SyncTypeInit DEF SessionInv

LEMMA SessionInvariant == ShellSpec => []SessionInv
BY SessionInit, SessionStep, PTL DEF ShellSpec

(* UsbSession.PublicKeyLast: AdbConnection.connect offers its public key,  *)
(* which makes the device ask its user, only after the device has refused  *)
(* the signature of every key it was given, whatever messages come in      *)
(* between.                                                                *)
THEOREM PublicKeyIsLast == ShellSpec => []PublicKeyLast
<1>1. SessionInv => PublicKeyLast
  BY DEF SessionInv, KeyInv, PublicKeyLast, FirstKeys
<1>2. QED
  BY <1>1, SessionInvariant, PTL

(* ShellService.DeliveredExact: a stat, list, recv or send of              *)
(* FilesyncService that returns delivered what it was asked for, as long   *)
(* as no earlier call on the stream was cut short; flash_from_file never   *)
(* flashes a part of the image; and no output of a shell command is lost   *)
(* unless the stream was closed by the host.                               *)
THEOREM DeliversExactly == ShellSpec => []DeliveredExact
<1>1. SessionInv => TransfersExact
  <2> SUFFICES ASSUME SessionInv, clean
               PROVE  /\ Returned("stat") => dest = <<call.file>>
                      /\ Returned("list") => dest = Files
                      /\ Returned("recv") => dest = fs[call.file]
                      /\ Returned("send") => fs[call.file] = Source
                      /\ partition \in {None, Image}
    BY DEF TransfersExact
  <2>1. partition \in {None, Image}
    BY DEF SessionInv, BootInv
  <2>2. stage = "sync" /\ pc = "idle" => IdleInv
    BY DEF SessionInv, SyncInv, InStep
  <2>3. QED
    BY <2>1, <2>2 DEF IdleInv, Returned
<1>2. SessionInv => OutputComplete
  BY OutputIsComplete DEF SessionInv
<1>3. QED
  BY <1>1, <1>2, SessionInvariant, PTL DEF DeliveredExact

(* UsbSession.FailureReported: the caller of send() gets the device's FAIL *)
(* when the device fails the push, whether it arrives before the last      *)
(* chunk, after it, or together with the end of the stream.                *)
THEOREM FailuresAreHeard == ShellSpec => []FailureReported
<1>1. SessionInv => FailureReported
  BY DEF SessionInv, SyncInv, InStep, IdleInv, FailureReported
<1>2. QED
  BY <1>1, SessionInvariant, PTL
====
