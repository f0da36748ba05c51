----------------------------- MODULE MCTimeouts -----------------------------
(* What the helpers of Timeouts promise, evaluated by TLC on short sequences of calls. *)
EXTENDS Integers, Sequences, SequencesExt

LOCAL T == INSTANCE Timeouts

LOCAL Begin == 5
LOCAL Calls(results) == SeqOf([takes : {0, 600}, result : results], 3) \ {<<>>}
LOCAL Polls == {T!Polled(T!NewTimeout(limit, Begin)) : limit \in {<<>>, <<0>>, <<1500>>}}
LOCAL Args == {T!NoTimeout, T!Num(0), T!Num(1)} \cup Polls

(* A loop calls at least once, stops at the first valid result, gives up only once the
   timeout has expired, and then has not begun a call later than a sleep after it. *)
ASSUME LoopAssumption ==
    \A arg \in Args, calls \in Calls({"true", "false", "None"}), sleep \in {0, 1} :
        LET loop == T!LoopUntilTrue(arg, calls, sleep, Begin)
            timeout == T!FromSeconds(arg, Begin)
            last == calls[loop.calls]
        IN  /\ loop.calls >= 1
            /\ loop.how = "returns" /\ loop.calls = 1 => loop.at = Begin + last.takes
            /\ \A i \in 1..(loop.calls - 1) : calls[i].result # "true"
            /\ loop.how = "returns" /\ loop.result # "true" =>
                  /\ T!HasExpired(timeout, loop.at)
                  /\ loop.calls > 1 =>
                       ~T!HasExpired(timeout, loop.at - last.takes - T!Millis(sleep))
            /\ arg = T!NoTimeout /\ loop.how = "returns" => loop.result = "true"

(* loop_until_true_else_raise returns what it waited for, and raises RuntimeError, except
   with a PolledTimeout and no message. *)
ASSUME ElseRaiseAssumption ==
    \A arg \in Args, calls \in Calls({"true", "false"}), invert, message \in BOOLEAN :
        LET loop == T!LoopElseRaise(arg, calls, invert, message, 1, Begin)
        IN  /\ loop.how = "returns" => (loop.result = "true") # invert
            /\ loop.how = "TypeError" <=>
                 /\ arg \in Polls /\ ~message
                 /\ LET quiet == T!LoopElseRaise(arg, calls, invert, TRUE, 1, Begin)
                    IN  quiet.how = "RuntimeError"

(* A retry makes at most `limit` calls, at least one, none after a valid result, and hides
   the exceptions it catches unless the last call raises one. *)
ASSUME RetryAssumption ==
    \A limit \in 0..3, calls \in Calls({"true", "None", "raises", "raises other"}) :
        LET retry == T!RetryUntilNotNone(limit, calls)
        IN  IF limit = 0 THEN retry.how = "AssertionError"
            ELSE /\ retry.calls \in 1..limit
                 /\ \A i \in 1..(retry.calls - 1) : calls[i].result \in {"None", "raises"}
                 /\ retry.how = "raises" => retry.calls = limit
                 /\ retry.how = "returns" /\ retry.result = "None" =>
                      retry.calls = limit /\ calls[limit].result = "None"

(* A block takes its time, and no longer than that or its body; what is delayed never runs
   early, runs late by as much as its thread started after the timeout, and not at all
   without one. *)
ASSUME DelayAssumption ==
    /\ \A time \in 0..2, takes \in {0, 900, 1000, 2500} :
          T!TakeAtLeast(time, Begin, Begin + takes) - Begin
             = IF takes > T!Millis(time) THEN takes ELSE T!Millis(time)
    /\ \A arg \in Args, late \in {0, 700, 2000} :
          LET runs == T!ExecuteAfterDelay(arg, Begin, Begin + late)
              timeout == T!FromSeconds(arg, Begin)
          IN  /\ runs = {} <=> timeout.limit = <<>>
              /\ \A at \in runs : T!HasExpired(timeout, at) /\ at >= Begin + late
    /\ \A arg \in Polls, now \in {Begin, Begin + 900, Begin + 1500} :
          LET t == T!FromSeconds(arg, now)
          IN  /\ T!HasExpired(t, now) <=> T!Remaining(t, now) = <<0>>
              /\ T!HasExpired(T!Expire(t), now)
              /\ T!Remaining(T!Restart(t, now), now) = t.limit

(* An Interval can be started once: a second start() raises and starts nothing, and stop()
   and join() raise although the thread has ended. *)
ASSUME IntervalAssumption ==
    \A interval \in {T!ExecuteForever, T!ExecuteUntilFalse} :
        /\ ~interval.raised /\ interval.thread = "alive"
        /\ T!Start(interval) = [interval EXCEPT !.raised = TRUE]
        /\ T!Stop(interval, TRUE).raised /\ T!Join(interval, FALSE).raised
        /\ \A results \in SeqOf(BOOLEAN, 3) \ {<<>>}, stopAt \in 0..3 :
              LET n == T!Execute(interval, results, stopAt)
              IN  /\ n >= 1 /\ (stopAt # 0 => n <= stopAt)
                  /\ interval.stop_if_false => \A i \in 1..(n - 1) : results[i]
=============================================================================
