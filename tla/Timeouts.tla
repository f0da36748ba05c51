------------------------------ MODULE Timeouts ------------------------------
(***************************************************************************)
(* PolledTimeout and the loops, retries and delays built on it, and the    *)
(* periodic Interval.  Source: openhtf/util/timeouts.py.                   *)
(*                                                                         *)
(* The clock counts milliseconds.  An argument `timeout_s` or `timeout_ms` *)
(* is None, a number or a PolledTimeout; an optional number is a sequence  *)
(* of at most one.  A call is the time it takes and what comes of it.      *)
(***************************************************************************)
EXTENDS Integers, Sequences, FiniteSets, SequencesExt, FiniteSetsExt

Millis(s) == 1000 * s
NoTimeout == [kind |-> "none"]
Num(n) == [kind |-> "number", n |-> n]
Polled(t) == [kind |-> "polled", timeout |-> t]

-----------------------------------------------------------------------------
(* PolledTimeout. *)

NewTimeout(limit, now) == [start |-> now, limit |-> limit]
FromMillis(arg, now) ==
    CASE arg.kind = "polled" -> arg.timeout
      [] arg.kind = "none" -> NewTimeout(<<>>, now)
      [] arg.kind = "number" -> NewTimeout(<<arg.n>>, now)
FromSeconds(arg, now) ==
    CASE arg.kind = "polled" -> arg.timeout
      [] arg.kind = "none" -> NewTimeout(<<>>, now)
      [] arg.kind = "number" -> NewTimeout(<<Millis(arg.n)>>, now)

Restart(t, now) == [t EXCEPT !.start = now]
Expire(t) == [t EXCEPT !.limit = <<0>>]
Elapsed(t, now) == now - t.start
HasExpired(t, now) == t.limit # <<>> /\ Elapsed(t, now) >= t.limit[1]
Remaining(t, now) == IF t.limit = <<>> THEN <<>> ELSE <<Max({0, t.limit[1] - Elapsed(t, now)})>>

-----------------------------------------------------------------------------
(* loop_until_timeout_or_valid: the function is called, with a sleep between two calls. It
   is "running" if the calls given do not end it. *)

CallEnds(calls, i, sleep_s, now) ==
    now + FoldLeft(LAMBDA sum, c : sum + c.takes, 0, SubSeq(calls, 1, i)) + (i - 1) * Millis(sleep_s)

Loop(arg, calls, valid, sleep_s, now) ==
    LET timeout == FromSeconds(arg, now)
        End(i) == CallEnds(calls, i, sleep_s, now)
        ends == {i \in DOMAIN calls : calls[i].result \in valid \/ HasExpired(timeout, End(i))}
    IN  IF ends = {} THEN [how |-> "running", calls |-> Len(calls)]
        ELSE [how |-> "returns", calls |-> Min(ends), at |-> End(Min(ends)),
              result |-> calls[Min(ends)].result]

(* Its three uses; a result is "None", or true or false in the sense of Python. *)
Results == {"true", "false", "None"}
True == {"true"}
NotNone == Results \ {"None"}
LoopUntilTrue(arg, calls, sleep_s, now) == Loop(arg, calls, True, sleep_s, now)
LoopUntilNotNone(arg, calls, sleep_s, now) == Loop(arg, calls, NotNone, sleep_s, now)

(* The message about a timeout formats timeout_s with %d, which only a number survives. *)
LoopElseRaise(arg, calls, invert, message, sleep_s, now) ==
    LET valid == IF invert THEN Results \ True ELSE True
        loop == Loop(arg, calls, valid, sleep_s, now)
    IN  IF loop.how = "running" \/ loop.result \in valid THEN loop
        ELSE [loop EXCEPT !.how = IF message \/ arg.kind = "number" THEN "RuntimeError"
                                  ELSE "TypeError"]

-----------------------------------------------------------------------------
(* retry_until_valid_or_limit_reached with RetryHelper(limit - 1): at call i so many retries
   remain. An exception of the kind to catch counts as None until the last call. *)

RetriesLeft(limit, i) == limit - i

Retry(limit, calls, valid) ==
    LET Raises(i) == \/ calls[i].result = "raises other"
                     \/ calls[i].result = "raises" /\ RetriesLeft(limit, i) = 0
        Result(i) == IF calls[i].result = "raises" THEN "None" ELSE calls[i].result
        ends == {i \in DOMAIN calls :
                    Raises(i) \/ Result(i) \in valid \/ RetriesLeft(limit, i) - 1 < 0}
        last == Min(ends)
    IN  CASE limit <= 0 -> [how |-> "AssertionError", calls |-> 0]
          [] limit > 0 /\ ends = {} -> [how |-> "running", calls |-> Len(calls)]
          [] limit > 0 /\ ends # {} ->
                IF Raises(last) THEN [how |-> calls[last].result, calls |-> last]
                ELSE [how |-> "returns", calls |-> last, result |-> Result(last)]
RetryUntilTrue(limit, calls) == Retry(limit, calls, True)
RetryUntilNotNone(limit, calls) == Retry(limit, calls, NotNone)

-----------------------------------------------------------------------------
(* take_at_least_n_seconds: when the block ends whose body ended at `done`. *)
TakeAtLeast(time_s, now, done) ==
    LET timeout == NewTimeout(<<Millis(time_s)>>, now)
    IN  IF HasExpired(timeout, done) THEN done ELSE done + Remaining(timeout, done)[1]

(* take_at_most_n_seconds: whether join returns a dead thread. The call goes on if not. *)
TakeAtMost(time_s, takes) == takes <= Millis(time_s)

(* execute_after_delay, called now, its thread scheduled at `begins`: when func runs. *)
ExecuteAfterDelay(arg, now, begins) ==
    LET timeout == FromSeconds(arg, now)
    IN  IF Remaining(timeout, now) = <<>> THEN {}
        ELSE {begins + Remaining(timeout, begins)[1]}

-----------------------------------------------------------------------------
(* Interval. `running`, and so start, stop and join, ask the thread isAlive(), which threads
   no longer have: with a thread they raise, after what they have done until then. *)

NewInterval(stop_if_false) ==
    [thread |-> "none", stopped |-> FALSE, stop_if_false |-> stop_if_false, raised |-> FALSE]
Running(interval) == IF interval.thread = "none" THEN "False" ELSE "AttributeError"
Start(interval) ==
    IF Running(interval) = "AttributeError" THEN [interval EXCEPT !.raised = TRUE]
    ELSE [interval EXCEPT !.stopped = FALSE, !.thread = "alive"]
ExecuteForever == Start(NewInterval(FALSE))
ExecuteUntilFalse == Start(NewInterval(TRUE))

(* The thread calls the method at once, and again after each interval without stop(): the
   calls it makes if stop() comes during (or before the end of the wait after) call number
   `stopAt`, 0 for never. *)
Execute(interval, results, stopAt) ==
    LET ends == {i \in DOMAIN results : (interval.stop_if_false /\ ~results[i]) \/ i = stopAt}
    IN  IF ends = {} THEN Len(results) ELSE Min(ends)

(* `ends`: the thread ends within the time that is waited for it. *)
Joined(interval, ends) ==
    IF interval.thread = "none" THEN interval
    ELSE [interval EXCEPT !.thread = IF ends THEN "dead" ELSE @, !.raised = TRUE]
Stop(interval, ends) == Joined([interval EXCEPT !.stopped = TRUE], ends)
Join(interval, ends) == Joined(interval, ends)
=============================================================================
