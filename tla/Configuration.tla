---- MODULE Configuration ----
(***************************************************************************)
(* The process-wide configuration CONF: keys are declared, values come     *)
(* from --config-value flags, from --config-file, from load*() calls and   *)
(* from declared defaults.  Every method takes the object's lock but the   *)
(* save_and_restore wrapper, which copies the loaded values on entry and   *)
(* assigns the copy on exit, and load_flag_values.  A load writes key by   *)
(* key, so such an assignment can fall between two of its writes.          *)
(***************************************************************************)
EXTENDS Naturals, Sequences, SequencesExt

CONSTANTS
  Keys, Values, Default, None,
  Threads,
  Inputs,     \* the dictionaries given to load*() and to wrappers
  Flags,      \* the possible --config-value dictionaries
  Files,      \* the possible contents of --config-file, or None without one
  MaxDepth,   \* wrappers a thread nests
  MaxCalls    \* load*, reset, wrapper and injecting calls in all

ASSUME ConfigAssumption ==
  /\ MaxDepth \in Nat /\ MaxCalls \in Nat
  /\ Inputs \cup Flags \subseteq [Keys -> Values \cup {None}]
  /\ Files \subseteq [Keys -> Values \cup {None}] \cup {None}
  /\ None \notin Values \cup {Default} /\ Default \notin Values

Dicts == [Keys -> Values \cup {None}]
Empty == [k \in Keys |-> None]

VARIABLES
  declared,  \* declared[k]: "no", "bare" or "default"
  flags,     \* _flag_values
  file,      \* what --config-file held at import, None without the flag
  loaded,    \* _loaded_values
  lock,      \* the thread in a synchronized load, or None
  call,      \* call[t]: the call thread t is in
  frames,    \* frames[t]: saved_config of t's open wrappers, outermost first
  calls,
  (* history *)
  open,      \* the threads of the open wrappers in the order they were entered
  base,      \* the loaded values by the calls made outside every wrapper
  mixed      \* a wrapper was entered in a load, or left in one or out of order

history == <<open, base, mixed>>
vars == <<declared, flags, file, loaded, lock, call, frames, calls, open, base,
          mixed>>

Idle == [op |-> "idle", todo |-> {}, dict |-> Empty, override |-> TRUE,
         allow |-> FALSE, key |-> None, got |-> None,
         lost |-> FALSE]

Calls == [op : {"idle", "wrap", "load", "has", "get", "injected", "unset"},
          todo : SUBSET Keys, dict : Dicts, override : BOOLEAN, allow : BOOLEAN,
          key : Keys \cup {None}, got : Values \cup {Default, None},
          lost : BOOLEAN]

(* Import: parse_known_args(), load_flag_values(), reset(), which loads the *)
(* file with _allow_undeclared before a single key is declared.             *)
Init ==
  /\ declared = [k \in Keys |-> "no"] /\ flags \in Flags
  /\ file \in Files
  /\ loaded = IF file = None THEN Empty ELSE file
  /\ lock = None /\ call = [t \in Threads |-> Idle]
  /\ frames = [t \in Threads |-> <<>>] /\ calls = 0
  /\ open = <<>> /\ base = loaded /\ mixed = FALSE

Given(dict) == {k \in Keys : dict[k] # None}

\* __getitem__: the value, or None for UndeclaredKeyError and UnsetKeyError.
GetItem(k) ==
  IF declared[k] = "no" THEN None
  ELSE IF flags[k] # None THEN flags[k]
  ELSE IF loaded[k] # None THEN loaded[k]
  ELSE IF declared[k] = "default" THEN Default ELSE None

\* __contains__
HasValue(k) ==
  declared[k] # "no"
  /\ (declared[k] = "default" \/ loaded[k] # None \/ flags[k] # None)

\* _asdict: the defaults, updated by the loaded values, declared or not, and
\* by the flags of declared keys.
AsDict ==
  LET defaults == [k \in Keys |-> IF declared[k] = "default" THEN Default ELSE None]
      update(d, e, ks) == [k \in Keys |-> IF k \in ks /\ e[k] # None THEN e[k] ELSE d[k]]
  IN update(update(defaults, loaded, Keys), flags, {k \in Keys : declared[k] # "no"})

CanCall(t) == call[t].op = "idle" /\ calls < MaxCalls
Free == lock = None

(* declare(): KeyAlreadyDeclaredError leaves the first declaration.        *)
Declare(t, k, d) ==
  /\ call[t].op = "idle" /\ Free /\ declared[k] = "no"
  /\ declared' = [declared EXCEPT ![k] = d]
  /\ UNCHANGED <<flags, file, loaded, lock, call, frames, calls, history>>

(* load_flag_values() with more flags: setdefault keeps the first, no lock. *)
LoadFlagValues(t, k, v) ==
  /\ CanCall(t)
  /\ flags' = [flags EXCEPT ![k] = IF @ = None THEN v ELSE @]
  /\ calls' = calls + 1
  /\ UNCHANGED <<declared, file, loaded, lock, call, frames, history>>

(* load(), load_from_dict(), load_from_file() of a readable file: take the *)
(* lock, ...                                                               *)
Load(t, dict, override, allow) ==
  /\ CanCall(t) /\ Free
  /\ lock' = t /\ calls' = calls + 1
  /\ call' = [call EXCEPT ![t] =
       [Idle EXCEPT !.op = "load", !.todo = Given(dict), !.dict = dict,
                    !.override = override, !.allow = allow]]
  /\ UNCHANGED <<declared, flags, file, loaded, frames, history>>

\* The loop's decision for one key: undeclared keys are skipped, and loaded
\* ones unless _override.
Written(d, c, k) ==
  IF \/ declared[k] = "no" /\ ~c.allow
     \/ d[k] # None /\ ~c.override
  THEN d ELSE [d EXCEPT ![k] = c.dict[k]]

(* ... handle the keys one by one, the self._loaded_values of the moment   *)
(* being read and written, ...                                             *)
LoadKey(t, k) ==
  /\ call[t].op = "load" /\ k \in call[t].todo
  /\ loaded' = Written(loaded, call[t], k)
  /\ base' = IF open = <<>> THEN Written(base, call[t], k) ELSE base
  /\ call' = [call EXCEPT ![t].todo = @ \ {k}]
  /\ UNCHANGED <<declared, flags, file, lock, frames, calls, open, mixed>>

(* ... and release the lock.                                               *)
EndLoad(t) ==
  /\ call[t].op = "load" /\ call[t].todo = {}
  /\ lock' = None /\ call' = [call EXCEPT ![t] = Idle]
  /\ UNCHANGED <<declared, flags, file, loaded, frames, calls, history>>

\* History: the values that another thread is about to read may be gone.
MarkLost == call' = [t \in Threads |-> [call[t] EXCEPT !.lost = @ \/ call[t].op = "has"]]

(* reset(): the loaded values are dropped; the file object of the flag was *)
(* read to its end at import, so load_from_file() parses an empty document *)
(* and raises ConfigurationInvalidError.                                   *)
Reset(t) ==
  /\ CanCall(t) /\ Free
  /\ loaded' = Empty /\ calls' = calls + 1 /\ MarkLost
  /\ base' = IF open = <<>> THEN Empty ELSE base
  /\ UNCHANGED <<declared, flags, file, lock, frames, open, mixed>>

(* _saving_wrapper: saved_config = dict(self._loaded_values), without the  *)
(* lock, then load_from_dict(config_values).                               *)
EnterWrapper(t, dict) ==
  /\ CanCall(t) /\ Len(frames[t]) < MaxDepth
  /\ frames' = [frames EXCEPT ![t] = Append(@, loaded)]
  /\ call' = [call EXCEPT ![t] =
       [Idle EXCEPT !.op = "wrap", !.todo = Given(dict), !.dict = dict]]
  /\ calls' = calls + 1
  /\ open' = Append(open, t) /\ mixed' = (mixed \/ ~Free)
  /\ UNCHANGED <<declared, flags, file, loaded, lock, base>>

LoadInWrapper(t) ==
  /\ call[t].op = "wrap" /\ Free
  /\ lock' = t /\ call' = [call EXCEPT ![t].op = "load"]
  /\ UNCHANGED <<declared, flags, file, loaded, frames, calls, history>>

(* The wrapped function returns or raises: finally, self._loaded_values =  *)
(* saved_config, again without the lock.                                   *)
\* Mutant: the outermost values are restored first.
M_LeaveWrapper(t) ==
  /\ call[t].op = "idle" /\ frames[t] # <<>>
  /\ loaded' = Head(frames[t])
  /\ frames' = [frames EXCEPT ![t] = Tail(@)]
  /\ mixed' = (mixed \/ ~Free \/ Last(open) # t)
  /\ open' = RemoveAt(open, SelectLastInSeq(open, LAMBDA u : u = t))
  /\ MarkLost
  /\ UNCHANGED <<declared, flags, file, lock, calls, base>>

LeaveWrapper(t) ==
  /\ call[t].op = "idle" /\ frames[t] # <<>>
  /\ loaded' = Last(frames[t])
  /\ frames' = [frames EXCEPT ![t] = Front(@)]
  /\ mixed' = (mixed \/ ~Free \/ Last(open) # t)
  /\ open' = RemoveAt(open, SelectLastInSeq(open, LAMBDA u : u = t))
  /\ MarkLost
  /\ UNCHANGED <<declared, flags, file, lock, calls, base>>

(* inject_positional_args' method_wrapper for a positional argument: is it *)
(* in the configuration, and then, in a second synchronized call, its value. *)
\* Mutant: the declaration is taken for a value.
M_Inject(t, k) ==
  /\ CanCall(t) /\ Free
  /\ call' = [call EXCEPT ![t] = IF declared[k] # "no"
                                 THEN [Idle EXCEPT !.op = "has", !.key = k] ELSE Idle]
  /\ calls' = calls + 1
  /\ UNCHANGED <<declared, flags, file, loaded, lock, frames, history>>

Inject(t, k) ==
  /\ CanCall(t) /\ Free
  /\ call' = [call EXCEPT ![t] = IF HasValue(k)
                                 THEN [Idle EXCEPT !.op = "has", !.key = k] ELSE Idle]
  /\ calls' = calls + 1
  /\ UNCHANGED <<declared, flags, file, loaded, lock, frames, history>>

InjectValue(t) ==
  /\ call[t].op = "has" /\ Free
  /\ LET v == GetItem(call[t].key) IN
     call' = [call EXCEPT ![t].op = IF v = None THEN "unset" ELSE "injected",
                          ![t].got = v]
  /\ UNCHANGED <<declared, flags, file, loaded, lock, frames, calls, history>>

Return(t) ==
  /\ call[t].op \in {"injected", "unset"}
  /\ call' = [call EXCEPT ![t] = Idle]
  /\ UNCHANGED <<declared, flags, file, loaded, lock, frames, calls, history>>

Next ==
  \E t \in Threads :
    \/ \E k \in Keys, d \in {"bare", "default"} : Declare(t, k, d)
    \/ \E k \in Keys, v \in Values : LoadFlagValues(t, k, v)
    \/ \E d \in Inputs, o, a \in BOOLEAN : Load(t, d, o, a)
    \/ \E k \in Keys : LoadKey(t, k)
    \/ EndLoad(t)
    \/ Reset(t)
    \/ \E d \in Inputs : EnterWrapper(t, d)
    \/ LoadInWrapper(t)
    \/ LeaveWrapper(t)
    \/ \E k \in Keys : Inject(t, k)
    \/ InjectValue(t)
    \/ Return(t)

Spec == Init /\ [][Next]_vars
----
(***************************************************************************)
(* Properties                                                              *)
(***************************************************************************)

\* Every variable has its type.
TypeOK ==
  /\ declared \in [Keys -> {"no", "bare", "default"}]
  /\ flags \in Dicts /\ file \in Dicts \cup {None} /\ loaded \in Dicts
  /\ lock \in Threads \cup {None} /\ call \in [Threads -> Calls]
  /\ \A t \in Threads : Len(frames[t]) \in 0..MaxDepth
                        /\ \A i \in DOMAIN frames[t] : frames[t][i] \in Dicts
  /\ calls \in 0..MaxCalls /\ base \in Dicts /\ mixed \in BOOLEAN

\* "key in conf will evaluate to True if conf[key] would successfully provide
\* a value", the snapshot agrees with the item access on declared keys, and a
\* value that can be read was given by a flag, a load or the declaration, in
\* that order.  The three are computed in different ways from four sources.
\* inject_positional_args asks for both, one after the other: another thread may
\* load, declare or add flags in between, and the second look-up still succeeds,
\* as long as nobody resets or leaves a wrapper there.
LookupsAgree ==
  \A k \in Keys :
    /\ HasValue(k) <=> GetItem(k) # None
    /\ declared[k] # "no" => AsDict[k] = GetItem(k)
    /\ GetItem(k) # None => flags[k] \in {None, GetItem(k)}
    /\ \A t \in Threads : call[t].op = "unset" => call[t].lost

\* save_and_restore: with no wrapper left open, the loaded values are those of
\* the calls made outside every wrapper, whatever was loaded or reset inside,
\* however the wrappers of the threads nested; only wrappers that are left out
\* of order, or in the middle of another thread's load, spoil it.
Restored == open = <<>> /\ ~mixed => loaded = base

\* reset() keeps the values of --config-file, as its comment says: it fails.
ResetKeepsFile ==
  file # None =>
    \A k \in Keys : file[k] # None => loaded[k] # None
====
