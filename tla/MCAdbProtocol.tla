---- MODULE MCAdbProtocol ----
(* Instances of AdbProtocol: streams sa and sb, of which sa may be shared. *)
EXTENDS AdbProtocol

CONSTANTS sa, sb, reader, writer, other

Call(op, n) == [op |-> op, n |-> n]
MCStreamOf == [t \in Threads |-> IF t = other THEN sb ELSE sa]
MCMaxData == [s \in Streams |-> IF s = sa THEN 2 ELSE 1]

Program(r, w, o) == [t \in Threads |-> IF t = reader THEN r ELSE IF t = writer THEN w ELSE o]
Streaming == <<Call("open", 0), Call("until_close", 0)>>
MCPrograms ==
  { \* two threads on one stream
    Program(<<Call("open", 0), Call("read", 1), Call("until_close", 0)>>,
            <<Call("write", 2)>>, <<>>),
    \* streaming_command beside a reader, and beside a writer, of another stream
    Program(Streaming, <<>>, <<Call("open", 0), Call("read", 1), Call("close", 0)>>),
    Program(Streaming, <<>>, <<Call("open", 0), Call("write", 1), Call("close", 0)>>) }

\* Two threads write to one stream.
TwoWriters ==
  { Program(<<Call("open", 0), Call("write", 1)>>, <<Call("write", 1)>>, <<>>) }
====
