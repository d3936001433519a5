----------------------------- MODULE UnwindCode -----------------------------
(***************************************************************************)
(* The statements the suite bodies are made of.  A suite module gives, for *)
(* each function or block of the C++ file, the sequence of statements it   *)
(* executes for its arguments; UnwindMachine executes them.  Arithmetic on *)
(* g_sink (the PAYLOAD macros) has no effect on control or on a counter    *)
(* that is judged, and leaves no statement here.                           *)
(***************************************************************************)
EXTENDS Integers, Sequences

Exceptions == [type : STRING, code : Int]
NoException == [type |-> "none", code |-> 0]
MaybeException == Exceptions \cup {NoException}

Instructions ==
       [op : {"guard", "capture", "rethrow"}]
  \cup [op : {"count"}, event : STRING]
  \cup [op : {"call", "try"}, fn : STRING, args : Seq(Int)]
  \cup [op : {"throw"}, exc : Exceptions]

\* A FrameGuard / CfiGuard local: constructed here, destroyed when its scope ends.
Guard == [op |-> "guard"]

\* A direct call of captureUnwind.
Capture == [op |-> "capture"]

\* ++ of one of the counters a suite maintains in its own statements.
Count(event) == [op |-> "count", event |-> event]

Call(fn, args) == [op |-> "call", fn |-> fn, args |-> args]

\* Enter a try block: a scope whose catch clauses Catches(fn, ...) names.
Try(fn, args) == [op |-> "try", fn |-> fn, args |-> args]

\* ++exceptions_thrown; T error; error.code = code; throw error;
Raise(type, code) ==
  << Count("thrown"), [op |-> "throw", exc |-> [type |-> type, code |-> code]] >>

\* Mutant of Reraise: the counter is forgotten.
ReraiseUncounted == << [op |-> "rethrow"] >>

\* ++rethrows; throw;
Reraise == << Count("rethrows"), [op |-> "rethrow"] >>

\* The first statements of every catch clause: ++exceptions_caught; CAPTURE(...)
Caught == << Count("caught"), Capture >>

\* countProgram()
Finished == << Count("programs") >>

\* for (i = 0; i < size; ++i): a call of, or a try block around, table[i](seed + i * stride)
Sweep(op, fn, size, seed, stride) ==
  [k \in 1 .. size |-> [op |-> op, fn |-> fn, args |-> << k - 1, seed + (k - 1) * stride >>]]
=============================================================================
