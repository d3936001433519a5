------------------------------- MODULE Seeds --------------------------------
(***************************************************************************)
(* What the seeds of the cfi suite and of the extended suite make of a     *)
(* call: which cases throw, and the sums of such amounts over a program, a *)
(* round and a call.                                                       *)
(***************************************************************************)
EXTENDS SuitePrograms

\* f[1] + ... + f[n]
Total(f, n) ==
  LET sum[k \in 0 .. n] == IF k = 0 THEN 0 ELSE sum[k - 1] + f[k] IN sum[n]

Bit(condition) == IF condition THEN 1 ELSE 0

\* Whether a scope of the cfi suite, or one it calls, throws (all but the programs that sweep).
CfiHits(fn, args) ==
  LET id   == args[1]
      seed == args[Len(args)]
      n    == seed + id
  IN  CASE fn \in {"linear_try", "linearCase"}           -> n % 16 = id % 4
        [] fn \in {"template_try", "templateCandidate"}  -> XorLow(seed, id) % 17 = 5
        [] fn = "towerLeaf"                              -> n % 8 = id % 2
        [] fn \in {"towerMid", "tower_mid_try"}          -> (seed + 3 + id) % 8 = id % 2
        [] fn \in {"towerRoot", "tower_root_try"}        -> (seed + 5 + 3 + id) % 8 = id % 2
        [] fn \in {"poly_try", "PolyNode::eval"}         -> n % 19 = 7
        [] fn \in {"table_try", "tableCase"}             -> n % 23 = 9
        [] fn = "Recursor"                   -> (seed + ((id * (id + 1)) \div 2)) % 4 = 0
        [] fn \in {"program06", "recursor_try"}          -> (seed + 3 + 171) % 4 = 0
        [] fn \in {"container_try", "containerCase"}     -> n % 29 = 11
        [] fn \in {"cleanup_try", "cleanupCase"}         -> n % 8 = 3
        [] OTHER                                         -> FALSE

\* Whether one of the six plain cases of the extended suite throws.
ExtHits(fn, args) ==
  LET n == args[Len(args)] + args[1]
  IN  CASE fn \in {"wide_try", "wideCase"}           -> n % 11 = args[1] % 3
        [] fn \in {"member_try", "MemberCluster::op"} -> n % 13 = 4
        [] fn \in {"tuple_try", "tupleCase"}         -> n % 17 = 8
        [] fn \in {"deque_try", "dequeCase"}         -> n % 19 = 6
        [] fn \in {"heap_try", "optionalHeapCase"}   -> n % 23 = 10
        [] fn \in {"callback_try", "callbackCase"}   -> n % 29 = 12
        [] OTHER                                     -> FALSE

\* The cases that capture, whether they throw or not, and not only in destructors.
Walked == {"linear_try", "linearCase", "table_try", "tableCase", "wide_try", "wideCase",
           "member_try", "MemberCluster::op", "tuple_try", "tupleCase", "deque_try",
           "dequeCase", "heap_try", "optionalHeapCase", "callback_try", "callbackCase"}

CaseAmount(account, fn, args) ==
  CASE account = "hits"   -> Bit(CfiHits(fn, args))
    [] account = "throws" -> 0 - Bit(ExtHits(fn, args))
    [] account = "walks"  -> 0 - Bit(fn \in Walked)

\* The programs that sweep a table of cases.
Swept == {"program01", "program02", "program03", "program04", "program05", "program07",
          "program10", "program11", "program12", "program14", "program15", "program18",
          "program19"}

ProgramAmount(account, entry, fn, args) ==
  LET body == SuiteBody(entry, fn, args, NoException)
      amount == [k \in 1 .. Len(body) |->
                   IF body[k].op = "count" THEN 0
                   ELSE CaseAmount(account, body[k].fn, body[k].args)]
  IN  IF fn \in Swept THEN Total(amount, Len(body)) ELSE CaseAmount(account, fn, args)

RoundAmount(account, entry, args) ==
  LET body == SuiteBody(entry, "runAllPrograms", args, NoException)
  IN  Total([k \in 1 .. Len(body) |->
               ProgramAmount(account, entry, body[k].fn, body[k].args)], Len(body))

SeededWork(account, entry, fn, args) ==
  LET rounds == SuiteBody(entry, entry, args, NoException)
  IN  CASE fn = entry -> Total([k \in 1 .. Len(rounds) |->
                                  RoundAmount(account, entry, rounds[k].args)], Len(rounds))
        [] fn \in {"round_try", "runAllPrograms"} -> RoundAmount(account, entry, args)
        [] OTHER -> ProgramAmount(account, entry, fn, args)
=============================================================================
