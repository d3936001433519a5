------------------------------- MODULE Loader -------------------------------
(***************************************************************************)
(* The dynamic loader as the driver uses it (external: libdl).  A library  *)
(* stays mapped while it is referenced; when the last reference goes its   *)
(* static destructors run and it is unmapped, unless it is pinned.  The    *)
(* first mapped library that defines an STB_GNU_UNIQUE symbol becomes its  *)
(* definition for the rest of the process and is pinned; later definers    *)
(* bind to it and are not.                                                 *)
(***************************************************************************)
EXTENDS Integers, FiniteSets

CONSTANT Builds \* which libraries define STB_GNU_UNIQUE symbols, for each build considered

Libraries == {"main", "plugin"}

ASSUME LoaderAssumption == Builds \subseteq SUBSET Libraries

VARIABLES
  unique,    \* the libraries of this build that define such symbols
  refs,      \* successful dlopens of a library not yet matched by a dlclose
  pinned,    \* libraries that will never be unmapped
  teardowns, \* times a library's static destructors ran at a dlclose
  refused    \* libraries for which a dlclose has reported an error (history)

loaderVars == << unique, refs, pinned, teardowns, refused >>

LoaderInit ==
  /\ unique \in Builds
  /\ refs = [l \in Libraries |-> 0]
  /\ pinned = {}
  /\ teardowns = [l \in Libraries |-> 0]
  /\ refused = {}

\* dlopen(lib, RTLD_NOW | RTLD_LOCAL) returns a handle.
Open(lib) ==
  /\ refs' = [refs EXCEPT ![lib] = @ + 1]
  /\ pinned' = IF lib \in unique /\ pinned = {} THEN {lib} ELSE pinned
  /\ UNCHANGED << unique, teardowns, refused >>

\* dlclose(handle) returns 0.
Close(lib) ==
  /\ refs' = [refs EXCEPT ![lib] = @ - 1]
  /\ teardowns' = IF refs[lib] = 1 /\ lib \notin pinned
                  THEN [teardowns EXCEPT ![lib] = @ + 1]
                  ELSE teardowns
  /\ UNCHANGED << unique, pinned, refused >>

\* dlclose(handle) returns an error and the reference stays.
Refuse(lib) ==
  /\ refused' = refused \cup {lib}
  /\ UNCHANGED << unique, refs, pinned, teardowns >>
=============================================================================
