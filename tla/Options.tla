------------------------------ MODULE Options -------------------------------
(***************************************************************************)
(* src/driver.cpp: parseArgs and parseInt, from argv to the options main   *)
(* runs with.  A word of the command line is a member of a small set; what *)
(* strtol makes of a word is the constant Numeral, defined on the words it *)
(* reads to their end without an error.                                    *)
(***************************************************************************)
EXTENDS Integers, Sequences, FiniteSetsExt

CONSTANTS
  CommandLines, \* argv[1], argv[2], ... of the runs considered
  Numeral,      \* the long strtol(word, &end, 0) returns
  IntMax        \* INT_MAX

ASSUME OptionsAssumption ==
  /\ \A line \in CommandLines : line \in Seq(STRING)
  /\ Numeral \in [DOMAIN Numeral -> Int]
  /\ IntMax \in Nat /\ IntMax >= 64

ValueFlags == {"--lib", "--plugin", "--iterations", "--dlclose-rounds"}
PlainFlags == {"--no-plugin", "--no-strict-dso", "--verbose"}

VARIABLES
  line,     \* argv without the program's name
  position, \* i of the loop
  options,  \* Options
  outcome   \* "parsing", then what main does: run, or exit with 2 or 0

vars == << line, position, options, outcome >>

DefaultOptions ==
  [ library        |-> "./libunwind_cfi_cases.so",
    plugin         |-> "nullptr",
    iterations     |-> 6,
    dlclose_rounds |-> 64,
    strict         |-> TRUE,
    verbose        |-> FALSE,
    use_plugin     |-> TRUE ]

Init ==
  /\ line \in CommandLines
  /\ position = 1
  /\ options = DefaultOptions
  /\ outcome = "parsing"

\* static_cast<int>(value): two's complement, modulo the width of int.
Narrow(value) == ((value + IntMax + 1) % (2 * (IntMax + 1))) - (IntMax + 1)

ParseInt(word, fallback) ==
  IF word \in DOMAIN Numeral THEN Narrow(Numeral[word]) ELSE fallback

Parsing(words) ==
  /\ outcome = "parsing"
  /\ position <= Len(line)
  /\ line[position] \in words

Word == line[position + 1]

\* A flag with its value, which is the next word whatever it says.
TakeValue(flag) ==
  /\ Parsing({flag})
  /\ position < Len(line)
  /\ position' = position + 2
  /\ UNCHANGED << line, outcome >>

SetLibrary ==
  /\ TakeValue("--lib")
  /\ options' = [options EXCEPT !.library = Word]

\* Mutant of SetPlugin: a path does not bring the plugin back.
SetPluginPathOnly ==
  /\ TakeValue("--plugin")
  /\ options' = [options EXCEPT !.plugin = Word]

SetPlugin ==
  /\ TakeValue("--plugin")
  /\ options' = [options EXCEPT !.plugin = Word, !.use_plugin = TRUE]

SetIterations ==
  /\ TakeValue("--iterations")
  /\ options' = [options EXCEPT !.iterations = ParseInt(Word, @)]

SetRounds ==
  /\ TakeValue("--dlclose-rounds")
  /\ options' = [options EXCEPT !.dlclose_rounds = ParseInt(Word, @)]

SetFlag ==
  /\ Parsing(PlainFlags)
  /\ position' = position + 1
  /\ options' = CASE line[position] = "--no-plugin"     -> [options EXCEPT !.use_plugin = FALSE]
                  [] line[position] = "--no-strict-dso" -> [options EXCEPT !.strict = FALSE]
                  [] line[position] = "--verbose"       -> [options EXCEPT !.verbose = TRUE]
  /\ UNCHANGED << line, outcome >>

\* usage and exit(0), on the spot.
Help ==
  /\ Parsing({"--help", "-h"})
  /\ outcome' = "help"
  /\ UNCHANGED << line, position, options >>

\* Mutant of Usage: a flag that lacks its value is not an error.
UsageUnknown ==
  /\ outcome = "parsing"
  /\ position <= Len(line)
  /\ \/ line[position] \notin ValueFlags \cup PlainFlags \cup {"--help", "-h"} /\ outcome' = "usage"
     \/ line[position] \in ValueFlags /\ position = Len(line) /\ outcome' = "run"
  /\ UNCHANGED << line, position, options >>

\* A word that is no flag, or a flag that lacks its value: main returns 2.
Usage ==
  /\ outcome = "parsing"
  /\ position <= Len(line)
  /\ \/ line[position] \notin ValueFlags \cup PlainFlags \cup {"--help", "-h"}
     \/ line[position] \in ValueFlags /\ position = Len(line)
  /\ outcome' = "usage"
  /\ UNCHANGED << line, position, options >>

AtLeastOne(count) == IF count <= 0 THEN 1 ELSE count

\* Mutant of Finish: only zero is replaced.
FinishZeroOnly ==
  /\ outcome = "parsing"
  /\ position > Len(line)
  /\ options' = [options EXCEPT !.iterations = IF @ = 0 THEN 1 ELSE @,
                                !.dlclose_rounds = IF @ = 0 THEN 1 ELSE @]
  /\ outcome' = "run"
  /\ UNCHANGED << line, position >>

Finish ==
  /\ outcome = "parsing"
  /\ position > Len(line)
  /\ options' = [options EXCEPT !.iterations = AtLeastOne(@),
                                !.dlclose_rounds = AtLeastOne(@)]
  /\ outcome' = "run"
  /\ UNCHANGED << line, position >>

Next ==
  \/ SetLibrary \/ SetPlugin \/ SetIterations \/ SetRounds
  \/ SetFlag \/ Help \/ Usage \/ Finish

Spec == Init /\ [][Next]_vars

(* ---------------- What a command line asks for, as a whole -------------- *)

\* A word is read as a flag, and not as a value, when the flags that take a value
\* and stand right before it are even in number: each of them reads the next one.
ReadAsFlag(w, i) ==
  \E s \in 1 .. i :
    /\ \A k \in s .. i - 1 : w[k] \in ValueFlags
    /\ s > 1 => w[s - 1] \notin ValueFlags
    /\ (i - s) % 2 = 0

Heads(w) == { i \in 1 .. Len(w) : ReadAsFlag(w, i) }

\* Where a flag stands among the first p - 1 words.
Given(w, flag, p) == { i \in Heads(w) : i < p /\ w[i] = flag }

\* The last value given wins, and the last number given.
Choice(w, flag, p, default) ==
  LET S == Given(w, flag, p)
  IN  IF S = {} THEN default ELSE w[Max(S) + 1]

Numbers(w, flag, p) == { i \in Given(w, flag, p) : w[i + 1] \in DOMAIN Numeral }

Count(w, flag, p, default) ==
  LET S == Numbers(w, flag, p)
  IN  IF S = {} THEN default ELSE Narrow(Numeral[w[Max(S) + 1]])

\* The plugin is left out when --no-plugin comes after the last --plugin.
PluginWanted(w, p) ==
  \A i \in Given(w, "--no-plugin", p) : \E j \in Given(w, "--plugin", p) : j > i

Asked(w, p) ==
  [ library        |-> Choice(w, "--lib", p, DefaultOptions.library),
    plugin         |-> Choice(w, "--plugin", p, DefaultOptions.plugin),
    iterations     |-> Count(w, "--iterations", p, DefaultOptions.iterations),
    dlclose_rounds |-> Count(w, "--dlclose-rounds", p, DefaultOptions.dlclose_rounds),
    strict         |-> Given(w, "--no-strict-dso", p) = {},
    verbose        |-> Given(w, "--verbose", p) # {},
    use_plugin     |-> PluginWanted(w, p) ]

\* Positions no option can be read at.
Malformed(w, i) ==
  \/ w[i] \notin ValueFlags \cup PlainFlags \cup {"--help", "-h"}
  \/ w[i] \in ValueFlags /\ i = Len(w)

(* ----------------------------- Properties ----------------------------- *)

\* What the loop has taken from the words before its position is what they ask for
\* when the line is read as a whole: a flag that serves as a value is not obeyed,
\* the last usable value of each kind wins over earlier ones and over later ones
\* that are no numbers, and --no-plugin holds unless a later --plugin undoes it.
\* main runs with exactly that, nonpositive counts replaced.
LineHonoured ==
  LET asked == Asked(line, position)
  IN  /\ outcome = "parsing" => options = asked
      /\ outcome = "run" =>
           /\ position = Len(line) + 1
           /\ options = [asked EXCEPT !.iterations = AtLeastOne(@),
                                      !.dlclose_rounds = AtLeastOne(@)]

\* main runs only if no word is malformed and no help is asked for; it refuses the
\* line for its first such word, and a --help after that word does not save it.
LineJudged ==
  \/ outcome = "parsing"
  \/ /\ outcome = "run"
     /\ \A i \in Heads(line) : ~Malformed(line, i) /\ line[i] \notin {"--help", "-h"}
  \/ /\ outcome \in {"usage", "help"}
     /\ position \in Heads(line)
     /\ IF outcome = "usage" THEN Malformed(line, position) ELSE line[position] \in {"--help", "-h"}
     /\ \A i \in Heads(line) : i < position => ~Malformed(line, i) /\ line[i] \notin {"--help", "-h"}

\* The counts main runs with are positive, also when parseInt has narrowed a number
\* that does not fit an int to one that is negative or zero.
CountsPositive ==
  outcome = "run" => options.iterations \in 1 .. IntMax /\ options.dlclose_rounds \in 1 .. IntMax

\* README: "--dlclose-rounds <N>: number of repeated load/unload rounds".
RoundsAsAsked ==
  outcome = "run" =>
    LET S == Numbers(line, "--dlclose-rounds", position)
    IN  S # {} /\ Numeral[line[Max(S) + 1]] >= 1 =>
          options.dlclose_rounds = Numeral[line[Max(S) + 1]]
=============================================================================
