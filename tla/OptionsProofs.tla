---------------------------- MODULE OptionsProofs ---------------------------
(***************************************************************************)
(* For every command line and every width of int: the loop of parseArgs    *)
(* honours and judges the line as it reads as a whole, and the counts main *)
(* runs with are positive.                                                 *)
(***************************************************************************)
EXTENDS Options, TLAPS

Helps == {"--help", "-h"}
Ints == -(IntMax + 1) .. IntMax

\* Behind its position the loop has met neither a malformed word nor a help.
Clean(w, p) == \A i \in Heads(w) : i < p => ~Malformed(w, i) /\ w[i] \notin Helps

IInv ==
  /\ line \in CommandLines
  /\ outcome \in {"parsing", "run", "usage", "help"}
  /\ position \in 1 .. Len(line) + 1
  /\ outcome = "parsing" => ReadAsFlag(line, position) /\ Clean(line, position)
  /\ options.iterations \in Ints /\ options.dlclose_rounds \in Ints
  /\ LineHonoured /\ LineJudged /\ CountsPositive

-----------------------------------------------------------------------------

LEMMA LineIs == ASSUME line \in CommandLines PROVE Len(line) \in Nat
BY OptionsAssumption

LEMMA MaxIs ==
  ASSUME NEW S, S \subseteq Int, NEW m \in S, \A y \in S : m >= y
  PROVE  Max(S) = m
<1>1. \E x \in S : \A y \in S : x >= y
  OBVIOUS
<1>2. Max(S) \in S /\ \A y \in S : Max(S) >= y
  BY <1>1, Zenon DEF Max
<1>3. Max(S) \in Int /\ m \in Int /\ Max(S) >= m /\ m >= Max(S)
  BY <1>2
<1> QED
  BY <1>3

\* The first word is a flag, and so is what follows a word that takes no value.
LEMMA FirstIsFlag == ASSUME NEW w PROVE ReadAsFlag(w, 1)
<1>1. /\ 1 \in 1 .. 1
      /\ \A k \in 1 .. 1 - 1 : w[k] \in ValueFlags
      /\ 1 > 1 => w[1 - 1] \notin ValueFlags
      /\ (1 - 1) % 2 = 0
  OBVIOUS
<1> QED
  BY <1>1 DEF ReadAsFlag

LEMMA AfterPlain ==
  ASSUME NEW w, NEW p \in Nat \ {0}, w[p] \notin ValueFlags
  PROVE  ReadAsFlag(w, p + 1)
<1>1. /\ p + 1 \in 1 .. p + 1
      /\ \A k \in p + 1 .. (p + 1) - 1 : w[k] \in ValueFlags
      /\ w[(p + 1) - 1] \notin ValueFlags
      /\ ((p + 1) - (p + 1)) % 2 = 0
  OBVIOUS
<1> QED
  BY <1>1 DEF ReadAsFlag

\* What follows a flag that takes a value is the value, and then comes a flag.
LEMMA AfterValueFlag ==
  ASSUME NEW w, NEW p \in Nat \ {0}, ReadAsFlag(w, p), w[p] \in ValueFlags
  PROVE  ~ReadAsFlag(w, p + 1) /\ ReadAsFlag(w, p + 2)
<1>1. PICK s \in 1 .. p : /\ \A k \in s .. p - 1 : w[k] \in ValueFlags
                          /\ s > 1 => w[s - 1] \notin ValueFlags
                          /\ (p - s) % 2 = 0
  BY DEF ReadAsFlag
<1>2. \A k \in s .. p : w[k] \in ValueFlags
  BY <1>1
<1>3. ASSUME ReadAsFlag(w, p + 1) PROVE FALSE
  <2>1. PICK r \in 1 .. p + 1 : /\ \A k \in r .. (p + 1) - 1 : w[k] \in ValueFlags
                                /\ r > 1 => w[r - 1] \notin ValueFlags
                                /\ ((p + 1) - r) % 2 = 0
    BY <1>3 DEF ReadAsFlag
  <2>2. ~(r < s)
    <3> SUFFICES ASSUME r < s PROVE FALSE
      OBVIOUS
    <3>1. s - 1 \in r .. (p + 1) - 1 /\ s > 1
      BY <1>1, <2>1
    <3> QED
      BY <1>1, <2>1, <3>1
  <2>3. ~(r > s)
    <3> SUFFICES ASSUME r > s PROVE FALSE
      OBVIOUS
    <3>1. r - 1 \in s .. p /\ r > 1
      BY <1>1, <2>1
    <3> QED
      BY <1>2, <2>1, <3>1
  <2> QED
    BY <1>1, <2>1, <2>2, <2>3
<1>4. CASE w[p + 1] \notin ValueFlags
  <2>1. ReadAsFlag(w, (p + 1) + 1)
    BY <1>4, AfterPlain
  <2> QED
    BY <1>3, <2>1
<1>5. CASE w[p + 1] \in ValueFlags
  <2>1. /\ s \in 1 .. p + 2
        /\ \A k \in s .. (p + 2) - 1 : w[k] \in ValueFlags
        /\ s > 1 => w[s - 1] \notin ValueFlags
        /\ ((p + 2) - s) % 2 = 0
    BY <1>1, <1>2, <1>5
  <2> QED
    BY <1>3, <2>1 DEF ReadAsFlag
<1> QED
  BY <1>4, <1>5

-----------------------------------------------------------------------------

\* From p the loop goes to q: past p alone, or past p and its value.
Advance(w, p, q) ==
  /\ p \in 1 .. Len(w)
  /\ ReadAsFlag(w, p)
  /\ \/ q = p + 1
     \/ q = p + 2 /\ ~ReadAsFlag(w, p + 1)

\* The word at p is the only one to join those the loop has read as flags.
LEMMA HeadsAdvance ==
  ASSUME NEW w, Len(w) \in Nat, NEW p, NEW q, Advance(w, p, q)
  PROVE  /\ p \in Heads(w) /\ p \in Nat
         /\ \A i \in Heads(w) : i \in Nat /\ (i < q <=> i < p \/ i = p)
BY DEF Advance, Heads

LEMMA GivenAdvance ==
  ASSUME NEW w, Len(w) \in Nat, NEW p, NEW q, Advance(w, p, q), NEW flag
  PROVE  /\ Given(w, flag, p) \subseteq Nat
         /\ \A i \in Given(w, flag, p) : i < p
         /\ w[p] # flag => Given(w, flag, q) = Given(w, flag, p)
         /\ w[p] = flag => Given(w, flag, q) = Given(w, flag, p) \cup {p}
<1>1. \A i : i \in Given(w, flag, q) <=> i \in Given(w, flag, p) \/ (i = p /\ w[p] = flag)
  BY HeadsAdvance DEF Given
<1>2. \A i \in Given(w, flag, p) : i \in Nat /\ i < p
  BY HeadsAdvance DEF Given
<1> QED
  BY <1>1, <1>2

LEMMA ChoiceAdvance ==
  ASSUME NEW w, Len(w) \in Nat, NEW p, NEW q, Advance(w, p, q), NEW flag, NEW default
  PROVE  Choice(w, flag, q, default) =
           IF w[p] = flag THEN w[p + 1] ELSE Choice(w, flag, p, default)
<1>1. CASE w[p] = flag
  <2> DEFINE S == Given(w, flag, p) \cup {p}
  <2>1. Given(w, flag, q) = S /\ p \in Nat /\ S \subseteq Int /\ \A y \in S : p >= y
    BY <1>1, GivenAdvance, HeadsAdvance
  <2>2. Max(S) = p
    BY <2>1, MaxIs
  <2> QED
    BY <1>1, <2>1, <2>2 DEF Choice
<1>2. CASE w[p] # flag
  BY <1>2, GivenAdvance DEF Choice
<1> QED
  BY <1>1, <1>2

LEMMA NumbersAdvance ==
  ASSUME NEW w, Len(w) \in Nat, NEW p, NEW q, Advance(w, p, q), NEW flag
  PROVE  Numbers(w, flag, q) =
           IF w[p] = flag /\ w[p + 1] \in DOMAIN Numeral
           THEN Numbers(w, flag, p) \cup {p} ELSE Numbers(w, flag, p)
<1>1. \A i : i \in Given(w, flag, q) <=> i \in Given(w, flag, p) \/ (i = p /\ w[p] = flag)
  <2>1. CASE w[p] = flag
    BY <2>1, GivenAdvance
  <2>2. CASE w[p] # flag
    BY <2>2, GivenAdvance
  <2> QED
    BY <2>1, <2>2
<1>2. \A i : i \in Numbers(w, flag, q) <=>
        i \in Numbers(w, flag, p) \/ (i = p /\ w[p] = flag /\ w[p + 1] \in DOMAIN Numeral)
  BY <1>1 DEF Numbers
<1> QED
  BY <1>2

LEMMA CountAdvance ==
  ASSUME NEW w, Len(w) \in Nat, NEW p, NEW q, Advance(w, p, q), NEW flag, NEW default
  PROVE  Count(w, flag, q, default) =
           IF w[p] = flag THEN ParseInt(w[p + 1], Count(w, flag, p, default))
           ELSE Count(w, flag, p, default)
<1>1. CASE w[p] = flag /\ w[p + 1] \in DOMAIN Numeral
  <2> DEFINE S == Numbers(w, flag, p) \cup {p}
  <2>1. Numbers(w, flag, q) = S
    BY <1>1, NumbersAdvance
  <2>2. p \in Nat /\ Given(w, flag, p) \subseteq Nat /\ \A i \in Given(w, flag, p) : i < p
    BY GivenAdvance, HeadsAdvance
  <2>3. S \subseteq Int /\ \A y \in S : p >= y
    BY <2>2 DEF Numbers
  <2>4. Max(S) = p
    BY <2>2, <2>3, MaxIs
  <2> QED
    BY <1>1, <2>1, <2>4 DEF Count, ParseInt
<1>2. CASE w[p] = flag /\ w[p + 1] \notin DOMAIN Numeral
  <2>1. Numbers(w, flag, q) = Numbers(w, flag, p)
    BY <1>2, NumbersAdvance
  <2> QED
    BY <1>2, <2>1 DEF Count, ParseInt
<1>3. CASE w[p] # flag
  <2>1. Numbers(w, flag, q) = Numbers(w, flag, p)
    BY <1>3, NumbersAdvance
  <2> QED
    BY <1>3, <2>1 DEF Count
<1> QED
  BY <1>1, <1>2, <1>3

LEMMA PluginAdvance ==
  ASSUME NEW w, Len(w) \in Nat, NEW p, NEW q, Advance(w, p, q)
  PROVE  PluginWanted(w, q) =
           IF w[p] = "--plugin" THEN TRUE
           ELSE IF w[p] = "--no-plugin" THEN FALSE ELSE PluginWanted(w, p)
<1>1. /\ p \in Nat
      /\ \A f \in {"--plugin", "--no-plugin"} : \A i \in Given(w, f, p) : i \in Nat /\ i < p
  BY GivenAdvance, HeadsAdvance
<1>2. CASE w[p] = "--plugin"
  <2>1. /\ Given(w, "--plugin", q) = Given(w, "--plugin", p) \cup {p}
        /\ Given(w, "--no-plugin", q) = Given(w, "--no-plugin", p)
    BY <1>2, GivenAdvance
  <2> QED
    BY <1>1, <1>2, <2>1 DEF PluginWanted
<1>3. CASE w[p] = "--no-plugin"
  <2>1. /\ Given(w, "--plugin", q) = Given(w, "--plugin", p)
        /\ Given(w, "--no-plugin", q) = Given(w, "--no-plugin", p) \cup {p}
    BY <1>3, GivenAdvance
  <2> QED
    BY <1>1, <1>3, <2>1 DEF PluginWanted
<1>4. CASE w[p] \notin {"--plugin", "--no-plugin"}
  <2>1. /\ Given(w, "--plugin", q) = Given(w, "--plugin", p)
        /\ Given(w, "--no-plugin", q) = Given(w, "--no-plugin", p)
    BY <1>4, GivenAdvance
  <2> QED
    BY <1>4, <2>1 DEF PluginWanted
<1> QED
  BY <1>2, <1>3, <1>4

\* What the line asks for up to q, from what it asks for up to p.
LEMMA AskedAdvance ==
  ASSUME NEW w, Len(w) \in Nat, NEW p, NEW q, Advance(w, p, q)
  PROVE  Asked(w, q) =
    LET asked == Asked(w, p)
    IN  [ library        |-> IF w[p] = "--lib" THEN w[p + 1] ELSE asked.library,
          plugin         |-> IF w[p] = "--plugin" THEN w[p + 1] ELSE asked.plugin,
          iterations     |-> IF w[p] = "--iterations" THEN ParseInt(w[p + 1], asked.iterations)
                             ELSE asked.iterations,
          dlclose_rounds |-> IF w[p] = "--dlclose-rounds"
                             THEN ParseInt(w[p + 1], asked.dlclose_rounds)
                             ELSE asked.dlclose_rounds,
          strict         |-> IF w[p] = "--no-strict-dso" THEN FALSE ELSE asked.strict,
          verbose        |-> IF w[p] = "--verbose" THEN TRUE ELSE asked.verbose,
          use_plugin     |-> IF w[p] = "--plugin" THEN TRUE
                             ELSE IF w[p] = "--no-plugin" THEN FALSE ELSE asked.use_plugin ]
<1>1. (Given(w, "--no-strict-dso", q) = {}) =
        IF w[p] = "--no-strict-dso" THEN FALSE ELSE Given(w, "--no-strict-dso", p) = {}
  <2>1. w[p] = "--no-strict-dso" => p \in Given(w, "--no-strict-dso", q)
    BY GivenAdvance
  <2>2. w[p] # "--no-strict-dso" => Given(w, "--no-strict-dso", q) = Given(w, "--no-strict-dso", p)
    BY GivenAdvance
  <2> QED
    BY <2>1, <2>2
<1>2. (Given(w, "--verbose", q) # {}) =
        IF w[p] = "--verbose" THEN TRUE ELSE Given(w, "--verbose", p) # {}
  <2>1. w[p] = "--verbose" => p \in Given(w, "--verbose", q)
    BY GivenAdvance
  <2>2. w[p] # "--verbose" => Given(w, "--verbose", q) = Given(w, "--verbose", p)
    BY GivenAdvance
  <2> QED
    BY <2>1, <2>2
<1>3. /\ Choice(w, "--lib", q, DefaultOptions.library) =
           IF w[p] = "--lib" THEN w[p + 1] ELSE Choice(w, "--lib", p, DefaultOptions.library)
      /\ Choice(w, "--plugin", q, DefaultOptions.plugin) =
           IF w[p] = "--plugin" THEN w[p + 1] ELSE Choice(w, "--plugin", p, DefaultOptions.plugin)
  BY ChoiceAdvance
<1>4. /\ Count(w, "--iterations", q, DefaultOptions.iterations) =
           IF w[p] = "--iterations"
           THEN ParseInt(w[p + 1], Count(w, "--iterations", p, DefaultOptions.iterations))
           ELSE Count(w, "--iterations", p, DefaultOptions.iterations)
      /\ Count(w, "--dlclose-rounds", q, DefaultOptions.dlclose_rounds) =
           IF w[p] = "--dlclose-rounds"
           THEN ParseInt(w[p + 1], Count(w, "--dlclose-rounds", p, DefaultOptions.dlclose_rounds))
           ELSE Count(w, "--dlclose-rounds", p, DefaultOptions.dlclose_rounds)
  BY CountAdvance
<1>5. PluginWanted(w, q) =
           IF w[p] = "--plugin" THEN TRUE
           ELSE IF w[p] = "--no-plugin" THEN FALSE ELSE PluginWanted(w, p)
  BY PluginAdvance
<1> QED
  BY <1>1, <1>2, <1>3, <1>4, <1>5 DEF Asked

-----------------------------------------------------------------------------

LEMMA NarrowIs == ASSUME NEW v \in Int PROVE Narrow(v) \in Ints
<1>1. IntMax \in Nat /\ 2 * (IntMax + 1) > 0
  BY OptionsAssumption
<1>2. (v + IntMax + 1) % (2 * (IntMax + 1)) \in 0 .. 2 * (IntMax + 1) - 1
  BY <1>1
<1> QED
  BY <1>1, <1>2 DEF Narrow, Ints

LEMMA ParseIntIs ==
  ASSUME NEW word, NEW fallback \in Ints
  PROVE  ParseInt(word, fallback) \in Ints
BY NarrowIs, OptionsAssumption DEF ParseInt

LEMMA InitInv == Init => IInv
<1> SUFFICES ASSUME Init PROVE IInv
  OBVIOUS
<1>1. Len(line) \in Nat
  BY LineIs DEF Init
<1>2. \A flag : Given(line, flag, 1) = {}
  BY <1>1 DEF Given, Heads
<1>3. Asked(line, 1) = DefaultOptions
  BY <1>2 DEF Asked, Choice, Numbers, Count, PluginWanted, DefaultOptions
<1>4. ReadAsFlag(line, 1) /\ Clean(line, 1)
  BY <1>1, FirstIsFlag DEF Clean, Heads
<1>5. DefaultOptions.iterations \in Ints /\ DefaultOptions.dlclose_rounds \in Ints
  BY OptionsAssumption DEF DefaultOptions, Ints
<1> QED
  BY <1>1, <1>3, <1>4, <1>5 DEF Init, IInv, LineHonoured, LineJudged, CountsPositive

\* An option read well: the loop stays inside what it has honoured.
LEMMA OptionKeeps ==
  ASSUME IInv, outcome = "parsing", UNCHANGED << line, outcome >>, NEW q, position' = q,
         q \in 1 .. Len(line) + 1,
         Advance(line, position, q), ReadAsFlag(line, q),
         ~Malformed(line, position), line[position] \notin Helps,
         options' = Asked(line, q),
         options'.iterations \in Ints, options'.dlclose_rounds \in Ints
  PROVE  IInv'
<1>1. Clean(line, q)
  BY HeadsAdvance, LineIs DEF IInv, Clean
<1> QED
  BY <1>1 DEF IInv, LineHonoured, LineJudged, CountsPositive

\* The two ways to advance.
LEMMA ValueAdvance ==
  ASSUME IInv, NEW flag \in ValueFlags, TakeValue(flag)
  PROVE  /\ outcome = "parsing" /\ UNCHANGED << line, outcome >>
         /\ line[position] = flag /\ position' = position + 2
         /\ position + 2 \in 1 .. Len(line) + 1
         /\ Advance(line, position, position + 2) /\ ReadAsFlag(line, position + 2)
         /\ ~Malformed(line, position) /\ line[position] \notin Helps
         /\ options = Asked(line, position)
<1>1. /\ outcome = "parsing" /\ line[position] = flag /\ position < Len(line)
      /\ position' = position + 2 /\ UNCHANGED << line, outcome >>
      /\ Len(line) \in Nat /\ position \in Nat \ {0} /\ ReadAsFlag(line, position)
      /\ options = Asked(line, position)
  BY LineIs DEF TakeValue, Parsing, IInv, LineHonoured
<1>2. ~ReadAsFlag(line, position + 1) /\ ReadAsFlag(line, position + 2)
  BY <1>1, AfterValueFlag
<1> QED
  BY <1>1, <1>2 DEF Advance, Malformed, Helps, ValueFlags

\* A record with the fields of Options, whatever they hold.
LEMMA AskedFields ==
  ASSUME NEW w, NEW p
  PROVE  LET a == Asked(w, p)
         IN  a = [ library |-> a.library, plugin |-> a.plugin, iterations |-> a.iterations,
                   dlclose_rounds |-> a.dlclose_rounds, strict |-> a.strict,
                   verbose |-> a.verbose, use_plugin |-> a.use_plugin ]
BY DEF Asked

\* SetPlugin sets two fields at once.
LEMMA PluginFields ==
  ASSUME NEW r, NEW u, NEW v,
         r = [ library |-> r.library, plugin |-> r.plugin, iterations |-> r.iterations,
               dlclose_rounds |-> r.dlclose_rounds, strict |-> r.strict,
               verbose |-> r.verbose, use_plugin |-> r.use_plugin ]
  PROVE  [r EXCEPT !.plugin = u, !.use_plugin = v] =
           [ library |-> r.library, plugin |-> u, iterations |-> r.iterations,
             dlclose_rounds |-> r.dlclose_rounds, strict |-> r.strict,
             verbose |-> r.verbose, use_plugin |-> v ]
<1>1. PICK m : m = [r EXCEPT !.plugin = u]
  OBVIOUS
<1>2. m = [ library |-> r.library, plugin |-> u, iterations |-> r.iterations,
            dlclose_rounds |-> r.dlclose_rounds, strict |-> r.strict,
            verbose |-> r.verbose, use_plugin |-> r.use_plugin ]
  BY <1>1
<1>3. [m EXCEPT !.use_plugin = v] =
        [ library |-> r.library, plugin |-> u, iterations |-> r.iterations,
          dlclose_rounds |-> r.dlclose_rounds, strict |-> r.strict,
          verbose |-> r.verbose, use_plugin |-> v ]
  BY <1>2
<1>4. [r EXCEPT !.plugin = u, !.use_plugin = v] = [m EXCEPT !.use_plugin = v]
  BY <1>1
<1> QED
  BY <1>3, <1>4

LEMMA SetLibraryKeeps == IInv /\ SetLibrary => IInv'
<1> SUFFICES ASSUME IInv, SetLibrary PROVE IInv'
  OBVIOUS
<1>1. TakeValue("--lib") /\ options' = [options EXCEPT !.library = Word]
  BY DEF SetLibrary
<1>2. /\ position' = position + 2 /\ Advance(line, position, position + 2)
      /\ line[position] = "--lib" /\ options = Asked(line, position)
      /\ outcome = "parsing" /\ UNCHANGED << line, outcome >>
      /\ position + 2 \in 1 .. Len(line) + 1 /\ ReadAsFlag(line, position + 2)
      /\ ~Malformed(line, position) /\ line[position] \notin Helps
  BY <1>1, ValueAdvance DEF ValueFlags
<1>3. Asked(line, position + 2) =
        [ library |-> Word, plugin |-> options.plugin,
          iterations |-> options.iterations, dlclose_rounds |-> options.dlclose_rounds,
          strict |-> options.strict, verbose |-> options.verbose, use_plugin |-> options.use_plugin ]
  BY <1>2, AskedAdvance, LineIs DEF IInv, Word
<1>4. options =
        [ library |-> options.library, plugin |-> options.plugin,
          iterations |-> options.iterations, dlclose_rounds |-> options.dlclose_rounds,
          strict |-> options.strict, verbose |-> options.verbose, use_plugin |-> options.use_plugin ]
  BY <1>2, AskedFields
<1>5. options' = Asked(line, position + 2)
  BY <1>1, <1>3, <1>4
<1>6. options'.iterations \in Ints /\ options'.dlclose_rounds \in Ints
  BY <1>3, <1>5 DEF IInv
<1> QED
  BY <1>2, <1>5, <1>6, OptionKeeps

LEMMA SetPluginKeeps == IInv /\ SetPlugin => IInv'
<1> SUFFICES ASSUME IInv, SetPlugin PROVE IInv'
  OBVIOUS
<1>1. TakeValue("--plugin") /\ options' = [options EXCEPT !.plugin = Word, !.use_plugin = TRUE]
  BY DEF SetPlugin
<1>2. /\ position' = position + 2 /\ Advance(line, position, position + 2)
      /\ line[position] = "--plugin" /\ options = Asked(line, position)
      /\ outcome = "parsing" /\ UNCHANGED << line, outcome >>
      /\ position + 2 \in 1 .. Len(line) + 1 /\ ReadAsFlag(line, position + 2)
      /\ ~Malformed(line, position) /\ line[position] \notin Helps
  BY <1>1, ValueAdvance DEF ValueFlags
<1>3. Asked(line, position + 2) =
        [ library |-> options.library, plugin |-> Word,
          iterations |-> options.iterations, dlclose_rounds |-> options.dlclose_rounds,
          strict |-> options.strict, verbose |-> options.verbose, use_plugin |-> TRUE ]
  BY <1>2, AskedAdvance, LineIs DEF IInv, Word
<1>4. options =
        [ library |-> options.library, plugin |-> options.plugin,
          iterations |-> options.iterations, dlclose_rounds |-> options.dlclose_rounds,
          strict |-> options.strict, verbose |-> options.verbose, use_plugin |-> options.use_plugin ]
  BY <1>2, AskedFields
<1>5. options' = Asked(line, position + 2)
  <2>1. PICK v : v = TRUE
    OBVIOUS
  <2>2. options' = [options EXCEPT !.plugin = Word, !.use_plugin = v]
    BY <1>1, <2>1, Zenon
  <2>3. Asked(line, position + 2) =
          [ library |-> options.library, plugin |-> Word,
            iterations |-> options.iterations, dlclose_rounds |-> options.dlclose_rounds,
            strict |-> options.strict, verbose |-> options.verbose, use_plugin |-> v ]
    BY <1>3, <2>1, Zenon
  <2>4. [options EXCEPT !.plugin = Word, !.use_plugin = v] =
          [ library |-> options.library, plugin |-> Word,
            iterations |-> options.iterations, dlclose_rounds |-> options.dlclose_rounds,
            strict |-> options.strict, verbose |-> options.verbose, use_plugin |-> v ]
    BY <1>4, PluginFields
  <2> QED
    BY <2>2, <2>3, <2>4, Zenon
<1>6. options'.iterations \in Ints /\ options'.dlclose_rounds \in Ints
  BY <1>3, <1>5 DEF IInv
<1> QED
  BY <1>2, <1>5, <1>6, OptionKeeps

LEMMA SetIterationsKeeps == IInv /\ SetIterations => IInv'
<1> SUFFICES ASSUME IInv, SetIterations PROVE IInv'
  OBVIOUS
<1>1. TakeValue("--iterations") /\ options' = [options EXCEPT !.iterations = ParseInt(Word, @)]
  BY DEF SetIterations
<1>2. /\ position' = position + 2 /\ Advance(line, position, position + 2)
      /\ line[position] = "--iterations" /\ options = Asked(line, position)
      /\ outcome = "parsing" /\ UNCHANGED << line, outcome >>
      /\ position + 2 \in 1 .. Len(line) + 1 /\ ReadAsFlag(line, position + 2)
      /\ ~Malformed(line, position) /\ line[position] \notin Helps
  BY <1>1, ValueAdvance DEF ValueFlags
<1>3. Asked(line, position + 2) =
        [ library |-> options.library, plugin |-> options.plugin,
          iterations |-> ParseInt(Word, options.iterations), dlclose_rounds |-> options.dlclose_rounds,
          strict |-> options.strict, verbose |-> options.verbose, use_plugin |-> options.use_plugin ]
  BY <1>2, AskedAdvance, LineIs DEF IInv, Word
<1>4. options =
        [ library |-> options.library, plugin |-> options.plugin,
          iterations |-> options.iterations, dlclose_rounds |-> options.dlclose_rounds,
          strict |-> options.strict, verbose |-> options.verbose, use_plugin |-> options.use_plugin ]
  BY <1>2, AskedFields
<1>5. options' = Asked(line, position + 2)
  BY <1>1, <1>3, <1>4
<1>6. options'.iterations \in Ints /\ options'.dlclose_rounds \in Ints
  BY <1>3, <1>5, ParseIntIs DEF IInv
<1> QED
  BY <1>2, <1>5, <1>6, OptionKeeps

LEMMA SetRoundsKeeps == IInv /\ SetRounds => IInv'
<1> SUFFICES ASSUME IInv, SetRounds PROVE IInv'
  OBVIOUS
<1>1. TakeValue("--dlclose-rounds") /\ options' = [options EXCEPT !.dlclose_rounds = ParseInt(Word, @)]
  BY DEF SetRounds
<1>2. /\ position' = position + 2 /\ Advance(line, position, position + 2)
      /\ line[position] = "--dlclose-rounds" /\ options = Asked(line, position)
      /\ outcome = "parsing" /\ UNCHANGED << line, outcome >>
      /\ position + 2 \in 1 .. Len(line) + 1 /\ ReadAsFlag(line, position + 2)
      /\ ~Malformed(line, position) /\ line[position] \notin Helps
  BY <1>1, ValueAdvance DEF ValueFlags
<1>3. Asked(line, position + 2) =
        [ library |-> options.library, plugin |-> options.plugin,
          iterations |-> options.iterations, dlclose_rounds |-> ParseInt(Word, options.dlclose_rounds),
          strict |-> options.strict, verbose |-> options.verbose, use_plugin |-> options.use_plugin ]
  BY <1>2, AskedAdvance, LineIs DEF IInv, Word
<1>4. options =
        [ library |-> options.library, plugin |-> options.plugin,
          iterations |-> options.iterations, dlclose_rounds |-> options.dlclose_rounds,
          strict |-> options.strict, verbose |-> options.verbose, use_plugin |-> options.use_plugin ]
  BY <1>2, AskedFields
<1>5. options' = Asked(line, position + 2)
  BY <1>1, <1>3, <1>4
<1>6. options'.iterations \in Ints /\ options'.dlclose_rounds \in Ints
  BY <1>3, <1>5, ParseIntIs DEF IInv
<1> QED
  BY <1>2, <1>5, <1>6, OptionKeeps

LEMMA SetFlagKeeps == IInv /\ SetFlag => IInv'
<1> SUFFICES ASSUME IInv, SetFlag PROVE IInv'
  OBVIOUS
<1>1. /\ outcome = "parsing" /\ UNCHANGED << line, outcome >>
      /\ line[position] \in PlainFlags /\ position' = position + 1
      /\ position + 1 \in 1 .. Len(line) + 1
      /\ Advance(line, position, position + 1) /\ ReadAsFlag(line, position + 1)
      /\ ~Malformed(line, position) /\ line[position] \notin Helps
      /\ options = Asked(line, position)
  <2>1. /\ outcome = "parsing" /\ line[position] \in PlainFlags /\ position <= Len(line)
        /\ position' = position + 1 /\ UNCHANGED << line, outcome >>
        /\ Len(line) \in Nat /\ position \in Nat \ {0} /\ ReadAsFlag(line, position)
        /\ options = Asked(line, position)
    BY LineIs DEF SetFlag, Parsing, IInv, LineHonoured
  <2>2. line[position] \notin ValueFlags /\ line[position] \notin Helps
    BY <2>1 DEF PlainFlags, ValueFlags, Helps
  <2>3. ReadAsFlag(line, position + 1)
    BY <2>1, <2>2, AfterPlain
  <2> QED
    BY <2>1, <2>2, <2>3 DEF Advance, Malformed
<1>2. options =
        [ library |-> options.library, plugin |-> options.plugin,
          iterations |-> options.iterations, dlclose_rounds |-> options.dlclose_rounds,
          strict |-> options.strict, verbose |-> options.verbose, use_plugin |-> options.use_plugin ]
  BY <1>1, AskedFields
<1>3. CASE line[position] = "--no-plugin"
  <2>1. options' = [options EXCEPT !.use_plugin = FALSE]
    BY <1>3 DEF SetFlag
  <2>2. Asked(line, position + 1) =
          [ library |-> options.library, plugin |-> options.plugin,
            iterations |-> options.iterations, dlclose_rounds |-> options.dlclose_rounds,
            strict |-> options.strict, verbose |-> options.verbose, use_plugin |-> FALSE ]
    BY <1>1, <1>3, AskedAdvance, LineIs DEF IInv
  <2>3. options' = Asked(line, position + 1)
    <3>1. PICK v : v = FALSE
      OBVIOUS
    <3>2. options' = [options EXCEPT !.use_plugin = v]
      BY <2>1, <3>1, Zenon
    <3>3. Asked(line, position + 1) =
            [ library |-> options.library, plugin |-> options.plugin,
              iterations |-> options.iterations, dlclose_rounds |-> options.dlclose_rounds,
              strict |-> options.strict, verbose |-> options.verbose, use_plugin |-> v ]
      BY <2>2, <3>1, Zenon
    <3> QED
      BY <1>2, <3>2, <3>3
  <2>4. options'.iterations \in Ints /\ options'.dlclose_rounds \in Ints
    BY <2>2, <2>3 DEF IInv
  <2> QED
    BY <1>1, <2>3, <2>4, OptionKeeps
<1>4. CASE line[position] = "--no-strict-dso"
  <2>1. options' = [options EXCEPT !.strict = FALSE]
    BY <1>4 DEF SetFlag
  <2>2. Asked(line, position + 1) =
          [ library |-> options.library, plugin |-> options.plugin,
            iterations |-> options.iterations, dlclose_rounds |-> options.dlclose_rounds,
            strict |-> FALSE, verbose |-> options.verbose, use_plugin |-> options.use_plugin ]
    BY <1>1, <1>4, AskedAdvance, LineIs DEF IInv
  <2>3. options' = Asked(line, position + 1)
    <3>1. PICK v : v = FALSE
      OBVIOUS
    <3>2. options' = [options EXCEPT !.strict = v]
      BY <2>1, <3>1, Zenon
    <3>3. Asked(line, position + 1) =
            [ library |-> options.library, plugin |-> options.plugin,
              iterations |-> options.iterations, dlclose_rounds |-> options.dlclose_rounds,
              strict |-> v, verbose |-> options.verbose, use_plugin |-> options.use_plugin ]
      BY <2>2, <3>1, Zenon
    <3> QED
      BY <1>2, <3>2, <3>3
  <2>4. options'.iterations \in Ints /\ options'.dlclose_rounds \in Ints
    BY <2>2, <2>3 DEF IInv
  <2> QED
    BY <1>1, <2>3, <2>4, OptionKeeps
<1>5. CASE line[position] = "--verbose"
  <2>1. options' = [options EXCEPT !.verbose = TRUE]
    BY <1>5 DEF SetFlag
  <2>2. Asked(line, position + 1) =
          [ library |-> options.library, plugin |-> options.plugin,
            iterations |-> options.iterations, dlclose_rounds |-> options.dlclose_rounds,
            strict |-> options.strict, verbose |-> TRUE, use_plugin |-> options.use_plugin ]
    BY <1>1, <1>5, AskedAdvance, LineIs DEF IInv
  <2>3. options' = Asked(line, position + 1)
    <3>1. PICK v : v = TRUE
      OBVIOUS
    <3>2. options' = [options EXCEPT !.verbose = v]
      BY <2>1, <3>1, Zenon
    <3>3. Asked(line, position + 1) =
            [ library |-> options.library, plugin |-> options.plugin,
              iterations |-> options.iterations, dlclose_rounds |-> options.dlclose_rounds,
              strict |-> options.strict, verbose |-> v, use_plugin |-> options.use_plugin ]
      BY <2>2, <3>1, Zenon
    <3> QED
      BY <1>2, <3>2, <3>3
  <2>4. options'.iterations \in Ints /\ options'.dlclose_rounds \in Ints
    BY <2>2, <2>3 DEF IInv
  <2> QED
    BY <1>1, <2>3, <2>4, OptionKeeps
<1> QED
  BY <1>1, <1>3, <1>4, <1>5 DEF PlainFlags

\* The loop stands at a flag whenever it stands at a word.
LEMMA AtHead ==
  ASSUME IInv, outcome = "parsing", position <= Len(line)
  PROVE  position \in Heads(line) /\ Clean(line, position)
BY LineIs DEF IInv, Heads

LEMMA HelpKeeps == IInv /\ Help => IInv'
<1> SUFFICES ASSUME IInv, Help PROVE IInv'
  OBVIOUS
<1>1. /\ outcome = "parsing" /\ position <= Len(line) /\ line[position] \in Helps
      /\ outcome' = "help" /\ UNCHANGED << line, position, options >>
  BY DEF Help, Parsing, Helps
<1> QED
  BY <1>1, AtHead DEF IInv, LineHonoured, LineJudged, CountsPositive, Clean, Helps

LEMMA UsageKeeps == IInv /\ Usage => IInv'
<1> SUFFICES ASSUME IInv, Usage PROVE IInv'
  OBVIOUS
<1>1. /\ outcome = "parsing" /\ position <= Len(line) /\ Malformed(line, position)
      /\ outcome' = "usage" /\ UNCHANGED << line, position, options >>
  BY DEF Usage, Malformed
<1> QED
  BY <1>1, AtHead DEF IInv, LineHonoured, LineJudged, CountsPositive, Clean, Helps

LEMMA FinishKeeps == IInv /\ Finish => IInv'
<1> SUFFICES ASSUME IInv, Finish PROVE IInv'
  OBVIOUS
<1>1. /\ outcome = "parsing" /\ position = Len(line) + 1 /\ Len(line) \in Nat
      /\ options' = [options EXCEPT !.iterations = AtLeastOne(@),
                                    !.dlclose_rounds = AtLeastOne(@)]
      /\ outcome' = "run" /\ UNCHANGED << line, position >>
      /\ options = Asked(line, position) /\ Clean(line, position)
  BY LineIs DEF Finish, IInv, LineHonoured
<1>2. /\ options'.iterations = AtLeastOne(options.iterations)
      /\ options'.dlclose_rounds = AtLeastOne(options.dlclose_rounds)
  <2>1. options =
          [ library |-> options.library, plugin |-> options.plugin,
            iterations |-> options.iterations, dlclose_rounds |-> options.dlclose_rounds,
            strict |-> options.strict, verbose |-> options.verbose, use_plugin |-> options.use_plugin ]
    BY <1>1, AskedFields
  <2> QED
    BY <1>1, <2>1
<1>3. options'.iterations \in 1 .. IntMax /\ options'.dlclose_rounds \in 1 .. IntMax
  BY <1>2, OptionsAssumption DEF IInv, Ints, AtLeastOne
<1>4. \A i \in Heads(line) : ~Malformed(line, i) /\ line[i] \notin Helps
  BY <1>1 DEF Clean, Heads
<1>5. LineHonoured'
  BY <1>1 DEF LineHonoured
<1> QED
  BY <1>1, <1>3, <1>4, <1>5, OptionsAssumption
  DEF IInv, Ints, LineJudged, CountsPositive, Helps

LEMMA StepInv == IInv /\ [Next]_vars => IInv'
<1> SUFFICES ASSUME IInv, [Next]_vars PROVE IInv'
  OBVIOUS
<1>1. CASE UNCHANGED vars
  BY <1>1 DEF vars, IInv, LineHonoured, LineJudged, CountsPositive
<1>2. CASE Next
  BY <1>2, SetLibraryKeeps, SetPluginKeeps, SetIterationsKeeps, SetRoundsKeeps,
     SetFlagKeeps, HelpKeeps, UsageKeeps, FinishKeeps DEF Next
<1> QED
  BY <1>1, <1>2

-----------------------------------------------------------------------------

\* At every word, what parseArgs has put into Options is what the words before it ask
\* for when the line is read as a whole; main runs with exactly that.
THEOREM LineIsHonoured == Spec => []LineHonoured
<1>1. IInv => LineHonoured
  BY DEF IInv
<1> QED
  BY <1>1, InitInv, StepInv, PTL DEF Spec

\* main runs only a line without malformed words and without --help; any other line is
\* answered for its first such word.
THEOREM LineIsJudged == Spec => []LineJudged
<1>1. IInv => LineJudged
  BY DEF IInv
<1> QED
  BY <1>1, InitInv, StepInv, PTL DEF Spec

\* Whatever numbers the words hold and however wide int is, the counts the suites run
\* with are positive.
THEOREM CountsArePositive == Spec => []CountsPositive
<1>1. IInv => CountsPositive
  BY DEF IInv
<1> QED
  BY <1>1, InitInv, StepInv, PTL DEF Spec
=============================================================================
